------------------------------ MODULE Channel -------------------------------
(***************************************************************************)
(* What a caller of Tcpip may count on, and Msgs does: messages.  On each  *)
(* connection they arrive whole, each once and in the order they were      *)
(* sent; connections are served one after another in the order they were   *)
(* made, and none is given up while there is a message on it or a client   *)
(* who may write one.  All of it ends with the first read that is torn,    *)
(* one that returns something other than whole messages.                   *)
(***************************************************************************)
EXTENDS Integers, Sequences

CONSTANTS
    Connections,  \* 1..n, in the order they are made
    Messages,     \* the messages, numbered in the order they are written
    None          \* no connection

VARIABLES
    made,      \* connections made so far
    writer,    \* the connection the client may write to
    accepted,  \* the last connection the daemon accepted
    daemon,    \* "waiting" | "reading" | "crashed"
    flight,    \* connection -> messages sent and not yet taken
    taken,     \* messages the daemon has taken, in order
    torn       \* a read was torn

vars == <<made, writer, accepted, daemon, flight, taken, torn>>

Init ==
    /\ made = 0
    /\ writer = None
    /\ accepted = 0
    /\ daemon = "waiting"
    /\ flight = [c \in Connections |-> <<>>]
    /\ taken = <<>>
    /\ torn = FALSE

\* The second connect() of createNetClient leaves a connection nobody writes to.
Connect ==
    /\ writer = None
    /\ made + 1 \in Connections
    /\ made' = made + 1
    /\ writer' \in {None, made + 1}
    /\ UNCHANGED <<accepted, daemon, flight, taken>>

HangUp ==
    /\ writer # None
    /\ writer' = None
    /\ UNCHANGED <<made, accepted, daemon, flight, taken>>

\* A message later than all that were sent. Some are never sent (writeNet gives up).
Send(m) ==
    /\ writer # None
    /\ \A c \in Connections : \A k \in 1..Len(flight[c]) : flight[c][k] < m
    /\ \A k \in 1..Len(taken) : taken[k] < m
    /\ flight' = [flight EXCEPT ![writer] = Append(@, m)]
    /\ UNCHANGED <<made, writer, accepted, daemon, taken>>

Accept ==
    /\ daemon = "waiting"
    /\ accepted < made
    /\ accepted' = accepted + 1
    /\ daemon' = "reading"
    /\ UNCHANGED <<made, writer, flight, taken>>

\* The next messages, one or several.
Take ==
    /\ daemon = "reading"
    /\ \E n \in 1..Len(flight[accepted]) :
          /\ taken' = taken \o SubSeq(flight[accepted], 1, n)
          /\ flight' = [flight EXCEPT ![accepted] = SubSeq(@, n + 1, Len(@))]
    /\ UNCHANGED <<made, writer, accepted, daemon>>

Close ==
    /\ daemon = "reading"
    /\ writer # accepted
    /\ flight[accepted] = <<>>
    /\ daemon' = "waiting"
    /\ UNCHANGED <<made, writer, accepted, flight, taken>>

Crash ==
    /\ daemon = "reading"
    /\ daemon' = "crashed"
    /\ UNCHANGED <<made, writer, accepted, flight, taken>>

Carry ==
    \/ Connect \/ HangUp \/ (\E m \in Messages : Send(m))
    \/ Accept \/ Take \/ Close \/ Crash

\* Nothing is promised once a read was torn.
Next == torn' \/ (~torn /\ ~torn' /\ Carry)

Spec == Init /\ [][Next]_vars
=============================================================================
