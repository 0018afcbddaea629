------------------------------- MODULE Tcpip -------------------------------
(***************************************************************************)
(* Class Tcpip in lib/tcpip.cc on both ends of its connections, with the   *)
(* loop of outback_handler (daemon/threads.cc) as the daemon's caller: the *)
(* daemon listens, accepts one connection at a time and takes messages     *)
(* from anydata; the client connects and writes messages with writeNet.    *)
(*                                                                         *)
(* A message is XML text and ends with a NUL (Msgs appends std::ends).     *)
(* TCP keeps neither the writes nor the messages apart, so anydata has to, *)
(* and it does so by looking for NULs and for '<', with a static pointer   *)
(* to what one call leaves over for the next.  Here a message is four      *)
(* pieces, each told from all others: its first tag, some text, its last   *)
(* tag and its NUL, and a read returns any number of pieces.               *)
(***************************************************************************)
EXTENDS Integers, SequencesExt, FiniteSetsExt

CONSTANTS
    MaxMessages,     \* bound: messages the client sends
    MaxConnections,  \* bound: connections it makes
    MaxPartial,      \* bound: writes that take less than they are given
    WriteTries       \* select() calls writeNet waits for: `retries-- > 1' from 3

ASSUME TcpipAssumption ==
    /\ MaxMessages \in Nat
    /\ MaxConnections \in Nat \ {0}
    /\ MaxPartial \in Nat
    /\ WriteTries \in Nat \ {0}

Connections == 1..MaxConnections

None == 0

\* A message as it is in the buffer given to writeNet, and what is behind it.
Piece(m, part) == [of |-> m, part |-> part]
Message(m) == <<Piece(m, "<"), Piece(m, "text"), Piece(m, "</"), Piece(m, "nul")>>
Junk == Piece(0, "text")

Pieces == [of : 0..MaxMessages, part : {"<", "text", "</", "nul"}]

IsNul(piece) == piece.part = "nul"
IsTag(piece) == piece.part \in {"<", "</"}      \* begins with '<'

VARIABLES
    listening,  \* createNetServer has run
    pc,         \* the daemon's loop: "start" | "accept" | "read" | "crashed"
    sockfd,     \* its _sockfd: a connection, closed or not, or None
    serverEnd,  \* the connections open at the daemon's end
    leftover,   \* the static pointer of anydata, <<>> for 0
    delivered,  \* the packets anydata has returned, in order
    made,       \* connections made so far
    dialing,    \* createNetClient was refused once and tries again
    client,     \* the client's connection, or None
    clientEnd,  \* the connections open at the client's end
    backlog,    \* connections made and not yet accepted, in order
    wire,       \* connection -> pieces written and not yet read
    sending,    \* the running writeNet, see Idle
    messages,   \* messages sent so far
    partial,    \* partial writes so far
    received,   \* history: all pieces the daemon has read
    torn        \* history: some read did not return whole messages

daemonVars == <<listening, pc, sockfd, serverEnd, leftover, delivered>>
clientVars == <<made, dialing, client, clientEnd, sending, messages, partial>>
history == <<received, torn>>
vars == <<daemonVars, clientVars, backlog, wire, history>>

Idle == [message |-> None, at |-> 0, tries |-> 0]

----------------------------------------------------------------------------
(* The daemon.                                                             *)

CreateNetServer ==
    /\ pc = "start"
    /\ listening' = TRUE
    /\ pc' = "accept"
    /\ UNCHANGED <<sockfd, serverEnd, leftover, delivered, clientVars, backlog, wire, history>>

\* newNetConnection blocks in accept(); what _sockfd was is overwritten.
NewNetConnection ==
    /\ pc = "accept"
    /\ backlog # <<>>
    /\ sockfd' = Head(backlog)
    /\ serverEnd' = serverEnd \cup {Head(backlog)}
    /\ backlog' = Tail(backlog)
    /\ pc' = "read"
    /\ UNCHANGED <<listening, leftover, delivered, clientVars, wire, history>>

\* The indexes of a buffer, and those behind it.
Indexes == Nat \ {0}

\* The C string at index i of the buffer: up to the next NUL, or to the zeros
\* behind what was read.
StringAt(buf, i) ==
    LET rest == IF i > Len(buf) THEN <<>> ELSE SubSeq(buf, i, Len(buf))
        nuls == {k \in 1..Len(rest) : IsNul(rest[k])}
    IN IF nuls = {} THEN rest ELSE SubSeq(rest, 1, Min(nuls) - 1)

IsPacket(string) == string # <<>> /\ IsTag(Head(string))

\* Mutant: the loop steps as the joined packet does.
PacketsFromTwo(buf, i) ==
    LET from[k \in Indexes] ==
          LET s == StringAt(buf, k) IN
          IF IsPacket(s) THEN <<s>> \o from[k + Len(s) + 2] ELSE <<>>
    IN from[i]

\* anydata's loop from index i on, when nothing is left over: strings are
\* packets up to the first that does not begin with '<', which is thrown out.
PacketsFrom(buf, i) ==
    LET from[k \in Indexes] ==
          LET s == StringAt(buf, k) IN
          IF IsPacket(s) THEN <<s>> \o from[k + Len(s) + 1] ELSE <<>>
    IN from[i]

\* The index where that loop stops: behind the string it throws out.
StopFrom(buf, i) ==
    LET from[k \in Indexes] ==
          LET s == StringAt(buf, k) IN
          IF IsPacket(s) THEN from[k + Len(s) + 1] ELSE k + Len(s) + 1
    IN from[i]

\* Mutant: what was left over goes behind.
GlueSwapped(rest, string) == string \o rest

\* strcpy(packet, leftover); strcat(packet, ptr)
Glue(rest, string) == rest \o string

\* What one read of buf makes of it: the packets, and what is left over.
\* A single message is not joined with what is left over.  A joined packet is
\* followed by ptr = NUL + 2, one character into the next message, which then
\* does not begin with '<' any more.
Framed(buf, rest) ==
    LET first == StringAt(buf, 1)
        joined == Glue(rest, first)
        next == Len(first) + 3
    IN IF Len(buf) = Len(first) + 1
       THEN [packets |-> <<first>>, rest |-> rest]
       ELSE IF rest = <<>>
       THEN [packets |-> PacketsFrom(buf, 1), rest |-> StringAt(buf, StopFrom(buf, 1))]
       ELSE IF IsPacket(joined)
       THEN [packets |-> <<joined>> \o PacketsFrom(buf, next),
             rest |-> StringAt(buf, StopFrom(buf, next))]
       ELSE [packets |-> <<>>, rest |-> StringAt(buf, next)]

WholeMessages(buf) ==
    /\ Len(buf) % 4 = 0
    /\ \A k \in 1..(Len(buf) \div 4) : \E m \in 1..MaxMessages :
          SubSeq(buf, 4 * k - 3, 4 * k) = Message(m)

\* Mutant: closeNet forgets to close.
CloseNetLeaves == pc' = "accept" /\ UNCHANGED serverEnd

\* The handler's answer to ERROR: closeNet, which leaves the number in
\* _sockfd, and newNetConnection.
CloseNet == pc' = "accept" /\ serverEnd' = serverEnd \ {sockfd}

\* anydata reads n pieces; without a packet among them it returns ERROR.
Anydata(n) ==
    /\ pc = "read"
    /\ n \in 1..Len(wire[sockfd])
    /\ LET buf == SubSeq(wire[sockfd], 1, n)
           framed == Framed(buf, leftover)
       IN /\ delivered' = delivered \o framed.packets
          /\ leftover' = framed.rest
          /\ received' = received \o buf
          /\ torn' = (torn \/ ~WholeMessages(buf))
          /\ IF framed.packets = <<>> THEN CloseNet ELSE UNCHANGED <<pc, serverEnd>>
    /\ wire' = [wire EXCEPT ![sockfd] = SubSeq(@, n + 1, Len(@))]
    /\ UNCHANGED <<listening, sockfd, clientVars, backlog>>

\* Mutant: a read that returns nothing is always the end.
AnydataEofEarly ==
    /\ pc = "read"
    /\ wire[sockfd] = <<>>
    /\ CloseNet
    /\ UNCHANGED <<listening, sockfd, leftover, delivered, clientVars, backlog, wire, history>>

\* read() returns 0 when the client has closed, and anydata ERROR.
AnydataEof ==
    /\ pc = "read"
    /\ wire[sockfd] = <<>>
    /\ sockfd \notin clientEnd
    /\ CloseNet
    /\ UNCHANGED <<listening, sockfd, leftover, delivered, clientVars, backlog, wire, history>>

\* The packet's memory has the size adjusted_size, which nothing sets.
AnydataCrash ==
    /\ pc = "read"
    /\ wire[sockfd] # <<>>
    /\ pc' = "crashed"
    /\ UNCHANGED <<listening, sockfd, serverEnd, leftover, delivered, clientVars,
                   backlog, wire, history>>

----------------------------------------------------------------------------
(* The client.                                                             *)

\* createNetClient, when the daemon listens.
CreateNetClient ==
    /\ client = None
    /\ ~dialing
    /\ listening
    /\ made < MaxConnections
    /\ made' = made + 1
    /\ client' = made'
    /\ clientEnd' = clientEnd \cup {made'}
    /\ backlog' = Append(backlog, made')
    /\ UNCHANGED <<daemonVars, dialing, sending, messages, partial, wire, history>>

\* The first connect() is refused; select() waits up to five seconds.
ConnectRefused ==
    /\ client = None
    /\ ~dialing
    /\ ~listening
    /\ dialing' = TRUE
    /\ UNCHANGED <<daemonVars, made, client, clientEnd, sending, messages, partial,
                   backlog, wire, history>>

\* The second connect(): its success, 0, is taken for a failure and the
\* socket closed.
ConnectAgain ==
    /\ dialing
    /\ dialing' = FALSE
    /\ IF listening /\ made < MaxConnections
       THEN made' = made + 1 /\ backlog' = Append(backlog, made')
       ELSE UNCHANGED <<made, backlog>>
    /\ UNCHANGED <<daemonVars, client, clientEnd, sending, messages, partial, wire, history>>

\* writeNet is called with the next message.
WriteNet ==
    /\ client # None
    /\ sending = Idle
    /\ messages < MaxMessages
    /\ messages' = messages + 1
    /\ sending' = [message |-> messages', at |-> 0, tries |-> WriteTries]
    /\ UNCHANGED <<daemonVars, made, dialing, client, clientEnd, partial, backlog, wire, history>>

Connected == client \in serverEnd \cup Range(backlog)

\* What n bytes from bufptr are: past the end of the message anything.
FromBuffer(n) ==
    [i \in 1..n |-> IF sending.at + i <= 4
                    THEN Message(sending.message)[sending.at + i] ELSE Junk]

\* write() takes less than nbytes: bufptr moves on and nbytes stays.
WritePart(n) ==
    /\ sending # Idle
    /\ Connected
    /\ n \in 1..3
    /\ partial < MaxPartial
    /\ partial' = partial + 1
    /\ wire' = [wire EXCEPT ![client] = @ \o FromBuffer(n)]
    /\ sending' = [sending EXCEPT !.at = @ + n]
    /\ UNCHANGED <<daemonVars, made, dialing, client, clientEnd, messages, backlog, history>>

WriteAll ==
    /\ sending # Idle
    /\ Connected
    /\ wire' = [wire EXCEPT ![client] = @ \o FromBuffer(4)]
    /\ sending' = Idle
    /\ UNCHANGED <<daemonVars, made, dialing, client, clientEnd, messages, partial,
                   backlog, history>>

\* Mutant: the tries are not looked at.
WriteTimeoutAgain ==
    /\ sending # Idle
    /\ sending' = [sending EXCEPT !.tries = @ - 1]
    /\ UNCHANGED <<daemonVars, made, dialing, client, clientEnd, messages, partial,
                   backlog, wire, history>>

\* select() times out, and with no tries left the message is given up.
WriteTimeout ==
    /\ sending # Idle
    /\ sending' = IF sending.tries = 1 THEN Idle ELSE [sending EXCEPT !.tries = @ - 1]
    /\ UNCHANGED <<daemonVars, made, dialing, client, clientEnd, messages, partial,
                   backlog, wire, history>>

\* The daemon has closed: write() fails.
WriteError ==
    /\ sending # Idle
    /\ ~Connected
    /\ sending' = Idle
    /\ UNCHANGED <<daemonVars, made, dialing, client, clientEnd, messages, partial,
                   backlog, wire, history>>

ClientCloseNet ==
    /\ client # None
    /\ sending = Idle
    /\ clientEnd' = clientEnd \ {client}
    /\ client' = None
    /\ UNCHANGED <<daemonVars, made, dialing, sending, messages, partial, backlog, wire, history>>

----------------------------------------------------------------------------
Init ==
    /\ listening = FALSE
    /\ pc = "start"
    /\ sockfd = None
    /\ serverEnd = {}
    /\ leftover = <<>>
    /\ delivered = <<>>
    /\ made = 0
    /\ dialing = FALSE
    /\ client = None
    /\ clientEnd = {}
    /\ backlog = <<>>
    /\ wire = [c \in Connections |-> <<>>]
    /\ sending = Idle
    /\ messages = 0
    /\ partial = 0
    /\ received = <<>>
    /\ torn = FALSE

Daemon ==
    \/ CreateNetServer
    \/ NewNetConnection
    \/ \E n \in 1..(4 * MaxMessages + 3 * MaxPartial) : Anydata(n)
    \/ AnydataEof
    \/ AnydataCrash

Client ==
    \/ CreateNetClient \/ ConnectRefused \/ ConnectAgain
    \/ WriteNet \/ (\E n \in 1..3 : WritePart(n)) \/ WriteAll
    \/ WriteTimeout \/ WriteError
    \/ ClientCloseNet

Next == Daemon \/ Client

Spec == Init /\ [][Next]_vars

----------------------------------------------------------------------------
TypeOK ==
    /\ listening \in BOOLEAN
    /\ pc \in {"start", "accept", "read", "crashed"}
    /\ sockfd \in Connections \cup {None}
    /\ serverEnd \subseteq Connections
    /\ leftover \in Seq(Pieces)
    /\ delivered \in Seq(Seq(Pieces))
    /\ made \in 0..MaxConnections
    /\ dialing \in BOOLEAN
    /\ client \in Connections \cup {None}
    /\ clientEnd \subseteq Connections
    /\ backlog \in Seq(Connections)
    /\ wire \in [Connections -> Seq(Pieces)]
    /\ sending \in [message : 0..MaxMessages, at : 0..(3 * MaxPartial), tries : 0..WriteTries]
    /\ messages \in 0..MaxMessages
    /\ partial \in 0..MaxPartial
    /\ received \in Seq(Pieces)
    /\ torn \in BOOLEAN

\* As long as each read returns whole messages, one or several, the packets
\* are the messages that were read, each whole, in their order and none
\* missing or made up, over any number of connections (anydata, writeNet).
DeliveredWhole ==
    ~torn => delivered = [k \in 1..(Len(received) \div 4) |->
                             SubSeq(received, 4 * k - 3, 4 * k - 1)]

\* However TCP cuts what is sent, nothing of a message is delivered twice or
\* both delivered and kept for later, and within a packet the pieces of a
\* message have the order they were sent in (anydata's static leftover).
PiecesOnce ==
    LET kept == Append(delivered, leftover) IN
    /\ \A k, l \in 1..Len(kept) : \A i \in 1..Len(kept[k]), j \in 1..Len(kept[l]) :
          kept[k][i] = kept[l][j] /\ <<k, i>> # <<l, j>> => kept[k][i].of = 0
    /\ \A k \in 1..Len(delivered) : \A i, j \in 1..Len(delivered[k]) :
          i < j /\ delivered[k][i].of > 0 /\ delivered[k][j].of > 0
            => delivered[k][i].of <= delivered[k][j].of

\* The daemon never leaves a connection open behind the one it reads from
\* (closeNet before newNetConnection, which overwrites _sockfd).
NoneLeftOpen == serverEnd \subseteq {sockfd} /\ (pc = "accept" => serverEnd = {})

\* The messages at the front of a connection's pieces, by their numbers.
Arriving(w) ==
    LET whole == {j \in 1..(Len(w) \div 4) : WholeMessages(SubSeq(w, 1, 4 * j))}
    IN [j \in whole |-> w[4 * j - 3].of]

Line == INSTANCE Channel WITH
    Messages <- 1..MaxMessages,
    writer <- client,
    accepted <- sockfd,
    daemon <- CASE pc = "read" -> "reading" [] pc = "crashed" -> "crashed" [] OTHER -> "waiting",
    flight <- [c \in Connections |-> Arriving(wire[c])],
    taken <- [k \in 1..Len(delivered) |-> delivered[k][1].of]

\* As long as each read returns whole messages, Tcpip carries messages: they
\* arrive once and in order, connection after connection, and the daemon hangs
\* up on none that still carries one or that the client may write to, whatever
\* writes are partial, given up or fail (writeNet, anydata, newNetConnection).
MessagesArrive == Line!Spec
=============================================================================
