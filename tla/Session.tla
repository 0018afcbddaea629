------------------------------ MODULE Session ------------------------------
(***************************************************************************)
(* A session between the daemon pgd and its command line client pguru over *)
(* TCP: client_handler (daemon/threads.cc) on one side, console_handler    *)
(* and daemon_handler (client/threads.cc), two threads sharing one socket, *)
(* on the other, with Commands (lib/commands.cc) writing the messages and  *)
(* XML (lib/xml.cc) reading them.                                          *)
(*                                                                         *)
(* Neither side delimits messages: a message is whatever one read_some()   *)
(* returns.  So the streams are modelled below the level of messages, as   *)
(* sequences of cells: a message is two cells (a result is one), the       *)
(* zeros a buffer is padded with are Nul cells, and a read takes as many   *)
(* cells as have arrived and fit its buffer.  Both programs parse a buffer *)
(* up to its first zero, and go on with an uninitialised XML object when   *)
(* the parser refuses it: from there the model lets them crash or take     *)
(* either branch.  What a user types is put into the message as it is, so  *)
(* a line with a '&' or a '<' makes a message no parser accepts.           *)
(***************************************************************************)
EXTENDS Integers, Sequences

CONSTANTS
    Clients,   \* the runs of pguru
    None,      \* no client
    Lines,     \* bound on the lines a user types in one run of pguru
    DBuf,      \* cells in client_handler's buffer (4096 bytes)
    CBuf,      \* cells in daemon_handler's buffer (1024 bytes)
    Tearing,   \* a read may get less than what has been written
    LockStep   \* the user waits for each answer before typing on

ASSUME SessionAssumption ==
    /\ None \notin Clients
    /\ Lines \in Nat
    /\ CBuf \in Nat /\ CBuf > 3
    /\ DBuf \in Nat /\ DBuf >= CBuf
    /\ Tearing \in BOOLEAN
    /\ LockStep \in BOOLEAN

VARIABLES
    \* pgd, the thread client_handler
    daemon,    \* "accept" | "handshake" | "greet" | "serve" | "done" | "crashed"
    conn,      \* the client whose connection was accepted
    handshake, \* what the first read of the connection returned
    answered,  \* the text of the requests answered so far, cell by cell
    \* pguru, per run
    client,    \* "off" | "greet" | "open" | "refused" | "gone" | "crashed"
    typed,     \* lines the console thread has sent
    sent,      \* everything the two threads have written, cell by cell
    received,  \* the last chunk daemon_handler read
    buffer,    \* the contents of daemon_handler's buffer
    greeted,   \* daemon_handler has seen the daemon's HELO
    results,   \* results it has shown
    \* the two directions of each connection
    up, down

daemonVars == <<daemon, conn, handshake, answered>>
clientVars == <<client, typed, sent, received, buffer, greeted, results>>
vars == <<daemonVars, clientVars, up, down>>

----------------------------------------------------------------------------
(* Messages.                                                               *)

\* What a line becomes: a command, a HELO, or a text that is not XML, when an
\* argument has a character XML gives a meaning.
LineKinds == {"command", "helo", "malformed"}

\* A cell: the kind and number of the message and its place in it.
Kinds == LineKinds \cup {"result"}
Size(kind) == IF kind = "result" THEN 1 ELSE 2
Message(kind, n) == [k \in 1..Size(kind) |-> <<kind, n, k>>]
Messages == {Message(kind, n) : kind \in Kinds, n \in 0..Lines}

Nul == <<"nul", 0, 0>>
\* Mutant: the buffers are filled with the character '0'.
ZerosOfText(n) == [k \in 1..n |-> <<"0", 0, 0>>]
Zeros(n) == [k \in 1..n |-> Nul]
Cell == {<<kind, n, k>> : kind \in Kinds, n \in 0..Lines, k \in 1..2} \cup {Nul}

\* A buffer of `size' cells after `chunk' was read to its start.
ReadInto(buf, chunk) == chunk \o SubSeq(buf, Len(chunk) + 1, Len(buf))

\* What a C string made of the buffer holds: everything up to the first zero.
Text(buf) ==
    LET ends == {k \in 1..Len(buf) : buf[k] = Nul}
    IN IF ends = {} THEN buf
       ELSE SubSeq(buf, 1, (CHOOSE k \in ends : \A j \in ends : k <= j) - 1)

\* bytes[0] == '<': the buffer begins where some message begins.
StartsMessage(buf) == buf[1] # Nul /\ buf[1][3] = 1

\* XML::parseMem accepts one document and nothing but zeros behind it.
Parses(buf) == Text(buf) \in Messages /\ buf[1][1] # "malformed"

\* How much a read with a buffer of `size' cells may return.
Chunks(stream, size) ==
    LET most == IF Len(stream) < size THEN Len(stream) ELSE size
    IN IF Tearing THEN 1..most ELSE {most} \ {0}

----------------------------------------------------------------------------
(* pguru.                                                                  *)

\* main connects to the daemon, and gives up if nobody listens.
Connect(c) ==
    /\ client[c] = "off"
    /\ client' = [client EXCEPT ![c] =
                    IF daemon \in {"done", "crashed"} THEN "refused" ELSE "greet"]
    /\ UNCHANGED <<daemonVars, typed, sent, received, buffer, greeted, results, up, down>>

\* Both threads write to the same socket; write() sends the whole string, and
\* nobody looks at its error code.
ClientWrite(c, str) ==
    /\ up' = [up EXCEPT ![c] = @ \o str]
    /\ sent' = [sent EXCEPT ![c] = @ \o str]

\* daemon_handler sends its HELO.
SendHelo(c) ==
    /\ client[c] = "greet"
    /\ client' = [client EXCEPT ![c] = "open"]
    /\ ClientWrite(c, Message("helo", 0))
    /\ UNCHANGED <<daemonVars, typed, received, buffer, greeted, results, down>>

\* Mutant: the string the command is built in still holds the one before.
CreateCommandAppended(kind, n) ==
    IF n > 1 THEN Message(kind, n - 1) \o Message(kind, n) ELSE Message(kind, n)

\* The command console_handler makes of a line: any word it does not know is a
\* NOP, an empty line at the end of the input too, and "helo" is a HELO.  The
\* arguments are put between the tags as they were typed.
CreateCommand(kind, n) == Message(kind, n)

\* console_handler sends the command; it does not wait for the other thread.
TypeLine(c) ==
    /\ client[c] \in {"greet", "open"}
    /\ typed[c] < Lines
    /\ LockStep => greeted[c] /\ results[c] = typed[c]
    /\ typed' = [typed EXCEPT ![c] = @ + 1]
    /\ \E kind \in LineKinds : ClientWrite(c, CreateCommand(kind, typed'[c]))
    /\ UNCHANGED <<daemonVars, client, received, buffer, greeted, results, down>>

\* daemon_handler takes a chunk off the socket, into a buffer it does not clear.
ClientRead(c) ==
    /\ client[c] = "open"
    /\ \E n \in Chunks(down[c], CBuf) :
          /\ received' = [received EXCEPT ![c] = SubSeq(down[c], 1, n)]
          /\ down' = [down EXCEPT ![c] = SubSeq(@, n + 1, Len(@))]
    /\ buffer' = [buffer EXCEPT ![c] = ReadInto(@, received'[c])]
    /\ \/ /\ ~StartsMessage(buffer'[c])
          /\ UNCHANGED <<client, greeted, results>>
       \/ /\ StartsMessage(buffer'[c])
          /\ Parses(buffer'[c])
          /\ greeted' = [greeted EXCEPT ![c] = @ \/ Text(buffer'[c]) = Message("helo", 0)]
          /\ results' = [results EXCEPT ![c] =
                            IF buffer'[c][1][1] = "result" THEN @ + 1 ELSE @]
          /\ client' = client
       \/ /\ StartsMessage(buffer'[c])
          /\ ~Parses(buffer'[c])
          /\ client' \in {client, [client EXCEPT ![c] = "crashed"]}
          /\ UNCHANGED <<greeted, results>>
    /\ UNCHANGED <<daemonVars, typed, sent, up>>

\* With the daemon gone read_some() fails at once, the error goes unnoticed and
\* the buffer, untouched, is acted on once more, for ever.  (What is shown
\* again is not counted in results.)
ClientEof(c) ==
    /\ client[c] = "open"
    /\ daemon \in {"done", "crashed"}
    /\ down[c] = <<>>
    /\ received' = [received EXCEPT ![c] = <<>>]
    /\ client' \in {client} \cup
                  IF StartsMessage(buffer[c]) /\ ~Parses(buffer[c])
                  THEN {[client EXCEPT ![c] = "crashed"]} ELSE {}
    /\ UNCHANGED <<daemonVars, typed, sent, buffer, greeted, results, up, down>>

\* The user ends pguru, which by itself never ends.
Quit(c) ==
    /\ client[c] \in {"greet", "open"}
    /\ client' = [client EXCEPT ![c] = "gone"]
    /\ UNCHANGED <<daemonVars, typed, sent, received, buffer, greeted, results, up, down>>

----------------------------------------------------------------------------
(* pgd.                                                                    *)

\* The connection a client_handler accepts is the only one of its life.
Accept(c) ==
    /\ daemon = "accept"
    /\ client[c] \notin {"off", "refused"}
    /\ daemon' = "handshake"
    /\ conn' = c
    /\ UNCHANGED <<handshake, answered, clientVars, up, down>>

\* The first read: whatever comes is the handshake, and is not looked at.
Handshake ==
    /\ daemon = "handshake"
    /\ \/ \E n \in Chunks(up[conn], DBuf) :
             /\ handshake' = SubSeq(up[conn], 1, n)
             /\ up' = [up EXCEPT ![conn] = SubSeq(@, n + 1, Len(@))]
       \/ /\ up[conn] = <<>>
          /\ client[conn] \in {"gone", "crashed"}
          /\ UNCHANGED <<handshake, up>>
    /\ daemon' = "greet"
    /\ UNCHANGED <<conn, answered, clientVars, down>>

SendHeloBack ==
    /\ daemon = "greet"
    /\ daemon' = "serve"
    /\ down' = [down EXCEPT ![conn] = @ \o Message("helo", 0)]
    /\ UNCHANGED <<conn, handshake, answered, clientVars, up>>

\* Mutant: the buffer is not cleared, and still holds an earlier request.
RequestUncleared(chunk) == ReadInto(SubSeq(answered \o Zeros(DBuf), 1, DBuf), chunk)

\* The string the request is copied to: the whole buffer, cleared before the read.
Request(chunk) == ReadInto(Zeros(DBuf), chunk)

\* Mutants: the reply is the bare result; the result is left out.
ReplyBare(n, str) == Message("result", n)
ReplyWithoutResult(n, str) == str

\* execCommand appends the result to the request, and both are sent.
Reply(n, str) == str \o Message("result", n)

ExecCommand(str) ==
    /\ down' = [down EXCEPT ![conn] = @ \o Reply(0, str)]
    /\ answered' = answered \o Text(str)

\* One round of the loop that serves the connection.
Serve ==
    /\ daemon = "serve"
    /\ \E n \in Chunks(up[conn], DBuf) :
          LET str == Request(SubSeq(up[conn], 1, n))
          IN /\ up' = [up EXCEPT ![conn] = SubSeq(@, n + 1, Len(@))]
             /\ \/ /\ ~StartsMessage(str)
                   /\ UNCHANGED <<daemon, down, answered>>
                \/ /\ StartsMessage(str)
                   /\ Parses(str)
                   /\ IF str[1][1] = "helo"
                      THEN UNCHANGED <<down, answered>>
                      ELSE ExecCommand(str)
                   /\ daemon' = daemon
                \/ /\ StartsMessage(str)
                   /\ ~Parses(str)
                   /\ \/ daemon' = "crashed" /\ UNCHANGED <<down, answered>>
                      \/ daemon' = daemon /\ UNCHANGED <<down, answered>>
                      \/ daemon' = daemon /\ ExecCommand(str)
    /\ UNCHANGED <<conn, handshake, clientVars>>

\* The client dropped the connection: client_handler returns, and closes the
\* socket it listens on with it.
ServeEof ==
    /\ daemon = "serve"
    /\ up[conn] = <<>>
    /\ client[conn] \in {"gone", "crashed"}
    /\ daemon' = "done"
    /\ UNCHANGED <<conn, handshake, answered, clientVars, up, down>>

----------------------------------------------------------------------------
Init ==
    /\ daemon = "accept"
    /\ conn = None
    /\ handshake = <<>>
    /\ answered = <<>>
    /\ client = [c \in Clients |-> "off"]
    /\ typed = [c \in Clients |-> 0]
    /\ sent = [c \in Clients |-> <<>>]
    /\ received = [c \in Clients |-> <<>>]
    /\ buffer = [c \in Clients |-> Zeros(CBuf)]
    /\ greeted = [c \in Clients |-> FALSE]
    /\ results = [c \in Clients |-> 0]
    /\ up = [c \in Clients |-> <<>>]
    /\ down = [c \in Clients |-> <<>>]

ClientStep(c) == SendHelo(c) \/ ClientRead(c) \/ ClientEof(c)
DaemonStep == (\E c \in Clients : Accept(c)) \/ Handshake \/ SendHeloBack \/ Serve \/ ServeEof

Next ==
    \/ \E c \in Clients :
          Connect(c) \/ TypeLine(c) \/ Quit(c) \/ ClientStep(c)
    \/ DaemonStep

Spec == Init /\ [][Next]_vars

\* Both programs' threads are scheduled; users owe nobody anything.
FairSpec ==
    /\ Spec
    /\ WF_vars(DaemonStep)
    /\ \A c \in Clients : WF_vars(ClientStep(c))

----------------------------------------------------------------------------
TypeOK ==
    /\ daemon \in {"accept", "handshake", "greet", "serve", "done", "crashed"}
    /\ conn \in Clients \cup {None}
    /\ handshake \in Seq(Cell)
    /\ answered \in Seq(Cell)
    /\ client \in [Clients -> {"off", "greet", "open", "refused", "gone", "crashed"}]
    /\ typed \in [Clients -> 0..Lines]
    /\ sent \in [Clients -> Seq(Cell)]
    /\ received \in [Clients -> Seq(Cell)]
    /\ buffer \in [Clients -> Seq(Cell)]
    /\ greeted \in [Clients -> BOOLEAN]
    /\ results \in [Clients -> Nat]
    /\ up \in [Clients -> Seq(Cell)]
    /\ down \in [Clients -> Seq(Cell)]

\* Where the client wrote a cell (no cell is written twice).
WrittenAt(cell) == {k \in 1..Len(sent[conn]) : sent[conn][k] = cell}

\* No part of a request is answered twice, and requests are answered in the
\* order they were sent, however the reads cut the stream (client_handler).
AnsweredOnceInOrder ==
    \A i, j \in 1..Len(answered) : i < j =>
        \E k \in WrittenAt(answered[i]), l \in WrittenAt(answered[j]) : k < l

\* The message client c has written last is of one of these kinds.
WroteLast(c, kinds) == sent[c] # <<>> /\ sent[c][Len(sent[c])][1] \in kinds

\* A user who waits for the answers brings down a program by nothing but the
\* text of the last line: no read ever returns less or more than one message,
\* and what went wrong with an earlier line is over (client_handler,
\* daemon_handler).
OnlyMalformedCrashes ==
    /\ daemon = "crashed" => WroteLast(conn, {"malformed"})
    /\ \A c \in Clients : client[c] = "crashed" => WroteLast(c, {"malformed"})

\* What daemon_handler parses is what it has just received: nothing of an
\* earlier message is left in its buffer.
TextIsReceived ==
    \A c \in Clients : received[c] # <<>> => Text(buffer[c]) = Text(received[c])

\* The commands answered, by their numbers; each is two cells.
AnsweredCommands == [k \in 1..(Len(answered) \div 2) |-> answered[2 * k - 1][2]]

Calls == INSTANCE Console WITH
    served <- conn, asked <- typed, answers <- AnsweredCommands, shown <- results

\* For a user who waits, the threads, streams, buffers and reads of a session
\* are calls: each step is one of Console, or none of its variables changes
\* (console_handler, daemon_handler, client_handler).
CommandsAreCalls == Calls!Spec

\* Each line typed has its result shown, but for the last one if it was a HELO,
\* which pgd does not answer, or malformed.
Shown(c) ==
    \/ results[c] = typed[c]
    \/ results[c] = typed[c] - 1 /\ WroteLast(c, {"helo", "malformed"})

\* No result is lost on its way: once nothing is under way between pgd and the
\* client it greeted, each command typed has its result shown.  (A result read
\* behind the zeros of its reply would not be: daemon_handler looks at the
\* first character of what it reads.)
QuietMeansShown ==
    \A c \in Clients :
        client[c] = "open" /\ greeted[c] /\ up[c] = <<>> /\ down[c] = <<>>
            => Shown(c)

\* Every command that is XML gets its answer, as long as the client runs.
EveryCommandAnswered ==
    \A c \in Clients : []<>(conn = c /\ client[c] = "open" => Shown(c))

=============================================================================
