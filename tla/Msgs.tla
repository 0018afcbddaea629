-------------------------------- MODULE Msgs --------------------------------
(***************************************************************************)
(* Class Msgs of lib/msgs.cc at both ends of one connection: the daemon    *)
(* (init(true)) and a client (init(hostname) or init(CLIENT)).             *)
(*                                                                         *)
(* A message is an XML document; here it is the sequence of its nodes in   *)
(* the order Msgs::process visits them, parent before children, each with  *)
(* its name and its text.  process looks the name up in _methods and calls *)
(* what it finds: a method may write a message to the other end or put the *)
(* node into _cache.  methodGet has no return statement for a name that is *)
(* not in the table, so what is called then is undefined.                  *)
(*                                                                         *)
(* writeNet delivers whole messages in order (Tcpip, as long as no read    *)
(* cuts a message).  Only commandProcess writes "\r\n" behind the NUL of   *)
(* its message, and anydata throws away a string that does not begin with  *)
(* '<': read together with the next message, the two are one such string.  *)
(*                                                                         *)
(* Nothing in the sources calls process.  Here an end may hand it each     *)
(* message anydata returns, whenever it likes, and nothing obliges it to.  *)
(***************************************************************************)
EXTENDS Integers, Sequences, FiniteSets

CONSTANTS
    Requests,     \* the requests the client may make, see AllRequests
    MaxRequests   \* bound: requests it makes

MeterTags ==
    {"charge-amps", "load-amps", "battery-volts", "ac-volts-out", "ac1-volts-in",
     "ac2-volts-in", "pv-amps-in", "pv-volts-in", "buy-amps", "sell-amps",
     "daily-kwh", "hertz", "tempcomp"}
StatusTags == {"sysversion", "revision", "errormode", "warningmode", "opmode"}
ConfigTags == {"generator", "grid", "buy", "sell", "charge"}
CommandTags == {"generator", "grid", "relay", "auxilary", "poll", "inverter", "charger"}

\* requestCreate for each of its four enumerations, configCreate ("setting"),
\* and the <command> message commandProcess is for ("order").
AllRequests ==
    [kind : {"meters"}, tag : MeterTags] \cup [kind : {"status"}, tag : StatusTags]
    \cup [kind : {"config", "setting"}, tag : ConfigTags]
    \cup [kind : {"command", "order"}, tag : CommandTags]

ASSUME MsgsAssumption == Requests \subseteq AllRequests /\ MaxRequests \in Nat

Ends == {"DAEMON", "CLIENT"}
Other(end) == IF end = "DAEMON" THEN "CLIENT" ELSE "DAEMON"

Node(name, value) == [name |-> name, value |-> value]
Top == Node("powerguru", "")

----------------------------------------------------------------------------
(* The messages.                                                           *)

Helo == <<Top, Node("client", "host"), Node("server", "host")>>

\* A command's request is wrapped in <status>, as requestCreate has it.
RequestCreate(r) ==
    CASE r.kind = "setting" -> <<Top, Node(r.tag, "value")>>
      [] r.kind = "command" -> <<Top, Node("status", r.tag)>>
      [] r.kind = "order"   -> <<Top, Node("command", r.tag)>>
      [] OTHER              -> <<Top, Node(r.kind, r.tag)>>

\* Mutant: tag and value swapped.
ResponseCreateSwapped(type, tag, value) == <<Top, Node(type, ""), Node(value, tag)>>

ResponseCreate(type, tag, value) == <<Top, Node(type, ""), Node(tag, value)>>

Unimplemented(name) ==
    <<Top, Node("status", ""), Node("warningmode", ""), Node(name, "unimplemented")>>

\* What commandProcess writes behind its message.
CrLf == <<>>

----------------------------------------------------------------------------
(* The table of methods, init(void).                                       *)

\* The nodes of a helo, whose methods only log and compare.
HeloNodes == {"powerguru", "helo", "client", "server"}

\* The readings, whose methods only log.
ReadingTags ==
    {"charge-mps", "load-amps", "pv-amps", "pv-volts", "daily-kwh", "hertz",
     "battery-volts", "buy-amps", "sell-amps", "ac-volts-out", "ac1-volts-in",
     "ac2-volts-in"}
StatusNodes == {"status", "version", "revision", "opmode", "errormode", "warningmode"}
ConfigNodes == {"config", "generator", "grid", "buy", "sell", "start", "end"}
\* Mutant: a line forgotten.
CommandNodesShort == {"command", "auxilary", "poll", "inverter", "charger"}
CommandNodes == {"command", "auxilary", "relay", "poll", "inverter", "charger"}

Methods ==
    HeloNodes \cup {"meters"} \cup ReadingTags \cup StatusNodes \cup ConfigNodes \cup CommandNodes

Nothing == "nothing"

\* The daemon's _cache: fake readings.
DaemonCache(tag) ==
    CASE tag \in {"version", "revision"} -> "VERSION"
      [] tag = "battery-volts" -> "88888888"
      [] tag = "charge-amps"   -> "777777777"
      [] tag = "load-amps"     -> "66666666"
      [] tag = "pv-amps"       -> "55555555"
      [] tag = "sell-amps"     -> "444444444444"
      [] OTHER                 -> Nothing

Values == {Nothing, "", "value", "host", "unimplemented", "VERSION", "88888888",
           "777777777", "66666666", "55555555", "444444444444", "version", "0.0",
           "none", "inverter", "foobar"}

VARIABLES
    listening,  \* createNetServer has run
    mode,       \* end -> _net_mode: "NONET" | "DAEMON" | "CLIENT"
    accepted,   \* newNetConnection has returned
    cache,      \* end -> (tag -> _cache[tag], Nothing for no entry)
    inbox,      \* end -> messages written to it and not yet taken
    todo,       \* end -> nodes of its current message still to process
    undefined,  \* the ends that called what methodGet made up
    asked,      \* history: the requests made, in order
    answers,    \* history: the tags of the answers the client took, in order
    swallowed   \* history: a message was lost behind "\r\n"

vars == <<listening, mode, accepted, cache, inbox, todo, undefined, asked, answers, swallowed>>

CacheTags == Methods \cup MeterTags

----------------------------------------------------------------------------
(* What the methods do: the messages a node makes an end write, and what   *)
(* it puts into the cache.                                                 *)

\* Mutant: a reading without a value is not answered.
MetersProcessSilent(end, node) ==
    IF end = "DAEMON" /\ node.value \in CacheTags /\ cache[end][node.value] # Nothing
    THEN <<ResponseCreate("meters", node.value, cache[end][node.value])>> ELSE <<>>

\* metersProcess looks the text up; an unknown reading gives an empty answer.
MetersProcess(end, node) ==
    IF end # "DAEMON" THEN <<>>
    ELSE <<ResponseCreate("meters", node.value,
              IF node.value \in CacheTags /\ cache[end][node.value] # Nothing
              THEN cache[end][node.value] ELSE "")>>

\* Mutant: the client answers a status, too.
StatusProcessBoth(end, node) == <<ResponseCreate("status", "opmode", "none")>>

\* statusProcess; for any other text the daemon writes an empty string, which
\* is no message.
StatusProcess(end, node) ==
    IF end # "DAEMON" THEN <<>>
    ELSE CASE node.value = "sysversion" -> <<ResponseCreate("status", node.value, "version")>>
           [] node.value = "revision"   -> <<ResponseCreate("status", node.value, "0.0")>>
           [] node.value \in {"opmode", "warningmode", "errormode"} ->
                <<ResponseCreate("status", node.value, "none")>>
           [] OTHER -> <<>>

\* commandProcess: an empty text makes a document that cannot be parsed.
CommandProcess(end, node) ==
    IF end # "DAEMON" THEN <<>>
    ELSE CASE node.value = "auxilary" -> <<ResponseCreate("command", node.value, "0.0"), CrLf>>
           [] node.value = "relay"    -> <<ResponseCreate("command", node.value, "none"), CrLf>>
           [] node.value = "poll"     -> <<ResponseCreate("command", node.value, "inverter"), CrLf>>
           [] OTHER                   -> <<ResponseCreate("response", node.value, "foobar"), CrLf>>

\* Mutant: a config node is answered for itself and for its warning.
ConfigProcessTwice(end, node) == <<Unimplemented(node.name), Unimplemented(node.name)>>

\* configProcess, on either end.
ConfigProcess(end, node) == <<Unimplemented(node.name)>>

Written(end, node) ==
    CASE node.name = "meters"         -> MetersProcess(end, node)
      [] node.name \in StatusNodes    -> StatusProcess(end, node)
      [] node.name \in ConfigNodes    -> ConfigProcess(end, node)
      [] node.name \in CommandNodes   -> CommandProcess(end, node)
      [] OTHER                        -> <<>>

\* Mutant: the node of the answer's kind is cached as well.
CachesAll(end, node) == end = "CLIENT" /\ node.name \in StatusNodes \cup CommandNodes

\* The client caches the nodes below <status> and <command>.
Caches(end, node) ==
    /\ end = "CLIENT"
    /\ node.name \in (StatusNodes \ {"status"}) \cup (CommandNodes \ {"command"})

----------------------------------------------------------------------------
(* Connecting, init(bool) and init(hostname).                              *)

Send(to, messages) == inbox' = [inbox EXCEPT ![to] = @ \o messages]

\* init(true) of the daemon: createNetServer and the table; it then waits in
\* newNetConnection.
InitDaemon ==
    /\ ~listening
    /\ listening' = TRUE
    /\ mode' = [mode EXCEPT !["DAEMON"] = "DAEMON"]
    /\ cache' = [cache EXCEPT !["DAEMON"] = [tag \in CacheTags |-> DaemonCache(tag)]]
    /\ UNCHANGED <<accepted, inbox, todo, undefined, asked, answers, swallowed>>

\* The client connects, fills its table and becomes a CLIENT; init(hostname)
\* says helo, init(CLIENT) does not.
InitClient(greets) ==
    /\ listening
    /\ mode["CLIENT"] = "NONET"
    /\ mode' = [mode EXCEPT !["CLIENT"] = "CLIENT"]
    /\ Send("DAEMON", IF greets THEN <<Helo>> ELSE <<>>)
    /\ UNCHANGED <<listening, accepted, cache, todo, undefined, asked, answers, swallowed>>

\* newNetConnection returns and the daemon says helo.
Accept ==
    /\ mode["CLIENT"] = "CLIENT"
    /\ ~accepted
    /\ accepted' = TRUE
    /\ Send("CLIENT", <<Helo>>)
    /\ UNCHANGED <<listening, mode, cache, todo, undefined, asked, answers, swallowed>>

----------------------------------------------------------------------------
Runs(end) ==
    /\ end \notin undefined
    /\ IF end = "DAEMON" THEN accepted ELSE mode["CLIENT"] = "CLIENT"

Ask(r) ==
    /\ Runs("CLIENT")
    /\ Len(asked) < MaxRequests
    /\ asked' = Append(asked, r)
    /\ Send("DAEMON", <<RequestCreate(r)>>)
    /\ UNCHANGED <<listening, mode, accepted, cache, todo, undefined, answers, swallowed>>

IsAnswer(message) ==
    /\ Len(message) = 3
    /\ message[2].name \in {"meters", "status", "command", "response"}

\* An end takes the next message that anydata returns.
Take(end) ==
    /\ Runs(end)
    /\ todo[end] = <<>>
    /\ inbox[end] # <<>>
    /\ Head(inbox[end]) # CrLf
    /\ LET message == Head(inbox[end]) IN
       /\ todo' = [todo EXCEPT ![end] = message]
       /\ answers' = IF end = "CLIENT" /\ IsAnswer(message)
                     THEN Append(answers, message[3].name) ELSE answers
    /\ inbox' = [inbox EXCEPT ![end] = Tail(@)]
    /\ UNCHANGED <<listening, mode, accepted, cache, undefined, asked, swallowed>>

\* "\r\n" is thrown away, alone or with the message it is read with.
ThrowOut(end) ==
    /\ Runs(end)
    /\ inbox[end] # <<>>
    /\ Head(inbox[end]) = CrLf
    /\ \/ inbox' = [inbox EXCEPT ![end] = Tail(@)] /\ UNCHANGED swallowed
       \/ /\ Len(inbox[end]) > 1
          /\ inbox' = [inbox EXCEPT ![end] = Tail(Tail(@))]
          /\ swallowed' = TRUE
    /\ UNCHANGED <<listening, mode, accepted, cache, todo, undefined, asked, answers>>

\* process calls the method of the next node.
Process(end) ==
    /\ Runs(end)
    /\ todo[end] # <<>>
    /\ LET node == Head(todo[end]) IN
       /\ node.name \in Methods
       /\ Send(Other(end), Written(end, node))
       /\ cache' = IF Caches(end, node)
                   THEN [cache EXCEPT ![end][node.name] = node.value] ELSE cache
    /\ todo' = [todo EXCEPT ![end] = Tail(@)]
    /\ UNCHANGED <<listening, mode, accepted, undefined, asked, answers, swallowed>>

\* The next node's name has no method.
CallUndefined(end) ==
    /\ Runs(end)
    /\ todo[end] # <<>>
    /\ Head(todo[end]).name \notin Methods
    /\ undefined' = undefined \cup {end}
    /\ UNCHANGED <<listening, mode, accepted, cache, inbox, todo, asked, answers, swallowed>>

----------------------------------------------------------------------------
Init ==
    /\ listening = FALSE
    /\ mode = [end \in Ends |-> "NONET"]
    /\ accepted = FALSE
    /\ cache = [end \in Ends |-> [tag \in CacheTags |-> Nothing]]
    /\ inbox = [end \in Ends |-> <<>>]
    /\ todo = [end \in Ends |-> <<>>]
    /\ undefined = {}
    /\ asked = <<>>
    /\ answers = <<>>
    /\ swallowed = FALSE

Works(end) == Take(end) \/ ThrowOut(end) \/ Process(end) \/ CallUndefined(end)

Next ==
    \/ InitDaemon
    \/ \E greets \in BOOLEAN : InitClient(greets)
    \/ Accept
    \/ \E r \in Requests : Ask(r)
    \/ \E end \in Ends : Works(end)

\* No fairness: nothing in the sources calls process, so an end may stop reading
\* at any time.
Spec == Init /\ [][Next]_vars

----------------------------------------------------------------------------
(* Properties.                                                             *)

Names == Methods \cup MeterTags \cup StatusTags \cup ConfigTags \cup CommandTags
         \cup {"response"}
Nodes == [name : Names, value : Names \cup Values]

TypeOK ==
    /\ listening \in BOOLEAN
    /\ mode \in [Ends -> {"NONET", "DAEMON", "CLIENT"}]
    /\ accepted \in BOOLEAN
    /\ cache \in [Ends -> [CacheTags -> Names \cup Values]]
    /\ inbox \in [Ends -> Seq(Seq(Nodes))]
    /\ todo \in [Ends -> Seq(Nodes)]
    /\ undefined \subseteq Ends
    /\ asked \in Seq(Requests)
    /\ answers \in Seq(Names)
    /\ swallowed \in BOOLEAN

\* The requests that get an answer at all, with their own tag: all readings
\* and states, and orders.
HasAnswer(r) == r.kind \in {"meters", "status", "order"}

\* The requests no end has an unknown name for.
Understood(r) ==
    \/ r.kind \in {"config", "command"}
    \/ r.kind \in {"meters", "status", "setting"} /\ r.tag \in Methods
    \/ r.kind = "order" /\ r.tag \in {"auxilary", "relay", "poll"}

\* Neither end calls a method that is not in the table unless the client asked
\* for something the table lacks: a reading, a state or a setting it has no
\* name for, or an order answered with <response> (process, methodGet).
UndefinedOnlyUnknown ==
    undefined # {} => \E k \in 1..Len(asked) : ~Understood(asked[k])

\* The client can tell which request an answer is for only by their order: the
\* answers it takes are those to its first requests that have one, in order and
\* none twice, as long as "\r\n" swallowed no message.
AnsweredInOrder ==
    ~swallowed => \A k \in 1..Len(answers) : \E n \in 1..Len(asked) :
        /\ HasAnswer(asked[n]) /\ answers[k] = asked[n].tag
        /\ Cardinality({i \in 1..n : HasAnswer(asked[i])}) = k

\* No answer is lost or made up: whenever the daemon has nothing to do, there
\* are as many answers taken and under way to the client as requests that have
\* one, unless "\r\n" swallowed a message (process, and what it calls).
IdleMeansAnswered ==
    ~swallowed /\ inbox["DAEMON"] = <<>> /\ todo["DAEMON"] = <<>> =>
       Len(answers) + Cardinality({k \in 1..Len(inbox["CLIENT"]) : IsAnswer(inbox["CLIENT"][k])})
         = Cardinality({k \in 1..Len(asked) : HasAnswer(asked[k])})

Messages(queue) == {k \in 1..Len(queue) : queue[k] # CrLf}

\* Messages do not multiply: however the two ends answer answers, there are
\* never more under way than requests were made, beyond the two helos, though
\* a config request is sent back and forth without end (unimplementedProcess).
NoneMultiply ==
    Cardinality(Messages(inbox["DAEMON"])) + Cardinality(Messages(inbox["CLIENT"]))
      <= Len(asked) + 2

\* What the client has cached is what the daemon says of that name, or the
\* empty warning of an unimplemented config request (cacheAdd).
CacheIsDaemons ==
    \A tag \in CacheTags : cache["CLIENT"][tag] # Nothing =>
       /\ tag \in {"revision", "opmode", "errormode", "warningmode",
                   "auxilary", "relay", "poll"}
       /\ cache["CLIENT"][tag] = "" =>
             /\ tag = "warningmode"
             /\ \E k \in 1..Len(asked) : asked[k].kind \in {"config", "setting"}
=============================================================================
