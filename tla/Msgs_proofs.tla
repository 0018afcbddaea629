---------------------------- MODULE Msgs_proofs -----------------------------
(***************************************************************************)
(* Proofs about Msgs, for any set of requests and any number of them.      *)
(*                                                                         *)
(* A set of messages for each end is carried (Carries) if what is said at  *)
(* first is in it, and a method that is called for the first node of one   *)
(* of its messages leaves the rest in it and writes nothing outside it.    *)
(* Whatever is under way then stays in it. Two sets are: the messages the  *)
(* methods are made for (Fit), and, as long as every request is one both   *)
(* ends understand, the messages each of whose nodes has a method (Good).  *)
(*                                                                         *)
(* Messages do not multiply because each one an end takes is replaced by   *)
(* at most one (Bounded).                                                  *)
(*                                                                         *)
(* For the answers, messages are counted (Num): every request that has an  *)
(* answer is at one place between the client's asking and its answer, and  *)
(* its number among them is that of the place (InOrder).                   *)
(***************************************************************************)
EXTENDS Msgs, SequenceTheorems, FiniteSetTheorems, TLAPS

Texts == Names \cup Values

\* A node is processed only if each before it has a method.
Reached(message, k) == \A j \in 1..k - 1 : message[j].name \in Methods

\* The messages whose reached nodes are in S, and all but the last in T, too.
Path(S, T) ==
    {message \in Seq(Nodes) : \A k \in 1..Len(message) :
        Reached(message, k) => message[k] \in S /\ (k < Len(message) => message[k] \in T)}

Carry(M) == \A end \in Ends : inbox[end] \in Seq(M[end]) /\ todo[end] \in M[end]

Carries(M) ==
    /\ \A end \in Ends : <<>> \in M[end] /\ Helo \in M[end]
    /\ \A end \in Ends : \A message \in M[end] :
          message # <<>> /\ Head(message).name \in Methods =>
             /\ Tail(message) \in M[end]
             /\ Written(end, Head(message)) \in Seq(M[Other(end)])

----------------------------------------------------------------------------
(* Messages.                                                               *)

LEMMA RestIsSeq ==
    ASSUME NEW S, NEW s \in Seq(S), s # <<>>
    PROVE  /\ Head(s) \in S
           /\ Tail(s) \in Seq(S)
           /\ Len(s) > 1 => Tail(s) # <<>> /\ Tail(Tail(s)) \in Seq(S)
<1>1. Head(s) \in S /\ Tail(s) \in Seq(S) /\ Len(Tail(s)) = Len(s) - 1
  OBVIOUS
<1>2. ASSUME Len(s) > 1 PROVE Tail(s) # <<>> /\ Tail(Tail(s)) \in Seq(S)
  <2>1. Len(Tail(s)) # 0
    BY <1>1, <1>2
  <2>2. Tail(s) # <<>>
    BY <2>1, EmptySeq
  <2> QED
    BY <1>1, <2>2, HeadTailProperties
<1> QED
  BY <1>1, <1>2

LEMMA LastTail ==
    ASSUME NEW S, NEW s \in Seq(S), s # <<>>, ~(Len(s) > 1)
    PROVE  Tail(s) = <<>> /\ Len(s) = 1
<1> DEFINE n == Len(s)
<1>1. n \in Nat /\ n # 0 /\ ~(n > 1)
  BY EmptySeq
<1> HIDE DEF n
<1>2. n = 1
  BY <1>1
<1> USE DEF n
<1>3. Tail(s) \in Seq(S) /\ Len(Tail(s)) = 0
  BY <1>2
<1> QED
  BY <1>2, <1>3, EmptySeq

LEMMA ShortSeqs ==
    ASSUME NEW S, NEW a \in S, NEW b \in S
    PROVE  <<>> \in Seq(S) /\ <<a>> \in Seq(S) /\ <<a, b>> \in Seq(S)
OBVIOUS

LEMMA AppendSeq ==
    ASSUME NEW S, NEW s \in Seq(S), NEW x \in S
    PROVE  Append(s, x) \in Seq(S)
OBVIOUS

LEMMA PathHead ==
    ASSUME NEW S, NEW T, NEW message \in Path(S, T), message # <<>>
    PROVE  /\ Head(message) \in Nodes /\ Head(message) \in S
           /\ Len(message) > 1 => Head(message) \in T
<1>1. message \in Seq(Nodes) /\ Len(message) \in Nat
  BY DEF Path
<1>2. Len(message) >= 1 /\ Head(message) = message[1] /\ Head(message) \in Nodes
  BY <1>1, EmptySeq
<1>3. Reached(message, 1)
  BY DEF Reached
<1>4. message[1] \in S /\ (1 < Len(message) => message[1] \in T)
  BY <1>1, <1>2, <1>3 DEF Path
<1> QED
  BY <1>1, <1>2, <1>4

LEMMA PathTail ==
    ASSUME NEW S, NEW T, NEW message \in Path(S, T), message # <<>>,
           Head(message).name \in Methods
    PROVE  Tail(message) \in Path(S, T)
<1> DEFINE rest == Tail(message)
<1>1. message \in Seq(Nodes)
  BY DEF Path
<1>2. /\ rest \in Seq(Nodes)
      /\ Len(message) \in Nat /\ Len(rest) = Len(message) - 1
      /\ \A k \in 1..Len(rest) : rest[k] = message[k + 1]
      /\ Head(message) = message[1]
  BY <1>1
<1> HIDE DEF rest
<1>3. ASSUME NEW k \in 1..Len(rest), Reached(rest, k)
      PROVE  rest[k] \in S /\ (k < Len(rest) => rest[k] \in T)
  <2>1. k + 1 \in 1..Len(message) /\ k \in Nat
    BY <1>2
  <2>2. ASSUME NEW j \in 1..(k + 1) - 1 PROVE message[j].name \in Methods
    <3>1. CASE j = 1
      BY <1>2, <3>1
    <3>2. CASE j # 1
      <4>1. j - 1 \in 1..k - 1 /\ j - 1 \in 1..Len(rest) /\ (j - 1) + 1 = j
        BY <2>1, <3>2, <1>2
      <4>2. rest[j - 1].name \in Methods
        BY <1>3, <4>1 DEF Reached
      <4>3. rest[j - 1] = message[j]
        BY <1>2, <4>1
      <4> QED
        BY <4>2, <4>3
    <3> QED
      BY <3>1, <3>2
  <2>3. Reached(message, k + 1)
    BY <2>2 DEF Reached
  <2>4. message[k + 1] \in S /\ (k + 1 < Len(message) => message[k + 1] \in T)
    BY <2>1, <2>3 DEF Path
  <2>5. k < Len(rest) => k + 1 < Len(message)
    BY <1>2
  <2> QED
    BY <1>2, <2>4, <2>5
<1>4. rest \in Path(S, T)
  BY <1>2, <1>3 DEF Path
<1> QED
  BY <1>4 DEF rest

LEMMA PathEmpty ==
    ASSUME NEW S, NEW T
    PROVE  <<>> \in Path(S, T)
BY DEF Path

LEMMA PathOfTwo ==
    ASSUME NEW S, NEW T, NEW a \in Nodes \cap S \cap T, NEW b \in Nodes \cap S
    PROVE  <<a, b>> \in Path(S, T)
<1>1. <<a, b>> \in Seq(Nodes) /\ Len(<<a, b>>) = 2
  OBVIOUS
<1>2. \A k \in 1..2 : <<a, b>>[k] \in S /\ (k < 2 => <<a, b>>[k] \in T)
  OBVIOUS
<1> QED
  BY <1>1, <1>2 DEF Path

\* The third node need not be in S if the second has no method.
LEMMA PathOfThree ==
    ASSUME NEW S, NEW T, NEW a \in Nodes \cap S \cap T, NEW b \in Nodes \cap S \cap T,
           NEW c \in Nodes, c \in S \/ b.name \notin Methods
    PROVE  <<a, b, c>> \in Path(S, T)
<1> DEFINE message == <<a, b, c>>
<1>1. message \in Seq(Nodes) /\ Len(message) = 3
  OBVIOUS
<1>2. message[1] = a /\ message[2] = b /\ message[3] = c
  OBVIOUS
<1> HIDE DEF message
<1>3. ASSUME NEW k \in 1..3, Reached(message, k)
      PROVE  message[k] \in S /\ (k < 3 => message[k] \in T)
  <2>1. CASE k = 1
    BY <1>2, <2>1
  <2>2. CASE k = 2
    BY <1>2, <2>2
  <2>3. CASE k = 3
    <3>1. 2 \in 1..k - 1
      BY <2>3
    <3>2. b.name \in Methods
      BY <1>2, <1>3, <3>1 DEF Reached
    <3> QED
      BY <1>2, <2>3, <3>2
  <2> QED
    BY <1>3, <2>1, <2>2, <2>3
<1>4. message \in Path(S, T)
  BY <1>1, <1>3 DEF Path
<1> QED
  BY <1>4 DEF message

LEMMA PathOfFour ==
    ASSUME NEW S, NEW T, NEW a \in Nodes \cap S \cap T, NEW b \in Nodes \cap S \cap T,
           NEW c \in Nodes \cap S \cap T, NEW d \in Nodes \cap S
    PROVE  <<a, b, c, d>> \in Path(S, T)
<1> DEFINE message == <<a, b, c, d>>
<1>1. message \in Seq(Nodes) /\ Len(message) = 4
  OBVIOUS
<1>2. message[1] = a /\ message[2] = b /\ message[3] = c /\ message[4] = d
  OBVIOUS
<1> HIDE DEF message
<1>3. \A k \in 1..4 : message[k] \in S /\ (k < 4 => message[k] \in T)
  <2> TAKE k \in 1..4
  <2>1. k = 1 \/ k = 2 \/ k = 3 \/ k = 4
    OBVIOUS
  <2> QED
    BY <1>2, <2>1
<1>4. message \in Path(S, T)
  BY <1>1, <1>3 DEF Path
<1> QED
  BY <1>4 DEF message

LEMMA PathMonotone ==
    ASSUME NEW S, NEW T, NEW R, S \subseteq R
    PROVE  Path(S, T) \subseteq Path(R, T)
BY DEF Path

LEMMA OtherEnd ==
    ASSUME NEW end \in Ends
    PROVE  Other(end) \in Ends /\ Other(end) # end
BY DEF Other, Ends

----------------------------------------------------------------------------
(* Carried messages.                                                       *)

LEMMA SendSeq ==
    ASSUME TypeOK, NEW M, Carry(M), NEW to \in Ends, NEW ms \in Seq(M[to]), Send(to, ms)
    PROVE  \A end \in Ends : inbox'[end] \in Seq(M[end])
<1>1. inbox \in [Ends -> Seq(Seq(Nodes))]
  BY DEF TypeOK
<1>2. ASSUME NEW end \in Ends PROVE inbox'[end] \in Seq(M[end])
  <2>1. inbox[end] \in Seq(M[end])
    BY DEF Carry
  <2>2. inbox'[end] = IF end = to THEN inbox[end] \o ms ELSE inbox[end]
    BY <1>1 DEF Send
  <2>3. CASE end = to
    <3>1. ms \in Seq(M[end])
      BY <2>3
    <3>2. inbox[end] \o ms \in Seq(M[end])
      BY <2>1, <3>1, ConcatProperties
    <3> QED
      BY <2>2, <2>3, <3>2
  <2>4. CASE end # to
    BY <2>1, <2>2, <2>4
  <2> QED
    BY <2>3, <2>4
<1> QED
  BY <1>2

LEMMA CarryTake ==
    ASSUME TypeOK, NEW M, Carry(M), NEW end \in Ends, Take(end) \/ ThrowOut(end)
    PROVE  Carry(M)'
<1>1. /\ inbox \in [Ends -> Seq(Seq(Nodes))]
      /\ todo \in [Ends -> Seq(Nodes)]
  BY DEF TypeOK
<1>2. /\ inbox[end] \in Seq(M[end]) /\ inbox[end] # <<>>
  BY DEF Carry, Take, ThrowOut
<1>3. /\ Head(inbox[end]) \in M[end]
      /\ Tail(inbox[end]) \in Seq(M[end])
      /\ Len(inbox[end]) > 1 => Tail(Tail(inbox[end])) \in Seq(M[end])
  BY <1>2, RestIsSeq
<1>4. PICK rest \in Seq(M[end]) : inbox' = [inbox EXCEPT ![end] = rest]
  BY <1>3 DEF Take, ThrowOut
<1>5. \/ todo' = todo
      \/ todo' = [todo EXCEPT ![end] = Head(inbox[end])]
  BY DEF Take, ThrowOut
<1>6. ASSUME NEW e \in Ends PROVE inbox'[e] \in Seq(M[e]) /\ todo'[e] \in M[e]
  <2>1. inbox[e] \in Seq(M[e]) /\ todo[e] \in M[e]
    BY DEF Carry
  <2>2. inbox'[e] \in Seq(M[e])
    BY <1>1, <1>4, <2>1
  <2>3. todo'[e] \in M[e]
    BY <1>1, <1>3, <1>5, <2>1
  <2> QED
    BY <2>2, <2>3
<1> QED
  BY <1>6 DEF Carry

LEMMA CarryProcess ==
    ASSUME TypeOK, NEW M, Carries(M), Carry(M), NEW end \in Ends, Process(end)
    PROVE  Carry(M)'
<1>1. todo \in [Ends -> Seq(Nodes)]
  BY DEF TypeOK
<1>2. /\ todo[end] # <<>> /\ Head(todo[end]).name \in Methods
      /\ Send(Other(end), Written(end, Head(todo[end])))
      /\ todo' = [todo EXCEPT ![end] = Tail(@)]
  BY DEF Process
<1>3. todo[end] \in M[end]
  BY DEF Carry
<1>4. /\ Tail(todo[end]) \in M[end]
      /\ Written(end, Head(todo[end])) \in Seq(M[Other(end)])
  BY <1>2, <1>3 DEF Carries
<1>5. \A e \in Ends : inbox'[e] \in Seq(M[e])
  BY <1>2, <1>4, OtherEnd, SendSeq
<1>6. \A e \in Ends : todo'[e] \in M[e]
  BY <1>1, <1>2, <1>4 DEF Carry
<1> QED
  BY <1>5, <1>6 DEF Carry

\* Whatever is under way stays in a set that is carried.
LEMMA CarryNext ==
    ASSUME TypeOK, NEW M, Carries(M), Carry(M), [Next]_vars,
           \A r \in Requests : asked' = Append(asked, r) => RequestCreate(r) \in M["DAEMON"]
    PROVE  Carry(M)'
<1>1. ASSUME UNCHANGED <<inbox, todo>> PROVE Carry(M)'
  BY <1>1 DEF Carry
<1>2. ASSUME NEW to \in Ends, NEW message \in M[to], NEW ms \in {<<>>, <<message>>},
             Send(to, ms), UNCHANGED todo
      PROVE  Carry(M)'
  <2>1. ms \in Seq(M[to])
    BY ShortSeqs
  <2>2. \A end \in Ends : inbox'[end] \in Seq(M[end])
    BY <1>2, <2>1, SendSeq
  <2> QED
    BY <1>2, <2>2 DEF Carry
<1>3. "DAEMON" \in Ends /\ "CLIENT" \in Ends
  BY DEF Ends
<1>4. CASE InitDaemon
  BY <1>1, <1>4 DEF InitDaemon
<1>5. CASE \E greets \in BOOLEAN : InitClient(greets)
  <2>1. Helo \in M["DAEMON"]
    BY <1>3 DEF Carries
  <2> QED
    BY <1>2, <1>3, <1>5, <2>1 DEF InitClient
<1>6. CASE Accept
  <2>1. Helo \in M["CLIENT"]
    BY <1>3 DEF Carries
  <2> QED
    BY <1>2, <1>3, <1>6, <2>1 DEF Accept
<1>7. CASE \E r \in Requests : Ask(r)
  BY <1>2, <1>3, <1>7 DEF Ask
<1>8. ASSUME NEW end \in Ends, Works(end) PROVE Carry(M)'
  <2>1. CASE Take(end) \/ ThrowOut(end)
    BY <2>1, CarryTake
  <2>2. CASE Process(end)
    BY <2>2, CarryProcess
  <2>3. CASE CallUndefined(end)
    BY <1>1, <2>3 DEF CallUndefined
  <2> QED
    BY <1>8, <2>1, <2>2, <2>3 DEF Works
<1>9. CASE UNCHANGED vars
  BY <1>1, <1>9 DEF vars
<1> QED
  BY <1>4, <1>5, <1>6, <1>7, <1>8, <1>9 DEF Next

----------------------------------------------------------------------------
(* The messages the methods are made for. A config or setting request once *)
(* made (config), its unimplemented answers may be under way.              *)

ConfigAsked == \E k \in 1..Len(asked) : asked[k].kind \in {"config", "setting"}

Cached ==
    {"revision", "opmode", "errormode", "warningmode", "auxilary", "relay", "poll"}

DaemonNames ==
    {"powerguru", "client", "server", "status", "warningmode", "meters", "command"}
    \cup ConfigTags \cup ConfigNodes

CacheNames == (StatusNodes \ {"status"}) \cup (CommandNodes \ {"command"})

Fit(end, node, config) ==
    /\ node.name \in ConfigNodes => config
    /\ end = "DAEMON" =>
          /\ node.name \in DaemonNames
          /\ node.name = "meters" => node.value \in MeterTags
          /\ node.name = "command" => node.value \in CommandTags
          /\ node.name = "warningmode" => node.value = ""
    /\ end = "CLIENT" /\ node.name \in CacheNames =>
          /\ node.name \in Cached
          /\ node.value = "" => node.name = "warningmode" /\ config

\* A node that makes an end write nothing.
Silent(end, node) ==
    /\ node.name \notin ConfigNodes
    /\ end = "DAEMON" =>
          /\ node.name \notin CommandNodes \cup {"meters"}
          /\ node.name \in StatusNodes => node.value \notin StatusTags

FitNodes(end, config) == {node \in Nodes : Fit(end, node, config)}
SilentNodes(end) == {node \in Nodes : Silent(end, node)}

FitMessages(config) ==
    [end \in Ends |-> Path(FitNodes(end, config), SilentNodes(end))]

LEMMA NodeIs ==
    ASSUME NEW name \in Names, NEW value \in Texts
    PROVE  /\ Node(name, value) \in Nodes
           /\ Node(name, value).name = name
           /\ Node(name, value).value = value
BY DEF Node, Nodes, Texts

LEMMA NodeParts ==
    ASSUME NEW node \in Nodes
    PROVE  node.name \in Names /\ node.value \in Texts
BY DEF Nodes, Texts

\* Every method is a name, and the readings, states, settings and commands.
LEMMA MethodsAreNames == Methods \subseteq Names /\ Methods \subseteq CacheTags
BY DEF CacheTags, Names

\* The texts the messages are made of.
LEMMA KnownTexts ==
    /\ {"host", "", "version", "0.0", "none", "inverter", "foobar", "unimplemented", "value"}
         \subseteq Texts
    /\ {"powerguru", "client", "server", "status", "warningmode", "meters", "config",
        "command"} \subseteq Methods
    /\ "response" \in Names /\ "response" \notin Methods
    /\ MeterTags \cup StatusTags \cup ConfigTags \cup CommandTags \subseteq Names
    /\ Names \subseteq Texts
BY DEF Texts, Names, Values, Methods, HeloNodes, ReadingTags, StatusNodes, ConfigNodes,
       CommandNodes

\* The nodes of a helo and of an answer are of no other kind.
LEMMA KnownKinds ==
    /\ \A name \in {"powerguru", "client", "server", "response"} :
          name \notin ConfigNodes \cup StatusNodes \cup CommandNodes \cup {"meters"}
    /\ "meters" \notin ConfigNodes \cup StatusNodes \cup CommandNodes
    /\ "status" \in StatusNodes /\ "warningmode" \in StatusNodes
    /\ "command" \in CommandNodes
    /\ StatusNodes \cap ConfigNodes = {} /\ CommandNodes \cap ConfigNodes = {}
    /\ StatusNodes \cap CommandNodes = {}
BY DEF StatusNodes, ConfigNodes, CommandNodes

LEMMA DaemonFit ==
    ASSUME NEW name \in DaemonNames \cap Names, NEW value \in Texts, NEW config,
           name \in ConfigNodes => config,
           name = "meters" => value \in MeterTags,
           name = "command" => value \in CommandTags,
           name = "warningmode" => value = ""
    PROVE  Node(name, value) \in Nodes \cap FitNodes("DAEMON", config)
<1> DEFINE node == Node(name, value)
<1>1. node \in Nodes /\ node.name = name /\ node.value = value
  BY NodeIs
<1> HIDE DEF node
<1>2. Fit("DAEMON", node, config)
  BY <1>1 DEF Fit
<1>3. node \in Nodes \cap FitNodes("DAEMON", config)
  BY <1>1, <1>2 DEF FitNodes
<1> QED
  BY <1>3 DEF node

LEMMA ClientFit ==
    ASSUME NEW name \in Names, NEW value \in Texts, NEW config,
           name \in ConfigNodes => config,
           name \in CacheNames =>
              name \in Cached /\ (value = "" => name = "warningmode" /\ config)
    PROVE  Node(name, value) \in Nodes \cap FitNodes("CLIENT", config)
<1> DEFINE node == Node(name, value)
<1>1. node \in Nodes /\ node.name = name /\ node.value = value
  BY NodeIs
<1> HIDE DEF node
<1>2. Fit("CLIENT", node, config)
  BY <1>1 DEF Fit
<1>3. node \in Nodes \cap FitNodes("CLIENT", config)
  BY <1>1, <1>2 DEF FitNodes
<1> QED
  BY <1>3 DEF node

LEMMA IsSilent ==
    ASSUME NEW name \in Names, NEW value \in Texts, NEW end,
           name \notin ConfigNodes,
           end = "DAEMON" => /\ name \notin CommandNodes \cup {"meters"}
                             /\ name \in StatusNodes => value \notin StatusTags
    PROVE  Node(name, value) \in SilentNodes(end)
<1> DEFINE node == Node(name, value)
<1>1. node \in Nodes /\ node.name = name /\ node.value = value
  BY NodeIs
<1> HIDE DEF node
<1>2. node \in SilentNodes(end)
  BY <1>1 DEF SilentNodes, Silent
<1> QED
  BY <1>2 DEF node

\* The nodes of the messages that either end knows.
LEMMA KnownNodes ==
    ASSUME NEW end \in Ends, NEW config
    PROVE  /\ Top \in Nodes \cap FitNodes(end, config) \cap SilentNodes(end)
           /\ Node("client", "host") \in Nodes \cap FitNodes(end, config) \cap SilentNodes(end)
           /\ Node("server", "host") \in Nodes \cap FitNodes(end, config)
           /\ Node("status", "") \in Nodes \cap FitNodes(end, config) \cap SilentNodes(end)
           /\ end = "DAEMON" \/ config =>
                 Node("warningmode", "") \in Nodes \cap FitNodes(end, config) \cap SilentNodes(end)
<1>1. end = "DAEMON" \/ end = "CLIENT"
  BY DEF Ends
<1>2. "" \notin StatusTags /\ "" \in Texts /\ "host" \in Texts
  BY KnownTexts DEF StatusTags
<1>3. {"powerguru", "client", "server", "status", "warningmode"} \subseteq DaemonNames \cap Names
  BY KnownTexts, MethodsAreNames DEF DaemonNames
<1>4. /\ {"powerguru", "client", "server", "status"} \cap CacheNames = {}
      /\ "warningmode" \in Cached
  BY KnownKinds DEF CacheNames, Cached
<1>5. ASSUME NEW name \in {"powerguru", "client", "server"}, NEW value \in {"", "host"}
      PROVE  Node(name, value) \in Nodes \cap FitNodes(end, config) \cap SilentNodes(end)
  <2>1. Node(name, value) \in SilentNodes(end)
    BY <1>2, <1>3, KnownKinds, IsSilent
  <2>2. Node(name, value) \in Nodes \cap FitNodes("DAEMON", config)
    BY <1>2, <1>3, KnownKinds, DaemonFit
  <2>3. Node(name, value) \in Nodes \cap FitNodes("CLIENT", config)
    BY <1>2, <1>3, <1>4, KnownKinds, ClientFit
  <2> QED
    BY <1>1, <2>1, <2>2, <2>3
<1>6. Node("status", "") \in Nodes \cap FitNodes(end, config) \cap SilentNodes(end)
  <2>1. Node("status", "") \in SilentNodes(end)
    BY <1>2, <1>3, KnownKinds, IsSilent
  <2>2. Node("status", "") \in Nodes \cap FitNodes("DAEMON", config)
    BY <1>2, <1>3, KnownKinds, DaemonFit
  <2>3. Node("status", "") \in Nodes \cap FitNodes("CLIENT", config)
    BY <1>2, <1>3, <1>4, KnownKinds, ClientFit
  <2> QED
    BY <1>1, <2>1, <2>2, <2>3
<1>7. ASSUME end = "DAEMON" \/ config
      PROVE  Node("warningmode", "") \in Nodes \cap FitNodes(end, config) \cap SilentNodes(end)
  <2>1. Node("warningmode", "") \in SilentNodes(end)
    BY <1>2, <1>3, KnownKinds, IsSilent
  <2>2. Node("warningmode", "") \in Nodes \cap FitNodes("DAEMON", config)
    BY <1>2, <1>3, KnownKinds, DaemonFit
  <2>3. ASSUME config PROVE Node("warningmode", "") \in Nodes \cap FitNodes("CLIENT", config)
    BY <1>2, <1>3, <1>4, <2>3, KnownKinds, ClientFit
  <2> QED
    BY <1>1, <1>7, <2>1, <2>2, <2>3
<1> QED
  BY <1>5, <1>6, <1>7 DEF Top

LEMMA HeloFit ==
    ASSUME NEW end \in Ends, NEW config
    PROVE  Helo \in FitMessages(config)[end]
<1>1. /\ Top \in Nodes \cap FitNodes(end, config) \cap SilentNodes(end)
      /\ Node("client", "host") \in Nodes \cap FitNodes(end, config) \cap SilentNodes(end)
      /\ Node("server", "host") \in Nodes \cap FitNodes(end, config)
  BY KnownNodes
<1>2. Helo \in Path(FitNodes(end, config), SilentNodes(end))
  BY <1>1, PathOfThree DEF Helo
<1> QED
  BY <1>2 DEF FitMessages

LEMMA UnimplementedFit ==
    ASSUME NEW end \in Ends, NEW name \in ConfigNodes
    PROVE  Unimplemented(name) \in FitMessages(TRUE)[end]
<1>1. name \in DaemonNames \cap Names /\ name \notin CacheNames
  BY MethodsAreNames, KnownKinds DEF DaemonNames, CacheNames, Methods
<1>2. name # "meters" /\ name # "command" /\ name # "warningmode"
  BY KnownKinds
<1>3. Node(name, "unimplemented") \in Nodes \cap FitNodes(end, TRUE)
  <2>1. CASE end = "DAEMON"
    BY <1>1, <1>2, <2>1, KnownTexts, DaemonFit
  <2>2. CASE end = "CLIENT"
    BY <1>1, <2>2, KnownTexts, ClientFit
  <2> QED
    BY <2>1, <2>2 DEF Ends
<1>4. /\ Top \in Nodes \cap FitNodes(end, TRUE) \cap SilentNodes(end)
      /\ Node("status", "") \in Nodes \cap FitNodes(end, TRUE) \cap SilentNodes(end)
      /\ Node("warningmode", "") \in Nodes \cap FitNodes(end, TRUE) \cap SilentNodes(end)
  BY KnownNodes
<1>5. Unimplemented(name) \in Path(FitNodes(end, TRUE), SilentNodes(end))
  BY <1>3, <1>4, PathOfFour DEF Unimplemented
<1> QED
  BY <1>5 DEF FitMessages

\* An answer that carries the tag.
AnswersFor(tag) ==
    {message \in Seq(Nodes) : /\ message \in FitMessages(FALSE)["CLIENT"]
                              /\ IsAnswer(message)
                              /\ message[3].name = tag}

LEMMA ResponseFit ==
    ASSUME NEW type \in {"meters", "status", "command", "response"},
           NEW tag \in Names, NEW value \in Texts,
           Node(tag, value) \in FitNodes("CLIENT", FALSE) \/ type = "response"
    PROVE  ResponseCreate(type, tag, value) \in AnswersFor(tag)
<1> DEFINE second == Node(type, "")
           third  == Node(tag, value)
<1>1. type \in Names /\ type \notin ConfigNodes /\ "" \in Texts
  BY KnownTexts, KnownKinds, MethodsAreNames
<1>2. type \notin CacheNames
  BY KnownKinds DEF CacheNames
<1>3. second \in Nodes \cap FitNodes("CLIENT", FALSE)
  BY <1>1, <1>2, ClientFit
<1>4. second \in SilentNodes("CLIENT")
  BY <1>1, IsSilent
<1>5. second.name = type
  BY <1>1, NodeIs
<1>6. third \in Nodes /\ third.name = tag
  BY NodeIs
<1>7. Top \in Nodes \cap FitNodes("CLIENT", FALSE) \cap SilentNodes("CLIENT")
  BY KnownNodes DEF Ends
<1>8. third \in FitNodes("CLIENT", FALSE) \/ second.name \notin Methods
  BY <1>5, KnownTexts
<1>9. ResponseCreate(type, tag, value) = <<Top, second, third>>
  BY DEF ResponseCreate
<1> HIDE DEF second, third
<1>10. <<Top, second, third>> \in Path(FitNodes("CLIENT", FALSE), SilentNodes("CLIENT"))
  BY <1>3, <1>4, <1>6, <1>7, <1>8, PathOfThree
<1>11. <<Top, second, third>> \in FitMessages(FALSE)["CLIENT"]
  BY <1>10 DEF FitMessages, Ends
<1>12. /\ <<Top, second, third>> \in Seq(Nodes)
       /\ IsAnswer(<<Top, second, third>>)
       /\ <<Top, second, third>>[3].name = tag
  BY <1>3, <1>5, <1>6, <1>7 DEF IsAnswer
<1> QED
  BY <1>9, <1>11, <1>12 DEF AnswersFor

\* The last node of a message that the daemon answers.
Due(node) ==
    \/ node.name \in {"meters", "command"}
    \/ node.name = "status" /\ node.value \in StatusTags

LEMMA MetersWritten ==
    ASSUME TypeOK, NEW end \in Ends, NEW node \in Nodes, node.name = "meters",
           end = "DAEMON" => node.value \in MeterTags
    PROVE  IF end = "DAEMON"
           THEN \E answer \in AnswersFor(node.value) : Written(end, node) = <<answer>>
           ELSE Written(end, node) = <<>>
<1>1. Written(end, node) = MetersProcess(end, node)
  BY KnownKinds DEF Written
<1>2. CASE end = "DAEMON"
  <2> DEFINE value == IF node.value \in CacheTags /\ cache[end][node.value] # Nothing
                      THEN cache[end][node.value] ELSE ""
  <2>1. value \in Texts
    <3>1. ASSUME node.value \in CacheTags PROVE cache[end][node.value] \in Texts
      BY <3>1 DEF TypeOK, Texts
    <3> QED
      BY <3>1, KnownTexts
  <2>2. MetersProcess(end, node) = <<ResponseCreate("meters", node.value, value)>>
    BY <1>2 DEF MetersProcess
  <2> HIDE DEF value
  <2>3. node.value \notin ConfigNodes /\ node.value \notin CacheNames
    BY <1>2 DEF MeterTags, ConfigNodes, CacheNames, StatusNodes, CommandNodes
  <2>4. node.value \in Names
    BY <1>2, KnownTexts
  <2>5. Node(node.value, value) \in FitNodes("CLIENT", FALSE)
    BY <2>1, <2>3, <2>4, ClientFit
  <2>6. ResponseCreate("meters", node.value, value) \in AnswersFor(node.value)
    BY <2>1, <2>4, <2>5, ResponseFit
  <2> QED
    BY <1>1, <1>2, <2>2, <2>6
<1>3. CASE end # "DAEMON"
  BY <1>1, <1>3 DEF MetersProcess
<1> QED
  BY <1>2, <1>3

LEMMA StatusWritten ==
    ASSUME NEW end \in Ends, NEW node \in Nodes, node.name \in StatusNodes
    PROVE  IF end = "DAEMON" /\ node.value \in StatusTags
           THEN \E answer \in AnswersFor(node.value) : Written(end, node) = <<answer>>
           ELSE Written(end, node) = <<>>
<1>1. Written(end, node) = StatusProcess(end, node)
  BY KnownKinds DEF Written
<1>2. CASE end = "DAEMON" /\ node.value \in StatusTags
  <2>1. PICK value \in {"version", "0.0", "none"} :
           StatusProcess(end, node) = <<ResponseCreate("status", node.value, value)>>
    BY <1>2 DEF StatusProcess, StatusTags
  <2>2. node.value \in Names /\ value \in Texts
    BY <1>2, KnownTexts
  <2>3. node.value \notin ConfigNodes /\ (node.value \in CacheNames => node.value \in Cached)
    BY <1>2 DEF StatusTags, ConfigNodes, CacheNames, StatusNodes, CommandNodes, Cached
  <2>4. Node(node.value, value) \in FitNodes("CLIENT", FALSE)
    BY <2>1, <2>2, <2>3, ClientFit
  <2>5. ResponseCreate("status", node.value, value) \in AnswersFor(node.value)
    BY <2>2, <2>4, ResponseFit
  <2> QED
    BY <1>1, <1>2, <2>1, <2>5
<1>3. CASE ~(end = "DAEMON" /\ node.value \in StatusTags)
  BY <1>1, <1>3 DEF StatusProcess, StatusTags
<1> QED
  BY <1>2, <1>3

LEMMA CommandWritten ==
    ASSUME NEW end \in Ends, NEW node \in Nodes, node.name \in CommandNodes,
           end = "DAEMON" => node.value \in CommandTags
    PROVE  IF end = "DAEMON"
           THEN \E answer \in AnswersFor(node.value) : Written(end, node) = <<answer, CrLf>>
           ELSE Written(end, node) = <<>>
<1>1. Written(end, node) = CommandProcess(end, node)
  BY KnownKinds DEF Written
<1>2. CASE end = "DAEMON"
  <2>1. PICK type \in {"command", "response"}, value \in {"0.0", "none", "inverter", "foobar"} :
           /\ CommandProcess(end, node) = <<ResponseCreate(type, node.value, value), CrLf>>
           /\ type = "response" \/ node.value \in {"auxilary", "relay", "poll"}
    BY <1>2 DEF CommandProcess
  <2>2. node.value \in Names /\ value \in Texts
    BY <1>2, KnownTexts
  <2>3. ASSUME node.value \in {"auxilary", "relay", "poll"}
        PROVE  Node(node.value, value) \in FitNodes("CLIENT", FALSE)
    <3>1. node.value \notin ConfigNodes /\ node.value \in Cached
      BY <2>3 DEF ConfigNodes, Cached
    <3> QED
      BY <2>1, <2>2, <3>1, ClientFit
  <2>4. ResponseCreate(type, node.value, value) \in AnswersFor(node.value)
    BY <2>1, <2>2, <2>3, ResponseFit
  <2> QED
    BY <1>1, <1>2, <2>1, <2>4
<1>3. CASE end # "DAEMON"
  BY <1>1, <1>3 DEF CommandProcess
<1> QED
  BY <1>2, <1>3

\* What an end writes for a node: nothing, one answer, with "\r\n" or without,
\* to one that is due, or one message that a setting is unimplemented.
LEMMA WrittenIs ==
    ASSUME TypeOK, NEW config \in BOOLEAN, NEW end \in Ends,
           NEW node \in FitNodes(end, config)
    PROVE  /\ Silent(end, node) => Written(end, node) = <<>>
           /\ end = "DAEMON" /\ Due(node) =>
                 \E answer \in AnswersFor(node.value) :
                    Written(end, node) \in {<<answer>>, <<answer, CrLf>>}
           /\ ~(end = "DAEMON" /\ Due(node)) =>
                 \/ Written(end, node) = <<>>
                 \/ /\ node.name \in ConfigNodes /\ config
                    /\ Written(end, node) = <<Unimplemented(node.name)>>
<1>1. node \in Nodes /\ Fit(end, node, config)
  BY DEF FitNodes
<1>2. CASE node.name = "meters"
  <2>1. end = "DAEMON" => node.value \in MeterTags
    BY <1>1, <1>2 DEF Fit
  <2>2. IF end = "DAEMON"
        THEN \E answer \in AnswersFor(node.value) : Written(end, node) = <<answer>>
        ELSE Written(end, node) = <<>>
    BY <1>1, <1>2, <2>1, MetersWritten
  <2> QED
    BY <1>2, <2>2 DEF Silent, Due
<1>3. CASE node.name \in StatusNodes
  <2>1. IF end = "DAEMON" /\ node.value \in StatusTags
        THEN \E answer \in AnswersFor(node.value) : Written(end, node) = <<answer>>
        ELSE Written(end, node) = <<>>
    BY <1>1, <1>3, StatusWritten
  <2>2. end = "DAEMON" => (Due(node) <=> node.value \in StatusTags)
    <3>1. ASSUME end = "DAEMON", node.name # "status" PROVE node.name = "warningmode"
      BY <1>1, <1>3, <3>1 DEF Fit, DaemonNames, StatusNodes, ConfigTags, ConfigNodes
    <3>2. "" \notin StatusTags
      BY DEF StatusTags
    <3>3. node.name \notin {"meters", "command"}
      BY <1>3, KnownKinds
    <3> QED
      BY <1>1, <3>1, <3>2, <3>3 DEF Due, Fit
  <2> QED
    BY <1>3, <2>1, <2>2 DEF Silent
<1>4. CASE node.name \in ConfigNodes
  <2>1. Written(end, node) = <<Unimplemented(node.name)>>
    BY <1>4, KnownKinds DEF Written, ConfigProcess
  <2>2. ~Due(node)
    BY <1>4, KnownKinds DEF Due
  <2> QED
    BY <1>1, <1>4, <2>1, <2>2 DEF Silent, Fit
<1>5. CASE node.name \in CommandNodes
  <2>1. end = "DAEMON" => node.name = "command"
    BY <1>1, <1>5 DEF Fit, DaemonNames, CommandNodes, ConfigTags, ConfigNodes
  <2>2. end = "DAEMON" => node.value \in CommandTags
    BY <1>1, <2>1 DEF Fit
  <2>3. IF end = "DAEMON"
        THEN \E answer \in AnswersFor(node.value) : Written(end, node) = <<answer, CrLf>>
        ELSE Written(end, node) = <<>>
    BY <1>1, <1>5, <2>2, CommandWritten
  <2> QED
    BY <1>5, <2>1, <2>3 DEF Silent, Due
<1>6. CASE node.name \notin StatusNodes \cup ConfigNodes \cup CommandNodes \cup {"meters"}
  <2>1. Written(end, node) = <<>>
    BY <1>6 DEF Written
  <2>2. ~Due(node)
    BY <1>6, KnownKinds DEF Due
  <2> QED
    BY <2>1, <2>2
<1> QED
  BY <1>2, <1>3, <1>4, <1>5, <1>6

LEMMA FitMonotone ==
    ASSUME NEW end \in Ends, NEW config \in BOOLEAN
    PROVE  FitMessages(FALSE)[end] \subseteq FitMessages(config)[end]
<1>1. \A node : Fit(end, node, FALSE) => Fit(end, node, config)
  BY DEF Fit
<1>2. FitNodes(end, FALSE) \subseteq FitNodes(end, config)
  BY <1>1 DEF FitNodes
<1> QED
  BY <1>2, PathMonotone DEF FitMessages

LEMMA FitCarries ==
    ASSUME TypeOK, NEW config \in BOOLEAN
    PROVE  Carries(FitMessages(config))
<1> DEFINE M == FitMessages(config)
<1>1. \A end \in Ends : <<>> \in M[end] /\ Helo \in M[end]
  BY PathEmpty, HeloFit DEF FitMessages
<1>2. ASSUME NEW end \in Ends, NEW message \in M[end],
             message # <<>>, Head(message).name \in Methods
      PROVE  /\ Tail(message) \in M[end]
             /\ Written(end, Head(message)) \in Seq(M[Other(end)])
  <2> DEFINE node == Head(message)
             W == Written(end, node)
  <2>1. message \in Path(FitNodes(end, config), SilentNodes(end))
    BY DEF FitMessages
  <2>2. Tail(message) \in M[end]
    BY <1>2, <2>1, PathTail DEF FitMessages
  <2>3. node \in FitNodes(end, config)
    BY <1>2, <2>1, PathHead
  <2>4. Other(end) \in Ends
    BY OtherEnd
  <2> HIDE DEF node
  <2>5. CASE end = "DAEMON" /\ Due(node)
    <3>1. PICK answer \in AnswersFor(node.value) : W \in {<<answer>>, <<answer, CrLf>>}
      BY <2>3, <2>5, WrittenIs
    <3>2. Other(end) = "CLIENT"
      BY <2>5 DEF Other
    <3>3. answer \in M[Other(end)]
      BY <2>4, <3>2, FitMonotone DEF AnswersFor
    <3>4. CrLf \in M[Other(end)]
      BY <1>1, <2>4 DEF CrLf
    <3> HIDE DEF W, M
    <3> QED
      BY <2>2, <3>1, <3>3, <3>4, ShortSeqs DEF W, node
  <2>6. CASE ~(end = "DAEMON" /\ Due(node))
    <3>1. \/ W = <<>>
          \/ node.name \in ConfigNodes /\ config /\ W = <<Unimplemented(node.name)>>
      BY <2>3, <2>6, WrittenIs
    <3>2. ASSUME node.name \in ConfigNodes, config
          PROVE  Unimplemented(node.name) \in M[Other(end)]
      <4>1. config = TRUE
        BY <3>2
      <4> QED
        BY <2>4, <3>2, <4>1, UnimplementedFit
    <3> HIDE DEF M
    <3>3. W \in Seq(M[Other(end)])
      <4>1. <<>> \in Seq(M[Other(end)])
        OBVIOUS
      <4>2. ASSUME node.name \in ConfigNodes, config
            PROVE  <<Unimplemented(node.name)>> \in Seq(M[Other(end)])
        BY <3>2, <4>2, ShortSeqs
      <4> QED
        BY <3>1, <4>1, <4>2
    <3> QED
      BY <2>2, <3>3 DEF node
  <2> QED
    BY <2>5, <2>6
<1> QED
  BY <1>1, <1>2 DEF Carries

\* The request's last node is due if the request has an answer, and its text is
\* then the request's tag.
LEMMA RequestIs ==
    ASSUME NEW r \in AllRequests
    PROVE  /\ RequestCreate(r) = <<Top, RequestCreate(r)[2]>>
           /\ RequestCreate(r)[2] \in Nodes
           /\ Due(RequestCreate(r)[2]) <=> HasAnswer(r)
           /\ HasAnswer(r) => RequestCreate(r)[2].value = r.tag
           /\ \A config \in BOOLEAN : (r.kind \in {"config", "setting"} => config) =>
                 RequestCreate(r)[2] \in FitNodes("DAEMON", config)
<1> DEFINE node == CASE r.kind = "setting" -> Node(r.tag, "value")
                     [] r.kind = "command" -> Node("status", r.tag)
                     [] r.kind = "order"   -> Node("command", r.tag)
                     [] OTHER              -> Node(r.kind, r.tag)
<1>1. r.kind \in {"meters", "status", "config", "setting", "command", "order"}
  BY DEF AllRequests
<1>2. /\ r.kind = "meters" => r.tag \in MeterTags
      /\ r.kind = "status" => r.tag \in StatusTags
      /\ r.kind \in {"config", "setting"} => r.tag \in ConfigTags
      /\ r.kind \in {"command", "order"} => r.tag \in CommandTags
  BY DEF AllRequests
<1>3. r.tag \in Names /\ r.tag \in Texts
  BY <1>1, <1>2, KnownTexts
<1>4. RequestCreate(r) = <<Top, node>>
  BY <1>1 DEF RequestCreate
<1>5. ASSUME NEW name \in DaemonNames \cap Names, NEW value \in Texts,
             name = "meters" => value \in MeterTags,
             name = "command" => value \in CommandTags,
             name # "warningmode",
             name \in ConfigNodes => r.kind \in {"config", "setting"},
             node = Node(name, value)
      PROVE  /\ node \in Nodes
             /\ \A config \in BOOLEAN : (r.kind \in {"config", "setting"} => config) =>
                   node \in FitNodes("DAEMON", config)
  <2>1. node \in Nodes
    BY <1>5, NodeIs
  <2>2. ASSUME NEW config \in BOOLEAN, r.kind \in {"config", "setting"} => config
        PROVE  node \in FitNodes("DAEMON", config)
    BY <1>5, <2>2, DaemonFit
  <2> QED
    BY <2>1, <2>2
<1>6. /\ {"meters", "status", "command", "config"} \subseteq DaemonNames \cap Names
      /\ ConfigTags \subseteq DaemonNames \cap Names
      /\ "config" \in ConfigNodes
  BY KnownTexts, MethodsAreNames DEF DaemonNames, ConfigNodes
<1>7. ConfigTags \cap {"meters", "command", "warningmode", "status"} = {}
      /\ CommandTags \cap StatusTags = {}
  BY DEF ConfigTags, CommandTags, StatusTags
<1>8. CASE r.kind \in {"meters", "status", "config"}
  <2>1. node = Node(r.kind, r.tag)
    BY <1>8
  <2>2. node.name = r.kind /\ node.value = r.tag
    BY <1>3, <1>6, <1>8, <2>1, NodeIs
  <2>3. /\ node \in Nodes
        /\ \A config \in BOOLEAN : (r.kind \in {"config", "setting"} => config) =>
              node \in FitNodes("DAEMON", config)
    <3> HIDE DEF node
    <3> QED
      BY <1>2, <1>3, <1>5, <1>6, <1>8, <2>1, KnownKinds
  <2> HIDE DEF node
  <2>4. Due(node) <=> HasAnswer(r)
    BY <1>2, <1>8, <2>2 DEF Due, HasAnswer
  <2> QED
    BY <1>4, <2>2, <2>3, <2>4
<1>9. CASE r.kind = "setting"
  <2>1. node = Node(r.tag, "value")
    BY <1>9
  <2>2. node.name = r.tag
    <3>1. "value" \in Texts
      BY KnownTexts
    <3>2. Node(r.tag, "value").name = r.tag
      BY <1>3, <3>1, NodeIs
    <3> QED
      BY <2>1, <3>2
  <2>3. /\ node \in Nodes
        /\ \A config \in BOOLEAN : (r.kind \in {"config", "setting"} => config) =>
              node \in FitNodes("DAEMON", config)
    <3> HIDE DEF node
    <3> QED
      BY <1>2, <1>5, <1>6, <1>7, <1>9, <2>1, KnownTexts
  <2> HIDE DEF node
  <2>4. ~Due(node) /\ ~HasAnswer(r)
    BY <1>2, <1>7, <1>9, <2>2 DEF Due, HasAnswer
  <2> QED
    BY <1>4, <2>3, <2>4
<1>10. CASE r.kind = "command"
  <2>1. node = Node("status", r.tag)
    BY <1>10
  <2>2. node.name = "status" /\ node.value = r.tag
    BY <1>3, <1>6, <2>1, NodeIs
  <2>3. /\ node \in Nodes
        /\ \A config \in BOOLEAN : (r.kind \in {"config", "setting"} => config) =>
              node \in FitNodes("DAEMON", config)
    <3> HIDE DEF node
    <3> QED
      BY <1>3, <1>5, <1>6, <2>1, KnownKinds
  <2> HIDE DEF node
  <2>4. ~Due(node) /\ ~HasAnswer(r)
    BY <1>2, <1>7, <1>10, <2>2 DEF Due, HasAnswer
  <2> QED
    BY <1>4, <2>3, <2>4
<1>11. CASE r.kind = "order"
  <2>1. node = Node("command", r.tag)
    BY <1>11
  <2>2. node.name = "command" /\ node.value = r.tag
    BY <1>3, <1>6, <2>1, NodeIs
  <2>3. /\ node \in Nodes
        /\ \A config \in BOOLEAN : (r.kind \in {"config", "setting"} => config) =>
              node \in FitNodes("DAEMON", config)
    <3> HIDE DEF node
    <3> QED
      BY <1>2, <1>3, <1>5, <1>6, <1>11, <2>1, KnownKinds
  <2> HIDE DEF node
  <2>4. Due(node) /\ HasAnswer(r)
    BY <1>11, <2>2 DEF Due, HasAnswer
  <2> QED
    BY <1>4, <2>2, <2>3, <2>4
<1> QED
  BY <1>1, <1>8, <1>9, <1>10, <1>11

LEMMA RequestFit ==
    ASSUME NEW r \in AllRequests, NEW config \in BOOLEAN,
           r.kind \in {"config", "setting"} => config
    PROVE  RequestCreate(r) \in FitMessages(config)["DAEMON"]
<1> DEFINE node == RequestCreate(r)[2]
<1>1. /\ RequestCreate(r) = <<Top, node>>
      /\ node \in Nodes \cap FitNodes("DAEMON", config)
  BY RequestIs
<1>2. "DAEMON" \in Ends
  BY DEF Ends
<1>3. Top \in Nodes \cap FitNodes("DAEMON", config) \cap SilentNodes("DAEMON")
  BY <1>2, KnownNodes
<1> HIDE DEF node
<1>4. <<Top, node>> \in Path(FitNodes("DAEMON", config), SilentNodes("DAEMON"))
  BY <1>1, <1>3, PathOfTwo
<1> QED
  BY <1>1, <1>2, <1>4 DEF FitMessages

----------------------------------------------------------------------------
(* The messages both ends have a method for, node by node.                 *)

\* The nodes an end can process so that the other can process what it writes.
\* Only the daemon's methods look at the text.
Good(end, node) ==
    /\ node.name \in Methods
    /\ end = "DAEMON" =>
          /\ node.name = "meters" => node.value \in Methods
          /\ node.name \in StatusNodes => node.value # "sysversion"
          /\ node.name \in CommandNodes => node.value \in {"auxilary", "relay", "poll"}

GoodNodes(end) == {node \in Nodes : Good(end, node)}
GoodMessages == [end \in Ends |-> Seq(GoodNodes(end))]

AllUnderstood == \A k \in 1..Len(asked) : Understood(asked[k])

LEMMA MessageOfThree ==
    ASSUME NEW S, NEW a \in S, NEW b \in S, NEW c \in S
    PROVE  <<a, b, c>> \in Seq(S)
OBVIOUS

LEMMA MessageOfFour ==
    ASSUME NEW S, NEW a \in S, NEW b \in S, NEW c \in S, NEW d \in S
    PROVE  <<a, b, c, d>> \in Seq(S)
OBVIOUS

LEMMA NodeGood ==
    ASSUME NEW end, NEW name \in Methods, NEW value \in Texts,
           end = "DAEMON" =>
              /\ name = "meters" => value \in Methods
              /\ name \in StatusNodes => value # "sysversion"
              /\ name \in CommandNodes => value \in {"auxilary", "relay", "poll"}
    PROVE  Node(name, value) \in GoodNodes(end)
<1> DEFINE node == Node(name, value)
<1>1. name \in Names
  BY MethodsAreNames
<1>2. node \in Nodes /\ node.name = name /\ node.value = value
  BY <1>1, NodeIs
<1> HIDE DEF node
<1>3. Good(end, node)
  BY <1>2 DEF Good
<1>4. node \in GoodNodes(end)
  BY <1>2, <1>3 DEF GoodNodes
<1> QED
  BY <1>4 DEF node

\* The nodes of the messages that every end knows.
LEMMA KnownGood ==
    ASSUME NEW end
    PROVE  /\ Top \in GoodNodes(end)
           /\ Helo \in Seq(GoodNodes(end))
           /\ \A name \in ConfigNodes : Unimplemented(name) \in Seq(GoodNodes(end))
<1>1. {"", "host", "unimplemented"} \subseteq Texts /\ "" # "sysversion"
  BY KnownTexts
<1>2. ASSUME NEW name \in {"powerguru", "client", "server"}, NEW value \in {"", "host"}
      PROVE  Node(name, value) \in GoodNodes(end)
  BY <1>1, KnownTexts, KnownKinds, NodeGood
<1>3. ASSUME NEW name \in {"status", "warningmode"}
      PROVE  Node(name, "") \in GoodNodes(end)
  BY <1>1, KnownTexts, KnownKinds, NodeGood
<1>4. ASSUME NEW name \in ConfigNodes
      PROVE  Node(name, "unimplemented") \in GoodNodes(end)
  <2>1. name \in Methods
    BY DEF Methods
  <2>2. name # "meters" /\ name \notin StatusNodes /\ name \notin CommandNodes
    BY KnownKinds
  <2> QED
    BY <1>1, <2>1, <2>2, NodeGood
<1>5. Top \in GoodNodes(end)
  BY <1>2 DEF Top
<1>6. Helo \in Seq(GoodNodes(end))
  BY <1>2, <1>5, MessageOfThree DEF Helo
<1>7. \A name \in ConfigNodes : Unimplemented(name) \in Seq(GoodNodes(end))
  BY <1>3, <1>4, <1>5, MessageOfFour DEF Unimplemented
<1> QED
  BY <1>5, <1>6, <1>7

\* An answer's last node has a method if its tag has.
LEMMA ResponseGood ==
    ASSUME NEW type \in {"meters", "status", "command"}, NEW tag \in Methods,
           NEW value \in Texts
    PROVE  ResponseCreate(type, tag, value) \in Seq(GoodNodes("CLIENT"))
<1>1. Node(type, "") \in GoodNodes("CLIENT")
  BY KnownTexts, NodeGood
<1>2. Node(tag, value) \in GoodNodes("CLIENT")
  BY NodeGood
<1> QED
  BY <1>1, <1>2, KnownGood, MessageOfThree DEF ResponseCreate

\* What an end writes for a good node can be processed at the other.
LEMMA WrittenGood ==
    ASSUME TypeOK, NEW end \in Ends, NEW node \in GoodNodes(end)
    PROVE  Written(end, node) \in Seq(Seq(GoodNodes(Other(end))))
<1>1. node \in Nodes /\ Good(end, node)
  BY DEF GoodNodes
<1>2. ASSUME node.name = "meters"
      PROVE  MetersProcess(end, node) \in Seq(Seq(GoodNodes(Other(end))))
  <2> DEFINE value == IF node.value \in CacheTags /\ cache[end][node.value] # Nothing
                      THEN cache[end][node.value] ELSE ""
  <2>1. value \in Texts
    <3>1. ASSUME node.value \in CacheTags PROVE cache[end][node.value] \in Texts
      BY <3>1 DEF TypeOK, Texts
    <3> QED
      BY <3>1, KnownTexts
  <2>2. CASE end = "DAEMON"
    <3>1. node.value \in Methods
      BY <1>1, <1>2, <2>2 DEF Good
    <3>2. ResponseCreate("meters", node.value, value) \in Seq(GoodNodes("CLIENT"))
      BY <2>1, <3>1, ResponseGood
    <3>3. Other(end) = "CLIENT"
      BY <2>2 DEF Other
    <3>4. MetersProcess(end, node) = <<ResponseCreate("meters", node.value, value)>>
      BY <2>2 DEF MetersProcess
    <3> HIDE DEF value
    <3> QED
      BY <3>2, <3>3, <3>4
  <2>3. CASE end # "DAEMON"
    BY <2>3 DEF MetersProcess
  <2> QED
    BY <2>2, <2>3
<1>3. ASSUME node.name \in StatusNodes
      PROVE  StatusProcess(end, node) \in Seq(Seq(GoodNodes(Other(end))))
  <2>1. CASE end = "DAEMON"
    <3>1. node.value # "sysversion"
      BY <1>1, <1>3, <2>1 DEF Good
    <3>2. {"revision", "opmode", "warningmode", "errormode"} \subseteq Methods
      BY DEF Methods, StatusNodes
    <3>3. \A tag \in {"revision", "opmode", "warningmode", "errormode"},
             value \in {"0.0", "none"} :
             ResponseCreate("status", tag, value) \in Seq(GoodNodes("CLIENT"))
      BY <3>2, KnownTexts, ResponseGood
    <3>4. Other(end) = "CLIENT"
      BY <2>1 DEF Other
    <3> QED
      BY <2>1, <3>1, <3>3, <3>4 DEF StatusProcess
  <2>2. CASE end # "DAEMON"
    BY <2>2 DEF StatusProcess
  <2> QED
    BY <2>1, <2>2
<1>4. ASSUME node.name \in CommandNodes
      PROVE  CommandProcess(end, node) \in Seq(Seq(GoodNodes(Other(end))))
  <2>1. CASE end = "DAEMON"
    <3>1. node.value \in {"auxilary", "relay", "poll"}
      BY <1>1, <1>4, <2>1 DEF Good
    <3>2. {"auxilary", "relay", "poll"} \subseteq Methods
      BY DEF Methods, CommandNodes
    <3>3. \A value \in {"0.0", "none", "inverter"} :
             ResponseCreate("command", node.value, value) \in Seq(GoodNodes("CLIENT"))
      BY <3>1, <3>2, KnownTexts, ResponseGood
    <3>4. CrLf \in Seq(GoodNodes("CLIENT"))
      BY DEF CrLf
    <3>5. Other(end) = "CLIENT"
      BY <2>1 DEF Other
    <3> QED
      BY <2>1, <3>1, <3>3, <3>4, <3>5 DEF CommandProcess
  <2>2. CASE end # "DAEMON"
    BY <2>2 DEF CommandProcess
  <2> QED
    BY <2>1, <2>2
<1>5. ASSUME node.name \in ConfigNodes
      PROVE  ConfigProcess(end, node) \in Seq(Seq(GoodNodes(Other(end))))
  BY <1>5, KnownGood DEF ConfigProcess
<1>6. <<>> \in Seq(Seq(GoodNodes(Other(end))))
  OBVIOUS
<1> QED
  BY <1>2, <1>3, <1>4, <1>5, <1>6 DEF Written

LEMMA GoodCarries ==
    ASSUME TypeOK
    PROVE  Carries(GoodMessages)
<1>1. \A end \in Ends : GoodMessages[end] = Seq(GoodNodes(end))
  BY DEF GoodMessages
<1>2. ASSUME NEW end \in Ends, NEW message \in GoodMessages[end], message # <<>>
      PROVE  /\ Tail(message) \in GoodMessages[end]
             /\ Written(end, Head(message)) \in Seq(GoodMessages[Other(end)])
  <2>1. message \in Seq(GoodNodes(end))
    BY <1>1
  <2>2. Head(message) \in GoodNodes(end) /\ Tail(message) \in Seq(GoodNodes(end))
    BY <1>2, <2>1, RestIsSeq
  <2>3. Written(end, Head(message)) \in Seq(Seq(GoodNodes(Other(end))))
    BY <2>2, WrittenGood
  <2> QED
    BY <1>1, <2>2, <2>3, OtherEnd
<1>3. ASSUME NEW end \in Ends
      PROVE  <<>> \in GoodMessages[end] /\ Helo \in GoodMessages[end]
  <2>1. <<>> \in Seq(GoodNodes(end)) /\ Helo \in Seq(GoodNodes(end))
    BY KnownGood, ShortSeqs
  <2> QED
    BY <1>1, <2>1
<1> QED
  BY <1>2, <1>3 DEF Carries

\* A request both ends understand.
LEMMA RequestGood ==
    ASSUME NEW r \in AllRequests, Understood(r)
    PROVE  RequestCreate(r) \in GoodMessages["DAEMON"]
<1>1. r.kind \in {"meters", "status", "config", "setting", "command", "order"}
  BY DEF AllRequests
<1>2. /\ r.kind = "meters" => r.tag \in MeterTags
      /\ r.kind = "status" => r.tag \in StatusTags
      /\ r.kind \in {"config", "setting"} => r.tag \in ConfigTags
      /\ r.kind \in {"command", "order"} => r.tag \in CommandTags
  BY DEF AllRequests
<1>3. r.tag \in Texts /\ "value" \in Texts
  BY <1>1, <1>2, KnownTexts
<1>4. "sysversion" \notin Methods /\ "sysversion" \notin CommandTags
  BY DEF Methods, HeloNodes, ReadingTags, StatusNodes, ConfigNodes, CommandNodes, CommandTags
<1>5. PICK node \in GoodNodes("DAEMON") : RequestCreate(r) = <<Top, node>>
  <2>1. CASE r.kind = "meters"
    <3>1. Node("meters", r.tag) \in GoodNodes("DAEMON")
      BY <1>3, <2>1, KnownTexts, KnownKinds, NodeGood DEF Understood
    <3> QED
      BY <2>1, <3>1 DEF RequestCreate
  <2>2. CASE r.kind = "status"
    <3>1. Node("status", r.tag) \in GoodNodes("DAEMON")
      BY <1>3, <1>4, <2>2, KnownTexts, KnownKinds, NodeGood DEF Understood
    <3> QED
      BY <2>2, <3>1 DEF RequestCreate
  <2>3. CASE r.kind = "config"
    <3>1. "config" \in ConfigNodes
      BY DEF ConfigNodes
    <3>2. Node("config", r.tag) \in GoodNodes("DAEMON")
      BY <1>3, <3>1, KnownTexts, KnownKinds, NodeGood
    <3> QED
      BY <2>3, <3>2 DEF RequestCreate
  <2>4. CASE r.kind = "setting"
    <3>1. r.tag \in Methods /\ r.tag \notin StatusNodes /\ r.tag # "meters"
      BY <1>2, <2>4 DEF Understood, ConfigTags, StatusNodes
    <3>2. r.tag \notin CommandNodes
      BY <1>2, <2>4 DEF ConfigTags, CommandNodes
    <3>3. Node(r.tag, "value") \in GoodNodes("DAEMON")
      BY <1>3, <3>1, <3>2, NodeGood
    <3> QED
      BY <2>4, <3>3 DEF RequestCreate
  <2>5. CASE r.kind = "command"
    <3>1. r.tag # "sysversion"
      BY <1>2, <1>4, <2>5
    <3>2. Node("status", r.tag) \in GoodNodes("DAEMON")
      BY <1>3, <3>1, KnownTexts, KnownKinds, NodeGood
    <3> QED
      BY <2>5, <3>2 DEF RequestCreate
  <2>6. CASE r.kind = "order"
    <3>1. Node("command", r.tag) \in GoodNodes("DAEMON")
      BY <1>3, <2>6, KnownTexts, KnownKinds, NodeGood DEF Understood
    <3> QED
      BY <2>6, <3>1 DEF RequestCreate
  <2> QED
    BY <1>1, <2>1, <2>2, <2>3, <2>4, <2>5, <2>6
<1>6. <<Top, node>> \in Seq(GoodNodes("DAEMON"))
  BY KnownGood, ShortSeqs
<1> QED
  BY <1>5, <1>6 DEF GoodMessages, Ends

----------------------------------------------------------------------------
(* The invariant of what is under way and of the cache.                    *)

FitCarried ==
    \A config \in BOOLEAN : (ConfigAsked => config) => Carry(FitMessages(config))

GoodCarried == AllUnderstood => undefined = {} /\ Carry(GoodMessages)

IInv == TypeOK /\ FitCarried /\ GoodCarried /\ CacheIsDaemons

LEMMA InitInv == Init => IInv
<1> SUFFICES ASSUME Init PROVE IInv
  OBVIOUS
<1>1. TypeOK
  <2>1. Nothing \in Names \cup Values
    BY DEF Values
  <2>2. cache \in [Ends -> [CacheTags -> Names \cup Values]]
    BY <2>1 DEF Init
  <2>3. /\ inbox \in [Ends -> Seq(Seq(Nodes))]
        /\ todo \in [Ends -> Seq(Nodes)]
        /\ asked \in Seq(Requests) /\ answers \in Seq(Names)
    BY ShortSeqs DEF Init
  <2> QED
    BY <2>2, <2>3 DEF Init, TypeOK
<1>2. ASSUME NEW config \in BOOLEAN PROVE Carry(FitMessages(config))
  <2>1. \A end \in Ends : <<>> \in FitMessages(config)[end]
    BY <1>1, FitCarries DEF Carries
  <2> QED
    BY <2>1 DEF Init, Carry
<1>3. Carry(GoodMessages)
  <2>1. \A end \in Ends : <<>> \in GoodMessages[end]
    BY <1>1, GoodCarries DEF Carries
  <2> QED
    BY <2>1 DEF Init, Carry
<1>4. CacheIsDaemons
  BY DEF Init, CacheIsDaemons, Ends
<1> QED
  BY <1>1, <1>2, <1>3, <1>4 DEF IInv, FitCarried, GoodCarried, Init

\* The client's requests only grow by one.
LEMMA AskedGrows ==
    ASSUME TypeOK, [Next]_vars
    PROVE  \/ UNCHANGED asked
           \/ \E r \in Requests :
                 /\ Ask(r)
                 /\ asked' = Append(asked, r)
                 /\ Len(asked') = Len(asked) + 1
                 /\ asked'[Len(asked')] = r
                 /\ \A k \in 1..Len(asked) : asked'[k] = asked[k]
<1>1. \/ UNCHANGED asked
      \/ \E r \in Requests : Ask(r) /\ asked' = Append(asked, r)
  BY DEF Next, InitDaemon, InitClient, Accept, Ask, Works, Take, ThrowOut, Process,
         CallUndefined, vars
<1>2. ASSUME NEW r \in Requests, asked' = Append(asked, r)
      PROVE  /\ Len(asked') = Len(asked) + 1
             /\ asked'[Len(asked')] = r
             /\ \A k \in 1..Len(asked) : asked'[k] = asked[k]
  BY <1>2 DEF TypeOK
<1> QED
  BY <1>1, <1>2

LEMMA ConfigStays ==
    ASSUME TypeOK, [Next]_vars
    PROVE  /\ ConfigAsked => ConfigAsked'
           /\ \A r \in Requests : asked' = Append(asked, r) /\ r.kind \in {"config", "setting"}
                 => ConfigAsked'
<1>1. Len(asked) \in Nat
  BY DEF TypeOK
<1>2. ASSUME ConfigAsked PROVE ConfigAsked'
  BY <1>1, <1>2, AskedGrows DEF ConfigAsked
<1>3. ASSUME NEW r \in Requests, asked' = Append(asked, r), r.kind \in {"config", "setting"}
      PROVE  ConfigAsked'
  <2>1. Len(asked) + 1 \in 1..Len(asked') /\ asked'[Len(asked) + 1] = r
    BY <1>1, <1>3 DEF TypeOK
  <2> QED
    BY <1>3, <2>1 DEF ConfigAsked
<1> QED
  BY <1>2, <1>3

LEMMA UnderstoodWas ==
    ASSUME TypeOK, [Next]_vars, AllUnderstood'
    PROVE  /\ AllUnderstood
           /\ \A r \in Requests : asked' = Append(asked, r) => Understood(r)
<1>1. Len(asked) \in Nat
  BY DEF TypeOK
<1>2. AllUnderstood
  BY <1>1, AskedGrows DEF AllUnderstood
<1>3. ASSUME NEW r \in Requests, asked' = Append(asked, r)
      PROVE  Understood(r)
  <2>1. Len(asked) + 1 \in 1..Len(asked') /\ asked'[Len(asked) + 1] = r
    BY <1>1, <1>3 DEF TypeOK
  <2> QED
    BY <1>3, <2>1 DEF AllUnderstood
<1> QED
  BY <1>2, <1>3

LEMMA NextFitCarried ==
    ASSUME TypeOK, FitCarried, [Next]_vars
    PROVE  FitCarried'
<1>1. ASSUME NEW config \in BOOLEAN, ConfigAsked' => config
      PROVE  Carry(FitMessages(config))'
  <2> DEFINE M == FitMessages(config)
  <2>1. Carry(M)
    BY <1>1, ConfigStays DEF FitCarried
  <2>2. Carries(M)
    BY FitCarries
  <2>3. \A r \in Requests : asked' = Append(asked, r) => RequestCreate(r) \in M["DAEMON"]
    BY <1>1, ConfigStays, RequestFit, MsgsAssumption
  <2> HIDE DEF M
  <2>4. Carry(M)'
    BY <2>1, <2>2, <2>3, CarryNext
  <2> QED
    BY <2>4 DEF M
<1> QED
  BY <1>1 DEF FitCarried

LEMMA NextGoodCarried ==
    ASSUME TypeOK, GoodCarried, [Next]_vars
    PROVE  GoodCarried'
<1> SUFFICES ASSUME AllUnderstood'
             PROVE  undefined' = {} /\ Carry(GoodMessages)'
  BY DEF GoodCarried
<1>1. AllUnderstood /\ undefined = {} /\ Carry(GoodMessages)
  BY UnderstoodWas DEF GoodCarried
<1>2. \A r \in Requests : asked' = Append(asked, r) => RequestCreate(r) \in GoodMessages["DAEMON"]
  BY UnderstoodWas, RequestGood, MsgsAssumption
<1>3. Carry(GoodMessages)'
  BY <1>1, <1>2, GoodCarries, CarryNext
<1>4. ASSUME NEW end \in Ends PROVE ~CallUndefined(end)
  <2> SUFFICES ASSUME CallUndefined(end) PROVE FALSE
    OBVIOUS
  <2>1. todo[end] \in Seq(GoodNodes(end)) /\ todo[end] # <<>>
    BY <1>1 DEF Carry, GoodMessages, CallUndefined
  <2>2. Head(todo[end]) \in GoodNodes(end)
    BY <2>1, RestIsSeq
  <2> QED
    BY <2>2 DEF GoodNodes, Good, CallUndefined
<1>5. undefined' = undefined
  BY <1>4 DEF Next, InitDaemon, InitClient, Accept, Ask, Works, Take, ThrowOut, Process, vars
<1> QED
  BY <1>1, <1>3, <1>5

\* The node that is processed.
LEMMA ProcessedFit ==
    ASSUME TypeOK, NEW config \in BOOLEAN, Carry(FitMessages(config)),
           NEW end \in Ends, todo[end] # <<>>
    PROVE  /\ todo[end] \in Path(FitNodes(end, config), SilentNodes(end))
           /\ Head(todo[end]) \in Nodes
           /\ Head(todo[end]) \in FitNodes(end, config)
           /\ Len(todo[end]) > 1 => Head(todo[end]) \in SilentNodes(end)
<1>1. todo[end] \in Path(FitNodes(end, config), SilentNodes(end))
  BY DEF Carry, FitMessages
<1> QED
  BY <1>1, PathHead

LEMMA NextCache ==
    ASSUME TypeOK, FitCarried, CacheIsDaemons, [Next]_vars
    PROVE  CacheIsDaemons'
<1> SUFFICES ASSUME NEW tag \in CacheTags, cache'["CLIENT"][tag] # Nothing
             PROVE  /\ tag \in Cached
                    /\ cache'["CLIENT"][tag] = "" => tag = "warningmode" /\ ConfigAsked'
  BY DEF CacheIsDaemons, Cached, ConfigAsked
<1>1. ASSUME cache'["CLIENT"][tag] = cache["CLIENT"][tag]
      PROVE  /\ tag \in Cached
             /\ cache'["CLIENT"][tag] = "" => tag = "warningmode" /\ ConfigAsked'
  <2>1. /\ tag \in Cached
        /\ cache["CLIENT"][tag] = "" => tag = "warningmode" /\ ConfigAsked
    BY <1>1 DEF CacheIsDaemons, Cached, ConfigAsked
  <2> QED
    BY <1>1, <2>1, ConfigStays
<1>2. CASE InitDaemon
  <2>1. cache'["CLIENT"] = cache["CLIENT"]
    BY <1>2 DEF InitDaemon, TypeOK, Ends
  <2> QED
    BY <1>1, <2>1
<1>3. ASSUME NEW end \in Ends, Process(end), cache'["CLIENT"][tag] # cache["CLIENT"][tag]
      PROVE  /\ tag \in Cached
             /\ cache'["CLIENT"][tag] = "" => tag = "warningmode" /\ ConfigAsked'
  <2> DEFINE node == Head(todo[end])
  <2>1. /\ Caches(end, node)
        /\ cache' = [cache EXCEPT ![end][node.name] = node.value]
        /\ todo[end] # <<>>
    BY <1>3 DEF Process
  <2>2. PICK config \in BOOLEAN : config <=> ConfigAsked
    <3>1. CASE ConfigAsked
      BY <3>1
    <3>2. CASE ~ConfigAsked
      BY <3>2
    <3> QED
      BY <3>1, <3>2
  <2>3. Carry(FitMessages(config))
    BY <2>2 DEF FitCarried
  <2>4. node \in FitNodes(end, config)
    BY <2>1, <2>3, ProcessedFit
  <2>5. end = "CLIENT"
    BY <2>1 DEF Caches
  <2> HIDE DEF node
  <2>6. cache'["CLIENT"] = [cache["CLIENT"] EXCEPT ![node.name] = node.value]
    BY <2>1, <2>5 DEF TypeOK, Ends
  <2>7. cache["CLIENT"] \in [CacheTags -> Texts]
    BY DEF TypeOK, Texts, Ends
  <2>8. tag = node.name /\ cache'["CLIENT"][tag] = node.value
    BY <1>3, <2>6, <2>7
  <2>9. node.name \in CacheNames
    BY <2>1 DEF Caches, CacheNames
  <2>10. node.name \in Cached /\ (node.value = "" => node.name = "warningmode" /\ config)
    BY <2>4, <2>5, <2>9 DEF FitNodes, Fit
  <2> QED
    BY <2>2, <2>8, <2>10, ConfigStays
<1>4. ASSUME UNCHANGED cache
      PROVE  /\ tag \in Cached
             /\ cache'["CLIENT"][tag] = "" => tag = "warningmode" /\ ConfigAsked'
  BY <1>1, <1>4
<1>5. \/ InitDaemon \/ UNCHANGED cache \/ \E end \in Ends : Process(end)
  BY DEF Next, InitClient, Accept, Ask, Works, Take, ThrowOut, CallUndefined, vars
<1> QED
  BY <1>1, <1>2, <1>3, <1>4, <1>5

\* What is under way is made of nodes.
LEMMA CarriedTyped ==
    ASSUME TypeOK, [Next]_vars, Carry(FitMessages(TRUE))'
    PROVE  inbox' \in [Ends -> Seq(Seq(Nodes))] /\ todo' \in [Ends -> Seq(Nodes)]
<1>1. inbox' = [end \in Ends |-> inbox'[end]] /\ todo' = [end \in Ends |-> todo'[end]]
  <2>1. inbox = [end \in Ends |-> inbox[end]] /\ todo = [end \in Ends |-> todo[end]]
    BY DEF TypeOK
  <2>2. \/ inbox' = inbox
        \/ \E end \in Ends : \E q : inbox' = [inbox EXCEPT ![end] = q]
    <3>1. \A to \in Ends : \A ms : Send(to, ms) => \E q : inbox' = [inbox EXCEPT ![to] = q]
      BY DEF Send
    <3> QED
      BY <3>1, OtherEnd DEF Next, InitDaemon, InitClient, Accept, Ask, Works, Take, ThrowOut,
         Process, CallUndefined, vars, Ends
  <2>3. \/ todo' = todo
        \/ \E end \in Ends : \E message : todo' = [todo EXCEPT ![end] = message]
    BY DEF Next, InitDaemon, InitClient, Accept, Ask, Works, Take, ThrowOut, Process,
       CallUndefined, vars
  <2> QED
    BY <2>1, <2>2, <2>3
<1>2. ASSUME NEW end \in Ends
      PROVE  inbox'[end] \in Seq(Seq(Nodes)) /\ todo'[end] \in Seq(Nodes)
  <2> DEFINE M == FitMessages(TRUE)[end]
  <2>1. inbox'[end] \in Seq(M) /\ todo'[end] \in M
    BY DEF Carry
  <2>2. M \subseteq Seq(Nodes)
    BY DEF FitMessages, Path
  <2> HIDE DEF M
  <2> QED
    BY <2>1, <2>2
<1> QED
  BY <1>1, <1>2

LEMMA NextTypeOK ==
    ASSUME TypeOK, FitCarried, [Next]_vars
    PROVE  TypeOK'
<1>1. Carry(FitMessages(TRUE))'
  BY NextFitCarried DEF FitCarried
<1>2. inbox' \in [Ends -> Seq(Seq(Nodes))] /\ todo' \in [Ends -> Seq(Nodes)]
  BY <1>1, CarriedTyped
<1>3. cache' \in [Ends -> [CacheTags -> Names \cup Values]]
  <2>1. CASE UNCHANGED cache
    BY <2>1 DEF TypeOK
  <2>2. CASE InitDaemon
    <3>1. \A tag \in CacheTags : DaemonCache(tag) \in Values
      BY DEF DaemonCache, Values
    <3> QED
      BY <2>2, <3>1 DEF InitDaemon, TypeOK
  <2>3. ASSUME NEW end \in Ends, Process(end)
        PROVE  cache' \in [Ends -> [CacheTags -> Names \cup Values]]
    <3> DEFINE node == Head(todo[end])
    <3>1. /\ todo[end] # <<>> /\ node.name \in Methods
          /\ \/ cache' = [cache EXCEPT ![end][node.name] = node.value]
             \/ cache' = cache
      BY <2>3 DEF Process
    <3>2. node \in Nodes
      BY <3>1, RestIsSeq DEF TypeOK
    <3> HIDE DEF node
    <3>3. node.name \in CacheTags /\ node.value \in Names \cup Values
      BY <3>1, <3>2, NodeParts, MethodsAreNames DEF Texts
    <3> DEFINE line == [cache[end] EXCEPT ![node.name] = node.value]
    <3>4. cache \in [Ends -> [CacheTags -> Names \cup Values]]
      BY DEF TypeOK
    <3>5. line \in [CacheTags -> Names \cup Values]
      BY <3>3, <3>4
    <3>6. cache' = [cache EXCEPT ![end] = line] \/ cache' = cache
      BY <3>1
    <3> HIDE DEF line
    <3> QED
      BY <3>4, <3>5, <3>6
  <2>4. \/ InitDaemon \/ UNCHANGED cache \/ \E end \in Ends : Process(end)
    BY DEF Next, InitClient, Accept, Ask, Works, Take, ThrowOut, CallUndefined, vars
  <2> QED
    BY <2>1, <2>2, <2>3, <2>4
<1>4. asked' \in Seq(Requests)
  <2>1. asked \in Seq(Requests)
    BY DEF TypeOK
  <2>2. asked' = asked \/ \E r \in Requests : asked' = Append(asked, r)
    BY AskedGrows
  <2> QED
    BY <2>1, <2>2, AppendSeq
<1>5. answers' \in Seq(Names)
  <2>1. ASSUME NEW end \in Ends, Take(end)
        PROVE  answers' \in Seq(Names)
    <3> DEFINE message == Head(inbox[end])
    <3>1. message \in Seq(Nodes)
      BY <2>1, RestIsSeq DEF Take, TypeOK
    <3>2. \/ answers' = answers
          \/ IsAnswer(message) /\ answers' = Append(answers, message[3].name)
      BY <2>1 DEF Take
    <3> HIDE DEF message
    <3>3. ASSUME IsAnswer(message) PROVE message[3].name \in Names
      <4>1. Len(message) = 3
        BY <3>3 DEF IsAnswer
      <4>2. message[3] \in Nodes
        BY <3>1, <4>1, ElementOfSeq
      <4> QED
        BY <4>2, NodeParts
    <3>4. answers \in Seq(Names)
      BY DEF TypeOK
    <3> QED
      BY <3>2, <3>3, <3>4, AppendSeq
  <2>2. UNCHANGED answers \/ \E end \in Ends : Take(end)
    BY DEF Next, InitDaemon, InitClient, Accept, Ask, Works, ThrowOut, Process,
       CallUndefined, vars
  <2> QED
    BY <2>1, <2>2 DEF TypeOK
<1>6. /\ listening' \in BOOLEAN /\ accepted' \in BOOLEAN /\ swallowed' \in BOOLEAN
      /\ mode' \in [Ends -> {"NONET", "DAEMON", "CLIENT"}]
      /\ undefined' \subseteq Ends
  BY DEF TypeOK, Next, InitDaemon, InitClient, Accept, Ask, Works, Take, ThrowOut, Process,
     CallUndefined, vars
<1> QED
  BY <1>2, <1>3, <1>4, <1>5, <1>6 DEF TypeOK

LEMMA NextInv == IInv /\ [Next]_vars => IInv'
BY NextTypeOK, NextFitCarried, NextGoodCarried, NextCache DEF IInv

\* However the two ends answer each other's answers, every message is made of
\* names the daemon or the client has a word for, and the cache of texts (process,
\* cacheAdd, requestCreate, configCreate, responseCreate).
THEOREM TypeCorrect == Spec => []TypeOK
<1>1. IInv => TypeOK
  BY DEF IInv
<1> QED
  BY <1>1, InitInv, NextInv, PTL DEF Spec

\* For any requests, an end calls a method that is not in its table only if the
\* client asked for something without a name there (process, methodGet, the
\* answers of statusProcess, metersProcess, commandProcess, configProcess).
THEOREM MethodsAreDefined == Spec => []UndefinedOnlyUnknown
<1>1. IInv => UndefinedOnlyUnknown
  BY DEF IInv, GoodCarried, AllUnderstood, UndefinedOnlyUnknown
<1> QED
  BY <1>1, InitInv, NextInv, PTL DEF Spec

\* For any requests, the client caches nothing but what the daemon answered, and
\* an empty warning only after a config request (cacheAdd, statusProcess,
\* commandProcess, unimplementedProcess).
THEOREM CacheFromDaemon == Spec => []CacheIsDaemons
<1>1. IInv => CacheIsDaemons
  BY DEF IInv
<1> QED
  BY <1>1, InitInv, NextInv, PTL DEF Spec

----------------------------------------------------------------------------
(* Counting.                                                               *)

\* How many of the first k are in A.
Num(q, A, k) == Cardinality({i \in 1..k : q[i] \in A})
One(x, A) == IF x \in A THEN 1 ELSE 0

LEMMA NumNat ==
    ASSUME NEW q, NEW A, NEW k \in Nat
    PROVE  /\ IsFiniteSet({i \in 1..k : q[i] \in A})
           /\ Num(q, A, k) \in Nat
<1>1. IsFiniteSet(1..k)
  BY FS_Interval
<1>2. {i \in 1..k : q[i] \in A} \in SUBSET (1..k)
  OBVIOUS
<1>3. IsFiniteSet({i \in 1..k : q[i] \in A})
  BY <1>1, <1>2, FS_Subset
<1> QED
  BY <1>3, FS_CardinalityType DEF Num

LEMMA NumZero ==
    ASSUME NEW q, NEW A
    PROVE  Num(q, A, 0) = 0
<1>1. {i \in 1..0 : q[i] \in A} = {}
  OBVIOUS
<1> QED
  BY <1>1, FS_EmptySet DEF Num

LEMMA NumStep ==
    ASSUME NEW q, NEW A, NEW k \in Nat
    PROVE  Num(q, A, k + 1) = Num(q, A, k) + One(q[k + 1], A)
<1> DEFINE S == {i \in 1..k : q[i] \in A}
           T == {i \in 1..k + 1 : q[i] \in A}
<1>1. IsFiniteSet(S)
  BY NumNat
<1>2. CASE q[k + 1] \in A
  <2>1. T = S \cup {k + 1}
    BY <1>2
  <2>2. Cardinality(S \cup {k + 1}) = Cardinality(S) + 1
    <3>1. k + 1 \notin S
      OBVIOUS
    <3> HIDE DEF S
    <3> QED
      BY <1>1, <3>1, FS_AddElement
  <2> QED
    BY <1>2, <2>1, <2>2 DEF Num, One
<1>3. CASE q[k + 1] \notin A
  <2>1. T = S
    BY <1>3
  <2>2. Num(q, A, k) \in Nat
    BY NumNat
  <2> QED
    BY <1>3, <2>1, <2>2 DEF Num, One
<1> QED
  BY <1>2, <1>3

LEMMA NumSame ==
    ASSUME NEW p, NEW q, NEW A, NEW k \in Nat, \A i \in 1..k : p[i] = q[i]
    PROVE  Num(p, A, k) = Num(q, A, k)
<1>1. {i \in 1..k : p[i] \in A} = {i \in 1..k : q[i] \in A}
  OBVIOUS
<1> QED
  BY <1>1 DEF Num

LEMMA NumBefore ==
    ASSUME NEW S, NEW q \in Seq(S), NEW x, NEW A, NEW k \in 0..Len(q)
    PROVE  Num(Append(q, x), A, k) = Num(q, A, k)
<1>1. k \in Nat /\ \A i \in 1..k : Append(q, x)[i] = q[i]
  OBVIOUS
<1> QED
  BY <1>1, NumSame

LEMMA NumAppend ==
    ASSUME NEW S, NEW q \in Seq(S), NEW x, NEW A
    PROVE  /\ Len(Append(q, x)) = Len(q) + 1
           /\ Num(Append(q, x), A, Len(q) + 1) = Num(q, A, Len(q)) + One(x, A)
<1>1. /\ Len(q) \in Nat
      /\ Len(Append(q, x)) = Len(q) + 1
      /\ Append(q, x)[Len(q) + 1] = x
  OBVIOUS
<1>2. Num(Append(q, x), A, Len(q)) = Num(q, A, Len(q))
  <2>1. Len(q) \in 0..Len(q)
    BY <1>1
  <2> QED
    BY <2>1, NumBefore
<1>3. Num(Append(q, x), A, Len(q) + 1)
        = Num(Append(q, x), A, Len(q)) + One(Append(q, x)[Len(q) + 1], A)
  BY <1>1, NumStep
<1> QED
  BY <1>1, <1>2, <1>3

LEMMA NumTail ==
    ASSUME NEW S, NEW q \in Seq(S), q # <<>>, NEW A, NEW k \in 0..Len(q) - 1
    PROVE  Num(q, A, k + 1) = Num(Tail(q), A, k) + One(Head(q), A)
<1> DEFINE p == Tail(q)
           U == {i \in 1..k : p[i] \in A}
           V == {i \in 1..k + 1 : q[i] \in A}
           W == V \ {1}
           f == [i \in U |-> i + 1]
<1>1. /\ k \in Nat /\ Len(q) \in Nat
      /\ \A i \in 1..k : p[i] = q[i + 1]
      /\ Head(q) = q[1]
  OBVIOUS
<1>2. IsFiniteSet(U) /\ IsFiniteSet(V)
  <2>1. k + 1 \in Nat
    BY <1>1
  <2> QED
    BY <1>1, <2>1, NumNat
<1>3. f \in Bijection(U, W)
  <2>1. ASSUME NEW i \in U PROVE i + 1 \in W
    BY <1>1, <2>1
  <2>2. f \in [U -> W]
    BY <2>1
  <2>3. \A i, j \in U : f[i] = f[j] => i = j
    OBVIOUS
  <2>4. ASSUME NEW j \in W PROVE \E i \in U : f[i] = j
    <3>1. j - 1 \in 1..k /\ (j - 1) + 1 = j /\ j \in Int
      BY <1>1
    <3>2. p[j - 1] = q[j]
      BY <1>1, <3>1
    <3>3. j - 1 \in U
      BY <3>1, <3>2
    <3>4. f[j - 1] = j
      BY <3>1, <3>3
    <3> QED
      BY <3>3, <3>4
  <2> HIDE DEF U, W, f
  <2> QED
    BY <2>2, <2>3, <2>4 DEF Bijection, Injection, Surjection, IsInjective
<1>4. Cardinality(W) = Cardinality(U)
  <2>1. ExistsBijection(U, W)
    BY <1>3 DEF ExistsBijection
  <2> HIDE DEF U, W
  <2> QED
    BY <1>2, <2>1, FS_Bijection
<1>5. Cardinality(W) = IF 1 \in V THEN Cardinality(V) - 1 ELSE Cardinality(V)
  <2> HIDE DEF V
  <2> QED
    BY <1>2, FS_RemoveElement
<1>6. 1 \in V <=> Head(q) \in A
  BY <1>1
<1>7. Cardinality(U) \in Nat /\ Cardinality(V) \in Nat
  <2> HIDE DEF U, V
  <2> QED
    BY <1>2, FS_CardinalityType
<1>8. Num(q, A, k + 1) = Cardinality(V) /\ Num(p, A, k) = Cardinality(U)
  BY DEF Num
<1> HIDE DEF U, V, W, f, p
<1>9. Num(q, A, k + 1) = Num(p, A, k) + One(Head(q), A)
  <2>1. CASE Head(q) \in A
    <3>1. Cardinality(V) = Cardinality(U) + 1 /\ One(Head(q), A) = 1
      BY <1>4, <1>5, <1>6, <1>7, <2>1 DEF One
    <3> QED
      BY <1>8, <3>1
  <2>2. CASE Head(q) \notin A
    <3>1. Cardinality(V) = Cardinality(U) /\ One(Head(q), A) = 0
      BY <1>4, <1>5, <1>6, <2>2 DEF One
    <3> QED
      BY <1>7, <1>8, <3>1
  <2> QED
    BY <2>1, <2>2
<1> QED
  BY <1>9 DEF p

Count(q, A) == Num(q, A, Len(q))

LEMMA OneNat ==
    ASSUME NEW x, NEW A
    PROVE  One(x, A) \in {0, 1}
BY DEF One

LEMMA CountNat ==
    ASSUME NEW S, NEW q \in Seq(S), NEW A
    PROVE  Count(q, A) \in Nat
<1>1. Len(q) \in Nat
  OBVIOUS
<1> QED
  BY <1>1, NumNat DEF Count

LEMMA CountAppend ==
    ASSUME NEW S, NEW q \in Seq(S), NEW x, NEW A
    PROVE  Count(Append(q, x), A) = Count(q, A) + One(x, A)
BY NumAppend DEF Count

LEMMA CountTail ==
    ASSUME NEW S, NEW q \in Seq(S), q # <<>>, NEW A
    PROVE  Count(q, A) = Count(Tail(q), A) + One(Head(q), A)
<1>1. Len(q) \in Nat /\ Len(q) >= 1 /\ Len(Tail(q)) = Len(q) - 1
  BY EmptySeq
<1>2. Len(q) - 1 \in 0..Len(q) - 1 /\ (Len(q) - 1) + 1 = Len(q)
  BY <1>1
<1>3. Num(q, A, (Len(q) - 1) + 1) = Num(Tail(q), A, Len(q) - 1) + One(Head(q), A)
  BY <1>2, NumTail
<1> QED
  BY <1>1, <1>2, <1>3 DEF Count

\* What is sent is one message at most, with "\r\n" or without.
LEMMA SentIs ==
    ASSUME NEW S, NEW q \in Seq(S), NEW x
    PROVE  /\ q \o <<>> = q
           /\ q \o <<x>> = Append(q, x)
           /\ q \o <<x, CrLf>> = Append(Append(q, x), CrLf)
OBVIOUS

----------------------------------------------------------------------------
(* The number of messages under way.                                       *)

Real == Seq(Nodes) \ {CrLf}

Load(end) == Count(inbox[end], Real) + One(todo[end], Real)
Total == Load("DAEMON") + Load("CLIENT")
Helos == (IF mode["CLIENT"] = "CLIENT" THEN 1 ELSE 0) + (IF accepted THEN 1 ELSE 0)

\* A message that is being processed counts: the last of its nodes may write
\* another.
Bounded == Total <= Len(asked) + Helos

LEMMA LoadNat ==
    ASSUME TypeOK, NEW end \in Ends
    PROVE  /\ Count(inbox[end], Real) \in Nat
           /\ One(todo[end], Real) \in {0, 1}
           /\ Load(end) \in Nat /\ Total \in Nat
<1>1. \A e \in Ends : Count(inbox[e], Real) \in Nat
  BY CountNat DEF TypeOK
<1>2. \A e \in Ends : Load(e) \in Nat
  BY <1>1, OneNat DEF Load
<1>3. Total \in Nat
  BY <1>2 DEF Total, Ends
<1> QED
  BY <1>1, <1>2, <1>3, OneNat

LEMMA NextLoadNat ==
    ASSUME TypeOK', NEW end \in Ends
    PROVE  /\ Count(inbox'[end], Real) \in Nat
           /\ One(todo'[end], Real) \in {0, 1}
           /\ Load(end)' \in Nat /\ Total' \in Nat
<1>1. \A e \in Ends : Count(inbox'[e], Real) \in Nat
  BY CountNat DEF TypeOK
<1>2. \A e \in Ends : Load(e)' \in Nat
  BY <1>1, OneNat DEF Load
<1>3. Total' \in Nat
  BY <1>2 DEF Total, Ends
<1> QED
  BY <1>1, <1>2, <1>3, OneNat

LEMMA RealMessages ==
    ASSUME NEW q \in Seq(Seq(Nodes))
    PROVE  Cardinality(Messages(q)) = Count(q, Real)
<1>1. Messages(q) = {k \in 1..Len(q) : q[k] \in Real}
  BY DEF Messages, Real
<1> QED
  BY <1>1 DEF Count, Num

\* Sending one message at most.
LEMMA SendCount ==
    ASSUME TypeOK, NEW to \in Ends, NEW x,
           NEW ms \in {<<>>, <<x>>, <<x, CrLf>>}, Send(to, ms)
    PROVE  /\ Count(inbox'[to], Real) <= Count(inbox[to], Real) + 1
           /\ ms = <<>> => inbox' = inbox
           /\ \A end \in Ends : end # to => inbox'[end] = inbox[end]
<1>1. inbox \in [Ends -> Seq(Seq(Nodes))]
  BY DEF TypeOK
<1>2. inbox[to] \in Seq(Seq(Nodes))
  BY <1>1
<1>3. inbox'[to] = inbox[to] \o ms /\ \A end \in Ends : end # to => inbox'[end] = inbox[end]
  BY <1>1 DEF Send
<1>4. Count(inbox[to], Real) \in Nat /\ One(x, Real) \in {0, 1} /\ One(CrLf, Real) = 0
  BY <1>2, CountNat, OneNat DEF One, Real
<1>5. CASE ms = <<>>
  <2>1. inbox[to] \o ms = inbox[to]
    BY <1>2, <1>5
  <2>2. inbox' = inbox
    BY <1>1, <2>1 DEF Send
  <2> QED
    BY <1>3, <1>4, <2>1, <2>2
<1>6. CASE ms = <<x>>
  <2>1. inbox'[to] = Append(inbox[to], x)
    BY <1>2, <1>3, <1>6, SentIs
  <2>2. Count(inbox'[to], Real) = Count(inbox[to], Real) + One(x, Real)
    BY <1>2, <2>1, CountAppend
  <2> QED
    BY <1>3, <1>4, <1>6, <2>2
<1>7. CASE ms = <<x, CrLf>>
  <2> DEFINE X == Seq(Nodes) \cup {x}
             p == Append(inbox[to], x)
  <2>1. inbox[to] \in Seq(X)
    BY <1>2
  <2>2. p \in Seq(X) /\ inbox'[to] = Append(p, CrLf)
    BY <1>2, <1>3, <1>7, <2>1, SentIs, AppendSeq
  <2>3. Count(p, Real) = Count(inbox[to], Real) + One(x, Real)
    BY <1>2, CountAppend
  <2> HIDE DEF p, X
  <2>4. Count(inbox'[to], Real) = Count(p, Real) + One(CrLf, Real)
    BY <2>2, CountAppend
  <2> QED
    BY <1>3, <1>4, <1>7, <2>3, <2>4
<1> QED
  BY <1>5, <1>6, <1>7

LEMMA TakeTotal ==
    ASSUME TypeOK, TypeOK', NEW end \in Ends, Take(end) \/ ThrowOut(end)
    PROVE  Total' <= Total
<1>1. inbox \in [Ends -> Seq(Seq(Nodes))] /\ todo \in [Ends -> Seq(Nodes)]
  BY DEF TypeOK
<1>2. inbox[end] \in Seq(Seq(Nodes)) /\ inbox[end] # <<>>
  BY <1>1 DEF Take, ThrowOut
<1>3. Count(inbox[end], Real) = Count(Tail(inbox[end]), Real) + One(Head(inbox[end]), Real)
  BY <1>2, CountTail
<1>4. /\ Tail(inbox[end]) \in Seq(Seq(Nodes)) /\ Head(inbox[end]) \in Seq(Nodes)
      /\ Count(Tail(inbox[end]), Real) \in Nat
  BY <1>2, RestIsSeq, CountNat
<1>5. Load(end)' <= Load(end)
  <2>1. CASE Take(end)
    <3>1. todo[end] = <<>> /\ todo'[end] = Head(inbox[end]) /\ inbox'[end] = Tail(inbox[end])
      BY <1>1, <2>1 DEF Take
    <3>2. One(<<>>, Real) = 0
      BY DEF One, Real, CrLf
    <3>3. Load(end) = Count(inbox[end], Real)
      BY <1>3, <1>4, <3>1, <3>2, OneNat DEF Load
    <3>4. Load(end)' = Count(Tail(inbox[end]), Real) + One(Head(inbox[end]), Real)
      BY <3>1 DEF Load
    <3>5. Load(end)' = Load(end)
      BY <1>3, <3>3, <3>4
    <3> QED
      BY <3>5, LoadNat
  <2>2. CASE ThrowOut(end)
    <3>1. todo' = todo
      BY <2>2 DEF ThrowOut
    <3>2. Count(inbox'[end], Real) <= Count(inbox[end], Real)
      <4>1. CASE inbox'[end] = Tail(inbox[end])
        BY <1>3, <1>4, <4>1, OneNat
      <4>2. CASE Len(inbox[end]) > 1 /\ inbox'[end] = Tail(Tail(inbox[end]))
        <5> DEFINE rest == Tail(inbox[end])
        <5>1. rest \in Seq(Seq(Nodes)) /\ rest # <<>>
          BY <1>2, <4>2, RestIsSeq
        <5>2. Tail(rest) \in Seq(Seq(Nodes))
          BY <5>1, RestIsSeq
        <5> HIDE DEF rest
        <5>3. Count(rest, Real) = Count(Tail(rest), Real) + One(Head(rest), Real)
          BY <5>1, CountTail
        <5>4. Count(Tail(rest), Real) \in Nat
          BY <5>2, CountNat
        <5>5. Count(Tail(rest), Real) <= Count(rest, Real)
          BY <5>3, <5>4, OneNat
        <5>6. Count(rest, Real) <= Count(inbox[end], Real) /\ Count(rest, Real) \in Nat
              /\ Count(inbox[end], Real) \in Nat
          BY <1>2, <1>3, <1>4, OneNat, CountNat DEF rest
        <5>7. inbox'[end] = Tail(rest)
          BY <4>2 DEF rest
        <5> QED
          BY <5>4, <5>5, <5>6, <5>7
      <4> QED
        BY <1>1, <2>2, <4>1, <4>2 DEF ThrowOut
    <3>3. One(todo'[end], Real) = One(todo[end], Real)
      BY <3>1
    <3>4. Count(inbox'[end], Real) \in Nat
      BY NextLoadNat
    <3> QED
      BY <3>2, <3>3, <3>4, LoadNat DEF Load
  <2> QED
    BY <2>1, <2>2
<1>6. \A e \in Ends : e # end => inbox'[e] = inbox[e] /\ todo'[e] = todo[e]
  BY <1>1 DEF Take, ThrowOut
<1>7. \A e \in Ends : Load(e)' <= Load(e)
  <2>1. ASSUME NEW e \in Ends, e # end PROVE Load(e)' = Load(e)
    BY <1>6, <2>1 DEF Load
  <2>2. \A e \in Ends : Load(e) \in Nat
    BY LoadNat
  <2> QED
    BY <1>5, <2>1, <2>2
<1>8. \A e \in Ends : Load(e) \in Nat /\ Load(e)' \in Nat
  BY LoadNat, NextLoadNat
<1> QED
  BY <1>7, <1>8 DEF Total, Ends

\* The last node of a message makes an end write one message at most, the others
\* none.
LEMMA ProcessWrites ==
    ASSUME IInv, NEW end \in Ends, Process(end)
    PROVE  /\ \E x : Written(end, Head(todo[end])) \in {<<>>, <<x>>, <<x, CrLf>>}
           /\ Len(todo[end]) > 1 => Written(end, Head(todo[end])) = <<>>
<1> DEFINE node == Head(todo[end])
<1>1. Carry(FitMessages(TRUE)) /\ TypeOK
  BY DEF IInv, FitCarried
<1>2. /\ node \in FitNodes(end, TRUE)
      /\ Len(todo[end]) > 1 => Silent(end, node)
  BY <1>1, ProcessedFit DEF Process, SilentNodes
<1> HIDE DEF node
<1>3. \E x : Written(end, node) \in {<<>>, <<x>>, <<x, CrLf>>}
  BY <1>1, <1>2, WrittenIs
<1>4. Silent(end, node) => Written(end, node) = <<>>
  BY <1>1, <1>2, WrittenIs
<1> QED
  BY <1>2, <1>3, <1>4 DEF node

LEMMA ProcessTotal ==
    ASSUME IInv, TypeOK', NEW end \in Ends, Process(end)
    PROVE  Total' <= Total
<1> DEFINE ms == Written(end, Head(todo[end]))
           other == Other(end)
<1>1. /\ TypeOK
      /\ todo \in [Ends -> Seq(Nodes)] /\ todo[end] \in Seq(Nodes)
      /\ todo[end] # <<>>
      /\ Send(other, ms)
      /\ todo' = [todo EXCEPT ![end] = Tail(@)]
  BY DEF IInv, TypeOK, Process
<1>2. other \in Ends /\ other # end
  BY OtherEnd
<1>3. PICK x : ms \in {<<>>, <<x>>, <<x, CrLf>>}
  BY ProcessWrites
<1>4. Len(todo[end]) > 1 => ms = <<>>
  BY ProcessWrites
<1> HIDE DEF ms
<1>5. /\ Count(inbox'[other], Real) <= Count(inbox[other], Real) + 1
      /\ ms = <<>> => inbox' = inbox
      /\ inbox'[end] = inbox[end]
  BY <1>1, <1>2, <1>3, SendCount
<1>6. todo'[end] = Tail(todo[end]) /\ todo'[other] = todo[other]
  BY <1>1, <1>2
<1>7. One(todo[end], Real) = 1
  BY <1>1 DEF One, Real, CrLf
<1>8. CASE Len(todo[end]) > 1
  <2>1. inbox' = inbox
    BY <1>4, <1>5, <1>8
  <2>2. One(todo'[end], Real) <= One(todo[end], Real)
    BY <1>7, OneNat
  <2>3. \A e \in Ends : Load(e)' <= Load(e)
    <3>1. /\ Load(end) = Count(inbox[end], Real) + One(todo[end], Real)
          /\ Load(end)' = Count(inbox[end], Real) + One(todo'[end], Real)
          /\ Load(other)' = Load(other)
      BY <1>6, <2>1 DEF Load
    <3>2. /\ Count(inbox[end], Real) \in Nat /\ Load(other) \in Nat
          /\ One(todo[end], Real) \in {0, 1} /\ One(todo'[end], Real) \in {0, 1}
      BY <1>1, <1>2, LoadNat, NextLoadNat
    <3>3. Load(end)' <= Load(end) /\ Load(other)' <= Load(other)
      BY <2>2, <3>1, <3>2
    <3>4. \A e \in Ends : e = end \/ e = other
      BY <1>2 DEF Ends
    <3> QED
      BY <3>3, <3>4
  <2> QED
    BY <1>1, <2>3, LoadNat, NextLoadNat, SMTT(20) DEF Total, Ends
<1>9. CASE ~(Len(todo[end]) > 1)
  <2>1. Tail(todo[end]) = <<>>
    BY <1>1, <1>9, LastTail
  <2>2. One(todo'[end], Real) = 0
    BY <1>6, <2>1 DEF One, Real, CrLf
  <2>3. Load(end)' = Load(end) - 1
    <3>1. Load(end)' = Count(inbox'[end], Real)
      BY <2>2, NextLoadNat DEF Load
    <3>2. Load(end) = Count(inbox[end], Real) + 1
      BY <1>7 DEF Load
    <3>3. Count(inbox[end], Real) \in Nat
      BY <1>1, LoadNat
    <3> QED
      BY <1>5, <3>1, <3>2, <3>3
  <2>4. Load(other)' <= Load(other) + 1
    <3>1. Load(other)' = Count(inbox'[other], Real) + One(todo[other], Real)
      BY <1>6 DEF Load
    <3>2. Load(other) = Count(inbox[other], Real) + One(todo[other], Real)
      BY DEF Load
    <3>3. /\ Count(inbox[other], Real) \in Nat /\ Count(inbox'[other], Real) \in Nat
          /\ One(todo[other], Real) \in {0, 1}
      BY <1>1, <1>2, LoadNat, NextLoadNat
    <3> HIDE DEF other
    <3> QED
      BY <1>5, <3>1, <3>2, <3>3
  <2>5. Total = Load(end) + Load(other) /\ Total' = Load(end)' + Load(other)'
    BY <1>1, <1>2, LoadNat, NextLoadNat, SMTT(20) DEF Total, Ends
  <2>6. /\ Load(end) \in Nat /\ Load(other) \in Nat
        /\ Load(end)' \in Nat /\ Load(other)' \in Nat
    BY <1>1, <1>2, LoadNat, NextLoadNat
  <2> QED
    BY <2>3, <2>4, <2>5, <2>6
<1> QED
  BY <1>8, <1>9

\* One message more at most.
LEMMA SendTotal ==
    ASSUME TypeOK, TypeOK', NEW to \in Ends, NEW x, NEW ms \in {<<>>, <<x>>},
           Send(to, ms), UNCHANGED todo
    PROVE  Total' <= Total + 1
<1>1. /\ Count(inbox'[to], Real) <= Count(inbox[to], Real) + 1
      /\ \A end \in Ends : end # to => inbox'[end] = inbox[end]
  BY SendCount
<1>2. /\ Count(inbox[to], Real) \in Nat /\ Count(inbox'[to], Real) \in Nat
      /\ One(todo[to], Real) \in {0, 1}
  BY LoadNat, NextLoadNat
<1>3. Load(to) = Count(inbox[to], Real) + One(todo[to], Real)
  BY DEF Load
<1>4. Load(to)' = Count(inbox'[to], Real) + One(todo[to], Real)
  BY DEF Load
<1>5. Load(to)' <= Load(to) + 1
  BY <1>1, <1>2, <1>3, <1>4
<1>6. Other(to) \in Ends /\ Other(to) # to
  BY OtherEnd
<1>7. Load(Other(to))' = Load(Other(to))
  BY <1>1, <1>6 DEF Load
<1>8. Total = Load(to) + Load(Other(to)) /\ Total' = Load(to)' + Load(Other(to))'
  BY <1>6, LoadNat, NextLoadNat DEF Total, Ends
<1>9. Load(to) \in Nat /\ Load(to)' \in Nat /\ Load(Other(to)) \in Nat
  BY <1>6, LoadNat, NextLoadNat
<1> QED
  BY <1>5, <1>7, <1>8, <1>9

LEMMA InitBounded == Init => Bounded
<1> SUFFICES ASSUME Init PROVE Bounded
  OBVIOUS
<1>1. \A end \in Ends : Load(end) = 0
  <2>1. Count(<<>>, Real) = 0
    BY NumZero DEF Count
  <2>2. One(<<>>, Real) = 0
    BY DEF One, Real, CrLf
  <2> QED
    BY <2>1, <2>2 DEF Init, Load
<1>2. Total = 0
  BY <1>1 DEF Total, Ends
<1> QED
  BY <1>2 DEF Bounded, Helos, Init, Ends

LEMMA NextBounded ==
    ASSUME IInv, IInv', Bounded, [Next]_vars
    PROVE  Bounded'
<1>1. /\ TypeOK /\ TypeOK' /\ Total \in Nat /\ Total' \in Nat
      /\ Len(asked) \in Nat /\ Helos \in 0..2
  <2>1. TypeOK /\ TypeOK' /\ "CLIENT" \in Ends
    BY DEF IInv, Ends
  <2>2. Total \in Nat /\ Total' \in Nat
    BY <2>1, LoadNat, NextLoadNat
  <2>3. Len(asked) \in Nat
    BY <2>1 DEF TypeOK
  <2>4. Helos \in 0..2
    BY DEF Helos
  <2> QED
    BY <2>1, <2>2, <2>3, <2>4
<1>2. Total <= Len(asked) + Helos
  BY DEF Bounded
<1>3. ASSUME Total' <= Total, UNCHANGED <<asked, mode, accepted>>
      PROVE  Bounded'
  <2>1. Helos' = Helos /\ Len(asked') = Len(asked)
    BY <1>3 DEF Helos
  <2> QED
    BY <1>1, <1>2, <1>3, <2>1 DEF Bounded
<1>4. ASSUME Total' <= Total + 1, Len(asked') + Helos' = Len(asked) + Helos + 1
      PROVE  Bounded'
  BY <1>1, <1>2, <1>4 DEF Bounded
<1>5. CASE InitDaemon
  <2>1. Total' = Total
    BY <1>5 DEF InitDaemon, Total, Load
  <2>2. Helos' = Helos
    BY <1>1, <1>5 DEF InitDaemon, Helos, TypeOK, Ends
  <2>3. Len(asked') = Len(asked)
    BY <1>5 DEF InitDaemon
  <2> QED
    BY <1>1, <1>2, <2>1, <2>2, <2>3 DEF Bounded
<1>6. CASE \E greets \in BOOLEAN : InitClient(greets)
  <2>1. Total' <= Total + 1
    BY <1>1, <1>6, SendTotal DEF InitClient, Ends
  <2>2. Helos' = Helos + 1 /\ Len(asked') = Len(asked)
    BY <1>1, <1>6 DEF InitClient, Helos, TypeOK, Ends
  <2> QED
    BY <1>1, <1>4, <2>1, <2>2
<1>7. CASE Accept
  <2>1. Total' <= Total + 1
    BY <1>1, <1>7, SendTotal DEF Accept, Ends
  <2>2. Helos' = Helos + 1 /\ Len(asked') = Len(asked)
    BY <1>1, <1>7 DEF Accept, Helos, TypeOK, Ends
  <2> QED
    BY <1>1, <1>4, <2>1, <2>2
<1>8. CASE \E r \in Requests : Ask(r)
  <2>1. Total' <= Total + 1
    BY <1>1, <1>8, SendTotal DEF Ask, Ends
  <2>2. Helos' = Helos
    BY <1>8 DEF Ask, Helos
  <2>3. Len(asked') = Len(asked) + 1
    BY <1>1, <1>8 DEF Ask, TypeOK
  <2> QED
    BY <1>1, <1>4, <2>1, <2>2, <2>3
<1>9. ASSUME NEW end \in Ends, Works(end) PROVE Bounded'
  <2>1. UNCHANGED <<asked, mode, accepted>>
    BY <1>9 DEF Works, Take, ThrowOut, Process, CallUndefined
  <2>2. CASE Take(end) \/ ThrowOut(end)
    BY <1>1, <1>3, <2>1, <2>2, TakeTotal
  <2>3. CASE Process(end)
    BY <1>1, <1>3, <2>1, <2>3, ProcessTotal
  <2>4. CASE CallUndefined(end)
    <3>1. Total' = Total
      BY <2>4 DEF CallUndefined, Total, Load
    <3> QED
      BY <1>1, <1>3, <2>1, <3>1
  <2> QED
    BY <1>9, <2>2, <2>3, <2>4 DEF Works
<1>10. CASE UNCHANGED vars
  <2>1. Total' = Total /\ UNCHANGED <<asked, mode, accepted>>
    BY <1>10 DEF vars, Total, Load
  <2> QED
    BY <1>1, <1>3, <2>1
<1> QED
  BY <1>5, <1>6, <1>7, <1>8, <1>9, <1>10 DEF Next

\* For any requests, no more messages are ever under way than the client made
\* requests and the two ends said helo, though config messages are sent back and
\* forth without end (unimplementedProcess, Msgs::process).
THEOREM MessagesNeverMultiply == Spec => []NoneMultiply
<1> DEFINE I == IInv /\ Bounded
<1>1. Init => I
  BY InitInv, InitBounded
<1>2. I /\ [Next]_vars => I'
  BY NextInv, NextBounded
<1>3. I => NoneMultiply
  <2> SUFFICES ASSUME I PROVE NoneMultiply
    OBVIOUS
  <2>1. TypeOK
    BY DEF IInv
  <2>2. \A end \in Ends : Cardinality(Messages(inbox[end])) = Count(inbox[end], Real)
    BY <2>1, RealMessages DEF TypeOK
  <2>3. \A end \in Ends : Count(inbox[end], Real) <= Load(end) /\ Count(inbox[end], Real) \in Nat
    BY <2>1, LoadNat DEF Load
  <2>4. Helos \in 0..2 /\ Len(asked) \in Nat /\ \A end \in Ends : Load(end) \in Nat
    BY <2>1, LoadNat DEF Helos, TypeOK
  <2> QED
    BY <2>2, <2>3, <2>4 DEF Bounded, Total, NoneMultiply, Ends
<1> QED
  BY <1>1, <1>2, <1>3, PTL DEF Spec

----------------------------------------------------------------------------
(* The order of the answers.                                               *)

Answerable == {r \in AllRequests : HasAnswer(r)}
AnswerMessages == {message \in Seq(Nodes) : IsAnswer(message)}
AnswerTag == [message \in AnswerMessages |-> message[3].name]

\* The messages the daemon will answer, and for which tag.
Dues == {message \in Seq(Nodes) : message # <<>> /\ Due(message[Len(message)])}
DueTag == [message \in Dues |-> message[Len(message)].value]

\* The k-th of the requests s that have an answer is for tag.
Nth(s, k, tag) ==
    \E n \in 1..Len(s) : s[n] \in Answerable /\ s[n].tag = tag /\ Num(s, Answerable, n) = k

\* Those of q that are in A are for the requests behind the first base of s.
Lined(s, q, base, A, tags) ==
    \A k \in 1..Len(q) : q[k] \in A => Nth(s, base + Num(q, A, k), tags[q[k]])

\* The answers taken are to the first of the requests s, those under way to the
\* client to the next, then come the message the daemon has at hand, and those
\* under way to it.
Ordered(s, taken, toClient, athand, toDaemon) ==
    LET answered == Len(taken) + Count(toClient, AnswerMessages) IN
    /\ \A k \in 1..Len(taken) : Nth(s, k, taken[k])
    /\ Lined(s, toClient, Len(taken), AnswerMessages, AnswerTag)
    /\ athand \in Dues => Nth(s, answered + 1, DueTag[athand])
    /\ Lined(s, toDaemon, answered + One(athand, Dues), Dues, DueTag)
    /\ Count(s, Answerable) = answered + One(athand, Dues) + Count(toDaemon, Dues)

InOrder ==
    ~swallowed =>
       Ordered(asked, answers, inbox["CLIENT"], todo["DAEMON"], inbox["DAEMON"])

LEMMA LinedTail ==
    ASSUME NEW S, NEW q \in Seq(S), q # <<>>, NEW base \in Nat, NEW s, NEW A, NEW tags,
           Lined(s, q, base, A, tags)
    PROVE  /\ Lined(s, Tail(q), base + One(Head(q), A), A, tags)
           /\ Head(q) \in A => Nth(s, base + 1, tags[Head(q)])
<1> DEFINE p == Tail(q)
<1>1. /\ Len(q) \in Nat /\ Len(p) = Len(q) - 1
      /\ \A k \in 1..Len(p) : p[k] = q[k + 1]
      /\ Head(q) = q[1]
  OBVIOUS
<1>2. Len(q) # 0
  BY EmptySeq
<1>3. \A k \in 0..Len(q) - 1 : Num(q, A, k + 1) = Num(p, A, k) + One(Head(q), A)
  BY NumTail
<1> HIDE DEF p
<1>4. ASSUME NEW k \in 1..Len(p), p[k] \in A
      PROVE  Nth(s, base + One(Head(q), A) + Num(p, A, k), tags[p[k]])
  <2>1. k \in Nat /\ k + 1 \in 1..Len(q) /\ k \in 0..Len(q) - 1
    BY <1>1
  <2>2. Nth(s, base + Num(q, A, k + 1), tags[q[k + 1]])
    BY <1>1, <1>4, <2>1 DEF Lined
  <2>3. Num(p, A, k) \in Nat /\ One(Head(q), A) \in {0, 1}
    BY <2>1, NumNat, OneNat
  <2>4. base + Num(q, A, k + 1) = base + One(Head(q), A) + Num(p, A, k)
    BY <1>3, <2>1, <2>3
  <2> QED
    BY <1>1, <1>4, <2>2, <2>4
<1>5. ASSUME Head(q) \in A PROVE Nth(s, base + 1, tags[Head(q)])
  <2>1. 1 \in 1..Len(q)
    BY <1>1, <1>2
  <2>2. Num(q, A, 1) = 1
    <3>1. Num(q, A, 0 + 1) = Num(q, A, 0) + One(q[0 + 1], A)
      BY NumStep
    <3> QED
      BY <1>1, <1>5, <3>1, NumZero DEF One
  <2> QED
    BY <1>1, <1>5, <2>1, <2>2 DEF Lined
<1>6. Lined(s, p, base + One(Head(q), A), A, tags)
  BY <1>4 DEF Lined
<1> QED
  BY <1>5, <1>6 DEF p

LEMMA LinedAppend ==
    ASSUME NEW S, NEW q \in Seq(S), NEW base \in Nat, NEW s, NEW A, NEW tags, NEW x,
           Lined(s, q, base, A, tags),
           x \in A => Nth(s, base + Count(q, A) + 1, tags[x])
    PROVE  Lined(s, Append(q, x), base, A, tags)
<1> DEFINE p == Append(q, x)
<1>1. /\ Len(q) \in Nat /\ Len(p) = Len(q) + 1
      /\ p[Len(q) + 1] = x
      /\ \A k \in 1..Len(q) : p[k] = q[k]
  OBVIOUS
<1>2. Num(p, A, Len(q) + 1) = Num(q, A, Len(q)) + One(x, A)
  BY NumAppend
<1>5. ASSUME NEW k \in 0..Len(q) PROVE Num(p, A, k) = Num(q, A, k)
  BY NumBefore
<1> HIDE DEF p
<1>3. ASSUME NEW k \in 1..Len(p), p[k] \in A
      PROVE  Nth(s, base + Num(p, A, k), tags[p[k]])
  <2>1. CASE k = Len(q) + 1
    <3>1. One(x, A) = 1 /\ Count(q, A) \in Nat
      BY <1>1, <1>3, <2>1, CountNat DEF One
    <3>2. base + Num(p, A, k) = base + Count(q, A) + 1
      BY <1>2, <2>1, <3>1 DEF Count
    <3> QED
      BY <1>1, <1>3, <2>1, <3>2
  <2>2. CASE k # Len(q) + 1
    <3>1. k \in 1..Len(q) /\ k \in 0..Len(q)
      BY <1>1, <2>2
    <3> QED
      BY <1>1, <1>3, <1>5, <3>1 DEF Lined
  <2> QED
    BY <2>1, <2>2
<1>4. Lined(s, p, base, A, tags)
  BY <1>3 DEF Lined
<1> QED
  BY <1>4 DEF p

\* One more request.
LEMMA NthGrows ==
    ASSUME NEW s \in Seq(AllRequests), NEW r \in AllRequests
    PROVE  /\ \A k, tag : Nth(s, k, tag) => Nth(Append(s, r), k, tag)
           /\ r \in Answerable => Nth(Append(s, r), Count(s, Answerable) + 1, r.tag)
<1> DEFINE p == Append(s, r)
<1>1. /\ Len(s) \in Nat /\ Len(p) = Len(s) + 1
      /\ p[Len(s) + 1] = r
      /\ \A n \in 1..Len(s) : p[n] = s[n]
  OBVIOUS
<1>2. Num(p, Answerable, Len(s) + 1) = Num(s, Answerable, Len(s)) + One(r, Answerable)
  BY NumAppend
<1>6. ASSUME NEW n \in 0..Len(s) PROVE Num(p, Answerable, n) = Num(s, Answerable, n)
  BY NumBefore
<1> HIDE DEF p
<1>3. ASSUME NEW k, NEW tag, Nth(s, k, tag) PROVE Nth(p, k, tag)
  <2>1. PICK n \in 1..Len(s) :
           s[n] \in Answerable /\ s[n].tag = tag /\ Num(s, Answerable, n) = k
    BY <1>3 DEF Nth
  <2>2. n \in 1..Len(p) /\ n \in 0..Len(s)
    BY <1>1
  <2> QED
    BY <1>1, <1>6, <2>1, <2>2 DEF Nth
<1>4. ASSUME r \in Answerable PROVE Nth(p, Count(s, Answerable) + 1, r.tag)
  <2>1. Len(s) + 1 \in 1..Len(p)
    BY <1>1
  <2>2. Num(p, Answerable, Len(s) + 1) = Count(s, Answerable) + 1
    BY <1>2, <1>4 DEF Count, One
  <2> QED
    BY <1>1, <1>4, <2>1, <2>2 DEF Nth
<1>5. (\A k, tag : Nth(s, k, tag) => Nth(p, k, tag))
      /\ (r \in Answerable => Nth(p, Count(s, Answerable) + 1, r.tag))
  BY <1>3, <1>4
<1> QED
  BY <1>5 DEF p

\* The queues the lemmas speak of.
Queues(s, taken, toClient, athand, toDaemon) ==
    /\ s \in Seq(AllRequests) /\ taken \in Seq(Names)
    /\ toClient \in Seq(Seq(Nodes)) /\ toDaemon \in Seq(Seq(Nodes))
    /\ athand \in Seq(Nodes)

LEMMA QueueNats ==
    ASSUME NEW s, NEW taken, NEW toClient, NEW athand, NEW toDaemon,
           Queues(s, taken, toClient, athand, toDaemon)
    PROVE  /\ Len(taken) \in Nat /\ Count(toClient, AnswerMessages) \in Nat
           /\ One(athand, Dues) \in {0, 1} /\ Count(toDaemon, Dues) \in Nat
           /\ Count(s, Answerable) \in Nat
BY CountNat, OneNat DEF Queues

\* The client asks.
LEMMA OrderedAsk ==
    ASSUME NEW s, NEW taken, NEW toClient, NEW athand, NEW toDaemon,
           Queues(s, taken, toClient, athand, toDaemon),
           Ordered(s, taken, toClient, athand, toDaemon),
           NEW r \in AllRequests, NEW message \in Seq(Nodes),
           message \in Dues <=> r \in Answerable,
           r \in Answerable => DueTag[message] = r.tag
    PROVE  Ordered(Append(s, r), taken, toClient, athand, Append(toDaemon, message))
<1> DEFINE p == Append(s, r)
           before == Len(taken) + Count(toClient, AnswerMessages)
           base == before + One(athand, Dues)
<1>1. /\ Len(taken) \in Nat /\ before \in Nat /\ base \in Nat
      /\ Count(toDaemon, Dues) \in Nat
  BY QueueNats
<1>2. /\ \A k \in 1..Len(taken) : Nth(s, k, taken[k])
      /\ Lined(s, toClient, Len(taken), AnswerMessages, AnswerTag)
      /\ athand \in Dues => Nth(s, before + 1, DueTag[athand])
      /\ Lined(s, toDaemon, base, Dues, DueTag)
      /\ Count(s, Answerable) = base + Count(toDaemon, Dues)
  BY DEF Ordered
<1> HIDE DEF before, base
<1>3. \A k, tag : Nth(s, k, tag) => Nth(p, k, tag)
  BY NthGrows DEF Queues
<1>4. r \in Answerable => Nth(p, Count(s, Answerable) + 1, r.tag)
  BY NthGrows DEF Queues
<1>5. Count(p, Answerable) = Count(s, Answerable) + One(r, Answerable)
  BY CountAppend DEF Queues
<1>6. Count(Append(toDaemon, message), Dues) = Count(toDaemon, Dues) + One(message, Dues)
  BY CountAppend DEF Queues
<1>7. One(message, Dues) = One(r, Answerable) /\ One(r, Answerable) \in {0, 1}
  BY OneNat DEF One
<1> HIDE DEF p
<1>8. /\ Lined(p, toClient, Len(taken), AnswerMessages, AnswerTag)
      /\ Lined(p, toDaemon, base, Dues, DueTag)
  BY <1>2, <1>3 DEF Lined
<1>9. message \in Dues => Nth(p, base + Count(toDaemon, Dues) + 1, DueTag[message])
  BY <1>2, <1>4
<1>10. Lined(p, Append(toDaemon, message), base, Dues, DueTag)
  BY <1>1, <1>8, <1>9, LinedAppend DEF Queues
<1>11. Count(p, Answerable) = base + Count(Append(toDaemon, message), Dues)
  BY <1>1, <1>2, <1>5, <1>6, <1>7
<1>12. Ordered(p, taken, toClient, athand, Append(toDaemon, message))
  BY <1>2, <1>3, <1>8, <1>10, <1>11 DEF Ordered, before, base
<1> QED
  BY <1>12 DEF p

\* The client takes a message, or throws it away.
LEMMA OrderedClientTakes ==
    ASSUME NEW s, NEW taken, NEW toClient, NEW athand, NEW toDaemon,
           Queues(s, taken, toClient, athand, toDaemon),
           Ordered(s, taken, toClient, athand, toDaemon),
           toClient # <<>>
    PROVE  Ordered(s, IF Head(toClient) \in AnswerMessages
                      THEN Append(taken, AnswerTag[Head(toClient)]) ELSE taken,
                   Tail(toClient), athand, toDaemon)
<1> DEFINE first == Head(toClient)
           rest == Tail(toClient)
           more == IF first \in AnswerMessages THEN Append(taken, AnswerTag[first]) ELSE taken
           before == Len(taken) + Count(toClient, AnswerMessages)
           base == before + One(athand, Dues)
<1>1. /\ Len(taken) \in Nat /\ before \in Nat /\ base \in Nat
      /\ One(first, AnswerMessages) \in {0, 1}
  BY QueueNats, OneNat
<1>2. /\ \A k \in 1..Len(taken) : Nth(s, k, taken[k])
      /\ Lined(s, toClient, Len(taken), AnswerMessages, AnswerTag)
      /\ athand \in Dues => Nth(s, before + 1, DueTag[athand])
      /\ Lined(s, toDaemon, base, Dues, DueTag)
      /\ Count(s, Answerable) = base + Count(toDaemon, Dues)
  BY DEF Ordered
<1>3. Count(toClient, AnswerMessages) = Count(rest, AnswerMessages) + One(first, AnswerMessages)
  BY CountTail DEF Queues
<1>4. rest \in Seq(Seq(Nodes)) /\ Count(rest, AnswerMessages) \in Nat
  BY RestIsSeq, CountNat DEF Queues
<1>5. /\ Lined(s, rest, Len(taken) + One(first, AnswerMessages), AnswerMessages, AnswerTag)
      /\ first \in AnswerMessages => Nth(s, Len(taken) + 1, AnswerTag[first])
  BY <1>1, <1>2, LinedTail DEF Queues
<1>6. Len(more) = Len(taken) + One(first, AnswerMessages)
  BY <1>1 DEF One, Queues
<1>7. ASSUME NEW k \in 1..Len(more) PROVE Nth(s, k, more[k])
  <2>1. CASE first \notin AnswerMessages
    BY <1>2, <2>1
  <2>2. CASE first \in AnswerMessages
    <3>1. /\ more = Append(taken, AnswerTag[first])
          /\ Len(more) = Len(taken) + 1
      BY <1>6, <2>2 DEF One
    <3>2. /\ more[Len(taken) + 1] = AnswerTag[first]
          /\ \A j \in 1..Len(taken) : more[j] = taken[j]
      BY <3>1 DEF Queues
    <3> HIDE DEF more, first
    <3>3. k \in 1..Len(taken) \/ k = Len(taken) + 1
      BY <1>1, <3>1
    <3> QED
      BY <1>2, <1>5, <2>2, <3>2, <3>3
  <2> QED
    BY <2>1, <2>2
<1> HIDE DEF first, rest, more
<1>8. Len(more) + Count(rest, AnswerMessages) = before
  BY <1>1, <1>3, <1>4, <1>6 DEF before
<1> HIDE DEF before, base
<1>9. Lined(s, rest, Len(more), AnswerMessages, AnswerTag)
  BY <1>5, <1>6
<1>10. Ordered(s, more, rest, athand, toDaemon)
  BY <1>2, <1>7, <1>8, <1>9 DEF Ordered, base
<1> QED
  BY <1>10 DEF first, rest, more

\* The daemon throws "\r\n" away.
LEMMA OrderedDaemonThrows ==
    ASSUME NEW s, NEW taken, NEW toClient, NEW athand, NEW toDaemon,
           Queues(s, taken, toClient, athand, toDaemon),
           Ordered(s, taken, toClient, athand, toDaemon),
           toDaemon # <<>>, Head(toDaemon) \notin Dues
    PROVE  Ordered(s, taken, toClient, athand, Tail(toDaemon))
<1> DEFINE rest == Tail(toDaemon)
           base == Len(taken) + Count(toClient, AnswerMessages) + One(athand, Dues)
<1>1. base \in Nat
  BY QueueNats
<1>2. Lined(s, toDaemon, base, Dues, DueTag)
  BY DEF Ordered
<1> HIDE DEF base
<1>3. One(Head(toDaemon), Dues) = 0
  BY DEF One
<1>4. Lined(s, rest, base + 0, Dues, DueTag)
  BY <1>1, <1>2, <1>3, LinedTail DEF Queues
<1>5. Count(toDaemon, Dues) = Count(rest, Dues) + 0
  BY <1>3, CountTail DEF Queues
<1>6. rest \in Seq(Seq(Nodes)) /\ Count(rest, Dues) \in Nat
  BY RestIsSeq, CountNat DEF Queues
<1> HIDE DEF rest
<1>7. Lined(s, rest, base, Dues, DueTag) /\ Count(toDaemon, Dues) = Count(rest, Dues)
  BY <1>1, <1>4, <1>5, <1>6
<1>8. Ordered(s, taken, toClient, athand, rest)
  BY <1>7 DEF Ordered, base
<1> QED
  BY <1>8 DEF rest

\* The daemon takes a message.
LEMMA OrderedDaemonTakes ==
    ASSUME NEW s, NEW taken, NEW toClient, NEW athand, NEW toDaemon,
           Queues(s, taken, toClient, athand, toDaemon),
           Ordered(s, taken, toClient, athand, toDaemon),
           toDaemon # <<>>, athand \notin Dues
    PROVE  Ordered(s, taken, toClient, Head(toDaemon), Tail(toDaemon))
<1> DEFINE first == Head(toDaemon)
           rest == Tail(toDaemon)
           before == Len(taken) + Count(toClient, AnswerMessages)
<1>1. before \in Nat /\ One(first, Dues) \in {0, 1}
  BY QueueNats, OneNat
<1>2. One(athand, Dues) = 0
  BY DEF One
<1>3. /\ \A k \in 1..Len(taken) : Nth(s, k, taken[k])
      /\ Lined(s, toClient, Len(taken), AnswerMessages, AnswerTag)
      /\ Lined(s, toDaemon, before + 0, Dues, DueTag)
      /\ Count(s, Answerable) = before + 0 + Count(toDaemon, Dues)
  BY <1>2 DEF Ordered
<1> HIDE DEF before
<1>4. Lined(s, toDaemon, before, Dues, DueTag)
  BY <1>1, <1>3
<1>5. /\ Lined(s, rest, before + One(first, Dues), Dues, DueTag)
      /\ first \in Dues => Nth(s, before + 1, DueTag[first])
  BY <1>1, <1>4, LinedTail DEF Queues
<1>6. Count(toDaemon, Dues) = Count(rest, Dues) + One(first, Dues)
  BY CountTail DEF Queues
<1>7. rest \in Seq(Seq(Nodes)) /\ Count(rest, Dues) \in Nat
  BY RestIsSeq, CountNat DEF Queues
<1> HIDE DEF first, rest
<1>8. Count(s, Answerable) = before + One(first, Dues) + Count(rest, Dues)
  BY <1>1, <1>3, <1>6, <1>7
<1>9. Ordered(s, taken, toClient, first, rest)
  BY <1>3, <1>5, <1>8 DEF Ordered, before
<1> QED
  BY <1>9 DEF first, rest

\* A message that is no answer is written to the client, or one that has none to
\* the daemon.
LEMMA OrderedNoise ==
    ASSUME NEW s, NEW taken, NEW toClient, NEW athand, NEW toDaemon,
           Queues(s, taken, toClient, athand, toDaemon),
           Ordered(s, taken, toClient, athand, toDaemon), NEW message
    PROVE  /\ message \notin AnswerMessages =>
                Ordered(s, taken, Append(toClient, message), athand, toDaemon)
           /\ message \notin Dues =>
                Ordered(s, taken, toClient, athand, Append(toDaemon, message))
<1>1. ASSUME message \notin AnswerMessages
      PROVE  Ordered(s, taken, Append(toClient, message), athand, toDaemon)
  <2>1. Lined(s, toClient, Len(taken), AnswerMessages, AnswerTag) /\ Len(taken) \in Nat
    BY QueueNats DEF Ordered
  <2>2. Lined(s, Append(toClient, message), Len(taken), AnswerMessages, AnswerTag)
    BY <1>1, <2>1, LinedAppend DEF Queues
  <2>3. Count(Append(toClient, message), AnswerMessages) = Count(toClient, AnswerMessages)
    <3>1. One(message, AnswerMessages) = 0
      BY <1>1 DEF One
    <3>2. Count(Append(toClient, message), AnswerMessages) = Count(toClient, AnswerMessages) + 0
      BY <3>1, CountAppend DEF Queues
    <3> QED
      BY <3>2, QueueNats
  <2> QED
    BY <2>2, <2>3 DEF Ordered
<1>2. ASSUME message \notin Dues
      PROVE  Ordered(s, taken, toClient, athand, Append(toDaemon, message))
  <2> DEFINE base == Len(taken) + Count(toClient, AnswerMessages) + One(athand, Dues)
  <2>1. Lined(s, toDaemon, base, Dues, DueTag) /\ base \in Nat
    BY QueueNats DEF Ordered
  <2> HIDE DEF base
  <2>2. Lined(s, Append(toDaemon, message), base, Dues, DueTag)
    BY <1>2, <2>1, LinedAppend DEF Queues
  <2>3. Count(Append(toDaemon, message), Dues) = Count(toDaemon, Dues)
    <3>1. One(message, Dues) = 0
      BY <1>2 DEF One
    <3>2. Count(Append(toDaemon, message), Dues) = Count(toDaemon, Dues) + 0
      BY <3>1, CountAppend DEF Queues
    <3> QED
      BY <3>2, QueueNats
  <2> QED
    BY <2>2, <2>3 DEF Ordered, base
<1> QED
  BY <1>1, <1>2

\* The daemon answers what it has at hand.
LEMMA OrderedAnswer ==
    ASSUME NEW s, NEW taken, NEW toClient, NEW athand, NEW toDaemon,
           Queues(s, taken, toClient, athand, toDaemon),
           Ordered(s, taken, toClient, athand, toDaemon),
           athand \in Dues, NEW answer \in AnswerMessages,
           AnswerTag[answer] = DueTag[athand]
    PROVE  Ordered(s, taken, Append(toClient, answer), <<>>, toDaemon)
<1> DEFINE more == Append(toClient, answer)
           before == Len(taken) + Count(toClient, AnswerMessages)
<1>1. before \in Nat /\ Len(taken) \in Nat /\ Count(toClient, AnswerMessages) \in Nat
  BY QueueNats
<1>2. One(athand, Dues) = 1 /\ One(<<>>, Dues) = 0 /\ One(answer, AnswerMessages) = 1
  BY DEF One, Dues
<1>3. /\ \A k \in 1..Len(taken) : Nth(s, k, taken[k])
      /\ Lined(s, toClient, Len(taken), AnswerMessages, AnswerTag)
      /\ Nth(s, before + 1, DueTag[athand])
      /\ Lined(s, toDaemon, before + 1, Dues, DueTag)
      /\ Count(s, Answerable) = before + 1 + Count(toDaemon, Dues)
  BY <1>2 DEF Ordered
<1>4. Count(more, AnswerMessages) = Count(toClient, AnswerMessages) + 1
  BY <1>2, CountAppend DEF Queues
<1>5. Lined(s, more, Len(taken), AnswerMessages, AnswerTag)
  BY <1>1, <1>3, LinedAppend DEF Queues
<1> HIDE DEF more
<1>6. Len(taken) + Count(more, AnswerMessages) + One(<<>>, Dues) = before + 1
  BY <1>1, <1>2, <1>4
<1>7. <<>> \notin Dues
  BY DEF Dues
<1> HIDE DEF before
<1>8. Ordered(s, taken, more, <<>>, toDaemon)
  BY <1>3, <1>5, <1>6, <1>7 DEF Ordered
<1> QED
  BY <1>8 DEF more

\* What the daemon has at hand is as due as before.
LEMMA OrderedRest ==
    ASSUME NEW s, NEW taken, NEW toClient, NEW athand, NEW toDaemon,
           Ordered(s, taken, toClient, athand, toDaemon), NEW rest,
           rest \in Dues <=> athand \in Dues,
           rest \in Dues => DueTag[rest] = DueTag[athand]
    PROVE  Ordered(s, taken, toClient, rest, toDaemon)
<1>1. One(rest, Dues) = One(athand, Dues)
  BY DEF One
<1> QED
  BY <1>1 DEF Ordered

\* Neither a helo nor "\r\n" nor an unimplemented setting has an answer or is one.
LEMMA Noise ==
    /\ Helo \notin AnswerMessages /\ Helo \notin Dues
    /\ CrLf \notin AnswerMessages /\ CrLf \notin Dues
    /\ \A name \in ConfigNodes :
          Unimplemented(name) \notin AnswerMessages /\ Unimplemented(name) \notin Dues
<1>1. /\ "client" \in Names /\ "server" \in Names /\ "host" \in Texts
      /\ "unimplemented" \in Texts
  BY KnownTexts, MethodsAreNames
<1>2. Len(Helo) = 3 /\ Helo[2].name = "client" /\ Helo[3].name = "server"
  <2>1. Node("client", "host").name = "client" /\ Node("server", "host").name = "server"
    BY <1>1, NodeIs
  <2> QED
    BY <2>1 DEF Helo
<1>3. ASSUME NEW name \in ConfigNodes
      PROVE  Unimplemented(name) \notin AnswerMessages /\ Unimplemented(name) \notin Dues
  <2>1. name \in Names
    BY MethodsAreNames DEF Methods
  <2>2. Node(name, "unimplemented").name = name
    BY <1>1, <2>1, NodeIs
  <2>3. Len(Unimplemented(name)) = 4 /\ Unimplemented(name)[4].name = name
    BY <2>2 DEF Unimplemented
  <2>4. name \notin {"meters", "command", "status"}
    BY KnownKinds
  <2>5. Unimplemented(name) \notin Dues
    BY <2>3, <2>4 DEF Dues, Due
  <2> QED
    BY <2>3, <2>5 DEF AnswerMessages, IsAnswer
<1>4. Helo \notin AnswerMessages /\ Helo \notin Dues
  BY <1>2 DEF AnswerMessages, IsAnswer, Dues, Due
<1>5. CrLf \notin AnswerMessages /\ CrLf \notin Dues
  BY DEF AnswerMessages, IsAnswer, Dues, CrLf
<1> QED
  BY <1>3, <1>4, <1>5

LEMMA RequestDue ==
    ASSUME NEW r \in AllRequests
    PROVE  /\ RequestCreate(r) \in Seq(Nodes)
           /\ RequestCreate(r) \in Dues <=> r \in Answerable
           /\ r \in Answerable => DueTag[RequestCreate(r)] = r.tag
<1> DEFINE message == RequestCreate(r)
           node == message[2]
<1>1. /\ message = <<Top, node>> /\ node \in Nodes
      /\ Due(node) <=> HasAnswer(r)
      /\ HasAnswer(r) => node.value = r.tag
  BY RequestIs
<1>2. Top \in Nodes
  BY KnownNodes DEF Ends
<1> HIDE DEF node
<1>3. message \in Seq(Nodes) /\ Len(message) = 2 /\ message # <<>> /\ message[Len(message)] = node
  BY <1>1, <1>2
<1> HIDE DEF message
<1>4. message \in Dues <=> Due(node)
  BY <1>3 DEF Dues
<1>5. message \in Dues => DueTag[message] = node.value
  BY <1>3 DEF DueTag
<1>6. r \in Answerable <=> HasAnswer(r)
  BY DEF Answerable
<1>7. /\ message \in Seq(Nodes) /\ (message \in Dues <=> r \in Answerable)
      /\ r \in Answerable => DueTag[message] = r.tag
  BY <1>1, <1>3, <1>4, <1>5, <1>6
<1> QED
  BY <1>7 DEF message

\* Whether a message is due depends on its last node.
LEMMA DueRest ==
    ASSUME NEW message \in Seq(Nodes), message # <<>>
    PROVE  /\ Len(message) > 1 =>
                 /\ Tail(message) \in Dues <=> message \in Dues
                 /\ message \in Dues => DueTag[Tail(message)] = DueTag[message]
           /\ ~(Len(message) > 1) =>
                 /\ message \in Dues <=> Due(Head(message))
                 /\ message \in Dues => DueTag[message] = Head(message).value
<1>1. ASSUME Len(message) > 1
      PROVE  /\ Tail(message) \in Dues <=> message \in Dues
             /\ message \in Dues => DueTag[Tail(message)] = DueTag[message]
  <2> DEFINE rest == Tail(message)
             n == Len(message)
  <2>1. rest \in Seq(Nodes) /\ rest # <<>>
    BY <1>1, RestIsSeq
  <2>2. n \in Nat /\ n > 1 /\ Len(rest) = n - 1 /\ \A k \in 1..n - 1 : rest[k] = message[k + 1]
    BY <1>1
  <2> HIDE DEF rest, n
  <2>3. n - 1 \in 1..n - 1 /\ (n - 1) + 1 = n
    BY <2>2
  <2>4. rest[Len(rest)] = message[n]
    BY <2>2, <2>3
  <2>5. /\ rest \in Dues <=> message \in Dues
        /\ message \in Dues => DueTag[rest] = DueTag[message]
    BY <2>1, <2>4 DEF Dues, DueTag, n
  <2> QED
    BY <2>5 DEF rest
<1>2. ASSUME ~(Len(message) > 1)
      PROVE  /\ message \in Dues <=> Due(Head(message))
             /\ message \in Dues => DueTag[message] = Head(message).value
  <2>1. Len(message) = 1
    BY <1>2, LastTail
  <2>2. message[Len(message)] = Head(message)
    BY <2>1
  <2> QED
    BY <2>2 DEF Dues, DueTag
<1> QED
  BY <1>1, <1>2

LEMMA QueuesNow ==
    ASSUME TypeOK
    PROVE  Queues(asked, answers, inbox["CLIENT"], todo["DAEMON"], inbox["DAEMON"])
<1>1. asked \in Seq(AllRequests)
  BY MsgsAssumption DEF TypeOK
<1> QED
  BY <1>1 DEF TypeOK, Queues, Ends

\* What an end writes for a node, as far as the order of the answers goes.
LEMMA ProcessOrdered ==
    ASSUME IInv, ~swallowed, InOrder, NEW end \in Ends, Process(end)
    PROVE  Ordered(asked, answers, inbox'["CLIENT"], todo'["DAEMON"], inbox'["DAEMON"])
<1> DEFINE message == todo[end]
           node == Head(message)
           ms == Written(end, node)
           other == Other(end)
<1>1. /\ TypeOK /\ Carry(FitMessages(TRUE))
      /\ inbox \in [Ends -> Seq(Seq(Nodes))] /\ todo \in [Ends -> Seq(Nodes)]
  BY DEF IInv, FitCarried, TypeOK
<1>2. /\ message \in Seq(Nodes) /\ message # <<>>
      /\ inbox' = [inbox EXCEPT ![other] = @ \o ms]
      /\ todo' = [todo EXCEPT ![end] = Tail(message)]
  BY <1>1 DEF Process, Send
<1>3. other \in Ends
  BY OtherEnd
<1>4. /\ Queues(asked, answers, inbox["CLIENT"], todo["DAEMON"], inbox["DAEMON"])
      /\ Ordered(asked, answers, inbox["CLIENT"], todo["DAEMON"], inbox["DAEMON"])
  BY <1>1, QueuesNow DEF InOrder
<1>5. node \in FitNodes(end, TRUE)
  BY <1>1, <1>2, ProcessedFit
<1>6. \A e \in Ends : inbox[e] \in Seq(Seq(Nodes))
  BY <1>1
<1>7. CASE Len(message) > 1
  <2>1. ms = <<>>
    BY <1>7, ProcessWrites
  <2> HIDE DEF ms
  <2>2. inbox[other] \o ms = inbox[other]
    BY <1>3, <1>6, <2>1
  <2>3. inbox' = inbox
    BY <1>1, <1>2, <2>2
  <2>4. CASE end = "DAEMON"
    <3>1. todo'["DAEMON"] = Tail(message)
      BY <1>1, <1>2, <2>4
    <3>2. /\ Tail(message) \in Dues <=> message \in Dues
          /\ message \in Dues => DueTag[Tail(message)] = DueTag[message]
      BY <1>2, <1>7, DueRest
    <3>3. Ordered(asked, answers, inbox["CLIENT"], Tail(message), inbox["DAEMON"])
      BY <1>4, <2>4, <3>2, OrderedRest
    <3> QED
      BY <2>3, <3>1, <3>3
  <2>5. CASE end = "CLIENT"
    <3>1. todo'["DAEMON"] = todo["DAEMON"]
      BY <1>1, <1>2, <2>5
    <3> QED
      BY <1>4, <2>3, <3>1
  <2> QED
    BY <2>4, <2>5 DEF Ends
<1>8. CASE ~(Len(message) > 1) /\ end = "DAEMON"
  <2>1. Tail(message) = <<>>
    BY <1>2, <1>8, LastTail
  <2>2. todo'["DAEMON"] = <<>>
    BY <1>1, <1>2, <1>8, <2>1
  <2>3. other = "CLIENT"
    BY <1>8 DEF Other
  <2>4. /\ inbox'["CLIENT"] = inbox["CLIENT"] \o ms
        /\ inbox'["DAEMON"] = inbox["DAEMON"]
    BY <1>1, <1>2, <2>3 DEF Ends
  <2>5. /\ message \in Dues <=> Due(node)
        /\ message \in Dues => DueTag[message] = node.value
    BY <1>2, <1>8, DueRest
  <2>6. <<>> \notin Dues /\ CrLf \notin AnswerMessages
    BY Noise DEF Dues
  <2>7. inbox["CLIENT"] \in Seq(Seq(Nodes))
    BY <1>6 DEF Ends
  <2>8. CASE Due(node)
    <3>1. PICK answer \in AnswersFor(node.value) : ms \in {<<answer>>, <<answer, CrLf>>}
      BY <1>1, <1>5, <1>8, <2>8, WrittenIs
    <3>2. answer \in AnswerMessages /\ AnswerTag[answer] = node.value
      BY DEF AnswersFor, AnswerMessages, AnswerTag
    <3> HIDE DEF ms, node
    <3>3. Ordered(asked, answers, Append(inbox["CLIENT"], answer), <<>>, inbox["DAEMON"])
      BY <1>4, <1>8, <2>5, <2>8, <3>2, OrderedAnswer
    <3>4. CASE ms = <<answer>>
      <4>1. inbox'["CLIENT"] = Append(inbox["CLIENT"], answer)
        BY <2>4, <2>7, <3>4, SentIs
      <4> QED
        BY <2>2, <2>4, <3>3, <4>1
    <3>5. CASE ms = <<answer, CrLf>>
      <4>1. inbox'["CLIENT"] = Append(Append(inbox["CLIENT"], answer), CrLf)
        BY <2>4, <2>7, <3>5, SentIs
      <4>2. Append(inbox["CLIENT"], answer) \in Seq(Seq(Nodes))
        BY <2>7, <3>2, AppendSeq DEF AnswerMessages
      <4>3. Queues(asked, answers, Append(inbox["CLIENT"], answer), <<>>, inbox["DAEMON"])
        BY <1>4, <4>2 DEF Queues
      <4>4. Ordered(asked, answers, Append(Append(inbox["CLIENT"], answer), CrLf), <<>>,
                    inbox["DAEMON"])
        BY <2>6, <3>3, <4>3, OrderedNoise
      <4> QED
        BY <2>2, <2>4, <4>1, <4>4
    <3> QED
      BY <3>1, <3>4, <3>5
  <2>9. CASE ~Due(node)
    <3>1. Ordered(asked, answers, inbox["CLIENT"], <<>>, inbox["DAEMON"])
      BY <1>4, <1>8, <2>5, <2>6, <2>9, OrderedRest
    <3>2. \/ ms = <<>>
          \/ node.name \in ConfigNodes /\ ms = <<Unimplemented(node.name)>>
      BY <1>1, <1>5, <2>9, WrittenIs
    <3> HIDE DEF ms, node
    <3>3. CASE ms = <<>>
      <4>1. inbox'["CLIENT"] = inbox["CLIENT"]
        BY <2>4, <2>7, <3>3
      <4> QED
        BY <2>2, <2>4, <3>1, <4>1
    <3>4. CASE node.name \in ConfigNodes /\ ms = <<Unimplemented(node.name)>>
      <4>1. inbox'["CLIENT"] = Append(inbox["CLIENT"], Unimplemented(node.name))
        BY <2>4, <2>7, <3>4, SentIs
      <4>2. Queues(asked, answers, inbox["CLIENT"], <<>>, inbox["DAEMON"])
        BY <1>4 DEF Queues
      <4>3. Ordered(asked, answers, Append(inbox["CLIENT"], Unimplemented(node.name)), <<>>,
                    inbox["DAEMON"])
        BY <3>1, <3>4, <4>2, OrderedNoise, Noise
      <4> QED
        BY <2>2, <2>4, <4>1, <4>3
    <3> QED
      BY <3>2, <3>3, <3>4
  <2> QED
    BY <2>8, <2>9
<1>9. CASE ~(Len(message) > 1) /\ end = "CLIENT"
  <2>1. other = "DAEMON"
    BY <1>9 DEF Other
  <2>2. /\ inbox'["DAEMON"] = inbox["DAEMON"] \o ms
        /\ inbox'["CLIENT"] = inbox["CLIENT"]
        /\ todo'["DAEMON"] = todo["DAEMON"]
    BY <1>1, <1>2, <1>9, <2>1 DEF Ends
  <2>3. \/ ms = <<>>
        \/ node.name \in ConfigNodes /\ ms = <<Unimplemented(node.name)>>
    BY <1>1, <1>5, <1>9, WrittenIs
  <2>4. inbox["DAEMON"] \in Seq(Seq(Nodes))
    BY <1>6 DEF Ends
  <2> HIDE DEF ms, node
  <2>5. CASE ms = <<>>
    <3>1. inbox'["DAEMON"] = inbox["DAEMON"]
      BY <2>2, <2>4, <2>5
    <3> QED
      BY <1>4, <2>2, <3>1
  <2>6. CASE node.name \in ConfigNodes /\ ms = <<Unimplemented(node.name)>>
    <3>1. inbox'["DAEMON"] = Append(inbox["DAEMON"], Unimplemented(node.name))
      BY <2>2, <2>4, <2>6, SentIs
    <3>2. Ordered(asked, answers, inbox["CLIENT"], todo["DAEMON"],
                  Append(inbox["DAEMON"], Unimplemented(node.name)))
      BY <1>4, <2>6, OrderedNoise, Noise
    <3> QED
      BY <2>2, <3>1, <3>2
  <2> QED
    BY <2>3, <2>5, <2>6
<1> QED
  BY <1>7, <1>8, <1>9 DEF Ends

LEMMA TakeOrdered ==
    ASSUME TypeOK, ~swallowed, InOrder, NEW end \in Ends, Take(end)
    PROVE  Ordered(asked, answers', inbox'["CLIENT"], todo'["DAEMON"], inbox'["DAEMON"])
<1> DEFINE message == Head(inbox[end])
<1>1. inbox \in [Ends -> Seq(Seq(Nodes))] /\ todo \in [Ends -> Seq(Nodes)]
  BY DEF TypeOK
<1>2. /\ todo[end] = <<>> /\ inbox[end] # <<>>
      /\ inbox' = [inbox EXCEPT ![end] = Tail(@)]
      /\ todo' = [todo EXCEPT ![end] = message]
      /\ answers' = IF end = "CLIENT" /\ IsAnswer(message)
                    THEN Append(answers, message[3].name) ELSE answers
  BY DEF Take
<1>3. message \in Seq(Nodes)
  BY <1>1, <1>2, RestIsSeq
<1>4. /\ Queues(asked, answers, inbox["CLIENT"], todo["DAEMON"], inbox["DAEMON"])
      /\ Ordered(asked, answers, inbox["CLIENT"], todo["DAEMON"], inbox["DAEMON"])
  BY QueuesNow DEF InOrder
<1>5. CASE end = "CLIENT"
  <2>1. answers' = IF message \in AnswerMessages
                   THEN Append(answers, AnswerTag[message]) ELSE answers
    BY <1>2, <1>3, <1>5 DEF AnswerMessages, AnswerTag
  <2>2. /\ inbox'["CLIENT"] = Tail(inbox["CLIENT"])
        /\ inbox'["DAEMON"] = inbox["DAEMON"] /\ todo'["DAEMON"] = todo["DAEMON"]
    BY <1>1, <1>2, <1>5 DEF Ends
  <2> QED
    BY <1>2, <1>4, <1>5, <2>1, <2>2, OrderedClientTakes
<1>6. CASE end = "DAEMON"
  <2>1. answers' = answers
    BY <1>2, <1>6
  <2>2. /\ inbox'["DAEMON"] = Tail(inbox["DAEMON"])
        /\ inbox'["CLIENT"] = inbox["CLIENT"] /\ todo'["DAEMON"] = Head(inbox["DAEMON"])
    BY <1>1, <1>2, <1>6 DEF Ends
  <2>3. todo["DAEMON"] \notin Dues
    BY <1>2, <1>6 DEF Dues
  <2> QED
    BY <1>2, <1>4, <1>6, <2>1, <2>2, <2>3, OrderedDaemonTakes
<1> QED
  BY <1>5, <1>6 DEF Ends

LEMMA ThrowOutOrdered ==
    ASSUME TypeOK, ~swallowed, ~swallowed', InOrder, NEW end \in Ends, ThrowOut(end)
    PROVE  Ordered(asked, answers, inbox'["CLIENT"], todo["DAEMON"], inbox'["DAEMON"])
<1>1. inbox \in [Ends -> Seq(Seq(Nodes))]
  BY DEF TypeOK
<1>2. /\ inbox[end] # <<>> /\ Head(inbox[end]) = CrLf
      /\ inbox' = [inbox EXCEPT ![end] = Tail(@)]
  BY DEF ThrowOut
<1>3. CrLf \notin AnswerMessages /\ CrLf \notin Dues
  BY Noise
<1>4. /\ Queues(asked, answers, inbox["CLIENT"], todo["DAEMON"], inbox["DAEMON"])
      /\ Ordered(asked, answers, inbox["CLIENT"], todo["DAEMON"], inbox["DAEMON"])
  BY QueuesNow DEF InOrder
<1>5. CASE end = "CLIENT"
  <2>1. inbox'["CLIENT"] = Tail(inbox["CLIENT"]) /\ inbox'["DAEMON"] = inbox["DAEMON"]
    BY <1>1, <1>2, <1>5 DEF Ends
  <2>2. Ordered(asked, answers, Tail(inbox["CLIENT"]), todo["DAEMON"], inbox["DAEMON"])
    BY <1>2, <1>3, <1>4, <1>5, OrderedClientTakes
  <2> QED
    BY <2>1, <2>2
<1>6. CASE end = "DAEMON"
  <2>1. inbox'["DAEMON"] = Tail(inbox["DAEMON"]) /\ inbox'["CLIENT"] = inbox["CLIENT"]
    BY <1>1, <1>2, <1>6 DEF Ends
  <2>2. Ordered(asked, answers, inbox["CLIENT"], todo["DAEMON"], Tail(inbox["DAEMON"]))
    BY <1>2, <1>3, <1>4, <1>6, OrderedDaemonThrows
  <2> QED
    BY <2>1, <2>2
<1> QED
  BY <1>5, <1>6 DEF Ends

\* A helo is neither an answer nor answered; a request goes to the end of the
\* daemon's queue.
LEMMA SayOrdered ==
    ASSUME TypeOK, ~swallowed, InOrder,
           \/ \E greets \in BOOLEAN : InitClient(greets)
           \/ Accept
           \/ \E r \in Requests : Ask(r)
    PROVE  Ordered(asked', answers, inbox'["CLIENT"], todo["DAEMON"], inbox'["DAEMON"])
<1>1. inbox \in [Ends -> Seq(Seq(Nodes))]
  BY DEF TypeOK
<1>2. inbox["CLIENT"] \in Seq(Seq(Nodes)) /\ inbox["DAEMON"] \in Seq(Seq(Nodes))
  BY <1>1 DEF Ends
<1>3. /\ Queues(asked, answers, inbox["CLIENT"], todo["DAEMON"], inbox["DAEMON"])
      /\ Ordered(asked, answers, inbox["CLIENT"], todo["DAEMON"], inbox["DAEMON"])
  BY QueuesNow DEF InOrder
<1>4. CASE \E greets \in BOOLEAN : InitClient(greets)
  <2>1. PICK ms \in {<<>>, <<Helo>>} : inbox' = [inbox EXCEPT !["DAEMON"] = @ \o ms]
    BY <1>4 DEF InitClient, Send
  <2>2. /\ inbox'["CLIENT"] = inbox["CLIENT"]
        /\ inbox'["DAEMON"] = inbox["DAEMON"] \o ms
        /\ asked' = asked
    BY <1>1, <1>4, <2>1 DEF Ends, InitClient
  <2>3. inbox'["DAEMON"] \in {inbox["DAEMON"], Append(inbox["DAEMON"], Helo)}
    BY <1>2, <2>1, <2>2, SentIs
  <2>4. Ordered(asked, answers, inbox["CLIENT"], todo["DAEMON"], Append(inbox["DAEMON"], Helo))
    BY <1>3, OrderedNoise, Noise
  <2> QED
    BY <1>3, <2>2, <2>3, <2>4
<1>5. CASE Accept
  <2>1. inbox' = [inbox EXCEPT !["CLIENT"] = @ \o <<Helo>>] /\ asked' = asked
    BY <1>5 DEF Accept, Send
  <2>2. /\ inbox'["DAEMON"] = inbox["DAEMON"]
        /\ inbox'["CLIENT"] = inbox["CLIENT"] \o <<Helo>>
    BY <1>1, <2>1 DEF Ends
  <2>3. inbox'["CLIENT"] = Append(inbox["CLIENT"], Helo)
    BY <1>2, <2>2, SentIs
  <2>4. Ordered(asked, answers, Append(inbox["CLIENT"], Helo), todo["DAEMON"], inbox["DAEMON"])
    BY <1>3, OrderedNoise, Noise
  <2> QED
    BY <2>1, <2>2, <2>3, <2>4
<1>6. ASSUME NEW r \in Requests, Ask(r)
      PROVE  Ordered(asked', answers, inbox'["CLIENT"], todo["DAEMON"], inbox'["DAEMON"])
  <2> DEFINE message == RequestCreate(r)
  <2>1. /\ inbox' = [inbox EXCEPT !["DAEMON"] = @ \o <<message>>]
        /\ asked' = Append(asked, r)
    BY <1>6 DEF Ask, Send
  <2>2. r \in AllRequests
    BY MsgsAssumption
  <2>3. /\ message \in Seq(Nodes)
        /\ message \in Dues <=> r \in Answerable
        /\ r \in Answerable => DueTag[message] = r.tag
    BY <2>2, RequestDue
  <2> HIDE DEF message
  <2>4. /\ inbox'["CLIENT"] = inbox["CLIENT"]
        /\ inbox'["DAEMON"] = inbox["DAEMON"] \o <<message>>
    BY <1>1, <2>1 DEF Ends
  <2>5. inbox'["DAEMON"] = Append(inbox["DAEMON"], message)
    BY <1>2, <2>4, SentIs
  <2>6. Ordered(Append(asked, r), answers, inbox["CLIENT"], todo["DAEMON"],
                Append(inbox["DAEMON"], message))
    BY <1>3, <2>2, <2>3, OrderedAsk
  <2> QED
    BY <2>1, <2>4, <2>5, <2>6
<1> QED
  BY <1>4, <1>5, <1>6

LEMMA InitOrdered == Init => InOrder
<1> SUFFICES ASSUME Init PROVE InOrder
  OBVIOUS
<1>1. /\ asked = <<>> /\ answers = <<>>
      /\ inbox["CLIENT"] = <<>> /\ inbox["DAEMON"] = <<>> /\ todo["DAEMON"] = <<>>
  BY DEF Init, Ends
<1>2. \A A : Count(<<>>, A) = 0
  BY NumZero DEF Count
<1>3. <<>> \notin Dues /\ One(<<>>, Dues) = 0
  BY DEF Dues, One
<1>4. Ordered(<<>>, <<>>, <<>>, <<>>, <<>>)
  BY <1>2, <1>3 DEF Ordered, Lined
<1> QED
  BY <1>1, <1>4 DEF InOrder

LEMMA NextOrdered ==
    ASSUME IInv, InOrder, [Next]_vars
    PROVE  InOrder'
<1> SUFFICES ASSUME ~swallowed'
             PROVE  Ordered(asked', answers', inbox'["CLIENT"], todo'["DAEMON"], inbox'["DAEMON"])
  BY DEF InOrder
<1>1. ~swallowed
  BY DEF Next, InitDaemon, InitClient, Accept, Ask, Works, Take, ThrowOut, Process,
     CallUndefined, vars
<1>2. TypeOK
  BY DEF IInv
<1>3. ASSUME UNCHANGED <<asked, answers, inbox, todo>>
      PROVE  Ordered(asked', answers', inbox'["CLIENT"], todo'["DAEMON"], inbox'["DAEMON"])
  <2>1. Ordered(asked, answers, inbox["CLIENT"], todo["DAEMON"], inbox["DAEMON"])
    BY <1>1 DEF InOrder
  <2> QED
    BY <1>3, <2>1
<1>4. CASE InitDaemon
  BY <1>3, <1>4 DEF InitDaemon
<1>5. CASE (\E greets \in BOOLEAN : InitClient(greets)) \/ Accept \/ \E r \in Requests : Ask(r)
  <2>1. UNCHANGED <<answers, todo>>
    BY <1>5 DEF InitClient, Accept, Ask
  <2>2. Ordered(asked', answers, inbox'["CLIENT"], todo["DAEMON"], inbox'["DAEMON"])
    BY <1>1, <1>2, <1>5, SayOrdered
  <2> QED
    BY <2>1, <2>2
<1>6. ASSUME NEW end \in Ends, Works(end)
      PROVE  Ordered(asked', answers', inbox'["CLIENT"], todo'["DAEMON"], inbox'["DAEMON"])
  <2>1. CASE Take(end)
    <3>1. asked' = asked
      BY <2>1 DEF Take
    <3>2. Ordered(asked, answers', inbox'["CLIENT"], todo'["DAEMON"], inbox'["DAEMON"])
      BY <1>1, <1>2, <2>1, TakeOrdered
    <3> QED
      BY <3>1, <3>2
  <2>2. CASE ThrowOut(end)
    <3>1. UNCHANGED <<asked, answers, todo>>
      BY <2>2 DEF ThrowOut
    <3>2. Ordered(asked, answers, inbox'["CLIENT"], todo["DAEMON"], inbox'["DAEMON"])
      BY <1>1, <1>2, <2>2, ThrowOutOrdered
    <3> QED
      BY <3>1, <3>2
  <2>3. CASE Process(end)
    <3>1. UNCHANGED <<asked, answers>>
      BY <2>3 DEF Process
    <3>2. Ordered(asked, answers, inbox'["CLIENT"], todo'["DAEMON"], inbox'["DAEMON"])
      BY <1>1, <2>3, ProcessOrdered
    <3> QED
      BY <3>1, <3>2
  <2>4. CASE CallUndefined(end)
    BY <1>3, <2>4 DEF CallUndefined
  <2> QED
    BY <1>6, <2>1, <2>2, <2>3, <2>4 DEF Works
<1>7. CASE UNCHANGED vars
  BY <1>3, <1>7 DEF vars
<1> QED
  BY <1>4, <1>5, <1>6, <1>7 DEF Next

\* For any requests, the answers the client takes are those to its first requests
\* that have one, in order and none twice, as long as "\r\n" swallowed no message
\* (metersProcess, statusProcess, commandProcess, process).
THEOREM AnswersKeepOrder == Spec => []AnsweredInOrder
<1> DEFINE I == IInv /\ InOrder
<1>1. Init => I
  BY InitInv, InitOrdered
<1>2. I /\ [Next]_vars => I'
  BY NextInv, NextOrdered
<1>3. I => AnsweredInOrder
  <2> SUFFICES ASSUME I, ~swallowed, NEW k \in 1..Len(answers)
               PROVE  \E n \in 1..Len(asked) :
                         /\ HasAnswer(asked[n]) /\ answers[k] = asked[n].tag
                         /\ Cardinality({i \in 1..n : HasAnswer(asked[i])}) = k
    BY DEF AnsweredInOrder
  <2>1. Nth(asked, k, answers[k])
    BY DEF InOrder, Ordered
  <2>2. PICK n \in 1..Len(asked) :
           /\ asked[n] \in Answerable /\ asked[n].tag = answers[k]
           /\ Num(asked, Answerable, n) = k
    BY <2>1 DEF Nth
  <2>3. \A i \in 1..n : asked[i] \in AllRequests
    <3>1. asked \in Seq(AllRequests)
      BY MsgsAssumption DEF IInv, TypeOK
    <3> QED
      BY <3>1
  <2>4. {i \in 1..n : HasAnswer(asked[i])} = {i \in 1..n : asked[i] \in Answerable}
    BY <2>3 DEF Answerable
  <2> QED
    BY <2>2, <2>4 DEF Answerable, Num
<1> QED
  BY <1>1, <1>2, <1>3, PTL DEF Spec

\* For any requests, a daemon with nothing to do has answered: the answers the
\* client took and those under way to it are as many as its requests that have
\* one, as long as "\r\n" swallowed no message (process, and what it calls).
THEOREM IdleHasAnswered == Spec => []IdleMeansAnswered
<1> DEFINE I == IInv /\ InOrder
<1>1. Init => I
  BY InitInv, InitOrdered
<1>2. I /\ [Next]_vars => I'
  BY NextInv, NextOrdered
<1>3. I => IdleMeansAnswered
  <2> SUFFICES ASSUME I, ~swallowed, inbox["DAEMON"] = <<>>, todo["DAEMON"] = <<>>
               PROVE  Len(answers) + Cardinality({k \in 1..Len(inbox["CLIENT"]) :
                                                     IsAnswer(inbox["CLIENT"][k])})
                        = Cardinality({k \in 1..Len(asked) : HasAnswer(asked[k])})
    BY DEF IdleMeansAnswered
  <2> DEFINE toClient == inbox["CLIENT"]
  <2>1. TypeOK
    BY DEF IInv
  <2>2. Count(asked, Answerable)
          = Len(answers) + Count(toClient, AnswerMessages) + One(todo["DAEMON"], Dues)
            + Count(inbox["DAEMON"], Dues)
    BY DEF InOrder, Ordered
  <2>3. One(todo["DAEMON"], Dues) = 0 /\ Count(inbox["DAEMON"], Dues) = 0
    BY NumZero DEF Dues, One, Count
  <2>4. {k \in 1..Len(asked) : HasAnswer(asked[k])} = {k \in 1..Len(asked) : asked[k] \in Answerable}
    <3>1. asked \in Seq(AllRequests)
      BY <2>1, MsgsAssumption DEF TypeOK
    <3> QED
      BY <3>1 DEF Answerable
  <2>5. {k \in 1..Len(toClient) : IsAnswer(toClient[k])}
          = {k \in 1..Len(toClient) : toClient[k] \in AnswerMessages}
    <3>1. toClient \in Seq(Seq(Nodes))
      BY <2>1 DEF TypeOK, Ends
    <3> HIDE DEF toClient
    <3>2. \A k \in 1..Len(toClient) : toClient[k] \in Seq(Nodes)
      BY <3>1
    <3> QED
      BY <3>2 DEF AnswerMessages
  <2>6. Count(asked, Answerable) \in Nat /\ Count(toClient, AnswerMessages) \in Nat
        /\ Len(answers) \in Nat
    BY <2>1, CountNat DEF TypeOK, Ends
  <2>7. Count(asked, Answerable) = Len(answers) + Count(toClient, AnswerMessages)
    BY <2>2, <2>3, <2>6
  <2> QED
    BY <2>4, <2>5, <2>7 DEF Count, Num
<1> QED
  BY <1>1, <1>2, <1>3, PTL DEF Spec
=============================================================================
