--------------------------- MODULE Session_proofs ---------------------------
(***************************************************************************)
(* Proofs about Session: its type invariant, and that no part of a request *)
(* is answered twice or out of order, for any number of clients and lines, *)
(* buffers of any size, and reads that cut the streams anywhere (invariant *)
(* IInv); then, for a user who waits for each answer, that nothing but the *)
(* text of a line brings a program down and that the client parses what it *)
(* has just received (invariant TurnsInv, which says where in the exchange *)
(* of a line and its answer the streams and the client's buffer are).      *)
(***************************************************************************)
EXTENDS Session, WellFoundedInduction, TLAPS

\* How many of the cells each client has written pgd has read.
Consumed == [c \in Clients |-> Len(sent[c]) - Len(up[c])]

\* What is under way to pgd is the end of what the client has written.
UpIsRest ==
    \A c \in Clients :
        /\ Len(up[c]) <= Len(sent[c])
        /\ \A k \in 1..Len(up[c]) : up[c][k] = sent[c][Consumed[c] + k]

\* client_handler has a connection from its accept() on, and answers nothing
\* before it serves.
Connected ==
    /\ daemon # "accept" => conn \in Clients
    /\ daemon \in {"accept", "handshake", "greet"} => answered = <<>>

\* Each cell answered was read, and of two the first was written first.
AnsweredWasRead ==
    /\ \A i \in 1..Len(answered) : \E k \in 1..Consumed[conn] : sent[conn][k] = answered[i]
    /\ \A i, j \in 1..Len(answered) : i < j =>
          \E k, l \in 1..Consumed[conn] :
             /\ k < l
             /\ sent[conn][k] = answered[i]
             /\ sent[conn][l] = answered[j]

IInv == TypeOK /\ UpIsRest /\ Connected /\ AnsweredWasRead

----------------------------------------------------------------------------
(* The buffers.                                                            *)

LEMMA Smallest ==
    ASSUME NEW S \in SUBSET Nat, S # {}
    PROVE  \E k \in S : \A j \in S : k <= j
<1> DEFINE R == {pair \in Nat \X Nat : pair[1] < pair[2]}
<1>1. IsWellFoundedOn(R, Nat)
  BY NatLessThanWellFounded DEF OpToRel
<1>2. PICK k \in S : \A j \in S : ~ (<<j, k>> \in R)
  <2> HIDE DEF R
  <2> QED
    BY <1>1, WFMin
<1>3. ASSUME NEW j \in S
      PROVE  k <= j
  <2>1. j \in Nat /\ k \in Nat /\ <<j, k>> \notin R
    BY <1>2
  <2>2. ~ (<<j, k>>[1] < <<j, k>>[2])
    BY <2>1
  <2> QED
    BY <2>1, <2>2
<1> QED
  BY <1>3

\* The text of a buffer is its cells up to the first zero.
LEMMA TextOfBuffer ==
    ASSUME NEW buf \in Seq(Cell)
    PROVE  /\ Text(buf) \in Seq(Cell)
           /\ Len(Text(buf)) <= Len(buf)
           /\ \A k \in 1..Len(Text(buf)) : Text(buf)[k] = buf[k] /\ buf[k] # Nul
<1> DEFINE ends == {k \in 1..Len(buf) : buf[k] = Nul}
           first == CHOOSE k \in ends : \A j \in ends : k <= j
<1>1. CASE ends = {}
  BY <1>1 DEF Text
<1>2. CASE ends # {}
  <2>1. first \in ends /\ \A j \in ends : first <= j
    <3>1. \E k \in ends : \A j \in ends : k <= j
      <4>1. ends \in SUBSET Nat
        OBVIOUS
      <4> HIDE DEF ends
      <4> QED
        BY <1>2, <4>1, Smallest
    <3> QED
      BY <3>1
  <2>2. Text(buf) = SubSeq(buf, 1, first - 1)
    BY <1>2 DEF Text
  <2>3. first \in 1..Len(buf)
    BY <2>1
  <2> HIDE DEF first
  <2>4. /\ SubSeq(buf, 1, first - 1) \in Seq(Cell)
        /\ Len(SubSeq(buf, 1, first - 1)) = first - 1
        /\ \A k \in 1..(first - 1) : SubSeq(buf, 1, first - 1)[k] = buf[k]
    BY <2>3
  <2>5. \A k \in 1..(first - 1) : buf[k] # Nul
    BY <2>1, <2>3
  <2> QED
    BY <2>2, <2>3, <2>4, <2>5
<1> QED
  BY <1>1, <1>2

LEMMA NulIsCell == Nul \in Cell
BY DEF Cell

LEMMA ZerosType ==
    ASSUME NEW n \in Nat
    PROVE  /\ Zeros(n) \in Seq(Cell)
           /\ Len(Zeros(n)) = n
           /\ \A k \in 1..n : Zeros(n)[k] = Nul
BY NulIsCell DEF Zeros

LEMMA ReadIntoType ==
    ASSUME NEW buf \in Seq(Cell), NEW chunk \in Seq(Cell)
    PROVE  ReadInto(buf, chunk) \in Seq(Cell)
<1>1. SubSeq(buf, Len(chunk) + 1, Len(buf)) \in Seq(Cell)
  BY DEF Cell
<1> QED
  BY <1>1 DEF ReadInto

\* The string a request is copied to holds the chunk and zeros behind it, so
\* its text is the chunk's or a beginning of it.
LEMMA RequestText ==
    ASSUME NEW chunk \in Seq(Cell), Len(chunk) <= DBuf
    PROVE  /\ Request(chunk) \in Seq(Cell)
           /\ Text(Request(chunk)) \in Seq(Cell)
           /\ Len(Text(Request(chunk))) <= Len(chunk)
           /\ \A k \in 1..Len(Text(Request(chunk))) : Text(Request(chunk))[k] = chunk[k]
<1> DEFINE rest == SubSeq(Zeros(DBuf), Len(chunk) + 1, DBuf)
           str == chunk \o rest
<1>1. DBuf \in Nat
  BY SessionAssumption
<1>2. Zeros(DBuf) \in Seq(Cell) /\ Len(Zeros(DBuf)) = DBuf /\ \A k \in 1..DBuf : Zeros(DBuf)[k] = Nul
  BY <1>1, ZerosType
<1>3. /\ rest \in Seq(Cell)
      /\ Len(rest) = DBuf - Len(chunk)
      /\ \A k \in 1..Len(rest) : rest[k] = Nul
  BY <1>1, <1>2
<1>4. Request(chunk) = str
  BY <1>2 DEF Request, ReadInto
<1> HIDE DEF rest
<1>5. /\ str \in Seq(Cell)
      /\ Len(str) = Len(chunk) + Len(rest)
      /\ \A k \in 1..Len(chunk) : str[k] = chunk[k]
      /\ \A k \in 1..Len(str) : k > Len(chunk) => str[k] = rest[k - Len(chunk)]
  BY <1>3
<1> HIDE DEF str
<1>6. /\ Text(str) \in Seq(Cell)
      /\ Len(Text(str)) <= Len(str)
      /\ \A k \in 1..Len(Text(str)) : Text(str)[k] = str[k] /\ str[k] # Nul
  BY <1>5, TextOfBuffer
<1>7. Len(Text(str)) <= Len(chunk)
  <2> SUFFICES ASSUME Len(Text(str)) > Len(chunk) PROVE FALSE
    BY <1>6
  <2>1. Len(chunk) + 1 \in 1..Len(Text(str)) /\ Len(chunk) + 1 \in 1..Len(str)
    BY <1>6
  <2>2. str[Len(chunk) + 1] = rest[1] /\ 1 \in 1..Len(rest)
    BY <1>3, <1>5, <2>1
  <2> QED
    BY <1>3, <1>6, <2>1, <2>2
<1> QED
  BY <1>4, <1>5, <1>6, <1>7

LEMMA MessageType ==
    ASSUME NEW kind \in Kinds, NEW n \in 0..Lines
    PROVE  Message(kind, n) \in Seq(Cell)
<1>1. Size(kind) \in {1, 2}
  BY DEF Size
<1>2. \A k \in 1..Size(kind) : <<kind, n, k>> \in Cell
  BY <1>1 DEF Cell
<1>3. Message(kind, n) \in [1..Size(kind) -> Cell]
  BY <1>1, <1>2 DEF Message
<1> QED
  BY <1>1, <1>3

\* A read takes part of the stream, and no more than fits.
LEMMA ChunkOf ==
    ASSUME NEW stream \in Seq(Cell), NEW size \in Nat, NEW n \in Chunks(stream, size)
    PROVE  /\ n \in 1..Len(stream) /\ n <= size
           /\ SubSeq(stream, 1, n) \in Seq(Cell)
           /\ Len(SubSeq(stream, 1, n)) = n
           /\ \A k \in 1..n : SubSeq(stream, 1, n)[k] = stream[k]
           /\ SubSeq(stream, n + 1, Len(stream)) \in Seq(Cell)
           /\ Len(SubSeq(stream, n + 1, Len(stream))) = Len(stream) - n
           /\ \A k \in 1..(Len(stream) - n) :
                 SubSeq(stream, n + 1, Len(stream))[k] = stream[n + k]
<1>1. n \in 1..Len(stream) /\ n <= size
  BY DEF Chunks
<1> QED
  BY <1>1

----------------------------------------------------------------------------
(* The initial state.                                                      *)

LEMMA InitInv == Init => IInv
<1> SUFFICES ASSUME Init PROVE IInv
  OBVIOUS
<1>1. <<>> \in Seq(Cell) /\ Zeros(CBuf) \in Seq(Cell)
  BY SessionAssumption, ZerosType
<1>2. 0 \in 0..Lines
  BY SessionAssumption
<1>3. TypeOK
  BY <1>1, <1>2 DEF Init, TypeOK
<1>4. UpIsRest /\ Connected /\ AnsweredWasRead
  BY DEF Init, UpIsRest, Connected, AnsweredWasRead
<1> QED
  BY <1>3, <1>4 DEF IInv

----------------------------------------------------------------------------
(* The streams.                                                            *)

\* Who has been answered is connected.
LEMMA AnsweredConnected ==
    ASSUME IInv, answered # <<>>
    PROVE  conn \in Clients
BY DEF IInv, Connected

LEMMA Difference ==
    ASSUME NEW m \in Nat, NEW n \in Nat, NEW more \in Nat, n <= m
    PROVE  /\ m - n \in 0..m
           /\ (m + more) - (n + more) = m - n
OBVIOUS

LEMMA Widen ==
    ASSUME NEW m \in Nat, NEW n \in 0..m, NEW k \in 1..n
    PROVE  k \in 1..m
OBVIOUS

LEMMA Remainder ==
    ASSUME NEW m \in Nat, NEW n \in Nat, NEW less \in Nat, n <= m, less <= n
    PROVE  m - (n - less) = (m - n) + less
OBVIOUS

\* A client that writes adds to the end of what it has written and of what is
\* under way.
LEMMA ClientWriteInv ==
    ASSUME IInv, NEW c \in Clients, NEW str \in Seq(Cell), ClientWrite(c, str),
           conn' = conn, answered' = answered
    PROVE  /\ up' \in [Clients -> Seq(Cell)]
           /\ sent' \in [Clients -> Seq(Cell)]
           /\ UpIsRest' /\ AnsweredWasRead'
<1>1. /\ up \in [Clients -> Seq(Cell)] /\ sent \in [Clients -> Seq(Cell)]
      /\ answered \in Seq(Cell)
  BY DEF IInv, TypeOK
<1>2. /\ up' = [up EXCEPT ![c] = up[c] \o str]
      /\ sent' = [sent EXCEPT ![c] = sent[c] \o str]
  BY DEF ClientWrite
<1>3. up[c] \o str \in Seq(Cell) /\ sent[c] \o str \in Seq(Cell)
  BY <1>1
<1>4. up' \in [Clients -> Seq(Cell)] /\ sent' \in [Clients -> Seq(Cell)]
  BY <1>1, <1>2, <1>3
<1>5. /\ Len(up'[c]) = Len(up[c]) + Len(str)
      /\ Len(sent'[c]) = Len(sent[c]) + Len(str)
      /\ \A k \in 1..Len(up'[c]) :
            up'[c][k] = IF k <= Len(up[c]) THEN up[c][k] ELSE str[k - Len(up[c])]
      /\ \A k \in 1..Len(sent'[c]) :
            sent'[c][k] = IF k <= Len(sent[c]) THEN sent[c][k] ELSE str[k - Len(sent[c])]
  BY <1>1, <1>2
<1>6. \A d \in Clients : d # c => up'[d] = up[d] /\ sent'[d] = sent[d]
  BY <1>1, <1>2
<1>7. ASSUME NEW d \in Clients
      PROVE  Consumed'[d] = Consumed[d] /\ Consumed[d] \in 0..Len(sent[d])
  <2>1. /\ Len(up[d]) \in Nat /\ Len(sent[d]) \in Nat
        /\ Len(up[d]) <= Len(sent[d])
    BY <1>1 DEF IInv, UpIsRest
  <2>2. CASE d = c
    <3>1. Len(str) \in Nat
      OBVIOUS
    <3>2. Len(sent'[d]) = Len(sent[d]) + Len(str) /\ Len(up'[d]) = Len(up[d]) + Len(str)
      BY <1>5, <2>2
    <3>3. Consumed'[d] = (Len(sent[d]) + Len(str)) - (Len(up[d]) + Len(str))
      BY <3>2 DEF Consumed
    <3>4. Consumed[d] = Len(sent[d]) - Len(up[d])
      BY DEF Consumed
    <3> QED
      BY <2>1, <3>1, <3>3, <3>4, Difference
  <2>3. CASE d # c
    <3>1. Consumed[d] = Len(sent[d]) - Len(up[d])
      BY DEF Consumed
    <3>2. Consumed'[d] = Len(sent[d]) - Len(up[d])
      BY <1>6, <2>3 DEF Consumed
    <3> QED
      BY <2>1, <3>1, <3>2, Difference
  <2> QED
    BY <2>2, <2>3
<1>8. UpIsRest'
  <2>1. ASSUME NEW d \in Clients, NEW k \in 1..Len(up'[d])
        PROVE  up'[d][k] = sent'[d][Consumed'[d] + k]
    <3>1. CASE d # c
      <4>1. up'[d] = up[d] /\ sent'[d] = sent[d] /\ Consumed'[d] = Consumed[d]
        BY <1>6, <1>7, <3>1
      <4>2. up[d][k] = sent[d][Consumed[d] + k]
        <5>1. k \in 1..Len(up[d])
          BY <2>1, <4>1
        <5> QED
          BY <5>1, Zenon DEF IInv, UpIsRest
      <4> QED
        BY <4>1, <4>2, Zenon
    <3>2. CASE d = c /\ k <= Len(up[c])
      <4>1. k \in 1..Len(up[c]) /\ Consumed[c] + k \in 1..Len(sent[c])
        BY <1>1, <1>7, <3>2, <2>1 DEF Consumed
      <4>2. Consumed[c] + k \in 1..Len(sent'[c])
        BY <1>1, <1>5, <4>1
      <4>3. up[c][k] = sent[c][Consumed[c] + k]
        BY <4>1 DEF IInv, UpIsRest
      <4> QED
        <5>1. sent'[c][Consumed[c] + k] = sent[c][Consumed[c] + k]
          BY <1>1, <1>5, <4>1, <4>2
        <5>2. up'[c][k] = up[c][k]
          BY <1>1, <1>5, <2>1, <3>2
        <5>3. Consumed'[d] = Consumed[c]
          BY <1>7, <3>2
        <5> QED
          BY <3>2, <4>3, <5>1, <5>2, <5>3
    <3>3. CASE d = c /\ k > Len(up[c])
      <4>1. Consumed[c] + k = Len(sent[c]) + (k - Len(up[c]))
        BY <1>1, <2>1, <3>3 DEF Consumed
      <4>2. Consumed[c] + k \in 1..Len(sent'[c]) /\ Consumed[c] + k > Len(sent[c])
        BY <1>1, <1>5, <2>1, <3>3, <4>1
      <4>3. sent'[c][Consumed[c] + k] = str[k - Len(up[c])]
        BY <1>1, <1>5, <2>1, <3>3, <4>1, <4>2
      <4>4. up'[c][k] = str[k - Len(up[c])]
        BY <1>1, <1>5, <2>1, <3>3
      <4>5. Consumed'[d] = Consumed[c]
        BY <1>7, <3>3
      <4> QED
        BY <2>1, <3>3, <4>3, <4>4, <4>5
    <3> QED
      BY <1>1, <2>1, <3>1, <3>2, <3>3
  <2>2. ASSUME NEW d \in Clients
        PROVE  Len(up'[d]) <= Len(sent'[d])
    <3>1. Len(up[d]) \in Nat /\ Len(sent[d]) \in Nat /\ Len(up[d]) <= Len(sent[d])
      BY <1>1 DEF IInv, UpIsRest
    <3>2. CASE d = c
      <4>1. Len(str) \in Nat
        OBVIOUS
      <4>2. Len(sent'[d]) = Len(sent[d]) + Len(str) /\ Len(up'[d]) = Len(up[d]) + Len(str)
        BY <1>5, <3>2
      <4> QED
        BY <3>1, <4>1, <4>2
    <3>3. CASE d # c
      BY <1>6, <3>1, <3>3
    <3> QED
      BY <3>2, <3>3
  <2> QED
    BY <2>1, <2>2 DEF UpIsRest, Consumed
<1>9. AnsweredWasRead'
  <2>1. CASE answered = <<>>
    BY <2>1 DEF AnsweredWasRead
  <2>2. CASE answered # <<>>
    <3>1. conn \in Clients
      BY <2>2, AnsweredConnected
    <3>2. \A k \in 1..Consumed[conn] : sent'[conn][k] = sent[conn][k]
      <4>1. \A k \in 1..Consumed[conn] : k \in 1..Len(sent[conn])
        BY <1>1, <1>7, <3>1
      <4>2. CASE conn = c
        <5>1. \A k \in 1..Len(sent[c]) : k \in 1..Len(sent'[c])
          BY <1>1, <1>5
        <5> QED
          BY <1>5, <4>1, <4>2, <5>1
      <4>3. CASE conn # c
        BY <1>6, <3>1, <4>3
      <4> QED
        BY <4>2, <4>3
    <3>3. Consumed'[conn] = Consumed[conn]
      BY <1>7, <3>1 DEF Consumed
    <3> QED
      BY <3>2, <3>3 DEF IInv, AnsweredWasRead
  <2> QED
    BY <2>1, <2>2
<1> QED
  BY <1>4, <1>8, <1>9

\* client_handler reads the beginning of what is under way.
LEMMA ServerReadInv ==
    ASSUME IInv, conn \in Clients, NEW n \in Chunks(up[conn], DBuf),
           up' = [up EXCEPT ![conn] = SubSeq(@, n + 1, Len(@))], sent' = sent
    PROVE  /\ n \in Nat
           /\ up' \in [Clients -> Seq(Cell)]
           /\ UpIsRest'
           /\ Consumed[conn] \in Nat
           /\ Consumed'[conn] = Consumed[conn] + n
           /\ \A k \in 1..n : SubSeq(up[conn], 1, n)[k] = sent[conn][Consumed[conn] + k]
<1> DEFINE rest == SubSeq(up[conn], n + 1, Len(up[conn]))
<1>1. up \in [Clients -> Seq(Cell)] /\ sent \in [Clients -> Seq(Cell)] /\ DBuf \in Nat
  BY SessionAssumption DEF IInv, TypeOK
<1>2. /\ n \in 1..Len(up[conn])
      /\ \A k \in 1..n : SubSeq(up[conn], 1, n)[k] = up[conn][k]
      /\ rest \in Seq(Cell)
      /\ Len(rest) = Len(up[conn]) - n
      /\ \A k \in 1..(Len(up[conn]) - n) : rest[k] = up[conn][n + k]
  BY <1>1, ChunkOf
<1>3. up' = [up EXCEPT ![conn] = rest]
  OBVIOUS
<1> HIDE DEF rest
<1>4. up' \in [Clients -> Seq(Cell)]
  BY <1>1, <1>2, <1>3
<1>5. up'[conn] = rest /\ \A d \in Clients : d # conn => up'[d] = up[d]
  BY <1>1, <1>3
<1>6. /\ Len(up[conn]) \in Nat /\ Len(sent[conn]) \in Nat
      /\ Len(up[conn]) <= Len(sent[conn])
  BY <1>1 DEF IInv, UpIsRest
<1>7. Consumed[conn] \in Nat /\ Consumed'[conn] = Consumed[conn] + n
  <2>1. Consumed[conn] = Len(sent[conn]) - Len(up[conn])
    BY DEF Consumed
  <2>2. Consumed'[conn] = Len(sent[conn]) - (Len(up[conn]) - n)
    BY <1>2, <1>5 DEF Consumed
  <2> HIDE DEF Consumed
  <2> QED
    BY <1>2, <1>6, <2>1, <2>2, Difference, Remainder
<1>8. UpIsRest'
  <2>1. ASSUME NEW d \in Clients, NEW k \in 1..Len(up'[d])
        PROVE  up'[d][k] = sent'[d][Consumed'[d] + k]
    <3>1. CASE d = conn
      <4>1. k \in 1..(Len(up[conn]) - n)
        BY <1>2, <1>5, <3>1
      <4>2. n + k \in 1..Len(up[conn])
        BY <1>2, <1>6, <4>1
      <4>3. up'[conn][k] = sent[conn][Consumed[conn] + (n + k)]
        BY <1>2, <1>5, <4>1, <4>2 DEF IInv, UpIsRest
      <4>4. Consumed[conn] + (n + k) = Consumed'[conn] + k
        BY <1>2, <1>7
      <4> QED
        BY <3>1, <4>3, <4>4
    <3>2. CASE d # conn
      <4>1. Consumed'[d] = Consumed[d]
        BY <1>5, <3>2 DEF Consumed
      <4> QED
        BY <1>5, <3>2, <4>1 DEF IInv, UpIsRest
    <3> QED
      BY <3>1, <3>2
  <2>2. ASSUME NEW d \in Clients
        PROVE  Len(up'[d]) <= Len(sent'[d])
    <3>1. CASE d = conn
      BY <1>2, <1>5, <1>6, <3>1
    <3>2. CASE d # conn
      BY <1>5, <3>2 DEF IInv, UpIsRest
    <3> QED
      BY <3>1, <3>2
  <2> QED
    BY <2>1, <2>2 DEF UpIsRest
<1>9. \A k \in 1..n : SubSeq(up[conn], 1, n)[k] = sent[conn][Consumed[conn] + k]
  <2>1. \A k \in 1..Len(up[conn]) : up[conn][k] = sent[conn][Consumed[conn] + k]
    BY <1>1 DEF IInv, UpIsRest
  <2>2. ASSUME NEW k \in 1..n
        PROVE  SubSeq(up[conn], 1, n)[k] = up[conn][k] /\ k \in 1..Len(up[conn])
    BY <1>2, <1>6
  <2> QED
    BY <2>1, <2>2
<1> QED
  BY <1>2, <1>4, <1>7, <1>8, <1>9

\* What is answered after a read is the read's beginning.
LEMMA AnswerInv ==
    ASSUME IInv, conn \in Clients, conn' = conn, sent' = sent,
           NEW n \in Nat, Consumed[conn] \in Nat, Consumed'[conn] = Consumed[conn] + n,
           NEW text \in Seq(Cell), Len(text) <= n,
           \A k \in 1..Len(text) : text[k] = sent[conn][Consumed[conn] + k],
           answered' = answered \o text
    PROVE  answered' \in Seq(Cell) /\ AnsweredWasRead'
<1> DEFINE done == Consumed[conn]
           old == Len(answered)
<1>1. answered \in Seq(Cell)
  BY DEF IInv, TypeOK
<1>2. /\ answered' \in Seq(Cell)
      /\ Len(answered') = old + Len(text)
      /\ \A i \in 1..Len(answered') :
            answered'[i] = IF i <= old THEN answered[i] ELSE text[i - old]
  BY <1>1
<1>3. ASSUME NEW i \in 1..Len(answered'), i > old
      PROVE  /\ done + (i - old) \in 1..Consumed'[conn]
             /\ done + (i - old) > done
             /\ sent[conn][done + (i - old)] = answered'[i]
  <2>1. i - old \in 1..Len(text)
    BY <1>1, <1>2, <1>3
  <2>2. done + (i - old) \in 1..Consumed'[conn] /\ done + (i - old) > done
    BY <1>1, <2>1
  <2>3. answered'[i] = text[i - old]
    BY <1>1, <1>2, <1>3
  <2>4. text[i - old] = sent[conn][done + (i - old)]
    BY <2>1
  <2> QED
    BY <2>2, <2>3, <2>4
<1>4. ASSUME NEW i \in 1..Len(answered'), i <= old
      PROVE  i \in 1..old /\ answered'[i] = answered[i]
  BY <1>1, <1>2, <1>4
<1>5. \A k \in 1..done : k \in 1..Consumed'[conn]
  OBVIOUS
<1>6. \A i \in 1..Len(answered') :
         \E k \in 1..Consumed'[conn] : sent[conn][k] = answered'[i]
  <2> SUFFICES ASSUME NEW i \in 1..Len(answered')
               PROVE  \E k \in 1..Consumed'[conn] : sent[conn][k] = answered'[i]
    OBVIOUS
  <2>1. CASE i > old
    BY <1>3, <2>1
  <2>2. CASE i <= old
    BY <1>4, <1>5, <2>2 DEF IInv, AnsweredWasRead
  <2> QED
    BY <1>1, <1>2, <2>1, <2>2
<1>7. \A i, j \in 1..Len(answered') : i < j =>
         \E k, l \in 1..Consumed'[conn] :
            k < l /\ sent[conn][k] = answered'[i] /\ sent[conn][l] = answered'[j]
  <2> SUFFICES ASSUME NEW i \in 1..Len(answered'), NEW j \in 1..Len(answered'), i < j
               PROVE  \E k, l \in 1..Consumed'[conn] :
                         k < l /\ sent[conn][k] = answered'[i] /\ sent[conn][l] = answered'[j]
    OBVIOUS
  <2>1. CASE j <= old
    <3>1. /\ i \in 1..old /\ answered'[i] = answered[i]
          /\ j \in 1..old /\ answered'[j] = answered[j]
      BY <1>1, <1>2, <1>4, <2>1
    <3> QED
      BY <1>5, <3>1 DEF IInv, AnsweredWasRead
  <2>2. CASE i <= old /\ j > old
    <3>1. PICK k \in 1..done : sent[conn][k] = answered[i]
      BY <1>4, <2>2 DEF IInv, AnsweredWasRead
    <3>2. /\ done + (j - old) \in 1..Consumed'[conn]
          /\ done + (j - old) > done
          /\ sent[conn][done + (j - old)] = answered'[j]
      BY <1>3, <2>2
    <3>3. k \in 1..Consumed'[conn] /\ k < done + (j - old)
      BY <1>5, <3>2
    <3> QED
      BY <1>4, <2>2, <3>1, <3>2, <3>3
  <2>3. CASE i > old
    <3>1. j > old
      BY <1>1, <1>2, <2>3
    <3>2. done + (i - old) < done + (j - old)
      BY <1>1, <1>2
    <3> QED
      BY <1>3, <2>3, <3>1, <3>2
  <2>4. j <= old \/ (i <= old /\ j > old) \/ i > old
    <3>1. i \in Nat /\ j \in Nat /\ old \in Nat
      BY <1>1, <1>2
    <3> QED
      BY <3>1
  <2> QED
    BY <2>1, <2>2, <2>3, <2>4
<1>8. AnsweredWasRead'
  <2>1. \A i \in 1..Len(answered') :
           \E k \in 1..Consumed'[conn'] : sent'[conn'][k] = answered'[i]
    BY <1>6
  <2>2. ASSUME NEW i \in 1..Len(answered'), NEW j \in 1..Len(answered'), i < j
        PROVE  \E k, l \in 1..Consumed'[conn'] :
                  /\ k < l
                  /\ sent'[conn'][k] = answered'[i]
                  /\ sent'[conn'][l] = answered'[j]
    <3>1. PICK k \in 1..Consumed'[conn], l \in 1..Consumed'[conn] :
             k < l /\ sent[conn][k] = answered'[i] /\ sent[conn][l] = answered'[j]
      BY <1>7, <2>2
    <3>2. /\ k \in 1..Consumed'[conn'] /\ l \in 1..Consumed'[conn']
          /\ sent'[conn'][k] = answered'[i] /\ sent'[conn'][l] = answered'[j]
      BY <3>1
    <3> QED
      BY <3>1, <3>2
  <2> QED
    BY <2>1, <2>2 DEF AnsweredWasRead
<1> QED
  BY <1>2, <1>8

\* Steps that move no cell to pgd and answer nothing.
LEMMA StreamsKept ==
    ASSUME IInv, UNCHANGED <<up, sent, answered>>, conn' = conn \/ answered = <<>>
    PROVE  UpIsRest' /\ AnsweredWasRead'
<1>1. Consumed' = Consumed
  BY DEF Consumed
<1>2. UpIsRest'
  BY <1>1 DEF IInv, UpIsRest
<1>3. CASE answered = <<>>
  BY <1>2, <1>3 DEF AnsweredWasRead
<1>4. CASE conn' = conn
  BY <1>1, <1>2, <1>4 DEF IInv, AnsweredWasRead
<1> QED
  BY <1>3, <1>4

----------------------------------------------------------------------------
(* The steps of pguru.                                                     *)

LEMMA ClientInv ==
    ASSUME IInv, NEW c \in Clients,
           Connect(c) \/ TypeLine(c) \/ Quit(c) \/ SendHelo(c) \/ ClientEof(c)
    PROVE  IInv'
<1> USE DEF daemonVars
<1>1. TypeOK
  BY DEF IInv
<1>2. CASE Connect(c)
  <2>1. TypeOK'
    BY <1>1, <1>2 DEF TypeOK, Connect
  <2>2. UpIsRest' /\ AnsweredWasRead' /\ Connected'
    BY <1>2, StreamsKept DEF Connect, IInv, Connected
  <2> QED
    BY <2>1, <2>2 DEF IInv
<1>3. CASE TypeLine(c)
  <2>1. PICK kind \in LineKinds : ClientWrite(c, CreateCommand(kind, typed'[c]))
    BY <1>3 DEF TypeLine
  <2>2. /\ typed' = [typed EXCEPT ![c] = @ + 1]
        /\ typed[c] < Lines
        /\ UNCHANGED <<daemonVars, client, received, buffer, greeted, results, down>>
    BY <1>3 DEF TypeLine
  <2>3. Lines \in Nat /\ typed \in [Clients -> 0..Lines]
    BY <1>1, SessionAssumption DEF TypeOK
  <2>4. typed' \in [Clients -> 0..Lines] /\ typed'[c] \in 0..Lines
    BY <2>2, <2>3
  <2>5. CreateCommand(kind, typed'[c]) \in Seq(Cell)
    BY <2>4, MessageType DEF CreateCommand, Kinds, LineKinds
  <2>6. /\ up' \in [Clients -> Seq(Cell)] /\ sent' \in [Clients -> Seq(Cell)]
        /\ UpIsRest' /\ AnsweredWasRead'
    BY <2>1, <2>2, <2>5, ClientWriteInv
  <2>7. TypeOK' /\ Connected'
    BY <1>1, <2>2, <2>4, <2>6 DEF TypeOK, IInv, Connected
  <2> QED
    BY <2>6, <2>7 DEF IInv
<1>4. CASE Quit(c)
  <2>1. TypeOK'
    BY <1>1, <1>4 DEF TypeOK, Quit
  <2>2. UpIsRest' /\ AnsweredWasRead' /\ Connected'
    BY <1>4, StreamsKept DEF Quit, IInv, Connected
  <2> QED
    BY <2>1, <2>2 DEF IInv
<1>5. CASE SendHelo(c)
  <2>1. /\ client' = [client EXCEPT ![c] = "open"]
        /\ ClientWrite(c, Message("helo", 0))
        /\ UNCHANGED <<daemonVars, typed, received, buffer, greeted, results, down>>
    BY <1>5 DEF SendHelo
  <2>2. Message("helo", 0) \in Seq(Cell)
    BY MessageType, SessionAssumption DEF Kinds, LineKinds
  <2>3. /\ up' \in [Clients -> Seq(Cell)] /\ sent' \in [Clients -> Seq(Cell)]
        /\ UpIsRest' /\ AnsweredWasRead'
    BY <2>1, <2>2, ClientWriteInv
  <2>4. TypeOK' /\ Connected'
    BY <1>1, <2>1, <2>3 DEF TypeOK, IInv, Connected
  <2> QED
    BY <2>3, <2>4 DEF IInv
<1>6. CASE ClientEof(c)
  <2>1. client' = client \/ client' = [client EXCEPT ![c] = "crashed"]
    BY <1>6 DEF ClientEof
  <2>2. /\ received' = [received EXCEPT ![c] = <<>>]
        /\ UNCHANGED <<daemonVars, typed, sent, buffer, greeted, results, up, down>>
    BY <1>6 DEF ClientEof
  <2>3. TypeOK'
    <3>1. client' \in [Clients -> {"off", "greet", "open", "refused", "gone", "crashed"}]
      BY <1>1, <2>1 DEF TypeOK
    <3>2. received' \in [Clients -> Seq(Cell)]
      <4>1. <<>> \in Seq(Cell)
        OBVIOUS
      <4> QED
        BY <1>1, <2>2, <4>1 DEF TypeOK
    <3> QED
      BY <1>1, <2>2, <3>1, <3>2 DEF TypeOK
  <2>4. UpIsRest' /\ AnsweredWasRead' /\ Connected'
    BY <2>2, StreamsKept DEF IInv, Connected
  <2> QED
    BY <2>3, <2>4 DEF IInv
<1> QED
  BY <1>2, <1>3, <1>4, <1>5, <1>6

LEMMA ClientReadInv ==
    ASSUME IInv, NEW c \in Clients, ClientRead(c)
    PROVE  IInv'
<1>1. TypeOK /\ CBuf \in Nat
  BY SessionAssumption DEF IInv
<1>2. PICK n \in Chunks(down[c], CBuf) :
         /\ received' = [received EXCEPT ![c] = SubSeq(down[c], 1, n)]
         /\ down' = [down EXCEPT ![c] = SubSeq(@, n + 1, Len(@))]
  BY DEF ClientRead
<1>3. down[c] \in Seq(Cell)
  BY <1>1 DEF TypeOK
<1>4. /\ SubSeq(down[c], 1, n) \in Seq(Cell)
      /\ SubSeq(down[c], n + 1, Len(down[c])) \in Seq(Cell)
  BY <1>1, <1>2, <1>3, ChunkOf
<1>5. received' \in [Clients -> Seq(Cell)] /\ down' \in [Clients -> Seq(Cell)]
  BY <1>1, <1>2, <1>4 DEF TypeOK
<1>6. buffer' = [buffer EXCEPT ![c] = ReadInto(@, received'[c])]
  BY DEF ClientRead
<1>7. ReadInto(buffer[c], received'[c]) \in Seq(Cell)
  BY <1>1, <1>5, ReadIntoType DEF TypeOK
<1>8. buffer' \in [Clients -> Seq(Cell)]
  BY <1>1, <1>6, <1>7 DEF TypeOK
<1>9. client' = client \/ client' = [client EXCEPT ![c] = "crashed"]
  BY DEF ClientRead
<1>10. \/ greeted' = greeted
       \/ greeted' = [greeted EXCEPT ![c] = @ \/ Text(buffer'[c]) = Message("helo", 0)]
  BY DEF ClientRead
<1>11. greeted' \in [Clients -> BOOLEAN]
  BY <1>1, <1>10 DEF TypeOK
<1>12. \/ results' = results
       \/ results' = [results EXCEPT ![c] = IF buffer'[c][1][1] = "result" THEN @ + 1 ELSE @]
  BY DEF ClientRead
<1>13. results' \in [Clients -> Nat]
  <2>1. results \in [Clients -> Nat]
    BY <1>1 DEF TypeOK
  <2>2. PICK shown \in Nat : results' = results \/ results' = [results EXCEPT ![c] = shown]
    <3>1. results[c] \in Nat /\ results[c] + 1 \in Nat
      BY <2>1
    <3>2. CASE results' = results
      BY <3>1, <3>2
    <3>3. CASE results' = [results EXCEPT ![c] = IF buffer'[c][1][1] = "result" THEN @ + 1 ELSE @]
      BY <3>1, <3>3
    <3> QED
      BY <1>12, <3>2, <3>3
  <2> QED
    BY <2>1, <2>2
<1>14. UNCHANGED <<daemonVars, typed, sent, up>>
  BY DEF ClientRead
<1>15. TypeOK'
  BY <1>1, <1>5, <1>8, <1>9, <1>11, <1>13, <1>14 DEF TypeOK, daemonVars
<1>16. UpIsRest' /\ AnsweredWasRead' /\ Connected'
  BY <1>14, StreamsKept DEF IInv, Connected, daemonVars
<1> QED
  BY <1>15, <1>16 DEF IInv

----------------------------------------------------------------------------
(* The steps of pgd.                                                       *)

LEMMA DaemonInv ==
    ASSUME IInv,
           \/ \E c \in Clients : Accept(c)
           \/ SendHeloBack \/ ServeEof
    PROVE  IInv'
<1> USE DEF clientVars
<1>1. TypeOK
  BY DEF IInv
<1>2. ASSUME NEW c \in Clients, Accept(c)
      PROVE  IInv'
  <2>1. TypeOK'
    BY <1>1, <1>2 DEF TypeOK, Accept
  <2>2. answered = <<>> /\ UNCHANGED <<up, sent, answered>>
    BY <1>2 DEF IInv, Connected, Accept
  <2>3. Connected'
    BY <1>2, <2>2 DEF Accept, Connected
  <2> QED
    BY <2>1, <2>2, <2>3, StreamsKept DEF IInv
<1>3. CASE SendHeloBack
  <2>1. conn \in Clients
    BY <1>3 DEF IInv, Connected, SendHeloBack
  <2>2. Message("helo", 0) \in Seq(Cell)
    BY MessageType, SessionAssumption DEF Kinds, LineKinds
  <2>3. down[conn] \in Seq(Cell)
    BY <1>1, <2>1 DEF TypeOK
  <2>4. down[conn] \o Message("helo", 0) \in Seq(Cell)
    BY <2>2, <2>3
  <2>5. TypeOK'
    BY <1>1, <1>3, <2>4 DEF TypeOK, SendHeloBack
  <2>6. UpIsRest' /\ AnsweredWasRead' /\ Connected'
    BY <1>3, <2>1, StreamsKept DEF SendHeloBack, IInv, Connected
  <2> QED
    BY <2>5, <2>6 DEF IInv
<1>4. CASE ServeEof
  <2>1. TypeOK'
    BY <1>1, <1>4 DEF TypeOK, ServeEof
  <2>2. UpIsRest' /\ AnsweredWasRead' /\ Connected'
    BY <1>4, StreamsKept DEF ServeEof, IInv, Connected
  <2> QED
    BY <2>1, <2>2 DEF IInv
<1> QED
  BY <1>2, <1>3, <1>4

LEMMA HandshakeInv ==
    ASSUME IInv, Handshake
    PROVE  IInv'
<1>1. /\ TypeOK /\ DBuf \in Nat /\ conn \in Clients
      /\ answered = <<>>
      /\ daemon' = "greet"
      /\ UNCHANGED <<conn, answered, clientVars, down>>
  BY SessionAssumption DEF IInv, Connected, Handshake
<1>2. CASE \E n \in Chunks(up[conn], DBuf) :
             /\ handshake' = SubSeq(up[conn], 1, n)
             /\ up' = [up EXCEPT ![conn] = SubSeq(@, n + 1, Len(@))]
  <2>1. PICK n \in Chunks(up[conn], DBuf) :
             /\ handshake' = SubSeq(up[conn], 1, n)
             /\ up' = [up EXCEPT ![conn] = SubSeq(@, n + 1, Len(@))]
    BY <1>2
  <2>2. up[conn] \in Seq(Cell)
    BY <1>1 DEF TypeOK
  <2>3. handshake' \in Seq(Cell)
    BY <1>1, <2>1, <2>2, ChunkOf
  <2>4. up' \in [Clients -> Seq(Cell)] /\ UpIsRest'
    BY <1>1, <2>1, ServerReadInv DEF clientVars
  <2>5. TypeOK'
    BY <1>1, <2>3, <2>4 DEF TypeOK, clientVars
  <2>6. Connected' /\ AnsweredWasRead'
    BY <1>1 DEF Connected, AnsweredWasRead
  <2> QED
    BY <2>4, <2>5, <2>6 DEF IInv
<1>3. CASE UNCHANGED <<handshake, up>>
  <2>1. TypeOK' /\ Connected'
    BY <1>1, <1>3 DEF TypeOK, Connected, clientVars
  <2>2. UpIsRest' /\ AnsweredWasRead'
    BY <1>1, <1>3, StreamsKept DEF clientVars
  <2> QED
    BY <2>1, <2>2 DEF IInv
<1> QED
  BY <1>2, <1>3 DEF Handshake

\* A round of the serving loop answers nothing, or the text of what it read.
LEMMA ServeInv ==
    ASSUME IInv, Serve
    PROVE  IInv'
<1>1. /\ TypeOK /\ DBuf \in Nat /\ conn \in Clients
      /\ daemon = "serve"
      /\ UNCHANGED <<conn, handshake, clientVars>>
  BY SessionAssumption DEF IInv, Connected, Serve
<1>2. up[conn] \in Seq(Cell) /\ down[conn] \in Seq(Cell)
  BY <1>1 DEF TypeOK
<1>3. PICK n \in Chunks(up[conn], DBuf) :
         /\ up' = [up EXCEPT ![conn] = SubSeq(@, n + 1, Len(@))]
         /\ daemon' \in {"serve", "crashed"}
         /\ \/ UNCHANGED <<down, answered>>
            \/ ExecCommand(Request(SubSeq(up[conn], 1, n)))
  BY <1>1 DEF Serve
<1> DEFINE chunk == SubSeq(up[conn], 1, n)
           str == Request(chunk)
<1>4. chunk \in Seq(Cell) /\ Len(chunk) = n /\ n <= DBuf /\ n \in Nat
  BY <1>1, <1>2, <1>3, ChunkOf
<1>5. /\ up' \in [Clients -> Seq(Cell)]
      /\ UpIsRest'
      /\ Consumed[conn] \in Nat
      /\ Consumed'[conn] = Consumed[conn] + n
      /\ \A k \in 1..n : chunk[k] = sent[conn][Consumed[conn] + k]
  BY <1>1, <1>3, ServerReadInv DEF clientVars
<1>6. sent' = sent
  BY <1>1 DEF clientVars
<1> HIDE DEF chunk
<1>7. Connected'
  BY <1>1, <1>3 DEF IInv, Connected
<1>8. CASE UNCHANGED <<down, answered>>
  <2>1. <<>> \in Seq(Cell) /\ Len(<<>>) = 0 /\ answered' = answered \o <<>>
    BY <1>1, <1>8 DEF TypeOK
  <2>2. answered' \in Seq(Cell) /\ AnsweredWasRead'
    <3>1. Len(<<>>) <= n /\ \A k \in 1..Len(<<>>) : <<>>[k] = sent[conn][Consumed[conn] + k]
      BY <1>4, <2>1
    <3> QED
      BY <1>1, <1>4, <1>5, <1>6, <2>1, <3>1, AnswerInv
  <2>3. TypeOK'
    BY <1>1, <1>3, <1>5, <1>8, <2>2 DEF TypeOK, clientVars
  <2> QED
    BY <1>5, <1>7, <2>2, <2>3 DEF IInv
<1>9. CASE ExecCommand(str)
  <2>1. /\ str \in Seq(Cell)
        /\ Text(str) \in Seq(Cell)
        /\ Len(Text(str)) <= n
        /\ \A k \in 1..Len(Text(str)) : Text(str)[k] = chunk[k]
    BY <1>4, RequestText
  <2> HIDE DEF str
  <2>2. /\ down' = [down EXCEPT ![conn] = @ \o Reply(0, str)]
        /\ answered' = answered \o Text(str)
    BY <1>9 DEF ExecCommand
  <2>3. \A k \in 1..Len(Text(str)) : Text(str)[k] = sent[conn][Consumed[conn] + k]
    BY <1>4, <1>5, <2>1
  <2>4. answered' \in Seq(Cell) /\ AnsweredWasRead'
    BY <1>1, <1>4, <1>5, <1>6, <2>1, <2>2, <2>3, AnswerInv
  <2>5. down' \in [Clients -> Seq(Cell)]
    <3>1. Message("result", 0) \in Seq(Cell)
      BY MessageType, SessionAssumption DEF Kinds, LineKinds
    <3>2. Reply(0, str) \in Seq(Cell)
      BY <2>1, <3>1 DEF Reply
    <3>3. down[conn] \o Reply(0, str) \in Seq(Cell)
      BY <1>2, <3>2
    <3> QED
      BY <1>1, <2>2, <3>3 DEF TypeOK
  <2>6. TypeOK'
    BY <1>1, <1>3, <1>5, <2>4, <2>5 DEF TypeOK, clientVars
  <2> QED
    BY <1>5, <1>7, <2>4, <2>6 DEF IInv
<1> QED
  BY <1>3, <1>8, <1>9 DEF chunk

----------------------------------------------------------------------------
LEMMA NextInv == IInv /\ [Next]_vars => IInv'
<1> SUFFICES ASSUME IInv, [Next]_vars PROVE IInv'
  OBVIOUS
<1>1. ASSUME NEW c \in Clients, Connect(c) \/ TypeLine(c) \/ Quit(c) \/ ClientStep(c)
      PROVE  IInv'
  BY <1>1, ClientInv, ClientReadInv DEF ClientStep
<1>2. CASE DaemonStep
  BY <1>2, DaemonInv, HandshakeInv, ServeInv DEF DaemonStep
<1>3. CASE UNCHANGED vars
  <2>1. TypeOK' /\ Connected'
    BY <1>3 DEF IInv, TypeOK, Connected, vars, daemonVars, clientVars
  <2>2. UpIsRest' /\ AnsweredWasRead'
    BY <1>3, StreamsKept DEF vars, daemonVars, clientVars
  <2> QED
    BY <2>1, <2>2 DEF IInv
<1> QED
  BY <1>1, <1>2, <1>3 DEF Next

\* Each variable of the two programs and of the streams between them keeps its
\* type: what is read, kept, answered and shown are cells of messages.
THEOREM TypeCorrect == Spec => []TypeOK
<1>1. IInv => TypeOK
  BY DEF IInv
<1> QED
  BY <1>1, InitInv, NextInv, PTL DEF Spec

\* However TCP cuts and joins the messages of users who type ahead, no part of
\* a request is answered twice or out of order (client_handler).
THEOREM AnswersInOrder == Spec => []AnsweredOnceInOrder
<1>1. IInv => AnsweredOnceInOrder
  <2> SUFFICES ASSUME IInv, NEW i \in 1..Len(answered), NEW j \in 1..Len(answered), i < j
               PROVE  \E k \in WrittenAt(answered[i]), l \in WrittenAt(answered[j]) : k < l
    BY DEF AnsweredOnceInOrder
  <2>1. PICK k \in 1..Consumed[conn], l \in 1..Consumed[conn] :
           k < l /\ sent[conn][k] = answered[i] /\ sent[conn][l] = answered[j]
    BY DEF IInv, AnsweredWasRead
  <2>2. conn \in Clients
    BY DEF IInv, Connected, TypeOK
  <2>3. Consumed[conn] \in 0..Len(sent[conn]) /\ Len(sent[conn]) \in Nat
    <3>1. Len(sent[conn]) \in Nat /\ Len(up[conn]) \in Nat
      BY <2>2 DEF IInv, TypeOK
    <3>2. Consumed[conn] = Len(sent[conn]) - Len(up[conn])
      BY <2>2 DEF Consumed
    <3>3. Len(up[conn]) <= Len(sent[conn])
      BY <2>2 DEF IInv, UpIsRest
    <3>4. 0 \in Nat
      OBVIOUS
    <3>5. Len(sent[conn]) - Len(up[conn]) \in 0..Len(sent[conn])
      BY <3>1, <3>3, <3>4, Difference
    <3> QED
      BY <3>1, <3>2, <3>5
  <2>4. k \in 1..Len(sent[conn]) /\ l \in 1..Len(sent[conn])
    BY <2>3, Widen
  <2> QED
    BY <2>1, <2>4 DEF WrittenAt
<1> QED
  BY <1>1, InitInv, NextInv, PTL DEF Spec
----------------------------------------------------------------------------
(* A user who waits for the answers.                                       *)

\* The helo, the lines pgd may answer, and the cells it sends back for one.
Helo == Message("helo", 0)
Answerable == {"command", "malformed"}
Answer(kind, n) == Reply(0, Request(Message(kind, n)))

\* Nothing has come back to the client, and it has sent no more than its HELO.
Fresh(c) ==
    /\ up[c] \in {<<>>, Helo} /\ down[c] = <<>>
    /\ buffer[c] = Zeros(CBuf) /\ received[c] = <<>>
    /\ ~greeted[c] /\ typed[c] = 0 /\ results[c] = 0

\* The daemon's HELO is under way.
Greeting(c) ==
    /\ up[c] = <<>> /\ down[c] = Helo
    /\ buffer[c] = Zeros(CBuf)
    /\ ~greeted[c] /\ typed[c] = 0 /\ results[c] = 0

\* Nothing is under way.
Quiet(c) ==
    /\ up[c] = <<>> /\ down[c] = <<>> /\ greeted[c]

\* The last line typed is under way.
Asking(c) ==
    /\ down[c] = <<>> /\ greeted[c] /\ results[c] # typed[c]
    /\ \E kind \in LineKinds : WroteLast(c, {kind}) /\ up[c] = Message(kind, typed[c])

\* `read' cells of the answer have been read: none, a buffer, or more; then the
\* last buffer held the zeros in the middle of the answer.
Answering(c, read) ==
    /\ up[c] = <<>> /\ greeted[c] /\ results[c] # typed[c]
    /\ \E kind \in Answerable :
          /\ WroteLast(c, {kind})
          /\ down[c] = SubSeq(Answer(kind, typed[c]), read + 1, DBuf + 1)
    /\ read > CBuf => buffer[c] = Zeros(CBuf)

\* The last line got no answer, and its user waits for it for ever.
Stuck(c, kinds) ==
    Quiet(c) /\ results[c] # typed[c] /\ WroteLast(c, kinds)

Exchange(c) ==
    \/ Greeting(c) \/ Quiet(c) \/ Asking(c)
    \/ \E read \in 0..DBuf : (read = 0 \/ read >= CBuf) /\ Answering(c, read)

\* What the daemon's place in the session says of the streams.
InTurn ==
    /\ \A c \in Clients : c # conn => Fresh(c)
    /\ \A c \in Clients : client[c] \in {"off", "greet", "refused"} => up[c] = <<>>
    /\ \A c \in Clients : Len(buffer[c]) = CBuf
    /\ daemon = "accept" => conn = None
    /\ daemon = "handshake" => Fresh(conn) /\ client[conn] \notin {"off", "refused"}
    /\ daemon = "greet" => Fresh(conn) /\ up[conn] = <<>>
    /\ daemon \in {"serve", "done"} => Exchange(conn)
    /\ daemon = "crashed" => Stuck(conn, {"malformed"})
    /\ daemon \in {"greet", "serve", "done", "crashed"} =>
          client[conn] \notin {"off", "greet", "refused"}
    /\ daemon = "done" => client[conn] \in {"gone", "crashed"}

TurnsInv == InTurn /\ OnlyMalformedCrashes /\ TextIsReceived

\* The user waits, TCP delivers what is written in one piece, and an answer
\* takes the client more than one read.
Waits == LockStep = TRUE /\ Tearing = FALSE /\ DBuf > CBuf

LEMMA MessageCells ==
    ASSUME NEW kind \in Kinds, NEW n \in 0..Lines
    PROVE  /\ Message(kind, n) \in Seq(Cell)
           /\ Len(Message(kind, n)) = Size(kind)
           /\ \A k \in 1..Size(kind) :
                 Message(kind, n)[k] = <<kind, n, k>> /\ Message(kind, n)[k] # Nul
           /\ Message(kind, n) \in Messages
<1>1. Message(kind, n) \in Seq(Cell)
  BY MessageType
<1>2. Size(kind) \in {1, 2}
  BY DEF Size
<1>3. Len(Message(kind, n)) = Size(kind)
  BY <1>2 DEF Message
<1>4. \A k \in 1..Size(kind) : Message(kind, n)[k] = <<kind, n, k>>
  BY DEF Message
<1>5. kind # "nul"
  BY DEF Kinds, LineKinds
<1>6. \A k \in 1..Size(kind) : <<kind, n, k>> # Nul
  BY <1>5 DEF Nul
<1>7. Message(kind, n) \in Messages
  BY DEF Messages
<1> QED
  BY <1>1, <1>3, <1>4, <1>6, <1>7

LEMMA ShortMessages ==
           /\ Helo \in Seq(Cell) /\ Len(Helo) = 2
           /\ \A k \in 1..2 : Helo[k] = <<"helo", 0, k>> /\ Helo[k] # Nul
           /\ Helo \in Messages
           /\ Message("result", 0) \in Seq(Cell) /\ Len(Message("result", 0)) = 1
           /\ Message("result", 0)[1] = <<"result", 0, 1>>
           /\ Message("result", 0) \in Messages
<1>1. 0 \in 0..Lines /\ {"helo", "result"} \subseteq Kinds
  BY SessionAssumption DEF Kinds, LineKinds
<1>2. Size("helo") = 2 /\ Size("result") = 1
  BY DEF Size
<1>3. 1 \in 1..1
  OBVIOUS
<1>4. /\ Helo \in Seq(Cell) /\ Len(Helo) = 2
      /\ \A k \in 1..2 : Helo[k] = <<"helo", 0, k>> /\ Helo[k] # Nul
      /\ Helo \in Messages
  BY <1>1, <1>2, MessageCells DEF Helo
<1>5. /\ Message("result", 0) \in Seq(Cell) /\ Len(Message("result", 0)) = 1
      /\ Message("result", 0)[1] = <<"result", 0, 1>>
      /\ Message("result", 0) \in Messages
  BY <1>1, <1>2, <1>3, MessageCells
<1> QED
  BY <1>4, <1>5

LEMMA LineCells ==
    ASSUME NEW kind \in LineKinds, NEW n \in 0..Lines
    PROVE  /\ Message(kind, n) \in Seq(Cell) /\ Len(Message(kind, n)) = 2
           /\ \A k \in 1..2 :
                 Message(kind, n)[k] = <<kind, n, k>> /\ Message(kind, n)[k] # Nul
           /\ Message(kind, n)[1] = <<kind, n, 1>> /\ Message(kind, n)[1] # Nul
           /\ Message(kind, n) \in Messages /\ Message(kind, n) # <<>>
<1>1. kind \in Kinds /\ Size(kind) = 2
  BY DEF LineKinds, Kinds, Size
<1>2. /\ Message(kind, n) \in Seq(Cell) /\ Len(Message(kind, n)) = 2
      /\ \A k \in 1..2 :
            Message(kind, n)[k] = <<kind, n, k>> /\ Message(kind, n)[k] # Nul
      /\ Message(kind, n) \in Messages
  BY <1>1, MessageCells
<1>3. 1 \in 1..2
  OBVIOUS
<1> QED
  BY <1>2, <1>3

\* A buffer that holds a text and nothing, or a zero, behind it.
LEMMA TextIs ==
    ASSUME NEW buf \in Seq(Cell), NEW text \in Seq(Cell),
           Len(text) <= Len(buf),
           \A k \in 1..Len(text) : buf[k] = text[k] /\ text[k] # Nul,
           Len(text) < Len(buf) => buf[Len(text) + 1] = Nul
    PROVE  Text(buf) = text
<1> DEFINE ends == {k \in 1..Len(buf) : buf[k] = Nul}
           first == CHOOSE k \in ends : \A j \in ends : k <= j
<1>1. CASE Len(text) = Len(buf)
  <2>1. ends = {}
    BY <1>1
  <2>2. buf = text
    BY <1>1
  <2> QED
    BY <2>1, <2>2 DEF Text
<1>2. CASE Len(text) < Len(buf)
  <2>1. Len(text) + 1 \in ends
    BY <1>2
  <2>2. \A k \in ends : Len(text) + 1 <= k
    OBVIOUS
  <2>3. first \in ends /\ \A j \in ends : first <= j
    BY <2>1, <2>2
  <2>4. first = Len(text) + 1
    BY <2>1, <2>2, <2>3
  <2>5. Text(buf) = SubSeq(buf, 1, first - 1)
    BY <2>1 DEF Text
  <2> HIDE DEF first
  <2>6. Text(buf) = SubSeq(buf, 1, Len(text))
    BY <2>4, <2>5
  <2>7. /\ SubSeq(buf, 1, Len(text)) \in Seq(Cell)
        /\ Len(SubSeq(buf, 1, Len(text))) = Len(text)
        /\ \A k \in 1..Len(text) : SubSeq(buf, 1, Len(text))[k] = buf[k]
    BY <1>2
  <2>8. SubSeq(buf, 1, Len(text)) = text
    BY <2>7
  <2> QED
    BY <2>6, <2>8
<1> QED
  BY <1>1, <1>2

LEMMA TextEmpty ==
    ASSUME NEW buf \in Seq(Cell), Len(buf) >= 1, buf[1] = Nul
    PROVE  Text(buf) = <<>>
<1> DEFINE text == <<>>
<1>1. text \in Seq(Cell) /\ Len(text) = 0 /\ Len(text) <= Len(buf) /\ Len(text) < Len(buf)
  OBVIOUS
<1>2. buf[Len(text) + 1] = Nul
  BY <1>1
<1>3. \A k \in 1..Len(text) : buf[k] = text[k] /\ text[k] # Nul
  BY <1>1
<1> HIDE DEF text
<1>4. Text(buf) = text
  BY <1>1, <1>2, <1>3, TextIs
<1> QED
  BY <1>4 DEF text

LEMMA ReadIntoCells ==
    ASSUME NEW buf \in Seq(Cell), NEW chunk \in Seq(Cell), Len(chunk) <= Len(buf)
    PROVE  /\ ReadInto(buf, chunk) \in Seq(Cell)
           /\ Len(ReadInto(buf, chunk)) = Len(buf)
           /\ \A k \in 1..Len(chunk) : ReadInto(buf, chunk)[k] = chunk[k]
           /\ \A k \in (Len(chunk) + 1)..Len(buf) : ReadInto(buf, chunk)[k] = buf[k]
<1> DEFINE rest == SubSeq(buf, Len(chunk) + 1, Len(buf))
<1>1. /\ rest \in Seq(Cell)
      /\ Len(rest) = Len(buf) - Len(chunk)
      /\ \A k \in 1..(Len(buf) - Len(chunk)) : rest[k] = buf[Len(chunk) + k]
  OBVIOUS
<1>2. ReadInto(buf, chunk) = chunk \o rest
  BY DEF ReadInto
<1> HIDE DEF rest
<1>3. /\ chunk \o rest \in Seq(Cell)
      /\ Len(chunk \o rest) = Len(buf)
      /\ \A k \in 1..Len(chunk) : (chunk \o rest)[k] = chunk[k]
      /\ \A k \in (Len(chunk) + 1)..Len(buf) : (chunk \o rest)[k] = rest[k - Len(chunk)]
  BY <1>1
<1>4. \A k \in (Len(chunk) + 1)..Len(buf) : rest[k - Len(chunk)] = buf[k]
  BY <1>1
<1> QED
  BY <1>2, <1>3, <1>4

LEMMA Joined ==
    ASSUME NEW s \in Seq(Cell), NEW t \in Seq(Cell)
    PROVE  /\ s \o t \in Seq(Cell)
           /\ Len(s \o t) = Len(s) + Len(t)
           /\ \A k \in 1..Len(s) : (s \o t)[k] = s[k]
           /\ \A k \in 1..Len(t) : (s \o t)[Len(s) + k] = t[k]
OBVIOUS

\* What pgd sends back for a line: the buffer it was read to, and a result.
LEMMA AnswerCells ==
    ASSUME NEW kind \in LineKinds, NEW n \in 0..Lines, DBuf > CBuf
    PROVE  /\ Answer(kind, n) \in Seq(Cell)
           /\ Len(Answer(kind, n)) = DBuf + 1
           /\ Answer(kind, n)[1] = <<kind, n, 1>> /\ Answer(kind, n)[2] = <<kind, n, 2>>
           /\ \A k \in 3..DBuf : Answer(kind, n)[k] = Nul
           /\ Answer(kind, n)[DBuf + 1] = <<"result", 0, 1>>
           /\ Request(Message(kind, n)) \in Seq(Cell)
           /\ Len(Request(Message(kind, n))) = DBuf
           /\ Text(Request(Message(kind, n))) = Message(kind, n)
           /\ Request(Message(kind, n))[1] = <<kind, n, 1>>
<1> DEFINE str == Request(Message(kind, n))
<1>1. DBuf \in Nat /\ DBuf > 4
  BY SessionAssumption
<1>2. Zeros(DBuf) \in Seq(Cell) /\ Len(Zeros(DBuf)) = DBuf /\ \A k \in 1..DBuf : Zeros(DBuf)[k] = Nul
  BY <1>1, ZerosType
<1>3. /\ Message(kind, n) \in Seq(Cell) /\ Len(Message(kind, n)) = 2
      /\ \A k \in 1..2 : Message(kind, n)[k] = <<kind, n, k>> /\ Message(kind, n)[k] # Nul
  BY LineCells
<1>4. /\ str \in Seq(Cell) /\ Len(str) = DBuf
      /\ \A k \in 1..2 : str[k] = Message(kind, n)[k]
      /\ \A k \in 3..DBuf : str[k] = Zeros(DBuf)[k]
  <2>1. Len(Message(kind, n)) <= Len(Zeros(DBuf))
    BY <1>1, <1>2, <1>3
  <2>2. str = ReadInto(Zeros(DBuf), Message(kind, n))
    BY DEF Request
  <2> HIDE DEF str
  <2>3. /\ str \in Seq(Cell)
        /\ Len(str) = Len(Zeros(DBuf))
        /\ \A k \in 1..Len(Message(kind, n)) : str[k] = Message(kind, n)[k]
        /\ \A k \in (Len(Message(kind, n)) + 1)..Len(Zeros(DBuf)) : str[k] = Zeros(DBuf)[k]
    BY <1>2, <1>3, <2>1, <2>2, ReadIntoCells
  <2> QED
    BY <1>1, <1>2, <1>3, <2>3
<1> HIDE DEF str
<1>5. str[1] = <<kind, n, 1>> /\ str[2] = <<kind, n, 2>> /\ \A k \in 3..DBuf : str[k] = Nul
  <2>1. 1 \in 1..2 /\ 2 \in 1..2 /\ \A k \in 3..DBuf : k \in 1..DBuf
    BY <1>1
  <2> QED
    BY <1>2, <1>3, <1>4, <2>1
<1>6. Text(str) = Message(kind, n)
  <2>1. /\ Len(Message(kind, n)) <= Len(str)
        /\ Len(Message(kind, n)) < Len(str) => str[Len(Message(kind, n)) + 1] = Nul
    <3>1. 3 \in 3..DBuf
      BY <1>1
    <3> QED
      BY <1>1, <1>3, <1>4, <1>5, <3>1
  <2>2. \A k \in 1..Len(Message(kind, n)) : str[k] = Message(kind, n)[k] /\ Message(kind, n)[k] # Nul
    BY <1>3, <1>4
  <2> QED
    BY <1>3, <1>4, <2>1, <2>2, TextIs
<1>7. /\ Message("result", 0) \in Seq(Cell) /\ Len(Message("result", 0)) = 1
      /\ Message("result", 0)[1] = <<"result", 0, 1>>
  BY ShortMessages
<1>8. Answer(kind, n) = str \o Message("result", 0)
  BY DEF Answer, Reply, str
<1>9. /\ Answer(kind, n) \in Seq(Cell)
      /\ Len(Answer(kind, n)) = DBuf + 1
      /\ \A k \in 1..DBuf : Answer(kind, n)[k] = str[k]
      /\ Answer(kind, n)[DBuf + 1] = <<"result", 0, 1>>
  <2> DEFINE result == Message("result", 0)
  <2>1. result \in Seq(Cell) /\ Len(result) = 1 /\ result[1] = <<"result", 0, 1>>
    BY <1>7
  <2> HIDE DEF result
  <2>2. /\ str \o result \in Seq(Cell)
        /\ Len(str \o result) = Len(str) + Len(result)
        /\ \A k \in 1..Len(str) : (str \o result)[k] = str[k]
        /\ \A k \in 1..Len(result) : (str \o result)[Len(str) + k] = result[k]
    BY <1>4, <2>1, Joined
  <2>3. (str \o result)[Len(str) + 1] = result[1]
    <3>1. 1 \in 1..Len(result)
      BY <2>1
    <3> QED
      BY <2>2, <3>1
  <2>4. Answer(kind, n) = str \o result
    BY <1>8 DEF result
  <2> QED
    BY <1>1, <1>4, <2>1, <2>2, <2>3, <2>4
<1>10. 1 \in 1..DBuf /\ 2 \in 1..DBuf /\ \A k \in 3..DBuf : k \in 1..DBuf
  BY <1>1
<1> QED
  BY <1>4, <1>5, <1>6, <1>9, <1>10 DEF str

\* A read gets all there is, or as much as the buffer takes.
LEMMA WholeChunk ==
    ASSUME Tearing = FALSE, NEW stream \in Seq(Cell), NEW size \in Nat,
           NEW n \in Chunks(stream, size)
    PROVE  /\ n \in Nat /\ n >= 1
           /\ Len(stream) <= size => n = Len(stream)
           /\ Len(stream) >= size => n = size
           /\ stream # <<>>
BY DEF Chunks

LEMMA AllRead ==
    ASSUME NEW stream \in Seq(Cell)
    PROVE  /\ SubSeq(stream, 1, Len(stream)) = stream
           /\ SubSeq(stream, Len(stream) + 1, Len(stream)) = <<>>
OBVIOUS

LEMMA Cut ==
    ASSUME NEW s \in Seq(Cell), NEW n \in 1..Len(s)
    PROVE  /\ SubSeq(s, 1, n) \in Seq(Cell)
           /\ Len(SubSeq(s, 1, n)) = n
           /\ \A k \in 1..n : SubSeq(s, 1, n)[k] = s[k]
           /\ SubSeq(s, n + 1, Len(s)) \in Seq(Cell)
           /\ Len(SubSeq(s, n + 1, Len(s))) = Len(s) - n
           /\ \A k \in 1..(Len(s) - n) : SubSeq(s, n + 1, Len(s))[k] = s[n + k]
OBVIOUS

LEMMA SameCells ==
    ASSUME NEW s \in Seq(Cell), NEW t \in Seq(Cell), Len(s) = Len(t),
           \A k \in 1..Len(s) : s[k] = t[k]
    PROVE  s = t
OBVIOUS

\* The end of a sequence, and a chunk taken off it.
LEMMA ChunkOfEnd ==
    ASSUME NEW s \in Seq(Cell), NEW read \in Nat, read < Len(s),
           NEW n \in Nat, 1 <= n, n <= Len(s) - read,
           NEW end \in Seq(Cell), end = SubSeq(s, read + 1, Len(s))
    PROVE  /\ SubSeq(end, 1, n) \in Seq(Cell)
           /\ Len(SubSeq(end, 1, n)) = n
           /\ \A k \in 1..n : SubSeq(end, 1, n)[k] = s[read + k]
           /\ SubSeq(end, n + 1, Len(end)) = SubSeq(s, (read + n) + 1, Len(s))
           /\ read + n = Len(s) => SubSeq(end, n + 1, Len(end)) = <<>>
<1> DEFINE off == SubSeq(end, n + 1, Len(end))
           other == SubSeq(s, (read + n) + 1, Len(s))
<1>1. /\ end \in Seq(Cell) /\ Len(end) = Len(s) - read
      /\ \A k \in 1..(Len(s) - read) : end[k] = s[read + k]
  OBVIOUS
<1>2. /\ SubSeq(end, 1, n) \in Seq(Cell)
      /\ Len(SubSeq(end, 1, n)) = n
      /\ \A k \in 1..n : SubSeq(end, 1, n)[k] = end[k]
      /\ off \in Seq(Cell)
      /\ Len(off) = Len(s) - read - n
      /\ \A k \in 1..(Len(s) - read - n) : off[k] = end[n + k]
  <2>1. n \in 1..Len(end)
    BY <1>1
  <2> QED
    BY <1>1, <2>1, Cut
<1>3. \A k \in 1..n : SubSeq(end, 1, n)[k] = s[read + k]
  BY <1>1, <1>2
<1>4. /\ other \in Seq(Cell)
      /\ Len(other) = Len(s) - read - n
      /\ \A k \in 1..(Len(s) - read - n) : other[k] = s[(read + n) + k]
  BY SMTT(20)
<1>5. \A k \in 1..(Len(s) - read - n) : off[k] = other[k]
  BY <1>1, <1>2, <1>4
<1> HIDE DEF off, other
<1>6. off = other
  <2>1. Len(off) = Len(other) /\ \A k \in 1..Len(off) : off[k] = other[k]
    BY <1>2, <1>4, <1>5
  <2>2. off \in Seq(Cell) /\ other \in Seq(Cell)
    BY <1>2, <1>4
  <2> QED
    BY <2>1, <2>2, SameCells
<1>7. read + n = Len(s) => off = <<>>
  BY <1>2
<1> QED
  BY <1>2, <1>3, <1>6, <1>7 DEF off, other

\* A buffer of zeros with a message at its start holds that message.
LEMMA MessageInZeros ==
    ASSUME NEW text \in Seq(Cell), Len(text) \in 1..2, \A k \in 1..Len(text) : text[k] # Nul
    PROVE  /\ ReadInto(Zeros(CBuf), text) \in Seq(Cell)
           /\ Len(ReadInto(Zeros(CBuf), text)) = CBuf
           /\ Text(ReadInto(Zeros(CBuf), text)) = text
           /\ ReadInto(Zeros(CBuf), text)[1] = text[1]
           /\ Text(text) = text
<1> DEFINE buf == ReadInto(Zeros(CBuf), text)
<1>1. CBuf \in Nat /\ CBuf > 3
  BY SessionAssumption
<1>2. Zeros(CBuf) \in Seq(Cell) /\ Len(Zeros(CBuf)) = CBuf /\ \A k \in 1..CBuf : Zeros(CBuf)[k] = Nul
  BY <1>1, ZerosType
<1>3. Len(text) <= Len(Zeros(CBuf))
  BY <1>1, <1>2
<1>4. /\ buf \in Seq(Cell) /\ Len(buf) = Len(Zeros(CBuf))
      /\ \A k \in 1..Len(text) : buf[k] = text[k]
      /\ \A k \in (Len(text) + 1)..Len(Zeros(CBuf)) : buf[k] = Zeros(CBuf)[k]
  BY <1>2, <1>3, ReadIntoCells
<1> HIDE DEF buf
<1>5. /\ Len(text) <= Len(buf)
      /\ Len(text) < Len(buf) => buf[Len(text) + 1] = Nul
      /\ \A k \in 1..Len(text) : buf[k] = text[k] /\ text[k] # Nul
  BY <1>1, <1>2, <1>4
<1>6. Text(buf) = text
  BY <1>4, <1>5, TextIs
<1>7. Text(text) = text
  BY TextIs
<1> QED
  BY <1>1, <1>2, <1>4, <1>6, <1>7 DEF buf

\* What a read of daemon_handler's does.
LEMMA ClientReads ==
    ASSUME IInv, NEW c \in Clients, ClientRead(c), Tearing = FALSE, InTurn
    PROVE  \E n \in Chunks(down[c], CBuf) :
             /\ received'[c] = SubSeq(down[c], 1, n)
             /\ down'[c] = SubSeq(down[c], n + 1, Len(down[c]))
             /\ buffer'[c] = ReadInto(buffer[c], received'[c])
             /\ greeted[c] => greeted'[c]
             /\ client' \in {client, [client EXCEPT ![c] = "crashed"]}
             /\ \/ /\ ~StartsMessage(buffer'[c])
                   /\ client' = client /\ results'[c] = results[c]
                \/ /\ StartsMessage(buffer'[c])
                   /\ Parses(buffer'[c]) => client' = client
                   /\ Parses(buffer'[c]) /\ Text(buffer'[c]) = Helo => greeted'[c]
                   /\ Parses(buffer'[c]) =>
                        results'[c] = IF buffer'[c][1][1] = "result"
                                      THEN results[c] + 1 ELSE results[c]
                   /\ ~Parses(buffer'[c]) => results'[c] = results[c]
<1>1. TypeOK
  BY DEF IInv
<1>2. PICK n \in Chunks(down[c], CBuf) :
         /\ received' = [received EXCEPT ![c] = SubSeq(down[c], 1, n)]
         /\ down' = [down EXCEPT ![c] = SubSeq(@, n + 1, Len(@))]
  BY DEF ClientRead
<1>3. /\ received'[c] = SubSeq(down[c], 1, n)
      /\ down'[c] = SubSeq(down[c], n + 1, Len(down[c]))
  BY <1>1, <1>2 DEF TypeOK
<1>4. buffer'[c] = ReadInto(buffer[c], received'[c])
  BY <1>1 DEF TypeOK, ClientRead
<1>5. greeted[c] => greeted'[c]
  <2>1. \/ greeted' = greeted
        \/ greeted' = [greeted EXCEPT ![c] = @ \/ Text(buffer'[c]) = Message("helo", 0)]
    BY DEF ClientRead
  <2> QED
    BY <1>1, <2>1 DEF TypeOK
<1>6. CASE ~StartsMessage(buffer'[c])
  <2>1. client' = client /\ results' = results
    BY <1>6 DEF ClientRead
  <2> QED
    BY <1>2, <1>3, <1>4, <1>5, <1>6, <2>1
<1>7. CASE StartsMessage(buffer'[c])
  <2>1. CASE ~Parses(buffer'[c])
    <3>1. client' \in {client, [client EXCEPT ![c] = "crashed"]} /\ results' = results
      BY <1>7, <2>1 DEF ClientRead
    <3> QED
      BY <1>2, <1>3, <1>4, <1>5, <1>7, <2>1, <3>1
  <2>2. CASE Parses(buffer'[c])
    <3>1. /\ greeted' = [greeted EXCEPT ![c] = @ \/ Text(buffer'[c]) = Message("helo", 0)]
          /\ results' = [results EXCEPT ![c] =
                            IF buffer'[c][1][1] = "result" THEN @ + 1 ELSE @]
          /\ client' = client
      BY <1>7, <2>2 DEF ClientRead
    <3>2. Text(buffer'[c]) = Helo => greeted'[c]
      BY <1>1, <3>1 DEF TypeOK, Helo
    <3>3. results'[c] = IF buffer'[c][1][1] = "result" THEN results[c] + 1 ELSE results[c]
      BY <1>1, <3>1 DEF TypeOK
    <3> QED
      BY <1>2, <1>3, <1>4, <1>5, <1>7, <2>2, <3>1, <3>2, <3>3
  <2> QED
    BY <2>1, <2>2
<1> QED
  BY <1>6, <1>7

\* The daemon's HELO is read as one, and greets the client.
LEMMA ReadGreeting ==
    ASSUME IInv, NEW c \in Clients, ClientRead(c), Tearing = FALSE, InTurn, Greeting(c)
    PROVE  /\ Quiet(c)' /\ client' = client /\ results'[c] = results[c]
           /\ Len(buffer'[c]) = CBuf /\ Text(buffer'[c]) = Text(received'[c])
<1>1. PICK n \in Chunks(down[c], CBuf) :
         /\ received'[c] = SubSeq(down[c], 1, n)
         /\ down'[c] = SubSeq(down[c], n + 1, Len(down[c]))
         /\ buffer'[c] = ReadInto(buffer[c], received'[c])
         /\ \/ ~StartsMessage(buffer'[c])
            \/ /\ StartsMessage(buffer'[c])
               /\ Parses(buffer'[c]) => client' = client
               /\ Parses(buffer'[c]) /\ Text(buffer'[c]) = Helo => greeted'[c]
               /\ Parses(buffer'[c]) =>
                    results'[c] = IF buffer'[c][1][1] = "result"
                                  THEN results[c] + 1 ELSE results[c]
  BY ClientReads
<1>2. CBuf \in Nat /\ CBuf > 3 /\ 0 \in 0..Lines
  BY SessionAssumption
<1>3. /\ Helo \in Seq(Cell) /\ Len(Helo) = 2
      /\ \A k \in 1..2 : Helo[k] = <<"helo", 0, k>> /\ Helo[k] # Nul
      /\ Helo \in Messages
  BY ShortMessages
<1>4. down[c] = Helo /\ buffer[c] = Zeros(CBuf) /\ up[c] = <<>>
  BY DEF Greeting
<1>5. n = Len(Helo)
  <2>1. n \in Chunks(Helo, CBuf) /\ Len(Helo) <= CBuf
    BY <1>2, <1>3, <1>4
  <2> QED
    BY <1>2, <1>3, <2>1, WholeChunk
<1>6. received'[c] = Helo /\ down'[c] = <<>>
  BY <1>1, <1>3, <1>4, <1>5, AllRead
<1>7. buffer'[c] = ReadInto(Zeros(CBuf), Helo)
  BY <1>1, <1>4, <1>6
<1>8. /\ Len(buffer'[c]) = CBuf /\ Text(buffer'[c]) = Helo
      /\ buffer'[c][1] = Helo[1] /\ Text(Helo) = Helo
  BY <1>3, <1>7, MessageInZeros
<1>9. StartsMessage(buffer'[c]) /\ Parses(buffer'[c])
  BY <1>3, <1>8 DEF StartsMessage, Parses
<1>10. client' = client /\ greeted'[c] /\ results'[c] = results[c]
  <2>1. buffer'[c][1][1] # "result"
    BY <1>3, <1>8
  <2> QED
    BY <1>1, <1>8, <1>9, <2>1
<1>11. up'[c] = <<>>
  BY <1>4 DEF ClientRead
<1> QED
  BY <1>6, <1>8, <1>10, <1>11 DEF Quiet

\* Each buffer an answer is read to holds the line it answers, or zeros, or the
\* result.
LEMMA ReadAnswer ==
    ASSUME IInv, NEW c \in Clients, ClientRead(c), Tearing = FALSE, InTurn, DBuf > CBuf,
           NEW read \in 0..DBuf, read = 0 \/ read >= CBuf, Answering(c, read)
    PROVE  /\ Exchange(c)'
           /\ \/ client' = client
              \/ /\ client' = [client EXCEPT ![c] = "crashed"]
                 /\ WroteLast(c, {"malformed"})
           /\ Len(buffer'[c]) = CBuf /\ Text(buffer'[c]) = Text(received'[c])
           /\ read = DBuf => results'[c] = results[c] + 1
<1>1. PICK n \in Chunks(down[c], CBuf) :
         /\ received'[c] = SubSeq(down[c], 1, n)
         /\ down'[c] = SubSeq(down[c], n + 1, Len(down[c]))
         /\ buffer'[c] = ReadInto(buffer[c], received'[c])
         /\ greeted[c] => greeted'[c]
         /\ client' \in {client, [client EXCEPT ![c] = "crashed"]}
         /\ \/ /\ ~StartsMessage(buffer'[c])
               /\ client' = client /\ results'[c] = results[c]
            \/ /\ StartsMessage(buffer'[c])
               /\ Parses(buffer'[c]) => client' = client
               /\ Parses(buffer'[c]) =>
                    results'[c] = IF buffer'[c][1][1] = "result"
                                  THEN results[c] + 1 ELSE results[c]
               /\ ~Parses(buffer'[c]) => results'[c] = results[c]
  BY ClientReads
<1>2. CBuf \in Nat /\ CBuf > 3 /\ DBuf \in Nat
  BY SessionAssumption
<1>3. /\ up'[c] = <<>> /\ greeted'[c] /\ typed' = typed /\ results[c] # typed[c]
      /\ sent' = sent
  BY <1>1 DEF Answering, ClientRead
<1>4. typed[c] \in 0..Lines
  BY DEF IInv, TypeOK
<1>5. /\ buffer[c] \in Seq(Cell) /\ Len(buffer[c]) = CBuf
  BY DEF IInv, TypeOK, InTurn
<1>6. PICK kind \in Answerable :
         WroteLast(c, {kind}) /\ down[c] = SubSeq(Answer(kind, typed[c]), read + 1, DBuf + 1)
  BY DEF Answering
<1>7. kind \in LineKinds
  BY DEF Answerable, LineKinds
<1> DEFINE answer == Answer(kind, typed[c])
           chunk == SubSeq(down[c], 1, n)
<1>8. /\ answer \in Seq(Cell) /\ Len(answer) = DBuf + 1
      /\ answer[1] = <<kind, typed[c], 1>> /\ answer[2] = <<kind, typed[c], 2>>
      /\ \A k \in 3..DBuf : answer[k] = Nul
      /\ answer[DBuf + 1] = <<"result", 0, 1>>
  BY <1>4, <1>7, AnswerCells
<1>9. down[c] = SubSeq(answer, read + 1, Len(answer))
  BY <1>6, <1>8
<1>10. answer = Answer(kind, typed'[c])
  BY <1>3
<1>11. WroteLast(c, {kind})'
  BY <1>3, <1>6 DEF WroteLast
<1> HIDE DEF answer
<1>12. down[c] \in Seq(Cell) /\ Len(down[c]) = DBuf + 1 - read
  <2>1. read \in Nat /\ read <= DBuf
    BY <1>2
  <2>2. /\ SubSeq(answer, read + 1, Len(answer)) \in Seq(Cell)
        /\ Len(SubSeq(answer, read + 1, Len(answer))) = Len(answer) - read
    BY <1>2, <1>8, <2>1
  <2>3. Len(answer) - read = DBuf + 1 - read
    BY <1>2, <1>8, <2>1
  <2> QED
    BY <1>9, <2>2, <2>3
<1>13. n \in 1..(Len(answer) - read) /\ n <= CBuf
       /\ (n = CBuf \/ (n < CBuf /\ read + n = DBuf + 1))
  <2>1. /\ n \in Nat /\ n >= 1
        /\ Len(down[c]) <= CBuf => n = Len(down[c])
        /\ Len(down[c]) >= CBuf => n = CBuf
    BY <1>2, <1>12, WholeChunk
  <2> QED
    BY <1>2, <1>8, <1>12, <2>1
<1>14. /\ chunk \in Seq(Cell) /\ Len(chunk) = n
       /\ \A k \in 1..n : chunk[k] = answer[read + k]
       /\ down'[c] = SubSeq(answer, (read + n) + 1, Len(answer))
       /\ read + n = DBuf + 1 => down'[c] = <<>>
  <2>1. read \in Nat /\ read < Len(answer)
    BY <1>2, <1>8
  <2> DEFINE end == down[c]
  <2>2. /\ SubSeq(end, 1, n) \in Seq(Cell)
        /\ Len(SubSeq(end, 1, n)) = n
        /\ \A k \in 1..n : SubSeq(end, 1, n)[k] = answer[read + k]
        /\ SubSeq(end, n + 1, Len(end)) = SubSeq(answer, (read + n) + 1, Len(answer))
        /\ read + n = Len(answer) => SubSeq(end, n + 1, Len(end)) = <<>>
    <3>1. end = SubSeq(answer, read + 1, Len(answer))
      BY <1>9
    <3>2. answer \in Seq(Cell) /\ end \in Seq(Cell)
      BY <1>8, <1>12
    <3>3. n \in Nat /\ 1 <= n /\ n <= Len(answer) - read
      BY <1>8, <1>13
    <3> HIDE DEF end
    <3> QED
      BY <2>1, <3>1, <3>2, <3>3, ChunkOfEnd
  <2> QED
    BY <1>1, <1>8, <2>2
<1>15. buffer'[c] = ReadInto(buffer[c], chunk) /\ received'[c] = chunk
  BY <1>1
<1> HIDE DEF chunk
<1>16. /\ ReadInto(buffer[c], chunk) \in Seq(Cell)
       /\ Len(ReadInto(buffer[c], chunk)) = CBuf
       /\ \A k \in 1..n : ReadInto(buffer[c], chunk)[k] = chunk[k]
       /\ n = CBuf => ReadInto(buffer[c], chunk) = chunk
  <2>1. Len(chunk) <= Len(buffer[c])
    BY <1>5, <1>13, <1>14
  <2>2. /\ ReadInto(buffer[c], chunk) \in Seq(Cell)
        /\ Len(ReadInto(buffer[c], chunk)) = Len(buffer[c])
        /\ \A k \in 1..Len(chunk) : ReadInto(buffer[c], chunk)[k] = chunk[k]
    BY <1>5, <1>14, <2>1, ReadIntoCells
  <2>3. n = CBuf => ReadInto(buffer[c], chunk) = chunk
    BY <1>5, <1>14, <2>2
  <2> QED
    BY <1>5, <1>14, <2>2, <2>3
<1> DEFINE buf == ReadInto(buffer[c], chunk)
<1> HIDE DEF buf
<1>17. /\ buffer'[c] = buf /\ received'[c] = chunk
       /\ buf \in Seq(Cell) /\ Len(buf) = CBuf
       /\ \A k \in 1..n : buf[k] = chunk[k]
       /\ n = CBuf => buf = chunk
  BY <1>15, <1>16 DEF buf
\* The first buffer holds the line.
<1>18. CASE read = 0
  <2> DEFINE line == Message(kind, typed[c])
  <2>1. n = CBuf /\ buf = chunk
    BY <1>2, <1>13, <1>17, <1>18
  <2>2. /\ line \in Seq(Cell) /\ Len(line) = 2
        /\ \A k \in 1..2 : line[k] = <<kind, typed[c], k>> /\ line[k] # Nul
        /\ line \in Messages
    BY <1>4, <1>7, LineCells
  <2> HIDE DEF line
  <2>3. buf[1] = <<kind, typed[c], 1>> /\ buf[2] = <<kind, typed[c], 2>> /\ buf[3] = Nul
    <3>1. 1 \in 1..n /\ 2 \in 1..n /\ 3 \in 1..n /\ 3 \in 3..DBuf
      BY <1>2, <2>1
    <3>2. chunk[1] = answer[1] /\ chunk[2] = answer[2] /\ chunk[3] = answer[3]
      BY <1>14, <1>18, <3>1
    <3> QED
      BY <1>8, <2>1, <3>1, <3>2
  <2>4. Text(buf) = line
    <3>1. /\ Len(line) <= Len(buf)
          /\ Len(line) < Len(buf) => buf[Len(line) + 1] = Nul
      BY <1>2, <1>17, <2>2, <2>3
    <3>2. \A k \in 1..Len(line) : buf[k] = line[k] /\ line[k] # Nul
      <4>1. ASSUME NEW k \in 1..2
            PROVE  buf[k] = line[k] /\ line[k] # Nul
        <5>1. k = 1 \/ k = 2
          OBVIOUS
        <5> QED
          BY <2>2, <2>3, <5>1, Zenon
      <4> QED
        BY <2>2, <4>1
    <3> QED
      BY <1>17, <2>2, <3>1, <3>2, TextIs
  <2>5. StartsMessage(buf) /\ buf[1][1] = kind /\ kind # "result"
    <3>1. buf[1] # Nul
      BY <2>2, <2>3
    <3> QED
      BY <2>3, <3>1 DEF StartsMessage, Answerable
  <2>6. results'[c] = results[c]
    BY <1>1, <1>17, <2>5
  <2>7. \/ client' = client
        \/ client' = [client EXCEPT ![c] = "crashed"] /\ WroteLast(c, {"malformed"})
    <3>1. CASE kind = "command"
      <4>1. Parses(buf)
        BY <2>2, <2>4, <2>5, <3>1 DEF Parses
      <4> QED
        BY <1>1, <1>17, <2>5, <4>1
    <3>2. CASE kind = "malformed"
      BY <1>1, <1>6, <3>2
    <3> QED
      BY <3>1, <3>2 DEF Answerable
  <2>8. Answering(c, CBuf)'
    <3>1. down'[c] = SubSeq(Answer(kind, typed'[c]), CBuf + 1, DBuf + 1)
      <4>1. (read + n) + 1 = CBuf + 1
        BY <1>2, <1>18, <2>1
      <4>2. down'[c] = SubSeq(answer, CBuf + 1, Len(answer))
        BY <1>14, <4>1
      <4> QED
        BY <1>8, <1>10, <4>2
    <3>2. results'[c] # typed'[c] /\ ~ (CBuf > CBuf)
      BY <1>2, <1>3, <2>6
    <3> QED
      BY <1>3, <1>11, <3>1, <3>2 DEF Answering
  <2>9. CBuf \in 0..DBuf /\ read # DBuf
    BY <1>2, <1>18
  <2> QED
    BY <1>2, <1>17, <2>1, <2>8, <2>9, <2>7 DEF Exchange
\* The next ones begin with a zero.
<1>19. CASE read >= CBuf /\ read < DBuf
  <2>1. buf[1] = Nul /\ chunk[1] = Nul
    <3>1. 1 \in 1..n /\ read + 1 \in 3..DBuf
      BY <1>2, <1>13, <1>19
    <3> QED
      BY <1>8, <1>14, <1>17, <3>1
  <2>2. Text(buf) = <<>> /\ Text(chunk) = <<>>
    <3>1. Len(buf) >= 1 /\ Len(chunk) >= 1
      BY <1>2, <1>13, <1>14, <1>17
    <3> QED
      BY <1>14, <1>17, <2>1, <3>1, TextEmpty
  <2>3. ~StartsMessage(buf)
    BY <2>1 DEF StartsMessage
  <2>4. client' = client /\ results'[c] = results[c]
    BY <1>1, <1>17, <2>3
  <2>9. read # DBuf
    BY <1>2, <1>19
  <2>5. CASE read + n = DBuf + 1
    <3>1. Quiet(c)'
      BY <1>3, <1>14, <2>5 DEF Quiet
    <3> QED
      BY <1>17, <2>2, <2>4, <2>9, <3>1 DEF Exchange
  <2>6. CASE read + n # DBuf + 1
    <3>1. n = CBuf /\ read + n \in 0..DBuf /\ read + n >= CBuf
      BY <1>2, <1>8, <1>13, <2>6
    <3>2. buf = Zeros(CBuf)
      <4>1. \A k \in 1..CBuf : read + k \in 3..DBuf
        BY <1>2, <1>19, <3>1
      <4>2. \A k \in 1..CBuf : buf[k] = Nul
        BY <1>8, <1>14, <1>17, <3>1, <4>1
      <4>3. Zeros(CBuf) \in Seq(Cell) /\ Len(Zeros(CBuf)) = CBuf /\ \A k \in 1..CBuf : Zeros(CBuf)[k] = Nul
        BY <1>2, ZerosType
      <4> QED
        BY <1>17, <4>2, <4>3
    <3>3. Answering(c, read + n)'
      <4>1. down'[c] = SubSeq(Answer(kind, typed'[c]), (read + n) + 1, DBuf + 1)
        BY <1>8, <1>10, <1>14
      <4>2. results'[c] # typed'[c] /\ buffer'[c] = Zeros(CBuf)
        BY <1>3, <1>17, <2>4, <3>2
      <4> QED
        BY <1>3, <1>11, <4>1, <4>2 DEF Answering
    <3> QED
      BY <1>17, <2>2, <2>4, <2>9, <3>1, <3>3 DEF Exchange
  <2> QED
    BY <2>5, <2>6
\* A result on its own is read to a buffer of zeros.
<1>20. CASE read = DBuf
  <2>1. n = 1 /\ down'[c] = <<>>
    <3>1. n \in 1..1
      BY <1>2, <1>8, <1>13, <1>20
    <3>2. read + n = DBuf + 1
      BY <1>2, <1>20, <3>1
    <3> QED
      BY <1>14, <3>1, <3>2
  <2>2. /\ Message("result", 0) \in Seq(Cell) /\ Len(Message("result", 0)) = 1
        /\ Message("result", 0)[1] = <<"result", 0, 1>>
        /\ Message("result", 0) \in Messages
    BY ShortMessages
  <2>3. chunk = Message("result", 0)
    <3>1. 1 \in 1..n /\ read + 1 = DBuf + 1
      BY <1>20, <2>1
    <3>2. chunk[1] = <<"result", 0, 1>>
      BY <1>8, <1>14, <3>1
    <3>3. ASSUME NEW s \in Seq(Cell), NEW t \in Seq(Cell), Len(s) = 1, Len(t) = 1, s[1] = t[1]
          PROVE  s = t
      BY <3>3
    <3> QED
      BY <1>14, <2>1, <2>2, <3>2, <3>3
  <2>4. buffer[c] = Zeros(CBuf)
    BY <1>2, <1>20 DEF Answering
  <2>5. <<"result", 0, 1>> # Nul
    BY DEF Nul
  <2>6. /\ Text(buf) = Message("result", 0) /\ buf[1] = <<"result", 0, 1>>
        /\ Text(chunk) = Message("result", 0)
    <3>1. Len(chunk) \in 1..2 /\ \A k \in 1..Len(chunk) : chunk[k] # Nul
      <4>1. Len(chunk) = 1 /\ chunk[1] # Nul
        BY <2>2, <2>3, <2>5
      <4> HIDE DEF chunk
      <4> QED
        BY <4>1
    <3>2. buf = ReadInto(Zeros(CBuf), chunk)
      BY <2>4 DEF buf
    <3> QED
      BY <1>14, <2>2, <2>3, <3>1, <3>2, MessageInZeros
  <2>7. StartsMessage(buf) /\ Parses(buf)
    BY <2>2, <2>5, <2>6 DEF StartsMessage, Parses
  <2>8. client' = client /\ results'[c] = results[c] + 1
    BY <1>1, <1>17, <2>6, <2>7
  <2>9. Quiet(c)'
    BY <1>3, <2>1 DEF Quiet
  <2> QED
    BY <1>17, <2>6, <2>8, <2>9 DEF Exchange
<1> QED
  BY <1>2, <1>18, <1>19, <1>20

\* Where nothing is to be read, nothing is read.
LEMMA NothingRead ==
    ASSUME Tearing = FALSE, NEW size \in Nat, NEW n \in Chunks(<<>>, size)
    PROVE  FALSE
<1>1. <<>> \in Seq(Cell)
  OBVIOUS
<1> QED
  BY <1>1, WholeChunk

LEMMA ZerosStartNothing ==
    /\ Zeros(CBuf) \in Seq(Cell) /\ Len(Zeros(CBuf)) = CBuf
    /\ ~StartsMessage(Zeros(CBuf))
BY SessionAssumption, ZerosType DEF StartsMessage

\* A client whose variables do not change stays where it is in its exchange.
LEMMA Untouched ==
    ASSUME NEW c \in Clients,
           up'[c] = up[c], down'[c] = down[c], buffer'[c] = buffer[c],
           received'[c] = received[c] \/ received'[c] = <<>>,
           greeted[c] <=> greeted'[c], typed'[c] = typed[c], results'[c] = results[c],
           sent'[c] = sent[c]
    PROVE  /\ Fresh(c) => Fresh(c)'
           /\ Exchange(c) => Exchange(c)'
           /\ \A kinds : Stuck(c, kinds) => Stuck(c, kinds)'
<1>1. Fresh(c) => Fresh(c)'
  BY DEF Fresh
<1>2. /\ Greeting(c) => Greeting(c)'
      /\ Quiet(c) => Quiet(c)'
      /\ Asking(c) => Asking(c)'
      /\ \A read \in 0..DBuf : Answering(c, read) => Answering(c, read)'
  BY DEF Greeting, Quiet, Asking, Answering, WroteLast
<1>3. Exchange(c) => Exchange(c)'
  BY <1>2 DEF Exchange
<1>4. \A kinds : Stuck(c, kinds) => Stuck(c, kinds)'
  BY DEF Stuck, Quiet, WroteLast
<1> QED
  BY <1>1, <1>3, <1>4

\* Nothing but the client's place changes.
LEMMA PlaceInv ==
    ASSUME IInv, TurnsInv, NEW c \in Clients,
           NEW place \in {"greet", "refused", "gone"},
           client' = [client EXCEPT ![c] = place],
           place \in {"greet", "refused"} => client[c] = "off" /\ conn # c,
           UNCHANGED <<daemon, conn, up, down, buffer, received, greeted, typed, sent, results>>
    PROVE  TurnsInv'
<1>1. \A d \in Clients : d # c => client'[d] = client[d]
  OBVIOUS
<1>2. client'[c] = place
  BY DEF IInv, TypeOK
<1>3. OnlyMalformedCrashes'
  BY <1>1, <1>2 DEF TurnsInv, OnlyMalformedCrashes, WroteLast
<1>4. TextIsReceived'
  BY DEF TurnsInv, TextIsReceived
<1>5. InTurn'
  <2>1. \A d \in Clients :
           /\ Fresh(d) => Fresh(d)'
           /\ Exchange(d) => Exchange(d)'
           /\ Stuck(d, {"malformed"}) => Stuck(d, {"malformed"})'
    BY Untouched
  <2>2. (\A d \in Clients : d # conn => Fresh(d))'
    BY <2>1 DEF TurnsInv, InTurn
  <2>3. ASSUME NEW d \in Clients, client'[d] \in {"off", "greet", "refused"}
        PROVE  up'[d] = <<>>
    BY <1>1, <1>2, <2>3 DEF TurnsInv, InTurn
  <2>4. (\A d \in Clients : Len(buffer[d]) = CBuf)'
    BY DEF TurnsInv, InTurn
  <2>5. conn \in Clients /\ client[conn] \notin {"off", "refused"} =>
           client'[conn] \notin {"off", "refused"}
    BY <1>1, <1>2
  <2>6. conn \in Clients /\ client[conn] \notin {"off", "greet", "refused"} =>
           client'[conn] \notin {"off", "greet", "refused"}
    BY <1>1, <1>2
  <2>7. daemon # "accept" => conn \in Clients
    BY DEF IInv, Connected
  <2>8. (daemon = "accept" => conn = None)'
    BY DEF TurnsInv, InTurn
  <2>9. (daemon = "handshake" => Fresh(conn) /\ client[conn] \notin {"off", "refused"})'
    BY <2>1, <2>5, <2>7 DEF TurnsInv, InTurn
  <2>10. (daemon = "greet" => Fresh(conn) /\ up[conn] = <<>>)'
    BY <2>1, <2>7 DEF TurnsInv, InTurn
  <2>11. (daemon \in {"serve", "done"} => Exchange(conn))'
    BY <2>1, <2>7 DEF TurnsInv, InTurn
  <2>12. (daemon \in {"greet", "serve", "done", "crashed"} =>
              client[conn] \notin {"off", "greet", "refused"})'
    BY <2>6, <2>7 DEF TurnsInv, InTurn
  <2>13. (daemon = "done" => client[conn] \in {"gone", "crashed"})'
    <3>1. CASE daemon = "done"
      <4>1. conn \in Clients /\ client[conn] \in {"gone", "crashed"}
        BY <2>7, <3>1 DEF TurnsInv, InTurn
      <4> QED
        BY <1>1, <1>2, <4>1
    <3> QED
      BY <3>1
  <2>14. (daemon = "crashed" => Stuck(conn, {"malformed"}))'
    BY <2>1, <2>7 DEF TurnsInv, InTurn
  <2> QED
    BY <2>2, <2>3, <2>4, <2>8, <2>9, <2>10, <2>11, <2>12, <2>13, <2>14 DEF InTurn
<1> QED
  BY <1>3, <1>4, <1>5 DEF TurnsInv

\* Only the exchange of the connected client moves on.
LEMMA ExchangeInv ==
    ASSUME IInv, TurnsInv, daemon = "serve", conn' = conn,
           daemon' = "serve" \/ (daemon' = "crashed" /\ Stuck(conn, {"malformed"})'),
           \/ client' = client
           \/ client' = [client EXCEPT ![conn] = "crashed"] /\ WroteLast(conn, {"malformed"})',
           \A d \in Clients : d # conn =>
              /\ up'[d] = up[d] /\ down'[d] = down[d] /\ buffer'[d] = buffer[d]
              /\ received'[d] = received[d] /\ (greeted[d] <=> greeted'[d])
              /\ typed'[d] = typed[d] /\ results'[d] = results[d] /\ sent'[d] = sent[d],
           WroteLast(conn, {"malformed"}) /\ client[conn] = "crashed"
              => WroteLast(conn, {"malformed"})',
           Exchange(conn)', Len(buffer'[conn]) = CBuf,
           received'[conn] # <<>> => Text(buffer'[conn]) = Text(received'[conn])
    PROVE  TurnsInv'
<1>1. conn \in Clients
  BY DEF IInv, Connected
<1>2. \A d \in Clients : d # conn => Fresh(d)'
  <2>1. \A d \in Clients : d # conn => Fresh(d) /\ (Fresh(d) => Fresh(d)')
    BY Untouched DEF TurnsInv, InTurn
  <2> QED
    BY <2>1
<1>3. client[conn] \notin {"off", "greet", "refused"}
  BY DEF TurnsInv, InTurn
<1>4. /\ \A d \in Clients : d # conn => client'[d] = client[d]
      /\ client'[conn] # client[conn] => client'[conn] = "crashed"
      /\ client'[conn] # client[conn] => WroteLast(conn, {"malformed"})'
  BY <1>1 DEF IInv, TypeOK
<1>5. \A d \in Clients : client'[d] \in {"off", "greet", "refused"} => up'[d] = <<>>
  BY <1>3, <1>4 DEF TurnsInv, InTurn
<1>6. \A d \in Clients : Len(buffer'[d]) = CBuf
  BY DEF TurnsInv, InTurn
<1>7. InTurn'
  <2>1. client'[conn] \notin {"off", "greet", "refused"}
    BY <1>3, <1>4
  <2> QED
    BY <1>1, <1>2, <1>5, <1>6, <2>1 DEF InTurn
<1>8. OnlyMalformedCrashes'
  <2>1. (daemon = "crashed" => WroteLast(conn, {"malformed"}))'
    BY DEF Stuck
  <2>2. ASSUME NEW d \in Clients, d # conn, client'[d] = "crashed"
        PROVE  WroteLast(d, {"malformed"})'
    <3>1. WroteLast(d, {"malformed"}) /\ sent'[d] = sent[d]
      BY <1>4, <2>2 DEF TurnsInv, OnlyMalformedCrashes
    <3> QED
      BY <3>1 DEF WroteLast
  <2>3. client'[conn] = "crashed" => WroteLast(conn, {"malformed"})'
    BY <1>1, <1>4 DEF TurnsInv, OnlyMalformedCrashes
  <2> QED
    BY <2>1, <2>2, <2>3 DEF OnlyMalformedCrashes
<1>9. TextIsReceived'
  BY DEF TurnsInv, TextIsReceived
<1> QED
  BY <1>7, <1>8, <1>9 DEF TurnsInv

\* Where pgd is when a client has been greeted, or has something to read.
LEMMA Serving ==
    ASSUME IInv, TurnsInv, NEW c \in Clients, greeted[c] \/ down[c] # <<>>
    PROVE  /\ c = conn /\ Exchange(c)
           /\ daemon \in {"serve", "done"} \/ (daemon = "crashed" /\ Stuck(c, {"malformed"}))
<1>1. ~Fresh(c)
  BY DEF Fresh
<1>2. c = conn
  BY <1>1 DEF TurnsInv, InTurn
<1>3. daemon \notin {"accept", "handshake", "greet"}
  BY <1>1, <1>2, SessionAssumption DEF TurnsInv, InTurn
<1>4. daemon = "crashed" => Stuck(c, {"malformed"}) /\ Exchange(c)
  BY <1>2 DEF TurnsInv, InTurn, Stuck, Exchange
<1> QED
  BY <1>2, <1>3, <1>4 DEF IInv, TypeOK, TurnsInv, InTurn

\* A line typed is that of the next exchange.
LEMMA LineAsks ==
    ASSUME IInv, TurnsInv, Waits, NEW c \in Clients, TypeLine(c)
    PROVE  /\ c = conn /\ daemon = "serve" /\ Quiet(c) /\ Asking(c)'
           /\ results[c] = typed[c] /\ typed[c] < Lines
           /\ typed' = [typed EXCEPT ![c] = @ + 1]
           /\ UNCHANGED <<daemonVars, client, received, buffer, greeted, results, down>>
           /\ \A d \in Clients : d # c =>
                 up'[d] = up[d] /\ typed'[d] = typed[d] /\ sent'[d] = sent[d]
<1> USE DEF daemonVars
<1>1. TypeOK
  BY DEF IInv
<1>2. /\ greeted[c] /\ results[c] = typed[c]
      /\ typed' = [typed EXCEPT ![c] = @ + 1]
      /\ typed[c] < Lines
      /\ client[c] \in {"greet", "open"}
      /\ \E kind \in LineKinds : ClientWrite(c, Message(kind, typed'[c]))
      /\ UNCHANGED <<daemonVars, client, received, buffer, greeted, results, down>>
  BY DEF TypeLine, Waits, CreateCommand
<1>3. c = conn /\ daemon = "serve" /\ Exchange(c)
  <2>1. /\ c = conn /\ Exchange(c)
        /\ daemon \in {"serve", "done"} \/ (daemon = "crashed" /\ Stuck(c, {"malformed"}))
    BY <1>2, Serving
  <2>2. daemon # "crashed"
    BY <1>2, <2>1 DEF Stuck
  <2> QED
    BY <1>2, <2>1, <2>2 DEF TurnsInv, InTurn
<1>4. Quiet(c)
  BY <1>2, <1>3 DEF Exchange, Greeting, Asking, Answering
<1>5. typed'[c] = typed[c] + 1 /\ typed[c] \in Nat /\ typed'[c] \in 0..Lines
  <2>1. Lines \in Nat /\ typed \in [Clients -> 0..Lines]
    BY <1>1, SessionAssumption DEF TypeOK
  <2>2. typed[c] \in 0..Lines /\ typed[c] < Lines /\ typed'[c] = typed[c] + 1
    BY <1>2, <2>1
  <2> QED
    BY <2>1, <2>2
<1>6. PICK kind \in LineKinds : ClientWrite(c, Message(kind, typed'[c]))
  BY <1>2
<1>7. up'[c] = Message(kind, typed'[c]) /\ WroteLast(c, {kind})'
  <2> DEFINE line == Message(kind, typed'[c])
             before == sent[c]
  <2>1. /\ line \in Seq(Cell) /\ Len(line) = 2
        /\ \A k \in 1..2 : line[k] = <<kind, typed'[c], k>>
    BY <1>5, LineCells
  <2>2. /\ up'[c] = <<>> \o line
        /\ sent'[c] = before \o line /\ before \in Seq(Cell)
    BY <1>1, <1>4, <1>6 DEF ClientWrite, Quiet, TypeOK
  <2> HIDE DEF line, before
  <2>3. <<>> \o line = line
    BY <2>1
  <2>4. /\ Len(before \o line) = Len(before) + 2
        /\ (before \o line)[Len(before) + 2] = line[2]
    BY <2>1, <2>2, Joined, SMTT(20)
  <2>5. sent'[c] # <<>> /\ sent'[c][Len(sent'[c])] = <<kind, typed'[c], 2>>
    <3>1. Len(before) \in Nat /\ 2 \in 1..2
      BY <2>2
    <3>2. Len(sent'[c]) = Len(before) + 2 /\ sent'[c][Len(before) + 2] = <<kind, typed'[c], 2>>
      BY <2>1, <2>2, <2>4, <3>1
    <3>3. sent'[c] # <<>>
      BY <3>1, <3>2
    <3> QED
      BY <3>2, <3>3
  <2> QED
    BY <2>2, <2>3, <2>5 DEF WroteLast, line
<1>8. results'[c] # typed'[c]
  BY <1>2, <1>5
<1>9. Asking(c)'
  BY <1>2, <1>4, <1>7, <1>8 DEF Asking, Quiet
<1>10. \A d \in Clients : d # c => up'[d] = up[d] /\ typed'[d] = typed[d] /\ sent'[d] = sent[d]
  BY <1>1, <1>2, <1>6 DEF ClientWrite, TypeOK
<1> QED
  BY <1>2, <1>3, <1>4, <1>9, <1>10

LEMMA ClientInTurn ==
    ASSUME IInv, TurnsInv, Waits, NEW c \in Clients,
           Connect(c) \/ TypeLine(c) \/ Quit(c) \/ SendHelo(c) \/ ClientEof(c)
    PROVE  TurnsInv'
<1> USE DEF daemonVars
<1>1. TypeOK
  BY DEF IInv
<1>2. CASE Connect(c)
  <2>1. PICK place \in {"refused", "greet"} : client' = [client EXCEPT ![c] = place]
    BY <1>2 DEF Connect
  <2>2. /\ client[c] = "off"
        /\ UNCHANGED <<daemonVars, typed, sent, received, buffer, greeted, results, up, down>>
    BY <1>2 DEF Connect
  <2>3. conn # c
    <3>1. CASE conn = c
      <4>1. daemon \notin {"accept", "handshake", "greet", "serve", "done", "crashed"}
        BY <2>2, <3>1, SessionAssumption DEF TurnsInv, InTurn
      <4> QED
        BY <1>1, <4>1 DEF TypeOK
    <3> QED
      BY <3>1
  <2> QED
    BY <2>1, <2>2, <2>3, PlaceInv
<1>3. CASE Quit(c)
  BY <1>3, PlaceInv DEF Quit
<1>4. CASE TypeLine(c)
  <2>1. /\ c = conn /\ daemon = "serve" /\ Asking(c)'
        /\ UNCHANGED <<daemonVars, client, received, buffer, greeted, results, down>>
        /\ \A d \in Clients : d # c =>
              up'[d] = up[d] /\ typed'[d] = typed[d] /\ sent'[d] = sent[d]
    BY <1>4, LineAsks
  <2>2. client[conn] # "crashed"
    BY <1>4, <2>1 DEF TypeLine
  <2>3. /\ Len(buffer'[conn]) = CBuf
        /\ received'[conn] # <<>> => Text(buffer'[conn]) = Text(received'[conn])
    BY <2>1 DEF TurnsInv, InTurn, TextIsReceived
  <2>4. Exchange(conn)'
    BY <2>1 DEF Exchange
  <2> QED
    BY <2>1, <2>3, <2>4, <2>2, ExchangeInv
<1>5. CASE SendHelo(c)
  <2>1. /\ client[c] = "greet"
        /\ client' = [client EXCEPT ![c] = "open"]
        /\ ClientWrite(c, Helo)
        /\ UNCHANGED <<daemonVars, typed, received, buffer, greeted, results, down>>
    BY <1>5 DEF SendHelo, Helo
  <2>2. up[c] = <<>>
    BY <2>1 DEF TurnsInv, InTurn
  <2>3. c # conn \/ daemon = "handshake"
    <3>1. CASE c = conn
      <4>1. daemon \notin {"accept", "greet", "serve", "done", "crashed"}
        BY <2>1, <3>1, SessionAssumption DEF TurnsInv, InTurn
      <4> QED
        BY <1>1, <4>1 DEF TypeOK
    <3> QED
      BY <3>1
  <2>4. Fresh(c)
    BY <2>3 DEF TurnsInv, InTurn
  <2>5. up'[c] = Helo /\ \A d \in Clients : d # c => up'[d] = up[d] /\ sent'[d] = sent[d]
    <3>1. up'[c] = <<>> \o Helo
      BY <1>1, <2>1, <2>2 DEF ClientWrite, TypeOK
    <3>2. Helo \in Seq(Cell)
      BY ShortMessages
    <3>3. <<>> \o Helo = Helo
      BY <3>2
    <3> QED
      BY <1>1, <2>1, <3>1, <3>3 DEF ClientWrite, TypeOK
  <2>6. Fresh(c)'
    BY <2>1, <2>4, <2>5 DEF Fresh
  <2>7. \A d \in Clients : d # c =>
           /\ Fresh(d) => Fresh(d)'
           /\ Exchange(d) => Exchange(d)'
           /\ Stuck(d, {"malformed"}) => Stuck(d, {"malformed"})'
    BY <2>1, <2>5, Untouched
  <2>8. client'[c] = "open" /\ \A d \in Clients : d # c => client'[d] = client[d]
    BY <1>1, <2>1 DEF TypeOK
  <2>9. daemon # "accept" => conn \in Clients
    BY DEF IInv, Connected
  <2>10. InTurn'
    <3>1. (\A d \in Clients : d # conn => Fresh(d))'
      BY <2>1, <2>6, <2>7 DEF TurnsInv, InTurn
    <3>2. (\A d \in Clients : client[d] \in {"off", "greet", "refused"} => up[d] = <<>>)'
      BY <2>5, <2>8 DEF TurnsInv, InTurn
    <3>3. (\A d \in Clients : Len(buffer[d]) = CBuf)'
      BY <2>1 DEF TurnsInv, InTurn
    <3>4. (daemon = "accept" => conn = None)'
      BY <2>1 DEF TurnsInv, InTurn
    <3>5. (daemon = "handshake" => Fresh(conn) /\ client[conn] \notin {"off", "refused"})'
      BY <2>1, <2>6, <2>7, <2>8, <2>9 DEF TurnsInv, InTurn
    <3>6. CASE conn # c
      <4>1. (daemon = "greet" => Fresh(conn) /\ up[conn] = <<>>)'
        BY <2>1, <2>5, <2>7, <2>9, <3>6 DEF TurnsInv, InTurn
      <4>2. (daemon \in {"serve", "done"} => Exchange(conn))'
        BY <2>1, <2>7, <2>9, <3>6 DEF TurnsInv, InTurn
      <4>3. (daemon \in {"greet", "serve", "done", "crashed"} =>
                client[conn] \notin {"off", "greet", "refused"})'
        BY <2>1, <2>8, <2>9, <3>6 DEF TurnsInv, InTurn
      <4>4. (daemon = "done" => client[conn] \in {"gone", "crashed"})'
        BY <2>1, <2>8, <2>9, <3>6 DEF TurnsInv, InTurn
      <4>5. (daemon = "crashed" => Stuck(conn, {"malformed"}))'
        BY <2>1, <2>7, <2>9, <3>6 DEF TurnsInv, InTurn
      <4> QED
        BY <3>1, <3>2, <3>3, <3>4, <3>5, <4>1, <4>2, <4>3, <4>4, <4>5 DEF InTurn
    <3>7. CASE conn = c
      <4>1. daemon' = "handshake"
        BY <2>1, <2>3, <3>7
      <4> QED
        BY <3>1, <3>2, <3>3, <3>4, <3>5, <4>1 DEF InTurn
    <3> QED
      BY <3>6, <3>7
  <2>11. OnlyMalformedCrashes'
    <3>1. daemon = "crashed" => conn \in Clients /\ conn # c
      BY <2>3, <2>9
    <3> QED
      BY <2>1, <2>5, <2>8, <3>1 DEF TurnsInv, OnlyMalformedCrashes, WroteLast
  <2>12. TextIsReceived'
    BY <2>1 DEF TurnsInv, TextIsReceived
  <2> QED
    BY <2>10, <2>11, <2>12 DEF TurnsInv
<1>6. CASE ClientEof(c)
  <2>1. /\ client[c] = "open" /\ daemon \in {"done", "crashed"}
        /\ received' = [received EXCEPT ![c] = <<>>]
        /\ client' = client \/ client' = [client EXCEPT ![c] = "crashed"]
        /\ UNCHANGED <<daemonVars, typed, sent, buffer, greeted, results, up, down>>
    BY <1>6 DEF ClientEof
  <2>2. conn \in Clients
    BY <2>1 DEF IInv, Connected
  <2>3. ASSUME c # conn
        PROVE  client' = client
    <3>1. ~StartsMessage(buffer[c])
      BY <1>6, <2>3, ZerosStartNothing DEF TurnsInv, InTurn, Fresh
    <3> QED
      BY <1>6, <3>1 DEF ClientEof
  <2>4. ASSUME c = conn
        PROVE  daemon = "crashed" /\ WroteLast(c, {"malformed"})
    BY <2>1, <2>4 DEF TurnsInv, InTurn, OnlyMalformedCrashes
  <2>5. \A d \in Clients : received'[d] = received[d] \/ received'[d] = <<>>
    BY <1>1, <2>1 DEF TypeOK
  <2>6. \A d \in Clients :
           /\ Fresh(d) => Fresh(d)'
           /\ Exchange(d) => Exchange(d)'
           /\ Stuck(d, {"malformed"}) => Stuck(d, {"malformed"})'
    BY <2>1, <2>5, Untouched
  <2>7. \A d \in Clients :
           /\ client'[d] # client[d] => d = conn /\ client'[d] = "crashed"
           /\ client'[d] # client[d] => WroteLast(d, {"malformed"})
    BY <1>1, <2>1, <2>3, <2>4 DEF TypeOK
  <2>8. InTurn'
    <3>1. (\A d \in Clients : d # conn => Fresh(d))'
      BY <2>1, <2>6 DEF TurnsInv, InTurn
    <3>2. (daemon = "done" => Exchange(conn))' /\ (daemon = "crashed" => Stuck(conn, {"malformed"}))'
      BY <2>1, <2>2, <2>6 DEF TurnsInv, InTurn
    <3>3. client'[conn] \notin {"off", "greet", "refused"}
      BY <2>1, <2>2, <2>7 DEF TurnsInv, InTurn
    <3>4. (daemon = "done" => client[conn] \in {"gone", "crashed"})'
      BY <2>1, <2>2, <2>7 DEF TurnsInv, InTurn
    <3>5. /\ \A d \in Clients : client'[d] \in {"off", "greet", "refused"} => up'[d] = <<>>
          /\ \A d \in Clients : Len(buffer'[d]) = CBuf
      BY <2>1, <2>7 DEF TurnsInv, InTurn
    <3> QED
      BY <2>1, <3>1, <3>2, <3>3, <3>4, <3>5 DEF InTurn
  <2>9. OnlyMalformedCrashes'
    BY <2>1, <2>2, <2>7 DEF TurnsInv, OnlyMalformedCrashes, WroteLast
  <2>10. TextIsReceived'
    BY <2>1, <2>5 DEF TurnsInv, TextIsReceived
  <2> QED
    BY <2>8, <2>9, <2>10 DEF TurnsInv
<1> QED
  BY <1>2, <1>3, <1>4, <1>5, <1>6

LEMMA ClientReadInTurn ==
    ASSUME IInv, TurnsInv, Waits, NEW c \in Clients, ClientRead(c)
    PROVE  TurnsInv'
<1>1. TypeOK /\ InTurn /\ Tearing = FALSE /\ DBuf > CBuf
  BY DEF IInv, TurnsInv, Waits
<1>2. CBuf \in Nat /\ client[c] = "open"
  BY SessionAssumption DEF ClientRead
<1>3. down[c] # <<>>
  <2>1. PICK n \in Chunks(down[c], CBuf) : TRUE
    BY DEF ClientRead
  <2> QED
    BY <1>1, <1>2, <2>1, NothingRead
<1>4. c = conn /\ daemon = "serve" /\ Exchange(c)
  <2>1. /\ c = conn /\ Exchange(c)
        /\ daemon \in {"serve", "done"} \/ (daemon = "crashed" /\ Stuck(c, {"malformed"}))
    BY <1>3, Serving
  <2>2. daemon # "crashed"
    BY <1>3, <2>1 DEF Stuck, Quiet
  <2> QED
    BY <1>1, <1>2, <2>1, <2>2 DEF InTurn
<1>5. /\ Exchange(c)'
      /\ \/ client' = client
         \/ client' = [client EXCEPT ![c] = "crashed"] /\ WroteLast(c, {"malformed"})
      /\ Len(buffer'[c]) = CBuf /\ Text(buffer'[c]) = Text(received'[c])
  <2>1. CASE Greeting(c)
    <3>1. /\ Quiet(c)' /\ client' = client
          /\ Len(buffer'[c]) = CBuf /\ Text(buffer'[c]) = Text(received'[c])
      BY <1>1, <2>1, ReadGreeting
    <3> QED
      BY <3>1 DEF Exchange
  <2>2. ~Quiet(c) /\ ~Asking(c)
    BY <1>3 DEF Quiet, Asking
  <2>3. ASSUME NEW read \in 0..DBuf, read = 0 \/ read >= CBuf, Answering(c, read)
        PROVE  /\ Exchange(c)'
               /\ \/ client' = client
                  \/ client' = [client EXCEPT ![c] = "crashed"] /\ WroteLast(c, {"malformed"})
               /\ Len(buffer'[c]) = CBuf /\ Text(buffer'[c]) = Text(received'[c])
    BY <1>1, <2>3, ReadAnswer
  <2> QED
    BY <1>4, <2>1, <2>2, <2>3 DEF Exchange
<1>6. /\ UNCHANGED <<daemon, conn, up, typed, sent>>
      /\ \A d \in Clients : d # c =>
            /\ down'[d] = down[d] /\ buffer'[d] = buffer[d] /\ received'[d] = received[d]
            /\ (greeted[d] <=> greeted'[d]) /\ results'[d] = results[d]
  <2>1. \A d \in Clients : d # c =>
            down'[d] = down[d] /\ buffer'[d] = buffer[d] /\ received'[d] = received[d]
    BY <1>1 DEF ClientRead, TypeOK
  <2>2. \/ greeted' = greeted
        \/ greeted' = [greeted EXCEPT ![c] = @ \/ Text(buffer'[c]) = Message("helo", 0)]
    BY DEF ClientRead
  <2>3. \A d \in Clients : d # c => (greeted[d] <=> greeted'[d])
    BY <1>1, <2>2 DEF TypeOK
  <2>4. \/ results' = results
        \/ results' = [results EXCEPT ![c] = IF buffer'[c][1][1] = "result" THEN @ + 1 ELSE @]
    BY DEF ClientRead
  <2>5. \A d \in Clients : d # c => results'[d] = results[d]
    BY <1>1, <2>4 DEF TypeOK
  <2> QED
    BY <2>1, <2>3, <2>5 DEF ClientRead, daemonVars
<1>7. WroteLast(c, {"malformed"}) => WroteLast(c, {"malformed"})'
  BY <1>6 DEF WroteLast
<1> QED
  BY <1>4, <1>5, <1>6, <1>7, ExchangeInv

LEMMA AcceptInTurn ==
    ASSUME IInv, TurnsInv, NEW c \in Clients, Accept(c)
    PROVE  TurnsInv'
<1> USE DEF clientVars
<1>1. /\ conn = None /\ conn' = c /\ daemon' = "handshake"
      /\ client[c] \notin {"off", "refused"}
      /\ UNCHANGED <<clientVars, up, down>>
  BY DEF Accept, TurnsInv, InTurn
<1>2. \A d \in Clients : Fresh(d)'
  <2>1. \A d \in Clients : Fresh(d) => Fresh(d)'
    BY <1>1, Untouched
  <2>2. \A d \in Clients : Fresh(d)
    BY <1>1, SessionAssumption DEF TurnsInv, InTurn
  <2> QED
    BY <2>1, <2>2
<1>3. InTurn'
  BY <1>1, <1>2 DEF TurnsInv, InTurn
<1>4. OnlyMalformedCrashes' /\ TextIsReceived'
  BY <1>1 DEF TurnsInv, OnlyMalformedCrashes, WroteLast, TextIsReceived
<1> QED
  BY <1>3, <1>4 DEF TurnsInv

LEMMA HandshakeInTurn ==
    ASSUME IInv, TurnsInv, Waits, Handshake
    PROVE  TurnsInv'
<1> USE DEF clientVars
<1>1. /\ daemon = "handshake" /\ daemon' = "greet" /\ conn' = conn /\ conn \in Clients
      /\ UNCHANGED <<clientVars, down>>
  BY DEF Handshake, IInv, Connected
<1>2. TypeOK /\ DBuf \in Nat /\ DBuf > 3 /\ Tearing = FALSE
  BY SessionAssumption DEF IInv, Waits
<1>3. Fresh(conn) /\ client[conn] \notin {"off", "refused"}
  BY <1>1 DEF TurnsInv, InTurn
<1>4. /\ up' = [up EXCEPT ![conn] = <<>>]
      /\ client[conn] \notin {"off", "greet", "refused"}
  <2>1. CASE \E n \in Chunks(up[conn], DBuf) :
               /\ handshake' = SubSeq(up[conn], 1, n)
               /\ up' = [up EXCEPT ![conn] = SubSeq(@, n + 1, Len(@))]
    <3>1. PICK n \in Chunks(up[conn], DBuf) :
               up' = [up EXCEPT ![conn] = SubSeq(up[conn], n + 1, Len(up[conn]))]
      BY <2>1
    <3>2. up[conn] # <<>>
      BY <1>2, NothingRead
    <3>3. up[conn] = Helo /\ Helo \in Seq(Cell) /\ Len(Helo) = 2
      BY <1>2, <1>3, <3>2, ShortMessages DEF Fresh
    <3>4. n = Len(Helo)
      <4>1. n \in Chunks(Helo, DBuf) /\ Len(Helo) <= DBuf
        BY <1>2, <3>1, <3>3
      <4> QED
        BY <1>2, <3>3, <4>1, WholeChunk
    <3>5. SubSeq(up[conn], n + 1, Len(up[conn])) = <<>>
      BY <3>3, <3>4, AllRead
    <3>6. client[conn] \notin {"off", "greet", "refused"}
      BY <1>1, <3>2 DEF TurnsInv, InTurn
    <3> QED
      BY <3>1, <3>5, <3>6
  <2>2. CASE /\ up[conn] = <<>>
             /\ client[conn] \in {"gone", "crashed"}
             /\ UNCHANGED <<handshake, up>>
    <3>1. up' = [up EXCEPT ![conn] = <<>>]
      BY <1>1, <1>2, <2>2 DEF TypeOK
    <3> QED
      BY <2>2, <3>1
  <2> QED
    BY <2>1, <2>2 DEF Handshake
<1>5. up'[conn] = <<>> /\ \A d \in Clients : d # conn => up'[d] = up[d]
  BY <1>1, <1>2, <1>4 DEF TypeOK
<1>6. Fresh(conn)'
  BY <1>1, <1>3, <1>5 DEF Fresh
<1>7. \A d \in Clients : d # conn => Fresh(d)'
  <2>1. \A d \in Clients : d # conn => (Fresh(d) => Fresh(d)')
    BY <1>1, <1>5, Untouched
  <2> QED
    BY <2>1 DEF TurnsInv, InTurn
<1>8. /\ \A d \in Clients : client'[d] \in {"off", "greet", "refused"} => up'[d] = <<>>
      /\ \A d \in Clients : Len(buffer'[d]) = CBuf
  BY <1>1, <1>5 DEF TurnsInv, InTurn
<1>9. InTurn'
  BY <1>1, <1>4, <1>5, <1>6, <1>7, <1>8 DEF InTurn
<1>10. OnlyMalformedCrashes' /\ TextIsReceived'
  BY <1>1 DEF TurnsInv, OnlyMalformedCrashes, WroteLast, TextIsReceived
<1> QED
  BY <1>9, <1>10 DEF TurnsInv

LEMMA GreetInTurn ==
    ASSUME IInv, TurnsInv, SendHeloBack
    PROVE  TurnsInv'
<1> USE DEF clientVars
<1>1. /\ daemon = "greet" /\ daemon' = "serve" /\ conn' = conn /\ conn \in Clients
      /\ down' = [down EXCEPT ![conn] = @ \o Helo]
      /\ UNCHANGED <<clientVars, up>>
  BY DEF SendHeloBack, Helo, IInv, Connected
<1>2. Fresh(conn) /\ up[conn] = <<>> /\ client[conn] \notin {"off", "greet", "refused"}
  BY <1>1 DEF TurnsInv, InTurn
<1>3. down'[conn] = Helo /\ \A d \in Clients : d # conn => down'[d] = down[d]
  <2>1. Helo \in Seq(Cell)
    BY ShortMessages
  <2>2. <<>> \o Helo = Helo
    BY <2>1
  <2> QED
    BY <1>1, <1>2, <2>2 DEF Fresh, IInv, TypeOK
<1>4. Exchange(conn)'
  <2>1. Greeting(conn)'
    BY <1>1, <1>2, <1>3 DEF Fresh, Greeting
  <2> QED
    BY <2>1 DEF Exchange
<1>5. \A d \in Clients : d # conn => Fresh(d)'
  <2>1. \A d \in Clients : d # conn => (Fresh(d) => Fresh(d)')
    BY <1>1, <1>3, Untouched
  <2> QED
    BY <2>1 DEF TurnsInv, InTurn
<1>6. /\ \A d \in Clients : client'[d] \in {"off", "greet", "refused"} => up'[d] = <<>>
      /\ \A d \in Clients : Len(buffer'[d]) = CBuf
  BY <1>1 DEF TurnsInv, InTurn
<1>7. InTurn'
  BY <1>1, <1>2, <1>4, <1>5, <1>6 DEF InTurn
<1>8. OnlyMalformedCrashes' /\ TextIsReceived'
  BY <1>1 DEF TurnsInv, OnlyMalformedCrashes, WroteLast, TextIsReceived
<1> QED
  BY <1>7, <1>8 DEF TurnsInv

\* What pgd reads is the one line the client waits for.
LEMMA ServeAnswers ==
    ASSUME IInv, TurnsInv, Waits, Serve
    PROVE  /\ conn \in Clients /\ Asking(conn) /\ daemon = "serve"
           /\ \/ /\ Answering(conn, 0)' /\ daemon' = "serve"
                 /\ \E kind \in LineKinds : answered' = answered \o Message(kind, typed[conn])
              \/ /\ daemon' = "serve" /\ Stuck(conn, {"helo", "malformed"})'
                 /\ answered' = answered
              \/ /\ daemon' = "crashed" /\ Stuck(conn, {"malformed"})'
                 /\ answered' = answered
           /\ UNCHANGED <<conn, clientVars>>
           /\ \A d \in Clients : d # conn => up'[d] = up[d] /\ down'[d] = down[d]
<1> USE DEF clientVars
<1>1. /\ daemon = "serve" /\ conn \in Clients
      /\ UNCHANGED <<conn, clientVars>>
  BY DEF Serve, IInv, Connected
<1>2. TypeOK /\ DBuf \in Nat /\ DBuf > 4 /\ DBuf > CBuf /\ Tearing = FALSE
  BY SessionAssumption DEF IInv, Waits
<1>3. PICK n \in Chunks(up[conn], DBuf) :
          LET str == Request(SubSeq(up[conn], 1, n))
          IN /\ up' = [up EXCEPT ![conn] = SubSeq(@, n + 1, Len(@))]
             /\ \/ /\ ~StartsMessage(str)
                   /\ UNCHANGED <<daemon, down, answered>>
                \/ /\ StartsMessage(str)
                   /\ Parses(str)
                   /\ IF str[1][1] = "helo"
                      THEN UNCHANGED <<down, answered>>
                      ELSE ExecCommand(str)
                   /\ daemon' = daemon
                \/ /\ StartsMessage(str)
                   /\ ~Parses(str)
                   /\ \/ daemon' = "crashed" /\ UNCHANGED <<down, answered>>
                      \/ daemon' = daemon /\ UNCHANGED <<down, answered>>
                      \/ daemon' = daemon /\ ExecCommand(str)
  BY DEF Serve
<1>4. Asking(conn) /\ typed[conn] \in 0..Lines
  <2>1. up[conn] # <<>>
    BY <1>2, <1>3, NothingRead
  <2>2. Exchange(conn)
    BY <1>1 DEF TurnsInv, InTurn
  <2> QED
    BY <1>1, <1>2, <2>1, <2>2 DEF Exchange, Greeting, Quiet, Answering, TypeOK
<1>5. PICK kind \in LineKinds : WroteLast(conn, {kind}) /\ up[conn] = Message(kind, typed[conn])
  BY <1>4 DEF Asking
<1>6. down[conn] = <<>> /\ greeted[conn] /\ results[conn] # typed[conn]
  BY <1>4 DEF Asking
<1> DEFINE line == Message(kind, typed[conn])
<1>7. /\ line \in Seq(Cell) /\ Len(line) = 2 /\ line \in Messages
      /\ line[1] = <<kind, typed[conn], 1>> /\ line[1] # Nul
  BY <1>4, LineCells
<1>8. /\ Text(Request(line)) = line
      /\ Request(line)[1] = <<kind, typed[conn], 1>>
      /\ Answer(kind, typed[conn]) \in Seq(Cell) /\ Len(Answer(kind, typed[conn])) = DBuf + 1
  BY <1>2, <1>4, AnswerCells
<1>9. Answer(kind, typed[conn]) = Reply(0, Request(line)) /\ up[conn] = line
  BY <1>5 DEF Answer
<1> HIDE DEF line
<1>10. SubSeq(up[conn], 1, n) = line /\ SubSeq(up[conn], n + 1, Len(up[conn])) = <<>>
  <2>1. n \in Chunks(line, DBuf) /\ Len(line) <= DBuf
    BY <1>2, <1>3, <1>7, <1>9
  <2>2. n = Len(line)
    BY <1>2, <1>7, <2>1, WholeChunk
  <2> QED
    BY <1>7, <1>9, <2>2, AllRead
<1>11. /\ StartsMessage(Request(line)) /\ Request(line)[1][1] = kind
       /\ Parses(Request(line)) <=> kind # "malformed"
  BY <1>7, <1>8 DEF StartsMessage, Parses
<1>12. /\ up' = [up EXCEPT ![conn] = <<>>]
       /\ \/ /\ daemon' = "serve" /\ kind # "helo" /\ ExecCommand(Request(line))
          \/ /\ daemon' = "serve" /\ kind # "command" /\ UNCHANGED <<down, answered>>
          \/ /\ daemon' = "crashed" /\ kind = "malformed" /\ UNCHANGED <<down, answered>>
  <2>1. LET str == Request(line)
        IN  \/ /\ kind # "malformed"
               /\ IF kind = "helo" THEN UNCHANGED <<down, answered>> ELSE ExecCommand(str)
               /\ daemon' = daemon
            \/ /\ kind = "malformed"
               /\ \/ daemon' = "crashed" /\ UNCHANGED <<down, answered>>
                  \/ daemon' = daemon /\ UNCHANGED <<down, answered>>
                  \/ daemon' = daemon /\ ExecCommand(str)
    BY <1>3, <1>10, <1>11, Zenon
  <2>2. up' = [up EXCEPT ![conn] = <<>>]
    BY <1>3, <1>10
  <2> QED
    BY <1>1, <2>1, <2>2
<1>13. up'[conn] = <<>> /\ \A d \in Clients : d # conn => up'[d] = up[d]
  BY <1>1, <1>2, <1>12 DEF TypeOK
<1>14. WroteLast(conn, {kind})'
  BY <1>1, <1>5 DEF WroteLast
<1>15. ASSUME kind # "helo", ExecCommand(Request(line))
       PROVE  /\ Answering(conn, 0)' /\ answered' = answered \o line
              /\ \A d \in Clients : d # conn => down'[d] = down[d]
  <2> DEFINE answer == Answer(kind, typed[conn])
  <2>1. answer \in Seq(Cell) /\ Len(answer) = DBuf + 1
    BY <1>8
  <2>2. /\ down'[conn] = <<>> \o answer /\ answered' = answered \o line
        /\ \A d \in Clients : d # conn => down'[d] = down[d]
    BY <1>1, <1>2, <1>6, <1>8, <1>9, <1>15 DEF TypeOK, ExecCommand
  <2> HIDE DEF answer
  <2>3. <<>> \o answer = answer /\ SubSeq(answer, 1, Len(answer)) = answer /\ 0 + 1 = 1
    BY <2>1
  <2>4. down'[conn] = SubSeq(Answer(kind, typed'[conn]), 0 + 1, DBuf + 1)
    BY <1>1, <2>1, <2>2, <2>3 DEF answer
  <2>5. ~ (0 > CBuf) /\ kind \in Answerable
    BY <1>15, SessionAssumption DEF LineKinds, Answerable
  <2> QED
    BY <1>1, <1>6, <1>13, <1>14, <2>2, <2>4, <2>5 DEF Answering
<1>16. ASSUME down' = down
       PROVE  Stuck(conn, {kind})'
  BY <1>1, <1>6, <1>13, <1>14, <1>16 DEF Stuck, Quiet
<1>17. CASE daemon' = "serve" /\ kind # "helo" /\ ExecCommand(Request(line))
  BY <1>1, <1>4, <1>13, <1>15, <1>17 DEF line
<1>18. CASE daemon' = "serve" /\ kind # "command" /\ UNCHANGED <<down, answered>>
  <2>1. Stuck(conn, {kind})' /\ kind \in {"helo", "malformed"}
    BY <1>16, <1>18 DEF LineKinds
  <2>2. Stuck(conn, {"helo", "malformed"})'
    BY <2>1 DEF Stuck, WroteLast
  <2> QED
    BY <1>1, <1>4, <1>13, <1>18, <2>2
<1>19. CASE daemon' = "crashed" /\ kind = "malformed" /\ UNCHANGED <<down, answered>>
  BY <1>1, <1>4, <1>13, <1>16, <1>19
<1> QED
  BY <1>12, <1>17, <1>18, <1>19

LEMMA ServeInTurn ==
    ASSUME IInv, TurnsInv, Waits, Serve
    PROVE  TurnsInv'
<1> USE DEF clientVars
<1>1. /\ conn \in Clients /\ daemon = "serve"
      /\ \/ daemon' = "serve" /\ (Answering(conn, 0)' \/ Quiet(conn)')
         \/ daemon' = "crashed" /\ Quiet(conn)' /\ Stuck(conn, {"malformed"})'
      /\ UNCHANGED <<conn, clientVars>>
      /\ \A d \in Clients : d # conn => up'[d] = up[d] /\ down'[d] = down[d]
  BY ServeAnswers DEF Stuck
<1>2. Exchange(conn)'
  <2>1. 0 \in 0..DBuf
    BY SessionAssumption
  <2> QED
    BY <1>1, <2>1 DEF Exchange
<1>3. /\ Len(buffer'[conn]) = CBuf
      /\ received'[conn] # <<>> => Text(buffer'[conn]) = Text(received'[conn])
  BY <1>1 DEF TurnsInv, InTurn, TextIsReceived
<1>4. WroteLast(conn, {"malformed"}) => WroteLast(conn, {"malformed"})'
  BY <1>1 DEF WroteLast
<1> QED
  BY <1>1, <1>2, <1>3, <1>4, ExchangeInv

LEMMA ServeEofInTurn ==
    ASSUME IInv, TurnsInv, ServeEof
    PROVE  TurnsInv'
<1> USE DEF clientVars
<1>1. /\ daemon = "serve" /\ daemon' = "done" /\ conn' = conn /\ conn \in Clients
      /\ client[conn] \in {"gone", "crashed"}
      /\ UNCHANGED <<clientVars, up, down>>
  BY DEF ServeEof, IInv, Connected
<1>2. \A d \in Clients : (Fresh(d) => Fresh(d)') /\ (Exchange(d) => Exchange(d)')
  BY <1>1, Untouched
<1>3. Exchange(conn)' /\ \A d \in Clients : d # conn => Fresh(d)'
  BY <1>1, <1>2 DEF TurnsInv, InTurn
<1>4. /\ \A d \in Clients : client'[d] \in {"off", "greet", "refused"} => up'[d] = <<>>
      /\ \A d \in Clients : Len(buffer'[d]) = CBuf
  BY <1>1 DEF TurnsInv, InTurn
<1>5. InTurn'
  BY <1>1, <1>3, <1>4 DEF InTurn
<1>6. OnlyMalformedCrashes' /\ TextIsReceived'
  BY <1>1 DEF TurnsInv, OnlyMalformedCrashes, WroteLast, TextIsReceived
<1> QED
  BY <1>5, <1>6 DEF TurnsInv

LEMMA InitInTurn == Init => TurnsInv
<1> SUFFICES ASSUME Init PROVE TurnsInv
  OBVIOUS
<1>1. \A c \in Clients : Fresh(c)
  BY DEF Init, Fresh
<1>2. \A c \in Clients : Len(buffer[c]) = CBuf
  BY ZerosStartNothing DEF Init
<1>3. InTurn
  BY <1>1, <1>2 DEF Init, InTurn
<1>4. OnlyMalformedCrashes /\ TextIsReceived
  BY DEF Init, OnlyMalformedCrashes, TextIsReceived
<1> QED
  BY <1>3, <1>4 DEF TurnsInv

LEMMA NextInTurn ==
    ASSUME IInv, TurnsInv, Waits, [Next]_vars
    PROVE  TurnsInv'
<1>1. ASSUME NEW c \in Clients, Connect(c) \/ TypeLine(c) \/ Quit(c) \/ ClientStep(c)
      PROVE  TurnsInv'
  BY <1>1, ClientInTurn, ClientReadInTurn DEF ClientStep
<1>2. CASE DaemonStep
  BY <1>2, AcceptInTurn, HandshakeInTurn, GreetInTurn, ServeInTurn, ServeEofInTurn DEF DaemonStep
<1>3. CASE UNCHANGED vars
  <2>1. InTurn'
    BY <1>3 DEF TurnsInv, InTurn, Fresh, Exchange, Greeting, Quiet, Asking, Answering, Stuck,
                WroteLast, vars, daemonVars, clientVars
  <2>2. OnlyMalformedCrashes' /\ TextIsReceived'
    BY <1>3 DEF TurnsInv, OnlyMalformedCrashes, WroteLast, TextIsReceived, vars, daemonVars,
                clientVars
  <2> QED
    BY <2>1, <2>2 DEF TurnsInv
<1> QED
  BY <1>1, <1>2, <1>3 DEF Next

\* When the user waits for each answer before typing on, a program goes down
\* over nothing but a last line that is not XML, whatever the sizes of the
\* buffers, if only the daemon's is larger than the client's (4096 and 1024
\* bytes) and TCP delivers each write whole: no read returns less or more than
\* one message (client_handler, daemon_handler).
THEOREM WaitingCrashesOnMalformed ==
    ASSUME LockStep = TRUE, Tearing = FALSE, DBuf > CBuf
    PROVE  Spec => []OnlyMalformedCrashes
<1>1. Waits
  BY DEF Waits
<1>2. TurnsInv => OnlyMalformedCrashes
  BY DEF TurnsInv
<1>3. IInv /\ TurnsInv /\ [Next]_vars => TurnsInv'
  BY <1>1, NextInTurn
<1> QED
  BY <1>2, <1>3, InitInv, NextInv, InitInTurn, PTL DEF Spec

\* And what daemon_handler parses is then what it has just received, though it
\* never clears its buffer: each answer's own zeros do (daemon_handler).
THEOREM WaitingReadsItsOwn ==
    ASSUME LockStep = TRUE, Tearing = FALSE, DBuf > CBuf
    PROVE  Spec => []TextIsReceived
<1>1. Waits
  BY DEF Waits
<1>2. TurnsInv => TextIsReceived
  BY DEF TurnsInv
<1>3. IInv /\ TurnsInv /\ [Next]_vars => TurnsInv'
  BY <1>1, NextInTurn
<1> QED
  BY <1>2, <1>3, InitInv, NextInv, InitInTurn, PTL DEF Spec

----------------------------------------------------------------------------
(* A session is a series of calls.                                         *)

\* Of the lines typed all are answered but the last, and that too when its
\* result is shown or under way; and all results are shown but the last.
Counted ==
    conn \in Clients =>
        /\ results[conn] \in {typed[conn] - 1, typed[conn]}
        /\ Len(answered) \in {2 * (typed[conn] - 1), 2 * typed[conn]}
        /\ results[conn] = typed[conn] => Len(answered) = 2 * typed[conn]
        /\ greeted[conn] /\ down[conn] # <<>> => Len(answered) = 2 * typed[conn]
        /\ greeted[conn] /\ up[conn] # <<>> => Len(answered) = 2 * (typed[conn] - 1)

\* What a step is to a session in turn: the connection's start ...
Opens(c) ==
    /\ conn = None /\ conn' = c /\ Fresh(c)' /\ answered = <<>>
    /\ UNCHANGED <<answered, typed, results>>

\* ... the next line typed ...
Asks(c) ==
    /\ conn = c /\ Quiet(c) /\ Asking(c)'
    /\ results[c] = typed[c] /\ typed[c] < Lines
    /\ typed' = [typed EXCEPT ![c] = @ + 1]
    /\ UNCHANGED <<conn, answered, results>>

\* ... its execution ...
Answers(c) ==
    /\ conn = c /\ Asking(c) /\ Answering(c, 0)'
    /\ \E kind \in LineKinds : answered' = answered \o Message(kind, typed[c])
    /\ UNCHANGED <<conn, typed, results>>

\* ... or its being left without an answer ...
Leaves(c) ==
    /\ conn = c /\ Asking(c) /\ Stuck(c, {"helo", "malformed"})'
    /\ UNCHANGED <<conn, answered, typed, results>>

\* ... a read of the client's ...
Reads(c) ==
    /\ conn = c /\ up[c] = <<>> /\ up'[c] = <<>> /\ down[c] # <<>>
    /\ \/ Greeting(c) /\ Quiet(c)' /\ results' = results
       \/ /\ \E read \in 0..DBuf : (read = 0 \/ read >= CBuf) /\ Answering(c, read)
          /\ results' \in {results, [results EXCEPT ![c] = @ + 1]}
    /\ UNCHANGED <<conn, answered, typed, sent>>

\* ... or nothing.
Rests ==
    /\ UNCHANGED <<conn, answered, typed, greeted, results>>
    /\ \A c \in Clients : greeted[c] =>
          up'[c] = up[c] /\ down'[c] = down[c] /\ sent'[c] = sent[c]

LEMMA ClientStepIs ==
    ASSUME IInv, TurnsInv, Waits, NEW c \in Clients,
           Connect(c) \/ TypeLine(c) \/ Quit(c) \/ SendHelo(c) \/ ClientEof(c)
    PROVE  Rests \/ Asks(c)
<1> USE DEF daemonVars
<1>1. TypeOK
  BY DEF IInv
<1>2. CASE Connect(c) \/ Quit(c) \/ ClientEof(c)
  BY <1>2 DEF Connect, Quit, ClientEof, Rests
<1>3. CASE SendHelo(c)
  <2>1. /\ client[c] = "greet" /\ ClientWrite(c, Helo)
        /\ UNCHANGED <<daemonVars, typed, received, buffer, greeted, results, down>>
    BY <1>3 DEF SendHelo, Helo
  <2>2. ~greeted[c]
    <3>1. CASE greeted[c]
      <4>1. c = conn /\ daemon \in {"serve", "done", "crashed"}
        BY <3>1, Serving
      <4> QED
        BY <2>1, <4>1 DEF TurnsInv, InTurn
    <3> QED
      BY <3>1
  <2>3. \A d \in Clients : d # c => up'[d] = up[d] /\ sent'[d] = sent[d]
    BY <1>1, <2>1 DEF ClientWrite, TypeOK
  <2> QED
    BY <2>1, <2>2, <2>3 DEF Rests
<1>4. CASE TypeLine(c)
  BY <1>4, LineAsks DEF Asks
<1> QED
  BY <1>2, <1>3, <1>4

LEMMA ReadIs ==
    ASSUME IInv, TurnsInv, Waits, NEW c \in Clients, ClientRead(c)
    PROVE  /\ Reads(c)
           /\ Len(down[c]) <= CBuf => down'[c] = <<>>
           /\ Len(down[c]) > CBuf => Len(down'[c]) = Len(down[c]) - CBuf
           /\ \A read \in 0..DBuf : (read = 0 \/ read >= CBuf) /\ Answering(c, read)
                 => Exchange(c)' /\ (read = DBuf => results'[c] = results[c] + 1)
<1>1. TypeOK /\ InTurn /\ Tearing = FALSE /\ DBuf > CBuf
  BY DEF IInv, TurnsInv, Waits
<1>2. down[c] # <<>>
  <2>1. PICK n \in Chunks(down[c], CBuf) : TRUE
    BY DEF ClientRead
  <2>2. CBuf \in Nat
    BY SessionAssumption
  <2> QED
    BY <1>1, <2>1, <2>2, NothingRead
<1>3. c = conn /\ Exchange(c)
  BY <1>2, Serving
<1>4. UNCHANGED <<conn, answered, typed, sent>> /\ up' = up
  BY DEF ClientRead, daemonVars
<1>5. results' \in {results, [results EXCEPT ![c] = @ + 1]}
  <2>1. \/ results' = results
        \/ results' = [results EXCEPT ![c] = IF buffer'[c][1][1] = "result" THEN @ + 1 ELSE @]
    BY DEF ClientRead
  <2>2. results = [results EXCEPT ![c] = @]
    BY <1>1 DEF TypeOK
  <2> QED
    BY <2>1, <2>2
<1>6. ASSUME NEW read \in 0..DBuf, read = 0 \/ read >= CBuf, Answering(c, read)
      PROVE  Exchange(c)' /\ (read = DBuf => results'[c] = results[c] + 1)
  BY <1>1, <1>6, ReadAnswer
<1>7. Reads(c)
  <2>1. CASE Greeting(c)
    <3>1. Quiet(c)' /\ results'[c] = results[c]
      BY <1>1, <2>1, ReadGreeting
    <3>2. results' = results
      BY <1>1, <1>5, <3>1 DEF TypeOK
    <3>3. up[c] = <<>> /\ up'[c] = <<>>
      BY <1>4, <2>1 DEF Greeting
    <3> QED
      BY <1>2, <1>3, <1>4, <2>1, <3>1, <3>2, <3>3 DEF Reads
  <2>2. ~Quiet(c) /\ ~Asking(c)
    BY <1>2 DEF Quiet, Asking
  <2>3. CASE \E read \in 0..DBuf : (read = 0 \/ read >= CBuf) /\ Answering(c, read)
    <3>1. up[c] = <<>> /\ up'[c] = <<>>
      BY <1>4, <2>3 DEF Answering
    <3> QED
      BY <1>2, <1>3, <1>4, <1>5, <2>3, <3>1 DEF Reads
  <2> QED
    BY <1>3, <2>1, <2>2, <2>3 DEF Exchange
<1>8. /\ Len(down[c]) <= CBuf => down'[c] = <<>>
      /\ Len(down[c]) > CBuf => Len(down'[c]) = Len(down[c]) - CBuf
  <2>1. PICK n \in Chunks(down[c], CBuf) : down' = [down EXCEPT ![c] = SubSeq(@, n + 1, Len(@))]
    BY DEF ClientRead
  <2>2. CBuf \in Nat /\ down[c] \in Seq(Cell) /\ down'[c] = SubSeq(down[c], n + 1, Len(down[c]))
    BY <1>1, <2>1, SessionAssumption DEF TypeOK
  <2>3. /\ Len(down[c]) <= CBuf => n = Len(down[c])
        /\ Len(down[c]) >= CBuf => n = CBuf
        /\ n \in Nat /\ n >= 1
    BY <1>1, <2>1, <2>2, WholeChunk
  <2>4. CASE Len(down[c]) <= CBuf
    BY <2>2, <2>3, <2>4, AllRead
  <2>5. CASE Len(down[c]) > CBuf
    <3>1. n \in 1..Len(down[c])
      BY <2>2, <2>3, <2>5
    <3>2. Len(SubSeq(down[c], n + 1, Len(down[c]))) = Len(down[c]) - n
      BY <2>2, <3>1, Cut
    <3>3. n = CBuf
      BY <2>2, <2>3, <2>5
    <3>4. Len(down'[c]) = Len(down[c]) - n
      BY <2>2, <3>2
    <3> QED
      BY <2>2, <2>5, <3>3, <3>4
  <2> QED
    BY <2>2, <2>4, <2>5
<1> QED
  BY <1>6, <1>7, <1>8

LEMMA AcceptIs ==
    ASSUME IInv, TurnsInv, NEW c \in Clients, Accept(c)
    PROVE  Opens(c)
<1> USE DEF clientVars
<1>1. /\ daemon = "accept" /\ conn' = c
      /\ UNCHANGED <<answered, clientVars, up, down>>
  BY DEF Accept
<1>2. conn = None /\ answered = <<>>
  BY <1>1 DEF TurnsInv, InTurn, IInv, Connected
<1>3. Fresh(c)
  BY <1>2, SessionAssumption DEF TurnsInv, InTurn
<1>4. Fresh(c)'
  BY <1>1, <1>3 DEF Fresh
<1> QED
  BY <1>1, <1>2, <1>4 DEF Opens

LEMMA HandshakeIs ==
    ASSUME IInv, TurnsInv, Handshake \/ SendHeloBack \/ ServeEof
    PROVE  Rests
<1> USE DEF clientVars
<1>1. UNCHANGED <<conn, answered, typed, sent, greeted, results>>
  BY DEF Handshake, SendHeloBack, ServeEof
<1>2. CASE ServeEof
  BY <1>1, <1>2 DEF ServeEof, Rests
<1>3. CASE Handshake \/ SendHeloBack
  <2>1. daemon \in {"handshake", "greet"} /\ conn \in Clients
    BY <1>3 DEF Handshake, SendHeloBack, IInv, Connected
  <2>2. ~greeted[conn]
    BY <2>1 DEF TurnsInv, InTurn, Fresh
  <2>3. /\ up \in [Clients -> Seq(Cell)] /\ down \in [Clients -> Seq(Cell)]
    BY DEF IInv, TypeOK
  <2>4. \A d \in Clients : d # conn => up'[d] = up[d] /\ down'[d] = down[d]
    <3>1. CASE Handshake
      <4>1. down' = down /\ (up' = up \/ \E rest : up' = [up EXCEPT ![conn] = rest])
        BY <3>1 DEF Handshake
      <4> QED
        BY <2>3, <4>1
    <3>2. CASE SendHeloBack
      BY <2>3, <3>2 DEF SendHeloBack
    <3> QED
      BY <1>3, <3>1, <3>2
  <2> QED
    BY <1>1, <2>2, <2>4 DEF Rests
<1> QED
  BY <1>2, <1>3

LEMMA ServeIs ==
    ASSUME IInv, TurnsInv, Waits, Serve
    PROVE  conn \in Clients /\ (Answers(conn) \/ Leaves(conn))
<1>1. /\ conn \in Clients /\ Asking(conn) /\ UNCHANGED <<conn, typed, results>>
      /\ \/ /\ Answering(conn, 0)'
            /\ \E kind \in LineKinds : answered' = answered \o Message(kind, typed[conn])
         \/ Stuck(conn, {"helo", "malformed"})' /\ answered' = answered
         \/ Stuck(conn, {"malformed"})' /\ answered' = answered
  BY ServeAnswers DEF clientVars
<1>2. Stuck(conn, {"malformed"})' => Stuck(conn, {"helo", "malformed"})'
  BY DEF Stuck, WroteLast
<1> QED
  BY <1>1, <1>2 DEF Answers, Leaves

\* A step is one of the calls' parts, or rests.
LEMMA StepIs ==
    ASSUME IInv, TurnsInv, Waits, [Next]_vars
    PROVE  \/ Rests
           \/ \E c \in Clients :
                 \/ Opens(c) \/ Asks(c) \/ Answers(c) \/ Leaves(c)
                 \/ ClientRead(c) /\ Reads(c)
<1>1. ASSUME NEW c \in Clients, Connect(c) \/ TypeLine(c) \/ Quit(c) \/ ClientStep(c)
      PROVE  Rests \/ Asks(c) \/ (ClientRead(c) /\ Reads(c))
  BY <1>1, ClientStepIs, ReadIs DEF ClientStep
<1>2. CASE DaemonStep
  BY <1>2, AcceptIs, HandshakeIs, ServeIs DEF DaemonStep
<1>3. CASE UNCHANGED vars
  BY <1>3 DEF Rests, vars, daemonVars, clientVars
<1> QED
  BY <1>1, <1>2, <1>3 DEF Next

LEMMA CountedInit == Init => Counted
BY SessionAssumption DEF Init, Counted

LEMMA CountedNext ==
    ASSUME IInv, TurnsInv, Waits, Counted, [Next]_vars
    PROVE  Counted'
<1>1. /\ typed \in [Clients -> 0..Lines] /\ results \in [Clients -> Nat]
      /\ answered \in Seq(Cell) /\ Lines \in Nat
  BY SessionAssumption DEF IInv, TypeOK
<1>2. CASE Rests
  BY <1>2 DEF Rests, Counted
<1>3. ASSUME NEW c \in Clients, Opens(c)
      PROVE  Counted'
  BY <1>3 DEF Opens, Fresh, Counted
<1>4. ASSUME NEW c \in Clients, Asks(c)
      PROVE  Counted'
  <2>1. /\ conn' = c /\ results'[c] = typed[c] /\ typed'[c] = typed[c] + 1
        /\ typed'[c] \in 0..Lines /\ answered' = answered
    BY <1>1, <1>4 DEF Asks
  <2>2. up'[c] # <<>> /\ greeted'[c]
    <3>1. PICK kind \in LineKinds : up'[c] = Message(kind, typed'[c])
      BY <1>4 DEF Asks, Asking
    <3> QED
      BY <1>4, <2>1, <3>1, LineCells DEF Asks, Asking
  <2>3. Len(answered) = 2 * typed[c] /\ down'[c] = <<>>
    BY <1>4 DEF Asks, Asking, Counted
  <2>4. /\ results'[c] = typed'[c] - 1 /\ results'[c] # typed'[c]
        /\ Len(answered') = 2 * (typed'[c] - 1)
    BY <1>1, <2>1, <2>3
  <2> QED
    BY <2>1, <2>2, <2>3, <2>4 DEF Counted
<1>5. ASSUME NEW c \in Clients, Answers(c)
      PROVE  Counted'
  <2>1. /\ conn' = c /\ conn = c /\ results' = results /\ typed' = typed
        /\ greeted[c] /\ up'[c] = <<>> /\ results[c] # typed[c]
    BY <1>5 DEF Answers, Asking, Answering
  <2>2. PICK kind \in LineKinds : answered' = answered \o Message(kind, typed[c])
    BY <1>5 DEF Answers
  <2>3. PICK asked \in LineKinds : up[c] = Message(asked, typed[c])
    BY <1>5 DEF Answers, Asking
  <2>4. Len(Message(kind, typed[c])) = 2 /\ Message(kind, typed[c]) \in Seq(Cell) /\ up[c] # <<>>
    BY <1>1, <2>3, LineCells
  <2>5. Len(answered) = 2 * (typed[c] - 1) /\ results[c] \in {typed[c] - 1, typed[c]}
    BY <2>1, <2>4 DEF Counted
  <2>6. Len(answered') = Len(answered) + 2
    <3> DEFINE line == Message(kind, typed[c])
    <3>1. line \in Seq(Cell) /\ Len(line) = 2 /\ answered' = answered \o line
      BY <2>2, <2>4
    <3> HIDE DEF line
    <3>2. Len(answered \o line) = Len(answered) + Len(line)
      BY <1>1, <3>1, Joined
    <3> QED
      BY <3>1, <3>2
  <2>7. Len(answered') = 2 * typed[c]
    BY <1>1, <2>5, <2>6
  <2> QED
    BY <2>1, <2>5, <2>7 DEF Counted
<1>6. ASSUME NEW c \in Clients, Leaves(c)
      PROVE  Counted'
  BY <1>6 DEF Leaves, Stuck, Quiet, Counted
<1>7. ASSUME NEW c \in Clients, Reads(c)
      PROVE  Counted'
  <2>1. /\ conn' = c /\ conn = c /\ typed' = typed /\ answered' = answered
        /\ up[c] = <<>> /\ up'[c] = <<>> /\ down[c] # <<>>
    BY <1>7 DEF Reads
  <2>2. CASE Greeting(c) /\ results' = results
    <3>1. typed[c] = 0 /\ results[c] = 0
      BY <2>2 DEF Greeting
    <3>2. Len(answered) = 2 * typed[c]
      BY <2>1, <3>1 DEF Counted
    <3> QED
      BY <2>1, <2>2, <3>1, <3>2 DEF Counted
  <2>3. CASE /\ \E read \in 0..DBuf : (read = 0 \/ read >= CBuf) /\ Answering(c, read)
             /\ results' \in {results, [results EXCEPT ![c] = @ + 1]}
    <3>1. greeted[c] /\ results[c] # typed[c]
      BY <2>3 DEF Answering
    <3>2. Len(answered) = 2 * typed[c] /\ results[c] = typed[c] - 1
      BY <2>1, <3>1 DEF Counted
    <3>3. results'[c] \in {typed[c] - 1, typed[c]}
      <4>1. results'[c] \in {results[c], results[c] + 1} /\ typed[c] \in Int
        BY <1>1, <2>3
      <4> QED
        BY <3>2, <4>1
    <3> QED
      BY <2>1, <3>2, <3>3 DEF Counted
  <2> QED
    BY <1>7, <2>2, <2>3 DEF Reads
<1> QED
  BY <1>2, <1>3, <1>4, <1>5, <1>6, <1>7, StepIs

\* What the calls' variables are after each part of one.
LEMMA AnswersAre ==
    ASSUME NEW n \in Nat, answered \in Seq(Cell), Len(answered) = 2 * n
    PROVE  AnsweredCommands \in Seq({cell[2] : cell \in Cell}) /\ Len(AnsweredCommands) = n
<1>1. Len(answered) \div 2 = n
  OBVIOUS
<1>2. AnsweredCommands = [k \in 1..n |-> answered[2 * k - 1][2]]
  BY <1>1 DEF AnsweredCommands
<1>3. \A k \in 1..n : answered[2 * k - 1] \in Cell
  OBVIOUS
<1> DEFINE S == {cell[2] : cell \in Cell}
           number == [k \in 1..n |-> answered[2 * k - 1][2]]
<1>4. number \in [1..n -> S]
  BY <1>3
<1> HIDE DEF S, number
<1>5. number \in Seq(S) /\ Len(number) = n
  BY <1>4
<1> QED
  BY <1>2, <1>5 DEF S, number

LEMMA SameElements ==
    ASSUME NEW S, NEW s \in Seq(S), NEW t \in Seq(S), Len(s) = Len(t),
           \A k \in 1..Len(s) : s[k] = t[k]
    PROVE  s = t
OBVIOUS

LEMMA AnsweredOneMore ==
    ASSUME NEW n \in Nat, answered \in Seq(Cell), Len(answered) = 2 * n,
           NEW kind \in LineKinds, NEW m \in 0..Lines,
           answered' = answered \o Message(kind, m)
    PROVE  AnsweredCommands' = Append(AnsweredCommands, m)
<1> DEFINE S == {cell[2] : cell \in Cell} \cup {m}
           one == [k \in 1..n |-> answered[2 * k - 1][2]]
           more == [k \in 1..(n + 1) |-> answered'[2 * k - 1][2]]
<1>1. /\ Message(kind, m) \in Seq(Cell) /\ Len(Message(kind, m)) = 2
      /\ Message(kind, m)[1][2] = m
  BY LineCells
<1>2. /\ answered' \in Seq(Cell) /\ Len(answered') = 2 * (n + 1)
      /\ \A k \in 1..(2 * n) : answered'[k] = answered[k]
      /\ answered'[2 * n + 1] = Message(kind, m)[1]
  <2> DEFINE line == Message(kind, m)
  <2>1. line \in Seq(Cell) /\ Len(line) = 2
    BY <1>1
  <2>2. answered' = answered \o line
    OBVIOUS
  <2> HIDE DEF line
  <2>3. /\ answered \o line \in Seq(Cell)
        /\ Len(answered \o line) = Len(answered) + Len(line)
        /\ \A k \in 1..Len(answered) : (answered \o line)[k] = answered[k]
        /\ \A k \in 1..Len(line) : (answered \o line)[Len(answered) + k] = line[k]
    BY <2>1, Joined
  <2>4. (answered \o line)[Len(answered) + 1] = line[1]
    BY <2>1, <2>3
  <2> QED
    BY <2>1, <2>2, <2>3, <2>4 DEF line
<1>3. AnsweredCommands = one
  <2>1. Len(answered) \div 2 = n
    OBVIOUS
  <2> QED
    BY <2>1 DEF AnsweredCommands
<1>4. AnsweredCommands' = more
  <2>1. Len(answered') \div 2 = n + 1
    BY <1>2
  <2> QED
    BY <2>1 DEF AnsweredCommands
<1>5. \A k \in 1..n : one[k] \in S /\ more[k] = one[k] /\ m \in S
  <2>1. \A k \in 1..n : 2 * k - 1 \in 1..(2 * n) /\ k \in 1..(n + 1)
    OBVIOUS
  <2>2. \A k \in 1..n : answered'[2 * k - 1] = answered[2 * k - 1] /\ answered[2 * k - 1] \in Cell
    <3>1. \A k \in 1..(2 * n) : answered'[k] = answered[k] /\ answered[k] \in Cell
      BY <1>2
    <3> QED
      BY <2>1, <3>1
  <2> QED
    BY <2>1, <2>2
<1>6. more[n + 1] = m
  <2>1. n + 1 \in 1..(n + 1) /\ 2 * (n + 1) - 1 = 2 * n + 1
    OBVIOUS
  <2>2. more[n + 1] = answered'[2 * n + 1][2]
    BY <2>1
  <2> QED
    BY <1>1, <1>2, <2>2
<1>7. one \in [1..n -> S] /\ more \in [1..(n + 1) -> S] /\ m \in S
  <2>1. \A k \in 1..(n + 1) : k \in 1..n \/ k = n + 1
    OBVIOUS
  <2>2. \A k \in 1..(n + 1) : more[k] \in S
    BY <1>5, <1>6, <2>1
  <2> QED
    BY <1>5, <2>2
<1> HIDE DEF one, more, S
<1>8. /\ one \in Seq(S) /\ Len(one) = n
      /\ more \in Seq(S) /\ Len(more) = n + 1
  BY <1>7
<1>9. /\ Append(one, m) \in Seq(S) /\ Len(Append(one, m)) = n + 1
      /\ \A k \in 1..n : Append(one, m)[k] = one[k]
      /\ Append(one, m)[n + 1] = m
  BY <1>7, <1>8
<1>10. \A k \in 1..(n + 1) : more[k] = Append(one, m)[k]
  <2>1. \A k \in 1..(n + 1) : k \in 1..n \/ k = n + 1
    OBVIOUS
  <2> QED
    BY <1>5, <1>6, <1>9, <2>1
<1>11. more = Append(one, m)
  BY <1>8, <1>9, <1>10, SameElements
<1> QED
  BY <1>3, <1>4, <1>11

LEMMA InitIsCall == Init => Calls!Init
<1> SUFFICES ASSUME Init PROVE Calls!Init
  OBVIOUS
<1>1. answered = <<>> /\ answered \in Seq(Cell) /\ Len(answered) = 2 * 0 /\ 0 \in Nat
  BY DEF Init
<1>2. AnsweredCommands \in Seq({cell[2] : cell \in Cell}) /\ Len(AnsweredCommands) = 0
  BY <1>1, AnswersAre
<1>3. AnsweredCommands = <<>>
  BY <1>2
<1> QED
  BY <1>3 DEF Init, Calls!Init

LEMMA StepIsCall ==
    ASSUME IInv, TurnsInv, Waits, Counted, [Next]_vars
    PROVE  [Calls!Next]_(Calls!vars)
<1>1. /\ typed \in [Clients -> 0..Lines] /\ results \in [Clients -> Nat]
      /\ answered \in Seq(Cell) /\ Lines \in Nat
  BY SessionAssumption DEF IInv, TypeOK
<1>2. CASE Rests
  BY <1>2 DEF Rests, Calls!vars, AnsweredCommands
<1>3. ASSUME NEW c \in Clients, Opens(c)
      PROVE  Calls!Open(c)
  BY <1>3 DEF Opens, Calls!Open, AnsweredCommands
<1>4. ASSUME NEW c \in Clients, Asks(c)
      PROVE  Calls!Ask(c)
  <2>1. Len(answered) = 2 * typed[c]
    BY <1>4 DEF Asks, Counted
  <2>2. Len(AnsweredCommands) = typed[c]
    <3>1. typed[c] \in Nat
      BY <1>1
    <3> QED
      BY <1>1, <2>1, <3>1, AnswersAre
  <2>3. AnsweredCommands' = AnsweredCommands
    BY <1>4 DEF Asks, AnsweredCommands
  <2> QED
    BY <1>4, <2>2, <2>3 DEF Asks, Calls!Ask
<1>5. ASSUME NEW c \in Clients, Answers(c)
      PROVE  Calls!Answer(c)
  <2>1. up[c] # <<>> /\ greeted[c] /\ conn = c
    <3>1. PICK asked \in LineKinds : up[c] = Message(asked, typed[c])
      BY <1>5 DEF Answers, Asking
    <3> QED
      BY <1>1, <1>5, <3>1, LineCells DEF Answers, Asking
  <2>2. Len(answered) = 2 * (typed[c] - 1)
    BY <2>1 DEF Counted
  <2>3. typed[c] - 1 \in Nat /\ typed[c] \in 0..Lines
    BY <1>1, <2>2
  <2>4. Len(AnsweredCommands) = typed[c] - 1
    BY <1>1, <2>2, <2>3, AnswersAre
  <2>5. PICK kind \in LineKinds : answered' = answered \o Message(kind, typed[c])
    BY <1>5 DEF Answers
  <2>6. AnsweredCommands' = Append(AnsweredCommands, typed[c])
    BY <1>1, <2>2, <2>3, <2>5, AnsweredOneMore
  <2>7. Len(AnsweredCommands) < typed[c]
    BY <2>3, <2>4
  <2> QED
    BY <1>5, <2>6, <2>7 DEF Answers, Calls!Answer
<1>6. ASSUME NEW c \in Clients, Reads(c)
      PROVE  Calls!Show(c) \/ UNCHANGED Calls!vars
  <2>1. /\ conn = c /\ UNCHANGED <<conn, answered, typed>> /\ down[c] # <<>>
    BY <1>6 DEF Reads
  <2>2. AnsweredCommands' = AnsweredCommands
    BY <2>1 DEF AnsweredCommands
  <2>3. CASE results' = results
    BY <2>1, <2>2, <2>3 DEF Calls!vars
  <2>4. CASE results' # results
    <3>1. greeted[c] /\ results[c] # typed[c] /\ results' = [results EXCEPT ![c] = @ + 1]
      BY <1>6, <2>4 DEF Reads, Answering
    <3>2. Len(answered) = 2 * typed[c] /\ results[c] \in {typed[c] - 1, typed[c]}
      BY <2>1, <3>1 DEF Counted
    <3>3. Len(AnsweredCommands) = typed[c]
      <4>1. typed[c] \in Nat
        BY <1>1
      <4> QED
        BY <1>1, <3>2, <4>1, AnswersAre
    <3>4. results[c] < Len(AnsweredCommands)
      BY <1>1, <3>1, <3>2, <3>3
    <3> QED
      BY <2>1, <2>2, <3>1, <3>4 DEF Calls!Show
  <2> QED
    BY <2>3, <2>4
<1>7. ASSUME NEW c \in Clients, Leaves(c)
      PROVE  UNCHANGED Calls!vars
  BY <1>7 DEF Leaves, Calls!vars, AnsweredCommands
<1> QED
  BY <1>2, <1>3, <1>4, <1>5, <1>6, <1>7, StepIs DEF Calls!Next

\* For a user who waits, a session is a series of calls: each command typed is
\* executed at most once, in its turn and by pgd's one connection, and its result
\* is shown after that, and what gets no answer ends the series; whatever the sizes of the buffers the reads go through, as
\* long as the daemon's is larger than the client's (console_handler,
\* daemon_handler, client_handler).
THEOREM SessionIsCalls ==
    ASSUME LockStep = TRUE, Tearing = FALSE, DBuf > CBuf
    PROVE  Spec => CommandsAreCalls
<1>1. Waits
  BY DEF Waits
<1>2. IInv /\ TurnsInv /\ [Next]_vars => TurnsInv'
  BY <1>1, NextInTurn
<1>3. IInv /\ TurnsInv /\ Counted /\ [Next]_vars => Counted' /\ [Calls!Next]_(Calls!vars)
  BY <1>1, CountedNext, StepIsCall
<1> QED
  BY <1>2, <1>3, InitInv, NextInv, InitInTurn, CountedInit, InitIsCall, PTL
     DEF Spec, CommandsAreCalls, Calls!Spec

----------------------------------------------------------------------------
(* No result is lost.                                                      *)

\* What is left of an answer ends in the result, and begins a buffer of its own
\* after every one before it.
ShownInv ==
    conn \in Clients /\ greeted[conn] =>
        /\ up[conn] = <<>> /\ down[conn] = <<>> => Shown(conn)
        /\ down[conn] # <<>> => \E j \in Nat : Len(down[conn]) = j * CBuf + 1

LEMMA ShownInit == Init => ShownInv
BY SessionAssumption DEF Init, ShownInv

LEMMA ReadShows ==
    ASSUME IInv, TurnsInv, Waits, Counted, ShownInv, NEW c \in Clients, ClientRead(c), Reads(c)
    PROVE  ShownInv'
<1>1. /\ CBuf \in Nat /\ CBuf > 3 /\ DBuf \in Nat /\ DBuf > CBuf
      /\ conn = c /\ conn' = c /\ typed' = typed /\ down[c] \in Seq(Cell)
      /\ typed[c] \in 0..Lines
  BY SessionAssumption DEF IInv, TypeOK, Reads, Waits
<1>2. /\ Len(down[c]) <= CBuf => down'[c] = <<>>
      /\ Len(down[c]) > CBuf => Len(down'[c]) = Len(down[c]) - CBuf
      /\ \A read \in 0..DBuf : (read = 0 \/ read >= CBuf) /\ Answering(c, read)
                 => (read = DBuf => results'[c] = results[c] + 1)
  BY ReadIs
<1>3. CASE Greeting(c)
  BY <1>1, <1>3 DEF Reads, Greeting, Quiet, Answering, ShownInv, Shown
<1>4. ASSUME NEW read \in 0..DBuf, read = 0 \/ read >= CBuf, Answering(c, read)
      PROVE  ShownInv'
  <2>1. PICK kind \in LineKinds :
           down[c] = SubSeq(Answer(kind, typed[c]), read + 1, DBuf + 1)
    BY <1>4 DEF Answering, Answerable, LineKinds
  <2> DEFINE answer == Answer(kind, typed[c])
  <2>2. answer \in Seq(Cell) /\ Len(answer) = DBuf + 1
    BY <1>1, AnswerCells DEF Waits
  <2>3. down[c] = SubSeq(answer, read + 1, DBuf + 1) /\ greeted[c]
    BY <1>4, <2>1 DEF Answering
  <2> HIDE DEF answer
  <2>4. Len(down[c]) = DBuf + 1 - read /\ down[c] # <<>>
    <3>1. read \in Nat /\ read <= DBuf
      BY <1>1
    <3>2. Len(SubSeq(answer, read + 1, DBuf + 1)) = DBuf + 1 - read
      BY <1>1, <2>2, <3>1
    <3>3. DBuf + 1 - read > 0
      BY <1>1, <3>1
    <3>4. Len(down[c]) = DBuf + 1 - read
      BY <2>3, <3>2
    <3>5. down[c] # <<>>
      BY <3>3, <3>4
    <3> QED
      BY <3>4, <3>5
  <2>5. PICK j \in Nat : Len(down[c]) = j * CBuf + 1
    BY <1>1, <2>3, <2>4 DEF ShownInv
  <2>6. CASE j = 0
    <3>1. Len(down[c]) = 1 /\ read = DBuf
      BY <1>1, <2>4, <2>5, <2>6
    <3>2. down'[c] = <<>> /\ results'[c] = results[c] + 1
      BY <1>1, <1>2, <1>4, <3>1
    <3>3. results[c] = typed[c] - 1
      BY <1>1, <1>4 DEF Answering, Counted
    <3> QED
      BY <1>1, <3>2, <3>3 DEF ShownInv, Shown
  <2>7. CASE j > 0
    <3>1. j - 1 \in Nat /\ j * CBuf = (j - 1) * CBuf + CBuf /\ (j - 1) * CBuf \in Nat
      BY <1>1, <2>7
    <3>2. Len(down'[c]) = (j - 1) * CBuf + 1
      BY <1>1, <1>2, <2>5, <3>1
    <3>3. down'[c] # <<>>
      BY <3>1, <3>2
    <3> QED
      BY <1>1, <3>1, <3>2, <3>3 DEF ShownInv
  <2> QED
    BY <2>6, <2>7
<1> QED
  BY <1>3, <1>4 DEF Reads

LEMMA ShownNext ==
    ASSUME IInv, TurnsInv, Waits, Counted, ShownInv, [Next]_vars,
           \E k \in Nat : DBuf = k * CBuf
    PROVE  ShownInv'
<1>1. CASE Rests
  BY <1>1 DEF Rests, ShownInv, Shown, WroteLast
<1>2. ASSUME NEW c \in Clients, Opens(c)
      PROVE  ShownInv'
  BY <1>2 DEF Opens, Fresh, ShownInv
<1>3. ASSUME NEW c \in Clients, Asks(c)
      PROVE  ShownInv'
  <2>1. conn' = c /\ typed'[c] \in 0..Lines /\ down'[c] = <<>>
    BY <1>3, SessionAssumption DEF Asks, Asking, IInv, TypeOK
  <2>2. up'[c] # <<>>
    <3>1. PICK kind \in LineKinds : up'[c] = Message(kind, typed'[c])
      BY <1>3 DEF Asks, Asking
    <3> QED
      BY <2>1, <3>1, LineCells
  <2> QED
    BY <2>1, <2>2 DEF ShownInv
<1>4. ASSUME NEW c \in Clients, Answers(c)
      PROVE  ShownInv'
  <2>1. conn' = c /\ typed' = typed /\ typed[c] \in 0..Lines /\ DBuf \in Nat
    BY <1>4, SessionAssumption DEF Answers, IInv, TypeOK
  <2>2. PICK kind \in LineKinds : down'[c] = SubSeq(Answer(kind, typed'[c]), 0 + 1, DBuf + 1)
    BY <1>4 DEF Answers, Answering, Answerable, LineKinds
  <2> DEFINE answer == Answer(kind, typed[c])
  <2>3. down'[c] = SubSeq(answer, 0 + 1, DBuf + 1)
    BY <2>2, <2>1
  <2>4. answer \in Seq(Cell) /\ Len(answer) = DBuf + 1
    BY <2>1, AnswerCells DEF Waits
  <2> HIDE DEF answer
  <2>5. Len(down'[c]) = DBuf + 1 /\ down'[c] # <<>>
    BY <2>1, <2>3, <2>4
  <2> QED
    BY <2>1, <2>5 DEF ShownInv
<1>5. ASSUME NEW c \in Clients, ClientRead(c), Reads(c)
      PROVE  ShownInv'
  BY <1>5, ReadShows
<1>6. ASSUME NEW c \in Clients, Leaves(c)
      PROVE  ShownInv'
  <2>1. /\ conn = c /\ conn' = c /\ typed' = typed /\ results' = results
        /\ results[c] # typed[c] /\ down'[c] = <<>>
        /\ WroteLast(c, {"helo", "malformed"})'
    BY <1>6 DEF Leaves, Stuck, Quiet
  <2>2. results[c] = typed[c] - 1
    BY <2>1 DEF Counted
  <2> QED
    BY <2>1, <2>2 DEF ShownInv, Shown
<1> QED
  BY <1>1, <1>2, <1>3, <1>4, <1>5, <1>6, StepIs

\* No result of a command gets lost, if the daemon's buffer is a whole number of the
\* client's (4096 and 1024 bytes): the result begins a read of its own then, as
\* daemon_handler, which looks at a read's first character, needs it to.
THEOREM WaitingSeesResults ==
    ASSUME LockStep = TRUE, Tearing = FALSE, DBuf > CBuf, \E k \in Nat : DBuf = k * CBuf
    PROVE  Spec => []QuietMeansShown
<1>1. Waits
  BY DEF Waits
<1>2. IInv /\ TurnsInv /\ [Next]_vars => TurnsInv'
  BY <1>1, NextInTurn
<1>3. IInv /\ TurnsInv /\ Counted /\ ShownInv /\ [Next]_vars => Counted' /\ ShownInv'
  BY <1>1, CountedNext, ShownNext
<1>4. IInv /\ TurnsInv /\ ShownInv => QuietMeansShown
  BY Serving DEF ShownInv, QuietMeansShown
<1> QED
  BY <1>2, <1>3, <1>4, InitInv, NextInv, InitInTurn, CountedInit, ShownInit, PTL DEF Spec

=============================================================================
