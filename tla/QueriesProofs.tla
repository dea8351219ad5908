---------------------------- MODULE QueriesProofs ----------------------------
(***************************************************************************)
(* Proofs about a query on its way, for any lengths of requests, any       *)
(* window of the connection, any dictionary and any match sets: a worker   *)
(* gets the requests as they were sent, the client draws them from the     *)
(* terms genTerms selected, and a response is as long as the descriptions  *)
(* of its first 25 documents.                                              *)
(***************************************************************************)
EXTENDS Framing, QueryTerms, ResultPage, FiniteSetTheorems, SequenceTheorems, TLAPS

\* A byte.
Byte == Nat \X Nat
\* The length of request m; the bytes that were sent or are to be, and not yet handed on.
Size(m) == HEADER + bodies[m]
Stream == buf \o wire \o unsent

\* The byte at i of s is in a request that s holds as a whole.
InRequest(s, i) ==
  \E m \in DOMAIN bodies, k \in Nat :
    /\ k \in 1..Size(m) /\ s[i] = <<m, k>>
    /\ k <= i /\ i - k + Size(m) <= Len(s)
    /\ \A q \in 1..Size(m) : s[i - k + q] = <<m, q>>

\* s holds the requests behind a up to b, whole and in order.
Requests(s, a, b) ==
  /\ s = <<>> => a = b
  /\ s # <<>> => s[1] = <<a + 1, 1>> /\ s[Len(s)] = <<b, Size(b)>>
  /\ \A i \in 1..Len(s) : InRequest(s, i)
  /\ \A i \in 1..(Len(s) - 1) :
       s[i][2] = Size(s[i][1]) => s[i + 1] = <<s[i][1] + 1, 1>>

FrameType ==
  /\ bodies \in Seq(Nat \ {0}) /\ sending \in 0..Len(bodies)
  /\ buf \in Seq(Byte) /\ wire \in Seq(Byte) /\ unsent \in Seq(Byte)
  /\ accepted \in Seq(Seq(Byte))
  /\ part \in {"header", "body"}

\* What is not handed on yet are the requests behind the last accepted, up to the one that
\* is being sent.
FrameInv ==
  /\ FrameType /\ Intact
  /\ Requests(Stream, Len(accepted), sending)
  /\ part = "body" => Len(buf) >= HEADER
-----------------------------------------------------------------------------
(* Framing.                                                                *)

\* A request is longer than its header.
LEMMA SizeType ==
  ASSUME FrameType
  PROVE  \A m \in DOMAIN bodies : bodies[m] \in Nat \ {0} /\ Size(m) \in Nat /\ Size(m) > HEADER
  BY FramingAssumption DEF FrameType, Size

\* The bytes of a request, one by one.
LEMMA BytesType ==
  ASSUME FrameType, NEW m \in DOMAIN bodies
  PROVE  /\ Bytes(m) \in Seq(Byte) /\ Len(Bytes(m)) = Size(m)
         /\ \A k \in 1..Size(m) : Bytes(m)[k] = <<m, k>>
  <1>1. Size(m) \in Nat /\ m \in Nat
    BY SizeType DEF FrameType
  <1>2. Bytes(m) = [k \in 1..Size(m) |-> <<m, k>>]
    BY DEF Bytes, Size
  <1>3. \A k \in 1..Size(m) : <<m, k>> \in Byte
    BY <1>1 DEF Byte
  <1> DEFINE n == Size(m)
  <1> HIDE DEF n
  <1>4. Bytes(m) \in [1..n -> Byte]
    BY <1>2, <1>3 DEF n
  <1>5. n \in Nat
    BY <1>1 DEF n
  <1>6. Bytes(m) \in Seq(Byte) /\ Len(Bytes(m)) = n
    BY <1>4, <1>5
  <1> QED
    BY <1>2, <1>6 DEF n

\* The first of the requests, and that it is all there.
LEMMA FirstRequest ==
  ASSUME FrameType, NEW s \in Seq(Byte), s # <<>>, NEW a \in Nat, NEW b, Requests(s, a, b)
  PROVE  /\ a + 1 \in DOMAIN bodies /\ Size(a + 1) <= Len(s)
         /\ \A q \in 1..Size(a + 1) : s[q] = <<a + 1, q>>
  <1>1. 1 \in 1..Len(s) /\ s[1] = <<a + 1, 1>>
    BY DEF Requests
  <1>2. InRequest(s, 1)
    BY <1>1 DEF Requests
  <1>3. PICK m \in DOMAIN bodies, k \in Nat :
          /\ k \in 1..Size(m) /\ s[1] = <<m, k>>
          /\ 1 - k + Size(m) <= Len(s)
          /\ \A q \in 1..Size(m) : s[1 - k + q] = <<m, q>>
    BY <1>2 DEF InRequest
  <1>4. m = a + 1 /\ k = 1
    BY <1>1, <1>3
  <1>5. a + 1 \in DOMAIN bodies /\ 1 - 1 + Size(a + 1) <= Len(s)
        /\ \A q \in 1..Size(a + 1) : s[1 - 1 + q] = <<a + 1, q>>
    BY <1>3, <1>4
  <1>6. Size(a + 1) \in Nat
    BY <1>5, SizeType
  <1> QED
    BY <1>5, <1>6

\* Two sequences, one behind the other.
LEMMA Joined ==
  ASSUME NEW S, NEW x \in Seq(S), NEW y \in Seq(S)
  PROVE  /\ x \o y \in Seq(S) /\ Len(x) \in Nat /\ Len(y) \in Nat
         /\ Len(x \o y) = Len(x) + Len(y)
         /\ \A i \in 1..Len(x) : (x \o y)[i] = x[i]
         /\ \A i \in 1..Len(y) : (x \o y)[Len(x) + i] = y[i]
  OBVIOUS

\* One more request at the end.
LEMMA AppendRequest ==
  ASSUME FrameType, NEW s \in Seq(Byte), NEW a \in Nat, NEW b \in Nat,
         Requests(s, a, b), b + 1 \in DOMAIN bodies
  PROVE  Requests(s \o Bytes(b + 1), a, b + 1)
  <1> DEFINE n == Size(b + 1)
             r == Bytes(b + 1)
             t == s \o r
  <1>1. /\ n \in Nat /\ n > 0
        /\ r \in Seq(Byte) /\ Len(r) = n
        /\ \A k \in 1..n : r[k] = <<b + 1, k>>
    BY BytesType, SizeType, FramingAssumption
  <1> HIDE DEF r
  <1>2. /\ t \in Seq(Byte) /\ Len(s) \in Nat /\ Len(t) = Len(s) + n
        /\ \A i \in 1..Len(s) : t[i] = s[i]
        /\ \A k \in 1..n : t[Len(s) + k] = <<b + 1, k>>
    <2>1. /\ t \in Seq(Byte) /\ Len(s) \in Nat
          /\ Len(t) = Len(s) + Len(r)
          /\ \A i \in 1..Len(s) : t[i] = s[i]
          /\ \A i \in 1..Len(r) : t[Len(s) + i] = r[i]
      <3>1. r \in Seq(Byte)
        BY <1>1
      <3> QED
        BY <3>1
    <2> HIDE DEF t, n
    <2> QED
      BY <1>1, <2>1
  <1>9. Size(b + 1) = n
    OBVIOUS
  <1> HIDE DEF t, n
  <1>10. n \in Nat /\ n > 0 /\ Len(s) \in Nat /\ Len(t) = Len(s) + n
    BY <1>1, <1>2
  <1>3. \A i \in (Len(s) + 1)..Len(t) : t[i] = <<b + 1, i - Len(s)>> /\ i - Len(s) \in 1..n
    <2> SUFFICES ASSUME NEW i \in (Len(s) + 1)..Len(t)
                 PROVE  t[i] = <<b + 1, i - Len(s)>> /\ i - Len(s) \in 1..n
      OBVIOUS
    <2>1. i - Len(s) \in 1..n /\ Len(s) + (i - Len(s)) = i
      BY <1>1, <1>2
    <2> QED
      BY <1>2, <2>1
  <1>4. t # <<>> /\ t[Len(t)] = <<b + 1, n>>
    BY <1>1, <1>2
  <1>5. t[1] = <<a + 1, 1>>
    <2>1. CASE s = <<>>
      BY <1>1, <1>2, <2>1 DEF Requests
    <2>2. CASE s # <<>>
      BY <1>2, <2>2 DEF Requests
    <2> QED
      BY <2>1, <2>2
  <1>6. ASSUME NEW i \in 1..Len(t) PROVE InRequest(t, i)
    <2>1. CASE i \in 1..Len(s)
      <3>1. PICK m \in DOMAIN bodies, k \in Nat :
            /\ k \in 1..Size(m) /\ s[i] = <<m, k>>
            /\ k <= i /\ i - k + Size(m) <= Len(s)
            /\ \A q \in 1..Size(m) : s[i - k + q] = <<m, q>>
        BY <2>1 DEF Requests, InRequest
      <3>2. Size(m) \in Nat
        BY <3>1, SizeType
      <3>3. \A q \in 1..Size(m) : i - k + q \in 1..Len(s)
        BY <2>1, <3>1, <3>2
      <3>4. \A q \in 1..Size(m) : t[i - k + q] = <<m, q>>
        BY <1>2, <3>1, <3>3
      <3>5. i - k + Size(m) <= Len(t)
        BY <1>1, <1>2, <3>1, <3>2
      <3>6. t[i] = <<m, k>>
        BY <1>2, <2>1, <3>1
      <3> QED
        BY <3>1, <3>4, <3>5, <3>6 DEF InRequest
    <2>2. CASE i \in (Len(s) + 1)..Len(t)
      <3> DEFINE k == i - Len(s)
      <3>1. t[i] = <<b + 1, k>> /\ k \in 1..n
        BY <1>3, <2>2
      <3>2. i \in Nat /\ i - k = Len(s) /\ k <= i
        BY <1>10
      <3> HIDE DEF k
      <3>3. /\ i - k + n <= Len(t)
            /\ \A q \in 1..n : t[i - k + q] = <<b + 1, q>>
        <4>1. i - k + n <= Len(t)
          BY <1>10, <3>2
        <4>2. ASSUME NEW q \in 1..n PROVE t[i - k + q] = <<b + 1, q>>
          <5>1. t[Len(s) + q] = <<b + 1, q>>
            BY <1>2
          <5> QED
            BY <3>2, <5>1
        <4> QED
          BY <4>1, <4>2
      <3> QED
        BY <1>9, <3>1, <3>2, <3>3 DEF InRequest
    <2> QED
      BY <1>2, <2>1, <2>2
  <1>7. ASSUME NEW i \in 1..(Len(t) - 1), t[i][2] = Size(t[i][1])
        PROVE  t[i + 1] = <<t[i][1] + 1, 1>>
    <2>1. CASE i < Len(s)
      <3>1. i \in 1..(Len(s) - 1) /\ i \in 1..Len(s) /\ i + 1 \in 1..Len(s)
        BY <1>10, <2>1
      <3>2. t[i] = s[i] /\ t[i + 1] = s[i + 1]
        BY <1>2, <3>1
      <3>3. s[i][2] = Size(s[i][1]) => s[i + 1] = <<s[i][1] + 1, 1>>
        BY <3>1 DEF Requests
      <3> QED
        BY <1>7, <3>2, <3>3
    <2>2. CASE i = Len(s)
      <3>1. s # <<>> /\ s[i] = <<b, Size(b)>>
        BY <2>2 DEF Requests
      <3>2. t[i + 1] = <<b + 1, 1>> /\ t[i] = s[i]
        <4>1. 1 \in 1..n /\ i \in 1..Len(s)
          BY <1>10, <2>2
        <4>2. t[Len(s) + 1] = <<b + 1, 1>> /\ t[i] = s[i]
          BY <1>2, <4>1
        <4> QED
          BY <2>2, <4>2
      <3> QED
        BY <3>1, <3>2
    <2>3. CASE i > Len(s)
      <3>1. t[i] = <<b + 1, i - Len(s)>>
        BY <1>2, <1>3, <2>3
      <3>2. i - Len(s) = n
        BY <1>7, <1>9, <3>1
      <3> QED
        BY <1>1, <1>2, <3>2
    <2> QED
      BY <2>1, <2>2, <2>3
  <1>8. Requests(t, a, b + 1)
    BY <1>4, <1>5, <1>6, <1>7, <1>9 DEF Requests
  <1> QED
    BY <1>8 DEF t, r

\* The first request is taken off.
LEMMA DropRequest ==
  ASSUME FrameType, NEW s \in Seq(Byte), s # <<>>, NEW a \in Nat, NEW b \in Nat,
         Requests(s, a, b), NEW t \in Seq(Byte), Len(s) = Size(a + 1) + Len(t),
         \A i \in 1..Len(t) : t[i] = s[Size(a + 1) + i]
  PROVE  Requests(t, a + 1, b)
  <1> DEFINE n == Size(a + 1)
  <1>1. /\ n \in Nat /\ n > 0 /\ n <= Len(s)
        /\ \A q \in 1..n : s[q] = <<a + 1, q>>
    BY FirstRequest, SizeType, FramingAssumption
  <1>2. /\ Len(s) = n + Len(t) /\ Len(s) \in Nat /\ Len(t) \in Nat
        /\ \A i \in 1..Len(t) : t[i] = s[n + i]
    OBVIOUS
  <1>3. /\ s[Len(s)] = <<b, Size(b)>>
        /\ \A i \in 1..Len(s) : InRequest(s, i)
        /\ \A i \in 1..(Len(s) - 1) :
             s[i][2] = Size(s[i][1]) => s[i + 1] = <<s[i][1] + 1, 1>>
    BY DEF Requests
  <1>4. s[n] = <<a + 1, n>>
    BY <1>1
  <1>5. s[n][2] = Size(s[n][1])
    BY <1>4
  <1> HIDE DEF n
  <1>6. t = <<>> => a + 1 = b
    <2>1. t = <<>> => Len(s) = n
      BY <1>1, <1>2
    <2> QED
      BY <1>3, <1>4, <2>1
  <1>7. t # <<>> => t[1] = <<a + 1 + 1, 1>> /\ t[Len(t)] = <<b, Size(b)>>
    <2> SUFFICES ASSUME t # <<>> PROVE t[1] = <<a + 1 + 1, 1>> /\ t[Len(t)] = <<b, Size(b)>>
      OBVIOUS
    <2>1. Len(t) \in Nat /\ Len(t) > 0
      OBVIOUS
    <2>2. t[1] = s[n + 1] /\ n \in 1..(Len(s) - 1) /\ t[Len(t)] = s[Len(s)]
      BY <1>1, <1>2, <2>1
    <2>3. s[n + 1] = <<s[n][1] + 1, 1>>
      BY <1>3, <1>5, <2>2
    <2> QED
      BY <1>3, <1>4, <2>2, <2>3
  <1>8. ASSUME NEW i \in 1..Len(t) PROVE InRequest(t, i)
    <2>1. PICK j \in 1..Len(s) : j = n + i
      BY <1>1, <1>2
    <2>2. PICK m \in DOMAIN bodies, k \in Nat :
            /\ k \in 1..Size(m) /\ s[j] = <<m, k>>
            /\ k <= j /\ j - k + Size(m) <= Len(s)
            /\ \A q \in 1..Size(m) : s[j - k + q] = <<m, q>>
      BY <1>3 DEF InRequest
    <2>3. Size(m) \in Nat
      BY <2>2, SizeType
    <2>4. t[i] = <<m, k>>
      BY <1>2, <2>1, <2>2
    <2>5. m = a + 1 => Size(m) = n
      BY DEF n
    <2>6. n <= j - k
      <3> SUFFICES ASSUME j - k < n PROVE FALSE
        BY <1>1, <2>1, <2>2, <2>3
      <3>1. j - k + 1 \in 1..n /\ 1 \in 1..Size(m)
        BY <1>1, <2>1, <2>2, <2>3
      <3>2. s[j - k + 1] = <<m, 1>> /\ s[j - k + 1] = <<a + 1, j - k + 1>>
        BY <1>1, <2>1, <2>2, <3>1
      <3>3. j - k = 0 /\ m = a + 1
        BY <1>1, <2>1, <2>2, <2>3, <3>2
      <3> QED
        BY <1>1, <2>1, <2>2, <2>3, <2>5, <3>3
    <2>7. k <= i /\ i - k + Size(m) <= Len(t)
      BY <1>1, <1>2, <2>1, <2>2, <2>3, <2>6
    <2>8. ASSUME NEW q \in 1..Size(m) PROVE t[i - k + q] = <<m, q>>
      <3>1. i - k + q \in 1..Len(t) /\ n + (i - k + q) = j - k + q
        BY <1>1, <2>1, <2>2, <2>3, <2>7
      <3> QED
        BY <1>2, <2>1, <2>2, <3>1
    <2> QED
      BY <2>2, <2>4, <2>7, <2>8 DEF InRequest
  <1>9. ASSUME NEW i \in 1..(Len(t) - 1), t[i][2] = Size(t[i][1])
        PROVE  t[i + 1] = <<t[i][1] + 1, 1>>
    <2>1. /\ n + i \in 1..(Len(s) - 1) /\ t[i] = s[n + i]
          /\ i + 1 \in 1..Len(t) /\ n + (i + 1) = (n + i) + 1
      BY <1>1, <1>2
    <2>2. t[i + 1] = s[n + i + 1]
      BY <1>2, <2>1
    <2> QED
      BY <1>3, <1>9, <2>1, <2>2
  <1> QED
    BY <1>6, <1>7, <1>8, <1>9 DEF Requests

\* A piece that moves from the front of one sequence to the end of the other.
LEMMA Moved ==
  ASSUME NEW S, NEW x \in Seq(S), NEW y \in Seq(S), NEW n \in 1..Len(y)
  PROVE  /\ SubSeq(y, 1, n) \in Seq(S) /\ SubSeq(y, n + 1, Len(y)) \in Seq(S)
         /\ (x \o SubSeq(y, 1, n)) \o SubSeq(y, n + 1, Len(y)) = x \o y
  <1> DEFINE p == SubSeq(y, 1, n)
             q == SubSeq(y, n + 1, Len(y))
  <1>1. p \in Seq(S) /\ q \in Seq(S)
    OBVIOUS
  <1>2. p \o q = y
    BY ConcatAdjacentSubSeq, SubSeqFull
  <1> HIDE DEF p, q
  <1>3. (x \o p) \o q = x \o (p \o q)
    BY <1>1, ConcatAssociative
  <1> QED
    BY <1>1, <1>2, <1>3 DEF p, q

\* Nothing is on its way at first.
LEMMA FrameInit == FramingInit => FrameInv
  <1> SUFFICES ASSUME FramingInit PROVE FrameInv
    OBVIOUS
  <1>1. bodies \in Seq(Nat \ {0})
    BY FramingAssumption DEF FramingInit
  <1>2. FrameType
    BY <1>1 DEF FramingInit, FrameType
  <1>3. Stream = <<>>
    BY DEF FramingInit, Stream
  <1>4. Requests(<<>>, 0, 0)
    BY DEF Requests
  <1>5. Intact
    BY DEF FramingInit, Intact
  <1> QED
    BY <1>2, <1>3, <1>4, <1>5 DEF FrameInv, FramingInit

\* What is asked of a sequence depends on the lengths of the requests only.
LEMMA RequestsStay ==
  ASSUME bodies' = bodies, NEW s, NEW a, NEW b, Requests(s, a, b), Stream' = s,
         Len(accepted') = a, sending' = b
  PROVE  Requests(Stream, Len(accepted), sending)'
  BY DEF Requests, InRequest, Size

\* The steps that change neither what is handed on nor what was sent.
LEMMA FrameKeeps ==
  ASSUME FrameInv, UNCHANGED <<bodies, sending, accepted>>, Stream' = Stream, FrameType',
         part' = "body" => Len(buf') >= HEADER
  PROVE  FrameInv'
  <1>1. Requests(Stream, Len(accepted), sending)'
    BY RequestsStay DEF FrameInv
  <1>2. Intact'
    BY DEF FrameInv, Intact, Bytes
  <1> QED
    BY <1>1, <1>2 DEF FrameInv

\* The client starts to send a request.
LEMMA StartKeeps ==
  ASSUME FrameInv, StartSend
  PROVE  FrameInv'
  <1>1. /\ unsent = <<>> /\ sending' = sending + 1 /\ unsent' = Bytes(sending + 1)
        /\ UNCHANGED <<bodies, wire, part, buf, accepted>>
        /\ sending + 1 \in DOMAIN bodies /\ sending \in Nat
    BY DEF StartSend, FrameInv, FrameType
  <1>2. FrameType /\ Bytes(sending + 1) \in Seq(Byte)
    BY <1>1, BytesType DEF FrameInv
  <1>3. /\ buf \in Seq(Byte) /\ wire \in Seq(Byte) /\ Len(accepted) \in Nat
        /\ buf \o wire \in Seq(Byte)
    BY <1>2 DEF FrameType
  <1>4. FrameType'
    BY <1>1, <1>2 DEF FrameType
  <1>5. Stream = buf \o wire
    BY <1>1, <1>3 DEF Stream
  <1>6. Requests((buf \o wire) \o Bytes(sending + 1), Len(accepted), sending + 1)
    BY <1>1, <1>2, <1>3, <1>5, AppendRequest DEF FrameInv
  <1>7. Requests(Stream, Len(accepted), sending)'
    BY <1>1, <1>6, RequestsStay DEF Stream
  <1>8. Intact'
    BY <1>1 DEF FrameInv, Intact, Bytes
  <1> QED
    BY <1>1, <1>4, <1>7, <1>8 DEF FrameInv

\* A piece goes into the connection, or out of it.
LEMMA PiecesKeep ==
  ASSUME FrameInv, SendPiece \/ RecvPiece
  PROVE  FrameInv'
  <1>1. /\ FrameType /\ buf \in Seq(Byte) /\ wire \in Seq(Byte) /\ unsent \in Seq(Byte)
        /\ Len(buf) \in Nat
    BY DEF FrameInv, FrameType
  <1>2. CASE SendPiece
    <2>1. PICK n \in 1..Len(unsent) : /\ wire' = wire \o SubSeq(unsent, 1, n)
                                      /\ unsent' = SubSeq(unsent, n + 1, Len(unsent))
      BY <1>2 DEF SendPiece
    <2>2. UNCHANGED <<bodies, sending, part, buf, accepted>>
      BY <1>2 DEF SendPiece
    <2> DEFINE p == SubSeq(unsent, 1, n)
               q == SubSeq(unsent, n + 1, Len(unsent))
    <2>3. /\ p \in Seq(Byte) /\ q \in Seq(Byte)
          /\ wire' = wire \o p /\ unsent' = q
          /\ (wire \o p) \o q = wire \o unsent
      BY <1>1, <2>1, Moved
    <2> HIDE DEF p, q
    <2>4. wire' \in Seq(Byte) /\ unsent' \in Seq(Byte)
      BY <1>1, <2>3
    <2>5. (buf \o (wire \o p)) \o q = buf \o ((wire \o p) \o q)
      <3> DEFINE w == wire \o p
      <3>1. w \in Seq(Byte)
        BY <1>1, <2>3
      <3> HIDE DEF w
      <3>2. (buf \o w) \o q = buf \o (w \o q)
        <4>1. buf \in Seq(Byte) /\ q \in Seq(Byte)
          BY <1>1, <2>3
        <4> QED
          BY <4>1, <3>1, ConcatAssociative
      <3> QED
        BY <3>2 DEF w
    <2>6. (buf \o wire) \o unsent = buf \o (wire \o unsent)
      BY <1>1, ConcatAssociative
    <2>7. Stream' = Stream
      BY <2>2, <2>3, <2>5, <2>6 DEF Stream
    <2>8. FrameType'
      BY <1>1, <2>2, <2>4 DEF FrameType
    <2> QED
      BY <2>2, <2>7, <2>8, FrameKeeps DEF FrameInv
  <1>3. CASE RecvPiece
    <2>1. PICK n \in 1..Len(wire) : /\ buf' = buf \o SubSeq(wire, 1, n)
                                    /\ wire' = SubSeq(wire, n + 1, Len(wire))
      BY <1>3 DEF RecvPiece
    <2>2. UNCHANGED <<bodies, sending, part, unsent, accepted>>
      BY <1>3 DEF RecvPiece
    <2> DEFINE p == SubSeq(wire, 1, n)
               q == SubSeq(wire, n + 1, Len(wire))
    <2>3. /\ p \in Seq(Byte) /\ q \in Seq(Byte)
          /\ buf' = buf \o p /\ wire' = q
          /\ (buf \o p) \o q = buf \o wire
      BY <1>1, <2>1, Moved
    <2> HIDE DEF p, q
    <2>4. wire' \in Seq(Byte) /\ buf' \in Seq(Byte) /\ Len(buf') >= Len(buf)
      BY <1>1, <2>3
    <2>5. Stream' = Stream
      BY <2>2, <2>3 DEF Stream
    <2>6. FrameType'
      BY <1>1, <2>2, <2>4 DEF FrameType
    <2>7. part' = "body" => Len(buf') >= HEADER
      BY <1>1, <2>2, <2>4, FramingAssumption DEF FrameInv
    <2> QED
      BY <2>2, <2>5, <2>6, <2>7, FrameKeeps
  <1> QED
    BY <1>2, <1>3

\* A request that was read whole is the first of the stream.
LEMMA ReadKeeps ==
  ASSUME FrameInv, BodyRead
  PROVE  FrameInv'
  <1>1. /\ FrameType /\ buf \in Seq(Byte) /\ wire \in Seq(Byte) /\ unsent \in Seq(Byte)
        /\ Len(buf) \in Nat /\ accepted \in Seq(Seq(Byte)) /\ sending \in Nat
    BY DEF FrameInv, FrameType
  <1>2. /\ accepted' = Append(accepted, buf) /\ buf' = <<>> /\ part' = "header"
        /\ UNCHANGED <<bodies, sending, unsent, wire>>
        /\ Len(buf) - HEADER = bodies[buf[1][1]] /\ Len(buf) >= HEADER
    BY DEF BodyRead, Whole, Expected, Read, FrameInv
  <1> DEFINE a == Len(accepted)
             t == wire \o unsent
  <1>3. t \in Seq(Byte) /\ (buf \o wire) \o unsent = buf \o t
    BY <1>1, ConcatAssociative
  <1>4. Stream = buf \o t
    BY <1>3 DEF Stream
  <1> HIDE DEF t
  <1>5. /\ Stream \in Seq(Byte) /\ Len(Stream) = Len(buf) + Len(t) /\ Len(t) \in Nat
        /\ \A i \in 1..Len(buf) : Stream[i] = buf[i]
        /\ \A i \in 1..Len(t) : Stream[Len(buf) + i] = t[i]
    BY <1>1, <1>3, <1>4, Joined
  <1>6. HEADER \in Nat /\ HEADER > 0
    BY FramingAssumption
  <1>7. Stream # <<>> /\ a \in Nat /\ Requests(Stream, a, sending)
    BY <1>1, <1>2, <1>5, <1>6 DEF FrameInv
  <1>8. /\ a + 1 \in DOMAIN bodies
        /\ \A q \in 1..Size(a + 1) : Stream[q] = <<a + 1, q>>
    BY <1>1, <1>5, <1>7, FirstRequest
  <1>9. Size(a + 1) \in Nat /\ Size(a + 1) > HEADER /\ bodies[a + 1] \in Nat
    BY <1>1, <1>8, SizeType
  <1>10. Len(buf) = Size(a + 1)
    <2>1. buf[1] = <<a + 1, 1>>
      <3>1. 1 \in 1..Len(buf) /\ 1 \in 1..Size(a + 1)
        BY <1>1, <1>2, <1>6, <1>9
      <3> QED
        BY <1>5, <1>8, <3>1
    <2> QED
      BY <1>1, <1>2, <1>6, <1>9, <2>1 DEF Size
  <1>11. buf = Bytes(a + 1)
    <2>1. /\ Bytes(a + 1) \in Seq(Byte) /\ Len(Bytes(a + 1)) = Size(a + 1)
          /\ \A k \in 1..Size(a + 1) : Bytes(a + 1)[k] = <<a + 1, k>>
      BY <1>1, <1>8, BytesType
    <2>2. \A k \in 1..Len(buf) : buf[k] = Bytes(a + 1)[k]
      BY <1>5, <1>8, <1>10, <2>1
    <2> QED
      BY <1>1, <1>10, <2>1, <2>2, SeqEqual
  <1>12. Requests(t, a + 1, sending)
    BY <1>1, <1>3, <1>5, <1>7, <1>10, DropRequest
  <1>13. Stream' = t
    BY <1>1, <1>2 DEF Stream, t
  <1>14. Len(accepted') = a + 1 /\ accepted' \in Seq(Seq(Byte))
    BY <1>1, <1>2
  <1>15. Requests(Stream, Len(accepted), sending)'
    BY <1>2, <1>12, <1>13, <1>14, RequestsStay
  <1>16. FrameType'
    BY <1>1, <1>2, <1>14 DEF FrameType
  <1>17. Intact'
    <2>1. \A m \in DOMAIN accepted' : accepted'[m] = Bytes(m)
      <3>1. \A m \in DOMAIN accepted : accepted[m] = Bytes(m)
        BY DEF FrameInv, Intact
      <3> QED
        BY <1>1, <1>2, <1>11, <3>1
    <2> QED
      BY <1>2, <2>1 DEF Intact, Bytes
  <1> QED
    BY <1>2, <1>15, <1>16, <1>17 DEF FrameInv

\* Every step leaves the requests in the stream whole and in order.
LEMMA FrameStep ==
  ASSUME FrameInv, [FramingNext]_framingVars
  PROVE  FrameInv'
  <1>1. CASE HeaderRead
    <2>1. UNCHANGED <<bodies, sending, accepted, buf, wire, unsent>> /\ part' = "body"
      BY <1>1 DEF HeaderRead
    <2>2. Len(buf) = HEADER /\ HEADER \in Nat
      BY <1>1, FramingAssumption DEF HeaderRead, Whole, Read, Expected
    <2>3. Stream' = Stream
      BY <2>1 DEF Stream
    <2>4. FrameType'
      BY <2>1 DEF FrameInv, FrameType
    <2> QED
      BY <2>1, <2>2, <2>3, <2>4, FrameKeeps
  <1>2. CASE Close \/ ClientLeft \/ WrongLength \/ UNCHANGED framingVars
    <2>1. UNCHANGED <<bodies, sending, accepted, buf, wire, unsent, part>>
      BY <1>2 DEF Close, ClientLeft, WrongLength, framingVars
    <2>2. Stream' = Stream
      BY <2>1 DEF Stream
    <2>3. FrameType'
      BY <2>1 DEF FrameInv, FrameType
    <2>4. part' = "body" => Len(buf') >= HEADER
      BY <2>1 DEF FrameInv
    <2> QED
      BY <2>1, <2>2, <2>3, <2>4, FrameKeeps
  <1> QED
    BY <1>1, <1>2, StartKeeps, PiecesKeep, ReadKeeps DEF FramingNext, SendStep, ReadStep

\* However the connection cuts the stream into pieces, and wherever the client dies, a
\* worker gets the requests whole, each once and in the order they were sent.
THEOREM RequestsIntact == FramingSpec => []Intact
  <1>1. FrameInv => Intact
    BY DEF FrameInv
  <1> QED
    BY <1>1, FrameInit, FrameStep, PTL DEF FramingSpec
-----------------------------------------------------------------------------
(* The invariant of genTerms and its client.                               *)

\* A term, as the dictionary has them.
TermOf == [lower : BOOLEAN, size : Nat, results : Nat]

\* genTerms has written every wanted term of those it is past; only a kill leaves a
\* line without its newline.
FileInv ==
  /\ dictionary \in Dictionaries
  /\ file \in Seq(TermOf) /\ \A i \in DOMAIN file : Wanted(file[i])
  /\ WantedOf(file, it - 1)
  /\ genTerms = "exit_0" => it = Len(dictionary) + 1
  /\ partial => genTerms = "killed" /\ file # <<>>

\* Until a line fails the client has the lines of the file, as they are.
LinesInv ==
  /\ terms \in Seq(TermOf) /\ request \in TermOf
  /\ client = "waits" => line = 0 /\ ~failbit /\ terms = <<>>
  /\ client # "waits" => genTerms \in {"exit_0", "killed"}
  /\ ~failbit =>
       /\ Len(terms) = line
       /\ \A i \in 1..line : terms[i] = file[i] /\ terms[i].size < MAX_TERM_LEN
       /\ partial /\ client \in {"waits", "load"} => line < Len(file)
  /\ client = "ready" => ~failbit /\ line = IF partial THEN Len(file) - 1 ELSE Len(file)
  /\ request # NoTerm => Wanted(request) /\ request.size < MAX_TERM_LEN

QueryInv == TermsTypeOK /\ FileInv /\ LinesInv /\ DrawInRange

\* The dictionary, and that it fits the client's memory.
LEMMA DictionaryType ==
  ASSUME dictionary \in Dictionaries
  PROVE  /\ dictionary \in Seq(TermOf) /\ Len(dictionary) \in Nat /\ Len(dictionary) < Memory
         /\ Memory \in Nat /\ Memory < Word
  <1>1. /\ dictionary \in Seq(TermOf) /\ Len(dictionary) < Memory
        /\ Memory \in Nat /\ Memory < Word
    BY QueryTermsAssumption, Zenon DEF TermOf
  <1>2. Len(dictionary) \in Nat
    BY <1>1
  <1> QED
    BY <1>1, <1>2

\* What genTerms tests, with a match set cut at 1001, is what the client is promised.
LEMMA SelectedIsWanted ==
  ASSUME NEW t \in TermOf
  PROVE  Selected(t) <=> Wanted(t)
  <1>1. t.lower \in BOOLEAN /\ t.size \in Nat /\ t.results \in Nat
    BY DEF TermOf
  <1>2. (MsetSize(t) >= llimit /\ MsetSize(t) <= ulimit) <=> t.results \in llimit..ulimit
    BY <1>1 DEF MsetSize, MSET_SIZE, llimit, ulimit
  <1> QED
    BY <1>2, Zenon DEF Selected, Wanted

\* One more term of the dictionary, and the ranks of those before it.
LEMMA Ranks ==
  ASSUME NEW n \in Nat
  PROVE  /\ Rank(n) \in Nat
         /\ \A j \in 1..n : Wanted(dictionary[j]) => Rank(j) \in 1..Rank(n)
         /\ Wanted(dictionary[n + 1]) => Rank(n + 1) = Rank(n) + 1
         /\ ~Wanted(dictionary[n + 1]) => Rank(n + 1) = Rank(n)
  <1> DEFINE W(j) == {k \in 1..j : Wanted(dictionary[k])}
  <1>1. \A j \in Nat : IsFiniteSet(W(j)) /\ Cardinality(W(j)) \in Nat
    <2> SUFFICES ASSUME NEW j \in Nat PROVE IsFiniteSet(W(j)) /\ Cardinality(W(j)) \in Nat
      OBVIOUS
    <2>1. IsFiniteSet(1..j)
      BY FS_Interval
    <2>2. W(j) \subseteq 1..j
      OBVIOUS
    <2> QED
      BY <2>1, <2>2, FS_Subset, FS_CardinalityType
  <1>2. ASSUME NEW j \in 1..n, Wanted(dictionary[j]) PROVE Rank(j) \in 1..Rank(n)
    <2>1. W(j) \subseteq W(n) /\ j \in W(j)
      BY <1>2
    <2>2. Cardinality(W(j)) <= Cardinality(W(n))
      BY <1>1, <2>1, FS_Subset
    <2>3. Cardinality(W(j)) # 0
      BY <1>1, <2>1, FS_EmptySet
    <2> QED
      BY <1>1, <2>2, <2>3 DEF Rank
  <1>3. ASSUME Wanted(dictionary[n + 1]) PROVE Rank(n + 1) = Rank(n) + 1
    <2>1. W(n + 1) = W(n) \cup {n + 1} /\ n + 1 \notin W(n)
      BY <1>3
    <2> QED
      BY <1>1, <2>1, FS_AddElement DEF Rank
  <1>4. ASSUME ~Wanted(dictionary[n + 1]) PROVE Rank(n + 1) = Rank(n)
    <2>1. W(n + 1) = W(n)
      BY <1>4
    <2> QED
      BY <2>1 DEF Rank
  <1> QED
    BY <1>1, <1>2, <1>3, <1>4 DEF Rank

\* Nothing has been written or read at first.
LEMMA QueryInit == TermsInit => QueryInv
  <1> SUFFICES ASSUME TermsInit PROVE QueryInv
    OBVIOUS
  <1>1. /\ dictionary \in Dictionaries
        /\ genTerms = "options" /\ it = 1 /\ file = <<>> /\ partial = FALSE
        /\ client = "waits" /\ line = 0 /\ failbit = FALSE /\ terms = <<>>
        /\ request = NoTerm
    BY DEF TermsInit
  <1>2. TermsTypeOK
    <2>1. Len(dictionary) \in Nat /\ Memory \in Nat
      BY <1>1, DictionaryType
    <2>2. it \in 1..(Len(dictionary) + 1) /\ line \in 0..Len(file) /\ Len(terms) <= Memory
      BY <1>1, <2>1
    <2>3. \A i \in DOMAIN file : \E j \in 1..(it - 1) : file[i] = dictionary[j]
      BY <1>1
    <2>4. partial \in BOOLEAN /\ failbit \in BOOLEAN
      BY <1>1
    <2>5. /\ genTerms \in {"options", "run", "exit_0", "exit_255", "terminated", "killed"}
          /\ client \in {"waits", "load", "ready", "exit_255", "terminated", "crashed"}
      BY <1>1, Zenon
    <2> QED
      BY <2>2, <2>3, <2>4, <2>5, Zenon DEF TermsTypeOK
  <1>3. WantedOf(<<>>, 0)
    <2>1. {k \in 1..0 : Wanted(dictionary[k])} = {}
      OBVIOUS
    <2>2. Rank(0) = 0
      BY <2>1, FS_EmptySet DEF Rank
    <2> QED
      BY <2>2 DEF WantedOf
  <1>4. FileInv
    BY <1>1, <1>3 DEF FileInv
  <1>5. NoTerm \in TermOf
    BY DEF NoTerm, TermOf
  <1>6. LinesInv
    BY <1>1, <1>5 DEF LinesInv
  <1> QED
    BY <1>1, <1>2, <1>4, <1>6 DEF QueryInv, DrawInRange

\* genTerms goes on by a term, which it writes if it is wanted.
LEMMA NextTermWrites ==
  ASSUME QueryInv, NextTerm, dictionary' = dictionary
  PROVE  /\ FileInv' /\ it' \in 1..(Len(dictionary) + 1)
         /\ \A i \in DOMAIN file' : \E j \in 1..(it' - 1) : file'[i] = dictionary'[j]
  <1> DEFINE d == dictionary[it]
             n == it - 1
  <1>1. /\ dictionary \in Seq(TermOf) /\ Len(dictionary) \in Nat
        /\ file \in Seq(TermOf) /\ Len(file) \in Nat
        /\ it \in 1..Len(dictionary) /\ it' = it + 1 /\ genTerms' = genTerms
        /\ genTerms = "run" /\ ~partial /\ partial' = partial
        /\ \A i \in DOMAIN file : Wanted(file[i])
        /\ \A i \in DOMAIN file : \E j \in 1..(it - 1) : file[i] = dictionary[j]
        /\ WantedOf(file, n)
    <2>1. /\ dictionary \in Seq(TermOf) /\ Len(dictionary) \in Nat
      BY DictionaryType DEF QueryInv, FileInv
    <2>2. /\ genTerms = "run" /\ it <= Len(dictionary) /\ it' = it + 1 /\ genTerms' = genTerms
          /\ partial' = partial
      BY DEF NextTerm
    <2>3. /\ file \in Seq(TermOf) /\ \A i \in DOMAIN file : Wanted(file[i])
          /\ WantedOf(file, n) /\ ~partial
      BY <2>2, Zenon DEF QueryInv, FileInv
    <2>4. it \in 1..(Len(dictionary) + 1)
          /\ \A i \in DOMAIN file : \E j \in 1..(it - 1) : file[i] = dictionary[j]
      BY Zenon DEF QueryInv, TermsTypeOK
    <2>5. it \in 1..Len(dictionary) /\ Len(file) \in Nat
      BY <2>1, <2>2, <2>3, <2>4
    <2> QED
      BY <2>1, <2>2, <2>3, <2>4, <2>5, Zenon
  <1>2. d \in TermOf /\ n \in Nat /\ n + 1 = it /\ it' - 1 = it
    BY <1>1
  <1>3. /\ Rank(n) \in Nat /\ Len(file) = Rank(n)
        /\ \A j \in 1..n : Wanted(dictionary[j]) =>
             Rank(j) \in 1..Rank(n) /\ file[Rank(j)] = dictionary[j]
        /\ Wanted(d) => Rank(it) = Rank(n) + 1
        /\ ~Wanted(d) => Rank(it) = Rank(n)
    <2>1. /\ Rank(n) \in Nat
          /\ \A j \in 1..n : Wanted(dictionary[j]) => Rank(j) \in 1..Rank(n)
          /\ Wanted(dictionary[n + 1]) => Rank(n + 1) = Rank(n) + 1
          /\ ~Wanted(dictionary[n + 1]) => Rank(n + 1) = Rank(n)
      BY <1>2, Ranks
    <2> HIDE DEF n
    <2> QED
      BY <1>1, <1>2, <2>1 DEF WantedOf
  <1>4. 1..it = (1..n) \cup {it}
    BY <1>1
  <1>5. \A j : Rank(j)' = Rank(j)
    BY DEF Rank, Wanted
  <1>6. \A j \in DOMAIN file' :
          \/ j \in DOMAIN file /\ file'[j] = file[j]
          \/ file'[j] = d /\ Wanted(d)
    BY <1>1, <1>2, SelectedIsWanted DEF NextTerm
  <1>7. file' \in Seq(TermOf)
    BY <1>1, <1>2 DEF NextTerm
  <1>8. \A i \in DOMAIN file' : \E j \in 1..(it' - 1) : file'[i] = dictionary'[j]
    BY <1>1, <1>2, <1>4, <1>6
  <1> HIDE DEF d, n
  <1>9. Len(file') = Rank(it) /\ \A j \in 1..it : Wanted(dictionary[j]) => file'[Rank(j)] = dictionary[j]
    <2>1. CASE Wanted(d)
      <3>1. file' = Append(file, d)
        BY <1>2, <2>1, SelectedIsWanted DEF NextTerm, d
      <3>2. /\ Len(file') = Len(file) + 1 /\ file'[Len(file) + 1] = d
            /\ \A i \in 1..Len(file) : file'[i] = file[i]
        BY <1>1, <1>2, <3>1
      <3>3. Len(file') = Rank(it) /\ file'[Rank(it)] = d
        BY <1>3, <2>1, <3>2
      <3>4. \A j \in 1..n : Wanted(dictionary[j]) => file'[Rank(j)] = dictionary[j]
        BY <1>3, <3>2
      <3> QED
        BY <1>4, <3>3, <3>4 DEF d
    <2>2. CASE ~Wanted(d)
      <3>1. file' = file
        BY <1>2, <2>2, SelectedIsWanted DEF NextTerm, d
      <3> QED
        BY <1>3, <1>4, <2>2, <3>1 DEF d
    <2> QED
      BY <2>1, <2>2
  <1>10. WantedOf(file, it - 1)'
    BY <1>2, <1>5, <1>9 DEF WantedOf, Wanted
  <1>11. \A i \in DOMAIN file' : Wanted(file'[i])
    BY <1>1, <1>6
  <1>12. FileInv'
    BY <1>1, <1>7, <1>10, <1>11 DEF FileInv, QueryInv, Wanted
  <1> QED
    BY <1>1, <1>8, <1>12

\* While genTerms runs the client waits.
LEMMA GenKeeps ==
  ASSUME QueryInv, Options \/ NextTerm \/ GenEnds \/ GenKilled, dictionary' = dictionary
  PROVE  QueryInv'
  <1>1. /\ genTerms \in {"options", "run"}
        /\ client' = client /\ line' = line /\ failbit' = failbit
        /\ terms' = terms /\ request' = request
    BY DEF Options, NextTerm, GenEnds, GenKilled, clientVars
  <1>2. client = "waits"
    BY <1>1, Zenon DEF QueryInv, LinesInv
  <1>3. line = 0 /\ ~failbit /\ terms = <<>> /\ request \in TermOf
        /\ (request # NoTerm => Wanted(request) /\ request.size < MAX_TERM_LEN)
    BY <1>2, Zenon DEF QueryInv, LinesInv
  <1>4. /\ FileInv' /\ it' \in 1..(Len(dictionary) + 1)
        /\ \A i \in DOMAIN file' : \E j \in 1..(it' - 1) : file'[i] = dictionary'[j]
    <2>1. CASE NextTerm
      BY <2>1, NextTermWrites
    <2>2. CASE Options \/ GenEnds \/ GenKilled
      <3>1. it' = it /\ file' = file
        BY <2>2 DEF Options, GenEnds, GenKilled
      <3>2. it \in 1..(Len(dictionary) + 1)
            /\ \A i \in DOMAIN file : \E j \in 1..(it - 1) : file[i] = dictionary[j]
        BY Zenon DEF QueryInv, TermsTypeOK
      <3>3. genTerms' = "exit_0" => it = Len(dictionary) + 1
        <4>1. Len(dictionary) \in Nat
          BY DictionaryType DEF QueryInv, FileInv
        <4>2. genTerms' = "exit_0" => it > Len(dictionary)
          BY <1>1, <2>2 DEF Options, GenEnds, GenKilled
        <4> QED
          <5>1. it \in 1..(Len(dictionary) + 1)
            BY <3>2
          <5> QED
            BY <4>1, <4>2, <5>1
      <3>4. partial' => genTerms' = "killed" /\ file # <<>>
        <4>1. ~partial
          BY <1>1, Zenon DEF QueryInv, FileInv
        <4> QED
          BY <2>2, <4>1 DEF Options, GenEnds, GenKilled
      <3>5. WantedOf(file, it - 1)'
        BY <3>1 DEF QueryInv, FileInv, WantedOf, Rank, Wanted
      <3>6. FileInv'
        BY <3>1, <3>3, <3>4, <3>5 DEF QueryInv, FileInv, Wanted
      <3> QED
        BY <3>1, <3>2, <3>6, Zenon
    <2> QED
      BY <2>1, <2>2
  <1>5. TermsTypeOK'
    <2>1. genTerms' \in {"options", "run", "exit_0", "exit_255", "terminated", "killed"}
      BY <1>1 DEF Options, NextTerm, GenEnds, GenKilled
    <2>2. partial' \in BOOLEAN
      BY DEF Options, NextTerm, GenEnds, GenKilled, QueryInv, TermsTypeOK
    <2>3. /\ client' \in {"waits", "load", "ready", "exit_255", "terminated", "crashed"}
          /\ failbit' \in BOOLEAN /\ Len(terms') <= Memory
      BY <1>1 DEF QueryInv, TermsTypeOK
    <2>4. line' \in 0..Len(file')
      <3>1. Len(file') \in Nat
        <4>1. file' \in Seq(TermOf)
          BY <1>4, Zenon DEF FileInv
        <4> QED
          BY <4>1
      <3> QED
        BY <1>1, <1>3, <3>1
    <2> QED
      BY <1>4, <2>1, <2>2, <2>3, <2>4, Zenon DEF TermsTypeOK
  <1>6. LinesInv'
    <2>1. partial' => line' < Len(file')
      <3>1. file' \in Seq(TermOf) /\ (partial' => file' # <<>>)
        BY <1>4 DEF FileInv
      <3> QED
        BY <1>1, <1>3, <3>1
    <2>2. terms' \in Seq(TermOf) /\ Len(terms') = line' /\ \A i \in 1..line' : FALSE
      BY <1>1, <1>3
    <2>3. Wanted(request)' <=> Wanted(request)
      BY <1>1 DEF Wanted
    <2> QED
      BY <1>1, <1>2, <1>3, <2>1, <2>2, <2>3 DEF LinesInv, NoTerm, MAX_TERM_LEN
  <1>7. DrawInRange'
    BY <1>1, <1>2 DEF DrawInRange
  <1> QED
    BY <1>4, <1>5, <1>6, <1>7 DEF QueryInv

\* What the client leaves alone.
LEMMA FileStays ==
  ASSUME QueryInv, UNCHANGED genVars, dictionary' = dictionary,
         client' \in {"waits", "load", "ready", "exit_255", "terminated", "crashed"},
         failbit' \in BOOLEAN, line' \in 0..Len(file), Len(terms') <= Memory
  PROVE  TermsTypeOK' /\ FileInv'
  <1>1. genTerms' = genTerms /\ it' = it /\ file' = file /\ partial' = partial
    BY DEF genVars
  <1>2. WantedOf(file, it - 1)'
    BY <1>1 DEF QueryInv, FileInv, WantedOf, Rank, Wanted
  <1> QED
    BY <1>1, <1>2 DEF QueryInv, TermsTypeOK, FileInv, Wanted

\* The client opens the file of a genTerms that has ended.
LEMMA OpenKeeps ==
  ASSUME QueryInv, Open, dictionary' = dictionary
  PROVE  QueryInv'
  <1>1. /\ UNCHANGED genVars /\ line' = line /\ failbit' = failbit /\ terms' = terms
        /\ request' = request /\ client = "waits" /\ client' \in {"load", "exit_255"}
        /\ genTerms \in {"exit_0", "killed"}
        /\ genTerms' = genTerms /\ file' = file /\ partial' = partial
    BY DEF Open, genVars
  <1>2. failbit' \in BOOLEAN /\ line' \in 0..Len(file) /\ Len(terms') <= Memory
    BY <1>1 DEF QueryInv, TermsTypeOK
  <1>3. TermsTypeOK' /\ FileInv'
    BY <1>1, <1>2, FileStays
  <1>4. LinesInv'
    BY <1>1 DEF QueryInv, LinesInv, Wanted, MAX_TERM_LEN, NoTerm
  <1>5. DrawInRange'
    BY <1>1 DEF DrawInRange
  <1> QED
    BY <1>3, <1>4, <1>5 DEF QueryInv

\* A round of the client's loop: a line is stored, or fails and is stored, or the
\* file is at its end.
LEMMA LineRead ==
  ASSUME QueryInv, ReadLine
  PROVE  /\ UNCHANGED genVars /\ request' = request /\ client = "load"
         /\ Len(terms') <= Memory /\ terms' \in Seq(TermOf) /\ line' \in 0..Len(file)
         /\ \/ failbit /\ failbit' /\ client' = client
            \/ /\ ~failbit /\ failbit' /\ client' = client
            \/ /\ UNCHANGED <<failbit, line, terms>> /\ ~failbit /\ client' = "ready"
               /\ line = IF partial THEN Len(file) - 1 ELSE Len(file)
            \/ /\ ~failbit /\ ~failbit' /\ client' = client /\ line' = line + 1
               /\ terms' = Append(terms, file[line + 1]) /\ file[line + 1].size < MAX_TERM_LEN
               /\ partial => line + 1 < Len(file)
  <1>1. /\ client = "load" /\ Len(terms) < Memory /\ UNCHANGED genVars /\ request' = request
    BY DEF ReadLine
  <1>2. /\ file \in Seq(TermOf) /\ terms \in Seq(TermOf) /\ line \in 0..Len(file)
        /\ failbit \in BOOLEAN /\ partial \in BOOLEAN
        /\ (partial /\ ~failbit => line < Len(file))
    BY <1>1, Zenon DEF QueryInv, FileInv, LinesInv, TermsTypeOK
  <1>3. Len(file) \in Nat /\ line \in Nat /\ Len(terms) \in Nat /\ Memory \in Nat
    BY <1>2, QueryTermsAssumption
  <1> DEFINE next(got) == /\ line' = IF failbit THEN line ELSE line + 1
                          /\ failbit' = got.fail
                          /\ terms' = Append(terms, got.str)
                          /\ UNCHANGED client
  <1>4. /\ Stops(Getline) => client' = "ready" /\ UNCHANGED <<line, failbit, terms>>
        /\ ~Stops(Getline) /\ ~TooBig(Getline) => next(Getline)
    BY DEF ReadLine
  <1>5. ASSUME NEW t \in TermOf PROVE Len(Append(terms, t)) <= Memory /\ Append(terms, t) \in Seq(TermOf)
    BY <1>1, <1>2, <1>3
  <1>6. NoTerm \in TermOf
    BY DEF NoTerm, TermOf
  <1>7. CASE failbit
    <2>1. Getline = [str |-> NoTerm, eof |-> FALSE, fail |-> TRUE, gcount |-> 0]
      BY <1>7 DEF Getline
    <2>2. next(Getline)
      BY <1>4, <2>1 DEF Stops, TooBig, MAX_TERM_LEN
    <2>3. line' = line /\ failbit' = TRUE /\ terms' = Append(terms, NoTerm) /\ client' = client
      BY <1>7, <2>1, <2>2
    <2> QED
      BY <1>1, <1>2, <1>5, <1>6, <1>7, <2>3
  <1>8. CASE ~failbit /\ line = Len(file)
    <2>1. Getline = [str |-> NoTerm, eof |-> TRUE, fail |-> TRUE, gcount |-> 0]
      BY <1>8 DEF Getline
    <2>2. client' = "ready" /\ UNCHANGED <<line, failbit, terms>>
      BY <1>4, <2>1 DEF Stops
    <2>3. ~partial
      BY <1>2, <1>3, <1>8
    <2> QED
      BY <1>1, <1>2, <1>3, <1>8, <2>2, <2>3
  <1>9. CASE ~failbit /\ line # Len(file)
    <2> DEFINE term == file[line + 1]
               last == partial /\ line + 1 = Len(file)
    <2>1. term \in TermOf /\ term.size \in Nat /\ line + 1 \in 0..Len(file)
      <3>1. term \in TermOf /\ line + 1 \in 0..Len(file)
        BY <1>2, <1>3, <1>9
      <3> QED
        BY <3>1 DEF TermOf
    <2>2. CASE term.size >= MAX_TERM_LEN
      <3>1. Getline = [str |-> Cut(term), eof |-> FALSE, fail |-> TRUE, gcount |-> MAX_TERM_LEN - 1]
        BY <1>9, <2>2 DEF Getline
      <3>2. Cut(term) \in TermOf
        BY <2>1 DEF Cut, TermOf, MAX_TERM_LEN
      <3> HIDE DEF term, last
      <3>3. next(Getline)
        BY <1>4, <3>1 DEF Stops, TooBig, MAX_TERM_LEN
      <3>4. line' = line + 1 /\ failbit' = TRUE /\ terms' = Append(terms, Cut(term))
            /\ client' = client
        BY <1>9, <3>1, <3>3
      <3> QED
        BY <1>1, <1>2, <1>5, <1>9, <2>1, <3>2, <3>4
    <2>3. CASE ~(term.size >= MAX_TERM_LEN)
      <3>1. Getline = [str |-> term, eof |-> last, fail |-> FALSE,
                       gcount |-> term.size + (IF last THEN 0 ELSE 1)]
        BY <1>9, <2>3 DEF Getline
      <3>2. CASE last
        <4>1. client' = "ready" /\ UNCHANGED <<line, failbit, terms>>
          BY <1>4, <3>1, <3>2 DEF Stops
        <4>2. partial /\ line = Len(file) - 1
          BY <1>3, <3>2
        <4> QED
          BY <1>1, <1>2, <1>3, <1>9, <4>1, <4>2
      <3>3. CASE ~last
        <4>1. next(Getline)
          BY <1>4, <3>1, <3>3 DEF Stops, TooBig
        <4>2. line' = line + 1 /\ failbit' = FALSE /\ terms' = Append(terms, term)
              /\ client' = client
          BY <1>9, <3>1, <4>1
        <4>3. partial => line + 1 < Len(file)
          BY <1>2, <1>3, <1>9, <3>3
        <4>4. term.size < MAX_TERM_LEN
          BY <2>1, <2>3 DEF MAX_TERM_LEN
        <4> QED
          BY <1>1, <1>2, <1>5, <1>9, <2>1, <4>2, <4>3, <4>4
      <3> QED
        BY <3>2, <3>3
    <2> QED
      BY <2>2, <2>3
  <1> QED
    BY <1>7, <1>8, <1>9

\* The lines that were stored are those of the file, until one fails.
LEMMA LineKeeps ==
  ASSUME QueryInv, ReadLine, dictionary' = dictionary
  PROVE  QueryInv'
  <1>1. /\ UNCHANGED genVars /\ request' = request /\ client = "load"
        /\ Len(terms') <= Memory /\ terms' \in Seq(TermOf) /\ line' \in 0..Len(file)
        /\ client' \in {"load", "ready"} /\ failbit' \in BOOLEAN
    <2>1. /\ UNCHANGED genVars /\ request' = request /\ client = "load"
          /\ Len(terms') <= Memory /\ terms' \in Seq(TermOf) /\ line' \in 0..Len(file)
          /\ client' \in {"load", "ready"}
      BY LineRead
    <2>2. failbit \in BOOLEAN
      BY Zenon DEF QueryInv, TermsTypeOK
    <2>3. failbit' \in BOOLEAN
      <3>2. Getline.fail \in BOOLEAN
        BY DEF Getline
      <3>1. failbit' = failbit \/ failbit' = Getline.fail
        BY DEF ReadLine
      <3> QED
        BY <2>2, <3>1, <3>2
    <2> QED
      BY <2>1, <2>3, Zenon
  <1>2. TermsTypeOK' /\ FileInv'
    BY <1>1, FileStays
  <1>3. /\ genTerms' = genTerms /\ file' = file /\ partial' = partial
        /\ genTerms \in {"exit_0", "killed"}
        /\ (Wanted(request)' <=> Wanted(request))
        /\ request \in TermOf
        /\ request # NoTerm => Wanted(request) /\ request.size < MAX_TERM_LEN
    BY <1>1 DEF genVars, QueryInv, LinesInv, Wanted
  <1>4. ~failbit =>
          /\ Len(terms) = line
          /\ \A i \in 1..line : terms[i] = file[i] /\ terms[i].size < MAX_TERM_LEN
    BY Zenon DEF QueryInv, LinesInv
  <1>5. terms \in Seq(TermOf) /\ line \in Nat /\ Len(file) \in Nat
    <2>1. terms \in Seq(TermOf) /\ line \in 0..Len(file) /\ file \in Seq(TermOf)
      BY Zenon DEF QueryInv, FileInv, LinesInv, TermsTypeOK
    <2> QED
      BY <2>1
  <1>6. ASSUME ~failbit'
        PROVE  /\ Len(terms') = line'
               /\ \A i \in 1..line' : terms'[i] = file[i] /\ terms'[i].size < MAX_TERM_LEN
               /\ partial /\ client' \in {"waits", "load"} => line' < Len(file)
    <2>1. CASE UNCHANGED <<failbit, line, terms>> /\ client' = "ready"
      BY <1>4, <1>6, <2>1
    <2>2. CASE /\ ~failbit /\ line' = line + 1
               /\ terms' = Append(terms, file[line + 1]) /\ file[line + 1].size < MAX_TERM_LEN
               /\ partial => line + 1 < Len(file)
      <3> DEFINE x == file[line + 1]
      <3>1. terms' = Append(terms, x) /\ x = file[line + 1] /\ x.size < MAX_TERM_LEN
        BY <2>2
      <3> HIDE DEF x
      <3>2. /\ Len(terms') = line + 1 /\ terms'[line + 1] = x
            /\ \A i \in 1..line : terms'[i] = terms[i]
        BY <1>4, <1>5, <2>2, <3>1
      <3>3. \A i \in 1..(line + 1) : i = line + 1 \/ i \in 1..line
        BY <1>5
      <3> QED
        BY <1>4, <2>2, <3>1, <3>2, <3>3
    <2> QED
      BY <1>6, <2>1, <2>2, LineRead
  <1>7. client' = "ready" => ~failbit' /\ line' = IF partial THEN Len(file) - 1 ELSE Len(file)
    BY LineRead
  <1>8. LinesInv'
    BY <1>1, <1>3, <1>6, <1>7 DEF LinesInv, NoTerm, MAX_TERM_LEN
  <1>9. DrawInRange'
    BY <1>1 DEF DrawInRange
  <1> QED
    BY <1>2, <1>8, <1>9 DEF QueryInv

\* A draw from the terms stays within them, if there are any.
LEMMA DrawStays ==
  ASSUME QueryInv, terms # <<>>
  PROVE  LastIndex = Len(terms) - 1
  <1>1. terms \in Seq(TermOf) /\ Len(terms) <= Memory
    BY Zenon DEF QueryInv, LinesInv, TermsTypeOK
  <1>2. Len(terms) - 1 \in Nat /\ Len(terms) - 1 < Memory /\ Memory \in Nat
    BY <1>1, QueryTermsAssumption
  <1>3. Len(terms) - 1 < Word /\ Word \in Nat
    BY <1>2, QueryTermsAssumption
  <1> QED
    BY <1>2, <1>3 DEF LastIndex

\* The client draws a request.
LEMMA DrawKeeps ==
  ASSUME QueryInv, GenReq, dictionary' = dictionary
  PROVE  QueryInv'
  <1>1. /\ UNCHANGED genVars /\ line' = line /\ failbit' = failbit /\ terms' = terms
        /\ client = "ready" /\ ~failbit /\ client' \in {"ready", "crashed"}
    BY DEF GenReq, QueryInv, LinesInv
  <1>2. failbit' \in BOOLEAN /\ line' \in 0..Len(file) /\ Len(terms') <= Memory
    BY <1>1 DEF QueryInv, TermsTypeOK
  <1>3. TermsTypeOK' /\ FileInv'
    BY <1>1, <1>2, FileStays
  <1>4. /\ genTerms' = genTerms /\ file' = file /\ partial' = partial
        /\ file \in Seq(TermOf) /\ terms \in Seq(TermOf) /\ line \in 0..Len(file)
        /\ genTerms \in {"exit_0", "killed"} /\ request \in TermOf
        /\ line = IF partial THEN Len(file) - 1 ELSE Len(file)
        /\ Len(terms) = line
        /\ \A i \in 1..line : terms[i] = file[i] /\ terms[i].size < MAX_TERM_LEN
        /\ \A i \in DOMAIN file : Wanted(file[i])
        /\ request # NoTerm => Wanted(request) /\ request.size < MAX_TERM_LEN
    BY <1>1 DEF genVars, QueryInv, LinesInv, FileInv, TermsTypeOK
  <1>5. PICK idx \in 0..LastIndex :
          IF idx < Len(terms)
          THEN request' = terms[idx + 1] /\ UNCHANGED client
          ELSE client' = "crashed" /\ UNCHANGED request
    BY DEF GenReq
  <1>6. /\ request' \in TermOf
        /\ request' # NoTerm => Wanted(request') /\ request'.size < MAX_TERM_LEN
    <2>1. CASE idx < Len(terms)
      <3>1. request' = terms[idx + 1] /\ idx + 1 \in 1..Len(terms) /\ Len(terms) <= Len(file)
        BY <1>4, <1>5, <2>1
      <3> DEFINE i == idx + 1
      <3>2. i \in 1..line /\ i \in DOMAIN file /\ i \in DOMAIN terms /\ request' = terms[i]
        BY <1>4, <3>1
      <3> HIDE DEF i
      <3> QED
        BY <1>4, <3>2
    <2>2. CASE ~(idx < Len(terms))
      BY <1>4, <1>5, <2>2
    <2> QED
      BY <2>1, <2>2
  <1>7. LinesInv'
    <2>1. Wanted(request)' <=> Wanted(request')
      BY DEF Wanted
    <2> QED
      BY <1>1, <1>4, <1>6, <2>1 DEF LinesInv, NoTerm, MAX_TERM_LEN
  <1>8. DrawInRange'
    <2> SUFFICES ASSUME client' = "crashed", terms # <<>> PROVE FALSE
      BY <1>1 DEF DrawInRange
    <2>1. ~(idx < Len(terms))
      BY <1>1, <1>5
    <2>2. LastIndex = Len(terms) - 1 /\ Len(terms) \in Nat
      BY <1>4, DrawStays
    <2> QED
      BY <1>5, <2>1, <2>2
  <1> QED
    BY <1>3, <1>7, <1>8 DEF QueryInv

\* Every step keeps the invariant.
LEMMA QueryStep ==
  ASSUME QueryInv, [TermsNext]_termsVars
  PROVE  QueryInv'
  <1>1. CASE OutOfMemory /\ dictionary' = dictionary
    <2>1. /\ UNCHANGED genVars /\ line' = line /\ failbit' = failbit /\ terms' = terms
          /\ request' = request /\ client = "load" /\ client' = "terminated"
          /\ genTerms' = genTerms /\ file' = file /\ partial' = partial
      BY <1>1 DEF OutOfMemory, genVars
    <2>2. failbit' \in BOOLEAN /\ line' \in 0..Len(file) /\ Len(terms') <= Memory
      BY <2>1 DEF QueryInv, TermsTypeOK
    <2>3. TermsTypeOK' /\ FileInv'
      BY <1>1, <2>1, <2>2, FileStays
    <2>4. LinesInv'
      BY <2>1 DEF QueryInv, LinesInv, Wanted, MAX_TERM_LEN, NoTerm
    <2>5. DrawInRange'
      BY <2>1 DEF DrawInRange
    <2> QED
      BY <2>3, <2>4, <2>5 DEF QueryInv
  <1>2. CASE UNCHANGED termsVars
    <2>1. /\ UNCHANGED genVars /\ line' = line /\ failbit' = failbit /\ terms' = terms
          /\ request' = request /\ client' = client /\ dictionary' = dictionary
          /\ genTerms' = genTerms /\ file' = file /\ partial' = partial
      BY <1>2 DEF termsVars, genVars, clientVars
    <2>2. /\ failbit' \in BOOLEAN /\ line' \in 0..Len(file) /\ Len(terms') <= Memory
          /\ client' \in {"waits", "load", "ready", "exit_255", "terminated", "crashed"}
      BY <2>1 DEF QueryInv, TermsTypeOK
    <2>3. TermsTypeOK' /\ FileInv'
      BY <2>1, <2>2, FileStays
    <2>4. LinesInv'
      BY <2>1 DEF QueryInv, LinesInv, Wanted, MAX_TERM_LEN, NoTerm
    <2>5. DrawInRange'
      BY <2>1 DEF QueryInv, DrawInRange
    <2> QED
      BY <2>3, <2>4, <2>5 DEF QueryInv
  <1> QED
    BY <1>1, <1>2, GenKeeps, OpenKeeps, LineKeeps, DrawKeeps DEF TermsNext

\* What the client has loaded, and what it draws.
LEMMA QueriesAsWanted ==
  ASSUME QueryInv
  PROVE  TermsInv
  <1>1. LoadedExactly
    <2> SUFFICES ASSUME client = "ready" PROVE LoadedExactly
      BY DEF LoadedExactly
    <2>1. /\ file \in Seq(TermOf) /\ terms \in Seq(TermOf)
          /\ genTerms \in {"exit_0", "killed"}
          /\ line = IF partial THEN Len(file) - 1 ELSE Len(file)
          /\ Len(terms) = line /\ line \in 0..Len(file)
          /\ \A i \in 1..line : terms[i] = file[i]
          /\ WantedOf(file, it - 1)
          /\ genTerms = "exit_0" => it = Len(dictionary) + 1 /\ ~partial
          /\ dictionary \in Dictionaries
      BY DEF QueryInv, FileInv, LinesInv, TermsTypeOK
    <2>2. CASE ~partial
      <3>1. terms = file
        BY <2>1, <2>2, SeqEqual
      <3>2. CASE genTerms = "exit_0"
        <4>1. Len(dictionary) \in Nat
          BY <2>1, DictionaryType
        <4>2. it - 1 = Len(dictionary)
          BY <2>1, <3>2, <4>1
        <4> QED
          BY <2>1, <3>1, <3>2, <4>2 DEF LoadedExactly
      <3>3. CASE genTerms # "exit_0"
        BY <2>2, <3>1, <3>3 DEF LoadedExactly
      <3> QED
        BY <3>2, <3>3
    <2>3. CASE partial
      <3> DEFINE s == SubSeq(file, 1, Len(file) - 1)
      <3>1. /\ s \in Seq(TermOf) /\ Len(s) = Len(file) - 1
            /\ \A i \in 1..(Len(file) - 1) : s[i] = file[i]
        BY <2>1, <2>3
      <3> HIDE DEF s
      <3>2. terms = s
        BY <2>1, <2>3, <3>1, SeqEqual
      <3>3. terms = Front(file)
        BY <3>2 DEF Front, s
      <3> QED
        BY <2>1, <2>3, <3>3 DEF LoadedExactly
    <2> QED
      BY <2>2, <2>3
  <1>2. RequestsWanted
    <2> SUFFICES ASSUME request # NoTerm PROVE Wanted(request) /\ request.size + 1 < 256
      BY DEF RequestsWanted
    <2>1. Wanted(request) /\ request.size < MAX_TERM_LEN /\ request \in TermOf
      BY Zenon DEF QueryInv, LinesInv
    <2>2. request.size \in Nat
      BY <2>1 DEF TermOf
    <2>3. request.size + 1 < 256
      BY <2>1, <2>2 DEF MAX_TERM_LEN
    <2> QED
      BY <2>1, <2>3
  <1> QED
    BY <1>1, <1>2 DEF QueryInv, TermsInv

\* A request is drawn from the terms genTerms selected, all of them if it ran to its end,
\* or the client ends before it draws one.
THEOREM TermsAreWanted == TermsSpec => []TermsInv
  BY QueryInit, QueryStep, QueriesAsWanted, PTL DEF TermsSpec
-----------------------------------------------------------------------------
(* The page of results.                                                    *)

\* The characters of the descriptions in s, as pairs of a description and a place.
Cells(sizes, s) == UNION {{i} \X (1..sizes[i]) : i \in s}

\* What the fold of Total computes, for the subsets of the documents.
SumStep(sizes, g) ==
  [s \in SUBSET DOMAIN sizes |->
     IF s = {} THEN 0 ELSE sizes[CHOOSE x \in s : TRUE] + g[s \ {CHOOSE x \in s : TRUE}]]

\* That is its definition.
LEMMA TotalFolds ==
  ASSUME NEW sizes \in Seq(Nat)
  PROVE  Total(sizes) = (CHOOSE g : g = SumStep(sizes, g))[DOMAIN sizes]
  BY DEF Total, FoldSeq, FoldFunction, FoldFunctionOnSet, MapThenFoldSet, SumStep

\* The characters can be counted.
LEMMA CellsFinite ==
  ASSUME NEW sizes \in Seq(Nat), NEW s \in SUBSET DOMAIN sizes
  PROVE  IsFiniteSet(s) /\ IsFiniteSet(Cells(sizes, s)) /\ Cardinality(Cells(sizes, s)) \in Nat
  <1> DEFINE S == {{i} \X (1..sizes[i]) : i \in s}
             f == [i \in s |-> {i} \X (1..sizes[i])]
  <1>1. IsFiniteSet(s)
    <2>1. DOMAIN sizes = 1..Len(sizes) /\ Len(sizes) \in Nat
      OBVIOUS
    <2>2. 1 \in Int /\ Len(sizes) \in Int
      OBVIOUS
    <2>3. IsFiniteSet(DOMAIN sizes)
      BY <2>1, <2>2, FS_Interval
    <2> QED
      BY <2>3, FS_Subset
  <1>2. f \in [s -> S] /\ \A T \in S : \E i \in s : f[i] = T
    OBVIOUS
  <1>3. \A T \in S : IsFiniteSet(T)
    <2> SUFFICES ASSUME NEW i \in s PROVE IsFiniteSet({i} \X (1..sizes[i]))
      OBVIOUS
    <2>1. 1 \in Int /\ sizes[i] \in Int
      OBVIOUS
    <2>2. IsFiniteSet(1..sizes[i])
      BY <2>1, FS_Interval
    <2>3. IsFiniteSet({i})
      BY FS_Singleton
    <2> QED
      BY <2>2, <2>3, FS_Product
  <1>4. Cells(sizes, s) = UNION S
    BY DEF Cells
  <1> HIDE DEF S, f
  <1>5. f \in Surjection(s, S)
    BY <1>2 DEF Surjection
  <1>6. IsFiniteSet(S)
    BY <1>1, <1>5, FS_Surjection
  <1>7. IsFiniteSet(UNION S)
    BY <1>3, <1>6, FS_UNION
  <1> QED
    BY <1>1, <1>4, <1>7, FS_CardinalityType

\* Each description has as many of them as it is long.
LEMMA CellsGrow ==
  ASSUME NEW sizes \in Seq(Nat), NEW s \in SUBSET DOMAIN sizes, NEW x \in s
  PROVE  Cardinality(Cells(sizes, s)) = sizes[x] + Cardinality(Cells(sizes, s \ {x}))
  <1> DEFINE A == Cells(sizes, s \ {x})
             B == {x} \X (1..sizes[x])
  <1>1. Cells(sizes, s) = A \cup B
    BY DEF Cells
  <1>2. A \cap B = {}
    BY DEF Cells
  <1>3. IsFiniteSet(A) /\ Cardinality(A) \in Nat
    BY CellsFinite
  <1>4. IsFiniteSet(B) /\ Cardinality(B) = sizes[x] /\ sizes[x] \in Nat
    <2>1. sizes[x] \in Nat /\ 1 \in Int /\ sizes[x] \in Int
      OBVIOUS
    <2>2. IsFiniteSet(1..sizes[x])
          /\ Cardinality(1..sizes[x]) = IF 1 > sizes[x] THEN 0 ELSE sizes[x] - 1 + 1
      BY <2>1, FS_Interval
    <2>3. IsFiniteSet({x}) /\ Cardinality({x}) = 1
      BY FS_Singleton
    <2>4. IsFiniteSet(B) /\ Cardinality(B) = 1 * Cardinality(1..sizes[x])
      BY <2>2, <2>3, FS_Product
    <2>5. Cardinality(1..sizes[x]) = sizes[x]
      BY <2>1, <2>2
    <2> QED
      BY <2>1, <2>4, <2>5
  <1> HIDE DEF A, B
  <1>5. Cardinality(A \cup B) = Cardinality(A) + Cardinality(B) - Cardinality(A \cap B)
    BY <1>3, <1>4, FS_Union
  <1>6. Cardinality(A \cap B) = 0
    BY <1>2, FS_EmptySet
  <1>7. Cardinality(A \cup B) = sizes[x] + Cardinality(A)
    BY <1>3, <1>4, <1>5, <1>6
  <1> QED
    BY <1>1, <1>7 DEF A

\* The recursion of the fold has one solution, the number of characters.
LEMMA SumStepCounts ==
  ASSUME NEW sizes \in Seq(Nat), NEW g, g = SumStep(sizes, g), NEW s \in SUBSET DOMAIN sizes
  PROVE  g[s] = Cardinality(Cells(sizes, s))
  <1> DEFINE D == DOMAIN sizes
             R == StrictSubsetOrdering(D)
             Bad == {t \in SUBSET D : g[t] # Cardinality(Cells(sizes, t))}
  <1>1. SUFFICES ASSUME Bad # {} PROVE FALSE
    OBVIOUS
  <1>2. Bad \subseteq FiniteSubsetsOf(D)
    BY CellsFinite DEF FiniteSubsetsOf
  <1>3. PICK t \in Bad : \A y \in Bad : ~(<<y, t>> \in R)
    <2> HIDE DEF Bad
    <2> QED
      BY <1>1, <1>2, FS_StrictSubsetOrderingWellFounded, WFMin
  <1> DEFINE x == CHOOSE y \in t : TRUE
  <1>4. g[t] = IF t = {} THEN 0 ELSE sizes[x] + g[t \ {x}]
    BY DEF SumStep
  <1>5. t # {}
    <2>1. Cells(sizes, {}) = {}
      BY DEF Cells
    <2>2. Cardinality(Cells(sizes, {})) = 0
      BY <2>1, FS_EmptySet
    <2> QED
      BY <1>4, <2>2
  <1>6. x \in t
    BY <1>5
  <1> HIDE DEF x
  <1>7. t \ {x} \notin Bad
    <2>1. <<t \ {x}, t>> \in R
      BY <1>6 DEF StrictSubsetOrdering
    <2> QED
      BY <1>3, <2>1
  <1>8. g[t \ {x}] = Cardinality(Cells(sizes, t \ {x}))
    BY <1>7
  <1>9. Cardinality(Cells(sizes, t)) = sizes[x] + Cardinality(Cells(sizes, t \ {x}))
    BY <1>6, CellsGrow
  <1> QED
    BY <1>4, <1>5, <1>8, <1>9

\* The total of the sizes is the number of the characters.
LEMMA TotalCounts ==
  ASSUME NEW sizes \in Seq(Nat)
  PROVE  Total(sizes) = Cardinality(Cells(sizes, DOMAIN sizes))
  <1> DEFINE g == [s \in SUBSET DOMAIN sizes |-> Cardinality(Cells(sizes, s))]
  <1>1. g = SumStep(sizes, g)
    <2> SUFFICES ASSUME NEW s \in SUBSET DOMAIN sizes
                 PROVE  Cardinality(Cells(sizes, s)) =
                          IF s = {} THEN 0
                          ELSE sizes[CHOOSE x \in s : TRUE]
                                 + Cardinality(Cells(sizes, s \ {CHOOSE x \in s : TRUE}))
      BY DEF SumStep
    <2>1. CASE s = {}
      <3>1. Cells(sizes, s) = {}
        BY <2>1 DEF Cells
      <3> QED
        BY <2>1, <3>1, FS_EmptySet
    <2>2. CASE s # {}
      <3>1. (CHOOSE x \in s : TRUE) \in s
        BY <2>2
      <3> QED
        BY <2>2, <3>1, CellsGrow
    <2> QED
      BY <2>1, <2>2
  <1> DEFINE h == CHOOSE f : f = SumStep(sizes, f)
  <1> HIDE DEF g
  <1>2. h = SumStep(sizes, h)
    BY <1>1
  <1>3. Total(sizes) = h[DOMAIN sizes]
    BY TotalFolds
  <1> HIDE DEF h
  <1> QED
    BY <1>2, <1>3, SumStepCounts

\* The sizes of the first n descriptions.
First(sizes, n) == SubSeq(sizes, 1, n)

\* One description more, and its size more.
LEMMA TotalGrows ==
  ASSUME NEW sizes \in Seq(Nat), NEW n \in Nat, n < Len(sizes)
  PROVE  /\ Total(First(sizes, n)) \in Nat
         /\ Total(First(sizes, n + 1)) = Total(First(sizes, n)) + sizes[n + 1]
  <1>1. ASSUME NEW k \in Nat, k <= Len(sizes)
        PROVE  Total(First(sizes, k)) = Cardinality(Cells(sizes, 1..k))
    <2> DEFINE t == First(sizes, k)
    <2>1. t \in Seq(Nat) /\ DOMAIN t = 1..k /\ \A i \in 1..k : t[i] = sizes[i]
      BY <1>1 DEF First
    <2> HIDE DEF t
    <2>2. Cells(t, DOMAIN t) = Cells(sizes, 1..k)
      BY <2>1 DEF Cells
    <2>3. Total(t) = Cardinality(Cells(t, DOMAIN t))
      BY <2>1, TotalCounts
    <2> QED
      BY <2>2, <2>3 DEF t
  <1>2. 1..(n + 1) \in SUBSET DOMAIN sizes /\ 1..n \in SUBSET DOMAIN sizes
        /\ n + 1 \in 1..(n + 1) /\ (1..(n + 1)) \ {n + 1} = 1..n
        /\ n <= Len(sizes) /\ n + 1 <= Len(sizes) /\ n + 1 \in Nat
    OBVIOUS
  <1>3. Cardinality(Cells(sizes, 1..(n + 1))) = sizes[n + 1] + Cardinality(Cells(sizes, 1..n))
    BY <1>2, CellsGrow
  <1>4. Cardinality(Cells(sizes, 1..n)) \in Nat /\ sizes[n + 1] \in Nat
    BY <1>2, CellsFinite
  <1> QED
    BY <1>1, <1>2, <1>3, <1>4

\* The fold over nothing.
LEMMA TotalOfNone == ASSUME NEW sizes \in Seq(Nat) PROVE Total(First(sizes, 0)) = 0
  <1>1. First(sizes, 0) \in Seq(Nat) /\ DOMAIN First(sizes, 0) = {}
    BY DEF First
  <1>2. Cells(First(sizes, 0), {}) = {}
    BY DEF Cells
  <1> QED
    BY <1>1, <1>2, TotalCounts, FS_EmptySet

\* What the loop has counted so far; that it goes on with the next document, or has all.
PageInv ==
  /\ progress \in {"search", "page", "sent"} /\ mset \in Seq(Nat)
  /\ doc \in Nat /\ doccount \in Nat /\ doccount <= Len(mset) /\ doccount <= MAX_DOC_COUNT
  /\ resLen = Total(First(mset, doccount))
  /\ doc <= Len(mset) => progress # "sent" /\ doc = doccount + 1 /\ doccount < MAX_DOC_COUNT
  /\ doc > Len(mset) => doccount = Len(mset) \/ doccount = MAX_DOC_COUNT

\* In every state.
LEMMA PageInvHolds == PageSpec => []PageInv
  <1>1. ASSUME PageInit PROVE PageInv
    <2>1. /\ progress = "search" /\ mset = <<>> /\ doc = 1 /\ resLen = 0 /\ doccount = 0
          /\ mset \in Seq(Nat) /\ Len(mset) = 0
      BY <1>1 DEF PageInit
    <2>2. resLen = Total(First(mset, doccount))
      BY <2>1, TotalOfNone
    <2> QED
      BY <2>1, <2>2 DEF PageInv, MAX_DOC_COUNT
  <1>2. ASSUME PageInv, [PageNext]_pageVars PROVE PageInv'
    <2>0. /\ mset \in Seq(Nat) /\ Len(mset) \in Nat /\ doc \in Nat /\ doccount \in Nat
          /\ progress \in {"search", "page", "sent"}
      BY <1>2 DEF PageInv
    <2>1. CASE Search
      <3>1. mset' \in Seq(Nat) /\ Len(mset') \in Nat
        <4>1. mset' \in Seq(Nat \ {0})
          BY <2>1, ResultPageAssumption DEF Search, ResultPageAssumption
        <4> QED
          BY <4>1
      <3>2. progress' = "page" /\ doc' = 1 /\ doccount' = 0 /\ resLen' = Total(First(mset', 0))
        BY <2>1, <3>1, TotalOfNone DEF Search
      <3>3. doc' > Len(mset') => doccount' = Len(mset')
        BY <3>1, <3>2
      <3> QED
        BY <3>1, <3>2, <3>3 DEF PageInv, MAX_DOC_COUNT
    <2>2. CASE CopyNext
      <3>1. /\ progress' = progress /\ mset' = mset /\ progress = "page" /\ doc <= Len(mset)
            /\ doccount' = doccount + 1 /\ resLen' = resLen + mset[doc]
            /\ doc' = IF doccount + 1 = 25 THEN Len(mset) + 1 ELSE doc + 1
        BY <2>2 DEF CopyNext, PageFull, MAX_DOC_COUNT
      <3>2. doc = doccount + 1 /\ doccount < 25 /\ resLen = Total(First(mset, doccount))
        BY <1>2, <3>1 DEF PageInv, MAX_DOC_COUNT
      <3>3. resLen' = Total(First(mset', doccount'))
        BY <2>0, <3>1, <3>2, TotalGrows
      <3>4. /\ doc' \in Nat /\ doccount' \in Nat /\ doccount' <= Len(mset') /\ doccount' <= 25
            /\ doc' <= Len(mset') => doc' = doccount' + 1 /\ doccount' < 25
            /\ doc' > Len(mset') => doccount' = Len(mset') \/ doccount' = 25
        BY <2>0, <3>1, <3>2
      <3> QED
        BY <2>0, <3>1, <3>3, <3>4 DEF PageInv, MAX_DOC_COUNT
    <2>3. CASE Send
      BY <1>2, <2>0, <2>3 DEF Send, PageInv
    <2>4. CASE NextRequest
      BY <1>2, <2>0, <2>4 DEF NextRequest, PageInv
    <2>5. CASE UNCHANGED pageVars
      BY <1>2, <2>5 DEF pageVars, PageInv
    <2> QED
      BY <1>2, <2>1, <2>2, <2>3, <2>4, <2>5 DEF PageNext
  <1> QED
    BY <1>1, <1>2, PTL DEF PageSpec

\* For match sets and descriptions of any sizes, the length of a response is that of the
\* descriptions of at most 25 documents, the first of the match set.
THEOREM ResponseLengthIsTotal == PageSpec => []LengthIsTotal
  <1>1. ASSUME PageInv PROVE LengthIsTotal
    <2> SUFFICES ASSUME progress = "sent" PROVE resLen = Total(Page) /\ doccount = Len(Page)
      BY DEF LengthIsTotal
    <2> DEFINE n == IF Len(mset) < MAX_DOC_COUNT THEN Len(mset) ELSE MAX_DOC_COUNT
    <2>1. mset \in Seq(Nat) /\ Len(mset) \in Nat /\ doccount \in Nat
          /\ doccount <= Len(mset) /\ doccount <= 25 /\ ~(doc <= Len(mset)) /\ doc \in Nat
          /\ (doc > Len(mset) => doccount = Len(mset) \/ doccount = 25)
          /\ resLen = Total(First(mset, doccount))
      BY <1>1 DEF PageInv, MAX_DOC_COUNT
    <2>2. doccount = n /\ n \in Nat /\ n <= Len(mset)
      BY <2>1 DEF MAX_DOC_COUNT
    <2>3. Page = First(mset, n)
      BY DEF Page, First
    <2> HIDE DEF n
    <2>4. Len(First(mset, n)) = n
      BY <2>1, <2>2 DEF First
    <2> QED
      BY <2>1, <2>2, <2>3, <2>4
  <1> QED
    BY <1>1, PageInvHolds, PTL
=============================================================================
