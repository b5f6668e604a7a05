-------------------------- MODULE RingBufferProofs --------------------------
(* The ring buffer keeps its counters in step and implements the bounded     *)
(* queue, for every size, every width of the counters and every data.        *)
EXTENDS RingBuffer, TLAPS, SequenceTheorems

\* Division with remainder is unique.
LEMMA ModUnique ==
  ASSUME NEW n \in Nat, n > 0, NEW q \in Nat, NEW r \in Nat, r < n
  PROVE  (q * n + r) % n = r
OBVIOUS

LEMMA ModExists ==
  ASSUME NEW n \in Nat, n > 0, NEW x \in Nat
  PROVE  /\ x % n \in 0 .. n - 1
         /\ \E q \in Nat : x = q * n + (x % n)
<1>1. x % n \in 0 .. n - 1
  OBVIOUS
<1>2. x \div n \in Nat /\ x = (x \div n) * n + (x % n)
  OBVIOUS
<1> QED BY <1>1, <1>2

\* The place of a counter that is j further on: j further on in the buffer,
\* from its beginning again after its end, also when the counter wraps.
LEMMA PlaceStep ==
  ASSUME NEW c \in 0 .. Modulus - 1, NEW j \in 0 .. Size
  PROVE  /\ Plus(c, j) \in 0 .. Modulus - 1
         /\ c % Size \in Places
         /\ Plus(c, j) % Size = IF (c % Size) + j < Size THEN (c % Size) + j
                                                         ELSE (c % Size) + j - Size
<1> DEFINE r == c % Size
<1>1. /\ Size \in Nat /\ Size > 0
      /\ Modulus \in Nat /\ Modulus > Size
      /\ c \in Nat /\ j \in Nat
  BY SizeAssumption, ModulusAssumption
<1>2. PICK q \in Nat : c = q * Size + r
  BY <1>1, ModExists
<1>3. r \in Places /\ r \in Nat /\ r < Size
  BY <1>1, ModExists DEF Places
<1>4. PICK k \in Nat : Modulus = k * Size
  <2>1. PICK k \in Nat : Modulus = k * Size + (Modulus % Size)
    BY <1>1, ModExists
  <2> QED BY <2>1, <1>1, ModulusAssumption
<1>5. Plus(c, j) \in 0 .. Modulus - 1
  BY <1>1 DEF Plus
<1> DEFINE s == IF r + j < Size THEN r + j ELSE r + j - Size
           d == IF r + j < Size THEN 0 ELSE 1
<1>6. /\ s \in Nat /\ s < Size /\ d \in {0, 1}
      /\ c + j = (q + d) * Size + s
  BY <1>1, <1>2, <1>3
<1> HIDE DEF r, s, d
<1>7. CASE c + j < Modulus
  <2>1. Plus(c, j) = (q + d) * Size + s
    BY <1>1, <1>6, <1>7 DEF Plus
  <2>2. q + d \in Nat
    BY <1>6
  <2>3. ((q + d) * Size + s) % Size = s
    BY <2>2, <1>1, <1>6, ModUnique
  <2> QED BY <2>1, <2>3, <1>3, <1>5 DEF s, r
<1>8. CASE ~(c + j < Modulus)
  <2>1. Plus(c, j) = ((q + d) * Size + s) - k * Size
    BY <1>1, <1>4, <1>6, <1>8 DEF Plus
  <2>2. (q + d) >= k
    <3>1. SUFFICES ASSUME q + d + 1 <= k PROVE FALSE
      BY <1>6
    <3>2. (q + d + 1) * Size <= k * Size
      BY <3>1, <1>6, <1>1
    <3> QED BY <3>2, <1>1, <1>4, <1>6, <1>8
  <2>3. /\ q + d - k \in Nat
        /\ Plus(c, j) = (q + d - k) * Size + s
    BY <2>1, <2>2, <1>6, <1>1
  <2>4. ((q + d - k) * Size + s) % Size = s
    BY <2>3, <1>1, <1>6, ModUnique
  <2> QED BY <2>3, <2>4, <1>3, <1>5 DEF s, r
<1> QED BY <1>7, <1>8

\* Counters: distance and sum, modulo the width of the counters.
LEMMA Distance ==
  ASSUME NEW a \in 0 .. Modulus - 1, NEW b \in 0 .. Modulus - 1
  PROVE  /\ Minus(a, b) \in 0 .. Modulus - 1
         /\ a = b <=> Minus(a, b) = 0
         /\ \A j \in 0 .. Size : Minus(a, b) + j <= Size => Minus(Plus(a, j), b) = Minus(a, b) + j
         /\ \A j \in 0 .. Size : j <= Minus(a, b) => Minus(a, Plus(b, j)) = Minus(a, b) - j
         /\ Plus(b, Minus(a, b)) = a
BY SizeAssumption, ModulusAssumption DEF Minus, Plus

-----------------------------------------------------------------------------
(* The inductive invariant: it is inductive as it stands.                    *)
IInv == TypeOK /\ LenBounded

LEMMA InitInv == Init => IInv
BY SizeAssumption, ModulusAssumption, SampleAssumption
   DEF Init, IInv, TypeOK, LenBounded, BufferLen, Minus, Places

LEMMA BoundedSeqType ==
  ASSUME NEW data \in BoundedSeq(Samples, MaxXfer)
  PROVE  data \in Seq(Samples)
BY DEF BoundedSeq, SeqOf

LEMMA FillType ==
  ASSUME TypeOK, LenBounded
  PROVE  /\ BufferLen \in 0 .. Size
         /\ Size - BufferLen \in 0 .. Size
         /\ in = Plus(out, BufferLen)
<1>1. in \in 0 .. Modulus - 1 /\ out \in 0 .. Modulus - 1
  BY DEF TypeOK
<1>2. BufferLen \in 0 .. Modulus - 1 /\ in = Plus(out, BufferLen)
  BY <1>1, Distance DEF BufferLen
<1> QED BY <1>2, SizeAssumption, ModulusAssumption DEF LenBounded

\* What the two memcpy calls of a put leave in the buffer, read through the
\* counters: the unread samples are where they were, the new ones after them.
LEMMA CopyInPlaces ==
  ASSUME TypeOK, LenBounded, NEW data \in Seq(Samples),
         NEW size \in 0 .. Size - BufferLen, size <= Len(data)
  PROVE  /\ CopyIn(data, size) \in [Places -> Samples]
         /\ \A i \in 1 .. BufferLen + size :
              CopyIn(data, size)[Plus(out, i - 1) % Size] =
                IF i <= BufferLen THEN buffer[Plus(out, i - 1) % Size]
                                  ELSE data[i - BufferLen]
<1> DEFINE L == BufferLen
           at == in % Size
           o == out % Size
<1>1. /\ Size \in Nat /\ Size > 0 /\ L \in 0 .. Size /\ size \in Nat /\ L + size <= Size
      /\ Len(data) \in Nat
      /\ \A i \in 1 .. Len(data) : data[i] \in Samples
      /\ out \in 0 .. Modulus - 1 /\ in = Plus(out, L)
  BY FillType, SizeAssumption DEF TypeOK
<1>2. /\ o \in Places
      /\ at = IF o + L < Size THEN o + L ELSE o + L - Size
  BY <1>1, PlaceStep
<1>3. at \in Places /\ at \in 0 .. Size - 1 /\ o \in 0 .. Size - 1
  BY <1>1, <1>2 DEF Places
<1> DEFINE len == Smallest(size, Size - at)
<1>4. len \in Nat /\ len = IF size < Size - at THEN size ELSE Size - at
  BY <1>1, <1>3 DEF Smallest
<1>5. \A p \in Places : CopyIn(data, size)[p] =
                          IF p >= at /\ p < at + len THEN data[p - at + 1]
                          ELSE IF p < size - len THEN data[len + p + 1]
                          ELSE buffer[p]
  BY DEF CopyIn
<1>6. CopyIn(data, size) \in [Places -> Samples]
  <2>1. ASSUME NEW p \in Places PROVE CopyIn(data, size)[p] \in Samples
    <3>1. buffer[p] \in Samples
      BY DEF TypeOK
    <3>2. p \in Nat
      BY <1>1 DEF Places
    <3>3. len <= size /\ size <= Len(data)
      BY <1>1, <1>3, <1>4
    <3> HIDE DEF at, len, L, o
    <3>4. CASE p >= at /\ p < at + len
      <4>1. p - at + 1 \in 1 .. Len(data)
        BY <3>2, <3>3, <3>4, <1>1, <1>3, <1>4
      <4> QED BY <4>1, <3>4, <1>1, <1>5
    <3>5. CASE ~(p >= at /\ p < at + len) /\ p < size - len
      <4>1. len + p + 1 \in 1 .. Len(data)
        BY <3>2, <3>3, <3>5, <1>1, <1>3, <1>4
      <4> QED BY <4>1, <3>5, <1>1, <1>5
    <3>6. CASE ~(p >= at /\ p < at + len) /\ ~(p < size - len)
      BY <3>1, <3>6, <1>5
    <3> QED BY <3>4, <3>5, <3>6
  <2>2. CopyIn(data, size) = [p \in Places |-> CopyIn(data, size)[p]]
    BY DEF CopyIn
  <2> QED BY <2>1, <2>2
<1>7. ASSUME NEW i \in 1 .. L + size
      PROVE  CopyIn(data, size)[Plus(out, i - 1) % Size] =
                IF i <= L THEN buffer[Plus(out, i - 1) % Size] ELSE data[i - L]
  <2> DEFINE p == Plus(out, i - 1) % Size
  <2>1. i - 1 \in 0 .. Size
    BY <1>1
  <2>2. p = IF o + (i - 1) < Size THEN o + (i - 1) ELSE o + (i - 1) - Size
    BY <2>1, <1>1, PlaceStep
  <2>3. p \in Places
    BY <2>1, <2>2, <1>1, <1>3 DEF Places
  <2>4. CopyIn(data, size)[p] = IF p >= at /\ p < at + len THEN data[p - at + 1]
                          ELSE IF p < size - len THEN data[len + p + 1]
                          ELSE buffer[p]
    BY <2>3, <1>5
  <2> HIDE DEF p, at, len, L, o
  <2>5. CASE i <= L
    <3>1. ~(p >= at /\ p < at + len) /\ ~(p < size - len)
      BY <2>5, <2>2, <1>1, <1>2, <1>3, <1>4
    <3> QED BY <3>1, <2>4, <2>5 DEF p
  <2>6. CASE ~(i <= L) /\ p >= at /\ p < at + len
    <3>1. p - at + 1 = i - L
      BY <2>6, <2>2, <1>1, <1>2, <1>3, <1>4
    <3> QED BY <3>1, <2>4, <2>6 DEF p
  <2>7. CASE ~(i <= L) /\ ~(p >= at /\ p < at + len)
    <3>1. p < size - len /\ len + p + 1 = i - L
      BY <2>7, <2>2, <1>1, <1>2, <1>3, <1>4
    <3> QED BY <3>1, <2>4, <2>7 DEF p
  <2> QED BY <2>5, <2>6, <2>7
<1> QED BY <1>6, <1>7

\* What a get copies out: the oldest samples in order.
LEMMA CopyOutPlaces ==
  ASSUME TypeOK, LenBounded, NEW size \in 0 .. BufferLen
  PROVE  CopyOut(size) = [i \in 1 .. size |-> buffer[Plus(out, i - 1) % Size]]
<1> DEFINE at == out % Size
           len == Smallest(size, Size - at)
<1>1. /\ Size \in Nat /\ Size > 0 /\ BufferLen \in 0 .. Size /\ size \in 0 .. Size
      /\ out \in 0 .. Modulus - 1
  BY FillType, SizeAssumption DEF TypeOK
<1>2. at \in 0 .. Size - 1
  BY <1>1
<1>3. len = IF size < Size - at THEN size ELSE Size - at
  BY <1>1, <1>2 DEF Smallest
<1>4. ASSUME NEW i \in 1 .. size
      PROVE  (IF i <= len THEN at + i - 1 ELSE i - len - 1) = Plus(out, i - 1) % Size
  <2>1. i - 1 \in 0 .. Size
    BY <1>1
  <2>2. Plus(out, i - 1) % Size = IF at + (i - 1) < Size THEN at + (i - 1) ELSE at + (i - 1) - Size
    BY <2>1, <1>1, PlaceStep
  <2> HIDE DEF at, len
  <2> QED BY <2>1, <2>2, <1>1, <1>2, <1>3
<1>5. \A i \in 1 .. size : (IF i <= len THEN buffer[at + i - 1] ELSE buffer[i - len - 1])
                             = buffer[Plus(out, i - 1) % Size]
  BY <1>4
<1> QED BY <1>5 DEF CopyOut

-----------------------------------------------------------------------------
LEMMA PutInv ==
  ASSUME TypeOK, LenBounded, NEW data \in Seq(Samples), Put(data)
  PROVE  TypeOK' /\ LenBounded'
<1> DEFINE size == Smallest(Len(data), Size - BufferLen)
<1>1. size \in 0 .. Size - BufferLen /\ size <= Len(data) /\ size \in 0 .. Size
  BY FillType, SizeAssumption DEF Smallest
<1>2. buffer' \in [Places -> Samples]
  BY <1>1, CopyInPlaces DEF Put
<1>3. in' = Plus(in, size) /\ out' = out /\ given' = data /\ got' = <<>>
  BY DEF Put
<1> HIDE DEF size
<1>4. /\ in' \in 0 .. Modulus - 1
      /\ Minus(Plus(in, size), out) = Minus(in, out) + size
  <2>1. in \in 0 .. Modulus - 1 /\ out \in 0 .. Modulus - 1
    BY DEF TypeOK
  <2>2. Minus(in, out) + size <= Size
    BY <1>1, FillType, SizeAssumption DEF BufferLen
  <2> QED BY <1>1, <1>3, <2>1, <2>2, PlaceStep, Distance
<1>5. TypeOK'
  BY <1>2, <1>3, <1>4 DEF TypeOK
<1>6. BufferLen' = BufferLen + size
  BY <1>3, <1>4 DEF BufferLen
<1>7. LenBounded'
  BY <1>6, <1>1, FillType, SizeAssumption DEF LenBounded
<1> QED BY <1>5, <1>7

LEMMA GetInv ==
  ASSUME TypeOK, LenBounded, NEW n \in Nat, Get(n)
  PROVE  TypeOK' /\ LenBounded'
<1> DEFINE size == Smallest(n, BufferLen)
<1>1. size \in 0 .. BufferLen /\ size \in 0 .. Size
  BY FillType, SizeAssumption DEF Smallest
<1>2. /\ given' = <<>> /\ got' = CopyOut(size) /\ buffer' = buffer
      /\ \/ in = Plus(out, size) /\ in' = 0 /\ out' = 0
         \/ in # Plus(out, size) /\ out' = Plus(out, size) /\ in' = in
  BY DEF Get
<1> HIDE DEF size
<1>3. got' \in Seq(Samples)
  <2>1. \A i \in 1 .. size : Plus(out, i - 1) % Size \in Places
    <3>1. ASSUME NEW i \in 1 .. size PROVE Plus(out, i - 1) % Size \in Places
      <4>1. i - 1 \in 0 .. Size
        BY <1>1, SizeAssumption
      <4>2. /\ out \in 0 .. Modulus - 1
            /\ Plus(out, i - 1) \in 0 .. Modulus - 1
        BY <4>1, PlaceStep DEF TypeOK
      <4> QED BY <4>2, PlaceStep, SizeAssumption
    <3> QED BY <3>1
  <2>2. CopyOut(size) = [i \in 1 .. size |-> buffer[Plus(out, i - 1) % Size]]
    BY <1>1, CopyOutPlaces
  <2>3. CopyOut(size) \in [1 .. size -> Samples]
    BY <2>1, <2>2 DEF TypeOK
  <2> QED BY <2>3, <1>1, <1>2
<1>4. /\ in \in 0 .. Modulus - 1 /\ out \in 0 .. Modulus - 1
      /\ Plus(out, size) \in 0 .. Modulus - 1
  BY <1>1, PlaceStep DEF TypeOK
<1>5. TypeOK'
  <2>1. in' \in 0 .. Modulus - 1 /\ out' \in 0 .. Modulus - 1
    BY <1>2, <1>4, ModulusAssumption
  <2> QED BY <2>1, <1>2, <1>3 DEF TypeOK
<1>6. LenBounded'
  <2>1. CASE in' = 0 /\ out' = 0
    BY <2>1, SizeAssumption DEF LenBounded, BufferLen, Minus
  <2>2. CASE in' = in /\ out' = Plus(out, size)
    <3>1. Minus(in, Plus(out, size)) = Minus(in, out) - size
      BY <1>1, <1>4, Distance DEF BufferLen
    <3> QED BY <3>1, <2>2, <1>1, FillType, SizeAssumption DEF LenBounded, BufferLen
  <2> QED BY <1>2, <2>1, <2>2
<1> QED BY <1>5, <1>6

(* The counters stay in step: the fill level ring_buffer_len computes is     *)
(* never more than the buffer holds, for every size and width of counter.    *)
THEOREM InStep == Spec => [](TypeOK /\ LenBounded)
<1>1. Init => TypeOK /\ LenBounded
  BY InitInv DEF IInv
<1>2. TypeOK /\ LenBounded /\ [Next]_vars => (TypeOK /\ LenBounded)'
  <2> SUFFICES ASSUME TypeOK, LenBounded, [Next]_vars
               PROVE  TypeOK' /\ LenBounded'
    OBVIOUS
  <2>1. CASE \E data \in BoundedSeq(Samples, MaxXfer) : Put(data)
    BY <2>1, BoundedSeqType, PutInv
  <2>2. CASE \E n \in 0 .. MaxXfer : Get(n)
    BY <2>2, GetInv, XferAssumption
  <2>3. CASE UNCHANGED vars
    BY <2>3 DEF vars, TypeOK, LenBounded, BufferLen
  <2> QED BY <2>1, <2>2, <2>3 DEF Next
<1> QED BY <1>1, <1>2, PTL DEF Spec

-----------------------------------------------------------------------------
(* The refinement: under the mapping content <- Content every put and get is *)
(* one of the queue's.                                                       *)
LEMMA ContentIsSeq ==
  ASSUME TypeOK, LenBounded
  PROVE  /\ Content \in Seq(Samples)
         /\ Len(Content) = BufferLen
         /\ \A i \in 1 .. BufferLen : Content[i] = buffer[Plus(out, i - 1) % Size]
<1>1. ASSUME NEW i \in 1 .. BufferLen PROVE buffer[Plus(out, i - 1) % Size] \in Samples
  <2>1. i - 1 \in 0 .. Size
    BY FillType, SizeAssumption
  <2>2. out \in 0 .. Modulus - 1 /\ Plus(out, i - 1) \in 0 .. Modulus - 1
    BY <2>1, PlaceStep DEF TypeOK
  <2>3. Plus(out, i - 1) % Size \in Places
    BY <2>2, PlaceStep, SizeAssumption
  <2> QED BY <2>3 DEF TypeOK
<1>2. Content \in [1 .. BufferLen -> Samples]
  BY <1>1 DEF Content
<1>3. BufferLen \in Nat
  BY FillType, SizeAssumption
<1>4. Content \in Seq(Samples) /\ Len(Content) = BufferLen
  BY <1>2, <1>3
<1>5. \A i \in 1 .. BufferLen : Content[i] = buffer[Plus(out, i - 1) % Size]
  BY DEF Content
<1> QED BY <1>4, <1>5

\* The same of the next state.
LEMMA ContentIsSeqNext ==
  (TypeOK /\ LenBounded =>
     /\ Content \in Seq(Samples)
     /\ Len(Content) = BufferLen
     /\ \A i \in 1 .. BufferLen : Content[i] = buffer[Plus(out, i - 1) % Size])'
<1>1. TypeOK /\ LenBounded =>
        /\ Content \in Seq(Samples)
        /\ Len(Content) = BufferLen
        /\ \A i \in 1 .. BufferLen : Content[i] = buffer[Plus(out, i - 1) % Size]
  BY ContentIsSeq
<1> QED BY <1>1, PTL

LEMMA PlusPlus ==
  ASSUME NEW c \in 0 .. Modulus - 1, NEW j \in 0 .. Size, NEW k \in 0 .. Size, j + k <= Size
  PROVE  Plus(Plus(c, j), k) = Plus(c, j + k)
BY SizeAssumption, ModulusAssumption DEF Plus

LEMMA PutRefines ==
  ASSUME TypeOK, LenBounded, NEW data \in Seq(Samples), Put(data)
  PROVE  Fifo!FifoPut(data)
<1> DEFINE size == Smallest(Len(data), Size - BufferLen)
           added == SubSeq(data, 1, size)
<1>1. /\ BufferLen \in 0 .. Size /\ Size \in Nat
      /\ size \in 0 .. Size - BufferLen /\ size <= Len(data) /\ size \in 0 .. Size
      /\ Len(data) \in Nat /\ \A i \in 1 .. Len(data) : data[i] \in Samples
  BY FillType, SizeAssumption DEF Smallest
<1>2. TypeOK' /\ LenBounded'
  BY PutInv
<1>3. buffer' = CopyIn(data, size) /\ in' = Plus(in, size) /\ out' = out /\ given' = data /\ got' = <<>>
  BY DEF Put
<1>4. size = Fifo!Smaller(Len(data), Size - Len(Content))
  BY ContentIsSeq DEF Fifo!Smaller, Smallest
<1> HIDE DEF size
<1>5. BufferLen' = BufferLen + size
  <2>1. in \in 0 .. Modulus - 1 /\ out \in 0 .. Modulus - 1
    BY DEF TypeOK
  <2>2. Minus(in, out) + size <= Size
    BY <1>1 DEF BufferLen
  <2>3. Minus(Plus(in, size), out) = Minus(in, out) + size
    BY <1>1, <2>1, <2>2, Distance
  <2> QED BY <1>3, <2>3 DEF BufferLen
<1>6. /\ added \in Seq(Samples) /\ Len(added) = size
      /\ \A i \in 1 .. size : added[i] = data[i]
  <2>1. \A i \in 1 .. size : data[i] \in Samples
    BY <1>1
  <2> QED BY <2>1, <1>1, SubSeqProperties
<1> HIDE DEF added
<1>7. /\ Content \o added \in Seq(Samples)
      /\ Len(Content \o added) = BufferLen + size
      /\ \A i \in 1 .. BufferLen + size :
           (Content \o added)[i] = IF i <= BufferLen THEN Content[i] ELSE added[i - BufferLen]
  <2>1. Content \in Seq(Samples) /\ Len(Content) = BufferLen
    BY ContentIsSeq
  <2> QED BY <2>1, <1>6, ConcatProperties
<1>8. /\ Content' \in Seq(Samples)
      /\ Len(Content') = BufferLen + size
      /\ \A i \in 1 .. BufferLen + size : Content'[i] = buffer'[Plus(out', i - 1) % Size]
  BY <1>2, <1>5, ContentIsSeqNext
<1>9. \A i \in 1 .. BufferLen + size : Content'[i] = (Content \o added)[i]
  <2>1. SUFFICES ASSUME NEW i \in 1 .. BufferLen + size
                 PROVE  Content'[i] = (Content \o added)[i]
    OBVIOUS
  <2>2. Content'[i] = IF i <= BufferLen THEN buffer[Plus(out, i - 1) % Size]
                                        ELSE data[i - BufferLen]
    BY <1>1, <1>3, <1>8, CopyInPlaces
  <2>3. CASE i <= BufferLen
    <3>1. i \in 1 .. BufferLen
      BY <2>3, <1>1
    <3>2. Content[i] = buffer[Plus(out, i - 1) % Size]
      BY <3>1, ContentIsSeq
    <3>3. (Content \o added)[i] = Content[i]
      BY <2>1, <2>3, <1>7
    <3> QED BY <3>2, <3>3, <2>2, <2>3
  <2>4. CASE ~(i <= BufferLen)
    <3>1. i - BufferLen \in 1 .. size
      BY <2>4, <1>1
    <3> QED BY <3>1, <2>2, <2>4, <1>6, <1>7
  <2> QED BY <2>3, <2>4
<1>10. Content' = Content \o added
  BY <1>7, <1>8, <1>9, SeqEqual
<1> QED BY <1>3, <1>4, <1>10 DEF Fifo!FifoPut, added

LEMMA GetRefines ==
  ASSUME TypeOK, LenBounded, NEW n \in Nat, Get(n)
  PROVE  Fifo!FifoGet(n)
<1> DEFINE size == Smallest(n, BufferLen)
           taken == SubSeq(Content, 1, size)
           left == SubSeq(Content, size + 1, BufferLen)
<1>1. BufferLen \in 0 .. Size /\ Size \in Nat /\ size \in 0 .. BufferLen /\ size \in 0 .. Size
  BY FillType, SizeAssumption DEF Smallest
<1>2. TypeOK' /\ LenBounded'
  BY GetInv
<1>3. /\ given' = <<>> /\ got' = CopyOut(size) /\ buffer' = buffer
      /\ \/ in = Plus(out, size) /\ in' = 0 /\ out' = 0
         \/ in # Plus(out, size) /\ out' = Plus(out, size) /\ in' = in
  BY DEF Get
<1>4. size = Fifo!Smaller(n, Len(Content))
  BY ContentIsSeq DEF Fifo!Smaller, Smallest
<1> HIDE DEF size
<1>5. \A i \in 1 .. BufferLen : Content[i] \in Samples
  BY ContentIsSeq
<1>6. /\ taken \in Seq(Samples) /\ Len(taken) = size
      /\ \A i \in 1 .. size : taken[i] = Content[i]
  <2>1. \A i \in 1 .. size : Content[i] \in Samples
    BY <1>1, <1>5
  <2> QED BY <2>1, <1>1, SubSeqProperties
<1>7. /\ left \in Seq(Samples) /\ Len(left) = BufferLen - size
      /\ \A i \in 1 .. BufferLen - size : left[i] = Content[size + i]
  <2>1. \A i \in size + 1 .. BufferLen : Content[i] \in Samples
    BY <1>1, <1>5
  <2>2. size + 1 \in Int /\ BufferLen \in Int
    BY <1>1
  <2>3. /\ left \in Seq(Samples)
        /\ Len(left) = IF size + 1 <= BufferLen THEN BufferLen - (size + 1) + 1 ELSE 0
        /\ \A i \in 1 .. BufferLen - (size + 1) + 1 : left[i] = Content[(size + 1) + i - 1]
    BY <2>1, <2>2, SubSeqProperties
  <2> HIDE DEF left
  <2>4. \A i \in 1 .. BufferLen - size : left[i] = Content[size + i]
    <3>1. SUFFICES ASSUME NEW i \in 1 .. BufferLen - size PROVE left[i] = Content[size + i]
      OBVIOUS
    <3>2. i \in 1 .. BufferLen - (size + 1) + 1 /\ (size + 1) + i - 1 = size + i
      BY <1>1
    <3> QED BY <3>2, <2>3
  <2> QED BY <1>1, <2>3, <2>4
<1> HIDE DEF taken, left
<1>8. got' = taken
  <2>1. got' \in Seq(Samples)
    BY <1>2 DEF TypeOK
  <2>2. got' = [i \in 1 .. size |-> buffer[Plus(out, i - 1) % Size]]
    BY <1>1, <1>3, CopyOutPlaces
  <2>3. Len(got') = size
    BY <2>1, <2>2, <1>1
  <2>4. \A i \in 1 .. size : got'[i] = Content[i]
    BY <2>2, <1>1, ContentIsSeq
  <2> QED BY <2>1, <2>3, <2>4, <1>6, SeqEqual
<1>9. /\ Content' \in Seq(Samples)
      /\ Len(Content') = BufferLen'
      /\ \A i \in 1 .. BufferLen' : Content'[i] = buffer'[Plus(out', i - 1) % Size]
  BY <1>2, ContentIsSeqNext
<1>10. in \in 0 .. Modulus - 1 /\ out \in 0 .. Modulus - 1 /\ Plus(out, size) \in 0 .. Modulus - 1
  BY <1>1, PlaceStep DEF TypeOK
<1>11. Minus(in, Plus(out, size)) = BufferLen - size
  BY <1>1, <1>10, Distance DEF BufferLen
<1>12. BufferLen' = BufferLen - size
  <2>1. CASE in = Plus(out, size) /\ in' = 0 /\ out' = 0
    <3>1. Minus(in, Plus(out, size)) = 0
      BY <2>1, <1>10, Distance
    <3>2. BufferLen' = 0
      BY <2>1 DEF BufferLen, Minus
    <3> QED BY <3>1, <3>2, <1>11
  <2>2. CASE out' = Plus(out, size) /\ in' = in
    BY <2>2, <1>11 DEF BufferLen
  <2> QED BY <1>3, <2>1, <2>2
<1>13. \A i \in 1 .. BufferLen - size : Content'[i] = left[i]
  <2>1. SUFFICES ASSUME NEW i \in 1 .. BufferLen - size PROVE Content'[i] = left[i]
    OBVIOUS
  <2>2. out' = Plus(out, size)
    <3>1. in # Plus(out, size)
      BY <1>1, <1>10, <1>11, <2>1, Distance
    <3> QED BY <3>1, <1>3
  <2>3. i - 1 \in 0 .. Size /\ size + (i - 1) = (size + i) - 1 /\ size + (i - 1) <= Size
        /\ size + i \in 1 .. BufferLen
    BY <1>1
  <2>4. Plus(Plus(out, size), i - 1) = Plus(out, (size + i) - 1)
    BY <1>1, <1>10, <2>3, PlusPlus
  <2>5. Content[size + i] = buffer[Plus(out, (size + i) - 1) % Size]
    BY <2>3, ContentIsSeq
  <2>6. Content'[i] = buffer[Plus(out, (size + i) - 1) % Size]
    BY <1>3, <1>9, <1>12, <2>2, <2>4
  <2> QED BY <2>5, <2>6, <1>7
<1>14. Content' = left
  BY <1>7, <1>9, <1>12, <1>13, SeqEqual
<1>15. left = SubSeq(Content, size + 1, Len(Content))
  BY ContentIsSeq DEF left
<1> QED BY <1>3, <1>4, <1>8, <1>14, <1>15 DEF Fifo!FifoGet, taken

LEMMA InitRefines == Init => Fifo!FifoInit
<1>1. SUFFICES ASSUME Init PROVE Fifo!FifoInit
  OBVIOUS
<1>2. TypeOK /\ LenBounded
  BY <1>1, InitInv DEF IInv
<1>3. BufferLen = in /\ in \in 0 .. Size - 1
  BY <1>1, ModulusAssumption, SizeAssumption DEF Init, BufferLen, Minus, Places
<1>4. \A i \in 1 .. BufferLen : Content[i] = Zero
  <2>1. SUFFICES ASSUME NEW i \in 1 .. BufferLen PROVE Content[i] = Zero
    OBVIOUS
  <2>2. i - 1 \in 0 .. Size /\ 0 \in 0 .. Modulus - 1
    BY <1>3, SizeAssumption, ModulusAssumption
  <2>3. Plus(0, i - 1) \in 0 .. Modulus - 1
    BY <2>2, PlaceStep
  <2>4. Plus(0, i - 1) % Size \in Places
    BY <2>3, PlaceStep, SizeAssumption
  <2> QED BY <1>1, <1>2, <2>4, ContentIsSeq DEF Init
<1>5. Content = [i \in 1 .. in |-> Zero]
  BY <1>3, <1>4 DEF Content
<1> QED BY <1>1, <1>3, <1>5, SampleAssumption DEF Fifo!FifoInit, Init

(* The ring buffer implements the bounded queue, for every size, every width *)
(* of the counters, every data and every transfer length.                    *)
THEOREM Implements == Spec => IsFifo
<1>1. Init => Fifo!FifoInit
  BY InitRefines
<1>2. TypeOK /\ LenBounded /\ [Next]_vars => [Fifo!FifoNext]_(Fifo!fifoVars)
  <2> SUFFICES ASSUME TypeOK, LenBounded, [Next]_vars
               PROVE  [Fifo!FifoNext]_(Fifo!fifoVars)
    OBVIOUS
  <2>1. CASE \E data \in BoundedSeq(Samples, MaxXfer) : Put(data)
    BY <2>1, BoundedSeqType, PutRefines
       DEF Fifo!FifoNext, BoundedSeq, SeqOf, Fifo!BoundedSeq, Fifo!SeqOf
  <2>2. CASE \E n \in 0 .. MaxXfer : Get(n)
    BY <2>2, GetRefines, XferAssumption DEF Fifo!FifoNext
  <2>3. CASE UNCHANGED vars
    BY <2>3 DEF vars, Fifo!fifoVars, Content, BufferLen
  <2> QED BY <2>1, <2>2, <2>3 DEF Next
<1> QED BY <1>1, <1>2, InStep, PTL DEF Spec, IsFifo, Fifo!FifoSpec
=============================================================================
