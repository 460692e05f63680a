--------------------------- MODULE CaptureProofs ---------------------------
(***************************************************************************)
(* Theorems about OutputCapture and RingBuffer, for any number of streams, *)
(* any output, buffer, cap and page sizes.                                 *)
(***************************************************************************)
EXTENDS OutputCapture, SequenceTheorems, TLAPS

-----------------------------------------------------------------------------
(* Slices: the operators of RingBuffer, element by element. *)

\* b is what st holds from offset lo on.
IsSlice(st, lo, b) ==
    /\ lo + Len(b) <= Len(st)
    /\ \A i \in 1 .. Len(b) : b[i] = st[lo + i]

Buffers == [buf : Seq(Bytes), start : Nat]

\* A slice is the SubSeq of its bounds.
LEMMA SliceIsSubSeq ==
  ASSUME NEW st \in Seq(Bytes), NEW lo \in Nat, NEW b \in Seq(Bytes), IsSlice(st, lo, b)
  PROVE  b = SubSeq(st, lo + 1, lo + Len(b))
<1> DEFINE t == SubSeq(st, lo + 1, lo + Len(b))
<1>0. Len(b) \in Nat /\ Len(st) \in Nat
  OBVIOUS
<1>1. \A i \in lo + 1 .. lo + Len(b) : st[i] \in Bytes
  BY <1>0, ElementOfSeq DEF IsSlice
<1>2. /\ t \in Seq(Bytes)
      /\ Len(t) = IF lo + 1 <= lo + Len(b) THEN lo + Len(b) - (lo + 1) + 1 ELSE 0
      /\ \A i \in 1 .. lo + Len(b) - (lo + 1) + 1 : t[i] = st[lo + 1 + i - 1]
  BY <1>0, <1>1, SubSeqProperties
<1> HIDE DEF t
<1>3. Len(t) = Len(b)
  BY <1>0, <1>2
<1>4. ASSUME NEW i \in 1 .. Len(t) PROVE t[i] = b[i]
  <2>1. i \in 1 .. lo + Len(b) - (lo + 1) + 1 /\ lo + 1 + i - 1 = lo + i
    BY <1>0, <1>3
  <2>2. t[i] = st[lo + i]
    BY <1>2, <2>1
  <2>3. b[i] = st[lo + i]
    BY <1>3 DEF IsSlice
  <2> QED
    BY <2>2, <2>3
<1>5. b = t
  BY <1>2, <1>3, <1>4, SeqEqual
<1> QED
  BY <1>5 DEF t

\* Output that follows does not change it.
LEMMA SliceAppend ==
  ASSUME NEW st \in Seq(Bytes), NEW x \in Bytes, NEW lo \in Nat, NEW S, NEW b \in Seq(S),
         IsSlice(st, lo, b)
  PROVE  IsSlice(Append(st, x), lo, b)
<1>1. /\ Len(Append(st, x)) = Len(st) + 1
      /\ \A i \in 1 .. Len(st) : Append(st, x)[i] = st[i]
  BY AppendProperties
<1>2. Len(b) \in Nat /\ Len(st) \in Nat
  OBVIOUS
<1>3. \A i \in 1 .. Len(b) : lo + i \in 1 .. Len(st)
  BY <1>2 DEF IsSlice
<1> QED
  BY <1>1, <1>2, <1>3 DEF IsSlice

\* A part of a sequence.
LEMMA SubSeqIsSlice ==
  ASSUME NEW st \in Seq(Bytes), NEW lo \in Nat, NEW hi \in lo .. Len(st)
  PROVE  /\ SubSeq(st, lo + 1, hi) \in Seq(Bytes)
         /\ Len(SubSeq(st, lo + 1, hi)) = hi - lo
         /\ IsSlice(st, lo, SubSeq(st, lo + 1, hi))
<1> DEFINE t == SubSeq(st, lo + 1, hi)
<1>0. Len(st) \in Nat
  OBVIOUS
<1>1. \A i \in lo + 1 .. hi : st[i] \in Bytes
  BY <1>0, ElementOfSeq
<1>2. /\ t \in Seq(Bytes)
      /\ Len(t) = IF lo + 1 <= hi THEN hi - (lo + 1) + 1 ELSE 0
      /\ \A i \in 1 .. hi - (lo + 1) + 1 : t[i] = st[lo + 1 + i - 1]
  BY <1>0, <1>1, SubSeqProperties
<1>3. Len(t) = hi - lo
  BY <1>0, <1>2
<1>4. \A i \in 1 .. Len(t) : t[i] = st[lo + i]
  BY <1>0, <1>2, <1>3
<1> QED
  BY <1>0, <1>2, <1>3, <1>4 DEF IsSlice

\* A part of a slice.
LEMMA SliceOfSlice ==
  ASSUME NEW st \in Seq(Bytes), NEW lo \in Nat, NEW b \in Seq(Bytes), IsSlice(st, lo, b),
         NEW m \in Nat, NEW n \in m .. Len(b)
  PROVE  /\ SubSeq(b, m + 1, n) \in Seq(Bytes)
         /\ Len(SubSeq(b, m + 1, n)) = n - m
         /\ IsSlice(st, lo + m, SubSeq(b, m + 1, n))
<1> DEFINE t == SubSeq(b, m + 1, n)
<1>0. Len(st) \in Nat /\ Len(b) \in Nat
  OBVIOUS
<1>1. t \in Seq(Bytes) /\ Len(t) = n - m /\ IsSlice(b, m, t)
  BY SubSeqIsSlice
<1> HIDE DEF t
<1>2. lo + m + Len(t) <= Len(st)
  BY <1>0, <1>1 DEF IsSlice
<1>3. ASSUME NEW i \in 1 .. Len(t) PROVE t[i] = st[(lo + m) + i]
  <2>1. t[i] = b[m + i] /\ m + i \in 1 .. Len(b)
    BY <1>0, <1>1 DEF IsSlice
  <2>2. b[m + i] = st[lo + (m + i)]
    BY <2>1 DEF IsSlice
  <2>3. lo + (m + i) = (lo + m) + i
    BY <1>0, <1>1
  <2> QED
    BY <2>1, <2>2, <2>3
<1> QED
  BY <1>1, <1>2, <1>3 DEF IsSlice, t

\* Two slices that meet make one.
LEMMA SliceConcat ==
  ASSUME NEW st \in Seq(Bytes), NEW lo \in Nat, NEW b \in Seq(Bytes), NEW p \in Seq(Bytes),
         IsSlice(st, lo, b), IsSlice(st, lo + Len(b), p)
  PROVE  /\ b \o p \in Seq(Bytes)
         /\ Len(b \o p) = Len(b) + Len(p)
         /\ IsSlice(st, lo, b \o p)
<1> DEFINE t == b \o p
<1>0. Len(st) \in Nat /\ Len(b) \in Nat /\ Len(p) \in Nat
  OBVIOUS
<1>1. /\ t \in Seq(Bytes) /\ Len(t) = Len(b) + Len(p)
      /\ \A i \in 1 .. Len(b) + Len(p) : t[i] = IF i <= Len(b) THEN b[i] ELSE p[i - Len(b)]
  BY ConcatProperties
<1> HIDE DEF t
<1>2. lo + Len(t) <= Len(st)
  BY <1>0, <1>1 DEF IsSlice
<1>3. ASSUME NEW i \in 1 .. Len(t) PROVE t[i] = st[lo + i]
  <2>1. CASE i <= Len(b)
    <3>1. i \in 1 .. Len(b) /\ i \in 1 .. Len(b) + Len(p)
      BY <1>0, <2>1
    <3>2. t[i] = b[i]
      BY <1>1, <2>1, <3>1
    <3> QED
      BY <3>1, <3>2 DEF IsSlice
  <2>2. CASE i > Len(b)
    <3>1. i - Len(b) \in 1 .. Len(p)
      BY <1>0, <1>1, <2>2
    <3>2. t[i] = p[i - Len(b)]
      BY <1>0, <1>1, <2>2
    <3>3. p[i - Len(b)] = st[lo + Len(b) + (i - Len(b))]
      BY <3>1 DEF IsSlice
    <3>4. lo + Len(b) + (i - Len(b)) = lo + i
      BY <1>0
    <3> QED
      BY <3>2, <3>3, <3>4
  <2> QED
    BY <1>0, <1>1, <2>1, <2>2
<1> QED
  BY <1>1, <1>2, <1>3 DEF IsSlice, t

\* Write keeps the end of the stream, up to the capacity, and drops bytes only when it is full.
LEMMA RingWriteKeepsTail ==
  ASSUME NEW st \in Seq(Bytes), NEW cap \in Nat, NEW r \in Buffers, NEW p \in Seq(Bytes),
         IsSlice(st, r.start, r.buf), IsSlice(st, r.start + Len(r.buf), p),
         r.start > 0 => Len(r.buf) = cap
  PROVE  LET w == RingWrite(cap, r, p) IN
         /\ w \in Buffers
         /\ IsSlice(st, w.start, w.buf)
         /\ w.start + Len(w.buf) = r.start + Len(r.buf) + Len(p)
         /\ Len(w.buf) <= cap
         /\ w.start > 0 => Len(w.buf) = cap
<1>0. r.buf \in Seq(Bytes) /\ r.start \in Nat
  BY DEF Buffers
<1>a. PICK rb \in Seq(Bytes), rs \in Nat : rb = r.buf /\ rs = r.start
  BY <1>0
<1> DEFINE b == rb \o p
<1> DEFINE over == IF Len(b) > cap THEN Len(b) - cap ELSE 0
<1> DEFINE w == RingWrite(cap, r, p)
<1> DEFINE t == SubSeq(b, over + 1, Len(b))
<1>1. b \in Seq(Bytes) /\ Len(b) = Len(rb) + Len(p) /\ IsSlice(st, rs, b)
  <2>1. IsSlice(st, rs, rb) /\ IsSlice(st, rs + Len(rb), p)
    BY <1>a
  <2> QED
    BY <2>1, SliceConcat
<1>3. w = [buf |-> t, start |-> rs + over]
  BY <1>a DEF RingWrite
<1> HIDE DEF b, w
<1>2. Len(b) \in Nat /\ Len(rb) \in Nat /\ Len(p) \in Nat
  BY <1>1
<1>4. over \in Nat /\ Len(b) \in over .. Len(b) /\ Len(b) - over <= cap
      /\ (over > 0 => Len(b) - over = cap)
  BY <1>2
<1> HIDE DEF over
<1>5. t \in Seq(Bytes) /\ Len(t) = Len(b) - over /\ IsSlice(st, rs + over, t)
  BY <1>1, <1>4, SliceOfSlice
<1> HIDE DEF t
<1>6. w.buf = t /\ w.start = rs + over
  BY <1>3
<1>7. w \in Buffers
  <2>1. rs + over \in Nat
    BY <1>4
  <2> QED
    BY <1>3, <1>5, <2>1 DEF Buffers
<1>8. (rs + over) + Len(t) = rs + Len(rb) + Len(p)
  BY <1>1, <1>2, <1>4, <1>5
<1>9. Len(t) <= cap
  BY <1>4, <1>5
<1>10. ASSUME rs + over > 0 PROVE Len(t) = cap
  <2>1. CASE over > 0
    BY <1>4, <1>5, <2>1
  <2>2. CASE over = 0
    <3>1. Len(rb) = cap
      BY <1>10, <1>a, <2>2
    <3> QED
      BY <1>1, <1>2, <1>4, <1>5, <2>2, <3>1
  <2> QED
    BY <1>4, <2>1, <2>2
<1> QED
  BY <1>a, <1>5, <1>6, <1>7, <1>8, <1>9, <1>10 DEF w

\* ReadFrom returns a slice from the offset on, or from the oldest byte if that was dropped, the
\* offset after it, and nothing only at the end.
LEMMA ReadFromIsSlice ==
  ASSUME NEW st \in Seq(Bytes), NEW r \in Buffers, IsSlice(st, r.start, r.buf),
         NEW o \in Nat, o <= RingLen(r), NEW max \in Nat \ {0}
  PROVE  LET p == ReadFrom(r, o, max)
             from == IF o < r.start THEN r.start ELSE o
         IN  /\ p \in [data : Seq(Bytes), next : Nat, truncatedBefore : BOOLEAN]
             /\ IsSlice(st, from, p.data)
             /\ p.next = from + Len(p.data)
             /\ p.next <= RingLen(r)
             /\ p.data = <<>> => p.next = RingLen(r)
             /\ p.truncatedBefore <=> o < r.start
             /\ Len(p.data) = (IF from - r.start + max < Len(r.buf) THEN max ELSE RingLen(r) - from)
<1>0. r.buf \in Seq(Bytes) /\ r.start \in Nat
  BY DEF Buffers
<1>a. PICK b \in Seq(Bytes), start \in Nat : b = r.buf /\ start = r.start
  BY <1>0
<1> DEFINE from == IF o < start THEN start ELSE o
<1> DEFINE rel == from - start
<1> DEFINE end == IF max > 0 /\ rel + max < Len(b) THEN rel + max ELSE Len(b)
<1> DEFINE t == SubSeq(b, rel + 1, end)
<1> DEFINE p == ReadFrom(r, o, max)
<1>b. Len(b) \in Nat /\ Len(st) \in Nat /\ RingLen(r) = start + Len(b) /\ o <= start + Len(b)
  BY <1>a DEF RingLen
<1>1. /\ from \in Nat /\ rel \in Nat /\ end \in rel .. Len(b)
      /\ rel + start = from /\ start + rel = from /\ from <= start + Len(b)
      /\ end - rel = (IF from - start + max < Len(b) THEN max ELSE start + Len(b) - from)
      /\ rel < Len(b) => rel < end
  <2>1. PICK n \in Nat : n = Len(b)
    BY <1>b
  <2>2. from \in Nat /\ start <= from /\ from <= start + n
    BY <1>b, <2>1
  <2> HIDE DEF from
  <2>3. rel \in Nat /\ rel <= n /\ rel + start = from /\ start + rel = from
    BY <2>2
  <2>4. end = IF rel + max < n THEN rel + max ELSE n
    BY <2>1
  <2>5. from - start = rel
    OBVIOUS
  <2> HIDE DEF rel, end
  <2>6. end \in rel .. n /\ (rel < n => rel < end)
    BY <2>3, <2>4
  <2>7. end - rel = IF from - start + max < n THEN max ELSE start + n - from
    <3>1. CASE rel + max < n
      BY <2>2, <2>3, <2>4, <2>5, <3>1
    <3>2. CASE ~(rel + max < n)
      <4>1. end = n /\ n - rel = start + n - from
        BY <2>2, <2>3, <2>4, <3>2
      <4> QED
        BY <2>5, <3>2, <4>1
    <3> QED
      BY <3>1, <3>2
  <2> QED
    BY <2>1, <2>2, <2>3, <2>6, <2>7
<1>2. p = [data |-> IF rel < Len(b) THEN t ELSE <<>>,
           next |-> IF rel < Len(b) THEN start + end ELSE from,
           truncatedBefore |-> o < start]
  BY <1>a DEF ReadFrom
<1>3. (o < start) \in BOOLEAN
  OBVIOUS
<1>4. IsSlice(st, start, b)
  BY <1>a
<1>g. SUFFICES /\ p \in [data : Seq(Bytes), next : Nat, truncatedBefore : BOOLEAN]
               /\ IsSlice(st, from, p.data)
               /\ p.next = from + Len(p.data)
               /\ p.next <= start + Len(b)
               /\ p.data = <<>> => p.next = start + Len(b)
               /\ p.truncatedBefore <=> o < start
               /\ Len(p.data) = (IF from - start + max < Len(b) THEN max ELSE start + Len(b) - from)
  BY <1>a, <1>b
<1> HIDE DEF from, p
<1> HIDE DEF rel, end
<1>5. t \in Seq(Bytes) /\ Len(t) = end - rel /\ IsSlice(st, start + rel, t)
  BY <1>1, <1>4, SliceOfSlice
<1> HIDE DEF t
<1>6. CASE rel < Len(b)
  <2>1. p.data = t /\ p.next = start + end /\ p.truncatedBefore = (o < start)
    BY <1>2, <1>6
  <2>2. p \in [data : Seq(Bytes), next : Nat, truncatedBefore : BOOLEAN]
    <3>1. start + end \in Nat
      BY <1>1, <1>b
    <3> QED
      BY <1>2, <1>3, <1>5, <1>6, <3>1
  <2>3. Len(t) # 0
    BY <1>1, <1>5, <1>6, <1>b
  <2>4. t # <<>>
    BY <1>5, <2>3, EmptySeq
  <2>5. start + end = from + Len(t) /\ start + end <= start + Len(b)
    BY <1>1, <1>5, <1>b
  <2>6. IsSlice(st, from, t)
    BY <1>1, <1>5
  <2> QED
    BY <1>1, <1>5, <2>1, <2>2, <2>4, <2>5, <2>6
<1>7. CASE ~(rel < Len(b))
  <2>1. p.data = <<>> /\ p.next = from /\ p.truncatedBefore = (o < start)
    BY <1>2, <1>7
  <2>2. Len(<<>>) = 0 /\ <<>> \in Seq(Bytes)
    BY EmptySeq
  <2>3. p \in [data : Seq(Bytes), next : Nat, truncatedBefore : BOOLEAN]
    BY <1>1, <1>2, <1>3, <1>7, <2>2
  <2>4. rel = Len(b) /\ from = start + Len(b) /\ end - rel = 0
    BY <1>1, <1>7, <1>b
  <2>5. from <= Len(st)
    BY <1>4, <2>4 DEF IsSlice
  <2>6. IsSlice(st, from, <<>>)
    <3>1. from + Len(<<>>) <= Len(st)
      BY <1>1, <2>2, <2>5
    <3>2. \A i \in 1 .. Len(<<>>) : FALSE
      BY <2>2
    <3> QED
      BY <3>1, <3>2 DEF IsSlice
  <2>7. from = from + Len(<<>>)
    BY <1>1, <2>2
  <2>8. Len(<<>>) = (IF from - start + max < Len(b) THEN max ELSE start + Len(b) - from)
    BY <1>1, <2>2, <2>4
  <2>9. from <= start + Len(b)
    BY <1>1
  <2> QED
    BY <2>1, <2>3, <2>4, <2>6, <2>7, <2>8, <2>9
<1> QED
  BY <1>6, <1>7

-----------------------------------------------------------------------------
(* Type correctness. *)

Pages == [data : Seq(Bytes), next : Nat, truncatedBefore : BOOLEAN]

\* The buffers hold slices of the streams, the part a copy has in its hands follows, and a buffer
\* that dropped something is full.
StreamSlices(s) ==
    /\ copied[s] <= Len(stream[s])
    /\ Len(chunk[s]) <= copied[s]
    /\ IsSlice(stream[s], copied[s] - Len(chunk[s]), chunk[s])
    /\ IsSlice(stream[s], ring[s].start, ring[s].buf)
    /\ ring[s].start + Len(ring[s].buf) = copied[s] - Len(chunk[s])
    /\ ring[s].start > 0 => Len(ring[s].buf) = Cap
    /\ off[s] <= RingLen(ring[s])

Slices == \A s \in Streams : StreamSlices(s)

\* The types of what belongs to one stream.
LEMMA StreamTypes ==
  ASSUME TypeOK, NEW s \in Streams
  PROVE  /\ stream[s] \in Seq(Bytes) /\ Len(stream[s]) \in Nat
         /\ chunk[s] \in Seq(Bytes) /\ Len(chunk[s]) \in Nat
         /\ copied[s] \in Nat /\ off[s] \in Nat
         /\ ring[s] \in Buffers /\ ring[s].start \in Nat
         /\ ring[s].buf \in Seq(Bytes) /\ Len(ring[s].buf) \in Nat
<1>1. stream[s] \in Seq(Bytes) /\ chunk[s] \in Seq(Bytes) /\ copied[s] \in Nat /\ off[s] \in Nat
  BY DEF TypeOK
<1>2. ring[s] \in [buf : Seq(Bytes), start : Nat]
  BY DEF TypeOK
<1>3. ring[s].start \in Nat /\ ring[s].buf \in Seq(Bytes)
  BY <1>2
<1> QED
  BY <1>1, <1>2, <1>3, LenProperties DEF Buffers

\* Nothing is written yet.
LEMMA InitTypes == Init => TypeOK /\ Slices
<1> SUFFICES ASSUME Init PROVE TypeOK /\ Slices
  OBVIOUS
<1>1. <<>> \in Seq(Bytes) /\ Len(<<>>) = 0 /\ <<>> \in Seq(Bytes \cup {Replacement})
  BY EmptySeq
<1>2. NewRingBuffer \in [buf : Seq(Bytes), start : Nat] /\ NewRingBuffer.buf = <<>> /\ NewRingBuffer.start = 0
  BY <1>1 DEF NewRingBuffer
<1>3. NoPage \in Pages
  BY <1>1 DEF NoPage, Pages
<1>4. TypeOK
  <2>1. /\ stream \in [Streams -> Seq(Bytes)] /\ chunk \in [Streams -> Seq(Bytes)]
        /\ copied \in [Streams -> Nat] /\ off \in [Streams -> Nat]
        /\ seen \in [Streams -> Seq(Bytes \cup {Replacement})]
    BY <1>1 DEF Init
  <2>2. /\ ring \in [Streams -> [buf : Seq(Bytes), start : Nat]] 
        /\ cmdPage \in [Streams -> [data : Seq(Bytes), next : Nat, truncatedBefore : BOOLEAN]]
    BY <1>2, <1>3 DEF Init, Pages
  <2>3. \A s \in Streams : Len(ring[s].buf) <= Cap
    <3>1. \A s \in Streams : ring[s].buf = <<>>
      BY <1>2 DEF Init
    <3>2. 0 <= Cap
      BY CaptureAssumption
    <3> QED
      BY <1>1, <3>1, <3>2
  <2>4. /\ copyDone \in [Streams -> BOOLEAN] /\ truncated \in [Streams -> BOOLEAN]
        /\ skipped \in [Streams -> BOOLEAN] /\ sawEnd \in [Streams -> BOOLEAN]
        /\ cmd \in [Streams -> {"wait", "read", "len", "done"}]
    BY DEF Init
  <2> QED
    BY <2>1, <2>2, <2>3, <2>4 DEF Init, TypeOK
<1>5. ASSUME NEW s \in Streams PROVE StreamSlices(s)
  <2>1. /\ stream[s] = <<>> /\ copied[s] = 0 /\ chunk[s] = <<>> /\ off[s] = 0
        /\ ring[s].buf = <<>> /\ ring[s].start = 0
    BY <1>2 DEF Init
  <2>2. IsSlice(<<>>, 0, <<>>)
    <3>1. 0 + Len(<<>>) <= Len(<<>>) /\ \A i \in 1 .. Len(<<>>) : FALSE
      BY <1>1
    <3> QED
      BY <3>1 DEF IsSlice
  <2>3. 0 - Len(<<>>) = 0 /\ 0 + Len(<<>>) = 0
    <3>1. \A n \in Nat : n = 0 => 0 - n = 0 /\ 0 + n = 0
      OBVIOUS
    <3>2. Len(<<>>) \in Nat
      BY <1>1
    <3> QED
      BY <1>1, <3>1, <3>2
  <2> QED
    BY <1>1, <2>1, <2>2, <2>3 DEF StreamSlices, RingLen
<1> QED
  BY <1>4, <1>5 DEF Slices

\* A step that leaves streams, copies, buffers and offsets alone.
LEMMA SlicesQuiet ==
  ASSUME Slices, UNCHANGED <<stream, copied, chunk, ring, off>>
  PROVE  Slices'
BY DEF Slices, StreamSlices

\* A byte that is written is a byte.
LEMMA ProduceStep ==
  ASSUME TypeOK, NEW s \in Streams, Produce(s)
  PROVE  \E x \in Bytes : /\ x[2] \in NextKinds(s)
                          /\ stream' = [stream EXCEPT ![s] = Append(stream[s], x)]
<1>1. PICK k \in NextKinds(s) : stream' = [stream EXCEPT ![s] = Append(stream[s], <<Len(stream[s]) + 1, k>>)]
  BY DEF Produce
<1>2. k \in {"a", "h", "t"}
  BY CaptureAssumption DEF NextKinds
<1>3. Len(stream[s]) + 1 \in Nat
  BY DEF TypeOK
<1>4. <<Len(stream[s]) + 1, k>> \in Bytes
  BY <1>2, <1>3 DEF Bytes
<1> QED
  BY <1>1, <1>4

\* What ReadPage does, in the terms of Slices.
LEMMA ReadPageStep ==
  ASSUME TypeOK, Slices, NEW s \in Streams, NEW n \in PageSizes, ReadPage(s, n)
  PROVE  \E p \in Pages :
            LET from == IF off[s] < ring[s].start THEN ring[s].start ELSE off[s] IN
            /\ off' = [off EXCEPT ![s] = p.next]
            /\ seen' = [seen EXCEPT ![s] = seen[s] \o JsonText(p.data)]
            /\ skipped' = [skipped EXCEPT ![s] = skipped[s] \/ p.truncatedBefore]
            /\ sawEnd' = [sawEnd EXCEPT ![s] = sawEnd[s] \/ (sawExit /\ p.data = <<>>)]
            /\ IsSlice(stream[s], from, p.data)
            /\ p.next = from + Len(p.data)
            /\ p.next <= RingLen(ring[s])
            /\ p.data = <<>> => p.next = RingLen(ring[s])
            /\ p.truncatedBefore <=> off[s] < ring[s].start
<1> DEFINE p == ReadFrom(ring[s], off[s], clampMaxBytes(n))
<1>1. clampMaxBytes(n) \in Nat \ {0}
  BY CaptureAssumption DEF clampMaxBytes
<1>2. /\ stream[s] \in Seq(Bytes) /\ ring[s] \in Buffers /\ off[s] \in Nat
      /\ IsSlice(stream[s], ring[s].start, ring[s].buf) /\ off[s] <= RingLen(ring[s])
  BY DEF TypeOK, Slices, StreamSlices, Buffers
<1>3. LET from == IF off[s] < ring[s].start THEN ring[s].start ELSE off[s]
      IN  /\ p \in Pages
          /\ IsSlice(stream[s], from, p.data)
          /\ p.next = from + Len(p.data)
          /\ p.next <= RingLen(ring[s])
          /\ p.data = <<>> => p.next = RingLen(ring[s])
          /\ p.truncatedBefore <=> off[s] < ring[s].start
  BY <1>1, <1>2, ReadFromIsSlice DEF Pages
<1>4. /\ off' = [off EXCEPT ![s] = p.next]
      /\ seen' = [seen EXCEPT ![s] = seen[s] \o JsonText(p.data)]
      /\ skipped' = [skipped EXCEPT ![s] = skipped[s] \/ p.truncatedBefore]
      /\ sawEnd' = [sawEnd EXCEPT ![s] = sawEnd[s] \/ (sawExit /\ p.data = <<>>)]
  BY DEF ReadPage
<1> HIDE DEF p
<1> QED
  BY <1>3, <1>4

\* The wire text of a page is as long as the page.
LEMMA JsonTextType ==
  ASSUME NEW data \in Seq(Bytes)
  PROVE  /\ JsonText(data) \in Seq(Bytes \cup {Replacement})
         /\ Len(JsonText(data)) = Len(data)
<1> DEFINE S == Bytes \cup {Replacement}
<1>1. Len(data) \in Nat /\ \A i \in 1 .. Len(data) : data[i] \in Bytes
  BY ElementOfSeq
<1>2. JsonText(data) \in [1 .. Len(data) -> S]
  BY <1>1 DEF JsonText
<1>3. JsonText(data) \in Seq(S)
  BY <1>1, <1>2, SeqDef
<1> QED
  BY <1>1, <1>2, <1>3

\* Each step keeps types and slices: one step per action that touches them.
LEMMA NextTypes == TypeOK /\ Slices /\ [Next]_vars => TypeOK' /\ Slices'
<1> SUFFICES ASSUME TypeOK, Slices, [Next]_vars PROVE TypeOK' /\ Slices'
  OBVIOUS
<1>1. ASSUME NEW s \in Streams, Produce(s)
      PROVE  TypeOK' /\ Slices'
  <2>1. PICK x \in Bytes : stream' = [stream EXCEPT ![s] = Append(stream[s], x)]
    BY <1>1, ProduceStep
  <2>2. Append(stream[s], x) \in Seq(Bytes) /\ Len(Append(stream[s], x)) = Len(stream[s]) + 1
    BY AppendProperties, StreamTypes
  <2>3. stream' \in [Streams -> Seq(Bytes)]
    BY <2>1, <2>2 DEF TypeOK
  <2>4. TypeOK'
    BY <1>1, <2>3 DEF TypeOK, Produce, captureVars, cmdVars, clientVars
  <2>5. UNCHANGED <<copied, chunk, ring, off>>
    BY <1>1 DEF Produce, captureVars, clientVars
  <2>6. ASSUME NEW t \in Streams PROVE StreamSlices(t)'
    <3>1. CASE t # s
      <4>1. stream'[t] = stream[t]
        BY <2>1, <3>1 DEF TypeOK
      <4> QED
        BY <2>5, <4>1 DEF Slices, StreamSlices
    <3>2. CASE t = s
      <4>0. StreamSlices(s)
        BY DEF Slices
      <4>1. stream'[s] = Append(stream[s], x)
        BY <2>1 DEF TypeOK
      <4>2. /\ ring[s].buf \in Seq(Bytes) /\ ring[s].start \in Nat
            /\ copied[s] \in Nat /\ Len(chunk[s]) \in Nat /\ Len(stream[s]) \in Nat
            /\ copied[s] - Len(chunk[s]) \in Nat
        BY <4>0, StreamTypes DEF StreamSlices
      <4>3. IsSlice(stream'[s], ring[s].start, ring[s].buf)
        <5>1. IsSlice(stream[s], ring[s].start, ring[s].buf) /\ stream[s] \in Seq(Bytes)
          BY <4>0, StreamTypes DEF StreamSlices
        <5> QED
          BY <4>1, <4>2, <5>1, SliceAppend
      <4>4. IsSlice(stream'[s], copied[s] - Len(chunk[s]), chunk[s])
        <5>1. /\ chunk[s] \in Seq(Bytes) /\ stream[s] \in Seq(Bytes)
              /\ IsSlice(stream[s], copied[s] - Len(chunk[s]), chunk[s])
          BY <4>0, StreamTypes DEF StreamSlices
        <5> QED
          BY <4>1, <4>2, <5>1, SliceAppend
      <4>5. copied[s] <= Len(stream'[s])
        BY <2>2, <4>0, <4>1, <4>2 DEF StreamSlices
      <4> QED
        BY <2>5, <3>2, <4>0, <4>3, <4>4, <4>5 DEF StreamSlices
    <3> QED
      BY <3>1, <3>2
  <2> QED
    BY <2>4, <2>6 DEF Slices
<1>2. ASSUME NEW s \in Streams, CopyRead(s)
      PROVE  TypeOK' /\ Slices'
  <2>0. StreamSlices(s) /\ chunk[s] = <<>> /\ Len(chunk[s]) = 0
    BY <1>2, EmptySeq DEF CopyRead, Slices
  <2>1. PICK n \in copied[s] + 1 .. Len(stream[s]) :
            /\ chunk' = [chunk EXCEPT ![s] = SubSeq(stream[s], copied[s] + 1, n)]
            /\ copied' = [copied EXCEPT ![s] = n]
    BY <1>2 DEF CopyRead
  <2> DEFINE x == SubSeq(stream[s], copied[s] + 1, n)
  <2>2. /\ n \in Nat /\ n \in copied[s] .. Len(stream[s]) /\ copied[s] \in Nat
        /\ stream[s] \in Seq(Bytes) /\ Len(stream[s]) \in Nat
    BY StreamTypes
  <2>3. x \in Seq(Bytes) /\ Len(x) = n - copied[s] /\ IsSlice(stream[s], copied[s], x)
    BY <2>2, SubSeqIsSlice
  <2> HIDE DEF x
  <2>4. /\ chunk' = [chunk EXCEPT ![s] = x] /\ copied' = [copied EXCEPT ![s] = n]
        /\ UNCHANGED <<stream, ring, off>>
    BY <1>2, <2>1 DEF x, CopyRead, processVars, clientVars
  <2>5. TypeOK'
    BY <1>2, <2>2, <2>3, <2>4 DEF TypeOK, CopyRead, processVars, cmdVars, clientVars
  <2>6. ASSUME NEW t \in Streams PROVE StreamSlices(t)'
    <3>1. CASE t # s
      <4>1. chunk'[t] = chunk[t] /\ copied'[t] = copied[t]
        BY <2>4, <3>1 DEF TypeOK
      <4> QED
        BY <2>4, <4>1 DEF Slices, StreamSlices
    <3>2. CASE t = s
      <4>1. chunk'[s] = x /\ copied'[s] = n
        BY <2>4 DEF TypeOK
      <4>2. n - Len(x) = copied[s] /\ copied[s] - Len(chunk[s]) = copied[s] /\ Len(x) <= n
        BY <2>0, <2>2, <2>3
      <4> QED
        BY <2>0, <2>2, <2>3, <2>4, <3>2, <4>1, <4>2 DEF StreamSlices
    <3> QED
      BY <3>1, <3>2
  <2> QED
    BY <2>5, <2>6 DEF Slices
<1>3. ASSUME NEW s \in Streams, CopyWrite(s)
      PROVE  TypeOK' /\ Slices'
  <2>0. StreamSlices(s)
    BY DEF Slices
  <2> DEFINE w == RingWrite(Cap, ring[s], chunk[s])
  <2>1. /\ ring[s] \in Buffers /\ chunk[s] \in Seq(Bytes) /\ stream[s] \in Seq(Bytes)
        /\ Cap \in Nat
    BY CaptureAssumption, StreamTypes
  <2>2. IsSlice(stream[s], ring[s].start + Len(ring[s].buf), chunk[s])
    BY <2>0 DEF StreamSlices
  <2>3. /\ w \in Buffers
        /\ IsSlice(stream[s], w.start, w.buf)
        /\ w.start + Len(w.buf) = ring[s].start + Len(ring[s].buf) + Len(chunk[s])
        /\ Len(w.buf) <= Cap
        /\ w.start > 0 => Len(w.buf) = Cap
    BY <2>0, <2>1, <2>2, RingWriteKeepsTail DEF StreamSlices
  <2>4. /\ ring' = [ring EXCEPT ![s] = w] /\ chunk' = [chunk EXCEPT ![s] = <<>>]
        /\ UNCHANGED <<stream, copied, off>>
    BY <1>3 DEF CopyWrite, processVars, clientVars
  <2> HIDE DEF w
  <2>5. <<>> \in Seq(Bytes) /\ Len(<<>>) = 0
    BY EmptySeq
  <2>6. TypeOK'
    <3>1. ring' \in [Streams -> [buf : Seq(Bytes), start : Nat]] /\ chunk' \in [Streams -> Seq(Bytes)]
      BY <2>3, <2>4, <2>5 DEF TypeOK, Buffers
    <3>2. \A t \in Streams : Len(ring'[t].buf) <= Cap
      BY <2>3, <2>4 DEF TypeOK
    <3> QED
      BY <1>3, <2>4, <3>1, <3>2 DEF TypeOK, CopyWrite, processVars, cmdVars, clientVars
  <2>7. ASSUME NEW t \in Streams PROVE StreamSlices(t)'
    <3>1. CASE t # s
      <4>1. chunk'[t] = chunk[t] /\ ring'[t] = ring[t]
        BY <2>4, <3>1 DEF TypeOK
      <4> QED
        BY <2>4, <4>1 DEF Slices, StreamSlices
    <3>2. CASE t = s
      <4>1. /\ ring'[s] = w /\ chunk'[s] = <<>> /\ copied'[s] = copied[s]
            /\ stream'[s] = stream[s] /\ off'[s] = off[s]
        BY <2>4 DEF TypeOK
      <4>2. /\ copied[s] \in Nat /\ Len(chunk[s]) \in Nat /\ off[s] \in Nat
            /\ ring[s].start \in Nat /\ Len(ring[s].buf) \in Nat
        BY StreamTypes
      <4>3. w.start + Len(w.buf) = copied[s]
        BY <2>0, <2>3, <4>2 DEF StreamSlices
      <4>4. copied[s] - Len(<<>>) = copied[s] /\ Len(<<>>) <= copied[s]
        BY <2>5, <4>2
      <4>5. off[s] <= copied[s]
        BY <2>0, <4>2 DEF StreamSlices, RingLen
      <4>6. IsSlice(stream[s], copied[s], <<>>)
        <5>1. copied[s] + Len(<<>>) <= Len(stream[s])
          BY <2>0, <2>5, <4>2 DEF StreamSlices
        <5>2. \A i \in 1 .. Len(<<>>) : FALSE
          BY <2>5
        <5> QED
          BY <5>1, <5>2 DEF IsSlice
      <4> QED
        BY <2>0, <2>3, <3>2, <4>1, <4>3, <4>4, <4>5, <4>6 DEF StreamSlices, RingLen
    <3> QED
      BY <3>1, <3>2
  <2> QED
    BY <2>6, <2>7 DEF Slices
<1>4. ASSUME NEW s \in Streams, NEW n \in PageSizes, ReadPage(s, n)
      PROVE  TypeOK' /\ Slices'
  <2>1. PICK p \in Pages :
            /\ off' = [off EXCEPT ![s] = p.next]
            /\ seen' = [seen EXCEPT ![s] = seen[s] \o JsonText(p.data)]
            /\ skipped' = [skipped EXCEPT ![s] = skipped[s] \/ p.truncatedBefore]
            /\ sawEnd' = [sawEnd EXCEPT ![s] = sawEnd[s] \/ (sawExit /\ p.data = <<>>)]
            /\ p.next <= RingLen(ring[s])
    BY <1>4, ReadPageStep
  <2>2. seen[s] \o JsonText(p.data) \in Seq(Bytes \cup {Replacement})
    BY JsonTextType, ConcatProperties DEF TypeOK, Pages
  <2>3. /\ off' \in [Streams -> Nat]
        /\ seen' \in [Streams -> Seq(Bytes \cup {Replacement})]
        /\ skipped' \in [Streams -> BOOLEAN]
        /\ sawEnd' \in [Streams -> BOOLEAN]
    BY <2>1, <2>2 DEF TypeOK, Pages
  <2>4. UNCHANGED <<processVars, captureVars, cmdVars, sawExit>>
    BY <1>4 DEF ReadPage
  <2>5. TypeOK'
    BY <2>3, <2>4 DEF TypeOK, processVars, captureVars, cmdVars
  <2>6. ASSUME NEW t \in Streams PROVE StreamSlices(t)'
    <3>1. UNCHANGED <<stream, copied, chunk, ring>> /\ StreamSlices(t)
      BY <2>4 DEF Slices, processVars, captureVars
    <3>2. off'[t] = IF t = s THEN p.next ELSE off[t]
      BY <2>1 DEF TypeOK
    <3> QED
      BY <2>1, <3>1, <3>2 DEF StreamSlices
  <2> QED
    BY <2>5, <2>6 DEF Slices
<1>5. ASSUME NEW s \in Streams, CmdRead(s)
      PROVE  TypeOK' /\ Slices'
  <2> DEFINE p == ReadFrom(ring[s], 0, MaxOut)
  <2>1. /\ ring[s] \in Buffers /\ stream[s] \in Seq(Bytes) /\ 0 <= RingLen(ring[s])
        /\ IsSlice(stream[s], ring[s].start, ring[s].buf) /\ MaxOut \in Nat \ {0}
    BY CaptureAssumption, StreamTypes DEF Slices, StreamSlices, RingLen
  <2>2. p \in Pages
    BY <2>1, ReadFromIsSlice DEF Pages
  <2>3. cmdPage' = [cmdPage EXCEPT ![s] = p] /\ cmd' = [cmd EXCEPT ![s] = "len"]
        /\ UNCHANGED <<processVars, captureVars, timedOut, truncated, clientVars>>
    BY <1>5 DEF CmdRead
  <2> HIDE DEF p
  <2>4. TypeOK'
    BY <2>2, <2>3 DEF TypeOK, Pages, processVars, captureVars, clientVars
  <2>5. Slices'
    BY <2>3, SlicesQuiet DEF processVars, captureVars, clientVars
  <2> QED
    BY <2>4, <2>5
<1> USE DEF TypeOK
<1>6. ASSUME NEW s \in Streams, CmdLen(s)
      PROVE  TypeOK' /\ Slices'
  <2>1. (cmdPage[s].next < RingLen(ring[s])) \in BOOLEAN
    OBVIOUS
  <2>2. truncated' \in [Streams -> BOOLEAN] /\ cmd' \in [Streams -> {"wait", "read", "len", "done"}]
    BY <1>6, <2>1 DEF CmdLen
  <2> QED
    BY <1>6, <2>2, SlicesQuiet DEF CmdLen, processVars, captureVars, clientVars
<1>7. ASSUME NEW s \in Streams, CopyEnd(s)
      PROVE  TypeOK' /\ Slices'
  BY <1>7, SlicesQuiet DEF CopyEnd, processVars, cmdVars, clientVars
<1>8. ASSUME Fork \/ LeaderExit \/ KidsExit
      PROVE  TypeOK' /\ Slices'
  BY <1>8, SlicesQuiet DEF Fork, LeaderExit, KidsExit, captureVars, cmdVars, clientVars
<1>9. ASSUME Reap \/ Drained \/ GraceElapsed \/ CloseIO \/ Publish
      PROVE  TypeOK' /\ Slices'
  BY <1>9, SlicesQuiet DEF Reap, Drained, GraceElapsed, CloseIO, Publish, AllCopied, processVars,
     cmdVars, clientVars
<1>10. ASSUME NEW late \in BOOLEAN, CmdWait(late)
       PROVE  TypeOK' /\ Slices'
  BY <1>10, SlicesQuiet DEF CmdWait, processVars, captureVars, clientVars
<1>11. ASSUME ReadExit
       PROVE  TypeOK' /\ Slices'
  BY <1>11, SlicesQuiet DEF ReadExit, processVars, captureVars, cmdVars
<1>12. CASE UNCHANGED vars
  BY <1>12, SlicesQuiet DEF vars
<1> QED
  BY <1>1, <1>2, <1>3, <1>4, <1>5, <1>6, <1>7, <1>8, <1>9, <1>10, <1>11, <1>12
  DEF Next, CaptureStep

\* The state of the capture keeps its types; in particular no buffer exceeds its capacity.
THEOREM CaptureTypeCorrect == Spec => [](TypeOK /\ Slices)
<1>1. TypeOK /\ Slices /\ [Next]_vars => (TypeOK /\ Slices)'
  BY NextTypes
<1> QED
  BY InitTypes, <1>1, PTL DEF Spec

\* A ring buffer holds the end of what was copied, at the right offsets, whatever the sizes of
\* buffer and chunks (ringbuffer.go).
THEOREM RingHoldsTail == Spec => []RingIsTail
<1>1. TypeOK /\ Slices => RingIsTail
  <2> SUFFICES ASSUME TypeOK, Slices, NEW s \in Streams
               PROVE  LET total == copied[s] - Len(chunk[s]) IN
                      /\ RingLen(ring[s]) = total
                      /\ ring[s].buf = SubSeq(stream[s], ring[s].start + 1, total)
                      /\ Len(ring[s].buf) <= Cap
    BY DEF RingIsTail
  <2>1. StreamSlices(s)
    BY DEF Slices
  <2>2. ring[s].buf = SubSeq(stream[s], ring[s].start + 1, ring[s].start + Len(ring[s].buf))
    BY <2>1, StreamTypes, SliceIsSubSeq DEF StreamSlices
  <2>3. Len(ring[s].buf) <= Cap
    BY DEF TypeOK
  <2> QED
    BY <2>1, <2>2, <2>3 DEF StreamSlices, RingLen
<1> QED
  BY <1>1, CaptureTypeCorrect, PTL

-----------------------------------------------------------------------------
(* The exit is published after the capture. *)

\* A copy ended with empty hands, and at end of file unless CloseIO closed the pipe under it; a
\* wait that was not forced saw every copy end before CloseIO.
Waiting ==
    /\ pipesOpen <=> waiter \in {"wait", "drain", "closeIO"}
    /\ waiter \in {"wait", "drain"} => ~forced
    /\ \A s \in Streams : copyDone[s] => chunk[s] = <<>> /\ (pipesOpen => AtEOF(s))
    /\ waiter \in {"closeIO", "drained", "done"} /\ ~forced =>
            \A s \in Streams : copyDone[s] /\ AtEOF(s)
    /\ waiter = "done" => AllCopied

\* End of file is final: nobody is left to write, and nothing to copy.
LEMMA AtEOFStable ==
  ASSUME TypeOK, Slices, [Next]_vars, NEW s \in Streams, AtEOF(s)
  PROVE  AtEOF(s)'
<1> USE DEF AtEOF
<1>1. ASSUME NEW t \in Streams, Produce(t) PROVE FALSE
  BY <1>1 DEF Produce
<1>2. ASSUME NEW t \in Streams, CopyRead(t) PROVE AtEOF(s)'
  <2>1. UNCHANGED <<stream, leader, kids>>
    BY <1>2 DEF CopyRead, processVars
  <2>2. CASE t = s
    <3>1. PICK n \in copied[s] + 1 .. Len(stream[s]) : TRUE
      BY <1>2, <2>2 DEF CopyRead
    <3>2. copied[s] \in Nat
      BY StreamTypes
    <3> QED
      BY <3>1, <3>2
  <2>3. CASE t # s
    <3>1. copied'[s] = copied[s]
      BY <1>2, <2>3 DEF CopyRead, TypeOK
    <3> QED
      BY <2>1, <3>1
  <2> QED
    BY <2>2, <2>3
<1>3. ASSUME UNCHANGED <<stream, copied>>, leader' = leader \/ leader' = "exited",
             kids' = kids \/ kids' = FALSE
      PROVE  AtEOF(s)'
  BY <1>3
<1> QED
  BY <1>1, <1>2, <1>3 DEF Next, CaptureStep, Fork, LeaderExit, KidsExit, CopyWrite, CopyEnd, Reap,
     Drained, GraceElapsed, CloseIO, Publish, CmdWait, CmdRead, CmdLen, ReadPage, ReadExit, vars,
     processVars, captureVars, TypeOK

\* Nothing has ended yet.
LEMMA InitWaiting == Init => Waiting
BY DEF Init, Waiting

\* One step per action of the wait goroutine and of the copies.
LEMMA NextWaiting == TypeOK /\ Slices /\ Waiting /\ [Next]_vars => Waiting'
<1> SUFFICES ASSUME TypeOK, Slices, Waiting, [Next]_vars PROVE Waiting'
  OBVIOUS
<1>0. \A s \in Streams : AtEOF(s) => AtEOF(s)'
  BY AtEOFStable
<1>1. ASSUME UNCHANGED <<pipesOpen, waiter, forced, copyDone, chunk>>
      PROVE  Waiting'
  BY <1>0, <1>1 DEF Waiting, AllCopied
<1>2. ASSUME NEW s \in Streams, CopyRead(s)
      PROVE  Waiting'
  <2>1. /\ UNCHANGED <<pipesOpen, waiter, forced, copyDone>> /\ ~copyDone[s]
        /\ \A t \in Streams : t # s => chunk'[t] = chunk[t]
    BY <1>2 DEF CopyRead, TypeOK
  <2> QED
    BY <1>0, <2>1 DEF Waiting, AllCopied
<1>3. ASSUME NEW s \in Streams, CopyWrite(s)
      PROVE  Waiting'
  <2>1. /\ UNCHANGED <<pipesOpen, waiter, forced, copyDone>>
        /\ \A t \in Streams : chunk'[t] = IF t = s THEN <<>> ELSE chunk[t]
    BY <1>3 DEF CopyWrite, TypeOK
  <2> QED
    BY <1>0, <2>1 DEF Waiting, AllCopied
<1>4. ASSUME NEW s \in Streams, CopyEnd(s)
      PROVE  Waiting'
  <2>1. /\ UNCHANGED <<pipesOpen, waiter, forced, chunk>>
        /\ chunk[s] = <<>> /\ (AtEOF(s) \/ ~pipesOpen)
        /\ \A t \in Streams : copyDone'[t] <=> (t = s \/ copyDone[t])
    BY <1>4 DEF CopyEnd, TypeOK
  <2> QED
    BY <1>0, <2>1 DEF Waiting, AllCopied
<1>5. CASE Reap
  BY <1>0, <1>5 DEF Reap, Waiting, AllCopied
<1>6. CASE Drained
  BY <1>0, <1>6 DEF Drained, Waiting, AllCopied
<1>7. CASE GraceElapsed
  <2>1. /\ waiter = "drain" /\ waiter' = "closeIO" /\ (forced' <=> ~AllCopied)
        /\ UNCHANGED <<chunk, copyDone, pipesOpen>>
    BY <1>7 DEF GraceElapsed
  <2> QED
    BY <1>0, <2>1 DEF Waiting, AllCopied
<1>8. CASE CloseIO
  BY <1>0, <1>8 DEF CloseIO, Waiting, AllCopied
<1>9. CASE Publish
  BY <1>0, <1>9 DEF Publish, Waiting, AllCopied
<1> QED
  BY <1>1, <1>2, <1>3, <1>4, <1>5, <1>6, <1>7, <1>8, <1>9
  DEF Next, CaptureStep, Produce, Fork, LeaderExit, KidsExit, CmdWait, CmdRead, CmdLen, ReadPage,
      ReadExit, vars, captureVars

\* The order of the wait goroutine's steps, for any number of streams.
THEOREM WaitingHolds == Spec => []Waiting
<1>1. TypeOK /\ Slices /\ Waiting /\ [Next]_vars => Waiting'
  BY NextWaiting
<1> QED
  BY InitWaiting, <1>1, CaptureTypeCorrect, PTL DEF Spec

\* "exitCode/done must never precede full Stdout/Stderr capture" (processmgr.go:146), except after
\* the grace period.
THEOREM ExitFollowsCapture == Spec => []DoneMeansCaptured
<1>1. TypeOK /\ Slices /\ Waiting => DoneMeansCaptured
  <2> SUFFICES ASSUME TypeOK, Slices, Waiting, waiter = "done", NEW s \in Streams
               PROVE  chunk[s] = <<>> /\ (~forced => RingLen(ring[s]) = Len(stream[s]))
    BY DEF DoneMeansCaptured
  <2>1. chunk[s] = <<>>
    BY DEF Waiting, AllCopied
  <2>2. ASSUME ~forced PROVE RingLen(ring[s]) = Len(stream[s])
    <3>1. copied[s] = Len(stream[s])
      BY <2>2 DEF Waiting, AtEOF
    <3>2. Len(chunk[s]) = 0
      BY <2>1, EmptySeq
    <3>3. RingLen(ring[s]) = copied[s] - Len(chunk[s])
      BY DEF Slices, StreamSlices, RingLen
    <3> QED
      BY <3>1, <3>2, <3>3, StreamTypes
  <2> QED
    BY <2>1, <2>2
<1> QED
  BY <1>1, CaptureTypeCorrect, WaitingHolds, PTL

-----------------------------------------------------------------------------
(* The results of command.exec and command.read. *)

\* A command that did not time out read from finished buffers.
CommandRead(s) ==
    ~timedOut =>
        /\ cmd[s] # "wait" => waiter = "done"
        /\ cmd[s] \in {"len", "done"} => cmdPage[s] = ReadFrom(ring[s], 0, MaxOut)
        /\ cmd[s] = "done" => (truncated[s] <=> cmdPage[s].next < RingLen(ring[s]))

CommandsRead == \A s \in Streams : CommandRead(s)

\* Once done is closed the buffers do not change any more, and neither does how it came about.
LEMMA DoneIsFinal ==
  ASSUME TypeOK, Waiting, [Next]_vars, waiter = "done"
  PROVE  UNCHANGED <<waiter, ring, forced>>
<1>1. \A s \in Streams : chunk[s] = <<>>
  BY DEF Waiting, AllCopied
<1>2. ASSUME NEW s \in Streams, CopyWrite(s) PROVE FALSE
  BY <1>1, <1>2 DEF CopyWrite
<1> QED
  BY <1>2 DEF Next, CaptureStep, Produce, Fork, LeaderExit, KidsExit, CopyRead, CopyEnd, Reap,
     Drained, GraceElapsed, CloseIO, Publish, CmdWait, CmdRead, CmdLen, ReadPage, ReadExit, vars,
     captureVars

\* The handler's three steps, for each stream.
LEMMA NextCommandsRead ==
  TypeOK /\ Waiting /\ CommandsRead /\ [Next]_vars => CommandsRead'
<1> SUFFICES ASSUME TypeOK, Waiting, CommandsRead, [Next]_vars, NEW s \in Streams
             PROVE  CommandRead(s)'
  BY DEF CommandsRead
<1>0. CommandRead(s)
  BY DEF CommandsRead
<1>1. waiter = "done" => UNCHANGED <<waiter, ring>>
  BY DoneIsFinal
<1>2. ASSUME NEW late \in BOOLEAN, CmdWait(late)
      PROVE  CommandRead(s)'
  <2>1. cmd'[s] = "read" /\ (late \/ waiter = "done") /\ timedOut' = late
    BY <1>2 DEF CmdWait
  <2> QED
    BY <1>1, <2>1 DEF CommandRead
<1>3. ASSUME NEW t \in Streams, CmdRead(t)
      PROVE  CommandRead(s)'
  <2>1. /\ cmd[t] = "read" /\ cmd'[s] = IF s = t THEN "len" ELSE cmd[s]
        /\ cmdPage'[s] = IF s = t THEN ReadFrom(ring[s], 0, MaxOut) ELSE cmdPage[s]
        /\ UNCHANGED <<timedOut, truncated, ring, waiter>>
    BY <1>3 DEF CmdRead, captureVars, TypeOK
  <2> QED
    BY <1>0, <2>1 DEF CommandRead
<1>4. ASSUME NEW t \in Streams, CmdLen(t)
      PROVE  CommandRead(s)'
  <2>1. /\ cmd[t] = "len" /\ cmd'[s] = IF s = t THEN "done" ELSE cmd[s]
        /\ truncated'[s] <=> (IF s = t THEN cmdPage[s].next < RingLen(ring[s]) ELSE truncated[s])
        /\ UNCHANGED <<timedOut, cmdPage, ring, waiter>>
    BY <1>4 DEF CmdLen, captureVars, TypeOK
  <2> QED
    BY <1>0, <2>1 DEF CommandRead
<1>5. ASSUME UNCHANGED cmdVars
      PROVE  CommandRead(s)'
  <2>1. CASE timedOut
    BY <1>5, <2>1 DEF CommandRead, cmdVars
  <2>2. CASE cmd[s] = "wait"
    BY <1>5, <2>2 DEF CommandRead, cmdVars
  <2>3. CASE ~timedOut /\ cmd[s] # "wait"
    <3>1. waiter = "done" /\ UNCHANGED <<waiter, ring>>
      BY <1>0, <1>1, <2>3 DEF CommandRead
    <3> QED
      BY <1>0, <1>5, <3>1 DEF CommandRead, cmdVars
  <2> QED
    BY <2>1, <2>2, <2>3
<1> QED
  BY <1>2, <1>3, <1>4, <1>5 DEF Next, CaptureStep, Produce, Fork, LeaderExit, KidsExit, CopyRead,
     CopyWrite, CopyEnd, Reap, Drained, GraceElapsed, CloseIO, Publish, ReadPage, ReadExit, vars,
     cmdVars

\* A command that ended and whose response lacks some of its output says so (handlers_command.go:41),
\* if the buffer is larger than the cap on a response: a buffer that dropped bytes is full, so that a
\* response from it cannot reach its end.  The hypothesis is needed, see the README.
THEOREM TruncationIsSignalled ==
  ASSUME Cap > MaxOut
  PROVE  Spec => []TruncationSignalled
<1>1. Init => CommandsRead
  BY DEF Init, CommandsRead, CommandRead
<1>2. TypeOK /\ Waiting /\ CommandsRead /\ [Next]_vars => CommandsRead'
  BY NextCommandsRead
<1>3. TypeOK /\ Slices /\ DoneMeansCaptured /\ CommandsRead => TruncationSignalled
  <2> SUFFICES ASSUME TypeOK, Slices, DoneMeansCaptured, CommandsRead, NEW s \in Streams,
                      cmd[s] = "done", ~timedOut, ~forced, ~truncated[s]
               PROVE  cmdPage[s].data = stream[s]
    BY DEF TruncationSignalled
  <2> DEFINE p == ReadFrom(ring[s], 0, MaxOut)
  <2>1. waiter = "done" /\ cmdPage[s] = p /\ ~(p.next < RingLen(ring[s]))
    BY DEF CommandsRead, CommandRead
  <2>2. RingLen(ring[s]) = Len(stream[s])
    BY <2>1 DEF DoneMeansCaptured
  <2>3. PICK start \in Nat, len \in Nat : start = ring[s].start /\ len = Len(ring[s].buf)
    BY StreamTypes
  <2>4. /\ IsSlice(stream[s], start, ring[s].buf) /\ (start > 0 => len = Cap)
        /\ RingLen(ring[s]) = start + len
    BY <2>3 DEF Slices, StreamSlices, RingLen
  <2>5. LET from == IF 0 < ring[s].start THEN ring[s].start ELSE 0
        IN  /\ p \in Pages
            /\ IsSlice(stream[s], from, p.data)
            /\ p.next = from + Len(p.data)
            /\ Len(p.data) = (IF from - ring[s].start + MaxOut < Len(ring[s].buf) THEN MaxOut
                              ELSE RingLen(ring[s]) - from)
    <3>1. 0 \in Nat /\ 0 <= RingLen(ring[s])
      BY <2>4
    <3>2. /\ stream[s] \in Seq(Bytes) /\ ring[s] \in Buffers
          /\ IsSlice(stream[s], ring[s].start, ring[s].buf) /\ MaxOut \in Nat \ {0}
      BY <2>3, <2>4, StreamTypes, CaptureAssumption
    <3> QED
      BY <3>1, <3>2, ReadFromIsSlice DEF Pages
  <2> HIDE DEF p
  <2>6. start = 0
    <3> SUFFICES ASSUME start > 0 PROVE FALSE
      BY <2>3
    <3>1. len = Cap /\ p.next = start + Len(p.data)
      BY <2>3, <2>4, <2>5
    <3>2. Len(p.data) = IF start - start + MaxOut < len THEN MaxOut ELSE RingLen(ring[s]) - start
      BY <2>3, <2>5
    <3>3. Len(p.data) = MaxOut
      BY <3>1, <3>2, CaptureAssumption
    <3> QED
      BY <2>1, <2>4, <3>1, <3>3, CaptureAssumption
  <2>7. /\ IsSlice(stream[s], 0, p.data) /\ p.next = 0 + Len(p.data)
        /\ Len(p.data) = IF 0 - 0 + MaxOut < len THEN MaxOut ELSE RingLen(ring[s]) - 0
    BY <2>3, <2>5, <2>6
  <2>8. Len(p.data) = Len(stream[s])
    BY <2>1, <2>2, <2>4, <2>6, <2>7, CaptureAssumption, StreamTypes
  <2>9. p.data \in Seq(Bytes) /\ stream[s] \in Seq(Bytes)
    BY <2>5, StreamTypes DEF Pages
  <2>10. ASSUME NEW i \in 1 .. Len(p.data) PROVE p.data[i] = stream[s][i]
    <3>1. 0 + i = i
      BY <2>8, StreamTypes
    <3> QED
      BY <2>7, <3>1 DEF IsSlice
  <2> QED
    BY <2>1, <2>8, <2>9, <2>10, SeqEqual
<1> QED
  BY <1>1, <1>2, <1>3, CaptureTypeCorrect, WaitingHolds, ExitFollowsCapture, PTL DEF Spec

-----------------------------------------------------------------------------
(* Paging with process.read. *)

\* The client that saw the end is at the end; without a flagged page it has everything up to its
\* offset.
Paged(s) ==
    /\ sawExit => waiter = "done"
    /\ sawEnd[s] => sawExit /\ off[s] = RingLen(ring[s])
    /\ \A i \in 1 .. Len(stream[s]) : stream[s][i][2] = "a"
    /\ ~skipped[s] => /\ seen[s] \in Seq(Bytes)
                      /\ Len(seen[s]) = off[s]
                      /\ IsSlice(stream[s], 0, seen[s])

AllPaged == \A s \in Streams : Paged(s)

\* Text of characters of one byte reaches the client as it is.
LEMMA JsonTextPlain ==
  ASSUME NEW data \in Seq(Bytes), \A i \in 1 .. Len(data) : data[i][2] = "a"
  PROVE  JsonText(data) = data
<1>1. data \in [1 .. Len(data) -> Bytes]
  BY LenProperties
<1>2. JsonText(data) = [i \in 1 .. Len(data) |-> data[i]]
  BY DEF JsonText
<1> QED
  BY <1>1, <1>2

\* One step per action that the paging depends on.
LEMMA NextPaged ==
  ASSUME Kinds = {"a"}, TypeOK, Slices, Waiting, AllPaged, [Next]_vars, NEW s \in Streams
  PROVE  Paged(s)'
<1>0. Paged(s)
  BY DEF AllPaged
<1>1. waiter = "done" => UNCHANGED <<waiter, ring>>
  BY DoneIsFinal
<1>2. ASSUME NEW t \in Streams, Produce(t) PROVE Paged(s)'
  <2>1. /\ UNCHANGED <<sawExit, waiter, sawEnd, off, ring, skipped, seen>>
    BY <1>2 DEF Produce, captureVars, clientVars
  <2>2. CASE t # s
    <3>1. stream'[s] = stream[s]
      BY <1>2, <2>2 DEF Produce, TypeOK
    <3> QED
      BY <1>0, <2>1, <3>1 DEF Paged
  <2>3. CASE t = s
    <3>1. PICK x \in Bytes : /\ x[2] \in NextKinds(s)
                             /\ stream' = [stream EXCEPT ![s] = Append(stream[s], x)]
      BY <1>2, <2>3, ProduceStep
    <3>2. stream'[s] = Append(stream[s], x) /\ stream[s] \in Seq(Bytes) /\ Len(stream[s]) \in Nat
      BY <3>1, StreamTypes DEF TypeOK
    <3>3. x[2] = "a"
      <4>1. Len(stream[s]) > 0 => stream[s][Len(stream[s])][2] = "a"
        BY <1>0, <3>2 DEF Paged
      <4> QED
        BY <3>1, <4>1 DEF NextKinds
    <3>4. \A i \in 1 .. Len(stream'[s]) : stream'[s][i][2] = "a"
      <4>1. /\ Len(Append(stream[s], x)) = Len(stream[s]) + 1
            /\ \A i \in 1 .. Len(stream[s]) : Append(stream[s], x)[i] = stream[s][i]
            /\ Append(stream[s], x)[Len(stream[s]) + 1] = x
        BY <3>2, AppendProperties
      <4>2. ASSUME NEW i \in 1 .. Len(stream[s]) + 1 PROVE stream'[s][i][2] = "a"
        <5>1. CASE i = Len(stream[s]) + 1
          BY <3>2, <3>3, <4>1, <5>1
        <5>2. CASE i \in 1 .. Len(stream[s])
          BY <1>0, <3>2, <4>1, <5>2 DEF Paged
        <5> QED
          BY <3>2, <5>1, <5>2
      <4> QED
        BY <3>2, <4>1, <4>2
    <3>5. ASSUME ~skipped[s] PROVE IsSlice(stream'[s], 0, seen[s])
      <4>1. seen[s] \in Seq(Bytes) /\ IsSlice(stream[s], 0, seen[s])
        BY <1>0, <3>5 DEF Paged
      <4> QED
        BY <3>2, <4>1, SliceAppend
    <3> QED
      BY <1>0, <2>1, <3>4, <3>5 DEF Paged
  <2> QED
    BY <2>2, <2>3
<1>3. ASSUME NEW t \in Streams, NEW n \in PageSizes, ReadPage(t, n) PROVE Paged(s)'
  <2>0. UNCHANGED <<stream, ring, waiter, sawExit>>
    BY <1>3 DEF ReadPage, processVars, captureVars
  <2>1. CASE t # s
    <3>1. /\ off'[s] = off[s] /\ seen'[s] = seen[s] /\ skipped'[s] = skipped[s]
          /\ sawEnd'[s] = sawEnd[s]
      BY <1>3, <2>1 DEF ReadPage, TypeOK
    <3> QED
      BY <1>0, <2>0, <3>1 DEF Paged
  <2>2. CASE t = s
    <3> DEFINE from == IF off[s] < ring[s].start THEN ring[s].start ELSE off[s]
    <3>1. PICK p \in Pages :
            /\ off' = [off EXCEPT ![s] = p.next]
            /\ seen' = [seen EXCEPT ![s] = seen[s] \o JsonText(p.data)]
            /\ skipped' = [skipped EXCEPT ![s] = skipped[s] \/ p.truncatedBefore]
            /\ sawEnd' = [sawEnd EXCEPT ![s] = sawEnd[s] \/ (sawExit /\ p.data = <<>>)]
            /\ IsSlice(stream[s], from, p.data)
            /\ p.next = from + Len(p.data)
            /\ p.next <= RingLen(ring[s])
            /\ p.data = <<>> => p.next = RingLen(ring[s])
            /\ p.truncatedBefore <=> off[s] < ring[s].start
      BY <1>3, <2>2, ReadPageStep
    <3>2. /\ off'[s] = p.next /\ seen'[s] = seen[s] \o JsonText(p.data)
          /\ skipped'[s] <=> (skipped[s] \/ p.truncatedBefore)
          /\ sawEnd'[s] <=> (sawEnd[s] \/ (sawExit /\ p.data = <<>>))
      BY <3>1 DEF TypeOK
    <3>3. /\ p.data \in Seq(Bytes) /\ Len(p.data) \in Nat /\ p.next \in Nat
          /\ off[s] \in Nat /\ ring[s].start \in Nat /\ RingLen(ring[s]) \in Nat
      <4>1. p.data \in Seq(Bytes) /\ p.next \in Nat
        BY DEF Pages
      <4> QED
        BY <4>1, StreamTypes, LenProperties DEF RingLen
    <3>4. off[s] <= from /\ from \in Nat /\ from + Len(p.data) >= from
      BY <3>3
    <3>5. sawEnd'[s] => sawExit' /\ off'[s] = RingLen(ring'[s])
      <4>1. CASE sawEnd[s]
        <5>1. sawExit /\ off[s] = RingLen(ring[s])
          BY <1>0, <4>1 DEF Paged
        <5>2. p.next = RingLen(ring[s])
          BY <3>1, <3>3, <3>4, <5>1
        <5> QED
          BY <2>0, <3>2, <5>1, <5>2
      <4>2. CASE ~sawEnd[s]
        BY <2>0, <3>1, <3>2, <4>2
      <4> QED
        BY <4>1, <4>2
    <3>6. ASSUME ~skipped'[s]
          PROVE  /\ seen'[s] \in Seq(Bytes) /\ Len(seen'[s]) = off'[s]
                 /\ IsSlice(stream[s], 0, seen'[s])
      <4>1. ~skipped[s] /\ from = off[s]
        BY <3>1, <3>2, <3>6
      <4>2. seen[s] \in Seq(Bytes) /\ Len(seen[s]) = off[s] /\ IsSlice(stream[s], 0, seen[s])
        BY <1>0, <4>1 DEF Paged
      <4>3. JsonText(p.data) = p.data
        <5>1. ASSUME NEW i \in 1 .. Len(p.data) PROVE p.data[i][2] = "a"
          <6>1. p.data[i] = stream[s][from + i]
            BY <3>1 DEF IsSlice
          <6>2. from + i \in 1 .. Len(stream[s])
            <7>1. from + Len(p.data) <= Len(stream[s]) /\ Len(stream[s]) \in Nat
              BY <3>1, StreamTypes DEF IsSlice
            <7> HIDE DEF from
            <7> QED
              BY <3>3, <3>4, <7>1
          <6> QED
            BY <1>0, <6>1, <6>2 DEF Paged
        <5> QED
          BY <3>3, <5>1, JsonTextPlain
      <4>4. IsSlice(stream[s], 0 + Len(seen[s]), p.data)
        <5>1. 0 + Len(seen[s]) = from
          BY <3>3, <4>1, <4>2
        <5> QED
          BY <3>1, <5>1
      <4>5. /\ seen[s] \o p.data \in Seq(Bytes)
            /\ Len(seen[s] \o p.data) = Len(seen[s]) + Len(p.data)
            /\ IsSlice(stream[s], 0, seen[s] \o p.data)
        BY <3>3, <4>2, <4>4, StreamTypes, SliceConcat
      <4>6. p.next = off[s] + Len(p.data)
        BY <3>1, <4>1
      <4> QED
        BY <3>2, <4>2, <4>3, <4>5, <4>6
    <3> QED
      BY <1>0, <2>0, <3>5, <3>6 DEF Paged
  <2> QED
    BY <2>1, <2>2
<1>4. CASE ReadExit
  BY <1>0, <1>4 DEF ReadExit, Paged, processVars, captureVars
<1>5. ASSUME UNCHANGED <<stream, sawExit, sawEnd, off, skipped, seen>>
      PROVE  Paged(s)'
  BY <1>0, <1>1, <1>5 DEF Paged
<1> QED
  BY <1>2, <1>3, <1>4, <1>5 DEF Next, CaptureStep, Fork, LeaderExit, KidsExit, CopyRead,
     CopyWrite, CopyEnd, Reap, Drained, GraceElapsed, CloseIO, Publish, CmdWait, CmdRead, CmdLen,
     vars, processVars, clientVars

\* A client that pages to the end, without a page flagged truncated_before, has the whole text, if
\* every character is one byte long: a page may end inside a longer one, see the README.
THEOREM PagingIsComplete ==
  ASSUME Kinds = {"a"}
  PROVE  Spec => []PagingComplete
<1>1. Init => AllPaged
  <2> SUFFICES ASSUME Init, NEW s \in Streams PROVE Paged(s)
    BY DEF AllPaged
  <2>1. /\ ~sawExit /\ sawEnd[s] = FALSE /\ stream[s] = <<>> /\ seen[s] = <<>> /\ off[s] = 0
    BY DEF Init
  <2>2. <<>> \in Seq(Bytes) /\ Len(<<>>) = 0
    BY EmptySeq
  <2>3. \A i \in 1 .. Len(<<>>) : FALSE
    BY <2>2
  <2>4. IsSlice(<<>>, 0, <<>>)
    BY <2>2, <2>3 DEF IsSlice
  <2> QED
    BY <2>1, <2>2, <2>3, <2>4 DEF Paged
<1>2. TypeOK /\ Slices /\ Waiting /\ AllPaged /\ [Next]_vars => AllPaged'
  BY NextPaged DEF AllPaged
<1>3. TypeOK /\ DoneMeansCaptured /\ AllPaged => PagingComplete
  <2> SUFFICES ASSUME TypeOK, DoneMeansCaptured, AllPaged, NEW s \in Streams,
                      sawEnd[s], ~skipped[s], ~forced
               PROVE  seen[s] = stream[s]
    BY DEF PagingComplete
  <2>1. Paged(s)
    BY DEF AllPaged
  <2>2. Len(seen[s]) = Len(stream[s])
    BY <2>1 DEF Paged, DoneMeansCaptured
  <2>3. ASSUME NEW i \in 1 .. Len(seen[s]) PROVE seen[s][i] = stream[s][i]
    <3>1. 0 + i = i
      BY <2>2, StreamTypes
    <3> QED
      BY <2>1, <3>1 DEF Paged, IsSlice
  <2>4. seen[s] \in Seq(Bytes) /\ stream[s] \in Seq(Bytes)
    BY <2>1, StreamTypes DEF Paged
  <2> QED
    BY <2>2, <2>3, <2>4, SeqEqual
<1> QED
  BY <1>1, <1>2, <1>3, CaptureTypeCorrect, WaitingHolds, ExitFollowsCapture, PTL DEF Spec
=============================================================================
