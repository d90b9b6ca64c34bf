----------------------------- MODULE StreamProofs -----------------------------
(***************************************************************************)
(* One stream, for all texts and all sizes of buffers: what the growing,     *)
(* filling and un-reading of buffers and the loops of the reader do to its   *)
(* contents, and the invariant of the calls.                                 *)
(***************************************************************************)
EXTENDS Stream, TLAPS, SequenceTheorems, WellFoundedInduction

(* Every set of numbers that is not empty has a least one.                   *)
LEMMA LeastNumber ==
  ASSUME NEW P \in SUBSET Nat, P # {}
  PROVE  \E k \in P : \A j \in P : k <= j
<1> DEFINE Less == OpToRel(<, Nat)
<1>1. IsWellFoundedOn(Less, Nat)
  BY NatLessThanWellFounded
<1>2. \A x, y \in Nat : <<x, y>> \in Less <=> x < y
  BY DEF OpToRel
<1> HIDE DEF Less
<1>3. PICK k \in P : \A j \in P : ~(<<j, k>> \in Less)
  BY <1>1, WFMin
<1>4. \A j \in P : ~(j < k)
  BY <1>2, <1>3
<1> QED BY <1>3, <1>4

(* What holds at 0 and passes from each number to the next holds up to n.     *)
LEMMA UpTo ==
  ASSUME NEW n \in Nat, NEW P \in SUBSET Nat, 0 \in P,
         \A k \in 1 .. n : k - 1 \in P => k \in P
  PROVE  \A k \in 0 .. n : k \in P
<1> DEFINE Q == {k \in 0 .. n : k \notin P}
<1>1. Q \in SUBSET Nat
  OBVIOUS
<1>2. ASSUME Q # {} PROVE FALSE
  <2>1. PICK k \in Q : \A j \in Q : k <= j
    <3> HIDE DEF Q
    <3> QED BY <1>1, <1>2, LeastNumber
  <2>2. k \in 1 .. n /\ k - 1 \in 0 .. n /\ k - 1 \notin Q
    BY <2>1
  <2> QED BY <2>1, <2>2
<1> QED BY <1>2

(* A function over the rounds of a loop exists.                              *)
Maps(F, X) == F \in [X -> X]
Runs(g, F, X, a, n) ==
  g \in [0 .. n -> X] /\ g[0] = a /\ \A k \in 1 .. n : g[k] = F[g[k - 1]]

(* A loop has a run of every number of rounds.                              *)
LEMMA Iteration ==
  ASSUME NEW X, NEW F, Maps(F, X), NEW a \in X, NEW n \in Nat
  PROVE  \E g : Runs(g, F, X, a, n)
<1> DEFINE Has(m) == \E g \in [0 .. m -> X] : g[0] = a /\ \A k \in 1 .. m : g[k] = F[g[k - 1]]
           P == {m \in Nat : Has(m)}
<1>1. 0 \in P
  <2> DEFINE g == [k \in 0 .. 0 |-> a]
  <2>1. g \in [0 .. 0 -> X] /\ g[0] = a /\ \A k \in 1 .. 0 : g[k] = F[g[k - 1]]
    OBVIOUS
  <2> HIDE DEF g
  <2>2. Has(0)
    BY <2>1
  <2> QED BY <2>2
<1>2. ASSUME NEW m \in 1 .. n, m - 1 \in P PROVE m \in P
  <2>1. PICK g \in [0 .. m - 1 -> X] : g[0] = a /\ \A k \in 1 .. m - 1 : g[k] = F[g[k - 1]]
    BY <1>2
  <2>0. F \in [X -> X]
    BY DEF Maps
  <2> DEFINE h == [k \in 0 .. m |-> IF k = m THEN F[g[m - 1]] ELSE g[k]]
  <2>2. h \in [0 .. m -> X]
    BY <2>0, <2>1
  <2>3. h[0] = a
    BY <2>1
  <2>4. ASSUME NEW k \in 1 .. m PROVE h[k] = F[h[k - 1]]
    BY <2>1
  <2> HIDE DEF h
  <2> QED BY <2>2, <2>3, <2>4
<1>3. P \in SUBSET Nat
  OBVIOUS
<1>4. \A k \in 0 .. n : k \in P
  <2> HIDE DEF P
  <2> QED BY <1>1, <1>2, <1>3, UpTo
<1>5. Has(n)
  BY <1>4
<1> QED BY <1>5, Zenon DEF Runs

-----------------------------------------------------------------------------
(* Sequences                                                                *)

(* A sequence is what comes up to a position and what comes behind it.       *)
LEMMA Split ==
  ASSUME NEW S, NEW u \in Seq(S), NEW n \in 0 .. Len(u)
  PROVE  /\ SubSeq(u, 1, n) \in Seq(S) /\ Len(SubSeq(u, 1, n)) = n
         /\ SubSeq(u, n + 1, Len(u)) \in Seq(S) /\ Len(SubSeq(u, n + 1, Len(u))) = Len(u) - n
         /\ SubSeq(u, 1, n) \o SubSeq(u, n + 1, Len(u)) = u
<1>1. Len(u) \in Nat /\ \A i \in 1 .. Len(u) : u[i] \in S
  BY ElementOfSeq
<1>2. SubSeq(u, 1, n) \in Seq(S) /\ Len(SubSeq(u, 1, n)) = n
  BY <1>1, SubSeqProperties
<1>3. SubSeq(u, n + 1, Len(u)) \in Seq(S) /\ Len(SubSeq(u, n + 1, Len(u))) = Len(u) - n
  BY <1>1, SubSeqProperties
<1>4. SubSeq(u, 1, n) \o SubSeq(u, n + 1, Len(u)) = SubSeq(u, 1, Len(u))
  <2>1. 1 \in 1 .. Len(u) + 1 /\ n \in 1 - 1 .. Len(u) /\ Len(u) \in n .. Len(u)
    BY <1>1
  <2> QED BY <2>1, ConcatAdjacentSubSeq
<1> QED BY <1>2, <1>3, <1>4, SubSeqFull

(* What is behind r + n is what is behind n in what is behind r.              *)
LEMMA Behind ==
  ASSUME NEW S, NEW data \in Seq(S), NEW r \in 0 .. Len(data), NEW n \in 0 .. Len(data) - r
  PROVE  LET u == SubSeq(data, r + 1, Len(data)) IN
         SubSeq(data, r + n + 1, Len(data)) = SubSeq(u, n + 1, Len(u))
<1> DEFINE u == SubSeq(data, r + 1, Len(data))
           v == SubSeq(data, r + n + 1, Len(data))
           w == SubSeq(u, n + 1, Len(u))
<1>1. Len(data) \in Nat /\ \A i \in 1 .. Len(data) : data[i] \in S
  BY ElementOfSeq
<1>2. u \in Seq(S) /\ Len(u) = Len(data) - r /\ \A i \in 1 .. Len(data) - r : u[i] = data[r + i]
  BY <1>1, SubSeqProperties
<1>3. v \in Seq(S) /\ Len(v) = Len(data) - r - n
      /\ \A i \in 1 .. Len(data) - r - n : v[i] = data[r + n + i]
  BY <1>1, SubSeqProperties
<1> HIDE DEF u, v
<1>4. \A i \in n + 1 .. Len(u) : u[i] \in S
  BY <1>2, ElementOfSeq
<1>5. w \in Seq(S) /\ Len(w) = Len(u) - n /\ \A i \in 1 .. Len(u) - n : w[i] = u[n + i]
  BY <1>1, <1>2, <1>4, SubSeqProperties
<1> HIDE DEF w
<1>6. ASSUME NEW i \in 1 .. Len(v) PROVE v[i] = w[i]
  <2>1. n + i \in 1 .. Len(data) - r /\ i \in 1 .. Len(u) - n /\ r + (n + i) = r + n + i
    BY <1>1, <1>2, <1>3
  <2>2. v[i] = data[r + n + i] /\ w[i] = u[n + i]
    BY <1>1, <1>2, <1>3, <1>5, <2>1
  <2>3. u[n + i] = data[r + (n + i)]
    BY <1>2, <2>1
  <2> QED BY <2>1, <2>2, <2>3
<1>7. v = w
  BY <1>1, <1>2, <1>3, <1>5, <1>6, SeqEqual
<1> QED BY <1>7 DEF u, v, w

(* What is behind r in a longer sequence.                                    *)
LEMMA BehindLonger ==
  ASSUME NEW S, NEW data \in Seq(S), NEW bytes \in Seq(S), NEW r \in 0 .. Len(data)
  PROVE  SubSeq(data \o bytes, r + 1, Len(data \o bytes))
           = SubSeq(data, r + 1, Len(data)) \o bytes
<1> DEFINE u == SubSeq(data, r + 1, Len(data))
           all == data \o bytes
           v == SubSeq(all, r + 1, Len(all))
           w == u \o bytes
<1>1. Len(data) \in Nat /\ Len(bytes) \in Nat /\ \A i \in 1 .. Len(data) : data[i] \in S
  BY ElementOfSeq
<1>2. u \in Seq(S) /\ Len(u) = Len(data) - r /\ \A i \in 1 .. Len(data) - r : u[i] = data[r + i]
  BY <1>1, SubSeqProperties
<1>3. all \in Seq(S) /\ Len(all) = Len(data) + Len(bytes)
      /\ \A i \in 1 .. Len(data) + Len(bytes) :
           all[i] = IF i <= Len(data) THEN data[i] ELSE bytes[i - Len(data)]
  BY ConcatProperties
<1> HIDE DEF u, all
<1>4. \A i \in r + 1 .. Len(all) : all[i] \in S
  BY <1>3, ElementOfSeq
<1>5. v \in Seq(S) /\ Len(v) = Len(all) - r /\ \A i \in 1 .. Len(all) - r : v[i] = all[r + i]
  BY <1>1, <1>3, <1>4, SubSeqProperties
<1>6. w \in Seq(S) /\ Len(w) = Len(u) + Len(bytes)
      /\ \A i \in 1 .. Len(u) + Len(bytes) :
           w[i] = IF i <= Len(u) THEN u[i] ELSE bytes[i - Len(u)]
  BY <1>2, ConcatProperties
<1> HIDE DEF v, w
<1>7. \A i \in 1 .. Len(v) : v[i] = w[i]
  BY <1>1, <1>2, <1>3, <1>5, <1>6
<1>8. v = w
  <2>1. Len(v) = Len(w)
    BY <1>1, <1>2, <1>3, <1>5, <1>6
  <2> QED BY <1>5, <1>6, <1>7, <2>1, SeqEqual
<1> QED BY <1>8 DEF u, all, v, w
(* A sequence of one element.                                               *)
LEMMA Singleton ==
  ASSUME NEW S, NEW c \in S
  PROVE  <<c>> \in Seq(S) /\ Len(<<c>>) = 1 /\ <<c>>[1] = c
OBVIOUS

(* A sequence of length one is its element.                                 *)
LEMMA OneLong ==
  ASSUME NEW S, NEW u \in Seq(S), Len(u) = 1
  PROVE  u[1] \in S /\ u = <<u[1]>>
<1>1. u[1] \in S
  <2>1. 1 \in 1 .. Len(u)
    OBVIOUS
  <2> QED BY <2>1, ElementOfSeq
<1>2. <<u[1]>> \in Seq(S) /\ Len(<<u[1]>>) = 1 /\ <<u[1]>>[1] = u[1]
  BY <1>1, Singleton
<1>3. \A i \in 1 .. Len(u) : u[i] = <<u[1]>>[i]
  BY <1>2
<1> QED BY <1>1, <1>2, <1>3, SeqEqual

(* Adding an element behind two sequences.                                   *)
LEMMA AppendBehind ==
  ASSUME NEW a \in Text, NEW b \in Text, NEW c \in Chars
  PROVE  a \o Append(b, c) = Append(a \o b, c)
<1> DEFINE S == Chars
<1>1. a \in Seq(S) /\ b \in Seq(S) /\ c \in S
  BY DEF Text
<1> HIDE DEF S
<1>2. <<c>> \in Seq(S) /\ a \o b \in Seq(S)
  BY <1>1, ConcatProperties
<1>3. Append(b, c) = b \o <<c>> /\ Append(a \o b, c) = (a \o b) \o <<c>>
  BY <1>1, <1>2, AppendIsConcat
<1>4. a \o (b \o <<c>>) = (a \o b) \o <<c>>
  BY <1>1, <1>2, ConcatAssociative
<1> QED BY <1>3, <1>4

(* The beginning of a sequence, one element longer.                          *)
LEMMA OneFurther ==
  ASSUME NEW S, NEW t \in Seq(S), NEW k \in 1 .. Len(t)
  PROVE  SubSeq(t, 1, k) = Append(SubSeq(t, 1, k - 1), t[k])
<1> DEFINE a == SubSeq(t, 1, k)
           b == SubSeq(t, 1, k - 1)
           c == Append(b, t[k])
<1>1. Len(t) \in Nat /\ k \in Nat /\ k - 1 \in Nat /\ t[k] \in S
      /\ \A i \in 1 .. Len(t) : t[i] \in S
  BY ElementOfSeq
<1>2. a \in Seq(S) /\ Len(a) = k /\ \A i \in 1 .. k : a[i] = t[i]
  <2>1. \A i \in 1 .. k : t[i] \in S
    BY <1>1
  <2>2. a \in Seq(S) /\ Len(a) = k - 1 + 1 /\ \A i \in 1 .. k - 1 + 1 : a[i] = t[1 + i - 1]
    BY <1>1, <2>1, SubSeqProperties
  <2> QED BY <1>1, <2>2
<1>3. b \in Seq(S) /\ Len(b) = k - 1 /\ \A i \in 1 .. k - 1 : b[i] = t[i]
  <2>1. \A i \in 1 .. k - 1 : t[i] \in S
    BY <1>1
  <2>2. b \in Seq(S) /\ Len(b) = k - 1 /\ \A i \in 1 .. k - 1 : b[i] = t[1 + i - 1]
    BY <1>1, <2>1, SubSeqProperties
  <2> QED BY <1>1, <2>2
<1> HIDE DEF a, b
<1>4. c \in Seq(S) /\ Len(c) = k /\ c[k] = t[k] /\ \A i \in 1 .. k - 1 : c[i] = b[i]
  BY <1>1, <1>3, AppendProperties
<1> HIDE DEF c
<1>5. \A i \in 1 .. k : i = k \/ i \in 1 .. k - 1
  BY <1>1
<1>6. \A i \in 1 .. k : a[i] = c[i]
  BY <1>1, <1>2, <1>3, <1>4, <1>5
<1>7. a = c
  BY <1>2, <1>4, <1>6, SeqEqual
<1> QED BY <1>7 DEF a, b, c

-----------------------------------------------------------------------------
(* Buffers                                                                  *)

(* What was not read of a buffer is a part of its data.                     *)
LEMMA UnreadType ==
  ASSUME NEW S, NEW b \in BufferOf(S)
  PROVE  Unread(b) \in Seq(S) /\ Len(Unread(b)) = Len(b.data) - b.roffset
<1>1. b.data \in Seq(S) /\ b.roffset \in 0 .. Len(b.data)
  BY DEF BufferOf
<1> QED BY <1>1, Split DEF Unread

(* A new buffer is empty.                                                   *)
LEMMA EmptyBuffer ==
  ASSUME NEW S, NEW size \in Nat
  PROVE  Buffer(size) \in BufferOf(S) /\ Unread(Buffer(size)) = <<>> /\ Buffer(size).size = size
<1>1. <<>> \in Seq(S) /\ Len(<<>>) = 0
  BY EmptySeq
<1>2. Buffer(size) \in BufferOf(S)
  BY <1>1 DEF Buffer, BufferOf
<1> QED BY <1>1, <1>2, SubSeqEmpty DEF Buffer, Unread

(* Reading n bytes of a buffer takes the first n that were unread.            *)
LEMMA ConsumedKeeps ==
  ASSUME NEW S, NEW b \in BufferOf(S), NEW n \in 0 .. Len(Unread(b))
  PROVE  /\ Consumed(b, n) \in BufferOf(S)
         /\ Consumed(b, n).size = b.size
         /\ Unread(Consumed(b, n)) = SubSeq(Unread(b), n + 1, Len(Unread(b)))
         /\ SubSeq(Unread(b), 1, n) \in Seq(S)
         /\ Len(SubSeq(Unread(b), 1, n)) = n
         /\ SubSeq(Unread(b), 1, n) \o Unread(Consumed(b, n)) = Unread(b)
<1> DEFINE d == b.data
           r == b.roffset
<1>1. d \in Seq(S) /\ r \in 0 .. Len(d) /\ r \in Nat /\ Len(d) \in Nat /\ b.size \in Nat
      /\ b \in [data : Seq(S), roffset : Nat, size : Nat] /\ Len(d) <= b.size
  BY DEF BufferOf
<1>2. Unread(b) \in Seq(S) /\ Len(Unread(b)) = Len(d) - r
  BY UnreadType
<1>3. n \in 0 .. Len(d) - r /\ n \in Nat
  BY <1>1, <1>2
<1>4. Consumed(b, n) \in [data : Seq(S), roffset : Nat, size : Nat]
      /\ Consumed(b, n).data = d /\ Consumed(b, n).roffset = r + n
      /\ Consumed(b, n).size = b.size
  BY <1>1, <1>3 DEF Consumed
<1>5. Consumed(b, n) \in BufferOf(S)
  BY <1>1, <1>3, <1>4 DEF BufferOf
<1> HIDE DEF d, r
<1>6. SubSeq(d, r + n + 1, Len(d))
        = SubSeq(SubSeq(d, r + 1, Len(d)), n + 1, Len(SubSeq(d, r + 1, Len(d))))
  BY <1>1, <1>3, Behind
<1>7. Unread(Consumed(b, n)) = SubSeq(Unread(b), n + 1, Len(Unread(b)))
  BY <1>4, <1>6 DEF Unread, d, r
<1> QED BY <1>2, <1>4, <1>5, <1>7, Split

(* The loop of i_grow_buffer ends with a size that is large enough.           *)
LEMMA DoubledEnough ==
  ASSUME NEW size \in Nat \ {0}, NEW needed \in Nat
  PROVE  Doubled(size, needed) \in Nat /\ Doubled(size, needed) >= needed
<1> DEFINE X == Nat \ {0}
           F == [x \in X |-> IF x >= needed THEN x ELSE 2 * x]
           Def(g) == [k \in 0 .. needed |->
                        IF k = 0 THEN size
                        ELSE IF g[k - 1] >= needed THEN g[k - 1] ELSE 2 * g[k - 1]]
           f == CHOOSE g : g = Def(g)
<1>1. Maps(F, X)
  BY DEF Maps
<1>2. PICK h : Runs(h, F, X, size, needed)
  <2>1. size \in X
    OBVIOUS
  <2> HIDE DEF X, F, Def, f
  <2> QED BY <1>1, <2>1, Iteration
<1>3. h = Def(h)
  <2>0. h \in [0 .. needed -> X] /\ h[0] = size /\ \A k \in 1 .. needed : h[k] = F[h[k - 1]]
    BY <1>2, Zenon DEF Runs
  <2>1. ASSUME NEW k \in 0 .. needed PROVE h[k] = Def(h)[k]
    <3>1. CASE k = 0
      BY <2>0, <3>1
    <3>2. CASE k # 0
      <4>1. k \in 1 .. needed /\ k - 1 \in 0 .. needed
        BY <3>2
      <4>2. h[k - 1] \in X /\ h[k] = F[h[k - 1]]
        BY <2>0, <4>1
      <4>3. h[k] = IF h[k - 1] >= needed THEN h[k - 1] ELSE 2 * h[k - 1]
        BY <4>2
      <4> QED BY <3>2, <4>3
    <3> QED BY <3>1, <3>2
  <2>2. h \in [0 .. needed -> X] /\ Def(h) = [k \in 0 .. needed |-> Def(h)[k]]
    BY <2>0
  <2>3. h = [k \in 0 .. needed |-> h[k]]
    BY <2>2
  <2> HIDE DEF Def
  <2> QED BY <2>1, <2>2, <2>3, Zenon
<1>4. f = Def(f)
  <2> HIDE DEF Def
  <2> QED BY <1>3, Zenon
<1>5. f[0] = size
        /\ \A k \in 1 .. needed : f[k] = IF f[k - 1] >= needed THEN f[k - 1] ELSE 2 * f[k - 1]
  <2> HIDE DEF f
  <2> QED BY <1>4
<1>6. Doubled(size, needed) = f[needed]
  BY Zenon DEF Doubled
<1> HIDE DEF f, Def, F, X
<1> DEFINE P == {k \in Nat : f[k] \in Nat /\ (f[k] >= needed \/ f[k] >= k + 1)}
<1>7. P \in SUBSET Nat
  OBVIOUS
<1>8. 0 \in P
  BY <1>5
<1>9. ASSUME NEW k \in 1 .. needed, k - 1 \in P PROVE k \in P
  <2>1. f[k - 1] \in Nat /\ (f[k - 1] >= needed \/ f[k - 1] >= k)
    BY <1>9
  <2>2. f[k] = IF f[k - 1] >= needed THEN f[k - 1] ELSE 2 * f[k - 1]
    BY <1>5
  <2> QED BY <2>1, <2>2
<1>10. needed \in P
  <2> HIDE DEF P
  <2>1. \A k \in 0 .. needed : k \in P
    BY <1>7, <1>8, <1>9, UpTo
  <2> QED BY <2>1
<1>11. f[needed] \in Nat /\ f[needed] >= needed
  BY <1>10
<1> QED BY <1>6, <1>11

(* Appending keeps what was not read, whether the buffer grows or not.        *)
LEMMA AppendedKeeps ==
  ASSUME NEW S, NEW b \in BufferOf(S), NEW bytes \in Seq(S), NEW grow \in Nat \ {0}
  PROVE  /\ Appended(b, bytes, grow) \in BufferOf(S)
         /\ Unread(Appended(b, bytes, grow)) = Unread(b) \o bytes
<1>1. /\ b \in [data : Seq(S), roffset : Nat, size : Nat]
      /\ b.data \in Seq(S) /\ Len(b.data) \in Nat /\ b.size \in Nat /\ b.roffset \in Nat
      /\ b.roffset <= Len(b.data) /\ Len(b.data) <= b.size
  BY DEF BufferOf
<1>2. Len(bytes) \in Nat
  OBVIOUS
<1>3. Unread(b) \in Seq(S) /\ Len(Unread(b)) = Len(b.data) - b.roffset /\ Len(Unread(b)) \in Nat
  BY <1>1, UnreadType
<1>4. CASE ~(Len(b.data) + Len(bytes) > b.size)
  <2>1. b.data \o bytes \in Seq(S) /\ Len(b.data \o bytes) = Len(b.data) + Len(bytes)
    BY <1>1, ConcatProperties
  <2>2. Appended(b, bytes, grow) = [b EXCEPT !.data = b.data \o bytes]
    BY <1>4 DEF Appended
  <2>3. Appended(b, bytes, grow)
          = [data |-> b.data \o bytes, roffset |-> b.roffset, size |-> b.size]
    BY <1>1, <2>2
  <2>4. Appended(b, bytes, grow) \in BufferOf(S)
    BY <1>1, <1>2, <1>4, <2>1, <2>3 DEF BufferOf
  <2>5. b.roffset \in 0 .. Len(b.data)
    BY <1>1
  <2>6. SubSeq(b.data \o bytes, b.roffset + 1, Len(b.data \o bytes))
          = SubSeq(b.data, b.roffset + 1, Len(b.data)) \o bytes
    BY <1>1, <2>5, BehindLonger
  <2>7. Appended(b, bytes, grow).data = b.data \o bytes
        /\ Appended(b, bytes, grow).roffset = b.roffset
    BY <2>3
  <2> QED BY <2>4, <2>6, <2>7, Zenon DEF Unread
<1>5. CASE Len(b.data) + Len(bytes) > b.size
  <2> DEFINE u == Unread(b)
             needed == Len(u) + Len(bytes)
             larger == Doubled(IF b.size > 0 THEN 2 * b.size ELSE grow, needed)
             size == IF needed <= b.size THEN b.size ELSE larger
  <2>1. needed \in Nat
    BY <1>2, <1>3
  <2>2. larger \in Nat /\ larger >= needed
    <3>1. (IF b.size > 0 THEN 2 * b.size ELSE grow) \in Nat \ {0}
      BY <1>1
    <3> HIDE DEF needed
    <3> QED BY <2>1, <3>1, DoubledEnough
  <2>3. size \in Nat /\ needed <= size
    BY <1>1, <2>1, <2>2
  <2>4. Grown(b, Len(bytes), grow) = [data |-> u, roffset |-> 0, size |-> size]
    BY DEF Grown, Moved
  <2>5. Appended(b, bytes, grow) = [data |-> u \o bytes, roffset |-> 0, size |-> size]
    <3> HIDE DEF u, size
    <3>1. Appended(b, bytes, grow)
            = [Grown(b, Len(bytes), grow) EXCEPT !.data = Grown(b, Len(bytes), grow).data \o bytes]
      BY <1>5, Zenon DEF Appended
    <3>2. ASSUME NEW x, x = [data |-> u, roffset |-> 0, size |-> size], NEW v
          PROVE  [x EXCEPT !.data = v] = [data |-> v, roffset |-> 0, size |-> size]
      BY <3>2
    <3>3. Grown(b, Len(bytes), grow).data = u
      BY <2>4
    <3> QED BY <2>4, <3>1, <3>2, <3>3, Zenon
  <2>6. u \o bytes \in Seq(S) /\ Len(u \o bytes) = needed
    BY <1>3, ConcatProperties
  <2> HIDE DEF size, needed, u
  <2>7. Appended(b, bytes, grow) \in BufferOf(S)
    BY <2>1, <2>3, <2>5, <2>6 DEF BufferOf
  <2>8. SubSeq(u \o bytes, 0 + 1, Len(u \o bytes)) = u \o bytes
    BY <2>6, SubSeqFull
  <2>9. Appended(b, bytes, grow).data = u \o bytes /\ Appended(b, bytes, grow).roffset = 0
    BY <2>5
  <2>10. Unread(Appended(b, bytes, grow)) = u \o bytes
    BY <2>8, <2>9, Zenon DEF Unread
  <2> QED BY <2>7, <2>10 DEF u
<1> QED BY <1>4, <1>5
-----------------------------------------------------------------------------
(* The struct between two calls.  An input has a buffer to fill; what is in   *)
(* the buffer and in the file is text; where it can be read, one character is  *)
(* un-read or nothing but 0s; the end means that nothing else is left.        *)

Inputs == {"FROMFILE", "FROMSTDIN"}
Memory == {"TOMEMORY", "FROMMEMORY"}

Left(s) == Unread(s.buf) \o s.rest
Back(s) == Written(Unread(s.restore))
Zeros == Seq({NUL})

Sound(s) ==
  /\ s \in Streams
  /\ s.type \notin Inputs => s.packet = 0 /\ s.rest = <<>>
  /\ s.type = "TOFILE" => s.buf.roffset = 0 /\ ~s.end
  /\ s.type = "TOFILE" /\ ReadOK(s) => Unread(s.restore) = <<>>
  /\ s.type \in Inputs /\ s.open => s.buf.size # 0
  /\ s.type \in Memory => ~s.broken
  /\ ReadOK(s) => Unread(s.restore) \in Zeros \/ \E c \in Chars : Unread(s.restore) = <<c>>
  /\ s.open /\ (s.end \/ (s.broken /\ s.packet # 0)) =>
       Unread(s.restore) \in Zeros /\ Left(s) = <<>>

(* What reading leaves alone.                                               *)
Same(t, s) ==
  /\ t.open = s.open /\ t.type = s.type /\ t.corrupt = s.corrupt /\ t.col = s.col
  /\ t.row = s.row /\ t.sink = s.sink /\ t.packet = s.packet

(* Texts one behind the other are a text.                                   *)
LEMMA TextConcat ==
  ASSUME NEW a \in Text, NEW b \in Text
  PROVE  a \o b \in Text /\ (a \o b = <<>> => a = <<>> /\ b = <<>>)
BY ConcatProperties, ConcatEqualIffEmpty DEF Text

(* The order of joining texts does not matter.                              *)
LEMMA TextAssociative ==
  ASSUME NEW a \in Text, NEW b \in Text, NEW c \in Text
  PROVE  a \o (b \o c) = (a \o b) \o c
<1> DEFINE S == Chars
<1>1. a \in Seq(S) /\ b \in Seq(S) /\ c \in Seq(S)
  BY DEF Text
<1> HIDE DEF S
<1> QED BY SMTT(30), <1>1, ConcatAssociative

(* The empty text adds nothing.                                             *)
LEMMA TextEmpty ==
  ASSUME NEW a \in Text
  PROVE  a \o <<>> = a /\ <<>> \o a = a
BY ConcatEmptySeq DEF Text

(* A character that is read is one of a text, or 0.                         *)
LEMMA CodesOfText ==
  NUL \in Codes /\ NUL \notin Chars /\ Chars \subseteq Codes /\ \A c \in Codes : c # NUL => c \in Chars
BY StreamAssumption DEF Codes

(* What was written of a sequence, byte by byte.                            *)
Keeps(g, b) ==
  /\ g \in [0 .. Len(b) -> Text] /\ g[0] = <<>>
  /\ \A k \in 1 .. Len(b) : g[k] = IF b[k] = NUL THEN g[k - 1] ELSE Append(g[k - 1], b[k])

(* An element of a sequence of codes is 0 or one of a text.                  *)
LEMMA CodeAt ==
  ASSUME NEW b \in Seq(Codes), NEW k \in 1 .. Len(b)
  PROVE  b[k] \in Codes /\ (b[k] # NUL => b[k] \in Chars)
<1>1. b[k] \in Codes
  BY ElementOfSeq
<1> QED BY <1>1, CodesOfText

(* It can be taken byte by byte.                                            *)
LEMMA KeepsExists ==
  ASSUME NEW b \in Seq(Codes)
  PROVE  \E g : Keeps(g, b)
<1> DEFINE Has(m) == \E g \in [0 .. m -> Text] :
              /\ g[0] = <<>>
              /\ \A k \in 1 .. m : g[k] = IF b[k] = NUL THEN g[k - 1] ELSE Append(g[k - 1], b[k])
           P == {m \in Nat : Has(m)}
<1>0. Len(b) \in Nat /\ <<>> \in Text
  BY EmptySeq DEF Text
<1>1. 0 \in P
  <2> DEFINE g == [k \in 0 .. 0 |-> <<>>]
  <2>1. g \in [0 .. 0 -> Text] /\ g[0] = <<>>
        /\ \A k \in 1 .. 0 : g[k] = IF b[k] = NUL THEN g[k - 1] ELSE Append(g[k - 1], b[k])
    BY <1>0
  <2> HIDE DEF g
  <2>2. Has(0)
    BY <2>1
  <2> QED BY <2>2
<1>2. ASSUME NEW m \in 1 .. Len(b), m - 1 \in P PROVE m \in P
  <2>1. PICK g \in [0 .. m - 1 -> Text] :
          /\ g[0] = <<>>
          /\ \A k \in 1 .. m - 1 : g[k] = IF b[k] = NUL THEN g[k - 1] ELSE Append(g[k - 1], b[k])
    BY <1>2
  <2> DEFINE x == IF b[m] = NUL THEN g[m - 1] ELSE Append(g[m - 1], b[m])
  <2>2. x \in Text
    <3>1. m - 1 \in 0 .. m - 1 /\ m \in 1 .. Len(b)
      BY <1>0
    <3>2. g[m - 1] \in Text
      BY <2>1, <3>1
    <3>3. b[m] # NUL => b[m] \in Chars
      BY CodeAt
    <3>4. b[m] # NUL => Append(g[m - 1], b[m]) \in Text
      BY <3>2, <3>3, AppendProperties DEF Text
    <3> QED BY <3>2, <3>4
  <2> DEFINE h == [k \in 0 .. m |-> IF k = m THEN x ELSE g[k]]
  <2>3. h \in [0 .. m -> Text] /\ h[0] = <<>>
    <3> HIDE DEF x
    <3> QED BY <2>1, <2>2
  <2>4. ASSUME NEW k \in 1 .. m
        PROVE  h[k] = IF b[k] = NUL THEN h[k - 1] ELSE Append(h[k - 1], b[k])
    <3>1. k - 1 \in 0 .. m /\ k - 1 # m
      OBVIOUS
    <3>2. h[k - 1] = g[k - 1]
      BY <3>1
    <3>3. CASE k = m
      BY <3>2, <3>3
    <3>4. CASE k # m
      <4>1. k \in 1 .. m - 1
        BY <3>4
      <4>2. h[k] = g[k]
        BY <3>4
      <4> QED BY <2>1, <3>2, <4>1, <4>2
    <3> QED BY <3>3, <3>4
  <2> HIDE DEF h
  <2> QED BY <2>3, <2>4
<1>3. P \in SUBSET Nat
  OBVIOUS
<1>4. \A k \in 0 .. Len(b) : k \in P
  <2> HIDE DEF P
  <2> QED BY <1>0, <1>1, <1>2, <1>3, UpTo
<1>5. Has(Len(b))
  BY <1>0, <1>4
<1> QED BY <1>5, Zenon DEF Keeps

(* And in no other way.                                                     *)
LEMMA WrittenIs ==
  ASSUME NEW b \in Seq(Codes), NEW g, Keeps(g, b)
  PROVE  Written(b) = g[Len(b)] /\ Written(b) \in Text
<1> DEFINE n == Len(b)
           Def(h) == [k \in 0 .. n |->
                        IF k = 0 THEN <<>>
                        ELSE IF b[k] = NUL THEN h[k - 1] ELSE Append(h[k - 1], b[k])]
           f == CHOOSE h : h = Def(h)
<1>0. n \in Nat
  OBVIOUS
<1>1. /\ g \in [0 .. n -> Text] /\ g[0] = <<>>
      /\ \A k \in 1 .. n : g[k] = IF b[k] = NUL THEN g[k - 1] ELSE Append(g[k - 1], b[k])
  BY Zenon DEF Keeps
<1> HIDE DEF n
<1>2. g = Def(g)
  <2>1. ASSUME NEW k \in 0 .. n PROVE g[k] = Def(g)[k]
    <3>1. CASE k = 0
      BY <1>0, <1>1, <3>1
    <3>2. CASE k # 0
      <4>1. k \in 1 .. n
        BY <1>0, <3>2
      <4> QED BY <1>1, <3>2, <4>1
    <3> QED BY <3>1, <3>2
  <2>2. Def(g) = [k \in 0 .. n |-> Def(g)[k]] /\ g = [k \in 0 .. n |-> g[k]]
    BY <1>1
  <2> HIDE DEF Def
  <2> QED BY <2>1, <2>2, Zenon
<1>3. f = Def(f)
  <2> HIDE DEF Def
  <2> QED BY <1>2, Zenon
<1>4. Written(b) = f[n]
  BY Zenon DEF Written, n
<1> HIDE DEF f
<1>5. f[0] = <<>>
      /\ \A k \in 1 .. n : f[k] = IF b[k] = NUL THEN f[k - 1] ELSE Append(f[k - 1], b[k])
  <2>1. /\ Def(f)[0] = <<>>
        /\ \A k \in 1 .. n :
             Def(f)[k] = IF b[k] = NUL THEN f[k - 1] ELSE Append(f[k - 1], b[k])
    BY <1>0
  <2> HIDE DEF Def
  <2>2. \A k : f[k] = Def(f)[k]
    BY <1>3, Zenon
  <2> QED BY <2>1, <2>2
<1> HIDE DEF Def
<1> DEFINE P == {k \in Nat : f[k] = g[k]}
<1>6. P \in SUBSET Nat /\ 0 \in P
  BY <1>1, <1>5
<1>7. ASSUME NEW k \in 1 .. n, k - 1 \in P PROVE k \in P
  <2>1. k \in Nat
    BY <1>0
  <2> QED BY <1>1, <1>5, <1>7, <2>1
<1>8. n \in P
  <2> HIDE DEF P
  <2>1. \A k \in 0 .. n : k \in P
    BY <1>0, <1>6, <1>7, UpTo
  <2> QED BY <1>0, <2>1
<1> QED BY <1>0, <1>1, <1>4, <1>8 DEF n

(* What was written of two sequences, one behind the other.                  *)
LEMMA WrittenConcat ==
  ASSUME NEW a \in Seq(Codes), NEW b \in Seq(Codes)
  PROVE  Written(a \o b) = Written(a) \o Written(b)
<1> DEFINE m == Len(a)
           n == Len(b)
           c == a \o b
<1>1. m \in Nat /\ n \in Nat
  OBVIOUS
<1>2. c \in Seq(Codes) /\ Len(c) = m + n
      /\ \A i \in 1 .. m + n : c[i] = IF i <= m THEN a[i] ELSE b[i - m]
  BY ConcatProperties
<1>3. PICK g : Keeps(g, a)
  BY KeepsExists
<1>4. PICK h : Keeps(h, b)
  BY KeepsExists
<1>5. /\ g \in [0 .. m -> Text] /\ g[0] = <<>>
      /\ \A k \in 1 .. m : g[k] = IF a[k] = NUL THEN g[k - 1] ELSE Append(g[k - 1], a[k])
  BY <1>3, Zenon DEF Keeps
<1>6. /\ h \in [0 .. n -> Text] /\ h[0] = <<>>
      /\ \A k \in 1 .. n : h[k] = IF b[k] = NUL THEN h[k - 1] ELSE Append(h[k - 1], b[k])
  BY <1>4, Zenon DEF Keeps
<1>7. Written(a) = g[m] /\ Written(b) = h[n] /\ g[m] \in Text
  BY <1>3, <1>4, WrittenIs
<1> HIDE DEF m, n, c
<1> DEFINE f == [k \in 0 .. m + n |-> IF k <= m THEN g[k] ELSE g[m] \o h[k - m]]
<1>8. f \in [0 .. m + n -> Text]
  <2>1. ASSUME NEW k \in 0 .. m + n PROVE (IF k <= m THEN g[k] ELSE g[m] \o h[k - m]) \in Text
    <3>1. CASE k <= m
      BY <1>1, <1>5, <3>1
    <3>2. CASE ~(k <= m)
      <4>1. k - m \in 0 .. n
        BY <1>1, <3>2
      <4>2. h[k - m] \in Text
        BY <1>6, <4>1
      <4> QED BY <1>7, <3>2, <4>2, TextConcat
    <3> QED BY <3>1, <3>2
  <2> QED BY <2>1
<1>9. ASSUME NEW k \in 0 .. n PROVE f[m + k] = g[m] \o h[k]
  <2>1. m + k \in 0 .. m + n /\ (m + k) - m = k
    BY <1>1
  <2>2. CASE k = 0
    <3>1. g[m] \o <<>> = g[m]
      BY <1>7, TextEmpty
    <3>2. m + k <= m /\ m + k = m
      BY <1>1, <2>2
    <3>3. f[m + k] = g[m]
      BY <2>1, <3>2
    <3> QED BY <1>6, <2>2, <3>1, <3>3
  <2>3. CASE k # 0
    <3>1. ~(m + k <= m)
      BY <1>1, <2>3
    <3> QED BY <2>1, <3>1
  <2> QED BY <2>2, <2>3
<1>10. ASSUME NEW k \in 1 .. m + n
       PROVE  f[k] = IF c[k] = NUL THEN f[k - 1] ELSE Append(f[k - 1], c[k])
  <2>1. CASE k <= m
    <3>1. k \in 1 .. m /\ k \in 0 .. m + n /\ k - 1 \in 0 .. m + n /\ k - 1 <= m
      BY <1>1, <2>1
    <3>2. f[k] = g[k] /\ f[k - 1] = g[k - 1] /\ c[k] = a[k]
      BY <1>2, <2>1, <3>1
    <3> HIDE DEF f
    <3> QED BY <1>5, <3>1, <3>2
  <2>2. CASE ~(k <= m)
    <3> DEFINE i == k - m
    <3>1. i \in 1 .. n /\ i \in 0 .. n /\ i - 1 \in 0 .. n /\ m + i = k /\ m + (i - 1) = k - 1
      BY <1>1, <2>2
    <3>2. c[k] = b[i]
      BY <1>2, <2>2
    <3> HIDE DEF i, f
    <3>3. f[k] = g[m] \o h[i] /\ f[k - 1] = g[m] \o h[i - 1]
      BY <1>9, <3>1
    <3>4. h[i] = (IF b[i] = NUL THEN h[i - 1] ELSE Append(h[i - 1], b[i])) /\ h[i - 1] \in Text
      BY <1>6, <3>1
    <3>5. CASE b[i] = NUL
      BY <3>2, <3>3, <3>4, <3>5
    <3>6. CASE b[i] # NUL
      <4>1. b[i] \in Chars
        BY <3>1, <3>6, CodeAt DEF n
      <4>2. g[m] \o Append(h[i - 1], b[i]) = Append(g[m] \o h[i - 1], b[i])
        BY <1>7, <3>4, <4>1, AppendBehind
      <4> QED BY <3>2, <3>3, <3>4, <3>6, <4>2
    <3> QED BY <3>5, <3>6
  <2> QED BY <2>1, <2>2
<1>11. f[0] = <<>>
  BY <1>1, <1>5
<1>12. f[m + n] = g[m] \o h[n]
  BY SMTT(30), <1>1, <1>9
<1> HIDE DEF f
<1>13. Keeps(f, c)
  BY <1>2, <1>8, <1>10, <1>11, Zenon DEF Keeps
<1> QED BY <1>2, <1>7, <1>12, <1>13, WrittenIs DEF c

(* All of a text was written.                                               *)
LEMMA WrittenText ==
  ASSUME NEW t \in Text
  PROVE  t \in Seq(Codes) /\ Written(t) = t
<1> DEFINE n == Len(t)
           g == [k \in 0 .. n |-> SubSeq(t, 1, k)]
<1>1. t \in Seq(Codes) /\ t \in Seq(Chars) /\ n \in Nat
  BY SeqMonotonic, CodesOfText DEF Text
<1>2. g \in [0 .. n -> Text]
  <2>1. \A k \in 0 .. n : SubSeq(t, 1, k) \in Text
    BY <1>1, Split DEF Text
  <2> QED BY <2>1
<1>3. g[0] = <<>>
  BY <1>1, SubSeqEmpty
<1>4. ASSUME NEW k \in 1 .. n
      PROVE  g[k] = IF t[k] = NUL THEN g[k - 1] ELSE Append(g[k - 1], t[k])
  <2>1. t[k] \in Chars /\ t[k] # NUL
    BY <1>1, ElementOfSeq, CodesOfText
  <2>2. g[k] = SubSeq(t, 1, k) /\ g[k - 1] = SubSeq(t, 1, k - 1)
    BY <1>1
  <2>3. SubSeq(t, 1, k) = Append(SubSeq(t, 1, k - 1), t[k])
    BY <1>1, OneFurther
  <2> QED BY <2>1, <2>2, <2>3
<1>5. g[n] = t
  BY <1>1, SubSeqFull
<1> HIDE DEF g
<1>6. Keeps(g, t)
  BY <1>2, <1>3, <1>4, Zenon DEF Keeps, n
<1> QED BY <1>1, <1>5, <1>6, WrittenIs DEF n

(* Nothing of 0s was written.                                               *)
LEMMA WrittenZeros ==
  ASSUME NEW z \in Zeros
  PROVE  z \in Seq(Codes) /\ Written(z) = <<>>
<1> DEFINE n == Len(z)
           g == [k \in 0 .. n |-> <<>>]
<1>1. z \in Seq(Codes) /\ z \in Seq({NUL}) /\ n \in Nat
  BY SeqMonotonic, CodesOfText DEF Zeros
<1>2. \A k \in 1 .. n : z[k] = NUL
  <2>1. \A k \in 1 .. n : z[k] \in {NUL}
    BY <1>1, ElementOfSeq
  <2> QED BY <2>1
<1>3. <<>> \in Text
  BY EmptySeq DEF Text
<1>4. g \in [0 .. n -> Text] /\ g[0] = <<>> /\ g[n] = <<>>
      /\ \A k \in 1 .. n : g[k] = IF z[k] = NUL THEN g[k - 1] ELSE Append(g[k - 1], z[k])
  BY <1>1, <1>2, <1>3
<1> HIDE DEF g
<1>5. Keeps(g, z)
  BY <1>4, Zenon DEF Keeps, n
<1> QED BY <1>1, <1>4, <1>5, WrittenIs DEF n

(* What was written is a text.                                              *)
LEMMA WrittenType ==
  ASSUME NEW b \in Seq(Codes)
  PROVE  Written(b) \in Text
<1>1. PICK g : Keeps(g, b)
  BY KeepsExists
<1> QED BY <1>1, WrittenIs

(* 0s one behind the other, and parts of them, are 0s.                       *)
LEMMA ZerosAre ==
  /\ <<>> \in Zeros /\ <<NUL>> \in Zeros
  /\ \A a, b \in Zeros : a \o b \in Zeros
  /\ \A a \in Zeros : \A n \in 0 .. Len(a) :
       SubSeq(a, 1, n) \in Zeros /\ SubSeq(a, n + 1, Len(a)) \in Zeros
  /\ \A a \in Zeros : Len(a) = 1 => a = <<NUL>>
<1> DEFINE S == {NUL}
<1>1. <<>> \in Seq(S) /\ <<NUL>> \in Seq(S)
  BY EmptySeq
<1> HIDE DEF S
<1>2. \A a, b \in Seq(S) : a \o b \in Seq(S)
  BY ConcatProperties
<1>3. \A a \in Seq(S) : \A n \in 0 .. Len(a) :
        SubSeq(a, 1, n) \in Seq(S) /\ SubSeq(a, n + 1, Len(a)) \in Seq(S)
  BY Split
<1>4. \A a \in Seq(S) : Len(a) = 1 => a[1] \in S /\ a = <<a[1]>>
  BY OneLong
<1> QED BY <1>1, <1>2, <1>3, <1>4 DEF Zeros, S

(* What is left in the buffer and in the file is a text.                    *)
LEMMA LeftType ==
  ASSUME NEW s \in Streams
  PROVE  Unread(s.buf) \in Text /\ s.rest \in Text /\ Left(s) \in Text
<1>1. s.buf \in BufferOf(Chars) /\ s.rest \in Text
  BY DEF Streams
<1>2. Unread(s.buf) \in Text
  BY <1>1, UnreadType DEF Text
<1> QED BY <1>1, <1>2, ConcatProperties DEF Left, Text

Filled(s, n, broken, end) ==
  [s EXCEPT !.buf = [s.buf EXCEPT !.data = SubSeq(s.rest, 1, n), !.roffset = 0],
            !.rest = SubSeq(s.rest, n + 1, Len(s.rest)), !.broken = broken, !.end = end]

(* Filling an empty buffer of an input moves bytes of the file into it.       *)
LEMMA FilledKeeps ==
  ASSUME NEW s, Sound(s), s.open, s.type \in Inputs, Unread(s.buf) = <<>>,
         Unread(s.restore) = <<>>, NEW n \in 0 .. Len(s.rest), n <= s.buf.size,
         NEW broken \in BOOLEAN, NEW end \in BOOLEAN,
         end \/ (broken /\ s.packet # 0) => s.rest = <<>>
  PROVE  LET f == Filled(s, n, broken, end) IN
         /\ Sound(f) /\ Same(f, s) /\ f.restore = s.restore /\ Left(f) = Left(s)
         /\ f.broken = broken /\ f.end = end
         /\ Unread(f.buf) = <<>> <=> n = 0
<1> DEFINE f == Filled(s, n, broken, end)
           head == SubSeq(s.rest, 1, n)
           tail == SubSeq(s.rest, n + 1, Len(s.rest))
<1>1. s \in Streams /\ s.rest \in Text /\ s.buf \in BufferOf(Chars) /\ s.buf.size # 0
  BY DEF Sound, Streams
<1>2. head \in Text /\ Len(head) = n /\ tail \in Text /\ head \o tail = s.rest
  BY ZenonT(60), <1>1, Split DEF Text
<1>3. /\ f.buf = [s.buf EXCEPT !.data = head, !.roffset = 0]
      /\ f.rest = tail /\ f.broken = broken /\ f.end = end /\ f.restore = s.restore
      /\ Same(f, s)
  BY <1>1 DEF Streams, Same, Filled
<1>7. f \in Streams <=> f.buf \in BufferOf(Chars) /\ tail \in Text
  BY ZenonT(60), <1>1, <1>3 DEF Streams, Filled
<1> HIDE DEF f, head, tail
<1>4. f.buf = [data |-> head, roffset |-> 0, size |-> s.buf.size]
  <2>1. s.buf \in [data : Seq(Chars), roffset : Nat, size : Nat]
    BY <1>1 DEF BufferOf
  <2> QED BY <1>3, <2>1
<1>5. f.buf \in BufferOf(Chars)
  BY <1>1, <1>2, <1>4 DEF BufferOf, Text
<1>6. Unread(f.buf) = head
  <2>1. f.buf.data = head /\ f.buf.roffset = 0
    BY <1>4
  <2>2. SubSeq(head, 0 + 1, Len(head)) = head
    BY <1>2, SubSeqFull DEF Text
  <2> QED BY <2>1, <2>2 DEF Unread
<1>8. Left(f) = s.rest /\ Left(s) = s.rest
  BY <1>1, <1>2, <1>3, <1>6, ConcatEmptySeq DEF Left, Text
<1>9. head = <<>> <=> n = 0
  BY <1>2, EmptySeq DEF Text
<1>11. f.buf.size # 0 /\ f.type = s.type /\ f.open = s.open /\ f.packet = s.packet
  BY <1>1, <1>3, <1>4 DEF Same
<1>12. Unread(f.restore) = <<>> /\ <<>> \in Zeros
  BY <1>3, ZerosAre
<1>13. Sound(f)
  BY <1>2, <1>3, <1>5, <1>7, <1>8, <1>11, <1>12 DEF Sound, Inputs, Memory
<1> QED BY <1>3, <1>6, <1>8, <1>9, <1>13 DEF f

(* i_FUNC_FILL moves bytes, or ends or breaks the stream where none is left.*)
LEMMA FillKeeps ==
  ASSUME NEW s, Sound(s), s.open, s.type # "TOFILE", Unread(s.buf) = <<>>,
         Unread(s.restore) = <<>>, NEW size \in Nat \ {0}
  PROVE  /\ Sound(Fill(s, size)) /\ Same(Fill(s, size), s)
         /\ Fill(s, size).restore = s.restore
         /\ Left(Fill(s, size)) = Left(s)
         /\ ReadOK(s) => (ReadOK(Fill(s, size)) <=> Unread(Fill(s, size).buf) # <<>>)
<1>1. s \in Streams /\ s.rest \in Text /\ Len(s.rest) \in Nat /\ s.packet \in Nat
      /\ s.buf \in BufferOf(Chars) /\ s.buf.size \in Nat /\ s.type \in Types
  BY DEF Sound, Streams, BufferOf, Text
<1>2. CASE s.type \in Memory
  <2>1. Fill(s, size) = [s EXCEPT !.end = TRUE]
    BY <1>2 DEF Fill, Memory
  <2> DEFINE f == [s EXCEPT !.end = TRUE]
  <2>2. /\ f \in Streams /\ f.buf = s.buf /\ f.restore = s.restore /\ f.rest = s.rest
        /\ f.end = TRUE /\ f.broken = s.broken /\ Same(f, s)
    BY <1>1 DEF Streams, Same
  <2> HIDE DEF f
  <2>3. s.rest = <<>> /\ Left(s) = <<>>
    BY <1>1, <1>2, ConcatEmptySeq DEF Sound, Memory, Inputs, Left, Text
  <2>4. Left(f) = Left(s) /\ Unread(f.restore) = <<>> /\ <<>> \in Zeros
    BY <2>2, ZerosAre DEF Left
  <2>5. f.type = s.type /\ f.open = s.open /\ f.packet = s.packet
    BY <2>2 DEF Same
  <2>6. Sound(f)
    BY <1>2, <2>2, <2>3, <2>4, <2>5 DEF Sound, Inputs, Memory, ReadOK
  <2> QED BY <2>1, <2>2, <2>4, <2>6 DEF ReadOK, f
<1>3. CASE s.type = "FROMFILE"
  <2> DEFINE n == Least(Least(Len(s.rest), s.packet), s.buf.size)
             b == n = 0
  <2>1. n \in 0 .. Len(s.rest) /\ n <= s.buf.size /\ b \in BOOLEAN
        /\ (n = 0 /\ s.packet # 0 /\ s.buf.size # 0 => Len(s.rest) = 0)
    BY <1>1 DEF Least
  <2> DEFINE filled == [s EXCEPT !.buf = [s.buf EXCEPT !.data = SubSeq(s.rest, 1, n), !.roffset = 0],
                                 !.rest = SubSeq(s.rest, n + 1, Len(s.rest))]
             f == Filled(s, n, b, s.end)
  <2>2. Fill(s, size) = [filled EXCEPT !.broken = b]
    BY <1>3, Zenon DEF Fill
  <2>3. [filled EXCEPT !.broken = b] = f
    <3> HIDE DEF n, b
    <3> QED BY <1>1 DEF Streams, Filled
  <2>4. s.end \/ (b /\ s.packet # 0) => s.rest = <<>>
    <3>1. s.end => s.rest = <<>>
      BY <1>1, ConcatEmptySeq DEF Sound, Left, Text
    <3>2. b /\ s.packet # 0 => Len(s.rest) = 0
      BY <1>3, <2>1 DEF Sound, Inputs
    <3> QED BY <1>1, <3>1, <3>2, EmptySeq DEF Text
  <2>5. s.end \in BOOLEAN
    BY <1>1 DEF Streams
  <2>6. s.type \in Inputs
    BY <1>3 DEF Inputs
  <2> HIDE DEF n, b, f, filled
  <2>7. /\ Sound(f) /\ Same(f, s) /\ f.restore = s.restore /\ Left(f) = Left(s)
        /\ f.broken = b /\ f.end = s.end
        /\ Unread(f.buf) = <<>> <=> n = 0
    BY <2>1, <2>4, <2>5, <2>6, FilledKeeps DEF f
  <2>8. ReadOK(s) => (ReadOK(f) <=> Unread(f.buf) # <<>>)
    BY <2>7 DEF ReadOK, Same, b
  <2> QED BY <2>2, <2>3, <2>7, <2>8
<1>4. CASE s.type = "FROMSTDIN"
  <2> DEFINE n == Least(Least(Len(s.rest), s.packet), Least(size, s.buf.size))
             b == s.packet = 0
             e == n = 0 /\ s.packet # 0
  <2>1. n \in 0 .. Len(s.rest) /\ n <= s.buf.size /\ b \in BOOLEAN /\ e \in BOOLEAN
        /\ (n = 0 /\ s.packet # 0 /\ s.buf.size # 0 => Len(s.rest) = 0)
        /\ (s.packet = 0 => n = 0)
    BY <1>1 DEF Least
  <2> DEFINE filled == [s EXCEPT !.buf = [s.buf EXCEPT !.data = SubSeq(s.rest, 1, n), !.roffset = 0],
                                 !.rest = SubSeq(s.rest, n + 1, Len(s.rest))]
             f == Filled(s, n, b, e)
  <2>2. Fill(s, size) = [filled EXCEPT !.broken = b, !.end = e]
    BY <1>4, Zenon DEF Fill, AtEnd
  <2>3. [filled EXCEPT !.broken = b, !.end = e] = f
    <3> HIDE DEF n, b, e
    <3> QED BY <1>1 DEF Streams, Filled
  <2>4. e \/ (b /\ s.packet # 0) => s.rest = <<>>
    <3>1. e => Len(s.rest) = 0
      BY <1>4, <2>1 DEF Sound, Inputs
    <3> QED BY <1>1, <3>1, EmptySeq DEF Text
  <2>5. s.type \in Inputs
    BY <1>4 DEF Inputs
  <2> HIDE DEF n, b, e, f, filled
  <2>6. /\ Sound(f) /\ Same(f, s) /\ f.restore = s.restore /\ Left(f) = Left(s)
        /\ f.broken = b /\ f.end = e
        /\ Unread(f.buf) = <<>> <=> n = 0
    BY <2>1, <2>4, <2>5, FilledKeeps DEF f
  <2>7. ReadOK(s) => (ReadOK(f) <=> Unread(f.buf) # <<>>)
    BY <2>1, <2>6 DEF ReadOK, Same, b, e
  <2> QED BY <2>2, <2>3, <2>6, <2>7
<1> QED BY <1>1, <1>2, <1>3, <1>4 DEF Types, Memory
-----------------------------------------------------------------------------
(* Reading                                                                  *)

(* A round of the loop for the stream s, which has given data before it.      *)
Reading(p, s, data) ==
  /\ p \in [s : Streams, data : Seq(Codes), left : Nat]
  /\ Sound(p.s) /\ Same(p.s, s) /\ p.s.restore = s.restore
  /\ Written(p.data) \o Left(p.s) = Written(data) \o Left(s)
  /\ p.left # 0 => Unread(s.restore) = <<>>

(* Taking bytes from the buffer keeps the stream sound.                     *)
LEMMA ConsumedSound ==
  ASSUME NEW s, Sound(s), s.type # "TOFILE", Unread(s.restore) = <<>>,
         NEW n \in 0 .. Len(Unread(s.buf))
  PROVE  LET t == [s EXCEPT !.buf = Consumed(s.buf, n)] IN
         /\ Sound(t) /\ Same(t, s) /\ t.restore = s.restore
         /\ t.end = s.end /\ t.broken = s.broken
         /\ SubSeq(Unread(s.buf), 1, n) \in Text /\ Len(SubSeq(Unread(s.buf), 1, n)) = n
         /\ SubSeq(Unread(s.buf), 1, n) \o Left(t) = Left(s)
<1> DEFINE t == [s EXCEPT !.buf = Consumed(s.buf, n)]
           head == SubSeq(Unread(s.buf), 1, n)
<1>1. s \in Streams /\ s.buf \in BufferOf(Chars) /\ s.rest \in Text
  BY DEF Sound, Streams
<1>2. /\ Consumed(s.buf, n) \in BufferOf(Chars)
      /\ Consumed(s.buf, n).size = s.buf.size
      /\ head \in Text /\ Len(head) = n
      /\ head \o Unread(Consumed(s.buf, n)) = Unread(s.buf)
  BY <1>1, ConsumedKeeps DEF Text
<1>3. /\ t \in Streams /\ Same(t, s) /\ t.restore = s.restore /\ t.end = s.end
      /\ t.broken = s.broken /\ t.buf = Consumed(s.buf, n) /\ t.rest = s.rest
  BY <1>1, <1>2 DEF Streams, Same
<1> HIDE DEF t, head
<1>4. Unread(t.buf) \in Text
  BY <1>3, LeftType
<1>5. head \o Left(t) = Left(s)
  <2>1. head \o (Unread(t.buf) \o t.rest) = (head \o Unread(t.buf)) \o t.rest
    <3>1. t.rest \in Text
      BY <1>1, <1>3
    <3> QED BY <1>2, <1>4, <3>1, TextAssociative
  <2> QED BY <1>2, <1>3, <2>1 DEF Left
<1>6. Left(s) = <<>> => Left(t) = <<>>
  <2>1. Left(t) \in Text
    BY <1>3, LeftType
  <2> QED BY <1>2, <1>5, <2>1, ConcatEqualIffEmpty DEF Text
<1>7. Sound(t)
  BY <1>2, <1>3, <1>6 DEF Sound, Same, ReadOK, Inputs, Memory
<1> QED BY <1>2, <1>3, <1>5, <1>7 DEF t, head

(* A round of i_read hands over the next bytes.                             *)
LEMMA RoundKeeps ==
  ASSUME NEW s, Sound(s), s.open, s.type # "TOFILE", NEW data \in Seq(Codes),
         NEW p, Reading(p, s, data)
  PROVE  Reading(Round(p), s, data)
<1>1. p \in [s : Streams, data : Seq(Codes), left : Nat] /\ p.left \in Nat
      /\ p.data \in Seq(Codes)
      /\ Sound(p.s) /\ Same(p.s, s) /\ p.s.restore = s.restore
      /\ Written(p.data) \o Left(p.s) = Written(data) \o Left(s)
  BY DEF Reading
<1>2. CASE p.left = 0
  BY <1>2 DEF Round
<1>3. CASE p.left # 0
  <2> DEFINE t == IF Unread(p.s.buf) = <<>> THEN Fill(p.s, p.left) ELSE p.s
             n == Least(p.left, Len(Unread(t.buf)))
             head == SubSeq(Unread(t.buf), 1, n)
             next == [t EXCEPT !.buf = Consumed(t.buf, n)]
  <2>1. Unread(s.restore) = <<>> /\ p.s.open /\ p.s.type # "TOFILE" /\ p.left \in Nat \ {0}
    BY <1>1, <1>3 DEF Reading, Same
  <2>2. Sound(t) /\ Same(t, p.s) /\ t.restore = s.restore /\ Left(t) = Left(p.s)
    BY ZenonT(60), <1>1, <2>1, FillKeeps DEF Same
  <2>3. t \in Streams /\ Unread(t.buf) \in Text /\ Left(t) \in Text
    BY <2>2, LeftType DEF Sound
  <2> HIDE DEF t
  <2>4. n \in 0 .. Len(Unread(t.buf)) /\ n \in Nat /\ p.left - n \in Nat
    BY <1>1, <2>3 DEF Least, Text
  <2>5. Unread(t.restore) = <<>> /\ t.type # "TOFILE"
    BY <2>1, <2>2 DEF Same
  <2> HIDE DEF n
  <2>6. /\ Sound(next) /\ Same(next, t) /\ next.restore = t.restore
        /\ head \in Text /\ head \o Left(next) = Left(t)
    BY <2>2, <2>4, <2>5, ConsumedSound
  <2>7. next \in Streams /\ Left(next) \in Text
    BY <2>6, LeftType DEF Sound
  <2> HIDE DEF head, next
  <2>8. p.data \o head \in Seq(Codes)
        /\ Written(p.data \o head) \o Left(next) = Written(data) \o Left(s)
    <3>1. head \in Seq(Codes) /\ Written(head) = head /\ Written(p.data) \in Text
      BY <1>1, <2>6, WrittenText, WrittenType
    <3>2. Written(p.data \o head) = Written(p.data) \o head
      BY <1>1, <3>1, WrittenConcat
    <3>3. (Written(p.data) \o head) \o Left(next) = Written(p.data) \o (head \o Left(next))
      BY <2>6, <2>7, <3>1, TextAssociative
    <3>4. p.data \o head \in Seq(Codes)
      BY <1>1, <3>1, ConcatProperties
    <3> QED BY <1>1, <2>2, <2>6, <3>2, <3>3, <3>4
  <2>9. Round(p) = [s |-> next, data |-> p.data \o head, left |-> p.left - n]
    BY <1>3, Zenon DEF Round, t, n, head, next
  <2> DEFINE q == [s |-> next, data |-> p.data \o head, left |-> p.left - n]
  <2>10. q \in [s : Streams, data : Seq(Codes), left : Nat] /\ q.s = next /\ q.data = p.data \o head
    BY <2>4, <2>7, <2>8
  <2> HIDE DEF q
  <2>11. Same(q.s, s)
    BY <1>1, <2>2, <2>6, <2>10 DEF Same
  <2>12. Reading(q, s, data)
    BY <2>1, <2>2, <2>6, <2>8, <2>10, <2>11 DEF Reading
  <2> QED BY <2>9, <2>12 DEF q
<1> QED BY <1>2, <1>3

(* The loop of i_read: it keeps the bytes in their order; no round of it is    *)
(* run for no bytes, and one for a single byte.                              *)
LEMMA PullKeeps ==
  ASSUME NEW s, Sound(s), s.open, s.type # "TOFILE", NEW data \in Seq(Codes), NEW size \in Nat,
         size # 0 => Unread(s.restore) = <<>>
  PROVE  LET p == Pull(s, data, size) IN
         /\ Reading(p, s, data)
         /\ size = 0 => p = [s |-> s, data |-> data, left |-> 0]
         /\ size = 1 => p = Round([s |-> s, data |-> data, left |-> 1])
<1> DEFINE X == {p \in [s : Streams, data : Seq(Codes), left : Nat] : Reading(p, s, data)}
           F == [p \in X |-> Round(p)]
           a == [s |-> s, data |-> data, left |-> size]
           Def(g) == [k \in 0 .. size |->
                        IF k = 0 THEN [s |-> s, data |-> data, left |-> size]
                        ELSE Round(g[k - 1])]
           f == CHOOSE g : g = Def(g)
<1>1. \A p : p \in X <=> Reading(p, s, data)
  BY DEF Reading
<1>2. a \in X
  <2>1. s \in Streams
    BY DEF Sound
  <2>2. a \in [s : Streams, data : Seq(Codes), left : Nat] /\ a.s = s /\ a.data = data /\ a.left = size
    BY <2>1
  <2> HIDE DEF a, X
  <2>3. Reading(a, s, data)
    BY <2>2 DEF Reading, Same
  <2> QED BY <1>1, <2>3
<1> HIDE DEF X
<1>3. \A p \in X : Round(p) \in X
  BY <1>1, RoundKeeps
<1>4. Maps(F, X) /\ \A p \in X : F[p] = Round(p)
  BY <1>3 DEF Maps
<1> HIDE DEF F
<1>5. PICK h : Runs(h, F, X, a, size)
  <2> HIDE DEF a, Def, f
  <2> QED BY <1>2, <1>4, Iteration
<1>6. h \in [0 .. size -> X] /\ h[0] = a /\ \A k \in 1 .. size : h[k] = F[h[k - 1]]
  BY <1>5, Zenon DEF Runs
<1>7. h = Def(h)
  <2>1. ASSUME NEW k \in 0 .. size PROVE h[k] = Def(h)[k]
    <3>1. CASE k = 0
      BY <1>6, <3>1
    <3>2. CASE k # 0
      <4>1. k \in 1 .. size /\ k - 1 \in 0 .. size
        BY <3>2
      <4>2. h[k - 1] \in X /\ h[k] = F[h[k - 1]]
        BY <1>6, <4>1
      <4>3. h[k] = Round(h[k - 1])
        BY <1>4, <4>2
      <4> QED BY <3>2, <4>3
    <3> QED BY <3>1, <3>2
  <2>2. Def(h) = [k \in 0 .. size |-> Def(h)[k]]
    BY <1>6
  <2>3. h = [k \in 0 .. size |-> h[k]]
    BY <1>6
  <2> HIDE DEF Def
  <2> QED BY <2>1, <2>2, <2>3, Zenon
<1>8. f = Def(f)
  <2> HIDE DEF Def
  <2> QED BY <1>7, Zenon
<1>9. Pull(s, data, size) = f[size]
  BY Zenon DEF Pull
<1> HIDE DEF f
<1>10. f[0] = a /\ \A k \in 1 .. size : f[k] = Round(f[k - 1])
  BY <1>8
<1> HIDE DEF Def, a
<1> DEFINE P == {k \in Nat : f[k] \in X}
<1>11. P \in SUBSET Nat /\ 0 \in P
  BY <1>2, <1>10
<1>12. ASSUME NEW k \in 1 .. size, k - 1 \in P PROVE k \in P
  BY <1>3, <1>10, <1>12
<1>13. f[size] \in X
  <2>1. \A k \in 0 .. size : k \in P
    <3> HIDE DEF P
    <3> QED BY <1>11, <1>12, UpTo
  <2> QED BY <2>1
<1>14. size = 1 => f[size] = Round(a)
  BY <1>10
<1>15. size = 0 => f[size] = a
  BY <1>10
<1> QED BY <1>1, <1>9, <1>13, <1>14, <1>15 DEF a

Pend(s) == Back(s) \o Left(s)

(* What is pending is a text.                                               *)
LEMMA PendType ==
  ASSUME NEW s, Sound(s)
  PROVE  Unread(s.restore) \in Seq(Codes) /\ Back(s) \in Text /\ Left(s) \in Text
         /\ Pend(s) \in Text
<1>1. Left(s) \in Text
  BY LeftType DEF Sound
<1>2. Unread(s.restore) \in Seq(Codes)
  BY UnreadType DEF Sound, Streams
<1>3. Back(s) \in Text
  BY <1>2, WrittenType DEF Back
<1> QED BY <1>1, <1>2, <1>3, TextConcat DEF Pend

(* A 0 that was un-read is the next byte.                                    *)
Held(s) == Unread(s.restore) # <<>> /\ Unread(s.restore) \in Zeros

(* i_read takes what was un-read first.                                      *)
LEMMA RestoreRead ==
  ASSUME NEW s, Sound(s), ReadOK(s), NEW size \in Nat
  PROVE  LET u == Unread(s.restore)
             n == Least(size, Len(u))
             t == [s EXCEPT !.restore = Consumed(s.restore, n)]
         IN /\ Sound(t) /\ Same(t, s) /\ ReadOK(t) /\ Left(t) = Left(s)
            /\ t.buf = s.buf /\ t.broken = s.broken
            /\ n \in Nat /\ size - n \in Nat
            /\ SubSeq(u, 1, n) \in Seq(Codes) /\ Unread(t.restore) \in Seq(Codes)
            /\ SubSeq(u, 1, n) \o Unread(t.restore) = u
            /\ size - n # 0 => Unread(t.restore) = <<>>
            /\ size = 1 /\ Held(s) => size - n = 0 /\ SubSeq(u, 1, n) = <<NUL>>
                                     /\ Unread(t.restore) \in Zeros
            /\ size = 1 /\ ~Held(s) =>
                 /\ Unread(t.restore) = <<>> /\ SubSeq(u, 1, n) = u
                 /\ IF u = <<>> THEN size - n = 1
                    ELSE size - n = 0 /\ \E c \in Chars : u = <<c>>
<1> DEFINE u == Unread(s.restore)
           n == Least(size, Len(u))
           t == [s EXCEPT !.restore = Consumed(s.restore, n)]
           head == SubSeq(u, 1, n)
           tail == SubSeq(u, n + 1, Len(u))
<1>1. s \in Streams /\ s.restore \in BufferOf(Codes)
      /\ (u \in Zeros \/ \E c \in Chars : u = <<c>>)
  BY DEF Sound, Streams
<1>2. u \in Seq(Codes) /\ Len(u) \in Nat /\ (u = <<>> <=> Len(u) = 0)
      /\ (u \notin Zeros => Len(u) = 1)
  <2>1. u \in Seq(Codes)
    BY PendType
  <2> HIDE DEF u
  <2>2. u \notin Zeros => Len(u) = 1
    BY <1>1
  <2> QED BY <2>1, <2>2, EmptySeq
<1> HIDE DEF u
<1>3. n \in 0 .. Len(u) /\ n \in Nat /\ size - n \in Nat /\ (size - n # 0 => n = Len(u))
  BY <1>2 DEF Least
<1>4. /\ Consumed(s.restore, n) \in BufferOf(Codes)
      /\ Unread(Consumed(s.restore, n)) = tail
  BY <1>1, <1>3, ConsumedKeeps DEF u
<1>5. head \in Seq(Codes) /\ tail \in Seq(Codes) /\ head \o tail = u /\ Len(head) = n
  BY <1>2, <1>3, Split
<1>6. n = Len(u) => tail = <<>> /\ head = u
  BY <1>2, SubSeqEmpty, SubSeqFull
<1>7. n = 0 => tail = u
  BY <1>2, SubSeqFull
<1>8. u \in Zeros => tail \in Zeros /\ head \in Zeros
  BY <1>3, ZerosAre
<1>9. u \notin Zeros => n = 0 \/ n = Len(u)
  <2>1. \A i \in 0 .. 1 : i = 0 \/ i = 1
    OBVIOUS
  <2> HIDE DEF n
  <2> QED BY <1>2, <1>3, <2>1
<1>10. tail \in Zeros \/ \E c \in Chars : tail = <<c>>
  BY <1>1, <1>6, <1>7, <1>8, <1>9, ZerosAre
<1>11. u = <<>> => tail = <<>>
  BY <1>2, <1>3, <1>6
<1>12. /\ t \in Streams /\ Same(t, s) /\ t.buf = s.buf /\ t.rest = s.rest /\ t.end = s.end
       /\ t.broken = s.broken /\ t.restore = Consumed(s.restore, n)
  BY <1>1, <1>4 DEF Streams, Same
<1> HIDE DEF t
<1>13. Left(t) = Left(s) /\ ReadOK(t) /\ Unread(t.restore) = tail
  BY <1>4, <1>12 DEF Left, ReadOK, Same
<1> HIDE DEF tail, head, n
<1>14. Sound(t)
  <2>1. s.open /\ (s.end \/ (s.broken /\ s.packet # 0)) => u \in Zeros /\ Left(s) = <<>>
    BY DEF Sound, u
  <2>2. s.type = "TOFILE" /\ ReadOK(s) => u = <<>>
    BY DEF Sound, u
  <2>3. /\ s.type \notin Inputs => s.packet = 0 /\ s.rest = <<>>
        /\ s.type = "TOFILE" => s.buf.roffset = 0 /\ ~s.end
        /\ s.type \in Inputs /\ s.open => s.buf.size # 0
        /\ s.type \in Memory => ~s.broken
    BY DEF Sound
  <2> QED BY <1>8, <1>10, <1>11, <1>12, <1>13, <2>1, <2>2, <2>3 DEF Sound, Same
<1>15. size = 1 /\ Held(s) => size - n = 0 /\ head = <<NUL>> /\ tail \in Zeros
  <2> SUFFICES ASSUME size = 1, Held(s) PROVE size - n = 0 /\ head = <<NUL>> /\ tail \in Zeros
    OBVIOUS
  <2>1. u # <<>> /\ u \in Zeros
    BY DEF Held, u
  <2>2. Len(u) \in Nat /\ Len(u) # 0
    BY <1>2, <2>1
  <2>3. n = 1 /\ size - n = 0
    <3>1. \A k \in Nat : k # 0 => Least(1, k) = 1
      BY DEF Least
    <3>2. n = Least(1, Len(u))
      BY DEF n
    <3>3. n = 1
      BY <2>2, <3>1, <3>2
    <3> QED BY <3>3
  <2>4. head \in Zeros /\ tail \in Zeros /\ Len(head) = 1
    BY <1>5, <1>8, <2>1, <2>3
  <2> QED BY <2>3, <2>4, ZerosAre
<1>16. size = 1 /\ ~Held(s) =>
         /\ tail = <<>> /\ head = u
         /\ IF u = <<>> THEN size - n = 1 ELSE size - n = 0 /\ \E c \in Chars : u = <<c>>
  <2> SUFFICES ASSUME size = 1, ~Held(s)
               PROVE  /\ tail = <<>> /\ head = u
                      /\ IF u = <<>> THEN size - n = 1
                         ELSE size - n = 0 /\ \E c \in Chars : u = <<c>>
    OBVIOUS
  <2>1. u = <<>> \/ \E c \in Chars : u = <<c>>
    BY <1>1 DEF Held, u
  <2>2. CASE u = <<>>
    <3>1. n = 0 /\ size - n = 1 /\ n = Len(u)
      BY <1>2, <2>2 DEF Least, n
    <3> QED BY <1>6, <2>2, <3>1
  <2>3. CASE u # <<>>
    <3>1. Len(u) = 1
      BY <2>1, <2>3
    <3>2. n = 1 /\ size - n = 0 /\ n = Len(u)
      BY <3>1 DEF Least, n
    <3> QED BY <1>6, <2>1, <2>3, <3>2
  <2> QED BY <2>2, <2>3
<1> QED BY <1>3, <1>5, <1>6, <1>12, <1>13, <1>14, <1>15, <1>16 DEF u, n, t, head, tail

(* Reading one byte gives one, or ends or breaks the stream.                  *)
LEMMA RoundOfOne ==
  ASSUME NEW s, Sound(s), s.open, s.type # "TOFILE", ReadOK(s), Unread(s.restore) = <<>>
  PROVE  LET p == Round([s |-> s, data |-> <<>>, left |-> 1]) IN
         IF ReadOK(p.s) THEN \E c \in Chars : p.data = <<c>> ELSE p.data = <<>>
<1> DEFINE p == [s |-> s, data |-> <<>>, left |-> 1]
           t == IF Unread(p.s.buf) = <<>> THEN Fill(p.s, p.left) ELSE p.s
           u == Unread(t.buf)
           n == Least(p.left, Len(u))
           head == SubSeq(u, 1, n)
           next == [t EXCEPT !.buf = Consumed(t.buf, n)]
<1>0. p.s = s /\ p.data = <<>> /\ p.left = 1 /\ 1 \in Nat \ {0}
  OBVIOUS
<1> HIDE DEF p
<1>1. Sound(t) /\ Same(t, s) /\ t.restore = s.restore /\ (ReadOK(t) <=> u # <<>>)
  <2>1. CASE Unread(s.buf) = <<>>
    <3>1. t = Fill(s, 1)
      BY <1>0, <2>1
    <3> HIDE DEF t
    <3> QED BY <1>0, <2>1, <3>1, FillKeeps
  <2>2. CASE Unread(s.buf) # <<>>
    BY <1>0, <2>2 DEF Same
  <2> QED BY <2>1, <2>2
<1> HIDE DEF t
<1>2. u \in Text /\ Len(u) \in Nat /\ (u = <<>> <=> Len(u) = 0)
  BY <1>1, LeftType, EmptySeq DEF Sound, Text
<1>3. n \in 0 .. Len(u) /\ n = IF u = <<>> THEN 0 ELSE 1
  BY <1>0, <1>2 DEF Least
<1>4. /\ Same(next, t) /\ next.end = t.end /\ next.broken = t.broken
      /\ head \in Text /\ Len(head) = n
  BY ZenonT(60), <1>1, <1>3, ConsumedSound DEF Same
<1> HIDE DEF next, head, n, u
<1>5. ReadOK(next) <=> u # <<>>
  BY <1>1, <1>4 DEF ReadOK, Same
<1>6. Round(p) = [s |-> next, data |-> p.data \o head, left |-> p.left - n]
  <2>1. p.left # 0
    BY <1>0
  <2> QED BY <2>1, Zenon DEF Round, t, n, head, next, u
<1>7. Round(p).s = next /\ Round(p).data = head
  BY <1>0, <1>4, <1>6, TextEmpty
<1>8. n = 0 => head = <<>>
  BY <1>4, EmptySeq DEF Text
<1>9. n = 1 => head[1] \in Chars /\ head = <<head[1]>>
  BY <1>4, OneLong DEF Text
<1> QED BY <1>3, <1>5, <1>7, <1>8, <1>9 DEF p

(* The channel and its state, but for the position.  The buffer of a file that *)
(* is written is no part of what is read.                                    *)
SameChannel(t, s) ==
  /\ t.open = s.open /\ t.type = s.type /\ t.sink = s.sink /\ t.packet = s.packet
  /\ s.type # "TOFILE" => t.corrupt = s.corrupt
  /\ s.type = "TOFILE" => t.buf = s.buf /\ t.broken = s.broken

(* A stream that can only be written is corrupt when it is read.              *)
LEMMA ReadOutput ==
  ASSUME NEW s, Sound(s), s.type = "TOFILE", ReadOK(s), NEW size \in Nat
  PROVE  LET r == ReadBytes(s, size) IN
         /\ Sound(r.s) /\ SameChannel(r.s, s) /\ r.s.col = s.col /\ r.s.row = s.row
         /\ r.data = <<>> /\ Pend(r.s) = Pend(s) /\ ~ReadOK(r.s)
         /\ Unread(r.s.restore) = <<>> /\ ~Held(s)
<1> DEFINE u == Unread(s.restore)
           n == Least(size, Len(u))
           c == Consumed(s.restore, n)
           t == [s EXCEPT !.restore = c]
           f == [t EXCEPT !.corrupt = TRUE]
           r == ReadBytes(s, size)
<1>1. /\ Sound(t) /\ Same(t, s) /\ Left(t) = Left(s) /\ t.buf = s.buf /\ t.broken = s.broken
      /\ SubSeq(u, 1, n) \o Unread(t.restore) = u
      /\ SubSeq(u, 1, n) \in Seq(Codes) /\ Unread(t.restore) \in Seq(Codes)
  BY RestoreRead
<1>2. r = [s |-> f, data |-> <<>>]
  BY Zenon DEF ReadBytes, u, n, c, t, f
<1>3. u = <<>>
  BY DEF Sound
<1> HIDE DEF r, u, n, c
<1>4. Unread(t.restore) = <<>>
  <2> HIDE DEF t
  <2> QED BY <1>1, <1>3, ConcatEqualIffEmpty
<1> HIDE DEF t
<1>5. t \in Streams
  BY <1>1 DEF Sound
<1>6. /\ f \in Streams /\ f.open = t.open /\ f.type = t.type /\ f.buf = t.buf
      /\ f.restore = t.restore /\ f.end = t.end /\ f.broken = t.broken /\ f.rest = t.rest
      /\ f.sink = t.sink /\ f.packet = t.packet /\ f.col = t.col /\ f.row = t.row
      /\ f.corrupt = TRUE
  BY <1>5 DEF Streams
<1> HIDE DEF f
<1>7. ~ReadOK(f)
  BY <1>6 DEF ReadOK
<1>8. Left(f) = Left(t)
  BY <1>6 DEF Left
<1>9. Sound(f)
  BY <1>1, <1>6, <1>7, <1>8 DEF Sound
<1>10. SameChannel(f, s) /\ f.col = s.col /\ f.row = s.row
  BY <1>1, <1>6 DEF SameChannel, Same
<1>11. Unread(f.restore) = Unread(s.restore)
  BY <1>3, <1>4, <1>6 DEF u
<1>12. Back(f) = Back(s)
  BY <1>11 DEF Back
<1>13. Pend(f) = Pend(s)
  BY <1>1, <1>8, <1>12 DEF Pend
<1>14. r.s = f /\ r.data = <<>>
  BY <1>2
<1> QED BY <1>3, <1>7, <1>9, <1>10, <1>11, <1>13, <1>14 DEF Held, u, r

(* i_read: of what is given, what was written is the first of what is left.   *)
(* A 0 that was un-read is given too.                                        *)
LEMMA ReadBytesKeeps ==
  ASSUME NEW s, Sound(s), s.open, NEW size \in Nat
  PROVE  LET r == ReadBytes(s, size) IN
         /\ Sound(r.s) /\ SameChannel(r.s, s) /\ r.s.col = s.col /\ r.s.row = s.row
         /\ r.data \in Seq(Codes) /\ Written(r.data) \o Pend(r.s) = Pend(s)
         /\ ~ReadOK(s) => r.s = s /\ r.data = <<>>
         /\ ReadOK(s) /\ size = 1 /\ Held(s) =>
              r.data = <<NUL>> /\ ReadOK(r.s) /\ Unread(r.s.restore) \in Zeros
         /\ ReadOK(s) /\ size = 1 /\ ~Held(s) =>
              /\ Unread(r.s.restore) = <<>>
              /\ IF ReadOK(r.s) THEN \E c \in Chars : r.data = <<c>> ELSE r.data = <<>>
<1> DEFINE r == ReadBytes(s, size)
<1>1. Pend(s) \in Text /\ <<>> \in Seq(Codes) /\ Written(<<>>) = <<>> /\ <<>> \o Pend(s) = Pend(s)
  BY PendType, TextEmpty, WrittenZeros, ZerosAre
<1>2. CASE ~ReadOK(s)
  <2>1. r = [s |-> s, data |-> <<>>]
    BY <1>2 DEF ReadBytes
  <2>2. r.s = s /\ r.data = <<>>
    BY <2>1
  <2> HIDE DEF r
  <2>3. SameChannel(s, s)
    BY DEF SameChannel
  <2> QED BY <1>1, <1>2, <2>2, <2>3 DEF r
<1>3. CASE ReadOK(s) /\ s.type = "TOFILE"
  <2>1. /\ Sound(r.s) /\ SameChannel(r.s, s) /\ r.s.col = s.col /\ r.s.row = s.row
        /\ r.data = <<>> /\ Pend(r.s) = Pend(s) /\ ~ReadOK(r.s)
        /\ Unread(r.s.restore) = <<>> /\ ~Held(s)
    BY <1>3, ReadOutput
  <2> HIDE DEF r
  <2> QED BY <1>1, <1>3, <2>1 DEF r
<1>4. CASE ReadOK(s) /\ s.type # "TOFILE"
  <2> DEFINE u == Unread(s.restore)
             n == Least(size, Len(u))
             t == [s EXCEPT !.restore = Consumed(s.restore, n)]
             head == SubSeq(u, 1, n)
             p == Pull(t, head, size - n)
  <2>1. /\ Sound(t) /\ Same(t, s) /\ ReadOK(t) /\ Left(t) = Left(s)
        /\ n \in Nat /\ size - n \in Nat
        /\ head \in Seq(Codes) /\ Unread(t.restore) \in Seq(Codes)
        /\ head \o Unread(t.restore) = u
        /\ size - n # 0 => Unread(t.restore) = <<>>
        /\ size = 1 /\ Held(s) => size - n = 0 /\ head = <<NUL>> /\ Unread(t.restore) \in Zeros
        /\ size = 1 /\ ~Held(s) =>
             /\ Unread(t.restore) = <<>> /\ head = u
             /\ IF u = <<>> THEN size - n = 1 ELSE size - n = 0 /\ \E c \in Chars : u = <<c>>
    BY <1>4, RestoreRead
  <2>2. r = [s |-> p.s, data |-> p.data]
    BY <1>4, Zenon DEF ReadBytes, u, n, t, head, p
  <2>3. r.s = p.s /\ r.data = p.data
    BY <2>2
  <2> HIDE DEF t, r
  <2> DEFINE m == size - n
  <2>4. m \in Nat /\ (m # 0 => Unread(t.restore) = <<>>) /\ t.open /\ t.type # "TOFILE"
    BY <1>4, <2>1 DEF Same
  <2> HIDE DEF n, head, u, m
  <2>5. /\ Reading(p, t, head)
        /\ m = 0 => p = [s |-> t, data |-> head, left |-> 0]
        /\ m = 1 => p = Round([s |-> t, data |-> head, left |-> 1])
    BY <2>1, <2>4, PullKeeps DEF m
  <2> HIDE DEF p
  <2>6. /\ Sound(p.s) /\ Same(p.s, t) /\ p.s.restore = t.restore
        /\ Written(p.data) \o Left(p.s) = Written(head) \o Left(t) /\ p.data \in Seq(Codes)
    BY <2>5 DEF Reading
  <2>7. /\ Written(head) \in Text /\ Back(t) \in Text /\ Left(t) \in Text
        /\ Written(head) \o Back(t) = Back(s) /\ Back(p.s) = Back(t)
        /\ Left(p.s) \in Text
    <3>1. Written(head \o Unread(t.restore)) = Written(head) \o Back(t)
      BY <2>1, WrittenConcat DEF Back
    <3>2. Back(s) = Written(u)
      BY DEF Back, u
    <3> QED BY <2>1, <2>6, <3>1, <3>2, WrittenType, PendType DEF Back
  <2>8. Written(p.data) \o Pend(p.s) = Pend(s)
    <3>1. Written(head) \o (Back(t) \o Left(t)) = Pend(s)
      <4>1. Written(head) \o (Back(t) \o Left(t)) = (Written(head) \o Back(t)) \o Left(t)
        BY <2>7, TextAssociative
      <4>2. Written(head) \o Back(t) = Back(s) /\ Left(t) = Left(s)
        BY <2>1, <2>7
      <4> QED BY <4>1, <4>2, Zenon DEF Pend
    <3>2. CASE m = 0
      <4>1. p.s = t /\ p.data = head
        BY <2>5, <3>2
      <4> QED BY <3>1, <4>1 DEF Pend
    <3>3. CASE m # 0
      <4>1. Back(t) = <<>>
        BY <1>1, <2>4, <3>3 DEF Back
      <4>2. Back(t) \o Left(t) = Left(t) /\ Back(p.s) \o Left(p.s) = Left(p.s)
        BY <2>7, <4>1, TextEmpty
      <4> QED BY <2>6, <3>1, <4>2 DEF Pend
    <3> QED BY <3>2, <3>3
  <2>9. size = 1 /\ Held(s) => p.data = <<NUL>> /\ ReadOK(p.s) /\ Unread(p.s.restore) \in Zeros
    <3> SUFFICES ASSUME size = 1, Held(s)
                 PROVE  p.data = <<NUL>> /\ ReadOK(p.s) /\ Unread(p.s.restore) \in Zeros
      OBVIOUS
    <3>1. m = 0 /\ head = <<NUL>> /\ Unread(t.restore) \in Zeros
      BY <2>1 DEF m
    <3>2. p.s = t /\ p.data = head
      BY <2>5, <3>1
    <3> QED BY <2>1, <3>1, <3>2
  <2>10. size = 1 /\ ~Held(s) =>
           /\ Unread(p.s.restore) = <<>>
           /\ IF ReadOK(p.s) THEN \E c \in Chars : p.data = <<c>> ELSE p.data = <<>>
    <3> SUFFICES ASSUME size = 1, ~Held(s)
                 PROVE  /\ Unread(p.s.restore) = <<>>
                        /\ IF ReadOK(p.s) THEN \E c \in Chars : p.data = <<c>>
                           ELSE p.data = <<>>
      OBVIOUS
    <3>1. Unread(t.restore) = <<>> /\ head = u
          /\ IF u = <<>> THEN m = 1 ELSE m = 0 /\ \E c \in Chars : u = <<c>>
      BY <2>1 DEF m
    <3>2. Unread(p.s.restore) = <<>>
      BY <2>6, <3>1
    <3>3. CASE u = <<>>
      <4>1. p = Round([s |-> t, data |-> <<>>, left |-> 1])
        BY <2>5, <3>1, <3>3
      <4> QED BY <2>1, <2>4, <3>1, <3>2, <4>1, RoundOfOne
    <3>4. CASE u # <<>>
      <4>1. p.s = t /\ p.data = u
        BY <2>5, <3>1, <3>4
      <4> QED BY <2>1, <3>1, <3>2, <3>4, <4>1
    <3> QED BY <3>3, <3>4
  <2>11. SameChannel(p.s, s) /\ p.s.col = s.col /\ p.s.row = s.row
    BY <1>4, <2>1, <2>6 DEF Same, SameChannel
  <2> QED BY <1>4, <2>3, <2>6, <2>8, <2>9, <2>10, <2>11 DEF r
<1> QED BY <1>2, <1>3, <1>4

(* The position behind a character.                                          *)
Stepped(col, row, c) ==
  IF c = BAD THEN <<col, row>> ELSE IF c = NL THEN <<1, row + 1>> ELSE <<col + 1, row>>

(* The position is no part of what is sound.                                 *)
LEMMA Moving ==
  ASSUME NEW s, Sound(s), NEW t \in Streams, SameChannel(t, s), t.buf = s.buf,
         t.restore = s.restore, t.end = s.end, t.broken = s.broken, t.rest = s.rest,
         t.corrupt = s.corrupt
  PROVE  Sound(t) /\ Back(t) = Back(s) /\ Left(t) = Left(s) /\ Pend(t) = Pend(s)
         /\ (ReadOK(t) <=> ReadOK(s))
<1>1. Back(t) = Back(s) /\ Left(t) = Left(s) /\ (ReadOK(t) <=> ReadOK(s))
  BY DEF Back, Left, ReadOK, SameChannel
<1>2. Pend(t) = Pend(s)
  BY <1>1 DEF Pend
<1>3. Sound(t)
  BY <1>1 DEF Sound, SameChannel
<1> QED BY <1>1, <1>2, <1>3

(* stm_read_char: it gives a character, or 0 where nothing can be read, or    *)
(* the 0 that was un-read.                                                   *)
LEMMA ReadCharKeeps ==
  ASSUME NEW s, Sound(s), s.open
  PROVE  LET r == ReadChar(s) IN
         /\ Sound(r.s) /\ SameChannel(r.s, s) /\ r.data \in Seq(Codes) /\ r.code \in Codes
         /\ Written(r.data) \o Pend(r.s) = Pend(s)
         /\ r.chars = IF ReadOK(s) THEN <<r.code>> ELSE <<>>
         /\ r.code # NUL =>
              /\ ReadOK(s) /\ ReadOK(r.s) /\ Unread(r.s.restore) = <<>>
              /\ r.data = <<r.code>> /\ r.code \in Chars
         /\ r.code = NUL =>
              /\ r.data \in Zeros
              /\ ReadOK(r.s) => Unread(r.s.restore) \in Zeros
         /\ ReadOK(s) /\ ~Held(s) =>
              Unread(r.s.restore) = <<>> /\ (r.code = NUL <=> ~ReadOK(r.s))
         /\ <<r.s.col, r.s.row>> = IF ReadOK(s) THEN Stepped(s.col, s.row, r.code)
                                   ELSE <<s.col, s.row>>
         /\ ~ReadOK(s) => ~ReadOK(r.s)
<1> DEFINE b == ReadBytes(s, 1)
           code == IF b.data = <<>> THEN NUL ELSE b.data[1]
           t == IF ~ReadOK(s) \/ code = BAD THEN b.s
                ELSE IF code = NL THEN [b.s EXCEPT !.row = b.s.row + 1, !.col = 1]
                ELSE [b.s EXCEPT !.col = b.s.col + 1]
           chs == IF ReadOK(s) THEN <<code>> ELSE <<>>
<1>1. /\ Sound(b.s) /\ SameChannel(b.s, s) /\ b.s.col = s.col /\ b.s.row = s.row
      /\ b.data \in Seq(Codes) /\ Written(b.data) \o Pend(b.s) = Pend(s)
      /\ ~ReadOK(s) => b.s = s /\ b.data = <<>>
      /\ ReadOK(s) /\ Held(s) =>
           b.data = <<NUL>> /\ ReadOK(b.s) /\ Unread(b.s.restore) \in Zeros
      /\ ReadOK(s) /\ ~Held(s) =>
           /\ Unread(b.s.restore) = <<>>
           /\ IF ReadOK(b.s) THEN \E c \in Chars : b.data = <<c>> ELSE b.data = <<>>
  <2>1. 1 \in Nat
    OBVIOUS
  <2> HIDE DEF b
  <2> QED BY ZenonT(60), <2>1, ReadBytesKeeps DEF b
<1>2. ReadChar(s) = [code |-> code, data |-> b.data, chars |-> chs, s |-> t]
  BY Zenon DEF ReadChar, Decoded, CharOf, b, code, t, chs
<1> HIDE DEF b
<1>3. /\ code \in Codes
      /\ code # NUL =>
           /\ ReadOK(s) /\ ReadOK(b.s) /\ Unread(b.s.restore) = <<>>
           /\ b.data = <<code>> /\ code \in Chars
      /\ code = NUL => b.data \in Zeros /\ (ReadOK(b.s) => Unread(b.s.restore) \in Zeros)
      /\ ReadOK(s) /\ ~Held(s) =>
           Unread(b.s.restore) = <<>> /\ (code = NUL <=> ~ReadOK(b.s))
  <2>0. NUL \in Codes /\ <<>> \in Zeros /\ <<NUL>> \in Zeros
    BY CodesOfText, ZerosAre
  <2>1. CASE ~ReadOK(s)
    <3>1. code = NUL /\ b.data = <<>> /\ b.s = s
      BY <1>1, <2>1
    <3> QED BY <2>0, <2>1, <3>1
  <2>2. CASE ReadOK(s) /\ Held(s)
    <3>0. b.data = <<NUL>>
      BY <1>1, <2>2
    <3>1. b.data = <<NUL>> /\ b.data # <<>> /\ b.data[1] = NUL
      <4>1. <<NUL>> # <<>> /\ <<NUL>>[1] = NUL
        OBVIOUS
      <4> QED BY <3>0, <4>1, Zenon
    <3>2. code = NUL
      BY <3>1
    <3> QED BY <1>1, <2>0, <2>2, <3>1, <3>2
  <2>3. CASE ReadOK(s) /\ ~Held(s) /\ ~ReadOK(b.s)
    <3>1. b.data = <<>> /\ code = NUL
      BY <1>1, <2>3
    <3> QED BY <1>1, <2>0, <2>3, <3>1
  <2>4. CASE ReadOK(s) /\ ~Held(s) /\ ReadOK(b.s)
    <3>1. PICK c \in Chars : b.data = <<c>>
      BY <1>1, <2>4
    <3>2. b.data # <<>> /\ b.data[1] = c /\ c # NUL /\ c \in Codes
      BY <3>1, CodesOfText
    <3>3. code = c
      BY <3>2
    <3> HIDE DEF code
    <3> QED BY <1>1, <2>4, <3>1, <3>2, <3>3
  <2> QED BY <2>1, <2>2, <2>3, <2>4
<1> HIDE DEF code
<1>4. b.s \in Streams /\ b.s.col \in Nat \ {0} /\ b.s.row \in Nat \ {0}
      /\ b.s.col = s.col /\ b.s.row = s.row
  BY <1>1 DEF Sound, Streams
<1>5. /\ t \in Streams /\ SameChannel(t, b.s) /\ t.buf = b.s.buf
      /\ t.corrupt = b.s.corrupt /\ t.restore = b.s.restore /\ t.end = b.s.end /\ t.broken = b.s.broken
      /\ t.rest = b.s.rest
      /\ <<t.col, t.row>> = IF ReadOK(s) THEN Stepped(s.col, s.row, code) ELSE <<s.col, s.row>>
  <2>1. CASE ~ReadOK(s) \/ code = BAD
    BY <1>4, <2>1 DEF Stepped, SameChannel
  <2>2. CASE ReadOK(s) /\ code # BAD /\ code = NL
    <3>1. t = [b.s EXCEPT !.row = b.s.row + 1, !.col = 1]
      BY <2>2
    <3>2. b.s.row + 1 \in Nat \ {0} /\ 1 \in Nat \ {0}
      BY <1>4
    <3> HIDE DEF t
    <3>3. t \in Streams /\ t.col = 1 /\ t.row = b.s.row + 1
      BY <1>4, <3>1, <3>2 DEF Streams
    <3>4. /\ SameChannel(t, b.s) /\ t.buf = b.s.buf /\ t.restore = b.s.restore
          /\ t.end = b.s.end /\ t.broken = b.s.broken /\ t.rest = b.s.rest
          /\ t.corrupt = b.s.corrupt
      BY <1>4, <3>1 DEF SameChannel, Streams
    <3>5. <<t.col, t.row>> = Stepped(s.col, s.row, code)
      BY <1>4, <2>2, <3>3 DEF Stepped
    <3> QED BY <2>2, <3>3, <3>4, <3>5
  <2>3. CASE ReadOK(s) /\ code # BAD /\ code # NL
    <3>1. t = [b.s EXCEPT !.col = b.s.col + 1]
      BY <2>3
    <3>2. b.s.col + 1 \in Nat \ {0}
      BY <1>4
    <3> HIDE DEF t
    <3>3. t \in Streams /\ t.col = b.s.col + 1 /\ t.row = b.s.row
      BY <1>4, <3>1, <3>2 DEF Streams
    <3>4. /\ SameChannel(t, b.s) /\ t.buf = b.s.buf /\ t.restore = b.s.restore
          /\ t.end = b.s.end /\ t.broken = b.s.broken /\ t.rest = b.s.rest
          /\ t.corrupt = b.s.corrupt
      BY <1>4, <3>1 DEF SameChannel, Streams
    <3>5. <<t.col, t.row>> = Stepped(s.col, s.row, code)
      BY <1>4, <2>3, <3>3 DEF Stepped
    <3> QED BY <2>3, <3>3, <3>4, <3>5
  <2> QED BY <2>1, <2>2, <2>3
<1> HIDE DEF t
<1>6. Sound(t) /\ Pend(t) = Pend(b.s) /\ (ReadOK(t) <=> ReadOK(b.s))
  BY <1>1, <1>5, Moving
<1>7. SameChannel(t, s)
  BY <1>1, <1>5 DEF SameChannel
<1>8. ~ReadOK(s) => ~ReadOK(t)
  BY <1>1, <1>6
<1> HIDE DEF chs
<1>9. ReadChar(s).code = code /\ ReadChar(s).data = b.data /\ ReadChar(s).chars = chs
      /\ ReadChar(s).s = t
  BY <1>2
<1> QED BY <1>1, <1>3, <1>5, <1>6, <1>7, <1>8, <1>9 DEF chs

(* A code that may be un-read: a character that was the last to be read, or   *)
(* the 0 where nothing, or another 0, is un-read already.                    *)
MayPutBack(s, code) ==
  /\ code \in Codes
  /\ code # NUL => ReadOK(s) /\ s.type # "TOFILE" /\ Unread(s.restore) = <<>>
  /\ code = NUL /\ ReadOK(s) => s.type # "TOFILE" /\ Unread(s.restore) \in Zeros

PutBack(t, s, code, col, row) ==
  /\ Sound(t) /\ SameChannel(t, s) /\ t.col = col /\ t.row = row
  /\ (ReadOK(t) <=> ReadOK(s)) /\ Unread(t.restore) = Unread(s.restore) \o Encoded(code)
  /\ Pend(t) = (IF code \in {NUL, BAD} THEN <<>> ELSE <<code>>) \o Pend(s)

(* _stm_restore: a character that was read is the next one again; the 0 of     *)
(* the end is un-read too, but is none of the bytes that are left; what is no  *)
(* character is lost.                                                        *)
LEMMA RestoredKeeps ==
  ASSUME NEW s, Sound(s), NEW code, MayPutBack(s, code),
         NEW col \in Nat \ {0}, NEW row \in Nat \ {0}
  PROVE  PutBack(Restored(s, code, col, row), s, code, col, row)
<1> DEFINE t == Restored(s, code, col, row)
           e == Encoded(code)
           r == Appended(s.restore, e, RESTORE_CACHE)
           u == Unread(s.restore)
<1>1. s \in Streams /\ s.restore \in BufferOf(Codes) /\ u \in Seq(Codes) /\ code \in Codes
  BY PendType DEF Sound, Streams, MayPutBack
<1>2. BAD # NUL /\ (code # NUL => code \in Chars)
  BY <1>1, CodesOfText DEF BAD, NUL
<1>3. /\ e \in Seq(Codes)
      /\ code = NUL => e = <<NUL>> /\ e \in Zeros
      /\ code = BAD => e = <<>>
      /\ code \notin {NUL, BAD} => e = <<code>> /\ e \in Text
  <2>1. CASE code = BAD
    BY <1>2, <2>1, EmptySeq DEF Encoded
  <2>2. CASE code # BAD
    <3>1. e = <<code>> /\ <<code>> \in Seq(Codes)
      BY <1>1, <2>2 DEF Encoded
    <3>2. code # NUL => <<code>> \in Text
      BY <1>2, Singleton DEF Text
    <3> HIDE DEF e
    <3> QED BY <2>2, <3>1, <3>2, ZerosAre
  <2> QED BY <2>1, <2>2
<1> HIDE DEF e, u
<1>4. r \in BufferOf(Codes) /\ Unread(r) = u \o e
  <2>1. RESTORE_CACHE \in Nat \ {0}
    BY StreamAssumption
  <2>2. s.restore \in BufferOf(Codes) /\ e \in Seq(Codes)
    BY <1>1, <1>3
  <2> DEFINE x == s.restore
  <2> HIDE DEF x
  <2>3. x \in BufferOf(Codes) =>
          /\ Appended(x, e, RESTORE_CACHE) \in BufferOf(Codes)
          /\ Unread(Appended(x, e, RESTORE_CACHE)) = Unread(x) \o e
    BY <2>1, <2>2, AppendedKeeps
  <2> QED BY <2>2, <2>3, Zenon DEF u, x
<1> HIDE DEF r
<1>5. t = [s EXCEPT !.restore = r, !.col = col, !.row = row]
  BY DEF Restored, r, e
<1> HIDE DEF t
<1>6. /\ t \in Streams /\ SameChannel(t, s) /\ t.col = col /\ t.row = row /\ t.restore = r
      /\ t.buf = s.buf /\ t.rest = s.rest /\ t.end = s.end /\ t.broken = s.broken
      /\ t.corrupt = s.corrupt
  BY <1>1, <1>4, <1>5 DEF Streams, SameChannel
<1>7. (ReadOK(t) <=> ReadOK(s)) /\ Left(t) = Left(s) /\ Unread(t.restore) = u \o e
  BY <1>4, <1>6 DEF ReadOK, Left
<1>8. Back(t) = Back(s) \o (IF code \in {NUL, BAD} THEN <<>> ELSE <<code>>)
  <2>1. Back(t) = Back(s) \o Written(e)
    BY <1>1, <1>3, <1>7, WrittenConcat DEF Back, u
  <2>2. Written(e) = IF code \in {NUL, BAD} THEN <<>> ELSE <<code>>
    BY <1>3, WrittenZeros, WrittenText, ZerosAre
  <2> QED BY <2>1, <2>2
<1>9. Pend(t) = (IF code \in {NUL, BAD} THEN <<>> ELSE <<code>>) \o Pend(s)
  <2>1. Back(s) \in Text /\ Left(s) \in Text /\ Pend(s) \in Text
    BY PendType
  <2>2. CASE code \in {NUL, BAD}
    <3>1. Back(t) = Back(s)
      BY <1>8, <2>1, <2>2, TextEmpty
    <3>2. <<>> \o Pend(s) = Pend(s)
      BY <2>1, TextEmpty
    <3> QED BY <1>7, <2>2, <3>1, <3>2 DEF Pend
  <2>3. CASE code \notin {NUL, BAD}
    <3>1. u = <<>>
      BY <2>3 DEF MayPutBack, u
    <3>2. Back(s) = <<>>
      BY <3>1, WrittenZeros, ZerosAre DEF Back, u
    <3>3. <<code>> \in Text
      BY <1>3, <2>3
    <3>4. Back(t) = <<code>> /\ Pend(s) = Left(s)
      BY <1>8, <2>1, <2>3, <3>2, <3>3, TextEmpty DEF Pend
    <3> QED BY <1>7, <2>3, <3>4 DEF Pend
  <2> QED BY <2>2, <2>3
<1>10. ReadOK(s) => u \o e \in Zeros \/ \E c \in Chars : u \o e = <<c>>
  <2>1. CASE code = NUL
    BY <1>3, <2>1, ZerosAre DEF MayPutBack, u
  <2>2. CASE code # NUL
    <3>1. u = <<>> /\ u \o e = e
      BY <1>3, <2>2, ConcatEmptySeq DEF MayPutBack, u
    <3> QED BY <1>2, <1>3, <2>2, <3>1, ZerosAre
  <2> QED BY <2>1, <2>2
<1>11. s.open /\ (s.end \/ (s.broken /\ s.packet # 0)) => u \o e \in Zeros /\ Left(s) = <<>>
  <2> SUFFICES ASSUME s.open, s.end \/ (s.broken /\ s.packet # 0)
               PROVE  u \o e \in Zeros /\ Left(s) = <<>>
    OBVIOUS
  <2>1. u \in Zeros /\ Left(s) = <<>> /\ ~ReadOK(s)
    BY DEF Sound, ReadOK, u
  <2>2. code = NUL
    BY <2>1 DEF MayPutBack
  <2> QED BY <1>3, <2>1, <2>2, ZerosAre
<1>12. Sound(t)
  <2>1. /\ s.type \notin Inputs => s.packet = 0 /\ s.rest = <<>>
        /\ s.type = "TOFILE" => s.buf.roffset = 0 /\ ~s.end
        /\ s.type \in Inputs /\ s.open => s.buf.size # 0
        /\ s.type \in Memory => ~s.broken
    BY DEF Sound
  <2>2. s.type = "TOFILE" => ~ReadOK(s)
    BY DEF MayPutBack
  <2> QED BY <1>6, <1>7, <1>10, <1>11, <2>1, <2>2 DEF Sound, SameChannel
<1> QED BY <1>6, <1>7, <1>9, <1>12 DEF t, e, u, PutBack

(* A round of stm_skip_bom that started with s.                              *)
Skipping(p, s) ==
  /\ p \in [s : Streams, data : Seq({BOM})]
  /\ Sound(p.s) /\ SameChannel(p.s, s)
  /\ p.data \in Text /\ p.data \o Pend(p.s) = Pend(s)
  /\ p.s.col = s.col + Len(p.data) /\ p.s.row = s.row

(* A round of stm_skip_bom takes one mark, or nothing.                      *)
LEMMA BomRoundKeeps ==
  ASSUME NEW s, Sound(s), s.open, NEW p, Skipping(p, s)
  PROVE  Skipping(BomRound(p), s)
<1> DEFINE r == ReadChar(p.s)
<1>1. /\ p.s \in Streams /\ Sound(p.s) /\ SameChannel(p.s, s)
      /\ p.data \in Seq({BOM}) /\ p.data \in Text /\ p.data \o Pend(p.s) = Pend(s)
      /\ p.s.col = s.col + Len(p.data) /\ p.s.row = s.row
  BY DEF Skipping
<1>2. p.s.open
  BY <1>1 DEF SameChannel
<1>3. /\ Sound(r.s) /\ SameChannel(r.s, p.s)
      /\ Written(r.data) \o Pend(r.s) = Pend(p.s)
      /\ r.code # NUL => ReadOK(p.s) /\ r.data = <<r.code>> /\ r.code \in Chars
      /\ <<r.s.col, r.s.row>> = IF ReadOK(p.s) THEN Stepped(p.s.col, p.s.row, r.code)
                                ELSE <<p.s.col, p.s.row>>
  BY <1>1, <1>2, ReadCharKeeps
<1> HIDE DEF r
<1>4. CASE r.code = BOM
  <2>1. BOM # NUL /\ BOM # BAD /\ BOM # NL
    BY DEF BOM, NUL, BAD, NL
  <2>2. r.data = <<BOM>> /\ BOM \in Chars /\ r.s.col = p.s.col + 1 /\ r.s.row = p.s.row
    BY <1>3, <1>4, <2>1 DEF Stepped
  <2>3. BomRound(p) = [s |-> r.s, data |-> p.data \o r.data]
    BY <1>4, Zenon DEF BomRound, r
  <2> DEFINE d == p.data \o r.data
  <2>4. /\ d \in Seq({BOM}) /\ Len(d) = Len(p.data) + 1 /\ d \in Text
        /\ p.data \o Pend(p.s) = d \o Pend(r.s)
    <3>1. <<BOM>> \in Seq({BOM}) /\ Len(<<BOM>>) = 1 /\ <<BOM>> \in Text
      BY <2>2, Singleton DEF Text
    <3>2. d \in Seq({BOM}) /\ Len(d) = Len(p.data) + Len(r.data)
      BY <1>1, <2>2, <3>1, ConcatProperties
    <3>3. d \in Text
      BY <1>1, <2>2, <3>1, TextConcat
    <3>4. Pend(r.s) \in Text /\ Written(r.data) = r.data
      BY <1>3, <2>2, <3>1, PendType, WrittenText
    <3>5. p.data \o (r.data \o Pend(r.s)) = d \o Pend(r.s)
      BY ZenonT(60), <1>1, <2>2, <3>1, <3>4, TextAssociative
    <3>6. r.data \o Pend(r.s) = Pend(p.s)
      BY <1>3, <3>4
    <3>7. Len(d) = Len(p.data) + 1
      BY <2>2, <3>1, <3>2
    <3> HIDE DEF d
    <3> QED BY <3>2, <3>3, <3>5, <3>6, <3>7
  <2> HIDE DEF d
  <2> DEFINE q == [s |-> r.s, data |-> d]
  <2>5. q \in [s : Streams, data : Seq({BOM})] /\ q.s = r.s /\ q.data = d
    BY <1>3, <2>4 DEF Sound
  <2> HIDE DEF q
  <2>6. SameChannel(q.s, s)
    BY <1>1, <1>3, <2>5 DEF SameChannel
  <2>7. s.col \in Nat /\ Len(p.data) \in Nat
    BY <1>1 DEF Sound, Streams
  <2>8. q.s.col = s.col + Len(q.data) /\ q.s.row = s.row
    <3>1. (s.col + Len(p.data)) + 1 = s.col + (Len(p.data) + 1)
      BY <2>7
    <3>2. q.s.col = (s.col + Len(p.data)) + 1 /\ Len(q.data) = Len(p.data) + 1
      BY <1>1, <2>2, <2>4, <2>5
    <3>3. q.s.row = s.row
      BY <1>1, <2>2, <2>5
    <3> QED BY <3>1, <3>2, <3>3
  <2>9. Skipping(q, s)
    BY <1>1, <1>3, <2>2, <2>4, <2>5, <2>6, <2>8 DEF Skipping
  <2> QED BY <2>3, <2>9 DEF q, d
<1>5. CASE r.code # BOM
  <2>1. BomRound(p) = p
    BY <1>5, Zenon DEF BomRound, r
  <2> QED BY <2>1
<1> QED BY <1>4, <1>5

(* What stm_skip_bom takes: marks, and a byte that is no character.           *)
Taken(data, marks, s, t) ==
  /\ marks \in Seq({BOM}) /\ marks \in Text /\ data \in Text
  /\ data = marks \/ data = Append(marks, BAD)
  /\ t.col = s.col + Len(marks) /\ t.row = s.row

(* stm_skip_bom: only marks are read, and nothing behind them is lost that is  *)
(* a character.                                                              *)
LEMMA PastBomKeeps ==
  ASSUME NEW s, Sound(s), s.open
  PROVE  LET t == PastBom(s) IN
         /\ Sound(t.s) /\ SameChannel(t.s, s)
         /\ t.data \in Text /\ t.data \o Pend(t.s) = Pend(s)
         /\ \E marks : Taken(t.data, marks, s, t.s)
<1> DEFINE X == {p \in [s : Streams, data : Seq({BOM})] : Skipping(p, s)}
           F == [p \in X |-> BomRound(p)]
           a == [s |-> s, data |-> <<>>]
           most == Len(s.restore.data) + Len(s.buf.data) + Len(s.rest)
           Def(g) == [k \in 0 .. most |->
                        IF k = 0 THEN [s |-> s, data |-> <<>>] ELSE BomRound(g[k - 1])]
           f == CHOOSE g : g = Def(g)
<1>1. \A p : p \in X <=> Skipping(p, s)
  BY DEF Skipping
<1>2. a \in X
  <2>1. s \in Streams /\ s.col \in Nat /\ <<>> \in Seq({BOM}) /\ <<>> \in Text /\ Len(<<>>) = 0
    BY EmptySeq DEF Sound, Streams, Text
  <2>2. a \in [s : Streams, data : Seq({BOM})] /\ a.s = s /\ a.data = <<>>
    BY <2>1
  <2>3. <<>> \o Pend(s) = Pend(s)
    BY PendType, TextEmpty
  <2> HIDE DEF a, X
  <2>4. s.col = s.col + 0
    BY <2>1
  <2>5. SameChannel(s, s)
    BY DEF SameChannel
  <2>6. Skipping(a, s)
    BY <2>1, <2>2, <2>3, <2>4, <2>5 DEF Skipping
  <2> QED BY <1>1, <2>6
<1> HIDE DEF X
<1>3. \A p \in X : BomRound(p) \in X
  BY <1>1, BomRoundKeeps
<1>4. Maps(F, X) /\ \A p \in X : F[p] = BomRound(p)
  BY <1>3 DEF Maps
<1> HIDE DEF F
<1>5. most \in Nat
  <2>1. s.restore.data \in Seq(Codes) /\ s.buf.data \in Seq(Chars) /\ s.rest \in Seq(Chars)
    BY DEF Sound, Streams, BufferOf, Text
  <2>2. Len(s.restore.data) \in Nat /\ Len(s.buf.data) \in Nat /\ Len(s.rest) \in Nat
    BY <2>1, LenProperties
  <2>3. \A i, j, k \in Nat : i + j + k \in Nat
    OBVIOUS
  <2> QED BY <2>2, <2>3, Zenon
<1> HIDE DEF most
<1>6. PICK h : Runs(h, F, X, a, most)
  <2> HIDE DEF a, Def, f
  <2> QED BY <1>2, <1>4, <1>5, Iteration
<1>7. h \in [0 .. most -> X] /\ h[0] = a /\ \A k \in 1 .. most : h[k] = F[h[k - 1]]
  BY <1>6, Zenon DEF Runs
<1>8. h = Def(h)
  <2>1. ASSUME NEW k \in 0 .. most PROVE h[k] = Def(h)[k]
    <3>1. CASE k = 0
      BY <1>7, <3>1
    <3>2. CASE k # 0
      <4>1. k \in 1 .. most /\ k - 1 \in 0 .. most
        BY <1>5, <3>2
      <4>2. h[k - 1] \in X /\ h[k] = F[h[k - 1]]
        BY <1>7, <4>1
      <4>3. h[k] = BomRound(h[k - 1])
        BY <1>4, <4>2
      <4> QED BY <3>2, <4>3
    <3> QED BY <3>1, <3>2
  <2>2. Def(h) = [k \in 0 .. most |-> Def(h)[k]]
    BY <1>7
  <2>3. h = [k \in 0 .. most |-> h[k]]
    BY <1>7
  <2> HIDE DEF Def
  <2> QED BY <2>1, <2>2, <2>3, Zenon
<1>9. f = Def(f)
  <2> HIDE DEF Def
  <2> QED BY <1>8, Zenon
<1> DEFINE p == f[most]
           r == ReadChar(p.s)
           lost == IF r.code = BAD THEN <<BAD>> ELSE <<>>
<1>10. PastBom(s) = [s |-> Restored(r.s, r.code, p.s.col, p.s.row), data |-> p.data \o lost]
  BY Zenon DEF PastBom, most
<1> HIDE DEF f
<1>11. f[0] = a /\ \A k \in 1 .. most : f[k] = BomRound(f[k - 1])
  BY <1>5, <1>9
<1> HIDE DEF Def, a
<1>12. p \in X
  <2> DEFINE P == {k \in Nat : f[k] \in X}
  <2>1. P \in SUBSET Nat /\ 0 \in P
    BY <1>2, <1>11
  <2>2. ASSUME NEW k \in 1 .. most, k - 1 \in P PROVE k \in P
    BY <1>3, <1>5, <1>11, <2>2
  <2>3. \A k \in 0 .. most : k \in P
    <3> HIDE DEF P
    <3> QED BY <1>5, <2>1, <2>2, UpTo
  <2> QED BY <1>5, <2>3
<1> HIDE DEF p
<1>13. /\ Sound(p.s) /\ SameChannel(p.s, s) /\ p.data \in Seq({BOM})
       /\ p.data \in Text /\ p.data \o Pend(p.s) = Pend(s)
       /\ p.s.col = s.col + Len(p.data) /\ p.s.row = s.row
       /\ p.s.col \in Nat \ {0} /\ p.s.row \in Nat \ {0} /\ p.s.open
  <2>1. Skipping(p, s)
    BY <1>1, <1>12
  <2>2. /\ Sound(p.s) /\ SameChannel(p.s, s) /\ p.data \in Seq({BOM})
        /\ p.data \in Text /\ p.data \o Pend(p.s) = Pend(s)
        /\ p.s.col = s.col + Len(p.data) /\ p.s.row = s.row
    BY <2>1 DEF Skipping
  <2>3. p.s.col \in Nat \ {0} /\ p.s.row \in Nat \ {0}
    BY <2>2 DEF Sound, Streams
  <2>4. p.s.open
    BY <2>2 DEF SameChannel
  <2> QED BY <2>2, <2>3, <2>4
<1>14. /\ Sound(r.s) /\ SameChannel(r.s, p.s) /\ r.code \in Codes
       /\ Written(r.data) \o Pend(r.s) = Pend(p.s)
       /\ r.code # NUL =>
            /\ ReadOK(p.s) /\ ReadOK(r.s) /\ Unread(r.s.restore) = <<>>
            /\ r.data = <<r.code>> /\ r.code \in Chars
       /\ r.code = NUL =>
            r.data \in Zeros /\ (ReadOK(r.s) => Unread(r.s.restore) \in Zeros)
       /\ ReadOK(p.s) /\ ~Held(p.s) =>
            Unread(r.s.restore) = <<>> /\ (r.code = NUL <=> ~ReadOK(r.s))
       /\ ~ReadOK(p.s) => ~ReadOK(r.s)
  BY <1>13, ReadCharKeeps
<1>15. MayPutBack(r.s, r.code)
  <2>1. r.s.type = "TOFILE" => ~ReadOK(r.s)
    <3> SUFFICES ASSUME p.s.type = "TOFILE", ReadOK(p.s) PROVE ~ReadOK(r.s)
      BY <1>14 DEF SameChannel
    <3>1. ~ReadOK(ReadBytes(p.s, 1).s) /\ ReadBytes(p.s, 1).data = <<>> /\ ~Held(p.s)
      <4>1. 1 \in Nat
        OBVIOUS
      <4> QED BY <1>13, <4>1, ReadOutput
    <3>2. r.code = NUL
      BY <3>1 DEF ReadChar, Decoded, CharOf
    <3> HIDE DEF r
    <3> QED BY <1>14, <3>1, <3>2
  <2> HIDE DEF r
  <2> QED BY <1>14, <2>1 DEF MayPutBack
<1> HIDE DEF r
<1> DEFINE t == Restored(r.s, r.code, p.s.col, p.s.row)
<1>16. PutBack(t, r.s, r.code, p.s.col, p.s.row)
  <2> DEFINE x == r.s
             i == p.s.col
             j == p.s.row
  <2>1. Sound(x) /\ MayPutBack(x, r.code) /\ i \in Nat \ {0} /\ j \in Nat \ {0}
    BY <1>13, <1>14, <1>15
  <2>2. t = Restored(x, r.code, i, j)
    OBVIOUS
  <2> HIDE DEF t, x, i, j
  <2>3. PutBack(Restored(x, r.code, i, j), x, r.code, i, j)
    BY <2>1, RestoredKeeps
  <2> QED BY <2>2, <2>3, Zenon DEF x, i, j
<1>17. /\ Sound(t) /\ SameChannel(t, r.s) /\ t.col = p.s.col /\ t.row = p.s.row
       /\ Pend(t) = (IF r.code \in {NUL, BAD} THEN <<>> ELSE <<r.code>>) \o Pend(r.s)
  BY <1>16, Zenon DEF PutBack
<1> HIDE DEF t
<1>18. Pend(r.s) \in Text /\ Pend(p.s) \in Text /\ <<>> \o Pend(r.s) = Pend(r.s)
       /\ Pend(t) \in Text
  BY <1>13, <1>14, <1>17, PendType, TextEmpty
<1>19. NUL # BAD
  BY DEF NUL, BAD
<1>20. lost \in Text /\ lost \o Pend(t) = Pend(p.s)
  <2>1. CASE r.code = NUL
    <3>1. lost = <<>> /\ Pend(t) = Pend(r.s)
      BY <1>17, <1>18, <1>19, <2>1
    <3>2. Written(r.data) = <<>>
      BY <1>14, <2>1, WrittenZeros
    <3> QED BY <1>14, <1>18, <3>1, <3>2, EmptySeq DEF Text
  <2>2. CASE r.code = BAD
    <3>1. lost = <<BAD>> /\ Pend(t) = Pend(r.s) /\ r.data = <<BAD>> /\ BAD \in Chars
      BY <1>14, <1>17, <1>18, <1>19, <2>2
    <3>2. <<BAD>> \in Text
      BY <3>1, Singleton DEF Text
    <3>3. Written(r.data) = r.data
      BY <3>1, <3>2, WrittenText
    <3> QED BY <1>14, <3>1, <3>2, <3>3
  <2>3. CASE r.code \notin {NUL, BAD}
    <3>1. lost = <<>> /\ Pend(t) = <<r.code>> \o Pend(r.s) /\ r.data = <<r.code>>
          /\ r.code \in Chars
      BY <1>14, <1>17, <2>3
    <3>2. <<r.code>> \in Text
      BY <3>1, Singleton DEF Text
    <3>3. Written(r.data) = r.data
      BY <3>1, <3>2, WrittenText
    <3>4. Pend(t) = Pend(p.s)
      BY <1>14, <3>1, <3>3
    <3> QED BY <1>18, <3>1, <3>4, TextEmpty, EmptySeq DEF Text
  <2> QED BY <2>1, <2>2, <2>3
<1>21. p.data \o lost \in Text /\ (p.data \o lost) \o Pend(t) = Pend(s)
  <2> HIDE DEF lost
  <2>1. p.data \o (lost \o Pend(t)) = (p.data \o lost) \o Pend(t)
    BY <1>13, <1>18, <1>20, TextAssociative
  <2>2. p.data \o lost \in Text
    BY <1>13, <1>20, TextConcat
  <2> QED BY <1>13, <1>20, <2>1, <2>2
<1>22. p.data \o lost = p.data \/ p.data \o lost = Append(p.data, BAD)
  <2>1. CASE r.code = BAD
    <3>1. BAD \in Chars
      BY <1>14, <1>19, <2>1
    <3>2. p.data \in Seq(Chars)
      BY <1>13 DEF Text
    <3>3. p.data \o <<BAD>> = Append(p.data, BAD)
      BY <3>1, <3>2, AppendIsConcat
    <3> QED BY <2>1, <3>3
  <2>2. CASE r.code # BAD
    BY <1>13, <2>2, TextEmpty
  <2> QED BY <2>1, <2>2
<1>23. PastBom(s).s = t /\ PastBom(s).data = p.data \o lost
  <2> HIDE DEF lost
  <2>1. PastBom(s) = [s |-> t, data |-> p.data \o lost]
    BY <1>10, Zenon DEF t, lost
  <2> QED BY <2>1
<1> HIDE DEF lost
<1>24. SameChannel(t, s)
  BY <1>13, <1>14, <1>17 DEF SameChannel
<1>25. Taken(p.data \o lost, p.data, s, t)
  BY <1>13, <1>17, <1>21, <1>22 DEF Taken
<1> QED BY <1>17, <1>21, <1>23, <1>24, <1>25

(* What is pending: un-read, then left.                                     *)
LEMMA PendingIs ==
  ASSUME NEW s, Sound(s)
  PROVE  Pending(s) = Pend(s)
<1>1. Back(s) \in Text /\ Unread(s.buf) \in Text /\ s.rest \in Text
  BY PendType, LeftType DEF Sound
<1>2. Back(s) \o (Unread(s.buf) \o s.rest) = (Back(s) \o Unread(s.buf)) \o s.rest
  BY <1>1, TextAssociative
<1>3. Pending(s) = (Back(s) \o Unread(s.buf)) \o s.rest
  BY Zenon DEF Pending, Back
<1> QED BY <1>2, <1>3, Zenon DEF Pend, Left

-----------------------------------------------------------------------------
(* Writing                                                                  *)

(* A write to the file takes a first part, or all of it.                    *)
LEMMA ChannelWriteKeeps ==
  ASSUME NEW s, Sound(s), s.type = "TOFILE", NEW bytes \in Text,
         NEW w \in ChannelWrite(s, bytes)
  PROVE  /\ Sound(w) /\ w.type = "TOFILE" /\ w.open = s.open /\ w.buf = s.buf
         /\ w.col = s.col /\ w.row = s.row
         /\ ~w.broken => ~s.broken /\ w.sink = s.sink \o bytes
<1>1. s \in Streams /\ s.sink \in Text /\ s.broken \in BOOLEAN
  BY DEF Sound, Streams
<1>2. PICK n \in 0 .. Len(bytes) :
        w = [s EXCEPT !.sink = s.sink \o SubSeq(bytes, 1, n), !.broken = s.broken \/ n < Len(bytes)]
  BY DEF ChannelWrite
<1> DEFINE head == SubSeq(bytes, 1, n)
           b == s.broken \/ n < Len(bytes)
<1>3. head \in Text /\ Len(bytes) \in Nat /\ (n = Len(bytes) => head = bytes)
  BY Split, SubSeqFull DEF Text
<1>4. s.sink \o head \in Text
  BY <1>1, <1>3, TextConcat
<1>5. b \in BOOLEAN /\ (~b => ~s.broken /\ n = Len(bytes))
  BY <1>3
<1> HIDE DEF head, b
<1>6. w = [s EXCEPT !.sink = s.sink \o head, !.broken = b]
  BY <1>2 DEF head, b
<1>7. /\ w \in Streams /\ w.open = s.open /\ w.type = s.type /\ w.buf = s.buf
      /\ w.restore = s.restore /\ w.end = s.end /\ w.corrupt = s.corrupt /\ w.broken = b
      /\ w.rest = s.rest /\ w.sink = s.sink \o head /\ w.packet = s.packet
      /\ w.col = s.col /\ w.row = s.row
  BY <1>1, <1>4, <1>5, <1>6 DEF Streams
<1>8. Left(w) = Left(s) /\ (ReadOK(w) => ReadOK(s))
  BY <1>5, <1>7 DEF Left, ReadOK
<1>9. Sound(w)
  <2>1. /\ s.packet = 0 /\ s.rest = <<>> /\ s.buf.roffset = 0 /\ s.end = FALSE
        /\ ReadOK(s) => Unread(s.restore) = <<>>
    BY <1>1 DEF Sound, Inputs, Streams
  <2> HIDE DEF b
  <2> QED BY <1>7, <1>8, <2>1, ZerosAre DEF Sound, Inputs, Memory
<1> QED BY <1>3, <1>5, <1>7, <1>9

(* The buffer of a file that is written is loaded anew.                       *)
Loaded(t, s, bytes) ==
  /\ Sound(t) /\ t.type = "TOFILE" /\ t.open = s.open /\ t.broken = s.broken
  /\ t.sink = s.sink /\ Unread(t.buf) = bytes /\ t.col = s.col /\ t.row = s.row

(* The buffer of a file is loaded with bytes.                               *)
LEMMA LoadedKeeps ==
  ASSUME NEW s, Sound(s), s.type = "TOFILE", NEW bytes \in Text, Len(bytes) <= s.buf.size
  PROVE  /\ Loaded([s EXCEPT !.buf.data = bytes, !.end = FALSE], s, bytes)
         /\ Loaded([s EXCEPT !.buf.data = bytes], s, bytes)
<1> DEFINE b == [s.buf EXCEPT !.data = bytes]
           t == [s EXCEPT !.buf = b, !.end = FALSE]
<1>1. s \in Streams /\ s.buf \in BufferOf(Chars) /\ s.buf.roffset = 0 /\ s.end = FALSE
      /\ s.buf \in [data : Seq(Chars), roffset : Nat, size : Nat]
  BY DEF Sound, Streams, BufferOf
<1>2. b \in [data : Seq(Chars), roffset : Nat, size : Nat] /\ b.data = bytes /\ b.roffset = 0
      /\ b.size = s.buf.size
  BY <1>1 DEF Text
<1>3. b \in BufferOf(Chars)
  <2>1. Len(b.data) \in Nat
    BY <1>2
  <2> HIDE DEF b
  <2> QED BY <1>2, <2>1 DEF BufferOf
<1>4. Unread(b) = bytes
  <2>1. SubSeq(bytes, 0 + 1, Len(bytes)) = bytes
    BY SubSeqFull DEF Text
  <2> QED BY <1>2, <2>1 DEF Unread
<1>5. /\ [s EXCEPT !.buf.data = bytes, !.end = FALSE] = t
      /\ [s EXCEPT !.buf.data = bytes] = t
  BY <1>1 DEF Streams
<1> HIDE DEF b
<1>6. /\ t \in Streams /\ t.open = s.open /\ t.type = s.type /\ t.buf = b
      /\ t.restore = s.restore /\ t.end = FALSE /\ t.corrupt = s.corrupt /\ t.broken = s.broken
      /\ t.rest = s.rest /\ t.sink = s.sink /\ t.packet = s.packet
      /\ t.col = s.col /\ t.row = s.row
  BY <1>1, <1>3 DEF Streams
<1> HIDE DEF t
<1>7. Sound(t)
  <2>1. /\ s.packet = 0 /\ s.rest = <<>>
        /\ ReadOK(s) => Unread(s.restore) = <<>>
    BY DEF Sound, Inputs
  <2>2. ReadOK(t) => ReadOK(s)
    BY <1>1, <1>6 DEF ReadOK
  <2> QED BY <1>2, <1>6, <2>1, <2>2, ZerosAre DEF Sound, Inputs, Memory
<1> QED BY <1>4, <1>5, <1>6, <1>7 DEF Loaded

(* The buffer of a file is emptied into it.                                 *)
LEMMA FlushedKeeps ==
  ASSUME NEW s, Sound(s), s.type = "TOFILE", NEW f \in Flushed(s)
  PROVE  /\ Sound(f) /\ f.type = "TOFILE" /\ f.open = s.open
         /\ f.col = s.col /\ f.row = s.row
         /\ ~f.broken => ~s.broken /\ f.sink \o Unread(f.buf) = s.sink \o Unread(s.buf)
<1>1. PICK w \in ChannelWrite(s, s.buf.data) : f = [w EXCEPT !.buf.data = <<>>]
  BY DEF Flushed
<1>2. s.buf.data \in Text /\ s.sink \in Text /\ s.buf.roffset = 0 /\ s.buf.size \in Nat
  BY DEF Sound, Streams, BufferOf, Text
<1>3. /\ Sound(w) /\ w.type = "TOFILE" /\ w.open = s.open /\ w.buf = s.buf
      /\ w.col = s.col /\ w.row = s.row
      /\ ~w.broken => ~s.broken /\ w.sink = s.sink \o s.buf.data
  BY <1>2, ChannelWriteKeeps
<1>4. <<>> \in Text /\ Len(<<>>) <= w.buf.size
  BY <1>2, <1>3, EmptySeq DEF Text
<1>5. Loaded(f, w, <<>>)
  BY <1>1, <1>3, <1>4, LoadedKeeps
<1>6. /\ Sound(f) /\ f.type = "TOFILE" /\ f.open = w.open /\ f.broken = w.broken
      /\ f.sink = w.sink /\ Unread(f.buf) = <<>> /\ f.col = w.col /\ f.row = w.row
  BY <1>5 DEF Loaded
<1>7. Unread(s.buf) = s.buf.data
  <2>1. SubSeq(s.buf.data, 0 + 1, Len(s.buf.data)) = s.buf.data
    BY <1>2, SubSeqFull DEF Text
  <2> QED BY <1>2, <2>1 DEF Unread
<1>8. s.sink \o s.buf.data \in Text /\ (s.sink \o s.buf.data) \o <<>> = s.sink \o s.buf.data
  BY <1>2, TextConcat, TextEmpty
<1> QED BY <1>3, <1>6, <1>7, <1>8

-----------------------------------------------------------------------------
(* The invariant of the calls                                               *)

StreamInv == TypeOK /\ Sound(stm) /\ InOrder

(* The end is told only when nothing is left: a part of Sound.               *)
LEMMA EndIsEmpty == StreamInv => EndMeansEmpty
<1> SUFFICES ASSUME StreamInv, Open, stm.end \/ (stm.broken /\ stm.packet # 0)
             PROVE  Pending(stm) = <<>>
  BY DEF EndMeansEmpty
<1>1. Sound(stm) /\ Back(stm) = <<>> /\ Left(stm) = <<>>
  BY WrittenZeros DEF StreamInv, Sound, Open, Back
<1>2. <<>> \o <<>> = <<>>
  BY TextEmpty, EmptySeq DEF Text
<1> QED BY <1>1, <1>2, PendingIs DEF Pend

(* The first states.                                                        *)
Fresh(s, type, buf, rest) ==
  /\ Sound(s) /\ s.open = TRUE /\ s.type = type /\ s.buf = buf /\ s.sink = <<>>
  /\ s.col = 1 /\ s.row = 1 /\ Pend(s) = Unread(buf) \o rest

(* A stream that was created is sound.                                      *)
LEMMA CreatedIsSound ==
  ASSUME NEW type \in Types, NEW buf \in BufferOf(Chars), NEW rest \in Text, NEW packet \in Nat,
         type \notin Inputs => packet = 0 /\ rest = <<>>,
         type = "TOFILE" => buf.roffset = 0,
         type \in Inputs => buf.size # 0
  PROVE  Fresh(Created(type, buf, rest, packet), type, buf, rest)
<1> DEFINE s == Created(type, buf, rest, packet)
           b == Buffer(0)
<1>1. b \in BufferOf(Codes) /\ Unread(b) = <<>>
  BY EmptyBuffer
<1>2. <<>> \in Text
  BY EmptySeq DEF Text
<1> HIDE DEF b
<1>3. s = [open |-> TRUE, type |-> type, buf |-> buf, restore |-> b,
           end |-> FALSE, corrupt |-> FALSE, broken |-> FALSE, col |-> 1, row |-> 1,
           rest |-> rest, sink |-> <<>>, packet |-> packet]
  BY DEF Created, b
<1> HIDE DEF s
<1>4. /\ s \in Streams /\ s.open = TRUE /\ s.type = type /\ s.buf = buf /\ s.restore = b
      /\ s.end = FALSE /\ s.broken = FALSE /\ s.rest = rest /\ s.sink = <<>>
      /\ s.packet = packet /\ s.col = 1 /\ s.row = 1
  BY <1>1, <1>2, <1>3 DEF Streams
<1>5. <<>> \in Zeros /\ Written(<<>>) = <<>>
  BY ZerosAre, WrittenZeros
<1>6. Sound(s)
  BY <1>1, <1>4, <1>5 DEF Sound, Memory
<1>7. Back(s) = <<>> /\ Left(s) = Unread(buf) \o rest
  BY <1>1, <1>4, <1>5 DEF Back, Left
<1>8. Pend(s) = Left(s)
  BY <1>6, <1>7, PendType, TextEmpty DEF Pend
<1> QED BY <1>4, <1>6, <1>7, <1>8 DEF s, Fresh

(* The first states are sound.                                              *)
LEMMA InitKeeps == Init => StreamInv /\ stm.col = 1 /\ stm.row = 1 /\ chars = <<>>
<1> SUFFICES ASSUME Init PROVE StreamInv /\ stm.col = 1 /\ stm.row = 1
  BY DEF Init
<1>0. <<>> \in Text /\ <<>> \in Seq(Codes) /\ <<>> \o <<>> = <<>>
  BY EmptySeq, TextEmpty DEF Text
<1>1. DISK_CACHE \in Nat /\ DISK_CACHE # 0 /\ Sizes \subseteq Nat /\ Packets \subseteq Nat
  BY StreamAssumption
<1>2. got = <<>> /\ chars = <<>> /\ Written(got) = <<>>
  BY WrittenZeros, ZerosAre DEF Init
<1>3. ASSUME NEW size \in Nat, wrote = <<>>,
             \/ stm = Created("TOMEMORY", Buffer(size), <<>>, 0)
             \/ stm = Created("TOFILE", Buffer(size), <<>>, 0)
      PROVE  StreamInv /\ stm.col = 1 /\ stm.row = 1
  <2> DEFINE b == Buffer(size)
  <2>1. b \in BufferOf(Chars) /\ Unread(b) = <<>> /\ b.roffset = 0
    BY EmptyBuffer DEF Buffer
  <2> HIDE DEF b
  <2>2. PICK type \in {"TOMEMORY", "TOFILE"} : stm = Created(type, b, <<>>, 0)
    BY <1>3 DEF b
  <2>3. type \in Types /\ type \notin Inputs
    BY <2>2 DEF Types, Inputs
  <2>4. /\ Sound(stm) /\ stm.open = TRUE /\ stm.type = type /\ stm.buf = b /\ stm.sink = <<>>
        /\ stm.col = 1 /\ stm.row = 1 /\ Pend(stm) = Unread(b) \o <<>>
    <3>1. 0 \in Nat
      OBVIOUS
    <3>2. Fresh(stm, type, b, <<>>)
      BY <1>0, <2>1, <2>2, <2>3, <3>1, CreatedIsSound DEF Inputs
    <3> QED BY <3>2 DEF Fresh
  <2>5. InOrder
    BY <1>0, <1>2, <1>3, <2>1, <2>4, PendingIs DEF InOrder
  <2> QED BY <1>0, <1>2, <1>3, <2>4, <2>5 DEF StreamInv, TypeOK, Sound
<1>4. ASSUME NEW text \in Texts["FROMMEMORY"], wrote = text,
             stm = Created("FROMMEMORY",
                           [data |-> text, roffset |-> 0, size |-> Len(text)], <<>>, 0)
      PROVE  StreamInv /\ stm.col = 1 /\ stm.row = 1
  <2> DEFINE b == [data |-> text, roffset |-> 0, size |-> Len(text)]
  <2>1. text \in Text /\ Len(text) \in Nat
    BY StreamAssumption DEF Text
  <2>2. b \in [data : Seq(Chars), roffset : Nat, size : Nat]
        /\ b.data = text /\ b.roffset = 0 /\ b.size = Len(text)
    BY <2>1 DEF Text
  <2> HIDE DEF b
  <2>3. b \in BufferOf(Chars)
    BY <2>1, <2>2 DEF BufferOf
  <2>4. Unread(b) = text
    <3>1. SubSeq(text, 0 + 1, Len(text)) = text
      BY <2>1, SubSeqFull DEF Text
    <3> QED BY <2>2, <3>1 DEF Unread
  <2>5. "FROMMEMORY" \in Types /\ "FROMMEMORY" \notin Inputs
    BY DEF Types, Inputs
  <2>6. /\ Sound(stm) /\ stm.open = TRUE /\ stm.type = "FROMMEMORY" /\ stm.buf = b
        /\ stm.col = 1 /\ stm.row = 1 /\ Pend(stm) = Unread(b) \o <<>>
    <3>1. 0 \in Nat /\ "FROMMEMORY" # "TOFILE"
      OBVIOUS
    <3>2. Fresh(Created("FROMMEMORY", b, <<>>, 0), "FROMMEMORY", b, <<>>)
      BY <1>0, <2>3, <2>5, <3>1, CreatedIsSound
    <3> QED BY <1>4, <3>2 DEF Fresh, b
  <2>7. Pending(stm) = text /\ <<>> \o text = text
    BY <2>1, <2>4, <2>6, PendingIs, TextEmpty
  <2>8. InOrder
    BY <1>2, <1>4, <2>6, <2>7 DEF InOrder
  <2> QED BY <1>0, <1>2, <1>4, <2>1, <2>6, <2>8 DEF StreamInv, TypeOK, Sound
<1>5. ASSUME NEW type \in Inputs, NEW packet \in Packets, NEW text \in Texts[type], wrote = text,
             stm = Created(type, Buffer(DISK_CACHE), text, packet)
      PROVE  StreamInv /\ stm.col = 1 /\ stm.row = 1
  <2> DEFINE b == Buffer(DISK_CACHE)
  <2>1. text \in Text /\ packet \in Nat
    BY <1>5, StreamAssumption DEF Inputs
  <2>2. b \in BufferOf(Chars) /\ Unread(b) = <<>> /\ b.size = DISK_CACHE
    BY <1>1, EmptyBuffer
  <2> HIDE DEF b
  <2>3. type \in Types /\ type # "TOFILE"
    BY DEF Types, Inputs
  <2>4. /\ Sound(stm) /\ stm.open = TRUE /\ stm.type = type /\ stm.buf = b
        /\ stm.col = 1 /\ stm.row = 1 /\ Pend(stm) = Unread(b) \o text
    <3>1. Fresh(Created(type, b, text, packet), type, b, text)
      BY <1>1, <2>1, <2>2, <2>3, CreatedIsSound
    <3> QED BY <1>5, <3>1 DEF Fresh, b
  <2>5. Pending(stm) = text /\ <<>> \o text = text
    BY <2>1, <2>2, <2>4, PendingIs, TextEmpty
  <2>6. InOrder
    BY <1>2, <1>5, <2>3, <2>4, <2>5 DEF InOrder
  <2> QED BY <1>0, <1>2, <1>5, <2>1, <2>4, <2>6 DEF StreamInv, TypeOK, Sound
<1> QED BY <1>1, <1>3, <1>4, <1>5 DEF Init, Inputs

(* A step of a reader: what comes out is taken from what is left.             *)
LEMMA ReaderStep ==
  ASSUME StreamInv, Open,
         Sound(stm'), SameChannel(stm', stm), wrote' = wrote, chars' \in Seq(Codes),
         got' \in Seq(Codes), Written(got') \o Pend(stm') = Written(got) \o Pend(stm)
  PROVE  StreamInv'
<1>1. Sound(stm) /\ wrote \in Text
      /\ (stm.type # "TOFILE" => Written(got) \o Pending(stm) = wrote)
      /\ (stm.type = "TOFILE" /\ ~stm.broken => stm.sink \o Unread(stm.buf) = wrote)
  BY DEF StreamInv, InOrder, TypeOK
<1>2. Pending(stm) = Pend(stm) /\ Pending(stm') = Pend(stm')
  BY <1>1, PendingIs
<1>3. InOrder'
  BY <1>1, <1>2 DEF InOrder, SameChannel
<1>4. TypeOK'
  BY <1>1 DEF TypeOK, Sound
<1> QED BY <1>3, <1>4 DEF StreamInv

(* What comes out behind what came out before.                               *)
LEMMA MoreGot ==
  ASSUME TypeOK, Sound(stm), Sound(stm'), NEW data \in Seq(Codes), got' = got \o data,
         Written(data) \o Pend(stm') = Pend(stm)
  PROVE  got' \in Seq(Codes) /\ Written(got') \o Pend(stm') = Written(got) \o Pend(stm)
<1>1. got \in Seq(Codes) /\ Written(got) \in Text /\ Written(data) \in Text
      /\ Pend(stm') \in Text
  BY WrittenType, PendType DEF TypeOK
<1>2. got' \in Seq(Codes) /\ Written(got') = Written(got) \o Written(data)
  BY <1>1, WrittenConcat, ConcatProperties
<1>3. Written(got) \o (Written(data) \o Pend(stm')) = (Written(got) \o Written(data)) \o Pend(stm')
  BY <1>1, TextAssociative
<1> QED BY <1>2, <1>3

(* stm_read and stm_skip.                                                    *)
LEMMA ReadStep ==
  ASSUME StreamInv, NEW size \in Reads, Read(size)
  PROVE  StreamInv'
<1> DEFINE r == ReadBytes(stm, size)
<1>1. size \in Nat /\ Sound(stm) /\ stm.open /\ TypeOK
  BY StreamAssumption DEF StreamInv, Read, Open
<1>2. stm' = r.s /\ got' = got \o r.data /\ wrote' = wrote /\ chars' = chars
  BY DEF Read
<1>3. /\ Sound(r.s) /\ SameChannel(r.s, stm) /\ r.data \in Seq(Codes)
      /\ Written(r.data) \o Pend(r.s) = Pend(stm)
  BY <1>1, ReadBytesKeeps
<1> HIDE DEF r
<1>4. got' \in Seq(Codes) /\ Written(got') \o Pend(stm') = Written(got) \o Pend(stm)
  BY <1>1, <1>2, <1>3, MoreGot
<1>5. chars' \in Seq(Codes)
  BY <1>1, <1>2 DEF TypeOK
<1> QED BY <1>1, <1>2, <1>3, <1>4, <1>5, ReaderStep DEF Open

(* stm_skip_bom.                                                            *)
LEMMA SkipBomStep ==
  ASSUME StreamInv, SkipBom
  PROVE  StreamInv'
<1> DEFINE t == PastBom(stm)
<1>1. Sound(stm) /\ stm.open /\ TypeOK
  BY DEF StreamInv, SkipBom, Open
<1>2. stm' = t.s /\ got' = got \o t.data /\ chars' = chars \o t.data /\ wrote' = wrote
  BY DEF SkipBom
<1>3. Sound(t.s) /\ SameChannel(t.s, stm) /\ t.data \in Text /\ t.data \o Pend(t.s) = Pend(stm)
  BY <1>1, PastBomKeeps
<1> HIDE DEF t
<1>4. t.data \in Seq(Codes) /\ Written(t.data) = t.data
  BY <1>3, WrittenText
<1>5. got' \in Seq(Codes) /\ Written(got') \o Pend(stm') = Written(got) \o Pend(stm)
  BY <1>1, <1>2, <1>3, <1>4, MoreGot
<1>6. chars' \in Seq(Codes)
  BY <1>1, <1>2, <1>4, ConcatProperties DEF TypeOK
<1> QED BY <1>1, <1>2, <1>3, <1>5, <1>6, ReaderStep DEF Open

(* i_write to memory: the bytes go behind those that are left.                *)
LEMMA WriteMemoryStep ==
  ASSUME StreamInv, NEW bytes \in Chunks, WriteMemory(bytes)
  PROVE  StreamInv'
<1> DEFINE b == Appended(stm.buf, bytes, MEM_CACHE)
<1>1. /\ Sound(stm) /\ stm \in Streams /\ TypeOK /\ InOrder /\ stm.open /\ stm.type = "TOMEMORY"
      /\ stm.buf \in BufferOf(Chars) /\ bytes \in Text /\ MEM_CACHE \in Nat \ {0}
  BY StreamAssumption DEF StreamInv, WriteMemory, WriteOK, Open, Sound, Streams
<1>2. /\ stm' = [stm EXCEPT !.buf = b, !.end = FALSE]
      /\ wrote' = wrote \o bytes /\ got' = got /\ chars' = chars
  BY DEF WriteMemory
<1>3. b \in BufferOf(Chars) /\ Unread(b) = Unread(stm.buf) \o bytes
  BY ZenonT(60), <1>1, AppendedKeeps DEF Text
<1> HIDE DEF b
<1>4. /\ stm' \in Streams /\ stm'.open = stm.open /\ stm'.type = stm.type /\ stm'.buf = b
      /\ stm'.restore = stm.restore /\ stm'.end = FALSE /\ stm'.broken = stm.broken
      /\ stm'.rest = stm.rest /\ stm'.packet = stm.packet
  BY <1>1, <1>2, <1>3 DEF Streams
<1>5. Unread(stm.restore) \in Zeros \/ \E c \in Chars : Unread(stm.restore) = <<c>>
  <2>1. ~stm.corrupt /\ ~stm.broken
    BY DEF WriteMemory, WriteOK
  <2>2. ReadOK(stm) \/ stm.end
    BY <2>1 DEF ReadOK
  <2> QED BY <1>1, <2>2 DEF Sound
<1>6. Sound(stm')
  BY <1>1, <1>4, <1>5 DEF Sound, Inputs, Memory
<1>7. Pend(stm') = Pend(stm) \o bytes
  <2>1. Unread(stm.buf) \in Text /\ Back(stm) \in Text /\ stm.rest = <<>>
    BY <1>1, LeftType, PendType DEF Sound, Inputs
  <2>2. Back(stm') = Back(stm)
    BY <1>4 DEF Back
  <2>3. Left(stm) = Unread(stm.buf)
    BY <2>1, TextEmpty DEF Left
  <2>4. Unread(stm.buf) \o bytes \in Text
    BY <1>1, <2>1, TextConcat
  <2>5. Left(stm') = Unread(stm.buf) \o bytes
    BY <1>3, <1>4, <2>1, <2>4, TextEmpty DEF Left
  <2>6. Back(stm) \o (Unread(stm.buf) \o bytes) = (Back(stm) \o Unread(stm.buf)) \o bytes
    BY <1>1, <2>1, TextAssociative
  <2> QED BY <2>2, <2>3, <2>5, <2>6 DEF Pend
<1>8. got \in Seq(Codes) /\ Written(got) \in Text /\ wrote \in Text /\ Pend(stm) \in Text
  BY <1>1, WrittenType, PendType DEF TypeOK
<1>9. Written(got) \o Pend(stm) = wrote
  BY <1>1, PendingIs DEF InOrder, Open
<1>10. Written(got) \o (Pend(stm) \o bytes) = (Written(got) \o Pend(stm)) \o bytes
  BY <1>1, <1>8, TextAssociative
<1>11. Written(got') \o Pending(stm') = wrote'
  BY <1>2, <1>6, <1>7, <1>9, <1>10, PendingIs
<1>12. InOrder'
  BY <1>1, <1>4, <1>11 DEF InOrder
<1>13. wrote' \in Text
  BY <1>1, <1>2, <1>8, TextConcat
<1> QED BY <1>1, <1>2, <1>4, <1>6, <1>12, <1>13 DEF StreamInv, TypeOK

(* A step that writes a file.                                                *)
LEMMA WriterStep ==
  ASSUME StreamInv, stm.type = "TOFILE", Sound(stm'), stm'.type = "TOFILE", wrote' \in Text,
         got' = got, chars' = chars,
         ~stm'.broken => stm'.sink \o Unread(stm'.buf) = wrote'
  PROVE  StreamInv'
<1>1. InOrder'
  BY DEF InOrder
<1>2. TypeOK'
  BY DEF TypeOK, StreamInv, Sound
<1> QED BY <1>1, <1>2 DEF StreamInv

(* i_write to a file: what was in the buffer goes to the file before it.       *)
LEMMA WriteFileStep ==
  ASSUME StreamInv, NEW bytes \in Chunks, WriteFile(bytes)
  PROVE  StreamInv'
<1> DEFINE u == Unread(stm.buf)
<1>1. /\ Sound(stm) /\ stm \in Streams /\ TypeOK /\ InOrder /\ stm.open /\ stm.type = "TOFILE"
      /\ bytes \in Text /\ Len(bytes) \in Nat
      /\ wrote' = wrote \o bytes /\ got' = got /\ chars' = chars
  <2>1. bytes \in Text
    BY StreamAssumption
  <2>2. Len(bytes) \in Nat
    BY <2>1 DEF Text
  <2> QED BY <2>1, <2>2 DEF StreamInv, WriteFile, WriteOK, Open, Sound
<1>2. /\ stm.buf.data \in Text /\ Len(stm.buf.data) \in Nat /\ stm.sink \in Text
      /\ wrote \in Text /\ wrote' \in Text
  <2>1. stm.buf.data \in Text /\ stm.sink \in Text
    BY <1>1 DEF Streams, BufferOf, Text
  <2> QED BY <1>1, <2>1, TextConcat DEF TypeOK, Text
<1>3. u = stm.buf.data
  <2>1. SubSeq(stm.buf.data, 0 + 1, Len(stm.buf.data)) = stm.buf.data
    BY <1>2, SubSeqFull DEF Text
  <2>2. stm.buf.roffset = 0
    BY <1>1 DEF Sound
  <2> QED BY <2>1, <2>2 DEF Unread
<1> HIDE DEF u
<1>4. ~stm.broken => stm.sink \o stm.buf.data = wrote
  BY <1>1, <1>3 DEF InOrder, u
<1>5. stm.sink \o (stm.buf.data \o bytes) = (stm.sink \o stm.buf.data) \o bytes
  <2>1. stm.sink \in Text /\ stm.buf.data \in Text /\ bytes \in Text
    BY <1>1, <1>2
  <2> QED BY <2>1, TextAssociative
<1>6. CASE Len(stm.buf.data) + Len(bytes) <= stm.buf.size
  <2> DEFINE d == stm.buf.data \o bytes
  <2>1. d \in Text /\ Len(d) <= stm.buf.size
    <3>1. d \in Text /\ Len(d) = Len(stm.buf.data) + Len(bytes)
      BY <1>1, <1>2, ConcatProperties DEF Text
    <3> QED BY <1>6, <3>1
  <2>2. stm' = [stm EXCEPT !.buf.data = d, !.end = FALSE]
    BY <1>6 DEF WriteFile
  <2> HIDE DEF d
  <2>3. Loaded(stm', stm, d)
    BY <1>1, <2>1, <2>2, LoadedKeeps
  <2>4. Sound(stm') /\ stm'.type = "TOFILE"
        /\ (~stm'.broken => stm'.sink \o Unread(stm'.buf) = wrote')
    BY <1>1, <1>4, <1>5, <2>3 DEF Loaded, d
  <2> QED BY <1>1, <1>2, <2>4, WriterStep
<1>7. CASE ~(Len(stm.buf.data) + Len(bytes) <= stm.buf.size)
  <2>1. PICK flushed \in ChannelWrite(stm, stm.buf.data) :
          IF Len(bytes) <= stm.buf.size
          THEN stm' = [flushed EXCEPT !.buf.data = bytes, !.end = FALSE]
          ELSE \E direct \in ChannelWrite(flushed, bytes) :
                 stm' = [direct EXCEPT !.buf.data = <<>>, !.end = FALSE]
    BY <1>7 DEF WriteFile
  <2>2. /\ Sound(flushed) /\ flushed.type = "TOFILE" /\ flushed.buf = stm.buf
        /\ ~flushed.broken => ~stm.broken /\ flushed.sink = stm.sink \o stm.buf.data
    BY <1>1, <1>2, ChannelWriteKeeps
  <2>3. CASE Len(bytes) <= stm.buf.size
    <3>1. Loaded(stm', flushed, bytes)
      BY ZenonT(60), <1>1, <2>1, <2>2, <2>3, LoadedKeeps
    <3>2. Sound(stm') /\ stm'.type = "TOFILE"
          /\ (~stm'.broken => stm'.sink \o Unread(stm'.buf) = wrote')
      BY <1>1, <1>4, <2>2, <3>1 DEF Loaded
    <3> QED BY <1>1, <1>2, <3>2, WriterStep
  <2>4. CASE ~(Len(bytes) <= stm.buf.size)
    <3>1. PICK direct \in ChannelWrite(flushed, bytes) :
            stm' = [direct EXCEPT !.buf.data = <<>>, !.end = FALSE]
      BY <2>1, <2>4
    <3>2. /\ Sound(direct) /\ direct.type = "TOFILE" /\ direct.buf = flushed.buf
          /\ ~direct.broken => ~flushed.broken /\ direct.sink = flushed.sink \o bytes
      BY <1>1, <2>2, ChannelWriteKeeps
    <3>3. <<>> \in Text /\ Len(<<>>) <= direct.buf.size
      <4>1. direct.buf.size \in Nat
        BY <3>2 DEF Sound, Streams, BufferOf
      <4> QED BY <4>1, EmptySeq DEF Text
    <3>4. Loaded(stm', direct, <<>>)
      BY <3>1, <3>2, <3>3, LoadedKeeps
    <3>5. wrote' \o <<>> = wrote'
      BY <1>2, TextEmpty
    <3>6. Sound(stm') /\ stm'.type = "TOFILE"
          /\ (~stm'.broken => stm'.sink \o Unread(stm'.buf) = wrote')
      BY <1>1, <1>4, <2>2, <3>2, <3>4, <3>5 DEF Loaded
    <3> QED BY <1>1, <1>2, <3>6, WriterStep
  <2> QED BY <2>3, <2>4
<1> QED BY <1>6, <1>7

(* A step that leaves the contents alone keeps their order.                 *)
LEMMA SameContents ==
  ASSUME NEW s, NEW t, t.buf = s.buf, t.restore = s.restore, t.rest = s.rest
  PROVE  Back(t) = Back(s) /\ Left(t) = Left(s) /\ Pending(t) = Pending(s)
<1>1. Back(t) = Back(s) /\ Left(t) = Left(s)
  BY DEF Back, Left
<1>2. Pending(t) = Pending(s)
  BY Zenon DEF Pending
<1> QED BY <1>1, <1>2

(* i_write to an input and stm_corrupt.                                      *)
LEMMA CorruptStep ==
  ASSUME StreamInv, stm' = [stm EXCEPT !.corrupt = TRUE], UNCHANGED <<wrote, got, chars>>
  PROVE  StreamInv'
<1>1. Sound(stm) /\ stm \in Streams /\ TypeOK /\ InOrder
  BY DEF StreamInv, Sound
<1>2. /\ stm' \in Streams /\ stm'.open = stm.open /\ stm'.type = stm.type /\ stm'.buf = stm.buf
      /\ stm'.restore = stm.restore /\ stm'.end = stm.end /\ stm'.broken = stm.broken
      /\ stm'.rest = stm.rest /\ stm'.packet = stm.packet /\ stm'.sink = stm.sink
      /\ stm'.corrupt = TRUE
  BY <1>1 DEF Streams
<1>3. Back(stm') = Back(stm) /\ Left(stm') = Left(stm) /\ Pending(stm') = Pending(stm)
  BY <1>2, SameContents
<1>4. (ReadOK(stm') => ReadOK(stm)) /\ Sound(stm')
  BY <1>1, <1>2, <1>3 DEF Sound, ReadOK
<1> QED BY <1>1, <1>2, <1>3, <1>4 DEF StreamInv, TypeOK, InOrder, Open

(* stm_flush.                                                               *)
LEMMA FlushStep ==
  ASSUME StreamInv, Flush
  PROVE  StreamInv'
<1>1. Sound(stm) /\ TypeOK /\ InOrder /\ stm' \in Flushed(stm) /\ wrote' = wrote
      /\ got' = got /\ chars' = chars
  BY DEF StreamInv, Flush
<1>2. CASE stm.type # "TOFILE"
  <2>1. stm' = stm
    BY <1>1, <1>2 DEF Flushed
  <2> QED BY <1>1, <2>1 DEF StreamInv, TypeOK, InOrder, Open
<1>3. CASE stm.type = "TOFILE"
  <2>1. /\ Sound(stm') /\ stm'.type = "TOFILE"
        /\ ~stm'.broken => ~stm.broken /\ stm'.sink \o Unread(stm'.buf) = stm.sink \o Unread(stm.buf)
    BY <1>1, <1>3, FlushedKeeps
  <2>2. wrote' \in Text /\ (~stm'.broken => stm'.sink \o Unread(stm'.buf) = wrote')
    BY <1>1, <1>3, <2>1 DEF TypeOK, InOrder
  <2> QED BY <1>1, <1>3, <2>1, <2>2, WriterStep
<1> QED BY <1>2, <1>3

(* stm_close: a file that is not broken has all that was written.             *)
LEMMA CloseStep ==
  ASSUME StreamInv, Close
  PROVE  StreamInv'
<1>1. Sound(stm) /\ TypeOK /\ InOrder /\ wrote' = wrote /\ got' = got /\ chars' = chars
  BY DEF StreamInv, Close
<1>2. PICK f \in Flushed(stm) :
        stm' = [f EXCEPT !.open = FALSE, !.buf = Buffer(0), !.restore = Buffer(0)]
  BY DEF Close
<1>3. Sound(f) /\ f.type = stm.type
  <2>1. CASE stm.type # "TOFILE"
    BY <1>1, <2>1 DEF Flushed
  <2>2. CASE stm.type = "TOFILE"
    BY <1>1, <2>2, FlushedKeeps
  <2> QED BY <2>1, <2>2
<1> DEFINE b == Buffer(0)
<1>4. b \in BufferOf(Chars) /\ b \in BufferOf(Codes) /\ Unread(b) = <<>> /\ b.roffset = 0
  BY EmptyBuffer DEF Buffer
<1> HIDE DEF b
<1>5. stm' = [f EXCEPT !.open = FALSE, !.buf = b, !.restore = b]
  BY <1>2 DEF b
<1>6. /\ stm' \in Streams /\ stm'.open = FALSE /\ stm'.type = f.type /\ stm'.buf = b
      /\ stm'.restore = b /\ stm'.end = f.end /\ stm'.broken = f.broken
      /\ stm'.rest = f.rest /\ stm'.packet = f.packet /\ stm'.sink = f.sink
  BY <1>3, <1>4, <1>5 DEF Sound, Streams
<1>7. <<>> \in Zeros
  BY ZerosAre
<1>8. Sound(stm')
  BY <1>3, <1>4, <1>6, <1>7 DEF Sound
<1>9. stm'.type = "TOFILE" /\ ~stm'.broken => stm'.sink \o Unread(stm'.buf) = wrote'
  <2> SUFFICES ASSUME stm.type = "TOFILE", ~f.broken PROVE f.sink \o <<>> = wrote
    BY <1>1, <1>3, <1>4, <1>6
  <2>1. PICK w \in ChannelWrite(stm, stm.buf.data) : f = [w EXCEPT !.buf.data = <<>>]
    BY <1>2 DEF Flushed
  <2>2. f.sink \o Unread(f.buf) = wrote
    BY <1>1, FlushedKeeps DEF InOrder
  <2>3. f.buf.data = <<>> /\ f.buf.roffset = 0 /\ f.sink \in Text
    <3>1. stm.buf.data \in Text
      BY <1>1 DEF Sound, Streams, BufferOf, Text
    <3>2. Sound(w)
      BY <1>1, <2>1, <3>1, ChannelWriteKeeps
    <3>3. w.buf \in [data : Seq(Chars), roffset : Nat, size : Nat] /\ w \in Streams
      BY <3>2 DEF Sound, Streams, BufferOf
    <3>4. f.buf = [w.buf EXCEPT !.data = <<>>]
      BY <2>1, <3>3 DEF Streams
    <3> QED BY <1>3, <3>3, <3>4 DEF Sound, Streams
  <2>4. Unread(f.buf) = <<>>
    <3>1. SubSeq(<<>>, 0 + 1, Len(<<>>)) = <<>>
      BY SubSeqEmpty, EmptySeq
    <3> QED BY <2>3, <3>1 DEF Unread
  <2> QED BY <2>2, <2>4
<1>10. InOrder'
  BY <1>6, <1>9 DEF InOrder, Open
<1> QED BY <1>1, <1>6, <1>8, <1>10 DEF StreamInv, TypeOK

(* The file can no more be read.                                             *)
LEMMA ChannelFailsStep ==
  ASSUME StreamInv, ChannelFails
  PROVE  StreamInv'
<1>1. Sound(stm) /\ stm \in Streams /\ TypeOK /\ InOrder /\ stm' = [stm EXCEPT !.packet = 0]
      /\ wrote' = wrote /\ got' = got /\ chars' = chars
  BY DEF StreamInv, Sound, ChannelFails
<1>2. /\ stm' \in Streams /\ stm'.open = stm.open /\ stm'.type = stm.type /\ stm'.buf = stm.buf
      /\ stm'.restore = stm.restore /\ stm'.end = stm.end /\ stm'.broken = stm.broken
      /\ stm'.rest = stm.rest /\ stm'.packet = 0 /\ stm'.sink = stm.sink
      /\ stm'.corrupt = stm.corrupt
  BY <1>1 DEF Streams
<1>3. Back(stm') = Back(stm) /\ Left(stm') = Left(stm) /\ Pending(stm') = Pending(stm)
  BY <1>2, SameContents
<1>4. (ReadOK(stm') => ReadOK(stm)) /\ Sound(stm')
  BY <1>1, <1>2, <1>3 DEF Sound, ReadOK
<1> QED BY <1>1, <1>2, <1>3, <1>4 DEF StreamInv, TypeOK, InOrder, Open

(* Every call keeps the invariant.                                           *)
THEOREM StreamKeeps == StreamInv /\ Next => StreamInv'
<1> SUFFICES ASSUME StreamInv, Next PROVE StreamInv'
  OBVIOUS
<1>1. ASSUME NEW size \in Reads, Read(size) PROVE StreamInv'
  BY <1>1, ReadStep
<1>2. CASE SkipBom
  BY <1>2, SkipBomStep
<1>3. ASSUME NEW bytes \in Chunks, WriteMemory(bytes) PROVE StreamInv'
  BY <1>3, WriteMemoryStep
<1>4. ASSUME NEW bytes \in Chunks, WriteFile(bytes) PROVE StreamInv'
  BY <1>4, WriteFileStep
<1>5. CASE WriteInput
  BY <1>5, CorruptStep DEF WriteInput
<1>6. CASE Flush
  BY <1>6, FlushStep
<1>7. CASE Close
  BY <1>7, CloseStep
<1>8. CASE Corrupt
  BY <1>8, CorruptStep DEF Corrupt
<1>9. CASE ChannelFails
  BY <1>9, ChannelFailsStep
<1> QED BY <1>1, <1>2, <1>3, <1>4, <1>5, <1>6, <1>7, <1>8, <1>9 DEF Next

(* What a call does to the position: only stm_skip_bom moves it, by a column   *)
(* for each mark.                                                            *)
Along(d) ==
  /\ d \in Seq(Codes) /\ chars' = chars \o d
  /\ \E marks : Taken(d, marks, stm, stm')

(* A call that reads no character.                                          *)
LEMMA Still ==
  ASSUME TypeOK, chars' = chars, stm'.col = stm.col, stm'.row = stm.row
  PROVE  Along(<<>>)
<1>1. <<>> \in Seq(Codes) /\ <<>> \in Seq({BOM}) /\ Len(<<>>) = 0 /\ <<>> \in Text
  BY EmptySeq DEF Text
<1>2. chars \o <<>> = chars
  BY ConcatEmptySeq DEF TypeOK
<1>3. stm.col \in Nat
  BY DEF TypeOK, Streams
<1>4. stm.col + 0 = stm.col
  BY <1>3
<1>5. Taken(<<>>, <<>>, stm, stm')
  BY <1>1, <1>4 DEF Taken
<1> QED BY <1>1, <1>2, <1>5 DEF Along

(* A call moves the position only by the marks it skips.                    *)
LEMMA CallMoves ==
  ASSUME StreamInv, Next
  PROVE  \E d : Along(d)
<1>1. Sound(stm) /\ TypeOK /\ stm \in Streams
  BY DEF StreamInv, Sound
<1>2. CASE SkipBom
  <2>1. stm.open /\ stm' = PastBom(stm).s /\ chars' = chars \o PastBom(stm).data
    BY <1>2 DEF SkipBom, Open
  <2> DEFINE d == PastBom(stm).data
  <2>2. d \in Text /\ \E marks : Taken(d, marks, stm, stm')
    BY <1>1, <2>1, PastBomKeeps
  <2> HIDE DEF d
  <2>3. d \in Seq(Codes)
    BY <2>2, WrittenText
  <2>4. Along(d)
    BY <2>1, <2>2, <2>3 DEF Along, d
  <2> QED BY <2>4
<1>3. CASE ~SkipBom
  <2> SUFFICES stm'.col = stm.col /\ stm'.row = stm.row /\ chars' = chars
    BY <1>1, Still
  <2>1. ASSUME NEW size \in Reads, Read(size)
        PROVE  stm'.col = stm.col /\ stm'.row = stm.row /\ chars' = chars
    <3>1. size \in Nat /\ stm.open /\ stm' = ReadBytes(stm, size).s /\ chars' = chars
      BY <2>1, StreamAssumption DEF Read, Open
    <3> QED BY <1>1, <3>1, ReadBytesKeeps
  <2>2. ASSUME NEW bytes \in Chunks, WriteMemory(bytes)
        PROVE  stm'.col = stm.col /\ stm'.row = stm.row /\ chars' = chars
    <3>1. stm' = [stm EXCEPT !.buf = Appended(stm.buf, bytes, MEM_CACHE), !.end = FALSE]
          /\ chars' = chars
      BY <2>2 DEF WriteMemory
    <3> QED BY <1>1, <3>1 DEF Streams
  <2>3. ASSUME NEW bytes \in Chunks, WriteFile(bytes)
        PROVE  stm'.col = stm.col /\ stm'.row = stm.row /\ chars' = chars
    <3>1. /\ stm.type = "TOFILE" /\ bytes \in Text /\ chars' = chars
          /\ stm.buf.data \in Text /\ stm.buf \in BufferOf(Chars)
      BY <1>1, <2>3, StreamAssumption DEF WriteFile, Streams, BufferOf, Text
    <3>2. CASE Len(stm.buf.data) + Len(bytes) <= stm.buf.size
      <4>1. stm' = [stm EXCEPT !.buf.data = stm.buf.data \o bytes, !.end = FALSE]
        BY <2>3, <3>2 DEF WriteFile
      <4> QED BY <1>1, <3>1, <4>1 DEF Streams
    <3>3. CASE ~(Len(stm.buf.data) + Len(bytes) <= stm.buf.size)
      <4>1. PICK flushed \in ChannelWrite(stm, stm.buf.data) :
              IF Len(bytes) <= stm.buf.size
              THEN stm' = [flushed EXCEPT !.buf.data = bytes, !.end = FALSE]
              ELSE \E direct \in ChannelWrite(flushed, bytes) :
                     stm' = [direct EXCEPT !.buf.data = <<>>, !.end = FALSE]
        BY <2>3, <3>3 DEF WriteFile
      <4>2. /\ Sound(flushed) /\ flushed.type = "TOFILE" /\ flushed \in Streams
            /\ flushed.col = stm.col /\ flushed.row = stm.row
        <5>1. /\ Sound(flushed) /\ flushed.type = "TOFILE"
              /\ flushed.col = stm.col /\ flushed.row = stm.row
          BY <1>1, <3>1, ChannelWriteKeeps
        <5> QED BY <5>1 DEF Sound
      <4>3. CASE Len(bytes) <= stm.buf.size
        BY <3>1, <4>1, <4>2, <4>3 DEF Streams
      <4>4. CASE ~(Len(bytes) <= stm.buf.size)
        <5>1. PICK direct \in ChannelWrite(flushed, bytes) :
                stm' = [direct EXCEPT !.buf.data = <<>>, !.end = FALSE]
          BY <4>1, <4>4
        <5>2. direct \in Streams /\ direct.col = flushed.col /\ direct.row = flushed.row
          BY <3>1, <4>2, ChannelWriteKeeps DEF Sound
        <5> QED BY <3>1, <4>2, <5>1, <5>2 DEF Streams
      <4> QED BY <4>3, <4>4
    <3> QED BY <3>2, <3>3
  <2>4. CASE WriteInput \/ Corrupt \/ ChannelFails
    <3>1. (stm' = [stm EXCEPT !.corrupt = TRUE] \/ stm' = [stm EXCEPT !.packet = 0])
          /\ chars' = chars
      BY <2>4 DEF WriteInput, Corrupt, ChannelFails
    <3> QED BY <1>1, <3>1 DEF Streams
  <2>5. ASSUME NEW f \in Flushed(stm)
        PROVE  f \in Streams /\ f.col = stm.col /\ f.row = stm.row
    <3>1. CASE stm.type # "TOFILE"
      BY <1>1, <2>5, <3>1 DEF Flushed
    <3>2. CASE stm.type = "TOFILE"
      BY <1>1, <2>5, <3>2, FlushedKeeps DEF Sound
    <3> QED BY <3>1, <3>2
  <2>6. CASE Flush
    BY <2>5, <2>6 DEF Flush
  <2>7. CASE Close
    <3>1. chars' = chars
          /\ \E f \in Flushed(stm) :
               stm' = [f EXCEPT !.open = FALSE, !.buf = Buffer(0), !.restore = Buffer(0)]
      BY <2>7 DEF Close
    <3> QED BY <2>5, <3>1 DEF Streams
  <2> QED BY <1>3, <2>1, <2>2, <2>3, <2>4, <2>6, <2>7 DEF Next
<1> QED BY <1>2, <1>3
=============================================================================
