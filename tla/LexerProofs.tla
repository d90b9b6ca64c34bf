----------------------------- MODULE LexerProofs ------------------------------
(***************************************************************************)
(* The scanner over a stream, for all texts and all sizes of buffers: the     *)
(* position is that of the characters that were read, and a token is what was *)
(* read for it, has the shape of its kind and could not be longer.           *)
(***************************************************************************)
EXTENDS Lexer, StreamProofs, FiniteSetTheorems

(* What was read: the beginning of a longer sequence.                        *)
LEMMA Beginning ==
  ASSUME NEW S, NEW s \in Seq(S), NEW t \in Seq(S), NEW m \in 0 .. Len(s)
  PROVE  /\ SubSeq(s \o t, 1, m) = SubSeq(s, 1, m)
         /\ SubSeq(s, 1, m) \in Seq(S) /\ Len(SubSeq(s, 1, m)) = m
<1>1. Len(s) \in Nat /\ m \in Nat
  OBVIOUS
<1>2. SubSeq(s, 1, m) \in Seq(S) /\ Len(SubSeq(s, 1, m)) = m
  BY Split
<1>3. CASE m = 0
  BY <1>1, <1>2, <1>3, SubSeqEmpty
<1>4. CASE m # 0
  <2>1. 1 \in 1 .. Len(s) /\ m \in 1 .. Len(s)
    BY <1>1, <1>4
  <2> QED BY <1>2, <2>1, SubSeqOfConcat1
<1> QED BY <1>2, <1>3, <1>4

(* What is behind h in h \o l.                                               *)
LEMMA Rest ==
  ASSUME NEW S, NEW h \in Seq(S), NEW l \in Seq(S)
  PROVE  /\ SubSeq(h \o l, Len(h) + 1, Len(h \o l)) = l
         /\ SubSeq(h \o l, 1, Len(h)) = h
         /\ Len(h \o l) = Len(h) + Len(l)
<1>1. Len(h) \in 0 .. Len(h) /\ Len(h) + 1 > Len(h) /\ Len(h) \in Nat
  OBVIOUS
<1>2. SubSeq(h \o l, Len(h) + 1, Len(h \o l)) = SubSeq(h, Len(h) + 1, Len(h)) \o l
  BY <1>1, BehindLonger
<1>3. SubSeq(h, Len(h) + 1, Len(h)) = <<>>
  BY <1>1, SubSeqEmpty
<1>4. <<>> \o l = l
  BY ConcatEmptySeq
<1>5. SubSeq(h \o l, 1, Len(h)) = h
  BY <1>1, Beginning, SubSeqFull
<1> QED BY <1>2, <1>3, <1>4, <1>5, ConcatProperties

(* Adding a character and taking it off again.                               *)
LEMMA Added ==
  ASSUME NEW S, NEW s \in Seq(S), NEW c \in S
  PROVE  /\ Append(s, c) \in Seq(S) /\ Append(s, c) = s \o <<c>>
         /\ Len(Append(s, c)) = Len(s) + 1 /\ Append(s, c) # <<>>
         /\ Front(Append(s, c)) = s /\ Last(Append(s, c)) = c
         /\ \A i \in 1 .. Len(s) : Append(s, c)[i] = s[i]
         /\ Append(s, c)[Len(s) + 1] = c
<1>1. /\ Append(s, c) \in Seq(S) /\ Append(s, c) = s \o <<c>> /\ Append(s, c) # <<>>
      /\ Len(Append(s, c)) = Len(s) + 1 /\ Append(s, c)[Len(s) + 1] = c
      /\ \A i \in 1 .. Len(s) : Append(s, c)[i] = s[i]
      /\ Len(s) \in Nat /\ <<c>> \in Seq(S)
  BY AppendProperties, AppendIsConcat
<1>2. Front(Append(s, c)) = s
  <2>1. SubSeq(s \o <<c>>, 1, Len(s)) = s
    BY <1>1, Rest
  <2>2. Len(Append(s, c)) - 1 = Len(s)
    BY <1>1
  <2> QED BY <1>1, <2>1, <2>2, Zenon DEF Front
<1>3. Last(Append(s, c)) = c
  BY <1>1 DEF Last
<1> QED BY <1>1, <1>2, <1>3

(* A sequence that is not empty is its front and its last element.            *)
LEMMA FrontLast ==
  ASSUME NEW S, NEW s \in Seq(S), s # <<>>
  PROVE  /\ Front(s) \in Seq(S) /\ Last(s) \in S /\ s = Append(Front(s), Last(s))
         /\ s = Front(s) \o <<Last(s)>>
<1>1. PICK t \in Seq(S), c \in S : s = Append(t, c)
  BY SequenceEmptyOrAppend
<1>2. Front(s) = t /\ Last(s) = c /\ s = t \o <<c>>
  BY <1>1, Added
<1> QED BY <1>1, <1>2

-----------------------------------------------------------------------------
(* Positions                                                                *)

Ends(text) == {i \in DOMAIN text : text[i] = NL}
Line(text) == {i \in DOMAIN text : text[i] # BAD /\ \A j \in i .. Len(text) : text[j] # NL}

(* PositionAfter by its two counts.                                         *)
LEMMA PositionIs ==
  ASSUME NEW text
  PROVE  PositionAfter(text) = <<Cardinality(Line(text)) + 1, Cardinality(Ends(text)) + 1>>
BY Zenon DEF PositionAfter, Ends, Line

(* The counts of a text are those of finite sets.                           *)
LEMMA Counted ==
  ASSUME NEW S, NEW text \in Seq(S)
  PROVE  /\ IsFiniteSet(Ends(text)) /\ IsFiniteSet(Line(text))
         /\ Cardinality(Ends(text)) \in Nat /\ Cardinality(Line(text)) \in Nat
         /\ Ends(text) \subseteq 1 .. Len(text) /\ Line(text) \subseteq 1 .. Len(text)
<1>1. DOMAIN text = 1 .. Len(text) /\ Len(text) \in Nat
  BY LenProperties
<1>2. Ends(text) \in SUBSET (1 .. Len(text)) /\ Line(text) \in SUBSET (1 .. Len(text))
  BY <1>1 DEF Ends, Line
<1>3. IsFiniteSet(1 .. Len(text))
  BY <1>1, FS_Interval
<1>4. IsFiniteSet(Ends(text)) /\ IsFiniteSet(Line(text))
  BY <1>2, <1>3, FS_Subset
<1> QED BY <1>2, <1>4, FS_CardinalityType

(* A position is a column and a row.                                        *)
LEMMA PositionType ==
  ASSUME NEW S, NEW text \in Seq(S)
  PROVE  PositionAfter(text) \in (Nat \ {0}) \X (Nat \ {0})
<1> DEFINE i == Cardinality(Line(text))
           j == Cardinality(Ends(text))
<1>1. i \in Nat /\ j \in Nat
  BY Counted
<1>2. PositionAfter(text) = <<i + 1, j + 1>>
  BY PositionIs
<1> HIDE DEF i, j
<1> QED BY <1>1, <1>2

(* The position before the first character.                                 *)
LEMMA PositionStart == PositionAfter(<<>>) = <<1, 1>>
<1>1. DOMAIN <<>> = {} /\ Len(<<>>) = 0
  OBVIOUS
<1>2. Ends(<<>>) = {} /\ Line(<<>>) = {}
  BY <1>1 DEF Ends, Line
<1>3. Cardinality(Ends(<<>>)) = 0 /\ Cardinality(Line(<<>>)) = 0
  BY <1>2, FS_EmptySet
<1> QED BY <1>3, PositionIs

(* The position behind one more character.                                   *)
LEMMA PositionStep ==
  ASSUME NEW S, NEW text \in Seq(S), NEW c \in S, NEW col, NEW row,
         PositionAfter(text) = <<col, row>>
  PROVE  PositionAfter(Append(text, c)) = Stepped(col, row, c)
<1> DEFINE next == Append(text, c)
           n == Len(text) + 1
<1>1. /\ next \in Seq(S) /\ Len(next) = n /\ next[n] = c
      /\ \A i \in 1 .. Len(text) : next[i] = text[i]
      /\ Len(text) \in Nat /\ n \in Nat
      /\ DOMAIN next = 1 .. n /\ DOMAIN text = 1 .. Len(text)
  BY Added, LenProperties
<1>2. BAD # NL
  BY DEF BAD, NL
<1>3. /\ IsFiniteSet(Ends(text)) /\ IsFiniteSet(Line(text))
      /\ Cardinality(Ends(text)) \in Nat /\ Cardinality(Line(text)) \in Nat
      /\ n \notin Ends(text) /\ n \notin Line(text)
  BY <1>1, Counted
<1> HIDE DEF next
<1>4. Ends(next) = IF c = NL THEN Ends(text) \cup {n} ELSE Ends(text)
  BY <1>1 DEF Ends
<1>5. Line(next) = IF c = NL THEN {} ELSE IF c = BAD THEN Line(text) ELSE Line(text) \cup {n}
  <2>1. CASE c = NL
    <3>1. ASSUME NEW i \in Line(next) PROVE FALSE
      BY <1>1, <2>1 DEF Line
    <3> QED BY <2>1, <3>1
  <2>2. CASE c # NL
    <3>1. ASSUME NEW i \in 1 .. Len(text) PROVE i \in Line(next) <=> i \in Line(text)
      <4>1. \A j \in i .. n : j = n \/ j \in i .. Len(text)
        BY <1>1
      <4>2. (\A j \in i .. n : next[j] # NL) <=> (\A j \in i .. Len(text) : text[j] # NL)
        BY SMTT(30), <1>1, <2>2, <4>1
      <4> QED BY <1>1, <4>2 DEF Line
    <3>2. n \in Line(next) <=> c # BAD
      BY <1>1, <2>2 DEF Line
    <3>3. Line(next) \subseteq 1 .. n /\ Line(text) \subseteq 1 .. Len(text)
      BY <1>1 DEF Line
    <3>4. \A i \in 1 .. n : i = n \/ i \in 1 .. Len(text)
      BY <1>1
    <3>5. n \notin 1 .. Len(text)
      BY <1>1
    <3>6. Line(text) \subseteq 1 .. n
      BY <1>1, <3>3
    <3>7. CASE c = BAD
      <4>1. ASSUME NEW i \in 1 .. n PROVE i \in Line(next) <=> i \in Line(text)
        BY <1>3, <3>1, <3>2, <3>4, <3>7
      <4> QED BY <1>2, <3>3, <3>6, <3>7, <4>1
    <3>8. CASE c # BAD
      <4>1. ASSUME NEW i \in 1 .. n PROVE i \in Line(next) <=> i \in Line(text) \cup {n}
        BY <1>3, <3>1, <3>2, <3>4, <3>8
      <4>2. n \in 1 .. n
        BY <1>1
      <4>3. Line(next) = Line(text) \cup {n}
        BY <3>3, <3>6, <4>1, <4>2
      <4> QED BY <2>2, <3>8, <4>3
    <3> QED BY <3>7, <3>8
  <2> QED BY <2>1, <2>2
<1>6. Cardinality(Ends(next)) = IF c = NL THEN Cardinality(Ends(text)) + 1
                                ELSE Cardinality(Ends(text))
  BY <1>3, <1>4, FS_AddElement
<1>7. Cardinality(Line(next)) = IF c = NL THEN 0 ELSE IF c = BAD THEN Cardinality(Line(text))
                                ELSE Cardinality(Line(text)) + 1
  BY SMTT(30), <1>2, <1>3, <1>5, FS_AddElement, FS_EmptySet
<1>8. col = Cardinality(Line(text)) + 1 /\ row = Cardinality(Ends(text)) + 1
  BY PositionIs
<1>9. PositionAfter(next) = <<Cardinality(Line(next)) + 1, Cardinality(Ends(next)) + 1>>
  BY PositionIs
<1> HIDE DEF n
<1> QED BY <1>2, <1>3, <1>6, <1>7, <1>8, <1>9 DEF Stepped, next

(* The position behind marks, each a column.                                 *)
LEMMA PositionOfMarks ==
  ASSUME NEW S, NEW text \in Seq(S), NEW data \in Seq(S), data \in Seq({BOM}),
         NEW col \in Nat, NEW row, PositionAfter(text) = <<col, row>>
  PROVE  PositionAfter(text \o data) = <<col + Len(data), row>>
<1> DEFINE next == text \o data
           m == Len(text)
           n == Len(text) + Len(data)
           new == m + 1 .. n
<1>1. /\ next \in Seq(S) /\ Len(next) = n /\ m \in Nat /\ n \in Nat /\ Len(data) \in Nat
      /\ DOMAIN next = 1 .. n /\ DOMAIN text = 1 .. m
      /\ \A i \in 1 .. m : next[i] = text[i]
      /\ \A i \in new : next[i] = data[i - m]
  <2>1. next \in Seq(S) /\ Len(next) = n
        /\ \A i \in 1 .. n : next[i] = IF i <= m THEN text[i] ELSE data[i - m]
    BY ConcatProperties
  <2>2. m \in Nat /\ Len(data) \in Nat /\ n \in Nat
    OBVIOUS
  <2> HIDE DEF next
  <2>3. DOMAIN next = 1 .. n /\ DOMAIN text = 1 .. m
    BY <2>1, LenProperties
  <2> QED BY <2>1, <2>2, <2>3
<1>2. \A i \in new : next[i] = BOM
  <2>1. ASSUME NEW i \in new PROVE data[i - m] \in {BOM}
    <3>1. i - m \in 1 .. Len(data)
      BY <1>1
    <3> QED BY <3>1, ElementOfSeq
  <2> QED BY <1>1, <2>1
<1>3. BOM # NL /\ BOM # BAD
  BY DEF BOM, NL, BAD
<1>4. /\ IsFiniteSet(Ends(text)) /\ IsFiniteSet(Line(text))
      /\ Cardinality(Ends(text)) \in Nat /\ Cardinality(Line(text)) \in Nat
      /\ Ends(text) \subseteq 1 .. m /\ Line(text) \subseteq 1 .. m
  BY Counted
<1> HIDE DEF next
<1>5. \A i \in 1 .. n : i \in 1 .. m \/ i \in new
  BY <1>1
<1>6. Ends(next) = Ends(text)
  <2>1. ASSUME NEW i \in 1 .. n PROVE i \in Ends(next) <=> i \in Ends(text)
    BY <1>1, <1>2, <1>3, <1>5 DEF Ends
  <2>2. Ends(next) \subseteq 1 .. n /\ Ends(text) \subseteq 1 .. n
    BY <1>1, <1>4 DEF Ends
  <2> QED BY <2>1, <2>2
<1>7. Line(next) = Line(text) \cup new
  <2>1. ASSUME NEW i \in 1 .. m PROVE i \in Line(next) <=> i \in Line(text)
    <3>1. \A j \in i .. n : j \in new \/ j \in i .. m
      BY <1>1
    <3>2. \A j \in i .. m : j \in i .. n /\ j \in 1 .. m
      BY <1>1
    <3>3. (\A j \in i .. n : next[j] # NL) <=> (\A j \in i .. m : text[j] # NL)
      BY <1>1, <1>2, <1>3, <3>1, <3>2
    <3>4. i \in 1 .. n /\ next[i] = text[i]
      BY <1>1
    <3> QED BY <1>1, <3>3, <3>4 DEF Line
  <2>2. ASSUME NEW i \in new PROVE i \in Line(next)
    <3>1. i \in 1 .. n /\ \A j \in i .. n : j \in new
      BY <1>1
    <3> QED BY <1>1, <1>2, <1>3, <3>1 DEF Line
  <2>3. Line(next) \subseteq 1 .. n
    BY <1>1 DEF Line
  <2> QED BY <1>4, <1>5, <2>1, <2>2, <2>3
<1>8. IsFiniteSet(new) /\ Cardinality(new) = Len(data) /\ Line(text) \cap new = {}
  <2>1. m + 1 \in Int /\ n \in Int
    BY <1>1
  <2>2. IsFiniteSet(new) /\ Cardinality(new) = IF m + 1 > n THEN 0 ELSE n - (m + 1) + 1
    BY <2>1, FS_Interval
  <2> QED BY <1>1, <1>4, <2>2
<1>9. Cardinality(Line(next)) = Cardinality(Line(text)) + Len(data)
  <2>1. Cardinality(Line(text) \cup new)
          = Cardinality(Line(text)) + Cardinality(new) - Cardinality(Line(text) \cap new)
    <3> HIDE DEF new
    <3> QED BY <1>4, <1>8, FS_Union
  <2>2. Cardinality(Line(text) \cap new) = 0
    BY <1>8, FS_EmptySet
  <2> HIDE DEF new
  <2> QED BY <1>1, <1>4, <1>7, <1>8, <2>1, <2>2
<1>10. col = Cardinality(Line(text)) + 1 /\ row = Cardinality(Ends(text)) + 1
  BY PositionIs
<1>11. PositionAfter(next) = <<Cardinality(Line(next)) + 1, Cardinality(Ends(next)) + 1>>
  BY PositionIs
<1> QED BY <1>1, <1>4, <1>6, <1>9, <1>10, <1>11 DEF next

-----------------------------------------------------------------------------
(* The invariant.  While a token is scanned, what was read since it began is   *)
(* its lexeme and the character under way, which can be un-read: it came from  *)
(* the stream, and the position before it is known.                          *)

Lexed == SubSeq(chars, 1, mark) \o lexeme

Busy ==
  lex \in States =>
    /\ Open /\ stm.type # "TOFILE" /\ Unread(stm.restore) = <<>>
    /\ code \in Codes /\ (code = NUL <=> ~ReadOK(stm))
    /\ code # NUL => got # <<>> /\ Last(got) = code
    /\ chars = Append(Lexed, code)
    /\ code # BAD => <<pcol, prow>> = PositionAfter(Lexed)

Placed ==
  /\ <<stm.col, stm.row>> = PositionAfter(chars)
  /\ token # "" \/ lex # "idle" => <<tcol, trow>> = PositionAfter(SubSeq(chars, 1, mark))

LexInv == LexTypeOK /\ StreamInv /\ Placed /\ Busy

(* Part of the characters that were read.                                    *)
LEMMA LexedType ==
  ASSUME LexTypeOK
  PROVE  /\ chars \in Seq(Codes) /\ lexeme \in Seq(Codes) /\ mark \in 0 .. Len(chars)
         /\ SubSeq(chars, 1, mark) \in Seq(Codes) /\ Len(SubSeq(chars, 1, mark)) = mark
         /\ Lexed \in Seq(Codes)
<1>1. /\ chars \in Seq(Codes) /\ lexeme \in Seq(Codes) /\ mark \in Nat /\ mark <= Len(chars)
  BY DEF LexTypeOK, TypeOK
<1>2. mark \in 0 .. Len(chars)
  BY <1>1
<1>3. SubSeq(chars, 1, mark) \in Seq(Codes) /\ Len(SubSeq(chars, 1, mark)) = mark
  BY <1>1, <1>2, Split
<1> QED BY <1>1, <1>2, <1>3, ConcatProperties DEF Lexed

(* The first states.                                                        *)
LEMMA LexInitKeeps == LexInit => LexInv
<1> SUFFICES ASSUME LexInit PROVE LexInv
  OBVIOUS
<1>1. StreamInv /\ TypeOK /\ stm.col = 1 /\ stm.row = 1 /\ chars = <<>> /\ Len(<<>>) = 0
  BY InitKeeps DEF LexInit, StreamInv
<1>2. /\ lex = "idle" /\ opts \subseteq Options /\ lexeme = <<>> /\ token = "" /\ mark = 0
      /\ pcol = 0 /\ prow = 0 /\ tcol = 0 /\ trow = 0
  BY DEF LexInit
<1>3. <<>> \in Seq(Codes) /\ 0 \in Nat /\ 0 <= Len(<<>>)
  BY EmptySeq
<1>4. LexTypeOK
  BY <1>1, <1>2, <1>3 DEF LexTypeOK
<1>5. "idle" \notin States
  BY DEF States
<1> QED BY <1>1, <1>2, <1>4, <1>5, PositionStart DEF LexInv, Placed, Busy

(* i_get_char.                                                              *)
Gets ==
  /\ StreamInv' /\ Open' /\ stm'.type # "TOFILE" /\ code' \in Codes
  /\ code' # NUL =>
       /\ ReadOK(stm) /\ ReadOK(stm') /\ Unread(stm'.restore) = <<>>
       /\ got' # <<>> /\ Last(got') = code'
  /\ ReadOK(stm) /\ ~Held(stm) => Unread(stm'.restore) = <<>> /\ (code' = NUL <=> ~ReadOK(stm'))
  /\ ReadOK(stm) => chars' = Append(chars, code')
  /\ ~ReadOK(stm) => chars' = chars /\ code' = NUL /\ ~ReadOK(stm')
  /\ chars' \in Seq(Codes)
  /\ <<stm'.col, stm'.row>> = PositionAfter(chars')
  /\ pcol' \in Nat /\ prow' \in Nat
  /\ code' # BAD => pcol' = stm.col /\ prow' = stm.row
  /\ SameChannel(stm', stm)

(* The next character, and the position before it.                          *)
LEMMA GetCharStep ==
  ASSUME LexTypeOK, StreamInv, Open, stm.type # "TOFILE",
         <<stm.col, stm.row>> = PositionAfter(chars), GetChar
  PROVE  Gets
<1> DEFINE r == ReadChar(stm)
<1>1. /\ Sound(stm) /\ stm.open /\ TypeOK /\ got \in Seq(Codes) /\ chars \in Seq(Codes)
      /\ stm.col \in Nat /\ stm.row \in Nat /\ pcol \in Nat /\ prow \in Nat
  BY DEF StreamInv, Open, TypeOK, Streams, LexTypeOK
<1>2. /\ Sound(r.s) /\ SameChannel(r.s, stm) /\ r.data \in Seq(Codes) /\ r.code \in Codes
      /\ Written(r.data) \o Pend(r.s) = Pend(stm)
      /\ r.chars = IF ReadOK(stm) THEN <<r.code>> ELSE <<>>
      /\ r.code # NUL =>
           /\ ReadOK(stm) /\ ReadOK(r.s) /\ Unread(r.s.restore) = <<>>
           /\ r.data = <<r.code>> /\ r.code \in Chars
      /\ ReadOK(stm) /\ ~Held(stm) =>
           Unread(r.s.restore) = <<>> /\ (r.code = NUL <=> ~ReadOK(r.s))
      /\ <<r.s.col, r.s.row>> = IF ReadOK(stm) THEN Stepped(stm.col, stm.row, r.code)
                                ELSE <<stm.col, stm.row>>
      /\ ~ReadOK(stm) => ~ReadOK(r.s)
  BY <1>1, ReadCharKeeps
<1>3. /\ stm' = r.s /\ code' = r.code /\ got' = got \o r.data /\ chars' = chars \o r.chars
      /\ wrote' = wrote
      /\ IF r.code = BAD THEN pcol' = pcol /\ prow' = prow ELSE pcol' = stm.col /\ prow' = stm.row
  BY DEF GetChar
<1> HIDE DEF r
<1>4. /\ chars' \in Seq(Codes) /\ <<stm'.col, stm'.row>> = PositionAfter(chars')
      /\ ReadOK(stm) => chars' = Append(chars, code')
      /\ ~ReadOK(stm) => chars' = chars
  <2>1. CASE ReadOK(stm)
    <3>1. chars' = Append(chars, code') /\ chars' \in Seq(Codes)
      BY <1>1, <1>2, <1>3, <2>1, Added
    <3>2. PositionAfter(Append(chars, code')) = Stepped(stm.col, stm.row, code')
      BY <1>1, <1>2, <1>3, PositionStep
    <3> QED BY <1>2, <1>3, <2>1, <3>1, <3>2
  <2>2. CASE ~ReadOK(stm)
    <3>1. chars' = chars
      BY <1>1, <1>2, <1>3, <2>2, ConcatEmptySeq
    <3> QED BY <1>1, <1>2, <1>3, <2>2, <3>1
  <2> QED BY <2>1, <2>2
<1>5. got' \in Seq(Codes) /\ Written(got') \o Pend(stm') = Written(got) \o Pend(stm)
  BY <1>1, <1>2, <1>3, MoreGot
<1>6. StreamInv'
  BY <1>1, <1>2, <1>3, <1>4, <1>5, ReaderStep
<1>7. Open' /\ stm'.type # "TOFILE" /\ pcol' \in Nat /\ prow' \in Nat
  BY <1>1, <1>2, <1>3 DEF Open, SameChannel
<1>8. code' # NUL => got' # <<>> /\ Last(got') = code'
  <2>1. ASSUME code' # NUL PROVE got' = Append(got, code') /\ code' \in Codes
    <3>1. code' \in Codes /\ got' = got \o <<code'>>
      BY <1>2, <1>3, <2>1
    <3> QED BY <1>1, <3>1, Added
  <2>2. ASSUME NEW c \in Codes PROVE Append(got, c) # <<>> /\ Last(Append(got, c)) = c
    BY ZenonT(60), <1>1, Added
  <2> QED BY <2>1, <2>2, Zenon
<1> QED BY <1>2, <1>3, <1>4, <1>6, <1>7, <1>8 DEF Gets

(* i_store_char, of a character that was read.                               *)
Stores ==
  /\ StreamInv' /\ Open' /\ chars' = Lexed /\ chars' \in Seq(Codes)
  /\ <<stm'.col, stm'.row>> = PositionAfter(chars')
  /\ Pend(stm') = (IF code = NUL THEN <<>> ELSE <<code>>) \o Pend(stm)
  /\ (ReadOK(stm') <=> ReadOK(stm))

(* The character under way is un-read.                                      *)
LEMMA StoreCharStep ==
  ASSUME LexInv, lex \in States, code # BAD, StoreChar
  PROVE  Stores
<1>1. /\ Sound(stm) /\ stm.open /\ stm.type # "TOFILE" /\ TypeOK /\ got \in Seq(Codes)
      /\ Unread(stm.restore) = <<>> /\ code \in Codes /\ (code = NUL <=> ~ReadOK(stm))
      /\ code # NUL => got # <<>> /\ Last(got) = code
      /\ chars = Append(Lexed, code) /\ <<pcol, prow>> = PositionAfter(Lexed)
  BY DEF LexInv, Busy, StreamInv, TypeOK, Open
<1>2. Lexed \in Seq(Codes)
  BY LexedType DEF LexInv
<1>3. pcol \in Nat \ {0} /\ prow \in Nat \ {0}
  <2>1. <<pcol, prow>> \in (Nat \ {0}) \X (Nat \ {0})
    BY <1>1, <1>2, PositionType
  <2> QED BY <2>1
<1>4. /\ stm' = Restored(stm, code, pcol, prow) /\ wrote' = wrote
      /\ got' = (IF code = NUL THEN got ELSE Front(got)) /\ chars' = Front(chars)
  BY DEF StoreChar
<1>5. chars' = Lexed
  BY ZenonT(60), <1>1, <1>2, <1>4, Added
<1>6. PutBack(stm', stm, code, pcol, prow)
  <2>1. MayPutBack(stm, code)
    BY <1>1 DEF MayPutBack
  <2> QED BY <1>1, <1>3, <1>4, <2>1, RestoredKeeps
<1>7. /\ Sound(stm') /\ SameChannel(stm', stm) /\ stm'.col = pcol /\ stm'.row = prow
      /\ (ReadOK(stm') <=> ReadOK(stm))
      /\ Pend(stm') = (IF code = NUL THEN <<>> ELSE <<code>>) \o Pend(stm)
  BY <1>1, <1>6 DEF PutBack
<1>8. Pend(stm) \in Text
  BY <1>1, PendType
<1>9. got' \in Seq(Codes) /\ Written(got') \o Pend(stm') = Written(got) \o Pend(stm)
  <2>1. CASE code = NUL
    <3>1. <<>> \o Pend(stm) = Pend(stm)
      BY <1>8, TextEmpty
    <3> QED BY <1>1, <1>4, <1>7, <2>1, <3>1
  <2>2. CASE code # NUL
    <3>1. Front(got) \in Seq(Codes) /\ got = Front(got) \o <<code>>
      BY <1>1, <2>2, FrontLast
    <3>2. <<code>> \in Text
      BY <1>1, <2>2, CodesOfText, Singleton DEF Text
    <3>3. <<code>> \in Seq(Codes) /\ Written(<<code>>) = <<code>> /\ Written(Front(got)) \in Text
      BY <3>1, <3>2, WrittenText, WrittenType
    <3>4. Written(got) = Written(Front(got)) \o <<code>>
      BY <3>1, <3>3, WrittenConcat
    <3>5. Written(Front(got)) \o (<<code>> \o Pend(stm))
            = (Written(Front(got)) \o <<code>>) \o Pend(stm)
      BY <1>8, <3>2, <3>3, TextAssociative
    <3> QED BY <1>4, <1>7, <2>2, <3>1, <3>4, <3>5
  <2> QED BY <2>1, <2>2
<1>10. StreamInv'
  BY <1>1, <1>2, <1>4, <1>5, <1>7, <1>9, ReaderStep DEF LexInv, Open
<1>11. Open'
  BY <1>1, <1>7 DEF Open, SameChannel
<1>12. <<stm'.col, stm'.row>> = PositionAfter(chars')
  BY <1>1, <1>5, <1>7
<1> QED BY <1>2, <1>5, <1>7, <1>10, <1>11, <1>12 DEF Stores

-----------------------------------------------------------------------------
(* The automaton goes on, or ends with a token.                              *)

Tokens == {"LESS", "MINUS", "ASTERK", "BSLASH", "EOL", "UNDEF", "SPACE", "SLCOM", "SLASH",
           "MLCOM", "PERIOD", "IDENT", "STRING", "INTEGER", "HEX", "REAL"}

Singles == {"<", "-", "*", "\\"}
(* The tokens of one character.                                             *)
LEMMA Single4 ==
  /\ DOMAIN Single = Singles
  /\ Single["<"] = "LESS" /\ Single["-"] = "MINUS" /\ Single["*"] = "ASTERK"
  /\ Single["\\"] = "BSLASH"
BY DEF Single, Singles

Moves(d) ==
  \/ d = Go(d.state) /\ d.state \in States
  \/ d = Valid(d.token) /\ d.token \in Tokens
  \/ d = Store(d.token) /\ d.token \in Tokens

(* i_START goes on or ends.                                                 *)
LEMMA StartMoves ==
  ASSUME NEW c
  PROVE  Moves(Start(c))
<1>1. ASSUME NEW s \in States PROVE Moves(Go(s))
  BY DEF Moves, Go
<1>2. ASSUME NEW t \in Tokens PROVE Moves(Valid(t))
  BY DEF Moves, Valid
<1>3. \/ \E s \in States : Start(c) = Go(s)
      \/ \E t \in Tokens : Start(c) = Valid(t)
  <2>1. CASE c \in Singles
    <3>1. Start(c) = Valid(Single[c])
      BY <2>1, Single4 DEF Start, Singles, Letter, Space, NL
    <3>2. Single[c] \in Tokens
      BY <2>1, Single4 DEF Singles, Tokens
    <3> QED BY <3>1, <3>2
  <2>2. CASE c \notin Singles
    BY <2>2, Single4 DEF Start, Letter, Space, States, Tokens, NL
  <2> QED BY <2>1, <2>2
<1> QED BY <1>1, <1>2, <1>3

(* The automaton goes on, or ends with a token.                             *)
LEMMA DeltaMoves ==
  ASSUME NEW state \in States, NEW c
  PROVE  Moves(Delta(state, c))
<1>1. ASSUME NEW s \in States PROVE Moves(Go(s))
  BY DEF Moves, Go
<1>2. ASSUME NEW t \in Tokens PROVE Moves(Valid(t)) /\ Moves(Store(t))
  BY DEF Moves, Valid, Store
<1>3. CASE state = "START"
  BY <1>3, StartMoves DEF Delta
<1>4. CASE state # "START"
  <2>1. \/ \E s \in States : Delta(state, c) = Go(s)
        \/ \E t \in Tokens : Delta(state, c) = Valid(t)
        \/ \E t \in Tokens : Delta(state, c) = Store(t)
    BY ZenonT(60), <1>4 DEF Delta, States, Tokens, EndNumber
  <2> QED BY <1>1, <1>2, <2>1
<1> QED BY <1>3, <1>4

-----------------------------------------------------------------------------
(* The steps keep the invariant.                                             *)

(* The next character is under way.                                         *)
LEMMA BusyAgain ==
  ASSUME Gets, ReadOK(stm), ~Held(stm) \/ code' # NUL,
         <<stm.col, stm.row>> = PositionAfter(chars), Lexed' = chars
  PROVE  Busy'
<1>1. chars' = Append(Lexed', code')
  BY DEF Gets
<1>2. code' # BAD => <<pcol', prow'>> = PositionAfter(Lexed')
  BY DEF Gets
<1>3. /\ Unread(stm'.restore) = <<>> /\ (code' = NUL <=> ~ReadOK(stm'))
      /\ Open' /\ stm'.type # "TOFILE" /\ code' \in Codes
      /\ code' # NUL => got' # <<>> /\ Last(got') = code'
  BY DEF Gets
<1> QED BY <1>1, <1>2, <1>3, Zenon DEF Busy

(* A new character is under way, behind those that were read before.          *)
LEMMA Further ==
  ASSUME LexTypeOK, LexTypeOK', NEW m \in 0 .. Len(chars), mark' = m,
         chars' = chars \/ chars' = Append(chars, code'), code' \in Codes
  PROVE  SubSeq(chars', 1, mark') = SubSeq(chars, 1, m)
<1>1. chars \in Seq(Codes)
  BY LexedType
<1>2. chars' = Append(chars, code') => chars' = chars \o <<code'>>
  BY <1>1, Added
<1>3. <<code'>> \in Seq(Codes)
  BY Singleton
<1>4. SubSeq(chars \o <<code'>>, 1, m) = SubSeq(chars, 1, m)
  BY <1>1, <1>3, Beginning
<1> QED BY <1>2, <1>4

(* The first character of a token.                                          *)
LEMMA BeginStep ==
  ASSUME LexInv, Begin
  PROVE  LexInv' /\ Gets /\ (code' = NUL => token' = "EOF") /\ lexeme' = <<>>
         /\ (code' # NUL => lex' = "START") /\ (code' = NUL => lex' = "idle")
<1>1. /\ LexTypeOK /\ StreamInv /\ Open /\ stm.type # "TOFILE"
      /\ <<stm.col, stm.row>> = PositionAfter(chars) /\ stm.col \in Nat /\ stm.row \in Nat
      /\ tcol' = stm.col /\ trow' = stm.row /\ lexeme' = <<>> /\ mark' = Len(chars)
      /\ code' = NUL => token' = "EOF" /\ lex' = "idle"
      /\ code' # NUL => lex' = "START"
      /\ opts' = opts
  BY DEF LexInv, Placed, Begin, GetChar, LexTypeOK, TypeOK, Streams
<1>2. Gets
  BY <1>1, GetCharStep DEF Begin
<1>3. chars \in Seq(Codes) /\ Len(chars) \in 0 .. Len(chars) /\ <<>> \in Seq(Codes)
  BY <1>1, LexedType, EmptySeq
<1>4. code' \in Codes /\ chars' \in Seq(Codes) /\ (chars' = chars \/ chars' = Append(chars, code'))
  BY <1>2 DEF Gets
<1>5. mark' \in Nat /\ mark' <= Len(chars')
  <2>1. Len(Append(chars, code')) = Len(chars) + 1 /\ Len(chars) \in Nat
    BY <1>3, <1>4, Added
  <2> QED BY <1>1, <1>4, <2>1
<1>6. LexTypeOK'
  <2>1. TypeOK' /\ pcol' \in Nat /\ prow' \in Nat
    BY <1>2 DEF Gets, StreamInv
  <2>2. lex' \in States \cup {"idle", "again"} /\ opts' \subseteq Options
    BY <1>1 DEF LexTypeOK, States
  <2> QED BY <1>1, <1>3, <1>5, <2>1, <2>2 DEF LexTypeOK
<1>7. SubSeq(chars', 1, mark') = SubSeq(chars, 1, Len(chars))
  BY <1>1, <1>3, <1>4, <1>6, Further
<1>8. SubSeq(chars', 1, mark') = chars
  BY <1>3, <1>7, SubSeqFull
<1>9. Placed'
  BY <1>1, <1>2, <1>8 DEF Placed, Gets
<1>10. Busy'
  <2>1. CASE code' = NUL
    <3>1. lex' \notin States
      BY <1>1, <2>1 DEF States
    <3> QED BY <3>1 DEF Busy
  <2>2. CASE code' # NUL
    <3>1. ReadOK(stm)
      BY <1>2, <2>2 DEF Gets
    <3>2. Lexed' = chars
      <4>1. chars \o <<>> = chars
        BY <1>3, ConcatEmptySeq
      <4> QED BY <1>1, <1>8, <4>1 DEF Lexed
    <3> QED BY <1>1, <1>2, <2>2, <3>1, <3>2, BusyAgain
  <2> QED BY <2>1, <2>2
<1> QED BY <1>1, <1>2, <1>6, <1>9, <1>10 DEF LexInv, Gets

(* The steps of a scan, by what becomes of the character.                    *)
Bad == code = BAD /\ Return("CORRUP") /\ UNCHANGED <<stream, lexeme>>
Stored == code # BAD /\ Delta(lex, code) = Store(token') /\ token' \in Tokens /\ StoreChar /\ Return(token')
Ended ==
  /\ code # BAD /\ lexeme' = Append(lexeme, code) /\ UNCHANGED stream /\ Return(token')
  /\ \/ Delta(lex, code) = Valid(token') /\ token' \in Tokens
     \/ code = NUL /\ Delta(lex, code) = Go(Delta(lex, code).state) /\ token' = NoToken
GoesOn ==
  /\ code # BAD /\ code # NUL /\ lexeme' = Append(lexeme, code) /\ GetChar /\ UNCHANGED token
  /\ Delta(lex, code) = Go(lex') /\ lex' \in States

(* A step of a scan is one of the four.                                     *)
LEMMA ScanCases ==
  ASSUME Scan
  PROVE  /\ lex \in States /\ UNCHANGED <<tcol, trow, mark>> /\ opts' = opts
         /\ Bad \/ Stored \/ Ended \/ GoesOn
         /\ UNCHANGED <<pcol, prow, code>> \/ GoesOn
<1> DEFINE d == Delta(lex, code)
<1>1. lex \in States /\ UNCHANGED <<tcol, trow, mark>>
  BY DEF Scan
<1>2. IF code = BAD
      THEN /\ Return("CORRUP")
           /\ UNCHANGED <<stream, opts, code, lexeme, pcol, prow>>
      ELSE IF d.char = "STORE"
      THEN StoreChar /\ Return(d.token)
      ELSE /\ lexeme' = Append(lexeme, code)
           /\ IF d.state = "END" \/ code = NUL
              THEN Return(d.token) /\ UNCHANGED <<stream, opts, code, pcol, prow>>
              ELSE GetChar /\ lex' = d.state /\ UNCHANGED token
  BY DEF Scan
<1>3. Moves(d)
  BY <1>1, DeltaMoves
<1> HIDE DEF d
<1>4. \A t : Return(t) => token' = t
  BY DEF Return
<1>5. CASE code = BAD
  BY <1>1, <1>2, <1>5 DEF Bad
<1>6. CASE code # BAD /\ d.char = "STORE"
  <2>1. d = Store(d.token) /\ d.token \in Tokens
    BY <1>3, <1>6 DEF Moves, Go, Valid
  <2>2. StoreChar /\ Return(d.token) /\ token' = d.token
    BY <1>2, <1>4, <1>6
  <2>3. opts' = opts /\ UNCHANGED <<pcol, prow, code>>
    BY <2>2 DEF StoreChar
  <2> QED BY <1>1, <1>6, <2>1, <2>2, <2>3 DEF Stored, d
<1>7. CASE code # BAD /\ d.char # "STORE" /\ (d.state = "END" \/ code = NUL)
  <2>1. lexeme' = Append(lexeme, code) /\ Return(d.token) /\ token' = d.token
        /\ UNCHANGED <<stream, opts, code, pcol, prow>>
    BY <1>2, <1>4, <1>7
  <2>2. \/ d = Valid(d.token) /\ d.token \in Tokens
        \/ code = NUL /\ d = Go(d.state) /\ d.token = NoToken
    <3>1. CASE d = Go(d.state) /\ d.state \in States
      <4>1. d.state # "END"
        BY <3>1 DEF States
      <4>2. d.token = NoToken
        BY <3>1 DEF Go
      <4> QED BY <1>7, <3>1, <4>1, <4>2
    <3>2. CASE d = Store(d.token)
      BY <1>7, <3>2 DEF Store
    <3> QED BY <1>3, <3>1, <3>2 DEF Moves
  <2> QED BY <1>1, <1>7, <2>1, <2>2 DEF Ended, d
<1>8. CASE code # BAD /\ d.char # "STORE" /\ ~(d.state = "END" \/ code = NUL)
  <2>1. lexeme' = Append(lexeme, code) /\ GetChar /\ lex' = d.state /\ UNCHANGED token
    BY <1>2, <1>8
  <2>2. d = Go(d.state) /\ d.state \in States
    BY <1>3, <1>8 DEF Moves, Valid, Store
  <2>3. opts' = opts
    BY <2>1 DEF GetChar
  <2> QED BY <1>1, <1>8, <2>1, <2>2, <2>3 DEF GoesOn, d
<1> QED BY <1>5, <1>6, <1>7, <1>8

(* With a token the automaton stops.                                        *)
LEMMA Returned ==
  ASSUME Return(token')
  PROVE  lex' \in {"idle", "again"} /\ lex' \notin States
BY DEF Return, States

(* A byte that is no character ends the token.                              *)
LEMMA BadStep ==
  ASSUME LexInv, lex \in States, Bad, UNCHANGED <<pcol, prow, code, opts, tcol, trow, mark>>
  PROVE  LexInv'
<1>1. /\ UNCHANGED <<stm, wrote, got, chars, lexeme, mark>> /\ lex' \in {"idle", "again"}
      /\ lex' \notin States
  BY DEF Bad, stream, Return, States
<1>2. LexTypeOK'
  BY <1>1 DEF LexInv, LexTypeOK, TypeOK
<1>3. StreamInv'
  BY <1>1 DEF LexInv, StreamInv, TypeOK, InOrder, Open
<1>4. Placed'
  <2>1. lex # "idle" /\ UNCHANGED <<stm, chars, mark, tcol, trow>>
    BY <1>1 DEF States
  <2> QED BY <2>1 DEF LexInv, Placed
<1> QED BY <1>1, <1>2, <1>3, <1>4 DEF LexInv, Busy

(* The token ends with its last character.                                  *)
LEMMA EndedStep ==
  ASSUME LexInv, lex \in States, Ended, UNCHANGED <<pcol, prow, code, opts, tcol, trow, mark>>
  PROVE  LexInv'
<1>1. UNCHANGED <<stm, wrote, got, chars>> /\ lex' \in {"idle", "again"} /\ lex' \notin States
  BY Returned DEF Ended, stream
<1>2. lexeme' \in Seq(Codes)
  <2>1. code \in Codes /\ lexeme \in Seq(Codes)
    BY DEF LexInv, LexTypeOK, Busy
  <2> QED BY <2>1, Added DEF Ended
<1>3. LexTypeOK'
  BY <1>1, <1>2 DEF LexInv, LexTypeOK, TypeOK
<1>4. StreamInv'
  BY <1>1 DEF LexInv, StreamInv, TypeOK, InOrder, Open
<1>5. Placed'
  <2>1. lex # "idle" /\ UNCHANGED <<stm, chars, mark, tcol, trow>>
    BY <1>1 DEF States
  <2> QED BY <2>1 DEF LexInv, Placed
<1> QED BY <1>1, <1>3, <1>4, <1>5 DEF LexInv, Busy

(* The token ends before the character, which is un-read.                   *)
LEMMA StoredStep ==
  ASSUME LexInv, lex \in States, Stored, UNCHANGED <<pcol, prow, code, opts, tcol, trow, mark>>
  PROVE  /\ LexInv' /\ Stores /\ lexeme' = lexeme
         /\ SubSeq(chars', mark + 1, Len(chars')) = lexeme
<1>1. Stores /\ lexeme' = lexeme /\ lex' \in {"idle", "again"} /\ lex' \notin States
  BY StoreCharStep, Returned DEF Stored, StoreChar
<1>2. /\ chars \in Seq(Codes) /\ lexeme \in Seq(Codes) /\ mark \in 0 .. Len(chars)
      /\ SubSeq(chars, 1, mark) \in Seq(Codes) /\ Len(SubSeq(chars, 1, mark)) = mark
  BY LexedType DEF LexInv
<1> DEFINE h == SubSeq(chars, 1, mark)
<1>3. chars' = h \o lexeme /\ chars' \in Seq(Codes)
  BY <1>1 DEF Stores, Lexed
<1> HIDE DEF h
<1>4. /\ SubSeq(h \o lexeme, Len(h) + 1, Len(h \o lexeme)) = lexeme
      /\ SubSeq(h \o lexeme, 1, Len(h)) = h
      /\ Len(h \o lexeme) = Len(h) + Len(lexeme)
  BY <1>2, Rest DEF h
<1>5. Len(h) = mark /\ mark \in Nat /\ Len(lexeme) \in Nat
  BY <1>2 DEF h
<1>6. mark <= Len(chars') /\ SubSeq(chars', 1, mark) = SubSeq(chars, 1, mark)
      /\ SubSeq(chars', mark + 1, Len(chars')) = lexeme
  BY <1>3, <1>4, <1>5 DEF h
<1>7. LexTypeOK'
  <2>1. TypeOK'
    BY <1>1 DEF Stores, StreamInv
  <2> QED BY <1>1, <1>2, <1>6, <2>1 DEF LexInv, LexTypeOK
<1>8. Placed'
  <2>1. lex # "idle"
    BY DEF States
  <2>2. <<tcol, trow>> = PositionAfter(SubSeq(chars, 1, mark))
    BY <2>1 DEF LexInv, Placed
  <2>3. <<stm'.col, stm'.row>> = PositionAfter(chars')
    BY <1>1 DEF Stores
  <2>4. SubSeq(chars', 1, mark') = SubSeq(chars, 1, mark)
    BY <1>6
  <2> QED BY <2>2, <2>3, <2>4 DEF Placed
<1> QED BY <1>1, <1>6, <1>7, <1>8 DEF LexInv, Stores, Busy

(* The token goes on.                                                       *)
LEMMA GoesOnStep ==
  ASSUME LexInv, lex \in States, GoesOn, UNCHANGED <<opts, tcol, trow, mark>>
  PROVE  LexInv'
<1>1. /\ LexTypeOK /\ StreamInv /\ Open /\ stm.type # "TOFILE"
      /\ <<stm.col, stm.row>> = PositionAfter(chars)
      /\ code \in Codes /\ ReadOK(stm) /\ chars = Append(Lexed, code)
  BY DEF LexInv, Placed, Busy, GoesOn
<1>2. Gets
  BY <1>1, GetCharStep DEF GoesOn
<1>3. /\ chars \in Seq(Codes) /\ lexeme \in Seq(Codes) /\ mark \in 0 .. Len(chars)
      /\ SubSeq(chars, 1, mark) \in Seq(Codes)
  BY <1>1, LexedType
<1>4. lexeme' = lexeme \o <<code>> /\ lexeme' \in Seq(Codes) /\ <<code>> \in Seq(Codes)
  BY <1>1, <1>3, Added, Singleton DEF GoesOn
<1>5. code' \in Codes /\ chars' = Append(chars, code') /\ chars' \in Seq(Codes)
  BY <1>1, <1>2 DEF Gets
<1>6. LexTypeOK'
  <2>1. Len(Append(chars, code')) = Len(chars) + 1 /\ Len(chars) \in Nat
    BY <1>3, <1>5, Added
  <2>2. mark' \in Nat /\ mark' <= Len(chars')
    BY <1>3, <1>5, <2>1
  <2>3. TypeOK' /\ pcol' \in Nat /\ prow' \in Nat
    BY <1>2 DEF Gets, StreamInv
  <2> QED BY <1>1, <1>4, <2>2, <2>3 DEF LexTypeOK, GoesOn
<1>7. SubSeq(chars', 1, mark') = SubSeq(chars, 1, mark)
  BY <1>1, <1>3, <1>5, <1>6, Further
<1>8. Lexed' = chars
  <2> DEFINE h == SubSeq(chars, 1, mark)
  <2>0. h \in Seq(Codes)
    BY <1>3
  <2> HIDE DEF h
  <2>1. h \o (lexeme \o <<code>>) = Lexed \o <<code>>
    <3>1. (h \o lexeme) \o <<code>> = h \o (lexeme \o <<code>>)
      BY SMTT(30), <1>3, <1>4, <2>0, ConcatAssociative
    <3> QED BY <3>1 DEF Lexed, h
  <2>2. chars = Lexed \o <<code>>
    BY <1>1, LexedType, Added
  <2> QED BY <1>4, <1>7, <2>1, <2>2 DEF Lexed, h
<1>9. Busy'
  <2>1. ~Held(stm)
    BY DEF LexInv, Busy, Held
  <2> QED BY <1>1, <1>2, <1>8, <2>1, BusyAgain
<1>10. Placed'
  <2>1. lex # "idle"
    BY DEF States
  <2>2. <<tcol, trow>> = PositionAfter(SubSeq(chars, 1, mark))
    BY <2>1 DEF LexInv, Placed
  <2>3. <<stm'.col, stm'.row>> = PositionAfter(chars')
    BY <1>2 DEF Gets
  <2> QED BY <1>7, <2>2, <2>3 DEF Placed
<1> QED BY <1>2, <1>6, <1>9, <1>10 DEF LexInv, Gets

(* A step of a scan.                                                        *)
LEMMA ScanStep ==
  ASSUME LexInv, Scan
  PROVE  LexInv'
<1>1. /\ lex \in States /\ UNCHANGED <<tcol, trow, mark>> /\ opts' = opts
      /\ Bad \/ Stored \/ Ended \/ GoesOn
      /\ UNCHANGED <<pcol, prow, code>> \/ GoesOn
  BY ScanCases
<1>2. CASE GoesOn
  BY <1>1, <1>2, GoesOnStep
<1>3. CASE ~GoesOn
  <2>1. UNCHANGED <<pcol, prow, code, opts, tcol, trow, mark>>
    BY <1>1, <1>3
  <2>2. CASE Bad
    BY <1>1, <2>1, <2>2, BadStep
  <2>3. CASE Stored
    BY <1>1, <2>1, <2>3, StoredStep
  <2>4. CASE Ended
    BY <1>1, <2>1, <2>4, EndedStep
  <2> QED BY <1>1, <1>3, <2>2, <2>3, <2>4
<1> QED BY <1>2, <1>3

(* The calls between two tokens.                                             *)
LEMMA CallStep ==
  ASSUME LexInv, Call
  PROVE  LexInv'
<1>1. /\ lex = "idle" /\ Next /\ StreamInv /\ LexTypeOK /\ lex' = lex /\ opts' = opts
      /\ lexeme' = lexeme /\ pcol' = pcol /\ prow' = prow /\ tcol' = tcol /\ trow' = trow
      /\ token' = token /\ mark' = mark
  BY DEF LexInv, Call, lexer
<1>2. StreamInv'
  BY <1>1, StreamKeeps
<1>3. PICK d : Along(d)
  BY <1>1, CallMoves
<1>4. d \in Seq(Codes) /\ chars' = chars \o d /\ Len(d) \in Nat
  BY <1>3 DEF Along
<1>5. chars \in Seq(Codes) /\ mark \in 0 .. Len(chars) /\ stm.col \in Nat
  BY <1>1, LexedType DEF LexTypeOK, TypeOK, Streams
<1>6. Len(chars \o d) = Len(chars) + Len(d) /\ SubSeq(chars \o d, 1, mark) = SubSeq(chars, 1, mark)
  BY <1>4, <1>5, Beginning, ConcatProperties
<1>7. LexTypeOK'
  <2>1. TypeOK'
    BY <1>2 DEF StreamInv
  <2>2. mark' \in Nat /\ mark' <= Len(chars')
    BY <1>1, <1>4, <1>5, <1>6
  <2> QED BY <1>1, <2>1, <2>2 DEF LexTypeOK
<1>8. PositionAfter(chars) = <<stm.col, stm.row>>
  BY DEF LexInv, Placed
<1>9. PositionAfter(chars \o d) = <<stm'.col, stm'.row>>
  <2>1. PICK marks : Taken(d, marks, stm, stm')
    BY <1>3 DEF Along
  <2>2. /\ marks \in Seq({BOM}) /\ marks \in Text /\ marks \in Seq(Codes)
        /\ d = marks \/ d = Append(marks, BAD)
        /\ stm'.col = stm.col + Len(marks) /\ stm'.row = stm.row
    BY <2>1, WrittenText DEF Taken
  <2>3. PositionAfter(chars \o marks) = <<stm.col + Len(marks), stm.row>>
    <3> DEFINE i == stm.col
               j == stm.row
    <3>1. i \in Nat /\ PositionAfter(chars) = <<i, j>>
      BY <1>5, <1>8
    <3> HIDE DEF i, j
    <3>2. PositionAfter(chars \o marks) = <<i + Len(marks), j>>
      BY SMTT(30), <1>5, <2>2, <3>1, PositionOfMarks
    <3> QED BY <3>2 DEF i, j
  <2>4. PositionAfter(chars \o marks) = <<stm'.col, stm'.row>>
    BY <2>2, <2>3
  <2>5. CASE d = marks
    BY <2>4, <2>5
  <2>6. CASE d = Append(marks, BAD) /\ d # marks
    <3> DEFINE x == chars \o marks
               i == stm'.col
               j == stm'.row
    <3>1. x \in Seq(Codes) /\ BAD \in Codes
      <4>1. x \in Seq(Codes)
        BY <1>5, <2>2, ConcatProperties
      <4>2. Len(marks) + 1 \in 1 .. Len(d) /\ d[Len(marks) + 1] = BAD
        BY <2>2, <2>6, AppendProperties
      <4> QED BY <1>4, <4>1, <4>2, ElementOfSeq
    <3>2. chars \o d = Append(x, BAD)
      <4>1. d = marks \o <<BAD>> /\ <<BAD>> \in Seq(Codes)
        BY <2>2, <2>6, <3>1, Added
      <4>2. chars \o (marks \o <<BAD>>) = x \o <<BAD>>
        BY <1>5, <2>2, <4>1, ConcatAssociative
      <4> HIDE DEF x
      <4>3. Append(x, BAD) = x \o <<BAD>>
        BY <3>1, Added
      <4> QED BY <4>1, <4>2, <4>3
    <3>3. PositionAfter(x) = <<i, j>>
      BY <2>4
    <3> HIDE DEF x, i, j
    <3>4. PositionAfter(Append(x, BAD)) = Stepped(i, j, BAD)
      BY <3>1, <3>3, PositionStep
    <3>5. Stepped(i, j, BAD) = <<i, j>>
      BY DEF Stepped
    <3> QED BY <3>2, <3>4, <3>5 DEF i, j
  <2> QED BY <2>2, <2>5, <2>6
<1>10. Placed'
  <2>1. token # "" => <<tcol, trow>> = PositionAfter(SubSeq(chars, 1, mark))
    BY DEF LexInv, Placed
  <2>2. <<stm'.col, stm'.row>> = PositionAfter(chars')
    BY <1>4, <1>9
  <2>3. SubSeq(chars', 1, mark') = SubSeq(chars, 1, mark)
    BY <1>1, <1>4, <1>6
  <2> QED BY <1>1, <2>1, <2>2, <2>3 DEF Placed
<1>11. Busy'
  <2>1. lex' \notin States
    BY <1>1 DEF States
  <2> QED BY <2>1 DEF Busy
<1> QED BY <1>2, <1>7, <1>10, <1>11 DEF LexInv

(* Every step keeps the invariant.                                          *)
LEMMA LexInvKept == LexInv /\ [LexNext]_vars => LexInv'
<1> SUFFICES ASSUME LexInv, [LexNext]_vars PROVE LexInv'
  OBVIOUS
<1>1. CASE Begin
  BY <1>1, BeginStep
<1>2. CASE Scan
  BY <1>2, ScanStep
<1>3. CASE Call
  BY <1>3, CallStep
<1>4. CASE UNCHANGED vars
  <2>1. UNCHANGED <<stm, wrote, got, chars>>
        /\ UNCHANGED <<lex, opts, code, lexeme, pcol, prow, tcol, trow, token, mark>>
    BY <1>4 DEF vars, stream, lexer
  <2>2. StreamInv'
    BY <2>1 DEF LexInv, StreamInv, TypeOK, InOrder, Open
  <2>3. LexTypeOK'
    BY <2>1 DEF LexInv, LexTypeOK, TypeOK
  <2>4. Placed'
    BY <2>1 DEF LexInv, Placed
  <2>5. Busy'
    BY <2>1 DEF LexInv, Busy, Open, Lexed
  <2> QED BY <2>2, <2>3, <2>4, <2>5 DEF LexInv
<1> QED BY <1>1, <1>2, <1>3, <1>4 DEF LexNext

(* The invariant holds in every reachable state.                            *)
LEMMA LexAlways == Spec => []LexInv
<1>1. LexInit => LexInv
  BY LexInitKeeps
<1>2. LexInv /\ [LexNext]_vars => LexInv'
  BY LexInvKept
<1> QED BY <1>1, <1>2, PTL DEF Spec

(* The struct, the buffers and the scanner keep their types: roffset never    *)
(* passes the data, nor the data the size, and a token never begins behind     *)
(* what was read.                                                           *)
THEOREM LexerTypes == Spec => []LexTypeOK
<1>1. LexInv => LexTypeOK
  BY DEF LexInv
<1> QED BY <1>1, LexAlways, PTL

(* Growing, filling, flushing and un-reading never lose, double or move a      *)
(* byte that was written, for all texts, sizes of buffers and amounts that are *)
(* read or written.  The 0 that is un-read at an end is not one of them: it    *)
(* comes out again, before what is written behind it.                         *)
THEOREM BytesInOrder == Spec => []InOrder
<1>1. LexInv => InOrder
  BY DEF LexInv, StreamInv
<1> QED BY <1>1, LexAlways, PTL

(* A reader is told of the end only when nothing is left in the buffers or in  *)
(* the file.                                                                *)
THEOREM EndOnlyWhenEmpty == Spec => []EndMeansEmpty
<1>1. LexInv => EndMeansEmpty
  BY EndIsEmpty DEF LexInv
<1> QED BY <1>1, LexAlways, PTL

(* The column and row of the stream and of a token are those of what was read, *)
(* also when a character was un-read across the end of a line.                *)
THEOREM PositionsExact == Spec => []PositionExact
<1>1. LexInv => PositionExact
  BY DEF LexInv, Placed, PositionExact
<1> QED BY <1>1, LexAlways, PTL

-----------------------------------------------------------------------------
(* The shape of the tokens                                                  *)

(* The elements of a sequence, one by one.                                   *)
Over(s, Set) == \A i \in 1 .. Len(s) : s[i] \in Set

(* A set of elements, and each of them.                                     *)
LEMMA RangeOver ==
  ASSUME NEW S, NEW s \in Seq(S), NEW Set
  PROVE  Range(s) \subseteq Set <=> Over(s, Set)
<1>1. DOMAIN s = 1 .. Len(s)
  BY LenProperties
<1> QED BY <1>1 DEF Range, Over

(* The kinds of the tokens of one character.                                *)
LEMMA SingleRange == Range(Single) = {"LESS", "MINUS", "ASTERK", "BSLASH"}
<1>1. Range(Single) = {Single[c] : c \in Singles}
  BY Single4 DEF Range
<1>2. \A x : x \in {Single[c] : c \in Singles}
        <=> x = Single["<"] \/ x = Single["-"] \/ x = Single["*"] \/ x = Single["\\"]
  BY DEF Singles
<1> QED BY <1>1, <1>2, Single4

(* The shapes, one by one.                                                   *)
LEMMA ShapeIs ==
  ASSUME NEW s
  PROVE  /\ Shape("IDENT", s) <=> All(s, Letter \cup Octal \cup {"_"}) /\ s[1] \notin Octal
         /\ Shape("INTEGER", s) <=> All(s, Octal)
         /\ Shape("HEX", s) <=> /\ Len(s) >= 2 /\ s[1] = "0" /\ s[2] = "x"
                                /\ Range(From(s, 3)) \subseteq Octal \cup HexLetter
         /\ Shape("REAL", s) <=> IsReal(s)
         /\ Shape("SPACE", s) <=> All(s, Space)
         /\ Shape("SLCOM", s) <=> /\ Len(s) > 2 /\ SubSeq(s, 1, 2) = <<"/", "/">>
                                  /\ Last(s) = NL /\ NL \notin Range(Front(s))
         /\ Shape("MLCOM", s) <=> /\ SubSeq(s, 1, 2) = <<"/", "*">>
                                  /\ FirstAt(s, "*", "/", 3) = {Len(s) - 1}
         /\ Shape("STRING", s) <=> Len(s) >= 2 /\ s[1] = "quote" /\ Last(s) = "quote"
         /\ Shape("EOL", s) <=> s = <<NL>>
         /\ Shape("PERIOD", s) <=> s = <<".">>
         /\ Shape("SLASH", s) <=> s = <<"/">>
         /\ \A t \in Range(Single) : Shape(t, s) <=> Len(s) = 1 /\ Single[s[1]] = t
         /\ Shape(NoToken, s) <=> \/ s[1] = "quote" /\ Last(s) = NUL
                                  \/ s[1] = "/" /\ s[2] \in {"/", "*"} /\ Last(s) = NUL
         /\ Shape("UNDEF", s) /\ Shape("CORRUP", s)
BY SingleRange DEF Shape, NoToken

(* What may not follow, kind by kind.                                       *)
LEMMA ExtendsIs ==
  ASSUME NEW s
  PROVE  /\ Extends("IDENT", s) = Letter \cup Octal \cup {"_"}
         /\ s = <<"0">> => Extends("INTEGER", s) = Octal \cup {"x", "."}
         /\ s # <<"0">> => Extends("INTEGER", s) = Letter \cup Octal
         /\ Extends("HEX", s) = Letter \cup Octal /\ Extends("REAL", s) = Letter \cup Octal
         /\ Extends("SPACE", s) = Space
         /\ \A t : t \notin {"IDENT", "INTEGER", "HEX", "REAL", "SPACE"} => Extends(t, s) = {}
BY DEF Extends

-----------------------------------------------------------------------------
(* The lexeme in each state of the automaton.                                *)

NoClose(s) == \A i \in 3 .. Len(s) - 1 : ~(s[i] = "*" /\ s[i + 1] = "/")
Opens(s, second) == Len(s) >= 2 /\ s[1] = "/" /\ s[2] = second

(* A number with a point at p, and an exponent at x or none.                  *)
Real(s, p, x) ==
  /\ p \in 1 .. Len(s) /\ x \in p + 1 .. Len(s) + 1 /\ s[p] = "."
  /\ \A i \in 1 .. x - 1 : i # p => s[i] \in Octal
  /\ p = 1 => x > p + 1
  /\ x <= Len(s) => s[x] = "e"
  /\ \A i \in x + 1 .. Len(s) : s[i] \in Octal \cup {"-"}

Partial(state, s) ==
  /\ state = "START" => s = <<>>
  /\ state = "SPACES" => s # <<>> /\ Over(s, Space)
  /\ state = "SLASH" => s = <<"/">>
  /\ state = "SL_COMMENT" => Opens(s, "/") /\ \A i \in 1 .. Len(s) : s[i] # NL
  /\ state = "ML_COMMENT" =>
       Opens(s, "*") /\ NoClose(s) /\ (Len(s) > 2 => s[Len(s)] # "*")
  /\ state = "ML_COMMENT2" => Opens(s, "*") /\ NoClose(s) /\ Len(s) > 2 /\ s[Len(s)] = "*"
  /\ state = "PERIOD" => s = <<".">>
  /\ state = "IDENTIFIER" =>
       s # <<>> /\ Over(s, Letter \cup Octal \cup {"_"}) /\ s[1] \notin Octal
  /\ state \in {"STRING", "STRING_SCAPE"} => s # <<>> /\ s[1] = "quote"
  /\ state = "ZERO" => s = <<"0">>
  /\ state = "INT" => s # <<>> /\ Over(s, Octal) /\ s # <<"0">>
  /\ state = "HEX" => /\ Len(s) >= 2 /\ s[1] = "0" /\ s[2] = "x"
                      /\ \A i \in 3 .. Len(s) : s[i] \in Octal \cup HexLetter
  /\ state = "REAL" => \E p \in 1 .. Len(s) : Real(s, p, Len(s) + 1)
  /\ state = "EXP" => \E p \in 1 .. Len(s) : Real(s, p, Len(s))
  /\ state = "EXP1" => \E p \in 1 .. Len(s), x \in 1 .. Len(s) - 1 : Real(s, p, x)

(* t is s and one more character.                                            *)
More(t, s, c) ==
  /\ s \in Seq(Codes) /\ c \in Codes /\ t \in Seq(Codes) /\ Len(s) \in Nat
  /\ Len(t) = Len(s) + 1 /\ t[Len(s) + 1] = c /\ \A i \in 1 .. Len(s) : t[i] = s[i]
  /\ t = Append(s, c) /\ t # <<>> /\ Front(t) = s /\ Last(t) = c

(* What the automaton makes of one more character.                           *)
Meets(state, s, c, t) ==
  \/ \E next \in States \ {"START"} :
       Delta(state, c) = Go(next) /\ IF c = NUL THEN Shape(NoToken, t) ELSE Partial(next, t)
  \/ \E tok \in Tokens :
       Delta(state, c) = Valid(tok) /\ Shape(tok, t) /\ Extends(tok, t) = {}
  \/ \E tok \in Tokens :
       Delta(state, c) = Store(tok) /\ Shape(tok, s) /\ c \notin Extends(tok, s)

(* The automaton goes on.                                                   *)
LEMMA MeetsGo ==
  ASSUME NEW state, NEW s, NEW c, NEW t, NEW next \in States \ {"START"},
         Delta(state, c) = Go(next), c # NUL, Partial(next, t)
  PROVE  Meets(state, s, c, t)
BY DEF Meets

(* The text ends within a token.                                            *)
LEMMA MeetsNul ==
  ASSUME NEW state, NEW s, NEW t, NEW next \in States \ {"START"},
         Delta(state, NUL) = Go(next), Shape(NoToken, t)
  PROVE  Meets(state, s, NUL, t)
BY DEF Meets

(* A token ends with the character.                                         *)
LEMMA MeetsValid ==
  ASSUME NEW state, NEW s, NEW c, NEW t, NEW tok \in Tokens,
         Delta(state, c) = Valid(tok), Shape(tok, t),
         tok \notin {"IDENT", "INTEGER", "HEX", "REAL", "SPACE"}
  PROVE  Meets(state, s, c, t)
BY ExtendsIs DEF Meets

(* A token ends before the character.                                       *)
LEMMA MeetsStore ==
  ASSUME NEW state, NEW s, NEW c, NEW t, NEW tok \in Tokens,
         Delta(state, c) = Store(tok), Shape(tok, s), c \notin Extends(tok, s)
  PROVE  Meets(state, s, c, t)
BY DEF Meets

(* Append gives one more character.                                         *)
LEMMA OneMore ==
  ASSUME NEW s \in Seq(Codes), NEW c \in Codes
  PROVE  More(Append(s, c), s, c)
<1> DEFINE t == Append(s, c)
<1>1. Len(s) \in Nat
  BY LenProperties
<1>2. /\ t \in Seq(Codes) /\ Len(t) = Len(s) + 1 /\ t # <<>> /\ Front(t) = s /\ Last(t) = c
      /\ \A i \in 1 .. Len(s) : t[i] = s[i]
      /\ t[Len(s) + 1] = c /\ t = Append(s, c)
  BY ZenonT(60), Added
<1> HIDE DEF t
<1>3. More(t, s, c)
  BY <1>1, <1>2 DEF More
<1> QED BY <1>3 DEF t

(* All, element by element.                                                 *)
LEMMA AllIs ==
  ASSUME NEW s \in Seq(Codes), NEW Set
  PROVE  All(s, Set) <=> s # <<>> /\ Over(s, Set)
BY RangeOver DEF All


(* The first two of a sequence.                                              *)
LEMMA Two ==
  ASSUME NEW S, NEW s \in Seq(S), Len(s) >= 2, NEW a, NEW b, s[1] = a, s[2] = b
  PROVE  SubSeq(s, 1, 2) = <<a, b>>
<1>1. Len(s) \in Nat /\ 2 \in 0 .. Len(s)
  BY LenProperties
<1>2. SubSeq(s, 1, 2) \in Seq(S) /\ Len(SubSeq(s, 1, 2)) = 2
  BY <1>1, Split
<1>3. \A i \in 1 .. Len(s) : s[i] \in S
  BY ElementOfSeq
<1>4. 1 \in 1 .. Len(s) /\ 2 \in 1 .. Len(s)
  BY <1>1
<1>5. \A i \in 1 .. 2 : SubSeq(s, 1, 2)[i] = s[i]
  <2>1. \A i \in 1 .. 2 - 1 + 1 : SubSeq(s, 1, 2)[i] = s[1 + i - 1]
    BY <1>4, SubSeqProperties
  <2>2. 2 - 1 + 1 = 2 /\ \A i \in 1 .. 2 : 1 + i - 1 = i
    OBVIOUS
  <2> QED BY <2>1, <2>2
<1>6. a \in S /\ b \in S
  BY <1>3, <1>4
<1>7. <<a, b>> \in Seq(S) /\ Len(<<a, b>>) = 2 /\ <<a, b>>[1] = a /\ <<a, b>>[2] = b
  BY <1>6
<1>8. \A i \in 1 .. 2 : SubSeq(s, 1, 2)[i] = <<a, b>>[i]
  <2>1. \A i \in 1 .. 2 : i = 1 \/ i = 2
    OBVIOUS
  <2> QED BY <1>5, <1>7, <2>1
<1> QED BY <1>2, <1>7, <1>8, SeqEqual

(* The states, one by one.                                                   *)
LEMMA AtStart ==
  ASSUME NEW s, NEW c, NEW t, More(t, s, c), Partial("START", s), c # NUL
  PROVE  Meets("START", s, c, t)
<1>1. s = <<>> /\ Len(s) = 0 /\ Len(t) = 1 /\ t[1] = c /\ t # <<>> /\ t \in Seq(Codes)
  <2>1. s = <<>> /\ Len(<<>>) = 0
    BY EmptySeq DEF Partial
  <2> QED BY <2>1 DEF More
<1>2. t = <<c>>
  BY <1>1, OneLong
<1>3. Delta("START", c) = Start(c)
  BY DEF Delta
<1>4. \A Set : c \in Set => Over(t, Set)
  BY <1>1 DEF Over
<1>5. CASE c \in Singles
  <2>1. Start(c) = Valid(Single[c])
    BY <1>5, Single4 DEF Start, Singles, Letter, Space, NL
  <2>2. Single[c] \in Range(Single) /\ Single[c] \in Tokens
    BY <1>5, Single4, SingleRange DEF Singles, Tokens
  <2>3. Shape(Single[c], t)
    BY <1>1, <2>2, ShapeIs
  <2>4. Single[c] \notin {"IDENT", "INTEGER", "HEX", "REAL", "SPACE"}
    BY <2>2, SingleRange
  <2> QED BY <1>3, <2>1, <2>2, <2>3, <2>4, MeetsValid
<1>6. CASE c = "/"
  <2>1. Start(c) = Go("SLASH") /\ "SLASH" \in States \ {"START"}
    BY <1>6, Single4 DEF Start, Singles, Letter, Space, NL, States
  <2>2. Partial("SLASH", t)
    BY <1>2, <1>6 DEF Partial
  <2> QED BY <1>3, <2>1, <2>2, MeetsGo
<1>7. CASE c = "."
  <2>1. Start(c) = Go("PERIOD") /\ "PERIOD" \in States \ {"START"}
    BY <1>7, Single4 DEF Start, Singles, Letter, Space, NL, States
  <2>2. Partial("PERIOD", t)
    BY <1>2, <1>7 DEF Partial
  <2> QED BY <1>3, <2>1, <2>2, MeetsGo
<1>8. CASE c \in Letter \cup {"_"}
  <2>1. Start(c) = Go("IDENTIFIER") /\ "IDENTIFIER" \in States \ {"START"}
    BY <1>8, Single4 DEF Start, Singles, Letter, Space, NL, States
  <2>2. c \notin Octal
    BY <1>8 DEF Letter, Octal
  <2>3. Partial("IDENTIFIER", t)
    BY <1>1, <1>4, <1>8, <2>2 DEF Partial
  <2> QED BY <1>3, <2>1, <2>3, MeetsGo
<1>9. CASE c = "quote"
  <2>1. Start(c) = Go("STRING") /\ "STRING" \in States \ {"START"}
    BY <1>9, Single4 DEF Start, Singles, Letter, Space, NL, States
  <2>2. Partial("STRING", t)
    BY <1>1, <1>9 DEF Partial
  <2> QED BY <1>3, <2>1, <2>2, MeetsGo
<1>10. CASE c \in Space
  <2>1. Start(c) = Go("SPACES") /\ "SPACES" \in States \ {"START"}
    BY <1>10, Single4 DEF Start, Singles, Letter, Space, NL, States
  <2>2. Partial("SPACES", t)
    BY <1>1, <1>4, <1>10 DEF Partial
  <2> QED BY <1>3, <2>1, <2>2, MeetsGo
<1>11. CASE c = NL
  <2>1. Start(c) = Valid("EOL") /\ "EOL" \in Tokens
    BY <1>11, Single4 DEF Start, Singles, Letter, Space, NL, Tokens
  <2>2. Shape("EOL", t)
    BY <1>2, <1>11, ShapeIs
  <2> QED BY <1>3, <2>1, <2>2, MeetsValid
<1>12. CASE c = "0"
  <2>1. Start(c) = Go("ZERO") /\ "ZERO" \in States \ {"START"}
    BY <1>12, Single4 DEF Start, Singles, Letter, Space, NL, States
  <2>2. Partial("ZERO", t)
    BY <1>2, <1>12 DEF Partial
  <2> QED BY <1>3, <2>1, <2>2, MeetsGo
<1>13. CASE c = "1"
  <2>1. Start(c) = Go("INT") /\ "INT" \in States \ {"START"}
    BY <1>13, Single4 DEF Start, Singles, Letter, Space, NL, States
  <2>2. c \in Octal /\ t # <<"0">>
    BY <1>1, <1>13 DEF Octal
  <2>3. Partial("INT", t)
    BY <1>1, <1>4, <2>2 DEF Partial
  <2> QED BY <1>3, <2>1, <2>3, MeetsGo
<1>14. CASE /\ c \notin Singles /\ c # "/" /\ c # "." /\ c \notin Letter \cup {"_"} /\ c # "quote"
            /\ c \notin Space /\ c # NL /\ c # "0" /\ c # "1"
  <2>1. Start(c) = Valid("UNDEF") /\ "UNDEF" \in Tokens
    BY <1>14, Single4 DEF Start, Tokens
  <2> QED BY <1>3, <2>1, ShapeIs, MeetsValid
<1> QED BY <1>5, <1>6, <1>7, <1>8, <1>9, <1>10, <1>11, <1>12, <1>13, <1>14

(* i_SPACES.                                                                *)
LEMMA AtSpaces ==
  ASSUME NEW s, NEW c, NEW t, More(t, s, c), Partial("SPACES", s)
  PROVE  Meets("SPACES", s, c, t)
<1>1. s # <<>> /\ Over(s, Space) /\ s \in Seq(Codes)
  BY DEF Partial, More
<1>2. CASE c \in Space
  <2>1. Delta("SPACES", c) = Go("SPACES") /\ "SPACES" \in States \ {"START"}
    BY <1>2 DEF Delta, States
  <2>2. Partial("SPACES", t)
    BY <1>1, <1>2 DEF Partial, More, Over
  <2>3. c # NUL
    BY <1>2 DEF Space, NUL
  <2> QED BY <2>1, <2>2, <2>3, MeetsGo
<1>3. CASE c \notin Space
  <2>1. Delta("SPACES", c) = Store("SPACE") /\ "SPACE" \in Tokens
    BY <1>3 DEF Delta, Tokens
  <2>2. Shape("SPACE", s)
    BY <1>1, ShapeIs, AllIs
  <2> QED BY <1>3, <2>1, <2>2, ExtendsIs, MeetsStore
<1> QED BY <1>2, <1>3

(* i_SLASH.                                                                 *)
LEMMA AtSlash ==
  ASSUME NEW s, NEW c, NEW t, More(t, s, c), Partial("SLASH", s)
  PROVE  Meets("SLASH", s, c, t)
<1>1. s = <<"/">> /\ Len(s) = 1 /\ s[1] = "/"
  BY DEF Partial
<1>2. Len(t) = 2 /\ t[1] = "/" /\ t[2] = c
  BY <1>1 DEF More
<1>3. "SLASH" # "START" /\ "/" # NUL /\ "*" # NUL
  BY DEF NUL
<1>4. CASE c = "/"
  <2>1. Delta("SLASH", c) = Go("SL_COMMENT") /\ "SL_COMMENT" \in States \ {"START"}
    BY <1>4 DEF Delta, States
  <2>2. Partial("SL_COMMENT", t)
    <3>1. \A i \in 1 .. Len(t) : i = 1 \/ i = 2
      BY <1>2
    <3>2. \A i \in 1 .. Len(t) : t[i] # NL
      BY <1>2, <1>4, <3>1 DEF NL
    <3> QED BY <1>2, <1>4, <3>2 DEF Partial, Opens
  <2> QED BY <1>3, <1>4, <2>1, <2>2, MeetsGo
<1>5. CASE c = "*"
  <2>1. Delta("SLASH", c) = Go("ML_COMMENT") /\ "ML_COMMENT" \in States \ {"START"}
    BY <1>5 DEF Delta, States
  <2>2. Partial("ML_COMMENT", t)
    BY <1>2, <1>5 DEF Partial, Opens, NoClose
  <2> QED BY <1>3, <1>5, <2>1, <2>2, MeetsGo
<1>6. CASE c # "/" /\ c # "*"
  <2>1. Delta("SLASH", c) = Store("SLASH") /\ "SLASH" \in Tokens
    BY <1>6 DEF Delta, Tokens
  <2> QED BY <1>1, <2>1, ShapeIs, ExtendsIs, MeetsStore
<1> QED BY <1>4, <1>5, <1>6

(* i_SL_COMMENT.                                                            *)
LEMMA AtLineComment ==
  ASSUME NEW s, NEW c, NEW t, More(t, s, c), Partial("SL_COMMENT", s)
  PROVE  Meets("SL_COMMENT", s, c, t)
<1>1. Opens(s, "/") /\ \A i \in 1 .. Len(s) : s[i] # NL
  BY DEF Partial
<1>2. Opens(t, "/") /\ Len(t) > 2 /\ t \in Seq(Codes)
  BY <1>1 DEF Opens, More
<1>3. CASE c = NL
  <2>1. Delta("SL_COMMENT", c) = Valid("SLCOM") /\ "SLCOM" \in Tokens
    BY <1>3 DEF Delta, Tokens
  <2>2. SubSeq(t, 1, 2) = <<"/", "/">>
    BY <1>2, Two DEF Opens
  <2>3. NL \notin Range(Front(t))
    <3>1. s \in Seq(Codes) /\ Front(t) = s /\ DOMAIN s = 1 .. Len(s)
      BY LenProperties DEF More
    <3> QED BY <1>1, <3>1 DEF Range
  <2>4. Last(t) = NL
    BY <1>3 DEF More
  <2>5. Shape("SLCOM", t)
    BY <1>2, <2>2, <2>3, <2>4, ShapeIs
  <2> QED BY <2>1, <2>5, MeetsValid
<1>4. CASE c # NL
  <2>1. Delta("SL_COMMENT", c) = Go("SL_COMMENT") /\ "SL_COMMENT" \in States \ {"START"}
    BY <1>4 DEF Delta, States
  <2>2. Partial("SL_COMMENT", t)
    <3>1. \A i \in 1 .. Len(t) : t[i] # NL
      BY <1>1, <1>4 DEF More
    <3> QED BY <1>2, <3>1 DEF Partial
  <2>3. c = NUL => Shape(NoToken, t)
    <3>1. t[1] = "/" /\ t[2] = "/" /\ Last(t) = c
      BY <1>2 DEF Opens, More
    <3> QED BY <3>1, ShapeIs
  <2> QED BY <2>1, <2>2, <2>3, MeetsGo, MeetsNul
<1> QED BY <1>3, <1>4

(* i_ML_COMMENT.                                                            *)
LEMMA AtComment ==
  ASSUME NEW s, NEW c, NEW t, More(t, s, c), Partial("ML_COMMENT", s)
  PROVE  Meets("ML_COMMENT", s, c, t)
<1>1. Opens(s, "*") /\ NoClose(s) /\ (Len(s) > 2 => s[Len(s)] # "*") /\ Len(s) \in Nat
  BY DEF Partial, More
<1>2. Opens(t, "*") /\ Len(t) > 2 /\ Len(t) = Len(s) + 1 /\ t[Len(t)] = c
  BY <1>1 DEF Opens, More
<1>3. NoClose(t)
  <2>1. ASSUME NEW i \in 3 .. Len(t) - 1 PROVE ~(t[i] = "*" /\ t[i + 1] = "/")
    <3>1. CASE i \in 3 .. Len(s) - 1
      BY <1>1, <3>1 DEF NoClose, More
    <3>2. CASE i = Len(s)
      BY <1>1, <3>2 DEF More
    <3> QED BY <1>1, <1>2, <3>1, <3>2
  <2> QED BY <2>1 DEF NoClose
<1>4. CASE c = "*"
  <2>1. Delta("ML_COMMENT", c) = Go("ML_COMMENT2") /\ "ML_COMMENT2" \in States \ {"START"}
    BY <1>4 DEF Delta, States
  <2>2. Partial("ML_COMMENT2", t)
    BY <1>2, <1>3, <1>4 DEF Partial
  <2>3. c # NUL
    BY <1>4 DEF NUL
  <2> QED BY <2>1, <2>2, <2>3, MeetsGo
<1>5. CASE c # "*"
  <2>1. Delta("ML_COMMENT", c) = Go("ML_COMMENT") /\ "ML_COMMENT" \in States \ {"START"}
    BY <1>5 DEF Delta, States
  <2>2. Partial("ML_COMMENT", t)
    BY <1>2, <1>3, <1>5 DEF Partial
  <2>3. c = NUL => Shape(NoToken, t)
    <3>1. t[1] = "/" /\ t[2] = "*" /\ Last(t) = c
      BY <1>2 DEF Opens, More
    <3> QED BY <3>1, ShapeIs
  <2> QED BY <2>1, <2>2, <2>3, MeetsGo, MeetsNul
<1> QED BY <1>4, <1>5

(* i_ML_COMMENT2.                                                           *)
LEMMA AtCommentStar ==
  ASSUME NEW s, NEW c, NEW t, More(t, s, c), Partial("ML_COMMENT2", s)
  PROVE  Meets("ML_COMMENT2", s, c, t)
<1>1. Opens(s, "*") /\ NoClose(s) /\ Len(s) > 2 /\ s[Len(s)] = "*" /\ Len(s) \in Nat
  BY DEF Partial, More
<1>2. /\ Opens(t, "*") /\ Len(t) > 2 /\ Len(t) = Len(s) + 1 /\ t[Len(t)] = c
      /\ t[Len(s)] = "*" /\ t \in Seq(Codes)
  BY <1>1 DEF Opens, More
<1>3. \A i \in 3 .. Len(s) - 1 : ~(t[i] = "*" /\ t[i + 1] = "/")
  <2>1. ASSUME NEW i \in 3 .. Len(s) - 1 PROVE t[i] = s[i] /\ t[i + 1] = s[i + 1]
    BY <1>1 DEF More
  <2> QED BY <1>1, <2>1 DEF NoClose
<1>4. c # "/" => NoClose(t)
  <2>1. \A i \in 3 .. Len(t) - 1 : i = Len(s) \/ i \in 3 .. Len(s) - 1
    BY <1>1, <1>2
  <2>2. c # "/" => ~(t[Len(s) + 1] = "/")
    BY <1>2
  <2> QED BY <1>3, <2>1, <2>2 DEF NoClose
<1>5. CASE c = "/"
  <2>1. Delta("ML_COMMENT2", c) = Valid("MLCOM") /\ "MLCOM" \in Tokens
    BY <1>5 DEF Delta, Tokens
  <2>2. SubSeq(t, 1, 2) = <<"/", "*">>
    BY <1>2, Two DEF Opens
  <2>3. FirstAt(t, "*", "/", 3) = {Len(t) - 1}
    <3>1. Len(s) \in 3 .. Len(t) - 1 /\ t[Len(s)] = "*" /\ t[Len(s) + 1] = "/" /\ Len(t) - 1 = Len(s)
      BY <1>1, <1>2, <1>5
    <3>2. \A i \in 3 .. Len(t) - 1 : i = Len(s) \/ i \in 3 .. Len(s) - 1
      BY <1>1, <1>2
    <3> QED BY <1>3, <3>1, <3>2 DEF FirstAt
  <2>4. Shape("MLCOM", t)
    BY <2>2, <2>3, ShapeIs
  <2> QED BY <2>1, <2>4, MeetsValid
<1>6. CASE c = "*"
  <2>1. Delta("ML_COMMENT2", c) = Go("ML_COMMENT2") /\ "ML_COMMENT2" \in States \ {"START"}
    BY <1>6 DEF Delta, States
  <2>2. Partial("ML_COMMENT2", t)
    BY <1>2, <1>4, <1>6 DEF Partial
  <2>3. c # NUL
    BY <1>6 DEF NUL
  <2> QED BY <2>1, <2>2, <2>3, MeetsGo
<1>7. CASE c # "/" /\ c # "*"
  <2>1. Delta("ML_COMMENT2", c) = Go("ML_COMMENT") /\ "ML_COMMENT" \in States \ {"START"}
    BY <1>7 DEF Delta, States
  <2>2. Partial("ML_COMMENT", t)
    BY <1>2, <1>4, <1>7 DEF Partial
  <2>3. c = NUL => Shape(NoToken, t)
    <3>1. t[1] = "/" /\ t[2] = "*" /\ Last(t) = c
      BY <1>2 DEF Opens, More
    <3> QED BY <3>1, ShapeIs
  <2> QED BY <2>1, <2>2, <2>3, MeetsGo, MeetsNul
<1> QED BY <1>5, <1>6, <1>7

(* i_IDENTIFIER.                                                            *)
LEMMA AtIdentifier ==
  ASSUME NEW s, NEW c, NEW t, More(t, s, c), Partial("IDENTIFIER", s)
  PROVE  Meets("IDENTIFIER", s, c, t)
<1> DEFINE Set == Letter \cup Octal \cup {"_"}
<1>1. s # <<>> /\ Over(s, Set) /\ s[1] \notin Octal /\ s \in Seq(Codes) /\ 1 \in 1 .. Len(s)
  <2>1. s # <<>> /\ Over(s, Set) /\ s[1] \notin Octal /\ s \in Seq(Codes)
    BY DEF Partial, More
  <2>2. Len(s) \in Nat \ {0}
    BY <2>1, EmptySeq
  <2>3. 1 \in 1 .. Len(s)
    BY <2>2
  <2> HIDE DEF Set
  <2> QED BY <2>1, <2>3
<1>2. NUL \notin Set
  BY DEF Letter, Octal, NUL
<1>3. CASE c \in Set
  <2>1. Delta("IDENTIFIER", c) = Go("IDENTIFIER") /\ "IDENTIFIER" \in States \ {"START"}
    BY <1>3 DEF Delta, States
  <2>2. t # <<>> /\ t[1] \notin Octal /\ Over(t, Set)
    <3> HIDE DEF Set
    <3> QED BY <1>1, <1>3 DEF More, Over
  <2>3. Partial("IDENTIFIER", t)
    BY <2>2 DEF Partial
  <2> QED BY <1>2, <1>3, <2>1, <2>3, MeetsGo
<1>4. CASE c \notin Set
  <2>1. Delta("IDENTIFIER", c) = Store("IDENT") /\ "IDENT" \in Tokens
    BY <1>4 DEF Delta, Tokens
  <2>2. Shape("IDENT", s)
    BY <1>1, ShapeIs, AllIs
  <2> QED BY <1>4, <2>1, <2>2, ExtendsIs, MeetsStore
<1> QED BY <1>3, <1>4

(* i_STRING and i_STRING_ESCAPE.                                             *)
LEMMA AtString ==
  ASSUME NEW s, NEW c, NEW t, More(t, s, c), NEW state \in {"STRING", "STRING_SCAPE"},
         Partial(state, s)
  PROVE  Meets(state, s, c, t)
<1>1. s # <<>> /\ s[1] = "quote" /\ s \in Seq(Codes)
  BY DEF Partial, More
<1>2. Len(s) \in Nat \ {0}
  BY <1>1, EmptySeq
<1>3. t # <<>> /\ t[1] = "quote" /\ Len(t) >= 2 /\ Last(t) = c
  BY <1>1, <1>2 DEF More
<1>4. CASE state = "STRING" /\ c = "quote"
  <2>1. Delta(state, c) = Valid("STRING") /\ "STRING" \in Tokens
    BY <1>4 DEF Delta, Tokens
  <2> QED BY <1>3, <1>4, <2>1, ShapeIs, MeetsValid
<1>5. CASE ~(state = "STRING" /\ c = "quote")
  <2>1. \E next \in {"STRING", "STRING_SCAPE"} : Delta(state, c) = Go(next)
    BY <1>5 DEF Delta
  <2>2. PICK next \in {"STRING", "STRING_SCAPE"} : Delta(state, c) = Go(next)
    BY <2>1
  <2>3. Partial("STRING", t) /\ Partial("STRING_SCAPE", t)
    BY <1>3 DEF Partial
  <2>4. next \in States \ {"START"} /\ Partial(next, t)
    BY <2>3 DEF States
  <2>5. c = NUL => Shape(NoToken, t)
    BY <1>3, ShapeIs
  <2> QED BY <2>2, <2>4, <2>5, MeetsGo, MeetsNul
<1> QED BY <1>4, <1>5

(* i_HEX.                                                                   *)
LEMMA AtHex ==
  ASSUME NEW s, NEW c, NEW t, More(t, s, c), Partial("HEX", s)
  PROVE  Meets("HEX", s, c, t)
<1> DEFINE Set == Octal \cup HexLetter
<1>1. /\ Len(s) >= 2 /\ s[1] = "0" /\ s[2] = "x" /\ s \in Seq(Codes) /\ Len(s) \in Nat
      /\ \A i \in 3 .. Len(s) : s[i] \in Set
  BY DEF Partial, More
<1>2. NUL \notin Set
  BY DEF Octal, HexLetter, NUL
<1>3. CASE c \in Set
  <2>1. Delta("HEX", c) = Go("HEX") /\ "HEX" \in States \ {"START"}
    BY <1>3 DEF Delta, States
  <2>2. Len(t) >= 2 /\ t[1] = "0" /\ t[2] = "x" /\ \A i \in 3 .. Len(t) : t[i] \in Set
    <3> HIDE DEF Set
    <3>1. \A i \in 3 .. Len(t) : i = Len(s) + 1 \/ i \in 3 .. Len(s)
      BY <1>1 DEF More
    <3> QED BY <1>1, <1>3, <3>1 DEF More
  <2>3. Partial("HEX", t)
    BY <2>2 DEF Partial
  <2> QED BY <1>2, <1>3, <2>1, <2>3, MeetsGo
<1>4. Shape("HEX", s)
  <2> DEFINE u == From(s, 3)
  <2> HIDE DEF Set
  <2>1. \A i \in 1 .. Len(s) : s[i] \in Codes
    BY <1>1, ElementOfSeq
  <2>2. /\ u \in Seq(Codes) /\ Len(u) = (IF 3 <= Len(s) THEN Len(s) - 3 + 1 ELSE 0)
        /\ \A i \in 1 .. Len(s) - 3 + 1 : u[i] = s[3 + i - 1]
    <3>1. \A i \in 3 .. Len(s) : s[i] \in Codes
      BY <1>1, <2>1
    <3> QED BY <1>1, <3>1, SubSeqProperties DEF From
  <2> HIDE DEF u
  <2>3. Over(u, Set)
    BY <1>1, <2>2 DEF Over
  <2>4. Range(u) \subseteq Set
    BY <2>2, <2>3, RangeOver
  <2> QED BY <1>1, <2>4, ShapeIs DEF u, Set
<1>5. CASE c \notin Set /\ c \in Letter
  <2>1. Delta("HEX", c) = Valid("UNDEF") /\ "UNDEF" \in Tokens
    BY <1>5 DEF Delta, EndNumber, Tokens
  <2> QED BY <2>1, ShapeIs, MeetsValid
<1>6. CASE c \notin Set /\ c \notin Letter
  <2>1. Delta("HEX", c) = Store("HEX") /\ "HEX" \in Tokens
    BY <1>6 DEF Delta, EndNumber, Tokens
  <2>2. c \notin Extends("HEX", s)
    BY <1>6, ExtendsIs
  <2> QED BY <1>4, <2>1, <2>2, MeetsStore
<1> QED BY <1>3, <1>5, <1>6

(* i_INT.                                                                   *)
LEMMA AtInt ==
  ASSUME NEW s, NEW c, NEW t, More(t, s, c), Partial("INT", s)
  PROVE  Meets("INT", s, c, t)
<1>1. /\ s # <<>> /\ Over(s, Octal) /\ s # <<"0">> /\ s \in Seq(Codes) /\ Len(s) \in Nat \ {0}
      /\ Len(t) = Len(s) + 1 /\ t[Len(s) + 1] = c /\ \A i \in 1 .. Len(s) : t[i] = s[i]
  <2>1. s # <<>> /\ s \in Seq(Codes)
    BY DEF Partial, More
  <2>2. Len(s) \in Nat \ {0}
    BY <2>1, EmptySeq
  <2> QED BY <2>1, <2>2 DEF Partial, More
<1>2. NUL \notin Octal /\ NUL # "."
  BY DEF Octal, NUL
<1>3. CASE c \in Octal
  <2>1. Delta("INT", c) = Go("INT") /\ "INT" \in States \ {"START"}
    BY <1>3 DEF Delta, States
  <2>2. t # <<>> /\ Over(t, Octal) /\ t # <<"0">>
    <3>1. Len(t) # 1
      BY <1>1
    <3>2. \A i \in 1 .. Len(t) : i = Len(s) + 1 \/ i \in 1 .. Len(s)
      BY <1>1
    <3>3. Over(t, Octal)
      BY <1>1, <1>3, <3>2 DEF Over
    <3>4. t # <<>> /\ t # <<"0">>
      BY <3>1 DEF More
    <3> QED BY <3>3, <3>4
  <2>3. Partial("INT", t)
    BY <2>2 DEF Partial
  <2> QED BY <1>2, <1>3, <2>1, <2>3, MeetsGo
<1>4. CASE c = "."
  <2>1. Delta("INT", c) = Go("REAL") /\ "REAL" \in States \ {"START"}
    BY <1>4 DEF Delta, States, Octal
  <2>2. Real(t, Len(t), Len(t) + 1)
    <3>1. Len(t) \in 1 .. Len(t) /\ Len(t) + 1 \in Len(t) + 1 .. Len(t) + 1 /\ t[Len(t)] = "."
      BY <1>1, <1>4
    <3>2. \A i \in 1 .. (Len(t) + 1) - 1 : i # Len(t) => t[i] \in Octal
      BY <1>1 DEF Over
    <3>3. Len(t) # 1 /\ \A i \in (Len(t) + 1) + 1 .. Len(t) : FALSE
      BY <1>1
    <3>4. ~(Len(t) + 1 <= Len(t))
      BY <1>1
    <3> QED BY <3>1, <3>2, <3>3, <3>4 DEF Real
  <2>3. Len(t) \in 1 .. Len(t)
    BY <1>1
  <2>4. Partial("REAL", t)
    BY <2>2, <2>3 DEF Partial
  <2> QED BY <1>2, <1>4, <2>1, <2>4, MeetsGo
<1>5. CASE c \in Letter
  <2>1. Delta("INT", c) = Valid("UNDEF") /\ "UNDEF" \in Tokens
    BY <1>5 DEF Delta, EndNumber, Tokens, Letter, Octal
  <2> QED BY <2>1, ShapeIs, MeetsValid
<1>6. CASE c \notin Octal /\ c # "." /\ c \notin Letter
  <2>1. Delta("INT", c) = Store("INTEGER") /\ "INTEGER" \in Tokens
    BY <1>6 DEF Delta, EndNumber, Tokens
  <2>2. Shape("INTEGER", s)
    BY <1>1, ShapeIs, AllIs
  <2>3. c \notin Extends("INTEGER", s)
    BY <1>1, <1>6, ExtendsIs
  <2> QED BY <2>1, <2>2, <2>3, MeetsStore
<1> QED BY <1>3, <1>4, <1>5, <1>6

(* A point before or behind a digit.                                         *)
LEMMA Pointed ==
  ASSUME NEW t, Len(t) = 2,
         (t[1] = "." /\ t[2] \in Octal) \/ (t[1] \in Octal /\ t[2] = ".")
  PROVE  Partial("REAL", t)
<1>1. \A i \in 1 .. 2 : i = 1 \/ i = 2
  OBVIOUS
<1>2. CASE t[1] = "." /\ t[2] \in Octal
  <2>1. Real(t, 1, Len(t) + 1)
    BY <1>1, <1>2 DEF Real
  <2> QED BY <2>1 DEF Partial
<1>3. CASE t[1] \in Octal /\ t[2] = "."
  <2>1. Real(t, 2, Len(t) + 1)
    BY <1>1, <1>3 DEF Real
  <2> QED BY <2>1 DEF Partial
<1> QED BY <1>2, <1>3

(* i_PERIOD.                                                                *)
LEMMA AtPeriod ==
  ASSUME NEW s, NEW c, NEW t, More(t, s, c), Partial("PERIOD", s)
  PROVE  Meets("PERIOD", s, c, t)
<1>1. s = <<".">> /\ Len(s) = 1 /\ s[1] = "."
  BY DEF Partial
<1>2. Len(t) = 2 /\ t[1] = "." /\ t[2] = c
  BY <1>1 DEF More
<1>3. CASE c \in Octal
  <2>1. Delta("PERIOD", c) = Go("REAL") /\ "REAL" \in States \ {"START"}
    BY <1>3 DEF Delta, States
  <2>2. c # NUL
    BY <1>3 DEF Octal, NUL
  <2> QED BY <1>2, <1>3, <2>1, <2>2, Pointed, MeetsGo
<1>4. CASE c \notin Octal
  <2>1. Delta("PERIOD", c) = Store("PERIOD") /\ "PERIOD" \in Tokens
    BY <1>4 DEF Delta, Tokens
  <2> QED BY <1>1, <2>1, ShapeIs, ExtendsIs, MeetsStore
<1> QED BY <1>3, <1>4

(* i_ZERO.                                                                  *)
LEMMA AtZero ==
  ASSUME NEW s, NEW c, NEW t, More(t, s, c), Partial("ZERO", s)
  PROVE  Meets("ZERO", s, c, t)
<1>1. s = <<"0">> /\ Len(s) = 1 /\ s[1] = "0" /\ s \in Seq(Codes)
  BY DEF Partial, More
<1>2. Len(t) = 2 /\ t[1] = "0" /\ t[2] = c
  BY <1>1 DEF More
<1>3. \A i \in 1 .. 2 : i = 1 \/ i = 2
  OBVIOUS
<1>4. CASE c = "x"
  <2>1. Delta("ZERO", c) = Go("HEX") /\ "HEX" \in States \ {"START"}
    BY <1>4 DEF Delta, States
  <2>2. Partial("HEX", t)
    BY <1>2, <1>4 DEF Partial
  <2>3. c # NUL
    BY <1>4 DEF NUL
  <2> QED BY <2>1, <2>2, <2>3, MeetsGo
<1>5. CASE c = "."
  <2>1. Delta("ZERO", c) = Go("REAL") /\ "REAL" \in States \ {"START"}
    BY <1>5 DEF Delta, States
  <2>2. c # NUL
    BY <1>5 DEF NUL
  <2>3. t[1] \in Octal
    BY <1>2 DEF Octal
  <2> QED BY <1>2, <1>5, <2>1, <2>2, <2>3, Pointed, MeetsGo
<1>6. CASE c \in Octal
  <2>1. Delta("ZERO", c) = Go("INT") /\ "INT" \in States \ {"START"}
    BY <1>6 DEF Delta, States, Octal
  <2>2. c # NUL /\ "0" \in Octal
    BY <1>6 DEF Octal, NUL
  <2>3. Over(t, Octal)
    BY <1>2, <1>3, <1>6, <2>2 DEF Over
  <2>4. t # <<>> /\ t # <<"0">>
    BY <1>2 DEF More
  <2>5. Partial("INT", t)
    BY <2>3, <2>4 DEF Partial
  <2> QED BY <2>1, <2>2, <2>5, MeetsGo
<1>7. CASE c # "x" /\ c # "." /\ c \notin Octal
  <2>1. Delta("ZERO", c) = Store("INTEGER") /\ "INTEGER" \in Tokens
    BY <1>7 DEF Delta, Tokens
  <2>2. Over(s, Octal) /\ s # <<>>
    BY <1>1 DEF Over, Octal
  <2>3. Shape("INTEGER", s)
    BY <1>1, <2>2, ShapeIs, AllIs
  <2>4. c \notin Extends("INTEGER", s)
    BY <1>1, <1>7, ExtendsIs
  <2> QED BY <2>1, <2>3, <2>4, MeetsStore
<1> QED BY <1>4, <1>5, <1>6, <1>7

(* A number that has what a real number needs.                               *)
LEMMA RealIs ==
  ASSUME NEW s \in Seq(Codes), NEW p \in 1 .. Len(s), NEW x \in 1 .. Len(s) + 1, Real(s, p, x),
         x # Len(s)
  PROVE  Shape("REAL", s)
<1>1. /\ Len(s) \in Nat /\ p \in Nat /\ x \in p + 1 .. Len(s) + 1 /\ s[p] = "."
      /\ \A i \in 1 .. x - 1 : i # p => s[i] \in Octal
      /\ p = 1 => x > p + 1
      /\ x <= Len(s) => s[x] = "e"
      /\ \A i \in x + 1 .. Len(s) : s[i] \in Octal \cup {"-"}
  BY LenProperties DEF Real
<1>2. \A i \in 1 .. Len(s) : s[i] \in Codes
  BY ElementOfSeq
<1>3. ASSUME NEW m \in 1 .. Len(s) + 1, NEW n \in 0 .. Len(s), NEW Set,
             \A i \in m .. n : s[i] \in Set
      PROVE  /\ SubSeq(s, m, n) \in Seq(Codes) /\ Range(SubSeq(s, m, n)) \subseteq Set
             /\ Len(SubSeq(s, m, n)) = (IF m <= n THEN n - m + 1 ELSE 0)
  <2> DEFINE u == SubSeq(s, m, n)
  <2>1. m \in Int /\ n \in Int /\ \A i \in m .. n : s[i] \in Codes
    BY <1>1, <1>2
  <2>2. /\ u \in Seq(Codes) /\ Len(u) = (IF m <= n THEN n - m + 1 ELSE 0)
        /\ \A i \in 1 .. n - m + 1 : u[i] = s[m + i - 1]
    BY <2>1, SubSeqProperties
  <2> HIDE DEF u
  <2>3. Over(u, Set)
    <3>1. ASSUME NEW i \in 1 .. Len(u) PROVE u[i] \in Set
      <4>1. i \in 1 .. n - m + 1 /\ m + i - 1 \in m .. n
        BY <2>1, <2>2
      <4> QED BY <1>3, <2>2, <4>1
    <3> QED BY <3>1 DEF Over
  <2>4. Range(u) \subseteq Set
    BY <2>2, <2>3, RangeOver
  <2> QED BY <2>2, <2>4 DEF u
<1>4. Range(SubSeq(s, 1, p - 1)) \subseteq Octal
  <2>1. 1 \in 1 .. Len(s) + 1 /\ p - 1 \in 0 .. Len(s) /\ \A i \in 1 .. p - 1 : s[i] \in Octal
    BY <1>1
  <2> QED BY <1>3, <2>1
<1>5. Range(SubSeq(s, p + 1, x - 1)) \subseteq Octal
  <2>1. p + 1 \in 1 .. Len(s) + 1 /\ x - 1 \in 0 .. Len(s) /\ \A i \in p + 1 .. x - 1 : s[i] \in Octal
    BY <1>1
  <2> QED BY <1>3, <2>1
<1>6. x <= Len(s) => s[x] = "e" /\ All(From(s, x + 1), Octal \cup {"-"})
  <2> SUFFICES ASSUME x <= Len(s) PROVE s[x] = "e" /\ All(From(s, x + 1), Octal \cup {"-"})
    OBVIOUS
  <2> DEFINE u == SubSeq(s, x + 1, Len(s))
  <2>1. x + 1 \in 1 .. Len(s) + 1 /\ Len(s) \in 0 .. Len(s) /\ x < Len(s)
    BY <1>1
  <2>2. /\ u \in Seq(Codes) /\ Range(u) \subseteq Octal \cup {"-"}
        /\ Len(u) = (IF x + 1 <= Len(s) THEN Len(s) - (x + 1) + 1 ELSE 0)
    BY <1>1, <1>3, <2>1
  <2> HIDE DEF u
  <2>3. u # <<>>
    <3>1. Len(u) # 0
      BY <1>1, <2>1, <2>2
    <3> QED BY <3>1, EmptySeq
  <2>4. All(From(s, x + 1), Octal \cup {"-"})
    BY <2>2, <2>3 DEF All, From, u
  <2> QED BY <1>1, <2>4
<1>7. p \in DOMAIN s
  BY LenProperties
<1>8. IsReal(s)
  BY <1>1, <1>4, <1>5, <1>6, <1>7 DEF IsReal
<1> QED BY <1>8, ShapeIs

(* A real number that is longer by one.                                      *)
LEMMA RealMore ==
  ASSUME NEW s, NEW c, NEW t, More(t, s, c), NEW p \in 1 .. Len(s), NEW x \in 1 .. Len(s) + 1,
         Real(s, p, x)
  PROVE  /\ x = Len(s) + 1 /\ c \in Octal => Real(t, p, Len(t) + 1)
         /\ x = Len(s) + 1 /\ c = "e" => Real(t, p, Len(t))
         /\ x # Len(s) + 1 /\ c \in Octal \cup {"-"} => Real(t, p, x)
<1>1. /\ Len(s) \in Nat /\ p \in Nat /\ x \in p + 1 .. Len(s) + 1 /\ s[p] = "."
      /\ \A i \in 1 .. x - 1 : i # p => s[i] \in Octal
      /\ p = 1 => x > p + 1
      /\ x <= Len(s) => s[x] = "e"
      /\ \A i \in x + 1 .. Len(s) : s[i] \in Octal \cup {"-"}
  BY DEF Real, More
<1>2. Len(t) = Len(s) + 1 /\ t[Len(s) + 1] = c /\ \A i \in 1 .. Len(s) : t[i] = s[i]
  BY DEF More
<1>3. p \in 1 .. Len(t) /\ t[p] = "."
  BY <1>1, <1>2
<1>4. ASSUME x = Len(s) + 1, c \in Octal PROVE Real(t, p, Len(t) + 1)
  <2>1. Len(t) + 1 \in p + 1 .. Len(t) + 1 /\ (p = 1 => Len(t) + 1 > p + 1)
    BY <1>1, <1>2
  <2>2. \A i \in 1 .. (Len(t) + 1) - 1 : i # p => t[i] \in Octal
    <3>1. ASSUME NEW i \in 1 .. (Len(t) + 1) - 1, i # p PROVE t[i] \in Octal
      <4>1. i = Len(s) + 1 \/ (i \in 1 .. Len(s) /\ i \in 1 .. x - 1)
        BY <1>1, <1>2, <1>4
      <4> QED BY <1>1, <1>2, <1>4, <3>1, <4>1
    <3> QED BY <3>1
  <2>3. ~(Len(t) + 1 <= Len(t)) /\ \A i \in (Len(t) + 1) + 1 .. Len(t) : FALSE
    BY <1>1, <1>2
  <2> QED BY <1>3, <2>1, <2>2, <2>3 DEF Real
<1>5. ASSUME x = Len(s) + 1, c = "e" PROVE Real(t, p, Len(t))
  <2>1. Len(t) \in p + 1 .. Len(t) + 1 /\ (p = 1 => Len(t) > p + 1) /\ t[Len(t)] = "e"
    BY <1>1, <1>2, <1>5
  <2>2. \A i \in 1 .. Len(t) - 1 : i # p => t[i] \in Octal
    BY <1>1, <1>2, <1>5
  <2>3. \A i \in Len(t) + 1 .. Len(t) : FALSE
    BY <1>1, <1>2
  <2> QED BY <1>3, <2>1, <2>2, <2>3 DEF Real
<1>6. ASSUME x # Len(s) + 1, c \in Octal \cup {"-"} PROVE Real(t, p, x)
  <2>1. x \in p + 1 .. Len(t) + 1 /\ (p = 1 => x > p + 1) /\ x \in 1 .. Len(s) /\ t[x] = "e"
    BY <1>1, <1>2, <1>6
  <2>2. \A i \in 1 .. x - 1 : i # p => t[i] \in Octal
    BY <1>1, <1>2, <1>6, <2>1
  <2>3. \A i \in x + 1 .. Len(t) : t[i] \in Octal \cup {"-"}
    <3>1. \A i \in x + 1 .. Len(t) : i = Len(s) + 1 \/ (i \in x + 1 .. Len(s) /\ i \in 1 .. Len(s))
      BY <1>1, <1>2
    <3> QED BY <1>1, <1>2, <1>6, <3>1
  <2> QED BY <1>3, <2>1, <2>2, <2>3 DEF Real
<1> QED BY <1>4, <1>5, <1>6

(* i_REAL.                                                                  *)
LEMMA AtReal ==
  ASSUME NEW s, NEW c, NEW t, More(t, s, c), Partial("REAL", s)
  PROVE  Meets("REAL", s, c, t)
<1>1. PICK p \in 1 .. Len(s) : Real(s, p, Len(s) + 1)
  BY DEF Partial
<1>2. s \in Seq(Codes) /\ Len(s) \in Nat /\ Len(t) = Len(s) + 1
  BY DEF More
<1>3. Len(s) + 1 \in 1 .. Len(s) + 1 /\ Len(s) + 1 # Len(s) /\ p \in 1 .. Len(t)
      /\ (p = 1 => Len(s) > 1)
  BY <1>1, <1>2 DEF Real
<1>4. CASE c \in Octal
  <2>1. Delta("REAL", c) = Go("REAL") /\ "REAL" \in States \ {"START"}
    BY <1>4 DEF Delta, States
  <2>2. Partial("REAL", t)
    BY <1>1, <1>3, <1>4, RealMore DEF Partial
  <2>3. c # NUL
    BY <1>4 DEF Octal, NUL
  <2> QED BY <2>1, <2>2, <2>3, MeetsGo
<1>5. CASE c = "e"
  <2>1. Delta("REAL", c) = Go("EXP") /\ "EXP" \in States \ {"START"}
    BY <1>5 DEF Delta, States, Octal
  <2>2. Partial("EXP", t)
    BY <1>1, <1>3, <1>5, RealMore DEF Partial
  <2>3. c # NUL
    BY <1>5 DEF NUL
  <2> QED BY <2>1, <2>2, <2>3, MeetsGo
<1>6. CASE c \notin Octal /\ c # "e" /\ c \in Letter
  <2>1. Delta("REAL", c) = Valid("UNDEF") /\ "UNDEF" \in Tokens
    BY <1>6 DEF Delta, EndNumber, Tokens
  <2> QED BY <2>1, ShapeIs, MeetsValid
<1>7. CASE c \notin Octal /\ c # "e" /\ c \notin Letter
  <2>1. Delta("REAL", c) = Store("REAL") /\ "REAL" \in Tokens
    BY <1>7 DEF Delta, EndNumber, Tokens
  <2>2. Shape("REAL", s)
    BY <1>1, <1>2, <1>3, RealIs
  <2>3. c \notin Extends("REAL", s)
    BY <1>7, ExtendsIs
  <2> QED BY <2>1, <2>2, <2>3, MeetsStore
<1> QED BY <1>4, <1>5, <1>6, <1>7

(* i_EXP.                                                                   *)
LEMMA AtExp ==
  ASSUME NEW s, NEW c, NEW t, More(t, s, c), Partial("EXP", s)
  PROVE  Meets("EXP", s, c, t)
<1>1. PICK p \in 1 .. Len(s) : Real(s, p, Len(s))
  BY DEF Partial
<1>2. s \in Seq(Codes) /\ Len(s) \in Nat /\ Len(t) = Len(s) + 1
  BY DEF More
<1>3. Len(s) \in 1 .. Len(s) + 1 /\ Len(s) # Len(s) + 1 /\ p \in 1 .. Len(t)
      /\ Len(s) \in 1 .. Len(t) - 1
  BY <1>1, <1>2
<1>4. CASE c \in Octal \cup {"-"}
  <2>1. Delta("EXP", c) = Go("EXP1") /\ "EXP1" \in States \ {"START"}
    BY <1>4 DEF Delta, States
  <2>2. Real(t, p, Len(s))
    BY <1>1, <1>3, <1>4, RealMore
  <2>3. Partial("EXP1", t)
    BY <1>3, <2>2 DEF Partial
  <2>4. c # NUL
    BY <1>4 DEF Octal, NUL
  <2> QED BY <2>1, <2>3, <2>4, MeetsGo
<1>5. CASE c \notin Octal \cup {"-"}
  <2>1. Delta("EXP", c) = Valid("UNDEF") /\ "UNDEF" \in Tokens
    BY <1>5 DEF Delta, Tokens
  <2> QED BY <2>1, ShapeIs, MeetsValid
<1> QED BY <1>4, <1>5

(* i_EXP1.                                                                  *)
LEMMA AtExp1 ==
  ASSUME NEW s, NEW c, NEW t, More(t, s, c), Partial("EXP1", s)
  PROVE  Meets("EXP1", s, c, t)
<1>1. PICK p \in 1 .. Len(s), x \in 1 .. Len(s) - 1 : Real(s, p, x)
  BY DEF Partial
<1>2. s \in Seq(Codes) /\ Len(s) \in Nat /\ Len(t) = Len(s) + 1
  BY DEF More
<1>3. x \in 1 .. Len(s) + 1 /\ x # Len(s) + 1 /\ x # Len(s) /\ p \in 1 .. Len(t)
      /\ x \in 1 .. Len(t) - 1
  BY <1>1, <1>2
<1>4. CASE c \in Octal \cup {"-"}
  <2>1. Delta("EXP1", c) = Go("EXP1") /\ "EXP1" \in States \ {"START"}
    BY <1>4 DEF Delta, States
  <2>2. Real(t, p, x)
    BY <1>1, <1>3, <1>4, RealMore
  <2>3. Partial("EXP1", t)
    BY <1>3, <2>2 DEF Partial
  <2>4. c # NUL
    BY <1>4 DEF Octal, NUL
  <2> QED BY <2>1, <2>3, <2>4, MeetsGo
<1>5. CASE c \notin Octal \cup {"-"} /\ c \in Letter
  <2>1. Delta("EXP1", c) = Valid("UNDEF") /\ "UNDEF" \in Tokens
    BY <1>5 DEF Delta, EndNumber, Tokens
  <2> QED BY <2>1, ShapeIs, MeetsValid
<1>6. CASE c \notin Octal \cup {"-"} /\ c \notin Letter
  <2>1. Delta("EXP1", c) = Store("REAL") /\ "REAL" \in Tokens
    BY <1>6 DEF Delta, EndNumber, Tokens
  <2>2. Shape("REAL", s)
    BY <1>1, <1>2, <1>3, RealIs
  <2>3. c \notin Extends("REAL", s)
    BY <1>6, ExtendsIs
  <2> QED BY <2>1, <2>2, <2>3, MeetsStore
<1> QED BY <1>4, <1>5, <1>6

(* What was read of the token under way belongs to the state of the automaton. *)
ShapeInv == lex \in States => Partial(lex, lexeme) /\ (lex = "START" => code # NUL)

(* The outcomes of the automaton are told apart by their fields.              *)
LEMMA Apart ==
  ASSUME NEW a, NEW b
  PROVE  /\ a # "END" => Go(a) # Valid(b) /\ Go(a) # Store(b)
         /\ Valid(a) # Store(b)
         /\ Go(a) = Go(b) => a = b
         /\ Valid(a) = Valid(b) => a = b
         /\ Store(a) = Store(b) => a = b
<1>1. /\ Go(a).state = a /\ Go(b).state = b /\ Valid(a).token = a /\ Valid(b).token = b
      /\ Store(a).token = a /\ Store(b).token = b /\ Valid(b).state = "END"
      /\ Store(b).state = "END" /\ Valid(a).char = "VALID" /\ Store(b).char = "STORE"
  BY DEF Go, Valid, Store
<1> QED BY <1>1, Zenon

(* The automaton, in every state and for every character.                    *)
LEMMA DeltaMeets ==
  ASSUME NEW state \in States, NEW s \in Seq(Codes), NEW c \in Codes, Partial(state, s),
         state = "START" => c # NUL
  PROVE  Meets(state, s, c, Append(s, c))
<1> DEFINE t == Append(s, c)
<1>1. More(t, s, c)
  BY OneMore
<1> HIDE DEF t
<1>2. CASE state = "START"
  BY <1>1, <1>2, AtStart DEF t
<1>3. CASE state = "SPACES"
  BY <1>1, <1>3, AtSpaces DEF t
<1>4. CASE state = "SLASH"
  BY <1>1, <1>4, AtSlash DEF t
<1>5. CASE state = "SL_COMMENT"
  BY <1>1, <1>5, AtLineComment DEF t
<1>6. CASE state = "ML_COMMENT"
  BY <1>1, <1>6, AtComment DEF t
<1>7. CASE state = "ML_COMMENT2"
  BY <1>1, <1>7, AtCommentStar DEF t
<1>8. CASE state = "PERIOD"
  BY <1>1, <1>8, AtPeriod DEF t
<1>9. CASE state = "IDENTIFIER"
  BY <1>1, <1>9, AtIdentifier DEF t
<1>10. CASE state \in {"STRING", "STRING_SCAPE"}
  BY <1>1, <1>10, AtString DEF t
<1>11. CASE state = "ZERO"
  BY <1>1, <1>11, AtZero DEF t
<1>12. CASE state = "INT"
  BY <1>1, <1>12, AtInt DEF t
<1>13. CASE state = "HEX"
  BY <1>1, <1>13, AtHex DEF t
<1>14. CASE state = "REAL"
  BY <1>1, <1>14, AtReal DEF t
<1>15. CASE state = "EXP"
  BY <1>1, <1>15, AtExp DEF t
<1>16. CASE state = "EXP1"
  BY <1>1, <1>16, AtExp1 DEF t
<1> QED
  BY <1>2, <1>3, <1>4, <1>5, <1>6, <1>7, <1>8, <1>9, <1>10, <1>11, <1>12, <1>13, <1>14, <1>15, <1>16
  DEF States

(* The automaton on the character under way.                                *)
LEMMA ScanMeets ==
  ASSUME LexInv, ShapeInv, lex \in States
  PROVE  /\ Meets(lex, lexeme, code, Append(lexeme, code))
         /\ lexeme \in Seq(Codes) /\ code \in Codes
<1>1. lexeme \in Seq(Codes) /\ code \in Codes
  BY DEF LexInv, LexTypeOK, Busy
<1>2. Partial(lex, lexeme) /\ (lex = "START" => code # NUL)
  BY DEF ShapeInv
<1> QED BY <1>1, <1>2, DeltaMeets

(* The shape is kept, and goes on with the automaton.                        *)
LEMMA ShapeKept == LexInv /\ ShapeInv /\ [LexNext]_vars => ShapeInv'
<1> SUFFICES ASSUME LexInv, ShapeInv, [LexNext]_vars PROVE ShapeInv'
  OBVIOUS
<1>1. CASE Begin
  <2>1. /\ lexeme' = <<>>
        /\ code' # NUL => lex' = "START"
        /\ code' = NUL => lex' = "idle"
    BY <1>1, BeginStep
  <2>2. "idle" \notin States
    BY DEF States
  <2>3. Partial("START", <<>>)
    BY DEF Partial
  <2>4. CASE code' = NUL
    BY <2>1, <2>2, <2>4 DEF ShapeInv
  <2>5. CASE code' # NUL
    <3>1. lexeme' = <<>> /\ lex' = "START"
      BY <2>1, <2>5
    <3>2. Partial(lex', lexeme')
      BY <2>3, <3>1, Zenon
    <3> QED BY <2>5, <3>2 DEF ShapeInv
  <2> QED BY <2>4, <2>5
<1>2. CASE Scan
  <2>1. lex \in States /\ (Bad \/ Stored \/ Ended \/ GoesOn)
    BY <1>2, ScanCases
  <2>2. CASE Bad \/ Stored \/ Ended
    <3>1. lex' \notin States
      BY <2>2, Returned DEF Bad, Stored, Ended, Return, States
    <3> QED BY <3>1 DEF ShapeInv
  <2>3. CASE GoesOn
    <3>1. /\ code # NUL /\ lexeme' = Append(lexeme, code)
          /\ Delta(lex, code) = Go(lex') /\ lex' \in States
      BY <2>3 DEF GoesOn
    <3>2. Meets(lex, lexeme, code, lexeme')
      BY <2>1, <3>1, ScanMeets
    <3>3. lex' # "END"
      BY <3>1 DEF States
    <3>4. PICK next \in States \ {"START"} :
            Delta(lex, code) = Go(next) /\ Partial(next, lexeme')
      <4>1. \A tok : Go(lex') # Valid(tok) /\ Go(lex') # Store(tok)
        BY <3>3, Apart, Zenon
      <4> QED BY <3>1, <3>2, <4>1 DEF Meets
    <3>5. lex' = next
      BY <3>1, <3>3, <3>4, Apart
    <3> QED BY <3>4, <3>5 DEF ShapeInv
  <2> QED BY <2>1, <2>2, <2>3
<1>3. CASE Call
  <2>1. lex' \notin States
    BY <1>3 DEF Call, lexer, States
  <2> QED BY <2>1 DEF ShapeInv
<1>4. CASE UNCHANGED vars
  BY <1>4 DEF vars, lexer, ShapeInv
<1> QED BY <1>1, <1>2, <1>3, <1>4 DEF LexNext

-----------------------------------------------------------------------------
(* The tokens                                                               *)

(* What TokensExact asks of a step.                                          *)
Exact ==
  /\ SubSeq(chars', mark + 1, Len(chars'))
       = IF token' = "CORRUP" THEN Append(lexeme', BAD) ELSE lexeme'
  /\ Shape(token', lexeme')
  /\ ReadOK(stm') /\ Pending(stm') # <<>> => Pending(stm')[1] \notin Extends(token', lexeme')

(* What was read since the mark.                                             *)
LEMMA SinceMark ==
  ASSUME LexInv, lex \in States
  PROVE  SubSeq(chars, mark + 1, Len(chars)) = Append(lexeme, code)
<1>1. /\ chars \in Seq(Codes) /\ lexeme \in Seq(Codes) /\ mark \in 0 .. Len(chars)
      /\ SubSeq(chars, 1, mark) \in Seq(Codes) /\ Len(SubSeq(chars, 1, mark)) = mark
      /\ code \in Codes /\ chars = Append(Lexed, code) /\ Lexed \in Seq(Codes)
  BY LexedType DEF LexInv, Busy
<1> DEFINE h == SubSeq(chars, 1, mark)
<1>2. h \in Seq(Codes) /\ Len(h) = mark
  BY <1>1
<1>3. <<code>> \in Seq(Codes) /\ lexeme \o <<code>> \in Seq(Codes)
      /\ Append(lexeme, code) = lexeme \o <<code>> /\ Append(Lexed, code) = Lexed \o <<code>>
  BY <1>1, Singleton, Added
<1>4. Lexed = h \o lexeme
  BY DEF Lexed
<1> HIDE DEF h
<1>5. (h \o lexeme) \o <<code>> = h \o (lexeme \o <<code>>)
  BY SMTT(30), <1>1, <1>2, <1>3, ConcatAssociative
<1>6. chars = h \o Append(lexeme, code)
  BY <1>1, <1>3, <1>4, <1>5
<1>7. SubSeq(h \o Append(lexeme, code), Len(h) + 1, Len(h \o Append(lexeme, code)))
        = Append(lexeme, code)
  <2> DEFINE l == Append(lexeme, code)
  <2>1. l \in Seq(Codes)
    BY <1>3
  <2> HIDE DEF l
  <2>2. SubSeq(h \o l, Len(h) + 1, Len(h \o l)) = l
    BY <1>2, <2>1, Rest
  <2> QED BY <2>2 DEF l
<1> QED BY <1>2, <1>6, <1>7

(* The token of a byte that is no character.                                *)
LEMMA BadExact ==
  ASSUME LexInv, lex \in States, Bad
  PROVE  Exact
<1>1. code = BAD /\ token' = "CORRUP" /\ UNCHANGED <<stm, chars, lexeme>>
  BY DEF Bad, Return, stream
<1>2. SubSeq(chars', mark + 1, Len(chars')) = Append(lexeme', BAD)
  BY <1>1, SinceMark
<1>3. Shape("CORRUP", lexeme') /\ Extends("CORRUP", lexeme') = {}
  BY ShapeIs, ExtendsIs
<1> QED BY <1>1, <1>2, <1>3 DEF Exact

(* A token that ends with its last character.                               *)
LEMMA EndedExact ==
  ASSUME LexInv, ShapeInv, lex \in States, Ended
  PROVE  Exact
<1>1. lexeme' = Append(lexeme, code) /\ UNCHANGED <<stm, chars>>
  BY DEF Ended, stream
<1>2. Meets(lex, lexeme, code, lexeme')
  BY <1>1, ScanMeets
<1>3. SubSeq(chars', mark + 1, Len(chars')) = lexeme'
  BY <1>1, SinceMark
<1>4. token' # "CORRUP" /\ Shape(token', lexeme') /\ Extends(token', lexeme') = {}
  <2>1. CASE Delta(lex, code) = Valid(token') /\ token' \in Tokens
    <3>1. PICK tok \in Tokens :
            Delta(lex, code) = Valid(tok) /\ Shape(tok, lexeme') /\ Extends(tok, lexeme') = {}
      <4>1. \A next \in States : Go(next) # Valid(token')
        <5>1. "END" \notin States
          BY DEF States
        <5> QED BY <5>1, Apart
      <4>2. \A tok : Valid(token') # Store(tok)
        BY Apart
      <4> QED BY <1>2, <2>1, <4>1, <4>2 DEF Meets
    <3>2. tok = token'
      BY <2>1, <3>1, Apart
    <3> QED BY <2>1, <3>1, <3>2 DEF Tokens
  <2>2. CASE code = NUL /\ Delta(lex, code) = Go(Delta(lex, code).state) /\ token' = NoToken
    <3>1. PICK d : Delta(lex, code) = Go(d)
      BY <2>2
    <3>2. Shape(NoToken, lexeme')
      <4>1. CASE d = "END"
        <5>1. Moves(Delta(lex, code)) /\ Delta(lex, code).token = NoToken
              /\ Delta(lex, code).state = "END"
          BY <3>1, <4>1, DeltaMoves DEF Go
        <5> QED BY <5>1 DEF Moves, Tokens, NoToken, States, Go, Valid, Store
      <4>2. CASE d # "END"
        <5>1. \A tok : Go(d) # Valid(tok) /\ Go(d) # Store(tok)
          BY <4>2, Apart
        <5> QED BY <1>2, <2>2, <3>1, <5>1 DEF Meets
      <4> QED BY <4>1, <4>2
    <3>3. Extends(NoToken, lexeme') = {} /\ NoToken # "CORRUP"
      BY ExtendsIs DEF NoToken
    <3> QED BY <2>2, <3>2, <3>3
  <2> QED BY <2>1, <2>2 DEF Ended
<1> QED BY <1>3, <1>4 DEF Exact

(* A token that ends before the character.                                  *)
LEMMA StoredExact ==
  ASSUME LexInv, ShapeInv, lex \in States, Stored, UNCHANGED <<pcol, prow, code, opts, tcol, trow, mark>>
  PROVE  Exact
<1>1. /\ LexInv' /\ Stores /\ lexeme' = lexeme /\ SubSeq(chars', mark + 1, Len(chars')) = lexeme
  BY StoredStep
<1>2. Delta(lex, code) = Store(token') /\ token' \in Tokens
  BY DEF Stored
<1>3. Meets(lex, lexeme, code, Append(lexeme, code)) /\ code \in Codes
  BY ScanMeets
<1>4. PICK tok \in Tokens :
        Delta(lex, code) = Store(tok) /\ Shape(tok, lexeme) /\ code \notin Extends(tok, lexeme)
  <2>1. \A next \in States : Go(next) # Store(token')
    <3>1. "END" \notin States
      BY DEF States
    <3> QED BY <3>1, Apart
  <2>2. \A t : Valid(t) # Store(token')
    BY Apart
  <2> QED BY <1>2, <1>3, <2>1, <2>2 DEF Meets
<1>5. tok = token' /\ token' # "CORRUP"
  BY <1>2, <1>4, Apart DEF Tokens
<1>6. ASSUME ReadOK(stm'), Pending(stm') # <<>>
      PROVE  Pending(stm')[1] = code
  <2>1. Sound(stm') /\ Pending(stm') = Pend(stm') /\ Sound(stm)
    BY <1>1, PendingIs DEF LexInv, StreamInv
  <2>2. code # NUL
    BY <1>1, <1>6 DEF Stores, LexInv, Busy
  <2>3. Pend(stm') = <<code>> \o Pend(stm) /\ Pend(stm) \in Seq(Chars) /\ code \in Chars
    BY <1>1, <1>3, <2>1, <2>2, PendType, CodesOfText DEF Stores, Text
  <2>4. <<code>> \in Seq(Chars) /\ Len(<<code>>) = 1 /\ <<code>>[1] = code
    BY <2>3, Singleton
  <2>5. (<<code>> \o Pend(stm))[1] = <<code>>[1]
    BY <2>3, <2>4, ConcatProperties
  <2> QED BY <2>1, <2>3, <2>4, <2>5
<1> QED BY <1>1, <1>4, <1>5, <1>6 DEF Exact

(* The end is found only at the end of what can be read, or where a 0 was      *)
(* un-read.                                                                 *)
LEMMA EndIsEnd ==
  ASSUME LexInv, Begin, code' = NUL
  PROVE  AtTheEnd \/ NUL \in Range(Unread(stm.restore))
<1>1. LexInv' /\ Gets
  BY BeginStep
<1>2. stm'.open /\ stm'.corrupt = stm.corrupt /\ stm'.packet = stm.packet
      /\ (ReadOK(stm) /\ ~Held(stm) => ~ReadOK(stm')) /\ (~ReadOK(stm) => ~ReadOK(stm'))
  BY <1>1 DEF Gets, SameChannel, Open, Begin
<1>3. Sound(stm') /\ Pending(stm') = Back(stm') \o Left(stm')
  BY <1>1, PendingIs DEF LexInv, StreamInv, Pend
<1>4. <<>> \o <<>> = <<>>
  BY TextEmpty, EmptySeq DEF Text
<1>5. CASE ReadOK(stm) /\ Held(stm)
  <2> DEFINE u == Unread(stm.restore)
  <2>1. u \in Seq({NUL}) /\ u # <<>>
    BY <1>5 DEF Held, Zeros
  <2> HIDE DEF u
  <2>2. Len(u) \in Nat /\ Len(u) # 0 /\ DOMAIN u = 1 .. Len(u)
    BY <2>1, EmptySeq, LenProperties
  <2>3. 1 \in DOMAIN u /\ u[1] \in {NUL}
    BY <2>1, <2>2, ElementOfSeq
  <2>4. NUL \in Range(u)
    BY <2>3 DEF Range
  <2> QED BY <2>4 DEF u
<1>6. CASE ~(ReadOK(stm) /\ Held(stm)) /\ (stm'.end \/ (stm'.broken /\ stm'.packet # 0))
  <2>1. Back(stm') = <<>> /\ Left(stm') = <<>>
    BY <1>2, <1>3, <1>6, WrittenZeros DEF Sound, Back
  <2> QED BY <1>3, <1>4, <2>1 DEF AtTheEnd
<1>7. CASE ~(ReadOK(stm) /\ Held(stm)) /\ ~(stm'.end \/ (stm'.broken /\ stm'.packet # 0))
  <2>1. stm.corrupt \/ (stm'.broken /\ stm.packet = 0)
    BY <1>2, <1>7 DEF ReadOK
  <2> QED BY <2>1 DEF AtTheEnd
<1> QED BY <1>5, <1>6, <1>7

(* Every token is the text that was read for it, has the shape of its kind and *)
(* could not be longer, whatever the text, the sizes of the buffers and the    *)
(* amounts that the channel gives; the end is returned only when nothing is     *)
(* left that can be read, or for the 0 that was un-read at an earlier end.     *)
THEOREM TokensAreExact == Spec => TokensExact
<1> DEFINE Inv == LexInv /\ ShapeInv
<1>1. LexInit => Inv
  <2>1. LexInit => ShapeInv
    BY DEF LexInit, ShapeInv, States
  <2> QED BY <2>1, LexInitKeeps
<1>2. Inv /\ [LexNext]_vars => Inv'
  BY LexInvKept, ShapeKept
<1>3. Inv /\ [LexNext]_vars
        => [/\ lex \in States /\ lex' \in {"idle", "again"} =>
                 /\ SubSeq(chars', mark + 1, Len(chars'))
                      = IF token' = "CORRUP" THEN Append(lexeme', BAD) ELSE lexeme'
                 /\ Shape(token', lexeme')
                 /\ ReadOK(stm') /\ Pending(stm') # <<>>
                      => Pending(stm')[1] \notin Extends(token', lexeme')
            /\ Begin /\ code' = NUL =>
                 AtTheEnd \/ NUL \in Range(Unread(stm.restore))]_vars
  <2> SUFFICES ASSUME Inv, LexNext
               PROVE  /\ lex \in States /\ lex' \in {"idle", "again"} => Exact
                      /\ Begin /\ code' = NUL =>
                           AtTheEnd \/ NUL \in Range(Unread(stm.restore))
    BY DEF Exact
  <2>1. ASSUME lex \in States, lex' \in {"idle", "again"} PROVE Exact
    <3>1. CASE Begin \/ Call
      BY <2>1, <3>1 DEF Begin, Call, States
    <3>2. CASE Scan
      <4>1. /\ UNCHANGED <<tcol, trow, mark>> /\ opts' = opts
            /\ Bad \/ Stored \/ Ended \/ GoesOn
            /\ UNCHANGED <<pcol, prow, code>> \/ GoesOn
        BY <3>2, ScanCases
      <4>2. ~GoesOn
        BY <2>1 DEF GoesOn, States
      <4>3. CASE Bad
        BY <2>1, <4>3, BadExact
      <4>4. CASE Ended
        BY <2>1, <4>4, EndedExact
      <4>5. CASE Stored
        <5>1. UNCHANGED <<pcol, prow, code, opts, tcol, trow, mark>>
          BY <4>1, <4>2
        <5> QED BY <2>1, <4>5, <5>1, StoredExact
      <4> QED BY <4>1, <4>2, <4>3, <4>4, <4>5
    <3> QED BY <3>1, <3>2 DEF LexNext
  <2>2. ASSUME Begin, code' = NUL
        PROVE  AtTheEnd \/ NUL \in Range(Unread(stm.restore))
    BY <2>2, EndIsEnd
  <2> QED BY <2>1, <2>2
<1> QED BY <1>1, <1>2, <1>3, PTL DEF Spec, TokensExact
=============================================================================
