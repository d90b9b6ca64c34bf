--------------------------------- MODULE Lexer --------------------------------
(***************************************************************************)
(* stm_read_token: the scanner of core/lex.c over a stream.  It reads one     *)
(* character at a time and, when that one does not belong to the token,       *)
(* un-reads it with the position it had.                                      *)
(*                                                                         *)
(* A token that is read is cut between its characters; nothing else happens   *)
(* to the stream there.  Escapes are off (the default), and a character       *)
(* stands for those that the scanner treats alike.                            *)
(***************************************************************************)
EXTENDS Stream, FiniteSetsExt

VARIABLES
  lex,         (* the state of the scanner, "idle" between the calls         *)
  opts,        (* what is a token too, and not skipped                       *)
  code,        (* the character under way                                  *)
  lexeme, pcol, prow, tcol, trow,
  token,       (* the last token, "" before the first                       *)
  mark         (* history: how many characters were read before the lexeme   *)

stream == <<stm, wrote, got, chars>>
lexer == <<lex, opts, code, lexeme, pcol, prow, tcol, trow, token, mark>>
vars == <<stream, lexer>>

NoToken == "none"     (* ENUM_MAX(ltoken_t) *)

Options == {"spaces", "comments"}   (* a stream never sets newlines           *)

Space == {" "}
Octal == {"0", "1"}   (* "1": any other digit *)
Letter == {"a", "g", "e", "x"}
HexLetter == {"a", "e"}
Single == [c \in {"<", "-", "*", "\\"} |->
             CASE c = "<" -> "LESS" [] c = "-" -> "MINUS"
               [] c = "*" -> "ASTERK" [] c = "\\" -> "BSLASH"]

-----------------------------------------------------------------------------
(* The automaton: i_START to i_EXP1.                                         *)

Go(state) == [state |-> state, token |-> NoToken, char |-> "VALID"]
Valid(t) == [state |-> "END", token |-> t, char |-> "VALID"]
Store(t) == [state |-> "END", token |-> t, char |-> "STORE"]

Start(c) ==
  CASE c \in DOMAIN Single -> Valid(Single[c])
    [] c = "/" -> Go("SLASH")
    [] c = "." -> Go("PERIOD")
    [] c \in Letter \cup {"_"} -> Go("IDENTIFIER")
    [] c = "quote" -> Go("STRING")
    [] c \in Space -> Go("SPACES")
    [] c = NL -> Valid("EOL")
    [] c = "0" -> Go("ZERO")
    [] c = "1" -> Go("INT")
    [] OTHER -> Valid("UNDEF")

(* Mutant: the character after a number is taken with it. *)
EndNumberTaken(c, t) == IF c \in Letter THEN Valid("UNDEF") ELSE Valid(t)

(* Numbers end at a letter, which then belongs to them, or before another     *)
(* character, which does not.                                                *)
EndNumber(c, t) == IF c \in Letter THEN Valid("UNDEF") ELSE Store(t)

Delta(state, c) ==
  CASE state = "START" -> Start(c)
    [] state = "SPACES" -> IF c \in Space THEN Go("SPACES") ELSE Store("SPACE")
    [] state = "SLASH" -> IF c = "/" THEN Go("SL_COMMENT")
                          ELSE IF c = "*" THEN Go("ML_COMMENT") ELSE Store("SLASH")
    [] state = "SL_COMMENT" -> IF c = NL THEN Valid("SLCOM") ELSE Go("SL_COMMENT")
    [] state = "ML_COMMENT" -> IF c = "*" THEN Go("ML_COMMENT2") ELSE Go("ML_COMMENT")
    [] state = "ML_COMMENT2" -> IF c = "/" THEN Valid("MLCOM")
                                ELSE IF c = "*" THEN Go("ML_COMMENT2") ELSE Go("ML_COMMENT")
    [] state = "PERIOD" -> IF c \in Octal THEN Go("REAL") ELSE Store("PERIOD")
    [] state = "IDENTIFIER" -> IF c \in Letter \cup Octal \cup {"_"} THEN Go("IDENTIFIER")
                               ELSE Store("IDENT")
    [] state = "STRING" -> IF c = "\\" THEN Go("STRING_SCAPE")
                           ELSE IF c = "quote" THEN Valid("STRING") ELSE Go("STRING")
    [] state = "STRING_SCAPE" -> Go("STRING")
    [] state = "ZERO" -> IF c = "x" THEN Go("HEX") ELSE IF c = "." THEN Go("REAL")
                         ELSE IF c \in Octal THEN Go("INT") ELSE Store("INTEGER")
    [] state = "INT" -> IF c \in Octal THEN Go("INT") ELSE IF c = "." THEN Go("REAL")
                        ELSE EndNumber(c, "INTEGER")
    [] state = "HEX" -> IF c \in Octal \cup HexLetter THEN Go("HEX") ELSE EndNumber(c, "HEX")
    [] state = "REAL" -> IF c \in Octal THEN Go("REAL") ELSE IF c = "e" THEN Go("EXP")
                         ELSE EndNumber(c, "REAL")
    [] state = "EXP" -> IF c \in Octal \cup {"-"} THEN Go("EXP1") ELSE Valid("UNDEF")
    [] state = "EXP1" -> IF c \in Octal \cup {"-"} THEN Go("EXP1") ELSE EndNumber(c, "REAL")

States == {"START", "SPACES", "SLASH", "SL_COMMENT", "ML_COMMENT", "ML_COMMENT2", "PERIOD",
           "IDENTIFIER", "STRING", "STRING_SCAPE", "ZERO", "INT", "HEX", "REAL", "EXP", "EXP1"}

-----------------------------------------------------------------------------
(* _lexscn_token                                                            *)

LexInit ==
  /\ Init
  /\ lex = "idle" /\ opts \in SUBSET Options /\ code = NUL /\ lexeme = <<>> /\ token = "" /\ mark = 0
  /\ pcol = 0 /\ prow = 0 /\ tcol = 0 /\ trow = 0

(* i_get_char: the position before the character is kept for its un-reading.  *)
GetChar ==
  LET r == ReadChar(stm) IN
  /\ stm' = r.s /\ code' = r.code
  /\ got' = got \o r.data /\ chars' = chars \o r.chars
  /\ IF r.code = BAD THEN UNCHANGED <<pcol, prow>> ELSE pcol' = stm.col /\ prow' = stm.row
  /\ UNCHANGED <<wrote, opts>>

(* The first character of a token, also after one that is skipped.           *)
Begin ==
  /\ Open /\ stm.type # "TOFILE" /\ lex \in {"idle", "again"}
  /\ tcol' = stm.col /\ trow' = stm.row /\ lexeme' = <<>> /\ mark' = Len(chars)
  /\ GetChar
  /\ IF code' = NUL THEN token' = "EOF" /\ lex' = "idle" ELSE lex' = "START" /\ UNCHANGED token

Skipped(t) ==
  \/ t \in {"SLCOM", "MLCOM"} /\ "comments" \notin opts
  \/ t \in {"SPACE", "EOL"} /\ "spaces" \notin opts

(* The return of the token, unless it is one to skip.                        *)
Return(t) == token' = t /\ lex' = IF Skipped(t) THEN "again" ELSE "idle"

(* i_store_char.                                                            *)
StoreChar ==
  /\ stm' = Restored(stm, code, pcol, prow)
  /\ got' = IF code = NUL THEN got ELSE Front(got)
  /\ chars' = Front(chars)
  /\ UNCHANGED <<wrote, opts, code, pcol, prow, lexeme>>

Scan ==
  /\ lex \in States
  /\ LET d == Delta(lex, code) IN
     IF code = BAD
     THEN /\ Return("CORRUP")
          /\ UNCHANGED <<stream, opts, code, lexeme, pcol, prow>>
     ELSE IF d.char = "STORE"
     THEN StoreChar /\ Return(d.token)
     ELSE /\ lexeme' = Append(lexeme, code)
          /\ IF d.state = "END" \/ code = NUL
             THEN Return(d.token) /\ UNCHANGED <<stream, opts, code, pcol, prow>>
             ELSE GetChar /\ lex' = d.state /\ UNCHANGED token
  /\ UNCHANGED <<tcol, trow, mark>>

(* The other calls, between two tokens.                                      *)
Call == lex = "idle" /\ Next /\ UNCHANGED lexer

LexNext == Begin \/ Scan \/ Call

Spec == LexInit /\ [][LexNext]_vars

LexTypeOK ==
  /\ TypeOK
  /\ lex \in States \cup {"idle", "again"} /\ opts \subseteq Options
  /\ lexeme \in Seq(Codes) /\ {pcol, prow, tcol, trow, mark} \subseteq Nat
  /\ mark <= Len(chars)

-----------------------------------------------------------------------------
(* Properties                                                               *)

(* The column and row after a text, from the start of the stream.            *)
PositionAfter(text) ==
  LET Ends == {i \in DOMAIN text : text[i] = NL}
      Line == {i \in DOMAIN text : text[i] # BAD /\ \A j \in i .. Len(text) : text[j] # NL}
  IN <<Cardinality(Line) + 1, Cardinality(Ends) + 1>>

(* The position of the stream is that of the characters that were read, also  *)
(* after un-reading across a line end, and a token's is that of its first     *)
(* character.                                                               *)
PositionExact ==
  /\ <<stm.col, stm.row>> = PositionAfter(chars)
  /\ token # "" => <<tcol, trow>> = PositionAfter(SubSeq(chars, 1, mark))

(* The shape of each token, without the automaton.                           *)
All(s, Set) == s # <<>> /\ Range(s) \subseteq Set
From(s, i) == SubSeq(s, i, Len(s))
IsReal(s) ==
  \E p \in DOMAIN s : \E x \in p + 1 .. Len(s) + 1 :
    /\ s[p] = "." /\ Range(SubSeq(s, 1, p - 1)) \cup Range(SubSeq(s, p + 1, x - 1)) \subseteq Octal
    /\ p = 1 => x > p + 1
    /\ x <= Len(s) => s[x] = "e" /\ All(From(s, x + 1), Octal \cup {"-"})
FirstAt(s, first, second, from) ==   (* where first and second next occur together *)
  {i \in from .. Len(s) - 1 : s[i] = first /\ s[i + 1] = second}

Shape(t, s) ==
  CASE t = "IDENT" -> All(s, Letter \cup Octal \cup {"_"}) /\ s[1] \notin Octal
    [] t = "INTEGER" -> All(s, Octal)
    [] t = "HEX" -> Len(s) >= 2 /\ s[1] = "0" /\ s[2] = "x" /\ Range(From(s, 3)) \subseteq Octal \cup HexLetter
    [] t = "REAL" -> IsReal(s)
    [] t = "SPACE" -> All(s, Space)
    [] t = "SLCOM" -> Len(s) > 2 /\ SubSeq(s, 1, 2) = <<"/", "/">> /\ Last(s) = NL /\ NL \notin Range(Front(s))
    [] t = "MLCOM" -> SubSeq(s, 1, 2) = <<"/", "*">> /\ FirstAt(s, "*", "/", 3) = {Len(s) - 1}
    [] t = "STRING" -> Len(s) >= 2 /\ s[1] = "quote" /\ Last(s) = "quote"
    [] t = "EOL" -> s = <<NL>>
    [] t = "PERIOD" -> s = <<".">>
    [] t = "SLASH" -> s = <<"/">>
    [] t \in Range(Single) -> Len(s) = 1 /\ Single[s[1]] = t
    [] t = NoToken -> \/ s[1] = "quote" /\ Last(s) = NUL
                      \/ s[1] = "/" /\ s[2] \in {"/", "*"} /\ Last(s) = NUL
    [] OTHER -> TRUE

(* What may not follow a token, since it would be part of it: "1a" is no       *)
(* number, though "0a" is a number and a name.                               *)
Extends(t, s) ==
  CASE t = "IDENT" -> Letter \cup Octal \cup {"_"}
    [] t = "INTEGER" /\ s = <<"0">> -> Octal \cup {"x", "."}
    [] t = "INTEGER" /\ s # <<"0">> -> Letter \cup Octal
    [] t \in {"HEX", "REAL"} -> Letter \cup Octal
    [] t = "SPACE" -> Space
    [] OTHER -> {}

(* What is read as the end is the end of what can be read.                    *)
AtTheEnd == Pending(stm') = <<>> \/ stm.corrupt \/ (stm'.broken /\ stm.packet = 0)

(* Every token is the text that was read for it, so that none is lost or read *)
(* twice between two tokens, it has the shape of its kind and could not be     *)
(* longer, and the end is returned only at the end of what can be read, or     *)
(* for the 0 that was un-read at an end.                                     *)
TokensExact ==
  [][/\ lex \in States /\ lex' \in {"idle", "again"} =>
          /\ SubSeq(chars', mark + 1, Len(chars'))
               = IF token' = "CORRUP" THEN Append(lexeme', BAD) ELSE lexeme'
          /\ Shape(token', lexeme')
          /\ ReadOK(stm') /\ Pending(stm') # <<>> => Pending(stm')[1] \notin Extends(token', lexeme')
     /\ Begin /\ code' = NUL => AtTheEnd \/ NUL \in Range(Unread(stm.restore))]_vars

(* A stream that is written and read is read on behind an end it came to: the  *)
(* end is returned only at the end of what can be read.                       *)
EOFAtEnd == [][Begin /\ code' = NUL => AtTheEnd]_vars
=============================================================================
