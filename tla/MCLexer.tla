------------------------------- MODULE MCLexer --------------------------------
(* Instance of Lexer: all texts of two characters, one of each kind, those of *)
(* three and four that numbers and comments are made of, and some longer ones; *)
(* buffers that start with two bytes at most.                                *)
EXTENDS Lexer

Kinds == {"a", "e", "x", "_", "0", "1", ".", "-", "/", "*", "quote", "\\", " ", NL, "<", BAD}

MCChars == Kinds \cup {"g", BOM}

TextsUpTo(set, n) == UNION {[1 .. k -> set] : k \in 0 .. n}

Long == {<<"/", "*", "*", "/", "a">>, <<"/", "*", "*", "a", "*", "/">>,
         <<"quote", "\\", "quote", "quote", "1">>, <<"0", "x", "a", "1", " ">>,
         <<"1", ".", "1", "e", "-", "1", NL>>, <<"/", "/", "a", NL, NL, "a">>,
         <<"1", NL, "a", "g">>, <<BOM, BOM, "1", " ">>}

MCTexts == [type \in Types |->
              CASE type = "FROMMEMORY" -> TextsUpTo(Kinds, 2) \cup TextsUpTo({"0", "1", ".", "e", "-"}, 3)
                       \cup TextsUpTo({"/", "*", NL}, 4) \cup Long
                [] type \in {"FROMFILE", "FROMSTDIN"} ->
                     TextsUpTo({"1", NL}, 3) \cup {<<BOM, "a", "/", "*", "a", "*", "/">>}
                [] OTHER -> {}]

MCChunks == {<<"1">>, <<"/", NL, "1">>}
=============================================================================
