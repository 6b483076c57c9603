-------------------------------- MODULE MCLexer --------------------------------
(* Instances of Lexer: all texts of a few pieces, of three kinds. *)
EXTENDS Lexer

CONSTANTS Mixed, Lines, Inner   \* numbers of pieces

MCOperators == {<<"{">>, <<"}">>, <<"-">>, <<">">>, <<"-", ">">>}

Blank1 == <<" ">>
Break == <<"\n">>
Word == <<"x">>
Quote == <<"\"">>
Brace == {<<"{">>, <<"}">>}
Comments == {<<"-", "-">>, <<"{", "-">>, <<"-", "}">>}
Others == {<<"\t">>, <<"\r", "\n">>, <<"\r">>, <<"\\">>, <<"&">>, <<"-", ">">>}

\* The texts of at most n pieces.
Texts(pieces, n) ==
    LET texts[k \in 0 .. n] ==
            IF k = 0 THEN {<<>>} ELSE {t \o p : t \in texts[k - 1], p \in pieces}
    IN  UNION {texts[k] : k \in 0 .. n}

Basic == {Blank1, Break, Word, Quote} \cup Brace \cup Comments

Line == {<<"x">>, <<" ", "x">>, <<" ", " ", "x">>, <<"\t", "x">>,
         <<>>, <<" ">>, <<" ", "-", "-", "x">>, <<" ", "{", "-", "-", "}">>}

\* Any text; lines and their indentation; a string with interpolations, with
\* comments in them, and with strings in them.
MCSources ==
    Texts(Basic \cup Others, Mixed)
    \cup Texts({l \o Break : l \in Line}, Lines)
    \cup {<<"\"", "{">> \o t : t \in Texts(Basic \ {<<"-", "-">>}, Inner)}
    \cup {<<"\"", "{">> \o t : t \in Texts(Brace \cup {Quote, Word}, Inner + 2)}
================================================================================
