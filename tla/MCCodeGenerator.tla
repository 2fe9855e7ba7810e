---------------------------- MODULE MCCodeGenerator ----------------------------
EXTENDS CodeGeneratorProperties

MCLetters == {"X", "Y"}
MCLowerOf == [X |-> "x", Y |-> "y"]

Piece(kind, text) == [kind |-> kind, text |-> text]

\* A book of one placeholder, of two next to each other with text, with a
\* mixed placeholder that stays, one of seven characters, which no row holds,
\* and three that are refused: one with a star,
\* one without placeholder and one that has a mixed one only.
MCPatterns ==
  { <<Piece("letters", <<"X", "X">>)>>,
    <<Piece("text", <<"Y", "-">>), Piece("digits", <<"9">>), Piece("letters", <<"X">>)>>,
    <<Piece("letters", <<"X", "X">>), Piece("mixed", <<"X", "9">>)>>,
    <<Piece("text", <<"Y", "Y", "Y", "Y", "Y">>), Piece("letters", <<"X", "X">>)>>,
    <<Piece("letters", <<"X">>), Piece("alphanumeric", <<"*">>)>>,
    <<Piece("text", <<"X", "9">>)>>,
    <<Piece("mixed", <<"X", "9">>)>> }

MCUploads == {<<"x", "Y">>, <<"X", "Y">>, <<"Y", "-", "9", "x">>, <<"{", "x">>, <<"y">>}
===============================================================================
