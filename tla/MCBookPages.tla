------------------------------ MODULE MCBookPages ------------------------------
EXTENDS BookPagesProperties, TLC

CONSTANTS u1, u2, u3

\* Two uploads of one code, and one of two.
MCRowsOf == (u1 :> {"a"}) @@ (u2 :> {"b"}) @@ (u3 :> {"c", "d"})
===============================================================================
