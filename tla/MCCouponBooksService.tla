------------------------- MODULE MCCouponBooksService -------------------------
(***************************************************************************)
(* Values of the constants for TLC: a book with manual codes, one with a   *)
(* pattern, and one more of the same title as the first.                   *)
(***************************************************************************)
EXTENDS CouponBooksServiceProperties, TLC

CONSTANTS Manual, Pattern, Twin, c1, c2

MCBooks == {Manual, Pattern, Twin}
MCTitleOf == [b \in MCBooks |-> IF b = Pattern THEN Pattern ELSE Manual]
MCPatternBooks == {Pattern}
MCMaxCodes == [b \in MCBooks |-> IF b = Pattern THEN 2 ELSE NoLimit]
MCCodes == {c1, c2}

Call(op, b, codes, count) ==
  [op |-> op, book |-> b, codes |-> codes, count |-> count]

\* Two uploads in opposite orders, one of them with a code twice; a generation
\* up to the limit; an upload to the wrong kind of book; a second book of a title.
MCCalls ==
  {Call("upload", Manual, <<c1, c2>>, 0), Call("upload", Manual, <<c2, c1, c1>>, 0),
   Call("generate", Pattern, <<>>, 2), Call("upload", Pattern, <<c1>>, 0),
   Call("deactivate", Manual, <<>>, 0), Call("get", Manual, <<>>, 0),
   Call("create", Twin, <<>>, 0)}

UploadAndDeactivate ==
  {Call("upload", Manual, <<c1>>, 0), Call("deactivate", Manual, <<>>, 0)}
===============================================================================
