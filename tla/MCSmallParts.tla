----------------------------- MODULE MCSmallParts -----------------------------
(***************************************************************************)
(* The instance of SmallParts that is checked; the objects have nested     *)
(* braces, and braces, quotes and escapes in their strings.                *)
(***************************************************************************)
EXTENDS SmallParts

JsonTexts == { <<"{", "}">>, <<"{", "{", "}", "x", "}">>,
               <<"{", "\"", "}", "\"", "}">>, <<"{", "\"", "{", "\"", "}">>,
               <<"{", "\"", "\\", "\"", "}", "\"", "}">>,
               <<"{", "\"", "\\", "\\", "\"", "}">> }
===============================================================================
