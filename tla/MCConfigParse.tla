--------------------------- MODULE MCConfigParse ----------------------------
(***************************************************************************)
(* Values for the constants of ConfigParse: all texts up to a length, two  *)
(* digits, and a word of two digits instead of eight.                      *)
(***************************************************************************)
EXTENDS ConfigParse

CONSTANT MaxLength

MCTexts == UNION {[1 .. n -> {"K", Equals, Space, LineFeed, "4", "A"}] : n \in 0 .. MaxLength}

MCKey == <<"K">>

MCDigits == [c \in {"4", "A"} |-> IF c = "4" THEN 4 ELSE 10]
=============================================================================
