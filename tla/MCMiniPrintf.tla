---------------------------- MODULE MCMiniPrintf ----------------------------
(***************************************************************************)
(* Values for the constants of MiniPrintf: every format of up to           *)
(* MaxLength characters of those it knows and one it does not, ints of a   *)
(* byte instead of four, at their limits and in between.                   *)
(***************************************************************************)
EXTENDS MiniPrintf

CONSTANT MaxLength

MCFormats ==
    UNION {[1 .. n -> {Percent, Backslash, Letter("A")} \cup
                          {Letter(c) : c \in {"c", "d", "n", "r", "s", "x"}}] :
           n \in 0 .. MaxLength}

MCInts == {-128, -100, -13, -1, 0, 7, 10, 100, 107, 127}
=============================================================================
