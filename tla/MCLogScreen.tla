----------------------------- MODULE MCLogScreen -----------------------------
(***************************************************************************)
(* Lines of the lengths the loader's calls can produce.                    *)
(***************************************************************************)
EXTENDS LogScreen

(* A short line; "Disc error type %c code %d", the one that repeats, with  *)
(* a code of full width; and the longest of all, "Loading executable (%d   *)
(* bytes @ %x)" with two numbers of full width.                            *)
MCMessages == {[text |-> "Starting", length |-> 8],
               [text |-> "Disc error", length |-> 34],
               [text |-> "Loading executable", length |-> 49]}
=============================================================================
