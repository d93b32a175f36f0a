-------------------------- MODULE MCAntipiracyHook --------------------------
(***************************************************************************)
(* Values for the constants of AntipiracyHook.                             *)
(***************************************************************************)
EXTENDS AntipiracyHook

MCModules == {"none", "v1", "v15", "v2"}

(* Games that write all their locals, with ordinary data or with pointers  *)
(* to the last bytes of the RAM; and games that may leave them unwritten.  *)
MCHabits == {{"data"}, {"edge"}, {"unwritten"}}
Careless == {{"unwritten"}}
=============================================================================
