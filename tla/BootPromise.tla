----------------------------- MODULE BootPromise -----------------------------
(***************************************************************************)
(* What the loader promises its user, without saying how: it asks for a    *)
(* disc, it only starts an attempt once the lid has been opened and shut   *)
(* again, the first one too; and if the lid then stays shut, the program   *)
(* that runs is the one the inserted disc names, alone in memory, on a     *)
(* kernel, a stack and a video standard set up the way that disc wants,    *)
(* whichever way it is started, and none runs if the disc lacks it.        *)
(* Otherwise it asks again, or stops for good.                             *)
(***************************************************************************)
CONSTANTS Discs, NoDisc,
          NoRun,        \* no game is running
          Wanted        \* the run each disc asks for, NoRun if it cannot run

VARIABLES
    phase, run,
    lid, disc,    \* the drive
    steady        \* the lid has stayed shut since the attempt began, or,
                  \* before the first one, since the start

drive == <<lid, disc, steady>>
vars == <<phase, run, drive>>

Init ==
    /\ phase = "preparing"
    /\ lid = "closed" /\ disc \in Discs \cup {NoDisc} /\ steady = TRUE
    /\ run = NoRun

Ask ==
    /\ phase = "preparing"
    /\ phase' = "asking"
    /\ UNCHANGED <<drive, run>>

(* Not with the disc of the last attempt, or of the exploited game, left   *)
(* untouched in the drive.                                                 *)
Begin ==
    /\ phase = "asking"
    /\ lid = "closed" /\ ~steady
    /\ phase' = "booting"
    /\ steady' = TRUE
    /\ UNCHANGED <<lid, disc, run>>

Fail ==
    /\ phase = "booting"
    /\ phase' = "preparing"
    /\ UNCHANGED <<drive, run>>

Launch ==
    /\ phase = "booting"
    /\ phase' = "running"
    /\ run' # NoRun
    /\ steady => disc \in Discs /\ run' = Wanted[disc]
    /\ UNCHANGED drive

Stop ==
    /\ phase \in {"preparing", "booting"}
    /\ phase' = "stopped"
    /\ UNCHANGED <<drive, run>>

User ==
    /\ phase \notin {"running", "stopped"}
    /\ \/ lid' = "open" /\ steady' = FALSE /\ UNCHANGED disc
       \/ lid = "open" /\ lid' = "closed" /\ UNCHANGED <<disc, steady>>
       \/ lid = "open" /\ disc' \in Discs \cup {NoDisc} /\ UNCHANGED <<lid, steady>>
    /\ UNCHANGED <<phase, run>>

Next == Ask \/ Begin \/ Fail \/ Launch \/ Stop \/ User

Spec == Init /\ [][Next]_vars
=============================================================================
