------------------------------ MODULE MCLoader ------------------------------
(***************************************************************************)
(* Values for the constants of Loader.  Each disc is one way through       *)
(* try_boot_cd; the cfg chooses which of them are on the table.            *)
(***************************************************************************)
EXTENDS LoaderProperties

CONSTANTS european, american, vandal, huge, kuseg, invalid, short

MCConfWords == {"0x4", "0x8", "0x10", "0x20", "0x801FFF00", "0x801F8000"}

MCBootFiles == {"PSX.EXE", "GAME.EXE", VandalBootFile}

MCRegion ==
    [d \in Discs |-> CASE d \in {european, invalid} -> "E"
                       [] d \in {american, vandal} -> "A"
                       [] d = huge -> "I"
                       [] OTHER -> "other"]

ConsoleOf(european_, ps1, known, good) ==
    [european |-> european_, ps1 |-> ps1, knownVerifier |-> known,
     imageGood |-> good]

(* A European PS1, an American PS1 with an unknown BIOS, a PS2, and a      *)
(* loader read badly from the memory card.                                 *)
MCConsoles == {ConsoleOf(TRUE, TRUE, TRUE, TRUE), ConsoleOf(FALSE, TRUE, FALSE, TRUE),
               ConsoleOf(FALSE, FALSE, TRUE, TRUE), ConsoleOf(FALSE, TRUE, TRUE, FALSE)}

OneConsole == {ConsoleOf(FALSE, TRUE, TRUE, TRUE)}

AllUnset == [key \in Keys |-> Unset]

NoCnf == [present |-> FALSE, conf |-> AllUnset, bootfile |-> Unset]

(* A complete SYSTEM.CNF, none at all, and two with only some of the keys. *)
MCSystemCnf ==
    [d \in Discs |->
        CASE d = european ->
               [present |-> TRUE, bootfile |-> "GAME.EXE",
                conf |-> [TCB |-> "0x8", EVENT |-> "0x20", STACK |-> "0x801F8000"]]
          [] d = vandal ->
               [present |-> TRUE, bootfile |-> VandalBootFile,
                conf |-> [AllUnset EXCEPT !["EVENT"] = "0x20"]]
          [] d = huge ->
               [present |-> TRUE, bootfile |-> "GAME.EXE",
                conf |-> [AllUnset EXCEPT !["TCB"] = "0x8"]]
          [] OTHER -> NoCnf]

Exe(load, size, fileSize) ==
    [header |-> [load |-> load, size |-> size, entry |-> load, aligned |-> TRUE],
     fileSize |-> fileSize]

UserStart == Kseg0 + KernelLength
Room == RoStart - UserStart         \* what fits between 0x80010000 and us

Only(file, exe) == [f \in {file} |-> exe]

(* An ordinary game; one with a load size past the end of its file, and on *)
(* a disc that also has the file another disc boots; one that leaves no    *)
(* granule free; one granule more; the same in KUSEG; a file shorter than  *)
(* a header, whose size the cap does not bound; and a header with a load   *)
(* address outside RAM.                                                    *)
MCExecutable ==
    [d \in Discs |->
        CASE d = european -> Only("GAME.EXE", Exe(UserStart, 800, 808))
          [] d = american -> [f \in {"PSX.EXE", "GAME.EXE"} |->
                                 IF f = "PSX.EXE" THEN Exe(UserStart, 9000, 4008)
                                 ELSE Exe(UserStart, 800, 808)]
          [] d = vandal -> Only(VandalBootFile, Exe(UserStart, Room - 1, Room + 7))
          [] d = huge -> Only("GAME.EXE", Exe(UserStart, Room + 1, Room + 9))
          [] d = kuseg -> Only("PSX.EXE", Exe(KernelLength, Room + 8, Room + 16))
          [] d = short -> Only("PSX.EXE", Exe(UserStart, Room + 1, 4))
          [] OTHER -> Only("PSX.EXE", Exe(Kseg0 + Segment, 8, 16))]

(* Where another disc has the open file: an acceptable header, or none.    *)
MCStrays == {Exe(UserStart, 800, 808).header, Exe(Kseg0 + Segment, 8, 16).header}
=============================================================================
