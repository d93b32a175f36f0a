----------------------------- MODULE EntryPoint -----------------------------
(***************************************************************************)
(* The first stage (entrypoints/entry.S): started inside a game by its     *)
(* save, it opens the tonyhax save on the memory card in the first slot,   *)
(* reads the secondary loader and jumps to it.                             *)
(*                                                                         *)
(* The game is still there: its memory card library runs off the vertical  *)
(* blanking and accesses both cards.  Library, card driver and cards are   *)
(* modelled from the comments of entry.S.                                  *)
(***************************************************************************)
EXTENDS Integers

CONSTANTS Loops,      \* times round the busy loop, 1000000 in the code
          SettleTime  \* the part of them the kernel needs after an open

ASSUME LoopsAssumption == Loops \in Nat \ {0} /\ SettleTime \in 0 .. Loops

Slots == {0, 1}

VARIABLES
    pc,        \* where the code is, by the label or the call it is about
    clearPad,  \* the BIOS clears the interrupt's flag: the library sees none
    access,    \* what each slot is busy with
    finished,  \* some access has finished since FileOpen began to wait
    count,     \* the busy loop's counter
    card       \* the first card: good, without the save, cut short

vars == <<pc, clearPad, access, finished, count, card>>

Init ==
    /\ pc = "start"
    /\ clearPad = FALSE
    /\ access \in [Slots -> {"none", "game"}]
    /\ finished = FALSE
    /\ count = Loops
    /\ card \in {"good", "missing", "short"}
-----------------------------------------------------------------------------
(* The card library, the driver and the user                               *)

(* A _card_info call of the library, from its part of the VBlank handler.  *)
CardInfo(s) ==
    /\ ~clearPad /\ access[s] = "none"
    /\ access' = [access EXCEPT ![s] = "game"]
    /\ UNCHANGED <<pc, clearPad, finished, count, card>>

(* A sector is transferred, or its access times out.                       *)
Finish(s) ==
    /\ access[s] # "none"
    /\ access' = [access EXCEPT ![s] = "none"]
    /\ finished' = TRUE
    /\ UNCHANGED <<pc, clearPad, count, card>>

Pull ==
    /\ card # "missing" /\ pc \notin {"loader", "lock"}
    /\ card' = "missing"
    /\ UNCHANGED <<pc, clearPad, access, finished, count>>
-----------------------------------------------------------------------------
(* The code                                                                *)

Goto(from, to) == pc = from /\ pc' = to

(* Seeded fault: the library goes on seeing the interrupt.                 *)
ChangeClearPadMissing ==
    /\ Goto("start", "waitSlot0")
    /\ UNCHANGED <<clearPad, access, finished, count, card>>

(* The screen is painted, other interrupts are masked, and ChangeClearPad. *)
ChangeClearPad ==
    /\ Goto("start", "waitSlot0")
    /\ clearPad' = TRUE
    /\ UNCHANGED <<access, finished, count, card>>

(* wait_card_status returns when the slot is free.                         *)
WaitCardStatus(s, from, to) ==
    /\ Goto(from, to)
    /\ access[s] = "none"
    /\ UNCHANGED <<clearPad, access, finished, count, card>>

(* Seeded fault: "why do we care about the status of the slot 2?"          *)
WaitSlots0Only == WaitCardStatus(0, "waitSlot0", "open")

WaitSlots ==
    \/ WaitCardStatus(0, "waitSlot0", "waitSlot1")
    \/ WaitCardStatus(1, "waitSlot1", "open")

OpenBegins ==
    /\ Goto("open", "opening")
    /\ access' = [access EXCEPT ![0] = "entry"]
    /\ finished' = FALSE
    /\ count' = Loops
    /\ UNCHANGED <<clearPad, card>>

(* Any access will do; the buffer holds the sector if its own is through.  *)
OpenEnds ==
    /\ pc = "opening" /\ finished
    /\ pc' = IF access[0] # "entry" /\ card # "missing" THEN "busywait" ELSE "fatalerror"
    /\ UNCHANGED <<clearPad, access, finished, count, card>>

BusyWait ==
    /\ pc = "busywait"
    /\ count' = count - 1
    /\ pc' = IF count' # 0 THEN "busywait" ELSE "readHeader"
    /\ UNCHANGED <<clearPad, access, finished, card>>

(* "If read() or write() is issued immediately after open(), an error      *)
(* occurs"                                                                 *)
Settled == Loops - count >= SettleTime

(* FileRead returns the number of bytes asked for.                         *)
ReadsAll == Settled /\ card = "good"

(* The header of a save that is cut short can still be read.               *)
ReadHeader ==
    /\ pc = "readHeader"
    /\ pc' = IF Settled /\ card # "missing" THEN "readLoader" ELSE "fatalerror"
    /\ UNCHANGED <<clearPad, access, finished, count, card>>

(* The load address and the size are those of the header.                  *)
ReadLoader ==
    /\ pc = "readLoader"
    /\ pc' = IF ReadsAll THEN "loader" ELSE "fatalerror"
    /\ UNCHANGED <<clearPad, access, finished, count, card>>

FatalError ==
    /\ Goto("fatalerror", "lock")
    /\ UNCHANGED <<clearPad, access, finished, count, card>>

(* The loop at lock, and the loader, which never returns here.             *)
Idle == pc \in {"lock", "loader"} /\ UNCHANGED vars

Entry == ChangeClearPad \/ WaitSlots \/ OpenBegins \/ OpenEnds \/ BusyWait
           \/ ReadHeader \/ ReadLoader \/ FatalError

Cards == (\E s \in Slots : CardInfo(s) \/ Finish(s)) \/ Pull

Next == Entry \/ Cards \/ Idle

(* The processor executes, and every access ends, by a time-out if nothing *)
(* else; the library need not go on.                                       *)
Fairness == WF_vars(Entry) /\ \A s \in Slots : WF_vars(Finish(s))

Spec == Init /\ [][Next]_vars /\ Fairness
-----------------------------------------------------------------------------
TypeOK ==
    /\ pc \in {"start", "waitSlot0", "waitSlot1", "open", "opening", "busywait",
               "readHeader", "readLoader", "fatalerror", "lock", "loader"}
    /\ clearPad \in BOOLEAN
    /\ access \in [Slots -> {"none", "game", "entry"}]
    /\ finished \in BOOLEAN /\ count \in 0 .. Loops
    /\ card \in {"good", "missing", "short"}

(* The red screen means what it seems to: the card or the save on it is at *)
(* fault.  No access of the game's library, in whichever slot and whenever *)
(* it began, makes FileOpen take a sector for read that is not, and no     *)
(* read follows the open too soon (entry.S:32-35, 46-60, 76-78).           *)
RedOnlyByCard == card = "good" => pc \notin {"fatalerror", "lock"}

(* The first stage does not hang: it ends in the loader or in the loop     *)
(* behind the red screen, whatever the game was doing with the cards.      *)
EntryEnds == <>(pc \in {"loader", "lock"})
=============================================================================
