-------------------------- MODULE EntryPointProofs --------------------------
(***************************************************************************)
(* The red screen of the first stage means a card fault, for any number of *)
(* loops and any time the kernel needs.                                    *)
(***************************************************************************)
EXTENDS EntryPoint, TLAPS

(* The first slot is free from the first wait on but for the entry's own   *)
(* access, the second from the second wait on until the open is over: so   *)
(* what finishes while FileOpen waits is FileOpen's.                       *)
SlotsInv ==
    /\ pc # "start" => clearPad = TRUE
    /\ pc \notin {"start", "waitSlot0"} => access[0] # "game"
    /\ pc \in {"waitSlot1", "open"} => access[0] = "none"
    /\ pc \in {"open", "opening"} => access[1] = "none"
    /\ pc = "opening" /\ finished = TRUE => access[0] = "none"

(* The counter of the busy loop, and what holds behind it.                 *)
CountInv ==
    /\ pc = "opening" => count = Loops
    /\ pc = "busywait" => count \in 1 .. Loops
    /\ pc \in {"readHeader", "readLoader"} => Settled

AccessInv == access \in [Slots -> {"none", "game", "entry"}]

IInv == AccessInv /\ SlotsInv /\ CountInv /\ RedOnlyByCard

(* It holds at the start ... *)
LEMMA InitIInv == Init => IInv
  BY LoopsAssumption
     DEF Init, IInv, AccessInv, SlotsInv, CountInv, RedOnlyByCard, Slots

(* ... and through every step of the code, the library, the cards, the user. *)
LEMMA StepIInv == IInv /\ [Next]_vars => IInv'
<1> SUFFICES ASSUME IInv, [Next]_vars
             PROVE  IInv'
  OBVIOUS
<1> USE LoopsAssumption DEF IInv, AccessInv, SlotsInv, CountInv, RedOnlyByCard, Slots, Settled
<1>1. CASE ChangeClearPad
  BY <1>1 DEF ChangeClearPad, Goto
<1>2. CASE WaitSlots
  BY <1>2 DEF WaitSlots, WaitCardStatus, Goto
<1>3. CASE OpenBegins
  BY <1>3 DEF OpenBegins, Goto
<1>4. CASE OpenEnds
  BY <1>4 DEF OpenEnds
<1>5. CASE BusyWait
  BY <1>5 DEF BusyWait
<1>6. CASE ReadHeader
  BY <1>6 DEF ReadHeader
<1>7. CASE ReadLoader
  BY <1>7 DEF ReadLoader, ReadsAll
<1>8. CASE FatalError
  BY <1>8 DEF FatalError, Goto
<1>9. ASSUME NEW s \in Slots, CardInfo(s)
      PROVE  IInv'
  BY <1>9 DEF CardInfo
<1>10. ASSUME NEW s \in Slots, Finish(s)
       PROVE  IInv'
  BY <1>10 DEF Finish
<1>11. CASE Pull
  BY <1>11 DEF Pull
<1>12. CASE Idle \/ UNCHANGED vars
  BY <1>12 DEF Idle, vars
<1> QED
  BY <1>1, <1>2, <1>3, <1>4, <1>5, <1>6, <1>7, <1>8, <1>9, <1>10, <1>11, <1>12
     DEF Next, Entry, Cards

(* Whatever the game's card library was doing when the first stage took    *)
(* over, FileOpen does not take its sector for read before it is, and no   *)
(* read follows the open too soon (entry.S:32-35, 46-60, 76-78): an intact *)
(* card never leads to the red screen.                                     *)
THEOREM RedIsTheCard == Spec => []RedOnlyByCard
<1>1. IInv => RedOnlyByCard
  BY DEF IInv
<1> QED
  BY InitIInv, StepIInv, <1>1, PTL DEF Spec
=============================================================================
