------------------------------- MODULE LogBook -------------------------------
(***************************************************************************)
(* What the user is promised of the log on the screen: a page whose last   *)
(* lines are the last things written, the newest at the bottom, a line     *)
(* repeated in a row standing there once with the number of times.         *)
(* Changing the video standard changes nothing else.                       *)
(***************************************************************************)
EXTENDS Integers

CONSTANTS LogLines, Texts,
          Blank,        \* an empty line
          Dark          \* nothing of the log can be seen

VARIABLES page, standard

vars == <<page, standard>>

Bottom == LogLines

Init == page = Dark /\ standard \in {"PAL", "NTSC"}

Open ==
    /\ page = Dark
    /\ page' = [line \in 1 .. LogLines |-> Blank]
    /\ standard' \in {"PAL", "NTSC"}

WriteNew(text) ==
    /\ page' = [line \in 1 .. LogLines |->
                   IF line = Bottom THEN [text |-> text, times |-> 1]
                                    ELSE page[line + 1]]
    /\ UNCHANGED standard

WriteAgain(text) ==
    /\ page' = [page EXCEPT ![Bottom].times = @ + 1]
    /\ UNCHANGED standard

Write(text) ==
    /\ page # Dark
    /\ IF page[Bottom] # Blank /\ page[Bottom].text = text
       THEN WriteAgain(text) ELSE WriteNew(text)

Switch ==
    /\ page # Dark
    /\ standard' \in {"PAL", "NTSC"}
    /\ UNCHANGED page

Next == Open \/ Switch \/ \E text \in Texts : Write(text)

Spec == Init /\ [][Next]_vars
=============================================================================
