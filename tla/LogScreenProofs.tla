-------------------------- MODULE LogScreenProofs ---------------------------
(***************************************************************************)
(* The log on the screen for every sequence of lines, any number of lines  *)
(* of the log and any height of the screen: the buffers hold, title and    *)
(* border stand, and the screen implements LogBook.                        *)
(***************************************************************************)
EXTENDS LogScreen, FiniteSetTheorems, WellFoundedInduction, TLAPS

(* The numbers of the screen.                                              *)
LEMMA Numbers ==
    /\ CharHeight = 15 /\ LogStartY = 80 /\ LineHeight = 16
    /\ LogLines \in Nat /\ LogLines >= 1 /\ ScreenHeight \in Nat
    /\ 80 + LogLines * 16 <= ScreenHeight
    /\ \A line \in Int : LineY(line) = 80 + 16 * line
BY LogLinesAssumption, ScreenHeightAssumption DEF CharHeight, LogStartY, LineHeight, LineY

LEMMA LastLine == LogLines \in 1 .. LogLines
BY Numbers

-----------------------------------------------------------------------------
(* The buffers                                                             *)

(* A number of 32 bits has ten digits at most.                             *)
LEMMA TenDigits == \A n : DigitsOf(n) \in 1 .. 10
<1> TAKE n
<1> DEFINE reached == {k \in 1 .. 9 : 10 ^ k <= n}
<1>1. IsFiniteSet(1 .. 9) /\ Cardinality(1 .. 9) = 9
  <2>1. \A a, b \in Int : /\ IsFiniteSet(a .. b)
                          /\ Cardinality(a .. b) = IF a > b THEN 0 ELSE b - a + 1
    BY FS_Interval
  <2>2. IsFiniteSet(1 .. 9) /\ Cardinality(1 .. 9) = IF 1 > 9 THEN 0 ELSE 9 - 1 + 1
    <3>1. 1 \in Int /\ 9 \in Int
      OBVIOUS
    <3> QED
      BY <2>1, <3>1, Zenon
  <2> QED
    BY <2>2
<1>2. reached \in SUBSET (1 .. 9)
  OBVIOUS
<1> HIDE DEF reached
<1>3. IsFiniteSet(reached) /\ Cardinality(reached) <= 9
  BY <1>1, <1>2, FS_Subset
<1>4. Cardinality(reached) \in Nat
  BY <1>3, FS_CardinalityType
<1>5. 1 + Cardinality(reached) \in 1 .. 10
  BY <1>3, <1>4
<1> QED
  BY <1>5 DEF DigitsOf, reached

LEMMA SignBitType == SignBit \in Nat
BY SignBitAssumption

(* The sign makes eleven characters.                                       *)
LEMMA CounterLengths ==
    ASSUME NEW count \in Nat
    PROVE  /\ CounterChars(count) \in 1 .. 11
           /\ count < SignBit => CounterChars(count) \in 1 .. 10
<1>1. DigitsOf(count) \in 1 .. 10 /\ DigitsOf(SignBit - (count - SignBit)) \in 1 .. 10
  BY TenDigits
<1> QED
  BY <1>1 DEF CounterChars

(* debug_write formats one of its lines, and counts it.                    *)
BufferInv ==
    /\ last.line \in Messages \cup {NoLine}
    /\ last.count \in Nat

LEMMA BufferInvHolds == Spec => []BufferInv
<1>1. Init => BufferInv
  BY DEF Init, BufferInv
<1>2. BufferInv /\ [Next]_vars => BufferInv'
  <2> SUFFICES ASSUME BufferInv, [Next]_vars PROVE BufferInv'
    OBVIOUS
  <2>1. CASE DebugInit \/ SwitchStandard \/ UNCHANGED vars
    BY <2>1 DEF DebugInit, SwitchStandard, vars, BufferInv
  <2>2. CASE DebugWrite
    <3>1. PICK m \in Messages : debug_write(m)
      BY <2>2 DEF DebugWrite
    <3>2. last' = [line |-> m, count |-> IF last.line = m THEN last.count + 1 ELSE 1]
      BY <3>1 DEF debug_write
    <3> QED
      BY <3>2 DEF BufferInv
  <2> QED
    BY <2>1, <2>2 DEF Next
<1> QED
  BY <1>1, <1>2, PTL DEF Spec

(* No line, and no line with any counter of 32 bits, leaves the buffers of *)
(* 64 bytes that debug_write formats them in, but for the longest line     *)
(* counted to 2^31 and beyond (debugscreen.c:81, 205-208, 240-241).        *)
THEOREM BuffersAreLargeEnough == Spec => []BuffersHold
<1>1. BufferInv => BuffersHold
  <2> SUFFICES ASSUME BufferInv PROVE BuffersHold
    OBVIOUS
  <2> DEFINE length == last.line.length
             chars == CounterChars(last.count)
  <2>1. length \in 0 .. 49
    <3>1. NoLine.length = 0 /\ \A m \in Messages : m.length \in 1 .. 49
      BY MessagesAssumption DEF NoLine, LongestLine
    <3>2. last.line = NoLine \/ last.line \in Messages
      BY DEF BufferInv
    <3> QED
      BY <3>1, <3>2
  <2>2. /\ last.count \in Nat /\ SignBit \in Nat
        /\ chars \in 1 .. 11
        /\ last.count < SignBit => chars \in 1 .. 10
    BY CounterLengths, SignBitType DEF BufferInv
  <2>3. RepeatedBytes(last.line, last.count) = length + 4 + chars + 1
    BY DEF RepeatedBytes
  <2> HIDE DEF length, chars
  <2>4. length + 1 <= 64
    BY <2>1
  <2>5. (length = 49 /\ last.count >= SignBit) \/ length + 4 + chars + 1 <= 64
    BY <2>1, <2>2
  <2> QED
    BY <2>3, <2>4, <2>5 DEF BuffersHold, BufferSize, TooOften, LongestLine, length
<1> QED
  BY <1>1, BufferInvHolds, PTL

(* That line would: from there on a byte more than the buffer has.         *)
LEMMA LongestLineTooOften ==
    ASSUME NEW line, line.length = LongestLine, NEW count \in Nat, count >= SignBit,
           DigitsOf(SignBit - (count - SignBit)) = 10
    PROVE  RepeatedBytes(line, count) = BufferSize + 1
<1>1. CounterChars(count) = 11
  BY SignBitType DEF CounterChars
<1> QED
  BY <1>1 DEF RepeatedBytes, BufferSize, LongestLine
-----------------------------------------------------------------------------
(* Induction over the natural numbers, by sets                             *)

LEMMA LessThan == \A m, n \in Nat : <<m, n>> \in OpToRel(<, Nat) <=> m < n
BY DEF OpToRel

(* Induction, for a set of numbers.                                        *)
LEMMA SetInduction ==
    ASSUME NEW S, 0 \in S, \A n \in Nat : n \in S => n + 1 \in S
    PROVE  Nat \subseteq S
<1> DEFINE T == Nat \ S
<1> SUFFICES ASSUME T # {} PROVE FALSE
  OBVIOUS
<1>1. PICK x \in T : \A y \in T : ~(<<y, x>> \in OpToRel(<, Nat))
  <2>1. T \subseteq Nat
    OBVIOUS
  <2> QED
    BY <2>1, NatLessThanWellFounded, WFMin
<1>2. x \in Nat /\ x \notin S
  OBVIOUS
<1>3. x - 1 \in Nat /\ x - 1 < x /\ (x - 1) + 1 = x
  <2>1. x # 0
    BY <1>2
  <2> QED
    BY <1>2, <2>1
<1>4. x - 1 \in T
  BY <1>2, <1>3
<1>5. <<x - 1, x>> \in OpToRel(<, Nat)
  BY <1>2, <1>3, LessThan
<1> QED
  BY <1>1, <1>4, <1>5

-----------------------------------------------------------------------------
(* Scrolling                                                               *)

(* The first k lines of the log moved up by one.                           *)
MovedUp(r, k) ==
    [y \in PixelRows |-> IF y \in 80 .. 80 + 16 * k - 1 THEN r[y + 16] ELSE r[y]]

LEMMA CopyOneLine ==
    ASSUME NEW r, NEW k \in 1 .. LogLines - 1
    PROVE  gpu_copy_rectangle(MovedUp(r, k - 1), LineY(k), LineY(k - 1), LineHeight)
           = MovedUp(r, k)
<1>1. /\ k \in Int /\ k >= 1 /\ k <= LogLines - 1 /\ LineHeight = 16
      /\ LineY(k) = 80 + 16 * k /\ LineY(k - 1) = 64 + 16 * k
      /\ 80 + LogLines * 16 <= ScreenHeight /\ LogLines \in Int /\ ScreenHeight \in Int
  BY Numbers
<1> DEFINE m == MovedUp(r, k - 1)
           At(y) == IF y \in LineY(k - 1) .. LineY(k - 1) + LineHeight - 1
                    THEN m[LineY(k) + (y - LineY(k - 1))] ELSE m[y]
           Up(y) == IF y \in 80 .. 80 + 16 * k - 1 THEN r[y + 16] ELSE r[y]
<1>2. ASSUME NEW y \in PixelRows PROVE At(y) = Up(y)
  <2>1. y \in Int /\ y >= 0 /\ y <= ScreenHeight - 1
    BY <1>1, <1>2 DEF PixelRows
  <2>2. CASE y \in 64 + 16 * k .. 64 + 16 * k + 15
    <3>1. /\ LineY(k) + (y - LineY(k - 1)) = y + 16 /\ y + 16 \in PixelRows
          /\ y + 16 \notin 80 .. 80 + 16 * (k - 1) - 1 /\ y \in 80 .. 80 + 16 * k - 1
          /\ y \in LineY(k - 1) .. LineY(k - 1) + LineHeight - 1
      BY <1>1, <2>1, <2>2 DEF PixelRows
    <3>2. m[y + 16] = r[y + 16]
      BY <3>1 DEF MovedUp
    <3> HIDE DEF m
    <3> QED
      BY <3>1, <3>2
  <2>3. CASE y \notin 64 + 16 * k .. 64 + 16 * k + 15
    <3>1. /\ y \in 80 .. 80 + 16 * k - 1 <=> y \in 80 .. 80 + 16 * (k - 1) - 1
          /\ y \notin LineY(k - 1) .. LineY(k - 1) + LineHeight - 1
      BY <1>1, <2>1, <2>3
    <3>2. m[y] = IF y \in 80 .. 80 + 16 * (k - 1) - 1 THEN r[y + 16] ELSE r[y]
      BY <1>2 DEF MovedUp
    <3> HIDE DEF m
    <3> QED
      BY <3>1, <3>2
  <2> QED
    BY <2>2, <2>3
<1> QED
  BY <1>2 DEF gpu_copy_rectangle, MovedUp

(* The loop of debug_write moves the log up by one line: no line is read   *)
(* after it has been written over.                                         *)
LEMMA ScrollsByOneLine ==
    ASSUME NEW r, r = [y \in PixelRows |-> r[y]]
    PROVE  Scrolled(r) = MovedUp(r, LogLines - 1)
<1> DEFINE Steps(g) == g = [line \in 0 .. LogLines - 1 |->
                             IF line = 0 THEN r
                             ELSE gpu_copy_rectangle(g[line - 1], LineY(line), LineY(line - 1),
                                                     LineHeight)]
           after == CHOOSE g : Steps(g)
           f == [line \in 0 .. LogLines - 1 |-> MovedUp(r, line)]
<1>0. LogLines \in Nat /\ LogLines >= 1
  BY Numbers
<1>1. Scrolled(r) = after[LogLines - 1]
  BY DEF Scrolled
<1>2. MovedUp(r, 0) = r
  <2>1. \A y \in PixelRows : y \notin 80 .. 80 + 16 * 0 - 1
    BY Numbers DEF PixelRows
  <2> QED
    BY <2>1 DEF MovedUp
<1>3. Steps(f)
  <2> SUFFICES ASSUME NEW line \in 0 .. LogLines - 1
               PROVE  MovedUp(r, line) =
                        IF line = 0 THEN r
                        ELSE gpu_copy_rectangle(f[line - 1], LineY(line), LineY(line - 1),
                                                LineHeight)
    OBVIOUS
  <2>1. CASE line = 0
    BY <1>2, <2>1
  <2>2. CASE line # 0
    <3>1. line \in 1 .. LogLines - 1 /\ line - 1 \in 0 .. LogLines - 1
      BY <1>0, <2>2
    <3>2. f[line - 1] = MovedUp(r, line - 1)
      BY <3>1
    <3> QED
      BY <2>2, <3>1, <3>2, CopyOneLine
  <2> QED
    BY <2>1, <2>2
<1>4. Steps(after)
  BY <1>3
<1> HIDE DEF after
<1>5. \A line \in 0 .. LogLines - 1 :
         after[line] = IF line = 0 THEN r
                       ELSE gpu_copy_rectangle(after[line - 1], LineY(line), LineY(line - 1),
                                               LineHeight)
  BY <1>4
<1> DEFINE S == {k \in Nat : k <= LogLines - 1 => after[k] = MovedUp(r, k)}
<1>6. 0 \in S
  <2>1. 0 \in 0 .. LogLines - 1
    BY <1>0
  <2> QED
    BY <1>2, <1>5, <2>1
<1>7. ASSUME NEW k \in Nat, k \in S PROVE k + 1 \in S
  <2> SUFFICES ASSUME k + 1 <= LogLines - 1 PROVE after[k + 1] = MovedUp(r, k + 1)
    OBVIOUS
  <2>1. k + 1 \in 0 .. LogLines - 1 /\ k + 1 # 0 /\ (k + 1) - 1 = k
        /\ k + 1 \in 1 .. LogLines - 1 /\ k <= LogLines - 1
    BY <1>0
  <2>2. after[k] = MovedUp(r, k)
    BY <1>7, <2>1
  <2>3. after[k + 1] = gpu_copy_rectangle(MovedUp(r, k), LineY(k + 1), LineY(k), LineHeight)
    BY <1>5, <2>1, <2>2
  <2> QED
    BY <2>1, <2>3, CopyOneLine
<1>8. Nat \subseteq S
  <2> HIDE DEF S
  <2> QED
    BY <1>6, <1>7, SetInduction
<1>9. LogLines - 1 \in Nat
  BY <1>0
<1> QED
  BY <1>1, <1>8, <1>9
-----------------------------------------------------------------------------
(* What a line shows                                                       *)

Entries == {Blank} \cup [text : {m.text : m \in Messages}, times : Nat \ {0}]

RowOf(e, n) == IF e = Blank \/ n >= CharHeight THEN {} ELSE {<<e.text, e.times, n>>}

Shows(r, line, e) ==
    \A n \in 0 .. LineHeight - 1 : r[LineY(line - 1) + n] = RowOf(e, n)

LEMMA ShowsRows ==
    \A r, line, e : Shows(r, line, e) <=>
                        \A n \in 0 .. 15 : r[LineY(line - 1) + n] = RowOf(e, n)
BY DEF Shows, LineHeight

LEMMA EntryType ==
    ASSUME NEW e \in Entries, e # Blank
    PROVE  e = [text |-> e.text, times |-> e.times] /\ e.times \in Nat \ {0}
BY DEF Entries

(* What it shows is what is read.                                          *)
LEMMA ReadsAsShown ==
    ASSUME NEW r, NEW line \in 1 .. LogLines, NEW e \in Entries, Shows(r, line, e)
    PROVE  Read(r, line) = e
<1> DEFINE row(n) == r[LineY(line - 1) + n]
           shows == {<<image[1], image[2]>> : image \in row(0)}
           legible == /\ Cardinality(shows) <= 1
                      /\ \A n \in 0 .. CharHeight - 1 :
                            row(n) = {<<image[1], image[2], n>> : image \in shows}
                      /\ \A n \in CharHeight .. LineHeight - 1 : row(n) = Black
           image == CHOOSE i \in shows : TRUE
<1>1. Read(r, line) = IF ~legible THEN Garbled
                      ELSE IF shows = {} THEN Blank
                      ELSE [text |-> image[1], times |-> image[2]]
  BY DEF Read
<1>2. \A n \in 0 .. 15 : row(n) = RowOf(e, n)
  BY ShowsRows
<1> HIDE DEF row
<1>3. CASE e = Blank
  <2>1. \A n \in 0 .. 15 : row(n) = {}
    BY <1>2, <1>3 DEF RowOf
  <2>2. shows = {}
    BY <2>1
  <2>3. Cardinality(shows) <= 1
    BY <2>2, FS_EmptySet
  <2>4. legible
    BY <2>1, <2>2, <2>3, Numbers DEF Black
  <2> QED
    BY <1>1, <1>3, <2>2, <2>4
<1>4. CASE e # Blank
  <2> DEFINE t == e.text
             k == e.times
  <2>1. \A n \in 0 .. 14 : row(n) = {<<t, k, n>>}
    BY <1>2, <1>4, Numbers DEF RowOf
  <2>2. row(15) = {}
    BY <1>2, <1>4, Numbers DEF RowOf
  <2>3. e = [text |-> t, times |-> k]
    BY <1>4, EntryType
  <2> HIDE DEF t, k
  <2>4. shows = {<<t, k>>}
    <3>1. row(0) = {<<t, k, 0>>}
      BY <2>1
    <3>2. shows = {<<i[1], i[2]>> : i \in {<<t, k, 0>>}}
      BY <3>1
    <3> HIDE DEF shows
    <3> QED
      BY <3>2
  <2>5. Cardinality(shows) <= 1
    <3> HIDE DEF shows
    <3>1. Cardinality({<<t, k>>}) = 1
      BY FS_Singleton
    <3> QED
      BY <2>4, <3>1
  <2>6. image = <<t, k>> /\ image[1] = t /\ image[2] = k
    BY <2>4
  <2>7. legible
    <3>1. ASSUME NEW n \in 0 .. 14 PROVE row(n) = {<<i[1], i[2], n>> : i \in shows}
      <4> HIDE DEF shows
      <4>1. {<<i[1], i[2], n>> : i \in shows} = {<<i[1], i[2], n>> : i \in {<<t, k>>}}
        BY <2>4
      <4>2. {<<i[1], i[2], n>> : i \in {<<t, k>>}} = {<<t, k, n>>}
        OBVIOUS
      <4> QED
        BY <2>1, <4>1, <4>2
    <3>2. \A n \in 15 .. 15 : row(n) = Black
      BY <2>2 DEF Black
    <3> QED
      <4> HIDE DEF shows
      <4>1. CharHeight - 1 = 14 /\ CharHeight = 15 /\ LineHeight - 1 = 15
        BY Numbers
      <4> QED
        BY <2>5, <3>1, <3>2, <4>1
  <2>8. shows # {}
    BY <2>4
  <2> HIDE DEF shows, image, legible
  <2> QED
    BY <1>1, <2>3, <2>6, <2>7, <2>8
<1> QED
  BY <1>3, <1>4

LEMMA LinePosition ==
    ASSUME NEW line \in 1 .. LogLines, NEW n \in 0 .. 15
    PROVE  /\ LineY(line - 1) = 64 + 16 * line
           /\ 64 + 16 * line + n \in PixelRows
           /\ 64 + 16 * line + n >= 80
           /\ line < LogLines => 64 + 16 * line + n \in 80 .. 80 + 16 * (LogLines - 1) - 1
           /\ line < LogLines => 64 + 16 * (line + 1) + n = 64 + 16 * line + n + 16
<1>1. /\ line \in Int /\ line >= 1 /\ line <= LogLines /\ LogLines \in Int
      /\ 80 + LogLines * 16 <= ScreenHeight /\ ScreenHeight \in Int
      /\ LineY(line - 1) = 80 + 16 * (line - 1)
  BY Numbers
<1> QED
  BY <1>1 DEF PixelRows

LEMMA HeadingOnScreen == \A y \in 0 .. 79 : y \in PixelRows /\ y \in Int /\ y < 80
BY Numbers DEF PixelRows

LEMMA NotInScrolled ==
    ASSUME NEW l \in Int, NEW n \in 0 .. 15
    PROVE  64 + 16 * l + n \notin 80 .. 80 + 16 * (l - 1) - 1
OBVIOUS

(* A line of the scrolled log shows what the next one showed; title and    *)
(* last line do not change.                                                *)
LEMMA ScrolledShows ==
    ASSUME NEW r, r = [y \in PixelRows |-> r[y]], NEW e \in [1 .. LogLines -> Entries],
           \A line \in 1 .. LogLines : Shows(r, line, e[line])
    PROVE  /\ \A line \in 1 .. LogLines - 1 : Shows(Scrolled(r), line, e[line + 1])
           /\ Shows(Scrolled(r), LogLines, e[LogLines])
           /\ \A y \in 0 .. 79 : Scrolled(r)[y] = r[y]
           /\ Scrolled(r) = [y \in PixelRows |-> Scrolled(r)[y]]
<1> DEFINE s == Scrolled(r)
           L == LogLines
<1>1. s = MovedUp(r, L - 1) /\ L \in Nat /\ L >= 1
  BY ScrollsByOneLine, Numbers
<1> HIDE DEF s
<1>2. s = [y \in PixelRows |-> s[y]]
      /\ \A y \in PixelRows : s[y] = IF y \in 80 .. 80 + 16 * (L - 1) - 1 THEN r[y + 16] ELSE r[y]
  BY <1>1 DEF MovedUp
<1>3. ASSUME NEW line \in 1 .. L - 1 PROVE Shows(s, line, e[line + 1])
  <2> SUFFICES ASSUME NEW n \in 0 .. 15
               PROVE  s[LineY(line - 1) + n] = RowOf(e[line + 1], n)
    BY ShowsRows
  <2>1. line \in 1 .. L /\ line + 1 \in 1 .. L /\ line < L /\ (line + 1) - 1 = line
    BY <1>1
  <2> DEFINE y == 64 + 16 * line + n
  <2>2. /\ LineY(line - 1) + n = y /\ y \in PixelRows
        /\ y \in 80 .. 80 + 16 * (L - 1) - 1
        /\ LineY((line + 1) - 1) + n = y + 16
    <3>1. LineY(line - 1) = 64 + 16 * line /\ y \in PixelRows
      BY <2>1, LinePosition
    <3>2. y \in 80 .. 80 + 16 * (L - 1) - 1
      BY <2>1, LinePosition
    <3>3. 64 + 16 * (line + 1) + n = y + 16
      BY <2>1, LinePosition
    <3>4. LineY((line + 1) - 1) = 64 + 16 * (line + 1)
      BY <2>1, LinePosition
    <3> QED
      BY <3>1, <3>2, <3>3, <3>4
  <2> HIDE DEF y
  <2>3. s[y] = r[y + 16]
    BY <1>2, <2>2
  <2>4. r[LineY((line + 1) - 1) + n] = RowOf(e[line + 1], n)
    BY <2>1, ShowsRows
  <2> QED
    BY <2>2, <2>3, <2>4
<1>4. Shows(s, L, e[L])
  <2> SUFFICES ASSUME NEW n \in 0 .. 15
               PROVE  s[LineY(L - 1) + n] = RowOf(e[L], n)
    BY ShowsRows
  <2>1. L \in 1 .. L
    BY <1>1
  <2> DEFINE y == 64 + 16 * L + n
  <2>2. LineY(L - 1) + n = y /\ y \in PixelRows /\ y \notin 80 .. 80 + 16 * (L - 1) - 1
    <3>1. LineY(L - 1) = 64 + 16 * L /\ 64 + 16 * L + n \in PixelRows
      BY <2>1, LinePosition
    <3>2. LogLines \in Int
      BY Numbers
    <3>3. 64 + 16 * LogLines + n \notin 80 .. 80 + 16 * (LogLines - 1) - 1
      BY <3>2, NotInScrolled
    <3> QED
      BY <3>1, <3>3
  <2> HIDE DEF y
  <2>3. s[y] = r[y]
    BY <1>2, <2>2
  <2>4. r[LineY(L - 1) + n] = RowOf(e[L], n)
    BY <2>1, ShowsRows
  <2> QED
    BY <2>2, <2>3, <2>4
<1>5. \A y \in 0 .. 79 : s[y] = r[y]
  <2>1. ASSUME NEW y \in 0 .. 79
        PROVE  y \in PixelRows /\ y \notin 80 .. 80 + 16 * (L - 1) - 1
    <3>1. y \in PixelRows /\ y \in Int /\ y < 80
      BY <2>1, HeadingOnScreen
    <3>2. \A b : y \notin 80 .. b
      BY <3>1
    <3> QED
      BY <3>1, <3>2
  <2> QED
    BY <1>2, <2>1
<1> QED
  BY <1>2, <1>3, <1>4, <1>5 DEF s

IsScreen(r) == r = [y \in PixelRows |-> r[y]]

(* The first k lines.                                                      *)
ShowAll(r, k, f) == \A line \in 1 .. k : Shows(r, line, f[line])

Written(r, g, text, times) ==
    debug_text_at(gpu_draw_solid_rect(r, g, LineY(LogLines - 1), CharHeight, Black),
                  g, LineY(LogLines - 1), text, times)

(* Clearing the last line and writing on it.                               *)
LEMMA WrittenShows ==
    ASSUME NEW r, NEW g, g.area = PixelRows, g.texpage, NEW text, NEW times,
           NEW f \in [1 .. LogLines -> Entries],
           f[LogLines] = [text |-> text, times |-> times], f[LogLines] # Blank,
           ShowAll(r, LogLines - 1, f),
           NEW b \in Entries, Shows(r, LogLines, b)
    PROVE  /\ ShowAll(Written(r, g, text, times), LogLines, f)
           /\ \A y \in 0 .. 79 : Written(r, g, text, times)[y] = r[y]
           /\ IsScreen(Written(r, g, text, times))
<1> DEFINE L == LogLines
           bottom == 64 + 16 * L
           s == Written(r, g, text, times)
<1>1. L \in Nat /\ L >= 1 /\ L \in 1 .. L /\ LineY(L - 1) = bottom /\ bottom \in Int
      /\ bottom >= 80
  BY Numbers, LastLine
<1>2. s = [y \in PixelRows |-> IF y \in bottom .. bottom + 15 - 1
                              THEN {<<text, times, y - bottom>>} ELSE r[y]]
  <2> HIDE DEF bottom
  <2> DEFINE c == gpu_draw_solid_rect(r, g, bottom, 15, Black)
  <2>1. \A y \in PixelRows : c[y] = IF y \in bottom .. bottom + 15 - 1 THEN {} ELSE r[y]
    BY DEF gpu_draw_solid_rect, Black
  <2> HIDE DEF c
  <2>2. s = [y \in PixelRows |-> IF y \in bottom .. bottom + 15 - 1 /\ y \in g.area
                                THEN c[y] \cup {<<text, times, y - bottom>>} ELSE c[y]]
    BY <1>1, Numbers DEF Written, debug_text_at, gpu_draw_tex_rect, Texture, c
  <2> HIDE DEF s
  <2> QED
    BY <2>1, <2>2
<1> HIDE DEF s
<1>3. ASSUME NEW line \in 1 .. L - 1 PROVE Shows(s, line, f[line])
  <2> SUFFICES ASSUME NEW n \in 0 .. 15
               PROVE  s[LineY(line - 1) + n] = RowOf(f[line], n)
    BY ShowsRows
  <2>1. line \in 1 .. L /\ line < L
    BY <1>1
  <2> DEFINE y == 64 + 16 * line + n
  <2>2. LineY(line - 1) + n = y /\ y \in PixelRows /\ y \in 80 .. 80 + 16 * (L - 1) - 1
    BY <2>1, LinePosition
  <2>3. y \notin bottom .. bottom + 15 - 1
    BY <1>1, <2>2
  <2> HIDE DEF y, bottom
  <2>4. s[y] = r[y]
    BY <1>2, <2>2, <2>3
  <2>5. r[LineY(line - 1) + n] = RowOf(f[line], n)
    <3>1. line \in 1 .. LogLines - 1
      BY <1>3
    <3> QED
      BY <3>1, ShowsRows DEF ShowAll
  <2> QED
    BY <2>2, <2>4, <2>5
<1>4. Shows(s, L, f[L])
  <2> SUFFICES ASSUME NEW n \in 0 .. 15
               PROVE  s[LineY(L - 1) + n] = RowOf(f[L], n)
    BY ShowsRows
  <2> DEFINE y == bottom + n
  <2>1. LineY(L - 1) + n = y /\ y \in PixelRows
    BY <1>1, LinePosition
  <2>2. CASE n = 15
    <3>1. y \notin bottom .. bottom + 15 - 1
      BY <1>1, <2>2
    <3>2. r[LineY(L - 1) + n] = RowOf(b, n)
      BY ShowsRows
    <3>3. RowOf(b, n) = {} /\ RowOf(f[L], n) = {}
      BY <2>2, Numbers DEF RowOf
    <3> HIDE DEF y, bottom
    <3> QED
      BY <1>2, <2>1, <3>1, <3>2, <3>3
  <2>3. CASE n # 15
    <3>1. y \in bottom .. bottom + 15 - 1 /\ y - bottom = n
      BY <1>1, <2>3
    <3>2. RowOf(f[L], n) = {<<text, times, n>>}
      BY <1>1, <2>3, Numbers DEF RowOf
    <3> HIDE DEF y, bottom
    <3> QED
      BY <1>2, <2>1, <3>1, <3>2
  <2> QED
    BY <2>2, <2>3
<1>5. \A y \in 0 .. 79 : s[y] = r[y]
  <2>1. ASSUME NEW y \in 0 .. 79
        PROVE  y \in PixelRows /\ y \notin bottom .. bottom + 15 - 1
    <3> HIDE DEF bottom
    <3>1. y \in PixelRows /\ y \in Int /\ y < 80
      BY <2>1, HeadingOnScreen
    <3>2. \A z : y \notin bottom .. z
      BY <1>1, <3>1
    <3> QED
      BY <3>1, <3>2
  <2> HIDE DEF bottom
  <2> QED
    BY <1>2, <2>1
<1>6. \A line \in 1 .. L : line = L \/ line \in 1 .. L - 1
  BY <1>1
<1>7. s = [y \in PixelRows |-> s[y]]
  BY <1>2
<1>8. ShowAll(s, LogLines, f)
  BY <1>3, <1>4, <1>6 DEF ShowAll
<1> QED
  BY <1>5, <1>7, <1>8 DEF s, IsScreen
-----------------------------------------------------------------------------
(* The invariant                                                           *)

Lines == Messages \cup {NoLine}

(* A screen r after the line l: entry by entry, and the last one the line  *)
(* that debug_write remembers.                                             *)
Displays(r, l, e) ==
    /\ e \in [1 .. LogLines -> Entries]
    /\ \A line \in 1 .. LogLines : Shows(r, line, e[line])
    /\ l.line = NoLine => e[LogLines] = Blank
    /\ l.line # NoLine => e[LogLines] = [text |-> l.line.text, times |-> l.count]

GpuStates == [pal : BOOLEAN, on : BOOLEAN, area : SUBSET PixelRows, texpage : BOOLEAN]

ScreenInv ==
    /\ rows = [y \in PixelRows |-> rows[y]]
    /\ gpu \in GpuStates
    /\ last \in [line : Lines, count : Nat]
    /\ ~gpu.on => last.line = NoLine
    /\ gpu.on => gpu.area = PixelRows /\ gpu.texpage
    /\ gpu.on => \E e : Displays(rows, last, e)
    /\ HeadingStands

LEMMA MessageType ==
    ASSUME NEW m \in Messages
    PROVE  /\ m # NoLine /\ m.text # "" /\ m.text \in {n.text : n \in Messages}
           /\ \A n \in Messages : n.text = m.text => n = m
BY MessagesAssumption DEF NoLine

(* debug_init                                                              *)

(* All it draws, and what a pixel row shows then.                          *)
Opened(r, g) ==
    LET cleared == gpu_draw_solid_rect(r, g, 0, ScreenHeight, Black)
        title   == debug_text_at(cleared, g, 40, "tonyhax", 1)
        band    == gpu_draw_solid_rect(title, g, 65, 2, White)
        website == debug_text_at(band, g, 40, "orca.pet", 1)
    IN  gpu_draw_tex_rect(website, g, 40, 20, <<"orca", 1>>)

OpenedRow(y) ==
    IF y \in 65 .. 66 THEN White
    ELSE IF y \in 40 .. 54 THEN {<<"tonyhax", 1, y - 40>>, <<"orca.pet", 1, y - 40>>,
                                 <<"orca", 1, y - 40>>}
    ELSE IF y \in 55 .. 59 THEN {<<"orca", 1, y - 40>>} ELSE {}

LEMMA OpeningRows ==
    ASSUME NEW r, NEW g, g.area = PixelRows, g.texpage, NEW y \in PixelRows
    PROVE  Opened(r, g)[y] = OpenedRow(y)
<1> DEFINE cleared == gpu_draw_solid_rect(r, g, 0, ScreenHeight, Black)
           title   == debug_text_at(cleared, g, 40, "tonyhax", 1)
           band    == gpu_draw_solid_rect(title, g, 65, 2, White)
           website == debug_text_at(band, g, 40, "orca.pet", 1)
           s == Opened(r, g)
<1>1. y \in g.area /\ y \in 0 .. 0 + ScreenHeight - 1 /\ y \in Int
      /\ \A name : Texture(g, <<name, 1>>)[1] = name /\ Texture(g, <<name, 1>>)[2] = 1
  BY Numbers DEF PixelRows, Texture
<1>2. cleared[y] = {}
  BY <1>1 DEF gpu_draw_solid_rect, Black
<1> HIDE DEF cleared
<1>3. title[y] = IF y \in 40 .. 54 THEN {<<"tonyhax", 1, y - 40>>} ELSE {}
  <2>1. title[y] = IF y \in 40 .. 40 + 15 - 1 THEN cleared[y] \cup {<<"tonyhax", 1, y - 40>>}
                                               ELSE cleared[y]
    BY <1>1 DEF debug_text_at, gpu_draw_tex_rect, CharHeight
  <2> HIDE DEF title
  <2> QED
    BY <1>2, <2>1
<1> HIDE DEF title
<1>4. band[y] = IF y \in 65 .. 66 THEN White ELSE title[y]
  <2>1. band[y] = IF y \in 65 .. 65 + 2 - 1 THEN White ELSE title[y]
    BY <1>1 DEF gpu_draw_solid_rect
  <2> HIDE DEF band
  <2> QED
    BY <2>1
<1> HIDE DEF band
<1>5. website[y] = IF y \in 40 .. 54 THEN band[y] \cup {<<"orca.pet", 1, y - 40>>}
                                      ELSE band[y]
  <2>1. website[y] = IF y \in 40 .. 40 + 15 - 1 THEN band[y] \cup {<<"orca.pet", 1, y - 40>>}
                                                 ELSE band[y]
    BY <1>1 DEF debug_text_at, gpu_draw_tex_rect, CharHeight
  <2> HIDE DEF website
  <2> QED
    BY <2>1
<1> HIDE DEF website
<1>6. s[y] = IF y \in 40 .. 59 THEN website[y] \cup {<<"orca", 1, y - 40>>}
                               ELSE website[y]
  <2>1. s = gpu_draw_tex_rect(website, g, 40, 20, <<"orca", 1>>)
    BY DEF Opened, website, band, title, cleared
  <2>2. s[y] = IF y \in 40 .. 40 + 20 - 1 THEN website[y] \cup {<<"orca", 1, y - 40>>}
                                          ELSE website[y]
    BY <1>1, <2>1 DEF gpu_draw_tex_rect
  <2> HIDE DEF s
  <2> QED
    BY <2>2
<1> HIDE DEF s
<1>7. CASE y \in 65 .. 66
  <2>1. y \notin 40 .. 54 /\ y \notin 40 .. 59
    BY <1>1, <1>7
  <2> QED
    BY <1>4, <1>5, <1>6, <1>7, <2>1 DEF s, OpenedRow
<1>8. CASE y \in 40 .. 54
  <2>1. y \notin 65 .. 66 /\ y \in 40 .. 59
    BY <1>1, <1>8
  <2>2. website[y] = {<<"tonyhax", 1, y - 40>>} \cup {<<"orca.pet", 1, y - 40>>}
    BY <1>3, <1>4, <1>5, <1>8, <2>1
  <2>3. s[y] = website[y] \cup {<<"orca", 1, y - 40>>}
    BY <1>6, <2>1
  <2>4. OpenedRow(y) = {<<"tonyhax", 1, y - 40>>, <<"orca.pet", 1, y - 40>>,
                        <<"orca", 1, y - 40>>}
    BY <1>8, <2>1 DEF OpenedRow
  <2>5. \A a, b, c : {a} \cup {b} \cup {c} = {a, b, c}
    OBVIOUS
  <2> QED
    BY <2>2, <2>3, <2>4, <2>5 DEF s
<1>9. CASE y \notin 65 .. 66 /\ y \notin 40 .. 54
  <2>1. website[y] = {} /\ (y \in 40 .. 59 <=> y \in 55 .. 59)
    BY <1>1, <1>3, <1>4, <1>5, <1>9
  <2> QED
    BY <1>6, <1>9, <2>1 DEF s, OpenedRow
<1> QED
  BY <1>7, <1>8, <1>9

LEMMA HeadingDrawn ==
    ASSUME NEW y \in 0 .. 79
    PROVE  Heading(y) = OpenedRow(y)
<1> DEFINE drawn == {i \in {"tonyhax", "orca.pet", "orca"} :
                       y \in 40 .. 40 + (IF i = "orca" THEN 20 ELSE CharHeight) - 1}
<1>1. /\ \A i \in drawn : i \in {"tonyhax", "orca.pet", "orca"}
      /\ "orca" \in drawn <=> y \in 40 .. 59
      /\ "tonyhax" \in drawn <=> y \in 40 .. 54
      /\ "orca.pet" \in drawn <=> y \in 40 .. 54
  BY DEF CharHeight
<1>2. Heading(y) = IF y \in 65 .. 66 THEN White ELSE {<<i, 1, y - 40>> : i \in drawn}
  BY DEF Heading
<1> HIDE DEF drawn
<1>3. CASE y \in 40 .. 54
  <2>1. y \in 40 .. 59
    BY <1>3
  <2>2. drawn = {"tonyhax", "orca.pet", "orca"}
    BY <1>1, <1>3, <2>1
  <2> QED
    BY <1>2, <1>3, <2>2 DEF OpenedRow
<1>4. CASE y \in 55 .. 59
  <2>1. y \in 40 .. 59 /\ y \notin 40 .. 54
    BY <1>4
  <2>2. drawn = {"orca"}
    BY <1>1, <2>1
  <2> QED
    BY <1>2, <1>4, <2>1, <2>2 DEF OpenedRow
<1>5. CASE y \notin 40 .. 54 /\ y \notin 55 .. 59
  <2>1. y \notin 40 .. 59
    BY <1>5
  <2>2. drawn = {}
    BY <1>1, <1>5, <2>1
  <2> QED
    BY <1>2, <1>5, <2>2 DEF OpenedRow
<1> QED
  BY <1>3, <1>4, <1>5

BlankPage == [line \in 1 .. LogLines |-> Blank]

(* What sets a field of the GPU's record leaves the others.                *)
LEMMA SetFields ==
    ASSUME NEW g, g = [pal |-> g.pal, on |-> g.on, area |-> g.area, texpage |-> g.texpage],
           NEW b
    PROVE  /\ [g EXCEPT !.pal = b]
                 = [pal |-> b, on |-> g.on, area |-> g.area, texpage |-> g.texpage]
           /\ [g EXCEPT !.on = b]
                 = [pal |-> g.pal, on |-> b, area |-> g.area, texpage |-> g.texpage]
           /\ [g EXCEPT !.area = b]
                 = [pal |-> g.pal, on |-> g.on, area |-> b, texpage |-> g.texpage]
           /\ [g EXCEPT !.texpage = b]
                 = [pal |-> g.pal, on |-> g.on, area |-> g.area, texpage |-> b]
OBVIOUS

LEMMA SwitchesOn ==
    ASSUME NEW g \in GpuStates, NEW pal
    PROVE  debug_switch_standard(g, pal)
              = [pal |-> pal, on |-> TRUE, area |-> PixelRows, texpage |-> TRUE]
<1>1. g = [pal |-> g.pal, on |-> g.on, area |-> g.area, texpage |-> g.texpage]
  BY DEF GpuStates
<1> DEFINE area == 0 .. 0 + ScreenHeight - 1
           off == [g EXCEPT !.on = FALSE]
           shut == [off EXCEPT !.area = {}]
           reset == gpu_reset(g)
           mode == gpu_display_mode(reset, pal)
           open == gpu_set_drawing_area(mode, 0, ScreenHeight)
           enabled == gpu_display_enable(open)
<1>20. /\ off = [g EXCEPT !.on = FALSE]
       /\ shut = [off EXCEPT !.area = {}]
       /\ reset = [shut EXCEPT !.texpage = FALSE]
       /\ mode = [reset EXCEPT !.pal = pal]
       /\ open = [mode EXCEPT !.area = area]
       /\ enabled = [open EXCEPT !.on = TRUE]
       /\ debug_switch_standard(g, pal) = [enabled EXCEPT !.texpage = TRUE]
  BY DEF gpu_reset, gpu_display_mode, gpu_set_drawing_area, gpu_display_enable, gpu_texture_page,
         debug_switch_standard
<1> HIDE DEF area, off, shut, reset, mode, open, enabled
<1>2. off = [pal |-> g.pal, on |-> FALSE, area |-> g.area, texpage |-> g.texpage]
  BY <1>1, <1>20, SetFields
<1>3. shut = [pal |-> g.pal, on |-> FALSE, area |-> {}, texpage |-> g.texpage]
  <2>1. /\ off = [pal |-> off.pal, on |-> off.on, area |-> off.area, texpage |-> off.texpage]
        /\ off.pal = g.pal /\ off.on = FALSE /\ off.area = g.area /\ off.texpage = g.texpage
    BY <1>2
  <2>2. [off EXCEPT !.area = {}] = [pal |-> off.pal, on |-> off.on, area |-> {}, texpage |-> off.texpage]
    BY <2>1, SetFields
  <2> QED
    BY <1>20, <2>1, <2>2
<1>4. reset = [pal |-> g.pal, on |-> FALSE, area |-> {}, texpage |-> FALSE]
  <2>1. /\ shut = [pal |-> shut.pal, on |-> shut.on, area |-> shut.area, texpage |-> shut.texpage]
        /\ shut.pal = g.pal /\ shut.on = FALSE /\ shut.area = {} /\ shut.texpage = g.texpage
    BY <1>3
  <2>2. [shut EXCEPT !.texpage = FALSE] = [pal |-> shut.pal, on |-> shut.on, area |-> shut.area, texpage |-> FALSE]
    BY <2>1, SetFields
  <2> QED
    BY <1>20, <2>1, <2>2
<1>5. mode = [pal |-> pal, on |-> FALSE, area |-> {}, texpage |-> FALSE]
  <2>1. /\ reset = [pal |-> reset.pal, on |-> reset.on, area |-> reset.area, texpage |-> reset.texpage]
        /\ reset.pal = g.pal /\ reset.on = FALSE /\ reset.area = {} /\ reset.texpage = FALSE
    BY <1>4
  <2>2. [reset EXCEPT !.pal = pal] = [pal |-> pal, on |-> reset.on, area |-> reset.area, texpage |-> reset.texpage]
    BY <2>1, SetFields
  <2> QED
    BY <1>20, <2>1, <2>2
<1>6. open = [pal |-> pal, on |-> FALSE, area |-> area, texpage |-> FALSE]
  <2>1. /\ mode = [pal |-> mode.pal, on |-> mode.on, area |-> mode.area, texpage |-> mode.texpage]
        /\ mode.pal = pal /\ mode.on = FALSE /\ mode.area = {} /\ mode.texpage = FALSE
    BY <1>5
  <2>2. [mode EXCEPT !.area = area] = [pal |-> mode.pal, on |-> mode.on, area |-> area, texpage |-> mode.texpage]
    BY <2>1, SetFields
  <2> QED
    BY <1>20, <2>1, <2>2
<1>7. enabled = [pal |-> pal, on |-> TRUE, area |-> area, texpage |-> FALSE]
  <2>1. /\ open = [pal |-> open.pal, on |-> open.on, area |-> open.area, texpage |-> open.texpage]
        /\ open.pal = pal /\ open.on = FALSE /\ open.area = area /\ open.texpage = FALSE
    BY <1>6
  <2>2. [open EXCEPT !.on = TRUE] = [pal |-> open.pal, on |-> TRUE, area |-> open.area, texpage |-> open.texpage]
    BY <2>1, SetFields
  <2> QED
    BY <1>20, <2>1, <2>2
<1>8. debug_switch_standard(g, pal) = [pal |-> pal, on |-> TRUE, area |-> area, texpage |-> TRUE]
  <2>1. /\ enabled = [pal |-> enabled.pal, on |-> enabled.on, area |-> enabled.area, texpage |-> enabled.texpage]
        /\ enabled.pal = pal /\ enabled.on = TRUE /\ enabled.area = area /\ enabled.texpage = FALSE
    BY <1>7
  <2>2. [enabled EXCEPT !.texpage = TRUE] = [pal |-> enabled.pal, on |-> enabled.on, area |-> enabled.area, texpage |-> TRUE]
    BY <2>1, SetFields
  <2> QED
    BY <1>20, <2>1, <2>2
<1>9. area = PixelRows
  BY Numbers DEF PixelRows, area
<1> QED
  BY <1>8, <1>9

(* debug_init draws the heading and leaves the log empty.                  *)
LEMMA DebugInitShows ==
    ASSUME ScreenInv, DebugInit
    PROVE  /\ rows' = [y \in PixelRows |-> rows'[y]]
           /\ gpu' \in GpuStates
           /\ gpu'.on /\ gpu'.area = PixelRows /\ gpu'.texpage
           /\ last' = last /\ last.line = NoLine
           /\ \A line \in 1 .. LogLines : Shows(rows', line, Blank)
           /\ \A y \in 0 .. 79 : rows'[y] = Heading(y)
<1>1. PICK pal \in BOOLEAN :
         LET g       == debug_switch_standard(gpu, pal)
             cleared == gpu_draw_solid_rect(rows, g, 0, ScreenHeight, Black)
             title   == debug_text_at(cleared, g, 40, "tonyhax", 1)
             band    == gpu_draw_solid_rect(title, g, 65, 2, White)
             website == debug_text_at(band, g, 40, "orca.pet", 1)
         IN  gpu' = g /\ rows' = gpu_draw_tex_rect(website, g, 40, 20, <<"orca", 1>>)
  BY DEF DebugInit
<1>2. gpu' = debug_switch_standard(gpu, pal) /\ rows' = Opened(rows, gpu')
  BY <1>1 DEF Opened
<1>3. gpu' = [pal |-> pal, on |-> TRUE, area |-> PixelRows, texpage |-> TRUE]
  BY <1>2, SwitchesOn DEF ScreenInv
<1>4. gpu'.area = PixelRows /\ gpu'.texpage /\ gpu'.on /\ gpu' \in GpuStates
  BY <1>3 DEF GpuStates
<1>5. \A y \in PixelRows : rows'[y] = OpenedRow(y)
  BY <1>2, <1>4, OpeningRows
<1>6. ASSUME NEW line \in 1 .. LogLines PROVE Shows(rows', line, Blank)
  <2> SUFFICES ASSUME NEW n \in 0 .. 15
               PROVE  rows'[LineY(line - 1) + n] = RowOf(Blank, n)
    BY ShowsRows
  <2> DEFINE y == 64 + 16 * line + n
  <2>1. LineY(line - 1) + n = y /\ y \in PixelRows /\ y >= 80 /\ y \in Int
    BY <1>6, LinePosition
  <2> HIDE DEF y
  <2>2. y \notin 65 .. 66 /\ y \notin 40 .. 54 /\ y \notin 55 .. 59
    BY <2>1
  <2>3. rows'[y] = {}
    BY <1>5, <2>1, <2>2 DEF OpenedRow
  <2>4. RowOf(Blank, n) = {}
    BY DEF RowOf
  <2> QED
    BY <2>1, <2>3, <2>4
<1>7. \A y \in 0 .. 79 : rows'[y] = Heading(y)
  BY <1>5, HeadingOnScreen, HeadingDrawn
<1>8. rows' = [y \in PixelRows |-> rows'[y]]
  BY <1>2 DEF Opened, gpu_draw_tex_rect
<1>9. last' = last /\ last.line = NoLine
  BY DEF DebugInit, ScreenInv
<1> QED
  BY <1>4, <1>6, <1>7, <1>8, <1>9

(* debug_write                                                             *)

(* The entries after a line has been written.                              *)
NextPage(e, text) ==
    IF e[LogLines] # Blank /\ e[LogLines].text = text
    THEN [e EXCEPT ![LogLines].times = @ + 1]
    ELSE [line \in 1 .. LogLines |->
             IF line = LogLines THEN [text |-> text, times |-> 1] ELSE e[line + 1]]

LEMMA DebugWriteShows ==
    ASSUME ScreenInv, gpu.on, NEW m \in Messages, debug_write(m),
           NEW e, Displays(rows, last, e)
    PROVE  /\ rows' = [y \in PixelRows |-> rows'[y]]
           /\ last' \in [line : Lines, count : Nat] /\ last'.line # NoLine
           /\ gpu' = gpu
           /\ Displays(rows', last', NextPage(e, m.text))
           /\ \A y \in 0 .. 79 : rows'[y] = rows[y]
<1> DEFINE again == last.line = m
           count == IF again THEN last.count + 1 ELSE 1
           moved == IF again THEN rows ELSE Scrolled(rows)
           f == NextPage(e, m.text)
<1>0. /\ rows = [y \in PixelRows |-> rows[y]] /\ gpu.area = PixelRows /\ gpu.texpage
      /\ last \in [line : Lines, count : Nat]
      /\ e \in [1 .. LogLines -> Entries]
      /\ \A line \in 1 .. LogLines : Shows(rows, line, e[line])
      /\ last.line = NoLine => e[LogLines] = Blank
      /\ last.line # NoLine => e[LogLines] = [text |-> last.line.text, times |-> last.count]
  BY DEF ScreenInv, Displays
<1>1. /\ last' = [line |-> m, count |-> count] /\ gpu' = gpu
      /\ rows' = Written(moved, gpu, m.text, count)
  BY DEF debug_write, Written
<1>2. count \in Nat \ {0}
  BY <1>0
<1>3. last' \in [line : Lines, count : Nat] /\ last'.line = m /\ m # NoLine
  BY <1>1, <1>2, MessageType DEF Lines
<1>4. again <=> e[LogLines] # Blank /\ e[LogLines].text = m.text
  <2>1. CASE last.line = NoLine
    BY <1>0, <1>3, <2>1
  <2>2. CASE last.line # NoLine
    <3>1. last.line \in Messages
      BY <1>0, <2>2 DEF Lines
    <3>2. last.line.text # "" /\ (last.line.text = m.text => last.line = m)
      BY <3>1, MessageType
    <3>3. e[LogLines] = [text |-> last.line.text, times |-> last.count]
      BY <1>0, <2>2
    <3>4. e[LogLines].text = last.line.text
      BY <3>3
    <3>5. Blank.text = ""
      BY DEF Blank
    <3> QED
      BY <3>2, <3>4, <3>5
  <2> QED
    BY <2>1, <2>2
<1>5. /\ f \in [1 .. LogLines -> Entries]
      /\ f[LogLines] = [text |-> m.text, times |-> count] /\ f[LogLines] # Blank
  <2>1. /\ [text |-> m.text, times |-> count] \in Entries
        /\ [text |-> m.text, times |-> count] # Blank
    BY <1>2, MessageType DEF Entries, Blank
  <2>2. CASE again
    <3>1. e[LogLines] = [text |-> m.text, times |-> last.count]
      BY <1>0, <1>3, <2>2
    <3>2. f = [e EXCEPT ![LogLines] = [text |-> m.text, times |-> count]]
      <4>1. f = [e EXCEPT ![LogLines] = [e[LogLines] EXCEPT !.times = e[LogLines].times + 1]]
        BY <1>4, <2>2 DEF NextPage
      <4>2. [e[LogLines] EXCEPT !.times = e[LogLines].times + 1]
              = [text |-> m.text, times |-> last.count + 1]
        BY <3>1
      <4> QED
        BY <2>2, <4>1, <4>2
    <3> HIDE DEF f, count
    <3> QED
      BY <1>0, <2>1, <3>2, LastLine
  <2>3. CASE ~again
    <3>1. f = [line \in 1 .. LogLines |->
                 IF line = LogLines THEN [text |-> m.text, times |-> 1] ELSE e[line + 1]]
      BY <1>4, <2>3 DEF NextPage
    <3>2. \A line \in 1 .. LogLines : line = LogLines \/ line + 1 \in 1 .. LogLines
      BY Numbers
    <3>3. count = 1
      BY <2>3
    <3> HIDE DEF f, count
    <3> QED
      BY <1>0, <2>1, <3>1, <3>2, <3>3, LastLine
  <2> QED
    BY <2>2, <2>3
<1>6. /\ \A line \in 1 .. LogLines - 1 : Shows(moved, line, f[line])
      /\ Shows(moved, LogLines, e[LogLines])
      /\ \A y \in 0 .. 79 : moved[y] = rows[y]
  <2>0. \A line \in 1 .. LogLines - 1 : line \in 1 .. LogLines /\ line # LogLines
    BY Numbers
  <2>1. CASE again
    <3>1. \A line \in 1 .. LogLines - 1 : f[line] = e[line]
      BY <1>0, <1>4, <2>0, <2>1 DEF NextPage
    <3>2. moved = rows
      BY <2>1
    <3> HIDE DEF f, moved
    <3> QED
      BY <1>0, <2>0, <3>1, <3>2, LastLine
  <2>2. CASE ~again
    <3>1. \A line \in 1 .. LogLines - 1 : f[line] = e[line + 1]
      BY <1>4, <2>0, <2>2 DEF NextPage
    <3>2. moved = Scrolled(rows)
      BY <2>2
    <3> HIDE DEF f, moved
    <3>3. /\ \A line \in 1 .. LogLines - 1 : Shows(Scrolled(rows), line, e[line + 1])
          /\ Shows(Scrolled(rows), LogLines, e[LogLines])
          /\ \A y \in 0 .. 79 : Scrolled(rows)[y] = rows[y]
      BY <1>0, ScrolledShows
    <3> QED
      BY <3>1, <3>2, <3>3
  <2> QED
    BY <2>1, <2>2
<1>7. e[LogLines] \in Entries
  BY <1>0, LastLine
<1> HIDE DEF f, moved, count, again
<1>8. /\ ShowAll(rows', LogLines, f)
      /\ \A y \in 0 .. 79 : rows'[y] = moved[y]
      /\ IsScreen(rows')
  <2>1. gpu.area = PixelRows /\ gpu.texpage
    BY <1>0
  <2>2. f \in [1 .. LogLines -> Entries]
    BY <1>5
  <2>3. f[LogLines] = [text |-> m.text, times |-> count] /\ f[LogLines] # Blank
    BY <1>5
  <2>6. ShowAll(moved, LogLines - 1, f)
    BY <1>6 DEF ShowAll
  <2>7. Shows(moved, LogLines, e[LogLines])
    BY <1>6
  <2>4. /\ ShowAll(Written(moved, gpu, m.text, count), LogLines, f)
        /\ \A y \in 0 .. 79 : Written(moved, gpu, m.text, count)[y] = moved[y]
        /\ IsScreen(Written(moved, gpu, m.text, count))
    BY <1>7, <2>1, <2>2, <2>3, <2>6, <2>7, WrittenShows
  <2> QED
    BY <1>1, <2>4
<1>9. Displays(rows', last', f)
  BY <1>1, <1>3, <1>5, <1>8 DEF Displays, ShowAll
<1> QED
  BY <1>1, <1>3, <1>6, <1>8, <1>9 DEF f, IsScreen
-----------------------------------------------------------------------------
LEMMA ScreenInit == Init => ScreenInv
BY DEF Init, ScreenInv, GpuStates, Lines, HeadingStands

LEMMA ScreenStep ==
    ASSUME ScreenInv, [Next]_vars
    PROVE  ScreenInv'
<1>1. CASE DebugInit
  <2>1. /\ rows' = [y \in PixelRows |-> rows'[y]]
        /\ gpu' \in GpuStates
        /\ gpu'.on /\ gpu'.area = PixelRows /\ gpu'.texpage
        /\ last' = last /\ last.line = NoLine
        /\ \A line \in 1 .. LogLines : Shows(rows', line, Blank)
        /\ \A y \in 0 .. 79 : rows'[y] = Heading(y)
    BY <1>1, DebugInitShows
  <2>2. Displays(rows', last', BlankPage)
    <3>1. /\ BlankPage \in [1 .. LogLines -> Entries]
          /\ \A line \in 1 .. LogLines : BlankPage[line] = Blank
      BY DEF BlankPage, Entries
    <3> QED
      BY <2>1, <3>1, LastLine DEF Displays
  <2>3. HeadingStands'
    BY <2>1, Numbers DEF HeadingStands
  <2>4. last' \in [line : Lines, count : Nat]
    BY <2>1 DEF ScreenInv
  <2> QED
    BY <2>1, <2>2, <2>3, <2>4 DEF ScreenInv
<1>2. CASE DebugWrite
  <2>1. PICK m \in Messages : debug_write(m)
    BY <1>2 DEF DebugWrite
  <2>2. gpu.on
    BY <1>2 DEF DebugWrite
  <2>3. PICK e : Displays(rows, last, e)
    BY <2>2 DEF ScreenInv
  <2>4. /\ rows' = [y \in PixelRows |-> rows'[y]]
        /\ last' \in [line : Lines, count : Nat] /\ last'.line # NoLine
        /\ gpu' = gpu
        /\ Displays(rows', last', NextPage(e, m.text))
        /\ \A y \in 0 .. 79 : rows'[y] = rows[y]
    BY <2>1, <2>2, <2>3, DebugWriteShows
  <2>5. HeadingStands'
    BY <2>4, Numbers DEF HeadingStands, ScreenInv
  <2> QED
    BY <2>2, <2>4, <2>5 DEF ScreenInv
<1>3. CASE SwitchStandard
  <2>1. /\ gpu.on /\ rows' = rows /\ last' = last
        /\ gpu' = debug_switch_standard(gpu, ~gpu.pal)
    BY <1>3 DEF SwitchStandard
  <2>2. gpu' = [pal |-> ~gpu.pal, on |-> TRUE, area |-> PixelRows, texpage |-> TRUE]
    BY <2>1, SwitchesOn DEF ScreenInv
  <2>3. /\ gpu' \in GpuStates
        /\ gpu'.on /\ gpu'.area = PixelRows /\ gpu'.texpage
    BY <2>2 DEF GpuStates
  <2>4. HeadingStands'
    BY <2>1 DEF HeadingStands, ScreenInv
  <2> QED
    BY <2>1, <2>3, <2>4 DEF ScreenInv
<1>4. CASE UNCHANGED vars
  BY <1>4 DEF vars, ScreenInv, HeadingStands
<1> QED
  BY <1>1, <1>2, <1>3, <1>4 DEF Next

THEOREM ScreenInvariant == Spec => []ScreenInv
BY ScreenInit, ScreenStep, PTL DEF Spec

(* Title and border stand as debug_init has drawn them, however often the  *)
(* log scrolls and whatever is written on it (debugscreen.c:116-132,       *)
(* 213-262).                                                               *)
THEOREM HeadingIsKept == Spec => []HeadingStands
<1>1. ScreenInv => HeadingStands
  BY DEF ScreenInv
<1> QED
  BY <1>1, ScreenInvariant, PTL
-----------------------------------------------------------------------------
(* The screen implements the book                                          *)

LEMMA PageShown ==
    ASSUME NEW r, NEW l, NEW e, Displays(r, l, e)
    PROVE  [line \in 1 .. LogLines |-> Read(r, line)] = e
<1>1. /\ e \in [1 .. LogLines -> Entries]
      /\ \A line \in 1 .. LogLines : Shows(r, line, e[line])
  BY DEF Displays
<1>2. \A line \in 1 .. LogLines : e[line] \in Entries /\ Read(r, line) = e[line]
  BY <1>1, ReadsAsShown
<1> QED
  BY <1>1, <1>2

(* A page is never the dark one: it has a line.                            *)
LEMMA PageNotDark ==
    ASSUME NEW e \in [1 .. LogLines -> Entries]
    PROVE  e # Dark
<1>1. DOMAIN e = 1 .. LogLines /\ 1 .. LogLines # {}
  BY LastLine
<1>2. DOMAIN Dark = {}
  BY DEF Dark
<1> QED
  BY <1>1, <1>2

StandardShown == IF gpu.pal THEN "PAL" ELSE "NTSC"

LEMMA BookStep ==
    ASSUME ScreenInv, [Next]_vars
    PROVE  [Book!Next]_(Book!vars)
<1>0. StandardShown \in {"PAL", "NTSC"} /\ StandardShown' \in {"PAL", "NTSC"}
  BY DEF StandardShown
<1>1. CASE DebugInit
  <2>1. /\ gpu'.on /\ last' = last /\ last.line = NoLine
        /\ \A line \in 1 .. LogLines : Shows(rows', line, Blank)
    BY <1>1, DebugInitShows
  <2>2. Displays(rows', last', BlankPage)
    <3>1. /\ BlankPage \in [1 .. LogLines -> Entries]
          /\ \A line \in 1 .. LogLines : BlankPage[line] = Blank
      BY DEF BlankPage, Entries
    <3> QED
      BY <2>1, <3>1, LastLine DEF Displays
  <2>3. Page' = BlankPage
    BY <2>1, <2>2, PageShown DEF Page
  <2>4. Page = Dark
    BY <1>1 DEF DebugInit, Page
  <2>5. Book!Open
    BY <1>0, <2>3, <2>4 DEF Book!Open, BlankPage, StandardShown
  <2> QED
    BY <2>5 DEF Book!Next
<1>2. CASE DebugWrite
  <2>1. PICK m \in Messages : debug_write(m)
    BY <1>2 DEF DebugWrite
  <2>2. gpu.on
    BY <1>2 DEF DebugWrite
  <2>3. PICK e : Displays(rows, last, e)
    BY <2>2 DEF ScreenInv
  <2>4. gpu' = gpu /\ Displays(rows', last', NextPage(e, m.text))
    BY <2>1, <2>2, <2>3, DebugWriteShows
  <2>5. Page = e /\ Page' = NextPage(e, m.text) /\ e \in [1 .. LogLines -> Entries]
    BY <2>2, <2>3, <2>4, PageShown DEF Page, Displays
  <2>6. Page # Dark
    BY <2>5, PageNotDark
  <2>7. Book!Write(m.text)
    BY <2>4, <2>5, <2>6
       DEF Book!Write, Book!WriteNew, Book!WriteAgain, Book!Bottom, NextPage
  <2>8. m.text \in {n.text : n \in Messages}
    OBVIOUS
  <2> QED
    BY <2>7, <2>8 DEF Book!Next
<1>3. CASE SwitchStandard
  <2>1. /\ gpu.on /\ rows' = rows
        /\ gpu' = debug_switch_standard(gpu, ~gpu.pal)
    BY <1>3 DEF SwitchStandard
  <2>2. gpu'.on
    BY <2>1, SwitchesOn DEF ScreenInv
  <2>3. PICK e : Displays(rows, last, e)
    BY <2>1 DEF ScreenInv
  <2>4. Page = e /\ Page' = Page /\ e \in [1 .. LogLines -> Entries]
    BY <2>1, <2>2, <2>3, PageShown DEF Page, Displays
  <2>5. Page # Dark
    BY <2>4, PageNotDark
  <2>6. Book!Switch
    BY <1>0, <2>4, <2>5 DEF Book!Switch, StandardShown
  <2> QED
    BY <2>6 DEF Book!Next
<1>4. CASE UNCHANGED vars
  <2>1. rows' = rows /\ gpu' = gpu
    BY <1>4 DEF vars
  <2>2. Page' = Page
    BY <2>1 DEF Page
  <2> QED
    BY <2>1, <2>2 DEF Book!vars
<1> QED
  BY <1>1, <1>2, <1>3, <1>4 DEF Next

(* Whatever the loader writes, in what order and however often, before and *)
(* after a change of the video standard, the screen is a page of the book: *)
(* the last lines written, the newest at the bottom, repeated ones counted *)
(* (debugscreen.c:200-265, 267-306).                                       *)
THEOREM LogImplementsBook == Spec => ScreenIsBook
<1>1. Init => Book!Init
  BY DEF Init, Book!Init, Page
<1>2. ScreenInv /\ [Next]_vars => [Book!Next]_(Book!vars)
  BY BookStep
<1>3. Spec => Book!Spec
  BY <1>1, <1>2, ScreenInvariant, PTL DEF Spec, Book!Spec
<1> QED
  BY <1>3 DEF ScreenIsBook
=============================================================================
