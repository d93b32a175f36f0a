------------------------ MODULE AntipiracyHookProofs ------------------------
(***************************************************************************)
(* The antipiracy hook under any game of the known modules, for any size   *)
(* of RAM, any depth of calls and any words in the locals of its           *)
(* functions, whether they write them or not.                              *)
(***************************************************************************)
EXTENDS AntipiracyHook, SequenceTheorems, TLAPS

Frames == [f : Functions, sp : 0 .. RamEnd]

Top(frame) == frame.sp + FrameSize(frame.f)

MayCall(f, g) ==
    \/ g \in Callees(f)
    \/ f = "main" /\ g = "ap_check" /\ module # "none"
    \/ f = "ap_check" /\ g = "ap_failed"

(* The frames lie one below the other, each with the address its caller    *)
(* goes on at in its last word but one.                                    *)
Stacked(frames, memory) ==
    /\ frames \in Seq(Frames) /\ Len(frames) >= 1
    /\ frames[1] = Frame("main", RamEnd - 8)
    /\ \A i \in 2 .. Len(frames) :
          /\ MayCall(frames[i - 1].f, frames[i].f)
          /\ Top(frames[i]) = frames[i - 1].sp
          /\ memory[Top(frames[i]) - 2] = ReturnPoint(frames[i - 1].f)
    /\ \A i, j \in 1 .. Len(frames) : i <= j => frames[i].sp >= frames[j].sp

(* Everything else in a frame is what a function writes there.             *)
LocalsWritten(frames, memory) ==
    \A i \in 1 .. Len(frames) : \A a \in frames[i].sp .. Top(frames[i]) - 1 :
        a # Top(frames[i]) - 2 \/ i = 1 => memory[a] \in LocalWords

(* The address ap_failed goes on at is nowhere in the memory.              *)
NeverFailed(frames, memory) ==
    /\ \A a \in DOMAIN memory : memory[a] # "stopping"
    /\ \A i \in 1 .. Len(frames) : frames[i].f # "ap_failed"

StackPart ==
    /\ Stacked(calls, mem)
    /\ "unwritten" \notin habit => LocalsWritten(calls, mem)
    /\ ~failed => NeverFailed(calls, mem)

(* Execution is in the innermost function; StopCallback never comes back   *)
(* to ap_failed, nor disable_ints to a StopCallback that would.            *)
ControlPart ==
    /\ sp = calls[Len(calls)].sp
    /\ at \in Functions \cup {"stopped", "trap"}
    /\ at # "trap" => Owner(at) = calls[Len(calls)].f
    /\ at = "trap" => calls[Len(calls)].f \in {"main", "draw", "load", "disable_ints"}
    /\ at = "stopped" => calls[Len(calls) - 1].f # "ap_failed"
    /\ at = "disable_ints" => calls[Len(calls) - 2].f # "ap_failed"

TypePart ==
    /\ module \in Modules
    /\ habit \in Habits
    /\ mem \in [0 .. RamEnd - 1 -> Words]
    /\ again \in BOOLEAN /\ irq \in BOOLEAN /\ failed \in BOOLEAN

OnTrack == TypePart /\ StackPart /\ ControlPart

(* The inductive invariant.                                                *)
IInv ==
    /\ Derailed => Leftovers
    /\ ~Derailed /\ at # "crashed" => OnTrack
-----------------------------------------------------------------------------
(* The functions and their frames                                          *)

LEMMA FrameSizes ==
    /\ \A f \in Functions : FrameSize(f) \in 6 .. 82
    /\ FrameSize("main") = 8 /\ FrameSize("draw") = 6 /\ FrameSize("load") = 82
    /\ FrameSize("StopCallback") = 6 /\ FrameSize("disable_ints") = 6
    /\ FrameSize("ap_check") = 8
    /\ FrameSize("ap_failed") = IF module = "v1" THEN 48 ELSE 62
BY DEF FrameSize, Functions

LEMMA Callers ==
    ASSUME NEW f \in Functions, NEW g \in Functions, MayCall(f, g)
    PROVE  /\ g # "main" /\ f # "disable_ints"
           /\ f = "StopCallback" <=> g = "disable_ints"
           /\ f = "ap_failed" => g = "StopCallback"
           /\ g = "ap_failed" => f = "ap_check"
           /\ g = "ap_check" => f = "main" /\ module # "none"
           /\ g = "draw" => f \in {"main", "load"}
           /\ g = "load" => f = "main"
BY DEF MayCall, Callees, Functions

LEMMA ReturnPoints ==
    ASSUME NEW f \in Functions
    PROVE  /\ ReturnPoint(f) \in Words /\ ReturnPoint(f) # "data" /\ ReturnPoint(f) # "trap"
           /\ Owner(f) = f /\ Owner(ReturnPoint(f)) = f
           /\ ReturnPoint(f) = "stopping" <=> f = "ap_failed"
           /\ ReturnPoint(f) = "stopped" <=> f = "StopCallback"
           /\ f \notin {"StopCallback", "ap_failed"} => ReturnPoint(f) = f
           /\ f # "ap_failed" => ReturnPoint(f) \in Functions \cup {"stopped"}
BY DEF ReturnPoint, Owner, Words, Points, LocalWords, Functions

LEMMA Within ==
    ASSUME NEW low \in Int, NEW size \in 6 .. 82
    PROVE  /\ low - size \in Int /\ low - size < low - 5 /\ (low - size) + size = low
           /\ low + size \in Int
OBVIOUS

LEMMA Below ==
    ASSUME NEW low \in Int, NEW size \in 6 .. 82, NEW top, top = low + size,
           NEW end \in Int, top <= end
    PROVE  low <= end - 6
OBVIOUS

LEMMA InFrame ==
    ASSUME NEW low \in Int, NEW size \in 6 .. 82, NEW top, top = low + size,
           NEW end \in Int, top <= end, NEW bottom \in Int, low >= bottom
    PROVE  top - 2 \in bottom .. end - 1
OBVIOUS

LEMMA FrameWithin ==
    ASSUME NEW low \in Int, NEW top \in Int, NEW end \in Int, top <= end,
           NEW bottom \in Int, low >= bottom, NEW a \in low .. top - 1
    PROVE  a \in bottom .. end - 1
OBVIOUS

LEMMA LowerIndices ==
    ASSUME NEW k \in Nat, k > 3
    PROVE  /\ k \in 1 .. k /\ k \in 2 .. k /\ k - 1 \in 2 .. k /\ k - 2 \in 2 .. k /\ k - 3 \in 1 .. k
           /\ (k - 1) - 1 = k - 2 /\ (k - 2) - 1 = k - 3
OBVIOUS

LEMMA ThreeFrames ==
    ASSUME NEW s \in Int, NEW a \in Int, NEW b \in Int, NEW c \in Int
    PROVE  s + (a + b + c) = ((s + a) + b) + c
OBVIOUS

LEMMA CallerIndex ==
    ASSUME NEW k \in Nat, k >= 1, k # 1
    PROVE  k \in 2 .. k /\ k - 1 \in 1 .. k
OBVIOUS

(* The game keeps its module.                                              *)
LEMMA StackStays ==
    ASSUME module' = module, habit' = habit, Stacked(calls', mem'),
           "unwritten" \notin habit => LocalsWritten(calls', mem'),
           ~failed' => NeverFailed(calls', mem')
    PROVE  StackPart'
<1>1. \A f : FrameSize(f)' = FrameSize(f)
  BY DEF FrameSize
<1>2. (\A i \in 2 .. Len(calls) :
          /\ MayCall(calls[i - 1].f, calls[i].f)
          /\ Top(calls[i]) = calls[i - 1].sp
          /\ mem[Top(calls[i]) - 2] = ReturnPoint(calls[i - 1].f))'
  BY <1>1 DEF Stacked, Top, MayCall
<1>3. ("unwritten" \notin habit => LocalsWritten(calls, mem))'
  BY <1>1 DEF LocalsWritten, Top
<1>4. Stacked(calls, mem)'
  BY <1>2 DEF Stacked, Frames
<1>5. (~failed => NeverFailed(calls, mem))'
  BY DEF NeverFailed
<1> QED
  BY <1>3, <1>4, <1>5 DEF StackPart

(* What the frames are like.                                               *)
LEMMA StackFacts ==
    ASSUME NEW frames, NEW memory, Stacked(frames, memory), NEW i \in 1 .. Len(frames)
    PROVE  /\ Len(frames) \in Nat /\ Len(frames) >= 1
           /\ RamEnd \in Nat /\ RamEnd >= 8
           /\ frames[i] \in Frames /\ frames[i].f \in Functions
           /\ frames[i].sp \in Int /\ 0 <= frames[i].sp
           /\ Top(frames[i]) = frames[i].sp + FrameSize(frames[i].f)
           /\ FrameSize(frames[i].f) \in 6 .. 82
           /\ Top(frames[i]) \in Int /\ Top(frames[i]) <= RamEnd
           /\ frames[i].sp >= frames[Len(frames)].sp
           /\ frames[i].f = "main" <=> i = 1
           /\ i = 1 => frames[i].sp = RamEnd - 8
<1>1. Len(frames) \in Nat /\ Len(frames) >= 1 /\ RamEnd \in Nat /\ RamEnd >= 8
  BY BoundsAssumption DEF Stacked
<1>0. frames \in Seq(Frames)
  BY DEF Stacked
<1>7. frames[i] \in Frames
  BY <1>0
<1>2. frames[i] \in Frames /\ frames[i].f \in Functions /\ frames[i].sp \in 0 .. RamEnd
  BY <1>7 DEF Frames
<1>3. Top(frames[i]) = frames[i].sp + FrameSize(frames[i].f) /\ FrameSize(frames[i].f) \in 6 .. 82
  BY <1>2, FrameSizes DEF Top
<1>4. frames[i].sp >= frames[Len(frames)].sp
  BY <1>1 DEF Stacked
<1>5. CASE i = 1
  <2>1. frames[i].sp = RamEnd - 8 /\ frames[i].f = "main"
    BY <1>5 DEF Stacked, Frame
  <2> QED
    BY <1>1, <1>2, <1>3, <1>4, <1>5, <2>1, FrameSizes
<1>6. CASE i # 1
  <2>1. i \in 2 .. Len(frames) /\ i - 1 \in 1 .. Len(frames)
    BY <1>1, <1>6
  <2>2. MayCall(frames[i - 1].f, frames[i].f) /\ Top(frames[i]) = frames[i - 1].sp
    BY <2>1 DEF Stacked
  <2>5. frames[i - 1] \in Frames
    BY <1>0, <2>1
  <2>3. frames[i - 1].f \in Functions /\ frames[i - 1].sp \in 0 .. RamEnd
    BY <2>5 DEF Frames
  <2>4. frames[i].f # "main"
    BY <1>2, <2>2, <2>3, Callers
  <2> QED
    BY <1>1, <1>2, <1>3, <1>4, <1>6, <2>2, <2>3, <2>4
<1> QED
  BY <1>5, <1>6

(* What the frame of a callee says of its caller.                          *)
LEMMA CallerFacts ==
    ASSUME NEW frames, NEW memory, Stacked(frames, memory), NEW i \in 2 .. Len(frames)
    PROVE  /\ i - 1 \in 1 .. Len(frames)
           /\ frames[i - 1].f \in Functions /\ frames[i].f \in Functions
           /\ MayCall(frames[i - 1].f, frames[i].f)
           /\ frames[i].sp + FrameSize(frames[i].f) = frames[i - 1].sp
           /\ memory[frames[i - 1].sp - 2] = ReturnPoint(frames[i - 1].f)
<1>1. i - 1 \in 1 .. Len(frames) /\ i \in 1 .. Len(frames)
  BY DEF Stacked
<1>2. frames \in Seq(Frames)
  BY DEF Stacked
<1>3. frames[i - 1] \in Frames /\ frames[i] \in Frames
  BY <1>1, <1>2
<1>4. frames[i - 1].f \in Functions /\ frames[i].f \in Functions
  BY <1>3 DEF Frames
<1>5. /\ MayCall(frames[i - 1].f, frames[i].f)
      /\ Top(frames[i]) = frames[i - 1].sp
      /\ memory[Top(frames[i]) - 2] = ReturnPoint(frames[i - 1].f)
  BY DEF Stacked
<1> QED
  BY <1>1, <1>4, <1>5 DEF Top
-----------------------------------------------------------------------------
(* The two ways the stack changes                                          *)

LEMMA PushKeeps ==
    ASSUME OnTrack, at \in Functions, NEW f \in Functions, MayCall(at, f),
           NEW local \in habit, Push(f, local), again' \in BOOLEAN,
           failed' = (failed \/ f = "ap_failed")
    PROVE  OnTrack'
<1> DEFINE n == Len(calls)
           base == sp - FrameSize(f)
<1>1. /\ n \in Nat /\ n >= 1 /\ n \in 1 .. n /\ RamEnd \in Nat
      /\ Stacked(calls, mem)
      /\ sp = calls[n].sp /\ calls[n].f = at /\ calls[n] \in Frames
      /\ calls \in Seq(Frames)
  <2>1. Stacked(calls, mem) /\ calls \in Seq(Frames)
        /\ n \in Nat /\ n >= 1 /\ n \in 1 .. n
    BY DEF OnTrack, StackPart, Stacked
  <2>2. at # "trap" /\ Owner(at) = at
    BY ReturnPoints DEF Functions
  <2> QED
    BY <2>1, <2>2, BoundsAssumption DEF OnTrack, ControlPart
<1>2. /\ sp \in Int /\ FrameSize(f) \in 6 .. 82 /\ base \in Int /\ base >= 0
      /\ base < sp - 5 /\ sp <= RamEnd - 6
      /\ sp' = base /\ module' = module /\ habit' = habit /\ irq' = irq
      /\ calls' = Append(calls, Frame(f, base))
      /\ at' = IF f = "disable_ints" THEN "trap" ELSE f
  <2>1. calls[n].sp \in Int /\ calls[n].sp <= RamEnd - 6
    <3>1. Top(calls[n]) <= RamEnd /\ Top(calls[n]) = calls[n].sp + FrameSize(calls[n].f)
          /\ FrameSize(calls[n].f) \in 6 .. 82 /\ calls[n].sp \in Int
      BY <1>1, StackFacts
    <3> QED
      <4>1. RamEnd \in Int
        BY <1>1
      <4> QED
        BY <3>1, <4>1, Below
  <2>2. /\ base >= 0
        /\ sp' = base /\ module' = module /\ habit' = habit /\ irq' = irq
        /\ calls' = Append(calls, Frame(f, base))
        /\ at' = IF f = "disable_ints" THEN "trap" ELSE f
    BY DEF Push
  <2>3. FrameSize(f) \in 6 .. 82
    BY FrameSizes
  <2>4. sp \in Int /\ sp <= RamEnd - 6
    BY <1>1, <2>1
  <2>5. base \in Int /\ base < sp - 5
    BY <2>3, <2>4, Within
  <2> QED
    BY <2>2, <2>3, <2>4, <2>5
<1>11. local \in LocalWords \cup {"unwritten"} /\ "unwritten" \notin LocalWords
  BY HabitsAssumption DEF OnTrack, TypePart, LocalWords
<1>3. /\ mem' \in [0 .. RamEnd - 1 -> Words]
      /\ mem'[sp - 2] = ReturnPoint(at)
      /\ local # "unwritten" => \A a \in base .. sp - 1 : a # sp - 2 => mem'[a] = local
      /\ \A a \in sp .. RamEnd - 1 : mem'[a] = mem[a]
      /\ \A a \in 0 .. RamEnd - 1 : mem'[a] \in {ReturnPoint(at), mem[a]} \cup LocalWords
  <2>1. /\ DOMAIN mem = 0 .. RamEnd - 1
        /\ mem' = [a \in 0 .. RamEnd - 1 |->
                      IF a = sp - 2 THEN ReturnPoint(at)
                      ELSE IF a \in base .. sp - 1 /\ local # "unwritten" THEN local
                      ELSE mem[a]]
    BY DEF OnTrack, TypePart, Push
  <2>7. \A a \in 0 .. RamEnd - 1 : mem'[a] \in {ReturnPoint(at), mem[a]} \cup LocalWords
    BY <1>11, <2>1
  <2>2. /\ ReturnPoint(at) \in Words /\ LocalWords \subseteq Words
        /\ \A a \in 0 .. RamEnd - 1 : mem[a] \in Words
    BY ReturnPoints DEF OnTrack, TypePart, Words
  <2>3. mem' \in [0 .. RamEnd - 1 -> Words]
    <3>1. \A a \in 0 .. RamEnd - 1 : mem'[a] \in Words
      BY <2>2, <2>7
    <3> QED
      BY <2>1, <3>1
  <2>4. sp - 2 \in 0 .. RamEnd - 1
    <3>1. sp \in Int /\ sp > 5 /\ sp <= RamEnd - 6 /\ RamEnd \in Nat
      BY <1>1, <1>2
    <3> QED
      BY <3>1
  <2>5. \A a \in base .. sp - 1 : a \in 0 .. RamEnd - 1
    BY <1>1, <1>2
  <2>6. \A a \in sp .. RamEnd - 1 : a \in 0 .. RamEnd - 1 /\ a # sp - 2 /\ a \notin base .. sp - 1
    BY <1>1, <1>2
  <2> QED
    BY <2>1, <2>3, <2>4, <2>5, <2>6, <2>7
<1>4. /\ Frame(f, base) \in Frames
      /\ calls' \in Seq(Frames) /\ Len(calls') = n + 1
      /\ \A i \in 1 .. n : calls'[i] = calls[i]
      /\ calls'[n + 1] = [f |-> f, sp |-> base]
  <2>1. Frame(f, base) \in Frames
    BY <1>1, <1>2 DEF Frame, Frames
  <2> QED
    BY <1>1, <1>2, <2>1 DEF Frame
<1>5. Top(calls'[n + 1]) = sp
  <2>1. calls'[n + 1].f = f /\ calls'[n + 1].sp = base
    BY <1>4
  <2>2. Top(calls'[n + 1]) = base + FrameSize(f)
    BY <2>1 DEF Top
  <2> QED
    BY <1>2, <2>2, Within
<1>6. Stacked(calls', mem')
  <2>1. calls'[1] = Frame("main", RamEnd - 8)
    BY <1>1, <1>4 DEF Stacked
  <2>2. ASSUME NEW i \in 2 .. n + 1
        PROVE  /\ MayCall(calls'[i - 1].f, calls'[i].f)
               /\ Top(calls'[i]) = calls'[i - 1].sp
               /\ mem'[Top(calls'[i]) - 2] = ReturnPoint(calls'[i - 1].f)
    <3>1. CASE i = n + 1
      BY <1>1, <1>2, <1>3, <1>4, <1>5, <3>1, SMTT(30)
    <3>2. CASE i # n + 1
      <4>1. i \in 2 .. n /\ i \in 1 .. n /\ i - 1 \in 1 .. n
        BY <1>1, <3>2
      <4>2. /\ MayCall(calls[i - 1].f, calls[i].f)
            /\ Top(calls[i]) = calls[i - 1].sp
            /\ mem[Top(calls[i]) - 2] = ReturnPoint(calls[i - 1].f)
        BY <1>1, <4>1 DEF Stacked
      <4>3. /\ Top(calls[i]) \in Int /\ Top(calls[i]) <= RamEnd
            /\ Top(calls[i]) = calls[i].sp + FrameSize(calls[i].f)
            /\ FrameSize(calls[i].f) \in 6 .. 82
            /\ calls[i].sp \in Int /\ calls[i].sp >= sp
        BY <1>1, <4>1, StackFacts
      <4>4. Top(calls[i]) - 2 \in sp .. RamEnd - 1
        <5>1. RamEnd \in Int /\ sp \in Int
          BY <1>1, <1>2
        <5> QED
          BY <4>3, <5>1, InFrame
      <4> QED
        BY <1>3, <1>4, <4>1, <4>2, <4>4
    <3> QED
      BY <3>1, <3>2
  <2>3. ASSUME NEW i \in 1 .. n + 1, NEW j \in 1 .. n + 1, i <= j
        PROVE  calls'[i].sp >= calls'[j].sp
    <3>1. CASE i = n + 1
      BY <1>1, <1>2, <1>4, <2>3, <3>1
    <3>2. CASE i # n + 1 /\ j = n + 1
      <4>1. i \in 1 .. n
        BY <1>1, <3>2
      <4>2. calls[i].sp \in Int /\ calls[i].sp >= sp
        BY <1>1, <4>1, StackFacts
      <4> QED
        BY <1>2, <1>4, <3>2, <4>1, <4>2
    <3>3. CASE j # n + 1
      <4>1. i \in 1 .. n /\ j \in 1 .. n
        BY <1>1, <2>3, <3>3
      <4>2. calls[i].sp >= calls[j].sp
        BY <1>1, <2>3, <4>1 DEF Stacked
      <4> QED
        BY <1>4, <4>1, <4>2
    <3> QED
      BY <3>1, <3>2, <3>3
  <2> QED
    BY <1>1, <1>4, <2>1, <2>2, <2>3 DEF Stacked
<1>7. "unwritten" \notin habit => LocalsWritten(calls', mem')
  <2> SUFFICES ASSUME "unwritten" \notin habit,
                      NEW i \in 1 .. n + 1, NEW a \in calls'[i].sp .. Top(calls'[i]) - 1,
                      a # Top(calls'[i]) - 2 \/ i = 1
               PROVE  mem'[a] \in LocalWords
    BY <1>4 DEF LocalsWritten
  <2>3. local # "unwritten" /\ LocalsWritten(calls, mem)
    BY DEF OnTrack, StackPart
  <2>1. CASE i = n + 1
    BY <1>1, <1>2, <1>3, <1>4, <1>5, <1>11, <2>1, <2>3
  <2>2. CASE i # n + 1
    <3>1. i \in 1 .. n /\ calls'[i] = calls[i]
      BY <1>1, <1>4, <2>2
    <3>2. mem[a] \in LocalWords
      BY <1>1, <2>3, <3>1 DEF LocalsWritten
    <3>3. /\ calls[i].sp \in Int /\ calls[i].sp >= sp /\ FrameSize(calls[i].f) \in 6 .. 82
          /\ Top(calls[i]) = calls[i].sp + FrameSize(calls[i].f) /\ Top(calls[i]) <= RamEnd
      BY <1>1, <3>1, StackFacts
    <3>4. a \in sp .. RamEnd - 1
      <4>1. a \in calls[i].sp .. Top(calls[i]) - 1
        BY <3>1
      <4>2. RamEnd \in Int /\ sp \in Int
        BY <1>1, <1>2
      <4>3. Top(calls[i]) \in Int
        BY <1>1, <3>1, StackFacts
      <4> QED
        BY <3>3, <4>1, <4>2, <4>3, FrameWithin
    <3> QED
      BY <1>3, <3>2, <3>4
  <2> QED
    BY <2>1, <2>2
<1>12. ~failed' => NeverFailed(calls', mem')
  <2> SUFFICES ASSUME ~failed' PROVE NeverFailed(calls', mem')
    OBVIOUS
  <2>1. ~failed /\ f # "ap_failed" /\ NeverFailed(calls, mem)
    BY DEF OnTrack, StackPart
  <2>2. at # "ap_failed"
    BY <1>1, <2>1 DEF NeverFailed
  <2>3. \A a \in DOMAIN mem' : mem'[a] # "stopping"
    <3>1. DOMAIN mem' = 0 .. RamEnd - 1 /\ DOMAIN mem = 0 .. RamEnd - 1
      BY <1>3 DEF OnTrack, TypePart
    <3>2. ReturnPoint(at) # "stopping" /\ "stopping" \notin LocalWords
      BY <2>2, ReturnPoints DEF LocalWords
    <3> QED
      BY <1>3, <2>1, <3>1, <3>2 DEF NeverFailed
  <2>4. \A i \in 1 .. Len(calls') : calls'[i].f # "ap_failed"
    <3> SUFFICES ASSUME NEW i \in 1 .. n + 1 PROVE calls'[i].f # "ap_failed"
      BY <1>4
    <3>1. CASE i = n + 1
      BY <1>4, <2>1, <3>1
    <3>2. CASE i # n + 1
      BY <1>1, <1>4, <2>1, <3>2 DEF NeverFailed
    <3> QED
      BY <3>1, <3>2
  <2> QED
    BY <2>3, <2>4 DEF NeverFailed
<1>8. StackPart'
  BY <1>2, <1>6, <1>7, <1>12, StackStays
<1>9. ControlPart'
  <2>1. f # "stopped" /\ f # "trap" /\ Owner(f) = f
    BY ReturnPoints DEF Functions
  <2> QED
    BY <1>2, <1>4, <2>1 DEF ControlPart
<1>10. TypePart'
  BY <1>2, <1>3 DEF OnTrack, TypePart
<1> QED
  BY <1>8, <1>9, <1>10 DEF OnTrack

LEMMA PopKeeps ==
    ASSUME OnTrack, NEW n \in 1 .. Len(calls),
           UNCHANGED <<module, habit, mem, irq, failed>>, again' \in BOOLEAN,
           calls' = SubSeq(calls, 1, n), sp' = calls[n].sp, at' = ReturnPoint(calls[n].f),
           calls[n].f \notin {"ap_failed", "disable_ints"},
           calls[n].f = "StopCallback" => calls[n - 1].f # "ap_failed"
    PROVE  OnTrack'
<1>1. Stacked(calls, mem) /\ calls \in Seq(Frames)
      /\ Len(calls) \in Nat /\ n \in Nat /\ n >= 1
  BY DEF OnTrack, StackPart, Stacked
<1>2. /\ calls' \in Seq(Frames) /\ Len(calls') = n
      /\ \A i \in 1 .. n : i \in 1 .. Len(calls) /\ calls'[i] = calls[i]
  BY <1>1
<1>3. Stacked(calls', mem')
  <2>1. calls'[1] = Frame("main", RamEnd - 8)
    BY <1>1, <1>2 DEF Stacked
  <2>2. ASSUME NEW i \in 2 .. n
        PROVE  /\ MayCall(calls'[i - 1].f, calls'[i].f)
               /\ Top(calls'[i]) = calls'[i - 1].sp
               /\ mem'[Top(calls'[i]) - 2] = ReturnPoint(calls'[i - 1].f)
    <3>1. i \in 2 .. Len(calls) /\ i \in 1 .. n /\ i - 1 \in 1 .. n
      BY <1>1
    <3> QED
      BY <1>1, <1>2, <3>1 DEF Stacked
  <2>3. ASSUME NEW i \in 1 .. n, NEW j \in 1 .. n, i <= j
        PROVE  calls'[i].sp >= calls'[j].sp
    <3>1. calls[i].sp >= calls[j].sp
      BY <1>1, <1>2, <2>3 DEF Stacked
    <3> QED
      BY <1>2, <3>1
  <2> QED
    BY <1>1, <1>2, <2>1, <2>2, <2>3 DEF Stacked
<1>4. "unwritten" \notin habit => LocalsWritten(calls', mem')
  BY <1>1, <1>2 DEF LocalsWritten, OnTrack, StackPart
<1>8. ~failed' => NeverFailed(calls', mem')
  BY <1>1, <1>2 DEF NeverFailed, OnTrack, StackPart
<1>5. StackPart'
  BY <1>3, <1>4, <1>8, StackStays
<1>6. ControlPart'
  <2>1. calls[n] \in Frames
    BY <1>1
  <2>2. calls[n].f \in Functions
    BY <2>1 DEF Frames
  <2>3. /\ at' # "trap" /\ Owner(at') = calls[n].f /\ at' \in Functions \cup {"stopped"}
        /\ at' = "stopped" => calls[n].f = "StopCallback"
        /\ at' # "disable_ints"
    BY <2>2, ReturnPoints DEF Functions
  <2>4. n >= 1 /\ at' = "stopped" => calls'[n - 1] = calls[n - 1]
    BY <1>1, <1>2, <2>2, <2>3, StackFacts
  <2>5. Len(calls') = n /\ calls'[n] = calls[n]
    BY <1>1, <1>2
  <2>6. sp' = calls'[Len(calls')].sp /\ Owner(at') = calls'[Len(calls')].f
    BY <2>3, <2>5
  <2>7. at' = "stopped" => calls'[Len(calls') - 1].f # "ap_failed"
    BY <1>1, <2>3, <2>4, <2>5
  <2> QED
    BY <2>3, <2>6, <2>7 DEF ControlPart
<1>7. TypePart'
  BY DEF OnTrack, TypePart
<1> QED
  BY <1>5, <1>6, <1>7 DEF OnTrack
-----------------------------------------------------------------------------
(* What the hook sees of the stack                                         *)

(* Ten words up from the stack pointer lies the address ap_failed goes on  *)
(* at if it is ap_failed that called StopCallback, and only if, unless it  *)
(* can be left there by an earlier call.                                   *)
LEMMA SeenIsMeant ==
    ASSUME OnTrack, at = "trap"
    PROVE  /\ FromApFailed => ~CrossesRam /\ Word(sp + 10) = "stopping"
           /\ ~CrossesRam /\ Word(sp + 10) = "stopping" /\ ~Leftovers => FromApFailed
           /\ FromApFailed => module \in {"v1", "v15", "v2"}
           /\ CrossesRam \/ (sp + 10 \in DOMAIN mem /\ Word(sp + 10) = mem[sp + 10])
           /\ calls[Len(calls)].f = "disable_ints" /\ calls[Len(calls) - 2].f = "ap_failed"
                 => FromApFailed
<1> DEFINE n == Len(calls)
<1>1. /\ n \in Nat /\ n >= 1 /\ n \in 1 .. n /\ RamEnd \in Nat /\ RamEnd >= 8
      /\ Stacked(calls, mem) /\ DOMAIN mem = 0 .. RamEnd - 1
      /\ sp = calls[n].sp /\ calls[n].f \in {"main", "draw", "load", "disable_ints"}
      /\ ~Leftovers => LocalsWritten(calls, mem) \/ NeverFailed(calls, mem)
  <2>1. Stacked(calls, mem) /\ calls \in Seq(Frames) /\ n >= 1
    BY DEF OnTrack, StackPart, Stacked
  <2>2. n \in Nat /\ n \in 1 .. n
    BY <2>1
  <2>3. ~Leftovers => LocalsWritten(calls, mem) \/ NeverFailed(calls, mem)
    BY Zenon DEF OnTrack, StackPart, Leftovers
  <2> QED
    BY <2>1, <2>2, <2>3, BoundsAssumption DEF OnTrack, TypePart, ControlPart
<1>2. /\ sp \in Int /\ sp >= 0 /\ FrameSize(calls[n].f) \in 6 .. 82
      /\ Top(calls[n]) = sp + FrameSize(calls[n].f) /\ Top(calls[n]) <= RamEnd
      /\ calls[n].f = "main" <=> n = 1
      /\ n = 1 => sp = RamEnd - 8
  BY <1>1, StackFacts
<1>3. CrossesRam \/ sp + 10 \in DOMAIN mem
  BY <1>1, <1>2 DEF CrossesRam
<1>4. CrossesRam \/ Word(sp + 10) = mem[sp + 10]
  BY <1>3 DEF Word
<1>10. ASSUME LocalsWritten(calls, mem) => mem[sp + 10] \in LocalWords, ~Leftovers, ~CrossesRam
       PROVE  Word(sp + 10) # "stopping"
  BY <1>1, <1>3, <1>4, <1>10 DEF NeverFailed, LocalWords
<1>5. CASE calls[n].f = "main"
  BY <1>1, <1>2, <1>5 DEF CrossesRam, FromApFailed
<1>6. CASE calls[n].f = "load"
  <2>1. FrameSize(calls[n].f) = 82
    BY <1>6, FrameSizes
  <2>2. sp + 10 \in calls[n].sp .. Top(calls[n]) - 1 /\ sp + 10 # Top(calls[n]) - 2
    BY <1>1, <1>2, <2>1
  <2>3. LocalsWritten(calls, mem) => mem[sp + 10] \in LocalWords
    BY <1>1, <2>2 DEF LocalsWritten
  <2>4. ~Leftovers /\ ~CrossesRam => Word(sp + 10) # "stopping"
    BY <1>10, <2>3
  <2> QED
    BY <1>3, <1>4, <1>6, <2>4 DEF FromApFailed
<1>7. ASSUME n >= 2, FrameSize(calls[n].f) = 6
      PROVE  /\ n - 1 \in 1 .. n /\ n \in 2 .. n
             /\ sp + 10 = calls[n - 1].sp + 4
             /\ calls[n - 1].sp \in Int
             /\ MayCall(calls[n - 1].f, calls[n].f)
             /\ calls[n - 1].f \in Functions /\ calls[n].f \in Functions
             /\ Top(calls[n - 1]) = calls[n - 1].sp + FrameSize(calls[n - 1].f)
             /\ calls[n - 1].f = "main" => n - 1 = 1
  <2>1. n - 1 \in 1 .. n /\ n \in 2 .. n
    BY <1>1, <1>7
  <2>2. /\ calls[n].sp + FrameSize(calls[n].f) = calls[n - 1].sp
        /\ MayCall(calls[n - 1].f, calls[n].f)
        /\ calls[n - 1].f \in Functions /\ calls[n].f \in Functions
    BY <1>1, <2>1, CallerFacts
  <2>3. /\ calls[n - 1].sp \in Int
        /\ Top(calls[n - 1]) = calls[n - 1].sp + FrameSize(calls[n - 1].f)
        /\ calls[n - 1].f = "main" => n - 1 = 1
    BY <1>1, <2>1, StackFacts
  <2>4. sp + 10 = calls[n - 1].sp + 4
    BY <1>1, <1>2, <1>7, <2>2, <2>3, SMTT(30)
  <2> QED
    BY <2>1, <2>2, <2>3, <2>4
<1>8. CASE calls[n].f = "draw"
  <2>1. n >= 2 /\ FrameSize(calls[n].f) = 6
    BY <1>1, <1>2, <1>8, FrameSizes
  <2>2. calls[n - 1].f \in {"main", "load"}
    BY <1>7, <1>8, <2>1, Callers
  <2>3. /\ sp + 10 \in calls[n - 1].sp .. Top(calls[n - 1]) - 1
        /\ sp + 10 # Top(calls[n - 1]) - 2 \/ n - 1 = 1
    BY <1>7, <2>1, <2>2, FrameSizes, SMTT(30)
  <2>4. LocalsWritten(calls, mem) => mem[sp + 10] \in LocalWords
    BY <1>1, <1>7, <2>1, <2>3 DEF LocalsWritten
  <2>5. ~Leftovers /\ ~CrossesRam => Word(sp + 10) # "stopping"
    BY <1>10, <2>4
  <2> QED
    BY <1>3, <1>4, <1>8, <2>5 DEF FromApFailed
<1>9. CASE calls[n].f = "disable_ints"
  <2>1. n >= 2 /\ FrameSize(calls[n].f) = 6
    BY <1>1, <1>2, <1>9, FrameSizes
  <2>2. calls[n - 1].f = "StopCallback"
    BY <1>7, <1>9, <2>1, Callers
  <2>3. n - 1 # 1 /\ n - 1 \in 2 .. n /\ FrameSize(calls[n - 1].f) = 6
    <3>1. n - 1 # 1
      BY <1>1, <1>7, <2>1, <2>2, StackFacts
    <3>3. n - 1 \in 1 .. n
      BY <1>7, <2>1
    <3>4. n \in Int
      BY <1>1
    <3>2. n - 1 \in 2 .. n
      BY <3>1, <3>3, <3>4
    <3> QED
      BY <2>2, <3>1, <3>2, FrameSizes
  <2>4. /\ n - 2 \in 1 .. n /\ (n - 1) - 1 = n - 2
        /\ calls[n - 2].f \in Functions
        /\ MayCall(calls[n - 2].f, calls[n - 1].f)
        /\ calls[n - 1].sp + FrameSize(calls[n - 1].f) = calls[n - 2].sp
        /\ mem[calls[n - 2].sp - 2] = ReturnPoint(calls[n - 2].f)
    <3>1. (n - 1) - 1 = n - 2 /\ n - 2 \in 1 .. n
      BY <1>1, <2>3
    <3> QED
      BY <1>1, <2>3, <3>1, CallerFacts
  <2>5. calls[n - 2].sp \in Int
    BY <1>1, <2>4, StackFacts
  <2>6. sp + 10 = calls[n - 2].sp - 2
    BY <1>7, <2>1, <2>3, <2>4, <2>5, SMTT(30)
  <2>7. sp + 10 < RamEnd
    <3>1. calls[n - 2].sp <= RamEnd - 6
      <4>1. /\ calls[n - 2].sp \in Int /\ FrameSize(calls[n - 2].f) \in 6 .. 82
            /\ Top(calls[n - 2]) = calls[n - 2].sp + FrameSize(calls[n - 2].f)
            /\ Top(calls[n - 2]) <= RamEnd
        BY <1>1, <2>4, StackFacts
      <4>2. RamEnd \in Int
        BY <1>1
      <4> QED
        BY <4>1, <4>2, Below
    <3> QED
      BY <1>1, <2>5, <2>6, <3>1
  <2>8. ~CrossesRam /\ (Word(sp + 10) = "stopping" <=> calls[n - 2].f = "ap_failed")
    <3>1. ~CrossesRam
      BY <1>1, <1>2, <2>7 DEF CrossesRam
    <3>2. Word(sp + 10) = ReturnPoint(calls[n - 2].f)
      BY <1>4, <2>4, <2>6, <3>1
    <3> QED
      BY <2>4, <3>1, <3>2, ReturnPoints
  <2>9. calls[n - 2].f = "ap_failed" => n > 3 /\ module \in {"v1", "v15", "v2"}
    <3> SUFFICES ASSUME calls[n - 2].f = "ap_failed"
                 PROVE  n > 3 /\ module \in {"v1", "v15", "v2"}
      OBVIOUS
    <3>8. n - 2 # 1
      BY <1>1, <2>4, StackFacts
    <3>1. n - 2 # 1 /\ n - 2 \in 2 .. n
      BY <1>1, <2>4, <3>8
    <3>2. n - 3 \in 1 .. n /\ (n - 2) - 1 = n - 3
      BY <1>1, <3>1
    <3>3. calls[n - 3].f \in Functions /\ MayCall(calls[n - 3].f, calls[n - 2].f)
      BY <1>1, <3>1, <3>2, CallerFacts
    <3>4. calls[n - 3].f = "ap_check"
      BY <2>4, <3>3, Callers
    <3>9. n - 3 # 1
      BY <1>1, <3>2, <3>4, StackFacts
    <3>5. n - 3 # 1 /\ n - 3 \in 2 .. n
      BY <1>1, <3>2, <3>9
    <3>6. calls[n - 3 - 1].f \in Functions /\ MayCall(calls[n - 3 - 1].f, calls[n - 3].f)
      BY <1>1, <3>5, CallerFacts
    <3>7. module # "none"
      BY <3>3, <3>4, <3>6, Callers
    <3> QED
      BY <1>1, <3>5, <3>7, ModulesAssumption DEF OnTrack, TypePart
  <2> QED
    BY <1>3, <1>4, <1>9, <2>2, <2>8, <2>9 DEF FromApFailed
<1> QED
  BY <1>1, <1>5, <1>6, <1>8, <1>9

(* What the hook does is right, but for what may be left over, and but for *)
(* a pointer to the last bytes of the RAM.                                 *)
LEMMA SignatureSeen ==
    ASSUME OnTrack, at = "trap"
    PROVE  /\ FromApFailed => Recognised /\ ~Faults
           /\ Recognised /\ ~Leftovers => FromApFailed
           /\ Faults => OutOfRam
<1>1. FromApFailed => Recognised
  <2> SUFFICES ASSUME FromApFailed PROVE Recognised
    OBVIOUS
  <2>1. ~CrossesRam /\ Word(sp + 10) = "stopping" /\ module \in {"v1", "v15", "v2"}
    BY SeenIsMeant
  <2> QED
    BY <2>1 DEF Recognised, Signature, Considered, PassesMask
<1>2. Recognised /\ ~Leftovers => FromApFailed
  BY SeenIsMeant DEF Recognised, Signature, Considered
<1>3. FromApFailed => ~Faults
  BY SeenIsMeant DEF Faults, Considered, Points
<1>4. Faults => OutOfRam
  <2> SUFFICES ASSUME Faults PROVE OutOfRam
    OBVIOUS
  <2>1. ~CrossesRam /\ sp + 10 \in DOMAIN mem /\ Word(sp + 10) = mem[sp + 10]
    BY SeenIsMeant DEF Faults, Considered
  <2>2. mem[sp + 10] \in Words
    BY <2>1 DEF OnTrack, TypePart
  <2> QED
    BY <2>1, <2>2 DEF Faults, Considered, PassesMask, Words, LocalWords, OutOfRam
<1> QED
  BY <1>1, <1>2, <1>3, <1>4
-----------------------------------------------------------------------------
(* The invariant                                                           *)

LEMMA Start == ASSUME Init PROVE OnTrack
<1>1. RamEnd \in Nat /\ RamEnd >= 8
  BY BoundsAssumption
<1>2. calls = <<[f |-> "main", sp |-> RamEnd - 8]>> /\ sp = RamEnd - 8 /\ at = "main"
  BY DEF Init, Frame
<1>3. calls \in Seq(Frames) /\ Len(calls) = 1 /\ calls[1] = [f |-> "main", sp |-> RamEnd - 8]
  <2>1. [f |-> "main", sp |-> RamEnd - 8] \in Frames
    BY <1>1 DEF Frames, Functions
  <2> QED
    BY <1>2, <2>1
<1>4. PICK word \in (habit \ {"unwritten"}) \cup {"pointer"} :
          mem = [a \in 0 .. RamEnd - 1 |-> word]
  BY DEF Init
<1>9. word \in LocalWords /\ ~failed /\ habit \in Habits
  BY HabitsAssumption DEF Init, LocalWords
<1>5. TypePart
  BY <1>4, <1>9 DEF Init, TypePart, Words
<1>6. Stacked(calls, mem)
  BY <1>1, <1>3 DEF Stacked, Frame
<1>7. LocalsWritten(calls, mem)
  <2>1. Top(calls[1]) = RamEnd /\ calls[1].sp = RamEnd - 8
    BY <1>1, <1>3, FrameSizes DEF Top
  <2>2. \A a \in calls[1].sp .. Top(calls[1]) - 1 : a \in 0 .. RamEnd - 1
    BY <1>1, <2>1
  <2> QED
    BY <1>3, <1>4, <1>9, <2>2 DEF LocalsWritten
<1>10. NeverFailed(calls, mem)
  BY <1>3, <1>4, <1>9 DEF NeverFailed, LocalWords
<1>8. ControlPart
  <2>1. at \in Functions /\ Owner(at) = "main"
    BY <1>2 DEF Functions, Owner
  <2> QED
    BY <1>2, <1>3, <2>1 DEF ControlPart
<1> QED
  BY <1>5, <1>6, <1>7, <1>8, <1>10 DEF OnTrack, StackPart

(* Nothing of the stack changes and the processor is where it may be.      *)
LEMMA StayKeeps ==
    ASSUME OnTrack, UNCHANGED <<module, habit, sp, mem, calls, failed>>,
           again' \in BOOLEAN, irq' \in BOOLEAN, ControlPart'
    PROVE  OnTrack'
<1>1. /\ Stacked(calls', mem')
      /\ "unwritten" \notin habit => LocalsWritten(calls', mem')
      /\ ~failed' => NeverFailed(calls', mem')
  <2>1. StackPart /\ calls' = calls /\ mem' = mem /\ failed' = failed
    BY DEF OnTrack
  <2> QED
    BY <2>1 DEF StackPart
<1>2. StackPart'
  BY <1>1, StackStays
<1>3. TypePart'
  BY DEF OnTrack, TypePart
<1> QED
  BY <1>2, <1>3 DEF OnTrack

LEMMA GameKeeps == ASSUME OnTrack, Game PROVE OnTrack'
<1> DEFINE n == Len(calls)
<1>1. /\ n \in Nat /\ n >= 1 /\ n \in 1 .. n /\ RamEnd \in Nat
      /\ Stacked(calls, mem) /\ calls \in Seq(Frames) /\ calls[n] \in Frames
      /\ sp = calls[n].sp /\ calls[n].f \in Functions
      /\ again \in BOOLEAN /\ irq \in BOOLEAN /\ failed \in BOOLEAN
  <2>1. Stacked(calls, mem) /\ calls \in Seq(Frames) /\ n >= 1
    BY DEF OnTrack, StackPart, Stacked
  <2>2. n \in Nat /\ n \in 1 .. n /\ calls[n] \in Frames
    BY <2>1
  <2> QED
    BY <2>1, <2>2, BoundsAssumption DEF OnTrack, TypePart, ControlPart, Frames
<1>2. CASE Call
  <2>1. PICK f \in Callees(at), local \in habit : Push(f, local) /\ again' = again /\ failed' = failed
    BY <1>2 DEF Call
  <2>2. at \in Functions /\ f \in Functions /\ MayCall(at, f) /\ f # "ap_failed"
    BY <2>1 DEF Callees, MayCall, Functions
  <2> QED
    BY <1>1, <2>1, <2>2, PushKeeps
<1>3. CASE CheckDisc
  <2>1. PICK local \in habit : Push("ap_check", local)
    BY <1>3 DEF CheckDisc
  <2>2. at \in Functions /\ "ap_check" \in Functions /\ MayCall(at, "ap_check")
        /\ again' \in BOOLEAN /\ failed' = failed
    BY <1>3 DEF CheckDisc, MayCall, Functions
  <2> QED
    BY <1>1, <2>1, <2>2, PushKeeps
<1>4. CASE CheckPasses
  <2>1. /\ UNCHANGED <<module, habit, sp, mem, calls, failed>> /\ again' \in BOOLEAN /\ irq' \in BOOLEAN
        /\ at' = at
    BY <1>1, <1>4 DEF CheckPasses
  <2>2. ControlPart'
    BY <2>1 DEF OnTrack, ControlPart
  <2> QED
    BY <2>1, <2>2, StayKeeps
<1>5. CASE CheckFails
  <2>1. PICK local \in habit : Push("ap_failed", local)
    BY <1>5 DEF CheckFails
  <2>2. at \in Functions /\ "ap_failed" \in Functions /\ MayCall(at, "ap_failed")
        /\ again' \in BOOLEAN /\ failed' = TRUE
    BY <1>1, <1>5 DEF CheckFails, MayCall, Functions
  <2> QED
    BY <1>1, <2>1, <2>2, PushKeeps
<1>6. CASE Return
  <2>1. /\ at \in {"draw", "load", "disable_ints", "stopped", "ap_check"}
        /\ sp' = sp + FrameSize(Owner(at)) /\ at' = mem[sp' - 2]
        /\ calls' = Front(calls)
        /\ UNCHANGED <<module, habit, mem, again, irq, failed>>
    BY <1>6 DEF Return
  <2>2. Owner(at) = calls[n].f /\ calls[n].f \in {"draw", "load", "disable_ints", "StopCallback", "ap_check"}
    BY <2>1 DEF OnTrack, ControlPart, Owner
  <2>3. n # 1
    BY <1>1, <2>2, StackFacts
  <2>4. n \in 2 .. n /\ n - 1 \in 1 .. n /\ n - 1 \in 1 .. Len(calls)
    BY <1>1, <2>3, CallerIndex
  <2>5. /\ calls[n - 1].f \in Functions
        /\ MayCall(calls[n - 1].f, calls[n].f)
        /\ calls[n].sp + FrameSize(calls[n].f) = calls[n - 1].sp
        /\ mem[calls[n - 1].sp - 2] = ReturnPoint(calls[n - 1].f)
    BY <1>1, <2>4, CallerFacts
  <2>6. sp' = calls[n - 1].sp /\ at' = ReturnPoint(calls[n - 1].f)
    BY <1>1, <2>1, <2>2, <2>5
  <2>7. calls' = SubSeq(calls, 1, n - 1)
    BY <2>1 DEF Front
  <2>8. calls[n - 1].f \notin {"ap_failed", "disable_ints"}
    <3>1. calls[n - 1].f # "disable_ints"
      BY <1>1, <2>5, Callers
    <3>2. calls[n - 1].f = "ap_failed" => at = "stopped"
      BY <1>1, <2>1, <2>2, <2>5, Callers DEF Owner
    <3> QED
      BY <3>1, <3>2 DEF OnTrack, ControlPart
  <2>9. calls[n - 1].f = "StopCallback" => calls[n - 1 - 1].f # "ap_failed"
    <3>1. calls[n - 1].f = "StopCallback" => at = "disable_ints"
      BY <1>1, <2>1, <2>2, <2>5, Callers DEF Owner
    <3>2. n - 1 - 1 = n - 2
      BY <1>1
    <3> QED
      BY <3>1, <3>2 DEF OnTrack, ControlPart
  <2> QED
    BY <1>1, <2>1, <2>4, <2>6, <2>7, <2>8, <2>9, PopKeeps
<1>7. CASE EnterCriticalSection
  <2>1. /\ UNCHANGED <<module, habit, sp, mem, calls, failed>> /\ again' \in BOOLEAN /\ irq' \in BOOLEAN
        /\ at' = "trap" /\ at \in {"main", "draw", "load"}
    BY <1>1, <1>7 DEF EnterCriticalSection
  <2>2. calls[n].f = at
    BY <2>1 DEF OnTrack, ControlPart, Owner
  <2>3. ControlPart'
    BY <1>1, <2>1, <2>2 DEF ControlPart
  <2> QED
    BY <2>1, <2>3, StayKeeps
<1>8. CASE ExitCriticalSection
  <2>1. /\ UNCHANGED <<module, habit, sp, mem, calls, failed>> /\ again' \in BOOLEAN /\ irq' \in BOOLEAN
        /\ at' = at
    BY <1>1, <1>8 DEF ExitCriticalSection
  <2>2. ControlPart'
    BY <2>1 DEF OnTrack, ControlPart
  <2> QED
    BY <2>1, <2>2, StayKeeps
<1> QED
  BY <1>2, <1>3, <1>4, <1>5, <1>6, <1>7, <1>8 DEF Game

LEMMA SkipKeeps == ASSUME OnTrack, Skip PROVE OnTrack'
<1>1. /\ UNCHANGED <<module, habit, sp, mem, calls, failed>> /\ again' = again /\ irq' = FALSE
      /\ at = "trap" /\ ~FromApFailed /\ at' = Last(calls).f
  BY SignatureSeen DEF Skip
<1>2. /\ calls[Len(calls)].f \in {"main", "draw", "load", "disable_ints"}
      /\ sp = calls[Len(calls)].sp
  BY <1>1 DEF OnTrack, ControlPart
<1>3. at' = calls[Len(calls)].f /\ Owner(at') = at' /\ at' \in Functions /\ at' # "trap" /\ at' # "stopped"
  BY <1>1, <1>2 DEF Last, Owner, Functions
<1>4. at' = "disable_ints" => calls[Len(calls) - 2].f # "ap_failed"
  BY <1>1, <1>3, SeenIsMeant
<1>5. ControlPart'
  BY <1>1, <1>2, <1>3, <1>4 DEF ControlPart
<1> QED
  BY <1>1, <1>5, StayKeeps DEF OnTrack, TypePart

(* ap_failed and what it has called are off the stack.                     *)
LEMMA DefuseKeeps == ASSUME OnTrack, Defuse, FromApFailed PROVE OnTrack'
<1> DEFINE n == Len(calls)
<1>1. /\ at = "trap" /\ FromApFailed /\ module \in {"v1", "v15", "v2"}
      /\ Signature("v1") <=> module = "v1"
      /\ sp' = sp + Adjust /\ at' = Word(sp' - 2) /\ again' = FALSE
      /\ calls' = SubSeq(calls, 1, n - 3)
      /\ UNCHANGED <<module, habit, mem, irq, failed>>
  <2>1. at = "trap" /\ calls' = Unwound /\ sp' = sp + Adjust /\ at' = Word(sp' - 2) /\ again' = FALSE
        /\ UNCHANGED <<module, habit, mem, irq, failed>>
    BY DEF Defuse
  <2>2. ~CrossesRam /\ Word(sp + 10) = "stopping" /\ module \in {"v1", "v15", "v2"}
    BY <2>1, SeenIsMeant
  <2> QED
    BY <2>1, <2>2 DEF Unwound, Signature, Considered, PassesMask
<1>2. /\ n \in Nat /\ n > 3 /\ Stacked(calls, mem) /\ calls \in Seq(Frames)
      /\ calls[n].f = "disable_ints" /\ calls[n - 1].f = "StopCallback" /\ calls[n - 2].f = "ap_failed"
      /\ sp = calls[n].sp /\ DOMAIN mem = 0 .. RamEnd - 1 /\ RamEnd \in Nat
  <2>1. Stacked(calls, mem) /\ calls \in Seq(Frames)
    BY DEF OnTrack, StackPart, Stacked
  <2>2. n \in Nat
    BY <2>1
  <2> QED
    BY <1>1, <2>1, <2>2, BoundsAssumption DEF OnTrack, ControlPart, TypePart, FromApFailed
<1>3. /\ n \in 1 .. n /\ n \in 2 .. n /\ n - 1 \in 2 .. n /\ n - 2 \in 2 .. n /\ n - 3 \in 1 .. n
      /\ (n - 1) - 1 = n - 2 /\ (n - 2) - 1 = n - 3
  BY <1>2, LowerIndices
<1>4. /\ calls[n].sp + FrameSize("disable_ints") = calls[n - 1].sp
      /\ calls[n - 1].sp + FrameSize("StopCallback") = calls[n - 2].sp
      /\ calls[n - 2].sp + FrameSize("ap_failed") = calls[n - 3].sp
      /\ calls[n - 3].f \in Functions /\ MayCall(calls[n - 3].f, "ap_failed")
      /\ mem[calls[n - 3].sp - 2] = ReturnPoint(calls[n - 3].f)
  BY <1>2, <1>3, CallerFacts, SMTT(30)
<1>5. calls[n - 3].f = "ap_check"
  BY <1>4, Callers DEF Functions
<1>6. Adjust = FrameSize("disable_ints") + FrameSize("StopCallback") + FrameSize("ap_failed")
  BY <1>1, FrameSizes DEF Adjust
<1>7. sp \in Int /\ sp >= 0
  BY <1>2, <1>3, StackFacts
<1>8. sp' = calls[n - 3].sp
  <2>1. FrameSize("disable_ints") \in Int /\ FrameSize("StopCallback") \in Int
        /\ FrameSize("ap_failed") \in Int
    BY FrameSizes DEF Functions
  <2>2. sp' = ((sp + FrameSize("disable_ints")) + FrameSize("StopCallback")) + FrameSize("ap_failed")
    BY <1>1, <1>6, <1>7, <2>1, ThreeFrames
  <2>3. ((sp + FrameSize("disable_ints")) + FrameSize("StopCallback")) + FrameSize("ap_failed")
           = calls[n - 3].sp
    BY <1>2, <1>4, Zenon
  <2> QED
    BY <2>2, <2>3
<1>9. at' = ReturnPoint(calls[n - 3].f)
  <2>1. /\ calls[n - 3].sp \in Int /\ FrameSize(calls[n - 3].f) \in 6 .. 82
        /\ Top(calls[n - 3]) = calls[n - 3].sp + FrameSize(calls[n - 3].f)
        /\ Top(calls[n - 3]) <= RamEnd
    BY <1>2, <1>3, StackFacts
  <2>2. calls[n - 3].sp <= RamEnd - 6
    <3>1. RamEnd \in Int
      BY <1>2
    <3> QED
      BY <2>1, <3>1, Below
  <2>3. calls[n - 3].sp >= 6
    BY <1>1, <1>6, <1>7, <1>8, FrameSizes
  <2>4. calls[n - 3].sp - 2 \in DOMAIN mem
    BY <1>2, <2>1, <2>2, <2>3
  <2> QED
    BY <1>1, <1>4, <1>8, <2>4 DEF Word
<1> QED
  BY <1>1, <1>2, <1>3, <1>5, <1>8, <1>9, PopKeeps
-----------------------------------------------------------------------------
(* Taken off its way by anyone else, a game is out of the hook's hands,    *)
(* and that only happens with what an earlier check has left.              *)
LEMMA Derail ==
    ASSUME OnTrack, Defuse, ~FromApFailed
    PROVE  Derailed' /\ Leftovers'
<1>1. Leftovers
  BY SignatureSeen DEF Defuse
<1>2. calls' = <<>> /\ UNCHANGED <<habit, failed>>
  BY DEF Defuse, Unwound
<1> QED
  BY <1>1, <1>2 DEF Derailed, Leftovers

(* A game on its way has called at least main.                             *)
LEMMA OnTrackIsNotDerailed == ASSUME OnTrack PROVE ~Derailed
<1>1. calls \in Seq(Frames) /\ Len(calls) >= 1
  BY DEF OnTrack, StackPart, Stacked
<1> QED
  BY <1>1 DEF Derailed

(* Neither the game nor the kernel goes on after what went wrong.          *)
LEMMA NothingAfter ==
    ASSUME Derailed => Leftovers, Derailed \/ at = "crashed", [Next]_vars
    PROVE  (Derailed => Leftovers)' /\ (Derailed \/ at = "crashed")'
<1>1. ASSUME at = "crashed" PROVE ~Game /\ ~Defuse /\ ~Skip /\ ~Crash
  BY <1>1 DEF Game, Call, CheckDisc, CheckPasses, CheckFails, Return, EnterCriticalSection,
              ExitCriticalSection, Callees, Defuse, Skip, Crash
<1>2. ASSUME Derailed PROVE ~Game
  BY <1>2 DEF Game
<1>3. UNCHANGED vars \/ (Derailed /\ (Defuse \/ Skip \/ Crash))
  <2>1. Game \/ Defuse \/ Skip \/ Crash \/ UNCHANGED vars
    BY DEF Next, Idle
  <2> QED
    BY <1>1, <1>2, <2>1
<1>4. CASE UNCHANGED vars
  BY <1>4 DEF vars, Derailed, Leftovers
<1>5. CASE Derailed /\ (Defuse \/ Skip \/ Crash)
  <2>1. Len(calls) = 0
    BY <1>5 DEF Derailed
  <2>2. ~FromApFailed
    BY <2>1 DEF FromApFailed
  <2>3. calls' = <<>> /\ UNCHANGED <<habit, failed>>
    BY <1>5, <2>2 DEF Derailed, Defuse, Skip, Crash, Unwound
  <2> QED
    BY <1>5, <2>3 DEF Derailed, Leftovers
<1> QED
  BY <1>3, <1>4, <1>5
-----------------------------------------------------------------------------
(* The theorems: any game, whatever it leaves on the stack.                *)

THEOREM Invariant == Spec => []IInv
<1>1. Init => IInv
  BY Start, OnTrackIsNotDerailed DEF IInv
<1>2. IInv /\ [Next]_vars => IInv'
  <2> SUFFICES ASSUME IInv, [Next]_vars PROVE IInv'
    OBVIOUS
  <2>1. CASE Derailed \/ at = "crashed"
    BY <2>1, NothingAfter DEF IInv
  <2>2. CASE ~Derailed /\ at # "crashed"
    <3>1. OnTrack
      BY <2>2 DEF IInv
    <3>2. OnTrack' => IInv'
      <4>1. OnTrack' => ~Derailed'
        BY OnTrackIsNotDerailed, PTL
      <4> QED
        BY <4>1 DEF IInv
    <3>3. CASE Game
      BY <3>1, <3>2, <3>3, GameKeeps
    <3>4. CASE Defuse
      <4>1. CASE FromApFailed
        BY <3>1, <3>2, <3>4, <4>1, DefuseKeeps
      <4>2. CASE ~FromApFailed
        BY <3>1, <3>4, <4>2, Derail DEF IInv
      <4> QED
        BY <4>1, <4>2
    <3>5. CASE Skip
      BY <3>1, <3>2, <3>5, SkipKeeps
    <3>6. CASE Crash
      BY <2>2, <3>6 DEF Crash, IInv, Derailed
    <3>7. CASE UNCHANGED vars
      <4>1. ControlPart' /\ again' \in BOOLEAN /\ irq' \in BOOLEAN
        BY <3>1, <3>7 DEF vars, OnTrack, ControlPart, TypePart
      <4> QED
        BY <3>1, <3>2, <3>7, <4>1, StayKeeps DEF vars
    <3> QED
      BY <2>2, <3>3, <3>4, <3>5, <3>6, <3>7 DEF Next, Idle
  <2> QED
    BY <2>1, <2>2
<1> QED
  BY <1>1, <1>2, PTL DEF Spec

(* Whatever the hook has done, the game goes on in the function that was   *)
(* called last and has not returned, with that function's stack pointer,   *)
(* for every size of RAM and every nesting of calls, as long as the stack  *)
(* cannot have leftovers of a failed check (patch-ap.S:43-185).            *)
THEOREM GameGoesOn == Spec => []ControlIntact
<1>1. IInv => ControlIntact
  BY DEF IInv, OnTrack, ControlPart, ControlIntact, Last
<1> QED
  BY <1>1, Invariant, PTL

(* The stop screen never comes, whichever module the game has.             *)
THEOREM NoStopScreen == Spec => []StopScreenNever
<1>1. IInv => StopScreenNever
  BY DEF IInv, OnTrack, ControlPart, StopScreenNever, Functions
<1> QED
  BY <1>1, Invariant, PTL

(* Every other EnterCriticalSection does what it does without the patch,   *)
(* whatever words are on the stack, until a check fails and, if the game   *)
(* writes its locals, afterwards; only the pointer to the last bytes of    *)
(* the RAM is excluded (patch-ap.S:27-104, patcher.c:59-61).               *)
THEOREM OthersEnter == Spec => OrdinaryCallsEnter
<1>1. IInv /\ [Next]_vars =>
         [at = "trap" /\ ~FromApFailed /\ ~Leftovers /\ ~OutOfRam => Enters]_vars
  <2> SUFFICES ASSUME IInv, Next, at = "trap", ~FromApFailed, ~Leftovers, ~OutOfRam
               PROVE  Enters
    OBVIOUS
  <2>1. OnTrack /\ ~Derailed
    BY DEF IInv
  <2>2. ~Defuse /\ ~Crash
    BY <2>1, SignatureSeen DEF Defuse, Crash
  <2>3. ~Game /\ ~Idle
    BY <2>1 DEF Game, Call, CheckDisc, CheckPasses, CheckFails, Return, EnterCriticalSection,
                ExitCriticalSection, Callees, Idle
  <2>4. Skip
    BY <2>2, <2>3 DEF Next
  <2> QED
    BY <2>4 DEF Skip, Enters
<1> QED
  BY <1>1, Invariant, PTL DEF Spec, OrdinaryCallsEnter
=============================================================================
