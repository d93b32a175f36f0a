--------------------------- MODULE CdDriveProofs ---------------------------
(***************************************************************************)
(* Proofs about the CD driver: IInv is inductive, for any regions, any two *)
(* or fewer leftover replies and any number of openings of the lid.        *)
(*                                                                         *)
(* Each step is first described by what it does to the fields (Prepares to *)
(* Steals, lemma Effects); the part of the invariant for each job is then  *)
(* preserved by one lemma per kind of step, with the job as a parameter.   *)
(***************************************************************************)
EXTENDS CdDriveInvariant, SequenceTheorems, TLAPS

USE DEF InitJob, RegionJob, FirstSecret, LastSecret, OpenJob, ShutJob, Swapped,
        CmdGetstat, CmdInit, CmdTest, CmdSecret, InvalidCommand, WrongParams,
        NotReady, LidOpened

Bytes == Seq(0 .. 255)

(* A reply is an interrupt and some bytes.                                 *)
LEMMA ReplyType ==
    ASSUME NEW int \in 1 .. 5, NEW bytes \in Bytes, bytes # <<>>
    PROVE  /\ Reply(int, bytes) \in Replies
           /\ Reply(int, bytes).bytes = bytes /\ Reply(int, bytes).int = int
BY DEF Reply, Replies, Bytes

LEMMA ReplyOfOne ==
    ASSUME NEW int \in 1 .. 5, NEW a \in 0 .. 255
    PROVE  Reply(int, <<a>>) \in Replies /\ Reply(int, <<a>>).bytes = <<a>>
<1>1. <<a>> \in Bytes /\ <<a>> # <<>>
  BY DEF Bytes
<1> QED
  BY <1>1, ReplyType

LEMMA ReplyOfTwo ==
    ASSUME NEW int \in 1 .. 5, NEW a \in 0 .. 255, NEW b \in 0 .. 255
    PROVE  Reply(int, <<a, b>>) \in Replies /\ Reply(int, <<a, b>>).bytes = <<a, b>>
<1>1. <<a, b>> \in Bytes /\ <<a, b>> # <<>>
  BY DEF Bytes
<1> QED
  BY <1>1, ReplyType

LEMMA StatBytes ==
    ASSUME NEW error \in BOOLEAN, NEW open \in BOOLEAN
    PROVE  Stat(error, open) =
              IF error THEN (IF open THEN 17 ELSE 1) ELSE (IF open THEN 16 ELSE 0)
BY DEF Stat

LEMMA TextFacts ==
    ASSUME NEW region \in Regions
    PROVE  LET text == RegionText(region)
           IN  /\ text \in Bytes /\ Len(text) \in 7 .. 10 /\ text[1] = 102
               /\ \A i \in 1 .. Len(text) : text[i] # 8
<1> DEFINE text == RegionText(region)
<1>1. CASE region = "Europe"
  <2>1. text = <<102, 111, 114, 32, 69, 117, 114, 111, 112, 101>>
    BY <1>1 DEF RegionText
  <2> QED
    BY <2>1 DEF Bytes
<1>2. CASE region = "U/C"
  <2>1. text = <<102, 111, 114, 32, 85, 47, 67>>
    BY <1>2 DEF RegionText
  <2> QED
    BY <2>1 DEF Bytes
<1>3. CASE region = "NETEU"
  <2>1. text = <<102, 111, 114, 32, 78, 69, 84, 69, 85>>
    BY <1>3 DEF RegionText
  <2> QED
    BY <2>1 DEF Bytes
<1>4. CASE region = "NETNA"
  <2>1. text = <<102, 111, 114, 32, 78, 69, 84, 78, 65>>
    BY <1>4 DEF RegionText
  <2> QED
    BY <2>1 DEF Bytes
<1>5. CASE region = "Japan"
  <2>1. text = <<102, 111, 114, 32, 74, 97, 112, 97, 110>>
    BY <1>5 DEF RegionText
  <2> QED
    BY <2>1 DEF Bytes
<1> QED
  BY <1>1, <1>2, <1>3, <1>4, <1>5 DEF Regions

LEMMA P5Type ==
    ASSUME NEW text
    PROVE  /\ P5Localized(text) \in {"(Europe)", "of America", "World wide", "unsupported"}
           /\ P5Localized(text) # "unsupported" => text \in KnownTexts
BY DEF P5Localized, KnownTexts

LEMMA Singleton == ASSUME NEW S, NEW x \in S PROVE <<x>> \in Seq(S)
OBVIOUS

LEMMA ParamsType ==
    ASSUME NEW job \in Jobs, NEW p5 \in P5s
    PROVE  Params(job, p5) \in Seq(Strings)
<1>1. CASE job \in {1, 3, 4, 5, 6, 7}
  <2>1. ParamOf(job, p5) \in Strings
    <3>1. CASE job = 1
      BY <3>1 DEF ParamOf, Strings
    <3>2. CASE job = 3
      BY <3>2 DEF ParamOf, Strings
    <3>3. CASE job = 4
      BY <3>3 DEF ParamOf, Strings
    <3>4. CASE job = 5
      BY <3>4 DEF ParamOf, Strings
    <3>5. CASE job = 6
      BY <3>5 DEF ParamOf, Strings
    <3>6. CASE job = 7
      <4>1. ParamOf(job, p5) = p5
        BY <3>6 DEF ParamOf
      <4> QED
        BY <4>1, Zenon DEF Strings
    <3> QED
      BY <1>1, <3>1, <3>2, <3>3, <3>4, <3>5, <3>6
  <2>2. Params(job, p5) = <<ParamOf(job, p5)>>
    BY <1>1 DEF Params
  <2>3. <<ParamOf(job, p5)>> \in Seq(Strings)
    BY <2>1, Singleton
  <2> QED
    BY <2>2, <2>3
<1>2. CASE job \notin {1, 3, 4, 5, 6, 7}
  BY <1>2 DEF Params, Jobs
<1> QED
  BY <1>1, <1>2

LEMMA OpType ==
    ASSUME NEW job \in Jobs, job # Swapped
    PROVE  Op(job) \in Ops /\ Op(job) # 0
BY DEF Op, Jobs, SecretJobs, LidJobs, Ops, SecretOps

(* What is put behind a queue of replies.                                  *)
LEMMA AppendedReplies ==
    ASSUME NEW queue \in Seq(Replies), NEW more \in Seq(Replies)
    PROVE  /\ queue \o more \in Seq(Replies)
           /\ Len(queue \o more) = Len(queue) + Len(more)
           /\ \A i \in 1 .. Len(queue) : (queue \o more)[i] = queue[i]
           /\ \A i \in 1 .. Len(more) : (queue \o more)[Len(queue) + i] = more[i]
OBVIOUS

(* A byte goes from the FIFO to the buffer.                                *)
LEMMA ReadOne ==
    ASSUME NEW S, NEW reply \in Seq(S), NEW fifo \in Seq(S), fifo # <<>>
    PROVE  LET longer == Append(reply, Head(fifo))
           IN  /\ longer \in Seq(S) /\ Tail(fifo) \in Seq(S)
               /\ Len(longer) = Len(reply) + 1 /\ Len(Tail(fifo)) = Len(fifo) - 1
               /\ longer # <<>>
               /\ longer[1] = IF reply = <<>> THEN fifo[1] ELSE reply[1]
               /\ longer \o Tail(fifo) = reply \o fifo
               /\ \A b : Contains(longer, b) <=> Contains(reply, b) \/ b = fifo[1]
<1> DEFINE longer == Append(reply, Head(fifo))
<1>1. /\ Head(fifo) = fifo[1] /\ Head(fifo) \in S
      /\ Tail(fifo) \in Seq(S) /\ Len(Tail(fifo)) = Len(fifo) - 1
      /\ \A i \in 1 .. Len(Tail(fifo)) : Tail(fifo)[i] = fifo[i + 1]
  OBVIOUS
<1>2. /\ longer \in Seq(S) /\ longer # <<>> /\ Len(longer) = Len(reply) + 1
      /\ \A i \in 1 .. Len(reply) : longer[i] = reply[i]
      /\ longer[Len(reply) + 1] = fifo[1]
  BY <1>1, AppendProperties
<1> HIDE DEF longer
<1>3. longer[1] = IF reply = <<>> THEN fifo[1] ELSE reply[1]
  BY <1>2
<1>4. longer \o Tail(fifo) = reply \o fifo
  <2>1. longer \o Tail(fifo) \in Seq(S) /\ reply \o fifo \in Seq(S)
    BY <1>1, <1>2
  <2>2. Len(longer \o Tail(fifo)) = Len(reply \o fifo)
    BY <1>1, <1>2
  <2>3. ASSUME NEW i \in 1 .. Len(reply \o fifo)
        PROVE  (longer \o Tail(fifo))[i] = (reply \o fifo)[i]
    <3>0. i \in Int /\ Len(reply) \in Nat
      BY <2>1
    <3>1. CASE i <= Len(reply)
      BY <1>1, <1>2, <3>1
    <3>2. CASE i = Len(reply) + 1
      BY <1>1, <1>2, <3>2
    <3>3. CASE i > Len(reply) + 1
      <4>1. (longer \o Tail(fifo))[i] = Tail(fifo)[i - Len(longer)]
        BY <1>1, <1>2, <3>3, SMTT(20)
      <4>2. i - Len(longer) \in 1 .. Len(Tail(fifo))
        BY <1>1, <1>2, <3>3
      <4>3. (reply \o fifo)[i] = fifo[i - Len(reply)]
        BY <3>3
      <4> QED
        BY <1>1, <1>2, <4>1, <4>2, <4>3
    <3>4. i <= Len(reply) \/ i = Len(reply) + 1 \/ i > Len(reply) + 1
      BY <3>0
    <3> QED
      BY <3>1, <3>2, <3>3, <3>4, Zenon
  <2> QED
    BY <2>1, <2>2, <2>3, SeqEqual
<1>5. \A b : Contains(longer, b) <=> Contains(reply, b) \/ b = fifo[1]
  BY <1>2 DEF Contains
<1> QED
  BY <1>1, <1>2, <1>3, <1>4, <1>5 DEF longer

LEMMA ReadKeeps ==
    ASSUME NEW S, NEW reply \in Seq(S), NEW fifo \in Seq(S), fifo # <<>>
    PROVE  Append(reply, Head(fifo)) \o Tail(fifo) = reply \o fifo
<1> DEFINE longer == Append(reply, Head(fifo))
<1>1. longer \o Tail(fifo) = reply \o fifo
  BY ReadOne
<1> QED
  BY <1>1
-----------------------------------------------------------------------------
(* What each step does, field by field.                                    *)

Staying == cpu'.job = cpu.job /\ cpu'.second = cpu.second /\ cpu'.p5 = cpu.p5
SamePipe == ctl'.busy = ctl.busy /\ ctl'.sent = ctl.sent /\ ctl'.exec = ctl.exec
SameMask == ctl'.enabled = ctl.enabled
SameParams == ctl'.params = ctl.params
SameReplies == ctl'.fifo = ctl.fifo /\ ctl'.queue = ctl.queue

Prepares ==
    /\ cpu.pc \in Writing \ {"command"} /\ cpu'.pc \in Writing \ {"waitIdle"}
    /\ Staying /\ cpu'.reply = cpu.reply
    /\ SamePipe /\ SameReplies /\ ctl'.flag \in {ctl.flag, 0}
    /\ ctl'.enabled => ctl.enabled /\ cpu.pc # "disable"
    /\ cpu.pc = "waitIdle" => cpu'.pc = "clear" /\ ~ctl.busy
    /\ cpu.pc = "clear" => cpu'.pc = "params" /\ ctl'.params = <<>>
    /\ cpu.pc = "params" =>
          cpu'.pc = "disable" /\ ctl'.params = ctl.params \o Params(cpu.job, cpu.p5)
    /\ cpu.pc = "disable" => cpu'.pc = "ack" /\ SameParams
    /\ cpu.pc = "ack" => cpu'.pc = "command" /\ SameParams /\ ctl'.flag = 0
    /\ drive' = drive

Commands ==
    /\ cpu.pc = "command" /\ cpu'.pc = "waitTaken"
    /\ Staying /\ cpu'.reply = cpu.reply
    /\ ctl'.busy = TRUE /\ ctl'.exec = ctl.exec
    /\ ctl'.sent = [op |-> Op(cpu.job), params |-> ctl.params]
    /\ SameReplies /\ SameMask /\ ctl'.flag = ctl.flag
    /\ drive' = drive

Awaits ==
    /\ cpu.pc \in {"waitTaken", "poll"} /\ cpu'.pc \in {"poll", "ackInt"}
    /\ cpu'.pc = "ackInt" => ctl.flag # 0
    /\ Staying /\ cpu'.reply = cpu.reply
    /\ SamePipe /\ SameReplies /\ SameMask /\ ctl'.flag = ctl.flag
    /\ drive' = drive

Acknowledges ==
    /\ cpu.pc = "ackInt" /\ cpu'.pc = "returned"
    /\ Staying /\ cpu'.reply = cpu.reply
    /\ SamePipe /\ SameReplies /\ SameMask /\ ctl'.flag = 0
    /\ drive' = drive

Reads ==
    /\ cpu.pc = "read" /\ cpu'.pc = "read" /\ Staying
    /\ ctl.fifo # <<>>
    /\ cpu'.reply = Append(cpu.reply, Head(ctl.fifo)) /\ ctl'.fifo = Tail(ctl.fifo)
    /\ SamePipe /\ SameMask /\ ctl'.queue = ctl.queue /\ ctl'.flag = ctl.flag
    /\ drive' = drive

ReadsAll ==
    /\ cpu.pc = "read" /\ cpu'.pc = "judge" /\ Staying
    /\ ctl.fifo = <<>> /\ cpu'.reply = cpu.reply
    /\ ctl' = ctl /\ drive' = drive

Fails ==
    /\ cpu.pc \in {"returned", "judge"} /\ cpu'.pc = "failed" /\ Staying
    /\ cpu.job <= LastSecret /\ cpu'.reply = cpu.reply
    /\ ctl' = ctl /\ drive' = drive

AwaitsSecond ==
    /\ cpu.pc = "returned" /\ cpu'.pc = "waitTaken"
    /\ cpu.job = InitJob /\ cpu'.job = InitJob /\ cpu'.p5 = cpu.p5
    /\ ~cpu.second /\ cpu'.second /\ cpu'.reply = cpu.reply
    /\ ctl' = ctl /\ drive' = drive

StartsReading ==
    /\ cpu.pc = "returned" /\ cpu'.pc = "read" /\ Staying
    /\ cpu.job # InitJob /\ cpu'.reply = cpu.reply
    /\ ctl' = ctl /\ drive' = drive

Begins(job) ==
    /\ cpu'.job = job /\ ~cpu'.second /\ cpu'.reply = <<>>
    /\ cpu'.pc = IF job = Swapped THEN "done" ELSE "waitIdle"
    /\ ctl' = ctl /\ drive' = drive

InitDone ==
    /\ cpu.pc = "returned" /\ cpu.job = InitJob /\ cpu.second
    /\ Begins(RegionJob) /\ cpu'.p5 = cpu.p5

RegionDone ==
    /\ cpu.pc = "judge" /\ cpu.job = RegionJob
    /\ cpu.reply \in KnownTexts
    /\ Begins(FirstSecret) /\ cpu'.p5 = P5Localized(cpu.reply)

SecretDone ==
    /\ cpu.pc = "judge" /\ cpu.job \in SecretJobs
    /\ SecretAccepted(cpu.reply)
    /\ Begins(cpu.job + 1) /\ cpu'.p5 = cpu.p5

LidDone ==
    /\ cpu.pc = "judge" /\ cpu.job \in LidJobs
    /\ \E open \in BOOLEAN :
          /\ cpu.reply # <<>> => open = LidBit(cpu.reply[1])
          /\ Begins(IF open = LidAwaited(cpu.job) THEN cpu.job + 1 ELSE cpu.job)
    /\ cpu'.p5 = cpu.p5

Takes ==
    /\ cpu' = cpu /\ drive' = drive
    /\ ctl.busy /\ ctl.exec = NoRequest
    /\ ctl'.busy = FALSE /\ ctl'.exec = ctl.sent
    /\ SameReplies /\ SameMask /\ ctl'.flag = ctl.flag

(* An answer: n replies with bytes from a set.                             *)
Answers(from, n) ==
    /\ cpu' = cpu /\ ctl'.busy = ctl.busy /\ ctl'.sent = ctl.sent
    /\ ctl.exec # NoRequest /\ ctl'.exec = NoRequest
    /\ ctl'.flag = ctl.flag /\ ctl'.fifo = ctl.fifo /\ SameMask /\ SameParams
    /\ Len(ctl'.queue) = Len(ctl.queue) + n
    /\ \A i \in 1 .. Len(ctl.queue) : ctl'.queue[i] = ctl.queue[i]
    /\ \A i \in Len(ctl.queue) + 1 .. Len(ctl'.queue) : ctl'.queue[i].bytes \in from

Presents ==
    /\ cpu' = cpu /\ drive' = drive /\ SamePipe /\ SameMask /\ SameParams
    /\ ctl.flag = 0 /\ ctl.queue # <<>>
    /\ ctl'.flag # 0 /\ ctl'.fifo = Pending(1) /\ Pending(1) # <<>>
    /\ Len(ctl'.queue) = Len(ctl.queue) - 1
    /\ \A i \in 1 .. Len(ctl'.queue) : ctl'.queue[i] = ctl.queue[i + 1]

(* The lid's own reply, if there is one.                                   *)
Opens ==
    /\ cpu' = cpu /\ SamePipe /\ SameMask /\ SameParams
    /\ ctl'.flag = ctl.flag /\ ctl'.fifo = ctl.fifo
    /\ Len(ctl'.queue) \in {Len(ctl.queue), Len(ctl.queue) + 1}
    /\ \A i \in 1 .. Len(ctl.queue) : ctl'.queue[i] = ctl.queue[i]
    /\ Len(ctl'.queue) = Len(ctl.queue) + 1
          => ctl'.queue[Len(ctl.queue) + 1].bytes = LidBytes
    /\ drive'.lid = "open" /\ drive'.latch = TRUE
    /\ drive'.cycle = IF drive.cycle = "none" THEN "opened" ELSE drive.cycle
    /\ drive'.region = drive.region /\ drive'.stage = drive.stage

Closes ==
    /\ cpu' = cpu /\ ctl' = ctl
    /\ drive.lid = "open"
    /\ drive'.lid = "closed" /\ drive'.latch = drive.latch /\ drive'.cycle = "shut"
    /\ drive'.region = drive.region /\ drive'.stage = drive.stage

Steals ==
    /\ cpu' = cpu /\ drive' = drive /\ SamePipe /\ SameParams /\ SameMask
    /\ ctl.enabled /\ ctl.flag # 0
    /\ ctl'.flag = 0 /\ ctl'.fifo = <<>> /\ ctl'.queue = ctl.queue

LEMMA StepEffect ==
    ASSUME TypePart, FreshPart, NEW from, NEW to, NEW c, Step(from, to, c)
    PROVE  /\ cpu.pc = from /\ cpu.job # Swapped /\ ctl' = c /\ drive' = drive
           /\ cpu'.pc = to /\ Staying /\ cpu'.reply = cpu.reply /\ cpu'.int = cpu.int
BY DEF TypePart, Cpus, Step, Staying

LEMMA DriverEffect ==
    ASSUME TypePart, FreshPart, Driver
    PROVE  Prepares \/ Commands \/ Awaits \/ Acknowledges \/ Reads \/ ReadsAll
<1>1. CASE WaitIdle
  <2>1. cpu.pc = "waitIdle" /\ cpu'.pc = "clear" /\ ctl' = ctl /\ ~ctl.busy
        /\ Staying /\ cpu'.reply = cpu.reply /\ drive' = drive
    BY <1>1, StepEffect DEF WaitIdle
  <2> QED
    BY <2>1 DEF Prepares, Writing, SamePipe, SameMask, SameReplies, SameParams
<1>2. CASE ClearFifos
  <2>1. cpu.pc = "clear" /\ cpu'.pc = "params" /\ ctl' = [ctl EXCEPT !.params = <<>>]
        /\ Staying /\ cpu'.reply = cpu.reply /\ drive' = drive
    BY <1>2, StepEffect DEF ClearFifos
  <2> QED
    BY <2>1 DEF Prepares, Writing, SamePipe, SameMask, SameReplies, SameParams, TypePart, Ctls
<1>3. CASE WriteParams
  <2>1. /\ cpu.pc = "params" /\ cpu'.pc = "disable"
        /\ ctl' = [ctl EXCEPT !.params = @ \o Params(cpu.job, cpu.p5)]
        /\ Staying /\ cpu'.reply = cpu.reply /\ drive' = drive
    BY <1>3, StepEffect DEF WriteParams
  <2> QED
    BY <2>1 DEF Prepares, Writing, SamePipe, SameMask, SameReplies, SameParams, TypePart, Ctls
<1>4. CASE DisableInterrupts
  <2>1. cpu.pc = "disable" /\ cpu'.pc = "ack" /\ ctl' = [ctl EXCEPT !.enabled = FALSE]
        /\ Staying /\ cpu'.reply = cpu.reply /\ drive' = drive
    BY <1>4, StepEffect DEF DisableInterrupts
  <2> QED
    BY <2>1 DEF Prepares, Writing, SamePipe, SameMask, SameReplies, SameParams, TypePart, Ctls
<1>5. CASE AckOld
  <2>1. cpu.pc = "ack" /\ cpu'.pc = "command" /\ ctl' = [ctl EXCEPT !.flag = 0]
        /\ Staying /\ cpu'.reply = cpu.reply /\ drive' = drive
    BY <1>5, StepEffect DEF AckOld
  <2> QED
    BY <2>1 DEF Prepares, Writing, SamePipe, SameMask, SameReplies, SameParams, TypePart, Ctls
<1>6. CASE WriteCommand
  <2>1. /\ cpu.pc = "command" /\ cpu'.pc = "waitTaken"
        /\ ctl' = [ctl EXCEPT !.busy = TRUE,
                     !.sent = [op |-> Op(cpu.job), params |-> ctl.params]]
        /\ Staying /\ cpu'.reply = cpu.reply /\ drive' = drive
    BY <1>6, StepEffect DEF WriteCommand
  <2> QED
    BY <2>1 DEF Commands, SameReplies, SameMask, TypePart, Ctls
<1>7. CASE WaitTaken
  BY <1>7, StepEffect DEF WaitTaken, Awaits, SamePipe, SameMask, SameReplies
<1>8. CASE Poll
  BY <1>8 DEF Poll, Awaits, Staying, SamePipe, SameMask, SameReplies, TypePart, Cpus
<1>9. CASE AckInt
  <2>1. cpu.pc = "ackInt" /\ cpu'.pc = "returned" /\ ctl' = [ctl EXCEPT !.flag = 0]
        /\ Staying /\ cpu'.reply = cpu.reply /\ drive' = drive
    BY <1>9, StepEffect DEF AckInt
  <2> QED
    BY <2>1 DEF Acknowledges, SamePipe, SameMask, SameReplies, TypePart, Ctls
<1>10. CASE ReadByte
  BY <1>10 DEF ReadByte, Reads, Staying, SamePipe, SameMask, TypePart, Cpus, Ctls
<1>11. CASE ReadDone
  BY <1>11, StepEffect DEF ReadDone, ReadsAll
<1> QED
  BY <1>1, <1>2, <1>3, <1>4, <1>5, <1>6, <1>7, <1>8, <1>9, <1>10, <1>11 DEF Driver

Judges == InitDone \/ RegionDone \/ SecretDone \/ LidDone

LEMMA CallerEffect ==
    ASSUME TypePart, FreshPart, Callers
    PROVE  Fails \/ AwaitsSecond \/ StartsReading \/ Judges
<1>1. CASE InitReturned
  <2>1. /\ cpu.pc = "returned" /\ cpu.job = InitJob /\ ctl' = ctl /\ drive' = drive
    BY <1>1 DEF InitReturned
  <2>2. CASE Fail
    BY <2>1, <2>2 DEF Fail, TypePart, Cpus, Fails, Staying
  <2>3. CASE ~cpu.second /\ cpu' = [cpu EXCEPT !.pc = "waitTaken", !.second = TRUE]
    BY <2>1, <2>3 DEF TypePart, Cpus, AwaitsSecond
  <2>4. CASE cpu.second /\ NextJob(RegionJob, cpu.p5)
    <3>1. Begins(RegionJob) /\ cpu'.p5 = cpu.p5
      BY <2>1, <2>4 DEF NextJob, Begins
    <3> QED
      BY <2>1, <2>4, <3>1 DEF Judges, InitDone
  <2> QED
    BY <1>1, <2>2, <2>3, <2>4 DEF InitReturned
<1>2. CASE IntReturned
  <2>1. /\ cpu.pc = "returned" /\ cpu.job # InitJob /\ ctl' = ctl /\ drive' = drive
        /\ \/ cpu' = [cpu EXCEPT !.pc = "read"]
           \/ cpu.job \notin LidJobs /\ Fail
    BY <1>2 DEF IntReturned
  <2>2. CASE cpu' = [cpu EXCEPT !.pc = "read"]
    BY <2>1, <2>2 DEF TypePart, Cpus, StartsReading, Staying
  <2>3. CASE cpu.job \notin LidJobs /\ Fail
    BY <2>1, <2>3 DEF Fail, FreshPart, TypePart, Cpus, Fails, Staying, LidJobs, Jobs
  <2> QED
    BY <2>1, <2>2, <2>3
<1>3. CASE JudgeRegion
  <2>1. /\ cpu.pc = "judge" /\ cpu.job = RegionJob /\ ctl' = ctl /\ drive' = drive
        /\ \/ P5Localized(cpu.reply) = "unsupported" /\ Fail
           \/ /\ P5Localized(cpu.reply) # "unsupported"
              /\ NextJob(FirstSecret, P5Localized(cpu.reply))
    BY <1>3 DEF JudgeRegion
  <2>2. CASE Fail
    BY <2>1, <2>2 DEF Fail, TypePart, Cpus, Fails, Staying
  <2>3. CASE P5Localized(cpu.reply) # "unsupported" /\ NextJob(FirstSecret, P5Localized(cpu.reply))
    <3>1. cpu.reply \in KnownTexts
      BY <2>3, P5Type
    <3>2. Begins(FirstSecret) /\ cpu'.p5 = P5Localized(cpu.reply)
      BY <2>1, <2>3 DEF NextJob, Begins
    <3> QED
      BY <2>1, <3>1, <3>2 DEF Judges, RegionDone
  <2> QED
    BY <2>1, <2>2, <2>3
<1>4. CASE JudgeSecret
  <2>1. /\ cpu.pc = "judge" /\ cpu.job \in SecretJobs /\ ctl' = ctl /\ drive' = drive
        /\ \/ SecretAccepted(cpu.reply) /\ NextJob(cpu.job + 1, cpu.p5)
           \/ Fail
    BY <1>4 DEF JudgeSecret
  <2>2. CASE Fail
    BY <2>1, <2>2 DEF Fail, TypePart, Cpus, Fails, Staying, SecretJobs
  <2>3. CASE SecretAccepted(cpu.reply) /\ NextJob(cpu.job + 1, cpu.p5)
    <3>1. Begins(cpu.job + 1) /\ cpu'.p5 = cpu.p5
      BY <2>1, <2>3 DEF NextJob, Begins
    <3> QED
      BY <2>1, <2>3, <3>1 DEF Judges, SecretDone
  <2> QED
    BY <2>1, <2>2, <2>3
<1>5. CASE JudgeLid
  <2>1. PICK open \in BOOLEAN :
          /\ cpu.reply # <<>> => open = LidBit(cpu.reply[1])
          /\ NextJob(IF open = LidAwaited(cpu.job) THEN cpu.job + 1 ELSE cpu.job,
                     cpu.p5)
    BY <1>5 DEF JudgeLid
  <2>2. /\ cpu.pc = "judge" /\ cpu.job \in LidJobs /\ ctl' = ctl /\ drive' = drive
    BY <1>5 DEF JudgeLid
  <2>3. /\ Begins(IF open = LidAwaited(cpu.job) THEN cpu.job + 1 ELSE cpu.job)
        /\ cpu'.p5 = cpu.p5
    BY <2>1, <2>2 DEF NextJob, Begins
  <2> QED
    BY <2>1, <2>2, <2>3 DEF Judges, LidDone
<1> QED
  BY <1>1, <1>2, <1>3, <1>4, <1>5 DEF Callers

(* The answers, with what they do to the drive.                            *)
AnswersStatus == Answers(Stats, 2) /\ ctl.exec.op = CmdInit /\ drive' = drive

AnswersText ==
    Answers({Text}, 1) /\ ctl.exec.op = CmdTest /\ drive' = drive

AnswersSecret ==
    /\ ctl.exec.op \in SecretOps
    /\ \/ /\ Answers({<<1, 64>>, <<17, 64>>}, 1)
          /\ ctl.exec.op = CmdSecret + drive.stage
          /\ drive' = [drive EXCEPT !.stage = @ + 1]
       \/ /\ Answers({<<1, 32>>, <<17, 32>>}, 1)
          /\ \/ ctl.exec.op # CmdSecret + drive.stage
             \/ ctl.exec.params # SecretOf(drive.region, drive.stage)
          /\ drive' = [drive EXCEPT !.stage = 0]

AnswersGetstat ==
    /\ Answers(IF drive.latch THEN {<<16>>} ELSE {<<0>>}, 1)
    /\ ctl.exec.op = CmdGetstat
    /\ drive' = [drive EXCEPT !.latch = IsOpen]

Refuses ==
    /\ Answers(Refusals, 1)
    /\ ctl.exec.op \notin {0, CmdGetstat}
    /\ drive' = drive

LEMMA AnsweredEffect ==
    ASSUME TypePart, NEW more \in Seq(Replies), Answered(more), cpu' = cpu,
           ctl.exec # NoRequest,
           NEW from, \A i \in 1 .. Len(more) : more[i].bytes \in from
    PROVE  Answers(from, Len(more)) /\ ctl' \in Ctls
<1>1. ctl' = [ctl EXCEPT !.exec = NoRequest, !.queue = ctl.queue \o more]
  BY DEF Answered
<1>2. ctl.queue \in Seq(Replies) /\ ctl \in Ctls
  BY DEF TypePart, Ctls
<1>3. NoRequest \in Requests
  BY DEF NoRequest, Requests, Ops
<1>4. ctl'.queue = ctl.queue \o more
  BY <1>1, <1>2 DEF Ctls
<1>5. /\ ctl'.busy = ctl.busy /\ ctl'.sent = ctl.sent /\ ctl'.exec = NoRequest
      /\ ctl'.flag = ctl.flag /\ ctl'.fifo = ctl.fifo /\ SameMask /\ SameParams
  BY <1>1, <1>2 DEF Ctls, SameMask, SameParams
<1>6. ctl'.queue \in Seq(Replies) /\ Len(ctl'.queue) = Len(ctl.queue) + Len(more)
  BY <1>2, <1>4, AppendedReplies
<1>7. ctl' \in Ctls
  BY <1>1, <1>2, <1>3, <1>4, <1>6 DEF Ctls
<1>8. \A i \in 1 .. Len(ctl.queue) : ctl'.queue[i] = ctl.queue[i]
  BY <1>2, <1>4, AppendedReplies
<1>9. \A i \in Len(ctl.queue) + 1 .. Len(ctl'.queue) : ctl'.queue[i].bytes \in from
  <2>1. SUFFICES ASSUME NEW i \in Len(ctl.queue) + 1 .. Len(ctl'.queue)
                 PROVE  ctl'.queue[i].bytes \in from
    OBVIOUS
  <2>2. i - Len(ctl.queue) \in 1 .. Len(more)
        /\ i = Len(ctl.queue) + (i - Len(ctl.queue))
    BY <1>2, <1>6, <2>1
  <2>3. ctl'.queue[i] = more[i - Len(ctl.queue)]
    BY <1>2, <1>4, <2>2, AppendedReplies
  <2> QED
    BY <2>2, <2>3
<1> QED
  BY <1>5, <1>6, <1>7, <1>8, <1>9 DEF Answers

LEMMA AnswerEffect ==
    ASSUME TypePart, Answer
    PROVE  /\ AnswersStatus \/ AnswersText \/ AnswersSecret \/ AnswersGetstat \/ Refuses
           /\ ctl' \in Ctls
<1> DEFINE good == Stat(FALSE, drive.latch)
           bad  == Stat(TRUE, drive.latch)
<1>1. /\ cpu' = cpu /\ drive.latch \in BOOLEAN /\ drive.region \in Regions
  BY DriveRegionsAssumption DEF Answer, TypePart, Drives
<1>2. ctl.exec.op # 0 => ctl.exec # NoRequest
  BY DEF NoRequest
<1>3. /\ good = (IF drive.latch THEN 16 ELSE 0)
      /\ bad = (IF drive.latch THEN 17 ELSE 1)
  BY <1>1, StatBytes
<1>4. ASSUME NEW r \in Replies, Answered(<<r>>), NEW from, r.bytes \in from,
             ctl.exec # NoRequest
      PROVE  Answers(from, 1) /\ ctl' \in Ctls
  <2>1. <<r>> \in Seq(Replies)
    BY <1>4
  <2>2. Len(<<r>>) = 1 /\ \A i \in 1 .. Len(<<r>>) : <<r>>[i].bytes \in from
    BY <1>4
  <2>3. Answers(from, Len(<<r>>)) /\ ctl' \in Ctls
    BY <1>1, <1>4, <2>1, <2>2, AnsweredEffect
  <2> QED
    BY <2>2, <2>3
<1> HIDE DEF good, bad
<1>0. 2 \in 1 .. 5 /\ 3 \in 1 .. 5 /\ 5 \in 1 .. 5
  OBVIOUS
<1>5. CASE AnswerInit
  <2>1. good \in 0 .. 255 /\ <<good>> \in Stats
    BY <1>1, <1>3 DEF Stats
  <2>2. PICK r3 \in Replies, r2 \in Replies :
           /\ r3 = Reply(3, <<good>>) /\ r3.bytes \in Stats
           /\ r2 = Reply(2, <<good>>) /\ r2.bytes \in Stats
    <3>1. Reply(3, <<good>>) \in Replies /\ Reply(3, <<good>>).bytes = <<good>>
      BY <1>0, <2>1, ReplyOfOne
    <3>2. Reply(2, <<good>>) \in Replies /\ Reply(2, <<good>>).bytes = <<good>>
      BY <1>0, <2>1, ReplyOfOne
    <3> QED
      BY <2>1, <3>1, <3>2
  <2>3. Answered(<<r3, r2>>) /\ ctl.exec.op = CmdInit /\ drive' = drive
    BY <1>5, <2>2 DEF AnswerInit, good
  <2>4. <<r3, r2>> \in Seq(Replies)
    OBVIOUS
  <2>5. Len(<<r3, r2>>) = 2
        /\ \A i \in 1 .. Len(<<r3, r2>>) : <<r3, r2>>[i].bytes \in Stats
    BY <2>2
  <2>6. Answers(Stats, Len(<<r3, r2>>)) /\ ctl' \in Ctls
    <3>1. ctl.exec # NoRequest
      BY <1>2, <2>3
    <3> QED
      BY <1>1, <2>3, <2>4, <2>5, <3>1, AnsweredEffect
  <2> QED
    BY <2>3, <2>5, <2>6 DEF AnswersStatus
<1>6. CASE AnswerTest
  <2>1. Text \in Bytes /\ Text # <<>>
    BY <1>1, TextFacts DEF Text
  <2>2. PICK r \in Replies : r = Reply(3, Text) /\ r.bytes \in {Text}
    BY <2>1, ReplyType
  <2>3. Answered(<<r>>) /\ ctl.exec.op = CmdTest /\ drive' = drive
    BY <1>6, <2>2 DEF AnswerTest, Text
  <2> QED
    BY <1>2, <1>4, <2>2, <2>3 DEF AnswersText
<1>7. CASE AnswerSecret
  <2> DEFINE right == /\ ctl.exec.op = CmdSecret + drive.stage
                      /\ ctl.exec.params = SecretOf(drive.region, drive.stage)
             verdict == IF right THEN InvalidCommand ELSE WrongParams
             from == IF right THEN {<<1, 64>>, <<17, 64>>} ELSE {<<1, 32>>, <<17, 32>>}
  <2>0. ctl.exec.op \in SecretOps
        /\ drive' = [drive EXCEPT !.stage = IF right THEN @ + 1 ELSE 0]
        /\ Answered(<<Reply(5, <<bad, verdict>>)>>)
    BY <1>7 DEF AnswerSecret, bad
  <2>1. bad \in 0 .. 255 /\ verdict \in 0 .. 255 /\ <<bad, verdict>> \in from
    <3> HIDE DEF right
    <3> QED BY <1>1, <1>3
  <2> HIDE DEF verdict
  <2>2. PICK r \in Replies : r = Reply(5, <<bad, verdict>>) /\ r.bytes \in from
    <3> HIDE DEF right, from
    <3>1. /\ Reply(5, <<bad, verdict>>) \in Replies
          /\ Reply(5, <<bad, verdict>>).bytes = <<bad, verdict>>
      BY <1>0, <2>1, ReplyOfTwo
    <3> QED
      BY <2>1, <3>1
  <2>3. Answered(<<r>>)
    BY <2>0, <2>2
  <2>4. Answers(from, 1) /\ ctl' \in Ctls
    <3> HIDE DEF from
    <3> QED BY <1>2, <1>4, <2>0, <2>2, <2>3 DEF SecretOps
  <2>5. CASE right
    BY <2>0, <2>4, <2>5 DEF AnswersSecret
  <2>6. CASE ~right
    BY <2>0, <2>4, <2>6 DEF AnswersSecret
  <2> QED
    BY <2>5, <2>6
<1>8. CASE AnswerGetstat
  <2> DEFINE from == IF drive.latch THEN {<<16>>} ELSE {<<0>>}
  <2>1. good \in 0 .. 255 /\ <<good>> \in from
    BY <1>1, <1>3
  <2> HIDE DEF from
  <2>2. PICK r \in Replies : r = Reply(3, <<good>>) /\ r.bytes \in from
    <3>1. Reply(3, <<good>>) \in Replies /\ Reply(3, <<good>>).bytes = <<good>>
      BY <1>0, <2>1, ReplyOfOne
    <3> QED
      BY <2>1, <3>1
  <2>3. Answered(<<r>>) /\ ctl.exec.op = CmdGetstat
        /\ drive' = [drive EXCEPT !.latch = IsOpen]
    BY <1>8, <2>2 DEF AnswerGetstat, good
  <2>4. Answers(from, 1) /\ ctl' \in Ctls
    BY <1>2, <1>4, <2>2, <2>3
  <2> QED
    BY <2>3, <2>4 DEF AnswersGetstat, from
<1>9. CASE Refuse
  <2> DEFINE code == NotReady
  <2>1. bad \in 0 .. 255 /\ code \in 0 .. 255 /\ <<bad, code>> \in Refusals
    BY <1>1, <1>3 DEF Refusals
  <2> HIDE DEF code
  <2>2. PICK r \in Replies : r = Reply(5, <<bad, code>>) /\ r.bytes \in Refusals
    <3>1. /\ Reply(5, <<bad, code>>) \in Replies
          /\ Reply(5, <<bad, code>>).bytes = <<bad, code>>
      BY <1>0, <2>1, ReplyOfTwo
    <3> QED
      BY <2>1, <3>1
  <2>3. Answered(<<r>>) /\ ctl.exec.op \notin {0, CmdGetstat} /\ drive' = drive
    BY <1>9, <2>2 DEF Refuse, bad, code
  <2>4. Answers(Refusals, 1) /\ ctl' \in Ctls
    BY <1>2, <1>4, <2>2, <2>3
  <2> QED
    BY <2>3, <2>4 DEF Refuses
<1> QED
  BY <1>5, <1>6, <1>7, <1>8, <1>9 DEF Answer

LEMMA OthersEffect ==
    ASSUME TypePart
    PROVE  /\ Take => Takes /\ ctl'.params = <<>> /\ ctl' \in Ctls
           /\ Present => Presents /\ ctl' \in Ctls
           /\ OpenLid => Opens /\ ctl' \in Ctls /\ drive' \in Drives
           /\ CloseLid => Closes /\ drive' \in Drives
           /\ KernelHandler => Steals /\ ctl' \in Ctls
<1>1. ctl \in Ctls /\ drive \in Drives /\ ctl.queue \in Seq(Replies)
  BY DEF TypePart, Ctls
<1>2. ASSUME Take PROVE Takes /\ ctl'.params = <<>> /\ ctl' \in Ctls
  <2>1. ctl' = [ctl EXCEPT !.busy = FALSE, !.exec = ctl.sent, !.params = <<>>]
        /\ ctl.busy /\ ctl.exec = NoRequest /\ cpu' = cpu /\ drive' = drive
    BY <1>2 DEF Take
  <2>2. Takes /\ ctl'.params = <<>>
    BY <1>1, <2>1 DEF Takes, Ctls, SameReplies, SameMask, SameParams
  <2>3. <<>> \in Seq(Strings) /\ ctl.sent \in Requests
    BY <1>1 DEF Ctls
  <2>4. ctl' \in Ctls
    BY <1>1, <2>1, <2>3 DEF Ctls
  <2> QED
    BY <2>2, <2>4
<1>3. ASSUME Present PROVE Presents /\ ctl' \in Ctls
  <2>1. ctl.flag = 0 /\ ctl.queue # <<>> /\ cpu' = cpu /\ drive' = drive
    BY <1>3 DEF Present
  <2>2. Head(ctl.queue) = ctl.queue[1] /\ ctl.queue[1] \in Replies
    BY <1>1, <2>1
  <2>3. /\ Tail(ctl.queue) \in Seq(Replies)
        /\ Len(Tail(ctl.queue)) = Len(ctl.queue) - 1
        /\ \A i \in 1 .. Len(Tail(ctl.queue)) : Tail(ctl.queue)[i] = ctl.queue[i + 1]
    BY <1>1, <2>1
  <2>4. ctl' = [ctl EXCEPT !.flag = ctl.queue[1].int, !.fifo = ctl.queue[1].bytes,
                           !.queue = Tail(ctl.queue)]
    BY <1>3, <2>2 DEF Present
  <2>5. ctl' \in Ctls
    <3>1. ctl.queue[1].int \in 0 .. 5 /\ ctl.queue[1].bytes \in Seq(0 .. 255)
      BY <2>2 DEF Replies
    <3> QED
      BY <1>1, <2>3, <2>4, <3>1 DEF Ctls
  <2>6. /\ ctl'.flag = ctl.queue[1].int /\ ctl'.fifo = ctl.queue[1].bytes
        /\ ctl'.queue = Tail(ctl.queue) /\ SamePipe /\ SameMask /\ SameParams
    BY <1>1, <2>4 DEF Ctls, SamePipe, SameMask, SameParams
  <2> QED
    BY <2>1, <2>2, <2>3, <2>5, <2>6 DEF Presents, Replies, Pending
<1>4. ASSUME OpenLid PROVE Opens /\ ctl' \in Ctls /\ drive' \in Drives
  <2>1. drive' = [drive EXCEPT !.lid = "open", !.latch = TRUE, !.openings = @ + 1,
                              !.cycle = IF @ = "none" THEN "opened" ELSE @]
        /\ drive.openings < MaxOpenings /\ cpu' = cpu
    BY <1>4 DEF OpenLid
  <2>2. /\ drive'.lid = "open" /\ drive'.latch = TRUE
        /\ drive'.cycle = IF drive.cycle = "none" THEN "opened" ELSE drive.cycle
        /\ drive'.region = drive.region /\ drive'.stage = drive.stage
    BY <1>1, <2>1 DEF Drives
  <2>3. drive' \in Drives
    <3>1. drive.openings + 1 \in 0 .. MaxOpenings
      BY <1>1, <2>1, MaxOpeningsAssumption DEF Drives
    <3>2. PICK c \in {"none", "opened", "shut"} :
             c = IF drive.cycle = "none" THEN "opened" ELSE drive.cycle
      BY <1>1 DEF Drives
    <3>3. drive' = [drive EXCEPT !.lid = "open", !.latch = TRUE,
                               !.openings = drive.openings + 1, !.cycle = c]
      BY <2>1, <3>2
    <3> QED
      BY <1>1, <3>1, <3>3 DEF Drives
  <2>4. CASE ctl' = ctl
    BY <1>1, <2>1, <2>2, <2>3, <2>4 DEF Opens, SamePipe, SameMask, SameParams, Ctls
  <2>5. CASE ctl' # ctl
    <3>2. PICK r \in Replies : r = Reply(5, <<Stat(TRUE, TRUE), LidOpened>>)
                              /\ r.bytes = LidBytes
      <4>1. Stat(TRUE, TRUE) = 17
        BY StatBytes
      <4>2. 17 \in 0 .. 255 /\ LidOpened \in 0 .. 255 /\ 5 \in 1 .. 5
        OBVIOUS
      <4> QED
        BY <4>1, <4>2, ReplyOfTwo DEF LidBytes
    <3>1. ctl' = [ctl EXCEPT !.queue = Append(ctl.queue, r)]
      BY <1>4, <2>5, <3>2 DEF OpenLid
    <3>3. /\ Append(ctl.queue, r) \in Seq(Replies)
          /\ Len(Append(ctl.queue, r)) = Len(ctl.queue) + 1
          /\ \A i \in 1 .. Len(ctl.queue) : Append(ctl.queue, r)[i] = ctl.queue[i]
          /\ Append(ctl.queue, r)[Len(ctl.queue) + 1] = r
      BY <1>1, <3>2, AppendProperties
    <3>4. /\ ctl'.queue = Append(ctl.queue, r) /\ SamePipe /\ SameMask /\ SameParams
          /\ ctl'.flag = ctl.flag /\ ctl'.fifo = ctl.fifo
      BY <1>1, <3>1 DEF Ctls, SamePipe, SameMask, SameParams
    <3>5. ctl' \in Ctls
      BY <1>1, <3>1, <3>3 DEF Ctls
    <3> QED
      BY <2>1, <2>2, <2>3, <3>2, <3>3, <3>4, <3>5 DEF Opens
  <2> QED
    BY <2>4, <2>5
<1>5. ASSUME CloseLid PROVE Closes /\ drive' \in Drives
  <2>1. drive' = [drive EXCEPT !.lid = "closed", !.cycle = "shut"]
        /\ cpu' = cpu /\ ctl' = ctl /\ drive.lid = "open"
    BY <1>5 DEF CloseLid, IsOpen
  <2>2. drive' \in Drives
    BY <1>1, <2>1 DEF Drives
  <2> QED
    BY <1>1, <2>1, <2>2 DEF Closes, Drives
<1>6. ASSUME KernelHandler PROVE Steals /\ ctl' \in Ctls
  <2>1. ctl' = [ctl EXCEPT !.flag = 0, !.fifo = <<>>] /\ cpu' = cpu /\ drive' = drive
        /\ ctl.enabled /\ ctl.flag # 0
    BY <1>6 DEF KernelHandler
  <2>2. ctl' \in Ctls
    <3>1. <<>> \in Seq(0 .. 255) /\ 0 \in 0 .. 5
      OBVIOUS
    <3> QED
      BY <1>1, <2>1, <3>1 DEF Ctls
  <2> QED
    BY <1>1, <2>1, <2>2 DEF Steals, Ctls, SamePipe, SameMask, SameParams
<1> QED
  BY <1>2, <1>3, <1>4, <1>5, <1>6

AnswersSomething ==
    AnswersStatus \/ AnswersText \/ AnswersSecret \/ AnswersGetstat \/ Refuses

LEMMA Effects ==
    ASSUME TypePart, FreshPart, [Next]_vars
    PROVE  \/ Prepares \/ Commands \/ Awaits \/ Acknowledges \/ Reads \/ ReadsAll
           \/ Fails \/ AwaitsSecond \/ StartsReading \/ Judges
           \/ Takes \/ AnswersSomething \/ Presents \/ Opens \/ Closes \/ Steals
           \/ UNCHANGED vars
BY DriverEffect, CallerEffect, AnswerEffect, OthersEffect
   DEF Next, Program, Controller, Idle, AnswersSomething
-----------------------------------------------------------------------------
(* Types.                                                                  *)

LEMMA StepType ==
    ASSUME TypePart, NEW from, NEW to \in DriverSteps, NEW c \in Ctls,
           Step(from, to, c)
    PROVE  TypePart'
<1>1. cpu \in Cpus /\ cpu' = [cpu EXCEPT !.pc = to] /\ ctl' = c /\ drive' = drive
  BY DEF TypePart, Step
<1>2. cpu' \in Cpus
  BY <1>1 DEF Cpus
<1> QED
  BY <1>1, <1>2 DEF TypePart

LEMMA DriverType == TypePart /\ Driver => TypePart'
<1> SUFFICES ASSUME TypePart, Driver PROVE TypePart'
  OBVIOUS
<1>1. ctl \in Ctls /\ cpu \in Cpus /\ drive \in Drives
  BY DEF TypePart
<1>2. \A pc \in {"clear", "params", "disable", "ack", "command", "waitTaken",
                 "poll", "returned", "judge"} : pc \in DriverSteps
  BY DEF DriverSteps
<1>3. CASE WaitIdle \/ WaitTaken \/ ReadDone
  BY <1>1, <1>2, <1>3, StepType DEF WaitIdle, WaitTaken, ReadDone
<1>4. CASE ClearFifos
  <2>1. <<>> \in Seq(Strings)
    OBVIOUS
  <2>2. [ctl EXCEPT !.params = <<>>] \in Ctls
    BY <1>1, <2>1 DEF Ctls
  <2> QED
    BY <1>2, <1>4, <2>2, StepType DEF ClearFifos
<1>5. CASE WriteParams
  <2>1. Params(cpu.job, cpu.p5) \in Seq(Strings) /\ ctl.params \in Seq(Strings)
    BY <1>1, ParamsType DEF Cpus, Ctls
  <2>2. ctl.params \o Params(cpu.job, cpu.p5) \in Seq(Strings)
    BY <2>1
  <2>3. [ctl EXCEPT !.params = ctl.params \o Params(cpu.job, cpu.p5)] \in Ctls
    BY <1>1, <2>2 DEF Ctls
  <2> QED
    BY <1>2, <1>5, <2>3, StepType DEF WriteParams
<1>6. CASE DisableInterrupts
  <2>1. [ctl EXCEPT !.enabled = FALSE] \in Ctls
    BY <1>1 DEF Ctls
  <2> QED
    BY <1>2, <1>6, <2>1, StepType DEF DisableInterrupts
<1>7. CASE AckOld \/ AckInt
  <2>1. [ctl EXCEPT !.flag = 0] \in Ctls
    BY <1>1, SMTT(20) DEF Ctls
  <2> QED
    BY <1>2, <1>7, <2>1, StepType DEF AckOld, AckInt
<1>8. CASE WriteCommand
  <2>1. cpu.job \in Jobs /\ cpu.job # Swapped /\ ctl.params \in Seq(Strings)
    BY <1>1, <1>8 DEF Cpus, Ctls, WriteCommand, Step
  <2>2. PICK request \in Requests :
           request = [op |-> Op(cpu.job), params |-> ctl.params]
    BY <2>1, OpType DEF Requests
  <2>3. [ctl EXCEPT !.busy = TRUE, !.sent = request] \in Ctls
    BY <1>1 DEF Ctls
  <2>4. Step("command", "waitTaken", [ctl EXCEPT !.busy = TRUE, !.sent = request])
    BY <1>8, <2>2 DEF WriteCommand
  <2> QED
    BY <1>2, <2>3, <2>4, StepType
<1>9. CASE Poll
  <2>1. cpu' = [cpu EXCEPT !.pc = "ackInt", !.int = ctl.flag] /\ ctl' = ctl /\ drive' = drive
    BY <1>9 DEF Poll
  <2>2. cpu' \in Cpus
    BY <1>1, <2>1 DEF Cpus, Ctls, DriverSteps
  <2> QED
    BY <1>1, <2>1, <2>2 DEF TypePart
<1>10. CASE ReadByte
  <2>1. /\ cpu' = [cpu EXCEPT !.reply = Append(cpu.reply, Head(ctl.fifo))]
        /\ ctl' = [ctl EXCEPT !.fifo = Tail(ctl.fifo)]
        /\ drive' = drive /\ ctl.fifo # <<>>
    BY <1>10 DEF ReadByte
  <2>2. ctl.fifo \in Seq(0 .. 255) /\ cpu.reply \in Seq(0 .. 255)
    BY <1>1 DEF Ctls, Cpus
  <2>3. /\ Append(cpu.reply, Head(ctl.fifo)) \in Seq(0 .. 255)
        /\ Tail(ctl.fifo) \in Seq(0 .. 255)
    BY <2>1, <2>2, ReadOne
  <2>4. cpu' \in Cpus
    BY <1>1, <2>1, <2>3 DEF Cpus
  <2>5. ctl' \in Ctls
    BY <1>1, <2>1, <2>3 DEF Ctls
  <2> QED
    BY <1>1, <2>1, <2>4, <2>5 DEF TypePart
<1> QED
  BY <1>3, <1>4, <1>5, <1>6, <1>7, <1>8, <1>9, <1>10 DEF Driver

LEMMA NextJobType ==
    ASSUME TypePart, NEW job \in Jobs, NEW p5 \in P5s, NextJob(job, p5)
    PROVE  cpu' \in Cpus
<1>1. cpu' = [pc |-> IF job = Swapped THEN "done" ELSE "waitIdle", job |-> job,
              second |-> FALSE, int |-> 0, reply |-> <<>>, p5 |-> p5]
  BY DEF NextJob
<1>2. <<>> \in Seq(0 .. 255) /\ 0 \in 0 .. 5
  OBVIOUS
<1>3. (IF job = Swapped THEN "done" ELSE "waitIdle") \in DriverSteps \cup {"failed", "done"}
  BY DEF DriverSteps
<1> QED
  BY <1>1, <1>2, <1>3 DEF Cpus

LEMMA CallerType == TypePart /\ Callers => TypePart'
<1> SUFFICES ASSUME TypePart, Callers PROVE TypePart'
  OBVIOUS
<1>1. cpu \in Cpus /\ cpu.p5 \in P5s /\ cpu.job \in Jobs
  BY DEF TypePart, Cpus
<1>2. ctl' = ctl /\ drive' = drive
  BY DEF Callers, InitReturned, IntReturned, JudgeRegion, JudgeSecret, JudgeLid
<1> SUFFICES cpu' \in Cpus
  BY <1>2 DEF TypePart
<1>3. \A job \in 0 .. 11 : job \in Jobs
  BY DEF Jobs
<1>4. Fail => cpu' \in Cpus
  BY <1>1 DEF Fail, Cpus
<1>5. CASE InitReturned
  <2>1. CASE cpu' = [cpu EXCEPT !.pc = "waitTaken", !.second = TRUE]
    BY <1>1, <2>1 DEF Cpus, DriverSteps
  <2>2. CASE NextJob(RegionJob, cpu.p5)
    BY <1>1, <1>3, <2>2, NextJobType
  <2> QED
    BY <1>4, <1>5, <2>1, <2>2 DEF InitReturned
<1>6. CASE IntReturned
  <2>1. CASE cpu' = [cpu EXCEPT !.pc = "read"]
    BY <1>1, <2>1 DEF Cpus, DriverSteps
  <2> QED
    BY <1>4, <1>6, <2>1 DEF IntReturned
<1>7. CASE JudgeRegion
  <2>1. CASE P5Localized(cpu.reply) # "unsupported" /\ NextJob(FirstSecret, P5Localized(cpu.reply))
    <3>1. P5Localized(cpu.reply) \in P5s
      BY <2>1, P5Type DEF P5s
    <3> QED
      BY <1>3, <2>1, <3>1, NextJobType
  <2> QED
    BY <1>4, <1>7, <2>1 DEF JudgeRegion
<1>8. CASE JudgeSecret
  <2>1. CASE NextJob(cpu.job + 1, cpu.p5)
    <3>1. cpu.job + 1 \in Jobs
      BY <1>8 DEF JudgeSecret, SecretJobs, Jobs
    <3> QED
      BY <1>1, <2>1, <3>1, NextJobType
  <2> QED
    BY <1>4, <1>8, <2>1 DEF JudgeSecret
<1>9. CASE JudgeLid
  <2>1. PICK open \in BOOLEAN :
          NextJob(IF open = LidAwaited(cpu.job) THEN cpu.job + 1 ELSE cpu.job, cpu.p5)
    BY <1>9 DEF JudgeLid
  <2>2. PICK job \in Jobs :
           job = IF open = LidAwaited(cpu.job) THEN cpu.job + 1 ELSE cpu.job
    BY <1>9 DEF JudgeLid, LidJobs, Jobs
  <2> QED
    BY <1>1, <2>1, <2>2, NextJobType
<1> QED
  BY <1>5, <1>6, <1>7, <1>8, <1>9 DEF Callers

(* Every step keeps the types.                                             *)
LEMMA NextType == TypePart /\ [Next]_vars => TypePart'
<1> SUFFICES ASSUME TypePart, [Next]_vars PROVE TypePart'
  OBVIOUS
<1>1. CASE Program
  BY <1>1, DriverType, CallerType DEF Program
<1>2. CASE Take \/ Present \/ KernelHandler
  BY <1>2, OthersEffect DEF TypePart, Takes, Presents, Steals
<1>3. CASE OpenLid \/ CloseLid
  BY <1>3, OthersEffect DEF TypePart, Opens, Closes
<1>4. CASE Answer
  <2>1. ctl' \in Ctls /\ cpu' = cpu
    BY <1>4, AnswerEffect DEF Answer
  <2>2. drive \in Drives
    BY DEF TypePart
  <2>3. CASE AnswerSecret
    <3> DEFINE right == /\ ctl.exec.op = CmdSecret + drive.stage
                        /\ ctl.exec.params = SecretOf(drive.region, drive.stage)
    <3>1. /\ ctl.exec.op \in SecretOps
          /\ drive' = [drive EXCEPT !.stage = IF right THEN drive.stage + 1 ELSE 0]
      BY <2>3 DEF AnswerSecret
    <3>2. (IF right THEN drive.stage + 1 ELSE 0) \in 0 .. 7
      BY <2>2, <3>1 DEF Drives, SecretOps
    <3> QED
      BY <2>1, <2>2, <3>1, <3>2 DEF TypePart, Drives
  <2>4. CASE AnswerGetstat
    <3>1. drive' = [drive EXCEPT !.latch = IsOpen] /\ IsOpen \in BOOLEAN
      BY <2>4 DEF AnswerGetstat, IsOpen
    <3> QED
      BY <2>1, <2>2, <3>1 DEF TypePart, Drives
  <2>5. CASE AnswerInit \/ AnswerTest \/ Refuse
    BY <2>1, <2>2, <2>5 DEF TypePart, AnswerInit, AnswerTest, Refuse
  <2> QED
    BY <1>4, <2>3, <2>4, <2>5 DEF Answer
<1>5. CASE UNCHANGED vars
  BY <1>5 DEF vars, TypePart
<1> QED
  BY <1>1, <1>2, <1>3, <1>4, <1>5 DEF Next, Controller, Idle

-----------------------------------------------------------------------------
(* Nothing is missed, nothing is left over in the buffer.                  *)
LEMMA FreshStep ==
    ASSUME TypePart, FreshPart, [Next]_vars
    PROVE  FreshPart'
<1> USE DEF FreshPart, Writing, Reading
<1>0. cpu.job \in Jobs /\ cpu.job \in Int
  BY DEF TypePart, Cpus, Jobs
<1>1. CASE Prepares
  BY <1>1 DEF Prepares, Staying, SameReplies
<1>2. CASE Commands
  BY <1>2 DEF Commands, Staying, SameReplies, SameMask
<1>3. CASE Awaits
  BY <1>3 DEF Awaits, Staying, SameReplies, SameMask
<1>4. CASE Acknowledges
  BY <1>4 DEF Acknowledges, Staying, SameReplies, SameMask
<1>5. CASE Reads
  <2>1. cpu'.reply # <<>>
    BY <1>5, ReadOne DEF Reads, TypePart, Cpus, Ctls
  <2> QED
    BY <1>5, <2>1 DEF Reads, Staying, SameMask
<1>6. CASE ReadsAll \/ Fails \/ AwaitsSecond \/ StartsReading
  BY <1>6 DEF ReadsAll, Fails, AwaitsSecond, StartsReading, Staying
<1>7. CASE Judges
  BY <1>0, <1>7 DEF Judges, InitDone, RegionDone, SecretDone, LidDone, Begins, LidJobs,
                    SecretJobs
<1>8. CASE Takes
  BY <1>8 DEF Takes, SameReplies, SameMask
<1>9. CASE AnswersSomething
  BY <1>9 DEF AnswersSomething, AnswersStatus, AnswersText, AnswersSecret,
              AnswersGetstat, Refuses, Answers, SameMask
<1>10. CASE Presents
  BY <1>10 DEF Presents, SameMask
<1>11. CASE Opens \/ Closes
  BY <1>11 DEF Opens, Closes, SameMask
<1>12. CASE Steals
  BY <1>12 DEF Steals
<1>13. CASE UNCHANGED vars
  BY <1>13 DEF vars
<1> QED
  BY <1>1, <1>2, <1>3, <1>4, <1>5, <1>6, <1>7, <1>8, <1>9, <1>10, <1>11, <1>12,
     <1>13, Effects
-----------------------------------------------------------------------------
(* What is sent, executed and answered.                                    *)

LEMMA RequestFacts ==
    ASSUME drive.region \in Regions
    PROVE  /\ \A job \in Jobs \ {Swapped} : Request(job) # NoRequest
           /\ Request(InitJob).op = CmdInit /\ Request(RegionJob).op = CmdTest
           /\ \A job \in SecretJobs : Request(job).op = CmdSecret + (job - FirstSecret)
           /\ \A job \in LidJobs : Request(job) = Request(OpenJob)
           /\ Request(OpenJob).op = CmdGetstat
BY OpType DEF Request, NoRequest, Op, Jobs, SecretJobs, LidJobs, Params

LEMMA RequestOf ==
    ASSUME NEW job \in Jobs, NEW p5,
           job < FirstSecret \/ p5 = P5Localized(RegionText(drive.region))
    PROVE  [op |-> Op(job), params |-> Params(job, p5)] = Request(job)
<1>1. CASE job < FirstSecret
  BY <1>1 DEF Request, Params, ParamOf, Jobs
<1>2. CASE p5 = P5Localized(RegionText(drive.region))
  BY <1>2 DEF Request
<1> QED
  BY <1>1, <1>2

(* A drive stays the one it is.                                            *)
LEMMA RegionStays ==
    ASSUME TypePart, FreshPart, [Next]_vars
    PROVE  drive'.region = drive.region /\ drive.region \in Regions
<1>1. drive \in Drives /\ drive.region \in Regions
  BY DriveRegionsAssumption DEF TypePart, Drives
<1>2. CASE AnswersSomething
  BY <1>1, <1>2 DEF AnswersSomething, AnswersStatus, AnswersText, AnswersSecret,
                    AnswersGetstat, Refuses, Drives
<1>3. CASE Judges
  <2>1. Judges => drive' = drive
    BY DEF Judges, InitDone, RegionDone, SecretDone, LidDone, Begins
  <2> QED
    BY <1>1, <1>3, <2>1
<1> QED
  BY <1>1, <1>2, <1>3, Effects
     DEF Prepares, Commands, Awaits, Acknowledges, Reads, ReadsAll, Fails, AwaitsSecond,
         StartsReading, Takes, Presents, Opens, Closes, Steals, vars

(* What the callers conclude from a reply.                                 *)
LEMMA KnownText ==
    ASSUME drive.region \in Regions, cpu.reply \in KnownTexts
    PROVE  cpu.reply # <<>> /\ cpu.reply[1] = 102 /\ ~Contains(cpu.reply, 8)
<1>1. PICK r \in Regions : cpu.reply = RegionText(r)
  BY DEF KnownTexts, Regions
<1> QED
  BY <1>1, TextFacts DEF Contains

LEMMA RegionConclusion ==
    ASSUME TypePart, RegionPart, RegionDone, drive.region \in Regions
    PROVE  Quiet /\ cpu.reply = Text /\ Queued(FromLid)
<1>1. cpu.reply # <<>> /\ cpu.reply[1] = 102 /\ ~Contains(cpu.reply, 8)
  BY KnownText DEF RegionDone
<1>2. TextSeen
  BY <1>1 DEF TextSeen
<1>3. ~Unanswered /\ Queued(FromLid) /\ (BeingRead(Text) \/ Spoilt)
  BY <1>1, <1>2 DEF RegionPart, RegionDone
<1>4. cpu.pc = "judge"
  BY DEF RegionDone
<1>5. CASE BeingRead(Text)
  <2>1. cpu.reply \o <<>> = Text /\ cpu.reply \in Seq(0 .. 255)
    BY <1>4, <1>5 DEF BeingRead, TypePart, Cpus
  <2>2. cpu.reply = Text
    BY <2>1, ConcatEmptySeq
  <2> QED
    BY <1>3, <2>2 DEF Unanswered
<1>6. CASE Spoilt
  BY <1>1, <1>3, <1>4, <1>6 DEF Spoilt, Unanswered
<1> QED
  BY <1>3, <1>5, <1>6

LEMMA SecretConclusion ==
    ASSUME TypePart, SecretPart, SecretDone
    PROVE  /\ Quiet /\ drive.stage = cpu.job - FirstSecret + 1
           /\ Queued(FromLid) /\ ctl.fifo \in {<<>>, <<8>>} \cup FromLid
<1>1. Contains(cpu.reply, InvalidCommand)
  BY DEF SecretDone, SecretAccepted, Contains
<1> QED
  BY <1>1 DEF SecretPart, SecretDone, Unanswered

LEMMA RequestStep ==
    ASSUME TypePart, FreshPart, RequestPart, SecretPart, RegionPart, InitPart, [Next]_vars
    PROVE  RequestPart'
<1> USE DEF RequestPart, Writing, Quiet
<1>0. cpu.job \in Jobs /\ cpu.job \in Int /\ ctl.exec \in Requests
  BY DEF TypePart, Cpus, Jobs, Ctls
<1>a. drive'.region = drive.region /\ drive.region \in Regions
  BY RegionStays
<1>1. CASE Prepares
  <2>1. Staying /\ SamePipe /\ drive' = drive
    BY <1>1 DEF Prepares
  <2>2. Params(cpu.job, cpu.p5) \in Seq(Strings)
    BY <1>0, ParamsType DEF TypePart, Cpus
  <2>3. <<>> \o Params(cpu.job, cpu.p5) = Params(cpu.job, cpu.p5)
    BY <2>2, ConcatEmptySeq
  <2>4. /\ cpu'.pc \in Writing \ {"waitIdle"} => ~ctl'.busy
        /\ cpu'.pc = "params" => ctl'.params = <<>>
        /\ cpu'.pc \in {"disable", "ack", "command"}
              => ctl'.params = Params(cpu.job, cpu.p5)
    BY <1>1, <2>1, <2>3 DEF Prepares, SamePipe, SameParams
  <2>5. cpu.pc \in Writing /\ cpu'.pc \in Writing
    BY <1>1 DEF Prepares
  <2> QED
    BY <1>0, <2>1, <2>4, <2>5 DEF Staying, SamePipe, Request
<1>2. CASE Commands
  <2>1. /\ cpu.pc = "command" /\ cpu'.pc = "waitTaken" /\ Staying
        /\ ctl'.busy = TRUE /\ ctl'.exec = ctl.exec /\ drive' = drive
    BY <1>2 DEF Commands
  <2>2. ctl'.sent = Request(cpu.job)
    BY <1>0, <1>2, RequestOf DEF Commands
  <2>3. cpu.job >= OpenJob => Request(cpu.job) = Request(OpenJob)
    BY <1>0, <1>a, <2>1, RequestFacts DEF FreshPart, LidJobs, Jobs
  <2> QED
    BY <1>0, <2>1, <2>2, <2>3 DEF Staying, Request
<1>3. CASE Awaits
  BY <1>0, <1>3 DEF Awaits, Staying, SamePipe, Request
<1>4. CASE Acknowledges
  BY <1>0, <1>4 DEF Acknowledges, Staying, SamePipe, Request
<1>5. CASE Reads
  BY <1>0, <1>5 DEF Reads, Staying, SamePipe, Request
<1>6. CASE ReadsAll \/ Fails \/ AwaitsSecond \/ StartsReading
  BY <1>0, <1>6 DEF ReadsAll, Fails, AwaitsSecond, StartsReading, Staying, Request
<1>8. CASE Takes
  BY <1>0, <1>8 DEF Takes, Request
<1>9. CASE AnswersSomething
  <2>1. cpu' = cpu /\ ctl'.busy = ctl.busy /\ ctl'.sent = ctl.sent
        /\ ctl'.exec = NoRequest /\ ctl'.params = ctl.params
    BY <1>9 DEF AnswersSomething, AnswersStatus, AnswersText, AnswersSecret,
                AnswersGetstat, Refuses, Answers, SameParams
  <2>2. cpu.job < FirstSecret => drive'.stage = drive.stage
    <3>1. CASE AnswersSecret
      <4>1. cpu.job < FirstSecret => ctl.exec.op \in {0, 10, 25}
        BY <1>0, <1>a, RequestFacts DEF NoRequest, Jobs
      <4>2. ctl.exec.op \in 80 .. 86
        BY <3>1 DEF AnswersSecret, SecretOps
      <4> QED
        BY <4>1, <4>2
    <3>2. CASE AnswersGetstat
      BY <3>2 DEF AnswersGetstat, TypePart, Drives
    <3> QED
      BY <1>9, <3>1, <3>2 DEF AnswersSomething, AnswersStatus, AnswersText, Refuses
  <2>3. cpu.job \in SecretJobs /\ ctl'.busy => ctl.exec = NoRequest
    BY <2>1
  <2> QED
    BY <1>0, <1>a, <2>1, <2>2, <2>3 DEF Request
<1>10. CASE Presents
  BY <1>0, <1>10 DEF Presents, SamePipe, SameParams, Request
<1>11. CASE Opens \/ Closes
  BY <1>0, <1>11 DEF Opens, Closes, SamePipe, SameParams, Request
<1>12. CASE Steals
  BY <1>0, <1>12 DEF Steals, SamePipe, SameParams, Request
<1>13. CASE UNCHANGED vars
  BY <1>13 DEF vars, Request
<1>7. CASE Judges
  <2>1. CASE InitDone
    <3>1. /\ cpu'.job = 1 /\ cpu'.pc = "waitIdle" /\ ctl' = ctl /\ drive' = drive
          /\ cpu.job = 0
      BY <2>1 DEF InitDone, Begins
    <3> QED
      BY <3>1 DEF Request, SecretJobs
  <2>2. CASE RegionDone
    BY <1>a, <2>2, RegionConclusion DEF RegionDone, Begins, Request, Text, SecretJobs
  <2>3. CASE SecretDone
    <3>1. /\ cpu'.job = cpu.job + 1 /\ cpu'.pc = "waitIdle" /\ ctl' = ctl /\ drive' = drive
          /\ cpu.job \in 2 .. 8 /\ cpu'.p5 = cpu.p5
      BY <2>3 DEF SecretDone, Begins, SecretJobs
    <3>2. Quiet
      BY <2>3, SecretConclusion
    <3> QED
      BY <1>0, <3>1, <3>2 DEF Request, SecretJobs
  <2>4. CASE LidDone
    <3>1. /\ cpu'.job \in {cpu.job, cpu.job + 1} /\ cpu'.job \in 9 .. 11
          /\ cpu'.pc \in {"waitIdle", "done"} /\ cpu'.p5 = cpu.p5
          /\ ctl' = ctl /\ drive' = drive
      BY <2>4 DEF LidDone, Begins, LidJobs
    <3>2. cpu.job \in {9, 10}
      BY <2>4 DEF LidDone, LidJobs
    <3> QED
      BY <3>1, <3>2 DEF Request, SecretJobs
  <2> QED
    BY <1>7, <2>1, <2>2, <2>3, <2>4 DEF Judges
<1> QED
  BY <1>1, <1>2, <1>3, <1>4, <1>5, <1>6, <1>7, <1>8, <1>9, <1>10, <1>11, <1>12,
     <1>13, Effects
-----------------------------------------------------------------------------
(* The bytes of each kind of reply.                                        *)
LEMMA ByteFacts ==
    /\ \A bytes \in Stats : bytes = <<bytes[1]>> /\ Len(bytes) = 1 /\ bytes[1] \in {0, 16}
    /\ \A bytes \in Verdicts \cup {LidBytes} :
          /\ bytes = <<bytes[1], bytes[2]>> /\ Len(bytes) = 2
          /\ bytes[1] \in {1, 17} /\ bytes[2] \in {8, 32, 64, 128}
          /\ \A b : Contains(bytes, b) <=> b \in {bytes[1], bytes[2]}
    /\ Refusals \subseteq Verdicts
    /\ \A bytes \in Refusals : bytes[2] = 128
    /\ LidBytes[1] = 17 /\ LidBytes[2] = 8 /\ Len(LidBytes) = 2
    /\ FromLid \subseteq {LidBytes}
BY DEF Stats, Verdicts, Refusals, LidBytes, FromLid, Contains

LEMMA TextIsNoOther ==
    ASSUME drive.region \in Regions
    PROVE  /\ Text \in Bytes /\ Text # <<>> /\ Text[1] = 102 /\ Len(Text) <= 10
           /\ ~Contains(Text, 8)
           /\ Text \notin FromInit /\ Text # LidBytes
           /\ \A bytes \in FromInit : bytes # <<>> /\ bytes[1] # 102 /\ Len(bytes) <= 2
<1>1. Text \in Bytes /\ Text # <<>> /\ Text[1] = 102 /\ Len(Text) <= 10 /\ ~Contains(Text, 8)
  BY TextFacts, SMTT(20) DEF Text, Contains
<1>2. \A bytes \in FromInit : bytes # <<>> /\ bytes[1] # 102 /\ Len(bytes) <= 2
  <2>1. ASSUME NEW bytes \in FromInit PROVE bytes \in Stats \cup Verdicts \cup {LidBytes}
    BY ByteFacts DEF FromInit
  <2>2. ASSUME NEW bytes \in Stats \cup Verdicts \cup {LidBytes}
        PROVE  Len(bytes) \in {1, 2} /\ bytes[1] \in {0, 1, 16, 17}
    BY ByteFacts
  <2>3. SUFFICES ASSUME NEW bytes \in FromInit
                 PROVE  bytes # <<>> /\ bytes[1] # 102 /\ Len(bytes) <= 2
    OBVIOUS
  <2>4. Len(bytes) \in {1, 2}
    BY <2>1, <2>2
  <2>5. bytes[1] \in {0, 1, 16, 17}
    BY <2>1, <2>2
  <2>6. bytes # <<>>
    BY <2>4
  <2>7. bytes[1] # 102
    BY <2>5
  <2>8. Len(bytes) <= 2
    <3>1. \A n \in {1, 2} : n <= 2
      OBVIOUS
    <3> QED
      BY <2>4, <3>1, Zenon
  <2> QED
    BY <2>6, <2>7, <2>8
<1>3. LidBytes[1] = 17
  BY ByteFacts
<1> QED
  BY <1>1, <1>2, <1>3

(* Once the lid has been open, its reply is among the possible ones.       *)
LEMMA SetsGrow ==
    ASSUME TypePart, FreshPart, [Next]_vars
    PROVE  /\ FromLid \subseteq FromLid' /\ FromInit \subseteq FromInit'
           /\ FromSecret \subseteq FromSecret'
           /\ Text' = Text /\ LidBytes' = LidBytes /\ Stats' = Stats
           /\ Opens => LidBytes \in FromLid'
           /\ drive' = drive => FromLid' = FromLid /\ FromInit' = FromInit
                                                   /\ FromSecret' = FromSecret
<1>1. drive \in Drives
  BY DEF TypePart
<1>2. drive.cycle # "none" => drive'.cycle # "none"
  <2>1. CASE AnswersSomething
    BY <1>1, <2>1 DEF AnswersSomething, AnswersStatus, AnswersText, AnswersSecret,
                      AnswersGetstat, Refuses, Drives
  <2>2. CASE Judges
    <3>1. Judges => drive' = drive
      BY DEF Judges, InitDone, RegionDone, SecretDone, LidDone, Begins
    <3> QED
      BY <2>2, <3>1
  <2> QED
    BY <2>1, <2>2, Effects
       DEF Prepares, Commands, Awaits, Acknowledges, Reads, ReadsAll, Fails, AwaitsSecond,
           StartsReading, Takes, Presents, Opens, Closes, Steals, vars
<1>3. Opens => drive'.cycle # "none"
  BY DEF Opens
<1> QED
  BY <1>2, <1>3, RegionStays DEF FromLid, FromInit, FromSecret, Text, LidBytes, Stats, Refusals, Verdicts

AllIn(queue, from) == \A i \in 1 .. Len(queue) : queue[i].bytes \in from


(* How the pending replies change.                                         *)
LEMMA QueueMoves ==
    ASSUME TypePart, NEW from, AllIn(ctl.queue, from)
    PROVE  /\ Presents => ctl'.fifo \in from /\ AllIn(ctl'.queue, from)
           /\ \A more : \A n \in Nat : Answers(more, n) /\ more \subseteq from
                 => AllIn(ctl'.queue, from)
           /\ Opens /\ LidBytes \in from => AllIn(ctl'.queue, from)
<1>1. Len(ctl.queue) \in Nat
  BY DEF TypePart, Ctls
<1>2. ctl.queue # <<>> => Len(ctl.queue) >= 1
  BY DEF TypePart, Ctls
<1>3. Presents => ctl'.fifo \in from /\ AllIn(ctl'.queue, from)
  <2>1. SUFFICES ASSUME Presents PROVE ctl'.fifo \in from /\ AllIn(ctl'.queue, from)
    OBVIOUS
  <2>2. Len(ctl'.queue) = Len(ctl.queue) - 1 /\ Len(ctl.queue) >= 1
    BY <1>2, <2>1 DEF Presents
  <2>3. ctl'.fifo \in from
    BY <1>1, <2>1, <2>2 DEF Presents, AllIn, Pending
  <2>4. ASSUME NEW i \in 1 .. Len(ctl'.queue) PROVE ctl'.queue[i].bytes \in from
    <3>1. i + 1 \in 1 .. Len(ctl.queue)
      BY <1>1, <2>2
    <3> QED
      BY <2>1, <3>1 DEF Presents, AllIn
  <2> QED
    BY <2>3, <2>4 DEF AllIn
<1>4. \A more : \A n \in Nat : Answers(more, n) /\ more \subseteq from
         => AllIn(ctl'.queue, from)
  BY <1>1 DEF Answers, AllIn
<1>5. Opens /\ LidBytes \in from => AllIn(ctl'.queue, from)
  BY <1>1 DEF Opens, AllIn
<1> QED
  BY <1>3, <1>4, <1>5

LEMMA OneAnswered ==
    ASSUME TypePart, NEW from, Answers(from, 1)
    PROVE  /\ Len(ctl'.queue) = Len(ctl.queue) + 1 /\ Len(ctl.queue) \in Nat
           /\ \A i \in 1 .. Len(ctl.queue) : Pending(i)' = Pending(i)
           /\ ctl'.queue[Len(ctl.queue) + 1].bytes \in from
           /\ \A i \in 1 .. Len(ctl'.queue) : i \in 1 .. Len(ctl.queue) \/ i = Len(ctl.queue) + 1
<1>1. Len(ctl.queue) \in Nat
  BY DEF TypePart, Ctls
<1>2. Len(ctl'.queue) = Len(ctl.queue) + 1
  BY DEF Answers
<1>3. \A i \in 1 .. Len(ctl.queue) : Pending(i)' = Pending(i)
  BY DEF Answers, Pending
<1>4. ctl'.queue[Len(ctl.queue) + 1].bytes \in from
  <2>1. Len(ctl.queue) + 1 \in Len(ctl.queue) + 1 .. Len(ctl'.queue)
    BY <1>1, <1>2
  <2> QED
    BY <2>1 DEF Answers, Pending
<1> QED
  BY <1>1, <1>2, <1>3, <1>4

LEMMA OneOpened ==
    ASSUME TypePart, Opens
    PROVE  /\ Len(ctl.queue) \in Nat
           /\ \A i \in 1 .. Len(ctl.queue) : Pending(i)' = Pending(i)
           /\ \A i \in 1 .. Len(ctl'.queue) :
                 \/ i \in 1 .. Len(ctl.queue)
                 \/ i = Len(ctl.queue) + 1 /\ Pending(i)' = LidBytes
<1>1. Len(ctl.queue) \in Nat
  BY DEF TypePart, Ctls
<1>2. \A i \in 1 .. Len(ctl.queue) : Pending(i)' = Pending(i)
  BY DEF Opens, Pending
<1>3. CASE Len(ctl'.queue) = Len(ctl.queue)
  BY <1>1, <1>2, <1>3
<1>4. CASE Len(ctl'.queue) = Len(ctl.queue) + 1
  <2>1. ctl'.queue[Len(ctl.queue) + 1].bytes = LidBytes
    BY <1>4 DEF Opens, Pending
  <2>2. ASSUME NEW i \in 1 .. Len(ctl'.queue)
        PROVE  \/ i \in 1 .. Len(ctl.queue)
               \/ i = Len(ctl.queue) + 1 /\ Pending(i)' = LidBytes
    <3>1. i \in 1 .. Len(ctl.queue) \/ i = Len(ctl.queue) + 1
      BY <1>1, <1>4
    <3>2. i = Len(ctl.queue) + 1 => Pending(i)' = LidBytes
      BY <2>1 DEF Pending
    <3> QED
      BY <3>1, <3>2
  <2> QED
    BY <1>1, <1>2, <2>2
<1>5. Len(ctl'.queue) = Len(ctl.queue) \/ Len(ctl'.queue) = Len(ctl.queue) + 1
  BY DEF Opens
<1> QED
  BY <1>3, <1>4, <1>5

(* Steps that leave the replies and what is read of them alone.            *)
Waits ==
    /\ Staying /\ cpu.reply = <<>> /\ cpu'.reply = <<>> /\ SameReplies /\ drive' = drive
    /\ cpu.pc \notin Reading \cup {"failed"} /\ cpu'.pc # "judge"
    /\ Live' => Live
    /\ Unanswered' => Unanswered

LEMMA Waiting ==
    ASSUME TypePart, FreshPart,
           Prepares \/ Commands \/ Awaits \/ Acknowledges \/ StartsReading
    PROVE  Waits
<1> USE DEF Waits, Live, Unanswered, Quiet, Reading, Writing, FreshPart
<1>1. CASE Prepares
  BY <1>1 DEF Prepares, SamePipe, SameReplies
<1>2. CASE Commands
  BY <1>2 DEF Commands, SameReplies
<1>3. CASE Awaits
  BY <1>3 DEF Awaits, SamePipe, SameReplies
<1>4. CASE Acknowledges
  BY <1>4 DEF Acknowledges, SamePipe, SameReplies
<1>5. CASE StartsReading
  BY <1>5 DEF StartsReading, SameReplies
<1> QED
  BY <1>1, <1>2, <1>3, <1>4, <1>5

(* A job begins or goes on.                                                *)
LEMMA JobStep ==
    ASSUME TypePart, FreshPart, [Next]_vars
    PROVE  /\ Staying \/ AwaitsSecond \/ Judges
           /\ cpu'.job >= cpu.job
           /\ cpu'.job = cpu.job \/ Judges
<1>0. cpu.job \in Int
  BY DEF TypePart, Cpus, Jobs
<1>1. CASE AnswersSomething
  BY <1>0, <1>1 DEF AnswersSomething, AnswersStatus, AnswersText, AnswersSecret,
              AnswersGetstat, Refuses, Answers, Staying
<1>2. CASE Judges
  <2>1. InitDone => cpu'.job >= cpu.job
    BY DEF InitDone, Begins
  <2>2. RegionDone => cpu'.job >= cpu.job
    BY DEF RegionDone, Begins
  <2>3. SecretDone => cpu'.job >= cpu.job
    BY <1>0 DEF SecretDone, Begins
  <2>4. LidDone => cpu'.job >= cpu.job
    BY <1>0 DEF LidDone, Begins
  <2> QED
    BY <1>2, <2>1, <2>2, <2>3, <2>4 DEF Judges
<1>3. CASE Fails \/ AwaitsSecond \/ StartsReading \/ UNCHANGED vars
  <2>1. AwaitsSecond => cpu'.job = cpu.job
    BY DEF AwaitsSecond
  <2>2. Fails \/ StartsReading => Staying
    BY DEF Fails, StartsReading
  <2>3. UNCHANGED vars => Staying
    BY DEF vars, Staying
  <2>4. AwaitsSecond \/ Staying
    BY <1>3, <2>2, <2>3
  <2> QED
    BY <1>0, <1>3, <2>1, <2>4 DEF Staying
<1>4. CASE Prepares \/ Commands \/ Awaits \/ Acknowledges \/ Reads \/ ReadsAll
  <2>1. Staying
    BY <1>4 DEF Prepares, Commands, Awaits, Acknowledges, Reads, ReadsAll
  <2> QED
    BY <1>0, <2>1 DEF Staying
<1>5. CASE Takes \/ Presents \/ Opens \/ Closes \/ Steals
  BY <1>0, <1>5 DEF Takes, Presents, Opens, Closes, Steals, Staying
<1> QED
  BY <1>1, <1>2, <1>3, <1>4, <1>5, Effects
(* A byte is read.                                                         *)
LEMMA ReadEffect ==
    ASSUME TypePart, Reads
    PROVE  /\ cpu'.reply # <<>>
           /\ cpu'.reply[1] = IF cpu.reply = <<>> THEN ctl.fifo[1] ELSE cpu.reply[1]
           /\ cpu'.reply \o ctl'.fifo = cpu.reply \o ctl.fifo
           /\ Len(cpu'.reply) = Len(cpu.reply) + 1 /\ Len(ctl'.fifo) = Len(ctl.fifo) - 1
           /\ \A b : Contains(cpu'.reply, b) <=> Contains(cpu.reply, b) \/ b = ctl.fifo[1]
<1> DEFINE longer == Append(cpu.reply, Head(ctl.fifo))
<1>1. cpu'.reply = longer /\ ctl'.fifo = Tail(ctl.fifo) /\ ctl.fifo # <<>>
  BY DEF Reads
<1>2. cpu.reply \in Seq(0 .. 255) /\ ctl.fifo \in Seq(0 .. 255)
  BY DEF TypePart, Cpus, Ctls
<1>3. /\ longer # <<>>
      /\ longer[1] = IF cpu.reply = <<>> THEN ctl.fifo[1] ELSE cpu.reply[1]
      /\ longer \o Tail(ctl.fifo) = cpu.reply \o ctl.fifo
      /\ Len(longer) = Len(cpu.reply) + 1 /\ Len(Tail(ctl.fifo)) = Len(ctl.fifo) - 1
      /\ \A b : Contains(longer, b) <=> Contains(cpu.reply, b) \/ b = ctl.fifo[1]
  <2>1. longer # <<>> /\ Len(longer) = Len(cpu.reply) + 1 /\ Len(Tail(ctl.fifo)) = Len(ctl.fifo) - 1
    BY <1>1, <1>2, ReadOne
  <2>2. longer[1] = IF cpu.reply = <<>> THEN ctl.fifo[1] ELSE cpu.reply[1]
    BY <1>1, <1>2, ReadOne
  <2>3. longer \o Tail(ctl.fifo) = cpu.reply \o ctl.fifo
    BY <1>1, <1>2, ReadKeeps
  <2>4. \A b : Contains(longer, b) <=> Contains(cpu.reply, b) \/ b = ctl.fifo[1]
    BY <1>1, <1>2, ReadOne
  <2> QED
    BY <2>1, <2>2, <2>3, <2>4
<1> HIDE DEF longer
<1> QED
  BY <1>1, <1>3

LEMMA FailedStays ==
    ASSUME TypePart, FreshPart, [Next]_vars, cpu.pc = "failed"
    PROVE  cpu'.pc = "failed"
<1>1. ~Judges
  BY DEF Judges, InitDone, RegionDone, SecretDone, LidDone
<1> QED
  BY <1>1, Effects
     DEF Prepares, Commands, Awaits, Acknowledges, Reads, ReadsAll, Fails, AwaitsSecond,
         StartsReading, Takes, Presents, Opens, Closes, Steals, vars, AnswersSomething,
         AnswersStatus, AnswersText, AnswersSecret, AnswersGetstat, Refuses, Answers,
         Writing

-----------------------------------------------------------------------------
(* What earlier commands left over is taken by the first two waits.        *)

InitClean ==
    /\ cpu.second => cpu.pc \notin Writing
    /\ \A i \in 1 .. Len(ctl.queue) :
          i > Foreign - (IF ctl.flag # 0 THEN 1 ELSE 0) => Pending(i) \in FromInit
    /\ Foreign = 0 /\ ctl.flag # 0 => ctl.fifo \in FromInit

LEMMA InitStep ==
    ASSUME TypePart, FreshPart, RequestPart, InitPart, [Next]_vars
    PROVE  InitPart'
<1> SUFFICES ASSUME cpu'.job = InitJob, cpu'.pc # "failed" PROVE InitClean'
  BY DEF InitPart, InitClean
<1>a. FromInit \subseteq FromInit' /\ (drive' = drive => FromInit' = FromInit)
  BY SetsGrow
<1>b. Len(ctl.queue) \in Nat /\ cpu.job \in Jobs /\ ctl.flag \in 0 .. 5 /\ drive.region \in Regions
  BY RegionStays DEF TypePart, Ctls, Cpus
<1>c. ~Judges
  BY <1>b DEF Judges, InitDone, RegionDone, SecretDone, LidDone, Begins, SecretJobs, LidJobs
<1>d. cpu.job = InitJob
  BY <1>c, JobStep
<1>e. cpu.pc \notin Reading
  BY <1>d DEF FreshPart
<1>1. CASE cpu.pc = "failed"
  BY <1>1, FailedStays
<1> SUFFICES ASSUME cpu.pc # "failed" PROVE InitClean'
  BY <1>1
<1>f. InitClean
  BY <1>d DEF InitPart, InitClean
<1> USE DEF InitClean, Foreign, Writing, Pending
<1>2. CASE Prepares
  BY <1>a, <1>b, <1>f, <1>2 DEF Prepares, Staying, SameReplies
<1>3. CASE Commands \/ Awaits
  BY <1>a, <1>b, <1>f, <1>3 DEF Commands, Awaits, Staying, SameReplies
<1>4. CASE Acknowledges
  BY <1>a, <1>b, <1>f, <1>4 DEF Acknowledges, Staying, SameReplies, FreshPart
<1>5. CASE AwaitsSecond
  BY <1>a, <1>b, <1>f, <1>5 DEF AwaitsSecond
<1>6. CASE Takes
  BY <1>a, <1>b, <1>f, <1>6 DEF Takes, SameReplies
<1>7. CASE AnswersSomething
  <2>1. ctl.exec # NoRequest /\ cpu' = cpu /\ ctl'.flag = ctl.flag /\ ctl'.fifo = ctl.fifo
    BY <1>7 DEF AnswersSomething, AnswersStatus, AnswersText, AnswersSecret,
                AnswersGetstat, Refuses, Answers
  <2>2. ctl.exec.op = CmdInit
    BY <1>b, <1>d, <2>1, RequestFacts DEF RequestPart
  <2>3. Answers(Stats, 2) \/ Answers(Refusals, 1)
    BY <1>7, <2>2 DEF AnswersSomething, AnswersStatus, AnswersText, AnswersSecret,
                AnswersGetstat, Refuses, SecretOps
  <2>4. /\ Len(ctl'.queue) >= Len(ctl.queue) /\ Len(ctl'.queue) \in Nat
        /\ \A i \in 1 .. Len(ctl.queue) : ctl'.queue[i] = ctl.queue[i]
        /\ \A i \in Len(ctl.queue) + 1 .. Len(ctl'.queue) : ctl'.queue[i].bytes \in FromInit
    BY <1>b, <2>3 DEF Answers, FromInit
  <2>5. ASSUME NEW i \in 1 .. Len(ctl'.queue),
               i > Foreign - (IF ctl.flag # 0 THEN 1 ELSE 0)
        PROVE  ctl'.queue[i].bytes \in FromInit
    <3>1. i \in 1 .. Len(ctl.queue) \/ i \in Len(ctl.queue) + 1 .. Len(ctl'.queue)
      BY <1>b, <2>4
    <3> QED
      BY <1>f, <2>4, <2>5, <3>1
  <2>6. Foreign' = Foreign /\ FromInit \subseteq FromInit'
    BY <1>a, <2>1
  <2> HIDE DEF Foreign
  <2> QED
    BY <1>f, <2>1, <2>5, <2>6
<1>8. CASE Presents
  <2>1. /\ cpu' = cpu /\ drive' = drive /\ ctl.flag = 0 /\ ctl'.flag # 0
        /\ Len(ctl'.queue) = Len(ctl.queue) - 1 /\ Len(ctl.queue) >= 1
        /\ ctl'.fifo = ctl.queue[1].bytes
        /\ \A i \in 1 .. Len(ctl'.queue) : ctl'.queue[i] = ctl.queue[i + 1]
    BY <1>8 DEF Presents, TypePart, Ctls
  <2>2. Foreign' = Foreign /\ FromInit' = FromInit /\ Foreign \in 0 .. 2
    BY <1>a, <2>1
  <2> HIDE DEF Foreign
  <2>3. ASSUME NEW i \in 1 .. Len(ctl'.queue), i > Foreign - 1
        PROVE  ctl'.queue[i].bytes \in FromInit
    <3>1. i + 1 \in 1 .. Len(ctl.queue) /\ i + 1 > Foreign
      BY <1>b, <2>1, <2>2, <2>3
    <3> QED
      BY <1>f, <2>1, <2>2, <3>1
  <2>4. Foreign = 0 => ctl'.fifo \in FromInit
    BY <1>b, <1>f, <2>1
  <2> QED
    BY <1>f, <2>1, <2>2, <2>3, <2>4
<1>9. CASE Opens
  <2>1. /\ cpu' = cpu /\ ctl'.flag = ctl.flag /\ ctl'.fifo = ctl.fifo
        /\ Len(ctl'.queue) \in {Len(ctl.queue), Len(ctl.queue) + 1}
        /\ \A i \in 1 .. Len(ctl.queue) : ctl'.queue[i] = ctl.queue[i]
        /\ Len(ctl'.queue) = Len(ctl.queue) + 1
               => ctl'.queue[Len(ctl.queue) + 1].bytes \in FromInit'
    BY <1>9, SetsGrow DEF Opens, FromInit
  <2>2. Foreign' = Foreign
    BY <2>1
  <2> HIDE DEF Foreign
  <2>3. ASSUME NEW i \in 1 .. Len(ctl'.queue),
               i > Foreign - (IF ctl.flag # 0 THEN 1 ELSE 0)
        PROVE  ctl'.queue[i].bytes \in FromInit'
    <3>0. Len(ctl'.queue) \in Nat /\ Len(ctl'.queue) <= Len(ctl.queue) + 1
      BY <1>b, <2>1
    <3>1. \/ i \in 1 .. Len(ctl.queue)
          \/ i = Len(ctl.queue) + 1 /\ Len(ctl'.queue) = Len(ctl.queue) + 1
      BY <1>b, <3>0
    <3> QED
      BY <1>a, <1>f, <2>1, <2>3, <3>1
  <2> QED
    BY <1>a, <1>f, <2>1, <2>2, <2>3
<1>10. CASE Closes
  BY <1>a, <1>f, <1>10 DEF Closes
<1>11. CASE Steals
  BY <1>a, <1>b, <1>f, <1>11 DEF Steals
<1>12. CASE UNCHANGED vars
  BY <1>a, <1>f, <1>12 DEF vars
<1>13. ~Reads /\ ~ReadsAll /\ ~Fails /\ ~StartsReading
  BY <1>d, <1>e DEF Reads, ReadsAll, Fails, StartsReading, Reading
<1> QED
  BY <1>2, <1>3, <1>4, <1>5, <1>6, <1>7, <1>8, <1>9, <1>10, <1>11, <1>12, <1>13,
     <1>c, Effects
-----------------------------------------------------------------------------
(* The text of the region, when it has been read, is there as a whole.     *)

RegionClean ==
    /\ Queued(FromInit \cup {Text})
    /\ \A i, j \in 1 .. Len(ctl.queue) :
          i < j /\ Pending(i) = Text => Pending(j) \in FromLid
    /\ Live /\ cpu.reply = <<>> /\ ctl.fifo # <<>> => ctl.fifo \in FromInit \cup {Text}
    /\ TextSeen => Queued(FromLid)
    /\ Unanswered => ~TextSeen /\ Queued(FromInit)
    /\ cpu.reply # <<>> /\ cpu.reply[1] = 102 => BeingRead(Text) \/ Spoilt
    /\ cpu.pc = "judge" => ctl.fifo \in {<<>>} \cup FromInit \cup {Text}

(* The same as long as neither replies nor the reading of one change.      *)
LEMMA RegionSame ==
    ASSUME TypePart, RegionClean,
           ctl'.queue = ctl.queue, ctl'.fifo = ctl.fifo, cpu'.reply = cpu.reply,
           Text' = Text, FromInit \subseteq FromInit', FromLid \subseteq FromLid',
           LidBytes' = LidBytes,
           cpu'.reply = <<>> => cpu'.pc # "judge" /\ (Live' => Live),
           cpu'.reply # <<>> => (cpu'.pc = cpu.pc /\ ctl'.flag = ctl.flag),
           Unanswered' => Unanswered
    PROVE  RegionClean'
<1>1. Queued(FromInit \cup {Text})'
  BY DEF RegionClean, Queued, Pending
<1>2. \A i, j \in 1 .. Len(ctl'.queue) :
         i < j /\ Pending(i)' = Text' => Pending(j)' \in FromLid'
  BY DEF RegionClean, Pending
<1>3. (Live /\ cpu.reply = <<>> /\ ctl.fifo # <<>> => ctl.fifo \in FromInit \cup {Text})'
  BY DEF RegionClean
<1>4. TextSeen' => TextSeen
  BY DEF TextSeen
<1>5. (TextSeen => Queued(FromLid))' /\ (Unanswered => ~TextSeen /\ Queued(FromInit))'
  BY <1>4 DEF RegionClean, Queued, Pending
<1>6. (cpu.reply # <<>> /\ cpu.reply[1] = 102 => BeingRead(Text) \/ Spoilt)'
  <2>1. SUFFICES ASSUME cpu'.reply # <<>>, cpu'.reply[1] = 102
                 PROVE  BeingRead(Text)' \/ Spoilt'
    OBVIOUS
  <2>2. BeingRead(Text) \/ Spoilt
    BY <2>1 DEF RegionClean
  <2>3. cpu'.pc = cpu.pc /\ ctl'.flag = ctl.flag
    BY <2>1
  <2>4. BeingRead(Text) => BeingRead(Text)'
    BY <2>3 DEF BeingRead
  <2>5. Spoilt => Spoilt'
    BY <2>3 DEF Spoilt, Contains
  <2> QED
    BY <2>2, <2>4, <2>5
<1>7. (cpu.pc = "judge" => ctl.fifo \in {<<>>} \cup FromInit \cup {Text})'
  BY DEF RegionClean
<1> QED
  BY <1>1, <1>2, <1>3, <1>5, <1>6, <1>7 DEF RegionClean

LEMMA RegionRead ==
    ASSUME TypePart, FreshPart, RegionClean, Reads, drive.region \in Regions
    PROVE  RegionClean'
<1>1. /\ cpu.pc = "read" /\ cpu'.pc = "read" /\ ctl.fifo # <<>> /\ drive' = drive
      /\ SamePipe /\ ctl'.queue = ctl.queue /\ ctl'.flag = ctl.flag
      /\ cpu.reply \in Bytes /\ ctl.fifo \in Bytes
  BY DEF Reads, TypePart, Cpus, Ctls, Bytes
<1>2. /\ cpu'.reply # <<>>
      /\ cpu'.reply[1] = IF cpu.reply = <<>> THEN ctl.fifo[1] ELSE cpu.reply[1]
      /\ cpu'.reply \o ctl'.fifo = cpu.reply \o ctl.fifo
      /\ \A b : Contains(cpu'.reply, b) <=> Contains(cpu.reply, b) \/ b = ctl.fifo[1]
  BY ReadEffect
<1>3. FromInit' = FromInit /\ FromLid' = FromLid /\ Text' = Text /\ Unanswered' = Unanswered
  BY <1>1 DEF FromInit, FromLid, Stats, Refusals, LidBytes, Text, Unanswered, Quiet, SamePipe, Writing
<1>4. Live
  BY <1>1 DEF Live, Reading
<1>5. cpu.reply = <<>> /\ cpu'.reply[1] = 102 => ctl.fifo = Text
  BY <1>1, <1>2, <1>4, TextIsNoOther DEF RegionClean
<1>6. TextSeen' => TextSeen
  BY <1>2, <1>4, <1>5 DEF TextSeen
<1>7. ASSUME cpu'.reply[1] = 102 PROVE (BeingRead(Text) \/ Spoilt)'
  <2>1. CASE cpu.reply = <<>>
    <3>1. cpu.reply \o ctl.fifo = Text
      BY <1>1, <1>5, <1>7, <2>1, ConcatEmptySeq
    <3> QED
      BY <1>1, <1>2, <1>3, <3>1 DEF BeingRead
  <2>2. CASE cpu.reply # <<>>
    <3>1. BeingRead(Text) \/ Spoilt
      BY <1>2, <1>7, <2>2 DEF RegionClean
    <3>2. CASE BeingRead(Text)
      BY <1>1, <1>2, <1>3, <3>2 DEF BeingRead
    <3>3. CASE Spoilt
      <4>1. ctl.flag # 0 /\ ctl.fifo \in {LidBytes, <<8>>}
        BY <1>1, <3>3 DEF Spoilt
      <4>2. CASE ctl.fifo = LidBytes
        <5>1. ctl'.fifo = <<8>>
          BY <4>2 DEF LidBytes, Reads
        <5> QED
          BY <1>1, <4>1, <5>1 DEF Spoilt
      <4>3. CASE ctl.fifo = <<8>>
        <5>1. ctl'.fifo = <<>> /\ ctl.fifo[1] = 8
          BY <4>3 DEF Reads
        <5> QED
          BY <1>1, <1>2, <4>1, <5>1 DEF Spoilt
      <4> QED
        BY <4>1, <4>2, <4>3
    <3> QED
      BY <3>1, <3>2, <3>3
  <2> QED
    BY <2>1, <2>2
<1> QED
  BY <1>1, <1>2, <1>3, <1>6, <1>7 DEF RegionClean, Queued, Pending

LEMMA RegionPresented ==
    ASSUME TypePart, FreshPart, RegionClean, Presents, drive.region \in Regions,
           cpu.pc # "failed"
    PROVE  RegionClean'
<1>1. /\ cpu' = cpu /\ drive' = drive /\ SamePipe /\ ctl.flag = 0 /\ ctl'.flag # 0
      /\ Len(ctl'.queue) = Len(ctl.queue) - 1 /\ Len(ctl.queue) >= 1 /\ Len(ctl.queue) \in Nat
      /\ ctl'.fifo = Pending(1)
      /\ \A i \in 1 .. Len(ctl'.queue) : ctl'.queue[i] = ctl.queue[i + 1]
  <2>1. Len(ctl.queue) \in Nat /\ (ctl.queue # <<>> => Len(ctl.queue) >= 1)
    BY DEF TypePart, Ctls
  <2> QED
    BY <2>1 DEF Presents
<1>2. FromInit' = FromInit /\ FromLid' = FromLid /\ Text' = Text /\ Unanswered' = Unanswered
      /\ LidBytes' = LidBytes
  BY <1>1 DEF FromInit, FromLid, Stats, Refusals, LidBytes, Text, Unanswered, Quiet, SamePipe, Writing
<1>3. \A i \in 1 .. Len(ctl'.queue) : i + 1 \in 1 .. Len(ctl.queue) /\ Pending(i)' = Pending(i + 1)
  BY <1>1 DEF Pending
<1>4. ctl'.fifo \in FromInit \cup {Text}
  BY <1>1 DEF RegionClean, Queued
<1>5. Queued(FromInit \cup {Text})'
  BY <1>2, <1>3 DEF RegionClean, Queued
<1>6. \A i, j \in 1 .. Len(ctl'.queue) :
         i < j /\ Pending(i)' = Text' => Pending(j)' \in FromLid'
  <2>1. SUFFICES ASSUME NEW i \in 1 .. Len(ctl'.queue), NEW j \in 1 .. Len(ctl'.queue),
                        i < j, Pending(i)' = Text'
                 PROVE  Pending(j)' \in FromLid'
    OBVIOUS
  <2>2. /\ i + 1 \in 1 .. Len(ctl.queue) /\ j + 1 \in 1 .. Len(ctl.queue) /\ i + 1 < j + 1
        /\ Pending(i + 1) = Text /\ Pending(j)' = Pending(j + 1)
    BY <1>1, <1>2, <1>3, <2>1
  <2> QED
    BY <1>2, <2>2 DEF RegionClean
<1>7. CASE cpu.reply = <<>>
  <2>1. TextSeen' => ctl'.fifo = Text
    BY <1>1, <1>2, <1>7 DEF TextSeen
  <2>2. ctl'.fifo = Text => Queued(FromLid)'
    <3>1. SUFFICES ASSUME Pending(1) = Text, NEW i \in 1 .. Len(ctl'.queue)
                   PROVE  Pending(i)' \in FromLid'
      BY <1>1 DEF Queued
    <3>2. 1 \in 1 .. Len(ctl.queue) /\ i + 1 \in 1 .. Len(ctl.queue) /\ 1 < i + 1
      BY <1>1
    <3> QED
      BY <1>2, <1>3, <3>1, <3>2 DEF RegionClean
  <2>3. Unanswered => Pending(1) # Text /\ Queued(FromInit)'
    BY <1>1, <1>2, <1>3, TextIsNoOther DEF RegionClean, Queued
  <2>4. cpu.pc # "judge"
    BY <1>7 DEF FreshPart
  <2> QED
    BY <1>1, <1>2, <1>4, <1>5, <1>6, <1>7, <2>1, <2>2, <2>3, <2>4 DEF RegionClean
<1>8. CASE cpu.reply # <<>>
  <2>1. TextSeen' = TextSeen
    BY <1>1, <1>8 DEF TextSeen
  <2>2. \A S : Queued(S) => \A i \in 1 .. Len(ctl'.queue) : Pending(i)' \in S
    BY <1>3 DEF Queued
  <2>3. (TextSeen => Queued(FromLid))' /\ (Unanswered => ~TextSeen /\ Queued(FromInit))'
    BY <1>2, <2>1, <2>2 DEF RegionClean, Queued
  <2>4. ASSUME cpu.reply[1] = 102 PROVE Spoilt'
    <3>1. Queued(FromLid) /\ (BeingRead(Text) \/ Spoilt)
      BY <1>8, <2>4 DEF RegionClean, TextSeen
    <3>2. BeingRead(Text)
      BY <1>1, <3>1 DEF Spoilt
    <3>3. ctl'.fifo = LidBytes
      BY <1>1, <3>1, ByteFacts DEF Queued
    <3>4. CASE cpu.pc = "judge"
      <4>1. cpu.reply \o <<>> = Text /\ cpu.reply \in Bytes
        BY <3>2, <3>4 DEF BeingRead, TypePart, Cpus, Bytes
      <4>2. cpu.reply = Text
        BY <4>1, ConcatEmptySeq DEF Bytes
      <4> QED
        BY <1>1, <1>2, <3>3, <3>4, <4>2 DEF Spoilt
    <3>5. CASE cpu.pc = "read"
      BY <1>1, <1>2, <3>3, <3>5 DEF Spoilt
    <3> QED
      BY <1>8, <3>4, <3>5 DEF FreshPart, Reading
  <2> QED
    BY <1>1, <1>2, <1>4, <1>5, <1>6, <1>8, <2>3, <2>4 DEF RegionClean
<1> QED
  BY <1>7, <1>8

LEMMA RegionAnswered ==
    ASSUME TypePart, RegionClean, RequestPart, AnswersSomething, cpu.job = RegionJob,
           drive.region \in Regions
    PROVE  RegionClean'
<1>1. /\ ctl.exec # NoRequest /\ cpu' = cpu /\ ctl'.exec = NoRequest /\ ctl'.busy = ctl.busy
      /\ ctl'.flag = ctl.flag /\ ctl'.fifo = ctl.fifo
  BY DEF AnswersSomething, AnswersStatus, AnswersText, AnswersSecret,
              AnswersGetstat, Refuses, Answers
<1>2. ctl.exec.op \in {CmdInit, CmdTest}
  BY <1>1, RequestFacts DEF RequestPart
<1>3. \/ AnswersStatus \/ AnswersText \/ Refuses
  BY <1>2 DEF AnswersSomething, AnswersSecret, AnswersGetstat, SecretOps
<1>4. drive' = drive
  BY <1>3 DEF AnswersStatus, AnswersText, Refuses
<1>5. FromInit' = FromInit /\ FromLid' = FromLid /\ Text' = Text /\ LidBytes' = LidBytes
  BY <1>4 DEF FromInit, FromLid, Stats, Refusals, LidBytes, Text
<1>6. ~TextSeen /\ Queued(FromInit)
  BY <1>1 DEF RegionClean, Unanswered, Quiet
<1>7. TextSeen' = TextSeen /\ BeingRead(Text)' = BeingRead(Text) /\ Spoilt' = Spoilt /\ Live' = Live
  BY <1>1, <1>5 DEF TextSeen, BeingRead, Spoilt, Live
<1>8. /\ (Live /\ cpu.reply = <<>> /\ ctl.fifo # <<>> => ctl.fifo \in FromInit \cup {Text})'
      /\ (cpu.reply # <<>> /\ cpu.reply[1] = 102 => BeingRead(Text) \/ Spoilt)'
      /\ (cpu.pc = "judge" => ctl.fifo \in {<<>>} \cup FromInit \cup {Text})'
  BY <1>1, <1>5, <1>7 DEF RegionClean
<1>9. CASE AnswersStatus \/ Refuses
  <2>1. Answers(Stats, 2) \/ Answers(Refusals, 1)
    BY <1>9 DEF AnswersStatus, Refuses
  <2>2. AllIn(ctl.queue, FromInit) /\ Stats \subseteq FromInit /\ Refusals \subseteq FromInit
    BY <1>6 DEF AllIn, Queued, Pending, FromInit
  <2>3. AllIn(ctl'.queue, FromInit)
    BY <2>1, <2>2, QueueMoves
  <2>4. \A i \in 1 .. Len(ctl'.queue) : Pending(i)' \in FromInit /\ Pending(i)' # Text
    BY <2>3, TextIsNoOther DEF AllIn, Pending
  <2>5. Queued(FromInit)' /\ Queued(FromInit \cup {Text})'
    BY <1>5, <2>4 DEF Queued
  <2> QED
    BY <1>5, <1>6, <1>7, <1>8, <2>4, <2>5 DEF RegionClean
<1>10. CASE AnswersText
  <2>1. Answers({Text}, 1) /\ ctl.exec.op = CmdTest
    BY <1>10 DEF AnswersText
  <2>2. ~ctl.busy /\ cpu.pc \notin Writing
    BY <2>1, RequestFacts, <1>1 DEF RequestPart
  <2>3. ~Unanswered'
    BY <1>1, <2>2 DEF Unanswered, Quiet, Writing
  <2>4. /\ Len(ctl'.queue) = Len(ctl.queue) + 1 /\ Len(ctl.queue) \in Nat
        /\ \A i \in 1 .. Len(ctl.queue) : Pending(i)' = Pending(i)
        /\ ctl'.queue[Len(ctl.queue) + 1].bytes = Text
    BY <2>1, OneAnswered
  <2>5. \A i \in 1 .. Len(ctl'.queue) : i \in 1 .. Len(ctl.queue) \/ i = Len(ctl.queue) + 1
    BY <2>1, OneAnswered
  <2>6. Queued(FromInit \cup {Text})'
    <3>1. ASSUME NEW i \in 1 .. Len(ctl'.queue)
          PROVE  Pending(i)' \in FromInit \cup {Text}
      <4>1. CASE i \in 1 .. Len(ctl.queue)
        BY <1>6, <2>4, <4>1 DEF Queued
      <4>2. CASE i = Len(ctl.queue) + 1
        BY <2>4, <4>2 DEF Pending
      <4> QED
        BY <2>5, <4>1, <4>2
    <3> QED
      BY <1>5, <3>1 DEF Queued
  <2>7. ASSUME NEW i \in 1 .. Len(ctl'.queue), NEW j \in 1 .. Len(ctl'.queue), i < j
        PROVE  Pending(i)' # Text
    <3>1. i \in 1 .. Len(ctl.queue)
      BY <2>4, <2>7
    <3> QED
      BY <1>6, <2>4, <3>1, TextIsNoOther DEF Queued
  <2> QED
    BY <1>5, <1>6, <1>7, <1>8, <2>3, <2>6, <2>7 DEF RegionClean
<1> QED
  BY <1>3, <1>9, <1>10

LEMMA RegionOpened ==
    ASSUME TypePart, RegionClean, Opens, drive.region \in Regions,
           FromLid \subseteq FromLid', FromInit \subseteq FromInit', LidBytes \in FromLid',
           Text' = Text, LidBytes' = LidBytes
    PROVE  RegionClean'
<1>1. /\ cpu' = cpu /\ ctl'.flag = ctl.flag /\ ctl'.fifo = ctl.fifo /\ SamePipe
      /\ \A i \in 1 .. Len(ctl.queue) : Pending(i)' = Pending(i)
  BY DEF Opens, Pending
<1>2. \A i \in 1 .. Len(ctl'.queue) :
         i \in 1 .. Len(ctl.queue) \/ (i = Len(ctl.queue) + 1 /\ Pending(i)' = LidBytes)
  BY OneOpened
<1>3. LidBytes \in FromInit'
  BY DEF FromInit
<1>4. \A S, T : S \subseteq T /\ LidBytes \in T /\ Queued(S)
         => \A i \in 1 .. Len(ctl'.queue) : Pending(i)' \in T
  BY <1>1, <1>2 DEF Queued
<1>5. /\ Queued(FromInit \cup {Text})' /\ (Queued(FromInit) => Queued(FromInit)')
      /\ (Queued(FromLid) => Queued(FromLid)')
  <2>1. Queued(FromInit \cup {Text})'
    BY <1>3, <1>4 DEF RegionClean, Queued
  <2>2. Queued(FromInit) => Queued(FromInit)'
    BY <1>3, <1>4 DEF Queued
  <2>3. Queued(FromLid) => Queued(FromLid)'
    BY <1>4 DEF Queued
  <2> QED
    BY <2>1, <2>2, <2>3
<1>6. ASSUME NEW i \in 1 .. Len(ctl'.queue), NEW j \in 1 .. Len(ctl'.queue), i < j,
             Pending(i)' = Text
      PROVE  Pending(j)' \in FromLid'
  <2>1. i \in 1 .. Len(ctl.queue) /\ Pending(i) = Text
    BY <1>1, <1>2, <1>6, TextIsNoOther
  <2>2. CASE j \in 1 .. Len(ctl.queue)
    BY <1>1, <1>6, <2>1, <2>2 DEF RegionClean
  <2>3. CASE Pending(j)' = LidBytes
    BY <2>3
  <2> QED
    BY <1>2, <2>2, <2>3
<1>7. TextSeen' = TextSeen /\ BeingRead(Text)' = BeingRead(Text) /\ Spoilt' = Spoilt /\ Live' = Live
      /\ Unanswered' = Unanswered
  BY <1>1 DEF TextSeen, BeingRead, Spoilt, Live, Unanswered, Quiet, SamePipe
<1> QED
  BY <1>1, <1>5, <1>6, <1>7 DEF RegionClean

LEMMA RegionStep ==
    ASSUME TypePart, FreshPart, RequestPart, InitPart, RegionPart, [Next]_vars
    PROVE  RegionPart'
<1> SUFFICES ASSUME cpu'.job = RegionJob, cpu'.pc # "failed" PROVE RegionClean'
  BY DEF RegionPart, RegionClean
<1>a. /\ FromInit \subseteq FromInit' /\ FromLid \subseteq FromLid' /\ Text' = Text
      /\ LidBytes' = LidBytes /\ (Opens => LidBytes \in FromLid')
  BY SetsGrow
<1>b. cpu.job \in Jobs /\ drive.region \in Regions /\ cpu.pc # "failed"
  BY RegionStays, FailedStays DEF TypePart, Cpus
<1>1. CASE InitDone
  <2>1. /\ cpu'.pc = "waitIdle" /\ cpu'.reply = <<>> /\ ctl' = ctl /\ drive' = drive
        /\ cpu.pc = "returned" /\ cpu.job = InitJob /\ cpu.second
    BY <1>1 DEF InitDone, Begins
  <2>2. FromInit' = FromInit /\ FromLid' = FromLid
    BY <2>1 DEF FromInit, FromLid, Stats, Refusals, LidBytes
  <2>3. Queued(FromInit) /\ (ctl.flag # 0 => ctl.fifo \in FromInit)
    BY <2>1 DEF InitPart, Foreign, Queued
  <2>4. Live' => ctl.flag # 0
    BY <2>1 DEF Live, Reading
  <2>5. ~TextSeen'
    BY <1>a, <1>b, <2>1, <2>3, <2>4, TextIsNoOther DEF TextSeen
  <2>6. /\ Queued(FromInit \cup {Text})' /\ Queued(FromInit)'
        /\ \A i \in 1 .. Len(ctl'.queue) : Pending(i)' # Text'
    BY <1>a, <1>b, <2>1, <2>2, <2>3, TextIsNoOther DEF Queued, Pending
  <2> QED
    BY <1>a, <2>1, <2>2, <2>3, <2>4, <2>5, <2>6 DEF RegionClean
<1>2. CASE ~InitDone
  <2>1. ~Judges
    BY <1>b, <1>2 DEF Judges, RegionDone, SecretDone, LidDone, Begins, SecretJobs, LidJobs
  <2>2. cpu.job = RegionJob /\ RegionClean
    BY <1>b, <2>1, JobStep DEF RegionPart, RegionClean
  <2>3. CASE Prepares \/ Commands \/ Awaits \/ Acknowledges \/ StartsReading
    <3>1. Waits
      BY <2>3, Waiting
    <3> QED
      BY <1>a, <2>2, <3>1, RegionSame DEF Waits, SameReplies
  <2>4. CASE Reads
    BY <1>b, <2>2, <2>4, RegionRead
  <2>5. CASE ReadsAll
    <3>1. /\ cpu.pc = "read" /\ cpu'.pc = "judge" /\ ctl.fifo = <<>> /\ cpu'.reply = cpu.reply
          /\ ctl' = ctl /\ drive' = drive /\ cpu.reply # <<>>
      BY <2>5 DEF ReadsAll, FreshPart
    <3>2. FromInit' = FromInit /\ FromLid' = FromLid /\ Unanswered' = Unanswered
      BY <3>1 DEF FromInit, FromLid, Stats, Refusals, LidBytes, Unanswered, Quiet, Writing
    <3>3. TextSeen' = TextSeen /\ Queued(FromInit)' = Queued(FromInit) /\ Queued(FromLid)' = Queued(FromLid)
      BY <3>1, <3>2 DEF TextSeen, Queued, Pending
    <3>4. BeingRead(Text) => BeingRead(Text)'
      BY <1>a, <3>1 DEF BeingRead
    <3>5. Spoilt => Spoilt'
      <4>1. <<8>> # <<>> /\ LidBytes # <<>>
        BY DEF LidBytes
      <4> QED
        BY <3>1, <4>1 DEF Spoilt
    <3>6. Queued(FromInit \cup {Text})' /\ \A i \in 1 .. Len(ctl'.queue) : Pending(i)' = Pending(i)
      BY <1>a, <2>2, <3>1, <3>2 DEF RegionClean, Queued, Pending
    <3> QED
      BY <1>a, <2>2, <3>1, <3>2, <3>3, <3>4, <3>5, <3>6 DEF RegionClean
  <2>6. CASE Takes
    BY <1>a, <2>2, <2>6, RegionSame DEF Takes, SameReplies, Unanswered, Quiet, Live, FreshPart, Reading
  <2>7. CASE AnswersSomething
    BY <1>b, <2>2, <2>7, RegionAnswered
  <2>8. CASE Presents
    BY <1>b, <2>2, <2>8, RegionPresented
  <2>9. CASE Opens
    BY <1>a, <1>b, <2>2, <2>9, RegionOpened
  <2>10. CASE Closes
    BY <1>a, <2>2, <2>10, RegionSame DEF Closes, Unanswered, Quiet, Live, FreshPart, Reading
  <2>11. CASE UNCHANGED vars
    BY <1>a, <2>2, <2>11, RegionSame DEF vars, Unanswered, Quiet, Live, FreshPart, Reading
  <2>12. ~Steals /\ ~Fails /\ ~AwaitsSecond
    BY <2>2 DEF Steals, Fails, AwaitsSecond, FreshPart
  <2> QED
    BY <2>1, <2>3, <2>4, <2>5, <2>6, <2>7, <2>8, <2>9, <2>10, <2>11, <2>12, Effects
<1> QED
  BY <1>1, <1>2
-----------------------------------------------------------------------------
(* An accepted string is answered once, and the answer is the last but for *)
(* the lid's.                                                              *)

SecretClean(job) ==
    /\ Queued(FromSecret)
    /\ \A i, j \in 1 .. Len(ctl.queue) :
          i < j /\ Pending(i) \notin FromLid => Pending(j) \in FromLid
    /\ \/ ctl.fifo \in {<<>>} \cup FromSecret
       \/ /\ cpu.pc = "read" /\ cpu.reply # <<>>
          /\ ctl.fifo \in {<<8>>, <<32>>, <<64>>, <<128>>}
    /\ cpu.reply # <<>> => cpu.reply[1] \in {1, 17}
    /\ Unanswered =>
          /\ drive.stage = job - FirstSecret
          /\ Queued(FromLid)
          /\ ~Contains(cpu.reply, InvalidCommand)
          /\ ~Contains(ctl.fifo, InvalidCommand)
    /\ (\E i \in 1 .. Len(ctl.queue) : Contains(Pending(i), InvalidCommand))
          => drive.stage = job - FirstSecret + 1
    /\ Contains(ctl.fifo, InvalidCommand) =>
          /\ drive.stage = job - FirstSecret + 1
          /\ Queued(FromLid)
    /\ Contains(cpu.reply, InvalidCommand) =>
          /\ drive.stage = job - FirstSecret + 1
          /\ Queued(FromLid)
          /\ ctl.fifo \in {<<>>, <<8>>} \cup FromLid

LEMMA LidNeverAccepts ==
    /\ ~Contains(LidBytes, InvalidCommand) /\ ~Contains(<<>>, InvalidCommand)
    /\ \A bytes \in FromLid : ~Contains(bytes, InvalidCommand)
<1>1. ~Contains(LidBytes, InvalidCommand)
  BY ByteFacts
<1>2. ~Contains(<<>>, InvalidCommand)
  BY DEF Contains
<1> QED
  BY <1>1, <1>2, ByteFacts

LEMMA FromSecretBytes ==
    \A bytes \in FromSecret :
        /\ bytes # <<>> /\ bytes # <<8>> /\ bytes = <<bytes[1], bytes[2]>> /\ Len(bytes) = 2
        /\ bytes[1] \in {1, 17} /\ bytes[2] \in {8, 32, 64, 128}
        /\ Tail(bytes) = <<bytes[2]>>
        /\ Contains(bytes, bytes[2])
<1>1. SUFFICES ASSUME NEW bytes \in Verdicts \cup {LidBytes}
               PROVE  /\ bytes # <<>> /\ bytes # <<8>> /\ bytes = <<bytes[1], bytes[2]>> /\ Len(bytes) = 2
                      /\ bytes[1] \in {1, 17} /\ bytes[2] \in {8, 32, 64, 128}
                      /\ Tail(bytes) = <<bytes[2]>>
                      /\ Contains(bytes, bytes[2])
  BY ByteFacts DEF FromSecret
<1>2. /\ bytes = <<bytes[1], bytes[2]>> /\ Len(bytes) = 2
      /\ bytes[1] \in {1, 17} /\ bytes[2] \in {8, 32, 64, 128}
      /\ Contains(bytes, bytes[2])
  BY ByteFacts
<1>3. bytes # <<>> /\ bytes # <<8>>
  BY <1>2
<1>4. Tail(bytes) = <<bytes[2]>>
  <2>1. PICK a \in {1, 17}, b \in {8, 32, 64, 128} : bytes = <<a, b>>
    BY <1>2
  <2> QED
    BY <2>1
<1> QED
  BY <1>2, <1>3, <1>4

LEMMA LastByte ==
    \A bytes \in {<<8>>, <<32>>, <<64>>, <<128>>} :
        Tail(bytes) = <<>> /\ Contains(bytes, bytes[1])
<1> TAKE bytes \in {<<8>>, <<32>>, <<64>>, <<128>>}
<1>1. CASE bytes = <<8>>
  BY <1>1 DEF Contains
<1>2. CASE bytes = <<32>>
  BY <1>2 DEF Contains
<1>3. CASE bytes = <<64>>
  BY <1>3 DEF Contains
<1>4. CASE bytes = <<128>>
  BY <1>4 DEF Contains
<1> QED
  BY <1>1, <1>2, <1>3, <1>4

(* The same as long as neither replies nor the reading of one change.      *)
LEMMA SecretSame ==
    ASSUME TypePart, NEW job, SecretClean(job),
           ctl'.queue = ctl.queue, ctl'.fifo = ctl.fifo, cpu'.reply = cpu.reply,
           FromSecret \subseteq FromSecret', FromLid \subseteq FromLid',
           cpu'.pc = cpu.pc \/ cpu.pc # "read" \/ ctl.fifo = <<>>,
           drive'.stage = drive.stage,
           Unanswered' => Unanswered
    PROVE  SecretClean(job)'
<1>1. Queued(FromSecret)' /\ (Queued(FromLid) => Queued(FromLid)')
  BY DEF SecretClean, Queued, Pending
<1>2. \A i, j \in 1 .. Len(ctl'.queue) :
         i < j /\ Pending(i)' \notin FromLid' => Pending(j)' \in FromLid'
  BY DEF SecretClean, Pending
<1>3. (\/ ctl.fifo \in {<<>>} \cup FromSecret
       \/ /\ cpu.pc = "read" /\ cpu.reply # <<>>
          /\ ctl.fifo \in {<<8>>, <<32>>, <<64>>, <<128>>})'
  BY DEF SecretClean
<1>4. (cpu.reply # <<>> => cpu.reply[1] \in {1, 17})'
  BY DEF SecretClean
<1>5. (Unanswered =>
          /\ drive.stage = job - FirstSecret
          /\ Queued(FromLid)
          /\ ~Contains(cpu.reply, InvalidCommand)
          /\ ~Contains(ctl.fifo, InvalidCommand))'
  BY <1>1 DEF SecretClean, Contains
<1>6. ((\E i \in 1 .. Len(ctl.queue) : Contains(Pending(i), InvalidCommand))
          => drive.stage = job - FirstSecret + 1)'
  BY DEF SecretClean, Contains, Pending
<1>7. (Contains(ctl.fifo, InvalidCommand) =>
          /\ drive.stage = job - FirstSecret + 1
          /\ Queued(FromLid))'
  BY <1>1 DEF SecretClean, Contains
<1>8. (Contains(cpu.reply, InvalidCommand) =>
          /\ drive.stage = job - FirstSecret + 1
          /\ Queued(FromLid)
          /\ ctl.fifo \in {<<>>, <<8>>} \cup FromLid)'
  BY <1>1 DEF SecretClean, Contains
<1> QED
  BY <1>1, <1>2, <1>3, <1>4, <1>5, <1>6, <1>7, <1>8 DEF SecretClean

LEMMA SecretRead ==
    ASSUME TypePart, FreshPart, NEW job, SecretClean(job), Reads
    PROVE  SecretClean(job)'
<1>1. /\ cpu.pc = "read" /\ cpu'.pc = "read" /\ ctl.fifo # <<>> /\ drive' = drive
      /\ SamePipe /\ ctl'.queue = ctl.queue /\ ctl'.fifo = Tail(ctl.fifo)
  BY DEF Reads
<1>2. /\ cpu'.reply # <<>>
      /\ cpu'.reply[1] = IF cpu.reply = <<>> THEN ctl.fifo[1] ELSE cpu.reply[1]
      /\ \A b : Contains(cpu'.reply, b) <=> Contains(cpu.reply, b) \/ b = ctl.fifo[1]
  BY ReadEffect
<1>3. FromSecret' = FromSecret /\ FromLid' = FromLid /\ Unanswered' = Unanswered
  BY <1>1 DEF FromSecret, FromLid, Verdicts, Refusals, LidBytes, Unanswered, Quiet, SamePipe, Writing
<1>4. Queued(FromSecret)' = Queued(FromSecret) /\ Queued(FromLid)' = Queued(FromLid)
      /\ \A i \in 1 .. Len(ctl'.queue) : Pending(i)' = Pending(i)
  BY <1>1, <1>3 DEF Queued, Pending
<1> USE DEF SecretClean
<1>8. SUFFICES /\ ctl'.fifo \in {<<>>, <<8>>, <<32>>, <<64>>, <<128>>}
               /\ cpu'.reply[1] \in {1, 17}
               /\ Contains(ctl'.fifo, InvalidCommand) => Contains(ctl.fifo, InvalidCommand)
               /\ Contains(cpu'.reply, InvalidCommand) =>
                     /\ Contains(cpu.reply, InvalidCommand) \/ Contains(ctl.fifo, InvalidCommand)
                     /\ ctl'.fifo \in {<<>>, <<8>>}
  <2>1. (/\ Queued(FromSecret)
         /\ \A i, j \in 1 .. Len(ctl.queue) :
               i < j /\ Pending(i) \notin FromLid => Pending(j) \in FromLid)'
    BY <1>1, <1>3, <1>4
  <2>2. (\/ ctl.fifo \in {<<>>} \cup FromSecret
         \/ /\ cpu.pc = "read" /\ cpu.reply # <<>>
            /\ ctl.fifo \in {<<8>>, <<32>>, <<64>>, <<128>>})'
    BY <1>1, <1>2, <1>8
  <2>3. (Unanswered =>
          /\ drive.stage = job - FirstSecret
          /\ Queued(FromLid)
          /\ ~Contains(cpu.reply, InvalidCommand)
          /\ ~Contains(ctl.fifo, InvalidCommand))'
    BY <1>1, <1>3, <1>4, <1>8 DEF Contains
  <2>4. ((\E i \in 1 .. Len(ctl.queue) : Contains(Pending(i), InvalidCommand))
          => drive.stage = job - FirstSecret + 1)'
    BY <1>1 DEF Contains, Pending
  <2>5. (Contains(ctl.fifo, InvalidCommand) =>
          /\ drive.stage = job - FirstSecret + 1
          /\ Queued(FromLid))'
    BY <1>1, <1>4, <1>8 DEF Contains
  <2>6. (Contains(cpu.reply, InvalidCommand) =>
          /\ drive.stage = job - FirstSecret + 1
          /\ Queued(FromLid)
          /\ ctl.fifo \in {<<>>, <<8>>} \cup FromLid)'
    BY <1>1, <1>4, <1>8 DEF Contains
  <2> QED
    BY <1>8, <2>1, <2>2, <2>3, <2>4, <2>5, <2>6
(* The FIFO held a whole reply, or the last byte of one.                   *)
<1>5. \/ ctl.fifo \in FromSecret
      \/ cpu.reply # <<>> /\ ctl.fifo \in {<<8>>, <<32>>, <<64>>, <<128>>}
  BY <1>1
<1>6. CASE ctl.fifo \in FromSecret
  <2>1. /\ ctl'.fifo = <<ctl.fifo[2]>> /\ ctl.fifo[2] \in {8, 32, 64, 128}
        /\ ctl.fifo[1] \in {1, 17} /\ Contains(ctl.fifo, ctl.fifo[2])
    BY <1>1, <1>6, FromSecretBytes
  <2>2. ctl'.fifo \in {<<8>>, <<32>>, <<64>>, <<128>>}
    BY <2>1
  <2>3. cpu'.reply[1] \in {1, 17}
    BY <1>2, <2>1
  <2>4. Contains(ctl'.fifo, InvalidCommand) => Contains(ctl.fifo, InvalidCommand)
    BY <2>1 DEF Contains
  <2>5. Contains(cpu'.reply, InvalidCommand) => Contains(cpu.reply, InvalidCommand)
    BY <1>2, <2>1
  <2>6. Contains(cpu'.reply, InvalidCommand) => ctl'.fifo = <<8>>
    <3>1. SUFFICES ASSUME Contains(cpu'.reply, InvalidCommand) PROVE ctl'.fifo = <<8>>
      OBVIOUS
    <3>2. ctl.fifo \in {<<>>, <<8>>} \cup FromLid
      BY <2>5, <3>1
    <3>3. ctl.fifo = LidBytes
      <4>1. ctl.fifo # <<>> /\ ctl.fifo # <<8>>
        BY <1>6, FromSecretBytes
      <4>2. ctl.fifo \in FromLid
        BY <3>2, <4>1
      <4> QED
        BY <4>2, ByteFacts
    <3> QED
      BY <2>1, <3>3, ByteFacts
  <2> QED
    BY <2>2, <2>3, <2>4, <2>5, <2>6
<1>7. CASE cpu.reply # <<>> /\ ctl.fifo \in {<<8>>, <<32>>, <<64>>, <<128>>}
  <2>1. ctl'.fifo = <<>> /\ Contains(ctl.fifo, ctl.fifo[1])
    BY <1>1, <1>7, LastByte
  <2>2. ~Contains(ctl'.fifo, InvalidCommand)
    BY <2>1, LidNeverAccepts
  <2>3. Contains(cpu'.reply, InvalidCommand) =>
           Contains(cpu.reply, InvalidCommand) \/ Contains(ctl.fifo, InvalidCommand)
    BY <1>2, <2>1
  <2>4. cpu'.reply[1] \in {1, 17}
    BY <1>2, <1>7
  <2> QED
    BY <2>1, <2>2, <2>3, <2>4
<1> QED
  BY <1>5, <1>6, <1>7

LEMMA SecretPresented ==
    ASSUME TypePart, FreshPart, NEW job, SecretClean(job), Presents
    PROVE  SecretClean(job)'
<1>1. /\ cpu' = cpu /\ drive' = drive /\ SamePipe
      /\ Len(ctl'.queue) = Len(ctl.queue) - 1 /\ Len(ctl.queue) >= 1 /\ Len(ctl.queue) \in Nat
      /\ ctl'.fifo = Pending(1)
      /\ \A i \in 1 .. Len(ctl'.queue) : ctl'.queue[i] = ctl.queue[i + 1]
  <2>1. Len(ctl.queue) \in Nat /\ (ctl.queue # <<>> => Len(ctl.queue) >= 1)
    BY DEF TypePart, Ctls
  <2> QED
    BY <2>1 DEF Presents
<1>2. FromSecret' = FromSecret /\ FromLid' = FromLid /\ Unanswered' = Unanswered
  BY <1>1 DEF FromSecret, FromLid, Verdicts, Refusals, LidBytes, Unanswered, Quiet, SamePipe, Writing
<1>3. 1 \in 1 .. Len(ctl.queue)
      /\ \A i \in 1 .. Len(ctl'.queue) :
            i + 1 \in 1 .. Len(ctl.queue) /\ 1 < i + 1 /\ Pending(i)' = Pending(i + 1)
  BY <1>1 DEF Pending
<1>4. /\ Queued(FromSecret) => Queued(FromSecret)'
      /\ Queued(FromLid) => Queued(FromLid)' /\ ctl'.fifo \in FromLid
  BY <1>1, <1>2, <1>3 DEF Queued
<1>5. \A i, j \in 1 .. Len(ctl'.queue) :
         i < j /\ Pending(i)' \notin FromLid' => Pending(j)' \in FromLid'
  <2>1. SUFFICES ASSUME NEW i \in 1 .. Len(ctl'.queue), NEW j \in 1 .. Len(ctl'.queue),
                        i < j, Pending(i)' \notin FromLid'
                 PROVE  Pending(j)' \in FromLid'
    OBVIOUS
  <2>2. /\ i + 1 \in 1 .. Len(ctl.queue) /\ j + 1 \in 1 .. Len(ctl.queue) /\ i + 1 < j + 1
        /\ Pending(i + 1) \notin FromLid /\ Pending(j)' = Pending(j + 1)
    BY <1>1, <1>2, <1>3, <2>1
  <2> QED
    BY <1>2, <2>2 DEF SecretClean
<1>6. ctl'.fifo \in FromSecret'
  BY <1>1, <1>2, <1>3 DEF SecretClean, Queued
<1>7. (Unanswered =>
          /\ drive.stage = job - FirstSecret
          /\ Queued(FromLid)
          /\ ~Contains(cpu.reply, InvalidCommand)
          /\ ~Contains(ctl.fifo, InvalidCommand))'
  <2>1. SUFFICES ASSUME Unanswered
                 PROVE  /\ drive'.stage = job - FirstSecret
                        /\ Queued(FromLid)'
                        /\ ~Contains(cpu'.reply, InvalidCommand)
                        /\ ~Contains(ctl'.fifo, InvalidCommand)
    BY <1>2 DEF Contains
  <2>2. /\ drive.stage = job - FirstSecret /\ Queued(FromLid)
        /\ ~Contains(cpu.reply, InvalidCommand)
    BY <2>1 DEF SecretClean
  <2> QED
    BY <1>1, <1>4, <2>2, LidNeverAccepts
<1>8. (\E i \in 1 .. Len(ctl.queue) : Contains(Pending(i), InvalidCommand))
          => drive.stage = job - FirstSecret + 1
  BY DEF SecretClean
<1>9. (\E i \in 1 .. Len(ctl'.queue) : Contains(Pending(i)', InvalidCommand))
          => drive'.stage = job - FirstSecret + 1
  BY <1>1, <1>3, <1>8
<1>10. Contains(ctl'.fifo, InvalidCommand) =>
          /\ drive'.stage = job - FirstSecret + 1
          /\ Queued(FromLid)'
  <2>1. SUFFICES ASSUME Contains(Pending(1), InvalidCommand)
                 PROVE  drive'.stage = job - FirstSecret + 1 /\ Queued(FromLid)'
    BY <1>1
  <2>2. Pending(1) \notin FromLid
    BY <2>1, LidNeverAccepts
  <2>3. drive.stage = job - FirstSecret + 1
    BY <1>3, <1>8, <2>1
  <2>4. \A i \in 1 .. Len(ctl'.queue) : Pending(i + 1) \in FromLid
    BY <1>3, <2>2 DEF SecretClean
  <2> QED
    BY <1>1, <1>2, <1>3, <2>3, <2>4 DEF Queued
<1>11. Contains(cpu'.reply, InvalidCommand) =>
          /\ drive'.stage = job - FirstSecret + 1
          /\ Queued(FromLid)'
          /\ ctl'.fifo \in {<<>>, <<8>>} \cup FromLid'
  BY <1>1, <1>2, <1>4 DEF SecretClean
<1>12. cpu'.reply # <<>> => cpu'.reply[1] \in {1, 17}
  BY <1>1 DEF SecretClean
<1>13. Queued(FromSecret)'
  BY <1>4 DEF SecretClean
<1> QED
  BY <1>5, <1>6, <1>7, <1>9, <1>10, <1>11, <1>12, <1>13 DEF SecretClean, Contains

(* The drive answers the string it has been told.                          *)
LEMMA SecretAnswered ==
    ASSUME TypePart, NEW job \in SecretJobs, SecretClean(job), RequestPart,
           AnswersSomething, cpu.job = job, drive.region \in Regions,
           FromLid \subseteq FromLid', FromSecret \subseteq FromSecret'
    PROVE  SecretClean(job)'
<1>1. /\ ctl.exec # NoRequest /\ cpu' = cpu /\ ctl'.exec = NoRequest /\ ctl'.busy = ctl.busy
      /\ ctl'.fifo = ctl.fifo
  BY DEF AnswersSomething, AnswersStatus, AnswersText, AnswersSecret,
              AnswersGetstat, Refuses, Answers
<1>2. ctl.exec.op = CmdSecret + (job - FirstSecret)
  BY <1>1, RequestFacts DEF RequestPart
<1>3. AnswersSecret \/ Refuses
  <2>1. ctl.exec.op \notin {CmdInit, CmdTest, CmdGetstat}
    BY <1>2 DEF SecretJobs
  <2> QED
    BY <2>1 DEF AnswersSomething, AnswersStatus, AnswersText, AnswersGetstat
<1>4. /\ drive.stage = job - FirstSecret /\ Queued(FromLid)
      /\ ~Contains(cpu.reply, InvalidCommand) /\ ~Contains(ctl.fifo, InvalidCommand)
  BY <1>1 DEF SecretClean, Unanswered, Quiet
<1>5. ~Unanswered'
  BY <1>1 DEF Unanswered, Quiet, Writing, RequestPart
<1>6. PICK new : /\ Answers(new, 1) /\ new \subseteq Verdicts
                 /\ \/ drive'.stage = job - FirstSecret + 1
                    \/ \A bytes \in new : ~Contains(bytes, InvalidCommand)
  <2>1. CASE Refuses
    <3>1. \A bytes \in Refusals : ~Contains(bytes, InvalidCommand)
      BY DEF Refusals, Contains
    <3> QED
      BY <2>1, <3>1, ByteFacts DEF Refuses
  <2>2. CASE Answers({<<1, 64>>, <<17, 64>>}, 1) /\ drive' = [drive EXCEPT !.stage = @ + 1]
    <3>1. drive'.stage = job - FirstSecret + 1
      BY <1>4, <2>2 DEF TypePart, Drives
    <3>2. {<<1, 64>>, <<17, 64>>} \subseteq Verdicts
      BY DEF Verdicts
    <3> QED
      BY <2>2, <3>1, <3>2
  <2>3. CASE Answers({<<1, 32>>, <<17, 32>>}, 1)
    <3>1. \A bytes \in {<<1, 32>>, <<17, 32>>} : ~Contains(bytes, InvalidCommand)
      BY DEF Contains
    <3>2. {<<1, 32>>, <<17, 32>>} \subseteq Verdicts
      BY DEF Verdicts
    <3> QED
      BY <2>3, <3>1, <3>2
  <2> QED
    BY <1>3, <2>1, <2>2, <2>3 DEF AnswersSecret
<1>7. /\ Len(ctl'.queue) = Len(ctl.queue) + 1 /\ Len(ctl.queue) \in Nat
      /\ \A i \in 1 .. Len(ctl.queue) : Pending(i)' = Pending(i)
      /\ \A i \in 1 .. Len(ctl'.queue) :
            i \in 1 .. Len(ctl.queue) \/ (i = Len(ctl.queue) + 1 /\ Pending(i)' \in new)
  <2>1. \A i : i = Len(ctl.queue) + 1 => Pending(i)' \in new
    BY <1>6, OneAnswered DEF Pending
  <2> QED
    BY <1>6, <2>1, OneAnswered
<1>8. \A i \in 1 .. Len(ctl'.queue) : Pending(i)' \in FromLid \/ Pending(i)' \in new
  BY <1>4, <1>7 DEF Queued
<1>9. Queued(FromSecret)'
  BY <1>6, <1>8 DEF Queued, FromSecret
<1>10. \A i, j \in 1 .. Len(ctl'.queue) :
         i < j /\ Pending(i)' \notin FromLid' => Pending(j)' \in FromLid'
  <2>1. SUFFICES ASSUME NEW i \in 1 .. Len(ctl'.queue), NEW j \in 1 .. Len(ctl'.queue), i < j
                 PROVE  Pending(i)' \in FromLid'
    OBVIOUS
  <2>2. i \in 1 .. Len(ctl.queue)
    BY <1>7, <2>1
  <2> QED
    BY <1>4, <1>7, <2>2 DEF Queued
<1>11. (\E i \in 1 .. Len(ctl'.queue) : Contains(Pending(i)', InvalidCommand))
          => drive'.stage = job - FirstSecret + 1
  BY <1>6, <1>8, LidNeverAccepts
<1>12. ~Contains(cpu'.reply, InvalidCommand) /\ ~Contains(ctl'.fifo, InvalidCommand)
  BY <1>1, <1>4
<1>13. /\ \/ ctl'.fifo \in {<<>>} \cup FromSecret'
          \/ /\ cpu'.pc = "read" /\ cpu'.reply # <<>>
             /\ ctl'.fifo \in {<<8>>, <<32>>, <<64>>, <<128>>}
       /\ cpu'.reply # <<>> => cpu'.reply[1] \in {1, 17}
  BY <1>1 DEF SecretClean
<1> QED
  BY <1>5, <1>9, <1>10, <1>11, <1>12, <1>13 DEF SecretClean, Contains

LEMMA SecretOpened ==
    ASSUME TypePart, NEW job, SecretClean(job), Opens,
           FromLid \subseteq FromLid', FromSecret \subseteq FromSecret', LidBytes \in FromLid'
    PROVE  SecretClean(job)'
<1>1. /\ cpu' = cpu /\ ctl'.fifo = ctl.fifo /\ SamePipe /\ drive'.stage = drive.stage
      /\ \A i \in 1 .. Len(ctl.queue) : Pending(i)' = Pending(i)
  BY DEF Opens, Pending
<1>2. /\ Len(ctl.queue) \in Nat
      /\ \A i \in 1 .. Len(ctl'.queue) :
         i \in 1 .. Len(ctl.queue) \/ (i = Len(ctl.queue) + 1 /\ Pending(i)' = LidBytes)
  BY OneOpened
<1>3. LidBytes \in FromSecret'
  BY DEF FromSecret
<1>4. Queued(FromSecret)' /\ (Queued(FromLid) => Queued(FromLid)')
  BY <1>1, <1>2, <1>3 DEF Queued, SecretClean
<1>5. \A i, j \in 1 .. Len(ctl'.queue) :
         i < j /\ Pending(i)' \notin FromLid' => Pending(j)' \in FromLid'
  <2>1. SUFFICES ASSUME NEW i \in 1 .. Len(ctl'.queue), NEW j \in 1 .. Len(ctl'.queue),
                        i < j, Pending(i)' \notin FromLid'
                 PROVE  Pending(j)' \in FromLid'
    OBVIOUS
  <2>2. i \in 1 .. Len(ctl.queue) /\ Pending(i) \notin FromLid
    BY <1>1, <1>2, <2>1
  <2>3. CASE j \in 1 .. Len(ctl.queue)
    BY <1>1, <2>1, <2>2, <2>3 DEF SecretClean
  <2>4. CASE Pending(j)' = LidBytes
    BY <2>4
  <2> QED
    BY <1>2, <2>3, <2>4
<1>6. (\E i \in 1 .. Len(ctl'.queue) : Contains(Pending(i)', InvalidCommand))
          => drive'.stage = job - FirstSecret + 1
  <2>1. (\E i \in 1 .. Len(ctl.queue) : Contains(Pending(i), InvalidCommand))
          => drive.stage = job - FirstSecret + 1
    BY DEF SecretClean
  <2> QED
    BY <1>1, <1>2, <2>1, LidNeverAccepts
<1>7. Unanswered' = Unanswered
  BY <1>1 DEF Unanswered, Quiet, SamePipe
<1>8. (Unanswered =>
          /\ drive.stage = job - FirstSecret
          /\ Queued(FromLid)
          /\ ~Contains(cpu.reply, InvalidCommand)
          /\ ~Contains(ctl.fifo, InvalidCommand))'
  BY <1>1, <1>4, <1>7 DEF SecretClean, Contains
<1>9. (/\ Contains(ctl.fifo, InvalidCommand) =>
          /\ drive.stage = job - FirstSecret + 1
          /\ Queued(FromLid)
       /\ Contains(cpu.reply, InvalidCommand) =>
          /\ drive.stage = job - FirstSecret + 1
          /\ Queued(FromLid)
          /\ ctl.fifo \in {<<>>, <<8>>} \cup FromLid)'
  BY <1>1, <1>4 DEF SecretClean, Contains
<1>10. /\ \/ ctl'.fifo \in {<<>>} \cup FromSecret'
          \/ /\ cpu'.pc = "read" /\ cpu'.reply # <<>>
             /\ ctl'.fifo \in {<<8>>, <<32>>, <<64>>, <<128>>}
       /\ cpu'.reply # <<>> => cpu'.reply[1] \in {1, 17}
  BY <1>1 DEF SecretClean
<1> QED
  BY <1>4, <1>5, <1>6, <1>8, <1>9, <1>10 DEF SecretClean, Contains

(* What is left in the FIFO when a job ends.                               *)
LEMMA RegionLeaves ==
    ASSUME TypePart, RegionPart, RegionDone, drive.region \in Regions
    PROVE  ctl.fifo \in {<<>>} \cup FromLid
<1>1. /\ cpu.reply # <<>> /\ cpu.reply[1] = 102 /\ ~Contains(cpu.reply, 8)
      /\ cpu.pc = "judge" /\ cpu.job = RegionJob
  BY KnownText DEF RegionDone
<1>2. (BeingRead(Text) \/ Spoilt) /\ ctl.fifo \in {<<>>} \cup FromInit \cup {Text}
  BY <1>1 DEF RegionPart
<1>3. ctl.fifo = <<>> \/ ctl.fifo = LidBytes
  BY <1>1, <1>2 DEF BeingRead, Spoilt
<1>4. LidBytes \notin Stats \cup Refusals
  <2>1. Len(LidBytes) = 2 /\ LidBytes[2] = 8
    BY ByteFacts
  <2> QED
    BY <2>1, ByteFacts
<1>5. LidBytes # <<>>
  BY DEF LidBytes
<1> QED
  BY <1>2, <1>3, <1>4, <1>5, TextIsNoOther DEF FromInit

LEMMA SecretLeaves ==
    ASSUME TypePart, SecretPart, SecretDone
    PROVE  ctl.fifo \in {<<>>} \cup FromLid
<1>1. ctl.fifo \in {<<>>, <<8>>} \cup FromLid
  BY SecretConclusion
<1>2. ctl.fifo \in {<<>>} \cup FromSecret
  BY DEF SecretPart, SecretDone
<1> QED
  BY <1>1, <1>2, FromSecretBytes

(* A job of this kind begins with nothing accepted that is not accounted   *)
(* for.                                                                    *)
LEMMA SecretBegins ==
    ASSUME TypePart, NEW job, cpu'.reply = <<>>, ctl' = ctl, drive' = drive,
           Queued(FromLid), ctl.fifo \in {<<>>} \cup FromLid,
           drive.stage = job - FirstSecret
    PROVE  SecretClean(job)'
<1>1. FromSecret' = FromSecret /\ FromLid' = FromLid /\ FromLid \subseteq FromSecret
  BY DEF FromSecret, FromLid, Verdicts, Refusals, LidBytes
<1>2. ~Contains(ctl.fifo, InvalidCommand) /\ ~Contains(<<>>, InvalidCommand)
  BY LidNeverAccepts
<1>3. \A i \in 1 .. Len(ctl'.queue) : Pending(i)' \in FromLid /\ ~Contains(Pending(i)', InvalidCommand)
  BY LidNeverAccepts DEF Queued, Pending
<1> QED
  BY <1>1, <1>2, <1>3 DEF SecretClean, Queued, Contains

LEMMA SecretStep ==
    ASSUME TypePart, FreshPart, RequestPart, RegionPart, SecretPart, [Next]_vars
    PROVE  SecretPart'
<1> SUFFICES ASSUME cpu'.job \in SecretJobs, cpu'.pc # "failed"
             PROVE  \E job \in SecretJobs : job = cpu'.job /\ SecretClean(job)'
  BY DEF SecretPart, SecretClean
<1>a. /\ FromSecret \subseteq FromSecret' /\ FromLid \subseteq FromLid'
      /\ (Opens => LidBytes \in FromLid')
  BY SetsGrow
<1>b. cpu.job \in Jobs /\ drive.region \in Regions /\ cpu.pc # "failed"
  BY RegionStays, FailedStays DEF TypePart, Cpus
<1>1. CASE RegionDone
  <2>1. cpu'.job = FirstSecret /\ cpu'.reply = <<>> /\ ctl' = ctl /\ drive' = drive
        /\ cpu.job = RegionJob
    BY <1>1 DEF RegionDone, Begins
  <2>2. Queued(FromLid) /\ ctl.fifo \in {<<>>} \cup FromLid
    BY <1>1, <1>b, RegionConclusion, RegionLeaves
  <2>3. drive.stage = FirstSecret - FirstSecret
    BY <2>1 DEF RequestPart
  <2> QED
    BY <2>1, <2>2, <2>3, SecretBegins
<1>2. CASE SecretDone
  <2>1. cpu'.job = cpu.job + 1 /\ cpu'.reply = <<>> /\ ctl' = ctl /\ drive' = drive
        /\ cpu.job \in Int
    BY <1>2 DEF SecretDone, Begins, SecretJobs
  <2>2. Queued(FromLid) /\ ctl.fifo \in {<<>>} \cup FromLid
    BY <1>2, SecretConclusion, SecretLeaves
  <2>3. drive.stage = (cpu.job + 1) - FirstSecret
    BY <1>2, <2>1, SecretConclusion
  <2>4. PICK job \in SecretJobs : job = cpu.job + 1
    BY <2>1
  <2> QED
    BY <2>1, <2>2, <2>3, <2>4, SecretBegins
<1>3. CASE ~RegionDone /\ ~SecretDone
  <2>1. ~Judges
    BY <1>b, <1>3 DEF Judges, InitDone, LidDone, Begins, SecretJobs, LidJobs
  <2>2. PICK job \in SecretJobs : job = cpu.job /\ job = cpu'.job
    BY <2>1, JobStep
  <2>3. SecretClean(job)
    BY <1>b, <2>2 DEF SecretPart, SecretClean
  <2> SUFFICES SecretClean(job)'
    BY <2>2
  <2>4. CASE Prepares \/ Commands \/ Awaits \/ Acknowledges \/ StartsReading
    <3>1. Waits
      BY <2>4, Waiting
    <3> QED
      BY <1>a, <2>3, <3>1, SecretSame DEF Waits, SameReplies, Reading
  <2>5. CASE Reads
    BY <2>3, <2>5, SecretRead
  <2>6. CASE ReadsAll
    BY <1>a, <2>3, <2>6, SecretSame DEF ReadsAll, Unanswered, Quiet, Writing
  <2>7. CASE Takes
    BY <1>a, <2>3, <2>7, SecretSame DEF Takes, SameReplies, Unanswered, Quiet
  <2>8. CASE AnswersSomething
    BY <1>a, <1>b, <2>2, <2>3, <2>8, SecretAnswered
  <2>9. CASE Presents
    BY <2>3, <2>9, SecretPresented
  <2>10. CASE Opens
    BY <1>a, <2>3, <2>10, SecretOpened
  <2>11. CASE Closes
    BY <1>a, <2>3, <2>11, SecretSame DEF Closes, Unanswered, Quiet
  <2>12. CASE UNCHANGED vars
    BY <1>a, <2>3, <2>12, SecretSame DEF vars, Unanswered, Quiet
  <2>13. ~Steals /\ ~Fails /\ ~AwaitsSecond
    BY <2>2 DEF Steals, Fails, AwaitsSecond, FreshPart, SecretJobs
  <2> QED
    BY <2>1, <2>4, <2>5, <2>6, <2>7, <2>8, <2>9, <2>10, <2>11, <2>12, <2>13, Effects
<1> QED
  BY <1>1, <1>2, <1>3
-----------------------------------------------------------------------------
(* No status from before the opening is behind one from after it.          *)

NoneShut == \A i \in 1 .. Len(ctl.queue) : Pending(i) # <<0>>

(* The polls: the replies that can be there, before the lid is opened,     *)
(* while it is open, and in the wait for its closing.                      *)
LidClean(job) ==
    /\ drive.stage = 7
    /\ Queued(Stats \cup FromLid)
    /\ \/ ctl.fifo \in {<<>>} \cup Stats \cup FromLid
       \/ cpu.pc = "read" /\ cpu.reply # <<>> /\ ctl.fifo = <<8>>
    /\ cpu.reply # <<>> => cpu.reply[1] \in {0, 16, 17}
    /\ drive.cycle = "none" =>
          /\ Queued({<<0>>})
          /\ ctl.fifo \in {<<>>, <<0>>}
          /\ cpu.reply # <<>> => cpu.reply[1] = 0
    /\ drive.cycle = "opened" =>
          /\ \A i, j \in 1 .. Len(ctl.queue) :
                i < j /\ Pending(i) # <<0>> => Pending(j) # <<0>>
          /\ ctl.fifo \in {<<16>>, LidBytes} => NoneShut
          /\ cpu.reply # <<>> /\ cpu.reply[1] # 0 => ctl.fifo # <<0>> /\ NoneShut
    /\ job >= ShutJob =>
          /\ drive.cycle # "none"
          /\ drive.cycle = "opened" =>
                /\ job = ShutJob
                /\ NoneShut
                /\ ctl.fifo # <<0>>
                /\ cpu.reply # <<>> => cpu.reply[1] # 0

LatchPart ==
    /\ drive.cycle = "none" => ~drive.latch /\ drive.lid = "closed"
    /\ drive.cycle = "opened" => drive.latch /\ drive.lid = "open"

LEMMA LidParts ==
    ASSUME TypePart
    PROVE  LidPart <=> LatchPart /\ (cpu.job >= OpenJob => LidClean(cpu.job))
BY DEF LidPart, LatchPart, LidClean, NoneShut, TypePart, Cpus, Jobs

LEMMA LidStatus ==
    /\ \A bytes \in Stats \cup {LidBytes} :
          /\ bytes # <<>> /\ bytes # <<8>> /\ bytes[1] \in {0, 16, 17}
          /\ bytes # <<0>> <=> bytes \in {<<16>>, LidBytes}
          /\ bytes # <<0>> <=> bytes[1] # 0
          /\ Tail(bytes) \in {<<>>, <<8>>}
          /\ bytes # LidBytes => Tail(bytes) = <<>>
          /\ LidBit(bytes[1]) <=> bytes # <<0>>
    /\ Tail(<<8>>) = <<>>
    /\ <<>> # <<0>> /\ <<8>> # <<0>> /\ <<>> # <<16>> /\ <<8>> # <<16>>
    /\ <<>> # LidBytes /\ <<8>> # LidBytes
<1>1. ASSUME NEW bytes, bytes = << 0 >>
      PROVE  /\ bytes # <<>> /\ bytes # <<8>> /\ bytes[1] = 0
             /\ bytes # <<16>> /\ bytes # LidBytes /\ Tail(bytes) = <<>>
             /\ ~LidBit(bytes[1])
  BY <1>1 DEF LidBytes, LidBit
<1>2. ASSUME NEW bytes, bytes = << 16 >>
      PROVE  /\ bytes # <<>> /\ bytes # <<8>> /\ bytes[1] = 16
             /\ bytes # <<0>> /\ bytes # LidBytes /\ Tail(bytes) = <<>>
             /\ LidBit(bytes[1])
  BY <1>2 DEF LidBytes, LidBit
<1>3. ASSUME NEW bytes, bytes = LidBytes
      PROVE  /\ bytes # <<>> /\ bytes # <<8>> /\ bytes[1] = 17
             /\ bytes # <<0>> /\ Tail(bytes) = <<8>>
             /\ LidBit(bytes[1])
  BY <1>3 DEF LidBytes, LidBit
<1>4. ASSUME NEW bytes \in Stats \cup {LidBytes}
      PROVE  /\ bytes # <<>> /\ bytes # <<8>> /\ bytes[1] \in {0, 16, 17}
             /\ bytes # <<0>> <=> bytes \in {<<16>>, LidBytes}
             /\ bytes # <<0>> <=> bytes[1] # 0
             /\ Tail(bytes) \in {<<>>, <<8>>}
             /\ bytes # LidBytes => Tail(bytes) = <<>>
             /\ LidBit(bytes[1]) <=> bytes # <<0>>
  <2>1. bytes = <<0>> \/ bytes = <<16>> \/ bytes = LidBytes
    BY <1>4 DEF Stats
  <2>2. CASE bytes = <<0>>
    BY <2>2, <1>1
  <2>3. CASE bytes = <<16>>
    BY <2>3, <1>2
  <2>4. CASE bytes = LidBytes
    BY <2>4, <1>3
  <2> QED
    BY <2>1, <2>2, <2>3, <2>4
<1>5. /\ Tail(<<8>>) = <<>>
      /\ <<>> # <<0>> /\ <<8>> # <<0>> /\ <<>> # <<16>> /\ <<8>> # <<16>>
      /\ <<>> # LidBytes /\ <<8>> # LidBytes
  BY DEF LidBytes
<1> QED
  BY <1>4, <1>5

LEMMA LatchStep ==
    ASSUME TypePart, FreshPart, LatchPart, [Next]_vars
    PROVE  LatchPart'
<1>1. drive \in Drives
  BY DEF TypePart
<1>2. CASE drive' = drive
  BY <1>2 DEF LatchPart
<1>3. CASE AnswersSecret
  BY <1>1, <1>3 DEF LatchPart, AnswersSecret, Drives
<1>4. CASE AnswersGetstat
  <2>1. /\ drive'.latch = IsOpen /\ drive'.lid = drive.lid /\ drive'.cycle = drive.cycle
    BY <1>1, <1>4 DEF AnswersGetstat, Drives
  <2> QED
    BY <2>1 DEF LatchPart, IsOpen
<1>5. CASE Opens
  BY <1>1, <1>5 DEF LatchPart, Opens, Drives
<1>6. CASE Closes
  BY <1>6 DEF LatchPart, Closes
<1>7. CASE AnswersSomething
  BY <1>2, <1>3, <1>4, <1>7 DEF AnswersSomething, AnswersStatus, AnswersText, Refuses
<1>8. Judges => drive' = drive
  BY DEF Judges, InitDone, RegionDone, SecretDone, LidDone, Begins
<1> QED
  BY <1>2, <1>5, <1>6, <1>7, <1>8, Effects
     DEF Prepares, Commands, Awaits, Acknowledges, Reads, ReadsAll, Fails, AwaitsSecond,
         StartsReading, Takes, Presents, Steals, vars

LEMMA LidSame ==
    ASSUME TypePart, NEW job, LidClean(job),
           ctl'.queue = ctl.queue, ctl'.fifo = ctl.fifo, cpu'.reply = cpu.reply,
           FromLid \subseteq FromLid', drive'.cycle \in {drive.cycle, "shut"},
           cpu'.pc = cpu.pc \/ cpu.pc # "read" \/ ctl.fifo = <<>>,
           drive'.stage = drive.stage
    PROVE  LidClean(job)'
<1>1. \A i \in 1 .. Len(ctl'.queue) : Pending(i)' = Pending(i)
  BY DEF Pending
<1>2. /\ Queued(Stats \cup FromLid)' /\ (Queued({<<0>>}) => Queued({<<0>>})')
      /\ (NoneShut <=> NoneShut')
  BY <1>1 DEF LidClean, Queued, NoneShut, Stats
<1>3. drive'.cycle # "none" \/ drive'.cycle = drive.cycle
  OBVIOUS
<1>4. drive'.cycle # "opened" \/ drive'.cycle = drive.cycle
  OBVIOUS
<1>5. (/\ \/ ctl.fifo \in {<<>>} \cup Stats \cup FromLid
          \/ cpu.pc = "read" /\ cpu.reply # <<>> /\ ctl.fifo = <<8>>
       /\ cpu.reply # <<>> => cpu.reply[1] \in {0, 16, 17})'
  BY <1>1 DEF LidClean, Stats
<1>6. (drive.cycle = "none" =>
          /\ Queued({<<0>>})
          /\ ctl.fifo \in {<<>>, <<0>>}
          /\ cpu.reply # <<>> => cpu.reply[1] = 0)'
  BY <1>2, <1>3 DEF LidClean
<1>7. (drive.cycle = "opened" =>
          /\ \A i, j \in 1 .. Len(ctl.queue) :
                i < j /\ Pending(i) # <<0>> => Pending(j) # <<0>>
          /\ ctl.fifo \in {<<16>>, LidBytes} => NoneShut
          /\ cpu.reply # <<>> /\ cpu.reply[1] # 0 => ctl.fifo # <<0>> /\ NoneShut)'
  BY <1>1, <1>2, <1>4 DEF LidClean, LidBytes
<1>8. (job >= ShutJob =>
          /\ drive.cycle # "none"
          /\ drive.cycle = "opened" =>
                /\ job = ShutJob
                /\ NoneShut
                /\ ctl.fifo # <<0>>
                /\ cpu.reply # <<>> => cpu.reply[1] # 0)'
  BY <1>2, <1>3, <1>4 DEF LidClean
<1> QED
  BY <1>2, <1>5, <1>6, <1>7, <1>8 DEF LidClean

LEMMA LidRead ==
    ASSUME TypePart, NEW job, LidClean(job), Reads
    PROVE  LidClean(job)'
<1>1. /\ cpu.pc = "read" /\ cpu'.pc = "read" /\ ctl.fifo # <<>> /\ drive' = drive
      /\ ctl'.queue = ctl.queue /\ ctl'.fifo = Tail(ctl.fifo)
  BY DEF Reads
<1>2. /\ cpu'.reply # <<>>
      /\ cpu'.reply[1] = IF cpu.reply = <<>> THEN ctl.fifo[1] ELSE cpu.reply[1]
  BY ReadEffect
<1>3. FromLid' = FromLid /\ Stats' = Stats
  BY <1>1 DEF FromLid, LidBytes, Stats
<1>4. /\ Queued(Stats \cup FromLid)' /\ (Queued({<<0>>}) => Queued({<<0>>})')
      /\ NoneShut' = NoneShut
      /\ \A i \in 1 .. Len(ctl'.queue) : Pending(i)' = Pending(i)
  BY <1>1, <1>3 DEF LidClean, Queued, NoneShut, Pending
<1>5. ctl.fifo \in Stats \cup {LidBytes} \/ (cpu.reply # <<>> /\ ctl.fifo = <<8>>)
  BY <1>1, ByteFacts DEF LidClean
<1>6. ctl'.fifo \in {<<>>, <<8>>}
  BY <1>1, <1>5, LidStatus
<1>7. ctl'.fifo # <<0>> /\ ctl'.fifo \notin {<<16>>, LidBytes}
  BY <1>6, LidStatus
<1>8. cpu.reply = <<>> => /\ ctl.fifo[1] \in {0, 16, 17}
                          /\ ctl.fifo[1] # 0 <=> ctl.fifo \in {<<16>>, LidBytes}
                          /\ ctl.fifo[1] # 0 <=> ctl.fifo # <<0>>
  BY <1>5, LidStatus
<1>9. cpu'.reply[1] \in {0, 16, 17}
  BY <1>2, <1>8 DEF LidClean
<1>10. drive.cycle = "none" => ctl'.fifo = <<>> /\ cpu'.reply[1] = 0
  <2>1. SUFFICES ASSUME drive.cycle = "none" PROVE ctl'.fifo = <<>> /\ cpu'.reply[1] = 0
    OBVIOUS
  <2>2. ctl.fifo = <<0>>
    BY <1>1, <2>1 DEF LidClean
  <2>3. ctl'.fifo = <<>> /\ ctl.fifo[1] = 0
    BY <1>1, <2>2
  <2> QED
    BY <1>2, <2>1, <2>3 DEF LidClean
<1>11. drive.cycle = "opened" /\ cpu'.reply[1] # 0 => NoneShut
  BY <1>2, <1>8 DEF LidClean
<1>12. job >= ShutJob /\ drive.cycle = "opened" => cpu'.reply[1] # 0
  BY <1>2, <1>8 DEF LidClean
<1>13. (/\ drive.stage = 7
        /\ \/ ctl.fifo \in {<<>>} \cup Stats \cup FromLid
           \/ cpu.pc = "read" /\ cpu.reply # <<>> /\ ctl.fifo = <<8>>
        /\ cpu.reply # <<>> => cpu.reply[1] \in {0, 16, 17}
        /\ drive.cycle = "none" =>
          /\ Queued({<<0>>})
          /\ ctl.fifo \in {<<>>, <<0>>}
          /\ cpu.reply # <<>> => cpu.reply[1] = 0)'
  BY <1>1, <1>2, <1>4, <1>6, <1>9, <1>10 DEF LidClean
<1>14. (drive.cycle = "opened" =>
          /\ \A i, j \in 1 .. Len(ctl.queue) :
                i < j /\ Pending(i) # <<0>> => Pending(j) # <<0>>
          /\ ctl.fifo \in {<<16>>, LidBytes} => NoneShut
          /\ cpu.reply # <<>> /\ cpu.reply[1] # 0 => ctl.fifo # <<0>> /\ NoneShut)'
  <2>1. LidBytes' = LidBytes
    BY DEF LidBytes
  <2> QED
    BY <1>1, <1>2, <1>4, <1>7, <1>11, <2>1 DEF LidClean
<1>15. (job >= ShutJob =>
          /\ drive.cycle # "none"
          /\ drive.cycle = "opened" =>
                /\ job = ShutJob
                /\ NoneShut
                /\ ctl.fifo # <<0>>
                /\ cpu.reply # <<>> => cpu.reply[1] # 0)'
  BY <1>1, <1>4, <1>7, <1>12 DEF LidClean
<1> QED
  BY <1>4, <1>13, <1>14, <1>15 DEF LidClean

LEMMA LidPresented ==
    ASSUME TypePart, NEW job, LidClean(job), Presents
    PROVE  LidClean(job)'
<1>1. /\ cpu' = cpu /\ drive' = drive
      /\ Len(ctl'.queue) = Len(ctl.queue) - 1 /\ Len(ctl.queue) >= 1 /\ Len(ctl.queue) \in Nat
      /\ ctl'.fifo = Pending(1)
      /\ \A i \in 1 .. Len(ctl'.queue) : ctl'.queue[i] = ctl.queue[i + 1]
  <2>1. Len(ctl.queue) \in Nat /\ (ctl.queue # <<>> => Len(ctl.queue) >= 1)
    BY DEF TypePart, Ctls
  <2> QED
    BY <2>1 DEF Presents
<1>2. FromLid' = FromLid /\ Stats' = Stats /\ LidBytes' = LidBytes
  BY <1>1 DEF FromLid, LidBytes, Stats
<1>3. 1 \in 1 .. Len(ctl.queue)
      /\ \A i \in 1 .. Len(ctl'.queue) :
            i + 1 \in 1 .. Len(ctl.queue) /\ 1 < i + 1 /\ Pending(i)' = Pending(i + 1)
  BY <1>1 DEF Pending
<1>4. /\ Queued(Stats \cup FromLid)' /\ ctl'.fifo \in Stats \cup FromLid
      /\ Queued({<<0>>}) => Queued({<<0>>})' /\ ctl'.fifo = <<0>>
      /\ NoneShut => NoneShut' /\ ctl'.fifo # <<0>>
  <2>1. Queued(Stats \cup FromLid)' /\ ctl'.fifo \in Stats \cup FromLid
    BY <1>1, <1>2, <1>3 DEF LidClean, Queued
  <2>2. Queued({<<0>>}) => Queued({<<0>>})' /\ ctl'.fifo = <<0>>
    BY <1>1, <1>3 DEF Queued
  <2>3. NoneShut => NoneShut' /\ ctl'.fifo # <<0>>
    BY <1>1, <1>3 DEF NoneShut
  <2> QED
    BY <2>1, <2>2, <2>3
<1>5. ASSUME drive.cycle = "opened"
      PROVE  /\ \A i, j \in 1 .. Len(ctl'.queue) :
                   i < j /\ Pending(i)' # <<0>> => Pending(j)' # <<0>>
             /\ ctl'.fifo \in {<<16>>, LidBytes} => NoneShut'
  <2>1. \A i, j \in 1 .. Len(ctl.queue) : i < j /\ Pending(i) # <<0>> => Pending(j) # <<0>>
    BY <1>5 DEF LidClean
  <2>2. ASSUME NEW i \in 1 .. Len(ctl'.queue), NEW j \in 1 .. Len(ctl'.queue), i < j,
               Pending(i)' # << 0 >>
        PROVE  Pending(j)' # <<0>>
    <3>1. i + 1 \in 1 .. Len(ctl.queue) /\ j + 1 \in 1 .. Len(ctl.queue) /\ i + 1 < j + 1
      BY <1>1, <1>3, <2>2
    <3> QED
      BY <1>3, <2>1, <2>2, <3>1
  <2>3. ASSUME ctl'.fifo \in {<< 16 >>, LidBytes} PROVE NoneShut'
    <3>1. Pending(1) # <<0>>
      BY <1>1, <2>3, LidStatus DEF Stats
    <3> QED
      BY <1>3, <2>1, <3>1 DEF NoneShut
  <2> QED
    BY <2>2, <2>3
<1> QED
  BY <1>1, <1>2, <1>4, <1>5 DEF LidClean

(* The status shows whether the lid has been open since the last one.      *)
LEMMA LidAnswered ==
    ASSUME TypePart, NEW job, LidClean(job), LatchPart, RequestPart, AnswersSomething,
           cpu.job >= OpenJob, drive.region \in Regions
    PROVE  LidClean(job)'
<1>1. /\ ctl.exec # NoRequest /\ cpu' = cpu /\ ctl'.fifo = ctl.fifo
  BY DEF AnswersSomething, AnswersStatus, AnswersText, AnswersSecret,
              AnswersGetstat, Refuses, Answers
<1>2. ctl.exec.op = CmdGetstat
  BY <1>1, RequestFacts DEF RequestPart
<1>3. AnswersGetstat
  BY <1>2 DEF AnswersSomething, AnswersStatus, AnswersText, AnswersSecret, Refuses, SecretOps
<1>4. drive'.cycle = drive.cycle /\ drive'.stage = drive.stage /\ FromLid' = FromLid
  BY <1>3 DEF AnswersGetstat, TypePart, Drives, FromLid, LidBytes
<1>5. PICK new : /\ Answers({new}, 1) /\ new \in Stats
                 /\ drive.cycle = "none" => new = <<0>>
                 /\ drive.cycle = "opened" => new # <<0>>
  <2>1. CASE drive.latch
    <3>1. Answers({<<16>>}, 1)
      BY <1>3, <2>1 DEF AnswersGetstat
    <3>2. <<16>> \in Stats /\ <<16>> # <<0>>
      BY DEF Stats
    <3> QED
      BY <2>1, <3>1, <3>2 DEF LatchPart
  <2>2. CASE ~drive.latch
    <3>1. Answers({<<0>>}, 1)
      BY <1>3, <2>2 DEF AnswersGetstat
    <3>2. <<0>> \in Stats
      BY DEF Stats
    <3> QED
      BY <2>2, <3>1, <3>2 DEF LatchPart
  <2> QED
    BY <2>1, <2>2
<1>6. /\ Len(ctl.queue) \in Nat
      /\ Len(ctl'.queue) = Len(ctl.queue) + 1
      /\ \A i \in 1 .. Len(ctl.queue) : Pending(i)' = Pending(i)
      /\ \A i \in 1 .. Len(ctl'.queue) :
            i \in 1 .. Len(ctl.queue) \/ (i = Len(ctl.queue) + 1 /\ Pending(i)' = new)
  <2>1. \A i : i = Len(ctl.queue) + 1 => Pending(i)' \in {new}
    BY <1>5, OneAnswered DEF Pending
  <2> QED
    BY <1>5, <2>1, OneAnswered
<1>7. /\ Queued(Stats \cup FromLid)'
      /\ Queued({<<0>>}) /\ new = <<0>> => Queued({<<0>>})'
      /\ NoneShut /\ new # <<0>> => NoneShut'
  <2>1. Queued(Stats \cup FromLid)'
    BY <1>4, <1>5, <1>6 DEF LidClean, Queued, Stats
  <2>2. Queued({<<0>>}) /\ new = <<0>> => Queued({<<0>>})'
    BY <1>6 DEF Queued
  <2>3. NoneShut /\ new # <<0>> => NoneShut'
    BY <1>6 DEF NoneShut
  <2> QED
    BY <2>1, <2>2, <2>3
<1>8. ASSUME drive.cycle = "opened", NEW i \in 1 .. Len(ctl'.queue),
             NEW j \in 1 .. Len(ctl'.queue), i < j, Pending(i)' # << 0 >>
      PROVE  Pending(j)' # <<0>>
  <2>1. \A k, l \in 1 .. Len(ctl.queue) : k < l /\ Pending(k) # <<0>> => Pending(l) # <<0>>
    BY <1>8 DEF LidClean
  <2>2. i \in 1 .. Len(ctl.queue)
    BY <1>6, <1>8
  <2>3. CASE j \in 1 .. Len(ctl.queue)
    BY <1>6, <1>8, <2>1, <2>2, <2>3
  <2>4. CASE Pending(j)' = new
    BY <1>5, <1>8, <2>4
  <2> QED
    BY <1>6, <2>3, <2>4
<1>9. LidBytes' = LidBytes /\ Stats' = Stats
  BY DEF LidBytes, Stats
<1> QED
  BY <1>1, <1>4, <1>5, <1>7, <1>8, <1>9 DEF LidClean

LEMMA LidOpenedAgain ==
    ASSUME TypePart, NEW job, LidClean(job), Opens,
           FromLid \subseteq FromLid', LidBytes \in FromLid'
    PROVE  LidClean(job)'
<1>1. /\ cpu' = cpu /\ ctl'.fifo = ctl.fifo /\ drive'.stage = drive.stage
      /\ drive'.cycle = IF drive.cycle = "none" THEN "opened" ELSE drive.cycle
      /\ drive'.cycle # "none"
  BY DEF Opens
<1>2. /\ Len(ctl.queue) \in Nat
      /\ \A i \in 1 .. Len(ctl.queue) : Pending(i)' = Pending(i)
      /\ \A i \in 1 .. Len(ctl'.queue) :
            i \in 1 .. Len(ctl.queue) \/ (i = Len(ctl.queue) + 1 /\ Pending(i)' = LidBytes)
  BY OneOpened
<1>3. LidBytes # <<0>>
  BY LidStatus
<1>4. Queued(Stats \cup FromLid)' /\ (NoneShut => NoneShut')
  <2>1. Queued(Stats \cup FromLid)'
    BY <1>2 DEF LidClean, Queued, Stats
  <2>2. NoneShut => NoneShut'
    BY <1>2, <1>3 DEF NoneShut
  <2> QED
    BY <2>1, <2>2
<1>5. LidBytes' = LidBytes /\ Stats' = Stats
  BY DEF LidBytes, Stats
<1>6. /\ \/ ctl'.fifo \in {<<>>} \cup Stats \cup FromLid'
         \/ cpu'.pc = "read" /\ cpu'.reply # <<>> /\ ctl'.fifo = <<8>>
      /\ cpu'.reply # <<>> => cpu'.reply[1] \in {0, 16, 17}
  BY <1>1 DEF LidClean
<1>7. CASE drive.cycle = "none"
  <2>1. /\ Queued({<<0>>}) /\ ctl.fifo \in {<<>>, <<0>>}
        /\ cpu.reply # <<>> => cpu.reply[1] = 0
        /\ ~(job >= ShutJob)
    BY <1>7 DEF LidClean
  <2>2. \A i, j \in 1 .. Len(ctl'.queue) :
            i < j /\ Pending(i)' # <<0>> => Pending(j)' # <<0>>
    <3>1. SUFFICES ASSUME NEW i \in 1 .. Len(ctl'.queue), NEW j \in 1 .. Len(ctl'.queue), i < j
                   PROVE  Pending(i)' = <<0>>
      OBVIOUS
    <3>2. i \in 1 .. Len(ctl.queue)
      BY <1>2, <3>1
    <3> QED
      BY <1>2, <2>1, <3>2 DEF Queued
  <2>3. ctl'.fifo \notin {<<16>>, LidBytes}
    BY <1>1, <2>1, LidStatus DEF Stats
  <2> QED
    BY <1>1, <1>4, <1>5, <1>6, <2>1, <2>2, <2>3 DEF LidClean
<1>8. CASE drive.cycle # "none"
  <2>1. drive'.cycle = drive.cycle
    BY <1>1, <1>8
  <2>2. ASSUME drive.cycle = "opened", NEW i \in 1 .. Len(ctl'.queue),
               NEW j \in 1 .. Len(ctl'.queue), i < j, Pending(i)' # << 0 >>
        PROVE  Pending(j)' # <<0>>
    <3>1. \A k, l \in 1 .. Len(ctl.queue) : k < l /\ Pending(k) # <<0>> => Pending(l) # <<0>>
      BY <2>2 DEF LidClean
    <3>2. i \in 1 .. Len(ctl.queue)
      BY <1>2, <2>2
    <3>3. CASE j \in 1 .. Len(ctl.queue)
      BY <1>2, <2>2, <3>1, <3>2, <3>3
    <3>4. CASE Pending(j)' = LidBytes
      BY <1>3, <3>4
    <3> QED
      BY <1>2, <3>3, <3>4
  <2> QED
    BY <1>1, <1>4, <1>5, <1>6, <1>8, <2>1, <2>2 DEF LidClean
<1> QED
  BY <1>7, <1>8

(* The first poll begins: all seven strings are accepted, and only the     *)
(* lid's own replies are left.                                             *)
LEMMA PollsBegin ==
    ASSUME TypePart, SecretPart, SecretDone, cpu.job = LastSecret
    PROVE  LidClean(OpenJob)'
<1>1. cpu'.reply = <<>> /\ ctl' = ctl /\ drive' = drive
  BY DEF SecretDone, Begins
<1>2. drive.stage = 7 /\ Queued(FromLid) /\ ctl.fifo \in {<<>>} \cup FromLid
  BY SecretConclusion, SecretLeaves
<1>3. drive.cycle = "none" => FromLid = {}
  BY DEF FromLid
<1>4. LidBytes # <<0>> /\ LidBytes' = LidBytes /\ FromLid' = FromLid /\ <<>> # <<0>>
  BY <1>1, LidStatus DEF LidBytes, FromLid
<1>5. \A i \in 1 .. Len(ctl'.queue) : Pending(i)' \in FromLid /\ Pending(i)' # <<0>>
  BY <1>1, <1>2, <1>4, ByteFacts DEF Queued, Pending
<1>6. ctl.fifo # <<0>>
  BY <1>2, <1>4, ByteFacts
<1> QED
  BY <1>1, <1>2, <1>3, <1>4, <1>5, <1>6 DEF LidClean, Queued, NoneShut, Stats

(* A status is judged: the wait for the opening ends on one from after it, *)
(* the wait for the closing on one from after that.                        *)
LEMMA PollsGoOn ==
    ASSUME TypePart, FreshPart, LidClean(cpu.job), LidDone
    PROVE  LidClean(cpu.job)'
<1>1. cpu'.reply = <<>> /\ ctl' = ctl /\ drive' = drive /\ cpu.pc = "judge" /\ cpu.reply # <<>>
      /\ cpu.job \in {9, 10}
  BY DEF LidDone, Begins, FreshPart, LidJobs
<1>2. FromLid' = FromLid /\ LidBytes' = LidBytes /\ Stats' = Stats
  BY <1>1 DEF FromLid, LidBytes, Stats
<1>3. /\ Queued(Stats \cup FromLid)' /\ Queued({<<0>>})' = Queued({<<0>>})
      /\ NoneShut' = NoneShut /\ \A i \in 1 .. Len(ctl'.queue) : Pending(i)' = Pending(i)
  BY <1>1, <1>2 DEF LidClean, Queued, Pending, NoneShut
<1>4. cpu.reply[1] \in {0, 16, 17}
  BY <1>1 DEF LidClean
<1>5. LidBit(cpu.reply[1]) <=> cpu.reply[1] # 0
  BY <1>4 DEF LidBit
<1>6. \/ cpu'.job = cpu.job
      \/ cpu.job = 9 /\ cpu'.job = 10 /\ cpu.reply[1] # 0
      \/ cpu.job = 10 /\ cpu'.job = 11 /\ cpu.reply[1] = 0
  BY <1>1, <1>5 DEF LidDone, Begins, LidAwaited
<1>7. cpu'.job >= ShutJob => drive.cycle # "none"
  BY <1>1, <1>4, <1>6 DEF LidClean
<1>opened. cpu'.job >= ShutJob /\ drive.cycle = "opened"
        => cpu'.job = ShutJob /\ NoneShut /\ ctl.fifo # <<0>>
  BY <1>1, <1>4, <1>6 DEF LidClean
<1>8. ctl.fifo \in {<<>>} \cup Stats \cup FromLid
  BY <1>1 DEF LidClean
<1>9. (/\ drive.stage = 7
       /\ Queued(Stats \cup FromLid)
       /\ \/ ctl.fifo \in {<<>>} \cup Stats \cup FromLid
          \/ cpu.pc = "read" /\ cpu.reply # <<>> /\ ctl.fifo = <<8>>
       /\ cpu.reply # <<>> => cpu.reply[1] \in {0, 16, 17})'
  BY <1>1, <1>2, <1>3, <1>8 DEF LidClean
<1>10. (drive.cycle = "none" =>
          /\ Queued({<<0>>})
          /\ ctl.fifo \in {<<>>, <<0>>}
          /\ cpu.reply # <<>> => cpu.reply[1] = 0)'
  BY <1>1, <1>3 DEF LidClean
<1>11. (drive.cycle = "opened" =>
          /\ \A i, j \in 1 .. Len(ctl.queue) :
                i < j /\ Pending(i) # <<0>> => Pending(j) # <<0>>
          /\ ctl.fifo \in {<<16>>, LidBytes} => NoneShut
          /\ cpu.reply # <<>> /\ cpu.reply[1] # 0 => ctl.fifo # <<0>> /\ NoneShut)'
  BY <1>1, <1>2, <1>3 DEF LidClean
<1>12. (cpu.job >= ShutJob =>
          /\ drive.cycle # "none"
          /\ drive.cycle = "opened" =>
                /\ cpu.job = ShutJob
                /\ NoneShut
                /\ ctl.fifo # <<0>>
                /\ cpu.reply # <<>> => cpu.reply[1] # 0)'
  BY <1>1, <1>3, <1>7, <1>opened
<1> QED
  BY <1>9, <1>10, <1>11, <1>12 DEF LidClean

LEMMA LidStep ==
    ASSUME TypePart, FreshPart, RequestPart, SecretPart, LidPart, [Next]_vars
    PROVE  LidPart'
<1>1. LatchPart /\ (cpu.job >= OpenJob => LidClean(cpu.job))
  BY LidParts
<1>2. LatchPart'
  BY <1>1, LatchStep
<1>3. LatchPart' /\ (cpu'.job >= OpenJob => LidClean(cpu.job)') => LidPart'
  <2>1. cpu'.job \in Int
    BY NextType DEF TypePart, Cpus, Jobs
  <2> QED
    BY <2>1 DEF LidPart, LatchPart, LidClean, NoneShut
<1> SUFFICES ASSUME cpu'.job >= OpenJob PROVE LidClean(cpu.job)'
  BY <1>2, <1>3
<1>a. /\ FromLid \subseteq FromLid' /\ (Opens => LidBytes \in FromLid')
  BY SetsGrow
<1>b. cpu.job \in Jobs /\ cpu.job \in Int /\ drive.region \in Regions
  BY RegionStays DEF TypePart, Cpus, Jobs
<1>4. CASE SecretDone
  <2>1. cpu.job = LastSecret /\ cpu'.job = OpenJob
    BY <1>4, <1>b DEF SecretDone, Begins, SecretJobs
  <2> QED
    BY <1>4, <2>1, PollsBegin
<1>5. CASE LidDone
  <2>1. cpu.job >= OpenJob
    BY <1>5 DEF LidDone, LidJobs
  <2> QED
    BY <1>1, <1>5, <2>1, PollsGoOn
<1>6. CASE ~SecretDone /\ ~LidDone
  <2>1. ~Judges
    BY <1>b, <1>6 DEF Judges, InitDone, RegionDone, Begins
  <2>2. PICK job : job = cpu.job /\ job = cpu'.job
    BY <2>1, JobStep
  <2>3. LidClean(job)
    BY <1>1, <2>2
  <2> SUFFICES LidClean(job)'
    BY <2>2
  <2>4. CASE Prepares \/ Commands \/ Awaits \/ Acknowledges \/ StartsReading
    <3>1. Waits
      BY <2>4, Waiting
    <3> QED
      BY <1>a, <2>3, <3>1, LidSame DEF Waits, SameReplies, Reading
  <2>5. CASE Reads
    BY <2>3, <2>5, LidRead
  <2>6. CASE ReadsAll
    BY <1>a, <2>3, <2>6, LidSame DEF ReadsAll
  <2>7. CASE Takes
    BY <1>a, <2>3, <2>7, LidSame DEF Takes, SameReplies
  <2>8. CASE AnswersSomething
    BY <1>1, <1>b, <2>2, <2>3, <2>8, LidAnswered
  <2>9. CASE Presents
    BY <2>3, <2>9, LidPresented
  <2>10. CASE Opens
    BY <1>a, <2>3, <2>10, LidOpenedAgain
  <2>11. CASE Closes
    BY <1>a, <2>3, <2>11, LidSame DEF Closes
  <2>12. CASE UNCHANGED vars
    BY <1>a, <2>3, <2>12, LidSame DEF vars
  <2>13. ~Steals /\ ~Fails /\ ~AwaitsSecond
    BY <1>b, <2>2 DEF Steals, Fails, AwaitsSecond, FreshPart
  <2> QED
    BY <2>1, <2>4, <2>5, <2>6, <2>7, <2>8, <2>9, <2>10, <2>11, <2>12, <2>13, Effects
<1> QED
  BY <1>4, <1>5, <1>6
-----------------------------------------------------------------------------
(* How long a reply can get.                                               *)

LEMMA ShortOnes ==
    ASSUME drive.region \in Regions
    PROVE  /\ \A bytes \in FromInit \cup FromSecret \cup Stats \cup FromLid : Len(bytes) <= 2
           /\ \A bytes \in FromInit \cup FromSecret \cup Stats \cup FromLid \cup {Text} :
                 Len(bytes) <= 10
<1>1. \A bytes \in FromInit \cup FromSecret \cup Stats \cup FromLid : Len(bytes) \in {1, 2}
  BY ByteFacts DEF FromInit, FromSecret
<1>2. Len(Text) <= 10
  BY TextIsNoOther
<1>3. \A n \in {1, 2} : n <= 2 /\ n <= 10
  OBVIOUS
<1> QED
  BY <1>1, <1>2, <1>3, Zenon

(* A text is the longest reply, and nothing but the lid's can follow it.   *)
LEMMA LengthFacts ==
    ASSUME TypePart, FreshPart, RegionPart, SecretPart, LidPart,
           cpu.pc \in Reading, drive.region \in Regions
    PROVE  /\ cpu.pc = "read" /\ cpu.reply = <<>>
                 => Len(ctl.fifo) <= 10 /\ (ctl.fifo[1] # 102 => Len(ctl.fifo) <= 2)
           /\ cpu.reply # <<>> /\ cpu.reply[1] = 102 /\ ctl.flag = 0
                 => Len(cpu.reply) + Len(ctl.fifo) <= 10
           /\ cpu.reply # <<>> /\ cpu.reply[1] = 102 => Queued({LidBytes})
           /\ ctl.queue # <<>> => Len(Pending(1)) <= 10
<1>1. cpu.job \in Jobs \ {InitJob} /\ cpu.pc # "failed"
  BY DEF TypePart, Cpus, FreshPart, Reading
<1>2. /\ ctl.queue # <<>> => 1 \in 1 .. Len(ctl.queue)
      /\ cpu.reply \in Bytes /\ ctl.fifo \in Bytes
  BY DEF TypePart, Ctls, Cpus, Bytes
<1>3. FromLid \subseteq {LidBytes}
  BY ByteFacts
<1>4. CASE cpu.job = RegionJob
  <2>1. Queued(FromInit \cup {Text})
    BY <1>1, <1>4 DEF RegionPart
  <2>2. ctl.queue # <<>> => Len(Pending(1)) <= 10
    BY <1>2, <2>1, ShortOnes DEF Queued
  <2>3. ASSUME cpu.pc = "read", cpu.reply = <<>>
        PROVE  Len(ctl.fifo) <= 10 /\ (ctl.fifo[1] # 102 => Len(ctl.fifo) <= 2)
    <3>1. ctl.fifo \in FromInit \cup {Text}
      BY <1>1, <1>4, <2>3 DEF RegionPart, FreshPart, Live, Reading
    <3> QED
      BY <3>1, ShortOnes, TextIsNoOther
  <2>4. ASSUME cpu.reply # <<>>, cpu.reply[1] = 102
        PROVE  /\ ctl.flag = 0 => Len(cpu.reply) + Len(ctl.fifo) <= 10
               /\ Queued({LidBytes})
    <3>1. (BeingRead(Text) \/ Spoilt) /\ (TextSeen => Queued(FromLid))
      BY <1>1, <1>4, <2>4 DEF RegionPart
    <3>2. Queued({LidBytes})
      BY <1>3, <2>4, <3>1 DEF TextSeen, Queued
    <3>3. ASSUME ctl.flag = 0 PROVE Len(cpu.reply) + Len(ctl.fifo) <= 10
      <4>1. cpu.reply \o ctl.fifo = Text
        BY <3>1, <3>3 DEF BeingRead, Spoilt
      <4>2. Len(cpu.reply \o ctl.fifo) = Len(cpu.reply) + Len(ctl.fifo)
        BY <1>2, ConcatProperties DEF Bytes
      <4> QED
        BY <4>1, <4>2, TextIsNoOther
    <3> QED
      BY <3>2, <3>3
  <2> QED
    BY <2>2, <2>3, <2>4
<1>5. CASE cpu.job \in SecretJobs
  <2>1. /\ Queued(FromSecret) /\ (cpu.reply = <<>> => ctl.fifo \in {<<>>} \cup FromSecret)
        /\ cpu.reply # <<>> => cpu.reply[1] # 102
    BY <1>1, <1>5 DEF SecretPart
  <2>2. ctl.queue # <<>> => Len(Pending(1)) <= 10
    BY <1>2, <2>1, ShortOnes DEF Queued
  <2>3. cpu.pc = "read" /\ cpu.reply = <<>> => Len(ctl.fifo) <= 2 /\ Len(ctl.fifo) <= 10
    <3>1. cpu.pc = "read" /\ cpu.reply = <<>> => ctl.fifo # <<>>
      BY DEF FreshPart
    <3> QED
      BY <2>1, <3>1, ShortOnes
  <2> QED
    BY <2>1, <2>2, <2>3
<1>6. CASE cpu.job >= OpenJob
  <2>1. /\ Queued(Stats \cup FromLid)
        /\ cpu.reply = <<>> => ctl.fifo \in {<<>>} \cup Stats \cup FromLid
        /\ cpu.reply # <<>> => cpu.reply[1] # 102
    BY <1>1, <1>6 DEF LidPart
  <2>2. ctl.queue # <<>> => Len(Pending(1)) <= 10
    BY <1>2, <2>1, ShortOnes DEF Queued
  <2>3. cpu.pc = "read" /\ cpu.reply = <<>> => Len(ctl.fifo) <= 2 /\ Len(ctl.fifo) <= 10
    <3>1. cpu.pc = "read" /\ cpu.reply = <<>> => ctl.fifo # <<>>
      BY DEF FreshPart
    <3> QED
      BY <2>1, <3>1, ShortOnes
  <2> QED
    BY <2>1, <2>2, <2>3
<1>7. cpu.job = RegionJob \/ cpu.job \in SecretJobs \/ cpu.job >= OpenJob
  BY <1>1 DEF Jobs, SecretJobs
<1> QED
  BY <1>4, <1>5, <1>6, <1>7

(* Arithmetic of what is read and what is left to read.                    *)
LEMMA LengthSums ==
    ASSUME NEW reply \in Nat, NEW fifo \in Nat, NEW longer \in Nat, NEW next \in Nat
    PROVE  /\ reply + fifo <= 2 \/ reply + fifo <= 10 => reply + fifo <= 12
           /\ reply + fifo <= 2 /\ next <= 10 => reply + next <= 12
           /\ reply + fifo <= 10 /\ next <= 2 => reply + next <= 12
OBVIOUS

LEMMA ByteMoved ==
    \A reply, fifo, longer, next \in Nat :
        longer = reply + 1 /\ next = fifo - 1 =>
            /\ longer + next = reply + fifo
            /\ reply + fifo <= 12 => longer <= 12
OBVIOUS

LEMMA LengthStep ==
    ASSUME TypePart, FreshPart, RegionPart, SecretPart, LidPart, LengthPart, [Next]_vars
    PROVE  LengthPart'
<1>a. drive.region \in Regions /\ FreshPart' /\ TypePart'
  BY RegionStays, FreshStep, NextType
<1>b. Len(cpu.reply) \in Nat /\ Len(cpu'.reply) \in Nat /\ Len(ctl.fifo) \in Nat /\ Len(ctl'.fifo) \in Nat
  BY <1>a DEF TypePart, Cpus, Ctls
<1> USE DEF LengthPart
<1>1. CASE cpu'.reply = <<>>
  BY <1>1
<1>2. CASE cpu'.pc = "failed" /\ cpu'.reply = cpu.reply
  BY <1>2
<1>3. CASE cpu.pc \in Reading /\ UNCHANGED <<cpu.reply, ctl.fifo, ctl.flag>>
  BY <1>3 DEF Reading
<1>4. CASE Reads
  <2>1. /\ cpu'.reply # <<>> /\ ctl'.flag = ctl.flag /\ cpu.pc \in Reading /\ cpu.pc = "read"
        /\ cpu'.reply[1] = IF cpu.reply = <<>> THEN ctl.fifo[1] ELSE cpu.reply[1]
        /\ Len(cpu'.reply) = Len(cpu.reply) + 1 /\ Len(ctl'.fifo) = Len(ctl.fifo) - 1
    BY <1>4, ReadEffect DEF Reads, Reading
  <2>2. CASE cpu.reply = <<>>
    <3>1. Len(cpu.reply) = 0
      BY <2>2
    <3> QED
      BY <1>a, <1>b, <2>1, <2>2, <3>1, LengthFacts
  <2>3. CASE cpu.reply # <<>>
    <3>1. cpu'.pc # "failed" /\ cpu.pc # "failed"
      BY <1>4 DEF Reads
    <3>2. cpu.reply[1] = 102 /\ ctl.flag = 0 => Len(cpu.reply) + Len(ctl.fifo) <= 10
      BY <1>a, <2>1, <2>3, LengthFacts
    <3>3. \/ ctl.flag # 0 /\ Len(cpu.reply) + Len(ctl.fifo) <= 12
          \/ Len(cpu.reply) + Len(ctl.fifo) <= 2
          \/ Len(cpu.reply) + Len(ctl.fifo) <= 10
      BY <2>3, <3>1, <3>2
    <3>4. Len(cpu.reply) + Len(ctl.fifo) <= 12
      BY <1>b, <3>3, LengthSums
    <3>5. Len(cpu'.reply) + Len(ctl'.fifo) = Len(cpu.reply) + Len(ctl.fifo)
          /\ Len(cpu'.reply) <= 12
      <4>1. Len(cpu'.reply) = Len(cpu.reply) + 1 /\ Len(ctl'.fifo) = Len(ctl.fifo) - 1
        BY <2>1
      <4>2. PICK a, b, c, d \in Nat :
               a = Len(cpu.reply) /\ b = Len(ctl.fifo) /\ c = Len(cpu'.reply) /\ d = Len(ctl'.fifo)
        BY <1>b
      <4>3. a + b <= 12 /\ c = a + 1 /\ d = b - 1
        BY <3>4, <4>1, <4>2
      <4>4. c + d = a + b /\ c <= 12
        BY <4>3, ByteMoved
      <4> QED
        BY <4>2, <4>4
    <3> QED
      BY <2>1, <2>3, <3>1, <3>4, <3>5
  <2> QED
    BY <2>2, <2>3
<1>5. CASE Presents /\ cpu.reply # <<>> /\ cpu.pc # "failed"
  <2>1. /\ cpu' = cpu /\ ctl'.flag # 0 /\ ctl.flag = 0 /\ ctl.queue # <<>>
        /\ ctl'.fifo = Pending(1)
    BY <1>5 DEF Presents
  <2>2. cpu.pc \in Reading
    BY <1>5 DEF FreshPart
  <2>3. CASE cpu.reply[1] # 102
    <3>1. Len(ctl'.fifo) <= 10
      BY <1>a, <2>1, <2>2, LengthFacts
    <3>2. Len(cpu.reply) + Len(ctl.fifo) <= 2
      BY <1>5, <2>1, <2>3
    <3>3. Len(cpu.reply) + Len(ctl'.fifo) <= 12
      BY <1>b, <3>1, <3>2, LengthSums
    <3> QED
      BY <2>1, <3>3
  <2>4. CASE cpu.reply[1] = 102
    <3>1. Pending(1) = LidBytes
      BY <1>a, <1>5, <2>1, <2>2, <2>4, LengthFacts DEF Queued, TypePart, Ctls
    <3>2. Len(ctl'.fifo) <= 2
      <4>1. Len(ctl'.fifo) = 2
        BY <2>1, <3>1, ByteFacts
      <4> QED
        BY <4>1
    <3>3. Len(cpu.reply) + Len(ctl.fifo) <= 10
      BY <1>a, <1>5, <2>1, <2>2, <2>4, LengthFacts
    <3>4. Len(cpu.reply) + Len(ctl'.fifo) <= 12
      BY <1>b, <3>2, <3>3, LengthSums
    <3> QED
      BY <2>1, <3>4
  <2> QED
    BY <2>3, <2>4
<1>6. CASE cpu.pc = "failed"
  <2>1. cpu'.pc = "failed" /\ ~Judges
    BY <1>6, <1>a, FailedStays DEF Judges, InitDone, RegionDone, SecretDone, LidDone
  <2>2. cpu'.reply = cpu.reply
    BY <1>6, <2>1, Effects
       DEF Prepares, Commands, Awaits, Acknowledges, Reads, ReadsAll, Fails, AwaitsSecond,
           StartsReading, Takes, Presents, Opens, Closes, Steals, vars, AnswersSomething,
           AnswersStatus, AnswersText, AnswersSecret, AnswersGetstat, Refuses, Answers
  <2> QED
    BY <2>1, <2>2
<1>7. CASE cpu.reply = <<>> /\ cpu.pc # "failed" /\ ~Reads
  <2>1. cpu'.reply = <<>>
    <3>1. CASE AnswersSomething
      BY <1>7, <3>1 DEF AnswersSomething, AnswersStatus, AnswersText, AnswersSecret,
                        AnswersGetstat, Refuses, Answers
    <3>2. CASE Judges
      BY <3>2 DEF Judges, InitDone, RegionDone, SecretDone, LidDone, Begins
    <3> QED
      BY <1>7, <3>1, <3>2, Effects
         DEF Prepares, Commands, Awaits, Acknowledges, ReadsAll, Fails, AwaitsSecond,
             StartsReading, Takes, Presents, Opens, Closes, Steals, vars
  <2> QED
    BY <1>1, <2>1
<1>8. CASE cpu.reply # <<>> /\ cpu.pc # "failed" /\ ~Reads /\ ~Presents
  <2>1. cpu.pc \in Reading /\ cpu.job # InitJob
    BY <1>8 DEF FreshPart, Reading
  <2>2. CASE AnswersSomething
    BY <1>3, <2>1, <2>2 DEF AnswersSomething, AnswersStatus, AnswersText, AnswersSecret,
                            AnswersGetstat, Refuses, Answers
  <2>3. CASE Judges
    BY <1>1, <2>3 DEF Judges, InitDone, RegionDone, SecretDone, LidDone, Begins
  <2>4. CASE Fails
    BY <1>2, <2>4 DEF Fails
  <2> QED
    BY <1>3, <1>8, <2>1, <2>2, <2>3, <2>4, Effects
       DEF Prepares, Commands, Awaits, Acknowledges, ReadsAll, AwaitsSecond, SameReplies,
           StartsReading, Takes, Opens, Closes, Steals, vars, FreshPart, Reading, Writing
<1> QED
  BY <1>4, <1>5, <1>6, <1>7, <1>8
-----------------------------------------------------------------------------
(* The invariant, and what it is for.                                      *)

LEMMA InitInv == Init => IInv
<1> SUFFICES ASSUME Init PROVE IInv
  OBVIOUS
<1>1. /\ cpu.pc = "waitIdle" /\ cpu.job = InitJob /\ cpu.second = FALSE /\ cpu.reply = <<>>
      /\ cpu \in Cpus
  BY DEF Init, Cpus, DriverSteps, Jobs, P5s
<1>2. PICK queue \in Leftovers, junk \in {<<>>, <<"junk">>} :
         ctl = [busy |-> FALSE, sent |-> NoRequest, exec |-> NoRequest,
                params |-> junk, flag |-> 0, fifo |-> <<>>, queue |-> queue,
                enabled |-> TRUE]
  BY DEF Init
<1>3. queue \in Seq(Replies) /\ Len(queue) <= 2
  BY LeftoversAssumption
<1>4. NoRequest \in Requests /\ junk \in Seq(Strings)
  <2>1. NoRequest \in Requests
    BY DEF NoRequest, Requests, Ops
  <2>2. <<"junk">> \in Seq(Strings)
    BY Singleton DEF Strings
  <2>3. <<>> \in Seq(Strings)
    OBVIOUS
  <2>4. junk = <<>> \/ junk = <<"junk">>
    OBVIOUS
  <2> QED
    BY <2>1, <2>2, <2>3, <2>4, Zenon
<1>5. ctl \in Ctls
  BY <1>2, <1>3, <1>4 DEF Ctls
<1>6. /\ ~ctl.busy /\ ctl.exec = NoRequest /\ ctl.flag = 0 /\ ctl.fifo = <<>>
      /\ ctl.queue = queue /\ ctl.enabled
  BY <1>2
<1>7. PICK region \in DriveRegions :
         drive = [region |-> region, lid |-> "closed", latch |-> FALSE,
                  openings |-> 0, cycle |-> "none", stage |-> 0]
  BY DEF Init
<1>8. /\ drive \in Drives /\ drive.lid = "closed" /\ drive.latch = FALSE
      /\ drive.cycle = "none" /\ drive.stage = 0
  BY <1>7, MaxOpeningsAssumption DEF Drives
<1>9. TypePart
  BY <1>1, <1>5, <1>8 DEF TypePart
<1>10. FreshPart
  BY <1>1, <1>6 DEF FreshPart, Reading
<1>11. RequestPart
  BY <1>1, <1>6, <1>8 DEF RequestPart, Quiet, SecretJobs
<1>12. InitPart
  <2>1. Foreign = 2
    BY <1>1 DEF Foreign
  <2>2. \A i \in 1 .. Len(ctl.queue) : ~(i > 2)
    BY <1>3, <1>6
  <2> QED
    BY <1>1, <1>6, <2>1, <2>2 DEF InitPart
<1>13. RegionPart /\ SecretPart
  BY <1>1 DEF RegionPart, SecretPart, SecretJobs
<1>14. LidPart
  BY <1>1, <1>8 DEF LidPart
<1>15. LengthPart
  BY <1>1 DEF LengthPart
<1> QED
  BY <1>9, <1>10, <1>11, <1>12, <1>13, <1>14, <1>15 DEF IInv

LEMMA StepInv == IInv /\ [Next]_vars => IInv'
BY NextType, FreshStep, RequestStep, InitStep, RegionStep, SecretStep, LidStep, LengthStep
   DEF IInv

(* Whatever the game has left pending and however the steps of driver,     *)
(* controller, user and kernel interleave, every reply on its way to the   *)
(* loader is one the place it has reached can explain.                     *)
THEOREM Invariant == Spec => []IInv
<1>1. UNCHANGED vars => [Next]_vars
  OBVIOUS
<1> QED
  BY InitInv, StepInv, PTL DEF Spec

(* Registers, replies and the progress of main keep to their ranges.       *)
THEOREM TypeCorrect == Spec => []TypeOK
<1>1. IInv => TypeOK
  BY DEF IInv, TypePart, Cpus, Ctls, Drives, TypeOK
<1> QED
  BY <1>1, Invariant, PTL

(* For any leftovers and any region the drive may have: unlock_drive only  *)
(* returns true when the drive has accepted all seven strings.             *)
THEOREM Unlocks == Spec => []UnlockSound
<1>1. IInv => UnlockSound
  BY DEF IInv, LidPart, UnlockSound
<1> QED
  BY <1>1, Invariant, PTL

(* No command is executed with the parameters of another, with what an     *)
(* earlier program left in the FIFO, or with the string of a wrong region. *)
THEOREM SendsWhatIsMeant == Spec => []RequestsIntact
<1>1. ASSUME IInv PROVE RequestsIntact
  <2>1. TypePart /\ RequestPart /\ cpu.job \in Jobs /\ drive.region \in Regions
    BY <1>1, DriveRegionsAssumption DEF IInv, TypePart, Cpus, Drives
  <2>2. SUFFICES ASSUME ctl.exec # NoRequest
                 PROVE  /\ ctl.exec.op = CmdTest => ctl.exec.params = <<"region">>
                        /\ ctl.exec.op \in SecretOps => ctl.exec.params
                              = SecretOf(drive.region, ctl.exec.op - CmdSecret)
                        /\ ctl.exec.op \in {CmdInit, CmdGetstat} => ctl.exec.params = <<>>
    BY DEF RequestsIntact
  <2>3. \E job \in Jobs \ {Swapped} : ctl.exec = Request(job)
    <3>1. cpu.job = InitJob \/ cpu.job = RegionJob \/ cpu.job \in SecretJobs \/ cpu.job >= OpenJob
      BY <2>1 DEF Jobs, SecretJobs
    <3>2. /\ InitJob \in Jobs \ {Swapped} /\ RegionJob \in Jobs \ {Swapped}
          /\ OpenJob \in Jobs \ {Swapped} /\ SecretJobs \subseteq Jobs \ {Swapped}
      BY DEF Jobs, SecretJobs
    <3> QED
      BY <2>1, <2>2, <3>1, <3>2 DEF RequestPart
  <2>4. PICK job \in Jobs \ {Swapped} : ctl.exec = Request(job)
    BY <2>3
  <2>5. /\ ctl.exec.op = Op(job)
        /\ ctl.exec.params = Params(job, P5Localized(RegionText(drive.region)))
    BY <2>4 DEF Request
  <2>6. job = InitJob \/ job = RegionJob \/ job \in SecretJobs \/ job \in LidJobs
    BY DEF Jobs, SecretJobs, LidJobs
  <2>7. CASE job = InitJob \/ job \in LidJobs
    BY <2>5, <2>7, SMTT(20) DEF Op, LidJobs, Params, SecretOps
  <2>8. CASE job = RegionJob
    BY <2>5, <2>8 DEF Op, LidJobs, Params, ParamOf, SecretOps
  <2>9. CASE job \in SecretJobs
    <3>1. ctl.exec.op = CmdSecret + (job - FirstSecret) /\ job \in 2 .. 8
      BY <2>5, <2>9, RequestFacts, <2>1, <2>4 DEF SecretJobs
    <3>2. /\ ctl.exec.op # CmdTest /\ ctl.exec.op # CmdInit /\ ctl.exec.op # CmdGetstat
          /\ FirstSecret + (ctl.exec.op - CmdSecret) = job
      BY <3>1
    <3> QED
      BY <2>5, <3>2 DEF SecretOf
  <2> QED
    BY <2>6, <2>7, <2>8, <2>9
<1> QED
  BY <1>1, Invariant, PTL

(* No status from before the lid was opened ends the wait for its closing. *)
THEOREM SwapNeedsLid == Spec => []SwapIsReal
<1>1. ASSUME IInv PROVE SwapIsReal
  <2>1. cpu.job = Swapped => drive.cycle # "none" /\ drive.cycle # "opened"
    BY <1>1 DEF IInv, LidPart
  <2>2. drive.cycle \in {"none", "opened", "shut"}
    BY <1>1 DEF IInv, TypePart, Drives
  <2> QED
    BY <2>1, <2>2 DEF SwapIsReal
<1> QED
  BY <1>1, Invariant, PTL

(* The status wait_lid_status tests has been read: cd_read_reply always    *)
(* finds a byte after an interrupt.                                        *)
THEOREM StatusRead == Spec => []ReplyRead
<1>1. IInv => ReplyRead
  BY DEF IInv, FreshPart, ReplyRead
<1> QED
  BY <1>1, Invariant, PTL

(* The replies fit the callers' buffers, terminators included, even when   *)
(* one is replaced by the next while it is being read.                     *)
THEOREM RepliesFit == Spec => []ReplyFits
<1>1. ASSUME IInv PROVE ReplyFits
  <2>1. Len(cpu.reply) <= 12 /\ Len(cpu.reply) \in Nat
    BY <1>1 DEF IInv, LengthPart, TypePart, Cpus
  <2> QED
    BY <2>1 DEF ReplyFits, ReplySize
<1> QED
  BY <1>1, Invariant, PTL
=============================================================================
