------------------------- MODULE CdDriveInvariant --------------------------
(***************************************************************************)
(* The inductive invariant of CdDrive: which replies can still be pending  *)
(* at each place of the program, and what the one being read can be.       *)
(*                                                                         *)
(* A reply says nothing of the command it answers.  That the loader never  *)
(* takes one for another follows from the order in which they are queued:  *)
(* the game's first, the loader's in the order of its commands, the lid's  *)
(* anywhere.  The parts are named for the job they speak of.               *)
(***************************************************************************)
EXTENDS CdDrive

Cpus == [pc : DriverSteps \cup {"failed", "done"}, job : Jobs, second : BOOLEAN,
         int : 0 .. 5, reply : Seq(0 .. 255), p5 : P5s]
Ctls == [busy : BOOLEAN, sent : Requests, exec : Requests, params : Seq(Strings),
         flag : 0 .. 5, fifo : Seq(0 .. 255), queue : Seq(Replies),
         enabled : BOOLEAN]
Drives == [region : DriveRegions, lid : {"open", "closed"}, latch : BOOLEAN,
           openings : 0 .. MaxOpenings, cycle : {"none", "opened", "shut"},
           stage : 0 .. 7]

TypePart == cpu \in Cpus /\ ctl \in Ctls /\ drive \in Drives

Writing == {"waitIdle", "clear", "params", "disable", "ack", "command"}
Reading == {"read", "judge"}

Contains(bytes, b) == \E i \in 1 .. Len(bytes) : bytes[i] = b

(* Interrupts are off once the first command is written; a reply that is   *)
(* presented while one is awaited is there as a whole.                     *)
FreshPart ==
    /\ ctl.enabled => /\ cpu.job = InitJob
                      /\ cpu.pc \in {"waitIdle", "clear", "params", "disable"}
    /\ cpu.pc \notin Reading \cup {"failed"} => cpu.reply = <<>>
    /\ cpu.job = InitJob => cpu.pc \notin Reading
    /\ cpu.pc = "ackInt" => ctl.flag # 0
    /\ cpu.pc \in {"command", "waitTaken", "poll", "ackInt"} /\ ctl.flag # 0
          => ctl.fifo # <<>>
    /\ cpu.pc \in {"returned", "read"} /\ cpu.reply = <<>> => ctl.fifo # <<>>
    /\ cpu.pc = "judge" => cpu.reply # <<>>
    /\ cpu.pc = "done" <=> cpu.job = Swapped
    /\ cpu.pc = "failed" => cpu.job <= LastSecret

(* What is on its way to the drive.                                        *)
Request(job) ==
    [op |-> Op(job), params |-> Params(job, P5Localized(RegionText(drive.region)))]

Quiet == ~ctl.busy /\ ctl.exec = NoRequest

RequestPart ==
    /\ cpu.pc \in Writing \ {"waitIdle"} => ~ctl.busy
    /\ cpu.pc = "params" => ctl.params = <<>>
    /\ cpu.pc \in {"disable", "ack", "command"}
          => ctl.params = Params(cpu.job, cpu.p5)
    /\ cpu.job < FirstSecret => drive.stage = 0
    /\ cpu.job >= FirstSecret => cpu.p5 = P5Localized(RegionText(drive.region))
    /\ cpu.job = InitJob =>
          /\ cpu.pc \in Writing => Quiet
          /\ ctl.busy => ctl.sent = Request(InitJob) /\ ctl.exec = NoRequest
          /\ ctl.exec \in {NoRequest, Request(InitJob)}
    /\ cpu.job = RegionJob =>
          /\ ctl.busy => ctl.sent = Request(IF cpu.pc \in Writing THEN InitJob
                                            ELSE RegionJob)
          /\ ctl.busy \/ cpu.pc \in Writing
                => ctl.exec \in {NoRequest, Request(InitJob)}
          /\ ctl.exec \in {NoRequest, Request(InitJob), Request(RegionJob)}
    /\ cpu.job \in SecretJobs =>
          /\ cpu.pc \in Writing => Quiet
          /\ ctl.busy => ctl.sent = Request(cpu.job) /\ ctl.exec = NoRequest
          /\ ctl.exec \in {NoRequest, Request(cpu.job)}
    /\ cpu.job >= OpenJob =>
          /\ ctl.busy => ctl.sent = Request(OpenJob)
          /\ ctl.exec \in {NoRequest, Request(OpenJob)}

(* The replies of the commands, and of the lid if it has been open.        *)
Stats == {<<0>>, <<16>>}
LidBytes == <<17, 8>>
Refusals == {<<1, 128>>, <<17, 128>>}
Verdicts == Refusals \cup {<<1, 32>>, <<17, 32>>, <<1, 64>>, <<17, 64>>}

FromLid == IF drive.cycle = "none" THEN {} ELSE {LidBytes}
FromInit == Stats \cup Refusals \cup FromLid
FromSecret == Verdicts \cup FromLid

Pending(i) == ctl.queue[i].bytes
Queued(from) == \A i \in 1 .. Len(ctl.queue) : Pending(i) \in from

(* Leftovers come first, and each wait takes one.                          *)
Foreign == IF cpu.pc = "returned"
           THEN (IF cpu.second THEN 0 ELSE 1) ELSE (IF cpu.second THEN 1 ELSE 2)

InitPart ==
    cpu.job = InitJob /\ cpu.pc # "failed" =>
        /\ cpu.second => cpu.pc \notin Writing
        /\ \A i \in 1 .. Len(ctl.queue) :
              i > Foreign - (IF ctl.flag # 0 THEN 1 ELSE 0) => Pending(i) \in FromInit
        /\ Foreign = 0 /\ ctl.flag # 0 => ctl.fifo \in FromInit

(* The region's text comes after everything else but the lid's replies.    *)
Text == RegionText(drive.region)
Unanswered == cpu.pc \in Writing \/ ~Quiet
Live == ctl.flag # 0 \/ cpu.pc \in {"returned"} \cup Reading

BeingRead(text) ==
    cpu.reply \o ctl.fifo = text /\ (cpu.pc = "judge" => ctl.fifo = <<>>)

Spoilt ==
    /\ ctl.flag # 0
    /\ \/ cpu.pc = "judge" /\ cpu.reply = Text /\ ctl.fifo = LidBytes
       \/ cpu.pc = "read" /\ ctl.fifo \in {LidBytes, <<8>>}
       \/ Contains(cpu.reply, 8) /\ ctl.fifo = <<>>

TextSeen ==
    IF cpu.reply = <<>> THEN Live /\ ctl.fifo = Text ELSE cpu.reply[1] = 102

RegionPart ==
    cpu.job = RegionJob /\ cpu.pc # "failed" =>
        /\ Queued(FromInit \cup {Text})
        /\ \A i, j \in 1 .. Len(ctl.queue) :
              i < j /\ Pending(i) = Text => Pending(j) \in FromLid
        /\ Live /\ cpu.reply = <<>> /\ ctl.fifo # <<>> => ctl.fifo \in FromInit \cup {Text}
        /\ TextSeen => Queued(FromLid)
        /\ Unanswered => ~TextSeen /\ Queued(FromInit)
        /\ cpu.reply # <<>> /\ cpu.reply[1] = 102 => BeingRead(Text) \/ Spoilt
        /\ cpu.pc = "judge" => ctl.fifo \in {<<>>} \cup FromInit \cup {Text}

SecretPart ==
    cpu.job \in SecretJobs /\ cpu.pc # "failed" =>
        /\ Queued(FromSecret)
        /\ \A i, j \in 1 .. Len(ctl.queue) :
              i < j /\ Pending(i) \notin FromLid => Pending(j) \in FromLid
        /\ \/ ctl.fifo \in {<<>>} \cup FromSecret
           \/ /\ cpu.pc = "read" /\ cpu.reply # <<>>
              /\ ctl.fifo \in {<<8>>, <<32>>, <<64>>, <<128>>}
        /\ cpu.reply # <<>> => cpu.reply[1] \in {1, 17}
        /\ Unanswered =>
              /\ drive.stage = cpu.job - FirstSecret
              /\ Queued(FromLid)
              /\ ~Contains(cpu.reply, InvalidCommand)
              /\ ~Contains(ctl.fifo, InvalidCommand)
        /\ (\E i \in 1 .. Len(ctl.queue) : Contains(Pending(i), InvalidCommand))
              => drive.stage = cpu.job - FirstSecret + 1
        /\ Contains(ctl.fifo, InvalidCommand) =>
              /\ drive.stage = cpu.job - FirstSecret + 1
              /\ Queued(FromLid)
        /\ Contains(cpu.reply, InvalidCommand) =>
              /\ drive.stage = cpu.job - FirstSecret + 1
              /\ Queued(FromLid)
              /\ ctl.fifo \in {<<>>, <<8>>} \cup FromLid

(* A status from before the lid was opened is never behind one from after. *)
LidPart ==
    /\ drive.cycle = "none" => ~drive.latch /\ drive.lid = "closed"
    /\ drive.cycle = "opened" => drive.latch /\ drive.lid = "open"
    /\ cpu.job >= OpenJob =>
          /\ drive.stage = 7
          /\ Queued(Stats \cup FromLid)
          /\ \/ ctl.fifo \in {<<>>} \cup Stats \cup FromLid
             \/ cpu.pc = "read" /\ cpu.reply # <<>> /\ ctl.fifo = <<8>>
          /\ cpu.reply # <<>> => cpu.reply[1] \in {0, 16, 17}
          /\ drive.cycle = "none" =>
                /\ Queued({<<0>>})
                /\ ctl.fifo \in {<<>>, <<0>>}
                /\ cpu.reply # <<>> => cpu.reply[1] = 0
          /\ drive.cycle = "opened" =>
                /\ \A i, j \in 1 .. Len(ctl.queue) :
                      i < j /\ Pending(i) # <<0>> => Pending(j) # <<0>>
                /\ ctl.fifo \in {<<16>>, LidBytes} => \A i \in 1 .. Len(ctl.queue) : Pending(i) # <<0>>
                /\ cpu.reply # <<>> /\ cpu.reply[1] # 0 =>
                      ctl.fifo # <<0>> /\ \A i \in 1 .. Len(ctl.queue) : Pending(i) # <<0>>
    /\ cpu.job >= ShutJob =>
          /\ drive.cycle # "none"
          /\ drive.cycle = "opened" =>
                /\ cpu.job = ShutJob
                /\ \A i \in 1 .. Len(ctl.queue) : Pending(i) # <<0>>
                /\ ctl.fifo # <<0>>
                /\ cpu.reply # <<>> => cpu.reply[1] # 0

LengthPart ==
    /\ Len(cpu.reply) <= 12
    /\ cpu.reply # <<>> /\ cpu.pc # "failed" =>
          /\ ctl.flag = 0 /\ cpu.reply[1] # 102 => Len(cpu.reply) + Len(ctl.fifo) <= 2
          /\ ctl.flag # 0 => Len(cpu.reply) + Len(ctl.fifo) <= 12

IInv == /\ TypePart /\ FreshPart /\ RequestPart /\ InitPart /\ RegionPart
        /\ SecretPart /\ LidPart /\ LengthPart
=============================================================================
