------------------------------ MODULE CdDrive -------------------------------
(***************************************************************************)
(* The polled CD driver (loader/cdrom.c) and the three routines of         *)
(* secondary.c that use it, one register access after another, against a   *)
(* drive controller that works at its own pace: cd_drive_init,             *)
(* unlock_drive, and wait_lid_status(true) followed by (false).            *)
(*                                                                         *)
(* The controller is hardware, modelled from what the driver relies on: a  *)
(* command makes it busy until taken and is answered later by one or two   *)
(* interrupts with a reply each; a reply is presented once the previous    *)
(* interrupt is acknowledged; opening the lid may raise an INT5 nobody     *)
(* asked for, and is remembered until the next Getstat.                    *)
(***************************************************************************)
EXTENDS Integers, Sequences

CONSTANTS DriveRegions,     \* texts the drives may answer to GetRegion
          Leftovers,        \* replies to the game's commands, still pending
          MaxOpenings       \* bound: how often the lid is opened

Regions == {"Europe", "U/C", "NETEU", "NETNA", "Japan"}

ASSUME DriveRegionsAssumption == DriveRegions \subseteq Regions
ASSUME MaxOpeningsAssumption == MaxOpenings \in Nat

(* The jobs of main in order: the Init command, the GetRegion test, the    *)
(* seven backdoor commands 0x50 to 0x56, the two waits, and the swap seen. *)
InitJob     == 0
RegionJob   == 1
FirstSecret == 2
LastSecret  == 8
OpenJob     == 9
ShutJob     == 10
Swapped     == 11
Jobs == InitJob .. Swapped

SecretJobs == FirstSecret .. LastSecret
LidJobs    == {OpenJob, ShutJob}

VARIABLES
    cpu,    \* pc; job; second: the second cd_wait_int of cd_drive_init;
            \* int and reply: what the calls returned; p5: p5_localized
    ctl,    \* the controller: its registers, the command written and the
            \* one in execution, the replies not presented yet
    drive   \* the mechanism; stage: backdoor strings accepted; cycle: the
            \* lid has been opened, and then shut

vars == <<cpu, ctl, drive>>

DriverSteps == {"waitIdle", "clear", "params", "disable", "ack", "command",
                "waitTaken", "poll", "ackInt", "returned", "read", "judge"}

(* Reply bytes, as the code compares them.                                 *)
Stat(error, open) == (IF error THEN 1 ELSE 0) + (IF open THEN 16 ELSE 0)
ErrorBit(byte) == byte % 2 = 1

(* Seeded fault: the wrong bit of the status is tested.                    *)
LidBitWrong(byte) == (byte \div 32) % 2 = 1

LidBit(byte) == (byte \div 16) % 2 = 1

InvalidCommand == 64    \* 0x40, what an accepted backdoor command answers
WrongParams    == 32
NotReady       == 128
LidOpened      == 8

(* The texts of the regions in ASCII: "for Europe", U/C, NETEU and NETNA,   *)
(* and "for Japan" for one the loader does not know.                       *)
RegionText(region) ==
    CASE region = "Europe" -> <<102, 111, 114, 32, 69, 117, 114, 111, 112, 101>>
      [] region = "U/C"    -> <<102, 111, 114, 32, 85, 47, 67>>
      [] region = "NETEU"  -> <<102, 111, 114, 32, 78, 69, 84, 69, 85>>
      [] region = "NETNA"  -> <<102, 111, 114, 32, 78, 69, 84, 78, 65>>
      [] region = "Japan"  -> <<102, 111, 114, 32, 74, 97, 112, 97, 110>>

(* Seeded fault: room for the text but not for its terminator.             *)
ReplySizeTight == 10

ReplySize == 16         \* cd_reply, in each caller

(* CD_CMD_GETSTAT, CD_CMD_INIT, CD_CMD_TEST, and 0x50, the first of the    *)
(* seven backdoor commands.                                                *)
CmdGetstat == 1
CmdInit    == 10
CmdTest    == 25
CmdSecret  == 80

SecretOps == CmdSecret .. CmdSecret + 6
Ops == {0, CmdGetstat, CmdInit, CmdTest} \cup SecretOps
NoRequest == [op |-> 0, params |-> <<>>]

Reply(int, bytes) == [int |-> int, bytes |-> bytes]

Replies == [int : 1 .. 5, bytes : Seq(0 .. 255) \ {<<>>}]

(* No command has more than two answers.                                   *)
ASSUME LeftoversAssumption ==
    \A q \in Leftovers : q \in Seq(Replies) /\ Len(q) <= 2
-----------------------------------------------------------------------------
(* What the loader sends.  The fifth string names the region.              *)
KnownTexts == {RegionText(r) : r \in {"Europe", "U/C", "NETEU", "NETNA"}}

P5Localized(text) ==
    CASE text = RegionText("Europe") -> "(Europe)"
      [] text = RegionText("U/C")    -> "of America"
      [] text \in {RegionText("NETEU"), RegionText("NETNA")} -> "World wide"
      [] text \notin KnownTexts -> "unsupported"

Op(job) == CASE job = InitJob -> CmdInit
             [] job = RegionJob -> CmdTest
             [] job \in LidJobs -> CmdGetstat
             [] job \in SecretJobs -> CmdSecret + (job - FirstSecret)

ParamOf(job, p5) ==
    CASE job = RegionJob -> "region"
      [] job = FirstSecret + 1 -> "Licensed by"
      [] job = FirstSecret + 2 -> "Sony"
      [] job = FirstSecret + 3 -> "Computer"
      [] job = FirstSecret + 4 -> "Entertainment"
      [] job = FirstSecret + 5 -> p5

Params(job, p5) ==
    IF job \in {RegionJob} \cup FirstSecret + 1 .. FirstSecret + 5
    THEN <<ParamOf(job, p5)>> ELSE <<>>

(* What the drive of a region wants to hear, step by step.                 *)
SecretOf(region, stage) ==
    Params(FirstSecret + stage, P5Localized(RegionText(region)))

Init ==
    /\ cpu = [pc |-> "waitIdle", job |-> InitJob, second |-> FALSE, int |-> 0,
              reply |-> <<>>, p5 |-> "none"]
    /\ \E queue \in Leftovers, junk \in {<<>>, <<"junk">>} :
          ctl = [busy |-> FALSE, sent |-> NoRequest, exec |-> NoRequest,
                 params |-> junk, flag |-> 0, fifo |-> <<>>, queue |-> queue,
                 enabled |-> TRUE]
    /\ \E region \in DriveRegions :
          drive = [region |-> region, lid |-> "closed", latch |-> FALSE,
                   openings |-> 0, cycle |-> "none", stage |-> 0]
-----------------------------------------------------------------------------
(* cd_command, cd_wait_int, cd_read_reply                                  *)

Step(from, to, c) ==
    /\ cpu.pc = from
    /\ cpu.job # Swapped
    /\ cpu' = [cpu EXCEPT !.pc = to]
    /\ ctl' = c
    /\ UNCHANGED drive

WaitIdle == ~ctl.busy /\ Step("waitIdle", "clear", ctl)

(* Seeded fault: what an earlier program left in the parameter FIFO stays. *)
ClearFifosMissing == Step("clear", "params", ctl)

(* CD_REGS[3] = 0xC0 on page 0                                             *)
ClearFifos == Step("clear", "params", [ctl EXCEPT !.params = <<>>])

WriteParams ==
    Step("params", "disable",
         [ctl EXCEPT !.params = @ \o Params(cpu.job, cpu.p5)])

(* Seeded fault: the kernel may go on serving the drive.                   *)
DisableInterruptsMissing == Step("disable", "ack", ctl)

DisableInterrupts == Step("disable", "ack", [ctl EXCEPT !.enabled = FALSE])

AckOld == Step("ack", "command", [ctl EXCEPT !.flag = 0])

(* The command runs with the parameters written so far.                    *)
WriteCommand ==
    Step("command", "waitTaken",
         [ctl EXCEPT !.busy = TRUE,
                     !.sent = [op |-> Op(cpu.job), params |-> ctl.params]])

(* Seeded fault: interrupts are acknowledged before being waited for.      *)
WaitTakenAck == ~ctl.busy /\ Step("waitTaken", "poll", [ctl EXCEPT !.flag = 0])

WaitTaken == ~ctl.busy /\ Step("waitTaken", "poll", ctl)

Poll ==
    /\ cpu.pc = "poll"
    /\ ctl.flag # 0
    /\ cpu' = [cpu EXCEPT !.pc = "ackInt", !.int = ctl.flag]
    /\ UNCHANGED <<ctl, drive>>

AckInt == Step("ackInt", "returned", [ctl EXCEPT !.flag = 0])

ReadByte ==
    /\ cpu.pc = "read"
    /\ ctl.fifo # <<>>
    /\ cpu' = [cpu EXCEPT !.reply = Append(@, Head(ctl.fifo))]
    /\ ctl' = [ctl EXCEPT !.fifo = Tail(@)]
    /\ UNCHANGED drive

ReadDone == ctl.fifo = <<>> /\ Step("read", "judge", ctl)

Driver ==
    \/ WaitIdle \/ ClearFifos \/ WriteParams \/ DisableInterrupts \/ AckOld
    \/ WriteCommand \/ WaitTaken \/ Poll \/ AckInt \/ ReadByte \/ ReadDone
-----------------------------------------------------------------------------
(* The callers                                                             *)

Fail == cpu' = [cpu EXCEPT !.pc = "failed"]

NextJob(job, p5) ==
    cpu' = [pc |-> IF job = Swapped THEN "done" ELSE "waitIdle", job |-> job,
            second |-> FALSE, int |-> 0, reply |-> <<>>, p5 |-> p5]

(* cd_drive_init never reads a reply: it waits for INT3, then for INT2.    *)
InitReturned ==
    /\ cpu.pc = "returned" /\ cpu.job = InitJob
    /\ \/ cpu.int # (IF cpu.second THEN 2 ELSE 3) /\ Fail
       \/ cpu.int = 3 /\ ~cpu.second
            /\ cpu' = [cpu EXCEPT !.pc = "waitTaken", !.second = TRUE]
       \/ cpu.int = 2 /\ cpu.second /\ NextJob(RegionJob, cpu.p5)
    /\ UNCHANGED <<ctl, drive>>

(* The wrong interrupt fails at once; the lid polls take any.              *)
ExpectedInt(job) == IF job = RegionJob THEN 3 ELSE 5

IntReturned ==
    /\ cpu.pc = "returned" /\ cpu.job # InitJob
    /\ IF cpu.job \in LidJobs \/ cpu.int = ExpectedInt(cpu.job)
       THEN cpu' = [cpu EXCEPT !.pc = "read"] ELSE Fail
    /\ UNCHANGED <<ctl, drive>>

JudgeRegion ==
    /\ cpu.pc = "judge" /\ cpu.job = RegionJob
    /\ LET p5 == P5Localized(cpu.reply)
       IN  IF p5 = "unsupported" THEN Fail ELSE NextJob(FirstSecret, p5)
    /\ UNCHANGED <<ctl, drive>>

(* Seeded fault: any error will do.                                        *)
SecretAcceptedLax(reply) == Len(reply) = 2 /\ ErrorBit(reply[1])

(* backdoor_cmd: two bytes, an error, and that error.                      *)
SecretAccepted(reply) ==
    Len(reply) = 2 /\ ErrorBit(reply[1]) /\ reply[2] = InvalidCommand

JudgeSecret ==
    /\ cpu.pc = "judge" /\ cpu.job \in SecretJobs
    /\ IF SecretAccepted(cpu.reply) THEN NextJob(cpu.job + 1, cpu.p5) ELSE Fail
    /\ UNCHANGED <<ctl, drive>>

(* Seeded fault: the arguments of the two waits are exchanged.             *)
LidAwaitedExchanged(job) == job = ShutJob

(* wait_lid_status(true), then wait_lid_status(false)                      *)
LidAwaited(job) == job = OpenJob

(* cd_reply is not initialised: of an empty reply anything may be read.    *)
JudgeLid ==
    /\ cpu.pc = "judge" /\ cpu.job \in LidJobs
    /\ \E open \in BOOLEAN :
          /\ cpu.reply # <<>> => open = LidBit(cpu.reply[1])
          /\ NextJob(IF open = LidAwaited(cpu.job) THEN cpu.job + 1 ELSE cpu.job,
                     cpu.p5)
    /\ UNCHANGED <<ctl, drive>>

Callers == InitReturned \/ IntReturned \/ JudgeRegion \/ JudgeSecret \/ JudgeLid

Program == Driver \/ Callers
-----------------------------------------------------------------------------
(* The controller and the mechanism (hardware)                             *)

Take ==
    /\ ctl.busy /\ ctl.exec = NoRequest
    /\ ctl' = [ctl EXCEPT !.busy = FALSE, !.exec = ctl.sent, !.params = <<>>]
    /\ UNCHANGED <<cpu, drive>>

Answered(replies) ==
    ctl' = [ctl EXCEPT !.exec = NoRequest, !.queue = @ \o replies]

IsOpen == drive.lid = "open"

AnswerInit ==
    /\ ctl.exec.op = CmdInit
    /\ Answered(<<Reply(3, <<Stat(FALSE, drive.latch)>>),
                  Reply(2, <<Stat(FALSE, drive.latch)>>)>>)
    /\ UNCHANGED drive

AnswerTest ==
    /\ ctl.exec.op = CmdTest
    /\ Answered(<<Reply(3, RegionText(drive.region))>>)
    /\ UNCHANGED drive

AnswerSecret ==
    /\ ctl.exec.op \in SecretOps
    /\ LET right == /\ ctl.exec.op = CmdSecret + drive.stage
                    /\ ctl.exec.params = SecretOf(drive.region, drive.stage)
       IN  /\ Answered(<<Reply(5, <<Stat(TRUE, drive.latch),
                                    IF right THEN InvalidCommand ELSE WrongParams>>)>>)
           /\ drive' = [drive EXCEPT !.stage = IF right THEN @ + 1 ELSE 0]

AnswerGetstat ==
    /\ ctl.exec.op = CmdGetstat
    /\ Answered(<<Reply(3, <<Stat(FALSE, drive.latch)>>)>>)
    /\ drive' = [drive EXCEPT !.latch = IsOpen]

Refuse ==
    /\ ctl.exec.op \notin {0, CmdGetstat}
    /\ Answered(<<Reply(5, <<Stat(TRUE, drive.latch), NotReady>>)>>)
    /\ UNCHANGED drive

Answer ==
    /\ UNCHANGED cpu
    /\ AnswerInit \/ AnswerTest \/ AnswerSecret \/ AnswerGetstat \/ Refuse

(* The next reply replaces what is left of the last one.                   *)
Present ==
    /\ ctl.flag = 0 /\ ctl.queue # <<>>
    /\ ctl' = [ctl EXCEPT !.flag = Head(ctl.queue).int,
                          !.fifo = Head(ctl.queue).bytes,
                          !.queue = Tail(@)]
    /\ UNCHANGED <<cpu, drive>>

Controller == Take \/ Answer \/ Present

OpenLid ==
    /\ cpu.pc \notin {"failed", "done"}
    /\ ~IsOpen /\ drive.openings < MaxOpenings
    /\ drive' = [drive EXCEPT !.lid = "open", !.latch = TRUE, !.openings = @ + 1,
                              !.cycle = IF @ = "none" THEN "opened" ELSE @]
    /\ \/ UNCHANGED ctl
       \/ ctl' = [ctl EXCEPT !.queue = Append(@, Reply(5, <<Stat(TRUE, TRUE),
                                                            LidOpened>>))]
    /\ UNCHANGED cpu

CloseLid ==
    /\ cpu.pc \notin {"failed", "done"}
    /\ IsOpen
    /\ drive' = [drive EXCEPT !.lid = "closed", !.cycle = "shut"]
    /\ UNCHANGED <<cpu, ctl>>

(* A CD interrupt handler in the kernel's chain, if the controller is      *)
(* allowed to interrupt: it drains the reply and acknowledges.             *)
KernelHandler ==
    /\ ctl.enabled /\ ctl.flag # 0
    /\ ctl' = [ctl EXCEPT !.flag = 0, !.fifo = <<>>]
    /\ UNCHANGED <<cpu, drive>>

(* The loader halts on a failure; after the swap CdInit takes over.        *)
Idle == cpu.pc \in {"failed", "done"} /\ UNCHANGED vars

Next == Program \/ Controller \/ OpenLid \/ CloseLid \/ KernelHandler \/ Idle

Spec == Init /\ [][Next]_vars

(* The processor runs, the controller works through what it is given, and  *)
(* the user does what the screen asks.                                     *)
FairSpec ==
    /\ Spec
    /\ WF_vars(Program) /\ WF_vars(Take) /\ WF_vars(Answer) /\ WF_vars(Present)
    /\ WF_vars(cpu.job = OpenJob /\ OpenLid)
    /\ WF_vars(cpu.job >= OpenJob /\ CloseLid)
-----------------------------------------------------------------------------
P5s == {"none", "(Europe)", "of America", "World wide"}
Strings == {"region", "Licensed by", "Sony", "Computer", "Entertainment", "junk"} \cup P5s
Requests == [op : Ops, params : Seq(Strings)]

TypeOK ==
    /\ cpu.pc \in DriverSteps \cup {"failed", "done"}
    /\ cpu.job \in Jobs
    /\ cpu.second \in BOOLEAN
    /\ cpu.int \in 0 .. 5
    /\ cpu.reply \in Seq(0 .. 255)
    /\ cpu.p5 \in P5s
    /\ ctl.busy \in BOOLEAN /\ ctl.enabled \in BOOLEAN
    /\ ctl.sent \in Requests /\ ctl.exec \in Requests
    /\ ctl.flag \in 0 .. 5
    /\ ctl.fifo \in Seq(0 .. 255)
    /\ drive.stage \in 0 .. 7
    /\ drive.openings \in 0 .. MaxOpenings
    /\ drive.cycle \in {"none", "opened", "shut"}

(* unlock_drive only returns true when the drive has accepted all seven    *)
(* strings in order, whatever replies were pending before and              *)
(* whatever the lid did meanwhile: main never waits for a swap on a drive  *)
(* that would refuse the disc (secondary.c:416-425).                       *)
UnlockSound == cpu.job >= OpenJob => drive.stage = 7

(* The drive never executes a command with parameters other than the ones  *)
(* cd_command was called with.                                             *)
RequestsIntact ==
    ctl.exec # NoRequest =>
        /\ ctl.exec.op = CmdTest => ctl.exec.params = <<"region">>
        /\ ctl.exec.op \in SecretOps =>
              ctl.exec.params = SecretOf(drive.region, ctl.exec.op - CmdSecret)
        /\ ctl.exec.op \in {CmdInit, CmdGetstat} => ctl.exec.params = <<>>

(* The two waits only end once the lid really has been opened and shut:    *)
(* no status from before the opening is taken for the closed lid, although *)
(* replies lag behind commands when the lid's own INT5 is taken for one    *)
(* (secondary.c:133-139).                                                  *)
SwapIsReal == cpu.job = Swapped => drive.cycle = "shut"

(* "Always returns one, no need to check either": the status byte that     *)
(* wait_lid_status tests has been read, not left over on the stack.        *)
ReplyRead == cpu.pc = "judge" => cpu.reply # <<>>

(* A reply and the terminator put behind it stay inside cd_reply, even     *)
(* when the next reply replaces one that is still being read, so that more *)
(* bytes are stored than either has (secondary.c:64, 81-82; cdrom.c:77).   *)
ReplyFits == Len(cpu.reply) + 1 <= ReplySize

(* Polling never waits for an interrupt that has come and gone: every      *)
(* command is answered, so the loader fails or goes on, never hangs.       *)
CommandsAnswered == cpu.pc = "command" ~> cpu.pc \in {"returned", "failed"}

(* However briefly the lid is open, the wait for it ends, and once the lid *)
(* stays shut so does the wait for that.                                   *)
SwapNoticed == cpu.job = OpenJob ~> cpu.job = Swapped
=============================================================================
