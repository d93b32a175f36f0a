-------------------------- MODULE LoaderProperties --------------------------
(***************************************************************************)
(* What makes the loader correct: the properties the runs check, the       *)
(* abstract promise it implements, and the inductive invariant from which  *)
(* LoaderProofs derives the safety properties.                             *)
(***************************************************************************)
EXTENDS Loader

Fcbs == {NoFile} \cup
            UNION {{Fcb(d, file) : file \in DOMAIN Executable[d]} : d \in Discs}

(* The type invariant.                                                     *)
TypeOK ==
    /\ pc \in Labels
    /\ inLoop \in BOOLEAN
    /\ integrityOk \in BOOLEAN
    /\ console \in Consoles
    /\ kernel \in Kernel
    /\ video \in Videos
    /\ boot \in [conf : [Keys -> ConfWords], bootfile : BootFiles,
                 pal : BOOLEAN, fcb : Fcbs, header : Header, sp : ConfWords]
    /\ ram \in [from : SUBSET [disc : Discs, file : BootFiles \cup {"stray"}],
                hit : SUBSET {"loader", "kernel"},
                stale : SUBSET {"body", "patch", "putchar"}]
    /\ drive \in [lid : {"open", "closed"}, disc : Discs \cup {NoDisc},
                  shell : BOOLEAN, steady : BOOLEAN]
-----------------------------------------------------------------------------
(* Correctness                                                             *)

(* No interrupt ever finds the call tables half-copied or the thread       *)
(* control blocks half-built: the trampoline at 0x80 survives both SetConf *)
(* calls (bios.c:26-104, secondary.c:282-293).                             *)
KernelNeverTorn == ~kernel.wrecked

(* The CD interrupt handler is never in the chain twice, whatever sequence *)
(* of reinitialisations, CdInit and SetConf has run (bios.c:78-84).        *)
CdHandlerOnce == kernel.cdHandlers <= 1

(* Wherever try_boot_cd sleeps for the drive, the interrupt that wakes it  *)
(* can arrive: interrupts are on and the CD handler is in the chain.       *)
ReadsCanFinish == pc \in CdReads => CanReadCd(kernel)

(* While the loader polls the drive itself, no CD interrupt handler of the *)
(* kernel is there to take the reply first: none is enqueued before CdInit *)
(* (bios.c:87-90, secondary.c:130).                                        *)
PollingUndisturbed ==
    pc \in {"driveInit", "unlock", "waitOpen", "waitClosed", "cdInit"}
        => kernel.cdHandlers = 0

(* original_disc_error holds the ROM's handler from its first assignment   *)
(* on, never the game's and never our own, over any number of retries      *)
(* (bios.c:107, secondary.c:436-437).                                      *)
Prologue == {"start"} \cup ReinitSteps

SavedHandlerGenuine ==
    pc \notin Prologue \/ inLoop => kernel.savedDiscError = "rom"

(* A read error inside try_boot_cd always comes back to it: the logging    *)
(* handler is in place at every read but those of LoadAndExecute.          *)
ReadErrorsReturn ==
    /\ pc # "lockup"
    /\ pc \in CdReads \ {"loadAndExecute"} => kernel.discError = "logging"

(* No file is open but the one being read: the handle a failed body read   *)
(* leaves open (secondary.c:369-373) is gone by the next attempt.          *)
HandlesInUse ==
    /\ pc = "cnfRead" => kernel.open = {"cnf"}
    /\ pc \in {"exeRead", "exeLoad", "loadAndExecute"} => kernel.open = {"exe"}
    /\ pc \in {"region", "cnfOpen", "exeOpen"} => kernel.open = {}

(* DoExecute hands over a kernel like the stock one: interrupts off, ROM   *)
(* handlers, one CD handler, no open file, 8 MB, and no patch but the      *)
(* loader's own, on any retry and whatever game was exploited.             *)
LaunchClean ==
    pc = "game" =>
        /\ ~kernel.irq
        /\ kernel.discError = "rom" /\ kernel.enqueueCd = "rom"
        /\ kernel.cdHandlers = 1
        /\ kernel.open = {}
        /\ kernel.memSize = 8
        /\ kernel.hooks = AntipiracyHook(console, boot.bootfile)
                            \cup FreePsxBootHook(console)

(* The processor executes what was written: nothing loaded or patched is   *)
(* left unflushed when the game starts (secondary.c:386-395).              *)
LaunchCoherent == pc = "game" => ram.stale = {}

(* A body whose header puts it in KSEG0, at an end that does not wrap,     *)
(* never overwrites the loader that is reading it (secondary.c:344).       *)
LoaderSpared ==
    InKseg0(boot.header) /\ NoWrap(boot.header) => "loader" \notin ram.hit

(* With SOFTUART_PATCH the new putchar is in the kernel's memory in every  *)
(* attempt: each reinitialisation undoes the patch, each turn of the loop  *)
(* redoes it.                                                              *)
UartAlive ==
    SoftUart /\ pc \in {"waitOpen", "waitClosed", "cdInit", "critical"} \cup CdReads
        => kernel.putc = "uart"

(* The comment at secondary.c:342: "If the file overlaps tonyhax, we will  *)
(* use the unstable LoadAndExecute function".                              *)
OverlapUsesLoadAndExecute ==
    pc = "exeLoad" => "loader" \notin Hits(boot.header)

(* Asked for a disc, the user is always answered: once the lid has been    *)
(* opened and shut the attempt starts.                                     *)
LidIsSeen == pc = "waitOpen" ~> pc = "cdInit"

(* Every attempt ends: the game runs, or the user is asked again, or only  *)
(* the unstable path or an overwritten loader stop the console.            *)
AttemptEnds ==
    pc = "cdInit" ~> pc \in {"game", "waitOpen", "buggyGame", "buggyLockup",
                             "corrupted"}
-----------------------------------------------------------------------------
(* The loader implements BootPromise.                                      *)
Booting == {"cdInit", "critical", "conf", "confEnd", "clear", "exeCheck",
            "buggyVideo", "buggyRestore", "patch", "video", "restore",
            "launchEnter", "flush", "exec"} \cup CdReads

(* Started by DoExecute, and by LoadAndExecute.                            *)
Games == {"game", "buggyGame"}

Phase ==
    IF pc \in {"waitOpen", "waitClosed"} THEN "asking"
    ELSE IF pc \in Booting THEN "booting"
    ELSE IF pc \in Games THEN "running"
    ELSE IF pc \in Stopped THEN "stopped"
    ELSE "preparing"

NoRun == [conf |-> DefaultConf, sp |-> "none", video |-> "none", image |-> {}]

Run == IF pc \in Games THEN [conf |-> kernel.conf, sp |-> boot.sp,
                             video |-> video, image |-> ram.from]
       ELSE NoRun

WantedConf(d) ==
    IF SystemCnf[d].present THEN ConfFrom(SystemCnf[d], DefaultConf) ELSE DefaultConf

WantedFile(d) ==
    IF SystemCnf[d].present THEN BootFileFrom(SystemCnf[d], "PSX.EXE") ELSE "PSX.EXE"

VideoOf(pal) == IF pal THEN "PAL" ELSE "NTSC"

(* A disc without the file it names is not to be run at all.               *)
Wanted ==
    [d \in Discs |->
        IF WantedFile(d) \in DOMAIN Executable[d]
        THEN [conf  |-> WantedConf(d),
              sp    |-> WantedConf(d)["STACK"],
              video |-> VideoOf(Region[d] = "E"),
              image |-> {Image(d, WantedFile(d))}]
        ELSE NoRun]

Promise == INSTANCE BootPromise
               WITH phase <- Phase, run <- Run,
                    lid <- drive.lid, disc <- drive.disc, steady <- drive.steady

(* Every behaviour of the loader is one BootPromise allows.                *)
ImplementsPromise == Promise!Spec
-----------------------------------------------------------------------------
(* The inductive invariant: what is known of the machine at each place of  *)
(* the program.  Each part says of one piece of state where on the way     *)
(* around the loop it has which value.                                     *)

(* Interrupts are off exactly inside the critical sections.                *)
Critical == {"reBegin", "reKernel", "reA0", "reEnd", "reDevices", "reHook",
             "reConf", "reConfEnd", "reUnhook", "reMem", "reExit",
             "conf", "confEnd", "flush", "exec", "game"}

InterruptPart ==
    /\ kernel.irq <=> pc \notin Critical
    /\ kernel.unmasked <=> pc \notin {"reHook", "reConf", "reConfEnd"}
    /\ ~kernel.wrecked
    /\ kernel.rebuilding = "tables" <=> pc \in {"reKernel", "reA0", "reEnd"}
    /\ kernel.rebuilding = "tcbs" <=> pc \in {"reConfEnd", "confEnd"}

(* The A table is the game's only until bios_copy_a0_table, and holds the  *)
(* fake EnqueueCdIntr only around the SetConf of bios_reinitialize.        *)
TablesPending == {"start", "reEnter", "reBegin", "reKernel", "reA0"}
Faked == {"reConf", "reConfEnd", "reUnhook"}

EnqueuePart ==
    /\ pc \in Faked => kernel.enqueueCd = "fake" /\ kernel.savedEnqueueCd = "rom"
    /\ pc \notin Faked \cup TablesPending => kernel.enqueueCd = "rom"

(* The CD handler is out of the chain from one SetConf to CdInit, and in   *)
(* it once from there to the end of the attempt.                           *)
Unchained == {"reConfEnd", "reUnhook", "reMem", "reExit", "reSave", "init", "gate",
              "inject", "driveInit", "unlock", "loop", "waitOpen", "waitClosed",
              "cdInit", "confEnd"}
Chained == (Booting \cup {"game"}) \ {"cdInit", "confEnd"}

ChainPart ==
    /\ kernel.cdHandlers <= 1
    /\ pc \in Unchained => kernel.cdHandlers = 0
    /\ pc \in Chained => kernel.cdHandlers = 1

(* The stock disc error handler is in place from bios_copy_a0_table to     *)
(* bios_inject_disc_error and from bios_restore_disc_error on; ours is in  *)
(* between; the saved one is stock from the end of the first               *)
(* reinitialisation.                                                       *)
Stock == {"reEnd", "reDevices", "reHook", "reConf", "reConfEnd", "reUnhook",
          "reMem", "reExit", "reSave", "init", "gate", "inject",
          "loadAndExecute", "launchEnter", "flush", "exec", "game"}
Logging == ({"driveInit", "unlock", "loop", "waitOpen", "waitClosed"} \cup Booting)
             \ Stock

HandlerPart ==
    /\ pc \in Stock => kernel.discError = "rom"
    /\ pc \in Logging => kernel.discError = "logging"
    /\ pc \notin Prologue \/ inLoop => kernel.savedDiscError = "rom"
    /\ pc # "lockup"

(* main runs its prologue once.                                            *)
LoopPart ==
    /\ pc \in {"loop", "waitOpen", "waitClosed"} \cup Booting => inLoop
    /\ pc \in {"start", "init", "gate", "driveInit", "unlock"} => ~inLoop

(* Files: what is leaked at the end of an attempt is gone before the next. *)
OpenPending == {"start", "reEnter", "reBegin", "reKernel", "reA0", "reEnd", "reDevices"}
ExeOpen == {"exeRead", "exeCheck", "exeLoad", "buggyVideo", "buggyRestore",
            "loadAndExecute"}

FilesPart ==
    /\ pc = "cnfRead" => kernel.open = {"cnf"}
    /\ pc \in ExeOpen => kernel.open = {"exe"}
    /\ pc \notin OpenPending \cup ExeOpen \cup Stopped \cup {"cnfRead"} =>
          kernel.open = {}
    /\ pc = "game" => kernel.open = {}

(* Patches and memory size.                                                *)
Patched == {"video", "restore", "launchEnter", "flush", "exec", "game"}

PatchPart ==
    /\ pc \in Patched => kernel.hooks = AntipiracyHook(console, boot.bootfile)
                                          \cup FreePsxBootHook(console)
    /\ pc \notin Patched \cup Stopped \cup {"start", "reEnter", "reBegin", "reKernel"} =>
          kernel.hooks = {}
    /\ pc \notin Prologue => kernel.memSize = 8
    /\ pc \in {"reExit", "reSave"} => kernel.memSize = 8
    /\ pc \in {"exec", "game"} => ram.stale = {}
    /\ SoftUart /\ pc \in {"waitOpen", "waitClosed"} \cup Booting =>
          kernel.putc = "uart"

(* The body is only read where it fits, and nothing is overwritten before. *)
RamPart ==
    /\ pc = "exeLoad" => ~WontFit(boot.header)
    /\ pc # "corrupted" => ram.hit = {}
    /\ LoaderSpared

ControlInv ==
    /\ InterruptPart /\ EnqueuePart /\ ChainPart /\ HandlerPart
    /\ LoopPart /\ FilesPart /\ PatchPart /\ RamPart

(* What is known of the attempt: as long as the lid has stayed shut, the   *)
(* options, the boot file, the file that is open, the standard and the     *)
(* memory are those of the disc inside.                                    *)
LidPart ==
    /\ drive.steady => drive.lid = "closed" /\ ~drive.shell
    /\ pc = "waitClosed" => ~drive.steady

Identified == Booting \ {"cdInit", "region"}
Configured == Identified \ {"cnfOpen", "cnfRead"}
Buggy      == {"buggyVideo", "buggyRestore", "loadAndExecute"}
Loaded     == {"patch", "video", "restore", "launchEnter", "flush", "exec"}
Cleared    == {"exeOpen", "exeRead", "exeCheck", "exeLoad"} \cup Buggy
HeaderRead == {"exeCheck", "exeLoad"} \cup Buggy \cup Loaded
FileChosen == {"exeRead"} \cup HeaderRead

OptionsPart ==
    /\ pc \in {"cnfOpen", "cnfRead"} =>
          boot.conf = DefaultConf /\ boot.bootfile = "PSX.EXE"
    /\ drive.steady /\ pc \in Identified =>
          drive.disc \in Discs /\ boot.pal = (Region[drive.disc] = "E")
    /\ drive.steady /\ pc = "cnfRead" => SystemCnf[drive.disc].present
    /\ drive.steady /\ pc \in Configured =>
          /\ boot.conf = WantedConf(drive.disc)
          /\ boot.bootfile = WantedFile(drive.disc)

MemoryPart ==
    /\ pc \in Cleared => ram.from = {}
    /\ pc \in Loaded => ram.from # {}
    /\ drive.steady /\ pc \in FileChosen =>
          /\ boot.bootfile \in DOMAIN Executable[drive.disc]
          /\ boot.fcb = Fcb(drive.disc, boot.bootfile)
    /\ drive.steady /\ pc \in Loaded =>
          ram.from = {Image(drive.disc, boot.bootfile)}

HandOverPart ==
    /\ pc \in {"clear", "exeOpen", "exeRead"} \cup HeaderRead =>
          kernel.conf = boot.conf
    /\ pc \in HeaderRead => boot.sp = boot.conf["STACK"]
    /\ pc \in {"buggyRestore", "loadAndExecute", "restore", "launchEnter",
               "flush", "exec"} => video = VideoOf(boot.pal)

AttemptInv == LidPart /\ OptionsPart /\ MemoryPart /\ HandOverPart

(* The inductive invariant as a whole.                                     *)
IInv == TypeOK /\ ControlInv /\ AttemptInv
=============================================================================
