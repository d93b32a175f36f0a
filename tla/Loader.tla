------------------------------- MODULE Loader -------------------------------
(***************************************************************************)
(* The secondary loader (loader/secondary.c with bios.c): start, main,     *)
(* bios_reinitialize and try_boot_cd as one sequential program, together   *)
(* with what it cannot control: the interrupts of the console and the user *)
(* who opens the lid, swaps discs and closes it whenever they like.        *)
(*                                                                         *)
(* One value of pc stands for the code up to the next call whose effect    *)
(* another actor can see or disturb.  Calls that read the CD either        *)
(* succeed or fail; which one is not ours to say, except that nothing is   *)
(* read from an open drive.                                                *)
(***************************************************************************)
EXTENDS BiosKernel, ExeImage

CONSTANTS Discs, NoDisc, BootFiles, Unset,
          Region,       \* the licence text of a disc: its character at 0x3C
          SystemCnf,    \* what config_get_hex and config_get_string find
          Executable,   \* the files on a disc, with their headers and sizes
          Strays,       \* what is found where another disc has the open file
          Consoles,     \* what the loader may be running on
          SoftUart      \* built with SOFTUART_PATCH

(* imageGood: the CRC over the loader as stage 1 read it is the right one; *)
(* knownVerifier: the ROM's syscall verifier is the code patcher.c knows.  *)
Console == [european : BOOLEAN, ps1 : BOOLEAN,
            knownVerifier : BOOLEAN, imageGood : BOOLEAN]

CnfFile == [present  : BOOLEAN,
            conf     : [Keys -> ConfWords \cup {Unset}],
            bootfile : BootFiles \cup {Unset}]

ASSUME NoDiscAssumption == NoDisc \notin Discs
ASSUME RegionAssumption == Region \in [Discs -> {"E", "A", "I", "other"}]
ASSUME SystemCnfAssumption == SystemCnf \in [Discs -> CnfFile]
ASSUME ExecutableAssumption ==
    \A d \in Discs :
        /\ DOMAIN Executable[d] \subseteq BootFiles
        /\ \A file \in DOMAIN Executable[d] :
              /\ Executable[d][file].header \in Header
              /\ Executable[d][file].fileSize \in Address
ASSUME StraysAssumption == Strays \subseteq Header
ASSUME BootFileAssumption == "PSX.EXE" \in BootFiles
ASSUME ConsolesAssumption == Consoles \subseteq Console
ASSUME SoftUartAssumption == SoftUart \in BOOLEAN

VARIABLES
    pc,           \* where the program is
    inLoop,       \* the while loop of main has been entered
    integrityOk,  \* integrity_ok
    console,      \* what the program runs on, never changed
    kernel,       \* see BiosKernel
    video,        \* the GPU's standard, what gpu_is_pal reads
    boot,         \* the locals of try_boot_cd
    ram,          \* from: the programs with bytes in user memory; hit: what a
                  \* body has overwritten; stale: code written, cache not flushed
    drive         \* shell: the drive's memory of an open lid, until the next
                  \* status after it is shut; steady: the lid has stayed shut
                  \* since try_boot_cd saw it close, or since the start

vars == <<pc, inLoop, integrityOk, console, kernel, video, boot, ram, drive>>

NoHeader == [load |-> 0, size |-> 0, entry |-> 0, aligned |-> TRUE]

(* What a file control block (exe_fcb) holds of the file opened.           *)
Fcb(d, file) == [disc |-> d, file |-> file, size |-> Executable[d][file].fileSize]

NoFile == [disc |-> NoDisc, file |-> "PSX.EXE", size |-> 0]

DefaultBoot == [conf |-> DefaultConf, bootfile |-> "PSX.EXE", pal |-> FALSE,
                fcb |-> NoFile, header |-> NoHeader, sp |-> DefaultConf["STACK"]]

(* Places where the program has stopped: the game runs, the program sits   *)
(* in the while(1) of start, the stock disc error handler has locked the   *)
(* console, or the code that would run next has been overwritten.          *)
Stopped == {"game", "buggyGame", "halted", "lockup", "buggyLockup", "corrupted"}

ReinitSteps == {"reEnter", "reBegin", "reKernel", "reA0", "reEnd", "reDevices",
                "reHook", "reConf", "reConfEnd", "reUnhook", "reMem", "reExit",
                "reSave"}

(* Where try_boot_cd waits for the CD interrupt.                           *)
CdReads == {"region", "cnfOpen", "cnfRead", "exeOpen", "exeRead", "exeLoad",
            "loadAndExecute"}

Labels == ReinitSteps \cup CdReads \cup Stopped \cup
          {"start", "init", "gate", "inject", "driveInit", "unlock", "loop",
           "waitOpen", "waitClosed", "cdInit", "critical", "conf", "confEnd",
           "clear", "exeCheck", "buggyVideo", "buggyRestore", "patch",
           "video", "restore", "launchEnter", "flush", "exec"}

Videos == {"PAL", "NTSC"}
-----------------------------------------------------------------------------
(* Stage 1 or an exploited game jumps to start: the kernel is the game's,  *)
(* with its handlers, memory size and patches, in working order; its disc  *)
(* is in the drive, and it has seen every opening of the lid so far.       *)
Init ==
    /\ pc = "start"
    /\ inLoop = FALSE
    /\ integrityOk = FALSE
    /\ console \in Consoles
    /\ \E table \in {"rom", "game"}, size \in {2, 8}, handlers \in {0, 1} :
          kernel = [irq |-> TRUE, unmasked |-> TRUE, rebuilding |-> "none",
                    wrecked |-> FALSE, discError |-> table,
                    savedDiscError |-> "null", enqueueCd |-> table,
                    savedEnqueueCd |-> "null", cdHandlers |-> handlers,
                    conf |-> DefaultConf,
                    hooks |-> IF table = "game" THEN {"game"} ELSE {},
                    putc |-> "rom", memSize |-> size, open |-> {}]
    /\ video \in Videos
    /\ boot = DefaultBoot
    /\ ram = [from |-> {}, hit |-> {}, stale |-> {}]
    /\ \E disc \in Discs \cup {NoDisc} :
          drive = [lid |-> "closed", disc |-> disc, shell |-> FALSE, steady |-> TRUE]
-----------------------------------------------------------------------------
(* Steps that only change the kernel.                                      *)
KernelStep(from, to, k) ==
    /\ pc = from
    /\ pc' = to
    /\ kernel' = k
    /\ UNCHANGED <<inLoop, integrityOk, console, video, boot, ram, drive>>

ReEnter == KernelStep("reEnter", "reBegin", EnterCriticalSection(kernel))
ReBegin == KernelStep("reBegin", "reKernel", BeginTables(kernel))
ReKernel == KernelStep("reKernel", "reA0", CopyRelocatedKernel(kernel))
ReA0 == KernelStep("reA0", "reEnd", CopyA0Table(kernel))
ReEnd == KernelStep("reEnd", "reDevices", EndTables(kernel))

(* Seeded fault: a handle leaked by the last attempt stays open.           *)
ReDevicesMissing == KernelStep("reDevices", "reHook", MaskInterrupts(kernel))

ReDevices ==
    KernelStep("reDevices", "reHook", InstallDevices(MaskInterrupts(kernel)))
ReHook == KernelStep("reHook", "reConf", HookEnqueueCd(kernel))
ReConf == KernelStep("reConf", "reConfEnd", BeginSetConf(kernel))
ReConfEnd ==
    KernelStep("reConfEnd", "reUnhook", EndSetConf(kernel, DefaultConf))
ReUnhook == KernelStep("reUnhook", "reMem", UnhookEnqueueCd(kernel))
ReMem == KernelStep("reMem", "reExit", SetMemSize(kernel, 8))
ReExit == KernelStep("reExit", "reSave", ExitCriticalSection(kernel))
ReSave == KernelStep("reSave", IF inLoop THEN "inject" ELSE "init",
                     SaveDiscError(kernel))

bios_reinitialize ==
    \/ ReEnter \/ ReBegin \/ ReKernel \/ ReA0 \/ ReEnd \/ ReDevices \/ ReHook
    \/ ReConf \/ ReConfEnd \/ ReUnhook \/ ReMem \/ ReExit \/ ReSave
-----------------------------------------------------------------------------
(* Steps that change nothing but pc.                                       *)
Goto(from, to) ==
    /\ pc = from
    /\ pc' = to
    /\ UNCHANGED <<inLoop, integrityOk, console, kernel, video, boot, ram,
                   drive>>

(* start: the .bss is cleared and the image checked before main runs.      *)
Start ==
    /\ pc = "start"
    /\ pc' = "reEnter"
    /\ integrityOk' = console.imageGood
    /\ UNCHANGED <<inLoop, console, kernel, video, boot, ram, drive>>

(* audio_halt and debug_init, which picks the console's own standard.      *)
InitScreen ==
    /\ pc = "init"
    /\ pc' = "gate"
    /\ video' = IF console.european THEN "PAL" ELSE "NTSC"
    /\ UNCHANGED <<inLoop, integrityOk, console, kernel, boot, ram, drive>>

IntegrityGate == Goto("gate", IF integrityOk THEN "inject" ELSE "halted")

(* Seeded faults: the handler is injected once, before the loop; the       *)
(* softUART is patched in once, before the loop.                           *)
InjectOnce == KernelStep("inject", IF inLoop THEN "loop" ELSE "driveInit",
                         IF inLoop THEN kernel ELSE InjectDiscError(kernel))
InjectPastLoop == KernelStep("inject", IF inLoop THEN "waitOpen" ELSE "driveInit",
                             InjectDiscError(kernel))

Inject == KernelStep("inject", IF inLoop THEN "loop" ELSE "driveInit",
                     InjectDiscError(kernel))

(* The drive commands themselves are module CdDrive.                       *)
DriveInit == \E ok \in BOOLEAN : Goto("driveInit", IF ok THEN "unlock" ELSE "halted")

Unlock ==
    /\ pc = "unlock"
    /\ \E ok \in BOOLEAN :
          /\ pc' = IF ok THEN "loop" ELSE "halted"
          /\ inLoop' = ok
    /\ UNCHANGED <<integrityOk, console, kernel, video, boot, ram, drive>>

(* The head of the while loop.  The new putchar is not flushed either.     *)
Loop ==
    /\ pc = "loop"
    /\ pc' = "waitOpen"
    /\ IF SoftUart
       THEN /\ kernel' = PatcherApplySoftUart(kernel)
            /\ ram' = [ram EXCEPT !.stale = @ \cup {"putchar"}]
       ELSE UNCHANGED <<kernel, ram>>
    /\ UNCHANGED <<inLoop, integrityOk, console, video, boot, drive>>
-----------------------------------------------------------------------------
(* try_boot_cd                                                             *)

(* A status read in state d: the bit it shows is cleared by the reading,   *)
(* once the lid is shut.                                                   *)
StatusRead(d) == [d EXCEPT !.shell = (d.lid = "open")]

LidStep(from, to, d) ==
    /\ pc = from
    /\ pc' = to
    /\ drive' = d
    /\ UNCHANGED <<inLoop, integrityOk, console, kernel, video, boot, ram>>

(* The lid is open, or has been since the last status.                     *)
WaitOpen == drive.shell /\ LidStep("waitOpen", "waitClosed", StatusRead(drive))

(* Seeded fault: the two waits ask for the same status.                    *)
WaitClosedWrong ==
    /\ drive.shell
    /\ LidStep("waitClosed", "cdInit", [StatusRead(drive) EXCEPT !.steady = TRUE])

(* The polls before this one have cleared the memory.                      *)
WaitClosed ==
    /\ drive.lid = "closed"
    /\ LidStep("waitClosed", "cdInit", [StatusRead(drive) EXCEPT !.steady = TRUE])

(* CdInit reconfigures the CD first and then may still fail.               *)
CallCdInit ==
    \E ok \in BOOLEAN :
        KernelStep("cdInit", IF ok THEN "region" ELSE "reEnter", CdInit(kernel))

Readable == drive.lid = "closed" /\ drive.disc # NoDisc

(* A failed read calls A0[0xA1]: the logging handler returns and the call  *)
(* reports an error, the stock one never returns.                          *)
ReadFails(from, k) ==
    /\ pc = from
    /\ CanReadCd(kernel)
    /\ IF kernel.discError = "logging"
       THEN pc' = "reEnter" /\ kernel' = k
       ELSE pc' = "lockup" /\ UNCHANGED kernel

(* Seeded fault: the boot file of the last disc is the default of the next. *)
CheckRegionStale ==
    /\ UNCHANGED <<inLoop, integrityOk, console, video, ram, drive>>
    /\ \/ /\ pc = "region"
          /\ CanReadCd(kernel)
          /\ Readable
          /\ pc' = "cnfOpen"
          /\ boot' = [DefaultBoot EXCEPT !.pal = (Region[drive.disc] = "E"),
                                         !.bootfile = boot.bootfile]
          /\ UNCHANGED kernel
       \/ ReadFails("region", kernel) /\ UNCHANGED boot

(* Sector 4 names the region; every attempt starts from the defaults.      *)
CheckRegion ==
    /\ UNCHANGED <<inLoop, integrityOk, console, video, ram, drive>>
    /\ \/ /\ pc = "region"
          /\ CanReadCd(kernel)
          /\ Readable
          /\ pc' = "cnfOpen"
          /\ boot' = [DefaultBoot EXCEPT !.pal = (Region[drive.disc] = "E")]
          /\ UNCHANGED kernel
       \/ ReadFails("region", kernel) /\ UNCHANGED boot

(* Only FILEERR_NOT_FOUND goes on without the file.  The ROM may answer it *)
(* for an unreadable drive, or answer some other error.                    *)
OpenCnf ==
    /\ UNCHANGED <<inLoop, integrityOk, console, video, boot, ram, drive>>
    /\ \/ /\ pc = "cnfOpen"
          /\ CanReadCd(kernel)
          /\ \/ /\ Readable
                /\ SystemCnf[drive.disc].present
                /\ pc' = "cnfRead"
                /\ kernel' = FileOpened(kernel, "cnf")
             \/ /\ Readable => ~SystemCnf[drive.disc].present
                /\ pc' = "critical"
                /\ UNCHANGED kernel
       \/ ReadFails("cnfOpen", kernel)

(* Each of the four keys found replaces its default.                       *)
ConfFrom(cnf, conf) ==
    [key \in Keys |-> IF cnf.conf[key] = Unset THEN conf[key] ELSE cnf.conf[key]]

BootFileFrom(cnf, bootfile) ==
    IF cnf.bootfile = Unset THEN bootfile ELSE cnf.bootfile

ReadCnf ==
    /\ UNCHANGED <<inLoop, integrityOk, console, video, ram, drive>>
    /\ \/ /\ pc = "cnfRead"
          /\ CanReadCd(kernel)
          /\ Readable
          /\ pc' = "critical"
          /\ kernel' = FileClose(kernel, "cnf")
          /\ boot' = [boot EXCEPT
                        !.conf = ConfFrom(SystemCnf[drive.disc], @),
                        !.bootfile = BootFileFrom(SystemCnf[drive.disc], @)]
       \/ ReadFails("cnfRead", FileClose(kernel, "cnf")) /\ UNCHANGED boot

(* Seeded fault: the kernel is configured with interrupts enabled.         *)
EnterForSetConfMissing == Goto("critical", "conf")

EnterForSetConf == KernelStep("critical", "conf", EnterCriticalSection(kernel))
SetConfBegin == KernelStep("conf", "confEnd", BeginSetConf(kernel))
SetConfEnd == KernelStep("confEnd", "clear", EndSetConf(kernel, boot.conf))

ClearRam ==
    /\ pc = "clear"
    /\ pc' = "exeOpen"
    /\ ram' = [ram EXCEPT !.from = {}]
    /\ UNCHANGED <<inLoop, integrityOk, console, kernel, video, boot, drive>>

OnDisc(file) == Readable /\ file \in DOMAIN Executable[drive.disc]

(* FileOpen(bootfile).  Where the file is missing no read need fail for it *)
(* to give up; it may give up on an unreadable drive as well.              *)
OpenExe ==
    /\ UNCHANGED <<inLoop, integrityOk, console, video, ram, drive>>
    /\ \/ /\ pc = "exeOpen"
          /\ CanReadCd(kernel)
          /\ \/ /\ OnDisc(boot.bootfile)
                /\ pc' = "exeRead"
                /\ kernel' = FileOpened(kernel, "exe")
                /\ boot' = [boot EXCEPT !.fcb = Fcb(drive.disc, boot.bootfile)]
             \/ pc' = "reEnter" /\ UNCHANGED <<kernel, boot>>
       \/ ReadFails("exeOpen", kernel) /\ UNCHANGED boot

(* The file control block only says where on the disc the file begins.     *)
SameDisc == drive.disc = boot.fcb.disc

FirstSector ==
    IF SameDisc THEN {Executable[drive.disc][boot.fcb.file].header} ELSE Strays

(* The header, with the stack of SYSTEM.CNF and the size the file allows.  *)
WithHeader(b, header) ==
    [b EXCEPT !.header = CapSize(header, b.fcb.size), !.sp = b.conf["STACK"]]

ReadExe ==
    /\ UNCHANGED <<inLoop, integrityOk, console, video, ram, drive>>
    /\ \/ /\ pc = "exeRead"
          /\ CanReadCd(kernel)
          /\ Readable
          /\ pc' = "exeCheck"
          /\ \E header \in FirstSector : boot' = WithHeader(boot, header)
          /\ UNCHANGED kernel
       \/ ReadFails("exeRead", FileClose(kernel, "exe")) /\ UNCHANGED boot

CheckExe ==
    \/ ~ExeFileOkay(boot.header)
         /\ KernelStep("exeCheck", "reEnter", FileClose(kernel, "exe"))
    \/ ExeFileOkay(boot.header) /\ WontFit(boot.header)
         /\ Goto("exeCheck", "buggyVideo")
    \/ ExeFileOkay(boot.header) /\ ~WontFit(boot.header)
         /\ Goto("exeCheck", "exeLoad")

(* gpu_is_pal is compared with the game's region, not with the console's.  *)
SwitchVideo(from, to) ==
    /\ pc = from
    /\ pc' = to
    /\ video' = IF boot.pal # (video = "PAL")
                THEN (IF boot.pal THEN "PAL" ELSE "NTSC") ELSE video
    /\ UNCHANGED <<inLoop, integrityOk, console, kernel, boot, ram, drive>>

(* The unstable path: nothing is patched or flushed, exe_fd stays open.    *)
BuggyVideo == SwitchVideo("buggyVideo", "buggyRestore")
BuggyRestore ==
    KernelStep("buggyRestore", "loadAndExecute", RestoreDiscError(kernel))

Image(d, file) == [disc |-> d, file |-> file]

(* LoadAndExecute opens the boot file again.  It starts the game, or gives *)
(* up before the body is read and returns, or meets a read error under the *)
(* stock handler.                                                          *)
LoadAndExecute ==
    /\ pc = "loadAndExecute"
    /\ CanReadCd(kernel)
    /\ \/ /\ OnDisc(boot.bootfile)
          /\ pc' = "buggyGame"
          /\ ram' = [ram EXCEPT !.from = @ \cup {Image(drive.disc, boot.bootfile)}]
       \/ pc' = "reEnter" /\ UNCHANGED ram
       \/ /\ pc' = IF kernel.discError = "logging" THEN "corrupted" ELSE "buggyLockup"
          /\ UNCHANGED ram
    /\ UNCHANGED <<inLoop, integrityOk, console, kernel, video, boot, drive>>

Body == Image(drive.disc, IF SameDisc THEN boot.fcb.file ELSE "stray")

(* The body goes where the header says.  On an error the handle stays      *)
(* open, and part of the body may be in memory.                            *)
LoadExe ==
    /\ pc = "exeLoad"
    /\ CanReadCd(kernel)
    /\ UNCHANGED <<inLoop, integrityOk, console, video, boot, drive>>
    /\ LET loaded == [from  |-> ram.from \cup {Body},
                      hit   |-> ram.hit \cup Hits(boot.header),
                      stale |-> ram.stale \cup {"body"}]
       IN  \/ /\ Readable
              /\ ram' = loaded
              /\ IF loaded.hit = {}
                 THEN pc' = "patch" /\ kernel' = FileClose(kernel, "exe")
                 ELSE pc' = "corrupted" /\ UNCHANGED kernel
           \/ /\ ram' = ram \/ (Readable /\ ram' = loaded)
              /\ IF ram'.hit = {} THEN ReadFails("exeLoad", kernel)
                 ELSE pc' = "corrupted" /\ UNCHANGED kernel

Patch ==
    /\ pc = "patch"
    /\ pc' = "video"
    /\ kernel' = PatcherApply(kernel, console, boot.bootfile)
    /\ ram' = [ram EXCEPT !.stale = @ \cup {"patch"}]
    /\ UNCHANGED <<inLoop, integrityOk, console, video, boot, drive>>

VideoForGame == SwitchVideo("video", "restore")
(* Seeded faults: the logging handler is handed to the game; the cache is  *)
(* flushed before nothing.                                                 *)
RestoreMissing == Goto("restore", "launchEnter")
FlushMissing == Goto("flush", "exec")

Restore == KernelStep("restore", "launchEnter", RestoreDiscError(kernel))
LaunchEnter == KernelStep("launchEnter", "flush", EnterCriticalSection(kernel))

Flush ==
    /\ pc = "flush"
    /\ pc' = "exec"
    /\ ram' = [ram EXCEPT !.stale = {}]
    /\ UNCHANGED <<inLoop, integrityOk, console, kernel, video, boot, drive>>

Execute == Goto("exec", "game")

try_boot_cd ==
    \/ WaitOpen \/ WaitClosed \/ CallCdInit \/ CheckRegion \/ OpenCnf
    \/ ReadCnf \/ EnterForSetConf \/ SetConfBegin \/ SetConfEnd \/ ClearRam
    \/ OpenExe \/ ReadExe \/ CheckExe \/ BuggyVideo \/ BuggyRestore
    \/ LoadAndExecute \/ LoadExe \/ Patch \/ VideoForGame \/ Restore
    \/ LaunchEnter \/ Flush \/ Execute

main == InitScreen \/ IntegrityGate \/ Inject \/ DriveInit \/ Unlock \/ Loop

Program == Start \/ main \/ bios_reinitialize \/ try_boot_cd
-----------------------------------------------------------------------------
(* The world around the program.                                           *)

(* Any interrupt: the timer, the VBlank, the drive.                        *)
Interrupt ==
    /\ pc \notin Stopped
    /\ CanInterrupt(kernel)
    /\ kernel' = Interrupted(kernel)
    /\ UNCHANGED <<pc, inLoop, integrityOk, console, video, boot, ram, drive>>

User(d) ==
    /\ pc \notin Stopped
    /\ drive' = d
    /\ UNCHANGED <<pc, inLoop, integrityOk, console, kernel, video, boot, ram>>

OpenLid == drive.lid = "closed"
             /\ User([drive EXCEPT !.lid = "open", !.shell = TRUE,
                                      !.steady = FALSE])
SwapDisc == drive.lid = "open"
             /\ \E disc \in Discs \cup {NoDisc} : User([drive EXCEPT !.disc = disc])
CloseLid == drive.lid = "open" /\ User([drive EXCEPT !.lid = "closed"])

(* While an attempt runs the ROM asks the drive for its status as well.    *)
RomReadsStatus ==
    /\ pc \in CdReads \cup {"cdInit"}
    /\ drive.shell
    /\ User(StatusRead(drive))

(* Once stopped the model has nothing more to say.                         *)
Idle == pc \in Stopped /\ UNCHANGED vars

Next == Program \/ Interrupt \/ OpenLid \/ SwapDisc \/ CloseLid \/ RomReadsStatus \/ Idle

Spec == Init /\ [][Next]_vars

(* The processor keeps executing; the user does what the screen asks, and  *)
(* leaves the lid open, or shut, long enough for a polling loop that takes *)
(* milliseconds to see it.                                                 *)
Fairness ==
    /\ WF_vars(Program)
    /\ SF_vars(WaitOpen)
    /\ SF_vars(WaitClosed)
    /\ WF_vars(pc = "waitOpen" /\ OpenLid)
    /\ WF_vars(pc = "waitClosed" /\ CloseLid)

FairSpec == Spec /\ Fairness
=============================================================================
