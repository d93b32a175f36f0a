----------------------------- MODULE BiosKernel -----------------------------
(***************************************************************************)
(* The part of the console's kernel the loader changes or depends on, as a *)
(* record, and the kernel calls and bios.c / patcher.c routines as         *)
(* functions on it.  ROM routines are modelled from how src/ calls them    *)
(* and what its comments say they do.                                      *)
(***************************************************************************)
EXTENDS Naturals

CONSTANT ConfWords      \* the values a configuration word can have

Keys == {"TCB", "EVENT", "STACK"}

(* BIOS_DEFAULT_TCB, BIOS_DEFAULT_EVCB, BIOS_DEFAULT_STACKTOP              *)
DefaultConf == [TCB |-> "0x4", EVENT |-> "0x10", STACK |-> "0x801FFF00"]

ASSUME DefaultConfAssumption == DefaultConf \in [Keys -> ConfWords]

(***************************************************************************)
(* irq         interrupts enabled in the CPU (critical section left)       *)
(* unmasked    some source enabled in I_MASK                               *)
(* rebuilding  the structure an interrupt would run into half-made         *)
(* wrecked     an interrupt did: saved thread state went to address zero,  *)
(*             or half-copied kernel code was executed                     *)
(* discError   A0[0xA1], enqueueCd  A0[0xA2] of the call table             *)
(* savedDiscError, savedEnqueueCd   original_disc_error, realEnqueueCdIntr *)
(*             (null before they are first assigned)                       *)
(* cdHandlers  times the CD handler sits in the interrupt chain            *)
(* conf        the configuration the kernel structures were built with     *)
(* hooks       the code patched into the kernel                            *)
(* putc        the code behind std_out_putchar                             *)
(* open        files open on the CD                                        *)
(***************************************************************************)
DiscErrorHandlers == {"rom", "logging", "game", "null"}
EnqueueRoutines   == {"rom", "fake", "game", "null"}
HookNames         == {"ap", "vandal", "fpb", "game"}

Kernel == [irq            : BOOLEAN,
           unmasked       : BOOLEAN,
           rebuilding     : {"none", "tables", "tcbs"},
           wrecked        : BOOLEAN,
           discError      : DiscErrorHandlers,
           savedDiscError : DiscErrorHandlers,
           enqueueCd      : EnqueueRoutines,
           savedEnqueueCd : EnqueueRoutines,
           cdHandlers     : Nat,
           conf           : [Keys -> ConfWords],
           hooks          : SUBSET HookNames,
           putc           : {"rom", "uart"},
           memSize        : {2, 8},
           open           : SUBSET {"cnf", "exe"}]
-----------------------------------------------------------------------------
(* Hardware: an accepted interrupt stores the running thread's state in    *)
(* its control block and runs kernel code.                                 *)
CanInterrupt(k) == k.irq /\ k.unmasked

Interrupted(k) == [k EXCEPT !.wrecked = @ \/ k.rebuilding # "none"]

(* System calls 1 and 2.                                                   *)
EnterCriticalSection(k) == [k EXCEPT !.irq = FALSE]
ExitCriticalSection(k)  == [k EXCEPT !.irq = TRUE]
-----------------------------------------------------------------------------
(* bios_reinitialize, what the WarmBoot code it adapts does                *)

(* The relocatable kernel, the A/B/C tables and vectors and the exception  *)
(* handlers are being rewritten ...                                        *)
BeginTables(k) == [k EXCEPT !.rebuilding = "tables"]

(* Seeded fault: patches outlive the reinitialisation.                     *)
CopyRelocatedKernelMissing(k) == k

(* bios_copy_relocated_kernel: every patch in kernel RAM is gone.          *)
CopyRelocatedKernel(k) == [k EXCEPT !.hooks = {}, !.putc = "rom"]

(* Seeded fault: the A table of the game is kept.                          *)
CopyA0TableMissing(k) == k

(* bios_copy_a0_table                                                      *)
CopyA0Table(k) == [k EXCEPT !.discError = "rom", !.enqueueCd = "rom"]

(* ... and are complete, with the default exception return.                *)
EndTables(k) == [k EXCEPT !.rebuilding = "none"]

(* I_STAT = I_MASK = 0                                                     *)
MaskInterrupts(k) == [k EXCEPT !.unmasked = FALSE]

(* InstallDevices: the file and device control blocks start empty.         *)
InstallDevices(k) == [k EXCEPT !.open = {}]

(* Seeded fault: SetConf runs with the real EnqueueCdIntr.                 *)
HookEnqueueCdMissing(k) == [k EXCEPT !.savedEnqueueCd = k.enqueueCd]

HookEnqueueCd(k) ==
    [k EXCEPT !.savedEnqueueCd = k.enqueueCd, !.enqueueCd = "fake"]

(* Seeded fault: CdInit finds the fake EnqueueCdIntr.                      *)
UnhookEnqueueCdMissing(k) == k

UnhookEnqueueCd(k) == [k EXCEPT !.enqueueCd = k.savedEnqueueCd]

SetMemSize(k, megabytes) == [k EXCEPT !.memSize = megabytes]

SaveDiscError(k) == [k EXCEPT !.savedDiscError = k.discError]
-----------------------------------------------------------------------------
(* The ROM function SetConf and CdInit both end with: it adds the CD       *)
(* interrupt through A0[0xA2], opens the CD events and leaves the critical *)
(* section.  FakeEnqueueCdIntr returns straight out of it.                 *)
ReconfigureCd(k) ==
    IF k.enqueueCd = "fake" THEN k
    ELSE [k EXCEPT !.cdHandlers = @ + 1, !.irq = TRUE]

(* SetConf: the handler arrays and the thread control blocks are rebuilt,  *)
(* the timer and VBlank interrupts are enqueued, the CD is reconfigured.   *)
BeginSetConf(k) == [k EXCEPT !.rebuilding = "tcbs", !.cdHandlers = 0]

EndSetConf(k, conf) ==
    ReconfigureCd([k EXCEPT !.rebuilding = "none", !.conf = conf,
                            !.unmasked = TRUE])

CdInit(k) == ReconfigureCd(k)

(* A CD read sleeps until the CD interrupt handler delivers its event.     *)
CanReadCd(k) == CanInterrupt(k) /\ k.cdHandlers > 0

FileOpened(k, file) == [k EXCEPT !.open = @ \cup {file}]
FileClose(k, file)  == [k EXCEPT !.open = @ \ {file}]
-----------------------------------------------------------------------------
(* The disc error handler                                                  *)
InjectDiscError(k)  == [k EXCEPT !.discError = "logging"]
RestoreDiscError(k) == [k EXCEPT !.discError = k.savedDiscError]

(* patcher.c.  Vandal Hearts II has a patch of its own; the generic one is *)
(* given up when the syscall verifier of the BIOS is not the known code;   *)
(* FreePSXBoot is a PS1 matter.                                            *)
VandalBootFile == "SLUS_009.40"

AntipiracyHook(console, bootFile) ==
    IF bootFile = VandalBootFile THEN {"vandal"}
    ELSE IF console.knownVerifier THEN {"ap"} ELSE {}

FreePsxBootHook(console) == IF console.ps1 THEN {"fpb"} ELSE {}

PatcherApply(k, console, bootFile) ==
    [k EXCEPT !.hooks = @ \cup AntipiracyHook(console, bootFile)
                          \cup FreePsxBootHook(console)]

PatcherApplySoftUart(k) == [k EXCEPT !.putc = "uart"]
=============================================================================
