---------------------------- MODULE LoaderProofs ----------------------------
(***************************************************************************)
(* Proofs about the loader, for any discs, any consoles and any contents   *)
(* of the discs: what the overlap test is worth; type correctness; that    *)
(* ControlInv is an inductive invariant and implies the safety properties; *)
(* and that IInv, which adds what is known of the attempt, is one and      *)
(* makes the loader implement BootPromise.                                 *)
(***************************************************************************)
EXTENDS LoaderProperties, TLAPS

(* The residue of a number already in range.                               *)
LEMMA ModSmall ==
    ASSUME NEW x \in Int, 0 <= x, x < Ram
    PROVE  x % Ram = x
BY SMT DEF Ram

(* Every segment starts at a multiple of the RAM size.                     *)
LEMMA ModKseg0 ==
    ASSUME NEW x \in Int, 0 <= x, x < Ram
    PROVE  (x - Kseg0) % Ram = x
BY SMT DEF Ram, Kseg0

(* The numbers of the address space, without their size.                   *)
LEMMA AddressSpace == Word \in Int /\ Word > 8 /\ HeaderSize = 8
BY SMT DEF Word, HeaderSize

(* Capping the size leaves a header a header.                              *)
LEMMA CapSizeType ==
    ASSUME NEW h \in Header, NEW n \in Address
    PROVE  CapSize(h, n) \in Header
<1> DEFINE actual == (n - HeaderSize) % Word
<1>1. n \in Int
  BY AddressSpace, SMT DEF Address
<1>2. actual \in Int /\ 0 <= actual /\ actual <= Word - 1
  BY <1>1, SMT DEF HeaderSize, Word
<1>3. actual \in Address
  BY <1>2, AddressSpace, SMT DEF Address
<1>4. [h EXCEPT !.size = actual] \in Header
  BY <1>3, SMT DEF Header
<1> QED
  BY <1>4, SMT DEF CapSize

(* A header in KSEG0 whose end does not wrap, and that passes the test,    *)
(* has a body no byte of which lands on the loader (secondary.c:344).      *)
THEOREM FittingBodySparesLoader ==
    ASSUME NEW h \in Header, InKseg0(h), NoWrap(h), ~WontFit(h)
    PROVE  "loader" \notin Hits(h)
<1>1. /\ h.load \in Int /\ h.size \in Int
      /\ h.load >= Kseg0 /\ h.size >= 0
  <2>1. h.load \in Address /\ h.size \in Address
    BY SMT DEF Header
  <2>2. Word \in Int /\ Kseg0 \in Int /\ Segment \in Int
    BY SMT DEF Word, Kseg0, Segment
  <2> QED
    BY <2>1, <2>2, SMT DEF Address, InKseg0
<1>2. h.load + h.size < RoStart
  <2>1. (h.load + h.size) % Word = h.load + h.size
    BY <1>1, SMT DEF NoWrap, Word, Kseg0
  <2> QED
    BY <1>1, <2>1, SMT DEF WontFit, RoStart, Kseg0, RoOffset
<1>3. ASSUME NEW g \in LoaderGranules
      PROVE  ~Touches(h, g)
  <2> DEFINE distance == g - (h.load - Kseg0)
  <2>1. /\ distance \in Int /\ 0 <= distance /\ distance < Ram
        /\ distance >= h.size
    BY <1>1, <1>2, SMT DEF LoaderGranules, RoStart, RoOffset, LoaderLength, Ram, Kseg0
  <2>2. g - h.load = distance - Kseg0
    BY <1>1, SMT DEF LoaderGranules, RoOffset, LoaderLength, Kseg0
  <2>3. (g - h.load) % Ram = distance
    BY <2>1, <2>2, ModKseg0, SMT
  <2> QED
    BY <1>1, <2>1, <2>3, SMT DEF Touches
<1> QED
  BY <1>3, SMT DEF Hits
-----------------------------------------------------------------------------
USE NoDiscAssumption, RegionAssumption, SystemCnfAssumption,
    ExecutableAssumption, StraysAssumption, BootFileAssumption,
    SoftUartAssumption, ConsolesAssumption, DefaultConfAssumption
-----------------------------------------------------------------------------
(* The kernel operations map a kernel to a kernel, for every configuration *)
(* the kernel can be built with.                                           *)

(* Entering, leaving and being interrupted.                                *)
LEMMA InterruptTypes ==
    ASSUME NEW k \in Kernel
    PROVE  /\ EnterCriticalSection(k) \in Kernel
           /\ ExitCriticalSection(k) \in Kernel
           /\ Interrupted(k) \in Kernel
           /\ MaskInterrupts(k) \in Kernel
BY DEF Kernel, EnterCriticalSection, ExitCriticalSection, Interrupted,
       MaskInterrupts

(* The steps of bios_reinitialize.                                         *)
LEMMA ReinitTypes ==
    ASSUME NEW k \in Kernel
    PROVE  /\ BeginTables(k) \in Kernel
           /\ CopyRelocatedKernel(k) \in Kernel
           /\ CopyA0Table(k) \in Kernel
           /\ EndTables(k) \in Kernel
           /\ InstallDevices(k) \in Kernel
           /\ HookEnqueueCd(k) \in Kernel
           /\ UnhookEnqueueCd(k) \in Kernel
           /\ SetMemSize(k, 8) \in Kernel
           /\ SaveDiscError(k) \in Kernel
<1>1. /\ BeginTables(k) \in Kernel /\ EndTables(k) \in Kernel
      /\ SetMemSize(k, 8) \in Kernel
  BY DEF Kernel, BeginTables, EndTables, SetMemSize
<1>2. /\ CopyRelocatedKernel(k) \in Kernel /\ InstallDevices(k) \in Kernel
  BY DEF Kernel, CopyRelocatedKernel, InstallDevices, HookNames
<1>3. /\ CopyA0Table(k) \in Kernel /\ SaveDiscError(k) \in Kernel
  BY DEF Kernel, CopyA0Table, SaveDiscError, DiscErrorHandlers, EnqueueRoutines
<1>4. HookEnqueueCd(k) \in Kernel /\ UnhookEnqueueCd(k) \in Kernel
  BY DEF Kernel, HookEnqueueCd, UnhookEnqueueCd, EnqueueRoutines
<1> QED
  BY <1>1, <1>2, <1>3, <1>4

(* SetConf and CdInit.                                                     *)
LEMMA SetConfTypes ==
    ASSUME NEW k \in Kernel, NEW conf \in [Keys -> ConfWords]
    PROVE  /\ BeginSetConf(k) \in Kernel
           /\ EndSetConf(k, conf) \in Kernel
           /\ CdInit(k) \in Kernel
<1>1. ASSUME NEW q \in Kernel PROVE ReconfigureCd(q) \in Kernel
  <2>1. q.cdHandlers + 1 \in Nat
    BY DEF Kernel
  <2>2. [q EXCEPT !.cdHandlers = @ + 1, !.irq = TRUE] \in Kernel
    BY <2>1 DEF Kernel
  <2> QED
    BY <2>2 DEF ReconfigureCd
<1>2. BeginSetConf(k) \in Kernel
  BY DEF Kernel, BeginSetConf
<1>3. [k EXCEPT !.rebuilding = "none", !.conf = conf, !.unmasked = TRUE] \in Kernel
  BY DEF Kernel
<1> QED
  BY <1>1, <1>2, <1>3 DEF EndSetConf, CdInit

(* Files, the disc error handler and the patches.                          *)
LEMMA ServiceTypes ==
    ASSUME NEW k \in Kernel, NEW file \in {"cnf", "exe"},
           NEW unit, NEW bootFile
    PROVE  /\ FileOpened(k, file) \in Kernel
           /\ FileClose(k, file) \in Kernel
           /\ InjectDiscError(k) \in Kernel
           /\ RestoreDiscError(k) \in Kernel
           /\ PatcherApply(k, unit, bootFile) \in Kernel
           /\ PatcherApplySoftUart(k) \in Kernel
<1>1. FileOpened(k, file) \in Kernel /\ FileClose(k, file) \in Kernel
  BY DEF Kernel, FileOpened, FileClose
<1>2. InjectDiscError(k) \in Kernel /\ RestoreDiscError(k) \in Kernel
  BY DEF Kernel, InjectDiscError, RestoreDiscError, DiscErrorHandlers
<1>3. AntipiracyHook(unit, bootFile) \subseteq HookNames
  BY DEF AntipiracyHook, HookNames
<1>4. FreePsxBootHook(unit) \subseteq HookNames
  BY DEF FreePsxBootHook, HookNames
<1>5. PatcherApply(k, unit, bootFile) \in Kernel
  BY <1>3, <1>4 DEF Kernel, PatcherApply
<1>6. PatcherApplySoftUart(k) \in Kernel
  BY DEF Kernel, PatcherApplySoftUart
<1> QED
  BY <1>1, <1>2, <1>5, <1>6
-----------------------------------------------------------------------------
(* The locals try_boot_cd starts from.                                     *)
LEMMA NoHeaderType == NoHeader \in Header
<1>1. 0 \in Address
  BY AddressSpace, SMT DEF Address
<1> QED
  BY <1>1, SMT DEF NoHeader, Header

(* The options SYSTEM.CNF leaves.                                          *)
LEMMA ConfFromType ==
    ASSUME NEW cnf \in CnfFile, NEW conf \in [Keys -> ConfWords],
           NEW bootfile \in BootFiles
    PROVE  /\ ConfFrom(cnf, conf) \in [Keys -> ConfWords]
           /\ BootFileFrom(cnf, bootfile) \in BootFiles
<1>1. ASSUME NEW key \in Keys
      PROVE  (IF cnf.conf[key] = Unset THEN conf[key] ELSE cnf.conf[key])
               \in ConfWords
  BY SMT DEF CnfFile
<1> QED
  BY <1>1, SMT DEF CnfFile, ConfFrom, BootFileFrom
LEMMA DefaultBootType ==
    DefaultBoot \in [conf : [Keys -> ConfWords], bootfile : BootFiles,
                     pal : BOOLEAN, fcb : Fcbs, header : Header, sp : ConfWords]
<1>1. "STACK" \in Keys
  BY DEF Keys
<1>2. DefaultConf["STACK"] \in ConfWords
  BY <1>1
<1>3. NoFile \in Fcbs
  BY DEF Fcbs
<1> QED
  BY <1>2, <1>3, NoHeaderType DEF DefaultBoot

(* An open file is one of the disc it was opened on.                       *)
LEMMA FcbTypes ==
    ASSUME NEW b \in Fcbs
    PROVE  /\ b.size \in Address
           /\ b.disc \in Discs => b.file \in DOMAIN Executable[b.disc]
<1>1. CASE b = NoFile
  <2>1. 0 \in Address
    BY AddressSpace, SMT DEF Address
  <2> QED
    BY <1>1, <2>1 DEF NoFile
<1>2. CASE b # NoFile
  <2>1. PICK d \in Discs : \E file \in DOMAIN Executable[d] : b = Fcb(d, file)
    BY <1>2 DEF Fcbs
  <2>2. PICK file \in DOMAIN Executable[d] : b = Fcb(d, file)
    BY <2>1
  <2>3. Executable[d][file].fileSize \in Address
    BY <2>1, <2>2
  <2> QED
    BY <2>2, <2>3 DEF Fcb
<1> QED
  BY <1>1, <1>2
-----------------------------------------------------------------------------
(* A step that only moves on, or only changes the kernel, keeps the types. *)
LEMMA KernelStepType ==
    ASSUME TypeOK, NEW from, NEW to \in Labels, NEW STATE k, k \in Kernel,
           KernelStep(from, to, k)
    PROVE  TypeOK'
BY DEF KernelStep, TypeOK

LEMMA GotoType ==
    ASSUME TypeOK, NEW from, NEW to \in Labels, Goto(from, to)
    PROVE  TypeOK'
BY DEF Goto, TypeOK
-----------------------------------------------------------------------------
(* bios_reinitialize keeps the types.                                      *)
LEMMA ReinitType ==
    ASSUME TypeOK, bios_reinitialize
    PROVE  TypeOK'
<1> USE DEF Labels, ReinitSteps
<1>1. kernel \in Kernel /\ DefaultConf \in [Keys -> ConfWords]
  BY DEF TypeOK
<1>2. CASE ReEnter
  BY <1>1, <1>2, InterruptTypes, KernelStepType DEF ReEnter
<1>3. CASE ReBegin
  BY <1>1, <1>3, ReinitTypes, KernelStepType DEF ReBegin
<1>4. CASE ReKernel
  BY <1>1, <1>4, ReinitTypes, KernelStepType DEF ReKernel
<1>5. CASE ReA0
  BY <1>1, <1>5, ReinitTypes, KernelStepType DEF ReA0
<1>6. CASE ReEnd
  BY <1>1, <1>6, ReinitTypes, KernelStepType DEF ReEnd
<1>7. CASE ReDevices
  BY <1>1, <1>7, InterruptTypes, ReinitTypes, KernelStepType DEF ReDevices
<1>8. CASE ReHook
  BY <1>1, <1>8, ReinitTypes, KernelStepType DEF ReHook
<1>9. CASE ReConf
  BY <1>1, <1>9, SetConfTypes, KernelStepType DEF ReConf
<1>10. CASE ReConfEnd
  BY <1>1, <1>10, SetConfTypes, KernelStepType DEF ReConfEnd
<1>11. CASE ReUnhook
  BY <1>1, <1>11, ReinitTypes, KernelStepType DEF ReUnhook
<1>12. CASE ReMem
  BY <1>1, <1>12, ReinitTypes, KernelStepType DEF ReMem
<1>13. CASE ReExit
  BY <1>1, <1>13, InterruptTypes, KernelStepType DEF ReExit
<1>14. CASE ReSave
  BY <1>1, <1>14, ReinitTypes, KernelStepType DEF ReSave
<1> QED
  BY <1>2, <1>3, <1>4, <1>5, <1>6, <1>7, <1>8, <1>9, <1>10, <1>11, <1>12, <1>13, <1>14 DEF bios_reinitialize

(* start and main keep the types.                                          *)
LEMMA MainType ==
    ASSUME TypeOK, Start \/ main
    PROVE  TypeOK'
<1> USE DEF Labels, ReinitSteps, Stopped
<1>1. kernel \in Kernel
  BY DEF TypeOK
<1>2. CASE Start
  BY <1>2 DEF Start, TypeOK, Console
<1>3. CASE InitScreen
  BY <1>3 DEF InitScreen, TypeOK, Videos
<1>4. CASE IntegrityGate
  BY <1>4, GotoType DEF IntegrityGate
<1>5. CASE Inject
  BY <1>1, <1>5, ServiceTypes, KernelStepType DEF Inject
<1>6. CASE DriveInit
  BY <1>6, GotoType DEF DriveInit
<1>7. CASE Unlock
  BY <1>7 DEF Unlock, TypeOK
<1>8. CASE Loop
  <2>1. PatcherApplySoftUart(kernel) \in Kernel
    BY <1>1, ServiceTypes
  <2> QED
    BY <1>8, <2>1 DEF Loop, TypeOK
<1> QED
  BY <1>2, <1>3, <1>4, <1>5, <1>6, <1>7, <1>8 DEF main

(* A failed read, as far as the control and the kernel go.                 *)
LEMMA ReadFailsType ==
    ASSUME TypeOK, NEW from, NEW STATE k, k \in Kernel, ReadFails(from, k)
    PROVE  pc' \in Labels /\ kernel' \in Kernel
BY DEF ReadFails, TypeOK, Labels, ReinitSteps, Stopped

(* The steps of try_boot_cd up to the configuration of the kernel.         *)
LEMMA PrepareType ==
    ASSUME TypeOK,
           \/ WaitOpen \/ WaitClosed \/ CallCdInit \/ CheckRegion \/ OpenCnf
           \/ ReadCnf \/ EnterForSetConf \/ SetConfBegin \/ SetConfEnd \/ ClearRam
    PROVE  TypeOK'
<1> USE DEF Labels, ReinitSteps, CdReads
<1>1. kernel \in Kernel /\ boot.conf \in [Keys -> ConfWords]
  BY DEF TypeOK
<1>2. CASE WaitOpen
  BY <1>2 DEF WaitOpen, LidStep, StatusRead, TypeOK
<1>3. CASE WaitClosed
  BY <1>3 DEF WaitClosed, LidStep, StatusRead, TypeOK
<1>4. CASE CallCdInit
  BY <1>1, <1>4, SetConfTypes, KernelStepType DEF CallCdInit
<1>5. CASE CheckRegion
  <2>1. pc' \in Labels /\ kernel' \in Kernel
    BY <1>1, <1>5, ReadFailsType DEF CheckRegion
  <2>2. [DefaultBoot EXCEPT !.pal = (Region[drive.disc] = "E")] \in
            [conf : [Keys -> ConfWords], bootfile : BootFiles,
             pal : BOOLEAN, fcb : Fcbs, header : Header, sp : ConfWords]
    BY DefaultBootType
  <2> QED
    BY <1>5, <2>1, <2>2 DEF CheckRegion, TypeOK
<1>6. CASE OpenCnf
  <2>1. FileOpened(kernel, "cnf") \in Kernel
    BY <1>1, ServiceTypes
  <2>2. pc' \in Labels /\ kernel' \in Kernel
    BY <1>1, <1>6, <2>1, ReadFailsType DEF OpenCnf
  <2> QED
    BY <1>6, <2>2 DEF OpenCnf, TypeOK
<1>7. CASE ReadCnf
  <2>1. FileClose(kernel, "cnf") \in Kernel
    BY <1>1, ServiceTypes
  <2>2. pc' \in Labels /\ kernel' \in Kernel
    BY <1>7, <2>1, ReadFailsType DEF ReadCnf
  <2>3. CASE UNCHANGED boot
    BY <1>7, <2>2, <2>3 DEF ReadCnf, TypeOK
  <2>4. CASE Readable /\ boot' = [boot EXCEPT
                        !.conf = ConfFrom(SystemCnf[drive.disc], @),
                        !.bootfile = BootFileFrom(SystemCnf[drive.disc], @)]
    <3>1. drive.disc \in Discs
      BY <2>4 DEF Readable, TypeOK
    <3>2. SystemCnf[drive.disc] \in CnfFile
      BY <3>1
    <3>3. /\ ConfFrom(SystemCnf[drive.disc], boot.conf) \in [Keys -> ConfWords]
          /\ BootFileFrom(SystemCnf[drive.disc], boot.bootfile) \in BootFiles
      BY <1>1, <3>2, ConfFromType DEF TypeOK
    <3> QED
      BY <1>7, <2>2, <2>4, <3>3 DEF ReadCnf, TypeOK
  <2> QED
    BY <1>7, <2>3, <2>4 DEF ReadCnf
<1>8. CASE EnterForSetConf
  BY <1>1, <1>8, InterruptTypes, KernelStepType DEF EnterForSetConf
<1>9. CASE SetConfBegin
  BY <1>1, <1>9, SetConfTypes, KernelStepType DEF SetConfBegin
<1>10. CASE SetConfEnd
  BY <1>1, <1>10, SetConfTypes, KernelStepType DEF SetConfEnd
<1>11. CASE ClearRam
  BY <1>11 DEF ClearRam, TypeOK
<1> QED
  BY <1>2, <1>3, <1>4, <1>5, <1>6, <1>7, <1>8, <1>9, <1>10, <1>11

(* The steps of try_boot_cd that read the executable and start it.         *)
LEMMA LaunchType ==
    ASSUME TypeOK,
           \/ OpenExe \/ ReadExe \/ CheckExe \/ BuggyVideo \/ BuggyRestore
           \/ LoadAndExecute \/ LoadExe \/ Patch \/ VideoForGame \/ Restore
           \/ LaunchEnter \/ Flush \/ Execute
    PROVE  TypeOK'
<1> USE DEF Labels, ReinitSteps, CdReads, Stopped
<1>1. kernel \in Kernel
  BY DEF TypeOK
<1>2. FileOpened(kernel, "exe") \in Kernel /\ FileClose(kernel, "exe") \in Kernel
  BY <1>1, ServiceTypes
<1>3. CASE OpenExe
  <2>1. pc' \in Labels /\ kernel' \in Kernel
    BY <1>1, <1>2, <1>3, ReadFailsType DEF OpenExe
  <2>2. CASE UNCHANGED boot
    BY <1>3, <2>1, <2>2 DEF OpenExe, TypeOK
  <2>3. CASE /\ OnDisc(boot.bootfile)
             /\ boot' = [boot EXCEPT !.fcb = Fcb(drive.disc, boot.bootfile)]
    <3>1. drive.disc \in Discs /\ boot.bootfile \in DOMAIN Executable[drive.disc]
      BY <2>3 DEF OnDisc, Readable, TypeOK
    <3>2. Fcb(drive.disc, boot.bootfile) \in Fcbs
      BY <3>1 DEF Fcbs
    <3> QED
      BY <1>3, <2>1, <2>3, <3>2 DEF OpenExe, TypeOK
  <2> QED
    BY <1>3, <2>2, <2>3 DEF OpenExe
<1>4. CASE ReadExe
  <2>1. pc' \in Labels /\ kernel' \in Kernel
    BY <1>1, <1>2, <1>4, ReadFailsType DEF ReadExe
  <2>2. UNCHANGED <<inLoop, integrityOk, console, video, ram, drive>>
    BY <1>4 DEF ReadExe
  <2>3. CASE UNCHANGED boot
    BY <2>1, <2>2, <2>3 DEF TypeOK
  <2>4. CASE pc' = "exeCheck"
    <3>1. /\ Readable
          /\ \E header \in FirstSector : boot' = WithHeader(boot, header)
      BY <1>4, <2>4 DEF ReadExe, ReadFails
    <3>2. PICK header \in FirstSector : boot' = WithHeader(boot, header)
      BY <3>1
    <3>3. drive.disc \in Discs /\ boot.fcb \in Fcbs
      BY <3>1 DEF Readable, TypeOK
    <3>4. header \in Header
      BY <3>2, <3>3, FcbTypes DEF FirstSector, SameDisc
    <3>5. CapSize(header, boot.fcb.size) \in Header
      BY <3>3, <3>4, FcbTypes, CapSizeType
    <3>6. boot.conf["STACK"] \in ConfWords
      BY DEF TypeOK, Keys
    <3> QED
      BY <2>1, <2>2, <3>2, <3>5, <3>6 DEF TypeOK, WithHeader
  <2>5. UNCHANGED boot \/ pc' = "exeCheck"
    BY <1>4 DEF ReadExe
  <2> QED
    BY <2>3, <2>4, <2>5
<1>5. CASE CheckExe
  BY <1>2, <1>5, KernelStepType, GotoType DEF CheckExe
<1>6. CASE BuggyVideo
  BY <1>6 DEF BuggyVideo, SwitchVideo, TypeOK, Videos
<1>7. CASE BuggyRestore
  BY <1>1, <1>7, ServiceTypes, KernelStepType DEF BuggyRestore
<1>8. CASE LoadAndExecute
  <2>1. CASE ram' = ram
    BY <1>8, <2>1 DEF LoadAndExecute, TypeOK
  <2>2. CASE /\ OnDisc(boot.bootfile)
             /\ ram' = [ram EXCEPT !.from = @ \cup {Image(drive.disc, boot.bootfile)}]
    <3>1. Image(drive.disc, boot.bootfile) \in
              [disc : Discs, file : BootFiles \cup {"stray"}]
      BY <2>2 DEF OnDisc, Readable, Image, TypeOK
    <3> QED
      BY <1>8, <2>2, <3>1 DEF LoadAndExecute, TypeOK
  <2> QED
    BY <1>8, <2>1, <2>2 DEF LoadAndExecute
<1>9. CASE LoadExe
  <2>1. pc' \in Labels /\ kernel' \in Kernel
    BY <1>1, <1>2, <1>9, ReadFailsType DEF LoadExe
  <2>2. Hits(boot.header) \subseteq {"loader", "kernel"}
    BY DEF Hits
  <2>3. Readable => Body \in [disc : Discs, file : BootFiles \cup {"stray"}]
    <3>1. boot.fcb \in Fcbs /\ (Readable => drive.disc \in Discs)
      BY DEF Readable, TypeOK
    <3>2. Readable /\ SameDisc => boot.fcb.file \in BootFiles
      BY <3>1, FcbTypes DEF SameDisc
    <3> QED
      BY <3>1, <3>2 DEF Body, Image
  <2>4. CASE ram' = ram
    BY <1>9, <2>1, <2>4 DEF LoadExe, TypeOK
  <2>5. CASE /\ Readable
             /\ ram' = [from  |-> ram.from \cup {Body},
                        hit   |-> ram.hit \cup Hits(boot.header),
                        stale |-> ram.stale \cup {"body"}]
    BY <1>9, <2>1, <2>2, <2>3, <2>5 DEF LoadExe, TypeOK
  <2> QED
    BY <1>9, <2>4, <2>5 DEF LoadExe
<1>10. CASE Patch
  <2>1. PatcherApply(kernel, console, boot.bootfile) \in Kernel
    BY <1>1, ServiceTypes
  <2> QED
    BY <1>10, <2>1 DEF Patch, TypeOK
<1>11. CASE VideoForGame
  BY <1>11 DEF VideoForGame, SwitchVideo, TypeOK, Videos
<1>12. CASE Restore
  BY <1>1, <1>12, ServiceTypes, KernelStepType DEF Restore
<1>13. CASE LaunchEnter
  BY <1>1, <1>13, InterruptTypes, KernelStepType DEF LaunchEnter
<1>14. CASE Flush
  BY <1>14 DEF Flush, TypeOK
<1>15. CASE Execute
  BY <1>15, GotoType DEF Execute
<1> QED
  BY <1>3, <1>4, <1>5, <1>6, <1>7, <1>8, <1>9, <1>10, <1>11, <1>12, <1>13,
     <1>14, <1>15

(* Interrupts and the user.                                                *)
LEMMA WorldType ==
    ASSUME TypeOK, Interrupt \/ OpenLid \/ SwapDisc \/ CloseLid \/ RomReadsStatus
    PROVE  TypeOK'
<1>1. CASE Interrupt
  BY <1>1, InterruptTypes DEF Interrupt, TypeOK
<1>2. CASE OpenLid
  BY <1>2 DEF OpenLid, User, TypeOK
<1>3. CASE SwapDisc
  BY <1>3 DEF SwapDisc, User, TypeOK
<1>4. CASE CloseLid
  BY <1>4 DEF CloseLid, User, TypeOK
<1>5. CASE RomReadsStatus
  BY <1>5 DEF RomReadsStatus, StatusRead, User, TypeOK
<1> QED
  BY <1>1, <1>2, <1>3, <1>4, <1>5

(* Type correctness of the loader, for every choice of discs and consoles. *)
THEOREM TypeCorrect == Spec => []TypeOK
<1>1. Init => TypeOK
  <2> SUFFICES ASSUME Init PROVE TypeOK
    OBVIOUS
  <2>1. kernel \in Kernel
    BY DEF Init, Kernel, DiscErrorHandlers, EnqueueRoutines, HookNames
  <2>2. drive \in [lid : {"open", "closed"}, disc : Discs \cup {NoDisc},
                   shell : BOOLEAN, steady : BOOLEAN]
    BY DEF Init
  <2>3. ram \in [from : SUBSET [disc : Discs, file : BootFiles \cup {"stray"}],
                 hit : SUBSET {"loader", "kernel"},
                 stale : SUBSET {"body", "patch", "putchar"}]
    BY DEF Init
  <2> QED
    BY <2>1, <2>2, <2>3, DefaultBootType DEF Init, TypeOK, Labels, Videos
<1>2. TypeOK /\ [Next]_vars => TypeOK'
  <2> SUFFICES ASSUME TypeOK, [Next]_vars PROVE TypeOK'
    OBVIOUS
  <2>1. CASE UNCHANGED vars
    BY <2>1 DEF vars, TypeOK
  <2>2. CASE Program
    BY <2>2, MainType, ReinitType, PrepareType, LaunchType
       DEF Program, try_boot_cd
  <2>3. CASE Interrupt \/ OpenLid \/ SwapDisc \/ CloseLid \/ RomReadsStatus
    BY <2>3, WorldType
  <2> QED
    BY <2>1, <2>2, <2>3 DEF Next, Idle
<1> QED
  BY <1>1, <1>2, PTL DEF Spec
-----------------------------------------------------------------------------
(* bios_reinitialize keeps the invariant.                                  *)
LEMMA ReinitControl ==
    ASSUME TypeOK, ControlInv, bios_reinitialize
    PROVE  ControlInv'
<1> USE DEF ControlInv, InterruptPart, EnqueuePart, ChainPart, HandlerPart,
            LoopPart, FilesPart, PatchPart, RamPart, LoaderSpared, KernelStep,
            Goto, Critical, TablesPending, Faked, Unchained, Chained, Stock,
            Logging, OpenPending, ExeOpen, Patched, Prologue, ReinitSteps,
            Booting, CdReads, Stopped
<1>1. kernel \in Kernel
  BY DEF TypeOK
<1>2. CASE ReEnter
  BY <1>1, <1>2 DEF ReEnter, EnterCriticalSection, Kernel
<1>3. CASE ReBegin
  BY <1>1, <1>3 DEF ReBegin, BeginTables, Kernel
<1>4. CASE ReKernel
  BY <1>1, <1>4 DEF ReKernel, CopyRelocatedKernel, Kernel
<1>5. CASE ReA0
  BY <1>1, <1>5 DEF ReA0, CopyA0Table, Kernel
<1>6. CASE ReEnd
  BY <1>1, <1>6 DEF ReEnd, EndTables, Kernel
<1>7. CASE ReDevices
  BY <1>1, <1>7 DEF ReDevices, InstallDevices, MaskInterrupts, Kernel
<1>8. CASE ReHook
  BY <1>1, <1>8 DEF ReHook, HookEnqueueCd, Kernel
<1>9. CASE ReConf
  BY <1>1, <1>9 DEF ReConf, BeginSetConf, Kernel
<1>10. CASE ReConfEnd
  BY <1>1, <1>10 DEF ReConfEnd, EndSetConf, ReconfigureCd, Kernel
<1>11. CASE ReUnhook
  BY <1>1, <1>11 DEF ReUnhook, UnhookEnqueueCd, Kernel
<1>12. CASE ReMem
  BY <1>1, <1>12 DEF ReMem, SetMemSize, Kernel
<1>13. CASE ReExit
  BY <1>1, <1>13 DEF ReExit, ExitCriticalSection, Kernel
<1>14. CASE ReSave
  BY <1>1, <1>14 DEF ReSave, SaveDiscError, Kernel
<1> QED
  BY <1>2, <1>3, <1>4, <1>5, <1>6, <1>7, <1>8, <1>9, <1>10, <1>11, <1>12, <1>13, <1>14 DEF bios_reinitialize

(* start and main keep the invariant.                                      *)
LEMMA MainControl ==
    ASSUME TypeOK, ControlInv, Start \/ main
    PROVE  ControlInv'
<1> USE DEF ControlInv, InterruptPart, EnqueuePart, ChainPart, HandlerPart,
            LoopPart, FilesPart, PatchPart, RamPart, LoaderSpared, KernelStep,
            Goto, Critical, TablesPending, Faked, Unchained, Chained, Stock,
            Logging, OpenPending, ExeOpen, Patched, Prologue, ReinitSteps,
            Booting, CdReads, Stopped
<1>1. kernel \in Kernel
  BY DEF TypeOK
<1>2. CASE Start
  BY <1>1, <1>2 DEF Start, Kernel
<1>3. CASE InitScreen
  BY <1>1, <1>3 DEF InitScreen, Kernel
<1>4. CASE IntegrityGate
  BY <1>1, <1>4 DEF IntegrityGate, Kernel
<1>5. CASE Inject
  BY <1>1, <1>5 DEF Inject, InjectDiscError, Kernel
<1>6. CASE DriveInit
  BY <1>1, <1>6 DEF DriveInit, Kernel
<1>7. CASE Unlock
  BY <1>1, <1>7 DEF Unlock, Kernel
<1>8. CASE Loop
  <2>1. ram'.hit = ram.hit
    BY <1>8 DEF Loop, TypeOK
  <2>2. CASE SoftUart
    <3>1. kernel' = [kernel EXCEPT !.putc = "uart"]
      BY <1>8, <2>2 DEF Loop, PatcherApplySoftUart
    <3> QED
      BY <1>1, <1>8, <2>1, <3>1 DEF Loop, Kernel
  <2>3. CASE ~SoftUart
    BY <1>1, <1>8, <2>3 DEF Loop, Kernel
  <2> QED
    BY <2>2, <2>3
<1> QED
  BY <1>2, <1>3, <1>4, <1>5, <1>6, <1>7, <1>8 DEF main

(* try_boot_cd up to the configuration of the kernel.                      *)
LEMMA PrepareControl ==
    ASSUME TypeOK, ControlInv, 
           \/ WaitOpen \/ WaitClosed \/ CallCdInit \/ CheckRegion \/ OpenCnf \/ ReadCnf \/ EnterForSetConf \/ SetConfBegin \/ SetConfEnd \/ ClearRam
    PROVE  ControlInv'
<1> USE DEF ControlInv, InterruptPart, EnqueuePart, ChainPart, HandlerPart,
            LoopPart, FilesPart, PatchPart, RamPart, LoaderSpared, KernelStep,
            Goto, Critical, TablesPending, Faked, Unchained, Chained, Stock,
            Logging, OpenPending, ExeOpen, Patched, Prologue, ReinitSteps,
            Booting, CdReads, Stopped
<1>1. kernel \in Kernel
  BY DEF TypeOK
<1>2. CASE WaitOpen
  BY <1>1, <1>2 DEF WaitOpen, LidStep, Kernel
<1>3. CASE WaitClosed
  BY <1>1, <1>3 DEF WaitClosed, LidStep, Kernel
<1>4. CASE CallCdInit
  BY <1>1, <1>4 DEF CallCdInit, CdInit, ReconfigureCd, Kernel
<1>5. CASE CheckRegion
  BY <1>1, <1>5 DEF CheckRegion, ReadFails, Kernel
<1>6. CASE OpenCnf
  BY <1>1, <1>6 DEF OpenCnf, ReadFails, FileOpened, Kernel
<1>7. CASE ReadCnf
  BY <1>1, <1>7 DEF ReadCnf, ReadFails, FileClose, Kernel
<1>8. CASE EnterForSetConf
  BY <1>1, <1>8 DEF EnterForSetConf, EnterCriticalSection, Kernel
<1>9. CASE SetConfBegin
  BY <1>1, <1>9 DEF SetConfBegin, BeginSetConf, Kernel
<1>10. CASE SetConfEnd
  BY <1>1, <1>10 DEF SetConfEnd, EndSetConf, ReconfigureCd, Kernel
<1>11. CASE ClearRam
  BY <1>1, <1>11 DEF ClearRam, Kernel
<1> QED
  BY <1>2, <1>3, <1>4, <1>5, <1>6, <1>7, <1>8, <1>9, <1>10, <1>11

(* try_boot_cd from the executable to the game.                            *)
LEMMA LaunchControl ==
    ASSUME TypeOK, ControlInv, 
           \/ OpenExe \/ ReadExe \/ CheckExe \/ BuggyVideo \/ BuggyRestore \/ LoadAndExecute \/ LoadExe \/ Patch \/ VideoForGame \/ Restore \/ LaunchEnter \/ Flush \/ Execute
    PROVE  ControlInv'
<1> USE DEF ControlInv, InterruptPart, EnqueuePart, ChainPart, HandlerPart,
            LoopPart, FilesPart, PatchPart, RamPart, LoaderSpared, KernelStep,
            Goto, Critical, TablesPending, Faked, Unchained, Chained, Stock,
            Logging, OpenPending, ExeOpen, Patched, Prologue, ReinitSteps,
            Booting, CdReads, Stopped
<1>1. kernel \in Kernel
  BY DEF TypeOK
<1>2. CASE OpenExe
  <2>1. boot'.header = boot.header
    BY <1>2 DEF OpenExe, TypeOK
  <2> QED
    BY <1>1, <1>2, <2>1 DEF OpenExe, ReadFails, FileOpened, Kernel
<1>3. CASE ReadExe
  <2>1. /\ pc = "exeRead" /\ pc' \in {"exeCheck", "reEnter", "lockup"}
        /\ UNCHANGED <<inLoop, integrityOk, console, video, ram, drive>>
    BY <1>3 DEF ReadExe, ReadFails
  <2>2. CASE pc' = "exeCheck"
    <3>1. UNCHANGED kernel
      BY <1>3, <2>2 DEF ReadExe, ReadFails
    <3> QED
      BY <1>1, <2>1, <2>2, <3>1 DEF Kernel
  <2>3. CASE pc' # "exeCheck"
    <3>1. /\ kernel.discError = "logging" /\ pc' = "reEnter"
          /\ kernel' = FileClose(kernel, "exe") /\ UNCHANGED boot
      BY <1>3, <2>1, <2>3 DEF ReadExe, ReadFails
    <3> QED
      BY <1>1, <2>1, <3>1 DEF FileClose, Kernel
  <2> QED
    BY <2>2, <2>3
<1>4. CASE CheckExe
  BY <1>1, <1>4 DEF CheckExe, FileClose, Kernel
<1>5. CASE BuggyVideo
  BY <1>1, <1>5 DEF BuggyVideo, SwitchVideo, Kernel
<1>6. CASE BuggyRestore
  BY <1>1, <1>6 DEF BuggyRestore, RestoreDiscError, Kernel
<1>7. CASE LoadAndExecute
  <2>1. ram'.hit = ram.hit
    BY <1>7 DEF LoadAndExecute, TypeOK
  <2>2. /\ pc = "loadAndExecute"
        /\ pc' \in {"buggyGame", "reEnter", "buggyLockup"}
        /\ UNCHANGED <<inLoop, integrityOk, console, kernel, video, boot, drive>>
    BY <1>7 DEF LoadAndExecute
  <2> QED
    BY <1>1, <2>1, <2>2 DEF Kernel
<1>8. CASE LoadExe
  <2>1. InKseg0(boot.header) /\ NoWrap(boot.header) => "loader" \notin Hits(boot.header)
    BY <1>8, FittingBodySparesLoader DEF LoadExe, TypeOK
  <2>2. ram.hit = {} /\ Hits(boot.header) \subseteq {"loader", "kernel"}
    BY <1>8 DEF LoadExe, Hits
  <2>3. ram'.hit \in {{}, Hits(boot.header)}
    BY <1>8, <2>2 DEF LoadExe
  <2>4. RamPart'
    BY <1>8, <2>1, <2>2, <2>3 DEF LoadExe, ReadFails
  <2>5. CASE ram'.hit = {} /\ pc' = "patch" /\ kernel' = FileClose(kernel, "exe")
    BY <1>1, <1>8, <2>4, <2>5 DEF LoadExe, FileClose, Kernel
  <2>6. CASE ram'.hit = {} /\ ReadFails("exeLoad", kernel)
    BY <1>1, <1>8, <2>4, <2>6 DEF LoadExe, ReadFails, Kernel
  <2>7. CASE pc' = "corrupted" /\ UNCHANGED kernel
    BY <1>1, <1>8, <2>4, <2>7 DEF LoadExe, Kernel
  <2>8. \/ ram'.hit = {} /\ pc' = "patch" /\ kernel' = FileClose(kernel, "exe")
        \/ ram'.hit = {} /\ ReadFails("exeLoad", kernel)
        \/ pc' = "corrupted" /\ UNCHANGED kernel
    BY <1>8, <2>2 DEF LoadExe
  <2> QED
    BY <2>5, <2>6, <2>7, <2>8
<1>9. CASE Patch
  BY <1>1, <1>9 DEF Patch, PatcherApply, Kernel
<1>10. CASE VideoForGame
  BY <1>1, <1>10 DEF VideoForGame, SwitchVideo, Kernel
<1>11. CASE Restore
  BY <1>1, <1>11 DEF Restore, RestoreDiscError, Kernel
<1>12. CASE LaunchEnter
  BY <1>1, <1>12 DEF LaunchEnter, EnterCriticalSection, Kernel
<1>13. CASE Flush
  BY <1>1, <1>13 DEF Flush, Kernel
<1>14. CASE Execute
  BY <1>1, <1>14 DEF Execute, Kernel
<1> QED
  BY <1>2, <1>3, <1>4, <1>5, <1>6, <1>7, <1>8, <1>9, <1>10, <1>11, <1>12, <1>13, <1>14

(* Interrupts and the user.                                                *)
LEMMA WorldControl ==
    ASSUME TypeOK, ControlInv, Interrupt \/ OpenLid \/ SwapDisc \/ CloseLid \/ RomReadsStatus
    PROVE  ControlInv'
<1> USE DEF ControlInv, InterruptPart, EnqueuePart, ChainPart, HandlerPart,
            LoopPart, FilesPart, PatchPart, RamPart, LoaderSpared, KernelStep,
            Goto, Critical, TablesPending, Faked, Unchained, Chained, Stock,
            Logging, OpenPending, ExeOpen, Patched, Prologue, ReinitSteps,
            Booting, CdReads, Stopped
<1>1. kernel \in Kernel
  BY DEF TypeOK
<1>2. CASE Interrupt
  BY <1>1, <1>2 DEF Interrupt, CanInterrupt, Interrupted, Kernel
<1>3. CASE OpenLid
  BY <1>1, <1>3 DEF OpenLid, User, Kernel
<1>4. CASE SwapDisc
  BY <1>1, <1>4 DEF SwapDisc, User, Kernel
<1>5. CASE CloseLid
  BY <1>1, <1>5 DEF CloseLid, User, Kernel
<1>6. CASE RomReadsStatus
  BY <1>1, <1>6 DEF RomReadsStatus, StatusRead, User, Kernel
<1> QED
  BY <1>2, <1>3, <1>4, <1>5, <1>6

(* ControlInv is an invariant of the loader: what is known of the kernel,  *)
(* the files and the memory at each place of the program, for any discs    *)
(* and consoles.                                                           *)
THEOREM Control == Spec => []ControlInv
<1>1. Init => ControlInv
  BY DEF Init, ControlInv, InterruptPart, EnqueuePart, ChainPart, HandlerPart,
         LoopPart, FilesPart, PatchPart, RamPart, LoaderSpared, Critical,
         TablesPending, Faked, Unchained, Chained, Stock, Logging, OpenPending,
         ExeOpen, Patched, Prologue, ReinitSteps, Booting, CdReads, Stopped
<1>2. TypeOK /\ ControlInv /\ [Next]_vars => ControlInv'
  <2> SUFFICES ASSUME TypeOK, ControlInv, [Next]_vars
               PROVE  ControlInv'
    OBVIOUS
  <2>1. CASE UNCHANGED vars
    BY <2>1 DEF vars, ControlInv, InterruptPart, EnqueuePart, ChainPart,
         HandlerPart, LoopPart, FilesPart, PatchPart, RamPart, LoaderSpared
  <2>2. CASE Program
    BY <2>2, MainControl, ReinitControl, PrepareControl, LaunchControl
       DEF Program, try_boot_cd
  <2>3. CASE Interrupt \/ OpenLid \/ SwapDisc \/ CloseLid \/ RomReadsStatus
    BY <2>3, WorldControl
  <2> QED
    BY <2>1, <2>2, <2>3 DEF Next, Idle
<1> QED
  BY <1>1, <1>2, TypeCorrect, PTL DEF Spec
-----------------------------------------------------------------------------

(* No interrupt meets half-built kernel tables, in any interleaving of the *)
(* program with its interrupts (bios.c:26-104, secondary.c:282-293).       *)
THEOREM KernelIsNeverTorn == Spec => []KernelNeverTorn
<1>1. ControlInv => KernelNeverTorn
  BY DEF ControlInv, KernelNeverTorn, InterruptPart
<1> QED
  BY <1>1, Control, PTL

(* Every CD read of try_boot_cd can be woken by its interrupt: the calls   *)
(* before it never leave the chain empty or the interrupts off.            *)
THEOREM ReadsAreWoken == Spec => []ReadsCanFinish
<1>1. ControlInv => ReadsCanFinish
  BY DEF ControlInv, ReadsCanFinish, InterruptPart, ChainPart,
         CanReadCd, CanInterrupt, CdReads, Critical, Chained, Booting
<1> QED
  BY <1>1, Control, PTL

(* No CD handler is enqueued while the loader polls the drive itself.      *)
THEOREM PollingIsUndisturbed == Spec => []PollingUndisturbed
<1>1. ControlInv => PollingUndisturbed
  BY DEF ControlInv, PollingUndisturbed, ChainPart, Unchained
<1> QED
  BY <1>1, Control, PTL

(* The CD handler is never enqueued twice (bios.c:78-84).                  *)
THEOREM CdHandlerIsOnce == Spec => []CdHandlerOnce
<1>1. ControlInv => CdHandlerOnce
  BY DEF ControlInv, CdHandlerOnce, ChainPart
<1> QED
  BY <1>1, Control, PTL

(* The handler given back to the game is the ROM's, after any number of    *)
(* retries (bios.c:107).                                                   *)
THEOREM SavedHandlerIsGenuine == Spec => []SavedHandlerGenuine
<1>1. ControlInv => SavedHandlerGenuine
  BY DEF ControlInv, SavedHandlerGenuine, HandlerPart
<1> QED
  BY <1>1, Control, PTL

(* A read error in an attempt is reported, it never locks the console.     *)
THEOREM ReadErrorsAreReported == Spec => []ReadErrorsReturn
<1>1. ControlInv => ReadErrorsReturn
  BY DEF ControlInv, ReadErrorsReturn, HandlerPart, Logging, Stock,
         Booting, CdReads
<1> QED
  BY <1>1, Control, PTL

(* A leaked file handle does not survive into the next attempt.            *)
THEOREM HandlesAreInUse == Spec => []HandlesInUse
<1>1. ControlInv => HandlesInUse
  BY DEF ControlInv, HandlesInUse, FilesPart, ExeOpen, OpenPending,
         Stopped, CdReads
<1> QED
  BY <1>1, Control, PTL

(* The game starts on a stock kernel that carries only the loader's own    *)
(* patches, whatever was exploited and however often it was retried.       *)
THEOREM LaunchIsClean == Spec => []LaunchClean
<1>1. ControlInv => LaunchClean
  BY DEF ControlInv, LaunchClean, InterruptPart, EnqueuePart, ChainPart,
         HandlerPart, FilesPart, PatchPart, Critical, Faked,
         TablesPending, Chained, Booting, Stock, Patched, Prologue,
         ReinitSteps
<1> QED
  BY <1>1, Control, PTL

(* The game never starts with unflushed code.                              *)
THEOREM LaunchIsCoherent == Spec => []LaunchCoherent
<1>1. ControlInv => LaunchCoherent
  BY DEF ControlInv, LaunchCoherent, PatchPart
<1> QED
  BY <1>1, Control, PTL

(* No accepted KSEG0 body overwrites the loader, for every header.         *)
THEOREM LoaderIsSpared == Spec => []LoaderSpared
<1>1. ControlInv => LoaderSpared
  BY DEF ControlInv, RamPart
<1> QED
  BY <1>1, Control, PTL

(* The softUART patch is in place in every attempt (secondary.c:427-431).  *)
THEOREM UartIsAlive == Spec => []UartAlive
<1>1. ControlInv => UartAlive
  BY DEF ControlInv, UartAlive, PatchPart, Booting, CdReads
<1> QED
  BY <1>1, Control, PTL
-----------------------------------------------------------------------------
(* The loader implements BootPromise: what is known of the attempt, as an  *)
(* inductive invariant, and from it the refinement, step by step.          *)

(* bios_reinitialize: between attempts there is little to know.            *)
LEMMA ReinitAttempt ==
    ASSUME TypeOK, AttemptInv, bios_reinitialize
    PROVE  AttemptInv'
<1> USE DEF AttemptInv, LidPart, OptionsPart, MemoryPart, HandOverPart,
            Identified, Configured, Buggy, Loaded, Cleared, HeaderRead,
            FileChosen, Booting, CdReads, Stopped, ReinitSteps,
            KernelStep, Goto, LidStep, StatusRead, User, SwitchVideo
<1>1. kernel \in Kernel /\ drive.disc \in Discs \cup {NoDisc}
  BY DEF TypeOK
<1>2. CASE ReEnter
  BY <1>1, <1>2 DEF ReEnter, EnterCriticalSection, Kernel
<1>3. CASE ReBegin
  BY <1>1, <1>3 DEF ReBegin, BeginTables, Kernel
<1>4. CASE ReKernel
  BY <1>1, <1>4 DEF ReKernel, CopyRelocatedKernel, Kernel
<1>5. CASE ReA0
  BY <1>1, <1>5 DEF ReA0, CopyA0Table, Kernel
<1>6. CASE ReEnd
  BY <1>1, <1>6 DEF ReEnd, EndTables, Kernel
<1>7. CASE ReDevices
  BY <1>1, <1>7 DEF ReDevices, InstallDevices, MaskInterrupts, Kernel
<1>8. CASE ReHook
  BY <1>1, <1>8 DEF ReHook, HookEnqueueCd, Kernel
<1>9. CASE ReConf
  BY <1>1, <1>9 DEF ReConf, BeginSetConf, Kernel
<1>10. CASE ReConfEnd
  BY <1>1, <1>10 DEF ReConfEnd, EndSetConf, ReconfigureCd, Kernel
<1>11. CASE ReUnhook
  BY <1>1, <1>11 DEF ReUnhook, UnhookEnqueueCd, Kernel
<1>12. CASE ReMem
  BY <1>1, <1>12 DEF ReMem, SetMemSize, Kernel
<1>13. CASE ReExit
  BY <1>1, <1>13 DEF ReExit, ExitCriticalSection, Kernel
<1>14. CASE ReSave
  BY <1>1, <1>14 DEF ReSave, SaveDiscError, Kernel
<1> QED
  BY <1>2, <1>3, <1>4, <1>5, <1>6, <1>7, <1>8, <1>9, <1>10, <1>11, <1>12, <1>13, <1>14 DEF bios_reinitialize

(* start and main.                                                         *)
LEMMA MainAttempt ==
    ASSUME TypeOK, AttemptInv, Start \/ main
    PROVE  AttemptInv'
<1> USE DEF AttemptInv, LidPart, OptionsPart, MemoryPart, HandOverPart,
            Identified, Configured, Buggy, Loaded, Cleared, HeaderRead,
            FileChosen, Booting, CdReads, Stopped, ReinitSteps,
            KernelStep, Goto, LidStep, StatusRead, User, SwitchVideo
<1>1. kernel \in Kernel /\ drive.disc \in Discs \cup {NoDisc}
  BY DEF TypeOK
<1>2. CASE Start
  BY <1>1, <1>2 DEF Start, Kernel
<1>3. CASE InitScreen
  BY <1>1, <1>3 DEF InitScreen, Kernel
<1>4. CASE IntegrityGate
  BY <1>1, <1>4 DEF IntegrityGate, Kernel
<1>5. CASE Inject
  BY <1>1, <1>5 DEF Inject, InjectDiscError, Kernel
<1>6. CASE DriveInit
  BY <1>1, <1>6 DEF DriveInit, Kernel
<1>7. CASE Unlock
  BY <1>1, <1>7 DEF Unlock, Kernel
<1>8. CASE Loop
  <2>1. /\ pc = "loop" /\ pc' = "waitOpen"
        /\ UNCHANGED <<inLoop, integrityOk, console, video, boot, drive>>
    BY <1>8 DEF Loop
  <2> QED
    BY <1>1, <2>1
<1> QED
  BY <1>2, <1>3, <1>4, <1>5, <1>6, <1>7, <1>8 DEF main

(* try_boot_cd up to the configuration of the kernel.                      *)
LEMMA PrepareAttempt ==
    ASSUME TypeOK, AttemptInv, 
           \/ WaitOpen \/ WaitClosed \/ CallCdInit \/ CheckRegion \/ OpenCnf
           \/ ReadCnf \/ EnterForSetConf \/ SetConfBegin \/ SetConfEnd \/ ClearRam
    PROVE  AttemptInv'
<1> USE DEF AttemptInv, LidPart, OptionsPart, MemoryPart, HandOverPart,
            Identified, Configured, Buggy, Loaded, Cleared, HeaderRead,
            FileChosen, Booting, CdReads, Stopped, ReinitSteps,
            KernelStep, Goto, LidStep, StatusRead, User, SwitchVideo
<1>1. kernel \in Kernel /\ drive.disc \in Discs \cup {NoDisc}
  BY DEF TypeOK
<1>2. CASE WaitOpen
  BY <1>1, <1>2 DEF WaitOpen, Kernel
<1>3. CASE WaitClosed
  <2>1. drive \in [lid : {"open", "closed"}, disc : Discs \cup {NoDisc},
                    shell : BOOLEAN, steady : BOOLEAN]
    BY DEF TypeOK
  <2>2. drive'.lid = "closed" /\ drive'.shell = FALSE /\ drive'.disc = drive.disc
    BY <1>3, <2>1 DEF WaitClosed
  <2> QED
    BY <1>3, <2>2 DEF WaitClosed
<1>4. CASE CallCdInit
  BY <1>1, <1>4 DEF CallCdInit, CdInit, ReconfigureCd, Kernel
<1>5. CASE CheckRegion
  BY <1>1, <1>5 DEF CheckRegion, ReadFails, Readable, DefaultBoot, Kernel
<1>6. CASE OpenCnf
  <2>1. pc' \in {"cnfRead", "critical", "reEnter", "lockup"} /\ pc = "cnfOpen"
    BY <1>6 DEF OpenCnf, ReadFails
  <2>2. CASE pc' = "cnfRead"
    BY <1>6, <2>1, <2>2 DEF OpenCnf, ReadFails, Readable
  <2>3. CASE pc' = "critical"
    <3>1. Readable => ~SystemCnf[drive.disc].present
      BY <1>6, <2>3 DEF OpenCnf, ReadFails
    <3>2. ASSUME drive.steady
          PROVE  /\ boot.conf = WantedConf(drive.disc)
                 /\ boot.bootfile = WantedFile(drive.disc)
      <4>1. drive.disc \in Discs /\ drive.lid = "closed"
        BY <2>1, <3>2
      <4>2. ~SystemCnf[drive.disc].present
        BY <3>1, <4>1, NoDiscAssumption DEF Readable
      <4> QED
        BY <2>1, <4>2 DEF WantedConf, WantedFile
    <3> QED
      BY <1>6, <2>1, <2>3, <3>2 DEF OpenCnf
  <2>4. CASE pc' \in {"reEnter", "lockup"}
    BY <1>6, <2>4 DEF OpenCnf
  <2> QED
    BY <2>1, <2>2, <2>3, <2>4
<1>7. CASE ReadCnf
  <2>1. pc = "cnfRead" /\ pc' \in {"critical", "reEnter", "lockup"}
    BY <1>7 DEF ReadCnf, ReadFails
  <2>2. CASE pc' = "critical"
    <3>1. boot' = [boot EXCEPT
                     !.conf = ConfFrom(SystemCnf[drive.disc], boot.conf),
                     !.bootfile = BootFileFrom(SystemCnf[drive.disc], boot.bootfile)]
      BY <1>7, <2>2 DEF ReadCnf, ReadFails
    <3>2. /\ boot'.conf = ConfFrom(SystemCnf[drive.disc], DefaultConf)
          /\ boot'.bootfile = BootFileFrom(SystemCnf[drive.disc], "PSX.EXE")
          /\ boot'.pal = boot.pal
      BY <2>1, <3>1 DEF TypeOK
    <3>3. drive.steady => /\ boot'.conf = WantedConf(drive.disc)
                          /\ boot'.bootfile = WantedFile(drive.disc)
      BY <2>1, <3>2 DEF WantedConf, WantedFile
    <3> QED
      BY <1>7, <2>1, <2>2, <3>2, <3>3 DEF ReadCnf
  <2>3. CASE pc' \in {"reEnter", "lockup"}
    BY <1>7, <2>3 DEF ReadCnf
  <2> QED
    BY <2>1, <2>2, <2>3
<1>8. CASE EnterForSetConf
  BY <1>1, <1>8 DEF EnterForSetConf, EnterCriticalSection, Kernel
<1>9. CASE SetConfBegin
  BY <1>1, <1>9 DEF SetConfBegin, BeginSetConf, Kernel
<1>10. CASE SetConfEnd
  BY <1>1, <1>10 DEF SetConfEnd, EndSetConf, ReconfigureCd, Kernel
<1>11. CASE ClearRam
  BY <1>1, <1>11 DEF ClearRam, Kernel
<1> QED
  BY <1>2, <1>3, <1>4, <1>5, <1>6, <1>7, <1>8, <1>9, <1>10, <1>11

(* try_boot_cd from the executable to the game.                            *)
LEMMA LaunchAttempt ==
    ASSUME TypeOK, AttemptInv, 
           \/ OpenExe \/ ReadExe \/ CheckExe \/ BuggyVideo \/ BuggyRestore
           \/ LoadAndExecute \/ LoadExe \/ Patch \/ VideoForGame \/ Restore
           \/ LaunchEnter \/ Flush \/ Execute
    PROVE  AttemptInv'
<1> USE DEF AttemptInv, LidPart, OptionsPart, MemoryPart, HandOverPart,
            Identified, Configured, Buggy, Loaded, Cleared, HeaderRead,
            FileChosen, Booting, CdReads, Stopped, ReinitSteps,
            KernelStep, Goto, LidStep, StatusRead, User, SwitchVideo
<1>1. kernel \in Kernel /\ drive.disc \in Discs \cup {NoDisc}
  BY DEF TypeOK
<1>2. CASE OpenExe
  <2>1. /\ pc = "exeOpen" /\ pc' \in {"exeRead", "reEnter", "lockup"}
        /\ UNCHANGED <<inLoop, integrityOk, console, video, ram, drive>>
    BY <1>2 DEF OpenExe, ReadFails
  <2>2. CASE pc' = "exeRead"
    <3>1. /\ boot.bootfile \in DOMAIN Executable[drive.disc]
          /\ kernel' = FileOpened(kernel, "exe")
          /\ boot' = [boot EXCEPT !.fcb = Fcb(drive.disc, boot.bootfile)]
      BY <1>2, <2>2 DEF OpenExe, ReadFails, OnDisc
    <3>2. /\ boot'.conf = boot.conf /\ boot'.pal = boot.pal
          /\ boot'.bootfile = boot.bootfile
          /\ boot'.fcb = Fcb(drive.disc, boot.bootfile)
      BY <3>1 DEF TypeOK
    <3>3. kernel'.conf = kernel.conf
      BY <1>1, <3>1 DEF FileOpened, Kernel
    <3> QED
      BY <2>1, <2>2, <3>1, <3>2, <3>3
  <2>3. CASE pc' \in {"reEnter", "lockup"}
    BY <2>1, <2>3
  <2> QED
    BY <2>1, <2>2, <2>3
<1>3. CASE ReadExe
  <2>1. /\ pc = "exeRead" /\ pc' \in {"exeCheck", "reEnter", "lockup"}
        /\ UNCHANGED <<inLoop, integrityOk, console, video, ram, drive>>
    BY <1>3 DEF ReadExe, ReadFails
  <2>2. CASE pc' = "exeCheck"
    <3>1. /\ kernel' = kernel
          /\ \E header \in FirstSector : boot' = WithHeader(boot, header)
      BY <1>3, <2>2 DEF ReadExe, ReadFails
    <3>2. PICK header \in FirstSector : boot' = WithHeader(boot, header)
      BY <3>1
    <3>3. /\ boot'.conf = boot.conf /\ boot'.pal = boot.pal
          /\ boot'.bootfile = boot.bootfile /\ boot'.fcb = boot.fcb
          /\ boot'.sp = boot'.conf["STACK"]
      BY <3>2 DEF WithHeader, TypeOK
    <3> QED
      BY <2>1, <2>2, <3>1, <3>3
  <2>3. CASE pc' \in {"reEnter", "lockup"}
    BY <2>1, <2>3
  <2> QED
    BY <2>1, <2>2, <2>3
<1>4. CASE CheckExe
  BY <1>1, <1>4 DEF CheckExe, FileClose, Kernel
<1>5. CASE BuggyVideo
  <2>1. video \in {"PAL", "NTSC"} /\ boot.pal \in BOOLEAN
    BY DEF TypeOK, Videos
  <2>2. video' = VideoOf(boot.pal)
    BY <1>5, <2>1 DEF BuggyVideo, VideoOf
  <2> QED
    BY <1>5, <2>2 DEF BuggyVideo
<1>6. CASE BuggyRestore
  BY <1>1, <1>6 DEF BuggyRestore, RestoreDiscError, Kernel
<1>7. CASE LoadAndExecute
  <2>1. /\ pc = "loadAndExecute"
        /\ pc' \in {"buggyGame", "reEnter", "corrupted", "buggyLockup"}
        /\ UNCHANGED <<inLoop, integrityOk, console, kernel, video, boot, drive>>
    BY <1>7 DEF LoadAndExecute
  <2> QED
    BY <1>1, <2>1
<1>8. CASE LoadExe
  <2>1. /\ pc = "exeLoad" /\ pc' \in {"patch", "corrupted", "reEnter", "lockup"}
        /\ UNCHANGED <<inLoop, integrityOk, console, video, boot, drive>>
    BY <1>8 DEF LoadExe, ReadFails
  <2>2. CASE pc' = "patch"
    <3>1. /\ kernel' = FileClose(kernel, "exe")
          /\ ram'.from = ram.from \cup {Body}
      BY <1>8, <2>2 DEF LoadExe, ReadFails
    <3>2. kernel'.conf = kernel.conf
      BY <1>1, <3>1 DEF FileClose, Kernel
    <3>3. ram.from = {} /\ ram'.from = {Body}
      BY <2>1, <3>1
    <3>4. drive.steady => Body = Image(drive.disc, boot.bootfile)
      BY <2>1 DEF Body, SameDisc, Fcb
    <3> QED
      BY <2>1, <2>2, <3>2, <3>3, <3>4
  <2>3. CASE pc' \in {"corrupted", "reEnter", "lockup"}
    BY <1>1, <2>1, <2>3
  <2> QED
    BY <2>1, <2>2, <2>3
<1>9. CASE Patch
  BY <1>1, <1>9 DEF Patch, PatcherApply, Kernel
<1>10. CASE VideoForGame
  <2>1. video \in {"PAL", "NTSC"} /\ boot.pal \in BOOLEAN
    BY DEF TypeOK, Videos
  <2>2. video' = VideoOf(boot.pal)
    BY <1>10, <2>1 DEF VideoForGame, VideoOf
  <2> QED
    BY <1>10, <2>2 DEF VideoForGame
<1>11. CASE Restore
  BY <1>1, <1>11 DEF Restore, RestoreDiscError, Kernel
<1>12. CASE LaunchEnter
  BY <1>1, <1>12 DEF LaunchEnter, EnterCriticalSection, Kernel
<1>13. CASE Flush
  BY <1>1, <1>13 DEF Flush, Kernel
<1>14. CASE Execute
  BY <1>1, <1>14 DEF Execute, Kernel
<1> QED
  BY <1>2, <1>3, <1>4, <1>5, <1>6, <1>7, <1>8, <1>9, <1>10, <1>11, <1>12, <1>13, <1>14

(* Interrupts and the user, who undoes it all by opening the lid.          *)
LEMMA WorldAttempt ==
    ASSUME TypeOK, AttemptInv, 
           Interrupt \/ OpenLid \/ SwapDisc \/ CloseLid \/ RomReadsStatus
    PROVE  AttemptInv'
<1> USE DEF AttemptInv, LidPart, OptionsPart, MemoryPart, HandOverPart,
            Identified, Configured, Buggy, Loaded, Cleared, HeaderRead,
            FileChosen, Booting, CdReads, Stopped, ReinitSteps,
            KernelStep, Goto, LidStep, StatusRead, User, SwitchVideo
<1>1. kernel \in Kernel /\ drive.disc \in Discs \cup {NoDisc}
  BY DEF TypeOK
<1>2. CASE Interrupt
  BY <1>1, <1>2 DEF Interrupt, CanInterrupt, Interrupted, Kernel
<1>3. CASE OpenLid
  BY <1>1, <1>3 DEF OpenLid, Kernel
<1>4. CASE SwapDisc
  BY <1>1, <1>4 DEF SwapDisc, Kernel
<1>5. CASE CloseLid
  BY <1>1, <1>5 DEF CloseLid, Kernel
<1>6. CASE RomReadsStatus
  BY <1>1, <1>6 DEF RomReadsStatus, Kernel
<1> QED
  BY <1>2, <1>3, <1>4, <1>5, <1>6

-----------------------------------------------------------------------------
(* IInv, which the runs check, is an inductive invariant: what is known of *)
(* the machine and, as long as the lid stays shut, that every option, the  *)
(* memory image and the video standard are those of the disc inside.       *)
THEOREM Attempt == Spec => []IInv
<1>1. Init => AttemptInv
  BY DEF Init, AttemptInv, LidPart, OptionsPart, MemoryPart, HandOverPart,
         Identified, Configured, Buggy, Loaded, Cleared, HeaderRead,
         FileChosen, Booting, CdReads
<1>2. TypeOK /\ AttemptInv /\ [Next]_vars => AttemptInv'
  <2> SUFFICES ASSUME TypeOK, AttemptInv, [Next]_vars
               PROVE  AttemptInv'
    OBVIOUS
  <2>1. CASE UNCHANGED vars
    BY <2>1 DEF vars, AttemptInv, LidPart, OptionsPart, MemoryPart, HandOverPart
  <2>2. CASE Program
    BY <2>2, MainAttempt, ReinitAttempt, PrepareAttempt, LaunchAttempt
       DEF Program, try_boot_cd
  <2>3. CASE Interrupt \/ OpenLid \/ SwapDisc \/ CloseLid \/ RomReadsStatus
    BY <2>3, WorldAttempt
  <2> QED
    BY <2>1, <2>2, <2>3 DEF Next, Idle
<1>3. TypeOK /\ ControlInv /\ AttemptInv => IInv
  BY DEF IInv
<1> QED
  BY <1>1, <1>2, <1>3, TypeCorrect, Control, PTL DEF Spec
-----------------------------------------------------------------------------
(* The steps of the program that start no attempt and no game go from      *)
(* phase to phase as BootPromise lets them.                                *)
LEMMA ProgramPhases ==
    ASSUME Program, ~WaitClosed, ~Execute, pc' # "buggyGame"
    PROVE  /\ \/ Phase' = Phase
              \/ Phase = "preparing" /\ Phase' \in {"asking", "stopped"}
              \/ Phase = "booting" /\ Phase' \in {"preparing", "stopped"}
           /\ pc \notin Games /\ pc' \notin Games
<1> USE DEF Phase, Games, Booting, CdReads, Stopped, KernelStep, Goto, LidStep, SwitchVideo
<1>1. CASE Start \/ main
  BY <1>1 DEF Start, main, InitScreen, IntegrityGate, Inject, DriveInit, Unlock, Loop
<1>2. CASE bios_reinitialize
  BY <1>2 DEF bios_reinitialize, ReEnter, ReBegin, ReKernel, ReA0, ReEnd,
        ReDevices, ReHook, ReConf, ReConfEnd, ReUnhook, ReMem, ReExit, ReSave
<1>3. CASE \/ WaitOpen \/ CallCdInit \/ CheckRegion \/ OpenCnf \/ ReadCnf
           \/ EnterForSetConf \/ SetConfBegin \/ SetConfEnd \/ ClearRam
  BY <1>3 DEF WaitOpen, CallCdInit, CheckRegion, OpenCnf, ReadCnf,
        EnterForSetConf, SetConfBegin, SetConfEnd, ClearRam, ReadFails
<1>4. CASE OpenExe \/ ReadExe \/ CheckExe \/ BuggyVideo \/ BuggyRestore
  BY <1>4 DEF OpenExe, ReadExe, CheckExe, BuggyVideo, BuggyRestore, ReadFails
<1>5. CASE LoadAndExecute \/ LoadExe
  BY <1>5 DEF LoadAndExecute, LoadExe, ReadFails
<1>6. CASE Patch \/ VideoForGame \/ Restore \/ LaunchEnter \/ Flush
  BY <1>6 DEF Patch, VideoForGame, Restore, LaunchEnter, Flush
<1> QED
  BY <1>1, <1>2, <1>3, <1>4, <1>5, <1>6 DEF Program, try_boot_cd

(* The unstable path is the only way into a game it starts.                *)
LEMMA OnlyLoadAndExecute ==
    ASSUME Program, pc' = "buggyGame"
    PROVE  LoadAndExecute
<1> USE DEF KernelStep, Goto, LidStep, SwitchVideo
<1>1. ~(Start \/ main)
  BY DEF Start, main, InitScreen, IntegrityGate, Inject, DriveInit, Unlock, Loop
<1>2. ~bios_reinitialize
  BY DEF bios_reinitialize, ReEnter, ReBegin, ReKernel, ReA0, ReEnd,
        ReDevices, ReHook, ReConf, ReConfEnd, ReUnhook, ReMem, ReExit, ReSave
<1>3. ~(\/ WaitOpen \/ WaitClosed \/ CallCdInit \/ CheckRegion \/ OpenCnf
        \/ ReadCnf \/ EnterForSetConf \/ SetConfBegin \/ SetConfEnd \/ ClearRam)
  BY DEF WaitOpen, WaitClosed, CallCdInit, CheckRegion, OpenCnf, ReadCnf,
        EnterForSetConf, SetConfBegin, SetConfEnd, ClearRam, ReadFails
<1>4. ~(\/ OpenExe \/ ReadExe \/ CheckExe \/ BuggyVideo \/ BuggyRestore
        \/ LoadExe \/ Patch \/ VideoForGame \/ Restore \/ LaunchEnter
        \/ Flush \/ Execute)
  BY DEF OpenExe, ReadExe, CheckExe, BuggyVideo, BuggyRestore, LoadExe,
        Patch, VideoForGame, Restore, LaunchEnter, Flush, Execute, ReadFails
<1> QED
  BY <1>1, <1>2, <1>3, <1>4 DEF Program, try_boot_cd

(* The program touches the drive by reading its status only.               *)
LEMMA ProgramDrive ==
    ASSUME Program, ~WaitClosed
    PROVE  drive' = drive \/ drive' = StatusRead(drive)
<1> USE DEF KernelStep, Goto, LidStep, SwitchVideo
<1>1. CASE Start \/ main
  BY <1>1 DEF Start, main, InitScreen, IntegrityGate, Inject, DriveInit, Unlock, Loop
<1>2. CASE bios_reinitialize
  BY <1>2 DEF bios_reinitialize, ReEnter, ReBegin, ReKernel, ReA0, ReEnd,
        ReDevices, ReHook, ReConf, ReConfEnd, ReUnhook, ReMem, ReExit, ReSave
<1>3. CASE \/ WaitOpen \/ CallCdInit \/ CheckRegion \/ OpenCnf \/ ReadCnf
           \/ EnterForSetConf \/ SetConfBegin \/ SetConfEnd \/ ClearRam
  BY <1>3 DEF WaitOpen, CallCdInit, CheckRegion, OpenCnf, ReadCnf,
        EnterForSetConf, SetConfBegin, SetConfEnd, ClearRam
<1>4. CASE \/ OpenExe \/ ReadExe \/ CheckExe \/ BuggyVideo \/ BuggyRestore
           \/ LoadAndExecute \/ LoadExe \/ Patch \/ VideoForGame \/ Restore
           \/ LaunchEnter \/ Flush \/ Execute
  BY <1>4 DEF OpenExe, ReadExe, CheckExe, BuggyVideo, BuggyRestore,
        LoadAndExecute, LoadExe, Patch, VideoForGame, Restore, LaunchEnter,
        Flush, Execute
<1> QED
  BY <1>1, <1>2, <1>3, <1>4 DEF Program, try_boot_cd

(* An attempt begins with the lid shut, not where the last one ended.      *)
LEMMA WaitClosedBegins ==
    ASSUME IInv, WaitClosed
    PROVE  Promise!Begin
<1>1. drive.lid = "closed" /\ ~drive.steady
  BY DEF WaitClosed, LidStep, IInv, AttemptInv, LidPart
<1>2. Phase = "asking" /\ Phase' = "booting"
  BY DEF WaitClosed, LidStep, Phase, Booting
<1>3. Run' = Run
  BY DEF WaitClosed, LidStep, Run, Games
<1>4. drive \in [lid : {"open", "closed"}, disc : Discs \cup {NoDisc},
                 shell : BOOLEAN, steady : BOOLEAN]
  BY DEF IInv, TypeOK
<1>5. drive'.lid = drive.lid /\ drive'.disc = drive.disc /\ drive'.steady = TRUE
  BY <1>4 DEF WaitClosed, LidStep, StatusRead
<1> QED
  BY <1>1, <1>2, <1>3, <1>5 DEF Promise!Begin

(* The game that is started, in either way, is the one the disc inside     *)
(* names, the way that disc wants it, if the lid has stayed shut.          *)
LEMMA HandedOver ==
    ASSUME IInv, pc \in {"exec", "loadAndExecute"}, pc' \in Games,
           UNCHANGED <<kernel, boot, video, drive>>,
           ram'.from # {},
           drive.steady => ram'.from = {Image(drive.disc, boot.bootfile)}
    PROVE  Promise!Launch
<1>1. Run' = [conf |-> kernel.conf, sp |-> boot.sp, video |-> video,
              image |-> ram'.from]
  BY DEF Run
<1>2. /\ kernel.conf = boot.conf /\ boot.sp = boot.conf["STACK"]
      /\ video = VideoOf(boot.pal)
  BY DEF IInv, AttemptInv, HandOverPart, HeaderRead, Buggy, Loaded
<1>3. ASSUME drive.steady
      PROVE  drive.disc \in Discs /\ Run' = Wanted[drive.disc]
  <2>1. /\ drive.disc \in Discs /\ boot.pal = (Region[drive.disc] = "E")
        /\ boot.conf = WantedConf(drive.disc)
        /\ boot.bootfile = WantedFile(drive.disc)
        /\ boot.bootfile \in DOMAIN Executable[drive.disc]
    BY <1>3 DEF IInv, AttemptInv, OptionsPart, MemoryPart, Loaded, Buggy,
       FileChosen, HeaderRead, Identified, Configured, Booting, CdReads
  <2>2. ram'.from = {Image(drive.disc, WantedFile(drive.disc))}
    BY <1>3, <2>1
  <2> QED
    BY <1>1, <1>2, <2>1, <2>2 DEF Wanted
<1>4. Run' # NoRun
  BY <1>1 DEF NoRun
<1>5. Phase = "booting" /\ Phase' = "running"
  BY DEF Phase, Games, Booting, CdReads, Stopped
<1> QED
  BY <1>3, <1>4, <1>5 DEF Promise!Launch, Promise!drive

(* DoExecute and LoadAndExecute both keep the promise.                     *)
LEMMA ExecuteLaunches ==
    ASSUME IInv, Execute
    PROVE  Promise!Launch
<1>1. /\ pc = "exec" /\ pc' = "game" /\ ram' = ram
      /\ UNCHANGED <<kernel, boot, video, drive>>
  BY DEF Execute, Goto
<1>2. /\ ram.from # {}
      /\ drive.steady => ram.from = {Image(drive.disc, boot.bootfile)}
  BY <1>1 DEF IInv, AttemptInv, MemoryPart, Loaded
<1> QED
  BY <1>1, <1>2, HandedOver DEF Games

LEMMA LoadAndExecuteLaunches ==
    ASSUME IInv, LoadAndExecute, pc' = "buggyGame"
    PROVE  Promise!Launch
<1>1. /\ pc = "loadAndExecute"
      /\ UNCHANGED <<kernel, boot, video, drive>>
      /\ ram' = [ram EXCEPT !.from = @ \cup {Image(drive.disc, boot.bootfile)}]
  BY DEF LoadAndExecute
<1>2. ram.from = {}
  BY <1>1 DEF IInv, AttemptInv, MemoryPart, Cleared, Buggy
<1>3. ram'.from = {Image(drive.disc, boot.bootfile)}
  BY <1>1, <1>2 DEF IInv, TypeOK
<1> QED
  BY <1>1, <1>3, HandedOver DEF Games

(* What the user does to the drive BootPromise's user does.                *)
LEMMA WorldRefines ==
    ASSUME IInv, Interrupt \/ OpenLid \/ SwapDisc \/ CloseLid \/ RomReadsStatus
    PROVE  Promise!User \/ UNCHANGED <<Phase, Run, Promise!drive>>
<1>1. pc \notin Stopped /\ pc' = pc
  BY DEF Interrupt, OpenLid, SwapDisc, CloseLid, RomReadsStatus, User
<1>2. UNCHANGED <<Phase, Run>> /\ Phase \notin {"running", "stopped"}
  BY <1>1 DEF Phase, Run, Games, Stopped, Booting, CdReads
<1>3. drive \in [lid : {"open", "closed"}, disc : Discs \cup {NoDisc},
                 shell : BOOLEAN, steady : BOOLEAN]
  BY DEF IInv, TypeOK
<1>4. CASE Interrupt
  BY <1>2, <1>4 DEF Interrupt, Promise!drive
<1>5. CASE OpenLid
  <2>1. drive'.lid = "open" /\ drive'.disc = drive.disc /\ drive'.steady = FALSE
    BY <1>3, <1>5 DEF OpenLid, User
  <2> QED
    BY <1>2, <2>1 DEF Promise!User
<1>6. CASE SwapDisc
  <2>1. PICK disc \in Discs \cup {NoDisc} : User([drive EXCEPT !.disc = disc])
    BY <1>6 DEF SwapDisc
  <2>2. drive'.lid = drive.lid /\ drive'.disc = disc /\ drive'.steady = drive.steady
    BY <1>3, <2>1 DEF User
  <2> QED
    BY <1>2, <1>6, <2>2 DEF SwapDisc, Promise!User
<1>7. CASE CloseLid
  <2>1. drive'.lid = "closed" /\ drive'.disc = drive.disc /\ drive'.steady = drive.steady
    BY <1>3, <1>7 DEF CloseLid, User
  <2> QED
    BY <1>2, <1>7, <2>1 DEF CloseLid, Promise!User
<1>8. CASE RomReadsStatus
  <2>1. drive'.lid = drive.lid /\ drive'.disc = drive.disc /\ drive'.steady = drive.steady
    BY <1>3, <1>8 DEF RomReadsStatus, StatusRead, User
  <2> QED
    BY <1>2, <2>1 DEF Promise!drive
<1> QED
  BY <1>4, <1>5, <1>6, <1>7, <1>8

(* The loader implements BootPromise, for any discs: it only starts an     *)
(* attempt once the lid has been opened and shut, and the game it starts   *)
(* without another opening, by DoExecute or by LoadAndExecute, is the one  *)
(* the disc inside names, alone in memory, set up the way that disc wants, *)
(* and none if the disc lacks it (secondary.c:123-398).                    *)
THEOREM LoaderImplementsPromise == Spec => ImplementsPromise
<1>1. Init => Promise!Init
  BY DEF Init, Promise!Init, Phase, Run, Games, Booting, CdReads, Stopped
<1>2. IInv /\ [Next]_vars => [Promise!Next]_(Promise!vars)
  <2> SUFFICES ASSUME IInv, [Next]_vars
               PROVE  Promise!Next \/ UNCHANGED <<Phase, Run, Promise!drive>>
    BY DEF Promise!vars
  <2>1. CASE UNCHANGED vars
    BY <2>1 DEF vars, Phase, Run, Promise!drive
  <2>2. CASE WaitClosed
    BY <2>2, WaitClosedBegins DEF Promise!Next
  <2>3. CASE Execute
    BY <2>3, ExecuteLaunches DEF Promise!Next
  <2>4. CASE Program /\ ~WaitClosed /\ ~Execute /\ pc' # "buggyGame"
    <3>1. UNCHANGED Promise!drive
      <4>1. drive' = drive \/ drive' = StatusRead(drive)
        BY <2>4, ProgramDrive
      <4> QED
        BY <4>1 DEF StatusRead, Promise!drive, IInv, TypeOK
    <3>2. pc \notin Games /\ pc' \notin Games
      BY <2>4, ProgramPhases
    <3>3. Run' = Run
      BY <3>2 DEF Run
    <3>4. \/ Phase' = Phase
          \/ Phase = "preparing" /\ Phase' \in {"asking", "stopped"}
          \/ Phase = "booting" /\ Phase' \in {"preparing", "stopped"}
      BY <2>4, ProgramPhases
    <3> QED
      BY <3>1, <3>3, <3>4 DEF Promise!Next, Promise!Ask, Promise!Fail, Promise!Stop
  <2>5. CASE Interrupt \/ OpenLid \/ SwapDisc \/ CloseLid \/ RomReadsStatus
    BY <2>5, WorldRefines DEF Promise!Next
  <2>6. CASE Program /\ pc' = "buggyGame"
    <3>1. LoadAndExecute
      BY <2>6, OnlyLoadAndExecute
    <3> QED
      BY <2>6, <3>1, LoadAndExecuteLaunches DEF Promise!Next
  <2> QED
    BY <2>1, <2>2, <2>3, <2>4, <2>5, <2>6 DEF Next, Idle
<1> QED
  BY <1>1, <1>2, Attempt, PTL DEF Spec, ImplementsPromise, Promise!Spec
=============================================================================
