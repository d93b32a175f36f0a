# A verification development of the tonyhax loader

tonyhax starts backup discs on unmodified PlayStation consoles. A crafted save
file makes a commercial game jump into a small first stage
(`entrypoints/entry.S`), which reads the *secondary loader* (`loader/`) from
the memory card. The secondary loader puts the console's kernel back into order
underneath the exploited game, unlocks the CD drive with its backdoor commands,
asks the user to swap the disc, and boots whatever is inserted as the ROM would
have done, patching out the game's antipiracy checks on the way.

There are no threads, but the program is concurrent all the same: with the
interrupts of a console whose kernel it is taking apart, with a drive
controller that answers when it likes, and with a user at the lid. Nothing is
checked by tests, and every mistake ends in a console that hangs. These modules
say what has to be true at each place of the program, check it with TLC on
small instances and prove it with TLAPS for all of them.

## Inventory

| Component | State | Operations | Works with |
|---|---|---|---|
| start, main, try_boot_cd (`secondary.c`) | program counter, locals of an attempt, user memory | the loop wait, read SYSTEM.CNF, configure, load, patch, launch; every failure reinitialises and asks again | all others |
| Kernel glue (`bios.c`, `bios-asm.S`) | `original_disc_error`; the ROM's call tables, handler chain, control blocks | `bios_reinitialize`, `bios_inject_disc_error`, `bios_restore_disc_error`, `FakeEnqueueCdIntr` | ROM routines, interrupts |
| CD driver (`cdrom.c`; `unlock_drive`, `backdoor_cmd`, `wait_lid_status` of `secondary.c`) | the controller's registers and FIFOs, the drive's lid latch and lock | `cd_command`, `cd_wait_int`, `cd_read_reply`, `cd_drive_init` | the controller, the user |
| Executable header (`secondary.c`, `secondary.ld`) | the 2048-byte header | size cap, `exe_file_okay`, the overlap test | memory layout |
| Patch installation (`patcher.c`) | kernel code and tables | `patcher_apply`, `patcher_apply_softuart` | kernel glue |
| Patches at run time (`patch-ap.S`, `patch-fpb.S`, `patch-vandal-hearths-2.S`) | threads of the running game | the hooks on syscall 1, table B 0x16, the unlock code at 0x5B40 | the game |
| Software UART (`patch-uart.S`) | the registers of a call, the interrupt enables, timer 0, JOY_CTRL | the replacement for `std_out_putchar` | whoever prints; interrupts; the receiver on the wire |
| SYSTEM.CNF parser (`cfgparse.c`) | the text | `find_wanted`, `config_get_hex`, `config_get_string` | try_boot_cd |
| Log screen (`debugscreen.c`, `gpu.c`) | the GPU's memory, drawing area and display enable, video standard; last line and its count | `debug_init`, `debug_write`, `debug_switch_standard` | GPU; the game inherits the standard |
| Formatted printing (`str.c`) | format pointer, output, digit buffer | `mini_vsprintf` | every line of the log |
| Integrity test (`integrity.c`, `crc.c`) | `integrity_ok` | `integrity_test` | gates main |
| First stage (`entrypoints/entry.S`) | its place, the busy loop's counter; the card driver's accesses | silence the card library, wait for both slots, open, read header and loader, jump to `start` | the exploited game's memory card library |
| Audio (`audio.c`), build scripts, boot-cd, freepsxboot, docs | | | |

What is hard in it, and which property is about it:

* **The kernel is rebuilt under running interrupts.** An interrupt in the middle
  of a rebuild wipes the interrupt trampoline. `KernelNeverTorn`.
* **One ROM routine is called from two places.** SetConf and CdInit both enqueue
  the CD handler and both leave the critical section, which is wrong in the first
  place and needed in the other two; hence the fake EnqueueCdIntr.
  `CdHandlerOnce`, `ReadsCanFinish`, `PollingUndisturbed`.
* **Retries.** A failed attempt must leave nothing behind: not the options,
  the boot file or the memory image of the last disc (`ImplementsPromise`), not a file handle
  (`HandlesInUse`), not a lost patch (`UartAlive`), not a missing error handler
  (`ReadErrorsReturn`), not the wrong handler to restore (`SavedHandlerGenuine`).
* **Handing over.** The game must find a kernel like the stock one
  (`LaunchClean`) and caches that agree with memory (`LaunchCoherent`).
* **Arithmetic on the header** decides whether the loader overwrites itself while
  reading (`LoaderSpared`, `OverlapUsesLoadAndExecute`); a file shorter than its
  header makes it wrap.
* **Polling a controller with leftovers.** Replies of the game's commands, the
  lid's own interrupt and a kernel handler that would steal the reply
  (`UnlockSound`, `RequestsIntact`, `SwapIsReal`, `ReplyRead`, `ReplyFits`,
  `CommandsAnswered`, `SwapNoticed`). The drive latches an open lid until somebody
  reads its status, and the loader is not the only one who does (`ImplementsPromise`,
  `LidIsSeen`).
* **Guessing from the stack.** The antipiracy hook decides by what lies above a
  caller's stack pointer whom to send where (`ControlIntact`, `StopScreenNever`,
  `OrdinaryCallsEnter`, `OthersUseOriginalCode`, `CheckEnds`).
* **A library in the background.** The game's card library keeps accessing both
  cards while the first stage opens a file (`RedOnlyByCard`, `EntryEnds`).
* **Text without bounds.** Parser and formatter walk pointers over texts from the
  disc (`InsideText`, `HexAsWritten`, `StringAsWritten`, `InBounds`,
  `NumbersReadBack`, `DigitsAreDigits`), into buffers of 64 bytes (`BuffersHold`).
* **A screen that is scrolled in place.** Lines are copied over lines, text is drawn
  transparently, and a change of the video standard resets the drawing area in
  between (`ScreenIsBook`, `HeadingStands`).
* **Bits on a wire.** putchar times its bits by polling; an interrupt in between may
  print as well (`HeardAsSpoken`), so it takes the interrupt enables away and has to
  give back what its caller had, which may be none (`EnablesKept`).
* **Progress.** `LidIsSeen`, `AttemptEnds`, `Returns`, `PutcharReturns`.

`PROJECT.json` lists the hazards one by one, at their lines, with those no
property covers yet.

## Modules

| Module | What it is |
|---|---|
| `ExeImage` | the header arithmetic of try_boot_cd and exe_file_okay, as operators |
| `BiosKernel` | the kernel as a record; kernel calls, `bios.c` and `patcher.c` routines as functions on it |
| `Loader` | the program (EXTENDS the two above): one action per step, plus interrupts and the user |
| `BootPromise` | the abstract specification: ask, wait for a swap, run *that* disc *its* way, or ask again |
| `LoaderProperties` | type invariant, properties, the refinement mapping to `BootPromise`, the inductive invariant `IInv` |
| `CdDrive` | the polled CD driver with its callers, register by register, against the controller |
| `ConfigParse` | `cfgparse.c`, character by character, with a reference definition beside it |
| `AntipiracyHook` | `patch-ap.S` under a game that calls, returns and checks its disc |
| `EntryPoint` | `entry.S` against the game's card library |
| `MiniPrintf` | `mini_vsprintf`, one round of a loop per step |
| `LogBook` | the abstract specification of the log: a page of lines with their repetitions |
| `LogScreen` | `debugscreen.c` and `gpu.c` on the pixel rows of the GPU's memory, refining `LogBook` |
| `SoftUart` | `patch-uart.S` with timer, interrupts, other printers and the receiver |
| `MCLoader`, `MCCdDrive`, `MCConfigParse`, `MCAntipiracyHook`, `MCMiniPrintf`, `MCLogScreen` | values for the constants |
| `CdDriveInvariant` | the inductive invariant of `CdDrive` |
| `LoaderProofs` (with those of `ExeImage` and `BiosKernel`), `CdDriveProofs`, `ConfigParseProofs`, `AntipiracyHookProofs`, `EntryPointProofs`, `MiniPrintfProofs`, `LogScreenProofs`, `SoftUartProofs` | theorems and proofs |

The modules meet where the program's parts do: `EntryPoint` ends where `Loader`
begins, `Loader` uses what `ConfigParse` finds as a record and the drive that
`CdDrive` shows to be unlocked and swapped, and `AntipiracyHook` is what the
patch `Loader` installs does afterwards; `SoftUart` is what runs in place of the
putchar code the kernel record of `Loader` names, and the lines `LogScreen` puts on
the screen are made by `MiniPrintf`. Only `ExeImage`, `BiosKernel` and `Loader` are
composed by EXTENDS.

### Loader and BiosKernel

`pc` is the place in the program; a label stands for the code up to the next
call whose effect another actor can see or disturb. Actions prefixed `Re` are the
calls of `bios_reinitialize` in order (`bios.c:24-108`); the others are named
after what `main` and `try_boot_cd` do. A call that other actors could see
half-done is two actions: the table copies (`ReBegin` ... `ReEnd`) and both SetConf
calls (`ReConf`/`ReConfEnd`, `SetConfBegin`/`SetConfEnd`), with `kernel.rebuilding`
set in between. `Interrupt` may happen between any two steps when the CPU and
I_MASK let it.

`kernel` holds what the loader depends on: the interrupt enables, entries 0xA1
and 0xA2 of the A table (`discError`, `enqueueCd`) with the two copies the loader
keeps, how often the CD handler is in the chain, the configuration SetConf was
given, patches, the putchar code, the memory size and open files. ROM routines are
not in `src/`; they are modelled from how `src/` calls them and what its comments
say they do:

* SetConf empties the chain, rebuilds the control blocks, and ends like CdInit in
  the routine that enqueues the CD handler *through* A0[0xA2], opens the events and
  leaves the critical section (`bios.c:58-85`). `FakeEnqueueCdIntr` returns out of
  that routine, so with it neither happens (`ReconfigureCd`).
* InstallDevices starts with empty file and device control blocks.
* A CD read sleeps until the CD interrupt is served. A failed one calls A0[0xA1]:
  our handler returns and the read reports an error, the stock one never returns.
* FileOpen may answer FILEERR_NOT_FOUND for an unreadable drive as well as some
  other error; both continuations of `try_boot_cd` are taken.

`boot` holds the locals of an attempt. Configuration words and file names are
opaque values; a SYSTEM.CNF is a record of what the parser finds in it, with
`Unset` for a key it lacks. A disc holds one or more executables under their names
(`Executable`), and it is `boot.bootfile` that FileOpen looks for: a name the disc
lacks is an error, and one left over from another disc would open the wrong program.
The open file (`boot.fcb`) is a place on the disc it was opened on; if the disc is
exchanged under it, the header read is any of `Strays`. `ram` records the programs
with bytes in user memory (`from`: disc and file), what a
body has overwritten (`hit`: the loader, or kernel RAM below 0x10000) and what is
written but not flushed (`stale`). The body, the game's patches and the softUART
patch are; the last stays unflushed until the launch (`patcher.c:146`), and the model
does not say which code of the two the processor runs until then. When the loader or the kernel has been overwritten the
model stops with `pc = "corrupted"`. `drive.steady` is a history variable: the lid
has stayed shut since the attempt began or, before the first attempt, since the
start, so that the first attempt needs an opened lid like all others. `drive.shell` is the drive's latch: opening
the lid sets it, a status read with the lid shut clears it, whether it is the
loader's (`WaitOpen`, `WaitClosed`) or, during an attempt, the ROM's
(`RomReadsStatus`). A latch that is still set from a lid opened during a failed
attempt lets `WaitOpen` pass at once, as in the drive.

Initially the game's kernel is in working order, interrupts on, its handlers in
the tables, or the ROM's (`entry.S` leaves the kernel as it is). After
`DoExecute` (`game`) the model ends, and so it does when `LoadAndExecute`, which
opens the boot file again, has started the game (`buggyGame`); it may also return, or
meet a read error under the stock handler and lock up.

### CdDrive

`cpu` is the driver (`pc`) and which of main's jobs is being done (`job`): Init,
the GetRegion test, the seven backdoor commands, the two lid waits. `ctl` is the
controller: busy flag, parameter and reply FIFO, interrupt flag, a command in
execution and replies still to be presented. `drive` is the mechanism: region, lid,
the shell-open bit latched until the next Getstat, and how many of the backdoor
strings it has accepted in a row. A command is answered at any later time; every
command but Getstat may be refused; opening the lid may raise an INT5 of its own;
up to two replies to the game's last command may still be pending
(`LeftoversAssumption`: no command has more than two) and the parameter FIFO may hold
junk. `KernelHandler` is a CD handler that would serve the
interrupt if the controller were allowed to raise one. Region texts are their ASCII
bytes, so that `ReplyFits` sees the real lengths and `JudgeRegion` compares what
`strcmp` would; the backdoor strings are opaque. Writing CD_REGS[0] (the register page) before each
access is part of the access.

### ExeImage

Addresses are exact 32-bit numbers in granules of 256 bytes: `__RO_START__`
(0x801FA100), 0x80010000 and the header sector are multiples of it, and the sums
and the subtraction wrap at 2^32 as the code's do.

### ConfigParse

Texts are sequences of character classes (the key's letters, `=`, blank, line
feed, a digit, a letter that is no digit); each iteration of a loop of the source
is one action. The scan is compared with a reference definition that works on the
lines of the text. `Number`, what the digits of a line amount to, is the running value of
a recursive function over its characters, modulo 2^32 as in the code.

### AntipiracyHook

The game is not in the source; `patch-ap.S` says what its stack looks like when a
module has found the disc out, for three kinds of module, and the model's game
builds stacks like that: frames of fixed sizes, a saved return address in the last
but one word of each, main, drawing and loading functions that call StopCallback or
EnterCriticalSection themselves, and ap_check, which calls ap_failed as often as its
state machine (`again`, registers s0 and s1) says. A word of memory is a return
address (one of `Points`), another word-aligned address of the RAM (`pointer`, a zero
among them), such an address less than 0x78 bytes from the end of the RAM (`edge`) or
a word the mask rejects (`data`). What a function writes into its locals, or that it
leaves them as they were, is its game's `habit`.

The hook is taken register by register: the boundary test (`CrossesRam`), the word at
SP+0x28, the mask of lines 62-64 (`PassesMask`), the load from the alleged address
(`Faults`, `Crash`: one that leads out of the RAM stops the console, as the comment at
lines 29-41 reports of two games), the opcodes behind it (`Signature`: that no code
but ap_failed of the module has them is an assumption of the patch and of the model),
the adjustment and the two ways out. Of the loads, the one 0x74 bytes on is the
farthest there is unless the first opcode matches, so it decides whether any faults.
`calls` is a history variable, the true call stack: for each call its function and where
the stack pointer was in it. `ControlIntact` compares it with what the stack pointer and
the program counter say. When the hook unwinds a call that was not ap_failed's, the
thread is no longer followed (`Derailed`). `failed` remembers that a check has failed,
the only way a return address into ap_failed can be left on the stack (`Leftovers`).

### EntryPoint

`access` is what each slot is busy with: nothing, an access of the game's library,
the first stage's own. The library starts one in any frame until the BIOS clears the
interrupt before it (`clearPad`). FileOpen waits for *an* access to finish and then
looks at its buffer, as `entry.S:49-57` says. The busy loop counts down, and a
read succeeds if enough of it has passed since the open. The card may be good, lack
the save, hold a truncated one, or be pulled at any time. Masking the other
interrupts and painting are left out: nothing modelled depends on them.

### MiniPrintf

Characters are ASCII codes. Each case of the source's switches is an action; the
loops over decimal and hexadecimal digits take a step per digit; the copying of a
string argument is one step. Remainder and quotient round towards zero like C's.
`number` and `start` are history variables for the properties. `NumbersReadBack` reads a
number off the output by the weights of its digits, which is not how the code makes it.
`BufferAssumption` says that no int has more digits than the buffer has room for, which
is true of 32 bits and 10 digits.

### LogScreen

`rows` is the screen's memory, one entry per pixel row, for the columns right of the
margin: the set of images of which that row of pixels has been drawn there since it
was last filled. The black of a texture is transparent, so `gpu_draw_tex_rect` adds to
the set and `gpu_draw_solid_rect` replaces it; `gpu_copy_rectangle` moves rows whatever
they hold and ignores the drawing area, which the other two obey. `gpu_reset` closes
the area, forgets the texture page and turns the display off; a texture drawn from
another page than the font's shows anything. On top of these, `debug_init`, `debug_write` and
`debug_switch_standard` are the code's sequences of calls. `Read` says what a person
sees in a line: a text with its counter only if all fifteen pixel rows show that and
nothing else, and the row below is black. `Page` is then a function of the pixels
alone, and `ScreenIsBook` compares it with `LogBook`, which has no pixels. The font,
the palette, the change of the texture window and horizontal positions are left out.
`CounterChars` is the length %d gives the repetition counter, an unsigned number that
gets a minus sign from `SignBit` = 2^31 on. `MessagesAssumption` bounds a line by `LongestLine`, 49 characters, the
longest that a format of `secondary.c` makes with numbers of full width; that the name
of the executable fits the 32 bytes of `bootfilebuf` is part of that assumption, not
a result.

### SoftUart

`stack` holds the activations of putchar and of the interrupt handler, with the
registers of each: a handler may interrupt putchar where the enables allow it and may
print itself. Each step of putchar is one instruction or a few that only touch
registers; the wait loop takes a step per turn. There is no clock: each step of anyone
lets one tick pass, which the timer counts towards its next interrupt (toggling bit 10
of its mode) and the receiver towards its next sample. `Stall` lets a tick pass in
which the processor does nothing, once between two of its steps. The receiver starts
at a falling edge, samples the middle of each bit and checks start and stop bit. The
wire is a function of JOY_CTRL (`WireOf`), whose values are the code's. The comment at
line 91 names JOY_CTRL.2 where the mask 0x2002 sets bit 1; the model takes the code.
`critical` says whether the program is in a critical section when it prints. `Decode` weighs the ten
sampled bits; `PeriodAssumption` asks for a bit time of at least 6 ticks, of which two
pass in the wait loop, one may be a stall, and the receiver needs the rest.

## Runs

| Run | Spec | Shows |
|---|---|---|
| `loader` | `Spec`, seven discs, four consoles | `IInv`, the eleven safety properties, `Loader` implements `BootPromise` |
| `loader_live` | `FairSpec`, three discs, one console | `LidIsSeen`, `AttemptEnds` |
| `loader_overlap` | `Spec` | **violated**: the comment on the overlap test, see below |
| `drive` | `FairSpec`, five regions | soundness of the unlock, the requests and the lid waits; replies fit; no lost wake-up; the swap is noticed |
| `config` | `Spec` | the parser finds what the reference definition says, for all short texts |
| `hook` | `Spec` with fairness | the antipiracy hook unwinds exactly what it should, lets everyone else's calls through where it can, and checks end |
| `hook_stale` | the same, locals stay unwritten | **violated**: an ordinary call is taken for the module's, see below |
| `entry` | `Spec` with fairness | an intact card leads to the loader; the first stage ends |
| `printf` | `Spec` with fairness | the formatter stays in bounds, returns, and its numbers read back |
| `printf_negative` | `Spec` | **violated**: digits of negative numbers, see below |
| `log` | `Spec` | `LogScreen` implements `LogBook`, the heading stands, the buffers hold (one exception, see `BuffersHold`) |
| `uart` | `FairSpec` | what is printed is heard, the enables are kept, every call returns |

Bounds, and why they are enough. The seven discs are the ways through
`try_boot_cd`: a complete SYSTEM.CNF, none, two with only some keys (so that a
value left over from another disc would show, a boot file too: the disc without a
SYSTEM.CNF also holds the file another one boots), Vandal Hearts II, a header with a
size past its file, a file shorter than a header sector, one that fits to the last granule, one granule too many, one in
KUSEG, and an invalid load address. The consoles are all combinations the code
tells apart, once each: European or not, PS1 or PS2, a known or unknown syscall
verifier, a good or bad image. The user may swap any number of times and attempts
may fail any number of times: `Loader` has no counter to bound. The liveness run
drops discs and consoles whose paths differ only in data. In `CdDrive` the lid
opens at most `MaxOpenings` = 3 times (once for the swap and twice out of turn) and at most two replies are left over, which is the most one command
produces. `ConfigParse` has all texts of up to 6 characters, enough for a key, a
separator, a value of more digits than fit a word (of two) and a second line that
starts like the key. In `AntipiracyHook` calls nest `MaxDepth` = 6 deep, one more
than ap_check's chain, and the RAM has 112 words, just enough for that; the frame of
`load` makes its stack pointer coincide with the one the chain has. The games write
data the mask rejects, pointers to the end of the RAM, or leave their locals unwritten,
in a RAM that holds the word they write or zeros at first. `EntryPoint`
has the console's two slots; `Loops` = 12 stands for 1000000. `MiniPrintf` has all
formats of up to 4 characters, which is two conversions or an unfinished one behind
anything, and ints of a byte, with a buffer of 3 digits for them instead of 10 for
32 bits. `LogScreen` has three lines on a screen of 130 pixel rows instead of 22 on
480: a line that is scrolled in, one in the middle, one that leaves; texts of three
lengths, the longest the loader writes among them; and `MaxRepeats` = 13 repetitions
in a row with `SignBit` = 12 for 2^31, so that the counter gets its second digit and
its sign. At full size 49 characters, four around the counter, ten digits and the
terminator are 64 bytes up to a counter of 2^31 - 1; from there on the sign makes 65 of
the longest line, which the loader never writes twice in a row, while every line of up
to 48 characters still fits (proved for the real numbers, see below).
`SoftUart` has a zero, the newline and a byte with bits of both kinds, up to
`MaxPrints` = 3 calls in any nesting, and a bit time of 6 ticks, the least in which
the loop's two steps and a stall between each fit; the real one is 293 cycles.

Fairness. The processor keeps executing (`WF` of the program). The polling loops
take milliseconds and the user does not: if the lid is open, or shut, again and
again, the poll sees it (`SF` of `WaitOpen` and `WaitClosed`); `CdDrive` shows why
that is justified, there the loops themselves are modelled with weak fairness only.
The user does what the screen asks (`WF` of opening, then of shutting the lid).
The drive controller takes, answers and presents (`WF` each). Reads may fail
forever; no fairness is assumed of their success. In `AntipiracyHook` the game just
goes on (`WF` of `Next`); in `EntryPoint` the processor does, and every access ends,
by the driver's time-out if nothing else, while the library need not do anything;
`MiniPrintf` is sequential (`WF` of its rounds). In `SoftUart` interrupts come and
go but leave the processor some time between them (`SF` of putchar), and handlers
return (`WF`).

### Disagreements found

`loader_overlap`: the comment at `secondary.c:342` says that a file that overlaps
tonyhax is started with LoadAndExecute. The test at line 344 compares addresses,
not locations: a load address in KUSEG, which `exe_file_okay` accepts, is below any
KSEG0 address, so a large enough body is read over the loader instead.
`LoaderSpared` states what does hold, and is proved.

`hook_stale`: `patcher.c:59` says that the original code is used if the call did not
come from an antipiracy module. The hook cannot know that. A check that failed leaves
the return address of StopCallback behind on the stack; a function called later
whose frame covers that place, and which has not written the local there, is taken
for the module when it enters a critical section. It loses a frame it never had.
`OrdinaryCallsEnter` says, and its theorem proves, what is left of the comment: until a
check has failed, and afterwards in a game that writes its locals, every ordinary call
goes through, whatever is on the stack, unless the word at SP+0x28 is a pointer to the
last bytes of the RAM. That one passes the mask and is read from beyond the end (line 98).

`printf_negative`: for a negative number `'0' + val % 10` (`str.c:99`) is not a digit,
because C's remainder has the sign of the dividend. -13 comes out as `-/-`. The
error code of a failed read of SYSTEM.CNF (`secondary.c:250`) is such a number.

## Proofs

The theorems about `Loader` hold for any set of discs and their contents, any consoles, with and
without SOFTUART_PATCH; they assume the named ASSUMEs on constants.

* `TypeCorrect` (`LoaderProofs`): `Spec => []TypeOK`, from one lemma per group of
  actions and lemmas that every kernel operation maps kernels to kernels.
* `Control`: `Spec => []ControlInv`, the greater part of `IInv`. None of the safety properties
  is inductive by itself: that a read can be woken at `region` depends on what
  CdInit did with the chain, which depends on the entry 0xA2 seven steps earlier,
  which depends on the table copy before it. `ControlInv` records for each piece of
  the kernel on which stretch of the loop it has which value; its parts are
  `InterruptPart`, `EnqueuePart`, `ChainPart`, `HandlerPart`, `LoopPart`,
  `FilesPart`, `PatchPart` and `RamPart`. Its proof has one case per action.
* Eleven theorems derive the safety properties of `Loader` from `ControlInv`.
* `FittingBodySparesLoader`: for every header in KSEG0 whose end
  does not wrap, passing the overlap test means that no byte of the body lands on
  the loader, mirrors included. `Control` uses it for `LoaderSpared`.
* `Attempt`: `Spec => []IInv`, where `IInv` adds to type and
  control what an attempt knows of the disc (`AttemptInv`): as long as the lid has
  stayed shut, the options, the boot file (`OptionsPart`), the open file and the programs
  in memory (`MemoryPart`) are those of the disc in the drive, as far as the program has
  got with them; what is handed to kernel, stack and GPU is what the options say
  (`HandOverPart`).
* `LoaderImplementsPromise`: `Spec => ImplementsPromise`, every
  step of `Loader` is a step of `BootPromise` or a stutter. `WaitClosed` begins an
  attempt, `Execute` and `LoadAndExecute` launch, the failures ask again, the user's
  steps are the user's; everything else stutters. Both launches are held to the same
  promise (`HandedOver`): if the lid has stayed shut, the boot file of the inserted disc
  is alone in memory and has its own options, stack and video standard. That is what
  `AttemptInv` is for. `Patch` and the flush are not part of the promise, as
  `LoadAndExecute` goes without them; `LaunchClean` and `LaunchCoherent` speak of
  `Execute` only.

`CdDriveProofs`, for any subset of the regions, any leftovers of at most two replies and
any number of openings of the lid:

* `Invariant`: `Spec => []IInv`, the invariant of `CdDriveInvariant`. A reply does not say
  which command it answers; that the loader never takes one for another follows from
  the order they are queued in. The game's leftovers come first, and each of the two
  waits of `cd_drive_init` takes one (`InitPart`); after that the replies are the
  loader's, in the order of its commands, with the lid's anywhere among them. One part
  per job says which can still be pending and what is left of the one being read:
  `RegionPart` for the region's text, `SecretPart` for the refusals by which the
  backdoor shows that it has opened, `LidPart` for the two polls. `RequestPart` says
  what is on its way to the drive, `LengthPart` bounds what is read. The proof first
  sums up each action by what it does to registers, queue and drive (the lemmas called
  *Effect*), then takes one part at a time. TLC finds no state of the `drive` run
  outside of it.
* `Unlocks`, `SendsWhatIsMeant`, `SwapNeedsLid`, `StatusRead`, `RepliesFit` and
  `TypeCorrect` draw `UnlockSound`, `RequestsIntact`, `SwapIsReal`, `ReplyRead`,
  `ReplyFits` and the type from it.

`ConfigParseProofs`, for every text, key, set of digits and width of a word:

* `PointerInside`: the parser's pointer stays inside the text or on its terminator. A
  match of the key cannot extend past the end because no key contains the terminator,
  and each loop tests for it.
* `HexIsAsWritten` and `StringIsAsWritten`: `HexAsWritten` and `StringAsWritten`, the
  parser finds what the reference definition says. The invariant has one part per loop: no line
  above the pointer starts with the key (`FindInv`), the value is the number of the
  part of the line that is read, modulo the word (`HexInv`; `DigitShiftedIn` says that
  dropping the upper bits at each digit or once at the end is the same), or the word
  so far (`SkipInv`, `CopyInv`). A line without a word is excluded, see the property.

`AntipiracyHookProofs`, for any set of the known modules, any size of RAM, any depth of
calls and any habits of the games:

* `GameGoesOn`, `NoStopScreen`, `OthersEnter`: `ControlIntact`, `StopScreenNever`,
  `OrdinaryCallsEnter`. The invariant says that, unless the thread is derailed, the
  frames lie one below the other, each with its caller's return point in its place, and
  that a word elsewhere on the stack is a return point into ap_failed only as a leftover: never
  before a check has failed, and never where locals are written. So the tenth word above
  the stack pointer of a caller of EnterCriticalSection leads into ap_failed exactly if
  ap_failed has called StopCallback (`SeenIsMeant`), leftovers aside, and what the hook
  then takes off the stack is ap_failed's frame and the two below it, whole. Other words
  that pass the mask, return points among them, fail the comparison of opcodes.
  No theorem has a hypothesis on the game: what is excluded stands in the properties.

`MiniPrintfProofs`, for all formats and all ints that fit the digit buffer:

* `StaysInBounds`: the pointer stays inside the format, the digits inside their buffer.
* `NumbersAsMeant`: the digits in the output read back as the number. The invariant
  relates what is already written, the buffer and what is left of the number to the
  original (`Digested`, `HexWritten`).

`LogScreenProofs`, for any messages no longer than `LongestLine`, any number of lines and any
screen high enough for them:

* `LogImplementsBook`: `Spec => ScreenIsBook`, every step of `LogScreen` is a step of
  `LogBook` or a stutter. The invariant `ScreenInv` says that while the display is on
  the drawing area is the whole screen, that every line shows an entry in all its pixel
  rows and nothing else, and that the last entry is the line debug_write remembers with
  its count. While it is off no line is remembered. Its main lemma is that a scroll
  moves every line up by one and leaves the last one black.
* `HeadingIsKept`: `HeadingStands`.
* `BuffersAreLargeEnough`: `BuffersHold`, for counters up to 2^32 - 1. The exception
  it names is real: `LongestLineTooOften` shows that the line of 49 characters needs 65
  bytes at any counter of 2^31 or more whose value has ten digits.

`SoftUartProofs`, for any bytes, any number of calls and every bit time from 6 ticks on:

* `PutcharKeepsEnables`: `EnablesKept`. The invariant says of the whole stack what each putchar has
  saved: the enables of the handler below it if there is one, else those of the
  program. It needs that a handler runs only outside of critical sections, alone, and
  above at most one putchar that has not masked the interrupts yet.
* `ReceiverHears`: `HeardAsSpoken`. Whoever has the wire has it alone, which follows
  from the invariant before. `Clock` says when in a bit time putchar acts: it sees the
  timer's toggle within two ticks and writes one to three ticks after it. `Phase`
  relates the receiver's next sample to the bits written and read and to the tick in
  which the start bit went out, so that each bit is sampled while it is on the wire.
  The register, shifted ten times, gives the bits of the frame and these the byte
  back. `Between` and `InFrame` then say that what was spoken is what has been heard
  and what the registers still hold. TLC had found this invariant true for bit times
  of 6 and 7 ticks.

`EntryPointProofs`:

* `RedIsTheCard`: an intact card never leads to the red screen,
  for every length of the busy loop that covers the kernel's need. The invariant says
  from which place on each slot is free of the library, so that the access whose end
  FileOpen waits for can only be its own.

What the recursive functions of the models compute is proved by induction stated with
sets (`SetInduction`: a set of naturals that holds 0 and with n also n + 1 holds them
all), which follows from the library's well-foundedness of the naturals; its
induction theorems take operators, which the backends cannot instantiate.

Every safety property, action property and refinement that a passing run checks is
stated by a theorem. Only model-checked are the eight properties of progress, for which
the prover has no rules for fairness: `LidIsSeen`, `AttemptEnds`, `CommandsAnswered`,
`SwapNoticed`, `CheckEnds`, `EntryEnds`, `Returns` and `PutcharReturns`. The properties of
the three runs that expect a violation are false, and TLC's counterexample is what
there is to show of them.

## Not modelled

* ROM routines beyond what is said above; short reads, and the address of kernel
  structures (so `secondary.c:257` and `:329` are hazards without a property).
* The instructions the patcher writes and where it puts them: a fixed layout. The
  FreePSXBoot and Vandal Hearts II patches at run time: a comparison and a store each,
  against code that is in games and not here.
* The CRC (`crc.c`): a pure function of the loader's image, of which nothing else in the
  program depends but the gate; `Loader` has a good or a bad image.
* What a body does whose end wraps around the address space, which the capped size of a
  file shorter than a header sector allows: `LoaderSpared` leaves it out (`NoWrap`).
* What becomes of an attempt in which the disc is exchanged between two reads: it is in
  `Loader`, but nothing is promised of it, as the code has no check for it.
* The cache between `patcher_apply_softuart` and the launch: `UartAlive` says that the
  patch is in memory.
* What a game makes of timer 0 and JOY_CTRL after the software UART has used them.
* Games whose stack is in the scratchpad, which `patch-ap.S:39-41` leaves aside.
* `cd_drive_reset` (no caller), audio (a fixed list of register writes), the font and
  the palette, build scripts, boot-cd and freepsxboot (packaging), `docs/ap_v2.c` (an annotated
  disassembly of a game's protection).

## Plan

Done: all modules above, their runs, and the theorems above.

What is left, in this order: short reads in `Loader` (`secondary.c:329`); the antipiracy hook
with a second thread; an abstract specification of the wire, a queue of bytes, that
`SoftUart` implements, and one of the drive, that `Loader` could be composed with; the CRC
against its polynomial.
