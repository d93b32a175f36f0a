------------------------------ MODULE ExeImage ------------------------------
(***************************************************************************)
(* The arithmetic try_boot_cd does on the header of a PS-X executable:     *)
(* capping the load size, validating the addresses, deciding whether the   *)
(* body fits below the loader, and what the body overwrites once read.     *)
(*                                                                         *)
(* Addresses and sizes are 32-bit words counted in granules of 256 bytes,  *)
(* the coarsest unit in which 0x801FA100 (__RO_START__), 0x80010000 and    *)
(* the 2048-byte header are exact.  The 2 MB of RAM are visible in the     *)
(* segments KUSEG, KSEG0 and KSEG1, four times in the 8 MB of each.        *)
(***************************************************************************)
EXTENDS Integers

Word    == 16777216     \* 2^32 bytes
Segment == 32768        \* 8 MB, what the mask 0xFF800000 keeps apart
Ram     == 8192         \* 2 MB

Kuseg == 0              \* 0x00000000
Kseg0 == 8388608        \* 0x80000000
Kseg1 == 10485760       \* 0xA0000000

RoOffset     == 8097            \* 0x1FA100 of secondary.ld
LoaderLength == 63              \* 0x3F00 of secondary.ld
RoStart      == Kseg0 + RoOffset
HeaderSize   == 8               \* 2048 bytes
KernelLength == 256             \* RAM below 0x10000, user_start

Address == 0 .. Word - 1

Header == [load : Address, size : Address, entry : Address, aligned : BOOLEAN]

Masked(a) == a - (a % Segment)

(* exe_file_okay: the load address and the (word-aligned) initial PC must  *)
(* be in the first 8 MB of a segment.  The signature only gives a warning. *)
ExeFileOkay(h) ==
    /\ Masked(h.load) \in {Kuseg, Kseg0, Kseg1}
    /\ Masked(h.entry) \in {Kuseg, Kseg0, Kseg1}
    /\ h.aligned

(* The load size is capped to what the file holds past its header; the     *)
(* subtraction is unsigned, a file shorter than a sector wraps around.     *)
CapSize(h, fileSize) ==
    LET actual == (fileSize - HeaderSize) % Word
    IN  IF actual < h.size THEN [h EXCEPT !.size = actual] ELSE h

(* Seeded fault: only the start of the body is compared.                   *)
WontFitStartOnly(h) == h.load >= RoStart

(* The pointer comparison that selects the unstable LoadAndExecute.        *)
WontFit(h) == (h.load + h.size) % Word >= RoStart

(* Reading the body stores to load, load + 1, ..., load + size - 1; all    *)
(* segments and mirrors are the same RAM.                                  *)
Touches(h, g) == (g - h.load) % Ram < h.size

LoaderGranules == RoOffset .. RoOffset + LoaderLength - 1
KernelGranules == 0 .. KernelLength - 1

Hits(h) == {part \in {"loader", "kernel"} :
               \E g \in IF part = "loader" THEN LoaderGranules
                                           ELSE KernelGranules : Touches(h, g)}

InKseg0(h) == h.load >= Kseg0 /\ h.load < Kseg0 + Segment

(* The sum the comparison forms is the true end of the body.               *)
NoWrap(h) == h.load + h.size < Word
=============================================================================
