----------------------------- MODULE MiniPrintf -----------------------------
(***************************************************************************)
(* mini_vsprintf (loader/str.c): every line the loader logs is put         *)
(* together by it.  One step is one round of a loop.                       *)
(*                                                                         *)
(* Characters are their codes; a format is the sequence of the characters  *)
(* before its terminator.  An argument is chosen when it is fetched.       *)
(***************************************************************************)
EXTENDS Integers, Sequences

CONSTANTS Formats,   \* what may be asked for
          Ints,      \* the values of an int
          HexDigits, \* hexadecimal digits of an unsigned int, 8 in the code
          Buffer     \* size of the buffer for decimal digits, 10 in the code

ASSUME FormatsAssumption == \A f \in Formats : f \in Seq(1 .. 255)
ASSUME IntsAssumption == Ints \subseteq Int
ASSUME HexDigitsAssumption == HexDigits \in 1 .. 8

(* What the digits of a number weigh, the last one first.                  *)
HexWeights == <<1, 16, 256, 4096, 65536, 1048576, 16777216, 268435456>>
DecimalWeights == <<1, 10, 100, 1000, 10000, 100000, 1000000, 10000000,
                    100000000, 1000000000>>

(* No int has more digits than the buffer; those of 32 bits have 10.       *)
ASSUME BufferAssumption ==
    /\ Buffer \in 1 .. 10
    /\ \A v \in Ints : /\ v < 10 * DecimalWeights[Buffer]
                        /\ -v < 10 * DecimalWeights[Buffer]

Zero == 48        \* '0'
Minus == 45       \* '-'
Percent == 37     \* '%'
Backslash == 92   \* '\\'
Letter(c) == CASE c = "A" -> 65 [] c = "c" -> 99 [] c = "d" -> 100 [] c = "n" -> 110
                [] c = "r" -> 114 [] c = "s" -> 115 [] c = "x" -> 120

Subtexts == {<<>>, <<Percent, Letter("d")>>}

VARIABLES
    fmt,      \* the format, never changed
    format,   \* the pointer into it: format = 1 is its first character
    pc,       \* loop, and within it escape, convert, digits, copy, hex; end
    out,      \* what is written from str to pos
    number,   \* history: the number being converted, or last converted
    start,    \* history: where its digits start in out; 0: something else
              \* was written last
    val,      \* what is left of it
    digits    \* the buffer, the last digit first; for x, the shifts done

vars == <<fmt, format, pc, out, number, start, val, digits>>

At(i) == IF i <= Len(fmt) THEN fmt[i] ELSE 0

Init ==
    /\ fmt \in Formats
    /\ format = 1
    /\ pc = "loop"
    /\ out = <<>>
    /\ number = 0 /\ start = 0 /\ val = 0
    /\ digits = <<>>
-----------------------------------------------------------------------------
Emit(text, to, position) ==
    /\ out' = out \o text
    /\ pc' = to
    /\ format' = position
    /\ start' = 0
    /\ UNCHANGED <<fmt, number, val, digits>>

Terminate == pc = "loop" /\ At(format) = 0 /\ Emit(<<0>>, "end", format)

Plain ==
    /\ pc = "loop" /\ At(format) \notin {0, Percent, Backslash}
    /\ Emit(<<At(format)>>, "loop", format + 1)

Special ==
    /\ pc = "loop" /\ At(format) \in {Percent, Backslash}
    /\ Emit(<<>>, IF At(format) = Percent THEN "convert" ELSE "escape", format + 1)

(* Seeded fault: the case of the terminator is left to the default.        *)
UnfinishedPassed == /\ pc \in {"escape", "convert"} /\ At(format) = 0
                    /\ Emit(<<Percent, 0>>, "loop", format + 1)

(* The format ends within an escape or a conversion.                       *)
Unfinished == /\ pc \in {"escape", "convert"} /\ At(format) = 0
              /\ Emit(<<Backslash, 0>>, "end", format)

Escape ==
    /\ pc = "escape" /\ At(format) # 0
    /\ Emit(CASE At(format) = Letter("n") -> <<10>>
              [] At(format) = Letter("r") -> <<13>>
              [] OTHER -> <<Backslash, At(format)>>, "loop", format + 1)

ConvertChar ==
    /\ pc = "convert" /\ At(format) = Letter("c")
    /\ \E c \in {Percent, Letter("A")} : Emit(<<c>>, "loop", format + 1)

ConvertString ==
    /\ pc = "convert" /\ At(format) = Letter("s")
    /\ \E subtext \in Subtexts : Emit(subtext, "loop", format + 1)

ConvertOther ==
    /\ pc = "convert"
    /\ At(format) \notin {0, Letter("c"), Letter("s"), Letter("d"), Letter("x")}
    /\ Emit(<<Percent, At(format)>>, "loop", format + 1)

(* % and / of C round towards zero.                                        *)
Rem(a) == IF a >= 0 THEN a % 10 ELSE -((-a) % 10)
Div(a) == IF a >= 0 THEN a \div 10 ELSE -((-a) \div 10)

ConvertDecimal ==
    /\ pc = "convert" /\ At(format) = Letter("d")
    /\ \E v \in Ints :
          LET sign == CASE v = 0 -> <<Zero>> [] v < 0 -> <<Minus>> [] v > 0 -> <<>>
          IN  /\ number' = v /\ val' = v
              /\ out' = out \o sign
              /\ start' = Len(out) + (IF v < 0 THEN 2 ELSE 1)
              /\ pc' = IF v = 0 THEN "loop" ELSE "digits"
              /\ format' = IF v = 0 THEN format + 1 ELSE format
    /\ digits' = <<>>
    /\ UNCHANGED fmt

(* Seeded faults: a division that rounds down (the buffer is kept finite), *)
(* and a loop that ends before the last digit.                             *)
DigitsRoundingDown ==
    /\ pc = "digits"
    /\ digits' = IF Len(digits) < Buffer THEN Append(digits, Zero + Rem(val)) ELSE digits
    /\ val' = val \div 10
    /\ pc' = IF val' # 0 THEN "digits" ELSE "copy"
    /\ UNCHANGED <<fmt, format, out, number, start>>

DigitsAllButOne ==
    /\ pc = "digits"
    /\ digits' = Append(digits, Zero + Rem(val))
    /\ val' = Div(val)
    /\ pc' = IF Div(val') # 0 THEN "digits" ELSE "copy"
    /\ UNCHANGED <<fmt, format, out, number, start>>

Digits ==
    /\ pc = "digits"
    /\ digits' = Append(digits, Zero + Rem(val))
    /\ val' = Div(val)
    /\ pc' = IF val' # 0 THEN "digits" ELSE "copy"
    /\ UNCHANGED <<fmt, format, out, number, start>>

Copy ==
    /\ pc = "copy"
    /\ IF digits = <<>>
       THEN pc' = "loop" /\ format' = format + 1 /\ UNCHANGED <<out, digits>>
       ELSE /\ out' = Append(out, digits[Len(digits)])
            /\ digits' = SubSeq(digits, 1, Len(digits) - 1)
            /\ UNCHANGED <<pc, format>>
    /\ UNCHANGED <<fmt, number, start, val>>

(* A negative int is taken for an unsigned one.                            *)
ConvertHex ==
    /\ pc = "convert" /\ At(format) = Letter("x")
    /\ \E v \in Ints :
          /\ number' = v % (16 * HexWeights[HexDigits])
          /\ val' = v % (16 * HexWeights[HexDigits])
    /\ start' = Len(out) + 1
    /\ digits' = <<>>
    /\ pc' = "hex"
    /\ UNCHANGED <<fmt, format, out>>

HexChar(c) == IF c < 10 THEN Zero + c ELSE Letter("A") + c - 10

(* i goes down from the highest digit; its character is written.           *)
Hex ==
    /\ pc = "hex"
    /\ LET i == HexDigits - 1 - (Len(out) + 1 - start)
       IN  /\ out' = Append(out, HexChar((val \div HexWeights[i + 1]) % 16))
           /\ pc' = IF i > 0 THEN "hex" ELSE "loop"
           /\ format' = IF i > 0 THEN format ELSE format + 1
    /\ UNCHANGED <<fmt, number, start, val, digits>>

Idle == pc = "end" /\ UNCHANGED vars

Round == Terminate \/ Plain \/ Special \/ Unfinished \/ Escape \/ ConvertChar
           \/ ConvertString \/ ConvertOther \/ ConvertDecimal \/ Digits \/ Copy
           \/ ConvertHex \/ Hex

Next == Round \/ Idle

Spec == Init /\ [][Next]_vars /\ WF_vars(Round)
-----------------------------------------------------------------------------
TypeOK ==
    /\ fmt \in Formats
    /\ format \in 1 .. Len(fmt) + 2
    /\ pc \in {"loop", "escape", "convert", "digits", "copy", "hex", "end"}
    /\ out \in Seq(0 .. 255)
    /\ number \in Int /\ start \in Nat /\ val \in Int
    /\ digits \in Seq(0 .. 255)

(* No format leads beyond its terminator, however it ends, and no int      *)
(* beyond the buffer for its digits.                                       *)
InBounds == format <= Len(fmt) + 1 /\ Len(digits) <= Buffer

(* The characters of the conversion that has just ended.                   *)
Converted(letter) ==
    IF pc = "loop" /\ start > 0 /\ At(format - 1) = letter
    THEN SubSeq(out, start, Len(out)) ELSE <<>>

(* The number a sequence of digits stands for.                             *)
Amount(values, base) ==
    LET upTo[n \in 0 .. Len(values)] ==
            IF n = 0 THEN 0 ELSE base * upTo[n - 1] + values[n]
    IN  upTo[Len(values)]

IsDigit(c) == c \in Zero .. Zero + 9
IsHexDigit(c) == IsDigit(c) \/ c \in Letter("A") .. Letter("A") + 5

DecimalValue(c) == c - Zero
HexValue(c) == IF IsDigit(c) THEN c - Zero ELSE c - Letter("A") + 10

DecimalValues(text) == [i \in 1 .. Len(text) |-> DecimalValue(text[i])]
HexValues(text) == [i \in 1 .. Len(text) |-> HexValue(text[i])]

(* %d: for a number that is not negative, and without leading zeros.       *)
DecimalReadsBack ==
    LET text == Converted(Letter("d"))
    IN  text # <<>> /\ number >= 0 =>
            /\ \A i \in DOMAIN text : IsDigit(text[i])
            /\ Amount(DecimalValues(text), 10) = number
            /\ text[1] = Zero => number = 0

(* %x: always all the digits of a word.                                    *)
HexReadsBack ==
    LET text == Converted(Letter("x"))
    IN  text # <<>> =>
            /\ Len(text) = HexDigits
            /\ \A i \in DOMAIN text : IsHexDigit(text[i])
            /\ Amount(HexValues(text), 16) = number

(* What %d and %x write for a number reads back as that number, whatever   *)
(* stands before it in the format (str.c:83-128).                          *)
NumbersReadBack == DecimalReadsBack /\ HexReadsBack

(* It returns, for every format and every argument.                        *)
Returns == <>(pc = "end")

(* "Calculate digits backwards" (str.c:95): what the loop puts into the    *)
(* buffer is a digit each, with a minus sign before them if the number is  *)
(* negative.                                                               *)
DigitsAreDigits == \A i \in DOMAIN digits : IsDigit(digits[i])
=============================================================================
