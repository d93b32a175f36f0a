-------------------------- MODULE MiniPrintfProofs --------------------------
(***************************************************************************)
(* mini_vsprintf for every format, every argument and every width: it      *)
(* stays within the format and its buffer, and the numbers it writes read  *)
(* back.                                                                   *)
(***************************************************************************)
EXTENDS MiniPrintf, SequenceTheorems, WellFoundedInduction, TLAPS
-----------------------------------------------------------------------------
(* Sums of digits                                                          *)

LEMMA LessThan == \A m, n \in Nat : <<m, n>> \in OpToRel(<, Nat) <=> m < n
BY DEF OpToRel

(* Induction, for a set of numbers.                                        *)
LEMMA SetInduction ==
    ASSUME NEW S, 0 \in S, \A n \in Nat : n \in S => n + 1 \in S
    PROVE  Nat \subseteq S
<1> DEFINE T == Nat \ S
<1> SUFFICES ASSUME T # {} PROVE FALSE
  OBVIOUS
<1>1. PICK x \in T : \A y \in T : ~(<<y, x>> \in OpToRel(<, Nat))
  <2>1. T \subseteq Nat
    OBVIOUS
  <2> QED
    BY <2>1, NatLessThanWellFounded, WFMin
<1>2. x \in Nat /\ x \notin S
  OBVIOUS
<1>3. x - 1 \in Nat /\ x - 1 < x /\ (x - 1) + 1 = x
  <2>1. x # 0
    BY <1>2
  <2> QED
    BY <1>2, <2>1
<1>4. x - 1 \in T
  BY <1>2, <1>3
<1>5. <<x - 1, x>> \in OpToRel(<, Nat)
  BY <1>2, <1>3, LessThan
<1> QED
  BY <1>1, <1>4, <1>5

LEMMA SequenceOf ==
    ASSUME NEW n \in Nat, NEW f \in [1 .. n -> Int]
    PROVE  f \in Seq(Int) /\ Len(f) = n
<1>1. /\ DOMAIN f = 1 .. n /\ \A i \in 1 .. n : f[i] \in Int
      /\ f = [j \in 1 .. n |-> f[j]]
  OBVIOUS
<1>2. [j \in 1 .. n |-> f[j]] \in Seq(Int)
  BY <1>1
<1>3. Len([j \in 1 .. n |-> f[j]]) = n
  OBVIOUS
<1> QED
  BY <1>1, <1>2, <1>3

LEMMA FrontOf ==
    ASSUME NEW seq \in Seq(Int), NEW k \in Nat, Len(seq) = k + 1
    PROVE  /\ SubSeq(seq, 1, k) \in Seq(Int) /\ Len(SubSeq(seq, 1, k)) = k
           /\ \A i \in 1 .. k : SubSeq(seq, 1, k)[i] = seq[i]
OBVIOUS

(* The sums of the first digits, each from the one before.                 *)
Sums(h, values, base) ==
    /\ h \in [0 .. Len(values) -> Int]
    /\ h[0] = 0
    /\ \A i \in 1 .. Len(values) : h[i] = base * h[i - 1] + values[i]

(* Whatever has them as its sums is the amount of a sequence of digits.    *)
LEMMA AmountIsLastSum ==
    ASSUME NEW values \in Seq(Int), NEW base \in Int, NEW h, Sums(h, values, base)
    PROVE  Amount(values, base) = h[Len(values)]
<1> DEFINE n == Len(values)
           next(f) == [i \in 0 .. n |-> IF i = 0 THEN 0 ELSE base * f[i - 1] + values[i]]
           upTo == CHOOSE f : f = next(f)
<1>1. n \in Nat /\ \A i \in 1 .. n : values[i] \in Int
  OBVIOUS
<1>2. h = next(h)
  BY <1>1 DEF Sums
<1>3. upTo = next(upTo)
  BY <1>2
<1>4. Amount(values, base) = upTo[n]
  BY DEF Amount
<1> HIDE DEF upTo
<1> DEFINE S == {i \in Nat : i <= n => upTo[i] = h[i]}
<1>5. 0 \in S
  BY <1>1, <1>2, <1>3
<1>6. ASSUME NEW i \in Nat, i \in S PROVE i + 1 \in S
  <2> SUFFICES ASSUME i + 1 <= n PROVE upTo[i + 1] = h[i + 1]
    OBVIOUS
  <2>1. upTo[i] = h[i] /\ i + 1 \in 0 .. n /\ i + 1 # 0 /\ (i + 1) - 1 = i
    BY <1>1, <1>6
  <2>2. upTo[i + 1] = base * upTo[i] + values[i + 1]
    BY <1>3, <2>1
  <2>3. h[i + 1] = base * h[i] + values[i + 1]
    BY <1>2, <2>1
  <2> QED
    BY <2>1, <2>2, <2>3
<1> HIDE DEF S
<1>7. n \in S
  BY <1>1, <1>5, <1>6, SetInduction
<1> QED
  BY <1>4, <1>7 DEF S
-----------------------------------------------------------------------------
(* Decimal numbers                                                         *)

(* The characters of a number, in order: those written to text from the    *)
(* position first on, and those waiting in the buffer, the last one first. *)
Total(text, first, buffer) == Len(text) + 1 - first + Len(buffer)

Char(text, first, buffer, i) ==
    IF i <= Len(text) + 1 - first
    THEN text[first + i - 1]
    ELSE buffer[Total(text, first, buffer) + 1 - i]

(* They are digits, and those of n once what is left of it stands before   *)
(* them.                                                                   *)
Digested(text, first, buffer, left, n) ==
    /\ \A i \in 1 .. Total(text, first, buffer) : IsDigit(Char(text, first, buffer, i))
    /\ \E h \in [0 .. Total(text, first, buffer) -> Int] :
          /\ h[0] = left
          /\ h[Total(text, first, buffer)] = n
          /\ \A i \in 1 .. Total(text, first, buffer) :
                h[i] = 10 * h[i - 1] + DecimalValue(Char(text, first, buffer, i))

LEMMA Division ==
    ASSUME NEW v \in Int
    PROVE  /\ Rem(v) \in Int /\ Div(v) \in Int
           /\ v = 10 * Div(v) + Rem(v)
           /\ v > 0 => Rem(v) \in 0 .. 9 /\ Div(v) >= 0
           /\ v > 0 /\ Div(v) = 0 => Rem(v) # 0
BY DEF Rem, Div

LEMMA DigitIsValue == \A r \in 0 .. 9 : IsDigit(Zero + r) /\ DecimalValue(Zero + r) = r
BY DEF IsDigit, DecimalValue, Zero

(* A digit taken off what is left goes into the buffer.                    *)
LEMMA DigestOne ==
    ASSUME NEW text \in Seq(Int), NEW buffer \in Seq(Int), NEW left \in Int, left > 0,
           NEW n \in Int, Digested(text, Len(text) + 1, buffer, left, n)
    PROVE  Digested(text, Len(text) + 1, Append(buffer, Zero + Rem(left)), Div(left), n)
<1> DEFINE first == Len(text) + 1
           more == Append(buffer, Zero + Rem(left))
           b == Len(buffer)
<1>1. /\ Len(text) \in Nat /\ b \in Nat /\ Zero + Rem(left) \in Int
      /\ more \in Seq(Int) /\ Len(more) = b + 1
      /\ more[b + 1] = Zero + Rem(left)
      /\ \A i \in 1 .. b : more[i] = buffer[i]
  <2>1. Zero + Rem(left) \in Int
    <3>1. Rem(left) \in Int
      BY Division
    <3> QED
      BY <3>1 DEF Zero
  <2> QED
    BY <2>1
<1>2. Total(text, first, buffer) = b /\ Total(text, first, more) = b + 1
  BY <1>1 DEF Total
<1>0. Len(text) + 1 - first = 0 /\ (b + 1) + 1 = b + 2
  BY <1>1
<1>3. \A i \in 1 .. b : Char(text, first, buffer, i) = buffer[b + 1 - i]
  BY <1>0, <1>1, <1>2, SMTT(30) DEF Char
<1>4. \A i \in 1 .. b + 1 : Char(text, first, more, i) = more[b + 2 - i]
  BY <1>0, <1>1, <1>2, SMTT(30) DEF Char
<1>5. Char(text, first, more, 1) = Zero + Rem(left)
  BY <1>1, <1>4
<1>6. ASSUME NEW i \in 1 .. b
      PROVE  Char(text, first, more, i + 1) = Char(text, first, buffer, i)
  <2>1. i + 1 \in 1 .. b + 1 /\ b + 2 - (i + 1) = b + 1 - i /\ b + 1 - i \in 1 .. b
    BY <1>1
  <2> QED
    BY <1>1, <1>3, <1>4, <2>1
<1>7. PICK h \in [0 .. b -> Int] :
          /\ h[0] = left /\ h[b] = n
          /\ \A i \in 1 .. b : h[i] = 10 * h[i - 1] + DecimalValue(Char(text, first, buffer, i))
  BY <1>2 DEF Digested
<1> DEFINE g == [i \in 0 .. b + 1 |-> IF i = 0 THEN Div(left) ELSE h[i - 1]]
<1>8. g \in [0 .. b + 1 -> Int] /\ g[0] = Div(left) /\ g[b + 1] = n
  <2>1. Div(left) \in Int
    BY Division
  <2>2. ASSUME NEW i \in 0 .. b + 1, i # 0
        PROVE  i - 1 \in 0 .. b
    BY <1>1, <2>2
  <2>3. 0 \in 0 .. b + 1 /\ b + 1 \in 0 .. b + 1 /\ b + 1 # 0 /\ (b + 1) - 1 = b
    BY <1>1
  <2> QED
    BY <1>7, <2>1, <2>2, <2>3
<1>9. ASSUME NEW i \in 1 .. b + 1
      PROVE  g[i] = 10 * g[i - 1] + DecimalValue(Char(text, first, more, i))
  <2>0. i \in 0 .. b + 1 /\ i - 1 \in 0 .. b + 1 /\ i # 0 /\ g[i] = h[i - 1]
    BY <1>1
  <2>1. CASE i = 1
    <3>1. g[i] = left /\ g[i - 1] = Div(left)
      BY <1>7, <2>0, <2>1
    <3>2. DecimalValue(Char(text, first, more, i)) = Rem(left)
      BY <1>5, <2>1, Division, DigitIsValue
    <3> QED
      BY <3>1, <3>2, Division
  <2>2. CASE i # 1
    <3>1. i - 1 \in 1 .. b /\ (i - 1) + 1 = i /\ i - 1 # 0
      BY <1>1, <2>2
    <3>2. g[i - 1] = h[(i - 1) - 1]
      BY <2>0, <3>1
    <3>3. h[i - 1] = 10 * h[(i - 1) - 1] + DecimalValue(Char(text, first, buffer, i - 1))
      BY <1>7, <3>1
    <3>4. Char(text, first, more, i) = Char(text, first, buffer, i - 1)
      BY <1>6, <3>1
    <3> QED
      BY <2>0, <3>2, <3>3, <3>4
  <2> QED
    BY <2>1, <2>2
<1>10. ASSUME NEW i \in 1 .. b + 1
       PROVE  IsDigit(Char(text, first, more, i))
  <2>1. CASE i = 1
    BY <1>5, <2>1, Division, DigitIsValue
  <2>2. CASE i # 1
    <3>1. i - 1 \in 1 .. b /\ (i - 1) + 1 = i
      BY <1>1, <2>2
    <3>2. IsDigit(Char(text, first, buffer, i - 1))
      BY <1>2, <3>1 DEF Digested
    <3> QED
      BY <1>6, <3>1, <3>2
  <2> QED
    BY <2>1, <2>2
<1> HIDE DEF g
<1> QED
  BY <1>2, <1>8, <1>9, <1>10 DEF Digested

(* A character goes from the buffer to the text.                           *)
LEMMA CopyOne ==
    ASSUME NEW text \in Seq(Int), NEW buffer \in Seq(Int), buffer # <<>>,
           NEW first \in 1 .. Len(text) + 1, NEW left, NEW n,
           Digested(text, first, buffer, left, n)
    PROVE  LET copied == Append(text, buffer[Len(buffer)])
               rest   == SubSeq(buffer, 1, Len(buffer) - 1)
           IN  /\ copied \in Seq(Int) /\ rest \in Seq(Int)
               /\ Len(copied) = Len(text) + 1
               /\ Total(copied, first, rest) = Total(text, first, buffer)
               /\ \A i \in 1 .. Total(text, first, buffer) :
                     Char(copied, first, rest, i) = Char(text, first, buffer, i)
               /\ Digested(copied, first, rest, left, n)
<1> DEFINE copied == Append(text, buffer[Len(buffer)])
           rest   == SubSeq(buffer, 1, Len(buffer) - 1)
           t == Len(text)
           b == Len(buffer)
           total == Total(text, first, buffer)
<1>1. /\ t \in Nat /\ b \in Nat /\ b >= 1 /\ first \in Nat /\ first >= 1 /\ first <= t + 1
      /\ buffer[b] \in Int
  BY EmptySeq
<1>2. /\ copied \in Seq(Int) /\ Len(copied) = t + 1 /\ copied[t + 1] = buffer[b]
      /\ \A i \in 1 .. t : copied[i] = text[i]
  BY <1>1
<1>3. /\ rest \in Seq(Int) /\ Len(rest) = b - 1
      /\ \A i \in 1 .. b - 1 : rest[i] = buffer[i]
  <2>1. b - 1 \in Nat /\ Len(buffer) = (b - 1) + 1
    BY <1>1
  <2> QED
    BY <2>1, FrontOf
<1>4. total = t + 1 - first + b /\ Total(copied, first, rest) = total
  <2>1. total = t + 1 - first + b /\ Total(copied, first, rest) = (t + 1) + 1 - first + (b - 1)
    BY <1>2, <1>3 DEF Total
  <2> QED
    BY <1>1, <2>1
<1>5. ASSUME NEW i \in 1 .. total
      PROVE  Char(copied, first, rest, i) = Char(text, first, buffer, i)
  <2>1. CASE i <= t + 1 - first
    <3>1. first + i - 1 \in 1 .. t /\ i <= (t + 1) + 1 - first
      BY <1>1, <2>1
    <3> QED
      BY <1>2, <2>1, <3>1 DEF Char
  <2>2. CASE i = t + 1 - first + 1
    <3>1. /\ ~(i <= t + 1 - first) /\ i <= (t + 1) + 1 - first
          /\ first + i - 1 = t + 1 /\ total + 1 - i = b
      BY <1>1, <1>4, <2>2
    <3> QED
      BY <1>2, <3>1 DEF Char
  <2>3. CASE i > t + 1 - first + 1
    <3>1. /\ ~(i <= t + 1 - first) /\ ~(i <= (t + 1) + 1 - first)
          /\ total + 1 - i \in 1 .. b - 1
      BY <1>1, <1>4, <2>3
    <3> QED
      BY <1>2, <1>3, <1>4, <3>1 DEF Char
  <2> QED
    BY <1>1, <1>4, <2>1, <2>2, <2>3
<1>6. Digested(copied, first, rest, left, n)
  BY <1>4, <1>5 DEF Digested
<1> QED
  BY <1>2, <1>3, <1>4, <1>5, <1>6

(* Once nothing is left and the buffer is empty, the text reads back.      *)
LEMMA DigestedReadsBack ==
    ASSUME NEW text \in Seq(Int), NEW first \in 1 .. Len(text) + 1, NEW n,
           Digested(text, first, <<>>, 0, n)
    PROVE  LET digits1 == SubSeq(text, first, Len(text))
           IN  /\ \A i \in DOMAIN digits1 : IsDigit(digits1[i])
               /\ Amount(DecimalValues(digits1), 10) = n
<1> DEFINE t == Len(text)
           number1 == SubSeq(text, first, t)
           total == t + 1 - first
           values == DecimalValues(number1)
<1>1. /\ t \in Nat /\ first \in Nat /\ first >= 1 /\ first <= t + 1
      /\ Total(text, first, <<>>) = total /\ total \in Nat
  BY DEF Total
<1>2. /\ number1 \in Seq(Int) /\ Len(number1) = total
      /\ \A i \in 1 .. total : number1[i] = text[first + i - 1]
  BY <1>1
<1>3. \A i \in 1 .. total : Char(text, first, <<>>, i) = number1[i]
  BY <1>1, <1>2 DEF Char
<1>4. PICK h \in [0 .. total -> Int] :
         /\ h[0] = 0 /\ h[total] = n
         /\ \A i \in 1 .. total : h[i] = 10 * h[i - 1] + DecimalValue(number1[i])
  BY <1>1, <1>3 DEF Digested
<1>5. values \in Seq(Int) /\ Len(values) = total
      /\ \A i \in 1 .. total : values[i] = DecimalValue(number1[i])
  <2>1. values = [i \in 1 .. total |-> DecimalValue(number1[i])]
    BY <1>2 DEF DecimalValues
  <2>2. \A i \in 1 .. total : DecimalValue(number1[i]) \in Int
    <3>1. \A i \in 1 .. total : number1[i] \in Int
      BY <1>2, ElementOfSeq
    <3>2. \A c \in Int : DecimalValue(c) \in Int
      BY DEF DecimalValue, Zero
    <3> QED
      BY <3>1, <3>2
  <2>3. values \in [1 .. total -> Int]
    BY <2>1, <2>2
  <2> QED
    BY <1>1, <2>1, <2>3, SequenceOf
<1> HIDE DEF values
<1>6. Sums(h, values, 10)
  BY <1>4, <1>5 DEF Sums
<1>7. Amount(values, 10) = n
  BY <1>4, <1>5, <1>6, AmountIsLastSum
<1>8. \A i \in DOMAIN number1 : IsDigit(number1[i])
  <2>1. \A i \in 1 .. total : IsDigit(Char(text, first, <<>>, i))
    BY <1>1 DEF Digested
  <2>2. DOMAIN number1 = 1 .. total
    BY <1>2
  <2> QED
    BY <1>3, <2>1, <2>2
<1> QED
  BY <1>7, <1>8 DEF values
-----------------------------------------------------------------------------
(* Hexadecimal numbers                                                     *)

LEMMA HexWeightsAre ==
    /\ HexWeights[1] = 1 /\ HexWeights[2] = 16 /\ HexWeights[3] = 256
    /\ HexWeights[4] = 4096 /\ HexWeights[5] = 65536 /\ HexWeights[6] = 1048576
    /\ HexWeights[7] = 16777216 /\ HexWeights[8] = 268435456
BY DEF HexWeights

LEMMA HexWeightsType == \A j \in 1 .. 8 : HexWeights[j] \in Nat \ {0}
<1> SUFFICES ASSUME NEW j \in 1 .. 8 PROVE HexWeights[j] \in Nat \ {0}
  OBVIOUS
<1>1. j = 1 \/ j = 2 \/ j = 3 \/ j = 4 \/ j = 5 \/ j = 6 \/ j = 7 \/ j = 8
  OBVIOUS
<1> QED
  BY <1>1, HexWeightsAre

LEMMA DivInt == ASSUME NEW n \in Nat, NEW w \in Nat \ {0} PROVE n \div w \in Nat /\ n % w \in 0 .. w - 1
OBVIOUS

(* Shifting by a digit more is shifting by a digit again.                  *)
LEMMA NextShift ==
    ASSUME NEW n \in Nat, NEW j \in 1 .. 7
    PROVE  n \div HexWeights[j] = 16 * (n \div HexWeights[j + 1]) + ((n \div HexWeights[j]) % 16)
<1>1. j = 1 \/ j = 2 \/ j = 3 \/ j = 4 \/ j = 5 \/ j = 6 \/ j = 7
  OBVIOUS
<1>2. n \div 1 = 16 * (n \div 16) + ((n \div 1) % 16)
  OBVIOUS
<1>3. n \div 16 = 16 * (n \div 256) + ((n \div 16) % 16)
  OBVIOUS
<1>4. n \div 256 = 16 * (n \div 4096) + ((n \div 256) % 16)
  OBVIOUS
<1>5. n \div 4096 = 16 * (n \div 65536) + ((n \div 4096) % 16)
  OBVIOUS
<1>6. n \div 65536 = 16 * (n \div 1048576) + ((n \div 65536) % 16)
  OBVIOUS
<1>7. n \div 1048576 = 16 * (n \div 16777216) + ((n \div 1048576) % 16)
  OBVIOUS
<1>8. n \div 16777216 = 16 * (n \div 268435456) + ((n \div 16777216) % 16)
  OBVIOUS
<1> QED
  BY <1>1, <1>2, <1>3, <1>4, <1>5, <1>6, <1>7, <1>8, HexWeightsAre

LEMMA FirstShift ==
    ASSUME NEW j \in 1 .. 8, NEW n \in 0 .. 16 * HexWeights[j] - 1
    PROVE  n \in Nat /\ n \div HexWeights[j] = (n \div HexWeights[j]) % 16
<1>1. j = 1 \/ j = 2 \/ j = 3 \/ j = 4 \/ j = 5 \/ j = 6 \/ j = 7 \/ j = 8
  OBVIOUS
<1>2. n \in Nat
  BY HexWeightsType
<1>3. n < 16 * HexWeights[j]
  BY HexWeightsType
<1>4. \A w \in {1, 16, 256, 4096, 65536, 1048576, 16777216, 268435456} :
          n < 16 * w => n \div w = (n \div w) % 16
  BY <1>2
<1> QED
  BY <1>1, <1>2, <1>3, <1>4, HexWeightsAre

LEMMA HexCharIsValue ==
    \A c \in 0 .. 15 : IsHexDigit(HexChar(c)) /\ HexValue(HexChar(c)) = c /\ HexChar(c) \in Int
BY DEF IsHexDigit, IsDigit, HexChar, HexValue, Zero, Letter

HexDigit(n, i) == (n \div HexWeights[HexDigits + 1 - i]) % 16

(* The highest digits of n stand in text from first on.                    *)
HexWritten(text, first, n) ==
    \A i \in 1 .. Len(text) + 1 - first : text[first + i - 1] = HexChar(HexDigit(n, i))

LEMMA HexDigitType ==
    ASSUME NEW n \in Nat, NEW i \in 1 .. HexDigits
    PROVE  /\ HexDigit(n, i) \in 0 .. 15 /\ HexDigit(n, i) \in Int
           /\ n \div HexWeights[HexDigits + 1 - i] \in Int
<1>1. HexDigits + 1 - i \in 1 .. 8
  BY HexDigitsAssumption
<1>2. n \div HexWeights[HexDigits + 1 - i] \in Nat
  BY <1>1, HexWeightsType, DivInt
<1> QED
  BY <1>2 DEF HexDigit

(* With all its digits there, the text reads back.                         *)
LEMMA HexWrittenReadsBack ==
    ASSUME NEW text \in Seq(Int), NEW first \in 1 .. Len(text) + 1,
           Len(text) + 1 - first = HexDigits,
           NEW n \in 0 .. 16 * HexWeights[HexDigits] - 1, HexWritten(text, first, n)
    PROVE  LET digits1 == SubSeq(text, first, Len(text))
           IN  /\ Len(digits1) = HexDigits
               /\ \A i \in DOMAIN digits1 : IsHexDigit(digits1[i])
               /\ Amount(HexValues(digits1), 16) = n
<1> DEFINE t == Len(text)
           number1 == SubSeq(text, first, t)
           values == HexValues(number1)
<1>1. /\ t \in Nat /\ first \in Nat /\ first >= 1 /\ first <= t + 1
      /\ HexDigits \in 1 .. 8 /\ HexDigits \in Nat /\ n \in Nat
  BY HexDigitsAssumption, FirstShift
<1>2. /\ number1 \in Seq(Int) /\ Len(number1) = HexDigits
      /\ \A i \in 1 .. HexDigits : number1[i] = text[first + i - 1]
  <2>1. number1 \in Seq(Int) /\ Len(number1) = t + 1 - first
        /\ \A i \in 1 .. t + 1 - first : number1[i] = text[first + i - 1]
    BY <1>1
  <2> QED
    BY <2>1
<1>3. \A i \in 1 .. HexDigits : number1[i] = HexChar(HexDigit(n, i))
  BY <1>2 DEF HexWritten
<1>4. \A i \in 1 .. HexDigits : IsHexDigit(number1[i]) /\ HexValue(number1[i]) = HexDigit(n, i)
  BY <1>1, <1>3, HexDigitType, HexCharIsValue
<1>5. values \in Seq(Int) /\ Len(values) = HexDigits
      /\ \A i \in 1 .. HexDigits : values[i] = HexDigit(n, i)
  <2>1. values = [i \in 1 .. HexDigits |-> HexValue(number1[i])]
    BY <1>2 DEF HexValues
  <2>2. \A i \in 1 .. HexDigits : HexValue(number1[i]) \in Int
    BY <1>1, <1>4, HexDigitType
  <2>3. values \in [1 .. HexDigits -> Int]
    BY <2>1, <2>2
  <2>4. values \in Seq(Int) /\ Len(values) = HexDigits
    BY <1>1, <2>3, SequenceOf
  <2>5. \A i \in 1 .. HexDigits : values[i] = HexValue(number1[i])
    BY <2>1
  <2> QED
    BY <1>4, <2>4, <2>5
<1> HIDE DEF values
<1> DEFINE h == [i \in 0 .. HexDigits |-> IF i = 0 THEN 0 ELSE n \div HexWeights[HexDigits + 1 - i]]
<1>6. h \in [0 .. HexDigits -> Int] /\ h[0] = 0 /\ h[HexDigits] = n
  <2>1. ASSUME NEW i \in 0 .. HexDigits, i # 0
        PROVE  n \div HexWeights[HexDigits + 1 - i] \in Int
    <3>1. i \in 1 .. HexDigits
      BY <1>1, <2>1
    <3> QED
      BY <1>1, <3>1, HexDigitType
  <2>2. h \in [0 .. HexDigits -> Int]
    BY <2>1
  <2>3. h[0] = 0
    BY <1>1
  <2>4. h[HexDigits] = n \div HexWeights[1]
    BY <1>1
  <2>5. n \div HexWeights[1] = n
    BY <1>1, HexWeightsAre
  <2> QED
    BY <2>2, <2>3, <2>4, <2>5
<1>7. ASSUME NEW i \in 1 .. HexDigits
      PROVE  h[i] = 16 * h[i - 1] + HexDigit(n, i)
  <2>1. h[i] = n \div HexWeights[HexDigits + 1 - i]
    BY <1>1
  <2>2. CASE i = 1
    <3>1. h[i - 1] = 0 /\ h[i] = n \div HexWeights[HexDigits] /\ HexDigit(n, i) = (n \div HexWeights[HexDigits]) % 16
      BY <1>1, <2>2 DEF HexDigit
    <3>2. h[i] = HexDigit(n, i)
      BY <1>1, <3>1, FirstShift
    <3>3. HexDigit(n, i) \in Int
      BY <1>1, HexDigitType
    <3> QED
      BY <3>1, <3>2, <3>3, SMTT(30)
  <2>3. CASE i # 1
    <3> DEFINE j == HexDigits + 1 - i
    <3>1. j \in 1 .. 7 /\ i - 1 \in 0 .. HexDigits /\ i - 1 # 0 /\ HexDigits + 1 - (i - 1) = j + 1
      BY <1>1, <2>3
    <3>2. h[i - 1] = n \div HexWeights[j + 1]
      BY <3>1
    <3>3. n \div HexWeights[j] = 16 * (n \div HexWeights[j + 1]) + ((n \div HexWeights[j]) % 16)
      BY <1>1, <3>1, NextShift
    <3> QED
      BY <2>1, <3>2, <3>3 DEF HexDigit
  <2> QED
    BY <2>2, <2>3
<1> HIDE DEF h
<1>8. Sums(h, values, 16)
  BY <1>5, <1>6, <1>7 DEF Sums
<1>9. Amount(values, 16) = n
  BY <1>5, <1>6, <1>8, AmountIsLastSum
<1>10. DOMAIN number1 = 1 .. HexDigits
  BY <1>2
<1> QED
  BY <1>2, <1>4, <1>9, <1>10 DEF values
-----------------------------------------------------------------------------
(* The inductive invariant                                                 *)

TypePart ==
    /\ fmt \in Formats
    /\ pc \in {"loop", "escape", "convert", "digits", "copy", "hex", "end"}
    /\ out \in Seq(Int) /\ digits \in Seq(Int)
    /\ number \in Int /\ start \in Nat /\ val \in Int

(* The pointer is on a character or the terminator, and during a           *)
(* conversion on its letter.                                               *)
PointerPart ==
    /\ format \in 1 .. Len(fmt) + 1
    /\ pc \in {"digits", "copy"} => At(format) = Letter("d")
    /\ pc = "hex" => At(format) = Letter("x")

(* What is left of an int fits what is left of the buffer.                 *)
BufferPart ==
    /\ Len(digits) <= Buffer
    /\ pc = "digits" =>
          /\ Len(digits) < Buffer
          /\ val < 10 * DecimalWeights[Buffer - Len(digits)]
          /\ -val < 10 * DecimalWeights[Buffer - Len(digits)]

(* A decimal number is being written, or has just been.                    *)
Decimals == pc \in {"digits", "copy"} \/ (pc = "loop" /\ start > 0 /\ At(format - 1) = Letter("d"))

DecimalPart ==
    Decimals /\ number >= 0 =>
        /\ start \in 1 .. Len(out) + 1
        /\ Digested(out, start, digits, val, number)
        /\ pc = "digits" => val > 0 /\ start = Len(out) + 1
        /\ pc # "digits" => /\ val = 0
                            /\ Total(out, start, digits) >= 1
                            /\ Char(out, start, digits, 1) = Zero => number = 0
        /\ pc = "loop" => digits = <<>>

Hexadecimals == pc = "hex" \/ (pc = "loop" /\ start > 0 /\ At(format - 1) = Letter("x"))

HexPart ==
    Hexadecimals =>
        /\ start \in 1 .. Len(out) + 1
        /\ number \in 0 .. 16 * HexWeights[HexDigits] - 1 /\ val = number
        /\ HexWritten(out, start, number)
        /\ pc = "hex" => Len(out) + 1 - start \in 0 .. HexDigits - 1
        /\ pc = "loop" => Len(out) + 1 - start = HexDigits

IInv == TypePart /\ PointerPart /\ BufferPart /\ DecimalPart /\ HexPart
-----------------------------------------------------------------------------
LEMMA Letters ==
    /\ Letter("d") = 100 /\ Letter("x") = 120
    /\ Letter("d") # Letter("x") /\ Letter("d") # 0 /\ Letter("x") # 0
<1>1. Letter("d") = 100
  BY DEF Letter
<1>2. Letter("x") = 120
  BY DEF Letter
<1> QED
  BY <1>1, <1>2

(* A character that is not the terminator has one behind it.               *)
LEMMA Behind ==
    ASSUME IInv, At(format) # 0
    PROVE  format + 1 \in 1 .. Len(fmt) + 1 /\ (format + 1) - 1 = format
<1>1. fmt \in Seq(1 .. 255) /\ format \in 1 .. Len(fmt) + 1
  BY FormatsAssumption DEF IInv, TypePart, PointerPart
<1>2. Len(fmt) \in Nat
  BY <1>1
<1>3. format <= Len(fmt)
  BY DEF At
<1> QED
  BY <1>1, <1>2, <1>3

LEMMA AtType == ASSUME IInv, NEW i \in 1 .. Len(fmt) + 1 PROVE At(i) \in Int
<1>1. fmt \in Seq(1 .. 255)
  BY FormatsAssumption DEF IInv, TypePart
<1>2. Len(fmt) \in Nat
  BY <1>1
<1>3. CASE i <= Len(fmt)
  <2>1. i \in 1 .. Len(fmt)
    BY <1>2, <1>3
  <2>2. fmt[i] \in 1 .. 255
    BY <1>1, <2>1, ElementOfSeq
  <2>3. At(i) = fmt[i]
    BY <1>3 DEF At
  <2>4. fmt[i] \in Int
    <3>1. \A c \in 1 .. 255 : c \in Int
      OBVIOUS
    <3> QED
      BY <2>2, <3>1, Zenon
  <2> QED
    BY <2>3, <2>4
<1>4. CASE ~(i <= Len(fmt))
  BY <1>4 DEF At
<1> QED
  BY <1>3, <1>4

(* Whatever is written outside of numbers.                                 *)
LEMMA EmitKeeps ==
    ASSUME IInv, pc # "digits", NEW text \in Seq(Int),
           NEW to \in {"loop", "escape", "convert", "end"},
           NEW position \in 1 .. Len(fmt) + 1, Emit(text, to, position)
    PROVE  IInv'
<1>1. /\ out' = out \o text /\ pc' = to /\ format' = position /\ start' = 0
      /\ fmt' = fmt /\ number' = number /\ val' = val /\ digits' = digits
  BY DEF Emit
<1>2. out' \in Seq(Int)
  BY <1>1 DEF IInv, TypePart
<1>3. TypePart'
  BY <1>1, <1>2 DEF IInv, TypePart
<1>4. PointerPart' /\ BufferPart'
  BY <1>1 DEF IInv, PointerPart, BufferPart
<1>5. ~Decimals' /\ ~Hexadecimals'
  BY <1>1 DEF Decimals, Hexadecimals
<1> QED
  BY <1>3, <1>4, <1>5 DEF IInv, DecimalPart, HexPart

LEMMA TextKeeps ==
    ASSUME IInv, \/ Terminate \/ Plain \/ Special \/ Unfinished \/ Escape
                 \/ ConvertChar \/ ConvertString \/ ConvertOther
    PROVE  IInv'
<1>1. format \in 1 .. Len(fmt) + 1 /\ At(format) \in Int
  BY AtType DEF IInv, PointerPart
<1>2. CASE Terminate
  <2>1. <<0>> \in Seq(Int)
    OBVIOUS
  <2> QED
    BY <1>1, <1>2, <2>1, EmitKeeps DEF Terminate
<1>3. CASE Plain
  <2>1. <<At(format)>> \in Seq(Int)
    BY <1>1
  <2>2. pc = "loop" /\ At(format) # 0 /\ Emit(<<At(format)>>, "loop", format + 1)
    BY <1>3 DEF Plain
  <2> QED
    BY <2>1, <2>2, Behind, EmitKeeps
<1>4. CASE Special
  <2>1. <<>> \in Seq(Int)
    OBVIOUS
  <2>2. pc = "loop" /\ At(format) # 0
    BY <1>4 DEF Special, Percent, Backslash
  <2>3. Emit(<<>>, "convert", format + 1) \/ Emit(<<>>, "escape", format + 1)
    BY <1>4 DEF Special
  <2> QED
    BY <2>1, <2>2, <2>3, Behind, EmitKeeps
<1>5. CASE Unfinished
  <2>1. <<Backslash, 0>> \in Seq(Int)
    BY DEF Backslash
  <2> QED
    BY <1>1, <1>5, <2>1, EmitKeeps DEF Unfinished
<1>6. CASE Escape
  <2>1. PICK text : text \in {<<10>>, <<13>>, <<Backslash, At(format)>>}
                    /\ Emit(text, "loop", format + 1)
    BY <1>6 DEF Escape
  <2>2. text \in Seq(Int)
    <3>1. <<10>> \in Seq(Int) /\ <<13>> \in Seq(Int) /\ <<92, At(format)>> \in Seq(Int)
      BY <1>1
    <3> QED
      BY <2>1, <3>1 DEF Backslash
  <2>3. pc = "escape" /\ At(format) # 0
    BY <1>6 DEF Escape
  <2> QED
    BY <2>1, <2>2, <2>3, Behind, EmitKeeps
<1>7. CASE ConvertChar
  <2>1. PICK c \in {Percent, Letter("A")} : Emit(<<c>>, "loop", format + 1)
    BY <1>7 DEF ConvertChar
  <2>2. <<c>> \in Seq(Int)
    BY <2>1 DEF Percent, Letter
  <2>3. pc = "convert" /\ At(format) # 0
    BY <1>7 DEF ConvertChar, Letter
  <2> QED
    BY <2>1, <2>2, <2>3, Behind, EmitKeeps
<1>8. CASE ConvertString
  <2>1. PICK subtext \in Subtexts : Emit(subtext, "loop", format + 1)
    BY <1>8 DEF ConvertString
  <2>2. subtext \in Seq(Int)
    <3>1. <<>> \in Seq(Int) /\ <<37, 100>> \in Seq(Int)
      OBVIOUS
    <3>2. subtext = <<>> \/ subtext = <<37, 100>>
      BY <2>1, Letters DEF Subtexts, Percent
    <3> QED
      BY <3>1, <3>2
  <2>3. pc = "convert" /\ At(format) # 0
    BY <1>8 DEF ConvertString, Letter
  <2> QED
    BY <2>1, <2>2, <2>3, Behind, EmitKeeps
<1>9. CASE ConvertOther
  <2>1. <<Percent, At(format)>> \in Seq(Int)
    BY <1>1 DEF Percent
  <2>2. pc = "convert" /\ At(format) # 0 /\ Emit(<<Percent, At(format)>>, "loop", format + 1)
    BY <1>9 DEF ConvertOther
  <2> QED
    BY <2>1, <2>2, Behind, EmitKeeps
<1> QED
  BY <1>2, <1>3, <1>4, <1>5, <1>6, <1>7, <1>8, <1>9
-----------------------------------------------------------------------------
(* The steps of the number conversions                                     *)

LEMMA DecimalWeightsAre ==
    /\ DecimalWeights[1] = 1 /\ DecimalWeights[2] = 10 /\ DecimalWeights[3] = 100
    /\ DecimalWeights[4] = 1000 /\ DecimalWeights[5] = 10000 /\ DecimalWeights[6] = 100000
    /\ DecimalWeights[7] = 1000000 /\ DecimalWeights[8] = 10000000
    /\ DecimalWeights[9] = 100000000 /\ DecimalWeights[10] = 1000000000
BY DEF DecimalWeights

(* A number loses a digit.                                                 *)
LEMMA DivShrinks ==
    ASSUME NEW m \in 1 .. 10, NEW v \in Int,
           v < 10 * DecimalWeights[m], -v < 10 * DecimalWeights[m]
    PROVE  \/ m = 1 /\ Div(v) = 0
           \/ /\ m - 1 \in 1 .. 10
              /\ Div(v) < 10 * DecimalWeights[m - 1] /\ -Div(v) < 10 * DecimalWeights[m - 1]
<1>1. m \in 2 .. 10 => DecimalWeights[m] = 10 * DecimalWeights[m - 1] /\ DecimalWeights[m - 1] \in Int
  <2>1. m \in 2 .. 10 => m = 2 \/ m = 3 \/ m = 4 \/ m = 5 \/ m = 6 \/ m = 7 \/ m = 8 \/ m = 9 \/ m = 10
    OBVIOUS
  <2> QED
    BY <2>1, DecimalWeightsAre
<1>2. \A w \in Int : v < 10 * (10 * w) /\ -v < 10 * (10 * w) => Div(v) < 10 * w /\ -Div(v) < 10 * w
  BY DEF Div
<1>3. v < 10 /\ -v < 10 => Div(v) = 0
  BY DEF Div
<1>4. CASE m = 1
  BY <1>3, <1>4, DecimalWeightsAre
<1>5. CASE m # 1
  <2>1. m \in 2 .. 10 /\ m - 1 \in 1 .. 10
    BY <1>5
  <2> QED
    BY <1>1, <1>2, <2>1
<1> QED
  BY <1>4, <1>5

LEMMA Residue ==
    ASSUME NEW v \in Int, NEW w \in Nat \ {0}
    PROVE  v % w \in 0 .. w - 1 /\ v % w \in Int
OBVIOUS

LEMMA OneMore ==
    ASSUME NEW l \in Nat, NEW s \in 1 .. l + 1
    PROVE  /\ s \in 1 .. (l + 1) + 1
           /\ (l + 1) + 1 - s = (l + 1 - s) + 1
           /\ \A i \in 1 .. (l + 1) + 1 - s :
                 i \notin 1 .. l + 1 - s => i = (l + 1 - s) + 1 /\ s + i - 1 = l + 1
OBVIOUS

LEMMA BufferLeft ==
    ASSUME NEW size \in 1 .. 10, NEW used \in Nat, used < size
    PROVE  /\ size - used \in 1 .. 10
           /\ size - (used + 1) = (size - used) - 1 /\ used + 1 <= size
           /\ (size - used) - 1 \in 1 .. 10 => used + 1 < size
OBVIOUS

LEMMA ConvertDecimalKeeps == ASSUME IInv, ConvertDecimal PROVE IInv'
<1>1. PICK v \in Ints :
        LET sign == CASE v = 0 -> <<Zero>> [] v < 0 -> <<Minus>> [] v > 0 -> <<>>
        IN  /\ number' = v /\ val' = v
            /\ out' = out \o sign
            /\ start' = Len(out) + (IF v < 0 THEN 2 ELSE 1)
            /\ pc' = IF v = 0 THEN "loop" ELSE "digits"
            /\ format' = IF v = 0 THEN format + 1 ELSE format
  BY DEF ConvertDecimal
<1>2. /\ digits' = <<>> /\ fmt' = fmt /\ pc = "convert" /\ At(format) = Letter("d")
      /\ v \in Int /\ number' = v /\ val' = v
  BY <1>1, IntsAssumption DEF ConvertDecimal
<1>3. /\ format \in 1 .. Len(fmt) + 1 /\ format + 1 \in 1 .. Len(fmt) + 1 /\ (format + 1) - 1 = format
  BY <1>2, Letters, Behind DEF IInv, PointerPart
<1>4. out \in Seq(Int) /\ Len(out) \in Nat
  BY DEF IInv, TypePart
<1>5. /\ <<>> \in Seq(Int) /\ Len(<<>>) = 0
      /\ BufferPart' <=> /\ 0 <= Buffer
                         /\ pc' = "digits" =>
                              /\ 0 < Buffer
                              /\ v < 10 * DecimalWeights[Buffer - 0]
                              /\ -v < 10 * DecimalWeights[Buffer - 0]
  BY <1>2 DEF BufferPart
<1>6. BufferPart'
  BY <1>1, <1>5, BufferAssumption
<1>7. CASE v = 0
  <2>1. /\ out' = out \o <<48>> /\ start' = Len(out) + 1 /\ pc' = "loop" /\ format' = format + 1
    BY <1>1, <1>7 DEF Zero
  <2>2. out' \in Seq(Int) /\ Len(out') = Len(out) + 1 /\ out'[Len(out) + 1] = 48
    BY <1>4, <2>1
  <2>3. TypePart' /\ PointerPart'
    BY <1>2, <1>3, <1>4, <1>5, <1>7, <2>1, <2>2 DEF IInv, TypePart, PointerPart
  <2>4. At(format - 1)' = Letter("d")
    BY <1>2, <1>3, <2>1 DEF At
  <2>5. ~Hexadecimals'
    BY <2>1, <2>4, Letters DEF Hexadecimals
  <2>6. Total(out', start', digits') = 1
    BY <1>2, <1>4, <1>5, <2>1, <2>2 DEF Total
  <2>7. Char(out', start', digits', 1) = 48
    <3>1. 1 <= Len(out') + 1 - start' /\ start' + 1 - 1 = Len(out) + 1
      BY <1>4, <2>1, <2>2
    <3> QED
      BY <2>2, <3>1 DEF Char
  <2>8. Digested(out', start', digits', 0, 0)
    <3> DEFINE h == [i \in 0 .. 1 |-> 0]
    <3>1. IsDigit(48) /\ DecimalValue(48) = 0
      BY DEF IsDigit, DecimalValue, Zero
    <3>2. h \in [0 .. 1 -> Int] /\ h[0] = 0 /\ h[1] = 0
      OBVIOUS
    <3>3. \A i \in 1 .. 1 : i = 1 /\ i - 1 = 0
      OBVIOUS
    <3> HIDE DEF h
    <3>4. \A i \in 1 .. 1 : h[i] = 10 * h[i - 1] + DecimalValue(Char(out', start', digits', i))
      BY <2>7, <3>1, <3>2, <3>3
    <3>5. \A i \in 1 .. 1 : IsDigit(Char(out', start', digits', i))
      BY <2>7, <3>1, <3>3
    <3> QED
      BY <2>6, <3>2, <3>4, <3>5 DEF Digested
  <2>9. start' \in 1 .. Len(out') + 1
    BY <1>4, <2>1, <2>2
  <2>10. DecimalPart'
    BY <1>2, <1>7, <2>1, <2>6, <2>8, <2>9 DEF DecimalPart
  <2> QED
    BY <1>6, <2>3, <2>5, <2>10 DEF IInv, HexPart
<1>8. CASE v # 0
  <2>1. pc' = "digits" /\ format' = format
    BY <1>1, <1>8
  <2>2. /\ out' \in Seq(Int) /\ start' \in Nat
        /\ v > 0 => out' = out /\ start' = Len(out) + 1
    <3>1. CASE v < 0
      <4>1. out' = out \o <<45>> /\ start' = Len(out) + 2
        BY <1>1, <1>2, <3>1 DEF Minus
      <4> QED
        BY <1>2, <1>4, <3>1, <4>1
    <3>2. CASE v > 0
      <4>1. out' = out \o <<>> /\ start' = Len(out) + 1
        BY <1>1, <1>2, <3>2
      <4>2. out \o <<>> = out
        BY <1>4
      <4> QED
        BY <1>4, <4>1, <4>2
    <3> QED
      BY <1>2, <1>8, <3>1, <3>2
  <2>3. TypePart' /\ PointerPart'
    BY <1>2, <1>3, <1>5, <2>1, <2>2 DEF IInv, TypePart, PointerPart, At
  <2>4. ~Hexadecimals'
    BY <2>1 DEF Hexadecimals
  <2>5. ASSUME v > 0 PROVE Digested(out', start', digits', v, v) /\ start' \in 1 .. Len(out') + 1
    <3>1. Total(out', start', digits') = 0
      BY <1>2, <1>4, <1>5, <2>2, <2>5 DEF Total
    <3> DEFINE h == [i \in 0 .. 0 |-> v]
    <3>2. h \in [0 .. 0 -> Int] /\ h[0] = v
      BY <1>2
    <3>3. 1 .. 0 = {}
      OBVIOUS
    <3> HIDE DEF h
    <3>4. start' \in 1 .. Len(out') + 1
      BY <1>4, <2>2, <2>5
    <3> QED
      BY <3>1, <3>2, <3>3, <3>4 DEF Digested
  <2>6. DecimalPart'
    BY <1>2, <1>4, <1>8, <2>1, <2>2, <2>5 DEF DecimalPart
  <2> QED
    BY <1>6, <2>3, <2>4, <2>6 DEF IInv, HexPart
<1> QED
  BY <1>7, <1>8

LEMMA DigitsKeeps == ASSUME IInv, Digits PROVE IInv'
<1>1. /\ pc = "digits" /\ digits' = Append(digits, Zero + Rem(val)) /\ val' = Div(val)
      /\ pc' = IF val' # 0 THEN "digits" ELSE "copy"
      /\ fmt' = fmt /\ format' = format /\ out' = out /\ number' = number /\ start' = start
  BY DEF Digits
<1>2. /\ out \in Seq(Int) /\ digits \in Seq(Int) /\ val \in Int /\ number \in Int
      /\ Len(digits) \in Nat /\ Len(out) \in Nat
  BY DEF IInv, TypePart
<1>3. Rem(val) \in Int /\ Div(val) \in Int /\ Zero + Rem(val) \in Int
  <2>1. Rem(val) \in Int /\ Div(val) \in Int
    BY <1>2, Division
  <2> QED
    BY <2>1 DEF Zero
<1>4. digits' \in Seq(Int) /\ Len(digits') = Len(digits) + 1 /\ digits'[Len(digits) + 1] = Zero + Rem(val)
  BY <1>1, <1>2, <1>3
<1>5. TypePart' /\ PointerPart'
  BY <1>1, <1>3, <1>4 DEF IInv, TypePart, PointerPart, At
<1>9. Len(digits) < Buffer /\ Buffer \in 1 .. 10
  BY <1>1, BufferAssumption DEF IInv, BufferPart
<1>6. BufferPart'
  <2> DEFINE m == Buffer - Len(digits)
  <2>1. m \in 1 .. 10 /\ val < 10 * DecimalWeights[m] /\ -val < 10 * DecimalWeights[m]
    <3>2. m \in 1 .. 10
      BY <1>2, <1>9, BufferLeft
    <3> QED
      BY <1>1, <3>2 DEF IInv, BufferPart
  <2>2. \/ m = 1 /\ Div(val) = 0
        \/ /\ m - 1 \in 1 .. 10
           /\ Div(val) < 10 * DecimalWeights[m - 1] /\ -Div(val) < 10 * DecimalWeights[m - 1]
    BY <1>2, <2>1, DivShrinks
  <2>3. Buffer - Len(digits') = m - 1 /\ Len(digits') <= Buffer /\ (m - 1 \in 1 .. 10 => Len(digits') < Buffer)
    <3>1. /\ Buffer - (Len(digits) + 1) = m - 1 /\ Len(digits) + 1 <= Buffer
          /\ m - 1 \in 1 .. 10 => Len(digits) + 1 < Buffer
      BY <1>2, <1>9, BufferLeft
    <3> QED
      BY <1>4, <3>1
  <2> HIDE DEF m
  <2> QED
    BY <1>1, <2>2, <2>3 DEF BufferPart
<1>7. DecimalPart'
  <2> SUFFICES ASSUME number >= 0
               PROVE  /\ start' \in 1 .. Len(out') + 1
                      /\ Digested(out', start', digits', val', number')
                      /\ pc' = "digits" => val' > 0 /\ start' = Len(out') + 1
                      /\ pc' = "copy" => /\ val' = 0
                                         /\ Total(out', start', digits') >= 1
                                         /\ Char(out', start', digits', 1) # Zero
    BY <1>1 DEF DecimalPart
  <2>1. Digested(out, start, digits, val, number) /\ val > 0 /\ start = Len(out) + 1
    BY <1>1 DEF IInv, DecimalPart, Decimals
  <2>2. Digested(out', start', digits', val', number')
    BY <1>1, <1>2, <2>1, DigestOne
  <2>3. start' \in 1 .. Len(out') + 1
    BY <1>1, <1>2, <2>1
  <2>4. pc' = "digits" => val' > 0
    BY <1>1, <1>2, <1>3, <2>1, Division
  <2>5. Total(out', start', digits') = Len(digits) + 1
    BY <1>1, <1>2, <1>4, <2>1 DEF Total
  <2>6. Char(out', start', digits', 1) = Zero + Rem(val)
    <3>1. ~(1 <= Len(out') + 1 - start') /\ Len(digits) + 1 + 1 - 1 = Len(digits) + 1
      BY <1>1, <1>2, <2>1
    <3> QED
      BY <1>4, <2>5, <3>1 DEF Char
  <2>7. val' = 0 => Char(out', start', digits', 1) # Zero
    <3>1. val' = 0 => Rem(val) # 0
      BY <1>1, <1>2, <2>1, Division
    <3>2. Rem(val) # 0 => Zero + Rem(val) # Zero
      BY <1>3 DEF Zero
    <3> QED
      BY <2>6, <3>1, <3>2
  <2> QED
    BY <1>1, <1>2, <2>1, <2>2, <2>3, <2>4, <2>5, <2>7
<1>8. ~Hexadecimals'
  BY <1>1 DEF Hexadecimals
<1> QED
  BY <1>5, <1>6, <1>7, <1>8 DEF IInv, HexPart

LEMMA CopyKeeps == ASSUME IInv, Copy PROVE IInv'
<1>1. /\ pc = "copy" /\ fmt' = fmt /\ number' = number /\ start' = start /\ val' = val
      /\ At(format) = Letter("d")
  BY DEF Copy, IInv, PointerPart
<1>2. /\ out \in Seq(Int) /\ digits \in Seq(Int) /\ val \in Int /\ number \in Int
      /\ Len(digits) \in Nat /\ Len(out) \in Nat /\ start \in Nat
  BY DEF IInv, TypePart
<1>3. number >= 0 => /\ start \in 1 .. Len(out) + 1
                     /\ Digested(out, start, digits, val, number)
                     /\ val = 0
                     /\ Total(out, start, digits) >= 1
                     /\ Char(out, start, digits, 1) = Zero => number = 0
  BY <1>1 DEF IInv, DecimalPart, Decimals
<1>4. CASE digits = <<>>
  <2>1. pc' = "loop" /\ format' = format + 1 /\ out' = out /\ digits' = digits
    BY <1>4 DEF Copy
  <2>2. format + 1 \in 1 .. Len(fmt) + 1 /\ (format + 1) - 1 = format
    BY <1>1, Letters, Behind
  <2>3. TypePart' /\ PointerPart' /\ BufferPart'
    BY <1>1, <2>1, <2>2 DEF IInv, TypePart, PointerPart, BufferPart
  <2>4. At(format - 1)' = Letter("d")
    BY <1>1, <2>1, <2>2 DEF At
  <2>5. ~Hexadecimals'
    BY <2>1, <2>4, Letters DEF Hexadecimals
  <2>6. DecimalPart'
    BY <1>1, <1>3, <1>4, <2>1 DEF DecimalPart
  <2> QED
    BY <2>3, <2>5, <2>6 DEF IInv, HexPart
<1>5. CASE digits # <<>>
  <2>1. /\ out' = Append(out, digits[Len(digits)])
        /\ digits' = SubSeq(digits, 1, Len(digits) - 1)
        /\ pc' = "copy" /\ format' = format
    BY <1>1, <1>5 DEF Copy
  <2>2. Len(digits) \in Nat \ {0}
    BY <1>2, <1>5, EmptySeq
  <2>3. digits' \in Seq(Int) /\ Len(digits') = Len(digits) - 1
    <3>1. Len(digits) - 1 \in Nat /\ Len(digits) = (Len(digits) - 1) + 1
      BY <2>2
    <3> QED
      BY <1>2, <2>1, <3>1, FrontOf
  <2>4. out' \in Seq(Int) /\ Len(out') = Len(out) + 1
    <3>1. digits[Len(digits)] \in Int
      BY <1>2, <2>2, ElementOfSeq
    <3> QED
      BY <1>2, <2>1, <3>1
  <2>5. TypePart' /\ PointerPart'
    BY <1>1, <2>1, <2>3, <2>4 DEF IInv, TypePart, PointerPart, At
  <2>6. BufferPart'
    BY <1>2, <2>1, <2>2, <2>3, BufferAssumption DEF IInv, BufferPart
  <2>7. ~Hexadecimals'
    BY <2>1 DEF Hexadecimals
  <2>8. ASSUME number >= 0
        PROVE  /\ start \in 1 .. Len(out') + 1
               /\ Digested(out', start, digits', val, number)
               /\ Total(out', start, digits') >= 1
               /\ Char(out', start, digits', 1) = Zero => number = 0
    <3>1. /\ Total(out', start, digits') = Total(out, start, digits)
          /\ \A i \in 1 .. Total(out, start, digits) :
                Char(out', start, digits', i) = Char(out, start, digits, i)
          /\ Digested(out', start, digits', val, number)
      BY <1>2, <1>3, <1>5, <2>1, <2>8, CopyOne
    <3>2. Total(out, start, digits) \in Int
      BY <1>2 DEF Total
    <3>3. 1 \in 1 .. Total(out, start, digits)
      BY <1>3, <2>8, <3>2
    <3>4. start \in 1 .. Len(out') + 1
      BY <1>2, <1>3, <2>4, <2>8
    <3> QED
      BY <1>3, <2>8, <3>1, <3>3, <3>4
  <2>9. DecimalPart'
    BY <1>1, <1>3, <2>1, <2>8 DEF DecimalPart
  <2> QED
    BY <2>5, <2>6, <2>7, <2>9 DEF IInv, HexPart
<1> QED
  BY <1>4, <1>5

LEMMA HexKeeps == ASSUME IInv, ConvertHex \/ Hex PROVE IInv'
<1>1. /\ out \in Seq(Int) /\ digits \in Seq(Int) /\ val \in Int /\ number \in Int
      /\ Len(out) \in Nat /\ start \in Nat /\ HexDigits \in 1 .. 8
      /\ HexWeights[HexDigits] \in Nat \ {0}
  <2>1. HexDigits \in 1 .. 8 /\ HexWeights[HexDigits] \in Nat \ {0}
    BY HexDigitsAssumption, HexWeightsType
  <2>2. /\ out \in Seq(Int) /\ digits \in Seq(Int) /\ val \in Int /\ number \in Int
        /\ start \in Nat
    BY DEF IInv, TypePart
  <2> QED
    BY <2>1, <2>2
<1>2. CASE ConvertHex
  <2>1. PICK v \in Ints : /\ number' = v % (16 * HexWeights[HexDigits])
                          /\ val' = v % (16 * HexWeights[HexDigits])
    BY <1>2 DEF ConvertHex
  <2>2. /\ pc = "convert" /\ At(format) = Letter("x")
        /\ start' = Len(out) + 1 /\ digits' = <<>> /\ pc' = "hex"
        /\ fmt' = fmt /\ format' = format /\ out' = out
    BY <1>2 DEF ConvertHex
  <2>3. number' \in 0 .. 16 * HexWeights[HexDigits] - 1 /\ number' \in Int /\ val' = number'
    <3>1. v \in Int /\ 16 * HexWeights[HexDigits] \in Nat \ {0}
      BY <1>1, IntsAssumption
    <3> QED
      BY <2>1, <3>1, Residue
  <2>4. TypePart' /\ PointerPart'
    BY <1>1, <2>2, <2>3 DEF IInv, TypePart, PointerPart, At
  <2>5. BufferPart'
    BY <2>2, BufferAssumption DEF BufferPart
  <2>6. ~Decimals'
    BY <2>2 DEF Decimals
  <2>7. HexPart'
    <3>1. Len(out') + 1 - start' = 0 /\ start' \in 1 .. Len(out') + 1 /\ 0 \in 0 .. HexDigits - 1
      BY <1>1, <2>2
    <3>2. HexWritten(out', start', number')
      BY <3>1 DEF HexWritten
    <3> QED
      BY <2>2, <2>3, <3>1, <3>2 DEF HexPart
  <2> QED
    BY <2>4, <2>5, <2>6, <2>7 DEF IInv, DecimalPart
<1>3. CASE Hex
  <2> DEFINE k == Len(out) + 1 - start
  <2>1. /\ pc = "hex" /\ fmt' = fmt /\ number' = number /\ start' = start /\ val' = val
        /\ digits' = digits
        /\ out' = Append(out, HexChar((val \div HexWeights[HexDigits - 1 - k + 1]) % 16))
        /\ pc' = IF HexDigits - 1 - k > 0 THEN "hex" ELSE "loop"
        /\ format' = IF HexDigits - 1 - k > 0 THEN format ELSE format + 1
    BY <1>3 DEF Hex
  <2>2. /\ start \in 1 .. Len(out) + 1 /\ k \in 0 .. HexDigits - 1
        /\ number \in 0 .. 16 * HexWeights[HexDigits] - 1 /\ val = number
        /\ HexWritten(out, start, number)
        /\ At(format) = Letter("x") /\ format \in 1 .. Len(fmt) + 1
    BY <2>1 DEF IInv, HexPart, Hexadecimals, PointerPart
  <2>3. /\ k \in Int /\ k + 1 \in 1 .. HexDigits /\ HexDigits - 1 - k + 1 = HexDigits + 1 - (k + 1)
        /\ number \in Nat
    <3>1. number \in Nat
      BY <1>1, <2>2, FirstShift
    <3>2. \A j \in 0 .. HexDigits - 1 : /\ j \in Int /\ j + 1 \in 1 .. HexDigits
                                        /\ HexDigits - 1 - j + 1 = HexDigits + 1 - (j + 1)
      BY <1>1
    <3> QED
      BY <2>2, <3>1, <3>2
  <2>4. out' = Append(out, HexChar(HexDigit(number, k + 1)))
    BY <2>1, <2>2, <2>3 DEF HexDigit
  <2>5. HexChar(HexDigit(number, k + 1)) \in Int
    BY <2>3, HexDigitType, HexCharIsValue
  <2>6. /\ out' \in Seq(Int) /\ Len(out') = Len(out) + 1
        /\ out'[Len(out) + 1] = HexChar(HexDigit(number, k + 1))
        /\ \A i \in 1 .. Len(out) : out'[i] = out[i]
    BY <1>1, <2>4, <2>5
  <2>7. HexWritten(out', start', number')
    <3> SUFFICES ASSUME NEW i \in 1 .. Len(out') + 1 - start
                 PROVE  out'[start + i - 1] = HexChar(HexDigit(number, i))
      BY <2>1 DEF HexWritten
    <3>1. CASE i \in 1 .. Len(out) + 1 - start
      <4>1. start + i - 1 \in 1 .. Len(out)
        BY <1>1, <2>2, <3>1
      <4>2. out[start + i - 1] = HexChar(HexDigit(number, i))
        BY <2>2, <3>1 DEF HexWritten
      <4> QED
        BY <2>6, <4>1, <4>2
    <3>2. CASE i \notin 1 .. Len(out) + 1 - start
      <4>1. i = k + 1 /\ start + i - 1 = Len(out) + 1
        <5>1. i \in 1 .. (Len(out) + 1) + 1 - start
          BY <2>6
        <5> QED
          BY <1>1, <2>2, <3>2, <5>1, OneMore
      <4> QED
        BY <2>6, <4>1
    <3> QED
      BY <3>1, <3>2
  <2>8. start' \in 1 .. Len(out') + 1 /\ Len(out') + 1 - start' = k + 1
    BY <1>1, <2>1, <2>2, <2>6, OneMore
  <2>9. format + 1 \in 1 .. Len(fmt) + 1 /\ (format + 1) - 1 = format
    BY <2>2, Letters, Behind
  <2>10. TypePart'
    BY <2>1, <2>6 DEF IInv, TypePart
  <2>11. PointerPart'
    BY <2>1, <2>2, <2>9 DEF PointerPart, At
  <2>12. BufferPart'
    BY <2>1 DEF IInv, BufferPart
  <2>13. pc' = "loop" => At(format - 1)' = Letter("x")
    BY <2>1, <2>2, <2>9 DEF At
  <2>14. ~Decimals'
    BY <2>1, <2>13, Letters DEF Decimals
  <2>15. /\ pc' = "hex" => k + 1 \in 0 .. HexDigits - 1
         /\ pc' = "loop" => k + 1 = HexDigits
    <3>1. \A j \in 0 .. HexDigits - 1 : IF HexDigits - 1 - j > 0 THEN j + 1 \in 0 .. HexDigits - 1
                                                                 ELSE j + 1 = HexDigits
      BY <1>1
    <3> QED
      BY <2>1, <2>2, <3>1
  <2> HIDE DEF k
  <2>16. HexPart'
    BY <2>1, <2>2, <2>7, <2>8, <2>15 DEF HexPart
  <2> QED
    BY <2>10, <2>11, <2>12, <2>14, <2>16 DEF IInv, DecimalPart
<1> QED
  BY <1>2, <1>3
-----------------------------------------------------------------------------
(* The theorems                                                            *)

LEMMA Start == ASSUME Init PROVE IInv
<1>1. /\ fmt \in Formats /\ format = 1 /\ pc = "loop" /\ out = <<>>
      /\ number = 0 /\ start = 0 /\ val = 0 /\ digits = <<>>
  BY DEF Init
<1>2. <<>> \in Seq(Int) /\ Len(<<>>) = 0
  OBVIOUS
<1>3. format \in 1 .. Len(fmt) + 1
  <2>1. fmt \in Seq(1 .. 255)
    BY <1>1, FormatsAssumption
  <2>2. Len(fmt) \in Nat
    BY <2>1
  <2> QED
    BY <1>1, <2>2
<1>4. TypePart /\ PointerPart /\ BufferPart
  BY <1>1, <1>2, <1>3, BufferAssumption DEF TypePart, PointerPart, BufferPart
<1>5. ~Decimals /\ ~Hexadecimals
  BY <1>1 DEF Decimals, Hexadecimals
<1> QED
  BY <1>4, <1>5 DEF IInv, DecimalPart, HexPart

LEMMA StutterKeeps == ASSUME IInv, UNCHANGED vars PROVE IInv'
BY DEF vars, IInv, TypePart, PointerPart, BufferPart, DecimalPart, HexPart, Decimals,
       Hexadecimals, At

THEOREM Invariant == Spec => []IInv
<1>1. IInv /\ [Next]_vars => IInv'
  <2> SUFFICES ASSUME IInv, [Next]_vars PROVE IInv'
    OBVIOUS
  <2>1. CASE \/ Terminate \/ Plain \/ Special \/ Unfinished \/ Escape
             \/ ConvertChar \/ ConvertString \/ ConvertOther
    BY <2>1, TextKeeps
  <2>2. CASE ConvertDecimal
    BY <2>2, ConvertDecimalKeeps
  <2>3. CASE Digits
    BY <2>3, DigitsKeeps
  <2>4. CASE Copy
    BY <2>4, CopyKeeps
  <2>5. CASE ConvertHex \/ Hex
    BY <2>5, HexKeeps
  <2>6. CASE UNCHANGED vars
    BY <2>6, StutterKeeps
  <2> QED
    BY <2>1, <2>2, <2>3, <2>4, <2>5, <2>6 DEF Next, Round, Idle
<1> QED
  BY <1>1, Start, PTL DEF Spec

(* For every format and every argument, the pointer never passes the       *)
(* terminator of the format and no number overflows the buffer for its     *)
(* digits (str.c:28-146).                                                  *)
THEOREM StaysInBounds == Spec => []InBounds
<1>1. IInv => InBounds
  <2> SUFFICES ASSUME IInv PROVE InBounds
    OBVIOUS
  <2>1. fmt \in Seq(1 .. 255) /\ format \in 1 .. Len(fmt) + 1 /\ Len(digits) <= Buffer
    BY FormatsAssumption DEF IInv, TypePart, PointerPart, BufferPart
  <2>2. Len(fmt) \in Nat
    BY <2>1
  <2> QED
    BY <2>1, <2>2 DEF InBounds
<1> QED
  BY <1>1, Invariant, PTL

(* What %d writes for any number that is not negative, and %x for any at   *)
(* all, reads back as that number (str.c:83-128).                          *)
THEOREM NumbersAsMeant == Spec => []NumbersReadBack
<1>1. IInv => DecimalReadsBack
  <2> DEFINE text == Converted(Letter("d"))
  <2> SUFFICES ASSUME IInv, text # <<>>, number >= 0
               PROVE  /\ \A i \in DOMAIN text : IsDigit(text[i])
                      /\ Amount(DecimalValues(text), 10) = number
                      /\ text[1] = Zero => number = 0
    BY DEF DecimalReadsBack
  <2>1. pc = "loop" /\ start > 0 /\ At(format - 1) = Letter("d")
        /\ text = SubSeq(out, start, Len(out))
    BY DEF Converted
  <2>2. /\ out \in Seq(Int) /\ Len(out) \in Nat
        /\ start \in 1 .. Len(out) + 1 /\ Digested(out, start, digits, val, number)
        /\ val = 0 /\ digits = <<>> /\ Total(out, start, digits) >= 1
        /\ Char(out, start, digits, 1) = Zero => number = 0
    BY <2>1 DEF IInv, TypePart, DecimalPart, Decimals
  <2>3. /\ \A i \in DOMAIN text : IsDigit(text[i])
        /\ Amount(DecimalValues(text), 10) = number
    BY <2>1, <2>2, DigestedReadsBack
  <2>4. text[1] = Char(out, start, digits, 1)
    <3>1. Total(out, start, digits) = Len(out) + 1 - start
      BY <2>2 DEF Total
    <3>2. 1 <= Len(out) + 1 - start /\ start + 1 - 1 = start /\ start <= Len(out)
          /\ start \in 1 .. Len(out)
      BY <2>2, <3>1
    <3>3. text[1] = out[start]
      BY <2>1, <2>2, <3>2
    <3> QED
      BY <3>2, <3>3 DEF Char
  <2> QED
    BY <2>2, <2>3, <2>4
<1>2. IInv => HexReadsBack
  <2> DEFINE text == Converted(Letter("x"))
  <2> SUFFICES ASSUME IInv, text # <<>>
               PROVE  /\ Len(text) = HexDigits
                      /\ \A i \in DOMAIN text : IsHexDigit(text[i])
                      /\ Amount(HexValues(text), 16) = number
    BY DEF HexReadsBack
  <2>1. pc = "loop" /\ start > 0 /\ At(format - 1) = Letter("x")
        /\ text = SubSeq(out, start, Len(out))
    BY DEF Converted
  <2>2. /\ out \in Seq(Int) /\ start \in 1 .. Len(out) + 1
        /\ Len(out) + 1 - start = HexDigits
        /\ number \in 0 .. 16 * HexWeights[HexDigits] - 1
        /\ HexWritten(out, start, number)
    BY <2>1 DEF IInv, TypePart, HexPart, Hexadecimals
  <2> QED
    BY <2>1, <2>2, HexWrittenReadsBack
<1>3. IInv => NumbersReadBack
  BY <1>1, <1>2 DEF NumbersReadBack
<1> QED
  BY <1>3, Invariant, PTL
=============================================================================
