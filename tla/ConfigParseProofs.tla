------------------------- MODULE ConfigParseProofs --------------------------
(***************************************************************************)
(* The SYSTEM.CNF parser for every text, every key and every assignment of *)
(* values to digits: the pointer never leaves the text, and what is        *)
(* returned is what the text says.                                         *)
(***************************************************************************)
EXTENDS ConfigParse, SequenceTheorems, WellFoundedInduction, TLAPS

TextInv == text \in Texts /\ config \in Nat

LEMMA TextNotTerminated ==
    ASSUME text \in Texts
    PROVE  text \in Seq(STRING) /\ \A i \in 1 .. Len(text) : text[i] # Terminator
  BY TextsAssumption

(* A character that is not the terminator lies inside the text.            *)
LEMMA InsideIfCharacter ==
    ASSUME TextInv, NEW i \in Nat \ {0}, At(i) # Terminator
    PROVE  i \in 1 .. Len(text)
  BY DEF TextInv, At

(* A match of the key does not extend over the end of the text: strncmp    *)
(* stops at the terminator.                                                *)
LEMMA MatchInside ==
    ASSUME TextInv, config \in 1 .. Len(text) + 1, Matches(config)
    PROVE  config + Len(Key) \in 1 .. Len(text) + 1
  <1>1. Len(Key) \in 1 .. Len(Key) /\ Len(Key) \in Nat
    BY KeyAssumption
  <1>2. At(config + Len(Key) - 1) = Key[Len(Key)] /\ Key[Len(Key)] # Terminator
    BY <1>1, KeyAssumption DEF Matches
  <1>3. config + Len(Key) - 1 \in Nat \ {0}
    BY <1>1, config \in Nat \ {0} DEF TextInv
  <1>4. config + Len(Key) - 1 \in 1 .. Len(text)
    BY <1>2, <1>3, InsideIfCharacter
  <1> QED
    BY <1>1, <1>4 DEF TextInv

-----------------------------------------------------------------------------
(* The reference: lines, words                                             *)

First(from) == from \in KeyStarts /\ \A other \in KeyStarts : from <= other

LEMMA StartsType == ASSUME TextInv PROVE Starts \subseteq 1 .. Len(text) + 1 /\ Len(text) \in Nat
BY DEF TextInv, Starts

(* The line that starts somewhere ends at the first line feed or at the    *)
(* end of the text.                                                        *)
LEMMA LineEnd ==
    ASSUME TextInv, NEW from \in 1 .. Len(text) + 1, NEW to \in from .. Len(text) + 1,
           At(to) \in {LineFeed, Terminator},
           \A i \in from .. to - 1 : text[i] # LineFeed
    PROVE  LineAt(from).to = to
<1> DEFINE Lines == [from : {from}, to : from .. Len(text) + 1]
           Is(line) == /\ At(line.to) \in {LineFeed, Terminator}
                       /\ \A i \in from .. line.to - 1 : text[i] # LineFeed
           here == [from |-> from, to |-> to]
<1>1. Len(text) \in Nat /\ from \in Int /\ to \in Int
  BY StartsType
<1>2. here \in Lines /\ Is(here)
  OBVIOUS
<1>3. \A i \in 1 .. Len(text) : At(i) # Terminator
  BY TextNotTerminated DEF TextInv, At
<1>4. ASSUME NEW line \in Lines, Is(line)
      PROVE  line.to = to
  <2>1. line.to \in from .. Len(text) + 1 /\ line.to \in Int
    BY <1>1
  <2>2. CASE line.to < to
    <3>1. line.to \in from .. to - 1 /\ line.to \in 1 .. Len(text)
      BY <1>1, <2>1, <2>2
    <3>2. At(line.to) = text[line.to]
      BY <3>1 DEF At
    <3> QED
      BY <1>3, <1>4, <3>1, <3>2
  <2>3. CASE to < line.to
    <3>1. to \in from .. line.to - 1 /\ to \in 1 .. Len(text)
      BY <1>1, <2>1, <2>3
    <3>2. At(to) = text[to]
      BY <3>1 DEF At
    <3> QED
      BY <1>3, <1>4, <3>1, <3>2
  <2> QED
    BY <1>1, <2>1, <2>2, <2>3
<1>5. LineAt(from) = CHOOSE line \in Lines : Is(line)
  BY DEF LineAt
<1>6. LineAt(from) \in Lines /\ Is(LineAt(from))
  BY <1>2, <1>5
<1> QED
  BY <1>4, <1>6

(* What stands behind the key on its line.                                 *)
LEMMA RestIs ==
    ASSUME TextInv, NEW f \in 1 .. Len(text) + 1, First(f),
           NEW to \in f .. Len(text) + 1, At(to) \in {LineFeed, Terminator},
           \A i \in f .. to - 1 : text[i] # LineFeed
    PROVE  Rest = SubSeq(text, f + Len(Key), to - 1)
<1> DEFINE first == CHOOSE from \in KeyStarts : \A other \in KeyStarts : from <= other
<1>1. first \in KeyStarts /\ \A other \in KeyStarts : first <= other
  BY DEF First
<1>2. first \in Int /\ f \in Int
  BY <1>1, StartsType DEF KeyStarts
<1>3. Rest = SubSeq(text, first + Len(Key), LineAt(first).to - 1)
  BY DEF Rest
<1> HIDE DEF first
<1>4. first = f
  BY <1>1, <1>2 DEF First
<1>5. LineAt(f).to = to
  BY LineEnd
<1> QED
  BY <1>3, <1>4, <1>5

(* The first position outside a set, and the last before one.              *)
LEMMA FirstOutside ==
    ASSUME NEW n \in Nat, NEW S, NEW f \in 1 .. n, NEW g \in 1 .. n,
           f \notin S, \A j \in 1 .. f - 1 : j \in S,
           g \notin S, \A j \in 1 .. g - 1 : j \in S
    PROVE  f = g
OBVIOUS

LEMMA LastBefore ==
    ASSUME NEW n \in Nat, NEW S, NEW w \in 1 .. n, NEW k \in w .. n, NEW l \in w .. n,
           k = n \/ k + 1 \in S, \A j \in w .. k : j \notin S,
           l = n \/ l + 1 \in S, \A j \in w .. l : j \notin S
    PROVE  k = l
OBVIOUS

(* The first word of a sequence of characters.                             *)
LEMMA WordIs ==
    ASSUME NEW s, NEW n \in Nat, Len(s) = n, DOMAIN s = 1 .. n,
           NEW w \in 1 .. n, ~Separates(s[w]),
           \A j \in 1 .. w - 1 : Separates(s[j]),
           NEW e \in w .. n, \A j \in w .. e : ~IsSpace(s[j]),
           e = n \/ IsSpace(s[e + 1])
    PROVE  Word(s) = SubSeq(s, w, e)
<1> DEFINE first == CHOOSE i \in 1 .. n :
                        ~Separates(s[i]) /\ \A j \in 1 .. i - 1 : Separates(s[j])
           last(f) == CHOOSE i \in f .. n : /\ i = n \/ IsSpace(s[i + 1])
                                            /\ \A j \in f .. i : ~IsSpace(s[j])
           S == {j \in Nat : Separates(s[j])}
           T == {j \in Nat : IsSpace(s[j])}
<1>1. Word(s) = SubSeq(s, first, last(first))
  BY DEF Word
<1>2. first = w
  <2>1. /\ first \in 1 .. n /\ first \notin S
        /\ \A j \in 1 .. first - 1 : j \in S
    OBVIOUS
  <2>2. w \notin S /\ \A j \in 1 .. w - 1 : j \in S
    OBVIOUS
  <2> HIDE DEF first, S
  <2> QED
    BY <2>1, <2>2, FirstOutside
<1>3. last(w) = e
  <2>1. /\ last(w) \in w .. n
        /\ last(w) = n \/ last(w) + 1 \in T
        /\ \A j \in w .. last(w) : j \notin T
    <3>1. /\ last(w) \in w .. n
          /\ last(w) = n \/ IsSpace(s[last(w) + 1])
          /\ \A j \in w .. last(w) : ~IsSpace(s[j])
      OBVIOUS
    <3> HIDE DEF last
    <3>2. \A j \in w .. last(w) : j \in Nat
      BY <3>1
    <3>3. last(w) + 1 \in Nat
      BY <3>1
    <3> QED
      BY <3>1, <3>2, <3>3
  <2>2. e = n \/ e + 1 \in T
    OBVIOUS
  <2>3. \A j \in w .. e : j \notin T
    OBVIOUS
  <2> HIDE DEF last, T
  <2> QED
    BY <2>1, <2>2, <2>3, LastBefore
<1> HIDE DEF first, last
<1> QED
  BY <1>1, <1>2, <1>3

(* The game's characters do not change.                                    *)
LEMMA SameText ==
    ASSUME text' = text
    PROVE  /\ KeyStarts' = KeyStarts
           /\ \A f : First(f)' <=> First(f)
           /\ \A i : At(i)' = At(i)
<1>1. \A i : At(i)' = At(i)
  BY DEF At
<1>2. \A i : Matches(i)' <=> Matches(i)
  BY <1>1 DEF Matches
<1>3. KeyStarts' = KeyStarts
  BY <1>2 DEF KeyStarts, Starts
<1> QED
  BY <1>1, <1>3 DEF First
-----------------------------------------------------------------------------
(* Finding the key                                                         *)

LEMMA FindFirst ==
    ASSUME TextInv, config \in Starts, \A from \in KeyStarts : config <= from, Matches(config)
    PROVE  config \in 1 .. Len(text) + 1 /\ First(config)
BY StartsType DEF First, KeyStarts

LEMMA FindOn ==
    ASSUME TextInv, config \in Starts, \A from \in KeyStarts : config <= from, ~Matches(config),
           NEW feed \in config .. Len(text), text[feed] = LineFeed,
           \A i \in config .. feed - 1 : text[i] # LineFeed
    PROVE  feed + 1 \in Starts /\ \A from \in KeyStarts : feed + 1 <= from
<1>1. config \in Int /\ config >= 1 /\ Len(text) \in Nat /\ feed \in Int
  BY StartsType
<1>2. feed \in 1 .. Len(text)
  BY <1>1
<1>3. feed + 1 \in Starts
  BY <1>2 DEF Starts
<1>4. ASSUME NEW from \in KeyStarts PROVE feed + 1 <= from
  <2>1. from \in Starts /\ from # config /\ from \in Int /\ config <= from
    BY StartsType DEF KeyStarts
  <2>2. PICK j \in 1 .. Len(text) : from = j + 1 /\ text[j] = LineFeed
    <3>1. from # 1
      BY <1>1, <2>1
    <3> QED
      BY <2>1, <3>1 DEF Starts
  <2>3. j \notin config .. feed - 1
    BY <2>2
  <2> QED
    BY <1>1, <2>1, <2>2, <2>3
<1> QED
  BY <1>3, <1>4

LEMMA FindNone ==
    ASSUME TextInv, config \in Starts, \A from \in KeyStarts : config <= from, ~Matches(config),
           \A i \in config .. Len(text) : text[i] # LineFeed
    PROVE  KeyStarts = {}
<1> SUFFICES ASSUME NEW from \in KeyStarts PROVE FALSE
  OBVIOUS
<1>1. config \in Int /\ config >= 1 /\ Len(text) \in Nat
  BY StartsType
<1>2. from \in Starts /\ from # config /\ from \in Int /\ config <= from
  BY StartsType DEF KeyStarts
<1>3. PICK j \in 1 .. Len(text) : from = j + 1 /\ text[j] = LineFeed
  <2>1. from # 1
    BY <1>1, <1>2
  <2> QED
    BY <1>2, <2>1 DEF Starts
<1>4. j \notin config .. Len(text)
  BY <1>3
<1> QED
  BY <1>1, <1>2, <1>3, <1>4
-----------------------------------------------------------------------------
(* Induction over the natural numbers, by sets                             *)

LEMMA LessThan == \A m, n \in Nat : <<m, n>> \in OpToRel(<, Nat) <=> m < n
BY DEF OpToRel

(* Induction, for a set of numbers.                                        *)
LEMMA SetInduction ==
    ASSUME NEW S, 0 \in S, \A n \in Nat : n \in S => n + 1 \in S
    PROVE  Nat \subseteq S
<1> DEFINE T == Nat \ S
<1> SUFFICES ASSUME T # {} PROVE FALSE
  OBVIOUS
<1>1. PICK x \in T : \A y \in T : ~(<<y, x>> \in OpToRel(<, Nat))
  <2>1. T \subseteq Nat
    OBVIOUS
  <2> QED
    BY <2>1, NatLessThanWellFounded, WFMin
<1>2. x \in Nat /\ x \notin S
  OBVIOUS
<1>3. x - 1 \in Nat /\ x - 1 < x /\ (x - 1) + 1 = x
  <2>1. x # 0
    BY <1>2
  <2> QED
    BY <1>2, <2>1
<1>4. x - 1 \in T
  BY <1>2, <1>3
<1>5. <<x - 1, x>> \in OpToRel(<, Nat)
  BY <1>2, <1>3, LessThan
<1> QED
  BY <1>1, <1>4, <1>5

-----------------------------------------------------------------------------
(* The number written in a sequence of characters                          *)

(* The values of its first characters, each from the one before.           *)
With(v, c) == IF c \in DOMAIN Digits THEN 16 * v + Digits[c] ELSE v

Counts(h, s, n) ==
    /\ h \in [0 .. n -> Nat]
    /\ h[0] = 0
    /\ \A i \in 1 .. n : h[i] = With(h[i - 1], s[i])

LEMMA NumberIs ==
    ASSUME NEW s, NEW n \in Nat, Len(s) = n, NEW h, Counts(h, s, n)
    PROVE  Number(s) = h[n]
<1> DEFINE Upto(g) == g = [i \in 0 .. n |->
                            IF i = 0 THEN 0
                            ELSE IF s[i] \in DOMAIN Digits THEN 16 * g[i - 1] + Digits[s[i]]
                            ELSE g[i - 1]]
           upTo == CHOOSE g : Upto(g)
<1>1. Number(s) = upTo[n]
  BY DEF Number
<1>2. Upto(h)
  <2>1. h = [i \in 0 .. n |-> h[i]]
    BY DEF Counts, With
  <2>2. \A i \in 0 .. n :
          h[i] = IF i = 0 THEN 0
                 ELSE IF s[i] \in DOMAIN Digits THEN 16 * h[i - 1] + Digits[s[i]]
                 ELSE h[i - 1]
    BY DEF Counts, With
  <2> QED
    BY <2>1, <2>2
<1>3. Upto(upTo)
  BY <1>2
<1>4. /\ upTo[0] = 0
      /\ \A i \in 1 .. n : upTo[i] = IF s[i] \in DOMAIN Digits
                                     THEN 16 * upTo[i - 1] + Digits[s[i]]
                                     ELSE upTo[i - 1]
  <2> HIDE DEF upTo
  <2>1. \A i \in 0 .. n :
          upTo[i] = IF i = 0 THEN 0
                    ELSE IF s[i] \in DOMAIN Digits THEN 16 * upTo[i - 1] + Digits[s[i]]
                    ELSE upTo[i - 1]
    BY <1>3
  <2> QED
    BY <2>1
<1> HIDE DEF upTo
<1> DEFINE S == {i \in Nat : i <= n => upTo[i] = h[i]}
<1>5. 0 \in S
  BY <1>4 DEF Counts, With
<1>6. ASSUME NEW i \in Nat, i \in S PROVE i + 1 \in S
  <2> SUFFICES ASSUME i + 1 <= n PROVE upTo[i + 1] = h[i + 1]
    OBVIOUS
  <2>1. upTo[i] = h[i]
    BY <1>6
  <2>2. i + 1 \in 1 .. n /\ (i + 1) - 1 = i
    OBVIOUS
  <2> QED
    BY <1>4, <2>1, <2>2 DEF Counts, With
<1>7. Nat \subseteq S
  <2> HIDE DEF S
  <2> QED
    BY <1>5, <1>6, SetInduction
<1> QED
  BY <1>1, <1>7

(* One character more.                                                     *)
LEMMA CountsOn ==
    ASSUME NEW s, NEW t, NEW n \in Nat, NEW h, Counts(h, s, n),
           \A i \in 1 .. n : t[i] = s[i]
    PROVE  \E g : Counts(g, t, n + 1) /\ g[n + 1] = With(h[n], t[n + 1])
<1> DEFINE last == With(h[n], t[n + 1])
           g == [i \in 0 .. n + 1 |-> IF i <= n THEN h[i] ELSE last]
<1>1. last \in Nat
  <2>1. h[n] \in Nat
    BY DEF Counts
  <2>2. t[n + 1] \in DOMAIN Digits => Digits[t[n + 1]] \in Nat
    BY DigitsAssumption
  <2> QED
    BY <2>1, <2>2 DEF With
<1> HIDE DEF last
<1>2. /\ g \in [0 .. n + 1 -> Nat]
      /\ \A i \in 0 .. n : g[i] = h[i]
      /\ g[n + 1] = last
  BY <1>1 DEF Counts
<1>3. g[0] = 0
  BY <1>2 DEF Counts
<1> HIDE DEF g
<1>4. ASSUME NEW i \in 1 .. n + 1
      PROVE  g[i] = With(g[i - 1], t[i])
  <2>1. CASE i \in 1 .. n
    <3>1. g[i] = h[i] /\ g[i - 1] = h[i - 1]
      BY <1>2, <2>1
    <3> QED
      BY <2>1, <3>1 DEF Counts
  <2>2. CASE i = n + 1
    <3>1. g[i] = last /\ g[i - 1] = h[n]
      BY <1>2, <2>2
    <3> QED
      BY <2>2, <3>1 DEF last
  <2> QED
    BY <2>1, <2>2
<1>5. Counts(g, t, n + 1)
  BY <1>2, <1>3, <1>4 DEF Counts
<1> QED
  BY <1>2, <1>5 DEF last
-----------------------------------------------------------------------------
(* Remainders                                                              *)

LEMMA Product ==
    ASSUME NEW t \in Int, NEW m \in Nat, t >= 1
    PROVE  t * m >= m
<1>1. t - 1 \in Nat
  OBVIOUS
<1>2. (t - 1) * m >= 0
  BY <1>1
<1> QED
  BY <1>2

LEMMA DivMod ==
    ASSUME NEW a \in Int, NEW m \in Nat, m > 0
    PROVE  a = m * (a \div m) + (a % m) /\ a % m \in 0 .. m - 1 /\ a \div m \in Int
OBVIOUS

LEMMA RemainderIsUnique ==
    ASSUME NEW m \in Nat, m > 0, NEW p \in Int, NEW q \in Int,
           NEW r \in 0 .. m - 1, NEW s \in 0 .. m - 1, m * p + r = m * q + s
    PROVE  r = s
<1>1. m \in Int /\ r \in Int /\ s \in Int
  OBVIOUS
<1>2. m * (p - q) = s - r
  BY <1>1
<1>3. CASE p - q >= 1
  BY <1>2, <1>3, Product
<1>4. CASE q - p >= 1
  BY <1>2, <1>4, Product
<1>5. CASE p = q
  BY <1>2, <1>5
<1> QED
  BY <1>3, <1>4, <1>5

(* A digit shifted into the low bits of a number is one of the number.     *)
LEMMA DigitShiftedIn ==
    ASSUME NEW m \in Nat, m > 0, NEW a \in Nat, NEW d \in 0 .. 15
    PROVE  ((a % m) * 16 + d) % m = (16 * a + d) % m
<1> DEFINE r == a % m
           q == a \div m
<1>1. r \in 0 .. m - 1 /\ q \in Int /\ a = m * q + r
  BY DivMod
<1> HIDE DEF r, q
<1> DEFINE x == r * 16 + d
           y == 16 * a + d
<1>2. x \in Int /\ y \in Int
  BY <1>1
<1>3. y = m * (16 * q) + x
  BY <1>1
<1>4. x = m * (x \div m) + (x % m) /\ x % m \in 0 .. m - 1 /\ x \div m \in Int
  BY <1>2, DivMod
<1>5. y = m * (y \div m) + (y % m) /\ y % m \in 0 .. m - 1 /\ y \div m \in Int
  BY <1>2, DivMod
<1> DEFINE u == x \div m
           v == y \div m
           c == x % m
           e == y % m
<1> HIDE DEF x, y
<1>6. /\ u \in Int /\ v \in Int /\ c \in 0 .. m - 1 /\ e \in 0 .. m - 1
      /\ x = m * u + c /\ y = m * v + e
  BY <1>4, <1>5
<1> HIDE DEF u, v, c, e
<1>7. m * (16 * q + u) + c = m * v + e
  BY <1>1, <1>3, <1>6
<1>8. c = e
  BY <1>1, <1>6, <1>7, RemainderIsUnique
<1> QED
  BY <1>8 DEF c, e, x, y, r
-----------------------------------------------------------------------------
(* The characters from one position up to another                          *)

LEMMA KeyLength == Len(Key) \in Nat /\ Len(Key) >= 1
BY KeyAssumption

LEMMA Between ==
    ASSUME NEW t \in Seq(STRING), NEW a \in Nat, NEW b \in Nat,
           1 <= a, a <= b, b <= Len(t) + 1
    PROVE  /\ SubSeq(t, a, b - 1) \in Seq(STRING)
           /\ Len(SubSeq(t, a, b - 1)) = b - a
           /\ \A i \in 1 .. b - a : SubSeq(t, a, b - 1)[i] = t[a + i - 1]
<1>1. Len(t) \in Nat /\ \A i \in 1 .. Len(t) : t[i] \in STRING
  OBVIOUS
<1>2. \A i \in a .. b - 1 : i \in 1 .. Len(t)
  BY <1>1
<1>3. \A i \in a .. b - 1 : t[i] \in STRING
  BY <1>1, <1>2
<1>4. b - 1 \in Int /\ a \in Int /\ (b - 1) - a + 1 = b - a
  OBVIOUS
<1>5. (IF a <= b - 1 THEN (b - 1) - a + 1 ELSE 0) = b - a
  OBVIOUS
<1> QED
  BY <1>3, <1>4, <1>5, SubSeqProperties

LEMMA BetweenOn ==
    ASSUME NEW t \in Seq(STRING), NEW a \in Nat, NEW b \in Nat,
           1 <= a, a <= b, b <= Len(t)
    PROVE  SubSeq(t, a, (b + 1) - 1) = Append(SubSeq(t, a, b - 1), t[b])
<1>1. Len(t) \in Nat /\ a \in 1 .. b /\ b \in 1 .. Len(t) /\ (b + 1) - 1 = b
  OBVIOUS
<1>2. SubSeq(t, a, b - 1) \in Seq(STRING) /\ t[b] \in STRING
  BY <1>1, Between
<1> DEFINE s == SubSeq(t, a, b - 1)
           l == SubSeq(t, a, b)
           r == Append(s, t[b])
<1>3. /\ l \in Seq(STRING) /\ Len(l) = b - a + 1
      /\ \A i \in 1 .. b - a + 1 : l[i] = t[a + i - 1]
  <2>1. b + 1 \in Nat /\ a <= b + 1 /\ b + 1 <= Len(t) + 1 /\ (b + 1) - a = b - a + 1
    BY <1>1
  <2> QED
    BY <1>1, <2>1, Between
<1>4. /\ s \in Seq(STRING) /\ Len(s) = b - a
      /\ \A i \in 1 .. b - a : s[i] = t[a + i - 1]
  BY <1>1, Between
<1> HIDE DEF s, l
<1>5. /\ r \in Seq(STRING) /\ Len(r) = b - a + 1
      /\ \A i \in 1 .. b - a : r[i] = s[i]
      /\ r[b - a + 1] = t[b]
  <2>1. s \in Seq(STRING) /\ t[b] \in STRING
    BY <1>2 DEF s
  <2>2. /\ r \in Seq(STRING) /\ Len(r) = Len(s) + 1
        /\ \A i \in 1 .. Len(s) : r[i] = s[i]
        /\ r[Len(s) + 1] = t[b]
    BY <2>1, AppendProperties
  <2> HIDE DEF r
  <2> QED
    BY <1>4, <2>2
<1> HIDE DEF r
<1>6. ASSUME NEW i \in 1 .. b - a + 1 PROVE l[i] = r[i]
  <2>1. CASE i \in 1 .. b - a
    BY <1>3, <1>4, <1>5, <2>1
  <2>2. CASE i = b - a + 1
    <3>1. a + i - 1 = b
      BY <2>2
    <3>2. l[i] = t[b]
      BY <1>3, <3>1
    <3> QED
      BY <1>5, <2>2, <3>2
  <2> QED
    BY <2>1, <2>2
<1>7. l = r
  BY <1>3, <1>5, <1>6, SeqEqual
<1> QED
  BY <1>1, <1>7 DEF l, r, s
-----------------------------------------------------------------------------
(* The number as far as it has been read: the pointer c is on the line     *)
(* that starts at f, and v has been made of what is between the key and c. *)
HexSoFar(t, f, c, v) ==
    /\ f + Len(Key) <= c
    /\ \A i \in f .. c - 1 : t[i] # LineFeed
    /\ \E h : /\ Counts(h, SubSeq(t, f + Len(Key), c - 1), c - (f + Len(Key)))
             /\ v = h[c - (f + Len(Key))] % Modulus

(* No character of the key is a line feed.                                 *)
LEMMA KeyOnOneLine ==
    ASSUME TextInv, NEW f \in Nat \ {0}, Matches(f)
    PROVE  \A i \in f .. f + Len(Key) - 1 : i \in 1 .. Len(text) /\ text[i] # LineFeed
<1> SUFFICES ASSUME NEW i \in f .. f + Len(Key) - 1
             PROVE  i \in 1 .. Len(text) /\ text[i] # LineFeed
  OBVIOUS
<1> DEFINE k == i - f + 1
<1>1. k \in 1 .. Len(Key) /\ f + k - 1 = i /\ i \in Nat \ {0}
  BY KeyLength
<1>2. At(i) = Key[k]
  <2> HIDE DEF k
  <2> QED
    BY <1>1 DEF Matches
<1>3. Key[k] # Terminator /\ Key[k] # LineFeed
  <2> HIDE DEF k
  <2> QED
    BY <1>1, KeyAssumption
<1>4. i \in 1 .. Len(text)
  BY <1>1, <1>2, <1>3, InsideIfCharacter
<1> QED
  BY <1>2, <1>3, <1>4 DEF At

LEMMA CountsNone == ASSUME NEW s PROVE Counts([i \in {0} |-> 0], s, 0)
BY DEF Counts

LEMMA HexStart ==
    ASSUME TextInv, NEW f \in Nat \ {0}, Matches(f)
    PROVE  HexSoFar(text, f, f + Len(Key), 0)
<1> DEFINE b == f + Len(Key)
           h == [i \in {0} |-> 0]
<1>1. b - b = 0 /\ b \in Nat /\ f + Len(Key) <= b
  BY KeyLength
<1>2. \A i \in f .. b - 1 : text[i] # LineFeed
  BY KeyOnOneLine
<1>3. Counts(h, SubSeq(text, f + Len(Key), b - 1), b - (f + Len(Key)))
  BY <1>1, CountsNone
<1>4. 0 = h[b - (f + Len(Key))] % Modulus
  BY <1>1, ModulusAssumption
<1> QED
  BY <1>1, <1>2, <1>3, <1>4 DEF HexSoFar

LEMMA HexOn ==
    ASSUME TextInv, NEW c \in 1 .. Len(text), NEW f \in 1 .. Len(text) + 1, NEW v,
           HexSoFar(text, f, c, v), text[c] # LineFeed
    PROVE  HexSoFar(text, f, c + 1,
                    IF text[c] \in DOMAIN Digits
                    THEN (v * 16 + Digits[text[c]]) % Modulus ELSE v)
<1> DEFINE a == f + Len(Key)
           n == c - a
           s == SubSeq(text, a, c - 1)
           t == SubSeq(text, a, (c + 1) - 1)
           w == IF text[c] \in DOMAIN Digits
                THEN (v * 16 + Digits[text[c]]) % Modulus ELSE v
<1>1. /\ text \in Seq(STRING) /\ Len(text) \in Nat
      /\ c \in Nat /\ c <= Len(text) /\ a \in Nat /\ 1 <= a /\ a <= c /\ f \in Nat
      /\ n \in Nat /\ (c + 1) - a = n + 1 /\ (c + 1) - 1 = c /\ a + (n + 1) - 1 = c
  BY TextNotTerminated, KeyLength DEF HexSoFar, TextInv
<1>2. PICK h : Counts(h, s, n) /\ v = h[n] % Modulus
  BY DEF HexSoFar
<1>3. \A i \in 1 .. n : s[i] = text[a + i - 1]
  <2>1. a <= c /\ c <= Len(text) + 1
    BY <1>1
  <2> HIDE DEF a
  <2> QED
    BY <1>1, <2>1, Between
<1>4. \A i \in 1 .. n + 1 : t[i] = text[a + i - 1]
  <2>1. a <= c + 1 /\ c + 1 <= Len(text) + 1 /\ c + 1 \in Nat
    BY <1>1
  <2> HIDE DEF a
  <2> QED
    BY <1>1, <2>1, Between
<1> HIDE DEF a, n, s, t
<1>5. t[n + 1] = text[c]
  <2>1. n + 1 \in 1 .. n + 1
    BY <1>1
  <2> QED
    BY <1>1, <1>4, <2>1
<1>6. \A i \in 1 .. n : t[i] = s[i]
  BY <1>1, <1>3, <1>4
<1>7. PICK g : Counts(g, t, n + 1) /\ g[n + 1] = With(h[n], t[n + 1])
  <2>1. n \in Nat
    BY <1>1
  <2>2. Counts(h, s, n)
    BY <1>2
  <2>3. \A i \in 1 .. n : t[i] = s[i]
    BY <1>6
  <2>4. \E g : Counts(g, t, n + 1) /\ g[n + 1] = With(h[n], t[n + 1])
    BY <2>1, <2>2, <2>3, CountsOn
  <2> QED
    BY <2>4
<1>8. w = g[n + 1] % Modulus
  <2>1. h[n] \in Nat
    BY <1>1, <1>2 DEF Counts
  <2>2. CASE text[c] \in DOMAIN Digits
    <3>1. Digits[text[c]] \in 0 .. 15
      BY <2>2, DigitsAssumption
    <3>2. ((h[n] % Modulus) * 16 + Digits[text[c]]) % Modulus
          = (16 * h[n] + Digits[text[c]]) % Modulus
      BY <2>1, <3>1, ModulusAssumption, DigitShiftedIn
    <3> QED
      BY <1>2, <1>5, <1>7, <2>2, <3>2 DEF With
  <2>3. CASE text[c] \notin DOMAIN Digits
    BY <1>2, <1>5, <1>7, <2>3 DEF With
  <2> QED
    BY <2>2, <2>3
<1>9. \A i \in f .. (c + 1) - 1 : text[i] # LineFeed
  <2>1. \A i \in f .. c - 1 : text[i] # LineFeed
    BY DEF HexSoFar
  <2>2. \A i \in f .. (c + 1) - 1 : i = c \/ i \in f .. c - 1
    BY <1>1
  <2> QED
    BY <2>1, <2>2
<1>10. a <= c + 1
  BY <1>1
<1> HIDE DEF w
<1>11. HexSoFar(text, f, c + 1, w)
  BY <1>1, <1>7, <1>8, <1>9, <1>10 DEF HexSoFar, a, t
<1> QED
  BY <1>11 DEF w

LEMMA HexDone ==
    ASSUME TextInv, NEW c \in 1 .. Len(text) + 1, NEW f \in 1 .. Len(text) + 1, NEW v,
           First(f), HexSoFar(text, f, c, v), At(c) \in {LineFeed, Terminator}
    PROVE  KeyStarts # {} /\ v = Number(Rest) % Modulus
<1> DEFINE a == f + Len(Key)
           s == SubSeq(text, a, c - 1)
           n == c - a
<1>1. /\ text \in Seq(STRING) /\ Len(text) \in Nat
      /\ c \in Nat /\ c <= Len(text) + 1 /\ a \in Nat /\ 1 <= a /\ a <= c /\ f \in Nat
      /\ n \in Nat /\ c \in f .. Len(text) + 1
  BY TextNotTerminated, KeyLength DEF HexSoFar, TextInv
<1>2. Rest = s
  <2>1. \A i \in f .. c - 1 : text[i] # LineFeed
    BY DEF HexSoFar
  <2> QED
    BY <1>1, <2>1, RestIs
<1>3. Len(s) = n
  <2> HIDE DEF a
  <2> QED
    BY <1>1, Between
<1>4. PICK h : Counts(h, s, n) /\ v = h[n] % Modulus
  BY DEF HexSoFar
<1>5. Number(s) = h[n]
  <2> HIDE DEF s, n
  <2> QED
    BY <1>1, <1>3, <1>4, NumberIs
<1>6. KeyStarts # {}
  BY DEF First
<1> QED
  BY <1>2, <1>4, <1>5, <1>6
-----------------------------------------------------------------------------
(* The word as far as it has been copied: the pointer c is behind the key  *)
(* of the line that starts at f, the word starts at w, after separators,   *)
(* and v holds its characters before c.                                    *)
Skipped(t, f, c) ==
    f + Len(Key) <= c /\ \A i \in f + Len(Key) .. c - 1 : Separates(t[i])

Copied(t, w, c, v) ==
    w <= c /\ (\A i \in w .. c - 1 : InWord(t[i])) /\ v = SubSeq(t, w, c - 1)

LEMMA SkipOn ==
    ASSUME TextInv, NEW c \in 1 .. Len(text), NEW f \in 1 .. Len(text) + 1,
           Skipped(text, f, c), Separates(text[c])
    PROVE  Skipped(text, f, c + 1)
<1>1. Len(text) \in Nat /\ f \in Nat /\ c \in Nat /\ Len(Key) \in Nat
  BY StartsType, KeyLength
<1>2. \A i \in f + Len(Key) .. (c + 1) - 1 : i = c \/ i \in f + Len(Key) .. c - 1
  BY <1>1
<1>3. f + Len(Key) <= c + 1
  BY <1>1 DEF Skipped
<1> QED
  BY <1>2, <1>3 DEF Skipped

LEMMA CopyOn ==
    ASSUME TextInv, NEW c \in 1 .. Len(text), NEW w \in Nat \ {0}, NEW v,
           Copied(text, w, c, v), InWord(text[c])
    PROVE  Copied(text, w, c + 1, Append(v, text[c]))
<1>1. /\ Len(text) \in Nat /\ w \in Nat /\ c \in Nat /\ 1 <= w /\ w <= c /\ c <= Len(text)
      /\ w <= c + 1
  BY StartsType DEF Copied
<1>2. \A i \in w .. (c + 1) - 1 : i = c \/ i \in w .. c - 1
  BY <1>1
<1>3. SubSeq(text, w, (c + 1) - 1) = Append(SubSeq(text, w, c - 1), text[c])
  BY <1>1, TextNotTerminated, BetweenOn DEF TextInv
<1> QED
  BY <1>1, <1>2, <1>3 DEF Copied

(* Every line has an end.                                                  *)
LEMMA LineHasEnd ==
    ASSUME TextInv, NEW f \in 1 .. Len(text) + 1
    PROVE  \E to \in f .. Len(text) + 1 :
              /\ At(to) \in {LineFeed, Terminator}
              /\ \A i \in f .. to - 1 : text[i] # LineFeed
<1> DEFINE T == {i \in f .. Len(text) + 1 : At(i) \in {LineFeed, Terminator}}
<1>1. Len(text) \in Nat /\ f \in Nat /\ f <= Len(text) + 1
  BY StartsType
<1>2. Len(text) + 1 \in T
  BY <1>1 DEF At
<1>3. T \subseteq Nat
  BY <1>1
<1>4. PICK to \in T : \A y \in T : ~(<<y, to>> \in OpToRel(<, Nat))
  <2> HIDE DEF T
  <2> QED
    BY <1>2, <1>3, NatLessThanWellFounded, WFMin
<1>5. \A y \in T : ~(y < to)
  <2> HIDE DEF T
  <2> QED
    BY <1>3, <1>4, LessThan
<1>6. ASSUME NEW i \in f .. to - 1 PROVE text[i] # LineFeed
  <2>1. i < to /\ i \in f .. Len(text) + 1 /\ i <= Len(text)
    BY <1>1
  <2>2. i \notin T
    BY <1>5, <2>1
  <2> QED
    BY <2>1, <2>2 DEF At
<1> QED
  BY <1>6

(* Where the word stands in what is behind the key: between a and to the   *)
(* separators are before w, and the word before c.                         *)
WordStands(t, a, w, c, to) ==
    /\ 1 <= a /\ a <= w /\ w < c /\ c <= to /\ to <= Len(t) + 1
    /\ \A i \in a .. w - 1 : Separates(t[i])
    /\ ~Separates(t[w])
    /\ \A i \in w .. c - 1 : ~IsSpace(t[i])
    /\ c = to \/ IsSpace(t[c])

LEMMA WordOfRest ==
    ASSUME NEW t \in Seq(STRING), NEW a \in Nat, NEW w \in Nat, NEW c \in Nat, NEW to \in Nat,
           WordStands(t, a, w, c, to)
    PROVE  Word(SubSeq(t, a, to - 1)) = SubSeq(t, w, c - 1)
<1> DEFINE s == SubSeq(t, a, to - 1)
           n == to - a
           u == w - a + 1
           e == c - a
<1>0. /\ \A i \in a .. w - 1 : Separates(t[i])
      /\ ~Separates(t[w])
      /\ \A i \in w .. c - 1 : ~IsSpace(t[i])
      /\ c = to \/ IsSpace(t[c])
  BY DEF WordStands
<1>1. /\ Len(t) \in Nat /\ n \in Nat /\ u \in 1 .. n /\ e \in u .. n /\ u \in Nat /\ e \in Nat
      /\ a <= to /\ 1 <= a /\ a <= w /\ w < c /\ c <= to /\ to <= Len(t) + 1
  BY DEF WordStands
<1>2. /\ s \in Seq(STRING) /\ Len(s) = n
      /\ \A i \in 1 .. n : s[i] = t[a + i - 1]
  BY <1>1, Between
<1>3. DOMAIN s = 1 .. n
  <2> HIDE DEF s, n
  <2> QED
    BY <1>2
<1>4. s[u] = t[w]
  <2>1. a + u - 1 = w
    BY <1>1
  <2> HIDE DEF s, n, u
  <2> QED
    BY <1>1, <1>2, <2>1
<1>5. \A j \in 1 .. u - 1 : Separates(s[j])
  <2>1. \A j \in 1 .. u - 1 : j \in 1 .. n /\ a + j - 1 \in a .. w - 1
    BY <1>1
  <2> HIDE DEF s, n, u
  <2> QED
    BY <1>0, <1>2, <2>1
<1>6. \A j \in u .. e : ~IsSpace(s[j])
  <2>1. \A j \in u .. e : j \in 1 .. n /\ a + j - 1 \in w .. c - 1
    BY <1>1
  <2> HIDE DEF s, n, u, e
  <2> QED
    BY <1>0, <1>2, <2>1
<1>7. e = n \/ IsSpace(s[e + 1])
  <2>1. CASE c = to
    BY <2>1
  <2>2. CASE c # to
    <3>1. e + 1 \in 1 .. n /\ a + (e + 1) - 1 = c /\ IsSpace(t[c])
      BY <1>1, <1>0, <2>2
    <3> HIDE DEF s, n, e
    <3> QED
      BY <1>2, <3>1
  <2> QED
    BY <2>1, <2>2
<1>8. Word(s) = SubSeq(s, u, e)
  <2> HIDE DEF s, n, u, e
  <2>1. Len(s) = n /\ n \in Nat /\ u \in 1 .. n /\ e \in u .. n
    BY <1>1, <1>2
  <2>2. ~Separates(s[u])
    BY <1>0, <1>4
  <2> QED
    BY <1>3, <1>5, <1>6, <1>7, <2>1, <2>2, WordIs
<1>9. SubSeq(s, u, e) = SubSeq(t, w, c - 1)
  <2> DEFINE x == SubSeq(s, u, (e + 1) - 1)
             y == SubSeq(t, w, c - 1)
             k == c - w
  <2>1. /\ x \in Seq(STRING) /\ Len(x) = (e + 1) - u
        /\ \A i \in 1 .. (e + 1) - u : x[i] = s[u + i - 1]
    <3>1. 1 <= u /\ u <= e + 1 /\ e + 1 <= n + 1 /\ e + 1 \in Nat
      BY <1>1
    <3> HIDE DEF s, n, u, e
    <3> QED
      BY <1>1, <1>2, <3>1, Between
  <2>2. /\ y \in Seq(STRING) /\ Len(y) = k
        /\ \A i \in 1 .. k : y[i] = t[w + i - 1]
    BY <1>1, Between
  <2>3. (e + 1) - u = k /\ k \in Nat
    BY <1>1
  <2>4. ASSUME NEW i \in 1 .. k PROVE x[i] = y[i]
    <3>1. u + i - 1 \in 1 .. n /\ a + (u + i - 1) - 1 = w + i - 1
      BY <1>1
    <3> DEFINE j == u + i - 1
    <3>2. x[i] = s[j]
      BY <2>1, <2>3
    <3>3. s[j] = t[a + j - 1]
      <4> HIDE DEF s, n, u, j
      <4> QED
        BY <1>2, <3>1 DEF j
    <3>4. y[i] = t[w + i - 1]
      BY <2>2
    <3> QED
      BY <3>1, <3>2, <3>3, <3>4
  <2> HIDE DEF x, y, k
  <2>5. x = y
    BY <2>1, <2>2, <2>3, <2>4, SeqEqual
  <2>6. (e + 1) - 1 = e
    BY <1>1
  <2> QED
    BY <2>5, <2>6 DEF x, y
<1> QED
  BY <1>8, <1>9

LEMMA StringDone ==
    ASSUME TextInv, NEW c \in 1 .. Len(text) + 1, NEW f \in 1 .. Len(text) + 1, NEW w \in Nat,
           NEW v, First(f), Skipped(text, f, w), ~Separates(At(w)),
           Copied(text, w, c, v), ~InWord(At(c))
    PROVE  KeyStarts # {} /\ (HasWord(Rest) => v = Word(Rest))
<1>1. KeyStarts # {}
  BY DEF First
<1> SUFFICES ASSUME HasWord(Rest) PROVE v = Word(Rest)
  BY <1>1
<1> DEFINE a == f + Len(Key)
           n == Len(text)
<1>2. /\ text \in Seq(STRING) /\ n \in Nat /\ a \in Nat /\ f \in Nat /\ c \in Nat
      /\ 1 <= a /\ a <= w /\ w <= c /\ c <= n + 1 /\ f <= a
  BY TextNotTerminated, KeyLength DEF Skipped, Copied, TextInv
<1>3. /\ \A i \in a .. w - 1 : Separates(text[i])
      /\ \A i \in w .. c - 1 : InWord(text[i])
      /\ v = SubSeq(text, w, c - 1)
  BY DEF Skipped, Copied
<1>4. PICK to \in f .. n + 1 : /\ At(to) \in {LineFeed, Terminator}
                               /\ \A i \in f .. to - 1 : text[i] # LineFeed
  BY LineHasEnd
<1>5. Rest = SubSeq(text, a, to - 1)
  BY <1>4, RestIs
<1>6. to \in Nat /\ to <= n + 1 /\ a <= to
  <2>1. to \in Nat /\ to <= n + 1 /\ f <= to
    BY <1>2, <1>4
  <2>2. CASE to < a
    <3>1. to \in f .. f + Len(Key) - 1 /\ f \in Nat \ {0} /\ Matches(f)
      BY <1>2, <2>1, <2>2, KeyLength DEF First, KeyStarts
    <3>2. to \in 1 .. n /\ text[to] # LineFeed
      BY <3>1, KeyOnOneLine
    <3>3. text[to] # Terminator /\ At(to) = text[to]
      BY <3>2, TextNotTerminated DEF TextInv, At
    <3> QED
      BY <1>4, <3>2, <3>3
  <2> HIDE DEF a, n
  <2> QED
    BY <1>2, <2>1, <2>2
(* The separators do not reach the end of the line.                        *)
<1>7. w < to
  <2>1. /\ Len(Rest) = to - a /\ Rest \in Seq(STRING)
        /\ \A i \in 1 .. to - a : Rest[i] = text[a + i - 1]
    <3> HIDE DEF a
    <3> QED
      BY <1>2, <1>5, <1>6, Between
  <2>2. PICK i \in 1 .. to - a : ~Separates(Rest[i])
    <3> HIDE DEF a
    <3>1. DOMAIN Rest = 1 .. to - a
      BY <2>1
    <3> QED
      BY <3>1 DEF HasWord
  <2> DEFINE p == a + i - 1
  <2>3. /\ p \in Nat /\ a <= p /\ p < to /\ ~Separates(text[p])
    <3> HIDE DEF a
    <3> QED
      BY <1>2, <1>6, <2>1, <2>2
  <2> HIDE DEF p, a, n
  <2>4. p \notin a .. w - 1
    BY <1>3, <2>3
  <2> QED
    BY <1>2, <1>6, <2>3, <2>4
(* The copy does not go past it.                                           *)
<1>8. c <= to
  <2> SUFFICES ASSUME to < c PROVE FALSE
    BY <1>2, <1>6
  <2> HIDE DEF a, n
  <2>1. to \in w .. c - 1 /\ to \in 1 .. n
    BY <1>2, <1>6, <1>7
  <2>2. InWord(text[to]) /\ At(to) = text[to]
    BY <1>3, <2>1 DEF At, n
  <2> QED
    BY <1>4, <2>2 DEF InWord, IsSpace
<1>9. \A i \in 1 .. n : At(i) = text[i] /\ text[i] # Terminator
  BY TextNotTerminated DEF TextInv, At
<1>10. w \in 1 .. n /\ ~Separates(text[w]) /\ InWord(text[w])
  <2>1. w \in 1 .. n
    <3> HIDE DEF a, n
    <3> QED
      BY <1>2, <1>6, <1>7
  <2>2. At(w) = text[w] /\ text[w] # Terminator
    BY <1>9, <2>1
  <2> QED
    BY <2>1, <2>2 DEF InWord, Separates
<1>11. w < c
  <2>1. w # c
    BY <1>9, <1>10
  <2> HIDE DEF a, n
  <2> QED
    BY <1>2, <2>1
<1>12. c = to \/ IsSpace(text[c])
  <2> SUFFICES ASSUME c # to PROVE IsSpace(text[c])
    OBVIOUS
  <2>1. c \in 1 .. n
    <3> HIDE DEF a, n
    <3> QED
      BY <1>2, <1>6, <1>8, <1>11
  <2> QED
    BY <1>9, <2>1 DEF InWord
<1>13. \A i \in w .. c - 1 : ~IsSpace(text[i])
  BY <1>3 DEF InWord
<1> HIDE DEF a
<1>14. Word(SubSeq(text, a, to - 1)) = SubSeq(text, w, c - 1)
  <2>1. /\ text \in Seq(STRING) /\ a \in Nat /\ w \in Nat /\ c \in Nat /\ to \in Nat
        /\ 1 <= a /\ a <= w /\ w < c /\ c <= to /\ to <= Len(text) + 1
    BY <1>2, <1>6, <1>8, <1>11
  <2>2. \A i \in a .. w - 1 : Separates(text[i])
    BY <1>3
  <2>3. ~Separates(text[w])
    BY <1>10
  <2>4. WordStands(text, a, w, c, to)
    BY <1>12, <1>13, <2>1, <2>2, <2>3 DEF WordStands
  <2> QED
    BY <2>1, <2>4, WordOfRest
<1> QED
  BY <1>3, <1>5, <1>14
-----------------------------------------------------------------------------
(* The invariant: where the search is there is no key before the pointer,  *)
(* and where a value is read the pointer is on the first line of the key.  *)
FindInv ==
    pc = "find" =>
        /\ config \in Starts
        /\ \A from \in KeyStarts : config <= from
        /\ value = IF want = "hex" THEN 0 ELSE <<>>

MissingInv ==
    pc = "missing" => KeyStarts = {} /\ value = IF want = "hex" THEN 0 ELSE <<>>

HexInv ==
    want = "hex" /\ pc \in {"hex", "found"} =>
        \E f \in 1 .. Len(text) + 1 :
            /\ First(f)
            /\ HexSoFar(text, f, config, value)
            /\ pc = "found" => At(config) \in {LineFeed, Terminator}

SkipInv ==
    pc = "skip" =>
        value = <<>> /\ \E f \in 1 .. Len(text) + 1 : First(f) /\ Skipped(text, f, config)

CopyInv ==
    want = "string" /\ pc \in {"copy", "found"} =>
        \E f \in 1 .. Len(text) + 1, w \in Nat \ {0} :
            /\ First(f)
            /\ Skipped(text, f, w)
            /\ ~Separates(At(w))
            /\ Copied(text, w, config, value)
            /\ pc = "found" => ~InWord(At(config))

ControlInv ==
    /\ want \in {"hex", "string"}
    /\ pc \in {"find", "hex", "skip", "copy", "found", "missing"}
    /\ pc = "hex" => want = "hex"
    /\ pc \in {"skip", "copy"} => want = "string"

IInv == /\ TextInv /\ InsideText /\ ControlInv
        /\ FindInv /\ MissingInv /\ HexInv /\ SkipInv /\ CopyInv

LEMMA InitInv == Init => IInv
<1> SUFFICES ASSUME Init PROVE IInv
  OBVIOUS
<1>1. TextInv /\ InsideText
  BY TextsAssumption DEF Init, TextInv, InsideText
<1>2. \A from \in KeyStarts : 1 <= from
  BY <1>1, StartsType DEF KeyStarts
<1> QED
  BY <1>1, <1>2 DEF Init, IInv, ControlInv, FindInv, MissingInv, HexInv, SkipInv, CopyInv, Starts

LEMMA TextStays == Next \/ UNCHANGED vars => text' = text /\ want' = want
BY DEF Next, find_wanted, config_get_hex, config_get_string, Found, NextLine, NoLine,
       ParseDigit, HexEnd, SkipSeparator, SkipEnd, CopyChar, CopyEnd, Idle, Step, vars

(* What a step of the parser keeps, given what it does to the pointer.     *)
LEMMA StepInv ==
    ASSUME IInv, text' = text, want' = want, config' \in 1 .. Len(text) + 1,
           ControlInv', FindInv', MissingInv', HexInv', SkipInv', CopyInv'
    PROVE  IInv'
<1>1. TextInv'
  BY StartsType DEF TextInv, IInv
<1>2. InsideText'
  BY DEF InsideText
<1> QED
  BY <1>1, <1>2 DEF IInv

LEMMA FoundInv == IInv /\ Found => IInv'
<1> SUFFICES ASSUME IInv, Found PROVE IInv'
  OBVIOUS
<1> USE DEF Found, Step
<1>1. /\ TextInv /\ InsideText /\ Matches(config) /\ pc = "find" /\ text' = text /\ want' = want
      /\ pc' = (IF want = "hex" THEN "hex" ELSE "skip")
      /\ config' = config + Len(Key) /\ value' = value
      /\ value = IF want = "hex" THEN 0 ELSE <<>>
      /\ want \in {"hex", "string"}
  BY DEF IInv, FindInv, ControlInv
<1>2. config \in 1 .. Len(text) + 1 /\ First(config)
  BY <1>1, FindFirst DEF IInv, FindInv
<1>3. config' \in 1 .. Len(text) + 1
  BY <1>1, <1>2, MatchInside
<1>4. HexInv'
  <2> SUFFICES ASSUME want = "hex"
               PROVE  \E f \in 1 .. Len(text') + 1 :
                        First(f)' /\ HexSoFar(text', f, config', value')
    BY <1>1 DEF HexInv
  <2>1. HexSoFar(text, config, config + Len(Key), 0)
    BY <1>1, <1>2, HexStart
  <2> QED
    BY <1>1, <1>2, <2>1, SameText
<1>5. SkipInv'
  <2> SUFFICES ASSUME want = "string"
               PROVE  value' = <<>> /\ \E f \in 1 .. Len(text') + 1 :
                                          First(f)' /\ Skipped(text', f, config')
    BY <1>1 DEF SkipInv
  <2>1. Skipped(text, config, config + Len(Key))
    BY <1>2, KeyLength DEF Skipped
  <2> QED
    BY <1>1, <1>2, <2>1, SameText
<1>6. ControlInv' /\ FindInv' /\ MissingInv' /\ CopyInv'
  BY <1>1 DEF ControlInv, FindInv, MissingInv, CopyInv
<1> QED
  BY <1>1, <1>3, <1>4, <1>5, <1>6, StepInv

LEMMA NextLineInv == IInv /\ NextLine => IInv'
<1> SUFFICES ASSUME IInv, NextLine PROVE IInv'
  OBVIOUS
<1>1. PICK feed \in config .. Len(text) :
        /\ text[feed] = LineFeed
        /\ \A i \in config .. feed - 1 : text[i] # LineFeed
        /\ Step("find", "find", feed + 1, value)
  BY DEF NextLine
<1>2. /\ TextInv /\ config \in 1 .. Len(text) + 1 /\ ~Matches(config) /\ pc = "find"
      /\ text' = text /\ want' = want /\ pc' = "find" /\ config' = feed + 1 /\ value' = value
      /\ config \in Starts /\ \A from \in KeyStarts : config <= from
      /\ value = IF want = "hex" THEN 0 ELSE <<>>
      /\ want \in {"hex", "string"}
  BY <1>1 DEF IInv, FindInv, NextLine, Step, InsideText, ControlInv
<1>3. feed + 1 \in Starts /\ \A from \in KeyStarts : feed + 1 <= from
  BY <1>1, <1>2, FindOn
<1>4. KeyStarts' = KeyStarts /\ Starts' = Starts
  BY <1>2, SameText DEF Starts
<1>5. FindInv'
  BY <1>2, <1>3, <1>4 DEF FindInv
<1>6. config' \in 1 .. Len(text) + 1
  BY <1>2, <1>3, StartsType
<1>7. ControlInv' /\ MissingInv' /\ HexInv' /\ SkipInv' /\ CopyInv'
  BY <1>2 DEF ControlInv, MissingInv, HexInv, SkipInv, CopyInv
<1> QED
  BY <1>2, <1>5, <1>6, <1>7, StepInv

LEMMA NoLineInv == IInv /\ NoLine => IInv'
<1> SUFFICES ASSUME IInv, NoLine PROVE IInv'
  OBVIOUS
<1>1. /\ TextInv /\ config \in 1 .. Len(text) + 1 /\ ~Matches(config) /\ pc = "find"
      /\ text' = text /\ want' = want /\ pc' = "missing" /\ config' = config /\ value' = value
      /\ config \in Starts /\ \A from \in KeyStarts : config <= from
      /\ value = IF want = "hex" THEN 0 ELSE <<>>
      /\ want \in {"hex", "string"}
      /\ \A i \in config .. Len(text) : text[i] # LineFeed
  BY DEF IInv, FindInv, NoLine, Step, InsideText, ControlInv
<1>2. KeyStarts = {}
  BY <1>1, FindNone
<1>3. MissingInv'
  BY <1>1, <1>2, SameText DEF MissingInv
<1>4. ControlInv' /\ FindInv' /\ HexInv' /\ SkipInv' /\ CopyInv'
  BY <1>1 DEF ControlInv, FindInv, HexInv, SkipInv, CopyInv
<1> QED
  BY <1>1, <1>3, <1>4, StepInv

LEMMA ParseDigitInv == IInv /\ ParseDigit => IInv'
<1> SUFFICES ASSUME IInv, ParseDigit PROVE IInv'
  OBVIOUS
<1> DEFINE new == IF At(config) \in DOMAIN Digits
                  THEN (value * 16 + Digits[At(config)]) % Modulus ELSE value
<1>1. /\ TextInv /\ config \in 1 .. Len(text) + 1 /\ pc = "hex" /\ want = "hex"
      /\ text' = text /\ want' = want /\ pc' = "hex" /\ config' = config + 1 /\ value' = new
      /\ At(config) # LineFeed /\ At(config) # Terminator
  BY DEF IInv, ParseDigit, Step, InsideText, ControlInv
<1>2. config \in 1 .. Len(text) /\ At(config) = text[config] /\ config' \in 1 .. Len(text) + 1
  <2>1. config \in Nat \ {0}
    BY StartsType, <1>1
  <2>2. config \in 1 .. Len(text)
    BY <1>1, <2>1, InsideIfCharacter
  <2> QED
    BY <1>1, <2>2, StartsType DEF At
<1>3. PICK f \in 1 .. Len(text) + 1 : First(f) /\ HexSoFar(text, f, config, value)
  BY <1>1 DEF IInv, HexInv
<1>4. HexSoFar(text, f, config + 1, new)
  BY <1>1, <1>2, <1>3, HexOn
<1> HIDE DEF new
<1>5. HexInv'
  BY <1>1, <1>3, <1>4, SameText DEF HexInv
<1>6. ControlInv' /\ FindInv' /\ MissingInv' /\ SkipInv' /\ CopyInv'
  BY <1>1 DEF ControlInv, FindInv, MissingInv, SkipInv, CopyInv
<1> QED
  BY <1>1, <1>2, <1>5, <1>6, StepInv

LEMMA HexEndInv == IInv /\ HexEnd => IInv'
<1> SUFFICES ASSUME IInv, HexEnd PROVE IInv'
  OBVIOUS
<1>1. /\ TextInv /\ config \in 1 .. Len(text) + 1 /\ pc = "hex" /\ want = "hex"
      /\ text' = text /\ want' = want /\ pc' = "found" /\ config' = config /\ value' = value
      /\ At(config) \in {LineFeed, Terminator}
  BY DEF IInv, HexEnd, Step, InsideText, ControlInv
<1>2. PICK f \in 1 .. Len(text) + 1 : First(f) /\ HexSoFar(text, f, config, value)
  BY <1>1 DEF IInv, HexInv
<1>3. HexInv'
  BY <1>1, <1>2, SameText DEF HexInv
<1>4. ControlInv' /\ FindInv' /\ MissingInv' /\ SkipInv' /\ CopyInv'
  BY <1>1 DEF ControlInv, FindInv, MissingInv, SkipInv, CopyInv
<1> QED
  BY <1>1, <1>3, <1>4, StepInv

LEMMA SkipSeparatorInv == IInv /\ SkipSeparator => IInv'
<1> SUFFICES ASSUME IInv, SkipSeparator PROVE IInv'
  OBVIOUS
<1>1. /\ TextInv /\ config \in 1 .. Len(text) + 1 /\ pc = "skip" /\ want = "string"
      /\ text' = text /\ want' = want /\ pc' = "skip" /\ config' = config + 1 /\ value' = value
      /\ Separates(At(config)) /\ At(config) # Terminator
  BY DEF IInv, SkipSeparator, Step, InsideText, ControlInv, Separates, IsSpace, Equals, Space,
         LineFeed, Terminator
<1>2. config \in 1 .. Len(text) /\ At(config) = text[config] /\ config' \in 1 .. Len(text) + 1
  <2>1. config \in Nat \ {0}
    BY StartsType, <1>1
  <2>2. config \in 1 .. Len(text)
    BY <1>1, <2>1, InsideIfCharacter
  <2> QED
    BY <1>1, <2>2, StartsType DEF At
<1>3. PICK f \in 1 .. Len(text) + 1 : First(f) /\ Skipped(text, f, config)
  BY <1>1 DEF IInv, SkipInv
<1>4. Skipped(text, f, config + 1)
  BY <1>1, <1>2, <1>3, SkipOn
<1>5. SkipInv'
  BY <1>1, <1>3, <1>4, SameText DEF SkipInv, IInv
<1>6. ControlInv' /\ FindInv' /\ MissingInv' /\ HexInv' /\ CopyInv'
  BY <1>1 DEF ControlInv, FindInv, MissingInv, HexInv, CopyInv
<1> QED
  BY <1>1, <1>2, <1>5, <1>6, StepInv

LEMMA SkipEndInv == IInv /\ SkipEnd => IInv'
<1> SUFFICES ASSUME IInv, SkipEnd PROVE IInv'
  OBVIOUS
<1>1. /\ TextInv /\ config \in 1 .. Len(text) + 1 /\ pc = "skip" /\ want = "string"
      /\ text' = text /\ want' = want /\ pc' = "copy" /\ config' = config /\ value' = value
      /\ ~Separates(At(config)) /\ value = <<>>
  BY DEF IInv, SkipEnd, Step, InsideText, ControlInv, SkipInv
<1>2. PICK f \in 1 .. Len(text) + 1 : First(f) /\ Skipped(text, f, config)
  BY <1>1 DEF IInv, SkipInv
<1>3. config \in Nat \ {0} /\ Copied(text, config, config, value)
  <2>1. config \in Nat \ {0} /\ config - 1 < config /\ config - 1 \in Int
    BY <1>1, StartsType
  <2>2. SubSeq(text, config, config - 1) = <<>>
    BY <2>1, SubSeqEmpty
  <2> QED
    BY <1>1, <2>1, <2>2 DEF Copied
<1>4. CopyInv'
  BY <1>1, <1>2, <1>3, SameText DEF CopyInv
<1>5. ControlInv' /\ FindInv' /\ MissingInv' /\ HexInv' /\ SkipInv'
  BY <1>1 DEF ControlInv, FindInv, MissingInv, HexInv, SkipInv
<1> QED
  BY <1>1, <1>4, <1>5, StepInv

LEMMA CopyCharInv == IInv /\ CopyChar => IInv'
<1> SUFFICES ASSUME IInv, CopyChar PROVE IInv'
  OBVIOUS
<1>1. /\ TextInv /\ config \in 1 .. Len(text) + 1 /\ pc = "copy" /\ want = "string"
      /\ text' = text /\ want' = want /\ pc' = "copy" /\ config' = config + 1
      /\ value' = Append(value, At(config)) /\ InWord(At(config)) /\ At(config) # Terminator
  BY DEF IInv, CopyChar, Step, InsideText, ControlInv, InWord
<1>2. config \in 1 .. Len(text) /\ At(config) = text[config] /\ config' \in 1 .. Len(text) + 1
  <2>1. config \in Nat \ {0}
    BY StartsType, <1>1
  <2>2. config \in 1 .. Len(text)
    BY <1>1, <2>1, InsideIfCharacter
  <2> QED
    BY <1>1, <2>2, StartsType DEF At
<1>3. PICK f \in 1 .. Len(text) + 1, w \in Nat \ {0} :
         First(f) /\ Skipped(text, f, w) /\ ~Separates(At(w)) /\ Copied(text, w, config, value)
  BY <1>1 DEF IInv, CopyInv
<1>4. Copied(text, w, config + 1, Append(value, text[config]))
  BY <1>1, <1>2, <1>3, CopyOn
<1>5. CopyInv'
  BY <1>1, <1>2, <1>3, <1>4, SameText DEF CopyInv
<1>6. ControlInv' /\ FindInv' /\ MissingInv' /\ HexInv' /\ SkipInv'
  BY <1>1 DEF ControlInv, FindInv, MissingInv, HexInv, SkipInv
<1> QED
  BY <1>1, <1>2, <1>5, <1>6, StepInv

LEMMA CopyEndInv == IInv /\ CopyEnd => IInv'
<1> SUFFICES ASSUME IInv, CopyEnd PROVE IInv'
  OBVIOUS
<1>1. /\ TextInv /\ config \in 1 .. Len(text) + 1 /\ pc = "copy" /\ want = "string"
      /\ text' = text /\ want' = want /\ pc' = "found" /\ config' = config
      /\ value' = value /\ ~InWord(At(config))
  BY DEF IInv, CopyEnd, Step, InsideText, ControlInv
<1>2. PICK f \in 1 .. Len(text) + 1, w \in Nat \ {0} :
         First(f) /\ Skipped(text, f, w) /\ ~Separates(At(w)) /\ Copied(text, w, config, value)
  BY <1>1 DEF IInv, CopyInv
<1>3. CopyInv'
  BY <1>1, <1>2, SameText DEF CopyInv
<1>4. ControlInv' /\ FindInv' /\ MissingInv' /\ HexInv' /\ SkipInv'
  BY <1>1 DEF ControlInv, FindInv, MissingInv, HexInv, SkipInv
<1> QED
  BY <1>1, <1>3, <1>4, StepInv

LEMMA StutterInv == IInv /\ UNCHANGED vars => IInv'
<1> SUFFICES ASSUME IInv, UNCHANGED vars PROVE IInv'
  OBVIOUS
<1>1. text' = text /\ want' = want /\ pc' = pc /\ config' = config /\ value' = value
  BY DEF vars
<1>2. Starts' = Starts /\ KeyStarts' = KeyStarts
  BY <1>1, SameText DEF Starts
<1>3. ControlInv' /\ FindInv' /\ MissingInv'
  BY <1>1, <1>2 DEF IInv, ControlInv, FindInv, MissingInv
<1>4. HexInv'
  BY <1>1, SameText DEF IInv, HexInv
<1>5. SkipInv'
  BY <1>1, SameText DEF IInv, SkipInv
<1>6. CopyInv'
  BY <1>1, SameText DEF IInv, CopyInv
<1> QED
  BY <1>1, <1>3, <1>4, <1>5, <1>6, StepInv DEF IInv, InsideText

(* The invariant of the parser.                                            *)
THEOREM Invariant == Spec => []IInv
<1>1. IInv /\ [Next]_vars => IInv'
  BY FoundInv, NextLineInv, NoLineInv, ParseDigitInv, HexEndInv, SkipSeparatorInv, SkipEndInv,
     CopyCharInv, CopyEndInv, StutterInv
     DEF Next, find_wanted, config_get_hex, config_get_string, Idle
<1> QED
  BY <1>1, InitInv, PTL DEF Spec

(* Neither find_wanted nor config_get_hex nor config_get_string reads past *)
(* the terminator that try_boot_cd has written behind SYSTEM.CNF           *)
(* (cfgparse.c:13-24, 39-45, 59-69).                                       *)
THEOREM PointerInside == Spec => []InsideText
  BY Invariant, PTL DEF IInv

(* config_get_hex returns the number of the first line that starts with    *)
(* the key, modulo the width of a word, and fails only if there is none.   *)
THEOREM HexIsAsWritten == Spec => []HexAsWritten
<1>1. IInv => HexAsWritten
  <2> SUFFICES ASSUME IInv, want = "hex"
               PROVE  /\ pc = "missing" => KeyStarts = {}
                      /\ pc = "found" => KeyStarts # {} /\ value = Number(Rest) % Modulus
    BY DEF HexAsWritten
  <2>1. pc = "missing" => KeyStarts = {}
    BY DEF IInv, MissingInv
  <2>2. ASSUME pc = "found" PROVE KeyStarts # {} /\ value = Number(Rest) % Modulus
    <3>1. TextInv /\ config \in 1 .. Len(text) + 1
      BY DEF IInv, InsideText
    <3>2. PICK f \in 1 .. Len(text) + 1 :
            /\ First(f) /\ HexSoFar(text, f, config, value)
            /\ At(config) \in {LineFeed, Terminator}
      BY <2>2 DEF IInv, HexInv
    <3> QED
      BY <3>1, <3>2, HexDone
  <2> QED
    BY <2>1, <2>2
<1> QED
  BY <1>1, Invariant, PTL

(* config_get_string copies the first word behind the key, to its end and  *)
(* no further, from the first line that starts with the key.               *)
THEOREM StringIsAsWritten == Spec => []StringAsWritten
<1>1. IInv => StringAsWritten
  <2> SUFFICES ASSUME IInv, want = "string"
               PROVE  /\ pc = "missing" => KeyStarts = {}
                      /\ pc = "found" /\ HasWord(Rest) => value = Word(Rest)
    BY DEF StringAsWritten
  <2>1. pc = "missing" => KeyStarts = {}
    BY DEF IInv, MissingInv
  <2>2. ASSUME pc = "found", HasWord(Rest) PROVE value = Word(Rest)
    <3>1. TextInv /\ config \in 1 .. Len(text) + 1
      BY DEF IInv, InsideText
    <3>2. PICK f \in 1 .. Len(text) + 1, w \in Nat \ {0} :
            /\ First(f) /\ Skipped(text, f, w) /\ ~Separates(At(w))
            /\ Copied(text, w, config, value) /\ ~InWord(At(config))
      BY <2>2 DEF IInv, CopyInv
    <3> QED
      BY <2>2, <3>1, <3>2, StringDone
  <2> QED
    BY <2>1, <2>2
<1> QED
  BY <1>1, Invariant, PTL

(* The pointer, the number and the word have their types: the number fits  *)
(* a register and the characters copied are the text's.                    *)
THEOREM TypeCorrect == Spec => []TypeOK
<1>1. IInv => TypeOK
  <2> SUFFICES ASSUME IInv PROVE TypeOK
    OBVIOUS
  <2>1. /\ text \in Seq(STRING) /\ config \in Nat /\ ControlInv
        /\ Len(text) \in Nat /\ config <= Len(text) + 1 /\ TextInv
    BY TextNotTerminated, StartsType DEF IInv, TextInv, InsideText
  <2>2. 0 \in 0 .. Modulus - 1 /\ <<>> \in Seq(STRING)
    BY ModulusAssumption
  <2>3. ASSUME want = "hex" PROVE value \in 0 .. Modulus - 1
    <3>1. CASE pc \in {"hex", "found"}
      <4>1. PICK f \in 1 .. Len(text) + 1 : HexSoFar(text, f, config, value)
        BY <2>3, <3>1 DEF IInv, HexInv
      <4> DEFINE n == config - (f + Len(Key))
      <4>2. n \in Nat
        BY <2>1, <4>1, KeyLength DEF HexSoFar
      <4>3. PICK h : h[n] \in Nat /\ value = h[n] % Modulus
        <5>1. PICK h : /\ Counts(h, SubSeq(text, f + Len(Key), config - 1), n)
                       /\ value = h[n] % Modulus
          BY <4>1 DEF HexSoFar
        <5>2. h[n] \in Nat
          <6> HIDE DEF n
          <6> QED
            BY <4>2, <5>1 DEF Counts
        <5> QED
          BY <5>1, <5>2
      <4> QED
        BY <4>3, ModulusAssumption, DivMod
    <3>2. CASE pc \in {"find", "missing"}
      BY <2>2, <2>3, <3>2 DEF IInv, FindInv, MissingInv
    <3> QED
      BY <2>1, <2>3, <3>1, <3>2 DEF ControlInv
  <2>4. ASSUME want = "string" PROVE value \in Seq(STRING)
    <3>1. CASE pc \in {"copy", "found"}
      <4>1. PICK w \in Nat \ {0} : w <= config /\ value = SubSeq(text, w, config - 1)
        BY <2>4, <3>1 DEF IInv, CopyInv, Copied
      <4> QED
        BY <2>1, <4>1, Between
    <3>2. CASE pc \in {"find", "missing", "skip"}
      BY <2>2, <2>4, <3>2 DEF IInv, FindInv, MissingInv, SkipInv
    <3> QED
      BY <2>1, <2>4, <3>1, <3>2 DEF ControlInv
  <2> QED
    BY <2>1, <2>3, <2>4 DEF TypeOK, ControlInv
<1> QED
  BY <1>1, Invariant, PTL
=============================================================================
