---------------------------- MODULE ConfigParse -----------------------------
(***************************************************************************)
(* The SYSTEM.CNF parser (loader/cfgparse.c): find_wanted followed by      *)
(* config_get_hex or config_get_string, one loop iteration after another.  *)
(*                                                                         *)
(* A text is a sequence of characters, of which the parser tells apart the *)
(* key, the equals sign, white space, the line feed, hexadecimal digits    *)
(* and the rest; it ends with the terminator try_boot_cd writes after it.  *)
(***************************************************************************)
EXTENDS Integers, Sequences

CONSTANTS Texts,        \* what a SYSTEM.CNF may say
          Key,          \* the name looked for
          Digits,       \* the characters todigit gives a value to, 0 to 15
          Modulus       \* 2^32 in the code

Space     == " "
LineFeed  == "LF"
Equals    == "="
Terminator == "NUL"

ASSUME TextsAssumption ==
    \A t \in Texts : t \in Seq(STRING) /\ \A i \in DOMAIN t : t[i] # Terminator
ASSUME KeyAssumption ==
    /\ Key \in Seq(STRING) /\ Key # <<>>
    /\ \A i \in DOMAIN Key : Key[i] \notin {Terminator, LineFeed}
ASSUME DigitsAssumption ==
    /\ \A c \in DOMAIN Digits : Digits[c] \in 0 .. 15
    /\ {LineFeed, Terminator} \cap DOMAIN Digits = {}
ASSUME ModulusAssumption == Modulus \in Nat /\ Modulus > 0

VARIABLES
    text,   \* the file, never changed
    want,   \* which of the two functions was called
    pc,     \* find: the while of find_wanted; hex; skip and copy: the two
            \* loops of config_get_string; found and missing: returned
    config, \* the pointer: config = 1 is the first character
    value   \* parsed, or what is in the caller's buffer

vars == <<text, want, pc, config, value>>

At(i) == IF i <= Len(text) THEN text[i] ELSE Terminator

IsSpace(c) == c \in {Space, LineFeed}

Init ==
    /\ text \in Texts
    /\ want \in {"hex", "string"}
    /\ pc = "find"
    /\ config = 1
    /\ value = IF want = "hex" THEN 0 ELSE <<>>
-----------------------------------------------------------------------------
(* strncmp stops at the terminator, which no key contains.                 *)
Matches(i) == \A k \in 1 .. Len(Key) : At(i + k - 1) = Key[k]

Step(from, to, position, result) ==
    /\ pc = from
    /\ pc' = to
    /\ config' = position
    /\ value' = result
    /\ UNCHANGED <<text, want>>

Found ==
    /\ Matches(config)
    /\ Step("find", IF want = "hex" THEN "hex" ELSE "skip", config + Len(Key), value)

(* Seeded fault: the search goes on within the line.                       *)
NextLineMissing ==
    ~Matches(config) /\ config <= Len(text) /\ Step("find", "find", config + 1, value)

(* strchr, and past the line feed.                                         *)
NextLine ==
    /\ ~Matches(config)
    /\ \E feed \in config .. Len(text) :
          /\ text[feed] = LineFeed
          /\ \A i \in config .. feed - 1 : text[i] # LineFeed
          /\ Step("find", "find", feed + 1, value)

NoLine ==
    /\ ~Matches(config)
    /\ \A i \in config .. Len(text) : text[i] # LineFeed
    /\ Step("find", "missing", config, value)

find_wanted == Found \/ NextLine \/ NoLine

(* Seeded fault: only the line feed ends the value.                        *)
ParseDigitPastEnd ==
    /\ At(config) # LineFeed
    /\ config <= Len(text) + 1
    /\ Step("hex", "hex", config + 1, value)

(* Characters without a value are passed over.                             *)
ParseDigit ==
    /\ At(config) \notin {LineFeed, Terminator}
    /\ Step("hex", "hex", config + 1,
            IF At(config) \in DOMAIN Digits
            THEN (value * 16 + Digits[At(config)]) % Modulus ELSE value)

HexEnd ==
    At(config) \in {LineFeed, Terminator} /\ Step("hex", "found", config, value)

config_get_hex == ParseDigit \/ HexEnd

(* isspace takes the line feed for white space too.                        *)
Separates(c) == c = Equals \/ IsSpace(c)

SkipSeparator == Separates(At(config)) /\ Step("skip", "skip", config + 1, value)
SkipEnd == ~Separates(At(config)) /\ Step("skip", "copy", config, value)

(* Seeded fault: white space ends the value only at the end of the line.   *)
InWordToLineEnd(c) == c \notin {LineFeed, Terminator}

InWord(c) == c # Terminator /\ ~IsSpace(c)

CopyChar ==
    InWord(At(config)) /\ Step("copy", "copy", config + 1, Append(value, At(config)))
CopyEnd == ~InWord(At(config)) /\ Step("copy", "found", config, value)

config_get_string == SkipSeparator \/ SkipEnd \/ CopyChar \/ CopyEnd

(* The functions have returned.                                            *)
Idle == pc \in {"found", "missing"} /\ UNCHANGED vars

Next == find_wanted \/ config_get_hex \/ config_get_string \/ Idle

Spec == Init /\ [][Next]_vars
-----------------------------------------------------------------------------
TypeOK ==
    /\ text \in Seq(STRING)
    /\ want \in {"hex", "string"}
    /\ pc \in {"find", "hex", "skip", "copy", "found", "missing"}
    /\ pc = "hex" => want = "hex"
    /\ pc \in {"skip", "copy"} => want = "string"
    /\ config \in Nat
    /\ IF want = "hex" THEN value \in 0 .. Modulus - 1 ELSE value \in Seq(STRING)

(* No loop reads past the terminator: the pointer stays inside the text or *)
(* on its end, wherever the key is and whatever follows it.                *)
InsideText == config \in 1 .. Len(text) + 1

(* The reference: the lines of the text, as pairs of their first position  *)
(* and the position of their end.                                          *)
LineAt(from) ==
    CHOOSE line \in [from : {from}, to : from .. Len(text) + 1] :
        /\ At(line.to) \in {LineFeed, Terminator}
        /\ \A i \in from .. line.to - 1 : text[i] # LineFeed

Starts == {1} \cup {i + 1 : i \in {j \in 1 .. Len(text) : text[j] = LineFeed}}

KeyStarts == {from \in Starts : Matches(from)}

(* The first line that starts with the key, from behind the key on.        *)
Rest == LET first == CHOOSE from \in KeyStarts : \A other \in KeyStarts : from <= other
        IN  SubSeq(text, first + Len(Key), LineAt(first).to - 1)

(* The number a text says: the characters without a value do not count.    *)
Number(s) ==
    LET upTo[n \in 0 .. Len(s)] ==
            IF n = 0 THEN 0
            ELSE IF s[n] \in DOMAIN Digits THEN 16 * upTo[n - 1] + Digits[s[n]]
            ELSE upTo[n - 1]
    IN  upTo[Len(s)]

(* The first word behind the separators of a line.                         *)
Word(s) ==
    LET first == CHOOSE i \in DOMAIN s :
                    /\ ~Separates(s[i])
                    /\ \A j \in 1 .. i - 1 : Separates(s[j])
        last == CHOOSE i \in first .. Len(s) :
                    /\ i = Len(s) \/ IsSpace(s[i + 1])
                    /\ \A j \in first .. i : ~IsSpace(s[j])
    IN  SubSeq(s, first, last)

HasWord(s) == \E i \in DOMAIN s : ~Separates(s[i])

(* The key is found if and only if a line starts with it, and the number   *)
(* is the one on the first such line: nothing of another line is taken,    *)
(* and digits beyond the width of a word push the first ones out.          *)
HexAsWritten ==
    want = "hex" =>
        /\ pc = "missing" => KeyStarts = {}
        /\ pc = "found" => KeyStarts # {} /\ value = Number(Rest) % Modulus

(* The boot file is the first word of the first line that starts with the  *)
(* key, if that line has a word at all.                                    *)
StringAsWritten ==
    want = "string" =>
        /\ pc = "missing" => KeyStarts = {}
        /\ pc = "found" /\ HasWord(Rest) => value = Word(Rest)
=============================================================================
