---------------------------- MODULE BoundaryPolicy ----------------------------
(***************************************************************************)
(* containsProhibitedMarker: whether a text names an upstream vendor, or   *)
(* uses a word of the upstream's vocabulary as a token.  The code keeps    *)
(* only hashes of the words and slides a rolling hash over the text.       *)
(*                                                                         *)
(* The code has 2^32 and 257, and twelve hashes of which two lengths hold  *)
(* names.  The alphabet is reduced to the kinds of code units it tells     *)
(* apart.                                                                  *)
(***************************************************************************)
EXTENDS Integers, SequencesExt

CONSTANTS
  Modulus,        \* how many values a word has
  BASE,
  VendorNames,    \* the words that count wherever they stand
  GenericWords    \* the words that count as tokens only

ASSUME PolicyAssumption ==
  /\ Modulus \in Nat \ {0} /\ BASE \in Int
  /\ VendorNames \cup GenericWords \subseteq Seq(Int) \ {<<>>}

(* Code units.                                                             *)
LowerA == 1
LowerB == 2
UpperA == 3
Digit == 4
Percent == 5
Dot == 6
DottedUpper == 7     \* its lower case is two code units, as that of U+0130
NotANumber == 0      \* what charCodeAt returns outside the string

UnitAt(s, i) == IF i \in DOMAIN s THEN s[i] ELSE NotANumber

isLowerAsciiOrDigit(u) == u \in {LowerA, LowerB, Digit}
isUpperAscii(u) == u = UpperA
isAsciiLetterOrDigit(u) == isLowerAsciiOrDigit(u) \/ isUpperAscii(u)

LowerCase(u) ==
  CASE u = UpperA -> <<LowerA>>
    [] u = DottedUpper -> <<LowerA, Dot>>
    [] OTHER -> <<u>>
toLowerCase(s) == FlattenSeq([i \in DOMAIN s |-> LowerCase(s[i])])

(* A text is a sequence of characters as written: plainly, as an escape of *)
(* JSON or JavaScript, percent encoded, or as a percent sign that encodes  *)
(* nothing, which leaves every percent sign of the text as it is.          *)
Written == [how : {"plain"}, unit : {LowerA, LowerB, UpperA, Dot, DottedUpper}]
           \cup [how : {"escape", "percent"}, unit : {LowerA}]
           \cup [how : {"broken"}, unit : {Digit}]

decodeEscapes(text) ==
  LET decodable == \A i \in DOMAIN text : text[i].how # "broken"
      Decoded(c) ==
        IF c.how = "broken" \/ (c.how = "percent" /\ ~decodable)
        THEN <<Percent, Digit, Digit>> ELSE <<c.unit>>
  IN FlattenSeq([i \in DOMAIN text |-> Decoded(text[i])])

(* A token starts at a boundary or a capital, and ends at one.             *)
hasTokenBoundaries(value, start, length) ==
  LET end == start + length
      first == UnitAt(value, start)
      last == UnitAt(value, end - 1)
      before == UnitAt(value, start - 1)
      after == UnitAt(value, end)
  IN /\ \/ start = 1 \/ ~isAsciiLetterOrDigit(before)
        \/ isLowerAsciiOrDigit(before) /\ isUpperAscii(first)
     /\ \/ end = Len(value) + 1 \/ ~isAsciiLetterOrDigit(after)
        \/ isLowerAsciiOrDigit(last) /\ isUpperAscii(after)

(***************************************************************************)
(* Hashes.  Imul is Math.imul, Unsigned is >>> 0.                          *)
(***************************************************************************)
Unsigned(x) == x % Modulus
Imul(a, b) ==
  LET product == Unsigned(a * b)
  IN IF 2 * product < Modulus THEN product ELSE product - Modulus

\* The hash of the first n units of the window that starts at start.
PrefixHash(s, start) ==
  LET hash[n \in Nat] ==
        IF n = 0 THEN 0
        ELSE Unsigned(Imul(hash[n - 1], BASE) + UnitAt(s, start + n - 1))
  IN hash

polynomial(s, start, length) == PrefixHash(s, start)[length]

Hashes(words, length) ==
  {polynomial(w, 1, length) : w \in {v \in words : Len(v) = length}}
TargetLengths == {Len(w) : w \in VendorNames \cup GenericWords}
TARGETS == [n \in TargetLengths |-> Hashes(VendorNames \cup GenericWords, n)]
SUBSTRING_TARGETS == [n \in {Len(w) : w \in VendorNames} |-> Hashes(VendorNames, n)]

(* SUBSTRING_TARGETS.get(length)?.has(hash) ?? hasTokenBoundaries(..): the *)
(* boundaries are asked for only when no name has this length.             *)
Counts(decoded, hash, start, length) ==
  /\ hash \in TARGETS[length]
  /\ IF length \in DOMAIN SUBSTRING_TARGETS
     THEN hash \in SUBSTRING_TARGETS[length]
     ELSE hasTokenBoundaries(decoded, start, length)

(* What the units of a window count in its hash, from the last one back.   *)
power[n \in Nat] == IF n = 0 THEN 1 ELSE Unsigned(Imul(power[n - 1], BASE))

(* The hash after the window was moved by n units: the outgoing unit is    *)
(* taken out of it and the incoming one is added.                          *)
Rolling(s, length) ==
  LET hash[n \in Nat] ==
        IF n = 0 THEN polynomial(s, 1, length)
        ELSE Unsigned(Imul(Unsigned(hash[n - 1] - Imul(UnitAt(s, n), power[length - 1])),
                           BASE)
                      + UnitAt(s, n + length))
  IN hash

\* The scan of a text as it is decoded, and as it is put to lower case.
Scan(decoded, normalized) ==
  \E length \in {n \in TargetLengths : n <= Len(normalized)} :
    \E moved \in 0..(Len(normalized) - length) :
      Counts(decoded, Rolling(normalized, length)[moved], moved + 1, length)

containsProhibitedMarker(text) ==
  LET decoded == decodeEscapes(text)
  IN Scan(decoded, toLowerCase(decoded))

-------------------------------------------------------------------------------
(* What the scan is for: some window of the text has the hash of a word    *)
(* and counts as one.                                                      *)
SomeWindowCounts(decoded, normalized) ==
  \E length \in TargetLengths :
    \E start \in 1..(Len(normalized) - length + 1) :
      Counts(decoded, polynomial(normalized, start, length), start, length)

\* The word stands in the text at start.
StandsAt(w, s, start) ==
  /\ start \in 1..(Len(s) - Len(w) + 1)
  /\ \A i \in DOMAIN w : s[start + i - 1] = w[i]
===============================================================================
