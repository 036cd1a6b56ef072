--------------------------- MODULE MCBoundaryPolicy ---------------------------
(* Texts that are written one character after another.                     *)
EXTENDS BoundaryPolicy

MCVendorNames == {<<LowerA, LowerA>>}
MCGenericWords == {<<LowerA, LowerB>>, <<LowerA, LowerA, LowerB>>}

VARIABLE text

Longest == 4

Init == text = <<>>
Write == Len(text) < Longest /\ \E c \in Written : text' = Append(text, c)
Spec == Init /\ [][Write]_text

(* A word of the generic vocabulary that stands as a token is detected     *)
(* (boundary-policy.ts, "Generic upstream vocabulary is token-aware").     *)
TokensAreDetected ==
  LET decoded == decodeEscapes(text)
      SameWord(start, w) ==
        \A i \in DOMAIN w : LowerCase(decoded[start + i - 1]) = <<w[i]>>
  IN (\E w \in GenericWords : \E start \in 1..(Len(decoded) - Len(w) + 1) :
        /\ SameWord(start, w)
        /\ hasTokenBoundaries(decoded, start, Len(w))
        /\ DottedUpper \notin ToSet(decoded))
     => containsProhibitedMarker(text)
===============================================================================
