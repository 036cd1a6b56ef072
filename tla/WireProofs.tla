----------------------------- MODULE WireProofs -----------------------------
(***************************************************************************)
(* What the decoders of the SDK promise of every message a service may     *)
(* send, whatever its members are: what is handed on to the program has    *)
(* the form the contract publishes (ResultsConform) and agrees with itself *)
(* (ResultsCohere), and what has that form, is coherent and plain is       *)
(* handed on (ConformingResultsTaken).                                     *)
(*                                                                         *)
(* Values nest, and the matching of WireMatching goes into them one depth  *)
(* after the other.  A decoder conforms to a schema, Conforms_n(d, s), when *)
(* what it takes at depth n fits the schema once the names are minted: a   *)
(* leaf because its range is within that of the schema, an object because  *)
(* its members do at the depth below, and because its rule says what the   *)
(* rule of the schema says.  It takes a schema, Takes_n(d, s), when what   *)
(* fits the schema and is plain fits the decoder; if both, it agrees with  *)
(* it.  Where a decoder compares members, TakesIf_n says that it takes     *)
(* what it has nothing against.  From there the proofs go through the      *)
(* objects of domain.ts one by one, to the table of the operations.        *)
(*                                                                         *)
(* The requests go the other way: Sends_n(d, s) says that what a method    *)
(* takes for an argument of kind d, and is not left undefined, fits the    *)
(* schema s, and Carries8 that the members of an object do under the names *)
(* they are sent with; so what is accepted is sent as a body the contract  *)
(* has (AcceptedArgumentsAreSent).                                         *)
(*                                                                         *)
(* Then the text policy the decoders ask of every text, for every modulus, *)
(* base and word: the rolling hash finds what hashing each window would.   *)
(* At last the managers, which hold a decoded answer against the request.  *)
(*                                                                         *)
(* Induction is stated about sets and recursion about functions, because   *)
(* the provers cannot instantiate theorems about operators.                *)
(***************************************************************************)
EXTENDS WireExchange, BoundaryPolicy, EchoChecks, FiniteSetTheorems, FunctionTheorems,
        SequenceTheorems, TLAPS

----------------------------------------------------------------------------
(* Induction and recursion *)

LEMMA LessIsWellFounded ==
  IsWellFoundedOn({p \in Nat \X Nat : p[1] < p[2]}, Nat)
BY NatLessThanWellFounded, Zenon DEF OpToRel

\* A set that holds 0 and the successor of each of its numbers holds them all.
LEMMA Induction ==
  ASSUME NEW S, 0 \in S, \A n \in Nat : n \in S => n + 1 \in S
  PROVE  \A n \in Nat : n \in S
<1> DEFINE Less == {p \in Nat \X Nat : p[1] < p[2]}
           Rest == Nat \ S
<1>1. SUFFICES ASSUME Rest # {} PROVE FALSE
  OBVIOUS
<1>2. IsWellFoundedOn(Less, Nat) /\ Rest \subseteq Nat
  BY LessIsWellFounded
<1> HIDE DEF Less, Rest
<1>3. PICK least \in Rest : \A n \in Rest : <<n, least>> \notin Less
  BY <1>1, <1>2, WFMin
<1>4. least \in Nat /\ least # 0 /\ least \notin S
  BY <1>3 DEF Rest
<1>5. least - 1 \in Nat /\ <<least - 1, least>> \in Less
  BY <1>4 DEF Less
<1>6. least - 1 \in S
  BY <1>3, <1>5 DEF Rest
<1>7. QED
  BY <1>4, <1>5, <1>6

\* What the n-th step makes of a value, and a function that takes the steps.
Steps(S) == [Nat -> [S -> S]]
Follows(f, S, first, step) ==
  /\ f \in [Nat -> S]
  /\ f[0] = first
  /\ \A n \in Nat : f[n + 1] = step[n][f[n]]

\* A first value and the steps determine a function of the natural numbers.
LEMMA RecursionExists ==
  ASSUME NEW S, NEW first \in S, NEW step \in Steps(S)
  PROVE  \E f : Follows(f, S, first, step)
<1> USE DEF Steps
<1> DEFINE Prefix(g, n) ==
             /\ g \in [0..n -> S]
             /\ g[0] = first
             /\ \A i \in 0..(n - 1) : g[i + 1] = step[i][g[i]]
           Reached == {n \in Nat : \E g : Prefix(g, n)}
<1>1. \A n \in Nat : n \in Reached
  <2>1. 0 \in Reached
    <3>1. Prefix([i \in 0..0 |-> first], 0)
      OBVIOUS
    <3>2. QED
      BY <3>1
  <2>2. ASSUME NEW n \in Nat, n \in Reached PROVE n + 1 \in Reached
    <3>1. PICK g : Prefix(g, n)
      BY <2>2
    <3> DEFINE h == [i \in 0..(n + 1) |-> IF i = n + 1 THEN step[n][g[n]] ELSE g[i]]
    <3>2. step[n][g[n]] \in S
      BY <3>1
    <3>3. h \in [0..(n + 1) -> S] /\ h[0] = first
      BY <3>1, <3>2
    <3>4. \A i \in 0..(n + 1 - 1) : h[i + 1] = step[i][h[i]]
      BY <3>1
    <3> HIDE DEF h
    <3>5. Prefix(h, n + 1)
      BY <3>3, <3>4
    <3> HIDE DEF Prefix
    <3>6. QED
      BY <3>5
  <2> HIDE DEF Reached
  <2>3. QED
    BY <2>1, <2>2, Induction
<1>2. ASSUME NEW m \in Nat, NEW n \in Nat, m <= n,
             NEW g, NEW h, Prefix(g, m), Prefix(h, n)
      PROVE  \A i \in 0..m : g[i] = h[i]
  <2> DEFINE Agree == {i \in Nat : i <= m => g[i] = h[i]}
  <2>1. 0 \in Agree
    BY <1>2
  <2>2. ASSUME NEW i \in Nat, i \in Agree PROVE i + 1 \in Agree
    <3>1. i + 1 <= m => i \in 0..(m - 1) /\ i \in 0..(n - 1) /\ g[i] = h[i]
      BY <1>2, <2>2
    <3>2. QED
      BY <1>2, <3>1
  <2>3. \A i \in Nat : i \in Agree
    <3> HIDE DEF Agree
    <3> QED  BY <2>1, <2>2, Induction
  <2>4. QED
    BY <2>3
<1> DEFINE upTo(n) == CHOOSE g : Prefix(g, n)
           f == [n \in Nat |-> upTo(n)[n]]
<1>3. \A n \in Nat : Prefix(upTo(n), n)
  <2> HIDE DEF Prefix
  <2> QED  BY <1>1
<1> HIDE DEF upTo
<1>4. \A n \in Nat : f[n] \in S
  BY <1>3
<1>5. f[0] = first
  BY <1>3
<1>6. ASSUME NEW n \in Nat PROVE f[n + 1] = step[n][f[n]]
  <2>1. upTo(n + 1)[n + 1] = step[n][upTo(n + 1)[n]]
    BY <1>3
  <2>2. upTo(n)[n] = upTo(n + 1)[n]
    <3> HIDE DEF Prefix
    <3>1. n + 1 \in Nat /\ n <= n + 1 /\ n \in 0..n
      OBVIOUS
    <3>2. QED
      BY <1>2, <1>3, <3>1
  <2>3. QED
    BY <2>1, <2>2
<1>7. f \in [Nat -> S]
  BY <1>4
<1> HIDE DEF f
<1>8. QED
  BY <1>5, <1>6, <1>7 DEF Follows

----------------------------------------------------------------------------
(* Leaves, and what minting makes of them *)

\* A value without members, elements or a form: minting leaves it alone.
Bare(v) == ~Is("form", v) /\ ~Is("items", v) /\ ~Is("many", v) /\ ~Is("object", v)

\* The form and the brand of a text once it is minted.
MintedForm(form, brand) ==
  IF brand \in Brands /\ form = "open_cuna" THEN "open_runa" ELSE form
MintedBrand(form, brand) ==
  IF brand \notin Brands \/ form \in {"runtime", "open_runa", "open_cuna"} THEN brand
  ELSE IF form = "stream" THEN "cuna" ELSE "runa"

UnusualForms == {"leap", "marked", "open_blank"}

(* What fits the leaf d of a decoder fits the leaf s of the contract once  *)
(* it is minted, and what fits s fits d unless it is unusual.              *)
SameValues(d, s) ==
  /\ d.k = "const" /\ s.k = "const"
  /\ d.vals = s.vals /\ \A x \in d.vals : Bare(x)
SameRange(d, s) ==
  /\ d.k = "int" /\ s.k = "int"
  /\ d.lo = s.lo /\ d.hi = s.hi /\ (s.safe => d.safe)
SameLengths(d, s) ==
  d.k = "text" /\ s.k = "text" /\ d.lo = s.lo /\ d.hi = s.hi
SamePattern(d, s) ==
  /\ d.k = "pattern" /\ s.k = "pattern"
  /\ d.lo = s.lo /\ d.hi = s.hi
  /\ \A form \in d.forms, brand \in d.brands :
       /\ MintedForm(form, brand) \in s.forms
       /\ MintedBrand(form, brand) \in s.brands
  /\ s.forms \ UnusualForms \subseteq d.forms /\ s.brands \subseteq d.brands
SameKind(d, s) == d.k \in {"any", "number"} /\ s.k = d.k
Alike(d, s) ==
  \/ SameValues(d, s) \/ SameRange(d, s) \/ SameLengths(d, s)
  \/ SamePattern(d, s) \/ SameKind(d, s)

Leaves == {"const", "any", "number", "int", "text", "units", "pattern"}

\* A leaf means the same at every depth.
LEMMA LeafFits ==
  ASSUME NEW kind, NEW v, kind.k \in Leaves
  PROVE  /\ Fits1(kind, v) <=> FitsLeaf(kind, v)
         /\ Fits2(kind, v) <=> FitsLeaf(kind, v)
         /\ Fits3(kind, v) <=> FitsLeaf(kind, v)
         /\ Fits4(kind, v) <=> FitsLeaf(kind, v)
         /\ Fits5(kind, v) <=> FitsLeaf(kind, v)
         /\ Fits6(kind, v) <=> FitsLeaf(kind, v)
         /\ Fits7(kind, v) <=> FitsLeaf(kind, v)
         /\ Fits(kind, v) <=> FitsLeaf(kind, v)
<1>1. Fits1(kind, v) <=> FitsLeaf(kind, v)
  BY DEF Fits1, FitsBy, FitsAs, Leaves
<1>2. Fits2(kind, v) <=> FitsLeaf(kind, v)
  BY DEF Fits2, FitsBy, FitsAs, Leaves
<1>3. Fits3(kind, v) <=> FitsLeaf(kind, v)
  BY DEF Fits3, FitsBy, FitsAs, Leaves
<1>4. Fits4(kind, v) <=> FitsLeaf(kind, v)
  BY DEF Fits4, FitsBy, FitsAs, Leaves
<1>5. Fits5(kind, v) <=> FitsLeaf(kind, v)
  BY DEF Fits5, FitsBy, FitsAs, Leaves
<1>6. Fits6(kind, v) <=> FitsLeaf(kind, v)
  BY DEF Fits6, FitsBy, FitsAs, Leaves
<1>7. Fits7(kind, v) <=> FitsLeaf(kind, v)
  BY DEF Fits7, FitsBy, FitsAs, Leaves
<1>8. Fits(kind, v) <=> FitsLeaf(kind, v)
  BY DEF Fits, FitsBy, FitsAs, Leaves
<1>. QED
  BY <1>1, <1>2, <1>3, <1>4, <1>5, <1>6, <1>7, <1>8

MintedLeaf(v) == IF Is("form", v) THEN MintedText(v) ELSE v

LEMMA LeafMinted ==
  ASSUME NEW v, ~Is("items", v), ~Is("many", v), ~Is("object", v)
  PROVE  /\ Minted1(v) = MintedLeaf(v)
         /\ Minted2(v) = MintedLeaf(v)
         /\ Minted3(v) = MintedLeaf(v)
         /\ Minted4(v) = MintedLeaf(v)
         /\ Minted5(v) = MintedLeaf(v)
         /\ Minted6(v) = MintedLeaf(v)
         /\ Minted7(v) = MintedLeaf(v)
         /\ AsMinted(v) = MintedLeaf(v)
<1>1. Minted1(v) = MintedLeaf(v)
  BY DEF Minted1, MintedBy, MintedLeaf
<1>2. Minted2(v) = MintedLeaf(v)
  BY DEF Minted2, MintedBy, MintedLeaf
<1>3. Minted3(v) = MintedLeaf(v)
  BY DEF Minted3, MintedBy, MintedLeaf
<1>4. Minted4(v) = MintedLeaf(v)
  BY DEF Minted4, MintedBy, MintedLeaf
<1>5. Minted5(v) = MintedLeaf(v)
  BY DEF Minted5, MintedBy, MintedLeaf
<1>6. Minted6(v) = MintedLeaf(v)
  BY DEF Minted6, MintedBy, MintedLeaf
<1>7. Minted7(v) = MintedLeaf(v)
  BY DEF Minted7, MintedBy, MintedLeaf
<1>8. AsMinted(v) = MintedLeaf(v)
  BY DEF AsMinted, MintedBy, MintedLeaf
<1>. QED
  BY <1>1, <1>2, <1>3, <1>4, <1>5, <1>6, <1>7, <1>8

LEMMA TextMinted ==
  ASSUME NEW v, IsText(v)
  PROVE  /\ MintedLeaf(v) = Str(MintedForm(v.form, v.brand), v.len, v.no,
                               MintedBrand(v.form, v.brand))
         /\ IsText(MintedLeaf(v)) /\ MintedLeaf(v).len = v.len
         /\ ~Is("items", v) /\ ~Is("many", v) /\ ~Is("object", v)
<1>1. v = [form |-> v.form, len |-> v.len, no |-> v.no, brand |-> v.brand]
  BY DEF IsText, Str
<1>2. ~Is("items", v) /\ ~Is("many", v) /\ ~Is("object", v)
  BY <1>1 DEF Is
<1>3. \A x : [v EXCEPT !.brand = x] = Str(v.form, v.len, v.no, x)
  BY <1>1 DEF Str
<1>4. \A x : [v EXCEPT !.form = x] = Str(x, v.len, v.no, v.brand)
  BY <1>1 DEF Str
<1>5. MintedText(v) = Str(MintedForm(v.form, v.brand), v.len, v.no,
                          MintedBrand(v.form, v.brand))
  BY <1>3, <1>4 DEF MintedText, MintedForm, MintedBrand, IsText
<1>6. \A x, y : IsText(Str(x, v.len, v.no, y)) /\ Str(x, v.len, v.no, y).len = v.len
  BY DEF IsText, Str, Is
<1>. QED
  BY <1>2, <1>5, <1>6 DEF MintedLeaf, IsText

LEMMA StringMinted ==
  ASSUME NEW forms, NEW brands, NEW lo, NEW hi, NEW v \in Strings(forms, lo, hi, brands)
  PROVE  /\ IsText(v)
         /\ v.form \in forms /\ v.brand \in brands /\ v.len \in lo..hi /\ v.no \in Nat
BY DEF Strings, IsText, Str, Is

LEMMA AlikeMinted ==
  ASSUME NEW d, NEW s, NEW v, Alike(d, s), d.k # "any", FitsLeaf(d, v)
  PROVE  /\ FitsLeaf(s, MintedLeaf(v))
         /\ ~Is("items", v) /\ ~Is("many", v) /\ ~Is("object", v)
<1>1. CASE d.k = "const"
  BY <1>1 DEF FitsLeaf, Alike, SameValues, SameRange, SameLengths, SamePattern, SameKind,
     MintedLeaf, Bare
<1>2. CASE d.k = "number"
  <2>1. v \in [int : Int] \/ v = Wide \/ v = Fraction
    BY <1>2 DEF FitsLeaf
  <2>2. Bare(v)
    BY <2>1 DEF Bare, Is, Wide, Fraction
  <2>. QED
    BY <1>2, <2>1, <2>2 DEF FitsLeaf, Alike, SameValues, SameRange, SameLengths,
       SamePattern, SameKind, MintedLeaf, Bare
<1>3. CASE d.k = "int"
  <2>1. v \in [int : d.lo..d.hi] \/ v = Wide
    BY <1>3 DEF FitsLeaf
  <2>2. Bare(v)
    BY <2>1 DEF Bare, Is, Wide
  <2>3. v \in [int : d.lo..d.hi] => v \in [int : s.lo..s.hi]
    BY <1>3 DEF Alike, SameValues, SameRange, SameLengths, SamePattern, SameKind
  <2>. QED
    BY <1>3, <2>1, <2>2, <2>3 DEF FitsLeaf, Alike, SameValues, SameRange, SameLengths,
       SamePattern, SameKind, MintedLeaf, Bare
<1>4. CASE d.k = "text"
  <2>1. CASE IsWord(v)
    <3>1. Bare(v)
      BY <2>1 DEF Bare, Is, IsWord
    <3>. QED
      BY <1>4, <2>1, <3>1 DEF FitsLeaf, Alike, SameValues, SameRange, SameLengths,
         SamePattern, SameKind, MintedLeaf, Bare
  <2>2. CASE IsText(v) /\ v.len \in d.lo..d.hi
    <3>1. IsText(MintedLeaf(v)) /\ MintedLeaf(v).len \in s.lo..s.hi
      BY <1>4, <2>2, TextMinted DEF Alike, SameValues, SameRange, SameLengths, SamePattern,
         SameKind
    <3>. QED
      BY <1>4, <2>2, <3>1, TextMinted DEF FitsLeaf, Alike, SameValues, SameRange,
         SameLengths, SamePattern, SameKind
  <2>. QED
    BY <1>4, <2>1, <2>2 DEF FitsLeaf
<1>5. CASE d.k = "pattern"
  <2>1. v \in Strings(d.forms, d.lo, d.hi, d.brands)
    BY <1>5 DEF FitsLeaf
  <2>2. MintedLeaf(v) \in Strings(s.forms, s.lo, s.hi, s.brands)
    BY <1>5, <2>1, StringMinted, TextMinted DEF Strings, Str, Alike, SameValues, SameRange,
       SameLengths, SamePattern, SameKind
  <2>. QED
    BY <1>5, <2>1, <2>2, StringMinted, TextMinted DEF FitsLeaf, Alike, SameValues,
       SameRange, SameLengths, SamePattern, SameKind
<1>. QED
  BY <1>1, <1>2, <1>3, <1>4, <1>5 DEF Alike, SameValues, SameRange, SameLengths,
     SamePattern, SameKind

(* Nothing is made undefined by minting it.                                *)
LEMMA DefinedMinted ==
  ASSUME NEW v, ~Is("undefined", v)
  PROVE  /\ ~Is("undefined", Minted1(v)) /\ ~Is("undefined", Minted2(v))
         /\ ~Is("undefined", Minted3(v)) /\ ~Is("undefined", Minted4(v))
         /\ ~Is("undefined", Minted5(v)) /\ ~Is("undefined", Minted6(v))
         /\ ~Is("undefined", Minted7(v)) /\ ~Is("undefined", AsMinted(v))
<1>1. ~Is("undefined", MintedText(v))
  BY DEF Is, MintedText
<1>2. \A x : ~Is("undefined", Arr(x)) /\ ~Is("undefined", Obj(x))
  BY DEF Is, Arr, Obj
<1>3. \A x, y, z : ~Is("undefined", Many(x, y, z))
  BY DEF Is, Many
<1>4. ~Is("undefined", Minted1(v))
  BY <1>1, <1>2, <1>3 DEF MintedBy, Minted1
<1>5. ~Is("undefined", Minted2(v))
  BY <1>1, <1>2, <1>3 DEF MintedBy, Minted2
<1>6. ~Is("undefined", Minted3(v))
  BY <1>1, <1>2, <1>3 DEF MintedBy, Minted3
<1>7. ~Is("undefined", Minted4(v))
  BY <1>1, <1>2, <1>3 DEF MintedBy, Minted4
<1>8. ~Is("undefined", Minted5(v))
  BY <1>1, <1>2, <1>3 DEF MintedBy, Minted5
<1>9. ~Is("undefined", Minted6(v))
  BY <1>1, <1>2, <1>3 DEF MintedBy, Minted6
<1>10. ~Is("undefined", Minted7(v))
  BY <1>1, <1>2, <1>3 DEF MintedBy, Minted7
<1>11. ~Is("undefined", AsMinted(v))
  BY <1>1, <1>2, <1>3 DEF MintedBy, AsMinted
<1>. QED
  BY <1>4, <1>5, <1>6, <1>7, <1>8, <1>9, <1>10, <1>11

(* What fits d, a leaf or one of two, fits s once it is minted.            *)
Paired(d, s) ==
  \/ Alike(d, s)
  \/ /\ d.k = "either" /\ s.k = "either"
     /\ Alike(d.one, s.one) /\ Alike(d.other, s.other)

LEMMA EitherFits ==
  ASSUME NEW kind, NEW v, kind.k = "either", kind.one.k \in Leaves, kind.other.k \in Leaves
  PROVE  /\ Fits1(kind, v) <=> FitsLeaf(kind.one, v) \/ FitsLeaf(kind.other, v)
         /\ Fits2(kind, v) <=> FitsLeaf(kind.one, v) \/ FitsLeaf(kind.other, v)
         /\ Fits3(kind, v) <=> FitsLeaf(kind.one, v) \/ FitsLeaf(kind.other, v)
         /\ Fits4(kind, v) <=> FitsLeaf(kind.one, v) \/ FitsLeaf(kind.other, v)
         /\ Fits5(kind, v) <=> FitsLeaf(kind.one, v) \/ FitsLeaf(kind.other, v)
         /\ Fits6(kind, v) <=> FitsLeaf(kind.one, v) \/ FitsLeaf(kind.other, v)
         /\ Fits7(kind, v) <=> FitsLeaf(kind.one, v) \/ FitsLeaf(kind.other, v)
         /\ Fits(kind, v) <=> FitsLeaf(kind.one, v) \/ FitsLeaf(kind.other, v)
<1>1. ~FitsLeaf(kind, v)
  BY DEF FitsLeaf
<1>2. Fits1(kind, v) <=> FitsLeaf(kind.one, v) \/ FitsLeaf(kind.other, v)
  BY <1>1 DEF Fits1, FitsBy, FitsAs, Leaves
<1>3. Fits2(kind, v) <=> FitsLeaf(kind.one, v) \/ FitsLeaf(kind.other, v)
  BY <1>1 DEF Fits2, FitsBy, FitsAs, Leaves
<1>4. Fits3(kind, v) <=> FitsLeaf(kind.one, v) \/ FitsLeaf(kind.other, v)
  BY <1>1 DEF Fits3, FitsBy, FitsAs, Leaves
<1>5. Fits4(kind, v) <=> FitsLeaf(kind.one, v) \/ FitsLeaf(kind.other, v)
  BY <1>1 DEF Fits4, FitsBy, FitsAs, Leaves
<1>6. Fits5(kind, v) <=> FitsLeaf(kind.one, v) \/ FitsLeaf(kind.other, v)
  BY <1>1 DEF Fits5, FitsBy, FitsAs, Leaves
<1>7. Fits6(kind, v) <=> FitsLeaf(kind.one, v) \/ FitsLeaf(kind.other, v)
  BY <1>1 DEF Fits6, FitsBy, FitsAs, Leaves
<1>8. Fits7(kind, v) <=> FitsLeaf(kind.one, v) \/ FitsLeaf(kind.other, v)
  BY <1>1 DEF Fits7, FitsBy, FitsAs, Leaves
<1>9. Fits(kind, v) <=> FitsLeaf(kind.one, v) \/ FitsLeaf(kind.other, v)
  BY <1>1 DEF Fits, FitsBy, FitsAs, Leaves
<1>. QED
  BY <1>2, <1>3, <1>4, <1>5, <1>6, <1>7, <1>8, <1>9

LEMMA AlikeLeaves ==
  ASSUME NEW d, NEW s, Alike(d, s)
  PROVE  d.k \in Leaves /\ s.k \in Leaves
BY DEF Alike, SameValues, SameRange, SameLengths, SamePattern, SameKind, Leaves

LEMMA AlikeConforms ==
  ASSUME NEW d, NEW s, Alike(d, s), NEW v, FitsLeaf(d, v)
  PROVE  /\ FitsLeaf(s, Minted1(v))
         /\ FitsLeaf(s, Minted2(v))
         /\ FitsLeaf(s, Minted3(v))
         /\ FitsLeaf(s, Minted4(v))
         /\ FitsLeaf(s, Minted5(v))
         /\ FitsLeaf(s, Minted6(v))
         /\ FitsLeaf(s, Minted7(v))
         /\ FitsLeaf(s, AsMinted(v))
<1>1. CASE d.k = "any"
  <2>1. s.k = "any"
    BY <1>1 DEF Alike, SameValues, SameRange, SameLengths, SamePattern, SameKind
  <2>2. ~Is("undefined", v)
    BY <1>1 DEF FitsLeaf
  <2>. QED
    BY <2>1, <2>2, DefinedMinted DEF FitsLeaf
<1>2. CASE d.k # "any"
  BY <1>2, AlikeMinted, LeafMinted
<1>. QED
  BY <1>1, <1>2

(* What fits d fits s once it is minted, at each depth.                    *)
Conforms1(d, s) == \A v : Fits1(d, v) => Fits1(s, Minted1(v))
Conforms2(d, s) == \A v : Fits2(d, v) => Fits2(s, Minted2(v))
Conforms3(d, s) == \A v : Fits3(d, v) => Fits3(s, Minted3(v))
Conforms4(d, s) == \A v : Fits4(d, v) => Fits4(s, Minted4(v))
Conforms5(d, s) == \A v : Fits5(d, v) => Fits5(s, Minted5(v))
Conforms6(d, s) == \A v : Fits6(d, v) => Fits6(s, Minted6(v))
Conforms7(d, s) == \A v : Fits7(d, v) => Fits7(s, Minted7(v))
Conforms(d, s) == \A v : Fits(d, v) => Fits(s, AsMinted(v))

(* Nothing unusual in a value, at each depth; Plain of WireExchange.       *)
Plain1(v) == ~Holds1(Unusual, v)
Plain2(v) == ~Holds2(Unusual, v)
Plain3(v) == ~Holds3(Unusual, v)
Plain4(v) == ~Holds4(Unusual, v)
Plain5(v) == ~Holds5(Unusual, v)
Plain6(v) == ~Holds6(Unusual, v)
Plain7(v) == ~Holds7(Unusual, v)

(* What fits s and is plain fits d, at each depth.                         *)
Takes1(d, s) == \A v : Fits1(s, v) /\ Plain1(v) => Fits1(d, v)
Takes2(d, s) == \A v : Fits2(s, v) /\ Plain2(v) => Fits2(d, v)
Takes3(d, s) == \A v : Fits3(s, v) /\ Plain3(v) => Fits3(d, v)
Takes4(d, s) == \A v : Fits4(s, v) /\ Plain4(v) => Fits4(d, v)
Takes5(d, s) == \A v : Fits5(s, v) /\ Plain5(v) => Fits5(d, v)
Takes6(d, s) == \A v : Fits6(s, v) /\ Plain6(v) => Fits6(d, v)
Takes7(d, s) == \A v : Fits7(s, v) /\ Plain7(v) => Fits7(d, v)
Takes(d, s) == \A v : Fits(s, v) /\ Plain(v) => Fits(d, v)

(* The same of objects, when what the decoder compares is as it should be. *)
TakesIf2(d, s) ==
  \A v : Fits2(s, v) /\ Plain2(v) /\ Rule(d.rule, v.object) => Fits2(d, v)
TakesIf4(d, s) ==
  \A v : Fits4(s, v) /\ Plain4(v) /\ Rule(d.rule, v.object) => Fits4(d, v)
TakesIf5(d, s) ==
  \A v : Fits5(s, v) /\ Plain5(v) /\ Rule(d.rule, v.object) => Fits5(d, v)
TakesIf6(d, s) ==
  \A v : Fits6(s, v) /\ Plain6(v) /\ Rule(d.rule, v.object) => Fits6(d, v)
TakesIf7(d, s) ==
  \A v : Fits7(s, v) /\ Plain7(v) /\ Rule(d.rule, v.object) => Fits7(d, v)
TakesIf(d, s) ==
  \A v : Fits(s, v) /\ Plain(v) /\ Rule(d.rule, v.object) => Fits(d, v)

Agrees1(d, s) == Conforms1(d, s) /\ Takes1(d, s)
Agrees2(d, s) == Conforms2(d, s) /\ Takes2(d, s)
Agrees3(d, s) == Conforms3(d, s) /\ Takes3(d, s)
Agrees4(d, s) == Conforms4(d, s) /\ Takes4(d, s)
Agrees5(d, s) == Conforms5(d, s) /\ Takes5(d, s)
Agrees6(d, s) == Conforms6(d, s) /\ Takes6(d, s)
Agrees7(d, s) == Conforms7(d, s) /\ Takes7(d, s)
Agrees(d, s) == Conforms(d, s) /\ Takes(d, s)

LEMMA PlainHere ==
  ASSUME NEW v
  PROVE  /\ Plain1(v) => ~Unusual(v)
         /\ Plain2(v) => ~Unusual(v)
         /\ Plain3(v) => ~Unusual(v)
         /\ Plain4(v) => ~Unusual(v)
         /\ Plain5(v) => ~Unusual(v)
         /\ Plain6(v) => ~Unusual(v)
         /\ Plain7(v) => ~Unusual(v)
         /\ Plain(v) => ~Unusual(v)
<1>1. Plain1(v) => ~Unusual(v)
  BY DEF Plain1, Holds1
<1>2. Plain2(v) => ~Unusual(v)
  BY DEF Plain2, Holds2
<1>3. Plain3(v) => ~Unusual(v)
  BY DEF Plain3, Holds3
<1>4. Plain4(v) => ~Unusual(v)
  BY DEF Plain4, Holds4
<1>5. Plain5(v) => ~Unusual(v)
  BY DEF Plain5, Holds5
<1>6. Plain6(v) => ~Unusual(v)
  BY DEF Plain6, Holds6
<1>7. Plain7(v) => ~Unusual(v)
  BY DEF Plain7, Holds7
<1>8. Plain(v) => ~Unusual(v)
  BY DEF Plain, Holds
<1>. QED
  BY <1>1, <1>2, <1>3, <1>4, <1>5, <1>6, <1>7, <1>8

LEMMA PlainInside ==
  ASSUME NEW v, NEW x \in Contents(v)
  PROVE  /\ Plain2(v) => Plain1(x)
         /\ Plain3(v) => Plain2(x)
         /\ Plain4(v) => Plain3(x)
         /\ Plain5(v) => Plain4(x)
         /\ Plain6(v) => Plain5(x)
         /\ Plain7(v) => Plain6(x)
         /\ Plain(v) => Plain7(x)
<1>1. Plain2(v) => Plain1(x)
  BY DEF Plain2, Plain1, Holds2
<1>2. Plain3(v) => Plain2(x)
  BY DEF Plain3, Plain2, Holds3
<1>3. Plain4(v) => Plain3(x)
  BY DEF Plain4, Plain3, Holds4
<1>4. Plain5(v) => Plain4(x)
  BY DEF Plain5, Plain4, Holds5
<1>5. Plain6(v) => Plain5(x)
  BY DEF Plain6, Plain5, Holds6
<1>6. Plain7(v) => Plain6(x)
  BY DEF Plain7, Plain6, Holds7
<1>7. Plain(v) => Plain7(x)
  BY DEF Plain, Plain7, Holds
<1>. QED
  BY <1>1, <1>2, <1>3, <1>4, <1>5, <1>6, <1>7

LEMMA AlikeTakes ==
  ASSUME NEW d, NEW s, Alike(d, s), NEW v, FitsLeaf(s, v), ~Unusual(v)
  PROVE  FitsLeaf(d, v)
<1>1. CASE s.k = "const"
  BY <1>1 DEF FitsLeaf, Alike, SameValues, SameRange, SameLengths, SamePattern, SameKind
<1>2. CASE s.k \in {"any", "number"}
  BY <1>2 DEF FitsLeaf, Alike, SameValues, SameRange, SameLengths, SamePattern, SameKind
<1>3. CASE s.k = "int"
  <2>1. v # Wide
    BY DEF Unusual, Is, Wide
  <2>2. v \in [int : s.lo..s.hi] /\ d.k = "int" /\ d.lo = s.lo /\ d.hi = s.hi
    BY <1>3, <2>1 DEF FitsLeaf, Alike, SameValues, SameRange, SameLengths, SamePattern, SameKind
  <2>. QED
    BY <2>2 DEF FitsLeaf
<1>4. CASE s.k = "text"
  BY <1>4 DEF FitsLeaf, Alike, SameValues, SameRange, SameLengths, SamePattern, SameKind
<1>5. CASE s.k = "pattern"
  <2>1. v \in Strings(s.forms, s.lo, s.hi, s.brands)
    BY <1>5 DEF FitsLeaf
  <2>2. v.form \notin UnusualForms
    BY <2>1, StringMinted DEF Unusual, UnusualForms, IsText
  <2>3. d.k = "pattern" /\ SamePattern(d, s)
    BY <1>5 DEF Alike, SameValues, SameRange, SameLengths, SamePattern, SameKind
  <2>4. v \in Strings(d.forms, d.lo, d.hi, d.brands)
    BY <2>1, <2>2, <2>3 DEF Strings, SamePattern
  <2>. QED
    BY <2>3, <2>4 DEF FitsLeaf
<1>. QED
  BY <1>1, <1>2, <1>3, <1>4, <1>5
     DEF Alike, SameValues, SameRange, SameLengths, SamePattern, SameKind

LEMMA LeafConforms ==
  ASSUME NEW d, NEW s, Paired(d, s)
  PROVE  /\ Conforms1(d, s) /\ Conforms2(d, s)
         /\ Conforms3(d, s) /\ Conforms4(d, s)
         /\ Conforms5(d, s) /\ Conforms6(d, s)
         /\ Conforms7(d, s) /\ Conforms(d, s)
<1> SUFFICES ASSUME NEW v
             PROVE  /\ Fits1(d, v) => Fits1(s, Minted1(v))
                    /\ Fits2(d, v) => Fits2(s, Minted2(v))
                    /\ Fits3(d, v) => Fits3(s, Minted3(v))
                    /\ Fits4(d, v) => Fits4(s, Minted4(v))
                    /\ Fits5(d, v) => Fits5(s, Minted5(v))
                    /\ Fits6(d, v) => Fits6(s, Minted6(v))
                    /\ Fits7(d, v) => Fits7(s, Minted7(v))
                    /\ Fits(d, v) => Fits(s, AsMinted(v))
  BY DEF Conforms1, Conforms2, Conforms3, Conforms4, Conforms5, Conforms6, Conforms7, Conforms
<1>1. CASE Alike(d, s)
  BY <1>1, AlikeLeaves, AlikeConforms, LeafFits
<1>2. CASE /\ d.k = "either" /\ s.k = "either"
           /\ Alike(d.one, s.one) /\ Alike(d.other, s.other)
  <2>1. /\ d.one.k \in Leaves /\ d.other.k \in Leaves
        /\ s.one.k \in Leaves /\ s.other.k \in Leaves
    BY <1>2, AlikeLeaves
  <2>2. FitsLeaf(d.one, v) =>
          /\ FitsLeaf(s.one, Minted1(v))
          /\ FitsLeaf(s.one, Minted2(v))
          /\ FitsLeaf(s.one, Minted3(v))
          /\ FitsLeaf(s.one, Minted4(v))
          /\ FitsLeaf(s.one, Minted5(v))
          /\ FitsLeaf(s.one, Minted6(v))
          /\ FitsLeaf(s.one, Minted7(v))
          /\ FitsLeaf(s.one, AsMinted(v))
    BY <1>2, AlikeConforms
  <2>3. FitsLeaf(d.other, v) =>
          /\ FitsLeaf(s.other, Minted1(v))
          /\ FitsLeaf(s.other, Minted2(v))
          /\ FitsLeaf(s.other, Minted3(v))
          /\ FitsLeaf(s.other, Minted4(v))
          /\ FitsLeaf(s.other, Minted5(v))
          /\ FitsLeaf(s.other, Minted6(v))
          /\ FitsLeaf(s.other, Minted7(v))
          /\ FitsLeaf(s.other, AsMinted(v))
    BY <1>2, AlikeConforms
  <2>. QED
    BY <1>2, <2>1, <2>2, <2>3, EitherFits
<1>. QED
  BY <1>1, <1>2 DEF Paired

LEMMA LeafTakes ==
  ASSUME NEW d, NEW s, Paired(d, s)
  PROVE  /\ Takes1(d, s) /\ Takes2(d, s)
         /\ Takes3(d, s) /\ Takes4(d, s)
         /\ Takes5(d, s) /\ Takes6(d, s)
         /\ Takes7(d, s) /\ Takes(d, s)
<1> SUFFICES ASSUME NEW v
             PROVE  /\ Fits1(s, v) /\ Plain1(v) => Fits1(d, v)
                    /\ Fits2(s, v) /\ Plain2(v) => Fits2(d, v)
                    /\ Fits3(s, v) /\ Plain3(v) => Fits3(d, v)
                    /\ Fits4(s, v) /\ Plain4(v) => Fits4(d, v)
                    /\ Fits5(s, v) /\ Plain5(v) => Fits5(d, v)
                    /\ Fits6(s, v) /\ Plain6(v) => Fits6(d, v)
                    /\ Fits7(s, v) /\ Plain7(v) => Fits7(d, v)
                    /\ Fits(s, v) /\ Plain(v) => Fits(d, v)
  BY DEF Takes1, Takes2, Takes3, Takes4, Takes5, Takes6, Takes7, Takes
<1>1. CASE Alike(d, s)
  BY <1>1, AlikeLeaves, AlikeTakes, PlainHere, LeafFits
<1>2. CASE /\ d.k = "either" /\ s.k = "either"
           /\ Alike(d.one, s.one) /\ Alike(d.other, s.other)
  <2>1. /\ d.one.k \in Leaves /\ d.other.k \in Leaves
        /\ s.one.k \in Leaves /\ s.other.k \in Leaves
    BY <1>2, AlikeLeaves
  <2>2. /\ FitsLeaf(s.one, v) /\ ~Unusual(v) => FitsLeaf(d.one, v)
        /\ FitsLeaf(s.other, v) /\ ~Unusual(v) => FitsLeaf(d.other, v)
    BY <1>2, AlikeTakes
  <2>. QED
    BY <1>2, <2>1, <2>2, EitherFits, PlainHere
<1>. QED
  BY <1>1, <1>2 DEF Paired

LEMMA LeafAgrees ==
  ASSUME NEW d, NEW s, Paired(d, s)
  PROVE  /\ Agrees1(d, s) /\ Agrees2(d, s)
         /\ Agrees3(d, s) /\ Agrees4(d, s)
         /\ Agrees5(d, s) /\ Agrees6(d, s)
         /\ Agrees7(d, s) /\ Agrees(d, s)
BY LeafConforms, LeafTakes
   DEF Agrees1, Agrees2, Agrees3, Agrees4, Agrees5, Agrees6, Agrees7, Agrees

----------------------------------------------------------------------------
(* Objects and lists, depth by depth *)

(* An object of d has the members of s, and minting keeps every one.       *)
Closed(d, s) ==
  /\ d.k = "object" /\ s.k = "object" /\ ~d.open /\ ~s.open
  /\ DOMAIN d.req = DOMAIN s.req /\ DOMAIN d.opt = DOMAIN s.opt
  /\ "est_spend_usd" \notin DOMAIN d.req \cup DOMAIN d.opt
  /\ "agent_version" \notin DOMAIN d.req \cup DOMAIN d.opt

MembersBy(Inner(_), o) == [f \in DOMAIN o |-> Inner(o[f])]

LEMMA ObjectFits ==
  ASSUME NEW kind, kind.k = "object", NEW v
  PROVE  /\ Fits(kind, v) <=> FitsObject(Fits7, kind, v)
         /\ Fits7(kind, v) <=> FitsObject(Fits6, kind, v)
         /\ Fits6(kind, v) <=> FitsObject(Fits5, kind, v)
         /\ Fits5(kind, v) <=> FitsObject(Fits4, kind, v)
         /\ Fits4(kind, v) <=> FitsObject(Fits3, kind, v)
         /\ Fits2(kind, v) <=> FitsObject(Fits1, kind, v)
<1>1. ~FitsLeaf(kind, v)
  BY DEF FitsLeaf
<1>2. Fits(kind, v) <=> FitsObject(Fits7, kind, v)
  BY <1>1 DEF Fits, FitsBy, FitsAs
<1>3. Fits7(kind, v) <=> FitsObject(Fits6, kind, v)
  BY <1>1 DEF Fits7, FitsBy, FitsAs
<1>4. Fits6(kind, v) <=> FitsObject(Fits5, kind, v)
  BY <1>1 DEF Fits6, FitsBy, FitsAs
<1>5. Fits5(kind, v) <=> FitsObject(Fits4, kind, v)
  BY <1>1 DEF Fits5, FitsBy, FitsAs
<1>6. Fits4(kind, v) <=> FitsObject(Fits3, kind, v)
  BY <1>1 DEF Fits4, FitsBy, FitsAs
<1>7. Fits2(kind, v) <=> FitsObject(Fits1, kind, v)
  BY <1>1 DEF Fits2, FitsBy, FitsAs
<1>. QED
  BY <1>2, <1>3, <1>4, <1>5, <1>6, <1>7

LEMMA ObjectMinted ==
  ASSUME NEW v, IsObject(v),
         "est_spend_usd" \notin DOMAIN v.object, "agent_version" \notin DOMAIN v.object
  PROVE  /\ AsMinted(v) = Obj(MembersBy(Minted7, v.object))
         /\ Minted7(v) = Obj(MembersBy(Minted6, v.object))
         /\ Minted6(v) = Obj(MembersBy(Minted5, v.object))
         /\ Minted5(v) = Obj(MembersBy(Minted4, v.object))
         /\ Minted4(v) = Obj(MembersBy(Minted3, v.object))
         /\ Minted2(v) = Obj(MembersBy(Minted1, v.object))
<1>1. /\ ~Is("form", v) /\ ~Is("items", v) /\ ~Is("many", v) /\ Is("object", v)
  BY DEF IsObject, Is
<1>2. AsMinted(v) = Obj(MembersBy(Minted7, v.object))
  BY <1>1 DEF AsMinted, MintedBy, MintedMembers, MembersBy
<1>3. Minted7(v) = Obj(MembersBy(Minted6, v.object))
  BY <1>1 DEF Minted7, MintedBy, MintedMembers, MembersBy
<1>4. Minted6(v) = Obj(MembersBy(Minted5, v.object))
  BY <1>1 DEF Minted6, MintedBy, MintedMembers, MembersBy
<1>5. Minted5(v) = Obj(MembersBy(Minted4, v.object))
  BY <1>1 DEF Minted5, MintedBy, MintedMembers, MembersBy
<1>6. Minted4(v) = Obj(MembersBy(Minted3, v.object))
  BY <1>1 DEF Minted4, MintedBy, MintedMembers, MembersBy
<1>7. Minted2(v) = Obj(MembersBy(Minted1, v.object))
  BY <1>1 DEF Minted2, MintedBy, MintedMembers, MembersBy
<1>. QED
  BY <1>2, <1>3, <1>4, <1>5, <1>6, <1>7

LEMMA ClosedMembers ==
  ASSUME NEW d, NEW s, Closed(d, s), NEW v, IsObject(v), Exact(d, v.object), NEW o,
         DOMAIN o = DOMAIN v.object
  PROVE  /\ "est_spend_usd" \notin DOMAIN v.object /\ "agent_version" \notin DOMAIN v.object
         /\ Exact(s, o) /\ IsObject(Obj(o)) /\ Obj(o).object = o
BY DEF Closed, Exact, IsObject, Obj

LEMMA Given8 ==
  ASSUME NEW d, NEW s, Closed(d, s), NEW v, Fits(d, v),
         \A x \in DOMAIN d.req : Fits7(s.req[x], Minted7(v.object[x])),
         \A x \in DOMAIN d.opt \cap DOMAIN v.object : Fits7(s.opt[x], Minted7(v.object[x])),
         Rule(s.rule, MembersBy(Minted7, v.object))
  PROVE  Fits(s, AsMinted(v))
<1>1. FitsObject(Fits7, d, v)
  BY ObjectFits DEF Closed
<1>2. IsObject(v) /\ Exact(d, v.object)
  BY <1>1 DEF FitsObject
<1> DEFINE o == MembersBy(Minted7, v.object)
<1>3. DOMAIN o = DOMAIN v.object /\ \A x \in DOMAIN o : o[x] = Minted7(v.object[x])
  BY DEF MembersBy
<1>4. Rule(s.rule, o)
  OBVIOUS
<1>5. AsMinted(v) = Obj(o)
  BY <1>2, ClosedMembers, ObjectMinted
<1> HIDE DEF o
<1>6. Exact(s, o) /\ IsObject(Obj(o)) /\ Obj(o).object = o
  BY <1>2, <1>3, ClosedMembers
<1>7. FitsObject(Fits7, s, Obj(o))
  BY <1>2, <1>3, <1>4, <1>6 DEF FitsObject, Exact, Closed
<1>. QED
  BY <1>5, <1>7, ObjectFits DEF Closed

LEMMA Object8 ==
  ASSUME NEW d, NEW s, Closed(d, s),
         \A x \in DOMAIN d.req : Conforms7(d.req[x], s.req[x]),
         \A x \in DOMAIN d.opt : Conforms7(d.opt[x], s.opt[x]),
         \A v : Fits(d, v) => Rule(s.rule, MembersBy(Minted7, v.object))
  PROVE  Conforms(d, s)
<1> SUFFICES ASSUME NEW v, Fits(d, v) PROVE Fits(s, AsMinted(v))
  BY DEF Conforms
<1>1. FitsObject(Fits7, d, v)
  BY ObjectFits DEF Closed
<1>. QED
  BY <1>1, Given8 DEF FitsObject, Conforms7

LEMMA Given7 ==
  ASSUME NEW d, NEW s, Closed(d, s), NEW v, Fits7(d, v),
         \A x \in DOMAIN d.req : Fits6(s.req[x], Minted6(v.object[x])),
         \A x \in DOMAIN d.opt \cap DOMAIN v.object : Fits6(s.opt[x], Minted6(v.object[x])),
         Rule(s.rule, MembersBy(Minted6, v.object))
  PROVE  Fits7(s, Minted7(v))
<1>1. FitsObject(Fits6, d, v)
  BY ObjectFits DEF Closed
<1>2. IsObject(v) /\ Exact(d, v.object)
  BY <1>1 DEF FitsObject
<1> DEFINE o == MembersBy(Minted6, v.object)
<1>3. DOMAIN o = DOMAIN v.object /\ \A x \in DOMAIN o : o[x] = Minted6(v.object[x])
  BY DEF MembersBy
<1>4. Rule(s.rule, o)
  OBVIOUS
<1>5. Minted7(v) = Obj(o)
  BY <1>2, ClosedMembers, ObjectMinted
<1> HIDE DEF o
<1>6. Exact(s, o) /\ IsObject(Obj(o)) /\ Obj(o).object = o
  BY <1>2, <1>3, ClosedMembers
<1>7. FitsObject(Fits6, s, Obj(o))
  BY <1>2, <1>3, <1>4, <1>6 DEF FitsObject, Exact, Closed
<1>. QED
  BY <1>5, <1>7, ObjectFits DEF Closed

LEMMA Object7 ==
  ASSUME NEW d, NEW s, Closed(d, s),
         \A x \in DOMAIN d.req : Conforms6(d.req[x], s.req[x]),
         \A x \in DOMAIN d.opt : Conforms6(d.opt[x], s.opt[x]),
         \A v : Fits7(d, v) => Rule(s.rule, MembersBy(Minted6, v.object))
  PROVE  Conforms7(d, s)
<1> SUFFICES ASSUME NEW v, Fits7(d, v) PROVE Fits7(s, Minted7(v))
  BY DEF Conforms7
<1>1. FitsObject(Fits6, d, v)
  BY ObjectFits DEF Closed
<1>. QED
  BY <1>1, Given7 DEF FitsObject, Conforms6

LEMMA Object6 ==
  ASSUME NEW d, NEW s, Closed(d, s),
         \A f \in DOMAIN d.req : Conforms5(d.req[f], s.req[f]),
         \A f \in DOMAIN d.opt : Conforms5(d.opt[f], s.opt[f]),
         \A v : Fits6(d, v) => Rule(s.rule, MembersBy(Minted5, v.object))
  PROVE  Conforms6(d, s)
<1> SUFFICES ASSUME NEW v, Fits6(d, v) PROVE Fits6(s, Minted6(v))
  BY DEF Conforms6
<1>1. FitsObject(Fits5, d, v)
  BY ObjectFits DEF Closed
<1>2. IsObject(v) /\ Exact(d, v.object)
  BY <1>1 DEF FitsObject
<1> DEFINE o == MembersBy(Minted5, v.object)
<1>3. DOMAIN o = DOMAIN v.object /\ \A f \in DOMAIN o : o[f] = Minted5(v.object[f])
  BY DEF MembersBy
<1>4. Rule(s.rule, o)
  OBVIOUS
<1>5. Minted6(v) = Obj(o)
  BY <1>2, ClosedMembers, ObjectMinted
<1> HIDE DEF o
<1>6. Exact(s, o) /\ IsObject(Obj(o)) /\ Obj(o).object = o
  BY <1>2, <1>3, ClosedMembers
<1>7. FitsObject(Fits5, s, Obj(o))
  BY <1>1, <1>2, <1>3, <1>4, <1>6 DEF FitsObject, Exact, Closed, Conforms5
<1>. QED
  BY <1>5, <1>7, ObjectFits DEF Closed

LEMMA Object5 ==
  ASSUME NEW d, NEW s, Closed(d, s),
         \A f \in DOMAIN d.req : Conforms4(d.req[f], s.req[f]),
         \A f \in DOMAIN d.opt : Conforms4(d.opt[f], s.opt[f]),
         \A v : Fits5(d, v) => Rule(s.rule, MembersBy(Minted4, v.object))
  PROVE  Conforms5(d, s)
<1> SUFFICES ASSUME NEW v, Fits5(d, v) PROVE Fits5(s, Minted5(v))
  BY DEF Conforms5
<1>1. FitsObject(Fits4, d, v)
  BY ObjectFits DEF Closed
<1>2. IsObject(v) /\ Exact(d, v.object)
  BY <1>1 DEF FitsObject
<1> DEFINE o == MembersBy(Minted4, v.object)
<1>3. DOMAIN o = DOMAIN v.object /\ \A f \in DOMAIN o : o[f] = Minted4(v.object[f])
  BY DEF MembersBy
<1>4. Rule(s.rule, o)
  OBVIOUS
<1>5. Minted5(v) = Obj(o)
  BY <1>2, ClosedMembers, ObjectMinted
<1> HIDE DEF o
<1>6. Exact(s, o) /\ IsObject(Obj(o)) /\ Obj(o).object = o
  BY <1>2, <1>3, ClosedMembers
<1>7. FitsObject(Fits4, s, Obj(o))
  BY <1>1, <1>2, <1>3, <1>4, <1>6 DEF FitsObject, Exact, Closed, Conforms4
<1>. QED
  BY <1>5, <1>7, ObjectFits DEF Closed

LEMMA Object4 ==
  ASSUME NEW d, NEW s, Closed(d, s),
         \A f \in DOMAIN d.req : Conforms3(d.req[f], s.req[f]),
         \A f \in DOMAIN d.opt : Conforms3(d.opt[f], s.opt[f]),
         \A v : Fits4(d, v) => Rule(s.rule, MembersBy(Minted3, v.object))
  PROVE  Conforms4(d, s)
<1> SUFFICES ASSUME NEW v, Fits4(d, v) PROVE Fits4(s, Minted4(v))
  BY DEF Conforms4
<1>1. FitsObject(Fits3, d, v)
  BY ObjectFits DEF Closed
<1>2. IsObject(v) /\ Exact(d, v.object)
  BY <1>1 DEF FitsObject
<1> DEFINE o == MembersBy(Minted3, v.object)
<1>3. DOMAIN o = DOMAIN v.object /\ \A f \in DOMAIN o : o[f] = Minted3(v.object[f])
  BY DEF MembersBy
<1>4. Rule(s.rule, o)
  OBVIOUS
<1>5. Minted4(v) = Obj(o)
  BY <1>2, ClosedMembers, ObjectMinted
<1> HIDE DEF o
<1>6. Exact(s, o) /\ IsObject(Obj(o)) /\ Obj(o).object = o
  BY <1>2, <1>3, ClosedMembers
<1>7. FitsObject(Fits3, s, Obj(o))
  BY <1>1, <1>2, <1>3, <1>4, <1>6 DEF FitsObject, Exact, Closed, Conforms3
<1>. QED
  BY <1>5, <1>7, ObjectFits DEF Closed

LEMMA Object2 ==
  ASSUME NEW d, NEW s, Closed(d, s),
         \A f \in DOMAIN d.req : Conforms1(d.req[f], s.req[f]),
         \A f \in DOMAIN d.opt : Conforms1(d.opt[f], s.opt[f]),
         \A v : Fits2(d, v) => Rule(s.rule, MembersBy(Minted1, v.object))
  PROVE  Conforms2(d, s)
<1> SUFFICES ASSUME NEW v, Fits2(d, v) PROVE Fits2(s, Minted2(v))
  BY DEF Conforms2
<1>1. FitsObject(Fits1, d, v)
  BY ObjectFits DEF Closed
<1>2. IsObject(v) /\ Exact(d, v.object)
  BY <1>1 DEF FitsObject
<1> DEFINE o == MembersBy(Minted1, v.object)
<1>3. DOMAIN o = DOMAIN v.object /\ \A f \in DOMAIN o : o[f] = Minted1(v.object[f])
  BY DEF MembersBy
<1>4. Rule(s.rule, o)
  OBVIOUS
<1>5. Minted2(v) = Obj(o)
  BY <1>2, ClosedMembers, ObjectMinted
<1> HIDE DEF o
<1>6. Exact(s, o) /\ IsObject(Obj(o)) /\ Obj(o).object = o
  BY <1>2, <1>3, ClosedMembers
<1>7. FitsObject(Fits1, s, Obj(o))
  BY <1>1, <1>2, <1>3, <1>4, <1>6 DEF FitsObject, Exact, Closed, Conforms1
<1>. QED
  BY <1>5, <1>7, ObjectFits DEF Closed

LEMMA PlainMembers ==
  ASSUME NEW v, IsObject(v), NEW f \in DOMAIN v.object
  PROVE  /\ Plain(v) => Plain7(v.object[f])
         /\ Plain7(v) => Plain6(v.object[f])
         /\ Plain6(v) => Plain5(v.object[f])
         /\ Plain5(v) => Plain4(v.object[f])
         /\ Plain4(v) => Plain3(v.object[f])
         /\ Plain2(v) => Plain1(v.object[f])
<1>1. v.object[f] \in Contents(v)
  BY DEF Contents, IsObject, IsList, Is
<1>. QED
  BY <1>1, PlainInside

LEMMA Taken8 ==
  ASSUME NEW d, NEW s, Closed(d, s),
         \A x \in DOMAIN d.req : Takes7(d.req[x], s.req[x]),
         \A x \in DOMAIN d.opt : Takes7(d.opt[x], s.opt[x])
  PROVE  TakesIf(d, s)
<1> SUFFICES ASSUME NEW v, Fits(s, v), Plain(v), Rule(d.rule, v.object) PROVE Fits(d, v)
  BY DEF TakesIf
<1>1. FitsObject(Fits7, s, v)
  BY ObjectFits DEF Closed
<1>2. \A x \in DOMAIN v.object : Plain7(v.object[x])
  BY <1>1, PlainMembers DEF FitsObject
<1>3. FitsObject(Fits7, d, v)
  BY <1>1, <1>2 DEF FitsObject, Exact, Closed, Takes7
<1>. QED
  BY <1>3, ObjectFits DEF Closed

LEMMA Taken7 ==
  ASSUME NEW d, NEW s, Closed(d, s),
         \A x \in DOMAIN d.req : Takes6(d.req[x], s.req[x]),
         \A x \in DOMAIN d.opt : Takes6(d.opt[x], s.opt[x])
  PROVE  TakesIf7(d, s)
<1> SUFFICES ASSUME NEW v, Fits7(s, v), Plain7(v), Rule(d.rule, v.object) PROVE Fits7(d, v)
  BY DEF TakesIf7
<1>1. FitsObject(Fits6, s, v)
  BY ObjectFits DEF Closed
<1>2. \A x \in DOMAIN v.object : Plain6(v.object[x])
  BY <1>1, PlainMembers DEF FitsObject
<1>3. FitsObject(Fits6, d, v)
  BY <1>1, <1>2 DEF FitsObject, Exact, Closed, Takes6
<1>. QED
  BY <1>3, ObjectFits DEF Closed

LEMMA Taken6 ==
  ASSUME NEW d, NEW s, Closed(d, s),
         \A x \in DOMAIN d.req : Takes5(d.req[x], s.req[x]),
         \A x \in DOMAIN d.opt : Takes5(d.opt[x], s.opt[x])
  PROVE  TakesIf6(d, s)
<1> SUFFICES ASSUME NEW v, Fits6(s, v), Plain6(v), Rule(d.rule, v.object) PROVE Fits6(d, v)
  BY DEF TakesIf6
<1>1. FitsObject(Fits5, s, v)
  BY ObjectFits DEF Closed
<1>2. \A x \in DOMAIN v.object : Plain5(v.object[x])
  BY <1>1, PlainMembers DEF FitsObject
<1>3. FitsObject(Fits5, d, v)
  BY <1>1, <1>2 DEF FitsObject, Exact, Closed, Takes5
<1>. QED
  BY <1>3, ObjectFits DEF Closed

LEMMA Taken5 ==
  ASSUME NEW d, NEW s, Closed(d, s),
         \A x \in DOMAIN d.req : Takes4(d.req[x], s.req[x]),
         \A x \in DOMAIN d.opt : Takes4(d.opt[x], s.opt[x])
  PROVE  TakesIf5(d, s)
<1> SUFFICES ASSUME NEW v, Fits5(s, v), Plain5(v), Rule(d.rule, v.object) PROVE Fits5(d, v)
  BY DEF TakesIf5
<1>1. FitsObject(Fits4, s, v)
  BY ObjectFits DEF Closed
<1>2. \A x \in DOMAIN v.object : Plain4(v.object[x])
  BY <1>1, PlainMembers DEF FitsObject
<1>3. FitsObject(Fits4, d, v)
  BY <1>1, <1>2 DEF FitsObject, Exact, Closed, Takes4
<1>. QED
  BY <1>3, ObjectFits DEF Closed

LEMMA Taken4 ==
  ASSUME NEW d, NEW s, Closed(d, s),
         \A x \in DOMAIN d.req : Takes3(d.req[x], s.req[x]),
         \A x \in DOMAIN d.opt : Takes3(d.opt[x], s.opt[x])
  PROVE  TakesIf4(d, s)
<1> SUFFICES ASSUME NEW v, Fits4(s, v), Plain4(v), Rule(d.rule, v.object) PROVE Fits4(d, v)
  BY DEF TakesIf4
<1>1. FitsObject(Fits3, s, v)
  BY ObjectFits DEF Closed
<1>2. \A x \in DOMAIN v.object : Plain3(v.object[x])
  BY <1>1, PlainMembers DEF FitsObject
<1>3. FitsObject(Fits3, d, v)
  BY <1>1, <1>2 DEF FitsObject, Exact, Closed, Takes3
<1>. QED
  BY <1>3, ObjectFits DEF Closed

LEMMA Taken2 ==
  ASSUME NEW d, NEW s, Closed(d, s),
         \A x \in DOMAIN d.req : Takes1(d.req[x], s.req[x]),
         \A x \in DOMAIN d.opt : Takes1(d.opt[x], s.opt[x])
  PROVE  TakesIf2(d, s)
<1> SUFFICES ASSUME NEW v, Fits2(s, v), Plain2(v), Rule(d.rule, v.object) PROVE Fits2(d, v)
  BY DEF TakesIf2
<1>1. FitsObject(Fits1, s, v)
  BY ObjectFits DEF Closed
<1>2. \A x \in DOMAIN v.object : Plain1(v.object[x])
  BY <1>1, PlainMembers DEF FitsObject
<1>3. FitsObject(Fits1, d, v)
  BY <1>1, <1>2 DEF FitsObject, Exact, Closed, Takes1
<1>. QED
  BY <1>3, ObjectFits DEF Closed

\* Without a rule there is nothing to compare.
LEMMA NothingCompared ==
  ASSUME NEW d, NEW s, d.rule = "none"
  PROVE  /\ TakesIf(d, s) => Takes(d, s)
         /\ TakesIf7(d, s) => Takes7(d, s)
         /\ TakesIf6(d, s) => Takes6(d, s)
         /\ TakesIf5(d, s) => Takes5(d, s)
         /\ TakesIf4(d, s) => Takes4(d, s)
         /\ TakesIf2(d, s) => Takes2(d, s)
<1>1. \A v : Rule(d.rule, v.object)
  BY DEF Rule
<1>. QED
  BY <1>1 DEF TakesIf, Takes, TakesIf7, Takes7, TakesIf6, Takes6, TakesIf5, Takes5,
              TakesIf4, Takes4, TakesIf2, Takes2


(* A list of d is as long as one of s may be.                              *)
Listed(d, s) ==
  /\ d.k = "list" /\ s.k = "list"
  /\ d.lo..d.hi \subseteq s.lo..s.hi
  /\ s.unique => d.unique

LEMMA MappedSequence ==
  ASSUME NEW S, NEW s \in Seq(S), NEW t, DOMAIN t = DOMAIN s, t = [i \in DOMAIN t |-> t[i]]
  PROVE  Len(t) = Len(s) /\ t \in Seq({t[i] : i \in DOMAIN t})
<1>1. Len(s) \in Nat /\ DOMAIN t = 1..Len(s)
  BY LenProperties
<1>2. t \in [1..Len(s) -> {t[i] : i \in DOMAIN t}]
  BY <1>1
<1>. QED
  BY <1>1, <1>2, SeqDef, LenProperties

LEMMA ListFits ==
  ASSUME NEW kind, kind.k = "list", NEW v
  PROVE  /\ Fits(kind, v) <=> FitsList(Fits7, kind, v)
         /\ Fits7(kind, v) <=> FitsList(Fits6, kind, v)
         /\ Fits6(kind, v) <=> FitsList(Fits5, kind, v)
         /\ Fits5(kind, v) <=> FitsList(Fits4, kind, v)
         /\ Fits3(kind, v) <=> FitsList(Fits2, kind, v)
<1>1. ~FitsLeaf(kind, v)
  BY DEF FitsLeaf
<1>2. Fits(kind, v) <=> FitsList(Fits7, kind, v)
  BY <1>1 DEF Fits, FitsBy, FitsAs
<1>3. Fits7(kind, v) <=> FitsList(Fits6, kind, v)
  BY <1>1 DEF Fits7, FitsBy, FitsAs
<1>4. Fits6(kind, v) <=> FitsList(Fits5, kind, v)
  BY <1>1 DEF Fits6, FitsBy, FitsAs
<1>5. Fits5(kind, v) <=> FitsList(Fits4, kind, v)
  BY <1>1 DEF Fits5, FitsBy, FitsAs
<1>6. Fits3(kind, v) <=> FitsList(Fits2, kind, v)
  BY <1>1 DEF Fits3, FitsBy, FitsAs
<1>. QED
  BY <1>2, <1>3, <1>4, <1>5, <1>6

ElementsBy(Inner(_), v) ==
  IF Is("items", v) THEN Arr([i \in DOMAIN v.items |-> Inner(v.items[i])])
  ELSE Many(Inner(v.many), v.len, v.distinct)

LEMMA ListMinted ==
  ASSUME NEW v, IsList(v)
  PROVE  /\ AsMinted(v) = ElementsBy(Minted7, v)
         /\ Minted7(v) = ElementsBy(Minted6, v)
         /\ Minted6(v) = ElementsBy(Minted5, v)
         /\ Minted5(v) = ElementsBy(Minted4, v)
         /\ Minted3(v) = ElementsBy(Minted2, v)
<1>1. ~Is("form", v) /\ (Is("items", v) \/ Is("many", v))
  BY DEF IsList, Is
<1>2. AsMinted(v) = ElementsBy(Minted7, v)
  BY <1>1 DEF AsMinted, MintedBy, ElementsBy
<1>3. Minted7(v) = ElementsBy(Minted6, v)
  BY <1>1 DEF Minted7, MintedBy, ElementsBy
<1>4. Minted6(v) = ElementsBy(Minted5, v)
  BY <1>1 DEF Minted6, MintedBy, ElementsBy
<1>5. Minted5(v) = ElementsBy(Minted4, v)
  BY <1>1 DEF Minted5, MintedBy, ElementsBy
<1>6. Minted3(v) = ElementsBy(Minted2, v)
  BY <1>1 DEF Minted3, MintedBy, ElementsBy
<1>. QED
  BY <1>2, <1>3, <1>4, <1>5, <1>6

LEMMA List8 ==
  ASSUME NEW d, NEW s, Listed(d, s), Conforms7(d.of, s.of),
         s.unique => \A x : Fits7(d.of, x) => Minted7(x) = x
  PROVE  Conforms(d, s)
<1> SUFFICES ASSUME NEW v, Fits(d, v) PROVE Fits(s, AsMinted(v))
  BY DEF Conforms
<1>0. \A x : Fits7(d.of, x) => Fits7(s.of, Minted7(x))
  BY DEF Conforms7
<1>1. FitsList(Fits7, d, v)
  BY ListFits DEF Listed
<1> DEFINE w == ElementsBy(Minted7, v)
<1>2. AsMinted(v) = w
  BY <1>1, ListMinted DEF FitsList
<1> HIDE DEF w
<1>3. ASSUME Is("items", v) PROVE FitsList(Fits7, s, w)
  <2> DEFINE t == [i \in DOMAIN v.items |-> Minted7(v.items[i])]
  <2>0. w = Arr(t) /\ v.items \in Seq(Elements(v))
    BY <1>1, <1>3 DEF w, ElementsBy, FitsList, IsList, Is
  <2>1. /\ IsList(w) /\ Is("items", w) /\ DOMAIN w.items = DOMAIN v.items
        /\ Len(w.items) = Len(v.items)
        /\ \A i \in DOMAIN v.items : w.items[i] = Minted7(v.items[i])
    <3>1. Len(t) = Len(v.items) /\ t \in Seq({t[i] : i \in DOMAIN t})
      BY <2>0, MappedSequence
    <3>2. Is("items", w) /\ DOMAIN w = {"items"} /\ w.items = t
      BY <2>0 DEF Arr, Is
    <3> HIDE DEF t
    <3>3. IsList(w)
      BY <3>1, <3>2 DEF IsList, Elements
    <3>. QED
      BY <3>1, <3>2, <3>3 DEF t
  <2>2. \A i \in DOMAIN v.items : Fits7(d.of, v.items[i])
    BY <1>1, <1>3 DEF FitsList, Elements
  <2>3. Length(w) = Length(v) /\ \A e \in Elements(w) : Fits7(s.of, e)
    BY <1>0, <1>3, <2>1, <2>2 DEF Length, Elements
  <2>4. s.unique => \A i \in DOMAIN v.items : w.items[i] = v.items[i]
    BY <2>1, <2>2
  <2>. s.unique => Elements(w) = Elements(v)
    BY <1>3, <2>1, <2>4 DEF Elements
  <2>5. s.unique => Distinct(w)
    BY <1>1, <1>3, <2>1, <2>3, <2>4 DEF FitsList, Listed, Distinct
  <2>6. Length(w) \in s.lo..s.hi
    BY <1>1, <2>3 DEF FitsList, Listed
  <2>. QED
    BY <2>1, <2>3, <2>5, <2>6 DEF FitsList
<1>4. ASSUME ~Is("items", v) PROVE FitsList(Fits7, s, w)
  <2>1. /\ IsList(w) /\ ~Is("items", w) /\ w.many = Minted7(v.many)
        /\ w.len = v.len /\ w.distinct = v.distinct
    BY <1>4 DEF w, ElementsBy, Many, Is, IsList
  <2>2. Length(w) = Length(v) /\ (Distinct(v) => Distinct(w))
    BY <1>4, <2>1 DEF Length, Distinct
  <2>3. Length(w) \in s.lo..s.hi /\ (s.unique => Distinct(w))
    BY <1>1, <2>2 DEF FitsList, Listed
  <2>4. Elements(v) = {v.many} /\ Elements(w) = {w.many}
    BY <1>4, <2>1 DEF Elements
  <2>5. \A e \in Elements(w) : Fits7(s.of, e)
    BY <1>0, <1>1, <2>1, <2>4 DEF FitsList
  <2>. QED
    BY <2>1, <2>3, <2>5 DEF FitsList
<1>. QED
  BY <1>2, <1>3, <1>4, ListFits DEF Listed

LEMMA List7 ==
  ASSUME NEW d, NEW s, Listed(d, s), Conforms6(d.of, s.of),
         s.unique => \A x : Fits6(d.of, x) => Minted6(x) = x
  PROVE  Conforms7(d, s)
<1> SUFFICES ASSUME NEW v, Fits7(d, v) PROVE Fits7(s, Minted7(v))
  BY DEF Conforms7
<1>0. \A x : Fits6(d.of, x) => Fits6(s.of, Minted6(x))
  BY DEF Conforms6
<1>1. FitsList(Fits6, d, v)
  BY ListFits DEF Listed
<1> DEFINE w == ElementsBy(Minted6, v)
<1>2. Minted7(v) = w
  BY <1>1, ListMinted DEF FitsList
<1> HIDE DEF w
<1>3. ASSUME Is("items", v) PROVE FitsList(Fits6, s, w)
  <2> DEFINE t == [i \in DOMAIN v.items |-> Minted6(v.items[i])]
  <2>0. w = Arr(t) /\ v.items \in Seq(Elements(v))
    BY <1>1, <1>3 DEF w, ElementsBy, FitsList, IsList, Is
  <2>1. /\ IsList(w) /\ Is("items", w) /\ DOMAIN w.items = DOMAIN v.items
        /\ Len(w.items) = Len(v.items)
        /\ \A i \in DOMAIN v.items : w.items[i] = Minted6(v.items[i])
    <3>1. Len(t) = Len(v.items) /\ t \in Seq({t[i] : i \in DOMAIN t})
      BY <2>0, MappedSequence
    <3>2. Is("items", w) /\ DOMAIN w = {"items"} /\ w.items = t
      BY <2>0 DEF Arr, Is
    <3> HIDE DEF t
    <3>3. IsList(w)
      BY <3>1, <3>2 DEF IsList, Elements
    <3>. QED
      BY <3>1, <3>2, <3>3 DEF t
  <2>2. \A i \in DOMAIN v.items : Fits6(d.of, v.items[i])
    BY <1>1, <1>3 DEF FitsList, Elements
  <2>3. Length(w) = Length(v) /\ \A e \in Elements(w) : Fits6(s.of, e)
    BY <1>0, <1>3, <2>1, <2>2 DEF Length, Elements
  <2>4. s.unique => \A i \in DOMAIN v.items : w.items[i] = v.items[i]
    BY <2>1, <2>2
  <2>. s.unique => Elements(w) = Elements(v)
    BY <1>3, <2>1, <2>4 DEF Elements
  <2>5. s.unique => Distinct(w)
    BY <1>1, <1>3, <2>1, <2>3, <2>4 DEF FitsList, Listed, Distinct
  <2>6. Length(w) \in s.lo..s.hi
    BY <1>1, <2>3 DEF FitsList, Listed
  <2>. QED
    BY <2>1, <2>3, <2>5, <2>6 DEF FitsList
<1>4. ASSUME ~Is("items", v) PROVE FitsList(Fits6, s, w)
  <2>1. /\ IsList(w) /\ ~Is("items", w) /\ w.many = Minted6(v.many)
        /\ w.len = v.len /\ w.distinct = v.distinct
    BY <1>4 DEF w, ElementsBy, Many, Is, IsList
  <2>2. Length(w) = Length(v) /\ (Distinct(v) => Distinct(w))
    BY <1>4, <2>1 DEF Length, Distinct
  <2>3. Length(w) \in s.lo..s.hi /\ (s.unique => Distinct(w))
    BY <1>1, <2>2 DEF FitsList, Listed
  <2>4. Elements(v) = {v.many} /\ Elements(w) = {w.many}
    BY <1>4, <2>1 DEF Elements
  <2>5. \A e \in Elements(w) : Fits6(s.of, e)
    BY <1>0, <1>1, <2>1, <2>4 DEF FitsList
  <2>. QED
    BY <2>1, <2>3, <2>5 DEF FitsList
<1>. QED
  BY <1>2, <1>3, <1>4, ListFits DEF Listed

LEMMA List6 ==
  ASSUME NEW d, NEW s, Listed(d, s), Conforms5(d.of, s.of),
         s.unique => \A x : Fits5(d.of, x) => Minted5(x) = x
  PROVE  Conforms6(d, s)
<1> SUFFICES ASSUME NEW v, Fits6(d, v) PROVE Fits6(s, Minted6(v))
  BY DEF Conforms6
<1>0. \A x : Fits5(d.of, x) => Fits5(s.of, Minted5(x))
  BY DEF Conforms5
<1>1. FitsList(Fits5, d, v)
  BY ListFits DEF Listed
<1> DEFINE w == ElementsBy(Minted5, v)
<1>2. Minted6(v) = w
  BY <1>1, ListMinted DEF FitsList
<1> HIDE DEF w
<1>3. ASSUME Is("items", v) PROVE FitsList(Fits5, s, w)
  <2> DEFINE t == [i \in DOMAIN v.items |-> Minted5(v.items[i])]
  <2>0. w = Arr(t) /\ v.items \in Seq(Elements(v))
    BY <1>1, <1>3 DEF w, ElementsBy, FitsList, IsList, Is
  <2>1. /\ IsList(w) /\ Is("items", w) /\ DOMAIN w.items = DOMAIN v.items
        /\ Len(w.items) = Len(v.items)
        /\ \A i \in DOMAIN v.items : w.items[i] = Minted5(v.items[i])
    <3>1. Len(t) = Len(v.items) /\ t \in Seq({t[i] : i \in DOMAIN t})
      BY <2>0, MappedSequence
    <3>2. Is("items", w) /\ DOMAIN w = {"items"} /\ w.items = t
      BY <2>0 DEF Arr, Is
    <3> HIDE DEF t
    <3>3. IsList(w)
      BY <3>1, <3>2 DEF IsList, Elements
    <3>. QED
      BY <3>1, <3>2, <3>3 DEF t
  <2>2. \A i \in DOMAIN v.items : Fits5(d.of, v.items[i])
    BY <1>1, <1>3 DEF FitsList, Elements
  <2>3. Length(w) = Length(v) /\ \A e \in Elements(w) : Fits5(s.of, e)
    BY <1>0, <1>3, <2>1, <2>2 DEF Length, Elements
  <2>4. s.unique => \A i \in DOMAIN v.items : w.items[i] = v.items[i]
    BY <2>1, <2>2
  <2>. s.unique => Elements(w) = Elements(v)
    BY <1>3, <2>1, <2>4 DEF Elements
  <2>5. s.unique => Distinct(w)
    BY <1>1, <1>3, <2>1, <2>3, <2>4 DEF FitsList, Listed, Distinct
  <2>6. Length(w) \in s.lo..s.hi
    BY <1>1, <2>3 DEF FitsList, Listed
  <2>. QED
    BY <2>1, <2>3, <2>5, <2>6 DEF FitsList
<1>4. ASSUME ~Is("items", v) PROVE FitsList(Fits5, s, w)
  <2>1. /\ IsList(w) /\ ~Is("items", w) /\ w.many = Minted5(v.many)
        /\ w.len = v.len /\ w.distinct = v.distinct
    BY <1>4 DEF w, ElementsBy, Many, Is, IsList
  <2>2. Length(w) = Length(v) /\ (Distinct(v) => Distinct(w))
    BY <1>4, <2>1 DEF Length, Distinct
  <2>3. Length(w) \in s.lo..s.hi /\ (s.unique => Distinct(w))
    BY <1>1, <2>2 DEF FitsList, Listed
  <2>4. Elements(v) = {v.many} /\ Elements(w) = {w.many}
    BY <1>4, <2>1 DEF Elements
  <2>5. \A e \in Elements(w) : Fits5(s.of, e)
    BY <1>0, <1>1, <2>1, <2>4 DEF FitsList
  <2>. QED
    BY <2>1, <2>3, <2>5 DEF FitsList
<1>. QED
  BY <1>2, <1>3, <1>4, ListFits DEF Listed

LEMMA List5 ==
  ASSUME NEW d, NEW s, Listed(d, s), Conforms4(d.of, s.of),
         s.unique => \A x : Fits4(d.of, x) => Minted4(x) = x
  PROVE  Conforms5(d, s)
<1> SUFFICES ASSUME NEW v, Fits5(d, v) PROVE Fits5(s, Minted5(v))
  BY DEF Conforms5
<1>0. \A x : Fits4(d.of, x) => Fits4(s.of, Minted4(x))
  BY DEF Conforms4
<1>1. FitsList(Fits4, d, v)
  BY ListFits DEF Listed
<1> DEFINE w == ElementsBy(Minted4, v)
<1>2. Minted5(v) = w
  BY <1>1, ListMinted DEF FitsList
<1> HIDE DEF w
<1>3. ASSUME Is("items", v) PROVE FitsList(Fits4, s, w)
  <2> DEFINE t == [i \in DOMAIN v.items |-> Minted4(v.items[i])]
  <2>0. w = Arr(t) /\ v.items \in Seq(Elements(v))
    BY <1>1, <1>3 DEF w, ElementsBy, FitsList, IsList, Is
  <2>1. /\ IsList(w) /\ Is("items", w) /\ DOMAIN w.items = DOMAIN v.items
        /\ Len(w.items) = Len(v.items)
        /\ \A i \in DOMAIN v.items : w.items[i] = Minted4(v.items[i])
    <3>1. Len(t) = Len(v.items) /\ t \in Seq({t[i] : i \in DOMAIN t})
      BY <2>0, MappedSequence
    <3>2. Is("items", w) /\ DOMAIN w = {"items"} /\ w.items = t
      BY <2>0 DEF Arr, Is
    <3> HIDE DEF t
    <3>3. IsList(w)
      BY <3>1, <3>2 DEF IsList, Elements
    <3>. QED
      BY <3>1, <3>2, <3>3 DEF t
  <2>2. \A i \in DOMAIN v.items : Fits4(d.of, v.items[i])
    BY <1>1, <1>3 DEF FitsList, Elements
  <2>3. Length(w) = Length(v) /\ \A e \in Elements(w) : Fits4(s.of, e)
    BY <1>0, <1>3, <2>1, <2>2 DEF Length, Elements
  <2>4. s.unique => \A i \in DOMAIN v.items : w.items[i] = v.items[i]
    BY <2>1, <2>2
  <2>. s.unique => Elements(w) = Elements(v)
    BY <1>3, <2>1, <2>4 DEF Elements
  <2>5. s.unique => Distinct(w)
    BY <1>1, <1>3, <2>1, <2>3, <2>4 DEF FitsList, Listed, Distinct
  <2>6. Length(w) \in s.lo..s.hi
    BY <1>1, <2>3 DEF FitsList, Listed
  <2>. QED
    BY <2>1, <2>3, <2>5, <2>6 DEF FitsList
<1>4. ASSUME ~Is("items", v) PROVE FitsList(Fits4, s, w)
  <2>1. /\ IsList(w) /\ ~Is("items", w) /\ w.many = Minted4(v.many)
        /\ w.len = v.len /\ w.distinct = v.distinct
    BY <1>4 DEF w, ElementsBy, Many, Is, IsList
  <2>2. Length(w) = Length(v) /\ (Distinct(v) => Distinct(w))
    BY <1>4, <2>1 DEF Length, Distinct
  <2>3. Length(w) \in s.lo..s.hi /\ (s.unique => Distinct(w))
    BY <1>1, <2>2 DEF FitsList, Listed
  <2>4. Elements(v) = {v.many} /\ Elements(w) = {w.many}
    BY <1>4, <2>1 DEF Elements
  <2>5. \A e \in Elements(w) : Fits4(s.of, e)
    BY <1>0, <1>1, <2>1, <2>4 DEF FitsList
  <2>. QED
    BY <2>1, <2>3, <2>5 DEF FitsList
<1>. QED
  BY <1>2, <1>3, <1>4, ListFits DEF Listed

LEMMA List3 ==
  ASSUME NEW d, NEW s, Listed(d, s), Conforms2(d.of, s.of),
         s.unique => \A x : Fits2(d.of, x) => Minted2(x) = x
  PROVE  Conforms3(d, s)
<1> SUFFICES ASSUME NEW v, Fits3(d, v) PROVE Fits3(s, Minted3(v))
  BY DEF Conforms3
<1>0. \A x : Fits2(d.of, x) => Fits2(s.of, Minted2(x))
  BY DEF Conforms2
<1>1. FitsList(Fits2, d, v)
  BY ListFits DEF Listed
<1> DEFINE w == ElementsBy(Minted2, v)
<1>2. Minted3(v) = w
  BY <1>1, ListMinted DEF FitsList
<1> HIDE DEF w
<1>3. ASSUME Is("items", v) PROVE FitsList(Fits2, s, w)
  <2> DEFINE t == [i \in DOMAIN v.items |-> Minted2(v.items[i])]
  <2>0. w = Arr(t) /\ v.items \in Seq(Elements(v))
    BY <1>1, <1>3 DEF w, ElementsBy, FitsList, IsList, Is
  <2>1. /\ IsList(w) /\ Is("items", w) /\ DOMAIN w.items = DOMAIN v.items
        /\ Len(w.items) = Len(v.items)
        /\ \A i \in DOMAIN v.items : w.items[i] = Minted2(v.items[i])
    <3>1. Len(t) = Len(v.items) /\ t \in Seq({t[i] : i \in DOMAIN t})
      BY <2>0, MappedSequence
    <3>2. Is("items", w) /\ DOMAIN w = {"items"} /\ w.items = t
      BY <2>0 DEF Arr, Is
    <3> HIDE DEF t
    <3>3. IsList(w)
      BY <3>1, <3>2 DEF IsList, Elements
    <3>. QED
      BY <3>1, <3>2, <3>3 DEF t
  <2>2. \A i \in DOMAIN v.items : Fits2(d.of, v.items[i])
    BY <1>1, <1>3 DEF FitsList, Elements
  <2>3. Length(w) = Length(v) /\ \A e \in Elements(w) : Fits2(s.of, e)
    BY <1>0, <1>3, <2>1, <2>2 DEF Length, Elements
  <2>4. s.unique => \A i \in DOMAIN v.items : w.items[i] = v.items[i]
    BY <2>1, <2>2
  <2>. s.unique => Elements(w) = Elements(v)
    BY <1>3, <2>1, <2>4 DEF Elements
  <2>5. s.unique => Distinct(w)
    BY <1>1, <1>3, <2>1, <2>3, <2>4 DEF FitsList, Listed, Distinct
  <2>6. Length(w) \in s.lo..s.hi
    BY <1>1, <2>3 DEF FitsList, Listed
  <2>. QED
    BY <2>1, <2>3, <2>5, <2>6 DEF FitsList
<1>4. ASSUME ~Is("items", v) PROVE FitsList(Fits2, s, w)
  <2>1. /\ IsList(w) /\ ~Is("items", w) /\ w.many = Minted2(v.many)
        /\ w.len = v.len /\ w.distinct = v.distinct
    BY <1>4 DEF w, ElementsBy, Many, Is, IsList
  <2>2. Length(w) = Length(v) /\ (Distinct(v) => Distinct(w))
    BY <1>4, <2>1 DEF Length, Distinct
  <2>3. Length(w) \in s.lo..s.hi /\ (s.unique => Distinct(w))
    BY <1>1, <2>2 DEF FitsList, Listed
  <2>4. Elements(v) = {v.many} /\ Elements(w) = {w.many}
    BY <1>4, <2>1 DEF Elements
  <2>5. \A e \in Elements(w) : Fits2(s.of, e)
    BY <1>0, <1>1, <2>1, <2>4 DEF FitsList
  <2>. QED
    BY <2>1, <2>3, <2>5 DEF FitsList
<1>. QED
  BY <1>2, <1>3, <1>4, ListFits DEF Listed

LEMMA PlainElements ==
  ASSUME NEW v, IsList(v), NEW x \in Elements(v)
  PROVE  /\ Plain(v) => Plain7(x)
         /\ Plain7(v) => Plain6(x)
         /\ Plain6(v) => Plain5(x)
         /\ Plain5(v) => Plain4(x)
         /\ Plain3(v) => Plain2(x)
<1>1. x \in Contents(v)
  BY DEF Contents
<1>. QED
  BY <1>1, PlainInside

(* The elements of d are at least those of s, and as many.                 *)
Wider(d, s) ==
  /\ d.k = "list" /\ s.k = "list"
  /\ s.lo..s.hi \subseteq d.lo..d.hi
  /\ d.unique => s.unique

LEMMA ListTaken8 ==
  ASSUME NEW d, NEW s, Wider(d, s), Takes7(d.of, s.of)
  PROVE  Takes(d, s)
<1> SUFFICES ASSUME NEW v, Fits(s, v), Plain(v) PROVE Fits(d, v)
  BY DEF Takes
<1>1. FitsList(Fits7, s, v)
  BY ListFits DEF Wider
<1>2. \A x \in Elements(v) : Plain7(x)
  BY <1>1, PlainElements DEF FitsList
<1>3. FitsList(Fits7, d, v)
  BY <1>1, <1>2 DEF FitsList, Wider, Takes7
<1>. QED
  BY <1>3, ListFits DEF Wider

LEMMA ListTaken7 ==
  ASSUME NEW d, NEW s, Wider(d, s), Takes6(d.of, s.of)
  PROVE  Takes7(d, s)
<1> SUFFICES ASSUME NEW v, Fits7(s, v), Plain7(v) PROVE Fits7(d, v)
  BY DEF Takes7
<1>1. FitsList(Fits6, s, v)
  BY ListFits DEF Wider
<1>2. \A x \in Elements(v) : Plain6(x)
  BY <1>1, PlainElements DEF FitsList
<1>3. FitsList(Fits6, d, v)
  BY <1>1, <1>2 DEF FitsList, Wider, Takes6
<1>. QED
  BY <1>3, ListFits DEF Wider

LEMMA ListTaken6 ==
  ASSUME NEW d, NEW s, Wider(d, s), Takes5(d.of, s.of)
  PROVE  Takes6(d, s)
<1> SUFFICES ASSUME NEW v, Fits6(s, v), Plain6(v) PROVE Fits6(d, v)
  BY DEF Takes6
<1>1. FitsList(Fits5, s, v)
  BY ListFits DEF Wider
<1>2. \A x \in Elements(v) : Plain5(x)
  BY <1>1, PlainElements DEF FitsList
<1>3. FitsList(Fits5, d, v)
  BY <1>1, <1>2 DEF FitsList, Wider, Takes5
<1>. QED
  BY <1>3, ListFits DEF Wider

LEMMA ListTaken5 ==
  ASSUME NEW d, NEW s, Wider(d, s), Takes4(d.of, s.of)
  PROVE  Takes5(d, s)
<1> SUFFICES ASSUME NEW v, Fits5(s, v), Plain5(v) PROVE Fits5(d, v)
  BY DEF Takes5
<1>1. FitsList(Fits4, s, v)
  BY ListFits DEF Wider
<1>2. \A x \in Elements(v) : Plain4(x)
  BY <1>1, PlainElements DEF FitsList
<1>3. FitsList(Fits4, d, v)
  BY <1>1, <1>2 DEF FitsList, Wider, Takes4
<1>. QED
  BY <1>3, ListFits DEF Wider

LEMMA ListTaken3 ==
  ASSUME NEW d, NEW s, Wider(d, s), Takes2(d.of, s.of)
  PROVE  Takes3(d, s)
<1> SUFFICES ASSUME NEW v, Fits3(s, v), Plain3(v) PROVE Fits3(d, v)
  BY DEF Takes3
<1>1. FitsList(Fits2, s, v)
  BY ListFits DEF Wider
<1>2. \A x \in Elements(v) : Plain2(x)
  BY <1>1, PlainElements DEF FitsList
<1>3. FitsList(Fits2, d, v)
  BY <1>1, <1>2 DEF FitsList, Wider, Takes2
<1>. QED
  BY <1>3, ListFits DEF Wider


(* An object of d whose members are leaves, or one of two leaves.          *)
Flat(d, s) ==
  /\ Closed(d, s)
  /\ \A f \in DOMAIN d.req : Paired(d.req[f], s.req[f])
  /\ \A f \in DOMAIN d.opt : Paired(d.opt[f], s.opt[f])

LEMMA NoRule == \A o : Rule("none", o)
BY DEF Rule

LEMMA FlatConforms ==
  ASSUME NEW d, NEW s, Flat(d, s), s.rule = "none"
  PROVE  /\ Conforms(d, s)
         /\ Conforms7(d, s)
         /\ Conforms6(d, s)
         /\ Conforms5(d, s)
         /\ Conforms4(d, s)
         /\ Conforms2(d, s)
<1>1. Conforms(d, s)
  BY LeafConforms, NoRule, Object8 DEF Flat
<1>2. Conforms7(d, s)
  BY LeafConforms, NoRule, Object7 DEF Flat
<1>3. Conforms6(d, s)
  BY LeafConforms, NoRule, Object6 DEF Flat
<1>4. Conforms5(d, s)
  BY LeafConforms, NoRule, Object5 DEF Flat
<1>5. Conforms4(d, s)
  BY LeafConforms, NoRule, Object4 DEF Flat
<1>6. Conforms2(d, s)
  BY LeafConforms, NoRule, Object2 DEF Flat
<1>. QED
  BY <1>1, <1>2, <1>3, <1>4, <1>5, <1>6

LEMMA FlatTakes ==
  ASSUME NEW d, NEW s, Flat(d, s)
  PROVE  /\ TakesIf(d, s)
         /\ TakesIf7(d, s)
         /\ TakesIf6(d, s)
         /\ TakesIf5(d, s)
         /\ TakesIf4(d, s)
         /\ TakesIf2(d, s)
<1>1. TakesIf(d, s)
  BY LeafTakes, Taken8 DEF Flat
<1>2. TakesIf7(d, s)
  BY LeafTakes, Taken7 DEF Flat
<1>3. TakesIf6(d, s)
  BY LeafTakes, Taken6 DEF Flat
<1>4. TakesIf5(d, s)
  BY LeafTakes, Taken5 DEF Flat
<1>5. TakesIf4(d, s)
  BY LeafTakes, Taken4 DEF Flat
<1>6. TakesIf2(d, s)
  BY LeafTakes, Taken2 DEF Flat
<1>. QED
  BY <1>1, <1>2, <1>3, <1>4, <1>5, <1>6

LEMMA FlatAgrees ==
  ASSUME NEW d, NEW s, Flat(d, s), s.rule = "none", d.rule = "none"
  PROVE  /\ Agrees(d, s)
         /\ Agrees7(d, s)
         /\ Agrees6(d, s)
         /\ Agrees5(d, s)
         /\ Agrees4(d, s)
         /\ Agrees2(d, s)
BY FlatConforms, FlatTakes, NothingCompared
   DEF Agrees, Agrees7, Agrees6, Agrees5, Agrees4, Agrees2

----------------------------------------------------------------------------
(* The readers of domain.ts against the kinds of the contract. *)

LEMMA Reflexive ==
  ASSUME NEW ws, NEW x, NEW y
  PROVE  Alike(Enum(ws, x), Enum(ws, y))
<1>1. SameValues(Enum(ws, x), Enum(ws, y))
  BY DEF SameValues, Enum, Exactly, Bare, Is, Word
<1>. QED
  BY <1>1 DEF Alike

LEMMA TextReaders ==
  /\ Alike(string, AnyText)
  /\ \A lo, hi : Alike(boundedString(lo, hi), Sized(lo, hi))
<1>1. SameLengths(string, AnyText)
  BY DEF SameLengths, string, AnyText
<1>2. \A lo, hi : SameLengths(boundedString(lo, hi), Sized(lo, hi))
  BY DEF SameLengths, boundedString, Sized
<1>. QED
  BY <1>1, <1>2 DEF Alike

LEMMA NumberReaders ==
  /\ \A lo, hi, x, y : Alike(SafeWhole(lo, hi, x), Whole(lo, hi, y))
  /\ \A lo, hi, x, y : Alike(SafeWhole(lo, hi, x), SafeWhole(lo, hi, y))
  /\ \A lo, hi, x, y : Alike(Whole(lo, hi, x), Whole(lo, hi, y))
  /\ \A lo : Alike(integer(lo), AtLeast(lo)) /\ Alike(safeInteger(lo), AtLeast(lo))
<1>1. /\ \A lo, hi, x, y : SameRange(SafeWhole(lo, hi, x), Whole(lo, hi, y))
      /\ \A lo, hi, x, y : SameRange(SafeWhole(lo, hi, x), SafeWhole(lo, hi, y))
      /\ \A lo, hi, x, y : SameRange(Whole(lo, hi, x), Whole(lo, hi, y))
  BY DEF SameRange, Whole, SafeWhole
<1>2. \A lo : SameRange(integer(lo), AtLeast(lo)) /\ SameRange(safeInteger(lo), AtLeast(lo))
  BY DEF SameRange, integer, safeInteger, AtLeast, Whole, SafeWhole
<1>. QED
  BY <1>1, <1>2 DEF Alike

(* A pattern without a brand is minted as it is.                           *)
LEMMA PatternReaders ==
  ASSUME NEW forms, NEW more, forms \subseteq more, more \ UnusualForms \subseteq forms,
         NEW lo, NEW hi, NEW x, NEW y
  PROVE  Alike(Matching(forms, lo, hi, x), Matching(more, lo, hi, y))
<1>1. \A form : MintedForm(form, "plain") = form /\ MintedBrand(form, "plain") = "plain"
  BY DEF MintedForm, MintedBrand, Brands
<1>2. SamePattern(Matching(forms, lo, hi, x), Matching(more, lo, hi, y))
  BY <1>1 DEF SamePattern, Matching, Branded
<1>. QED
  BY <1>2 DEF Alike

LEMMA NamedReaders ==
  /\ \A m, n : Alike(uuid(m), Uuid(n))
  /\ \A m, n : Alike(dateTime(m), DateTime(n))
  /\ \A m, n : Alike(sha256(m), Sha256(n))
BY PatternReaders DEF uuid, Uuid, dateTime, DateTime, sha256, Sha256, UnusualForms

LEMMA BrandedReaders ==
  ASSUME NEW forms, NEW lo, NEW hi, NEW x, NEW y
  PROVE  /\ forms \subseteq {"runtime"} =>
              Alike(Branded(forms, lo, hi, Brands, x), Branded(forms, lo, hi, Brands, y))
         /\ forms \cap {"runtime", "open_runa", "open_cuna", "stream"} = {} =>
              Alike(Branded(forms, lo, hi, Brands, x), Branded(forms, lo, hi, {"runa"}, y))
         /\ forms = {"stream"} =>
              Alike(Branded(forms, lo, hi, Brands, x), Branded(forms, lo, hi, {"cuna"}, y))
         /\ forms = {"open_cuna", "open_runa"} =>
              Alike(Branded(forms, lo, hi, Brands, x),
                     Branded({"open_runa", "open_blank"}, lo, hi, Brands, y))
<1> USE DEF SamePattern, Branded, MintedForm, MintedBrand, Brands, UnusualForms
<1>1. ASSUME forms \subseteq {"runtime"}
      PROVE  SamePattern(Branded(forms, lo, hi, Brands, x), Branded(forms, lo, hi, Brands, y))
  BY <1>1
<1>2. ASSUME forms \cap {"runtime", "open_runa", "open_cuna", "stream"} = {}
      PROVE  SamePattern(Branded(forms, lo, hi, Brands, x), Branded(forms, lo, hi, {"runa"},
      y))
  BY <1>2
<1>3. ASSUME forms = {"stream"}
      PROVE  SamePattern(Branded(forms, lo, hi, Brands, x), Branded(forms, lo, hi, {"cuna"},
      y))
  BY <1>3
<1>4. ASSUME forms = {"open_cuna", "open_runa"}
      PROVE  SamePattern(Branded(forms, lo, hi, Brands, x),
                           Branded({"open_runa", "open_blank"}, lo, hi, Brands, y))
  BY <1>4
<1> HIDE DEF SamePattern, Branded, MintedForm, MintedBrand, Brands, UnusualForms
<1>. QED
  BY <1>1, <1>2, <1>3, <1>4 DEF Alike

LEMMA PlainReaders ==
  /\ Alike(Boolean, Boolean) /\ Alike(Anything, Anything) /\ Alike(Number, Number)
  /\ Alike(syncProtocol, Protocol)
  /\ \A b, x : Alike(Exactly({Bool(b)}, x), Exactly({Bool(b)}, x))
  /\ \A x : Alike(Exactly({Null}, x), Exactly({Null}, x))
<1> USE DEF SameValues, Exactly, Bare, Is, Null, Bool, Num
<1>1. SameValues(Boolean, Boolean)
  BY DEF Boolean
<1>2. SameKind(Anything, Anything) /\ SameKind(Number, Number)
  BY DEF SameKind, Anything, Number
<1>3. SameValues(syncProtocol, Protocol)
  BY DEF syncProtocol, Protocol
<1>4. \A b, x : SameValues(Exactly({Bool(b)}, x), Exactly({Bool(b)}, x))
  OBVIOUS
<1>5. \A x : SameValues(Exactly({Null}, x), Exactly({Null}, x))
  OBVIOUS
<1> HIDE DEF SameValues, Exactly, Bare, Is, Null, Bool, Num
<1>. QED
  BY <1>1, <1>2, <1>3, <1>4, <1>5 DEF Alike

LEMMA NullableReaders ==
  ASSUME NEW d, NEW s, Alike(d, s)
  PROVE  Paired(Nullable(d), Nullable(s))
BY PlainReaders DEF Paired, Nullable, Either

(* What fits a kind of these is not changed when it is minted.             *)
Fixed(d) ==
  \/ SameValues(d, d)
  \/ d.k = "pattern" /\ d.brands = {"plain"}

LEMMA FixedMinted ==
  ASSUME NEW d, Fixed(d), NEW v
  PROVE  /\ Fits1(d, v) => Minted1(v) = v
         /\ Fits2(d, v) => Minted2(v) = v
         /\ Fits3(d, v) => Minted3(v) = v
         /\ Fits4(d, v) => Minted4(v) = v
         /\ Fits5(d, v) => Minted5(v) = v
         /\ Fits6(d, v) => Minted6(v) = v
         /\ Fits7(d, v) => Minted7(v) = v
         /\ Fits(d, v) => AsMinted(v) = v
<1>1. (d.k \in Leaves /\ d.k # "any" /\ Alike(d, d)) \/ d.k = "pattern"
  BY DEF Fixed, SameValues, Alike, Leaves
<1>2. d.k \in Leaves
  BY <1>1 DEF Leaves
<1>3. ASSUME FitsLeaf(d, v)
      PROVE  /\ MintedLeaf(v) = v
             /\ ~Is("items", v) /\ ~Is("many", v) /\ ~Is("object", v)
  <2>1. CASE SameValues(d, d)
    BY <1>3, <2>1 DEF SameValues, FitsLeaf, Bare, MintedLeaf
  <2>2. CASE d.k = "pattern" /\ d.brands = {"plain"}
    <3>1. IsText(v) /\ v.brand = "plain"
      BY <1>3, <2>2, StringMinted DEF FitsLeaf
    <3>2. MintedForm(v.form, v.brand) = v.form /\ MintedBrand(v.form, v.brand) = v.brand
      BY <3>1 DEF MintedForm, MintedBrand, Brands
    <3>. QED
      BY <3>1, <3>2, TextMinted DEF IsText
  <2>. QED
    BY <2>1, <2>2 DEF Fixed
<1>. QED
  BY <1>2, <1>3, LeafFits, LeafMinted

(* One of two kinds, neither of which is one of two again.                 *)
BothOf(d, s) ==
  /\ d.k = "either" /\ s.k = "either"
  /\ d.one.k # "either" /\ d.other.k # "either"
  /\ s.one.k # "either" /\ s.other.k # "either"

LEMMA Either7 ==
  ASSUME NEW d, NEW s, BothOf(d, s), Agrees7(d.one, s.one), Agrees7(d.other, s.other)
  PROVE  Agrees7(d, s)
<1>1. \A kind, v : kind.k # "either" => (Fits7(kind, v) <=> FitsAs(Fits6, kind, v))
  BY DEF Fits7, FitsBy
<1>2. \A v : ~FitsAs(Fits6, d, v) /\ ~FitsAs(Fits6, s, v)
  BY DEF BothOf, FitsAs, FitsLeaf
<1>3. \A v : /\ Fits7(d, v) <=> FitsAs(Fits6, d.one, v) \/ FitsAs(Fits6, d.other, v)
             /\ Fits7(s, v) <=> FitsAs(Fits6, s.one, v) \/ FitsAs(Fits6, s.other, v)
  BY <1>2 DEF Fits7, FitsBy, BothOf
<1>4. Conforms7(d, s)
  BY <1>1, <1>3 DEF BothOf, Agrees7, Conforms7
<1>5. Takes7(d, s)
  BY <1>1, <1>3 DEF BothOf, Agrees7, Takes7
<1>. QED
  BY <1>4, <1>5 DEF Agrees7

LEMMA Either4 ==
  ASSUME NEW d, NEW s, BothOf(d, s), Agrees4(d.one, s.one), Agrees4(d.other, s.other)
  PROVE  Agrees4(d, s)
<1>1. \A kind, v : kind.k # "either" => (Fits4(kind, v) <=> FitsAs(Fits3, kind, v))
  BY DEF Fits4, FitsBy
<1>2. \A v : ~FitsAs(Fits3, d, v) /\ ~FitsAs(Fits3, s, v)
  BY DEF BothOf, FitsAs, FitsLeaf
<1>3. \A v : /\ Fits4(d, v) <=> FitsAs(Fits3, d.one, v) \/ FitsAs(Fits3, d.other, v)
             /\ Fits4(s, v) <=> FitsAs(Fits3, s.one, v) \/ FitsAs(Fits3, s.other, v)
  BY <1>2 DEF Fits4, FitsBy, BothOf
<1>4. Conforms4(d, s)
  BY <1>1, <1>3 DEF BothOf, Agrees4, Conforms4
<1>5. Takes4(d, s)
  BY <1>1, <1>3 DEF BothOf, Agrees4, Takes4
<1>. QED
  BY <1>4, <1>5 DEF Agrees4

LEMMA ListOfConforms ==
  ASSUME NEW d, NEW s, NEW lo, NEW hi
  PROVE  /\ Conforms7(d, s) => Conforms(ListOf(d, lo, hi), ListOf(s, lo, hi))
         /\ Conforms6(d, s) => Conforms7(ListOf(d, lo, hi), ListOf(s, lo, hi))
         /\ Conforms5(d, s) => Conforms6(ListOf(d, lo, hi), ListOf(s, lo, hi))
         /\ Conforms4(d, s) => Conforms5(ListOf(d, lo, hi), ListOf(s, lo, hi))
         /\ Conforms2(d, s) => Conforms3(ListOf(d, lo, hi), ListOf(s, lo, hi))
<1>1. /\ Listed(ListOf(d, lo, hi), ListOf(s, lo, hi)) /\ ~ListOf(s, lo, hi).unique
      /\ ListOf(d, lo, hi).of = d /\ ListOf(s, lo, hi).of = s
  BY DEF Listed, ListOf
<1>2. Conforms7(d, s) => Conforms(ListOf(d, lo, hi), ListOf(s, lo, hi))
  BY <1>1, List8
<1>3. Conforms6(d, s) => Conforms7(ListOf(d, lo, hi), ListOf(s, lo, hi))
  BY <1>1, List7
<1>4. Conforms5(d, s) => Conforms6(ListOf(d, lo, hi), ListOf(s, lo, hi))
  BY <1>1, List6
<1>5. Conforms4(d, s) => Conforms5(ListOf(d, lo, hi), ListOf(s, lo, hi))
  BY <1>1, List5
<1>6. Conforms2(d, s) => Conforms3(ListOf(d, lo, hi), ListOf(s, lo, hi))
  BY <1>1, List3
<1>. QED
  BY <1>2, <1>3, <1>4, <1>5, <1>6

LEMMA ListOfTakes ==
  ASSUME NEW d, NEW s, NEW lo, NEW hi
  PROVE  /\ Takes7(d, s) => Takes(ListOf(d, lo, hi), ListOf(s, lo, hi))
         /\ Takes6(d, s) => Takes7(ListOf(d, lo, hi), ListOf(s, lo, hi))
         /\ Takes5(d, s) => Takes6(ListOf(d, lo, hi), ListOf(s, lo, hi))
         /\ Takes4(d, s) => Takes5(ListOf(d, lo, hi), ListOf(s, lo, hi))
         /\ Takes2(d, s) => Takes3(ListOf(d, lo, hi), ListOf(s, lo, hi))
<1>1. /\ Wider(ListOf(d, lo, hi), ListOf(s, lo, hi))
      /\ ListOf(d, lo, hi).of = d /\ ListOf(s, lo, hi).of = s
  BY DEF Wider, ListOf
<1>2. Takes7(d, s) => Takes(ListOf(d, lo, hi), ListOf(s, lo, hi))
  BY <1>1, ListTaken8
<1>3. Takes6(d, s) => Takes7(ListOf(d, lo, hi), ListOf(s, lo, hi))
  BY <1>1, ListTaken7
<1>4. Takes5(d, s) => Takes6(ListOf(d, lo, hi), ListOf(s, lo, hi))
  BY <1>1, ListTaken6
<1>5. Takes4(d, s) => Takes5(ListOf(d, lo, hi), ListOf(s, lo, hi))
  BY <1>1, ListTaken5
<1>6. Takes2(d, s) => Takes3(ListOf(d, lo, hi), ListOf(s, lo, hi))
  BY <1>1, ListTaken3
<1>. QED
  BY <1>2, <1>3, <1>4, <1>5, <1>6

LEMMA ListOfAgrees ==
  ASSUME NEW d, NEW s, NEW lo, NEW hi
  PROVE  /\ Agrees7(d, s) => Agrees(ListOf(d, lo, hi), ListOf(s, lo, hi))
         /\ Agrees6(d, s) => Agrees7(ListOf(d, lo, hi), ListOf(s, lo, hi))
         /\ Agrees5(d, s) => Agrees6(ListOf(d, lo, hi), ListOf(s, lo, hi))
         /\ Agrees4(d, s) => Agrees5(ListOf(d, lo, hi), ListOf(s, lo, hi))
         /\ Agrees2(d, s) => Agrees3(ListOf(d, lo, hi), ListOf(s, lo, hi))
BY ListOfConforms, ListOfTakes DEF Agrees, Agrees7, Agrees6, Agrees5, Agrees3, Agrees2, Agrees4

LEMMA SetOfConforms ==
  ASSUME NEW d, NEW s, NEW lo, NEW hi, Paired(d, s), Fixed(d)
  PROVE  /\ Conforms(SetOf(d, lo, hi), SetOf(s, lo, hi))
         /\ Conforms7(SetOf(d, lo, hi), SetOf(s, lo, hi))
         /\ Conforms6(SetOf(d, lo, hi), SetOf(s, lo, hi))
         /\ Conforms5(SetOf(d, lo, hi), SetOf(s, lo, hi))
         /\ Conforms3(SetOf(d, lo, hi), SetOf(s, lo, hi))
<1>1. /\ Listed(SetOf(d, lo, hi), SetOf(s, lo, hi))
      /\ SetOf(d, lo, hi).of = d /\ SetOf(s, lo, hi).of = s
  BY DEF Listed, SetOf, SetLike
<1>2. Conforms(SetOf(d, lo, hi), SetOf(s, lo, hi))
  BY <1>1, LeafConforms, FixedMinted, List8
<1>3. Conforms7(SetOf(d, lo, hi), SetOf(s, lo, hi))
  BY <1>1, LeafConforms, FixedMinted, List7
<1>4. Conforms6(SetOf(d, lo, hi), SetOf(s, lo, hi))
  BY <1>1, LeafConforms, FixedMinted, List6
<1>5. Conforms5(SetOf(d, lo, hi), SetOf(s, lo, hi))
  BY <1>1, LeafConforms, FixedMinted, List5
<1>6. Conforms3(SetOf(d, lo, hi), SetOf(s, lo, hi))
  BY <1>1, LeafConforms, FixedMinted, List3
<1>. QED
  BY <1>2, <1>3, <1>4, <1>5, <1>6

LEMMA SetOfTakes ==
  ASSUME NEW d, NEW s, NEW lo, NEW hi, Paired(d, s)
  PROVE  /\ Takes(SetOf(d, lo, hi), SetOf(s, lo, hi))
         /\ Takes7(SetOf(d, lo, hi), SetOf(s, lo, hi))
         /\ Takes6(SetOf(d, lo, hi), SetOf(s, lo, hi))
         /\ Takes5(SetOf(d, lo, hi), SetOf(s, lo, hi))
         /\ Takes3(SetOf(d, lo, hi), SetOf(s, lo, hi))
<1>1. /\ Wider(SetOf(d, lo, hi), SetOf(s, lo, hi))
      /\ SetOf(d, lo, hi).of = d /\ SetOf(s, lo, hi).of = s
  BY DEF Wider, SetOf, SetLike
<1>2. Takes(SetOf(d, lo, hi), SetOf(s, lo, hi))
  BY <1>1, LeafTakes, ListTaken8
<1>3. Takes7(SetOf(d, lo, hi), SetOf(s, lo, hi))
  BY <1>1, LeafTakes, ListTaken7
<1>4. Takes6(SetOf(d, lo, hi), SetOf(s, lo, hi))
  BY <1>1, LeafTakes, ListTaken6
<1>5. Takes5(SetOf(d, lo, hi), SetOf(s, lo, hi))
  BY <1>1, LeafTakes, ListTaken5
<1>6. Takes3(SetOf(d, lo, hi), SetOf(s, lo, hi))
  BY <1>1, LeafTakes, ListTaken3
<1>. QED
  BY <1>2, <1>3, <1>4, <1>5, <1>6

LEMMA SetOfAgrees ==
  ASSUME NEW d, NEW s, NEW lo, NEW hi, Paired(d, s), Fixed(d)
  PROVE  /\ Agrees(SetOf(d, lo, hi), SetOf(s, lo, hi))
         /\ Agrees7(SetOf(d, lo, hi), SetOf(s, lo, hi))
         /\ Agrees6(SetOf(d, lo, hi), SetOf(s, lo, hi))
         /\ Agrees5(SetOf(d, lo, hi), SetOf(s, lo, hi))
         /\ Agrees3(SetOf(d, lo, hi), SetOf(s, lo, hi))
BY SetOfConforms, SetOfTakes DEF Agrees, Agrees7, Agrees6, Agrees5, Agrees3

----------------------------------------------------------------------------
(* The decoders of domain.ts against the schemas, object by object. *)

LEMMA SessionFlat == Flat(decodeSession, SessionSchema)
<1> DEFINE d == decodeSession  s == SessionSchema
           W(f) == Alike(d.req[f], s.req[f])
           O(f) == Alike(d.opt[f], s.opt[f])
<1> USE DEF decodeSession, SessionSchema, Object, None
<1>1. /\ Closed(d, s)
      /\ DOMAIN d.req = {"id", "user_id", "created_at", "updated_at", "name",
                         "vcpus", "memory_mib", "running_seconds", "slug", "url",
                         "status"}
      /\ DOMAIN d.opt = {"agent"}
  BY DEF Closed
<1>2. W("id") /\ W("user_id") /\ W("created_at") /\ W("updated_at") /\ W("name")
  BY NamedReaders, TextReaders
<1>3. W("vcpus") /\ W("memory_mib") /\ W("running_seconds")
  BY NumberReaders
<1>4. W("slug") /\ W("url")
  BY PatternReaders, BrandedReaders
     DEF RuntimeUrl
<1>5. W("status") /\ O("agent")
  BY Reflexive
     DEF STATUSES, AGENTS, Agent
<1> HIDE DEF decodeSession, SessionSchema
<1>. QED
  BY <1>1, <1>2, <1>3, <1>4, <1>5 DEF Flat, Paired

LEMMA AgentSessionFlat == Flat(decodeAgentSession, AgentSession)
<1> DEFINE d == decodeAgentSession  s == AgentSession
           W(f) == Alike(d.req[f], s.req[f])
           O(f) == Alike(d.opt[f], s.opt[f])
<1> USE DEF decodeAgentSession, AgentSession, Object, None
<1>1. /\ Closed(d, s)
      /\ DOMAIN d.req = {"id", "machine_id", "created_at", "updated_at", "name",
                         "cwd", "row_version", "agent", "auth_mode", "desired_state",
                         "request_state", "process_state"}
      /\ DOMAIN d.opt = {"process_epoch", "workspace_binding_id",
                         "runtime_observed_at", "runtime_expires_at",
                         "termination_requested_at", "workspace_generation"}
  BY DEF Closed
<1>2. W("id") /\ W("machine_id") /\ W("created_at") /\ W("updated_at") /\
      O("process_epoch") /\ O("workspace_binding_id") /\ O("runtime_observed_at") /\
      O("runtime_expires_at") /\ O("termination_requested_at")
  BY NamedReaders
<1>3. W("name")
  BY TextReaders
     DEF Name80
<1>4. W("cwd")
  BY PatternReaders
     DEF Cwd
<1>5. W("row_version") /\ O("workspace_generation")
  BY NumberReaders
<1>6. W("agent") /\ W("auth_mode") /\ W("desired_state") /\ W("request_state") /\
      W("process_state")
  BY Reflexive
     DEF AGENTS, Agent, AGENT_SESSION_AUTH_MODES, AuthMode
<1> HIDE DEF decodeAgentSession, AgentSession
<1>. QED
  BY <1>1, <1>2, <1>3, <1>4, <1>5, <1>6 DEF Flat, Paired

LEMMA ChunkReceiptFlat == Flat(syncChunkReceipt, WorkspaceSyncChunkReceipt)
<1> DEFINE d == syncChunkReceipt  s == WorkspaceSyncChunkReceipt
           W(f) == Alike(d.req[f], s.req[f])
<1> USE DEF syncChunkReceipt, WorkspaceSyncChunkReceipt, Object, None
<1>1. /\ Closed(d, s)
      /\ DOMAIN d.req = {"selected_protocol", "digest", "stored", "byte_length"}
      /\ DOMAIN d.opt = {}
  BY DEF Closed
<1>2. W("selected_protocol") /\ W("digest") /\ W("stored")
  BY NamedReaders, PlainReaders
<1>3. W("byte_length")
  BY NumberReaders
     DEF Between
<1> HIDE DEF syncChunkReceipt, WorkspaceSyncChunkReceipt
<1>. QED
  BY <1>1, <1>2, <1>3 DEF Flat, Paired

LEMMA CommitReceiptFlat == Flat(syncCommitReceipt, WorkspaceSyncCommitReceipt)
<1> DEFINE d == syncCommitReceipt  s == WorkspaceSyncCommitReceipt
           W(f) == Alike(d.req[f], s.req[f])
<1> USE DEF syncCommitReceipt, WorkspaceSyncCommitReceipt, Object, None
<1>1. /\ Closed(d, s)
      /\ DOMAIN d.req = {"selected_protocol", "manifest_root", "committed_at",
                         "state", "generation", "minimum_reader", "minimum_writer"}
      /\ DOMAIN d.opt = {}
  BY DEF Closed
<1>2. W("selected_protocol") /\ W("manifest_root") /\ W("committed_at")
  BY NamedReaders, PlainReaders
<1>3. W("state") /\ W("generation") /\ W("minimum_reader") /\ W("minimum_writer")
  BY NumberReaders, Reflexive
<1> HIDE DEF syncCommitReceipt, WorkspaceSyncCommitReceipt
<1>. QED
  BY <1>1, <1>2, <1>3 DEF Flat, Paired

LEMMA ReconcileReceiptFlat == Flat(syncReconcileReceipt, WorkspaceSyncReconcileReceipt)
<1> DEFINE d == syncReconcileReceipt  s == WorkspaceSyncReconcileReceipt
           W(f) == Alike(d.req[f], s.req[f])
<1> USE DEF syncReconcileReceipt, WorkspaceSyncReconcileReceipt, Object, None
<1>1. /\ Closed(d, s)
      /\ DOMAIN d.req = {"selected_protocol", "active_manifest_root",
                         "exclusion_policy_digest", "status", "active_generation"}
      /\ DOMAIN d.opt = {}
  BY DEF Closed
<1>2. W("selected_protocol") /\ W("active_manifest_root") /\
      W("exclusion_policy_digest")
  BY NamedReaders, PlainReaders
<1>3. W("status") /\ W("active_generation")
  BY NumberReaders, Reflexive
<1> HIDE DEF syncReconcileReceipt, WorkspaceSyncReconcileReceipt
<1>. QED
  BY <1>1, <1>2, <1>3 DEF Flat, Paired

LEMMA MachineCreateFlat == Flat(decodeMachineCreateRequest, MachineCreateRequest)
<1> DEFINE d == decodeMachineCreateRequest  s == MachineCreateRequest
           W(f) == Alike(d.req[f], s.req[f])
<1> USE DEF decodeMachineCreateRequest, MachineCreateRequest, Object, None
<1>1. /\ Closed(d, s)
      /\ DOMAIN d.req = {"id", "machine_id", "updated_at", "state", "retryable",
                         "action"}
      /\ DOMAIN d.opt = {}
  BY DEF Closed
<1>2. W("id") /\ W("machine_id") /\ W("updated_at")
  BY NamedReaders
<1>3. W("state") /\ W("retryable") /\ W("action")
  BY PlainReaders, Reflexive
<1> HIDE DEF decodeMachineCreateRequest, MachineCreateRequest
<1>. QED
  BY <1>1, <1>2, <1>3 DEF Flat, Paired

LEMMA ExecFlat == Flat(decodeExec, ExecResult)
<1> DEFINE d == decodeExec  s == ExecResult
           W(f) == Alike(d.req[f], s.req[f])
<1> USE DEF decodeExec, ExecResult, Object, None
<1>1. /\ Closed(d, s)
      /\ DOMAIN d.req = {"exit_code", "duration_ms", "stdout", "stderr",
                         "stdout_truncated", "stderr_truncated"}
      /\ DOMAIN d.opt = {}
  BY DEF Closed
<1>2. W("exit_code") /\ W("duration_ms")
  BY NumberReaders
     DEF integer
<1>3. W("stdout") /\ W("stderr")
  BY TextReaders
<1>4. W("stdout_truncated") /\ W("stderr_truncated")
  BY PlainReaders
<1> HIDE DEF decodeExec, ExecResult
<1>. QED
  BY <1>1, <1>2, <1>3, <1>4 DEF Flat, Paired

LEMMA AcknowledgementFlat == Flat(decodeAcknowledgement, Ok)
<1> DEFINE d == decodeAcknowledgement  s == Ok
           W(f) == Alike(d.req[f], s.req[f])
<1> USE DEF decodeAcknowledgement, Ok, Object, None
<1>1. /\ Closed(d, s)
      /\ DOMAIN d.req = {"ok"}
      /\ DOMAIN d.opt = {}
  BY DEF Closed
<1>2. W("ok")
  BY PlainReaders
<1> HIDE DEF decodeAcknowledgement, Ok
<1>. QED
  BY <1>1, <1>2 DEF Flat, Paired

LEMMA OpenFlat == Flat(decodeOpen, OpenResult)
<1> DEFINE d == decodeOpen  s == OpenResult
           W(f) == Alike(d.req[f], s.req[f])
<1> USE DEF decodeOpen, OpenResult, Object, None
<1>1. /\ Closed(d, s)
      /\ DOMAIN d.req = {"url"}
      /\ DOMAIN d.opt = {}
  BY DEF Closed
<1>2. W("url")
  BY BrandedReaders
<1> HIDE DEF decodeOpen, OpenResult
<1>. QED
  BY <1>1, <1>2 DEF Flat, Paired

LEMMA ProblemFlat == Flat(decodeProblem, ProblemSchema)
<1> DEFINE d == decodeProblem  s == ProblemSchema
           W(f) == Alike(d.req[f], s.req[f])
           O(f) == Alike(d.opt[f], s.opt[f])
<1> USE DEF decodeProblem, ProblemSchema, Object, None
<1>1. /\ Closed(d, s)
      /\ DOMAIN d.req = {"type", "code", "title", "request_id", "retryable", "status"}
      /\ DOMAIN d.opt = {"detail", "action"}
  BY DEF Closed
<1>2. W("type") /\ W("code")
  BY BrandedReaders, PatternReaders
<1>3. W("title") /\ W("request_id") /\ W("retryable") /\ O("detail")
  BY NamedReaders, TextReaders, PlainReaders
<1>4. W("status")
  BY NumberReaders
<1>5. O("action")
  BY Reflexive
<1> HIDE DEF decodeProblem, ProblemSchema
<1>. QED
  BY <1>1, <1>2, <1>3, <1>4, <1>5 DEF Flat, Paired

LEMMA ChunkOfEntryFlat == Flat(chunkOfEntry, WorkspaceSyncChunkRef)
<1> DEFINE d == chunkOfEntry  s == WorkspaceSyncChunkRef
           W(f) == Alike(d.req[f], s.req[f])
<1> USE DEF chunkOfEntry, WorkspaceSyncChunkRef, Object, None
<1>1. /\ Closed(d, s)
      /\ DOMAIN d.req = {"digest", "byte_length"}
      /\ DOMAIN d.opt = {}
  BY DEF Closed
<1>2. W("digest") /\ W("byte_length")
  BY NamedReaders, NumberReaders
     DEF Between
<1> HIDE DEF chunkOfEntry, WorkspaceSyncChunkRef
<1>. QED
  BY <1>1, <1>2 DEF Flat, Paired

LEMMA RecordFlat == Flat(decodeRecord, RecordSchema)
<1> DEFINE d == decodeRecord  s == RecordSchema
           W(f) == Alike(d.req[f], s.req[f])
<1> USE DEF decodeRecord, RecordSchema, Object, None
<1>1. /\ Closed(d, s)
      /\ DOMAIN d.req = {"id", "session_id", "created_at", "kind", "summary",
                         "detail"}
      /\ DOMAIN d.opt = {}
  BY DEF Closed
<1>2. W("id") /\ W("session_id") /\ W("created_at")
  BY NamedReaders
<1>3. W("kind") /\ W("summary") /\ W("detail")
  BY TextReaders, PlainReaders
<1> HIDE DEF decodeRecord, RecordSchema
<1>. QED
  BY <1>1, <1>2, <1>3 DEF Flat, Paired

LEMMA TerminalCapabilityFlat == Flat(terminalCapability, TerminalConnectionCapability)
<1> DEFINE d == terminalCapability  s == TerminalConnectionCapability
           W(f) == Alike(d.req[f], s.req[f])
<1> USE DEF terminalCapability, TerminalConnectionCapability, Object, None
<1>1. /\ Closed(d, s)
      /\ DOMAIN d.req = {"name", "availability"}
      /\ DOMAIN d.opt = {}
  BY DEF Closed
<1>2. W("name") /\ W("availability")
  BY Reflexive
     DEF TERMINAL_CAPABILITY_NAMES, TerminalCapabilityNames
<1> HIDE DEF terminalCapability, TerminalConnectionCapability
<1>. QED
  BY <1>1, <1>2 DEF Flat, Paired

LEMMA WaitlistedFlat == Flat(waitlisted, WaitlistedWorkspace)
<1> DEFINE d == waitlisted  s == WaitlistedWorkspace
           W(f) == Alike(d.req[f], s.req[f])
<1> USE DEF waitlisted, WaitlistedWorkspace, Object, None
<1>1. /\ Closed(d, s)
      /\ DOMAIN d.req = {"assigned", "waitlist_position"}
      /\ DOMAIN d.opt = {}
  BY DEF Closed
<1>2. W("assigned") /\ W("waitlist_position")
  BY PlainReaders, NumberReaders
<1> HIDE DEF waitlisted, WaitlistedWorkspace
<1>. QED
  BY <1>1, <1>2 DEF Flat, Paired

LEMMA AlikePaired ==
  ASSUME NEW d, NEW s, Alike(d, s) PROVE Paired(d, s)
BY DEF Paired

(* The six capabilities of the protocol, in any place.                     *)
LEMMA CapabilityNamed ==
  /\ Fixed(syncCapabilities.of)
  /\ Paired(syncCapabilities.of, SyncCapabilityList(6).of)
<1> DEFINE d == syncCapabilities  s == SyncCapabilityList(6)
<1>1. d.of = Exactly({WORKSPACE_SYNC_CAPABILITIES[i] : i \in 1..6},
WORKSPACE_SYNC_CAPABILITIES[1])
  BY DEF syncCapabilities, SetLike
<1>2. s.of = Enum(SyncCapabilities, "policy_bound_admission")
  BY DEF SyncCapabilityList, SetLike
<1>3. {WORKSPACE_SYNC_CAPABILITIES[i] : i \in 1..6} = {Word(w) : w \in SyncCapabilities}
  <2>1. \A i \in 1..6 : \E w \in SyncCapabilities : WORKSPACE_SYNC_CAPABILITIES[i] = Word(w)
    BY DEF WORKSPACE_SYNC_CAPABILITIES, Words, SyncCapabilities
  <2>2. \A w \in SyncCapabilities : \E i \in 1..6 : WORKSPACE_SYNC_CAPABILITIES[i] = Word(w)
    BY DEF WORKSPACE_SYNC_CAPABILITIES, Words, SyncCapabilities
  <2>. QED
    BY <2>1, <2>2
<1>4. \A w : Bare(Word(w))
  BY DEF Bare, Is, Word
<1>5. SameValues(d.of, s.of) /\ SameValues(d.of, d.of)
  BY <1>1, <1>2, <1>3, <1>4 DEF SameValues, Exactly, Enum
<1>. QED
  BY <1>5 DEF Fixed, Alike, Paired

LEMMA CapabilitiesAgree ==
  /\ Agrees7(syncCapabilities, SyncCapabilityList(6))
  /\ Agrees6(syncCapabilities, SyncCapabilityList(6))
  /\ Agrees5(syncCapabilities, SyncCapabilityList(6))
<1> DEFINE d == syncCapabilities  s == SyncCapabilityList(6)
<1>1. Listed(d, s) /\ Wider(d, s)
  BY DEF Listed, Wider, syncCapabilities, SyncCapabilityList, SetLike
<1>2. Fixed(d.of) /\ Paired(d.of, s.of)
  BY CapabilityNamed
<1> HIDE DEF d, s
<1>3. Conforms7(d, s) /\ Conforms6(d, s) /\ Conforms5(d, s)
  BY <1>1, <1>2, FixedMinted, LeafConforms, List7, List6, List5
<1>4. Takes7(d, s) /\ Takes6(d, s) /\ Takes5(d, s)
  BY <1>1, <1>2, LeafTakes, ListTaken7, ListTaken6, ListTaken5
<1>. QED
  BY <1>3, <1>4 DEF Agrees7, Agrees6, Agrees5, d, s

LEMMA ChunksAgree ==
  Agrees3(ListOf(chunkOfEntry, 0, 4096), ListOf(WorkspaceSyncChunkRef, 0, 4096))
<1>1. Agrees2(chunkOfEntry, WorkspaceSyncChunkRef)
  BY ChunkOfEntryFlat, FlatAgrees DEF chunkOfEntry, WorkspaceSyncChunkRef, Object
<1>. QED
  BY <1>1, ListOfAgrees

LEMMA EntryAgrees ==
  Agrees4(syncManifestEntry, WorkspaceSyncManifestEntry)
<1> DEFINE d == syncManifestEntry  s == WorkspaceSyncManifestEntry
           W(f) == Paired(d.req[f], s.req[f])
<1> USE DEF syncManifestEntry, WorkspaceSyncManifestEntry, Object, None
<1>1. /\ Closed(d, s) /\ s.rule = "none" /\ d.rule = "none"
      /\ DOMAIN d.req = {"path", "byte_length", "kind", "executable", "link_target",
                         "chunks"}
      /\ DOMAIN d.opt = {}
  BY DEF Closed
<1>2. W("path") /\ W("byte_length")
  BY TextReaders, NumberReaders, AlikePaired
<1>3. W("kind") /\ W("executable")
  BY Reflexive, PlainReaders, AlikePaired
<1>4. W("link_target")
  BY NullableReaders, TextReaders
<1>5. Agrees3(d.req["chunks"], s.req["chunks"])
  BY ChunksAgree
<1> HIDE DEF syncManifestEntry, WorkspaceSyncManifestEntry
<1>6. \A f \in DOMAIN d.req : Agrees3(d.req[f], s.req[f])
  BY <1>1, <1>2, <1>3, <1>4, <1>5, LeafAgrees
<1>7. \A f \in DOMAIN d.opt : Agrees3(d.opt[f], s.opt[f])
  BY <1>1
<1>. QED
  BY <1>1, <1>6, <1>7, NoRule, Object4, Taken4, NothingCompared
     DEF Agrees3, Agrees4

LEMMA SyncSessionAgrees ==
  Agrees7(syncSession, WorkspaceSyncSession) /\ Agrees6(syncSession, WorkspaceSyncSession)
<1> DEFINE d == syncSession  s == WorkspaceSyncSession
           W(f) == Paired(d.req[f], s.req[f])
           O(f) == Paired(d.opt[f], s.opt[f])
<1> USE DEF syncSession, WorkspaceSyncSession, Object, None
<1>1. /\ Closed(d, s) /\ s.rule = "none" /\ d.rule = "none"
      /\ DOMAIN d.req = {"id", "workspace_id", "machine_id", "expires_at",
                         "created_at", "updated_at", "exclusion_policy_digest",
                         "base_generation", "manifest_entry_count",
                         "manifest_encoded_bytes", "content_bytes",
                         "selected_protocol", "state", "capabilities"}
      /\ DOMAIN d.opt = {"committed_manifest_root", "last_page_index",
                         "committed_generation"}
  BY DEF Closed
<1>2. W("id") /\ W("workspace_id") /\ W("machine_id") /\ W("expires_at") /\
      W("created_at") /\ W("updated_at")
  BY NamedReaders, AlikePaired
<1>3. W("exclusion_policy_digest") /\ O("committed_manifest_root")
  BY NamedReaders, AlikePaired
<1>4. W("base_generation") /\ W("manifest_entry_count") /\
      W("manifest_encoded_bytes") /\ W("content_bytes") /\ O("last_page_index") /\
      O("committed_generation")
  BY NumberReaders, AlikePaired
<1>5. W("selected_protocol") /\ W("state")
  BY PlainReaders, Reflexive, AlikePaired
<1>6. /\ Agrees6(d.req["capabilities"], s.req["capabilities"])
      /\ Agrees5(d.req["capabilities"], s.req["capabilities"])
  BY CapabilitiesAgree
<1> HIDE DEF syncSession, WorkspaceSyncSession
<1>7. \A f \in DOMAIN d.req : Agrees6(d.req[f], s.req[f]) /\ Agrees5(d.req[f], s.req[f])
  BY <1>1, <1>2, <1>3, <1>4, <1>5, <1>6, LeafAgrees
<1>8. \A f \in DOMAIN d.opt : Agrees6(d.opt[f], s.opt[f]) /\ Agrees5(d.opt[f], s.opt[f])
  BY <1>1, <1>3, <1>4, LeafAgrees
<1>. QED
  BY <1>1, <1>7, <1>8, NoRule, Object7, Taken7, Object6, Taken6, NothingCompared
     DEF Agrees5, Agrees6, Agrees7

LEMMA ManifestReceiptAgrees ==
  Agrees7(syncManifestReceipt, WorkspaceSyncManifestReceipt)
<1> DEFINE d == syncManifestReceipt  s == WorkspaceSyncManifestReceipt
           W(f) == Paired(d.req[f], s.req[f])
<1> USE DEF syncManifestReceipt, WorkspaceSyncManifestReceipt, Object, None
<1>1. /\ Closed(d, s) /\ s.rule = "none" /\ d.rule = "none"
      /\ DOMAIN d.req = {"page_index", "page_digest", "sync", "missing_digests"}
      /\ DOMAIN d.opt = {}
  BY DEF Closed
<1>2. W("page_index") /\ W("page_digest")
  BY NamedReaders, NumberReaders, AlikePaired
<1>3. Agrees6(d.req["sync"], s.req["sync"])
  BY SyncSessionAgrees
<1>4. Agrees6(d.req["missing_digests"], s.req["missing_digests"])
  BY NamedReaders, AlikePaired, LeafAgrees, ListOfAgrees
<1> HIDE DEF syncManifestReceipt, WorkspaceSyncManifestReceipt
<1>5. \A f \in DOMAIN d.req : Agrees6(d.req[f], s.req[f])
  BY <1>1, <1>2, <1>3, <1>4, LeafAgrees
<1>6. \A f \in DOMAIN d.opt : Agrees6(d.opt[f], s.opt[f])
  BY <1>1
<1>. QED
  BY <1>1, <1>5, <1>6, NoRule, Object7, Taken7, NothingCompared
     DEF Agrees6, Agrees7

LEMMA NullableAgrees ==
  ASSUME NEW d, NEW s, d.k = "object", s.k = "object", Agrees4(d, s)
  PROVE  Agrees4(Nullable(d), Nullable(s))
<1>1. BothOf(Nullable(d), Nullable(s))
  BY DEF BothOf, Nullable, Either, Exactly
<1>2. Paired(Exactly({Null}, Null), Exactly({Null}, Null))
  BY PlainReaders DEF Paired
<1>. QED
  BY <1>1, <1>2, LeafAgrees, Either4 DEF Nullable, Either

LEMMA ChangeItemConforms ==
  /\ Conforms5(syncChangeItem, WorkspaceSyncChangeItem)
  /\ TakesIf5(syncChangeItem, WorkspaceSyncChangeItem)
<1> DEFINE d == syncChangeItem  s == WorkspaceSyncChangeItem
           W(f) == Paired(d.req[f], s.req[f])
<1> USE DEF syncChangeItem, WorkspaceSyncChangeItem, Object, None
<1>1. /\ Closed(d, s) /\ s.rule = "none"
      /\ DOMAIN d.req = {"generation", "minimum_reader", "minimum_writer",
                         "operation", "manifest_root", "exclusion_policy_digest",
                         "committed_at", "path", "entry"}
      /\ DOMAIN d.opt = {}
  BY DEF Closed
<1>2. W("generation") /\ W("minimum_reader") /\ W("minimum_writer") /\ W("operation")
  BY NumberReaders, Reflexive, AlikePaired
<1>3. W("manifest_root") /\ W("exclusion_policy_digest") /\ W("committed_at")
  BY NamedReaders, AlikePaired
<1>4. W("path")
  BY NullableReaders, TextReaders
<1>5. Agrees4(d.req["entry"], s.req["entry"])
  BY EntryAgrees, NullableAgrees DEF syncManifestEntry, WorkspaceSyncManifestEntry
<1> HIDE DEF syncChangeItem, WorkspaceSyncChangeItem
<1>6. \A f \in DOMAIN d.req : Agrees4(d.req[f], s.req[f])
  BY <1>1, <1>2, <1>3, <1>4, <1>5, LeafAgrees
<1>7. \A f \in DOMAIN d.opt : Agrees4(d.opt[f], s.opt[f])
  BY <1>1
<1>. QED
  BY <1>1, <1>6, <1>7, NoRule, Object5, Taken5
     DEF Agrees4, Agrees5

LEMMA ChangePageConforms ==
  Conforms7(syncChangePage, WorkspaceSyncChangePage)
<1> DEFINE d == syncChangePage  s == WorkspaceSyncChangePage
           W(f) == Paired(d.req[f], s.req[f])
<1> USE DEF syncChangePage, WorkspaceSyncChangePage, Object, None
<1>1. /\ Closed(d, s) /\ s.rule = "none"
      /\ DOMAIN d.req = {"selected_protocol", "next_cursor", "items"}
      /\ DOMAIN d.opt = {}
  BY DEF Closed
<1>2. W("selected_protocol")
  BY PlainReaders, AlikePaired
<1>3. W("next_cursor")
  BY NullableReaders, TextReaders
<1>4. Conforms6(d.req["items"], s.req["items"])
  BY ChangeItemConforms, ListOfConforms
<1> HIDE DEF syncChangePage, WorkspaceSyncChangePage
<1>5. \A f \in DOMAIN d.req : Conforms6(d.req[f], s.req[f])
  BY <1>1, <1>2, <1>3, <1>4, LeafConforms
<1>6. \A f \in DOMAIN d.opt : Conforms6(d.opt[f], s.opt[f])
  BY <1>1
<1>. QED
  BY <1>1, <1>5, <1>6, NoRule, Object7

LEMMA EnvelopeConforms ==
  ASSUME NEW data, NEW schema, Conforms7(data, schema)
  PROVE  Conforms(decodeWorkspaceSyncEnvelope(data), Envelope(schema))
<1> DEFINE d == decodeWorkspaceSyncEnvelope(data)  s == Envelope(schema)
           W(f) == Paired(d.req[f], s.req[f])
<1> USE DEF decodeWorkspaceSyncEnvelope, Envelope, Object, None
<1>1. /\ Closed(d, s) /\ s.rule = "none"
      /\ DOMAIN d.req = {"request_id", "selected_protocol", "capabilities", "data"}
      /\ DOMAIN d.opt = {}
  BY DEF Closed
<1>2. W("request_id") /\ W("selected_protocol")
  BY NamedReaders, PlainReaders, AlikePaired
<1>3. Conforms7(d.req["capabilities"], s.req["capabilities"])
  BY CapabilitiesAgree DEF Agrees7
<1>4. Conforms7(d.req["data"], s.req["data"])
  OBVIOUS
<1> HIDE DEF decodeWorkspaceSyncEnvelope, Envelope
<1>5. \A f \in DOMAIN d.req : Conforms7(d.req[f], s.req[f])
  BY <1>1, <1>2, <1>3, <1>4, LeafConforms
<1>6. \A f \in DOMAIN d.opt : Conforms7(d.opt[f], s.opt[f])
  BY <1>1
<1>. QED
  BY <1>1, <1>5, <1>6, NoRule, Object8

LEMMA BindingRule ==
  ASSUME NEW v, NEW o, DOMAIN o = DOMAIN v, Rule("decodeAgentSession", v)
  PROVE  Rule("BindingWithGeneration", o)
<1>1. ("workspace_binding_id" \in DOMAIN v) = ("workspace_generation" \in DOMAIN v)
  BY DEF Rule, ContractRule, DecoderRule, RequestRule
<1>. QED
  BY <1>1 DEF Rule, ContractRule

LEMMA BindingRuled ==
  ASSUME NEW o, Rule("BindingWithGeneration", o)
  PROVE  Rule("decodeAgentSession", o)
<1>1. ("workspace_binding_id" \in DOMAIN o) = ("workspace_generation" \in DOMAIN o)
  BY DEF Rule, ContractRule, DecoderRule, RequestRule
<1>. QED
  BY <1>1 DEF Rule, DecoderRule

LEMMA AgentSessionAgrees ==
  Agrees(decodeAgentSession, AgentSession) /\ Agrees6(decodeAgentSession, AgentSession)
<1> DEFINE d == decodeAgentSession  s == AgentSession
<1>1. Flat(d, s)
  BY AgentSessionFlat
<1>2. /\ d.k = "object" /\ d.rule = "decodeAgentSession"
      /\ s.k = "object" /\ s.rule = "BindingWithGeneration"
  BY DEF decodeAgentSession, AgentSession, Object
<1>3. \A v : DOMAIN MembersBy(Minted7, v.object) = DOMAIN v.object
             /\ DOMAIN MembersBy(Minted5, v.object) = DOMAIN v.object
  BY DEF MembersBy
<1>4. \A v : Fits(d, v) \/ Fits6(d, v) => Rule("decodeAgentSession", v.object)
  BY <1>2, ObjectFits DEF FitsObject
<1>5. \A v : Fits(s, v) \/ Fits6(s, v) => Rule(d.rule, v.object)
  <2>1. \A v : Fits(s, v) \/ Fits6(s, v) => Rule("BindingWithGeneration", v.object)
    BY <1>2, ObjectFits DEF FitsObject
  <2>. QED
    BY <1>2, <2>1, BindingRuled
<1> HIDE DEF d, s
<1>6. Conforms(d, s) /\ TakesIf(d, s)
  <2>1. Conforms(d, s)
    BY <1>1, <1>2, <1>3, <1>4, BindingRule, LeafConforms, Object8 DEF Flat
  <2>. QED
    BY <1>1, <2>1, FlatTakes
<1>7. Conforms6(d, s) /\ TakesIf6(d, s)
  <2>1. Conforms6(d, s)
    BY <1>1, <1>2, <1>3, <1>4, BindingRule, LeafConforms, Object6 DEF Flat
  <2>. QED
    BY <1>1, <2>1, FlatTakes
<1>8. Takes(d, s) /\ Takes6(d, s)
  BY <1>5, <1>6, <1>7 DEF Takes, Takes6, TakesIf, TakesIf6
<1>. QED
  BY <1>6, <1>7, <1>8 DEF Agrees, Agrees6, d, s

LEMMA FixedReaders ==
  /\ \A ws, x : Fixed(Enum(ws, x))
  /\ \A forms, lo, hi, x : Fixed(Matching(forms, lo, hi, x))
<1>1. \A ws, x : SameValues(Enum(ws, x), Enum(ws, x))
  BY DEF SameValues, Enum, Exactly, Bare, Is, Word
<1>2. \A forms, lo, hi, x : /\ Matching(forms, lo, hi, x).k = "pattern"
                            /\ Matching(forms, lo, hi, x).brands = {"plain"}
  BY DEF Matching, Branded
<1>. QED
  BY <1>1, <1>2 DEF Fixed

LEMMA AgentSessionPageAgrees ==
  Agrees(decodeAgentSessionPage, AgentSessionPage)
<1> DEFINE d == decodeAgentSessionPage  s == AgentSessionPage
           O(f) == Paired(d.opt[f], s.opt[f])
<1> USE DEF decodeAgentSessionPage, AgentSessionPage, Object, None
<1>1. /\ Closed(d, s) /\ s.rule = "none" /\ d.rule = "none"
      /\ DOMAIN d.req = {"items"}
      /\ DOMAIN d.opt = {"next_cursor"}
  BY DEF Closed
<1>2. O("next_cursor")
  BY TextReaders, AlikePaired
<1>3. Agrees7(d.req["items"], s.req["items"])
  BY AgentSessionAgrees, ListOfAgrees
<1> HIDE DEF decodeAgentSessionPage, AgentSessionPage
<1>4. \A f \in DOMAIN d.req : Agrees7(d.req[f], s.req[f])
  BY <1>1, <1>3, LeafAgrees
<1>5. \A f \in DOMAIN d.opt : Agrees7(d.opt[f], s.opt[f])
  BY <1>1, <1>2, LeafAgrees
<1>. QED
  BY <1>1, <1>4, <1>5, NoRule, Object8, Taken8, NothingCompared
     DEF Agrees, Agrees7

LEMMA CapabilityAgrees ==
  Agrees6(decodeCapability, Capability)
<1> DEFINE d == decodeCapability  s == Capability
           W(f) == Paired(d.req[f], s.req[f])
           O(f) == Paired(d.opt[f], s.opt[f])
<1> USE DEF decodeCapability, Capability, Object, None
<1>1. /\ Closed(d, s) /\ s.rule = "none" /\ d.rule = "none"
      /\ DOMAIN d.req = {"id", "availability", "interaction", "mutation_class",
                         "surfaces", "required_permissions"}
      /\ DOMAIN d.opt = {"reason_code"}
  BY DEF Closed
<1>2. W("id") /\ O("reason_code")
  BY PatternReaders, AlikePaired
<1>3. W("availability") /\ W("interaction") /\ W("mutation_class")
  BY Reflexive, AlikePaired
<1>4. Agrees5(d.req["surfaces"], s.req["surfaces"])
  BY SetOfAgrees, FixedReaders, Reflexive, AlikePaired
<1>5. Agrees5(d.req["required_permissions"], s.req["required_permissions"])
  BY SetOfAgrees, FixedReaders, PatternReaders, AlikePaired
<1> HIDE DEF decodeCapability, Capability
<1>6. \A f \in DOMAIN d.req : Agrees5(d.req[f], s.req[f])
  BY <1>1, <1>2, <1>3, <1>4, <1>5, LeafAgrees
<1>7. \A f \in DOMAIN d.opt : Agrees5(d.opt[f], s.opt[f])
  BY <1>1, <1>2, LeafAgrees
<1>. QED
  BY <1>1, <1>6, <1>7, NoRule, Object6, Taken6, NothingCompared
     DEF Agrees5, Agrees6

LEMMA CapabilitySnapshotConforms ==
  /\ Conforms(decodeCapabilitySnapshot, CapabilitySnapshot)
  /\ TakesIf(decodeCapabilitySnapshot, CapabilitySnapshot)
<1> DEFINE d == decodeCapabilitySnapshot  s == CapabilitySnapshot
           W(f) == Paired(d.req[f], s.req[f])
           O(f) == Paired(d.opt[f], s.opt[f])
<1> USE DEF decodeCapabilitySnapshot, CapabilitySnapshot, Object, None
<1>1. /\ Closed(d, s) /\ s.rule = "none"
      /\ DOMAIN d.req = {"schema_version", "subject_scope", "observed_at",
                         "expires_at", "etag", "capabilities"}
      /\ DOMAIN d.opt = {"subject_id"}
  BY DEF Closed
<1>2. W("schema_version") /\ W("subject_scope")
  BY Reflexive, AlikePaired
<1>3. W("observed_at") /\ W("expires_at") /\ W("etag") /\ O("subject_id")
  BY NamedReaders, AlikePaired
<1>4. Agrees7(d.req["capabilities"], s.req["capabilities"])
  BY CapabilityAgrees, ListOfAgrees
<1> HIDE DEF decodeCapabilitySnapshot, CapabilitySnapshot
<1>5. \A f \in DOMAIN d.req : Agrees7(d.req[f], s.req[f])
  BY <1>1, <1>2, <1>3, <1>4, LeafAgrees
<1>6. \A f \in DOMAIN d.opt : Agrees7(d.opt[f], s.opt[f])
  BY <1>1, <1>3, LeafAgrees
<1>. QED
  BY <1>1, <1>5, <1>6, NoRule, Object8, Taken8
     DEF Agrees, Agrees7

LEMMA BoundedContent ==
  ASSUME NEW hi, NEW eg, NEW forms, NEW x, NEW y, x.len = y.int,
         FitsLeaf(SafeWhole(0, hi, eg), y),
         FitsLeaf(Matching(forms, 0, Unbounded, Str("base64", eg, 1, "plain")), x)
  PROVE  FitsLeaf(Matching(forms, 0, hi, Str("base64", eg, 1, "plain")), x)
<1>1. y.int \in 0..hi
  BY DEF FitsLeaf, SafeWhole
<1>2. x \in Strings(forms, 0, Unbounded, {"plain"})
  BY DEF FitsLeaf, Matching, Branded
<1>3. x \in Strings(forms, 0, hi, {"plain"})
  BY <1>1, <1>2 DEF Strings
<1>. QED
  BY <1>3 DEF FitsLeaf, Matching, Branded

LEMMA ChunkContentConforms == Conforms7(syncChunkContent, WorkspaceSyncChunkContent)
<1> DEFINE d == syncChunkContent  s == WorkspaceSyncChunkContent
           W(f) == Paired(d.req[f], s.req[f])
<1> SUFFICES ASSUME NEW v, Fits7(d, v) PROVE Fits7(s, Minted7(v))
  BY DEF Conforms7
<1> USE DEF syncChunkContent, WorkspaceSyncChunkContent, Object, None
<1>1. /\ Closed(d, s) /\ d.rule = "syncChunkContent" /\ s.rule = "none"
      /\ DOMAIN d.req = {"selected_protocol", "digest", "byte_length",
                         "minimum_reader", "content_base64"}
      /\ DOMAIN d.opt = {}
  BY DEF Closed
<1>2. W("selected_protocol") /\ W("digest")
  BY NamedReaders, PlainReaders, AlikePaired
<1>3. W("byte_length") /\ W("minimum_reader")
  BY NumberReaders, AlikePaired
     DEF Between
<1>4. /\ d.req["byte_length"] = SafeWhole(0, 8388608, 9)
      /\ d.req["content_base64"] = Matching({"base64", "base64_loose"}, 0, Unbounded,
                                            Str("base64", 9, 1, "plain"))
      /\ s.req["content_base64"] = Matching({"base64", "base64_loose"}, 0, 8388608,
                                            Str("base64", 9, 1, "plain"))
  OBVIOUS
<1> HIDE DEF d, s
<1>5. /\ \A f \in DOMAIN d.req \ {"content_base64"} : Conforms6(d.req[f], s.req[f])
      /\ \A f \in DOMAIN d.opt : Conforms6(d.opt[f], s.opt[f])
  BY <1>1, <1>2, <1>3, LeafConforms
<1> DEFINE o == v.object
<1>6. /\ IsObject(v) /\ Rule(d.rule, o)
      /\ \A f \in DOMAIN d.req : Fits6(d.req[f], o[f])
      /\ \A f \in DOMAIN d.opt \cap DOMAIN o : Fits6(d.opt[f], o[f])
  BY <1>1, ObjectFits DEF FitsObject, Closed
<1>7. ContentMatches(o)
  BY <1>1, <1>6 DEF Rule, ContractRule, DecoderRule, RequestRule
<1>8. Fits6(s.req["content_base64"], Minted6(o["content_base64"]))
  <2>1. /\ d.req["content_base64"].k \in Leaves /\ d.req["byte_length"].k \in Leaves
        /\ s.req["content_base64"].k \in Leaves
    BY <1>4 DEF Leaves, Matching, Branded, SafeWhole
  <2>2. FitsLeaf(d.req["content_base64"], o["content_base64"])
        /\ FitsLeaf(d.req["byte_length"], o["byte_length"])
    BY <1>1, <1>6, <2>1, LeafFits
  <2>3. o["content_base64"].len = o["byte_length"].int
    BY <1>7 DEF ContentMatches
  <2>4. FitsLeaf(s.req["content_base64"], o["content_base64"])
    BY <1>4, <2>2, <2>3, BoundedContent
  <2>5. Minted6(o["content_base64"]) = o["content_base64"]
    BY <1>1, <1>6, <1>4, FixedMinted, FixedReaders
  <2>. QED
    BY <2>1, <2>4, <2>5, LeafFits
<1>9. Rule(s.rule, MembersBy(Minted6, o))
  BY <1>1, NoRule
<1>10. /\ \A f \in DOMAIN d.req : Fits6(s.req[f], Minted6(o[f]))
      /\ \A f \in DOMAIN d.opt \cap DOMAIN o : Fits6(s.opt[f], Minted6(o[f]))
  BY <1>1, <1>5, <1>6, <1>8 DEF Conforms6
<1>. QED
  BY <1>1, <1>10, <1>9, Given7

LEMMA BindingConforms == Conforms(decodeWorkspaceBinding, WorkspaceBindingSchema)
<1> DEFINE d == decodeWorkspaceBinding  s == WorkspaceBindingSchema
           W(f) == Paired(d.req[f], s.req[f])
<1> SUFFICES ASSUME NEW v, Fits(d, v) PROVE Fits(s, AsMinted(v))
  BY DEF Conforms
<1> USE DEF decodeWorkspaceBinding, WorkspaceBindingSchema, Object, None
<1>1. /\ Closed(d, s) /\ d.rule = "decodeWorkspaceBinding" /\ s.rule = "none"
      /\ DOMAIN d.req = {"binding_id", "workspace_id", "project_id",
                         "local_instance_id", "machine_id", "created_at",
                         "updated_at", "exclusion_policy_digest",
                         "active_manifest_root", "minimum_reader", "minimum_writer",
                         "active_generation", "binding_epoch", "remote_root"}
      /\ DOMAIN d.opt = {}
  BY DEF Closed
<1>2. W("binding_id") /\ W("workspace_id") /\ W("project_id") /\
      W("local_instance_id") /\ W("machine_id") /\ W("created_at") /\ W("updated_at")
  BY NamedReaders, AlikePaired
<1>3. W("exclusion_policy_digest") /\ W("active_manifest_root") /\
      W("minimum_reader") /\ W("minimum_writer")
  BY NamedReaders, NumberReaders, AlikePaired
<1>4. W("active_generation") /\ W("binding_epoch")
  BY NumberReaders, AlikePaired
     DEF safeInteger
<1>5. s.req["remote_root"] = Matching({"root"}, 0, 0, Str("root", 0, 1, "plain"))
  OBVIOUS
<1> HIDE DEF d, s
<1>6. /\ \A f \in DOMAIN d.req \ {"remote_root"} : Conforms7(d.req[f], s.req[f])
      /\ \A f \in DOMAIN d.opt : Conforms7(d.opt[f], s.opt[f])
  BY <1>1, <1>2, <1>3, <1>4, LeafConforms
<1> DEFINE o == v.object
<1>7. /\ IsObject(v) /\ Rule(d.rule, o)
      /\ \A f \in DOMAIN d.req : Fits7(d.req[f], o[f])
      /\ \A f \in DOMAIN d.opt \cap DOMAIN o : Fits7(d.opt[f], o[f])
  BY <1>1, ObjectFits DEF FitsObject, Closed
<1>8. o["remote_root"] \in Strings({"root"}, 0, 0, {"plain"})
  BY <1>1, <1>7 DEF Rule, ContractRule, DecoderRule, RequestRule
<1>9. Fits7(s.req["remote_root"], Minted7(o["remote_root"]))
  <2>1. FitsLeaf(s.req["remote_root"], o["remote_root"]) /\ s.req["remote_root"].k \in Leaves
    BY <1>5, <1>8 DEF FitsLeaf, Leaves, Matching, Branded
  <2>2. Fixed(s.req["remote_root"])
    BY <1>5, FixedReaders
  <2>. QED
    BY <2>1, <2>2, LeafFits, FixedMinted
<1>10. Rule(s.rule, MembersBy(Minted7, o))
  BY <1>1, NoRule
<1>11. /\ \A f \in DOMAIN d.req : Fits7(s.req[f], Minted7(o[f]))
      /\ \A f \in DOMAIN d.opt \cap DOMAIN o : Fits7(s.opt[f], Minted7(o[f]))
  BY <1>1, <1>6, <1>7, <1>9 DEF Conforms7
<1>. QED
  BY <1>1, <1>11, <1>10, Given8

(* The names of the capabilities of a grant.                               *)
NamesIn(v) == {e.object.name.word : e \in Elements(v)}

LEMMA FiveNames ==
  IsFiniteSet(TerminalCapabilityNames) /\ Cardinality(TerminalCapabilityNames) = 5
<1> DEFINE A == {"acknowledgement"}  B == A \cup {"heartbeat"}
           C == B \cup {"live_resize"}  D == C \cup {"resume"}
<1>1. IsFiniteSet(A) /\ Cardinality(A) = 1
  BY FS_Singleton
<1>2. IsFiniteSet(B) /\ Cardinality(B) = 2
  BY <1>1, FS_AddElement
<1>3. IsFiniteSet(C) /\ Cardinality(C) = 3
  BY <1>2, FS_AddElement
<1>4. IsFiniteSet(D) /\ Cardinality(D) = 4
  BY <1>3, FS_AddElement
<1>5. IsFiniteSet(D \cup {"signals"}) /\ Cardinality(D \cup {"signals"}) = 5
  BY <1>4, FS_AddElement
<1>6. TerminalCapabilityNames = D \cup {"signals"}
  BY DEF TerminalCapabilityNames
<1>. QED
  BY <1>5, <1>6

(* Five capabilities with the five names are five different ones.          *)
LEMMA NamedApart ==
  ASSUME NEW w, IsList(w), Length(w) = 5, NamesIn(w) = TerminalCapabilityNames
  PROVE  Distinct(w)
<1> DEFINE E == Elements(w)  name == [e \in E |-> e.object.name.word]
<1>1. name \in Surjection(E, TerminalCapabilityNames)
  BY DEF NamesIn, Surjection
<1>2. CASE Is("items", w)
  <2>1. Len(w.items) = 5 /\ w.items \in Seq(E)
    BY <1>2 DEF IsList, Length, Is
  <2> DEFINE n == Len(w.items)
  <2>2. DOMAIN w.items = 1..n /\ E = {w.items[i] : i \in 1..n}
    BY <1>2, <2>1, LenProperties DEF Elements
  <2>3. w.items \in Surjection(1..n, E)
    BY <2>1, <2>2, LenProperties DEF Surjection
  <2>4. IsFiniteSet(1..n) /\ Cardinality(1..n) = n
    <3>1. \A b \in Nat : b >= 1 => IsFiniteSet(1..b) /\ Cardinality(1..b) = b
      BY FS_Interval
    <3>2. n \in Nat /\ n >= 1
      BY <2>1
    <3>. QED
      BY <3>1, <3>2
  <2>5. IsFiniteSet(E) /\ Cardinality(E) <= 5
    BY <2>1, <2>3, <2>4, FS_Surjection
  <2>6. 5 <= Cardinality(E)
    BY <1>1, <2>5, FiveNames, FS_Surjection
  <2>7. Cardinality(E) = 5
    BY <2>5, <2>6, FS_CardinalityType
  <2>. QED
    BY <1>2, <2>7 DEF Distinct
<1>3. CASE ~Is("items", w)
  <2>1. E = {w.many} /\ IsFiniteSet(E) /\ Cardinality(E) = 1
    BY <1>3, FS_Singleton DEF Elements
  <2>2. 5 <= 1
    BY <1>1, <2>1, FiveNames, FS_Surjection
  <2>. QED
    BY <2>2
<1>. QED
  BY <1>2, <1>3

LEMMA MintedNames ==
  ASSUME NEW c, IsList(c), \A e \in Elements(c) : Fits6(terminalCapability, e)
  PROVE  NamesIn(Minted7(c)) = NamesIn(c)
<1>1. ASSUME NEW e \in Elements(c) PROVE Minted6(e).object.name = e.object.name
  <2> DEFINE d == terminalCapability
  <2> USE DEF terminalCapability, Object, None
  <2>1. /\ d.k = "object" /\ ~d.open /\ DOMAIN d.req = {"name", "availability"}
        /\ DOMAIN d.opt = {}
        /\ d.req["name"] = Enum(TERMINAL_CAPABILITY_NAMES, "resume")
    OBVIOUS
  <2> HIDE DEF terminalCapability, Object, None
  <2>2. FitsObject(Fits5, d, e)
    BY <1>1, <2>1, ObjectFits
  <2>3. IsObject(e) /\ DOMAIN e.object = {"name", "availability"}
    BY <2>1, <2>2 DEF FitsObject, Exact
  <2>4. Minted6(e) = Obj(MembersBy(Minted5, e.object))
    BY <2>3, ObjectMinted
  <2>5. Minted5(e.object["name"]) = e.object["name"]
    BY <2>1, <2>2, FixedReaders, FixedMinted DEF FitsObject
  <2>. QED
    BY <2>3, <2>4, <2>5 DEF Obj, MembersBy
<1>2. Minted7(c) = ElementsBy(Minted6, c)
  BY ListMinted
<1>3. Elements(ElementsBy(Minted6, c)) = {Minted6(e) : e \in Elements(c)}
  <2>1. CASE Is("items", c)
    BY <2>1 DEF ElementsBy, Elements, Arr, Is
  <2>2. CASE ~Is("items", c)
    BY <2>2 DEF ElementsBy, Elements, Many, Is
  <2>. QED
    BY <2>1, <2>2
<1>. QED
  BY <1>1, <1>2, <1>3 DEF NamesIn

LEMMA FiveConform ==
  ASSUME NEW c, Fits7(ListOf(terminalCapability, 5, 5), c), NamesIn(c) = TerminalCapabilityNames
  PROVE  /\ Fits7(SetLike(TerminalConnectionCapability, 5, 5, FiveCapabilities), Minted7(c))
         /\ NamesIn(Minted7(c)) = TerminalCapabilityNames
<1> DEFINE d == ListOf(terminalCapability, 5, 5)
           s == ListOf(TerminalConnectionCapability, 5, 5)
           u == SetLike(TerminalConnectionCapability, 5, 5, FiveCapabilities)
           w == Minted7(c)
<1>1. /\ d.k = "list" /\ s.k = "list" /\ u.k = "list"
      /\ d.of = terminalCapability
      /\ u.of = s.of /\ u.lo = s.lo /\ u.hi = s.hi /\ s.lo = 5 /\ s.hi = 5
  BY DEF ListOf, SetLike
<1>2. Conforms7(d, s)
  BY TerminalCapabilityFlat, FlatConforms, ListOfConforms DEF TerminalConnectionCapability,
     Object
<1> HIDE DEF d, s, u, w
<1>3. FitsList(Fits6, d, c)
  BY <1>1, ListFits DEF d
<1>4. FitsList(Fits6, s, w)
  BY <1>1, <1>2, ListFits DEF Conforms7, d, w
<1>5. NamesIn(w) = TerminalCapabilityNames
  BY <1>1, <1>3, MintedNames DEF FitsList, w
<1>6. IsList(w) /\ Length(w) = 5
  BY <1>1, <1>4 DEF FitsList
<1>7. Distinct(w)
  BY <1>5, <1>6, NamedApart
<1>8. FitsList(Fits6, u, w)
  BY <1>1, <1>4, <1>7 DEF FitsList
<1>9. Fits7(u, w)
  BY <1>1, <1>8, ListFits
<1>. QED
  BY <1>5, <1>9 DEF u, w

LEMMA TerminalGrantConforms == Conforms(decodeTerminalConnectionGrant, TerminalConnectionGrant)
<1> DEFINE d == decodeTerminalConnectionGrant  s == TerminalConnectionGrant
           W(f) == Paired(d.req[f], s.req[f])
<1> SUFFICES ASSUME NEW v, Fits(d, v) PROVE Fits(s, AsMinted(v))
  BY DEF Conforms
<1> USE DEF decodeTerminalConnectionGrant, TerminalConnectionGrant, Object, None
<1>1. /\ Closed(d, s)
      /\ d.rule = "decodeTerminalConnectionGrant"
      /\ s.rule = "EveryCapabilityOnce"
      /\ DOMAIN d.req = {"terminal_session_id", "resume_handle", "expires_at",
                         "connect_url", "connect_token", "protocol", "capabilities"}
      /\ DOMAIN d.opt = {}
  BY DEF Closed
<1>2. W("terminal_session_id") /\ W("resume_handle") /\ W("expires_at")
  BY NamedReaders, AlikePaired
<1>3. W("connect_url") /\ W("connect_token") /\ W("protocol")
  BY BrandedReaders, AlikePaired
<1>4. /\ d.req["capabilities"] = ListOf(terminalCapability, 5, 5)
      /\ s.req["capabilities"] = SetLike(TerminalConnectionCapability, 5, 5, FiveCapabilities)
  OBVIOUS
<1> HIDE DEF d, s
<1>5. /\ \A f \in DOMAIN d.req \ {"capabilities"} : Conforms7(d.req[f], s.req[f])
      /\ \A f \in DOMAIN d.opt : Conforms7(d.opt[f], s.opt[f])
  BY <1>1, <1>2, <1>3, LeafConforms
<1> DEFINE o == v.object
<1>6. /\ IsObject(v) /\ Rule(d.rule, o)
      /\ \A f \in DOMAIN d.req : Fits7(d.req[f], o[f])
      /\ \A f \in DOMAIN d.opt \cap DOMAIN o : Fits7(d.opt[f], o[f])
  BY <1>1, ObjectFits DEF FitsObject, Closed
<1>7. NamesIn(o["capabilities"]) = TerminalCapabilityNames
  BY <1>1, <1>6 DEF Rule, ContractRule, DecoderRule, RequestRule, NamesIn,
                    TERMINAL_CAPABILITY_NAMES, TerminalCapabilityNames
<1>8. /\ Fits7(s.req["capabilities"], Minted7(o["capabilities"]))
      /\ NamesIn(Minted7(o["capabilities"])) = TerminalCapabilityNames
  BY <1>1, <1>6, <1>4, <1>7, FiveConform
<1>9. Fits7(s.req["capabilities"], Minted7(o["capabilities"]))
  BY <1>8
<1>10. Rule(s.rule, MembersBy(Minted7, o))
  <2>1. "capabilities" \in DOMAIN o
    BY <1>1, ObjectFits DEF FitsObject, Exact, Closed
  <2> DEFINE q == MembersBy(Minted7, o)
  <2>2. q.capabilities = Minted7(o["capabilities"])
    BY <2>1 DEF MembersBy
  <2> HIDE DEF q
  <2>. QED
    BY <1>1, <1>8, <2>2 DEF Rule, ContractRule, NamesIn, q
<1>11. /\ \A f \in DOMAIN d.req : Fits7(s.req[f], Minted7(o[f]))
      /\ \A f \in DOMAIN d.opt \cap DOMAIN o : Fits7(s.opt[f], Minted7(o[f]))
  BY <1>1, <1>5, <1>6, <1>9 DEF Conforms7
<1>. QED
  BY <1>1, <1>11, <1>10, Given8

LEMMA LengthMinted ==
  ASSUME NEW v, IsList(v)
  PROVE  Length(Minted7(v)) = Length(v)
<1>1. Minted7(v) = ElementsBy(Minted6, v)
  BY ListMinted
<1>2. CASE Is("items", v)
  <2> DEFINE t == [i \in DOMAIN v.items |-> Minted6(v.items[i])]
  <2>1. v.items \in Seq(Elements(v))
    BY <1>2 DEF IsList, Is
  <2>2. Len(t) = Len(v.items)
    BY <2>1, MappedSequence
  <2>3. Minted7(v) = Arr(t)
    BY <1>1, <1>2 DEF ElementsBy
  <2> HIDE DEF t
  <2>. QED
    BY <1>2, <2>2, <2>3 DEF Length, Arr, Is
<1>3. CASE ~Is("items", v)
  BY <1>1, <1>3 DEF ElementsBy, Length, Many, Is
<1>. QED
  BY <1>2, <1>3

LEMMA FewerCapabilitiesConform ==
  Conforms7([syncCapabilities EXCEPT !.lo = 0], SyncCapabilityList(0))
<1> DEFINE c == syncCapabilities  d == [c EXCEPT !.lo = 0]
           r == SyncCapabilityList(6)  s == SyncCapabilityList(0)
<1>1. /\ d.k = "list" /\ d.of = c.of /\ d.lo = 0 /\ d.hi = 6 /\ d.unique
      /\ s.k = "list" /\ s.of = r.of /\ s.lo = 0 /\ s.hi = 6
  BY DEF syncCapabilities, SyncCapabilityList, SetLike
<1>2. Listed(d, s)
  BY <1>1 DEF Listed
<1>3. Fixed(c.of) /\ Paired(c.of, r.of)
  BY CapabilityNamed
<1> HIDE DEF c, d, r, s
<1>4. Conforms7(d, s)
  BY <1>1, <1>2, <1>3, FixedMinted, LeafConforms, List7
<1>. QED
  BY <1>4 DEF c, d, s

LEMMA ProtocolMinted ==
  ASSUME NEW x, Fits7(Nullable(syncProtocol), x)
  PROVE  Minted7(x) = x
<1>1. SameValues(syncProtocol, syncProtocol)
      /\ SameValues(Exactly({Null}, Null), Exactly({Null}, Null))
  BY DEF SameValues, syncProtocol, Exactly, Bare, Is, Null, Num
<1>2. Nullable(syncProtocol).k = "either" /\ Nullable(syncProtocol).one = syncProtocol
      /\ Nullable(syncProtocol).other = Exactly({Null}, Null)
  BY DEF Nullable, Either
<1>3. FitsLeaf(syncProtocol, x) \/ FitsLeaf(Exactly({Null}, Null), x)
  BY <1>1, <1>2, EitherFits DEF SameValues, Leaves
<1>4. Bare(x)
  BY <1>1, <1>3 DEF SameValues, FitsLeaf
<1>. QED
  BY <1>4, LeafMinted DEF Bare, MintedLeaf

LEMMA SyncTypeMinted ==
  ASSUME NEW x \in Strings({"syncptype"}, 0, 0, Brands), NEW eg
  PROVE  Fits7(Branded({"syncptype"}, 0, 0, {"runa"}, eg), Minted7(x))
<1> DEFINE d == Branded({"syncptype"}, 0, 0, Brands, eg)
           s == Branded({"syncptype"}, 0, 0, {"runa"}, eg)
<1>1. Alike(d, s)
  BY BrandedReaders
<1>2. d.k \in Leaves /\ FitsLeaf(d, x)
  BY DEF FitsLeaf, Branded, Leaves
<1> HIDE DEF d, s
<1>3. Fits7(s, Minted7(x))
  BY <1>1, <1>2, LeafFits, AlikePaired, LeafConforms DEF Conforms7
<1>. QED
  BY <1>3 DEF s

LEMMA SyncProblemConforms == Conforms(decodeWorkspaceSyncProblem, WorkspaceSyncProblemSchema)
<1> DEFINE d == decodeWorkspaceSyncProblem  s == WorkspaceSyncProblemSchema
           W(f) == Paired(d.req[f], s.req[f])
<1> SUFFICES ASSUME NEW v, Fits(d, v) PROVE Fits(s, AsMinted(v))
  BY DEF Conforms
<1> USE DEF decodeWorkspaceSyncProblem, WorkspaceSyncProblemSchema, Object, None
<1>1. /\ Closed(d, s)
      /\ d.rule = "decodeWorkspaceSyncProblem"
      /\ s.rule = "CapabilitiesWithProtocol"
      /\ DOMAIN d.req = {"title", "detail", "request_id", "retryable", "status",
                         "code", "action", "selected_protocol", "capabilities",
                         "type"}
      /\ DOMAIN d.opt = {}
  BY DEF Closed
<1>2. W("title") /\ W("detail") /\ W("request_id") /\ W("retryable")
  BY NamedReaders, TextReaders, PlainReaders, AlikePaired
<1>3. W("status") /\ W("code") /\ W("action")
  BY NumberReaders, PatternReaders, Reflexive, AlikePaired
<1>4. W("selected_protocol")
  BY NullableReaders, PlainReaders
<1>5. Conforms7(d.req["capabilities"], s.req["capabilities"])
  BY FewerCapabilitiesConform
<1>6. /\ d.req["selected_protocol"] = Nullable(syncProtocol)
      /\ d.req["capabilities"].k = "list"
      /\ s.req["type"] = Branded({"syncptype"}, 0, 0, {"runa"}, Str("syncptype", 0, 1, "runa"))
  <2>1. d.req["selected_protocol"] = Nullable(syncProtocol)
    OBVIOUS
  <2>2. d.req["capabilities"].k = "list"
    <3>1. d.req["capabilities"] = [syncCapabilities EXCEPT !.lo = 0]
      OBVIOUS
    <3>2. syncCapabilities.k = "list" /\ "k" \in DOMAIN syncCapabilities
      BY DEF syncCapabilities, SetLike
    <3>. QED
      BY <3>1, <3>2
  <2>3. s.req["type"] = Branded({"syncptype"}, 0, 0, {"runa"}, Str("syncptype", 0, 1, "runa"))
    OBVIOUS
  <2>. QED
    BY <2>1, <2>2, <2>3
<1> HIDE DEF d, s
<1>7. /\ \A f \in DOMAIN d.req \ {"type"} : Conforms7(d.req[f], s.req[f])
      /\ \A f \in DOMAIN d.opt : Conforms7(d.opt[f], s.opt[f])
  BY <1>1, <1>2, <1>3, <1>4, <1>5, LeafConforms
<1> DEFINE o == v.object
<1>8. /\ IsObject(v) /\ Rule(d.rule, o)
      /\ \A f \in DOMAIN d.req : Fits7(d.req[f], o[f])
      /\ \A f \in DOMAIN d.opt \cap DOMAIN o : Fits7(d.opt[f], o[f])
  BY <1>1, ObjectFits DEF FitsObject, Closed
<1>9. SyncProblemAgrees(o)
  BY <1>1, <1>8 DEF Rule, ContractRule, DecoderRule, RequestRule
<1>10. Fits7(s.req["type"], Minted7(o["type"]))
  BY <1>6, <1>9, SyncTypeMinted DEF SyncProblemAgrees
<1>11. Rule(s.rule, MembersBy(Minted7, o))
  <2>1. "capabilities" \in DOMAIN o /\ "selected_protocol" \in DOMAIN o
    BY <1>1, ObjectFits DEF FitsObject, Exact, Closed
  <2>2. Minted7(o["selected_protocol"]) = o["selected_protocol"]
    BY <1>1, <1>8, <1>6, ProtocolMinted
  <2>3. IsList(o["capabilities"])
    BY <1>1, <1>8, <1>6, ListFits DEF FitsList
  <2> DEFINE q == MembersBy(Minted7, o)
  <2>4. /\ q.capabilities = Minted7(o["capabilities"])
        /\ q.selected_protocol = o["selected_protocol"]
    BY <2>1, <2>2 DEF MembersBy
  <2> HIDE DEF q
  <2>5. Length(q.capabilities) = IF q.selected_protocol = Null THEN 0 ELSE 6
    BY <1>9, <2>3, <2>4, LengthMinted DEF SyncProblemAgrees
  <2>. QED
    BY <1>1, <2>5 DEF Rule, ContractRule, q
<1>12. /\ \A f \in DOMAIN d.req : Fits7(s.req[f], Minted7(o[f]))
      /\ \A f \in DOMAIN d.opt \cap DOMAIN o : Fits7(s.opt[f], Minted7(o[f]))
  BY <1>1, <1>7, <1>8, <1>10 DEF Conforms7
<1>. QED
  BY <1>1, <1>12, <1>11, Given8

(* Usage keeps the three members the contract knows.                       *)
LEMMA UsageConforms == Conforms6(usage, Usage)
<1> DEFINE d == usage  s == Usage
<1> SUFFICES ASSUME NEW v, Fits6(d, v) PROVE Fits6(s, Minted6(v))
  BY DEF Conforms6
<1> USE DEF usage, Usage, OpenObject, Object, None
<1>1. /\ d.k = "object" /\ s.k = "object" /\ s.rule = "none" /\ ~s.open
      /\ DOMAIN d.req = UsageMembers /\ DOMAIN s.req = UsageMembers /\ DOMAIN s.opt = {}
  BY DEF UsageMembers
<1>2. /\ Paired(d.req["est_spend_usd"], s.req["est_spend_usd"])
      /\ Paired(d.req["est_remaining_usd"], s.req["est_remaining_usd"])
      /\ Paired(d.req["note"], s.req["note"])
  BY PlainReaders, TextReaders, AlikePaired
<1> HIDE DEF d, s
<1>3. \A f \in UsageMembers : Conforms5(d.req[f], s.req[f])
  BY <1>2, LeafConforms DEF UsageMembers
<1>4. FitsObject(Fits5, d, v)
  BY <1>1, ObjectFits
<1> DEFINE o == v.object  q == [f \in UsageMembers |-> Minted5(o[f])]
<1>5. /\ IsObject(v) /\ UsageMembers \subseteq DOMAIN o
      /\ \A f \in UsageMembers : Fits5(d.req[f], o[f])
  BY <1>1, <1>4 DEF FitsObject, Exact
<1>6. MintedMembers(Minted5, o) = q
  <2>1. "est_spend_usd" \in DOMAIN o /\ DOMAIN o \cap UsageMembers = UsageMembers
    BY <1>5 DEF UsageMembers
  <2>2. \A f \in UsageMembers : f # "agent_version"
    BY DEF UsageMembers
  <2>. QED
    BY <2>1, <2>2 DEF MintedMembers
<1>7. Minted6(v) = Obj(q)
  BY <1>5, <1>6 DEF Minted6, MintedBy, IsObject, Is
<1>8. DOMAIN q = UsageMembers /\ \A f \in UsageMembers : q[f] = Minted5(o[f])
  OBVIOUS
<1> HIDE DEF q
<1>9. FitsObject(Fits5, s, Obj(q))
  BY <1>1, <1>3, <1>5, <1>8, NoRule DEF FitsObject, Exact, IsObject, Obj, Conforms5
<1>. QED
  BY <1>1, <1>7, <1>9, ObjectFits

LEMMA UsageAgrees == Agrees6(usage, Usage)
<1> DEFINE d == usage  s == Usage
<1> USE DEF usage, Usage, OpenObject, Object, None
<1>1. /\ d.k = "object" /\ s.k = "object" /\ d.rule = "none" /\ d.open
      /\ DOMAIN d.req = UsageMembers /\ DOMAIN s.req = UsageMembers
      /\ DOMAIN d.opt = {} /\ DOMAIN s.opt = {} /\ ~s.open
  BY DEF UsageMembers
<1>2. /\ Paired(d.req["est_spend_usd"], s.req["est_spend_usd"])
      /\ Paired(d.req["est_remaining_usd"], s.req["est_remaining_usd"])
      /\ Paired(d.req["note"], s.req["note"])
  BY PlainReaders, TextReaders, AlikePaired
<1> HIDE DEF d, s
<1>3. \A f \in UsageMembers : Takes5(d.req[f], s.req[f])
  BY <1>2, LeafTakes DEF UsageMembers
<1>4. ASSUME NEW v, Fits6(s, v), Plain6(v) PROVE Fits6(d, v)
  <2>1. FitsObject(Fits5, s, v)
    BY <1>1, <1>4, ObjectFits
  <2>2. \A f \in DOMAIN v.object : Plain5(v.object[f])
    BY <1>4, <2>1, PlainMembers DEF FitsObject
  <2>3. FitsObject(Fits5, d, v)
    BY <1>1, <1>3, <2>1, <2>2, NoRule DEF FitsObject, Exact, Takes5
  <2>. QED
    BY <1>1, <2>3, ObjectFits
<1>5. Takes6(d, s)
  BY <1>4 DEF Takes6
<1>. QED
  BY <1>5, UsageConforms DEF Agrees6, d, s

LEMMA AssignedAgrees ==
  Agrees7(assigned, AssignedWorkspace)
<1> DEFINE d == assigned  s == AssignedWorkspace
           W(f) == Paired(d.req[f], s.req[f])
<1> USE DEF assigned, AssignedWorkspace, Object, None
<1>1. /\ Closed(d, s) /\ s.rule = "none" /\ d.rule = "none"
      /\ DOMAIN d.req = {"assigned", "id", "usage"}
      /\ DOMAIN d.opt = {}
  BY DEF Closed
<1>2. W("assigned") /\ W("id")
  BY PlainReaders, NamedReaders, AlikePaired
<1>3. Agrees6(d.req["usage"], s.req["usage"])
  BY UsageAgrees
<1> HIDE DEF assigned, AssignedWorkspace
<1>4. \A f \in DOMAIN d.req : Agrees6(d.req[f], s.req[f])
  BY <1>1, <1>2, <1>3, LeafAgrees
<1>5. \A f \in DOMAIN d.opt : Agrees6(d.opt[f], s.opt[f])
  BY <1>1
<1>. QED
  BY <1>1, <1>4, <1>5, NoRule, Object7, Taken7, NothingCompared
     DEF Agrees6, Agrees7

LEMMA WorkspaceAgrees ==
  Agrees7(Either(assigned, waitlisted), Either(AssignedWorkspace, WaitlistedWorkspace))
<1> DEFINE d == Either(assigned, waitlisted)  s == Either(AssignedWorkspace,
WaitlistedWorkspace)
<1>1. /\ d.one = assigned /\ d.other = waitlisted /\ BothOf(d, s)
      /\ s.one = AssignedWorkspace /\ s.other = WaitlistedWorkspace
  BY DEF BothOf, Either, assigned, waitlisted, AssignedWorkspace, WaitlistedWorkspace, Object
<1>2. Agrees7(waitlisted, WaitlistedWorkspace)
  BY WaitlistedFlat, FlatAgrees DEF waitlisted, WaitlistedWorkspace, Object
<1> HIDE DEF d, s
<1>3. Agrees7(d, s)
  BY <1>1, <1>2, AssignedAgrees, Either7
<1>. QED
  BY <1>3 DEF d, s

LEMMA MeAgrees ==
  Agrees(decodeMe, Me)
<1> DEFINE d == decodeMe  s == Me
           W(f) == Paired(d.req[f], s.req[f])
<1> USE DEF decodeMe, Me, Object, None
<1>1. /\ Closed(d, s) /\ s.rule = "none" /\ d.rule = "none"
      /\ DOMAIN d.req = {"id", "email", "workspace"}
      /\ DOMAIN d.opt = {}
  BY DEF Closed
<1>2. W("id") /\ W("email")
  BY NamedReaders, TextReaders, AlikePaired
<1>3. Agrees7(d.req["workspace"], s.req["workspace"])
  BY WorkspaceAgrees
<1> HIDE DEF decodeMe, Me
<1>4. \A f \in DOMAIN d.req : Agrees7(d.req[f], s.req[f])
  BY <1>1, <1>2, <1>3, LeafAgrees
<1>5. \A f \in DOMAIN d.opt : Agrees7(d.opt[f], s.opt[f])
  BY <1>1
<1>. QED
  BY <1>1, <1>4, <1>5, NoRule, Object8, Taken8, NothingCompared
     DEF Agrees, Agrees7

(* What AuthEvidence says of the members it leaves open.                   *)
LEMMA EvidenceReaders ==
  ASSUME NEW o, AuthEvidence(o)
  PROVE  /\ o.state \in {Word("login_required"), Word("authenticated"), Word("configured"),
                         Word("unavailable")}
         /\ o.state # Word("unavailable") =>
              o.agent_version \in Strings({"semver"}, 0, 0, {"plain"})
<1>1. /\ Word("login_required") # Word("unavailable")
      /\ Word("authenticated") # Word("unavailable")
      /\ Word("configured") # Word("unavailable")
  BY DEF Word
<1>. QED
  BY <1>1 DEF AuthEvidence

(* The three alternatives of the contract, of members minted as they are.  *)
LEMMA EvidenceAlternative ==
  ASSUME NEW o, AuthEvidence(o), NEW q,
         q.auth_mode = o.auth_mode, q.evidence_class = o.evidence_class, q.state = o.state,
         o.process_epoch # Null => Is("form", q.process_epoch),
         o.agent_version \in Strings({"semver"}, 0, 0, {"plain"}) /\ o.state # Word("unavailable")
           => Is("form", q.agent_version)
  PROVE  AuthAlternative(q)
<1>1. /\ Word("login_required") # Word("unavailable")
      /\ Word("authenticated") # Word("unavailable") /\ Word("configured") # Word("unavailable")
  BY DEF Word
<1>2. CASE o.state = Word("unavailable")
  BY <1>1, <1>2 DEF AuthEvidence, AuthAlternative
<1>3. CASE o.state # Word("unavailable")
  <2>1. Is("form", q.process_epoch) /\ Is("form", q.agent_version)
    BY <1>3 DEF AuthEvidence
  <2>. QED
    BY <1>3, <2>1 DEF AuthEvidence, AuthAlternative
<1>. QED
  BY <1>2, <1>3

LEMMA AgentSessionAuthConforms == Conforms(decodeAgentSessionAuth, AgentSessionAuth)
<1> DEFINE d == decodeAgentSessionAuth  s == AgentSessionAuth
           W(f) == Paired(d.req[f], s.req[f])
<1> SUFFICES ASSUME NEW v, Fits(d, v) PROVE Fits(s, AsMinted(v))
  BY DEF Conforms
<1> USE DEF decodeAgentSessionAuth, AgentSessionAuth, Object, None
<1>1. /\ d.k = "object" /\ ~d.open /\ d.rule = "decodeAgentSessionAuth"
      /\ s.k = "object" /\ s.rule = "AgentSessionAuth"
      /\ DOMAIN d.req = {"observation_id", "agent_session_id", "process_epoch", "auth_mode",
                         "agent_version", "adapter_version", "evidence_class",
                         "observed_at", "valid_until", "state"}
      /\ DOMAIN s.req = DOMAIN d.req /\ DOMAIN d.opt = {} /\ DOMAIN s.opt = {}
  OBVIOUS
<1>2. W("observation_id") /\ W("agent_session_id") /\ W("observed_at") /\ W("valid_until")
  BY NamedReaders, AlikePaired
<1>3. W("process_epoch") /\ W("adapter_version")
  BY NullableReaders, NamedReaders, BrandedReaders, AlikePaired
<1>4. W("auth_mode") /\ W("evidence_class")
  BY Reflexive, AlikePaired DEF AGENT_SESSION_AUTH_MODES, AuthMode
<1>5. /\ s.req["agent_version"] = Either(Matching({"semver"}, 0, 0, Str("semver", 0, 1, "plain")),
                                         Exactly({Word("unavailable")}, Word("unavailable")))
      /\ s.req["state"] = Enum({"login_required", "authenticated", "configured", "unavailable"},
                               "authenticated")
      /\ d.req["auth_mode"] = Enum(AGENT_SESSION_AUTH_MODES, "interactive_login")
      /\ d.req["process_epoch"] = Nullable(uuid(1))
      /\ d.req["evidence_class"] = Enum({"provider_cli_login_status",
                                         "credential_binding_authority", "insufficient"},
                                        "provider_cli_login_status")
  OBVIOUS
<1> HIDE DEF d, s
<1> DEFINE o == v.object
<1>6. /\ IsObject(v) /\ DOMAIN o = DOMAIN d.req /\ AuthEvidence(o)
      /\ \A f \in DOMAIN d.req : Fits7(d.req[f], o[f])
  <2>1. FitsObject(Fits7, d, v)
    BY <1>1, ObjectFits
  <2>2. Rule("decodeAgentSessionAuth", o)
    BY <1>1, <2>1 DEF FitsObject
  <2>3. AuthEvidence(o)
    BY <2>2 DEF Rule, ContractRule, DecoderRule, RequestRule
  <2>. QED
    BY <1>1, <2>1, <2>3 DEF FitsObject, Exact
<1> DEFINE q == [f \in DOMAIN o |->
                   IF f = "agent_version" /\ o.state = Word("unavailable")
                   THEN Word("unavailable") ELSE Minted7(o[f])]
<1>7. AsMinted(v) = Obj(q)
  <2>1. "est_spend_usd" \notin DOMAIN o
    BY <1>1, <1>6
  <2>2. MintedMembers(Minted7, o) = q
    BY <2>1 DEF MintedMembers
  <2>. QED
    BY <1>6, <2>2 DEF AsMinted, MintedBy, IsObject, Is
<1>8. /\ DOMAIN q = DOMAIN d.req
      /\ \A f \in DOMAIN d.req \ {"agent_version"} : q[f] = Minted7(o[f])
      /\ q["agent_version"] = IF o.state = Word("unavailable") THEN Word("unavailable")
                              ELSE Minted7(o["agent_version"])
  BY <1>1, <1>6
<1> HIDE DEF q
<1>9. \A f \in DOMAIN d.req \ {"agent_version", "state"} : Fits7(s.req[f], q[f])
  BY <1>1, <1>2, <1>3, <1>4, <1>6, <1>8, LeafConforms DEF Conforms7
<1>10. q["state"] = o.state /\ Fits7(s.req["state"], q["state"])
  <2>1. \A w : Bare(Word(w)) /\ MintedLeaf(Word(w)) = Word(w)
    BY DEF Bare, MintedLeaf, Is, Word
  <2>2. q["state"] = o.state
    BY <1>1, <1>6, <1>8, <2>1, EvidenceReaders, LeafMinted DEF Bare
  <2>3. FitsLeaf(s.req["state"], o.state) /\ s.req["state"].k \in Leaves
    BY <1>5, <1>6, EvidenceReaders DEF FitsLeaf, Leaves, Enum, Exactly
  <2>. QED
    BY <2>2, <2>3, LeafFits
<1>11. q["auth_mode"] = o.auth_mode /\ q["evidence_class"] = o.evidence_class
  BY <1>1, <1>5, <1>6, <1>8, FixedMinted, FixedReaders
<1>12. o.process_epoch # Null => Is("form", q.process_epoch)
  <2> DEFINE u == Nullable(uuid(1))  x == o["process_epoch"]
  <2>1. /\ u.k = "either" /\ u.one = Matching({"uuid"}, 0, 0, UuidOf(1))
        /\ u.other = Exactly({Null}, Null)
        /\ u.one.k \in Leaves /\ u.other.k \in Leaves
    BY DEF Nullable, Either, uuid, Matching, Branded, Exactly, Leaves
  <2>2. FitsLeaf(u.one, x) \/ FitsLeaf(u.other, x)
    BY <1>1, <1>5, <1>6, <2>1, EitherFits
  <2>3. FitsLeaf(u.other, x) => x = Null
    BY <2>1 DEF FitsLeaf, Exactly
  <2>4. FitsLeaf(u.one, x) => IsText(x) /\ Minted7(x) = x
    <3>1. u.one.k = "pattern" /\ Fixed(u.one)
      BY <2>1, FixedReaders DEF Matching, Branded
    <3>2. ASSUME FitsLeaf(u.one, x) PROVE IsText(x)
      BY <3>1, <3>2, StringMinted DEF FitsLeaf
    <3>3. ASSUME FitsLeaf(u.one, x) PROVE Minted7(x) = x
      BY <2>1, <3>1, <3>3, LeafFits, FixedMinted
    <3>. QED
      BY <3>2, <3>3
  <2>5. q["process_epoch"] = Minted7(x)
    BY <1>1, <1>8
  <2>. QED
    BY <2>2, <2>3, <2>4, <2>5 DEF IsText
<1>13. /\ Fits7(s.req["agent_version"], q["agent_version"])
       /\ o.agent_version \in Strings({"semver"}, 0, 0, {"plain"}) /\ o.state # Word("unavailable")
            => Is("form", q.agent_version)
  <2> DEFINE m == Matching({"semver"}, 0, 0, Str("semver", 0, 1, "plain"))
             e == Exactly({Word("unavailable")}, Word("unavailable"))
             u == Either(m, e)
  <2>1. u.k = "either" /\ u.one = m /\ u.other = e /\ m.k \in Leaves /\ e.k \in Leaves
    BY DEF Either, Matching, Branded, Exactly, Leaves
  <2>2. FitsLeaf(e, Word("unavailable"))
    BY DEF FitsLeaf, Exactly
  <2>3. ASSUME NEW x \in Strings({"semver"}, 0, 0, {"plain"})
        PROVE  FitsLeaf(m, x) /\ Minted7(x) = x /\ Is("form", x)
    <3>1. FitsLeaf(m, x)
      BY DEF FitsLeaf, Matching, Branded
    <3>2. Minted7(x) = x
      BY <2>1, <3>1, LeafFits, FixedMinted, FixedReaders
    <3>. QED
      BY <3>1, <3>2, StringMinted DEF IsText
  <2> HIDE DEF m, e
  <2>4. Fits7(u, q["agent_version"])
    BY <1>6, <1>8, <2>1, <2>2, <2>3, EitherFits, EvidenceReaders
  <2>. QED
    BY <1>5, <1>8, <2>3, <2>4 DEF m, e
<1>14. AuthAlternative(q)
  BY <1>6, <1>10, <1>11, <1>12, <1>13, EvidenceAlternative
<1>15. FitsObject(Fits7, s, Obj(q))
  <2>1. Rule("AgentSessionAuth", q)
    BY <1>14 DEF Rule, ContractRule
  <2>2. \A f \in DOMAIN s.req : Fits7(s.req[f], q[f])
    BY <1>1, <1>9, <1>10, <1>13
  <2>. QED
    BY <1>1, <1>8, <2>1, <2>2 DEF FitsObject, Exact, IsObject, Obj
<1>. QED
  BY <1>1, <1>7, <1>15, ObjectFits

(* The answers that are one flat object.                                   *)
LEMMA FlatAnswersConform ==
  /\ Conforms(decodeAcknowledgement, Ok)
  /\ Conforms(decodeExec, ExecResult)
  /\ Conforms(decodeOpen, OpenResult)
  /\ Conforms(decodeSession, SessionSchema)
  /\ Conforms(decodeMachineCreateRequest, MachineCreateRequest)
  /\ Conforms(decodeProblem, ProblemSchema)
<1>1. Conforms(decodeAcknowledgement, Ok)
  BY AcknowledgementFlat, FlatConforms DEF Ok, Object
<1>2. Conforms(decodeExec, ExecResult)
  BY ExecFlat, FlatConforms DEF ExecResult, Object
<1>3. Conforms(decodeOpen, OpenResult)
  BY OpenFlat, FlatConforms DEF OpenResult, Object
<1>4. Conforms(decodeSession, SessionSchema)
  BY SessionFlat, FlatConforms DEF SessionSchema, Object
<1>5. Conforms(decodeMachineCreateRequest, MachineCreateRequest)
  BY MachineCreateFlat, FlatConforms DEF MachineCreateRequest, Object
<1>6. Conforms(decodeProblem, ProblemSchema)
  BY ProblemFlat, FlatConforms DEF ProblemSchema, Object
<1>. QED
  BY <1>1, <1>2, <1>3, <1>4, <1>5, <1>6

LEMMA ListsConform ==
  Conforms(decodeSessions, SessionList) /\ Conforms(decodeRecords, RecordList)
<1>1. Conforms7(decodeSession, SessionSchema)
  BY SessionFlat, FlatConforms DEF SessionSchema, Object
<1>2. Conforms7(decodeRecord, RecordSchema)
  BY RecordFlat, FlatConforms DEF RecordSchema, Object
<1>. QED
  BY <1>1, <1>2, ListOfConforms DEF decodeSessions, SessionList, decodeRecords, RecordList

(* An envelope of each of the seven receipts.                              *)
LEMMA EnvelopesConform ==
  /\ Conforms(decodeWorkspaceSyncEnvelope(syncSession), WorkspaceSyncSessionEnvelope)
  /\ Conforms(decodeWorkspaceSyncEnvelope(syncManifestReceipt), WorkspaceSyncManifestEnvelope)
  /\ Conforms(decodeWorkspaceSyncEnvelope(syncChunkReceipt), WorkspaceSyncChunkEnvelope)
  /\ Conforms(decodeWorkspaceSyncEnvelope(syncChunkContent), WorkspaceSyncChunkContentEnvelope)
  /\ Conforms(decodeWorkspaceSyncEnvelope(syncCommitReceipt), WorkspaceSyncCommitEnvelope)
  /\ Conforms(decodeWorkspaceSyncEnvelope(syncChangePage), WorkspaceSyncChangeEnvelope)
  /\ Conforms(decodeWorkspaceSyncEnvelope(syncReconcileReceipt), WorkspaceSyncReconcileEnvelope)
<1>1. Conforms(decodeWorkspaceSyncEnvelope(syncSession), WorkspaceSyncSessionEnvelope)
  BY SyncSessionAgrees, EnvelopeConforms DEF Agrees7, WorkspaceSyncSessionEnvelope
<1>2. Conforms(decodeWorkspaceSyncEnvelope(syncManifestReceipt), WorkspaceSyncManifestEnvelope)
  BY ManifestReceiptAgrees, EnvelopeConforms DEF Agrees7, WorkspaceSyncManifestEnvelope
<1>3. Conforms(decodeWorkspaceSyncEnvelope(syncChunkReceipt), WorkspaceSyncChunkEnvelope)
  <2>1. Conforms7(syncChunkReceipt, WorkspaceSyncChunkReceipt)
    BY ChunkReceiptFlat, FlatConforms DEF WorkspaceSyncChunkReceipt, Object
  <2>. QED
    BY <2>1, EnvelopeConforms DEF WorkspaceSyncChunkEnvelope
<1>4. Conforms(decodeWorkspaceSyncEnvelope(syncChunkContent), WorkspaceSyncChunkContentEnvelope)
  BY ChunkContentConforms, EnvelopeConforms DEF WorkspaceSyncChunkContentEnvelope
<1>5. Conforms(decodeWorkspaceSyncEnvelope(syncCommitReceipt), WorkspaceSyncCommitEnvelope)
  <2>1. Conforms7(syncCommitReceipt, WorkspaceSyncCommitReceipt)
    BY CommitReceiptFlat, FlatConforms DEF WorkspaceSyncCommitReceipt, Object
  <2>. QED
    BY <2>1, EnvelopeConforms DEF WorkspaceSyncCommitEnvelope
<1>6. Conforms(decodeWorkspaceSyncEnvelope(syncChangePage), WorkspaceSyncChangeEnvelope)
  BY ChangePageConforms, EnvelopeConforms DEF WorkspaceSyncChangeEnvelope
<1>7. Conforms(decodeWorkspaceSyncEnvelope(syncReconcileReceipt),
WorkspaceSyncReconcileEnvelope)
  <2>1. Conforms7(syncReconcileReceipt, WorkspaceSyncReconcileReceipt)
    BY ReconcileReceiptFlat, FlatConforms DEF WorkspaceSyncReconcileReceipt, Object
  <2>. QED
    BY <2>1, EnvelopeConforms DEF WorkspaceSyncReconcileEnvelope
<1>. QED
  BY <1>1, <1>2, <1>3, <1>4, <1>5, <1>6, <1>7

(* Each operation's handwritten decoder accepts nothing that the generated *)
(* schema of its answer does not have, once the brands are spelled as the  *)
(* contract spells them: for every message, of any length and any values.  *)
THEOREM DecodersConform ==
  \A called \in Called : \A v : Fits(Decoder[called], v) => Fits(Schema[called], AsMinted(v))
<1> SUFFICES ASSUME NEW called \in Called PROVE Conforms(Decoder[called], Schema[called])
  BY DEF Conforms
<1>0. called \in OperationNames
  BY DEF Called
<1>1. CASE called = "agentSessions.agentAuth"
  <2>1. Decoder[called] = decodeAgentSessionAuth /\ Schema[called] = AgentSessionAuth
    BY <1>0, <1>1 DEF Decoder, Schema
  <2>. QED
    BY <2>1, AgentSessionAuthConforms
<1>2. CASE called \in {"agentSessions.create", "agentSessions.get", "agentSessions.rename",
                       "agentSessions.terminate"}
  <2>1. Decoder[called] = decodeAgentSession /\ Schema[called] = AgentSession
    BY <1>0, <1>2 DEF Decoder, Schema
  <2>. QED
    BY <2>1, AgentSessionAgrees DEF Agrees
<1>3. CASE called = "agentSessions.list"
  <2>1. Decoder[called] = decodeAgentSessionPage /\ Schema[called] = AgentSessionPage
    BY <1>0, <1>3 DEF Decoder, Schema
  <2>. QED
    BY <2>1, AgentSessionPageAgrees DEF Agrees
<1>4. CASE called = "agentSessions.createTerminalConnection"
  <2>1. /\ Decoder[called] = decodeTerminalConnectionGrant
        /\ Schema[called] = TerminalConnectionGrant
    BY <1>0, <1>4 DEF Decoder, Schema
  <2>. QED
    BY <2>1, TerminalGrantConforms
<1>5. CASE called = "capabilities.get"
  <2>1. Decoder[called] = decodeCapabilitySnapshot /\ Schema[called] = CapabilitySnapshot
    BY <1>0, <1>5 DEF Decoder, Schema
  <2>. QED
    BY <2>1, CapabilitySnapshotConforms
<1>6. CASE called = "me.get"
  <2>1. Decoder[called] = decodeMe /\ Schema[called] = Me
    BY <1>0, <1>6 DEF Decoder, Schema
  <2>. QED
    BY <2>1, MeAgrees DEF Agrees
<1>7. CASE called = "records.list"
  <2>1. Decoder[called] = decodeRecords /\ Schema[called] = RecordList
    BY <1>0, <1>7 DEF Decoder, Schema
  <2>. QED
    BY <2>1, ListsConform
<1>8. CASE called \in {"sessions.checkpoint", "sessions.delete"}
  <2>1. Decoder[called] = decodeAcknowledgement /\ Schema[called] = Ok
    BY <1>0, <1>8 DEF Decoder, Schema
  <2>. QED
    BY <2>1, FlatAnswersConform
<1>9. CASE called = "sessions.exec"
  <2>1. Decoder[called] = decodeExec /\ Schema[called] = ExecResult
    BY <1>0, <1>9 DEF Decoder, Schema
  <2>. QED
    BY <2>1, FlatAnswersConform
<1>10. CASE called = "sessions.open"
  <2>1. Decoder[called] = decodeOpen /\ Schema[called] = OpenResult
    BY <1>0, <1>10 DEF Decoder, Schema
  <2>. QED
    BY <2>1, FlatAnswersConform
<1>11. CASE called = "sessions.list"
  <2>1. Decoder[called] = decodeSessions /\ Schema[called] = SessionList
    BY <1>0, <1>11 DEF Decoder, Schema
  <2>. QED
    BY <2>1, ListsConform
<1>12. CASE called \in {"sessions.create", "sessions.get", "sessions.pause", "sessions.resume",
                       "sessions.start", "sessions.stop"}
  <2>1. Decoder[called] = decodeSession /\ Schema[called] = SessionSchema
    BY <1>0, <1>12 DEF Decoder, Schema
  <2>. QED
    BY <2>1, FlatAnswersConform
<1>13. CASE called \in {"workspaceBindings.create", "workspaceBindings.get"}
  <2>1. Decoder[called] = decodeWorkspaceBinding /\ Schema[called] = WorkspaceBindingSchema
    BY <1>0, <1>13 DEF Decoder, Schema
  <2>. QED
    BY <2>1, BindingConforms
<1>14. CASE called \in {"machineCreates.get", "machineCreates.reconcile"}
  <2>1. Decoder[called] = decodeMachineCreateRequest /\ Schema[called] = MachineCreateRequest
    BY <1>0, <1>14 DEF Decoder, Schema
  <2>. QED
    BY <2>1, FlatAnswersConform
<1>15. CASE called = "workspaces.sync.begin"
  <2>1. /\ Decoder[called] = decodeWorkspaceSyncEnvelope(syncSession)
        /\ Schema[called] = WorkspaceSyncSessionEnvelope
    BY <1>0, <1>15 DEF Decoder, Schema
  <2>. QED
    BY <2>1, EnvelopesConform
<1>16. CASE called = "workspaces.sync.negotiate"
  <2>1. /\ Decoder[called] = decodeWorkspaceSyncEnvelope(syncManifestReceipt)
        /\ Schema[called] = WorkspaceSyncManifestEnvelope
    BY <1>0, <1>16 DEF Decoder, Schema
  <2>. QED
    BY <2>1, EnvelopesConform
<1>17. CASE called = "workspaces.sync.chunk"
  <2>1. /\ Decoder[called] = decodeWorkspaceSyncEnvelope(syncChunkReceipt)
        /\ Schema[called] = WorkspaceSyncChunkEnvelope
    BY <1>0, <1>17 DEF Decoder, Schema
  <2>. QED
    BY <2>1, EnvelopesConform
<1>18. CASE called = "workspaces.sync.chunkDownload"
  <2>1. /\ Decoder[called] = decodeWorkspaceSyncEnvelope(syncChunkContent)
        /\ Schema[called] = WorkspaceSyncChunkContentEnvelope
    BY <1>0, <1>18 DEF Decoder, Schema
  <2>. QED
    BY <2>1, EnvelopesConform
<1>19. CASE called = "workspaces.sync.commit"
  <2>1. /\ Decoder[called] = decodeWorkspaceSyncEnvelope(syncCommitReceipt)
        /\ Schema[called] = WorkspaceSyncCommitEnvelope
    BY <1>0, <1>19 DEF Decoder, Schema
  <2>. QED
    BY <2>1, EnvelopesConform
<1>20. CASE called = "workspaces.sync.changes"
  <2>1. /\ Decoder[called] = decodeWorkspaceSyncEnvelope(syncChangePage)
        /\ Schema[called] = WorkspaceSyncChangeEnvelope
    BY <1>0, <1>20 DEF Decoder, Schema
  <2>. QED
    BY <2>1, EnvelopesConform
<1>21. CASE called = "workspaces.sync.reconcile"
  <2>1. /\ Decoder[called] = decodeWorkspaceSyncEnvelope(syncReconcileReceipt)
        /\ Schema[called] = WorkspaceSyncReconcileEnvelope
    BY <1>0, <1>21 DEF Decoder, Schema
  <2>. QED
    BY <2>1, EnvelopesConform
<1>. QED
  BY <1>1, <1>2, <1>3, <1>4, <1>5, <1>6, <1>7, <1>8, <1>9, <1>10, <1>11, <1>12,
     <1>13, <1>14, <1>15, <1>16, <1>17, <1>18, <1>19, <1>20, <1>21
     DEF Called, OperationNames, AgentSessionOperations, AccountOperations, SessionOperations,
         WorkspaceOperations

----------------------------------------------------------------------------
(* What has been handed on *)

Statuses == {"success", "otherSuccess", "redirect", "error"}

(* disposition hands on a result or a problem only if its decoder took it. *)
LEMMA DispositionDecodes ==
  ASSUME status \in Statuses
  PROVE  /\ Disposition = "result" => ~Marked(message) /\ Fits(Decoder[op], message)
         /\ Disposition = "api_problem" =>
              /\ ~Marked(message)
              /\ \E what \in {"problem", "syncProblem"} : Fits(ProblemDecoder(what), message)
<1>1. ProblemDecoder("syncProblem") = decodeWorkspaceSyncProblem
      /\ ProblemDecoder("problem") = decodeProblem
  BY DEF ProblemDecoder
<1>2. /\ ProblemFailure \in {"api_problem", "api_error"}
      /\ ProblemFailure = "api_problem" =>
           /\ ~Marked(message)
           /\ Fits(decodeWorkspaceSyncProblem, message) \/ Fits(decodeProblem, message)
  BY DEF ProblemFailure
<1>3. /\ Disposition = "result" => ~Marked(message) /\ Fits(Decoder[op], message)
      /\ Disposition = "api_problem" => ProblemFailure = "api_problem"
  <2>1. CASE status \in {"redirect", "otherSuccess"}
    BY <2>1 DEF Disposition
  <2>2. CASE status = "error"
    BY <1>2, <2>2 DEF Disposition
  <2>3. CASE status = "success"
    BY <2>3 DEF Disposition
  <2>. QED
    BY <2>1, <2>2, <2>3 DEF Statuses
<1>. QED
  BY <1>1, <1>2, <1>3

(* What has been handed on was decoded.                                    *)
Decoded ==
  /\ op \in Called /\ status \in Statuses
  /\ verdict \in {"result", "api_problem"} => phase = "done" /\ ~Marked(message)
  /\ verdict = "result" => Fits(Decoder[op], message)
  /\ verdict = "api_problem" =>
       \E what \in {"problem", "syncProblem"} : Fits(ProblemDecoder(what), message)

LEMMA DecodedInvariant == Spec => []Decoded
<1>1. Init => Decoded
  BY DEF Init, Decoded, Parts, Statuses
<1>2. ASSUME Decoded, [Next]_vars PROVE Decoded'
  <2> USE <1>2 DEF Decoded
  <2>1. CASE Call
    <3>1. verdict' \in {"refused", "unprepared", "none"} /\ op' = op /\ status' = status
      BY <2>1 DEF Call
    <3>. QED
      BY <3>1
  <2>2. CASE Alter
    <3>1. /\ verdict \notin {"result", "api_problem"}
          /\ UNCHANGED <<op, verdict>>
          /\ status' \in Statuses
      BY <2>2 DEF Alter
    <3>. QED
      BY <3>1
  <2>3. CASE AlterHeaders
    <3>1. /\ verdict \notin {"result", "api_problem"}
          /\ UNCHANGED <<op, verdict>>
          /\ status' \in Statuses
      BY <2>3 DEF AlterHeaders, Statuses
    <3>. QED
      BY <3>1
  <2>4. CASE Answer
    <3>1. /\ verdict \notin {"result", "api_problem"}
          /\ UNCHANGED <<op, verdict>>
          /\ status' \in Statuses
      BY <2>4 DEF Answer, Statuses
    <3>. QED
      BY <3>1
  <2>5. CASE Receive
    <3>1. /\ verdict' = Disposition /\ phase = "answered" /\ phase' = "done"
          /\ UNCHANGED <<op, about, message, status, media, headers>>
      BY <2>5 DEF Receive
    <3>2. verdict \notin {"result", "api_problem"}
      BY <3>1
    <3>3. ASSUME verdict' = "result" PROVE ~Marked(message) /\ Fits(Decoder[op], message)
      BY <3>1, <3>3, DispositionDecodes
    <3>4. ASSUME verdict' = "api_problem"
          PROVE  /\ ~Marked(message)
                 /\ \E what \in {"problem", "syncProblem"} : Fits(ProblemDecoder(what), message)
      BY <3>1, <3>4, DispositionDecodes
    <3>5. message' = message /\ op' = op /\ status' = status /\ phase' = "done"
      BY <3>1
    <3>. QED
      BY <3>3, <3>4, <3>5
  <2>6. CASE UNCHANGED vars
    BY <2>6 DEF vars
  <2>. QED
    BY <2>1, <2>2, <2>3, <2>4, <2>5, <2>6 DEF Next
<1>. QED
  BY <1>1, <1>2, PTL DEF Spec

LEMMA ProblemsConform ==
  ASSUME NEW what \in {"problem", "syncProblem"}
  PROVE  Conforms(ProblemDecoder(what), ProblemContract(what))
<1>1. CASE what = "problem"
  <2>1. ProblemDecoder(what) = decodeProblem /\ ProblemContract(what) = ProblemSchema
    BY <1>1 DEF ProblemDecoder, ProblemContract
  <2>. QED
    BY <2>1, FlatAnswersConform
<1>2. CASE what = "syncProblem"
  <2>1. /\ ProblemDecoder(what) = decodeWorkspaceSyncProblem
        /\ ProblemContract(what) = WorkspaceSyncProblemSchema
    BY <1>2 DEF ProblemDecoder, ProblemContract
  <2>. QED
    BY <2>1, SyncProblemConforms
<1>. QED
  BY <1>1, <1>2

(* Whatever the service sends, and whichever operation is called: what the *)
(* program gets as a result or as a problem has the form of the contract.  *)
THEOREM ResultsConform == Spec => []AcceptedConforms
<1>1. Decoded => AcceptedConforms
  <2> SUFFICES ASSUME Decoded PROVE AcceptedConforms
    OBVIOUS
  <2>1. verdict = "result" => Fits(Schema[op], AsMinted(message))
    BY DecodersConform DEF Decoded
  <2>2. ASSUME verdict = "api_problem"
        PROVE  \E what \in {"problem", "syncProblem"} :
                 Fits(ProblemContract(what), AsMinted(message))
    <3>1. PICK what \in {"problem", "syncProblem"} : Fits(ProblemDecoder(what), message)
      BY <2>2 DEF Decoded
    <3>. QED
      BY <3>1, ProblemsConform DEF Conforms
  <2>. QED
    BY <2>1, <2>2 DEF AcceptedConforms
<1>. QED
  BY <1>1, DecodedInvariant, PTL

----------------------------------------------------------------------------
(* What a decoded answer says of itself. *)

(* What the rules of the decoders mean of an object that was taken.        *)
LEMMA RuleHolds ==
  ASSUME NEW kind, kind.k = "object", NEW v
  PROVE  /\ Fits(kind, v) => Rule(kind.rule, v.object)
         /\ Fits7(kind, v) => Rule(kind.rule, v.object)
         /\ Fits5(kind, v) => Rule(kind.rule, v.object)
BY ObjectFits DEF FitsObject

LEMMA RulesMean ==
  ASSUME NEW o
  PROVE  /\ Rule("decodeAgentSessionAuth", o) => AuthEvidence(o)
         /\ Rule("syncChunkContent", o) => ContentMatches(o)
         /\ Rule("syncChangeItem", o) => OperationShape(o)
         /\ Rule("syncChangePage", o) => OrderedGenerations(o.items)
         /\ Rule("decodeWorkspaceSyncEnvelope", o) => NestedAgrees(o)
         /\ Rule("decodeWorkspaceBinding", o) =>
              /\ o.remote_root \in Strings({"root"}, 0, 0, {"plain"})
              /\ o.remote_root.no = o.project_id.no
         /\ Rule("decodeTerminalConnectionGrant", o) =>
              o.connect_url.no = o.terminal_session_id.no
         /\ Rule("decodeCapabilitySnapshot", o) => o.expires_at.no > o.observed_at.no
BY DEF Rule, ContractRule, DecoderRule, RequestRule

LEMMA TimeRead ==
  ASSUME NEW at, NEW x, Fits7(dateTime(at), x)
  PROVE  x = Str("time", x.len, x.no, "plain") /\ x.len = 0 /\ x.no \in Nat
<1>1. x \in Strings({"time"}, 0, 0, {"plain"})
  <2> DEFINE d == dateTime(at)
  <2>1. /\ d.k = "pattern" /\ d.forms = {"time"} /\ d.lo = 0 /\ d.hi = 0
        /\ d.brands = {"plain"}
    BY DEF dateTime, Matching, Branded
  <2>2. d.k \in Leaves
    BY <2>1 DEF Leaves
  <2> HIDE DEF d
  <2>3. FitsLeaf(d, x)
    BY <2>2, LeafFits DEF d
  <2>. QED
    BY <2>1, <2>3 DEF FitsLeaf
<1>2. x.len \in 0..0
  BY <1>1, StringMinted
<1>. QED
  BY <1>1, <1>2, StringMinted DEF IsText

(* The lease of an observation, and none of an unavailable one.            *)
LeaseHolds(o) ==
  IF o.state = Word("unavailable") THEN o.valid_until = o.observed_at
  ELSE /\ o.observed_at.no < o.valid_until.no /\ Now < o.valid_until.no
       /\ o.valid_until.no <= o.observed_at.no + MaxTtl
       /\ o.observed_at.no <= Now + MaxSkew

LEMMA AuthCoheres ==
  ASSUME NEW v, Fits(decodeAgentSessionAuth, v)
  PROVE  LeaseHolds(v.object)
<1> DEFINE d == decodeAgentSessionAuth  o == v.object
<1> USE DEF decodeAgentSessionAuth, Object
<1>1. /\ d.k = "object" /\ d.rule = "decodeAgentSessionAuth"
      /\ "observed_at" \in DOMAIN d.req /\ d.req["observed_at"] = dateTime(10)
      /\ "valid_until" \in DOMAIN d.req /\ d.req["valid_until"] = dateTime(30)
  OBVIOUS
<1> HIDE DEF decodeAgentSessionAuth, Object
<1>2. AuthEvidence(o)
  BY <1>1, RuleHolds, RulesMean
<1>3. Fits7(dateTime(10), o.observed_at) /\ Fits7(dateTime(30), o.valid_until)
  BY <1>1, ObjectFits DEF FitsObject
<1>4. /\ o.observed_at.no \in Nat /\ o.valid_until.no \in Nat
      /\ o.observed_at = Str("time", 0, o.observed_at.no, "plain")
      /\ o.valid_until = Str("time", 0, o.valid_until.no, "plain")
  BY <1>3, TimeRead
<1>5. /\ Word("login_required") # Word("unavailable")
      /\ Word("authenticated") # Word("unavailable") /\ Word("configured") # Word("unavailable")
  BY DEF Word
<1>6. CASE o.state = Word("unavailable")
  <2>1. o.valid_until.no = o.observed_at.no
    BY <1>2, <1>5, <1>6 DEF AuthEvidence
  <2>. QED
    BY <1>4, <1>6, <2>1 DEF LeaseHolds
<1>7. CASE o.state # Word("unavailable")
  <2>1. /\ o.valid_until.no > o.observed_at.no
        /\ o.valid_until.no - o.observed_at.no <= MaxTtl
        /\ o.observed_at.no <= Now + MaxSkew /\ o.valid_until.no > Now
    BY <1>7, <1>2 DEF AuthEvidence
  <2>. QED
    BY <1>4, <1>7, <2>1 DEF LeaseHolds, MaxTtl
<1>. QED
  BY <1>6, <1>7

LEMMA BindingCoheres ==
  ASSUME NEW v, Fits(decodeWorkspaceBinding, v)
  PROVE  v.object.remote_root = Str("root", 0, v.object.project_id.no, "plain")
<1>1. /\ decodeWorkspaceBinding.k = "object"
      /\ decodeWorkspaceBinding.rule = "decodeWorkspaceBinding"
  BY DEF decodeWorkspaceBinding, Object
<1> DEFINE x == v.object.remote_root
<1>2. x \in Strings({"root"}, 0, 0, {"plain"}) /\ x.no = v.object.project_id.no
  BY <1>1, RuleHolds, RulesMean
<1>3. x.len \in 0..0
  BY <1>2, StringMinted
<1>. QED
  BY <1>2, <1>3, StringMinted DEF IsText

LEMMA RuledAnswersCohere ==
  ASSUME NEW v
  PROVE  /\ Fits(decodeTerminalConnectionGrant, v) =>
              v.object.connect_url.no = v.object.terminal_session_id.no
         /\ Fits(decodeCapabilitySnapshot, v) =>
              v.object.observed_at.no < v.object.expires_at.no
<1>1. /\ decodeTerminalConnectionGrant.k = "object"
      /\ decodeTerminalConnectionGrant.rule = "decodeTerminalConnectionGrant"
  BY DEF decodeTerminalConnectionGrant, Object
<1>2. /\ decodeCapabilitySnapshot.k = "object"
      /\ decodeCapabilitySnapshot.rule = "decodeCapabilitySnapshot"
  BY DEF decodeCapabilitySnapshot, Object
<1>. QED
  BY <1>1, <1>2, RuleHolds, RulesMean

(* Neighbours in order are all in order.                                   *)
LEMMA NeighboursOrder ==
  ASSUME NEW n \in Nat, NEW g \in [1..n -> Int], \A i \in 2..n : g[i] >= g[i - 1]
  PROVE  \A i, j \in 1..n : i < j => g[i] <= g[j]
<1> DEFINE S == {k \in Nat : \A i \in 1..n : i + k \in 1..n => g[i] <= g[i + k]}
<1>1. 0 \in S
  OBVIOUS
<1>2. ASSUME NEW k \in Nat, k \in S PROVE k + 1 \in S
  <2>1. SUFFICES ASSUME NEW i \in 1..n, i + (k + 1) \in 1..n PROVE g[i] <= g[i + (k + 1)]
    OBVIOUS
  <2>2. i + k \in 1..n /\ i + (k + 1) \in 2..n /\ (i + (k + 1)) - 1 = i + k
    BY <2>1
  <2>3. g[i] <= g[i + k]
    BY <1>2, <2>2
  <2>4. g[i + (k + 1)] >= g[i + k]
    BY <2>2
  <2>. QED
    BY <2>1, <2>2, <2>3, <2>4
<1> HIDE DEF S
<1>3. \A k \in Nat : k \in S
  BY <1>1, <1>2, Induction
<1>. SUFFICES ASSUME NEW i \in 1..n, NEW j \in 1..n, i < j PROVE g[i] <= g[j]
  OBVIOUS
<1>4. j - i \in Nat /\ i + (j - i) = j
  OBVIOUS
<1>. QED
  BY <1>3, <1>4 DEF S

(* The members of an object that fits a closed kind.                       *)
LEMMA MembersRead ==
  ASSUME NEW kind, kind.k = "object", ~kind.open, NEW v, Fits7(kind, v) \/ Fits6(kind, v)
  PROVE  /\ IsObject(v)
         /\ DOMAIN kind.req \subseteq DOMAIN v.object
         /\ DOMAIN v.object \subseteq DOMAIN kind.req \cup DOMAIN kind.opt
         /\ Fits7(kind, v) => \A f \in DOMAIN kind.req : Fits6(kind.req[f], v.object[f])
BY ObjectFits DEF FitsObject, Exact

LEMMA EnvelopeRead ==
  ASSUME NEW data, NEW v, Fits(decodeWorkspaceSyncEnvelope(data), v)
  PROVE  NestedAgrees(v.object) /\ Fits7(data, v.object.data)
<1> DEFINE d == decodeWorkspaceSyncEnvelope(data)
<1>1. /\ d.k = "object" /\ d.rule = "decodeWorkspaceSyncEnvelope"
      /\ "data" \in DOMAIN d.req /\ d.req["data"] = data
  BY DEF decodeWorkspaceSyncEnvelope, Object
<1> HIDE DEF d
<1>2. Fits(d, v)
  BY DEF d
<1>3. NestedAgrees(v.object)
  BY <1>1, <1>2, RuleHolds, RulesMean
<1>4. Fits7(data, v.object.data)
  BY <1>1, <1>2, ObjectFits DEF FitsObject
<1>. QED
  BY <1>3, <1>4

LEMMA PlainDataCoheres ==
  ASSUME NEW o, NestedAgrees(o), "sync" \notin DOMAIN o.data.object,
         "items" \notin DOMAIN o.data.object, "content_base64" \notin DOMAIN o.data.object
  PROVE  CoherentData(o.data.object, o.selected_protocol)
BY DEF NestedAgrees, CoherentData

LEMMA FlatDataCoheres ==
  ASSUME NEW o, NestedAgrees(o),
         \/ Fits7(syncSession, o.data) \/ Fits7(syncChunkReceipt, o.data)
         \/ Fits7(syncCommitReceipt, o.data) \/ Fits7(syncReconcileReceipt, o.data)
  PROVE  CoherentData(o.data.object, o.selected_protocol)
<1> DEFINE None3(kind) == /\ kind.k = "object" /\ ~kind.open
                          /\ "sync" \notin DOMAIN kind.req \cup DOMAIN kind.opt
                          /\ "items" \notin DOMAIN kind.req \cup DOMAIN kind.opt
                          /\ "content_base64" \notin DOMAIN kind.req \cup DOMAIN kind.opt
<1>1. None3(syncSession)
  BY DEF syncSession, Object
<1>2. None3(syncChunkReceipt)
  BY DEF syncChunkReceipt, Object, None
<1>3. None3(syncCommitReceipt)
  BY DEF syncCommitReceipt, Object, None
<1>4. None3(syncReconcileReceipt)
  BY DEF syncReconcileReceipt, Object, None
<1>. QED
  BY <1>1, <1>2, <1>3, <1>4, MembersRead, PlainDataCoheres

LEMMA ManifestCoheres ==
  ASSUME NEW o, NestedAgrees(o), Fits7(syncManifestReceipt, o.data)
  PROVE  CoherentData(o.data.object, o.selected_protocol)
<1> DEFINE d == syncManifestReceipt  q == o.data.object
<1>1. /\ d.k = "object" /\ ~d.open /\ DOMAIN d.opt = {}
      /\ DOMAIN d.req = {"sync", "page_index", "page_digest", "missing_digests"}
      /\ d.req["sync"] = syncSession
  BY DEF syncManifestReceipt, Object, None
<1>2. /\ syncSession.k = "object"
      /\ ~syncSession.open
      /\ "selected_protocol" \in DOMAIN syncSession.req
  BY DEF syncSession, Object
<1>3. DOMAIN q = {"sync", "page_index", "page_digest", "missing_digests"}
  BY <1>1, MembersRead
<1>4. "selected_protocol" \in DOMAIN q.sync.object
  <2>1. Fits6(syncSession, q["sync"])
    BY <1>1, MembersRead
  <2>. QED
    BY <1>2, <2>1, MembersRead
<1>. QED
  BY <1>3, <1>4 DEF NestedAgrees, CoherentData

LEMMA ContentCoheres ==
  ASSUME NEW o, NestedAgrees(o), Fits7(syncChunkContent, o.data)
  PROVE  CoherentData(o.data.object, o.selected_protocol)
<1> DEFINE d == syncChunkContent  q == o.data.object  x == q["content_base64"]
           k == Matching({"base64", "base64_loose"}, 0, Unbounded, Str("base64", 9, 1, "plain"))
<1>1. /\ d.k = "object" /\ ~d.open /\ DOMAIN d.opt = {} /\ d.rule = "syncChunkContent"
      /\ DOMAIN d.req = {"selected_protocol", "digest", "byte_length", "minimum_reader",
                         "content_base64"}
      /\ d.req["content_base64"] = k
  BY DEF syncChunkContent, Object, None
<1>2. DOMAIN q = DOMAIN d.req /\ Fits6(k, x)
  BY <1>1, MembersRead
<1>3. ContentMatches(q)
  BY <1>1, RuleHolds, RulesMean
<1>4. IsText(x) /\ x.brand = "plain"
  <2>1. FitsLeaf(k, x)
    BY <1>2, LeafFits DEF Leaves, Matching, Branded
  <2>. QED
    BY <2>1, StringMinted DEF FitsLeaf, Matching, Branded
<1>5. q.selected_protocol = o.selected_protocol
  BY <1>1, <1>2 DEF NestedAgrees
<1>6. x = Str("base64", q.byte_length.int, q.digest.no, "plain")
  BY <1>3, <1>4 DEF ContentMatches, IsText
<1>7. q.minimum_reader.int <= o.selected_protocol.int
  BY <1>3, <1>5 DEF ContentMatches
<1> HIDE DEF d
<1>. QED
  BY <1>1, <1>2, <1>5, <1>6, <1>7 DEF CoherentData

LEMMA ShapeMeans ==
  ASSUME NEW e, OperationShape(e) PROVE WellShaped(e)
<1>1. Word("revision") # Word("delete") /\ Word("revision") # Word("upsert")
      /\ Word("delete") # Word("upsert")
  BY DEF Word
<1>2. /\ (e.path = Null) <=> (e.operation = Word("revision"))
      /\ (e.entry = Null) <=> (e.operation # Word("upsert"))
  BY <1>1 DEF OperationShape
<1>. QED
  BY <1>2 DEF WellShaped

LEMMA ChangeRead ==
  ASSUME NEW e, Fits5(syncChangeItem, e)
  PROVE  WellShaped(e.object) /\ e.object.generation.int \in Int
<1> DEFINE d == syncChangeItem
<1>1. /\ d.k = "object" /\ d.rule = "syncChangeItem"
      /\ "generation" \in DOMAIN d.req /\ d.req["generation"] = safeInteger(1)
  BY DEF syncChangeItem, Object
<1> HIDE DEF d
<1>2. Fits5(d, e)
  BY DEF d
<1>3. WellShaped(e.object)
  BY <1>1, <1>2, RuleHolds, RulesMean, ShapeMeans
<1>4. Fits4(safeInteger(1), e.object.generation)
  BY <1>1, <1>2, ObjectFits DEF FitsObject
<1>5. e.object.generation.int \in Int
  <2> DEFINE k == safeInteger(1)
  <2>1. k.k = "int" /\ k.safe /\ k.lo = 1 /\ k.hi = Unbounded
    BY DEF safeInteger, SafeWhole
  <2> HIDE DEF k
  <2>2. FitsLeaf(k, e.object.generation)
    BY <1>4, <2>1, LeafFits DEF k, Leaves
  <2>3. e.object.generation \in [int : 1..Unbounded]
    BY <2>1, <2>2 DEF FitsLeaf
  <2>. QED
    BY <2>3
<1>. QED
  BY <1>3, <1>5

LEMMA ChangesCohere ==
  ASSUME NEW o, NestedAgrees(o), Fits7(syncChangePage, o.data)
  PROVE  CoherentData(o.data.object, o.selected_protocol)
<1> DEFINE d == syncChangePage  q == o.data.object  x == q["items"]
           k == ListOf(syncChangeItem, 0, 1000)
<1>1. /\ d.k = "object" /\ ~d.open /\ DOMAIN d.opt = {} /\ d.rule = "syncChangePage"
      /\ DOMAIN d.req = {"selected_protocol", "items", "next_cursor"}
      /\ d.req["items"] = k
  BY DEF syncChangePage, Object, None
<1>2. k.k = "list" /\ k.of = syncChangeItem
  BY DEF ListOf
<1> HIDE DEF d, k
<1>3. DOMAIN q = DOMAIN d.req /\ Fits6(k, x)
  BY <1>1, MembersRead DEF d
<1>4. OrderedGenerations(x)
  BY <1>1, RuleHolds, RulesMean DEF d
<1>5. IsList(x) /\ \A e \in Elements(x) : Fits5(syncChangeItem, e)
  BY <1>2, <1>3, ListFits DEF FitsList
<1>6. \A e \in Elements(x) : WellShaped(e.object) /\ e.object.generation.int \in Int
  BY <1>5, ChangeRead
<1>7. ASSUME Is("items", x)
      PROVE  \A i, j \in DOMAIN x.items :
               i < j => x.items[i].object.generation.int <= x.items[j].object.generation.int
  <2> DEFINE n == Len(x.items)  g == [i \in 1..n |-> x.items[i].object.generation.int]
  <2>1. n \in Nat /\ DOMAIN x.items = 1..n /\ \A i \in 1..n : x.items[i] \in Elements(x)
    <3>1. x.items \in Seq(Elements(x))
      BY <1>5, <1>7 DEF IsList, Is
    <3>2. n \in Nat /\ DOMAIN x.items = 1..n
      BY <3>1, LenProperties
    <3>3. \A i \in DOMAIN x.items : x.items[i] \in Elements(x)
      BY <1>7 DEF Elements
    <3>. QED
      BY <3>2, <3>3
  <2>2. g \in [1..n -> Int]
    BY <1>6, <2>1
  <2>3. \A i \in 2..n : g[i] >= g[i - 1]
    <3>1. \A i \in 2..n : x.items[i].object.generation.int >= x.items[i - 1].object.generation.int
      BY <1>4, <1>7 DEF OrderedGenerations
    <3>2. \A i \in 2..n : i \in 1..n /\ i - 1 \in 1..n
      BY <2>1
    <3> HIDE DEF n, x
    <3>. QED
      BY <3>1, <3>2
  <2> HIDE DEF n
  <2>4. \A i, j \in 1..n : i < j => g[i] <= g[j]
    <3> HIDE DEF g
    <3>. QED
      BY <2>1, <2>2, <2>3, NeighboursOrder
  <2>. QED
    BY <2>1, <2>4
<1>8. Ordered(x)
  BY <1>7 DEF Ordered
<1>. QED
  BY <1>1, <1>3, <1>6, <1>8 DEF CoherentData, NestedAgrees

LEMMA SyncAnswerCoheres ==
  ASSUME op \in OperationNames, IsSync(op), Fits(Decoder[op], message)
  PROVE  /\ NestedAgrees(message.object)
         /\ CoherentData(message.object.data.object, message.object.selected_protocol)
<1>1. CASE op = "workspaces.sync.begin"
  <2>1. Decoder[op] = decodeWorkspaceSyncEnvelope(syncSession)
    BY <1>1 DEF Decoder
  <2>. QED
    BY <2>1, EnvelopeRead, FlatDataCoheres
<1>2. CASE op = "workspaces.sync.negotiate"
  <2>1. Decoder[op] = decodeWorkspaceSyncEnvelope(syncManifestReceipt)
    BY <1>2 DEF Decoder
  <2>. QED
    BY <2>1, EnvelopeRead, ManifestCoheres
<1>3. CASE op = "workspaces.sync.chunk"
  <2>1. Decoder[op] = decodeWorkspaceSyncEnvelope(syncChunkReceipt)
    BY <1>3 DEF Decoder
  <2>. QED
    BY <2>1, EnvelopeRead, FlatDataCoheres
<1>4. CASE op = "workspaces.sync.chunkDownload"
  <2>1. Decoder[op] = decodeWorkspaceSyncEnvelope(syncChunkContent)
    BY <1>4 DEF Decoder
  <2>. QED
    BY <2>1, EnvelopeRead, ContentCoheres
<1>5. CASE op = "workspaces.sync.commit"
  <2>1. Decoder[op] = decodeWorkspaceSyncEnvelope(syncCommitReceipt)
    BY <1>5 DEF Decoder
  <2>. QED
    BY <2>1, EnvelopeRead, FlatDataCoheres
<1>6. CASE op = "workspaces.sync.changes"
  <2>1. Decoder[op] = decodeWorkspaceSyncEnvelope(syncChangePage)
    BY <1>6 DEF Decoder
  <2>. QED
    BY <2>1, EnvelopeRead, ChangesCohere
<1>7. CASE op = "workspaces.sync.reconcile"
  <2>1. Decoder[op] = decodeWorkspaceSyncEnvelope(syncReconcileReceipt)
    BY <1>7 DEF Decoder
  <2>. QED
    BY <2>1, EnvelopeRead, FlatDataCoheres
<1>. QED
  BY <1>1, <1>2, <1>3, <1>4, <1>5, <1>6, <1>7 DEF IsSync

LEMMA AnswerCoheres ==
  ASSUME op \in Called, Fits(Decoder[op], message)
  PROVE  Coherent(message.object)
<1> DEFINE o == message.object
<1>1. op \in OperationNames
  BY DEF Called
<1>2. ASSUME op = "agentSessions.agentAuth" PROVE LeaseHolds(o)
  <2>1. Decoder[op] = decodeAgentSessionAuth
    BY <1>1, <1>2 DEF Decoder
  <2>. QED
    BY <2>1, AuthCoheres
<1>3. ASSUME op = "capabilities.get" PROVE o.observed_at.no < o.expires_at.no
  <2>1. Decoder[op] = decodeCapabilitySnapshot
    BY <1>1, <1>3 DEF Decoder
  <2>. QED
    BY <2>1, RuledAnswersCohere
<1>4. ASSUME op \in {"workspaceBindings.create", "workspaceBindings.get"}
      PROVE  o.remote_root = Str("root", 0, o.project_id.no, "plain")
  <2>1. Decoder[op] = decodeWorkspaceBinding
    BY <1>1, <1>4 DEF Decoder
  <2>. QED
    BY <2>1, BindingCoheres
<1>5. ASSUME op = "agentSessions.createTerminalConnection"
      PROVE  o.connect_url.no = o.terminal_session_id.no
  <2>1. Decoder[op] = decodeTerminalConnectionGrant
    BY <1>1, <1>5 DEF Decoder
  <2>. QED
    BY <2>1, RuledAnswersCohere
<1>6. ASSUME IsSync(op)
      PROVE  /\ CoherentData(o.data.object, o.selected_protocol)
             /\ "capabilities" \in DOMAIN o.data.object => o.data.object.capabilities = o.capabilities
  BY <1>1, <1>6, SyncAnswerCoheres DEF NestedAgrees
<1>. QED
  BY <1>2, <1>3, <1>4, <1>5, <1>6 DEF Coherent, LeaseHolds

(* No result that reaches the program contradicts itself: the receipt in   *)
(* an envelope speaks of the protocol and the capabilities of the          *)
(* envelope, a page of changes is in the order of its generations however  *)
(* long it is, a content has the length and the digest of its receipt, a   *)
(* root names its project, a stream its session, and an observation lasts  *)
(* no longer than it may; and no text in it is marked.                     *)
THEOREM ResultsCohere == Spec => []AcceptedCoheres
<1>1. Decoded => AcceptedCoheres
  BY AnswerCoheres DEF Decoded, AcceptedCoheres
<1>. QED
  BY <1>1, DecodedInvariant, PTL

----------------------------------------------------------------------------
(* What the contract allows, and is coherent and plain, the decoders take. *)

\* Members named in S are looked at on their own.
LEMMA TakenBut8 ==
  ASSUME NEW d, NEW s, Closed(d, s), NEW S,
         \A f \in DOMAIN d.req \ S : Takes7(d.req[f], s.req[f]),
         \A f \in DOMAIN d.opt : Takes7(d.opt[f], s.opt[f]),
         NEW v, Fits(s, v), Plain(v),
         \A f \in S : Fits7(d.req[f], v.object[f]), Rule(d.rule, v.object)
  PROVE  Fits(d, v)
<1>1. FitsObject(Fits7, s, v)
  BY ObjectFits DEF Closed
<1>2. \A f \in DOMAIN v.object : Plain7(v.object[f])
  BY <1>1, PlainMembers DEF FitsObject
<1>3. FitsObject(Fits7, d, v)
  BY <1>1, <1>2 DEF FitsObject, Exact, Closed, Takes7
<1>. QED
  BY <1>3, ObjectFits DEF Closed

LEMMA TakenBut7 ==
  ASSUME NEW d, NEW s, Closed(d, s), NEW S,
         \A f \in DOMAIN d.req \ S : Takes6(d.req[f], s.req[f]),
         \A f \in DOMAIN d.opt : Takes6(d.opt[f], s.opt[f]),
         NEW v, Fits7(s, v), Plain7(v),
         \A f \in S : Fits6(d.req[f], v.object[f]), Rule(d.rule, v.object)
  PROVE  Fits7(d, v)
<1>1. FitsObject(Fits6, s, v)
  BY ObjectFits DEF Closed
<1>2. \A f \in DOMAIN v.object : Plain6(v.object[f])
  BY <1>1, PlainMembers DEF FitsObject
<1>3. FitsObject(Fits6, d, v)
  BY <1>1, <1>2 DEF FitsObject, Exact, Closed, Takes6
<1>. QED
  BY <1>3, ObjectFits DEF Closed

\* The members of what the contract allows.
LEMMA AllowedRead ==
  ASSUME NEW s, s.k = "object", NEW v
  PROVE  /\ Fits(s, v) => /\ IsObject(v) /\ Rule(s.rule, v.object)
                          /\ \A f \in DOMAIN s.req : /\ f \in DOMAIN v.object
                                                     /\ Fits7(s.req[f], v.object[f])
         /\ Fits7(s, v) => /\ IsObject(v) /\ Rule(s.rule, v.object)
                           /\ \A f \in DOMAIN s.req : /\ f \in DOMAIN v.object
                                                      /\ Fits6(s.req[f], v.object[f])
BY ObjectFits DEF FitsObject, Exact

LEMMA ContractRulesMean ==
  ASSUME NEW o
  PROVE  /\ Rule("AgentSessionAuth", o) => AuthAlternative(o)
         /\ Rule("EveryCapabilityOnce", o) => NamesIn(o.capabilities) = TerminalCapabilityNames
         /\ Rule("CapabilitiesWithProtocol", o) =>
              Length(o.capabilities) = IF o.selected_protocol = Null THEN 0 ELSE 6
BY DEF Rule, ContractRule, DecoderRule, RequestRule, NamesIn

LEMMA UnboundedIsLarge == Unbounded \in Nat /\ 1024 <= Unbounded
BY DEF Unbounded

\* An enumerated word, and a string of no length of its own, is a string.
LEMMA TextTaken ==
  ASSUME NEW x, IsWord(x) \/ \E forms, brands : x \in Strings(forms, 0, 0, brands)
  PROVE  Fits7(string, x)
<1>1. string.k = "text" /\ string.lo = 0 /\ string.hi = Unbounded
  BY DEF string, AnyText
<1>2. ASSUME NEW forms, NEW brands, x \in Strings(forms, 0, 0, brands)
      PROVE  IsText(x) /\ x.len \in 0..Unbounded
  <2>1. IsText(x) /\ x.len \in 0..0
    BY <1>2, StringMinted
  <2>. QED
    BY <2>1, UnboundedIsLarge
<1>3. FitsLeaf(string, x)
  BY <1>1, <1>2 DEF FitsLeaf
<1>. QED
  BY <1>1, <1>3, LeafFits DEF Leaves

\* A leaf of strings, and one of enumerated values, is what it says.
LEMMA LeafRead ==
  ASSUME NEW s, NEW x, Fits7(s, x) \/ Fits6(s, x) \/ Fits4(s, x)
  PROVE  /\ s.k = "pattern" => x \in Strings(s.forms, s.lo, s.hi, s.brands)
         /\ s.k = "const" => x \in s.vals
<1>1. CASE s.k \in {"pattern", "const"}
  <2>1. FitsLeaf(s, x)
    BY <1>1, LeafFits DEF Leaves
  <2>. QED
    BY <2>1 DEF FitsLeaf
<1>. QED
  BY <1>1

LEMMA InstantRead ==
  ASSUME NEW at, NEW x, Fits7(DateTime(at), x)
  PROVE  x.no \in Nat
<1>1. x \in Strings({"time", "leap"}, 0, 0, {"plain"})
  BY LeafRead DEF DateTime, Matching, Branded
<1>. QED
  BY <1>1 DEF Strings

(* An object of d has the members of s.                                    *)
Parallel(d, s) ==
  /\ d.k = "object" /\ s.k = "object" /\ ~d.open /\ ~s.open
  /\ DOMAIN d.req = DOMAIN s.req /\ DOMAIN d.opt = DOMAIN s.opt

(* The evidence of an observation, of its alternatives and its lease.      *)
LEMMA AuthTaken ==
  ASSUME NEW v, Fits(AgentSessionAuth, v), Plain(v), LeaseHolds(v.object)
  PROVE  Fits(decodeAgentSessionAuth, v)
<1> DEFINE d == decodeAgentSessionAuth  s == AgentSessionAuth  o == v.object
           W(f) == Paired(d.req[f], s.req[f])
           semver == Matching({"semver"}, 0, 0, Str("semver", 0, 1, "plain"))
           missing == Exactly({Word("unavailable")}, Word("unavailable"))
           states == Enum({"login_required", "authenticated", "configured", "unavailable"},
                          "authenticated")
<1> USE DEF decodeAgentSessionAuth, AgentSessionAuth, Object, None
<1>1. /\ Parallel(d, s) /\ d.rule = "decodeAgentSessionAuth" /\ s.rule = "AgentSessionAuth"
      /\ DOMAIN d.req = {"observation_id", "agent_session_id", "process_epoch", "auth_mode",
                         "agent_version", "adapter_version", "evidence_class", "observed_at",
                         "valid_until", "state"}
      /\ DOMAIN d.opt = {}
  BY DEF Parallel
<1>2. W("observation_id") /\ W("agent_session_id") /\ W("observed_at") /\ W("valid_until")
  BY NamedReaders, AlikePaired
<1>3. W("process_epoch")
  BY NullableReaders, NamedReaders
<1>4. W("auth_mode") /\ W("evidence_class") /\ W("adapter_version")
  BY Reflexive, BrandedReaders, AlikePaired DEF AGENT_SESSION_AUTH_MODES, AuthMode
<1>5. /\ d.req["agent_version"] = string /\ d.req["state"] = string
      /\ s.req["agent_version"] = Either(semver, missing) /\ s.req["state"] = states
      /\ s.req["observed_at"] = DateTime(10) /\ s.req["valid_until"] = DateTime(30)
  OBVIOUS
<1>0. Fits(s, v)
  OBVIOUS
<1> HIDE DEF d, s
<1>6. /\ IsObject(v) /\ AuthAlternative(o)
      /\ \A f \in DOMAIN d.req : Fits7(s.req[f], o[f])
  <2>1. IsObject(v) /\ Rule(s.rule, o) /\ \A f \in DOMAIN s.req : Fits7(s.req[f], o[f])
    BY <1>0, <1>1, AllowedRead DEF Parallel
  <2>2. AuthAlternative(o)
    BY <1>1, <2>1, ContractRulesMean
  <2>. QED
    BY <1>1, <2>1, <2>2 DEF Parallel
<1>7. o.observed_at.no \in Nat /\ o.valid_until.no \in Nat
  BY <1>1, <1>5, <1>6, InstantRead
<1>8. o["agent_version"] \in Strings({"semver"}, 0, 0, {"plain"})
      \/ o["agent_version"] = Word("unavailable")
  <2> DEFINE u == Either(semver, missing)  x == o["agent_version"]
  <2>1. /\ u.k = "either" /\ u.one = semver /\ u.other = missing
        /\ semver.k \in Leaves /\ missing.k \in Leaves
    BY DEF Either, Matching, Branded, Exactly, Leaves
  <2>2. FitsLeaf(semver, x) \/ FitsLeaf(missing, x)
    <3>1. Fits7(u, x)
      BY <1>1, <1>5, <1>6
    <3> HIDE DEF u, semver, missing
    <3>. QED
      BY <2>1, <3>1, EitherFits
  <2>. QED
    BY <2>2 DEF FitsLeaf, Matching, Branded, Exactly
<1>9. IsWord(o["state"])
  <2>1. states.k = "const" /\ \A x \in states.vals : IsWord(x)
    BY DEF Enum, Exactly, IsWord, Word
  <2> HIDE DEF states
  <2>. QED
    BY <1>1, <1>5, <1>6, <2>1, LeafRead
<1>10. Fits7(d.req["agent_version"], o["agent_version"]) /\ Fits7(d.req["state"], o["state"])
  <2>1. IsWord(Word("unavailable"))
    BY DEF IsWord, Word
  <2>. QED
    BY <1>5, <1>8, <1>9, <2>1, TextTaken
<1>11. AuthEvidence(o)
  <2>1. /\ Word("login_required") # Word("unavailable")
        /\ Word("authenticated") # Word("unavailable")
        /\ Word("configured") # Word("unavailable")
    BY DEF Word
  <2>2. CASE o.state = Word("unavailable")
    BY <1>6, <2>1, <2>2 DEF AuthAlternative, AuthEvidence, LeaseHolds
  <2>3. CASE o.state # Word("unavailable")
    <3>1. Is("form", o.process_epoch) /\ Is("form", o.agent_version)
      BY <1>6, <2>3 DEF AuthAlternative
    <3>2. o.process_epoch # Null
      BY <3>1 DEF Is, Null
    <3>3. o.agent_version \in Strings({"semver"}, 0, 0, {"plain"})
      BY <1>8, <3>1 DEF Is, Word
    <3>4. /\ o.valid_until.no > o.observed_at.no
          /\ o.valid_until.no - o.observed_at.no <= MaxTtl
          /\ o.observed_at.no <= Now + MaxSkew /\ o.valid_until.no > Now
      BY <1>7, <2>3 DEF LeaseHolds, MaxTtl
    <3>. QED
      BY <1>6, <2>3, <3>2, <3>3, <3>4 DEF AuthAlternative, AuthEvidence
  <2>. QED
    BY <2>2, <2>3
<1>12. Rule(d.rule, o)
  BY <1>1, <1>11 DEF Rule, DecoderRule
<1>13. \A f \in DOMAIN d.req \ {"agent_version", "state"} : Fits7(d.req[f], o[f])
  <2>1. \A f \in DOMAIN o : Plain7(o[f])
    BY <1>6, PlainMembers
  <2>2. \A f \in DOMAIN d.req : f \in DOMAIN o
    BY <1>0, <1>1, AllowedRead DEF Parallel
  <2>3. \A f \in DOMAIN d.req \ {"agent_version", "state"} : Takes7(d.req[f], s.req[f])
    BY <1>1, <1>2, <1>3, <1>4, LeafTakes
  <2>. QED
    BY <1>6, <2>1, <2>2, <2>3 DEF Takes7
<1>14. FitsObject(Fits7, d, v)
  <2>1. Exact(d, o)
    BY <1>0, <1>1, ObjectFits DEF FitsObject, Exact, Parallel
  <2>. QED
    BY <1>1, <1>6, <1>10, <1>12, <1>13, <2>1 DEF FitsObject
<1>15. Fits(d, v)
  BY <1>1, <1>14, ObjectFits DEF Parallel
<1>. QED
  BY <1>15 DEF d

LEMMA BindingTaken ==
  ASSUME NEW v, Fits(WorkspaceBindingSchema, v), Plain(v),
         v.object.remote_root = Str("root", 0, v.object.project_id.no, "plain")
  PROVE  Fits(decodeWorkspaceBinding, v)
<1> DEFINE d == decodeWorkspaceBinding  s == WorkspaceBindingSchema  o == v.object
           W(f) == Paired(d.req[f], s.req[f])
<1> USE DEF decodeWorkspaceBinding, WorkspaceBindingSchema, Object, None
<1>1. /\ Closed(d, s) /\ d.rule = "decodeWorkspaceBinding" /\ s.rule = "none"
      /\ DOMAIN d.req = {"binding_id", "workspace_id", "project_id",
                         "local_instance_id", "machine_id", "created_at",
                         "updated_at", "exclusion_policy_digest",
                         "active_manifest_root", "minimum_reader", "minimum_writer",
                         "active_generation", "binding_epoch", "remote_root"}
      /\ DOMAIN d.opt = {}
  BY DEF Closed
<1>2. W("binding_id") /\ W("workspace_id") /\ W("project_id") /\
      W("local_instance_id") /\ W("machine_id") /\ W("created_at") /\ W("updated_at")
  BY NamedReaders, AlikePaired
<1>3. W("exclusion_policy_digest") /\ W("active_manifest_root") /\
      W("minimum_reader") /\ W("minimum_writer")
  BY NamedReaders, NumberReaders, AlikePaired
<1>4. W("active_generation") /\ W("binding_epoch")
  BY NumberReaders, AlikePaired
     DEF safeInteger
<1>5. /\ s.req["remote_root"] = Matching({"root"}, 0, 0, Str("root", 0, 1, "plain"))
      /\ d.req["remote_root"] = string
  OBVIOUS
<1>0. Fits(s, v)
  OBVIOUS
<1> HIDE DEF d, s
<1>6. /\ \A f \in DOMAIN d.req \ {"remote_root"} : Takes7(d.req[f], s.req[f])
      /\ \A f \in DOMAIN d.opt : Takes7(d.opt[f], s.opt[f])
  BY <1>1, <1>2, <1>3, <1>4, LeafTakes
<1>7. o["remote_root"] \in Strings({"root"}, 0, 0, {"plain"})
  <2>1. Fits7(s.req["remote_root"], o["remote_root"])
    BY <1>0, <1>1, AllowedRead DEF Closed
  <2> DEFINE k == Matching({"root"}, 0, 0, Str("root", 0, 1, "plain"))
  <2>2. /\ k.k = "pattern" /\ k.forms = {"root"} /\ k.lo = 0 /\ k.hi = 0
        /\ k.brands = {"plain"}
    BY DEF Matching, Branded
  <2>3. Fits7(k, o["remote_root"])
    BY <1>5, <2>1
  <2> HIDE DEF k
  <2>4. o["remote_root"] \in Strings(k.forms, k.lo, k.hi, k.brands)
    BY <2>2, <2>3, LeafRead
  <2>. QED
    BY <2>2, <2>4
<1>8. Fits7(d.req["remote_root"], o["remote_root"])
  BY <1>5, <1>7, TextTaken
<1>9. Rule(d.rule, o)
  <2>1. o.remote_root.no = o.project_id.no
    BY DEF Str
  <2>. QED
    BY <1>1, <1>7, <2>1 DEF Rule, DecoderRule
<1> DEFINE S == {"remote_root"}
<1>10. \A f \in S : Fits7(d.req[f], o[f])
  BY <1>8
<1>11. /\ \A f \in DOMAIN d.req \ S : Takes7(d.req[f], s.req[f])
       /\ \A f \in DOMAIN d.opt : Takes7(d.opt[f], s.opt[f])
  BY <1>6
<1> HIDE DEF S
<1>12. Fits(d, v)
  BY <1>0, <1>1, <1>9, <1>10, <1>11, TakenBut8
<1>. QED
  BY <1>12 DEF d

(* Five capabilities, each once, are five capabilities.                    *)
LEMMA GrantTaken ==
  ASSUME NEW v, Fits(TerminalConnectionGrant, v), Plain(v),
         v.object.connect_url.no = v.object.terminal_session_id.no
  PROVE  Fits(decodeTerminalConnectionGrant, v)
<1> DEFINE d == decodeTerminalConnectionGrant  s == TerminalConnectionGrant  o == v.object
           W(f) == Paired(d.req[f], s.req[f])
<1> USE DEF decodeTerminalConnectionGrant, TerminalConnectionGrant, Object, None
<1>1. /\ Closed(d, s)
      /\ d.rule = "decodeTerminalConnectionGrant"
      /\ s.rule = "EveryCapabilityOnce"
      /\ DOMAIN d.req = {"terminal_session_id", "resume_handle", "expires_at",
                         "connect_url", "connect_token", "protocol", "capabilities"}
      /\ DOMAIN d.opt = {}
  BY DEF Closed
<1>2. W("terminal_session_id") /\ W("resume_handle") /\ W("expires_at")
  BY NamedReaders, AlikePaired
<1>3. W("connect_url") /\ W("connect_token") /\ W("protocol")
  BY BrandedReaders, AlikePaired
<1>4. Takes7(d.req["capabilities"], s.req["capabilities"])
  <2> DEFINE few == ListOf(terminalCapability, 5, 5)
             all == SetLike(TerminalConnectionCapability, 5, 5, FiveCapabilities)
  <2>1. Takes6(terminalCapability, TerminalConnectionCapability)
    <3>1. terminalCapability.rule = "none" /\ TerminalConnectionCapability.rule = "none"
      BY DEF terminalCapability, TerminalConnectionCapability
    <3>. QED
      BY <3>1, TerminalCapabilityFlat, FlatAgrees DEF Agrees6
  <2>2. Wider(few, all) /\ few.of = terminalCapability /\ all.of = TerminalConnectionCapability
    BY DEF Wider, ListOf, SetLike
  <2>3. d.req["capabilities"] = few /\ s.req["capabilities"] = all
    OBVIOUS
  <2> HIDE DEF few, all, d, s
  <2>4. Takes7(few, all)
    BY <2>1, <2>2, ListTaken7
  <2>. QED
    BY <2>3, <2>4
<1> HIDE DEF d, s
<1>5. /\ \A f \in DOMAIN d.req : Takes7(d.req[f], s.req[f])
      /\ \A f \in DOMAIN d.opt : Takes7(d.opt[f], s.opt[f])
  BY <1>1, <1>2, <1>3, <1>4, LeafTakes
<1>6. NamesIn(o.capabilities) = TerminalCapabilityNames
  BY <1>1, AllowedRead, ContractRulesMean DEF Closed
<1>7. Rule(d.rule, o)
  BY <1>1, <1>6 DEF Rule, DecoderRule, NamesIn, TERMINAL_CAPABILITY_NAMES,
                    TerminalCapabilityNames
<1>8. TakesIf(d, s)
  BY <1>1, <1>5, Taken8
<1>. QED
  BY <1>7, <1>8 DEF TakesIf, d, s

LEMMA SnapshotTaken ==
  ASSUME NEW v, Fits(CapabilitySnapshot, v), Plain(v),
         v.object.observed_at.no < v.object.expires_at.no
  PROVE  Fits(decodeCapabilitySnapshot, v)
<1>1. decodeCapabilitySnapshot.rule = "decodeCapabilitySnapshot"
  BY DEF decodeCapabilitySnapshot, Object
<1>2. Rule(decodeCapabilitySnapshot.rule, v.object)
  BY <1>1 DEF Rule, DecoderRule
<1>. QED
  BY <1>2, CapabilitySnapshotConforms DEF TakesIf

LEMMA ProblemTaken ==
  ASSUME NEW v, Fits(ProblemSchema, v), Plain(v), v.object.status = Num(HttpStatus)
  PROVE  Fits(decodeProblem, v)
<1>1. decodeProblem.rule = "expectedStatus"
  BY DEF decodeProblem, Object
<1>2. Rule(decodeProblem.rule, v.object)
  BY <1>1 DEF Rule, DecoderRule, Num
<1>. QED
  BY <1>2, ProblemFlat, FlatTakes DEF TakesIf

LEMMA SyncProblemTaken ==
  ASSUME NEW v, Fits(WorkspaceSyncProblemSchema, v), Plain(v),
         v.object.status = Num(HttpStatus), v.object.type.no = v.object.code.no
  PROVE  Fits(decodeWorkspaceSyncProblem, v)
<1> DEFINE d == decodeWorkspaceSyncProblem  s == WorkspaceSyncProblemSchema  o == v.object
           W(f) == Paired(d.req[f], s.req[f])
           kind == Branded({"syncptype"}, 0, 0, {"runa"}, Str("syncptype", 0, 1, "runa"))
           S == {"type"}
<1>1. Takes7([syncCapabilities EXCEPT !.lo = 0], SyncCapabilityList(0))
  <2> DEFINE c == syncCapabilities  few == [c EXCEPT !.lo = 0]
             r == SyncCapabilityList(6)  all == SyncCapabilityList(0)
  <2>1. /\ few.k = "list" /\ few.of = c.of /\ few.lo = 0 /\ few.hi = 6 /\ few.unique
        /\ all.k = "list" /\ all.of = r.of /\ all.lo = 0 /\ all.hi = 6 /\ all.unique
    BY DEF syncCapabilities, SyncCapabilityList, SetLike
  <2>2. Wider(few, all)
    BY <2>1 DEF Wider
  <2>3. Paired(c.of, r.of)
    BY CapabilityNamed
  <2> HIDE DEF c, few, r, all
  <2>4. Takes7(few, all)
    BY <2>1, <2>2, <2>3, LeafTakes, ListTaken7
  <2>. QED
    BY <2>4 DEF c, few, all
<1> USE DEF decodeWorkspaceSyncProblem, WorkspaceSyncProblemSchema, Object, None
<1>2. /\ Closed(d, s)
      /\ d.rule = "decodeWorkspaceSyncProblem"
      /\ s.rule = "CapabilitiesWithProtocol"
      /\ DOMAIN d.req = {"title", "detail", "request_id", "retryable", "status",
                         "code", "action", "selected_protocol", "capabilities",
                         "type"}
      /\ DOMAIN d.opt = {}
  BY DEF Closed
<1>3. W("title") /\ W("detail") /\ W("request_id") /\ W("retryable")
  BY NamedReaders, TextReaders, PlainReaders, AlikePaired
<1>4. W("status") /\ W("code") /\ W("action")
  BY NumberReaders, PatternReaders, Reflexive, AlikePaired
<1>5. W("selected_protocol")
  BY NullableReaders, PlainReaders
<1>6. Takes7(d.req["capabilities"], s.req["capabilities"])
  BY <1>1
<1>7. d.req["type"] = string /\ s.req["type"] = kind
  OBVIOUS
<1>8. Fits(s, v)
  OBVIOUS
<1> HIDE DEF d, s, decodeWorkspaceSyncProblem, WorkspaceSyncProblemSchema, Object, None
<1>9. /\ \A f \in DOMAIN d.req \ S : Takes7(d.req[f], s.req[f])
      /\ \A f \in DOMAIN d.opt : Takes7(d.opt[f], s.opt[f])
  BY <1>2, <1>3, <1>4, <1>5, <1>6, LeafTakes
<1>10. o["type"] \in Strings({"syncptype"}, 0, 0, {"runa"})
  <2>1. /\ kind.k = "pattern" /\ kind.forms = {"syncptype"} /\ kind.lo = 0 /\ kind.hi = 0
        /\ kind.brands = {"runa"}
    BY DEF Branded
  <2>2. Fits7(kind, o["type"])
    <3>1. Fits7(s.req["type"], o["type"])
      BY <1>2, <1>8, AllowedRead DEF Closed
    <3>. QED
      BY <1>7, <3>1
  <2> HIDE DEF kind
  <2>3. o["type"] \in Strings(kind.forms, kind.lo, kind.hi, kind.brands)
    BY <2>1, <2>2, LeafRead
  <2>. QED
    BY <2>1, <2>3
<1>11. \A f \in S : Fits7(d.req[f], o[f])
  BY <1>7, <1>10, TextTaken
<1>12. Rule(d.rule, o)
  <2>1. Rule(s.rule, o)
    BY <1>2, <1>8, AllowedRead DEF Closed
  <2>2. Length(o.capabilities) = IF o.selected_protocol = Null THEN 0 ELSE 6
    BY <1>2, <2>1, ContractRulesMean
  <2>3. o.type \in Strings({"syncptype"}, 0, 0, Brands)
    BY <1>10 DEF Strings, Brands
  <2>4. o.status.int = HttpStatus
    BY DEF Num
  <2>5. SyncProblemAgrees(o)
    BY <2>2, <2>3, <2>4 DEF SyncProblemAgrees
  <2>. QED
    BY <1>2, <2>5 DEF Rule, DecoderRule
<1> HIDE DEF S
<1>13. Fits(d, v)
  BY <1>2, <1>8, <1>9, <1>11, <1>12, TakenBut8
<1>. QED
  BY <1>13 DEF d

\* A content the contract allows is no longer than any the decoder takes.
LEMMA ContentTaken ==
  ASSUME NEW v, Fits7(WorkspaceSyncChunkContent, v), Plain7(v),
         NEW protocol, CoherentData(v.object, protocol)
  PROVE  Fits7(syncChunkContent, v)
<1> DEFINE d == syncChunkContent  s == WorkspaceSyncChunkContent  o == v.object
           W(f) == Paired(d.req[f], s.req[f])
           forms == {"base64", "base64_loose"}
           any == Matching(forms, 0, Unbounded, Str("base64", 9, 1, "plain"))
           S == {"content_base64"}
<1> USE DEF syncChunkContent, WorkspaceSyncChunkContent, Object, None
<1>1. /\ Closed(d, s) /\ d.rule = "syncChunkContent" /\ s.rule = "none"
      /\ DOMAIN d.req = {"selected_protocol", "digest", "byte_length",
                         "minimum_reader", "content_base64"}
      /\ DOMAIN d.opt = {}
  BY DEF Closed
<1>2. W("selected_protocol") /\ W("digest")
  BY NamedReaders, PlainReaders, AlikePaired
<1>3. W("byte_length") /\ W("minimum_reader")
  BY NumberReaders, AlikePaired
     DEF Between
<1>4. /\ d.req["content_base64"] = any
      /\ s.req["content_base64"] = Matching(forms, 0, 8388608, Str("base64", 9, 1, "plain"))
  OBVIOUS
<1>5. Fits7(s, v)
  OBVIOUS
<1> HIDE DEF d, s, syncChunkContent, WorkspaceSyncChunkContent, Object, None
<1>6. /\ \A f \in DOMAIN d.req \ S : Takes6(d.req[f], s.req[f])
      /\ \A f \in DOMAIN d.opt : Takes6(d.opt[f], s.opt[f])
  BY <1>1, <1>2, <1>3, LeafTakes
<1>7. \A f \in DOMAIN s.req : f \in DOMAIN o /\ Fits6(s.req[f], o[f])
  BY <1>1, <1>5, AllowedRead DEF Closed
<1>8. \A f \in S : Fits6(d.req[f], o[f])
  <2> DEFINE hi == 8388608  bounded == Matching(forms, 0, hi, Str("base64", 9, 1, "plain"))
             x == o["content_base64"]
  <2>1. hi \in Nat /\ hi <= Unbounded
    BY SMT DEF Unbounded
  <2>2. bounded.k = "pattern" /\ bounded.forms = forms /\ bounded.lo = 0 /\ bounded.hi = hi
        /\ bounded.brands = {"plain"}
    BY DEF Matching, Branded
  <2>3. any.k = "pattern" /\ any.forms = forms /\ any.lo = 0 /\ any.hi = Unbounded
        /\ any.brands = {"plain"}
    BY DEF Matching, Branded
  <2>4. Fits6(bounded, x)
    BY <1>1, <1>4, <1>7 DEF Closed
  <2> HIDE DEF bounded, any, hi, forms, x
  <2>5. x \in Strings(forms, 0, hi, {"plain"})
    BY <2>2, <2>4, LeafRead
  <2>6. x \in Strings(forms, 0, Unbounded, {"plain"})
    BY <2>1, <2>5, UnboundedIsLarge DEF Strings
  <2>7. FitsLeaf(any, x)
    BY <2>3, <2>6 DEF FitsLeaf
  <2>8. Fits6(any, x)
    BY <2>3, <2>7, LeafFits DEF Leaves
  <2>. QED
    BY <1>4, <2>8 DEF any, forms, x
<1>9. Rule(d.rule, o)
  <2>1. /\ "content_base64" \in DOMAIN o /\ "selected_protocol" \in DOMAIN o
    BY <1>1, <1>7 DEF Closed
  <2>2. /\ o.content_base64 = Str("base64", o.byte_length.int, o.digest.no, "plain")
        /\ o.minimum_reader.int <= protocol.int /\ o.selected_protocol = protocol
    BY <2>1 DEF CoherentData
  <2>3. /\ o.content_base64.form = "base64" /\ o.content_base64.len = o.byte_length.int
        /\ o.content_base64.no = o.digest.no
    BY <2>2 DEF Str
  <2>4. ContentMatches(o)
    BY <2>2, <2>3 DEF ContentMatches
  <2>. QED
    BY <1>1, <2>4 DEF Rule, DecoderRule
<1> HIDE DEF S
<1>10. Fits7(d, v)
  BY <1>1, <1>5, <1>6, <1>8, <1>9, TakenBut7
<1>. QED
  BY <1>10 DEF d

LEMMA ChangeTaken ==
  ASSUME NEW e, Fits5(WorkspaceSyncChangeItem, e), Plain5(e), WellShaped(e.object)
  PROVE  Fits5(syncChangeItem, e)
<1> DEFINE s == WorkspaceSyncChangeItem  o == e.object
           words == Enum({"revision", "upsert", "delete"}, "upsert")
<1>1. /\ s.k = "object" /\ "operation" \in DOMAIN s.req /\ s.req["operation"] = words
      /\ syncChangeItem.rule = "syncChangeItem"
  BY DEF WorkspaceSyncChangeItem, syncChangeItem, Object
<1> HIDE DEF s
<1>2. Fits4(words, o.operation)
  <2>1. Fits5(s, e)
    BY DEF s
  <2>. QED
    BY <1>1, <2>1, ObjectFits DEF FitsObject
<1>3. o.operation \in {Word("revision"), Word("upsert"), Word("delete")}
  <2>1. words.k = "const" /\ words.vals = {Word("revision"), Word("upsert"), Word("delete")}
    BY DEF Enum, Exactly
  <2> HIDE DEF words
  <2>. QED
    BY <1>2, <2>1, LeafRead
<1>4. Word("revision") # Word("delete") /\ Word("revision") # Word("upsert")
      /\ Word("delete") # Word("upsert")
  BY DEF Word
<1>5. OperationShape(o)
  <2>1. /\ (o.path = Null) <=> (o.operation = Word("revision"))
        /\ (o.entry = Null) <=> (o.operation # Word("upsert"))
    BY DEF WellShaped
  <2>. QED
    BY <1>3, <1>4, <2>1 DEF OperationShape
<1>6. Rule(syncChangeItem.rule, o)
  BY <1>1, <1>5 DEF Rule, DecoderRule
<1>. QED
  BY <1>6, ChangeItemConforms DEF TakesIf5, s

\* A list the contract allows holds what its elements do, and is taken if they are.
LEMMA ListRead ==
  ASSUME NEW s, s.k = "list", NEW x, Fits6(s, x)
  PROVE  IsList(x) /\ \A e \in Elements(x) : Fits5(s.of, e)
BY ListFits DEF FitsList

LEMMA ListRefit ==
  ASSUME NEW d, NEW s, d.k = "list", s.k = "list", d.lo = s.lo, d.hi = s.hi, ~d.unique,
         NEW x, Fits6(s, x), \A e \in Elements(x) : Fits5(d.of, e)
  PROVE  Fits6(d, x)
<1>1. FitsList(Fits5, s, x)
  BY ListFits
<1>2. FitsList(Fits5, d, x)
  BY <1>1 DEF FitsList
<1>. QED
  BY <1>2, ListFits

\* A page whose generations are all in order has its neighbours in order.
LEMMA ChangesTaken ==
  ASSUME NEW v, Fits7(WorkspaceSyncChangePage, v), Plain7(v),
         NEW protocol, CoherentData(v.object, protocol)
  PROVE  Fits7(syncChangePage, v)
<1> DEFINE d == syncChangePage  s == WorkspaceSyncChangePage  o == v.object
           W(f) == Paired(d.req[f], s.req[f])
           S == {"items"}  x == o["items"]
           taken == ListOf(syncChangeItem, 0, 1000)
           allowed == ListOf(WorkspaceSyncChangeItem, 0, 1000)
<1> USE DEF syncChangePage, WorkspaceSyncChangePage, Object, None
<1>1. /\ Closed(d, s) /\ d.rule = "syncChangePage" /\ s.rule = "none"
      /\ DOMAIN d.req = {"selected_protocol", "next_cursor", "items"}
      /\ DOMAIN d.opt = {}
  BY DEF Closed
<1>2. W("selected_protocol")
  BY PlainReaders, AlikePaired
<1>3. W("next_cursor")
  BY NullableReaders, TextReaders
<1>4. d.req["items"] = taken /\ s.req["items"] = allowed
  OBVIOUS
<1>5. Fits7(s, v)
  OBVIOUS
<1> HIDE DEF d, s, syncChangePage, WorkspaceSyncChangePage, Object, None
<1>6. /\ \A f \in DOMAIN d.req \ S : Takes6(d.req[f], s.req[f])
      /\ \A f \in DOMAIN d.opt : Takes6(d.opt[f], s.opt[f])
  BY <1>1, <1>2, <1>3, LeafTakes
<1>7. Fits6(allowed, x) /\ "items" \in DOMAIN o
  <2>1. \A f \in DOMAIN s.req : f \in DOMAIN o /\ Fits6(s.req[f], o[f])
    BY <1>1, <1>5, AllowedRead DEF Closed
  <2>2. "items" \in DOMAIN s.req
    BY <1>1 DEF Closed
  <2> HIDE DEF allowed, taken
  <2>. QED
    BY <1>4, <2>1, <2>2
<1>8. Ordered(x) /\ \A e \in Elements(x) : WellShaped(e.object)
  BY <1>7 DEF CoherentData
<1>9. Fits6(taken, x)
  <2>1. /\ taken.k = "list" /\ taken.of = syncChangeItem /\ taken.lo = 0 /\ taken.hi = 1000
        /\ ~taken.unique
        /\ allowed.k = "list" /\ allowed.of = WorkspaceSyncChangeItem /\ allowed.lo = 0
        /\ allowed.hi = 1000
    BY DEF ListOf
  <2> HIDE DEF taken, allowed, x
  <2>2. Plain6(x)
    <3>1. IsObject(v)
      BY <1>1, <1>5, AllowedRead DEF Closed
    <3>. QED
      BY <1>7, <3>1, PlainMembers DEF x
  <2>3. IsList(x) /\ \A e \in Elements(x) : Fits5(WorkspaceSyncChangeItem, e)
    BY <1>7, <2>1, ListRead
  <2>4. \A e \in Elements(x) : Plain5(e)
    BY <2>2, <2>3, PlainElements
  <2>5. \A e \in Elements(x) : Fits5(syncChangeItem, e)
    BY <1>8, <2>3, <2>4, ChangeTaken
  <2>. QED
    BY <1>7, <2>1, <2>5, ListRefit
<1>10. Rule(d.rule, o)
  <2>1. IsList(x)
    <3>1. allowed.k = "list"
      BY DEF ListOf
    <3> HIDE DEF allowed, x
    <3>. QED
      BY <1>7, <3>1, ListRead
  <2>2. ASSUME Is("items", x), NEW i \in 2..Len(x.items)
        PROVE  x.items[i].object.generation.int >= x.items[i - 1].object.generation.int
    <3>1. x.items \in Seq(Elements(x))
      BY <2>1, <2>2 DEF IsList, Is
    <3>2. Len(x.items) \in Nat /\ DOMAIN x.items = 1..Len(x.items)
      BY <3>1, LenProperties
    <3>3. i \in DOMAIN x.items /\ i - 1 \in DOMAIN x.items /\ i - 1 < i
      BY <2>2, <3>2
    <3> HIDE DEF x
    <3>4. x.items[i - 1].object.generation.int <= x.items[i].object.generation.int
      BY <1>8, <2>2, <3>3 DEF Ordered
    <3>. QED
      BY <3>4
  <2>3. OrderedGenerations(x)
    BY <2>2 DEF OrderedGenerations
  <2>. QED
    BY <1>1, <2>3 DEF Rule, DecoderRule
<1>11. \A f \in S : Fits6(d.req[f], o[f])
  BY <1>4, <1>9
<1> HIDE DEF S
<1>12. Fits7(d, v)
  BY <1>1, <1>5, <1>6, <1>10, <1>11, TakenBut7
<1>. QED
  BY <1>12 DEF d

LEMMA EnvelopeTaken ==
  ASSUME NEW data, NEW schema, NEW v, Fits(Envelope(schema), v), Plain(v),
         Fits7(schema, v.object.data) /\ Plain7(v.object.data) => Fits7(data, v.object.data),
         CoherentData(v.object.data.object, v.object.selected_protocol),
         "capabilities" \in DOMAIN v.object.data.object =>
           v.object.data.object.capabilities = v.object.capabilities
  PROVE  Fits(decodeWorkspaceSyncEnvelope(data), v)
<1> DEFINE d == decodeWorkspaceSyncEnvelope(data)  s == Envelope(schema)  o == v.object
           W(f) == Paired(d.req[f], s.req[f])
           S == {"data"}
<1> USE DEF decodeWorkspaceSyncEnvelope, Envelope, Object, None
<1>1. /\ Closed(d, s) /\ d.rule = "decodeWorkspaceSyncEnvelope" /\ s.rule = "none"
      /\ DOMAIN d.req = {"request_id", "selected_protocol", "capabilities", "data"}
      /\ DOMAIN d.opt = {}
  BY DEF Closed
<1>2. W("request_id") /\ W("selected_protocol")
  BY NamedReaders, PlainReaders, AlikePaired
<1>3. Takes7(d.req["capabilities"], s.req["capabilities"])
  BY CapabilitiesAgree DEF Agrees7
<1>4. d.req["data"] = data /\ s.req["data"] = schema
  OBVIOUS
<1>5. Fits(s, v)
  OBVIOUS
<1> HIDE DEF d, s
<1>6. /\ \A f \in DOMAIN d.req \ S : Takes7(d.req[f], s.req[f])
      /\ \A f \in DOMAIN d.opt : Takes7(d.opt[f], s.opt[f])
  BY <1>1, <1>2, <1>3, LeafTakes
<1>7. IsObject(v) /\ "data" \in DOMAIN o /\ Fits7(schema, o["data"])
  BY <1>1, <1>4, <1>5, AllowedRead DEF Closed
<1>8. Plain7(o["data"])
  BY <1>7, PlainMembers
<1>9. \A f \in S : Fits7(d.req[f], o[f])
  BY <1>4, <1>7, <1>8
<1>10. NestedAgrees(o)
  BY DEF NestedAgrees, CoherentData
<1>11. Rule(d.rule, o)
  BY <1>1, <1>10 DEF Rule, DecoderRule
<1> HIDE DEF S
<1>12. Fits(d, v)
  BY <1>1, <1>5, <1>6, <1>9, <1>11, TakenBut8
<1>. QED
  BY <1>12 DEF d

(* Nothing plain is marked.                                                *)
LEMMA PlainUnmarked ==
  ASSUME NEW v, Plain(v)
  PROVE  ~Marked(v)
<1>0. \A x : IsMarked(x) => Unusual(x)
  BY DEF IsMarked, Unusual
<1>1. \A x : Holds1(IsMarked, x) => Holds1(Unusual, x)
  BY <1>0 DEF Holds1
<1>2. \A x : Holds2(IsMarked, x) => Holds2(Unusual, x)
  BY <1>0, <1>1 DEF Holds2
<1>3. \A x : Holds3(IsMarked, x) => Holds3(Unusual, x)
  BY <1>0, <1>2 DEF Holds3
<1>4. \A x : Holds4(IsMarked, x) => Holds4(Unusual, x)
  BY <1>0, <1>3 DEF Holds4
<1>5. \A x : Holds5(IsMarked, x) => Holds5(Unusual, x)
  BY <1>0, <1>4 DEF Holds5
<1>6. \A x : Holds6(IsMarked, x) => Holds6(Unusual, x)
  BY <1>0, <1>5 DEF Holds6
<1>7. \A x : Holds7(IsMarked, x) => Holds7(Unusual, x)
  BY <1>0, <1>6 DEF Holds7
<1>8. Holds(IsMarked, v) => Holds(Unusual, v)
  BY <1>0, <1>7 DEF Holds
<1>. QED
  BY <1>8 DEF Plain, Marked

LEMMA FlatAnswersTaken ==
  /\ Takes(decodeAcknowledgement, Ok)
  /\ Takes(decodeExec, ExecResult)
  /\ Takes(decodeOpen, OpenResult)
  /\ Takes(decodeSession, SessionSchema)
  /\ Takes(decodeMachineCreateRequest, MachineCreateRequest)
<1>1. Takes(decodeAcknowledgement, Ok)
  BY AcknowledgementFlat, FlatAgrees DEF Ok, decodeAcknowledgement, Object, Agrees
<1>2. Takes(decodeExec, ExecResult)
  BY ExecFlat, FlatAgrees DEF ExecResult, decodeExec, Object, Agrees
<1>3. Takes(decodeOpen, OpenResult)
  BY OpenFlat, FlatAgrees DEF OpenResult, decodeOpen, Object, Agrees
<1>4. Takes(decodeSession, SessionSchema)
  BY SessionFlat, FlatAgrees DEF SessionSchema, decodeSession, Object, Agrees
<1>5. Takes(decodeMachineCreateRequest, MachineCreateRequest)
  BY MachineCreateFlat, FlatAgrees
     DEF MachineCreateRequest, decodeMachineCreateRequest, Object, Agrees
<1>. QED
  BY <1>1, <1>2, <1>3, <1>4, <1>5

LEMMA ListsTaken ==
  Takes(decodeSessions, SessionList) /\ Takes(decodeRecords, RecordList)
<1>1. Agrees7(decodeSession, SessionSchema)
  BY SessionFlat, FlatAgrees DEF SessionSchema, decodeSession, Object
<1>2. Agrees7(decodeRecord, RecordSchema)
  BY RecordFlat, FlatAgrees DEF RecordSchema, decodeRecord, Object
<1>. QED
  BY <1>1, <1>2, ListOfAgrees
     DEF decodeSessions, SessionList, decodeRecords, RecordList, Agrees

LEMMA ReceiptsTaken ==
  /\ Takes7(syncSession, WorkspaceSyncSession)
  /\ Takes7(syncManifestReceipt, WorkspaceSyncManifestReceipt)
  /\ Takes7(syncChunkReceipt, WorkspaceSyncChunkReceipt)
  /\ Takes7(syncCommitReceipt, WorkspaceSyncCommitReceipt)
  /\ Takes7(syncReconcileReceipt, WorkspaceSyncReconcileReceipt)
<1>1. Takes7(syncChunkReceipt, WorkspaceSyncChunkReceipt)
  BY ChunkReceiptFlat, FlatAgrees
     DEF WorkspaceSyncChunkReceipt, syncChunkReceipt, Object, Agrees7
<1>2. Takes7(syncCommitReceipt, WorkspaceSyncCommitReceipt)
  BY CommitReceiptFlat, FlatAgrees
     DEF WorkspaceSyncCommitReceipt, syncCommitReceipt, Object, Agrees7
<1>3. Takes7(syncReconcileReceipt, WorkspaceSyncReconcileReceipt)
  BY ReconcileReceiptFlat, FlatAgrees
     DEF WorkspaceSyncReconcileReceipt, syncReconcileReceipt, Object, Agrees7
<1>. QED
  BY <1>1, <1>2, <1>3, SyncSessionAgrees, ManifestReceiptAgrees DEF Agrees7

\* What an envelope is held to: its receipt speaks of it.
SpeaksOfIt(o) ==
  /\ CoherentData(o.data.object, o.selected_protocol)
  /\ "capabilities" \in DOMAIN o.data.object => o.data.object.capabilities = o.capabilities

LEMMA SyncAnswerTaken ==
  ASSUME op \in OperationNames, IsSync(op),
         NEW v, Fits(Schema[op], v), Plain(v), SpeaksOfIt(v.object)
  PROVE  Fits(Decoder[op], v)
<1>1. CASE op = "workspaces.sync.begin"
  <2>1. /\ Decoder[op] = decodeWorkspaceSyncEnvelope(syncSession)
        /\ Schema[op] = Envelope(WorkspaceSyncSession)
    BY <1>1 DEF Decoder, Schema, WorkspaceSyncSessionEnvelope
  <2>. QED
    BY <2>1, ReceiptsTaken, EnvelopeTaken DEF Takes7, SpeaksOfIt
<1>2. CASE op = "workspaces.sync.negotiate"
  <2>1. /\ Decoder[op] = decodeWorkspaceSyncEnvelope(syncManifestReceipt)
        /\ Schema[op] = Envelope(WorkspaceSyncManifestReceipt)
    BY <1>2 DEF Decoder, Schema, WorkspaceSyncManifestEnvelope
  <2>. QED
    BY <2>1, ReceiptsTaken, EnvelopeTaken DEF Takes7, SpeaksOfIt
<1>3. CASE op = "workspaces.sync.chunk"
  <2>1. /\ Decoder[op] = decodeWorkspaceSyncEnvelope(syncChunkReceipt)
        /\ Schema[op] = Envelope(WorkspaceSyncChunkReceipt)
    BY <1>3 DEF Decoder, Schema, WorkspaceSyncChunkEnvelope
  <2>. QED
    BY <2>1, ReceiptsTaken, EnvelopeTaken DEF Takes7, SpeaksOfIt
<1>4. CASE op = "workspaces.sync.chunkDownload"
  <2>1. /\ Decoder[op] = decodeWorkspaceSyncEnvelope(syncChunkContent)
        /\ Schema[op] = Envelope(WorkspaceSyncChunkContent)
    BY <1>4 DEF Decoder, Schema, WorkspaceSyncChunkContentEnvelope
  <2>. QED
    BY <2>1, ContentTaken, EnvelopeTaken DEF SpeaksOfIt
<1>5. CASE op = "workspaces.sync.commit"
  <2>1. /\ Decoder[op] = decodeWorkspaceSyncEnvelope(syncCommitReceipt)
        /\ Schema[op] = Envelope(WorkspaceSyncCommitReceipt)
    BY <1>5 DEF Decoder, Schema, WorkspaceSyncCommitEnvelope
  <2>. QED
    BY <2>1, ReceiptsTaken, EnvelopeTaken DEF Takes7, SpeaksOfIt
<1>6. CASE op = "workspaces.sync.changes"
  <2>1. /\ Decoder[op] = decodeWorkspaceSyncEnvelope(syncChangePage)
        /\ Schema[op] = Envelope(WorkspaceSyncChangePage)
    BY <1>6 DEF Decoder, Schema, WorkspaceSyncChangeEnvelope
  <2>. QED
    BY <2>1, ChangesTaken, EnvelopeTaken DEF SpeaksOfIt
<1>7. CASE op = "workspaces.sync.reconcile"
  <2>1. /\ Decoder[op] = decodeWorkspaceSyncEnvelope(syncReconcileReceipt)
        /\ Schema[op] = Envelope(WorkspaceSyncReconcileReceipt)
    BY <1>7 DEF Decoder, Schema, WorkspaceSyncReconcileEnvelope
  <2>. QED
    BY <2>1, ReceiptsTaken, EnvelopeTaken DEF Takes7, SpeaksOfIt
<1>. QED
  BY <1>1, <1>2, <1>3, <1>4, <1>5, <1>6, <1>7 DEF IsSync

\* What a coherent answer of a ruled operation is held to.
LEMMA CoherentMeans ==
  ASSUME NEW o, Coherent(o)
  PROVE  /\ op = "agentSessions.agentAuth" => LeaseHolds(o)
         /\ op = "capabilities.get" => o.observed_at.no < o.expires_at.no
         /\ op \in {"workspaceBindings.create", "workspaceBindings.get"} =>
              o.remote_root = Str("root", 0, o.project_id.no, "plain")
         /\ op = "agentSessions.createTerminalConnection" =>
              o.connect_url.no = o.terminal_session_id.no
         /\ IsSync(op) => SpeaksOfIt(o)
BY DEF Coherent, LeaseHolds, SpeaksOfIt

LEMMA AnswerTaken ==
  ASSUME op \in Called, NEW v, Fits(Schema[op], v), Plain(v),
         Is("object", v) => Coherent(v.object)
  PROVE  Fits(Decoder[op], v)
<1>0. op \in OperationNames
  BY DEF Called
<1>a. ASSUME NEW s, s.k = "object", Schema[op] = s PROVE Coherent(v.object)
  BY <1>a, AllowedRead DEF IsObject, Is
<1>1. CASE op = "agentSessions.agentAuth"
  <2>1. Decoder[op] = decodeAgentSessionAuth /\ Schema[op] = AgentSessionAuth
    BY <1>0, <1>1 DEF Decoder, Schema
  <2>2. Coherent(v.object)
    BY <1>a, <2>1 DEF AgentSessionAuth, Object
  <2>. QED
    BY <1>1, <2>1, <2>2, AuthTaken, CoherentMeans
<1>2. CASE op \in {"agentSessions.create", "agentSessions.get", "agentSessions.rename",
                   "agentSessions.terminate"}
  <2>1. Decoder[op] = decodeAgentSession /\ Schema[op] = AgentSession
    BY <1>0, <1>2 DEF Decoder, Schema
  <2>. QED
    BY <2>1, AgentSessionAgrees DEF Agrees, Takes
<1>3. CASE op = "agentSessions.list"
  <2>1. Decoder[op] = decodeAgentSessionPage /\ Schema[op] = AgentSessionPage
    BY <1>0, <1>3 DEF Decoder, Schema
  <2>. QED
    BY <2>1, AgentSessionPageAgrees DEF Agrees, Takes
<1>4. CASE op = "agentSessions.createTerminalConnection"
  <2>1. /\ Decoder[op] = decodeTerminalConnectionGrant
        /\ Schema[op] = TerminalConnectionGrant
    BY <1>0, <1>4 DEF Decoder, Schema
  <2>2. Coherent(v.object)
    BY <1>a, <2>1 DEF TerminalConnectionGrant, Object
  <2>. QED
    BY <1>4, <2>1, <2>2, GrantTaken, CoherentMeans
<1>5. CASE op = "capabilities.get"
  <2>1. Decoder[op] = decodeCapabilitySnapshot /\ Schema[op] = CapabilitySnapshot
    BY <1>0, <1>5 DEF Decoder, Schema
  <2>2. Coherent(v.object)
    BY <1>a, <2>1 DEF CapabilitySnapshot, Object
  <2>. QED
    BY <1>5, <2>1, <2>2, SnapshotTaken, CoherentMeans
<1>6. CASE op = "me.get"
  <2>1. Decoder[op] = decodeMe /\ Schema[op] = Me
    BY <1>0, <1>6 DEF Decoder, Schema
  <2>. QED
    BY <2>1, MeAgrees DEF Agrees, Takes
<1>7. CASE op \in {"records.list", "sessions.list"}
  <2>1. /\ op = "records.list" => Decoder[op] = decodeRecords /\ Schema[op] = RecordList
        /\ op = "sessions.list" => Decoder[op] = decodeSessions /\ Schema[op] = SessionList
    BY <1>0 DEF Decoder, Schema
  <2>. QED
    BY <1>7, <2>1, ListsTaken DEF Takes
<1>8. CASE op \in {"sessions.checkpoint", "sessions.delete"}
  <2>1. Decoder[op] = decodeAcknowledgement /\ Schema[op] = Ok
    BY <1>0, <1>8 DEF Decoder, Schema
  <2>. QED
    BY <2>1, FlatAnswersTaken DEF Takes
<1>9. CASE op \in {"sessions.exec", "sessions.open"}
  <2>1. /\ op = "sessions.exec" => Decoder[op] = decodeExec /\ Schema[op] = ExecResult
        /\ op = "sessions.open" => Decoder[op] = decodeOpen /\ Schema[op] = OpenResult
    BY <1>0 DEF Decoder, Schema
  <2>. QED
    BY <1>9, <2>1, FlatAnswersTaken DEF Takes
<1>10. CASE op \in {"sessions.create", "sessions.get", "sessions.pause", "sessions.resume",
                    "sessions.start", "sessions.stop"}
  <2>1. Decoder[op] = decodeSession /\ Schema[op] = SessionSchema
    BY <1>0, <1>10 DEF Decoder, Schema
  <2>. QED
    BY <2>1, FlatAnswersTaken DEF Takes
<1>11. CASE op \in {"workspaceBindings.create", "workspaceBindings.get"}
  <2>1. Decoder[op] = decodeWorkspaceBinding /\ Schema[op] = WorkspaceBindingSchema
    BY <1>0, <1>11 DEF Decoder, Schema
  <2>2. Coherent(v.object)
    BY <1>a, <2>1 DEF WorkspaceBindingSchema, Object
  <2>. QED
    BY <1>11, <2>1, <2>2, BindingTaken, CoherentMeans
<1>12. CASE op \in {"machineCreates.get", "machineCreates.reconcile"}
  <2>1. Decoder[op] = decodeMachineCreateRequest /\ Schema[op] = MachineCreateRequest
    BY <1>0, <1>12 DEF Decoder, Schema
  <2>. QED
    BY <2>1, FlatAnswersTaken DEF Takes
<1>13. CASE IsSync(op)
  <2>1. \E receipt : Schema[op] = Envelope(receipt)
    BY <1>0, <1>13
       DEF Schema, IsSync, WorkspaceSyncSessionEnvelope, WorkspaceSyncManifestEnvelope,
           WorkspaceSyncChunkEnvelope, WorkspaceSyncChunkContentEnvelope,
           WorkspaceSyncCommitEnvelope, WorkspaceSyncChangeEnvelope,
           WorkspaceSyncReconcileEnvelope
  <2>2. \A receipt : Envelope(receipt).k = "object"
    BY DEF Envelope, Object
  <2>3. SpeaksOfIt(v.object)
    BY <1>13, <1>a, <2>1, <2>2, CoherentMeans
  <2>. QED
    BY <1>0, <1>13, <2>3, SyncAnswerTaken
<1>. QED
  BY <1>0, <1>1, <1>2, <1>3, <1>4, <1>5, <1>6, <1>7, <1>8, <1>9, <1>10, <1>11, <1>12, <1>13
     DEF Called, OperationNames, AgentSessionOperations, AccountOperations, SessionOperations,
         WorkspaceOperations, IsSync

\* A problem of the contract, of the kind its operation has.
LEMMA ProblemFailureTaken ==
  ASSUME media = "problem+json", Plain(message),
         about = (IF IsSync(op) THEN "syncProblem" ELSE "problem"),
         Fits(ProblemContract(about), message), CoherentProblem(message.object)
  PROVE  ProblemFailure = "api_problem"
<1>1. ~Marked(message)
  BY PlainUnmarked
<1>2. CASE IsSync(op)
  <2>1. ProblemContract(about) = WorkspaceSyncProblemSchema /\ about = "syncProblem"
    BY <1>2 DEF ProblemContract
  <2>2. Fits(decodeWorkspaceSyncProblem, message)
    BY <2>1, SyncProblemTaken DEF CoherentProblem
  <2>. QED
    BY <1>1, <1>2, <2>2 DEF ProblemFailure
<1>3. CASE ~IsSync(op)
  <2>1. ProblemContract(about) = ProblemSchema
    BY <1>3 DEF ProblemContract
  <2>2. Fits(decodeProblem, message)
    BY <2>1, ProblemTaken DEF CoherentProblem
  <2>. QED
    BY <1>1, <1>3, <2>2 DEF ProblemFailure
<1>. QED
  BY <1>2, <1>3

\* Once an answer was received the caller has what disposition made of it.
Disposed ==
  /\ phase \in {"called", "sent"} => about = "arguments"
  /\ phase = "done" /\ about # "arguments" => verdict = Disposition

LEMMA DisposedInvariant == Spec => []Disposed
<1>1. Init => Disposed
  BY DEF Init, Disposed
<1>2. ASSUME Disposed, [Next]_vars PROVE Disposed'
  <2> USE <1>2 DEF Disposed
  <2>1. CASE Call
    <3>1. phase = "called" /\ about' = about
      BY <2>1 DEF Call
    <3>. QED
      BY <3>1
  <2>2. CASE Alter
    <3>1. phase \in {"called", "answered"} /\ phase' = phase /\ about' = about
      BY <2>2 DEF Alter
    <3>. QED
      BY <3>1
  <2>3. CASE AlterHeaders
    <3>1. phase = "answered" /\ phase' = phase
      BY <2>3 DEF AlterHeaders
    <3>. QED
      BY <3>1
  <2>4. CASE Answer
    <3>1. phase' = "answered"
      BY <2>4 DEF Answer
    <3>. QED
      BY <3>1
  <2>5. CASE Receive
    <3>1. verdict' = Disposition /\ phase' = "done" /\ UNCHANGED <<op, message, status, media,
                                                                  headers>>
      BY <2>5 DEF Receive
    <3>2. Disposition' = Disposition
      BY <3>1 DEF Disposition, ProblemFailure
    <3>. QED
      BY <3>1, <3>2
  <2>6. CASE UNCHANGED vars
    <3>1. UNCHANGED <<op, phase, about, message, status, media, headers, verdict>>
      BY <2>6 DEF vars
    <3>2. Disposition' = Disposition
      BY <3>1 DEF Disposition, ProblemFailure
    <3>. QED
      BY <3>1, <3>2
  <2>. QED
    BY <2>1, <2>2, <2>3, <2>4, <2>5, <2>6 DEF Next
<1>. QED
  BY <1>1, <1>2, PTL DEF Spec

(* No decoder is stricter than the contract: an answer that conforms to    *)
(* the schema of its operation, whatever its members are, and whose parts  *)
(* agree, reaches the program as a result, and a problem as a problem; but *)
(* for the integers above MAX_SAFE_INTEGER, the leap seconds, the URL that *)
(* is parsed away and the text sanitizeWire refuses, which Plain excludes. *)
THEOREM ConformingResultsTaken == Spec => []ConformingAccepted
<1>1. Decoded /\ Disposed => ConformingAccepted
  <2> SUFFICES ASSUME Decoded, Disposed, phase = "done", about # "arguments", Plain(message),
                      headers
               PROVE  /\ /\ status = "success" /\ media = "json" /\ Fits(Schema[op], message)
                         /\ Is("object", message) => Coherent(message.object)
                         => verdict = "result"
                      /\ /\ status = "error" /\ media = "problem+json"
                         /\ op \in PROBLEM_OPERATIONS
                         /\ about = (IF IsSync(op) THEN "syncProblem" ELSE "problem")
                         /\ Fits(ProblemContract(about), message)
                         /\ CoherentProblem(message.object)
                         => verdict = "api_problem"
    BY DEF ConformingAccepted
  <2>0. verdict = Disposition /\ op \in Called
    BY DEF Decoded, Disposed
  <2>1. ASSUME status = "success", media = "json", Fits(Schema[op], message),
               Is("object", message) => Coherent(message.object)
        PROVE  verdict = "result"
    <3>1. Fits(Decoder[op], message)
      BY <2>0, <2>1, AnswerTaken
    <3>2. ~Marked(message)
      BY PlainUnmarked
    <3>. QED
      BY <2>0, <2>1, <3>1, <3>2 DEF Disposition
  <2>2. ASSUME status = "error", media = "problem+json", op \in PROBLEM_OPERATIONS,
               about = (IF IsSync(op) THEN "syncProblem" ELSE "problem"),
               Fits(ProblemContract(about), message), CoherentProblem(message.object)
        PROVE  verdict = "api_problem"
    <3>1. ProblemFailure = "api_problem"
      BY <2>2, ProblemFailureTaken
    <3>. QED
      BY <2>0, <2>2, <3>1 DEF Disposition
  <2>. QED
    BY <2>1, <2>2
<1>. QED
  BY <1>1, DecodedInvariant, DisposedInvariant, PTL

----------------------------------------------------------------------------
(* The cursors the program may pass back. *)

\* What a cursor of the sessions' page is, listAgentSessions accepts.
LEMMA PageCursorReplays ==
  ASSUME NEW v, Fits(decodeAgentSessionPage, v), Given(v, "next_cursor")
  PROVE  Fits(listAgentSessions, Obj([cursor |-> v.object.next_cursor]))
<1> DEFINE d == decodeAgentSessionPage  s == listAgentSessions  one == Sized(1, 512)
           c == v.object.next_cursor  o == [cursor |-> c]
<1>1. d.k = "object" /\ "next_cursor" \in DOMAIN d.opt /\ d.opt["next_cursor"] = one
  BY DEF decodeAgentSessionPage, Object, boundedString
<1>2. one.k = "text" /\ one.k \in Leaves
  BY DEF Sized, Leaves
<1>3. Fits7(one, c)
  <2> HIDE DEF d, one
  <2>1. Fits(d, v)
    BY DEF d
  <2>. QED
    BY <1>1, <2>1, ObjectFits DEF FitsObject, Given
<1>4. FitsLeaf(one, c)
  <2> HIDE DEF one, c
  <2>. QED
    BY <1>2, <1>3, LeafFits
<1>5. /\ s.k = "object" /\ s.rule = "none" /\ ~s.open /\ DOMAIN s.req = {}
      /\ DOMAIN s.opt = {"limit", "cursor"} /\ s.opt["cursor"] = Maybe(one)
  BY DEF listAgentSessions, Object, None
<1>6. Fits7(Maybe(one), c)
  <2> DEFINE m == Maybe(one)
  <2>1. m.k = "either" /\ m.one = one /\ m.other.k \in Leaves
    BY DEF Maybe, Either, Exactly, Leaves
  <2> HIDE DEF m, one, c
  <2>2. Fits7(m, c)
    BY <1>2, <1>4, <2>1, EitherFits
  <2>. QED
    BY <2>2 DEF m
<1>7. DOMAIN o = {"cursor"} /\ o["cursor"] = c
  OBVIOUS
<1>8. IsObject(Obj(o)) /\ Obj(o).object = o
  BY DEF IsObject, Obj
<1> HIDE DEF s, c, o, one
<1>9. FitsObject(Fits7, s, Obj(o))
  BY <1>5, <1>6, <1>7, <1>8 DEF FitsObject, Exact, Rule
<1>10. Fits(s, Obj(o))
  BY <1>5, <1>9, ObjectFits
<1>. QED
  BY <1>10 DEF s, o, c

\* So is that of the changes' page, unless it is empty or astral: of an astral
\* character the decoder counts one, and the method's argument two units.
LEMMA ChangeCursorReplays ==
  ASSUME NEW v, Fits7(syncChangePage, v)
  PROVE  LET cursor == v.object.next_cursor
         IN \/ cursor = Null
            \/ Is("form", cursor) /\ (cursor.len = 0 \/ cursor.form = "astral")
            \/ Fits(changes, Obj([readerVersion |-> Num(1), cursor |-> cursor]))
<1> DEFINE d == syncChangePage  s == changes  one == Sized(0, 1024)  taken == Units(1, 1024)
           c == v.object.next_cursor  o == [readerVersion |-> Num(1), cursor |-> c]
<1>1. /\ d.k = "object" /\ "next_cursor" \in DOMAIN d.req
      /\ d.req["next_cursor"] = Nullable(one)
  BY DEF syncChangePage, Object, boundedString
<1>2. one.k = "text" /\ one.k \in Leaves /\ one.lo = 0 /\ one.hi = 1024
  BY DEF Sized, Leaves
<1>3. /\ taken.k = "units" /\ taken.k \in Leaves /\ taken.lo = 1 /\ taken.hi = 1024
  BY DEF Units, Leaves
<1>4. Fits6(Nullable(one), c)
  <2> HIDE DEF d, one
  <2>1. Fits7(d, v)
    BY DEF d
  <2>. QED
    BY <1>1, <2>1, ObjectFits DEF FitsObject
<1>5. FitsLeaf(one, c) \/ c = Null
  <2> DEFINE m == Nullable(one)
  <2>1. m.k = "either" /\ m.one = one /\ m.other.k \in Leaves
    BY DEF Nullable, Either, Exactly, Leaves
  <2>2. FitsLeaf(m.other, c) => c = Null
    BY DEF Nullable, Either, Exactly, FitsLeaf
  <2>3. Fits6(m, c)
    BY <1>4 DEF m
  <2> HIDE DEF m, one, c
  <2>. QED
    BY <1>2, <2>1, <2>2, <2>3, EitherFits
<1>6. SUFFICES ASSUME c # Null, ~(Is("form", c) /\ (c.len = 0 \/ c.form = "astral"))
               PROVE  Fits(s, Obj(o))
  OBVIOUS
<1>7. FitsLeaf(taken, c)
  <2> HIDE DEF one, taken, c
  <2>1. IsWord(c) \/ (IsText(c) /\ c.len \in 0..1024)
    BY <1>2, <1>5, <1>6 DEF FitsLeaf
  <2>2. CASE IsWord(c)
    BY <1>3, <2>2 DEF FitsLeaf
  <2>3. CASE IsText(c) /\ c.len \in 0..1024
    <3>1. c.len \in 1..1024 /\ c.form # "astral"
      BY <1>6, <2>3 DEF IsText
    <3>. QED
      BY <1>3, <2>3, <3>1 DEF FitsLeaf
  <2>. QED
    BY <2>1, <2>2, <2>3
<1>8. /\ s.k = "object" /\ s.rule = "none" /\ ~s.open /\ DOMAIN s.req = {"readerVersion"}
      /\ DOMAIN s.opt = {"limit", "cursor"} /\ s.opt["cursor"] = Maybe(taken)
      /\ s.req["readerVersion"] = Safe(1)
  BY DEF changes, Object
<1>9. Fits7(Maybe(taken), c)
  <2> DEFINE m == Maybe(taken)
  <2>1. m.k = "either" /\ m.one = taken /\ m.other.k \in Leaves
    BY DEF Maybe, Either, Exactly, Leaves
  <2> HIDE DEF m, taken, c
  <2>2. Fits7(m, c)
    BY <1>3, <1>7, <2>1, EitherFits
  <2>. QED
    BY <2>2 DEF m
<1>10. Fits7(Safe(1), Num(1))
  <2> DEFINE n == Safe(1)
  <2>1. n.k = "int" /\ n.k \in Leaves /\ n.lo = 1 /\ n.hi = Unbounded
    BY DEF Safe, SafeWhole, Leaves
  <2>2. Num(1) \in [int : n.lo..n.hi]
    BY <2>1, UnboundedIsLarge DEF Num
  <2> HIDE DEF n
  <2>3. Fits7(n, Num(1))
    BY <2>1, <2>2, LeafFits DEF FitsLeaf
  <2>. QED
    BY <2>3 DEF n
<1>11. DOMAIN o = {"readerVersion", "cursor"} /\ o["cursor"] = c /\ o["readerVersion"] = Num(1)
  OBVIOUS
<1>12. IsObject(Obj(o)) /\ Obj(o).object = o
  BY DEF IsObject, Obj
<1> HIDE DEF s, c, o, taken
<1>13. FitsObject(Fits7, s, Obj(o))
  BY <1>8, <1>9, <1>10, <1>11, <1>12 DEF FitsObject, Exact, Rule
<1>14. Fits(s, Obj(o))
  BY <1>8, <1>13, ObjectFits
<1>. QED
  BY <1>14 DEF s, o, c

(* A cursor that is handed on, of a page of sessions or of changes, is one *)
(* the method takes back in the next call, whatever the service puts into  *)
(* it: no paging stops at a cursor the SDK itself refuses, but for the     *)
(* empty and the astral ones of workspace changes.                         *)
THEOREM CursorsAreTaken == Spec => []CursorsReplay
<1>1. Decoded => CursorsReplay
  <2> SUFFICES ASSUME Decoded, verdict = "result" PROVE CursorsReplay
    BY DEF CursorsReplay
  <2>1. op \in OperationNames /\ Fits(Decoder[op], message)
    BY DEF Decoded, Called
  <2>2. ASSUME op = "agentSessions.list", Given(message, "next_cursor")
        PROVE  Fits(Validator[op], Obj([cursor |-> message.object.next_cursor]))
    <3>1. Decoder[op] = decodeAgentSessionPage /\ Validator[op] = listAgentSessions
      BY <2>1, <2>2 DEF Decoder, Validator, WithArguments
    <3>. QED
      BY <2>1, <2>2, <3>1, PageCursorReplays
  <2>3. ASSUME op = "workspaces.sync.changes"
        PROVE  LET cursor == message.object.data.object.next_cursor
               IN \/ cursor = Null
                  \/ Is("form", cursor) /\ (cursor.len = 0 \/ cursor.form = "astral")
                  \/ Fits(Validator[op], Obj([readerVersion |-> Num(1), cursor |-> cursor]))
    <3>1. /\ Decoder[op] = decodeWorkspaceSyncEnvelope(syncChangePage)
          /\ Validator[op] = changes
      BY <2>1, <2>3 DEF Decoder, Validator, WithArguments
    <3>2. Fits7(syncChangePage, message.object.data)
      BY <2>1, <3>1, EnvelopeRead
    <3>. QED
      BY <3>1, <3>2, ChangeCursorReplays
  <2>. QED
    BY <2>2, <2>3 DEF CursorsReplay
<1>. QED
  BY <1>1, DecodedInvariant, PTL

----------------------------------------------------------------------------
(* Requests: what a kind of the arguments and one of the contract share. *)

(* What fits d, and is not left undefined, fits s as it is.                *)
Sends3(d, s) == \A v : Fits3(d, v) /\ v # Undefined => Fits3(s, v)
Sends5(d, s) == \A v : Fits5(d, v) /\ v # Undefined => Fits5(s, v)
Sends7(d, s) == \A v : Fits7(d, v) /\ v # Undefined => Fits7(s, v)

(* Counted in UTF-16 units there are at least as many as in characters.    *)
Counted(d, s) ==
  /\ d.k = "units" /\ s.k = "text"
  /\ d.lo = s.lo /\ d.hi = s.hi /\ d.lo \in {0, 1} /\ d.hi \in Nat

(* The leaf d of the arguments is within the leaf s of the contract.       *)
Held(d, s) == SameValues(d, s) \/ SameRange(d, s) \/ Counted(d, s)

LEMMA UnitsAreMore ==
  ASSUME NEW d, NEW s, Counted(d, s), NEW v, FitsLeaf(d, v)
  PROVE  FitsLeaf(s, v)
<1>1. CASE IsWord(v)
  BY <1>1 DEF Counted, FitsLeaf
<1>2. CASE ~IsWord(v)
  <2>1. /\ IsText(v) /\ v.len \in Nat
        /\ v.len \in d.lo..d.hi \/ 2 * v.len \in d.lo..d.hi
    BY <1>2 DEF Counted, FitsLeaf
  <2>2. v.len \in d.lo..d.hi
    BY <2>1 DEF Counted
  <2>. QED
    BY <2>1, <2>2 DEF Counted, FitsLeaf
<1>. QED
  BY <1>1, <1>2

LEMMA HeldFits ==
  ASSUME NEW d, NEW s, Held(d, s), NEW v, FitsLeaf(d, v)
  PROVE  FitsLeaf(s, v)
<1>1. CASE SameValues(d, s)
  BY <1>1 DEF SameValues, FitsLeaf
<1>2. CASE SameRange(d, s)
  BY <1>2 DEF SameRange, FitsLeaf
<1>. QED
  BY <1>1, <1>2, UnitsAreMore DEF Held

LEMMA HeldLeaves ==
  ASSUME NEW d, NEW s, Held(d, s)
  PROVE  d.k \in Leaves /\ s.k \in Leaves
BY DEF Held, SameValues, SameRange, Counted, Leaves

LEMMA HeldSends ==
  ASSUME NEW d, NEW s, d = s \/ Held(d, s)
  PROVE  Sends3(d, s) /\ Sends5(d, s) /\ Sends7(d, s)
<1>1. CASE d = s
  BY <1>1 DEF Sends3, Sends5, Sends7
<1>2. CASE Held(d, s)
  BY <1>2, HeldFits, HeldLeaves, LeafFits DEF Sends3, Sends5, Sends7
<1>. QED
  BY <1>1, <1>2

\* What is there of an argument that may be left out.
LEMMA MaybeRead ==
  ASSUME NEW d, NEW v, v # Undefined, Fits7(Maybe(d), v)
  PROVE  Fits7(d, v)
<1> DEFINE m == Maybe(d)
<1>1. m.k = "either" /\ m.one = d /\ m.other = Exactly({Undefined}, Undefined)
  BY DEF Maybe, Either
<1>2. Fits7(m, v)
  OBVIOUS
<1> HIDE DEF m
<1>3. ~FitsLeaf(m, v)
  BY <1>1 DEF FitsLeaf
<1>4. ~FitsAs(Fits6, m.other, v)
  BY <1>1 DEF FitsAs, FitsLeaf, Exactly
<1>5. FitsAs(Fits6, m.one, v)
  BY <1>1, <1>2, <1>3, <1>4 DEF Fits7, FitsBy, FitsAs
<1>. QED
  BY <1>1, <1>5 DEF Fits7, FitsBy

LEMMA MaybeSends ==
  ASSUME NEW d, NEW s, d = s \/ Held(d, s)
  PROVE  Sends7(Maybe(d), s)
<1>1. Sends7(d, s)
  BY HeldSends
<1>. QED
  BY <1>1, MaybeRead DEF Sends7

LEMMA NullableSends ==
  ASSUME NEW d, NEW s, Held(d, s)
  PROVE  Sends5(Nullable(d), Nullable(s))
<1> DEFINE m == Nullable(d)  n == Nullable(s)  null == Exactly({Null}, Null)
<1>1. /\ m.k = "either" /\ m.one = d /\ m.other = null
      /\ n.k = "either" /\ n.one = s /\ n.other = null /\ null.k \in Leaves
  BY DEF Nullable, Either, Exactly, Leaves
<1> HIDE DEF m, n, null
<1>2. \A v : Fits5(m, v) => Fits5(n, v)
  BY <1>1, HeldLeaves, HeldFits, EitherFits
<1>. QED
  BY <1>2 DEF Sends5, m, n

(* A kind that does not allow an argument to be left undefined.            *)
Definite(d) ==
  \/ d.k \in {"int", "text", "units", "pattern", "list", "object"}
  \/ d.k = "const" /\ Undefined \notin d.vals
  \/ /\ d.k = "either" /\ d.one.k \in {"int", "text", "units", "pattern", "list", "object"}
     /\ d.other.k \in {"int", "text", "units", "pattern", "list", "object"}
        \/ (d.other.k = "const" /\ Undefined \notin d.other.vals)

LEMMA UndefinedIsNoLeaf ==
  ASSUME NEW d, d.k \in {"int", "text", "units", "pattern"}
                \/ (d.k = "const" /\ Undefined \notin d.vals)
  PROVE  ~FitsLeaf(d, Undefined)
<1>1. DOMAIN Undefined = {"undefined"}
  BY DEF Undefined
<1>2. ~IsWord(Undefined) /\ ~IsText(Undefined) /\ Undefined # Wide
  BY <1>1 DEF IsWord, IsText, Is, Wide
<1>3. Undefined \notin [int : d.lo..d.hi]
  BY <1>1
<1>4. Undefined \notin Strings(d.forms, d.lo, d.hi, d.brands)
  BY <1>1 DEF Strings
<1>. QED
  BY <1>2, <1>3, <1>4 DEF FitsLeaf

LEMMA UndefinedIsNothing == ~IsList(Undefined) /\ ~IsObject(Undefined)
BY DEF IsList, IsObject, Undefined

LEMMA UndefinedDoesNotFit ==
  ASSUME NEW d, Definite(d)
  PROVE  ~Fits3(d, Undefined) /\ ~Fits5(d, Undefined) /\ ~Fits7(d, Undefined)
<1>1. ASSUME NEW k, k.k \in {"int", "text", "units", "pattern", "list", "object"}
                    \/ (k.k = "const" /\ Undefined \notin k.vals)
      PROVE  /\ ~FitsAs(Fits2, k, Undefined) /\ ~FitsAs(Fits4, k, Undefined)
             /\ ~FitsAs(Fits6, k, Undefined)
  <2>1. CASE k.k \in {"list", "object"}
    <3>1. ~FitsLeaf(k, Undefined)
      BY <2>1 DEF FitsLeaf
    <3>. QED
      BY <2>1, <3>1, UndefinedIsNothing DEF FitsAs, FitsList, FitsObject
  <2>2. CASE k.k \notin {"list", "object"}
    BY <1>1, <2>2, UndefinedIsNoLeaf DEF FitsAs
  <2>. QED
    BY <2>1, <2>2
<1>2. CASE d.k # "either"
  <2>1. d.k \in {"int", "text", "units", "pattern", "list", "object"}
        \/ (d.k = "const" /\ Undefined \notin d.vals)
    BY <1>2 DEF Definite
  <2>. QED
    BY <1>1, <1>2, <2>1 DEF Fits3, Fits5, Fits7, FitsBy
<1>3. CASE d.k = "either"
  <2>1. ~FitsLeaf(d, Undefined)
    BY <1>3 DEF FitsLeaf
  <2>2. /\ ~FitsAs(Fits2, d, Undefined) /\ ~FitsAs(Fits4, d, Undefined)
        /\ ~FitsAs(Fits6, d, Undefined)
    BY <1>3, <2>1 DEF FitsAs
  <2>. QED
    BY <1>1, <1>3, <2>2 DEF Definite, Fits3, Fits5, Fits7, FitsBy
<1>. QED
  BY <1>2, <1>3

----------------------------------------------------------------------------
(* Requests: what is sent of an object. *)

KeyName == "idempotencyKey"

(* The members that are sent keep their values.                            *)
LEMMA SentMembers ==
  ASSUME NEW o, \A f, g \in DOMAIN o \ {KeyName} : Renamed(f) = Renamed(g) => f = g
  PROVE  /\ DOMAIN Sent(o)
              = {Renamed(f) : f \in {f \in DOMAIN o \ {KeyName} : o[f] # Undefined}}
         /\ \A f \in DOMAIN o \ {KeyName} : o[f] # Undefined => Sent(o)[Renamed(f)] = o[f]
<1> DEFINE kept == {f \in DOMAIN o : o[f] # Undefined /\ f # KeyName}
           names == {Renamed(f) : f \in kept}
<1>1. Sent(o) = [g \in names |-> o[CHOOSE f \in kept : Renamed(f) = g]]
  BY DEF Sent, KeyName
<1>2. ASSUME NEW f \in kept PROVE Sent(o)[Renamed(f)] = o[f]
  <2> DEFINE h == CHOOSE h \in kept : Renamed(h) = Renamed(f)
  <2>1. h \in kept /\ Renamed(h) = Renamed(f)
    OBVIOUS
  <2>2. h = f
    BY <2>1
  <2>3. Renamed(f) \in names
    OBVIOUS
  <2> HIDE DEF names, kept
  <2>. QED
    BY <1>1, <2>2, <2>3
<1>. QED
  BY <1>1, <1>2

(* An object of d has, once it is sent, the members of s.                  *)
Carried(d, s) ==
  /\ d.k = "object" /\ s.k = "object" /\ ~d.open /\ s.rule = "none"
  /\ \A f, g \in (DOMAIN d.req \cup DOMAIN d.opt) \ {KeyName} : Renamed(f) = Renamed(g) => f = g
  /\ DOMAIN s.req = {Renamed(f) : f \in DOMAIN d.req \ {KeyName}}
  /\ {Renamed(f) : f \in DOMAIN d.opt \ {KeyName}} \subseteq DOMAIN s.opt
  /\ DOMAIN s.req \cap DOMAIN s.opt = {}
  /\ \A f \in DOMAIN d.req \ {KeyName} : Definite(d.req[f])

(* So has a body b with the members of what is sent of v.                  *)
LEMMA CarriedMembers ==
  ASSUME NEW d, NEW s, Carried(d, s), NEW o, Exact(d, o),
         \A f \in DOMAIN d.req \ {KeyName} : o[f] # Undefined
  PROVE  /\ Exact(s, Sent(o))
         /\ \A g \in DOMAIN s.req :
              \E f \in DOMAIN d.req \ {KeyName} : g = Renamed(f) /\ Sent(o)[g] = o[f]
         /\ \A g \in DOMAIN s.opt \cap DOMAIN Sent(o) :
              \E f \in (DOMAIN d.opt \cap DOMAIN o) \ {KeyName} :
                g = Renamed(f) /\ o[f] # Undefined /\ Sent(o)[g] = o[f]
<1>1. DOMAIN d.req \subseteq DOMAIN o /\ DOMAIN o \subseteq DOMAIN d.req \cup DOMAIN d.opt
  BY DEF Carried, Exact
<1>2. \A f, g \in DOMAIN o \ {KeyName} : Renamed(f) = Renamed(g) => f = g
  BY <1>1 DEF Carried
<1>3. /\ DOMAIN Sent(o)
           = {Renamed(f) : f \in {f \in DOMAIN o \ {KeyName} : o[f] # Undefined}}
      /\ \A f \in DOMAIN o \ {KeyName} : o[f] # Undefined => Sent(o)[Renamed(f)] = o[f]
  BY <1>2, SentMembers
<1>4. DOMAIN s.req \subseteq DOMAIN Sent(o)
  BY <1>1, <1>3 DEF Carried
<1>5. DOMAIN Sent(o) \subseteq DOMAIN s.req \cup DOMAIN s.opt
  BY <1>1, <1>3 DEF Carried
<1>6. ASSUME NEW g \in DOMAIN s.req
      PROVE  \E f \in DOMAIN d.req \ {KeyName} : g = Renamed(f) /\ Sent(o)[g] = o[f]
  BY <1>1, <1>3 DEF Carried
<1>7. ASSUME NEW g \in DOMAIN s.opt \cap DOMAIN Sent(o)
      PROVE  \E f \in (DOMAIN d.opt \cap DOMAIN o) \ {KeyName} :
                g = Renamed(f) /\ o[f] # Undefined /\ Sent(o)[g] = o[f]
  <2>1. PICK f \in DOMAIN o \ {KeyName} : o[f] # Undefined /\ g = Renamed(f)
    BY <1>3
  <2>2. f \notin DOMAIN d.req
    BY <2>1 DEF Carried
  <2>. QED
    BY <1>1, <1>3, <2>1, <2>2
<1>. QED
  BY <1>4, <1>5, <1>6, <1>7 DEF Exact

(* The members that may be sent, and those of s, at each depth.            *)
Carries8(d, s) ==
  /\ Carried(d, s)
  /\ \A f \in DOMAIN d.req \ {KeyName} : Sends7(d.req[f], s.req[Renamed(f)])
  /\ \A f \in DOMAIN d.opt \ {KeyName} : Sends7(d.opt[f], s.opt[Renamed(f)])

LEMMA Sent8 ==
  ASSUME NEW d, NEW s, Carries8(d, s), NEW v, Fits(d, v)
  PROVE  Fits(s, Obj(Sent(v.object)))
<1> DEFINE o == v.object  b == Sent(o)
<1>1. FitsObject(Fits7, d, v)
  BY ObjectFits DEF Carries8, Carried
<1>2. /\ Exact(d, o)
      /\ \A f \in DOMAIN d.req : Fits7(d.req[f], o[f])
      /\ \A f \in DOMAIN d.opt \cap DOMAIN o : Fits7(d.opt[f], o[f])
  BY <1>1 DEF FitsObject
<1>3. \A f \in DOMAIN d.req \ {KeyName} : o[f] # Undefined
  BY <1>2, UndefinedDoesNotFit DEF Carries8, Carried
<1> HIDE DEF o
<1>4. /\ Exact(s, b)
      /\ \A g \in DOMAIN s.req :
           \E f \in DOMAIN d.req \ {KeyName} : g = Renamed(f) /\ b[g] = o[f]
      /\ \A g \in DOMAIN s.opt \cap DOMAIN b :
           \E f \in (DOMAIN d.opt \cap DOMAIN o) \ {KeyName} :
             g = Renamed(f) /\ o[f] # Undefined /\ b[g] = o[f]
  BY <1>2, <1>3, CarriedMembers DEF Carries8
<1> HIDE DEF b
<1>5. \A g \in DOMAIN s.req : Fits7(s.req[g], b[g])
  BY <1>2, <1>3, <1>4 DEF Carries8, Sends7
<1>6. \A g \in DOMAIN s.opt \cap DOMAIN b : Fits7(s.opt[g], b[g])
  BY <1>2, <1>4 DEF Carries8, Sends7
<1>7. IsObject(Obj(b)) /\ Obj(b).object = b
  BY DEF IsObject, Obj
<1>8. FitsObject(Fits7, s, Obj(b))
  BY <1>4, <1>5, <1>6, <1>7, NoRule DEF FitsObject, Carries8, Carried
<1>. QED
  BY <1>8, ObjectFits DEF Carries8, Carried, b, o

----------------------------------------------------------------------------
(* Requests: lists, names and readers of the managers. *)

LEMMA EachElementFits ==
  ASSUME NEW v, IsList(v), NEW t, NEW w,
         Is("many", v) => w = [v EXCEPT !.many = t[v.many]],
         ~Is("many", v) => w = Arr([i \in DOMAIN v.items |-> t[v.items[i]]])
  PROVE  IsList(w) /\ Length(w) = Length(v) /\ Elements(w) = {t[e] : e \in Elements(v)}
<1>1. CASE Is("many", v)
  <2>1. DOMAIN v = {"many", "len", "distinct"}
    BY <1>1 DEF IsList, Is
  <2>2. DOMAIN w = {"many", "len", "distinct"} /\ w.many = t[v.many] /\ w.len = v.len
    BY <1>1, <2>1
  <2>. QED
    BY <2>1, <2>2 DEF IsList, Length, Elements, Is
<1>2. CASE ~Is("many", v)
  <2> DEFINE u == [i \in DOMAIN v.items |-> t[v.items[i]]]
  <2>1. DOMAIN v = {"items"} /\ v.items \in Seq(Elements(v))
    BY <1>2 DEF IsList, Is
  <2>2. Len(u) = Len(v.items) /\ u \in Seq({u[i] : i \in DOMAIN u})
    BY <2>1, MappedSequence
  <2>3. DOMAIN w = {"items"} /\ w.items = u
    BY <1>2 DEF Arr
  <2>4. DOMAIN u = DOMAIN v.items /\ \A i \in DOMAIN v.items : u[i] = t[v.items[i]]
    OBVIOUS
  <2> HIDE DEF u
  <2>5. Elements(w) = {u[i] : i \in DOMAIN u} /\ Elements(v) = {v.items[i] : i \in DOMAIN v.items}
    BY <2>1, <2>3 DEF Elements, Is
  <2>. QED
    BY <2>1, <2>2, <2>3, <2>4, <2>5 DEF IsList, Length, Is
<1>. QED
  BY <1>1, <1>2

LEMMA RenamedNames ==
  /\ Renamed("memoryMiB") = "memory_mib" /\ Renamed("allowedHosts") = "allowed_hosts"
  /\ Renamed("outboundPolicy") = "outbound_policy" /\ Renamed("runtimePort") = "runtime_port"
  /\ Renamed("timeoutSecs") = "timeout_secs"
  /\ Renamed("workspaceBindingId") = "workspace_binding_id"
  /\ Renamed("workspaceGeneration") = "workspace_generation"
  /\ Renamed("authMode") = "auth_mode"
  /\ Renamed("credentialBindingId") = "credential_binding_id"
  /\ Renamed("clientInstanceId") = "client_instance_id"
  /\ Renamed("resumeHandle") = "resume_handle" /\ Renamed("workspaceId") = "workspace_id"
  /\ Renamed("projectId") = "project_id" /\ Renamed("localInstanceId") = "local_instance_id"
  /\ Renamed("machineId") = "machine_id"
  /\ Renamed("exclusionPolicyDigest") = "exclusion_policy_digest"
  /\ Renamed("excludedPrefixes") = "excluded_prefixes"
  /\ Renamed("baseGeneration") = "base_generation"
  /\ Renamed("minimumReader") = "minimum_reader" /\ Renamed("minimumWriter") = "minimum_writer"
  /\ Renamed("byteLength") = "byte_length" /\ Renamed("linkTarget") = "link_target"
  /\ Renamed("pageIndex") = "page_index" /\ Renamed("isLast") = "is_last"
  /\ Renamed("expectedGeneration") = "expected_generation"
  /\ Renamed("manifestRoot") = "manifest_root"
  /\ Renamed("observedGeneration") = "observed_generation"
  /\ \A f \in {"name", "agent", "vcpus", "cwd", "protocol", "path", "kind", "executable",
               "chunks", "digest", "entries"} : Renamed(f) = f
BY DEF Renamed, Snake

LEMMA NameSent == /\ Carries8(checkpoint, CheckpointRequest)
                  /\ Carries8(rename, AgentSessionRename)
<1> DEFINE d == Object([name |-> Sized(1, 80)], None, "none")
<1>1. /\ d.k = "object" /\ ~d.open /\ d.rule = "none" /\ DOMAIN d.req = {"name"}
      /\ DOMAIN d.opt = {} /\ d.req["name"] = Sized(1, 80)
  BY DEF Object, None
<1>2. Definite(Sized(1, 80))
  BY DEF Definite, Sized
<1>3. Sends7(d.req["name"], d.req["name"])
  BY HeldSends
<1>4. checkpoint = d /\ CheckpointRequest = d /\ rename = d /\ AgentSessionRename = d
  BY DEF checkpoint, CheckpointRequest, rename, AgentSessionRename, Name80
<1>5. Renamed("name") = "name"
  BY RenamedNames
<1> HIDE DEF d
<1>6. Carries8(d, d)
  BY <1>1, <1>2, <1>3, <1>5 DEF Carries8, Carried, KeyName
<1>. QED
  BY <1>4, <1>6

\* The readers of the managers and the kinds of the contract.
LEMMA ArgumentReaders ==
  /\ \A lo, hi, x, y : Held(SafeWhole(lo, hi, x), Whole(lo, hi, y))
  /\ \A ws, x, y : Held(Enum(ws, x), Enum(ws, y))
  /\ \A n : Id(n) = Uuid(n) /\ Digest(n) = Sha256(n)
<1>1. \A lo, hi, x, y : SameRange(SafeWhole(lo, hi, x), Whole(lo, hi, y))
  BY DEF SameRange, SafeWhole, Whole
<1>2. \A ws, x, y : SameValues(Enum(ws, x), Enum(ws, y))
  BY DEF SameValues, Enum, Exactly, Bare, Is, Word
<1>. QED
  BY <1>1, <1>2 DEF Held, Id, Uuid, Digest, Sha256

LEMMA DefiniteReaders ==
  /\ \A lo, hi, x : Definite(SafeWhole(lo, hi, x)) /\ Definite(Whole(lo, hi, x))
  /\ \A lo, hi : Definite(Sized(lo, hi)) /\ Definite(Units(lo, hi))
                 /\ Definite(Nullable(Units(lo, hi)))
  /\ \A n : Definite(Id(n)) /\ Definite(Digest(n))
  /\ \A forms, lo, hi, x : Definite(Matching(forms, lo, hi, x))
  /\ \A ws, x : Definite(Enum(ws, x))
  /\ \A of, lo, hi : Definite(ListOf(of, lo, hi)) /\ Definite(SetOf(of, lo, hi))
  /\ Definite(Boolean)
<1>1. /\ \A lo, hi, x : Definite(SafeWhole(lo, hi, x)) /\ Definite(Whole(lo, hi, x))
      /\ \A lo, hi : Definite(Sized(lo, hi)) /\ Definite(Units(lo, hi))
  BY DEF Definite, SafeWhole, Whole, Sized, Units
<1>2. \A forms, lo, hi, x : Definite(Matching(forms, lo, hi, x))
  BY DEF Definite, Matching, Branded
<1>3. \A of, lo, hi : Definite(ListOf(of, lo, hi)) /\ Definite(SetOf(of, lo, hi))
  BY DEF Definite, ListOf, SetOf, SetLike
<1>4. \A ws, x : Definite(Enum(ws, x))
  BY DEF Definite, Enum, Exactly, Undefined, Word
<1>5. Definite(Boolean)
  BY DEF Definite, Boolean, Exactly, Undefined, Bool
<1>6. \A lo, hi : Definite(Nullable(Units(lo, hi)))
  BY DEF Definite, Nullable, Either, Exactly, Undefined, Null, Units
<1>. QED
  BY <1>1, <1>2, <1>3, <1>4, <1>5, <1>6 DEF Id, Digest

LEMMA AgentSessionSent == Carries8(validateCreate, AgentSessionCreate)
<1> DEFINE d == validateCreate  s == AgentSessionCreate
           W(f) == Definite(d.req[f]) /\ Sends7(d.req[f], s.req[Renamed(f)])
           O(f) == Sends7(d.opt[f], s.opt[Renamed(f)])
<1> USE DEF validateCreate, AgentSessionCreate, Object, None, KeyName
<1>1. /\ d.k = "object" /\ s.k = "object" /\ ~d.open /\ s.rule = "none"
      /\ DOMAIN d.req = {"idempotencyKey", "agent", "cwd", "workspaceBindingId",
                         "workspaceGeneration"}
      /\ DOMAIN d.opt = {"name", "authMode", "credentialBindingId"}
      /\ DOMAIN s.req = {"agent", "cwd", "workspace_binding_id", "workspace_generation"}
      /\ DOMAIN s.opt = {"name", "auth_mode", "credential_binding_id"}
  OBVIOUS
<1>2. W("agent") /\ W("cwd")
  BY RenamedNames, HeldSends, DefiniteReaders DEF Agent, Cwd
<1>3. W("workspaceBindingId") /\ W("workspaceGeneration")
  BY RenamedNames, HeldSends, ArgumentReaders, DefiniteReaders DEF Safe, AtLeast
<1>4. O("name") /\ O("authMode") /\ O("credentialBindingId")
  BY RenamedNames, MaybeSends, ArgumentReaders DEF Name80, AuthMode
<1> HIDE DEF validateCreate, AgentSessionCreate, Object, None
<1>5. Carried(d, s)
  BY <1>1, <1>2, <1>3, RenamedNames DEF Carried
<1>. QED
  BY <1>1, <1>2, <1>3, <1>4, <1>5 DEF Carries8

----------------------------------------------------------------------------
(* Requests: the bodies of sessions, bindings and synchronisation, member by member. *)

LEMMA PolicyTaken == createBody.opt["outboundPolicy"] = Maybe(OutboundPolicy)
<1>1. \A req, opt, rule : Object(req, opt, rule).opt = opt
  BY DEF Object
<1>. QED
  BY <1>1 DEF createBody, OutboundPolicy

LEMMA CreateSent == Carries8(createBody, SdkCreateSession)
<1> DEFINE d == createBody  s == SdkCreateSession
           W(f) == Definite(d.req[f]) /\ Sends7(d.req[f], s.req[Renamed(f)])
           O(f) == Sends7(d.opt[f], s.opt[Renamed(f)])
<1> USE DEF createBody, SdkCreateSession, Object, KeyName
<1>1. /\ d.k = "object" /\ s.k = "object" /\ ~d.open /\ s.rule = "none"
      /\ DOMAIN d.req = {"name"} /\ DOMAIN s.req = {"name"}
      /\ DOMAIN d.opt = {"idempotencyKey", "agent", "vcpus", "memoryMiB", "allowedHosts",
                         "outboundPolicy", "runtimePort"}
      /\ DOMAIN s.opt = {"agent", "vcpus", "memory_mib", "allowed_hosts", "outbound_policy",
                         "background", "runtime_port"}
  OBVIOUS
<1>2. W("name") /\ O("agent")
  BY RenamedNames, HeldSends, DefiniteReaders DEF Name80, Agent
<1>3. O("vcpus") /\ O("memoryMiB") /\ O("runtimePort") /\ O("allowedHosts")
  BY RenamedNames, MaybeSends DEF Between
<1>4. O("outboundPolicy")
  <2>1. d.opt["outboundPolicy"] = Maybe(OutboundPolicy)
    BY PolicyTaken
  <2>2. s.opt["outbound_policy"] = OutboundPolicy
    OBVIOUS
  <2> HIDE DEF d, s
  <2>. QED
    BY <2>1, <2>2, RenamedNames, MaybeSends
<1> HIDE DEF createBody, SdkCreateSession, Object
<1>5. Carried(d, s)
  BY <1>1, <1>2, RenamedNames DEF Carried
<1>. QED
  BY <1>1, <1>2, <1>3, <1>4, <1>5 DEF Carries8

LEMMA CommitSent == Carries8(commitBody, WorkspaceSyncCommit)
<1> DEFINE d == commitBody  s == WorkspaceSyncCommit
           W(f) == Definite(d.req[f]) /\ Sends7(d.req[f], s.req[Renamed(f)])
<1> USE DEF commitBody, WorkspaceSyncCommit, Object, None, KeyName
<1>1. /\ d.k = "object" /\ s.k = "object" /\ ~d.open /\ s.rule = "none"
      /\ DOMAIN d.req = {"expectedGeneration", "exclusionPolicyDigest", "manifestRoot",
                         "minimumReader", "minimumWriter"}
      /\ DOMAIN s.req = {"expected_generation", "exclusion_policy_digest", "manifest_root",
                         "minimum_reader", "minimum_writer"}
      /\ DOMAIN d.opt = {} /\ DOMAIN s.opt = {}
  OBVIOUS
<1>2. W("exclusionPolicyDigest") /\ W("manifestRoot")
  BY RenamedNames, HeldSends, ArgumentReaders, DefiniteReaders
<1>3. W("expectedGeneration") /\ W("minimumReader") /\ W("minimumWriter")
  BY RenamedNames, HeldSends, ArgumentReaders, DefiniteReaders DEF Safe, AtLeast
<1> HIDE DEF commitBody, WorkspaceSyncCommit, Object, None
<1>4. Carried(d, s)
  BY <1>1, <1>2, <1>3, RenamedNames DEF Carried
<1>. QED
  BY <1>1, <1>2, <1>3, <1>4 DEF Carries8

\* The range of protocols is sent as it is.
LEMMA RangeSent ==
  Sends7(protocolRange, WorkspaceSyncProtocolRange) /\ Definite(protocolRange)
<1> DEFINE d == protocolRange  s == WorkspaceSyncProtocolRange
<1>1. /\ d.k = "object" /\ s.k = "object" /\ ~d.open /\ ~s.open /\ s.rule = "none"
      /\ DOMAIN d.req = {"minimum", "maximum"} /\ DOMAIN s.req = DOMAIN d.req
      /\ DOMAIN d.opt = {} /\ DOMAIN s.opt = {}
  BY DEF protocolRange, WorkspaceSyncProtocolRange, Object, None
<1>2. \A f \in DOMAIN d.req : Held(d.req[f], s.req[f])
  BY ArgumentReaders DEF protocolRange, WorkspaceSyncProtocolRange, Object, Safe, AtLeast
<1> HIDE DEF d, s
<1>3. ASSUME NEW v, Fits7(d, v) PROVE Fits7(s, v)
  <2>1. FitsObject(Fits6, d, v)
    BY <1>1, <1>3, ObjectFits
  <2>2. \A f \in DOMAIN d.req : Fits6(s.req[f], v.object[f])
    BY <1>2, <2>1, HeldFits, HeldLeaves, LeafFits DEF FitsObject
  <2>3. FitsObject(Fits6, s, v)
    BY <1>1, <2>1, <2>2, NoRule DEF FitsObject, Exact
  <2>. QED
    BY <1>1, <2>3, ObjectFits
<1>4. Definite(d)
  BY <1>1 DEF Definite
<1>. QED
  BY <1>3, <1>4 DEF Sends7, d, s

LEMMA BeginSent == Carries8(beginBody, WorkspaceSyncBegin)
<1> DEFINE d == beginBody  s == WorkspaceSyncBegin
           W(f) == Definite(d.req[f]) /\ Sends7(d.req[f], s.req[Renamed(f)])
<1> USE DEF beginBody, WorkspaceSyncBegin, Object, None, KeyName
<1>1. /\ d.k = "object" /\ s.k = "object" /\ ~d.open /\ s.rule = "none"
      /\ DOMAIN d.req = {"workspaceBindingId", "machineId", "baseGeneration",
                         "exclusionPolicyDigest", "protocol", "minimumReader",
                         "minimumWriter"}
      /\ DOMAIN s.req = {"workspace_binding_id", "machine_id", "base_generation",
                         "exclusion_policy_digest", "protocol", "minimum_reader",
                         "minimum_writer"}
      /\ DOMAIN d.opt = {} /\ DOMAIN s.opt = {}
  OBVIOUS
<1>2. W("workspaceBindingId") /\ W("machineId") /\ W("exclusionPolicyDigest")
  BY RenamedNames, HeldSends, ArgumentReaders, DefiniteReaders
<1>3. W("baseGeneration") /\ W("minimumReader") /\ W("minimumWriter")
  BY RenamedNames, HeldSends, ArgumentReaders, DefiniteReaders DEF Safe, AtLeast
<1>4. W("protocol")
  <2>1. d.req["protocol"] = protocolRange /\ s.req["protocol"] = WorkspaceSyncProtocolRange
    OBVIOUS
  <2> HIDE DEF d, s
  <2>. QED
    BY <2>1, RenamedNames, RangeSent
<1> HIDE DEF beginBody, WorkspaceSyncBegin, Object, None
<1>5. Carried(d, s)
  BY <1>1, <1>2, <1>3, <1>4, RenamedNames DEF Carried
<1>. QED
  BY <1>1, <1>2, <1>3, <1>4, <1>5 DEF Carries8

LEMMA ReconcileSent == Carries8(reconcileBody, WorkspaceSyncReconcile)
<1> DEFINE d == reconcileBody  s == WorkspaceSyncReconcile
           W(f) == Definite(d.req[f]) /\ Sends7(d.req[f], s.req[Renamed(f)])
<1> USE DEF reconcileBody, WorkspaceSyncReconcile, Object, None, KeyName
<1>1. /\ d.k = "object" /\ s.k = "object" /\ ~d.open /\ s.rule = "none"
      /\ DOMAIN d.req = {"workspaceBindingId", "machineId", "observedGeneration",
                         "exclusionPolicyDigest", "manifestRoot", "protocol"}
      /\ DOMAIN s.req = {"workspace_binding_id", "machine_id", "observed_generation",
                         "exclusion_policy_digest", "manifest_root", "protocol"}
      /\ DOMAIN d.opt = {} /\ DOMAIN s.opt = {}
  OBVIOUS
<1>2. /\ W("workspaceBindingId") /\ W("machineId") /\ W("exclusionPolicyDigest")
      /\ W("manifestRoot")
  BY RenamedNames, HeldSends, ArgumentReaders, DefiniteReaders
<1>3. W("observedGeneration")
  BY RenamedNames, HeldSends, ArgumentReaders, DefiniteReaders DEF Safe, AtLeast
<1>4. W("protocol")
  <2>1. d.req["protocol"] = protocolRange /\ s.req["protocol"] = WorkspaceSyncProtocolRange
    OBVIOUS
  <2> HIDE DEF d, s
  <2>. QED
    BY <2>1, RenamedNames, RangeSent
<1> HIDE DEF reconcileBody, WorkspaceSyncReconcile, Object, None
<1>5. Carried(d, s)
  BY <1>1, <1>2, <1>3, <1>4, RenamedNames DEF Carried
<1>. QED
  BY <1>1, <1>2, <1>3, <1>4, <1>5 DEF Carries8

\* A prefix is as long as its pattern says.
LEMMA PrefixesSent ==
  ASSUME NEW forms, NEW lo, NEW hi, NEW x, NEW least, NEW most
  PROVE  Sends7(SetOf(Matching(forms, lo, hi, x), least, most),
                SetOf(Sized(lo, hi), least, most))
<1> DEFINE one == Matching(forms, lo, hi, x)  other == Sized(lo, hi)
           d == SetOf(one, least, most)  s == SetOf(other, least, most)
<1>1. /\ d.k = "list" /\ s.k = "list" /\ d.of = one /\ s.of = other
      /\ d.lo = s.lo /\ d.hi = s.hi /\ d.unique = s.unique
  BY DEF SetOf, SetLike
<1>2. /\ one.k = "pattern" /\ one.k \in Leaves /\ other.k = "text" /\ other.k \in Leaves
      /\ one.lo = lo /\ one.hi = hi /\ other.lo = lo /\ other.hi = hi
  BY DEF Matching, Branded, Sized, Leaves
<1> HIDE DEF one, other, d, s
<1>3. \A e : Fits6(one, e) => Fits6(other, e)
  <2> SUFFICES ASSUME NEW e, FitsLeaf(one, e) PROVE FitsLeaf(other, e)
    BY <1>2, LeafFits
  <2>1. e \in Strings(one.forms, lo, hi, one.brands)
    BY <1>2 DEF FitsLeaf
  <2>2. IsText(e) /\ e.len \in lo..hi
    BY <2>1, StringMinted
  <2>. QED
    BY <1>2, <2>2 DEF FitsLeaf
<1>4. ASSUME NEW v, Fits7(d, v) PROVE Fits7(s, v)
  <2>1. FitsList(Fits6, d, v)
    BY <1>1, <1>4, ListFits
  <2>2. FitsList(Fits6, s, v)
    BY <1>1, <1>3, <2>1 DEF FitsList
  <2>. QED
    BY <1>1, <2>2, ListFits
<1>. QED
  BY <1>4 DEF Sends7, d, s, one, other

LEMMA BindingSent == Carries8(createBinding, WorkspaceBindingCreate)
<1> DEFINE d == createBinding  s == WorkspaceBindingCreate
           W(f) == Definite(d.req[f]) /\ Sends7(d.req[f], s.req[Renamed(f)])
<1> USE DEF createBinding, WorkspaceBindingCreate, Object, None, KeyName
<1>1. /\ d.k = "object" /\ s.k = "object" /\ ~d.open /\ s.rule = "none"
      /\ DOMAIN d.req = {"workspaceId", "projectId", "localInstanceId", "machineId",
                         "exclusionPolicyDigest", "excludedPrefixes"}
      /\ DOMAIN s.req = {"workspace_id", "project_id", "local_instance_id", "machine_id",
                         "exclusion_policy_digest", "excluded_prefixes"}
      /\ DOMAIN d.opt = {} /\ DOMAIN s.opt = {}
  OBVIOUS
<1>2. /\ W("workspaceId") /\ W("projectId") /\ W("localInstanceId") /\ W("machineId")
      /\ W("exclusionPolicyDigest")
  BY RenamedNames, HeldSends, ArgumentReaders, DefiniteReaders
<1>3. W("excludedPrefixes")
  BY RenamedNames, PrefixesSent, DefiniteReaders
<1> HIDE DEF createBinding, WorkspaceBindingCreate, Object, None
<1>4. Carried(d, s)
  BY <1>1, <1>2, <1>3, RenamedNames DEF Carried
<1>. QED
  BY <1>1, <1>2, <1>3, <1>4 DEF Carries8

\* A chunk of an entry, as it is sent.
LEMMA ChunkSent ==
  LET chunk == Object([digest |-> Digest(1), byteLength |-> SafeWhole(0, 8388608, 0)],
                      None, "none")
  IN \A v : Fits4(chunk, v) => Fits4(WorkspaceSyncChunkRef, SentChunk(v))
<1> DEFINE most == 8388608
           d == Object([digest |-> Digest(1), byteLength |-> SafeWhole(0, most, 0)],
                       None, "none")
           s == WorkspaceSyncChunkRef
           W(f) == Definite(d.req[f]) /\ Sends3(d.req[f], s.req[Renamed(f)])
<1>1. s = Object([digest |-> Sha256(1), byte_length |-> Between(0, most)], None, "none")
  BY DEF WorkspaceSyncChunkRef
<1> HIDE DEF most
<1>2. /\ d.k = "object" /\ s.k = "object" /\ ~d.open /\ s.rule = "none"
      /\ DOMAIN d.req = {"digest", "byteLength"} /\ DOMAIN s.req = {"digest", "byte_length"}
      /\ DOMAIN d.opt = {} /\ DOMAIN s.opt = {}
  BY <1>1 DEF Object, None
<1>3. W("digest") /\ W("byteLength")
  BY <1>1, RenamedNames, HeldSends, ArgumentReaders, DefiniteReaders DEF Object, Between
<1> HIDE DEF d, s
<1>4. Carried(d, s)
  BY <1>2, <1>3, RenamedNames DEF Carried, KeyName
<1>5. ASSUME NEW v, Fits4(d, v) PROVE Fits4(s, SentChunk(v))
  <2> DEFINE o == v.object  b == Sent(o)
  <2>1. FitsObject(Fits3, d, v)
    BY <1>2, <1>5, ObjectFits
  <2>2. Exact(d, o) /\ \A f \in DOMAIN d.req : Fits3(d.req[f], o[f])
    BY <2>1 DEF FitsObject
  <2>3. \A f \in DOMAIN d.req \ {KeyName} : o[f] # Undefined
    BY <1>4, <2>2, UndefinedDoesNotFit DEF Carried
  <2> HIDE DEF o
  <2>4. /\ Exact(s, b)
        /\ \A g \in DOMAIN s.req :
             \E f \in DOMAIN d.req \ {KeyName} : g = Renamed(f) /\ b[g] = o[f]
    BY <1>4, <2>2, <2>3, CarriedMembers
  <2> HIDE DEF b
  <2>5. \A f \in DOMAIN d.req \ {KeyName} : Sends3(d.req[f], s.req[Renamed(f)])
    BY <1>2, <1>3
  <2>6. \A g \in DOMAIN s.req : Fits3(s.req[g], b[g])
    BY <2>2, <2>3, <2>4, <2>5 DEF Sends3
  <2>7. IsObject(Obj(b)) /\ Obj(b).object = b
    BY DEF IsObject, Obj
  <2>8. FitsObject(Fits3, s, Obj(b))
    BY <1>2, <2>4, <2>6, <2>7, NoRule DEF FitsObject
  <2>9. Fits4(s, Obj(b))
    BY <1>2, <2>8, ObjectFits
  <2>. QED
    BY <2>9 DEF SentChunk, b, o
<1>. QED
  BY <1>5 DEF d, s, most

\* The chunks of an entry, as they are sent.
LEMMA ChunksSent ==
  ASSUME NEW v, Fits5(manifestEntry.req["chunks"], v)
  PROVE  Fits5(WorkspaceSyncManifestEntry.req["chunks"], EachElement(v, SentChunk))
<1> DEFINE one == Object([digest |-> Digest(1), byteLength |-> SafeWhole(0, 8388608, 0)],
                         None, "none")
           d == ListOf(one, 0, 4096)  s == ListOf(WorkspaceSyncChunkRef, 0, 4096)
           w == EachElement(v, SentChunk)
           t == [e \in Elements(v) |-> SentChunk(e)]
<1>1. manifestEntry.req["chunks"] = d /\ WorkspaceSyncManifestEntry.req["chunks"] = s
  BY DEF manifestEntry, WorkspaceSyncManifestEntry, Object
<1>2. \A e : Fits4(one, e) => Fits4(WorkspaceSyncChunkRef, SentChunk(e))
  BY ChunkSent
<1> HIDE DEF one
<1>3. /\ d.k = "list" /\ s.k = "list" /\ d.of = one /\ s.of = WorkspaceSyncChunkRef
      /\ d.lo = s.lo /\ d.hi = s.hi /\ ~s.unique
  BY DEF ListOf
<1>4. Fits5(d, v)
  BY <1>1
<1> HIDE DEF d, s
<1>5. FitsList(Fits4, d, v)
  BY <1>3, <1>4, ListFits
<1>6. IsList(v) /\ Length(v) \in d.lo..d.hi /\ \A e \in Elements(v) : Fits4(one, e)
  BY <1>3, <1>5 DEF FitsList
<1>7. /\ Is("many", v) => w = [v EXCEPT !.many = t[v.many]]
      /\ ~Is("many", v) => w = Arr([i \in DOMAIN v.items |-> t[v.items[i]]])
  <2>1. ASSUME Is("many", v) PROVE v.many \in Elements(v)
    BY <1>6, <2>1 DEF Elements, IsList, Is
  <2>2. ASSUME ~Is("many", v), NEW i \in DOMAIN v.items PROVE v.items[i] \in Elements(v)
    BY <1>6, <2>2 DEF Elements, IsList, Is
  <2>. QED
    BY <2>1, <2>2 DEF EachElement
<1> HIDE DEF w
<1>8. IsList(w) /\ Length(w) = Length(v) /\ Elements(w) = {t[e] : e \in Elements(v)}
  BY <1>6, <1>7, EachElementFits
<1>9. \A e \in Elements(w) : Fits4(WorkspaceSyncChunkRef, e)
  BY <1>2, <1>6, <1>8
<1>10. FitsList(Fits4, s, w)
  BY <1>3, <1>6, <1>8, <1>9 DEF FitsList
<1>. QED
  BY <1>1, <1>3, <1>10, ListFits DEF w

\* A body of which one member, x, is replaced by y.
LEMMA ReplacedMember ==
  ASSUME NEW d, NEW s, Carried(d, s), NEW o, Exact(d, o),
         \A f \in DOMAIN d.req \ {KeyName} : o[f] # Undefined,
         NEW x \in DOMAIN d.req \ {KeyName}, Renamed(x) = x, NEW y
  PROVE  LET c == [Sent(o) EXCEPT ![x] = y]
         IN /\ Exact(s, c) /\ Sent(o)[x] = o[x] /\ c[x] = y
            /\ \A g \in DOMAIN s.req \ {x} :
                 \E f \in DOMAIN d.req \ {x, KeyName} : g = Renamed(f) /\ c[g] = o[f]
<1> DEFINE b == Sent(o)  c == [b EXCEPT ![x] = y]
<1>1. /\ Exact(s, b)
      /\ \A g \in DOMAIN s.req :
           \E f \in DOMAIN d.req \ {KeyName} : g = Renamed(f) /\ b[g] = o[f]
  BY CarriedMembers
<1> HIDE DEF b
<1>2. \A f \in DOMAIN d.req \ {KeyName} : Renamed(f) = Renamed(x) => f = x
  BY DEF Carried
<1>3. x \in DOMAIN s.req
  BY DEF Carried
<1>4. x \in DOMAIN b /\ b[x] = o[x]
  BY <1>1, <1>2, <1>3 DEF Exact
<1>5. DOMAIN c = DOMAIN b /\ c[x] = y /\ \A g \in DOMAIN b : g # x => c[g] = b[g]
  BY <1>4
<1> HIDE DEF c
<1>6. Exact(s, c)
  BY <1>1, <1>5 DEF Exact
<1>7. ASSUME NEW g \in DOMAIN s.req \ {x}
      PROVE  \E f \in DOMAIN d.req \ {x, KeyName} : g = Renamed(f) /\ c[g] = o[f]
  <2>1. PICK f \in DOMAIN d.req \ {KeyName} : g = Renamed(f) /\ b[g] = o[f]
    BY <1>1
  <2>2. g \in DOMAIN b /\ f # x
    BY <1>1, <2>1 DEF Exact
  <2>. QED
    BY <1>5, <2>1, <2>2
<1>. QED
  BY <1>4, <1>5, <1>6, <1>7 DEF b, c

(* An entry and what is sent of it: the same but for its chunks.           *)
LEMMA EntryCarried ==
  LET d == manifestEntry  s == WorkspaceSyncManifestEntry
  IN /\ Carried(d, s) /\ ~s.open
     /\ DOMAIN d.req = {"path", "kind", "byteLength", "executable", "chunks", "linkTarget"}
     /\ DOMAIN s.req = {"path", "kind", "byte_length", "executable", "chunks", "link_target"}
     /\ DOMAIN s.opt = {}
     /\ \A f \in DOMAIN d.req \ {"chunks"} : Sends5(d.req[f], s.req[Renamed(f)])
<1> DEFINE d == manifestEntry  s == WorkspaceSyncManifestEntry
           W(f) == Definite(d.req[f]) /\ Sends5(d.req[f], s.req[Renamed(f)])
<1> USE DEF manifestEntry, WorkspaceSyncManifestEntry, Object, None
<1>1. /\ d.k = "object" /\ s.k = "object" /\ ~d.open /\ ~s.open /\ s.rule = "none"
      /\ DOMAIN d.req = {"path", "kind", "byteLength", "executable", "chunks", "linkTarget"}
      /\ DOMAIN s.req = {"path", "kind", "byte_length", "executable", "chunks", "link_target"}
      /\ DOMAIN d.opt = {} /\ DOMAIN s.opt = {}
  OBVIOUS
<1>2. \A lo \in {0, 1} : Held(Units(lo, 4096), Sized(lo, 4096))
  BY DEF Held, Counted, Units, Sized
<1>3. W("path")
  BY <1>2, RenamedNames, HeldSends, DefiniteReaders
<1>4. W("kind") /\ W("executable")
  BY RenamedNames, HeldSends, DefiniteReaders
<1>5. W("byteLength")
  BY RenamedNames, HeldSends, ArgumentReaders, DefiniteReaders DEF Safe, AtLeast
<1>6. W("linkTarget")
  BY <1>2, RenamedNames, NullableSends, DefiniteReaders
<1>7. Definite(d.req["chunks"])
  <2>1. \E one : d.req["chunks"] = ListOf(one, 0, 4096)
    OBVIOUS
  <2> HIDE DEF d
  <2>. QED
    BY <2>1, DefiniteReaders
<1> HIDE DEF manifestEntry, WorkspaceSyncManifestEntry, Object, None
<1>8. Carried(d, s)
  BY <1>1, <1>3, <1>4, <1>5, <1>6, <1>7, RenamedNames DEF Carried, KeyName
<1>. QED
  BY <1>1, <1>3, <1>4, <1>5, <1>6, <1>8

LEMMA EntrySent ==
  ASSUME NEW v, Fits6(manifestEntry, v)
  PROVE  Fits6(WorkspaceSyncManifestEntry, SentEntry(v))
<1> DEFINE d == manifestEntry  s == WorkspaceSyncManifestEntry
           o == v.object  b == Sent(o)
           y == EachElement(b["chunks"], SentChunk)
           c == [b EXCEPT !["chunks"] = y]
<1>1. /\ Carried(d, s) /\ ~s.open
      /\ DOMAIN d.req = {"path", "kind", "byteLength", "executable", "chunks", "linkTarget"}
      /\ DOMAIN s.req = {"path", "kind", "byte_length", "executable", "chunks", "link_target"}
      /\ DOMAIN s.opt = {}
      /\ \A f \in DOMAIN d.req \ {"chunks"} : Sends5(d.req[f], s.req[Renamed(f)])
  BY EntryCarried
<1>2. \A x : Fits5(d.req["chunks"], x) => Fits5(s.req["chunks"], EachElement(x, SentChunk))
  BY ChunksSent
<1>3. Fits6(d, v)
  OBVIOUS
<1> HIDE DEF d, s
<1>4. FitsObject(Fits5, d, v)
  BY <1>1, <1>3, ObjectFits DEF Carried
<1>5. Exact(d, o) /\ \A f \in DOMAIN d.req : Fits5(d.req[f], o[f])
  BY <1>4 DEF FitsObject
<1>6. \A f \in DOMAIN d.req \ {KeyName} : o[f] # Undefined
  BY <1>1, <1>5, UndefinedDoesNotFit DEF Carried
<1> HIDE DEF o, y
<1>7. /\ "chunks" \in DOMAIN d.req \ {KeyName} /\ "chunks" \in DOMAIN s.req
      /\ Renamed("chunks") = "chunks"
  BY <1>1, RenamedNames DEF KeyName
<1>8. /\ Exact(s, c) /\ b["chunks"] = o["chunks"] /\ c["chunks"] = y
      /\ \A g \in DOMAIN s.req \ {"chunks"} :
           \E f \in DOMAIN d.req \ {"chunks", KeyName} : g = Renamed(f) /\ c[g] = o[f]
  <2>1. Carried(d, s) /\ Exact(d, o)
    BY <1>1, <1>5
  <2>. QED
    BY <2>1, <1>6, <1>7, ReplacedMember
<1>9. SentEntry(v) = Obj(c)
  BY DEF SentEntry, o, y
<1> HIDE DEF b, c
<1>10. ASSUME NEW g \in DOMAIN s.req, g # "chunks" PROVE Fits5(s.req[g], c[g])
  <2>1. PICK f \in DOMAIN d.req \ {"chunks", KeyName} : g = Renamed(f) /\ c[g] = o[f]
    BY <1>8, <1>10
  <2>. QED
    BY <1>1, <1>5, <1>6, <2>1 DEF Sends5
<1>11. Fits5(s.req["chunks"], c["chunks"])
  BY <1>2, <1>5, <1>7, <1>8 DEF y
<1>12. IsObject(Obj(c)) /\ Obj(c).object = c
  BY DEF IsObject, Obj
<1>13. FitsObject(Fits5, s, Obj(c))
  BY <1>1, <1>8, <1>10, <1>11, <1>12, NoRule DEF FitsObject, Carried
<1>. QED
  BY <1>1, <1>9, <1>13, ObjectFits DEF Carried, s

\* The entries of a page, as they are sent.
LEMMA EntriesSent ==
  ASSUME NEW v, Fits7(manifestBody.req["entries"], v)
  PROVE  Fits7(WorkspaceSyncManifestPage.req["entries"], EachElement(v, SentEntry))
<1> DEFINE one == manifestEntry  other == WorkspaceSyncManifestEntry
           d == ListOf(one, 0, 4096)  s == ListOf(other, 0, 4096)
           w == EachElement(v, SentEntry)
           t == [e \in Elements(v) |-> SentEntry(e)]
<1>1. manifestBody.req["entries"] = d /\ WorkspaceSyncManifestPage.req["entries"] = s
  BY DEF manifestBody, WorkspaceSyncManifestPage, Object
<1>2. \A e : Fits6(one, e) => Fits6(other, SentEntry(e))
  BY EntrySent
<1> HIDE DEF one, other
<1>3. /\ d.k = "list" /\ s.k = "list" /\ d.of = one /\ s.of = other
      /\ d.lo = s.lo /\ d.hi = s.hi /\ ~s.unique
  BY DEF ListOf
<1>4. Fits7(d, v)
  BY <1>1
<1> HIDE DEF d, s
<1>5. FitsList(Fits6, d, v)
  BY <1>3, <1>4, ListFits
<1>6. IsList(v) /\ Length(v) \in d.lo..d.hi /\ \A e \in Elements(v) : Fits6(one, e)
  BY <1>3, <1>5 DEF FitsList
<1>7. /\ Is("many", v) => w = [v EXCEPT !.many = t[v.many]]
      /\ ~Is("many", v) => w = Arr([i \in DOMAIN v.items |-> t[v.items[i]]])
  <2>1. ASSUME Is("many", v) PROVE v.many \in Elements(v)
    BY <1>6, <2>1 DEF Elements, IsList, Is
  <2>2. ASSUME ~Is("many", v), NEW i \in DOMAIN v.items PROVE v.items[i] \in Elements(v)
    BY <1>6, <2>2 DEF Elements, IsList, Is
  <2>. QED
    BY <2>1, <2>2 DEF EachElement
<1> HIDE DEF w
<1>8. IsList(w) /\ Length(w) = Length(v) /\ Elements(w) = {t[e] : e \in Elements(v)}
  BY <1>6, <1>7, EachElementFits
<1>9. \A e \in Elements(w) : Fits6(other, e)
  BY <1>2, <1>6, <1>8
<1>10. FitsList(Fits6, s, w)
  BY <1>3, <1>6, <1>8, <1>9 DEF FitsList
<1>. QED
  BY <1>1, <1>3, <1>10, ListFits DEF w

LEMMA ManifestCarried ==
  LET d == manifestBody  s == WorkspaceSyncManifestPage
  IN /\ Carried(d, s) /\ ~s.open
     /\ DOMAIN d.req = {"pageIndex", "isLast", "minimumReader", "minimumWriter", "entries"}
     /\ DOMAIN s.req = {"page_index", "is_last", "minimum_reader", "minimum_writer", "entries"}
     /\ DOMAIN s.opt = {}
     /\ \A f \in DOMAIN d.req \ {"entries"} : Sends7(d.req[f], s.req[Renamed(f)])
<1> DEFINE d == manifestBody  s == WorkspaceSyncManifestPage
           W(f) == Definite(d.req[f]) /\ Sends7(d.req[f], s.req[Renamed(f)])
<1> USE DEF manifestBody, WorkspaceSyncManifestPage, Object, None
<1>1. /\ d.k = "object" /\ s.k = "object" /\ ~d.open /\ ~s.open /\ s.rule = "none"
      /\ DOMAIN d.req = {"pageIndex", "isLast", "minimumReader", "minimumWriter", "entries"}
      /\ DOMAIN s.req = {"page_index", "is_last", "minimum_reader", "minimum_writer",
                         "entries"}
      /\ DOMAIN d.opt = {} /\ DOMAIN s.opt = {}
  OBVIOUS
<1>2. W("pageIndex") /\ W("isLast")
  BY RenamedNames, HeldSends, ArgumentReaders, DefiniteReaders DEF Between
<1>3. W("minimumReader") /\ W("minimumWriter")
  BY RenamedNames, HeldSends, ArgumentReaders, DefiniteReaders DEF Safe, AtLeast
<1>4. Definite(d.req["entries"])
  BY DefiniteReaders
<1> HIDE DEF manifestBody, WorkspaceSyncManifestPage, Object, None
<1>5. Carried(d, s)
  BY <1>1, <1>2, <1>3, <1>4, RenamedNames DEF Carried, KeyName
<1>. QED
  BY <1>1, <1>2, <1>3, <1>5

LEMMA ManifestSent ==
  ASSUME NEW v, Fits(manifestBody, v)
  PROVE  Fits(WorkspaceSyncManifestPage,
              Obj([Sent(v.object) EXCEPT !.entries = EachElement(@, SentEntry)]))
<1> DEFINE d == manifestBody  s == WorkspaceSyncManifestPage
           o == v.object  b == Sent(o)
           y == EachElement(b["entries"], SentEntry)
           c == [b EXCEPT !["entries"] = y]
<1>1. /\ Carried(d, s) /\ ~s.open
      /\ DOMAIN d.req = {"pageIndex", "isLast", "minimumReader", "minimumWriter", "entries"}
      /\ DOMAIN s.req = {"page_index", "is_last", "minimum_reader", "minimum_writer", "entries"}
      /\ DOMAIN s.opt = {}
      /\ \A f \in DOMAIN d.req \ {"entries"} : Sends7(d.req[f], s.req[Renamed(f)])
  BY ManifestCarried
<1>2. \A x : Fits7(d.req["entries"], x) => Fits7(s.req["entries"], EachElement(x, SentEntry))
  BY EntriesSent
<1>3. Fits(d, v)
  OBVIOUS
<1> HIDE DEF d, s
<1>4. FitsObject(Fits7, d, v)
  BY <1>1, <1>3, ObjectFits DEF Carried
<1>5. Exact(d, o) /\ \A f \in DOMAIN d.req : Fits7(d.req[f], o[f])
  BY <1>4 DEF FitsObject
<1>6. \A f \in DOMAIN d.req \ {KeyName} : o[f] # Undefined
  BY <1>1, <1>5, UndefinedDoesNotFit DEF Carried
<1> HIDE DEF o, y
<1>7. /\ "entries" \in DOMAIN d.req \ {KeyName} /\ "entries" \in DOMAIN s.req
      /\ Renamed("entries") = "entries"
  BY <1>1, RenamedNames DEF KeyName
<1>8. /\ Exact(s, c) /\ b["entries"] = o["entries"] /\ c["entries"] = y
      /\ \A g \in DOMAIN s.req \ {"entries"} :
           \E f \in DOMAIN d.req \ {"entries", KeyName} : g = Renamed(f) /\ c[g] = o[f]
  <2>1. Carried(d, s) /\ Exact(d, o)
    BY <1>1, <1>5
  <2>. QED
    BY <2>1, <1>6, <1>7, ReplacedMember
<1>9. Obj([Sent(v.object) EXCEPT !.entries = EachElement(@, SentEntry)]) = Obj(c)
  BY DEF o, y
<1> HIDE DEF b, c
<1>10. ASSUME NEW g \in DOMAIN s.req, g # "entries" PROVE Fits7(s.req[g], c[g])
  <2>1. PICK f \in DOMAIN d.req \ {"entries", KeyName} : g = Renamed(f) /\ c[g] = o[f]
    BY <1>8, <1>10
  <2>. QED
    BY <1>1, <1>5, <1>6, <2>1 DEF Sends7
<1>11. Fits7(s.req["entries"], c["entries"])
  BY <1>2, <1>5, <1>7, <1>8 DEF y
<1>12. IsObject(Obj(c)) /\ Obj(c).object = c
  BY DEF IsObject, Obj
<1>13. FitsObject(Fits7, s, Obj(c))
  BY <1>1, <1>8, <1>10, <1>11, <1>12, NoRule DEF FitsObject, Carried
<1>. QED
  BY <1>1, <1>9, <1>13, ObjectFits DEF Carried, s

----------------------------------------------------------------------------
(* Requests: the bodies put together by the program. *)

\* The tail of a list of words is one as well, a word shorter.
LEMMA TailOfWords ==
  ASSUME NEW S, NEW s \in Seq(S), Len(s) # 0
  PROVE  /\ Head(s) \in {s[i] : i \in DOMAIN s}
         /\ Tail(s) \in Seq({Tail(s)[i] : i \in DOMAIN Tail(s)})
         /\ Len(Tail(s)) = Len(s) - 1 /\ Len(s) \in Nat
         /\ {Tail(s)[i] : i \in DOMAIN Tail(s)} \subseteq {s[i] : i \in DOMAIN s}
<1>1. /\ Len(s) \in Nat /\ DOMAIN s = 1..Len(s) /\ Head(s) = s[1]
      /\ Tail(s) \in Seq(S) /\ Len(Tail(s)) = Len(s) - 1
      /\ \A i \in 1..Len(s) - 1 : Tail(s)[i] = s[i + 1]
  BY LenProperties, EmptySeq, HeadTailProperties
<1>2. DOMAIN Tail(s) = 1..Len(s) - 1
  BY <1>1, LenProperties
<1>3. Tail(s) = [i \in DOMAIN Tail(s) |-> Tail(s)[i]]
  BY <1>1, LenProperties
<1>4. Tail(s) \in Seq({Tail(s)[i] : i \in DOMAIN Tail(s)})
  BY <1>1, <1>3, MappedSequence
<1>5. 1 \in DOMAIN s
  BY <1>1
<1>6. \A i \in DOMAIN Tail(s) : i + 1 \in DOMAIN s /\ Tail(s)[i] = s[i + 1]
  BY <1>1, <1>2
<1> DEFINE t == Tail(s)
<1>7. \A i \in DOMAIN t : t[i] \in {s[j] : j \in DOMAIN s}
  <2> HIDE DEF t
  <2>. QED
    BY <1>6 DEF t
<1>. QED
  BY <1>1, <1>4, <1>5, <1>7

\* What exec takes for a command, as it is sent; the first word of a list may
\* be empty.
LEMMA WordsSent ==
  ASSUME NEW a, Fits7(prepareExec.req["command"], a)
  PROVE  LET words == CommandWords(a)
         IN /\ "command" \in DOMAIN words /\ DOMAIN words \subseteq {"command", "args"}
            /\ \/ Fits7(ExecRequest.req["command"], words.command)
               \/ ~IsString(a) /\ Is("form", words.command) /\ words.command.len = 0
            /\ "args" \in DOMAIN words => Fits7(ExecRequest.opt["args"], words.args)
<1> DEFINE one == Sized(1, Unbounded)  list == ListOf(AnyText, 1, Unbounded)
           either == Either(one, list)  rest == ListOf(AnyText, 0, Unbounded)
           words == CommandWords(a)
<1>1. /\ prepareExec.req["command"] = either /\ ExecRequest.req["command"] = one
      /\ ExecRequest.opt["args"] = rest
  BY DEF prepareExec, ExecRequest, Object
<1>2. Fits7(either, a)
  BY <1>1
<1>3. /\ either.k = "either" /\ either.one = one /\ either.other = list
      /\ one.k = "text" /\ one.k \in Leaves /\ one.lo = 1 /\ one.hi = Unbounded
      /\ list.k = "list" /\ list.of = AnyText /\ list.lo = 1 /\ list.hi = Unbounded
      /\ rest.k = "list" /\ rest.of = AnyText /\ rest.lo = 0 /\ rest.hi = Unbounded
      /\ ~rest.unique
  BY DEF Either, Sized, ListOf, Leaves
<1>4. AnyText.k = "text" /\ AnyText.k \in Leaves /\ AnyText.lo = 0 /\ AnyText.hi = Unbounded
  BY DEF AnyText, Leaves
<1>5. Unbounded \in Nat
  BY UnboundedIsLarge
<1> HIDE DEF one, list, either, rest
<1>6. FitsLeaf(one, a) \/ FitsList(Fits6, list, a)
  <2>1. ~FitsAs(Fits6, either, a)
    BY <1>3 DEF FitsAs, FitsLeaf
  <2>2. FitsAs(Fits6, one, a) \/ FitsAs(Fits6, list, a)
    BY <1>2, <1>3, <2>1 DEF Fits7, FitsBy
  <2>3. ~FitsLeaf(list, a)
    BY <1>3 DEF FitsLeaf
  <2>. QED
    BY <1>3, <2>2, <2>3 DEF FitsAs
<1>7. ASSUME NEW e, Fits6(AnyText, e)
      PROVE  Fits7(one, e) \/ (Is("form", e) /\ e.len = 0)
  <2>1. FitsLeaf(AnyText, e)
    BY <1>4, <1>7, LeafFits
  <2>2. IsWord(e) \/ (IsText(e) /\ e.len \in 0..Unbounded)
    BY <1>4, <2>1 DEF FitsLeaf
  <2>3. FitsLeaf(one, e) \/ (Is("form", e) /\ e.len = 0)
    BY <1>3, <1>5, <2>2 DEF FitsLeaf, IsText
  <2>. QED
    BY <1>3, <2>3, LeafFits
<1>8. CASE FitsLeaf(one, a)
  <2>1. IsString(a)
    BY <1>3, <1>8 DEF FitsLeaf, IsString, IsWord, IsText, Is
  <2>2. words = [command |-> a]
    BY <2>1 DEF CommandWords
  <2>3. Fits7(one, a)
    BY <1>3, <1>8, LeafFits
  <2>. QED
    BY <1>1, <2>2, <2>3
<1>9. CASE FitsList(Fits6, list, a)
  <2>1. /\ IsList(a) /\ Length(a) \in 1..Unbounded
        /\ \A e \in Elements(a) : Fits6(AnyText, e)
    BY <1>3, <1>9 DEF FitsList
  <2>2. ~IsString(a)
    BY <2>1 DEF IsList, IsString, Is
  <2>3. CASE Is("many", a)
    <3> DEFINE args == [a EXCEPT !.len = @ - 1]
    <3>1. DOMAIN a = {"many", "len", "distinct"} /\ a.len \in 1..Unbounded
      BY <2>1, <2>3 DEF IsList, Length, Is
    <3>2. DOMAIN args = {"many", "len", "distinct"} /\ args.many = a.many
          /\ args.len = a.len - 1
      BY <3>1
    <3>3. DOMAIN words = {"command", "args"} /\ words.command = a.many /\ words.args = args
      BY <2>2, <2>3 DEF CommandWords
    <3> HIDE DEF args, words
    <3>4. Fits6(AnyText, a.many)
      BY <2>1, <3>1 DEF Elements, Is
    <3>5. FitsList(Fits6, rest, args)
      BY <1>3, <1>5, <3>1, <3>2, <3>4 DEF FitsList, IsList, Length, Elements, Is
    <3>6. Fits7(rest, args)
      BY <1>3, <3>5, ListFits
    <3>. QED
      BY <1>1, <1>7, <2>2, <3>3, <3>4, <3>6 DEF words
  <2>4. CASE ~Is("many", a)
    <3> DEFINE s == a.items  args == Arr(Tail(s))
    <3>1. DOMAIN a = {"items"} /\ s \in Seq(Elements(a)) /\ Len(s) \in 1..Unbounded
          /\ Elements(a) = {s[i] : i \in DOMAIN s}
      BY <2>1, <2>4 DEF IsList, Length, Elements, Is
    <3>2. DOMAIN words = {"command", "args"} /\ words.command = Head(s) /\ words.args = args
      BY <2>2, <2>4 DEF CommandWords
    <3>3. DOMAIN args = {"items"} /\ args.items = Tail(s)
      BY DEF Arr
    <3> HIDE DEF s, args, words
    <3>4. /\ Head(s) \in {s[i] : i \in DOMAIN s}
          /\ Tail(s) \in Seq({Tail(s)[i] : i \in DOMAIN Tail(s)})
          /\ Len(Tail(s)) = Len(s) - 1 /\ Len(s) \in Nat
          /\ {Tail(s)[i] : i \in DOMAIN Tail(s)} \subseteq {s[i] : i \in DOMAIN s}
      BY <3>1, TailOfWords
    <3>5. Elements(args) = {Tail(s)[i] : i \in DOMAIN Tail(s)}
      BY <3>3 DEF Elements, Is
    <3>6. IsList(args) /\ Length(args) = Len(s) - 1
      BY <3>3, <3>4, <3>5 DEF IsList, Length, Is
    <3>7. Len(s) - 1 \in 0..Unbounded
      BY <1>5, <3>1
    <3>8. \A e \in Elements(args) : Fits6(AnyText, e)
      BY <2>1, <3>1, <3>4, <3>5
    <3>9. FitsList(Fits6, rest, args)
      BY <1>3, <3>6, <3>7, <3>8 DEF FitsList
    <3>10. Fits7(rest, args)
      BY <1>3, <3>9, ListFits
    <3>11. Fits6(AnyText, Head(s))
      BY <2>1, <3>1, <3>4
    <3>. QED
      BY <1>1, <1>7, <2>2, <3>2, <3>10, <3>11 DEF words
  <2>. QED
    BY <2>3, <2>4
<1>. QED
  BY <1>6, <1>8, <1>9

LEMMA ExecSent ==
  ASSUME NEW v, Fits(prepareExec, v)
  PROVE  LET body == Obj(ExecBody(v.object))
         IN \/ Fits(ExecRequest, body)
            \/ ~IsString(v.object.command) /\ Is("form", body.object.command)
               /\ body.object.command.len = 0
<1> DEFINE d == prepareExec  s == ExecRequest  o == v.object
           words == CommandWords(o.command)
           rest == Sent([f \in DOMAIN o \ {"command"} |-> o[f]])
           b == Joined(words, rest)
<1>1. /\ d.k = "object" /\ ~d.open /\ DOMAIN d.req = {"command"}
      /\ DOMAIN d.opt = {"cwd", "timeoutSecs"}
      /\ s.k = "object" /\ s.rule = "none" /\ DOMAIN s.req = {"command"}
      /\ DOMAIN s.opt = {"args", "cwd", "timeout_secs"}
  BY DEF prepareExec, ExecRequest, Object
<1>2. Sends7(d.opt["cwd"], s.opt["cwd"]) /\ Sends7(d.opt["timeoutSecs"], s.opt["timeout_secs"])
  BY MaybeSends DEF prepareExec, ExecRequest, Object, Between
<1>3. Fits(d, v)
  OBVIOUS
<1>4. /\ Renamed("cwd") = "cwd" /\ Renamed("timeoutSecs") = "timeout_secs"
  BY RenamedNames
<1>5. b = ExecBody(o)
  BY DEF ExecBody
<1>6. Fits7(d.req["command"], o["command"]) =>
        /\ "command" \in DOMAIN words /\ DOMAIN words \subseteq {"command", "args"}
        /\ \/ Fits7(s.req["command"], words["command"])
           \/ ~IsString(o["command"]) /\ Is("form", words["command"]) /\ words["command"].len = 0
        /\ "args" \in DOMAIN words => Fits7(s.opt["args"], words["args"])
  BY WordsSent
<1> HIDE DEF d, s, words
<1>7. FitsObject(Fits7, d, v)
  BY <1>1, <1>3, ObjectFits
<1>8. /\ Exact(d, o) /\ Fits7(d.req["command"], o["command"])
      /\ \A f \in DOMAIN d.opt \cap DOMAIN o : Fits7(d.opt[f], o[f])
  BY <1>1, <1>7 DEF FitsObject
<1>9. DOMAIN o \subseteq {"command", "cwd", "timeoutSecs"}
  BY <1>1, <1>8 DEF Exact
<1> DEFINE r == [f \in DOMAIN o \ {"command"} |-> o[f]]
<1>10. /\ DOMAIN r = DOMAIN o \ {"command"} /\ \A f \in DOMAIN r : r[f] = o[f]
       /\ DOMAIN r \subseteq {"cwd", "timeoutSecs"}
  BY <1>9
<1> HIDE DEF o
<1>11. ASSUME NEW g \in DOMAIN rest
       PROVE  g \in {"cwd", "timeout_secs"} /\ Fits7(s.opt[g], rest[g])
  <2> HIDE DEF r
  <2>1. \A f, h \in DOMAIN r \ {KeyName} : Renamed(f) = Renamed(h) => f = h
    BY <1>4, <1>10
  <2>2. /\ DOMAIN Sent(r)
             = {Renamed(f) : f \in {f \in DOMAIN r \ {KeyName} : r[f] # Undefined}}
        /\ \A f \in DOMAIN r \ {KeyName} : r[f] # Undefined => Sent(r)[Renamed(f)] = r[f]
    BY <2>1, SentMembers
  <2>3. rest = Sent(r)
    BY DEF r
  <2> HIDE DEF rest
  <2>4. PICK f \in DOMAIN r : g = Renamed(f) /\ r[f] # Undefined /\ rest[g] = r[f]
    BY <2>2, <2>3
  <2>5. f \in {"cwd", "timeoutSecs"} /\ Fits7(d.opt[f], r[f])
    BY <1>1, <1>8, <1>10, <2>4
  <2>. QED
    BY <1>2, <1>4, <2>4, <2>5 DEF Sends7
<1> HIDE DEF rest
<1>12. /\ DOMAIN b = DOMAIN words \cup DOMAIN rest
       /\ \A g \in DOMAIN words : b[g] = words[g]
       /\ \A g \in DOMAIN rest \ DOMAIN words : b[g] = rest[g]
  BY DEF Joined
<1> HIDE DEF b
<1>13. Exact(s, b) /\ b["command"] = words["command"]
  BY <1>1, <1>6, <1>8, <1>11, <1>12 DEF Exact
<1>14. \A g \in DOMAIN s.opt \cap DOMAIN b : Fits7(s.opt[g], b[g])
  BY <1>1, <1>6, <1>8, <1>11, <1>12
<1>15. IsObject(Obj(b)) /\ Obj(b).object = b
  BY DEF IsObject, Obj
<1>16. Fits7(s.req["command"], b["command"]) => Fits(s, Obj(b))
  <2>1. Fits7(s.req["command"], b["command"]) => FitsObject(Fits7, s, Obj(b))
    BY <1>1, <1>13, <1>14, <1>15, NoRule DEF FitsObject
  <2>. QED
    BY <1>1, <2>1, ObjectFits
<1>17. \/ Fits(s, Obj(b))
       \/ ~IsString(o["command"]) /\ Is("form", b["command"]) /\ b["command"].len = 0
  BY <1>6, <1>8, <1>13, <1>16
<1>. QED
  BY <1>5, <1>15, <1>17 DEF s, o

LEMMA TerminalSent ==
  ASSUME NEW v, Fits(createTerminalConnection, v)
  PROVE  Fits(TerminalConnectionCreate, Obj(TerminalBody(v.object)))
<1> DEFINE d == createTerminalConnection  s == TerminalConnectionCreate  o == v.object
           first == [protocol |-> EMITTED_TERMINAL_PROTOCOL]
           rest == Sent([f \in DOMAIN o \ {"protocol"} |-> o[f]])
           b == Joined(first, rest)
<1> USE DEF createTerminalConnection, TerminalConnectionCreate, Object
<1>1. /\ d.k = "object" /\ ~d.open /\ DOMAIN d.req = {"idempotencyKey", "clientInstanceId"}
      /\ DOMAIN d.opt = {"protocol", "resumeHandle"}
      /\ s.k = "object" /\ s.rule = "none"
      /\ DOMAIN s.req = {"client_instance_id", "protocol"} /\ DOMAIN s.opt = {"resume_handle"}
  OBVIOUS
<1>2. /\ Sends7(d.req["clientInstanceId"], s.req["client_instance_id"])
      /\ Definite(d.req["clientInstanceId"])
  BY HeldSends, DefiniteReaders
<1>3. Sends7(d.opt["resumeHandle"], s.opt["resume_handle"])
  BY MaybeSends, ArgumentReaders
<1>4. Fits7(s.req["protocol"], EMITTED_TERMINAL_PROTOCOL)
  <2> DEFINE one == s.req["protocol"]
  <2>1. /\ one.k = "pattern" /\ one.k \in Leaves
        /\ one.forms = {"terminal.v1"} /\ one.lo = 0 /\ one.hi = 0 /\ one.brands = {"runa"}
    BY DEF Branded, Leaves
  <2>2. EMITTED_TERMINAL_PROTOCOL \in Strings({"terminal.v1"}, 0, 0, {"runa"})
    BY DEF EMITTED_TERMINAL_PROTOCOL, Strings, Str
  <2> HIDE DEF one
  <2>3. Fits7(one, EMITTED_TERMINAL_PROTOCOL)
    BY <2>1, <2>2, LeafFits DEF FitsLeaf
  <2>. QED
    BY <2>3 DEF one
<1>5. Fits(d, v)
  OBVIOUS
<1>6. /\ Renamed("clientInstanceId") = "client_instance_id"
      /\ Renamed("resumeHandle") = "resume_handle"
  BY RenamedNames
<1>7. b = TerminalBody(o)
  BY DEF TerminalBody
<1>8. DOMAIN first = {"protocol"} /\ first["protocol"] = EMITTED_TERMINAL_PROTOCOL
  OBVIOUS
<1> HIDE DEF d, s, first, createTerminalConnection, TerminalConnectionCreate, Object
<1>9. FitsObject(Fits7, d, v)
  BY <1>1, <1>5, ObjectFits
<1>10. /\ Exact(d, o) /\ \A f \in DOMAIN d.req : Fits7(d.req[f], o[f])
       /\ \A f \in DOMAIN d.opt \cap DOMAIN o : Fits7(d.opt[f], o[f])
  BY <1>9 DEF FitsObject
<1>11. /\ DOMAIN o \subseteq {"idempotencyKey", "clientInstanceId", "protocol", "resumeHandle"}
       /\ "clientInstanceId" \in DOMAIN o /\ o["clientInstanceId"] # Undefined
  BY <1>1, <1>2, <1>10, UndefinedDoesNotFit DEF Exact
<1> DEFINE r == [f \in DOMAIN o \ {"protocol"} |-> o[f]]
<1>12. DOMAIN r = DOMAIN o \ {"protocol"} /\ \A f \in DOMAIN r : r[f] = o[f]
  OBVIOUS
<1> HIDE DEF o
<1>13. /\ DOMAIN rest = {Renamed(f) : f \in {f \in DOMAIN r \ {KeyName} : r[f] # Undefined}}
       /\ \A f \in DOMAIN r \ {KeyName} : r[f] # Undefined => rest[Renamed(f)] = r[f]
  <2>1. \A f, g \in DOMAIN r \ {KeyName} : Renamed(f) = Renamed(g) => f = g
    BY <1>6, <1>11, <1>12 DEF KeyName
  <2> HIDE DEF r
  <2>2. /\ DOMAIN Sent(r)
             = {Renamed(f) : f \in {f \in DOMAIN r \ {KeyName} : r[f] # Undefined}}
        /\ \A f \in DOMAIN r \ {KeyName} : r[f] # Undefined => Sent(r)[Renamed(f)] = r[f]
    BY <2>1, SentMembers
  <2>. QED
    BY <2>2 DEF r
<1> HIDE DEF r, rest
<1>14. /\ DOMAIN rest \subseteq {"client_instance_id", "resume_handle"}
       /\ "client_instance_id" \in DOMAIN rest
       /\ rest["client_instance_id"] = o["clientInstanceId"]
       /\ "resume_handle" \in DOMAIN rest =>
            /\ "resumeHandle" \in DOMAIN o /\ o["resumeHandle"] # Undefined
            /\ rest["resume_handle"] = o["resumeHandle"]
  BY <1>6, <1>11, <1>12, <1>13 DEF KeyName
<1>15. /\ DOMAIN b = DOMAIN first \cup DOMAIN rest
       /\ \A g \in DOMAIN first : b[g] = first[g]
       /\ \A g \in DOMAIN rest \ DOMAIN first : b[g] = rest[g]
  BY DEF Joined
<1> HIDE DEF b
<1>16. Exact(s, b)
  BY <1>1, <1>8, <1>14, <1>15 DEF Exact
<1>17. Fits7(s.req["protocol"], b["protocol"])
  BY <1>4, <1>8, <1>15
<1>18. Fits7(s.req["client_instance_id"], b["client_instance_id"])
  BY <1>1, <1>2, <1>8, <1>10, <1>11, <1>14, <1>15 DEF Sends7
<1>19. "resume_handle" \in DOMAIN b => Fits7(s.opt["resume_handle"], b["resume_handle"])
  BY <1>1, <1>3, <1>8, <1>10, <1>14, <1>15 DEF Sends7
<1>20. IsObject(Obj(b)) /\ Obj(b).object = b
  BY DEF IsObject, Obj
<1>21. FitsObject(Fits7, s, Obj(b))
  BY <1>1, <1>16, <1>17, <1>18, <1>19, <1>20, NoRule DEF FitsObject
<1>. QED
  BY <1>1, <1>7, <1>21, ObjectFits DEF s, o

----------------------------------------------------------------------------
(* Requests: the table of the operations *)

\* The path and the body of each operation.
LEMMA PathsAndBodies ==
  /\ \A o \in {"me.get", "records.list", "capabilities.get", "sessions.list"} :
       Operations[o].path = {} /\ ~Operations[o].body
  /\ \A o \in {"agentSessions.agentAuth", "agentSessions.get", "agentSessions.list",
               "machineCreates.get", "sessions.agentAuth", "sessions.get",
               "workspaces.sync.changes", "agentSessions.terminate",
               "machineCreates.reconcile", "sessions.open", "sessions.pause",
               "sessions.resume", "sessions.start", "sessions.stop", "sessions.delete"} :
       Operations[o].path = {"id"} /\ ~Operations[o].body
  /\ \A o \in {"workspaces.sync.chunk", "workspaces.sync.chunkDownload"} :
       Operations[o].path = {"id", "digest"} /\ ~Operations[o].body
  /\ Operations["workspaceBindings.get"].path = {"binding_id"}
  /\ ~Operations["workspaceBindings.get"].body
  /\ \A o \in {"sessions.create", "workspaceBindings.create"} :
       Operations[o].path = {} /\ Operations[o].body
  /\ \A o \in {"agentSessions.create", "agentSessions.createTerminalConnection",
               "agentSessions.rename", "sessions.checkpoint", "sessions.exec",
               "workspaces.sync.begin", "workspaces.sync.commit",
               "workspaces.sync.negotiate", "workspaces.sync.reconcile"} :
       Operations[o].path = {"id"} /\ Operations[o].body
<1> USE DEF Operations, OperationNames, AgentSessionOperations, AccountOperations,
            SessionOperations, WorkspaceOperations, Op
<1>1. \A o \in {"me.get", "records.list", "capabilities.get", "sessions.list"} :
        Operations[o].path = {} /\ ~Operations[o].body
  OBVIOUS
<1>2. \A o \in {"agentSessions.agentAuth", "agentSessions.get", "agentSessions.list",
                "machineCreates.get", "sessions.agentAuth", "sessions.get",
                "workspaces.sync.changes"} :
        Operations[o].path = {"id"} /\ ~Operations[o].body
  OBVIOUS
<1>3. \A o \in {"agentSessions.terminate", "machineCreates.reconcile", "sessions.open",
                "sessions.pause", "sessions.resume", "sessions.start", "sessions.stop",
                "sessions.delete"} :
        Operations[o].path = {"id"} /\ ~Operations[o].body
  OBVIOUS
<1>4. /\ \A o \in {"workspaces.sync.chunk", "workspaces.sync.chunkDownload"} :
           Operations[o].path = {"id", "digest"} /\ ~Operations[o].body
      /\ Operations["workspaceBindings.get"].path = {"binding_id"}
      /\ ~Operations["workspaceBindings.get"].body
  OBVIOUS
<1>5. /\ Operations["sessions.create"].path = {} /\ Operations["sessions.create"].body
      /\ Operations["workspaceBindings.create"].path = {}
      /\ Operations["workspaceBindings.create"].body
  OBVIOUS
<1>6. /\ Operations["agentSessions.create"].path = {"id"}
      /\ Operations["agentSessions.create"].body
      /\ Operations["agentSessions.createTerminalConnection"].path = {"id"}
      /\ Operations["agentSessions.createTerminalConnection"].body
      /\ Operations["agentSessions.rename"].path = {"id"}
      /\ Operations["agentSessions.rename"].body
  OBVIOUS
<1>7. /\ Operations["sessions.checkpoint"].path = {"id"}
      /\ Operations["sessions.checkpoint"].body
      /\ Operations["sessions.exec"].path = {"id"}
      /\ Operations["sessions.exec"].body
  OBVIOUS
<1>8. /\ Operations["workspaces.sync.begin"].path = {"id"}
      /\ Operations["workspaces.sync.begin"].body
      /\ Operations["workspaces.sync.commit"].path = {"id"}
      /\ Operations["workspaces.sync.commit"].body
      /\ Operations["workspaces.sync.negotiate"].path = {"id"}
      /\ Operations["workspaces.sync.negotiate"].body
      /\ Operations["workspaces.sync.reconcile"].path = {"id"}
      /\ Operations["workspaces.sync.reconcile"].body
  OBVIOUS
<1> HIDE DEF Operations, OperationNames, AgentSessionOperations, AccountOperations,
             SessionOperations, WorkspaceOperations, Op
<1>. QED
  BY <1>1, <1>2, <1>3, <1>4, <1>5, <1>6, <1>7, <1>8

LEMMA Bodies ==
  WithBody = {"agentSessions.create", "agentSessions.createTerminalConnection",
              "agentSessions.rename", "sessions.checkpoint", "sessions.create",
              "sessions.exec", "workspaceBindings.create", "workspaces.sync.begin",
              "workspaces.sync.commit", "workspaces.sync.negotiate",
              "workspaces.sync.reconcile"}
<1> DEFINE all == {"agentSessions.create", "agentSessions.createTerminalConnection",
              "agentSessions.rename", "sessions.checkpoint", "sessions.create",
              "sessions.exec", "workspaceBindings.create", "workspaces.sync.begin",
              "workspaces.sync.commit", "workspaces.sync.negotiate",
              "workspaces.sync.reconcile"}
<1>1. \A o \in all : o \in OperationNames /\ Operations[o].body
  BY PathsAndBodies DEF OperationNames, AgentSessionOperations, SessionOperations,
                        WorkspaceOperations
<1>2. ASSUME NEW o \in OperationNames, o \notin all PROVE ~Operations[o].body
  BY <1>2, PathsAndBodies DEF OperationNames, AgentSessionOperations, AccountOperations,
                              SessionOperations, WorkspaceOperations
<1>. QED
  BY <1>1, <1>2 DEF WithBody

\* The parts each manager passes are those prepare demands.
LEMMA CallsArePrepared == \A called \in Called : Prepared(called, Parts[called])
<1> SUFFICES ASSUME NEW called \in Called PROVE Prepared(called, Parts[called])
  OBVIOUS
<1> DEFINE key == IF called \in NeedsIdempotencyKey THEN {"key"} ELSE {}
           body == IF called = "workspaces.sync.chunk" THEN {"bytes"}
                   ELSE IF Operations[called].body THEN {"body"} ELSE {}
<1>0. SUFFICES Parts[called] = Operations[called].path \cup body \cup key
  BY DEF Prepared
<1>1. CASE called \in DOMAIN AccountParts
  <2>1. Parts[called] = AccountParts[called]
    BY <1>1 DEF Parts, AccountParts, SessionParts, AgentSessionParts, MachineParts,
                BindingParts, SyncParts, AgentSessionOperations
  <2>. QED
    BY <1>1, <2>1, PathsAndBodies DEF AccountParts, NeedsIdempotencyKey
<1>2. CASE called \in DOMAIN SessionParts
  <2>1. Parts[called] = SessionParts[called]
    BY <1>2 DEF Parts, AccountParts, SessionParts, AgentSessionParts, MachineParts,
                BindingParts, SyncParts, AgentSessionOperations
  <2>. QED
    BY <1>2, <2>1, PathsAndBodies DEF SessionParts, NeedsIdempotencyKey
<1>3. CASE called \in DOMAIN AgentSessionParts
  <2>1. Parts[called] = AgentSessionParts[called]
    BY <1>3 DEF Parts, AccountParts, SessionParts, AgentSessionParts, MachineParts,
                BindingParts, SyncParts, AgentSessionOperations
  <2>. QED
    BY <1>3, <2>1, PathsAndBodies
       DEF AgentSessionParts, AgentSessionOperations, NeedsIdempotencyKey
<1>4. CASE called \in DOMAIN MachineParts
  <2>1. Parts[called] = MachineParts[called]
    BY <1>4 DEF Parts, AccountParts, SessionParts, AgentSessionParts, MachineParts,
                BindingParts, SyncParts, AgentSessionOperations
  <2>. QED
    BY <1>4, <2>1, PathsAndBodies DEF MachineParts, NeedsIdempotencyKey
<1>5. CASE called \in DOMAIN BindingParts
  <2>1. Parts[called] = BindingParts[called]
    BY <1>5 DEF Parts, AccountParts, SessionParts, AgentSessionParts, MachineParts,
                BindingParts, SyncParts, AgentSessionOperations
  <2>. QED
    BY <1>5, <2>1, PathsAndBodies DEF BindingParts, NeedsIdempotencyKey
<1>6. CASE called \in DOMAIN SyncParts
  <2>1. Parts[called] = SyncParts[called]
    BY <1>6 DEF Parts, AccountParts, SessionParts, AgentSessionParts, MachineParts,
                BindingParts, SyncParts, AgentSessionOperations
  <2>. QED
    BY <1>6, <2>1, PathsAndBodies DEF SyncParts, NeedsIdempotencyKey
<1>7. \/ called \in DOMAIN AccountParts \/ called \in DOMAIN SessionParts
      \/ called \in DOMAIN AgentSessionParts \/ called \in DOMAIN MachineParts
      \/ called \in DOMAIN BindingParts \/ called \in DOMAIN SyncParts
  BY DEF Called, OperationNames, AgentSessionOperations, AccountOperations, SessionOperations,
         WorkspaceOperations, AccountParts, SessionParts, AgentSessionParts, MachineParts,
         BindingParts, SyncParts
<1>. QED
  BY <1>1, <1>2, <1>3, <1>4, <1>5, <1>6, <1>7

(* The one body accepted that the contract does not have.                 *)
EmptyCommand(called, o, body) ==
  called = "sessions.exec" /\ ~IsString(o.command)
  /\ Is("form", body.object.command) /\ body.object.command.len = 0

\* What a method accepts of its arguments makes a body that fits.
LEMMA BodyFits ==
  ASSUME NEW called \in WithBody, NEW v, Fits(Validator[called], v)
  PROVE  LET body == Body(called, v.object)
         IN Fits(RequestSchema[called], body) \/ EmptyCommand(called, v.object, body)
<1>0. called \in WithArguments
  BY DEF WithArguments
<1> DEFINE body == Body(called, v.object)
<1>1. CASE called = "sessions.exec"
  <2>1. /\ Validator[called] = prepareExec /\ RequestSchema[called] = ExecRequest
        /\ body = Obj(ExecBody(v.object))
    BY <1>0, <1>1 DEF Validator, RequestSchema, Body
  <2>. QED
    BY <1>1, <2>1, ExecSent DEF EmptyCommand
<1>2. CASE called = "agentSessions.createTerminalConnection"
  <2>1. /\ Validator[called] = createTerminalConnection
        /\ RequestSchema[called] = TerminalConnectionCreate
        /\ body = Obj(TerminalBody(v.object))
    BY <1>0, <1>2 DEF Validator, RequestSchema, Body
  <2>. QED
    BY <2>1, TerminalSent
<1>3. CASE called = "workspaces.sync.negotiate"
  <2>1. /\ Validator[called] = manifestBody
        /\ RequestSchema[called] = WorkspaceSyncManifestPage
        /\ body = Obj([Sent(v.object) EXCEPT !.entries = EachElement(@, SentEntry)])
    BY <1>0, <1>3 DEF Validator, RequestSchema, Body
  <2>. QED
    BY <2>1, ManifestSent
<1>4. CASE called \notin {"sessions.exec", "agentSessions.createTerminalConnection",
                          "workspaces.sync.negotiate"}
  <2>1. body = Obj(Sent(v.object))
    BY <1>4 DEF Body
  <2>2. Carries8(Validator[called], RequestSchema[called])
    <3>1. CASE called = "sessions.create"
      BY <1>0, <3>1, CreateSent DEF Validator, RequestSchema
    <3>2. CASE called = "sessions.checkpoint"
      BY <1>0, <3>2, NameSent DEF Validator, RequestSchema
    <3>3. CASE called = "agentSessions.create"
      BY <1>0, <3>3, AgentSessionSent DEF Validator, RequestSchema
    <3>4. CASE called = "agentSessions.rename"
      BY <1>0, <3>4, NameSent DEF Validator, RequestSchema
    <3>5. CASE called = "workspaceBindings.create"
      BY <1>0, <3>5, BindingSent DEF Validator, RequestSchema
    <3>6. CASE called = "workspaces.sync.begin"
      BY <1>0, <3>6, BeginSent DEF Validator, RequestSchema
    <3>7. CASE called = "workspaces.sync.commit"
      BY <1>0, <3>7, CommitSent DEF Validator, RequestSchema
    <3>8. CASE called = "workspaces.sync.reconcile"
      BY <1>0, <3>8, ReconcileSent DEF Validator, RequestSchema
    <3>. QED
      BY <1>4, <3>1, <3>2, <3>3, <3>4, <3>5, <3>6, <3>7, <3>8, Bodies
  <2>. QED
    BY <2>1, <2>2, Sent8
<1>. QED
  BY <1>1, <1>2, <1>3, <1>4

(* What is sent was accepted by its method and by prepare.                 *)
Admitted ==
  /\ op \in Called /\ verdict # "unprepared"
  /\ phase = "sent" /\ op \in DOMAIN Validator => Fits(Validator[op], message)

LEMMA AdmittedInvariant == Spec => []Admitted
<1>1. Init => Admitted
  BY DEF Init, Admitted, Parts
<1>2. ASSUME Admitted, Decoded, [Next]_vars PROVE Admitted'
  <2> USE <1>2 DEF Admitted
  <2>1. CASE Call
    <3>1. Prepared(op, Parts[op])
      BY CallsArePrepared
    <3>2. /\ op' = op /\ message' = message /\ verdict' # "unprepared"
          /\ phase' = "sent" /\ op \in DOMAIN Validator => Fits(Validator[op], message)
      BY <2>1, <3>1 DEF Call
    <3>. QED
      BY <3>2
  <2>2. CASE Alter
    <3>1. phase' \in {"called", "answered"} /\ UNCHANGED <<op, verdict>>
      BY <2>2 DEF Alter
    <3>. QED
      BY <3>1
  <2>3. CASE AlterHeaders
    <3>1. phase' = "answered" /\ UNCHANGED <<op, verdict>>
      BY <2>3 DEF AlterHeaders
    <3>. QED
      BY <3>1
  <2>4. CASE Answer
    <3>1. phase' = "answered" /\ UNCHANGED <<op, verdict>>
      BY <2>4 DEF Answer
    <3>. QED
      BY <3>1
  <2>5. CASE Receive
    <3>1. verdict' = Disposition /\ phase' = "done" /\ op' = op
      BY <2>5 DEF Receive
    <3>2. Disposition # "unprepared"
      BY DEF Disposition, ProblemFailure, Decoded, Statuses
    <3>. QED
      BY <3>1, <3>2
  <2>6. CASE UNCHANGED vars
    BY <2>6 DEF vars
  <2>. QED
    BY <2>1, <2>2, <2>3, <2>4, <2>5, <2>6 DEF Next
<1>. QED
  BY <1>1, <1>2, DecodedInvariant, PTL DEF Spec

(* Whatever the program passes to a method: if the method accepts it, the  *)
(* call has the parts prepare demands and its body fits the schema of the  *)
(* operation, member by member and in every length; but for an argument    *)
(* vector whose first word is empty.                                       *)
THEOREM AcceptedArgumentsAreSent == Spec => []AcceptedIsSendable
<1>1. Admitted => AcceptedIsSendable
  <2> SUFFICES ASSUME Admitted, phase = "sent", op \in DOMAIN RequestSchema
               PROVE  LET body == Body(op, message.object)
                      IN \/ Fits(RequestSchema[op], body)
                         \/ op = "sessions.exec" /\ ~IsString(message.object.command)
                            /\ Is("form", body.object.command) /\ body.object.command.len = 0
    BY DEF Admitted, AcceptedIsSendable
  <2>1. op \in WithBody /\ op \in DOMAIN Validator
    BY DEF RequestSchema, Validator, WithArguments
  <2>2. Fits(Validator[op], message)
    BY <2>1 DEF Admitted
  <2>. QED
    BY <2>1, <2>2, BodyFits DEF EmptyCommand
<1>. QED
  BY <1>1, AdmittedInvariant, PTL

----------------------------------------------------------------------------
(* The text policy: arithmetic of words *)

\* Equal as words.
Congruent(a, b) == \E k \in Int : a - b = k * Modulus

LEMMA CongruentReflexive ==
  ASSUME NEW a \in Int
  PROVE  Congruent(a, a)
<1>1. a - a = 0 * Modulus
  BY PolicyAssumption
<1>2. QED
  BY <1>1 DEF Congruent

LEMMA CongruentSymmetric ==
  ASSUME NEW a \in Int, NEW b \in Int, Congruent(a, b)
  PROVE  Congruent(b, a)
<1>1. PICK k \in Int : a - b = k * Modulus
  BY DEF Congruent
<1>2. b - a = (-k) * Modulus
  BY <1>1, PolicyAssumption
<1>3. QED
  BY <1>2 DEF Congruent

LEMMA CongruentTransitive ==
  ASSUME NEW a \in Int, NEW b \in Int, NEW c \in Int,
         Congruent(a, b), Congruent(b, c)
  PROVE  Congruent(a, c)
<1>1. PICK k \in Int : a - b = k * Modulus
  BY DEF Congruent
<1>2. PICK l \in Int : b - c = l * Modulus
  BY DEF Congruent
<1>3. a - c = (k + l) * Modulus
  BY <1>1, <1>2, PolicyAssumption
<1>4. QED
  BY <1>3 DEF Congruent

LEMMA CongruentSum ==
  ASSUME NEW a \in Int, NEW b \in Int, NEW c \in Int, NEW d \in Int,
         Congruent(a, b), Congruent(c, d)
  PROVE  Congruent(a + c, b + d) /\ Congruent(a - c, b - d)
<1>1. PICK k \in Int : a - b = k * Modulus
  BY DEF Congruent
<1>2. PICK l \in Int : c - d = l * Modulus
  BY DEF Congruent
<1>3. (a + c) - (b + d) = (k + l) * Modulus
  BY <1>1, <1>2, PolicyAssumption
<1>4. (a - c) - (b - d) = (k - l) * Modulus
  BY <1>1, <1>2, PolicyAssumption
<1>5. QED
  BY <1>3, <1>4 DEF Congruent

LEMMA CongruentProduct ==
  ASSUME NEW a \in Int, NEW b \in Int, NEW c \in Int, Congruent(a, b)
  PROVE  Congruent(a * c, b * c)
<1>1. PICK k \in Int : a - b = k * Modulus
  BY DEF Congruent
<1>2. a * c - b * c = (a - b) * c
  OBVIOUS
<1>3. (k * Modulus) * c = (k * c) * Modulus /\ k * c \in Int
  BY PolicyAssumption
<1>4. QED
  BY <1>1, <1>2, <1>3 DEF Congruent

\* Congruent words are equal.
LEMMA CongruentWords ==
  ASSUME NEW a \in 0..(Modulus - 1), NEW b \in 0..(Modulus - 1), Congruent(a, b)
  PROVE  a = b
<1>1. PICK k \in Int : a - b = k * Modulus
  BY DEF Congruent
<1>2. k < 1 /\ k > -1
  BY <1>1, PolicyAssumption
<1>3. QED
  BY <1>1, <1>2, PolicyAssumption

LEMMA UnsignedWord ==
  ASSUME NEW x \in Int
  PROVE  Unsigned(x) \in 0..(Modulus - 1) /\ Congruent(Unsigned(x), x)
<1>1. /\ x % Modulus \in 0..(Modulus - 1)
      /\ x = (x \div Modulus) * Modulus + (x % Modulus)
      /\ x \div Modulus \in Int
  BY PolicyAssumption
<1>2. (x % Modulus) - x = (-(x \div Modulus)) * Modulus
  BY <1>1, PolicyAssumption
<1>3. QED
  BY <1>1, <1>2 DEF Unsigned, Congruent

LEMMA ImulWord ==
  ASSUME NEW a \in Int, NEW b \in Int
  PROVE  Imul(a, b) \in Int /\ Congruent(Imul(a, b), a * b)
<1> DEFINE product == Unsigned(a * b)
<1>1. product \in 0..(Modulus - 1) /\ product \in Int /\ Congruent(product, a * b)
  BY UnsignedWord, PolicyAssumption
<1>2. Imul(a, b) = product \/ Imul(a, b) = product - Modulus
  BY DEF Imul
<1> HIDE DEF product
<1>3. Congruent(product - Modulus, product) /\ product - Modulus \in Int
  <2>1. (product - Modulus) - product = (-1) * Modulus
    BY <1>1, PolicyAssumption
  <2>2. QED
    BY <1>1, <2>1, PolicyAssumption DEF Congruent
<1>4. Congruent(product - Modulus, a * b)
  BY <1>1, <1>3, CongruentTransitive
<1>5. QED
  BY <1>1, <1>2, <1>3, <1>4

----------------------------------------------------------------------------
(* The text policy: the hashes *)

LEMMA UnitAtType ==
  ASSUME NEW s \in Seq(Int), NEW i \in Int
  PROVE  UnitAt(s, i) \in Int
BY DEF UnitAt, NotANumber

\* One more unit of a window, and what it adds to the hash.
MoreHash(hash, unit) == Unsigned(Imul(hash, BASE) + unit)

LEMMA MoreHashWord ==
  ASSUME NEW hash \in Int, NEW unit \in Int
  PROVE  /\ MoreHash(hash, unit) \in 0..(Modulus - 1)
         /\ Congruent(MoreHash(hash, unit), hash * BASE + unit)
<1>1. Imul(hash, BASE) \in Int /\ Congruent(Imul(hash, BASE), hash * BASE)
  BY ImulWord, PolicyAssumption
<1>2. Congruent(Imul(hash, BASE) + unit, hash * BASE + unit)
  BY <1>1, CongruentReflexive, CongruentSum, PolicyAssumption
<1>3. /\ MoreHash(hash, unit) \in 0..(Modulus - 1)
      /\ Congruent(MoreHash(hash, unit), Imul(hash, BASE) + unit)
  BY <1>1, UnsignedWord DEF MoreHash
<1>4. MoreHash(hash, unit) \in Int /\ hash * BASE + unit \in Int
  BY <1>3, PolicyAssumption
<1>5. QED
  BY <1>1, <1>2, <1>3, <1>4, CongruentTransitive

\* Congruent hashes stay together.
LEMMA MoreHashCongruent ==
  ASSUME NEW a \in Int, NEW b \in Int, NEW unit \in Int, Congruent(a, b)
  PROVE  MoreHash(a, unit) = MoreHash(b, unit)
<1>1. /\ MoreHash(a, unit) \in 0..(Modulus - 1)
      /\ MoreHash(b, unit) \in 0..(Modulus - 1)
      /\ Congruent(MoreHash(a, unit), a * BASE + unit)
      /\ Congruent(MoreHash(b, unit), b * BASE + unit)
  BY MoreHashWord
<1>2. /\ a * BASE \in Int /\ b * BASE \in Int
      /\ 0..(Modulus - 1) \subseteq Int
  BY PolicyAssumption
<1>3. a * BASE + unit \in Int /\ b * BASE + unit \in Int
  BY <1>2
<1>4. Congruent(a * BASE, b * BASE)
  BY CongruentProduct, PolicyAssumption
<1>5. Congruent(a * BASE + unit, b * BASE + unit)
  BY <1>2, <1>4, CongruentReflexive, CongruentSum
<1>6. Congruent(b * BASE + unit, MoreHash(b, unit))
  BY <1>1, <1>2, <1>3, CongruentSymmetric
<1>7. Congruent(MoreHash(a, unit), b * BASE + unit)
  BY <1>1, <1>2, <1>3, <1>5, CongruentTransitive
<1>8. Congruent(MoreHash(a, unit), MoreHash(b, unit))
  BY <1>1, <1>2, <1>3, <1>6, <1>7, CongruentTransitive
<1>9. QED
  BY <1>1, <1>8, CongruentWords

LEMMA PrefixHashEquations ==
  ASSUME NEW s \in Seq(Int), NEW start \in Int
  PROVE  /\ PrefixHash(s, start)[0] = 0
         /\ \A n \in Nat : PrefixHash(s, start)[n + 1] =
                             MoreHash(PrefixHash(s, start)[n], UnitAt(s, start + n))
         /\ \A n \in Nat : PrefixHash(s, start)[n] \in 0..(Modulus - 1)
<1> DEFINE Equation(h) ==
             h = [n \in Nat |->
                    IF n = 0 THEN 0
                    ELSE Unsigned(Imul(h[n - 1], BASE) + UnitAt(s, start + n - 1))]
           step == [n \in Nat |-> [x \in 0..(Modulus - 1) |-> MoreHash(x, UnitAt(s,
           start + n))]]
           hash == PrefixHash(s, start)
           Residues == 0..(Modulus - 1)
<1>1. \A n \in Nat : UnitAt(s, start + n) \in Int
  BY UnitAtType
<1>2. 0 \in 0..(Modulus - 1) /\ 0..(Modulus - 1) \subseteq Int
  BY PolicyAssumption
<1>3. step \in [Nat -> [0..(Modulus - 1) -> 0..(Modulus - 1)]]
  BY <1>1, <1>2, MoreHashWord
<1>4. PICK f \in [Nat -> 0..(Modulus - 1)] :
         f[0] = 0 /\ \A n \in Nat : f[n + 1] = step[n][f[n]]
  <2>1. 0 \in Residues /\ step \in Steps(Residues)
    BY <1>2, <1>3 DEF Steps
  <2> HIDE DEF step, Residues
  <2>2. \E f : Follows(f, Residues, 0, step)
    BY <2>1, RecursionExists
  <2>3. QED
    BY <2>2 DEF Follows, Residues
<1>5. \A n \in Nat : f[n + 1] = MoreHash(f[n], UnitAt(s, start + n))
  BY <1>4
<1>6. ASSUME NEW n \in Nat
      PROVE  f[n] = IF n = 0 THEN 0
                    ELSE Unsigned(Imul(f[n - 1], BASE) + UnitAt(s, start + n - 1))
  <2>1. CASE n = 0
    BY <1>4, <2>1
  <2>2. CASE n # 0
    <3>1. n - 1 \in Nat /\ (n - 1) + 1 = n /\ start + (n - 1) = start + n - 1
      BY <2>2
    <3>2. f[(n - 1) + 1] = MoreHash(f[n - 1], UnitAt(s, start + (n - 1)))
      BY <1>5, <3>1
    <3>3. QED
      BY <2>2, <3>1, <3>2 DEF MoreHash
  <2>3. QED
    BY <2>1, <2>2
<1>7. Equation(f)
  BY <1>4, <1>6
<1>8. hash = CHOOSE h : Equation(h)
  BY DEF PrefixHash
<1>9. Equation(hash)
  <2> HIDE DEF Equation, hash
  <2> QED  BY <1>7, <1>8
<1> HIDE DEF hash
<1>10. hash[0] = 0
  BY <1>9
<1>11. ASSUME NEW n \in Nat
       PROVE  hash[n + 1] = MoreHash(hash[n], UnitAt(s, start + n))
  <2>1. n + 1 \in Nat /\ n + 1 # 0 /\ (n + 1) - 1 = n /\ start + (n + 1) - 1 = start + n
    OBVIOUS
  <2>2. hash[n + 1] = Unsigned(Imul(hash[(n + 1) - 1], BASE) + UnitAt(s, start + (n + 1) - 1))
    BY <1>9, <2>1
  <2>3. QED
    BY <2>1, <2>2 DEF MoreHash
<1>12. \A n \in Nat : hash[n] \in 0..(Modulus - 1)
  <2> DEFINE Hashed == {n \in Nat : hash[n] \in 0..(Modulus - 1)}
  <2>1. 0 \in Hashed
    BY <1>2, <1>10
  <2>2. ASSUME NEW n \in Nat, n \in Hashed PROVE n + 1 \in Hashed
    <3>1. hash[n] \in Int /\ UnitAt(s, start + n) \in Int
      BY <1>1, <1>2, <2>2
    <3>2. MoreHash(hash[n], UnitAt(s, start + n)) \in 0..(Modulus - 1)
      BY <3>1, MoreHashWord
    <3>3. hash[n + 1] = MoreHash(hash[n], UnitAt(s, start + n))
      BY <1>11
    <3>4. hash[n + 1] \in 0..(Modulus - 1)
      BY <3>2, <3>3
    <3>5. n + 1 \in Nat
      OBVIOUS
    <3>6. QED
      BY <3>4, <3>5
  <2>3. \A n \in Nat : n \in Hashed
    <3> HIDE DEF Hashed
    <3> QED  BY <2>1, <2>2, Induction
  <2>4. QED
    BY <2>3
<1>13. QED
  BY <1>10, <1>11, <1>12 DEF hash

LEMMA PolynomialWord ==
  ASSUME NEW s \in Seq(Int), NEW start \in Int, NEW n \in Nat
  PROVE  /\ polynomial(s, start, n) \in 0..(Modulus - 1)
         /\ polynomial(s, start, n) \in Int
<1>1. polynomial(s, start, n) \in 0..(Modulus - 1)
  BY PrefixHashEquations DEF polynomial
<1>2. 0..(Modulus - 1) \subseteq Int
  BY PolicyAssumption
<1>3. QED
  BY <1>1, <1>2

LEMMA PowerEquations ==
  /\ power[0] = 1
  /\ \A n \in Nat : /\ power[n] \in Int
                    /\ power[n + 1] = Unsigned(Imul(power[n], BASE))
                    /\ Congruent(power[n + 1], power[n] * BASE)
<1> DEFINE Equation(h) ==
             h = [n \in Nat |-> IF n = 0 THEN 1 ELSE Unsigned(Imul(h[n - 1], BASE))]
           step == [n \in Nat |-> [x \in Int |-> Unsigned(Imul(x, BASE))]]
<1>1. ASSUME NEW x \in Int
      PROVE  /\ Unsigned(Imul(x, BASE)) \in Int
             /\ Congruent(Unsigned(Imul(x, BASE)), x * BASE)
  <2>1. Imul(x, BASE) \in Int /\ Congruent(Imul(x, BASE), x * BASE) /\ x * BASE \in Int
    BY ImulWord, PolicyAssumption
  <2>2. /\ Unsigned(Imul(x, BASE)) \in 0..(Modulus - 1)
        /\ Congruent(Unsigned(Imul(x, BASE)), Imul(x, BASE))
    BY <2>1, UnsignedWord
  <2>3. Unsigned(Imul(x, BASE)) \in Int
    BY <2>2, PolicyAssumption
  <2>4. QED
    BY <2>1, <2>2, <2>3, CongruentTransitive
<1>2. 1 \in Int /\ step \in Steps(Int)
  BY <1>1 DEF Steps
<1>3. PICK f : Follows(f, Int, 1, step)
  <2> HIDE DEF step
  <2> QED  BY <1>2, RecursionExists
<1>4. /\ f \in [Nat -> Int] /\ f[0] = 1
      /\ \A n \in Nat : f[n + 1] = Unsigned(Imul(f[n], BASE))
  BY <1>3 DEF Follows
<1>5. ASSUME NEW n \in Nat
      PROVE  f[n] = IF n = 0 THEN 1 ELSE Unsigned(Imul(f[n - 1], BASE))
  <2>1. n # 0 => n - 1 \in Nat /\ (n - 1) + 1 = n
    OBVIOUS
  <2>2. n # 0 => f[(n - 1) + 1] = Unsigned(Imul(f[n - 1], BASE))
    BY <1>4, <2>1
  <2>3. QED
    BY <1>4, <2>1, <2>2
<1>6. Equation(f)
  BY <1>4, <1>5
<1>7. power = CHOOSE h : Equation(h)
  BY DEF power
<1>8. Equation(power)
  <2> HIDE DEF Equation
  <2> QED  BY <1>6, <1>7
<1>9. power[0] = 1
  BY <1>8
<1>10. ASSUME NEW n \in Nat PROVE power[n + 1] = Unsigned(Imul(power[n], BASE))
  <2>1. n + 1 \in Nat /\ n + 1 # 0 /\ (n + 1) - 1 = n
    OBVIOUS
  <2>2. power[n + 1] = Unsigned(Imul(power[(n + 1) - 1], BASE))
    BY <1>8, <2>1
  <2>3. QED
    BY <2>1, <2>2
<1>11. \A n \in Nat : power[n] \in Int
  <2> DEFINE Typed == {n \in Nat : power[n] \in Int}
  <2>1. 0 \in Typed
    BY <1>9
  <2>2. ASSUME NEW n \in Nat, n \in Typed PROVE n + 1 \in Typed
    <3>1. power[n] \in Int
      BY <2>2
    <3>2. power[n + 1] \in Int
      BY <1>1, <1>10, <3>1
    <3>3. n + 1 \in Nat
      OBVIOUS
    <3>4. QED
      BY <3>2, <3>3
  <2>3. \A n \in Nat : n \in Typed
    <3> HIDE DEF Typed
    <3> QED  BY <2>1, <2>2, Induction
  <2>4. QED
    BY <2>3
<1>12. ASSUME NEW n \in Nat PROVE Congruent(power[n + 1], power[n] * BASE)
  <2>1. power[n] \in Int
    BY <1>11
  <2>2. QED
    BY <1>1, <1>10, <2>1
<1>13. QED
  BY <1>9, <1>10, <1>11, <1>12

\* The first unit of a window counts as often as the power of its length says:
\* the rest of the window has the hash of the window without it.
LEMMA FirstUnitCounts ==
  ASSUME NEW s \in Seq(Int), NEW start \in Int, NEW n \in Nat
  PROVE  Congruent(polynomial(s, start, n + 1),
                   polynomial(s, start + 1, n) + UnitAt(s, start) * power[n])
<1> DEFINE hash == PrefixHash(s, start)
           rest == PrefixHash(s, start + 1)
           unit == UnitAt(s, start)
           Stripped == {m \in Nat : Congruent(hash[m + 1], rest[m] + unit * power[m])}
<1>1. unit \in Int /\ start + 1 \in Int
  BY UnitAtType
<1>2. /\ hash[0] = 0 /\ rest[0] = 0
      /\ \A m \in Nat : hash[m] \in 0..(Modulus - 1) /\ rest[m] \in 0..(Modulus - 1)
      /\ \A m \in Nat : hash[m + 1] = MoreHash(hash[m], UnitAt(s, start + m))
      /\ \A m \in Nat : rest[m + 1] = MoreHash(rest[m], UnitAt(s, start + 1 + m))
  BY <1>1, PrefixHashEquations
<1> HIDE DEF hash, rest, unit
<1>3. \A m \in Nat : hash[m] \in Int /\ rest[m] \in Int
  <2>1. 0..(Modulus - 1) \subseteq Int
    BY PolicyAssumption
  <2>2. QED
    BY <1>2, <2>1
<1>4. 0 \in Stripped
  <2> DEFINE zero == 0
  <2>1. zero \in Nat /\ start + zero = start
    OBVIOUS
  <2>2. hash[zero] = 0 /\ rest[zero] = 0 /\ power[zero] = 1
    BY <1>2, PowerEquations
  <2> HIDE DEF zero
  <2>3. hash[zero + 1] = MoreHash(0, unit)
    BY <1>2, <2>1, <2>2 DEF unit
  <2>4. Congruent(hash[zero + 1], 0 * BASE + unit)
    BY <1>1, <2>3, MoreHashWord
  <2>5. rest[zero] + unit * power[zero] = 0 * BASE + unit
    BY <1>1, <2>2, PolicyAssumption
  <2>6. zero \in Stripped
    BY <2>1, <2>4, <2>5
  <2>7. QED
    BY <2>6 DEF zero
<1>5. ASSUME NEW m \in Nat, m \in Stripped PROVE m + 1 \in Stripped
  <2> DEFINE incoming == UnitAt(s, start + 1 + m)
             before == rest[m] + unit * power[m]
  <2>1. incoming \in Int /\ m + 1 \in Nat /\ start + (m + 1) = start + 1 + m
    BY UnitAtType
  <2>2. /\ hash[m + 1] \in Int /\ hash[(m + 1) + 1] \in Int
        /\ rest[m] \in Int /\ rest[m + 1] \in Int
        /\ power[m] \in Int /\ power[m + 1] \in Int
    <3>1. m + 1 \in Nat /\ (m + 1) + 1 \in Nat
      OBVIOUS
    <3>2. power[m] \in Int /\ power[m + 1] \in Int
      BY <3>1, PowerEquations
    <3>3. QED
      BY <1>3, <3>1, <3>2
  <2>3. before \in Int /\ Congruent(hash[m + 1], before)
    BY <1>1, <1>5, <2>2
  <2>4. Congruent(hash[(m + 1) + 1], hash[m + 1] * BASE + incoming)
    BY <1>2, <2>1, <2>2, MoreHashWord
  <2>5. Congruent(rest[m + 1], rest[m] * BASE + incoming)
    BY <1>2, <2>1, <2>2, MoreHashWord
  <2>6. Congruent(power[m + 1], power[m] * BASE)
    BY PowerEquations
  <2> HIDE DEF incoming
  <2>7. Congruent(hash[m + 1] * BASE + incoming, before * BASE + incoming)
    <3> HIDE DEF before
    <3>1. hash[m + 1] * BASE \in Int /\ before * BASE \in Int
      BY <2>2, <2>3, PolicyAssumption
    <3>2. Congruent(hash[m + 1] * BASE, before * BASE)
      BY <2>2, <2>3, CongruentProduct, PolicyAssumption
    <3>3. QED
      BY <2>1, <3>1, <3>2, CongruentReflexive, CongruentSum
  <2>8. Congruent(rest[m] * BASE + incoming, rest[m + 1])
    BY <2>1, <2>2, <2>5, CongruentSymmetric, PolicyAssumption
  <2>0. /\ power[m] * BASE \in Int /\ rest[m] * BASE \in Int
        /\ hash[m + 1] * BASE \in Int /\ before * BASE \in Int
        /\ unit * power[m + 1] \in Int /\ power[m + 1] * unit \in Int
    <3> HIDE DEF before
    <3>1. BASE \in Int /\ \A a, b \in Int : a * b \in Int
      BY PolicyAssumption
    <3>2. QED
      BY <1>1, <2>2, <2>3, <3>1
  <2>9. Congruent((power[m] * BASE) * unit, power[m + 1] * unit)
    BY <1>1, <2>0, <2>2, <2>6, CongruentSymmetric, CongruentProduct
  <2>10. /\ rest[m] * BASE + incoming \in Int
         /\ (power[m] * BASE) * unit \in Int
         /\ power[m + 1] * unit \in Int
    BY <1>1, <2>0, <2>1
  <2>11. Congruent(rest[m] * BASE + incoming + (power[m] * BASE) * unit,
                   rest[m + 1] + power[m + 1] * unit)
    BY <2>2, <2>8, <2>9, <2>10, CongruentSum
  <2>12. before * BASE + incoming
           = rest[m] * BASE + incoming + (power[m] * BASE) * unit
    <3>1. \A a, p, u, b, i \in Int : (a + u * p) * b + i = a * b + i + (p * b) * u
      OBVIOUS
    <3>2. rest[m] \in Int /\ power[m] \in Int /\ BASE \in Int
      BY <2>2, PolicyAssumption
    <3>3. QED
      BY <1>1, <2>1, <3>1, <3>2
  <2>13. power[m + 1] * unit = unit * power[m + 1]
    BY <1>1, <2>2
  <2>14. Congruent(before * BASE + incoming, rest[m + 1] + unit * power[m + 1])
    BY <2>11, <2>12, <2>13
  <2>15. /\ hash[m + 1] * BASE + incoming \in Int
         /\ before * BASE + incoming \in Int
         /\ rest[m + 1] + unit * power[m + 1] \in Int
    <3> HIDE DEF before
    <3>1. \A a, b \in Int : a + b \in Int
      OBVIOUS
    <3>2. QED
      BY <2>0, <2>1, <2>2, <3>1
  <2>16. Congruent(hash[(m + 1) + 1], before * BASE + incoming)
    BY <2>2, <2>4, <2>7, <2>15, CongruentTransitive
  <2>17. Congruent(hash[(m + 1) + 1], rest[m + 1] + unit * power[m + 1])
    BY <2>2, <2>14, <2>15, <2>16, CongruentTransitive
  <2>18. QED
    BY <2>1, <2>17
<1>6. \A m \in Nat : m \in Stripped
  <2> HIDE DEF Stripped
  <2> QED  BY <1>4, <1>5, Induction
<1>7. Congruent(hash[n + 1], rest[n] + unit * power[n])
  BY <1>6
<1>8. QED
  BY <1>7 DEF hash, rest, unit, polynomial

\* One move of the window: the outgoing unit is taken out, the next comes in.
Moved(hash, outgoing, incoming, length) ==
  MoreHash(Unsigned(hash - Imul(outgoing, power[length - 1])), incoming)

LEMMA RollingEquations ==
  ASSUME NEW s \in Seq(Int), NEW length \in Nat \ {0}
  PROVE  /\ Rolling(s, length)[0] = polynomial(s, 1, length)
         /\ \A n \in Nat : Rolling(s, length)[n + 1] =
              Moved(Rolling(s, length)[n], UnitAt(s, n + 1), UnitAt(s, n + 1 + length), length)
<1> DEFINE First == polynomial(s, 1, length)
           Successor(x, n) == Moved(x, UnitAt(s, n + 1), UnitAt(s, n + 1 + length), length)
           Equation(h) ==
             h = [n \in Nat |->
                    IF n = 0 THEN polynomial(s, 1, length)
                    ELSE Unsigned(Imul(Unsigned(h[n - 1]
                                         - Imul(UnitAt(s, n), power[length - 1])), BASE)
                                  + UnitAt(s, n + length))]
           step == [n \in Nat |-> [x \in Int |-> Successor(x, n)]]
           hash == Rolling(s, length)
<1>1. 0..(Modulus - 1) \subseteq Int /\ length - 1 \in Nat
  BY PolicyAssumption
<1>2. First \in Int
  BY PolynomialWord
<1>3. ASSUME NEW x \in Int, NEW n \in Nat PROVE Successor(x, n) \in Int
  <2> DEFINE outgoing == UnitAt(s, n + 1)
             incoming == UnitAt(s, n + 1 + length)
             taken == Imul(outgoing, power[length - 1])
  <2>1. outgoing \in Int /\ incoming \in Int
    BY UnitAtType
  <2>2. taken \in Int
    BY <1>1, <2>1, PowerEquations, ImulWord
  <2> HIDE DEF outgoing, incoming, taken
  <2>3. x - taken \in Int
    BY <2>2
  <2>4. Unsigned(x - taken) \in Int
    BY <1>1, <2>3, UnsignedWord
  <2>5. MoreHash(Unsigned(x - taken), incoming) \in Int
    BY <1>1, <2>1, <2>4, MoreHashWord
  <2>6. QED
    BY <2>5 DEF Moved, outgoing, incoming, taken
<1> HIDE DEF First
<1>4. step \in Steps(Int)
  <2> HIDE DEF Successor
  <2> QED  BY <1>3 DEF Steps
<1>5. PICK f : Follows(f, Int, First, step)
  <2> HIDE DEF step
  <2> QED  BY <1>2, <1>4, RecursionExists
<1>6. /\ f \in [Nat -> Int] /\ f[0] = First
      /\ \A n \in Nat : f[n + 1] = Successor(f[n], n)
  <2> HIDE DEF Successor
  <2> QED  BY <1>5 DEF Follows
<1>7. ASSUME NEW n \in Nat
      PROVE  f[n] = IF n = 0 THEN polynomial(s, 1, length)
                    ELSE Unsigned(Imul(Unsigned(f[n - 1]
                                         - Imul(UnitAt(s, n), power[length - 1])), BASE)
                                  + UnitAt(s, n + length))
  <2>1. CASE n = 0
    BY <1>6, <2>1 DEF First
  <2>2. CASE n # 0
    <3>1. n - 1 \in Nat /\ (n - 1) + 1 = n
      BY <2>2
    <3>2. f[(n - 1) + 1] = Successor(f[n - 1], n - 1)
      BY <1>6, <3>1
    <3>3. f[n] = Moved(f[n - 1], UnitAt(s, n), UnitAt(s, n + length), length)
      BY <3>1, <3>2
    <3>4. QED
      BY <2>2, <3>3 DEF Moved, MoreHash
  <2>3. QED
    BY <2>1, <2>2
<1>8. Equation(f)
  BY <1>6, <1>7
<1>9. hash = CHOOSE h : Equation(h)
  BY DEF Rolling
<1>10. Equation(hash)
  <2> HIDE DEF Equation, hash
  <2> QED  BY <1>8, <1>9
<1> HIDE DEF hash
<1>11. hash[0] = polynomial(s, 1, length)
  BY <1>10
<1>12. ASSUME NEW n \in Nat PROVE hash[n + 1] = Successor(hash[n], n)
  <2> DEFINE m == n + 1
  <2>1. m \in Nat /\ m # 0 /\ m - 1 = n
    OBVIOUS
  <2> HIDE DEF m
  <2>2. hash[m] = Unsigned(Imul(Unsigned(hash[m - 1]
                                   - Imul(UnitAt(s, m), power[length - 1])), BASE)
                           + UnitAt(s, m + length))
    BY <1>10, <2>1
  <2>3. hash[m] = Moved(hash[n], UnitAt(s, m), UnitAt(s, m + length), length)
    BY <2>1, <2>2 DEF Moved, MoreHash
  <2>4. QED
    BY <2>3 DEF m
<1>13. QED
  BY <1>11, <1>12 DEF hash

(* However far the window has rolled, the hash is the one of the window,   *)
(* as if it had been computed afresh (boundary-policy.ts 106-119): the     *)
(* unsigned words and the signed products of Math.imul lose nothing.       *)
THEOREM RollingIsPolynomial ==
  ASSUME NEW s \in Seq(Int), NEW length \in Nat \ {0}
  PROVE  \A moved \in Nat :
           Rolling(s, length)[moved] = polynomial(s, moved + 1, length)
<1> DEFINE hash == Rolling(s, length)
           Rolled == {n \in Nat : hash[n] = polynomial(s, n + 1, length)}
<1>1. 0..(Modulus - 1) \subseteq Int /\ length - 1 \in Nat
  BY PolicyAssumption
<1>2. 0 \in Rolled
  BY RollingEquations
<1>3. ASSUME NEW n \in Nat, n \in Rolled PROVE n + 1 \in Rolled
  <2> DEFINE start == n + 1
             outgoing == UnitAt(s, start)
             incoming == UnitAt(s, start + length)
             rest == polynomial(s, start + 1, length - 1)
             taken == Imul(outgoing, power[length - 1])
  <2>1. /\ start \in Nat /\ start + 1 \in Int
        /\ (length - 1) + 1 = length
        /\ (start + 1) + (length - 1) = start + length
    BY <1>1
  <2>2. hash[n] = polynomial(s, start, length)
    BY <1>3
  <2>3. hash[start] = Moved(hash[n], outgoing, incoming, length)
    BY RollingEquations
  <2> HIDE DEF hash, start
  <2>4. outgoing \in Int /\ incoming \in Int /\ power[length - 1] \in Int
    <3>1. start \in Int /\ start + length \in Int
      BY <2>1
    <3>2. QED
      BY <1>1, <3>1, UnitAtType, PowerEquations
  <2>5. /\ rest \in Int /\ hash[n] \in Int
        /\ polynomial(s, start + 1, length) \in 0..(Modulus - 1)
    BY <1>1, <2>1, <2>2, PolynomialWord
  <2>6. Congruent(polynomial(s, start, (length - 1) + 1),
                  rest + outgoing * power[length - 1])
    BY <1>1, <2>1, FirstUnitCounts
  <2>7. taken \in Int /\ Congruent(taken, outgoing * power[length - 1])
    BY <2>4, ImulWord
  <2>8. polynomial(s, start + 1, (length - 1) + 1)
          = MoreHash(rest, UnitAt(s, (start + 1) + (length - 1)))
    BY <1>1, <2>1, PrefixHashEquations DEF polynomial
  <2> HIDE DEF outgoing, incoming, rest, taken
  <2>9. Congruent(hash[n], rest + outgoing * power[length - 1])
    BY <2>1, <2>2, <2>6
  <2>10. outgoing * power[length - 1] \in Int
    BY <2>4
  <2>11. Congruent(hash[n] - taken, rest)
    <3> DEFINE product == outgoing * power[length - 1]
    <3>1. product \in Int
      BY <2>10
    <3>2. Congruent(hash[n], rest + product) /\ Congruent(taken, product)
      BY <2>7, <2>9
    <3> HIDE DEF product
    <3>3. rest + product \in Int /\ (rest + product) - product = rest
      BY <2>5, <3>1
    <3>4. Congruent(hash[n] - taken, (rest + product) - product)
      BY <2>5, <2>7, <3>1, <3>2, <3>3, CongruentSum
    <3>5. QED
      BY <3>3, <3>4
  <2> DEFINE stripped == Unsigned(hash[n] - taken)
  <2>12. hash[n] - taken \in Int
    BY <2>5, <2>7
  <2>13. stripped \in 0..(Modulus - 1) /\ Congruent(stripped, hash[n] - taken)
    BY <2>12, UnsignedWord
  <2>14. hash[start] = MoreHash(stripped, incoming)
    BY <2>3 DEF Moved, taken
  <2> HIDE DEF stripped
  <2>15. stripped \in Int /\ Congruent(stripped, rest)
    BY <1>1, <2>5, <2>11, <2>12, <2>13, CongruentTransitive
  <2>16. MoreHash(stripped, incoming) = MoreHash(rest, incoming)
    BY <2>4, <2>5, <2>15, MoreHashCongruent
  <2>17. polynomial(s, start + 1, length) = MoreHash(rest, incoming)
    BY <2>1, <2>8 DEF incoming
  <2>18. hash[start] = polynomial(s, start + 1, length)
    BY <2>14, <2>16, <2>17
  <2>19. start \in Rolled
    BY <2>1, <2>18
  <2>20. QED
    BY <2>19 DEF start
<1>4. \A n \in Nat : n \in Rolled
  <2> HIDE DEF Rolled
  <2> QED  BY <1>2, <1>3, Induction
<1>5. QED
  BY <1>4

LEMMA TargetLengthsType ==
  TargetLengths \subseteq Nat \ {0}
<1>1. ASSUME NEW w \in VendorNames \cup GenericWords PROVE Len(w) \in Nat \ {0}
  BY PolicyAssumption
<1>2. QED
  BY <1>1 DEF TargetLengths

(* The scan misses no window and counts none that is not there: it finds a *)
(* marker exactly when some window has the hash of a word and counts as    *)
(* one (boundary-policy.ts 97-129).                                        *)
THEOREM ScanIsExact ==
  ASSUME NEW decoded, NEW normalized \in Seq(Int)
  PROVE  Scan(decoded, normalized) <=> SomeWindowCounts(decoded, normalized)
<1>1. Len(normalized) \in Nat
  OBVIOUS
<1>2. ASSUME Scan(decoded, normalized) PROVE SomeWindowCounts(decoded, normalized)
  <2>1. PICK length \in TargetLengths :
           /\ length <= Len(normalized)
           /\ \E moved \in 0..(Len(normalized) - length) :
                Counts(decoded, Rolling(normalized, length)[moved], moved + 1, length)
    BY <1>2 DEF Scan
  <2>2. PICK moved \in 0..(Len(normalized) - length) :
           Counts(decoded, Rolling(normalized, length)[moved], moved + 1, length)
    BY <2>1
  <2>3. length \in Nat \ {0} /\ moved \in Nat
    BY TargetLengthsType
  <2>4. Rolling(normalized, length)[moved] = polynomial(normalized, moved + 1, length)
    BY <2>3, RollingIsPolynomial
  <2>5. moved + 1 \in 1..(Len(normalized) - length + 1)
    BY <1>1, <2>3
  <2>6. Counts(decoded, polynomial(normalized, moved + 1, length), moved + 1, length)
    BY <2>2, <2>4
  <2>7. QED
    BY <2>5, <2>6 DEF SomeWindowCounts
<1>3. ASSUME SomeWindowCounts(decoded, normalized) PROVE Scan(decoded, normalized)
  <2>0. PICK length \in TargetLengths :
           \E start \in 1..(Len(normalized) - length + 1) :
             Counts(decoded, polynomial(normalized, start, length), start, length)
    BY <1>3 DEF SomeWindowCounts
  <2>1. PICK start \in 1..(Len(normalized) - length + 1) :
           Counts(decoded, polynomial(normalized, start, length), start, length)
    BY <2>0
  <2> DEFINE moved == start - 1
  <2>2. length \in Nat \ {0}
    BY TargetLengthsType
  <2>3. /\ moved \in Nat /\ moved + 1 = start
        /\ moved \in 0..(Len(normalized) - length) /\ length <= Len(normalized)
    BY <1>1, <2>2
  <2> HIDE DEF moved
  <2>4. Rolling(normalized, length)[moved] = polynomial(normalized, moved + 1, length)
    BY <2>2, <2>3, RollingIsPolynomial
  <2>5. Counts(decoded, Rolling(normalized, length)[moved], moved + 1, length)
    BY <2>1, <2>3, <2>4
  <2>6. QED
    BY <2>3, <2>5 DEF Scan
<1>4. QED
  BY <1>2, <1>3

\* A word that stands in a text has its hash there.
LEMMA HashOfStandingWord ==
  ASSUME NEW s \in Seq(Int), NEW w \in Seq(Int), NEW start \in Int, StandsAt(w, s, start)
  PROVE  polynomial(s, start, Len(w)) = polynomial(w, 1, Len(w))
<1> DEFINE there == PrefixHash(s, start)
           alone == PrefixHash(w, 1)
           Same == {n \in Nat : n <= Len(w) => there[n] = alone[n]}
<1>1. /\ Len(w) \in Nat /\ Len(s) \in Nat
      /\ DOMAIN w = 1..Len(w) /\ DOMAIN s = 1..Len(s)
  OBVIOUS
<1>2. /\ there[0] = 0 /\ alone[0] = 0
      /\ \A n \in Nat : there[n + 1] = MoreHash(there[n], UnitAt(s, start + n))
      /\ \A n \in Nat : alone[n + 1] = MoreHash(alone[n], UnitAt(w, 1 + n))
  <2>1. /\ there[0] = 0
        /\ \A n \in Nat : there[n + 1] = MoreHash(there[n], UnitAt(s, start + n))
    BY PrefixHashEquations
  <2> DEFINE first == 1
  <2>2. first \in Int
    OBVIOUS
  <2> HIDE DEF first
  <2>3. /\ PrefixHash(w, first)[0] = 0
        /\ \A n \in Nat : PrefixHash(w, first)[n + 1]
                             = MoreHash(PrefixHash(w, first)[n], UnitAt(w, first + n))
    BY <2>2, PrefixHashEquations
  <2>4. QED
    BY <2>1, <2>3 DEF first
<1>3. ASSUME NEW n \in Nat, n + 1 <= Len(w)
      PROVE  UnitAt(s, start + n) = UnitAt(w, 1 + n)
  <2>1. /\ 1 + n \in DOMAIN w
        /\ start + (1 + n) - 1 = start + n
        /\ start + n \in DOMAIN s
    BY <1>1, <1>3 DEF StandsAt
  <2>2. s[start + (1 + n) - 1] = w[1 + n]
    BY <2>1 DEF StandsAt
  <2>3. QED
    BY <2>1, <2>2 DEF UnitAt
<1> HIDE DEF there, alone
<1>4. 0 \in Same
  BY <1>2
<1>5. ASSUME NEW n \in Nat, n \in Same PROVE n + 1 \in Same
  <2>1. n + 1 <= Len(w) => there[n] = alone[n]
    BY <1>1, <1>5
  <2>2. n + 1 <= Len(w) => there[n + 1] = alone[n + 1]
    BY <1>2, <1>3, <2>1
  <2>3. n + 1 \in Nat
    OBVIOUS
  <2>4. QED
    BY <2>2, <2>3
<1>6. \A n \in Nat : n \in Same
  <2> HIDE DEF Same
  <2> QED  BY <1>4, <1>5, Induction
<1>7. there[Len(w)] = alone[Len(w)]
  BY <1>1, <1>6
<1>8. QED
  BY <1>7 DEF there, alone, polynomial

(* Nothing prohibited slips through: a vendor's name is found wherever it  *)
(* stands in the text, however long the text and whatever is around it     *)
(* ("must be detected even when embedded", boundary-policy.ts 15-17), and  *)
(* a generic word wherever it stands as a token, unless a vendor's name is *)
(* as long as the word.                                                    *)
THEOREM MarkersAreDetected ==
  ASSUME NEW decoded, NEW normalized \in Seq(Int),
         NEW w \in VendorNames \cup GenericWords, NEW start \in Int,
         StandsAt(w, normalized, start),
         \/ w \in VendorNames
         \/ /\ \A name \in VendorNames : Len(name) # Len(w)
            /\ hasTokenBoundaries(decoded, start, Len(w))
  PROVE  Scan(decoded, normalized)
<1> DEFINE length == Len(w)
           hash == polynomial(normalized, start, length)
<1>1. w \in Seq(Int)
  BY PolicyAssumption
<1>2. length \in TargetLengths
  BY DEF TargetLengths
<1>3. start \in 1..(Len(normalized) - length + 1)
  BY DEF StandsAt
<1>4. hash = polynomial(w, 1, length)
  BY <1>1, HashOfStandingWord
<1>5. hash \in TARGETS[length]
  BY <1>2, <1>4 DEF TARGETS, Hashes
<1>6. CASE w \in VendorNames
  <2>1. length \in DOMAIN SUBSTRING_TARGETS
    BY <1>6 DEF SUBSTRING_TARGETS
  <2>2. hash \in SUBSTRING_TARGETS[length]
    BY <1>4, <1>6 DEF SUBSTRING_TARGETS, Hashes
  <2>3. Counts(decoded, hash, start, length)
    BY <1>5, <2>1, <2>2 DEF Counts
  <2>4. QED
    BY <1>2, <1>3, <2>3, ScanIsExact DEF SomeWindowCounts
<1>7. CASE w \notin VendorNames
  <2>1. length \notin DOMAIN SUBSTRING_TARGETS
    BY <1>7 DEF SUBSTRING_TARGETS
  <2>2. hasTokenBoundaries(decoded, start, length)
    BY <1>7
  <2>3. Counts(decoded, hash, start, length)
    BY <1>5, <2>1, <2>2 DEF Counts
  <2>4. QED
    BY <1>2, <1>3, <2>3, ScanIsExact DEF SomeWindowCounts
<1>8. QED
  BY <1>6, <1>7

----------------------------------------------------------------------------
(* The managers: the answer is held against the request *)

\* Apart from createAgent and agentAuth no method reads the object again, and
\* what they read again is not an argument as well.
LEMMA RereadingMethods ==
  ASSUME method \in DOMAIN Methods
  PROVE  /\ method \notin Rereading => Reread = {}
         /\ Passed \cap Reread = {}
<1>1. /\ Methods["getSession"].reread = {} /\ Methods["getCapabilities"].reread = {}
      /\ Methods["getAccountCapabilities"].reread = {} /\ Methods["listAgents"].reread = {}
  BY DEF Methods, Method
<1>2. /\ Methods["getAgent"].reread = {} /\ Methods["renameAgent"].reread = {}
      /\ Methods["terminateAgent"].reread = {} /\ Methods["createBinding"].reread = {}
      /\ Methods["getBinding"].reread = {}
  BY DEF Methods, Method
<1>3. /\ Methods["begin"].reread = {} /\ Methods["negotiate"].reread = {}
      /\ Methods["uploadChunk"].reread = {} /\ Methods["downloadChunk"].reread = {}
  BY DEF Methods, Method
<1>4. /\ Methods["commit"].reread = {} /\ Methods["changes"].reread = {}
      /\ Methods["reconcile"].reread = {}
  BY DEF Methods, Method
<1>5. method = "createAgent" => Passed \cap Reread = {}
  BY DEF Methods, Method, Reread, Passed
<1>6. method = "agentAuth" => Passed \cap Reread = {}
  BY DEF Methods, Method, Reread, Passed
<1>7. method \notin Rereading =>
        \/ method \in {"getSession", "getCapabilities", "getAccountCapabilities",
                       "listAgents", "getAgent", "renameAgent", "terminateAgent"}
        \/ method \in {"createBinding", "getBinding", "begin", "negotiate",
                       "uploadChunk", "downloadChunk", "commit", "changes",
                       "reconcile"}
  BY DEF Methods, Rereading
<1>8. method \notin Rereading => Reread = {}
  BY <1>1, <1>2, <1>3, <1>4, <1>7 DEF Reread
<1>. QED
  BY <1>5, <1>6, <1>8 DEF Rereading

\* What an answer is compared with, as long as its call is out.
LEMMA ComparedWithTheRequest ==
  ASSUME EchoInv, NEW c \in EchoCalls, Out(c)
  PROVE  /\ Matches(c) => \A f \in Fields \ Exposed(c) : AsAsked(c, f)
         /\ ~Matches(c) => \E f \in Fields : ~AsAsked(c, f) \/ f \in Exposed(c)
<1>1. HoldsWhatItAsked(c) /\ method \in DOMAIN Methods
  BY DEF EchoInv, EchoTypes
<1>2. ASSUME NEW f \in Fields, f \notin Exposed(c)
      PROVE  Expected(c, f) = asked[c][f]
  BY <1>1, <1>2, RereadingMethods DEF HoldsWhatItAsked, Exposed, Expected
<1>. QED
  BY <1>2 DEF Matches, AsAsked

\* The fields and the tables of a method do not change.
LEMMA MethodFixed ==
  ASSUME EchoInv, [EchoNext]_echoVars
  PROVE  /\ method' = method /\ Fields' = Fields /\ Reread' = Reread
         /\ ObjectFields' = ObjectFields /\ Passed' = Passed /\ Sayings' = Sayings
<1>1. method' = method
  BY DEF EchoNext, Send, Serve, Judge, Fail, Write, echoVars
<1>. QED
  BY <1>1 DEF Fields, Reread, ObjectFields, Passed, Copied, Sayings

LEMMA EchoTypesKept ==
  ASSUME EchoInv, [EchoNext]_echoVars
  PROVE  EchoTypes'
<1>. USE MethodFixed DEF EchoInv, EchoTypes
<1>1. ASSUME NEW c \in EchoCalls, Send(c) PROVE EchoTypes'
  <2>1. PICK arguments \in [Passed -> FieldValues] :
          LET said == [f \in Fields |-> IF f \in Passed THEN arguments[f]
                                         ELSE options[f]]
          IN  /\ asked' = [asked EXCEPT ![c] = said]
              /\ held' = [held EXCEPT ![c] =
                            [f \in Fields |-> IF f \in Reread THEN Unsaid ELSE said[f]]]
    BY <1>1 DEF Send
  <2> DEFINE said == [f \in Fields |-> IF f \in Passed THEN arguments[f] ELSE options[f]]
             kept == [f \in Fields |-> IF f \in Reread THEN Unsaid ELSE said[f]]
  <2>2. \A f \in Fields : said[f] \in FieldValues
    BY DEF Fields
  <2>3. said \in Sayings /\ kept \in Sayings
    BY <2>2 DEF Sayings
  <2>4. asked' = [asked EXCEPT ![c] = said] /\ held' = [held EXCEPT ![c] = kept]
    BY <2>1
  <2> HIDE DEF said, kept
  <2>. QED
    BY <1>1, <2>3, <2>4 DEF Send
<1>2. ASSUME NEW c \in EchoCalls, Serve(c) PROVE EchoTypes'
  <2>1. PICK d \in EchoCalls, f \in Fields, v \in FieldValues :
          \/ answer' = [answer EXCEPT ![c] = asked[d]]
          \/ answer' = [answer EXCEPT ![c] = [asked[d] EXCEPT ![f] = v]]
    BY <1>2 DEF Serve
  <2>2. asked[d] \in Sayings /\ [asked[d] EXCEPT ![f] = v] \in Sayings
    BY DEF Sayings
  <2>. QED
    BY <1>2, <2>1, <2>2 DEF Serve
<1>3. ASSUME NEW c \in EchoCalls, Judge(c) \/ Fail(c) PROVE EchoTypes'
  BY <1>3 DEF Judge, Fail
<1>4. ASSUME NEW f \in ObjectFields, NEW v \in FieldValues, Write(f, v) PROVE EchoTypes'
  BY <1>4 DEF Write
<1>5. CASE UNCHANGED echoVars
  BY <1>5 DEF echoVars
<1>. QED
  BY <1>1, <1>2, <1>3, <1>4, <1>5 DEF EchoNext

LEMMA CallsHoldWhatTheyAsked ==
  ASSUME EchoInv, [EchoNext]_echoVars, NEW c \in EchoCalls, Out(c)'
  PROVE  HoldsWhatItAsked(c)'
<1>. USE MethodFixed DEF EchoInv, EchoTypes, HoldsWhatItAsked, Out
<1>1. CASE Send(c)
  <2>1. PICK arguments \in [Passed -> FieldValues] :
          LET said == [f \in Fields |-> IF f \in Passed THEN arguments[f]
                                         ELSE options[f]]
          IN  /\ asked' = [asked EXCEPT ![c] = said]
              /\ held' = [held EXCEPT ![c] =
                            [f \in Fields |-> IF f \in Reread THEN Unsaid ELSE said[f]]]
    BY <1>1 DEF Send
  <2>2. ASSUME NEW f \in Fields
        PROVE  /\ asked'[c][f] = IF f \in Passed THEN arguments[f] ELSE options[f]
               /\ f \notin Reread => held'[c][f] = asked'[c][f]
    BY <2>1, <2>2
  <2>. QED
    BY <1>1, <2>2, RereadingMethods DEF Send
<1>2. ASSUME NEW d \in EchoCalls, d # c, Send(d) PROVE HoldsWhatItAsked(c)'
  BY <1>2 DEF Send
<1>3. ASSUME NEW d \in EchoCalls, Serve(d) \/ Judge(d) \/ Fail(d)
      PROVE  HoldsWhatItAsked(c)'
  BY <1>3 DEF Serve, Judge, Fail
<1>4. ASSUME NEW f \in ObjectFields, NEW v \in FieldValues, Write(f, v)
      PROVE  HoldsWhatItAsked(c)'
  <2>1. HoldsWhatItAsked(c) /\ rewritten'[c] = rewritten[c] \cup {f}
    BY <1>4 DEF Write
  <2>2. \A g \in Reread \ {f} : options'[g] = options[g]
    BY <1>4 DEF Write, ObjectFields
  <2>. QED
    BY <1>4, <2>1, <2>2 DEF Write
<1>5. CASE UNCHANGED echoVars
  BY <1>5 DEF echoVars
<1>. QED
  BY <1>1, <1>2, <1>3, <1>4, <1>5 DEF EchoNext

LEMMA AnswersStayWithTheirCalls ==
  ASSUME EchoInv, [EchoNext]_echoVars
  PROVE  AnsweredAsAsked'
<1>. USE MethodFixed DEF EchoInv, EchoTypes, AnsweredAsAsked, AsAsked, Exposed
<1>1. ASSUME NEW c \in EchoCalls, Send(c) \/ Serve(c) \/ Fail(c) PROVE AnsweredAsAsked'
  BY <1>1 DEF Send, Serve, Fail
<1>2. ASSUME NEW c \in EchoCalls, Judge(c) PROVE AnsweredAsAsked'
  <2>1. /\ Matches(c) => \A f \in Fields \ Exposed(c) : AsAsked(c, f)
        /\ ~Matches(c) => \E f \in Fields : ~AsAsked(c, f) \/ f \in Exposed(c)
    BY <1>2, ComparedWithTheRequest DEF Judge, Out
  <2>2. /\ UNCHANGED <<method, answer, asked, rewritten>>
        /\ stage' = [stage EXCEPT ![c] = IF Matches(c) THEN "accepted" ELSE "rejected"]
    BY <1>2 DEF Judge
  <2>. QED
    BY <2>1, <2>2
<1>3. ASSUME NEW f \in ObjectFields, NEW v \in FieldValues, Write(f, v)
      PROVE  AnsweredAsAsked'
  BY <1>3 DEF Write, Out
<1>4. CASE UNCHANGED echoVars
  BY <1>4 DEF echoVars
<1>. QED
  BY <1>1, <1>2, <1>3, <1>4 DEF EchoNext

(* However many calls share an object and whatever is written to it while  *)
(* they are out, each hands on the answer to its own request and rejects   *)
(* no other; createAgent and agentAuth only up to the fields the program   *)
(* wrote to meanwhile (client.ts 311-316, 351-366; agent-sessions.ts       *)
(* 285-386; workspace-bindings.ts 129-188; workspace-sync.ts 346-466).     *)
THEOREM EachAnswerToItsRequest == EchoSpec => []AnsweredAsAsked
<1>1. EchoInit => EchoInv
  <2>1. SUFFICES ASSUME EchoInit PROVE EchoInv
    OBVIOUS
  <2>2. Blank \in Sayings
    BY DEF Blank, Sayings
  <2>. QED
    BY <2>1, <2>2, EchoAssumption
    DEF EchoInit, EchoInv, EchoTypes, Out, AnsweredAsAsked
<1>2. EchoInv /\ [EchoNext]_echoVars => EchoInv'
  BY EchoTypesKept, CallsHoldWhatTheyAsked, AnswersStayWithTheirCalls DEF EchoInv
<1>3. EchoInv => AnsweredAsAsked
  BY DEF EchoInv
<1>. QED
  BY <1>1, <1>2, <1>3, PTL DEF EchoSpec
==============================================================================
