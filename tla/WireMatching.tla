----------------------------- MODULE WireMatching -----------------------------
(***************************************************************************)
(* What a kind means: the values that fit it, a typical one, and the ones  *)
(* worth trying in its place, which lie on both sides of each of its       *)
(* limits.                                                                 *)
(***************************************************************************)
EXTENDS WireSchemas, WireDecoders, WireRequests

Rule(rule, o) ==
  \/ rule = "none"
  \/ ContractRule(rule, o)
  \/ DecoderRule(rule, o)
  \/ RequestRule(rule, o)

(* exact of domain.ts: every required member, and no other than those and  *)
(* the optional ones.                                                      *)
Exact(kind, o) ==
  /\ DOMAIN kind.req \subseteq DOMAIN o
  /\ kind.open \/ DOMAIN o \subseteq DOMAIN kind.req \cup DOMAIN kind.opt

(***************************************************************************)
(* Which values fit a kind.  Kinds and values nest at most eight deep, and *)
(* what walks over them is written once for each depth: Inner says what    *)
(* the elements of a list or the members of an object are held to.         *)
(***************************************************************************)
FitsLeaf(kind, v) ==
  \/ kind.k = "const" /\ v \in kind.vals
  \/ kind.k = "any" /\ ~Is("undefined", v)
  \/ kind.k = "number" /\ (v \in [int : Int] \/ v = Wide \/ v = Fraction)
  \/ kind.k = "int" /\ v \in [int : kind.lo..kind.hi]
  \/ kind.k = "int" /\ v = Wide /\ kind.hi = Unbounded /\ ~kind.safe
  \/ kind.k \in {"text", "units"} /\ IsWord(v)
  \/ kind.k = "text" /\ IsText(v) /\ v.len \in kind.lo..kind.hi
  \/ /\ kind.k = "units" /\ IsText(v) /\ v.len \in Nat
     /\ (IF v.form = "astral" THEN 2 * v.len ELSE v.len) \in kind.lo..kind.hi
  \/ kind.k = "pattern" /\ v \in Strings(kind.forms, kind.lo, kind.hi, kind.brands)

FitsList(Inner(_, _), kind, v) ==
  /\ IsList(v)
  /\ Length(v) \in kind.lo..kind.hi
  /\ kind.unique => Distinct(v)
  /\ \A e \in Elements(v) : Inner(kind.of, e)

FitsObject(Inner(_, _), kind, v) ==
  /\ IsObject(v)
  /\ Exact(kind, v.object)
  /\ \A f \in DOMAIN kind.req : Inner(kind.req[f], v.object[f])
  /\ \A f \in DOMAIN kind.opt \cap DOMAIN v.object : Inner(kind.opt[f], v.object[f])
  /\ Rule(kind.rule, v.object)

FitsAs(Inner(_, _), kind, v) ==
  \/ FitsLeaf(kind, v)
  \/ kind.k = "list" /\ FitsList(Inner, kind, v)
  \/ kind.k = "object" /\ FitsObject(Inner, kind, v)

(* An alternative has none of its own, and counts as deep as its kind.     *)
FitsBy(Inner(_, _), kind, v) ==
  \/ FitsAs(Inner, kind, v)
  \/ kind.k = "either" /\ (FitsAs(Inner, kind.one, v) \/ FitsAs(Inner, kind.other, v))

TooDeep(kind, v) == FALSE
Fits1(kind, v) == FitsBy(TooDeep, kind, v)
Fits2(kind, v) == FitsBy(Fits1, kind, v)
Fits3(kind, v) == FitsBy(Fits2, kind, v)
Fits4(kind, v) == FitsBy(Fits3, kind, v)
Fits5(kind, v) == FitsBy(Fits4, kind, v)
Fits6(kind, v) == FitsBy(Fits5, kind, v)
Fits7(kind, v) == FitsBy(Fits6, kind, v)
Fits(kind, v) == FitsBy(Fits7, kind, v)

(***************************************************************************)
(* A typical value of a kind.                                              *)
(***************************************************************************)
FirstOf(kind) == IF kind.k = "either" THEN kind.one ELSE kind

TypicalBy(Inner(_), kind) ==
  LET k == FirstOf(kind)
  IN CASE k.k = "list" -> Arr(IF k.eg # <<>> THEN k.eg ELSE <<Inner(k.of)>>)
       [] k.k = "object" -> Obj([f \in DOMAIN k.req |-> Inner(k.req[f])])
       [] OTHER -> k.eg

TypicalNot(kind) == Null
Typical1(kind) == TypicalBy(TypicalNot, kind)
Typical2(kind) == TypicalBy(Typical1, kind)
Typical3(kind) == TypicalBy(Typical2, kind)
Typical4(kind) == TypicalBy(Typical3, kind)
Typical5(kind) == TypicalBy(Typical4, kind)
Typical6(kind) == TypicalBy(Typical5, kind)
Typical7(kind) == TypicalBy(Typical6, kind)
Typical(kind) == TypicalBy(Typical7, kind)

(* A typical message that carries every optional member as well.           *)
Full(kind) ==
  Obj(Typical(kind).object @@ [f \in DOMAIN kind.opt |-> Typical(kind.opt[f])])

With(v, f, x) == Obj([g \in DOMAIN v.object \cup {f} |-> IF g = f THEN x ELSE v.object[g]])
Without(v, f) == Obj([g \in DOMAIN v.object \ {f} |-> v.object[g]])

Members(kind) == DOMAIN kind.req \cup DOMAIN kind.opt
MemberKind(kind, f) == IF f \in DOMAIN kind.req THEN kind.req[f] ELSE kind.opt[f]

(***************************************************************************)
(* The values a kind is tried with.                                        *)
(***************************************************************************)
(* The instants tried, and the numbers of strings that are compared.       *)
Instants == {10, 20, 30, 41}
Tied == {"uuid", "digest", "root", "stream", "ptype", "syncptype", "synccode", "base64"}
Near(lo, hi) == {n \in {lo - 1, lo} : n >= 0} \cup IF hi = Unbounded THEN {lo + 1} ELSE {hi, hi + 1}

NearList(kind) ==
  LET t == Typical(kind.of)
      base == Typical(kind).items
      count == Len(base)
  IN {Arr(<<>>), Arr(base), Arr(<<t, t>>), Null}
       \cup {Arr([i \in 1..count |-> base[count + 1 - i]]), Arr(Tail(base)),
             Arr([base EXCEPT ![count] = base[1]]), Arr(Append(base, base[1]))}
       \cup (IF kind.of.k = "const" \/ kind.hi = Unbounded THEN {}
             ELSE {Many(t, kind.hi + more, distinct) : more \in {0, 1}, distinct \in BOOLEAN})

TriedAs(Inner(_), kind) ==
  CASE kind.k = "const" -> kind.vals \cup {Word("other"), Num(7), Null}
    [] kind.k = "any" -> {Null, Text(5), Str("marked", 5, 1, "plain")}
    [] kind.k = "number" -> {Num(0), Fraction, Wide, Null, Word("other")}
    [] kind.k = "int" ->
         {Num(n) : n \in {kind.lo - 1, kind.lo, kind.lo + 1}
                           \cup (IF kind.hi = Unbounded THEN {} ELSE {kind.hi, kind.hi + 1})}
           \cup {Wide, Fraction, Null}
    [] kind.k \in {"text", "units"} ->
         {Text(n) : n \in Near(kind.lo, kind.hi)}
           \cup {Str("astral", IF kind.hi = Unbounded THEN 5 ELSE kind.hi, 1, "plain"),
                 Str("marked", 5, 1, "plain"), Num(7)}
    [] kind.k = "pattern" ->
         {Str(form, len, no, brand) :
            form \in kind.forms,
            len \in IF kind.hi = 0 THEN {0} ELSE Near(kind.lo, kind.hi),
            no \in IF "time" \in kind.forms THEN Instants
                   ELSE IF kind.forms \cap Tied # {} THEN {1, 2} ELSE {1},
            brand \in IF kind.brands = {"plain"} THEN {"plain"} ELSE Brands \cup {"other"}}
           \cup {Text(5), Null}
    [] kind.k = "list" ->
         NearList(kind) \cup
           UNION {{Arr(<<x>>), Arr(<<Typical(kind.of), x>>), Arr(<<x, Typical(kind.of)>>)} :
                    x \in Inner(kind.of)}
    [] kind.k = "object" ->
         LET v == Typical(kind)
         IN {v, Full(kind), With(v, "unknown", Null), Null}
              \cup {Without(v, f) : f \in DOMAIN kind.req}
              \cup UNION {{With(v, f, x) : x \in Inner(MemberKind(kind, f))} : f \in Members(kind)}

TriedBy(Inner(_), kind) ==
  IF kind.k = "either" THEN TriedAs(Inner, kind.one) \cup TriedAs(Inner, kind.other)
  ELSE TriedAs(Inner, kind)

TriedNot(kind) == {}
Tried1(kind) == TriedBy(TriedNot, kind)
Tried2(kind) == TriedBy(Tried1, kind)
Tried3(kind) == TriedBy(Tried2, kind)
Tried4(kind) == TriedBy(Tried3, kind)
Tried5(kind) == TriedBy(Tried4, kind)
Tried6(kind) == TriedBy(Tried5, kind)
Tried7(kind) == TriedBy(Tried6, kind)
Tried(kind) == TriedBy(Tried7, kind)

(* A text anywhere in a value that is of some kind.                        *)
Contents(v) ==
  IF IsList(v) THEN Elements(v)
  ELSE IF Is("object", v) THEN {v.object[f] : f \in DOMAIN v.object} ELSE {}

Holds1(Test(_), v) == Test(v)
Holds2(Test(_), v) == Test(v) \/ \E x \in Contents(v) : Holds1(Test, x)
Holds3(Test(_), v) == Test(v) \/ \E x \in Contents(v) : Holds2(Test, x)
Holds4(Test(_), v) == Test(v) \/ \E x \in Contents(v) : Holds3(Test, x)
Holds5(Test(_), v) == Test(v) \/ \E x \in Contents(v) : Holds4(Test, x)
Holds6(Test(_), v) == Test(v) \/ \E x \in Contents(v) : Holds5(Test, x)
Holds7(Test(_), v) == Test(v) \/ \E x \in Contents(v) : Holds6(Test, x)
Holds(Test(_), v) == Test(v) \/ \E x \in Contents(v) : Holds7(Test, x)

(* The marker that sanitizeWire refuses, anywhere in an answer.            *)
IsMarked(v) == Is("form", v) /\ v.form = "marked"
Marked(v) == Holds(IsMarked, v)
===============================================================================
