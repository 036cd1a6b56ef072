------------------------------ MODULE WireValues ------------------------------
(***************************************************************************)
(* JSON values as the wire contract and the decoders tell them apart, and  *)
(* the kinds in which a schema or a decoder describes a field.  A value is *)
(* a record whose fields say which sort of value it is; a kind is a record *)
(* that WireMatching gives its meaning.                                    *)
(*                                                                         *)
(* A string is an enumerated word or [form, len, no, brand]: the pattern   *)
(* it matches, its length in code points, a number that ties strings to    *)
(* one another (the digest of a content, the session of a URL, an instant) *)
(* and the brand of the host or prefix it carries, "plain" if none.        *)
(***************************************************************************)
EXTENDS Integers, Sequences, FiniteSets, TLC

Null == [null |-> TRUE]
Undefined == [undefined |-> TRUE]
Bool(b) == [bool |-> b]
Num(n) == [int |-> n]
Wide == [wide |-> TRUE]            \* an integer above Number.MAX_SAFE_INTEGER
Fraction == [fraction |-> TRUE]    \* a number that is not an integer
Word(w) == [word |-> w]
Str(form, len, no, brand) == [form |-> form, len |-> len, no |-> no, brand |-> brand]
Arr(s) == [items |-> s]
Many(v, n, distinct) == [many |-> v, len |-> n, distinct |-> distinct]
Obj(fields) == [object |-> fields]

Is(sort, v) == sort \in DOMAIN v

IsString(v) == Is("word", v) \/ Is("form", v)

IsWord(v) == DOMAIN v = {"word"}

IsText(v) == Is("form", v) /\ v = Str(v.form, v.len, v.no, v.brand)

IsObject(v) == DOMAIN v = {"object"}

(* The elements of a list of either representation.                        *)
Elements(v) ==
  IF Is("items", v) THEN {v.items[i] : i \in DOMAIN v.items} ELSE {v.many}

IsList(v) ==
  \/ DOMAIN v = {"items"} /\ v.items \in Seq(Elements(v))
  \/ DOMAIN v = {"many", "len", "distinct"}

Length(v) == IF Is("items", v) THEN Len(v.items) ELSE v.len

(* No element occurs twice: uniqueItems of the contract, new Set(..).size  *)
(* of the code.                                                            *)
Distinct(v) ==
  IF Is("items", v) THEN Cardinality(Elements(v)) = Length(v)
  ELSE v.distinct \/ v.len < 2

Given(o, f) == f \in DOMAIN o.object

(***************************************************************************)
(* Strings that occur in the messages.                                     *)
(***************************************************************************)
Brands == {"cuna", "runa"}

Strings(forms, lo, hi, brands) ==
  [form : forms, len : lo..hi, no : Nat, brand : brands]

Text(n) == Str("text", n, 1, "plain")
At(instant) == Str("time", 0, instant, "plain")
UuidOf(no) == Str("uuid", 0, no, "plain")
DigestOf(no) == Str("digest", 0, no, "plain")

(***************************************************************************)
(* Kinds.  eg is the value a typical message carries.                      *)
(***************************************************************************)
Unbounded == 1000000000

Whole(lo, hi, eg) ==
  [k |-> "int", lo |-> lo, hi |-> hi, safe |-> FALSE, eg |-> Num(eg)]
(* Number.isSafeInteger is demanded as well.                               *)
SafeWhole(lo, hi, eg) ==
  [k |-> "int", lo |-> lo, hi |-> hi, safe |-> TRUE, eg |-> Num(eg)]
Exactly(vals, eg) == [k |-> "const", vals |-> vals, eg |-> eg]
Number == [k |-> "number", eg |-> Fraction]
Anything == [k |-> "any", eg |-> Obj([x |-> Null])]
AnyText == [k |-> "text", lo |-> 0, hi |-> Unbounded, eg |-> Text(5)]
Sized(lo, hi) == [k |-> "text", lo |-> lo, hi |-> hi, eg |-> Text(IF lo < 5 THEN 5 ELSE lo)]
(* Bounded by UTF-16 code units, of which an astral character takes two.   *)
Units(lo, hi) == [k |-> "units", lo |-> lo, hi |-> hi, eg |-> Text(5)]
Branded(forms, lo, hi, brands, eg) ==
  [k |-> "pattern", forms |-> forms, lo |-> lo, hi |-> hi, brands |-> brands, eg |-> eg]
Matching(forms, lo, hi, eg) == Branded(forms, lo, hi, {"plain"}, eg)
ListOf(of, lo, hi) ==
  [k |-> "list", of |-> of, lo |-> lo, hi |-> hi, unique |-> FALSE, eg |-> <<>>]
(* A list in which no element occurs twice.                                *)
SetLike(of, lo, hi, eg) ==
  [k |-> "list", of |-> of, lo |-> lo, hi |-> hi, unique |-> TRUE, eg |-> eg]
SetOf(of, lo, hi) == SetLike(of, lo, hi, <<>>)
Either(one, other) == [k |-> "either", one |-> one, other |-> other]
Object(req, opt, rule) ==
  [k |-> "object", req |-> req, opt |-> opt, rule |-> rule, open |-> FALSE]
OpenObject(req) ==
  [k |-> "object", req |-> req, opt |-> <<>>, rule |-> "none", open |-> TRUE]

Boolean == Exactly({Bool(TRUE), Bool(FALSE)}, Bool(FALSE))
Enum(words, eg) == Exactly({Word(w) : w \in words}, Word(eg))
Maybe(kind) == Either(kind, Exactly({Undefined}, Undefined))
Nullable(kind) == Either(kind, Exactly({Null}, Null))
None == <<>>
Words(ws) == [i \in DOMAIN ws |-> Word(ws[i])]
===============================================================================
