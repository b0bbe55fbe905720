------------------------------- MODULE RawValues -------------------------------
(***************************************************************************)
(* Package raw: JSON-like values and the ways to what is in them, Get and  *)
(* ChainGet.                                                               *)
(*                                                                         *)
(* A value is nil, an atom of some type, a Map or a Slice; it is told from *)
(* the others by the field it has.  reflect.DeepEqual is then equality.    *)
(* A result is a value, an error or a panic.  Maps and slices of other     *)
(* types than Map and Slice are atoms.                                     *)
(***************************************************************************)
EXTENDS Integers, SequencesExt

Nil == [nil |-> TRUE]
Atom(type, a) == [atom |-> a, type |-> type]
Map(f) == [map |-> f]
Slice(s) == [slice |-> s]
EmptyMap == Map(<<>>)

IsNil(v) == v = Nil
IsMap(v) == DOMAIN v = {"map"}
IsSlice(v) == DOMAIN v = {"slice"}

Ok(v) == [value |-> v]
Fails(e) == [error |-> e]
Panics == [panic |-> TRUE]
IsOk(r) == DOMAIN r = {"value"}

(* A key is a string, an int or of another type. *)
Name(k) == [name |-> k]
Index(i) == [index |-> i]
OtherKey == [other |-> TRUE]

(* reflect.TypeOf, which an assertion to an interface type does not ask for. *)
TypeOf(v) ==
  CASE IsNil(v) -> "nil" [] IsMap(v) -> "Map" [] IsSlice(v) -> "Slice"
    [] OTHER -> v.type

(* value.(V); to any everything but nil can be asserted. *)
As(type, v) ==
  IF TypeOf(v) = type \/ (type = "any" /\ ~IsNil(v)) THEN Ok(v) ELSE Fails("WrongValueType")

GetKey(type, m, key) == IF key \in DOMAIN m.map THEN As(type, m.map[key]) ELSE Fails("NotFound")

Has(object, key) ==
  CASE "index" \in DOMAIN key -> IsSlice(object) /\ key.index \in 0 .. Len(object.slice) - 1
    [] "name" \in DOMAIN key -> IsMap(object) /\ key.name \in DOMAIN object.map
    [] OTHER -> FALSE

At(object, key) ==
  IF IsSlice(object) THEN object.slice[key.index + 1] ELSE object.map[key.name]

(* The bound of an index is one too high, and there is no lower one. *)
Beyond(object, i) == IF i > Len(object.slice) THEN Fails("NotFound") ELSE Panics

getObjectKey(object, key) ==
  CASE key = OtherKey -> Fails("InvalidKeys")
    [] Has(object, key) -> Ok(At(object, key))
    [] "name" \in DOMAIN key /\ ~Has(object, key) ->
         Fails(IF IsMap(object) THEN "NotFound" ELSE "WrongKeyType")
    [] "index" \in DOMAIN key /\ ~Has(object, key) ->
         IF IsSlice(object) THEN Beyond(object, key.index) ELSE Fails("WrongKeyType")

Step_IntoNil(r, key) == IF IsOk(r) THEN getObjectKey(r.value, key) ELSE r  \* mutant: nil is no dead end

Step(r, key) ==
  CASE ~IsOk(r) -> r
    [] IsOk(r) /\ IsNil(r.value) -> Fails("NotFound")
    [] IsOk(r) /\ ~IsNil(r.value) -> getObjectKey(r.value, key)

ChainGet(type, m, keys) ==
  LET running[n \in 0 .. Len(keys)] ==
        IF n = 0 THEN Ok(m) ELSE Step(running[n - 1], keys[n])
      last == running[Len(keys)] IN
    CASE keys = <<>> -> Panics
      [] keys # <<>> /\ IsOk(last) -> As(type, last.value)
      [] keys # <<>> /\ ~IsOk(last) -> last

-------------------------------------------------------------------------------
(* A value whose parts are in V. *)
IsValue(v, V) ==
  \/ IsNil(v)
  \/ DOMAIN v = {"atom", "type"}
  \/ IsMap(v) /\ v.map \in [DOMAIN v.map -> V]
  \/ IsSlice(v) /\ v.slice \in Seq(V)

IsKey(key) ==
  \/ key = OtherKey
  \/ "name" \in DOMAIN key /\ key = Name(key.name)
  \/ "index" \in DOMAIN key /\ key = Index(key.index) /\ key.index \in Int

(* Reference definitions: the places of a value. *)

KeysOf(v) ==
  CASE IsMap(v) -> { Name(k) : k \in DOMAIN v.map }
    [] IsSlice(v) -> { Index(i - 1) : i \in DOMAIN v.slice }
    [] OTHER -> {}

(* What the first keys lead to, as long as they do. *)
Way(v, p) ==
  LET at[n \in 0 .. Len(p)] == IF n = 0 THEN v ELSE At(at[n - 1], p[n]) IN at

Leads(v, p, n) == \A i \in 1 .. n : p[i] \in KeysOf(Way(v, p)[i - 1])

IsPlace(v, p) == Leads(v, p, Len(p))

ValueAt(v, p) == Way(v, p)[Len(p)]

-------------------------------------------------------------------------------
(* ChainGet returns what is at the place of its keys, if that has the type  *)
(* asked for, and nothing from anywhere else, as Get does (raw.go:31-96).   *)
ChainGetIsExact(type, m, keys) ==
  LET r == ChainGet(type, m, keys) IN
    /\ IsOk(r) <=> keys # <<>> /\ IsPlace(m, keys) /\ IsOk(As(type, ValueAt(m, keys)))
    /\ IsOk(r) => r.value = ValueAt(m, keys)
    /\ Len(keys) = 1 /\ "name" \in DOMAIN keys[1] => r = GetKey(type, m, keys[1].name)

(* A dead end on the way says what it is: nothing is in nil, a map may not  *)
(* have the name, and a key may be of the wrong kind.  Nothing is claimed of *)
(* no keys and of an index that a slice does not have: errors are declared   *)
(* for them (raw.go:20, 25), and the code panics or says NotFound.           *)
ChainGetDeadEnds(type, m, keys) ==
  LET r == ChainGet(type, m, keys)
      reached == Way(m, keys) IN
    \A n \in 1 .. Len(keys) :
      Leads(m, keys, n - 1) /\ ~Leads(m, keys, n) =>
        LET at == reached[n - 1]  named == "name" \in DOMAIN keys[n] IN
          /\ IsNil(at) \/ (IsMap(at) /\ named) => r = Fails("NotFound")
          /\ ~IsNil(at) /\ ~IsMap(at) /\ named => r = Fails("WrongKeyType")
          /\ ~IsNil(at) /\ ~IsSlice(at) /\ "index" \in DOMAIN keys[n] =>
               r = Fails("WrongKeyType")
===============================================================================
