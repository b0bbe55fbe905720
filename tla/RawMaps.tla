-------------------------------- MODULE RawMaps --------------------------------
(***************************************************************************)
(* Package raw: Merge and Diff.                                            *)
(*                                                                         *)
(* Merge overwrites maps and slices of other types than Map and Slice, and *)
(* Diff compares them as a whole, as they do with any atom.                *)
(***************************************************************************)
EXTENDS RawValues

mergeSlice(s1, s2) == s1 \o SelectSeq(s2, LAMBDA v : v \notin Range(s1))

RECURSIVE Merge(_, _)

(* The kind of the type of nil is asked for, which panics. *)
MergeValues(v1, v2) ==
  CASE IsMap(v1) /\ IsMap(v2) -> Merge(v1, v2)
    [] IsSlice(v1) /\ IsSlice(v2) -> Ok(Slice(mergeSlice(v1.slice, v2.slice)))
    [] IsNil(v1) /\ IsNil(v2) -> Panics
    [] OTHER -> Ok(v2)

Merge_Shallow(m1, m2) ==                    \* mutant: maps inside are overwritten
  Ok(Map([k \in DOMAIN m1.map \cup DOMAIN m2.map |->
            IF k \in DOMAIN m2.map THEN m2.map[k] ELSE m1.map[k]]))

Merge(m1, m2) ==
  LET keys == DOMAIN m1.map \cup DOMAIN m2.map
      merged == [k \in keys |->
                   CASE k \notin DOMAIN m2.map -> Ok(m1.map[k])
                     [] k \notin DOMAIN m1.map -> Ok(m2.map[k])
                     [] OTHER -> MergeValues(m1.map[k], m2.map[k])] IN
    IF Panics \in Range(merged) THEN Panics ELSE Ok(Map([k \in keys |-> merged[k].value]))

-------------------------------------------------------------------------------
Element(s, i) == IF i \in DOMAIN s THEN s[i] ELSE Nil

Changed_Shorter(s1, s2) ==                  \* mutant: only as far as the first one goes
  { i \in DOMAIN s1 : s1[i] # Element(s2, i) }

Changed(s1, s2) == { i \in DOMAIN s1 \cup DOMAIN s2 : Element(s1, i) # Element(s2, i) }

diffSlices(s1, s2) ==
  LET changed == Changed(s1, s2) IN
    IF changed = {} THEN EmptyMap
    ELSE Map("array" :> Map([i \in { ToString(j - 1) : j \in changed } |->
                               Element(s2, CHOOSE j \in changed : i = ToString(j - 1))]))

RECURSIVE diff(_, _)

(* What is gone is nil, what is new is its value, what is in both is its diff. *)
diffMaps(f, g) ==
  LET inner == [k \in DOMAIN f \cap DOMAIN g |-> diff(f[k], g[k])]
      same == { k \in DOMAIN inner : f[k] = g[k] \/ inner[k] = EmptyMap } IN
    Map([k \in (DOMAIN f \cup DOMAIN g) \ same |->
           CASE k \notin DOMAIN g -> Nil
             [] k \notin DOMAIN f -> g[k]
             [] OTHER -> inner[k]])

diff(a, b) ==
  CASE IsMap(a) /\ IsMap(b) -> diffMaps(a.map, b.map)
    [] IsSlice(a) /\ IsSlice(b) -> diffSlices(a.slice, b.slice)
    [] OTHER -> IF a = b THEN EmptyMap ELSE Map("" :> b)

(* A struct, or a map of another type than Map. *)
Object(type, f) == [object |-> f, type |-> type]
IsObject(v) == DOMAIN v = {"object", "type"}

(* json.Unmarshal of json.Marshal: objects become Maps and numbers float64. *)
RECURSIVE throughJSON(_)
throughJSON(v) ==
  CASE IsMap(v) -> Map([k \in DOMAIN v.map |-> throughJSON(v.map[k])])
    [] IsObject(v) -> Map([k \in DOMAIN v.object |-> throughJSON(v.object[k])])
    [] IsSlice(v) -> Slice([i \in DOMAIN v.slice |-> throughJSON(v.slice[i])])
    [] TypeOf(v) = "int" -> Atom("float64", v.atom)
    [] OTHER -> v

(* What is not a Map goes through JSON, where null is an empty one and any  *)
(* other value that is not an object is refused.                            *)
ToMap(v) ==
  CASE IsMap(v) -> Ok(v)
    [] IsNil(v) -> Ok(EmptyMap)
    [] IsObject(v) -> Ok(throughJSON(v))
    [] OTHER -> Fails("json")

Diff(a, b) ==
  CASE ~IsOk(ToMap(a)) -> ToMap(a)
    [] IsOk(ToMap(a)) /\ ~IsOk(ToMap(b)) -> ToMap(b)
    [] OTHER -> Ok(diff(ToMap(a).value, ToMap(b).value))

-------------------------------------------------------------------------------
(* Reference definitions: the places of a value, what a diff means. *)

RECURSIVE Places(_)
Places(v) ==
  {<<>>} \cup UNION { { <<k>> \o p : p \in Places(At(v, k)) } : k \in KeysOf(v) }

(* Places reached through maps only, which Merge descends to. *)
MapPlaces(m) == { p \in Places(m) : \A i \in DOMAIN p : "name" \in DOMAIN p[i] }

RECURSIVE Patch(_, _)
Patch(a, d) ==
  CASE d = EmptyMap -> a
    [] DOMAIN d.map = {""} -> d.map[""]
    [] OTHER ->
         IF IsSlice(a)
           THEN LET new == d.map["array"].map
                    all == [i \in 1 .. Len(a.slice) + Cardinality(DOMAIN new) |->
                              IF ToString(i - 1) \in DOMAIN new THEN new[ToString(i - 1)]
                                                                ELSE Element(a.slice, i)] IN
                  Slice(SelectSeq(all, LAMBDA v : ~IsNil(v)))
           ELSE LET gone == { k \in DOMAIN d.map : k \in DOMAIN a.map /\ IsNil(d.map[k]) } IN
                  Map([k \in (DOMAIN a.map \cup DOMAIN d.map) \ gone |->
                         CASE k \notin DOMAIN d.map -> a.map[k]
                           [] k \notin DOMAIN a.map -> d.map[k]
                           [] OTHER -> Patch(a.map[k], d.map[k])])

HasNil(v) == \E p \in Places(v) : IsNil(ValueAt(v, p))

(* Up to nils at the end of a slice that maps lead to. *)
RECURSIVE Trimmed(_)
Trimmed(v) ==
  CASE IsMap(v) -> Map([k \in DOMAIN v.map |-> Trimmed(v.map[k])])
    [] IsSlice(v) ->
         Slice(SubSeq(v.slice, 1, Max({ i \in DOMAIN v.slice : ~IsNil(v.slice[i]) } \cup {0})))
    [] OTHER -> v

-------------------------------------------------------------------------------
(* A merge has every place of the second map with its value, every place of *)
(* the first that the second does not overwrite, and no other; a slice in   *)
(* both starts with the first one's elements and has those of the second    *)
(* (raw.go:98-156).                                                         *)
MergeHoldsBoth(m1, m2) ==
  LET r == Merge(m1, m2)
      places == MapPlaces(r.value)
      hidden == { p \in MapPlaces(m1) :
                    \E i \in 1 .. Len(p) : LET q == SubSeq(p, 1, i) IN
                      q \in MapPlaces(m2) /\ ~IsMap(ValueAt(m2, q)) }
      same(m, p) == IsMap(ValueAt(m, p)) \/ ValueAt(r.value, p) = ValueAt(m, p) IN
    IsOk(r) =>
      /\ places = (MapPlaces(m1) \ hidden) \cup MapPlaces(m2)
      /\ \A p \in MapPlaces(m1) \ (hidden \cup MapPlaces(m2)) : same(m1, p)
      /\ \A p \in MapPlaces(m2) :
           IF p \in MapPlaces(m1) /\ IsSlice(ValueAt(m1, p)) /\ IsSlice(ValueAt(m2, p))
             THEN LET s == ValueAt(r.value, p).slice IN
                    /\ IsPrefix(ValueAt(m1, p).slice, s)
                    /\ Range(s) = Range(ValueAt(m1, p).slice) \cup Range(ValueAt(m2, p).slice)
             ELSE same(m2, p)

(* Merging the same map a second time changes nothing, and a merge panics   *)
(* only where both have a nil (raw.go:98-156).                              *)
MergeAgainChangesNothing(m1, m2) ==
  LET r == Merge(m1, m2) IN
    /\ r = Panics <=> \E p \in MapPlaces(m1) \cap MapPlaces(m2) :
                        IsNil(ValueAt(m1, p)) /\ IsNil(ValueAt(m2, p))
    /\ IsOk(r) => Merge(r.value, m2) \in {r, Panics}

(* The second value, as JSON has it if it is no Map, can be had from the    *)
(* first and the diff, if nothing in them is nil, which a diff uses for what *)
(* is gone, and no key is empty; a diff is refused only if one of them is no *)
(* object (diff.go:9-92).                                                   *)
DiffTellsTheSecond(a, b) ==
  LET r == Diff(a, b)  am == ToMap(a).value  bm == ToMap(b).value IN
    /\ IsOk(r) <=> \A v \in {a, b} : IsMap(v) \/ IsNil(v) \/ IsObject(v)
    /\ IsOk(r) /\ ~HasNil(am) /\ ~HasNil(bm) => Patch(am, r.value) = bm

(* A diff is empty only for values that are the same up to nils at the end  *)
(* of slices (diff.go:36-92).                                               *)
DiffSeesEveryChange(a, b) ==
  LET r == Diff(a, b) IN
    IsOk(r) =>
      (r.value = EmptyMap <=> Trimmed(ToMap(a).value) = Trimmed(ToMap(b).value))
===============================================================================
