---------------------------------- MODULE Data ---------------------------------
(***************************************************************************)
(* The algorithms without state, called with any input: each step takes    *)
(* one input of one of them, and each invariant compares what the code     *)
(* computes from it with what it is meant to compute.                      *)
(***************************************************************************)
EXTENDS FireStore, Manifests, GeoSplit, RawValues

CONSTANTS
  Inputs,       \* the calls: records that say of what they are an input
  Values,       \* the values of raw
  Elements,     \* the elements of the paths of a FireStore
  Tokens        \* what the lines of a manifest are made of

VARIABLE input

ASSUME ValuesAssumption == \A v \in Values : IsValue(v, Values)

ASSUME ElementsAssumption == Words \subseteq Elements

ASSUME TokensAssumption == Newline \notin Tokens

ASSUME InputsAssumption ==
  \A i \in Inputs :
    /\ i.of = "keys" =>
         i.m \in Values /\ IsMap(i.m) /\ i.keys \in Seq(Range(i.keys)) /\ \A k \in Range(i.keys) : IsKey(k)
    /\ i.of = "list" =>
         i.list \in Seq(Range(i.list)) /\ \A obj \in Range(i.list) : IsResource(obj, Tokens)
    /\ i.of = "features" =>
         /\ \A f \in i.features : \A p \in f.parts : IsPolygon(p)
         /\ NoOverlap(i.features)
         /\ i.depth \in Int /\ i.cluster \in Nat \ {0}
    /\ i.of = "call" =>
         /\ i.namespace \in Elements /\ i.path \in Seq(Elements)
         /\ i.op \in Operations /\ IsDatabase(i.db, Elements)

Nothing == [of |-> "nothing"]

Init == input = Nothing
Next == input = Nothing /\ \E i \in Inputs : input' = i
Spec == Init /\ [][Next]_input

-------------------------------------------------------------------------------
(* ChainGet and Get return what is at the place of the keys and nothing     *)
(* else, and say why where the keys lead nowhere (raw.go:31-96).            *)
GetsWhatIsThere ==
  input.of = "keys" =>
    /\ ChainGetIsExact(input.type, input.m, input.keys)
    /\ ChainGetDeadEnds(input.type, input.m, input.keys)

(* What EncodeYAMLAll writes DecodeAllYAML reads, exactly when no line has a  *)
(* separator, is blank or looks like a comment, and no resource ends in a    *)
(* space (k8s.go:81-221).                                                   *)
ManifestsComeBack == input.of = "list" => WrittenCanBeRead(input.list)

(* The pieces of a Split do not overlap and cover the area, but for what was *)
(* in a dropped rectangle and for slivers at the edges of the boxes, which   *)
(* are rounded too (split.go:24-172).                                       *)
PiecesCoverTheArea ==
  input.of = "features" =>
    PiecesAreAPartition(input.features, input.depth, input.cluster, input.lost)

(* An operation neither sees nor changes what is outside its namespace       *)
(* (firestore.go:70-197).                                                   *)
NamespacesAreApart ==
  input.of = "call" => StaysInItsNamespace(input.namespace, input.op, input.path, input.db)

(* The paths that List returns can be given back, exactly when the collection *)
(* has no element that ends what is stripped (firestore.go:53-79, 149-175). *)
ListedPathsWork ==
  input.of = "call" => ListedIsFound(input.namespace, input.path, input.db)
===============================================================================
