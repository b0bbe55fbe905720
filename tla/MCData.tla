--------------------------------- MODULE MCData --------------------------------
(***************************************************************************)
(* TLC instance of Data with small inputs, and with those of Merge and     *)
(* Diff, which are recursive.                                              *)
(***************************************************************************)
EXTENDS Data, RawMaps

(* Maps of which one value is nil, an atom, a slice or a map of such. *)
Number(n) == Atom("int", n)
Scalars == {Nil, Number(1), Number(2)}
Leaves ==
  Scalars \cup { Slice(s) : s \in SeqOf({Nil, Number(1), Map("k" :> Nil)}, 2) }
  \cup { Map(f) : f \in UNION { [d -> Scalars] : d \in SUBSET {"k", "l"} } }
Maps ==
  {EmptyMap} \cup { Map(f) : f \in [{"k"} -> Leaves] }
  \cup { Map("k" :> v @@ "l" :> Number(1)) : v \in Leaves }
Structs ==
  { Object("T", "k" :> v @@ "l" :> Number(1)) : v \in Leaves }
Compared == Maps \cup Structs \cup {Nil, Number(1), Slice(<<Nil>>)}
MCValues == Maps \cup Leaves

Keys == {Name("k"), Name("l"), OtherKey} \cup { Index(i) : i \in -1 .. 2 }

(* Lines that are plain, a comment, one with a "#", a separator or a space  *)
(* within.                                                                 *)
MCTokens == {"kind", "x", " ", "#", Separator}
Lines == { <<"x">>, <<" ", "#", "x">>, <<"x", "#">>, <<" ">>, <<"x", " ">>, <<"x", Separator>>, <<Separator>> }
Objects ==
  { [kind |-> k, fits |-> b, lines |-> << <<"kind">> >> \o s] :
      k \in {"Secret", "Unheard"}, b \in BOOLEAN, s \in SeqOf(Lines, 2) }

(* All shapes made of blocks of 3 columns and 2 rows whose edges are, and    *)
(* are not, multiples of Grain, and one that a cut leaves in two pieces.      *)
Xs == <<2, 3, 5, 7>>
Ys == <<1, 2, 5>>
Block(b) == (Xs[b[1]] .. Xs[b[1] + 1] - 1) \X (Ys[b[2]] .. Ys[b[2] + 1] - 1)
Shapes ==
  { s \in { UNION { Block(b) : b \in bs } : bs \in SUBSET ((1 .. 3) \X (1 .. 2)) } :
      s # {} /\ Polygons(s) = {s} }
  \cup {((1 .. 7) \X (0 .. 4)) \ ((4 .. 4) \X (1 .. 4))}
Rectangles == { [x0 |-> 3, x1 |-> 6, y0 |-> 0, y1 |-> 3], [x0 |-> 3, x1 |-> 6, y0 |-> 3, y1 |-> 6] }
Beside == [type |-> "MultiPolygon", parts |-> {(9 .. 12) \X (0 .. 2), {<<14, 0>>}}]
Features ==
  { {[type |-> "Polygon", parts |-> {s}]} \cup more :
      s \in Shapes, more \in SUBSET {Beside, [type |-> "Point", parts |-> {}]} }

MCElements == Words \cup {NoNamespace, "a", "x"}
Paths == SeqOf({"namespaces", "documents", "a", "x"}, 3) \cup {<<"namespaces", "a", "x", "x", "a">>}
Documents ==
  { <<"a", "x">>, <<"documents", "x">>, <<"namespaces", "a", "a", "x">>,
    <<"namespaces", "a", "namespaces", "a", "x", "x">> }

MCInputs ==
  [of : {"two values"}, a : Compared, b : Compared]
  \cup [of : {"keys"}, m : Maps, keys : SeqOf(Keys, 3), type : {"int", "Map", "any"}]
  \cup [of : {"list"}, list : SeqOf(Objects, 2)]
  \cup [of : {"features"}, features : Features, depth : 0 .. 3, cluster : 1 .. 3, lost : SUBSET Rectangles]
  \cup [of : {"call"}, namespace : {NoNamespace, "a"}, path : Paths, op : Operations,
        db : { [d \in docs |-> 1] : docs \in SUBSET Documents }]

-------------------------------------------------------------------------------
TwoMaps == input.of = "two values" /\ IsMap(input.a) /\ IsMap(input.b)

(* A merge has what both maps have, the second's where they differ, and      *)
(* merging again changes nothing (raw.go:98-156).                           *)
MergesBoth ==
  TwoMaps =>
    MergeHoldsBoth(input.a, input.b) /\ MergeAgainChangesNothing(input.a, input.b)

(* A diff, applied to the first value, gives the second, and an empty one    *)
(* means that they are the same, but for nils (diff.go:9-92).               *)
DiffIsExact ==
  input.of = "two values" =>
    DiffTellsTheSecond(input.a, input.b) /\ DiffSeesEveryChange(input.a, input.b)
===============================================================================
