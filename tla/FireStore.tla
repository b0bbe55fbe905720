-------------------------------- MODULE FireStore ------------------------------
(***************************************************************************)
(* Package firestore: the operations of a FireStore, which puts its        *)
(* namespace, if it has one, before the paths of its caller and takes it   *)
(* from those of the documents it lists.                                   *)
(*                                                                         *)
(* A path is the sequence of its elements.  The database is a function from *)
(* the paths of its documents to counters.  The cloud client may also fail  *)
(* for reasons of its own, which changes nothing here.                      *)
(***************************************************************************)
EXTENDS Integers, SequencesExt

Root == <<"projects", "p", "databases", "d", "documents">>

NoNamespace == ""

Empty == ""        \* the element between two slashes, or behind the last one

prefix_None(namespace, path) == path         \* mutant: the namespace is forgotten

(* The empty path is that of no elements by itself, and of an empty one      *)
(* behind the slash of a namespace.                                         *)
prefix(namespace, path) ==
  IF namespace = NoNamespace
    THEN path
    ELSE <<"namespaces", namespace>> \o (IF path = <<>> THEN <<Empty>> ELSE path)

(* Where a marker that ends what is stripped stands in a full path: it is   *)
(* between slashes, and the regular expression takes the last one.          *)
Marker(namespace) ==
  IF namespace = NoNamespace THEN <<"documents">> ELSE <<"namespaces", namespace>>

EndsOfMarker(namespace, path) ==
  LET m == Marker(namespace) IN
    { i \in Len(m) + 1 .. Len(path) - 1 : SubSeq(path, i - Len(m) + 1, i) = m }

strip_Root(namespace, path) == SubSeq(path, Len(Root) + 1, Len(path))  \* mutant: only the root

strip(namespace, path) ==
  LET ends == EndsOfMarker(namespace, path) IN
    IF ends = {} THEN path ELSE SubSeq(path, Max(ends) + 1, Len(path))

(* client.Doc and client.Collection: nil if the path has the wrong length or *)
(* an empty element.                                                        *)
IsPath(path) == path # <<>> /\ \A i \in DOMAIN path : path[i] # Empty
IsDoc(path) == IsPath(path) /\ Len(path) % 2 = 0
IsCollection(path) == IsPath(path) /\ Len(path) % 2 = 1

-------------------------------------------------------------------------------
Reply(db, err) == [db |-> db, err |-> err]

WithDoc(db, doc, n) == [d \in DOMAIN db \cup {doc} |-> IF d = doc THEN n ELSE db[d]]

Create(db, doc) == IF doc \in DOMAIN db THEN Reply(db, "ErrExists") ELSE Reply(WithDoc(db, doc, 0), "nil")

Set(db, doc) == Reply(WithDoc(db, doc, 0), "nil")

Delete(db, doc) == Reply([d \in DOMAIN db \ {doc} |-> db[d]], "nil")

Get(db, doc) == Reply(db, IF doc \in DOMAIN db THEN "nil" ELSE "ErrNotFound")

(* The error of a document that is not there is not translated. *)
AtomicAdd(db, doc) ==
  IF doc \in DOMAIN db THEN Reply(WithDoc(db, doc, db[doc] + 1), "nil") ELSE Reply(db, "rpc NotFound")

OnDocument == {"Create", "Set", "Delete", "Get", "AtomicAdd"}

List(namespace, db, col) ==
  [db |-> db, err |-> "nil",
   docs |-> { strip(namespace, Root \o d) : d \in { e \in DOMAIN db : Front(e) = col } }]

Do(namespace, op, given, db) ==
  LET path == prefix(namespace, given)
      isValid == IF op \in OnDocument THEN IsDoc(path) ELSE IsCollection(path) IN
    CASE ~isValid -> Reply(db, "ErrInvalid")
      [] isValid /\ op = "Create" -> Create(db, path)
      [] isValid /\ op = "Set" -> Set(db, path)
      [] isValid /\ op = "Delete" -> Delete(db, path)
      [] isValid /\ op = "Get" -> Get(db, path)
      [] isValid /\ op = "AtomicAdd" -> AtomicAdd(db, path)
      [] isValid /\ op = "List" -> List(namespace, db, path)
      [] isValid /\ op = "RawCollectionRef" -> Reply(db, "nil")

-------------------------------------------------------------------------------
(* The elements of paths that the package puts there, and a document's id. *)
Words == {"namespaces", "projects", "p", "databases", "d", "documents", "id", Empty}

Operations == OnDocument \cup {"List", "RawCollectionRef"}

(* A database is a function from paths of the elements E to numbers. *)
IsDatabase(db, E) ==
  (\A d \in DOMAIN db : d \in Seq(E) /\ IsDoc(d)) /\ db \in [DOMAIN db -> Int]

Inside(namespace, db) ==
  { d \in DOMAIN db : namespace = NoNamespace \/ IsPrefix(<<"namespaces", namespace>>, d) }

(* What an operation answers and changes depends only on the documents of   *)
(* its namespace, and is inside it (firestore.go:70-197).                   *)
StaysInItsNamespace(namespace, op, path, db) ==
  LET inside == Inside(namespace, db)
      own == [d \in inside |-> db[d]]
      r == Do(namespace, op, path, db)
      alone == Do(namespace, op, path, own) IN
    /\ [alone EXCEPT !.db = r.db] = r
    /\ Inside(namespace, alone.db) = DOMAIN alone.db
    /\ DOMAIN r.db = DOMAIN alone.db \cup (DOMAIN db \ inside)
    /\ \A d \in DOMAIN r.db : r.db[d] = IF d \in DOMAIN alone.db THEN alone.db[d] ELSE db[d]

(* Listed paths are those of the documents and can be given back, exactly   *)
(* when no elements of the collection's own path look like the end of what  *)
(* is stripped (firestore.go:53-57, 70-79, 149-175).                        *)
ListedIsFound(namespace, path, db) ==
  LET r == Do(namespace, "List", path, db)
      doc == Root \o prefix(namespace, path) \o <<"id">>
      misleading == { i \in EndsOfMarker(namespace, doc) : i > Len(doc) - Len(path) - 1 } IN
    r.err = "nil" /\ r.docs # {} =>
      ( misleading = {} <=>
          \A d \in r.docs : Front(d) = path /\ Do(namespace, "Get", d, db).err = "nil" )
===============================================================================
