---------------------------- MODULE FireStore_proofs ----------------------------
(***************************************************************************)
(* Theorems about FireStore, for any namespace, path and database: an      *)
(* operation stays in its namespace, and which listed paths can be given   *)
(* back.                                                                   *)
(***************************************************************************)
EXTENDS FireStore, SequenceTheorems, FiniteSetTheorems, WellFoundedInduction, TLAPS

Within(namespace, path) ==
  namespace = NoNamespace \/ IsPrefix(<<"namespaces", namespace>>, path)

-------------------------------------------------------------------------------
(* The paths of a namespace *)

LEMMA NamespaceMarker ==
  ASSUME NEW E, Words \subseteq E, NEW namespace \in E
  PROVE  /\ <<"namespaces", namespace>> \in Seq(E)
         /\ Len(<<"namespaces", namespace>>) = 2
         /\ <<"namespaces", namespace>>[1] = "namespaces"
         /\ <<"namespaces", namespace>>[2] = namespace
BY DEF Words

LEMMA PrefixShape ==
  ASSUME NEW E, Words \subseteq E, NEW namespace \in E, NEW path \in Seq(E), namespace # NoNamespace,
         path # <<>>
  PROVE  /\ prefix(namespace, path) \in Seq(E)
         /\ Len(prefix(namespace, path)) = Len(path) + 2
         /\ prefix(namespace, path)[1] = "namespaces"
         /\ prefix(namespace, path)[2] = namespace
         /\ \A i \in 1 .. Len(path) : prefix(namespace, path)[i + 2] = path[i]
<1> DEFINE m == <<"namespaces", namespace>>
<1>1. m \in Seq(E) /\ Len(m) = 2 /\ m[1] = "namespaces" /\ m[2] = namespace
  BY NamespaceMarker
<1>2. prefix(namespace, path) = m \o path
  BY DEF prefix
<1>3. Len(path) \in Nat
  BY LenProperties
<1> HIDE DEF m
<1>4. /\ m \o path \in Seq(E)
      /\ Len(m \o path) = Len(m) + Len(path)
      /\ \A i \in 1 .. Len(m) + Len(path) :
           (m \o path)[i] = IF i <= Len(m) THEN m[i] ELSE path[i - Len(m)]
  BY <1>1, ConcatProperties
<1>5. \A i \in 1 .. Len(path) : i + 2 \in 1 .. Len(m) + Len(path) /\ ~(i + 2 <= Len(m)) /\ i + 2 - Len(m) = i
  BY <1>1, <1>3
<1>6. \A i \in 1 .. Len(path) : (m \o path)[i + 2] = path[i]
  BY <1>4, <1>5
<1>7. 1 \in 1 .. Len(m) + Len(path) /\ 2 \in 1 .. Len(m) + Len(path)
  BY <1>1, <1>3
<1>8. (m \o path)[1] = "namespaces" /\ (m \o path)[2] = namespace
  BY <1>1, <1>4, <1>7
<1> QED BY <1>1, <1>2, <1>3, <1>4, <1>6, <1>8

(* With a namespace, the empty path becomes one with an empty element. *)
LEMMA PrefixOfNothing ==
  ASSUME NEW E, Words \subseteq E, NEW namespace \in E, namespace # NoNamespace
  PROVE  /\ <<Empty>> \in Seq(E) /\ <<Empty>> # <<>>
         /\ prefix(namespace, <<>>) = prefix(namespace, <<Empty>>)
         /\ ~IsPath(prefix(namespace, <<>>))
<1>1. Empty \in E
  BY DEF Words
<1>2. <<Empty>> \in Seq(E) /\ Len(<<Empty>>) = 1 /\ <<Empty>>[1] = Empty
  BY <1>1
<1>3. <<Empty>> # <<>>
  OBVIOUS
<1>4. prefix(namespace, <<>>) = prefix(namespace, <<Empty>>)
  BY <1>3 DEF prefix
<1>5. ASSUME NEW t \in Seq(E), t # <<>>, Len(t) = 1, t[1] = Empty
      PROVE  ~IsPath(prefix(namespace, t))
  <2>1. /\ prefix(namespace, t) \in Seq(E)
        /\ Len(prefix(namespace, t)) = Len(t) + 2
        /\ prefix(namespace, t)[1] = "namespaces"
        /\ prefix(namespace, t)[2] = namespace
        /\ \A i \in 1 .. Len(t) : prefix(namespace, t)[i + 2] = t[i]
    <3>1. t # <<>>
      BY <1>5
    <3> QED BY ONLY <3>1, PrefixShape, Words \subseteq E, namespace \in E, namespace # NoNamespace, t \in Seq(E)
  <2>2. 3 \in DOMAIN prefix(namespace, t) /\ prefix(namespace, t)[3] = Empty
    <3>1. 1 \in 1 .. Len(t) /\ 1 + 2 = 3 /\ Len(t) + 2 = 3
      BY <1>5
    <3> QED BY <1>5, <2>1, <3>1
  <2> QED BY <2>2 DEF IsPath
<1> QED BY <1>2, <1>3, <1>4, <1>5

(* To be within a namespace is a matter of the first two elements. *)
LEMMA WithinMeans ==
  ASSUME NEW E, Words \subseteq E, NEW namespace \in E, NEW path \in Seq(E), namespace # NoNamespace
  PROVE  Within(namespace, path) <=>
           Len(path) >= 2 /\ path[1] = "namespaces" /\ path[2] = namespace
<1> DEFINE m == <<"namespaces", namespace>>
<1>1. m \in Seq(E) /\ Len(m) = 2 /\ m[1] = "namespaces" /\ m[2] = namespace
  BY NamespaceMarker
<1>2. Within(namespace, path) <=> Len(m) <= Len(path) /\ SubSeq(m, 1, Len(m)) = SubSeq(path, 1, Len(m))
  BY DEF Within, IsPrefix
<1>3. Len(path) \in Nat
  BY LenProperties
<1> HIDE DEF m
<1>4. SubSeq(m, 1, Len(m)) = m
  BY <1>1, SubSeqFull
<1>5. ASSUME Len(path) >= 2
      PROVE  m = SubSeq(path, 1, 2) <=> path[1] = "namespaces" /\ path[2] = namespace
  <2> DEFINE s == SubSeq(path, 1, 2)
  <2>1. \A i \in 1 .. 2 : path[i] \in E
    BY <1>3, <1>5, ElementOfSeq
  <2>2. s \in Seq(E) /\ Len(s) = 2 /\ s[1] = path[1] /\ s[2] = path[2]
    BY <2>1, SubSeqProperties
  <2> HIDE DEF s
  <2>3. m[1] = s[1] /\ m[2] = s[2] => m = s
    <3>1. ASSUME m[1] = s[1], m[2] = s[2] PROVE \A i \in 1 .. Len(m) : m[i] = s[i]
      BY <1>1, <3>1
    <3> QED BY <1>1, <2>2, <3>1, SeqEqual
  <2> QED BY <1>1, <2>2, <2>3 DEF s
<1> QED BY <1>1, <1>2, <1>3, <1>4, <1>5

LEMMA PrefixIsWithin ==
  ASSUME NEW E, Words \subseteq E, NEW namespace \in E, NEW path \in Seq(E)
  PROVE  prefix(namespace, path) \in Seq(E) /\ Within(namespace, prefix(namespace, path))
<1>1. CASE namespace = NoNamespace
  BY <1>1 DEF prefix, Within
<1>2. CASE namespace # NoNamespace
  <2>1. PICK t \in Seq(E) : t # <<>> /\ prefix(namespace, path) = prefix(namespace, t)
    BY <1>2, PrefixOfNothing
  <2>2. Len(t) \in Nat
    BY LenProperties
  <2>3. prefix(namespace, t) \in Seq(E) /\ Within(namespace, prefix(namespace, t))
    BY <1>2, <2>1, <2>2, PrefixShape, WithinMeans
  <2> QED BY <2>1, <2>3
<1> QED BY <1>1, <1>2

(* A path without its last element. *)
LEMMA FrontShape ==
  ASSUME NEW E, NEW d \in Seq(E)
  PROVE  /\ Front(d) \in Seq(E)
         /\ d = <<>> => Front(d) = <<>>
         /\ d # <<>> => Len(d) \in Nat \ {0} /\ Len(Front(d)) = Len(d) - 1
         /\ \A i \in 1 .. Len(Front(d)) : Front(d)[i] = d[i]
<1>1. Len(d) \in Nat
  BY LenProperties
<1>2. CASE d = <<>>
  <2>1. Len(d) = 0
    BY <1>2
  <2>2. Front(d) = <<>>
    BY <2>1, SubSeqEmpty DEF Front
  <2> QED BY <1>2, <2>2
<1>3. CASE d # <<>>
  <2>1. Len(d) # 0
    BY <1>3, EmptySeq
  <2>2. PICK n \in Nat : n = Len(d) - 1
    BY <1>1, <2>1
  <2>3. \A i \in 1 .. n : d[i] \in E
    BY <1>1, <2>2, ElementOfSeq
  <2>4. /\ SubSeq(d, 1, n) \in Seq(E)
        /\ Len(SubSeq(d, 1, n)) = n
        /\ \A i \in 1 .. n : SubSeq(d, 1, n)[i] = d[i]
    <3>1. 1 \in Int /\ n \in Int /\ (IF 1 <= n THEN 1 + n - 1 ELSE 0) = n
      BY <2>2
    <3> QED BY <2>3, <3>1, SubSeqProperties
  <2>5. Front(d) = SubSeq(d, 1, n)
    BY <2>2 DEF Front
  <2> QED BY <1>1, <1>3, <2>1, <2>2, <2>4, <2>5
<1> QED BY <1>2, <1>3

(* The documents of a collection within a namespace are within it. *)
LEMMA DocumentIsWithin ==
  ASSUME NEW E, Words \subseteq E, NEW namespace \in E, NEW d \in Seq(E), Within(namespace, Front(d))
  PROVE  Within(namespace, d)
<1>1. CASE namespace = NoNamespace
  BY <1>1 DEF Within
<1>2. CASE namespace # NoNamespace
  <2>1. Len(Front(d)) >= 2 /\ Front(d)[1] = "namespaces" /\ Front(d)[2] = namespace
    BY <1>2, FrontShape, WithinMeans
  <2>2. d # <<>>
    <3>1. Len(<<>>) = 0
      OBVIOUS
    <3> QED BY <2>1, <3>1, FrontShape
  <2>3. Len(Front(d)) \in Nat /\ Len(d) = Len(Front(d)) + 1
    BY <2>2, FrontShape
  <2>4. Front(d)[1] = d[1] /\ Front(d)[2] = d[2]
    BY <2>1, <2>3, FrontShape
  <2> QED BY <1>2, <2>1, <2>3, <2>4, WithinMeans
<1> QED BY <1>1, <1>2

-------------------------------------------------------------------------------
(* A database and the part of it that is inside a namespace *)

Own(namespace, db) == [d \in Inside(namespace, db) |-> db[d]]

(* The four parts of StaysInItsNamespace, of two replies. *)
Apart(namespace, db, r, alone) ==
  /\ [alone EXCEPT !.db = r.db] = r
  /\ Inside(namespace, alone.db) = DOMAIN alone.db
  /\ DOMAIN r.db = DOMAIN alone.db \cup (DOMAIN db \ Inside(namespace, db))
  /\ \A d \in DOMAIN r.db : r.db[d] = IF d \in DOMAIN alone.db THEN alone.db[d] ELSE db[d]

LEMMA InsideMeans ==
  ASSUME NEW namespace, NEW db
  PROVE  /\ Inside(namespace, db) = {d \in DOMAIN db : Within(namespace, d)}
         /\ DOMAIN Own(namespace, db) = Inside(namespace, db)
         /\ \A d \in Inside(namespace, db) : Own(namespace, db)[d] = db[d]
BY DEF Inside, Within, Own

LEMMA NothingChanges ==
  ASSUME NEW namespace, NEW db, NEW err
  PROVE  Apart(namespace, db, Reply(db, err), Reply(Own(namespace, db), err))
<1> DEFINE own == Own(namespace, db)
<1>1. /\ DOMAIN own = Inside(namespace, db)
      /\ \A d \in DOMAIN own : own[d] = db[d]
      /\ \A d \in DOMAIN own : Within(namespace, d) /\ d \in DOMAIN db
  BY InsideMeans
<1>2. Inside(namespace, own) = DOMAIN own
  BY <1>1, InsideMeans
<1> HIDE DEF own
<1>3. /\ Reply(db, err).db = db /\ Reply(own, err).db = own
      /\ [Reply(own, err) EXCEPT !.db = db] = Reply(db, err)
  BY DEF Reply
<1> QED BY <1>1, <1>2, <1>3 DEF Apart, own

LEMMA DocumentChanges ==
  ASSUME NEW namespace, NEW db, NEW err, NEW doc, NEW n, Within(namespace, doc)
  PROVE  Apart(namespace, db, Reply(WithDoc(db, doc, n), err),
               Reply(WithDoc(Own(namespace, db), doc, n), err))
<1> DEFINE own == Own(namespace, db)
           new == WithDoc(db, doc, n)
           newOwn == WithDoc(own, doc, n)
<1>1. /\ DOMAIN own = Inside(namespace, db)
      /\ \A d \in DOMAIN own : own[d] = db[d]
      /\ \A d \in DOMAIN db : d \in DOMAIN own <=> Within(namespace, d)
      /\ DOMAIN own \subseteq DOMAIN db
  BY InsideMeans
<1> HIDE DEF own
<1>2. /\ DOMAIN new = DOMAIN db \cup {doc} /\ DOMAIN newOwn = DOMAIN own \cup {doc}
      /\ \A d \in DOMAIN new : new[d] = IF d = doc THEN n ELSE db[d]
      /\ \A d \in DOMAIN newOwn : newOwn[d] = IF d = doc THEN n ELSE own[d]
  BY DEF WithDoc
<1> HIDE DEF new, newOwn
<1>3. Inside(namespace, newOwn) = DOMAIN newOwn
  BY <1>1, <1>2, InsideMeans
<1>4. /\ Reply(new, err).db = new /\ Reply(newOwn, err).db = newOwn
      /\ [Reply(newOwn, err) EXCEPT !.db = new] = Reply(new, err)
  BY DEF Reply
<1>5. DOMAIN new = DOMAIN newOwn \cup (DOMAIN db \ Inside(namespace, db))
  BY <1>1, <1>2
<1>6. \A d \in DOMAIN new : new[d] = IF d \in DOMAIN newOwn THEN newOwn[d] ELSE db[d]
  BY <1>1, <1>2
<1> QED BY <1>3, <1>4, <1>5, <1>6 DEF Apart, own, new, newOwn

LEMMA DocumentGoes ==
  ASSUME NEW namespace, NEW db, NEW doc, Within(namespace, doc)
  PROVE  Apart(namespace, db, Delete(db, doc), Delete(Own(namespace, db), doc))
<1> DEFINE own == Own(namespace, db)
           new == [d \in DOMAIN db \ {doc} |-> db[d]]
           newOwn == [d \in DOMAIN own \ {doc} |-> own[d]]
<1>1. /\ DOMAIN own = Inside(namespace, db)
      /\ \A d \in DOMAIN own : own[d] = db[d]
      /\ \A d \in DOMAIN db : d \in DOMAIN own <=> Within(namespace, d)
      /\ DOMAIN own \subseteq DOMAIN db
  BY InsideMeans
<1> HIDE DEF own
<1>2. /\ DOMAIN new = DOMAIN db \ {doc} /\ DOMAIN newOwn = DOMAIN own \ {doc}
      /\ \A d \in DOMAIN new : new[d] = db[d]
      /\ \A d \in DOMAIN newOwn : newOwn[d] = own[d]
      /\ Delete(db, doc) = Reply(new, "nil") /\ Delete(own, doc) = Reply(newOwn, "nil")
  BY DEF Delete
<1> HIDE DEF new, newOwn
<1>3. Inside(namespace, newOwn) = DOMAIN newOwn
  BY <1>1, <1>2, InsideMeans
<1>4. /\ Reply(new, "nil").db = new /\ Reply(newOwn, "nil").db = newOwn
      /\ [Reply(newOwn, "nil") EXCEPT !.db = new] = Reply(new, "nil")
  BY DEF Reply
<1>5. DOMAIN new = DOMAIN newOwn \cup (DOMAIN db \ Inside(namespace, db))
  <2>1. doc \in DOMAIN db => doc \in DOMAIN own
    BY <1>1
  <2> QED BY <1>1, <1>2, <2>1
<1>6. \A d \in DOMAIN new : new[d] = IF d \in DOMAIN newOwn THEN newOwn[d] ELSE db[d]
  BY <1>1, <1>2
<1> QED BY <1>2, <1>3, <1>4, <1>5, <1>6 DEF Apart, own

LEMMA ListingIsApart ==
  ASSUME NEW E, Words \subseteq E, NEW namespace \in E,
         NEW db, IsDatabase(db, E), NEW col \in Seq(E),
         Within(namespace, col)
  PROVE  Apart(namespace, db, List(namespace, db, col), List(namespace, Own(namespace, db), col))
<1> DEFINE own == Own(namespace, db)
<1>1. /\ DOMAIN own = Inside(namespace, db)
      /\ \A d \in DOMAIN own : own[d] = db[d]
      /\ \A d \in DOMAIN db : d \in DOMAIN own <=> Within(namespace, d)
      /\ DOMAIN own \subseteq DOMAIN db
  BY InsideMeans
<1>2. Inside(namespace, own) = DOMAIN own
  BY <1>1, InsideMeans
<1> HIDE DEF own
<1>3. \A d \in DOMAIN db : Front(d) = col => d \in DOMAIN own
  BY <1>1, DocumentIsWithin DEF IsDatabase
<1>4. { e \in DOMAIN db : Front(e) = col } = { e \in DOMAIN own : Front(e) = col }
  BY <1>1, <1>3
<1>5. PICK docs : docs = { strip(namespace, Root \o d) : d \in { e \in DOMAIN db : Front(e) = col } }
  OBVIOUS
<1>6. /\ List(namespace, db, col) = [db |-> db, err |-> "nil", docs |-> docs]
      /\ List(namespace, own, col) = [db |-> own, err |-> "nil", docs |-> docs]
  BY <1>4, <1>5 DEF List
<1>7. /\ List(namespace, db, col).db = db /\ List(namespace, own, col).db = own
      /\ [List(namespace, own, col) EXCEPT !.db = db] = List(namespace, db, col)
  BY <1>6
<1> QED BY <1>1, <1>2, <1>7 DEF Apart, own

(* Whatever the namespace, the operation, its path and the documents of all  *)
(* namespaces: an operation answers by the documents of its own namespace,   *)
(* changes them as if there were no others, and leaves the others alone      *)
(* (firestore.go:70-197).                                                    *)
THEOREM NamespacesStayApart ==
  ASSUME NEW E, Words \subseteq E, NEW namespace \in E,
         NEW op \in Operations, NEW path \in Seq(E),
         NEW db, IsDatabase(db, E)
  PROVE  StaysInItsNamespace(namespace, op, path, db)
<1> DEFINE p == prefix(namespace, path)
           own == Own(namespace, db)
           isValid == IF op \in OnDocument THEN IsDoc(p) ELSE IsCollection(p)
<1>1. SUFFICES Apart(namespace, db, Do(namespace, op, path, db), Do(namespace, op, path, own))
  BY DEF StaysInItsNamespace, Apart, Own
<1>2. p \in Seq(E) /\ Within(namespace, p)
  BY PrefixIsWithin
<1>3. /\ p \in DOMAIN db <=> p \in DOMAIN own
      /\ p \in DOMAIN own => own[p] = db[p]
  BY <1>2, InsideMeans
<1>4. CASE ~isValid
  <2>1. /\ Do(namespace, op, path, db) = Reply(db, "ErrInvalid")
        /\ Do(namespace, op, path, own) = Reply(own, "ErrInvalid")
    BY <1>4 DEF Do
  <2> QED BY <2>1, NothingChanges
<1> HIDE DEF p, own
<1>5. CASE isValid /\ op = "Create"
  <2>1. /\ Do(namespace, op, path, db) = Create(db, p)
        /\ Do(namespace, op, path, own) = Create(own, p)
    BY <1>5 DEF Do, p
  <2>2. CASE p \in DOMAIN db
    BY <1>3, <2>1, <2>2, NothingChanges DEF Create, own
  <2>3. CASE p \notin DOMAIN db
    BY <1>2, <1>3, <2>1, <2>3, DocumentChanges DEF Create, own
  <2> QED BY <2>2, <2>3
<1>6. CASE isValid /\ op = "Set"
  <2>1. /\ Do(namespace, op, path, db) = Set(db, p)
        /\ Do(namespace, op, path, own) = Set(own, p)
    BY <1>6 DEF Do, p
  <2> QED BY <1>2, <2>1, DocumentChanges DEF Set, own
<1>7. CASE isValid /\ op = "Delete"
  <2>1. /\ Do(namespace, op, path, db) = Delete(db, p)
        /\ Do(namespace, op, path, own) = Delete(own, p)
    BY <1>7 DEF Do, p
  <2> QED BY <1>2, <2>1, DocumentGoes DEF own
<1>8. CASE isValid /\ op = "Get"
  <2>1. /\ Do(namespace, op, path, db) = Get(db, p)
        /\ Do(namespace, op, path, own) = Get(own, p)
    BY <1>8 DEF Do, p
  <2> QED BY <1>3, <2>1, NothingChanges DEF Get, own
<1>9. CASE isValid /\ op = "AtomicAdd"
  <2>1. /\ Do(namespace, op, path, db) = AtomicAdd(db, p)
        /\ Do(namespace, op, path, own) = AtomicAdd(own, p)
    BY <1>9 DEF Do, p
  <2>2. CASE p \in DOMAIN db
    BY <1>2, <1>3, <2>1, <2>2, DocumentChanges DEF AtomicAdd, own
  <2>3. CASE p \notin DOMAIN db
    BY <1>3, <2>1, <2>3, NothingChanges DEF AtomicAdd, own
  <2> QED BY <2>2, <2>3
<1>10. CASE isValid /\ op = "List"
  <2>1. /\ Do(namespace, op, path, db) = List(namespace, db, p)
        /\ Do(namespace, op, path, own) = List(namespace, own, p)
    BY <1>10 DEF Do, p
  <2> QED BY <1>2, <2>1, ListingIsApart DEF own
<1>11. CASE isValid /\ op = "RawCollectionRef"
  <2>1. /\ Do(namespace, op, path, db) = Reply(db, "nil")
        /\ Do(namespace, op, path, own) = Reply(own, "nil")
    BY <1>11 DEF Do, p
  <2> QED BY <2>1, NothingChanges DEF own
<1>12. op \in {"Create", "Set", "Delete", "Get", "AtomicAdd", "List", "RawCollectionRef"}
  BY DEF Operations, OnDocument
<1> QED
  BY <1>4, <1>5, <1>6, <1>7, <1>8, <1>9, <1>10, <1>11, <1>12

-------------------------------------------------------------------------------
(* What is stripped from a listed path *)

(* The largest of some of the numbers from 1 to n is one of them.  Its part  *)
(* of the set, what is from it on, is the least such part.                   *)
LEMMA MaxOfSome ==
  ASSUME NEW n \in Nat, NEW S, S \subseteq 1 .. n, S # {}
  PROVE  Max(S) \in S /\ \A x \in S : Max(S) >= x
<1> DEFINE From(x) == S \cap (x .. n)
           Parts == {From(x) : x \in S}
<1>1. IsWellFoundedOn(StrictSubsetOrdering(S), SUBSET S)
  <2>1. IsFiniteSet(S)
    <3>1. IsFiniteSet(1 .. n)
      BY FS_Interval
    <3> QED BY <3>1, FS_Subset
  <2> QED BY <2>1, FS_StrictSubsetOrderingWellFounded, FS_FiniteSubsetsOfFinite
<1>2. Parts \subseteq SUBSET S /\ Parts # {}
  OBVIOUS
<1>3. PICK T \in Parts : \A U \in Parts : <<U, T>> \notin StrictSubsetOrdering(S)
  <2> HIDE DEF Parts
  <2> QED BY <1>1, <1>2, WFMin
<1>4. PICK a \in S : T = From(a)
  BY <1>3
<1>5. ASSUME NEW x \in S, a < x PROVE FALSE
  <2>1. From(x) \in Parts /\ From(x) \subseteq T /\ a \in T /\ a \notin From(x)
    BY <1>4, <1>5
  <2>2. <<From(x), T>> \in StrictSubsetOrdering(S)
    <3> HIDE DEF From
    <3>1. From(x) \in SUBSET S /\ T \in SUBSET S
      BY <1>2, <1>3, <2>1
    <3> QED BY <2>1, <3>1 DEF StrictSubsetOrdering
  <2> QED BY <1>3, <2>1, <2>2
<1>6. \A x \in S : a >= x
  BY <1>5
<1> QED BY <1>6 DEF Max

LEMMA RootShape ==
  ASSUME NEW E, Words \subseteq E
  PROVE  Root \in Seq(E) /\ Len(Root) = 5 /\ Root[5] = "documents"
BY DEF Root, Words

(* The name of a document: the root and then its path. *)
LEMMA NameShape ==
  ASSUME NEW E, Words \subseteq E, NEW d \in Seq(E)
  PROVE  /\ Root \o d \in Seq(E)
         /\ Len(d) \in Nat /\ Len(Root \o d) = Len(d) + 5
         /\ \A i \in 1 .. 5 : (Root \o d)[i] = Root[i]
         /\ \A i \in 1 .. Len(d) : (Root \o d)[i + 5] = d[i]
<1>1. Len(d) \in Nat
  BY LenProperties
<1>2. Root \in Seq(E) /\ Len(Root) = 5
  BY RootShape
<1> DEFINE l == Len(d)
           f == Root \o d
<1>3. /\ f \in Seq(E) /\ Len(f) = 5 + l
      /\ \A i \in 1 .. 5 + l : f[i] = IF i <= 5 THEN Root[i] ELSE d[i - 5]
  <2> HIDE DEF f, l
  <2>1. /\ Root \o d \in Seq(E) /\ Len(Root \o d) = Len(Root) + Len(d)
        /\ \A i \in 1 .. Len(Root) + Len(d) :
             (Root \o d)[i] = IF i <= Len(Root) THEN Root[i] ELSE d[i - Len(Root)]
    BY <1>2, ConcatProperties
  <2> QED BY <1>2, <2>1 DEF f, l
<1> HIDE DEF f, l
<1>4. l \in Nat
  BY <1>1 DEF l
<1>5. \A i \in 1 .. 5 : f[i] = Root[i]
  BY <1>3, <1>4
<1>6. \A i \in 1 .. l : f[i + 5] = d[i]
  <2> SUFFICES ASSUME NEW i \in 1 .. l PROVE f[i + 5] = d[i]
    OBVIOUS
  <2>1. i + 5 \in 1 .. 5 + l /\ ~(i + 5 <= 5) /\ i + 5 - 5 = i
    BY <1>4
  <2> QED BY <1>3, <2>1
<1>7. f \in Seq(E) /\ l \in Nat /\ Len(f) = l + 5
  BY <1>3, <1>4
<1> QED BY <1>5, <1>6, <1>7 DEF f, l

(* The markers in a name do not depend on its last element. *)
LEMMA SameMarkers ==
  ASSUME NEW E, Words \subseteq E, NEW namespace \in E,
         NEW s \in Seq(E), NEW t \in Seq(E), Len(s) = Len(t),
         \A i \in 1 .. Len(s) - 1 : s[i] = t[i]
  PROVE  EndsOfMarker(namespace, s) = EndsOfMarker(namespace, t)
<1> DEFINE k == Len(Marker(namespace))
<1>1. k \in 1 .. 2
  BY DEF Marker
<1>2. Len(s) \in Nat
  BY LenProperties
<1> HIDE DEF k
<1>3. ASSUME NEW i \in k + 1 .. Len(s) - 1
      PROVE  SubSeq(s, i - k + 1, i) = SubSeq(t, i - k + 1, i)
  <2> DEFINE b == i - k + 1
             u == SubSeq(s, b, i)
             v == SubSeq(t, b, i)
  <2>1. b \in Int /\ i \in Int /\ b >= 2 /\ b <= i /\ i - b + 1 = k
    BY <1>1, <1>2, <1>3
  <2>2. \A j \in b .. i : j \in 1 .. Len(s) /\ j \in 1 .. Len(s) - 1
    BY <1>1, <1>2, <1>3
  <2>3. \A j \in b .. i : s[j] \in E /\ t[j] \in E /\ s[j] = t[j]
    BY <2>2, ElementOfSeq
  <2> HIDE DEF b
  <2>4. /\ u \in Seq(E) /\ Len(u) = k /\ \A j \in 1 .. k : u[j] = s[b + j - 1]
        /\ v \in Seq(E) /\ Len(v) = k /\ \A j \in 1 .. k : v[j] = t[b + j - 1]
    BY <2>1, <2>3, SubSeqProperties
  <2>5. \A j \in 1 .. k : b + j - 1 \in b .. i
    BY <1>1, <2>1
  <2>6. \A j \in 1 .. k : u[j] = v[j]
    BY <2>3, <2>4, <2>5
  <2> HIDE DEF u, v
  <2>7. u = v
    BY <2>4, <2>6, SeqEqual
  <2> QED BY <2>7 DEF u, v, b
<1> QED BY <1>3 DEF EndsOfMarker, k

(* The last element of what the package puts before a path ends a marker. *)
Before(namespace) == IF namespace = NoNamespace THEN 5 ELSE 7

LEMMA OwnMarker ==
  ASSUME NEW E, Words \subseteq E, NEW namespace \in E, NEW f \in Seq(E),
         Len(f) > Before(namespace) + 1,
         namespace = NoNamespace => f[5] = "documents",
         namespace # NoNamespace => f[6] = "namespaces" /\ f[7] = namespace
  PROVE  Before(namespace) \in EndsOfMarker(namespace, f)
<1>1. Len(f) \in Nat
  BY LenProperties
<1>2. \A i \in 1 .. Len(f) : f[i] \in E
  BY ElementOfSeq
<1>3. CASE namespace = NoNamespace
  <2>1. Marker(namespace) = <<"documents">> /\ Before(namespace) = 5
    BY <1>3 DEF Marker, Before
  <2>2. <<"documents">> \in Seq(E) /\ Len(<<"documents">>) = 1
    BY DEF Words
  <2>3. SubSeq(f, 5, 5) \in Seq(E) /\ Len(SubSeq(f, 5, 5)) = 1 /\ SubSeq(f, 5, 5)[1] = f[5]
    <3>1. \A i \in 5 .. 5 : f[i] \in E
      BY <1>1, <1>2, <2>1
    <3> QED BY <3>1, SubSeqProperties
  <2>4. SubSeq(f, 5, 5) = <<"documents">>
    <3>1. <<"documents">>[1] = "documents"
      OBVIOUS
    <3>2. \A i \in 1 .. 1 : SubSeq(f, 5, 5)[i] = <<"documents">>[i]
      BY <1>3, <2>3, <3>1
    <3> QED BY <2>2, <2>3, <3>2, SeqEqual
  <2>5. 5 \in 1 + 1 .. Len(f) - 1 /\ 5 - 1 + 1 = 5
    BY <1>1, <2>1
  <2> QED BY <2>1, <2>2, <2>4, <2>5 DEF EndsOfMarker
<1>4. CASE namespace # NoNamespace
  <2>1. Marker(namespace) = <<"namespaces", namespace>> /\ Before(namespace) = 7
    BY <1>4 DEF Marker, Before
  <2> DEFINE m == <<"namespaces", namespace>>
  <2>2. m \in Seq(E) /\ Len(m) = 2 /\ m[1] = "namespaces" /\ m[2] = namespace
    BY NamespaceMarker
  <2>3. /\ SubSeq(f, 6, 7) \in Seq(E) /\ Len(SubSeq(f, 6, 7)) = 2
        /\ SubSeq(f, 6, 7)[1] = f[6] /\ SubSeq(f, 6, 7)[2] = f[7]
    <3>1. \A i \in 6 .. 7 : f[i] \in E
      BY <1>1, <1>2, <2>1
    <3> QED BY <3>1, SubSeqProperties
  <2> HIDE DEF m
  <2>4. SubSeq(f, 6, 7) = m
    <3>1. \A i \in 1 .. 2 : SubSeq(f, 6, 7)[i] = m[i]
      BY <1>4, <2>2, <2>3
    <3> QED BY <2>2, <2>3, <3>1, SeqEqual
  <2>5. 7 \in 2 + 1 .. Len(f) - 1 /\ 7 - 2 + 1 = 6
    BY <1>1, <2>1
  <2> QED BY <2>1, <2>2, <2>4, <2>5 DEF EndsOfMarker, m
<1> QED BY <1>3, <1>4

(* The path stands in a name behind its first b elements.                    *)
StandsBehind(path, b, name) == \A i \in 1 .. Len(path) : name[b + i] = path[i]

(* A document d of the collection at path: how long its path is, where the   *)
(* path given by the caller begins in it, and which markers its name has.    *)
LEMMA DocumentShape ==
  ASSUME NEW E, Words \subseteq E, NEW namespace \in E, NEW path \in Seq(E),
         NEW d \in Seq(E), Front(d) = prefix(namespace, path), Len(path) > 0
  PROVE  /\ Root \o d \in Seq(E) /\ Len(path) \in Nat
         /\ Len(Root \o d) = Before(namespace) + Len(path) + 1
         /\ Len(Root \o prefix(namespace, path) \o <<"id">>) = Len(Root \o d)
         /\ Len(d) = Len(prefix(namespace, path)) + 1
         /\ StandsBehind(path, Before(namespace), Root \o d)
         /\ EndsOfMarker(namespace, Root \o d)
              = EndsOfMarker(namespace, Root \o prefix(namespace, path) \o <<"id">>)
         /\ Before(namespace) \in EndsOfMarker(namespace, Root \o d)
<1> DEFINE p == prefix(namespace, path)
           name == Root \o d
           doc == Root \o p \o <<"id">>
<1>1. p \in Seq(E) /\ Len(p) \in Nat /\ Len(path) \in Nat
  BY PrefixIsWithin, LenProperties
<1>2. PICK b \in {0, 2} : /\ Before(namespace) = b + 5 /\ Len(p) = Len(path) + b
                          /\ \A i \in 1 .. Len(path) : p[i + b] = path[i]
                          /\ b = 0 <=> namespace = NoNamespace
                          /\ b = 2 => p[1] = "namespaces" /\ p[2] = namespace
  <2>1. CASE namespace = NoNamespace
    <3>1. p = path /\ Before(namespace) = 5
      BY <2>1 DEF prefix, Before
    <3> QED BY <1>1, <2>1, <3>1
  <2>2. CASE namespace # NoNamespace
    <3>1. path # <<>>
      <4>1. Len(<<>>) = 0
        OBVIOUS
      <4> QED BY <4>1
    <3> QED BY <1>1, <2>2, <3>1, PrefixShape DEF Before
  <2> QED BY <2>1, <2>2
<1>3. d # <<>> /\ Len(d) \in Nat /\ Len(d) = Len(p) + 1 /\ \A i \in 1 .. Len(p) : d[i] = p[i]
  <2>1. Len(p) > 0
    BY <1>1, <1>2
  <2>2. d # <<>>
    <3>1. Len(<<>>) = 0
      OBVIOUS
    <3> QED BY <2>1, <3>1, FrontShape
  <2> QED BY <1>1, <2>2, FrontShape
<1>4. /\ name \in Seq(E) /\ Len(name) = Len(d) + 5
      /\ \A i \in 1 .. 5 : name[i] = Root[i]
      /\ \A i \in 1 .. Len(d) : name[i + 5] = d[i]
  BY NameShape
<1>5. /\ Root \o p \in Seq(E) /\ Len(Root \o p) = Len(p) + 5
      /\ \A i \in 1 .. 5 : (Root \o p)[i] = Root[i]
      /\ \A i \in 1 .. Len(p) : (Root \o p)[i + 5] = p[i]
  BY <1>1, NameShape
<1>6. <<"id">> \in Seq(E) /\ Len(<<"id">>) = 1
  BY DEF Words
<1>7. /\ doc \in Seq(E) /\ Len(doc) = Len(p) + 6
      /\ \A i \in 1 .. Len(p) + 5 : doc[i] = (Root \o p)[i]
  <2> DEFINE r == Root \o p
             x == <<"id">>
  <2>1. r \in Seq(E) /\ Len(r) = Len(p) + 5 /\ x \in Seq(E) /\ Len(x) = 1
    BY <1>5, <1>6
  <2> HIDE DEF r, x
  <2>2. /\ r \o x \in Seq(E) /\ Len(r \o x) = Len(r) + Len(x)
        /\ \A i \in 1 .. Len(r) + Len(x) :
             (r \o x)[i] = IF i <= Len(r) THEN r[i] ELSE x[i - Len(r)]
    BY <2>1, ConcatProperties
  <2>3. /\ Len(r \o x) = Len(p) + 6
        /\ \A i \in 1 .. Len(p) + 5 : (r \o x)[i] = r[i]
    BY <1>1, <2>1, <2>2
  <2> QED BY <2>2, <2>3 DEF r, x
<1> HIDE DEF p, name, doc
<1>8. Len(name) = Before(namespace) + Len(path) + 1 /\ Len(doc) = Len(name)
  BY <1>1, <1>2, <1>3, <1>4, <1>7
<1>9. \A i \in 1 .. Len(path) : name[Before(namespace) + i] = path[i]
  <2> SUFFICES ASSUME NEW i \in 1 .. Len(path) PROVE name[Before(namespace) + i] = path[i]
    OBVIOUS
  <2>1. i + b \in 1 .. Len(p) /\ i + b \in 1 .. Len(d) /\ Before(namespace) + i = (i + b) + 5
    BY <1>1, <1>2, <1>3
  <2> QED BY <1>2, <1>3, <1>4, <2>1
<1>10. EndsOfMarker(namespace, name) = EndsOfMarker(namespace, doc)
  <2>1. ASSUME NEW i \in 1 .. Len(name) - 1 PROVE name[i] = doc[i]
    <3>1. i \in 1 .. Len(p) + 5
      BY <1>1, <1>3, <1>4, <2>1
    <3>2. doc[i] = (Root \o p)[i]
      BY <1>7, <3>1
    <3>3. CASE i \in 1 .. 5
      BY <1>4, <1>5, <3>2, <3>3
    <3>4. CASE i \notin 1 .. 5
      <4>1. PICK j \in 1 .. Len(p) : i = j + 5
        <5>1. i - 5 \in 1 .. Len(p) /\ i = (i - 5) + 5
          BY <1>1, <3>1, <3>4
        <5> QED BY <5>1
      <4>2. j \in 1 .. Len(d)
        BY <1>1, <1>3
      <4>3. name[i] = d[j] /\ (Root \o p)[i] = p[j] /\ d[j] = p[j]
        BY <1>3, <1>4, <1>5, <4>1, <4>2
      <4> QED BY <3>2, <4>3
    <3> QED BY <3>3, <3>4
  <2> QED BY <1>4, <1>7, <1>8, <2>1, SameMarkers
<1>11. Before(namespace) \in EndsOfMarker(namespace, name)
  <2>1. name[5] = "documents"
    BY <1>4, RootShape
  <2>2. ASSUME b = 2 PROVE name[6] = "namespaces" /\ name[7] = namespace
    <3>1. 1 \in 1 .. Len(p) /\ 2 \in 1 .. Len(p) /\ 1 \in 1 .. Len(d) /\ 2 \in 1 .. Len(d)
      BY <1>1, <1>2, <1>3, <2>2
    <3>2. name[1 + 5] = d[1] /\ name[2 + 5] = d[2] /\ d[1] = p[1] /\ d[2] = p[2]
      BY <1>3, <1>4, <3>1
    <3> QED BY <1>2, <2>2, <3>2
  <2>3. Len(name) > Before(namespace) + 1
    BY <1>1, <1>2, <1>8
  <2> QED BY <1>2, <1>4, <2>1, <2>2, <2>3, OwnMarker
<1>12. StandsBehind(path, Before(namespace), name)
  BY <1>9 DEF StandsBehind
<1> QED BY <1>1, <1>3, <1>4, <1>8, <1>10, <1>11, <1>12 DEF p, name, doc

(* Whatever its name: markers stand in the path of a document where they do  *)
(* in that of any document of its collection.                                *)
LEMMA AnyDocument ==
  ASSUME NEW E, Words \subseteq E, NEW namespace \in E, NEW path \in Seq(E),
         NEW d \in Seq(E), Front(d) = prefix(namespace, path), Len(path) > 0,
         NEW doc, doc = Root \o prefix(namespace, path) \o <<"id">>
  PROVE  Len(doc) = Len(Root \o d) /\ EndsOfMarker(namespace, Root \o d) = EndsOfMarker(namespace, doc)
<1>1. Len(doc) = Len(Root \o d)
  BY DocumentShape
<1>2. EndsOfMarker(namespace, Root \o d) = EndsOfMarker(namespace, doc)
  BY DocumentShape
<1> QED BY <1>1, <1>2

(* List strips the path of a document back to that of its collection as it   *)
(* was given, exactly when no marker stands behind its own; the path is then *)
(* that of the document.                                                     *)
LEMMA StripShape ==
  ASSUME NEW E, Words \subseteq E, NEW namespace \in E, NEW path \in Seq(E),
         NEW d \in Seq(E), Front(d) = prefix(namespace, path), Len(path) > 0
  PROVE  LET name == Root \o d
             given == strip(namespace, name)
             later == {i \in EndsOfMarker(namespace, name) : i > Before(namespace)} IN
           /\ later = {} => given \in Seq(E) /\ Front(given) = path /\ prefix(namespace, given) = d
           /\ later # {} => Front(given) # path
<1> DEFINE name == Root \o d
           given == strip(namespace, name)
           ends == EndsOfMarker(namespace, name)
           later == {i \in ends : i > Before(namespace)}
           l == Len(name)
           b == Before(namespace)
<1>1. /\ name \in Seq(E) /\ Len(path) \in Nat /\ l = b + Len(path) + 1
      /\ \A i \in 1 .. Len(path) : name[b + i] = path[i]
      /\ b \in ends
      /\ Len(d) = Len(prefix(namespace, path)) + 1
  <2>1. name \in Seq(E) /\ Len(path) \in Nat
    BY DocumentShape
  <2>2. l = b + Len(path) + 1
    BY DocumentShape
  <2>3. \A i \in 1 .. Len(path) : name[b + i] = path[i]
    <3>1. StandsBehind(path, b, name)
      BY DocumentShape
    <3> QED BY <3>1 DEF StandsBehind
  <2>4. b \in ends
    BY DocumentShape
  <2>5. Len(d) = Len(prefix(namespace, path)) + 1
    BY DocumentShape
  <2> QED BY <2>1, <2>2, <2>3, <2>4, <2>5
<1>2. b \in {5, 7} /\ l \in Nat
  BY <1>1, LenProperties DEF Before
<1>3. ends \subseteq 1 .. l - 1
  BY <1>2, LenProperties DEF EndsOfMarker, Marker
<1> HIDE DEF ends
<1>4. PICK e \in ends : e = Max(ends) /\ \A x \in ends : e >= x
  <2>1. l - 1 \in Nat /\ ends # {}
    BY <1>1, <1>2
  <2> HIDE DEF l
  <2> QED BY <1>3, <2>1, MaxOfSome
<1>5. given = SubSeq(name, e + 1, l)
  BY <1>1, <1>4 DEF strip, ends
<1> HIDE DEF given, name, l, b
<1>6. e \in 1 .. l - 1 /\ e >= b
  BY <1>1, <1>3, <1>4
<1>7. /\ given \in Seq(E) /\ Len(given) = l - e
      /\ \A i \in 1 .. l - e : given[i] = name[e + i]
  <2>1. e + 1 \in Int /\ l \in Int /\ e + 1 <= l /\ l - (e + 1) + 1 = l - e
    BY <1>2, <1>6
  <2>2. \A i \in e + 1 .. l : name[i] \in E
    <3>1. \A i \in e + 1 .. l : i \in 1 .. l
      BY <1>2, <1>6
    <3> QED BY <1>1, <3>1, ElementOfSeq DEF l
  <2>3. /\ given \in Seq(E) /\ Len(given) = l - e
        /\ \A i \in 1 .. l - e : given[i] = name[e + 1 + i - 1]
    BY <1>5, <2>1, <2>2, SubSeqProperties
  <2>4. \A i \in 1 .. l - e : e + 1 + i - 1 = e + i
    BY <1>6
  <2> QED BY <2>3, <2>4
<1>8. given # <<>> /\ Front(given) \in Seq(E) /\ Len(Front(given)) = l - e - 1
  <2>1. given # <<>>
    <3>1. Len(<<>>) = 0
      OBVIOUS
    <3> QED BY <1>2, <1>6, <1>7, <3>1
  <2> QED BY <1>7, <2>1, FrontShape
<1>9. ASSUME later # {} PROVE Front(given) # path
  <2>1. e > b
    <3>1. PICK i \in ends : i > b
      BY <1>9 DEF b
    <3>2. i \in Int /\ e \in Int /\ b \in Int /\ e >= i
      BY <1>2, <1>3, <1>4, <1>6, <3>1
    <3> QED BY <3>1, <3>2
  <2>2. l - e - 1 # Len(path)
    BY <1>1, <1>2, <1>6, <2>1
  <2> QED BY <1>8, <2>2
<1>10. ASSUME later = {}
       PROVE  Front(given) = path /\ prefix(namespace, given) = d
  <2>1. e = b
    <3>1. ~(e > b)
      BY <1>4, <1>10 DEF b
    <3> QED BY <1>2, <1>6, <3>1
  <2>2. l - e = Len(path) + 1 /\ l - e - 1 = Len(path)
    BY <1>1, <1>2, <2>1
  <2>3. \A i \in 1 .. Len(path) : given[i] = path[i]
    <3>1. \A i \in 1 .. Len(path) : i \in 1 .. l - e
      BY <1>1, <2>2
    <3> QED BY <1>1, <1>7, <2>1, <3>1
  <2>4. Front(given) = path
    <3>1. Len(Front(given)) = Len(path)
      BY <1>8, <2>2
    <3>2. \A i \in 1 .. Len(path) : Front(given)[i] = path[i]
      BY <1>7, <2>3, <3>1, FrontShape
    <3> QED BY <1>8, <3>1, <3>2, SeqEqual
  <2>5. /\ Len(d) \in Nat /\ l = Len(d) + 5
        /\ \A i \in 1 .. Len(d) : name[i + 5] = d[i]
    BY NameShape DEF name, l
  <2>6. Len(given) = Len(path) + 1 /\ Len(given) + b = Len(d) + 5
    BY <1>1, <1>2, <1>7, <2>1, <2>2, <2>5
  <2>7. \A i \in 1 .. Len(given) : given[i] = d[i + b - 5]
    <3> SUFFICES ASSUME NEW i \in 1 .. Len(given) PROVE given[i] = d[i + b - 5]
      OBVIOUS
    <3>1. PICK k \in 1 .. Len(d) : k = i + b - 5 /\ k + 5 = b + i
      BY <1>1, <1>2, <2>5, <2>6
    <3>2. given[i] = name[b + i]
      BY <1>7, <2>1
    <3> QED BY <2>5, <3>1, <3>2
  <2>8. CASE namespace = NoNamespace
    <3>1. b = 5 /\ prefix(namespace, given) = given
      BY <2>8 DEF b, Before, prefix
    <3>2. Len(given) = Len(d) /\ \A i \in 1 .. Len(given) : i + b - 5 = i
      BY <2>5, <2>6, <3>1
    <3>3. \A i \in 1 .. Len(given) : given[i] = d[i]
      BY <2>7, <3>2
    <3>4. given = d
      BY <1>7, <3>2, <3>3, SeqEqual
    <3> QED BY <2>4, <3>1, <3>4
  <2>9. CASE namespace # NoNamespace
    <3> DEFINE q == prefix(namespace, given)
    <3>0. b = 7 /\ given \in Seq(E)
      BY <1>7, <2>9 DEF b, Before
    <3>1. /\ q \in Seq(E) /\ Len(q) = Len(given) + 2
          /\ q[1] = "namespaces" /\ q[2] = namespace
          /\ \A i \in 1 .. Len(given) : q[i + 2] = given[i]
      BY <1>8, <2>9, <3>0, PrefixShape
    <3>2. d[1] = "namespaces" /\ d[2] = namespace
      <4>1. Within(namespace, d)
        <5>1. Within(namespace, Front(d))
          BY PrefixIsWithin
        <5> QED BY <5>1, DocumentIsWithin
      <4> QED BY <2>9, <4>1, WithinMeans
    <3> HIDE DEF q
    <3>3. Len(q) = Len(d)
      BY <1>1, <2>5, <2>6, <3>0, <3>1
    <3>4. ASSUME NEW i \in 1 .. Len(d) PROVE q[i] = d[i]
      <4>1. CASE i \in {1, 2}
        BY <3>1, <3>2, <4>1
      <4>2. CASE i \notin {1, 2}
        <5>1. PICK j \in 1 .. Len(given) : i = j + 2 /\ j + b - 5 = i
          <6>1. i - 2 \in 1 .. Len(given) /\ i = (i - 2) + 2 /\ (i - 2) + b - 5 = i
            BY <1>1, <2>5, <2>6, <3>0, <3>1, <4>2
          <6> QED BY <6>1
        <5> QED BY <2>7, <3>1, <5>1
      <4> QED BY <4>1, <4>2
    <3>5. q = d
      BY <3>1, <3>3, <3>4, SeqEqual
    <3> QED BY <2>4, <3>5 DEF q
  <2> QED BY <2>8, <2>9
<1> QED BY <1>7, <1>9, <1>10 DEF given, name, later, ends, b

(* Whatever the namespace, the collection and the documents: the paths that  *)
(* List returns are of the collection as it was given, and Get finds their   *)
(* documents, exactly when the collection's own path has nothing in it that  *)
(* ends what is stripped (firestore.go:53-57, 70-79, 149-175).               *)
THEOREM ListedPathsAreFound ==
  ASSUME NEW E, Words \subseteq E, NEW namespace \in E, NEW path \in Seq(E),
         NEW db, IsDatabase(db, E)
  PROVE  ListedIsFound(namespace, path, db)
<1> DEFINE p == prefix(namespace, path)
           r == Do(namespace, "List", path, db)
           doc == Root \o p \o <<"id">>
           misleading == { i \in EndsOfMarker(namespace, doc) : i > Len(doc) - Len(path) - 1 }
           found == \A d \in r.docs : Front(d) = path /\ Do(namespace, "Get", d, db).err = "nil"
<1>1. SUFFICES ASSUME r.err = "nil", r.docs # {} PROVE misleading = {} <=> found
  BY DEF ListedIsFound
<1>2. p \in Seq(E) /\ Len(p) \in Nat /\ Len(path) \in Nat
  BY PrefixIsWithin, LenProperties
<1>3. /\ IsCollection(p)
      /\ r.docs = { strip(namespace, Root \o d) : d \in { e \in DOMAIN db : Front(e) = p } }
  <2>1. "List" \notin OnDocument
    BY DEF OnDocument
  <2>2. CASE ~IsCollection(p)
    <3>1. r = Reply(db, "ErrInvalid")
      BY <2>1, <2>2 DEF Do
    <3> QED BY <1>1, <3>1 DEF Reply
  <2>3. CASE IsCollection(p)
    <3>1. r = List(namespace, db, p)
      BY <2>1, <2>3 DEF Do
    <3> QED BY <2>3, <3>1 DEF List
  <2> QED BY <2>2, <2>3
<1>4. Len(path) > 0
  <2>1. IsPath(p)
    BY <1>3 DEF IsCollection
  <2>2. path # <<>>
    <3>1. CASE namespace = NoNamespace
      BY <2>1, <3>1 DEF prefix, IsPath
    <3>2. CASE namespace # NoNamespace
      BY <2>1, <3>2, PrefixOfNothing
    <3> QED BY <3>1, <3>2
  <2> QED BY <1>2, <2>2, EmptySeq
<1>5. ASSUME NEW e \in DOMAIN db, Front(e) = p
      PROVE  /\ misleading = {} =>
                  /\ Front(strip(namespace, Root \o e)) = path
                  /\ Do(namespace, "Get", strip(namespace, Root \o e), db).err = "nil"
             /\ misleading # {} => Front(strip(namespace, Root \o e)) # path
  <2> DEFINE name == Root \o e
             later == {i \in EndsOfMarker(namespace, name) : i > Before(namespace)}
             given == strip(namespace, name)
  <2>1. e \in Seq(E)
    BY DEF IsDatabase
  <2>2. /\ Len(name) = Before(namespace) + Len(path) + 1 /\ Len(doc) = Len(name)
        /\ Len(e) = Len(p) + 1
        /\ EndsOfMarker(namespace, name) = EndsOfMarker(namespace, doc)
    <3> HIDE DEF r, misleading, found, later, given
    <3>1. Len(name) = Before(namespace) + Len(path) + 1
      BY <1>4, <1>5, <2>1, DocumentShape
    <3>2. Len(doc) = Len(name) /\ EndsOfMarker(namespace, name) = EndsOfMarker(namespace, doc)
      BY <1>4, <1>5, <2>1, AnyDocument
    <3>3. Len(e) = Len(p) + 1
      BY <1>4, <1>5, <2>1, DocumentShape
    <3> QED BY <3>1, <3>2, <3>3
  <2>3. Before(namespace) = Len(doc) - Len(path) - 1
    BY <1>2, <2>2 DEF Before
  <2>4. later = misleading
    BY <2>2, <2>3
  <2>5. /\ later = {} => Front(given) = path /\ prefix(namespace, given) = e
        /\ later # {} => Front(given) # path
    BY <1>4, <1>5, <2>1, StripShape
  <2>6. IsDoc(e)
    BY DEF IsDatabase
  <2>7. ASSUME prefix(namespace, given) = e PROVE Do(namespace, "Get", given, db).err = "nil"
    <3> HIDE DEF given
    <3>1. "Get" \in OnDocument
      BY DEF OnDocument
    <3>2. Do(namespace, "Get", given, db) = Get(db, e)
      BY <2>6, <2>7, <3>1 DEF Do
    <3> QED BY <3>2 DEF Get, Reply
  <2> HIDE DEF later, given, misleading
  <2> QED BY <2>4, <2>5, <2>7 DEF given
<1> HIDE DEF misleading
<1>6. CASE misleading = {}
  BY <1>3, <1>5, <1>6
<1>7. CASE misleading # {}
  <2>1. PICK e \in DOMAIN db : Front(e) = p /\ strip(namespace, Root \o e) \in r.docs
    BY <1>1, <1>3
  <2> QED BY <1>5, <1>7, <2>1
<1> QED BY <1>6, <1>7
===============================================================================
