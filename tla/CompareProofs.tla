------------------------------- MODULE CompareProofs -------------------------------
(****************************************************************************)
(* Proofs about CompareProfiles: its type invariant; when matching mistakes *)
(* no table, routine or column of a database for another; that the          *)
(* exclusions only hide: the keys, names and tables of what they leave are  *)
(* those there are without them; and that what a comparison finds is what   *)
(* differs, by the reference definition of CompareSafety.                   *)
(****************************************************************************)
EXTENDS CompareSafety, FiniteSetTheorems, WellFoundedInduction, TLAPS

(* A function that takes a value holds it in its range.                     *)
LEMMA InRange ==
  ASSUME NEW f, NEW x \in DOMAIN f
  PROVE  f[x] \in Range(f)
  BY DEF Range

(* Every profile chosen is asked at least one query.                        *)
LEMMA SomeQuery ==
  ASSUME NEW p
  PROVE  QueriesOf(p) \in Nat /\ QueriesOf(p) >= 1
  BY DEF QueriesOf, Queries

LEMMA SelectionsAreSequences ==
  ASSUME chosen \in Selections
  PROVE  /\ chosen \in Seq(Profiles) /\ Len(chosen) \in Nat
         /\ DOMAIN chosen = 1 .. Len(chosen)
  BY SelectionsAssumption
-----------------------------------------------------------------------------------
(* For any databases, engines, selections, exclusions and number of changes *)
(* by other sessions, every variable keeps its type; in particular a failed *)
(* or refused comparison has no findings.                                   *)
THEOREM CompareTypeCorrect == Spec => []TypeOK
<1>1. Init => TypeOK
  <2> SUFFICES ASSUME Init PROVE TypeOK
    OBVIOUS
  <2>1. DOMAIN databases = Range(chosen) /\ \A p \in Range(chosen) : databases[p] \in Catalogs[p]
    BY DEF Init
  <2>2. chosen \in Selections /\ excluded \in Exclusions /\ at = [profile |-> 1, query |-> 1]
    BY DEF Init
  <2>3. at.profile \in 1 .. Len(chosen) + 1
    BY <2>2, SelectionsAreSequences
  <2>4. at.query \in 1 .. (IF at.profile > Len(chosen) THEN 1 ELSE QueriesOf(chosen[at.profile]))
    BY <2>2, SomeQuery
  <2>5. DOMAIN read = Range(chosen) /\ outcome = "running" /\ findings = NoFindings /\ changes = 0
    BY DEF Init
  <2> QED
    BY <2>1, <2>2, <2>3, <2>4, <2>5, SelectionsAssumption DEF TypeOK
<1>2. TypeOK /\ [Next]_vars => TypeOK'
  <2> SUFFICES ASSUME TypeOK, [Next]_vars PROVE TypeOK'
    OBVIOUS
  <2>1. CASE Refuse
    BY <2>1 DEF Refuse, TypeOK
  <2>2. CASE Read
    <3> DEFINE p == chosen[at.profile]
    <3>1. chosen' = chosen /\ at.profile \in 1 .. Len(chosen) /\ Len(chosen) \in Nat
      BY <2>2, SelectionsAreSequences DEF Read, Extracting, TypeOK
    <3>2. at' = IF at.query < QueriesOf(p) THEN [at EXCEPT !.query = @ + 1]
                ELSE [profile |-> at.profile + 1, query |-> 1]
      BY <2>2 DEF Read
    <3>3. at.query \in 1 .. QueriesOf(p) /\ QueriesOf(p) \in Nat
      BY <3>1, SomeQuery DEF TypeOK
    <3>4. at'.profile \in 1 .. Len(chosen) + 1
      <4>1. CASE at.query < QueriesOf(p)
        <5>1. at'.profile = at.profile
          BY <3>2, <4>1
        <5> QED
          BY <5>1, <3>1
      <4>2. CASE ~(at.query < QueriesOf(p))
        <5>1. at'.profile = at.profile + 1
          BY <3>2, <4>2
        <5> QED
          BY <5>1, <3>1
      <4> QED
        BY <4>1, <4>2
    <3>5. at'.query \in 1 .. (IF at'.profile > Len(chosen) THEN 1
                              ELSE QueriesOf(chosen[at'.profile]))
      BY <3>1, <3>2, <3>3, SomeQuery
    <3>6. DOMAIN read' = DOMAIN read
      BY <2>2 DEF Read
    <3> QED
      BY <2>2, <3>1, <3>4, <3>5, <3>6 DEF Read, Extracting, TypeOK
  <2>3. CASE ReadFails
    BY <2>3 DEF ReadFails, Extracting, TypeOK
  <2>4. CASE Compare
    BY <2>4 DEF Compare, TypeOK
  <2>5. CASE Alter
    <3>1. PICK p \in Range(chosen) :
              \E c \in Catalogs[p] : databases' = [databases EXCEPT ![p] = c]
      BY <2>5 DEF Alter
    <3>2. DOMAIN databases' = Range(chosen) /\ \A q \in Range(chosen) : databases'[q] \in Catalogs[q]
      BY <3>1 DEF TypeOK
    <3>3. changes' \in 0 .. MaxChanges
      BY <2>5, SelectionsAssumption DEF Alter, TypeOK
    <3> QED
      BY <2>5, <3>2, <3>3 DEF Alter, Extracting, TypeOK
  <2>6. CASE UNCHANGED vars
    BY <2>6 DEF vars, TypeOK
  <2> QED
    BY <2>1, <2>2, <2>3, <2>4, <2>5, <2>6 DEF Next
<1> QED
  BY <1>1, <1>2, PTL DEF Spec
-----------------------------------------------------------------------------------
(* Matching loses an object only to another of the same exact key: within a *)
(* profile whose items have different exact keys, _keys() gives them        *)
(* different keys, as long as no loose key is an exact one.  (Of tables it  *)
(* need not be so: the exact key folds the schema, and those of [App].[T]   *)
(* and [app].[T] are equal.)                                                *)
THEOREM KeysSeparate ==
  ASSUME NEW loose, NEW exact, DOMAIN exact = DOMAIN loose,
         NEW p \in DOMAIN loose,
         IsFiniteSet(DOMAIN loose[p]),
         DOMAIN exact[p] = DOMAIN loose[p],
         \A i, j \in DOMAIN loose[p] : exact[p][i] = exact[p][j] => i = j,
         \A i, j \in DOMAIN loose[p] : loose[p][i] # exact[p][j]
  PROVE  \A i, j \in DOMAIN loose[p] : Keys(loose, exact)[p][i] = Keys(loose, exact)[p][j] => i = j
<1> DEFINE all == UNION {Range(loose[q]) : q \in DOMAIN loose}
           shared(q, k) == {i \in DOMAIN loose[q] : loose[q][i] = k}
           twice == {k \in all : \E q \in DOMAIN loose : Cardinality(shared(q, k)) > 1}
<1>1. ASSUME NEW i \in DOMAIN loose[p]
      PROVE  Keys(loose, exact)[p][i] = IF loose[p][i] \in twice THEN exact[p][i] ELSE loose[p][i]
  BY DEF Keys
<1>2. ASSUME NEW i \in DOMAIN loose[p], NEW j \in DOMAIN loose[p], i # j, loose[p][i] = loose[p][j]
      PROVE  loose[p][i] \in twice
  <2> DEFINE S == shared(p, loose[p][i])
  <2>1. S \subseteq DOMAIN loose[p] /\ i \in S /\ j \in S
    BY <1>2
  <2>2. IsFiniteSet(S) /\ Cardinality(S) \in Nat
    BY <2>1, FS_Subset, FS_CardinalityType
  <2>3. Cardinality(S) # 0
    BY <2>1, <2>2, FS_EmptySet
  <2>4. Cardinality(S) # 1
    BY <2>1, <2>2, <1>2, FS_Singleton
  <2>5. Cardinality(S) > 1
    <3> HIDE DEF S
    <3> QED BY <2>2, <2>3, <2>4
  <2>6. loose[p][i] \in all
    BY InRange
  <2> QED
    BY <2>5, <2>6
<1> SUFFICES ASSUME NEW i \in DOMAIN loose[p], NEW j \in DOMAIN loose[p],
                    Keys(loose, exact)[p][i] = Keys(loose, exact)[p][j], i # j
             PROVE  FALSE
  OBVIOUS
<1> HIDE DEF twice
<1>3. CASE loose[p][i] \in twice /\ loose[p][j] \in twice
  BY <1>1, <1>3
<1>4. CASE loose[p][i] \notin twice /\ loose[p][j] \notin twice
  BY <1>1, <1>2, <1>4
<1>5. CASE (loose[p][i] \in twice) # (loose[p][j] \in twice)
  <2>1. CASE loose[p][i] \in twice /\ loose[p][j] \notin twice
    BY <1>1, <2>1
  <2>2. CASE loose[p][i] \notin twice /\ loose[p][j] \in twice
    BY <1>1, <2>2
  <2> QED
    BY <1>5, <2>1, <2>2
<1> QED
  BY <1>3, <1>4, <1>5

(* No table and no routine of a profile is mistaken for another one of it,  *)
(* by whatever names the other profiles have: canonicalize() gives every    *)
(* one a key of its own, if no two of them have one name in schemas that    *)
(* count as equal.                                                          *)
THEOREM ObjectsAreKept ==
  ASSUME NEW snaps, NEW items, NEW p \in DOMAIN items, IsFiniteSet(items[p]),
         \A a, b \in items[p] :
           /\ SchemaKey(snaps[p], a.schema) = SchemaKey(snaps[p], b.schema)
           /\ a.name = b.name
           => a = b
  PROVE  \A a, b \in items[p] : ObjectKeys(snaps, items)[p][a] = ObjectKeys(snaps, items)[p][b]
                                => a = b
<1> DEFINE loose == [q \in DOMAIN items |-> [o \in items[q] |-> LooseKey(snaps[q], o)]]
           exact == [q \in DOMAIN items |-> [o \in items[q] |-> ExactKey(snaps[q], o)]]
<1>1. DOMAIN exact = DOMAIN loose /\ p \in DOMAIN loose
  OBVIOUS
<1>2. DOMAIN loose[p] = items[p] /\ DOMAIN exact[p] = items[p]
  OBVIOUS
<1>3. \A a, b \in items[p] : exact[p][a] = exact[p][b] => a = b
  BY DEF ExactKey
<1>4. \A a, b \in items[p] : loose[p][a] # exact[p][b]
  BY DEF LooseKey, ExactKey
<1>5. ObjectKeys(snaps, items) = Keys(loose, exact)
  BY DEF ObjectKeys
<1> HIDE DEF loose, exact
<1> QED
  BY <1>1, <1>2, <1>3, <1>4, <1>5, KeysSeparate

(* Likewise no column of a table, whose names are all different.            *)
THEOREM ColumnsAreKept ==
  ASSUME NEW items, NEW p \in DOMAIN items, IsFiniteSet(items[p]),
         \A c, d \in items[p] : c.name = d.name => c = d
  PROVE  \A c, d \in items[p] : ColumnKeys(items)[p][c] = ColumnKeys(items)[p][d] => c = d
<1> DEFINE loose == [q \in DOMAIN items |-> [c \in items[q] |-> <<Fold[c.name]>>]]
           exact == [q \in DOMAIN items |-> [c \in items[q] |-> <<"exact", c.name>>]]
<1>1. DOMAIN exact = DOMAIN loose /\ p \in DOMAIN loose
  OBVIOUS
<1>2. DOMAIN loose[p] = items[p] /\ DOMAIN exact[p] = items[p]
  OBVIOUS
<1>3. \A c, d \in items[p] : exact[p][c] = exact[p][d] => c = d
  OBVIOUS
<1>4. \A c, d \in items[p] : loose[p][c] # exact[p][d]
  OBVIOUS
<1>5. ColumnKeys(items) = Keys(loose, exact)
  BY DEF ColumnKeys
<1> HIDE DEF loose, exact
<1> QED
  BY <1>1, <1>2, <1>3, <1>4, <1>5, KeysSeparate
-----------------------------------------------------------------------------------
(* A set of naturals that is not empty has a smallest element.              *)
LEMMA Smallest ==
  ASSUME NEW T \in SUBSET Nat, T # {}
  PROVE  \E x \in T : \A y \in T : x <= y
<1>1. IsWellFoundedOn(OpToRel(<, Nat), Nat)
  BY NatLessThanWellFounded
<1>2. PICK x \in T : \A y \in T : <<y, x>> \notin OpToRel(<, Nat)
  BY <1>1, WFMin
<1>3. \A y \in T : ~(y < x)
  BY <1>2 DEF OpToRel
<1> QED
  BY <1>3

(* Of objects whose names the alphabet has, one comes first.                *)
Named(S) == \A o \in S : o.schema \in Names /\ o.name \in Names

LEMMA OrderIsNatural ==
  ASSUME NEW o, o.schema \in Names, o.name \in Names
  PROVE  Order(o) \in Nat
<1>0. Alphabet \in Seq(Names)
  BY CompareAssumption, Zenon
<1>1. DOMAIN Alphabet = 1 .. Len(Alphabet) /\ Len(Alphabet) \in Nat
  BY <1>0
<1>2. ASSUME NEW n \in Names PROVE Rank(n) \in Nat
  <2>1. \E i \in 1 .. Len(Alphabet) : Alphabet[i] = n
    BY <1>1 DEF Names, Range
  <2> QED
    BY <2>1, <1>1 DEF Rank
<1>3. \A r, s, l \in Nat : r * (l + 1) + s \in Nat
  OBVIOUS
<1> QED
  BY <1>1, <1>2, <1>3 DEF Order

LEMMA FirstIsOne ==
  ASSUME NEW S, S # {}, Named(S)
  PROVE  First(S) \in S
<1> DEFINE T == {Order(o) : o \in S}
<1>1. T \in SUBSET Nat /\ T # {}
  BY OrderIsNatural DEF Named
<1>2. PICK x \in T : \A y \in T : x <= y
  BY <1>1, Smallest
<1>3. PICK o \in S : Order(o) = x
  BY <1>2
<1>4. \A other \in S : Order(o) <= Order(other)
  BY <1>2, <1>3
<1> QED
  BY <1>4 DEF First

LEMMA AlphabeticalIsOne ==
  ASSUME NEW S, S # {}, S \subseteq Profiles
  PROVE  Alphabetical(S) \in S
<1> DEFINE T == {i \in DOMAIN ProfileOrder : ProfileOrder[i] \in S}
<1>0. ProfileOrder \in Seq(Profiles)
  BY CompareAssumption, Zenon
<1>1. DOMAIN ProfileOrder = 1 .. Len(ProfileOrder) /\ Len(ProfileOrder) \in Nat
  BY <1>0
<1>2. T \in SUBSET Nat
  BY <1>1
<1>3. T # {}
  BY DEF Profiles, Range
<1>4. PICK i \in T : \A j \in T : i <= j
  BY <1>2, <1>3, Smallest
<1>5. \A j \in 1 .. i - 1 : ProfileOrder[j] \notin S
  BY <1>1, <1>4
<1> QED
  BY <1>4, <1>5 DEF Alphabetical
-----------------------------------------------------------------------------------
(* The keys that less has are those of keyed, of whole groups of items.     *)
WholeKeys(less, keyed) ==
  /\ DOMAIN less = DOMAIN keyed
  /\ \A p \in DOMAIN keyed : /\ DOMAIN less[p] \subseteq DOMAIN keyed[p]
                             /\ \A o \in DOMAIN less[p] : less[p][o] = keyed[p][o]
  /\ \A p, q \in DOMAIN keyed : \A i \in DOMAIN less[p], j \in DOMAIN keyed[q] :
       keyed[q][j] = keyed[p][i] => j \in DOMAIN less[q]

LEMMA KeyOfItem ==
  ASSUME NEW keyed
  PROVE  /\ \A k \in AllKeys(keyed) : \E p \in DOMAIN keyed : \E o \in DOMAIN keyed[p] : keyed[p][o] = k
         /\ \A p \in DOMAIN keyed : \A o \in DOMAIN keyed[p] : keyed[p][o] \in AllKeys(keyed)
  BY DEF AllKeys, Range

LEMMA WholeGroups ==
  ASSUME NEW less, NEW keyed, WholeKeys(less, keyed), NEW k \in AllKeys(less)
  PROVE  /\ k \in AllKeys(keyed)
         /\ \A p \in DOMAIN keyed : ItemsAt(less, k, p) = ItemsAt(keyed, k, p)
         /\ Holders(less, k) = Holders(keyed, k)
<1>1. PICK q \in DOMAIN less : \E o \in DOMAIN less[q] : less[q][o] = k
  BY KeyOfItem
<1>2. PICK i \in DOMAIN less[q] : less[q][i] = k
  BY <1>1
<1>3. i \in DOMAIN keyed[q] /\ keyed[q][i] = k /\ q \in DOMAIN keyed
  BY <1>1, <1>2 DEF WholeKeys
<1>4. k \in AllKeys(keyed)
  BY <1>3, KeyOfItem
<1>5. ASSUME NEW p \in DOMAIN keyed
      PROVE  \A j : (j \in DOMAIN less[p] /\ less[p][j] = k) <=> (j \in DOMAIN keyed[p] /\ keyed[p][j] = k)
  BY <1>1, <1>2, <1>3 DEF WholeKeys
<1>6. \A p \in DOMAIN keyed : ItemsAt(less, k, p) = ItemsAt(keyed, k, p)
  BY <1>5 DEF ItemsAt
<1>7. \A p \in DOMAIN keyed : k \in Range(less[p]) <=> k \in Range(keyed[p])
  BY <1>5 DEF Range
<1>8. Holders(less, k) = Holders(keyed, k)
  BY <1>7 DEF Holders, WholeKeys
<1> QED
  BY <1>4, <1>6, <1>8

(* The profile a key takes its spelling from has it.                        *)
LEMMA SpellerHolds ==
  ASSUME NEW keyed, DOMAIN keyed \subseteq Profiles, NEW k \in AllKeys(keyed)
  PROVE  Alphabetical(Holders(keyed, k)) \in Holders(keyed, k)
<1>1. Holders(keyed, k) \subseteq Profiles
  BY DEF Holders
<1>2. Holders(keyed, k) # {}
  BY DEF Holders, AllKeys
<1> QED
  BY <1>1, <1>2, AlphabeticalIsOne

LEMMA SameNames ==
  ASSUME NEW less, NEW keyed, WholeKeys(less, keyed), DOMAIN keyed \subseteq Profiles,
         NEW k \in AllKeys(less)
  PROVE  CanonicalObjects(less)[k] = CanonicalObjects(keyed)[k]
<1>1. k \in AllKeys(keyed) /\ Holders(less, k) = Holders(keyed, k)
  BY WholeGroups
<1> DEFINE a == Alphabetical(Holders(keyed, k))
<1>2. a \in DOMAIN keyed
  BY <1>1, SpellerHolds DEF Holders
<1>3. ItemsAt(less, k, a) = ItemsAt(keyed, k, a)
  BY <1>2, WholeGroups
<1> QED
  BY <1>1, <1>3 DEF CanonicalObjects

(* A key is spelled as one of its items is.                                 *)
LEMMA SpelledAsItem ==
  ASSUME NEW keyed, DOMAIN keyed \subseteq Profiles,
         \A p \in DOMAIN keyed : Named(DOMAIN keyed[p]),
         NEW k \in AllKeys(keyed)
  PROVE  \E p \in DOMAIN keyed : \E o \in DOMAIN keyed[p] :
           keyed[p][o] = k /\ CanonicalObjects(keyed)[k] = QualifiedName(o)
<1> DEFINE a == Alphabetical(Holders(keyed, k))
           S == ItemsAt(keyed, k, a)
<1>1. a \in DOMAIN keyed /\ k \in Range(keyed[a])
  BY SpellerHolds DEF Holders
<1>2. S # {} /\ S \subseteq DOMAIN keyed[a]
  BY <1>1 DEF ItemsAt, Range
<1>3. Named(S)
  BY <1>1, <1>2 DEF Named
<1>4. First(S) \in S
  BY <1>2, <1>3, FirstIsOne
<1>5. keyed[a][First(S)] = k /\ First(S) \in DOMAIN keyed[a]
  BY <1>4 DEF ItemsAt
<1>6. CanonicalObjects(keyed)[k] = QualifiedName(First(S))
  BY DEF CanonicalObjects
<1> QED
  BY <1>1, <1>5, <1>6
-----------------------------------------------------------------------------------
(* The items whose names a set of folded names has not.                     *)
Shown(items, X) == {o \in items : Fold[o.name] \notin X}
ShownOf(items, X) == [p \in DOMAIN items |-> Shown(items[p], X)]
SameDefaults(less, snaps) ==
  DOMAIN less = DOMAIN snaps /\ \A p \in DOMAIN snaps : less[p].default = snaps[p].default

(* More than one object of a profile has the loose key k.                   *)
Collide(snaps, items, k) ==
  \E q \in DOMAIN items : Cardinality({o \in items[q] : LooseKey(snaps[q], o) = k}) > 1

LEMMA KeyOfObject ==
  ASSUME NEW snaps, NEW items, NEW p \in DOMAIN items, NEW o \in items[p]
  PROVE  /\ DOMAIN ObjectKeys(snaps, items) = DOMAIN items
         /\ DOMAIN ObjectKeys(snaps, items)[p] = items[p]
         /\ ObjectKeys(snaps, items)[p][o] =
              IF Collide(snaps, items, LooseKey(snaps[p], o)) THEN ExactKey(snaps[p], o)
                                                              ELSE LooseKey(snaps[p], o)
<1> DEFINE loose == [q \in DOMAIN items |-> [i \in items[q] |-> LooseKey(snaps[q], i)]]
           exact == [q \in DOMAIN items |-> [i \in items[q] |-> ExactKey(snaps[q], i)]]
           k == LooseKey(snaps[p], o)
           all == UNION {Range(loose[q]) : q \in DOMAIN loose}
           twice == {l \in all : \E q \in DOMAIN loose :
                       Cardinality({i \in DOMAIN loose[q] : loose[q][i] = l}) > 1}
<1>1. ObjectKeys(snaps, items) = Keys(loose, exact)
  BY DEF ObjectKeys
<1>2. loose[p][o] = k /\ exact[p][o] = ExactKey(snaps[p], o) /\ DOMAIN loose = DOMAIN items
      /\ DOMAIN loose[p] = items[p]
  OBVIOUS
<1>3. k \in all
  <2>1. o \in DOMAIN loose[p] /\ p \in DOMAIN loose
    BY <1>2
  <2> HIDE DEF loose
  <2> QED
    BY <1>2, <2>1, InRange
<1>4. ASSUME NEW q \in DOMAIN items
      PROVE  {i \in DOMAIN loose[q] : loose[q][i] = k} = {i \in items[q] : LooseKey(snaps[q], i) = k}
  OBVIOUS
<1>5. k \in twice <=> Collide(snaps, items, k)
  BY <1>2, <1>3, <1>4 DEF Collide
<1>6. DOMAIN Keys(loose, exact) = DOMAIN loose /\ DOMAIN Keys(loose, exact)[p] = DOMAIN loose[p]
  BY <1>2 DEF Keys
<1>7. Keys(loose, exact)[p][o] = IF loose[p][o] \in twice THEN exact[p][o] ELSE loose[p][o]
  <2> HIDE DEF loose, exact
  <2> QED
    BY <1>2 DEF Keys
<1> HIDE DEF loose, exact, twice, all
<1> QED
  BY <1>1, <1>2, <1>5, <1>6, <1>7

(* Objects of one key have names that differ in case at most.               *)
LEMMA OneKeyOneName ==
  ASSUME NEW snaps, NEW items, NEW p \in DOMAIN items, NEW q \in DOMAIN items,
         NEW a \in items[p], NEW b \in items[q],
         ObjectKeys(snaps, items)[p][a] = ObjectKeys(snaps, items)[q][b]
  PROVE  Fold[a.name] = Fold[b.name]
<1>1. ObjectKeys(snaps, items)[p][a] \in {ExactKey(snaps[p], a), LooseKey(snaps[p], a)}
  BY KeyOfObject
<1>2. ObjectKeys(snaps, items)[q][b] \in {ExactKey(snaps[q], b), LooseKey(snaps[q], b)}
  BY KeyOfObject
<1> QED
  BY <1>1, <1>2 DEF ExactKey, LooseKey

(* Filtering leaves the keys of the objects that stay as they were.         *)
LEMMA FilteringKeepsKeys ==
  ASSUME NEW snaps, NEW less, SameDefaults(less, snaps),
         NEW items, DOMAIN items = DOMAIN snaps, NEW X
  PROVE  WholeKeys(ObjectKeys(less, ShownOf(items, X)), ObjectKeys(snaps, items))
<1> DEFINE few == ShownOf(items, X)
           K == ObjectKeys(snaps, items)
           L == ObjectKeys(less, few)
<1>1. DOMAIN few = DOMAIN items /\ \A p \in DOMAIN items : few[p] = Shown(items[p], X)
  BY DEF ShownOf
<1>2. DOMAIN K = DOMAIN items /\ \A p \in DOMAIN items : DOMAIN K[p] = items[p]
  BY DEF ObjectKeys, Keys
<1>3. DOMAIN L = DOMAIN items /\ \A p \in DOMAIN items : DOMAIN L[p] = few[p]
  BY <1>1 DEF ObjectKeys, Keys
<1>4. ASSUME NEW p \in DOMAIN items, NEW o
      PROVE  LooseKey(less[p], o) = LooseKey(snaps[p], o) /\ ExactKey(less[p], o) = ExactKey(snaps[p], o)
  <2>1. less[p].default = snaps[p].default
    BY DEF SameDefaults
  <2> QED
    BY <2>1 DEF LooseKey, ExactKey, SchemaKey
<1>5. ASSUME NEW p \in DOMAIN items, NEW o \in few[p]
      PROVE  o \in items[p] /\ L[p][o] = K[p][o]
  <2> DEFINE k == LooseKey(snaps[p], o)
  <2>1. o \in items[p] /\ Fold[o.name] \notin X
    BY <1>1, <1>5 DEF Shown
  <2>2. ASSUME NEW q \in DOMAIN items
        PROVE  {i \in few[q] : LooseKey(less[q], i) = k} = {i \in items[q] : LooseKey(snaps[q], i) = k}
    <3>1. \A i \in items[q] : LooseKey(snaps[q], i) = k => Fold[i.name] = Fold[o.name]
      BY DEF LooseKey
    <3> QED
      BY <1>1, <1>4, <2>1, <2>2, <3>1 DEF Shown
  <2>3. Collide(less, few, k) <=> Collide(snaps, items, k)
    BY <1>1, <2>2 DEF Collide
  <2>4. LooseKey(less[p], o) = k /\ ExactKey(less[p], o) = ExactKey(snaps[p], o)
    BY <1>4
  <2>5. L[p][o] = IF Collide(less, few, k) THEN ExactKey(snaps[p], o) ELSE k
    <3> HIDE DEF few
    <3> QED
      BY <1>1, <1>5, <2>4, KeyOfObject
  <2>6. K[p][o] = IF Collide(snaps, items, k) THEN ExactKey(snaps[p], o) ELSE k
    BY <2>1, KeyOfObject
  <2> QED
    BY <2>1, <2>3, <2>5, <2>6
<1>6. ASSUME NEW p \in DOMAIN items, NEW q \in DOMAIN items,
             NEW i \in few[p], NEW j \in items[q], K[q][j] = K[p][i]
      PROVE  j \in few[q]
  <2>1. i \in items[p] /\ Fold[i.name] \notin X
    BY <1>1, <1>6 DEF Shown
  <2>2. Fold[j.name] = Fold[i.name]
    BY <1>6, <2>1, OneKeyOneName
  <2> QED
    BY <1>1, <2>1, <2>2 DEF Shown
<1> HIDE DEF few, K, L
<1>7. WholeKeys(L, K)
  BY <1>2, <1>3, <1>5, <1>6 DEF WholeKeys
<1> QED
  BY <1>7 DEF L, K, few

(* CanonicalTables() with names for what its LET defines.                   *)
TableKeys(snaps) == ObjectKeys(snaps, [p \in DOMAIN snaps |-> snaps[p].tables])
TableNames(snaps) == CanonicalObjects(TableKeys(snaps))
TableAt(snaps) ==
  [k \in AllKeys(TableKeys(snaps)) |->
     [p \in Holders(TableKeys(snaps), k) |-> Last(ItemsAt(TableKeys(snaps), k, p))]]
ColumnKeysAt(snaps) ==
  [k \in AllKeys(TableKeys(snaps)) |->
     ColumnKeys([p \in DOMAIN TableAt(snaps)[k] |-> TableAt(snaps)[k][p].columns])]
ColumnNamesAt(snaps) ==
  [k \in AllKeys(TableKeys(snaps)) |-> CanonicalColumns(ColumnKeysAt(snaps)[k])]
KeysNamed(snaps, p, n) ==
  {k \in AllKeys(TableKeys(snaps)) : TableNames(snaps)[k] = n /\ p \in DOMAIN TableAt(snaps)[k]}
KeyKept(order, snaps, p, n) ==
  CHOOSE k \in KeysNamed(snaps, p, n) : \A other \in KeysNamed(snaps, p, n) :
    Met(order, TableKeys(snaps), other) <= Met(order, TableKeys(snaps), k)
TableOf(snaps, p, k) ==
  CanonicalTable(snaps[p], ColumnKeysAt(snaps)[k][p], ColumnNamesAt(snaps)[k], TableNames(snaps),
                 ColumnNamesAt(snaps), TableAt(snaps)[k][p])
NamesIn(snaps, p) == {TableNames(snaps)[k] : k \in Range(TableKeys(snaps)[p])}

LEMMA TablesAre ==
  ASSUME NEW order, NEW snaps
  PROVE  CanonicalTables(order, snaps) =
           [p \in DOMAIN snaps |-> [n \in NamesIn(snaps, p) |-> TableOf(snaps, p, KeyKept(order, snaps, p, n))]]
  BY Zenon DEF CanonicalTables, NamesIn, TableOf, KeyKept, KeysNamed, ColumnNamesAt, ColumnKeysAt, TableAt,
         TableNames, TableKeys

(* Snapshots with the objects that a filter shows.                          *)
Filters(less, snaps, x) ==
  /\ SameDefaults(less, snaps)
  /\ \A p \in DOMAIN snaps :
       /\ less[p].keyed = snaps[p].keyed
       /\ less[p].tables = Shown(snaps[p].tables, x.tables)
       /\ less[p].routines = Shown(snaps[p].routines, x.routines)

(* Snapshots of configured profiles, whose objects have names.              *)
Snaps(snaps) ==
  /\ DOMAIN snaps \subseteq Profiles
  /\ \A p \in DOMAIN snaps : Named(snaps[p].tables) /\ Named(snaps[p].routines)

LEMMA TableKeysFiltered ==
  ASSUME NEW snaps, NEW less, NEW x, Filters(less, snaps, x)
  PROVE  /\ WholeKeys(TableKeys(less), TableKeys(snaps))
         /\ DOMAIN TableKeys(snaps) = DOMAIN snaps /\ DOMAIN TableKeys(less) = DOMAIN snaps
         /\ \A p \in DOMAIN snaps : /\ DOMAIN TableKeys(snaps)[p] = snaps[p].tables
                                    /\ DOMAIN TableKeys(less)[p] = Shown(snaps[p].tables, x.tables)
<1> DEFINE items == [p \in DOMAIN snaps |-> snaps[p].tables]
           few == [p \in DOMAIN less |-> less[p].tables]
<1>1. DOMAIN less = DOMAIN snaps /\ SameDefaults(less, snaps)
  BY DEF Filters, SameDefaults
<1>2. few = ShownOf(items, x.tables)
  BY <1>1 DEF ShownOf, Filters
<1>3. WholeKeys(ObjectKeys(less, few), ObjectKeys(snaps, items))
  BY <1>1, <1>2, FilteringKeepsKeys
<1>4. TableKeys(snaps) = ObjectKeys(snaps, items) /\ TableKeys(less) = ObjectKeys(less, few)
  BY DEF TableKeys
<1>5. DOMAIN TableKeys(snaps) = DOMAIN snaps /\ \A p \in DOMAIN snaps : DOMAIN TableKeys(snaps)[p] = snaps[p].tables
  BY DEF TableKeys, ObjectKeys, Keys
<1>6. DOMAIN TableKeys(less) = DOMAIN less /\ \A p \in DOMAIN less : DOMAIN TableKeys(less)[p] = less[p].tables
  BY DEF TableKeys, ObjectKeys, Keys
<1> QED
  BY <1>1, <1>3, <1>4, <1>5, <1>6 DEF Filters

(* A key is still there exactly if its name is shown.                       *)
LEMMA KeyShown ==
  ASSUME NEW keyed, NEW less, WholeKeys(less, keyed), DOMAIN keyed \subseteq Profiles,
         \A p \in DOMAIN keyed : Named(DOMAIN keyed[p]),
         NEW X, \A p \in DOMAIN keyed : DOMAIN less[p] = Shown(DOMAIN keyed[p], X),
         NEW k \in AllKeys(keyed)
  PROVE  k \in AllKeys(less) <=> Fold[CanonicalObjects(keyed)[k].name] \notin X
<1>0. PICK p \in DOMAIN keyed : \E o \in DOMAIN keyed[p] :
         keyed[p][o] = k /\ CanonicalObjects(keyed)[k] = QualifiedName(o)
  BY SpelledAsItem
<1>1. PICK o \in DOMAIN keyed[p] : keyed[p][o] = k /\ CanonicalObjects(keyed)[k] = QualifiedName(o)
  BY <1>0
<1>2. CanonicalObjects(keyed)[k].name = o.name
  BY <1>1 DEF QualifiedName
<1>3. ASSUME Fold[o.name] \notin X PROVE k \in AllKeys(less)
  <2>1. o \in DOMAIN less[p] /\ p \in DOMAIN less
    BY <1>1, <1>3 DEF Shown, WholeKeys
  <2>2. less[p][o] = k
    BY <1>1, <2>1 DEF WholeKeys
  <2> QED
    BY <2>1, <2>2, KeyOfItem
<1>4. ASSUME k \in AllKeys(less) PROVE Fold[o.name] \notin X
  <2>1. PICK q \in DOMAIN less : \E i \in DOMAIN less[q] : less[q][i] = k
    BY <1>4, KeyOfItem
  <2>2. PICK i \in DOMAIN less[q] : less[q][i] = k
    BY <2>1
  <2>3. q \in DOMAIN keyed /\ keyed[q][i] = k
    BY <2>1, <2>2 DEF WholeKeys
  <2>4. o \in DOMAIN less[p]
    BY <1>1, <2>2, <2>3 DEF WholeKeys
  <2> QED
    BY <2>4 DEF Shown
<1> QED
  BY <1>2, <1>3, <1>4

(* The names of a profile that are shown.                                   *)
NamesOf(keyed, p) == {CanonicalObjects(keyed)[k] : k \in Range(keyed[p])}

LEMMA NamesShown ==
  ASSUME NEW keyed, NEW less, WholeKeys(less, keyed), DOMAIN keyed \subseteq Profiles,
         \A p \in DOMAIN keyed : Named(DOMAIN keyed[p]),
         NEW X, \A p \in DOMAIN keyed : DOMAIN less[p] = Shown(DOMAIN keyed[p], X),
         NEW p \in DOMAIN keyed
  PROVE  \A n : n \in NamesOf(less, p) <=> n \in NamesOf(keyed, p) /\ Fold[n.name] \notin X
<1>1. \A k \in Range(less[p]) : k \in AllKeys(less)
  BY DEF WholeKeys, AllKeys
<1>2. \A k \in Range(keyed[p]) : k \in AllKeys(keyed)
  BY DEF AllKeys
<1>3. \A k \in AllKeys(less) : k \in Range(less[p]) <=> k \in Range(keyed[p])
  BY WholeGroups, SMTT(30) DEF Holders, WholeKeys
<1>4. \A k \in AllKeys(less) : CanonicalObjects(less)[k] = CanonicalObjects(keyed)[k]
  BY SameNames
<1>5. \A k \in AllKeys(keyed) : k \in AllKeys(less) <=> Fold[CanonicalObjects(keyed)[k].name] \notin X
  BY KeyShown
<1> QED
  BY <1>1, <1>2, <1>3, <1>4, <1>5 DEF NamesOf

(* What is known of a key that is shown does not depend on the filter.      *)
LEMMA TablesAtKeys ==
  ASSUME NEW snaps, Snaps(snaps), NEW less, NEW x, Filters(less, snaps, x),
         NEW k \in AllKeys(TableKeys(less))
  PROVE  /\ k \in AllKeys(TableKeys(snaps))
         /\ TableNames(less)[k] = TableNames(snaps)[k]
         /\ TableAt(less)[k] = TableAt(snaps)[k]
         /\ ColumnKeysAt(less)[k] = ColumnKeysAt(snaps)[k]
         /\ ColumnNamesAt(less)[k] = ColumnNamesAt(snaps)[k]
<1> DEFINE L == TableKeys(less)
           K == TableKeys(snaps)
<1>1. WholeKeys(L, K) /\ DOMAIN K = DOMAIN snaps /\ DOMAIN K \subseteq Profiles
  BY TableKeysFiltered DEF Snaps
<1>2. k \in AllKeys(K) /\ Holders(L, k) = Holders(K, k)
  BY <1>1, WholeGroups
<1>3. \A p \in Holders(K, k) : ItemsAt(L, k, p) = ItemsAt(K, k, p)
  BY <1>1, WholeGroups DEF Holders
<1>4. TableNames(less)[k] = TableNames(snaps)[k]
  BY <1>1, SameNames DEF TableNames
<1>5. TableAt(less)[k] = [p \in Holders(L, k) |-> Last(ItemsAt(L, k, p))]
  BY DEF TableAt
<1>6. TableAt(snaps)[k] = [p \in Holders(K, k) |-> Last(ItemsAt(K, k, p))]
  BY <1>2 DEF TableAt
<1>7. TableAt(less)[k] = TableAt(snaps)[k]
  BY <1>2, <1>3, <1>5, <1>6
<1>8. ColumnKeysAt(less)[k] = ColumnKeysAt(snaps)[k]
  BY <1>2, <1>7 DEF ColumnKeysAt
<1>9. ColumnNamesAt(less)[k] = ColumnNamesAt(snaps)[k]
  BY <1>2, <1>8 DEF ColumnNamesAt
<1> QED
  BY <1>2, <1>4, <1>7, <1>8, <1>9

(* Profiles in the order they were chosen.                                  *)
IsOrder(order, snaps) == order \in Seq(DOMAIN snaps) /\ DOMAIN snaps \subseteq Range(order)

LEMMA FirstMet ==
  ASSUME NEW order, NEW P, order \in Seq(P), P \subseteq Range(order),
         NEW H, H \subseteq P, H # {}
  PROVE  \E n \in DOMAIN order : order[n] \in H /\ \A m \in 1 .. n - 1 : order[m] \notin H
<1> DEFINE T == {n \in DOMAIN order : order[n] \in H}
<1>1. DOMAIN order = 1 .. Len(order) /\ Len(order) \in Nat
  OBVIOUS
<1>2. T \in SUBSET Nat
  BY <1>1
<1>3. T # {}
  BY DEF Range
<1>4. PICK i \in T : \A j \in T : i <= j
  BY <1>2, <1>3, Smallest
<1>5. \A j \in 1 .. i - 1 : order[j] \notin H
  BY <1>1, <1>4
<1> QED
  BY <1>4, <1>5

(* Met() as a position and the order of an item.                            *)
Position(order, keyed, k) ==
  CHOOSE n \in DOMAIN order : /\ order[n] \in Holders(keyed, k)
                              /\ \A m \in 1 .. n - 1 : order[m] \notin Holders(keyed, k)
LEMMA MetIs ==
  ASSUME NEW order, NEW keyed, NEW k
  PROVE  Met(order, keyed, k) =
           Position(order, keyed, k) * (Len(Alphabet) + 1) * (Len(Alphabet) + 1)
             + Order(First(ItemsAt(keyed, k, order[Position(order, keyed, k)])))
  BY Zenon DEF Met, Position

LEMMA PositionHolds ==
  ASSUME NEW keyed, NEW order, order \in Seq(DOMAIN keyed), DOMAIN keyed \subseteq Range(order),
         NEW k \in AllKeys(keyed)
  PROVE  /\ Position(order, keyed, k) \in DOMAIN order
         /\ order[Position(order, keyed, k)] \in Holders(keyed, k)
<1>1. Holders(keyed, k) \subseteq DOMAIN keyed /\ Holders(keyed, k) # {}
  BY DEF Holders, AllKeys
<1>2. \E n \in DOMAIN order : order[n] \in Holders(keyed, k) /\ \A m \in 1 .. n - 1 : order[m] \notin Holders(keyed, k)
  BY <1>1, FirstMet
<1> QED
  BY <1>2 DEF Position

LEMMA SameMet ==
  ASSUME NEW keyed, NEW less, WholeKeys(less, keyed), NEW order, order \in Seq(DOMAIN keyed),
         DOMAIN keyed \subseteq Range(order), NEW k \in AllKeys(less)
  PROVE  Met(order, less, k) = Met(order, keyed, k)
<1>1. k \in AllKeys(keyed) /\ Holders(less, k) = Holders(keyed, k)
  BY WholeGroups
<1>2. Position(order, less, k) = Position(order, keyed, k)
  BY <1>1 DEF Position
<1>3. order[Position(order, keyed, k)] \in DOMAIN keyed
  BY <1>1, PositionHolds DEF Holders
<1>4. ItemsAt(less, k, order[Position(order, keyed, k)]) = ItemsAt(keyed, k, order[Position(order, keyed, k)])
  BY <1>3, WholeGroups
<1> QED
  BY <1>2, <1>4, MetIs

(* Where a key is met is a natural number with a bound.                     *)
LEMMA RankInAlphabet ==
  ASSUME NEW n \in Names
  PROVE  Rank(n) \in 1 .. Len(Alphabet) /\ Len(Alphabet) \in Nat
<1>0. Alphabet \in Seq(Names)
  BY CompareAssumption, Zenon
<1>1. DOMAIN Alphabet = 1 .. Len(Alphabet) /\ Len(Alphabet) \in Nat
  BY <1>0
<1>2. \E i \in 1 .. Len(Alphabet) : Alphabet[i] = n
  BY <1>1 DEF Names, Range
<1> QED
  BY <1>2, <1>1 DEF Rank

LEMMA Product ==
  ASSUME NEW a \in Nat, NEW b \in Nat, NEW c \in Nat, a <= b
  PROVE  a * c <= b * c /\ a * c \in Nat /\ b * c \in Nat
  OBVIOUS

LEMMA OrderBounded ==
  ASSUME NEW o, o.schema \in Names, o.name \in Names
  PROVE  Order(o) \in 0 .. (Len(Alphabet) * (Len(Alphabet) + 1) + Len(Alphabet))
<1> DEFINE l == Len(Alphabet)
           r == Rank(o.schema)
<1>1. r \in 1 .. l /\ Rank(o.name) \in 1 .. l /\ l \in Nat /\ l + 1 \in Nat
  BY RankInAlphabet
<1>2. r * (l + 1) <= l * (l + 1) /\ r * (l + 1) \in Nat /\ l * (l + 1) \in Nat
  <2>1. r \in Nat /\ r <= l
    BY <1>1
  <2> HIDE DEF r, l
  <2> QED
    BY <2>1, <1>1, Product
<1>3. ASSUME NEW u \in Nat, NEW v \in Nat, u <= v, NEW s \in 1 .. l
      PROVE  u + s \in 0 .. (v + l)
  BY <1>1, <1>3
<1>4. r * (l + 1) + Rank(o.name) \in 0 .. (l * (l + 1) + l)
  <2> HIDE DEF r, l
  <2> QED
    BY <1>1, <1>2, <1>3
<1> QED
  BY <1>4 DEF Order

MetBound(order) ==
  Len(order) * (Len(Alphabet) + 1) * (Len(Alphabet) + 1) + (Len(Alphabet) * (Len(Alphabet) + 1) + Len(Alphabet))

LEMMA MetBounded ==
  ASSUME NEW keyed, DOMAIN keyed \subseteq Profiles, \A p \in DOMAIN keyed : Named(DOMAIN keyed[p]),
         NEW order, order \in Seq(DOMAIN keyed), DOMAIN keyed \subseteq Range(order),
         NEW k \in AllKeys(keyed)
  PROVE  Met(order, keyed, k) \in 0 .. MetBound(order) /\ MetBound(order) \in Nat
<1> DEFINE l == Len(Alphabet)
           i == Position(order, keyed, k)
           S == ItemsAt(keyed, k, order[i])
           b == l * (l + 1) + l
<1>1. i \in 1 .. Len(order) /\ Len(order) \in Nat /\ order[i] \in Holders(keyed, k)
  BY PositionHolds
<1>2. S # {} /\ S \subseteq DOMAIN keyed[order[i]] /\ order[i] \in DOMAIN keyed
  BY <1>1 DEF Holders, ItemsAt, Range
<1>3. First(S) \in S /\ Named(S)
  BY <1>2, FirstIsOne DEF Named
<1>4. Order(First(S)) \in 0 .. b
  BY <1>3, OrderBounded DEF Named
<1>5. l \in Nat
  BY <1>3, RankInAlphabet DEF Named
<1>6. l + 1 \in Nat /\ b \in Nat
  BY <1>5, Product
<1> HIDE DEF l, i, b
<1>7. i \in Nat /\ i <= Len(order)
  BY <1>1
<1>8. i * (l + 1) <= Len(order) * (l + 1) /\ i * (l + 1) \in Nat /\ Len(order) * (l + 1) \in Nat
  BY <1>1, <1>6, <1>7, Product
<1> DEFINE c == i * (l + 1)
           d == Len(order) * (l + 1)
<1>9. c * (l + 1) <= d * (l + 1) /\ c * (l + 1) \in Nat /\ d * (l + 1) \in Nat
  <2> HIDE DEF c, d
  <2> QED
    BY <1>6, <1>8, Product DEF c, d
<1>10. ASSUME NEW u \in Nat, NEW v \in Nat, u <= v, NEW s \in 0 .. b
       PROVE  u + s \in 0 .. (v + b) /\ v + b \in Nat
  BY <1>6, <1>10
<1>11. c * (l + 1) + Order(First(S)) \in 0 .. (d * (l + 1) + b) /\ d * (l + 1) + b \in Nat
  <2> HIDE DEF c, d, S
  <2> QED
    BY <1>4, <1>9, <1>10
<1>12. Met(order, keyed, k) = c * (l + 1) + Order(First(S))
  BY MetIs DEF i, l
<1>13. MetBound(order) = d * (l + 1) + b
  BY DEF MetBound, l, b
<1> QED
  BY <1>11, <1>12, <1>13

(* Of keys, the one met last is one of them.                                *)
LEMMA KeyKeptIsOne ==
  ASSUME NEW snaps, Snaps(snaps), NEW order, IsOrder(order, snaps), NEW p, NEW n,
         KeysNamed(snaps, p, n) # {}
  PROVE  KeyKept(order, snaps, p, n) \in KeysNamed(snaps, p, n)
<1> DEFINE K == TableKeys(snaps)
           S == KeysNamed(snaps, p, n)
           B == MetBound(order)
           T == {B - Met(order, K, k) : k \in S}
<1>1. DOMAIN K = DOMAIN snaps /\ \A q \in DOMAIN snaps : DOMAIN K[q] = snaps[q].tables
  BY DEF TableKeys, ObjectKeys, Keys
<1>2. DOMAIN K \subseteq Profiles /\ \A q \in DOMAIN K : Named(DOMAIN K[q])
  BY <1>1 DEF Snaps
<1>3. S \subseteq AllKeys(K)
  BY DEF KeysNamed
<1>4. order \in Seq(DOMAIN K) /\ DOMAIN K \subseteq Range(order)
  BY <1>1 DEF IsOrder
<1> HIDE DEF K, S, B
<1>5. \A k \in S : Met(order, K, k) \in 0 .. B /\ B \in Nat
  BY <1>2, <1>3, <1>4, MetBounded DEF B
<1>6. T \in SUBSET Nat /\ T # {}
  BY <1>5 DEF S
<1>7. PICK x \in T : \A y \in T : x <= y
  BY <1>6, Smallest
<1>8. PICK k \in S : x = B - Met(order, K, k)
  BY <1>7
<1>9. \A other \in S : Met(order, K, other) <= Met(order, K, k)
  BY <1>5, <1>7, <1>8
<1> QED
  BY <1>9 DEF KeyKept, S, K

LEMMA KeysNamedShown ==
  ASSUME NEW snaps, Snaps(snaps), NEW less, NEW x, Filters(less, snaps, x),
         NEW p, NEW n, Fold[n.name] \notin x.tables
  PROVE  /\ KeysNamed(less, p, n) = KeysNamed(snaps, p, n)
         /\ KeysNamed(less, p, n) \subseteq AllKeys(TableKeys(less))
<1> DEFINE L == TableKeys(less)
           K == TableKeys(snaps)
<1>1. WholeKeys(L, K) /\ DOMAIN K \subseteq Profiles
  BY TableKeysFiltered DEF Snaps
<1>2. \A q \in DOMAIN K : Named(DOMAIN K[q]) /\ DOMAIN L[q] = Shown(DOMAIN K[q], x.tables)
  BY TableKeysFiltered DEF Snaps
<1>3. \A k \in AllKeys(K) : k \in AllKeys(L) <=> Fold[TableNames(snaps)[k].name] \notin x.tables
  BY <1>1, <1>2, KeyShown DEF TableNames
<1>4. \A k \in AllKeys(L) : /\ k \in AllKeys(K)
                            /\ TableNames(less)[k] = TableNames(snaps)[k]
                            /\ TableAt(less)[k] = TableAt(snaps)[k]
  BY TablesAtKeys
<1> HIDE DEF L, K
<1>5. \A k : (k \in AllKeys(L) /\ TableNames(less)[k] = n) <=> (k \in AllKeys(K) /\ TableNames(snaps)[k] = n)
  BY <1>3, <1>4
<1> QED
  BY <1>4, <1>5 DEF KeysNamed, L, K

LEMMA KeyKeptShown ==
  ASSUME NEW snaps, Snaps(snaps), NEW less, NEW x, Filters(less, snaps, x),
         NEW order, IsOrder(order, snaps),
         NEW p, NEW n, Fold[n.name] \notin x.tables
  PROVE  KeyKept(order, less, p, n) = KeyKept(order, snaps, p, n)
<1> DEFINE L == TableKeys(less)
           K == TableKeys(snaps)
           S == KeysNamed(snaps, p, n)
<1>1. KeysNamed(less, p, n) = S /\ S \subseteq AllKeys(L)
  BY KeysNamedShown
<1>2. WholeKeys(L, K) /\ DOMAIN K = DOMAIN snaps
  BY TableKeysFiltered
<1>3. \A k \in S : Met(order, L, k) = Met(order, K, k)
  BY <1>1, <1>2, SameMet DEF IsOrder
<1> HIDE DEF S, L, K
<1>4. \A k \in S : (\A other \in S : Met(order, L, other) <= Met(order, L, k)) <=>
                   (\A other \in S : Met(order, K, other) <= Met(order, K, k))
  BY <1>3
<1>5. KeyKept(order, less, p, n) =
        CHOOSE k \in S : \A other \in S : Met(order, L, other) <= Met(order, L, k)
  BY <1>1 DEF KeyKept, L
<1>6. KeyKept(order, snaps, p, n) =
        CHOOSE k \in S : \A other \in S : Met(order, K, other) <= Met(order, K, k)
  BY DEF KeyKept, K, S
<1> QED
  BY <1>4, <1>5, <1>6

(* The names of tables that a profile has under a key.                      *)
LEMMA NameHasKey ==
  ASSUME NEW snaps, NEW p \in DOMAIN snaps, NEW n \in NamesIn(snaps, p)
  PROVE  KeysNamed(snaps, p, n) # {}
<1>1. PICK k \in Range(TableKeys(snaps)[p]) : TableNames(snaps)[k] = n
  BY DEF NamesIn
<1>2. DOMAIN TableKeys(snaps) = DOMAIN snaps
  BY DEF TableKeys, ObjectKeys, Keys
<1>3. k \in AllKeys(TableKeys(snaps))
  BY <1>2 DEF AllKeys
<1>4. p \in Holders(TableKeys(snaps), k)
  BY <1>2 DEF Holders
<1>5. p \in DOMAIN TableAt(snaps)[k]
  BY <1>3, <1>4 DEF TableAt
<1> QED
  BY <1>1, <1>3, <1>5 DEF KeysNamed
-----------------------------------------------------------------------------------
(* Foreign keys, up to those that refer to a table the filter hides.        *)
SameReferences(F, G, X) ==
  \A c : LET f == ByName(F, c) g == ByName(G, c)
         IN /\ f = {} <=> g = {}
            /\ (\A fk \in f : Fold[fk.rtable] \notin X) => f = g
            /\ (\A fk \in g : Fold[fk.rtable] \notin X) => f = g
SameTable(t, u, X) ==
  /\ t.columns = u.columns /\ t.primary = u.primary /\ t.indexes = u.indexes
  /\ SameReferences(t.foreign, u.foreign, X)

LEMMA LastIsOne ==
  ASSUME NEW S, S # {}, Named(S)
  PROVE  Last(S) \in S
<1> DEFINE b == Len(Alphabet) * (Len(Alphabet) + 1) + Len(Alphabet)
           T == {b - Order(o) : o \in S}
<1>1. \A o \in S : Order(o) \in 0 .. b
  BY OrderBounded DEF Named
<1>2. b \in Nat
  <2>1. Len(Alphabet) \in Nat
    BY RankInAlphabet DEF Named
  <2>2. Len(Alphabet) + 1 \in Nat /\ Len(Alphabet) <= Len(Alphabet)
    BY <2>1
  <2>3. Len(Alphabet) * (Len(Alphabet) + 1) \in Nat
    BY <2>1, <2>2, Product
  <2> QED
    BY <2>1, <2>3
<1> HIDE DEF b
<1>3. T \in SUBSET Nat /\ T # {}
  BY <1>1, <1>2
<1>4. PICK x \in T : \A y \in T : x <= y
  BY <1>3, Smallest
<1>5. PICK o \in S : b - Order(o) = x
  BY <1>4
<1>6. \A other \in S : Order(o) >= Order(other)
  BY <1>1, <1>2, <1>4, <1>5
<1> QED
  BY <1>6 DEF Last

(* The table of a profile that has a key is one of its tables.              *)
LEMMA TableAtKey ==
  ASSUME NEW snaps, Snaps(snaps), NEW k \in AllKeys(TableKeys(snaps)),
         NEW p \in DOMAIN TableAt(snaps)[k]
  PROVE  p \in DOMAIN snaps /\ TableAt(snaps)[k][p] \in snaps[p].tables
<1> DEFINE K == TableKeys(snaps)
           S == ItemsAt(K, k, p)
<1>1. DOMAIN K = DOMAIN snaps /\ \A q \in DOMAIN snaps : DOMAIN K[q] = snaps[q].tables
  BY DEF TableKeys, ObjectKeys, Keys
<1>2. p \in Holders(K, k) /\ TableAt(snaps)[k][p] = Last(S)
  BY DEF TableAt
<1>3. p \in DOMAIN snaps /\ S # {} /\ S \subseteq snaps[p].tables
  BY <1>1, <1>2 DEF Holders, Range, ItemsAt
<1>4. Named(S)
  BY <1>3 DEF Snaps, Named
<1>5. Last(S) \in S
  BY <1>3, <1>4, LastIsOne
<1> QED
  BY <1>2, <1>3, <1>5

(* A foreign key has the parts ForeignKeysOf() gives it.                    *)
IsForeignKey(fk) ==
  fk = [name |-> fk.name, columns |-> fk.columns, rschema |-> fk.rschema, rtable |-> fk.rtable,
        rcolumns |-> fk.rcolumns, rules |-> fk.rules]

Referenced(snaps, p, fk) == ReferencedKey(snaps[p], AllKeys(TableKeys(snaps)), fk)
Renamed(snaps, p, own, fk) ==
  ForeignKey(snaps[p], own, TableNames(snaps), ColumnNamesAt(snaps), fk)

Chosen(snaps, p, fk) == CHOOSE key \in Referenced(snaps, p, fk) : TRUE

(* A foreign key made to refer to the columns of another table.             *)
Repointed(r, s, t, names) ==
  [r EXCEPT !.rschema = s, !.rtable = t, !.rcolumns = ColumnNames(names, @)]

LEMMA ReferenceReplaced ==
  ASSUME NEW r, IsForeignKey(r), NEW s, NEW t, NEW names
  PROVE  Repointed(r, s, t, names) =
         [name |-> r.name, columns |-> r.columns, rschema |-> s, rtable |-> t,
          rcolumns |-> ColumnNames(names, r.rcolumns), rules |-> r.rules]
<1> DEFINE q == [r EXCEPT !.rschema = s]
           u == [q EXCEPT !.rtable = t]
<1>1. q = [name |-> r.name, columns |-> r.columns, rschema |-> s, rtable |-> r.rtable,
           rcolumns |-> r.rcolumns, rules |-> r.rules]
  BY DEF IsForeignKey
<1>2. u = [name |-> r.name, columns |-> r.columns, rschema |-> s, rtable |-> t,
           rcolumns |-> r.rcolumns, rules |-> r.rules]
  <2> HIDE DEF q
  <2> QED
    BY <1>1
<1>3. [u EXCEPT !.rcolumns = ColumnNames(names, @)] =
         [name |-> r.name, columns |-> r.columns, rschema |-> s, rtable |-> t,
          rcolumns |-> ColumnNames(names, r.rcolumns), rules |-> r.rules]
  <2> HIDE DEF u
  <2> QED
    BY <1>2
<1>4. Repointed(r, s, t, names) = [u EXCEPT !.rcolumns = ColumnNames(names, @)]
  BY DEF Repointed
<1> QED
  BY <1>3, <1>4

LEMMA RenamedKey ==
  ASSUME NEW snaps, NEW p, NEW own, NEW fk, IsForeignKey(fk)
  PROVE  /\ Renamed(snaps, p, own, fk).name = fk.name
         /\ Referenced(snaps, p, fk) = {} => Renamed(snaps, p, own, fk).rtable = fk.rtable
         /\ Referenced(snaps, p, fk) # {} =>
              Renamed(snaps, p, own, fk).rtable = TableNames(snaps)[Chosen(snaps, p, fk)].name
<1> DEFINE known == Referenced(snaps, p, fk)
           k == Chosen(snaps, p, fk)
           renamed == [fk EXCEPT !.columns = ColumnNames(own, @)]
<1>1. DOMAIN TableNames(snaps) = AllKeys(TableKeys(snaps))
  BY DEF TableNames, CanonicalObjects
<1>2. Renamed(snaps, p, own, fk) =
        IF known = {} THEN renamed
        ELSE Repointed(renamed, TableNames(snaps)[k].schema, TableNames(snaps)[k].name,
                       ColumnNamesAt(snaps)[k])
  BY <1>1, Zenon DEF Renamed, ForeignKey, Referenced, Chosen, Repointed
<1>3. renamed = [name |-> fk.name, columns |-> ColumnNames(own, fk.columns), rschema |-> fk.rschema,
                 rtable |-> fk.rtable, rcolumns |-> fk.rcolumns, rules |-> fk.rules]
  BY DEF IsForeignKey
<1> HIDE DEF known, k, renamed
<1>4. IsForeignKey(renamed) /\ renamed.name = fk.name /\ renamed.rtable = fk.rtable
  BY <1>3 DEF IsForeignKey
<1>5. CASE known = {}
  BY <1>2, <1>4, <1>5 DEF known
<1>6. CASE known # {}
  <2>1. Renamed(snaps, p, own, fk) =
          [name |-> renamed.name, columns |-> renamed.columns,
           rschema |-> TableNames(snaps)[k].schema, rtable |-> TableNames(snaps)[k].name,
           rcolumns |-> ColumnNames(ColumnNamesAt(snaps)[k], renamed.rcolumns), rules |-> renamed.rules]
    BY <1>2, <1>4, <1>6, ReferenceReplaced
  <2> QED
    BY <2>1, <1>4, <1>6 DEF known, k
<1> QED
  BY <1>5, <1>6

(* A table referred to is called as the key says, up to the case.           *)
LEMMA ReferencedName ==
  ASSUME NEW snaps, Snaps(snaps), NEW p \in DOMAIN snaps, NEW fk,
         NEW k \in AllKeys(TableKeys(snaps)),
         k \in {ExactKey(snaps[p], [schema |-> fk.rschema, name |-> fk.rtable]),
                LooseKey(snaps[p], [schema |-> fk.rschema, name |-> fk.rtable])}
  PROVE  Fold[TableNames(snaps)[k].name] = Fold[fk.rtable]
<1> DEFINE K == TableKeys(snaps)
           items == [q \in DOMAIN snaps |-> snaps[q].tables]
<1>1. DOMAIN K = DOMAIN snaps /\ \A q \in DOMAIN snaps : DOMAIN K[q] = snaps[q].tables
  BY DEF TableKeys, ObjectKeys, Keys
<1>2. DOMAIN K \subseteq Profiles /\ \A q \in DOMAIN K : Named(DOMAIN K[q])
  BY <1>1 DEF Snaps
<1>3. PICK q \in DOMAIN K : \E o \in DOMAIN K[q] : K[q][o] = k /\ CanonicalObjects(K)[k] = QualifiedName(o)
  BY <1>2, SpelledAsItem
<1>4. PICK o \in DOMAIN K[q] : K[q][o] = k /\ CanonicalObjects(K)[k] = QualifiedName(o)
  BY <1>3
<1>5. TableNames(snaps)[k].name = o.name
  BY <1>4 DEF TableNames, QualifiedName
<1>6. q \in DOMAIN items /\ o \in items[q]
  BY <1>1, <1>3, <1>4
<1>7. ObjectKeys(snaps, items)[q][o] \in {ExactKey(snaps[q], o), LooseKey(snaps[q], o)}
  <2> HIDE DEF items
  <2> QED
    BY <1>6, KeyOfObject
<1>8. k \in {ExactKey(snaps[q], o), LooseKey(snaps[q], o)}
  BY <1>4, <1>7 DEF TableKeys
<1>9. Fold[o.name] = Fold[fk.rtable]
  BY <1>8 DEF ExactKey, LooseKey
<1> QED
  BY <1>5, <1>9

LEMMA KnownReferences ==
  ASSUME NEW snaps, NEW p, NEW fk
  PROVE  Referenced(snaps, p, fk) \subseteq
           AllKeys(TableKeys(snaps)) \cap
           {ExactKey(snaps[p], [schema |-> fk.rschema, name |-> fk.rtable]),
            LooseKey(snaps[p], [schema |-> fk.rschema, name |-> fk.rtable])}
  BY DEF Referenced, ReferencedKey

LEMMA RenamedReference ==
  ASSUME NEW snaps, Snaps(snaps), NEW p \in DOMAIN snaps, NEW own, NEW fk, IsForeignKey(fk)
  PROVE  /\ Renamed(snaps, p, own, fk).name = fk.name
         /\ Fold[Renamed(snaps, p, own, fk).rtable] = Fold[fk.rtable]
<1> DEFINE k == Chosen(snaps, p, fk)
<1>1. CASE Referenced(snaps, p, fk) = {}
  BY <1>1, RenamedKey
<1>2. CASE Referenced(snaps, p, fk) # {}
  <2>1. k \in Referenced(snaps, p, fk)
    BY <1>2 DEF Chosen
  <2> HIDE DEF k
  <2>2. /\ k \in AllKeys(TableKeys(snaps))
        /\ k \in {ExactKey(snaps[p], [schema |-> fk.rschema, name |-> fk.rtable]),
                  LooseKey(snaps[p], [schema |-> fk.rschema, name |-> fk.rtable])}
    BY <2>1, KnownReferences
  <2>3. Fold[TableNames(snaps)[k].name] = Fold[fk.rtable]
    BY <2>2, ReferencedName
  <2> QED
    BY <1>2, <2>3, RenamedKey DEF k
<1> QED
  BY <1>1, <1>2
-----------------------------------------------------------------------------------
(* A key that refers to a table the filter shows is renamed as without it.  *)
LEMMA RenamedShown ==
  ASSUME NEW snaps, Snaps(snaps), NEW less, NEW x, Filters(less, snaps, x),
         NEW p \in DOMAIN snaps, NEW own, NEW fk, Fold[fk.rtable] \notin x.tables
  PROVE  Renamed(less, p, own, fk) = Renamed(snaps, p, own, fk)
<1> DEFINE L == TableKeys(less)
           K == TableKeys(snaps)
           ref == [schema |-> fk.rschema, name |-> fk.rtable]
<1>1. WholeKeys(L, K) /\ DOMAIN K \subseteq Profiles
  BY TableKeysFiltered DEF Snaps
<1>2. \A q \in DOMAIN K : Named(DOMAIN K[q]) /\ DOMAIN L[q] = Shown(DOMAIN K[q], x.tables)
  BY TableKeysFiltered DEF Snaps
<1>3. \A k \in AllKeys(K) : k \in AllKeys(L) <=> Fold[TableNames(snaps)[k].name] \notin x.tables
  BY <1>1, <1>2, KeyShown DEF TableNames
<1>4. \A k \in AllKeys(L) : /\ k \in AllKeys(K)
                            /\ TableNames(less)[k] = TableNames(snaps)[k]
                            /\ ColumnNamesAt(less)[k] = ColumnNamesAt(snaps)[k]
  BY TablesAtKeys
<1>5. ExactKey(less[p], ref) = ExactKey(snaps[p], ref) /\ LooseKey(less[p], ref) = LooseKey(snaps[p], ref)
  <2>1. less[p].default = snaps[p].default
    BY DEF Filters, SameDefaults
  <2> QED
    BY <2>1 DEF LooseKey, ExactKey, SchemaKey
<1> HIDE DEF L, K
<1>6. ASSUME NEW k \in {ExactKey(snaps[p], ref), LooseKey(snaps[p], ref)}
      PROVE  k \in AllKeys(L) <=> k \in AllKeys(K)
  <2>1. k \in AllKeys(K) => Fold[TableNames(snaps)[k].name] = Fold[fk.rtable]
    BY <1>6, ReferencedName DEF K
  <2> QED
    BY <1>3, <1>4, <2>1
<1>7. Referenced(less, p, fk) = Referenced(snaps, p, fk)
  <2>1. Referenced(less, p, fk) = IF ExactKey(snaps[p], ref) \in AllKeys(L) THEN {ExactKey(snaps[p], ref)}
                                  ELSE {LooseKey(snaps[p], ref)} \cap AllKeys(L)
    BY <1>5 DEF Referenced, ReferencedKey, L
  <2>2. Referenced(snaps, p, fk) = IF ExactKey(snaps[p], ref) \in AllKeys(K) THEN {ExactKey(snaps[p], ref)}
                                   ELSE {LooseKey(snaps[p], ref)} \cap AllKeys(K)
    BY DEF Referenced, ReferencedKey, K
  <2> HIDE DEF ref
  <2> QED
    BY <1>6, <2>1, <2>2
<1> DEFINE known == Referenced(snaps, p, fk)
           k == Chosen(snaps, p, fk)
           renamed == [fk EXCEPT !.columns = ColumnNames(own, @)]
<1>8. ASSUME NEW s
      PROVE  DOMAIN TableNames(s) = AllKeys(TableKeys(s))
  BY DEF TableNames, CanonicalObjects
<1>9. Renamed(snaps, p, own, fk) =
        IF known = {} THEN renamed
        ELSE [renamed EXCEPT !.rschema = TableNames(snaps)[k].schema,
                             !.rtable = TableNames(snaps)[k].name,
                             !.rcolumns = ColumnNames(ColumnNamesAt(snaps)[k], @)]
  BY <1>8, Zenon DEF Renamed, ForeignKey, Referenced, Chosen
<1>10. Renamed(less, p, own, fk) =
        IF Referenced(less, p, fk) = {} THEN renamed
        ELSE [renamed EXCEPT !.rschema = TableNames(less)[Chosen(less, p, fk)].schema,
                             !.rtable = TableNames(less)[Chosen(less, p, fk)].name,
                             !.rcolumns = ColumnNames(ColumnNamesAt(less)[Chosen(less, p, fk)], @)]
  BY <1>8, Zenon DEF Renamed, ForeignKey, Referenced, Chosen
<1>11. Chosen(less, p, fk) = k
  BY <1>7 DEF Chosen
<1>12. CASE known = {}
  BY <1>7, <1>9, <1>10, <1>12
<1>13. CASE known # {}
  <2>1. k \in Referenced(less, p, fk)
    BY <1>7, <1>13 DEF Chosen
  <2>2. k \in AllKeys(L)
    BY <2>1, KnownReferences DEF L
  <2> HIDE DEF k, renamed
  <2>3. TableNames(less)[k] = TableNames(snaps)[k] /\ ColumnNamesAt(less)[k] = ColumnNamesAt(snaps)[k]
    BY <1>4, <2>2
  <2> QED
    BY <1>7, <1>9, <1>10, <1>11, <1>13, <2>3
<1> QED
  BY <1>12, <1>13

Referring(snaps) ==
  \A p \in DOMAIN snaps : \A t \in snaps[p].tables : \A fk \in t.foreign : IsForeignKey(fk)

RenamedAll(snaps, p, own, F) == {Renamed(snaps, p, own, fk) : fk \in F}

LEMMA ReferencesShown ==
  ASSUME NEW snaps, Snaps(snaps), NEW less, Snaps(less), NEW x, Filters(less, snaps, x),
         NEW p \in DOMAIN snaps, NEW own, NEW F, \A fk \in F : IsForeignKey(fk)
  PROVE  SameReferences(RenamedAll(less, p, own, F), RenamedAll(snaps, p, own, F), x.tables)
<1> DEFINE f(c) == ByName(RenamedAll(less, p, own, F), c)
           g(c) == ByName(RenamedAll(snaps, p, own, F), c)
           of(c) == {fk \in F : fk.name = c}
<1>0. p \in DOMAIN less
  BY DEF Filters, SameDefaults
<1>1. \A fk \in F : /\ Renamed(less, p, own, fk).name = fk.name
                    /\ Fold[Renamed(less, p, own, fk).rtable] = Fold[fk.rtable]
  BY <1>0, RenamedReference
<1>2. \A fk \in F : /\ Renamed(snaps, p, own, fk).name = fk.name
                    /\ Fold[Renamed(snaps, p, own, fk).rtable] = Fold[fk.rtable]
  BY RenamedReference
<1>3. \A fk \in F : Fold[fk.rtable] \notin x.tables => Renamed(less, p, own, fk) = Renamed(snaps, p, own, fk)
  BY RenamedShown
<1>4. ASSUME NEW c PROVE f(c) = {Renamed(less, p, own, fk) : fk \in of(c)}
  BY <1>1 DEF ByName, RenamedAll
<1>5. ASSUME NEW c PROVE g(c) = {Renamed(snaps, p, own, fk) : fk \in of(c)}
  BY <1>2 DEF ByName, RenamedAll
<1> HIDE DEF f, g
<1>6. ASSUME NEW c PROVE f(c) = {} <=> g(c) = {}
  BY <1>4, <1>5
<1>7. ASSUME NEW c, \A fk \in f(c) : Fold[fk.rtable] \notin x.tables PROVE f(c) = g(c)
  <2>1. \A fk \in of(c) : Fold[fk.rtable] \notin x.tables
    BY <1>1, <1>4, <1>7
  <2>2. \A fk \in of(c) : Renamed(less, p, own, fk) = Renamed(snaps, p, own, fk)
    BY <1>3, <2>1
  <2> QED
    BY <1>4, <1>5, <2>2
<1>8. ASSUME NEW c, \A fk \in g(c) : Fold[fk.rtable] \notin x.tables PROVE f(c) = g(c)
  <2>1. \A fk \in of(c) : Fold[fk.rtable] \notin x.tables
    BY <1>2, <1>5, <1>8
  <2>2. \A fk \in of(c) : Renamed(less, p, own, fk) = Renamed(snaps, p, own, fk)
    BY <1>3, <2>1
  <2> QED
    BY <1>4, <1>5, <2>2
<1> QED
  BY <1>6, <1>7, <1>8 DEF SameReferences, f, g

LEMMA TableShown ==
  ASSUME NEW snaps, Snaps(snaps), Referring(snaps), NEW less, Snaps(less), NEW x,
         Filters(less, snaps, x),
         NEW k \in AllKeys(TableKeys(less)), NEW p \in DOMAIN TableAt(less)[k]
  PROVE  SameTable(TableOf(less, p, k), TableOf(snaps, p, k), x.tables)
<1> DEFINE own == ColumnNamesAt(snaps)[k]
           keys == ColumnKeysAt(snaps)[k][p]
           t == TableAt(snaps)[k][p]
<1>1. /\ k \in AllKeys(TableKeys(snaps))
      /\ TableAt(less)[k] = TableAt(snaps)[k]
      /\ ColumnKeysAt(less)[k] = ColumnKeysAt(snaps)[k]
      /\ ColumnNamesAt(less)[k] = ColumnNamesAt(snaps)[k]
  BY TablesAtKeys
<1>2. p \in DOMAIN snaps /\ t \in snaps[p].tables
  BY <1>1, TableAtKey
<1>3. \A fk \in t.foreign : IsForeignKey(fk)
  BY <1>2 DEF Referring
<1> HIDE DEF own, keys, t
<1>4. TableOf(less, p, k) =
        CanonicalTable(less[p], keys, own, TableNames(less), ColumnNamesAt(less), t)
  BY <1>1 DEF TableOf, keys, own, t
<1>5. TableOf(snaps, p, k) =
        CanonicalTable(snaps[p], keys, own, TableNames(snaps), ColumnNamesAt(snaps), t)
  BY DEF TableOf, keys, own, t
<1>6. TableOf(less, p, k).columns = TableOf(snaps, p, k).columns
  BY <1>4, <1>5 DEF CanonicalTable
<1>7. TableOf(less, p, k).primary = TableOf(snaps, p, k).primary
  BY <1>4, <1>5 DEF CanonicalTable
<1>8. TableOf(less, p, k).indexes = TableOf(snaps, p, k).indexes
  BY <1>4, <1>5 DEF CanonicalTable
<1>9. TableOf(less, p, k).foreign = RenamedAll(less, p, own, t.foreign)
  BY <1>4 DEF CanonicalTable, RenamedAll, Renamed
<1>10. TableOf(snaps, p, k).foreign = RenamedAll(snaps, p, own, t.foreign)
  BY <1>5 DEF CanonicalTable, RenamedAll, Renamed
<1>11. SameReferences(RenamedAll(less, p, own, t.foreign), RenamedAll(snaps, p, own, t.foreign), x.tables)
  BY <1>2, <1>3, ReferencesShown
<1> QED
  BY <1>6, <1>7, <1>8, <1>9, <1>10, <1>11 DEF SameTable

(* Canonical tables U are those of T that X does not hide.                  *)
HidesNames(U, T, X) ==
  /\ DOMAIN U = DOMAIN T
  /\ \A p \in DOMAIN T : DOMAIN U[p] = {n \in DOMAIN T[p] : Fold[n.name] \notin X}
HidesTables(U, T, X) ==
  /\ HidesNames(U, T, X)
  /\ \A p \in DOMAIN T : \A n \in DOMAIN U[p] : SameTable(U[p][n], T[p][n], X)

LEMMA TablesHidden ==
  ASSUME NEW snaps, Snaps(snaps), Referring(snaps), NEW less, Snaps(less), NEW x,
         Filters(less, snaps, x), NEW order, IsOrder(order, snaps)
  PROVE  HidesTables(CanonicalTables(order, less), CanonicalTables(order, snaps), x.tables)
<1> DEFINE U == CanonicalTables(order, less)
           T == CanonicalTables(order, snaps)
           X == x.tables
<1>1. DOMAIN less = DOMAIN snaps
  BY DEF Filters, SameDefaults
<1>2. U = [p \in DOMAIN less |-> [n \in NamesIn(less, p) |-> TableOf(less, p, KeyKept(order, less, p, n))]]
  BY TablesAre
<1>3. T = [p \in DOMAIN snaps |-> [n \in NamesIn(snaps, p) |-> TableOf(snaps, p, KeyKept(order, snaps, p, n))]]
  BY TablesAre
<1> HIDE DEF U, T
<1>4. ASSUME NEW p \in DOMAIN snaps
      PROVE  NamesIn(less, p) = {n \in NamesIn(snaps, p) : Fold[n.name] \notin X}
  <2> DEFINE K == TableKeys(snaps)
             L == TableKeys(less)
  <2>1. WholeKeys(L, K) /\ DOMAIN K \subseteq Profiles /\ p \in DOMAIN K
    BY TableKeysFiltered DEF Snaps
  <2>2. \A q \in DOMAIN K : Named(DOMAIN K[q]) /\ DOMAIN L[q] = Shown(DOMAIN K[q], X)
    BY TableKeysFiltered DEF Snaps
  <2> HIDE DEF K, L
  <2>3. \A n : n \in NamesOf(L, p) <=> n \in NamesOf(K, p) /\ Fold[n.name] \notin X
    BY <2>1, <2>2, NamesShown
  <2>4. NamesIn(less, p) = NamesOf(L, p) /\ NamesIn(snaps, p) = NamesOf(K, p)
    BY DEF NamesIn, NamesOf, TableNames, K, L
  <2> QED
    BY <2>3, <2>4
<1>5. HidesNames(U, T, X)
  BY <1>1, <1>2, <1>3, <1>4 DEF HidesNames
<1>6. ASSUME NEW p \in DOMAIN snaps, NEW n \in NamesIn(less, p)
      PROVE  SameTable(U[p][n], T[p][n], X)
  <2> DEFINE k == KeyKept(order, less, p, n)
  <2>1. n \in NamesIn(snaps, p) /\ Fold[n.name] \notin X
    BY <1>4
  <2>2. k = KeyKept(order, snaps, p, n)
    BY <2>1, KeyKeptShown
  <2>3. U[p][n] = TableOf(less, p, k) /\ T[p][n] = TableOf(snaps, p, k)
    BY <1>1, <1>2, <1>3, <2>1, <2>2
  <2>4. k \in KeysNamed(less, p, n)
    <3>1. KeysNamed(less, p, n) # {}
      BY <1>1, NameHasKey
    <3>2. IsOrder(order, less)
      BY <1>1 DEF IsOrder
    <3> QED
      BY <3>1, <3>2, KeyKeptIsOne
  <2>5. k \in AllKeys(TableKeys(less)) /\ p \in DOMAIN TableAt(less)[k]
    BY <2>4 DEF KeysNamed
  <2> HIDE DEF k
  <2>6. SameTable(TableOf(less, p, k), TableOf(snaps, p, k), X)
    BY <2>5, TableShown
  <2> QED
    BY <2>3, <2>6
<1>7. \A p \in DOMAIN T : \A n \in DOMAIN U[p] : SameTable(U[p][n], T[p][n], X)
  BY <1>1, <1>2, <1>3, <1>6
<1> QED
  BY <1>5, <1>7 DEF HidesTables, U, T

(* Routines likewise, whose content is compared as it is.                   *)
HidesRoutines(U, T, X) ==
  HidesNames(U, T, X) /\ \A p \in DOMAIN T : \A n \in DOMAIN U[p] : U[p][n] = T[p][n]

LEMMA RoutinesHidden ==
  ASSUME NEW snaps, Snaps(snaps), NEW less, NEW x, Filters(less, snaps, x)
  PROVE  HidesRoutines(CanonicalRoutines(less), CanonicalRoutines(snaps), x.routines)
<1> DEFINE items == [p \in DOMAIN snaps |-> snaps[p].routines]
           few == [p \in DOMAIN less |-> less[p].routines]
           K == ObjectKeys(snaps, items)
           L == ObjectKeys(less, few)
           N == CanonicalObjects(K)
           M == CanonicalObjects(L)
           X == x.routines
           namesK(p) == NamesOf(K, p)
           namesL(p) == NamesOf(L, p)
           U == CanonicalRoutines(less)
           T == CanonicalRoutines(snaps)
<1>1. DOMAIN less = DOMAIN snaps /\ SameDefaults(less, snaps)
  BY DEF Filters, SameDefaults
<1>2. few = ShownOf(items, X)
  BY <1>1 DEF ShownOf, Filters
<1>3. WholeKeys(L, K)
  BY <1>1, <1>2, FilteringKeepsKeys
<1>4. DOMAIN K = DOMAIN snaps /\ \A p \in DOMAIN snaps : DOMAIN K[p] = snaps[p].routines
  BY DEF ObjectKeys, Keys
<1>5. DOMAIN L = DOMAIN less /\ \A p \in DOMAIN less : DOMAIN L[p] = less[p].routines
  BY DEF ObjectKeys, Keys
<1>6. DOMAIN K \subseteq Profiles /\ \A p \in DOMAIN K : Named(DOMAIN K[p])
  BY <1>4 DEF Snaps
<1>7. \A p \in DOMAIN K : DOMAIN L[p] = Shown(DOMAIN K[p], X)
  BY <1>1, <1>4, <1>5 DEF Filters
<1>8. U = [p \in DOMAIN snaps |-> [n \in namesL(p) |->
             Last({r \in less[p].routines : M[L[p][r]] = n}).content]]
  BY <1>1, Zenon DEF CanonicalRoutines, NamesOf
<1>9. T = [p \in DOMAIN snaps |-> [n \in namesK(p) |->
             Last({r \in snaps[p].routines : N[K[p][r]] = n}).content]]
  BY Zenon DEF CanonicalRoutines, NamesOf
<1> HIDE DEF items, few, K, L, U, T
<1>10. \A p \in DOMAIN snaps : namesL(p) = {n \in namesK(p) : Fold[n.name] \notin X}
  <2>1. \A p \in DOMAIN K : \A n : n \in NamesOf(L, p) <=> n \in NamesOf(K, p) /\ Fold[n.name] \notin X
    BY <1>3, <1>6, <1>7, NamesShown
  <2> QED
    BY <1>4, <2>1
<1>11. \A k \in AllKeys(L) : M[k] = N[k]
  BY <1>3, <1>6, SameNames
<1>12. \A k \in AllKeys(K) : k \in AllKeys(L) <=> Fold[N[k].name] \notin X
  BY <1>3, <1>6, <1>7, KeyShown
<1> HIDE DEF N, M
<1>13. ASSUME NEW p \in DOMAIN snaps, NEW n, Fold[n.name] \notin X
       PROVE  {r \in less[p].routines : M[L[p][r]] = n} = {r \in snaps[p].routines : N[K[p][r]] = n}
  <2>1. ASSUME NEW r \in less[p].routines PROVE r \in snaps[p].routines /\ M[L[p][r]] = N[K[p][r]]
    <3>1. r \in DOMAIN L[p] /\ p \in DOMAIN L /\ p \in DOMAIN K
      BY <1>1, <1>4, <1>5
    <3>2. L[p][r] = K[p][r] /\ r \in DOMAIN K[p]
      BY <1>3, <3>1 DEF WholeKeys
    <3>3. L[p][r] \in AllKeys(L)
      BY <3>1, KeyOfItem
    <3> QED
      BY <1>4, <1>11, <3>2, <3>3
  <2>2. ASSUME NEW r \in snaps[p].routines, N[K[p][r]] = n PROVE r \in less[p].routines
    <3>1. r \in DOMAIN K[p] /\ p \in DOMAIN K
      BY <1>4
    <3>2. K[p][r] \in AllKeys(K)
      BY <3>1, KeyOfItem
    <3>3. K[p][r] \in AllKeys(L)
      BY <1>12, <1>13, <2>2, <3>2
    <3>4. PICK q \in DOMAIN L : \E i \in DOMAIN L[q] : L[q][i] = K[p][r]
      BY <3>3, KeyOfItem
    <3>5. PICK i \in DOMAIN L[q] : L[q][i] = K[p][r]
      BY <3>4
    <3>6. q \in DOMAIN K /\ K[q][i] = K[p][r]
      BY <1>3, <3>4, <3>5 DEF WholeKeys
    <3>7. r \in DOMAIN L[p]
      BY <1>3, <3>1, <3>5, <3>6 DEF WholeKeys
    <3> QED
      BY <1>1, <1>5, <3>7
  <2> QED
    BY <2>1, <2>2
<1> HIDE DEF namesK, namesL
<1>14. HidesNames(U, T, X)
  BY <1>8, <1>9, <1>10 DEF HidesNames
<1>15. ASSUME NEW p \in DOMAIN snaps, NEW n \in namesL(p)
       PROVE  U[p][n] = T[p][n]
  <2>1. n \in namesK(p) /\ Fold[n.name] \notin X
    BY <1>10
  <2> QED
    BY <1>8, <1>9, <1>13, <2>1
<1>16. \A p \in DOMAIN T : \A n \in DOMAIN U[p] : U[p][n] = T[p][n]
  BY <1>8, <1>9, <1>15
<1> QED
  BY <1>14, <1>16 DEF HidesRoutines, U, T

(* Of names that X shows, the same profiles have them.                      *)
LEMMA HavingShown ==
  ASSUME NEW U, NEW T, NEW X, HidesNames(U, T, X), NEW P, P \subseteq DOMAIN T
  PROVE  /\ \A n : n \in Union(U, P) <=> n \in Union(T, P) /\ Fold[n.name] \notin X
         /\ \A n : Fold[n.name] \notin X => Having(U, P, n) = Having(T, P, n)
         /\ \A n : n \in Shared(U, P) <=> n \in Shared(T, P) /\ Fold[n.name] \notin X
<1>1. \A n : n \in Union(U, P) <=> n \in Union(T, P) /\ Fold[n.name] \notin X
  BY DEF HidesNames, Union
<1>2. ASSUME NEW n, Fold[n.name] \notin X PROVE Having(U, P, n) = Having(T, P, n)
  BY <1>2 DEF HidesNames, Having
<1>3. \A n : n \in Shared(U, P) <=> n \in Shared(T, P) /\ Fold[n.name] \notin X
  <2>1. \A n : n \in Shared(U, P) <=> n \in Union(U, P) /\ Cardinality(Having(U, P, n)) > 1
    BY DEF Shared
  <2>2. \A n : n \in Shared(T, P) <=> n \in Union(T, P) /\ Cardinality(Having(T, P, n)) > 1
    BY DEF Shared
  <2> QED
    BY <1>1, <1>2, <2>1, <2>2
<1> QED
  BY <1>1, <1>2, <1>3

LEMMA MissingShown ==
  ASSUME NEW U, NEW T, NEW X, HidesNames(U, T, X)
  PROVE  MissingObjects(U) = {f \in MissingObjects(T) : Fold[f.object.name] \notin X}
<1>1. \A n : n \in Union(U, DOMAIN T) <=> n \in Union(T, DOMAIN T) /\ Fold[n.name] \notin X
  BY HavingShown
<1>2. \A p \in DOMAIN T : \A n : n \in DOMAIN U[p] <=> n \in DOMAIN T[p] /\ Fold[n.name] \notin X
  BY DEF HidesNames
<1>3. DOMAIN U = DOMAIN T
  BY DEF HidesNames
<1>4. \A n, p : [object |-> n, missing_from_profile |-> p] \in MissingObjects(U) <=>
                  n \in Union(U, DOMAIN U) /\ p \in DOMAIN U /\ n \notin DOMAIN U[p]
  BY DEF MissingObjects
<1>5. \A n, p : [object |-> n, missing_from_profile |-> p] \in MissingObjects(T) <=>
                  n \in Union(T, DOMAIN T) /\ p \in DOMAIN T /\ n \notin DOMAIN T[p]
  BY DEF MissingObjects
<1>6. \A f \in MissingObjects(U) : f = [object |-> f.object, missing_from_profile |-> f.missing_from_profile]
  BY DEF MissingObjects
<1>7. \A f \in MissingObjects(T) : f = [object |-> f.object, missing_from_profile |-> f.missing_from_profile]
  BY DEF MissingObjects
<1>8. ASSUME NEW f \in MissingObjects(U)
      PROVE  f \in MissingObjects(T) /\ Fold[f.object.name] \notin X
  BY <1>1, <1>2, <1>3, <1>4, <1>5, <1>6
<1>9. ASSUME NEW f \in MissingObjects(T), Fold[f.object.name] \notin X
      PROVE  f \in MissingObjects(U)
  BY <1>1, <1>2, <1>3, <1>4, <1>5, <1>7, <1>9
<1> QED
  BY <1>8, <1>9

(* What is found table by table, of the tables shown.                       *)
ByTables(found, S) == UNION {ByTable(n, found[n]) : n \in S}

LEMMA ByTableShown ==
  ASSUME NEW S, NEW R, NEW X, \A n : n \in S <=> n \in R /\ Fold[n.name] \notin X,
         NEW F, NEW G, \A n \in S : F[n] = G[n]
  PROVE  \A f : f \in ByTables(F, S) <=> f \in ByTables(G, R) /\ Fold[f.table.name] \notin X
<1>1. \A n, H : \A f \in ByTable(n, H) : f.table = n
  BY DEF ByTable
<1>2. \A n \in S : ByTable(n, F[n]) = ByTable(n, G[n])
  OBVIOUS
<1> QED
  BY <1>1, <1>2 DEF ByTables

LEMMA MissingColumnsShown ==
  ASSUME NEW U, NEW T, NEW X, HidesTables(U, T, X)
  PROVE  /\ MissingColumns(U) = {f \in MissingColumns(T) : Fold[f.table.name] \notin X}
         /\ ColumnMismatches(U) = {f \in ColumnMismatches(T) : Fold[f.table.name] \notin X}
<1> DEFINE S == Shared(U, DOMAIN U)
           R == Shared(T, DOMAIN T)
           F == [n \in S |-> MissingObjects(ColumnsAt(U, n))]
           G == [n \in R |-> MissingObjects(ColumnsAt(T, n))]
           FM == [n \in S |-> Mismatches(ColumnsAt(U, n), DOMAIN ColumnsAt(U, n))]
           GM == [n \in R |-> Mismatches(ColumnsAt(T, n), DOMAIN ColumnsAt(T, n))]
<1>1. HidesNames(U, T, X) /\ DOMAIN U = DOMAIN T
  BY DEF HidesTables, HidesNames
<1>2. \A n : n \in S <=> n \in R /\ Fold[n.name] \notin X
  BY <1>1, HavingShown
<1>3. ASSUME NEW n \in S PROVE ColumnsAt(U, n) = ColumnsAt(T, n)
  <2>1. Having(U, DOMAIN U, n) = Having(T, DOMAIN T, n)
    BY <1>1, <1>2, HavingShown
  <2>2. \A p \in Having(U, DOMAIN U, n) : U[p][n].columns = T[p][n].columns
    BY <1>1 DEF HidesTables, Having, SameTable
  <2> QED
    BY <2>1, <2>2 DEF ColumnsAt
<1>4. MissingColumns(U) = ByTables(F, S)
  BY DEF MissingColumns, ByTables
<1>5. MissingColumns(T) = ByTables(G, R)
  BY DEF MissingColumns, ByTables
<1>6. ColumnMismatches(U) = ByTables(FM, S)
  BY DEF ColumnMismatches, ByTables
<1>7. ColumnMismatches(T) = ByTables(GM, R)
  BY DEF ColumnMismatches, ByTables
<1>8. \A n \in S : F[n] = G[n] /\ FM[n] = GM[n]
  BY <1>2, <1>3
<1> HIDE DEF S, R, F, G, FM, GM
<1>9. \A f : f \in ByTables(F, S) <=> f \in ByTables(G, R) /\ Fold[f.table.name] \notin X
  BY <1>2, <1>8, ByTableShown, ZenonT(40)
<1>10. \A f : f \in ByTables(FM, S) <=> f \in ByTables(GM, R) /\ Fold[f.table.name] \notin X
  BY <1>2, <1>8, ByTableShown, ZenonT(40)
<1> QED
  BY <1>4, <1>5, <1>6, <1>7, <1>9, <1>10

LEMMA PrimaryShown ==
  ASSUME NEW U, NEW T, NEW X, HidesTables(U, T, X), NEW P, P \subseteq DOMAIN T
  PROVE  PrimaryKeyMismatches(U, P) = {f \in PrimaryKeyMismatches(T, P) : Fold[f.table.name] \notin X}
<1> DEFINE u(n) == [p \in Having(U, P, n) |-> U[p][n].primary]
           t(n) == [p \in Having(T, P, n) |-> T[p][n].primary]
           S == Shared(U, P)
           R == Shared(T, P)
<1>1. HidesNames(U, T, X) /\ DOMAIN U = DOMAIN T
  BY DEF HidesTables, HidesNames
<1>2. \A n : n \in S <=> n \in R /\ Fold[n.name] \notin X
  BY <1>1, HavingShown
<1>3. ASSUME NEW n \in S PROVE u(n) = t(n)
  <2>1. Having(U, P, n) = Having(T, P, n)
    BY <1>1, <1>2, HavingShown
  <2>2. \A p \in Having(U, P, n) : U[p][n].primary = T[p][n].primary
    BY <1>1 DEF HidesTables, Having, SameTable
  <2> QED
    BY <2>1, <2>2
<1>4. PrimaryKeyMismatches(U, P) = {[table |-> n, values_by_profile |-> u(n)] : n \in {n \in S : Differ(u(n))}}
  BY DEF PrimaryKeyMismatches
<1>5. PrimaryKeyMismatches(T, P) = {[table |-> n, values_by_profile |-> t(n)] : n \in {n \in R : Differ(t(n))}}
  BY DEF PrimaryKeyMismatches
<1> HIDE DEF u, t, S, R
<1> QED
  BY <1>2, <1>3, <1>4, <1>5

LEMMA MismatchesShown ==
  ASSUME NEW U, NEW T, NEW X, HidesRoutines(U, T, X)
  PROVE  Mismatches(U, DOMAIN U) = {f \in Mismatches(T, DOMAIN T) : Fold[f.object.name] \notin X}
<1> DEFINE P == DOMAIN T
           u(n) == [p \in Having(U, P, n) |-> U[p][n]]
           t(n) == [p \in Having(T, P, n) |-> T[p][n]]
           S == Union(U, P)
           R == Union(T, P)
<1>1. HidesNames(U, T, X) /\ DOMAIN U = P
  BY DEF HidesRoutines, HidesNames
<1>2. \A n : n \in S <=> n \in R /\ Fold[n.name] \notin X
  BY <1>1, HavingShown
<1>3. ASSUME NEW n \in S PROVE u(n) = t(n)
  <2>1. Having(U, P, n) = Having(T, P, n)
    BY <1>1, <1>2, HavingShown
  <2>2. \A p \in Having(U, P, n) : U[p][n] = T[p][n]
    BY <1>1 DEF HidesRoutines, Having
  <2> QED
    BY <2>1, <2>2
<1>4. Mismatches(U, DOMAIN U) = {[object |-> n, values_by_profile |-> u(n)] : n \in {n \in S : Differ(u(n))}}
  BY <1>1 DEF Mismatches
<1>5. Mismatches(T, DOMAIN T) = {[object |-> n, values_by_profile |-> t(n)] : n \in {n \in R : Differ(t(n))}}
  BY DEF Mismatches
<1> HIDE DEF u, t, S, R
<1> QED
  BY <1>2, <1>3, <1>4, <1>5
-----------------------------------------------------------------------------------
(* NamedMismatches() with a name for each finding.                          *)
ValuesOf(T, P, kind, n, c) == [p \in Having(T, P, n) |-> ByName(T[p][n][kind], c)]
PartsOf(T, P, kind, n) == {s.name : s \in UNION {T[p][n][kind] : p \in Having(T, P, n)}}
NamedFinding(T, P, kind, n, c) ==
  [table |-> n, part |-> c, values_by_profile |-> ValuesOf(T, P, kind, n, c)]
Found(T, P, kind, n, c) ==
  n \in Shared(T, P) /\ c \in PartsOf(T, P, kind, n) /\ Differ(ValuesOf(T, P, kind, n, c))

LEMMA NamedMismatchesAre ==
  ASSUME NEW T, NEW P, NEW kind
  PROVE  /\ \A n, c : Found(T, P, kind, n, c) => NamedFinding(T, P, kind, n, c) \in NamedMismatches(T, P, kind)
         /\ \A f \in NamedMismatches(T, P, kind) :
              /\ Found(T, P, kind, f.table, f.part)
              /\ f = NamedFinding(T, P, kind, f.table, f.part)
<1> DEFINE of(n) == {[table |-> n, part |-> c, values_by_profile |-> ValuesOf(T, P, kind, n, c)] :
                       c \in {c \in PartsOf(T, P, kind, n) : Differ(ValuesOf(T, P, kind, n, c))}}
<1>1. NamedMismatches(T, P, kind) = UNION {of(n) : n \in Shared(T, P)}
  BY Zenon DEF NamedMismatches, ValuesOf, PartsOf
<1>2. \A n, c : Found(T, P, kind, n, c) => NamedFinding(T, P, kind, n, c) \in of(n) /\ n \in Shared(T, P)
  BY DEF Found, NamedFinding
<1>3. \A n : \A f \in of(n) : f.table = n /\ f = NamedFinding(T, P, kind, n, f.part)
                              /\ f.part \in PartsOf(T, P, kind, n) /\ Differ(ValuesOf(T, P, kind, n, f.part))
  BY DEF NamedFinding
<1> HIDE DEF of
<1> QED
  BY <1>1, <1>2, <1>3 DEF Found

LEMMA IndexesShown ==
  ASSUME NEW U, NEW T, NEW X, HidesTables(U, T, X), NEW P, P \subseteq DOMAIN T
  PROVE  NamedMismatches(U, P, "indexes") =
           {f \in NamedMismatches(T, P, "indexes") : Fold[f.table.name] \notin X}
<1> DEFINE kind == "indexes"
<1>1. HidesNames(U, T, X)
  BY DEF HidesTables
<1>2. \A n : n \in Shared(U, P) <=> n \in Shared(T, P) /\ Fold[n.name] \notin X
  BY <1>1, HavingShown
<1>3. ASSUME NEW n \in Shared(U, P), NEW c
      PROVE  /\ ValuesOf(U, P, kind, n, c) = ValuesOf(T, P, kind, n, c)
             /\ PartsOf(U, P, kind, n) = PartsOf(T, P, kind, n)
  <2>1. Having(U, P, n) = Having(T, P, n)
    BY <1>1, <1>2, HavingShown
  <2>2. \A p \in Having(U, P, n) : U[p][n][kind] = T[p][n][kind]
    BY DEF HidesTables, HidesNames, Having, SameTable
  <2> HIDE DEF kind
  <2> QED
    BY <2>1, <2>2 DEF ValuesOf, PartsOf
<1> HIDE DEF kind
<1>4. ASSUME NEW n, NEW c
      PROVE  Found(U, P, kind, n, c) <=> Found(T, P, kind, n, c) /\ Fold[n.name] \notin X
  BY <1>2, <1>3 DEF Found
<1>5. ASSUME NEW n, NEW c, Found(U, P, kind, n, c)
      PROVE  NamedFinding(U, P, kind, n, c) = NamedFinding(T, P, kind, n, c)
  BY <1>3, <1>5 DEF Found, NamedFinding
<1>6. ASSUME NEW f \in NamedMismatches(U, P, kind)
      PROVE  f \in NamedMismatches(T, P, kind) /\ Fold[f.table.name] \notin X
  BY <1>4, <1>5, NamedMismatchesAre
<1>7. ASSUME NEW f \in NamedMismatches(T, P, kind), Fold[f.table.name] \notin X
      PROVE  f \in NamedMismatches(U, P, kind)
  BY <1>4, <1>5, <1>7, NamedMismatchesAre
<1> QED
  BY <1>6, <1>7 DEF kind

(* A finding about foreign keys that all refer to tables X shows.           *)
RefersTo(f, X) ==
  \E p \in DOMAIN f.values_by_profile : \E fk \in f.values_by_profile[p] : Fold[fk.rtable] \in X

LEMMA ForeignShown ==
  ASSUME NEW U, NEW T, NEW X, HidesTables(U, T, X), NEW P, P \subseteq DOMAIN T
  PROVE  {f \in NamedMismatches(U, P, "foreign") : Fold[f.table.name] \notin X /\ ~RefersTo(f, X)} =
         {f \in NamedMismatches(T, P, "foreign") : Fold[f.table.name] \notin X /\ ~RefersTo(f, X)}
<1> DEFINE kind == "foreign"
<1>1. HidesNames(U, T, X)
  BY DEF HidesTables
<1>2. \A n : n \in Shared(U, P) <=> n \in Shared(T, P) /\ Fold[n.name] \notin X
  BY <1>1, HavingShown
<1>3. ASSUME NEW n \in Shared(U, P)
      PROVE  /\ Having(U, P, n) = Having(T, P, n)
             /\ \A p \in Having(U, P, n) : SameReferences(U[p][n][kind], T[p][n][kind], X)
  <2>1. Having(U, P, n) = Having(T, P, n)
    BY <1>1, <1>2, HavingShown
  <2>2. \A p \in Having(U, P, n) : SameReferences(U[p][n][kind], T[p][n][kind], X)
    BY DEF HidesTables, HidesNames, Having, SameTable
  <2> QED
    BY <2>1, <2>2
<1> HIDE DEF kind
<1>10. ASSUME NEW F, NEW G, SameReferences(F, G, X), NEW c
       PROVE  /\ ByName(F, c) # {} <=> ByName(G, c) # {}
              /\ (\A fk \in ByName(F, c) : Fold[fk.rtable] \notin X) => ByName(F, c) = ByName(G, c)
              /\ (\A fk \in ByName(G, c) : Fold[fk.rtable] \notin X) => ByName(F, c) = ByName(G, c)
  BY <1>10 DEF SameReferences
<1>4. ASSUME NEW V, NEW n, NEW c
      PROVE  c \in PartsOf(V, P, kind, n) <=> \E p \in Having(V, P, n) : ByName(V[p][n][kind], c) # {}
  BY DEF PartsOf, ByName
<1>5. ASSUME NEW n \in Shared(U, P), NEW c
      PROVE  c \in PartsOf(U, P, kind, n) <=> c \in PartsOf(T, P, kind, n)
  BY <1>3, <1>4, <1>10
<1>6. ASSUME NEW V, NEW n, NEW c
      PROVE  RefersTo(NamedFinding(V, P, kind, n, c), X) <=>
               \E p \in Having(V, P, n) : \E fk \in ByName(V[p][n][kind], c) : Fold[fk.rtable] \in X
  BY DEF RefersTo, NamedFinding, ValuesOf
<1>7. ASSUME NEW n \in Shared(U, P), NEW c,
             ~RefersTo(NamedFinding(U, P, kind, n, c), X) \/ ~RefersTo(NamedFinding(T, P, kind, n, c), X)
      PROVE  ValuesOf(U, P, kind, n, c) = ValuesOf(T, P, kind, n, c)
  <2>1. \A p \in Having(U, P, n) : ByName(U[p][n][kind], c) = ByName(T[p][n][kind], c)
    <3>1. CASE ~RefersTo(NamedFinding(U, P, kind, n, c), X)
      <4>1. \A p \in Having(U, P, n) : \A fk \in ByName(U[p][n][kind], c) : Fold[fk.rtable] \notin X
        BY <1>6, <3>1
      <4> QED
        BY <1>3, <1>10, <4>1
    <3>2. CASE ~RefersTo(NamedFinding(T, P, kind, n, c), X)
      <4>1. \A p \in Having(T, P, n) : \A fk \in ByName(T[p][n][kind], c) : Fold[fk.rtable] \notin X
        BY <1>6, <3>2
      <4> QED
        BY <1>3, <1>10, <4>1
    <3> QED
      BY <1>7, <3>1, <3>2
  <2> QED
    BY <1>3, <2>1 DEF ValuesOf
<1>8. ASSUME NEW f \in NamedMismatches(U, P, kind), ~RefersTo(f, X)
      PROVE  f \in NamedMismatches(T, P, kind)
  <2> DEFINE n == f.table
             c == f.part
  <2>1. Found(U, P, kind, n, c) /\ f = NamedFinding(U, P, kind, n, c)
    BY NamedMismatchesAre
  <2> HIDE DEF n, c
  <2>2. n \in Shared(U, P) /\ c \in PartsOf(U, P, kind, n) /\ Differ(ValuesOf(U, P, kind, n, c))
    BY <2>1 DEF Found
  <2>3. ValuesOf(U, P, kind, n, c) = ValuesOf(T, P, kind, n, c)
    BY <1>7, <1>8, <2>1, <2>2
  <2>4. Found(T, P, kind, n, c)
    BY <1>2, <1>5, <2>2, <2>3 DEF Found
  <2>5. NamedFinding(U, P, kind, n, c) = NamedFinding(T, P, kind, n, c)
    BY <2>3 DEF NamedFinding
  <2> QED
    BY <2>1, <2>4, <2>5, NamedMismatchesAre
<1>9. ASSUME NEW f \in NamedMismatches(T, P, kind), Fold[f.table.name] \notin X, ~RefersTo(f, X)
      PROVE  f \in NamedMismatches(U, P, kind)
  <2> DEFINE n == f.table
             c == f.part
  <2>1. Found(T, P, kind, n, c) /\ f = NamedFinding(T, P, kind, n, c)
    BY NamedMismatchesAre
  <2>2. Fold[n.name] \notin X
    BY <1>9
  <2> HIDE DEF n, c
  <2>3. n \in Shared(T, P) /\ c \in PartsOf(T, P, kind, n) /\ Differ(ValuesOf(T, P, kind, n, c))
    BY <2>1 DEF Found
  <2>4. n \in Shared(U, P)
    BY <1>2, <2>2, <2>3
  <2>5. ValuesOf(U, P, kind, n, c) = ValuesOf(T, P, kind, n, c)
    BY <1>7, <1>9, <2>1, <2>4
  <2>6. Found(U, P, kind, n, c)
    BY <1>5, <2>3, <2>4, <2>5 DEF Found
  <2>7. NamedFinding(U, P, kind, n, c) = NamedFinding(T, P, kind, n, c)
    BY <2>5 DEF NamedFinding
  <2> QED
    BY <2>1, <2>6, <2>7, NamedMismatchesAre
<1> QED
  BY <1>8, <1>9 DEF kind
-----------------------------------------------------------------------------------
(* Filtering hides: the findings of snapshots a filter left, and those of   *)
(* all of them.                                                             *)
OnlyHides(found, everything, x) ==
  LET shown(fs) == {f \in fs : Fold[f.table.name] \notin x.tables}
      references(fs) == {f \in shown(fs) : ~RefersTo(f, x.tables)}
      objects(fs, names) == {f \in fs : Fold[f.object.name] \notin names}
  IN /\ found.missingTables = objects(everything.missingTables, x.tables)
     /\ found.missingColumns = shown(everything.missingColumns)
     /\ found.columns = shown(everything.columns)
     /\ found.primary = shown(everything.primary)
     /\ references(found.foreign) = references(everything.foreign)
     /\ found.indexes = shown(everything.indexes)
     /\ found.missingRoutines = objects(everything.missingRoutines, x.routines)
     /\ found.routines = objects(everything.routines, x.routines)

LEMMA ComparingFiltered ==
  ASSUME NEW snaps, Snaps(snaps), Referring(snaps), NEW less, Snaps(less), NEW x,
         Filters(less, snaps, x), NEW order, IsOrder(order, snaps)
  PROVE  OnlyHides(CompareSnapshots(order, less), CompareSnapshots(order, snaps), x)
<1> DEFINE U == CanonicalTables(order, less)
           T == CanonicalTables(order, snaps)
           V == CanonicalRoutines(less)
           R == CanonicalRoutines(snaps)
           P == {p \in DOMAIN snaps : snaps[p].keyed}
           found == CompareSnapshots(order, less)
           everything == CompareSnapshots(order, snaps)
           X == x.tables
           Y == x.routines
<1>1. DOMAIN less = DOMAIN snaps
  BY DEF Filters, SameDefaults
<1>2. {p \in DOMAIN less : less[p].keyed} = P
  BY <1>1 DEF Filters
<1>3. DOMAIN T = DOMAIN snaps
  BY TablesAre
<1>4. HidesTables(U, T, X) /\ HidesNames(U, T, X)
  BY TablesHidden DEF HidesTables
<1>5. HidesRoutines(V, R, Y) /\ HidesNames(V, R, Y)
  BY RoutinesHidden DEF HidesRoutines
<1>6. P \subseteq DOMAIN T
  BY <1>3
<1> HIDE DEF U, T, V, R, P, X, Y
<1>7. /\ found.missingTables = MissingObjects(U)
      /\ found.missingColumns = MissingColumns(U)
      /\ found.columns = ColumnMismatches(U)
      /\ found.primary = PrimaryKeyMismatches(U, P)
      /\ found.foreign = NamedMismatches(U, P, "foreign")
      /\ found.indexes = NamedMismatches(U, P, "indexes")
      /\ found.missingRoutines = IF OneProvider(DOMAIN snaps) THEN MissingObjects(V) ELSE {}
      /\ found.routines = IF OneProvider(DOMAIN snaps) THEN Mismatches(V, DOMAIN V) ELSE {}
  BY <1>1, <1>2 DEF CompareSnapshots, U, V
<1>8. /\ everything.missingTables = MissingObjects(T)
      /\ everything.missingColumns = MissingColumns(T)
      /\ everything.columns = ColumnMismatches(T)
      /\ everything.primary = PrimaryKeyMismatches(T, P)
      /\ everything.foreign = NamedMismatches(T, P, "foreign")
      /\ everything.indexes = NamedMismatches(T, P, "indexes")
      /\ everything.missingRoutines = IF OneProvider(DOMAIN snaps) THEN MissingObjects(R) ELSE {}
      /\ everything.routines = IF OneProvider(DOMAIN snaps) THEN Mismatches(R, DOMAIN R) ELSE {}
  BY DEF CompareSnapshots, T, R, P
<1> HIDE DEF found, everything
<1>9. found.missingTables = {f \in everything.missingTables : Fold[f.object.name] \notin X}
  BY <1>4, <1>7, <1>8, MissingShown
<1>10. found.missingColumns = {f \in everything.missingColumns : Fold[f.table.name] \notin X}
  BY <1>4, <1>7, <1>8, MissingColumnsShown
<1>11. found.columns = {f \in everything.columns : Fold[f.table.name] \notin X}
  BY <1>4, <1>7, <1>8, MissingColumnsShown
<1>12. found.primary = {f \in everything.primary : Fold[f.table.name] \notin X}
  BY <1>4, <1>6, <1>7, <1>8, PrimaryShown
<1>13. found.indexes = {f \in everything.indexes : Fold[f.table.name] \notin X}
  BY <1>4, <1>6, <1>7, <1>8, IndexesShown
<1>14. {f \in found.foreign : Fold[f.table.name] \notin X /\ ~RefersTo(f, X)} =
       {f \in everything.foreign : Fold[f.table.name] \notin X /\ ~RefersTo(f, X)}
  BY <1>4, <1>6, <1>7, <1>8, ForeignShown
<1>15. found.missingRoutines = {f \in everything.missingRoutines : Fold[f.object.name] \notin Y}
  BY <1>5, <1>7, <1>8, MissingShown
<1>16. found.routines = {f \in everything.routines : Fold[f.object.name] \notin Y}
  BY <1>5, <1>7, <1>8, MismatchesShown
<1>17. {f \in {g \in found.foreign : Fold[g.table.name] \notin X} : ~RefersTo(f, X)} =
       {f \in {g \in everything.foreign : Fold[g.table.name] \notin X} : ~RefersTo(f, X)}
  BY <1>14
<1> QED
  BY <1>9, <1>10, <1>11, <1>12, <1>13, <1>15, <1>16, <1>17 DEF OnlyHides, found, everything, X, Y

AllSnapshots == [p \in Range(chosen) |-> Snapshot(p, read[p])]

(* The rows read have names; what is found was computed from them.          *)
RowsNamed ==
  \A p \in Range(chosen) : /\ DOMAIN read[p] = DOMAIN NoRows
                           /\ Named(read[p].tables) /\ Named(read[p].routines)
Computed == outcome = "done" => findings = CompareSnapshots(chosen, Snapshots)

LEMMA SnapshotsAreSnaps ==
  ASSUME TypeOK, RowsNamed
  PROVE  /\ Snaps(AllSnapshots) /\ Referring(AllSnapshots) /\ Snaps(Snapshots)
         /\ Filters(Snapshots, AllSnapshots, excluded)
         /\ IsOrder(chosen, AllSnapshots)
<1>1. chosen \in Seq(Profiles) /\ DOMAIN AllSnapshots = Range(chosen) /\ DOMAIN Snapshots = Range(chosen)
  BY SelectionsAreSequences DEF TypeOK, AllSnapshots, Snapshots
<1>2. Range(chosen) \subseteq Profiles /\ chosen \in Seq(Range(chosen))
  <2>1. chosen \in Seq(Profiles) /\ DOMAIN chosen = 1 .. Len(chosen) /\ Len(chosen) \in Nat
    BY SelectionsAreSequences DEF TypeOK
  <2>2. \A i \in 1 .. Len(chosen) : chosen[i] \in Profiles /\ chosen[i] \in Range(chosen)
    BY <2>1 DEF Range
  <2> QED
    BY <2>1, <2>2 DEF Range
<1>3. ASSUME NEW p \in Range(chosen)
      PROVE  LET s == AllSnapshots[p] f == Snapshots[p]
             IN /\ f.default = s.default /\ f.keyed = s.keyed
                /\ f.tables = Shown(s.tables, excluded.tables)
                /\ f.routines = Shown(s.routines, excluded.routines)
  BY DEF AllSnapshots, Snapshots, Filtered, Shown, Snapshot
<1>4. ASSUME NEW p \in Range(chosen)
      PROVE  /\ Named(AllSnapshots[p].tables) /\ Named(AllSnapshots[p].routines)
             /\ \A t \in AllSnapshots[p].tables : \A fk \in t.foreign : IsForeignKey(fk)
  <2>1. AllSnapshots[p] = Snapshot(p, read[p])
    BY DEF AllSnapshots
  <2>2. Named(AllSnapshots[p].routines)
    BY <2>1 DEF RowsNamed, Snapshot
  <2>3. \A t \in AllSnapshots[p].tables : \E row \in read[p].tables :
          /\ t.schema = row.schema /\ t.name = row.name
          /\ t.foreign = ForeignKeysOf(read[p].foreign, row)
    BY <2>1 DEF Snapshot
  <2>4. \A row : \A fk \in ForeignKeysOf(read[p].foreign, row) : IsForeignKey(fk)
    BY DEF ForeignKeysOf, IsForeignKey
  <2> QED
    BY <2>2, <2>3, <2>4 DEF RowsNamed, Named
<1>5. SameDefaults(Snapshots, AllSnapshots)
  BY <1>1, <1>3 DEF SameDefaults
<1>6. Filters(Snapshots, AllSnapshots, excluded)
  BY <1>1, <1>3, <1>5 DEF Filters
<1>7. Snaps(AllSnapshots) /\ Referring(AllSnapshots)
  BY <1>1, <1>2, <1>4 DEF Snaps, Referring
<1>8. Snaps(Snapshots)
  BY <1>1, <1>2, <1>3, <1>4 DEF Snaps, Named, Shown
<1>9. IsOrder(chosen, AllSnapshots)
  BY <1>1, <1>2 DEF IsOrder
<1> QED
  BY <1>6, <1>7, <1>8, <1>9

(* The rows read so far, catalog by catalog, keep the rules of the engine.  *)
RowsRuled ==
  \A p \in Range(chosen) :
    /\ TableRules(read[p].tables) /\ IsFiniteSet(read[p].routines)
    /\ PrimaryRules(read[p].primary) /\ ForeignRules(read[p].foreign) /\ IndexRules(read[p].indexes)

(* The inductive invariant both theorems below rest on.                     *)
RowsInv == RowsNamed /\ RowsRuled /\ Computed

(* A database not read yet keeps the rules.                                 *)
LEMMA NoRowsRuled ==
  /\ TableRules(NoRows.tables) /\ IsFiniteSet(NoRows.routines)
  /\ PrimaryRules(NoRows.primary) /\ ForeignRules(NoRows.foreign) /\ IndexRules(NoRows.indexes)
<1>1. /\ NoRows.tables = {} /\ NoRows.routines = {}
      /\ NoRows.primary = <<>> /\ NoRows.foreign = <<>> /\ NoRows.indexes = <<>>
  BY DEF NoRows
<1>2. IsFiniteSet({})
  BY FS_EmptySet
<1>3. <<>> \in Seq(Range(<<>>)) /\ DOMAIN <<>> = {}
  OBVIOUS
<1> QED
  BY <1>1, <1>2, <1>3 DEF TableRules, PrimaryRules, ForeignRules, IndexRules, NameRules

(* A query reads one part of one database as it is at that moment, and      *)
(* leaves the rest of what was read.                                        *)
LEMMA ReadPart ==
  ASSUME TypeOK, RowsNamed, Read
  PROVE  \E p \in Range(chosen) : \E part \in DOMAIN NoRows :
           /\ p \in Profiles /\ databases[p] \in Catalogs[p]
           /\ \A q \in Range(chosen) : q # p => read'[q] = read[q]
           /\ DOMAIN read'[p] = DOMAIN NoRows
           /\ \A x \in DOMAIN NoRows :
                read'[p][x] = IF part = x THEN databases[p][x] ELSE read[p][x]
<1> DEFINE p == chosen[at.profile]
           part == Queries[at.query]
<1>1. p \in Range(chosen) /\ p \in Profiles /\ part \in DOMAIN NoRows
  <2>1. at.profile \in 1 .. Len(chosen) /\ DOMAIN chosen = 1 .. Len(chosen) /\ chosen \in Seq(Profiles)
    BY SelectionsAreSequences DEF Read, Extracting, TypeOK
  <2>2. p \in Range(chosen) /\ p \in Profiles
    BY <2>1 DEF Range
  <2>3. at.query \in 1 .. QueriesOf(p)
    BY <2>1, SelectionsAreSequences DEF Read, Extracting, TypeOK
  <2>4. at.query \in 1 .. 5
    BY <2>3 DEF QueriesOf, Queries
  <2> QED
    BY <2>2, <2>4 DEF Queries, NoRows
<1>2. databases[p] \in Catalogs[p]
  BY <1>1 DEF TypeOK
<1>3. read' = [read EXCEPT ![p] = [read[p] EXCEPT ![part] = databases[p][part]]]
  BY DEF Read
<1>4. DOMAIN read = Range(chosen) /\ DOMAIN read[p] = DOMAIN NoRows
  BY <1>1 DEF TypeOK, RowsNamed
<1> HIDE DEF p, part
<1>5. \A q \in Range(chosen) : q # p => read'[q] = read[q]
  BY <1>3, <1>4
<1>6. read'[p] = [read[p] EXCEPT ![part] = databases[p][part]]
  BY <1>1, <1>3, <1>4
<1>7. /\ DOMAIN read'[p] = DOMAIN NoRows
      /\ \A x \in DOMAIN NoRows : read'[p][x] = IF part = x THEN databases[p][x] ELSE read[p][x]
  BY <1>4, <1>6
<1> QED
  BY <1>1, <1>2, <1>5, <1>7

(* What has been read keeps the rules of the engines, whatever other        *)
(* sessions change between two queries, and what is found was computed from *)
(* it.                                                                      *)
THEOREM RowsAreRead == Spec => [](TypeOK /\ RowsInv)
<1>1. Init => RowsInv
  <2> SUFFICES ASSUME Init PROVE RowsInv
    OBVIOUS
  <2>1. read = [p \in Range(chosen) |-> NoRows] /\ outcome = "running"
    BY DEF Init
  <2>2. RowsNamed /\ Computed
    <3>1. NoRows.tables = {} /\ NoRows.routines = {}
      BY DEF NoRows
    <3> QED
      BY <2>1, <3>1 DEF RowsNamed, Computed, Named
  <2>3. RowsRuled
    BY <2>1, NoRowsRuled DEF RowsRuled
  <2> QED
    BY <2>2, <2>3 DEF RowsInv
<1>2. TypeOK /\ RowsInv /\ [Next]_vars => RowsInv'
  <2> SUFFICES ASSUME TypeOK, RowsNamed, RowsRuled, Computed, [Next]_vars PROVE RowsInv'
    BY DEF RowsInv
  <2>1. CASE Refuse
    BY <2>1 DEF Refuse, RowsInv, RowsNamed, RowsRuled, Computed
  <2>2. CASE Read
    <3>1. outcome' = outcome /\ outcome = "running" /\ chosen' = chosen
      BY <2>2 DEF Read, Extracting
    <3>2. Computed'
      BY <3>1 DEF Computed
    <3>3. PICK p \in Range(chosen) : \E part \in DOMAIN NoRows :
            /\ p \in Profiles /\ databases[p] \in Catalogs[p]
            /\ \A q \in Range(chosen) : q # p => read'[q] = read[q]
            /\ DOMAIN read'[p] = DOMAIN NoRows
            /\ \A x \in DOMAIN NoRows : read'[p][x] = IF part = x THEN databases[p][x] ELSE read[p][x]
      BY <2>2, ReadPart
    <3>4. PICK part \in DOMAIN NoRows :
            \A x \in DOMAIN NoRows : read'[p][x] = IF part = x THEN databases[p][x] ELSE read[p][x]
      BY <3>3
    <3>5. \A x \in {"tables", "primary", "foreign", "indexes", "routines"} :
            read'[p][x] = databases[p][x] \/ read'[p][x] = read[p][x]
      BY <3>4 DEF NoRows
    <3>6. /\ Named(databases[p].tables) /\ Named(databases[p].routines)
          /\ TableRules(databases[p].tables) /\ IsFiniteSet(databases[p].routines)
          /\ PrimaryRules(databases[p].primary) /\ ForeignRules(databases[p].foreign)
          /\ IndexRules(databases[p].indexes)
      BY <3>3, CatalogsAssumption, CatalogRules DEF Named
    <3>7. /\ Named(read'[p].tables) /\ Named(read'[p].routines)
          /\ TableRules(read'[p].tables) /\ IsFiniteSet(read'[p].routines)
      BY <3>5, <3>6 DEF RowsNamed, RowsRuled
    <3>8. /\ PrimaryRules(read'[p].primary) /\ ForeignRules(read'[p].foreign)
          /\ IndexRules(read'[p].indexes)
      BY <3>5, <3>6 DEF RowsRuled
    <3>9. RowsNamed'
      BY <3>1, <3>3, <3>7 DEF RowsNamed
    <3>10. RowsRuled'
      BY <3>1, <3>3, <3>7, <3>8 DEF RowsRuled
    <3> QED
      BY <3>2, <3>9, <3>10 DEF RowsInv
  <2>3. CASE ReadFails
    BY <2>3 DEF ReadFails, RowsInv, RowsNamed, RowsRuled, Computed
  <2>4. CASE Compare
    <3>1. Snapshots' = Snapshots
      BY <2>4 DEF Compare, Snapshots
    <3> QED
      BY <2>4, <3>1 DEF Compare, RowsInv, RowsNamed, RowsRuled, Computed
  <2>5. CASE Alter
    BY <2>5 DEF Alter, Extracting, RowsInv, RowsNamed, RowsRuled, Computed
  <2>6. CASE UNCHANGED vars
    <3>1. Snapshots' = Snapshots
      BY <2>6 DEF vars, Snapshots
    <3> QED
      BY <2>6, <3>1 DEF vars, RowsInv, RowsNamed, RowsRuled, Computed
  <2> QED
    BY <2>1, <2>2, <2>3, <2>4, <2>5, <2>6 DEF Next
<1> QED
  BY <1>1, <1>2, CompareTypeCorrect, PTL DEF Spec

(* Whatever the databases, engines and spellings, an exclusion hides what   *)
(* is found about the objects it names and changes nothing else, although   *)
(* it removes them before names are matched: ComparisonFilters.apply()      *)
(* takes all objects of a key or none, so no other object's key, spelling   *)
(* or match can depend on one that was excluded.                            *)
THEOREM ExclusionsOnlyHide == Spec => []FilterOnlyHides
<1>1. TypeOK /\ RowsInv => FilterOnlyHides
  <2> SUFFICES ASSUME TypeOK, RowsNamed, Computed, outcome = "done" PROVE FilterOnlyHides
    BY DEF FilterOnlyHides, RowsInv
  <2>1. findings = CompareSnapshots(chosen, Snapshots)
    BY DEF Computed
  <2>2. OnlyHides(findings, CompareSnapshots(chosen, AllSnapshots), excluded)
    BY <2>1, SnapshotsAreSnaps, ComparingFiltered
  <2> QED
    BY <2>2, Zenon DEF FilterOnlyHides, OnlyHides, AllSnapshots, Hidden, RefersTo, RefersToExcluded
<1> QED
  BY <1>1, RowsAreRead, PTL
-----------------------------------------------------------------------------------
(* Matching by pairs and matching by key: where nothing is unclear, the keys*)
(* of canonicalize() tell the objects apart just as the reference does.     *)

Kinds == {"tables", "routines"}
ItemsOf(S, kind) == [p \in DOMAIN S |-> S[p][kind]]
Countable(S) ==
  /\ Snaps(S) /\ IsFiniteSet(DOMAIN S)
  /\ \A p \in DOMAIN S : IsFiniteSet(S[p].tables) /\ IsFiniteSet(S[p].routines)

(* The key an object of that name has, or would have.                       *)
KeyFor(S, kind, p, a) ==
  IF Collide(S, ItemsOf(S, kind), LooseKey(S[p], a)) THEN ExactKey(S[p], a) ELSE LooseKey(S[p], a)
HasName(a) == a.schema \in Names /\ a.name \in Names

(* A name written in lower case is a name.                                  *)
LEMMA FoldedNames ==
  ASSUME NEW n \in Names
  PROVE  Fold[n] \in Names /\ Fold[n] # ""
  BY CompareAssumption, Zenon

(* _schemas_match() and the schema part of the loose key agree: two objects *)
(* are alike by pairs exactly when canonicalize() gives them one loose key. *)
LEMMA AlikeKeys ==
  ASSUME NEW S, NEW p, NEW q, NEW a, NEW b, HasName(a), HasName(b)
  PROVE  Alike(S, p, a, q, b) <=> LooseKey(S[p], a) = LooseKey(S[q], b)
  <1>0. a.schema \in Names /\ b.schema \in Names
    BY DEF HasName
  <1>1. SameSchema(S, p, a.schema, q, b.schema) <=>
          SchemaKey(S[p], a.schema) = SchemaKey(S[q], b.schema)
    <2> DEFINE s == a.schema
               t == b.schema
    <2>1. s \in Names /\ t \in Names
      BY <1>0
    <2> HIDE DEF s, t
    <2>2. SameSchema(S, p, s, q, t) <=> SchemaKey(S[p], s) = SchemaKey(S[q], t)
      BY <2>1, FoldedNames DEF SameSchema, SchemaKey
    <2> QED
      BY <2>2 DEF s, t
  <1>2. QED  BY <1>1 DEF Alike, LooseKey

(* A finite set has more than one element when two of its elements differ.  *)
LEMMA MoreThanOne ==
  ASSUME NEW T, IsFiniteSet(T)
  PROVE  Cardinality(T) > 1 <=> \E b, c \in T : b # c
  <1>1. Cardinality(T) \in Nat
    BY FS_CardinalityType
  <1>2. ASSUME NEW b \in T, NEW c \in T, b # c  PROVE Cardinality(T) > 1
    <2>1. Cardinality(T \ {b}) = Cardinality(T) - 1 /\ IsFiniteSet(T \ {b})
      BY <1>2, FS_RemoveElement
    <2>2. Cardinality(T \ {b}) # 0 /\ Cardinality(T \ {b}) \in Nat
      BY <1>2, <2>1, FS_EmptySet, FS_CardinalityType
    <2>3. QED  BY <1>1, <2>1, <2>2
  <1>3. ASSUME ~(\E b, c \in T : b # c)  PROVE ~(Cardinality(T) > 1)
    <2>1. CASE T = {}
      BY <2>1, FS_EmptySet
    <2>2. CASE T # {}
      <3>1. PICK b \in T : TRUE
        BY <2>2
      <3>2. T = {b}
        BY <1>3, <3>1
      <3>3. QED  BY <3>2, FS_Singleton
    <2>3. QED  BY <2>1, <2>2
  <1>4. QED  BY <1>2, <1>3

(* The objects of a snapshot, of either kind, are finitely many and have    *)
(* names.                                                                   *)
LEMMA KindOf ==
  ASSUME NEW S, Countable(S), NEW kind \in Kinds, NEW p \in DOMAIN S
  PROVE  /\ p \in Profiles /\ IsFiniteSet(S[p][kind])
         /\ \A a \in S[p][kind] : HasName(a)
         /\ DOMAIN ItemsOf(S, kind) = DOMAIN S /\ ItemsOf(S, kind)[p] = S[p][kind]
  BY DEF Countable, Snaps, Kinds, Named, HasName, ItemsOf

(* _keys() falls back to the exact key just where the names of a profile are*)
(* ambiguous by pairs.                                                      *)
LEMMA CollideAmbiguous ==
  ASSUME NEW S, Countable(S), NEW kind \in Kinds, NEW p, NEW a, HasName(a)
  PROVE  Collide(S, ItemsOf(S, kind), LooseKey(S[p], a)) <=> Ambiguous(S, kind, p, a)
  <1> DEFINE like(q) == {o \in S[q][kind] : LooseKey(S[q], o) = LooseKey(S[p], a)}
  <1>1. ASSUME NEW q \in DOMAIN S
        PROVE  Cardinality(like(q)) > 1 <=>
                 \E b, c \in S[q][kind] : b # c /\ Alike(S, p, a, q, b) /\ Alike(S, p, a, q, c)
    <2>1. IsFiniteSet(like(q))
      BY KindOf, FS_Subset
    <2>2. \A b \in S[q][kind] : b \in like(q) <=> Alike(S, p, a, q, b)
      BY KindOf, AlikeKeys
    <2>3. Cardinality(like(q)) > 1 <=> \E b, c \in like(q) : b # c
      BY <2>1, MoreThanOne
    <2>4. QED  BY <2>2, <2>3
  <1>2. Collide(S, ItemsOf(S, kind), LooseKey(S[p], a)) <=> \E q \in DOMAIN S : Cardinality(like(q)) > 1
    BY DEF Collide, ItemsOf
  <1>3. QED  BY <1>1, <1>2 DEF Ambiguous

(* Two objects are the same, by pairs, exactly when _keys() gives them one  *)
(* key.                                                                     *)
LEMMA SameIsSameKey ==
  ASSUME NEW S, Countable(S), NEW kind \in Kinds, NEW p, NEW q, NEW a, NEW b, HasName(a), HasName(b)
  PROVE  Same(S, kind, p, a, q, b) <=> KeyFor(S, kind, p, a) = KeyFor(S, kind, q, b)
  <1>1. Alike(S, p, a, q, b) <=> LooseKey(S[p], a) = LooseKey(S[q], b)
    BY AlikeKeys
  <1>2. Collide(S, ItemsOf(S, kind), LooseKey(S[p], a)) <=> Ambiguous(S, kind, p, a)
    BY CollideAmbiguous
  <1>3. ExactKey(S[p], a) = ExactKey(S[q], b) <=>
          LooseKey(S[p], a) = LooseKey(S[q], b) /\ a.name = b.name
    BY DEF ExactKey, LooseKey
  <1>4. ExactKey(S[p], a) # LooseKey(S[q], b) /\ LooseKey(S[p], a) # ExactKey(S[q], b)
    BY DEF ExactKey, LooseKey
  <1> DEFINE clash(k) == Collide(S, ItemsOf(S, kind), k)
  <1>5. KeyFor(S, kind, p, a) = IF clash(LooseKey(S[p], a)) THEN ExactKey(S[p], a) ELSE LooseKey(S[p], a)
    BY DEF KeyFor
  <1>6. KeyFor(S, kind, q, b) = IF clash(LooseKey(S[q], b)) THEN ExactKey(S[q], b) ELSE LooseKey(S[q], b)
    BY DEF KeyFor
  <1>7. Same(S, kind, p, a, q, b) <=>
          Alike(S, p, a, q, b) /\ (clash(LooseKey(S[p], a)) => a.name = b.name)
    BY <1>2 DEF Same
  <1> HIDE DEF clash
  <1>8. QED  BY <1>1, <1>3, <1>4, <1>5, <1>6, <1>7

KeysOf(S, kind) == ObjectKeys(S, ItemsOf(S, kind))
OneEach(K) == \A p \in DOMAIN K : \A a, b \in DOMAIN K[p] : K[p][a] = K[p][b] => a = b
NamesApart(K) ==
  \A k, l \in AllKeys(K) : CanonicalObjects(K)[k] = CanonicalObjects(K)[l] => k = l

(* The key _keys() gives an object is the one its name has in its profile.  *)
LEMMA KeysOfItems ==
  ASSUME NEW S, Countable(S), NEW kind \in Kinds
  PROVE  /\ DOMAIN KeysOf(S, kind) = DOMAIN S
         /\ \A p \in DOMAIN S : /\ DOMAIN KeysOf(S, kind)[p] = S[p][kind]
                               /\ \A a \in S[p][kind] : KeysOf(S, kind)[p][a] = KeyFor(S, kind, p, a)
<1> DEFINE items == ItemsOf(S, kind)
<1>1. DOMAIN items = DOMAIN S /\ \A p \in DOMAIN S : items[p] = S[p][kind]
  BY DEF ItemsOf
<1>2. DOMAIN KeysOf(S, kind) = DOMAIN S
  BY <1>1 DEF KeysOf, ObjectKeys, Keys
<1>3. ASSUME NEW p \in DOMAIN S
      PROVE  DOMAIN KeysOf(S, kind)[p] = S[p][kind]
  BY <1>1 DEF KeysOf, ObjectKeys, Keys
<1>4. ASSUME NEW p \in DOMAIN S, NEW a \in S[p][kind]
      PROVE  KeysOf(S, kind)[p][a] = KeyFor(S, kind, p, a)
  <2>1. p \in DOMAIN items /\ a \in items[p]
    BY <1>1
  <2> HIDE DEF items
  <2>2. ObjectKeys(S, items)[p][a] =
          IF Collide(S, items, LooseKey(S[p], a)) THEN ExactKey(S[p], a) ELSE LooseKey(S[p], a)
    BY <2>1, KeyOfObject
  <2> QED
    BY <2>2 DEF KeysOf, KeyFor, items
<1> QED
  BY <1>2, <1>3, <1>4

(* The objects of the snapshots are pairs of a profile and one of its items.*)
LEMMA ObjectsAre ==
  ASSUME NEW S, NEW kind
  PROVE  /\ \A o \in Objects(S, kind) :
              o[1] \in DOMAIN S /\ o[2] \in S[o[1]][kind] /\ o = <<o[1], o[2]>>
         /\ \A p \in DOMAIN S : \A a \in S[p][kind] : <<p, a>> \in Objects(S, kind)
  BY DEF Objects

(* The snapshots have finitely many objects.                                *)
LEMMA ObjectsFinite ==
  ASSUME NEW S, Countable(S), NEW kind \in Kinds
  PROVE  IsFiniteSet(Objects(S, kind))
<1> DEFINE of == [p \in DOMAIN S |-> {p} \X S[p][kind]]
           all == {of[p] : p \in DOMAIN S}
<1>1. IsFiniteSet(DOMAIN S)
  BY DEF Countable
<1>2. of \in Surjection(DOMAIN S, all)
  BY DEF Surjection
<1>3. IsFiniteSet(all)
  BY <1>1, <1>2, FS_Surjection, Zenon
<1>4. ASSUME NEW p \in DOMAIN S PROVE IsFiniteSet(of[p])
  BY KindOf, FS_Product, FS_Singleton
<1>5. Objects(S, kind) = UNION all
  BY DEF Objects
<1> HIDE DEF of
<1> QED
  BY <1>3, <1>4, <1>5, FS_UNION

(* The objects like a given one are those of its key, and their owners the  *)
(* holders of that key.                                                     *)
LEMMA LikesAreOfKey ==
  ASSUME NEW S, Countable(S), NEW kind \in Kinds, NEW p, NEW a, HasName(a)
  PROVE  /\ \A o : o \in Likes(S, kind, p, a) <=>
                   /\ o \in Objects(S, kind)
                   /\ KeysOf(S, kind)[o[1]][o[2]] = KeyFor(S, kind, p, a)
         /\ Owners(Likes(S, kind, p, a)) = Holders(KeysOf(S, kind), KeyFor(S, kind, p, a))
<1> DEFINE K == KeysOf(S, kind)
           k == KeyFor(S, kind, p, a)
           L == Likes(S, kind, p, a)
<1>1. ASSUME NEW o \in Objects(S, kind)
      PROVE  Same(S, kind, p, a, o[1], o[2]) <=> K[o[1]][o[2]] = k
  <2>1. o[1] \in DOMAIN S /\ o[2] \in S[o[1]][kind]
    BY ObjectsAre
  <2>2. HasName(o[2]) /\ K[o[1]][o[2]] = KeyFor(S, kind, o[1], o[2])
    BY <2>1, KindOf, KeysOfItems
  <2>3. Same(S, kind, p, a, o[1], o[2]) <=> k = KeyFor(S, kind, o[1], o[2])
    BY <2>2, SameIsSameKey
  <2> HIDE DEF K, k
  <2> QED
    BY <2>2, <2>3
<1> HIDE DEF K, k
<1>2. \A o : o \in L <=> o \in Objects(S, kind) /\ K[o[1]][o[2]] = k
  BY <1>1 DEF Likes
<1> HIDE DEF L
<1>3. DOMAIN K = DOMAIN S /\ \A q \in DOMAIN S : DOMAIN K[q] = S[q][kind]
  BY KeysOfItems DEF K
<1>4. ASSUME NEW q \in Owners(L) PROVE q \in Holders(K, k)
  <2>1. PICK o \in L : q = o[1]
    BY DEF Owners
  <2>2. q \in DOMAIN S /\ o[2] \in S[q][kind] /\ K[q][o[2]] = k
    BY <1>2, <2>1, ObjectsAre
  <2> QED
    BY <1>3, <2>2 DEF Holders, Range
<1>5. ASSUME NEW q \in Holders(K, k) PROVE q \in Owners(L)
  <2>1. q \in DOMAIN S /\ \E b \in S[q][kind] : K[q][b] = k
    BY <1>3 DEF Holders, Range
  <2>2. PICK b \in S[q][kind] : K[q][b] = k
    BY <2>1
  <2>3. <<q, b>> \in L
    BY <1>2, <2>1, <2>2, ObjectsAre
  <2> QED
    BY <2>3 DEF Owners
<1> QED
  BY <1>2, <1>4, <1>5 DEF K, k, L

(* Where nothing is unclear no profile has two objects of one key.          *)
LEMMA ClearIsOneEach ==
  ASSUME NEW S, Countable(S), NEW kind \in Kinds, Clear(S, kind)
  PROVE  OneEach(KeysOf(S, kind))
<1> DEFINE K == KeysOf(S, kind)
<1>1. DOMAIN K = DOMAIN S /\ \A q \in DOMAIN S : DOMAIN K[q] = S[q][kind]
  BY KeysOfItems
<1>2. SUFFICES ASSUME NEW p \in DOMAIN S, NEW a \in S[p][kind], NEW b \in S[p][kind], K[p][a] = K[p][b]
               PROVE  a = b
  BY <1>1 DEF OneEach
<1> DEFINE L == Likes(S, kind, p, a)
           first == [o \in L |-> o[1]]
<1>3. HasName(a) /\ K[p][a] = KeyFor(S, kind, p, a)
  BY KindOf, KeysOfItems
<1>4. <<p, a>> \in Objects(S, kind) /\ <<p, b>> \in Objects(S, kind)
  BY ObjectsAre
<1> HIDE DEF K
<1>5. <<p, a>> \in L /\ <<p, b>> \in L
  BY <1>2, <1>3, <1>4, LikesAreOfKey DEF K
<1>6. L \subseteq Objects(S, kind)
  BY DEF Likes
<1>7. IsFiniteSet(L)
  BY <1>6, ObjectsFinite, FS_Subset
<1>8. Cardinality(L) = Cardinality(Owners(L))
  <2>1. Cardinality(Likes(S, kind, <<p, a>>[1], <<p, a>>[2])) =
          Cardinality(Owners(Likes(S, kind, <<p, a>>[1], <<p, a>>[2])))
    BY <1>4 DEF Clear
  <2> QED
    BY <2>1
<1> HIDE DEF L
<1>9. first \in Surjection(L, Owners(L))
  BY DEF Surjection, Owners
<1>10. first \in Injection(L, Owners(L))
  BY <1>7, <1>8, <1>9, FS_Surjection, Zenon
<1>11. first[<<p, a>>] = first[<<p, b>>]
  BY <1>5
<1>12. <<p, a>> = <<p, b>>
  BY <1>5, <1>10, <1>11 DEF Injection, IsInjective
<1> QED
  BY <1>12

(* Of one object to a key, the object at the key of an object is that       *)
(* object.                                                                  *)
LEMMA OneItemAtKey ==
  ASSUME NEW K, OneEach(K), NEW p \in DOMAIN K, NEW a \in DOMAIN K[p]
  PROVE  ItemsAt(K, K[p][a], p) = {a}
  BY DEF OneEach, ItemsAt

(* The first, and the last, of one object is that object.                   *)
LEMMA FirstOfOne ==
  ASSUME NEW a, HasName(a)
  PROVE  First({a}) = a /\ Last({a}) = a
<1>1. Named({a}) /\ {a} # {}
  BY DEF Named, HasName
<1> QED
  BY <1>1, FirstIsOne, LastIsOne

(* Objects are spelled as their key is.                                     *)
LEMMA SpelledAsKey ==
  ASSUME NEW S, Countable(S), NEW kind \in Kinds, OneEach(KeysOf(S, kind)),
         NEW p \in DOMAIN S, NEW a \in S[p][kind]
  PROVE  CanonicalObjects(KeysOf(S, kind))[KeysOf(S, kind)[p][a]] = SpelledAs(S, kind, p, a)
<1> DEFINE K == KeysOf(S, kind)
           k == K[p][a]
           L == Likes(S, kind, p, a)
           h == Alphabetical(Holders(K, k))
<1>1. DOMAIN K = DOMAIN S /\ \A q \in DOMAIN S : DOMAIN K[q] = S[q][kind]
  BY KeysOfItems
<1>2. HasName(a) /\ k = KeyFor(S, kind, p, a)
  BY KindOf, KeysOfItems
<1>3. Owners(L) = Holders(K, k)
  BY <1>2, LikesAreOfKey
<1>4. \A o : o \in L <=> o \in Objects(S, kind) /\ K[o[1]][o[2]] = k
  BY <1>2, LikesAreOfKey
<1>5. k \in AllKeys(K)
  BY <1>1, KeyOfItem
<1>6. DOMAIN K \subseteq Profiles
  BY <1>1 DEF Countable, Snaps
<1> HIDE DEF K, k, L
<1>7. h \in Holders(K, k)
  BY <1>5, <1>6, SpellerHolds
<1>8. PICK b \in DOMAIN K[h] : K[h][b] = k
  BY <1>7 DEF Holders, Range
<1>9. h \in DOMAIN S /\ b \in S[h][kind]
  BY <1>1, <1>7, <1>8 DEF Holders
<1>10. ItemsAt(K, k, h) = {b}
  BY <1>1, <1>8, <1>9, OneItemAtKey DEF K
<1>11. First({b}) = b
  BY <1>9, KindOf, FirstOfOne
<1>12. CanonicalObjects(K)[k] = QualifiedName(b)
  BY <1>5, <1>10, <1>11 DEF CanonicalObjects
<1>13. \A o \in L : o[1] = h => o = <<h, b>>
  <2> SUFFICES ASSUME NEW o \in L, o[1] = h PROVE o = <<h, b>>
    OBVIOUS
  <2>1. o \in Objects(S, kind) /\ K[h][o[2]] = k
    BY <1>4
  <2>2. o[2] \in S[h][kind] /\ o = <<h, o[2]>>
    BY <2>1, ObjectsAre
  <2>3. o[2] \in ItemsAt(K, k, h)
    BY <1>1, <1>9, <2>1, <2>2 DEF ItemsAt
  <2> QED
    BY <1>10, <2>2, <2>3
<1>14. <<h, b>> \in L
  BY <1>4, <1>8, <1>9, ObjectsAre
<1> DEFINE o == CHOOSE u \in L : u[1] = h
<1>15. o = <<h, b>>
  BY <1>13, <1>14
<1>16. SpelledAs(S, kind, p, a) = QualifiedName(o[2])
  BY <1>3 DEF SpelledAs, L
<1> HIDE DEF o, h
<1>17. CanonicalObjects(K)[k] = SpelledAs(S, kind, p, a)
  BY <1>12, <1>15, <1>16
<1> QED
  BY <1>17 DEF K, k

(* Where nothing is unclear two keys have two canonical names.              *)
LEMMA ClearIsNamesApart ==
  ASSUME NEW S, Countable(S), NEW kind \in Kinds, Clear(S, kind)
  PROVE  NamesApart(KeysOf(S, kind))
<1> DEFINE K == KeysOf(S, kind)
<1>1. OneEach(K)
  BY ClearIsOneEach
<1>2. DOMAIN K = DOMAIN S /\ \A q \in DOMAIN S : DOMAIN K[q] = S[q][kind]
  BY KeysOfItems
<1> SUFFICES ASSUME NEW k \in AllKeys(K), NEW l \in AllKeys(K),
                    CanonicalObjects(K)[k] = CanonicalObjects(K)[l]
             PROVE  k = l
  BY DEF NamesApart
<1>3. PICK p \in DOMAIN S : \E a \in S[p][kind] : K[p][a] = k
  BY <1>2, KeyOfItem
<1>4. PICK a \in S[p][kind] : K[p][a] = k
  BY <1>3
<1>5. PICK q \in DOMAIN S : \E b \in S[q][kind] : K[q][b] = l
  BY <1>2, KeyOfItem
<1>6. PICK b \in S[q][kind] : K[q][b] = l
  BY <1>5
<1> HIDE DEF K
<1>7. SpelledAs(S, kind, p, a) = SpelledAs(S, kind, q, b)
  <2>1. CanonicalObjects(K)[k] = SpelledAs(S, kind, p, a)
    BY <1>1, <1>4, SpelledAsKey DEF K
  <2>2. CanonicalObjects(K)[l] = SpelledAs(S, kind, q, b)
    BY <1>1, <1>6, SpelledAsKey DEF K
  <2> QED
    BY <2>1, <2>2
<1>8. Same(S, kind, p, a, q, b)
  <2>1. <<p, a>> \in Objects(S, kind) /\ <<q, b>> \in Objects(S, kind)
    BY ObjectsAre
  <2>2. SpelledAs(S, kind, <<p, a>>[1], <<p, a>>[2]) = SpelledAs(S, kind, <<q, b>>[1], <<q, b>>[2])
        => Same(S, kind, <<p, a>>[1], <<p, a>>[2], <<q, b>>[1], <<q, b>>[2])
    BY <2>1 DEF Clear
  <2> QED
    BY <1>7, <2>2
<1>9. HasName(a) /\ HasName(b)
  BY KindOf
<1>10. KeyFor(S, kind, p, a) = KeyFor(S, kind, q, b)
  BY <1>8, <1>9, SameIsSameKey
<1> QED
  BY <1>4, <1>6, <1>10, KeysOfItems DEF K
-----------------------------------------------------------------------------------
(* Snapshots rewritten by key, and the columns of the tables of one key.    *)

(* A "by profile" index that has an entry per key, under the key's name.    *)
Indexed(T, K, N) ==
  /\ DOMAIN T = DOMAIN K
  /\ \A p \in DOMAIN K : DOMAIN T[p] = {N[k] : k \in Range(K[p])}
Apart(K, N) == \A k, l \in AllKeys(K) : N[k] = N[l] => k = l

(* A key is held by a profile, and only by profiles that have an object of  *)
(* it.                                                                      *)
LEMMA HoldersHold ==
  ASSUME NEW K
  PROVE  /\ \A p \in DOMAIN K : \A k \in Range(K[p]) : k \in AllKeys(K) /\ p \in Holders(K, k)
         /\ \A k \in AllKeys(K) : Holders(K, k) \subseteq DOMAIN K /\ Holders(K, k) # {}
         /\ \A k : \A p \in Holders(K, k) : p \in DOMAIN K /\ \E a \in DOMAIN K[p] : K[p][a] = k
         /\ \A k : \A p \in DOMAIN K : p \notin Holders(K, k) => k \notin Range(K[p])
  BY DEF Holders, AllKeys, Range

(* Of snapshots rewritten by key, the profiles that have a name are the     *)
(* holders of its key.                                                      *)
LEMMA HavingKey ==
  ASSUME NEW T, NEW K, NEW N, Indexed(T, K, N), Apart(K, N),
         NEW P \in SUBSET DOMAIN K
  PROVE  /\ \A k \in AllKeys(K) : Having(T, P, N[k]) = Holders(K, k) \cap P
         /\ \A n \in Union(T, P) : \E k \in AllKeys(K) : n = N[k] /\ Holders(K, k) \cap P # {}
         /\ \A k \in AllKeys(K) : N[k] \in Union(T, P) <=> Holders(K, k) \cap P # {}
<1>1. ASSUME NEW k \in AllKeys(K), NEW p \in DOMAIN K
      PROVE  N[k] \in DOMAIN T[p] <=> p \in Holders(K, k)
  <2>1. N[k] \in DOMAIN T[p] <=> \E l \in Range(K[p]) : N[k] = N[l]
    BY DEF Indexed
  <2>2. \A l \in Range(K[p]) : N[k] = N[l] => k = l
    BY HoldersHold DEF Apart
  <2> QED
    BY <2>1, <2>2, HoldersHold DEF Holders
<1>2. \A p \in DOMAIN K : \A n \in DOMAIN T[p] : \E k \in AllKeys(K) : n = N[k] /\ p \in Holders(K, k)
  BY HoldersHold DEF Indexed
<1>3. \A k \in AllKeys(K) : Having(T, P, N[k]) = Holders(K, k) \cap P
  BY <1>1, HoldersHold DEF Having
<1>4. \A n : n \in Union(T, P) <=> \E p \in P : n \in DOMAIN T[p]
  BY DEF Union
<1> QED
  BY <1>1, <1>2, <1>3, <1>4

(* MissingObjects() of snapshots rewritten by key: a profile lacks a key    *)
(* another has.                                                             *)
LEMMA MissingByKey ==
  ASSUME NEW T, NEW K, NEW N, Indexed(T, K, N), Apart(K, N)
  PROVE  \A m : m \in MissingObjects(T) <=>
           \E k \in AllKeys(K) : \E q \in DOMAIN K \ Holders(K, k) :
             m = [object |-> N[k], missing_from_profile |-> q]
<1> DEFINE entry(n, q) == [object |-> n, missing_from_profile |-> q]
<1>1. DOMAIN T = DOMAIN K
  BY DEF Indexed
<1>2. \A k \in AllKeys(K) : N[k] \in Union(T, DOMAIN K)
  BY HavingKey, HoldersHold
<1>3. \A n \in Union(T, DOMAIN K) : \E k \in AllKeys(K) : n = N[k]
  BY HavingKey
<1>4. ASSUME NEW k \in AllKeys(K), NEW q \in DOMAIN K
      PROVE  N[k] \in DOMAIN T[q] <=> q \in Holders(K, k)
  <2>1. Having(T, DOMAIN K, N[k]) = Holders(K, k) \cap DOMAIN K
    BY HavingKey
  <2> QED
    BY <2>1 DEF Having
<1>5. \A m : m \in MissingObjects(T) <=>
        \E n \in Union(T, DOMAIN K), q \in DOMAIN K : m = entry(n, q) /\ n \notin DOMAIN T[q]
  BY <1>1 DEF MissingObjects
<1> QED
  BY <1>2, <1>3, <1>4, <1>5

(* Values differ when two profiles have two of them.                        *)
LEMMA DifferIs ==
  ASSUME NEW f, IsFiniteSet(DOMAIN f)
  PROVE  Differ(f) <=> \E p, q \in DOMAIN f : f[p] # f[q]
<1> DEFINE g == [p \in DOMAIN f |-> f[p]]
<1>1. g \in Surjection(DOMAIN f, Range(f))
  BY DEF Surjection, Range
<1>2. IsFiniteSet(Range(f))
  BY <1>1, FS_Surjection, Zenon
<1>3. Differ(f) <=> \E b, c \in Range(f) : b # c
  BY <1>2, MoreThanOne DEF Differ
<1> QED
  BY <1>3 DEF Range

(* Mismatches() of snapshots rewritten by key: the values at one key differ.*)
LEMMA MismatchesByKey ==
  ASSUME NEW T, NEW K, NEW N, Indexed(T, K, N), Apart(K, N)
  PROVE  \A f : f \in Mismatches(T, DOMAIN T) <=>
           \E k \in AllKeys(K) :
             /\ f = [object |-> N[k], values_by_profile |-> [p \in Holders(K, k) |-> T[p][N[k]]]]
             /\ Differ([p \in Holders(K, k) |-> T[p][N[k]]])
<1> DEFINE value(n) == [p \in Having(T, DOMAIN K, n) |-> T[p][n]]
<1>1. DOMAIN T = DOMAIN K
  BY DEF Indexed
<1>2. \A k \in AllKeys(K) : N[k] \in Union(T, DOMAIN K)
  BY HavingKey, HoldersHold
<1>3. \A n \in Union(T, DOMAIN K) : \E k \in AllKeys(K) : n = N[k]
  BY HavingKey
<1>4. ASSUME NEW k \in AllKeys(K)
      PROVE  value(N[k]) = [p \in Holders(K, k) |-> T[p][N[k]]]
  <2>1. Having(T, DOMAIN K, N[k]) = Holders(K, k) \cap DOMAIN K
    BY HavingKey
  <2>2. Holders(K, k) \subseteq DOMAIN K
    BY HoldersHold
  <2> QED
    BY <2>1, <2>2
<1>5. \A f : f \in Mismatches(T, DOMAIN T) <=>
        \E n \in Union(T, DOMAIN K) :
          f = [object |-> n, values_by_profile |-> value(n)] /\ Differ(value(n))
  BY <1>1 DEF Mismatches
<1> DEFINE entry(n, v) == [object |-> n, values_by_profile |-> v]
           valuesOf(k) == [p \in Holders(K, k) |-> T[p][N[k]]]
<1>6. \A f : f \in Mismatches(T, DOMAIN T) <=>
        \E n \in Union(T, DOMAIN K) : f = entry(n, value(n)) /\ Differ(value(n))
  BY <1>5
<1>7. \A k \in AllKeys(K) : value(N[k]) = valuesOf(k)
  BY <1>4
<1> HIDE DEF value, entry, valuesOf
<1>8. \A f : f \in Mismatches(T, DOMAIN T) <=>
        \E k \in AllKeys(K) : f = entry(N[k], valuesOf(k)) /\ Differ(valuesOf(k))
  BY <1>2, <1>3, <1>6, <1>7
<1> QED
  BY <1>8 DEF entry, valuesOf
-----------------------------------------------------------------------------------
(* The columns of the tables of one key, tab[p] that of profile p.          *)
Tabled(tab) ==
  /\ DOMAIN tab \subseteq Profiles /\ IsFiniteSet(DOMAIN tab)
  /\ \A p \in DOMAIN tab : /\ IsFiniteSet(tab[p].columns)
                           /\ \A c, d \in tab[p].columns : c.name = d.name => c = d
ColumnsIn(tab) == [p \in DOMAIN tab |-> tab[p].columns]
LikesOf(tab) == {<<p, tab[p]>> : p \in DOMAIN tab}
Clash(tab, f) == \E p \in DOMAIN tab : Cardinality({c \in tab[p].columns : Fold[c.name] = f}) > 1
ColumnKey(tab, n) == IF Clash(tab, Fold[n]) THEN <<"exact", n>> ELSE <<Fold[n]>>

(* The key of a column is the one of its name in that table.                *)
LEMMA KeyOfColumn ==
  ASSUME NEW tab
  PROVE  LET C == ColumnKeys(ColumnsIn(tab))
         IN /\ DOMAIN C = DOMAIN tab
            /\ \A p \in DOMAIN tab : /\ DOMAIN C[p] = tab[p].columns
                                     /\ \A c \in tab[p].columns : C[p][c] = ColumnKey(tab, c.name)
<1> DEFINE items == ColumnsIn(tab)
           loose == [q \in DOMAIN items |-> [i \in items[q] |-> <<Fold[i.name]>>]]
           exact == [q \in DOMAIN items |-> [i \in items[q] |-> <<"exact", i.name>>]]
           all == UNION {Range(loose[q]) : q \in DOMAIN loose}
           twice == {l \in all : \E q \in DOMAIN loose :
                       Cardinality({i \in DOMAIN loose[q] : loose[q][i] = l}) > 1}
<1>1. ColumnKeys(items) = Keys(loose, exact)
  BY DEF ColumnKeys
<1>2. DOMAIN items = DOMAIN tab /\ \A p \in DOMAIN tab : items[p] = tab[p].columns
  BY DEF ColumnsIn
<1>3. DOMAIN ColumnKeys(items) = DOMAIN tab
      /\ \A p \in DOMAIN tab : DOMAIN ColumnKeys(items)[p] = tab[p].columns
  BY <1>2 DEF ColumnKeys, Keys
<1>4. ASSUME NEW p \in DOMAIN tab, NEW c \in tab[p].columns
      PROVE  ColumnKeys(items)[p][c] = ColumnKey(tab, c.name)
  <2> DEFINE k == <<Fold[c.name]>>
  <2>1. /\ DOMAIN loose = DOMAIN tab /\ DOMAIN loose[p] = tab[p].columns
        /\ loose[p][c] = k /\ exact[p][c] = <<"exact", c.name>>
    BY <1>2
  <2>2. k \in all
    <3>1. c \in DOMAIN loose[p] /\ p \in DOMAIN loose
      BY <2>1
    <3> HIDE DEF loose, exact, items
    <3>2. loose[p][c] \in Range(loose[p])
      BY <3>1, InRange
    <3> QED
      BY <2>1, <3>1, <3>2
  <2>3. ASSUME NEW q \in DOMAIN tab
        PROVE  {i \in DOMAIN loose[q] : loose[q][i] = k} = {i \in tab[q].columns : Fold[i.name] = Fold[c.name]}
    BY <1>2
  <2>4. k \in twice <=> Clash(tab, Fold[c.name])
    BY <2>1, <2>2, <2>3 DEF Clash
  <2>5. Keys(loose, exact)[p][c] = IF loose[p][c] \in twice THEN exact[p][c] ELSE loose[p][c]
    <3> HIDE DEF loose, exact
    <3> QED
      BY <2>1 DEF Keys
  <2> HIDE DEF loose, exact, twice, all, items
  <2> QED
    BY <1>1, <2>1, <2>4, <2>5 DEF ColumnKey
<1> HIDE DEF loose, exact, twice, all
<1> QED
  BY <1>3, <1>4

(* The columns of a table, which its engine tells apart, have a key each.   *)
LEMMA ColumnsOneEach ==
  ASSUME NEW tab, Tabled(tab)
  PROVE  OneEach(ColumnKeys(ColumnsIn(tab)))
<1> DEFINE items == ColumnsIn(tab)
<1>1. DOMAIN items = DOMAIN tab /\ \A p \in DOMAIN tab : items[p] = tab[p].columns
  BY DEF ColumnsIn
<1>2. ASSUME NEW p \in DOMAIN tab
      PROVE  \A c, d \in items[p] : ColumnKeys(items)[p][c] = ColumnKeys(items)[p][d] => c = d
  BY <1>1, ColumnsAreKept DEF Tabled
<1> QED
  BY <1>1, <1>2, KeyOfColumn DEF OneEach

(* A column key is spelled as the first profile in the alphabet that has it *)
(* does.                                                                    *)
LEMMA SpellingColumn ==
  ASSUME NEW tab, Tabled(tab), NEW k \in AllKeys(ColumnKeys(ColumnsIn(tab)))
  PROVE  LET C == ColumnKeys(ColumnsIn(tab))
             h == Alphabetical(Holders(C, k))
         IN /\ h \in Holders(C, k) /\ h \in DOMAIN tab
            /\ \E c \in tab[h].columns :
                 /\ ItemsAt(C, k, h) = {c} /\ C[h][c] = k /\ k = ColumnKey(tab, c.name)
                 /\ CanonicalColumns(C)[k] = c.name
<1> DEFINE C == ColumnKeys(ColumnsIn(tab))
           h == Alphabetical(Holders(C, k))
<1>1. DOMAIN C = DOMAIN tab /\ \A p \in DOMAIN tab : DOMAIN C[p] = tab[p].columns
  BY KeyOfColumn
<1>2. OneEach(C)
  BY ColumnsOneEach
<1>3. h \in Holders(C, k)
  BY <1>1, SpellerHolds DEF Tabled
<1>4. h \in DOMAIN tab /\ \E c \in tab[h].columns : C[h][c] = k
  BY <1>1, <1>3, HoldersHold
<1>5. PICK c \in tab[h].columns : C[h][c] = k
  BY <1>4
<1>6. k = ColumnKey(tab, c.name)
  BY <1>4, <1>5, KeyOfColumn
<1> HIDE DEF C
<1>7. ItemsAt(C, k, h) = {c}
  BY <1>1, <1>2, <1>4, <1>5, OneItemAtKey
<1>8. CanonicalColumns(C)[k] = (CHOOSE d \in ItemsAt(C, k, h) : TRUE).name
  BY DEF CanonicalColumns, C
<1>9. CanonicalColumns(C)[k] = c.name
  BY <1>7, <1>8
<1> QED
  BY <1>3, <1>4, <1>5, <1>6, <1>7, <1>9 DEF C

(* Two columns of a table get two canonical names.                          *)
LEMMA ColumnNamesApart ==
  ASSUME NEW tab, Tabled(tab)
  PROVE  /\ Apart(ColumnKeys(ColumnsIn(tab)), CanonicalColumns(ColumnKeys(ColumnsIn(tab))))
         /\ \A k \in AllKeys(ColumnKeys(ColumnsIn(tab))) :
              k = ColumnKey(tab, CanonicalColumns(ColumnKeys(ColumnsIn(tab)))[k])
<1> DEFINE C == ColumnKeys(ColumnsIn(tab))
           N == CanonicalColumns(C)
<1>1. \A k \in AllKeys(C) : k = ColumnKey(tab, N[k])
  BY SpellingColumn
<1> HIDE DEF C, N
<1> QED
  BY <1>1 DEF Apart, C, N

(* As a key or an index mentions a column: under its key, if a table has it.*)
LEMMA ColumnNameIs ==
  ASSUME NEW tab, NEW n
  PROVE  LET C == ColumnKeys(ColumnsIn(tab))
             N == CanonicalColumns(C)
             k == ColumnKey(tab, n)
         IN ColumnName(N, n) = IF k \in AllKeys(C) THEN N[k] ELSE n
<1> DEFINE C == ColumnKeys(ColumnsIn(tab))
           N == CanonicalColumns(C)
           k == ColumnKey(tab, n)
           x == <<"exact", n>>
           y == <<Fold[n]>>
<1>1. DOMAIN N = AllKeys(C)
  BY DEF CanonicalColumns
<1>2. \A l \in AllKeys(C) : \E p \in DOMAIN tab : \E c \in tab[p].columns : l = ColumnKey(tab, c.name)
  BY KeyOfColumn, KeyOfItem
<1>3. \A m : ColumnKey(tab, m) = x => m = n /\ Clash(tab, Fold[n])
  BY DEF ColumnKey
<1>4. \A m : ColumnKey(tab, m) = y => ~Clash(tab, Fold[n])
  BY DEF ColumnKey
<1>5. x \in AllKeys(C) => Clash(tab, Fold[n])
  BY <1>2, <1>3
<1>6. y \in AllKeys(C) => ~Clash(tab, Fold[n])
  BY <1>2, <1>4
<1>7. k = IF Clash(tab, Fold[n]) THEN x ELSE y
  BY DEF ColumnKey
<1>8. ColumnName(N, n) = IF x \in AllKeys(C) THEN N[x] ELSE IF y \in AllKeys(C) THEN N[y] ELSE n
  <2> HIDE DEF C, N
  <2>1. CASE x \in AllKeys(C)
    BY <1>1, <2>1 DEF ColumnName
  <2>2. CASE x \notin AllKeys(C) /\ y \in AllKeys(C)
    BY <1>1, <2>2 DEF ColumnName
  <2>3. CASE x \notin AllKeys(C) /\ y \notin AllKeys(C)
    BY <1>1, <2>3 DEF ColumnName
  <2> QED
    BY <2>1, <2>2, <2>3
<1> HIDE DEF C, N, k, x, y
<1>9. ColumnName(N, n) = IF k \in AllKeys(C) THEN N[k] ELSE n
  BY <1>5, <1>6, <1>7, <1>8
<1> QED
  BY <1>9 DEF C, N, k

(* Two column names are the same by pairs exactly when they are rewritten to*)
(* one.                                                                     *)
LEMMA SameColumnIsSameName ==
  ASSUME NEW tab, Tabled(tab), NEW m, NEW n
  PROVE  LET C == ColumnKeys(ColumnsIn(tab))
             N == CanonicalColumns(C)
         IN /\ SameColumn(LikesOf(tab), m, n) <=> ColumnName(N, m) = ColumnName(N, n)
            /\ SameColumn(LikesOf(tab), m, n) <=>
                 m = n \/ (ColumnKey(tab, m) = ColumnKey(tab, n) /\ ColumnKey(tab, m) \in AllKeys(C))
<1> DEFINE C == ColumnKeys(ColumnsIn(tab))
           N == CanonicalColumns(C)
           L == LikesOf(tab)
           key(l) == ColumnKey(tab, l)
           named(o) == {c \in o[2].columns : Fold[c.name] = Fold[m]}
<1>1. ASSUME NEW p \in DOMAIN tab
      PROVE  Cardinality(named(<<p, tab[p]>>)) <= 1 <=>
               ~(Cardinality({c \in tab[p].columns : Fold[c.name] = Fold[m]}) > 1)
  <2>1. IsFiniteSet({c \in tab[p].columns : Fold[c.name] = Fold[m]})
    BY FS_Subset DEF Tabled
  <2>2. Cardinality({c \in tab[p].columns : Fold[c.name] = Fold[m]}) \in Nat
    BY <2>1, FS_CardinalityType
  <2> QED
    BY <2>2
<1>2. (\A o \in L : Cardinality(named(o)) <= 1) <=> ~Clash(tab, Fold[m])
  BY <1>1 DEF LikesOf, Clash
<1>3. (\E o \in L : named(o) # {}) <=> \E p \in DOMAIN tab : \E c \in tab[p].columns : Fold[c.name] = Fold[m]
  <2>1. \A p : named(<<p, tab[p]>>) = {c \in tab[p].columns : Fold[c.name] = Fold[m]}
    OBVIOUS
  <2> HIDE DEF named
  <2>2. (\E o \in L : named(o) # {}) <=> \E p \in DOMAIN tab : named(<<p, tab[p]>>) # {}
    BY DEF LikesOf
  <2> QED
    BY <2>1, <2>2
<1>4. ~Clash(tab, Fold[m]) =>
        ((\E p \in DOMAIN tab : \E c \in tab[p].columns : Fold[c.name] = Fold[m]) <=> key(m) \in AllKeys(C))
  <2> SUFFICES ASSUME ~Clash(tab, Fold[m])
               PROVE  (\E p \in DOMAIN tab : \E c \in tab[p].columns : Fold[c.name] = Fold[m])
                        <=> key(m) \in AllKeys(C)
    OBVIOUS
  <2>1. \A c : Fold[c.name] = Fold[m] <=> key(c.name) = key(m)
    BY DEF ColumnKey
  <2>2. key(m) \in AllKeys(C) <=>
          \E p \in DOMAIN tab : \E c \in tab[p].columns : key(c.name) = key(m)
    BY KeyOfColumn, KeyOfItem
  <2> HIDE DEF key
  <2> QED
    BY <2>1, <2>2
<1>5. key(m) = key(n) <=> m = n \/ (Fold[m] = Fold[n] /\ ~Clash(tab, Fold[m]))
  BY DEF ColumnKey
<1>6. SameColumn(L, m, n) <=>
        \/ m = n
        \/ /\ Fold[m] = Fold[n]
           /\ \A o \in L : Cardinality(named(o)) <= 1
           /\ \E o \in L : named(o) # {}
  BY DEF SameColumn
<1> HIDE DEF key, named, L, C
<1>7. SameColumn(L, m, n) <=> m = n \/ (key(m) = key(n) /\ key(m) \in AllKeys(C))
  BY <1>2, <1>3, <1>4, <1>5, <1>6
<1>8. \A l \in {m, n} : ColumnName(N, l) = IF key(l) \in AllKeys(C) THEN N[key(l)] ELSE l
  BY ColumnNameIs DEF C, N, key
<1>9. Apart(C, N) /\ \A k \in AllKeys(C) : k = key(N[k])
  BY ColumnNamesApart DEF C, N, key
<1> HIDE DEF N
<1>10. ColumnName(N, m) = ColumnName(N, n) <=> m = n \/ (key(m) = key(n) /\ key(m) \in AllKeys(C))
  BY <1>8, <1>9 DEF Apart
<1> QED
  BY <1>7, <1>10 DEF C, N, L, key

(* The tables that have a column by pairs are the holders of its key, with  *)
(* that column and that spelling.                                           *)
LEMMA HavingColumnKey ==
  ASSUME NEW tab, Tabled(tab), NEW p \in DOMAIN tab, NEW c \in tab[p].columns
  PROVE  LET C == ColumnKeys(ColumnsIn(tab))
             k == C[p][c]
         IN /\ Owners(HavingColumn(LikesOf(tab), c.name)) = Holders(C, k)
            /\ \A o : o \in HavingColumn(LikesOf(tab), c.name) <=> o[1] \in Holders(C, k) /\ o = <<o[1], tab[o[1]]>>
            /\ \A q \in Holders(C, k) : \A d \in ItemsAt(C, k, q) :
                 ColumnOf(LikesOf(tab), <<q, tab[q]>>, c.name) = d
            /\ SpelledColumn(LikesOf(tab), c.name) = CanonicalColumns(C)[k]
<1> DEFINE C == ColumnKeys(ColumnsIn(tab))
           k == C[p][c]
           L == LikesOf(tab)
           H == HavingColumn(L, c.name)
           key(l) == ColumnKey(tab, l)
           h == Alphabetical(Holders(C, k))
<1>1. DOMAIN C = DOMAIN tab /\ \A q \in DOMAIN tab : DOMAIN C[q] = tab[q].columns
  BY KeyOfColumn
<1>2. \A q \in DOMAIN tab : \A d \in tab[q].columns : C[q][d] = key(d.name)
  BY KeyOfColumn
<1>3. k \in AllKeys(C) /\ k = key(c.name)
  BY <1>1, <1>2, KeyOfItem
<1>4. OneEach(C)
  BY ColumnsOneEach
<1>5. \A n : SameColumn(L, c.name, n) <=> c.name = n \/ (key(c.name) = key(n) /\ key(c.name) \in AllKeys(C))
  BY SameColumnIsSameName
<1> HIDE DEF C, key
<1>6. \A n : SameColumn(L, c.name, n) <=> key(n) = k
  BY <1>3, <1>5
<1>7. \A o : o \in L <=> o[1] \in DOMAIN tab /\ o = <<o[1], tab[o[1]]>>
  BY DEF LikesOf
<1> HIDE DEF L, k
<1>8. ASSUME NEW o \in L
      PROVE  o \in H <=> o[1] \in Holders(C, k)
  <2>1. o[1] \in DOMAIN tab /\ o[2] = tab[o[1]]
    BY <1>7
  <2>2. o \in H <=> \E d \in tab[o[1]].columns : SameColumn(L, c.name, d.name)
    BY <2>1 DEF HavingColumn
  <2>3. o \in H <=> \E d \in tab[o[1]].columns : C[o[1]][d] = k
    BY <1>2, <1>6, <2>1, <2>2
  <2> QED
    BY <1>1, <2>1, <2>3 DEF Holders, Range
<1>9. H \subseteq L
  BY DEF HavingColumn
<1>10. \A o : o \in H <=> o[1] \in Holders(C, k) /\ o = <<o[1], tab[o[1]]>>
  <2>1. \A q \in Holders(C, k) : q \in DOMAIN tab
    BY <1>1 DEF Holders
  <2> QED
    BY <1>7, <1>8, <1>9, <2>1
<1> HIDE DEF H
<1>11. Owners(H) = Holders(C, k)
  <2>1. \A q \in Holders(C, k) : <<q, tab[q]>> \in H /\ <<q, tab[q]>>[1] = q
    BY <1>10
  <2>2. \A q : q \in Owners(H) <=> \E o \in H : q = o[1]
    BY DEF Owners
  <2>3. \A q \in Holders(C, k) : q \in Owners(H)
    BY <2>1, <2>2
  <2>4. \A q \in Owners(H) : q \in Holders(C, k)
    BY <1>10, <2>2
  <2> QED
    BY <2>3, <2>4
<1>12. ASSUME NEW q \in Holders(C, k), NEW d \in ItemsAt(C, k, q)
       PROVE  ColumnOf(L, <<q, tab[q]>>, c.name) = d
  <2>1. q \in DOMAIN tab /\ d \in tab[q].columns /\ C[q][d] = k
    BY <1>1 DEF Holders, ItemsAt
  <2>2. \A e \in tab[q].columns : SameColumn(L, c.name, e.name) <=> e = d
    BY <1>1, <1>2, <1>4, <1>6, <2>1 DEF OneEach
  <2>3. ColumnOf(L, <<q, tab[q]>>, c.name) = CHOOSE e \in tab[q].columns : SameColumn(L, c.name, e.name)
    BY DEF ColumnOf
  <2> QED
    BY <2>1, <2>2, <2>3
<1>13. h \in Holders(C, k) /\ \E d \in tab[h].columns : ItemsAt(C, k, h) = {d} /\ CanonicalColumns(C)[k] = d.name
  BY <1>3, SpellingColumn DEF C
<1>14. SpelledColumn(L, c.name) = CanonicalColumns(C)[k]
  <2> DEFINE o == CHOOSE u \in H : u[1] = Alphabetical(Owners(H))
  <2>1. SpelledColumn(L, c.name) = ColumnOf(L, o, c.name).name
    BY DEF SpelledColumn, H
  <2>2. <<h, tab[h]>> \in H /\ \A u \in H : u[1] = h => u = <<h, tab[h]>>
    BY <1>10, <1>13
  <2>3. o = <<h, tab[h]>>
    BY <1>11, <2>2
  <2> HIDE DEF o
  <2> QED
    BY <1>12, <1>13, <2>1, <2>3
<1> QED
  BY <1>10, <1>11, <1>12, <1>14 DEF H, L, C, k
-----------------------------------------------------------------------------------
(* Objects missing from a profile, and routines.                            *)

(* What the reference says of an object is what its key says: who has it,   *)
(* how it is spelled, what is like it.                                      *)
LEMMA ObjectHasKey ==
  ASSUME NEW S, Countable(S), NEW kind \in Kinds, OneEach(KeysOf(S, kind)),
         NEW o \in Objects(S, kind)
  PROVE  LET K == KeysOf(S, kind)
             k == K[o[1]][o[2]]
         IN /\ o[1] \in DOMAIN S /\ o[2] \in S[o[1]][kind] /\ o[1] \in Holders(K, k)
            /\ k \in AllKeys(K)
            /\ SpelledAs(S, kind, o[1], o[2]) = CanonicalObjects(K)[k]
            /\ Owners(Likes(S, kind, o[1], o[2])) = Holders(K, k)
            /\ \A u : u \in Likes(S, kind, o[1], o[2]) <=> u \in Objects(S, kind) /\ K[u[1]][u[2]] = k
<1> DEFINE K == KeysOf(S, kind)
           p == o[1]
           a == o[2]
           k == K[p][a]
<1>1. p \in DOMAIN S /\ a \in S[p][kind]
  BY ObjectsAre
<1>2. DOMAIN K = DOMAIN S /\ \A q \in DOMAIN S : DOMAIN K[q] = S[q][kind]
  BY KeysOfItems
<1>3. k \in AllKeys(K) /\ p \in Holders(K, k)
  <2>1. k \in Range(K[p])
    BY <1>1, <1>2, InRange
  <2> HIDE DEF K, k
  <2> QED
    BY <1>1, <1>2, <2>1, HoldersHold
<1>4. HasName(a) /\ k = KeyFor(S, kind, p, a)
  BY <1>1, KindOf, KeysOfItems
<1> HIDE DEF p, a
<1>5. CanonicalObjects(K)[k] = SpelledAs(S, kind, p, a)
  BY <1>1, SpelledAsKey
<1>6. Owners(Likes(S, kind, p, a)) = Holders(K, k)
  BY <1>4, LikesAreOfKey
<1>7. \A u : u \in Likes(S, kind, p, a) <=> u \in Objects(S, kind) /\ K[u[1]][u[2]] = k
  BY <1>4, LikesAreOfKey
<1> HIDE DEF K, k
<1>8. /\ p \in DOMAIN S /\ a \in S[p][kind] /\ p \in Holders(K, k) /\ k \in AllKeys(K)
      /\ SpelledAs(S, kind, p, a) = CanonicalObjects(K)[k]
      /\ Owners(Likes(S, kind, p, a)) = Holders(K, k)
      /\ \A u : u \in Likes(S, kind, p, a) <=> u \in Objects(S, kind) /\ K[u[1]][u[2]] = k
  BY <1>1, <1>3, <1>5, <1>6, <1>7
<1> QED
  BY <1>8 DEF p, a, K, k

(* A profile that holds a key has an object of it.                          *)
LEMMA KeyHasObject ==
  ASSUME NEW S, Countable(S), NEW kind \in Kinds, NEW k \in AllKeys(KeysOf(S, kind)),
         NEW p \in Holders(KeysOf(S, kind), k)
  PROVE  \E o \in Objects(S, kind) : o[1] = p /\ KeysOf(S, kind)[o[1]][o[2]] = k
<1> DEFINE K == KeysOf(S, kind)
<1>1. DOMAIN K = DOMAIN S /\ \A q \in DOMAIN S : DOMAIN K[q] = S[q][kind]
  BY KeysOfItems
<1> HIDE DEF K
<1>2. p \in DOMAIN S /\ \E a \in S[p][kind] : K[p][a] = k
  BY <1>1, HoldersHold DEF K
<1>3. PICK a \in S[p][kind] : K[p][a] = k
  BY <1>2
<1>4. <<p, a>> \in Objects(S, kind) /\ <<p, a>>[1] = p /\ <<p, a>>[2] = a
  BY <1>2, ObjectsAre
<1>5. K[<<p, a>>[1]][<<p, a>>[2]] = k
  BY <1>3, <1>4
<1> QED
  BY <1>4, <1>5 DEF K

(* Objects one profile has and another has not.                             *)
LEMMA MissingAreMissing ==
  ASSUME NEW S, Countable(S), NEW kind \in Kinds,
         OneEach(KeysOf(S, kind)), NamesApart(KeysOf(S, kind)),
         NEW T, Indexed(T, KeysOf(S, kind), CanonicalObjects(KeysOf(S, kind)))
  PROVE  MissingObjects(T) = ReferenceMissing(S, kind)
<1> DEFINE K == KeysOf(S, kind)
           N == CanonicalObjects(K)
           key(o) == K[o[1]][o[2]]
           entry(n, q) == [object |-> n, missing_from_profile |-> q]
<1>1. Apart(K, N) /\ DOMAIN K = DOMAIN S
  BY KeysOfItems DEF NamesApart, Apart
<1>2. \A m : m \in MissingObjects(T) <=>
        \E k \in AllKeys(K) : \E q \in DOMAIN S \ Holders(K, k) : m = entry(N[k], q)
  BY <1>1, MissingByKey
<1>3. \A m : m \in ReferenceMissing(S, kind) <=>
        \E o \in Objects(S, kind) : \E q \in DOMAIN S \ Owners(Likes(S, kind, o[1], o[2])) :
          m = entry(SpelledAs(S, kind, o[1], o[2]), q)
  BY DEF ReferenceMissing
<1>4. \A o \in Objects(S, kind) : /\ key(o) \in AllKeys(K)
                                  /\ SpelledAs(S, kind, o[1], o[2]) = N[key(o)]
                                  /\ Owners(Likes(S, kind, o[1], o[2])) = Holders(K, key(o))
  BY ObjectHasKey
<1>5. ASSUME NEW k \in AllKeys(K) PROVE \E o \in Objects(S, kind) : key(o) = k
  <2>1. PICK p : p \in Holders(K, k)
    BY HoldersHold
  <2> QED
    BY <2>1, KeyHasObject
<1> HIDE DEF K, N, key, entry
<1>6. ASSUME NEW m \in MissingObjects(T) PROVE m \in ReferenceMissing(S, kind)
  <2>1. PICK k \in AllKeys(K) : \E q \in DOMAIN S \ Holders(K, k) : m = entry(N[k], q)
    BY <1>2
  <2>2. PICK o \in Objects(S, kind) : key(o) = k
    BY <1>5
  <2> QED
    BY <1>3, <1>4, <2>1, <2>2
<1>7. ASSUME NEW m \in ReferenceMissing(S, kind) PROVE m \in MissingObjects(T)
  BY <1>2, <1>3, <1>4
<1> QED
  BY <1>6, <1>7
-----------------------------------------------------------------------------------
(* canonicalize() rewrites the routines by key, each with its own content.  *)
LEMMA RoutinesAre ==
  ASSUME NEW S, Countable(S), OneEach(KeysOf(S, "routines")), NamesApart(KeysOf(S, "routines"))
  PROVE  LET K == KeysOf(S, "routines")
             N == CanonicalObjects(K)
             R == CanonicalRoutines(S)
         IN /\ Indexed(R, K, N)
            /\ \A p \in DOMAIN S : \A r \in S[p].routines : R[p][N[K[p][r]]] = r.content
<1> DEFINE K == KeysOf(S, "routines")
           N == CanonicalObjects(K)
           R == CanonicalRoutines(S)
<1>1. "routines" \in Kinds
  BY DEF Kinds
<1>2. DOMAIN K = DOMAIN S /\ \A q \in DOMAIN S : DOMAIN K[q] = S[q].routines
  BY <1>1, KeysOfItems
<1>3. R = [p \in DOMAIN S |->
             [n \in {N[k] : k \in Range(K[p])} |->
                Last({r \in S[p].routines : N[K[p][r]] = n}).content]]
  BY DEF CanonicalRoutines, KeysOf, ItemsOf
<1> HIDE DEF K, N, R
<1>4. Indexed(R, K, N)
  BY <1>2, <1>3 DEF Indexed
<1>5. ASSUME NEW p \in DOMAIN S, NEW r \in S[p].routines
      PROVE  R[p][N[K[p][r]]] = r.content
  <2> DEFINE k == K[p][r]
             same == {x \in S[p].routines : N[K[p][x]] = N[k]}
  <2>1. k \in Range(K[p])
    BY <1>2, InRange
  <2>2. R[p][N[k]] = Last(same).content
    BY <1>3, <2>1
  <2>3. \A x \in S[p].routines : K[p][x] \in AllKeys(K)
    BY <1>2, KeyOfItem
  <2>4. \A x \in S[p].routines : N[K[p][x]] = N[k] <=> x = r
    BY <1>2, <2>3 DEF OneEach, NamesApart, K, N
  <2>5. same = {r}
    BY <2>4
  <2>6. Last({r}) = r
    BY <1>1, KindOf, FirstOfOne
  <2> QED
    BY <2>2, <2>5, <2>6
<1> QED
  BY <1>4, <1>5 DEF K, N, R

(* Mismatches() of the routines finds the objects whose contents differ.    *)
LEMMA RoutinesDiffer ==
  ASSUME NEW S, Countable(S), OneEach(KeysOf(S, "routines")), NamesApart(KeysOf(S, "routines"))
  PROVE  LET R == CanonicalRoutines(S)
         IN {f.object : f \in Mismatches(R, DOMAIN R)} = ReferenceRoutines(S)
<1> DEFINE kind == "routines"
           K == KeysOf(S, kind)
           N == CanonicalObjects(K)
           R == CanonicalRoutines(S)
           key(o) == K[o[1]][o[2]]
           valuesOf(k) == [p \in Holders(K, k) |-> R[p][N[k]]]
           entry(k) == [object |-> N[k], values_by_profile |-> valuesOf(k)]
<1>1. kind \in Kinds
  BY DEF Kinds
<1>2. DOMAIN K = DOMAIN S /\ \A q \in DOMAIN S : DOMAIN K[q] = S[q].routines
  BY <1>1, KeysOfItems
<1>3. Indexed(R, K, N) /\ Apart(K, N)
  BY RoutinesAre DEF NamesApart, Apart
<1>4. \A f : f \in Mismatches(R, DOMAIN R) <=> \E k \in AllKeys(K) : f = entry(k) /\ Differ(valuesOf(k))
  BY <1>3, MismatchesByKey
<1>5. \A k : entry(k).object = N[k]
  OBVIOUS
<1>6. \A o \in Objects(S, kind) : /\ key(o) \in AllKeys(K) /\ o[1] \in Holders(K, key(o))
                                  /\ o[1] \in DOMAIN S /\ o[2] \in S[o[1]].routines
                                  /\ SpelledAs(S, kind, o[1], o[2]) = N[key(o)]
                                  /\ \A u : u \in Likes(S, kind, o[1], o[2]) <=>
                                              u \in Objects(S, kind) /\ key(u) = key(o)
  BY <1>1, ObjectHasKey
<1>7. \A k \in AllKeys(K) : \A p \in Holders(K, k) : \E o \in Objects(S, kind) : o[1] = p /\ key(o) = k
  BY <1>1, KeyHasObject
<1>8. \A o \in Objects(S, kind) : R[o[1]][N[key(o)]] = o[2].content
  BY <1>6, RoutinesAre
<1>9. \A k \in AllKeys(K) : IsFiniteSet(Holders(K, k))
  BY <1>2, HoldersHold, FS_Subset DEF Countable
<1> HIDE DEF K, N, R
<1>10. ASSUME NEW k \in AllKeys(K)
       PROVE  Differ(valuesOf(k)) <=> \E p, q \in Holders(K, k) : R[p][N[k]] # R[q][N[k]]
  <2>1. IsFiniteSet(DOMAIN valuesOf(k))
    BY <1>9
  <2>2. Differ(valuesOf(k)) <=> \E p, q \in DOMAIN valuesOf(k) : valuesOf(k)[p] # valuesOf(k)[q]
    <3> HIDE DEF valuesOf
    <3> QED
      BY <2>1, DifferIs
  <2> QED
    BY <2>2
<1>11. ASSUME NEW k \in AllKeys(K)
       PROVE  Differ(valuesOf(k)) <=> \E o, u \in Objects(S, kind) : key(o) = k /\ key(u) = k /\ u[2].content # o[2].content
  <2> HIDE DEF valuesOf, key
  <2> QED
    BY <1>6, <1>7, <1>8, <1>10
<1>12. \A n : n \in ReferenceRoutines(S) <=>
         \E o \in Objects(S, kind) :
           /\ n = SpelledAs(S, kind, o[1], o[2])
           /\ \E u \in Likes(S, kind, o[1], o[2]) : u[2].content # o[2].content
  BY DEF ReferenceRoutines
<1> HIDE DEF valuesOf, key, entry
<1>13. \A n : n \in ReferenceRoutines(S) <=>
         \E o, u \in Objects(S, kind) : n = N[key(o)] /\ key(u) = key(o) /\ u[2].content # o[2].content
  BY <1>6, <1>12
<1>14. \A n : (\E f \in Mismatches(R, DOMAIN R) : n = f.object) <=> \E k \in AllKeys(K) : n = N[k] /\ Differ(valuesOf(k))
  BY <1>4, <1>5
<1>15. \A n : (\E f \in Mismatches(R, DOMAIN R) : n = f.object) <=> n \in ReferenceRoutines(S)
  <2> TAKE n
  <2>1. ASSUME NEW k \in AllKeys(K), n = N[k], Differ(valuesOf(k)) PROVE n \in ReferenceRoutines(S)
    BY <1>11, <1>13, <2>1
  <2>2. ASSUME NEW o \in Objects(S, kind), NEW u \in Objects(S, kind),
               n = N[key(o)], key(u) = key(o), u[2].content # o[2].content
        PROVE  key(o) \in AllKeys(K) /\ Differ(valuesOf(key(o)))
    BY <1>6, <1>11, <2>2
  <2> QED
    BY <1>13, <1>14, <2>1, <2>2
<1> QED
  BY <1>15 DEF R
-----------------------------------------------------------------------------------
(* The tables of one key, and what canonicalize() makes of them.            *)

(* Columns of a table have names of their own.                              *)
Columned(S) ==
  \A p \in DOMAIN S : \A t \in S[p].tables :
    IsFiniteSet(t.columns) /\ \A c, d \in t.columns : c.name = d.name => c = d
Matched(S) == /\ Countable(S) /\ Columned(S)
              /\ OneEach(TableKeys(S)) /\ NamesApart(TableKeys(S))

(* The keys of the tables are those of the objects of that kind.            *)
LEMMA TableKeysAre ==
  ASSUME NEW S
  PROVE  TableKeys(S) = KeysOf(S, "tables")
  BY DEF TableKeys, KeysOf, ItemsOf

(* The tables of one key: one of each profile that holds it.                *)
LEMMA TablesOfKey ==
  ASSUME NEW S, Matched(S), NEW k \in AllKeys(TableKeys(S))
  PROVE  LET tab == TableAt(S)[k]
         IN /\ DOMAIN tab = Holders(TableKeys(S), k)
            /\ \A p \in DOMAIN tab :
                 p \in DOMAIN S /\ tab[p] \in S[p].tables /\ TableKeys(S)[p][tab[p]] = k
            /\ Tabled(tab)
<1> DEFINE K == TableKeys(S)
           tab == TableAt(S)[k]
<1>1. DOMAIN tab = Holders(K, k)
  BY DEF TableAt
<1>2. DOMAIN K = DOMAIN S /\ \A q \in DOMAIN S : DOMAIN K[q] = S[q].tables
  BY KeysOfItems, TableKeysAre DEF Kinds, Matched
<1>3. ASSUME NEW p \in DOMAIN tab
      PROVE  p \in DOMAIN S /\ tab[p] \in S[p].tables /\ K[p][tab[p]] = k
  <2>1. p \in DOMAIN K /\ \E a \in DOMAIN K[p] : K[p][a] = k
    BY <1>1, HoldersHold
  <2>2. PICK t \in S[p].tables : K[p][t] = k
    BY <1>2, <2>1
  <2>3. ItemsAt(K, k, p) = {t}
    BY <1>2, <2>1, <2>2, OneItemAtKey DEF Matched
  <2>4. HasName(t)
    BY <1>2, <2>1, KindOf DEF Kinds, Matched
  <2>5. tab[p] = Last({t})
    BY <1>1, <2>3 DEF TableAt
  <2> QED
    BY <1>2, <2>1, <2>2, <2>4, <2>5, FirstOfOne
<1>4. DOMAIN tab \subseteq DOMAIN S
  BY <1>3
<1>5. IsFiniteSet(DOMAIN tab) /\ DOMAIN tab \subseteq Profiles
  BY <1>4, FS_Subset DEF Matched, Countable, Snaps
<1>6. \A p \in DOMAIN tab : /\ IsFiniteSet(tab[p].columns)
                            /\ \A c, d \in tab[p].columns : c.name = d.name => c = d
  BY <1>3 DEF Matched, Columned
<1> HIDE DEF K, tab
<1>7. DOMAIN tab = Holders(K, k) /\ Tabled(tab)
  BY <1>1, <1>5, <1>6 DEF Tabled
<1> QED
  BY <1>3, <1>7 DEF K, tab

(* The table with a key is the one it is of.                                *)
LEMMA TableWithKey ==
  ASSUME NEW S, Matched(S), NEW p \in DOMAIN S, NEW t \in S[p].tables
  PROVE  LET k == TableKeys(S)[p][t]
         IN k \in AllKeys(TableKeys(S)) /\ p \in DOMAIN TableAt(S)[k] /\ TableAt(S)[k][p] = t
<1> DEFINE K == TableKeys(S)
           k == K[p][t]
<1>2. DOMAIN K = DOMAIN S /\ \A q \in DOMAIN S : DOMAIN K[q] = S[q].tables
  BY KeysOfItems, TableKeysAre DEF Kinds, Matched
<1>3. k \in Range(K[p])
  BY <1>2, InRange
<1> HIDE DEF K, k
<1>4. k \in AllKeys(K) /\ p \in Holders(K, k)
  BY <1>2, <1>3, HoldersHold
<1>5. p \in DOMAIN TableAt(S)[k] /\ TableAt(S)[k][p] \in S[p].tables /\ K[p][TableAt(S)[k][p]] = k
  BY <1>4, TablesOfKey DEF K
<1>6. TableAt(S)[k][p] = t
  BY <1>2, <1>5 DEF Matched, OneEach, K, k
<1> QED
  BY <1>4, <1>5, <1>6 DEF K, k

(* The tables like a given one are the tables of its key.                   *)
LEMMA LikesOfTable ==
  ASSUME NEW S, Matched(S), NEW o \in Objects(S, "tables")
  PROVE  Likes(S, "tables", o[1], o[2]) = LikesOf(TableAt(S)[TableKeys(S)[o[1]][o[2]]])
<1> DEFINE K == TableKeys(S)
           k == K[o[1]][o[2]]
           tab == TableAt(S)[k]
           L == Likes(S, "tables", o[1], o[2])
<1>1. /\ k \in AllKeys(K)
      /\ \A u : u \in L <=> u \in Objects(S, "tables") /\ K[u[1]][u[2]] = k
  BY ObjectHasKey, TableKeysAre DEF Kinds, Matched
<1>2. \A p \in DOMAIN tab : p \in DOMAIN S /\ tab[p] \in S[p].tables /\ K[p][tab[p]] = k
  BY <1>1, TablesOfKey
<1>3. ASSUME NEW u \in L PROVE u \in LikesOf(tab)
  <2>1. u[1] \in DOMAIN S /\ u[2] \in S[u[1]].tables /\ u = <<u[1], u[2]>> /\ K[u[1]][u[2]] = k
    BY <1>1, ObjectsAre
  <2>2. u[1] \in DOMAIN tab /\ tab[u[1]] = u[2]
    BY <2>1, TableWithKey
  <2> HIDE DEF tab
  <2> QED
    BY <2>1, <2>2 DEF LikesOf
<1>4. ASSUME NEW p \in DOMAIN tab PROVE <<p, tab[p]>> \in L
  <2> HIDE DEF tab, K
  <2>1. <<p, tab[p]>> \in Objects(S, "tables")
    BY <1>2, ObjectsAre
  <2> HIDE DEF k
  <2> QED
    BY <1>1, <1>2, <2>1
<1> HIDE DEF tab, L, K, k
<1> QED
  BY <1>3, <1>4 DEF LikesOf, L, tab, K, k

(* canonicalize() rewrites the tables by key, each as the table of that key *)
(* of its profile.                                                          *)
LEMMA CanonicalTablesAre ==
  ASSUME NEW S, Matched(S), NEW order, IsOrder(order, S)
  PROVE  LET T == CanonicalTables(order, S)
             K == TableKeys(S)
             N == TableNames(S)
         IN /\ Indexed(T, K, N) /\ Apart(K, N)
            /\ \A k \in AllKeys(K) : \A p \in Holders(K, k) : T[p][N[k]] = TableOf(S, p, k)
<1> DEFINE T == CanonicalTables(order, S)
           K == TableKeys(S)
           N == TableNames(S)
<1>1. T = [p \in DOMAIN S |-> [n \in NamesIn(S, p) |-> TableOf(S, p, KeyKept(order, S, p, n))]]
  BY TablesAre
<1>2. DOMAIN K = DOMAIN S
  BY KeysOfItems, TableKeysAre DEF Kinds, Matched
<1>3. \A p : NamesIn(S, p) = {N[k] : k \in Range(K[p])}
  BY DEF NamesIn
<1>4. Indexed(T, K, N)
  <2> HIDE DEF N, K, T
  <2> QED
    BY <1>1, <1>2, <1>3 DEF Indexed
<1>5. Apart(K, N)
  BY DEF Matched, NamesApart, Apart, TableNames
<1>6. ASSUME NEW k \in AllKeys(K), NEW p \in Holders(K, k)
      PROVE  T[p][N[k]] = TableOf(S, p, k)
  <2>1. p \in DOMAIN S /\ k \in Range(K[p])
    BY <1>2 DEF Holders
  <2>2. N[k] \in NamesIn(S, p)
    BY <1>3, <2>1
  <2>3. \A l \in KeysNamed(S, p, N[k]) : l = k
    BY <1>5 DEF KeysNamed, Apart
  <2>4. KeysNamed(S, p, N[k]) # {}
    BY <2>1, <2>2, NameHasKey
  <2>5. Snaps(S)
    BY DEF Matched, Countable
  <2>6. KeyKept(order, S, p, N[k]) = k
    BY <2>3, <2>4, <2>5, KeyKeptIsOne
  <2> HIDE DEF N, K, T
  <2> QED
    BY <1>1, <2>1, <2>2, <2>6
<1> QED
  BY <1>4, <1>5, <1>6

(* A rewritten table has its columns under their canonical names, each with *)
(* its own attributes.                                                      *)
LEMMA ColumnsOfTable ==
  ASSUME NEW S, Matched(S), NEW k \in AllKeys(TableKeys(S)),
         NEW p \in DOMAIN TableAt(S)[k]
  PROVE  LET tab == TableAt(S)[k]
             C == ColumnKeys(ColumnsIn(tab))
             own == CanonicalColumns(C)
             cols == TableOf(S, p, k).columns
         IN /\ ColumnKeysAt(S)[k] = C /\ ColumnNamesAt(S)[k] = own
            /\ DOMAIN cols = {own[x] : x \in Range(C[p])}
            /\ \A c \in tab[p].columns : cols[own[C[p][c]]] = c.attrs
<1> DEFINE tab == TableAt(S)[k]
           C == ColumnKeys(ColumnsIn(tab))
           own == CanonicalColumns(C)
           cols == TableOf(S, p, k).columns
<1>1. ColumnKeysAt(S)[k] = C
  BY DEF ColumnKeysAt, ColumnsIn
<1>2. ColumnNamesAt(S)[k] = own
  BY <1>1 DEF ColumnNamesAt
<1>3. cols = [n \in {own[x] : x \in Range(C[p])} |-> (CHOOSE c \in tab[p].columns : own[C[p][c]] = n).attrs]
  BY <1>1, <1>2 DEF TableOf, CanonicalTable
<1>4. Tabled(tab)
  BY TablesOfKey
<1> HIDE DEF tab
<1>5. OneEach(C) /\ Apart(C, own)
  BY <1>4, ColumnsOneEach, ColumnNamesApart
<1>6. DOMAIN C = DOMAIN tab /\ \A q \in DOMAIN tab : DOMAIN C[q] = tab[q].columns
  BY KeyOfColumn
<1>7. p \in DOMAIN tab
  BY DEF tab
<1> HIDE DEF C, own, cols
<1>8. ASSUME NEW c \in tab[p].columns PROVE cols[own[C[p][c]]] = c.attrs
  <2>1. C[p][c] \in Range(C[p])
    BY <1>6, <1>7, InRange
  <2>2. \A d \in tab[p].columns : C[p][d] \in AllKeys(C)
    BY <1>6, <1>7, KeyOfItem
  <2>3. \A d \in tab[p].columns : own[C[p][d]] = own[C[p][c]] <=> d = c
    BY <1>5, <1>6, <1>7, <2>2 DEF OneEach, Apart
  <2>4. (CHOOSE d \in tab[p].columns : own[C[p][d]] = own[C[p][c]]) = c
    BY <2>3
  <2> QED
    BY <1>3, <2>1, <2>4
<1>9. DOMAIN cols = {own[x] : x \in Range(C[p])}
  BY <1>3
<1> QED
  BY <1>1, <1>2, <1>8, <1>9 DEF tab, C, own, cols

KeyOfTable(S, o) == TableKeys(S)[o[1]][o[2]]
ColsAt(S, k) == ColumnKeys(ColumnsIn(TableAt(S)[k]))
OwnAt(S, k) == CanonicalColumns(ColsAt(S, k))

(* What a table of the snapshots is, seen by its key.                       *)
LEMMA TableObject ==
  ASSUME NEW S, Matched(S), NEW o \in Objects(S, "tables")
  PROVE  LET k == KeyOfTable(S, o)
             tab == TableAt(S)[k]
         IN /\ k \in AllKeys(TableKeys(S))
            /\ o[1] \in DOMAIN S /\ o[2] \in S[o[1]].tables /\ o = <<o[1], o[2]>>
            /\ o[1] \in DOMAIN tab /\ o[2] = tab[o[1]]
            /\ SpelledAs(S, "tables", o[1], o[2]) = TableNames(S)[k]
            /\ Likes(S, "tables", o[1], o[2]) = LikesOf(tab)
<1> DEFINE k == KeyOfTable(S, o)
           tab == TableAt(S)[k]
<1>1. k \in AllKeys(TableKeys(S)) /\ SpelledAs(S, "tables", o[1], o[2]) = TableNames(S)[k]
  BY ObjectHasKey, TableKeysAre DEF Kinds, Matched, KeyOfTable, TableNames
<1>2. o[1] \in DOMAIN S /\ o[2] \in S[o[1]].tables /\ o = <<o[1], o[2]>>
  BY ObjectsAre
<1>3. o[1] \in DOMAIN tab /\ tab[o[1]] = o[2]
  BY <1>2, TableWithKey DEF KeyOfTable
<1>4. Likes(S, "tables", o[1], o[2]) = LikesOf(tab)
  BY LikesOfTable DEF KeyOfTable
<1> HIDE DEF k, tab
<1>5. /\ k \in AllKeys(TableKeys(S))
      /\ o[1] \in DOMAIN S /\ o[2] \in S[o[1]].tables /\ o = <<o[1], o[2]>>
      /\ o[1] \in DOMAIN tab /\ o[2] = tab[o[1]]
      /\ SpelledAs(S, "tables", o[1], o[2]) = TableNames(S)[k]
      /\ Likes(S, "tables", o[1], o[2]) = LikesOf(tab)
  BY <1>1, <1>2, <1>3, <1>4
<1> QED
  BY <1>5 DEF k, tab

(* The table a profile has at a key is an object of the snapshots.          *)
LEMMA ObjectOfTable ==
  ASSUME NEW S, Matched(S), NEW k \in AllKeys(TableKeys(S)), NEW p \in DOMAIN TableAt(S)[k]
  PROVE  LET o == <<p, TableAt(S)[k][p]>>
         IN o \in Objects(S, "tables") /\ KeyOfTable(S, o) = k
<1>1. p \in DOMAIN S /\ TableAt(S)[k][p] \in S[p].tables /\ TableKeys(S)[p][TableAt(S)[k][p]] = k
  BY TablesOfKey
<1> DEFINE t == TableAt(S)[k][p]
<1> HIDE DEF t
<1>2. <<p, t>> \in Objects(S, "tables")
  BY <1>1, ObjectsAre DEF t
<1>3. KeyOfTable(S, <<p, t>>) = k
  BY <1>1 DEF KeyOfTable, t
<1> QED
  BY <1>2, <1>3 DEF t

(* The profiles that have a canonical name are the holders of its key.      *)
LEMMA HavingIsHolding ==
  ASSUME NEW T, NEW K, NEW N, Indexed(T, K, N), Apart(K, N)
  PROVE  \A k \in AllKeys(K) : Having(T, DOMAIN K, N[k]) = Holders(K, k)
<1> SUFFICES ASSUME NEW k \in AllKeys(K)
             PROVE  Having(T, DOMAIN K, N[k]) = Holders(K, k)
  OBVIOUS
<1>1. Having(T, DOMAIN K, N[k]) = Holders(K, k) \cap DOMAIN K
  BY HavingKey
<1>2. Holders(K, k) \subseteq DOMAIN K
  BY HoldersHold
<1> QED
  BY <1>1, <1>2

(* A name is shared when two of the profiles hold its key.                  *)
LEMMA SharedIs ==
  ASSUME NEW T, NEW K, NEW N, Indexed(T, K, N), Apart(K, N), IsFiniteSet(DOMAIN K),
         NEW P \in SUBSET DOMAIN K
  PROVE  /\ \A n \in Shared(T, P) : \E k \in AllKeys(K) : n = N[k]
         /\ \A k \in AllKeys(K) : N[k] \in Shared(T, P) <=> \E p, q \in Holders(K, k) \cap P : p # q
<1>1. \A n : n \in Shared(T, P) <=> n \in Union(T, P) /\ Cardinality(Having(T, P, n)) > 1
  BY DEF Shared
<1>0. ASSUME NEW k \in AllKeys(K)
      PROVE  Having(T, P, N[k]) = Holders(K, k) \cap P
  <2>1. Having(T, DOMAIN K, N[k]) = Holders(K, k)
    BY HavingIsHolding
  <2> QED
    BY <2>1 DEF Having
<1>2. ASSUME NEW k \in AllKeys(K)
      PROVE  Cardinality(Having(T, P, N[k])) > 1 <=> \E p, q \in Holders(K, k) \cap P : p # q
  <2>1. Having(T, P, N[k]) = Holders(K, k) \cap P
    BY <1>0
  <2>2. IsFiniteSet(Holders(K, k) \cap P)
    BY FS_Subset
  <2> QED
    BY <2>1, <2>2, MoreThanOne
<1>3. /\ \A k \in AllKeys(K) : N[k] \in Union(T, P) <=> Holders(K, k) \cap P # {}
      /\ \A n \in Union(T, P) : \E k \in AllKeys(K) : n = N[k]
  BY HavingKey
<1> QED
  BY <1>1, <1>2, <1>3

(* The tables of one key, as the engine sees their columns.                 *)
LEMMA ColumnsAtKey ==
  ASSUME NEW S, Matched(S), NEW order, IsOrder(order, S), NEW k \in AllKeys(TableKeys(S))
  PROVE  LET tab == TableAt(S)[k]
             cols == ColumnsAt(CanonicalTables(order, S), TableNames(S)[k])
             C == ColsAt(S, k)
         IN /\ DOMAIN cols = DOMAIN tab /\ DOMAIN C = DOMAIN tab
            /\ Indexed(cols, C, OwnAt(S, k)) /\ Apart(C, OwnAt(S, k))
            /\ \A p \in DOMAIN tab : \A c \in tab[p].columns : cols[p][OwnAt(S, k)[C[p][c]]] = c.attrs
<1> DEFINE T == CanonicalTables(order, S)
           K == TableKeys(S)
           N == TableNames(S)
           tab == TableAt(S)[k]
           cols == ColumnsAt(T, N[k])
           C == ColsAt(S, k)
           own == OwnAt(S, k)
<1>1. /\ Indexed(T, K, N) /\ Apart(K, N)
      /\ \A p \in Holders(K, k) : T[p][N[k]] = TableOf(S, p, k)
  BY CanonicalTablesAre
<1>2. DOMAIN tab = Holders(K, k) /\ Tabled(tab)
  BY TablesOfKey
<1>3. DOMAIN T = DOMAIN K /\ Holders(K, k) \subseteq DOMAIN K
  BY <1>1, HoldersHold DEF Indexed
<1>4. Having(T, DOMAIN T, N[k]) = Holders(K, k)
  <2>1. Having(T, DOMAIN K, N[k]) = Holders(K, k) \cap DOMAIN K
    BY <1>1, HavingKey
  <2> QED
    BY <1>3, <2>1
<1>5. DOMAIN C = DOMAIN tab /\ Apart(C, own)
  BY <1>2, KeyOfColumn, ColumnNamesApart DEF ColsAt, OwnAt
<1>6. cols = [p \in Holders(K, k) |-> T[p][N[k]].columns]
  BY <1>4 DEF ColumnsAt
<1>7. \A p \in DOMAIN tab : cols[p] = TableOf(S, p, k).columns
  BY <1>1, <1>2, <1>6
<1>8. \A p \in DOMAIN tab : /\ DOMAIN TableOf(S, p, k).columns = {own[x] : x \in Range(C[p])}
                            /\ \A c \in tab[p].columns : TableOf(S, p, k).columns[own[C[p][c]]] = c.attrs
  BY ColumnsOfTable DEF ColsAt, OwnAt
<1>9. DOMAIN cols = DOMAIN tab
  BY <1>2, <1>6
<1> HIDE DEF T, K, N, tab, cols, C, own
<1>10. Indexed(cols, C, own)
  BY <1>5, <1>7, <1>8, <1>9 DEF Indexed
<1>11. \A p \in DOMAIN tab : \A c \in tab[p].columns : cols[p][own[C[p][c]]] = c.attrs
  BY <1>7, <1>8
<1> QED
  BY <1>5, <1>9, <1>10, <1>11 DEF T, N, tab, cols, C, own

(* What the reference says of the columns of a table.                       *)
LEMMA ColumnOfObject ==
  ASSUME NEW S, Matched(S), NEW o \in Objects(S, "tables"), NEW c \in o[2].columns
  PROVE  LET k == KeyOfTable(S, o)
             tab == TableAt(S)[k]
             likes == Likes(S, "tables", o[1], o[2])
             C == ColsAt(S, k)
             x == C[o[1]][c]
         IN /\ x \in AllKeys(C)
            /\ Owners(likes) = DOMAIN tab
            /\ SpelledColumn(likes, c.name) = OwnAt(S, k)[x]
            /\ Owners(HavingColumn(likes, c.name)) = Holders(C, x)
            /\ \A q \in Holders(C, x) : \A d \in ItemsAt(C, x, q) :
                 ColumnOf(likes, CHOOSE u \in likes : u[1] = q, c.name) = d
<1> DEFINE k == KeyOfTable(S, o)
           tab == TableAt(S)[k]
           likes == Likes(S, "tables", o[1], o[2])
           C == ColsAt(S, k)
           x == C[o[1]][c]
           p == o[1]
<1>1. k \in AllKeys(TableKeys(S)) /\ p \in DOMAIN tab /\ o[2] = tab[p] /\ likes = LikesOf(tab)
  BY TableObject
<1>2. Tabled(tab)
  BY <1>1, TablesOfKey
<1>3. C = ColumnKeys(ColumnsIn(tab)) /\ OwnAt(S, k) = CanonicalColumns(C)
  BY DEF ColsAt, OwnAt
<1>4. c \in tab[p].columns
  BY <1>1
<1> HIDE DEF k, tab, likes, p
<1>5. /\ Owners(HavingColumn(LikesOf(tab), c.name)) = Holders(C, C[p][c])
      /\ \A q \in Holders(C, C[p][c]) : \A d \in ItemsAt(C, C[p][c], q) :
           ColumnOf(LikesOf(tab), <<q, tab[q]>>, c.name) = d
      /\ SpelledColumn(LikesOf(tab), c.name) = CanonicalColumns(C)[C[p][c]]
  <2> DEFINE D == ColumnKeys(ColumnsIn(tab))
  <2>1. /\ Owners(HavingColumn(LikesOf(tab), c.name)) = Holders(D, D[p][c])
        /\ \A q \in Holders(D, D[p][c]) : \A d \in ItemsAt(D, D[p][c], q) :
             ColumnOf(LikesOf(tab), <<q, tab[q]>>, c.name) = d
        /\ SpelledColumn(LikesOf(tab), c.name) = CanonicalColumns(D)[D[p][c]]
    <3>1. Tabled(tab) /\ p \in DOMAIN tab /\ c \in tab[p].columns
      BY <1>1, <1>2, <1>4
    <3>2. Owners(HavingColumn(LikesOf(tab), c.name)) = Holders(D, D[p][c])
      BY <3>1, HavingColumnKey
    <3>3. \A q \in Holders(D, D[p][c]) : \A d \in ItemsAt(D, D[p][c], q) :
             ColumnOf(LikesOf(tab), <<q, tab[q]>>, c.name) = d
      BY <3>1, HavingColumnKey
    <3>4. SpelledColumn(LikesOf(tab), c.name) = CanonicalColumns(D)[D[p][c]]
      BY <3>1, HavingColumnKey
    <3> QED
      BY <3>2, <3>3, <3>4
  <2>2. C = D
    BY <1>3
  <2> HIDE DEF C, D
  <2> QED
    BY <2>1, <2>2
<1>6. DOMAIN C = DOMAIN tab /\ \A q \in DOMAIN tab : DOMAIN C[q] = tab[q].columns
  BY <1>3, KeyOfColumn
<1> HIDE DEF C
<1>7. C[p][c] \in AllKeys(C)
  BY <1>1, <1>4, <1>6, KeyOfItem
<1>8. Owners(likes) = DOMAIN tab
  <2>1. \A q \in DOMAIN tab : <<q, tab[q]>> \in likes /\ <<q, tab[q]>>[1] = q
    BY <1>1 DEF LikesOf
  <2>2. \A u \in likes : u[1] \in DOMAIN tab
    BY <1>1 DEF LikesOf
  <2>3. \A q : q \in Owners(likes) <=> \E u \in likes : q = u[1]
    BY DEF Owners
  <2>4. \A q \in DOMAIN tab : q \in Owners(likes)
    BY <2>1, <2>3
  <2>5. \A q \in Owners(likes) : q \in DOMAIN tab
    BY <2>2, <2>3
  <2> QED
    BY <2>4, <2>5
<1>9. \A q \in DOMAIN tab : (CHOOSE u \in likes : u[1] = q) = <<q, tab[q]>>
  <2> TAKE q \in DOMAIN tab
  <2>1. <<q, tab[q]>> \in likes /\ \A u \in likes : u[1] = q => u = <<q, tab[q]>>
    BY <1>1 DEF LikesOf
  <2> QED
    BY <2>1
<1>10. \A q \in Holders(C, C[p][c]) : q \in DOMAIN tab
  BY <1>6 DEF Holders
<1>11. /\ x = C[p][c] /\ x \in AllKeys(C) /\ Owners(likes) = DOMAIN tab
       /\ SpelledColumn(likes, c.name) = OwnAt(S, k)[x]
       /\ Owners(HavingColumn(likes, c.name)) = Holders(C, x)
  BY <1>1, <1>3, <1>5, <1>7, <1>8 DEF p
<1> HIDE DEF x
<1>12. \A q \in Holders(C, x) : \A d \in ItemsAt(C, x, q) :
         ColumnOf(likes, CHOOSE u \in likes : u[1] = q, c.name) = d
  <2> TAKE q \in Holders(C, x)
  <2> TAKE d \in ItemsAt(C, x, q)
  <2>1. (CHOOSE u \in likes : u[1] = q) = <<q, tab[q]>>
    BY <1>9, <1>10, <1>11
  <2>2. ColumnOf(likes, <<q, tab[q]>>, c.name) = d
    BY <1>1, <1>5, <1>11
  <2> QED
    BY <2>1, <2>2
<1> QED
  BY <1>11, <1>12 DEF k, tab, likes, C, x, p
-----------------------------------------------------------------------------------
(* Columns: missing ones, and those that differ.                            *)

(* Findings on a table are of some key, under whose name they are listed.   *)
OnTable(n, g) == [table |-> n, finding |-> g]

(* At one key, the missing columns are those of the objects of that key.    *)
LEMMA MissingColumnsOfKey ==
  ASSUME NEW S, Matched(S), NEW order, IsOrder(order, S), NEW k \in AllKeys(TableKeys(S))
  PROVE  LET cols == ColumnsAt(CanonicalTables(order, S), TableNames(S)[k])
         IN /\ \A g : g \in MissingObjects(cols) <=>
                 \E o \in Objects(S, "tables") :
                   KeyOfTable(S, o) = k /\ g \in ReferenceMissingColumns(S, o)
            /\ MissingObjects(cols) # {} => \E p, q \in DOMAIN TableAt(S)[k] : p # q
<1> DEFINE tab == TableAt(S)[k]
           cols == ColumnsAt(CanonicalTables(order, S), TableNames(S)[k])
           C == ColsAt(S, k)
           own == OwnAt(S, k)
           entry(n, q) == [object |-> n, missing_from_profile |-> q]
<1>1. DOMAIN C = DOMAIN tab /\ Indexed(cols, C, own) /\ Apart(C, own)
  BY ColumnsAtKey
<1>2. \A g : g \in MissingObjects(cols) <=>
        \E x \in AllKeys(C) : \E q \in DOMAIN tab \ Holders(C, x) : g = entry(own[x], q)
  BY <1>1, MissingByKey
<1>3. ASSUME NEW o \in Objects(S, "tables"), KeyOfTable(S, o) = k
      PROVE  \A g : g \in ReferenceMissingColumns(S, o) <=>
               \E c \in o[2].columns : \E q \in DOMAIN tab \ Holders(C, C[o[1]][c]) :
                 g = entry(own[C[o[1]][c]], q)
  <2> DEFINE likes == Likes(S, "tables", o[1], o[2])
  <2>1. \A g : g \in ReferenceMissingColumns(S, o) <=>
          \E c \in o[2].columns : \E q \in Owners(likes) \ Owners(HavingColumn(likes, c.name)) :
            g = entry(SpelledColumn(likes, c.name), q)
    BY DEF ReferenceMissingColumns
  <2> HIDE DEF likes, C, own, tab
  <2>2. \A c \in o[2].columns : /\ Owners(likes) = DOMAIN tab
                                /\ SpelledColumn(likes, c.name) = own[C[o[1]][c]]
                                /\ Owners(HavingColumn(likes, c.name)) = Holders(C, C[o[1]][c])
    BY <1>3, ColumnOfObject DEF likes, C, own, tab
  <2> HIDE DEF entry
  <2> QED
    BY <2>1, <2>2
<1>4. ASSUME NEW x \in AllKeys(C)
      PROVE  \E o \in Objects(S, "tables") : KeyOfTable(S, o) = k /\ \E c \in o[2].columns : C[o[1]][c] = x
  <2>1. PICK p \in DOMAIN tab : \E c \in DOMAIN C[p] : C[p][c] = x
    BY <1>1, KeyOfItem
  <2>2. DOMAIN C[p] = tab[p].columns
    BY <2>1, KeyOfColumn DEF ColsAt
  <2>3. <<p, tab[p]>> \in Objects(S, "tables") /\ KeyOfTable(S, <<p, tab[p]>>) = k
    BY <2>1, ObjectOfTable
  <2> HIDE DEF tab, C
  <2>4. <<p, tab[p]>>[1] = p /\ <<p, tab[p]>>[2] = tab[p]
    OBVIOUS
  <2> QED
    BY <2>1, <2>2, <2>3, <2>4
<1>5. ASSUME NEW o \in Objects(S, "tables"), KeyOfTable(S, o) = k, NEW c \in o[2].columns
      PROVE  C[o[1]][c] \in AllKeys(C)
  BY <1>5, ColumnOfObject
<1>6. ASSUME NEW x \in AllKeys(C), NEW q \in DOMAIN tab \ Holders(C, x)
      PROVE  \E p, r \in DOMAIN tab : p # r
  <2>1. PICK p : p \in Holders(C, x)
    BY HoldersHold
  <2>2. p \in DOMAIN tab /\ p # q
    BY <1>1, <2>1, HoldersHold
  <2> QED
    BY <2>2
<1> HIDE DEF tab, cols, C, own, entry
<1>7. \A g : g \in MissingObjects(cols) <=>
        \E o \in Objects(S, "tables") : KeyOfTable(S, o) = k /\ g \in ReferenceMissingColumns(S, o)
  <2> TAKE g
  <2>1. ASSUME NEW x \in AllKeys(C), NEW q \in DOMAIN tab \ Holders(C, x), g = entry(own[x], q)
        PROVE  \E o \in Objects(S, "tables") : KeyOfTable(S, o) = k /\ g \in ReferenceMissingColumns(S, o)
    BY <1>3, <1>4, <2>1
  <2>2. ASSUME NEW o \in Objects(S, "tables"), KeyOfTable(S, o) = k, g \in ReferenceMissingColumns(S, o)
        PROVE  \E x \in AllKeys(C) : \E q \in DOMAIN tab \ Holders(C, x) : g = entry(own[x], q)
    BY <1>3, <1>5, <2>2
  <2> QED
    BY <1>2, <2>1, <2>2
<1>8. MissingObjects(cols) # {} => \E p, q \in DOMAIN tab : p # q
  BY <1>2, <1>6
<1> QED
  BY <1>7, <1>8 DEF cols, tab

(* A relation per table of the reference that holds per key of the engine.  *)
LEMMA SharedTables ==
  ASSUME NEW S, Matched(S), NEW order, IsOrder(order, S)
  PROVE  LET T == CanonicalTables(order, S)
             N == TableNames(S)
         IN /\ DOMAIN T = DOMAIN S
            /\ \A P \in SUBSET DOMAIN S :
                 /\ \A n \in Shared(T, P) : \E k \in AllKeys(TableKeys(S)) : n = N[k]
                 /\ \A k \in AllKeys(TableKeys(S)) :
                      N[k] \in Shared(T, P) <=> \E p, q \in DOMAIN TableAt(S)[k] \cap P : p # q
<1> DEFINE T == CanonicalTables(order, S)
           K == TableKeys(S)
           N == TableNames(S)
<1>1. Indexed(T, K, N) /\ Apart(K, N)
  BY CanonicalTablesAre
<1>2. DOMAIN K = DOMAIN S
  BY KeysOfItems, TableKeysAre DEF Kinds, Matched
<1>3. IsFiniteSet(DOMAIN K)
  BY <1>2 DEF Matched, Countable
<1>4. DOMAIN T = DOMAIN S
  BY <1>1, <1>2 DEF Indexed
<1>5. \A k \in AllKeys(K) : DOMAIN TableAt(S)[k] = Holders(K, k)
  BY TablesOfKey
<1> HIDE DEF T, K, N
<1>6. ASSUME NEW P \in SUBSET DOMAIN S
      PROVE  /\ \A n \in Shared(T, P) : \E k \in AllKeys(K) : n = N[k]
             /\ \A k \in AllKeys(K) :
                  N[k] \in Shared(T, P) <=> \E p, q \in DOMAIN TableAt(S)[k] \cap P : p # q
  <2>1. P \in SUBSET DOMAIN K
    BY <1>2
  <2>2. /\ \A n \in Shared(T, P) : \E k \in AllKeys(K) : n = N[k]
        /\ \A k \in AllKeys(K) : N[k] \in Shared(T, P) <=> \E p, q \in Holders(K, k) \cap P : p # q
    BY <1>1, <1>3, <2>1, SharedIs
  <2> QED
    BY <1>5, <2>2
<1> QED
  BY <1>4, <1>6 DEF T, K, N

(* MissingColumns() finds the columns the reference finds missing.          *)
LEMMA MissingColumnsAre ==
  ASSUME NEW S, Matched(S), NEW order, IsOrder(order, S)
  PROVE  MissingColumns(CanonicalTables(order, S)) = OnTables(S, ReferenceMissingColumns)
<1> DEFINE T == CanonicalTables(order, S)
           K == TableKeys(S)
           N == TableNames(S)
           found(n) == MissingObjects(ColumnsAt(T, n))
<1>1. \A f : f \in MissingColumns(T) <=> \E n \in Shared(T, DOMAIN T) : \E g \in found(n) : f = OnTable(n, g)
  BY DEF MissingColumns, ByTable, OnTable
<1>2. \A f : f \in OnTables(S, ReferenceMissingColumns) <=>
        \E o \in Objects(S, "tables") : \E g \in ReferenceMissingColumns(S, o) :
          f = OnTable(SpelledAs(S, "tables", o[1], o[2]), g)
  BY DEF OnTables, ByTable, OnTable
<1>3. \A o \in Objects(S, "tables") :
        KeyOfTable(S, o) \in AllKeys(K) /\ SpelledAs(S, "tables", o[1], o[2]) = N[KeyOfTable(S, o)]
  BY TableObject
<1>4. /\ \A n \in Shared(T, DOMAIN T) : \E k \in AllKeys(K) : n = N[k]
      /\ \A k \in AllKeys(K) : N[k] \in Shared(T, DOMAIN T) <=> \E p, q \in DOMAIN TableAt(S)[k] : p # q
  <2>1. DOMAIN T = DOMAIN S /\ DOMAIN T \in SUBSET DOMAIN S
    BY SharedTables
  <2>2. \A k \in AllKeys(K) : DOMAIN TableAt(S)[k] \subseteq DOMAIN S
    BY TablesOfKey
  <2>3. /\ \A n \in Shared(T, DOMAIN T) : \E k \in AllKeys(K) : n = N[k]
        /\ \A k \in AllKeys(K) :
             N[k] \in Shared(T, DOMAIN T) <=> \E p, q \in DOMAIN TableAt(S)[k] \cap DOMAIN T : p # q
    BY <2>1, SharedTables
  <2> QED
    BY <2>1, <2>2, <2>3
<1>5. \A k \in AllKeys(K) :
        /\ \A g : g \in found(N[k]) <=>
             \E o \in Objects(S, "tables") : KeyOfTable(S, o) = k /\ g \in ReferenceMissingColumns(S, o)
        /\ found(N[k]) # {} => \E p, q \in DOMAIN TableAt(S)[k] : p # q
  BY MissingColumnsOfKey
<1> HIDE DEF T, K, N, found
<1>6. ASSUME NEW f \in MissingColumns(T) PROVE f \in OnTables(S, ReferenceMissingColumns)
  <2>1. PICK n \in Shared(T, DOMAIN T) : \E g \in found(n) : f = OnTable(n, g)
    BY <1>1
  <2>2. PICK g \in found(n) : f = OnTable(n, g)
    BY <2>1
  <2>3. PICK k \in AllKeys(K) : n = N[k]
    BY <1>4
  <2>4. PICK o \in Objects(S, "tables") : KeyOfTable(S, o) = k /\ g \in ReferenceMissingColumns(S, o)
    BY <1>5, <2>2, <2>3
  <2> QED
    BY <1>2, <1>3, <2>2, <2>3, <2>4
<1>7. ASSUME NEW f \in OnTables(S, ReferenceMissingColumns) PROVE f \in MissingColumns(T)
  <2>1. PICK o \in Objects(S, "tables") : \E g \in ReferenceMissingColumns(S, o) :
          f = OnTable(SpelledAs(S, "tables", o[1], o[2]), g)
    BY <1>2
  <2>2. PICK g \in ReferenceMissingColumns(S, o) : f = OnTable(SpelledAs(S, "tables", o[1], o[2]), g)
    BY <2>1
  <2> DEFINE k == KeyOfTable(S, o)
  <2>3. k \in AllKeys(K) /\ f = OnTable(N[k], g)
    BY <1>3, <2>2
  <2>4. g \in found(N[k])
    BY <1>5, <2>3
  <2>5. N[k] \in Shared(T, DOMAIN T)
    BY <1>4, <1>5, <2>3, <2>4
  <2> HIDE DEF k
  <2> QED
    BY <1>1, <2>3, <2>4, <2>5
<1> QED
  BY <1>6, <1>7 DEF T

ColumnValues(S, o, n) ==
  LET likes == Likes(S, "tables", o[1], o[2])
  IN [p \in Owners(HavingColumn(likes, n)) |->
        ColumnOf(likes, CHOOSE u \in likes : u[1] = p, n).attrs]

(* The values of a column by pairs are those of its key.                    *)
LEMMA ValuesOfColumn ==
  ASSUME NEW S, Matched(S), NEW order, IsOrder(order, S),
         NEW o \in Objects(S, "tables"), NEW c \in o[2].columns
  PROVE  LET k == KeyOfTable(S, o)
             cols == ColumnsAt(CanonicalTables(order, S), TableNames(S)[k])
             C == ColsAt(S, k)
             x == C[o[1]][c]
         IN ColumnValues(S, o, c.name) = [p \in Holders(C, x) |-> cols[p][OwnAt(S, k)[x]]]
<1> DEFINE k == KeyOfTable(S, o)
           tab == TableAt(S)[k]
           cols == ColumnsAt(CanonicalTables(order, S), TableNames(S)[k])
           C == ColsAt(S, k)
           own == OwnAt(S, k)
           x == C[o[1]][c]
           likes == Likes(S, "tables", o[1], o[2])
           value(p) == ColumnOf(likes, CHOOSE u \in likes : u[1] = p, c.name)
<1>1. k \in AllKeys(TableKeys(S))
  BY TableObject
<1>2. /\ Owners(HavingColumn(likes, c.name)) = Holders(C, x)
      /\ \A q \in Holders(C, x) : \A d \in ItemsAt(C, x, q) : value(q) = d
  BY ColumnOfObject
<1>3. DOMAIN C = DOMAIN tab /\ \A p \in DOMAIN tab : \A c_1 \in tab[p].columns : cols[p][own[C[p][c_1]]] = c_1.attrs
  BY <1>1, ColumnsAtKey
<1>4. \A p \in DOMAIN tab : DOMAIN C[p] = tab[p].columns
  BY KeyOfColumn DEF ColsAt
<1>5. ColumnValues(S, o, c.name) = [p \in Owners(HavingColumn(likes, c.name)) |-> value(p).attrs]
  BY DEF ColumnValues
<1> HIDE DEF k, tab, cols, C, own, x, likes, value
<1>6. ASSUME NEW p \in Holders(C, x) PROVE value(p).attrs = cols[p][own[x]]
  <2>1. p \in DOMAIN tab /\ \E d \in DOMAIN C[p] : C[p][d] = x
    BY <1>3, HoldersHold
  <2>2. PICK d \in DOMAIN C[p] : C[p][d] = x
    BY <2>1
  <2>3. d \in ItemsAt(C, x, p) /\ d \in tab[p].columns
    BY <1>4, <2>1, <2>2 DEF ItemsAt
  <2>4. value(p) = d
    BY <1>2, <2>3
  <2> QED
    BY <1>3, <2>1, <2>2, <2>3, <2>4
<1>7. ColumnValues(S, o, c.name) = [p \in Holders(C, x) |-> cols[p][own[x]]]
  BY <1>2, <1>5, <1>6
<1> QED
  BY <1>7 DEF k, cols, C, own, x

VariesAs(S, o, n, g) ==
  LET V == ColumnValues(S, o, n)
  IN /\ \E p, q \in DOMAIN V : V[p] # V[q]
     /\ g = [object |-> SpelledColumn(Likes(S, "tables", o[1], o[2]), n), values_by_profile |-> V]

(* A column mismatch of the reference is a column whose values vary.        *)
LEMMA ReferenceColumnsVary ==
  ASSUME NEW S, NEW o, NEW g
  PROVE  g \in ReferenceColumns(S, o) <=> \E c \in o[2].columns : VariesAs(S, o, c.name, g)
<1> DEFINE likes == Likes(S, "tables", o[1], o[2])
           W(n) == [p \in Owners(HavingColumn(likes, n)) |->
                      ColumnOf(likes, CHOOSE u \in likes : u[1] = p, n).attrs]
           entry(n) == [object |-> SpelledColumn(likes, n), values_by_profile |-> W(n)]
           varies(n) == \E p, q \in DOMAIN W(n) : W(n)[p] # W(n)[q]
<1>1. ReferenceColumns(S, o) = {entry(c.name) : c \in {c \in o[2].columns : varies(c.name)}}
  BY Zenon DEF ReferenceColumns
<1>2. ASSUME NEW n PROVE VariesAs(S, o, n, g) <=> varies(n) /\ g = entry(n)
  BY Zenon DEF VariesAs, ColumnValues
<1> HIDE DEF entry, varies
<1> QED
  BY <1>1, <1>2

(* At one key, the column mismatches are those of the objects of that key.  *)
LEMMA MismatchesOfKey ==
  ASSUME NEW S, Matched(S), NEW order, IsOrder(order, S), NEW k \in AllKeys(TableKeys(S))
  PROVE  LET cols == ColumnsAt(CanonicalTables(order, S), TableNames(S)[k])
         IN /\ \A g : g \in Mismatches(cols, DOMAIN cols) <=>
                 \E o \in Objects(S, "tables") :
                   KeyOfTable(S, o) = k /\ g \in ReferenceColumns(S, o)
            /\ Mismatches(cols, DOMAIN cols) # {} => \E p, q \in DOMAIN TableAt(S)[k] : p # q
<1> DEFINE tab == TableAt(S)[k]
           cols == ColumnsAt(CanonicalTables(order, S), TableNames(S)[k])
           C == ColsAt(S, k)
           own == OwnAt(S, k)
           valuesOf(x) == [p \in Holders(C, x) |-> cols[p][own[x]]]
           entry(n, v) == [object |-> n, values_by_profile |-> v]
           varies(x) == \E p, q \in Holders(C, x) : valuesOf(x)[p] # valuesOf(x)[q]
<1>1. DOMAIN C = DOMAIN tab /\ Indexed(cols, C, own) /\ Apart(C, own)
  BY ColumnsAtKey
<1>2. IsFiniteSet(DOMAIN tab)
  BY TablesOfKey DEF Tabled
<1>3. \A g : g \in Mismatches(cols, DOMAIN cols) <=> \E x \in AllKeys(C) : g = entry(own[x], valuesOf(x)) /\ Differ(valuesOf(x))
  BY <1>1, MismatchesByKey
<1>4. ASSUME NEW x \in AllKeys(C) PROVE Differ(valuesOf(x)) <=> varies(x)
  <2>1. IsFiniteSet(Holders(C, x))
    BY <1>1, <1>2, HoldersHold, FS_Subset
  <2>2. DOMAIN valuesOf(x) = Holders(C, x)
    OBVIOUS
  <2> HIDE DEF valuesOf
  <2> QED
    BY <2>1, <2>2, DifferIs
<1>5. ASSUME NEW o \in Objects(S, "tables"), KeyOfTable(S, o) = k
      PROVE  \A g : g \in ReferenceColumns(S, o) <=>
               \E c \in o[2].columns : varies(C[o[1]][c]) /\ g = entry(own[C[o[1]][c]], valuesOf(C[o[1]][c]))
  <2>1. \A g : g \in ReferenceColumns(S, o) <=>
          \E c \in o[2].columns : VariesAs(S, o, c.name, g)
    BY ReferenceColumnsVary
  <2>2. ASSUME NEW c \in o[2].columns, NEW g
        PROVE  VariesAs(S, o, c.name, g) <=> varies(C[o[1]][c]) /\ g = entry(own[C[o[1]][c]], valuesOf(C[o[1]][c]))
    <3> DEFINE x == C[o[1]][c]
               V == ColumnValues(S, o, c.name)
               s == SpelledColumn(Likes(S, "tables", o[1], o[2]), c.name)
    <3>1. s = own[x]
      BY <1>5, ColumnOfObject
    <3>2. V = valuesOf(x)
      <4> DEFINE l == KeyOfTable(S, o)
                 z == ColsAt(S, l)[o[1]][c]
      <4>1. V = [p \in Holders(ColsAt(S, l), z) |->
                   ColumnsAt(CanonicalTables(order, S), TableNames(S)[l])[p][OwnAt(S, l)[z]]]
        BY ValuesOfColumn
      <4>2. l = k
        BY <1>5
      <4> QED
        BY <4>1, <4>2
    <3>3. DOMAIN valuesOf(x) = Holders(C, x)
      OBVIOUS
    <3>4. VariesAs(S, o, c.name, g) <=> (\E p, q \in DOMAIN V : V[p] # V[q]) /\ g = entry(s, V)
      BY DEF VariesAs
    <3>5. varies(x) <=> \E p, q \in DOMAIN valuesOf(x) : valuesOf(x)[p] # valuesOf(x)[q]
      BY <3>3
    <3> HIDE DEF x, V, s, valuesOf, varies, entry, own
    <3>6. VariesAs(S, o, c.name, g) <=> varies(x) /\ g = entry(own[x], valuesOf(x))
      BY <3>1, <3>2, <3>4, <3>5
    <3> QED
      BY <3>6 DEF x
  <2> HIDE DEF varies, valuesOf, entry, own, C, tab
  <2> QED
    BY <2>1, <2>2
<1>6. ASSUME NEW x \in AllKeys(C)
      PROVE  \E o \in Objects(S, "tables") : KeyOfTable(S, o) = k /\ \E c \in o[2].columns : C[o[1]][c] = x
  <2>1. PICK p \in DOMAIN tab : \E c \in DOMAIN C[p] : C[p][c] = x
    BY <1>1, KeyOfItem
  <2>2. DOMAIN C[p] = tab[p].columns
    BY <2>1, KeyOfColumn DEF ColsAt
  <2>3. <<p, tab[p]>> \in Objects(S, "tables") /\ KeyOfTable(S, <<p, tab[p]>>) = k
    BY <2>1, ObjectOfTable
  <2> HIDE DEF tab, C
  <2>4. <<p, tab[p]>>[1] = p /\ <<p, tab[p]>>[2] = tab[p]
    OBVIOUS
  <2> QED
    BY <2>1, <2>2, <2>3, <2>4
<1>7. ASSUME NEW o \in Objects(S, "tables"), KeyOfTable(S, o) = k, NEW c \in o[2].columns
      PROVE  C[o[1]][c] \in AllKeys(C)
  BY <1>7, ColumnOfObject
<1>8. ASSUME NEW x \in AllKeys(C), varies(x)
      PROVE  \E p, q \in DOMAIN tab : p # q
  BY <1>1, <1>8, HoldersHold
<1> HIDE DEF tab, cols, C, own, entry, valuesOf, varies
<1>9. \A g : g \in Mismatches(cols, DOMAIN cols) <=>
        \E o \in Objects(S, "tables") : KeyOfTable(S, o) = k /\ g \in ReferenceColumns(S, o)
  <2> TAKE g
  <2>1. ASSUME NEW x \in AllKeys(C), g = entry(own[x], valuesOf(x)), varies(x)
        PROVE  \E o \in Objects(S, "tables") : KeyOfTable(S, o) = k /\ g \in ReferenceColumns(S, o)
    BY <1>5, <1>6, <2>1
  <2>2. ASSUME NEW o \in Objects(S, "tables"), KeyOfTable(S, o) = k, g \in ReferenceColumns(S, o)
        PROVE  \E x \in AllKeys(C) : g = entry(own[x], valuesOf(x)) /\ varies(x)
    BY <1>5, <1>7, <2>2
  <2> QED
    BY <1>3, <1>4, <2>1, <2>2
<1>10. Mismatches(cols, DOMAIN cols) # {} => \E p, q \in DOMAIN tab : p # q
  BY <1>3, <1>4, <1>8
<1> QED
  BY <1>9, <1>10 DEF cols, tab

(* ColumnMismatches() finds the columns whose definitions differ, with every*)
(* value.                                                                   *)
LEMMA ColumnMismatchesAre ==
  ASSUME NEW S, Matched(S), NEW order, IsOrder(order, S)
  PROVE  ColumnMismatches(CanonicalTables(order, S)) = OnTables(S, ReferenceColumns)
<1> DEFINE T == CanonicalTables(order, S)
           K == TableKeys(S)
           N == TableNames(S)
           found(n) == Mismatches(ColumnsAt(T, n), DOMAIN ColumnsAt(T, n))
<1>1. \A f : f \in ColumnMismatches(T) <=> \E n \in Shared(T, DOMAIN T) : \E g \in found(n) : f = OnTable(n, g)
  BY DEF ColumnMismatches, ByTable, OnTable
<1>2. \A f : f \in OnTables(S, ReferenceColumns) <=>
        \E o \in Objects(S, "tables") : \E g \in ReferenceColumns(S, o) :
          f = OnTable(SpelledAs(S, "tables", o[1], o[2]), g)
  BY DEF OnTables, ByTable, OnTable
<1>3. \A o \in Objects(S, "tables") :
        KeyOfTable(S, o) \in AllKeys(K) /\ SpelledAs(S, "tables", o[1], o[2]) = N[KeyOfTable(S, o)]
  BY TableObject
<1>4. /\ \A n \in Shared(T, DOMAIN T) : \E k \in AllKeys(K) : n = N[k]
      /\ \A k \in AllKeys(K) : N[k] \in Shared(T, DOMAIN T) <=> \E p, q \in DOMAIN TableAt(S)[k] : p # q
  <2>1. DOMAIN T = DOMAIN S /\ DOMAIN T \in SUBSET DOMAIN S
    BY SharedTables
  <2>2. \A k \in AllKeys(K) : DOMAIN TableAt(S)[k] \subseteq DOMAIN S
    BY TablesOfKey
  <2>3. /\ \A n \in Shared(T, DOMAIN T) : \E k \in AllKeys(K) : n = N[k]
        /\ \A k \in AllKeys(K) :
             N[k] \in Shared(T, DOMAIN T) <=> \E p, q \in DOMAIN TableAt(S)[k] \cap DOMAIN T : p # q
    BY <2>1, SharedTables
  <2> QED
    BY <2>1, <2>2, <2>3
<1>5. \A k \in AllKeys(K) :
        /\ \A g : g \in found(N[k]) <=>
             \E o \in Objects(S, "tables") : KeyOfTable(S, o) = k /\ g \in ReferenceColumns(S, o)
        /\ found(N[k]) # {} => \E p, q \in DOMAIN TableAt(S)[k] : p # q
  BY MismatchesOfKey
<1> HIDE DEF T, K, N, found
<1>6. ASSUME NEW f \in ColumnMismatches(T) PROVE f \in OnTables(S, ReferenceColumns)
  <2>1. PICK n \in Shared(T, DOMAIN T) : \E g \in found(n) : f = OnTable(n, g)
    BY <1>1
  <2>2. PICK g \in found(n) : f = OnTable(n, g)
    BY <2>1
  <2>3. PICK k \in AllKeys(K) : n = N[k]
    BY <1>4
  <2>4. PICK o \in Objects(S, "tables") : KeyOfTable(S, o) = k /\ g \in ReferenceColumns(S, o)
    BY <1>5, <2>2, <2>3
  <2> QED
    BY <1>2, <1>3, <2>2, <2>3, <2>4
<1>7. ASSUME NEW f \in OnTables(S, ReferenceColumns) PROVE f \in ColumnMismatches(T)
  <2>1. PICK o \in Objects(S, "tables") : \E g \in ReferenceColumns(S, o) :
          f = OnTable(SpelledAs(S, "tables", o[1], o[2]), g)
    BY <1>2
  <2>2. PICK g \in ReferenceColumns(S, o) : f = OnTable(SpelledAs(S, "tables", o[1], o[2]), g)
    BY <2>1
  <2> DEFINE k == KeyOfTable(S, o)
  <2>3. k \in AllKeys(K) /\ f = OnTable(N[k], g)
    BY <1>3, <2>2
  <2>4. g \in found(N[k])
    BY <1>5, <2>3
  <2>5. N[k] \in Shared(T, DOMAIN T)
    BY <1>4, <1>5, <2>3, <2>4
  <2> HIDE DEF k
  <2> QED
    BY <1>1, <2>3, <2>4, <2>5
<1> QED
  BY <1>6, <1>7 DEF T
-----------------------------------------------------------------------------------
(* Parts of tables: primary keys, indexes and foreign keys.                 *)

(* Two lists of columns are the same by pairs exactly when they are         *)
(* rewritten to one.                                                        *)
LEMMA SameColumnsAre ==
  ASSUME NEW tab, Tabled(tab), NEW ms \in Seq(Names), NEW ns \in Seq(Names)
  PROVE  LET N == CanonicalColumns(ColumnKeys(ColumnsIn(tab)))
         IN SameColumns(LikesOf(tab), ms, ns) <=> ColumnNames(N, ms) = ColumnNames(N, ns)
<1> DEFINE N == CanonicalColumns(ColumnKeys(ColumnsIn(tab)))
           L == LikesOf(tab)
<1>1. \A m, n : SameColumn(L, m, n) <=> ColumnName(N, m) = ColumnName(N, n)
  BY SameColumnIsSameName
<1> HIDE DEF N, L
<1>2. /\ ColumnNames(N, ms) = [i \in 1 .. Len(ms) |-> ColumnName(N, ms[i])]
      /\ ColumnNames(N, ns) = [i \in 1 .. Len(ns) |-> ColumnName(N, ns[i])]
  BY DEF ColumnNames
<1>3. SameColumns(L, ms, ns) <=>
        Len(ms) = Len(ns) /\ \A i \in 1 .. Len(ms) : ColumnName(N, ms[i]) = ColumnName(N, ns[i])
  BY <1>1 DEF SameColumns
<1>4. ASSUME Len(ms) = Len(ns)
      PROVE  SameColumns(L, ms, ns) <=> ColumnNames(N, ms) = ColumnNames(N, ns)
  <2> DEFINE I == 1 .. Len(ms)
             F == [i \in I |-> ColumnName(N, ms[i])]
             G == [i \in I |-> ColumnName(N, ns[i])]
  <2>1. ColumnNames(N, ms) = F /\ ColumnNames(N, ns) = G
    BY <1>2, <1>4
  <2>2. (\A i \in I : ColumnName(N, ms[i]) = ColumnName(N, ns[i])) <=> F = G
    <3> HIDE DEF I
    <3>1. (\A i \in I : ColumnName(N, ms[i]) = ColumnName(N, ns[i])) => F = G
      OBVIOUS
    <3>2. ASSUME F = G, NEW i \in I PROVE ColumnName(N, ms[i]) = ColumnName(N, ns[i])
      <4>1. F[i] = G[i]
        BY <3>2
      <4> QED
        BY <4>1
    <3> QED
      BY <3>1, <3>2
  <2> HIDE DEF F, G
  <2> QED
    BY <1>3, <1>4, <2>1, <2>2
<1>5. ASSUME Len(ms) # Len(ns)
      PROVE  SameColumns(L, ms, ns) <=> ColumnNames(N, ms) = ColumnNames(N, ns)
  <2>1. Len(ms) \in Nat /\ Len(ns) \in Nat
    OBVIOUS
  <2>2. 1 .. Len(ms) # 1 .. Len(ns)
    BY <1>5, <2>1
  <2>3. DOMAIN ColumnNames(N, ms) # DOMAIN ColumnNames(N, ns)
    BY <1>2, <2>2
  <2>4. ColumnNames(N, ms) # ColumnNames(N, ns)
    BY <2>3, Zenon
  <2>5. ~SameColumns(L, ms, ns)
    BY <1>3, <1>5, Zenon
  <2> QED
    BY <2>4, <2>5
<1> QED
  BY <1>4, <1>5 DEF N, L

AtMostOne(P) == \A k, l \in P : k = l

Image(F, P) == {F[k] : k \in P}

(* Rewriting two sets of at most one element tells them apart when one is   *)
(* empty or the elements are rewritten apart.                               *)
LEMMA ImagesApart ==
  ASSUME NEW P, AtMostOne(P), NEW Q, AtMostOne(Q), NEW F, NEW G
  PROVE  Image(F, P) # Image(G, Q) <=> \/ (P = {}) # (Q = {})
                                       \/ \E k \in P, l \in Q : F[k] # G[l]
<1>1. CASE P = {} \/ Q = {}
  BY <1>1 DEF Image
<1>2. CASE P # {} /\ Q # {}
  <2>1. PICK k \in P : TRUE
    BY <1>2
  <2>2. PICK l \in Q : TRUE
    BY <1>2
  <2>3. P = {k} /\ Q = {l}
    BY <2>1, <2>2 DEF AtMostOne
  <2> QED
    BY <2>3 DEF Image
<1> QED
  BY <1>1, <1>2

IsPrimaryKey(k) == k = [name |-> k.name, columns |-> k.columns] /\ k.columns \in Seq(Names)
IsIndex(i) ==
  /\ i = [name |-> i.name, columns |-> i.columns, included |-> i.included, unique |-> i.unique]
  /\ i.columns \in Seq(Names) /\ i.included \in Seq(Names)
IsReference(f) ==
  /\ IsForeignKey(f) /\ f.columns \in Seq(Names) /\ f.rcolumns \in Seq(Names)
  /\ f.rschema \in Names /\ f.rtable \in Names
Parted(S) ==
  /\ \A p \in DOMAIN S : S[p].keyed => S[p].default = {}
  /\ \A p \in DOMAIN S : \A t \in S[p].tables :
       /\ AtMostOne(t.primary) /\ \A k \in t.primary : IsPrimaryKey(k)
       /\ \A c : AtMostOne(ByName(t.indexes, c)) /\ AtMostOne(ByName(t.foreign, c))
       /\ \A i \in t.indexes : IsIndex(i)
       /\ \A f \in t.foreign : IsReference(f)
Keyed(S) == {p \in DOMAIN S : S[p].keyed}

RenamedPrimary(own, k) == [k EXCEPT !.columns = ColumnNames(own, @)]

(* Two primary keys are the same by pairs exactly when they are rewritten to*)
(* one.                                                                     *)
LEMMA PrimaryAlike ==
  ASSUME NEW tab, Tabled(tab), NEW k, NEW l, IsPrimaryKey(k), IsPrimaryKey(l)
  PROVE  LET own == CanonicalColumns(ColumnKeys(ColumnsIn(tab)))
         IN SamePrimary(LikesOf(tab), k, l) <=> RenamedPrimary(own, k) = RenamedPrimary(own, l)
<1> DEFINE own == CanonicalColumns(ColumnKeys(ColumnsIn(tab)))
<1>1. k.columns \in Seq(Names) /\ l.columns \in Seq(Names)
  BY DEF IsPrimaryKey
<1>2. SameColumns(LikesOf(tab), k.columns, l.columns) <=>
        ColumnNames(own, k.columns) = ColumnNames(own, l.columns)
  BY <1>1, SameColumnsAre
<1> HIDE DEF own
<1>3. \A j \in {k, l} : RenamedPrimary(own, j) = [name |-> j.name, columns |-> ColumnNames(own, j.columns)]
  BY DEF RenamedPrimary, IsPrimaryKey
<1> QED
  BY <1>2, <1>3 DEF SamePrimary, own

(* What an index is rewritten to.                                           *)
LEMMA RenamedIndex ==
  ASSUME NEW own, NEW i, IsIndex(i)
  PROVE  Index(own, i) = [name |-> i.name, columns |-> ColumnNames(own, i.columns),
                          included |-> ColumnNames(own, i.included), unique |-> i.unique]
<1> DEFINE r == [name |-> i.name, columns |-> i.columns, included |-> i.included, unique |-> i.unique]
<1>1. i = r
  BY DEF IsIndex
<1>2. Index(own, i) = [i EXCEPT !.columns = ColumnNames(own, i.columns),
                                !.included = ColumnNames(own, i.included)]
  BY DEF Index
<1>3. [r EXCEPT !.columns = ColumnNames(own, i.columns), !.included = ColumnNames(own, i.included)] =
        [name |-> i.name, columns |-> ColumnNames(own, i.columns),
         included |-> ColumnNames(own, i.included), unique |-> i.unique]
  <2> DEFINE u == [r EXCEPT !.columns = ColumnNames(own, i.columns)]
  <2>1. u = [name |-> i.name, columns |-> ColumnNames(own, i.columns),
             included |-> i.included, unique |-> i.unique]
    OBVIOUS
  <2>2. [r EXCEPT !.columns = ColumnNames(own, i.columns), !.included = ColumnNames(own, i.included)] =
          [u EXCEPT !.included = ColumnNames(own, i.included)]
    OBVIOUS
  <2> HIDE DEF u
  <2>3. [u EXCEPT !.included = ColumnNames(own, i.included)] =
          [name |-> i.name, columns |-> ColumnNames(own, i.columns),
           included |-> ColumnNames(own, i.included), unique |-> i.unique]
    BY <2>1
  <2> QED
    BY <2>2, <2>3
<1> HIDE DEF r
<1> QED
  BY <1>1, <1>2, <1>3

(* Two indexes of one name are the same by pairs exactly when they are      *)
(* rewritten to one.                                                        *)
LEMMA IndexAlike ==
  ASSUME NEW tab, Tabled(tab), NEW i, NEW j, IsIndex(i), IsIndex(j), i.name = j.name
  PROVE  LET own == CanonicalColumns(ColumnKeys(ColumnsIn(tab)))
         IN SameIndex(LikesOf(tab), i, j) <=> Index(own, i) = Index(own, j)
<1> DEFINE own == CanonicalColumns(ColumnKeys(ColumnsIn(tab)))
<1>1. /\ i.columns \in Seq(Names) /\ j.columns \in Seq(Names)
      /\ i.included \in Seq(Names) /\ j.included \in Seq(Names)
  BY DEF IsIndex
<1>2. SameColumns(LikesOf(tab), i.columns, j.columns) <=>
        ColumnNames(own, i.columns) = ColumnNames(own, j.columns)
  BY <1>1, SameColumnsAre
<1>3. SameColumns(LikesOf(tab), i.included, j.included) <=>
        ColumnNames(own, i.included) = ColumnNames(own, j.included)
  BY <1>1, SameColumnsAre
<1> HIDE DEF own
<1>4. \A x \in {i, j} :
        Index(own, x) = [name |-> x.name, columns |-> ColumnNames(own, x.columns),
                         included |-> ColumnNames(own, x.included), unique |-> x.unique]
  BY RenamedIndex
<1> QED
  BY <1>2, <1>3, <1>4 DEF SameIndex, own

(* A rewritten table has the rewritten keys and indexes of its own.         *)
LEMMA PartsOfTable ==
  ASSUME NEW S, Matched(S), NEW k \in AllKeys(TableKeys(S)), NEW p \in DOMAIN TableAt(S)[k]
  PROVE  LET t == TableAt(S)[k][p]
             own == OwnAt(S, k)
         IN /\ TableOf(S, p, k).primary = {RenamedPrimary(own, l) : l \in t.primary}
            /\ TableOf(S, p, k).indexes = {Index(own, i) : i \in t.indexes}
            /\ TableOf(S, p, k).foreign = {Renamed(S, p, own, f) : f \in t.foreign}
<1> DEFINE t == TableAt(S)[k][p]
           own == OwnAt(S, k)
<1>1. ColumnNamesAt(S)[k] = own
  BY ColumnsOfTable DEF OwnAt, ColsAt
<1> HIDE DEF own
<1>2. TableOf(S, p, k) =
        CanonicalTable(S[p], ColumnKeysAt(S)[k][p], own, TableNames(S), ColumnNamesAt(S), t)
  BY <1>1 DEF TableOf
<1> HIDE DEF t
<1>3. TableOf(S, p, k).primary = {RenamedPrimary(own, l) : l \in t.primary}
  BY <1>2 DEF CanonicalTable, RenamedPrimary
<1>4. TableOf(S, p, k).indexes = {Index(own, i) : i \in t.indexes}
  BY <1>2 DEF CanonicalTable
<1>5. TableOf(S, p, k).foreign = {Renamed(S, p, own, f) : f \in t.foreign}
  BY <1>2 DEF CanonicalTable, Renamed
<1> QED
  BY <1>3, <1>4, <1>5 DEF own, t

Ref(f) == [schema |-> f.rschema, name |-> f.rtable]

(* No loose key is an exact key, and one exact key gives one loose key.     *)
LEMMA TwoKindsOfKeys ==
  ASSUME NEW s, NEW t, NEW a, NEW b
  PROVE  /\ LooseKey(s, a) # ExactKey(t, b)
         /\ ExactKey(s, a) = ExactKey(t, b) => LooseKey(s, a) = LooseKey(t, b)
  BY DEF LooseKey, ExactKey

(* The table a foreign key refers to is the one at the key of the name it   *)
(* gives.                                                                   *)
LEMMA ReferencedIs ==
  ASSUME NEW S, Countable(S), NEW p, NEW f
  PROVE  Referenced(S, p, f) = {KeyFor(S, "tables", p, Ref(f))} \cap AllKeys(TableKeys(S))
<1> DEFINE K == TableKeys(S)
           loose == LooseKey(S[p], Ref(f))
           exact == ExactKey(S[p], Ref(f))
           crowded(l) == Collide(S, ItemsOf(S, "tables"), l)
<1>1. Referenced(S, p, f) = IF exact \in AllKeys(K) THEN {exact} ELSE {loose} \cap AllKeys(K)
  BY DEF Referenced, ReferencedKey, Ref
<1>2. KeyFor(S, "tables", p, Ref(f)) = IF crowded(loose) THEN exact ELSE loose
  BY DEF KeyFor
<1>3. ASSUME NEW k \in AllKeys(K)
      PROVE  \E q \in DOMAIN S : \E a \in S[q].tables :
               k = IF crowded(LooseKey(S[q], a)) THEN ExactKey(S[q], a) ELSE LooseKey(S[q], a)
  <2>1. PICK q \in DOMAIN K : \E a \in DOMAIN K[q] : K[q][a] = k
    BY KeyOfItem
  <2>2. PICK a \in DOMAIN K[q] : K[q][a] = k
    BY <2>1
  <2>3. q \in DOMAIN S /\ a \in S[q].tables /\ K[q][a] = KeyFor(S, "tables", q, a)
    BY <2>1, <2>2, KeysOfItems, TableKeysAre DEF Kinds
  <2> HIDE DEF K
  <2> QED
    BY <2>2, <2>3 DEF KeyFor
<1> HIDE DEF K, crowded
<1>4. crowded(loose) => loose \notin AllKeys(K)
  BY <1>3, TwoKindsOfKeys
<1>5. ~crowded(loose) => exact \notin AllKeys(K)
  BY <1>3, TwoKindsOfKeys
<1> QED
  BY <1>1, <1>2, <1>4, <1>5 DEF K

(* What a foreign key is rewritten to: the canonical name of the table it   *)
(* refers to if some profile has it, else the name it gives.                *)
LEMMA RenamedIs ==
  ASSUME NEW S, Countable(S), NEW p, NEW own, NEW f, IsForeignKey(f)
  PROVE  LET k == KeyFor(S, "tables", p, Ref(f))
         IN Renamed(S, p, own, f) =
              IF k \in AllKeys(TableKeys(S))
              THEN [name |-> f.name, columns |-> ColumnNames(own, f.columns),
                    rschema |-> TableNames(S)[k].schema, rtable |-> TableNames(S)[k].name,
                    rcolumns |-> ColumnNames(ColumnNamesAt(S)[k], f.rcolumns), rules |-> f.rules]
              ELSE [name |-> f.name, columns |-> ColumnNames(own, f.columns),
                    rschema |-> f.rschema, rtable |-> f.rtable,
                    rcolumns |-> f.rcolumns, rules |-> f.rules]
<1> DEFINE k == KeyFor(S, "tables", p, Ref(f))
           known == Referenced(S, p, f)
           c == Chosen(S, p, f)
           N == TableNames(S)
           renamed == [f EXCEPT !.columns = ColumnNames(own, @)]
<1>1. DOMAIN N = AllKeys(TableKeys(S))
  BY DEF TableNames, CanonicalObjects
<1>2. Renamed(S, p, own, f) =
        IF known = {} THEN renamed
        ELSE Repointed(renamed, N[c].schema, N[c].name, ColumnNamesAt(S)[c])
  BY <1>1, Zenon DEF Renamed, ForeignKey, Referenced, Chosen, Repointed
<1>3. renamed = [name |-> f.name, columns |-> ColumnNames(own, f.columns), rschema |-> f.rschema,
                 rtable |-> f.rtable, rcolumns |-> f.rcolumns, rules |-> f.rules]
  BY DEF IsForeignKey
<1>4. known = {k} \cap AllKeys(TableKeys(S))
  BY ReferencedIs
<1>5. c = CHOOSE key \in known : TRUE
  BY DEF Chosen
<1> HIDE DEF known, k, renamed, c, N
<1>6. IsForeignKey(renamed)
  BY <1>3 DEF IsForeignKey
<1>7. ASSUME k \in AllKeys(TableKeys(S))
      PROVE  Renamed(S, p, own, f) =
               [name |-> f.name, columns |-> ColumnNames(own, f.columns),
                rschema |-> N[k].schema, rtable |-> N[k].name,
                rcolumns |-> ColumnNames(ColumnNamesAt(S)[k], f.rcolumns), rules |-> f.rules]
  <2>1. known = {k}
    BY <1>4, <1>7
  <2>2. c = k
    BY <1>5, <2>1
  <2>3. Renamed(S, p, own, f) =
          [name |-> renamed.name, columns |-> renamed.columns, rschema |-> N[k].schema,
           rtable |-> N[k].name, rcolumns |-> ColumnNames(ColumnNamesAt(S)[k], renamed.rcolumns),
           rules |-> renamed.rules]
    BY <1>2, <1>6, <2>1, <2>2, ReferenceReplaced
  <2>4. /\ renamed.name = f.name /\ renamed.columns = ColumnNames(own, f.columns)
        /\ renamed.rcolumns = f.rcolumns /\ renamed.rules = f.rules
    BY <1>3
  <2> QED
    BY <2>3, <2>4
<1>8. ASSUME k \notin AllKeys(TableKeys(S)) PROVE Renamed(S, p, own, f) = renamed
  BY <1>2, <1>4, <1>8
<1> QED
  BY <1>3, <1>7, <1>8 DEF k, N

(* The canonical name of a key is the name of an object of that key.        *)
LEMMA NameOfKey ==
  ASSUME NEW S, Countable(S), NEW k \in AllKeys(TableKeys(S))
  PROVE  \E q \in DOMAIN S : \E a \in S[q].tables :
           /\ HasName(a) /\ KeyFor(S, "tables", q, a) = k
           /\ TableNames(S)[k] = [schema |-> a.schema, name |-> a.name]
<1> DEFINE K == TableKeys(S)
<1>1. DOMAIN K = DOMAIN S /\ \A q \in DOMAIN S : DOMAIN K[q] = S[q].tables
  BY KeysOfItems, TableKeysAre DEF Kinds
<1>2. DOMAIN K \subseteq Profiles /\ \A q \in DOMAIN K : Named(DOMAIN K[q])
  BY <1>1 DEF Countable, Snaps
<1>3. PICK q \in DOMAIN K : \E a \in DOMAIN K[q] : K[q][a] = k /\ CanonicalObjects(K)[k] = QualifiedName(a)
  BY <1>2, SpelledAsItem
<1>4. PICK a \in DOMAIN K[q] : K[q][a] = k /\ CanonicalObjects(K)[k] = QualifiedName(a)
  BY <1>3
<1>5. q \in DOMAIN S /\ a \in S[q].tables /\ HasName(a)
  BY <1>1, <1>2 DEF Named, HasName
<1>6. K[q][a] = KeyFor(S, "tables", q, a)
  BY <1>5, KeysOfItems, TableKeysAre DEF Kinds
<1> HIDE DEF K
<1> QED
  BY <1>4, <1>5, <1>6 DEF K, TableNames, QualifiedName

(* A table that a database without a default schema refers to by the name it*)
(* goes by is that table.                                                   *)
LEMMA KnownByName ==
  ASSUME NEW S, Countable(S), NEW p, NEW q, S[p].default = {}, S[q].default = {},
         NEW a, HasName(a), NEW k \in AllKeys(TableKeys(S)), KeyFor(S, "tables", p, a) = k,
         NEW b, b.schema = TableNames(S)[k].schema, b.name = TableNames(S)[k].name
  PROVE  KeyFor(S, "tables", q, b) = k
<1>1. PICK h \in DOMAIN S : \E c \in S[h].tables :
        /\ HasName(c) /\ KeyFor(S, "tables", h, c) = k
        /\ TableNames(S)[k] = [schema |-> c.schema, name |-> c.name]
  BY NameOfKey
<1>2. PICK c \in S[h].tables : /\ HasName(c) /\ KeyFor(S, "tables", h, c) = k
                               /\ TableNames(S)[k] = [schema |-> c.schema, name |-> c.name]
  BY <1>1
<1>3. b.schema = c.schema /\ b.name = c.name
  BY <1>2
<1>4. SchemaKey(S[p], a.schema) = Fold[a.schema] /\ Fold[a.schema] # ""
  BY FoldedNames DEF SchemaKey, HasName
<1>5. SchemaKey(S[h], c.schema) = SchemaKey(S[p], a.schema)
  <2>1. KeyFor(S, "tables", h, c) = KeyFor(S, "tables", p, a)
    BY <1>2
  <2> QED
    BY <2>1 DEF KeyFor, LooseKey, ExactKey
<1>6. SchemaKey(S[h], c.schema) = Fold[c.schema]
  BY <1>4, <1>5 DEF SchemaKey
<1>7. SchemaKey(S[q], b.schema) = Fold[b.schema]
  BY DEF SchemaKey
<1>8. LooseKey(S[q], b) = LooseKey(S[h], c) /\ ExactKey(S[q], b) = ExactKey(S[h], c)
  BY <1>3, <1>6, <1>7 DEF LooseKey, ExactKey
<1> QED
  BY <1>2, <1>8 DEF KeyFor

(* The tables like the one a foreign key refers to are those of the key of  *)
(* its name, if any has it.                                                 *)
LEMMA LikesOfReference ==
  ASSUME NEW S, Matched(S), NEW p, NEW a, HasName(a)
  PROVE  LET k == KeyFor(S, "tables", p, a)
         IN Likes(S, "tables", p, a) =
              IF k \in AllKeys(TableKeys(S)) THEN LikesOf(TableAt(S)[k]) ELSE {}
<1> DEFINE k == KeyFor(S, "tables", p, a)
           L == Likes(S, "tables", p, a)
<1>1. \A o : o \in L <=> o \in Objects(S, "tables") /\ KeyOfTable(S, o) = k
  BY LikesAreOfKey, TableKeysAre DEF Kinds, Matched, KeyOfTable
<1> HIDE DEF k, L
<1>2. ASSUME k \in AllKeys(TableKeys(S)) PROVE L = LikesOf(TableAt(S)[k])
  <2> DEFINE tab == TableAt(S)[k]
  <2>1. \A q \in DOMAIN tab : <<q, tab[q]>> \in L
    BY <1>1, <1>2, ObjectOfTable
  <2>2. \A o \in L : o[1] \in DOMAIN tab /\ o = <<o[1], tab[o[1]]>>
    BY <1>1, TableObject
  <2> HIDE DEF tab
  <2>3. \A o : o \in LikesOf(tab) <=> \E q \in DOMAIN tab : o = <<q, tab[q]>>
    BY DEF LikesOf
  <2>4. \A o : o \in L <=> o \in LikesOf(tab)
    BY <2>1, <2>2, <2>3
  <2> QED
    BY <2>4 DEF tab
<1>3. ASSUME k \notin AllKeys(TableKeys(S)) PROVE L = {}
  BY <1>1, <1>3, TableObject
<1> QED
  BY <1>2, <1>3 DEF k, L

(* The tables two foreign keys refer to are the same when they have one key,*)
(* or no profile has either and they have one name.                         *)
LEMMA ReferredAlike ==
  ASSUME NEW S, Matched(S), Parted(S), NEW p \in Keyed(S), NEW q \in Keyed(S),
         NEW f, IsReference(f), NEW g, IsReference(g)
  PROVE  LET K == AllKeys(TableKeys(S))
             N == TableNames(S)
             k == KeyFor(S, "tables", p, Ref(f))
             l == KeyFor(S, "tables", q, Ref(g))
         IN /\ Ref(f) = Ref(g) => k = l
            /\ k \in K /\ l \in K => (N[k].schema = N[l].schema /\ N[k].name = N[l].name <=> k = l)
            /\ k \in K /\ l \notin K => ~(N[k].schema = g.rschema /\ N[k].name = g.rtable)
            /\ k \notin K /\ l \in K => ~(N[l].schema = f.rschema /\ N[l].name = f.rtable)
<1> DEFINE K == AllKeys(TableKeys(S))
           N == TableNames(S)
           k == KeyFor(S, "tables", p, Ref(f))
           l == KeyFor(S, "tables", q, Ref(g))
<1>1. S[p].default = {} /\ S[q].default = {}
  BY DEF Parted, Keyed
<1>2. HasName(Ref(f)) /\ HasName(Ref(g))
  BY DEF IsReference, HasName, Ref
<1>3. /\ Ref(f).schema = f.rschema /\ Ref(f).name = f.rtable
      /\ Ref(g).schema = g.rschema /\ Ref(g).name = g.rtable
  BY DEF Ref
<1>4. Countable(S)
  BY DEF Matched
<1>5. Ref(f) = Ref(g) => k = l
  <2>1. SchemaKey(S[p], Ref(f).schema) = Fold[Ref(f).schema] /\ SchemaKey(S[q], Ref(g).schema) = Fold[Ref(g).schema]
    BY <1>1 DEF SchemaKey
  <2> QED
    BY <2>1 DEF KeyFor, LooseKey, ExactKey
<1>6. ASSUME k \in K, l \in K, N[k].schema = N[l].schema, N[k].name = N[l].name PROVE k = l
  <2>1. /\ \E a : N[k] = [schema |-> a.schema, name |-> a.name]
        /\ \E a : N[l] = [schema |-> a.schema, name |-> a.name]
    BY <1>4, <1>6, NameOfKey
  <2>2. N[k] = N[l]
    BY <1>6, <2>1
  <2> QED
    BY <1>6, <2>2 DEF Matched, NamesApart, TableNames
<1>7. ASSUME k \in K, N[k].schema = g.rschema, N[k].name = g.rtable PROVE l = k
  <2>1. Ref(g).schema = N[k].schema /\ Ref(g).name = N[k].name
    BY <1>3, <1>7
  <2> HIDE DEF k, K, N
  <2>2. KeyFor(S, "tables", q, Ref(g)) = k
    BY <1>1, <1>2, <1>4, <1>7, <2>1, KnownByName DEF K, N, k
  <2> QED
    BY <2>2
<1>8. ASSUME l \in K, N[l].schema = f.rschema, N[l].name = f.rtable PROVE k = l
  <2>1. Ref(f).schema = N[l].schema /\ Ref(f).name = N[l].name
    BY <1>3, <1>8
  <2>2. KeyFor(S, "tables", q, Ref(g)) = l /\ l \in AllKeys(TableKeys(S))
    BY <1>8
  <2>3. Ref(f).schema = TableNames(S)[l].schema /\ Ref(f).name = TableNames(S)[l].name
    BY <2>1
  <2> HIDE DEF k, l, K, N
  <2> DEFINE a == Ref(g)
             b == Ref(f)
  <2>5. /\ HasName(a) /\ KeyFor(S, "tables", q, a) = l
        /\ b.schema = TableNames(S)[l].schema /\ b.name = TableNames(S)[l].name
    BY <1>2, <2>2, <2>3
  <2> HIDE DEF a, b
  <2>6. KeyFor(S, "tables", p, b) = l
    BY <1>1, <1>4, <2>2, <2>5, KnownByName
  <2>4. KeyFor(S, "tables", p, Ref(f)) = l
    BY <2>6 DEF b
  <2> QED
    BY <2>4 DEF k
<1> HIDE DEF K, N, k, l
<1> QED
  BY <1>5, <1>6, <1>7, <1>8 DEF K, N, k, l

(* Two foreign keys of one name are the same by pairs exactly when they are *)
(* rewritten to one.                                                        *)
LEMMA ForeignAlike ==
  ASSUME NEW S, Matched(S), Parted(S), NEW p \in Keyed(S), NEW q \in Keyed(S),
         NEW t \in AllKeys(TableKeys(S)),
         NEW f, IsReference(f), NEW g, IsReference(g), f.name = g.name
  PROVE  SameForeign(S, LikesOf(TableAt(S)[t]), p, f, q, g)
           <=> Renamed(S, p, OwnAt(S, t), f) = Renamed(S, q, OwnAt(S, t), g)
<1> DEFINE K == AllKeys(TableKeys(S))
           N == TableNames(S)
           own == OwnAt(S, t)
           L == LikesOf(TableAt(S)[t])
           k == KeyFor(S, "tables", p, Ref(f))
           l == KeyFor(S, "tables", q, Ref(g))
           M(x) == LikesOf(TableAt(S)[x])
           cols(x) == ColumnNamesAt(S)[x]
           columnsAlike == ColumnNames(own, f.columns) = ColumnNames(own, g.columns)
<1>1. /\ f.columns \in Seq(Names) /\ g.columns \in Seq(Names) /\ IsForeignKey(f)
      /\ f.rcolumns \in Seq(Names) /\ g.rcolumns \in Seq(Names) /\ IsForeignKey(g)
  BY DEF IsReference
<1>2. HasName(Ref(f)) /\ HasName(Ref(g)) /\ Countable(S)
  BY DEF IsReference, HasName, Ref, Matched
<1>3. SameColumns(L, f.columns, g.columns) <=> columnsAlike
  <2>1. Tabled(TableAt(S)[t])
    BY TablesOfKey
  <2> QED
    BY <1>1, <2>1, SameColumnsAre DEF OwnAt, ColsAt
<1>4. ASSUME NEW x \in K
      PROVE  SameColumns(M(x), f.rcolumns, g.rcolumns)
               <=> ColumnNames(cols(x), f.rcolumns) = ColumnNames(cols(x), g.rcolumns)
  <2>1. Tabled(TableAt(S)[x]) /\ DOMAIN TableAt(S)[x] = Holders(TableKeys(S), x)
    BY TablesOfKey
  <2>2. \E h : h \in DOMAIN TableAt(S)[x]
    BY <2>1, HoldersHold
  <2>3. cols(x) = CanonicalColumns(ColumnKeys(ColumnsIn(TableAt(S)[x])))
    BY <2>2, ColumnsOfTable
  <2> QED
    BY <1>1, <2>1, <2>3, SameColumnsAre
<1>5. Same(S, "tables", p, Ref(f), q, Ref(g)) <=> k = l
  BY <1>2, SameIsSameKey DEF Kinds
<1>6. Likes(S, "tables", p, Ref(f)) = IF k \in K THEN M(k) ELSE {}
  BY <1>2, LikesOfReference
<1>7. k \in K => M(k) # {}
  <2>1. k \in K => Holders(TableKeys(S), k) # {} /\ DOMAIN TableAt(S)[k] = Holders(TableKeys(S), k)
    BY HoldersHold, TablesOfKey
  <2> QED
    BY <2>1 DEF LikesOf
<1>8. SameForeign(S, L, p, f, q, g) <=>
        /\ f.rules = g.rules /\ SameColumns(L, f.columns, g.columns)
        /\ IF Likes(S, "tables", p, Ref(f)) # {}
           THEN /\ Same(S, "tables", p, Ref(f), q, Ref(g))
                /\ SameColumns(Likes(S, "tables", p, Ref(f)), f.rcolumns, g.rcolumns)
           ELSE Ref(f) = Ref(g) /\ f.rcolumns = g.rcolumns
  BY Zenon DEF SameForeign, Ref
<1>9. Renamed(S, p, own, f) =
        IF k \in K
        THEN [name |-> f.name, columns |-> ColumnNames(own, f.columns),
              rschema |-> N[k].schema, rtable |-> N[k].name,
              rcolumns |-> ColumnNames(cols(k), f.rcolumns), rules |-> f.rules]
        ELSE [name |-> f.name, columns |-> ColumnNames(own, f.columns),
              rschema |-> f.rschema, rtable |-> f.rtable, rcolumns |-> f.rcolumns, rules |-> f.rules]
  BY <1>1, <1>2, RenamedIs
<1>10. Renamed(S, q, own, g) =
        IF l \in K
        THEN [name |-> g.name, columns |-> ColumnNames(own, g.columns),
              rschema |-> N[l].schema, rtable |-> N[l].name,
              rcolumns |-> ColumnNames(cols(l), g.rcolumns), rules |-> g.rules]
        ELSE [name |-> g.name, columns |-> ColumnNames(own, g.columns),
              rschema |-> g.rschema, rtable |-> g.rtable, rcolumns |-> g.rcolumns, rules |-> g.rules]
  BY <1>1, <1>2, RenamedIs
<1>11. Ref(f) = Ref(g) <=> f.rschema = g.rschema /\ f.rtable = g.rtable
  BY DEF Ref
<1>12. /\ Ref(f) = Ref(g) => k = l
       /\ k \in K /\ l \in K => (N[k].schema = N[l].schema /\ N[k].name = N[l].name <=> k = l)
       /\ k \in K /\ l \notin K => ~(N[k].schema = g.rschema /\ N[k].name = g.rtable)
       /\ k \notin K /\ l \in K => ~(N[l].schema = f.rschema /\ N[l].name = f.rtable)
  BY ReferredAlike
<1> DEFINE same == SameForeign(S, L, p, f, q, g)
           alike == Renamed(S, p, own, f) = Renamed(S, q, own, g)
<1> HIDE DEF K, N, own, L, k, l, M, cols, columnsAlike
<1>13. CASE k \in K /\ l \in K
  <2>1. same <=> f.rules = g.rules /\ columnsAlike /\ k = l
                 /\ ColumnNames(cols(k), f.rcolumns) = ColumnNames(cols(k), g.rcolumns)
    BY <1>3, <1>4, <1>5, <1>6, <1>7, <1>8, <1>13
  <2>2. alike <=> f.rules = g.rules /\ columnsAlike
                  /\ N[k].schema = N[l].schema /\ N[k].name = N[l].name
                  /\ ColumnNames(cols(k), f.rcolumns) = ColumnNames(cols(l), g.rcolumns)
    BY <1>9, <1>10, <1>13 DEF columnsAlike
  <2> QED
    BY <1>12, <1>13, <2>1, <2>2 DEF own, L
<1>14. CASE k \in K /\ l \notin K
  <2>1. ~same
    BY <1>5, <1>6, <1>7, <1>8, <1>14
  <2>2. ~alike
    BY <1>9, <1>10, <1>12, <1>14
  <2> QED
    BY <2>1, <2>2 DEF own, L
<1>15. CASE k \notin K /\ l \in K
  <2>1. ~same
    BY <1>6, <1>8, <1>12, <1>15
  <2>2. ~alike
    BY <1>9, <1>10, <1>12, <1>15
  <2> QED
    BY <2>1, <2>2 DEF own, L
<1>16. CASE k \notin K /\ l \notin K
  <2>1. same <=> f.rules = g.rules /\ columnsAlike /\ Ref(f) = Ref(g) /\ f.rcolumns = g.rcolumns
    BY <1>3, <1>6, <1>8, <1>16
  <2>2. alike <=> f.rules = g.rules /\ columnsAlike /\ Ref(f) = Ref(g) /\ f.rcolumns = g.rcolumns
    BY <1>9, <1>10, <1>11, <1>16 DEF columnsAlike
  <2> QED
    BY <2>1, <2>2 DEF own, L
<1> QED
  BY <1>13, <1>14, <1>15, <1>16

PrimaryApart(L, P, Q) == \/ (P = {}) # (Q = {})
                         \/ \E a \in P, b \in Q : ~SamePrimary(L, a, b)
IndexApart(L, P, Q) == \/ (P = {}) # (Q = {})
                       \/ \E a \in P, b \in Q : ~SameIndex(L, a, b)
ForeignApart(S, L, p, P, q, Q) == \/ (P = {}) # (Q = {})
                                  \/ \E a \in P, b \in Q : ~SameForeign(S, L, p, a, q, b)

(* A table has at most one primary key, and at most one foreign key and one *)
(* index of a name.                                                         *)
LEMMA PartsAreTyped ==
  ASSUME NEW S, Matched(S), Parted(S), NEW k \in AllKeys(TableKeys(S)), NEW p \in DOMAIN TableAt(S)[k]
  PROVE  LET t == TableAt(S)[k][p]
         IN /\ p \in DOMAIN S /\ Tabled(TableAt(S)[k])
            /\ AtMostOne(t.primary) /\ \A l \in t.primary : IsPrimaryKey(l)
            /\ \A c : AtMostOne(ByName(t.indexes, c)) /\ AtMostOne(ByName(t.foreign, c))
            /\ \A i \in t.indexes : IsIndex(i)
            /\ \A f \in t.foreign : IsReference(f)
<1>1. p \in DOMAIN S /\ TableAt(S)[k][p] \in S[p].tables /\ Tabled(TableAt(S)[k])
  BY TablesOfKey
<1> QED
  BY <1>1, Zenon DEF Parted

(* The rewritten primary keys of two profiles differ exactly when the       *)
(* reference tells them apart.                                              *)
LEMMA PrimaryDiffer ==
  ASSUME NEW S, Matched(S), Parted(S), NEW k \in AllKeys(TableKeys(S)),
         NEW p \in DOMAIN TableAt(S)[k], NEW q \in DOMAIN TableAt(S)[k]
  PROVE  TableOf(S, p, k).primary # TableOf(S, q, k).primary <=>
           PrimaryApart(LikesOf(TableAt(S)[k]), TableAt(S)[k][p].primary, TableAt(S)[k][q].primary)
<1> DEFINE tab == TableAt(S)[k]
           P == tab[p].primary
           Q == tab[q].primary
           own == OwnAt(S, k)
           F == [l \in P |-> RenamedPrimary(own, l)]
           G == [l \in Q |-> RenamedPrimary(own, l)]
<1>1. /\ TableOf(S, p, k).primary = Image(F, P)
      /\ TableOf(S, q, k).primary = Image(G, Q)
  <2>1. /\ TableOf(S, p, k).primary = {RenamedPrimary(own, l) : l \in P}
        /\ TableOf(S, q, k).primary = {RenamedPrimary(own, l) : l \in Q}
    BY PartsOfTable
  <2>2. Image(F, P) = {RenamedPrimary(own, l) : l \in P} /\ Image(G, Q) = {RenamedPrimary(own, l) : l \in Q}
    BY DEF Image
  <2> QED
    BY <2>1, <2>2, Zenon
<1>2. /\ AtMostOne(P) /\ AtMostOne(Q) /\ Tabled(tab)
      /\ \A l \in P : IsPrimaryKey(l)
      /\ \A l \in Q : IsPrimaryKey(l)
  BY PartsAreTyped
<1>3. own = CanonicalColumns(ColumnKeys(ColumnsIn(tab)))
  BY DEF OwnAt, ColsAt
<1> HIDE DEF tab, P, Q, own
<1>4. \A a \in P, b \in Q : SamePrimary(LikesOf(tab), a, b) <=> F[a] = G[b]
  BY <1>2, <1>3, PrimaryAlike
<1> HIDE DEF F, G
<1>5. Image(F, P) # Image(G, Q) <=> (P = {}) # (Q = {}) \/ \E a \in P, b \in Q : F[a] # G[b]
  BY <1>2, ImagesApart
<1>6. PrimaryApart(LikesOf(tab), P, Q) <=> (P = {}) # (Q = {}) \/ \E a \in P, b \in Q : F[a] # G[b]
  BY <1>4 DEF PrimaryApart
<1> QED
  BY <1>1, <1>5, <1>6 DEF tab, P, Q

(* The rewritten indexes of one name differ exactly when the reference tells*)
(* them apart.                                                              *)
LEMMA IndexDiffer ==
  ASSUME NEW S, Matched(S), Parted(S), NEW k \in AllKeys(TableKeys(S)), NEW c,
         NEW p \in DOMAIN TableAt(S)[k], NEW q \in DOMAIN TableAt(S)[k]
  PROVE  ByName(TableOf(S, p, k).indexes, c) # ByName(TableOf(S, q, k).indexes, c) <=>
           IndexApart(LikesOf(TableAt(S)[k]), ByName(TableAt(S)[k][p].indexes, c),
                      ByName(TableAt(S)[k][q].indexes, c))
<1> DEFINE tab == TableAt(S)[k]
           I == tab[p].indexes
           J == tab[q].indexes
           P == ByName(I, c)
           Q == ByName(J, c)
           own == OwnAt(S, k)
           F == [i \in P |-> Index(own, i)]
           G == [i \in Q |-> Index(own, i)]
<1>1. /\ TableOf(S, p, k).indexes = {Index(own, i) : i \in I}
      /\ TableOf(S, q, k).indexes = {Index(own, i) : i \in J}
  BY PartsOfTable
<1>2. /\ AtMostOne(P) /\ AtMostOne(Q) /\ Tabled(tab)
      /\ \A i \in I : IsIndex(i)
      /\ \A i \in J : IsIndex(i)
  BY PartsAreTyped
<1>3. own = CanonicalColumns(ColumnKeys(ColumnsIn(tab)))
  BY DEF OwnAt, ColsAt
<1> HIDE DEF tab, I, J, own
<1>4. \A i : IsIndex(i) => Index(own, i).name = i.name
  BY RenamedIndex
<1>5. /\ ByName(TableOf(S, p, k).indexes, c) = Image(F, P)
      /\ ByName(TableOf(S, q, k).indexes, c) = Image(G, Q)
  <2> DEFINE R(i) == Index(own, i)
  <2>1. ByName(TableOf(S, p, k).indexes, c) = {R(i) : i \in P}
    BY <1>1, <1>2, <1>4 DEF ByName
  <2>2. ByName(TableOf(S, q, k).indexes, c) = {R(i) : i \in Q}
    BY <1>1, <1>2, <1>4 DEF ByName
  <2>3. Image(F, P) = {R(i) : i \in P} /\ Image(G, Q) = {R(i) : i \in Q}
    BY DEF Image
  <2> QED
    BY <2>1, <2>2, <2>3, Zenon
<1>6. \A a \in P, b \in Q : SameIndex(LikesOf(tab), a, b) <=> F[a] = G[b]
  <2>1. \A a \in P : IsIndex(a) /\ a.name = c
    BY <1>2 DEF ByName
  <2>2. \A b \in Q : IsIndex(b) /\ b.name = c
    BY <1>2 DEF ByName
  <2> HIDE DEF P, Q
  <2> QED
    BY <1>2, <1>3, <2>1, <2>2, IndexAlike
<1> HIDE DEF F, G, P, Q
<1>7. Image(F, P) # Image(G, Q) <=> (P = {}) # (Q = {}) \/ \E a \in P, b \in Q : F[a] # G[b]
  BY <1>2, ImagesApart
<1>8. IndexApart(LikesOf(tab), P, Q) <=> (P = {}) # (Q = {}) \/ \E a \in P, b \in Q : F[a] # G[b]
  BY <1>6 DEF IndexApart
<1> QED
  BY <1>5, <1>7, <1>8 DEF tab, P, Q, I, J

(* The rewritten foreign keys of one name differ exactly when the reference *)
(* tells them apart.                                                        *)
LEMMA ForeignDiffer ==
  ASSUME NEW S, Matched(S), Parted(S), NEW k \in AllKeys(TableKeys(S)), NEW c,
         NEW p \in DOMAIN TableAt(S)[k], NEW q \in DOMAIN TableAt(S)[k], p \in Keyed(S), q \in Keyed(S)
  PROVE  ByName(TableOf(S, p, k).foreign, c) # ByName(TableOf(S, q, k).foreign, c) <=>
           ForeignApart(S, LikesOf(TableAt(S)[k]), p, ByName(TableAt(S)[k][p].foreign, c),
                        q, ByName(TableAt(S)[k][q].foreign, c))
<1> DEFINE tab == TableAt(S)[k]
           I == tab[p].foreign
           J == tab[q].foreign
           P == ByName(I, c)
           Q == ByName(J, c)
           own == OwnAt(S, k)
           F == [f \in P |-> Renamed(S, p, own, f)]
           G == [f \in Q |-> Renamed(S, q, own, f)]
<1>1. /\ TableOf(S, p, k).foreign = {Renamed(S, p, own, f) : f \in I}
      /\ TableOf(S, q, k).foreign = {Renamed(S, q, own, f) : f \in J}
  BY PartsOfTable
<1>2. /\ AtMostOne(P) /\ AtMostOne(Q)
      /\ \A f \in I : IsReference(f)
      /\ \A f \in J : IsReference(f)
  BY PartsAreTyped
<1> HIDE DEF tab, I, J, own
<1>3. \A f : IsReference(f) => Renamed(S, p, own, f).name = f.name /\ Renamed(S, q, own, f).name = f.name
  BY RenamedKey DEF IsReference
<1>4. /\ ByName(TableOf(S, p, k).foreign, c) = Image(F, P)
      /\ ByName(TableOf(S, q, k).foreign, c) = Image(G, Q)
  <2> DEFINE R(f) == Renamed(S, p, own, f)
             R2(f) == Renamed(S, q, own, f)
  <2>1. ByName(TableOf(S, p, k).foreign, c) = {R(f) : f \in P}
    BY <1>1, <1>2, <1>3 DEF ByName
  <2>2. ByName(TableOf(S, q, k).foreign, c) = {R2(f) : f \in Q}
    BY <1>1, <1>2, <1>3 DEF ByName
  <2>3. Image(F, P) = {R(f) : f \in P} /\ Image(G, Q) = {R2(f) : f \in Q}
    BY DEF Image
  <2> QED
    BY <2>1, <2>2, <2>3, Zenon
<1>5. \A a \in P, b \in Q : SameForeign(S, LikesOf(tab), p, a, q, b) <=> F[a] = G[b]
  <2>1. \A a \in P : IsReference(a) /\ a.name = c
    BY <1>2 DEF ByName
  <2>2. \A b \in Q : IsReference(b) /\ b.name = c
    BY <1>2 DEF ByName
  <2> HIDE DEF P, Q
  <2>3. ASSUME NEW a \in P, NEW b \in Q
        PROVE  SameForeign(S, LikesOf(tab), p, a, q, b) <=> Renamed(S, p, own, a) = Renamed(S, q, own, b)
    BY <2>1, <2>2, ForeignAlike DEF tab, own
  <2> QED
    BY <2>3
<1> HIDE DEF F, G, P, Q
<1>6. Image(F, P) # Image(G, Q) <=> (P = {}) # (Q = {}) \/ \E a \in P, b \in Q : F[a] # G[b]
  BY <1>2, ImagesApart
<1>7. ForeignApart(S, LikesOf(tab), p, P, q, Q) <=> (P = {}) # (Q = {}) \/ \E a \in P, b \in Q : F[a] # G[b]
  BY <1>5 DEF ForeignApart
<1> QED
  BY <1>4, <1>6, <1>7 DEF tab, P, Q, I, J

(* The tables an object is compared with: those of its key in the profiles  *)
(* whose keys are read.                                                     *)
LEMMA PairsOfTable ==
  ASSUME NEW S, Matched(S), NEW o \in Objects(S, "tables")
  PROVE  LET tab == TableAt(S)[KeyOfTable(S, o)]
         IN \A u : u \in KeyedPairs(S, o) <=>
                     /\ o[1] \in Keyed(S) /\ u[1] \in DOMAIN tab /\ u[1] \in Keyed(S)
                     /\ u = <<u[1], tab[u[1]]>>
<1> DEFINE tab == TableAt(S)[KeyOfTable(S, o)]
<1>1. /\ Likes(S, "tables", o[1], o[2]) = LikesOf(tab) /\ o[1] \in DOMAIN S
      /\ KeyOfTable(S, o) \in AllKeys(TableKeys(S))
  BY TableObject
<1>2. \A p \in DOMAIN tab : p \in DOMAIN S
  BY <1>1, TablesOfKey
<1> HIDE DEF tab
<1>3. \A u : u \in KeyedPairs(S, o) <=> u \in LikesOf(tab) /\ S[u[1]].keyed /\ S[o[1]].keyed
  BY <1>1 DEF KeyedPairs
<1>4. \A u : u \in LikesOf(tab) <=> u[1] \in DOMAIN tab /\ u = <<u[1], tab[u[1]]>>
  BY DEF LikesOf
<1> QED
  BY <1>1, <1>2, <1>3, <1>4 DEF Keyed, tab
-----------------------------------------------------------------------------------
(* The findings on the parts of tables.                                     *)

(* Of some of the profiles, those that have a canonical name hold its key.  *)
LEMMA HavingWithin ==
  ASSUME NEW T, NEW K, NEW N, Indexed(T, K, N), Apart(K, N), NEW P \in SUBSET DOMAIN K,
         NEW k \in AllKeys(K)
  PROVE  Having(T, P, N[k]) = Holders(K, k) \cap P
  BY HavingKey

(* The canonical table of a key, as the engine sees it.                     *)
LEMMA TablesHaving ==
  ASSUME NEW S, Matched(S), NEW order, IsOrder(order, S), NEW k \in AllKeys(TableKeys(S))
  PROVE  LET T == CanonicalTables(order, S)
             n == TableNames(S)[k]
             H == Having(T, Keyed(S), n)
         IN /\ H = DOMAIN TableAt(S)[k] \cap Keyed(S) /\ IsFiniteSet(H)
            /\ \A p \in H : T[p][n] = TableOf(S, p, k)
            /\ (\E p, q \in H : p # q) => n \in Shared(T, Keyed(S))
<1> DEFINE T == CanonicalTables(order, S)
           K == TableKeys(S)
           N == TableNames(S)
           n == N[k]
           H == Having(T, Keyed(S), n)
           tab == TableAt(S)[k]
<1>1. /\ Indexed(T, K, N) /\ Apart(K, N)
      /\ \A p \in Holders(K, k) : T[p][n] = TableOf(S, p, k)
  BY CanonicalTablesAre
<1>2. DOMAIN K = DOMAIN S
  BY KeysOfItems, TableKeysAre DEF Kinds, Matched
<1>3. Keyed(S) \in SUBSET DOMAIN S
  BY DEF Keyed
<1>4. DOMAIN tab = Holders(K, k) /\ IsFiniteSet(DOMAIN tab)
  BY TablesOfKey DEF Tabled
<1>5. n \in Shared(T, Keyed(S)) <=> \E p, q \in DOMAIN tab \cap Keyed(S) : p # q
  BY <1>3, SharedTables
<1> HIDE DEF T, K, N
<1>6. H = Holders(K, k) \cap Keyed(S)
  BY <1>1, <1>2, <1>3, HavingWithin DEF K
<1>7. IsFiniteSet(H)
  BY <1>4, <1>6, FS_Subset
<1> HIDE DEF H, tab
<1>8. H = DOMAIN tab \cap Keyed(S)
  BY <1>4, <1>6
<1> QED
  BY <1>1, <1>5, <1>6, <1>7, <1>8 DEF T, N, H, tab

KeyedAt(S, k) == DOMAIN TableAt(S)[k] \cap Keyed(S)

(* PrimaryKeyMismatches() finds the tables whose rewritten primary keys     *)
(* differ.                                                                  *)
LEMMA PrimaryFound ==
  ASSUME NEW S, Matched(S), NEW order, IsOrder(order, S)
  PROVE  \A n : n \in {f.table : f \in PrimaryKeyMismatches(CanonicalTables(order, S), Keyed(S))} <=>
           \E k \in AllKeys(TableKeys(S)) :
             /\ n = TableNames(S)[k]
             /\ \E p, q \in KeyedAt(S, k) : TableOf(S, p, k).primary # TableOf(S, q, k).primary
<1> DEFINE T == CanonicalTables(order, S)
           N == TableNames(S)
           P == Keyed(S)
           H(n) == Having(T, P, n)
           values(n) == [p \in H(n) |-> T[p][n].primary]
<1>1. \A n : n \in {f.table : f \in PrimaryKeyMismatches(T, P)} <=>
                n \in Shared(T, P) /\ Differ(values(n))
  <2> DEFINE entry(n) == [table |-> n, values_by_profile |-> values(n)]
  <2>1. PrimaryKeyMismatches(T, P) = {entry(n) : n \in {n \in Shared(T, P) : Differ(values(n))}}
    BY Zenon DEF PrimaryKeyMismatches
  <2>2. \A n : entry(n).table = n
    OBVIOUS
  <2> HIDE DEF values, T, P, entry
  <2> QED
    BY <2>1, <2>2
<1>2. \A n \in Shared(T, P) : \E k \in AllKeys(TableKeys(S)) : n = N[k]
  <2>1. P \in SUBSET DOMAIN S
    BY DEF Keyed
  <2> QED
    BY <2>1, SharedTables
<1>3. ASSUME NEW k \in AllKeys(TableKeys(S))
      PROVE  /\ Differ(values(N[k])) <=>
                  \E p, q \in KeyedAt(S, k) : TableOf(S, p, k).primary # TableOf(S, q, k).primary
             /\ Differ(values(N[k])) => N[k] \in Shared(T, P)
  <2> DEFINE n == N[k]
  <2>1. /\ H(n) = KeyedAt(S, k) /\ IsFiniteSet(H(n))
        /\ \A p \in H(n) : T[p][n] = TableOf(S, p, k)
        /\ (\E p, q \in H(n) : p # q) => n \in Shared(T, P)
    BY TablesHaving DEF KeyedAt
  <2>2. DOMAIN values(n) = H(n) /\ \A p \in H(n) : values(n)[p] = T[p][n].primary
    OBVIOUS
  <2> HIDE DEF values, T, H, n
  <2>3. Differ(values(n)) <=> \E p, q \in H(n) : values(n)[p] # values(n)[q]
    BY <2>1, <2>2, DifferIs
  <2> QED
    BY <2>1, <2>2, <2>3 DEF n
<1> HIDE DEF T, P, N, values
<1> QED
  BY <1>1, <1>2, <1>3 DEF T, P, N

(* So does the reference.                                                   *)
LEMMA PrimaryReferred ==
  ASSUME NEW S, Matched(S), Parted(S)
  PROVE  \A n : n \in ReferencePrimary(S) <=>
           \E k \in AllKeys(TableKeys(S)) :
             /\ n = TableNames(S)[k]
             /\ \E p, q \in KeyedAt(S, k) : TableOf(S, p, k).primary # TableOf(S, q, k).primary
<1> DEFINE N == TableNames(S)
           likes(o) == Likes(S, "tables", o[1], o[2])
           spelled(o) == SpelledAs(S, "tables", o[1], o[2])
           differs(o) == \E u, w \in KeyedPairs(S, o) : PrimaryApart(likes(o), u[2].primary, w[2].primary)
           tab(k) == TableAt(S)[k]
           pk(p, k) == TableOf(S, p, k).primary
<1>1. ReferencePrimary(S) = {spelled(o) : o \in {o \in Objects(S, "tables") : differs(o)}}
  BY DEF ReferencePrimary, PartsDiffer, PrimaryApart
<1>2. ASSUME NEW k \in AllKeys(TableKeys(S)), NEW p \in KeyedAt(S, k), NEW q \in KeyedAt(S, k)
      PROVE  pk(p, k) # pk(q, k) <=> PrimaryApart(LikesOf(tab(k)), tab(k)[p].primary, tab(k)[q].primary)
  BY PrimaryDiffer DEF KeyedAt
<1>3. ASSUME NEW o \in Objects(S, "tables"), differs(o)
      PROVE  \E k \in AllKeys(TableKeys(S)) :
               spelled(o) = N[k] /\ \E p, q \in KeyedAt(S, k) : pk(p, k) # pk(q, k)
  <2> DEFINE k == KeyOfTable(S, o)
  <2>1. k \in AllKeys(TableKeys(S)) /\ spelled(o) = N[k] /\ likes(o) = LikesOf(tab(k))
    BY TableObject
  <2>2. \A u : u \in KeyedPairs(S, o) => u[1] \in KeyedAt(S, k) /\ u[2] = tab(k)[u[1]]
    <3>1. \A u : u \in KeyedPairs(S, o) => /\ u[1] \in DOMAIN tab(k) /\ u[1] \in Keyed(S)
                                           /\ u = <<u[1], tab(k)[u[1]]>>
      BY PairsOfTable
    <3> QED
      BY <3>1 DEF KeyedAt
  <2>3. PICK u \in KeyedPairs(S, o), w \in KeyedPairs(S, o) : PrimaryApart(likes(o), u[2].primary, w[2].primary)
    BY <1>3
  <2> HIDE DEF k, tab, pk, likes, spelled, N
  <2>4. PrimaryApart(LikesOf(tab(k)), tab(k)[u[1]].primary, tab(k)[w[1]].primary)
    BY <2>1, <2>2, <2>3
  <2>5. pk(u[1], k) # pk(w[1], k)
    BY <1>2, <2>1, <2>2, <2>4
  <2> QED
    BY <2>1, <2>2, <2>5
<1>4. ASSUME NEW k \in AllKeys(TableKeys(S)), NEW p \in KeyedAt(S, k), NEW q \in KeyedAt(S, k),
             pk(p, k) # pk(q, k)
      PROVE  \E o \in Objects(S, "tables") : differs(o) /\ spelled(o) = N[k]
  <2> DEFINE o == <<p, tab(k)[p]>>
             w == <<q, tab(k)[q]>>
  <2>1. p \in DOMAIN tab(k) /\ q \in DOMAIN tab(k) /\ p \in Keyed(S) /\ q \in Keyed(S)
    BY DEF KeyedAt
  <2>2. o \in Objects(S, "tables") /\ KeyOfTable(S, o) = k
    BY <2>1, ObjectOfTable
  <2>3. o[1] = p /\ o[2] = tab(k)[p] /\ w[1] = q /\ w[2] = tab(k)[q]
    OBVIOUS
  <2>4. spelled(o) = N[k] /\ likes(o) = LikesOf(tab(k))
    BY <2>2, TableObject
  <2>5. o \in KeyedPairs(S, o) /\ w \in KeyedPairs(S, o)
    <3> HIDE DEF o, w
    <3>1. \A u : u \in KeyedPairs(S, o) <=>
                  /\ o[1] \in Keyed(S) /\ u[1] \in DOMAIN tab(k) /\ u[1] \in Keyed(S)
                  /\ u = <<u[1], tab(k)[u[1]]>>
      BY <2>2, PairsOfTable
    <3> QED
      BY <2>1, <2>3, <3>1 DEF o, w
  <2>6. PrimaryApart(likes(o), o[2].primary, w[2].primary)
    <3> HIDE DEF o, w, pk, tab, likes
    <3> QED
      BY <1>2, <1>4, <2>3, <2>4
  <2> HIDE DEF o, w, likes, spelled
  <2> QED
    BY <2>2, <2>4, <2>5, <2>6
<1> HIDE DEF differs, spelled, pk
<1>5. \A n : n \in ReferencePrimary(S) <=> \E o \in Objects(S, "tables") : differs(o) /\ n = spelled(o)
  BY <1>1
<1>6. \A n : n \in ReferencePrimary(S) <=>
               \E k \in AllKeys(TableKeys(S)) : n = N[k] /\ \E p, q \in KeyedAt(S, k) : pk(p, k) # pk(q, k)
  <2>1. ASSUME NEW n \in ReferencePrimary(S)
        PROVE  \E k \in AllKeys(TableKeys(S)) : n = N[k] /\ \E p, q \in KeyedAt(S, k) : pk(p, k) # pk(q, k)
    BY <1>3, <1>5
  <2>2. ASSUME NEW n, NEW k \in AllKeys(TableKeys(S)), n = N[k], \E p, q \in KeyedAt(S, k) : pk(p, k) # pk(q, k)
        PROVE  n \in ReferencePrimary(S)
    BY <1>4, <1>5, <2>2
  <2> HIDE DEF N
  <2> QED
    BY <2>1, <2>2
<1> QED
  BY <1>6 DEF pk

(* PrimaryKeyMismatches() finds the tables the reference finds.             *)
LEMMA PrimaryKeysAre ==
  ASSUME NEW S, Matched(S), Parted(S), NEW order, IsOrder(order, S)
  PROVE  {f.table : f \in PrimaryKeyMismatches(CanonicalTables(order, S), Keyed(S))} = ReferencePrimary(S)
<1> DEFINE A == {f.table : f \in PrimaryKeyMismatches(CanonicalTables(order, S), Keyed(S))}
<1>1. \A n : n \in A <=> n \in ReferencePrimary(S)
  BY PrimaryFound, PrimaryReferred, SMTT(30)
<1> HIDE DEF A
<1>2. A = ReferencePrimary(S)
  BY <1>1
<1> QED
  BY <1>2 DEF A

PartNames(found) == {[table |-> f.table, finding |-> f.part] : f \in found}
PartKinds == {"indexes", "foreign"}
PartAt(S, p, k, kind, c) == ByName(TableOf(S, p, k)[kind], c)

(* NamedMismatches() finds the parts of one name whose rewritten forms      *)
(* differ.                                                                  *)
LEMMA PartsFound ==
  ASSUME NEW S, Matched(S), NEW order, IsOrder(order, S), NEW kind
  PROVE  \A e : e \in PartNames(NamedMismatches(CanonicalTables(order, S), Keyed(S), kind)) <=>
           \E k \in AllKeys(TableKeys(S)) : \E c :
             /\ e = OnTable(TableNames(S)[k], c)
             /\ \E p, q \in KeyedAt(S, k) : PartAt(S, p, k, kind, c) # PartAt(S, q, k, kind, c)
<1> DEFINE T == CanonicalTables(order, S)
           N == TableNames(S)
           P == Keyed(S)
           H(n) == Having(T, P, n)
           values(n, c) == ValuesOf(T, P, kind, n, c)
<1>1. \A e : e \in PartNames(NamedMismatches(T, P, kind)) <=>
               \E n, c : Found(T, P, kind, n, c) /\ e = OnTable(n, c)
  <2> DEFINE F == NamedMismatches(T, P, kind)
             g(n, c) == NamedFinding(T, P, kind, n, c)
  <2>1. \A n, c : Found(T, P, kind, n, c) => g(n, c) \in F
    BY NamedMismatchesAre
  <2>2. \A f \in F : Found(T, P, kind, f.table, f.part)
    BY NamedMismatchesAre
  <2>3. \A n, c : g(n, c).table = n /\ g(n, c).part = c
    BY DEF NamedFinding
  <2> HIDE DEF F, g, T, P
  <2>4. \A e : e \in PartNames(F) <=> \E f \in F : e = OnTable(f.table, f.part)
    BY DEF PartNames, OnTable
  <2>5. ASSUME NEW n, NEW c, Found(T, P, kind, n, c) PROVE OnTable(n, c) \in PartNames(F)
    <3>1. g(n, c) \in F /\ OnTable(n, c) = OnTable(g(n, c).table, g(n, c).part)
      BY <2>1, <2>3, <2>5
    <3> QED
      BY <2>4, <3>1
  <2>6. ASSUME NEW e \in PartNames(F) PROVE \E n, c : Found(T, P, kind, n, c) /\ e = OnTable(n, c)
    BY <2>2, <2>4
  <2> QED
    BY <2>5, <2>6 DEF F
<1>2. \A n \in Shared(T, P) : \E k \in AllKeys(TableKeys(S)) : n = N[k]
  <2>1. P \in SUBSET DOMAIN S
    BY DEF Keyed
  <2> QED
    BY <2>1, SharedTables
<1>3. ASSUME NEW k \in AllKeys(TableKeys(S)), NEW c
      PROVE  Found(T, P, kind, N[k], c) <=>
               \E p, q \in KeyedAt(S, k) : PartAt(S, p, k, kind, c) # PartAt(S, q, k, kind, c)
  <2> DEFINE n == N[k]
  <2>1. /\ H(n) = KeyedAt(S, k) /\ IsFiniteSet(H(n))
        /\ \A p \in H(n) : T[p][n] = TableOf(S, p, k)
        /\ (\E p, q \in H(n) : p # q) => n \in Shared(T, P)
    BY TablesHaving DEF KeyedAt
  <2>2. DOMAIN values(n, c) = H(n) /\ \A p \in H(n) : values(n, c)[p] = PartAt(S, p, k, kind, c)
    BY <2>1 DEF ValuesOf, PartAt
  <2>3. Found(T, P, kind, n, c) <=>
          n \in Shared(T, P) /\ c \in PartsOf(T, P, kind, n) /\ Differ(values(n, c))
    BY DEF Found
  <2>4. \A p \in H(n) : \A s \in PartAt(S, p, k, kind, c) : c \in PartsOf(T, P, kind, n)
    BY <2>1 DEF PartAt, ByName, PartsOf
  <2> HIDE DEF values, T, H, n
  <2>5. Differ(values(n, c)) <=> \E p, q \in H(n) : values(n, c)[p] # values(n, c)[q]
    BY <2>1, <2>2, DifferIs
  <2>6. Differ(values(n, c)) <=> \E p, q \in H(n) : PartAt(S, p, k, kind, c) # PartAt(S, q, k, kind, c)
    BY <2>2, <2>5
  <2>7. ASSUME NEW p \in H(n), NEW q \in H(n), PartAt(S, p, k, kind, c) # PartAt(S, q, k, kind, c)
        PROVE  n \in Shared(T, P) /\ c \in PartsOf(T, P, kind, n)
    <3>1. p # q
      BY <2>7
    <3>2. \E s : s \in PartAt(S, p, k, kind, c) \/ s \in PartAt(S, q, k, kind, c)
      BY <2>7
    <3> QED
      BY <2>1, <2>4, <3>1, <3>2
  <2> QED
    BY <2>1, <2>3, <2>6, <2>7 DEF n
<1> HIDE DEF T, P, N, values, H
<1>4. \A n, c : Found(T, P, kind, n, c) => n \in Shared(T, P)
  BY DEF Found
<1> QED
  BY <1>1, <1>2, <1>3, <1>4 DEF T, P, N

PartsVary(S, k, kind, c) ==
  \E p, q \in KeyedAt(S, k) : PartAt(S, p, k, kind, c) # PartAt(S, q, k, kind, c)

(* The tables an object is compared with are those at its key.              *)
LEMMA PairsAreKeyed ==
  ASSUME NEW S, Matched(S), NEW o \in Objects(S, "tables")
  PROVE  LET k == KeyOfTable(S, o)
             tab == TableAt(S)[k]
         IN /\ k \in AllKeys(TableKeys(S)) /\ Likes(S, "tables", o[1], o[2]) = LikesOf(tab)
            /\ \A u \in KeyedPairs(S, o) :
                 o[1] \in Keyed(S) /\ u[1] \in KeyedAt(S, k) /\ u[2] = tab[u[1]]
            /\ \A p \in KeyedAt(S, k) : o[1] \in Keyed(S) =>
                 \E u \in KeyedPairs(S, o) : u[1] = p /\ u[2] = tab[p]
<1> DEFINE k == KeyOfTable(S, o)
           tab == TableAt(S)[k]
<1>1. k \in AllKeys(TableKeys(S)) /\ Likes(S, "tables", o[1], o[2]) = LikesOf(tab)
  BY TableObject
<1>2. \A u : u \in KeyedPairs(S, o) <=>
               /\ o[1] \in Keyed(S) /\ u[1] \in DOMAIN tab /\ u[1] \in Keyed(S)
               /\ u = <<u[1], tab[u[1]]>>
  BY PairsOfTable
<1>3. KeyedAt(S, k) = DOMAIN tab \cap Keyed(S)
  BY DEF KeyedAt
<1> HIDE DEF k, tab
<1>4. ASSUME NEW p \in KeyedAt(S, k), o[1] \in Keyed(S)
      PROVE  \E u \in KeyedPairs(S, o) : u[1] = p /\ u[2] = tab[p]
  <2> DEFINE u == <<p, tab[p]>>
  <2>1. u[1] = p /\ u[2] = tab[p] /\ u = <<u[1], tab[u[1]]>>
    OBVIOUS
  <2> HIDE DEF u
  <2> QED
    BY <1>2, <1>3, <1>4, <2>1
<1>5. \A u \in KeyedPairs(S, o) : o[1] \in Keyed(S) /\ u[1] \in KeyedAt(S, k) /\ u[2] = tab[u[1]]
  BY <1>2, <1>3
<1> QED
  BY <1>1, <1>4, <1>5 DEF k, tab

(* Where generated names do not differ in case alone, parts are called as   *)
(* they are written.                                                        *)
LEMMA CalledAsWritten ==
  ASSUME NEW S, NoNoiseOfCase(S), NEW o \in Objects(S, "tables"), NEW u \in KeyedPairs(S, o),
         NEW kind \in PartKinds, NEW k \in o[2][kind]
  PROVE  Called(u[2][kind], k.name) = ByName(u[2][kind], k.name)
<1>1. u \in Likes(S, "tables", o[1], o[2]) /\ kind \in {"foreign", "indexes"}
  BY DEF KeyedPairs, PartKinds
<1>2. \A l \in u[2][kind] : SameName(l.name, k.name) => l.name = k.name
  BY <1>1 DEF NoNoiseOfCase
<1>3. \A l : l.name = k.name => SameName(l.name, k.name)
  BY DEF SameName
<1> QED
  BY <1>2, <1>3 DEF Called, ByName

(* An index of an object is found by the reference when the rewritten ones  *)
(* vary.                                                                    *)
LEMMA IndexesOfObject ==
  ASSUME NEW S, Matched(S), Parted(S), NoNoiseOfCase(S), NEW o \in Objects(S, "tables"), NEW c
  PROVE  c \in ReferenceIndexes(S, o) <=>
           /\ \E i \in o[2]["indexes"] : i.name = c
           /\ o[1] \in Keyed(S) /\ PartsVary(S, KeyOfTable(S, o), "indexes", c)
<1> DEFINE k == KeyOfTable(S, o)
           tab == TableAt(S)[k]
           L == Likes(S, "tables", o[1], o[2])
           named(p) == ByName(tab[p].indexes, c)
<1>1. c \in ReferenceIndexes(S, o) <=>
        /\ \E i \in o[2].indexes : i.name = c
        /\ \E u, w \in KeyedPairs(S, o) :
             IndexApart(L, ByName(u[2].indexes, c), ByName(w[2].indexes, c))
  <2>1. c \in ReferenceIndexes(S, o) <=>
          /\ \E i \in o[2].indexes : i.name = c
          /\ \E u, w \in KeyedPairs(S, o) :
               IndexApart(L, Called(u[2].indexes, c), Called(w[2].indexes, c))
    BY DEF ReferenceIndexes, ReferenceParts, PartsDiffer, IndexApart
  <2>2. ASSUME NEW i \in o[2].indexes, i.name = c, NEW u \in KeyedPairs(S, o)
        PROVE  Called(u[2].indexes, c) = ByName(u[2].indexes, c)
    <3>1. "indexes" \in PartKinds
      BY DEF PartKinds
    <3> QED
      BY <2>2, <3>1, CalledAsWritten
  <2> QED
    BY <2>1, <2>2
<1>2. /\ k \in AllKeys(TableKeys(S)) /\ L = LikesOf(tab)
      /\ \A u \in KeyedPairs(S, o) : o[1] \in Keyed(S) /\ u[1] \in KeyedAt(S, k) /\ u[2] = tab[u[1]]
      /\ \A p \in KeyedAt(S, k) : o[1] \in Keyed(S) =>
           \E u \in KeyedPairs(S, o) : u[1] = p /\ u[2] = tab[p]
  BY PairsAreKeyed
<1>3. \A p, q \in KeyedAt(S, k) :
        PartAt(S, p, k, "indexes", c) # PartAt(S, q, k, "indexes", c) <=> IndexApart(LikesOf(tab), named(p), named(q))
  BY <1>2, IndexDiffer DEF KeyedAt, PartAt
<1> HIDE DEF k, tab, L
<1>4. (\E u, w \in KeyedPairs(S, o) : IndexApart(L, ByName(u[2].indexes, c), ByName(w[2].indexes, c))) <=>
        o[1] \in Keyed(S) /\ \E p, q \in KeyedAt(S, k) : IndexApart(L, named(p), named(q))
  BY <1>2
<1>5. PartsVary(S, k, "indexes", c) <=> \E p, q \in KeyedAt(S, k) : IndexApart(L, named(p), named(q))
  BY <1>2, <1>3 DEF PartsVary
<1> QED
  BY <1>1, <1>4, <1>5 DEF k

(* A foreign key of an object is found by the reference when the rewritten  *)
(* ones vary.                                                               *)
LEMMA ForeignOfObject ==
  ASSUME NEW S, Matched(S), Parted(S), NoNoiseOfCase(S), NEW o \in Objects(S, "tables"), NEW c
  PROVE  c \in ReferenceForeign(S, o) <=>
           /\ \E f \in o[2]["foreign"] : f.name = c
           /\ o[1] \in Keyed(S) /\ PartsVary(S, KeyOfTable(S, o), "foreign", c)
<1> DEFINE k == KeyOfTable(S, o)
           tab == TableAt(S)[k]
           L == Likes(S, "tables", o[1], o[2])
           named(p) == ByName(tab[p].foreign, c)
<1>1. c \in ReferenceForeign(S, o) <=>
        /\ \E f \in o[2].foreign : f.name = c
        /\ \E u, w \in KeyedPairs(S, o) :
             ForeignApart(S, L, u[1], ByName(u[2].foreign, c), w[1], ByName(w[2].foreign, c))
  <2>1. c \in ReferenceForeign(S, o) <=>
          /\ \E f \in o[2].foreign : f.name = c
          /\ \E u, w \in KeyedPairs(S, o) :
               ForeignApart(S, L, u[1], Called(u[2].foreign, c), w[1], Called(w[2].foreign, c))
    BY DEF ReferenceForeign, ReferenceParts, PartsDiffer, ForeignApart
  <2>2. ASSUME NEW f \in o[2].foreign, f.name = c, NEW u \in KeyedPairs(S, o)
        PROVE  Called(u[2].foreign, c) = ByName(u[2].foreign, c)
    <3>1. "foreign" \in PartKinds
      BY DEF PartKinds
    <3> QED
      BY <2>2, <3>1, CalledAsWritten
  <2> QED
    BY <2>1, <2>2
<1>2. /\ k \in AllKeys(TableKeys(S)) /\ L = LikesOf(tab)
      /\ \A u \in KeyedPairs(S, o) : o[1] \in Keyed(S) /\ u[1] \in KeyedAt(S, k) /\ u[2] = tab[u[1]]
      /\ \A p \in KeyedAt(S, k) : o[1] \in Keyed(S) =>
           \E u \in KeyedPairs(S, o) : u[1] = p /\ u[2] = tab[p]
  BY PairsAreKeyed
<1>3. \A p, q \in KeyedAt(S, k) :
        PartAt(S, p, k, "foreign", c) # PartAt(S, q, k, "foreign", c)
          <=> ForeignApart(S, LikesOf(tab), p, named(p), q, named(q))
  BY <1>2, ForeignDiffer DEF KeyedAt, PartAt
<1> HIDE DEF k, tab, L
<1>4. (\E u, w \in KeyedPairs(S, o) :
         ForeignApart(S, L, u[1], ByName(u[2].foreign, c), w[1], ByName(w[2].foreign, c))) <=>
        o[1] \in Keyed(S) /\ \E p, q \in KeyedAt(S, k) : ForeignApart(S, L, p, named(p), q, named(q))
  BY <1>2
<1>5. PartsVary(S, k, "foreign", c) <=>
        \E p, q \in KeyedAt(S, k) : ForeignApart(S, L, p, named(p), q, named(q))
  BY <1>2, <1>3 DEF PartsVary
<1> QED
  BY <1>1, <1>4, <1>5 DEF k

(* A rewritten part of a table has the name of a part of it.                *)
LEMMA PartNamed ==
  ASSUME NEW S, Matched(S), Parted(S), NEW k \in AllKeys(TableKeys(S)), NEW p \in DOMAIN TableAt(S)[k],
         NEW kind \in PartKinds, NEW c, PartAt(S, p, k, kind, c) # {}
  PROVE  \E i \in TableAt(S)[k][p][kind] : i.name = c
<1> DEFINE t == TableAt(S)[k][p]
           own == OwnAt(S, k)
<1>1. /\ TableOf(S, p, k).indexes = {Index(own, i) : i \in t.indexes}
      /\ TableOf(S, p, k).foreign = {Renamed(S, p, own, f) : f \in t.foreign}
  BY PartsOfTable
<1>2. /\ \A i \in t.indexes : IsIndex(i)
      /\ \A f \in t.foreign : IsReference(f)
  BY PartsAreTyped
<1> HIDE DEF t, own
<1>3. PICK s \in TableOf(S, p, k)[kind] : s.name = c
  BY DEF PartAt, ByName
<1>4. CASE kind = "indexes"
  <2>1. PICK i \in t.indexes : s = Index(own, i)
    BY <1>1, <1>3, <1>4
  <2>2. s.name = i.name
    BY <1>2, <2>1, RenamedIndex
  <2> QED
    BY <1>3, <1>4, <2>1, <2>2 DEF t
<1>5. CASE kind = "foreign"
  <2>1. PICK f \in t.foreign : s = Renamed(S, p, own, f)
    BY <1>1, <1>3, <1>5
  <2>2. s.name = f.name
    BY <1>2, <2>1, RenamedKey DEF IsReference
  <2> QED
    BY <1>3, <1>5, <2>1, <2>2 DEF t
<1> QED
  BY <1>4, <1>5 DEF PartKinds

(* Parts R finds at the tables, object by object, are those of the keys.    *)
LEMMA PartsReferred ==
  ASSUME NEW S, Matched(S), Parted(S), NEW kind \in PartKinds, NEW R,
         \A o \in Objects(S, "tables") : \A c : c \in R[o] <=>
           /\ \E i \in o[2][kind] : i.name = c
           /\ o[1] \in Keyed(S) /\ PartsVary(S, KeyOfTable(S, o), kind, c),
         NEW e
  PROVE  (\E o \in Objects(S, "tables") : \E c \in R[o] :
            e = OnTable(SpelledAs(S, "tables", o[1], o[2]), c)) <=>
         (\E k \in AllKeys(TableKeys(S)) : \E c :
            e = OnTable(TableNames(S)[k], c) /\ PartsVary(S, k, kind, c))
<1> DEFINE N == TableNames(S)
           spelled(o) == SpelledAs(S, "tables", o[1], o[2])
<1>1. ASSUME NEW o \in Objects(S, "tables"), NEW c \in R[o]
      PROVE  /\ KeyOfTable(S, o) \in AllKeys(TableKeys(S)) /\ spelled(o) = N[KeyOfTable(S, o)]
             /\ PartsVary(S, KeyOfTable(S, o), kind, c)
  BY TableObject
<1>2. ASSUME NEW k \in AllKeys(TableKeys(S)), NEW c, PartsVary(S, k, kind, c)
      PROVE  \E o \in Objects(S, "tables") : c \in R[o] /\ spelled(o) = N[k]
  <2> DEFINE tab == TableAt(S)[k]
  <2>1. PICK p \in KeyedAt(S, k), q \in KeyedAt(S, k) : PartAt(S, p, k, kind, c) # PartAt(S, q, k, kind, c)
    BY <1>2 DEF PartsVary
  <2>2. PICK h \in KeyedAt(S, k) : PartAt(S, h, k, kind, c) # {}
    BY <2>1
  <2>3. h \in DOMAIN tab /\ h \in Keyed(S)
    BY DEF KeyedAt
  <2>4. \E i \in tab[h][kind] : i.name = c
    BY <1>2, <2>2, <2>3, PartNamed
  <2>5. <<h, tab[h]>> \in Objects(S, "tables") /\ KeyOfTable(S, <<h, tab[h]>>) = k
    BY <2>3, ObjectOfTable
  <2> DEFINE o == <<h, tab[h]>>
  <2>6. o[1] = h /\ o[2] = tab[h] /\ o \in Objects(S, "tables") /\ KeyOfTable(S, o) = k
    BY <2>5
  <2>7. spelled(o) = N[k]
    BY <2>6, TableObject
  <2> HIDE DEF o, tab, spelled
  <2>8. c \in R[o]
    BY <1>2, <2>3, <2>4, <2>6
  <2> QED
    BY <2>6, <2>7, <2>8
<1> HIDE DEF N, spelled
<1> QED
  BY <1>1, <1>2 DEF N, spelled
(* NamedMismatches() finds the indexes the reference finds.                 *)
LEMMA IndexesAre ==
  ASSUME NEW S, Matched(S), Parted(S), NoNoiseOfCase(S), NEW order, IsOrder(order, S)
  PROVE  PartNames(NamedMismatches(CanonicalTables(order, S), Keyed(S), "indexes"))
           = OnTables(S, ReferenceIndexes)
<1> DEFINE A == PartNames(NamedMismatches(CanonicalTables(order, S), Keyed(S), "indexes"))
           B == OnTables(S, ReferenceIndexes)
           R == [o \in Objects(S, "tables") |-> ReferenceIndexes(S, o)]
<1>1. \A e : e \in A <=> \E k \in AllKeys(TableKeys(S)) : \E c :
                           e = OnTable(TableNames(S)[k], c) /\ PartsVary(S, k, "indexes", c)
  BY PartsFound DEF PartsVary
<1>2. \A e : e \in B <=> \E o \in Objects(S, "tables") : \E c \in R[o] :
                           e = OnTable(SpelledAs(S, "tables", o[1], o[2]), c)
  BY DEF OnTables, ByTable, OnTable
<1>3. \A o \in Objects(S, "tables") : \A c : c \in R[o] <=>
        /\ \E i \in o[2]["indexes"] : i.name = c
        /\ o[1] \in Keyed(S) /\ PartsVary(S, KeyOfTable(S, o), "indexes", c)
  BY IndexesOfObject
<1> HIDE DEF A, B, R
<1>4. \A e : e \in A <=> e \in B
  <2>1. "indexes" \in PartKinds
    BY DEF PartKinds
  <2> QED
    BY <1>1, <1>2, <1>3, <2>1, PartsReferred
<1>5. A = B
  BY <1>4
<1> QED
  BY <1>5 DEF A, B

(* NamedMismatches() finds the foreign keys the reference finds.            *)
LEMMA ForeignKeysAre ==
  ASSUME NEW S, Matched(S), Parted(S), NoNoiseOfCase(S), NEW order, IsOrder(order, S)
  PROVE  PartNames(NamedMismatches(CanonicalTables(order, S), Keyed(S), "foreign"))
           = OnTables(S, ReferenceForeign)
<1> DEFINE A == PartNames(NamedMismatches(CanonicalTables(order, S), Keyed(S), "foreign"))
           B == OnTables(S, ReferenceForeign)
           R == [o \in Objects(S, "tables") |-> ReferenceForeign(S, o)]
<1>1. \A e : e \in A <=> \E k \in AllKeys(TableKeys(S)) : \E c :
                           e = OnTable(TableNames(S)[k], c) /\ PartsVary(S, k, "foreign", c)
  BY PartsFound DEF PartsVary
<1>2. \A e : e \in B <=> \E o \in Objects(S, "tables") : \E c \in R[o] :
                           e = OnTable(SpelledAs(S, "tables", o[1], o[2]), c)
  BY DEF OnTables, ByTable, OnTable
<1>3. \A o \in Objects(S, "tables") : \A c : c \in R[o] <=>
        /\ \E f \in o[2]["foreign"] : f.name = c
        /\ o[1] \in Keyed(S) /\ PartsVary(S, KeyOfTable(S, o), "foreign", c)
  BY ForeignOfObject
<1> HIDE DEF A, B, R
<1>4. \A e : e \in A <=> e \in B
  <2>1. "foreign" \in PartKinds
    BY DEF PartKinds
  <2> QED
    BY <1>1, <1>2, <1>3, <2>1, PartsReferred
<1>5. A = B
  BY <1>4
<1> QED
  BY <1>5 DEF A, B
-----------------------------------------------------------------------------------
(* The rows the queries give, and the snapshots made of them.               *)

Likewise(rows, i) ==
  {j \in 1 .. i : /\ ~Given(rows[j]) /\ rows[j].schema = rows[i].schema /\ rows[j].table = rows[i].table
                  /\ Structure(rows[j]) = Structure(rows[i])}

(* Two rows of one structure without a given name are numbered apart.       *)
LEMMA NumberGrows ==
  ASSUME NEW rows, rows \in Seq(Range(rows)), NEW i \in DOMAIN rows, NEW j \in DOMAIN rows, i < j,
         OneTable(rows, i, j), ~Given(rows[i]), ~Given(rows[j]), Structure(rows[i]) = Structure(rows[j])
  PROVE  Cardinality(Likewise(rows, i)) # Cardinality(Likewise(rows, j))
<1> DEFINE A == Likewise(rows, i)
           B == Likewise(rows, j)
<1>1. i \in Nat /\ j \in Nat /\ j >= 1
  OBVIOUS
<1>2. IsFiniteSet(1 .. j)
  BY <1>1, FS_Interval
<1>3. B \subseteq 1 .. j /\ j \in B
  BY <1>1 DEF Likewise
<1>4. A \subseteq B \ {j}
  BY <1>1 DEF Likewise, OneTable
<1> HIDE DEF A, B
<1>5. IsFiniteSet(B)
  BY <1>2, <1>3, FS_Subset
<1>6. IsFiniteSet(B \ {j}) /\ Cardinality(B \ {j}) = Cardinality(B) - 1
  BY <1>3, <1>5, FS_RemoveElement
<1>7. Cardinality(A) <= Cardinality(B \ {j}) /\ IsFiniteSet(A)
  BY <1>4, <1>6, FS_Subset
<1>8. Cardinality(A) \in Nat /\ Cardinality(B) \in Nat
  BY <1>5, <1>7, FS_CardinalityType
<1> QED
  BY <1>6, <1>7, <1>8 DEF A, B

(* Two constraints of one table get two names, given or made from their     *)
(* structure.                                                               *)
LEMMA NamesOfRowsDiffer ==
  ASSUME NEW rows, rows \in Seq(Range(rows)), NameRules(rows),
         NEW i \in DOMAIN rows, NEW j \in DOMAIN rows, OneTable(rows, i, j),
         ConstraintName(rows, i) = ConstraintName(rows, j)
  PROVE  i = j
<1> DEFINE given(l) == CHOOSE n \in rows[l].given : TRUE
<1>1. \A l \in {i, j} :
        /\ Given(rows[l]) => /\ ConstraintName(rows, l) = [auto |-> FALSE, text |-> <<given(l)>>, nth |-> 1]
                             /\ given(l) \in rows[l].given
        /\ ~Given(rows[l]) => ConstraintName(rows, l) =
             [auto |-> TRUE, text |-> Structure(rows[l]), nth |-> Cardinality(Likewise(rows, l))]
  BY DEF ConstraintName, GivenName, Given, Likewise
<1> HIDE DEF given
<1>2. i \in Nat /\ j \in Nat
  OBVIOUS
<1>3. CASE Given(rows[i]) /\ Given(rows[j])
  <2>1. given(i) = given(j)
    BY <1>1, <1>3
  <2>2. given(i) \in rows[i].given /\ given(j) \in rows[j].given
    BY <1>1, <1>3
  <2> QED
    BY <2>1, <2>2 DEF NameRules
<1>4. Given(rows[i]) <=> Given(rows[j])
  BY <1>1
<1>5. CASE ~Given(rows[i]) /\ ~Given(rows[j])
  <2>1. /\ Structure(rows[i]) = Structure(rows[j])
        /\ Cardinality(Likewise(rows, i)) = Cardinality(Likewise(rows, j))
    BY <1>1, <1>5
  <2>2. OneTable(rows, j, i)
    BY DEF OneTable
  <2>3. ~(i < j)
    BY <1>5, <2>1, NumberGrows
  <2>4. ~(j < i)
    BY <1>5, <2>1, <2>2, NumberGrows
  <2> QED
    BY <1>2, <2>3, <2>4
<1> QED
  BY <1>3, <1>4, <1>5

(* Rows that keep the rules of the engine give a table at most one primary  *)
(* key.                                                                     *)
LEMMA PrimaryOfRows ==
  ASSUME NEW rows, PrimaryRules(rows), NEW t
  PROVE  AtMostOne(PrimaryKeyOf(rows, t)) /\ \A k \in PrimaryKeyOf(rows, t) : IsPrimaryKey(k)
<1>1. \A i, j \in RowsOf(rows, t) : i = j
  BY DEF RowsOf, OfTable, PrimaryRules, OneTable
<1>2. \A k \in PrimaryKeyOf(rows, t) : \E i \in RowsOf(rows, t) :
        k = [name |-> PrimaryName(rows[i]), columns |-> rows[i].columns]
  BY DEF PrimaryKeyOf
<1>3. \A i \in RowsOf(rows, t) : rows[i].columns \in Seq(Names)
  BY DEF RowsOf, PrimaryRules
<1>4. \A k \in PrimaryKeyOf(rows, t) : IsPrimaryKey(k)
  BY <1>2, <1>3 DEF IsPrimaryKey
<1> QED
  BY <1>1, <1>2, <1>4 DEF AtMostOne

(* Rows that keep the rules of the engine give a table at most one foreign  *)
(* key of a name.                                                           *)
LEMMA ForeignOfRows ==
  ASSUME NEW rows, ForeignRules(rows), NEW t
  PROVE  /\ \A c : AtMostOne(ByName(ForeignKeysOf(rows, t), c))
         /\ \A f \in ForeignKeysOf(rows, t) : IsReference(f)
<1> DEFINE key(i) == [name |-> ConstraintName(rows, i), columns |-> rows[i].columns,
                      rschema |-> rows[i].rschema, rtable |-> rows[i].rtable,
                      rcolumns |-> rows[i].rcolumns, rules |-> rows[i].rules]
<1>1. ForeignKeysOf(rows, t) = {key(i) : i \in RowsOf(rows, t)}
  BY DEF ForeignKeysOf
<1>2. \A i \in RowsOf(rows, t) : i \in DOMAIN rows /\ IsReference(key(i))
  BY DEF RowsOf, ForeignRules, IsReference, IsForeignKey
<1>3. \A i : key(i).name = ConstraintName(rows, i)
  OBVIOUS
<1> HIDE DEF key
<1>4. ASSUME NEW i \in RowsOf(rows, t), NEW j \in RowsOf(rows, t), ConstraintName(rows, i) = ConstraintName(rows, j)
      PROVE  i = j
  <2>1. OneTable(rows, i, j) /\ i \in DOMAIN rows /\ j \in DOMAIN rows
    BY DEF RowsOf, OfTable, OneTable
  <2> QED
    BY <1>4, <2>1, NamesOfRowsDiffer DEF ForeignRules
<1>5. \A c : AtMostOne(ByName(ForeignKeysOf(rows, t), c))
  BY <1>1, <1>3, <1>4 DEF AtMostOne, ByName
<1> QED
  BY <1>1, <1>2, <1>5

(* Rows that keep the rules of the engine give a table at most one index of *)
(* a name.                                                                  *)
LEMMA IndexesOfRows ==
  ASSUME NEW rows, IndexRules(rows), NEW t
  PROVE  /\ \A c : AtMostOne(ByName(IndexesOf(rows, t), c))
         /\ \A i \in IndexesOf(rows, t) : IsIndex(i)
<1> DEFINE index(i) == [name |-> ConstraintName(rows, i), columns |-> rows[i].columns,
                        included |-> rows[i].included, unique |-> rows[i].unique]
<1>1. IndexesOf(rows, t) = {index(i) : i \in RowsOf(rows, t)}
  BY DEF IndexesOf
<1>2. \A i \in RowsOf(rows, t) : i \in DOMAIN rows /\ IsIndex(index(i))
  BY DEF RowsOf, IndexRules, IsIndex
<1>3. \A i : index(i).name = ConstraintName(rows, i)
  OBVIOUS
<1> HIDE DEF index
<1>4. ASSUME NEW i \in RowsOf(rows, t), NEW j \in RowsOf(rows, t), ConstraintName(rows, i) = ConstraintName(rows, j)
      PROVE  i = j
  <2>1. OneTable(rows, i, j) /\ i \in DOMAIN rows /\ j \in DOMAIN rows
    BY DEF RowsOf, OfTable, OneTable
  <2> QED
    BY <1>4, <2>1, NamesOfRowsDiffer DEF IndexRules
<1>5. \A c : AtMostOne(ByName(IndexesOf(rows, t), c))
  BY <1>1, <1>3, <1>4 DEF AtMostOne, ByName
<1> QED
  BY <1>1, <1>2, <1>5

(* A snapshot of rows that keep the rules of the engine: one primary key,   *)
(* one part of a name, finitely many of everything.                         *)
LEMMA SnapshotOfRows ==
  ASSUME NEW p, NEW rows, TableRules(rows.tables), IsFiniteSet(rows.routines),
         PrimaryRules(rows.primary), ForeignRules(rows.foreign), IndexRules(rows.indexes)
  PROVE  LET s == Snapshot(p, rows)
         IN /\ IsFiniteSet(s.tables) /\ IsFiniteSet(s.routines)
            /\ s.keyed => s.default = {}
            /\ \A t \in s.tables :
                 /\ IsFiniteSet(t.columns) /\ \A c, d \in t.columns : c.name = d.name => c = d
                 /\ AtMostOne(t.primary) /\ \A k \in t.primary : IsPrimaryKey(k)
                 /\ \A c : AtMostOne(ByName(t.indexes, c)) /\ AtMostOne(ByName(t.foreign, c))
                 /\ \A i \in t.indexes : IsIndex(i)
                 /\ \A f \in t.foreign : IsReference(f)
<1> DEFINE s == Snapshot(p, rows)
           table(t) == [schema |-> t.schema, name |-> t.name, columns |-> t.columns,
                        primary |-> PrimaryKeyOf(rows.primary, t),
                        foreign |-> ForeignKeysOf(rows.foreign, t),
                        indexes |-> IndexesOf(rows.indexes, t)]
           built == [t \in rows.tables |-> table(t)]
<1>1. s = [default |-> DefaultSchema(p, rows), keyed |-> Provider[p] = "sqlserver",
           tables |-> {table(t) : t \in rows.tables}, routines |-> rows.routines]
  BY DEF Snapshot
<1> HIDE DEF s
<1>2. /\ s.tables = {table(t) : t \in rows.tables} /\ s.routines = rows.routines
      /\ s.default = DefaultSchema(p, rows) /\ (s.keyed <=> Provider[p] = "sqlserver")
  BY <1>1
<1>3. IsFiniteSet(s.tables)
  <2>1. built \in Surjection(rows.tables, s.tables)
    BY <1>2 DEF Surjection
  <2> QED
    BY <2>1, FS_Surjection DEF TableRules
<1>4. s.keyed => s.default = {}
  <2> SUFFICES ASSUME s.keyed PROVE s.default = {}
    OBVIOUS
  <2>1. Provider[p] = "sqlserver"
    BY <1>2
  <2>2. Provider[p] \notin {"mysql", "mariadb"} /\ Provider[p] # "oracle"
    BY <2>1
  <2>3. DefaultSchema(p, rows) = {}
    BY <2>2, Zenon DEF DefaultSchema
  <2> QED
    BY <1>2, <2>3
<1>5. ASSUME NEW t \in rows.tables
      PROVE  LET u == table(t)
             IN /\ IsFiniteSet(u.columns) /\ \A c, d \in u.columns : c.name = d.name => c = d
                /\ AtMostOne(u.primary) /\ \A k \in u.primary : IsPrimaryKey(k)
                /\ \A c : AtMostOne(ByName(u.indexes, c)) /\ AtMostOne(ByName(u.foreign, c))
                /\ \A i \in u.indexes : IsIndex(i)
                /\ \A f \in u.foreign : IsReference(f)
  BY PrimaryOfRows, ForeignOfRows, IndexesOfRows DEF TableRules
<1> HIDE DEF table
<1> QED
  BY <1>2, <1>3, <1>4, <1>5 DEF s

(* What is compared, in every state, is what the lemmas above are about.    *)
LEMMA SnapshotsAreFit ==
  ASSUME TypeOK, RowsNamed, RowsRuled
  PROVE  Countable(Snapshots) /\ Columned(Snapshots) /\ Parted(Snapshots) /\ IsOrder(chosen, Snapshots)
<1>1. /\ Snaps(Snapshots) /\ Filters(Snapshots, AllSnapshots, excluded)
      /\ IsOrder(chosen, AllSnapshots)
  BY SnapshotsAreSnaps
<1>2. DOMAIN AllSnapshots = Range(chosen) /\ DOMAIN Snapshots = Range(chosen)
  BY DEF AllSnapshots, Snapshots
<1>3. IsFiniteSet(Range(chosen))
  <2>1. chosen \in Seq(Profiles) /\ DOMAIN chosen = 1 .. Len(chosen) /\ Len(chosen) \in Nat
    BY SelectionsAreSequences DEF TypeOK
  <2>2. IsFiniteSet(DOMAIN chosen)
    BY <2>1, FS_Interval
  <2>3. chosen \in Surjection(DOMAIN chosen, Range(chosen))
    BY <2>1 DEF Surjection, Range
  <2> QED
    BY <2>2, <2>3, FS_Surjection
<1>4. IsOrder(chosen, Snapshots)
  BY <1>1, <1>2 DEF IsOrder
<1>5. ASSUME NEW p \in Range(chosen)
      PROVE  LET s == AllSnapshots[p]
             IN /\ IsFiniteSet(s.tables) /\ IsFiniteSet(s.routines)
                /\ s.keyed => s.default = {}
                /\ \A t \in s.tables :
                     /\ IsFiniteSet(t.columns) /\ \A c, d \in t.columns : c.name = d.name => c = d
                     /\ AtMostOne(t.primary) /\ \A k \in t.primary : IsPrimaryKey(k)
                     /\ \A c : AtMostOne(ByName(t.indexes, c)) /\ AtMostOne(ByName(t.foreign, c))
                     /\ \A i \in t.indexes : IsIndex(i)
                     /\ \A f \in t.foreign : IsReference(f)
  BY SnapshotOfRows DEF RowsRuled, AllSnapshots
<1>6. ASSUME NEW p \in Range(chosen)
      PROVE  /\ Snapshots[p].tables \subseteq AllSnapshots[p].tables
             /\ Snapshots[p].routines \subseteq AllSnapshots[p].routines
             /\ Snapshots[p].keyed = AllSnapshots[p].keyed
             /\ Snapshots[p].default = AllSnapshots[p].default
  BY <1>1, <1>2 DEF Filters, SameDefaults, Shown
<1>7. ASSUME NEW p \in Range(chosen)
      PROVE  IsFiniteSet(Snapshots[p].tables) /\ IsFiniteSet(Snapshots[p].routines)
  BY <1>5, <1>6, FS_Subset
<1>8. Countable(Snapshots)
  BY <1>1, <1>2, <1>3, <1>7 DEF Countable
<1>9. Columned(Snapshots)
  BY <1>2, <1>5, <1>6 DEF Columned
<1>10. Parted(Snapshots)
  BY <1>2, <1>5, <1>6 DEF Parted
<1> QED
  BY <1>4, <1>8, <1>9, <1>10

(* Of any snapshots whose names are clear, and whose generated names do not *)
(* differ in case alone, the findings of the engine are the differences of  *)
(* the reference definition, kind by kind.                                  *)
THEOREM DifferencesAreFound ==
  ASSUME NEW S, Countable(S), Columned(S), Parted(S), NEW order, IsOrder(order, S),
         Clear(S, "tables"), Clear(S, "routines"), NoNoiseOfCase(S)
  PROVE  LET T == CanonicalTables(order, S)
             R == CanonicalRoutines(S)
             P == {p \in DOMAIN S : S[p].keyed}
         IN /\ MissingObjects(T) = ReferenceMissing(S, "tables")
            /\ MissingColumns(T) = OnTables(S, ReferenceMissingColumns)
            /\ ColumnMismatches(T) = OnTables(S, ReferenceColumns)
            /\ {f.table : f \in PrimaryKeyMismatches(T, P)} = ReferencePrimary(S)
            /\ PartNames(NamedMismatches(T, P, "foreign")) = OnTables(S, ReferenceForeign)
            /\ PartNames(NamedMismatches(T, P, "indexes")) = OnTables(S, ReferenceIndexes)
            /\ MissingObjects(R) = ReferenceMissing(S, "routines")
            /\ {f.object : f \in Mismatches(R, DOMAIN R)} = ReferenceRoutines(S)
<1>1. "tables" \in Kinds /\ "routines" \in Kinds
  BY DEF Kinds
<1>2. /\ OneEach(KeysOf(S, "tables")) /\ NamesApart(KeysOf(S, "tables"))
      /\ OneEach(KeysOf(S, "routines")) /\ NamesApart(KeysOf(S, "routines"))
  BY <1>1, ClearIsOneEach, ClearIsNamesApart
<1>3. Matched(S)
  BY <1>2, TableKeysAre DEF Matched
<1>4. {p \in DOMAIN S : S[p].keyed} = Keyed(S)
  BY DEF Keyed
<1>5. MissingObjects(CanonicalTables(order, S)) = ReferenceMissing(S, "tables")
  <2>1. Indexed(CanonicalTables(order, S), KeysOf(S, "tables"), CanonicalObjects(KeysOf(S, "tables")))
    BY <1>3, CanonicalTablesAre, TableKeysAre DEF TableNames
  <2> QED
    BY <1>1, <1>2, <2>1, MissingAreMissing
<1>6. MissingObjects(CanonicalRoutines(S)) = ReferenceMissing(S, "routines")
  <2>1. Indexed(CanonicalRoutines(S), KeysOf(S, "routines"), CanonicalObjects(KeysOf(S, "routines")))
    BY <1>2, RoutinesAre
  <2> QED
    BY <1>1, <1>2, <2>1, MissingAreMissing
<1>7. /\ MissingColumns(CanonicalTables(order, S)) = OnTables(S, ReferenceMissingColumns)
      /\ ColumnMismatches(CanonicalTables(order, S)) = OnTables(S, ReferenceColumns)
  BY <1>3, MissingColumnsAre, ColumnMismatchesAre
<1>8. /\ {f.table : f \in PrimaryKeyMismatches(CanonicalTables(order, S), Keyed(S))} = ReferencePrimary(S)
      /\ PartNames(NamedMismatches(CanonicalTables(order, S), Keyed(S), "foreign")) = OnTables(S, ReferenceForeign)
      /\ PartNames(NamedMismatches(CanonicalTables(order, S), Keyed(S), "indexes")) = OnTables(S, ReferenceIndexes)
  BY <1>3, PrimaryKeysAre, ForeignKeysAre, IndexesAre
<1>9. {f.object : f \in Mismatches(CanonicalRoutines(S), DOMAIN CanonicalRoutines(S))} = ReferenceRoutines(S)
  BY <1>2, RoutinesDiffer
<1> QED
  BY <1>4, <1>5, <1>6, <1>7, <1>8, <1>9

(* Whatever the databases, engines, spellings and selections, and whatever  *)
(* other sessions change while they are read: a comparison that ends finds, *)
(* of what it read, exactly the tables, columns, routines, keys and indexes *)
(* that differ when objects are matched by pairs, as ADR 0007 and 0008 say, *)
(* although canonicalize() never looks at pairs: it gives each object a key *)
(* by _keys(), rewrites every name, reference and part by it, and the       *)
(* engine then compares by equality.  Excepted are the selections where the *)
(* names do not say what is the same object (Clear), and those with names   *)
(* SQL Server generated that differ in case alone (NoNoiseOfCase), which the*)
(* code reports.                                                            *)
THEOREM FindingsAreRight == Spec => []FindingsAreTheDifferences
<1>1. TypeOK /\ RowsInv => FindingsAreTheDifferences
  <2> DEFINE S == Snapshots
             T == CanonicalTables(chosen, S)
             R == CanonicalRoutines(S)
             P == {p \in DOMAIN S : S[p].keyed}
             comparable == OneProvider(DOMAIN S)
  <2> SUFFICES ASSUME TypeOK, RowsInv, outcome = "done", Clear(S, "tables"), Clear(S, "routines"),
                      NoNoiseOfCase(S)
               PROVE  /\ findings.missingTables = ReferenceMissing(S, "tables")
                      /\ findings.missingColumns = OnTables(S, ReferenceMissingColumns)
                      /\ findings.columns = OnTables(S, ReferenceColumns)
                      /\ {f.table : f \in findings.primary} = ReferencePrimary(S)
                      /\ PartNames(findings.foreign) = OnTables(S, ReferenceForeign)
                      /\ PartNames(findings.indexes) = OnTables(S, ReferenceIndexes)
                      /\ findings.missingRoutines = IF comparable THEN ReferenceMissing(S, "routines") ELSE {}
                      /\ {f.object : f \in findings.routines} = IF comparable THEN ReferenceRoutines(S) ELSE {}
    BY Zenon DEF FindingsAreTheDifferences, PartNames
  <2>1. findings = CompareSnapshots(chosen, S)
    BY DEF RowsInv, Computed
  <2>2. /\ findings.missingTables = MissingObjects(T) /\ findings.missingColumns = MissingColumns(T)
        /\ findings.columns = ColumnMismatches(T) /\ findings.primary = PrimaryKeyMismatches(T, P)
        /\ findings.foreign = NamedMismatches(T, P, "foreign")
        /\ findings.indexes = NamedMismatches(T, P, "indexes")
        /\ findings.missingRoutines = IF comparable THEN MissingObjects(R) ELSE {}
        /\ findings.routines = IF comparable THEN Mismatches(R, DOMAIN R) ELSE {}
    BY <2>1 DEF CompareSnapshots
  <2>3. Countable(S) /\ Columned(S) /\ Parted(S) /\ IsOrder(chosen, S)
    BY SnapshotsAreFit DEF RowsInv
  <2>4. /\ MissingObjects(T) = ReferenceMissing(S, "tables")
        /\ MissingColumns(T) = OnTables(S, ReferenceMissingColumns)
        /\ ColumnMismatches(T) = OnTables(S, ReferenceColumns)
        /\ {f.table : f \in PrimaryKeyMismatches(T, P)} = ReferencePrimary(S)
        /\ PartNames(NamedMismatches(T, P, "foreign")) = OnTables(S, ReferenceForeign)
        /\ PartNames(NamedMismatches(T, P, "indexes")) = OnTables(S, ReferenceIndexes)
        /\ MissingObjects(R) = ReferenceMissing(S, "routines")
        /\ {f.object : f \in Mismatches(R, DOMAIN R)} = ReferenceRoutines(S)
    BY <2>3, DifferencesAreFound
  <2>5. {f.object : f \in findings.routines} = IF comparable THEN ReferenceRoutines(S) ELSE {}
    <3> HIDE DEF S, R
    <3> QED
      BY <2>2, <2>4
  <2> QED
    BY <2>2, <2>4, <2>5
<1> QED
  BY <1>1, RowsAreRead, PTL
===================================================================================
