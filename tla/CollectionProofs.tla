-------------------------- MODULE CollectionProofs --------------------------
(***************************************************************************)
(* What holds of a collection for every number of rows and every set of    *)
(* values, shards and keys (Collection with its indexes and columns in     *)
(* store.js, DerivedStateScheduler).                                       *)
(*                                                                         *)
(* StateInv holds in every scenario: the rows are the ones that were       *)
(* written, the rows of a shard are the ones assigned to it, a row is      *)
(* dirty once and has one catch-up, and a vector index that is built holds *)
(* what is stored.  MatchInv adds, in a regular scenario, that rows, index *)
(* and column together have the fields that were written, at every moment  *)
(* of a build, of a replay and of a catch-up: what a build has scanned so  *)
(* far is what was written, but for the rows whose change it is to replay. *)
(***************************************************************************)
EXTENDS Collection, NatLemmas, SequenceTheorems

----------------------------------------------------------------------------
\* Recursive functions: one that takes n steps within a set, each a function of the
\* one before, exists and is the only one.

Closed(F, n, S) == \A i \in 1..n, x \in S : F[<<i, x>>] \in S
Steps(g, F, b, n, S) ==
    g \in [0..n -> S] /\ g[0] = b /\ \A i \in 1..n : g[i] = F[<<i, g[i - 1]>>]

LEMMA StepsExist ==
    ASSUME NEW S, NEW b \in S, NEW n \in Nat, NEW F, Closed(F, n, S)
    PROVE  \E g : Steps(g, F, b, n, S)
<1> DEFINE Is(g, m) == /\ g \in [0..m -> S] /\ g[0] = b
                       /\ \A i \in 1..m : g[i] = F[<<i, g[i - 1]>>]
           T == {m \in Nat : m <= n => \E g : Is(g, m)}
<1>1. 0 \in T
    <2>1. Is([i \in 0..0 |-> b], 0)  OBVIOUS
    <2> QED  BY <2>1
<1>2. ASSUME NEW m \in Nat, m \in T PROVE m + 1 \in T
    <2> SUFFICES ASSUME m + 1 <= n PROVE \E g : Is(g, m + 1)
        <3> HIDE DEF Is
        <3> QED  OBVIOUS
    <2>1. PICK g : Is(g, m)  BY <1>2
    <2> DEFINE last == F[<<m + 1, g[m]>>]
               h == [i \in 0..m+1 |-> IF i <= m THEN g[i] ELSE last]
    <2>2. last \in S
        <3>1. m + 1 \in 1..n /\ g[m] \in S  BY <2>1
        <3> QED  BY <3>1 DEF Closed
    <2>3. h \in [0..m+1 -> S] /\ h[0] = b  BY <2>1, <2>2
    <2>4. ASSUME NEW i \in 1..m+1 PROVE h[i] = F[<<i, h[i - 1]>>]
        <3>1. CASE i \in 1..m
            <4>1. h[i] = g[i] /\ h[i - 1] = g[i - 1]  BY <3>1
            <4>2. g[i] = F[<<i, g[i - 1]>>]  BY <2>1, <3>1
            <4> QED  BY <4>1, <4>2
        <3>2. CASE i = m + 1
            <4>1. h[i] = last /\ h[i - 1] = g[m]  BY <3>2
            <4> HIDE DEF h
            <4> QED  BY <3>2, <4>1
        <3> QED  BY <3>1, <3>2
    <2> HIDE DEF h
    <2> QED  BY <2>3, <2>4
<1>3. n \in T
    <2> HIDE DEF T
    <2> QED  BY <1>1, <1>2, NatSetInduction
<1>4. PICK g : Is(g, n)  BY <1>3
<1> QED  BY <1>4 DEF Steps

StepAlike(f, g, n) == f[0] = g[0] /\ \A i \in 1..n : f[i - 1] = g[i - 1] => f[i] = g[i]
SameUpTo(f, g, n) == \A i \in 0..n : f[i] = g[i]

LEMMA SameSteps ==
    ASSUME NEW n \in Nat, NEW f, NEW g, StepAlike(f, g, n)
    PROVE  SameUpTo(f, g, n)
<1> DEFINE T == {m \in Nat : m <= n => f[m] = g[m]}
<1>0. f[0] = g[0] /\ \A i \in 1..n : f[i - 1] = g[i - 1] => f[i] = g[i]  BY DEF StepAlike
<1>1. 0 \in T  BY <1>0
<1>2. ASSUME NEW m \in Nat, m \in T PROVE m + 1 \in T
    <2>1. m + 1 <= n => m + 1 \in 1..n /\ m + 1 - 1 = m  OBVIOUS
    <2>2. m + 1 <= n => f[m] = g[m]  BY <1>2
    <2>3. m + 1 <= n => f[m + 1] = g[m + 1]  BY <1>0, <2>1, <2>2
    <2> QED  BY <2>3
<1>3. \A m \in Nat : m \in T
    <2> HIDE DEF T
    <2> QED  BY <1>1, <1>2, NatSetInduction
<1> QED  BY <1>3 DEF SameUpTo

----------------------------------------------------------------------------
\* Vectors.

VectorEntry ==
    [status : {"none", "building", "ready"}, nodes : [Rids -> Nat],
     visited : SUBSET Rids, id : Nat]
VectorState ==
    [stored : [Rids -> Nat], placement : [Rids -> Shards], entries : [Keys -> VectorEntry],
     ids : Nat]

\* What the index of a key holds of a row once the row is indexed.
Held(v, k, r) == IF v.placement[r] \in k THEN v.stored[r] ELSE NoVector

\* An index that is not there knows nothing, one that is built knows of every row
\* nothing or what it should, and a row it has visited it knows.
EntryOk(v, k) ==
    LET e == v.entries[k]
    IN /\ e.status = "none" => e = NoEntry
       /\ \A r \in Rids : /\ e.nodes[r] \in {NoVector, Held(v, k, r)}
                          /\ r \in e.visited => e.nodes[r] = Held(v, k, r)
                          /\ e.status = "ready" => e.nodes[r] = Held(v, k, r)

Token == [key : Keys, id : Nat \ {0}]

VectorsOk(v, w) ==
    /\ v \in VectorState
    /\ \A k \in Keys : EntryOk(v, k)
    /\ \A r \in Rids : v.stored[r] # NoVector => w[r] # Gone

LEMMA NoEntryType == NoEntry \in VectorEntry
BY DEF NoEntry, VectorEntry, NoVector

LEMMA SetVectorOk ==
    ASSUME NEW v, NEW w, NEW r \in Rids, NEW x \in Nat, VectorsOk(v, w), w[r] # Gone
    PROVE  VectorsOk(SetVector(v, r, x), w)
<1> DEFINE n == SetVector(v, r, x)
           told(k) == v.entries[k].status # "none" /\ v.placement[r] \in k
<1>1. v \in VectorState  BY DEF VectorsOk
<1>2. /\ n.stored = [v.stored EXCEPT ![r] = x]
      /\ n.placement = v.placement /\ n.ids = v.ids
      /\ n.entries = [k \in Keys |-> IF told(k) THEN [v.entries[k] EXCEPT !.nodes[r] = x]
                                     ELSE v.entries[k]]
    BY <1>1 DEF SetVector, VectorState
<1>3. n \in VectorState
    <2>1. \A k \in Keys : v.entries[k] \in VectorEntry  BY <1>1 DEF VectorState
    <2>2. \A k \in Keys : [v.entries[k] EXCEPT !.nodes[r] = x] \in VectorEntry  BY <2>1 DEF VectorEntry
    <2> QED  BY <1>1, <2>1, <2>2 DEF VectorState, SetVector
<1>4. ASSUME NEW k \in Keys PROVE EntryOk(n, k)
    <2>1. v.entries[k] \in VectorEntry  BY <1>1 DEF VectorState
    <2>2. EntryOk(v, k)  BY DEF VectorsOk
    <2> DEFINE e == v.entries[k]
               e2 == n.entries[k]
    <2>3. e2 = IF told(k) THEN [e EXCEPT !.nodes[r] = x] ELSE e  BY <1>2
    <2>4. \A q \in Rids : Held(n, k, q) = IF q = r /\ v.placement[r] \in k THEN x ELSE Held(v, k, q)
        BY <1>1, <1>2 DEF Held, VectorState
    <2> HIDE DEF n
    <2>5. CASE told(k)
        <3>1. e2.status = e.status /\ e2.nodes = [e.nodes EXCEPT ![r] = x] /\ e2.visited = e.visited
            BY <2>1, <2>3, <2>5 DEF VectorEntry
        <3>2. \A q \in Rids : e2.nodes[q] = IF q = r THEN x ELSE e.nodes[q]
            BY <2>1, <3>1 DEF VectorEntry
        <3> HIDE DEF e, e2
        <3> QED  BY <2>2, <2>4, <2>5, <3>1, <3>2 DEF EntryOk, e, e2
    <2>6. CASE ~told(k)
        <3>1. e2 = e  BY <2>3, <2>6
        <3>2. e.status = "none" => e = NoEntry  BY <2>2 DEF EntryOk
        <3>3. e.status = "none" => \A q \in Rids : e.nodes[q] = NoVector /\ e.visited = {}  BY <3>2 DEF NoEntry
        <3> HIDE DEF e, e2
        <3> QED  BY <2>2, <2>4, <2>6, <3>1, <3>3 DEF EntryOk, e, e2
    <2> QED  BY <2>5, <2>6
<1>5. \A q \in Rids : n.stored[q] = IF q = r THEN x ELSE v.stored[q]  BY <1>1, <1>2 DEF VectorState
<1>6. VectorsOk(n, w)
    <2> HIDE DEF n
    <2> QED  BY <1>3, <1>4, <1>5 DEF VectorsOk
<1> QED  BY <1>6

LEMMA RemoveVectorOk ==
    ASSUME NEW v, NEW w, NEW r \in Rids, VectorsOk(v, w)
    PROVE  /\ VectorsOk(RemoveVector(v, r), w)
           /\ RemoveVector(v, r).stored = [v.stored EXCEPT ![r] = NoVector]
<1> DEFINE n == RemoveVector(v, r)
           E(e) == [e EXCEPT !.nodes[r] = NoVector, !.visited = @ \ {r}]
<1>1. v \in VectorState  BY DEF VectorsOk
<1>2. /\ n.stored = [v.stored EXCEPT ![r] = NoVector]
      /\ n.placement = v.placement /\ n.ids = v.ids
      /\ n.entries = [k \in Keys |-> E(v.entries[k])]
    BY <1>1 DEF RemoveVector, VectorState
<1>3. n \in VectorState
    <2>1. \A k \in Keys : v.entries[k] \in VectorEntry  BY <1>1 DEF VectorState
    <2>2. \A k \in Keys : E(v.entries[k]) \in VectorEntry  BY <2>1 DEF VectorEntry, NoVector
    <2> HIDE DEF E
    <2>3. n.entries \in [Keys -> VectorEntry]  BY <1>2, <2>2
    <2>4. n = [v EXCEPT !.stored = [v.stored EXCEPT ![r] = NoVector], !.entries = n.entries]
        BY <1>1, <1>2 DEF RemoveVector, E
    <2>5. [v.stored EXCEPT ![r] = NoVector] \in [Rids -> Nat]  BY <1>1 DEF VectorState, NoVector
    <2> HIDE DEF n
    <2> QED  BY <1>1, <2>3, <2>4, <2>5 DEF VectorState
<1>4. ASSUME NEW k \in Keys PROVE EntryOk(n, k)
    <2>1. v.entries[k] \in VectorEntry  BY <1>1 DEF VectorState
    <2>2. EntryOk(v, k)  BY DEF VectorsOk
    <2> DEFINE e == v.entries[k]
               e2 == n.entries[k]
    <2>3. e2 = E(e)  BY <1>2
    <2>4. \A q \in Rids : Held(n, k, q) = IF q = r THEN NoVector ELSE Held(v, k, q)
        BY <1>1, <1>2 DEF Held, VectorState
    <2>5. /\ e2.status = e.status /\ e2.nodes = [e.nodes EXCEPT ![r] = NoVector]
          /\ e2.visited = e.visited \ {r} /\ e2.id = e.id
        BY <2>1, <2>3 DEF VectorEntry
    <2>6. \A q \in Rids : e2.nodes[q] = IF q = r THEN NoVector ELSE e.nodes[q]
        BY <2>1, <2>5 DEF VectorEntry
    <2>7. e2.status = "none" => e2 = NoEntry
        <3>1. e.status = "none" => e = NoEntry  BY <2>2 DEF EntryOk
        <3>2. /\ NoEntry.nodes = [q \in Rids |-> NoVector] /\ NoEntry.visited = {}
              /\ NoEntry.status = "none" /\ NoEntry.id = 0
            BY DEF NoEntry
        <3>3. NoEntry \in VectorEntry  BY NoEntryType
        <3>4. [NoEntry.nodes EXCEPT ![r] = NoVector] = NoEntry.nodes  BY <3>2
        <3>5. NoEntry.visited \ {r} = NoEntry.visited  BY <3>2
        <3>6. [NoEntry EXCEPT !.nodes = NoEntry.nodes, !.visited = NoEntry.visited] = NoEntry
            BY <3>3 DEF VectorEntry
        <3>7. E(NoEntry) = NoEntry
            <4> HIDE DEF NoEntry
            <4> QED  BY <3>4, <3>5, <3>6
        <3> QED  BY <2>3, <2>5, <3>1, <3>7
    <2> HIDE DEF n, E, e, e2
    <2> QED  BY <2>2, <2>4, <2>5, <2>6, <2>7 DEF EntryOk, e, e2
<1>5. \A q \in Rids : n.stored[q] = IF q = r THEN NoVector ELSE v.stored[q]  BY <1>1, <1>2 DEF VectorState
<1> QED
    <2>1. VectorsOk(n, w)
        <3> HIDE DEF n
        <3> QED  BY <1>3, <1>4, <1>5 DEF VectorsOk
    <2> QED  BY <1>2, <2>1

LEMMA ApplyVectorUpdateOk ==
    ASSUME NEW v, NEW w, NEW r \in Rids, NEW x \in Nat, VectorsOk(v, w), w[r] # Gone
    PROVE  VectorsOk(ApplyVectorUpdate(v, r, x), w)
BY SetVectorOk, RemoveVectorOk DEF ApplyVectorUpdate

----------------------------------------------------------------------------
\* The types of a collection.

IndexType == [entries : SUBSET (Rids \X Fields), forward : [Rids -> Cells]]
Change == [before : Cells, after : Cells]
BuildType == [status : {"none", "building", "error"}, token : Nat, pending : [Rids -> Change]]
ColumnType ==
    [status : {"ready", "building", "error"}, vals : [Rids -> Fields],
     pending : [Rids -> Fields \cup {Untouched}], id : Nat, sum : Int, numbers : Int,
     entries : Int]
Shape ==
    [exists : BOOLEAN, rows : Nat, base : [Rids -> Cells],
     meta : [index : BOOLEAN, column : BOOLEAN],
     indexed : BOOLEAN, index : IndexType, build : BuildType, tokens : Nat,
     columned : BOOLEAN, column : ColumnType,
     dirty : Seq(Rids), dirtyBuild : BOOLEAN, indexBuildPending : BOOLEAN,
     live : Int, shard : [Rids -> Shards \cup {NoShard}],
     shardRids : [Shards -> SUBSET Rids], unsharded : Int]

Delta == [rid : Rids, before : Cells, after : Cells]
RowType == [rid : Rids, field : Fields, shard : Shards \cup {NoShard}]

Once(s) == \A i, j \in 1..Len(s) : s[i] = s[j] => i = j

LEMMA CellFacts ==
    /\ Values \subseteq Nat /\ Values \subseteq Fields /\ Fields \subseteq Cells
    /\ Absent \in Fields /\ Null \in Fields
    /\ Gone \in Cells /\ Gone \notin Fields /\ Absent # Gone /\ Absent \notin Values
    /\ Untouched \notin Cells /\ \A v \in Cells : v # Gone => v \in Fields
BY DerivedStateAssumption DEF DerivedStateAssumption, Fields, Cells, Null, Absent, Gone, Untouched

LEMMA RidFacts == Rids \subseteq Nat \ {0} /\ MaxRid \in Nat /\ IsFiniteSet(Rids)
<1>1. MaxRid \in Nat  BY DerivedStateAssumption DEF DerivedStateAssumption
<1> QED  BY <1>1, FS_Interval DEF Rids

----------------------------------------------------------------------------
\* The index.

LEMMA EmptyIndexType == EmptyIndex \in IndexType
BY CellFacts DEF EmptyIndex, IndexType

LEMMA AddValueType ==
    ASSUME NEW index \in IndexType, NEW r \in Rids, NEW v \in Fields
    PROVE  AddValue(index, r, v) \in IndexType
BY CellFacts DEF AddValue, IndexType

LEMMA RemoveValueType ==
    ASSUME NEW index \in IndexType, NEW r \in Rids, NEW v
    PROVE  RemoveValue(index, r, v) \in IndexType
BY CellFacts DEF RemoveValue, IndexType

LEMMA MovedType ==
    ASSUME NEW index \in IndexType, NEW r \in Rids, NEW before \in Cells, NEW after \in Cells
    PROVE  Moved(index, r, before, after) \in IndexType
BY CellFacts, AddValueType, RemoveValueType DEF Moved

LEMMA RemoveRidType ==
    ASSUME NEW index \in IndexType, NEW r \in Rids
    PROVE  RemoveRid(index, r) \in IndexType
BY CellFacts, RemoveValueType DEF RemoveRid

----------------------------------------------------------------------------
\* The column.

LEMMA EmptyColumnType == EmptyColumn \in ColumnType
BY CellFacts DEF EmptyColumn, ColumnType

LEMMA NumberType ==
    ASSUME NEW v
    PROVE  Number(v) \in Int
<1>1. v \in Values => v \in Int  BY CellFacts
<1> QED  BY <1>1 DEF Number

LEMMA OneType ==
    ASSUME NEW b
    PROVE  One(b) \in {0, 1}
BY DEF One

LEMMA ColumnStateType == \A v \in Cells : ColumnState(v) \in Fields
BY CellFacts DEF ColumnState

LEMMA ApplyStateFacts ==
    ASSUME NEW column \in ColumnType, NEW r \in Rids, NEW v \in Fields
    PROVE  /\ ApplyState(column, r, v) \in ColumnType
           /\ ApplyState(column, r, v).vals = [column.vals EXCEPT ![r] = v]
           /\ ApplyState(column, r, v).status = column.status
           /\ ApplyState(column, r, v).pending = column.pending
           /\ ApplyState(column, r, v).id = column.id
<1> DEFINE old == column.vals[r]
           s == column.sum - Number(old) + Number(v)
           m == column.numbers - One(old \in Values) + One(v \in Values)
           e == column.entries - One(old # Absent) + One(v # Absent)
<1> DEFINE a == One(old \in Values)
           b == One(v \in Values)
           p == One(old # Absent)
           q == One(v # Absent)
<1>1. /\ a \in Int /\ b \in Int /\ p \in Int /\ q \in Int
      /\ Number(old) \in Int /\ Number(v) \in Int
      /\ column.sum \in Int /\ column.numbers \in Int /\ column.entries \in Int
    <2>1. a \in {0, 1}  BY OneType
    <2>2. b \in {0, 1}  BY OneType
    <2>3. p \in {0, 1}  BY OneType
    <2>4. q \in {0, 1}  BY OneType
    <2> HIDE DEF a, b, p, q
    <2> QED  BY <2>1, <2>2, <2>3, <2>4, NumberType DEF ColumnType
<1>2. s \in Int /\ m \in Int /\ e \in Int
    <2>1. m = column.numbers - a + b /\ e = column.entries - p + q  OBVIOUS
    <2> HIDE DEF a, b, p, q
    <2> QED  BY <1>1, <2>1
<1>3. ApplyState(column, r, v) =
          [column EXCEPT !.vals = [column.vals EXCEPT ![r] = v], !.sum = s, !.numbers = m, !.entries = e]
    BY DEF ApplyState
<1>4. [column.vals EXCEPT ![r] = v] \in [Rids -> Fields]  BY DEF ColumnType
<1> HIDE DEF s, m, e
<1> QED  BY <1>2, <1>3, <1>4 DEF ColumnType

LEMMA UpdateStateFacts ==
    ASSUME NEW column \in ColumnType, NEW r \in Rids, NEW v \in Fields
    PROVE  LET u == UpdateState(column, r, v)
           IN /\ u \in ColumnType /\ u.status = column.status /\ u.id = column.id
              /\ IF column.status = "building"
                 THEN u.vals = column.vals /\ u.pending = [column.pending EXCEPT ![r] = v]
                 ELSE u.vals = [column.vals EXCEPT ![r] = v] /\ u.pending = column.pending
<1>1. CASE column.status = "building"
    <2>1. UpdateState(column, r, v) = [column EXCEPT !.pending[r] = v]  BY <1>1 DEF UpdateState
    <2> QED  BY <1>1, <2>1 DEF ColumnType
<1>2. CASE column.status # "building"
    BY <1>2, ApplyStateFacts DEF UpdateState
<1> QED  BY <1>1, <1>2

LEMMA StartBuildFacts ==
    ASSUME NEW column \in ColumnType
    PROVE  LET b == StartBuild(column)
           IN /\ b \in ColumnType /\ b.status = "building" /\ b.vals = column.vals
              /\ b.pending = [r \in Rids |-> Untouched] /\ b.id = column.id + 1
<1>1. StartBuild(column) = [column EXCEPT !.status = "building",
                               !.pending = [r \in Rids |-> Untouched], !.id = column.id + 1]
    BY DEF StartBuild, EmptyColumn
<1>2. [r \in Rids |-> Untouched] \in [Rids -> Fields \cup {Untouched}]  OBVIOUS
<1>3. column.id + 1 \in Nat  BY DEF ColumnType
<1> QED  BY <1>1, <1>2, <1>3 DEF ColumnType

\* What a build ends with: the values it scanned, under those written meanwhile.
LEMMA ReplayFacts ==
    ASSUME NEW column \in ColumnType, NEW built \in ColumnType
    PROVE  LET u == Replay(column, built, MaxRid)
           IN /\ u \in ColumnType /\ u.status = built.status /\ u.id = built.id
              /\ \A r \in Rids : u.vals[r] = IF column.pending[r] = Untouched THEN built.vals[r]
                                             ELSE column.pending[r]
<1> DEFINE n == MaxRid
           Step(x, i) == IF column.pending[i] = Untouched THEN x
                         ELSE ApplyState(x, i, column.pending[i])
           Is(g) == g = [i \in 0..n |-> IF i = 0 THEN built ELSE IF column.pending[i] = Untouched
                                        THEN g[i - 1] ELSE ApplyState(g[i - 1], i, column.pending[i])]
           F == [p \in (1..n) \X ColumnType |-> Step(p[2], p[1])]
<1>1. n \in Nat /\ Rids = 1..n  BY RidFacts DEF Rids
<1>2. \A i \in 1..n : column.pending[i] # Untouched => column.pending[i] \in Fields
    BY <1>1 DEF ColumnType
<1>3. \A i \in 1..n, x \in ColumnType : Step(x, i) \in ColumnType
    BY <1>1, <1>2, ApplyStateFacts
<1>4. \A i \in 1..n, x \in ColumnType : F[<<i, x>>] = Step(x, i)  OBVIOUS
<1>5. PICK g : Steps(g, F, built, n, ColumnType)
    <2>1. Closed(F, n, ColumnType)
        <3> HIDE DEF F, Step
        <3> QED  BY <1>3, <1>4 DEF Closed
    <2> HIDE DEF F, Step, n
    <2> QED  BY <1>1, <2>1, StepsExist
<1>5a. /\ g \in [0..n -> ColumnType] /\ g[0] = built
       /\ \A i \in 1..n : g[i] = F[<<i, g[i - 1]>>]
    BY <1>5 DEF Steps
<1>6. \A i \in 1..n : i - 1 \in 0..n /\ g[i] = Step(g[i - 1], i)
    <2> TAKE i \in 1..n
    <2>1. i - 1 \in 0..n  BY <1>1
    <2> HIDE DEF F, Step
    <2> QED  BY <1>4, <1>5a, <2>1
<1>7. Is(g)
    <2>1. ASSUME NEW i \in 0..n
          PROVE  g[i] = IF i = 0 THEN built ELSE IF column.pending[i] = Untouched
                        THEN g[i - 1] ELSE ApplyState(g[i - 1], i, column.pending[i])
        <3>1. CASE i = 0  BY <1>5a, <3>1
        <3>2. CASE i # 0
            <4>1. i \in 1..n  BY <3>2, <1>1
            <4>2. g[i] = Step(g[i - 1], i)
                <5> HIDE DEF Step
                <5> QED  BY <1>6, <4>1
            <4> QED  BY <3>2, <4>2
        <3> QED  BY <3>1, <3>2
    <2> QED  BY <1>5a, <2>1
<1> DEFINE f == CHOOSE h : Is(h)
<1>8. Is(f)
    <2> HIDE DEF Is
    <2> QED  BY <1>7
<1>9. /\ f = [i \in 0..n |-> f[i]] /\ f[0] = built
      /\ \A i \in 1..n : f[i] = Step(f[i - 1], i)
    <2> HIDE DEF f
    <2>1. \A i \in 1..n : i \in 0..n /\ i # 0  BY <1>1
    <2> QED  BY <1>1, <1>8, <2>1
<1>10. f = g
    <2> HIDE DEF f, Step, F, n
    <2>1. \A i \in 1..n : f[i - 1] = g[i - 1] => f[i] = g[i]  BY <1>6, <1>9
    <2>2. f[0] = g[0]  BY <1>5a, <1>9
    <2>3. n \in Nat /\ StepAlike(f, g, n)  BY <1>1, <2>1, <2>2 DEF StepAlike
    <2>4. SameUpTo(f, g, n)  BY <2>3, SameSteps
    <2>5. \A i \in 0..n : f[i] = g[i]  BY <2>4 DEF SameUpTo
    <2> QED  BY <1>5a, <1>9, <2>5
<1>11. Replay(column, built, MaxRid) = f[n]
    BY DEF Replay
<1> DEFINE Upto(i) ==
        /\ g[i].status = built.status /\ g[i].id = built.id
        /\ \A r \in Rids : g[i].vals[r] = IF column.pending[r] # Untouched /\ r <= i
                                          THEN column.pending[r] ELSE built.vals[r]
           T == {i \in Nat : i <= n => Upto(i)}
<1>12. 0 \in T
    <2>1. \A r \in Rids : ~(r <= 0)  BY <1>1
    <2> QED  BY <1>5a, <2>1
<1>13. ASSUME NEW m \in Nat, m \in T PROVE m + 1 \in T
    <2> SUFFICES ASSUME m + 1 <= n PROVE Upto(m + 1)  OBVIOUS
    <2>1. m + 1 \in 1..n /\ m + 1 - 1 = m /\ m \in 0..n /\ m <= n  BY <1>1
    <2>2. g[m + 1] = Step(g[m], m + 1)
        <3> HIDE DEF Step
        <3> QED  BY <1>6, <2>1
    <2>3. Upto(m)  BY <1>13, <2>1
    <2>4. g[m] \in ColumnType  BY <1>5a, <2>1
    <2>5. CASE column.pending[m + 1] = Untouched
        <3>1. g[m + 1] = g[m]  BY <2>2, <2>5
        <3>2. \A r \in Rids : column.pending[r] # Untouched => (r <= m <=> r <= m + 1)
            BY <1>1, <2>5
        <3> HIDE DEF Step
        <3> QED  BY <2>3, <3>1, <3>2
    <2>6. CASE column.pending[m + 1] # Untouched
        <3>1. g[m + 1] = ApplyState(g[m], m + 1, column.pending[m + 1])  BY <2>2, <2>6
        <3>2. m + 1 \in Rids /\ column.pending[m + 1] \in Fields  BY <1>1, <1>2, <2>1, <2>6
        <3>3. /\ g[m + 1].vals = [g[m].vals EXCEPT ![m + 1] = column.pending[m + 1]]
              /\ g[m + 1].status = g[m].status /\ g[m + 1].id = g[m].id
            BY <2>4, <3>1, <3>2, ApplyStateFacts
        <3>4. \A r \in Rids : g[m + 1].vals[r] = IF r = m + 1 THEN column.pending[m + 1] ELSE g[m].vals[r]
            BY <2>4, <3>3 DEF ColumnType
        <3>5. \A r \in Rids : r # m + 1 => (r <= m <=> r <= m + 1)  BY <1>1
        <3>6. m + 1 <= m + 1  OBVIOUS
        <3> HIDE DEF Step
        <3> QED  BY <2>3, <2>6, <3>2, <3>3, <3>4, <3>5, <3>6
    <2> QED  BY <2>5, <2>6
<1>14. Upto(n)
    <2>1. n \in T
        <3> HIDE DEF T
        <3> QED  BY <1>1, <1>12, <1>13, NatSetInduction
    <2> QED  BY <1>1, <2>1
<1>15. \A r \in Rids : r <= n  BY <1>1
<1>16. g[n] \in ColumnType  BY <1>1, <1>5a
<1> HIDE DEF f, Step, F, n, Is
<1> QED  BY <1>10, <1>11, <1>14, <1>15, <1>16

----------------------------------------------------------------------------
\* The rows of a collection and their shards.

\* What is kept by shard, and how many rows there are, is as the rows say.
Scoped(c) ==
    /\ \A s \in Shards : c.shardRids[s] = {r \in Rids : c.base[r] # Gone /\ c.shard[r] = s}
    /\ c.unsharded = Cardinality({r \in Rids : c.base[r] # Gone /\ c.shard[r] = NoShard})
    /\ c.live = Cardinality({r \in Rids : c.base[r] # Gone})

SameRows(c, n) ==
    /\ n.exists = c.exists /\ n.rows = c.rows /\ n.base = c.base /\ n.live = c.live
    /\ n.shard = c.shard /\ n.shardRids = c.shardRids /\ n.unsharded = c.unsharded

SameDerived(c, n) ==
    /\ n.exists = c.exists /\ n.meta = c.meta /\ n.indexed = c.indexed /\ n.index = c.index
    /\ n.build = c.build /\ n.tokens = c.tokens /\ n.columned = c.columned
    /\ n.column = c.column /\ n.dirty = c.dirty /\ n.dirtyBuild = c.dirtyBuild
    /\ n.indexBuildPending = c.indexBuildPending

LEMMA SameScopes ==
    ASSUME NEW c, NEW n, Scoped(c), n.live = c.live, n.shard = c.shard,
           n.shardRids = c.shardRids, n.unsharded = c.unsharded,
           \A r \in Rids : n.base[r] = Gone <=> c.base[r] = Gone
    PROVE  Scoped(n)
<1>1. {r \in Rids : n.base[r] # Gone} = {r \in Rids : c.base[r] # Gone}  OBVIOUS
<1>2. {r \in Rids : n.base[r] # Gone /\ n.shard[r] = NoShard}
          = {r \in Rids : c.base[r] # Gone /\ c.shard[r] = NoShard}
    OBVIOUS
<1>3. \A s \in Shards : {r \in Rids : n.base[r] # Gone /\ n.shard[r] = s}
          = {r \in Rids : c.base[r] # Gone /\ c.shard[r] = s}
    OBVIOUS
<1> QED  BY <1>1, <1>2, <1>3 DEF Scoped

\* Reading a row finds something where there is one.
LEMMA HydratedType ==
    ASSUME NEW c \in Shape, NEW r \in Rids
    PROVE  Hydrated(c, r) \in Cells /\ (Hydrated(c, r) = Gone <=> c.base[r] = Gone)
<1>1. c.column.vals[r] \in Fields /\ c.base[r] \in Cells  BY DEF Shape, ColumnType
<1> QED  BY <1>1, CellFacts DEF Hydrated

LEMMA BaseValueType ==
    ASSUME NEW c, NEW v \in Fields
    PROVE  BaseValue(c, v) \in Fields
BY CellFacts DEF BaseValue

LEMMA AddShardRidFacts ==
    ASSUME NEW c \in Shape, NEW r \in Rids, NEW s \in Shards \cup {NoShard}
    PROVE  LET n == AddShardRid(c, r, s)
           IN /\ n \in Shape /\ SameDerived(c, n)
              /\ n.rows = c.rows /\ n.base = c.base /\ n.live = c.live /\ n.shard = c.shard
              /\ n.unsharded = IF s = NoShard THEN c.unsharded + 1 ELSE c.unsharded
              /\ \A z \in Shards, q \in Rids :
                     q \in n.shardRids[z] <=> q \in c.shardRids[z] \/ (z = s /\ q = r)
<1>1. NoShard \notin Shards  BY DerivedStateAssumption DEF DerivedStateAssumption
<1>2. CASE s = NoShard
    <2>1. AddShardRid(c, r, s) = [c EXCEPT !.unsharded = c.unsharded + 1]
        BY <1>2 DEF AddShardRid
    <2>2. c.unsharded + 1 \in Int  BY DEF Shape
    <2>3. \A z \in Shards : z # s  BY <1>1, <1>2
    <2> QED  BY <1>2, <2>1, <2>2, <2>3 DEF Shape, SameDerived
<1>3. CASE s # NoShard
    <2> DEFINE t == [c.shardRids EXCEPT ![s] = c.shardRids[s] \cup {r}]
    <2>1. AddShardRid(c, r, s) = [c EXCEPT !.shardRids = t]
        BY <1>3 DEF AddShardRid
    <2>2. s \in Shards  BY <1>3
    <2>3. t \in [Shards -> SUBSET Rids]  BY <2>2 DEF Shape
    <2>4. \A z \in Shards : t[z] = IF z = s THEN c.shardRids[z] \cup {r} ELSE c.shardRids[z]
        BY <2>2 DEF Shape
    <2> HIDE DEF t
    <2> DEFINE n == [c EXCEPT !.shardRids = t]
    <2>5. n \in Shape  BY <2>3 DEF Shape
    <2>6. /\ SameDerived(c, n) /\ n.rows = c.rows /\ n.base = c.base /\ n.live = c.live
          /\ n.shard = c.shard /\ n.unsharded = c.unsharded /\ n.shardRids = t
        BY DEF Shape, SameDerived
    <2> HIDE DEF n
    <2>7. AddShardRid(c, r, s) = n  BY <2>1 DEF n
    <2>8. \A z \in Shards, q \in Rids : q \in n.shardRids[z] <=> q \in c.shardRids[z] \/ (z = s /\ q = r)
        <3>1. \A z \in Shards, q \in Rids : q \in t[z] <=> q \in c.shardRids[z] \/ (z = s /\ q = r)  BY <2>4
        <3> QED  BY <2>6, <3>1
    <2> QED  BY <1>3, <2>5, <2>6, <2>7, <2>8
<1> QED  BY <1>2, <1>3

LEMMA RemoveShardRidFacts ==
    ASSUME NEW c \in Shape, NEW r \in Rids, NEW s \in Shards \cup {NoShard},
           s = NoShard => c.unsharded > 0
    PROVE  LET n == RemoveShardRid(c, r, s)
           IN /\ n \in Shape /\ SameDerived(c, n)
              /\ n.rows = c.rows /\ n.base = c.base /\ n.live = c.live /\ n.shard = c.shard
              /\ n.unsharded = IF s = NoShard THEN c.unsharded - 1 ELSE c.unsharded
              /\ \A z \in Shards, q \in Rids :
                     q \in n.shardRids[z] <=> q \in c.shardRids[z] /\ ~(z = s /\ q = r)
<1>1. NoShard \notin Shards  BY DerivedStateAssumption DEF DerivedStateAssumption
<1>2. CASE s = NoShard
    <2> DEFINE u == c.unsharded - 1
    <2>1. RemoveShardRid(c, r, s) = [c EXCEPT !.unsharded = u]
        BY <1>2 DEF RemoveShardRid
    <2>2. u \in Int /\ u = IF s = NoShard THEN c.unsharded - 1 ELSE c.unsharded
        BY <1>2 DEF Shape
    <2>3. \A z \in Shards : z # s  BY <1>1, <1>2
    <2> HIDE DEF u
    <2> QED  BY <2>1, <2>2, <2>3 DEF Shape, SameDerived
<1>3. CASE s # NoShard
    <2> DEFINE t == [c.shardRids EXCEPT ![s] = c.shardRids[s] \ {r}]
    <2>1. RemoveShardRid(c, r, s) = [c EXCEPT !.shardRids = t]
        BY <1>3 DEF RemoveShardRid
    <2>2. s \in Shards  BY <1>3
    <2>3. t \in [Shards -> SUBSET Rids]  BY <2>2 DEF Shape
    <2>4. \A z \in Shards : t[z] = IF z = s THEN c.shardRids[z] \ {r} ELSE c.shardRids[z]
        BY <2>2 DEF Shape
    <2> HIDE DEF t
    <2> DEFINE n == [c EXCEPT !.shardRids = t]
    <2>5. n \in Shape  BY <2>3 DEF Shape
    <2>6. /\ SameDerived(c, n) /\ n.rows = c.rows /\ n.base = c.base /\ n.live = c.live
          /\ n.shard = c.shard /\ n.unsharded = c.unsharded /\ n.shardRids = t
        BY DEF Shape, SameDerived
    <2> HIDE DEF n
    <2>7. RemoveShardRid(c, r, s) = n  BY <2>1 DEF n
    <2>8. \A z \in Shards, q \in Rids : q \in n.shardRids[z] <=> q \in c.shardRids[z] /\ ~(z = s /\ q = r)
        <3>1. \A z \in Shards, q \in Rids : q \in t[z] <=> q \in c.shardRids[z] /\ ~(z = s /\ q = r)  BY <2>4
        <3> QED  BY <2>6, <3>1
    <2> QED  BY <1>3, <2>5, <2>6, <2>7, <2>8
<1> QED  BY <1>2, <1>3

LEMMA ShardMovedFacts ==
    ASSUME NEW c \in Shape, NEW r \in Rids, NEW was \in Shards \cup {NoShard},
           NEW s \in Shards \cup {NoShard}, was = NoShard => c.unsharded > 0
    PROVE  LET n == ShardMoved(c, r, was, s)
           IN /\ n \in Shape /\ SameDerived(c, n)
              /\ n.rows = c.rows /\ n.base = c.base /\ n.live = c.live /\ n.shard = c.shard
              /\ was = NoShard /\ s # NoShard => n.unsharded = c.unsharded - 1
              /\ was # NoShard /\ s = NoShard => n.unsharded = c.unsharded + 1
              /\ (was = NoShard <=> s = NoShard) => n.unsharded = c.unsharded
              /\ \A z \in Shards, q \in Rids :
                     q \in n.shardRids[z] <=>
                             \/ (was # s /\ z = s /\ q = r)
                             \/ (q \in c.shardRids[z] /\ ~(was # s /\ z = was /\ q = r))
<1>0. c.unsharded \in Int  BY DEF Shape
<1>1. CASE was = s
    <2>1. ShardMoved(c, r, was, s) = c  BY <1>1 DEF ShardMoved
    <2> QED  BY <1>0, <1>1, <2>1 DEF SameDerived
<1>2. CASE was # s
    <2> DEFINE a == RemoveShardRid(c, r, was)
    <2>2. /\ a \in Shape /\ SameDerived(c, a)
          /\ a.rows = c.rows /\ a.base = c.base /\ a.live = c.live /\ a.shard = c.shard
          /\ a.unsharded = IF was = NoShard THEN c.unsharded - 1 ELSE c.unsharded
          /\ \A z \in Shards, q \in Rids :
                     q \in a.shardRids[z] <=> q \in c.shardRids[z] /\ ~(z = was /\ q = r)
        BY RemoveShardRidFacts
    <2> DEFINE b == AddShardRid(a, r, s)
    <2>1. ShardMoved(c, r, was, s) = b  BY <1>2 DEF ShardMoved
    <2> HIDE DEF a
    <2>3. /\ b \in Shape /\ SameDerived(a, b)
          /\ b.rows = a.rows /\ b.base = a.base /\ b.live = a.live /\ b.shard = a.shard
          /\ b.unsharded = IF s = NoShard THEN a.unsharded + 1 ELSE a.unsharded
          /\ \A z \in Shards, q \in Rids :
                     q \in b.shardRids[z] <=> q \in a.shardRids[z] \/ (z = s /\ q = r)
        BY <2>2, AddShardRidFacts
    <2> HIDE DEF b
    <2>4. SameDerived(c, b)  BY <2>2, <2>3 DEF SameDerived
    <2>5. /\ was = NoShard /\ s # NoShard => b.unsharded = c.unsharded - 1
          /\ was # NoShard /\ s = NoShard => b.unsharded = c.unsharded + 1
          /\ (was = NoShard <=> s = NoShard) => b.unsharded = c.unsharded
        BY <1>0, <1>2, <2>2, <2>3
    <2>6. \A z \in Shards, q \in Rids :
                     q \in b.shardRids[z] <=>
                             \/ (was # s /\ z = s /\ q = r)
                             \/ (q \in c.shardRids[z] /\ ~(was # s /\ z = was /\ q = r))
        BY <1>2, <2>2, <2>3
    <2> QED  BY <2>1, <2>2, <2>3, <2>4, <2>5, <2>6
<1> QED  BY <1>1, <1>2

\* One element more or less.
LEMMA CountAdd ==
    ASSUME NEW S, S \subseteq Rids, NEW T, NEW r \in Rids, r \notin S,
           \A q \in Rids : q \in T <=> q \in S \/ q = r, T \subseteq Rids
    PROVE  Cardinality(T) = Cardinality(S) + 1 /\ Cardinality(S) \in Nat
<1>1. T = S \cup {r}  OBVIOUS
<1>2. IsFiniteSet(S)  BY RidFacts, FS_Subset
<1> QED  BY <1>1, <1>2, FS_AddElement, FS_CardinalityType

LEMMA CountRemove ==
    ASSUME NEW S, S \subseteq Rids, NEW T, NEW r \in S,
           \A q \in Rids : q \in T <=> q \in S /\ q # r, T \subseteq Rids
    PROVE  Cardinality(T) = Cardinality(S) - 1 /\ Cardinality(S) \in Nat \ {0}
<1>1. T = S \ {r}  OBVIOUS
<1>2. IsFiniteSet(S)  BY RidFacts, FS_Subset
<1>3. Cardinality(S) \in Nat /\ Cardinality(S) # 0
    BY <1>2, FS_CardinalityType, FS_EmptySet
<1> QED  BY <1>1, <1>2, <1>3, FS_RemoveElement

LEMMA ScopedFacts ==
    ASSUME NEW c \in Shape, Scoped(c)
    PROVE  /\ c.live \in Nat /\ c.unsharded \in Nat
           /\ \A r \in Rids : c.base[r] # Gone /\ c.shard[r] = NoShard => c.unsharded > 0
           /\ \A r \in Rids : c.base[r] # Gone => c.live > 0
           /\ c.live = 0 <=> \A r \in Rids : c.base[r] = Gone
<1> DEFINE L == {r \in Rids : c.base[r] # Gone}
           U == {r \in Rids : c.base[r] # Gone /\ c.shard[r] = NoShard}
<1>1. IsFiniteSet(L) /\ IsFiniteSet(U)  BY RidFacts, FS_Subset
<1>2. Cardinality(L) \in Nat /\ Cardinality(U) \in Nat  BY <1>1, FS_CardinalityType
<1>3. Cardinality(L) = 0 <=> L = {}  BY <1>1, FS_EmptySet
<1>4. Cardinality(U) = 0 <=> U = {}  BY <1>1, FS_EmptySet
<1>5. c.live = Cardinality(L) /\ c.unsharded = Cardinality(U)  BY DEF Scoped
<1>6. \A r \in Rids : c.base[r] # Gone /\ c.shard[r] = NoShard => U # {}  OBVIOUS
<1>7. L = {} <=> \A r \in Rids : c.base[r] = Gone  OBVIOUS
<1> HIDE DEF L, U
<1> QED  BY <1>2, <1>3, <1>4, <1>5, <1>6, <1>7

\* A row is put: its shard takes it.
LEMMA ScopedPut ==
    ASSUME NEW c \in Shape, Scoped(c), NEW n \in Shape, NEW r \in Rids,
           NEW s \in Shards \cup {NoShard},
           n.base[r] # Gone, n.shard[r] = s,
           \A q \in Rids \ {r} : (n.base[q] = Gone <=> c.base[q] = Gone) /\ n.shard[q] = c.shard[q],
           n.live = c.live + One(c.base[r] = Gone),
           LET was == c.shard[r]
           IN IF c.base[r] = Gone
              THEN /\ n.unsharded = IF s = NoShard THEN c.unsharded + 1 ELSE c.unsharded
                   /\ \A z \in Shards, q \in Rids :
                         q \in n.shardRids[z] <=> q \in c.shardRids[z] \/ (z = s /\ q = r)
              ELSE /\ was = NoShard /\ s # NoShard => n.unsharded = c.unsharded - 1
                   /\ was # NoShard /\ s = NoShard => n.unsharded = c.unsharded + 1
                   /\ (was = NoShard <=> s = NoShard) => n.unsharded = c.unsharded
                   /\ \A z \in Shards, q \in Rids :
                         q \in n.shardRids[z] <=>
                             \/ (was # s /\ z = s /\ q = r)
                             \/ (q \in c.shardRids[z] /\ ~(was # s /\ z = was /\ q = r))
    PROVE  Scoped(n)
<1> DEFINE L(x) == {q \in Rids : x.base[q] # Gone}
           U(x) == {q \in Rids : x.base[q] # Gone /\ x.shard[q] = NoShard}
<1>1. /\ \A z \in Shards : c.shardRids[z] = {q \in Rids : c.base[q] # Gone /\ c.shard[q] = z}
      /\ c.unsharded = Cardinality(U(c)) /\ c.live = Cardinality(L(c))
    BY DEF Scoped
<1>2. n.live = Cardinality(L(n))
    <2>1. CASE c.base[r] = Gone
        <3>1. r \notin L(c) /\ L(c) \subseteq Rids /\ L(n) \subseteq Rids
              /\ \A q \in Rids : q \in L(n) <=> q \in L(c) \/ q = r
            BY <2>1
        <3> HIDE DEF L
        <3>2. Cardinality(L(n)) = Cardinality(L(c)) + 1  BY <3>1, CountAdd
        <3>3. One(c.base[r] = Gone) = 1  BY <2>1 DEF One
        <3> QED  BY <1>1, <3>2, <3>3
    <2>2. CASE c.base[r] # Gone
        <3>1. L(n) = L(c)  BY <2>2
        <3>2. One(c.base[r] = Gone) = 0  BY <2>2 DEF One
        <3>3. c.live \in Int  BY DEF Shape
        <3> HIDE DEF L
        <3> QED  BY <1>1, <3>1, <3>2, <3>3
    <2> QED  BY <2>1, <2>2
<1>3. \A z \in Shards : n.shardRids[z] = {q \in Rids : n.base[q] # Gone /\ n.shard[q] = z}
    <2> SUFFICES ASSUME NEW z \in Shards, NEW q \in Rids
                 PROVE  q \in n.shardRids[z] <=> n.base[q] # Gone /\ n.shard[q] = z
        BY DEF Shape
    <2>1. q \in c.shardRids[z] <=> c.base[q] # Gone /\ c.shard[q] = z  BY <1>1
    <2>2. CASE c.base[r] = Gone  BY <2>1, <2>2
    <2>3. CASE c.base[r] # Gone
        <3>1. q \in n.shardRids[z] <=>
                 \/ (c.shard[r] # s /\ z = s /\ q = r)
                             \/ (q \in c.shardRids[z] /\ ~(c.shard[r] # s /\ z = c.shard[r] /\ q = r))
            BY <2>3
        <3>2. CASE q = r  BY <2>1, <2>3, <3>1, <3>2
        <3>3. CASE q # r  BY <2>1, <2>3, <3>1, <3>3
        <3> QED  BY <3>2, <3>3
    <2> QED  BY <2>2, <2>3
<1>4. n.unsharded = Cardinality(U(n))
    <2>0. c.unsharded \in Int /\ U(c) \subseteq Rids /\ U(n) \subseteq Rids  BY DEF Shape
    <2>1. CASE r \notin U(c) /\ s = NoShard
        <3>1. \A q \in Rids : q \in U(n) <=> q \in U(c) \/ q = r  BY <2>1
        <3>2. n.unsharded = c.unsharded + 1
            <4>1. c.base[r] = Gone \/ c.shard[r] # NoShard  BY <2>1
            <4> HIDE DEF U
            <4> QED  BY <2>0, <2>1, <4>1
        <3> HIDE DEF U
        <3>3. Cardinality(U(n)) = Cardinality(U(c)) + 1  BY <2>0, <2>1, <3>1, CountAdd
        <3> QED  BY <1>1, <3>2, <3>3
    <2>2. CASE r \in U(c) /\ s # NoShard
        <3>1. \A q \in Rids : q \in U(n) <=> q \in U(c) /\ q # r  BY <2>2
        <3>2. n.unsharded = c.unsharded - 1
            <4>1. c.base[r] # Gone /\ c.shard[r] = NoShard  BY <2>2
            <4> HIDE DEF U
            <4> QED  BY <2>0, <2>2, <4>1
        <3> HIDE DEF U
        <3>3. Cardinality(U(n)) = Cardinality(U(c)) - 1  BY <2>0, <2>2, <3>1, CountRemove
        <3> QED  BY <1>1, <3>2, <3>3
    <2>3. CASE r \in U(c) <=> s = NoShard
        <3>1. \A q \in Rids : q \in U(n) <=> q \in U(c)  BY <2>3
        <3>2. U(n) = U(c)  BY <3>1
        <3>3. n.unsharded = c.unsharded
            <4>1. c.base[r] # Gone /\ c.shard[r] = NoShard <=> s = NoShard  BY <2>3
            <4> HIDE DEF U
            <4> QED  BY <2>0, <2>3, <4>1
        <3> HIDE DEF U
        <3> QED  BY <1>1, <3>2, <3>3
    <2> HIDE DEF U
    <2> QED  BY <2>1, <2>2, <2>3
<1> QED  BY <1>2, <1>3, <1>4 DEF Scoped

\* A row is deleted: its shard loses it.
LEMMA ScopedDelete ==
    ASSUME NEW c \in Shape, Scoped(c), NEW n \in Shape, NEW r \in Rids,
           c.base[r] # Gone, n.base = [c.base EXCEPT ![r] = Gone], n.shard = c.shard,
           n.live = c.live - 1,
           n.unsharded = IF c.shard[r] = NoShard THEN c.unsharded - 1 ELSE c.unsharded,
           \A z \in Shards, q \in Rids :
               q \in n.shardRids[z] <=> q \in c.shardRids[z] /\ ~(z = c.shard[r] /\ q = r)
    PROVE  Scoped(n)
<1> DEFINE L(x) == {q \in Rids : x.base[q] # Gone}
           U(x) == {q \in Rids : x.base[q] # Gone /\ x.shard[q] = NoShard}
<1>1. /\ \A z \in Shards : c.shardRids[z] = {q \in Rids : c.base[q] # Gone /\ c.shard[q] = z}
      /\ c.unsharded = Cardinality(U(c)) /\ c.live = Cardinality(L(c))
    BY DEF Scoped
<1>2. \A q \in Rids : n.base[q] = IF q = r THEN Gone ELSE c.base[q]  BY DEF Shape
<1>3. n.live = Cardinality(L(n))
    <2>1. r \in L(c) /\ L(c) \subseteq Rids /\ L(n) \subseteq Rids
          /\ \A q \in Rids : q \in L(n) <=> q \in L(c) /\ q # r
        BY <1>2
    <2> HIDE DEF L
    <2>2. Cardinality(L(n)) = Cardinality(L(c)) - 1  BY <2>1, CountRemove
    <2> QED  BY <1>1, <2>2
<1>4. \A z \in Shards : n.shardRids[z] = {q \in Rids : n.base[q] # Gone /\ n.shard[q] = z}
    <2> SUFFICES ASSUME NEW z \in Shards, NEW q \in Rids
                 PROVE  q \in n.shardRids[z] <=> n.base[q] # Gone /\ n.shard[q] = z
        BY DEF Shape
    <2>1. q \in c.shardRids[z] <=> c.base[q] # Gone /\ c.shard[q] = z  BY <1>1
    <2> QED  BY <1>2, <2>1
<1>5. n.unsharded = Cardinality(U(n))
    <2>0. U(c) \subseteq Rids /\ U(n) \subseteq Rids  OBVIOUS
    <2>1. CASE c.shard[r] = NoShard
        <3>1. r \in U(c) /\ \A q \in Rids : q \in U(n) <=> q \in U(c) /\ q # r  BY <1>2, <2>1
        <3> HIDE DEF U
        <3>2. Cardinality(U(n)) = Cardinality(U(c)) - 1  BY <2>0, <3>1, CountRemove
        <3> QED  BY <1>1, <2>1, <3>2
    <2>2. CASE c.shard[r] # NoShard
        <3>1. U(n) = U(c)  BY <1>2, <2>2
        <3> HIDE DEF U
        <3> QED  BY <1>1, <2>2, <3>1
    <2> QED  BY <2>1, <2>2
<1> QED  BY <1>3, <1>4, <1>5 DEF Scoped

\* A batch as it goes: the collection and what its indexes are still to be told.
Batch == [c : {c \in Shape : Scoped(c)}, deltas : Seq(Delta)]

LEMMA PutObjectFacts ==
    ASSUME NEW s \in Batch, NEW row \in RowType, NEW keep \in BOOLEAN
    PROVE  LET n == PutObject(s, row, keep)
               v == IF keep \/ s.c.dirty # <<>> THEN row.field ELSE BaseValue(s.c, row.field)
           IN /\ n \in Batch /\ SameDerived(s.c, n.c)
              /\ v \in Fields /\ n.c.base = [s.c.base EXCEPT ![row.rid] = v]
              /\ n.deltas = Append(s.deltas, [rid |-> row.rid, before |-> Hydrated(s.c, row.rid),
                                              after |-> row.field])
<1> DEFINE c == s.c
           r == row.rid
           v == IF keep \/ c.dirty # <<>> THEN row.field ELSE BaseValue(c, row.field)
           b == [c.base EXCEPT ![r] = v]
           was == c.shard[r]
           shard == IF row.shard = NoShard THEN was ELSE row.shard
           rows == IF r > c.rows THEN r ELSE c.rows
           live == c.live + One(c.base[r] = Gone)
           shards == [c.shard EXCEPT ![r] = shard]
           stored == [c EXCEPT !.base = b, !.rows = rows, !.live = live, !.shard = shards]
           n == IF c.base[r] # Gone THEN ShardMoved(stored, r, was, shard)
                ELSE AddShardRid(stored, r, shard)
           d == [rid |-> r, before |-> Hydrated(c, r), after |-> row.field]
<1>1. /\ c \in Shape /\ Scoped(c) /\ s.deltas \in Seq(Delta)
      /\ r \in Rids /\ row.field \in Fields /\ row.shard \in Shards \cup {NoShard}
    BY DEF Batch, RowType
<1> HIDE DEF c, r
<1>2. v \in Fields /\ v # Gone  BY <1>1, BaseValueType, CellFacts
<1>3. was \in Shards \cup {NoShard} /\ shard \in Shards \cup {NoShard}  BY <1>1 DEF Shape
<1>4. b \in [Rids -> Cells] /\ \A q \in Rids : b[q] = IF q = r THEN v ELSE c.base[q]
    BY <1>1, <1>2, CellFacts DEF Shape
<1>5. rows \in Nat  BY <1>1, RidFacts DEF Shape
<1>6. live \in Int
    <2>1. One(c.base[r] = Gone) \in {0, 1}  BY OneType
    <2>2. c.live \in Int  BY <1>1 DEF Shape
    <2> QED  BY <2>1, <2>2
<1>7. shards \in [Rids -> Shards \cup {NoShard}] /\ \A q \in Rids : shards[q] = IF q = r THEN shard ELSE c.shard[q]
    BY <1>1, <1>3 DEF Shape
<1>8. One(~(c.base[r] # Gone)) = One(c.base[r] = Gone)  BY DEF One
<1>9. PutObject(s, row, keep) = [c |-> n, deltas |-> Append(s.deltas, d)]
    BY <1>8 DEF PutObject, c, r
<1>10. d \in Delta  BY <1>1, HydratedType, CellFacts DEF Delta
<1>11. Append(s.deltas, d) \in Seq(Delta)  BY <1>1, <1>10, AppendProperties
<1> HIDE DEF v, b, was, shard, rows, live, shards, d
<1>12. /\ stored \in Shape /\ SameDerived(c, stored)
       /\ stored.base = b /\ stored.live = live /\ stored.shard = shards
       /\ stored.shardRids = c.shardRids /\ stored.unsharded = c.unsharded
    BY <1>1, <1>4, <1>5, <1>6, <1>7 DEF Shape, SameDerived
<1> HIDE DEF stored
<1>13. c.base[r] # Gone /\ was = NoShard => c.unsharded > 0
    BY <1>1, ScopedFacts DEF was
<1>14. /\ n \in Shape /\ SameDerived(stored, n)
       /\ n.base = b /\ n.live = live /\ n.shard = shards
       /\ IF c.base[r] = Gone
          THEN /\ n.unsharded = IF shard = NoShard THEN c.unsharded + 1 ELSE c.unsharded
               /\ \A z \in Shards, q \in Rids :
                     q \in n.shardRids[z] <=> q \in c.shardRids[z] \/ (z = shard /\ q = r)
          ELSE /\ was = NoShard /\ shard # NoShard => n.unsharded = c.unsharded - 1
               /\ was # NoShard /\ shard = NoShard => n.unsharded = c.unsharded + 1
               /\ (was = NoShard <=> shard = NoShard) => n.unsharded = c.unsharded
               /\ \A z \in Shards, q \in Rids :
                     q \in n.shardRids[z] <=>
                             \/ (was # shard /\ z = shard /\ q = r)
                             \/ (q \in c.shardRids[z] /\ ~(was # shard /\ z = was /\ q = r))
    <2>1. CASE c.base[r] = Gone
        <3> DEFINE m == AddShardRid(stored, r, shard)
        <3>1. n = m  BY <2>1
        <3>2. /\ m \in Shape /\ SameDerived(stored, m)
              /\ m.base = stored.base /\ m.live = stored.live /\ m.shard = stored.shard
              /\ m.unsharded = IF shard = NoShard THEN stored.unsharded + 1 ELSE stored.unsharded
              /\ \A z \in Shards, q \in Rids :
                     q \in m.shardRids[z] <=> q \in stored.shardRids[z] \/ (z = shard /\ q = r)
            <4> HIDE DEF n
            <4>1. r \in Rids /\ shard \in Shards \cup {NoShard} /\ stored \in Shape  BY <1>1, <1>3, <1>12
            <4> QED  BY <4>1, AddShardRidFacts
        <3> HIDE DEF m, n
        <3> QED  BY <1>12, <2>1, <3>1, <3>2
    <2>2. CASE c.base[r] # Gone
        <3> DEFINE m == ShardMoved(stored, r, was, shard)
        <3>1. n = m  BY <2>2
        <3>2. was = NoShard => stored.unsharded > 0  BY <1>12, <1>13, <2>2
        <3>3. /\ m \in Shape /\ SameDerived(stored, m)
              /\ m.base = stored.base /\ m.live = stored.live /\ m.shard = stored.shard
              /\ was = NoShard /\ shard # NoShard => m.unsharded = stored.unsharded - 1
              /\ was # NoShard /\ shard = NoShard => m.unsharded = stored.unsharded + 1
              /\ (was = NoShard <=> shard = NoShard) => m.unsharded = stored.unsharded
              /\ \A z \in Shards, q \in Rids :
                     q \in m.shardRids[z] <=>
                             \/ (was # shard /\ z = shard /\ q = r)
                             \/ (q \in stored.shardRids[z] /\ ~(was # shard /\ z = was /\ q = r))
            <4> HIDE DEF n
            <4>1. /\ r \in Rids /\ shard \in Shards \cup {NoShard} /\ stored \in Shape
                  /\ was \in Shards \cup {NoShard}
                BY <1>1, <1>3, <1>12
            <4> QED  BY SMTT(20), <3>2, <4>1, ShardMovedFacts
        <3> HIDE DEF m, n
        <3> QED  BY <1>12, <2>2, <3>1, <3>3
    <2> QED  BY <2>1, <2>2
<1> HIDE DEF n
<1>15. SameDerived(c, n)  BY <1>12, <1>14 DEF SameDerived
<1>16. Scoped(n)
    <2>1. n.base[r] # Gone /\ n.shard[r] = shard  BY <1>1, <1>2, <1>4, <1>7, <1>14
    <2>2. \A q \in Rids \ {r} : (n.base[q] = Gone <=> c.base[q] = Gone) /\ n.shard[q] = c.shard[q]
        BY <1>4, <1>7, <1>14
    <2>3. n.live = c.live + One(c.base[r] = Gone)  BY <1>14 DEF live
    <2> QED  BY <1>1, <1>3, <1>14, <2>1, <2>2, <2>3, ScopedPut DEF was
<1>17. PutObject(s, row, keep) \in Batch
    BY <1>9, <1>11, <1>14, <1>16 DEF Batch
<1> QED
    <2>1. /\ PutObject(s, row, keep).c = n
          /\ PutObject(s, row, keep).deltas = Append(s.deltas, d)
        BY <1>9
    <2>2. n.base = b  BY <1>14
    <2> QED  BY <1>2, <1>15, <1>17, <2>1, <2>2 DEF v, b, d, c, r

LEMMA DeleteObjectFacts ==
    ASSUME NEW s \in Batch, NEW r \in Rids, s.c.base[r] # Gone
    PROVE  LET n == DeleteObject(s, r)
           IN /\ n \in Batch /\ SameDerived(s.c, n.c)
              /\ n.c.base = [s.c.base EXCEPT ![r] = Gone]
              /\ n.deltas = Append(s.deltas, [rid |-> r, before |-> Hydrated(s.c, r), after |-> Gone])
<1> DEFINE c == s.c
           b == [c.base EXCEPT ![r] = Gone]
           was == c.shard[r]
           live == c.live - 1
           stored == [c EXCEPT !.base = b, !.live = live]
           n == RemoveShardRid(stored, r, was)
           d == [rid |-> r, before |-> Hydrated(c, r), after |-> Gone]
<1>1. c \in Shape /\ Scoped(c) /\ s.deltas \in Seq(Delta) /\ c.base[r] # Gone
    BY DEF Batch
<1>2. DeleteObject(s, r) = [c |-> n, deltas |-> Append(s.deltas, d)]
    BY <1>1 DEF DeleteObject
<1>3. d \in Delta  BY <1>1, HydratedType, CellFacts DEF Delta
<1>4. Append(s.deltas, d) \in Seq(Delta)  BY <1>1, <1>3, AppendProperties
<1>5. was \in Shards \cup {NoShard} /\ live \in Int  BY <1>1 DEF Shape
<1>6. b \in [Rids -> Cells]  BY <1>1, CellFacts DEF Shape
<1>7. was = NoShard => c.unsharded > 0  BY <1>1, ScopedFacts
<1> HIDE DEF c, b, was, live, d
<1>8. /\ stored \in Shape /\ SameDerived(c, stored)
      /\ stored.base = b /\ stored.live = live /\ stored.shard = c.shard
      /\ stored.shardRids = c.shardRids /\ stored.unsharded = c.unsharded
    BY <1>1, <1>5, <1>6 DEF Shape, SameDerived
<1> HIDE DEF stored
<1>9. /\ n \in Shape /\ SameDerived(stored, n)
      /\ n.base = stored.base /\ n.live = stored.live /\ n.shard = stored.shard
      /\ n.unsharded = IF was = NoShard THEN stored.unsharded - 1 ELSE stored.unsharded
      /\ \A z \in Shards, q \in Rids :
             q \in n.shardRids[z] <=> q \in stored.shardRids[z] /\ ~(z = was /\ q = r)
    <2>1. was = NoShard => stored.unsharded > 0  BY <1>7, <1>8
    <2> QED  BY <1>5, <1>8, <2>1, RemoveShardRidFacts
<1> HIDE DEF n
<1>10. SameDerived(c, n)  BY <1>8, <1>9 DEF SameDerived
<1>11. Scoped(n)
    <2>1. /\ n.base = [c.base EXCEPT ![r] = Gone] /\ n.shard = c.shard /\ n.live = c.live - 1
          /\ n.unsharded = IF c.shard[r] = NoShard THEN c.unsharded - 1 ELSE c.unsharded
          /\ \A z \in Shards, q \in Rids :
                q \in n.shardRids[z] <=> q \in c.shardRids[z] /\ ~(z = c.shard[r] /\ q = r)
        BY <1>8, <1>9 DEF b, live, was
    <2> QED  BY <1>1, <1>9, <2>1, ScopedDelete
<1>12. DeleteObject(s, r) \in Batch  BY <1>2, <1>4, <1>9, <1>11 DEF Batch
<1> QED
    <2>1. DeleteObject(s, r).c = n /\ DeleteObject(s, r).deltas = Append(s.deltas, d)  BY <1>2
    <2>2. n.base = b  BY <1>8, <1>9
    <2> QED  BY <1>10, <1>12, <2>1, <2>2 DEF b, d, c

----------------------------------------------------------------------------
\* A batch of puts: after i of them the rows are as the writes W[i] say.

WritesBy(W, rows, n, w) ==
    /\ W \in [0..n -> [Rids -> Cells]] /\ W[0] = w
    /\ \A i \in 1..n : W[i] = [W[i - 1] EXCEPT ![rows[i].rid] = rows[i].field]

\* What a batch stores of a value.
Kept(c, keep, v) == IF keep \/ c.dirty # <<>> THEN v ELSE BaseValue(c, v)

PutChain(f, c, rows, keep, n) ==
    /\ f \in [0..n -> Batch] /\ f[0] = [c |-> c, deltas |-> <<>>]
    /\ \A i \in 1..n : f[i - 1] \in Batch /\ f[i] \in Batch /\ f[i] = PutObject(f[i - 1], rows[i], keep)

LEMMA PutSteps ==
    ASSUME NEW c \in Shape, Scoped(c), NEW n \in Nat, NEW rows, NEW keep \in BOOLEAN,
           \A i \in 1..n : rows[i] \in RowType
    PROVE  \E f : Put(c, rows, keep, n) = f[n] /\ PutChain(f, c, rows, keep, n)
<1> DEFINE b == [c |-> c, deltas |-> <<>>]
           Is(g) == g = [i \in 0..n |-> IF i = 0 THEN b ELSE PutObject(g[i - 1], rows[i], keep)]
           F == [p \in (1..n) \X Batch |-> PutObject(p[2], rows[p[1]], keep)]
<1>1. b \in Batch  BY EmptySeq DEF Batch
<1>2. \A i \in 1..n, x \in Batch : PutObject(x, rows[i], keep) \in Batch
    BY PutObjectFacts
<1>3. \A i \in 1..n, x \in Batch : F[<<i, x>>] = PutObject(x, rows[i], keep)  OBVIOUS
<1>4. PICK g : Steps(g, F, b, n, Batch)
    <2>1. Closed(F, n, Batch)
        <3> HIDE DEF F
        <3> QED  BY <1>2, <1>3 DEF Closed
    <2> HIDE DEF F, b
    <2> QED  BY <1>1, <2>1, StepsExist
<1>5. g \in [0..n -> Batch] /\ g[0] = b /\ \A i \in 1..n : g[i] = F[<<i, g[i - 1]>>]
    BY <1>4 DEF Steps
<1>6. \A i \in 1..n : /\ i - 1 \in 0..n /\ i \in 0..n /\ g[i - 1] \in Batch /\ g[i] \in Batch
                      /\ g[i] = PutObject(g[i - 1], rows[i], keep)
    <2> TAKE i \in 1..n
    <2>1. i - 1 \in 0..n /\ i \in 0..n  OBVIOUS
    <2> HIDE DEF F, b
    <2> QED  BY <1>3, <1>5, <2>1
<1>7. Is(g)
    <2>1. ASSUME NEW i \in 0..n
          PROVE  g[i] = IF i = 0 THEN b ELSE PutObject(g[i - 1], rows[i], keep)
        <3>1. i = 0 \/ i \in 1..n  OBVIOUS
        <3> HIDE DEF b
        <3> QED  BY <1>5, <1>6, <3>1
    <2> HIDE DEF b
    <2> QED  BY <1>5, <2>1
<1> DEFINE f == CHOOSE h : Is(h)
<1>8. Is(f)
    <2> HIDE DEF Is
    <2> QED  BY <1>7
<1>9. /\ f = [i \in 0..n |-> f[i]] /\ f[0] = b
      /\ \A i \in 1..n : f[i] = PutObject(f[i - 1], rows[i], keep)
    <2> HIDE DEF f, b
    <2>1. \A i \in 1..n : i \in 0..n /\ i # 0  OBVIOUS
    <2> QED  BY <1>8, <2>1
<1>10. f = g
    <2> HIDE DEF f, F, b, Is
    <2>1. \A i \in 1..n : f[i - 1] = g[i - 1] => f[i] = g[i]  BY <1>6, <1>9
    <2>2. f[0] = g[0]  BY <1>5, <1>9
    <2>3. StepAlike(f, g, n)  BY <2>1, <2>2 DEF StepAlike
    <2>4. SameUpTo(f, g, n)  BY <2>3, SameSteps
    <2>5. \A i \in 0..n : f[i] = g[i]  BY <2>4 DEF SameUpTo
    <2> QED  BY <1>5, <1>9, <2>5
<1>11. Put(c, rows, keep, n) = f[n]  BY DEF Put
<1>12. PutChain(g, c, rows, keep, n)  BY <1>5, <1>6 DEF PutChain
<1> HIDE DEF f
<1> QED  BY <1>10, <1>11, <1>12

Rows(rows, n, r) == \E j \in 1..n : rows[j].rid = r

PutTo(x, c, rows, keep, n, w) ==
    /\ x \in Batch /\ SameDerived(c, x.c) /\ Len(x.deltas) = n
    /\ \A i \in 1..n : x.deltas[i].rid = rows[i].rid /\ x.deltas[i].after = rows[i].field
    /\ \A r \in Rids : x.c.base[r] = IF Rows(rows, n, r) THEN Kept(c, keep, w[r]) ELSE c.base[r]

LEMMA SameKept ==
    ASSUME NEW c, NEW n, SameDerived(c, n), NEW keep, NEW v
    PROVE  Kept(n, keep, v) = Kept(c, keep, v)
BY DEF Kept, SameDerived, BaseValue, Ready

LEMMA PutChainFacts ==
    ASSUME NEW c \in Shape, NEW n \in Nat, NEW rows, NEW keep \in BOOLEAN,
           \A i \in 1..n : rows[i] \in RowType,
           NEW f, PutChain(f, c, rows, keep, n),
           NEW w, NEW W, WritesBy(W, rows, n, w)
    PROVE  /\ \A i \in 0..n : PutTo(f[i], c, rows, keep, i, W[i])
           /\ \A i \in 1..n, j \in 1..n : i <= j =>
                  f[j].deltas[i].before = Hydrated(f[i - 1].c, rows[i].rid)
<1> DEFINE Before(j) == \A i \in 1..n : i <= j =>
                            f[j].deltas[i].before = Hydrated(f[i - 1].c, rows[i].rid)
           T == {j \in Nat : j <= n => PutTo(f[j], c, rows, keep, j, W[j]) /\ Before(j)}
<1>1. /\ f \in [0..n -> Batch] /\ f[0] = [c |-> c, deltas |-> <<>>]
      /\ \A i \in 1..n : f[i - 1] \in Batch /\ f[i] = PutObject(f[i - 1], rows[i], keep)
    BY DEF PutChain
<1>2. /\ W \in [0..n -> [Rids -> Cells]] /\ W[0] = w
      /\ \A i \in 1..n : W[i] = [W[i - 1] EXCEPT ![rows[i].rid] = rows[i].field]
    BY DEF WritesBy
<1>3. 0 \in T
    <2>1. f[0] \in Batch /\ f[0].c = c /\ f[0].deltas = <<>>  BY <1>1
    <2>2. SameDerived(c, f[0].c)  BY <2>1 DEF SameDerived
    <2>3. Len(f[0].deltas) = 0  BY <2>1, EmptySeq
    <2>4. \A r \in Rids : ~Rows(rows, 0, r)  BY DEF Rows
    <2>5. \A i \in 1..0 : FALSE  OBVIOUS
    <2>6. PutTo(f[0], c, rows, keep, 0, W[0])  BY <2>1, <2>2, <2>3, <2>4, <2>5 DEF PutTo
    <2>7. Before(0)  OBVIOUS
    <2> QED  BY <2>6, <2>7
<1>4. ASSUME NEW m \in Nat, m \in T PROVE m + 1 \in T
    <2> SUFFICES ASSUME m + 1 <= n PROVE PutTo(f[m + 1], c, rows, keep, m + 1, W[m + 1]) /\ Before(m + 1)
        OBVIOUS
    <2> DEFINE s == f[m]
               row == rows[m + 1]
               x == f[m + 1]
               r == row.rid
               d == [rid |-> r, before |-> Hydrated(s.c, r), after |-> row.field]
               v == Kept(s.c, keep, row.field)
    <2>1. m + 1 \in 1..n /\ m + 1 - 1 = m /\ m <= n /\ m \in 0..n  OBVIOUS
    <2>2. PutTo(s, c, rows, keep, m, W[m]) /\ Before(m)  BY <1>4, <2>1
    <2>3. s \in Batch /\ x = PutObject(s, row, keep) /\ row \in RowType  BY <1>1, <2>1
    <2>4. /\ x \in Batch /\ SameDerived(s.c, x.c)
          /\ v \in Fields /\ x.c.base = [s.c.base EXCEPT ![r] = v]
          /\ x.deltas = Append(s.deltas, d)
        BY SMTT(20), <2>3, PutObjectFacts DEF Kept
    <2>5. SameDerived(c, s.c) /\ Len(s.deltas) = m  BY <2>2 DEF PutTo
    <2>6. SameDerived(c, x.c)  BY <2>4, <2>5 DEF SameDerived
    <2>7. v = Kept(c, keep, row.field)  BY <2>5, SameKept
    <2>8. s.c \in Shape /\ s.deltas \in Seq(Delta) /\ r \in Rids  BY <2>3 DEF Batch, RowType
    <2>9. d \in Delta  BY <2>3, <2>8, HydratedType, CellFacts DEF Delta, RowType
    <2>10. /\ Len(x.deltas) = m + 1 /\ x.deltas[m + 1] = d
           /\ \A i \in 1..m : x.deltas[i] = s.deltas[i]
        <3> HIDE DEF d, s, x
        <3> QED  BY <2>4, <2>5, <2>8, <2>9, AppendProperties
    <2>11. W[m + 1] = [W[m] EXCEPT ![r] = row.field] /\ W[m] \in [Rids -> Cells]
        <3>1. PICK i \in 1..n : i = m + 1  BY <2>1
        <3>2. W[i] = [W[i - 1] EXCEPT ![rows[i].rid] = rows[i].field]  BY <1>2
        <3>3. i - 1 = m  BY <3>1
        <3> QED  BY <1>2, <2>1, <3>1, <3>2, <3>3
    <2>12. \A q \in Rids : W[m + 1][q] = IF q = r THEN row.field ELSE W[m][q]  BY <2>11
    <2>13. \A q \in Rids : x.c.base[q] = IF q = r THEN v ELSE s.c.base[q]
        BY <2>4, <2>8 DEF Shape
    <2>14. \A q \in Rids : Rows(rows, m + 1, q) <=> Rows(rows, m, q) \/ q = r
        <3>1. \A j \in 1..m+1 : j \in 1..m \/ j = m + 1  OBVIOUS
        <3>2. \A j \in 1..m : j \in 1..m+1  OBVIOUS
        <3>3. m + 1 \in 1..m+1  OBVIOUS
        <3> QED  BY <3>1, <3>2, <3>3 DEF Rows
    <2>15. \A i \in 1..m+1 : i \in 1..m \/ i = m + 1  OBVIOUS
    <2>16. PutTo(x, c, rows, keep, m + 1, W[m + 1])
        <3>1. \A i \in 1..m+1 : x.deltas[i].rid = rows[i].rid /\ x.deltas[i].after = rows[i].field
            <4>1. \A i \in 1..m : s.deltas[i].rid = rows[i].rid /\ s.deltas[i].after = rows[i].field
                BY <2>2 DEF PutTo
            <4>2. d.rid = rows[m + 1].rid /\ d.after = rows[m + 1].field  OBVIOUS
            <4> HIDE DEF s, x, d
            <4> QED  BY <2>10, <2>15, <4>1, <4>2
        <3>2. \A q \in Rids : x.c.base[q] = IF Rows(rows, m + 1, q) THEN Kept(c, keep, W[m + 1][q])
                                           ELSE c.base[q]
            <4>1. \A q \in Rids : s.c.base[q] = IF Rows(rows, m, q) THEN Kept(c, keep, W[m][q]) ELSE c.base[q]
                BY <2>2 DEF PutTo
            <4> HIDE DEF s, x, v, r, row
            <4> QED  BY <2>7, <2>12, <2>13, <2>14, <4>1
        <3> HIDE DEF s, x
        <3> QED  BY <2>4, <2>6, <2>10, <3>1, <3>2 DEF PutTo
    <2>17. Before(m + 1)
        <3> SUFFICES ASSUME NEW i \in 1..n, i <= m + 1
                     PROVE  x.deltas[i].before = Hydrated(f[i - 1].c, rows[i].rid)
            OBVIOUS
        <3>1. CASE i = m + 1  BY <2>10, <3>1
        <3>2. CASE i # m + 1
            <4>1. i \in 1..m /\ i <= m  BY <3>2
            <4>2. s.deltas[i].before = Hydrated(f[i - 1].c, rows[i].rid)  BY <2>2, <4>1
            <4> HIDE DEF s, x
            <4> QED  BY <2>10, <4>1, <4>2
        <3> QED  BY <3>1, <3>2
    <2> QED  BY <2>16, <2>17
<1>5. \A j \in Nat : j \in T
    <2> HIDE DEF T
    <2> QED  BY <1>3, <1>4, NatSetInduction
<1>6. \A j \in 0..n : j \in Nat /\ j <= n  OBVIOUS
<1>7. \A j \in 0..n : PutTo(f[j], c, rows, keep, j, W[j]) /\ Before(j)  BY <1>5, <1>6
<1>8. \A j \in 1..n : j \in 0..n  OBVIOUS
<1> QED  BY <1>7, <1>8

----------------------------------------------------------------------------
\* What the indexes are told of one change.

Tell(c, d, defer) == IF defer THEN MarkIndexDirty(c, d) ELSE ApplyIndexDelta(c, d)

SameMeta(c, n) ==
    /\ n.meta = c.meta /\ n.indexed = c.indexed /\ n.columned = c.columned
    /\ n.tokens = c.tokens /\ n.dirtyBuild = c.dirtyBuild
    /\ n.indexBuildPending = c.indexBuildPending

\* What a build remembers of a change.
FirstBefore(c, d) ==
    IF c.build.pending[d.rid] = NoChange THEN d.before ELSE c.build.pending[d.rid].before

RecordedBuild(c, d) ==
    IF c.build.status = "building"
    THEN [c.build.pending EXCEPT ![d.rid] = [before |-> FirstBefore(c, d), after |-> d.after]]
    ELSE c.build.pending

LEMMA RecordedFacts ==
    ASSUME NEW c \in Shape, NEW d \in Delta
    PROVE  LET n == Recorded(c, d)
           IN /\ n \in Shape /\ SameRows(c, n) /\ SameMeta(c, n)
              /\ n.build.status = c.build.status /\ n.build.token = c.build.token
              /\ n.build.pending = RecordedBuild(c, d)
              /\ n.index = c.index /\ n.dirty = c.dirty
              /\ n.column = IF Building(c) THEN UpdateState(c.column, d.rid, ColumnState(d.after))
                            ELSE c.column
<1> DEFINE a == RecordFieldBuildDelta(c, d)
           n == RecordColumnBuildDelta(a, d)
           ch == [before |-> FirstBefore(c, d), after |-> d.after]
           p == [c.build.pending EXCEPT ![d.rid] = ch]
           bu == [c.build EXCEPT !.pending = p]
           co == UpdateState(c.column, d.rid, ColumnState(d.after))
<1>1. d.rid \in Rids /\ d.before \in Cells /\ d.after \in Cells  BY DEF Delta
<1>2. ch \in Change
    <2>1. c.build.pending[d.rid] \in Change  BY <1>1 DEF Shape, BuildType
    <2> QED  BY <1>1, <2>1 DEF Change, FirstBefore
<1> HIDE DEF ch
<1>3. bu \in BuildType /\ bu.status = c.build.status /\ bu.token = c.build.token /\ bu.pending = p
    <2>1. p \in [Rids -> Change]  BY <1>1, <1>2 DEF Shape, BuildType
    <2>2. c.build \in BuildType  BY DEF Shape
    <2> HIDE DEF p
    <2> QED  BY <2>1, <2>2 DEF BuildType
<1>4. a = IF c.build.status # "building" THEN c ELSE [c EXCEPT !.build = bu]
    BY DEF RecordFieldBuildDelta, FirstBefore, ch
<1>5. RecordedBuild(c, d) = IF c.build.status = "building" THEN p ELSE c.build.pending
    BY DEF RecordedBuild, ch
<1> HIDE DEF a, bu, p
<1>6. /\ a \in Shape /\ SameRows(c, a) /\ SameMeta(c, a)
      /\ a.build.status = c.build.status /\ a.build.token = c.build.token
      /\ a.build.pending = RecordedBuild(c, d)
      /\ a.index = c.index /\ a.dirty = c.dirty /\ a.column = c.column
    <2>1. CASE c.build.status # "building"
        <3>1. a = c  BY <1>4, <2>1
        <3> QED  BY <1>5, <2>1, <3>1 DEF SameRows, SameMeta
    <2>2. CASE c.build.status = "building"
        <3>1. a = [c EXCEPT !.build = bu]  BY <1>4, <2>2
        <3>2. a \in Shape /\ SameRows(c, a) /\ SameMeta(c, a) /\ a.build = bu
              /\ a.index = c.index /\ a.dirty = c.dirty /\ a.column = c.column
            BY <1>3, <3>1 DEF Shape, SameRows, SameMeta
        <3> QED  BY <1>3, <1>5, <2>2, <3>2
    <2> QED  BY <2>1, <2>2
<1>7. co \in ColumnType
    <2>1. c.column \in ColumnType /\ ColumnState(d.after) \in Fields
        BY <1>1, ColumnStateType DEF Shape
    <2> QED  BY <1>1, <2>1, UpdateStateFacts
<1>8. Building(a) <=> Building(c)  BY <1>6 DEF Building, SameMeta
<1>9. n = IF Building(c) THEN [a EXCEPT !.column = co] ELSE a
    <2>1. n = IF Building(a) THEN [a EXCEPT !.column = UpdateState(a.column, d.rid, ColumnState(d.after))] ELSE a
        BY DEF RecordColumnBuildDelta
    <2> QED  BY <1>6, <1>8, <2>1
<1> HIDE DEF n, co
<1>10. /\ n \in Shape /\ SameRows(a, n) /\ SameMeta(a, n)
       /\ n.build = a.build /\ n.index = a.index /\ n.dirty = a.dirty
       /\ n.column = IF Building(c) THEN co ELSE c.column
    <2>1. CASE Building(c)
        BY <1>6, <1>7, <1>9, <2>1 DEF Shape, SameRows, SameMeta
    <2>2. CASE ~Building(c)
        BY <1>6, <1>9, <2>2 DEF SameRows, SameMeta
    <2> QED  BY <2>1, <2>2
<1>11. SameRows(c, n) /\ SameMeta(c, n)  BY <1>6, <1>10 DEF SameRows, SameMeta
<1>12. Recorded(c, d) = n  BY DEF Recorded, n, a
<1> QED  BY <1>6, <1>10, <1>11, <1>12 DEF co

\* What one change does, marked or applied.
Told1(c, n, d, defer) ==
    /\ n \in Shape /\ SameRows(c, n) /\ SameMeta(c, n)
    /\ n.build.status = c.build.status /\ n.build.token = c.build.token
    /\ n.build.pending = RecordedBuild(c, d)
    /\ n.dirty = IF defer /\ d.rid \notin Dirty(c) THEN Append(c.dirty, d.rid) ELSE c.dirty
    /\ n.index = IF ~defer /\ d.rid \notin Dirty(c) /\ c.indexed
                 THEN Moved(c.index, d.rid, d.before, d.after) ELSE c.index
    /\ n.column = IF Building(c) \/ (c.columned /\ ~defer /\ d.rid \notin Dirty(c))
                  THEN UpdateState(c.column, d.rid, ColumnState(d.after)) ELSE c.column

LEMMA TellFacts ==
    ASSUME NEW c \in Shape, NEW d \in Delta, NEW defer \in BOOLEAN
    PROVE  Told1(c, Tell(c, d, defer), d, defer)
<1> DEFINE a == Recorded(c, d)
           co == UpdateState(c.column, d.rid, ColumnState(d.after))
           ix == Moved(c.index, d.rid, d.before, d.after)
<1>1. d.rid \in Rids /\ d.before \in Cells /\ d.after \in Cells  BY DEF Delta
<1>2. /\ a \in Shape /\ SameRows(c, a) /\ SameMeta(c, a)
      /\ a.build.status = c.build.status /\ a.build.token = c.build.token
      /\ a.build.pending = RecordedBuild(c, d)
      /\ a.index = c.index /\ a.dirty = c.dirty
      /\ a.column = IF Building(c) THEN co ELSE c.column
    BY RecordedFacts
<1>3. co \in ColumnType
    <2>1. c.column \in ColumnType /\ ColumnState(d.after) \in Fields
        BY <1>1, ColumnStateType DEF Shape
    <2> QED  BY <1>1, <2>1, UpdateStateFacts
<1>4. ix \in IndexType
    <2>1. c.index \in IndexType  BY DEF Shape
    <2> QED  BY <1>1, <2>1, MovedType
<1> HIDE DEF co, ix
<1>5. CASE defer
    <2> DEFINE n == MarkIndexDirty(c, d)
               dy == IF d.rid \in Dirty(c) THEN a.dirty ELSE Append(a.dirty, d.rid)
    <2>1. n = [a EXCEPT !.dirty = dy]  BY DEF MarkIndexDirty
    <2>2. dy \in Seq(Rids)  BY <1>1, <1>2, AppendProperties DEF Shape
    <2> HIDE DEF dy, a
    <2>3. /\ n \in Shape /\ SameRows(a, n) /\ SameMeta(a, n) /\ n.build = a.build
          /\ n.index = a.index /\ n.column = a.column /\ n.dirty = dy
        <3> HIDE DEF n
        <3> QED  BY <1>2, <2>1, <2>2 DEF Shape, SameRows, SameMeta
    <2> HIDE DEF n
    <2>4. SameRows(c, n) /\ SameMeta(c, n)  BY <1>2, <2>3 DEF SameRows, SameMeta
    <2>5. dy = IF defer /\ d.rid \notin Dirty(c) THEN Append(c.dirty, d.rid) ELSE c.dirty
        BY <1>2, <1>5 DEF dy
    <2>6. n.column = IF Building(c) \/ (c.columned /\ ~defer /\ d.rid \notin Dirty(c)) THEN co ELSE c.column
        BY <1>2, <1>5, <2>3
    <2>7. Tell(c, d, defer) = n  BY <1>5 DEF Tell, n
    <2> QED  BY <1>2, <1>5, <2>3, <2>4, <2>5, <2>6, <2>7 DEF Told1, co
<1>6. CASE ~defer
    <2> DEFINE m == IF c.indexed THEN [a EXCEPT !.index = ix] ELSE a
               n == ApplyIndexDelta(c, d)
    <2>1. n = IF d.rid \in Dirty(c) THEN a
              ELSE IF ~c.columned \/ c.column.status = "building" THEN m
              ELSE [m EXCEPT !.column = UpdateState(m.column, d.rid, ColumnState(d.after))]
        <3>1. a.index = c.index  BY <1>2
        <3> HIDE DEF a
        <3> QED  BY <3>1 DEF ApplyIndexDelta, ix, a
    <2> HIDE DEF a, n
    <2>2. /\ m \in Shape /\ SameRows(a, m) /\ SameMeta(a, m) /\ m.build = a.build
          /\ m.column = a.column /\ m.dirty = a.dirty
          /\ m.index = IF c.indexed THEN ix ELSE c.index
        <3>1. CASE c.indexed  BY <1>2, <1>4, <3>1 DEF Shape, SameRows, SameMeta
        <3>2. CASE ~c.indexed  BY <1>2, <3>2 DEF SameRows, SameMeta
        <3> QED  BY <3>1, <3>2
    <2> HIDE DEF m
    <2>3. SameRows(c, m) /\ SameMeta(c, m)  BY <1>2, <2>2 DEF SameRows, SameMeta
    <2>4. Tell(c, d, defer) = n  BY <1>6 DEF Tell, n
    <2>5. CASE d.rid \in Dirty(c)
        <3>1. n = a  BY <2>1, <2>5
        <3> QED  BY <1>2, <1>6, <2>4, <2>5, <3>1 DEF Told1, co
    <2>6. CASE d.rid \notin Dirty(c) /\ (~c.columned \/ c.column.status = "building")
        <3>1. n = m  BY <2>1, <2>6
        <3>2. Building(c) <=> c.columned  BY <2>6 DEF Building
        <3>3. c.columned \in BOOLEAN  BY DEF Shape
        <3>4. n.column = IF Building(c) \/ (c.columned /\ ~defer /\ d.rid \notin Dirty(c)) THEN co ELSE c.column
            BY <1>2, <1>6, <2>2, <2>6, <3>1, <3>2
        <3> QED  BY <1>2, <1>6, <2>2, <2>3, <2>4, <2>6, <3>1, <3>4 DEF Told1, co, ix
    <2>7. CASE d.rid \notin Dirty(c) /\ ~(~c.columned \/ c.column.status = "building")
        <3>1. ~Building(c) /\ c.columned  BY <2>7 DEF Building
        <3>2. m.column = c.column  BY <1>2, <2>2, <3>1
        <3>3. n = [m EXCEPT !.column = co]  BY <2>1, <2>7, <3>2 DEF co
        <3>4. /\ n \in Shape /\ SameRows(m, n) /\ SameMeta(m, n) /\ n.build = m.build
              /\ n.index = m.index /\ n.dirty = m.dirty /\ n.column = co
            BY <1>3, <2>2, <3>3 DEF Shape, SameRows, SameMeta
        <3>5. SameRows(c, n) /\ SameMeta(c, n)  BY <2>3, <3>4 DEF SameRows, SameMeta
        <3> QED  BY <1>2, <1>6, <2>2, <2>4, <2>7, <3>1, <3>4, <3>5 DEF Told1, co, ix
    <2> QED  BY <2>5, <2>6, <2>7
<1> QED  BY <1>5, <1>6

----------------------------------------------------------------------------
\* A batch of changes.

ToldChain(f, c, deltas, defer, n) ==
    /\ f \in [0..n -> Shape] /\ f[0] = c
    /\ \A i \in 1..n : f[i - 1] \in Shape /\ f[i] \in Shape /\ Told1(f[i - 1], f[i], deltas[i], defer)

LEMMA ToldSteps ==
    ASSUME NEW c \in Shape, NEW n \in Nat, NEW deltas, NEW defer \in BOOLEAN,
           \A i \in 1..n : deltas[i] \in Delta
    PROVE  \E f : Told(c, deltas, defer, n) = f[n] /\ ToldChain(f, c, deltas, defer, n)
<1> DEFINE Step(x, i) == IF defer THEN MarkIndexDirty(x, deltas[i]) ELSE ApplyIndexDelta(x, deltas[i])
           Is(g) == g = [i \in 0..n |-> IF i = 0 THEN c
                                        ELSE IF defer THEN MarkIndexDirty(g[i - 1], deltas[i])
                                        ELSE ApplyIndexDelta(g[i - 1], deltas[i])]
           F == [p \in (1..n) \X Shape |-> Step(p[2], p[1])]
<1>1. \A i \in 1..n, x \in Shape : Step(x, i) = Tell(x, deltas[i], defer)  BY DEF Tell
<1>2. \A i \in 1..n, x \in Shape : Told1(x, Step(x, i), deltas[i], defer)
    <2> HIDE DEF Step
    <2> QED  BY <1>1, TellFacts
<1>3. \A i \in 1..n, x \in Shape : Step(x, i) \in Shape
    <2> HIDE DEF Step
    <2> QED  BY <1>2 DEF Told1
<1>4. \A i \in 1..n, x \in Shape : F[<<i, x>>] = Step(x, i)  OBVIOUS
<1>5. PICK g : Steps(g, F, c, n, Shape)
    <2>1. Closed(F, n, Shape)
        <3> HIDE DEF F, Step
        <3> QED  BY <1>3, <1>4 DEF Closed
    <2> HIDE DEF F
    <2> QED  BY <2>1, StepsExist
<1>6. g \in [0..n -> Shape] /\ g[0] = c /\ \A i \in 1..n : g[i] = F[<<i, g[i - 1]>>]
    BY <1>5 DEF Steps
<1>7. \A i \in 1..n : /\ i - 1 \in 0..n /\ i \in 0..n /\ g[i - 1] \in Shape /\ g[i] \in Shape
                      /\ g[i] = Step(g[i - 1], i)
    <2> TAKE i \in 1..n
    <2>1. i - 1 \in 0..n /\ i \in 0..n  OBVIOUS
    <2> HIDE DEF F, Step
    <2> QED  BY <1>4, <1>6, <2>1
<1>8. Is(g)
    <2>1. ASSUME NEW i \in 0..n
          PROVE  g[i] = IF i = 0 THEN c ELSE IF defer THEN MarkIndexDirty(g[i - 1], deltas[i])
                        ELSE ApplyIndexDelta(g[i - 1], deltas[i])
        <3>1. i = 0 \/ i \in 1..n  OBVIOUS
        <3>2. i \in 1..n => g[i] = Step(g[i - 1], i)
            <4> HIDE DEF Step
            <4> QED  BY <1>7
        <3> QED  BY <1>6, <3>1, <3>2
    <2> QED  BY <1>6, <2>1
<1> DEFINE f == CHOOSE h : Is(h)
<1>9. Is(f)
    <2> HIDE DEF Is
    <2> QED  BY <1>8
<1>10. /\ f = [i \in 0..n |-> f[i]] /\ f[0] = c
       /\ \A i \in 1..n : f[i] = Step(f[i - 1], i)
    <2> HIDE DEF f
    <2>1. \A i \in 1..n : i \in 0..n /\ i # 0  OBVIOUS
    <2> QED  BY <1>9, <2>1
<1>11. f = g
    <2> HIDE DEF f, F, Is, Step
    <2>1. \A i \in 1..n : f[i - 1] = g[i - 1] => f[i] = g[i]  BY <1>7, <1>10
    <2>2. f[0] = g[0]  BY <1>6, <1>10
    <2>3. StepAlike(f, g, n)  BY <2>1, <2>2 DEF StepAlike
    <2>4. SameUpTo(f, g, n)  BY <2>3, SameSteps
    <2>5. \A i \in 0..n : f[i] = g[i]  BY <2>4 DEF SameUpTo
    <2> QED  BY <1>6, <1>10, <2>5
<1>12. Told(c, deltas, defer, n) = f[n]  BY DEF Told
<1>13. ToldChain(g, c, deltas, defer, n)
    <2> HIDE DEF F, Step
    <2> QED  BY <1>2, <1>6, <1>7 DEF ToldChain
<1> HIDE DEF f
<1> QED  BY <1>11, <1>12, <1>13

LEMMA OnceAppend ==
    ASSUME NEW s \in Seq(Rids), Once(s), NEW r \in Rids, r \notin Range(s)
    PROVE  Once(Append(s, r))
<1> DEFINE t == Append(s, r)
<1>1. /\ Len(s) \in Nat /\ Len(t) = Len(s) + 1 /\ t[Len(s) + 1] = r
      /\ \A i \in 1..Len(s) : t[i] = s[i]
    BY AppendProperties, LenProperties
<1>2. \A i \in 1..Len(s) : s[i] # r  BY LenProperties DEF Range
<1>3. \A i \in 1..Len(t) : i \in 1..Len(s) \/ i = Len(s) + 1  BY <1>1
<1> HIDE DEF t
<1>4. Once(t)  BY <1>1, <1>2, <1>3 DEF Once
<1> QED  BY <1>4 DEF t

\* Told of changes a collection keeps its rows and what it is to have.
ToldTo(c, x) == SameRows(c, x) /\ SameMeta(c, x) /\ (Once(c.dirty) => Once(x.dirty))

LEMMA ToldFacts ==
    ASSUME NEW c \in Shape, NEW n \in Nat, NEW deltas, NEW defer \in BOOLEAN,
           \A i \in 1..n : deltas[i] \in Delta
    PROVE  Told(c, deltas, defer, n) \in Shape /\ ToldTo(c, Told(c, deltas, defer, n))
<1>1. PICK f : Told(c, deltas, defer, n) = f[n] /\ ToldChain(f, c, deltas, defer, n)
    BY ToldSteps
<1>2. /\ f \in [0..n -> Shape] /\ f[0] = c
      /\ \A i \in 1..n : f[i - 1] \in Shape /\ f[i] \in Shape /\ Told1(f[i - 1], f[i], deltas[i], defer)
    BY <1>1 DEF ToldChain
<1> DEFINE T == {m \in Nat : m <= n => ToldTo(c, f[m])}
<1>3. 0 \in T  BY <1>2 DEF ToldTo, SameRows, SameMeta
<1>4. ASSUME NEW m \in Nat, m \in T PROVE m + 1 \in T
    <2> SUFFICES ASSUME m + 1 <= n PROVE ToldTo(c, f[m + 1])  OBVIOUS
    <2>1. PICK i \in 1..n : i = m + 1  OBVIOUS
    <2>2. i - 1 = m  BY <2>1
    <2>3. f[m] \in Shape /\ Told1(f[m], f[m + 1], deltas[i], defer)  BY <1>2, <2>1, <2>2
    <2>4. ToldTo(c, f[m])  BY <1>4
    <2>5. SameRows(c, f[m + 1]) /\ SameMeta(c, f[m + 1])
        BY <2>3, <2>4 DEF Told1, ToldTo, SameRows, SameMeta
    <2>6. Once(c.dirty) => Once(f[m + 1].dirty)
        <3> SUFFICES ASSUME Once(f[m].dirty) PROVE Once(f[m + 1].dirty)  BY <2>4 DEF ToldTo
        <3>1. f[m].dirty \in Seq(Rids) /\ deltas[i].rid \in Rids  BY <2>3 DEF Shape, Delta
        <3> QED  BY <2>3, <3>1, OnceAppend DEF Told1, Dirty
    <2> QED  BY <2>5, <2>6 DEF ToldTo
<1>5. n \in T
    <2> HIDE DEF T
    <2> QED  BY <1>3, <1>4, NatSetInduction
<1> QED  BY <1>1, <1>2, <1>5

\* A batch told to the indexes, and the catch-up it may need.
LEMMA ApplyIndexDeltasFacts ==
    ASSUME NEW s \in Batch, NEW defer \in BOOLEAN
    PROVE  LET n == ApplyIndexDeltas(s, defer)
               t == Told(s.c, s.deltas, defer, Len(s.deltas))
           IN /\ n \in Shape /\ Scoped(n) /\ SameRows(s.c, n)
              /\ n.meta = s.c.meta /\ n.indexed = s.c.indexed /\ n.columned = s.c.columned
              /\ n.tokens = s.c.tokens /\ n.indexBuildPending = s.c.indexBuildPending
              /\ Once(s.c.dirty) => Once(n.dirty)
              /\ n.dirtyBuild <=> s.c.dirtyBuild \/ (s.deltas # <<>> /\ defer)
              /\ n.build = t.build /\ n.index = t.index /\ n.column = t.column /\ n.dirty = t.dirty
<1> DEFINE t == Told(s.c, s.deltas, defer, Len(s.deltas))
           n == ApplyIndexDeltas(s, defer)
<1>1. s.c \in Shape /\ Scoped(s.c) /\ s.deltas \in Seq(Delta)  BY DEF Batch
<1>2. Len(s.deltas) \in Nat /\ \A i \in 1..Len(s.deltas) : s.deltas[i] \in Delta
    BY <1>1, LenProperties, ElementOfSeq
<1>3. t \in Shape /\ ToldTo(s.c, t)  BY <1>1, <1>2, ToldFacts
<1>4. n = IF s.deltas # <<>> /\ defer THEN [t EXCEPT !.dirtyBuild = TRUE] ELSE t
    BY DEF ApplyIndexDeltas
<1> HIDE DEF t, n
<1>5. /\ n \in Shape /\ SameRows(t, n)
      /\ n.meta = t.meta /\ n.indexed = t.indexed /\ n.columned = t.columned
      /\ n.tokens = t.tokens /\ n.indexBuildPending = t.indexBuildPending
      /\ n.dirtyBuild <=> t.dirtyBuild \/ (s.deltas # <<>> /\ defer)
      /\ n.build = t.build /\ n.index = t.index /\ n.column = t.column /\ n.dirty = t.dirty
    <2>1. CASE s.deltas # <<>> /\ defer
        <3>1. n = [t EXCEPT !.dirtyBuild = TRUE]  BY <1>4, <2>1
        <3> QED  BY <1>3, <2>1, <3>1 DEF Shape, SameRows
    <2>2. CASE ~(s.deltas # <<>> /\ defer)
        <3>1. n = t  BY <1>4, <2>2
        <3> QED  BY <1>3, <2>2, <3>1 DEF SameRows
    <2> QED  BY <2>1, <2>2
<1>6. SameRows(s.c, n)  BY <1>3, <1>5 DEF ToldTo, SameRows
<1>7. Scoped(n)  BY <1>1, <1>6, SameScopes DEF SameRows
<1>8. /\ n.meta = s.c.meta /\ n.indexed = s.c.indexed /\ n.columned = s.c.columned
      /\ n.tokens = s.c.tokens /\ n.indexBuildPending = s.c.indexBuildPending
      /\ n.dirtyBuild <=> s.c.dirtyBuild \/ (s.deltas # <<>> /\ defer)
      /\ Once(s.c.dirty) => Once(n.dirty)
    BY <1>3, <1>5 DEF ToldTo, SameMeta
<1> QED  BY <1>5, <1>6, <1>7, <1>8 DEF n, t

----------------------------------------------------------------------------
\* What a change of the metadata does.

NoBuildPending == [r \in Rids |-> NoChange]

LEMMA NoBuildType == NoBuild \in BuildType
<1>1. NoChange \in Change  BY CellFacts DEF NoChange, Change
<1>2. [r \in Rids |-> NoChange] \in [Rids -> Change]  BY <1>1
<1> QED  BY <1>2 DEF NoBuild, BuildType

LEMMA ScannedIndexFacts ==
    ASSUME NEW c \in Shape
    PROVE  /\ ScannedIndex(c) \in IndexType
           /\ \A r \in Rids : ScannedIndex(c).forward[r] = Hydrated(c, r)
           /\ \A r \in Rids, v \in Fields :
                 <<r, v>> \in ScannedIndex(c).entries <=> Hydrated(c, r) = v
<1>1. \A r \in Rids : Hydrated(c, r) \in Cells /\ (Hydrated(c, r) = Gone <=> c.base[r] = Gone)
    BY HydratedType
<1>2. \A r \in LiveRids(c) : r \in Rids /\ Hydrated(c, r) \in Fields
    BY <1>1, CellFacts DEF LiveRids
<1>3. ScannedIndex(c).entries = {<<r, Hydrated(c, r)>> : r \in LiveRids(c)}
      /\ ScannedIndex(c).forward = [r \in Rids |-> Hydrated(c, r)]
    BY DEF ScannedIndex
<1>4. ScannedIndex(c).entries \subseteq Rids \X Fields  BY <1>2, <1>3
<1>5. ScannedIndex(c).forward \in [Rids -> Cells]  BY <1>1, <1>3
<1>6. ScannedIndex(c) \in IndexType  BY <1>4, <1>5 DEF ScannedIndex, IndexType
<1>7. ASSUME NEW r \in Rids, NEW v \in Fields
      PROVE  <<r, v>> \in ScannedIndex(c).entries <=> Hydrated(c, r) = v
    <2>1. Hydrated(c, r) = v => r \in LiveRids(c)  BY <1>1, CellFacts DEF LiveRids
    <2> QED  BY <1>3, <2>1
<1> QED  BY <1>3, <1>6, <1>7

\* The index, as the metadata asks for it.
Indexed(c, n, background) ==
    IF ~c.meta.index
    THEN ~n.indexed /\ n.index = EmptyIndex /\ n.build = NoBuild /\ n.tokens = c.tokens
    ELSE IF (c.indexed \/ c.build.status # "none") /\ ~background
    THEN n.indexed = c.indexed /\ n.index = c.index /\ n.build = c.build /\ n.tokens = c.tokens
    ELSE IF c.live = 0
    THEN n.indexed /\ n.index = EmptyIndex /\ n.build = NoBuild /\ n.tokens = c.tokens
    ELSE IF background
    THEN /\ ~n.indexed /\ n.index = EmptyIndex /\ n.tokens = c.tokens + 1
         /\ n.build.status = "building" /\ n.build.token = c.tokens + 1
         /\ n.build.pending = NoBuildPending
    ELSE n.indexed /\ n.index = ScannedIndex(c) /\ n.build = NoBuild /\ n.tokens = c.tokens

LEMMA MetaIndexesFacts ==
    ASSUME NEW c \in Shape, NEW background \in BOOLEAN
    PROVE  LET n == MetaIndexes(c, background)
           IN /\ n \in Shape /\ SameRows(c, n) /\ n.meta = c.meta
              /\ n.columned = c.columned /\ n.column = c.column
              /\ n.dirty = c.dirty /\ n.dirtyBuild = c.dirtyBuild
              /\ n.indexBuildPending = c.indexBuildPending
              /\ Indexed(c, n, background)
<1> DEFINE n == MetaIndexes(c, background)
           Same(x) == /\ x \in Shape /\ SameRows(c, x) /\ x.meta = c.meta
                      /\ x.columned = c.columned /\ x.column = c.column
                      /\ x.dirty = c.dirty /\ x.dirtyBuild = c.dirtyBuild
                      /\ x.indexBuildPending = c.indexBuildPending
           early == (c.indexed \/ c.build.status # "none") /\ ~background
<1>0. EmptyIndex \in IndexType /\ NoBuild \in BuildType /\ ScannedIndex(c) \in IndexType
    BY EmptyIndexType, NoBuildType, ScannedIndexFacts
<1>1. CASE ~c.meta.index
    <2>1. n = [c EXCEPT !.indexed = FALSE, !.index = EmptyIndex, !.build = NoBuild]
        BY <1>1 DEF MetaIndexes
    <2> HIDE DEF n
    <2>2. Same(n) /\ ~n.indexed /\ n.index = EmptyIndex /\ n.build = NoBuild /\ n.tokens = c.tokens
        BY <1>0, <2>1 DEF Shape, SameRows
    <2>3. Indexed(c, n, background)  BY <1>1, <2>2 DEF Indexed
    <2> QED  BY <2>2, <2>3 DEF n
<1>2. CASE c.meta.index /\ early
    <2>1. n = c  BY <1>2 DEF MetaIndexes
    <2> HIDE DEF n
    <2>2. Same(n)  BY <2>1 DEF SameRows
    <2>3. Indexed(c, n, background)  BY <1>2, <2>1 DEF Indexed
    <2> QED  BY <2>2, <2>3 DEF n
<1>3. CASE c.meta.index /\ ~early /\ c.live = 0
    <2>1. n = [c EXCEPT !.indexed = TRUE, !.index = EmptyIndex, !.build = NoBuild]
        BY <1>3 DEF MetaIndexes
    <2> HIDE DEF n
    <2>2. Same(n) /\ n.indexed /\ n.index = EmptyIndex /\ n.build = NoBuild /\ n.tokens = c.tokens
        BY <1>0, <2>1 DEF Shape, SameRows
    <2>3. Indexed(c, n, background)  BY <1>3, <2>2 DEF Indexed
    <2> QED  BY <2>2, <2>3 DEF n
<1>4. CASE c.meta.index /\ ~early /\ c.live # 0 /\ background
    <2> DEFINE bu == [NoBuild EXCEPT !.status = "building", !.token = c.tokens + 1]
    <2>1. n = [c EXCEPT !.indexed = FALSE, !.index = EmptyIndex, !.tokens = c.tokens + 1, !.build = bu]
        BY <1>4 DEF MetaIndexes, StartFieldBuild
    <2>2. c.tokens + 1 \in Nat  BY DEF Shape
    <2>3. bu \in BuildType /\ bu.status = "building" /\ bu.token = c.tokens + 1
          /\ bu.pending = NoBuild.pending
        <3> HIDE DEF NoBuild
        <3> QED  BY <1>0, <2>2 DEF BuildType
    <2>4. NoBuild.pending = NoBuildPending  BY DEF NoBuild, NoBuildPending
    <2> HIDE DEF n, bu
    <2>5. Same(n) /\ ~n.indexed /\ n.index = EmptyIndex /\ n.build = bu /\ n.tokens = c.tokens + 1
        BY <1>0, <2>1, <2>2, <2>3 DEF Shape, SameRows
    <2>6. Indexed(c, n, background)  BY <1>4, <2>3, <2>4, <2>5 DEF Indexed
    <2> QED  BY <2>5, <2>6 DEF n
<1>5. CASE c.meta.index /\ ~early /\ c.live # 0 /\ ~background
    <2>1. n = [c EXCEPT !.indexed = TRUE, !.index = ScannedIndex(c), !.build = NoBuild]
        BY <1>5 DEF MetaIndexes
    <2> HIDE DEF n
    <2>2. Same(n) /\ n.indexed /\ n.index = ScannedIndex(c) /\ n.build = NoBuild /\ n.tokens = c.tokens
        BY <1>0, <2>1 DEF Shape, SameRows
    <2>3. Indexed(c, n, background)  BY <1>5, <2>2 DEF Indexed
    <2> QED  BY <2>2, <2>3 DEF n
<1> QED  BY <1>1, <1>2, <1>3, <1>4, <1>5

\* The column, as the metadata asks for it.
Columned(c, n, rebuild) ==
    IF ~c.meta.column THEN ~n.columned /\ n.column = EmptyColumn
    ELSE IF c.live = 0
    THEN /\ n.columned /\ n.column.status = "ready" /\ n.column.id = c.column.id + 1
         /\ \A r \in Rids : n.column.vals[r] = Absent
    ELSE IF ~c.columned \/ rebuild \/ c.column.status = "error"
    THEN /\ n.columned /\ n.column.status = "building" /\ n.column.id = c.column.id + 1
         /\ n.column.vals = c.column.vals /\ n.column.pending = [r \in Rids |-> Untouched]
    ELSE n.columned = c.columned /\ n.column = c.column

LEMMA InstallFacts ==
    ASSUME NEW column \in ColumnType, NEW built \in ColumnType
    PROVE  LET u == Install(column, built)
           IN /\ u \in ColumnType /\ u.status = built.status /\ u.id = column.id
              /\ \A r \in Rids : u.vals[r] = IF column.pending[r] = Untouched THEN built.vals[r]
                                             ELSE column.pending[r]
<1>1. PICK u : u = Replay(column, built, MaxRid)  OBVIOUS
<1>2. /\ u \in ColumnType /\ u.status = built.status /\ u.id = built.id
      /\ \A r \in Rids : u.vals[r] = IF column.pending[r] = Untouched THEN built.vals[r]
                                     ELSE column.pending[r]
    BY <1>1, ReplayFacts
<1>3. Install(column, built) = [u EXCEPT !.id = column.id]  BY <1>1 DEF Install
<1> QED  BY <1>2, <1>3 DEF ColumnType

LEMMA MetaColumnsFacts ==
    ASSUME NEW c \in Shape, NEW rebuild \in BOOLEAN
    PROVE  LET n == MetaColumns(c, rebuild)
           IN /\ n \in Shape /\ SameRows(c, n) /\ n.meta = c.meta
              /\ n.indexed = c.indexed /\ n.index = c.index /\ n.build = c.build
              /\ n.tokens = c.tokens /\ n.dirty = c.dirty /\ n.dirtyBuild = c.dirtyBuild
              /\ n.indexBuildPending = c.indexBuildPending
              /\ Columned(c, n, rebuild)
<1> DEFINE n == MetaColumns(c, rebuild)
           Same(x) == /\ x \in Shape /\ SameRows(c, x) /\ x.meta = c.meta
                      /\ x.indexed = c.indexed /\ x.index = c.index /\ x.build = c.build
                      /\ x.tokens = c.tokens /\ x.dirty = c.dirty /\ x.dirtyBuild = c.dirtyBuild
                      /\ x.indexBuildPending = c.indexBuildPending
           begun == StartBuild(c.column)
           empty == Install(begun, EmptyColumn)
           due == ~c.columned \/ rebuild \/ c.column.status = "error"
<1>0. c.column \in ColumnType  BY DEF Shape
<1>1. /\ begun \in ColumnType /\ begun.status = "building" /\ begun.vals = c.column.vals
      /\ begun.pending = [r \in Rids |-> Untouched] /\ begun.id = c.column.id + 1
    BY <1>0, StartBuildFacts
<1> HIDE DEF begun
<1>2. /\ empty \in ColumnType /\ empty.status = "ready" /\ empty.id = c.column.id + 1
      /\ \A r \in Rids : empty.vals[r] = Absent
    <2>1. /\ empty \in ColumnType /\ empty.status = EmptyColumn.status /\ empty.id = begun.id
          /\ \A r \in Rids : empty.vals[r] = IF begun.pending[r] = Untouched THEN EmptyColumn.vals[r]
                                             ELSE begun.pending[r]
        BY <1>1, EmptyColumnType, InstallFacts
    <2>2. EmptyColumn.status = "ready" /\ \A r \in Rids : EmptyColumn.vals[r] = Absent
        BY DEF EmptyColumn
    <2> HIDE DEF empty
    <2> QED  BY <1>1, <2>1, <2>2
<1>3. EmptyColumn \in ColumnType  BY EmptyColumnType
<1> HIDE DEF empty
<1>4. n = IF ~c.meta.column THEN [c EXCEPT !.columned = FALSE, !.column = EmptyColumn]
          ELSE IF c.live = 0 THEN [c EXCEPT !.columned = TRUE, !.column = empty]
          ELSE IF due THEN [c EXCEPT !.columned = TRUE, !.column = begun] ELSE c
    BY DEF MetaColumns, begun, empty
<1> HIDE DEF n
<1>5. CASE ~c.meta.column
    <2>1. n = [c EXCEPT !.columned = FALSE, !.column = EmptyColumn]  BY <1>4, <1>5
    <2>2. Same(n) /\ ~n.columned /\ n.column = EmptyColumn
        BY <1>3, <2>1 DEF Shape, SameRows
    <2>3. Columned(c, n, rebuild)  BY <1>5, <2>2 DEF Columned
    <2> QED  BY <2>2, <2>3 DEF n
<1>6. CASE c.meta.column /\ c.live = 0
    <2>1. n = [c EXCEPT !.columned = TRUE, !.column = empty]  BY <1>4, <1>6
    <2>2. Same(n) /\ n.columned /\ n.column = empty
        BY <1>2, <2>1 DEF Shape, SameRows
    <2>3. Columned(c, n, rebuild)  BY <1>2, <1>6, <2>2 DEF Columned
    <2> QED  BY <2>2, <2>3 DEF n
<1>7. CASE c.meta.column /\ c.live # 0 /\ due
    <2>1. n = [c EXCEPT !.columned = TRUE, !.column = begun]  BY <1>4, <1>7
    <2>2. Same(n) /\ n.columned /\ n.column = begun
        BY <1>1, <2>1 DEF Shape, SameRows
    <2>3. Columned(c, n, rebuild)  BY <1>1, <1>7, <2>2 DEF Columned
    <2> QED  BY <2>2, <2>3 DEF n
<1>8. CASE c.meta.column /\ c.live # 0 /\ ~due
    <2>1. n = c  BY <1>4, <1>8
    <2>2. Same(n)  BY <2>1 DEF SameRows
    <2>3. Columned(c, n, rebuild)  BY <1>8, <2>1 DEF Columned
    <2> QED  BY <2>2, <2>3 DEF n
<1> QED  BY <1>5, <1>6, <1>7, <1>8

----------------------------------------------------------------------------
\* Jobs.

OwnKinds == {"index", "column", "dirty", "cancelled"}
Phases == {"scan", "strip", "settle"}
OwnJob == [kind : OwnKinds, token : Nat, phase : Phases, at : 0..MaxRid,
           index : IndexType, column : ColumnType]
VectorJob == [kind : {"vector"}, token : Token, phase : Phases, at : 0..MaxRid,
              index : IndexType, column : ColumnType]
AnyJob == OwnJob \cup VectorJob

\* There is one catch-up job while the collection says so, and none otherwise.
CatchupJobs(js, due) ==
    /\ \A i, j \in 1..Len(js) : js[i].kind = "dirty" /\ js[j].kind = "dirty" => i = j
    /\ due <=> \E i \in 1..Len(js) : js[i].kind = "dirty"

LEMMA JobTypes ==
    /\ \A kind \in OwnKinds, token \in Nat : Job(kind, token) \in OwnJob
    /\ \A token \in Token : Job("vector", token) \in VectorJob
<1>1. 0 \in 0..MaxRid  BY RidFacts
<1> QED  BY <1>1, EmptyIndexType, EmptyColumnType DEF Job, OwnJob, VectorJob, Phases

LEMMA JobKinds ==
    ASSUME NEW kind, NEW token
    PROVE  /\ Job(kind, token).kind = kind /\ Job(kind, token).token = token
           /\ Job(kind, token).phase = "scan" /\ Job(kind, token).at = 0
           /\ Job(kind, token).index = EmptyIndex /\ Job(kind, token).column = EmptyColumn
BY DEF Job

LEMMA TailJobs ==
    ASSUME NEW js \in Seq(AnyJob), js # <<>>
    PROVE  /\ Tail(js) \in Seq(AnyJob) /\ Head(js) \in AnyJob /\ Head(js) = js[1]
           /\ Len(js) \in Nat \ {0} /\ Len(Tail(js)) = Len(js) - 1
           /\ \A i \in 1..Len(Tail(js)) : i + 1 \in 1..Len(js) /\ Tail(js)[i] = js[i + 1]
<1>1. Len(js) \in Nat \ {0}  BY EmptySeq
<1>2. Head(js) = js[1] /\ 1 \in 1..Len(js)  BY <1>1
<1>3. Head(js) \in AnyJob  BY <1>2, ElementOfSeq
<1>4. /\ Tail(js) \in Seq(AnyJob) /\ Len(Tail(js)) = Len(js) - 1
      /\ \A i \in 1..Len(Tail(js)) : Tail(js)[i] = js[i + 1]
    BY HeadTailProperties
<1>5. \A i \in 1..Len(Tail(js)) : i + 1 \in 1..Len(js)  BY <1>1, <1>4
<1> QED  BY <1>1, <1>2, <1>3, <1>4, <1>5

LEMMA TailCatchups ==
    ASSUME NEW js \in Seq(AnyJob), js # <<>>, NEW due, CatchupJobs(js, due)
    PROVE  /\ Head(js).kind # "dirty" => CatchupJobs(Tail(js), due)
           /\ Head(js).kind = "dirty" => CatchupJobs(Tail(js), FALSE)
<1> DEFINE t == Tail(js)
           n == Len(js)
           m == Len(t)
<1>1. /\ Head(js) = js[1] /\ n \in Nat \ {0} /\ m = n - 1
      /\ \A i \in 1..m : i + 1 \in 1..n /\ t[i] = js[i + 1]
    BY TailJobs
<1>2. /\ \A i, j \in 1..n : js[i].kind = "dirty" /\ js[j].kind = "dirty" => i = j
      /\ due <=> \E i \in 1..n : js[i].kind = "dirty"
    BY DEF CatchupJobs
<1>3. \A i \in 1..n : i = 1 \/ (i - 1 \in 1..m /\ i = i - 1 + 1)  BY <1>1
<1>4. 1 \in 1..n /\ \A i \in 1..m : i + 1 # 1  BY <1>1
<1>5. \A i \in 1..n : i = 1 \/ (i - 1 \in 1..m /\ js[i] = t[i - 1])
    <2> TAKE i \in 1..n
    <2>1. CASE i # 1
        <3>1. i - 1 \in 1..m /\ i - 1 + 1 = i  BY <1>3, <2>1
        <3> HIDE DEF t, m, n
        <3> QED  BY <1>1, <3>1
    <2> QED  BY <2>1
<1> HIDE DEF t, n, m
<1>6. ASSUME NEW i \in 1..m, NEW j \in 1..m, t[i].kind = "dirty", t[j].kind = "dirty" PROVE i = j
    <2>1. i + 1 = j + 1  BY <1>1, <1>2, <1>6
    <2> QED  BY <2>1
<1>7. ASSUME Head(js).kind # "dirty" PROVE CatchupJobs(t, due)
    <2>1. \A i \in 1..n : js[i].kind = "dirty" => i - 1 \in 1..m /\ t[i - 1].kind = "dirty"
        BY <1>1, <1>5, <1>7
    <2>2. \A i \in 1..m : t[i].kind = "dirty" => i + 1 \in 1..n /\ js[i + 1].kind = "dirty"
        BY <1>1
    <2>3. due <=> \E i \in 1..m : t[i].kind = "dirty"  BY <1>2, <2>1, <2>2
    <2> QED  BY <1>6, <2>3 DEF CatchupJobs, m
<1>8. ASSUME Head(js).kind = "dirty" PROVE CatchupJobs(t, FALSE)
    <2>1. \A i \in 1..m : t[i].kind # "dirty"
        <3> TAKE i \in 1..m
        <3>1. js[1].kind = "dirty" /\ i + 1 \in 1..n /\ i + 1 # 1 /\ t[i] = js[i + 1]
            BY <1>1, <1>4, <1>8
        <3> QED  BY <1>2, <1>4, <3>1
    <2> QED  BY <2>1 DEF CatchupJobs, m
<1> QED  BY <1>7, <1>8 DEF t

LEMMA SliceJobs ==
    ASSUME NEW js \in Seq(AnyJob), js # <<>>, NEW job \in AnyJob, job.kind = Head(js).kind
    PROVE  LET t == [js EXCEPT ![1] = job]
           IN /\ t \in Seq(AnyJob) /\ Len(t) = Len(js) /\ 1 \in 1..Len(js)
              /\ \A i \in 1..Len(js) : t[i] = IF i = 1 THEN job ELSE js[i]
              /\ \A due : CatchupJobs(js, due) => CatchupJobs(t, due)
<1> DEFINE t == [js EXCEPT ![1] = job]
<1>1. Head(js) = js[1] /\ Len(js) \in Nat \ {0}  BY TailJobs
<1>2. 1 \in 1..Len(js)  BY <1>1
<1>3. /\ t \in Seq(AnyJob) /\ Len(t) = Len(js)
      /\ \A i \in 1..Len(js) : t[i] = IF i = 1 THEN job ELSE js[i]
    BY <1>2, ExceptSeq
<1> HIDE DEF t
<1>4. \A i \in 1..Len(js) : t[i].kind = js[i].kind  BY <1>1, <1>3
<1>5. ASSUME NEW due, CatchupJobs(js, due) PROVE CatchupJobs(t, due)
    BY <1>3, <1>4, <1>5 DEF CatchupJobs
<1> QED  BY <1>2, <1>3, <1>5 DEF t

LEMMA MoreJobs ==
    ASSUME NEW js \in Seq(AnyJob), NEW more \in Seq(AnyJob), NEW due, CatchupJobs(js, due)
    PROVE  LET t == js \o more
           IN /\ t \in Seq(AnyJob) /\ Len(t) = Len(js) + Len(more)
              /\ \A i \in 1..Len(js) : t[i] = js[i] /\ i \in 1..Len(t)
              /\ \A i \in 1..Len(t) : i \in 1..Len(js)
                     \/ (i - Len(js) \in 1..Len(more) /\ t[i] = more[i - Len(js)])
              /\ (\A i \in 1..Len(more) : more[i].kind # "dirty") => CatchupJobs(t, due)
              /\ ~due /\ Len(more) = 1 /\ more[1].kind = "dirty" => CatchupJobs(t, TRUE)
<1> DEFINE t == js \o more
           n == Len(js)
           m == Len(more)
           l == Len(t)
<1>1. /\ t \in Seq(AnyJob) /\ l = n + m /\ n \in Nat /\ m \in Nat
      /\ \A i \in 1..l : t[i] = IF i <= n THEN js[i] ELSE more[i - n]
    BY ConcatProperties, LenProperties
<1> HIDE DEF t
<1>2. \A i \in 1..n : t[i] = js[i] /\ i \in 1..l
    <2> TAKE i \in 1..n
    <2>1. i \in 1..l /\ i <= n  BY <1>1
    <2> HIDE DEF l, n
    <2> QED  BY <1>1, <2>1
<1>3. \A i \in 1..l : i \in 1..n \/ (i - n \in 1..m /\ t[i] = more[i - n])
    <2> TAKE i \in 1..l
    <2>1. i \in 1..n \/ (i - n \in 1..m /\ ~(i <= n))  BY <1>1
    <2> HIDE DEF l, n, m
    <2> QED  BY <1>1, <2>1
<1>4. /\ \A i, j \in 1..n : js[i].kind = "dirty" /\ js[j].kind = "dirty" => i = j
      /\ due <=> \E i \in 1..n : js[i].kind = "dirty"
    BY DEF CatchupJobs
<1> HIDE DEF n, m, l
<1>5. ASSUME \A i \in 1..m : more[i].kind # "dirty" PROVE CatchupJobs(t, due)
    <2>1. \A i \in 1..l : t[i].kind = "dirty" => i \in 1..n /\ js[i].kind = "dirty"
        BY <1>2, <1>3, <1>5
    <2>2. \A i \in 1..n : js[i].kind = "dirty" => i \in 1..l /\ t[i].kind = "dirty"  BY <1>2
    <2> QED  BY <1>4, <2>1, <2>2 DEF CatchupJobs, l
<1>6. ASSUME ~due, m = 1, more[1].kind = "dirty" PROVE CatchupJobs(t, TRUE)
    <2>1. \A i \in 1..n : js[i].kind # "dirty"  BY <1>4, <1>6
    <2>2. \A i \in 1..l : i \in 1..n \/ i = n + 1  BY <1>1, <1>6
    <2>3. n + 1 \in 1..l /\ t[n + 1] = more[1]
        <3>1. n + 1 \in 1..l /\ n + 1 - n = 1 /\ ~(n + 1 \in 1..n)  BY <1>1, <1>6
        <3>2. PICK i \in 1..l : i = n + 1  BY <3>1
        <3>3. t[i] = more[i - n]  BY <1>3, <3>1, <3>2
        <3>4. i - n = 1  BY <1>1, <3>2
        <3>5. t[i] = more[1]  BY <3>3, <3>4
        <3> QED  BY <3>1, <3>2, <3>5
    <2>4. \A i \in 1..l : t[i].kind = "dirty" => i = n + 1  BY <1>2, <2>1, <2>2
    <2> QED  BY <1>6, <2>3, <2>4 DEF CatchupJobs, l
<1> QED  BY <1>1, <1>2, <1>3, <1>5, <1>6 DEF t, n, m, l

----------------------------------------------------------------------------
\* What holds in every scenario.

Present(c, w) == \A r \in Rids : c.base[r] = Gone <=> w[r] = Gone

CollOk(c, w) ==
    /\ c \in Shape /\ Scoped(c) /\ Once(c.dirty) /\ Present(c, w)
    /\ ~c.exists => ~c.dirtyBuild /\ \A r \in Rids : c.base[r] = Gone

JobsTyped(js, c) == js \in Seq(AnyJob) /\ CatchupJobs(js, c.dirtyBuild)

StateInv ==
    /\ scenario \in Scenarios /\ written \in [Rids -> Cells]
    /\ CollOk(coll, written) /\ JobsTyped(jobs, coll) /\ VectorsOk(vecs, written)

LEMMA ScenarioFacts ==
    ASSUME NEW sc \in Scenarios
    PROVE  /\ sc.start \in {"empty", "ready", "restored"}
           /\ sc.rows \in Seq(Fields) /\ Len(sc.rows) \in 0..MaxRid
           /\ \A i \in 1..Len(sc.rows) : sc.rows[i] \in Fields /\ i \in Rids
           /\ sc.meta \in [index : BOOLEAN, column : BOOLEAN]
           /\ sc.metas \subseteq [index : BOOLEAN, column : BOOLEAN]
           /\ sc.fields \subseteq Fields /\ sc.shards \subseteq Shards \cup {NoShard}
           /\ sc.vectors \subseteq Vectors \cup {NoVector} /\ sc.searches \subseteq Keys
           /\ sc.placements \subseteq [Rids -> Shards]
<1>1. /\ sc.start \in {"empty", "ready", "restored"}
      /\ sc.rows \in Seq(Fields) /\ Len(sc.rows) <= MaxRid
      /\ sc.meta \in [index : BOOLEAN, column : BOOLEAN]
      /\ sc.metas \subseteq [index : BOOLEAN, column : BOOLEAN]
      /\ sc.fields \subseteq Fields /\ sc.shards \subseteq Shards \cup {NoShard}
    BY DerivedStateAssumption DEF DerivedStateAssumption
<1>2. /\ sc.vectors \subseteq Vectors \cup {NoVector} /\ sc.searches \subseteq Keys
      /\ sc.placements \subseteq [Rids -> Shards]
    BY VectorIndexesAssumption DEF VectorIndexesAssumption
<1>3. Len(sc.rows) \in Nat /\ \A i \in 1..Len(sc.rows) : sc.rows[i] \in Fields
    BY <1>1, LenProperties, ElementOfSeq
<1>4. MaxRid \in Nat  BY RidFacts
<1>5. \A i \in 1..Len(sc.rows) : i \in 1..MaxRid  BY <1>1, <1>3, <1>4
<1> QED  BY <1>1, <1>2, <1>3, <1>4, <1>5 DEF Rids

LEMMA BatchFacts ==
    ASSUME scenario \in Scenarios, NEW rows \in Batches
    PROVE  /\ Len(rows) \in 1..2 /\ DOMAIN rows = 1..Len(rows)
           /\ \A i \in 1..Len(rows) : rows[i] \in RowType
           /\ Len(rows) = 2 /\ rows[1].rid = rows[2].rid => "twice" \in scenario.may
<1>1. \A row \in Row : row \in RowType  BY ScenarioFacts DEF Row, RowType
<1>2. CASE \E row \in Row : rows = <<row>>
    <2>1. PICK row \in Row : rows = <<row>>  BY <1>2
    <2>2. Len(rows) = 1 /\ DOMAIN rows = 1..1 /\ rows[1] = row  BY <2>1
    <2>3. \A i \in 1..1 : i = 1  OBVIOUS
    <2> QED  BY <1>1, <2>2, <2>3
<1>3. CASE /\ rows \in Row \X Row
           /\ rows[1].rid # rows[2].rid \/ "twice" \in scenario.may
    <2>1. PICK a \in Row, b \in Row : rows = <<a, b>>  BY <1>3
    <2>2. Len(rows) = 2 /\ DOMAIN rows = 1..2 /\ rows[1] = a /\ rows[2] = b  BY <2>1
    <2>3. \A i \in 1..2 : i = 1 \/ i = 2  OBVIOUS
    <2> QED  BY <1>1, <1>3, <2>2, <2>3
<1> QED  BY <1>2, <1>3 DEF Batches

\* The write of a batch is the last of its writes.
LEMMA BatchWrites ==
    ASSUME scenario \in Scenarios, written \in [Rids -> Cells], NEW rows \in Batches, NEW size,
           PutObjects(rows, size)
    PROVE  /\ \E W : WritesBy(W, rows, Len(rows), written) /\ W[Len(rows)] = written'
           /\ written' \in [Rids -> Cells]
           /\ \A r \in Rids : IF Rows(rows, Len(rows), r) THEN written'[r] \in Fields
                              ELSE written'[r] = written[r]
<1> DEFINE n == Len(rows)
           LastWrite(r) == Max({i \in DOMAIN rows : rows[i].rid = r})
           fields == [r \in {rows[i].rid : i \in DOMAIN rows} |-> rows[LastWrite(r)].field]
<1>1. /\ n \in 1..2 /\ DOMAIN rows = 1..n /\ \A i \in 1..n : rows[i] \in RowType
    BY BatchFacts
<1>2. written' = [r \in Rids |-> IF r \in DOMAIN fields THEN fields[r] ELSE written[r]]
    BY DEF PutObjects, Write
<1>3. \A i \in 1..n : rows[i].rid \in Rids /\ rows[i].field \in Fields  BY <1>1 DEF RowType
<1>4. ASSUME NEW r \in Rids, NEW j \in 1..n, rows[j].rid = r
      PROVE  /\ LastWrite(r) \in 1..n /\ rows[LastWrite(r)].rid = r /\ j <= LastWrite(r)
             /\ written'[r] = rows[LastWrite(r)].field
    <2> DEFINE S == {i \in DOMAIN rows : rows[i].rid = r}
    <2>1. S \subseteq Nat /\ j \in S /\ \A x \in S : x <= 2  BY <1>1, <1>4
    <2>2. 2 \in Nat  OBVIOUS
    <2>3. Max(S) \in S /\ \A x \in S : x <= Max(S)
        <3> HIDE DEF S
        <3> QED  BY <2>1, <2>2, MaxOfNats
    <2>4. LastWrite(r) \in 1..n /\ rows[LastWrite(r)].rid = r /\ j <= LastWrite(r)  BY <1>1, <2>1, <2>3
    <2>5. r \in DOMAIN fields /\ fields[r] = rows[LastWrite(r)].field  BY <1>1, <1>4
    <2> HIDE DEF fields, LastWrite
    <2> QED  BY <1>2, <2>4, <2>5
<1>5. ASSUME NEW r \in Rids, \A j \in 1..n : rows[j].rid # r PROVE written'[r] = written[r]
    <2>1. r \notin DOMAIN fields  BY <1>1, <1>5
    <2> HIDE DEF fields
    <2> QED  BY <1>2, <2>1
<1>6. \A r \in Rids : IF Rows(rows, n, r) THEN written'[r] \in Fields ELSE written'[r] = written[r]
    <2> TAKE r \in Rids
    <2>1. CASE Rows(rows, n, r)
        <3>1. PICK j \in 1..n : rows[j].rid = r  BY <2>1 DEF Rows
        <3> HIDE DEF LastWrite, n
        <3>2. LastWrite(r) \in 1..n /\ written'[r] = rows[LastWrite(r)].field  BY <1>4, <3>1
        <3> QED  BY <1>3, <2>1, <3>2
    <2>2. CASE ~Rows(rows, n, r)
        <3> HIDE DEF n
        <3> QED  BY <1>5, <2>2 DEF Rows
    <2> QED  BY <2>1, <2>2
<1>7. written' \in [Rids -> Cells]
    <2>1. \A r \in Rids : written'[r] \in Cells  BY <1>6, CellFacts
    <2> HIDE DEF fields, LastWrite
    <2>2. written' = [r \in Rids |-> written'[r]]  BY <1>2
    <2> QED  BY <2>1, <2>2
<1> HIDE DEF LastWrite, fields
<1>8. CASE n = 1
    <2> DEFINE W == [i \in 0..1 |-> IF i = 0 THEN written ELSE written']
               r1 == rows[1].rid
    <2>1. r1 \in Rids /\ 1 \in 1..n  BY <1>3, <1>8
    <2>2. written'[r1] = rows[1].field
        <3>1. LastWrite(r1) \in 1..n /\ written'[r1] = rows[LastWrite(r1)].field  BY <1>4, <2>1
        <3>2. LastWrite(r1) = 1  BY <1>8, <3>1
        <3> QED  BY <3>1, <3>2
    <2>3. \A r \in Rids \ {r1} : written'[r] = written[r]
        <3>1. \A j \in 1..n : j = 1  BY <1>8
        <3> QED  BY <1>5, <3>1
    <2>4. written' = [written EXCEPT ![r1] = rows[1].field]
        <3>1. \A r \in Rids : written'[r] = [written EXCEPT ![r1] = rows[1].field][r]
            BY <2>1, <2>2, <2>3
        <3> QED  BY <1>7, <2>1, <3>1, CellFacts
    <2>5. W \in [0..1 -> [Rids -> Cells]] /\ W[0] = written /\ W[1] = written'  BY <1>7
    <2>6. \A i \in 1..1 : i = 1 /\ i - 1 = 0  OBVIOUS
    <2> HIDE DEF W, n
    <2>7. WritesBy(W, rows, n, written)  BY <1>8, <2>4, <2>5, <2>6 DEF WritesBy
    <2> QED  BY <1>6, <1>7, <1>8, <2>5, <2>7 DEF n
<1>9. CASE n = 2
    <2> DEFINE r1 == rows[1].rid
               r2 == rows[2].rid
               w1 == [written EXCEPT ![r1] = rows[1].field]
               W == [i \in 0..2 |-> IF i = 0 THEN written ELSE IF i = 1 THEN w1 ELSE written']
    <2>1. r1 \in Rids /\ r2 \in Rids /\ 1 \in 1..n /\ 2 \in 1..n  BY <1>3, <1>9
    <2>2. written'[r2] = rows[2].field
        <3>1. LastWrite(r2) \in 1..n /\ 2 <= LastWrite(r2) /\ written'[r2] = rows[LastWrite(r2)].field
            BY <1>4, <2>1
        <3>2. LastWrite(r2) = 2  BY <1>9, <3>1
        <3> QED  BY <3>1, <3>2
    <2>3. r1 # r2 => written'[r1] = rows[1].field
        <3> SUFFICES ASSUME r1 # r2 PROVE written'[r1] = rows[1].field  OBVIOUS
        <3>1. LastWrite(r1) \in 1..n /\ rows[LastWrite(r1)].rid = r1 /\ written'[r1] = rows[LastWrite(r1)].field
            BY <1>4, <2>1
        <3>2. LastWrite(r1) = 1 \/ LastWrite(r1) = 2  BY <1>9, <3>1
        <3>3. LastWrite(r1) = 1  BY <3>1, <3>2
        <3> QED  BY <3>1, <3>3
    <2>4. \A r \in Rids : r # r1 /\ r # r2 => written'[r] = written[r]
        <3>1. \A j \in 1..n : j = 1 \/ j = 2  BY <1>9
        <3> QED  BY <1>5, <3>1
    <2>5. w1 \in [Rids -> Cells] /\ \A r \in Rids : w1[r] = IF r = r1 THEN rows[1].field ELSE written[r]
        BY <1>3, <2>1, CellFacts
    <2> HIDE DEF w1
    <2>6. written' = [w1 EXCEPT ![r2] = rows[2].field]
        <3>1. \A r \in Rids : written'[r] = [w1 EXCEPT ![r2] = rows[2].field][r]
            BY <2>1, <2>2, <2>3, <2>4, <2>5
        <3> QED  BY <1>7, <2>5, <3>1
    <2>7. W \in [0..2 -> [Rids -> Cells]] /\ W[0] = written /\ W[1] = w1 /\ W[2] = written'
        BY <1>7, <2>5
    <2>8. \A i \in 1..2 : (i = 1 /\ i - 1 = 0) \/ (i = 2 /\ i - 1 = 1)  OBVIOUS
    <2> HIDE DEF W, n
    <2>9. WritesBy(W, rows, n, written)
        <3>1. \A i \in 1..2 : W[i] = [W[i - 1] EXCEPT ![rows[i].rid] = rows[i].field]
            <4> TAKE i \in 1..2
            <4>1. CASE i = 1 /\ i - 1 = 0  BY <2>7, <4>1 DEF w1
            <4>2. CASE i = 2 /\ i - 1 = 1  BY <2>6, <2>7, <4>2
            <4> QED  BY <2>8, <4>1, <4>2
        <3> QED  BY <1>9, <2>7, <3>1 DEF WritesBy
    <2> QED  BY <1>6, <1>7, <1>9, <2>7, <2>9 DEF n
<1> QED  BY <1>1, <1>8, <1>9

----------------------------------------------------------------------------
\* The start.

LEMMA NewCollectionFacts ==
    /\ NewCollection \in Shape /\ Scoped(NewCollection) /\ Once(NewCollection.dirty)
    /\ NewCollection.exists /\ ~NewCollection.dirtyBuild /\ NewCollection.live = 0
    /\ \A r \in Rids : NewCollection.base[r] = Gone
    /\ ~NewCollection.columned /\ ~NewCollection.indexed /\ NewCollection.dirty = <<>>
    /\ NewCollection.build = NoBuild /\ NewCollection.column = EmptyColumn
    /\ NewCollection.index = EmptyIndex /\ ~NewCollection.indexBuildPending
    /\ NewCollection.tokens = 0 /\ NewCollection.meta = [index |-> FALSE, column |-> FALSE]
<1>1. /\ EmptyIndex \in IndexType /\ NoBuild \in BuildType /\ EmptyColumn \in ColumnType
      /\ <<>> \in Seq(Rids) /\ Gone \in Cells
    BY EmptyIndexType, NoBuildType, EmptyColumnType, CellFacts, EmptySeq
<1>2. NewCollection \in Shape
    <2> DEFINE ei == EmptyIndex
               nb == NoBuild
               ec == EmptyColumn
    <2>1. ei \in IndexType /\ nb \in BuildType /\ ec \in ColumnType  BY <1>1
    <2>2. NewCollection =
            [exists |-> TRUE, rows |-> 0, base |-> [r \in Rids |-> Gone],
             meta |-> [index |-> FALSE, column |-> FALSE],
             indexed |-> FALSE, index |-> ei, build |-> nb, tokens |-> 0,
             columned |-> FALSE, column |-> ec,
             dirty |-> <<>>, dirtyBuild |-> FALSE, indexBuildPending |-> FALSE,
             live |-> 0, shard |-> [r \in Rids |-> NoShard],
             shardRids |-> [s \in Shards |-> {}], unsharded |-> 0]
        BY DEF NewCollection
    <2> HIDE DEF ei, nb, ec
    <2> QED  BY <1>1, <2>1, <2>2 DEF Shape
<1>3. /\ NewCollection.exists /\ ~NewCollection.dirtyBuild /\ NewCollection.live = 0
      /\ \A r \in Rids : NewCollection.base[r] = Gone
      /\ NewCollection.unsharded = 0 /\ NewCollection.dirty = <<>>
      /\ \A s \in Shards : NewCollection.shardRids[s] = {}
    BY DEF NewCollection
<1>4. Once(NewCollection.dirty)  BY <1>3 DEF Once
<1>5. Scoped(NewCollection)
    <2> HIDE DEF NewCollection
    <2>1. {r \in Rids : NewCollection.base[r] # Gone} = {}
          /\ {r \in Rids : NewCollection.base[r] # Gone /\ NewCollection.shard[r] = NoShard} = {}
        BY <1>3
    <2>2. \A s \in Shards :
             NewCollection.shardRids[s] = {r \in Rids : NewCollection.base[r] # Gone /\ NewCollection.shard[r] = s}
        BY <1>3
    <2> QED  BY <1>3, <2>1, <2>2, FS_EmptySet DEF Scoped
<1>6. /\ ~NewCollection.columned /\ ~NewCollection.indexed /\ NewCollection.build = NoBuild
      /\ NewCollection.column = EmptyColumn /\ NewCollection.index = EmptyIndex
      /\ ~NewCollection.indexBuildPending
    BY DEF NewCollection
<1>7. NewCollection.tokens = 0 /\ NewCollection.meta = [index |-> FALSE, column |-> FALSE]
    BY DEF NewCollection
<1> QED  BY <1>2, <1>3, <1>4, <1>5, <1>6, <1>7

LEMMA SetMetaShape ==
    ASSUME NEW c \in Shape, NEW meta \in [index : BOOLEAN, column : BOOLEAN]
    PROVE  LET d == [c EXCEPT !.meta = meta]
           IN /\ d \in Shape /\ SameRows(c, d) /\ d.meta = meta
              /\ d.indexed = c.indexed /\ d.index = c.index /\ d.build = c.build
              /\ d.tokens = c.tokens /\ d.columned = c.columned /\ d.column = c.column
              /\ d.dirty = c.dirty /\ d.dirtyBuild = c.dirtyBuild
              /\ d.indexBuildPending = c.indexBuildPending
BY DEF Shape, SameRows

LEMMA WithMetaFacts ==
    ASSUME NEW c \in Shape, NEW meta \in [index : BOOLEAN, column : BOOLEAN]
    PROVE  LET d == [c EXCEPT !.meta = meta]
               n == WithMeta(c, meta)
           IN /\ n \in Shape /\ d \in Shape /\ SameRows(c, n) /\ n.meta = meta
              /\ n.dirty = c.dirty /\ n.dirtyBuild = c.dirtyBuild
              /\ n.indexBuildPending = c.indexBuildPending
              /\ Indexed(d, n, FALSE) /\ Columned(d, n, FALSE)
<1> DEFINE d == [c EXCEPT !.meta = meta]
           m == MetaIndexes(d, FALSE)
           n == MetaColumns(m, FALSE)
<1>0. FALSE \in BOOLEAN /\ WithMeta(c, meta) = n  BY DEF WithMeta
<1>1. /\ d \in Shape /\ SameRows(c, d) /\ d.meta = meta
      /\ d.dirty = c.dirty /\ d.dirtyBuild = c.dirtyBuild
      /\ d.indexBuildPending = c.indexBuildPending
    BY SetMetaShape
<1> HIDE DEF d
<1>2. /\ m \in Shape /\ SameRows(d, m) /\ m.meta = d.meta
      /\ m.columned = d.columned /\ m.column = d.column
      /\ m.dirty = d.dirty /\ m.dirtyBuild = d.dirtyBuild
      /\ m.indexBuildPending = d.indexBuildPending
      /\ Indexed(d, m, FALSE)
    BY <1>0, <1>1, MetaIndexesFacts
<1> HIDE DEF m
<1>3. /\ n \in Shape /\ SameRows(m, n) /\ n.meta = m.meta
      /\ n.indexed = m.indexed /\ n.index = m.index /\ n.build = m.build
      /\ n.tokens = m.tokens /\ n.dirty = m.dirty /\ n.dirtyBuild = m.dirtyBuild
      /\ n.indexBuildPending = m.indexBuildPending
      /\ Columned(m, n, FALSE)
    BY <1>0, <1>2, MetaColumnsFacts
<1> HIDE DEF n
<1>4. Indexed(d, n, FALSE)  BY <1>2, <1>3 DEF Indexed
<1>5. Columned(d, n, FALSE)  BY <1>2, <1>3 DEF Columned, SameRows
<1>6. SameRows(c, n)  BY <1>1, <1>2, <1>3 DEF SameRows
<1>7. /\ n.meta = meta /\ n.dirty = c.dirty /\ n.dirtyBuild = c.dirtyBuild
      /\ n.indexBuildPending = c.indexBuildPending
    BY <1>1, <1>2, <1>3
<1> QED  BY <1>0, <1>1, <1>3, <1>4, <1>5, <1>6, <1>7 DEF d

LEMMA SameRowsScoped ==
    ASSUME NEW c, NEW n, Scoped(c), SameRows(c, n)
    PROVE  Scoped(n)
BY SameScopes DEF SameRows

\* The rows a collection starts with.
StartRows(rows) == [r \in Rids |-> IF r <= Len(rows) THEN rows[r] ELSE Gone]
StartPuts(rows) == [r \in 1..Len(rows) |-> [rid |-> r, field |-> rows[r], shard |-> NoShard]]
StartWrites(rows) ==
    [i \in 0..Len(rows) |-> [r \in Rids |-> IF r <= i THEN rows[r] ELSE Gone]]

LEMMA StartFacts ==
    ASSUME NEW rows \in Seq(Fields), Len(rows) \in 0..MaxRid,
           \A i \in 1..Len(rows) : rows[i] \in Fields /\ i \in Rids,
           NEW w, w = [r \in Rids |-> Gone]
    PROVE  /\ StartRows(rows) \in [Rids -> Cells]
           /\ Len(rows) \in Nat
           /\ \A i \in 1..Len(rows) : StartPuts(rows)[i] \in RowType
           /\ WritesBy(StartWrites(rows), StartPuts(rows), Len(rows), w)
           /\ StartWrites(rows)[Len(rows)] = StartRows(rows)
           /\ \A r \in Rids : Rows(StartPuts(rows), Len(rows), r) <=> StartRows(rows)[r] # Gone
<1> DEFINE n == Len(rows)
           W == StartWrites(rows)
           P == StartPuts(rows)
<1>1. n \in Nat /\ \A r \in Rids : r \in Nat \ {0} /\ (r <= n => r \in 1..n)
    BY RidFacts, LenProperties
<1>2. StartRows(rows) \in [Rids -> Cells] /\ \A r \in Rids : StartRows(rows)[r] # Gone <=> r <= n
    BY <1>1, CellFacts DEF StartRows
<1>3. \A i \in 1..n : P[i] \in RowType /\ P[i].rid = i /\ P[i].field = rows[i]
    BY DEF StartPuts, RowType
<1>4. W[n] = StartRows(rows)  BY <1>1 DEF StartWrites, StartRows
<1>5. W[0] = w
    <2>1. 0 \in 0..n /\ \A r \in Rids : ~(r <= 0)  BY <1>1
    <2> QED  BY <2>1 DEF StartWrites
<1>6. W \in [0..n -> [Rids -> Cells]]
    <2>1. \A i \in 0..n : [r \in Rids |-> IF r <= i THEN rows[r] ELSE Gone] \in [Rids -> Cells]
        <3> TAKE i \in 0..n
        <3>0. \A r \in Rids : r <= i => r \in 1..n  BY <1>1
        <3>1. \A r \in Rids : r <= i => rows[r] \in Cells  BY <3>0, CellFacts
        <3> QED  BY <3>1, CellFacts
    <2> QED  BY <2>1 DEF StartWrites
<1>7. \A i \in 1..n : W[i] = [W[i - 1] EXCEPT ![P[i].rid] = P[i].field]
    <2> TAKE i \in 1..n
    <2>1. i - 1 \in 0..n /\ i \in 0..n /\ i \in Rids  BY <1>1
    <2>2. /\ W[i] = [r \in Rids |-> IF r <= i THEN rows[r] ELSE Gone]
          /\ W[i - 1] = [r \in Rids |-> IF r <= i - 1 THEN rows[r] ELSE Gone]
        BY <2>1 DEF StartWrites
    <2>3. \A r \in Rids : r # i => (r <= i <=> r <= i - 1)  BY <1>1
    <2>4. i <= i  BY <1>1
    <2> HIDE DEF W, P
    <2>5. \A r \in Rids : W[i][r] = [W[i - 1] EXCEPT ![i] = rows[i]][r]
        BY <2>1, <2>2, <2>3, <2>4
    <2> QED  BY <1>3, <2>2, <2>5
<1>8. WritesBy(W, P, n, w)  BY <1>5, <1>6, <1>7 DEF WritesBy
<1>9. \A r \in Rids : Rows(P, n, r) <=> StartRows(rows)[r] # Gone
    <2> HIDE DEF P, n
    <2> QED  BY <1>1, <1>2, <1>3 DEF Rows
<1> QED  BY <1>1, <1>2, <1>3, <1>4, <1>8, <1>9

\* A batch of puts told to the indexes.
Filed(c, x, rows, keep, defer, n, w) ==
    /\ x \in Shape /\ Scoped(x) /\ Once(x.dirty) /\ x.exists = c.exists
    /\ x.dirtyBuild <=> c.dirtyBuild \/ (n # 0 /\ defer)
    /\ \A r \in Rids : x.base[r] = IF Rows(rows, n, r) THEN Kept(c, keep, w[r]) ELSE c.base[r]

LEMMA PutsFacts ==
    ASSUME NEW c \in Shape, Scoped(c), Once(c.dirty), NEW n \in Nat, NEW rows,
           NEW keep \in BOOLEAN, NEW defer \in BOOLEAN,
           \A i \in 1..n : rows[i] \in RowType,
           NEW w, NEW W, WritesBy(W, rows, n, w)
    PROVE  /\ PutTo(Put(c, rows, keep, n), c, rows, keep, n, W[n])
           /\ Filed(c, ApplyIndexDeltas(Put(c, rows, keep, n), defer), rows, keep, defer, n, W[n])
<1> DEFINE s == Put(c, rows, keep, n)
           x == ApplyIndexDeltas(s, defer)
<1>1. PICK f : s = f[n] /\ PutChain(f, c, rows, keep, n)  BY PutSteps
<1>2. PutTo(s, c, rows, keep, n, W[n])
    <2>1. n \in 0..n  OBVIOUS
    <2> HIDE DEF s
    <2> QED  BY <1>1, <2>1, PutChainFacts
<1> HIDE DEF s
<1>3. s \in Batch /\ SameDerived(c, s.c) /\ Len(s.deltas) = n  BY <1>2 DEF PutTo
<1>4. s.deltas # <<>> <=> n # 0
    <2>1. s.deltas \in Seq(Delta)  BY <1>3 DEF Batch
    <2> QED  BY <1>3, <2>1, EmptySeq, LenProperties
<1>5. /\ x \in Shape /\ Scoped(x) /\ SameRows(s.c, x) /\ (Once(s.c.dirty) => Once(x.dirty))
      /\ x.dirtyBuild <=> s.c.dirtyBuild \/ (s.deltas # <<>> /\ defer)
    BY <1>3, ApplyIndexDeltasFacts
<1>6. s.c.dirty = c.dirty /\ s.c.dirtyBuild = c.dirtyBuild /\ s.c.exists = c.exists
    BY <1>3 DEF SameDerived
<1>7. \A r \in Rids : s.c.base[r] = IF Rows(rows, n, r) THEN Kept(c, keep, W[n][r]) ELSE c.base[r]
    BY <1>2 DEF PutTo
<1>8. x.base = s.c.base /\ x.exists = s.c.exists  BY <1>5 DEF SameRows
<1> HIDE DEF x
<1>9. Once(x.dirty) /\ x.exists = c.exists /\ (x.dirtyBuild <=> c.dirtyBuild \/ (n # 0 /\ defer))
    BY <1>4, <1>5, <1>6, <1>8
<1>10. \A r \in Rids : x.base[r] = IF Rows(rows, n, r) THEN Kept(c, keep, W[n][r]) ELSE c.base[r]
    BY <1>7, <1>8
<1>11. Filed(c, x, rows, keep, defer, n, W[n])  BY <1>5, <1>9, <1>10 DEF Filed
<1> QED  BY <1>2, <1>11 DEF s, x

LEMMA KeptGone ==
    ASSUME NEW c, NEW keep, NEW v \in Fields
    PROVE  Kept(c, keep, v) # Gone /\ Kept(c, keep, v) \in Fields
BY BaseValueType, CellFacts DEF Kept

LEMMA FilledFacts ==
    ASSUME NEW c \in Shape, Scoped(c), Once(c.dirty), ~c.dirtyBuild, c.exists,
           \A r \in Rids : c.base[r] = Gone,
           NEW rows \in Seq(Fields), Len(rows) \in 0..MaxRid,
           \A i \in 1..Len(rows) : rows[i] \in Fields /\ i \in Rids
    PROVE  CollOk(Filled(c, rows), StartRows(rows)) /\ ~Filled(c, rows).dirtyBuild
<1> DEFINE n == Len(rows)
           w == [r \in Rids |-> Gone]
           W == StartWrites(rows)
           P == StartPuts(rows)
           x == ApplyIndexDeltas(Put(c, P, FALSE, n), FALSE)
<1>1. /\ StartRows(rows) \in [Rids -> Cells]
      /\ Len(rows) \in Nat
      /\ \A i \in 1..Len(rows) : P[i] \in RowType
      /\ WritesBy(W, P, Len(rows), w)
      /\ W[n] = StartRows(rows)
      /\ \A r \in Rids : Rows(P, Len(rows), r) <=> StartRows(rows)[r] # Gone
    BY StartFacts
<1>2. Filled(c, rows) = x  BY DEF Filled, StartPuts
<1>3. /\ n \in Nat /\ WritesBy(W, P, n, w) /\ (\A i \in 1..n : P[i] \in RowType)
      /\ \A r \in Rids : Rows(P, n, r) <=> StartRows(rows)[r] # Gone
    BY <1>1
<1> HIDE DEF w, W, P, n
<1>4. Filed(c, x, P, FALSE, FALSE, n, W[n])
    <2>1. FALSE \in BOOLEAN  OBVIOUS
    <2> QED  BY <1>3, <2>1, PutsFacts
<1> HIDE DEF x
<1>5. W[n] = StartRows(rows)  BY <1>1 DEF n
<1>6. \A r \in Rids : StartRows(rows)[r] # Gone => StartRows(rows)[r] \in Fields
    BY <1>1, CellFacts
<1>7. \A r \in Rids : x.base[r] = Gone <=> StartRows(rows)[r] = Gone
    <2>1. \A r \in Rids : x.base[r] = IF Rows(P, n, r) THEN Kept(c, FALSE, W[n][r]) ELSE c.base[r]
        BY <1>4 DEF Filed
    <2>2. \A r \in Rids : Rows(P, n, r) => x.base[r] # Gone /\ StartRows(rows)[r] # Gone
        <3> TAKE r \in Rids
        <3> HAVE Rows(P, n, r)
        <3>1. StartRows(rows)[r] # Gone /\ StartRows(rows)[r] \in Fields  BY <1>3, <1>6
        <3>2. x.base[r] = Kept(c, FALSE, StartRows(rows)[r])  BY <1>5, <2>1
        <3>3. Kept(c, FALSE, StartRows(rows)[r]) # Gone  BY <3>1, KeptGone
        <3> QED  BY <3>1, <3>2, <3>3
    <2>3. \A r \in Rids : ~Rows(P, n, r) => x.base[r] = Gone /\ StartRows(rows)[r] = Gone
        <3> TAKE r \in Rids
        <3> HAVE ~Rows(P, n, r)
        <3>1. x.base[r] = c.base[r]  BY <2>1
        <3>2. StartRows(rows)[r] = Gone  BY <1>3
        <3> QED  BY <3>1, <3>2
    <2> QED  BY <2>2, <2>3
<1> QED  BY <1>2, <1>4, <1>7 DEF CollOk, Present, Filed

LEMMA NoVectorsOk ==
    ASSUME NEW p \in [Rids -> Shards], NEW w
    PROVE  VectorsOk(NoVectors(p), w)
<1> DEFINE v == NoVectors(p)
<1>1. /\ v.stored = [r \in Rids |-> NoVector] /\ v.placement = p
      /\ v.entries = [k \in Keys |-> NoEntry] /\ v.ids = 0
    BY DEF NoVectors
<1>2. v \in VectorState
    <2> DEFINE none == [k \in Keys |-> NoEntry]
    <2>1. none \in [Keys -> VectorEntry]  BY NoEntryType
    <2>2. v = [stored |-> [r \in Rids |-> NoVector], placement |-> p, entries |-> none, ids |-> 0]
        BY DEF NoVectors
    <2> HIDE DEF none, v
    <2> QED  BY <2>1, <2>2 DEF VectorState, NoVector
<1>3. \A k \in Keys : EntryOk(v, k)
    <2> TAKE k \in Keys
    <2>1. v.entries[k] = NoEntry  BY <1>1
    <2>2. /\ NoEntry.status = "none" /\ NoEntry.visited = {}
          /\ \A r \in Rids : NoEntry.nodes[r] = NoVector
        BY DEF NoEntry
    <2> HIDE DEF v
    <2> QED  BY <2>1, <2>2 DEF EntryOk
<1>4. \A r \in Rids : v.stored[r] = NoVector  BY <1>1
<1> HIDE DEF v
<1> QED  BY <1>2, <1>3, <1>4 DEF VectorsOk, v

LEMMA RestoredFacts ==
    ASSUME NEW c \in Shape, c.exists, ~c.dirtyBuild, c.dirty = <<>>,
           c.shard = [r \in Rids |-> NoShard], c.shardRids = [s \in Shards |-> {}],
           NEW rows \in Seq(Fields), Len(rows) \in 0..MaxRid,
           \A i \in 1..Len(rows) : rows[i] \in Fields /\ i \in Rids
    PROVE  LET n == Restored(c, rows)
           IN /\ CollOk(n, StartRows(rows)) /\ n.base = StartRows(rows)
              /\ n.exists /\ ~n.dirtyBuild /\ n.dirty = <<>> /\ n.meta = c.meta
              /\ n.indexed = c.indexed /\ n.index = c.index /\ n.build = c.build
              /\ n.columned = c.columned /\ n.column = c.column /\ n.tokens = c.tokens
              /\ n.indexBuildPending
<1> DEFINE n == Restored(c, rows)
           base == [r \in Rids |-> IF r <= Len(rows) THEN rows[r] ELSE Gone]
           L == Len(rows)
<1>1. base = StartRows(rows) /\ base \in [Rids -> Cells] /\ L \in Nat
    <2> HIDE DEF base
    <2>1. base = StartRows(rows)  BY DEF base, StartRows
    <2>2. [r \in Rids |-> Gone] = [r \in Rids |-> Gone]  OBVIOUS
    <2> QED  BY <2>1, <2>2, StartFacts
<1>2. n = [c EXCEPT !.rows = L, !.live = L, !.unsharded = L, !.base = base, !.indexBuildPending = TRUE]
    BY DEF Restored
<1> HIDE DEF base, L
<1>30. n \in Shape
    <2> L \in Nat /\ L \in Int /\ base \in [Rids -> Cells]  BY <1>1
    <2> QED  BY ZenonT(20), <1>2 DEF Shape
<1>3. /\ n \in Shape /\ n.base = base /\ n.live = L /\ n.unsharded = L
      /\ n.shard = c.shard /\ n.shardRids = c.shardRids /\ n.exists = c.exists
      /\ n.dirty = c.dirty /\ n.dirtyBuild = c.dirtyBuild
    BY <1>30, <1>2 DEF Shape
<1>4. /\ n.meta = c.meta
      /\ n.indexed = c.indexed /\ n.index = c.index /\ n.build = c.build
      /\ n.columned = c.columned /\ n.column = c.column /\ n.tokens = c.tokens
      /\ n.indexBuildPending
    BY <1>2 DEF Shape
<1> HIDE DEF n
<1>5. {r \in Rids : base[r] # Gone} = 1..L
    <2>1. \A r \in Rids : base[r] # Gone <=> r <= L
        <3>1. \A r \in Rids : r <= L => r \in 1..L  BY <1>1, RidFacts
        <3> QED  BY <3>1, CellFacts DEF base, L
    <2>2. \A r \in 1..L : r \in Rids  BY DEF L
    <2>3. \A r \in Rids : r <= L <=> r \in 1..L  BY <1>1, RidFacts
    <2> QED  BY <2>1, <2>2, <2>3
<1>6. Cardinality(1..L) = L
    <2>1. 1 <= L => Cardinality(1..L) = L - 1 + 1  BY <1>1, FS_Interval
    <2>2. ~(1 <= L) => 1..L = {} /\ L = 0  BY <1>1
    <2> QED  BY <1>1, <2>1, <2>2, FS_Interval, FS_EmptySet
<1>7. Scoped(n)
    <2>1. {r \in Rids : n.base[r] # Gone} = 1..L  BY <1>3, <1>5
    <2>2. {r \in Rids : n.base[r] # Gone /\ n.shard[r] = NoShard} = 1..L  BY <1>3, <2>1
    <2>3. \A s \in Shards : s # NoShard  BY DerivedStateAssumption DEF DerivedStateAssumption
    <2>4. \A s \in Shards : n.shardRids[s] = {r \in Rids : n.base[r] # Gone /\ n.shard[r] = s}
        <3> TAKE s \in Shards
        <3>1. n.shardRids[s] = {} /\ \A r \in Rids : n.shard[r] # s  BY <1>3, <2>3
        <3> QED  BY <3>1
    <2> QED  BY <1>3, <1>6, <2>1, <2>2, <2>4 DEF Scoped
<1>8. Once(n.dirty)  BY <1>3 DEF Once
<1>9. CollOk(n, StartRows(rows))  BY <1>1, <1>3, <1>7, <1>8 DEF CollOk, Present
<1> QED  BY <1>1, <1>3, <1>4, <1>9 DEF n

\* In the beginning.
LEMMA StateInit == CollectionInit => StateInv
<1> SUFFICES ASSUME CollectionInit PROVE StateInv  OBVIOUS
<1> DEFINE rows == scenario.rows
<1>1. /\ scenario \in Scenarios /\ jobs = <<>> /\ written = StartRows(rows)
      /\ vecs \in {NoVectors(p) : p \in scenario.placements}
    BY DEF CollectionInit, Init, InitVectors, StartRows
<1>2. /\ scenario.start \in {"empty", "ready", "restored"}
      /\ rows \in Seq(Fields) /\ Len(rows) \in 0..MaxRid
      /\ \A i \in 1..Len(rows) : rows[i] \in Fields /\ i \in Rids
      /\ scenario.meta \in [index : BOOLEAN, column : BOOLEAN]
      /\ scenario.placements \subseteq [Rids -> Shards]
    BY <1>1, ScenarioFacts
<1>3. coll = CASE scenario.start = "empty" -> Filled(NewCollection, rows)
               [] scenario.start = "ready" -> Filled(WithMeta(NewCollection, scenario.meta), rows)
               [] scenario.start = "restored" ->
                      Restored([NewCollection EXCEPT !.meta = scenario.meta], rows)
    BY DEF CollectionInit, Init
<1>4. written \in [Rids -> Cells]
    <2>1. [r \in Rids |-> Gone] = [r \in Rids |-> Gone]  OBVIOUS
    <2> HIDE DEF rows
    <2> QED  BY <1>1, <1>2, <2>1, StartFacts
<1>5. CollOk(coll, written) /\ ~coll.dirtyBuild
    <2> DEFINE nc == NewCollection
    <2>0. /\ nc \in Shape /\ Scoped(nc) /\ Once(nc.dirty) /\ nc.exists /\ ~nc.dirtyBuild
          /\ \A r \in Rids : nc.base[r] = Gone
          /\ nc.dirty = <<>>
        BY NewCollectionFacts
    <2>1. nc.shard = [r \in Rids |-> NoShard] /\ nc.shardRids = [s \in Shards |-> {}]
        BY DEF NewCollection
    <2> HIDE DEF nc, rows
    <2>2. CASE scenario.start = "empty"
        <3>1. coll = Filled(nc, rows)  BY <1>3, <2>2 DEF nc
        <3> QED  BY <1>1, <1>2, <2>0, <3>1, FilledFacts
    <2>3. CASE scenario.start = "ready"
        <3> DEFINE c == WithMeta(nc, scenario.meta)
        <3>1. coll = Filled(c, rows)  BY <1>3, <2>3 DEF nc
        <3>2. c \in Shape /\ SameRows(nc, c) /\ c.dirty = nc.dirty /\ c.dirtyBuild = nc.dirtyBuild
            BY <1>2, <2>0, WithMetaFacts
        <3> HIDE DEF c
        <3>3. Scoped(c) /\ Once(c.dirty) /\ ~c.dirtyBuild /\ c.exists /\ \A r \in Rids : c.base[r] = Gone
            BY <2>0, <3>2, SameRowsScoped DEF SameRows
        <3> QED  BY <1>1, <1>2, <3>1, <3>2, <3>3, FilledFacts
    <2>4. CASE scenario.start = "restored"
        <3> DEFINE c == [nc EXCEPT !.meta = scenario.meta]
        <3>1. coll = Restored(c, rows)  BY <1>3, <2>4 DEF nc
        <3>2. c \in Shape /\ SameRows(nc, c) /\ c.dirty = nc.dirty /\ c.dirtyBuild = nc.dirtyBuild
            BY <1>2, <2>0, SetMetaShape
        <3> HIDE DEF c
        <3>3. /\ c.exists /\ ~c.dirtyBuild /\ c.dirty = <<>>
              /\ c.shard = [r \in Rids |-> NoShard] /\ c.shardRids = [s \in Shards |-> {}]
            BY <2>0, <2>1, <3>2 DEF SameRows
        <3> QED  BY <1>1, <1>2, <3>1, <3>2, <3>3, RestoredFacts
    <2> QED  BY <1>2, <2>2, <2>3, <2>4
<1>6. JobsTyped(jobs, coll)
    <2>1. jobs \in Seq(AnyJob) /\ Len(jobs) = 0 /\ 1..0 = {}  BY <1>1, EmptySeq
    <2> QED  BY <1>5, <2>1 DEF JobsTyped, CatchupJobs
<1>7. VectorsOk(vecs, written)  BY <1>1, <1>2, NoVectorsOk
<1> QED  BY <1>1, <1>4, <1>5, <1>6, <1>7 DEF StateInv

----------------------------------------------------------------------------
\* A batch of puts.

\* The vectors of a batch, for rows that are there when it is done.
LEMMA PutVectorsOk ==
    ASSUME NEW w, VectorsOk(vecs, w), NEW rows, Len(rows) \in Nat, NEW xs,
           \A i \in 1..Len(rows) : rows[i].rid \in Rids /\ xs[i] \in Nat /\ w[rows[i].rid] # Gone,
           PutVectors(rows, xs)
    PROVE  VectorsOk(vecs', w)
<1> DEFINE n == Len(rows)
           S == {v \in VectorState : VectorsOk(v, w)}
           Up(v, i) == ApplyVectorUpdate(v, rows[i].rid, xs[i])
           Is(g) == g = [i \in 0..n |-> IF i = 0 THEN vecs ELSE Up(g[i - 1], i)]
           F == [p \in (1..n) \X S |-> Up(p[2], p[1])]
<1>0. n \in Nat  OBVIOUS
<1>1. vecs \in S  BY DEF VectorsOk
<1>2. \A i \in 1..n, x \in S : Up(x, i) \in S
    <2> TAKE i \in 1..n, x \in S
    <2>1. VectorsOk(Up(x, i), w)  BY ApplyVectorUpdateOk
    <2> HIDE DEF Up
    <2> QED  BY <2>1 DEF VectorsOk
<1>3. \A i \in 1..n, x \in S : F[<<i, x>>] = Up(x, i)
    <2> HIDE DEF Up, S
    <2> QED  OBVIOUS
<1>4. PICK g : Steps(g, F, vecs, n, S)
    <2>1. Closed(F, n, S)
        <3> HIDE DEF F, Up, S, n
        <3> QED  BY <1>2, <1>3 DEF Closed
    <2> HIDE DEF F, S, n
    <2> QED  BY <1>0, <1>1, <2>1, StepsExist
<1>5. g \in [0..n -> S] /\ g[0] = vecs /\ \A i \in 1..n : g[i] = F[<<i, g[i - 1]>>]
    BY <1>4 DEF Steps
<1> HIDE DEF S
<1>6. \A i \in 1..n : i - 1 \in 0..n /\ i \in 0..n /\ g[i - 1] \in S /\ g[i] \in S /\ g[i] = Up(g[i - 1], i)
    <2> TAKE i \in 1..n
    <2>1. i - 1 \in 0..n /\ i \in 0..n  BY <1>0
    <2> HIDE DEF F, Up, n
    <2> QED  BY <1>3, <1>5, <2>1
<1>7. Is(g)
    <2>1. ASSUME NEW i \in 0..n
          PROVE  g[i] = IF i = 0 THEN vecs ELSE Up(g[i - 1], i)
        <3>1. i = 0 \/ i \in 1..n  BY <1>0
        <3> HIDE DEF Up, F, n
        <3> QED  BY <1>5, <1>6, <3>1
    <2> HIDE DEF Up, F, n
    <2> QED  BY <1>5, <2>1
<1> DEFINE t == CHOOSE g1 : Is(g1)
<1>8. vecs' = t[n]  BY DEF PutVectors
<1>9. PICK h : h = t  OBVIOUS
<1>10. \A i \in 0..n : h[i] = g[i]
    <2>0. Is(h)  BY <1>7, <1>9
    <2>1. h[0] = vecs /\ \A i \in 1..n : h[i] = Up(h[i - 1], i)
        <3>1. 0 \in 0..n /\ \A i \in 1..n : i \in 0..n /\ i # 0  BY <1>0
        <3> HIDE DEF t, Up, n, F
        <3> QED  BY <2>0, <3>1
    <2> HIDE DEF t, Up, n, F, Is
    <2>2. \A i \in 1..n : h[i - 1] = g[i - 1] => h[i] = g[i]  BY <1>6, <2>1
    <2>3. h[0] = g[0]  BY <1>5, <2>1
    <2>4. n \in Nat /\ StepAlike(h, g, n)  BY <1>0, <2>2, <2>3 DEF StepAlike
    <2>5. SameUpTo(h, g, n)  BY <2>4, SameSteps
    <2> QED  BY <2>5 DEF SameUpTo
<1>11. n \in 0..n  BY <1>0
<1> HIDE DEF t, n, F, Up
<1>12. vecs' \in S  BY <1>5, <1>8, <1>9, <1>10, <1>11
<1> QED  BY <1>12 DEF S

LEMMA CatchupFacts ==
    ASSUME JobsTyped(jobs, coll), coll.dirtyBuild \in BOOLEAN, NEW c, c.dirtyBuild \in BOOLEAN,
           coll.dirtyBuild => c.dirtyBuild
    PROVE  JobsTyped(jobs \o Catchup(c), c)
<1>1. jobs \in Seq(AnyJob) /\ CatchupJobs(jobs, coll.dirtyBuild)  BY DEF JobsTyped
<1>2. CASE c.dirtyBuild /\ ~coll.dirtyBuild
    <2> DEFINE job == Job("dirty", 0)
               more == <<job>>
    <2>1. job \in AnyJob /\ job.kind = "dirty"
        BY JobTypes, JobKinds DEF AnyJob, OwnKinds
    <2>2. Catchup(c) = more  BY <1>2 DEF Catchup
    <2> HIDE DEF job
    <2>3. more \in Seq(AnyJob) /\ Len(more) = 1 /\ more[1] = job  BY <2>1
    <2> HIDE DEF more
    <2>4. CatchupJobs(jobs \o more, TRUE)  BY <1>1, <1>2, <2>1, <2>3, MoreJobs
    <2>5. jobs \o more \in Seq(AnyJob)  BY <1>1, <2>3, ConcatProperties
    <2>6. c.dirtyBuild = TRUE  BY <1>2
    <2> QED  BY <2>2, <2>4, <2>5, <2>6 DEF JobsTyped
<1>3. CASE ~(c.dirtyBuild /\ ~coll.dirtyBuild)
    <2>1. Catchup(c) = <<>>  BY <1>3 DEF Catchup
    <2>2. jobs \o <<>> = jobs  BY <1>1, ConcatEmptySeq
    <2>3. c.dirtyBuild = coll.dirtyBuild  BY <1>3
    <2> QED  BY <1>1, <2>1, <2>2, <2>3 DEF JobsTyped
<1> QED  BY <1>2, <1>3

\* What a batch of puts does, with the batch deferred or not.
PutBy(rows, keep, defer, W) ==
    /\ WritesBy(W, rows, Len(rows), written) /\ W[Len(rows)] = written'
    /\ coll' = ApplyIndexDeltas(Put(coll, rows, keep, Len(rows)), defer)
    /\ PutTo(Put(coll, rows, keep, Len(rows)), coll, rows, keep, Len(rows), written')
    /\ Filed(coll, coll', rows, keep, defer, Len(rows), written')

LEMMA PutObjectsFacts ==
    ASSUME StateInv, NEW rows \in Batches, NEW size, PutObjects(rows, size)
    PROVE  /\ \E keep, defer \in BOOLEAN : \E W :
                 /\ PutBy(rows, keep, defer, W)
                 /\ keep <=> size # "small" /\ HasIndexWork
                 /\ defer <=> size = "large" /\ HasIndexWork
           /\ jobs' = jobs \o Catchup(coll') /\ scenario' = scenario /\ coll.exists
<1> DEFINE n == Len(rows)
           keep == size # "small" /\ HasIndexWork
           defer == size = "large" /\ HasIndexWork
<1>1. /\ scenario \in Scenarios /\ written \in [Rids -> Cells]
      /\ coll \in Shape /\ Scoped(coll) /\ Once(coll.dirty)
    BY DEF StateInv, CollOk
<1>2. /\ coll' = ApplyIndexDeltas(Put(coll, rows, keep, n), defer)
      /\ scenario' = scenario /\ coll.exists
    BY DEF PutObjects, Write, Writable
<1>3. jobs' = jobs \o Catchup(coll')  BY DEF PutObjects, Write
<1>4. keep \in BOOLEAN /\ defer \in BOOLEAN  OBVIOUS
<1>5. n \in Nat /\ \A i \in 1..n : rows[i] \in RowType  BY <1>1, BatchFacts
<1>6. PICK W : WritesBy(W, rows, n, written) /\ W[n] = written'  BY <1>1, BatchWrites
<1> HIDE DEF keep, defer
<1>7. /\ PutTo(Put(coll, rows, keep, n), coll, rows, keep, n, W[n])
      /\ Filed(coll, ApplyIndexDeltas(Put(coll, rows, keep, n), defer), rows, keep, defer, n, W[n])
    <2> HIDE DEF n
    <2> QED  BY <1>1, <1>4, <1>5, <1>6, PutsFacts
<1>8. PutBy(rows, keep, defer, W)  BY <1>2, <1>6, <1>7 DEF PutBy
<1>9. /\ keep <=> size # "small" /\ HasIndexWork
      /\ defer <=> size = "large" /\ HasIndexWork
    BY DEF keep, defer
<1> QED  BY <1>2, <1>3, <1>4, <1>8, <1>9

LEMMA StatePut ==
    ASSUME StateInv, NEW rows \in Batches, NEW size, PutRows(rows, size)
    PROVE  StateInv'
<1> DEFINE n == Len(rows)
<1>0. /\ scenario \in Scenarios /\ written \in [Rids -> Cells] /\ CollOk(coll, written)
      /\ JobsTyped(jobs, coll) /\ VectorsOk(vecs, written)
    BY DEF StateInv
<1>1. PutObjects(rows, size) /\ \E xs \in [DOMAIN rows -> scenario.vectors] : PutVectors(rows, xs)
    BY DEF PutRows
<1>b. PICK keep \in BOOLEAN, defer \in BOOLEAN : \E W : PutBy(rows, keep, defer, W)
    BY <1>1, PutObjectsFacts
<1>2. PICK W : PutBy(rows, keep, defer, W)
    BY <1>b
<1>3. jobs' = jobs \o Catchup(coll') /\ scenario' = scenario /\ coll.exists
    BY <1>1, PutObjectsFacts
<1>4. Filed(coll, coll', rows, keep, defer, n, written')  BY <1>2 DEF PutBy
<1>5. /\ n \in 1..2 /\ DOMAIN rows = 1..n /\ \A i \in 1..n : rows[i] \in RowType
    BY <1>0, BatchFacts
<1>6. /\ written' \in [Rids -> Cells]
      /\ \A r \in Rids : IF Rows(rows, n, r) THEN written'[r] \in Fields
                         ELSE written'[r] = written[r]
    BY <1>0, <1>1, BatchWrites
<1>7. /\ coll' \in Shape /\ Scoped(coll') /\ Once(coll'.dirty) /\ coll'.exists = coll.exists
      /\ coll'.dirtyBuild <=> coll.dirtyBuild \/ (n # 0 /\ defer)
      /\ \A r \in Rids : coll'.base[r] = IF Rows(rows, n, r) THEN Kept(coll, keep, written'[r]) ELSE coll.base[r]
    BY <1>4 DEF Filed
<1> HIDE DEF n
<1>8. Present(coll', written')
    <2>1. ASSUME NEW r \in Rids PROVE coll'.base[r] = Gone <=> written'[r] = Gone
        <3>1. CASE Rows(rows, n, r)
            <4>1. written'[r] \in Fields /\ coll'.base[r] = Kept(coll, keep, written'[r])
                BY <1>6, <1>7, <3>1
            <4> QED  BY <4>1, KeptGone, CellFacts
        <3>2. CASE ~Rows(rows, n, r)
            <4>1. written'[r] = written[r] /\ coll'.base[r] = coll.base[r]  BY <1>6, <1>7, <3>2
            <4> QED  BY <1>0, <4>1 DEF CollOk, Present
        <3> QED  BY <3>1, <3>2
    <2> QED  BY <2>1 DEF Present
<1>9. CollOk(coll', written')  BY <1>3, <1>7, <1>8 DEF CollOk
<1>10. JobsTyped(jobs', coll')
    <2>1. coll.dirtyBuild \in BOOLEAN /\ coll'.dirtyBuild \in BOOLEAN  BY <1>0, <1>7 DEF CollOk, Shape
    <2>2. coll.dirtyBuild => coll'.dirtyBuild  BY <1>7
    <2>3. JobsTyped(jobs \o Catchup(coll'), coll')  BY <1>0, <2>1, <2>2, CatchupFacts
    <2> QED  BY <1>3, <2>3
<1>11. VectorsOk(vecs', written')
    <2>1. PICK xs \in [1..n -> scenario.vectors] : PutVectors(rows, xs)  BY <1>1, <1>5
    <2>2. \A x \in scenario.vectors : x \in Nat
        <3>1. scenario.vectors \subseteq Vectors \cup {NoVector}  BY <1>0, ScenarioFacts
        <3>2. Vectors \subseteq Nat  BY VectorIndexesAssumption DEF VectorIndexesAssumption
        <3>3. NoVector \in Nat  BY DEF NoVector
        <3> HIDE DEF n
        <3> QED  BY <3>1, <3>2, <3>3
    <2>3. \A i \in 1..n : rows[i].rid \in Rids /\ xs[i] \in Nat  BY <1>5, <2>1, <2>2 DEF RowType
    <2>4. \A i \in 1..n : written'[rows[i].rid] # Gone
        <3> TAKE i \in 1..n
        <3>1. Rows(rows, n, rows[i].rid)  BY DEF Rows
        <3> QED  BY <1>6, <2>3, <3>1, CellFacts
    <2>5. VectorsOk(vecs, written')
        <3>1. \A r \in Rids : written[r] # Gone => written'[r] # Gone  BY <1>6, CellFacts
        <3> QED  BY <1>0, <3>1 DEF VectorsOk
    <2>6. n \in Nat /\ n = Len(rows)  BY <1>5 DEF n
    <2> QED  BY <2>1, <2>3, <2>4, <2>5, <2>6, PutVectorsOk
<1> QED  BY <1>0, <1>3, <1>6, <1>9, <1>10, <1>11 DEF StateInv

----------------------------------------------------------------------------
\* A delete.

Single(c) == [c |-> c, deltas |-> <<>>]

LEMMA DeleteObjectsFacts ==
    ASSUME written \in [Rids -> Cells], NEW r \in Rids, NEW size, DeleteObjects(<<r>>, size)
    PROVE  /\ \E defer \in BOOLEAN :
                 /\ coll' = ApplyIndexDeltas(DeleteObject(Single(coll), r), defer)
                 /\ defer <=> size = "large" /\ HasIndexWork
           /\ coll.base[r] # Gone /\ written' = [written EXCEPT ![r] = Gone]
           /\ jobs' = jobs \o Catchup(coll') /\ scenario' = scenario /\ coll.exists
<1> DEFINE b == Single(coll)
           rids == <<r>>
           Is(g) == g = [i \in 0..Len(rids) |-> IF i = 0 THEN [c |-> coll, deltas |-> <<>>]
                                                ELSE DeleteObject(g[i - 1], rids[i])]
           h == [i \in 0..1 |-> IF i = 0 THEN b ELSE DeleteObject(b, r)]
           t == CHOOSE g : Is(g)
           done == t[Len(rids)]
           defer == size = "large" /\ HasIndexWork
<1>1. /\ done.deltas # <<>> /\ coll.exists
      /\ coll' = ApplyIndexDeltas(done, defer)
      /\ jobs' = jobs \o Catchup(coll') /\ scenario' = scenario
    BY DEF DeleteObjects, Write, Writable
<1>2. Len(rids) = 1 /\ rids[1] = r /\ Range(rids) = {r}
    <2>1. Len(rids) = 1 /\ rids[1] = r /\ DOMAIN rids = {1}  OBVIOUS
    <2> HIDE DEF rids
    <2> QED  BY <2>1 DEF Range
<1>3. written' = [q \in Rids |-> IF q = r THEN Gone ELSE written[q]]
    <2> DEFINE fields == [q \in Range(rids) |-> Gone]
    <2>1. written' = [q \in Rids |-> IF q \in DOMAIN fields THEN fields[q] ELSE written[q]]
        BY DEF DeleteObjects, Write
    <2>2. \A q : (q \in DOMAIN fields <=> q = r) /\ (q = r => fields[q] = Gone)
        <3> HIDE DEF rids
        <3> QED  BY <1>2
    <2> HIDE DEF fields
    <2> QED  BY <2>1, <2>2
<1>4. written' = [written EXCEPT ![r] = Gone]  BY <1>3
<1>5. \A i \in 0..1 : i = 0 \/ i = 1  OBVIOUS
<1>6. Is(h)
    <2>1. h[0] = b /\ h[1] = DeleteObject(b, r)  OBVIOUS
    <2>2. \A i \in 0..1 : i # 0 => i = 1 /\ i - 1 = 0  OBVIOUS
    <2>3. \A i \in 0..1 : i # 0 => h[i] = DeleteObject(h[i - 1], rids[i])
        <3> HIDE DEF h, rids, b
        <3> QED  BY <1>2, <2>1, <2>2
    <2>4. h = [i \in 0..1 |-> IF i = 0 THEN b ELSE DeleteObject(h[i - 1], rids[i])]
        <3>1. \A i \in 0..1 : h[i] = IF i = 0 THEN b ELSE DeleteObject(h[i - 1], rids[i])
            <4> HIDE DEF h, rids, b
            <4> QED  BY <2>1, <2>3
        <3>2. h = [i \in 0..1 |-> h[i]]  OBVIOUS
        <3> HIDE DEF h, rids, b
        <3> QED  BY <3>1, <3>2
    <2>5. 0..Len(rids) = 0..1  BY <1>2
    <2> HIDE DEF h, rids
    <2> QED  BY <2>4, <2>5 DEF b, Single
<1>7. Is(t)
    <2> HIDE DEF Is
    <2> QED  BY <1>6
<1>8. t[0] = b /\ t[1] = DeleteObject(t[0], r)
    <2>1. 0 \in 0..Len(rids) /\ 1 \in 0..Len(rids) /\ 1 - 1 = 0 /\ 1 # 0  BY <1>2
    <2> HIDE DEF t, rids
    <2> QED  BY <1>2, <1>7, <2>1 DEF Single
<1>9. done = DeleteObject(b, r)
    <2> HIDE DEF t, b, rids
    <2> QED  BY <1>2, <1>8
<1>10. coll.base[r] # Gone
    <2>1. b.c = coll /\ b.deltas = <<>>  BY DEF Single
    <2> HIDE DEF b, done
    <2> QED  BY <1>1, <1>9, <2>1 DEF DeleteObject
<1> HIDE DEF done, Is, t
<1>11. coll' = ApplyIndexDeltas(DeleteObject(Single(coll), r), defer)  BY <1>1, <1>9
<1>12. defer \in BOOLEAN  OBVIOUS
<1> QED  BY <1>1, <1>4, <1>10, <1>11, <1>12

LEMMA DeleteVectorsFacts ==
    ASSUME NEW r, DeleteVectors(<<r>>)
    PROVE  vecs' = RemoveVector(vecs, r)
<1> DEFINE rids == <<r>>
           Is(g) == g = [i \in 0..Len(rids) |-> IF i = 0 THEN vecs ELSE RemoveVector(g[i - 1], rids[i])]
           h == [i \in 0..1 |-> IF i = 0 THEN vecs ELSE RemoveVector(vecs, r)]
           t == CHOOSE g : Is(g)
<1>1. vecs' = t[Len(rids)]  BY DEF DeleteVectors
<1>2. Len(rids) = 1 /\ rids[1] = r  OBVIOUS
<1>3. Is(h)
    <2>1. h[0] = vecs /\ h[1] = RemoveVector(vecs, r)  OBVIOUS
    <2>2. \A i \in 0..1 : i # 0 => i = 1 /\ i - 1 = 0  OBVIOUS
    <2>3. \A i \in 0..1 : h[i] = IF i = 0 THEN vecs ELSE RemoveVector(h[i - 1], rids[i])
        <3> HIDE DEF h, rids
        <3> QED  BY <1>2, <2>1, <2>2
    <2>4. h = [i \in 0..1 |-> h[i]] /\ 0..Len(rids) = 0..1  BY <1>2
    <2> HIDE DEF h, rids
    <2> QED  BY <2>3, <2>4
<1>4. Is(t)
    <2> HIDE DEF Is
    <2> QED  BY <1>3
<1>5. t[0] = vecs /\ t[1] = RemoveVector(t[0], r)
    <2>1. 0 \in 0..Len(rids) /\ 1 \in 0..Len(rids) /\ 1 - 1 = 0 /\ 1 # 0  BY <1>2
    <2> HIDE DEF t, rids
    <2> QED  BY <1>2, <1>4, <2>1
<1> HIDE DEF t, rids
<1> QED  BY <1>1, <1>2, <1>5

LEMMA StateDelete ==
    ASSUME StateInv, NEW r \in Rids, NEW size, DeleteRows(<<r>>, size)
    PROVE  StateInv'
<1>0. /\ scenario \in Scenarios /\ written \in [Rids -> Cells] /\ CollOk(coll, written)
      /\ JobsTyped(jobs, coll) /\ VectorsOk(vecs, written)
    BY DEF StateInv
<1>1. DeleteObjects(<<r>>, size) /\ DeleteVectors(<<r>>)  BY DEF DeleteRows
<1>2. /\ coll.base[r] # Gone /\ written' = [written EXCEPT ![r] = Gone]
      /\ jobs' = jobs \o Catchup(coll') /\ scenario' = scenario /\ coll.exists
    BY <1>0, <1>1, DeleteObjectsFacts
<1>3. PICK defer \in BOOLEAN : coll' = ApplyIndexDeltas(DeleteObject(Single(coll), r), defer)
    BY <1>0, <1>1, DeleteObjectsFacts
<1> DEFINE s == Single(coll)
           n == DeleteObject(s, r)
<1>4. coll \in Shape /\ Scoped(coll) /\ Once(coll.dirty)  BY <1>0 DEF CollOk
<1>5. s \in Batch /\ s.c = coll  BY <1>4, EmptySeq DEF Batch, Single
<1> HIDE DEF s
<1>6. n \in Batch /\ SameDerived(s.c, n.c) /\ n.c.base = [s.c.base EXCEPT ![r] = Gone]
    BY <1>2, <1>5, DeleteObjectFacts
<1> HIDE DEF n
<1>7. coll' = ApplyIndexDeltas(n, defer)  BY <1>3 DEF n, s
<1>8. /\ coll' \in Shape /\ Scoped(coll') /\ SameRows(n.c, coll')
      /\ Once(n.c.dirty) => Once(coll'.dirty)
      /\ coll'.dirtyBuild <=> n.c.dirtyBuild \/ (n.deltas # <<>> /\ defer)
    BY <1>6, <1>7, ApplyIndexDeltasFacts
<1>9. /\ coll'.base = [coll.base EXCEPT ![r] = Gone] /\ coll'.exists = coll.exists
      /\ Once(coll'.dirty) /\ (coll.dirtyBuild => coll'.dirtyBuild)
    BY <1>4, <1>5, <1>6, <1>8 DEF SameRows, SameDerived
<1>10. Present(coll', written')
    <2>1. coll.base \in [Rids -> Cells] /\ Present(coll, written)  BY <1>0, <1>4 DEF CollOk, Shape
    <2>2. \A q \in Rids : /\ coll'.base[q] = IF q = r THEN Gone ELSE coll.base[q]
                          /\ written'[q] = IF q = r THEN Gone ELSE written[q]
        BY <1>0, <1>2, <1>9, <2>1
    <2> QED  BY <2>1, <2>2 DEF Present
<1>11. CollOk(coll', written')  BY <1>2, <1>8, <1>9, <1>10 DEF CollOk
<1>12. JobsTyped(jobs', coll')
    <2>1. coll.dirtyBuild \in BOOLEAN /\ coll'.dirtyBuild \in BOOLEAN  BY <1>4, <1>8 DEF Shape
    <2>2. JobsTyped(jobs \o Catchup(coll'), coll')  BY <1>0, <1>9, <2>1, CatchupFacts
    <2> QED  BY <1>2, <2>2
<1>13. VectorsOk(vecs', written')
    <2> DEFINE v == RemoveVector(vecs, r)
    <2>1. vecs' = v  BY <1>1, DeleteVectorsFacts
    <2>2. VectorsOk(v, written) /\ v.stored = [vecs.stored EXCEPT ![r] = NoVector]
        BY <1>0, RemoveVectorOk
    <2> HIDE DEF v
    <2>3. vecs.stored \in [Rids -> Nat]  BY <1>0 DEF VectorsOk, VectorState
    <2>4. \A q \in Rids : v.stored[q] # NoVector => written'[q] # Gone
        <3> TAKE q \in Rids
        <3> HAVE v.stored[q] # NoVector
        <3>1. q # r /\ written[q] # Gone  BY <2>2, <2>3 DEF VectorsOk
        <3> QED  BY <1>0, <1>2, <3>1
    <2>5. VectorsOk(v, written')  BY <2>2, <2>4 DEF VectorsOk
    <2> QED  BY <2>1, <2>5
<1>14. written' \in [Rids -> Cells]  BY <1>0, <1>2, CellFacts
<1> QED  BY <1>0, <1>2, <1>11, <1>12, <1>13, <1>14 DEF StateInv

----------------------------------------------------------------------------
\* Changes of the metadata, and what starts builds.

IndexBuild(c, job) ==
    /\ job = Job("index", c.build.token)
    /\ c.build.status = "building" /\ c.build.token # coll.build.token
ColumnBuild(c, job) ==
    /\ job = Job("column", c.column.id)
    /\ Building(c) /\ (~Building(coll) \/ c.column.id # coll.column.id)

LEMMA BuildsFacts ==
    ASSUME NEW c \in Shape
    PROVE  /\ Builds(c) \in Seq(AnyJob)
           /\ \A i \in 1..Len(Builds(c)) : IndexBuild(c, Builds(c)[i]) \/ ColumnBuild(c, Builds(c)[i])
           /\ \A i, j \in 1..Len(Builds(c)) :
                 Builds(c)[i].kind = "column" /\ Builds(c)[j].kind = "column" => i = j
<1> DEFINE ij == Job("index", c.build.token)
           cj == Job("column", c.column.id)
           A == IF c.build.status = "building" /\ c.build.token # coll.build.token
                THEN <<ij>> ELSE <<>>
           B == IF Building(c) /\ (~Building(coll) \/ c.column.id # coll.column.id)
                THEN <<cj>> ELSE <<>>
<1>1. ij \in AnyJob /\ cj \in AnyJob /\ ij.kind = "index" /\ cj.kind = "column"
    <2>1. c.build.token \in Nat /\ c.column.id \in Nat  BY DEF Shape, BuildType, ColumnType
    <2> QED  BY <2>1, JobTypes, JobKinds DEF AnyJob, OwnKinds
<1>2. Builds(c) = A \o B  BY DEF Builds
<1> HIDE DEF ij, cj
<1>3. /\ A \in Seq(AnyJob) /\ Len(A) \in 0..1
      /\ \A i \in 1..Len(A) : A[i] = ij /\ c.build.status = "building" /\ c.build.token # coll.build.token
    <2>1. CASE c.build.status = "building" /\ c.build.token # coll.build.token
        <3>1. A = <<ij>>  BY <2>1
        <3> QED  BY <1>1, <2>1, <3>1
    <2>2. CASE ~(c.build.status = "building" /\ c.build.token # coll.build.token)
        <3>1. A = <<>>  BY <2>2
        <3> QED  BY <3>1
    <2> QED  BY <2>1, <2>2
<1>4. /\ B \in Seq(AnyJob) /\ Len(B) \in 0..1
      /\ \A i \in 1..Len(B) : B[i] = cj /\ Building(c) /\ (~Building(coll) \/ c.column.id # coll.column.id)
    <2>1. CASE Building(c) /\ (~Building(coll) \/ c.column.id # coll.column.id)
        <3>1. B = <<cj>>  BY <2>1
        <3> QED  BY <1>1, <2>1, <3>1
    <2>2. CASE ~(Building(c) /\ (~Building(coll) \/ c.column.id # coll.column.id))
        <3>1. B = <<>>  BY <2>2
        <3> QED  BY <3>1
    <2> QED  BY <2>1, <2>2
<1> HIDE DEF A, B
<1>5. /\ A \o B \in Seq(AnyJob) /\ Len(A \o B) = Len(A) + Len(B)
      /\ \A i \in 1..(Len(A) + Len(B)) : (A \o B)[i] = IF i <= Len(A) THEN A[i] ELSE B[i - Len(A)]
    BY <1>3, <1>4, ConcatProperties
<1> DEFINE C == A \o B
<1>6. \A i \in 1..Len(C) : (i <= Len(A) /\ C[i] = A[i] /\ i \in 1..Len(A))
                              \/ (i = Len(A) + 1 /\ C[i] = B[i - Len(A)] /\ i - Len(A) \in 1..Len(B))
    <2> HIDE DEF C
    <2>1. Len(C) = Len(A) + Len(B) /\ \A i \in 1..Len(C) : C[i] = IF i <= Len(A) THEN A[i] ELSE B[i - Len(A)]
        BY <1>5 DEF C
    <2> QED  BY <1>3, <1>4, <2>1
<1>7. C \in Seq(AnyJob)  BY <1>5
<1>8. Builds(c) = C  BY <1>2
<1> HIDE DEF C
<1>9. \A i \in 1..Len(C) : IndexBuild(c, C[i]) \/ ColumnBuild(c, C[i])
    BY <1>3, <1>4, <1>6 DEF IndexBuild, ColumnBuild, ij, cj
<1>10. \A i \in 1..Len(C) : C[i].kind = "column" => i = Len(A) + 1
    BY <1>1, <1>3, <1>6
<1> QED  BY <1>7, <1>8, <1>9, <1>10

LEMMA BuildsCatchups ==
    ASSUME NEW c \in Shape, JobsTyped(jobs, coll), c.dirtyBuild = coll.dirtyBuild
    PROVE  JobsTyped(jobs \o Builds(c), c)
<1> DEFINE more == Builds(c)
<1>1. /\ more \in Seq(AnyJob)
      /\ \A i \in 1..Len(more) : IndexBuild(c, more[i]) \/ ColumnBuild(c, more[i])
    BY BuildsFacts
<1> HIDE DEF more
<1>2. \A i \in 1..Len(more) : more[i].kind # "dirty"
    BY <1>1, JobKinds DEF IndexBuild, ColumnBuild
<1>3. jobs \in Seq(AnyJob) /\ CatchupJobs(jobs, coll.dirtyBuild)  BY DEF JobsTyped
<1>4. CatchupJobs(jobs \o more, coll.dirtyBuild)  BY <1>1, <1>2, <1>3, MoreJobs
<1>5. jobs \o more \in Seq(AnyJob)  BY <1>1, <1>3, ConcatProperties
<1> QED  BY <1>4, <1>5 DEF more, JobsTyped

LEMMA StateSetMeta ==
    ASSUME StateInv, NEW meta \in scenario.metas, SetMeta(meta), vecs' = vecs
    PROVE  StateInv'
<1>0. /\ scenario \in Scenarios /\ written \in [Rids -> Cells] /\ CollOk(coll, written)
      /\ JobsTyped(jobs, coll) /\ VectorsOk(vecs, written)
    BY DEF StateInv
<1> DEFINE b == IF coll.exists THEN coll ELSE NewCollection
           c == WithMeta(b, meta)
<1>1. coll' = c /\ jobs' = jobs \o Builds(c) /\ scenario' = scenario /\ written' = written
    BY DEF SetMeta
<1>2. /\ b \in Shape /\ Scoped(b) /\ Once(b.dirty) /\ Present(b, written) /\ b.exists
      /\ b.dirtyBuild = coll.dirtyBuild
    <2>1. CASE coll.exists  BY <1>0, <2>1 DEF CollOk
    <2>2. CASE ~coll.exists
        <3> DEFINE nc == NewCollection
        <3>1. /\ nc \in Shape /\ Scoped(nc) /\ Once(nc.dirty)
              /\ nc.exists /\ ~nc.dirtyBuild /\ \A r \in Rids : nc.base[r] = Gone
            BY NewCollectionFacts
        <3>2. b = nc  BY <2>2
        <3> HIDE DEF nc, b
        <3>3. /\ ~coll.dirtyBuild /\ (\A r \in Rids : coll.base[r] = Gone) /\ Present(coll, written)
              /\ coll.dirtyBuild \in BOOLEAN
            BY <1>0, <2>2 DEF CollOk, Shape
        <3>4. Present(nc, written)  BY <3>1, <3>3 DEF Present
        <3>5. nc.dirtyBuild = coll.dirtyBuild  BY <3>1, <3>3 DEF Shape
        <3> QED  BY <3>1, <3>2, <3>4, <3>5
    <2> QED  BY <2>1, <2>2
<1> HIDE DEF b
<1>3. meta \in [index : BOOLEAN, column : BOOLEAN]  BY <1>0, ScenarioFacts
<1>4. c \in Shape /\ SameRows(b, c) /\ c.dirty = b.dirty /\ c.dirtyBuild = b.dirtyBuild
    BY <1>2, <1>3, WithMetaFacts
<1> HIDE DEF c
<1>5. CollOk(c, written)
    <2>1. Scoped(c)  BY <1>2, <1>4, SameRowsScoped
    <2>2. Present(c, written) /\ c.exists /\ Once(c.dirty)  BY <1>2, <1>4 DEF SameRows, Present
    <2> QED  BY <1>4, <2>1, <2>2 DEF CollOk
<1>6. JobsTyped(jobs \o Builds(c), c)  BY <1>0, <1>2, <1>4, BuildsCatchups
<1> QED  BY <1>0, <1>1, <1>5, <1>6 DEF StateInv

\* The warm-up leaves everything but the structures as it was.
WarmedBy(c, m, n) ==
    /\ m \in Shape /\ n \in Shape /\ SameRows(c, n)
    /\ n.meta = c.meta /\ n.dirty = c.dirty /\ n.dirtyBuild = c.dirtyBuild /\ ~n.indexBuildPending
    /\ Indexed(c, n, TRUE) /\ Columned(c, n, TRUE)

LEMMA WarmedFacts ==
    ASSUME NEW c \in Shape
    PROVE  WarmedBy(c, MetaIndexes(c, TRUE),
                    [MetaColumns(MetaIndexes(c, TRUE), TRUE) EXCEPT !.indexBuildPending = FALSE])
<1> DEFINE m == MetaIndexes(c, TRUE)
           k == MetaColumns(m, TRUE)
           n == [k EXCEPT !.indexBuildPending = FALSE]
<1>0. TRUE \in BOOLEAN  OBVIOUS
<1>1. /\ m \in Shape /\ SameRows(c, m) /\ m.meta = c.meta
      /\ m.columned = c.columned /\ m.column = c.column
      /\ m.dirty = c.dirty /\ m.dirtyBuild = c.dirtyBuild
      /\ Indexed(c, m, TRUE)
    BY <1>0, MetaIndexesFacts
<1> HIDE DEF m
<1>2. /\ k \in Shape /\ SameRows(m, k) /\ k.meta = m.meta
      /\ k.indexed = m.indexed /\ k.index = m.index /\ k.build = m.build
      /\ k.tokens = m.tokens /\ k.dirty = m.dirty /\ k.dirtyBuild = m.dirtyBuild
      /\ Columned(m, k, TRUE)
    BY <1>0, <1>1, MetaColumnsFacts
<1> HIDE DEF k
<1>3. n \in Shape /\ ~n.indexBuildPending  BY <1>2 DEF Shape
<1>4. /\ n.meta = k.meta /\ n.indexed = k.indexed /\ n.index = k.index /\ n.build = k.build
      /\ n.tokens = k.tokens /\ n.dirty = k.dirty /\ n.dirtyBuild = k.dirtyBuild
      /\ n.columned = k.columned /\ n.column = k.column
    BY <1>2 DEF Shape
<1>5. SameRows(k, n)  BY <1>2 DEF Shape, SameRows
<1> HIDE DEF n
<1>6. SameRows(c, n)  BY <1>1, <1>2, <1>5 DEF SameRows
<1>7. Indexed(c, n, TRUE)  BY <1>1, <1>2, <1>4 DEF Indexed
<1>8. Columned(c, n, TRUE)  BY <1>1, <1>2, <1>4 DEF Columned, SameRows
<1>9. WarmedBy(c, m, n)  BY <1>1, <1>2, <1>3, <1>4, <1>6, <1>7, <1>8 DEF WarmedBy
<1> QED  BY <1>9 DEF m, n, k

LEMMA StateWarmup ==
    ASSUME StateInv, Warmup
    PROVE  StateInv'
<1>0. /\ scenario \in Scenarios /\ written \in [Rids -> Cells] /\ CollOk(coll, written)
      /\ JobsTyped(jobs, coll) /\ VectorsOk(vecs, written)
    BY DEF StateInv
<1> DEFINE c == [MetaColumns(MetaIndexes(coll, TRUE), TRUE) EXCEPT !.indexBuildPending = FALSE]
<1>1. /\ coll' = c /\ jobs' = jobs \o Builds(c) /\ scenario' = scenario /\ written' = written
      /\ vecs' = vecs
    BY DEF Warmup, StartIndexWarmup
<1>2. coll \in Shape /\ Scoped(coll)  BY <1>0 DEF CollOk
<1>3. WarmedBy(coll, MetaIndexes(coll, TRUE), c)  BY <1>2, WarmedFacts
<1> HIDE DEF c
<1>4. c \in Shape /\ SameRows(coll, c) /\ c.dirty = coll.dirty /\ c.dirtyBuild = coll.dirtyBuild
    BY <1>3 DEF WarmedBy
<1>5. CollOk(c, written)
    <2>1. Scoped(c)  BY <1>2, <1>4, SameRowsScoped
    <2> QED  BY <1>0, <1>4, <2>1 DEF CollOk, SameRows, Present
<1>6. JobsTyped(jobs \o Builds(c), c)  BY <1>0, <1>4, BuildsCatchups
<1> QED  BY <1>0, <1>1, <1>5, <1>6 DEF StateInv

----------------------------------------------------------------------------
\* A finite set as a sequence: every element once.
LEMMA SetToSeqFacts ==
    ASSUME NEW S, IsFiniteSet(S)
    PROVE  /\ Cardinality(S) \in Nat /\ DOMAIN SetToSeq(S) = 1..Cardinality(S)
           /\ \A i \in 1..Cardinality(S) : SetToSeq(S)[i] \in S
           /\ \A x \in S : \E i \in 1..Cardinality(S) : SetToSeq(S)[i] = x
<1> DEFINE n == Cardinality(S)
           f == SetToSeq(S)
<1>1. n \in Nat /\ ExistsBijection(1..n, S)  BY FS_CardinalityType
<1>2. \E g \in [1..n -> S] : IsInjective(g)
    <2>1. PICK g : g \in Bijection(1..n, S)  BY <1>1 DEF ExistsBijection
    <2>2. g \in [1..n -> S] /\ IsInjective(g)  BY <2>1 DEF Bijection, Injection
    <2> QED  BY <2>2
<1>3. f \in [1..n -> S] /\ IsInjective(f)  BY <1>2 DEF SetToSeq
<1> HIDE DEF f
<1>4. f \in Injection(1..n, S)  BY <1>3 DEF Injection
<1>5. f \in Bijection(1..n, Range(f))  BY <1>3 DEF Bijection, Injection, Surjection, Range
<1>6. ExistsBijection(1..n, Range(f))  BY <1>5 DEF ExistsBijection
<1>7. Cardinality(Range(f)) = n
    <2> HIDE DEF n
    <2> QED  BY <1>1, <1>6, FS_CountingElements
<1>8. Range(f) \in SUBSET S  BY <1>3 DEF Range
<1>9. Range(f) = S  BY <1>7, <1>8, FS_Subset
<1>10. \A x \in S : \E i \in 1..n : f[i] = x  BY <1>3, <1>9 DEF Range
<1> QED  BY <1>1, <1>3, <1>10 DEF f

LEMMA EntryFrame ==
    ASSUME NEW v, NEW n, NEW k, n.entries[k] = v.entries[k], n.stored = v.stored,
           n.placement = v.placement, EntryOk(v, k)
    PROVE  EntryOk(n, k)
BY DEF EntryOk, Held

LEMMA BegunEntry ==
    ASSUME NEW i \in Nat
    PROVE  LET e == [NoEntry EXCEPT !.status = "building", !.id = i]
           IN /\ e \in VectorEntry /\ e.status = "building" /\ e.visited = {}
              /\ \A r \in Rids : e.nodes[r] = NoVector
<1>1. PICK n : n = NoEntry  OBVIOUS
<1>2. n \in VectorEntry /\ n.visited = {} /\ \A r \in Rids : n.nodes[r] = NoVector
    BY <1>1, NoEntryType DEF NoEntry
<1> DEFINE e == [n EXCEPT !.status = "building", !.id = i]
<1>3. e \in VectorEntry /\ e.status = "building" /\ e.visited = n.visited /\ e.nodes = n.nodes
    BY <1>2 DEF VectorEntry
<1> HIDE DEF e
<1>4. e.visited = {} /\ \A r \in Rids : e.nodes[r] = NoVector  BY <1>2, <1>3
<1> QED  BY <1>1, <1>3, <1>4 DEF e

\* Indexes of some keys are begun.
LEMMA StateBegun ==
    ASSUME StateInv, NEW keys, keys \subseteq Keys, IsFiniteSet(keys),
           StartVectorIndexWarmups(keys)
    PROVE  StateInv'
<1>0. /\ scenario \in Scenarios /\ written \in [Rids -> Cells] /\ CollOk(coll, written)
      /\ JobsTyped(jobs, coll) /\ VectorsOk(vecs, written)
    BY DEF StateInv
<1> DEFINE sorted == SetToSeq(keys)
           n == Cardinality(keys)
           id(k) == vecs.ids + (CHOOSE i \in DOMAIN sorted : sorted[i] = k)
           entries == [k \in Keys |->
                          IF k \in keys THEN [NoEntry EXCEPT !.status = "building", !.id = id(k)]
                          ELSE vecs.entries[k]]
           more == [i \in DOMAIN sorted |-> Job("vector", [key |-> sorted[i], id |-> id(sorted[i])])]
           v == [vecs EXCEPT !.ids = vecs.ids + n, !.entries = entries]
<1>1. /\ vecs' = v /\ jobs' = jobs \o more
      /\ scenario' = scenario /\ written' = written /\ coll' = coll
    BY DEF StartVectorIndexWarmups
<1>2. /\ n \in Nat /\ DOMAIN sorted = 1..n /\ \A i \in 1..n : sorted[i] \in keys
      /\ \A k \in keys : \E i \in 1..n : sorted[i] = k
    BY SetToSeqFacts
<1>3. vecs \in VectorState /\ vecs.ids \in Nat /\ \A k \in Keys : EntryOk(vecs, k)
    BY <1>0 DEF VectorsOk, VectorState
<1>4. \A k \in keys : id(k) \in Nat \ {0}
    <2> TAKE k \in keys
    <2> DEFINE i == CHOOSE i \in DOMAIN sorted : sorted[i] = k
    <2>1. i \in 1..n
        <3> HIDE DEF sorted, n
        <3> QED  BY <1>2
    <2>2. id(k) = vecs.ids + i  OBVIOUS
    <2> HIDE DEF i, n, id
    <2> QED  BY <1>2, <1>3, <2>1, <2>2
<1> HIDE DEF sorted, n, id
<1>5. \A k \in keys : LET e == [NoEntry EXCEPT !.status = "building", !.id = id(k)]
                      IN /\ e \in VectorEntry /\ e.status = "building" /\ e.visited = {}
                         /\ \A r \in Rids : e.nodes[r] = NoVector
    <2> TAKE k \in keys
    <2>1. id(k) \in Nat  BY <1>4
    <2> QED  BY <2>1, BegunEntry
<1>6. entries \in [Keys -> VectorEntry]
    <2>1. \A k \in Keys : vecs.entries[k] \in VectorEntry  BY <1>3 DEF VectorState
    <2> QED  BY <1>5, <2>1
<1>7. \A k \in Keys : entries[k] = IF k \in keys THEN [NoEntry EXCEPT !.status = "building", !.id = id(k)]
                                   ELSE vecs.entries[k]
    OBVIOUS
<1> HIDE DEF entries
<1>8. v \in VectorState /\ v.entries = entries /\ v.stored = vecs.stored /\ v.placement = vecs.placement
    <2>1. vecs.ids + n \in Nat  BY <1>2, <1>3
    <2> DEFINE m == vecs.ids + n
    <2> HIDE DEF m
    <2>2. v = [vecs EXCEPT !.ids = m, !.entries = entries] /\ m \in Nat  BY <2>1 DEF m
    <2> QED  BY <1>3, <1>6, <2>2 DEF VectorState
<1> HIDE DEF v
<1>9. VectorsOk(v, written)
    <2>1. \A k \in Keys : EntryOk(v, k)
        <3> TAKE k \in Keys
        <3>1. CASE k \in keys
            <4> DEFINE e == [NoEntry EXCEPT !.status = "building", !.id = id(k)]
            <4>1. v.entries[k] = e  BY <1>7, <1>8, <3>1
            <4>2. e.status = "building" /\ e.visited = {} /\ \A r \in Rids : e.nodes[r] = NoVector
                BY <1>5, <3>1
            <4> HIDE DEF e
            <4> QED  BY <4>1, <4>2 DEF EntryOk
        <3>2. CASE k \notin keys
            <4>1. v.entries[k] = vecs.entries[k]  BY <1>7, <1>8, <3>2
            <4> QED  BY <1>3, <1>8, <4>1, EntryFrame
        <3> QED  BY <3>1, <3>2
    <2>2. \A r \in Rids : v.stored[r] # NoVector => written[r] # Gone  BY <1>0, <1>8 DEF VectorsOk
    <2> QED  BY <1>8, <2>1, <2>2 DEF VectorsOk
<1>10. /\ more \in Seq(AnyJob) /\ Len(more) = n
       /\ \A i \in 1..Len(more) : more[i].kind # "dirty"
    <2>1. \A i \in 1..n : [key |-> sorted[i], id |-> id(sorted[i])] \in Token
        BY <1>2, <1>4 DEF Token
    <2>2. \A i \in 1..n : LET job == Job("vector", [key |-> sorted[i], id |-> id(sorted[i])])
                          IN job \in AnyJob /\ job.kind = "vector"
        BY <2>1, JobTypes, JobKinds DEF AnyJob
    <2>3. more = [i \in 1..n |-> Job("vector", [key |-> sorted[i], id |-> id(sorted[i])])]
        BY <1>2
    <2>4. \A i \in 1..n : more[i] \in AnyJob /\ more[i].kind = "vector"  BY <2>2, <2>3
    <2>5. DOMAIN more = 1..n /\ more = [i \in 1..n |-> more[i]]  BY <2>3
    <2> HIDE DEF more
    <2>6. more \in [1..n -> AnyJob]  BY <2>4, <2>5
    <2>7. more \in Seq(AnyJob) /\ Len(more) = n  BY <1>2, <2>6, SeqDef, LenProperties
    <2> QED  BY <2>4, <2>7
<1> HIDE DEF more
<1>11. JobsTyped(jobs \o more, coll)
    <2>1. jobs \in Seq(AnyJob) /\ CatchupJobs(jobs, coll.dirtyBuild)  BY <1>0 DEF JobsTyped
    <2>2. CatchupJobs(jobs \o more, coll.dirtyBuild)  BY <1>10, <2>1, MoreJobs
    <2>3. jobs \o more \in Seq(AnyJob)  BY <1>10, <2>1, ConcatProperties
    <2> QED  BY <2>2, <2>3 DEF JobsTyped
<1> QED  BY <1>0, <1>1, <1>9, <1>11 DEF StateInv

LEMMA StateWarmVectors ==
    ASSUME StateInv, WarmVectorIndexes
    PROVE  StateInv'
<1>1. PICK r \in Rids : vecs.stored[r] # NoVector  BY DEF WarmVectorIndexes, VectorRids
<1>2. Shards # {}  BY <1>1 DEF StateInv, VectorsOk, VectorState
<1>3. IsFiniteSet(SUBSET Shards)  BY FS_SUBSET, VectorIndexesAssumption DEF VectorIndexesAssumption
<1>4. WarmKeys \subseteq Keys /\ Keys \subseteq SUBSET Shards  BY <1>2 DEF WarmKeys, Keys
<1>5. Unbuilt(WarmKeys) \subseteq WarmKeys  BY DEF Unbuilt
<1>6. Unbuilt(WarmKeys) \subseteq Keys /\ Unbuilt(WarmKeys) \in SUBSET (SUBSET Shards)
    BY <1>4, <1>5
<1>7. IsFiniteSet(Unbuilt(WarmKeys))  BY <1>3, <1>6, FS_Subset
<1> QED  BY <1>6, <1>7, StateBegun DEF WarmVectorIndexes

LEMMA StateSearch ==
    ASSUME StateInv, NEW k \in scenario.searches, VectorSearch(k)
    PROVE  StateInv'
<1>1. k \in Keys  BY ScenarioFacts DEF StateInv
<1>2. {k} \subseteq Keys /\ IsFiniteSet({k})  BY <1>1, FS_Singleton
<1> QED  BY <1>2, StateBegun DEF VectorSearch

\* A new shard map.
LEMMA StateReplace ==
    ASSUME StateInv, NEW placement \in scenario.placements, ReplaceShardMap(placement)
    PROVE  StateInv'
<1>0. /\ scenario \in Scenarios /\ written \in [Rids -> Cells] /\ CollOk(coll, written)
      /\ JobsTyped(jobs, coll) /\ VectorsOk(vecs, written)
    BY DEF StateInv
<1> DEFINE none == [k \in Keys |-> NoEntry]
           v == [[vecs EXCEPT !.entries = none] EXCEPT !.placement = placement]
<1>1. /\ vecs' = v /\ scenario' = scenario /\ written' = written /\ coll' = coll /\ jobs' = jobs
    BY DEF ReplaceShardMap, ClearVectorIndexes
<1>2. placement \in [Rids -> Shards]  BY <1>0, ScenarioFacts
<1>3. none \in [Keys -> VectorEntry] /\ \A k \in Keys : none[k] = NoEntry  BY NoEntryType
<1> HIDE DEF none
<1>4. v \in VectorState /\ v.entries = none /\ v.stored = vecs.stored
    BY <1>0, <1>2, <1>3 DEF VectorsOk, VectorState
<1> HIDE DEF v
<1>5. \A k \in Keys : EntryOk(v, k)
    <2> TAKE k \in Keys
    <2>1. v.entries[k] = NoEntry  BY <1>3, <1>4
    <2>2. /\ NoEntry.status = "none" /\ NoEntry.visited = {}
          /\ \A r \in Rids : NoEntry.nodes[r] = NoVector
        BY DEF NoEntry
    <2> QED  BY <2>1, <2>2 DEF EntryOk
<1>6. VectorsOk(v, written)  BY <1>0, <1>4, <1>5 DEF VectorsOk
<1> QED  BY <1>0, <1>1, <1>6 DEF StateInv

\* A drop.
LEMMA StateDrop ==
    ASSUME StateInv, Drop
    PROVE  StateInv'
<1>0. /\ scenario \in Scenarios /\ written \in [Rids -> Cells] /\ CollOk(coll, written)
      /\ JobsTyped(jobs, coll) /\ VectorsOk(vecs, written)
    BY DEF StateInv
<1> DEFINE nc == NewCollection
           c == [nc EXCEPT !.exists = FALSE]
           w == [r \in Rids |-> Gone]
           nv == NoVectors(vecs.placement)
           v == [nv EXCEPT !.ids = vecs.ids]
<1>1. /\ coll' = c /\ jobs' = Cancelled /\ written' = w /\ scenario' = scenario /\ vecs' = v
    BY DEF Drop, DropCollection, DropVectors
<1>2. /\ nc \in Shape /\ Scoped(nc) /\ Once(nc.dirty)
      /\ ~nc.dirtyBuild /\ \A r \in Rids : nc.base[r] = Gone
    BY NewCollectionFacts
<1> HIDE DEF nc
<1>3. c \in Shape /\ ~c.exists /\ c.base = nc.base /\ c.live = nc.live
      /\ c.shard = nc.shard /\ c.shardRids = nc.shardRids /\ c.unsharded = nc.unsharded
      /\ c.dirty = nc.dirty /\ c.dirtyBuild = nc.dirtyBuild
    BY <1>2 DEF Shape
<1> HIDE DEF c
<1>4. w \in [Rids -> Cells] /\ \A r \in Rids : w[r] = Gone  BY CellFacts
<1> HIDE DEF w
<1>5. CollOk(c, w)
    <2>1. Scoped(c)  BY <1>2, <1>3, SameScopes
    <2> QED  BY <1>2, <1>3, <1>4, <2>1 DEF CollOk, Present
<1>6. JobsTyped(Cancelled, c)
    <2> DEFINE job == Job("cancelled", 0)
    <2>1. job \in AnyJob /\ job.kind = "cancelled"  BY JobTypes, JobKinds DEF AnyJob, OwnKinds
    <2> HIDE DEF job
    <2>2. Cancelled = IF jobs = <<>> THEN <<>> ELSE <<job>>  BY DEF Cancelled, job
    <2>3. CASE jobs = <<>>
        <3>1. Cancelled = <<>> /\ Cancelled \in Seq(AnyJob) /\ Len(Cancelled) = 0
            BY <2>2, <2>3, EmptySeq
        <3>2. 1..0 = {}  OBVIOUS
        <3> QED  BY <1>2, <1>3, <3>1, <3>2 DEF JobsTyped, CatchupJobs
    <2>4. CASE jobs # <<>>
        <3>1. Cancelled = <<job>>  BY <2>2, <2>4
        <3>2. Cancelled \in Seq(AnyJob) /\ Len(Cancelled) = 1 /\ Cancelled[1] = job
            BY <2>1, <3>1
        <3>3. \A i \in 1..1 : i = 1  OBVIOUS
        <3> QED  BY <1>2, <1>3, <2>1, <3>2, <3>3 DEF JobsTyped, CatchupJobs
    <2> QED  BY <2>3, <2>4
<1>7. VectorsOk(v, w)
    <2>1. vecs.placement \in [Rids -> Shards] /\ vecs.ids \in Nat  BY <1>0 DEF VectorsOk, VectorState
    <2>2. VectorsOk(nv, w)  BY <2>1, NoVectorsOk
    <2>3. nv \in VectorState /\ nv.stored = [r \in Rids |-> NoVector]  BY <2>2 DEF VectorsOk, NoVectors
    <2> HIDE DEF nv
    <2>4. v \in VectorState /\ v.entries = nv.entries /\ v.stored = nv.stored /\ v.placement = nv.placement
        BY <2>1, <2>3 DEF VectorState
    <2> HIDE DEF v
    <2>5. \A k \in Keys : EntryOk(v, k)
        <3> TAKE k \in Keys
        <3>1. EntryOk(nv, k) /\ v.entries[k] = nv.entries[k]  BY <2>2, <2>4 DEF VectorsOk
        <3> QED  BY <2>4, <3>1, EntryFrame
    <2>6. \A r \in Rids : v.stored[r] = NoVector  BY <2>3, <2>4
    <2> QED  BY <2>4, <2>5, <2>6 DEF VectorsOk
<1> QED  BY <1>0, <1>1, <1>4, <1>5, <1>6, <1>7 DEF StateInv

----------------------------------------------------------------------------
\* Jobs: what a step of the scheduler leaves as it was.

LEMMA CollFrame ==
    ASSUME NEW c, NEW w, CollOk(c, w), NEW n \in Shape, n.exists = c.exists, n.live = c.live,
           n.shard = c.shard, n.shardRids = c.shardRids, n.unsharded = c.unsharded,
           \A r \in Rids : n.base[r] = Gone <=> c.base[r] = Gone,
           Once(n.dirty), n.dirtyBuild => c.exists
    PROVE  CollOk(n, w)
<1>1. Scoped(n)  BY SameScopes DEF CollOk
<1>2. Present(n, w)  BY DEF CollOk, Present
<1> QED  BY <1>1, <1>2 DEF CollOk

LEMMA ActiveFacts ==
    ASSUME NEW js, NEW c, JobsTyped(js, c), js # <<>>
    PROVE  /\ Head(js) \in AnyJob /\ Head(js) = js[1]
           /\ Head(js).kind \in OwnKinds => Head(js) \in OwnJob
           /\ Head(js).kind = "vector" => Head(js) \in VectorJob
           /\ Head(js).kind = "dirty" => c.dirtyBuild
<1>1. js \in Seq(AnyJob) /\ CatchupJobs(js, c.dirtyBuild)  BY DEF JobsTyped
<1>2. Head(js) \in AnyJob /\ Head(js) = js[1] /\ 1 \in 1..Len(js)
    <2>1. Head(js) \in AnyJob /\ Head(js) = js[1] /\ Len(js) \in Nat \ {0}  BY <1>1, TailJobs
    <2> QED  BY <2>1
<1>3. "vector" \notin OwnKinds  BY DEF OwnKinds
<1>4. Head(js).kind = "dirty" => c.dirtyBuild  BY <1>1, <1>2 DEF CatchupJobs
<1> QED  BY <1>2, <1>3, <1>4 DEF AnyJob, OwnJob, VectorJob

LEMMA EndFacts ==
    ASSUME NEW js, NEW c, JobsTyped(js, c), js # <<>>, Head(js).kind # "dirty",
           NEW n, n.dirtyBuild = c.dirtyBuild
    PROVE  JobsTyped(Tail(js), n)
<1>1. js \in Seq(AnyJob) /\ CatchupJobs(js, c.dirtyBuild)  BY DEF JobsTyped
<1>2. Tail(js) \in Seq(AnyJob)  BY <1>1, TailJobs
<1>3. CatchupJobs(Tail(js), c.dirtyBuild)  BY <1>1, TailCatchups
<1> QED  BY <1>2, <1>3 DEF JobsTyped

LEMMA SliceFacts ==
    ASSUME NEW js, NEW c, JobsTyped(js, c), js # <<>>, NEW job \in AnyJob, job.kind = Head(js).kind,
           NEW n, n.dirtyBuild = c.dirtyBuild
    PROVE  JobsTyped([js EXCEPT ![1] = job], n)
<1> DEFINE t == [js EXCEPT ![1] = job]
<1>1. js \in Seq(AnyJob) /\ CatchupJobs(js, c.dirtyBuild)  BY DEF JobsTyped
<1>2. t \in Seq(AnyJob) /\ \A due : CatchupJobs(js, due) => CatchupJobs(t, due)  BY <1>1, SliceJobs
<1> HIDE DEF t
<1>3. CatchupJobs(t, c.dirtyBuild)  BY <1>1, <1>2
<1> QED  BY <1>2, <1>3 DEF JobsTyped, t

\* The next row of a scan is the least one ahead.
LEMMA NextRidFacts ==
    ASSUME Ahead # {}
    PROVE  /\ NextRid \in Rids /\ NextRid \in Ahead /\ coll.base[NextRid] # Gone
           /\ NextRid > Head(jobs).at /\ NextRid \in 0..MaxRid
           /\ \A q \in Ahead : NextRid <= q
<1>1. Ahead \subseteq Nat  BY RidFacts DEF Ahead, LiveRids
<1>2. \E r \in Ahead : \A q \in Ahead : r <= q  BY <1>1, LeastNat
<1>3. NextRid \in Ahead /\ \A q \in Ahead : NextRid <= q
    <2> HIDE DEF Ahead
    <2> QED  BY <1>2 DEF NextRid
<1> HIDE DEF NextRid
<1>4. NextRid \in Rids /\ coll.base[NextRid] # Gone /\ NextRid > Head(jobs).at
    BY <1>3 DEF Ahead, LiveRids
<1>5. NextRid \in 0..MaxRid  BY <1>4, RidFacts DEF Rids
<1> QED  BY <1>3, <1>4, <1>5

\* A slice of a scan of the rows for the index.
ScannedJob(job, c, r) == [job EXCEPT !.at = r, !.index = AddValue(job.index, r, Hydrated(c, r))]

LEMMA ScannedJobFacts ==
    ASSUME NEW c \in Shape, NEW r \in Rids, c.base[r] # Gone, NEW job \in OwnJob
    PROVE  LET n == ScannedJob(job, c, r)
           IN /\ n \in OwnJob /\ n.kind = job.kind /\ n.token = job.token /\ n.phase = job.phase
              /\ n.at = r /\ n.index = AddValue(job.index, r, Hydrated(c, r))
              /\ n.column = job.column
<1> DEFINE ix == AddValue(job.index, r, Hydrated(c, r))
           n == [job EXCEPT !.at = r, !.index = ix]
<1>1. Hydrated(c, r) \in Fields  BY HydratedType, CellFacts
<1>2. ix \in IndexType  BY <1>1, AddValueType DEF OwnJob
<1> HIDE DEF ix
<1>3. r \in 0..MaxRid  BY RidFacts DEF Rids
<1>4. /\ n \in OwnJob /\ n.kind = job.kind /\ n.token = job.token /\ n.phase = job.phase
      /\ n.at = r /\ n.index = ix /\ n.column = job.column
    BY <1>2, <1>3 DEF OwnJob
<1> HIDE DEF n
<1> QED  BY <1>4 DEF n, ix, ScannedJob

\* A slice of a scan of the rows for the column.
ScannedColumnJob(job, c, r) ==
    [job EXCEPT !.at = r, !.column = ApplyState(job.column, r, ColumnState(Hydrated(c, r)))]

LEMMA ScannedColumnJobFacts ==
    ASSUME NEW c \in Shape, NEW r \in Rids, NEW job \in OwnJob
    PROVE  LET n == ScannedColumnJob(job, c, r)
           IN /\ n \in OwnJob /\ n.kind = job.kind /\ n.token = job.token /\ n.phase = job.phase
              /\ n.at = r /\ n.index = job.index
              /\ n.column = ApplyState(job.column, r, ColumnState(Hydrated(c, r)))
<1> DEFINE k == ApplyState(job.column, r, ColumnState(Hydrated(c, r)))
           n == [job EXCEPT !.at = r, !.column = k]
<1>1. ColumnState(Hydrated(c, r)) \in Fields  BY HydratedType, ColumnStateType
<1>2. k \in ColumnType  BY <1>1, ApplyStateFacts DEF OwnJob
<1> HIDE DEF k
<1>3. r \in 0..MaxRid  BY RidFacts DEF Rids
<1>4. /\ n \in OwnJob /\ n.kind = job.kind /\ n.token = job.token /\ n.phase = job.phase
      /\ n.at = r /\ n.index = job.index /\ n.column = k
    BY <1>2, <1>3 DEF OwnJob
<1> HIDE DEF n
<1> QED  BY <1>4 DEF n, k, ScannedColumnJob

\* What is replayed over a scan of the rows for the index.
ReplayChain(f, index, build) ==
    /\ f \in [0..MaxRid -> IndexType] /\ f[0] = index
    /\ \A i \in Rids : /\ i - 1 \in 0..MaxRid /\ f[i - 1] \in IndexType /\ f[i] \in IndexType
                       /\ f[i] = Moved(f[i - 1], i, build.pending[i].before, build.pending[i].after)

LEMMA ReplayedSteps ==
    ASSUME NEW index \in IndexType, NEW build \in BuildType
    PROVE  \E f : Replayed(index, build) = f[MaxRid] /\ ReplayChain(f, index, build)
<1> DEFINE n == MaxRid
           Up(x, i) == Moved(x, i, build.pending[i].before, build.pending[i].after)
           Is(g) == g = [r \in 0..n |-> IF r = 0 THEN index ELSE Up(g[r - 1], r)]
           F == [p \in (1..n) \X IndexType |-> Up(p[2], p[1])]
<1>0. n \in Nat /\ Rids = 1..n  BY RidFacts DEF Rids
<1>1. \A i \in 1..n, x \in IndexType : Up(x, i) \in IndexType
    <2> TAKE i \in 1..n, x \in IndexType
    <2>1. i \in Rids  BY <1>0
    <2>2. build.pending[i].before \in Cells /\ build.pending[i].after \in Cells
        BY <2>1 DEF BuildType, Change
    <2> QED  BY <2>1, <2>2, MovedType
<1>2. \A i \in 1..n, x \in IndexType : F[<<i, x>>] = Up(x, i)
    <2> HIDE DEF Up
    <2> QED  OBVIOUS
<1>3. PICK g : Steps(g, F, index, n, IndexType)
    <2>1. Closed(F, n, IndexType)
        <3> HIDE DEF F, Up, n
        <3> QED  BY <1>1, <1>2 DEF Closed
    <2> HIDE DEF F, n
    <2> QED  BY <1>0, <2>1, StepsExist
<1>4. g \in [0..n -> IndexType] /\ g[0] = index /\ \A i \in 1..n : g[i] = F[<<i, g[i - 1]>>]
    BY <1>3 DEF Steps
<1>5. \A i \in 1..n : i - 1 \in 0..n /\ i \in 0..n /\ g[i - 1] \in IndexType /\ g[i] \in IndexType
                      /\ g[i] = Up(g[i - 1], i)
    <2> TAKE i \in 1..n
    <2>1. i - 1 \in 0..n /\ i \in 0..n  BY <1>0
    <2> HIDE DEF F, Up, n
    <2> QED  BY <1>2, <1>4, <2>1
<1>6. Is(g)
    <2>1. ASSUME NEW i \in 0..n
          PROVE  g[i] = IF i = 0 THEN index ELSE Up(g[i - 1], i)
        <3>1. i = 0 \/ i \in 1..n  BY <1>0
        <3> HIDE DEF Up, F, n
        <3> QED  BY <1>4, <1>5, <3>1
    <2> HIDE DEF Up, F, n
    <2> QED  BY <1>4, <2>1
<1> DEFINE t == CHOOSE g1 : Is(g1)
<1>7. Replayed(index, build) = t[n]  BY DEF Replayed
<1>8. PICK h : h = t  OBVIOUS
<1>9. \A i \in 0..n : h[i] = g[i]
    <2>0. Is(h)  BY <1>6, <1>8
    <2>1. h[0] = index /\ \A i \in 1..n : h[i] = Up(h[i - 1], i)
        <3>1. 0 \in 0..n /\ \A i \in 1..n : i \in 0..n /\ i # 0  BY <1>0
        <3> HIDE DEF t, Up, n, F
        <3> QED  BY <2>0, <3>1
    <2> HIDE DEF t, Up, n, F, Is
    <2>2. \A i \in 1..n : h[i - 1] = g[i - 1] => h[i] = g[i]  BY <1>5, <2>1
    <2>3. h[0] = g[0]  BY <1>4, <2>1
    <2>4. n \in Nat /\ StepAlike(h, g, n)  BY <1>0, <2>2, <2>3 DEF StepAlike
    <2>5. SameUpTo(h, g, n)  BY <2>4, SameSteps
    <2> QED  BY <2>5 DEF SameUpTo
<1>10. n \in 0..n  BY <1>0
<1>11. ReplayChain(g, index, build)  BY <1>0, <1>4, <1>5 DEF ReplayChain
<1> HIDE DEF t
<1>12. Replayed(index, build) = g[MaxRid]  BY <1>7, <1>8, <1>9, <1>10
<1> QED  BY <1>11, <1>12

LEMMA ReplayedType ==
    ASSUME NEW index \in IndexType, NEW build \in BuildType
    PROVE  Replayed(index, build) \in IndexType
<1>1. PICK f : Replayed(index, build) = f[MaxRid] /\ ReplayChain(f, index, build)
    BY ReplayedSteps
<1>2. MaxRid \in 0..MaxRid  BY RidFacts
<1> QED  BY <1>1, <1>2 DEF ReplayChain

----------------------------------------------------------------------------
\* What the steps of the jobs do to the collection.

SameOrders(c, n) ==
    /\ n.meta = c.meta /\ n.tokens = c.tokens /\ n.indexBuildPending = c.indexBuildPending
    /\ n.columned = c.columned
SameIndex(c, n) == n.indexed = c.indexed /\ n.index = c.index /\ n.build = c.build

InstalledField(c, index) == [c EXCEPT !.indexed = TRUE, !.build = NoBuild, !.index = index]

LEMMA InstalledFieldFacts ==
    ASSUME NEW c \in Shape, NEW index \in IndexType
    PROVE  LET n == InstalledField(c, index)
           IN /\ n \in Shape /\ SameRows(c, n) /\ SameOrders(c, n)
              /\ n.indexed /\ n.build = NoBuild /\ n.index = index
              /\ n.column = c.column /\ n.dirty = c.dirty /\ n.dirtyBuild = c.dirtyBuild
<1> DEFINE nb == NoBuild
           n == [c EXCEPT !.indexed = TRUE, !.build = nb, !.index = index]
<1>1. nb \in BuildType  BY NoBuildType
<1> HIDE DEF nb
<1>2. n \in Shape  BY <1>1 DEF Shape
<1>3. SameRows(c, n) /\ SameOrders(c, n)  BY DEF Shape, SameRows, SameOrders
<1>4. /\ n.indexed /\ n.build = nb /\ n.index = index
      /\ n.column = c.column /\ n.dirty = c.dirty /\ n.dirtyBuild = c.dirtyBuild
    BY DEF Shape
<1> HIDE DEF n
<1> QED  BY <1>2, <1>3, <1>4 DEF InstalledField, n, nb

FailedField(c) == [c EXCEPT !.build.status = "error", !.build.pending = NoBuild.pending]

LEMMA FailedFieldFacts ==
    ASSUME NEW c \in Shape
    PROVE  LET n == FailedField(c)
           IN /\ n \in Shape /\ SameRows(c, n) /\ SameOrders(c, n)
              /\ n.indexed = c.indexed /\ n.index = c.index /\ n.build.status = "error"
              /\ n.column = c.column /\ n.dirty = c.dirty /\ n.dirtyBuild = c.dirtyBuild
<1> DEFINE p == NoBuild.pending
           b == [c.build EXCEPT !.status = "error", !.pending = p]
           n == [c EXCEPT !.build = b]
<1>1. p \in [Rids -> Change]
    <2>1. NoBuild \in BuildType  BY NoBuildType
    <2> QED  BY <2>1 DEF BuildType
<1> HIDE DEF p
<1>2. b \in BuildType /\ b.status = "error"  BY <1>1 DEF Shape, BuildType
<1>3. FailedField(c) = n
    <2>1. c.build \in BuildType  BY DEF Shape
    <2> QED  BY <2>1 DEF FailedField, p
<1> HIDE DEF b
<1>4. n \in Shape  BY <1>2 DEF Shape
<1>5. SameRows(c, n) /\ SameOrders(c, n)  BY DEF Shape, SameRows, SameOrders
<1>6. /\ n.indexed = c.indexed /\ n.index = c.index /\ n.build = b
      /\ n.column = c.column /\ n.dirty = c.dirty /\ n.dirtyBuild = c.dirtyBuild
    BY DEF Shape
<1> HIDE DEF n
<1> QED  BY <1>2, <1>3, <1>4, <1>5, <1>6

\* The column is changed and nothing else is.
WithColumn(c, k) == [c EXCEPT !.column = k]

LEMMA WithColumnFacts ==
    ASSUME NEW c \in Shape, NEW k \in ColumnType
    PROVE  LET n == WithColumn(c, k)
           IN /\ n \in Shape /\ SameRows(c, n) /\ SameOrders(c, n) /\ SameIndex(c, n)
              /\ n.column = k /\ n.dirty = c.dirty /\ n.dirtyBuild = c.dirtyBuild
BY DEF WithColumn, Shape, SameRows, SameOrders, SameIndex

LEMMA FailedColumnFacts ==
    ASSUME NEW c \in Shape
    PROVE  \E k \in ColumnType :
              /\ [c EXCEPT !.column.status = "error", !.column.pending = EmptyColumn.pending]
                    = WithColumn(c, k)
              /\ k.status = "error" /\ k.vals = c.column.vals /\ k.id = c.column.id
<1> DEFINE p == EmptyColumn.pending
           k == [c.column EXCEPT !.status = "error", !.pending = p]
<1>1. c.column \in ColumnType  BY DEF Shape
<1>2. p \in [Rids -> Fields \cup {Untouched}]  BY EmptyColumnType DEF ColumnType
<1> HIDE DEF p
<1>3. k \in ColumnType /\ k.status = "error" /\ k.vals = c.column.vals /\ k.id = c.column.id
    BY <1>1, <1>2 DEF ColumnType
<1>4. [c EXCEPT !.column.status = "error", !.column.pending = p] = WithColumn(c, k)
    BY DEF WithColumn
<1> HIDE DEF k
<1> QED  BY <1>3, <1>4 DEF p

LEMMA StrippedFacts ==
    ASSUME NEW c \in Shape, NEW r \in Rids
    PROVE  LET n == Stripped(c, r)
           IN /\ n \in Shape /\ SameDerived(c, n) /\ n.base = [c.base EXCEPT ![r] = Absent]
              /\ n.live = c.live /\ n.shard = c.shard /\ n.shardRids = c.shardRids
              /\ n.unsharded = c.unsharded
<1>1. Stripped(c, r) \in Shape
    <2> DEFINE b == [c.base EXCEPT ![r] = Absent]
    <2>1. b \in [Rids -> Cells]  BY CellFacts DEF Shape
    <2>2. Stripped(c, r) = [c EXCEPT !.base = b]  BY DEF Stripped
    <2> HIDE DEF b
    <2> QED  BY <2>1, <2>2 DEF Shape
<1>2. SameDerived(c, Stripped(c, r))  BY DEF Stripped, Shape, SameDerived
<1>3. Stripped(c, r).base = [c.base EXCEPT ![r] = Absent]  BY DEF Stripped, Shape
<1>4. LET n == Stripped(c, r)
      IN n.live = c.live /\ n.shard = c.shard /\ n.shardRids = c.shardRids /\ n.unsharded = c.unsharded
    BY DEF Stripped, Shape
<1> QED  BY <1>1, <1>2, <1>3, <1>4

\* A dirty row is caught up.
RefreshedIndex(c, r, v) ==
    IF v = Gone THEN RemoveRid(c.index, r) ELSE AddValue(RemoveRid(c.index, r), r, v)

Caught(c, n, r, v) ==
    /\ n.base = [c.base EXCEPT ![r] = IF v = Gone THEN Gone ELSE BaseValue(c, v)]
    /\ n.index = IF c.indexed THEN RefreshedIndex(c, r, v) ELSE c.index
    /\ n.column = IF c.columned THEN UpdateState(c.column, r, ColumnState(v)) ELSE c.column
    /\ n.dirty = Tail(c.dirty)

LEMMA RefreshedFacts ==
    ASSUME NEW c \in Shape, NEW r \in Rids, c.dirty # <<>>
    PROVE  LET n == RefreshedRid(c, r)
           IN /\ n \in Shape /\ SameOrders(c, n) /\ Caught(c, n, r, Hydrated(c, r))
              /\ n.indexed = c.indexed /\ n.build = c.build /\ n.dirtyBuild = c.dirtyBuild
              /\ n.exists = c.exists /\ n.live = c.live /\ n.shard = c.shard
              /\ n.shardRids = c.shardRids /\ n.unsharded = c.unsharded /\ n.rows = c.rows
<1> DEFINE v == Hydrated(c, r)
           ix == IF c.indexed THEN RefreshedIndex(c, r, v) ELSE c.index
           k == IF c.columned THEN UpdateState(c.column, r, ColumnState(v)) ELSE c.column
           f == [c EXCEPT !.index = ix, !.column = k]
           cell == IF v = Gone THEN Gone ELSE BaseValue(f, v)
           b == [f.base EXCEPT ![r] = cell]
           d == Tail(c.dirty)
           n == [f EXCEPT !.base = b, !.dirty = d]
<1>1. v \in Cells  BY HydratedType
<1>2. ix \in IndexType
    <2>1. c.index \in IndexType  BY DEF Shape
    <2>2. RemoveRid(c.index, r) \in IndexType  BY <2>1, RemoveRidType
    <2>3. v # Gone => v \in Fields  BY <1>1, CellFacts
    <2> HIDE DEF v
    <2> QED  BY <2>1, <2>2, <2>3, AddValueType DEF RefreshedIndex
<1>3. k \in ColumnType /\ k.status = c.column.status
    <2>1. c.column \in ColumnType  BY DEF Shape
    <2>2. ColumnState(v) \in Fields  BY <1>1, ColumnStateType
    <2> HIDE DEF v
    <2> QED  BY <2>1, <2>2, UpdateStateFacts
<1>4. RefreshedRid(c, r) = n
    <2>1. f = [c EXCEPT !.index = IF c.indexed THEN
                    (IF v = Gone THEN RemoveRid(c.index, r) ELSE AddValue(RemoveRid(c.index, r), r, v))
                    ELSE @,
                        !.column = IF c.columned THEN UpdateState(@, r, ColumnState(v)) ELSE @]
        BY DEF RefreshedIndex
    <2>2. f.dirty = c.dirty  BY DEF Shape
    <2>3. RefreshedRid(c, r) = [f EXCEPT !.base[r] = cell, !.dirty = Tail(@)]
        BY <2>1 DEF RefreshedRid
    <2> HIDE DEF f, cell
    <2> QED  BY <2>2, <2>3
<1> HIDE DEF ix, k
<1>5. /\ f \in Shape /\ f.base = c.base /\ f.columned = c.columned /\ f.column = k
      /\ f.index = ix /\ f.dirty = c.dirty
    BY <1>2, <1>3 DEF Shape
<1>6. SameOrders(c, f)  BY DEF Shape, SameOrders
<1>7. /\ f.indexed = c.indexed /\ f.build = c.build /\ f.dirtyBuild = c.dirtyBuild
      /\ f.exists = c.exists /\ f.live = c.live /\ f.shard = c.shard
      /\ f.shardRids = c.shardRids /\ f.unsharded = c.unsharded /\ f.rows = c.rows
    BY DEF Shape
<1> HIDE DEF f
<1>8. BaseValue(f, v) = BaseValue(c, v)  BY <1>3, <1>5 DEF BaseValue, Ready
<1>9. cell \in Cells
    <2>1. v # Gone => BaseValue(f, v) \in Fields  BY <1>1, CellFacts, BaseValueType
    <2> HIDE DEF v
    <2> QED  BY <2>1, CellFacts
<1>10. b = [c.base EXCEPT ![r] = IF v = Gone THEN Gone ELSE BaseValue(c, v)]
    BY <1>5, <1>8
<1> HIDE DEF cell
<1>11. b \in [Rids -> Cells]  BY <1>5, <1>9 DEF Shape
<1> HIDE DEF b
<1>12. d \in Seq(Rids)
    <2>1. c.dirty \in Seq(Rids)  BY DEF Shape
    <2> QED  BY <2>1, HeadTailProperties
<1> HIDE DEF d
<1>13. n \in Shape /\ n.base = b /\ n.dirty = d /\ n.index = f.index /\ n.column = f.column
    BY <1>5, <1>11, <1>12 DEF Shape
<1>14. SameOrders(f, n)  BY <1>5 DEF Shape, SameOrders
<1>15. /\ n.indexed = f.indexed /\ n.build = f.build /\ n.dirtyBuild = f.dirtyBuild
       /\ n.exists = f.exists /\ n.live = f.live /\ n.shard = f.shard
       /\ n.shardRids = f.shardRids /\ n.unsharded = f.unsharded /\ n.rows = f.rows
    BY <1>5 DEF Shape
<1> HIDE DEF n
<1>16. SameOrders(c, n)  BY <1>6, <1>14 DEF SameOrders
<1>17. Caught(c, n, r, v)  BY <1>5, <1>10, <1>13 DEF Caught, ix, k, d
<1> HIDE DEF v
<1>18. /\ n.indexed = c.indexed /\ n.build = c.build /\ n.dirtyBuild = c.dirtyBuild
       /\ n.exists = c.exists /\ n.live = c.live /\ n.shard = c.shard
       /\ n.shardRids = c.shardRids /\ n.unsharded = c.unsharded /\ n.rows = c.rows
    BY <1>7, <1>15
<1> QED  BY <1>4, <1>13, <1>16, <1>17, <1>18 DEF v

Settled(c) == [c EXCEPT !.dirtyBuild = c.dirty # <<>>]

LEMMA SettledFacts ==
    ASSUME NEW c \in Shape
    PROVE  LET n == Settled(c)
           IN /\ n \in Shape /\ SameRows(c, n) /\ SameOrders(c, n) /\ SameIndex(c, n)
              /\ n.column = c.column /\ n.dirty = c.dirty
              /\ n.dirtyBuild <=> c.dirty # <<>>
BY DEF Settled, Shape, SameRows, SameOrders, SameIndex

----------------------------------------------------------------------------
\* The scheduler's steps.

Framed == scenario' = scenario /\ written' = written /\ vecs' = vecs

LEMMA StateStep ==
    ASSUME StateInv, Framed, CollOk(coll', written), JobsTyped(jobs', coll')
    PROVE  StateInv'
BY DEF StateInv, Framed

LEMMA StateScanField ==
    ASSUME StateInv, ScanField, vecs' = vecs
    PROVE  StateInv'
<1> DEFINE r == NextRid
           job == ScannedJob(Head(jobs), coll, r)
<1>1. CollOk(coll, written) /\ JobsTyped(jobs, coll) /\ coll \in Shape  BY DEF StateInv, CollOk
<1>2. jobs # <<>> /\ Head(jobs).kind = "index" /\ Ahead # {}  BY DEF ScanField, Active
<1>3. jobs' = [jobs EXCEPT ![1] = job] /\ coll' = coll /\ Framed
    BY DEF ScanField, Slice, Derive, Framed, ScannedJob
<1>4. r \in Rids /\ coll.base[r] # Gone  BY <1>2, NextRidFacts
<1>5. Head(jobs) \in OwnJob  BY <1>1, <1>2, ActiveFacts DEF OwnKinds
<1> HIDE DEF r
<1>6. job \in OwnJob /\ job.kind = Head(jobs).kind  BY <1>1, <1>4, <1>5, ScannedJobFacts
<1> HIDE DEF job
<1>7. job \in AnyJob  BY <1>6 DEF AnyJob
<1>8. JobsTyped([jobs EXCEPT ![1] = job], coll)  BY <1>1, <1>2, <1>6, <1>7, SliceFacts
<1>9. CollOk(coll', written) /\ JobsTyped(jobs', coll')  BY <1>1, <1>3, <1>8
<1> QED  BY <1>3, <1>9, StateStep

LEMMA StateInstallField ==
    ASSUME StateInv, InstallField, vecs' = vecs
    PROVE  StateInv'
<1> DEFINE job == Head(jobs)
           current == coll.build.status = "building" /\ coll.build.token = job.token
           index == Replayed(job.index, coll.build)
           n == InstalledField(coll, index)
<1>1. CollOk(coll, written) /\ JobsTyped(jobs, coll) /\ coll \in Shape  BY DEF StateInv, CollOk
<1>2. jobs # <<>> /\ Head(jobs).kind = "index"  BY DEF InstallField, Active
<1>3. jobs' = Tail(jobs) /\ Framed /\ coll' = IF current THEN n ELSE coll
    BY DEF InstallField, End, Derive, Framed, InstalledField
<1>4. job \in OwnJob  BY <1>1, <1>2, ActiveFacts DEF OwnKinds
<1> HIDE DEF job, current
<1>5. index \in IndexType  BY <1>1, <1>4, ReplayedType DEF OwnJob, Shape
<1> HIDE DEF index
<1>6. n \in Shape /\ SameRows(coll, n) /\ n.dirty = coll.dirty /\ n.dirtyBuild = coll.dirtyBuild
    BY <1>1, <1>5, InstalledFieldFacts
<1> HIDE DEF n
<1>7. CollOk(n, written)
    <2>1. Once(n.dirty) /\ (n.dirtyBuild => coll.exists)  BY <1>1, <1>6 DEF CollOk
    <2> QED  BY <1>1, <1>6, <2>1, CollFrame DEF SameRows
<1>8. CollOk(coll', written) /\ coll'.dirtyBuild = coll.dirtyBuild  BY <1>1, <1>3, <1>6, <1>7
<1>9. JobsTyped(jobs', coll')  BY <1>1, <1>2, <1>3, <1>8, EndFacts
<1> QED  BY <1>3, <1>8, <1>9, StateStep

LEMMA StateFailField ==
    ASSUME StateInv, FailField, vecs' = vecs
    PROVE  StateInv'
<1> DEFINE current == coll.build.status = "building" /\ coll.build.token = Head(jobs).token
           n == FailedField(coll)
<1>1. CollOk(coll, written) /\ JobsTyped(jobs, coll) /\ coll \in Shape  BY DEF StateInv, CollOk
<1>2. jobs # <<>> /\ Head(jobs).kind = "index"  BY DEF FailField, Active
<1>3. jobs' = Tail(jobs) /\ Framed /\ coll' = IF current THEN n ELSE coll
    BY DEF FailField, End, Derive, Framed, FailedField
<1> HIDE DEF current
<1>6. n \in Shape /\ SameRows(coll, n) /\ n.dirty = coll.dirty /\ n.dirtyBuild = coll.dirtyBuild
    BY <1>1, FailedFieldFacts
<1> HIDE DEF n
<1>7. CollOk(n, written)
    <2>1. Once(n.dirty) /\ (n.dirtyBuild => coll.exists)  BY <1>1, <1>6 DEF CollOk
    <2> QED  BY <1>1, <1>6, <2>1, CollFrame DEF SameRows
<1>8. CollOk(coll', written) /\ coll'.dirtyBuild = coll.dirtyBuild  BY <1>1, <1>3, <1>6, <1>7
<1>9. JobsTyped(jobs', coll')  BY <1>1, <1>2, <1>3, <1>8, EndFacts
<1> QED  BY <1>3, <1>8, <1>9, StateStep

LEMMA StateScanColumn ==
    ASSUME StateInv, ScanColumn, vecs' = vecs
    PROVE  StateInv'
<1> DEFINE r == NextRid
           job == ScannedColumnJob(Head(jobs), coll, r)
<1>1. CollOk(coll, written) /\ JobsTyped(jobs, coll) /\ coll \in Shape  BY DEF StateInv, CollOk
<1>2. jobs # <<>> /\ Head(jobs).kind = "column" /\ Ahead # {}  BY DEF ScanColumn, Active
<1>3. jobs' = [jobs EXCEPT ![1] = job] /\ coll' = coll /\ Framed
    BY DEF ScanColumn, Slice, Derive, Framed, ScannedColumnJob
<1>4. r \in Rids  BY <1>2, NextRidFacts
<1>5. Head(jobs) \in OwnJob  BY <1>1, <1>2, ActiveFacts DEF OwnKinds
<1> HIDE DEF r
<1>6. job \in OwnJob /\ job.kind = Head(jobs).kind  BY <1>1, <1>4, <1>5, ScannedColumnJobFacts
<1> HIDE DEF job
<1>7. job \in AnyJob  BY <1>6 DEF AnyJob
<1>8. JobsTyped([jobs EXCEPT ![1] = job], coll)  BY <1>1, <1>2, <1>6, <1>7, SliceFacts
<1>9. CollOk(coll', written) /\ JobsTyped(jobs', coll')  BY <1>1, <1>3, <1>8
<1> QED  BY <1>3, <1>9, StateStep

\* A row is stripped of what the column has of it.
LEMMA StrippedOk ==
    ASSUME NEW c, NEW w, CollOk(c, w), NEW r \in Rids, c.base[r] # Gone
    PROVE  CollOk(Stripped(c, r), w) /\ Stripped(c, r).dirtyBuild = c.dirtyBuild
<1> DEFINE n == Stripped(c, r)
<1>1. c \in Shape  BY DEF CollOk
<1>2. /\ n \in Shape /\ SameDerived(c, n) /\ n.base = [c.base EXCEPT ![r] = Absent]
      /\ n.live = c.live /\ n.shard = c.shard /\ n.shardRids = c.shardRids
      /\ n.unsharded = c.unsharded
    BY <1>1, StrippedFacts
<1> HIDE DEF n
<1>3. c.base \in [Rids -> Cells]  BY <1>1 DEF Shape
<1>4. \A q \in Rids : n.base[q] = Gone <=> c.base[q] = Gone  BY <1>2, <1>3, CellFacts
<1>5. /\ Once(n.dirty) /\ n.exists = c.exists /\ (n.dirtyBuild => c.exists)
      /\ n.dirtyBuild = c.dirtyBuild
    BY <1>2 DEF CollOk, SameDerived
<1>6. CollOk(n, w)  BY <1>2, <1>4, <1>5, CollFrame
<1> QED  BY <1>5, <1>6 DEF n

LEMMA WithColumnOk ==
    ASSUME NEW c, NEW w, CollOk(c, w), NEW k \in ColumnType
    PROVE  /\ CollOk(WithColumn(c, k), w) /\ WithColumn(c, k).dirtyBuild = c.dirtyBuild
           /\ WithColumn(c, k).base = c.base
<1> DEFINE n == WithColumn(c, k)
<1>1. c \in Shape  BY DEF CollOk
<1>2. n \in Shape /\ SameRows(c, n) /\ n.dirty = c.dirty /\ n.dirtyBuild = c.dirtyBuild
    BY <1>1, WithColumnFacts
<1> HIDE DEF n
<1>3. Once(n.dirty) /\ (n.dirtyBuild => c.exists)  BY <1>2 DEF CollOk
<1>4. CollOk(n, w)  BY <1>2, <1>3, CollFrame DEF SameRows
<1>5. n.base = c.base  BY <1>2 DEF SameRows
<1> QED  BY <1>2, <1>4, <1>5 DEF n

First(c) == CHOOSE r \in LiveRids(c) : \A q \in LiveRids(c) : r <= q

LEMMA FirstFacts ==
    ASSUME NEW c, LiveRids(c) # {}
    PROVE  First(c) \in Rids /\ c.base[First(c)] # Gone /\ First(c) \in 0..MaxRid
           /\ \A q \in LiveRids(c) : First(c) <= q
<1>1. LiveRids(c) \subseteq Nat  BY RidFacts DEF LiveRids
<1>2. \E r \in LiveRids(c) : \A q \in LiveRids(c) : r <= q  BY <1>1, LeastNat
<1>3. First(c) \in LiveRids(c) /\ \A q \in LiveRids(c) : First(c) <= q
    <2> HIDE DEF LiveRids
    <2> QED  BY <1>2 DEF First
<1> HIDE DEF First
<1>4. First(c) \in Rids /\ c.base[First(c)] # Gone  BY <1>3 DEF LiveRids
<1>5. First(c) \in 0..MaxRid  BY <1>4, RidFacts DEF Rids
<1> QED  BY <1>3, <1>4, <1>5

StripJob(job, r) == [job EXCEPT !.phase = "strip", !.at = r]

LEMMA StateInstallColumn ==
    ASSUME StateInv, InstallColumn, vecs' = vecs
    PROVE  StateInv'
<1> DEFINE job == Head(jobs)
           current == coll.columned /\ coll.column.id = job.token
           k == Install(coll.column, job.column)
           n == WithColumn(coll, k)
           f == First(coll)
           nj == StripJob(job, f)
<1>1. CollOk(coll, written) /\ JobsTyped(jobs, coll) /\ coll \in Shape  BY DEF StateInv, CollOk
<1>2. jobs # <<>> /\ job.kind = "column"  BY DEF InstallColumn, Active
<1>3. n = [coll EXCEPT !.column = Install(@, job.column)]  BY DEF WithColumn
<1>4. IF current /\ LiveRids(coll) # {}
      THEN jobs' = [jobs EXCEPT ![1] = nj] /\ coll' = Stripped(n, f) /\ Framed
      ELSE jobs' = Tail(jobs) /\ coll' = (IF current THEN n ELSE coll) /\ Framed
    BY <1>3 DEF InstallColumn, Slice, End, Derive, Framed, First, StripJob
<1>5. job \in OwnJob  BY <1>1, <1>2, ActiveFacts DEF OwnKinds
<1> HIDE DEF job, current
<1>6. k \in ColumnType  BY <1>1, <1>5, InstallFacts DEF OwnJob, Shape
<1> HIDE DEF k
<1>7. CollOk(n, written) /\ n.dirtyBuild = coll.dirtyBuild /\ n.base = coll.base
    BY <1>1, <1>6, WithColumnOk
<1> HIDE DEF n
<1>8. CASE current /\ LiveRids(coll) # {}
    <2>1. f \in Rids /\ coll.base[f] # Gone /\ f \in 0..MaxRid  BY <1>8, FirstFacts
    <2> HIDE DEF f
    <2>2. nj \in OwnJob /\ nj.kind = job.kind  BY <1>5, <2>1 DEF StripJob, OwnJob, Phases
    <2> HIDE DEF nj
    <2>3. nj \in AnyJob  BY <2>2 DEF AnyJob
    <2>4. CollOk(Stripped(n, f), written) /\ Stripped(n, f).dirtyBuild = n.dirtyBuild
        BY <1>7, <2>1, StrippedOk
    <2>5. CollOk(coll', written) /\ coll'.dirtyBuild = coll.dirtyBuild /\ Framed
        BY <1>4, <1>7, <1>8, <2>4
    <2>6. JobsTyped([jobs EXCEPT ![1] = nj], coll')
        BY <1>1, <1>2, <2>2, <2>3, <2>5, SliceFacts DEF job
    <2>7. JobsTyped(jobs', coll')  BY <1>4, <1>8, <2>6
    <2> QED  BY <2>5, <2>7, StateStep
<1>9. CASE ~(current /\ LiveRids(coll) # {})
    <2>1. CollOk(coll', written) /\ coll'.dirtyBuild = coll.dirtyBuild /\ Framed /\ jobs' = Tail(jobs)
        BY <1>1, <1>4, <1>7, <1>9
    <2>2. JobsTyped(Tail(jobs), coll')  BY <1>1, <1>2, <2>1, EndFacts DEF job
    <2>3. JobsTyped(jobs', coll')  BY <2>1, <2>2
    <2> QED  BY <2>1, <2>3, StateStep
<1> QED  BY <1>8, <1>9

LEMMA StateStripColumn ==
    ASSUME StateInv, StripColumn, vecs' = vecs
    PROVE  StateInv'
<1> DEFINE r == NextRid
           job == [Head(jobs) EXCEPT !.at = r]
<1>1. CollOk(coll, written) /\ JobsTyped(jobs, coll) /\ coll \in Shape  BY DEF StateInv, CollOk
<1>2. jobs # <<>> /\ Head(jobs).kind = "column"  BY DEF StripColumn, Active
<1>3. Head(jobs) \in OwnJob  BY <1>1, <1>2, ActiveFacts DEF OwnKinds
<1>4. CASE Ahead = {}
    <2>1. jobs' = Tail(jobs) /\ coll' = coll /\ Framed
        BY <1>4 DEF StripColumn, End, Derive, Framed
    <2>2. JobsTyped(Tail(jobs), coll)  BY <1>1, <1>2, EndFacts
    <2>3. CollOk(coll', written) /\ JobsTyped(jobs', coll')  BY <1>1, <2>1, <2>2
    <2> QED  BY <2>1, <2>3, StateStep
<1>5. CASE Ahead # {}
    <2>1. jobs' = [jobs EXCEPT ![1] = job] /\ coll' = Stripped(coll, r) /\ Framed
        BY <1>5 DEF StripColumn, Slice, Derive, Framed
    <2>2. r \in Rids /\ coll.base[r] # Gone /\ r \in 0..MaxRid  BY <1>5, NextRidFacts
    <2> HIDE DEF r
    <2>3. job \in OwnJob /\ job.kind = Head(jobs).kind  BY <1>3, <2>2 DEF OwnJob
    <2> HIDE DEF job
    <2>4. job \in AnyJob  BY <2>3 DEF AnyJob
    <2>5. CollOk(coll', written) /\ coll'.dirtyBuild = coll.dirtyBuild
        BY <1>1, <2>1, <2>2, StrippedOk
    <2>6. JobsTyped([jobs EXCEPT ![1] = job], coll')  BY <1>1, <1>2, <2>3, <2>4, <2>5, SliceFacts
    <2>7. JobsTyped(jobs', coll')  BY <2>1, <2>6
    <2> QED  BY <2>1, <2>5, <2>7, StateStep
<1> QED  BY <1>4, <1>5

LEMMA StateFailColumn ==
    ASSUME StateInv, FailColumn, vecs' = vecs
    PROVE  StateInv'
<1> DEFINE current == coll.columned /\ coll.column.id = Head(jobs).token
<1>1. CollOk(coll, written) /\ JobsTyped(jobs, coll) /\ coll \in Shape  BY DEF StateInv, CollOk
<1>2. jobs # <<>> /\ Head(jobs).kind = "column"  BY DEF FailColumn, Active
<1>3. PICK k \in ColumnType :
         [coll EXCEPT !.column.status = "error", !.column.pending = EmptyColumn.pending]
            = WithColumn(coll, k)
    BY <1>1, FailedColumnFacts
<1>4. jobs' = Tail(jobs) /\ Framed /\ coll' = IF current THEN WithColumn(coll, k) ELSE coll
    BY <1>3 DEF FailColumn, End, Derive, Framed
<1> HIDE DEF current
<1>5. CollOk(WithColumn(coll, k), written) /\ WithColumn(coll, k).dirtyBuild = coll.dirtyBuild
    BY <1>1, WithColumnOk
<1>6. CollOk(coll', written) /\ coll'.dirtyBuild = coll.dirtyBuild  BY <1>1, <1>4, <1>5
<1>7. JobsTyped(Tail(jobs), coll')  BY <1>1, <1>2, <1>6, EndFacts
<1>8. JobsTyped(jobs', coll')  BY <1>4, <1>7
<1> QED  BY <1>4, <1>6, <1>8, StateStep

LEMMA OnceTail ==
    ASSUME NEW s \in Seq(Rids), s # <<>>, Once(s)
    PROVE  /\ Once(Tail(s)) /\ Head(s) \in Rids
           /\ \A r : r \in Range(Tail(s)) <=> r \in Range(s) /\ r # Head(s)
<1>1. /\ Len(s) \in Nat \ {0} /\ DOMAIN s = 1..Len(s) /\ Head(s) = s[1] /\ Head(s) \in Rids
      /\ Tail(s) \in Seq(Rids) /\ Len(Tail(s)) = Len(s) - 1
      /\ \A i \in 1..Len(Tail(s)) : Tail(s)[i] = s[i + 1]
    BY HeadTailProperties, LenProperties, EmptySeq
<1>2. DOMAIN Tail(s) = 1..Len(Tail(s))  BY <1>1, LenProperties
<1> DEFINE n == Len(s)
           t == Tail(s)
<1> HIDE DEF t
<1>3. \A i \in 1..Len(t) : i + 1 \in 1..n /\ i + 1 # 1 /\ t[i] = s[i + 1]  BY <1>1 DEF t
<1>4. \A i \in 1..n : i = 1 \/ (i - 1 \in 1..Len(t) /\ t[i - 1] = s[i])
    <2>1. \A i \in 1..n : i = 1 \/ (i - 1 \in 1..Len(t) /\ i - 1 + 1 = i)  BY <1>1 DEF t
    <2> QED  BY <1>3, <2>1
<1>5. Once(t)
    <2>1. \A i, j \in 1..Len(t) : i + 1 = j + 1 => i = j  BY <1>1 DEF t
    <2> QED  BY <1>3, <2>1 DEF Once
<1>6. \A r : r \in Range(t) => r \in Range(s) /\ r # Head(s)
    <2> TAKE r
    <2> HAVE r \in Range(t)
    <2>1. PICK i \in 1..Len(t) : t[i] = r  BY <1>2 DEF Range, t
    <2>2. s[i + 1] = r /\ i + 1 \in 1..n /\ i + 1 # 1 /\ 1 \in 1..n  BY <1>1, <1>3, <2>1
    <2>3. s[1] # r  BY <2>2 DEF Once
    <2> QED  BY <1>1, <2>2, <2>3 DEF Range
<1>7. \A r : r \in Range(s) /\ r # Head(s) => r \in Range(t)
    <2> TAKE r
    <2> HAVE r \in Range(s) /\ r # Head(s)
    <2>1. PICK i \in 1..n : s[i] = r  BY <1>1 DEF Range
    <2>2. i - 1 \in 1..Len(t) /\ t[i - 1] = r  BY <1>1, <1>4, <2>1
    <2> QED  BY <1>2, <2>2 DEF Range, t
<1> QED  BY <1>1, <1>5, <1>6, <1>7 DEF t

LEMMA RefreshedOk ==
    ASSUME NEW c, NEW w, CollOk(c, w), c.dirty # <<>>
    PROVE  LET n == RefreshedRid(c, Head(c.dirty))
           IN CollOk(n, w) /\ n.dirtyBuild = c.dirtyBuild /\ Head(c.dirty) \in Rids
<1> DEFINE r == Head(c.dirty)
           n == RefreshedRid(c, r)
           v == Hydrated(c, r)
<1>1. c \in Shape /\ Once(c.dirty) /\ c.dirty \in Seq(Rids)  BY DEF CollOk, Shape
<1>2. r \in Rids /\ Once(Tail(c.dirty))  BY <1>1, OnceTail
<1> HIDE DEF r
<1>3. /\ n \in Shape /\ Caught(c, n, r, v)
      /\ n.dirtyBuild = c.dirtyBuild /\ n.exists = c.exists /\ n.live = c.live
      /\ n.shard = c.shard /\ n.shardRids = c.shardRids /\ n.unsharded = c.unsharded
    BY <1>1, <1>2, RefreshedFacts
<1>4. v \in Cells /\ (v = Gone <=> c.base[r] = Gone)  BY <1>1, <1>2, HydratedType
<1> HIDE DEF n, v
<1>5. /\ n.base = [c.base EXCEPT ![r] = IF v = Gone THEN Gone ELSE BaseValue(c, v)]
      /\ n.dirty = Tail(c.dirty)
    BY <1>3 DEF Caught
<1>6. c.base \in [Rids -> Cells]  BY <1>1 DEF Shape
<1>7. v # Gone => BaseValue(c, v) # Gone  BY <1>4, BaseValueType, CellFacts
<1>8. \A q \in Rids : n.base[q] = Gone <=> c.base[q] = Gone
    <2> TAKE q \in Rids
    <2>1. q # r => n.base[q] = c.base[q]  BY <1>5, <1>6
    <2>2. n.base[r] = IF v = Gone THEN Gone ELSE BaseValue(c, v)  BY <1>2, <1>5, <1>6
    <2> QED  BY <1>4, <1>7, <2>1, <2>2
<1>9. Once(n.dirty) /\ (n.dirtyBuild => c.exists)  BY <1>2, <1>3, <1>5 DEF CollOk
<1>10. CollOk(n, w)  BY <1>3, <1>8, <1>9, CollFrame
<1> QED  BY <1>2, <1>3, <1>10 DEF n, r

LEMMA StateCatchup ==
    ASSUME StateInv, RunDirtyIndexCatchup, vecs' = vecs
    PROVE  StateInv'
<1> DEFINE job == [Head(jobs) EXCEPT !.phase = "settle"]
<1>1. CollOk(coll, written) /\ JobsTyped(jobs, coll) /\ coll \in Shape  BY DEF StateInv, CollOk
<1>2. jobs # <<>> /\ Head(jobs).kind = "dirty"  BY DEF RunDirtyIndexCatchup, Active
<1>3. Head(jobs) \in OwnJob  BY <1>1, <1>2, ActiveFacts DEF OwnKinds
<1>4. CASE coll.dirty # <<>>
    <2>1. jobs' = jobs /\ coll' = RefreshedRid(coll, Head(coll.dirty)) /\ Framed
        BY <1>4 DEF RunDirtyIndexCatchup, Derive, Framed
    <2>2. CollOk(coll', written) /\ coll'.dirtyBuild = coll.dirtyBuild
        BY <1>1, <1>4, <2>1, RefreshedOk
    <2>3. JobsTyped(jobs', coll')  BY <1>1, <2>1, <2>2 DEF JobsTyped
    <2> QED  BY <2>1, <2>2, <2>3, StateStep
<1>5. CASE coll.dirty = <<>>
    <2>1. jobs' = [jobs EXCEPT ![1] = job] /\ coll' = coll /\ Framed
        BY <1>5 DEF RunDirtyIndexCatchup, Slice, Derive, Framed
    <2>2. job \in OwnJob /\ job.kind = Head(jobs).kind  BY <1>3 DEF OwnJob, Phases
    <2> HIDE DEF job
    <2>3. job \in AnyJob  BY <2>2 DEF AnyJob
    <2>4. JobsTyped([jobs EXCEPT ![1] = job], coll)  BY <1>1, <1>2, <2>2, <2>3, SliceFacts
    <2>5. CollOk(coll', written) /\ JobsTyped(jobs', coll')  BY <1>1, <2>1, <2>4
    <2> QED  BY <2>1, <2>5, StateStep
<1> QED  BY <1>4, <1>5

LEMMA StateSettle ==
    ASSUME StateInv, SettleCatchup, vecs' = vecs
    PROVE  StateInv'
<1> DEFINE n == Settled(coll)
<1>1. CollOk(coll, written) /\ JobsTyped(jobs, coll) /\ coll \in Shape  BY DEF StateInv, CollOk
<1>2. jobs # <<>> /\ Head(jobs).kind = "dirty"  BY DEF SettleCatchup, Active
<1>3. coll' = n /\ jobs' = Tail(jobs) \o Rescheduled(coll) /\ Framed
    BY DEF SettleCatchup, Derive, Framed, Settled
<1>4. coll.exists
    <2>1. coll.dirtyBuild  BY <1>1, <1>2, ActiveFacts
    <2> QED  BY <1>1, <2>1 DEF CollOk
<1>5. /\ n \in Shape /\ SameRows(coll, n) /\ n.dirty = coll.dirty
      /\ n.dirtyBuild <=> coll.dirty # <<>>
    BY <1>1, SettledFacts
<1> HIDE DEF n
<1>6. CollOk(n, written)
    <2>1. Once(n.dirty) /\ (n.dirtyBuild => coll.exists)  BY <1>1, <1>4, <1>5 DEF CollOk
    <2> QED  BY <1>1, <1>5, <2>1, CollFrame DEF SameRows
<1>7. JobsTyped(Tail(jobs) \o Rescheduled(coll), n)
    <2> DEFINE t == Tail(jobs)
               job == Job("dirty", 0)
    <2>1. jobs \in Seq(AnyJob) /\ CatchupJobs(jobs, coll.dirtyBuild)  BY <1>1 DEF JobsTyped
    <2>2. t \in Seq(AnyJob) /\ CatchupJobs(t, FALSE)  BY <1>2, <2>1, TailJobs, TailCatchups
    <2>3. job \in AnyJob /\ job.kind = "dirty"  BY JobTypes, JobKinds DEF AnyJob, OwnKinds
    <2>4. Rescheduled(coll) = IF coll.dirty # <<>> THEN <<job>> ELSE <<>>  BY DEF Rescheduled
    <2> HIDE DEF t, job
    <2>5. CASE coll.dirty # <<>>
        <3> DEFINE more == <<job>>
        <3>1. more \in Seq(AnyJob) /\ Len(more) = 1 /\ more[1] = job  BY <2>3
        <3> HIDE DEF more
        <3>2. CatchupJobs(t \o more, TRUE)
            <4> DEFINE no == FALSE
            <4>1. CatchupJobs(t, no) /\ ~no  BY <2>2
            <4> HIDE DEF no
            <4> QED  BY <2>2, <2>3, <3>1, <4>1, MoreJobs
        <3>3. t \o more \in Seq(AnyJob)  BY <2>2, <3>1, ConcatProperties
        <3>4. n.dirtyBuild = TRUE  BY <1>5, <2>5 DEF Shape
        <3>5. Rescheduled(coll) = more  BY <2>4, <2>5 DEF more
        <3> QED  BY <3>2, <3>3, <3>4, <3>5 DEF JobsTyped, t
    <2>6. CASE coll.dirty = <<>>
        <3>1. Rescheduled(coll) = <<>> /\ t \o <<>> = t  BY <2>2, <2>4, <2>6, ConcatEmptySeq
        <3>2. n.dirtyBuild = FALSE  BY <1>5, <2>6 DEF Shape
        <3> QED  BY <2>2, <3>1, <3>2 DEF JobsTyped, t
    <2> QED  BY <2>5, <2>6
<1>8. CollOk(coll', written) /\ JobsTyped(jobs', coll')  BY <1>3, <1>6, <1>7
<1> QED  BY <1>3, <1>8, StateStep

LEMMA StateCancelled ==
    ASSUME StateInv, EndCancelled, vecs' = vecs
    PROVE  StateInv'
<1>1. CollOk(coll, written) /\ JobsTyped(jobs, coll)  BY DEF StateInv
<1>2. jobs # <<>> /\ Head(jobs).kind = "cancelled"  BY DEF EndCancelled, Active
<1>3. jobs' = Tail(jobs) /\ coll' = coll /\ Framed  BY DEF EndCancelled, End, Derive, Framed
<1>4. JobsTyped(Tail(jobs), coll)  BY <1>1, <1>2, EndFacts
<1>5. CollOk(coll', written) /\ JobsTyped(jobs', coll')  BY <1>1, <1>3, <1>4
<1> QED  BY <1>3, <1>5, StateStep

LEMMA StateJob ==
    ASSUME StateInv, RunJob, vecs' = vecs
    PROVE  StateInv'
BY StateScanField, StateInstallField, StateFailField, StateScanColumn, StateInstallColumn,
   StateStripColumn, StateFailColumn, StateCatchup, StateSettle, StateCancelled DEF RunJob

----------------------------------------------------------------------------
\* Vector jobs.

\* The entry of a key is replaced.
LEMMA EntryReplaced ==
    ASSUME NEW v, NEW w, VectorsOk(v, w), NEW k \in Keys, NEW e \in VectorEntry,
           e.status # "none",
           \A r \in Rids : /\ e.nodes[r] \in {NoVector, Held(v, k, r)}
                           /\ r \in e.visited => e.nodes[r] = Held(v, k, r)
                           /\ e.status = "ready" => e.nodes[r] = Held(v, k, r)
    PROVE  VectorsOk([v EXCEPT !.entries[k] = e], w)
<1> DEFINE es == [v.entries EXCEPT ![k] = e]
           n == [v EXCEPT !.entries = es]
<1>1. v \in VectorState  BY DEF VectorsOk
<1>2. /\ es \in [Keys -> VectorEntry] /\ es[k] = e
      /\ \A q \in Keys : q # k => es[q] = v.entries[q]
    BY <1>1 DEF VectorState
<1> HIDE DEF es
<1>3. n \in VectorState /\ n.entries = es /\ n.stored = v.stored /\ n.placement = v.placement
    BY <1>1, <1>2 DEF VectorState
<1>4. [v EXCEPT !.entries[k] = e] = n  BY DEF es
<1> HIDE DEF n
<1>5. EntryOk(n, k)
    <2>1. n.entries[k] = e /\ \A r \in Rids : Held(n, k, r) = Held(v, k, r)  BY <1>2, <1>3 DEF Held
    <2> QED  BY <2>1 DEF EntryOk
<1>6. \A q \in Keys : EntryOk(n, q)
    <2> TAKE q \in Keys
    <2>1. CASE q = k  BY <1>5, <2>1
    <2>2. CASE q # k
        <3>1. n.entries[q] = v.entries[q] /\ EntryOk(v, q)  BY <1>2, <1>3, <2>2 DEF VectorsOk
        <3> QED  BY <1>3, <3>1, EntryFrame
    <2> QED  BY <2>1, <2>2
<1>7. VectorsOk(n, w)  BY <1>3, <1>6 DEF VectorsOk
<1> QED  BY <1>4, <1>7

LEMMA TokenFacts ==
    ASSUME StateInv, Active("vector")
    PROVE  LET token == Head(jobs).token
               e == vecs.entries[token.key]
           IN /\ jobs # <<>> /\ Head(jobs).kind = "vector"
              /\ token.key \in Keys /\ token.id \in Nat \ {0}
              /\ e \in VectorEntry /\ EntryOk(vecs, token.key)
              /\ CurrentEntry(token) => e.status # "none"
<1> DEFINE token == Head(jobs).token
           e == vecs.entries[token.key]
<1>1. jobs # <<>> /\ Head(jobs).kind = "vector"  BY DEF Active
<1>2. JobsTyped(jobs, coll) /\ VectorsOk(vecs, written)  BY DEF StateInv
<1>3. Head(jobs) \in VectorJob  BY <1>1, <1>2, ActiveFacts
<1>4. token.key \in Keys /\ token.id \in Nat \ {0}  BY <1>3 DEF VectorJob, Token
<1>5. e \in VectorEntry /\ EntryOk(vecs, token.key)
    BY <1>2, <1>4 DEF VectorsOk, VectorState
<1> HIDE DEF token
<1>6. CurrentEntry(token) => e.status # "none"
    <2>1. NoEntry.id = 0  BY DEF NoEntry
    <2>2. CurrentEntry(token) => e # NoEntry  BY <1>4, <2>1 DEF CurrentEntry
    <2> HIDE DEF e
    <2>3. e.status = "none" => e = NoEntry  BY <1>5 DEF EntryOk, e
    <2> QED  BY <2>2, <2>3
<1> QED  BY <1>1, <1>4, <1>5, <1>6 DEF token

LEMMA StateScanVector ==
    ASSUME StateInv, ScanVector
    PROVE  StateInv'
<1> DEFINE k == Head(jobs).token.key
           e == vecs.entries[k]
<1>1. JobsTyped(jobs, coll) /\ VectorsOk(vecs, written)  BY DEF StateInv
<1>2. Active("vector") /\ CurrentEntry(Head(jobs).token)  BY DEF ScanVector
<1>3. k \in Keys /\ e \in VectorEntry /\ EntryOk(vecs, k) /\ e.status # "none"
    BY ZenonT(20), <1>2, TokenFacts
<1>4. PICK r \in VectorRids(vecs) \ e.visited :
         vecs' = [vecs EXCEPT !.entries[k] =
            [e EXCEPT !.visited = @ \cup {r},
                !.nodes[r] = IF vecs.placement[r] \in k THEN vecs.stored[r] ELSE @]]
    BY DEF ScanVector
<1>5. r \in Rids /\ vecs.stored \in [Rids -> Nat]  BY <1>1, <1>4 DEF VectorRids, VectorsOk, VectorState
<1> DEFINE x == IF vecs.placement[r] \in k THEN vecs.stored[r] ELSE e.nodes[r]
           vis == e.visited \cup {r}
           ns == [e.nodes EXCEPT ![r] = x]
           n == [e EXCEPT !.visited = vis, !.nodes = ns]
<1>6. jobs' = jobs /\ coll' = coll /\ scenario' = scenario /\ written' = written
    BY DEF ScanVector, Derive
<1>7. vecs' = [vecs EXCEPT !.entries[k] = n]  BY <1>4
<1> HIDE DEF e, k
<1>8. x = Held(vecs, k, r) /\ x \in Nat
    <2>1. e.nodes[r] \in {NoVector, Held(vecs, k, r)} /\ e.nodes[r] \in Nat
        BY <1>3, <1>5 DEF EntryOk, VectorEntry, e
    <2> QED  BY <1>5, <2>1 DEF Held, NoVector
<1> HIDE DEF x
<1>9. ns \in [Rids -> Nat] /\ ns[r] = x /\ \A q \in Rids : q # r => ns[q] = e.nodes[q]
    BY <1>3, <1>5, <1>8 DEF VectorEntry
<1>10. vis \in SUBSET Rids /\ \A q \in Rids : q \in vis => q \in e.visited \/ q = r
    BY <1>3, <1>5 DEF VectorEntry
<1> HIDE DEF ns, vis
<1>11. n \in VectorEntry /\ n.status = e.status /\ n.visited = vis /\ n.nodes = ns
    BY <1>3, <1>9, <1>10 DEF VectorEntry
<1> HIDE DEF n
<1>12. \A q \in Rids : /\ n.nodes[q] \in {NoVector, Held(vecs, k, q)}
                       /\ q \in n.visited => n.nodes[q] = Held(vecs, k, q)
                       /\ n.status = "ready" => n.nodes[q] = Held(vecs, k, q)
    <2> TAKE q \in Rids
    <2>1. CASE q = r  BY <1>8, <1>9, <1>11, <2>1
    <2>2. CASE q # r
        <3>1. n.nodes[q] = e.nodes[q] /\ (q \in n.visited => q \in e.visited)
            BY <1>9, <1>10, <1>11, <2>2
        <3>2. /\ e.nodes[q] \in {NoVector, Held(vecs, k, q)}
              /\ q \in e.visited => e.nodes[q] = Held(vecs, k, q)
              /\ e.status = "ready" => e.nodes[q] = Held(vecs, k, q)
            BY <1>3 DEF EntryOk, e
        <3> QED  BY <1>11, <3>1, <3>2
    <2> QED  BY <2>1, <2>2
<1>13. VectorsOk([vecs EXCEPT !.entries[k] = n], written)
    BY <1>1, <1>3, <1>11, <1>12, EntryReplaced
<1> QED  BY <1>6, <1>7, <1>13 DEF StateInv

LEMMA StateReadyVector ==
    ASSUME StateInv, ReadyVector
    PROVE  StateInv'
<1> DEFINE k == Head(jobs).token.key
           e == vecs.entries[k]
           n == [e EXCEPT !.status = "ready", !.visited = {}]
<1>1. CollOk(coll, written) /\ JobsTyped(jobs, coll) /\ VectorsOk(vecs, written)  BY DEF StateInv
<1>2. Active("vector") /\ CurrentEntry(Head(jobs).token)  BY DEF ReadyVector
<1>3. /\ k \in Keys /\ e \in VectorEntry /\ EntryOk(vecs, k)
      /\ jobs # <<>> /\ Head(jobs).kind = "vector"
    BY <1>2, TokenFacts
<1>4. VectorRids(vecs) \subseteq e.visited  BY DEF ReadyVector
<1>5. vecs' = [vecs EXCEPT !.entries[k].status = "ready", !.entries[k].visited = {}]
    BY DEF ReadyVector
<1>6. vecs' = [vecs EXCEPT !.entries[k] = n]
    <2>1. vecs \in VectorState  BY <1>1 DEF VectorsOk
    <2> HIDE DEF k
    <2> QED  BY <1>3, <1>5, <2>1 DEF VectorState
<1>7. jobs' = Tail(jobs) /\ coll' = coll /\ scenario' = scenario /\ written' = written
    BY DEF ReadyVector, End, Derive
<1> HIDE DEF e, k
<1>8. n \in VectorEntry /\ n.status = "ready" /\ n.visited = {} /\ n.nodes = e.nodes
    BY <1>3 DEF VectorEntry
<1> HIDE DEF n
<1>9. \A q \in Rids : n.nodes[q] = Held(vecs, k, q)
    <2> TAKE q \in Rids
    <2>1. /\ e.nodes[q] \in {NoVector, Held(vecs, k, q)}
          /\ q \in e.visited => e.nodes[q] = Held(vecs, k, q)
        BY <1>3 DEF EntryOk, e
    <2>2. CASE vecs.stored[q] = NoVector  BY <1>8, <2>1, <2>2 DEF Held
    <2>3. CASE vecs.stored[q] # NoVector
        <3>1. q \in e.visited  BY <1>4, <2>3 DEF VectorRids
        <3> QED  BY <1>8, <2>1, <3>1
    <2> QED  BY <2>2, <2>3
<1>10. VectorsOk([vecs EXCEPT !.entries[k] = n], written)
    BY <1>1, <1>3, <1>8, <1>9, EntryReplaced
<1>11. JobsTyped(Tail(jobs), coll)  BY <1>1, <1>3, EndFacts
<1> QED  BY <1>1, <1>6, <1>7, <1>10, <1>11 DEF StateInv

LEMMA StateStaleVector ==
    ASSUME StateInv, EndStaleVector
    PROVE  StateInv'
<1>1. CollOk(coll, written) /\ JobsTyped(jobs, coll)  BY DEF StateInv
<1>2. jobs # <<>> /\ Head(jobs).kind = "vector"  BY DEF EndStaleVector, Active
<1>3. jobs' = Tail(jobs) /\ coll' = coll /\ Framed  BY DEF EndStaleVector, End, Derive, Framed
<1>4. JobsTyped(Tail(jobs), coll)  BY <1>1, <1>2, EndFacts
<1>5. CollOk(coll', written) /\ JobsTyped(jobs', coll')  BY <1>1, <1>3, <1>4
<1> QED  BY <1>3, <1>5, StateStep

LEMMA StateNext == StateInv /\ [CollectionNext]_collectionVars => StateInv'
<1> SUFFICES ASSUME StateInv, [CollectionNext]_collectionVars PROVE StateInv'  OBVIOUS
<1>1. CASE \E rows \in Batches, size \in scenario.sizes : PutRows(rows, size)
    BY <1>1, StatePut
<1>2. CASE \E r \in Rids, size \in scenario.sizes : DeleteRows(<<r>>, size)
    BY <1>2, StateDelete
<1>3. CASE \E meta \in scenario.metas : SetMeta(meta) /\ UNCHANGED vecs
    BY <1>3, StateSetMeta
<1>4. CASE Warmup  BY <1>4, StateWarmup
<1>5. CASE WarmVectorIndexes  BY <1>5, StateWarmVectors
<1>6. CASE \E k \in scenario.searches : VectorSearch(k)  BY <1>6, StateSearch
<1>7. CASE \E placement \in scenario.placements : ReplaceShardMap(placement)
    BY <1>7, StateReplace
<1>8. CASE Drop  BY <1>8, StateDrop
<1>9. CASE RunAnyJob
    <2>1. CASE RunJob /\ UNCHANGED vecs  BY <2>1, StateJob
    <2>2. CASE RunVectorJob
        BY <2>2, StateScanVector, StateReadyVector, StateStaleVector DEF RunVectorJob
    <2> QED  BY <1>9, <2>1, <2>2 DEF RunAnyJob
<1>10. CASE UNCHANGED collectionVars
    BY <1>10 DEF collectionVars, vars, StateInv
<1> QED
    BY <1>1, <1>2, <1>3, <1>4, <1>5, <1>6, <1>7, <1>8, <1>9, <1>10 DEF CollectionNext

\* In every scenario, whatever order puts, deletes, metadata changes, warm-ups, jobs,
\* shard map changes and drops come in: the state has its types, a row exists when it
\* was written, each shard lists its rows, each dirty row waits in one catch-up, and a
\* ready vector index holds the stored vectors (putObjects, deleteObjects,
\* DerivedStateScheduler).
THEOREM CollectionState == Spec => []StateInv
BY StateInit, StateNext, PTL DEF Spec

----------------------------------------------------------------------------
LEMMA RowCount ==
    ASSUME NEW S, S \subseteq Rids
    PROVE  Cardinality(S) \in 0..MaxRid
<1>1. MaxRid \in Nat /\ Rids = 1..MaxRid /\ IsFiniteSet(Rids)  BY RidFacts DEF Rids
<1>2. Cardinality(Rids) = MaxRid
    <2>1. MaxRid >= 1 => Cardinality(1..MaxRid) = MaxRid - 1 + 1  BY <1>1, FS_Interval
    <2>2. ~(MaxRid >= 1) => 1..MaxRid = {} /\ MaxRid = 0  BY <1>1
    <2> QED  BY <1>1, <2>1, <2>2, FS_Interval, FS_EmptySet
<1>3. Cardinality(S) <= Cardinality(Rids) /\ IsFiniteSet(S)  BY <1>1, FS_Subset
<1>4. Cardinality(S) \in Nat  BY <1>3, FS_CardinalityType
<1> QED  BY <1>1, <1>2, <1>3, <1>4

LEMMA OnceCount ==
    ASSUME NEW s \in Seq(Rids), Once(s)
    PROVE  Range(s) \subseteq Rids /\ Len(s) = Cardinality(Range(s))
<1>1. Len(s) \in Nat /\ DOMAIN s = 1..Len(s) /\ \A i \in 1..Len(s) : s[i] \in Rids
    BY LenProperties, ElementOfSeq
<1>2. s \in [1..Len(s) -> Range(s)]
    <2>1. s \in [1..Len(s) -> Rids]  BY LenProperties, SeqDef
    <2> QED  BY <1>1, <2>1 DEF Range
<1>3. s \in Bijection(1..Len(s), Range(s))
    BY <1>1, <1>2 DEF Once, Bijection, Injection, Surjection, IsInjective, Range
<1>4. ExistsBijection(1..Len(s), Range(s))  BY <1>3 DEF ExistsBijection
<1>5. Cardinality(Range(s)) = Len(s)
    <2> DEFINE n == Len(s)
    <2> HIDE DEF n
    <2>1. n \in Nat /\ ExistsBijection(1..n, Range(s))  BY <1>1, <1>4 DEF n
    <2> QED  BY <2>1, FS_CountingElements DEF n
<1>6. Range(s) \subseteq Rids  BY <1>1 DEF Range
<1> QED  BY <1>5, <1>6

LEMMA OneDirty ==
    ASSUME NEW js \in Seq(AnyJob), NEW due \in BOOLEAN, CatchupJobs(js, due)
    PROVE  LET S == {i \in DOMAIN js : js[i].kind = "dirty"}
           IN Cardinality(S) <= 1 /\ (due <=> \E i \in DOMAIN js : js[i].kind = "dirty")
<1> DEFINE S == {i \in DOMAIN js : js[i].kind = "dirty"}
<1>1. DOMAIN js = 1..Len(js)  BY LenProperties
<1>2. \A i, j \in S : i = j  BY <1>1 DEF CatchupJobs
<1>3. Cardinality(S) <= 1
    <2> HIDE DEF S
    <2>1. CASE S = {}
        <3>1. Cardinality(S) = 0  BY <2>1, FS_EmptySet
        <3> QED  BY <3>1
    <2>2. CASE S # {}
        <3>1. PICK i : i \in S  BY <2>2
        <3>2. S = {i}  BY <1>2, <3>1
        <3>3. Cardinality(S) = 1  BY <3>2, FS_Singleton
        <3> QED  BY <3>3
    <2> QED  BY <2>1, <2>2
<1>4. due <=> \E i \in DOMAIN js : js[i].kind = "dirty"  BY <1>1 DEF CatchupJobs
<1> QED  BY <1>3, <1>4

\* Rows, index, column, dirty list and jobs keep their types, the count of live rows is
\* right, no row is dirty twice and dirty rows have exactly one catch-up in the queue
\* (_markIndexDirty, _scheduleDirtyIndexCatchup).
THEOREM StateIsTyped == Spec => []TypeOK
<1>1. StateInv => TypeOK
    <2> SUFFICES ASSUME StateInv PROVE TypeOK  OBVIOUS
    <2>1. /\ written \in [Rids -> Cells] /\ coll \in Shape /\ Scoped(coll) /\ Once(coll.dirty)
          /\ jobs \in Seq(AnyJob) /\ CatchupJobs(jobs, coll.dirtyBuild)
        BY DEF StateInv, CollOk, JobsTyped
    <2>2. /\ coll.base \in [Rids -> Cells] /\ coll.index \in IndexType /\ coll.column \in ColumnType
          /\ coll.dirty \in Seq(Rids) /\ coll.dirtyBuild \in BOOLEAN
        BY <2>1 DEF Shape
    <2>3. coll.index.entries \subseteq Rids \X Fields /\ coll.index.forward \in [Rids -> Cells]
        BY <2>2 DEF IndexType
    <2>4. /\ coll.column.vals \in [Rids -> Fields]
          /\ coll.column.pending \in [Rids -> Fields \cup {Untouched}]
        BY <2>2 DEF ColumnType
    <2>5. coll.live \in 0..MaxRid
        <3>1. {r \in Rids : coll.base[r] # Gone} \subseteq Rids  OBVIOUS
        <3>2. Cardinality({r \in Rids : coll.base[r] # Gone}) \in 0..MaxRid  BY <3>1, RowCount
        <3> QED  BY <2>1, <3>2 DEF Scoped
    <2>6. Dirty(coll) \subseteq Rids /\ Len(coll.dirty) = Cardinality(Dirty(coll))
        BY <2>1, <2>2, OnceCount DEF Dirty
    <2>7. /\ Cardinality({i \in DOMAIN jobs : jobs[i].kind = "dirty"}) <= 1
          /\ coll.dirtyBuild <=> \E i \in DOMAIN jobs : jobs[i].kind = "dirty"
        BY <2>1, <2>2, OneDirty
    <2> QED  BY <2>1, <2>2, <2>3, <2>4, <2>5, <2>6, <2>7 DEF TypeOK
<1> QED  BY <1>1, CollectionState, PTL

\* The rids of a set of shards are the written rows of these shards, and the rows without
\* a shard and the live count are right, after any puts, moves, deletes and drops
\* (_addShardRid, idsForShards).
THEOREM ScopesHold == Spec => []ScopesMatchRows
<1>1. StateInv => ScopesMatchRows
    <2> SUFFICES ASSUME StateInv PROVE ScopesMatchRows  OBVIOUS
    <2>1. coll \in Shape /\ Scoped(coll) /\ Present(coll, written)  BY DEF StateInv, CollOk
    <2>2. \A r \in Rids : r \in WrittenRids <=> coll.base[r] # Gone
        BY <2>1 DEF Present, WrittenRids
    <2>3. WrittenRids = {r \in Rids : coll.base[r] # Gone}  BY <2>2 DEF WrittenRids
    <2>4. {r \in WrittenRids : coll.shard[r] = NoShard}
            = {r \in Rids : coll.base[r] # Gone /\ coll.shard[r] = NoShard}
        BY <2>3
    <2>5. \A shards \in SUBSET Shards :
             IdsForShards(coll, shards) = {r \in WrittenRids : coll.shard[r] \in shards}
        <3> TAKE shards \in SUBSET Shards
        <3>1. \A s \in shards : coll.shardRids[s] = {r \in Rids : coll.base[r] # Gone /\ coll.shard[r] = s}
            BY <2>1 DEF Scoped
        <3> HIDE DEF WrittenRids
        <3>2. \A r : r \in UNION {coll.shardRids[s] : s \in shards}
                       <=> r \in WrittenRids /\ coll.shard[r] \in shards
            BY <2>3, <3>1
        <3> QED  BY <3>2 DEF IdsForShards
    <2> HIDE DEF WrittenRids
    <2> QED  BY <2>1, <2>3, <2>4, <2>5 DEF ScopesMatchRows, Scoped
<1> QED  BY <1>1, CollectionState, PTL

\* A vector index that may be searched has the vector last stored of every row of its
\* shards and of no other, however writes, deletes, searches, shard map changes and the
\* steps of its build interleave (_applyVectorUpdate, _runVectorIndexBuild).
THEOREM VectorSearchesHold == Spec => []VectorSearchesMatchWrites
<1>1. StateInv => VectorSearchesMatchWrites
    <2> SUFFICES ASSUME StateInv PROVE VectorSearchesMatchWrites  OBVIOUS
    <2>1. VectorsOk(vecs, written)  BY DEF StateInv
    <2>2. \A r \in VectorRids(vecs) : written[r] # Gone  BY <2>1 DEF VectorsOk, VectorRids
    <2>3. ASSUME NEW k \in Keys, vecs.entries[k].status = "ready"
          PROVE  vecs.entries[k].nodes =
                     [r \in Rids |-> IF vecs.placement[r] \in k THEN vecs.stored[r] ELSE NoVector]
        <3>1. vecs.entries[k].nodes \in [Rids -> Nat]  BY <2>1 DEF VectorsOk, VectorState, VectorEntry
        <3>2. \A r \in Rids : vecs.entries[k].nodes[r] = Held(vecs, k, r)
            BY <2>1, <2>3 DEF VectorsOk, EntryOk
        <3> QED  BY <3>1, <3>2 DEF Held
    <2> QED  BY <2>2, <2>3 DEF VectorSearchesMatchWrites
<1> QED  BY <1>1, CollectionState, PTL

----------------------------------------------------------------------------
\* What holds in a regular scenario.

\* The two maps of an index say the same.
Paired(ix) == \A r \in Rids, v \in Fields : <<r, v>> \in ix.entries <=> ix.forward[r] = v

\* An index has what was written, but for the rows that wait for the catch-up.
IndexMatches(c, w) ==
    c.indexed => Paired(c.index) /\ \A r \in Rids \ Dirty(c) : c.index.forward[r] = w[r]

\* A column has the field of a row, which may be in the stored row as well; after a
\* build that failed only the stored row may have it.
Split(c, w, r) == c.column.vals[r] = ColumnState(w[r]) /\ c.base[r] \in {w[r], Absent}
Unread(c, w, r) == c.column.status = "error" /\ c.column.vals[r] = Absent /\ c.base[r] = w[r]

RowMatches(c, w, r) ==
    /\ r \in Dirty(c) \/ ~c.columned \/ Building(c) => c.base[r] = w[r]
    /\ Building(c) => /\ c.column.vals[r] = Absent
                      /\ c.column.pending[r] \in {Untouched, ColumnState(w[r])}
    /\ c.columned /\ ~Building(c) /\ r \notin Dirty(c) => Split(c, w, r) \/ Unread(c, w, r)

RowsMatch(c, w) == \A r \in Rids : RowMatches(c, w, r)

\* What a build has of a row: what was written when it was scanned, or what it was
\* before a change that is to be replayed.
FieldRowOk(job, c, w, r) ==
    LET p == c.build.pending[r]
    IN /\ r > job.at => job.index.forward[r] = Gone
       /\ p = NoChange /\ r <= job.at => job.index.forward[r] = w[r]
       /\ p # NoChange => p.after = w[r] /\ job.index.forward[r] \in {Gone, p.before, p.after}

FieldJobOk(job, c, w) ==
    Paired(job.index) /\ \A r \in Rids : FieldRowOk(job, c, w, r)

ColumnRowOk(job, c, w, r) ==
    c.column.pending[r] = Untouched =>
        job.column.vals[r] = IF r <= job.at THEN ColumnState(w[r]) ELSE Absent

ColumnJobOk(job, c, w) ==
    /\ Building(c) /\ job.column.status = "ready"
    /\ \A r \in Rids : ColumnRowOk(job, c, w, r)

JobOk(job, c, w) ==
    /\ job.kind = "index" =>
          /\ job.token <= c.tokens
          /\ c.build.status = "building" /\ c.build.token = job.token => FieldJobOk(job, c, w)
    /\ job.kind = "column" =>
          /\ c.columned /\ job.token <= c.column.id
          /\ job.phase = "scan" /\ job.token = c.column.id => ColumnJobOk(job, c, w)
          /\ job.phase = "strip" => Ready(c)

\* One build of a column at a time is current, and only the active job strips rows.
ColumnJobs(js) ==
    /\ \A i \in 1..Len(js) : js[i].kind = "column" /\ i # 1 => js[i].phase = "scan"
    /\ \A i, j \in 1..Len(js) :
          js[i].kind = "column" /\ js[j].kind = "column" /\ js[i].token = js[j].token => i = j

JobsOk(js, c, w) ==
    /\ \A i \in 1..Len(js) : JobOk(js[i], c, w)
    /\ ColumnJobs(js)
    /\ ~c.exists => \A i \in 1..Len(js) : js[i].kind = "cancelled"

NoMeta == [index |-> FALSE, column |-> FALSE]

MetaOk(sc, c) ==
    /\ c.meta \in {NoMeta} \cup sc.metas \/ (sc.start # "empty" /\ c.meta = sc.meta)
    /\ c.indexed \/ c.build.status # "none" => c.meta.index
    /\ c.columned => c.meta.column
    /\ ~c.columned => c.column = EmptyColumn
    /\ sc.start = "ready" /\ sc.meta.column /\ c.exists => c.columned

BuildOk(sc, c) ==
    /\ c.build.status = "building" => sc.start = "restored"
    /\ c.indexBuildPending => sc.start = "restored" /\ c.exists /\ ~c.columned
    /\ LateColumn(sc) => c.dirty = <<>>
    /\ ~LateColumn(sc) => (c.columned => Ready(c))
    /\ c.columned /\ LateColumn(sc) /\ "fails" \in sc.may => \A m \in sc.metas : m = c.meta
    /\ c.column.status = "error" => "fails" \in sc.may

NoColumnJobs(sc, js) == ~LateColumn(sc) => \A i \in 1..Len(js) : js[i].kind # "column"

Matches(sc, c, js, w) ==
    /\ IndexMatches(c, w) /\ RowsMatch(c, w) /\ JobsOk(js, c, w)
    /\ MetaOk(sc, c) /\ BuildOk(sc, c) /\ NoColumnJobs(sc, js)

MatchInv == Matches(scenario, coll, jobs, written)

----------------------------------------------------------------------------
\* An index whose two maps agree stays so.

LEMMA AddedPaired ==
    ASSUME NEW ix \in IndexType, Paired(ix), NEW r \in Rids, NEW v \in Fields,
           ix.forward[r] \in {Gone, v}
    PROVE  LET n == AddValue(ix, r, v)
           IN Paired(n) /\ n.forward[r] = v /\ \A q \in Rids : q # r => n.forward[q] = ix.forward[q]
<1> DEFINE n == AddValue(ix, r, v)
<1>1. n.entries = ix.entries \cup {<<r, v>>} /\ n.forward = [ix.forward EXCEPT ![r] = v]
    BY DEF AddValue
<1>2. ix.forward \in [Rids -> Cells] /\ v # Gone  BY CellFacts DEF IndexType
<1>3. n.forward[r] = v /\ \A q \in Rids : q # r => n.forward[q] = ix.forward[q]  BY <1>1, <1>2
<1>4. \A q \in Rids : \A u : <<q, u>> \in n.entries <=> <<q, u>> \in ix.entries \/ (q = r /\ u = v)
    BY <1>1
<1> HIDE DEF n
<1>5. \A q \in Rids, u \in Fields : <<q, u>> \in ix.entries <=> ix.forward[q] = u  BY DEF Paired
<1>6. ASSUME NEW q \in Rids, NEW u \in Fields
      PROVE  <<q, u>> \in n.entries <=> n.forward[q] = u
    <2>1. u # Gone  BY CellFacts
    <2>2. CASE q = r  BY <1>3, <1>4, <1>5, <2>1, <2>2
    <2>3. CASE q # r  BY <1>3, <1>4, <1>5, <2>3
    <2> QED  BY <2>2, <2>3
<1>7. Paired(n)  BY <1>6 DEF Paired
<1> QED  BY <1>3, <1>7 DEF n

LEMMA RemovedPaired ==
    ASSUME NEW ix \in IndexType, Paired(ix), NEW r \in Rids, NEW v, ix.forward[r] = v, v # Gone
    PROVE  LET n == RemoveValue(ix, r, v)
           IN Paired(n) /\ n.forward[r] = Gone /\ \A q \in Rids : q # r => n.forward[q] = ix.forward[q]
<1> DEFINE n == RemoveValue(ix, r, v)
<1>1. n.entries = ix.entries \ {<<r, v>>} /\ n.forward = [ix.forward EXCEPT ![r] = Gone]
    BY DEF RemoveValue
<1>2. ix.forward \in [Rids -> Cells]  BY DEF IndexType
<1>3. n.forward[r] = Gone /\ \A q \in Rids : q # r => n.forward[q] = ix.forward[q]  BY <1>1, <1>2
<1>4. \A q \in Rids : \A u : <<q, u>> \in n.entries <=> <<q, u>> \in ix.entries /\ ~(q = r /\ u = v)
    BY <1>1
<1> HIDE DEF n
<1>5. \A q \in Rids, u \in Fields : <<q, u>> \in ix.entries <=> ix.forward[q] = u  BY DEF Paired
<1>6. ASSUME NEW q \in Rids, NEW u \in Fields
      PROVE  <<q, u>> \in n.entries <=> n.forward[q] = u
    <2>1. u # Gone  BY CellFacts
    <2>2. CASE q = r  BY <1>3, <1>4, <1>5, <2>1, <2>2
    <2>3. CASE q # r  BY <1>3, <1>4, <1>5, <2>3
    <2> QED  BY <2>2, <2>3
<1>7. Paired(n)  BY <1>6 DEF Paired
<1> QED  BY <1>3, <1>7 DEF n

LEMMA EmptyPaired == Paired(EmptyIndex) /\ \A r \in Rids : EmptyIndex.forward[r] = Gone
<1>1. EmptyIndex.entries = {} /\ EmptyIndex.forward = [r \in Rids |-> Gone]  BY DEF EmptyIndex
<1>2. \A r \in Rids : EmptyIndex.forward[r] = Gone  BY <1>1
<1> QED  BY <1>1, <1>2, CellFacts DEF Paired

\* A change moves a row that has its old value, its new one or none yet.
LEMMA MovedPaired ==
    ASSUME NEW ix \in IndexType, Paired(ix), NEW r \in Rids, NEW before \in Cells, NEW after \in Cells,
           ix.forward[r] \in {Gone, before, after}
    PROVE  LET n == Moved(ix, r, before, after)
           IN Paired(n) /\ n.forward[r] = after /\ \A q \in Rids : q # r => n.forward[q] = ix.forward[q]
<1> DEFINE left == IF before = Gone THEN ix ELSE RemoveValue(ix, r, before)
           n == Moved(ix, r, before, after)
<1>1. n = IF after = Gone THEN left ELSE AddValue(left, r, after)  BY DEF Moved
<1>2. CASE before = Gone \/ ix.forward[r] = before
    <2>1. /\ left \in IndexType /\ Paired(left) /\ left.forward[r] \in {Gone, after}
          /\ \A q \in Rids : q # r => left.forward[q] = ix.forward[q]
          /\ after = Gone => left.forward[r] = Gone
        <3>1. CASE before = Gone
            <4>1. left = ix  BY <3>1
            <4> QED  BY <3>1, <4>1
        <3>2. CASE before # Gone
            <4>1. left = RemoveValue(ix, r, before) /\ ix.forward[r] = before  BY <1>2, <3>2
            <4> HIDE DEF left
            <4>2. left \in IndexType  BY <4>1, RemoveValueType
            <4>3. /\ Paired(left) /\ left.forward[r] = Gone
                  /\ \A q \in Rids : q # r => left.forward[q] = ix.forward[q]
                BY <3>2, <4>1, RemovedPaired
            <4> QED  BY <4>2, <4>3
        <3> QED  BY <3>1, <3>2
    <2> HIDE DEF left, n
    <2>2. CASE after = Gone
        <3>1. n = left  BY <1>1, <2>2
        <3> QED  BY <2>1, <2>2, <3>1 DEF n
    <2>3. CASE after # Gone
        <3>1. n = AddValue(left, r, after) /\ after \in Fields  BY <1>1, <2>3, CellFacts
        <3>2. /\ Paired(n) /\ n.forward[r] = after
              /\ \A q \in Rids : q # r => n.forward[q] = left.forward[q]
            BY <2>1, <3>1, AddedPaired
        <3> QED  BY <2>1, <3>2 DEF n
    <2> QED  BY <2>2, <2>3
<1>3. CASE before # Gone /\ ix.forward[r] # before /\ ix.forward[r] = Gone
    <2> DEFINE e == {<<r, before>>}
    <2>1. left.entries = ix.entries \ e /\ left.forward = [ix.forward EXCEPT ![r] = Gone]
        BY <1>3 DEF RemoveValue
    <2>2. before \in Fields /\ <<r, before>> \notin ix.entries  BY <1>3, CellFacts DEF Paired
    <2>3. left.entries = ix.entries  BY <2>1, <2>2
    <2>4. ix.forward \in [Rids -> Cells]  BY DEF IndexType
    <2>5. \A q \in Rids : left.forward[q] = ix.forward[q]  BY <1>3, <2>1, <2>4
    <2>6. left \in IndexType
        <3>1. left = RemoveValue(ix, r, before)  BY <1>3
        <3> QED  BY <3>1, RemoveValueType
    <2>7. Paired(left)
        <3> HIDE DEF left
        <3> QED  BY <2>3, <2>5 DEF Paired
    <2> HIDE DEF left, n
    <2>8. CASE after = Gone
        <3>1. n = left  BY <1>1, <2>8
        <3> QED  BY <1>3, <2>5, <2>7, <2>8, <3>1 DEF n
    <2>9. CASE after # Gone
        <3>1. n = AddValue(left, r, after) /\ after \in Fields  BY <1>1, <2>9, CellFacts
        <3>2. left.forward[r] = Gone  BY <1>3, <2>5
        <3>3. /\ Paired(n) /\ n.forward[r] = after
              /\ \A q \in Rids : q # r => n.forward[q] = left.forward[q]
            BY <2>6, <2>7, <3>1, <3>2, AddedPaired
        <3> QED  BY <2>5, <3>3 DEF n
    <2> QED  BY <2>8, <2>9
<1>4. CASE before # Gone /\ ix.forward[r] # before /\ ix.forward[r] # Gone
    <2>1. ix.forward[r] = after /\ after # Gone /\ after # before /\ after \in Fields
        BY <1>4, CellFacts
    <2>2. left.entries = ix.entries \ {<<r, before>>} /\ left.forward = [ix.forward EXCEPT ![r] = Gone]
        BY <1>4 DEF RemoveValue
    <2>3. before \in Fields /\ <<r, before>> \notin ix.entries /\ <<r, after>> \in ix.entries
        BY <1>4, <2>1, CellFacts DEF Paired
    <2>4. left.entries = ix.entries  BY <2>2, <2>3
    <2>5. ix.forward \in [Rids -> Cells]  BY DEF IndexType
    <2>6. n = AddValue(left, r, after)  BY <1>1, <2>1
    <2>7. n.entries = left.entries \cup {<<r, after>>} /\ n.forward = [left.forward EXCEPT ![r] = after]
        <3> HIDE DEF left, n
        <3> QED  BY <2>6 DEF AddValue
    <2>8. n.entries = ix.entries
        <3> HIDE DEF left, n
        <3> QED  BY <2>3, <2>4, <2>7
    <2>9. \A q \in Rids : n.forward[q] = ix.forward[q]
        <3> HIDE DEF left, n
        <3> QED  BY <2>1, <2>2, <2>5, <2>7
    <2> HIDE DEF left, n
    <2>10. Paired(n)  BY <2>8, <2>9 DEF Paired
    <2> QED  BY <2>1, <2>9, <2>10 DEF n
<1> QED  BY <1>2, <1>3, <1>4

\* The catch-up indexes a row anew, whatever the index has of it.
LEMMA RefreshedPaired ==
    ASSUME NEW c \in Shape, Paired(c.index), NEW r \in Rids, NEW v \in Cells
    PROVE  LET n == RefreshedIndex(c, r, v)
           IN Paired(n) /\ n.forward[r] = v /\ \A q \in Rids : q # r => n.forward[q] = c.index.forward[q]
<1> DEFINE left == RemoveRid(c.index, r)
           n == RefreshedIndex(c, r, v)
<1>1. c.index \in IndexType  BY DEF Shape
<1>2. left = IF c.index.forward[r] = Gone THEN c.index ELSE RemoveValue(c.index, r, c.index.forward[r])
    BY DEF RemoveRid
<1>3. left \in IndexType  BY <1>1, RemoveRidType
<1>4. n = IF v = Gone THEN left ELSE AddValue(left, r, v)  BY DEF RefreshedIndex
<1> HIDE DEF left, n
<1>5. /\ Paired(left) /\ left.forward[r] = Gone
      /\ \A q \in Rids : q # r => left.forward[q] = c.index.forward[q]
    <2>1. CASE c.index.forward[r] = Gone
        <3>1. left = c.index  BY <1>2, <2>1
        <3> QED  BY <2>1, <3>1
    <2>2. CASE c.index.forward[r] # Gone
        <3>1. PICK u : u = c.index.forward[r]  OBVIOUS
        <3>2. left = RemoveValue(c.index, r, u) /\ u # Gone /\ c.index.forward[r] = u
            BY <1>2, <2>2, <3>1
        <3> QED  BY <1>1, <3>2, RemovedPaired
    <2> QED  BY <2>1, <2>2
<1>6. CASE v = Gone
    <2>1. n = left  BY <1>4, <1>6
    <2> QED  BY <1>5, <1>6, <2>1 DEF n
<1>7. CASE v # Gone
    <2>1. n = AddValue(left, r, v) /\ v \in Fields  BY <1>4, <1>7, CellFacts
    <2>2. /\ Paired(n) /\ n.forward[r] = v
          /\ \A q \in Rids : q # r => n.forward[q] = left.forward[q]
        BY <1>3, <1>5, <2>1, AddedPaired
    <2> QED  BY <1>5, <2>2 DEF n
<1> QED  BY <1>6, <1>7

\* A row that matches is read as it was written.
LEMMA ReadFacts ==
    ASSUME NEW c \in Shape, NEW w \in [Rids -> Cells], NEW r \in Rids,
           c.base[r] = Gone <=> w[r] = Gone, RowMatches(c, w, r)
    PROVE  Hydrated(c, r) = w[r]
<1>1. /\ c.column.vals[r] \in Fields /\ c.base[r] \in Cells /\ w[r] \in Cells
      /\ c.columned \in BOOLEAN
    BY DEF Shape, ColumnType
<1>2. CASE r \in Dirty(c) \/ ~c.columned
    <2>1. c.base[r] = w[r]  BY <1>2 DEF RowMatches
    <2>2. Hydrated(c, r) = c.base[r]  BY <1>2 DEF Hydrated
    <2> QED  BY <2>1, <2>2
<1>3. CASE Building(c)
    <2>1. c.base[r] = w[r] /\ c.column.vals[r] = Absent  BY <1>3 DEF RowMatches
    <2>2. Hydrated(c, r) = c.base[r]  BY <2>1 DEF Hydrated
    <2> QED  BY <2>1, <2>2
<1>4. CASE r \notin Dirty(c) /\ c.columned /\ ~Building(c)
    <2>1. Split(c, w, r) \/ Unread(c, w, r)  BY <1>4 DEF RowMatches
    <2>2. CASE Unread(c, w, r)
        <3>1. c.base[r] = w[r] /\ c.column.vals[r] = Absent  BY <2>2 DEF Unread
        <3> QED  BY <3>1 DEF Hydrated
    <2>3. CASE Split(c, w, r)
        <3>1. c.column.vals[r] = ColumnState(w[r]) /\ c.base[r] \in {w[r], Absent}  BY <2>3 DEF Split
        <3>2. w[r] # Gone => c.column.vals[r] = w[r] /\ c.base[r] # Gone  BY <3>1 DEF ColumnState
        <3>3. w[r] = Gone => c.base[r] = Gone  OBVIOUS
        <3>4. Hydrated(c, r) = IF c.base[r] # Gone /\ c.column.vals[r] # Absent
                               THEN c.column.vals[r] ELSE c.base[r]
            BY <1>4 DEF Hydrated
        <3>5. CASE w[r] = Gone
            <4>1. Hydrated(c, r) = c.base[r]  BY <3>3, <3>4, <3>5
            <4> QED  BY <3>3, <3>5, <4>1
        <3>6. CASE w[r] # Gone /\ w[r] # Absent  BY <3>2, <3>4, <3>6
        <3>7. CASE w[r] # Gone /\ w[r] = Absent
            <4>1. Hydrated(c, r) = c.base[r]  BY <3>2, <3>4, <3>7
            <4> QED  BY <3>1, <3>7, <4>1
        <3> QED  BY <3>5, <3>6, <3>7
    <2> QED  BY <2>1, <2>2, <2>3
<1> QED  BY <1>2, <1>3, <1>4

----------------------------------------------------------------------------
\* What the indexes know of a row after they were told of a batch.

LEMMA RangeAppend ==
    ASSUME NEW s \in Seq(Rids), NEW r \in Rids
    PROVE  \A q : q \in Range(Append(s, r)) <=> q \in Range(s) \/ q = r
<1> DEFINE t == Append(s, r)
<1>1. /\ Len(s) \in Nat /\ Len(t) = Len(s) + 1 /\ t[Len(s) + 1] = r
      /\ \A i \in 1..Len(s) : t[i] = s[i]
    BY AppendProperties, LenProperties
<1>2. DOMAIN s = 1..Len(s) /\ DOMAIN t = 1..Len(t)  BY AppendProperties, LenProperties
<1>3. \A i \in 1..Len(t) : i \in 1..Len(s) \/ i = Len(s) + 1  BY <1>1
<1>4. (\A i \in 1..Len(s) : i \in 1..Len(t)) /\ Len(s) + 1 \in 1..Len(t)  BY <1>1
<1> HIDE DEF t
<1>5. \A q : q \in Range(t) <=> \E i \in 1..Len(t) : t[i] = q  BY <1>2 DEF Range
<1>6. \A q : q \in Range(s) <=> \E i \in 1..Len(s) : s[i] = q  BY <1>2 DEF Range
<1> QED  BY <1>1, <1>3, <1>4, <1>5, <1>6 DEF t

Untold(c, t, r) ==
    /\ t.column.vals[r] = c.column.vals[r] /\ t.column.pending[r] = c.column.pending[r]
    /\ t.build.pending[r] = c.build.pending[r] /\ (r \in Dirty(t) <=> r \in Dirty(c))

\* The row had w before and has v now.
ToldRow(c, t, defer, w, v, r) ==
    /\ Building(c) => /\ t.column.vals[r] = c.column.vals[r]
                      /\ t.column.pending[r] = ColumnState(v[r])
    /\ c.columned /\ ~Building(c) /\ ~defer /\ r \notin Dirty(c) =>
          t.column.vals[r] = ColumnState(v[r])
    /\ c.build.status = "building" => t.build.pending[r] = [before |-> w[r], after |-> v[r]]
    /\ r \in Dirty(t) <=> r \in Dirty(c) \/ defer

SameColumn(c, t) ==
    /\ t.column.status = c.column.status /\ t.column.id = c.column.id
    /\ ~c.columned => t.column = c.column
    /\ t.build.status = c.build.status /\ t.build.token = c.build.token

\* One change.
ToldOne(c, t, d, defer) ==
    /\ SameColumn(c, t)
    /\ \A r \in Rids : r # d.rid => Untold(c, t, r)
    /\ Building(c) => /\ t.column.vals[d.rid] = c.column.vals[d.rid]
                      /\ t.column.pending[d.rid] = ColumnState(d.after)
    /\ c.columned /\ ~Building(c) /\ ~defer /\ d.rid \notin Dirty(c) =>
          t.column.vals[d.rid] = ColumnState(d.after)
    /\ c.build.status = "building" =>
          t.build.pending[d.rid] = [before |-> FirstBefore(c, d), after |-> d.after]
    /\ d.rid \in Dirty(t) <=> d.rid \in Dirty(c) \/ defer

LEMMA ToldOneFacts ==
    ASSUME NEW c \in Shape, NEW d \in Delta, NEW defer \in BOOLEAN, NEW t, Told1(c, t, d, defer)
    PROVE  ToldOne(c, t, d, defer)
<1> DEFINE q == d.rid
           v == ColumnState(d.after)
           u == UpdateState(c.column, q, v)
           marked == Building(c) \/ (c.columned /\ ~defer /\ q \notin Dirty(c))
<1>1. q \in Rids /\ d.after \in Cells /\ d.before \in Cells  BY DEF Delta
<1>2. v \in Fields  BY <1>1, ColumnStateType
<1>3. /\ t.build.status = c.build.status /\ t.build.token = c.build.token
      /\ t.build.pending = RecordedBuild(c, d)
      /\ t.dirty = IF defer /\ q \notin Dirty(c) THEN Append(c.dirty, q) ELSE c.dirty
      /\ t.column = IF marked THEN u ELSE c.column
    BY DEF Told1
<1>4. c.column \in ColumnType /\ c.dirty \in Seq(Rids) /\ c.build \in BuildType /\ c.columned \in BOOLEAN
    BY DEF Shape
<1>5. /\ u.status = c.column.status /\ u.id = c.column.id
      /\ c.column.status = "building" =>
            u.vals = c.column.vals /\ u.pending = [c.column.pending EXCEPT ![q] = v]
      /\ c.column.status # "building" =>
            u.vals = [c.column.vals EXCEPT ![q] = v] /\ u.pending = c.column.pending
    BY <1>1, <1>2, <1>4, UpdateStateFacts
<1>6. c.column.vals \in [Rids -> Fields] /\ DOMAIN c.column.pending = Rids
    BY <1>4 DEF ColumnType
<1> HIDE DEF u, v
<1>7. \A r \in Rids : r # q => u.vals[r] = c.column.vals[r] /\ u.pending[r] = c.column.pending[r]
    BY <1>5, <1>6
<1>8. /\ c.column.status = "building" => u.vals = c.column.vals /\ u.pending[q] = v
      /\ c.column.status # "building" => u.vals[q] = v
    BY <1>1, <1>5, <1>6
<1>9. Building(c) <=> c.columned /\ c.column.status = "building"  BY DEF Building
<1>10. SameColumn(c, t)
    <2>1. ~c.columned => t.column = c.column  BY <1>3, <1>9
    <2> QED  BY <1>3, <1>5, <2>1 DEF SameColumn
<1>11. \A r \in Rids : r \in Dirty(t) <=> r \in Dirty(c) \/ (r = q /\ defer)
    <2>1. CASE defer /\ q \notin Dirty(c)
        <3>1. t.dirty = Append(c.dirty, q)  BY <1>3, <2>1
        <3>2. \A r : r \in Range(Append(c.dirty, q)) <=> r \in Range(c.dirty) \/ r = q
            BY <1>1, <1>4, RangeAppend
        <3> QED  BY <2>1, <3>1, <3>2 DEF Dirty
    <2>2. CASE ~(defer /\ q \notin Dirty(c))
        <3>1. t.dirty = c.dirty  BY <1>3, <2>2
        <3> QED  BY <2>2, <3>1 DEF Dirty
    <2> QED  BY <2>1, <2>2
<1>12. DOMAIN c.build.pending = Rids  BY <1>4 DEF BuildType
<1>13. \A r \in Rids : r # q => t.build.pending[r] = c.build.pending[r]
    BY <1>1, <1>3, <1>12 DEF RecordedBuild
<1>14. c.build.status = "building" =>
           t.build.pending[q] = [before |-> FirstBefore(c, d), after |-> d.after]
    BY <1>1, <1>3, <1>12 DEF RecordedBuild
<1>15. \A r \in Rids : r # q => t.column.vals[r] = c.column.vals[r] /\ t.column.pending[r] = c.column.pending[r]
    BY <1>3, <1>7
<1>16. \A r \in Rids : r # q => Untold(c, t, r)  BY <1>11, <1>13, <1>15 DEF Untold
<1>17. Building(c) => t.column.vals[q] = c.column.vals[q] /\ t.column.pending[q] = v
    BY <1>3, <1>8, <1>9
<1>18. c.columned /\ ~Building(c) /\ ~defer /\ q \notin Dirty(c) => t.column.vals[q] = v
    BY <1>3, <1>8, <1>9
<1>19. q \in Dirty(t) <=> q \in Dirty(c) \/ defer  BY <1>1, <1>11
<1> QED  BY <1>10, <1>14, <1>16, <1>17, <1>18, <1>19 DEF ToldOne, v

\* The index is told of a change whose row it has as it was.
LEMMA ToldIndex ==
    ASSUME NEW c \in Shape, NEW d \in Delta, NEW defer \in BOOLEAN, NEW t, Told1(c, t, d, defer),
           NEW v \in [Rids -> Cells], IndexMatches(c, v), c.indexed => d.before = v[d.rid]
    PROVE  IndexMatches(t, [v EXCEPT ![d.rid] = d.after])
<1> DEFINE q == d.rid
           u == [v EXCEPT ![q] = d.after]
<1>1. q \in Rids /\ d.after \in Cells /\ d.before \in Cells  BY DEF Delta
<1>2. u[q] = d.after /\ \A r \in Rids : r # q => u[r] = v[r]  BY <1>1
<1>3. /\ t.indexed = c.indexed
      /\ t.index = IF ~defer /\ q \notin Dirty(c) /\ c.indexed
                   THEN Moved(c.index, q, d.before, d.after) ELSE c.index
    BY DEF Told1, SameMeta
<1>4. /\ \A r \in Rids : r # q => (r \in Dirty(t) <=> r \in Dirty(c))
      /\ q \in Dirty(t) <=> q \in Dirty(c) \/ defer
    <2>1. ToldOne(c, t, d, defer)  BY ToldOneFacts
    <2> QED  BY <2>1 DEF ToldOne, Untold
<1> SUFFICES ASSUME c.indexed
             PROVE  Paired(t.index) /\ \A r \in Rids \ Dirty(t) : t.index.forward[r] = u[r]
    BY <1>3 DEF IndexMatches
<1>5. Paired(c.index) /\ \A r \in Rids \ Dirty(c) : c.index.forward[r] = v[r]
    BY DEF IndexMatches
<1> HIDE DEF u
<1>6. CASE defer \/ q \in Dirty(c)
    <2>1. t.index = c.index  BY <1>3, <1>6
    <2>2. q \in Dirty(t)  BY <1>4, <1>6
    <2> QED  BY <1>2, <1>4, <1>5, <2>1, <2>2
<1>7. CASE ~defer /\ q \notin Dirty(c)
    <2>1. t.index = Moved(c.index, q, d.before, d.after)  BY <1>3, <1>7
    <2>2. c.index \in IndexType /\ c.index.forward[q] = d.before
        <3>1. c.index.forward[q] = v[q]  BY <1>1, <1>5, <1>7
        <3> QED  BY <3>1 DEF Shape
    <2>3. /\ Paired(t.index) /\ t.index.forward[q] = d.after
          /\ \A r \in Rids : r # q => t.index.forward[r] = c.index.forward[r]
        BY <1>1, <1>5, <2>1, <2>2, MovedPaired
    <2> QED  BY <1>2, <1>4, <1>5, <1>7, <2>3
<1> QED  BY <1>6, <1>7

----------------------------------------------------------------------------
\* A batch of changes, after which the rows are as W[n] says.

ChangesBy(W, deltas, n, w) ==
    /\ W \in [0..n -> [Rids -> Cells]] /\ W[0] = w
    /\ \A i \in 1..n : /\ deltas[i] \in Delta
                       /\ W[i] = [W[i - 1] EXCEPT ![deltas[i].rid] = deltas[i].after]

\* The index and its build are told what a row was.
BeforeOk(c, deltas, W, n) ==
    c.indexed \/ c.build.status = "building" =>
        \A i \in 1..n : deltas[i].before = W[i - 1][deltas[i].rid]

\* The build knows of no change of the rows of the batch.
FirstChanges(c, deltas, n) ==
    c.build.status = "building" => \A i \in 1..n : c.build.pending[deltas[i].rid] = NoChange

ToldRows(c, t, deltas, defer, w, v, n) ==
    /\ SameColumn(c, t)
    /\ \A r \in Rids : Rows(deltas, n, r) => ToldRow(c, t, defer, w, v, r)
    /\ \A r \in Rids : ~Rows(deltas, n, r) => Untold(c, t, r) /\ v[r] = w[r]

\* One more change of a row.
LEMMA ToldAgain ==
    ASSUME NEW c \in Shape, NEW s \in Shape, NEW t, NEW d \in Delta, NEW defer \in BOOLEAN,
           SameMeta(c, s), SameColumn(c, s), ToldOne(s, t, d, defer),
           NEW w \in [Rids -> Cells], NEW v \in [Rids -> Cells],
           c.build.status = "building" => c.build.pending[d.rid] = NoChange /\ d.before = v[d.rid],
           \/ ToldRow(c, s, defer, w, v, d.rid)
           \/ Untold(c, s, d.rid) /\ v[d.rid] = w[d.rid]
    PROVE  ToldRow(c, t, defer, w, [v EXCEPT ![d.rid] = d.after], d.rid)
<1> DEFINE q == d.rid
           u == [v EXCEPT ![q] = d.after]
<1>1. q \in Rids /\ u[q] = d.after /\ d.after \in Cells  BY DEF Delta
<1>2. /\ Building(s) <=> Building(c)
      /\ s.columned = c.columned /\ s.build.status = c.build.status
    BY DEF SameMeta, SameColumn, Building
<1>3. /\ q \in Dirty(s) => q \in Dirty(c) \/ defer
      /\ q \in Dirty(c) => q \in Dirty(s)
    BY DEF ToldRow, Untold
<1>4. Building(c) => s.column.vals[q] = c.column.vals[q]  BY DEF ToldRow, Untold
<1>5. /\ Building(s) => t.column.vals[q] = s.column.vals[q] /\ t.column.pending[q] = ColumnState(d.after)
      /\ s.columned /\ ~Building(s) /\ ~defer /\ q \notin Dirty(s) =>
            t.column.vals[q] = ColumnState(d.after)
      /\ s.build.status = "building" =>
            t.build.pending[q] = [before |-> FirstBefore(s, d), after |-> d.after]
      /\ q \in Dirty(t) <=> q \in Dirty(s) \/ defer
    BY DEF ToldOne
<1>6. ASSUME c.build.status = "building" PROVE FirstBefore(s, d) = w[q]
    <2>1. c.build.pending[q] = NoChange /\ d.before = v[q]  BY <1>6
    <2>2. CASE Untold(c, s, q) /\ v[q] = w[q]
        <3>1. s.build.pending[q] = NoChange  BY <2>1, <2>2 DEF Untold
        <3> QED  BY <2>1, <2>2, <3>1 DEF FirstBefore
    <2>3. CASE ToldRow(c, s, defer, w, v, q)
        <3>1. s.build.pending[q] = [before |-> w[q], after |-> v[q]]  BY <1>6, <2>3 DEF ToldRow
        <3>2. s.build.pending[q] = NoChange => w[q] = v[q]  BY <3>1 DEF NoChange
        <3>3. s.build.pending[q].before = w[q]  BY <3>1
        <3> QED  BY <2>1, <3>2, <3>3 DEF FirstBefore
    <2> QED  BY <2>2, <2>3
<1> HIDE DEF u
<1>7. Building(c) => t.column.vals[q] = c.column.vals[q] /\ t.column.pending[q] = ColumnState(u[q])
    BY <1>1, <1>2, <1>4, <1>5
<1>8. c.columned /\ ~Building(c) /\ ~defer /\ q \notin Dirty(c) => t.column.vals[q] = ColumnState(u[q])
    BY <1>1, <1>2, <1>3, <1>5
<1>9. c.build.status = "building" => t.build.pending[q] = [before |-> w[q], after |-> u[q]]
    BY <1>1, <1>2, <1>5, <1>6
<1>10. q \in Dirty(t) <=> q \in Dirty(c) \/ defer  BY <1>3, <1>5
<1>11. ToldRow(c, t, defer, w, u, q)  BY <1>7, <1>8, <1>9, <1>10 DEF ToldRow
<1> QED  BY <1>11 DEF u

\* A change of another row.
LEMMA ToldOther ==
    ASSUME NEW c, NEW s, NEW t, NEW defer, NEW w, NEW v, NEW u, NEW r, Untold(s, t, r), u[r] = v[r]
    PROVE  /\ ToldRow(c, s, defer, w, v, r) => ToldRow(c, t, defer, w, u, r)
           /\ Untold(c, s, r) => Untold(c, t, r)
BY DEF ToldRow, Untold

LEMMA ToldRowsFacts ==
    ASSUME NEW c \in Shape, NEW n \in Nat, NEW deltas, NEW defer \in BOOLEAN,
           NEW w \in [Rids -> Cells], NEW W, ChangesBy(W, deltas, n, w),
           BeforeOk(c, deltas, W, n), FirstChanges(c, deltas, n), IndexMatches(c, w)
    PROVE  LET t == Told(c, deltas, defer, n)
           IN ToldRows(c, t, deltas, defer, w, W[n], n) /\ IndexMatches(t, W[n])
<1>1. /\ W \in [0..n -> [Rids -> Cells]] /\ W[0] = w
      /\ \A i \in 1..n : /\ deltas[i] \in Delta
                         /\ W[i] = [W[i - 1] EXCEPT ![deltas[i].rid] = deltas[i].after]
    BY DEF ChangesBy
<1>a. \A i \in 1..n : deltas[i] \in Delta  BY <1>1
<1>2. PICK f : Told(c, deltas, defer, n) = f[n] /\ ToldChain(f, c, deltas, defer, n)
    BY <1>a, ToldSteps
<1>3. /\ f[0] = c
      /\ \A i \in 1..n : f[i - 1] \in Shape /\ f[i] \in Shape /\ Told1(f[i - 1], f[i], deltas[i], defer)
    BY <1>2 DEF ToldChain
<1> DEFINE At(m) == /\ SameMeta(c, f[m]) /\ ToldRows(c, f[m], deltas, defer, w, W[m], m)
                    /\ IndexMatches(f[m], W[m])
           T == {m \in Nat : m <= n => At(m)}
<1>4. 0 \in T
    <2>1. \A r \in Rids : ~Rows(deltas, 0, r)  BY DEF Rows
    <2>2. ToldRows(c, f[0], deltas, defer, w, W[0], 0)
        BY <1>1, <1>3, <2>1 DEF ToldRows, Untold, SameColumn
    <2>3. SameMeta(c, f[0])  BY <1>3 DEF SameMeta
    <2> QED  BY <1>1, <1>3, <2>2, <2>3
<1>5. ASSUME NEW m \in Nat, m \in T PROVE m + 1 \in T
    <2> SUFFICES ASSUME m + 1 <= n PROVE At(m + 1)  OBVIOUS
    <2>1. PICK i \in 1..n : i = m + 1  OBVIOUS
    <2>2. i - 1 = m /\ m \in 0..n  BY <2>1
    <2> DEFINE s == f[m]
               t == f[m + 1]
               d == deltas[m + 1]
               v == W[m]
               u == W[m + 1]
               q == d.rid
    <2>3. At(m)  BY <1>5
    <2>4. s \in Shape /\ t \in Shape /\ Told1(s, t, d, defer)  BY <1>3, <2>1, <2>2
    <2>5. d \in Delta /\ v \in [Rids -> Cells] /\ u = [v EXCEPT ![q] = d.after]
        BY <1>1, <2>1, <2>2
    <2>6. c.indexed \/ c.build.status = "building" => d.before = v[q]  BY <2>1, <2>2 DEF BeforeOk
    <2>7. c.build.status = "building" => c.build.pending[q] = NoChange
        BY <2>1, <2>2 DEF FirstChanges
    <2>8. \A r \in Rids : Rows(deltas, m + 1, r) <=> Rows(deltas, m, r) \/ r = q
        <3>1. \A j \in 1..(m + 1) : j \in 1..m \/ j = m + 1  OBVIOUS
        <3>2. m + 1 \in 1..(m + 1) /\ \A j \in 1..m : j \in 1..(m + 1)  OBVIOUS
        <3> QED  BY <3>1, <3>2 DEF Rows
    <2>9. q \in Rids /\ \A r \in Rids : r # q => u[r] = v[r]  BY <2>5 DEF Delta
    <2> HIDE DEF s, t, d, v, u
    <2>10. SameMeta(c, s) /\ ToldRows(c, s, deltas, defer, w, v, m) /\ IndexMatches(s, v)
        BY <2>3 DEF s, v
    <2>11. ToldOne(s, t, d, defer)  BY <2>4, <2>5, ToldOneFacts
    <2>12. SameMeta(c, t)  BY <2>4, <2>10 DEF Told1, SameMeta
    <2>13. SameColumn(c, s) /\ SameColumn(s, t)  BY <2>10, <2>11 DEF ToldRows, ToldOne
    <2>14. SameColumn(c, t)  BY <2>10, <2>13 DEF SameColumn, SameMeta
    <2>15. IndexMatches(t, u)
        <3>1. s.indexed => d.before = v[q]  BY <2>6, <2>10 DEF SameMeta
        <3> HIDE DEF q
        <3>2. IndexMatches(t, [v EXCEPT ![d.rid] = d.after])
            BY <2>4, <2>5, <2>10, <3>1, ToldIndex DEF q
        <3> QED  BY <2>5, <3>2 DEF q
    <2>16. \/ ToldRow(c, s, defer, w, v, q)
           \/ Untold(c, s, q) /\ v[q] = w[q]
        BY <2>9, <2>10 DEF ToldRows
    <2>17. ToldRow(c, t, defer, w, u, q)
        <3>1. ToldRow(c, t, defer, w, [v EXCEPT ![d.rid] = d.after], d.rid)
            BY <2>4, <2>5, <2>6, <2>7, <2>10, <2>11, <2>13, <2>16, ToldAgain
        <3> QED  BY <2>5, <3>1
    <2>18. ASSUME NEW r \in Rids, r # q
           PROVE  /\ ToldRow(c, s, defer, w, v, r) => ToldRow(c, t, defer, w, u, r)
                  /\ Untold(c, s, r) => Untold(c, t, r)
        <3>1. Untold(s, t, r) /\ u[r] = v[r]  BY <2>9, <2>11, <2>18 DEF ToldOne
        <3> QED  BY <3>1, ToldOther
    <2>19. \A r \in Rids : Rows(deltas, m + 1, r) => ToldRow(c, t, defer, w, u, r)
        BY <2>8, <2>10, <2>17, <2>18 DEF ToldRows
    <2>20. \A r \in Rids : ~Rows(deltas, m + 1, r) => Untold(c, t, r) /\ u[r] = w[r]
        BY <2>8, <2>9, <2>10, <2>18 DEF ToldRows
    <2>21. ToldRows(c, t, deltas, defer, w, u, m + 1)  BY <2>14, <2>19, <2>20 DEF ToldRows
    <2> QED  BY <2>12, <2>15, <2>21 DEF t, u
<1>6. At(n)
    <2>1. n \in T
        <3> HIDE DEF T
        <3> QED  BY <1>4, <1>5, NatSetInduction
    <2> QED  BY <2>1
<1> QED  BY <1>2, <1>6

----------------------------------------------------------------------------
\* A batch leaves rows, index and builds as they should be.

\* What is stored of the rows of a batch: all of them while the column does not
\* have them.
StoredOk(c, n, rows, defer, v, k) ==
    /\ \A r \in Rids : ~Rows(rows, k, r) => n.base[r] = c.base[r]
    /\ \A r \in Rids : Rows(rows, k, r) =>
          /\ n.base[r] \in {v[r], Absent}
          /\ defer \/ c.dirty # <<>> \/ ~Ready(c) => n.base[r] = v[r]

LEMMA DirtyFacts ==
    ASSUME NEW c, NEW r, r \in Dirty(c)
    PROVE  c.dirty # <<>>
BY DEF Dirty, Range

LEMMA BatchRow ==
    ASSUME NEW c \in Shape, NEW n \in Shape, NEW w, NEW v, NEW defer \in BOOLEAN, NEW r \in Rids,
           n.columned = c.columned, SameColumn(c, n), ToldRow(c, n, defer, w, v, r),
           RowMatches(c, w, r), n.base[r] \in {v[r], Absent},
           defer \/ c.dirty # <<>> \/ ~Ready(c) => n.base[r] = v[r]
    PROVE  RowMatches(n, v, r)
<1>1. /\ Building(n) <=> Building(c)
      /\ Ready(n) <=> Ready(c)
    BY DEF Building, Ready, SameColumn
<1>2. r \in Dirty(n) <=> r \in Dirty(c) \/ defer  BY DEF ToldRow
<1>3. r \in Dirty(n) \/ ~n.columned \/ Building(n) => n.base[r] = v[r]
    <2>1. ~c.columned \/ Building(c) => ~Ready(c)  BY DEF Building, Ready
    <2>2. r \in Dirty(c) => c.dirty # <<>>  BY DirtyFacts
    <2> QED  BY <1>1, <1>2, <2>1, <2>2
<1>4. Building(n) => n.column.vals[r] = Absent /\ n.column.pending[r] = ColumnState(v[r])
    BY <1>1 DEF ToldRow, RowMatches
<1>5. n.columned /\ ~Building(n) /\ r \notin Dirty(n) => Split(n, v, r)
    BY <1>1, <1>2 DEF ToldRow, Split
<1> QED  BY <1>3, <1>4, <1>5 DEF RowMatches

LEMMA SameRow ==
    ASSUME NEW c, NEW n, NEW w, NEW v, NEW r,
           n.columned = c.columned, SameColumn(c, n), Untold(c, n, r), v[r] = w[r],
           RowMatches(c, w, r), n.base[r] = c.base[r]
    PROVE  RowMatches(n, v, r)
<1>1. Building(n) <=> Building(c)  BY DEF Building, SameColumn
<1>2. /\ r \in Dirty(n) <=> r \in Dirty(c)
      /\ n.column.vals[r] = c.column.vals[r] /\ n.column.pending[r] = c.column.pending[r]
      /\ n.column.status = c.column.status
    BY DEF Untold, SameColumn
<1>3. Split(c, w, r) => Split(n, v, r)  BY <1>2 DEF Split
<1>4. Unread(c, w, r) => Unread(n, v, r)  BY <1>2 DEF Unread
<1> QED  BY <1>1, <1>2, <1>3, <1>4 DEF RowMatches

LEMMA BatchRows ==
    ASSUME NEW c \in Shape, NEW n \in Shape, NEW w, NEW v, NEW defer \in BOOLEAN,
           NEW rows, NEW k, n.columned = c.columned, ToldRows(c, n, rows, defer, w, v, k),
           StoredOk(c, n, rows, defer, v, k), RowsMatch(c, w)
    PROVE  RowsMatch(n, v)
<1>1. SameColumn(c, n)  BY DEF ToldRows
<1>2. SUFFICES ASSUME NEW r \in Rids PROVE RowMatches(n, v, r)  BY DEF RowsMatch
<1>3. RowMatches(c, w, r)  BY DEF RowsMatch
<1>4. CASE Rows(rows, k, r)
    <2>1. ToldRow(c, n, defer, w, v, r)  BY <1>4 DEF ToldRows
    <2>2. /\ n.base[r] \in {v[r], Absent}
          /\ defer \/ c.dirty # <<>> \/ ~Ready(c) => n.base[r] = v[r]
        BY <1>4 DEF StoredOk
    <2> QED  BY <1>1, <1>3, <2>1, <2>2, BatchRow
<1>5. CASE ~Rows(rows, k, r)
    <2>1. Untold(c, n, r) /\ v[r] = w[r]  BY <1>5 DEF ToldRows
    <2>2. n.base[r] = c.base[r]  BY <1>5 DEF StoredOk
    <2> QED  BY <1>1, <1>3, <2>1, <2>2, SameRow
<1> QED  BY <1>4, <1>5

LEMMA BatchFieldJob ==
    ASSUME NEW c \in Shape, NEW n \in Shape, NEW w \in [Rids -> Cells], NEW v \in [Rids -> Cells],
           NEW defer, NEW rows, NEW k, ToldRows(c, n, rows, defer, w, v, k),
           FirstChanges(c, rows, k), c.build.status = "building",
           NEW job \in OwnJob, FieldJobOk(job, c, w)
    PROVE  FieldJobOk(job, n, v)
<1>1. Paired(job.index) /\ \A r \in Rids : FieldRowOk(job, c, w, r)  BY DEF FieldJobOk
<1>2. ASSUME NEW r \in Rids PROVE FieldRowOk(job, n, v, r)
    <2>1. FieldRowOk(job, c, w, r)  BY <1>1
    <2>2. CASE ~Rows(rows, k, r)
        <3>1. n.build.pending[r] = c.build.pending[r] /\ v[r] = w[r]
            BY <2>2 DEF ToldRows, Untold
        <3> QED  BY <2>1, <3>1 DEF FieldRowOk
    <2>3. CASE Rows(rows, k, r)
        <3>1. c.build.pending[r] = NoChange  BY <2>3 DEF FirstChanges, Rows
        <3>2. n.build.pending[r] = [before |-> w[r], after |-> v[r]]
            BY <2>3 DEF ToldRows, ToldRow
        <3>3. /\ r > job.at => job.index.forward[r] = Gone
              /\ r <= job.at => job.index.forward[r] = w[r]
            BY <2>1, <3>1 DEF FieldRowOk
        <3>4. r > job.at \/ r <= job.at
            <4>1. r \in Nat /\ job.at \in Nat  BY RidFacts DEF OwnJob
            <4> QED  BY <4>1
        <3>5. /\ n.build.pending[r].before = w[r] /\ n.build.pending[r].after = v[r]
              /\ n.build.pending[r] = NoChange => w[r] = Gone /\ v[r] = Gone
            BY <3>2 DEF NoChange
        <3> QED  BY <3>3, <3>4, <3>5 DEF FieldRowOk
    <2> QED  BY <2>2, <2>3
<1> QED  BY <1>1, <1>2 DEF FieldJobOk

LEMMA BatchColumnJob ==
    ASSUME NEW c \in Shape, NEW n \in Shape, NEW w \in [Rids -> Cells], NEW v \in [Rids -> Cells],
           NEW defer, NEW rows, NEW k, ToldRows(c, n, rows, defer, w, v, k),
           n.columned = c.columned, NEW job, ColumnJobOk(job, c, w)
    PROVE  ColumnJobOk(job, n, v)
<1>1. Building(c) /\ job.column.status = "ready" /\ \A r \in Rids : ColumnRowOk(job, c, w, r)
    BY DEF ColumnJobOk
<1>2. Building(n)  BY <1>1 DEF ToldRows, SameColumn, Building
<1>3. ASSUME NEW r \in Rids PROVE ColumnRowOk(job, n, v, r)
    <2>1. CASE ~Rows(rows, k, r)
        <3>1. n.column.pending[r] = c.column.pending[r] /\ v[r] = w[r]
            BY <2>1 DEF ToldRows, Untold
        <3> QED  BY <1>1, <3>1 DEF ColumnRowOk
    <2>2. CASE Rows(rows, k, r)
        <3>1. n.column.pending[r] = ColumnState(v[r])  BY <1>1, <2>2 DEF ToldRows, ToldRow
        <3>2. ColumnState(v[r]) \in Fields  BY ColumnStateType
        <3>3. Untouched \notin Fields  BY CellFacts
        <3> QED  BY <3>1, <3>2, <3>3 DEF ColumnRowOk
    <2> QED  BY <2>1, <2>2
<1> QED  BY <1>1, <1>2, <1>3 DEF ColumnJobOk

LEMMA BatchJob ==
    ASSUME NEW c \in Shape, NEW n \in Shape, NEW w \in [Rids -> Cells], NEW v \in [Rids -> Cells],
           NEW defer, NEW rows, NEW k, ToldRows(c, n, rows, defer, w, v, k),
           FirstChanges(c, rows, k), n.columned = c.columned, n.tokens = c.tokens,
           NEW job \in AnyJob, JobOk(job, c, w)
    PROVE  JobOk(job, n, v)
<1>1. SameColumn(c, n)  BY DEF ToldRows
<1>2. CASE job.kind = "index"
    <2>1. job \in OwnJob  BY <1>2 DEF AnyJob, VectorJob
    <2>2. /\ job.token <= c.tokens
          /\ c.build.status = "building" /\ c.build.token = job.token => FieldJobOk(job, c, w)
        BY <1>2 DEF JobOk
    <2>3. n.build.status = c.build.status /\ n.build.token = c.build.token  BY <1>1 DEF SameColumn
    <2>4. n.build.status = "building" /\ n.build.token = job.token => FieldJobOk(job, n, v)
        BY <2>1, <2>2, <2>3, BatchFieldJob
    <2> QED  BY <1>2, <2>2, <2>4 DEF JobOk
<1>3. CASE job.kind = "column"
    <2>1. /\ c.columned /\ job.token <= c.column.id
          /\ job.phase = "scan" /\ job.token = c.column.id => ColumnJobOk(job, c, w)
          /\ job.phase = "strip" => Ready(c)
        BY <1>3 DEF JobOk
    <2>2. n.column.status = c.column.status /\ n.column.id = c.column.id  BY <1>1 DEF SameColumn
    <2>3. job.phase = "scan" /\ job.token = n.column.id => ColumnJobOk(job, n, v)
        BY <2>1, <2>2, BatchColumnJob
    <2>4. job.phase = "strip" => Ready(n)  BY <2>1, <2>2 DEF Ready
    <2> QED  BY <1>3, <2>1, <2>2, <2>3, <2>4 DEF JobOk
<1>4. CASE job.kind # "index" /\ job.kind # "column"  BY <1>4 DEF JobOk
<1> QED  BY <1>2, <1>3, <1>4

----------------------------------------------------------------------------

LEMMA MoreJobsOk ==
    ASSUME NEW js \in Seq(AnyJob), NEW more \in Seq(AnyJob), NEW c, NEW w, c.exists,
           \A i \in 1..Len(js) : JobOk(js[i], c, w),
           \A i \in 1..Len(more) : JobOk(more[i], c, w),
           ColumnJobs(js),
           \A i \in 1..Len(more) : more[i].kind = "column" =>
               /\ more[i].phase = "scan"
               /\ \A j \in 1..Len(js) : js[j].kind = "column" => js[j].token # more[i].token,
           \A i, j \in 1..Len(more) : more[i].kind = "column" /\ more[j].kind = "column" => i = j
    PROVE  JobsOk(js \o more, c, w)
<1> DEFINE t == js \o more
           n == Len(js)
           m == Len(more)
<1>0. Len(js) \in Nat /\ Len(more) \in Nat /\ t \in Seq(AnyJob) /\ Len(t) = n + m
      /\ \A i \in 1..Len(t) : (i \in 1..n /\ t[i] = js[i]) \/ (i - n \in 1..m /\ t[i] = more[i - n])
    <2>1. n \in Nat /\ m \in Nat  BY LenProperties
    <2>2. /\ t \in Seq(AnyJob) /\ Len(t) = n + m
          /\ \A i \in 1..Len(t) : t[i] = IF i <= n THEN js[i] ELSE more[i - n]
        BY ConcatProperties
    <2>3. \A i \in 1..Len(t) : (i \in 1..n /\ i <= n) \/ (~(i <= n) /\ i - n \in 1..m)
        BY <2>1, <2>2
    <2> HIDE DEF t, n, m
    <2> QED  BY <2>1, <2>2, <2>3 DEF n, m
<1> HIDE DEF t
<1>1. \A i \in 1..Len(t) : JobOk(t[i], c, w)  BY <1>0
<1>2. /\ \A i \in 1..n : js[i].kind = "column" /\ i # 1 => js[i].phase = "scan"
      /\ \A i, j \in 1..n :
            js[i].kind = "column" /\ js[j].kind = "column" /\ js[i].token = js[j].token => i = j
    BY DEF ColumnJobs
<1>3. ASSUME NEW i \in 1..Len(t), t[i].kind = "column", i # 1 PROVE t[i].phase = "scan"
    <2>1. CASE i \in 1..n /\ t[i] = js[i]  BY <1>2, <1>3, <2>1
    <2>2. CASE i - n \in 1..m /\ t[i] = more[i - n]  BY <1>3, <2>2
    <2> QED  BY <1>0, <2>1, <2>2
<1>4. ASSUME NEW i \in 1..Len(t), NEW j \in 1..Len(t),
             t[i].kind = "column", t[j].kind = "column", t[i].token = t[j].token
      PROVE  i = j
    <2>1. CASE i \in 1..n /\ t[i] = js[i] /\ j \in 1..n /\ t[j] = js[j]  BY <1>2, <1>4, <2>1
    <2>2. CASE i \in 1..n /\ t[i] = js[i] /\ j - n \in 1..m /\ t[j] = more[j - n]
        BY <1>4, <2>2
    <2>3. CASE j \in 1..n /\ t[j] = js[j] /\ i - n \in 1..m /\ t[i] = more[i - n]
        BY <1>4, <2>3
    <2>4. CASE i - n \in 1..m /\ t[i] = more[i - n] /\ j - n \in 1..m /\ t[j] = more[j - n]
        <3>1. i - n = j - n  BY <1>4, <2>4
        <3>2. i \in Nat /\ j \in Nat /\ n \in Nat  BY <1>0
        <3> QED  BY <3>1, <3>2
    <2> QED  BY <1>0, <2>1, <2>2, <2>3, <2>4
<1>5. ColumnJobs(t)  BY <1>3, <1>4 DEF ColumnJobs
<1>6. JobsOk(t, c, w)  BY <1>1, <1>5 DEF JobsOk
<1> QED  BY <1>6 DEF t

\* Jobs that are no column builds.
LEMMA MoreOtherJobs ==
    ASSUME NEW js \in Seq(AnyJob), NEW more \in Seq(AnyJob), NEW c, NEW w, c.exists, NEW sc,
           \A i \in 1..Len(js) : JobOk(js[i], c, w), ColumnJobs(js), NoColumnJobs(sc, js),
           \A i \in 1..Len(more) : more[i].kind # "column" /\ more[i].kind # "index"
    PROVE  JobsOk(js \o more, c, w) /\ NoColumnJobs(sc, js \o more)
<1>1. \A i \in 1..Len(more) : JobOk(more[i], c, w)  BY DEF JobOk
<1>2. JobsOk(js \o more, c, w)
    <2>1. \A i \in 1..Len(more) : more[i].kind = "column" =>
               /\ more[i].phase = "scan"
               /\ \A j \in 1..Len(js) : js[j].kind = "column" => js[j].token # more[i].token
        OBVIOUS
    <2>2. \A i, j \in 1..Len(more) : more[i].kind = "column" /\ more[j].kind = "column" => i = j
        OBVIOUS
    <2> QED  BY <1>1, <2>1, <2>2, MoreJobsOk
<1>3. NoColumnJobs(sc, js \o more)
    <2> DEFINE t == js \o more
               n == Len(js)
               m == Len(more)
    <2>1. \A i \in 1..Len(t) : (i \in 1..n /\ t[i] = js[i]) \/ (i - n \in 1..m /\ t[i] = more[i - n])
        <3>1. n \in Nat /\ m \in Nat  BY LenProperties
        <3>2. Len(t) = n + m /\ \A i \in 1..Len(t) : t[i] = IF i <= n THEN js[i] ELSE more[i - n]
            BY ConcatProperties
        <3>3. \A i \in 1..Len(t) : (i \in 1..n /\ i <= n) \/ (~(i <= n) /\ i - n \in 1..m)
            BY <3>1, <3>2
        <3> HIDE DEF t, n, m
        <3> QED  BY <3>2, <3>3
    <2> HIDE DEF t, n, m
    <2> SUFFICES ASSUME ~LateColumn(sc), NEW i \in 1..Len(t) PROVE t[i].kind # "column"
        BY DEF NoColumnJobs, t
    <2>2. \A j \in 1..n : js[j].kind # "column"  BY DEF NoColumnJobs, n
    <2>3. \A j \in 1..m : more[j].kind # "column"  BY DEF m
    <2> QED  BY <2>1, <2>2, <2>3
<1> QED  BY <1>2, <1>3

LEMMA NoDirty ==
    ASSUME NEW c \in Shape, \A r \in Rids : r \notin Dirty(c)
    PROVE  c.dirty = <<>>
<1>1. c.dirty \in Seq(Rids)  BY DEF Shape
<1> SUFFICES ASSUME c.dirty # <<>> PROVE FALSE  OBVIOUS
<1>2. Len(c.dirty) \in Nat \ {0}  BY <1>1, EmptySeq
<1>3. 1 \in DOMAIN c.dirty /\ c.dirty[1] \in Rids  BY <1>1, <1>2, LenProperties, ElementOfSeq
<1> QED  BY <1>3 DEF Dirty, Range

\* What a batch may not disturb.
LEMMA BatchOrders ==
    ASSUME NEW c \in Shape, NEW n \in Shape, NEW sc, NEW w, NEW v, NEW defer \in BOOLEAN, NEW rows, NEW k,
           SameOrders(c, n), n.indexed = c.indexed, n.exists = c.exists,
           ToldRows(c, n, rows, defer, w, v, k), LateColumn(sc) => ~defer,
           MetaOk(sc, c), BuildOk(sc, c)
    PROVE  MetaOk(sc, n) /\ BuildOk(sc, n)
<1>1. /\ n.meta = c.meta /\ n.tokens = c.tokens /\ n.indexBuildPending = c.indexBuildPending
      /\ n.columned = c.columned
    BY DEF SameOrders
<1>2. /\ n.column.status = c.column.status /\ n.column.id = c.column.id
      /\ ~c.columned => n.column = c.column
      /\ n.build.status = c.build.status /\ n.build.token = c.build.token
    BY DEF ToldRows, SameColumn
<1>3. LateColumn(sc) => n.dirty = <<>>
    <2> SUFFICES ASSUME LateColumn(sc), ~defer PROVE n.dirty = <<>>  OBVIOUS
    <2>1. c.dirty = <<>>  BY DEF BuildOk
    <2>2. \A r \in Rids : r \notin Dirty(c)  BY <2>1, DirtyFacts
    <2>3. \A r \in Rids : r \notin Dirty(n)  BY <2>2 DEF ToldRows, ToldRow, Untold
    <2> QED  BY <2>3, NoDirty
<1>4. Ready(n) <=> Ready(c)  BY <1>1, <1>2 DEF Ready
<1>5. MetaOk(sc, n)  BY <1>1, <1>2 DEF MetaOk
<1>6. BuildOk(sc, n)  BY <1>1, <1>2, <1>3, <1>4 DEF BuildOk
<1> QED  BY <1>5, <1>6

LEMMA BatchMatches ==
    ASSUME NEW c \in Shape, NEW n \in Shape, NEW sc, NEW defer \in BOOLEAN, NEW rows, NEW k,
           NEW w \in [Rids -> Cells], NEW v \in [Rids -> Cells], NEW js \in Seq(AnyJob),
           SameOrders(c, n), n.indexed = c.indexed, n.exists = c.exists, c.exists,
           ToldRows(c, n, rows, defer, w, v, k), StoredOk(c, n, rows, defer, v, k),
           FirstChanges(c, rows, k), LateColumn(sc) => ~defer, IndexMatches(n, v),
           Matches(sc, c, js, w),
           NEW more \in Seq(AnyJob),
           \A i \in 1..Len(more) : more[i].kind # "column" /\ more[i].kind # "index"
    PROVE  Matches(sc, n, js \o more, v)
<1>1. /\ RowsMatch(c, w) /\ JobsOk(js, c, w)
      /\ MetaOk(sc, c) /\ BuildOk(sc, c) /\ NoColumnJobs(sc, js)
    BY DEF Matches
<1>2. n.columned = c.columned /\ n.tokens = c.tokens  BY DEF SameOrders
<1>3. RowsMatch(n, v)  BY <1>1, <1>2, BatchRows
<1>4. MetaOk(sc, n) /\ BuildOk(sc, n)  BY <1>1, BatchOrders
<1>5. (\A i \in 1..Len(js) : JobOk(js[i], c, w)) /\ ColumnJobs(js)  BY <1>1 DEF JobsOk
<1>6. \A i \in 1..Len(js) : JobOk(js[i], n, v)
    <2> TAKE i \in 1..Len(js)
    <2>1. js[i] \in AnyJob  BY ElementOfSeq
    <2>2. PICK job \in AnyJob : job = js[i]  BY <2>1
    <2>3. JobOk(job, c, w)  BY <1>5, <2>2
    <2>4. JobOk(job, n, v)  BY <1>2, <2>3, BatchJob
    <2> QED  BY <2>2, <2>4
<1>7. n.exists  OBVIOUS
<1>8. JobsOk(js \o more, n, v) /\ NoColumnJobs(sc, js \o more)
    BY <1>1, <1>5, <1>6, <1>7, MoreOtherJobs
<1> QED  BY <1>3, <1>4, <1>8 DEF Matches

----------------------------------------------------------------------------
\* Puts.

LEMMA WritesElse ==
    ASSUME NEW n \in Nat, NEW rows, NEW w, NEW W, WritesBy(W, rows, n, w)
    PROVE  \A i \in 0..n, r \in Rids : ~Rows(rows, i, r) => W[i][r] = w[r]
<1> DEFINE At(i) == \A r \in Rids : ~Rows(rows, i, r) => W[i][r] = w[r]
           T == {m \in Nat : m <= n => At(m)}
<1>1. /\ W \in [0..n -> [Rids -> Cells]] /\ W[0] = w
      /\ \A i \in 1..n : W[i] = [W[i - 1] EXCEPT ![rows[i].rid] = rows[i].field]
    BY DEF WritesBy
<1>2. 0 \in T  BY <1>1
<1>3. ASSUME NEW m \in Nat, m \in T PROVE m + 1 \in T
    <2> SUFFICES ASSUME m + 1 <= n, NEW r \in Rids, ~Rows(rows, m + 1, r) PROVE W[m + 1][r] = w[r]
        OBVIOUS
    <2>1. PICK i \in 1..n : i = m + 1  OBVIOUS
    <2>2. i - 1 = m /\ m \in 0..n  BY <2>1
    <2>3. W[m + 1] = [W[m] EXCEPT ![rows[m + 1].rid] = rows[m + 1].field] /\ W[m] \in [Rids -> Cells]
        BY <1>1, <2>1, <2>2
    <2>4. m + 1 \in 1..(m + 1) /\ \A j \in 1..m : j \in 1..(m + 1)  OBVIOUS
    <2>5. rows[m + 1].rid # r /\ ~Rows(rows, m, r)  BY <2>4 DEF Rows
    <2>6. W[m][r] = w[r]  BY <1>3, <2>1, <2>5
    <2> QED  BY <2>3, <2>5, <2>6
<1>4. \A i \in Nat : i \in T
    <2> HIDE DEF T
    <2> TAKE i \in Nat
    <2> QED  BY <1>2, <1>3, NatSetInduction
<1>5. \A i \in 0..n : At(i)
    <2> TAKE i \in 0..n
    <2>1. i \in Nat /\ i <= n  OBVIOUS
    <2> QED  BY <1>4, <2>1
<1> QED  BY <1>5

\* A row that no put of the batch has stored is as it was; one that has been stored
\* is read as it was put when there is no column.
BeforePuts(c, rows, k) ==
    c.indexed \/ c.build.status = "building" =>
        \A i \in 1..k : ~Rows(rows, i - 1, rows[i].rid) \/ ~c.columned

LEMMA PutBefore ==
    ASSUME NEW c \in Shape, NEW k \in Nat, NEW rows, NEW keep \in BOOLEAN,
           \A i \in 1..k : rows[i] \in RowType, BeforePuts(c, rows, k),
           NEW f, PutChain(f, c, rows, keep, k),
           NEW w \in [Rids -> Cells], NEW W, WritesBy(W, rows, k, w),
           Present(c, w), RowsMatch(c, w)
    PROVE  /\ ChangesBy(W, f[k].deltas, k, w) /\ BeforeOk(c, f[k].deltas, W, k)
           /\ SameDerived(c, f[k].c) /\ f[k] \in Batch /\ Len(f[k].deltas) = k
           /\ \A r : Rows(f[k].deltas, k, r) <=> Rows(rows, k, r)
           /\ FirstChanges(c, rows, k) => FirstChanges(f[k].c, f[k].deltas, k)
<1> DEFINE x == f[k]
<1>1. \A i \in 0..k : PutTo(f[i], c, rows, keep, i, W[i])  BY PutChainFacts
<1>2. \A i \in 1..k, j \in 1..k : i <= j => f[j].deltas[i].before = Hydrated(f[i - 1].c, rows[i].rid)
    BY PutChainFacts
<1>3. PutTo(x, c, rows, keep, k, W[k])  BY <1>1
<1>4. /\ x \in Batch /\ SameDerived(c, x.c) /\ Len(x.deltas) = k
      /\ \A i \in 1..k : x.deltas[i].rid = rows[i].rid /\ x.deltas[i].after = rows[i].field
    BY <1>3 DEF PutTo
<1>5. /\ W \in [0..k -> [Rids -> Cells]] /\ W[0] = w
      /\ \A i \in 1..k : W[i] = [W[i - 1] EXCEPT ![rows[i].rid] = rows[i].field]
    BY DEF WritesBy
<1>6. \A i \in 1..k : x.deltas[i].before = Hydrated(f[i - 1].c, rows[i].rid)
    <2> TAKE i \in 1..k
    <2>1. k \in 1..k /\ i <= k  OBVIOUS
    <2> QED  BY <1>2, <2>1
<1>7. \A i \in 1..k : x.deltas[i] \in Delta
    <2>1. x.deltas \in Seq(Delta)  BY <1>4 DEF Batch
    <2> QED  BY <1>4, <2>1, ElementOfSeq
<1> HIDE DEF x
<1>8. ChangesBy(W, x.deltas, k, w)
    <2>1. ASSUME NEW i \in 1..k PROVE W[i] = [W[i - 1] EXCEPT ![x.deltas[i].rid] = x.deltas[i].after]
        <3>1. x.deltas[i].rid = rows[i].rid /\ x.deltas[i].after = rows[i].field  BY <1>4
        <3>2. W[i] = [W[i - 1] EXCEPT ![rows[i].rid] = rows[i].field]  BY <1>5
        <3> QED  BY <3>1, <3>2
    <2> QED  BY ZenonT(20), <1>5, <1>7, <2>1 DEF ChangesBy
<1>9. BeforeOk(c, x.deltas, W, k)
    <2> SUFFICES ASSUME c.indexed \/ c.build.status = "building", NEW i \in 1..k
                 PROVE  x.deltas[i].before = W[i - 1][x.deltas[i].rid]
        BY DEF BeforeOk
    <2> DEFINE p == f[i - 1].c
               q == rows[i].rid
    <2>1. i - 1 \in 0..k /\ q \in Rids  BY DEF RowType
    <2>2. PutTo(f[i - 1], c, rows, keep, i - 1, W[i - 1])  BY <1>1, <2>1
    <2>3. /\ SameDerived(c, p)
          /\ p.base[q] = IF Rows(rows, i - 1, q) THEN Kept(c, keep, W[i - 1][q]) ELSE c.base[q]
        BY <2>1, <2>2 DEF PutTo
    <2>4. p.dirty = c.dirty /\ p.columned = c.columned /\ p.column = c.column
        BY <2>3 DEF SameDerived
    <2>5. ~Rows(rows, i - 1, q) \/ ~c.columned  BY DEF BeforePuts
    <2>6. Hydrated(p, q) = W[i - 1][q]
        <3>1. CASE ~Rows(rows, i - 1, q)
            <4>1. W[i - 1][q] = w[q]  BY <2>1, <3>1, WritesElse
            <4>2. p.base[q] = c.base[q]  BY <2>3, <3>1
            <4>3. Hydrated(p, q) = Hydrated(c, q)  BY <2>4, <4>2 DEF Hydrated, Dirty
            <4>4. c.base[q] = Gone <=> w[q] = Gone  BY <2>1 DEF Present
            <4>5. RowMatches(c, w, q)  BY <2>1 DEF RowsMatch
            <4>6. Hydrated(c, q) = w[q]  BY <2>1, <4>4, <4>5, ReadFacts
            <4> QED  BY <4>1, <4>3, <4>6
        <3>2. CASE Rows(rows, i - 1, q) /\ ~c.columned
            <4>1. Kept(c, keep, W[i - 1][q]) = W[i - 1][q]  BY <3>2 DEF Kept, BaseValue, Ready
            <4>2. Hydrated(p, q) = p.base[q]  BY <2>4, <3>2 DEF Hydrated
            <4> QED  BY <2>3, <3>2, <4>1, <4>2
        <3> QED  BY <2>5, <3>1, <3>2
    <2> QED  BY <1>4, <1>6, <2>6
<1>10. \A r : Rows(x.deltas, k, r) <=> Rows(rows, k, r)  BY <1>4 DEF Rows
<1>11. FirstChanges(c, rows, k) => FirstChanges(x.c, x.deltas, k)
    <2>1. x.c.build = c.build  BY <1>4 DEF SameDerived
    <2> QED  BY <1>4, <2>1 DEF FirstChanges
<1> QED  BY <1>4, <1>8, <1>9, <1>10, <1>11 DEF x

\* What a batch makes of a collection.
PutMatch(c, n, rows, defer, w, v, k) ==
    /\ SameOrders(c, n) /\ n.indexed = c.indexed /\ n.exists = c.exists
    /\ ToldRows(c, n, rows, defer, w, v, k) /\ IndexMatches(n, v)

\* Told of the changes of a batch whose rows are stored.
LEMMA TellBatch ==
    ASSUME NEW c \in Shape, NEW x \in Batch, SameDerived(c, x.c), NEW k \in Nat, Len(x.deltas) = k,
           NEW defer \in BOOLEAN, NEW w \in [Rids -> Cells], NEW W, ChangesBy(W, x.deltas, k, w),
           BeforeOk(c, x.deltas, W, k), FirstChanges(x.c, x.deltas, k), IndexMatches(c, w)
    PROVE  PutMatch(c, ApplyIndexDeltas(x, defer), x.deltas, defer, w, W[k], k)
<1> DEFINE n == ApplyIndexDeltas(x, defer)
           t == Told(x.c, x.deltas, defer, k)
           p == x.c
           v == W[k]
<1>1. /\ n \in Shape /\ SameRows(p, n)
      /\ n.meta = p.meta /\ n.indexed = p.indexed /\ n.columned = p.columned
      /\ n.tokens = p.tokens /\ n.indexBuildPending = p.indexBuildPending
      /\ n.build = t.build /\ n.index = t.index /\ n.column = t.column /\ n.dirty = t.dirty
    BY ApplyIndexDeltasFacts
<1>2. p \in Shape  BY DEF Batch
<1>3. /\ p.exists = c.exists /\ p.meta = c.meta /\ p.indexed = c.indexed /\ p.index = c.index
      /\ p.build = c.build /\ p.tokens = c.tokens /\ p.columned = c.columned
      /\ p.column = c.column /\ p.dirty = c.dirty /\ p.indexBuildPending = c.indexBuildPending
    BY DEF SameDerived
<1>4. IndexMatches(p, w) /\ BeforeOk(p, x.deltas, W, k)
    BY <1>3 DEF IndexMatches, BeforeOk, Dirty
<1>5. ToldRows(p, t, x.deltas, defer, w, v, k) /\ IndexMatches(t, v)
    BY <1>2, <1>4, ToldRowsFacts
<1>6. t.indexed = p.indexed
    <2>1. \A i \in 1..k : x.deltas[i] \in Delta  BY DEF ChangesBy
    <2>2. ToldTo(p, t)  BY <1>2, <2>1, ToldFacts
    <2> QED  BY <2>2 DEF ToldTo, SameMeta
<1> HIDE DEF n, t, p, v
<1>7. IndexMatches(n, v)  BY <1>1, <1>5, <1>6 DEF IndexMatches, Dirty
<1>8. /\ Building(p) <=> Building(c)
      /\ Dirty(p) = Dirty(c) /\ Dirty(n) = Dirty(t)
    BY <1>1, <1>3 DEF Building, Dirty
<1>9. SameColumn(c, n)  BY <1>1, <1>3, <1>5 DEF ToldRows, SameColumn
<1>10. \A r \in Rids : Rows(x.deltas, k, r) => ToldRow(c, n, defer, w, v, r)
    <2> TAKE r \in Rids
    <2> HAVE Rows(x.deltas, k, r)
    <2>1. ToldRow(p, t, defer, w, v, r)  BY <1>5 DEF ToldRows
    <2> QED  BY <1>1, <1>3, <1>8, <2>1 DEF ToldRow
<1>11. \A r \in Rids : ~Rows(x.deltas, k, r) => Untold(c, n, r) /\ v[r] = w[r]
    <2> TAKE r \in Rids
    <2> HAVE ~Rows(x.deltas, k, r)
    <2>1. Untold(p, t, r) /\ v[r] = w[r]  BY <1>5 DEF ToldRows
    <2> QED  BY <1>1, <1>3, <1>8, <2>1 DEF Untold
<1>12. ToldRows(c, n, x.deltas, defer, w, v, k)  BY <1>9, <1>10, <1>11 DEF ToldRows
<1>13. SameOrders(c, n) /\ n.indexed = c.indexed /\ n.exists = c.exists
    BY <1>1, <1>3 DEF SameOrders, SameRows
<1> QED  BY <1>7, <1>12, <1>13 DEF PutMatch, n, v

LEMMA SameBatch ==
    ASSUME NEW c, NEW n, NEW rows, NEW deltas, NEW defer, NEW w, NEW v, NEW k,
           \A r : Rows(deltas, k, r) <=> Rows(rows, k, r), PutMatch(c, n, deltas, defer, w, v, k)
    PROVE  PutMatch(c, n, rows, defer, w, v, k)
BY DEF PutMatch, ToldRows

LEMMA PutMatches ==
    ASSUME NEW c \in Shape, Scoped(c), NEW k \in Nat, NEW rows,
           NEW keep \in BOOLEAN, NEW defer \in BOOLEAN,
           \A i \in 1..k : rows[i] \in RowType, BeforePuts(c, rows, k), FirstChanges(c, rows, k),
           NEW w \in [Rids -> Cells], NEW W, WritesBy(W, rows, k, w),
           Present(c, w), RowsMatch(c, w), IndexMatches(c, w)
    PROVE  PutMatch(c, ApplyIndexDeltas(Put(c, rows, keep, k), defer), rows, defer, w, W[k], k)
<1>1. PICK f : Put(c, rows, keep, k) = f[k] /\ PutChain(f, c, rows, keep, k)  BY PutSteps
<1>2. PICK x : x = f[k]  OBVIOUS
<1>3. /\ ChangesBy(W, x.deltas, k, w) /\ BeforeOk(c, x.deltas, W, k)
      /\ SameDerived(c, x.c) /\ x \in Batch /\ Len(x.deltas) = k
      /\ \A r : Rows(x.deltas, k, r) <=> Rows(rows, k, r)
      /\ FirstChanges(x.c, x.deltas, k)
    <2>1. /\ ChangesBy(W, f[k].deltas, k, w) /\ BeforeOk(c, f[k].deltas, W, k)
          /\ SameDerived(c, f[k].c) /\ f[k] \in Batch /\ Len(f[k].deltas) = k
          /\ \A r : Rows(f[k].deltas, k, r) <=> Rows(rows, k, r)
          /\ FirstChanges(c, rows, k) => FirstChanges(f[k].c, f[k].deltas, k)
        BY <1>1, PutBefore
    <2> QED  BY <1>2, <2>1
<1>4. PutMatch(c, ApplyIndexDeltas(x, defer), x.deltas, defer, w, W[k], k)  BY <1>3, TellBatch
<1>5. PutMatch(c, ApplyIndexDeltas(x, defer), rows, defer, w, W[k], k)  BY <1>3, <1>4, SameBatch
<1> QED  BY <1>1, <1>2, <1>5

----------------------------------------------------------------------------
\* Batches of a regular scenario.

LEMMA CatchupMore ==
    ASSUME NEW c
    PROVE  /\ Catchup(c) \in Seq(AnyJob)
           /\ \A i \in 1..Len(Catchup(c)) :
                 Catchup(c)[i].kind # "column" /\ Catchup(c)[i].kind # "index"
<1> DEFINE job == Job("dirty", 0)
<1>1. job \in AnyJob /\ job.kind = "dirty"  BY JobTypes, JobKinds DEF AnyJob, OwnKinds
<1>2. CASE c.dirtyBuild /\ ~coll.dirtyBuild
    <2>1. Catchup(c) = <<job>>  BY <1>2 DEF Catchup
    <2> HIDE DEF job
    <2>2. Len(<<job>>) = 1 /\ <<job>>[1] = job /\ <<job>> \in Seq(AnyJob)  BY <1>1
    <2>3. \A i \in 1..1 : i = 1  OBVIOUS
    <2> QED  BY <1>1, <2>1, <2>2, <2>3
<1>3. CASE ~(c.dirtyBuild /\ ~coll.dirtyBuild)
    <2>1. Catchup(c) = <<>>  BY <1>3 DEF Catchup
    <2>2. \A i \in 1..0 : FALSE  OBVIOUS
    <2> QED  BY <2>1, <2>2, EmptySeq
<1> QED  BY <1>2, <1>3

LEMMA NoAgain ==
    ASSUME BuildOk(scenario, coll), Regular(scenario), NEW rids, Writable(rids),
           coll.build.status = "building"
    PROVE  \A r \in rids : coll.build.pending[r] = NoChange
<1>1. scenario.start = "restored"  BY DEF BuildOk
<1>2. "again" \notin scenario.may  BY <1>1 DEF Regular, WrittenOnce
<1> QED  BY <1>2 DEF Writable

LEMMA NoLargeBatch ==
    ASSUME Regular(scenario), NEW size \in scenario.sizes, LateColumn(scenario)
    PROVE  size # "large"
BY DEF Regular, LargeElsewhere

\* A row written twice in a batch is not both indexed and in a column.
LEMMA OneOrOther ==
    ASSUME MetaOk(scenario, coll), Regular(scenario), "twice" \in scenario.may,
           coll.indexed \/ coll.build.status = "building"
    PROVE  ~coll.columned
<1>1. coll.meta.index  BY DEF MetaOk
<1>2. coll.meta # NoMeta  BY <1>1 DEF NoMeta
<1>3. coll.meta \in {scenario.meta} \cup scenario.metas  BY <1>2 DEF MetaOk
<1>4. ~(coll.meta.index /\ coll.meta.column)  BY <1>3 DEF Regular, WrittenOnce
<1> QED  BY <1>1, <1>4 DEF MetaOk

LEMMA MatchPut ==
    ASSUME StateInv, MatchInv, Regular(scenario), NEW rows \in Batches, NEW size \in scenario.sizes,
           PutRows(rows, size)
    PROVE  MatchInv'
<1> DEFINE k == Len(rows)
<1>0. /\ scenario \in Scenarios /\ written \in [Rids -> Cells]
      /\ coll \in Shape /\ Scoped(coll) /\ Present(coll, written) /\ jobs \in Seq(AnyJob)
    BY DEF StateInv, CollOk, JobsTyped
<1>1. Matches(scenario, coll, jobs, written)  BY DEF MatchInv
<1>2. /\ IndexMatches(coll, written) /\ RowsMatch(coll, written)
      /\ MetaOk(scenario, coll) /\ BuildOk(scenario, coll)
    BY <1>1 DEF Matches
<1>3. PutObjects(rows, size)  BY DEF PutRows
<1>4. /\ \E keep, defer \in BOOLEAN : \E W :
             /\ PutBy(rows, keep, defer, W)
             /\ keep <=> size # "small" /\ HasIndexWork
             /\ defer <=> size = "large" /\ HasIndexWork
      /\ jobs' = jobs \o Catchup(coll') /\ scenario' = scenario /\ coll.exists
    BY <1>3, PutObjectsFacts
<1>5. PICK keep \in BOOLEAN, defer \in BOOLEAN :
             /\ \E W : PutBy(rows, keep, defer, W)
             /\ keep <=> size # "small" /\ HasIndexWork
             /\ defer <=> size = "large" /\ HasIndexWork
    BY <1>4
<1>6. PICK W : PutBy(rows, keep, defer, W)  BY <1>5
<1>7. /\ k \in 1..2 /\ k \in Nat /\ DOMAIN rows = 1..k /\ \A i \in 1..k : rows[i] \in RowType
      /\ k = 2 /\ rows[1].rid = rows[2].rid => "twice" \in scenario.may
    BY <1>0, BatchFacts
<1>8. coll' \in Shape
    <2>1. StateInv'  BY StatePut
    <2> QED  BY <2>1 DEF StateInv, CollOk
<1>9. /\ WritesBy(W, rows, k, written) /\ W[k] = written'
      /\ coll' = ApplyIndexDeltas(Put(coll, rows, keep, k), defer)
      /\ Filed(coll, coll', rows, keep, defer, k, written')
    BY <1>6 DEF PutBy
<1>10. written' \in [Rids -> Cells]  BY <1>7, <1>9 DEF WritesBy
<1>11. FirstChanges(coll, rows, k)
    <2>1. Writable({rows[i].rid : i \in DOMAIN rows})  BY <1>3 DEF PutObjects
    <2>2. coll.build.status = "building" =>
              \A r \in {rows[i].rid : i \in DOMAIN rows} : coll.build.pending[r] = NoChange
        BY <1>2, <2>1, NoAgain
    <2> QED  BY <1>7, <2>2 DEF FirstChanges
<1>12. BeforePuts(coll, rows, k)
    <2> SUFFICES ASSUME coll.indexed \/ coll.build.status = "building", NEW i \in 1..k,
                        Rows(rows, i - 1, rows[i].rid)
                 PROVE  ~coll.columned
        BY DEF BeforePuts
    <2>1. PICK j \in 1..(i - 1) : rows[j].rid = rows[i].rid  BY DEF Rows
    <2>2. j = 1 /\ i = 2 /\ k = 2  BY <1>7
    <2>3. rows[1].rid = rows[2].rid  BY <2>1, <2>2
    <2> QED  BY <1>2, <1>7, <2>2, <2>3, OneOrOther
<1> HIDE DEF k
<1>13. PutMatch(coll, coll', rows, defer, written, W[k], k)
    <2>1. PutMatch(coll, ApplyIndexDeltas(Put(coll, rows, keep, k), defer), rows, defer, written, W[k], k)
        BY <1>0, <1>2, <1>7, <1>9, <1>11, <1>12, PutMatches
    <2> QED  BY <1>9, <2>1
<1>14. PutMatch(coll, coll', rows, defer, written, written', k)  BY <1>9, <1>13
<1>15. StoredOk(coll, coll', rows, defer, written', k)
    <2>1. \A r \in Rids : coll'.base[r] = IF Rows(rows, k, r) THEN Kept(coll, keep, written'[r])
                                          ELSE coll.base[r]
        BY <1>9 DEF Filed
    <2>2. \A v : /\ Kept(coll, keep, v) \in {v, Absent}
                 /\ keep \/ coll.dirty # <<>> \/ ~Ready(coll) => Kept(coll, keep, v) = v
        BY DEF Kept, BaseValue
    <2>3. defer => keep  BY <1>5
    <2> QED  BY <2>1, <2>2, <2>3 DEF StoredOk
<1>16. LateColumn(scenario) => ~defer  BY <1>5, NoLargeBatch
<1>17. /\ Catchup(coll') \in Seq(AnyJob)
       /\ \A i \in 1..Len(Catchup(coll')) :
             Catchup(coll')[i].kind # "column" /\ Catchup(coll')[i].kind # "index"
    BY CatchupMore
<1>18. /\ SameOrders(coll, coll') /\ coll'.indexed = coll.indexed /\ coll'.exists = coll.exists
       /\ ToldRows(coll, coll', rows, defer, written, written', k) /\ IndexMatches(coll', written')
    BY <1>14 DEF PutMatch
<1>19. Matches(scenario, coll', jobs \o Catchup(coll'), written')
    BY <1>0, <1>1, <1>4, <1>8, <1>10, <1>11, <1>15, <1>16, <1>17, <1>18, BatchMatches
<1>20. Matches(scenario', coll', jobs', written')  BY <1>4, <1>19
<1> QED  BY <1>20 DEF MatchInv

LEMMA MatchDelete ==
    ASSUME StateInv, MatchInv, Regular(scenario), NEW r \in Rids, NEW size \in scenario.sizes,
           DeleteRows(<<r>>, size)
    PROVE  MatchInv'
<1> DEFINE d == [rid |-> r, before |-> Hydrated(coll, r), after |-> Gone]
           s == Single(coll)
           x == DeleteObject(s, r)
           W == [i \in 0..1 |-> IF i = 0 THEN written ELSE written']
<1>0. /\ scenario \in Scenarios /\ written \in [Rids -> Cells]
      /\ coll \in Shape /\ Scoped(coll) /\ Present(coll, written) /\ jobs \in Seq(AnyJob)
    BY DEF StateInv, CollOk, JobsTyped
<1>1. Matches(scenario, coll, jobs, written)  BY DEF MatchInv
<1>2. /\ IndexMatches(coll, written) /\ RowsMatch(coll, written)
      /\ MetaOk(scenario, coll) /\ BuildOk(scenario, coll)
    BY <1>1 DEF Matches
<1>3. DeleteObjects(<<r>>, size)  BY DEF DeleteRows
<1>4. /\ coll.base[r] # Gone /\ written' = [written EXCEPT ![r] = Gone]
      /\ jobs' = jobs \o Catchup(coll') /\ scenario' = scenario /\ coll.exists
    BY <1>0, <1>3, DeleteObjectsFacts
<1>5. PICK defer \in BOOLEAN : /\ coll' = ApplyIndexDeltas(x, defer)
                               /\ defer <=> size = "large" /\ HasIndexWork
    BY <1>0, <1>3, DeleteObjectsFacts
<1>6. s \in Batch /\ s.c = coll /\ s.deltas = <<>>  BY <1>0, EmptySeq DEF Batch, Single
<1> HIDE DEF s
<1>7. /\ x \in Batch /\ SameDerived(coll, x.c)
      /\ x.c.base = [coll.base EXCEPT ![r] = Gone] /\ x.deltas = Append(<<>>, d)
    BY <1>4, <1>6, DeleteObjectFacts
<1> HIDE DEF x
<1>8. x.deltas = <<d>> /\ Len(x.deltas) = 1 /\ x.deltas[1] = d
    <2> HIDE DEF d
    <2> QED  BY <1>7
<1>9. coll' \in Shape
    <2>1. StateInv'  BY StateDelete
    <2> QED  BY <2>1 DEF StateInv, CollOk
<1>10. written' \in [Rids -> Cells]  BY <1>0, <1>4, CellFacts
<1>11. Hydrated(coll, r) = written[r]
    <2>1. coll.base[r] = Gone <=> written[r] = Gone  BY <1>0 DEF Present
    <2>2. RowMatches(coll, written, r)  BY <1>2 DEF RowsMatch
    <2> QED  BY <1>0, <2>1, <2>2, ReadFacts
<1>12. d \in Delta /\ d.rid = r /\ d.before = written[r] /\ d.after = Gone
    BY <1>0, <1>11, CellFacts DEF Delta
<1> HIDE DEF d
<1>13. W \in [0..1 -> [Rids -> Cells]] /\ W[0] = written /\ W[1] = written'  BY <1>0, <1>10
<1> HIDE DEF W
<1>14. \A i \in 1..1 : i = 1 /\ i - 1 = 0  OBVIOUS
<1>15. ChangesBy(W, x.deltas, 1, written) /\ BeforeOk(coll, x.deltas, W, 1)
    BY <1>4, <1>8, <1>12, <1>13, <1>14 DEF ChangesBy, BeforeOk
<1>16. \A q : Rows(x.deltas, 1, q) <=> q = r  BY <1>8, <1>12, <1>14 DEF Rows
<1>17. FirstChanges(coll, x.deltas, 1) /\ FirstChanges(x.c, x.deltas, 1)
    <2>1. Writable(Range(<<r>>))  BY <1>3 DEF DeleteObjects
    <2>2. r \in Range(<<r>>)
        <3>1. 1 \in DOMAIN <<r>> /\ <<r>>[1] = r  OBVIOUS
        <3> QED  BY <3>1 DEF Range
    <2>3. coll.build.status = "building" => coll.build.pending[r] = NoChange
        BY <1>2, <2>1, <2>2, NoAgain
    <2>4. x.c.build = coll.build  BY <1>7 DEF SameDerived
    <2> QED  BY <1>8, <1>12, <1>14, <2>3, <2>4 DEF FirstChanges
<1>18. PutMatch(coll, coll', x.deltas, defer, written, written', 1)
    <2>1. 1 \in Nat  OBVIOUS
    <2>2. PutMatch(coll, ApplyIndexDeltas(x, defer), x.deltas, defer, written, W[1], 1)
        BY ZenonT(20), <1>0, <1>2, <1>7, <1>8, <1>15, <1>17, <2>1, TellBatch
    <2> QED  BY <1>5, <1>13, <2>2
<1>19. StoredOk(coll, coll', x.deltas, defer, written', 1)
    <2>1. SameRows(x.c, coll')
        <3>1. SameRows(x.c, ApplyIndexDeltas(x, defer))  BY <1>7, ApplyIndexDeltasFacts
        <3> QED  BY <1>5, <3>1
    <2>2. coll'.base = [coll.base EXCEPT ![r] = Gone]  BY <1>7, <2>1 DEF SameRows
    <2>3. coll.base \in [Rids -> Cells]  BY <1>0 DEF Shape
    <2>4. /\ \A q \in Rids : q # r => coll'.base[q] = coll.base[q]
          /\ coll'.base[r] = Gone /\ written'[r] = Gone
        BY <1>0, <1>4, <2>2, <2>3
    <2> QED  BY <1>16, <2>4 DEF StoredOk
<1>20. LateColumn(scenario) => ~defer  BY <1>5, NoLargeBatch
<1>21. /\ Catchup(coll') \in Seq(AnyJob)
       /\ \A i \in 1..Len(Catchup(coll')) :
             Catchup(coll')[i].kind # "column" /\ Catchup(coll')[i].kind # "index"
    BY CatchupMore
<1>22. /\ SameOrders(coll, coll') /\ coll'.indexed = coll.indexed /\ coll'.exists = coll.exists
       /\ ToldRows(coll, coll', x.deltas, defer, written, written', 1)
       /\ IndexMatches(coll', written')
    BY <1>18 DEF PutMatch
<1>23. Matches(scenario, coll', jobs \o Catchup(coll'), written')
    BY <1>0, <1>1, <1>4, <1>9, <1>10, <1>17, <1>19, <1>20, <1>21, <1>22, BatchMatches
<1>24. Matches(scenario', coll', jobs', written')  BY <1>4, <1>23
<1> QED  BY <1>24 DEF MatchInv

----------------------------------------------------------------------------
\* The start of a regular scenario.

LEMMA NoBuildStatus == NoBuild.status = "none" /\ EmptyColumn.status = "ready"
BY DEF NoBuild, EmptyColumn

LEMMA NoJobs ==
    ASSUME NEW c, NEW w, NEW sc
    PROVE  c.exists => JobsOk(<<>>, c, w) /\ NoColumnJobs(sc, <<>>)
<1>1. Len(<<>>) = 0 /\ \A i \in 1..0 : FALSE  OBVIOUS
<1> QED  BY <1>1 DEF JobsOk, ColumnJobs, NoColumnJobs

\* Structures that know of no row.
Fresh(c, w) ==
    /\ c.exists /\ c.dirty = <<>> /\ c.build = NoBuild
    /\ \A r \in Rids : c.base[r] = w[r]
    /\ c.indexed => c.index = EmptyIndex /\ \A r \in Rids : w[r] = Gone
    /\ c.columned => Ready(c) /\ \A r \in Rids : c.column.vals[r] = Absent /\ w[r] = Gone

LEMMA FreshMatches ==
    ASSUME NEW c \in Shape, NEW w \in [Rids -> Cells], NEW sc, Fresh(c, w), MetaOk(sc, c), BuildOk(sc, c)
    PROVE  Matches(sc, c, <<>>, w)
<1>1. IndexMatches(c, w)
    <2> SUFFICES ASSUME c.indexed PROVE Paired(c.index) /\ \A r \in Rids : c.index.forward[r] = w[r]
        BY DEF IndexMatches
    <2>1. c.index = EmptyIndex /\ \A r \in Rids : w[r] = Gone  BY DEF Fresh
    <2> QED  BY <2>1, EmptyPaired
<1>2. RowsMatch(c, w)
    <2> SUFFICES ASSUME NEW r \in Rids PROVE RowMatches(c, w, r)  BY DEF RowsMatch
    <2>1. c.base[r] = w[r]  BY DEF Fresh
    <2>2. ~Building(c)  BY DEF Fresh, Building, Ready
    <2>3. c.columned => Split(c, w, r)
        <3> HAVE c.columned
        <3>1. c.column.vals[r] = Absent /\ w[r] = Gone  BY DEF Fresh
        <3> QED  BY <2>1, <3>1 DEF Split, ColumnState
    <2> QED  BY <2>1, <2>2, <2>3 DEF RowMatches
<1>3. c.exists  BY DEF Fresh
<1> QED  BY <1>1, <1>2, <1>3, NoJobs DEF Matches

\* An empty collection filled with rows.
LEMMA FilledMatches ==
    ASSUME NEW c \in Shape, Scoped(c), Once(c.dirty), ~c.dirtyBuild,
           NEW sc, MetaOk(sc, c), BuildOk(sc, c),
           NEW w, w = [r \in Rids |-> Gone], Fresh(c, w),
           NEW rows \in Seq(Fields), Len(rows) \in 0..MaxRid,
           \A i \in 1..Len(rows) : rows[i] \in Fields /\ i \in Rids
    PROVE  Matches(sc, Filled(c, rows), <<>>, StartRows(rows))
<1> DEFINE n == Len(rows)
           W == StartWrites(rows)
           P == StartPuts(rows)
           no == FALSE
           x == ApplyIndexDeltas(Put(c, P, no, n), no)
           v == StartRows(rows)
<1>0. w \in [Rids -> Cells] /\ no \in BOOLEAN /\ ~no  BY CellFacts
<1>1. /\ v \in [Rids -> Cells] /\ n \in Nat
      /\ \A i \in 1..n : P[i] \in RowType
      /\ WritesBy(W, P, n, w) /\ W[n] = v
    BY StartFacts
<1>2. Filled(c, rows) = x  BY DEF Filled, StartPuts
<1>3. \A i \in 1..n : P[i].rid = i  BY DEF StartPuts
<1>4. x \in Shape
    <2>1. \A r \in Rids : c.base[r] = Gone  BY DEF Fresh
    <2>2. c.exists  BY DEF Fresh
    <2>3. CollOk(Filled(c, rows), v)  BY <2>1, <2>2, FilledFacts
    <2> QED  BY <1>2, <2>3 DEF CollOk
<1> HIDE DEF W, P, n, no
<1>5. Matches(sc, c, <<>>, w)  BY <1>0, FreshMatches
<1>6. RowsMatch(c, w) /\ IndexMatches(c, w)  BY <1>5 DEF Matches
<1>7. FirstChanges(c, P, n) /\ c.exists /\ c.dirty = <<>>
    BY NoBuildStatus DEF FirstChanges, Fresh
<1>8. BeforePuts(c, P, n)
    <2> SUFFICES ASSUME NEW i \in 1..n, Rows(P, i - 1, P[i].rid) PROVE FALSE  BY DEF BeforePuts
    <2>1. PICK j \in 1..(i - 1) : P[j].rid = P[i].rid  BY DEF Rows
    <2>2. j \in 1..n /\ j # i  BY <1>1
    <2> QED  BY <1>3, <2>1, <2>2
<1>9. Present(c, w)  BY DEF Present, Fresh
<1>10. PutMatch(c, x, P, no, w, W[n], n)
    BY <1>0, <1>1, <1>6, <1>7, <1>8, <1>9, PutMatches
<1>11. Filed(c, x, P, no, no, n, W[n])  BY <1>0, <1>1, PutsFacts
<1> HIDE DEF x, v
<1>12. StoredOk(c, x, P, no, v, n)
    <2>1. \A r \in Rids : x.base[r] = IF Rows(P, n, r) THEN Kept(c, no, v[r]) ELSE c.base[r]
        BY <1>1, <1>11 DEF Filed
    <2>2. \A u : /\ Kept(c, no, u) \in {u, Absent}
                 /\ no \/ c.dirty # <<>> \/ ~Ready(c) => Kept(c, no, u) = u
        BY DEF Kept, BaseValue
    <2> QED  BY <2>1, <2>2 DEF StoredOk
<1>13. /\ SameOrders(c, x) /\ x.indexed = c.indexed /\ x.exists = c.exists
       /\ ToldRows(c, x, P, no, w, v, n) /\ IndexMatches(x, v)
    BY <1>1, <1>10 DEF PutMatch
<1>14. /\ <<>> \in Seq(AnyJob)
       /\ \A i \in 1..Len(<<>>) : <<>>[i].kind # "column" /\ <<>>[i].kind # "index"
    <2>1. Len(<<>>) = 0 /\ \A i \in 1..0 : FALSE  OBVIOUS
    <2> QED  BY <2>1, EmptySeq
<1>15. PICK js \in Seq(AnyJob) : js = <<>>  BY <1>14
<1>16. Matches(sc, x, js \o js, v)
    <2>1. LateColumn(sc) => ~no  BY <1>0
    <2>2. Matches(sc, c, js, w)  BY <1>5, <1>15
    <2>3. \A i \in 1..Len(js) : js[i].kind # "column" /\ js[i].kind # "index"  BY <1>14, <1>15
    <2> QED  BY <1>0, <1>1, <1>4, <1>7, <1>12, <1>13, <2>1, <2>2, <2>3, BatchMatches
<1>17. <<>> \o <<>> = <<>>  OBVIOUS
<1>18. Matches(sc, x, <<>>, v)  BY <1>15, <1>16, <1>17
<1> QED  BY <1>2, <1>18 DEF v

LEMMA FirstMetaFresh ==
    ASSUME NEW sc \in Scenarios, sc.start = "ready", Regular(sc),
           NEW w, w = [r \in Rids |-> Gone]
    PROVE  LET c == WithMeta(NewCollection, sc.meta)
           IN Fresh(c, w) /\ MetaOk(sc, c) /\ BuildOk(sc, c)
<1> DEFINE nc == NewCollection
           d == [nc EXCEPT !.meta = sc.meta]
           c == WithMeta(nc, sc.meta)
<1>1. sc.meta \in [index : BOOLEAN, column : BOOLEAN]  BY ScenarioFacts
<1>2. /\ nc \in Shape /\ nc.exists /\ nc.live = 0 /\ \A r \in Rids : nc.base[r] = Gone
      /\ ~nc.columned /\ ~nc.indexed /\ nc.dirty = <<>> /\ nc.build = NoBuild
      /\ nc.column = EmptyColumn /\ nc.index = EmptyIndex /\ ~nc.indexBuildPending
    BY NewCollectionFacts
<1> HIDE DEF nc
<1>3. /\ d \in Shape /\ SameRows(nc, d) /\ d.meta = sc.meta
      /\ d.indexed = nc.indexed /\ d.index = nc.index /\ d.build = nc.build
      /\ d.columned = nc.columned /\ d.column = nc.column
    BY <1>1, <1>2, SetMetaShape
<1>4. /\ c \in Shape /\ SameRows(nc, c) /\ c.meta = sc.meta /\ c.dirty = nc.dirty
      /\ c.indexBuildPending = nc.indexBuildPending
      /\ Indexed(d, c, FALSE) /\ Columned(d, c, FALSE)
    BY <1>1, <1>2, WithMetaFacts
<1> HIDE DEF c, d
<1>5. d.live = 0 /\ d.build.status = "none" /\ ~d.indexed /\ ~d.columned /\ d.column = EmptyColumn
    BY <1>2, <1>3, NoBuildStatus DEF SameRows
<1>6. /\ c.build = NoBuild /\ c.index = EmptyIndex
      /\ c.indexed => c.meta.index
    BY <1>3, <1>4, <1>5 DEF Indexed
<1>7. /\ ~c.columned => c.column = EmptyColumn
      /\ c.columned <=> c.meta.column
      /\ c.columned => c.column.status = "ready" /\ \A r \in Rids : c.column.vals[r] = Absent
    BY <1>3, <1>4, <1>5 DEF Columned, Shape
<1>8. c.exists /\ c.dirty = <<>> /\ \A r \in Rids : c.base[r] = Gone
    BY <1>2, <1>4 DEF SameRows
<1>9. \A r \in Rids : w[r] = Gone  OBVIOUS
<1>10. c.column.status = "ready"  BY <1>7, NoBuildStatus
<1>11. Fresh(c, w)  BY <1>6, <1>7, <1>8, <1>9 DEF Fresh, Ready
<1>12. MetaOk(sc, c)  BY <1>4, <1>6, <1>7, NoBuildStatus DEF MetaOk
<1>13. sc.meta.column => ~LateColumn(sc)  BY DEF LateColumn
<1>14. BuildOk(sc, c)
    BY <1>2, <1>4, <1>6, <1>7, <1>8, <1>10, <1>13, NoBuildStatus DEF BuildOk, Ready
<1> QED  BY <1>11, <1>12, <1>14 DEF c, nc

LEMMA MatchInit ==
    ASSUME CollectionInit, Regular(scenario)
    PROVE  MatchInv
<1> DEFINE rows == scenario.rows
           nc == NewCollection
           w == [r \in Rids |-> Gone]
<1>1. scenario \in Scenarios /\ jobs = <<>> /\ written = StartRows(rows)
    BY DEF CollectionInit, Init, StartRows
<1>2. /\ scenario.start \in {"empty", "ready", "restored"}
      /\ rows \in Seq(Fields) /\ Len(rows) \in 0..MaxRid
      /\ \A i \in 1..Len(rows) : rows[i] \in Fields /\ i \in Rids
      /\ scenario.meta \in [index : BOOLEAN, column : BOOLEAN]
    BY <1>1, ScenarioFacts
<1>3. coll = CASE scenario.start = "empty" -> Filled(nc, rows)
               [] scenario.start = "ready" -> Filled(WithMeta(nc, scenario.meta), rows)
               [] scenario.start = "restored" -> Restored([nc EXCEPT !.meta = scenario.meta], rows)
    BY DEF CollectionInit, Init
<1>4. /\ nc \in Shape /\ Scoped(nc) /\ Once(nc.dirty) /\ nc.exists /\ ~nc.dirtyBuild
      /\ \A r \in Rids : nc.base[r] = Gone
      /\ ~nc.columned /\ ~nc.indexed /\ nc.dirty = <<>> /\ nc.build = NoBuild
      /\ nc.column = EmptyColumn /\ nc.index = EmptyIndex /\ ~nc.indexBuildPending
      /\ nc.meta = NoMeta
    BY NewCollectionFacts DEF NoMeta
<1>5. nc.shard = [r \in Rids |-> NoShard] /\ nc.shardRids = [s \in Shards |-> {}]
    BY DEF NewCollection
<1>6. \A r \in Rids : w[r] = Gone  OBVIOUS
<1>7. PICK u : u = w  OBVIOUS
<1>8. \A r \in Rids : u[r] = Gone  BY <1>6, <1>7
<1> HIDE DEF rows
<1>9. CASE scenario.start = "empty"
    <2>1. coll = Filled(nc, rows)  BY <1>3, <1>9
    <2> HIDE DEF nc
    <2>2. Fresh(nc, u)  BY <1>4, <1>8 DEF Fresh
    <2>3. MetaOk(scenario, nc)  BY <1>4, <1>9, NoBuildStatus DEF MetaOk
    <2>4. BuildOk(scenario, nc)  BY <1>4, NoBuildStatus DEF BuildOk
    <2>5. Matches(scenario, Filled(nc, rows), <<>>, StartRows(rows))
        BY <1>2, <1>4, <1>7, <2>2, <2>3, <2>4, FilledMatches
    <2> QED  BY <1>1, <2>1, <2>5 DEF MatchInv
<1>10. CASE scenario.start = "ready"
    <2> DEFINE c == WithMeta(nc, scenario.meta)
    <2>1. coll = Filled(c, rows)  BY <1>3, <1>10
    <2>2. Fresh(c, u) /\ MetaOk(scenario, c) /\ BuildOk(scenario, c)
        BY <1>1, <1>7, <1>10, FirstMetaFresh
    <2> HIDE DEF nc
    <2>3. c \in Shape /\ SameRows(nc, c) /\ c.dirty = nc.dirty /\ c.dirtyBuild = nc.dirtyBuild
        BY <1>2, <1>4, WithMetaFacts
    <2> HIDE DEF c
    <2>4. Scoped(c) /\ Once(c.dirty) /\ ~c.dirtyBuild  BY <1>4, <2>3, SameRowsScoped
    <2>5. Matches(scenario, Filled(c, rows), <<>>, StartRows(rows))
        BY <1>2, <1>7, <2>2, <2>3, <2>4, FilledMatches
    <2> QED  BY <1>1, <2>1, <2>5 DEF MatchInv
<1>11. CASE scenario.start = "restored"
    <2> DEFINE c == [nc EXCEPT !.meta = scenario.meta]
               n == Restored(c, rows)
    <2>1. coll = n  BY <1>3, <1>11
    <2> HIDE DEF nc
    <2>2. /\ c \in Shape /\ SameRows(nc, c) /\ c.dirty = nc.dirty /\ c.dirtyBuild = nc.dirtyBuild
          /\ c.meta = scenario.meta /\ c.indexed = nc.indexed /\ c.build = nc.build
          /\ c.columned = nc.columned /\ c.column = nc.column
        BY <1>2, <1>4, SetMetaShape
    <2> HIDE DEF c
    <2>3. /\ c.exists /\ ~c.dirtyBuild /\ c.dirty = <<>>
          /\ c.shard = [r \in Rids |-> NoShard] /\ c.shardRids = [s \in Shards |-> {}]
        BY <1>4, <1>5, <2>2 DEF SameRows
    <2>4. /\ CollOk(n, StartRows(rows)) /\ n.base = StartRows(rows)
          /\ n.exists /\ n.dirty = <<>> /\ n.meta = c.meta
          /\ n.indexed = c.indexed /\ n.build = c.build
          /\ n.columned = c.columned /\ n.column = c.column
          /\ n.indexBuildPending
        BY ZenonT(20), <1>2, <2>2, <2>3, RestoredFacts
    <2> HIDE DEF n
    <2>5. n \in Shape /\ StartRows(rows) \in [Rids -> Cells]
        <3>1. n \in Shape  BY <2>4 DEF CollOk
        <3> QED  BY <2>4, <3>1 DEF Shape
    <2>6. Fresh(n, StartRows(rows))  BY <1>4, <2>2, <2>4 DEF Fresh
    <2>7. MetaOk(scenario, n)  BY <1>4, <1>11, <2>2, <2>4, NoBuildStatus DEF MetaOk
    <2>8. BuildOk(scenario, n)  BY <1>4, <1>11, <2>2, <2>4, NoBuildStatus DEF BuildOk
    <2>9. Matches(scenario, n, <<>>, StartRows(rows))  BY <2>5, <2>6, <2>7, <2>8, FreshMatches
    <2> QED  BY <1>1, <2>1, <2>9 DEF MatchInv
<1> QED  BY <1>2, <1>9, <1>10, <1>11

----------------------------------------------------------------------------
\* A change of the metadata and the warm-up, as steps of the index and of the column.

SameStored(c, n) == n.exists = c.exists /\ n.base = c.base /\ n.dirty = c.dirty

IndexOff(c, n) == ~n.indexed /\ n.build.status = "none" /\ n.tokens = c.tokens
IndexKept(c, n) ==
    n.indexed = c.indexed /\ n.index = c.index /\ n.build = c.build /\ n.tokens = c.tokens
IndexMade(c, n, w) ==
    /\ n.indexed /\ Paired(n.index) /\ \A r \in Rids : n.index.forward[r] = w[r]
    /\ n.build.status = "none" /\ n.tokens = c.tokens
IndexBegun(c, n) ==
    /\ ~n.indexed /\ n.tokens = c.tokens + 1
    /\ n.build.status = "building" /\ n.build.token = c.tokens + 1
    /\ n.build.pending = NoBuildPending
IndexStep(c, n, w) == IndexOff(c, n) \/ IndexKept(c, n) \/ IndexMade(c, n, w) \/ IndexBegun(c, n)

ColumnOff(c, n) == ~c.columned /\ ~n.columned /\ n.column = EmptyColumn
ColumnKept(c, n) == n.columned = c.columned /\ n.column = c.column
ColumnMade(c, n, w) ==
    /\ n.columned /\ n.column.status = "ready" /\ n.column.id = c.column.id + 1
    /\ \A r \in Rids : n.column.vals[r] = Absent /\ w[r] = Gone
ColumnBegun(c, n) ==
    /\ ~c.columned /\ n.columned /\ n.column.status = "building" /\ n.column.id = c.column.id + 1
    /\ \A r \in Rids : n.column.vals[r] = Absent /\ n.column.pending[r] = Untouched
ColumnStep(c, n, w) ==
    ColumnOff(c, n) \/ ColumnKept(c, n) \/ ColumnMade(c, n, w) \/ ColumnBegun(c, n)

LEMMA StepIndex ==
    ASSUME NEW c, NEW n, NEW w, IndexMatches(c, w), IndexStep(c, n, w), n.dirty = c.dirty
    PROVE  IndexMatches(n, w)
<1> SUFFICES ASSUME n.indexed
             PROVE  Paired(n.index) /\ \A r \in Rids \ Dirty(n) : n.index.forward[r] = w[r]
    BY DEF IndexMatches
<1>1. IndexKept(c, n) \/ IndexMade(c, n, w)  BY DEF IndexStep, IndexOff, IndexBegun
<1>2. CASE IndexKept(c, n)  BY <1>2 DEF IndexKept, IndexMatches, Dirty
<1>3. CASE IndexMade(c, n, w)  BY <1>3 DEF IndexMade
<1> QED  BY <1>1, <1>2, <1>3

LEMMA StepRows ==
    ASSUME NEW c, NEW n, NEW w, RowsMatch(c, w), ColumnStep(c, n, w), SameStored(c, n),
           \A r \in Rids : c.base[r] = Gone <=> w[r] = Gone
    PROVE  RowsMatch(n, w)
<1> SUFFICES ASSUME NEW r \in Rids PROVE RowMatches(n, w, r)  BY DEF RowsMatch
<1>1. RowMatches(c, w, r)  BY DEF RowsMatch
<1>2. n.base = c.base /\ Dirty(n) = Dirty(c)  BY DEF SameStored, Dirty
<1>3. CASE ColumnOff(c, n)
    <2>1. ~n.columned /\ ~c.columned /\ ~Building(n)  BY <1>3 DEF ColumnOff, Building
    <2> QED  BY <1>1, <1>2, <2>1 DEF RowMatches
<1>4. CASE ColumnKept(c, n)
    <2>1. Building(n) <=> Building(c)  BY <1>4 DEF ColumnKept, Building
    <2>2. n.columned = c.columned /\ n.column = c.column  BY <1>4 DEF ColumnKept
    <2>3. /\ Split(n, w, r) <=> Split(c, w, r)
          /\ Unread(n, w, r) <=> Unread(c, w, r)
        BY <1>2, <2>2 DEF Split, Unread
    <2> QED  BY <1>1, <1>2, <2>1, <2>2, <2>3 DEF RowMatches
<1>5. CASE ColumnMade(c, n, w)
    <2>1. ~Building(n) /\ n.columned /\ n.column.vals[r] = Absent /\ w[r] = Gone
        BY <1>5 DEF ColumnMade, Building
    <2>2. n.base[r] = w[r]  BY <1>2, <2>1
    <2>3. Split(n, w, r)  BY <2>1, <2>2 DEF Split, ColumnState
    <2> QED  BY <2>1, <2>2, <2>3 DEF RowMatches
<1>6. CASE ColumnBegun(c, n)
    <2>1. /\ Building(n) /\ n.columned /\ n.column.vals[r] = Absent /\ n.column.pending[r] = Untouched
          /\ ~c.columned
        BY <1>6 DEF ColumnBegun, Building
    <2>2. n.base[r] = w[r]  BY <1>1, <1>2, <2>1 DEF RowMatches
    <2> QED  BY <2>1, <2>2 DEF RowMatches
<1> QED  BY <1>3, <1>4, <1>5, <1>6 DEF ColumnStep

\* A job that was there is still right.
LEMMA StepJob ==
    ASSUME NEW c \in Shape, NEW n \in Shape, NEW w, IndexStep(c, n, w), ColumnStep(c, n, w),
           NEW job \in AnyJob, JobOk(job, c, w)
    PROVE  JobOk(job, n, w)
<1>0. c.tokens \in Nat /\ c.column.id \in Nat  BY DEF Shape, ColumnType
<1>1. CASE job.kind = "index"
    <2>1. job.token \in Nat  BY <1>1 DEF AnyJob, OwnJob, VectorJob
    <2>2. /\ job.token <= c.tokens
          /\ c.build.status = "building" /\ c.build.token = job.token => FieldJobOk(job, c, w)
        BY <1>1 DEF JobOk
    <2>3. n.tokens \in {c.tokens, c.tokens + 1}
        BY DEF IndexStep, IndexOff, IndexKept, IndexMade, IndexBegun
    <2>4. job.token <= n.tokens  BY <1>0, <2>1, <2>2, <2>3
    <2>5. ASSUME n.build.status = "building", n.build.token = job.token PROVE FieldJobOk(job, n, w)
        <3>1. ~IndexBegun(c, n)  BY <1>0, <2>1, <2>2, <2>5 DEF IndexBegun
        <3>2. IndexKept(c, n)  BY <2>5, <3>1 DEF IndexStep, IndexOff, IndexMade
        <3>3. n.build = c.build  BY <3>2 DEF IndexKept
        <3>4. FieldJobOk(job, c, w)  BY <2>2, <2>5, <3>3
        <3> QED  BY <3>3, <3>4 DEF FieldJobOk, FieldRowOk
    <2> QED  BY <1>1, <2>4, <2>5 DEF JobOk
<1>2. CASE job.kind = "column"
    <2>1. job.token \in Nat  BY <1>2 DEF AnyJob, OwnJob, VectorJob
    <2>2. /\ c.columned /\ job.token <= c.column.id
          /\ job.phase = "scan" /\ job.token = c.column.id => ColumnJobOk(job, c, w)
          /\ job.phase = "strip" => Ready(c)
        BY <1>2 DEF JobOk
    <2>3. ColumnKept(c, n) \/ ColumnMade(c, n, w)  BY <2>2 DEF ColumnStep, ColumnOff, ColumnBegun
    <2>4. CASE ColumnKept(c, n)
        <3>1. n.columned = c.columned /\ n.column = c.column  BY <2>4 DEF ColumnKept
        <3>2. ColumnJobOk(job, c, w) => ColumnJobOk(job, n, w)
            BY <3>1 DEF ColumnJobOk, ColumnRowOk, Building
        <3>3. Ready(n) <=> Ready(c)  BY <3>1 DEF Ready
        <3> QED  BY <1>2, <2>2, <3>1, <3>2, <3>3 DEF JobOk
    <2>5. CASE ColumnMade(c, n, w)
        <3>1. Ready(n) /\ n.columned /\ n.column.id = c.column.id + 1  BY <2>5 DEF ColumnMade, Ready
        <3>2. job.token <= n.column.id /\ job.token # n.column.id  BY <1>0, <2>1, <2>2, <3>1
        <3> QED  BY <1>2, <3>1, <3>2 DEF JobOk
    <2> QED  BY <2>3, <2>4, <2>5
<1>3. CASE job.kind # "index" /\ job.kind # "column"  BY <1>3 DEF JobOk
<1> QED  BY <1>1, <1>2, <1>3

\* A build that is started knows of nothing.
LEMMA BegunJob ==
    ASSUME NEW c \in Shape, NEW n \in Shape, NEW w, IndexStep(c, n, w), ColumnStep(c, n, w),
           c = coll \/ (c.build.status = "none" /\ ~c.columned),
           NEW job, IndexBuild(n, job) \/ ColumnBuild(n, job)
    PROVE  /\ JobOk(job, n, w) /\ job.phase = "scan"
           /\ job.kind = "column" => job.token = c.column.id + 1 /\ ColumnBegun(c, n)
<1>0. /\ job.phase = "scan" /\ job.at = 0
      /\ job.index = EmptyIndex /\ job.column = EmptyColumn
    BY JobKinds DEF IndexBuild, ColumnBuild
<1>1. \A r \in Rids : r \in Nat /\ r > 0 /\ ~(r <= 0)  BY RidFacts
<1>2. CASE IndexBuild(n, job)
    <2>1. /\ job.kind = "index" /\ job.token = n.build.token
          /\ n.build.status = "building" /\ n.build.token # coll.build.token
        BY <1>2, JobKinds DEF IndexBuild
    <2>2. ~IndexKept(c, n)  BY <2>1 DEF IndexKept
    <2>3. IndexBegun(c, n)  BY <2>1, <2>2 DEF IndexStep, IndexOff, IndexMade
    <2>4. n.build.token = n.tokens /\ n.tokens \in Nat  BY <2>3 DEF IndexBegun, Shape
    <2>5. \A r \in Rids : n.build.pending[r] = NoChange
        BY <2>3 DEF IndexBegun, NoBuildPending
    <2>6. \A r \in Rids : FieldRowOk(job, n, w, r)
        BY <1>0, <1>1, <2>5, EmptyPaired DEF FieldRowOk
    <2>7. FieldJobOk(job, n, w)  BY <1>0, <2>6, EmptyPaired DEF FieldJobOk
    <2>8. JobOk(job, n, w)  BY <2>1, <2>4, <2>7 DEF JobOk
    <2> QED  BY <1>0, <2>1, <2>8
<1>3. CASE ColumnBuild(n, job)
    <2>1. /\ job.kind = "column" /\ job.token = n.column.id
          /\ Building(n) /\ (~Building(coll) \/ n.column.id # coll.column.id)
        BY <1>3, JobKinds DEF ColumnBuild
    <2>2. ~ColumnKept(c, n)  BY <2>1 DEF ColumnKept, Building
    <2>3. ColumnBegun(c, n)  BY <2>1, <2>2 DEF ColumnStep, ColumnOff, ColumnMade, Building
    <2>4. n.column.id = c.column.id + 1 /\ n.columned  BY <2>3 DEF ColumnBegun
    <2>5. /\ EmptyColumn.status = "ready"
          /\ \A r \in Rids : EmptyColumn.vals[r] = Absent
        BY DEF EmptyColumn
    <2>6. ColumnJobOk(job, n, w)  BY <1>0, <1>1, <2>1, <2>5 DEF ColumnJobOk, ColumnRowOk
    <2>7. n.column.id \in Nat  BY DEF Shape, ColumnType
    <2>8. JobOk(job, n, w)  BY <1>0, <2>1, <2>4, <2>6, <2>7 DEF JobOk
    <2> QED  BY <1>0, <2>1, <2>3, <2>4, <2>8
<1> QED  BY <1>2, <1>3

LEMMA StepMatches ==
    ASSUME NEW c \in Shape, NEW n \in Shape, NEW w, NEW sc, NEW js \in Seq(AnyJob),
           IndexStep(c, n, w), ColumnStep(c, n, w), SameStored(c, n), c.exists,
           c = coll \/ (c.build.status = "none" /\ ~c.columned),
           \A r \in Rids : c.base[r] = Gone <=> w[r] = Gone,
           IndexMatches(c, w), RowsMatch(c, w), JobsOk(js, c, w), NoColumnJobs(sc, js),
           MetaOk(sc, n), BuildOk(sc, n)
    PROVE  Matches(sc, n, js \o Builds(n), w)
<1> DEFINE more == Builds(n)
<1>1. IndexMatches(n, w)  BY StepIndex DEF SameStored
<1>2. RowsMatch(n, w)  BY StepRows
<1>3. (\A i \in 1..Len(js) : JobOk(js[i], c, w)) /\ ColumnJobs(js)  BY DEF JobsOk
<1>4. \A i \in 1..Len(js) : JobOk(js[i], n, w)
    <2> TAKE i \in 1..Len(js)
    <2>1. js[i] \in AnyJob  BY ElementOfSeq
    <2>2. PICK job \in AnyJob : job = js[i]  BY <2>1
    <2>3. JobOk(job, c, w)  BY <1>3, <2>2
    <2>4. JobOk(job, n, w)  BY <2>3, StepJob
    <2> QED  BY <2>2, <2>4
<1>5. /\ more \in Seq(AnyJob)
      /\ \A i \in 1..Len(more) : IndexBuild(n, more[i]) \/ ColumnBuild(n, more[i])
      /\ \A i, j \in 1..Len(more) : more[i].kind = "column" /\ more[j].kind = "column" => i = j
    BY BuildsFacts
<1> HIDE DEF more
<1>6. \A i \in 1..Len(more) :
          /\ JobOk(more[i], n, w) /\ more[i].phase = "scan"
          /\ more[i].kind = "column" => more[i].token = c.column.id + 1 /\ ColumnBegun(c, n)
    <2> TAKE i \in 1..Len(more)
    <2>1. PICK job : job = more[i]  OBVIOUS
    <2>2. IndexBuild(n, job) \/ ColumnBuild(n, job)  BY <1>5, <2>1
    <2>3. /\ JobOk(job, n, w) /\ job.phase = "scan"
          /\ job.kind = "column" => job.token = c.column.id + 1 /\ ColumnBegun(c, n)
        BY <2>2, BegunJob
    <2> QED  BY <2>1, <2>3
<1>7. \A i \in 1..Len(more) : more[i].kind = "column" => \A j \in 1..Len(js) : js[j].kind # "column"
    <2> TAKE i \in 1..Len(more)
    <2> HAVE more[i].kind = "column"
    <2>1. ~c.columned  BY <1>6 DEF ColumnBegun
    <2> QED  BY <1>3, <2>1 DEF JobOk
<1>8. n.exists  BY DEF SameStored
<1>9. JobsOk(js \o more, n, w)
    <2>1. \A i \in 1..Len(more) : more[i].kind = "column" =>
               /\ more[i].phase = "scan"
               /\ \A j \in 1..Len(js) : js[j].kind = "column" => js[j].token # more[i].token
        BY <1>6, <1>7
    <2>2. \A i \in 1..Len(more) : JobOk(more[i], n, w)  BY <1>6
    <2> QED  BY <1>3, <1>4, <1>5, <1>8, <2>1, <2>2, MoreJobsOk
<1>10. NoColumnJobs(sc, js \o more)
    <2> SUFFICES ASSUME ~LateColumn(sc) PROVE \A i \in 1..Len(js \o more) : (js \o more)[i].kind # "column"
        BY DEF NoColumnJobs
    <2>1. \A j \in 1..Len(js) : js[j].kind # "column"  BY DEF NoColumnJobs
    <2>2. \A j \in 1..Len(more) : more[j].kind # "column"
        <3>1. n.columned => Ready(n)  BY DEF BuildOk
        <3>2. ~ColumnBegun(c, n)  BY <3>1 DEF ColumnBegun, Ready
        <3> QED  BY <1>6, <3>2
    <2> DEFINE t == js \o more
               l == Len(js)
               m == Len(more)
    <2>3. \A i \in 1..Len(t) : (i \in 1..l /\ t[i] = js[i]) \/ (i - l \in 1..m /\ t[i] = more[i - l])
        <3>1. l \in Nat /\ m \in Nat  BY <1>5, LenProperties
        <3>2. Len(t) = l + m /\ \A i \in 1..Len(t) : t[i] = IF i <= l THEN js[i] ELSE more[i - l]
            BY <1>5, ConcatProperties
        <3>3. \A i \in 1..Len(t) : (i \in 1..l /\ i <= l) \/ (~(i <= l) /\ i - l \in 1..m)
            BY <3>1, <3>2
        <3> HIDE DEF t, l, m
        <3> QED  BY <3>2, <3>3
    <2> HIDE DEF t
    <2>4. \A i \in 1..Len(t) : t[i].kind # "column"  BY <2>1, <2>2, <2>3
    <2> QED  BY <2>4 DEF t
<1> QED  BY <1>1, <1>2, <1>9, <1>10 DEF Matches, more

LEMMA NoneLive ==
    ASSUME NEW c \in Shape, Scoped(c), c.live = 0
    PROVE  \A r \in Rids : c.base[r] = Gone
<1> DEFINE L == {r \in Rids : c.base[r] # Gone}
<1>1. Cardinality(L) = 0  BY DEF Scoped
<1>2. IsFiniteSet(L)  BY RidFacts, FS_Subset
<1>3. L = {}
    <2> HIDE DEF L
    <2> QED  BY <1>1, <1>2, FS_EmptySet
<1> QED  BY <1>3

\* What the metadata may be.
MetaMay(sc, c) == c.meta \in {NoMeta} \cup sc.metas \/ (sc.start # "empty" /\ c.meta = sc.meta)

LEMMA ColumnRemains ==
    ASSUME NEW sc, ColumnsStay(sc), NEW c, MetaMay(sc, c), c.meta.column, NEW m \in sc.metas
    PROVE  m.column
BY DEF ColumnsStay, MetaMay, NoMeta

\* What the metadata asks for, as a step of the index.
LEMMA IndexedStep ==
    ASSUME NEW c \in Shape, NEW n \in Shape, NEW w \in [Rids -> Cells], NEW background \in BOOLEAN,
           Scoped(c), Present(c, w), RowsMatch(c, w), Indexed(c, n, background)
    PROVE  /\ IndexStep(c, n, w)
           /\ n.indexed \/ n.build.status # "none" => c.meta.index \/ IndexKept(c, n)
           /\ n.build.status = "building" => background \/ n.build = c.build
<1>0. \A r \in Rids : Hydrated(c, r) = w[r]
    <2> TAKE r \in Rids
    <2>1. RowMatches(c, w, r) /\ (c.base[r] = Gone <=> w[r] = Gone)  BY DEF RowsMatch, Present
    <2> QED  BY <2>1, ReadFacts
<1>1. CASE ~c.meta.index
    <2>1. ~n.indexed /\ n.build = NoBuild /\ n.tokens = c.tokens  BY <1>1 DEF Indexed
    <2> QED  BY <2>1, NoBuildStatus DEF IndexStep, IndexOff
<1>2. CASE c.meta.index /\ (c.indexed \/ c.build.status # "none") /\ ~background
    <2>1. n.indexed = c.indexed /\ n.index = c.index /\ n.build = c.build /\ n.tokens = c.tokens
        BY <1>2 DEF Indexed
    <2> QED  BY <1>2, <2>1 DEF IndexStep, IndexKept
<1>3. CASE c.meta.index /\ ~((c.indexed \/ c.build.status # "none") /\ ~background) /\ c.live = 0
    <2>1. n.indexed /\ n.index = EmptyIndex /\ n.build = NoBuild /\ n.tokens = c.tokens
        BY <1>3 DEF Indexed
    <2>2. \A r \in Rids : w[r] = Gone  BY <1>3, NoneLive DEF Present
    <2> QED  BY <1>3, <2>1, <2>2, EmptyPaired, NoBuildStatus DEF IndexStep, IndexMade
<1>4. CASE /\ c.meta.index /\ ~((c.indexed \/ c.build.status # "none") /\ ~background)
           /\ c.live # 0 /\ background
    <2>1. /\ ~n.indexed /\ n.index = EmptyIndex /\ n.tokens = c.tokens + 1
          /\ n.build.status = "building" /\ n.build.token = c.tokens + 1
          /\ n.build.pending = NoBuildPending
        BY <1>4 DEF Indexed
    <2> QED  BY <1>4, <2>1 DEF IndexStep, IndexBegun
<1>5. CASE /\ c.meta.index /\ ~((c.indexed \/ c.build.status # "none") /\ ~background)
           /\ c.live # 0 /\ ~background
    <2>1. n.indexed /\ n.index = ScannedIndex(c) /\ n.build = NoBuild /\ n.tokens = c.tokens
        BY <1>5 DEF Indexed
    <2>2. \A r \in Rids : n.index.forward[r] = w[r]  BY <1>0, <2>1, ScannedIndexFacts
    <2>3. ASSUME NEW r \in Rids, NEW v \in Fields
          PROVE  <<r, v>> \in n.index.entries <=> w[r] = v
        <3>1. <<r, v>> \in ScannedIndex(c).entries <=> Hydrated(c, r) = v  BY ScannedIndexFacts
        <3>2. Hydrated(c, r) = w[r]  BY <1>0
        <3>3. n.index = ScannedIndex(c)  BY <2>1
        <3> QED  BY <3>1, <3>2, <3>3
    <2>4. Paired(n.index)  BY <2>2, <2>3 DEF Paired
    <2> QED  BY <1>5, <2>1, <2>2, <2>4, NoBuildStatus DEF IndexStep, IndexMade
<1> QED  BY <1>1, <1>2, <1>3, <1>4, <1>5

\* The same for the column, which is neither taken away nor built over its values.
LEMMA ColumnedStep ==
    ASSUME NEW c \in Shape, NEW n \in Shape, NEW w \in [Rids -> Cells], NEW rebuild \in BOOLEAN,
           Scoped(c), Present(c, w), Columned(c, n, rebuild),
           c.columned => c.meta.column /\ ~rebuild /\ c.column.status # "error",
           ~c.columned => c.column = EmptyColumn
    PROVE  /\ ColumnStep(c, n, w)
           /\ n.columned <=> c.meta.column
           /\ ~n.columned => n.column = EmptyColumn
           /\ ColumnBegun(c, n) => c.live # 0
<1>0. n.columned \in BOOLEAN /\ c.columned \in BOOLEAN  BY DEF Shape
<1>1. CASE ~c.meta.column
    <2>1. ~n.columned /\ n.column = EmptyColumn  BY <1>1 DEF Columned
    <2> QED  BY <1>1, <2>1 DEF ColumnStep, ColumnOff, ColumnBegun
<1>2. CASE c.meta.column /\ c.live = 0
    <2>1. /\ n.columned /\ n.column.status = "ready" /\ n.column.id = c.column.id + 1
          /\ \A r \in Rids : n.column.vals[r] = Absent
        BY <1>2 DEF Columned
    <2>2. \A r \in Rids : w[r] = Gone  BY <1>2, NoneLive DEF Present
    <2> QED  BY <1>2, <2>1, <2>2 DEF ColumnStep, ColumnMade, ColumnBegun
<1>3. CASE c.meta.column /\ c.live # 0 /\ (~c.columned \/ rebuild \/ c.column.status = "error")
    <2>1. /\ n.columned /\ n.column.status = "building" /\ n.column.id = c.column.id + 1
          /\ n.column.vals = c.column.vals /\ n.column.pending = [r \in Rids |-> Untouched]
        BY <1>3 DEF Columned
    <2>2. ~c.columned /\ c.column = EmptyColumn  BY <1>3
    <2>3. \A r \in Rids : n.column.vals[r] = Absent /\ n.column.pending[r] = Untouched
        <3>1. \A r \in Rids : EmptyColumn.vals[r] = Absent  BY DEF EmptyColumn
        <3> QED  BY <2>1, <2>2, <3>1
    <2> QED  BY <1>3, <2>1, <2>2, <2>3 DEF ColumnStep, ColumnBegun
<1>4. CASE c.meta.column /\ c.live # 0 /\ ~(~c.columned \/ rebuild \/ c.column.status = "error")
    <2>1. n.columned = c.columned /\ n.column = c.column  BY <1>4 DEF Columned
    <2> QED  BY <1>4, <2>1 DEF ColumnStep, ColumnKept, ColumnBegun
<1> QED  BY <1>0, <1>1, <1>2, <1>3, <1>4

\* The collection whose metadata is set: the one there is or a new one.
MetaBase(sc, c, w, meta) ==
    /\ c.exists /\ c \in Shape /\ Scoped(c) /\ Present(c, w)
    /\ IndexMatches(c, w) /\ RowsMatch(c, w) /\ JobsOk(jobs, c, w)
    /\ MetaMay(sc, c)
    /\ c.indexed \/ c.build.status # "none" => c.meta.index
    /\ c.columned => c.meta.column
    /\ ~c.columned => c.column = EmptyColumn
    /\ sc.start = "ready" /\ sc.meta.column => c.columned \/ c.live = 0
    /\ BuildOk(sc, c)
    /\ c = coll \/ (c.build.status = "none" /\ ~c.columned)
    /\ c.columned => c.meta # meta \/ "repeat" \in sc.may

LEMMA SetMetaBase ==
    ASSUME StateInv, MatchInv, NEW meta, SetMeta(meta)
    PROVE  MetaBase(scenario, IF coll.exists THEN coll ELSE NewCollection, written, meta)
<1>0. /\ CollOk(coll, written) /\ Matches(scenario, coll, jobs, written)
      /\ coll.exists => coll.meta # meta \/ "repeat" \in scenario.may
    BY DEF StateInv, MatchInv, SetMeta
<1>1. CASE coll.exists
    <2>1. MetaBase(scenario, coll, written, meta)
        BY <1>0, <1>1 DEF MetaBase, Matches, CollOk, MetaOk, MetaMay
    <2> QED  BY <1>1, <2>1
<1>2. CASE ~coll.exists
    <2> DEFINE nc == NewCollection
    <2>1. /\ nc \in Shape /\ Scoped(nc) /\ nc.exists /\ \A r \in Rids : nc.base[r] = Gone
          /\ ~nc.columned /\ ~nc.indexed /\ nc.dirty = <<>> /\ nc.build = NoBuild /\ nc.live = 0
          /\ nc.column = EmptyColumn /\ nc.index = EmptyIndex /\ ~nc.indexBuildPending
          /\ nc.meta = NoMeta
        BY NewCollectionFacts DEF NoMeta
    <2> HIDE DEF nc
    <2>2. \A r \in Rids : written[r] = Gone  BY <1>0, <1>2 DEF CollOk, Present
    <2>3. Present(nc, written)  BY <2>1, <2>2 DEF Present
    <2>4. IndexMatches(nc, written)  BY <2>1 DEF IndexMatches
    <2>5. RowsMatch(nc, written)
        <3> SUFFICES ASSUME NEW r \in Rids PROVE RowMatches(nc, written, r)  BY DEF RowsMatch
        <3>1. nc.base[r] = written[r] /\ ~nc.columned /\ ~Building(nc)  BY <2>1, <2>2 DEF Building
        <3> QED  BY <3>1 DEF RowMatches
    <2>6. JobsOk(jobs, nc, written)
        <3>1. \A i \in 1..Len(jobs) : jobs[i].kind = "cancelled"  BY <1>0, <1>2 DEF Matches, JobsOk
        <3> QED  BY <2>1, <3>1 DEF JobsOk, JobOk, ColumnJobs
    <2>7. BuildOk(scenario, nc)  BY <2>1, NoBuildStatus DEF BuildOk
    <2>8. MetaBase(scenario, nc, written, meta)
        BY <2>1, <2>3, <2>4, <2>5, <2>6, <2>7, NoBuildStatus DEF MetaBase, MetaMay
    <2> QED  BY <1>2, <2>8 DEF nc
<1> QED  BY <1>1, <1>2

\* A column whose build failed is not built again.
LEMMA NoError ==
    ASSUME NEW sc, Regular(sc), NEW c, NEW w, NEW meta \in sc.metas, MetaBase(sc, c, w, meta), c.columned
    PROVE  c.column.status # "error"
<1> SUFFICES ASSUME c.column.status = "error" PROVE FALSE  OBVIOUS
<1>1. BuildOk(sc, c) /\ (c.meta # meta \/ "repeat" \in sc.may)  BY DEF MetaBase
<1>2. "fails" \in sc.may /\ LateColumn(sc)  BY <1>1 DEF BuildOk, Ready
<1>3. "repeat" \notin sc.may  BY <1>2 DEF Regular, BuiltOnce
<1>4. meta = c.meta  BY <1>1, <1>2 DEF BuildOk
<1> QED  BY <1>1, <1>3, <1>4

LEMMA SetMetaOk ==
    ASSUME NEW sc, Regular(sc), NEW c, NEW n, NEW w, NEW meta \in sc.metas, MetaBase(sc, c, w, meta),
           n.meta = meta, n.indexBuildPending = c.indexBuildPending,
           ColumnStep(c, n, w), SameStored(c, n),
           n.indexed \/ n.build.status # "none" => meta.index \/ IndexKept(c, n),
           n.build.status = "building" => n.build = c.build,
           ~meta.index => ~n.indexed /\ n.build.status = "none",
           n.columned <=> meta.column,
           ~n.columned => n.column = EmptyColumn,
           ColumnBegun(c, n) => c.live # 0
    PROVE  MetaOk(sc, n) /\ BuildOk(sc, n)
<1>0. /\ MetaMay(sc, c) /\ BuildOk(sc, c)
      /\ sc.start = "ready" /\ sc.meta.column => c.columned \/ c.live = 0
      /\ c.columned => c.column.status # "error"
    BY NoError DEF MetaBase
<1>1. ColumnsStay(sc) /\ BuiltOnce(sc)  BY DEF Regular
<1>2. sc.start = "ready" /\ sc.meta.column => n.columned  BY <1>1 DEF ColumnsStay
<1>3. n.indexed \/ n.build.status # "none" => n.meta.index  OBVIOUS
<1>4. MetaOk(sc, n)  BY <1>2, <1>3 DEF MetaOk
<1>5. sc.start = "restored" => ~n.columned  BY <1>1 DEF BuiltOnce
<1>6. ~LateColumn(sc) /\ n.columned => Ready(n)
    <2> HAVE ~LateColumn(sc) /\ n.columned
    <2>1. sc.start = "ready" /\ sc.meta.column  BY DEF LateColumn
    <2>2. ~ColumnBegun(c, n)  BY <1>0, <2>1 DEF ColumnBegun
    <2>3. ColumnKept(c, n) \/ ColumnMade(c, n, w)  BY <2>2 DEF ColumnStep, ColumnOff
    <2>4. CASE ColumnKept(c, n)
        <3>1. Ready(c)  BY <1>0, <2>4 DEF ColumnKept, BuildOk
        <3> QED  BY <2>4, <3>1 DEF ColumnKept, Ready
    <2>5. CASE ColumnMade(c, n, w)  BY <2>5 DEF ColumnMade, Ready
    <2> QED  BY <2>3, <2>4, <2>5
<1>7. n.column.status = "error" => "fails" \in sc.may
    <2>1. ColumnKept(c, n) => n.column = c.column  BY DEF ColumnKept
    <2>2. ~ColumnKept(c, n) => n.column.status # "error"
        BY NoBuildStatus DEF ColumnStep, ColumnOff, ColumnMade, ColumnBegun
    <2> QED  BY <1>0, <2>1, <2>2 DEF BuildOk
<1>8. n.columned /\ LateColumn(sc) /\ "fails" \in sc.may => \A m \in sc.metas : m = n.meta
    BY <1>1 DEF BuiltOnce
<1>9. n.exists = c.exists /\ n.dirty = c.dirty  BY DEF SameStored
<1>10. n.build.status = "building" => sc.start = "restored"  BY <1>0 DEF BuildOk
<1>11. n.indexBuildPending => sc.start = "restored" /\ n.exists /\ ~n.columned
    BY <1>0, <1>5, <1>9 DEF BuildOk
<1>12. LateColumn(sc) => n.dirty = <<>>  BY <1>0, <1>9 DEF BuildOk
<1>13. BuildOk(sc, n)  BY <1>6, <1>7, <1>8, <1>10, <1>11, <1>12 DEF BuildOk
<1> QED  BY <1>4, <1>13

LEMMA MatchSetMeta ==
    ASSUME StateInv, MatchInv, Regular(scenario), NEW meta \in scenario.metas, SetMeta(meta)
    PROVE  MatchInv'
<1> DEFINE c == IF coll.exists THEN coll ELSE NewCollection
           d == [c EXCEPT !.meta = meta]
           n == WithMeta(c, meta)
           w == written
           sc == scenario
<1>0. /\ scenario \in Scenarios /\ written \in [Rids -> Cells] /\ jobs \in Seq(AnyJob)
      /\ NoColumnJobs(scenario, jobs)
    BY DEF StateInv, JobsTyped, MatchInv, Matches
<1>1. coll' = n /\ jobs' = jobs \o Builds(n) /\ scenario' = scenario /\ written' = written
    BY DEF SetMeta
<1>2. MetaBase(sc, c, w, meta)  BY SetMetaBase
<1>3. meta \in [index : BOOLEAN, column : BOOLEAN]  BY <1>0, ScenarioFacts
<1> HIDE DEF c
<1>4. /\ c.exists /\ c \in Shape /\ Scoped(c) /\ Present(c, w)
      /\ IndexMatches(c, w) /\ RowsMatch(c, w) /\ JobsOk(jobs, c, w)
      /\ MetaMay(sc, c) /\ (c.columned => c.meta.column) /\ (~c.columned => c.column = EmptyColumn)
      /\ c = coll \/ (c.build.status = "none" /\ ~c.columned)
    BY <1>2 DEF MetaBase
<1>5. /\ d \in Shape /\ SameRows(c, d) /\ d.meta = meta
      /\ d.indexed = c.indexed /\ d.index = c.index /\ d.build = c.build
      /\ d.tokens = c.tokens /\ d.columned = c.columned /\ d.column = c.column
      /\ d.dirty = c.dirty
    BY <1>3, <1>4, SetMetaShape
<1>6. /\ n \in Shape /\ SameRows(c, n) /\ n.meta = meta /\ n.dirty = c.dirty
      /\ n.indexBuildPending = c.indexBuildPending
      /\ Indexed(d, n, FALSE) /\ Columned(d, n, FALSE)
    BY <1>3, <1>4, WithMetaFacts
<1> HIDE DEF d, n, w, sc
<1>7. Scoped(d) /\ Present(d, w) /\ RowsMatch(d, w)
    <2>1. Scoped(d)  BY <1>4, <1>5, SameRowsScoped
    <2>2. d.base = c.base  BY <1>5 DEF SameRows
    <2>3. RowsMatch(d, w)
        <3>1. \A r \in Rids : /\ Split(d, w, r) <=> Split(c, w, r)
                              /\ Unread(d, w, r) <=> Unread(c, w, r)
            BY <1>5, <2>2 DEF Split, Unread
        <3>2. (Building(d) <=> Building(c)) /\ Dirty(d) = Dirty(c)  BY <1>5 DEF Building, Dirty
        <3>3. \A r \in Rids : RowMatches(c, w, r)  BY <1>4 DEF RowsMatch
        <3>4. \A r \in Rids : RowMatches(d, w, r)  BY <1>5, <2>2, <3>1, <3>2, <3>3 DEF RowMatches
        <3> QED  BY <3>4 DEF RowsMatch
    <2> QED  BY <1>4, <2>1, <2>2, <2>3 DEF Present
<1>8. PICK no \in BOOLEAN : no = FALSE  OBVIOUS
<1>9. w \in [Rids -> Cells] /\ meta \in sc.metas /\ Regular(sc)  BY <1>0 DEF w, sc
<1>10. /\ IndexStep(d, n, w)
       /\ n.indexed \/ n.build.status # "none" => meta.index \/ IndexKept(d, n)
       /\ n.build.status = "building" => n.build = d.build
    <2>1. Indexed(d, n, no)  BY <1>6, <1>8
    <2> QED  BY <1>5, <1>6, <1>7, <1>8, <1>9, <2>1, IndexedStep
<1>11. ~meta.index => ~n.indexed /\ n.build.status = "none"
    BY <1>5, <1>6, NoBuildStatus DEF Indexed
<1>12. d.columned => meta.column /\ d.column.status # "error"
    <2> HAVE d.columned
    <2>1. c.columned /\ c.meta.column  BY <1>4, <1>5
    <2>2. c.column.status # "error"  BY <1>2, <1>9, <2>1, NoError
    <2>3. meta.column  BY <1>4, <1>9, <2>1, ColumnRemains DEF Regular
    <2> QED  BY <1>5, <2>2, <2>3
<1>13. /\ ColumnStep(d, n, w) /\ (n.columned <=> meta.column)
       /\ ~n.columned => n.column = EmptyColumn
       /\ ColumnBegun(d, n) => d.live # 0
    <2>1. Columned(d, n, no)  BY <1>6, <1>8
    <2>2. d.columned => d.meta.column /\ ~no /\ d.column.status # "error"  BY <1>5, <1>8, <1>12
    <2>3. ~d.columned => d.column = EmptyColumn  BY <1>4, <1>5
    <2>4. /\ ColumnStep(d, n, w) /\ (n.columned <=> d.meta.column)
          /\ ~n.columned => n.column = EmptyColumn
          /\ ColumnBegun(d, n) => d.live # 0
        BY <1>5, <1>6, <1>7, <1>9, <2>1, <2>2, <2>3, ColumnedStep
    <2> QED  BY <1>5, <2>4
<1>14. IndexStep(c, n, w) /\ (IndexKept(d, n) => IndexKept(c, n)) /\ n.indexed \in BOOLEAN
    BY <1>5, <1>6, <1>10 DEF IndexStep, IndexOff, IndexKept, IndexMade, IndexBegun, Shape
<1>15. ColumnStep(c, n, w) /\ (ColumnBegun(c, n) => c.live # 0)
    <2>1. d.live = c.live  BY <1>5 DEF SameRows
    <2> QED  BY <1>5, <1>13, <2>1 DEF ColumnStep, ColumnOff, ColumnKept, ColumnMade, ColumnBegun
<1>16. SameStored(c, n)  BY <1>6 DEF SameStored, SameRows
<1>17. MetaOk(sc, n) /\ BuildOk(sc, n)
    BY <1>2, <1>5, <1>6, <1>9, <1>10, <1>11, <1>13, <1>14, <1>15, <1>16, SetMetaOk
<1>18. \A r \in Rids : c.base[r] = Gone <=> w[r] = Gone  BY <1>4 DEF Present
<1>19. NoColumnJobs(sc, jobs)  BY <1>0 DEF sc
<1>20. Matches(sc, n, jobs \o Builds(n), w)
    BY <1>0, <1>4, <1>6, <1>14, <1>15, <1>16, <1>17, <1>18, <1>19, StepMatches
<1>21. Matches(scenario', coll', jobs', written')  BY <1>1, <1>20 DEF w, sc
<1> QED  BY <1>21 DEF MatchInv

LEMMA MatchWarmup ==
    ASSUME StateInv, MatchInv, Regular(scenario), Warmup
    PROVE  MatchInv'
<1> DEFINE n == [MetaColumns(MetaIndexes(coll, TRUE), TRUE) EXCEPT !.indexBuildPending = FALSE]
           sc == scenario
           w == written
<1>0. /\ scenario \in Scenarios /\ w \in [Rids -> Cells] /\ jobs \in Seq(AnyJob)
      /\ coll \in Shape /\ Scoped(coll) /\ Present(coll, w)
    BY DEF StateInv, JobsTyped, CollOk
<1>1. /\ IndexMatches(coll, w) /\ RowsMatch(coll, w) /\ JobsOk(jobs, coll, w)
      /\ MetaOk(sc, coll) /\ BuildOk(sc, coll) /\ NoColumnJobs(sc, jobs)
    BY DEF MatchInv, Matches
<1>2. /\ coll' = n /\ jobs' = jobs \o Builds(n) /\ scenario' = scenario /\ written' = written
      /\ coll.indexBuildPending
    BY DEF Warmup, StartIndexWarmup
<1>3. WarmedBy(coll, MetaIndexes(coll, TRUE), n)  BY <1>0, WarmedFacts
<1> HIDE DEF n, sc, w
<1>4. /\ n \in Shape /\ SameRows(coll, n) /\ n.meta = coll.meta /\ n.dirty = coll.dirty
      /\ ~n.indexBuildPending /\ Indexed(coll, n, TRUE) /\ Columned(coll, n, TRUE)
    BY <1>3 DEF WarmedBy
<1>5. sc.start = "restored" /\ coll.exists /\ ~coll.columned /\ coll.column = EmptyColumn
    BY <1>1, <1>2 DEF BuildOk, MetaOk
<1>6. PICK yes \in BOOLEAN : yes = TRUE  OBVIOUS
<1>7. /\ IndexStep(coll, n, w)
      /\ n.build.status = "building" => yes \/ n.build = coll.build
    <2>1. Indexed(coll, n, yes)  BY <1>4, <1>6
    <2> QED  BY <1>0, <1>1, <1>4, <2>1, IndexedStep
<1>8. n.indexed \/ n.build.status # "none" => n.meta.index
    BY <1>4, NoBuildStatus DEF Indexed
<1>9. /\ ColumnStep(coll, n, w) /\ (n.columned <=> coll.meta.column)
      /\ ~n.columned => n.column = EmptyColumn
    <2>1. Columned(coll, n, yes)  BY <1>4, <1>6
    <2>2. coll.columned => coll.meta.column /\ ~yes /\ coll.column.status # "error"  BY <1>5
    <2> QED  BY <1>0, <1>4, <1>5, <2>1, <2>2, ColumnedStep
<1>10. SameStored(coll, n)  BY <1>4 DEF SameStored, SameRows
<1>11. ColumnsStay(sc) /\ BuiltOnce(sc) /\ MetaMay(sc, coll)
    <2>1. Regular(sc)  BY DEF sc
    <2> QED  BY <1>1, <2>1 DEF Regular, MetaOk, MetaMay
<1>12. n.columned => LateColumn(sc) /\ \A m \in sc.metas : FALSE
    <2> HAVE n.columned
    <2>1. \A m \in sc.metas : m.column  BY <1>9, <1>11, ColumnRemains
    <2>2. \A m \in sc.metas : ~m.column  BY <1>5, <1>11 DEF BuiltOnce
    <2>3. coll.meta = sc.meta  BY <1>9, <1>11, <2>2 DEF MetaMay, NoMeta
    <2> QED  BY <1>5, <1>9, <2>1, <2>2, <2>3 DEF LateColumn
<1>13. n.column.status # "error"
    <2>1. ~coll.columned /\ coll.column.status = "ready"  BY <1>5, NoBuildStatus
    <2> QED  BY <1>9, <2>1, NoBuildStatus DEF ColumnStep, ColumnOff, ColumnKept, ColumnMade, ColumnBegun
<1>14. MetaOk(sc, n)  BY <1>1, <1>4, <1>5, <1>8, <1>9 DEF MetaOk
<1>15. BuildOk(sc, n)
    <2>1. LateColumn(sc) => n.dirty = <<>>  BY <1>1, <1>4 DEF BuildOk
    <2> QED  BY <1>4, <1>5, <1>12, <1>13, <2>1 DEF BuildOk
<1>16. \A r \in Rids : coll.base[r] = Gone <=> w[r] = Gone  BY <1>0 DEF Present
<1>17. Matches(sc, n, jobs \o Builds(n), w)
    BY <1>0, <1>1, <1>4, <1>5, <1>7, <1>9, <1>10, <1>14, <1>15, <1>16, StepMatches
<1>18. Matches(scenario', coll', jobs', written')  BY <1>2, <1>17 DEF w, sc
<1> QED  BY <1>18 DEF MatchInv

LEMMA MatchDrop ==
    ASSUME StateInv, MatchInv, Drop
    PROVE  MatchInv'
<1> DEFINE nc == NewCollection
           c == [nc EXCEPT !.exists = FALSE]
           w == [r \in Rids |-> Gone]
           js == Cancelled
<1>1. coll' = c /\ jobs' = js /\ written' = w /\ scenario' = scenario
    BY DEF Drop, DropCollection
<1>2. /\ nc \in Shape /\ \A r \in Rids : nc.base[r] = Gone
      /\ ~nc.columned /\ ~nc.indexed /\ nc.dirty = <<>> /\ nc.build = NoBuild
      /\ nc.column = EmptyColumn /\ ~nc.indexBuildPending /\ nc.meta = NoMeta
    BY NewCollectionFacts DEF NoMeta
<1> HIDE DEF nc
<1>3. /\ ~c.exists /\ c.base = nc.base /\ c.dirty = nc.dirty /\ c.meta = nc.meta
      /\ c.columned = nc.columned /\ c.column = nc.column /\ c.indexed = nc.indexed
      /\ c.build = nc.build /\ c.indexBuildPending = nc.indexBuildPending
    BY <1>2 DEF Shape
<1>4. \A i \in 1..Len(js) : js[i].kind = "cancelled"
    <2> DEFINE job == Job("cancelled", 0)
    <2>1. job.kind = "cancelled"  BY JobKinds
    <2> HIDE DEF job
    <2>2. js = IF jobs = <<>> THEN <<>> ELSE <<job>>  BY DEF Cancelled, job
    <2>3. CASE jobs = <<>>
        <3>1. js = <<>>  BY <2>2, <2>3
        <3>2. Len(<<>>) = 0 /\ \A i \in 1..0 : FALSE  OBVIOUS
        <3> QED  BY <3>1, <3>2
    <2>4. CASE jobs # <<>>
        <3>1. js = <<job>>  BY <2>2, <2>4
        <3>2. Len(<<job>>) = 1 /\ <<job>>[1] = job /\ \A i \in 1..1 : i = 1  OBVIOUS
        <3> QED  BY <2>1, <3>1, <3>2
    <2> QED  BY <2>3, <2>4
<1>5. \A r \in Rids : w[r] = Gone  OBVIOUS
<1> HIDE DEF c, w, js
<1>6. IndexMatches(c, w)  BY <1>2, <1>3 DEF IndexMatches
<1>7. RowsMatch(c, w)
    <2> SUFFICES ASSUME NEW r \in Rids PROVE RowMatches(c, w, r)  BY DEF RowsMatch
    <2>1. c.base[r] = w[r] /\ ~c.columned /\ ~Building(c)  BY <1>2, <1>3, <1>5 DEF Building
    <2> QED  BY <2>1 DEF RowMatches
<1>8. JobsOk(js, c, w) /\ NoColumnJobs(scenario, js)
    <2>1. \A i \in 1..Len(js) : js[i].kind # "column" /\ js[i].kind # "index"  BY <1>4
    <2>2. (\A i \in 1..Len(js) : JobOk(js[i], c, w)) /\ ColumnJobs(js)
        BY <2>1 DEF JobOk, ColumnJobs
    <2> QED  BY <1>4, <2>1, <2>2 DEF JobsOk, NoColumnJobs
<1>9. MetaOk(scenario, c)  BY <1>2, <1>3, NoBuildStatus DEF MetaOk
<1>10. BuildOk(scenario, c)  BY <1>2, <1>3, NoBuildStatus DEF BuildOk
<1>11. Matches(scenario, c, js, w)  BY <1>6, <1>7, <1>8, <1>9, <1>10 DEF Matches
<1>12. Matches(scenario', coll', jobs', written')  BY <1>1, <1>11
<1> QED  BY <1>12 DEF MatchInv

\* The builds of vector indexes.
LEMMA MatchBegun ==
    ASSUME StateInv, MatchInv, NEW keys, keys \subseteq Keys, IsFiniteSet(keys), coll.exists,
           StartVectorIndexWarmups(keys)
    PROVE  MatchInv'
<1> DEFINE sorted == SetToSeq(keys)
           n == Cardinality(keys)
           id(k) == vecs.ids + (CHOOSE i \in DOMAIN sorted : sorted[i] = k)
           more == [i \in DOMAIN sorted |-> Job("vector", [key |-> sorted[i], id |-> id(sorted[i])])]
<1>0. vecs.ids \in Nat /\ jobs \in Seq(AnyJob)
    BY DEF StateInv, VectorsOk, VectorState, JobsTyped
<1>1. /\ jobs' = jobs \o more /\ scenario' = scenario /\ written' = written /\ coll' = coll
    BY DEF StartVectorIndexWarmups
<1>2. /\ n \in Nat /\ DOMAIN sorted = 1..n /\ \A i \in 1..n : sorted[i] \in keys
      /\ \A k \in keys : \E i \in 1..n : sorted[i] = k
    BY SetToSeqFacts
<1>3. \A k \in keys : id(k) \in Nat \ {0}
    <2> TAKE k \in keys
    <2> DEFINE i == CHOOSE i \in DOMAIN sorted : sorted[i] = k
    <2>1. i \in 1..n
        <3> HIDE DEF sorted, n
        <3> QED  BY <1>2
    <2>2. id(k) = vecs.ids + i  OBVIOUS
    <2> HIDE DEF i, n, id
    <2> QED  BY <1>0, <1>2, <2>1, <2>2
<1> HIDE DEF sorted, n, id
<1>4. \A i \in 1..n : more[i] \in AnyJob /\ more[i].kind = "vector"
    <2> TAKE i \in 1..n
    <2> DEFINE token == [key |-> sorted[i], id |-> id(sorted[i])]
    <2>1. token \in Token  BY <1>2, <1>3 DEF Token
    <2>2. more[i] = Job("vector", token)  BY <1>2
    <2> HIDE DEF token, more
    <2> QED  BY <2>1, <2>2, JobTypes, JobKinds DEF AnyJob
<1>5. more \in Seq(AnyJob) /\ Len(more) = n
    <2>1. DOMAIN more = 1..n  BY <1>2
    <2>2. \A i \in 1..n : more[i] \in AnyJob  BY <1>4
    <2>3. more = [i \in 1..n |-> more[i]]  BY <1>2
    <2> HIDE DEF more
    <2>4. more \in [1..n -> AnyJob]  BY <2>2, <2>3
    <2> QED  BY <1>2, <2>4, SeqDef
<1> HIDE DEF more
<1>6. \A i \in 1..Len(more) : more[i].kind # "column" /\ more[i].kind # "index"  BY <1>4, <1>5
<1>7. Matches(scenario, coll, jobs, written)  BY DEF MatchInv
<1>8. (\A i \in 1..Len(jobs) : JobOk(jobs[i], coll, written)) /\ ColumnJobs(jobs)
    BY <1>7 DEF Matches, JobsOk
<1>9. JobsOk(jobs \o more, coll, written) /\ NoColumnJobs(scenario, jobs \o more)
    BY <1>0, <1>5, <1>6, <1>7, <1>8, MoreOtherJobs DEF Matches
<1>10. Matches(scenario, coll, jobs \o more, written)  BY <1>7, <1>9 DEF Matches
<1>11. Matches(scenario', coll', jobs', written')  BY <1>1, <1>10
<1> QED  BY <1>11 DEF MatchInv

LEMMA MatchWarmVectors ==
    ASSUME StateInv, MatchInv, WarmVectorIndexes
    PROVE  MatchInv'
<1>1. PICK r \in Rids : vecs.stored[r] # NoVector  BY DEF WarmVectorIndexes, VectorRids
<1>2. Shards # {}  BY <1>1 DEF StateInv, VectorsOk, VectorState
<1>3. IsFiniteSet(SUBSET Shards)  BY FS_SUBSET, VectorIndexesAssumption DEF VectorIndexesAssumption
<1>4. WarmKeys \subseteq Keys /\ Keys \subseteq SUBSET Shards  BY <1>2 DEF WarmKeys, Keys
<1>5. Unbuilt(WarmKeys) \subseteq WarmKeys  BY DEF Unbuilt
<1>6. Unbuilt(WarmKeys) \subseteq Keys /\ Unbuilt(WarmKeys) \in SUBSET (SUBSET Shards)
    BY <1>4, <1>5
<1>7. IsFiniteSet(Unbuilt(WarmKeys))  BY <1>3, <1>6, FS_Subset
<1> QED  BY <1>6, <1>7, MatchBegun DEF WarmVectorIndexes

LEMMA MatchSearch ==
    ASSUME StateInv, MatchInv, NEW k \in scenario.searches, VectorSearch(k)
    PROVE  MatchInv'
<1>1. k \in Keys  BY ScenarioFacts DEF StateInv
<1>2. {k} \subseteq Keys /\ IsFiniteSet({k})  BY <1>1, FS_Singleton
<1> QED  BY <1>2, MatchBegun DEF VectorSearch

LEMMA MatchReplace ==
    ASSUME MatchInv, NEW placement \in scenario.placements, ReplaceShardMap(placement)
    PROVE  MatchInv'
<1>1. scenario' = scenario /\ written' = written /\ coll' = coll /\ jobs' = jobs
    BY DEF ReplaceShardMap
<1>2. Matches(scenario', coll', jobs', written')  BY <1>1 DEF MatchInv
<1> QED  BY <1>2 DEF MatchInv

----------------------------------------------------------------------------
\* The scheduler's steps in a regular scenario.

\* What a step says of the job it ran leaves the others as right as they were.
LEMMA JobKept ==
    ASSUME NEW c, NEW n, NEW w, NEW job, JobOk(job, c, w),
           n.tokens = c.tokens, n.columned = c.columned, n.column.id = c.column.id,
           n.build = c.build \/ n.build.status # "building",
           n.column = c.column \/ job.kind # "column"
              \/ (job.phase = "scan" /\ job.token # c.column.id)
    PROVE  JobOk(job, n, w)
<1>1. ASSUME job.kind = "index" PROVE JobOk(job, n, w)
    <2>1. /\ job.token <= c.tokens
          /\ c.build.status = "building" /\ c.build.token = job.token => FieldJobOk(job, c, w)
        BY <1>1 DEF JobOk
    <2>2. ASSUME n.build.status = "building", n.build.token = job.token PROVE FieldJobOk(job, n, w)
        <3>1. n.build = c.build  BY <2>2
        <3>2. FieldJobOk(job, c, w)  BY <2>1, <2>2, <3>1
        <3> QED  BY <3>1, <3>2 DEF FieldJobOk, FieldRowOk
    <2> QED  BY <1>1, <2>1, <2>2 DEF JobOk
<1>2. ASSUME job.kind = "column" PROVE JobOk(job, n, w)
    <2>1. /\ c.columned /\ job.token <= c.column.id
          /\ job.phase = "scan" /\ job.token = c.column.id => ColumnJobOk(job, c, w)
          /\ job.phase = "strip" => Ready(c)
        BY <1>2 DEF JobOk
    <2>2. CASE n.column = c.column
        <3>1. ColumnJobOk(job, c, w) => ColumnJobOk(job, n, w)
            BY <2>2 DEF ColumnJobOk, ColumnRowOk, Building
        <3>2. Ready(n) <=> Ready(c)  BY <2>2 DEF Ready
        <3> QED  BY <1>2, <2>1, <3>1, <3>2 DEF JobOk
    <2>3. CASE job.phase = "scan" /\ job.token # c.column.id
        BY <1>2, <2>1, <2>3 DEF JobOk
    <2> QED  BY <1>2, <2>2, <2>3
<1> QED  BY <1>1, <1>2 DEF JobOk

\* The job that was active is done.
LEMMA TailOk ==
    ASSUME NEW js \in Seq(AnyJob), js # <<>>, NEW c, NEW n, NEW w, NEW sc,
           JobsOk(js, c, w), NoColumnJobs(sc, js), n.exists = c.exists,
           \A i \in 1..Len(js) : i # 1 => JobOk(js[i], n, w)
    PROVE  /\ JobsOk(Tail(js), n, w) /\ NoColumnJobs(sc, Tail(js)) /\ Tail(js) \in Seq(AnyJob)
           /\ ColumnJobs(Tail(js))
           /\ \A i \in 1..Len(Tail(js)) : JobOk(Tail(js)[i], n, w)
<1> DEFINE t == Tail(js)
           l == Len(js)
           m == Len(t)
<1>1. t \in Seq(AnyJob) /\ \A i \in 1..m : i + 1 \in 1..l /\ t[i] = js[i + 1]  BY TailJobs
<1>2. m \in Nat /\ \A i \in 1..m : i + 1 # 1  BY <1>1, LenProperties
<1>3. \A i, j \in 1..m : i + 1 = j + 1 => i = j  BY <1>2
<1> HIDE DEF t, l, m
<1>4. \A i \in 1..m : JobOk(t[i], n, w)  BY <1>1, <1>2 DEF l
<1>5. /\ \A i \in 1..l : js[i].kind = "column" /\ i # 1 => js[i].phase = "scan"
      /\ \A i, j \in 1..l :
            js[i].kind = "column" /\ js[j].kind = "column" /\ js[i].token = js[j].token => i = j
    BY DEF JobsOk, ColumnJobs, l
<1>6. \A i \in 1..m : t[i].kind = "column" => t[i].phase = "scan"
    <2> TAKE i \in 1..m
    <2>1. i + 1 \in 1..l /\ i + 1 # 1 /\ t[i] = js[i + 1]  BY <1>1, <1>2
    <2> QED  BY <1>5, <2>1
<1>7. \A i, j \in 1..m :
          t[i].kind = "column" /\ t[j].kind = "column" /\ t[i].token = t[j].token => i = j
    <2> TAKE i, j \in 1..m
    <2>1. i + 1 \in 1..l /\ t[i] = js[i + 1] /\ j + 1 \in 1..l /\ t[j] = js[j + 1]  BY <1>1
    <2> QED  BY <1>3, <1>5, <2>1
<1>8. ColumnJobs(t)  BY <1>6, <1>7 DEF ColumnJobs, m
<1>9. ~n.exists => \A i \in 1..m : t[i].kind = "cancelled"
    <2> HAVE ~n.exists
    <2>1. \A i \in 1..l : js[i].kind = "cancelled"  BY DEF JobsOk, l
    <2> QED  BY <1>1, <2>1
<1>10. JobsOk(t, n, w)  BY <1>4, <1>8, <1>9 DEF JobsOk, m
<1>11. NoColumnJobs(sc, t)
    <2> SUFFICES ASSUME ~LateColumn(sc) PROVE \A i \in 1..m : t[i].kind # "column"
        BY DEF NoColumnJobs, m
    <2>1. \A i \in 1..l : js[i].kind # "column"  BY DEF NoColumnJobs, l
    <2> QED  BY <1>1, <2>1
<1> QED  BY <1>1, <1>4, <1>8, <1>10, <1>11 DEF t, m

\* The active job goes on.
LEMMA SliceOk ==
    ASSUME NEW js \in Seq(AnyJob), js # <<>>, NEW c, NEW n, NEW w, NEW sc,
           JobsOk(js, c, w), NoColumnJobs(sc, js), n.exists = c.exists,
           NEW job \in AnyJob, job.kind = Head(js).kind, job.token = Head(js).token,
           JobOk(job, n, w), \A i \in 1..Len(js) : i # 1 => JobOk(js[i], n, w)
    PROVE  JobsOk([js EXCEPT ![1] = job], n, w) /\ NoColumnJobs(sc, [js EXCEPT ![1] = job])
<1> DEFINE t == [js EXCEPT ![1] = job]
           l == Len(js)
<1>1. /\ t \in Seq(AnyJob) /\ Len(t) = l /\ 1 \in 1..l
      /\ \A i \in 1..l : t[i] = IF i = 1 THEN job ELSE js[i]
    BY SliceJobs
<1>2. Head(js) = js[1]  BY TailJobs
<1> HIDE DEF t, l
<1>3. \A i \in 1..l : JobOk(t[i], n, w)  BY <1>1 DEF l
<1>4. \A i \in 1..l : t[i].kind = js[i].kind /\ t[i].token = js[i].token  BY <1>1, <1>2
<1>5. \A i \in 1..l : i # 1 => t[i].phase = js[i].phase  BY <1>1
<1>6. ColumnJobs(js)  BY DEF JobsOk
<1>7. ColumnJobs(t)
    <2>1. \A i \in 1..l : t[i].kind = "column" /\ i # 1 => t[i].phase = "scan"
        BY <1>4, <1>5, <1>6 DEF ColumnJobs, l
    <2>2. \A i, j \in 1..l :
              t[i].kind = "column" /\ t[j].kind = "column" /\ t[i].token = t[j].token => i = j
        BY <1>4, <1>6 DEF ColumnJobs, l
    <2> QED  BY <1>1, <2>1, <2>2 DEF ColumnJobs
<1>8. ~n.exists => \A i \in 1..l : t[i].kind = "cancelled"
    <2> HAVE ~n.exists
    <2>1. \A i \in 1..l : js[i].kind = "cancelled"  BY DEF JobsOk, l
    <2> QED  BY <1>4, <2>1
<1>9. JobsOk(t, n, w)  BY <1>1, <1>3, <1>7, <1>8 DEF JobsOk
<1>10. NoColumnJobs(sc, t)
    <2> SUFFICES ASSUME ~LateColumn(sc) PROVE \A i \in 1..l : t[i].kind # "column"
        BY <1>1 DEF NoColumnJobs
    <2>1. \A i \in 1..l : js[i].kind # "column"  BY DEF NoColumnJobs, l
    <2> QED  BY <1>4, <2>1
<1> QED  BY <1>9, <1>10 DEF t

\* What the step leaves of the index and of the rows.
LEMMA KeptIndex ==
    ASSUME NEW c, NEW n, NEW w, IndexMatches(c, w),
           n.indexed = c.indexed, n.index = c.index, n.dirty = c.dirty
    PROVE  IndexMatches(n, w)
BY DEF IndexMatches, Dirty

LEMMA KeptRows ==
    ASSUME NEW c, NEW n, NEW w, RowsMatch(c, w), n.base = c.base, n.dirty = c.dirty,
           n.columned = c.columned, n.column = c.column
    PROVE  RowsMatch(n, w)
<1> SUFFICES ASSUME NEW r \in Rids PROVE RowMatches(n, w, r)  BY DEF RowsMatch
<1>1. RowMatches(c, w, r)  BY DEF RowsMatch
<1>2. /\ Building(n) <=> Building(c)
      /\ r \in Dirty(n) <=> r \in Dirty(c)
      /\ Split(n, w, r) <=> Split(c, w, r)
      /\ Unread(n, w, r) <=> Unread(c, w, r)
    BY DEF Building, Dirty, Split, Unread
<1> QED  BY <1>1, <1>2 DEF RowMatches

LEMMA KeptOrders ==
    ASSUME NEW c, NEW n, NEW sc, MetaOk(sc, c), BuildOk(sc, c), SameOrders(c, n), n.exists = c.exists,
           n.indexed \/ n.build.status # "none" => c.indexed \/ c.build.status # "none",
           n.build.status = "building" => c.build.status = "building",
           c.columned \/ n.column = c.column,
           ~LateColumn(sc) => n.column.status = c.column.status,
           n.column.status = "error" => c.column.status = "error" \/ "fails" \in sc.may,
           n.dirty = c.dirty \/ ~LateColumn(sc)
    PROVE  MetaOk(sc, n) /\ BuildOk(sc, n)
<1>1. n.meta = c.meta /\ n.columned = c.columned /\ n.indexBuildPending = c.indexBuildPending
    BY DEF SameOrders
<1>2. MetaOk(sc, n)  BY <1>1 DEF MetaOk
<1>3. ~LateColumn(sc) => (n.columned => Ready(n))  BY <1>1 DEF BuildOk, Ready
<1>4. BuildOk(sc, n)  BY <1>1, <1>3 DEF BuildOk
<1> QED  BY <1>2, <1>4

\* A job that only leaves the queue or a slice that changes nothing else.
LEMMA MatchEnd ==
    ASSUME StateInv, MatchInv, jobs # <<>>,
           jobs' = Tail(jobs), coll' = coll, scenario' = scenario, written' = written
    PROVE  MatchInv'
<1>1. Matches(scenario, coll, jobs, written) /\ jobs \in Seq(AnyJob)
    BY DEF MatchInv, StateInv, JobsTyped
<1>2. JobsOk(jobs, coll, written) /\ NoColumnJobs(scenario, jobs)  BY <1>1 DEF Matches
<1>3. \A i \in 1..Len(jobs) : i # 1 => JobOk(jobs[i], coll, written)  BY <1>2 DEF JobsOk
<1>4. JobsOk(Tail(jobs), coll, written) /\ NoColumnJobs(scenario, Tail(jobs))
    BY <1>1, <1>2, <1>3, TailOk
<1>5. Matches(scenario, coll, Tail(jobs), written)  BY <1>1, <1>4 DEF Matches
<1>6. Matches(scenario', coll', jobs', written')  BY <1>5
<1> QED  BY <1>6 DEF MatchInv

----------------------------------------------------------------------------
\* The builds of an index.

\* A row that is scanned is in the index of the job as it was last written.
LEMMA FieldScanned ==
    ASSUME NEW c \in Shape, NEW w \in [Rids -> Cells], Present(c, w), NEW job \in OwnJob,
           FieldJobOk(job, c, w), NEW r \in Rids, c.base[r] # Gone, r > job.at,
           \A q \in Rids : q > job.at /\ q < r => c.base[q] = Gone, RowMatches(c, w, r)
    PROVE  FieldJobOk(ScannedJob(job, c, r), c, w)
<1> DEFINE v == Hydrated(c, r)
           n == ScannedJob(job, c, r)
<1>1. v = w[r]
    <2>1. c.base[r] = Gone <=> w[r] = Gone  BY DEF Present
    <2> QED  BY <2>1, ReadFacts
<1>2. v \in Fields  BY HydratedType, CellFacts
<1>3. n \in OwnJob /\ n.at = r /\ n.index = AddValue(job.index, r, v)  BY ScannedJobFacts
<1> HIDE DEF v, n
<1>4. Paired(job.index) /\ \A q \in Rids : FieldRowOk(job, c, w, q)  BY DEF FieldJobOk
<1>5. job.index.forward[r] = Gone  BY <1>4 DEF FieldRowOk
<1>6. job.index \in IndexType /\ job.at \in Int /\ \A q \in Rids : q \in Int
    <2>1. job.index \in IndexType /\ job.at \in 0..MaxRid  BY DEF OwnJob
    <2>2. \A q \in Rids : q \in Int  BY RidFacts
    <2> QED  BY <2>1, <2>2
<1>7. /\ Paired(n.index) /\ n.index.forward[r] = v
      /\ \A q \in Rids : q # r => n.index.forward[q] = job.index.forward[q]
    <2>1. job.index.forward[r] \in {Gone, v}  BY <1>5
    <2> QED  BY <1>2, <1>3, <1>4, <1>6, <2>1, AddedPaired
<1>8. \A q \in Rids : FieldRowOk(n, c, w, q)
    <2> TAKE q \in Rids
    <2> DEFINE p == c.build.pending[q]
    <2>1. /\ q > job.at => job.index.forward[q] = Gone
          /\ p = NoChange /\ q <= job.at => job.index.forward[q] = w[q]
          /\ p # NoChange => p.after = w[q] /\ job.index.forward[q] \in {Gone, p.before, p.after}
        BY <1>4 DEF FieldRowOk
    <2> HIDE DEF p
    <2>2. CASE q = r
        <3>1. ~(q > n.at)  BY <1>3, <1>6, <2>2
        <3>2. n.index.forward[q] = w[q]  BY <1>1, <1>7, <2>2
        <3> QED  BY <2>1, <3>1, <3>2 DEF FieldRowOk, p
    <2>3. CASE q # r
        <3>1. n.index.forward[q] = job.index.forward[q]  BY <1>7, <2>3
        <3>2. q > n.at => job.index.forward[q] = Gone
            <4>1. q > r => q > job.at  BY <1>6
            <4> QED  BY <1>3, <2>1, <4>1
        <3>3. p = NoChange /\ q <= n.at => job.index.forward[q] = w[q]
            <4>1. q <= r => q <= job.at \/ (q > job.at /\ q < r)  BY <1>6, <2>3
            <4>2. q > job.at /\ q < r => w[q] = Gone  BY DEF Present
            <4> QED  BY <1>3, <2>1, <4>1, <4>2
        <3> QED  BY <2>1, <3>1, <3>2, <3>3 DEF FieldRowOk, p
    <2> QED  BY <2>2, <2>3
<1> QED  BY <1>7, <1>8 DEF FieldJobOk, n

LEMMA MatchScanField ==
    ASSUME StateInv, MatchInv, ScanField
    PROVE  MatchInv'
<1> DEFINE r == NextRid
           h == Head(jobs)
           job == ScannedJob(h, coll, r)
           w == written
<1>0. coll \in Shape /\ Present(coll, w) /\ w \in [Rids -> Cells] /\ JobsTyped(jobs, coll)
    BY DEF StateInv, CollOk
<1>1. /\ Matches(scenario, coll, jobs, w) /\ RowsMatch(coll, w)
      /\ JobsOk(jobs, coll, w) /\ NoColumnJobs(scenario, jobs)
    BY DEF MatchInv, Matches
<1>2. jobs # <<>> /\ h.kind = "index" /\ Ahead # {}  BY DEF ScanField, Active
<1>3. /\ jobs' = [jobs EXCEPT ![1] = job] /\ coll' = coll
      /\ scenario' = scenario /\ written' = written
    BY DEF ScanField, Slice, Derive, ScannedJob
<1>4. /\ r \in Rids /\ coll.base[r] # Gone /\ r > h.at /\ \A q \in Ahead : r <= q
    BY <1>2, NextRidFacts
<1>5. h \in OwnJob /\ h = jobs[1] /\ jobs \in Seq(AnyJob)
    BY <1>0, <1>2, ActiveFacts DEF OwnKinds, JobsTyped
<1>6. JobOk(h, coll, w)
    <2>1. 1 \in 1..Len(jobs)
        <3>1. Len(jobs) \in Nat \ {0}  BY <1>2, <1>5, TailJobs
        <3> QED  BY <3>1
    <2> QED  BY <1>1, <1>5, <2>1 DEF JobsOk
<1>7. \A q \in Rids : q > h.at /\ q < r => coll.base[q] = Gone
    <2> TAKE q \in Rids
    <2> HAVE q > h.at /\ q < r
    <2>1. q \in Int /\ r \in Int  BY <1>4, RidFacts
    <2>2. ~(r <= q)  BY <2>1
    <2>3. q \notin Ahead  BY <1>4, <2>2
    <2> QED  BY <2>3 DEF Ahead, LiveRids
<1> HIDE DEF r, h
<1>8. job \in OwnJob /\ job.kind = h.kind /\ job.token = h.token  BY <1>0, <1>4, <1>5, ScannedJobFacts
<1>9. FieldJobOk(h, coll, w) => FieldJobOk(job, coll, w)
    <2>1. RowMatches(coll, w, r)  BY <1>1, <1>4 DEF RowsMatch
    <2> QED  BY <1>0, <1>4, <1>5, <1>7, <2>1, FieldScanned
<1> HIDE DEF job
<1>10. JobOk(job, coll, w)  BY <1>2, <1>6, <1>8, <1>9 DEF JobOk
<1>11. \A i \in 1..Len(jobs) : i # 1 => JobOk(jobs[i], coll, w)  BY <1>1 DEF JobsOk
<1>12. job \in AnyJob  BY <1>8 DEF AnyJob
<1>13. JobsOk([jobs EXCEPT ![1] = job], coll, w) /\ NoColumnJobs(scenario, [jobs EXCEPT ![1] = job])
    BY <1>1, <1>2, <1>5, <1>8, <1>10, <1>11, <1>12, SliceOk DEF h
<1>14. Matches(scenario, coll, [jobs EXCEPT ![1] = job], w)  BY <1>1, <1>13 DEF Matches
<1>15. Matches(scenario', coll', jobs', written')  BY <1>3, <1>14
<1> QED  BY <1>15 DEF MatchInv

\* The changes made during the scan complete the index.
LEMMA ReplayedMatches ==
    ASSUME NEW c \in Shape, NEW w \in [Rids -> Cells], Present(c, w), NEW job \in OwnJob,
           FieldJobOk(job, c, w), \A q \in Rids : q > job.at => c.base[q] = Gone
    PROVE  LET n == Replayed(job.index, c.build)
           IN n \in IndexType /\ Paired(n) /\ \A r \in Rids : n.forward[r] = w[r]
<1>0. c.build \in BuildType /\ job.index \in IndexType /\ job.at \in Int  BY DEF Shape, OwnJob
<1>1. PICK f : Replayed(job.index, c.build) = f[MaxRid] /\ ReplayChain(f, job.index, c.build)
    BY <1>0, ReplayedSteps
<1> DEFINE At(m) == /\ Paired(f[m])
                    /\ \A r \in Rids : f[m].forward[r] = IF r <= m THEN w[r] ELSE job.index.forward[r]
           T == {m \in Nat : m <= MaxRid => At(m)}
<1>2. MaxRid \in Nat /\ MaxRid \in 0..MaxRid /\ \A r \in Rids : r \in Int /\ r >= 1 /\ r <= MaxRid
    BY RidFacts DEF Rids
<1>3. Paired(job.index) /\ \A q \in Rids : FieldRowOk(job, c, w, q)  BY DEF FieldJobOk
<1>4. 0 \in T
    <2>1. f[0] = job.index  BY <1>1 DEF ReplayChain
    <2> QED  BY <1>2, <1>3, <2>1
<1>5. ASSUME NEW m \in Nat, m \in T PROVE m + 1 \in T
    <2> SUFFICES ASSUME m + 1 <= MaxRid PROVE At(m + 1)  OBVIOUS
    <2>1. PICK i \in Rids : i = m + 1  BY <1>2 DEF Rids
    <2>2. i - 1 = m  BY <2>1
    <2>3. At(m)  BY <1>2, <1>5
    <2>4. PICK x : x = f[m]  OBVIOUS
    <2>5. PICK y : y = f[i]  OBVIOUS
    <2> DEFINE before == c.build.pending[i].before
               after == c.build.pending[i].after
    <2>6. x \in IndexType /\ y = Moved(x, i, before, after)
        BY <1>1, <2>2, <2>4, <2>5 DEF ReplayChain
    <2>7. Paired(x) /\ \A r \in Rids : x.forward[r] = IF r <= m THEN w[r] ELSE job.index.forward[r]
        BY <2>3, <2>4
    <2>8. x.forward[i] = job.index.forward[i]  BY <2>1, <2>7
    <2>9. /\ i > job.at => job.index.forward[i] = Gone
          /\ c.build.pending[i] = NoChange /\ i <= job.at => job.index.forward[i] = w[i]
          /\ c.build.pending[i] # NoChange =>
                after = w[i] /\ job.index.forward[i] \in {Gone, before, after}
        BY <1>3 DEF FieldRowOk
    <2>10. before \in Cells /\ after \in Cells  BY <1>0 DEF BuildType, Change
    <2>11. Paired(y) /\ y.forward[i] = w[i] /\ \A q \in Rids : q # i => y.forward[q] = x.forward[q]
        <3>1. CASE c.build.pending[i] = NoChange
            <4>1. before = Gone /\ after = Gone  BY <3>1 DEF NoChange
            <4> HIDE DEF before, after
            <4>2. y = x  BY <2>6, <4>1 DEF Moved
            <4>3. i <= job.at \/ i > job.at  BY <1>0, <1>2
            <4>4. i > job.at => w[i] = Gone  BY DEF Present
            <4> QED  BY <2>7, <2>8, <2>9, <3>1, <4>2, <4>3, <4>4
        <3>2. CASE c.build.pending[i] # NoChange
            <4> HIDE DEF before, after
            <4>1. after = w[i] /\ x.forward[i] \in {Gone, before, after}  BY <2>8, <2>9, <3>2
            <4>2. LET n == Moved(x, i, before, after)
                  IN /\ Paired(n) /\ n.forward[i] = after
                     /\ \A q \in Rids : q # i => n.forward[q] = x.forward[q]
                BY <2>6, <2>7, <2>10, <4>1, MovedPaired
            <4> QED  BY <2>6, <4>1, <4>2
        <3> QED  BY <3>1, <3>2
    <2> HIDE DEF before, after
    <2>12. \A r \in Rids : y.forward[r] = IF r <= m + 1 THEN w[r] ELSE job.index.forward[r]
        <3> TAKE r \in Rids
        <3>1. CASE r = i  BY <2>1, <2>11, <3>1
        <3>2. CASE r # i
            <4>1. r <= m + 1 <=> r <= m  BY <1>2, <2>1, <3>2
            <4> QED  BY <2>7, <2>11, <3>2, <4>1
        <3> QED  BY <3>1, <3>2
    <2> QED  BY <2>1, <2>5, <2>11, <2>12
<1>6. \A n \in Nat : n \in T
    <2> TAKE n \in Nat
    <2> HIDE DEF T
    <2> QED  BY <1>4, <1>5, NatSetInduction
<1>7. At(MaxRid)  BY <1>2, <1>6
<1>8. f[MaxRid] \in IndexType  BY <1>1, <1>2 DEF ReplayChain
<1>9. PICK n : n = f[MaxRid]  OBVIOUS
<1>10. Paired(n) /\ \A r \in Rids : n.forward[r] = w[r]  BY <1>2, <1>7, <1>9
<1> QED  BY <1>1, <1>8, <1>9, <1>10

\* Beside the one that runs, the jobs are as right as they were.
LEMMA OthersKept ==
    ASSUME NEW js, NEW c, NEW n, NEW w, JobsOk(js, c, w),
           n.tokens = c.tokens, n.columned = c.columned, n.column = c.column,
           n.build = c.build \/ n.build.status # "building"
    PROVE  \A i \in 1..Len(js) : JobOk(js[i], n, w)
<1> TAKE i \in 1..Len(js)
<1>1. PICK job : job = js[i]  OBVIOUS
<1>2. JobOk(job, c, w)  BY <1>1 DEF JobsOk
<1>3. JobOk(job, n, w)  BY <1>2, JobKept
<1> QED  BY <1>1, <1>3

LEMMA MatchInstallField ==
    ASSUME StateInv, MatchInv, InstallField
    PROVE  MatchInv'
<1> DEFINE h == Head(jobs)
           current == coll.build.status = "building" /\ coll.build.token = h.token
           index == Replayed(h.index, coll.build)
           n == InstalledField(coll, index)
           w == written
<1>0. coll \in Shape /\ Present(coll, w) /\ w \in [Rids -> Cells] /\ JobsTyped(jobs, coll)
    BY DEF StateInv, CollOk
<1>1. /\ Matches(scenario, coll, jobs, w) /\ RowsMatch(coll, w) /\ IndexMatches(coll, w)
      /\ JobsOk(jobs, coll, w) /\ NoColumnJobs(scenario, jobs)
      /\ MetaOk(scenario, coll) /\ BuildOk(scenario, coll)
    BY DEF MatchInv, Matches
<1>2. jobs # <<>> /\ h.kind = "index" /\ Ahead = {}  BY DEF InstallField, Active
<1>3. /\ jobs' = Tail(jobs) /\ coll' = (IF current THEN n ELSE coll)
      /\ scenario' = scenario /\ written' = written
    BY DEF InstallField, End, Derive, InstalledField
<1>4. CASE ~current
    <2>1. coll' = coll  BY <1>3, <1>4
    <2> QED  BY <1>2, <1>3, <2>1, MatchEnd
<1>5. CASE current
    <2>1. h \in OwnJob /\ h = jobs[1] /\ jobs \in Seq(AnyJob)
        BY <1>0, <1>2, ActiveFacts DEF OwnKinds, JobsTyped
    <2>2. JobOk(h, coll, w)
        <3>1. Len(jobs) \in Nat \ {0}  BY <1>2, <2>1, TailJobs
        <3>2. 1 \in 1..Len(jobs)  BY <3>1
        <3> QED  BY <1>1, <2>1, <3>2 DEF JobsOk
    <2>3. \A q \in Rids : q > h.at => coll.base[q] = Gone  BY <1>2 DEF Ahead, LiveRids
    <2>4. coll.build.status = "building"  BY <1>5
    <2>5. FieldJobOk(h, coll, w)  BY <1>2, <1>5, <2>2 DEF JobOk
    <2> HIDE DEF h, current
    <2>6. index \in IndexType /\ Paired(index) /\ \A r \in Rids : index.forward[r] = w[r]
        BY <1>0, <2>1, <2>3, <2>5, ReplayedMatches
    <2> HIDE DEF index
    <2>7. /\ n \in Shape /\ SameRows(coll, n) /\ SameOrders(coll, n)
          /\ n.indexed /\ n.build = NoBuild /\ n.index = index
          /\ n.column = coll.column /\ n.dirty = coll.dirty
        BY <1>0, <2>6, InstalledFieldFacts
    <2>8. coll' = n  BY <1>3, <1>5
    <2> HIDE DEF n
    <2>9. n.build.status = "none" /\ n.exists = coll.exists /\ n.base = coll.base
        BY <2>7, NoBuildStatus DEF SameRows
    <2>10. n.tokens = coll.tokens /\ n.columned = coll.columned  BY <2>7 DEF SameOrders
    <2>11. IndexMatches(n, w)  BY <2>6, <2>7 DEF IndexMatches
    <2>12. RowsMatch(n, w)  BY <1>1, <2>7, <2>9, <2>10, KeptRows
    <2>13. MetaOk(scenario, n) /\ BuildOk(scenario, n)
        <3>1. n.indexed \/ n.build.status # "none" => coll.indexed \/ coll.build.status # "none"
            BY <2>4
        <3>2. n.column.status = coll.column.status  BY <2>7
        <3> QED  BY <1>1, <2>7, <2>9, <3>1, <3>2, KeptOrders
    <2>14. \A i \in 1..Len(jobs) : JobOk(jobs[i], n, w)
        BY <1>1, <2>7, <2>9, <2>10, OthersKept
    <2>15. JobsOk(Tail(jobs), n, w) /\ NoColumnJobs(scenario, Tail(jobs))
        BY <1>1, <1>2, <2>1, <2>9, <2>14, TailOk
    <2>16. Matches(scenario, n, Tail(jobs), w)  BY <2>11, <2>12, <2>13, <2>15 DEF Matches
    <2>17. Matches(scenario', coll', jobs', written')  BY <1>3, <2>8, <2>16
    <2> QED  BY <2>17 DEF MatchInv
<1> QED  BY <1>4, <1>5

LEMMA MatchFailField ==
    ASSUME StateInv, MatchInv, FailField
    PROVE  MatchInv'
<1> DEFINE current == coll.build.status = "building" /\ coll.build.token = Head(jobs).token
           n == FailedField(coll)
           w == written
<1>0. coll \in Shape /\ JobsTyped(jobs, coll) /\ jobs \in Seq(AnyJob)
    BY DEF StateInv, CollOk, JobsTyped
<1>1. /\ Matches(scenario, coll, jobs, w) /\ RowsMatch(coll, w) /\ IndexMatches(coll, w)
      /\ JobsOk(jobs, coll, w) /\ NoColumnJobs(scenario, jobs)
      /\ MetaOk(scenario, coll) /\ BuildOk(scenario, coll)
    BY DEF MatchInv, Matches
<1>2. jobs # <<>>  BY DEF FailField, Active
<1>3. /\ jobs' = Tail(jobs) /\ coll' = (IF current THEN n ELSE coll)
      /\ scenario' = scenario /\ written' = written
    BY DEF FailField, End, Derive, FailedField
<1>4. CASE ~current
    <2>1. coll' = coll  BY <1>3, <1>4
    <2> QED  BY <1>2, <1>3, <2>1, MatchEnd
<1>5. CASE current
    <2>1. coll.build.status = "building"  BY <1>5
    <2> HIDE DEF current
    <2>2. /\ n \in Shape /\ SameRows(coll, n) /\ SameOrders(coll, n)
          /\ n.indexed = coll.indexed /\ n.index = coll.index /\ n.build.status = "error"
          /\ n.column = coll.column /\ n.dirty = coll.dirty
        BY <1>0, FailedFieldFacts
    <2>3. coll' = n  BY <1>3, <1>5
    <2> HIDE DEF n
    <2>4. n.exists = coll.exists /\ n.base = coll.base  BY <2>2 DEF SameRows
    <2>5. n.tokens = coll.tokens /\ n.columned = coll.columned  BY <2>2 DEF SameOrders
    <2>6. IndexMatches(n, w)  BY <1>1, <2>2, KeptIndex
    <2>7. RowsMatch(n, w)  BY <1>1, <2>2, <2>4, <2>5, KeptRows
    <2>8. MetaOk(scenario, n) /\ BuildOk(scenario, n)
        <3>1. n.indexed \/ n.build.status # "none" => coll.indexed \/ coll.build.status # "none"
            BY <2>1
        <3>2. n.column.status = coll.column.status /\ n.build.status # "building"  BY <2>2
        <3> QED  BY <1>1, <2>2, <2>4, <3>1, <3>2, KeptOrders
    <2>9. n.build.status # "building"  BY <2>2
    <2>10. \A i \in 1..Len(jobs) : JobOk(jobs[i], n, w)
        BY <1>1, <2>2, <2>5, <2>9, OthersKept
    <2>11. JobsOk(Tail(jobs), n, w) /\ NoColumnJobs(scenario, Tail(jobs))
        BY <1>0, <1>1, <1>2, <2>4, <2>10, TailOk
    <2>12. Matches(scenario, n, Tail(jobs), w)  BY <2>6, <2>7, <2>8, <2>11 DEF Matches
    <2>13. Matches(scenario', coll', jobs', written')  BY <1>3, <2>3, <2>12
    <2> QED  BY <2>13 DEF MatchInv
<1> QED  BY <1>4, <1>5

LEMMA MatchCancelled ==
    ASSUME StateInv, MatchInv, EndCancelled
    PROVE  MatchInv'
BY MatchEnd DEF EndCancelled, Active, End, Derive

LEMMA MatchVectorJob ==
    ASSUME StateInv, MatchInv, RunVectorJob
    PROVE  MatchInv'
<1>1. CASE ScanVector
    <2>1. coll' = coll /\ jobs' = jobs /\ scenario' = scenario /\ written' = written
        BY <1>1 DEF ScanVector, Derive
    <2>2. Matches(scenario', coll', jobs', written')  BY <2>1 DEF MatchInv
    <2> QED  BY <2>2 DEF MatchInv
<1>2. CASE ReadyVector  BY <1>2, MatchEnd DEF ReadyVector, Active, End, Derive
<1>3. CASE EndStaleVector  BY <1>3, MatchEnd DEF EndStaleVector, Active, End, Derive
<1> QED  BY <1>1, <1>2, <1>3 DEF RunVectorJob

LEMMA MatchSettle ==
    ASSUME StateInv, MatchInv, SettleCatchup
    PROVE  MatchInv'
<1> DEFINE n == Settled(coll)
           w == written
           t == Tail(jobs)
           more == Rescheduled(coll)
<1>0. coll \in Shape /\ JobsTyped(jobs, coll) /\ jobs \in Seq(AnyJob)
    BY DEF StateInv, CollOk, JobsTyped
<1>1. /\ Matches(scenario, coll, jobs, w) /\ RowsMatch(coll, w) /\ IndexMatches(coll, w)
      /\ JobsOk(jobs, coll, w) /\ NoColumnJobs(scenario, jobs)
      /\ MetaOk(scenario, coll) /\ BuildOk(scenario, coll)
    BY DEF MatchInv, Matches
<1>2. jobs # <<>> /\ Head(jobs).kind = "dirty"  BY DEF SettleCatchup, Active
<1>3. coll' = n /\ jobs' = t \o more /\ scenario' = scenario /\ written' = written
    BY DEF SettleCatchup, Derive, Settled
<1>4. coll.exists
    <2>1. Head(jobs) = jobs[1] /\ Len(jobs) \in Nat \ {0}  BY <1>0, <1>2, TailJobs
    <2>2. 1 \in 1..Len(jobs) /\ jobs[1].kind # "cancelled"  BY <1>2, <2>1
    <2> QED  BY <1>1, <2>2 DEF JobsOk
<1>5. /\ n \in Shape /\ SameRows(coll, n) /\ SameOrders(coll, n) /\ SameIndex(coll, n)
      /\ n.column = coll.column /\ n.dirty = coll.dirty
    BY <1>0, SettledFacts
<1>6. more \in Seq(AnyJob) /\ \A i \in 1..Len(more) : more[i].kind # "column" /\ more[i].kind # "index"
    <2> DEFINE job == Job("dirty", 0)
    <2>1. job \in AnyJob /\ job.kind = "dirty"  BY JobTypes, JobKinds DEF AnyJob, OwnKinds
    <2>2. more = IF coll.dirty # <<>> THEN <<job>> ELSE <<>>  BY DEF Rescheduled
    <2> HIDE DEF job, more
    <2>3. CASE coll.dirty # <<>>
        <3>1. more = <<job>>  BY <2>2, <2>3
        <3>2. Len(<<job>>) = 1 /\ <<job>>[1] = job /\ <<job>> \in Seq(AnyJob)  BY <2>1
        <3>3. \A i \in 1..1 : i = 1  OBVIOUS
        <3> QED  BY <2>1, <3>1, <3>2, <3>3
    <2>4. CASE coll.dirty = <<>>
        <3>1. more = <<>> /\ \A i \in 1..0 : FALSE  BY <2>2, <2>4
        <3> QED  BY <3>1, EmptySeq
    <2> QED  BY <2>3, <2>4
<1> HIDE DEF n, t, more
<1>7. /\ n.exists = coll.exists /\ n.base = coll.base /\ n.indexed = coll.indexed
      /\ n.index = coll.index /\ n.build = coll.build
      /\ n.tokens = coll.tokens /\ n.columned = coll.columned
    BY <1>5 DEF SameRows, SameOrders, SameIndex
<1>8. IndexMatches(n, w)  BY <1>1, <1>5, <1>7, KeptIndex
<1>9. RowsMatch(n, w)  BY <1>1, <1>5, <1>7, KeptRows
<1>10. MetaOk(scenario, n) /\ BuildOk(scenario, n)
    <2>1. /\ n.indexed \/ n.build.status # "none" => coll.indexed \/ coll.build.status # "none"
          /\ n.build.status = "building" => coll.build.status = "building"
          /\ n.column.status = coll.column.status
        BY <1>5, <1>7
    <2> QED  BY <1>1, <1>5, <1>7, <2>1, KeptOrders
<1>11. \A i \in 1..Len(jobs) : JobOk(jobs[i], n, w)  BY <1>1, <1>5, <1>7, OthersKept
<1>12. /\ NoColumnJobs(scenario, t) /\ t \in Seq(AnyJob) /\ ColumnJobs(t)
       /\ \A i \in 1..Len(t) : JobOk(t[i], n, w)
    BY <1>0, <1>1, <1>2, <1>7, <1>11, TailOk DEF t
<1>13. JobsOk(t \o more, n, w) /\ NoColumnJobs(scenario, t \o more)
    BY <1>4, <1>6, <1>7, <1>12, MoreOtherJobs
<1>14. Matches(scenario, n, t \o more, w)  BY <1>8, <1>9, <1>10, <1>13 DEF Matches
<1>15. Matches(scenario', coll', jobs', written')  BY <1>3, <1>14
<1> QED  BY <1>15 DEF MatchInv

----------------------------------------------------------------------------
\* The builds of a column.

LEMMA ColumnScanned ==
    ASSUME NEW c \in Shape, NEW w \in [Rids -> Cells], Present(c, w), NEW job \in OwnJob,
           ColumnJobOk(job, c, w), NEW r \in Rids, c.base[r] # Gone, r > job.at,
           \A q \in Rids : q > job.at /\ q < r => c.base[q] = Gone, RowMatches(c, w, r)
    PROVE  ColumnJobOk(ScannedColumnJob(job, c, r), c, w)
<1> DEFINE v == Hydrated(c, r)
           n == ScannedColumnJob(job, c, r)
<1>1. v = w[r]
    <2>1. c.base[r] = Gone <=> w[r] = Gone  BY DEF Present
    <2> QED  BY <2>1, ReadFacts
<1>2. ColumnState(v) \in Fields  BY HydratedType, ColumnStateType
<1>3. n.at = r /\ n.column = ApplyState(job.column, r, ColumnState(v))  BY ScannedColumnJobFacts
<1> HIDE DEF v, n
<1>4. job.column \in ColumnType /\ job.at \in 0..MaxRid  BY DEF OwnJob
<1>5. n.column.vals = [job.column.vals EXCEPT ![r] = ColumnState(v)] /\ n.column.status = job.column.status
    BY <1>2, <1>3, <1>4, ApplyStateFacts
<1>6. /\ n.column.vals[r] = ColumnState(v)
      /\ \A q \in Rids : q # r => n.column.vals[q] = job.column.vals[q]
    BY <1>4, <1>5 DEF ColumnType
<1>7. \A q \in Rids : q \in Int  BY RidFacts
<1>8. ASSUME NEW q \in Rids PROVE ColumnRowOk(n, c, w, q)
    <2> SUFFICES ASSUME c.column.pending[q] = Untouched
                 PROVE  n.column.vals[q] = IF q <= n.at THEN ColumnState(w[q]) ELSE Absent
        BY DEF ColumnRowOk
    <2>1. job.column.vals[q] = IF q <= job.at THEN ColumnState(w[q]) ELSE Absent
        BY DEF ColumnJobOk, ColumnRowOk
    <2>2. CASE q = r  BY <1>1, <1>3, <1>6, <1>7, <2>2
    <2>3. CASE q # r /\ q <= job.at
        <3>1. q <= r  BY <1>4, <1>7, <2>3
        <3> QED  BY <1>3, <1>6, <2>1, <2>3, <3>1
    <2>4. CASE q # r /\ q > job.at /\ q < r
        <3>1. w[q] = Gone  BY <2>4 DEF Present
        <3>2. q <= r /\ ~(q <= job.at)  BY <1>4, <1>7, <2>4
        <3> QED  BY <1>3, <1>6, <2>1, <2>4, <3>1, <3>2 DEF ColumnState
    <2>5. CASE q # r /\ ~(q <= job.at) /\ ~(q <= r)  BY <1>3, <1>6, <2>1, <2>5
    <2>6. q <= job.at \/ (q > job.at /\ q < r) \/ (~(q <= job.at) /\ ~(q <= r)) \/ q = r
        BY <1>4, <1>7
    <2> QED  BY <2>2, <2>3, <2>4, <2>5, <2>6
<1> QED  BY <1>5, <1>8 DEF ColumnJobOk, n

LEMMA MatchScanColumn ==
    ASSUME StateInv, MatchInv, ScanColumn
    PROVE  MatchInv'
<1> DEFINE r == NextRid
           h == Head(jobs)
           job == ScannedColumnJob(h, coll, r)
           w == written
<1>0. coll \in Shape /\ Present(coll, w) /\ w \in [Rids -> Cells] /\ JobsTyped(jobs, coll)
    BY DEF StateInv, CollOk
<1>1. /\ Matches(scenario, coll, jobs, w) /\ RowsMatch(coll, w)
      /\ JobsOk(jobs, coll, w) /\ NoColumnJobs(scenario, jobs)
    BY DEF MatchInv, Matches
<1>2. jobs # <<>> /\ h.kind = "column" /\ h.phase = "scan" /\ Ahead # {}
    BY DEF ScanColumn, Active
<1>3. /\ jobs' = [jobs EXCEPT ![1] = job] /\ coll' = coll
      /\ scenario' = scenario /\ written' = written
    BY DEF ScanColumn, Slice, Derive, ScannedColumnJob
<1>4. /\ r \in Rids /\ coll.base[r] # Gone /\ r > h.at /\ \A q \in Ahead : r <= q
    BY <1>2, NextRidFacts
<1>5. h \in OwnJob /\ h = jobs[1] /\ jobs \in Seq(AnyJob)
    BY <1>0, <1>2, ActiveFacts DEF OwnKinds, JobsTyped
<1>6. JobOk(h, coll, w)
    <2>1. Len(jobs) \in Nat \ {0}  BY <1>2, <1>5, TailJobs
    <2>2. 1 \in 1..Len(jobs)  BY <2>1
    <2> QED  BY <1>1, <1>5, <2>2 DEF JobsOk
<1>7. \A q \in Rids : q > h.at /\ q < r => coll.base[q] = Gone
    <2> TAKE q \in Rids
    <2> HAVE q > h.at /\ q < r
    <2>1. q \in Int /\ r \in Int  BY <1>4, RidFacts
    <2>2. ~(r <= q)  BY <2>1
    <2>3. q \notin Ahead  BY <1>4, <2>2
    <2> QED  BY <2>3 DEF Ahead, LiveRids
<1> HIDE DEF r, h
<1>8. job \in OwnJob /\ job.kind = h.kind /\ job.token = h.token /\ job.phase = h.phase
    BY <1>0, <1>4, <1>5, ScannedColumnJobFacts
<1>9. ColumnJobOk(h, coll, w) => ColumnJobOk(job, coll, w)
    <2>1. RowMatches(coll, w, r)  BY <1>1, <1>4 DEF RowsMatch
    <2> QED  BY <1>0, <1>4, <1>5, <1>7, <2>1, ColumnScanned
<1> HIDE DEF job
<1>10. JobOk(job, coll, w)  BY <1>2, <1>6, <1>8, <1>9 DEF JobOk
<1>11. \A i \in 1..Len(jobs) : i # 1 => JobOk(jobs[i], coll, w)  BY <1>1 DEF JobsOk
<1>12. job \in AnyJob  BY <1>8 DEF AnyJob
<1>13. JobsOk([jobs EXCEPT ![1] = job], coll, w) /\ NoColumnJobs(scenario, [jobs EXCEPT ![1] = job])
    BY <1>1, <1>2, <1>5, <1>8, <1>10, <1>11, <1>12, SliceOk DEF h
<1>14. Matches(scenario, coll, [jobs EXCEPT ![1] = job], w)  BY <1>1, <1>13 DEF Matches
<1>15. Matches(scenario', coll', jobs', written')  BY <1>3, <1>14
<1> QED  BY <1>15 DEF MatchInv

\* The current build is the only one, so the others are as right as they were.
LEMMA OtherColumns ==
    ASSUME NEW js, NEW c \in Shape, NEW n, NEW w, JobsOk(js, c, w), 1 \in 1..Len(js),
           js[1].kind = "column", js[1].token = c.column.id,
           n.tokens = c.tokens, n.columned = c.columned, n.column.id = c.column.id,
           n.build = c.build
    PROVE  \A i \in 1..Len(js) : i # 1 => JobOk(js[i], n, w)
<1> TAKE i \in 1..Len(js)
<1> HAVE i # 1
<1>1. PICK job : job = js[i]  OBVIOUS
<1>2. JobOk(job, c, w)  BY <1>1 DEF JobsOk
<1>3. job.kind = "column" => job.phase = "scan" /\ job.token # c.column.id
    BY <1>1 DEF JobsOk, ColumnJobs
<1>4. JobOk(job, n, w)  BY <1>2, <1>3, JobKept
<1> QED  BY <1>1, <1>4

\* A column is ready only once it has every row.
LEMMA InstalledMatches ==
    ASSUME NEW c \in Shape, NEW w \in [Rids -> Cells], Present(c, w), RowsMatch(c, w),
           NEW job \in OwnJob, ColumnJobOk(job, c, w), \A q \in Rids : q > job.at => c.base[q] = Gone,
           NEW n, n.column = Install(c.column, job.column), n.base = c.base, n.columned = c.columned,
           n.dirty = c.dirty
    PROVE  Ready(n) /\ n.column.id = c.column.id /\ RowsMatch(n, w)
<1> DEFINE k == Install(c.column, job.column)
<1>1. Building(c) /\ job.column.status = "ready" /\ \A r \in Rids : ColumnRowOk(job, c, w, r)
    BY DEF ColumnJobOk
<1>2. c.column \in ColumnType /\ job.column \in ColumnType /\ job.at \in 0..MaxRid  BY DEF Shape, OwnJob
<1>3. /\ k.status = "ready" /\ k.id = c.column.id
      /\ \A r \in Rids : k.vals[r] = IF c.column.pending[r] = Untouched THEN job.column.vals[r]
                                     ELSE c.column.pending[r]
    BY <1>1, <1>2, InstallFacts
<1> HIDE DEF k
<1>4. n.column = k  BY DEF k
<1>5. Ready(n) /\ ~Building(n) /\ n.column.id = c.column.id
    BY <1>1, <1>3, <1>4 DEF Ready, Building
<1>6. ASSUME NEW r \in Rids PROVE RowMatches(n, w, r)
    <2>1. /\ c.base[r] = w[r] /\ c.column.pending[r] \in {Untouched, ColumnState(w[r])}
        BY <1>1 DEF RowsMatch, RowMatches
    <2>2. n.column.vals[r] = ColumnState(w[r])
        <3>1. CASE c.column.pending[r] # Untouched  BY <1>3, <1>4, <2>1, <3>1
        <3>2. CASE c.column.pending[r] = Untouched
            <4>1. k.vals[r] = IF r <= job.at THEN ColumnState(w[r]) ELSE Absent
                BY <1>1, <1>3, <3>2 DEF ColumnRowOk
            <4>2. r <= job.at \/ r > job.at  BY <1>2, RidFacts
            <4>3. r > job.at => w[r] = Gone  BY DEF Present
            <4> QED  BY <1>4, <4>1, <4>2, <4>3 DEF ColumnState
        <3> QED  BY <3>1, <3>2
    <2>3. Split(n, w, r)  BY <2>1, <2>2 DEF Split
    <2>4. n.columned  BY <1>1 DEF Building
    <2> QED  BY <1>5, <2>1, <2>3, <2>4 DEF RowMatches
<1> QED  BY <1>5, <1>6 DEF RowsMatch

\* A stored row may lose the field that a ready column has.
LEMMA StrippedMatches ==
    ASSUME NEW c \in Shape, NEW w \in [Rids -> Cells], RowsMatch(c, w), Ready(c), c.dirty = <<>>,
           NEW r \in Rids
    PROVE  RowsMatch(Stripped(c, r), w)
<1> DEFINE n == Stripped(c, r)
<1>1. SameDerived(c, n) /\ n.base = [c.base EXCEPT ![r] = Absent]  BY StrippedFacts
<1> HIDE DEF n
<1>2. n.columned = c.columned /\ n.column = c.column /\ n.dirty = c.dirty  BY <1>1 DEF SameDerived
<1>3. c.base \in [Rids -> Cells]  BY DEF Shape
<1>4. Ready(n) /\ ~Building(n) /\ n.columned /\ ~Building(c) /\ c.columned
    BY <1>2 DEF Ready, Building
<1>5. \A q : q \notin Dirty(c) /\ q \notin Dirty(n)
    <2>1. \A q : q \notin Range(<<>>)  BY DEF Range
    <2> QED  BY <1>2, <2>1 DEF Dirty
<1>6. ASSUME NEW q \in Rids PROVE RowMatches(n, w, q)
    <2>1. Split(c, w, q) \/ Unread(c, w, q)  BY <1>4, <1>5 DEF RowsMatch, RowMatches
    <2>2. Split(c, w, q)  BY <2>1 DEF Unread, Ready
    <2>3. n.base[q] \in {c.base[q], Absent}  BY <1>1, <1>3
    <2>4. Split(n, w, q)  BY <1>2, <2>2, <2>3 DEF Split
    <2> QED  BY <1>4, <1>5, <2>4 DEF RowMatches
<1> QED  BY <1>6 DEF RowsMatch, n

\* What the active job of a column knows.
LEMMA ActiveColumn ==
    ASSUME StateInv, MatchInv, jobs # <<>>, Head(jobs).kind = "column"
    PROVE  /\ Head(jobs) \in OwnJob /\ Head(jobs) = jobs[1] /\ 1 \in 1..Len(jobs)
           /\ jobs \in Seq(AnyJob) /\ JobOk(Head(jobs), coll, written)
           /\ LateColumn(scenario) /\ coll.dirty = <<>> /\ coll.columned
<1>0. JobsTyped(jobs, coll) /\ jobs \in Seq(AnyJob)  BY DEF StateInv, JobsTyped
<1>1. JobsOk(jobs, coll, written) /\ NoColumnJobs(scenario, jobs) /\ BuildOk(scenario, coll)
    BY DEF MatchInv, Matches
<1>2. Head(jobs) \in OwnJob /\ Head(jobs) = jobs[1]  BY <1>0, ActiveFacts DEF OwnKinds
<1>3. Len(jobs) \in Nat \ {0}  BY <1>0, TailJobs
<1>4. 1 \in 1..Len(jobs)  BY <1>3
<1>5. JobOk(Head(jobs), coll, written)  BY <1>1, <1>2, <1>4 DEF JobsOk
<1>6. LateColumn(scenario)  BY <1>1, <1>2, <1>4 DEF NoColumnJobs
<1>7. coll.dirty = <<>>  BY <1>1, <1>6 DEF BuildOk
<1>8. coll.columned  BY <1>5 DEF JobOk
<1> QED  BY <1>0, <1>2, <1>4, <1>5, <1>6, <1>7, <1>8

\* The collection after a step of a job of a column.
LEMMA ColumnFrame ==
    ASSUME NEW c \in Shape, NEW n, NEW w, NEW sc, SameOrders(c, n), SameIndex(c, n),
           n.exists = c.exists, n.dirty = c.dirty, c.columned, LateColumn(sc),
           IndexMatches(c, w), MetaOk(sc, c), BuildOk(sc, c),
           n.column.status = "error" => c.column.status = "error" \/ "fails" \in sc.may
    PROVE  IndexMatches(n, w) /\ MetaOk(sc, n) /\ BuildOk(sc, n)
<1>1. n.indexed = c.indexed /\ n.index = c.index /\ n.build = c.build  BY DEF SameIndex
<1>2. IndexMatches(n, w)  BY <1>1, KeptIndex
<1>3. /\ n.indexed \/ n.build.status # "none" => c.indexed \/ c.build.status # "none"
      /\ n.build.status = "building" => c.build.status = "building"
    BY <1>1
<1>4. MetaOk(sc, n) /\ BuildOk(sc, n)  BY <1>3, KeptOrders
<1> QED  BY <1>2, <1>4

LEMMA MatchInstallColumn ==
    ASSUME StateInv, MatchInv, InstallColumn
    PROVE  MatchInv'
<1> DEFINE h == Head(jobs)
           current == coll.columned /\ coll.column.id = h.token
           k == Install(coll.column, h.column)
           n == WithColumn(coll, k)
           f == First(coll)
           nj == StripJob(h, f)
           w == written
<1>0. coll \in Shape /\ Present(coll, w) /\ w \in [Rids -> Cells]  BY DEF StateInv, CollOk
<1>1. /\ Matches(scenario, coll, jobs, w) /\ RowsMatch(coll, w) /\ IndexMatches(coll, w)
      /\ JobsOk(jobs, coll, w) /\ NoColumnJobs(scenario, jobs)
      /\ MetaOk(scenario, coll) /\ BuildOk(scenario, coll)
    BY DEF MatchInv, Matches
<1>2. jobs # <<>> /\ h.kind = "column" /\ h.phase = "scan" /\ Ahead = {}
    BY DEF InstallColumn, Active
<1>3. n = [coll EXCEPT !.column = Install(@, h.column)]  BY DEF WithColumn
<1>4. /\ IF current /\ LiveRids(coll) # {}
         THEN jobs' = [jobs EXCEPT ![1] = nj] /\ coll' = Stripped(n, f)
         ELSE jobs' = Tail(jobs) /\ coll' = (IF current THEN n ELSE coll)
      /\ scenario' = scenario /\ written' = written
    BY <1>3 DEF InstallColumn, Slice, End, Derive, First, StripJob
<1>5. /\ h \in OwnJob /\ h = jobs[1] /\ 1 \in 1..Len(jobs) /\ jobs \in Seq(AnyJob)
      /\ JobOk(h, coll, w) /\ LateColumn(scenario) /\ coll.dirty = <<>> /\ coll.columned
    BY <1>2, ActiveColumn
<1>6. CASE ~current
    <2>1. coll' = coll /\ jobs' = Tail(jobs)  BY <1>4, <1>6
    <2> QED  BY <1>2, <1>4, <2>1, MatchEnd
<1>7. CASE current
    <2>1. h.token = coll.column.id  BY <1>7
    <2>2. ColumnJobOk(h, coll, w)  BY <1>2, <1>5, <2>1 DEF JobOk
    <2>3. \A q \in Rids : q > h.at => coll.base[q] = Gone  BY <1>2 DEF Ahead, LiveRids
    <2> HIDE DEF h, current
    <2>4. k \in ColumnType  BY <1>0, <1>5, InstallFacts DEF OwnJob, Shape
    <2>5. k = Install(coll.column, h.column)  OBVIOUS
    <2> HIDE DEF k
    <2>6. /\ n \in Shape /\ SameRows(coll, n) /\ SameOrders(coll, n) /\ SameIndex(coll, n)
          /\ n.column = k /\ n.dirty = coll.dirty
        BY <1>0, <2>4, WithColumnFacts
    <2> HIDE DEF n
    <2>7. /\ n.exists = coll.exists /\ n.base = coll.base /\ n.columned = coll.columned
          /\ n.tokens = coll.tokens /\ n.build = coll.build
        BY <2>6 DEF SameRows, SameOrders, SameIndex
    <2>8. Ready(n) /\ n.column.id = coll.column.id /\ RowsMatch(n, w)
        BY <1>0, <1>1, <1>5, <2>2, <2>3, <2>5, <2>6, <2>7, InstalledMatches
    <2>9. n.column.status # "error"  BY <2>8 DEF Ready
    <2>10. CASE LiveRids(coll) = {}
        <3>1. coll' = n /\ jobs' = Tail(jobs)  BY <1>4, <1>7, <2>10
        <3>2. IndexMatches(n, w) /\ MetaOk(scenario, n) /\ BuildOk(scenario, n)
            BY <1>0, <1>1, <1>5, <2>6, <2>7, <2>9, ColumnFrame
        <3>3. \A i \in 1..Len(jobs) : i # 1 => JobOk(jobs[i], n, w)
            <4>1. jobs[1].kind = "column" /\ jobs[1].token = coll.column.id
                BY <1>2, <1>5, <2>1 DEF h
            <4> QED  BY <1>0, <1>1, <1>5, <2>7, <2>8, <4>1, OtherColumns
        <3>4. JobsOk(Tail(jobs), n, w) /\ NoColumnJobs(scenario, Tail(jobs))
            BY <1>1, <1>2, <1>5, <2>7, <3>3, TailOk
        <3>5. Matches(scenario, n, Tail(jobs), w)  BY <2>8, <3>2, <3>4 DEF Matches
        <3>6. Matches(scenario', coll', jobs', written')  BY <1>4, <3>1, <3>5
        <3> QED  BY <3>6 DEF MatchInv
    <2>11. CASE LiveRids(coll) # {}
        <3> DEFINE m == Stripped(n, f)
        <3>1. coll' = m /\ jobs' = [jobs EXCEPT ![1] = nj]  BY <1>4, <1>7, <2>11
        <3>2. f \in Rids /\ f \in 0..MaxRid  BY <2>11, FirstFacts
        <3> HIDE DEF f
        <3>3. /\ nj \in OwnJob /\ nj.kind = h.kind /\ nj.token = h.token /\ nj.phase = "strip"
            BY <1>5, <3>2 DEF StripJob, OwnJob, Phases
        <3> HIDE DEF nj
        <3>4. RowsMatch(m, w)
            <4>1. n.dirty = <<>>  BY <1>5, <2>6
            <4> QED  BY <1>0, <2>6, <2>8, <3>2, <4>1, StrippedMatches
        <3>5. SameDerived(n, m)  BY <2>6, <3>2, StrippedFacts
        <3> HIDE DEF m
        <3>6. /\ m.exists = n.exists /\ m.column = n.column /\ m.columned = n.columned
              /\ m.dirty = n.dirty /\ m.tokens = n.tokens /\ m.build = n.build
            BY <3>5 DEF SameDerived
        <3>7. SameOrders(n, m) /\ SameIndex(n, m)  BY <3>5 DEF SameDerived, SameOrders, SameIndex
        <3>8. SameOrders(coll, m) /\ SameIndex(coll, m)
            BY <2>6, <3>7 DEF SameOrders, SameIndex
        <3>9. /\ m.exists = coll.exists /\ m.dirty = coll.dirty /\ m.tokens = coll.tokens
              /\ m.columned = coll.columned /\ m.build = coll.build
              /\ m.column.id = coll.column.id /\ m.column.status # "error"
            BY <2>6, <2>7, <2>8, <2>9, <3>6
        <3>10. IndexMatches(m, w) /\ MetaOk(scenario, m) /\ BuildOk(scenario, m)
            BY <1>0, <1>1, <1>5, <3>8, <3>9, ColumnFrame
        <3>11. \A i \in 1..Len(jobs) : i # 1 => JobOk(jobs[i], m, w)
            <4>1. jobs[1].kind = "column" /\ jobs[1].token = coll.column.id
                BY <1>2, <1>5, <2>1 DEF h
            <4> QED  BY <1>0, <1>1, <1>5, <3>9, <4>1, OtherColumns
        <3>12. JobOk(nj, m, w)
            <4>1. Ready(m) /\ m.columned  BY <2>8, <3>6 DEF Ready
            <4>2. nj.token <= m.column.id
                <5>1. nj.token = m.column.id /\ m.column.id \in Nat
                    BY <1>0, <2>1, <3>3, <3>9 DEF Shape, ColumnType
                <5> QED  BY <5>1
            <4> QED  BY <1>2, <3>3, <4>1, <4>2 DEF JobOk
        <3>13. nj \in AnyJob  BY <3>3 DEF AnyJob
        <3>14. /\ JobsOk([jobs EXCEPT ![1] = nj], m, w)
               /\ NoColumnJobs(scenario, [jobs EXCEPT ![1] = nj])
            BY <1>1, <1>2, <1>5, <3>3, <3>9, <3>11, <3>12, <3>13, SliceOk DEF h
        <3>15. Matches(scenario, m, [jobs EXCEPT ![1] = nj], w)
            BY <3>4, <3>10, <3>14 DEF Matches
        <3>16. Matches(scenario', coll', jobs', written')  BY <1>4, <3>1, <3>15
        <3> QED  BY <3>16 DEF MatchInv
    <2> QED  BY <2>10, <2>11
<1> QED  BY <1>6, <1>7

LEMMA MatchStripColumn ==
    ASSUME StateInv, MatchInv, StripColumn
    PROVE  MatchInv'
<1> DEFINE r == NextRid
           h == Head(jobs)
           job == [h EXCEPT !.at = r]
           m == Stripped(coll, r)
           w == written
<1>0. coll \in Shape /\ w \in [Rids -> Cells]  BY DEF StateInv, CollOk
<1>1. /\ Matches(scenario, coll, jobs, w) /\ RowsMatch(coll, w) /\ IndexMatches(coll, w)
      /\ JobsOk(jobs, coll, w) /\ NoColumnJobs(scenario, jobs)
      /\ MetaOk(scenario, coll) /\ BuildOk(scenario, coll)
    BY DEF MatchInv, Matches
<1>2. jobs # <<>> /\ h.kind = "column" /\ h.phase = "strip"  BY DEF StripColumn, Active
<1>3. CASE Ahead = {}
    <2>1. jobs' = Tail(jobs) /\ coll' = coll /\ scenario' = scenario /\ written' = written
        BY <1>3 DEF StripColumn, End, Derive
    <2> QED  BY <1>2, <2>1, MatchEnd
<1>4. CASE Ahead # {}
    <2>1. /\ jobs' = [jobs EXCEPT ![1] = job] /\ coll' = m
          /\ scenario' = scenario /\ written' = written
        BY <1>4 DEF StripColumn, Slice, Derive
    <2>2. /\ h \in OwnJob /\ h = jobs[1] /\ jobs \in Seq(AnyJob)
          /\ JobOk(h, coll, w) /\ LateColumn(scenario) /\ coll.dirty = <<>> /\ coll.columned
        BY <1>2, ActiveColumn
    <2>3. r \in Rids /\ r \in 0..MaxRid  BY <1>4, NextRidFacts
    <2>4. Ready(coll) /\ h.token <= coll.column.id  BY <1>2, <2>2 DEF JobOk
    <2> HIDE DEF r, h
    <2>5. job \in OwnJob /\ job.kind = h.kind /\ job.token = h.token /\ job.phase = h.phase
        BY <2>2, <2>3 DEF OwnJob
    <2> HIDE DEF job
    <2>6. RowsMatch(m, w)  BY <1>0, <1>1, <2>2, <2>3, <2>4, StrippedMatches
    <2>7. SameDerived(coll, m)  BY <1>0, <2>3, StrippedFacts
    <2> HIDE DEF m
    <2>8. /\ m.exists = coll.exists /\ m.column = coll.column /\ m.columned = coll.columned
          /\ m.dirty = coll.dirty /\ m.tokens = coll.tokens /\ m.build = coll.build
        BY <2>7 DEF SameDerived
    <2>9. SameOrders(coll, m) /\ SameIndex(coll, m)  BY <2>7 DEF SameDerived, SameOrders, SameIndex
    <2>10. IndexMatches(m, w) /\ MetaOk(scenario, m) /\ BuildOk(scenario, m)
        BY <1>0, <1>1, <2>2, <2>8, <2>9, ColumnFrame
    <2>11. \A i \in 1..Len(jobs) : JobOk(jobs[i], m, w)  BY <1>1, <2>8, OthersKept
    <2>12. JobOk(job, m, w)
        <3>1. Ready(m)  BY <2>4, <2>8 DEF Ready
        <3> QED  BY <1>2, <2>2, <2>4, <2>5, <2>8, <3>1 DEF JobOk
    <2>13. job \in AnyJob  BY <2>5 DEF AnyJob
    <2>14. /\ JobsOk([jobs EXCEPT ![1] = job], m, w)
           /\ NoColumnJobs(scenario, [jobs EXCEPT ![1] = job])
        BY <1>1, <1>2, <2>2, <2>5, <2>8, <2>11, <2>12, <2>13, SliceOk DEF h
    <2>15. Matches(scenario, m, [jobs EXCEPT ![1] = job], w)  BY <2>6, <2>10, <2>14 DEF Matches
    <2>16. Matches(scenario', coll', jobs', written')  BY <2>1, <2>15
    <2> QED  BY <2>16 DEF MatchInv
<1> QED  BY <1>3, <1>4

LEMMA MatchFailColumn ==
    ASSUME StateInv, MatchInv, FailColumn
    PROVE  MatchInv'
<1> DEFINE h == Head(jobs)
           current == coll.columned /\ coll.column.id = h.token
           w == written
<1>0. coll \in Shape  BY DEF StateInv, CollOk
<1>1. /\ Matches(scenario, coll, jobs, w) /\ RowsMatch(coll, w) /\ IndexMatches(coll, w)
      /\ JobsOk(jobs, coll, w) /\ NoColumnJobs(scenario, jobs)
      /\ MetaOk(scenario, coll) /\ BuildOk(scenario, coll)
    BY DEF MatchInv, Matches
<1>2. jobs # <<>> /\ h.kind = "column" /\ "fails" \in scenario.may  BY DEF FailColumn, Active
<1>3. PICK k \in ColumnType :
         /\ [coll EXCEPT !.column.status = "error", !.column.pending = EmptyColumn.pending]
               = WithColumn(coll, k)
         /\ k.status = "error" /\ k.vals = coll.column.vals /\ k.id = coll.column.id
    BY <1>0, FailedColumnFacts
<1> DEFINE n == WithColumn(coll, k)
<1>4. /\ jobs' = Tail(jobs) /\ coll' = (IF current THEN n ELSE coll)
      /\ scenario' = scenario /\ written' = written
    BY <1>3 DEF FailColumn, End, Derive
<1>5. /\ h = jobs[1] /\ 1 \in 1..Len(jobs) /\ jobs \in Seq(AnyJob)
      /\ LateColumn(scenario) /\ coll.columned
    BY <1>2, ActiveColumn
<1>6. CASE ~current
    <2>1. coll' = coll  BY <1>4, <1>6
    <2> QED  BY <1>2, <1>4, <2>1, MatchEnd
<1>7. CASE current
    <2>1. h.token = coll.column.id /\ coll' = n  BY <1>4, <1>7
    <2> HIDE DEF current
    <2>2. /\ n \in Shape /\ SameRows(coll, n) /\ SameOrders(coll, n) /\ SameIndex(coll, n)
          /\ n.column = k /\ n.dirty = coll.dirty
        BY <1>0, WithColumnFacts
    <2> HIDE DEF n
    <2>3. /\ n.exists = coll.exists /\ n.base = coll.base /\ n.columned = coll.columned
          /\ n.tokens = coll.tokens /\ n.build = coll.build
        BY <2>2 DEF SameRows, SameOrders, SameIndex
    <2>4. n.column.status = "error" /\ n.column.vals = coll.column.vals /\ n.column.id = coll.column.id
        BY <1>3, <2>2
    <2>5. RowsMatch(n, w)
        <3> SUFFICES ASSUME NEW r \in Rids PROVE RowMatches(n, w, r)  BY DEF RowsMatch
        <3>1. RowMatches(coll, w, r)  BY <1>1 DEF RowsMatch
        <3>2. ~Building(n) /\ n.columned /\ Dirty(n) = Dirty(coll)
            BY <1>5, <2>2, <2>3, <2>4 DEF Building, Dirty
        <3>3. Split(coll, w, r) => Split(n, w, r)  BY <2>3, <2>4 DEF Split
        <3>4. Unread(coll, w, r) => Unread(n, w, r)  BY <2>3, <2>4 DEF Unread
        <3>5. Building(coll) => Unread(n, w, r)
            <4> HAVE Building(coll)
            <4>1. coll.base[r] = w[r] /\ coll.column.vals[r] = Absent  BY <3>1 DEF RowMatches
            <4> QED  BY <2>3, <2>4, <4>1 DEF Unread
        <3>6. r \in Dirty(coll) => n.base[r] = w[r]  BY <2>3, <3>1 DEF RowMatches
        <3>7. r \notin Dirty(coll) => Split(n, w, r) \/ Unread(n, w, r)
            BY <1>5, <3>1, <3>3, <3>4, <3>5 DEF RowMatches
        <3> QED  BY <3>2, <3>6, <3>7 DEF RowMatches
    <2>6. IndexMatches(n, w) /\ MetaOk(scenario, n) /\ BuildOk(scenario, n)
        BY <1>0, <1>1, <1>2, <1>5, <2>2, <2>3, ColumnFrame
    <2>7. \A i \in 1..Len(jobs) : i # 1 => JobOk(jobs[i], n, w)
        <3>1. jobs[1].kind = "column" /\ jobs[1].token = coll.column.id  BY <1>2, <1>5, <2>1
        <3> QED  BY <1>0, <1>1, <1>5, <2>3, <2>4, <3>1, OtherColumns
    <2>8. JobsOk(Tail(jobs), n, w) /\ NoColumnJobs(scenario, Tail(jobs))
        BY <1>1, <1>2, <1>5, <2>3, <2>7, TailOk
    <2>9. Matches(scenario, n, Tail(jobs), w)  BY <2>5, <2>6, <2>8 DEF Matches
    <2>10. Matches(scenario', coll', jobs', written')  BY <1>4, <2>1, <2>9
    <2> QED  BY <2>10 DEF MatchInv
<1> QED  BY <1>6, <1>7

----------------------------------------------------------------------------
\* The catch-up of the rows that a large batch left dirty.

LEMMA CaughtIndex ==
    ASSUME NEW c \in Shape, NEW w \in [Rids -> Cells], IndexMatches(c, w), NEW r \in Rids, NEW n,
           Caught(c, n, r, w[r]), n.indexed = c.indexed,
           \A q : q \in Dirty(n) <=> q \in Dirty(c) /\ q # r
    PROVE  IndexMatches(n, w)
<1> SUFFICES ASSUME n.indexed
             PROVE  Paired(n.index) /\ \A q \in Rids \ Dirty(n) : n.index.forward[q] = w[q]
    BY DEF IndexMatches
<1>1. Paired(c.index) /\ \A q \in Rids \ Dirty(c) : c.index.forward[q] = w[q]
    BY DEF IndexMatches
<1> DEFINE x == RefreshedIndex(c, r, w[r])
<1>2. n.index = x  BY DEF Caught
<1>3. Paired(x) /\ x.forward[r] = w[r] /\ \A q \in Rids : q # r => x.forward[q] = c.index.forward[q]
    <2>1. w[r] \in Cells  OBVIOUS
    <2>2. PICK v \in Cells : v = w[r]  BY <2>1
    <2>3. LET y == RefreshedIndex(c, r, v)
          IN Paired(y) /\ y.forward[r] = v /\ \A q \in Rids : q # r => y.forward[q] = c.index.forward[q]
        BY <1>1, RefreshedPaired
    <2> QED  BY <2>2, <2>3
<1> HIDE DEF x
<1> QED  BY <1>1, <1>2, <1>3

LEMMA CaughtRows ==
    ASSUME NEW c \in Shape, NEW w \in [Rids -> Cells], RowsMatch(c, w), NEW r \in Rids, r \in Dirty(c),
           NEW n, Caught(c, n, r, w[r]), n.columned = c.columned, c.columned => Ready(c),
           \A q : q \in Dirty(n) <=> q \in Dirty(c) /\ q # r
    PROVE  RowsMatch(n, w) /\ n.column.status = c.column.status /\ n.column.id = c.column.id
<1> DEFINE v == w[r]
           k == UpdateState(c.column, r, ColumnState(v))
<1>0. c.column \in ColumnType /\ c.base \in [Rids -> Cells] /\ v \in Cells  BY DEF Shape
<1>1. /\ n.base = [c.base EXCEPT ![r] = IF v = Gone THEN Gone ELSE BaseValue(c, v)]
      /\ n.column = IF c.columned THEN k ELSE c.column
    BY DEF Caught
<1>2. ColumnState(v) \in Fields  BY <1>0, ColumnStateType
<1>3. /\ k.status = c.column.status /\ k.id = c.column.id
      /\ c.columned => k.vals = [c.column.vals EXCEPT ![r] = ColumnState(v)]
    <2>1. /\ k.status = c.column.status /\ k.id = c.column.id
          /\ c.column.status # "building" => k.vals = [c.column.vals EXCEPT ![r] = ColumnState(v)]
        <3> DEFINE cs == ColumnState(v)
        <3> HIDE DEF cs, v
        <3>1. cs \in Fields  BY <1>2 DEF cs
        <3> QED  BY ZenonT(20), <1>0, <3>1, UpdateStateFacts DEF cs
    <2> HIDE DEF k, v
    <2> QED  BY <2>1 DEF Ready
<1> HIDE DEF k, v
<1>4. n.column.status = c.column.status /\ n.column.id = c.column.id  BY <1>1, <1>3
<1>5. ~Building(n) /\ ~Building(c)  BY <1>4 DEF Building, Ready
<1>6. \A q \in Rids : q # r => n.base[q] = c.base[q]  BY <1>0, <1>1
<1>7. n.base[r] = IF v = Gone THEN Gone ELSE BaseValue(c, v)  BY <1>0, <1>1
<1>8. c.columned => /\ n.column.vals[r] = ColumnState(v)
                    /\ \A q \in Rids : q # r => n.column.vals[q] = c.column.vals[q]
    BY <1>0, <1>1, <1>3 DEF ColumnType
<1>9. ASSUME NEW q \in Rids PROVE RowMatches(n, w, q)
    <2>1. RowMatches(c, w, q)  BY DEF RowsMatch
    <2>2. CASE q = r
        <3>1. r \notin Dirty(n)  OBVIOUS
        <3>2. CASE ~c.columned
            <4>1. n.base[r] = w[r]  BY <1>7, <3>2 DEF v, BaseValue, Ready
            <4> QED  BY <1>5, <2>2, <3>1, <3>2, <4>1 DEF RowMatches
        <3>3. CASE c.columned
            <4>1. BaseValue(c, v) = Absent  BY <3>3 DEF BaseValue
            <4>2. n.base[r] \in {w[r], Absent}  BY <1>7, <4>1 DEF v
            <4>3. Split(n, w, r)  BY <1>8, <3>3, <4>2 DEF Split, v
            <4> QED  BY <1>5, <2>2, <3>1, <3>3, <4>3 DEF RowMatches
        <3> QED  BY <3>2, <3>3
    <2>3. CASE q # r
        <3>1. n.base[q] = c.base[q] /\ (q \in Dirty(n) <=> q \in Dirty(c))  BY <1>6, <2>3
        <3>2. c.columned => n.column.vals[q] = c.column.vals[q]  BY <1>8, <2>3
        <3>3. c.columned /\ Split(c, w, q) => Split(n, w, q)  BY <3>1, <3>2 DEF Split
        <3>4. c.columned => ~Unread(c, w, q)  BY DEF Ready, Unread
        <3> QED  BY <1>5, <2>1, <3>1, <3>3, <3>4 DEF RowMatches
    <2> QED  BY <2>2, <2>3
<1> QED  BY <1>4, <1>9 DEF RowsMatch

LEMMA MatchCatchup ==
    ASSUME StateInv, MatchInv, RunDirtyIndexCatchup
    PROVE  MatchInv'
<1> DEFINE w == written
<1>0. /\ coll \in Shape /\ w \in [Rids -> Cells] /\ Present(coll, w) /\ Once(coll.dirty)
      /\ JobsTyped(jobs, coll) /\ jobs \in Seq(AnyJob)
    BY DEF StateInv, CollOk, JobsTyped
<1>1. /\ Matches(scenario, coll, jobs, w) /\ RowsMatch(coll, w) /\ IndexMatches(coll, w)
      /\ JobsOk(jobs, coll, w) /\ NoColumnJobs(scenario, jobs)
      /\ MetaOk(scenario, coll) /\ BuildOk(scenario, coll)
    BY DEF MatchInv, Matches
<1>2. jobs # <<>> /\ Head(jobs).kind = "dirty"  BY DEF RunDirtyIndexCatchup, Active
<1>3. CASE coll.dirty = <<>>
    <2> DEFINE job == [Head(jobs) EXCEPT !.phase = "settle"]
    <2>1. /\ jobs' = [jobs EXCEPT ![1] = job] /\ coll' = coll
          /\ scenario' = scenario /\ written' = written
        BY <1>3 DEF RunDirtyIndexCatchup, Slice, Derive
    <2>2. Head(jobs) \in OwnJob  BY <1>0, <1>2, ActiveFacts DEF OwnKinds
    <2>3. job \in OwnJob /\ job.kind = Head(jobs).kind /\ job.token = Head(jobs).token
        BY <2>2 DEF OwnJob, Phases
    <2> HIDE DEF job
    <2>4. job \in AnyJob  BY <2>3 DEF AnyJob
    <2>5. JobOk(job, coll, w)  BY <1>2, <2>3 DEF JobOk
    <2>6. \A i \in 1..Len(jobs) : i # 1 => JobOk(jobs[i], coll, w)  BY <1>1 DEF JobsOk
    <2>7. /\ JobsOk([jobs EXCEPT ![1] = job], coll, w)
          /\ NoColumnJobs(scenario, [jobs EXCEPT ![1] = job])
        BY <1>0, <1>1, <1>2, <2>3, <2>4, <2>5, <2>6, SliceOk
    <2>8. Matches(scenario, coll, [jobs EXCEPT ![1] = job], w)  BY <1>1, <2>7 DEF Matches
    <2>9. Matches(scenario', coll', jobs', written')  BY <2>1, <2>8
    <2> QED  BY <2>9 DEF MatchInv
<1>4. CASE coll.dirty # <<>>
    <2> DEFINE r == Head(coll.dirty)
               n == RefreshedRid(coll, r)
    <2>1. jobs' = jobs /\ coll' = n /\ scenario' = scenario /\ written' = written
        BY <1>4 DEF RunDirtyIndexCatchup, Derive
    <2>2. coll.dirty \in Seq(Rids)  BY <1>0 DEF Shape
    <2>3. r \in Rids /\ \A q : q \in Range(Tail(coll.dirty)) <=> q \in Range(coll.dirty) /\ q # r
        BY <1>0, <1>4, <2>2, OnceTail
    <2>4. r \in Dirty(coll)
        <3>1. Len(coll.dirty) \in Nat \ {0} /\ r = coll.dirty[1]  BY <1>4, <2>2, EmptySeq
        <3>2. 1 \in DOMAIN coll.dirty  BY <2>2, <3>1, LenProperties
        <3> QED  BY <3>1, <3>2 DEF Dirty, Range
    <2> HIDE DEF r
    <2>5. /\ n \in Shape /\ SameOrders(coll, n) /\ Caught(coll, n, r, Hydrated(coll, r))
          /\ n.indexed = coll.indexed /\ n.build = coll.build /\ n.exists = coll.exists
        BY <1>0, <1>4, <2>3, RefreshedFacts
    <2> HIDE DEF n
    <2>6. Hydrated(coll, r) = w[r]
        <3>1. RowMatches(coll, w, r)  BY <1>1, <2>3 DEF RowsMatch
        <3>2. coll.base[r] = Gone <=> w[r] = Gone  BY <1>0, <2>3 DEF Present
        <3> QED  BY <1>0, <2>3, <3>1, <3>2, ReadFacts
    <2>7. Caught(coll, n, r, w[r])  BY <2>5, <2>6
    <2>8. \A q : q \in Dirty(n) <=> q \in Dirty(coll) /\ q # r
        <3>1. n.dirty = Tail(coll.dirty)  BY <2>7 DEF Caught
        <3> QED  BY <2>3, <3>1 DEF Dirty
    <2>9. ~LateColumn(scenario) /\ (coll.columned => Ready(coll))  BY <1>1, <1>4 DEF BuildOk
    <2>10. n.columned = coll.columned /\ n.tokens = coll.tokens  BY <2>5 DEF SameOrders
    <2>11. IndexMatches(n, w)  BY <1>0, <1>1, <2>3, <2>5, <2>7, <2>8, CaughtIndex
    <2>12. RowsMatch(n, w) /\ n.column.status = coll.column.status /\ n.column.id = coll.column.id
        BY <1>0, <1>1, <2>3, <2>4, <2>7, <2>8, <2>9, <2>10, CaughtRows
    <2>13. coll.columned \/ n.column = coll.column  BY <2>7 DEF Caught
    <2>14. MetaOk(scenario, n) /\ BuildOk(scenario, n)
        <3>1. /\ n.indexed \/ n.build.status # "none" => coll.indexed \/ coll.build.status # "none"
              /\ n.build.status = "building" => coll.build.status = "building"
              /\ n.column.status = "error" => coll.column.status = "error"
            BY <2>5, <2>12
        <3> QED  BY <1>1, <2>5, <2>9, <2>12, <2>13, <3>1, KeptOrders
    <2>15. \A i \in 1..Len(jobs) : JobOk(jobs[i], n, w)
        <3> TAKE i \in 1..Len(jobs)
        <3>1. PICK job : job = jobs[i]  OBVIOUS
        <3>2. JobOk(job, coll, w) /\ job.kind # "column"
            BY <1>1, <2>9, <3>1 DEF JobsOk, NoColumnJobs
        <3>3. JobOk(job, n, w)  BY <2>5, <2>10, <2>12, <3>2, JobKept
        <3> QED  BY <3>1, <3>3
    <2>16. JobsOk(jobs, n, w)  BY <1>1, <2>5, <2>15 DEF JobsOk
    <2>17. Matches(scenario, n, jobs, w)  BY <1>1, <2>11, <2>12, <2>14, <2>16 DEF Matches
    <2>18. Matches(scenario', coll', jobs', written')  BY <2>1, <2>17
    <2> QED  BY <2>18 DEF MatchInv
<1> QED  BY <1>3, <1>4

LEMMA MatchJob ==
    ASSUME StateInv, MatchInv, RunAnyJob
    PROVE  MatchInv'
<1>1. CASE RunJob
    BY <1>1, MatchScanField, MatchInstallField, MatchFailField, MatchScanColumn,
       MatchInstallColumn, MatchStripColumn, MatchFailColumn, MatchCatchup, MatchSettle,
       MatchCancelled DEF RunJob
<1>2. CASE RunVectorJob  BY <1>2, MatchVectorJob
<1> QED  BY <1>1, <1>2 DEF RunAnyJob

\* The scenario is the same throughout.
LEMMA SameScenario ==
    ASSUME [CollectionNext]_collectionVars
    PROVE  scenario' = scenario
<1>1. CASE \E rows \in Batches, size \in scenario.sizes : PutRows(rows, size)
    BY <1>1 DEF PutRows, PutObjects, Write
<1>2. CASE \E r \in Rids, size \in scenario.sizes : DeleteRows(<<r>>, size)
    BY <1>2 DEF DeleteRows, DeleteObjects, Write
<1>3. CASE \E meta \in scenario.metas : SetMeta(meta) /\ UNCHANGED vecs  BY <1>3 DEF SetMeta
<1>4. CASE Warmup  BY <1>4 DEF Warmup, StartIndexWarmup
<1>5. CASE WarmVectorIndexes  BY <1>5 DEF WarmVectorIndexes, StartVectorIndexWarmups
<1>6. CASE \E k \in scenario.searches : VectorSearch(k)
    BY <1>6 DEF VectorSearch, StartVectorIndexWarmups
<1>7. CASE \E placement \in scenario.placements : ReplaceShardMap(placement)
    BY <1>7 DEF ReplaceShardMap
<1>8. CASE Drop  BY <1>8 DEF Drop, DropCollection
<1>9. CASE RunAnyJob
    <2>1. CASE RunVectorJob
        BY <2>1 DEF RunVectorJob, ScanVector, ReadyVector, EndStaleVector, Derive
    <2>2. CASE ScanField \/ InstallField \/ FailField
        BY <2>2 DEF ScanField, InstallField, FailField, Derive
    <2>3. CASE ScanColumn \/ StripColumn \/ FailColumn
        BY <2>3 DEF ScanColumn, StripColumn, FailColumn, Derive
    <2>4. CASE InstallColumn  BY <2>4 DEF InstallColumn, Derive
    <2>5. CASE RunDirtyIndexCatchup \/ SettleCatchup \/ EndCancelled
        BY <2>5 DEF RunDirtyIndexCatchup, SettleCatchup, EndCancelled, Derive
    <2>6. RunJob => \/ ScanField \/ InstallField \/ FailField
                    \/ ScanColumn \/ StripColumn \/ FailColumn \/ InstallColumn
                    \/ RunDirtyIndexCatchup \/ SettleCatchup \/ EndCancelled
        BY DEF RunJob
    <2>7. RunJob \/ RunVectorJob  BY <1>9 DEF RunAnyJob
    <2> QED  BY ZenonT(20), <2>1, <2>2, <2>3, <2>4, <2>5, <2>6, <2>7
<1>10. CASE UNCHANGED collectionVars  BY <1>10 DEF collectionVars, vars
<1> QED
    BY <1>1, <1>2, <1>3, <1>4, <1>5, <1>6, <1>7, <1>8, <1>9, <1>10 DEF CollectionNext

LEMMA MatchNext ==
    StateInv /\ MatchInv /\ Regular(scenario) /\ [CollectionNext]_collectionVars => MatchInv'
<1> SUFFICES ASSUME StateInv, MatchInv, Regular(scenario), [CollectionNext]_collectionVars
             PROVE  MatchInv'
    OBVIOUS
<1>1. CASE \E rows \in Batches, size \in scenario.sizes : PutRows(rows, size)
    BY <1>1, MatchPut
<1>2. CASE \E r \in Rids, size \in scenario.sizes : DeleteRows(<<r>>, size)
    BY <1>2, MatchDelete
<1>3. CASE \E meta \in scenario.metas : SetMeta(meta) /\ UNCHANGED vecs
    BY <1>3, MatchSetMeta
<1>4. CASE Warmup  BY <1>4, MatchWarmup
<1>5. CASE WarmVectorIndexes  BY <1>5, MatchWarmVectors
<1>6. CASE \E k \in scenario.searches : VectorSearch(k)  BY <1>6, MatchSearch
<1>7. CASE \E placement \in scenario.placements : ReplaceShardMap(placement)
    BY <1>7, MatchReplace
<1>8. CASE Drop  BY <1>8, MatchDrop
<1>9. CASE RunAnyJob  BY <1>9, MatchJob
<1>10. CASE UNCHANGED collectionVars
    <2>1. scenario' = scenario /\ coll' = coll /\ jobs' = jobs /\ written' = written
        BY <1>10 DEF collectionVars, vars
    <2>2. Matches(scenario', coll', jobs', written')  BY <2>1 DEF MatchInv
    <2> QED  BY <2>2 DEF MatchInv
<1> QED
    BY <1>1, <1>2, <1>3, <1>4, <1>5, <1>6, <1>7, <1>8, <1>9, <1>10 DEF CollectionNext

\* In a regular scenario rows, dirty list, index, column and the builds that run match
\* what was written: neither a write during a build nor one in a catch-up is lost
\* (_applyIndexDeltas, _runFieldIndexBuild, TypedRidColumn.install).
THEOREM CollectionMatches == Spec /\ Regular(scenario) => []MatchInv
<1>1. CollectionInit /\ Regular(scenario) => MatchInv  BY MatchInit
<1>2. Regular(scenario) /\ [CollectionNext]_collectionVars => Regular(scenario)'
    <2> SUFFICES ASSUME Regular(scenario), [CollectionNext]_collectionVars PROVE Regular(scenario)'
        OBVIOUS
    <2>1. scenario' = scenario  BY SameScenario
    <2>2. Regular(scenario')  BY <2>1
    <2> QED  BY <2>2
<1> QED  BY <1>1, <1>2, MatchNext, CollectionState, PTL DEF Spec

----------------------------------------------------------------------------
LEMMA AllRead ==
    ASSUME StateInv, MatchInv
    PROVE  \A r \in Rids : Hydrated(coll, r) = written[r]
<1> TAKE r \in Rids
<1>1. coll \in Shape /\ written \in [Rids -> Cells] /\ Present(coll, written)
    BY DEF StateInv, CollOk
<1>2. RowMatches(coll, written, r)  BY DEF MatchInv, Matches, RowsMatch
<1>3. coll.base[r] = Gone <=> written[r] = Gone  BY <1>1 DEF Present
<1> QED  BY <1>1, <1>2, <1>3, ReadFacts

\* In a regular scenario a row is always read as it was last written, from the stored row
\* or the column, before, while and after the column is built and its rows are stripped
\* (_hydrateColumns, _rebuildColumns).
THEOREM ReadsHold == Spec /\ Regular(scenario) => []ReadsReturnWrites
<1>1. StateInv /\ MatchInv => ReadsReturnWrites  BY AllRead DEF ReadsReturnWrites
<1> QED  BY <1>1, CollectionState, CollectionMatches, PTL

\* An index in which no row is dirty has every row once.
LEMMA EachVisited ==
    ASSUME NEW c \in Shape, NEW w \in [Rids -> Cells], Paired(c.index),
           NEW r \in Rids, c.index.forward[r] = w[r]
    PROVE  Visits(c, r) = One(w[r] # Gone)
<1> DEFINE S == {entry \in c.index.entries : entry[1] = r}
<1>1. c.index.entries \subseteq Rids \X Fields  BY DEF Shape, IndexType
<1>2. \A e : e \in S <=> \E v \in Fields : e = <<r, v>> /\ w[r] = v
    <2>1. \A v \in Fields : <<r, v>> \in c.index.entries <=> w[r] = v  BY DEF Paired
    <2>2. ASSUME NEW e, e \in S PROVE \E v \in Fields : e = <<r, v>> /\ w[r] = v
        <3>1. e \in Rids \X Fields /\ e[1] = r /\ e \in c.index.entries  BY <1>1, <2>2
        <3>2. PICK v \in Fields : e = <<r, v>>  BY <3>1
        <3> QED  BY <2>1, <3>1, <3>2
    <2>3. ASSUME NEW e, \E v \in Fields : e = <<r, v>> /\ w[r] = v PROVE e \in S
        BY <2>1, <2>3
    <2> QED  BY <2>2, <2>3
<1>3. Visits(c, r) = Cardinality(S)  BY DEF Visits
<1>4. w[r] \in Fields <=> w[r] # Gone  BY CellFacts
<1> HIDE DEF S
<1>5. CASE w[r] = Gone
    <2>1. S = {}  BY <1>2, <1>4, <1>5
    <2> QED  BY <1>3, <1>5, <2>1, FS_EmptySet DEF One
<1>6. CASE w[r] # Gone
    <2>1. S = {<<r, w[r]>>}  BY <1>2, <1>4, <1>6
    <2> QED  BY <1>3, <1>6, <2>1, FS_Singleton DEF One
<1> QED  BY <1>5, <1>6

\* In a regular scenario an equality query returns the rows written with the value, through
\* the index, its dirty rows or a scan, and an ordered read visits every row once
\* (_dirtyAwareIndexedRids, _findWithOrderedIndex).
THEOREM QueriesHold == Spec /\ Regular(scenario) => []QueriesMatchWrites
<1>1. StateInv /\ MatchInv => QueriesMatchWrites
    <2> SUFFICES ASSUME StateInv, MatchInv PROVE QueriesMatchWrites  OBVIOUS
    <2>1. coll \in Shape /\ written \in [Rids -> Cells] /\ Present(coll, written)
        BY DEF StateInv, CollOk
    <2>2. \A r \in Rids : Hydrated(coll, r) = written[r]  BY AllRead
    <2>3. IndexMatches(coll, written)  BY DEF MatchInv, Matches
    <2>4. \A v \in Values : v \in Fields /\ v # Gone  BY CellFacts DEF Fields
    <2>5. ASSUME NEW v \in Values PROVE FindEqual(coll, v) = WrittenWith(v)
        <3>1. \A r : r \in WrittenWith(v) <=> r \in Rids /\ written[r] = v
            BY <2>4 DEF WrittenWith, WrittenRids
        <3>2. CASE coll.indexed
            <4>1. FindEqual(coll, v) = DirtyAwareIndexedRids(coll, v)  BY <3>2 DEF FindEqual
            <4>2. Dirty(coll) \subseteq Rids
                <5>1. coll.dirty \in Seq(Rids)  BY <2>1 DEF Shape
                <5> QED  BY <5>1, LenProperties, ElementOfSeq DEF Dirty, Range
            <4>3. \A r \in Rids : <<r, v>> \in coll.index.entries <=> coll.index.forward[r] = v
                BY <2>3, <2>4, <3>2 DEF IndexMatches, Paired
            <4>4. \A r \in Rids \ Dirty(coll) : coll.index.forward[r] = written[r]
                BY <2>3, <3>2 DEF IndexMatches
            <4>5. \A r : r \in DirtyAwareIndexedRids(coll, v) <=> r \in Rids /\ written[r] = v
                <5>1. \A r : r \in DirtyAwareIndexedRids(coll, v) <=>
                          \/ r \in Rids /\ <<r, v>> \in coll.index.entries /\ r \notin Dirty(coll)
                          \/ r \in Dirty(coll) /\ Hydrated(coll, r) = v
                    BY DEF DirtyAwareIndexedRids
                <5> QED  BY <2>2, <4>2, <4>3, <4>4, <5>1
            <4> QED  BY <3>1, <4>1, <4>5
        <3>3. CASE ~coll.indexed
            <4>1. FindEqual(coll, v) = {r \in LiveRids(coll) : Hydrated(coll, r) = v}
                BY <3>3 DEF FindEqual
            <4>2. \A r : r \in LiveRids(coll) <=> r \in Rids /\ written[r] # Gone
                BY <2>1 DEF LiveRids, Present
            <4>3. \A r : r \in FindEqual(coll, v) <=> r \in Rids /\ written[r] = v
                BY <2>2, <2>4, <4>1, <4>2
            <4> QED  BY <3>1, <4>3
        <3> QED  BY <3>2, <3>3
    <2>6. ASSUME HasOrderedIndex(coll)
          PROVE  /\ \A r \in Rids : Visits(coll, r) = One(r \in WrittenRids)
                 /\ coll.index.forward = written
        <3>1. coll.indexed /\ coll.dirty = <<>>  BY <2>6 DEF HasOrderedIndex
        <3>2. \A r : r \notin Dirty(coll)  BY <3>1 DEF Dirty, Range
        <3>3. Paired(coll.index) /\ \A r \in Rids : coll.index.forward[r] = written[r]
            BY <2>3, <3>1, <3>2 DEF IndexMatches
        <3>4. coll.index.forward \in [Rids -> Cells]  BY <2>1 DEF Shape, IndexType
        <3>5. coll.index.forward = written  BY <2>1, <3>3, <3>4
        <3>6. \A r \in Rids : Visits(coll, r) = One(r \in WrittenRids)
            <4> TAKE r \in Rids
            <4>1. Visits(coll, r) = One(written[r] # Gone)  BY <2>1, <3>3, EachVisited
            <4>2. One(written[r] # Gone) = One(r \in WrittenRids)  BY DEF One, WrittenRids
            <4> QED  BY <4>1, <4>2
        <3> QED  BY <3>5, <3>6
    <2> QED  BY <2>5, <2>6 DEF QueriesMatchWrites
<1> QED  BY <1>1, CollectionState, CollectionMatches, PTL
============================================================================
