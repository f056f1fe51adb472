--------------------------- MODULE RequestsProofs ---------------------------
(***************************************************************************)
(* Proofs about Requests, for every cluster, every assignment of shards,    *)
(* every set of clients' requests and any number of failures and restarts.  *)
(*                                                                          *)
(* AnsweredIsDurable is not inductive.  Its strengthening follows a job     *)
(* through the handler: whatever it did is saved, or is still listed in     *)
(* wrote; wrote is emptied by a save only; and the places in the handler    *)
(* that answer without a save are reached with everything saved.  A save    *)
(* covers a prefix of the writes of its node, so the operations of a log    *)
(* must grow from entry to entry.                                           *)
(*                                                                          *)
(* NotStartedMeansNoEffect needs that a request whose own handler has not   *)
(* started has no calls at other nodes, and that its handler keeps the mark *)
(* whatever answers they bring.                                             *)
(*                                                                          *)
(* DroppedEverywhere needs that a tombstone is always accompanied by the    *)
(* mark of the drop, so that a node which finds one may count it as its own *)
(* work; that no two handlers of the drop work at a node; and that the      *)
(* other nodes know nothing of the drop until it is sent to all of them.    *)
(*                                                                          *)
(* TypeOK needs the type of a job at every place of the handler, and that a *)
(* request for one object has this object as its only group.                *)
(*                                                                          *)
(* PatchKeepsOtherFields is an action property.  A patch is written in the  *)
(* step that compiles it unless the handler waits in between, which it does *)
(* only for a chunk whose first group is elsewhere: a chunk names a shard   *)
(* once, a node owns one shard, and a call is sent to an owner of its only  *)
(* group.                                                                   *)
(*                                                                          *)
(* ReportedIsSaved needs to know at every place which of the request's      *)
(* objects a job has finished: those of the chunks it has no more, and of   *)
(* the groups of the chunk at hand that it has done.  What it counts is at  *)
(* most the marks of these objects, saved somewhere or still in wrote; two  *)
(* groups of a chunk share no object, and a call counts only its own group. *)
(*                                                                          *)
(* FoundUnlessUnanswered needs three things: while nothing is removed, an   *)
(* entry of a log that has the mark of a creation has the object (patches   *)
(* included: they were compiled from an object that was there); an          *)
(* acknowledged creation is saved at a node; and the node that holds the    *)
(* object sought is still among the owners to ask, or is asked and does not *)
(* deny it.                                                                 *)
(***************************************************************************)
EXTENDS Requests, FiniteSetTheorems, SequenceTheorems, TLAPS

\* The node as saved, followed by its unsaved writes.
StateFields == {"rows", "live", "gone", "ops"}

IsLog(l) ==
    /\ \E S : l \in Seq(S)
    /\ Len(l) >= 1
    /\ \A i \in 1..Len(l) : DOMAIN l[i] = StateFields
    /\ \A i, h \in 1..Len(l) : i <= h => l[i].ops \subseteq l[h].ops

LogsOk ==
    /\ DOMAIN log = Nodes
    /\ \A n \in Nodes : IsLog(log[n])

Saved(n) == Durable(n).ops

----------------------------------------------------------------------------
\* A job.

JobFields ==
    {"op", "form", "at", "chunks", "pc", "groups", "peers", "child", "fan", "rows",
     "before", "olds", "existed", "wrote", "did", "part", "count", "fail", "status",
     "started", "known", "missed", "unsaved"}

\* Nothing that the job wrote is lost from sight.
Carries(j, saved) ==
    /\ DOMAIN j = JobFields
    /\ j.op \in ObjectOps \cup ScopeOps /\ j.at \in Nodes
    /\ j.did \subseteq j.wrote \cup saved
    /\ j.op \in Reads => j.did = {}

HasChunks(j) == j.chunks \in Seq(Chunk) /\ j.chunks # <<>>
HasGroups(j) == j.groups \in Seq(Group) /\ j.groups # <<>>

\* Where the job waits with everything saved.
Rested == {"new", "body", "read", "put", "unlink", "fan", "fanned"}

Placed(j, saved) ==
    /\ j.pc \in Rested => j.did \subseteq saved
    /\ j.pc = "done" /\ j.status # 0 /\ ~j.unsaved => j.did \subseteq saved
    /\ j.op \in ObjectOps /\ j.pc # "done" => HasChunks(j)
    /\ j.pc \in {"put", "send", "wait"} => j.op \in ObjectOps /\ HasGroups(j)
    /\ j.pc \in {"send", "wait"} => j.peers \in Seq(Nodes) /\ j.peers # <<>>
    /\ j.pc = "put" => j.op \notin Reads
    /\ j.pc \in {"fan", "fanned"} => j.op \in ScopeOps

JobOk(j, saved) == Carries(j, saved) /\ Placed(j, saved)

\* What a step of the handler leaves alone.
Same(j, old) == j.op = old.op /\ j.at = old.at /\ j.started = old.started

JobsOk ==
    \A k \in DOMAIN jobs :
        /\ k[1] \in Requests
        /\ jobs[k].op = Req(k[1]).op
        /\ JobOk(jobs[k], Saved(jobs[k].at))

KeysOk ==
    /\ \A r \in Requests : RootKey(r) \in DOMAIN jobs
    /\ \A k \in DOMAIN jobs : k = RootKey(k[1]) \/ k[2] \in Nodes

\* A request that has not started has neither calls nor effects.
NotStarted(r) ==
    /\ jobs[RootKey(r)].pc \in {"new", "done"}
    /\ \A k \in DOMAIN jobs : k[1] = r => k = RootKey(r)
    /\ \A n \in Nodes : \A o \in Mem(n).ops : o[1] # r

StartsKnown == \A r \in Requests : jobs[RootKey(r)].started \/ NotStarted(r)

Inv ==
    /\ scenario \in Scenarios
    /\ LogsOk
    /\ JobsOk
    /\ KeysOk
    /\ StartsKnown

----------------------------------------------------------------------------
\* Lemmas about logs.

LEMMA LogEnds ==
    ASSUME NEW l, IsLog(l)
    PROVE  /\ Head(l) = l[1] /\ Last(l) = l[Len(l)]
           /\ Len(l) \in Nat /\ DOMAIN l = 1..Len(l)
           /\ DOMAIN Last(l) = StateFields
           /\ Head(l).ops \subseteq Last(l).ops
BY DEF IsLog, Last

LEMMA AppendLog ==
    ASSUME NEW l, IsLog(l), NEW s, DOMAIN s = StateFields, Last(l).ops \subseteq s.ops
    PROVE  /\ IsLog(Append(l, s))
           /\ Head(Append(l, s)) = Head(l) /\ Last(Append(l, s)) = s
<1>1. PICK S : l \in Seq(S)  BY DEF IsLog
<1> DEFINE T == S \cup {s}
           m == Append(l, s)
           n == Len(l)
<1>2. l \in Seq(T)  BY <1>1
<1>3. n \in Nat /\ n >= 1  BY <1>1 DEF IsLog
<1>4. /\ m \in Seq(T) /\ Len(m) = n + 1 /\ m[n + 1] = s
      /\ \A i \in 1..n : m[i] = l[i]
    BY <1>2
<1>5. \A i \in 1..(n + 1) : DOMAIN m[i] = StateFields  BY <1>3, <1>4 DEF IsLog
<1>6. ASSUME NEW i \in 1..(n + 1), NEW h \in 1..(n + 1), i <= h
      PROVE  m[i].ops \subseteq m[h].ops
    <2>1. CASE h \in 1..n
        <3>1. i \in 1..n  BY <1>3, <1>6, <2>1
        <3> QED  BY <1>4, <1>6, <2>1, <3>1 DEF IsLog
    <2>2. CASE h = n + 1 /\ i \in 1..n
        <3>1. l[i].ops \subseteq l[n].ops  BY <1>3, <2>2 DEF IsLog
        <3>2. l[n].ops \subseteq s.ops  BY LogEnds
        <3> QED  BY <1>4, <2>2, <3>1, <3>2
    <2>3. CASE h = n + 1 /\ i = n + 1  BY <2>3
    <2> QED  BY <1>3, <2>1, <2>2, <2>3
<1>7. Head(m) = Head(l)  BY <1>2, <1>3, <1>4
<1> HIDE DEF m, n, T
<1>8. IsLog(m)
    <2>1. Len(m) >= 1  BY <1>3, <1>4
    <2> QED  BY <1>4, <1>5, <1>6, <2>1 DEF IsLog
<1>9. Last(m) = s  BY <1>4 DEF Last
<1> QED  BY <1>7, <1>8, <1>9 DEF m

\* A save keeps the log from some entry on.
LEMMA SaveLog ==
    ASSUME NEW l, IsLog(l), NEW i \in DOMAIN l
    PROVE  /\ IsLog(SubSeq(l, i, Len(l)))
           /\ Head(SubSeq(l, i, Len(l))) = l[i]
           /\ Last(SubSeq(l, i, Len(l))) = Last(l)
           /\ Head(l).ops \subseteq l[i].ops
<1>1. PICK S : l \in Seq(S)  BY DEF IsLog
<1> DEFINE m == SubSeq(l, i, Len(l))
           n == Len(l)
           k == n - i + 1
<1>2. n \in Nat /\ n >= 1 /\ i \in 1..n  BY <1>1 DEF IsLog
<1>3. m \in Seq(S) /\ Len(m) = k /\ \A h \in 1..k : m[h] = l[i + h - 1]
    BY <1>1, <1>2
<1>4. k \in Nat /\ k >= 1 /\ \A h \in 1..k : i + h - 1 \in 1..n  BY <1>2
<1>5. \A h \in 1..k : DOMAIN m[h] = StateFields  BY <1>3, <1>4 DEF IsLog
<1>6. ASSUME NEW g \in 1..k, NEW h \in 1..k, g <= h
      PROVE  m[g].ops \subseteq m[h].ops
    <2>1. i + g - 1 \in 1..n /\ i + h - 1 \in 1..n /\ i + g - 1 <= i + h - 1
        BY <1>2, <1>4, <1>6
    <2>2. l[i + g - 1].ops \subseteq l[i + h - 1].ops  BY <2>1 DEF IsLog
    <2> QED  BY <1>3, <2>2
<1>7. Head(m) = l[i]
    <2>1. m[1] = l[i + 1 - 1]  BY <1>3, <1>4
    <2>2. m # <<>>  BY <1>3, <1>4
    <2> QED  BY <1>2, <1>3, <2>1, <2>2
<1>8. Last(m) = Last(l)
    <2>0. k \in 1..k  BY <1>4
    <2>1. m[k] = l[i + k - 1]
        <3> HIDE DEF k, m
        <3> QED  BY <1>3, <2>0
    <2>2. i + k - 1 = n  BY <1>2
    <2>3. m[Len(m)] = l[Len(l)]  BY <1>3, <2>1, <2>2
    <2> HIDE DEF m
    <2> QED  BY <2>3 DEF Last
<1>9. Head(l).ops \subseteq l[i].ops
    <2>1. l[1].ops \subseteq l[i].ops  BY <1>2 DEF IsLog
    <2> QED  BY <2>1, LogEnds
<1> HIDE DEF m, k
<1>10. IsLog(m)  BY <1>3, <1>4, <1>5, <1>6 DEF IsLog
<1> QED  BY <1>7, <1>8, <1>9, <1>10 DEF m

\* A node that has just started, or stopped, has nothing unsaved.
LEMMA SavedLog ==
    ASSUME NEW e, DOMAIN e = StateFields
    PROVE  IsLog(<<e>>) /\ Head(<<e>>) = e /\ Last(<<e>>) = e
<1> DEFINE m == <<e>>
<1>1. m \in Seq({e}) /\ Len(m) = 1 /\ m[1] = e /\ Head(m) = e  OBVIOUS
<1>2. Last(m) = e  BY <1>1 DEF Last
<1> HIDE DEF m
<1>3. \A i \in 1..1 : i = 1  OBVIOUS
<1>4. IsLog(m)  BY <1>1, <1>3 DEF IsLog
<1> QED  BY <1>1, <1>2, <1>4 DEF m

LEMMA ResetLog ==
    ASSUME NEW l, IsLog(l)
    PROVE  /\ IsLog(<<Head(l)>>)
           /\ Head(<<Head(l)>>) = Head(l) /\ Last(<<Head(l)>>) = Head(l)
<1>1. DOMAIN Head(l) = StateFields  BY LogEnds DEF IsLog
<1> QED  BY <1>1, SavedLog

----------------------------------------------------------------------------
\* Lemmas about requests.

LEMMA OpsApart == ObjectOps \cap ScopeOps = {} /\ Reads \subseteq ObjectOps
BY DEF ObjectOps, ScopeOps, Reads

LEMMA OneGroup ==
    ASSUME NEW g \in Group
    PROVE  <<g>> \in Chunk /\ Head(<<g>>) = g /\ Tail(<<g>>) = <<>>
<1> DEFINE c == <<g>>
<1>1. /\ c \in Seq(Group) /\ c # <<>> /\ DOMAIN c = {1}
      /\ Head(c) = g /\ Tail(c) = <<>>
    OBVIOUS
<1> HIDE DEF c
<1>2. \A i, h \in DOMAIN c : i = h  BY <1>1
<1>3. c \in Chunk  BY <1>1, <1>2 DEF Chunk
<1> QED  BY <1>1, <1>3 DEF c

LEMMA OneObjectFacts ==
    ASSUME NEW id \in Ids
    PROVE  LET c == << <<{id}>> >>
           IN  /\ c \in Seq(Chunk) /\ c # <<>> /\ Object(c) = id
               /\ Head(c) = <<{id}>> /\ {id} \in Group /\ ShardOfGroup({id}) = ShardOf[id]
<1>1. {id} \in Group  BY DEF Group
<1>2. (CHOOSE i \in {id} : TRUE) = id  OBVIOUS
<1> DEFINE g == {id}
           d == <<g>>
           c == <<d>>
<1>3. d \in Chunk /\ Head(d) = g  BY <1>1, OneGroup
<1> HIDE DEF d
<1>4. c \in Seq(Chunk) /\ c # <<>> /\ Head(c) = d  BY <1>3
<1> HIDE DEF c
<1>5. Object(c) = (CHOOSE i \in g : TRUE)  BY <1>3, <1>4 DEF Object
<1> QED  BY <1>1, <1>2, <1>4, <1>5 DEF c, d, g, ShardOfGroup

LEMMA RequestFacts ==
    ASSUME scenario \in Scenarios, NEW r \in Requests
    PROVE  /\ Req(r).op \in ObjectOps \cup ScopeOps
           /\ Req(r).form \in Forms /\ Req(r).at \in Nodes
           /\ Req(r).op \in ObjectOps => Req(r).chunks \in Seq(Chunk) /\ Req(r).chunks # <<>>
           /\ Req(r).op \in ObjectOps /\ Req(r).form \in {"single", "file"}
              => Req(r).chunks \in OneObject
           /\ Req(r).form = "file" => Req(r).op \in {"create", "replace"}
           /\ Req(r).op \in Reads => Req(r).form = "single"
<1> DEFINE q == Req(r)
<1>1. scenario.requests \in Seq(ObjectRequest \cup ScopeRequest)  BY RequestsAssumption
<1>2. q \in ObjectRequest \cup ScopeRequest  BY <1>1 DEF Requests, Req
<1>3. \A c \in OneObject : c \in Seq(Chunk) /\ c # <<>>  BY OneObjectFacts DEF OneObject
<1> HIDE DEF q
<1>4. CASE q \in ScopeRequest
    <2>1. q.op \in ScopeOps /\ q.form = "single" /\ q.at \in Nodes
        BY <1>4 DEF ScopeRequest
    <2> QED  BY <2>1, OpsApart DEF q, Forms
<1>5. CASE q \in [op : ObjectOps, form : {"single"}, at : Nodes, chunks : OneObject]
    <2>1. q.op \in ObjectOps /\ q.form = "single" /\ q.at \in Nodes /\ q.chunks \in OneObject
        BY <1>5
    <2> QED  BY <1>3, <2>1 DEF q, Forms
<1>6. CASE q \in [op : {"create", "replace"}, form : {"file"}, at : Nodes, chunks : OneObject]
    <2>1. /\ q.op \in {"create", "replace"} /\ q.form = "file" /\ q.at \in Nodes
          /\ q.chunks \in OneObject
        BY <1>6
    <2> QED  BY <1>3, <2>1 DEF q, Forms, ObjectOps, Reads
<1>7. CASE q \in [op : ObjectOps \ Reads, form : {"bulk", "stream"}, at : Nodes,
                  chunks : Seq(Chunk) \ {<<>>}]
    <2>1. /\ q.op \in ObjectOps /\ q.form \in {"bulk", "stream"} /\ q.at \in Nodes
          /\ q.op \notin Reads /\ q.chunks \in Seq(Chunk) /\ q.chunks # <<>>
        BY <1>7
    <2> QED  BY <2>1 DEF q, Forms
<1> QED  BY <1>2, <1>4, <1>5, <1>6, <1>7 DEF ObjectRequest

----------------------------------------------------------------------------
\* Lemmas about the steps of one job: where each leaves it.

LEMMA JobGrows ==
    ASSUME NEW j, NEW S, NEW T, S \subseteq T, JobOk(j, S)
    PROVE  JobOk(j, T)
BY DEF JobOk, Carries, Placed

LEMMA AnsweredOk ==
    ASSUME NEW S, NEW j, Carries(j, S), j.did \subseteq S, NEW status
    PROVE  JobOk(Answered(j, status), S) /\ Same(Answered(j, status), j)
<1> DEFINE a == Answered(j, status)
<1>1. /\ DOMAIN a = JobFields /\ a.pc = "done" /\ a.op = j.op /\ a.at = j.at
      /\ a.did = j.did /\ a.wrote = j.wrote /\ a.started = j.started
    BY DEF Answered, Carries, JobFields
<1> HIDE DEF a
<1>2. Carries(a, S)  BY <1>1 DEF Carries
<1>3. Placed(a, S)  BY <1>1 DEF Placed, Rested
<1> QED  BY <1>1, <1>2, <1>3 DEF a, JobOk, Same

LEMMA UnsavedOk ==
    ASSUME NEW S, NEW j, Carries(j, S), NEW status
    PROVE  LET a == [Answered(j, status) EXCEPT !.unsaved = TRUE]
           IN  JobOk(a, S) /\ Same(a, j)
<1> DEFINE a == [Answered(j, status) EXCEPT !.unsaved = TRUE]
<1>1. /\ DOMAIN a = JobFields /\ a.pc = "done" /\ a.op = j.op /\ a.at = j.at
      /\ a.did = j.did /\ a.wrote = j.wrote /\ a.started = j.started /\ a.unsaved = TRUE
    BY DEF Answered, Carries, JobFields
<1> HIDE DEF a
<1>2. Carries(a, S)  BY <1>1 DEF Carries
<1>3. Placed(a, S)  BY <1>1 DEF Placed, Rested
<1> QED  BY <1>1, <1>2, <1>3 DEF a, JobOk, Same

\* A job that waits in the middle of its handler, not to be saved.
LEMMA MovedOk ==
    ASSUME NEW S, NEW j, Carries(j, S), NEW pc \in {"save", "send", "wait"},
           NEW a, DOMAIN a = JobFields, a.pc = pc, Same(a, j),
           a.did = j.did, a.wrote = j.wrote,
           j.op \in ObjectOps => HasChunks(a),
           pc # "save" => /\ j.op \in ObjectOps /\ HasGroups(a)
                          /\ a.peers \in Seq(Nodes) /\ a.peers # <<>>
    PROVE  JobOk(a, S)
<1>1. Carries(a, S)  BY DEF Carries, Same
<1>2. Placed(a, S)  BY DEF Placed, Rested, Same
<1> QED  BY <1>1, <1>2 DEF JobOk

LEMMA FailedOk ==
    ASSUME NEW S, NEW j, Carries(j, S), j.op \in ObjectOps => HasChunks(j), NEW status
    PROVE  JobOk(Failed(j, status), S) /\ Same(Failed(j, status), j)
<1>1. CASE j.wrote = {}
    <2>1. j.did \subseteq S  BY <1>1 DEF Carries
    <2> QED  BY <1>1, <2>1, AnsweredOk DEF Failed
<1>2. CASE j.wrote # {}
    <2> DEFINE a == [j EXCEPT !.pc = "save", !.fail = status]
    <2>1. /\ DOMAIN a = JobFields /\ a.pc = "save" /\ a.op = j.op /\ a.at = j.at
          /\ a.did = j.did /\ a.wrote = j.wrote /\ a.started = j.started
          /\ a.chunks = j.chunks
        BY DEF Carries, JobFields
    <2>2. Failed(j, status) = a  BY <1>2 DEF Failed
    <2> HIDE DEF a
    <2>3. JobOk(a, S) /\ Same(a, j)  BY <2>1, MovedOk DEF Same, HasChunks
    <2> QED  BY <2>2, <2>3
<1> QED  BY <1>1, <1>2

LEMMA CompletedOk ==
    ASSUME NEW S, NEW j, Carries(j, S), j.did \subseteq S, HasChunks(j)
    PROVE  JobOk(Completed(j), S) /\ Same(Completed(j), j)
<1> DEFINE next == [j EXCEPT !.count = @ + j.part, !.part = 0, !.olds = {}, !.rows = <<>>,
                             !.wrote = {}, !.chunks = Tail(@)]
           a == [next EXCEPT !.pc = "body"]
<1>1. /\ DOMAIN next = JobFields /\ next.op = j.op /\ next.at = j.at
      /\ next.did = j.did /\ next.wrote = {} /\ next.started = j.started
      /\ next.chunks = Tail(j.chunks)
    BY DEF Carries, JobFields
<1>2. Completed(j) = IF next.chunks = <<>> THEN Answered(next, 200) ELSE a
    BY DEF Completed
<1> HIDE DEF next
<1>3. Tail(j.chunks) \in Seq(Chunk)  BY DEF HasChunks
<1>4. Carries(next, S) /\ next.did \subseteq S  BY <1>1 DEF Carries
<1>5. JobOk(Answered(next, 200), S) /\ Same(Answered(next, 200), next)
    BY <1>4, AnsweredOk
<1>6. ASSUME next.chunks # <<>> PROVE JobOk(a, S) /\ Same(a, next)
    <2>1. /\ DOMAIN a = JobFields /\ a.pc = "body" /\ a.op = j.op /\ a.at = j.at
          /\ a.did = j.did /\ a.wrote = {} /\ a.started = j.started
          /\ a.chunks = next.chunks
        BY <1>1 DEF JobFields
    <2> HIDE DEF a
    <2>2. Carries(a, S)  BY <2>1 DEF Carries
    <2>3. Placed(a, S)  BY <1>1, <1>3, <1>6, <2>1 DEF Placed, Rested, HasChunks
    <2> QED  BY <1>1, <2>1, <2>2, <2>3 DEF JobOk, Same
<1> QED  BY <1>1, <1>2, <1>5, <1>6 DEF Same

LEMMA AfterGroupsOk ==
    ASSUME NEW S, NEW j, Carries(j, S), HasChunks(j)
    PROVE  JobOk(AfterGroups(j), S) /\ Same(AfterGroups(j), j)
<1>1. CASE j.wrote = {}
    <2>1. j.did \subseteq S  BY <1>1 DEF Carries
    <2> QED  BY <1>1, <2>1, CompletedOk DEF AfterGroups
<1>2. CASE j.wrote # {}
    <2> DEFINE a == [j EXCEPT !.pc = "save"]
    <2>1. /\ DOMAIN a = JobFields /\ a.pc = "save" /\ a.op = j.op /\ a.at = j.at
          /\ a.did = j.did /\ a.wrote = j.wrote /\ a.started = j.started
          /\ a.chunks = j.chunks
        BY DEF Carries, JobFields
    <2>2. AfterGroups(j) = a  BY <1>2 DEF AfterGroups
    <2> HIDE DEF a
    <2>3. JobOk(a, S) /\ Same(a, j)  BY <2>1, MovedOk DEF Same, HasChunks
    <2> QED  BY <2>2, <2>3
<1> QED  BY <1>1, <1>2

\* The owners of a group are nodes.
LEMMA GroupOwners ==
    ASSUME NEW g \in Group
    PROVE  /\ Owners[ShardOfGroup(g)] \in Seq(Nodes)
           /\ Owners[ShardOfGroup(g)] # <<>>
<1>1. g \in SUBSET Ids /\ g # {}  BY DEF Group
<1>2. (CHOOSE id \in g : TRUE) \in Ids  BY <1>1
<1> HIDE DEF Group
<1>3. ShardOfGroup(g) \in DOMAIN Owners
    BY <1>2, RequestsAssumption DEF ShardOfGroup
<1> QED  BY <1>3, RequestsAssumption

LEMMA ToOwnersOk ==
    ASSUME NEW S, NEW j, Carries(j, S), j.op \in ObjectOps, HasChunks(j), HasGroups(j)
    PROVE  JobOk(ToOwners(j), S) /\ Same(ToOwners(j), j)
<1> DEFINE a == ToOwners(j)
<1>1. /\ DOMAIN a = JobFields /\ a.pc = "send" /\ a.op = j.op /\ a.at = j.at
      /\ a.did = j.did /\ a.wrote = j.wrote /\ a.started = j.started
      /\ a.chunks = j.chunks /\ a.groups = j.groups
      /\ a.peers = Owners[ShardOfGroup(Head(j.groups))]
    BY DEF ToOwners, Carries, JobFields
<1> HIDE DEF a
<1>2. Head(j.groups) \in Group  BY DEF HasGroups
<1>3. a.peers \in Seq(Nodes) /\ a.peers # <<>>  BY <1>1, <1>2, GroupOwners
<1>4. Same(a, j)  BY <1>1 DEF Same
<1>5. HasChunks(a) /\ HasGroups(a)  BY <1>1 DEF HasChunks, HasGroups
<1>6. JobOk(a, S)  BY <1>1, <1>3, <1>4, <1>5, MovedOk
<1> QED  BY <1>4, <1>6 DEF a

LEMMA TailMore ==
    ASSUME NEW T, NEW s \in Seq(T), Len(s) > 1
    PROVE  Tail(s) \in Seq(T) /\ Tail(s) # <<>>
<1>1. Len(<<>>) = 0  OBVIOUS
<1>2. s # <<>>  BY <1>1
<1>3. Tail(s) \in Seq(T) /\ Len(Tail(s)) = Len(s) - 1  BY <1>2, HeadTailProperties
<1>4. Len(s) \in Nat  BY LenProperties
<1>5. \A n \in Nat : n > 1 => n - 1 # 0  OBVIOUS
<1> QED  BY <1>1, <1>3, <1>4, <1>5

LEMMA NextOwnerOk ==
    ASSUME NEW S, NEW j, JobOk(j, S), j.pc \in {"send", "wait"}, NEW j2,
           Carries(j2, S), Same(j2, j), j2.chunks = j.chunks, j2.groups = j.groups,
           j2.peers = j.peers, j2.did = j.did, j2.wrote = j.wrote, NEW status
    PROVE  JobOk(NextOwner(j2, status), S) /\ Same(NextOwner(j2, status), j)
<1>1. /\ j2.op \in ObjectOps /\ HasChunks(j2) /\ HasGroups(j2)
      /\ j2.peers \in Seq(Nodes) /\ j2.peers # <<>>
    BY DEF JobOk, Placed, Same, HasChunks, HasGroups
<1>2. CASE Len(j2.peers) > 1
    <2> DEFINE a == [j2 EXCEPT !.pc = "send", !.peers = Tail(@), !.child = <<>>]
    <2>1. /\ DOMAIN a = JobFields /\ a.pc = "send" /\ a.op = j2.op /\ a.at = j2.at
          /\ a.did = j2.did /\ a.wrote = j2.wrote /\ a.started = j2.started
          /\ a.chunks = j2.chunks /\ a.groups = j2.groups /\ a.peers = Tail(j2.peers)
        BY DEF Carries, JobFields
    <2>2. NextOwner(j2, status) = a  BY <1>2 DEF NextOwner
    <2> HIDE DEF a
    <2>3. a.peers \in Seq(Nodes) /\ a.peers # <<>>  BY <1>1, <1>2, <2>1, TailMore
    <2>4. Same(a, j2)  BY <2>1 DEF Same
    <2>5. HasChunks(a) /\ HasGroups(a)  BY <1>1, <2>1 DEF HasChunks, HasGroups
    <2>6. JobOk(a, S)  BY <1>1, <2>1, <2>3, <2>4, <2>5, MovedOk
    <2> QED  BY <2>2, <2>4, <2>6 DEF Same
<1>3. CASE ~(Len(j2.peers) > 1)
    <2> DEFINE a == [j2 EXCEPT !.child = <<>>]
    <2>1. /\ DOMAIN a = JobFields /\ a.op = j2.op /\ a.at = j2.at
          /\ a.did = j2.did /\ a.wrote = j2.wrote /\ a.started = j2.started
          /\ a.chunks = j2.chunks
        BY DEF Carries, JobFields
    <2>2. NextOwner(j2, status) = Failed(a, status)  BY <1>3 DEF NextOwner
    <2> HIDE DEF a
    <2>3. Carries(a, S) /\ HasChunks(a)  BY <1>1, <2>1 DEF Carries, HasChunks
    <2>4. JobOk(Failed(a, status), S) /\ Same(Failed(a, status), a)
        BY <2>3, FailedOk
    <2> QED  BY <2>1, <2>2, <2>4 DEF Same
<1> QED  BY <1>2, <1>3

LEMMA FoundOk ==
    ASSUME NEW S, NEW k, NEW j, Carries(j, S), j.op \in Reads, HasChunks(j)
    PROVE  JobOk(Found(k, j), S) /\ Same(Found(k, j), j)
<1>1. j.did \subseteq S  BY DEF Carries
<1>2. \A status : JobOk(Answered(j, status), S) /\ Same(Answered(j, status), j)
    BY <1>1, AnsweredOk
<1>3. CASE Found(k, j) = [j EXCEPT !.pc = "read"]
    <2> DEFINE a == [j EXCEPT !.pc = "read"]
    <2>1. /\ DOMAIN a = JobFields /\ a.pc = "read" /\ a.op = j.op /\ a.at = j.at
          /\ a.did = j.did /\ a.wrote = j.wrote /\ a.started = j.started
          /\ a.chunks = j.chunks
        BY DEF Carries, JobFields
    <2> HIDE DEF a
    <2>2. Carries(a, S)  BY <2>1 DEF Carries
    <2>3. Placed(a, S)  BY <1>1, <2>1 DEF Placed, Rested, HasChunks
    <2> QED  BY <1>3, <2>1, <2>2, <2>3 DEF a, JobOk, Same
<1> QED  BY <1>2, <1>3 DEF Found

LEMMA AfterSaveOk ==
    ASSUME NEW S, NEW k, NEW j, Carries(j, S), j.did \subseteq S,
           j.op \in ObjectOps => HasChunks(j)
    PROVE  JobOk(AfterSave(k, j), S) /\ Same(AfterSave(k, j), j)
<1>1. \A status : JobOk(Answered(j, status), S) /\ Same(Answered(j, status), j)
    BY AnsweredOk
<1>2. ASSUME j.op \in ObjectOps
      PROVE  JobOk(Completed(j), S) /\ Same(Completed(j), j)
    BY <1>2, CompletedOk
<1>3. ASSUME NEW a, DOMAIN a = JobFields, Same(a, j),
             a.did = j.did, a.wrote = j.wrote, a.chunks = j.chunks,
             \/ a.pc = "unlink"
             \/ a.pc = "fan" /\ j.op \in ScopeOps
      PROVE  JobOk(a, S)
    <2>1. Carries(a, S)  BY <1>3 DEF Carries, Same
    <2>2. Placed(a, S)  BY <1>3 DEF Placed, Rested, Same, HasChunks
    <2> QED  BY <2>1, <2>2 DEF JobOk
<1>4. ASSUME NEW pc \in {"unlink", "fan"}, pc = "unlink" \/ j.op \in ScopeOps
      PROVE  LET a == [j EXCEPT !.pc = pc] IN JobOk(a, S) /\ Same(a, j)
    <2> DEFINE a == [j EXCEPT !.pc = pc]
    <2>1. /\ DOMAIN a = JobFields /\ a.pc = pc /\ Same(a, j)
          /\ a.did = j.did /\ a.wrote = j.wrote /\ a.chunks = j.chunks
        BY DEF Carries, JobFields, Same
    <2> HIDE DEF a
    <2>2. JobOk(a, S)  BY <1>3, <1>4, <2>1
    <2> QED  BY <2>1, <2>2 DEF a
<1>5. ASSUME NEW olds
      PROVE  LET a == [j EXCEPT !.pc = "unlink", !.olds = olds]
             IN  JobOk(a, S) /\ Same(a, j)
    <2> DEFINE a == [j EXCEPT !.pc = "unlink", !.olds = olds]
    <2>1. /\ DOMAIN a = JobFields /\ a.pc = "unlink" /\ Same(a, j)
          /\ a.did = j.did /\ a.wrote = j.wrote /\ a.chunks = j.chunks
        BY DEF Carries, JobFields, Same
    <2> HIDE DEF a
    <2>2. JobOk(a, S)  BY <1>3, <2>1
    <2> QED  BY <2>1, <2>2 DEF a
<1>6. CASE j.fail # 0  BY <1>1, <1>6 DEF AfterSave
<1>7. CASE j.fail = 0 /\ j.op \in ScopeOps
    <2>1. AfterSave(k, j) = [j EXCEPT !.pc = IF j.existed THEN "unlink" ELSE "fan"]
        BY <1>7 DEF AfterSave
    <2>2. CASE j.existed
        <3>1. AfterSave(k, j) = [j EXCEPT !.pc = "unlink"]  BY <2>1, <2>2
        <3> QED  BY <1>4, <3>1
    <2>3. CASE ~j.existed
        <3>1. AfterSave(k, j) = [j EXCEPT !.pc = "fan"]  BY <2>1, <2>3
        <3> QED  BY <1>4, <1>7, <3>1
    <2> QED  BY <2>2, <2>3
<1>8. CASE j.fail = 0 /\ j.op \notin ScopeOps
    <2>1. j.op \in ObjectOps  BY <1>8 DEF Carries
    <2>2. \/ AfterSave(k, j) = Completed(j)
          \/ \E olds : AfterSave(k, j) = [j EXCEPT !.pc = "unlink", !.olds = olds]
        BY <1>8 DEF AfterSave
    <2> QED  BY <1>2, <1>5, <2>1, <2>2
<1> QED  BY <1>6, <1>7, <1>8

LEMMA AfterLocalWriteOk ==
    ASSUME NEW S, NEW r, NEW j, Carries(j, S), j.op \notin Reads, NEW s
    PROVE  LET w == AfterLocalWrite(r, j, s)
           IN  /\ Carries(w, S) /\ Same(w, j)
               /\ w.chunks = j.chunks /\ w.groups = Tail(j.groups)
<1> DEFINE w == AfterLocalWrite(r, j, s)
           t == {<<r, id>> : id \in Targets(j, s)}
<1>1. /\ DOMAIN w = JobFields /\ w.op = j.op /\ w.at = j.at /\ w.started = j.started
      /\ w.did = j.did \cup t /\ w.wrote = j.wrote \cup t
      /\ w.chunks = j.chunks /\ w.groups = Tail(j.groups)
    BY DEF AfterLocalWrite, Carries, JobFields
<1> HIDE DEF w, t
<1>2. Carries(w, S)  BY <1>1 DEF Carries
<1> QED  BY <1>1, <1>2 DEF w, Same

LEMMA NewJobOk ==
    ASSUME NEW S, scenario \in Scenarios, NEW r \in Requests, NEW n \in Nodes, NEW chunks,
           Req(r).op \in ObjectOps => chunks \in Seq(Chunk) /\ chunks # <<>>
    PROVE  LET j == NewJob(r, n, chunks)
           IN  /\ JobOk(j, S) /\ j.op = Req(r).op
               /\ j.pc = "new" /\ j.started = FALSE
<1> DEFINE j == NewJob(r, n, chunks)
<1>1. /\ DOMAIN j = JobFields /\ j.op = Req(r).op /\ j.at = n /\ j.did = {} /\ j.wrote = {}
      /\ j.pc = "new" /\ j.started = FALSE /\ j.chunks = chunks
    BY DEF NewJob, JobFields
<1>2. Req(r).op \in ObjectOps \cup ScopeOps  BY RequestFacts
<1> HIDE DEF j
<1>3. Carries(j, S)  BY <1>1, <1>2 DEF Carries
<1>4. Placed(j, S)  BY <1>1 DEF Placed, Rested, HasChunks
<1> QED  BY <1>1, <1>3, <1>4 DEF j, JobOk

----------------------------------------------------------------------------
\* Lemmas about the steps of the system.

LEMMA WritesOk ==
    ASSUME LogsOk, NEW n \in Nodes, NEW s, DOMAIN s = StateFields,
           Mem(n).ops \subseteq s.ops, Writes(n, s)
    PROVE  /\ LogsOk'
           /\ \A m \in Nodes : Saved(m)' = Saved(m)
           /\ \A m \in Nodes \ {n} : Mem(m)' = Mem(m)
           /\ Mem(n)' = s
<1>1. CASE s = Mem(n)
    <2>1. log' = log  BY <1>1 DEF Writes
    <2> QED  BY <1>1, <2>1 DEF LogsOk, Saved, Durable, Mem, IsLog
<1>2. CASE s # Mem(n)
    <2>1. log' = [log EXCEPT ![n] = Append(log[n], s)]  BY <1>2 DEF Writes
    <2>2. /\ DOMAIN log' = Nodes /\ log'[n] = Append(log[n], s)
          /\ \A m \in Nodes \ {n} : log'[m] = log[m]
        BY <2>1 DEF LogsOk
    <2>3. IsLog(log[n])  BY DEF LogsOk
    <2>4. /\ IsLog(Append(log[n], s)) /\ Head(Append(log[n], s)) = Head(log[n])
          /\ Last(Append(log[n], s)) = s
        BY <2>3, AppendLog DEF Mem
    <2>5. \A m \in Nodes : IsLog(log'[m])  BY <2>2, <2>4 DEF LogsOk
    <2>6. LogsOk'  BY <2>2, <2>5 DEF LogsOk, IsLog
    <2> QED  BY <2>2, <2>4, <2>6 DEF Saved, Durable, Mem
<1> QED  BY <1>1, <1>2

LEMMA SameLog ==
    ASSUME LogsOk, UNCHANGED log
    PROVE  /\ LogsOk'
           /\ \A m \in Nodes : Saved(m)' = Saved(m) /\ Mem(m)' = Mem(m)
BY DEF LogsOk, IsLog, Saved, Durable, Mem

LEMMA BecomesFacts ==
    ASSUME NEW k \in DOMAIN jobs, NEW j, Becomes(k, j)
    PROVE  /\ DOMAIN jobs' \subseteq DOMAIN jobs
           /\ \A q \in DOMAIN jobs : ~IsForwarded(q) => q \in DOMAIN jobs'
           /\ \A q \in DOMAIN jobs' : jobs'[q] = IF q = k THEN j ELSE jobs[q]
BY DEF Becomes, Settle

\* What a step with job k may do: the job becomes j, it calls the jobs of C, its node
\* saves and writes.
Moves(k, j, C) ==
    /\ DOMAIN jobs' \subseteq DOMAIN jobs \cup C
    /\ \A q \in DOMAIN jobs : ~IsForwarded(q) => q \in DOMAIN jobs'
    /\ \A q \in DOMAIN jobs' :
          \/ q \in DOMAIN jobs /\ q # k /\ jobs'[q] = jobs[q]
          \/ q = k /\ jobs'[q] = j
          \/ q \in C /\ jobs'[q].op = Req(k[1]).op /\ \A S : JobOk(jobs'[q], S)
    /\ \A c \in C : c[1] = k[1] /\ c[2] \in Nodes
    /\ \A n \in Nodes : Saved(n) \subseteq Saved(n)'
    /\ \A n \in Nodes : \A o \in Mem(n).ops' : o \in Mem(n).ops \/ o[1] = k[1]

\* How its request may start with the step.
Starts(k, j, C) ==
    /\ jobs[k].started => j.started
    /\ \/ jobs[k].pc \notin {"new", "done"}
       \/ j.started
       \/ C = {} /\ j.pc = "done" /\ log' = log

LEMMA RootKeys ==
    /\ \A r : RootKey(r)[1] = r /\ RootKey(r)[2] = 0 /\ ~IsForwarded(RootKey(r))
    /\ 0 \notin Nodes
BY RequestsAssumption DEF RootKey, IsForwarded

LEMMA StepOk ==
    ASSUME Inv, scenario' = scenario, LogsOk',
           NEW k \in DOMAIN jobs, NEW j, NEW C, Moves(k, j, C), Starts(k, j, C),
           j.op = jobs[k].op, j.at = jobs[k].at, JobOk(j, Head(log'[j.at]).ops)
    PROVE  Inv'
<1>1. Requests' = Requests /\ \A r : Req(r)' = Req(r)  BY DEF Requests, Req
<1>2. k[1] \in Requests /\ jobs[k].op = Req(k[1]).op  BY DEF Inv, JobsOk
<1>3. JobsOk'
    <2> SUFFICES ASSUME NEW q \in DOMAIN jobs'
                 PROVE  /\ q[1] \in Requests /\ jobs'[q].op = Req(q[1]).op
                        /\ JobOk(jobs'[q], Head(log'[jobs'[q].at]).ops)
        BY <1>1 DEF JobsOk, Saved, Durable
    <2>1. CASE q \in DOMAIN jobs /\ q # k /\ jobs'[q] = jobs[q]
        <3>1. /\ q[1] \in Requests /\ jobs[q].op = Req(q[1]).op
              /\ JobOk(jobs[q], Saved(jobs[q].at))
            BY <2>1 DEF Inv, JobsOk
        <3>2. jobs[q].at \in Nodes  BY <3>1 DEF JobOk, Carries
        <3>3. \A n \in Nodes : Head(log[n]).ops \subseteq Head(log'[n]).ops
            BY DEF Moves, Saved, Durable
        <3>4. JobOk(jobs[q], Head(log'[jobs[q].at]).ops)
            BY <3>1, <3>2, <3>3, JobGrows DEF Saved, Durable
        <3> QED  BY <2>1, <3>1, <3>4
    <2>2. CASE q = k /\ jobs'[q] = j  BY <1>2, <2>2
    <2>3. CASE q \in C /\ jobs'[q].op = Req(k[1]).op /\ \A S : JobOk(jobs'[q], S)
        BY <1>2, <2>3 DEF Moves
    <2> QED  BY <2>1, <2>2, <2>3 DEF Moves
<1>4. KeysOk'
    <2>1. \A r \in Requests : RootKey(r) \in DOMAIN jobs'
        BY RootKeys DEF Inv, KeysOk, Moves
    <2>2. \A q \in DOMAIN jobs' : q = RootKey(q[1]) \/ q[2] \in Nodes
        BY DEF Inv, KeysOk, Moves
    <2> QED  BY <1>1, <2>1, <2>2 DEF KeysOk, RootKey
<1>5. StartsKnown'
    <2> SUFFICES ASSUME NEW r \in Requests
                 PROVE  jobs'[RootKey(r)].started \/ NotStarted(r)'
        BY <1>1 DEF StartsKnown, RootKey
    <2>1. RootKey(r) \in DOMAIN jobs /\ RootKey(r) \in DOMAIN jobs'
        BY RootKeys DEF Inv, KeysOk, Moves
    <2>2. jobs[RootKey(r)].started \/ NotStarted(r)  BY DEF Inv, StartsKnown
    <2>3. RootKey(r) \notin C  BY RootKeys DEF Moves
    <2>4. jobs'[RootKey(r)] = IF RootKey(r) = k THEN j ELSE jobs[RootKey(r)]
        BY <2>1, <2>3 DEF Moves
    <2>5. CASE jobs[RootKey(r)].started
        BY <2>4, <2>5 DEF Starts
    <2>6. CASE NotStarted(r) /\ r # k[1]
        <3>1. RootKey(r) # k  BY <2>6, RootKeys
        <3>2. jobs'[RootKey(r)].pc \in {"new", "done"}  BY <2>4, <2>6, <3>1 DEF NotStarted
        <3>3. \A q \in DOMAIN jobs' : q[1] = r => q = RootKey(r)
            BY <2>6 DEF NotStarted, Moves
        <3>4. \A n \in Nodes : \A o \in Mem(n).ops' : o[1] # r
            BY <2>6 DEF NotStarted, Moves
        <3>5. \A n \in Nodes : \A o \in Last(log'[n]).ops : o[1] # r
            BY <3>4 DEF Mem
        <3> QED  BY <3>2, <3>3, <3>5 DEF NotStarted, RootKey, Mem
    <2>7. CASE NotStarted(r) /\ r = k[1]
        <3>1. k = RootKey(r) /\ jobs[k].pc \in {"new", "done"}  BY <2>7 DEF NotStarted
        <3>2. jobs'[RootKey(r)] = j  BY <2>4, <3>1
        <3>3. CASE j.started  BY <3>2, <3>3
        <3>4. CASE C = {} /\ j.pc = "done" /\ log' = log
            <4>1. jobs'[RootKey(r)].pc = "done"  BY <3>2, <3>4
            <4>2. \A q \in DOMAIN jobs' : q[1] = r => q = RootKey(r)
                BY <2>7, <3>4 DEF NotStarted, Moves
            <4>3. \A n \in Nodes : \A o \in Last(log'[n]).ops : o[1] # r
                BY <2>7, <3>4 DEF NotStarted, Mem
            <4> QED  BY <4>1, <4>2, <4>3 DEF NotStarted, RootKey, Mem
        <3> QED  BY <3>1, <3>3, <3>4 DEF Starts
    <2> QED  BY <2>2, <2>5, <2>6, <2>7
<1> QED  BY <1>3, <1>4, <1>5 DEF Inv


LEMMA JobFacts ==
    ASSUME Inv, NEW k \in DOMAIN jobs
    PROVE  /\ k[1] \in Requests /\ jobs[k].op = Req(k[1]).op /\ jobs[k].at \in Nodes
           /\ JobOk(jobs[k], Saved(jobs[k].at))
           /\ Carries(jobs[k], Saved(jobs[k].at)) /\ Placed(jobs[k], Saved(jobs[k].at))
BY DEF Inv, JobsOk, JobOk, Carries

\* A handler in the middle of its work takes a step of its own.
LEMMA BecomesOk ==
    ASSUME Inv, scenario' = scenario, LogsOk',
           NEW k \in DOMAIN jobs, jobs[k].pc \notin {"new", "done"}, NEW j, Becomes(k, j),
           j.op = jobs[k].op, j.at = jobs[k].at, jobs[k].started => j.started,
           JobOk(j, Head(log'[j.at]).ops),
           \A n \in Nodes : Saved(n) \subseteq Saved(n)',
           \A n \in Nodes : \A o \in Mem(n).ops' : o \in Mem(n).ops \/ o[1] = k[1]
    PROVE  Inv'
<1>1. Moves(k, j, {})  BY BecomesFacts DEF Moves
<1>2. Starts(k, j, {})  BY DEF Starts
<1> QED  BY <1>1, <1>2, StepOk

LEMMA QuietOk ==
    ASSUME Inv, scenario' = scenario, UNCHANGED log,
           NEW k \in DOMAIN jobs, jobs[k].pc \notin {"new", "done"}, NEW j, Becomes(k, j),
           j.op = jobs[k].op, j.at = jobs[k].at, jobs[k].started => j.started,
           JobOk(j, Saved(jobs[k].at))
    PROVE  Inv'
<1>1. LogsOk' /\ \A m \in Nodes : Saved(m)' = Saved(m) /\ Mem(m)' = Mem(m)
    BY SameLog DEF Inv
<1>2. JobOk(j, Head(log'[j.at]).ops)  BY DEF Saved, Durable
<1>3. \A n \in Nodes : Saved(n) \subseteq Saved(n)'  BY <1>1
<1>4. \A n \in Nodes : \A o \in Mem(n).ops' : o \in Mem(n).ops \/ o[1] = k[1]  BY <1>1
<1> QED  BY <1>1, <1>2, <1>3, <1>4, BecomesOk

LEMMA LocalWriteFields ==
    ASSUME NEW r, NEW j, NEW s, DOMAIN s = StateFields
    PROVE  /\ DOMAIN LocalWrite(r, j, s) = StateFields
           /\ s.ops \subseteq LocalWrite(r, j, s).ops
           /\ \A o \in LocalWrite(r, j, s).ops : o \in s.ops \/ o[1] = r
<1>1. CASE Targets(j, s) = {}
    <2>1. LocalWrite(r, j, s) = s  BY <1>1 DEF LocalWrite
    <2> QED  BY <2>1
<1>2. CASE Targets(j, s) # {}
    <2> DEFINE w == LocalWrite(r, j, s)
               t == {<<r, id>> : id \in Targets(j, s)}
    <2>1. DOMAIN w = StateFields /\ w.ops = s.ops \cup t
        BY <1>2 DEF LocalWrite, StateFields
    <2>2. \A o \in t : o[1] = r  OBVIOUS
    <2> HIDE DEF w, t
    <2>3. DOMAIN w = StateFields /\ s.ops \subseteq w.ops /\ \A o \in w.ops : o \in s.ops \/ o[1] = r
        BY <2>1, <2>2
    <2> QED  BY <2>3 DEF w
<1> QED  BY <1>1, <1>2

\* A handler takes a step and writes the state w of its node.
LEMMA WritingOk ==
    ASSUME Inv, scenario' = scenario,
           NEW k \in DOMAIN jobs, jobs[k].pc \notin {"new", "done"},
           NEW a, Becomes(k, a), JobOk(a, Saved(jobs[k].at)), Same(a, jobs[k]),
           NEW w, DOMAIN w = StateFields, Mem(jobs[k].at).ops \subseteq w.ops,
           \A o \in w.ops : o \in Mem(jobs[k].at).ops \/ o[1] = k[1],
           Writes(jobs[k].at, w)
    PROVE  Inv'
<1>1. PICK n \in Nodes : n = jobs[k].at  BY JobFacts
<1>2. /\ DOMAIN w = StateFields /\ Mem(n).ops \subseteq w.ops /\ Writes(n, w)
      /\ \A o \in w.ops : o \in Mem(n).ops \/ o[1] = k[1]
      /\ JobOk(a, Saved(n)) /\ a.at = n
    BY <1>1 DEF Same
<1>3. /\ LogsOk' /\ \A m \in Nodes : Saved(m)' = Saved(m)
      /\ \A m \in Nodes \ {n} : Mem(m)' = Mem(m)
      /\ Mem(n)' = w
    BY <1>1, <1>2, WritesOk DEF Inv
<1>4. \A m \in Nodes : Saved(m) \subseteq Saved(m)'  BY <1>3
<1>5. \A m \in Nodes : \A o \in Mem(m).ops' : o \in Mem(m).ops \/ o[1] = k[1]
    <2> SUFFICES ASSUME NEW m \in Nodes
                 PROVE  \A o \in Mem(m).ops' : o \in Mem(m).ops \/ o[1] = k[1]
        OBVIOUS
    <2>1. CASE m = n
        <3>1. Mem(m)' = w  BY <1>3, <2>1 DEF Mem
        <3> QED  BY <1>2, <2>1, <3>1
    <2>2. CASE m # n  BY <1>3, <2>2
    <2> QED  BY <2>1, <2>2
<1>6. JobOk(a, Head(log'[a.at]).ops)
    <2>1. \A m \in Nodes : Head(log'[m]).ops = Head(log[m]).ops
        BY <1>3 DEF Saved, Durable
    <2>2. Head(log'[n]).ops = Head(log[n]).ops  BY <1>1, <2>1
    <2> QED  BY <1>2, <2>2 DEF Saved, Durable
<1> QED  BY <1>3, <1>4, <1>5, <1>6, BecomesOk DEF Same

\* The loop over the groups.
LEMMA RunGroupsOk ==
    ASSUME Inv, scenario' = scenario,
           NEW k \in DOMAIN jobs, jobs[k].pc \notin {"new", "done"},
           NEW j, Carries(j, Saved(j.at)), Same(j, jobs[k]),
           j.op \in ObjectOps \ Reads, HasChunks(j), j.groups \in Seq(Group),
           RunGroups(k, j)
    PROVE  Inv'
<1> DEFINE r == k[1]
           n == j.at
           s == Mem(n)
           isLocal == j.groups # <<>> /\ n \in Range(Owners[ShardOfGroup(Head(j.groups))])
           error == IF isLocal THEN LocalError(j, s) ELSE 0
           written == AfterLocalWrite(r, j, s)
           next == IF written.groups = <<>> THEN AfterGroups(written) ELSE ToOwners(written)
           onward == IF j.groups = <<>> THEN AfterGroups(j) ELSE ToOwners(j)
<1>1. \/ Becomes(k, Failed(j, error)) /\ UNCHANGED log
      \/ isLocal /\ Becomes(k, next) /\ Writes(n, LocalWrite(r, j, s))
      \/ Becomes(k, onward) /\ UNCHANGED log
    BY DEF RunGroups
<1>2. n = jobs[k].at /\ n \in Nodes /\ j.op = jobs[k].op /\ (jobs[k].started => j.started)
    BY DEF Same, Carries
<1>3. ASSUME NEW e, JobOk(e, Saved(n)), Same(e, j), Becomes(k, e), UNCHANGED log
      PROVE  Inv'
    <2>1. e.op = jobs[k].op /\ e.at = jobs[k].at /\ (jobs[k].started => e.started)
        BY <1>2, <1>3 DEF Same
    <2> HIDE DEF n
    <2> QED  BY <1>2, <1>3, <2>1, QuietOk
<1>4. CASE Becomes(k, Failed(j, error)) /\ UNCHANGED log
    <2>1. JobOk(Failed(j, error), Saved(n)) /\ Same(Failed(j, error), j)  BY FailedOk
    <2> HIDE DEF n, error
    <2> QED  BY <1>3, <1>4, <2>1
<1>5. CASE Becomes(k, onward) /\ UNCHANGED log
    <2>1. ASSUME j.groups = <<>> PROVE JobOk(onward, Saved(n)) /\ Same(onward, j)
        BY <2>1, AfterGroupsOk
    <2>2. ASSUME j.groups # <<>> PROVE JobOk(onward, Saved(n)) /\ Same(onward, j)
        BY <2>2, ToOwnersOk DEF HasGroups
    <2> HIDE DEF n, onward
    <2> QED  BY <1>3, <1>5, <2>1, <2>2
<1>6. CASE isLocal /\ Becomes(k, next) /\ Writes(n, LocalWrite(r, j, s))
    <2>1. Carries(written, Saved(n)) /\ Same(written, j)
          /\ written.chunks = j.chunks /\ written.groups = Tail(j.groups)
        BY AfterLocalWriteOk
    <2>2. written.groups \in Seq(Group) /\ HasChunks(written)
          /\ written.op \in ObjectOps
        <3>1. j.groups # <<>>  BY <1>6
        <3>2. Tail(j.groups) \in Seq(Group)  BY <3>1
        <3> HIDE DEF written
        <3> QED  BY <2>1, <3>2 DEF HasChunks, Same
    <2>3. JobOk(next, Saved(n)) /\ Same(next, j)
        <3> HIDE DEF written, n
        <3>1. CASE written.groups = <<>>
            <4>1. JobOk(AfterGroups(written), Saved(n)) /\ Same(AfterGroups(written), written)
                BY <2>1, <2>2, AfterGroupsOk
            <4> QED  BY <2>1, <3>1, <4>1 DEF Same
        <3>2. CASE written.groups # <<>>
            <4>1. JobOk(ToOwners(written), Saved(n)) /\ Same(ToOwners(written), written)
                BY <2>1, <2>2, <3>2, ToOwnersOk DEF HasGroups
            <4> QED  BY <2>1, <3>2, <4>1 DEF Same
        <3> QED  BY <3>1, <3>2
    <2> DEFINE w == LocalWrite(r, j, s)
    <2>4. DOMAIN s = StateFields  BY <1>2, LogEnds DEF Inv, LogsOk, Mem
    <2>5. DOMAIN w = StateFields /\ s.ops \subseteq w.ops
          /\ \A o \in w.ops : o \in s.ops \/ o[1] = r
        BY <2>4, LocalWriteFields
    <2>6. Writes(n, w) /\ Becomes(k, next)  BY <1>6
    <2>7. Same(next, jobs[k])  BY <1>2, <2>3 DEF Same
    <2> HIDE DEF w, n, next
    <2> QED  BY <1>2, <2>3, <2>5, <2>6, <2>7, WritingOk
<1> QED  BY <1>1, <1>4, <1>5, <1>6


LEMMA CarriesOver ==
    ASSUME NEW S, NEW j, Carries(j, S), NEW a, DOMAIN a = JobFields,
           a.op = j.op, a.at = j.at, a.did = j.did, a.wrote = j.wrote
    PROVE  Carries(a, S)
BY DEF Carries

\* A job that goes to a place where it waits with everything saved.
LEMMA RestedOk ==
    ASSUME NEW S, NEW j, Carries(j, S), j.did \subseteq S, NEW a, DOMAIN a = JobFields,
           a.op = j.op, a.at = j.at, a.did = j.did, a.wrote = j.wrote,
           a.pc \in {"body", "put", "fan", "fanned"},
           j.op \in ObjectOps => HasChunks(a),
           a.pc = "put" => j.op \in ObjectOps \ Reads /\ HasGroups(a),
           a.pc \in {"fan", "fanned"} => j.op \in ScopeOps
    PROVE  JobOk(a, S)
<1>1. Carries(a, S)  BY CarriesOver
<1>2. Placed(a, S)  BY DEF Placed, Rested
<1> QED  BY <1>1, <1>2 DEF JobOk

LEMMA RestedFacts ==
    ASSUME Inv, NEW k \in DOMAIN jobs, jobs[k].pc \in Rested
    PROVE  /\ jobs[k].did \subseteq Saved(jobs[k].at)
           /\ jobs[k].op \in ObjectOps => HasChunks(jobs[k])
<1>1. Placed(jobs[k], Saved(jobs[k].at))  BY JobFacts
<1>2. jobs[k].pc # "done"  BY DEF Rested
<1> QED  BY <1>1, <1>2 DEF Placed

\* A handler that waits with everything saved may answer.
LEMMA AnswerOk ==
    ASSUME Inv, scenario' = scenario, UNCHANGED log,
           NEW k \in DOMAIN jobs, jobs[k].pc \in Rested, NEW status,
           Becomes(k, Answered(jobs[k], status)),
           jobs[k].pc # "new"
    PROVE  Inv'
<1> DEFINE j == jobs[k]
           a == Answered(j, status)
<1>1. j.pc \notin {"new", "done"}  BY DEF Rested
<1>2. Carries(j, Saved(j.at)) /\ j.did \subseteq Saved(j.at)  BY JobFacts, RestedFacts
<1>3. JobOk(a, Saved(j.at)) /\ Same(a, j)  BY <1>2, AnsweredOk
<1>4. Becomes(k, a)  OBVIOUS
<1> HIDE DEF a
<1> QED  BY <1>1, <1>3, <1>4, QuietOk DEF Same

LEMMA ReceiveOk == ASSUME Inv, NEW k, Receive(k) PROVE Inv'
<1> DEFINE j == jobs[k]
           a == [j EXCEPT !.pc = "body", !.started = TRUE, !.known = {id \in Ids : Acknowledged(id)}]
           b == Answered(j, 401)
<1>1. /\ k \in DOMAIN jobs /\ j.pc = "new" /\ scenario' = scenario /\ log' = log
      /\ Becomes(k, a) \/ Becomes(k, b)
    BY DEF Receive, At
<1>2. /\ Carries(j, Saved(j.at)) /\ j.did \subseteq Saved(j.at)
      /\ j.op \in ObjectOps => HasChunks(j)
    BY <1>1, JobFacts, RestedFacts DEF Rested
<1>3. LogsOk' /\ \A m \in Nodes : Saved(m)' = Saved(m) /\ Mem(m)' = Mem(m)
    BY <1>1, SameLog DEF Inv
<1>4. /\ \A n \in Nodes : Saved(n) \subseteq Saved(n)'
      /\ \A n \in Nodes : \A o \in Mem(n).ops' : o \in Mem(n).ops \/ o[1] = k[1]
    BY <1>3
<1>5. CASE Becomes(k, a)
    <2>1. /\ DOMAIN a = JobFields /\ a.pc = "body" /\ a.op = j.op /\ a.at = j.at
          /\ a.did = j.did /\ a.wrote = j.wrote /\ a.started /\ a.chunks = j.chunks
        BY <1>2 DEF Carries, JobFields
    <2> HIDE DEF a
    <2>2. JobOk(a, Saved(j.at))  BY <1>2, <2>1, RestedOk DEF HasChunks
    <2>3. JobOk(a, Head(log'[a.at]).ops)  BY <1>1, <2>1, <2>2 DEF Saved, Durable
    <2>4. Moves(k, a, {})  BY <1>1, <1>4, <1>5, BecomesFacts DEF Moves
    <2>5. Starts(k, a, {})  BY <2>1 DEF Starts
    <2> QED  BY <1>1, <1>3, <2>1, <2>3, <2>4, <2>5, StepOk
<1>6. CASE Becomes(k, b)
    <2>1. JobOk(b, Saved(j.at)) /\ Same(b, j)  BY <1>2, AnsweredOk
    <2>2. b.pc = "done"  BY <1>2 DEF Answered, Carries, JobFields
    <2> HIDE DEF b
    <2>3. JobOk(b, Head(log'[b.at]).ops)  BY <1>1, <2>1 DEF Saved, Durable, Same
    <2>4. Moves(k, b, {})  BY <1>1, <1>4, <1>6, BecomesFacts DEF Moves
    <2>5. Starts(k, b, {})  BY <1>1, <2>1, <2>2 DEF Starts, Same
    <2> QED  BY <1>1, <1>3, <2>1, <2>3, <2>4, <2>5, StepOk DEF Same
<1> QED  BY <1>1, <1>5, <1>6

LEMMA RefuseOk == ASSUME Inv, NEW k, Refuse(k) PROVE Inv'
<1>1. /\ k \in DOMAIN jobs /\ jobs[k].pc = "body" /\ scenario' = scenario /\ log' = log
    BY DEF Refuse, At
<1>2. PICK status : Becomes(k, Answered(jobs[k], status))  BY DEF Refuse
<1> QED  BY <1>1, <1>2, AnswerOk DEF Rested

LEMMA ReadBlobOk == ASSUME Inv, NEW k, ReadBlob(k) PROVE Inv'
<1>1. /\ k \in DOMAIN jobs /\ jobs[k].pc = "read" /\ scenario' = scenario /\ log' = log
    BY DEF ReadBlob, At
<1>2. PICK status : Becomes(k, Answered(jobs[k], status))  BY DEF ReadBlob
<1> QED  BY <1>1, <1>2, AnswerOk DEF Rested

LEMMA PutBlobFailsOk == ASSUME Inv, NEW k, PutBlobFails(k) PROVE Inv'
<1>1. /\ k \in DOMAIN jobs /\ jobs[k].pc = "put" /\ scenario' = scenario /\ log' = log
      /\ Becomes(k, Answered(jobs[k], 400))
    BY DEF PutBlobFails, At
<1> QED  BY <1>1, AnswerOk DEF Rested

LEMMA SaveFailsOk == ASSUME Inv, NEW k, SaveFails(k) PROVE Inv'
<1> DEFINE j == jobs[k]
           a == [Answered(j, 500) EXCEPT !.unsaved = TRUE]
<1>1. /\ k \in DOMAIN jobs /\ j.pc = "save" /\ scenario' = scenario /\ log' = log
      /\ Becomes(k, a)
    BY DEF SaveFails, At
<1>2. Carries(j, Saved(j.at))  BY <1>1, JobFacts
<1>3. JobOk(a, Saved(j.at)) /\ Same(a, j)  BY <1>2, UnsavedOk
<1> HIDE DEF a
<1> QED  BY <1>1, <1>3, QuietOk DEF Same

LEMMA UnlinkOk == ASSUME Inv, NEW k, Unlink(k) PROVE Inv'
<1> DEFINE j == jobs[k]
           a == [j EXCEPT !.pc = "fan"]
           b == Completed(j)
<1>1. /\ k \in DOMAIN jobs /\ j.pc = "unlink" /\ scenario' = scenario /\ log' = log
      /\ Becomes(k, IF j.op \in ScopeOps THEN a ELSE b)
    BY DEF Unlink, At
<1>2. /\ Carries(j, Saved(j.at)) /\ j.did \subseteq Saved(j.at)
      /\ j.op \in ObjectOps => HasChunks(j)
    BY <1>1, JobFacts, RestedFacts DEF Rested
<1>3. CASE j.op \in ScopeOps
    <2>1. /\ DOMAIN a = JobFields /\ a.pc = "fan" /\ a.op = j.op /\ a.at = j.at
          /\ a.did = j.did /\ a.wrote = j.wrote /\ a.started = j.started /\ a.chunks = j.chunks
        BY <1>2 DEF Carries, JobFields
    <2>2. Becomes(k, a)  BY <1>1, <1>3
    <2> HIDE DEF a
    <2>3. JobOk(a, Saved(j.at))  BY <1>2, <1>3, <2>1, RestedOk DEF HasChunks
    <2> QED  BY <1>1, <2>1, <2>2, <2>3, QuietOk
<1>4. CASE j.op \notin ScopeOps
    <2>1. JobOk(b, Saved(j.at)) /\ Same(b, j)
        BY <1>2, <1>4, CompletedOk DEF Carries
    <2>2. Becomes(k, b)  BY <1>1, <1>4
    <2> HIDE DEF b
    <2> QED  BY <1>1, <2>1, <2>2, QuietOk DEF Same
<1> QED  BY <1>3, <1>4


\* The first chunk of a request becomes the groups of the handler.
LEMMA ChunkOk ==
    ASSUME Inv, NEW k \in DOMAIN jobs, jobs[k].pc = "body", jobs[k].op \in ObjectOps
    PROVE  LET j == [jobs[k] EXCEPT !.groups = Head(jobs[k].chunks)]
           IN  /\ Carries(j, Saved(j.at)) /\ Same(j, jobs[k]) /\ j.did \subseteq Saved(j.at)
               /\ HasChunks(j) /\ HasGroups(j) /\ j.op \in ObjectOps
<1> DEFINE i == jobs[k]
           j == [i EXCEPT !.groups = Head(i.chunks)]
<1>1. Carries(i, Saved(i.at)) /\ i.did \subseteq Saved(i.at) /\ HasChunks(i)
    BY JobFacts, RestedFacts DEF Rested
<1>2. /\ DOMAIN j = JobFields /\ j.op = i.op /\ j.at = i.at /\ j.started = i.started
      /\ j.did = i.did /\ j.wrote = i.wrote /\ j.chunks = i.chunks
      /\ j.groups = Head(i.chunks)
    BY <1>1 DEF Carries, JobFields
<1>3. Head(i.chunks) \in Chunk  BY <1>1 DEF HasChunks
<1> HIDE DEF j
<1>4. HasGroups(j)  BY <1>2, <1>3 DEF HasGroups, Chunk
<1>5. Carries(j, Saved(j.at))  BY <1>1, <1>2, CarriesOver
<1>6. HasChunks(j) /\ Same(j, i) /\ j.did \subseteq Saved(j.at) /\ j.op \in ObjectOps
    BY <1>1, <1>2 DEF HasChunks, Same
<1> QED  BY <1>4, <1>5, <1>6 DEF j

LEMMA BeginReadOk == ASSUME Inv, NEW k, BeginRead(k) PROVE Inv'
<1> DEFINE j == [jobs[k] EXCEPT !.groups = Head(jobs[k].chunks)]
           row == Mem(j.at).rows[Object(j.chunks)]
           f == [j EXCEPT !.before = row.file]
<1>1. /\ k \in DOMAIN jobs /\ jobs[k].pc = "body" /\ jobs[k].op \in Reads
      /\ scenario' = scenario /\ log' = log
    BY DEF BeginRead, At
<1>2. /\ Carries(j, Saved(j.at)) /\ Same(j, jobs[k]) /\ j.did \subseteq Saved(j.at)
      /\ HasChunks(j) /\ HasGroups(j) /\ j.op \in ObjectOps
    BY <1>1, ChunkOk, OpsApart
<1>3. \/ Becomes(k, ToOwners(j)) \/ Becomes(k, Found(k, f)) \/ Becomes(k, Answered(j, 404))
    BY DEF BeginRead
<1>4. /\ DOMAIN f = JobFields /\ f.op = j.op /\ f.at = j.at /\ f.started = j.started
      /\ f.did = j.did /\ f.wrote = j.wrote /\ f.chunks = j.chunks
    BY <1>2 DEF Carries, JobFields
<1> HIDE DEF f, j
<1>5. ASSUME NEW e, JobOk(e, Saved(j.at)), Same(e, j), Becomes(k, e)
      PROVE  Inv'
    BY <1>1, <1>2, <1>5, QuietOk DEF Same
<1>6. JobOk(ToOwners(j), Saved(j.at)) /\ Same(ToOwners(j), j)
    BY <1>2, ToOwnersOk
<1>7. JobOk(Answered(j, 404), Saved(j.at)) /\ Same(Answered(j, 404), j)
    BY <1>2, AnsweredOk
<1>8. JobOk(Found(k, f), Saved(j.at)) /\ Same(Found(k, f), j)
    <2>1. Carries(f, Saved(j.at)) /\ HasChunks(f) /\ f.op \in Reads
        BY <1>1, <1>2, <1>4, CarriesOver DEF HasChunks, Same
    <2>2. JobOk(Found(k, f), Saved(j.at)) /\ Same(Found(k, f), f)
        BY <2>1, FoundOk
    <2> QED  BY <1>4, <2>2 DEF Same
<1> QED  BY <1>3, <1>5, <1>6, <1>7, <1>8

LEMMA BeginObjectsOk == ASSUME Inv, NEW k, BeginObjects(k) PROVE Inv'
<1> DEFINE j == [jobs[k] EXCEPT !.groups = Head(jobs[k].chunks)]
           p == [j EXCEPT !.rows = Prepared(k[1], j)]
<1>1. /\ k \in DOMAIN jobs /\ jobs[k].pc = "body" /\ jobs[k].op \in ObjectOps \ Reads
      /\ scenario' = scenario
    BY DEF BeginObjects, At
<1>2. /\ Carries(j, Saved(j.at)) /\ Same(j, jobs[k]) /\ j.did \subseteq Saved(j.at)
      /\ HasChunks(j) /\ HasGroups(j) /\ j.op \in ObjectOps
    BY <1>1, ChunkOk
<1>3. \/ Becomes(k, Answered(j, 404)) /\ log' = log
      \/ RunGroups(k, p)
    BY DEF BeginObjects
<1>4. /\ DOMAIN p = JobFields /\ p.op = j.op /\ p.at = j.at /\ p.started = j.started
      /\ p.did = j.did /\ p.wrote = j.wrote /\ p.chunks = j.chunks /\ p.groups = j.groups
    BY <1>2 DEF Carries, JobFields
<1> HIDE DEF p, j
<1>5. CASE Becomes(k, Answered(j, 404)) /\ log' = log
    <2>1. JobOk(Answered(j, 404), Saved(j.at)) /\ Same(Answered(j, 404), j)
        BY <1>2, AnsweredOk
    <2> QED  BY <1>1, <1>2, <1>5, <2>1, QuietOk DEF Same
<1>6. CASE RunGroups(k, p)
    <2>1. Carries(p, Saved(p.at)) /\ Same(p, jobs[k])
        BY <1>2, <1>4, CarriesOver DEF Same
    <2>2. p.op \in ObjectOps \ Reads /\ HasChunks(p) /\ p.groups \in Seq(Group)
        BY <1>1, <1>2, <1>4 DEF Same, HasChunks, HasGroups
    <2> QED  BY <1>1, <1>6, <2>1, <2>2, RunGroupsOk
<1> QED  BY <1>3, <1>5, <1>6

LEMMA BeginFileOk == ASSUME Inv, NEW k, BeginFile(k) PROVE Inv'
<1> DEFINE j == [jobs[k] EXCEPT !.groups = Head(jobs[k].chunks)]
           row == Mem(j.at).rows[Object(j.chunks)]
           p == [j EXCEPT !.pc = "put", !.before = row.file]
<1>1. /\ k \in DOMAIN jobs /\ jobs[k].pc = "body" /\ jobs[k].op \in ObjectOps \ Reads
      /\ scenario' = scenario /\ log' = log
    BY DEF BeginFile, At
<1>2. /\ Carries(j, Saved(j.at)) /\ Same(j, jobs[k]) /\ j.did \subseteq Saved(j.at)
      /\ HasChunks(j) /\ HasGroups(j) /\ j.op \in ObjectOps
    BY <1>1, ChunkOk
<1>3. \/ Becomes(k, ToOwners(j)) \/ Becomes(k, Answered(j, 409)) \/ Becomes(k, p)
    BY DEF BeginFile
<1>4. /\ DOMAIN p = JobFields /\ p.op = j.op /\ p.at = j.at /\ p.started = j.started
      /\ p.did = j.did /\ p.wrote = j.wrote /\ p.chunks = j.chunks /\ p.groups = j.groups
      /\ p.pc = "put"
    BY <1>2 DEF Carries, JobFields
<1> HIDE DEF p, j
<1>5. ASSUME NEW e, JobOk(e, Saved(j.at)), Same(e, j), Becomes(k, e)
      PROVE  Inv'
    BY <1>1, <1>2, <1>5, QuietOk DEF Same
<1>6. JobOk(ToOwners(j), Saved(j.at)) /\ Same(ToOwners(j), j)
    BY <1>2, ToOwnersOk
<1>7. JobOk(Answered(j, 409), Saved(j.at)) /\ Same(Answered(j, 409), j)
    BY <1>2, AnsweredOk
<1>8. JobOk(p, Saved(j.at)) /\ Same(p, j)
    <2>1. HasChunks(p) /\ HasGroups(p) /\ j.op \in ObjectOps \ Reads
        BY <1>1, <1>2, <1>4 DEF HasChunks, HasGroups, Same
    <2> QED  BY <1>2, <1>4, <2>1, RestedOk DEF Same
<1> QED  BY <1>3, <1>5, <1>6, <1>7, <1>8

LEMMA PutBlobOk == ASSUME Inv, NEW k, PutBlob(k) PROVE Inv'
<1> DEFINE j == jobs[k]
<1>1. /\ k \in DOMAIN jobs /\ j.pc = "put" /\ scenario' = scenario
      /\ RunGroups(k, j)
    BY DEF PutBlob, At
<1>2. /\ Carries(j, Saved(j.at)) /\ Placed(j, Saved(j.at))  BY <1>1, JobFacts
<1>3. /\ j.op \in ObjectOps \ Reads /\ HasChunks(j) /\ j.groups \in Seq(Group)
    BY <1>1, <1>2 DEF Placed, HasGroups
<1>4. Same(j, jobs[k])  BY DEF Same
<1> HIDE DEF j
<1> QED  BY <1>1, <1>2, <1>3, <1>4, RunGroupsOk DEF j


\* A save makes durable everything that the handler still listed in wrote.
LEMMA SaveOk == ASSUME Inv, NEW k, Save(k) PROVE Inv'
<1> DEFINE j == jobs[k]
           n == j.at
           a == AfterSave(k, j)
<1>1. /\ k \in DOMAIN jobs /\ j.pc = "save" /\ scenario' = scenario /\ Becomes(k, a)
    BY DEF Save, At
<1>2. PICK i \in DOMAIN log[n] : /\ j.wrote \subseteq log[n][i].ops
                                 /\ log' = [log EXCEPT ![n] = SubSeq(log[n], i, Len(log[n]))]
    BY DEF Save
<1>3. /\ n \in Nodes /\ Carries(j, Saved(n)) /\ Placed(j, Saved(n))  BY <1>1, JobFacts
<1> DEFINE l == log[n]
           m == SubSeq(l, i, Len(l))
           S == l[i].ops
<1>4. DOMAIN log = Nodes /\ IsLog(l)  BY <1>3 DEF Inv, LogsOk
<1>5. /\ IsLog(m) /\ Head(m) = l[i] /\ Last(m) = Last(l) /\ Head(l).ops \subseteq S
    BY <1>4, SaveLog
<1>6. /\ DOMAIN log' = Nodes /\ log'[n] = m
      /\ \A q \in Nodes \ {n} : log'[q] = log[q]
    BY <1>2, <1>3, <1>4
<1>7. JobOk(a, S) /\ Same(a, j)
    <2>1. j.did \subseteq S  BY <1>2, <1>3, <1>5 DEF Carries, Saved, Durable
    <2>2. Carries(j, S)  BY <1>3, <2>1 DEF Carries
    <2>3. j.op \in ObjectOps => HasChunks(j)  BY <1>1, <1>3 DEF Placed
    <2> HIDE DEF j, S
    <2> QED  BY <2>1, <2>2, <2>3, AfterSaveOk
<1> HIDE DEF l, m, n, a
<1>8. LogsOk'
    <2>1. \A q \in Nodes : IsLog(log'[q])  BY <1>5, <1>6 DEF Inv, LogsOk
    <2> QED  BY <1>6, <2>1 DEF LogsOk, IsLog
<1>9. /\ \A q \in Nodes : Saved(q) \subseteq Saved(q)'
      /\ \A q \in Nodes : \A o \in Mem(q).ops' : o \in Mem(q).ops \/ o[1] = k[1]
    BY <1>5, <1>6 DEF Saved, Durable, Mem, l
<1>10. JobOk(a, Head(log'[a.at]).ops)
    BY <1>5, <1>6, <1>7 DEF Same, n
<1> QED  BY <1>1, <1>7, <1>8, <1>9, <1>10, BecomesOk DEF Same

\* An attempt that did not bring the answer of the request.
LEMMA NextAttemptOk ==
    ASSUME Inv, scenario' = scenario, UNCHANGED log,
           NEW k \in DOMAIN jobs, jobs[k].pc \in {"send", "wait"},
           NEW j, DOMAIN j = JobFields, Same(j, jobs[k]), j.chunks = jobs[k].chunks,
           j.groups = jobs[k].groups, j.peers = jobs[k].peers,
           j.did = jobs[k].did, j.wrote = jobs[k].wrote,
           NEW status, Becomes(k, NextOwner(j, status))
    PROVE  Inv'
<1> DEFINE a == NextOwner(j, status)
<1>1. JobOk(jobs[k], Saved(jobs[k].at)) /\ Carries(jobs[k], Saved(jobs[k].at))
    BY JobFacts
<1>2. Carries(j, Saved(jobs[k].at))  BY <1>1, CarriesOver DEF Same
<1>3. JobOk(a, Saved(jobs[k].at)) /\ Same(a, jobs[k])  BY <1>1, <1>2, NextOwnerOk
<1>4. Becomes(k, a)  OBVIOUS
<1> HIDE DEF a
<1> QED  BY <1>3, <1>4, QuietOk DEF Same

LEMMA MissedOk ==
    ASSUME Inv, scenario' = scenario, UNCHANGED log,
           NEW k \in DOMAIN jobs, jobs[k].pc \in {"send", "wait"}, NEW status,
           Becomes(k, NextOwner([jobs[k] EXCEPT !.missed = TRUE], status))
    PROVE  Inv'
<1> DEFINE j == [jobs[k] EXCEPT !.missed = TRUE]
<1>1. Carries(jobs[k], Saved(jobs[k].at))  BY JobFacts
<1>2. /\ DOMAIN j = JobFields /\ Same(j, jobs[k]) /\ j.chunks = jobs[k].chunks
      /\ j.groups = jobs[k].groups /\ j.peers = jobs[k].peers
      /\ j.did = jobs[k].did /\ j.wrote = jobs[k].wrote
    BY <1>1 DEF Carries, JobFields, Same
<1>3. Becomes(k, NextOwner(j, status))  OBVIOUS
<1> HIDE DEF j
<1> QED  BY <1>2, <1>3, NextAttemptOk

LEMMA UnreachableOk == ASSUME Inv, NEW k, Unreachable(k) PROVE Inv'
<1>1. /\ k \in DOMAIN jobs /\ jobs[k].pc = "send" /\ scenario' = scenario /\ log' = log
      /\ Becomes(k, NextOwner([jobs[k] EXCEPT !.missed = TRUE], 503))
    BY DEF Unreachable, At
<1> QED  BY <1>1, MissedOk

LEMMA TimesOutOk == ASSUME Inv, NEW k, TimesOut(k) PROVE Inv'
<1>1. /\ k \in DOMAIN jobs /\ jobs[k].pc = "wait" /\ scenario' = scenario /\ log' = log
      /\ Becomes(k, NextOwner([jobs[k] EXCEPT !.missed = TRUE], 504))
    BY DEF TimesOut, At
<1> QED  BY <1>1, MissedOk

LEMMA DisconnectedOk == ASSUME Inv, NEW k, Disconnected(k) PROVE Inv'
<1>1. /\ k \in DOMAIN jobs /\ jobs[k].pc = "wait" /\ scenario' = scenario /\ log' = log
      /\ Becomes(k, NextOwner([jobs[k] EXCEPT !.missed = TRUE], 503))
    BY DEF Disconnected, At
<1> QED  BY <1>1, MissedOk

\* The answer of the owner: the mark of a handler that has begun stays.
LEMMA ReturnOk == ASSUME Inv, NEW k, Return(k) PROVE Inv'
<1> DEFINE i == jobs[k]
           c == jobs[i.child]
           j == [i EXCEPT !.child = <<>>]
           a == [j EXCEPT !.missed = @ \/ c.status # 404]
           b == [j EXCEPT !.started = StartedMarker(j, c.started)]
           f == [j EXCEPT !.before = c.before]
           g == [j EXCEPT !.part = @ + c.count, !.groups = Tail(@)]
<1>1. k \in DOMAIN jobs /\ i.pc = "wait" /\ scenario' = scenario
    BY DEF Return, At
<1>2. \/ Becomes(k, NextOwner(a, c.status)) /\ UNCHANGED log
      \/ Becomes(k, Failed(b, c.status)) /\ UNCHANGED log
      \/ j.op \in Reads /\ Becomes(k, Found(k, f)) /\ UNCHANGED log
      \/ j.op \notin Reads /\ RunGroups(k, g)
    BY DEF Return
<1>3. /\ Carries(i, Saved(i.at)) /\ Placed(i, Saved(i.at))  BY <1>1, JobFacts
<1>4. /\ i.op \in ObjectOps /\ HasChunks(i) /\ HasGroups(i)  BY <1>1, <1>3 DEF Placed
<1>5. /\ DOMAIN j = JobFields /\ Same(j, i) /\ j.did = i.did /\ j.wrote = i.wrote
      /\ j.chunks = i.chunks /\ j.groups = i.groups /\ j.peers = i.peers
    BY <1>3 DEF Carries, JobFields, Same
<1> HIDE DEF j, c
<1>6. /\ DOMAIN a = JobFields /\ Same(a, i) /\ a.did = i.did /\ a.wrote = i.wrote
      /\ a.chunks = i.chunks /\ a.groups = i.groups /\ a.peers = i.peers
    BY <1>5 DEF JobFields, Same
<1>7. /\ DOMAIN b = JobFields /\ b.op = i.op /\ b.at = i.at /\ b.did = i.did
      /\ b.wrote = i.wrote /\ b.chunks = i.chunks
      /\ b.started = (j.started \/ c.started) /\ j.started = i.started
    BY <1>5 DEF JobFields, Same, StartedMarker
<1>8. /\ DOMAIN f = JobFields /\ Same(f, i) /\ f.did = i.did /\ f.wrote = i.wrote
      /\ f.chunks = i.chunks
    BY <1>5 DEF JobFields, Same
<1>9. /\ DOMAIN g = JobFields /\ Same(g, i) /\ g.did = i.did /\ g.wrote = i.wrote
      /\ g.chunks = i.chunks /\ g.groups = Tail(i.groups)
    BY <1>5 DEF JobFields, Same
<1> HIDE DEF a, b, f, g
<1>10. CASE Becomes(k, NextOwner(a, c.status)) /\ UNCHANGED log
    <2> HIDE DEF i
    <2>1. DOMAIN a = JobFields /\ Same(a, jobs[k]) /\ a.chunks = jobs[k].chunks
          /\ a.groups = jobs[k].groups /\ a.peers = jobs[k].peers
          /\ a.did = jobs[k].did /\ a.wrote = jobs[k].wrote
        BY <1>6 DEF i
    <2>2. k \in DOMAIN jobs /\ jobs[k].pc \in {"send", "wait"} /\ scenario' = scenario
        BY <1>1 DEF i
    <2> QED  BY <1>10, <2>1, <2>2, NextAttemptOk
<1>11. CASE Becomes(k, Failed(b, c.status)) /\ UNCHANGED log
    <2>1. Carries(b, Saved(i.at)) /\ HasChunks(b)
        BY <1>3, <1>4, <1>7, CarriesOver DEF HasChunks
    <2>2. JobOk(Failed(b, c.status), Saved(i.at)) /\ Same(Failed(b, c.status), b)
        BY <2>1, FailedOk
    <2>3. i.started => b.started  BY <1>7
    <2> QED  BY <1>1, <1>7, <1>11, <2>2, <2>3, QuietOk DEF Same
<1>12. CASE j.op \in Reads /\ Becomes(k, Found(k, f)) /\ UNCHANGED log
    <2>1. Carries(f, Saved(i.at)) /\ HasChunks(f) /\ f.op \in Reads
        BY <1>3, <1>4, <1>5, <1>8, <1>12, CarriesOver DEF HasChunks, Same
    <2>2. JobOk(Found(k, f), Saved(i.at)) /\ Same(Found(k, f), f)
        BY <2>1, FoundOk
    <2> QED  BY <1>1, <1>8, <1>12, <2>2, QuietOk DEF Same
<1>13. CASE j.op \notin Reads /\ RunGroups(k, g)
    <2>1. Carries(g, Saved(g.at)) /\ HasChunks(g) /\ g.op \in ObjectOps \ Reads
        BY <1>3, <1>4, <1>5, <1>9, <1>13, CarriesOver DEF HasChunks, Same
    <2>2. g.groups \in Seq(Group)  BY <1>4, <1>9 DEF HasGroups
    <2>3. Same(g, jobs[k]) /\ RunGroups(k, g)  BY <1>9, <1>13
    <2> QED  BY <1>1, <2>1, <2>2, <2>3, RunGroupsOk
<1> QED  BY <1>2, <1>10, <1>11, <1>12, <1>13


\* A forwarded call is a new job, in sight of the caller only.
LEMMA SendOk == ASSUME Inv, NEW k, Send(k) PROVE Inv'
<1> DEFINE j == jobs[k]
           c == ChildKey(k, Head(j.peers))
           a == [j EXCEPT !.pc = "wait", !.child = c]
           e == NewJob(k[1], Head(j.peers), << <<Head(j.groups)>> >>)
<1>1. /\ k \in DOMAIN jobs /\ j.pc = "send" /\ scenario' = scenario /\ log' = log
      /\ jobs' = [q \in DOMAIN jobs \cup {c} |-> IF q = k THEN a ELSE IF q = c THEN e ELSE jobs[q]]
    BY DEF Send, At
<1>2. /\ k[1] \in Requests /\ j.op = Req(k[1]).op
      /\ Carries(j, Saved(j.at)) /\ Placed(j, Saved(j.at))
    BY <1>1, JobFacts
<1>3. /\ j.op \in ObjectOps /\ HasChunks(j) /\ HasGroups(j)
      /\ j.peers \in Seq(Nodes) /\ j.peers # <<>>
    BY <1>1, <1>2 DEF Placed
<1>4. Head(j.peers) \in Nodes /\ Head(j.groups) \in Group  BY <1>3 DEF HasGroups
<1>5. c[1] = k[1] /\ c[2] \in Nodes  BY <1>4 DEF ChildKey
<1>6. e.op = Req(k[1]).op /\ \A S : JobOk(e, S)
    <2>1. <<Head(j.groups)>> \in Chunk  BY <1>4, OneGroup
    <2> DEFINE chunk == <<Head(j.groups)>>
    <2> HIDE DEF chunk
    <2>2. <<chunk>> \in Seq(Chunk) /\ <<chunk>> # <<>>  BY <2>1 DEF chunk
    <2>3. e = NewJob(k[1], Head(j.peers), <<chunk>>)  BY DEF chunk
    <2> HIDE DEF e, j
    <2>4. scenario \in Scenarios  BY DEF Inv
    <2> QED  BY <1>2, <1>4, <2>2, <2>3, <2>4, NewJobOk
<1>7. /\ DOMAIN a = JobFields /\ a.pc = "wait" /\ Same(a, j) /\ a.did = j.did
      /\ a.wrote = j.wrote /\ a.chunks = j.chunks /\ a.groups = j.groups /\ a.peers = j.peers
    BY <1>2 DEF Carries, JobFields, Same
<1> HIDE DEF a, e, c
<1>8. JobOk(a, Saved(j.at))
    <2>1. HasChunks(a) /\ HasGroups(a)  BY <1>3, <1>7 DEF HasChunks, HasGroups
    <2> QED  BY <1>2, <1>3, <1>7, <2>1, MovedOk
<1>9. JobOk(a, Head(log'[a.at]).ops)  BY <1>1, <1>7, <1>8 DEF Saved, Durable, Same
<1>10. LogsOk' /\ \A m \in Nodes : Saved(m)' = Saved(m) /\ Mem(m)' = Mem(m)
    BY <1>1, SameLog DEF Inv
<1>11. Moves(k, a, {c})
    <2>1. \A n \in Nodes : Saved(n) \subseteq Saved(n)'  BY <1>10
    <2>2. \A n \in Nodes : \A o \in Mem(n).ops' : o \in Mem(n).ops \/ o[1] = k[1]  BY <1>10
    <2> QED  BY <1>1, <1>5, <1>6, <2>1, <2>2 DEF Moves
<1>12. Starts(k, a, {c})  BY <1>1, <1>7 DEF Starts, Same
<1> QED  BY <1>1, <1>7, <1>9, <1>10, <1>11, <1>12, StepOk DEF Same

\* Dropping and creating a scope.
LEMMA ScopeFacts ==
    ASSUME Inv, NEW k \in DOMAIN jobs, jobs[k].pc = "body", jobs[k].op \in ScopeOps
    PROVE  /\ Carries(jobs[k], Saved(jobs[k].at)) /\ jobs[k].did \subseteq Saved(jobs[k].at)
           /\ jobs[k].op \notin ObjectOps
           /\ DOMAIN Mem(jobs[k].at) = StateFields
<1>1. /\ jobs[k].at \in Nodes /\ Carries(jobs[k], Saved(jobs[k].at))
      /\ jobs[k].did \subseteq Saved(jobs[k].at)
    BY JobFacts, RestedFacts DEF Rested
<1>2. DOMAIN Mem(jobs[k].at) = StateFields  BY <1>1, LogEnds DEF Inv, LogsOk, Mem
<1> QED  BY <1>1, <1>2, OpsApart

LEMMA ScopeSaveOk ==
    ASSUME Inv, scenario' = scenario,
           NEW k \in DOMAIN jobs, jobs[k].pc = "body", jobs[k].op \in ScopeOps,
           NEW a, DOMAIN a = JobFields, a.pc = "save", Same(a, jobs[k]), a.did = a.wrote,
           Becomes(k, a),
           NEW w, NEW scope, DOMAIN w = StateFields,
           w.ops = Mem(jobs[k].at).ops \cup {<<k[1], scope>>}, Writes(jobs[k].at, w)
    PROVE  Inv'
<1>1. /\ Carries(jobs[k], Saved(jobs[k].at)) /\ jobs[k].op \notin ObjectOps
    BY ScopeFacts
<1>2. JobOk(a, Saved(jobs[k].at))
    <2>1. Carries(a, Saved(jobs[k].at))  BY <1>1, OpsApart DEF Carries, Same
    <2>2. Placed(a, Saved(jobs[k].at))  BY <1>1 DEF Placed, Rested, Same
    <2> QED  BY <2>1, <2>2 DEF JobOk
<1>3. <<k[1], scope>>[1] = k[1]  OBVIOUS
<1>4. Mem(jobs[k].at).ops \subseteq w.ops
      /\ \A o \in w.ops : o \in Mem(jobs[k].at).ops \/ o[1] = k[1]
    BY <1>3
<1> QED  BY <1>2, <1>4, WritingOk

LEMMA BeginDropOk == ASSUME Inv, NEW k, BeginDrop(k) PROVE Inv'
<1> DEFINE j == jobs[k]
           s == Mem(j.at)
           scope == ScopeOf(j.op)
           existed == scope \in s.live
           w == [Dropped(s, scope) EXCEPT !.ops = @ \cup {<<k[1], scope>>}]
           a == [j EXCEPT !.pc = "fan"]
           b == [j EXCEPT !.pc = "save", !.wrote = {<<k[1], scope>>},
                          !.did = {<<k[1], scope>>}, !.existed = existed]
<1>1. /\ k \in DOMAIN jobs /\ j.pc = "body" /\ j.op \in ScopeOps /\ scenario' = scenario
    BY DEF BeginDrop, At, ScopeOps
<1>2. \/ Becomes(k, Answered(j, 404)) /\ log' = log
      \/ Becomes(k, a) /\ log' = log
      \/ Becomes(k, b) /\ Writes(j.at, w)
    BY DEF BeginDrop
<1>3. /\ Carries(j, Saved(j.at)) /\ j.did \subseteq Saved(j.at) /\ j.op \notin ObjectOps
      /\ DOMAIN s = StateFields
    BY <1>1, ScopeFacts
<1>4. CASE Becomes(k, Answered(j, 404)) /\ log' = log
    BY <1>1, <1>4, AnswerOk DEF Rested
<1>5. CASE Becomes(k, a) /\ log' = log
    <2>1. /\ DOMAIN a = JobFields /\ a.pc = "fan" /\ a.op = j.op /\ a.at = j.at
          /\ a.did = j.did /\ a.wrote = j.wrote /\ a.started = j.started
        BY <1>3 DEF Carries, JobFields
    <2> HIDE DEF a
    <2>2. JobOk(a, Saved(j.at))  BY <1>1, <1>3, <2>1, RestedOk
    <2> QED  BY <1>1, <1>5, <2>1, <2>2, QuietOk
<1>6. CASE Becomes(k, b) /\ Writes(j.at, w)
    <2>1. /\ DOMAIN b = JobFields /\ b.pc = "save" /\ Same(b, j) /\ b.did = b.wrote
        BY <1>3 DEF Carries, JobFields, Same
    <2>2. DOMAIN w = StateFields /\ w.ops = s.ops \cup {<<k[1], scope>>}
        BY <1>3 DEF Dropped, StateFields
    <2> HIDE DEF b, w, scope
    <2> QED  BY <1>1, <1>6, <2>1, <2>2, ScopeSaveOk
<1> QED  BY <1>2, <1>4, <1>5, <1>6

LEMMA BeginCreateOk == ASSUME Inv, NEW k, BeginCreate(k) PROVE Inv'
<1> DEFINE j == jobs[k]
           s == Mem(j.at)
           scope == ScopeOf(j.op)
           w == [Created(s, scope) EXCEPT !.ops = @ \cup {<<k[1], scope>>}]
           v == [s EXCEPT !.gone = @ \ {"coll"}]
           b == [j EXCEPT !.pc = "save", !.wrote = {<<k[1], scope>>},
                          !.did = {<<k[1], scope>>}]
<1>1. /\ k \in DOMAIN jobs /\ j.pc = "body" /\ j.op \in ScopeOps /\ scenario' = scenario
    BY DEF BeginCreate, At, ScopeOps
<1>2. \/ Becomes(k, Answered(j, 409)) /\ Writes(j.at, v)
      \/ Becomes(k, b) /\ Writes(j.at, w)
    BY DEF BeginCreate
<1>3. /\ Carries(j, Saved(j.at)) /\ j.did \subseteq Saved(j.at) /\ j.op \notin ObjectOps
      /\ DOMAIN s = StateFields
    BY <1>1, ScopeFacts
<1>4. CASE Becomes(k, Answered(j, 409)) /\ Writes(j.at, v)
    <2>1. DOMAIN v = StateFields /\ v.ops = s.ops  BY <1>3 DEF StateFields
    <2>2. JobOk(Answered(j, 409), Saved(j.at)) /\ Same(Answered(j, 409), j)
        BY <1>3, AnsweredOk
    <2> HIDE DEF v
    <2>3. Mem(jobs[k].at).ops \subseteq v.ops
          /\ \A o \in v.ops : o \in Mem(jobs[k].at).ops \/ o[1] = k[1]
        BY <2>1
    <2> QED  BY <1>1, <1>4, <2>1, <2>2, <2>3, WritingOk
<1>5. CASE Becomes(k, b) /\ Writes(j.at, w)
    <2>1. /\ DOMAIN b = JobFields /\ b.pc = "save" /\ Same(b, j) /\ b.did = b.wrote
        BY <1>3 DEF Carries, JobFields, Same
    <2>2. DOMAIN w = StateFields /\ w.ops = s.ops \cup {<<k[1], scope>>}
        BY <1>3 DEF Created, StateFields
    <2> HIDE DEF b, w, scope
    <2> QED  BY <1>1, <1>5, <2>1, <2>2, ScopeSaveOk
<1> QED  BY <1>2, <1>4, <1>5


LEMMA FanFacts ==
    ASSUME Inv, NEW k \in DOMAIN jobs, jobs[k].pc \in {"fan", "fanned"}
    PROVE  /\ Carries(jobs[k], Saved(jobs[k].at)) /\ jobs[k].did \subseteq Saved(jobs[k].at)
           /\ jobs[k].op \in ScopeOps /\ jobs[k].op \notin ObjectOps
<1>1. Carries(jobs[k], Saved(jobs[k].at)) /\ Placed(jobs[k], Saved(jobs[k].at))
    BY JobFacts
<1>2. jobs[k].did \subseteq Saved(jobs[k].at)  BY RestedFacts DEF Rested
<1> QED  BY <1>1, <1>2, OpsApart DEF Placed

LEMMA FanOutOk == ASSUME Inv, NEW k, FanOut(k) PROVE Inv'
<1> DEFINE j == jobs[k]
           others == Nodes \ {j.at}
<1>1. /\ k \in DOMAIN jobs /\ j.pc = "fan" /\ scenario' = scenario /\ log' = log
    BY DEF FanOut, At
<1>2. /\ Carries(j, Saved(j.at)) /\ j.did \subseteq Saved(j.at)
      /\ j.op \in ScopeOps /\ j.op \notin ObjectOps
    BY <1>1, FanFacts
<1>3. CASE IsForwarded(k)
    <2>1. Becomes(k, Answered(j, 200))  BY <1>3 DEF FanOut
    <2> QED  BY <1>1, <2>1, AnswerOk DEF Rested
<1>4. CASE ~IsForwarded(k)
    <2>1. PICK down \in SUBSET others :
             LET called == {ChildKey(k, n) : n \in others \ down}
             IN jobs' = [q \in DOMAIN jobs \cup called |->
                          IF q \in called THEN NewJob(k[1], q[2], <<>>)
                          ELSE IF q = k
                               THEN [j EXCEPT !.pc = "fanned",
                                              !.fan = [n \in others |-> IF n \in down THEN Unavailable ELSE 0]]
                          ELSE jobs[q]]
        BY <1>4 DEF FanOut
    <2> DEFINE C == {ChildKey(k, n) : n \in others \ down}
               a == [j EXCEPT !.pc = "fanned",
                              !.fan = [n \in others |-> IF n \in down THEN Unavailable ELSE 0]]
    <2>2. jobs' = [q \in DOMAIN jobs \cup C |->
                     IF q \in C THEN NewJob(k[1], q[2], <<>>)
                     ELSE IF q = k THEN a ELSE jobs[q]]
        BY <2>1
    <2>3. \A c \in C : c[1] = k[1] /\ c[2] \in Nodes
        <3>1. \A n : ChildKey(k, n)[1] = k[1] /\ ChildKey(k, n)[2] = n  BY DEF ChildKey
        <3> QED  BY <3>1
    <2>4. k[1] \in Requests /\ j.op = Req(k[1]).op  BY <1>1, JobFacts
    <2>5. \A n \in Nodes : NewJob(k[1], n, <<>>).op = Req(k[1]).op
                           /\ \A S : JobOk(NewJob(k[1], n, <<>>), S)
        BY <1>2, <2>4, NewJobOk DEF Inv
    <2>6. /\ DOMAIN a = JobFields /\ a.pc = "fanned" /\ Same(a, j)
          /\ a.did = j.did /\ a.wrote = j.wrote
        BY <1>2 DEF Carries, JobFields, Same
    <2> HIDE DEF a, C
    <2>7. JobOk(a, Saved(j.at))  BY <1>2, <2>6, RestedOk DEF Same
    <2>8. JobOk(a, Head(log'[a.at]).ops)  BY <1>1, <2>6, <2>7 DEF Saved, Durable, Same
    <2>9. LogsOk' /\ \A m \in Nodes : Saved(m)' = Saved(m) /\ Mem(m)' = Mem(m)
        BY <1>1, SameLog DEF Inv
    <2>10. Moves(k, a, C)
        <3>1. \A n \in Nodes : Saved(n) \subseteq Saved(n)'  BY <2>9
        <3>2. \A n \in Nodes : \A o \in Mem(n).ops' : o \in Mem(n).ops \/ o[1] = k[1]  BY <2>9
        <3>3. \A q \in DOMAIN jobs' :
                 \/ q \in DOMAIN jobs /\ q # k /\ jobs'[q] = jobs[q]
                 \/ q = k /\ jobs'[q] = a
                 \/ q \in C /\ jobs'[q] = NewJob(k[1], q[2], <<>>)
            BY <2>2
        <3>4. DOMAIN jobs' = DOMAIN jobs \cup C  BY <2>2
        <3>5. \A q \in DOMAIN jobs' :
                 \/ q \in DOMAIN jobs /\ q # k /\ jobs'[q] = jobs[q]
                 \/ q = k /\ jobs'[q] = a
                 \/ q \in C /\ jobs'[q].op = Req(k[1]).op /\ \A S : JobOk(jobs'[q], S)
            BY <2>3, <2>5, <3>3
        <3> QED  BY <2>3, <3>1, <3>2, <3>4, <3>5 DEF Moves
    <2>11. Starts(k, a, C)  BY <1>1, <2>6 DEF Starts, Same
    <2> QED  BY <1>1, <2>6, <2>8, <2>9, <2>10, <2>11, StepOk DEF Same
<1> QED  BY <1>3, <1>4

LEMMA FanReturnOk == ASSUME Inv, NEW k, FanReturn(k) PROVE Inv'
<1> DEFINE j == jobs[k]
<1>1. /\ k \in DOMAIN jobs /\ j.pc = "fanned" /\ scenario' = scenario /\ log' = log
    BY DEF FanReturn, At
<1>2. /\ Carries(j, Saved(j.at)) /\ j.did \subseteq Saved(j.at)
      /\ j.op \in ScopeOps /\ j.op \notin ObjectOps
    BY <1>1, FanFacts
<1>3. PICK n, answer : Becomes(k, [j EXCEPT !.fan[n] = answer])  BY DEF FanReturn
<1> DEFINE a == [j EXCEPT !.fan[n] = answer]
<1>4. /\ DOMAIN a = JobFields /\ a.pc = "fanned" /\ Same(a, j)
      /\ a.did = j.did /\ a.wrote = j.wrote
    BY <1>1, <1>2 DEF Carries, JobFields, Same
<1>5. Becomes(k, a)  BY <1>3
<1> HIDE DEF a
<1>6. JobOk(a, Saved(j.at))  BY <1>2, <1>4, RestedOk DEF Same
<1> QED  BY <1>1, <1>4, <1>5, <1>6, QuietOk DEF Same

LEMMA FanDoneOk == ASSUME Inv, NEW k, FanDone(k) PROVE Inv'
<1> DEFINE j == jobs[k]
           f == [j EXCEPT !.fan = <<>>]
<1>1. /\ k \in DOMAIN jobs /\ j.pc = "fanned" /\ scenario' = scenario /\ log' = log
    BY DEF FanDone, At
<1>2. Carries(j, Saved(j.at)) /\ j.did \subseteq Saved(j.at)
    BY <1>1, FanFacts
<1>3. PICK status : Becomes(k, Answered(f, status))
    <2> DEFINE failed == {n \in DOMAIN j.fan : /\ ~Ok(j.fan[n])
                                               /\ ~(AllowUnavailable(j.op) /\ j.fan[n] = Unavailable)}
               n == CHOOSE n \in failed : TRUE
               error == IF j.fan[n] = Unavailable THEN 503 ELSE j.fan[n]
    <2>1. Becomes(k, IF failed = {} THEN Answered(f, 200) ELSE Answered(f, error))
        BY DEF FanDone
    <2> HIDE DEF f, failed, error
    <2> QED  BY <2>1
<1>4. /\ DOMAIN f = JobFields /\ Same(f, j) /\ f.did = j.did /\ f.wrote = j.wrote
    BY <1>2 DEF Carries, JobFields, Same
<1> HIDE DEF f
<1>5. Carries(f, Saved(j.at)) /\ f.did \subseteq Saved(j.at)
    BY <1>2, <1>4, CarriesOver DEF Same
<1>6. JobOk(Answered(f, status), Saved(j.at)) /\ Same(Answered(f, status), f)
    BY <1>5, AnsweredOk
<1> QED  BY <1>1, <1>3, <1>4, <1>6, QuietOk DEF Same

\* A restart keeps what is saved, and the answers.
LEMMA RestartOk == ASSUME Inv, NEW n \in Nodes, Restart(n) PROVE Inv'
<1> DEFINE stopped(j) == [j EXCEPT !.pc = "done", !.status = 0, !.child = <<>>, !.fan = <<>>]
           Stops(q) == jobs[q].at = n /\ jobs[q].pc \notin {"new", "done"}
<1>1. scenario' = scenario /\ log' = [log EXCEPT ![n] = <<Durable(n)>>]  BY DEF Restart
<1>2. /\ DOMAIN jobs' \subseteq DOMAIN jobs
      /\ \A q \in DOMAIN jobs : ~IsForwarded(q) => q \in DOMAIN jobs'
      /\ \A q \in DOMAIN jobs' : jobs'[q] = IF Stops(q) THEN stopped(jobs[q]) ELSE jobs[q]
    BY DEF Restart
<1>3. /\ DOMAIN log = Nodes /\ DOMAIN log' = Nodes /\ log'[n] = <<Head(log[n])>>
      /\ \A m \in Nodes \ {n} : log'[m] = log[m]
      /\ \A m \in Nodes : IsLog(log[m])
    BY <1>1 DEF Inv, LogsOk, Durable
<1>4. /\ \A m \in Nodes : IsLog(log'[m])
      /\ \A m \in Nodes : Head(log'[m]) = Head(log[m])
      /\ \A m \in Nodes : Last(log'[m]).ops \subseteq Last(log[m]).ops
    BY <1>3, ResetLog, LogEnds
<1>5. LogsOk'  BY <1>3, <1>4 DEF LogsOk, IsLog
<1>6. Requests' = Requests /\ \A r : Req(r)' = Req(r)  BY <1>1 DEF Requests, Req
<1>7. \A q \in DOMAIN jobs : JobOk(stopped(jobs[q]), Saved(jobs[q].at))
                             /\ Same(stopped(jobs[q]), jobs[q])
    <2> SUFFICES ASSUME NEW q \in DOMAIN jobs
                 PROVE  JobOk(stopped(jobs[q]), Saved(jobs[q].at))
                        /\ Same(stopped(jobs[q]), jobs[q])
        OBVIOUS
    <2> DEFINE a == stopped(jobs[q])
    <2>1. Carries(jobs[q], Saved(jobs[q].at))  BY JobFacts
    <2>2. /\ DOMAIN a = JobFields /\ a.pc = "done" /\ a.status = 0 /\ Same(a, jobs[q])
          /\ a.did = jobs[q].did /\ a.wrote = jobs[q].wrote
        BY <2>1 DEF Carries, JobFields, Same
    <2> HIDE DEF a
    <2>3. Carries(a, Saved(jobs[q].at))  BY <2>1, <2>2, CarriesOver DEF Same
    <2>4. Placed(a, Saved(jobs[q].at))  BY <2>2 DEF Placed, Rested
    <2> QED  BY <2>2, <2>3, <2>4 DEF a, JobOk
<1> HIDE DEF stopped, Stops
<1>8. JobsOk'
    <2> SUFFICES ASSUME NEW q \in DOMAIN jobs'
                 PROVE  /\ q[1] \in Requests /\ jobs'[q].op = Req(q[1]).op
                        /\ JobOk(jobs'[q], Head(log'[jobs'[q].at]).ops)
        BY <1>6 DEF JobsOk, Saved, Durable
    <2>1. /\ q \in DOMAIN jobs /\ q[1] \in Requests /\ jobs[q].op = Req(q[1]).op
          /\ jobs[q].at \in Nodes /\ JobOk(jobs[q], Saved(jobs[q].at))
        BY <1>2, JobFacts
    <2>2. Head(log'[jobs[q].at]).ops = Saved(jobs[q].at)
        BY <1>4, <2>1 DEF Saved, Durable
    <2>3. CASE jobs'[q] = jobs[q]  BY <2>1, <2>2, <2>3
    <2>4. CASE jobs'[q] = stopped(jobs[q])  BY <1>7, <2>1, <2>2, <2>4 DEF Same
    <2> QED  BY <1>2, <2>3, <2>4
<1>9. KeysOk'
    <2>1. \A r \in Requests : RootKey(r) \in DOMAIN jobs'
        BY <1>2, RootKeys DEF Inv, KeysOk
    <2>2. \A q \in DOMAIN jobs' : q = RootKey(q[1]) \/ q[2] \in Nodes
        BY <1>2 DEF Inv, KeysOk
    <2> QED  BY <1>6, <2>1, <2>2 DEF KeysOk, RootKey
<1>10. StartsKnown'
    <2> SUFFICES ASSUME NEW r \in Requests
                 PROVE  jobs'[RootKey(r)].started \/ NotStarted(r)'
        BY <1>6 DEF StartsKnown, RootKey
    <2>1. RootKey(r) \in DOMAIN jobs /\ RootKey(r) \in DOMAIN jobs'
        BY <1>2, RootKeys DEF Inv, KeysOk
    <2>2. CASE jobs[RootKey(r)].started  BY <1>2, <1>7, <2>1, <2>2 DEF Same
    <2>3. CASE NotStarted(r)
        <3>1. jobs'[RootKey(r)].pc \in {"new", "done"}
            BY <1>2, <2>1, <2>3 DEF NotStarted, Stops
        <3>2. \A q \in DOMAIN jobs' : q[1] = r => q = RootKey(r)
            BY <1>2, <2>3 DEF NotStarted
        <3>3. \A m \in Nodes : \A o \in Last(log'[m]).ops : o[1] # r
            BY <1>4, <2>3 DEF NotStarted, Mem
        <3> QED  BY <3>1, <3>2, <3>3 DEF NotStarted, RootKey, Mem
    <2> QED  BY <2>2, <2>3 DEF Inv, StartsKnown
<1> QED  BY <1>1, <1>5, <1>8, <1>9, <1>10 DEF Inv


----------------------------------------------------------------------------
\* The invariant.

LEMMA InitInv == Init => Inv
<1> SUFFICES ASSUME Init PROVE Inv  OBVIOUS
<1>1. scenario \in Scenarios  BY DEF Init
<1> DEFINE start(n) ==
        [rows |-> [id \in Ids |->
                     IF id \in scenario.present /\ n \in Range(Owners[ShardOf[id]])
                     THEN [x |-> 0, y |-> 0, file |-> FirstFile(id)] ELSE NoRow],
         live |-> Scopes, gone |-> {}, ops |-> {}]
<1>2. \A n : DOMAIN start(n) = StateFields /\ start(n).ops = {}  BY DEF StateFields
<1>3. log = [n \in Nodes |-> <<start(n)>>]  BY DEF Init
<1> HIDE DEF start
<1>4. \A n \in Nodes : IsLog(log[n]) /\ Last(log[n]).ops = {}  BY <1>2, <1>3, SavedLog
<1>5. LogsOk  BY <1>3, <1>4 DEF LogsOk
<1>6. \A n \in Nodes : Mem(n).ops = {}  BY <1>4 DEF Mem
<1>7. /\ DOMAIN jobs = {RootKey(r) : r \in Requests}
      /\ \A k \in DOMAIN jobs : jobs[k] = NewJob(k[1], Req(k[1]).at, Req(k[1]).chunks)
    BY DEF Init
<1>8. \A r \in Requests : RootKey(r) \in DOMAIN jobs /\ jobs[RootKey(r)].pc = "new"
    <2>1. \A r, n, chunks : NewJob(r, n, chunks).pc = "new"  BY DEF NewJob
    <2> QED  BY <1>7, <2>1
<1>9. \A k \in DOMAIN jobs : k[1] \in Requests /\ k = RootKey(k[1])  BY <1>7, RootKeys
<1>10. JobsOk
    <2> SUFFICES ASSUME NEW k \in DOMAIN jobs
                 PROVE  jobs[k].op = Req(k[1]).op /\ JobOk(jobs[k], Saved(jobs[k].at))
        BY <1>9 DEF JobsOk
    <2>1. Req(k[1]).at \in Nodes  BY <1>1, <1>9, RequestFacts
    <2>3. Req(k[1]).op \in ObjectOps => /\ Req(k[1]).chunks \in Seq(Chunk)
                                        /\ Req(k[1]).chunks # <<>>
        BY <1>1, <1>9, RequestFacts
    <2> DEFINE j == NewJob(k[1], Req(k[1]).at, Req(k[1]).chunks)
    <2>4. jobs[k] = j  BY <1>7
    <2>5. k[1] \in Requests  BY <1>9
    <2>6. \A S : JobOk(j, S) /\ j.op = Req(k[1]).op  BY <1>1, <2>1, <2>3, <2>5, NewJobOk
    <2> HIDE DEF j
    <2> QED  BY <2>4, <2>6
<1>11. KeysOk  BY <1>8, <1>9 DEF KeysOk
<1>12. StartsKnown  BY <1>6, <1>8, <1>9 DEF StartsKnown, NotStarted
<1> QED  BY <1>1, <1>5, <1>10, <1>11, <1>12 DEF Inv

LEMMA SameInv == Inv /\ UNCHANGED <<scenario, log, jobs>> => Inv'
BY DEF Inv, LogsOk, IsLog, JobsOk, Saved, Durable, KeysOk, StartsKnown, NotStarted, Mem,
       Requests, Req, RootKey

LEMMA NextInv == Inv /\ [Next]_vars => Inv'
<1> SUFFICES ASSUME Inv, [Next]_vars PROVE Inv'  OBVIOUS
<1>1. ASSUME NEW k \in DOMAIN jobs, Step(k) PROVE Inv'
    BY <1>1, ReceiveOk, BeginReadOk, BeginObjectsOk, BeginFileOk, ReadBlobOk, PutBlobOk,
       SaveOk, UnlinkOk, SendOk, ReturnOk, DisconnectedOk, BeginDropOk, BeginCreateOk,
       FanOutOk, FanReturnOk, FanDoneOk DEF Step
<1>2. ASSUME NEW k \in DOMAIN jobs, Failure(k) PROVE Inv'
    BY <1>2, RefuseOk, PutBlobFailsOk, SaveFailsOk, UnreachableOk, TimesOutOk DEF Failure
<1>3. CASE ExpireToken  BY <1>3, SameInv DEF ExpireToken
<1>4. CASE \E n \in Nodes : Restart(n)  BY <1>4, RestartOk
<1>5. CASE UNCHANGED vars  BY <1>5, SameInv DEF vars
<1> QED  BY <1>1, <1>2, <1>3, <1>4, <1>5 DEF Next

\* Every state of a run: the logs grow, and no handler loses sight of what it wrote.
THEOREM RequestsInvariant == Spec => []Inv
BY InitInv, NextInv, PTL DEF Spec

\* A handler that has answered, and was not told that saving failed, has everything
\* it wrote on its node saved: for every mix of requests, failures and restarts.
THEOREM AnsweredIsDurableHolds == Spec => []AnsweredIsDurable
<1>1. Inv => AnsweredIsDurable
    BY DEF Inv, JobsOk, JobOk, Placed, AnsweredIsDurable, Saved
<1> QED  BY <1>1, RequestsInvariant, PTL

\* A request that was rejected with 401 and not marked as started has had no effect on
\* any node, whichever owners it was forwarded to, so a client may repeat it.
THEOREM NotStartedHolds == Spec => []NotStartedMeansNoEffect
<1>1. Inv => NotStartedMeansNoEffect
    <2> SUFFICES ASSUME Inv, NEW r \in Requests, ~jobs[RootKey(r)].started,
                        NEW n \in Nodes, NEW i \in DOMAIN log[n], NEW o \in log[n][i].ops
                 PROVE  o[1] # r
        BY DEF NotStartedMeansNoEffect
    <2>1. NotStarted(r)  BY DEF Inv, StartsKnown
    <2>2. IsLog(log[n])  BY DEF Inv, LogsOk
    <2>3. log[n][i].ops \subseteq Mem(n).ops
        <3>1. Len(log[n]) \in Nat /\ DOMAIN log[n] = 1..Len(log[n]) /\ Last(log[n]) = log[n][Len(log[n])]
            BY <2>2, LogEnds
        <3>2. i \in 1..Len(log[n]) /\ Len(log[n]) \in 1..Len(log[n]) /\ i <= Len(log[n])
            BY <3>1
        <3> QED  BY <2>2, <3>1, <3>2 DEF IsLog, Mem
    <2> QED  BY <2>1, <2>3 DEF NotStarted
<1> QED  BY <1>1, RequestsInvariant, PTL

----------------------------------------------------------------------------
\* The only drop of a run.  Its mark m = <<r, scope>> is what a node writes with the
\* tombstone of the scope.

Drops == {"dropDb", "dropColl"}

OnlyDrop(r) == Req(r).op \in Drops /\ \A q \in Requests \ {r} : Req(q).op \notin Drops

\* A tombstone is the work of the drop.
GoneMarked(m, scope) ==
    \A n \in Nodes : \A i \in DOMAIN log[n] :
        scope \in log[n][i].gone => m \in log[n][i].ops

\* A handler of the drop, up to its answer.
DropJob(m, k, j) ==
    /\ j.pc \in {"new", "body", "save", "unlink", "fan", "fanned", "done"}
    /\ j.fail = 0
    /\ j.pc # "done" => j.status = 0 /\ ~j.unsaved
    /\ j.pc \in {"save", "unlink", "fan", "fanned"} \/ Ok(j.status) => m \in j.did
    /\ Ok(j.status) => ~j.unsaved
    /\ IsForwarded(k) => j.at = k[2] /\ j.pc # "fanned"
    /\ j.pc = "fanned" => DOMAIN j.fan = Nodes \ {j.at}

\* A node that answered the call of the drop with success has it saved.
FanSaved(m, j) == \A n \in Nodes \ {j.at} : Ok(j.fan[n]) => m \in Saved(n)

EachDropJob(r, m) ==
    \A k \in DOMAIN jobs : k[1] = r =>
        /\ DropJob(m, k, jobs[k])
        /\ jobs[k].pc \in {"new", "body"} => m \notin Mem(jobs[k].at).ops
        /\ jobs[k].pc = "fanned" => FanSaved(m, jobs[k])

\* At most one handler of the drop works at a node.
OneDropJob(r) ==
    \A k, q \in DOMAIN jobs : k[1] = r /\ q[1] = r /\ jobs[k].at = jobs[q].at => k = q

\* Until the drop is sent to the other nodes, they know nothing of it.
BeforeFan == {"new", "body", "save", "unlink", "fan"}

OthersUntouched(r, m) ==
    jobs[RootKey(r)].pc \in BeforeFan =>
        /\ \A k \in DOMAIN jobs : k[1] = r => k = RootKey(r)
        /\ \A n \in Nodes \ {jobs[RootKey(r)].at} : m \notin Mem(n).ops

AckedIsSaved(r, m) == Ok(jobs[RootKey(r)].status) => \A n \in Nodes : m \in Saved(n)

Dropping(r, scope) ==
    /\ GoneMarked(<<r, scope>>, scope)
    /\ EachDropJob(r, <<r, scope>>)
    /\ OneDropJob(r)
    /\ OthersUntouched(r, <<r, scope>>)
    /\ AckedIsSaved(r, <<r, scope>>)

DropInv == \A r \in Requests : OnlyDrop(r) => Dropping(r, ScopeOf(Req(r).op))

----------------------------------------------------------------------------
\* What steps do to the tombstones and the marks.

\* Nothing saved is lost, and the mark is written at the nodes of N at most.
MarksKept(m, scope, N) ==
    /\ GoneMarked(m, scope)'
    /\ \A n \in Nodes : Saved(n) \subseteq Saved(n)'
    /\ \A n \in Nodes \ N : m \in Mem(n).ops' => m \in Mem(n).ops

LEMMA SameMarks ==
    ASSUME LogsOk, UNCHANGED log, NEW m, NEW scope, GoneMarked(m, scope)
    PROVE  MarksKept(m, scope, {})
<1>1. \A n \in Nodes : Saved(n)' = Saved(n) /\ Mem(n)' = Mem(n)  BY SameLog
<1>2. GoneMarked(m, scope)'  BY DEF GoneMarked
<1> QED  BY <1>1, <1>2 DEF MarksKept

\* The entries of a log that is written to: those there were, and the state written.
LEMMA WrittenEntries ==
    ASSUME LogsOk, NEW n \in Nodes, NEW s, Writes(n, s),
           NEW q \in Nodes, NEW i \in DOMAIN log'[q]
    PROVE  \/ i \in DOMAIN log[q] /\ log'[q][i] = log[q][i]
           \/ q = n /\ log'[q][i] = s
<1>1. CASE log' = log  BY <1>1
<1>2. CASE log' = [log EXCEPT ![n] = Append(log[n], s)]
    <2>1. CASE q # n
        <3>1. log'[q] = log[q]  BY <1>2, <2>1 DEF LogsOk
        <3> QED  BY <3>1
    <2>2. CASE q = n
        <3>1. log'[q] = Append(log[q], s)  BY <1>2, <2>2 DEF LogsOk
        <3>2. PICK S : log[q] \in Seq(S)  BY DEF LogsOk, IsLog
        <3>3. /\ DOMAIN log[q] = 1..Len(log[q]) /\ Len(log[q]) \in Nat
              /\ DOMAIN Append(log[q], s) = 1..(Len(log[q]) + 1)
              /\ \A h \in 1..Len(log[q]) : Append(log[q], s)[h] = log[q][h]
              /\ Append(log[q], s)[Len(log[q]) + 1] = s
            BY <3>2
        <3>4. i \in 1..Len(log[q]) \/ i = Len(log[q]) + 1
            <4>1. i \in 1..(Len(log[q]) + 1)  BY <3>1, <3>3
            <4> QED  BY <3>3, <4>1
        <3>5. CASE i \in 1..Len(log[q])
            <4>1. Append(log[q], s)[i] = log[q][i]  BY <3>3, <3>5
            <4> QED  BY <3>1, <3>3, <3>5, <4>1
        <3>6. CASE i = Len(log[q]) + 1
            <4>1. Append(log[q], s)[i] = s  BY <3>3, <3>6
            <4> QED  BY <2>2, <3>1, <4>1
        <3> QED  BY <3>4, <3>5, <3>6
    <2> QED  BY <2>1, <2>2
<1> QED  BY <1>1, <1>2 DEF Writes

LEMMA WriteMarks ==
    ASSUME LogsOk, NEW m, NEW scope, GoneMarked(m, scope),
           NEW n \in Nodes, NEW s, DOMAIN s = StateFields, Mem(n).ops \subseteq s.ops,
           scope \in s.gone => m \in s.ops,
           Writes(n, s)
    PROVE  MarksKept(m, scope, {n}) /\ Mem(n)' = s
<1>1. /\ \A q \in Nodes : Saved(q)' = Saved(q)
      /\ \A q \in Nodes \ {n} : Mem(q)' = Mem(q)
      /\ Mem(n)' = s
    BY WritesOk
<1>2. \A q \in Nodes : \A i \in DOMAIN log'[q] :
         scope \in log'[q][i].gone => m \in log'[q][i].ops
    <2> SUFFICES ASSUME NEW q \in Nodes, NEW i \in DOMAIN log'[q]
                 PROVE  scope \in log'[q][i].gone => m \in log'[q][i].ops
        OBVIOUS
    <2>1. CASE i \in DOMAIN log[q] /\ log'[q][i] = log[q][i]  BY <2>1 DEF GoneMarked
    <2>2. CASE log'[q][i] = s  BY <2>2
    <2> QED  BY <2>1, <2>2, WrittenEntries
<1>3. GoneMarked(m, scope)'  BY <1>2 DEF GoneMarked
<1> QED  BY <1>1, <1>3 DEF MarksKept

\* A tombstone in memory carries its mark.
LEMMA MemMarked ==
    ASSUME LogsOk, NEW m, NEW scope, GoneMarked(m, scope), NEW n \in Nodes
    PROVE  scope \in Mem(n).gone => m \in Mem(n).ops
<1>1. IsLog(log[n])  BY DEF LogsOk
<1>2. /\ Last(log[n]) = log[n][Len(log[n])] /\ Len(log[n]) \in Nat
      /\ DOMAIN log[n] = 1..Len(log[n])
    BY <1>1, LogEnds
<1>3. Len(log[n]) \in DOMAIN log[n]  BY <1>1, <1>2 DEF IsLog
<1> QED  BY <1>2, <1>3 DEF GoneMarked, Mem

\* A write that neither sets the tombstone nor the mark.
LEMMA OtherWriteMarks ==
    ASSUME LogsOk, NEW m, NEW scope, GoneMarked(m, scope),
           NEW n \in Nodes, NEW s, DOMAIN s = StateFields, Mem(n).ops \subseteq s.ops,
           s.gone \subseteq Mem(n).gone,
           m \in s.ops => m \in Mem(n).ops,
           Writes(n, s)
    PROVE  MarksKept(m, scope, {})
<1>1. scope \in s.gone => m \in s.ops  BY MemMarked
<1>2. MarksKept(m, scope, {n}) /\ Mem(n)' = s  BY <1>1, WriteMarks
<1>3. m \in Mem(n).ops' => m \in Mem(n).ops
    <2>1. Mem(n).ops' = s.ops  BY <1>2 DEF Mem
    <2> QED  BY <2>1
<1> QED  BY <1>2, <1>3 DEF MarksKept

LEMMA SaveMarks ==
    ASSUME LogsOk, NEW m, NEW scope, GoneMarked(m, scope),
           NEW n \in Nodes, NEW i \in DOMAIN log[n],
           log' = [log EXCEPT ![n] = SubSeq(log[n], i, Len(log[n]))]
    PROVE  MarksKept(m, scope, {})
<1>1. /\ log'[n] = SubSeq(log[n], i, Len(log[n]))
      /\ \A q \in Nodes \ {n} : log'[q] = log[q]
    BY DEF LogsOk
<1>2. IsLog(log[n])  BY DEF LogsOk
<1>3. /\ Head(log'[n]) = log[n][i] /\ Last(log'[n]) = Last(log[n])
      /\ Head(log[n]).ops \subseteq log[n][i].ops
    <2> DEFINE l == SubSeq(log[n], i, Len(log[n]))
    <2>1. Head(l) = log[n][i] /\ Last(l) = Last(log[n]) /\ Head(log[n]).ops \subseteq log[n][i].ops
        BY <1>2, SaveLog
    <2>2. log'[n] = l  BY <1>1
    <2> HIDE DEF l
    <2> QED  BY <2>1, <2>2
<1>4. ASSUME NEW q \in Nodes, NEW h \in DOMAIN log'[q]
      PROVE  \E g \in DOMAIN log[q] : log'[q][h] = log[q][g]
    <2>1. CASE q # n  BY <1>1, <2>1
    <2>2. CASE q = n
        <3>1. PICK S : log[n] \in Seq(S)  BY <1>2 DEF IsLog
        <3>2. Len(log[n]) \in Nat /\ i \in 1..Len(log[n]) /\ DOMAIN log[n] = 1..Len(log[n])
            BY <3>1
        <3> DEFINE l == SubSeq(log[n], i, Len(log[n]))
        <3>3. DOMAIN l = 1..(Len(log[n]) - i + 1)
              /\ \A g \in 1..(Len(log[n]) - i + 1) : l[g] = log[n][i + g - 1]
            BY <3>1, <3>2
        <3>4. log'[q] = l  BY <1>1, <2>2
        <3> HIDE DEF l
        <3>5. h \in 1..(Len(log[n]) - i + 1)  BY <3>3, <3>4
        <3>6. l[h] = log[n][i + h - 1]  BY <3>3, <3>5
        <3>7. i + h - 1 \in 1..Len(log[n])  BY <3>2, <3>5
        <3> QED  BY <2>2, <3>2, <3>4, <3>6, <3>7
    <2> QED  BY <2>1, <2>2
<1>5. \A q \in Nodes : \A h \in DOMAIN log'[q] :
         scope \in log'[q][h].gone => m \in log'[q][h].ops
    BY <1>4 DEF GoneMarked
<1>6. GoneMarked(m, scope)'  BY <1>5 DEF GoneMarked
<1>7. \A q \in Nodes : Head(log[q]).ops \subseteq Head(log'[q]).ops /\ Last(log'[q]) = Last(log[q])
    BY <1>1, <1>3
<1>8. /\ \A q \in Nodes : Saved(q) \subseteq Saved(q)'
      /\ \A q \in Nodes : m \in Mem(q).ops' => m \in Mem(q).ops
    BY <1>7 DEF Saved, Durable, Mem
<1> QED  BY <1>6, <1>8 DEF MarksKept

LEMMA RestartMarks ==
    ASSUME LogsOk, NEW m, NEW scope, GoneMarked(m, scope), NEW n \in Nodes,
           log' = [log EXCEPT ![n] = <<Durable(n)>>]
    PROVE  MarksKept(m, scope, {})
<1>1. log'[n] = <<Head(log[n])>> /\ \A q \in Nodes \ {n} : log'[q] = log[q]
    BY DEF LogsOk, Durable
<1>2. \A q \in Nodes : IsLog(log[q])  BY DEF LogsOk
<1>3. \A q \in Nodes : Head(log[q]) = log[q][1] /\ 1 \in DOMAIN log[q]
                       /\ Head(log[q]).ops \subseteq Last(log[q]).ops
    <2> SUFFICES ASSUME NEW q \in Nodes
                 PROVE  Head(log[q]) = log[q][1] /\ 1 \in DOMAIN log[q]
                        /\ Head(log[q]).ops \subseteq Last(log[q]).ops
        OBVIOUS
    <2>1. /\ Head(log[q]) = log[q][1] /\ Head(log[q]).ops \subseteq Last(log[q]).ops
          /\ Len(log[q]) \in Nat /\ DOMAIN log[q] = 1..Len(log[q])
        BY <1>2, LogEnds
    <2>2. Len(log[q]) >= 1  BY <1>2 DEF IsLog
    <2> QED  BY <2>1, <2>2
<1>4. ASSUME NEW q \in Nodes, NEW h \in DOMAIN log'[q]
      PROVE  \E g \in DOMAIN log[q] : log'[q][h] = log[q][g]
    <2>1. CASE q # n  BY <1>1, <2>1
    <2>2. CASE q = n
        <3>1. h = 1 /\ log'[q][h] = Head(log[q])  BY <1>1, <2>2
        <3> QED  BY <1>3, <2>2, <3>1
    <2> QED  BY <2>1, <2>2
<1>5. \A q \in Nodes : \A h \in DOMAIN log'[q] :
         scope \in log'[q][h].gone => m \in log'[q][h].ops
    BY <1>4 DEF GoneMarked
<1>6. GoneMarked(m, scope)'  BY <1>5 DEF GoneMarked
<1>7. \A q \in Nodes : Head(log'[q]) = Head(log[q]) /\ Last(log'[q]).ops \subseteq Last(log[q]).ops
    <2>1. /\ Head(log'[n]) = Head(log[n]) /\ Last(log'[n]) = Head(log[n])
        BY <1>1, <1>2, ResetLog
    <2> QED  BY <1>1, <1>3, <2>1
<1>8. /\ \A q \in Nodes : Saved(q) \subseteq Saved(q)'
      /\ \A q \in Nodes : m \in Mem(q).ops' => m \in Mem(q).ops
    BY <1>7 DEF Saved, Durable, Mem
<1> QED  BY <1>6, <1>8 DEF MarksKept


\* A handler that its node's restart has stopped.
Stopped(j, old) == j.pc = "done" /\ j.status = 0 /\ j.fail = old.fail /\ j.at = old.at

LEMMA ZeroFails == ~Ok(0)
BY DEF Ok

\* A step with which no handler of the drop goes on.
LEMMA DropKept ==
    ASSUME NEW r, NEW scope, Dropping(r, scope),
           RootKey(r) \in DOMAIN jobs', MarksKept(<<r, scope>>, scope, {}),
           \A q \in DOMAIN jobs' : q[1] = r =>
               q \in DOMAIN jobs /\ (jobs'[q] = jobs[q] \/ Stopped(jobs'[q], jobs[q])),
           \A q \in DOMAIN jobs' : q[1] = r => jobs'[q].at \in Nodes
    PROVE  Dropping(r, scope)'
<1> DEFINE m == <<r, scope>>
<1> HIDE DEF m
<1>1. /\ GoneMarked(m, scope) /\ EachDropJob(r, m) /\ OneDropJob(r)
      /\ OthersUntouched(r, m) /\ AckedIsSaved(r, m) /\ MarksKept(m, scope, {})
    BY DEF m, Dropping
<1>2. /\ \A n \in Nodes : Saved(n) \subseteq Head(log'[n]).ops
      /\ \A n \in Nodes : m \in Last(log'[n]).ops => m \in Mem(n).ops
    BY <1>1 DEF MarksKept, Saved, Durable, Mem
<1>3. EachDropJob(r, m)'
    <2> SUFFICES ASSUME NEW q \in DOMAIN jobs', q[1] = r
                 PROVE  /\ DropJob(m, q, jobs'[q])
                        /\ jobs'[q].pc \in {"new", "body"} => m \notin Last(log'[jobs'[q].at]).ops
                        /\ jobs'[q].pc = "fanned" =>
                              \A n \in Nodes \ {jobs'[q].at} :
                                 Ok(jobs'[q].fan[n]) => m \in Head(log'[n]).ops
        BY DEF EachDropJob, FanSaved, Mem, Saved, Durable, DropJob
    <2>1. /\ q \in DOMAIN jobs /\ DropJob(m, q, jobs[q])
          /\ jobs[q].pc \in {"new", "body"} => m \notin Mem(jobs[q].at).ops
          /\ jobs[q].pc = "fanned" => FanSaved(m, jobs[q])
        BY <1>1 DEF EachDropJob
    <2>2. CASE jobs'[q] = jobs[q]  BY <1>2, <2>1, <2>2 DEF FanSaved
    <2>3. CASE Stopped(jobs'[q], jobs[q])
        BY <2>1, <2>3, ZeroFails DEF Stopped, DropJob
    <2> QED  BY <2>2, <2>3
<1>4. OneDropJob(r)'
    <2>1. \A q \in DOMAIN jobs' : q[1] = r => q \in DOMAIN jobs /\ jobs'[q].at = jobs[q].at
        BY DEF Stopped
    <2> QED  BY <1>1, <2>1 DEF OneDropJob
<1>5. RootKey(r)[1] = r  BY RootKeys
<1>6. RootKey(r) \in DOMAIN jobs
      /\ (jobs'[RootKey(r)] = jobs[RootKey(r)] \/ Stopped(jobs'[RootKey(r)], jobs[RootKey(r)]))
    BY <1>5
<1>7. OthersUntouched(r, m)'
    <2>1. CASE jobs'[RootKey(r)] = jobs[RootKey(r)]
        BY <1>1, <1>2, <2>1 DEF OthersUntouched, RootKey, Mem
    <2>2. CASE Stopped(jobs'[RootKey(r)], jobs[RootKey(r)])
        BY <2>2 DEF OthersUntouched, Stopped, BeforeFan, RootKey
    <2> QED  BY <1>6, <2>1, <2>2
<1>8. AckedIsSaved(r, m)'
    <2>1. CASE jobs'[RootKey(r)] = jobs[RootKey(r)]
        BY <1>1, <1>2, <2>1 DEF AckedIsSaved, RootKey, Saved, Durable
    <2>2. CASE Stopped(jobs'[RootKey(r)], jobs[RootKey(r)])
        BY <2>2, ZeroFails DEF AckedIsSaved, Stopped, RootKey
    <2> QED  BY <1>6, <2>1, <2>2
<1>9. GoneMarked(m, scope)'  BY <1>1 DEF MarksKept
<1> QED  BY <1>3, <1>4, <1>7, <1>8, <1>9 DEF m, Dropping

\* A handler k of the drop goes on to j.
LEMMA DropMoves ==
    ASSUME Inv, NEW r \in Requests, NEW scope, Dropping(r, scope),
           NEW k \in DOMAIN jobs, k[1] = r, NEW j, Becomes(k, j), j.at = jobs[k].at,
           MarksKept(<<r, scope>>, scope, {jobs[k].at}),
           DropJob(<<r, scope>>, k, j),
           j.pc \in {"new", "body"} => MarksKept(<<r, scope>>, scope, {}) /\ jobs[k].pc \in {"new", "body"},
           j.pc = "fanned" => FanSaved(<<r, scope>>, j),
           j.pc \in BeforeFan => jobs[k].pc \in BeforeFan,
           Ok(j.status) /\ ~IsForwarded(k) => \A n \in Nodes : <<r, scope>> \in Saved(n)
    PROVE  Dropping(r, scope)'
<1> DEFINE m == <<r, scope>>
<1> HIDE DEF m
<1>1. /\ GoneMarked(m, scope) /\ EachDropJob(r, m) /\ OneDropJob(r)
      /\ OthersUntouched(r, m) /\ AckedIsSaved(r, m)
      /\ MarksKept(m, scope, {jobs[k].at}) /\ DropJob(m, k, j)
      /\ j.pc \in {"new", "body"} => MarksKept(m, scope, {}) /\ jobs[k].pc \in {"new", "body"}
      /\ j.pc = "fanned" => FanSaved(m, j)
      /\ Ok(j.status) /\ ~IsForwarded(k) => \A n \in Nodes : m \in Saved(n)
    BY DEF m, Dropping
<1>2. /\ \A n \in Nodes : Saved(n) \subseteq Head(log'[n]).ops
      /\ \A n \in Nodes \ {jobs[k].at} : m \in Last(log'[n]).ops => m \in Mem(n).ops
    BY <1>1 DEF MarksKept, Saved, Durable, Mem
<1>3. /\ DOMAIN jobs' \subseteq DOMAIN jobs
      /\ \A q \in DOMAIN jobs' : jobs'[q] = IF q = k THEN j ELSE jobs[q]
      /\ RootKey(r) \in DOMAIN jobs /\ RootKey(r) \in DOMAIN jobs'
    BY BecomesFacts, RootKeys DEF Inv, KeysOk
<1>4. \A q \in DOMAIN jobs : jobs[q].at \in Nodes  BY JobFacts
<1>5. EachDropJob(r, m)'
    <2> SUFFICES ASSUME NEW q \in DOMAIN jobs', q[1] = r
                 PROVE  /\ DropJob(m, q, jobs'[q])
                        /\ jobs'[q].pc \in {"new", "body"} => m \notin Last(log'[jobs'[q].at]).ops
                        /\ jobs'[q].pc = "fanned" =>
                              \A n \in Nodes \ {jobs'[q].at} :
                                 Ok(jobs'[q].fan[n]) => m \in Head(log'[n]).ops
        BY DEF EachDropJob, FanSaved, Mem, Saved, Durable, DropJob
    <2>1. /\ q \in DOMAIN jobs /\ DropJob(m, q, jobs[q])
          /\ jobs[q].pc \in {"new", "body"} => m \notin Mem(jobs[q].at).ops
          /\ jobs[q].pc = "fanned" => FanSaved(m, jobs[q])
        BY <1>1, <1>3 DEF EachDropJob
    <2>2. CASE q # k
        <3>1. jobs'[q] = jobs[q] /\ jobs[q].at # jobs[k].at /\ jobs[q].at \in Nodes
            BY <1>1, <1>3, <1>4, <2>1, <2>2 DEF OneDropJob
        <3> QED  BY <1>2, <2>1, <3>1 DEF FanSaved
    <2>3. CASE q = k
        <3>1. jobs'[q] = j  BY <1>3, <2>3
        <3>2. DropJob(m, q, jobs'[q])  BY <1>1, <2>3, <3>1
        <3>3. j.pc \in {"new", "body"} => m \notin Last(log'[j.at]).ops
            <4> SUFFICES ASSUME j.pc \in {"new", "body"} PROVE m \notin Last(log'[j.at]).ops
                OBVIOUS
            <4>1. m \notin Mem(j.at).ops /\ j.at \in Nodes  BY <1>1, <1>4, <2>1, <2>3
            <4>2. \A n \in Nodes : m \in Last(log'[n]).ops => m \in Mem(n).ops
                BY <1>1 DEF MarksKept, Mem
            <4> QED  BY <4>1, <4>2
        <3>4. j.pc = "fanned" => \A n \in Nodes \ {j.at} : Ok(j.fan[n]) => m \in Head(log'[n]).ops
            BY <1>1, <1>2 DEF FanSaved
        <3> QED  BY <3>1, <3>2, <3>3, <3>4
    <2> QED  BY <2>2, <2>3
<1>6. OneDropJob(r)'
    <2>1. \A q \in DOMAIN jobs' : q \in DOMAIN jobs /\ jobs'[q].at = jobs[q].at  BY <1>3
    <2> QED  BY <1>1, <2>1 DEF OneDropJob
<1>7. OthersUntouched(r, m)'
    <2> SUFFICES ASSUME jobs'[RootKey(r)].pc \in BeforeFan
                 PROVE  /\ \A q \in DOMAIN jobs' : q[1] = r => q = RootKey(r)
                        /\ \A n \in Nodes \ {jobs'[RootKey(r)].at} : m \notin Last(log'[n]).ops
        BY DEF OthersUntouched, RootKey, Mem
    <2>1. jobs[RootKey(r)].pc \in BeforeFan /\ jobs'[RootKey(r)].at = jobs[RootKey(r)].at
        BY <1>3
    <2>2. /\ \A q \in DOMAIN jobs : q[1] = r => q = RootKey(r)
          /\ \A n \in Nodes \ {jobs[RootKey(r)].at} : m \notin Mem(n).ops
        BY <1>1, <2>1 DEF OthersUntouched
    <2>3. k = RootKey(r)  BY <2>2
    <2>4. \A q \in DOMAIN jobs' : q[1] = r => q = RootKey(r)  BY <1>3, <2>2
    <2> QED  BY <1>2, <2>1, <2>2, <2>3, <2>4
<1>8. AckedIsSaved(r, m)'
    <2> SUFFICES ASSUME Ok(jobs'[RootKey(r)].status), NEW n \in Nodes
                 PROVE  m \in Head(log'[n]).ops
        BY DEF AckedIsSaved, RootKey, Saved, Durable
    <2>1. CASE k = RootKey(r)
        <3>1. jobs'[RootKey(r)] = j /\ ~IsForwarded(k)  BY <1>3, <2>1, RootKeys
        <3>2. m \in Saved(n)  BY <1>1, <3>1
        <3> QED  BY <1>2, <3>2
    <2>2. CASE k # RootKey(r)
        <3>1. m \in Saved(n)  BY <1>1, <1>3, <2>2 DEF AckedIsSaved
        <3> QED  BY <1>2, <3>1
    <2> QED  BY <2>1, <2>2
<1>9. GoneMarked(m, scope)'  BY <1>1 DEF MarksKept
<1> QED  BY <1>5, <1>6, <1>7, <1>8, <1>9 DEF m, Dropping


----------------------------------------------------------------------------
\* The steps of the handlers of the drop.

Dropper(r, scope, k) ==
    /\ k \in DOMAIN jobs /\ k[1] = r /\ r \in Requests
    /\ jobs[k].op \in Drops /\ scope = ScopeOf(jobs[k].op)
    /\ Dropping(r, scope)

LEMMA DropFacts ==
    ASSUME Inv, NEW r, NEW scope, NEW k, Dropper(r, scope, k)
    PROVE  /\ k \in DOMAIN jobs /\ k[1] = r /\ r \in Requests /\ Dropping(r, scope)
           /\ DropJob(<<r, scope>>, k, jobs[k])
           /\ jobs[k].pc \in {"new", "body"} => <<r, scope>> \notin Mem(jobs[k].at).ops
           /\ jobs[k].pc = "fanned" => FanSaved(<<r, scope>>, jobs[k])
           /\ GoneMarked(<<r, scope>>, scope) /\ LogsOk
           /\ jobs[k].at \in Nodes /\ DOMAIN jobs[k] = JobFields
           /\ jobs[k].op \in Drops
<1>1. jobs[k].at \in Nodes /\ DOMAIN jobs[k] = JobFields
    BY JobFacts DEF Carries, Dropper
<1> QED  BY <1>1 DEF Dropper, Dropping, EachDropJob, Inv

LEMMA FewerMarks ==
    ASSUME NEW m, NEW scope, NEW N, MarksKept(m, scope, {})
    PROVE  MarksKept(m, scope, N)
BY DEF MarksKept

\* A handler of the drop goes on while its node writes nothing.
LEMMA DropMovesQuietly ==
    ASSUME Inv, NEW r, NEW scope, NEW k, Dropper(r, scope, k), UNCHANGED log,
           NEW j, Becomes(k, j), j.at = jobs[k].at,
           DropJob(<<r, scope>>, k, j),
           j.pc \in {"new", "body"} => jobs[k].pc \in {"new", "body"},
           j.pc = "fanned" => FanSaved(<<r, scope>>, j),
           j.pc \in BeforeFan => jobs[k].pc \in BeforeFan,
           Ok(j.status) /\ ~IsForwarded(k) => \A n \in Nodes : <<r, scope>> \in Saved(n)
    PROVE  Dropping(r, scope)'
<1>1. /\ k \in DOMAIN jobs /\ k[1] = r /\ r \in Requests /\ Dropping(r, scope)
      /\ GoneMarked(<<r, scope>>, scope) /\ LogsOk
    BY DropFacts
<1>2. MarksKept(<<r, scope>>, scope, {})  BY <1>1, SameMarks
<1>3. MarksKept(<<r, scope>>, scope, {jobs[k].at})  BY <1>2, FewerMarks
<1> QED  BY <1>1, <1>2, <1>3, DropMoves

LEMMA DropFails ==
    ASSUME Inv, NEW r, NEW scope, NEW k, Dropper(r, scope, k), UNCHANGED log,
           NEW j, Becomes(k, j), j.at = jobs[k].at, j.fail = jobs[k].fail,
           j.pc = "done", ~Ok(j.status)
    PROVE  Dropping(r, scope)'
<1>1. DropJob(<<r, scope>>, k, jobs[k])  BY DropFacts
<1>2. DropJob(<<r, scope>>, k, j)  BY <1>1 DEF DropJob
<1>3. j.pc \notin {"new", "body"} /\ j.pc # "fanned" /\ j.pc \notin BeforeFan
    BY DEF BeforeFan
<1> QED  BY <1>2, <1>3, DropMovesQuietly

LEMMA ErrorsFail == ~Ok(401) /\ ~Ok(404) /\ ~Ok(500) /\ Ok(200)
BY DEF Ok

LEMMA DropReceive ==
    ASSUME Inv, NEW r, NEW scope, NEW k, Dropper(r, scope, k), Receive(k)
    PROVE  Dropping(r, scope)'
<1> DEFINE j == jobs[k]
           a == [j EXCEPT !.pc = "body", !.started = TRUE, !.known = {id \in Ids : Acknowledged(id)}]
           b == Answered(j, 401)
<1>1. /\ j.pc = "new" /\ log' = log /\ (Becomes(k, a) \/ Becomes(k, b))
    BY DEF Receive, At
<1>2. DropJob(<<r, scope>>, k, j) /\ DOMAIN j = JobFields  BY DropFacts
<1>3. CASE Becomes(k, a)
    <2>1. /\ a.pc = "body" /\ a.at = j.at /\ a.fail = j.fail /\ a.status = j.status
          /\ a.unsaved = j.unsaved /\ a.did = j.did
        BY <1>2 DEF JobFields
    <2> HIDE DEF a
    <2>2. DropJob(<<r, scope>>, k, a) /\ ~Ok(a.status)
        BY <1>1, <1>2, <2>1, ZeroFails DEF DropJob
    <2>3. a.pc # "fanned" /\ jobs[k].pc \in BeforeFan /\ jobs[k].pc \in {"new", "body"}
        BY <1>1, <2>1 DEF BeforeFan
    <2> HIDE DEF j
    <2> QED  BY <1>1, <1>3, <2>1, <2>2, <2>3, DropMovesQuietly DEF j
<1>4. CASE Becomes(k, b)
    <2>1. b.pc = "done" /\ b.at = j.at /\ b.fail = j.fail /\ b.status = 401
        BY <1>2 DEF JobFields, Answered
    <2> HIDE DEF b
    <2> QED  BY <1>1, <1>4, <2>1, ErrorsFail, DropFails
<1> QED  BY <1>1, <1>3, <1>4

LEMMA DropSaveFails ==
    ASSUME Inv, NEW r, NEW scope, NEW k, Dropper(r, scope, k), SaveFails(k)
    PROVE  Dropping(r, scope)'
<1> DEFINE b == [Answered(jobs[k], 500) EXCEPT !.unsaved = TRUE]
<1>1. log' = log /\ Becomes(k, b)  BY DEF SaveFails
<1>2. DOMAIN jobs[k] = JobFields  BY DropFacts
<1>3. b.pc = "done" /\ b.at = jobs[k].at /\ b.fail = jobs[k].fail /\ b.status = 500
    BY <1>2 DEF JobFields, Answered
<1> HIDE DEF b
<1> QED  BY <1>1, <1>3, ErrorsFail, DropFails

LEMMA DropScopes ==
    /\ Drops \subseteq ScopeOps /\ Drops \cap ObjectOps = {} /\ Reads \subseteq ObjectOps
    /\ Drops \cap {"createDb", "createColl"} = {}
BY DEF Drops, ScopeOps, ObjectOps, Reads

LEMMA DropUnlink ==
    ASSUME Inv, NEW r, NEW scope, NEW k, Dropper(r, scope, k), Unlink(k)
    PROVE  Dropping(r, scope)'
<1> DEFINE j == jobs[k]
           a == [j EXCEPT !.pc = "fan"]
<1>1. DropJob(<<r, scope>>, k, j) /\ DOMAIN j = JobFields /\ j.op \in ScopeOps
    BY DropFacts, DropScopes
<1>2. j.pc = "unlink" /\ log' = log /\ Becomes(k, a)
    BY <1>1 DEF Unlink, At
<1>3. /\ a.pc = "fan" /\ a.at = j.at /\ a.fail = j.fail /\ a.status = j.status
      /\ a.unsaved = j.unsaved /\ a.did = j.did
    BY <1>1 DEF JobFields
<1> HIDE DEF a
<1>4. DropJob(<<r, scope>>, k, a) /\ ~Ok(a.status)
    BY <1>1, <1>2, <1>3, ZeroFails DEF DropJob
<1>5. a.pc # "fanned" /\ a.pc \notin {"new", "body"} /\ jobs[k].pc \in BeforeFan
    BY <1>2, <1>3 DEF BeforeFan
<1> HIDE DEF j
<1> QED  BY <1>2, <1>3, <1>4, <1>5, DropMovesQuietly DEF j

\* The tombstone is set together with the mark; a tombstone found there was set by
\* this drop, which has not been at the node before.
LEMMA DropBegin ==
    ASSUME Inv, NEW r, NEW scope, NEW k, Dropper(r, scope, k), BeginDrop(k)
    PROVE  Dropping(r, scope)'
<1> DEFINE j == jobs[k]
           n == j.at
           s == Mem(n)
           m == <<r, scope>>
           existed == scope \in s.live
           w == [Dropped(s, scope) EXCEPT !.ops = @ \cup {m}]
           b == [j EXCEPT !.pc = "save", !.wrote = {m}, !.did = {m}, !.existed = existed]
           c == Answered(j, 404)
<1>1. /\ k \in DOMAIN jobs /\ k[1] = r /\ r \in Requests /\ Dropping(r, scope)
      /\ DropJob(m, k, j) /\ (j.pc \in {"new", "body"} => m \notin s.ops)
      /\ GoneMarked(m, scope) /\ LogsOk
      /\ n \in Nodes /\ DOMAIN j = JobFields /\ scope = ScopeOf(j.op)
    BY DropFacts DEF Dropper
<1>2. j.pc = "body"  BY DEF BeginDrop, At
<1>3. scope \notin s.gone  BY <1>1, <1>2, MemMarked
<1>4. \/ Becomes(k, c) /\ log' = log
      \/ Becomes(k, b) /\ Writes(n, w)
    BY <1>1, <1>3 DEF BeginDrop
<1>5. DOMAIN s = StateFields  BY <1>1, LogEnds DEF LogsOk, Mem
<1>6. CASE Becomes(k, c) /\ log' = log
    <2>1. c.pc = "done" /\ c.at = j.at /\ c.fail = j.fail /\ c.status = 404
        BY <1>1 DEF JobFields, Answered
    <2> HIDE DEF c
    <2> QED  BY <1>6, <2>1, ErrorsFail, DropFails
<1>7. CASE Becomes(k, b) /\ Writes(n, w)
    <2>1. DOMAIN w = StateFields /\ w.ops = s.ops \cup {m}
        BY <1>5 DEF Dropped, StateFields
    <2>2. /\ b.pc = "save" /\ b.at = j.at /\ b.fail = j.fail /\ b.status = j.status
          /\ b.unsaved = j.unsaved /\ b.did = {m}
        BY <1>1 DEF JobFields
    <2> HIDE DEF w, b, m, n
    <2>3. MarksKept(m, scope, {n})
        <3>1. Mem(n).ops \subseteq w.ops /\ (scope \in w.gone => m \in w.ops)  BY <2>1
        <3> QED  BY <1>1, <1>7, <2>1, <3>1, WriteMarks
    <2>4. DropJob(m, k, b) /\ ~Ok(b.status)
        BY <1>1, <1>2, <2>2, ZeroFails DEF DropJob
    <2>5. b.pc # "fanned" /\ b.pc \notin {"new", "body"} /\ jobs[k].pc \in BeforeFan
        BY <1>2, <2>2 DEF BeforeFan
    <2> HIDE DEF j
    <2> QED  BY <1>1, <1>7, <2>2, <2>3, <2>4, <2>5, DropMoves DEF j, m, n
<1> QED  BY <1>4, <1>6, <1>7


LEMMA DropSave ==
    ASSUME Inv, NEW r, NEW scope, NEW k, Dropper(r, scope, k), Save(k)
    PROVE  Dropping(r, scope)'
<1> DEFINE j == jobs[k]
           n == j.at
           m == <<r, scope>>
           a == AfterSave(k, j)
<1>1. /\ k \in DOMAIN jobs /\ k[1] = r /\ r \in Requests /\ Dropping(r, scope)
      /\ DropJob(m, k, j) /\ GoneMarked(m, scope) /\ LogsOk
      /\ n \in Nodes /\ DOMAIN j = JobFields /\ j.op \in ScopeOps
    BY DropFacts, DropScopes
<1>2. j.pc = "save" /\ Becomes(k, a)  BY DEF Save, At
<1>3. PICK i \in DOMAIN log[n] : log' = [log EXCEPT ![n] = SubSeq(log[n], i, Len(log[n]))]
    BY DEF Save
<1>4. /\ a.pc \in {"unlink", "fan"} /\ a.at = j.at /\ a.fail = j.fail /\ a.status = j.status
      /\ a.unsaved = j.unsaved /\ a.did = j.did
    <2>1. a = [j EXCEPT !.pc = IF j.existed THEN "unlink" ELSE "fan"]
        BY <1>1 DEF AfterSave, DropJob
    <2> HIDE DEF a
    <2> QED  BY <1>1, <2>1 DEF JobFields
<1> HIDE DEF a, n, m
<1>5. MarksKept(m, scope, {})  BY <1>1, <1>3, SaveMarks
<1>6. MarksKept(m, scope, {n})  BY <1>5, FewerMarks
<1>7. DropJob(m, k, a) /\ ~Ok(a.status)
    BY <1>1, <1>2, <1>4, ZeroFails DEF DropJob
<1>8. a.pc # "fanned" /\ a.pc \notin {"new", "body"} /\ jobs[k].pc \in BeforeFan
    BY <1>2, <1>4 DEF BeforeFan
<1> HIDE DEF j
<1> QED  BY <1>1, <1>2, <1>4, <1>6, <1>7, <1>8, DropMoves DEF j, m, n

\* A node that was called answers: its part of the drop is saved.
LEMMA DropForwarded ==
    ASSUME Inv, NEW r, NEW scope, NEW k, Dropper(r, scope, k), FanOut(k), IsForwarded(k)
    PROVE  Dropping(r, scope)'
<1> DEFINE j == jobs[k]
           a == Answered(j, 200)
<1>1. DropJob(<<r, scope>>, k, j) /\ DOMAIN j = JobFields  BY DropFacts
<1>2. j.pc = "fan" /\ log' = log /\ Becomes(k, a)  BY DEF FanOut, At
<1>3. /\ a.pc = "done" /\ a.at = j.at /\ a.fail = j.fail /\ a.unsaved = j.unsaved
      /\ a.did = j.did
    BY <1>1 DEF JobFields, Answered
<1> HIDE DEF a
<1>4. DropJob(<<r, scope>>, k, a)  BY <1>1, <1>2, <1>3 DEF DropJob
<1>5. a.pc # "fanned" /\ a.pc \notin {"new", "body"} /\ a.pc \notin BeforeFan
    BY <1>3 DEF BeforeFan
<1> HIDE DEF j
<1> QED  BY <1>2, <1>3, <1>4, <1>5, DropMovesQuietly DEF j

LEMMA DropFanReturn ==
    ASSUME Inv, NEW r, NEW scope, NEW k, Dropper(r, scope, k), FanReturn(k)
    PROVE  Dropping(r, scope)'
<1> DEFINE j == jobs[k]
           m == <<r, scope>>
<1> HIDE DEF m
<1>1. /\ k \in DOMAIN jobs /\ k[1] = r /\ Dropping(r, scope)
      /\ DropJob(m, k, j) /\ DOMAIN j = JobFields
      /\ j.pc = "fanned" => FanSaved(m, j)
    BY DropFacts DEF m
<1>2. j.pc = "fanned" /\ log' = log  BY DEF FanReturn, At
<1>3. PICK n, answer :
         /\ n \in DOMAIN j.fan
         /\ Becomes(k, [j EXCEPT !.fan[n] = answer])
         /\ \/ At(ChildKey(k, n), "done") /\ answer = jobs[ChildKey(k, n)].status
            \/ answer = Unavailable
    BY DEF FanReturn
<1>4. Ok(answer) => m \in Saved(n)
    <2> SUFFICES ASSUME Ok(answer) PROVE m \in Saved(n)  OBVIOUS
    <2> DEFINE c == ChildKey(k, n)
    <2>1. answer # Unavailable  BY DEF Ok, Unavailable
    <2>2. c \in DOMAIN jobs /\ jobs[c].pc = "done" /\ answer = jobs[c].status
        BY <1>3, <2>1 DEF At
    <2>3. c[1] = r /\ c[2] = n  BY <1>1 DEF ChildKey
    <2>4. n \in Nodes /\ IsForwarded(c)
        <3>1. n \in Nodes  BY <1>1, <1>2, <1>3 DEF DropJob
        <3> QED  BY <2>3, <3>1, RootKeys DEF IsForwarded
    <2> HIDE DEF c
    <2>5. DropJob(m, c, jobs[c])  BY <1>1, <2>2, <2>3 DEF Dropping, EachDropJob, m
    <2>6. m \in jobs[c].did /\ ~jobs[c].unsaved /\ jobs[c].at = n /\ jobs[c].status # 0
        BY <2>2, <2>3, <2>4, <2>5, ZeroFails DEF DropJob
    <2>7. Placed(jobs[c], Saved(jobs[c].at))  BY <2>2, JobFacts
    <2> QED  BY <2>2, <2>6, <2>7 DEF Placed
<1> DEFINE a == [j EXCEPT !.fan[n] = answer]
<1>5. /\ a.pc = j.pc /\ a.at = j.at /\ a.fail = j.fail /\ a.status = j.status
      /\ a.unsaved = j.unsaved /\ a.did = j.did
      /\ a.fan = [j.fan EXCEPT ![n] = answer]
    BY <1>1 DEF JobFields
<1>6. Becomes(k, a)  BY <1>3
<1> HIDE DEF a
<1>7. DropJob(m, k, a) /\ ~Ok(a.status)
    BY <1>1, <1>2, <1>5, ZeroFails DEF DropJob
<1>8. FanSaved(m, a)
    <2> SUFFICES ASSUME NEW q \in Nodes \ {j.at}, Ok(a.fan[q]) PROVE m \in Saved(q)
        BY <1>5 DEF FanSaved
    <2>1. q \in DOMAIN j.fan  BY <1>1, <1>2 DEF DropJob
    <2>2. CASE q = n  BY <1>4, <1>5, <2>1, <2>2
    <2>3. CASE q # n
        <3>1. Ok(j.fan[q])  BY <1>5, <2>1, <2>3
        <3> QED  BY <1>1, <1>2, <3>1 DEF FanSaved
    <2> QED  BY <2>2, <2>3
<1>9. a.pc \notin {"new", "body"} /\ a.pc \notin BeforeFan
    BY <1>2, <1>5 DEF BeforeFan
<1> HIDE DEF j
<1> QED  BY <1>2, <1>5, <1>6, <1>7, <1>8, <1>9, DropMovesQuietly DEF j, m

\* The drop is acknowledged only when every other node has answered with success.
LEMMA DropFanDone ==
    ASSUME Inv, NEW r, NEW scope, NEW k, Dropper(r, scope, k), FanDone(k)
    PROVE  Dropping(r, scope)'
<1> DEFINE j == jobs[k]
           m == <<r, scope>>
           f == [j EXCEPT !.fan = <<>>]
           failed == {n \in DOMAIN j.fan : ~Ok(j.fan[n])}
           error(n) == IF j.fan[n] = Unavailable THEN 503 ELSE j.fan[n]
<1> HIDE DEF m
<1>1. /\ k \in DOMAIN jobs /\ k[1] = r
      /\ DropJob(m, k, j) /\ DOMAIN j = JobFields /\ j.op \in Drops
      /\ j.pc = "fanned" => FanSaved(m, j)
    BY DropFacts DEF m
<1>2. j.pc = "fanned" /\ log' = log  BY DEF FanDone, At
<1>3. ~AllowUnavailable(j.op)  BY <1>1, DropScopes DEF AllowUnavailable
<1>4. Becomes(k, IF failed = {} THEN Answered(f, 200)
                 ELSE LET n == CHOOSE n \in failed : TRUE IN Answered(f, error(n)))
    <2>1. failed = {n \in DOMAIN j.fan : /\ ~Ok(j.fan[n])
                                         /\ ~(AllowUnavailable(j.op) /\ j.fan[n] = Unavailable)}
        BY <1>3
    <2> QED  BY <2>1 DEF FanDone
<1>5. /\ f.pc = j.pc /\ f.at = j.at /\ f.fail = j.fail /\ f.status = j.status
      /\ f.unsaved = j.unsaved /\ f.did = j.did /\ DOMAIN f = JobFields
    BY <1>1 DEF JobFields
<1> HIDE DEF f
<1>6. \A status : LET a == Answered(f, status)
                  IN /\ a.pc = "done" /\ a.at = j.at /\ a.fail = j.fail /\ a.status = status
                     /\ a.unsaved = j.unsaved /\ a.did = j.did
    BY <1>5 DEF Answered, JobFields
<1>7. CASE failed = {}
    <2> DEFINE a == Answered(f, 200)
    <2>1. Becomes(k, a)  BY <1>4, <1>7
    <2>2. a.pc = "done" /\ a.at = j.at /\ a.fail = j.fail /\ a.status = 200
          /\ a.unsaved = j.unsaved /\ a.did = j.did
        BY <1>6
    <2> HIDE DEF a
    <2>3. DropJob(m, k, a)  BY <1>1, <1>2, <2>2 DEF DropJob
    <2>4. \A n \in Nodes : m \in Saved(n)
        <3>1. \A n \in Nodes \ {j.at} : m \in Saved(n)
            <4>1. DOMAIN j.fan = Nodes \ {j.at}  BY <1>1, <1>2 DEF DropJob
            <4>2. \A n \in Nodes \ {j.at} : Ok(j.fan[n])  BY <1>7, <4>1
            <4> QED  BY <1>1, <1>2, <4>2 DEF FanSaved
        <3>2. m \in Saved(j.at)
            <4>1. m \in j.did  BY <1>1, <1>2 DEF DropJob
            <4>2. j.did \subseteq Saved(j.at)  BY <1>1, <1>2, FanFacts
            <4> QED  BY <4>1, <4>2
        <3> QED  BY <3>1, <3>2
    <2>5. a.pc \notin {"new", "body"} /\ a.pc \notin BeforeFan /\ a.pc # "fanned"
        BY <2>2 DEF BeforeFan
    <2> HIDE DEF j
    <2> QED  BY <1>2, <2>1, <2>2, <2>3, <2>4, <2>5, DropMovesQuietly DEF j, m
<1>8. CASE failed # {}
    <2>1. PICK n \in failed : Becomes(k, Answered(f, error(n)))
        <3> DEFINE n == CHOOSE n \in failed : TRUE
        <3>1. n \in failed  BY <1>8
        <3>2. Becomes(k, Answered(f, error(n)))  BY <1>4, <1>8
        <3> HIDE DEF n
        <3> QED  BY <3>1, <3>2
    <2> DEFINE a == Answered(f, error(n))
    <2>2. a.pc = "done" /\ a.at = j.at /\ a.fail = j.fail /\ a.status = error(n)
        BY <1>6
    <2>3. ~Ok(a.status)  BY <2>1, <2>2 DEF Ok
    <2>4. Becomes(k, a)  BY <2>1
    <2> HIDE DEF a, error, failed
    <2> QED  BY <1>2, <2>2, <2>3, <2>4, DropFails
<1> QED  BY <1>7, <1>8


\* The drop is sent to all other nodes at once, which have nothing of it yet.
LEMMA DropFanOut ==
    ASSUME Inv, NEW r, NEW scope, NEW k, Dropper(r, scope, k), FanOut(k), ~IsForwarded(k)
    PROVE  Dropping(r, scope)'
<1> DEFINE j == jobs[k]
           m == <<r, scope>>
           others == Nodes \ {j.at}
<1> HIDE DEF m
<1>1. /\ k \in DOMAIN jobs /\ k[1] = r /\ r \in Requests /\ Dropping(r, scope)
      /\ DropJob(m, k, j) /\ GoneMarked(m, scope) /\ LogsOk
      /\ DOMAIN j = JobFields
    BY DropFacts DEF m
<1>2. j.pc = "fan" /\ log' = log  BY DEF FanOut, At
<1>3. PICK down \in SUBSET others :
         LET called == {ChildKey(k, n) : n \in others \ down}
         IN jobs' = [q \in DOMAIN jobs \cup called |->
                      IF q \in called THEN NewJob(k[1], q[2], <<>>)
                      ELSE IF q = k
                           THEN [j EXCEPT !.pc = "fanned",
                                          !.fan = [n \in others |-> IF n \in down THEN Unavailable ELSE 0]]
                      ELSE jobs[q]]
    BY DEF FanOut
<1> DEFINE C == {ChildKey(k, n) : n \in others \ down}
           answers == [n \in others |-> IF n \in down THEN Unavailable ELSE 0]
           a == [j EXCEPT !.pc = "fanned", !.fan = answers]
<1>4. jobs' = [q \in DOMAIN jobs \cup C |->
                 IF q \in C THEN NewJob(k[1], q[2], <<>>) ELSE IF q = k THEN a ELSE jobs[q]]
    BY <1>3
<1>5. k = RootKey(r)  BY <1>1, RootKeys DEF Inv, KeysOk, IsForwarded
<1>6. /\ \A q \in DOMAIN jobs : q[1] = r => q = k
      /\ \A n \in others : m \notin Mem(n).ops
    <2>1. OthersUntouched(r, m)  BY <1>1 DEF Dropping, m
    <2> QED  BY <1>2, <1>5, <2>1 DEF OthersUntouched, BeforeFan
<1>7. /\ \A c \in C : c[1] = r /\ c[2] \in others /\ IsForwarded(c)
      /\ \A c, d \in C : c[2] = d[2] => c = d
      /\ k \notin C
    <2>1. \A n : ChildKey(k, n)[1] = r /\ ChildKey(k, n)[2] = n  BY <1>1 DEF ChildKey
    <2>2. \A c \in C : c[1] = r /\ c[2] \in others /\ c = ChildKey(k, c[2])
        BY <2>1
    <2> HIDE DEF C
    <2>3. \A c \in C : IsForwarded(c)  BY <2>2, RootKeys DEF IsForwarded
    <2> QED  BY <2>2, <2>3
<1>8. /\ a.pc = "fanned" /\ a.at = j.at /\ a.fail = j.fail /\ a.status = j.status
      /\ a.unsaved = j.unsaved /\ a.did = j.did /\ a.fan = answers
    BY <1>1 DEF JobFields
<1>9. \A n : LET e == NewJob(r, n, <<>>)
             IN /\ e.pc = "new" /\ e.at = n /\ e.fail = 0 /\ e.status = 0 /\ e.unsaved = FALSE
    BY DEF NewJob
<1>10. DOMAIN answers = others /\ \A n \in others : ~Ok(answers[n])
    BY DEF Ok, Unavailable
<1> HIDE DEF C, a, answers
<1>11. /\ DOMAIN jobs' = DOMAIN jobs \cup C /\ jobs'[k] = a
       /\ \A c \in C : jobs'[c] = NewJob(r, c[2], <<>>)
       /\ \A q \in DOMAIN jobs' : q[1] = r => q = k \/ q \in C
    BY <1>1, <1>4, <1>6, <1>7
<1>12. /\ \A n \in Nodes : Saved(n)' = Saved(n) /\ Mem(n)' = Mem(n)
       /\ MarksKept(m, scope, {})
    BY <1>1, <1>2, SameLog, SameMarks
<1>13. \A n \in Nodes : Head(log'[n]) = Head(log[n]) /\ Last(log'[n]) = Last(log[n])
    BY <1>2
<1>14. DropJob(m, k, a)
    BY <1>1, <1>2, <1>8, <1>10, <1>7, ZeroFails DEF DropJob
<1>15. EachDropJob(r, m)'
    <2> SUFFICES ASSUME NEW q \in DOMAIN jobs', q[1] = r
                 PROVE  /\ DropJob(m, q, jobs'[q])
                        /\ jobs'[q].pc \in {"new", "body"} => m \notin Last(log'[jobs'[q].at]).ops
                        /\ jobs'[q].pc = "fanned" =>
                              \A n \in Nodes \ {jobs'[q].at} :
                                 Ok(jobs'[q].fan[n]) => m \in Head(log'[n]).ops
        BY DEF EachDropJob, FanSaved, Mem, Saved, Durable, DropJob
    <2>1. CASE q = k  BY <1>8, <1>10, <1>11, <1>14, <2>1
    <2>2. CASE q \in C
        <3> DEFINE e == NewJob(r, q[2], <<>>)
        <3>1. /\ e.pc = "new" /\ e.at = q[2] /\ e.fail = 0 /\ e.status = 0 /\ e.unsaved = FALSE
            BY <1>9
        <3>2. jobs'[q] = e /\ q[2] \in others  BY <1>7, <1>11, <2>2
        <3> HIDE DEF e
        <3>3. DropJob(m, q, e)  BY <3>1, ZeroFails DEF DropJob
        <3>4. m \notin Last(log'[e.at]).ops  BY <1>6, <1>13, <3>1, <3>2 DEF Mem
        <3> QED  BY <3>1, <3>2, <3>3, <3>4
    <2> QED  BY <1>11, <2>1, <2>2
<1>16. OneDropJob(r)'
    <2>1. \A q \in DOMAIN jobs' : q[1] = r =>
             \/ q = k /\ jobs'[q].at = j.at
             \/ q \in C /\ jobs'[q].at = q[2] /\ q[2] # j.at
        BY <1>7, <1>8, <1>9, <1>11
    <2> QED  BY <1>7, <2>1 DEF OneDropJob
<1>17. OthersUntouched(r, m)'
    <2>1. jobs'[RootKey(r)].pc \notin BeforeFan  BY <1>5, <1>8, <1>11 DEF BeforeFan
    <2> QED  BY <2>1 DEF OthersUntouched, RootKey
<1>18. AckedIsSaved(r, m)'
    <2>1. ~Ok(jobs'[RootKey(r)].status)
        BY <1>1, <1>2, <1>5, <1>8, <1>11, ZeroFails DEF DropJob
    <2> QED  BY <2>1 DEF AckedIsSaved, RootKey
<1>19. GoneMarked(m, scope)'  BY <1>12 DEF MarksKept
<1> QED  BY <1>15, <1>16, <1>17, <1>18, <1>19 DEF m, Dropping


----------------------------------------------------------------------------
\* The steps of other requests.

\* Jobs of the drop stay as they are, or go.
LEMMA OthersMove ==
    ASSUME Inv, Inv', scenario' = scenario,
           NEW r \in Requests, NEW scope, Dropping(r, scope),
           \A q \in DOMAIN jobs' : q[1] = r => q \in DOMAIN jobs /\ jobs'[q] = jobs[q],
           MarksKept(<<r, scope>>, scope, {})
    PROVE  Dropping(r, scope)'
<1>1. RootKey(r) \in DOMAIN jobs'
    <2>1. Requests' = Requests  BY DEF Requests
    <2> QED  BY <2>1 DEF Inv, KeysOk, RootKey
<1>2. \A q \in DOMAIN jobs' : q[1] = r => jobs'[q].at \in Nodes  BY JobFacts
<1> QED  BY <1>1, <1>2, DropKept

LEMMA OtherBecomes ==
    ASSUME Inv, Inv', scenario' = scenario,
           NEW r \in Requests, NEW scope, Dropping(r, scope),
           NEW k \in DOMAIN jobs, k[1] # r, NEW j, Becomes(k, j),
           MarksKept(<<r, scope>>, scope, {})
    PROVE  Dropping(r, scope)'
<1>1. \A q \in DOMAIN jobs' : q[1] = r => q \in DOMAIN jobs /\ jobs'[q] = jobs[q]
    BY BecomesFacts
<1> QED  BY <1>1, OthersMove

LEMMA LocalWriteGone ==
    ASSUME NEW r, NEW j, NEW s, DOMAIN s = StateFields
    PROVE  LocalWrite(r, j, s).gone = s.gone
BY DEF LocalWrite

LEMMA OtherRunGroups ==
    ASSUME LogsOk, NEW r, NEW scope, GoneMarked(<<r, scope>>, scope),
           NEW k, k[1] # r, NEW j, j.at \in Nodes, RunGroups(k, j)
    PROVE  MarksKept(<<r, scope>>, scope, {}) /\ \E a : Becomes(k, a)
<1> DEFINE n == j.at
           s == Mem(n)
           w == LocalWrite(k[1], j, s)
           m == <<r, scope>>
<1>1. (UNCHANGED log \/ Writes(n, w)) /\ \E a : Becomes(k, a)  BY DEF RunGroups
<1>2. DOMAIN s = StateFields  BY LogEnds DEF LogsOk, Mem
<1>3. /\ DOMAIN w = StateFields /\ s.ops \subseteq w.ops /\ w.gone = s.gone
      /\ \A o \in w.ops : o \in s.ops \/ o[1] = k[1]
    BY <1>2, LocalWriteFields, LocalWriteGone
<1>4. m[1] = r  OBVIOUS
<1> HIDE DEF w, m, n
<1>5. m \in w.ops => m \in s.ops  BY <1>3, <1>4
<1>6. CASE UNCHANGED log  BY <1>1, <1>6, SameMarks DEF m
<1>7. CASE Writes(n, w)
    <2>1. GoneMarked(m, scope) /\ n \in Nodes  BY DEF m, n
    <2>2. MarksKept(m, scope, {})  BY <1>3, <1>5, <1>7, <2>1, OtherWriteMarks
    <2> QED  BY <1>1, <2>2 DEF m
<1> QED  BY <1>1, <1>6, <1>7

\* The steps of a handler of another request that is no drop.
LEMMA OtherSteps ==
    ASSUME Inv, Inv', NEW r \in Requests, NEW scope, Dropping(r, scope),
           NEW k \in DOMAIN jobs, k[1] # r, jobs[k].op \notin Drops,
           Step(k) \/ Failure(k)
    PROVE  Dropping(r, scope)'
<1> DEFINE m == <<r, scope>>
<1>1. LogsOk /\ GoneMarked(m, scope) /\ jobs[k].at \in Nodes /\ DOMAIN jobs[k] = JobFields
    BY JobFacts DEF Inv, Dropping, Carries
<1> HIDE DEF m
<1>2. ASSUME UNCHANGED log PROVE MarksKept(m, scope, {})  BY <1>1, <1>2, SameMarks
<1>3. ASSUME scenario' = scenario, MarksKept(m, scope, {}), \E a : Becomes(k, a)
      PROVE  Dropping(r, scope)'
    BY <1>3, OtherBecomes DEF m
<1>4. ASSUME scenario' = scenario, NEW j, j.at = jobs[k].at, RunGroups(k, j)
      PROVE  Dropping(r, scope)'
    <2>1. j.at \in Nodes  BY <1>1, <1>4
    <2>2. MarksKept(m, scope, {}) /\ \E a : Becomes(k, a)
        BY <1>1, <1>4, <2>1, OtherRunGroups DEF m
    <2> QED  BY <1>3, <1>4, <2>2
<1>5. ASSUME scenario' = scenario, UNCHANGED log, \E a : Becomes(k, a)
      PROVE  Dropping(r, scope)'
    BY <1>2, <1>3, <1>5
<1>6. CASE Receive(k)
    <2>1. scenario' = scenario /\ log' = log /\ \E a : Becomes(k, a)  BY <1>6 DEF Receive
    <2> QED  BY <1>5, <2>1
<1>7. CASE BeginRead(k)
    <2>1. scenario' = scenario /\ log' = log /\ \E a : Becomes(k, a)  BY <1>7 DEF BeginRead
    <2> QED  BY <1>5, <2>1
<1>8. CASE BeginObjects(k)
    <2> DEFINE j == [jobs[k] EXCEPT !.groups = Head(jobs[k].chunks)]
               p == [j EXCEPT !.rows = Prepared(k[1], j)]
    <2>1. scenario' = scenario  BY <1>8 DEF BeginObjects
    <2>2. \/ RunGroups(k, p)
          \/ Becomes(k, Answered(j, 404)) /\ log' = log
        BY <1>8 DEF BeginObjects
    <2>3. p.at = jobs[k].at  BY <1>1 DEF JobFields
    <2> HIDE DEF p, j
    <2> QED  BY <1>4, <1>5, <2>1, <2>2, <2>3
<1>9. CASE BeginFile(k)
    <2>1. scenario' = scenario /\ log' = log /\ \E a : Becomes(k, a)  BY <1>9 DEF BeginFile
    <2> QED  BY <1>5, <2>1
<1>10. CASE ReadBlob(k)
    <2>1. scenario' = scenario /\ log' = log /\ \E a : Becomes(k, a)  BY <1>10 DEF ReadBlob
    <2> QED  BY <1>5, <2>1
<1>11. CASE PutBlob(k)
    <2>1. scenario' = scenario /\ RunGroups(k, jobs[k])  BY <1>11 DEF PutBlob
    <2> QED  BY <1>4, <2>1
<1>12. CASE Save(k)
    <2> DEFINE n == jobs[k].at
    <2>1. scenario' = scenario /\ \E a : Becomes(k, a)  BY <1>12 DEF Save
    <2>2. PICK i \in DOMAIN log[n] : log' = [log EXCEPT ![n] = SubSeq(log[n], i, Len(log[n]))]
        BY <1>12 DEF Save
    <2> HIDE DEF n
    <2>3. n \in Nodes  BY <1>1 DEF n
    <2>4. MarksKept(m, scope, {})  BY <1>1, <2>2, <2>3, SaveMarks
    <2> QED  BY <1>3, <2>1, <2>4
<1>13. CASE Unlink(k)
    <2>1. scenario' = scenario /\ log' = log /\ \E a : Becomes(k, a)  BY <1>13 DEF Unlink
    <2> QED  BY <1>5, <2>1
<1>14. CASE Send(k)
    <2> DEFINE j == jobs[k]
               c == ChildKey(k, Head(j.peers))
               a == [j EXCEPT !.pc = "wait", !.child = c]
               e == NewJob(k[1], Head(j.peers), << <<Head(j.groups)>> >>)
    <2>1. /\ scenario' = scenario /\ log' = log
          /\ jobs' = [q \in DOMAIN jobs \cup {c} |-> IF q = k THEN a ELSE IF q = c THEN e ELSE jobs[q]]
        BY <1>14 DEF Send
    <2>2. c[1] # r  BY DEF ChildKey
    <2> HIDE DEF c, a, e
    <2>3. \A q \in DOMAIN jobs' : q[1] = r => q \in DOMAIN jobs /\ jobs'[q] = jobs[q]
        BY <2>1, <2>2
    <2>4. MarksKept(m, scope, {})  BY <1>2, <2>1
    <2> QED  BY <2>1, <2>3, <2>4, OthersMove DEF m
<1>15. CASE Return(k)
    <2> DEFINE i == jobs[k]
               c == jobs[i.child]
               j == [i EXCEPT !.child = <<>>]
               g == [j EXCEPT !.part = @ + c.count, !.groups = Tail(@)]
               b == [j EXCEPT !.missed = @ \/ c.status # 404]
               f == [j EXCEPT !.started = StartedMarker(j, c.started)]
               h == [j EXCEPT !.before = c.before]
    <2>1. scenario' = scenario  BY <1>15 DEF Return
    <2>2. \/ Becomes(k, NextOwner(b, c.status)) /\ UNCHANGED log
          \/ Becomes(k, Failed(f, c.status)) /\ UNCHANGED log
          \/ Becomes(k, Found(k, h)) /\ UNCHANGED log
          \/ RunGroups(k, g)
        BY <1>15 DEF Return
    <2>3. g.at = jobs[k].at  BY <1>1 DEF JobFields
    <2> HIDE DEF g, b, f, h, c
    <2> QED  BY <1>4, <1>5, <2>1, <2>2, <2>3
<1>16. CASE Disconnected(k)
    <2>1. scenario' = scenario /\ log' = log /\ \E a : Becomes(k, a)  BY <1>16 DEF Disconnected
    <2> QED  BY <1>5, <2>1
<1>17. CASE BeginDrop(k)  BY <1>17 DEF BeginDrop, Drops
<1>18. CASE BeginCreate(k)
    <2> DEFINE j == jobs[k]
               s == Mem(j.at)
               made == ScopeOf(j.op)
               w == [Created(s, made) EXCEPT !.ops = @ \cup {<<k[1], made>>}]
               v == [s EXCEPT !.gone = @ \ {"coll"}]
    <2>1. scenario' = scenario /\ (\E a : Becomes(k, a)) /\ (Writes(j.at, v) \/ Writes(j.at, w))
        BY <1>18 DEF BeginCreate
    <2>2. DOMAIN s = StateFields  BY <1>1, LogEnds DEF LogsOk, Mem
    <2>3. DOMAIN v = StateFields /\ v.ops = s.ops /\ v.gone \subseteq s.gone
        BY <2>2 DEF StateFields
    <2>4. DOMAIN w = StateFields /\ w.ops = s.ops \cup {<<k[1], made>>} /\ w.gone \subseteq s.gone
        BY <2>2 DEF Created, StateFields
    <2>5. m # <<k[1], made>>  BY DEF m
    <2>6. MarksKept(m, scope, {})
        <3> HIDE DEF v, w, made
        <3>1. CASE Writes(j.at, v)  BY <1>1, <2>3, <3>1, OtherWriteMarks
        <3>2. CASE Writes(j.at, w)
            <4>1. s.ops \subseteq w.ops /\ (m \in w.ops => m \in s.ops)  BY <2>4, <2>5
            <4> QED  BY <1>1, <2>4, <3>2, <4>1, OtherWriteMarks
        <3> QED  BY <2>1, <3>1, <3>2
    <2> QED  BY <1>3, <2>1, <2>6
<1>19. CASE FanOut(k)
    <2>1. CASE IsForwarded(k)
        <3>1. scenario' = scenario /\ log' = log /\ \E a : Becomes(k, a)  BY <1>19, <2>1 DEF FanOut
        <3> QED  BY <1>5, <3>1
    <2>2. CASE ~IsForwarded(k)
        <3>1. scenario' = scenario /\ log' = log  BY <1>19 DEF FanOut
        <3> DEFINE others == Nodes \ {jobs[k].at}
        <3>2. PICK down \in SUBSET others :
                 LET called == {ChildKey(k, n) : n \in others \ down}
                 IN jobs' = [q \in DOMAIN jobs \cup called |->
                              IF q \in called THEN NewJob(k[1], q[2], <<>>)
                              ELSE IF q = k
                                   THEN [jobs[k] EXCEPT !.pc = "fanned",
                                                        !.fan = [n \in others |-> IF n \in down THEN Unavailable ELSE 0]]
                              ELSE jobs[q]]
            BY <1>19, <2>2 DEF FanOut
        <3> DEFINE C == {ChildKey(k, n) : n \in others \ down}
        <3>5. \A c \in C : c[1] = k[1]
            <4>1. \A n : ChildKey(k, n)[1] = k[1]  BY DEF ChildKey
            <4> QED  BY <4>1
        <3>6. \A q \in DOMAIN jobs' : q \in C \/ q = k \/ (q \in DOMAIN jobs /\ jobs'[q] = jobs[q])
            BY <3>2
        <3> HIDE DEF C
        <3>3. \A q \in DOMAIN jobs' : q[1] = r => q \in DOMAIN jobs /\ jobs'[q] = jobs[q]
            BY <3>5, <3>6
        <3>4. MarksKept(m, scope, {})  BY <1>2, <3>1
        <3> QED  BY <3>1, <3>3, <3>4, OthersMove DEF m
    <2> QED  BY <2>1, <2>2
<1>20. CASE FanReturn(k)
    <2>1. scenario' = scenario /\ log' = log /\ \E a : Becomes(k, a)  BY <1>20 DEF FanReturn
    <2> QED  BY <1>5, <2>1
<1>21. CASE FanDone(k)
    <2>1. scenario' = scenario /\ log' = log /\ \E a : Becomes(k, a)  BY <1>21 DEF FanDone
    <2> QED  BY <1>5, <2>1
<1>22. CASE Failure(k)
    <2>1. scenario' = scenario /\ log' = log /\ \E a : Becomes(k, a)
        BY <1>22 DEF Failure, Refuse, PutBlobFails, SaveFails, Unreachable, TimesOut
    <2> QED  BY <1>5, <2>1
<1> QED  BY <1>6, <1>7, <1>8, <1>9, <1>10, <1>11, <1>12, <1>13, <1>14, <1>15, <1>16,
            <1>17, <1>18, <1>19, <1>20, <1>21, <1>22 DEF Step


LEMMA RestartDrop ==
    ASSUME Inv, Inv', NEW n \in Nodes, Restart(n),
           NEW r \in Requests, NEW scope, Dropping(r, scope)
    PROVE  Dropping(r, scope)'
<1> DEFINE m == <<r, scope>>
<1>1. LogsOk /\ GoneMarked(m, scope)  BY DEF Inv, Dropping
<1> HIDE DEF m
<1>2. scenario' = scenario /\ log' = [log EXCEPT ![n] = <<Durable(n)>>]  BY DEF Restart
<1>3. MarksKept(m, scope, {})  BY <1>1, <1>2, RestartMarks
<1>4. RootKey(r) \in DOMAIN jobs'
    <2>1. Requests' = Requests  BY <1>2 DEF Requests
    <2> QED  BY <2>1 DEF Inv, KeysOk, RootKey
<1>5. \A q \in DOMAIN jobs' :
         /\ q \in DOMAIN jobs
         /\ \/ jobs'[q] = jobs[q]
            \/ jobs'[q] = [jobs[q] EXCEPT !.pc = "done", !.status = 0, !.child = <<>>, !.fan = <<>>]
    BY DEF Restart
<1>6. \A q \in DOMAIN jobs : DOMAIN jobs[q] = JobFields /\ jobs[q].at \in Nodes
    BY JobFacts DEF Carries
<1>7. ASSUME NEW q \in DOMAIN jobs'
      PROVE  q \in DOMAIN jobs /\ (jobs'[q] = jobs[q] \/ Stopped(jobs'[q], jobs[q]))
    <2> DEFINE a == [jobs[q] EXCEPT !.pc = "done", !.status = 0, !.child = <<>>, !.fan = <<>>]
    <2>1. q \in DOMAIN jobs /\ (jobs'[q] = jobs[q] \/ jobs'[q] = a)  BY <1>5
    <2>2. DOMAIN jobs[q] = JobFields  BY <1>6, <2>1
    <2>3. /\ a.pc = "done" /\ a.status = 0 /\ a.fail = jobs[q].fail /\ a.at = jobs[q].at
        BY <2>2 DEF JobFields
    <2> HIDE DEF a
    <2>4. Stopped(a, jobs[q])  BY <2>3 DEF Stopped
    <2> QED  BY <2>1, <2>4
<1>8. \A q \in DOMAIN jobs' : jobs'[q].at \in Nodes  BY <1>6, <1>7 DEF Stopped
<1> QED  BY <1>3, <1>4, <1>7, <1>8, DropKept DEF m

\* At the start there are no tombstones, no marks and no calls.
LEMMA InitDrop == Init => DropInv
<1> SUFFICES ASSUME Init, NEW r \in Requests, OnlyDrop(r), NEW scope
             PROVE  Dropping(r, scope)
    BY DEF DropInv
<1> DEFINE m == <<r, scope>>
           start(n) ==
        [rows |-> [id \in Ids |->
                     IF id \in scenario.present /\ n \in Range(Owners[ShardOf[id]])
                     THEN [x |-> 0, y |-> 0, file |-> FirstFile(id)] ELSE NoRow],
         live |-> Scopes, gone |-> {}, ops |-> {}]
<1> HIDE DEF m
<1>1. \A n : DOMAIN start(n) = StateFields /\ start(n).gone = {} /\ start(n).ops = {}
    BY DEF StateFields
<1>2. log = [n \in Nodes |-> <<start(n)>>]  BY DEF Init
<1> HIDE DEF start
<1>3. \A n \in Nodes : Last(log[n]).ops = {}  BY <1>1, <1>2, SavedLog
<1>4. GoneMarked(m, scope)
    <2>1. \A n \in Nodes : \A i \in DOMAIN log[n] : log[n][i] = start(n)  BY <1>2
    <2> QED  BY <1>1, <2>1 DEF GoneMarked
<1>5. /\ DOMAIN jobs = {RootKey(q) : q \in Requests}
      /\ \A k \in DOMAIN jobs : jobs[k] = NewJob(k[1], Req(k[1]).at, Req(k[1]).chunks)
    BY DEF Init
<1>6. \A k \in DOMAIN jobs : k = RootKey(k[1]) /\ ~IsForwarded(k)  BY <1>5, RootKeys
<1>7. \A q, n, chunks : LET e == NewJob(q, n, chunks)
                        IN e.pc = "new" /\ e.fail = 0 /\ e.status = 0 /\ e.unsaved = FALSE
    BY DEF NewJob
<1>8. \A k \in DOMAIN jobs :
         jobs[k].pc = "new" /\ jobs[k].fail = 0 /\ jobs[k].status = 0 /\ jobs[k].unsaved = FALSE
    BY <1>5, <1>7
<1>9. \A k \in DOMAIN jobs : jobs[k].at \in Nodes
    <2>1. Inv  BY InitInv
    <2> QED  BY <2>1, JobFacts
<1>10. RootKey(r) \in DOMAIN jobs  BY <1>5
<1>11. \A k \in DOMAIN jobs : DropJob(m, k, jobs[k])
    BY <1>6, <1>8, ZeroFails DEF DropJob
<1>12. EachDropJob(r, m)
    BY <1>3, <1>8, <1>9, <1>11 DEF EachDropJob, Mem
<1>13. OneDropJob(r)  BY <1>6 DEF OneDropJob
<1>14. OthersUntouched(r, m)  BY <1>3, <1>6 DEF OthersUntouched, Mem
<1>15. AckedIsSaved(r, m)  BY <1>8, <1>10, ZeroFails DEF AckedIsSaved
<1> QED  BY <1>4, <1>12, <1>13, <1>14, <1>15 DEF m, Dropping

LEMMA DropSteps ==
    ASSUME Inv, Inv', NEW r \in Requests, OnlyDrop(r), NEW scope, scope = ScopeOf(Req(r).op),
           Dropping(r, scope), NEW k \in DOMAIN jobs, Step(k) \/ Failure(k)
    PROVE  Dropping(r, scope)'
<1>1. k[1] \in Requests /\ jobs[k].op = Req(k[1]).op  BY JobFacts
<1>2. CASE k[1] # r
    <2>1. jobs[k].op \notin Drops  BY <1>1, <1>2 DEF OnlyDrop
    <2> QED  BY <1>2, <2>1, OtherSteps
<1>3. CASE k[1] = r
    <2>1. Dropper(r, scope, k)  BY <1>1, <1>3 DEF Dropper, OnlyDrop
    <2>2. /\ DropJob(<<r, scope>>, k, jobs[k]) /\ jobs[k].op \in Drops
          /\ jobs[k].op \notin ObjectOps /\ jobs[k].op \notin Reads
          /\ jobs[k].op \notin {"createDb", "createColl"}
        BY <2>1, DropFacts, DropScopes
    <2>3. jobs[k].pc \notin {"read", "put", "send", "wait"}  BY <2>2 DEF DropJob
    <2>4. /\ ~BeginRead(k) /\ ~BeginObjects(k) /\ ~BeginFile(k) /\ ~BeginCreate(k) /\ ~Refuse(k)
        BY <2>2 DEF BeginRead, BeginObjects, BeginFile, BeginCreate, Refuse, Drops
    <2>5. /\ ~ReadBlob(k) /\ ~PutBlob(k) /\ ~PutBlobFails(k) /\ ~Send(k) /\ ~Unreachable(k)
          /\ ~Return(k) /\ ~TimesOut(k) /\ ~Disconnected(k)
        BY <2>3 DEF ReadBlob, PutBlob, PutBlobFails, Send, Unreachable, Return, TimesOut,
                    Disconnected, At
    <2>6. \/ Receive(k) \/ BeginDrop(k) \/ Save(k) \/ SaveFails(k) \/ Unlink(k)
          \/ FanOut(k) \/ FanReturn(k) \/ FanDone(k)
        BY <2>4, <2>5 DEF Step, Failure
    <2> QED  BY <2>1, <2>6, DropReceive, DropBegin, DropSave, DropSaveFails, DropUnlink,
                DropForwarded, DropFanOut, DropFanReturn, DropFanDone
<1> QED  BY <1>2, <1>3

LEMMA NextDrop == Inv /\ Inv' /\ DropInv /\ [Next]_vars => DropInv'
<1> SUFFICES ASSUME Inv, Inv', DropInv, [Next]_vars PROVE DropInv'  OBVIOUS
<1>1. scenario' = scenario
    <2>1. ASSUME NEW k \in DOMAIN jobs, Step(k) PROVE scenario' = scenario
        BY <2>1 DEF Step, Receive, BeginRead, BeginObjects, BeginFile, ReadBlob, PutBlob, Save,
                    Unlink, Send, Return, Disconnected, BeginDrop, BeginCreate, FanOut,
                    FanReturn, FanDone
    <2>2. ASSUME NEW k \in DOMAIN jobs, Failure(k) PROVE scenario' = scenario
        BY <2>2 DEF Failure, Refuse, PutBlobFails, SaveFails, Unreachable, TimesOut
    <2>3. CASE ExpireToken \/ \E n \in Nodes : Restart(n)  BY <2>3 DEF ExpireToken, Restart
    <2>4. CASE UNCHANGED vars  BY <2>4 DEF vars
    <2> QED  BY <2>1, <2>2, <2>3, <2>4, SMTT(40) DEF Next
<1>2. Requests' = Requests /\ \A r : Req(r)' = Req(r)  BY <1>1 DEF Requests, Req
<1>3. SUFFICES ASSUME NEW r \in Requests, OnlyDrop(r), NEW scope, scope = ScopeOf(Req(r).op)
               PROVE  Dropping(r, scope)'
    <2> SUFFICES ASSUME NEW r \in Requests', OnlyDrop(r)'
                 PROVE  Dropping(r, ScopeOf(Req(r).op))'
        BY DEF DropInv
    <2>1. r \in Requests /\ OnlyDrop(r)  BY <1>2 DEF OnlyDrop
    <2>2. PICK scope : scope = ScopeOf(Req(r).op)  OBVIOUS
    <2>3. Dropping(r, scope)'  BY <1>3, <2>1, <2>2
    <2>4. ScopeOf(Req(r).op)' = scope  BY <1>2, <2>2 DEF ScopeOf
    <2> QED  BY <2>3, <2>4 DEF Dropping, GoneMarked, EachDropJob, DropJob, FanSaved, OneDropJob,
                              OthersUntouched, AckedIsSaved
<1>4. Dropping(r, scope)  BY <1>3 DEF DropInv
<1>5. ASSUME NEW k \in DOMAIN jobs, Step(k) \/ Failure(k) PROVE Dropping(r, scope)'
    BY <1>3, <1>4, <1>5, DropSteps
<1>6. ASSUME NEW n \in Nodes, Restart(n) PROVE Dropping(r, scope)'
    BY <1>3, <1>4, <1>6, RestartDrop
<1>7. CASE log' = log /\ jobs' = jobs
    <2>1. MarksKept(<<r, scope>>, scope, {})  BY <1>4, <1>7, SameMarks DEF Inv, Dropping
    <2> QED  BY <1>1, <1>4, <1>7, <2>1, OthersMove
<1> QED  BY <1>5, <1>6, <1>7 DEF Next, ExpireToken, vars

\* An acknowledged drop is saved on every node, whichever nodes stop, fail or do not
\* answer while it runs, and stays so.
THEOREM DroppedEverywhereHolds == Spec => []DroppedEverywhere
<1>1. DropInv => DroppedEverywhere
    BY DEF DropInv, Dropping, AckedIsSaved, OnlyDrop, Drops, DroppedEverywhere, Saved
<1> QED  BY <1>1, InitDrop, NextDrop, RequestsInvariant, PTL DEF Spec

----------------------------------------------------------------------------
\* What the variables range over: a job's data, wherever it stands, and what a request
\* for one object has left to do.

DataOk(k, j) ==
    /\ DOMAIN j = JobFields
    /\ j.op \in ObjectOps \cup ScopeOps /\ j.op = Req(k[1]).op
    /\ j.form \in Forms /\ j.form = Req(k[1]).form /\ j.at \in Nodes
    /\ DOMAIN j.rows \subseteq Ids /\ \A id \in DOMAIN j.rows : j.rows[id] \in Row
    /\ j.olds \subseteq Files /\ j.before \in Files
    /\ j.wrote \subseteq j.did /\ j.part \in Nat /\ j.count \in Nat

Stages == {"new", "body", "read", "put", "send", "wait", "save", "unlink", "fan", "fanned",
           "done"}

ForOne(j) == j.op \in ObjectOps /\ j.form \in {"single", "file"}
Chunked(j) == ForOne(j) => j.chunks \in OneObject
Grouped(j) == ForOne(j) => j.chunks \in OneObject /\ j.groups = Head(j.chunks)

StageOk(j) ==
    /\ j.pc \in Stages
    /\ j.pc # "done" => Chunked(j)
    /\ j.pc \in {"put", "send", "wait"} => Grouped(j)
    /\ j.pc = "put" => j.form = "file"

JobTyped(k, j) == DataOk(k, j) /\ StageOk(j)

EntryTyped(e) ==
    /\ e.rows \in [Ids -> Row]
    /\ e.live \subseteq Scopes /\ e.gone \subseteq Scopes /\ e.live \cap e.gone = {}
    /\ e.live # Scopes => e.rows = NoRows
    /\ e.ops \subseteq Requests \X (Ids \cup Scopes)

LogsTyped == \A n \in Nodes : \A i \in DOMAIN log[n] : EntryTyped(log[n][i])
JobsTyped == \A k \in DOMAIN jobs : JobTyped(k, jobs[k])

TypeInv ==
    /\ token \in BOOLEAN /\ faults \in 0..MaxFaults /\ restarted \subseteq Nodes
    /\ LogsTyped
    /\ JobsTyped

\* What most steps leave alone.
Steady ==
    /\ scenario' = scenario /\ token' = token /\ restarted' = restarted
    /\ Fault \/ faults' = faults

----------------------------------------------------------------------------
\* Lemmas about the data of one job.

\* What is left alone when a job goes to another place.
SameData(a, j) ==
    /\ DOMAIN a = JobFields /\ a.op = j.op /\ a.form = j.form /\ a.at = j.at
    /\ a.rows = j.rows /\ a.olds = j.olds /\ a.before = j.before
    /\ a.wrote = j.wrote /\ a.did = j.did /\ a.part = j.part /\ a.count = j.count

LEMMA DataKept ==
    ASSUME NEW k, NEW j, DataOk(k, j), NEW a, SameData(a, j)
    PROVE  DataOk(k, a)
BY DEF DataOk, SameData

LEMMA AnsweredTyped ==
    ASSUME NEW k, NEW j, DataOk(k, j), NEW status
    PROVE  JobTyped(k, Answered(j, status))
<1> DEFINE a == Answered(j, status)
<1>1. SameData(a, j) /\ a.pc = "done"  BY DEF Answered, DataOk, JobFields, SameData
<1> HIDE DEF a
<1>2. StageOk(a)  BY <1>1 DEF StageOk, Stages
<1> QED  BY <1>1, <1>2, DataKept DEF JobTyped, a

\* A job goes on with the same data, chunks and groups.
LEMMA GoesOn ==
    ASSUME NEW k, NEW j, DataOk(k, j), Chunked(j), NEW a, SameData(a, j),
           a.chunks = j.chunks, a.pc \in Stages,
           a.pc \in {"put", "send", "wait"} => Grouped(j) /\ a.groups = j.groups,
           a.pc = "put" => j.form = "file"
    PROVE  JobTyped(k, a)
<1>1. DataOk(k, a)  BY DataKept
<1>2. StageOk(a)  BY DEF StageOk, Chunked, Grouped, ForOne, SameData
<1> QED  BY <1>1, <1>2 DEF JobTyped

LEMMA FailedTyped ==
    ASSUME NEW k, NEW j, DataOk(k, j), Chunked(j), NEW status
    PROVE  JobTyped(k, Failed(j, status))
<1> DEFINE a == [j EXCEPT !.pc = "save", !.fail = status]
<1>1. SameData(a, j) /\ a.pc = "save" /\ a.chunks = j.chunks
    BY DEF DataOk, JobFields, SameData
<1>2. Failed(j, status) = a \/ Failed(j, status) = Answered(j, status)  BY DEF Failed
<1> HIDE DEF a
<1>3. JobTyped(k, a)  BY <1>1, GoesOn DEF Stages
<1> QED  BY <1>2, <1>3, AnsweredTyped

LEMMA OneObjectTail ==
    ASSUME NEW c \in OneObject
    PROVE  Tail(c) = <<>>
<1>1. PICK id \in Ids : c = << <<{id}>> >>  BY DEF OneObject
<1> QED  BY <1>1

LEMMA CompletedTyped ==
    ASSUME NEW k, NEW j, DataOk(k, j), Chunked(j)
    PROVE  JobTyped(k, Completed(j))
<1> DEFINE next == [j EXCEPT !.count = @ + j.part, !.part = 0, !.olds = {}, !.rows = <<>>,
                             !.wrote = {}, !.chunks = Tail(@)]
           a == [next EXCEPT !.pc = "body"]
<1>1. /\ DOMAIN next = JobFields /\ next.op = j.op /\ next.form = j.form /\ next.at = j.at
      /\ next.rows = <<>> /\ next.olds = {} /\ next.before = j.before
      /\ next.wrote = {} /\ next.did = j.did /\ next.part = 0
      /\ next.count = j.count + j.part /\ next.chunks = Tail(j.chunks)
    BY DEF DataOk, JobFields
<1>2. Completed(j) = IF next.chunks = <<>> THEN Answered(next, 200) ELSE a
    BY DEF Completed
<1> HIDE DEF next
<1>3. j.count + j.part \in Nat  BY DEF DataOk
<1>4. DOMAIN <<>> = {}  OBVIOUS
<1>5. DataOk(k, next)  BY <1>1, <1>3, <1>4 DEF DataOk
<1>6. ASSUME next.chunks # <<>> PROVE JobTyped(k, a)
    <2>1. SameData(a, next) /\ a.pc = "body" /\ a.chunks = next.chunks
        BY <1>1 DEF JobFields, SameData
    <2> HIDE DEF a
    <2>2. ~ForOne(next)  BY <1>1, <1>6, OneObjectTail DEF Chunked, ForOne
    <2>3. Chunked(next)  BY <2>2 DEF Chunked
    <2> QED  BY <1>5, <2>1, <2>3, GoesOn DEF Stages
<1> QED  BY <1>2, <1>5, <1>6, AnsweredTyped

LEMMA AfterGroupsTyped ==
    ASSUME NEW k, NEW j, DataOk(k, j), Chunked(j)
    PROVE  JobTyped(k, AfterGroups(j))
<1> DEFINE a == [j EXCEPT !.pc = "save"]
<1>1. SameData(a, j) /\ a.pc = "save" /\ a.chunks = j.chunks
    BY DEF DataOk, JobFields, SameData
<1>2. AfterGroups(j) = a \/ AfterGroups(j) = Completed(j)  BY DEF AfterGroups
<1> HIDE DEF a
<1>3. JobTyped(k, a)  BY <1>1, GoesOn DEF Stages
<1> QED  BY <1>2, <1>3, CompletedTyped

LEMMA ToOwnersTyped ==
    ASSUME NEW k, NEW j, DataOk(k, j), Grouped(j)
    PROVE  JobTyped(k, ToOwners(j))
<1> DEFINE a == ToOwners(j)
<1>1. SameData(a, j) /\ a.pc = "send" /\ a.chunks = j.chunks /\ a.groups = j.groups
    BY DEF ToOwners, DataOk, JobFields, SameData
<1> HIDE DEF a
<1>2. Chunked(j)  BY DEF Chunked, Grouped
<1> QED  BY <1>1, <1>2, GoesOn DEF a, Stages

LEMMA NextOwnerTyped ==
    ASSUME NEW k, NEW j, DataOk(k, j), Grouped(j), NEW status
    PROVE  JobTyped(k, NextOwner(j, status))
<1> DEFINE a == [j EXCEPT !.pc = "send", !.peers = Tail(@), !.child = <<>>]
           b == [j EXCEPT !.child = <<>>]
<1>1. /\ SameData(a, j) /\ a.pc = "send" /\ a.chunks = j.chunks /\ a.groups = j.groups
      /\ SameData(b, j) /\ b.chunks = j.chunks
    BY DEF DataOk, JobFields, SameData
<1>2. NextOwner(j, status) = a \/ NextOwner(j, status) = Failed(b, status)  BY DEF NextOwner
<1> HIDE DEF a, b
<1>3. Chunked(j) /\ Chunked(b)  BY <1>1 DEF Chunked, Grouped, ForOne, SameData
<1>4. JobTyped(k, a)  BY <1>1, <1>3, GoesOn DEF Stages
<1>5. JobTyped(k, Failed(b, status))  BY <1>1, <1>3, DataKept, FailedTyped
<1> QED  BY <1>2, <1>4, <1>5

LEMMA FoundTyped ==
    ASSUME NEW k, NEW j, DataOk(k, j), Chunked(j)
    PROVE  JobTyped(k, Found(k, j))
<1> DEFINE a == [j EXCEPT !.pc = "read"]
<1>1. SameData(a, j) /\ a.pc = "read" /\ a.chunks = j.chunks
    BY DEF DataOk, JobFields, SameData
<1>2. Found(k, j) = a \/ \E status : Found(k, j) = Answered(j, status)  BY DEF Found
<1> HIDE DEF a
<1>3. JobTyped(k, a)  BY <1>1, GoesOn DEF Stages
<1> QED  BY <1>2, <1>3, AnsweredTyped

LEMMA AfterSaveTyped ==
    ASSUME NEW k, NEW j, DataOk(k, j), Chunked(j)
    PROVE  JobTyped(k, AfterSave(k, j))
<1>1. CASE j.fail # 0  BY <1>1, AnsweredTyped DEF AfterSave
<1>2. CASE j.fail = 0 /\ j.op \in ScopeOps
    <2> DEFINE pc == IF j.existed THEN "unlink" ELSE "fan"
               a == [j EXCEPT !.pc = pc]
    <2>1. AfterSave(k, j) = a  BY <1>2 DEF AfterSave
    <2>2. pc \in {"unlink", "fan"}  OBVIOUS
    <2> HIDE DEF pc
    <2>3. SameData(a, j) /\ a.pc = pc /\ a.chunks = j.chunks
        BY DEF DataOk, JobFields, SameData
    <2> HIDE DEF a
    <2> QED  BY <2>1, <2>2, <2>3, GoesOn DEF Stages
<1>3. CASE j.fail = 0 /\ j.op \notin ScopeOps
    <2> DEFINE olds == IF j.form = "single" \/ (j.form = "file" /\ j.op = "replace")
                       THEN j.olds \cup Superseded(j) ELSE j.olds
               b == [j EXCEPT !.olds = olds]
               a == [j EXCEPT !.pc = "unlink", !.olds = olds]
    <2>1. AfterSave(k, j) = a \/ AfterSave(k, j) = Completed(j)  BY <1>3 DEF AfterSave
    <2>2. Superseded(j) \subseteq {j.before}  BY DEF Superseded
    <2>3. olds \subseteq Files  BY <2>2 DEF DataOk
    <2> HIDE DEF olds
    <2>4. /\ DOMAIN b = JobFields /\ b.op = j.op /\ b.form = j.form /\ b.at = j.at
          /\ b.rows = j.rows /\ b.olds = olds /\ b.before = j.before
          /\ b.wrote = j.wrote /\ b.did = j.did /\ b.part = j.part /\ b.count = j.count
          /\ b.chunks = j.chunks
        BY DEF DataOk, JobFields
    <2>5. SameData(a, b) /\ a.pc = "unlink" /\ a.chunks = b.chunks
        BY DEF DataOk, JobFields, SameData
    <2> HIDE DEF a, b
    <2>6. DataOk(k, b) /\ Chunked(b)  BY <2>3, <2>4 DEF DataOk, Chunked, ForOne
    <2>7. JobTyped(k, a)  BY <2>5, <2>6, GoesOn DEF Stages
    <2> QED  BY <2>1, <2>7, CompletedTyped
<1> QED  BY <1>1, <1>2, <1>3

----------------------------------------------------------------------------
\* Lemmas about what the handlers read and write.

LEMMA NoFileOk == NoFile \in Files  BY DEF Files

LEMMA RowFacts ==
    /\ NoRow \in Row
    /\ \A row \in Row : row.file \in Files
    /\ \A row \in Row, r \in Requests : Patched(row, r) \in Row
    /\ \A r \in Requests, file \in Files : [x |-> r, y |-> r, file |-> file] \in Row
BY NoFileOk DEF NoRow, Row, Patched

LEMMA LocalIdsFacts ==
    ASSUME NEW j, HasChunks(j)
    PROVE  LocalIds(j) \subseteq Ids
<1> DEFINE chunk == Head(j.chunks)
<1>1. chunk \in Seq(Group)  BY DEF HasChunks, Chunk
<1>2. Range(chunk) \subseteq Group
    <2> HIDE DEF chunk
    <2> QED  BY <1>1 DEF Range
<1>3. UNION Range(chunk) \subseteq Ids  BY <1>2 DEF Group
<1> QED  BY <1>3 DEF LocalIds

LEMMA TargetsFacts ==
    ASSUME NEW k, NEW j, DataOk(k, j), HasChunks(j), NEW s
    PROVE  /\ Targets(j, s) \subseteq Ids
           /\ Cardinality(Targets(j, s)) \in Nat
           /\ j.op = "patch" => Targets(j, s) = DOMAIN j.rows
           /\ j.op = "remove" => \A id \in Targets(j, s) : Present(s.rows[id])
           /\ j.op \notin {"patch", "remove"} => Targets(j, s) = LocalIds(j)
<1> DEFINE t == Targets(j, s)
<1>1. t \subseteq Ids  BY LocalIdsFacts DEF Targets, DataOk
<1>2. Cardinality(t) \in Nat
    <2> HIDE DEF t
    <2>1. IsFiniteSet(t)  BY <1>1, RequestsAssumption, FS_Subset
    <2> QED  BY <2>1, FS_CardinalityType
<1>3. /\ j.op = "patch" => t = DOMAIN j.rows
      /\ j.op = "remove" => \A id \in t : Present(s.rows[id])
      /\ j.op \notin {"patch", "remove"} => t = LocalIds(j)
    BY DEF Targets
<1> QED  BY <1>1, <1>2, <1>3

LEMMA NewRowTyped ==
    ASSUME NEW k, k[1] \in Requests, NEW j, DataOk(k, j), HasChunks(j), NEW s,
           NEW id \in Targets(j, s)
    PROVE  NewRow(k[1], j, id) \in Row
<1>1. id \in Ids  BY TargetsFacts
<1>2. CASE j.op = "patch"
    <2>1. id \in DOMAIN j.rows  BY <1>2, TargetsFacts
    <2>2. NewRow(k[1], j, id) = j.rows[id]  BY <1>2 DEF NewRow
    <2> QED  BY <2>1, <2>2 DEF DataOk
<1>3. CASE j.op = "remove"
    <2>1. NewRow(k[1], j, id) = NoRow  BY <1>3 DEF NewRow
    <2> QED  BY <2>1, RowFacts
<1>4. CASE j.op \notin {"patch", "remove"}
    <2>1. <<k[1], j.at, id>> \in Files  BY <1>1 DEF DataOk, Files
    <2>2. NewFile(k[1], j, id) \in Files  BY <2>1, NoFileOk DEF NewFile, FileKey
    <2>3. NewRow(k[1], j, id) = [x |-> k[1], y |-> k[1], file |-> NewFile(k[1], j, id)]
        BY <1>4 DEF NewRow
    <2> HIDE DEF NewRow, NewFile
    <2> QED  BY <2>2, <2>3, RowFacts
<1> QED  BY <1>2, <1>3, <1>4

\* A local write keeps the scopes and their rows in step: what is dropped is written
\* to only after it was created again.
LEMMA LocalWriteTyped ==
    ASSUME NEW k, k[1] \in Requests, NEW j, DataOk(k, j), HasChunks(j),
           j.op \in ObjectOps \ Reads, NEW s, EntryTyped(s), LocalError(j, s) = 0
    PROVE  EntryTyped(LocalWrite(k[1], j, s))
<1> DEFINE t == Targets(j, s)
           w == LocalWrite(k[1], j, s)
<1>1. CASE t = {}  BY <1>1 DEF LocalWrite
<1>2. CASE t # {}
    <2>1. /\ w.rows = [id \in Ids |-> IF id \in t THEN NewRow(k[1], j, id) ELSE s.rows[id]]
          /\ w.live = IF j.op = "remove" THEN s.live ELSE Scopes
          /\ w.gone = s.gone
          /\ w.ops = s.ops \cup {<<k[1], id>> : id \in t}
        BY <1>2 DEF LocalWrite
    <2>2. t \subseteq Ids /\ \A id \in t : NewRow(k[1], j, id) \in Row
        BY TargetsFacts, NewRowTyped
    <2>3. j.op # "remove" => s.gone = {}
        <3>1. j.op \in {"create", "replace", "patch", "remove"}  BY DEF ObjectOps, Reads
        <3>2. j.op \in {"create", "replace"} => s.gone = {}  BY DEF LocalError
        <3>3. j.op = "patch" => s.gone = {}
            <4> SUFFICES ASSUME j.op = "patch" PROVE s.gone = {}  OBVIOUS
            <4>1. DOMAIN j.rows # {}  BY <1>2, TargetsFacts
            <4>2. DOMAIN <<>> = {}  OBVIOUS
            <4>3. j.rows # <<>>  BY <4>1, <4>2
            <4> QED  BY <4>3 DEF LocalError
        <3> QED  BY <3>1, <3>2, <3>3
    <2>4. j.op = "remove" => s.live = Scopes
        <3> SUFFICES ASSUME j.op = "remove" PROVE s.live = Scopes  OBVIOUS
        <3>1. PICK id \in t : TRUE  BY <1>2
        <3>2. id \in Ids /\ s.rows[id] # NoRow  BY <2>2, <3>1, TargetsFacts DEF Present
        <3>3. NoRows[id] = NoRow  BY <3>2 DEF NoRows
        <3>4. s.rows # NoRows  BY <3>2, <3>3
        <3> QED  BY <3>4 DEF EntryTyped
    <2> HIDE DEF w, t
    <2>5. w.rows \in [Ids -> Row]  BY <2>1, <2>2 DEF EntryTyped
    <2>6. w.live = Scopes  BY <2>1, <2>4
    <2>7. w.gone \subseteq Scopes /\ w.live \cap w.gone = {}
        BY <2>1, <2>3, <2>4, <2>6 DEF EntryTyped
    <2>8. w.ops \subseteq Requests \X (Ids \cup Scopes)  BY <2>1, <2>2 DEF EntryTyped
    <2> QED  BY <2>5, <2>6, <2>7, <2>8 DEF EntryTyped, w
<1> QED  BY <1>1, <1>2

LEMMA AfterLocalWriteTyped ==
    ASSUME NEW k, k[1] \in Requests, NEW j, DataOk(k, j), HasChunks(j),
           NEW s, EntryTyped(s),
           j.form = "single" /\ j.op \in {"replace", "patch"} => Targets(j, s) # {}
    PROVE  DataOk(k, AfterLocalWrite(k[1], j, s))
<1> DEFINE r == k[1]
           t == Targets(j, s)
           new == {<<r, id>> : id \in t}
           before == IF j.form = "single" /\ j.op \in {"replace", "patch"}
                     THEN s.rows[CHOOSE id \in t : TRUE].file ELSE j.before
           olds == IF j.op = "create" \/ (Single(j) /\ j.op # "remove") THEN {}
                   ELSE RemovedFiles(r, j, s) \ {NoFile}
           w == AfterLocalWrite(r, j, s)
<1>1. /\ DOMAIN w = JobFields /\ w.op = j.op /\ w.form = j.form /\ w.at = j.at
      /\ w.rows = j.rows /\ w.olds = olds /\ w.before = before
      /\ w.wrote = j.wrote \cup new /\ w.did = j.did \cup new
      /\ w.part = j.part + Cardinality(t) /\ w.count = j.count
    BY DEF AfterLocalWrite, DataOk, JobFields
<1>2. t \subseteq Ids /\ Cardinality(t) \in Nat  BY TargetsFacts
<1>3. \A id \in Ids : s.rows[id] \in Row /\ s.rows[id].file \in Files
    BY RowFacts DEF EntryTyped
<1>4. before \in Files
    <2>1. CASE j.form = "single" /\ j.op \in {"replace", "patch"}
        <3> DEFINE i == CHOOSE id \in t : TRUE
        <3>1. i \in t  BY <2>1
        <3> HIDE DEF i
        <3>2. s.rows[i].file \in Files  BY <1>2, <1>3, <3>1
        <3> QED  BY <2>1, <3>2 DEF i
    <2>2. CASE ~(j.form = "single" /\ j.op \in {"replace", "patch"})
        BY <2>2 DEF DataOk
    <2> QED  BY <2>1, <2>2
<1>5. RemovedFiles(r, j, s) \subseteq Files
    <2>1. \A id \in DOMAIN j.rows : j.rows[id].file \in Files  BY RowFacts DEF DataOk
    <2>2. \A id \in t : s.rows[id].file \in Files  BY <1>2, <1>3
    <2> QED  BY <2>1, <2>2 DEF RemovedFiles
<1>6. olds \subseteq Files  BY <1>5
<1> HIDE DEF w, t, new, before, olds
<1>7. w.part \in Nat  BY <1>1, <1>2 DEF DataOk
<1>8. w.wrote \subseteq w.did  BY <1>1 DEF DataOk
<1>9. DataOk(k, w)  BY <1>1, <1>4, <1>6, <1>7, <1>8 DEF DataOk
<1> QED  BY <1>9 DEF w

\* A new job has no data yet.
LEMMA NewJobTyped ==
    ASSUME scenario \in Scenarios, NEW k, k[1] \in Requests, NEW n \in Nodes, NEW chunks,
           Req(k[1]).op \in ObjectOps /\ Req(k[1]).form \in {"single", "file"}
           => chunks \in OneObject
    PROVE  JobTyped(k, NewJob(k[1], n, chunks))
<1> DEFINE j == NewJob(k[1], n, chunks)
<1>1. /\ DOMAIN j = JobFields /\ j.op = Req(k[1]).op /\ j.form = Req(k[1]).form /\ j.at = n
      /\ j.rows = <<>> /\ j.olds = {} /\ j.before = NoFile /\ j.wrote = {} /\ j.did = {}
      /\ j.part = 0 /\ j.count = 0 /\ j.pc = "new" /\ j.chunks = chunks
    BY DEF NewJob, JobFields
<1>2. Req(k[1]).op \in ObjectOps \cup ScopeOps /\ Req(k[1]).form \in Forms  BY RequestFacts
<1>3. DOMAIN <<>> = {}  OBVIOUS
<1> HIDE DEF j
<1>4. DataOk(k, j)  BY <1>1, <1>2, <1>3, NoFileOk DEF DataOk
<1>5. StageOk(j)  BY <1>1 DEF StageOk, Stages, Chunked, ForOne
<1> QED  BY <1>4, <1>5 DEF JobTyped, j

----------------------------------------------------------------------------
\* Lemmas about the steps of the system.

LEMMA SameScenario ==
    ASSUME scenario' = scenario
    PROVE  /\ \A k, j : JobTyped(k, j)' <=> JobTyped(k, j)
           /\ \A e : EntryTyped(e)' <=> EntryTyped(e)
BY DEF JobTyped, DataOk, StageOk, Chunked, Grouped, ForOne, EntryTyped, Files, Row,
       Requests, Req

LEMMA SteadyFacts ==
    ASSUME TypeInv, Steady
    PROVE  token' \in BOOLEAN /\ faults' \in 0..MaxFaults /\ restarted' \subseteq Nodes
<1>1. MaxFaults \in Nat  BY RequestsAssumption
<1>2. faults' \in 0..MaxFaults  BY <1>1 DEF TypeInv, Steady, Fault
<1> QED  BY <1>2 DEF TypeInv, Steady

LEMMA BecomesTyped ==
    ASSUME TypeInv, scenario' = scenario, NEW k \in DOMAIN jobs, NEW j, Becomes(k, j),
           JobTyped(k, j)
    PROVE  JobsTyped'
<1>1. \A q \in DOMAIN jobs' : JobTyped(q, jobs'[q])
    BY BecomesFacts DEF TypeInv, JobsTyped
<1> QED  BY <1>1, SameScenario DEF JobsTyped

LEMMA SameLogTyped ==
    ASSUME TypeInv, scenario' = scenario, UNCHANGED log
    PROVE  LogsTyped'
<1>1. \A n \in Nodes : \A i \in DOMAIN log'[n] : EntryTyped(log'[n][i])
    BY DEF TypeInv, LogsTyped
<1> QED  BY <1>1, SameScenario DEF LogsTyped

LEMMA LogTypedFacts ==
    ASSUME Inv, TypeInv, NEW n \in Nodes
    PROVE  /\ EntryTyped(Mem(n)) /\ EntryTyped(Durable(n))
           /\ DOMAIN Mem(n) = StateFields
<1>1. IsLog(log[n])  BY DEF Inv, LogsOk
<1>2. /\ Head(log[n]) = log[n][1] /\ Last(log[n]) = log[n][Len(log[n])]
      /\ Len(log[n]) \in Nat /\ Len(log[n]) >= 1 /\ DOMAIN log[n] = 1..Len(log[n])
      /\ DOMAIN Last(log[n]) = StateFields
    BY <1>1, LogEnds DEF IsLog
<1>3. 1 \in DOMAIN log[n] /\ Len(log[n]) \in DOMAIN log[n]  BY <1>2
<1> QED  BY <1>2, <1>3 DEF TypeInv, LogsTyped, Mem, Durable

LEMMA WritesTyped ==
    ASSUME Inv, TypeInv, scenario' = scenario, NEW n \in Nodes, NEW s, EntryTyped(s),
           Writes(n, s)
    PROVE  LogsTyped'
<1>1. CASE s = Mem(n)
    <2>1. log' = log  BY <1>1 DEF Writes
    <2> QED  BY <2>1, SameLogTyped
<1>2. CASE s # Mem(n)
    <2>1. log' = [log EXCEPT ![n] = Append(log[n], s)]  BY <1>2 DEF Writes
    <2>2. IsLog(log[n]) /\ DOMAIN log = Nodes  BY DEF Inv, LogsOk
    <2>3. /\ log'[n] = Append(log[n], s) /\ \A m \in Nodes \ {n} : log'[m] = log[m]
        BY <2>1, <2>2
    <2>4. PICK S : log[n] \in Seq(S)  BY <2>2 DEF IsLog
    <2> DEFINE l == log[n]
    <2>5. \A i \in DOMAIN l : EntryTyped(l[i])  BY DEF TypeInv, LogsTyped
    <2>6. l \in Seq(S)  BY <2>4
    <2> HIDE DEF l
    <2>7. \A i \in DOMAIN Append(l, s) :
             \/ Append(l, s)[i] = s
             \/ i \in DOMAIN l /\ Append(l, s)[i] = l[i]
        <3>1. l \in Seq(S \cup {s})  BY <2>6
        <3> QED  BY <3>1
    <2>8. \A i \in DOMAIN log'[n] : EntryTyped(log'[n][i])
        BY <2>3, <2>5, <2>7 DEF l
    <2>9. \A m \in Nodes : \A i \in DOMAIN log'[m] : EntryTyped(log'[m][i])
        BY <2>3, <2>8 DEF TypeInv, LogsTyped
    <2> QED  BY <2>9, SameScenario DEF LogsTyped
<1> QED  BY <1>1, <1>2

\* A step of a handler that writes nothing.
LEMMA QuietTyped ==
    ASSUME TypeInv, Steady, UNCHANGED log, NEW k \in DOMAIN jobs, NEW j, Becomes(k, j),
           JobTyped(k, j)
    PROVE  TypeInv'
<1>1. JobsTyped' /\ LogsTyped'  BY BecomesTyped, SameLogTyped DEF Steady
<1> QED  BY <1>1, SteadyFacts DEF TypeInv

\* A step of a handler that writes the state s of node n.
LEMMA WritingTyped ==
    ASSUME Inv, TypeInv, Steady, NEW k \in DOMAIN jobs, NEW j, Becomes(k, j),
           JobTyped(k, j), NEW n \in Nodes, NEW s, EntryTyped(s), Writes(n, s)
    PROVE  TypeInv'
<1>1. JobsTyped' /\ LogsTyped'  BY BecomesTyped, WritesTyped DEF Steady
<1> QED  BY <1>1, SteadyFacts DEF TypeInv

LEMMA TypedFacts ==
    ASSUME Inv, TypeInv, NEW k \in DOMAIN jobs
    PROVE  /\ k[1] \in Requests /\ scenario \in Scenarios
           /\ jobs[k].at \in Nodes /\ EntryTyped(Mem(jobs[k].at))
           /\ DataOk(k, jobs[k]) /\ StageOk(jobs[k])
           /\ jobs[k].pc # "done" => Chunked(jobs[k])
           /\ jobs[k].pc \in {"put", "send", "wait"} => Grouped(jobs[k])
<1>1. k[1] \in Requests /\ scenario \in Scenarios  BY JobFacts DEF Inv
<1>2. DataOk(k, jobs[k]) /\ StageOk(jobs[k])  BY DEF TypeInv, JobsTyped, JobTyped
<1>3. jobs[k].at \in Nodes  BY <1>2 DEF DataOk
<1> QED  BY <1>1, <1>2, <1>3, LogTypedFacts DEF StageOk

\* The loop over the groups.
LEMMA RunGroupsTyped ==
    ASSUME Inv, TypeInv, Steady, NEW k \in DOMAIN jobs,
           NEW j, DataOk(k, j), HasChunks(j), Chunked(j),
           j.op \in ObjectOps \ Reads,
           ForOne(j) => j.groups = <<>> \/ j.groups = Head(j.chunks),
           j.form = "single" /\ j.op = "patch" /\ j.groups # <<>>
           /\ j.at \in Range(Owners[ShardOfGroup(Head(j.groups))]) => DOMAIN j.rows # {},
           RunGroups(k, j)
    PROVE  TypeInv'
<1> DEFINE r == k[1]
           n == j.at
           s == Mem(n)
           isLocal == j.groups # <<>> /\ n \in Range(Owners[ShardOfGroup(Head(j.groups))])
           error == IF isLocal THEN LocalError(j, s) ELSE 0
           written == AfterLocalWrite(r, j, s)
           next == IF written.groups = <<>> THEN AfterGroups(written) ELSE ToOwners(written)
           onward == IF j.groups = <<>> THEN AfterGroups(j) ELSE ToOwners(j)
<1>1. \/ Becomes(k, Failed(j, error)) /\ UNCHANGED log
      \/ /\ isLocal /\ error = 0
         /\ Becomes(k, next) /\ Writes(n, LocalWrite(r, j, s))
      \/ Becomes(k, onward) /\ UNCHANGED log
    BY DEF RunGroups
<1>2. /\ r \in Requests /\ n \in Nodes /\ EntryTyped(s)
    BY TypedFacts, LogTypedFacts DEF DataOk
<1>3. CASE Becomes(k, Failed(j, error)) /\ UNCHANGED log
    <2> HIDE DEF error
    <2>1. JobTyped(k, Failed(j, error))  BY FailedTyped
    <2> QED  BY <1>3, <2>1, QuietTyped
<1>4. CASE Becomes(k, onward) /\ UNCHANGED log
    <2>1. ASSUME j.groups = <<>> PROVE JobTyped(k, onward)  BY <2>1, AfterGroupsTyped
    <2>2. ASSUME j.groups # <<>> PROVE JobTyped(k, onward)
        BY <2>2, ToOwnersTyped DEF Grouped, Chunked
    <2> HIDE DEF onward
    <2> QED  BY <1>4, <2>1, <2>2, QuietTyped
<1>5. CASE isLocal /\ error = 0 /\ Becomes(k, next) /\ Writes(n, LocalWrite(r, j, s))
    <2>1. LocalError(j, s) = 0  BY <1>5
    <2>2. EntryTyped(LocalWrite(r, j, s))  BY <1>2, <2>1, LocalWriteTyped
    <2>3. j.form = "single" /\ j.op \in {"replace", "patch"} => Targets(j, s) # {}
        <3> SUFFICES ASSUME j.form = "single", j.op \in {"replace", "patch"}
                     PROVE  Targets(j, s) # {}
            OBVIOUS
        <3>1. CASE j.op = "patch"
            <4>1. DOMAIN j.rows # {}  BY <1>5, <3>1
            <4> QED  BY <3>1, <4>1, TargetsFacts
        <3>2. CASE j.op = "replace"
            <4>1. ForOne(j)  BY <3>2 DEF ForOne
            <4>2. PICK id \in Ids : j.chunks = << <<{id}>> >>
                BY <4>1 DEF Chunked, OneObject
            <4>3. j.groups = <<{id}>>  BY <1>5, <4>1, <4>2
            <4>4. ShardOfGroup(Head(j.groups)) = ShardOf[id]  BY <4>2, <4>3, OneObjectFacts
            <4>5. Local(n, id)  BY <1>5, <4>4 DEF Local
            <4>6. Head(j.chunks) = <<{id}>>  BY <4>2
            <4>7. Range(<<{id}>>) = {{id}}
                <5>1. DOMAIN <<{id}>> = {1} /\ <<{id}>>[1] = {id}  OBVIOUS
                <5> QED  BY <5>1 DEF Range
            <4>8. id \in LocalIds(j)  BY <4>5, <4>6, <4>7 DEF LocalIds
            <4> QED  BY <3>2, <4>8, TargetsFacts
        <3> QED  BY <3>1, <3>2
    <2>4. DataOk(k, written)  BY <1>2, <2>3, AfterLocalWriteTyped
    <2>5. /\ written.op = j.op /\ written.form = j.form /\ written.chunks = j.chunks
          /\ written.groups = Tail(j.groups)
        BY DEF AfterLocalWrite, DataOk, JobFields
    <2>6. ForOne(written) => written.groups = <<>>
        <3> SUFFICES ASSUME ForOne(written) PROVE written.groups = <<>>  OBVIOUS
        <3>1. ForOne(j)  BY <2>5 DEF ForOne
        <3>2. PICK id \in Ids : j.chunks = << <<{id}>> >>
            BY <3>1 DEF Chunked, OneObject
        <3>3. j.groups = <<{id}>>  BY <1>5, <3>1, <3>2
        <3> QED  BY <2>5, <3>3
    <2>7. Chunked(written)  BY <2>5 DEF Chunked, ForOne
    <2>8. JobTyped(k, next)
        <3> HIDE DEF written
        <3>1. CASE written.groups = <<>>  BY <2>4, <2>7, <3>1, AfterGroupsTyped
        <3>2. CASE written.groups # <<>>
            <4>1. Grouped(written)  BY <2>6, <3>2 DEF Grouped
            <4> QED  BY <2>4, <3>2, <4>1, ToOwnersTyped
        <3> QED  BY <3>1, <3>2
    <2> HIDE DEF next, n, s
    <2> QED  BY <1>2, <1>5, <2>2, <2>8, WritingTyped
<1> QED  BY <1>1, <1>3, <1>4, <1>5

----------------------------------------------------------------------------
\* The steps.

LEMMA AnswerTyped ==
    ASSUME Inv, TypeInv, Steady, UNCHANGED log, NEW k \in DOMAIN jobs, NEW status,
           Becomes(k, Answered(jobs[k], status))
    PROVE  TypeInv'
<1>1. JobTyped(k, Answered(jobs[k], status))
    <2>1. DataOk(k, jobs[k])  BY TypedFacts
    <2> QED  BY <2>1, AnsweredTyped
<1> QED  BY <1>1, QuietTyped

LEMMA SteadySteps ==
    ASSUME NEW k,
           \/ Receive(k) \/ BeginRead(k) \/ BeginObjects(k) \/ BeginFile(k) \/ ReadBlob(k)
           \/ PutBlob(k) \/ Save(k) \/ Unlink(k) \/ Return(k) \/ Disconnected(k)
           \/ BeginDrop(k) \/ BeginCreate(k) \/ FanReturn(k) \/ FanDone(k) \/ Failure(k)
    PROVE  Steady
BY DEF Receive, BeginRead, BeginObjects, BeginFile, ReadBlob, PutBlob, Save, Unlink, Return,
       Disconnected, BeginDrop, BeginCreate, FanReturn, FanDone, Failure, Refuse,
       PutBlobFails, SaveFails, Unreachable, TimesOut, NoFault, Fault, Steady

LEMMA ReceiveTyped == ASSUME Inv, TypeInv, NEW k, Receive(k) PROVE TypeInv'
<1> DEFINE j == jobs[k]
           a == [j EXCEPT !.pc = "body", !.started = TRUE, !.known = {id \in Ids : Acknowledged(id)}]
<1>1. k \in DOMAIN jobs /\ j.pc = "new" /\ log' = log /\ Steady
    BY SteadySteps DEF Receive, At
<1>2. Becomes(k, a) \/ Becomes(k, Answered(j, 401))  BY DEF Receive
<1>3. DataOk(k, j) /\ Chunked(j)  BY <1>1, TypedFacts
<1>4. SameData(a, j) /\ a.pc = "body" /\ a.chunks = j.chunks
    BY <1>3 DEF DataOk, JobFields, SameData
<1> HIDE DEF a
<1>5. JobTyped(k, a)  BY <1>3, <1>4, GoesOn DEF Stages
<1> QED  BY <1>1, <1>2, <1>5, QuietTyped, AnswerTyped

LEMMA RefuseTyped == ASSUME Inv, TypeInv, NEW k, Refuse(k) PROVE TypeInv'
<1>1. k \in DOMAIN jobs /\ log' = log /\ Steady
    BY SteadySteps DEF Refuse, At, Failure
<1>2. \E status : Becomes(k, Answered(jobs[k], status))  BY DEF Refuse
<1> QED  BY <1>1, <1>2, AnswerTyped

LEMMA ReadBlobTyped == ASSUME Inv, TypeInv, NEW k, ReadBlob(k) PROVE TypeInv'
<1>1. k \in DOMAIN jobs /\ log' = log /\ Steady  BY SteadySteps DEF ReadBlob, At
<1>2. \E status : Becomes(k, Answered(jobs[k], status))  BY DEF ReadBlob
<1> QED  BY <1>1, <1>2, AnswerTyped

LEMMA PutBlobFailsTyped == ASSUME Inv, TypeInv, NEW k, PutBlobFails(k) PROVE TypeInv'
<1>1. k \in DOMAIN jobs /\ log' = log /\ Steady
    BY SteadySteps DEF PutBlobFails, At, Failure
<1>2. \E status : Becomes(k, Answered(jobs[k], status))  BY DEF PutBlobFails
<1> QED  BY <1>1, <1>2, AnswerTyped

LEMMA SaveFailsTyped == ASSUME Inv, TypeInv, NEW k, SaveFails(k) PROVE TypeInv'
<1> DEFINE a == [Answered(jobs[k], 500) EXCEPT !.unsaved = TRUE]
<1>1. k \in DOMAIN jobs /\ log' = log /\ Steady /\ Becomes(k, a)
    BY SteadySteps DEF SaveFails, At, Failure
<1>2. DataOk(k, jobs[k])  BY <1>1, TypedFacts
<1>3. SameData(a, jobs[k]) /\ a.pc = "done"
    BY <1>2 DEF Answered, DataOk, JobFields, SameData
<1> HIDE DEF a
<1>4. StageOk(a)  BY <1>3 DEF StageOk, Stages
<1>5. JobTyped(k, a)  BY <1>2, <1>3, <1>4, DataKept DEF JobTyped
<1> QED  BY <1>1, <1>5, QuietTyped

LEMMA UnlinkTyped == ASSUME Inv, TypeInv, NEW k, Unlink(k) PROVE TypeInv'
<1> DEFINE j == jobs[k]
           a == [j EXCEPT !.pc = "fan"]
<1>1. k \in DOMAIN jobs /\ j.pc = "unlink" /\ log' = log /\ Steady
    BY SteadySteps DEF Unlink, At
<1>2. Becomes(k, a) \/ Becomes(k, Completed(j))  BY DEF Unlink
<1>3. DataOk(k, j) /\ Chunked(j)  BY <1>1, TypedFacts
<1>4. SameData(a, j) /\ a.pc = "fan" /\ a.chunks = j.chunks
    BY <1>3 DEF DataOk, JobFields, SameData
<1> HIDE DEF a
<1>5. JobTyped(k, a) /\ JobTyped(k, Completed(j))
    BY <1>3, <1>4, GoesOn, CompletedTyped DEF Stages
<1> QED  BY <1>1, <1>2, <1>5, QuietTyped

\* The groups of the first chunk.
LEMMA ChunkTyped ==
    ASSUME Inv, TypeInv, NEW k \in DOMAIN jobs, jobs[k].pc = "body",
           jobs[k].op \in ObjectOps
    PROVE  LET j == [jobs[k] EXCEPT !.groups = Head(jobs[k].chunks)]
           IN  /\ DataOk(k, j) /\ Chunked(j) /\ Grouped(j) /\ HasChunks(j)
               /\ j.groups = Head(j.chunks)
               /\ j.op = jobs[k].op /\ j.form = jobs[k].form /\ j.at = jobs[k].at
               /\ ForOne(j) => Object(j.chunks) \in Ids
<1> DEFINE i == jobs[k]
           j == [i EXCEPT !.groups = Head(i.chunks)]
<1>1. DataOk(k, i) /\ Chunked(i) /\ HasChunks(i)
    BY TypedFacts, RestedFacts DEF Rested
<1>2. SameData(j, i) /\ j.chunks = i.chunks /\ j.groups = Head(i.chunks)
    BY <1>1 DEF DataOk, JobFields, SameData
<1> HIDE DEF j
<1>3. DataOk(k, j) /\ Chunked(j) /\ Grouped(j) /\ HasChunks(j)
    BY <1>1, <1>2, DataKept DEF Chunked, Grouped, ForOne, HasChunks, SameData
<1>4. \A c \in OneObject : Object(c) \in Ids  BY OneObjectFacts DEF OneObject
<1>5. ForOne(j) => Object(j.chunks) \in Ids  BY <1>3, <1>4 DEF Chunked
<1> QED  BY <1>2, <1>3, <1>5 DEF j, SameData

\* The file key in a row is remembered.
LEMMA BeforeTyped ==
    ASSUME NEW k, NEW j, DataOk(k, j), NEW file \in Files, NEW a, DOMAIN a = JobFields,
           a.op = j.op, a.form = j.form, a.at = j.at,
           a.rows = j.rows, a.olds = j.olds, a.before = file,
           a.wrote = j.wrote, a.did = j.did, a.part = j.part, a.count = j.count
    PROVE  DataOk(k, a)
BY DEF DataOk

LEMMA BeginReadTyped == ASSUME Inv, TypeInv, NEW k, BeginRead(k) PROVE TypeInv'
<1> DEFINE j == [jobs[k] EXCEPT !.groups = Head(jobs[k].chunks)]
           row == Mem(j.at).rows[Object(j.chunks)]
           f == [j EXCEPT !.before = row.file]
<1>1. /\ k \in DOMAIN jobs /\ jobs[k].pc = "body" /\ jobs[k].op \in Reads
      /\ log' = log /\ Steady
    BY SteadySteps DEF BeginRead, At
<1>2. \/ Becomes(k, ToOwners(j)) \/ Becomes(k, Found(k, f)) \/ Becomes(k, Answered(j, 404))
    BY DEF BeginRead
<1>3. /\ DataOk(k, j) /\ Chunked(j) /\ Grouped(j) /\ j.op = jobs[k].op /\ j.at = jobs[k].at
      /\ ForOne(j) => Object(j.chunks) \in Ids
    BY <1>1, ChunkTyped, OpsApart
<1>4. ForOne(j)
    <2>1. k[1] \in Requests /\ scenario \in Scenarios  BY <1>1, TypedFacts
    <2>2. j.op = Req(k[1]).op /\ j.form = Req(k[1]).form /\ j.op \in Reads
        BY <1>1, <1>3 DEF DataOk
    <2> HIDE DEF j
    <2> QED  BY <2>1, <2>2, RequestFacts, OpsApart DEF ForOne
<1>5. row.file \in Files
    <2>1. EntryTyped(Mem(j.at))  BY <1>1, <1>3, TypedFacts
    <2>2. Object(j.chunks) \in Ids  BY <1>3, <1>4
    <2> HIDE DEF j
    <2> QED  BY <2>1, <2>2, RowFacts DEF EntryTyped
<1>6. /\ DOMAIN f = JobFields /\ f.op = j.op /\ f.form = j.form /\ f.at = j.at
      /\ f.rows = j.rows /\ f.olds = j.olds /\ f.before = row.file
      /\ f.wrote = j.wrote /\ f.did = j.did /\ f.part = j.part /\ f.count = j.count
      /\ f.chunks = j.chunks
    BY <1>3 DEF DataOk, JobFields
<1> HIDE DEF f, row, j
<1>7. DataOk(k, f)  BY <1>3, <1>5, <1>6, BeforeTyped
<1>8. Chunked(f)  BY <1>3, <1>6 DEF Chunked, ForOne
<1>9. JobTyped(k, ToOwners(j)) /\ JobTyped(k, Found(k, f)) /\ JobTyped(k, Answered(j, 404))
    BY <1>3, <1>7, <1>8, ToOwnersTyped, FoundTyped, AnsweredTyped
<1>10. ASSUME NEW e, JobTyped(k, e), Becomes(k, e) PROVE TypeInv'
    BY <1>1, <1>10, QuietTyped
<1> QED  BY <1>2, <1>9, <1>10

\* What was compiled or looked up are rows.
LEMMA PreparedTyped ==
    ASSUME NEW k, k[1] \in Requests, NEW j, DataOk(k, j), HasChunks(j),
           EntryTyped(Mem(j.at))
    PROVE  LET p == Prepared(k[1], j)
           IN  /\ DOMAIN p \subseteq Ids /\ \A id \in DOMAIN p : p[id] \in Row
               /\ j.op = "patch" => DOMAIN p = {id \in LocalIds(j) : Present(Mem(j.at).rows[id])}
<1> DEFINE there == {id \in LocalIds(j) : Present(Mem(j.at).rows[id])}
           p == Prepared(k[1], j)
<1>1. there \subseteq Ids  BY LocalIdsFacts
<1>2. \A id \in there : Mem(j.at).rows[id] \in Row /\ Patched(Mem(j.at).rows[id], k[1]) \in Row
    BY <1>1, RowFacts DEF EntryTyped
<1> HIDE DEF there
<1>3. CASE j.op = "patch"
    <2>1. p = [id \in there |-> Patched(Mem(j.at).rows[id], k[1])]
        BY <1>3 DEF Prepared, there, CompileFrom
    <2> HIDE DEF p
    <2> QED  BY <1>1, <1>2, <2>1 DEF p, there
<1>4. CASE j.op = "remove"
    <2>1. p = [id \in there |-> Mem(j.at).rows[id]]  BY <1>4 DEF Prepared, there
    <2> HIDE DEF p
    <2> QED  BY <1>1, <1>2, <1>4, <2>1 DEF p
<1>5. CASE j.op \notin {"patch", "remove"}
    <2>1. p = <<>>  BY <1>5 DEF Prepared
    <2>2. DOMAIN <<>> = {}  OBVIOUS
    <2> HIDE DEF p
    <2> QED  BY <1>5, <2>1, <2>2 DEF p
<1> QED  BY <1>3, <1>4, <1>5

LEMMA BeginObjectsTyped == ASSUME Inv, TypeInv, NEW k, BeginObjects(k) PROVE TypeInv'
<1> DEFINE j == [jobs[k] EXCEPT !.groups = Head(jobs[k].chunks)]
           p == [j EXCEPT !.rows = Prepared(k[1], j)]
           absent == /\ j.form = "single" /\ j.op \in {"patch", "remove"}
                     /\ Local(j.at, Object(j.chunks))
                     /\ ~Present(Mem(j.at).rows[Object(j.chunks)])
<1>1. /\ k \in DOMAIN jobs /\ jobs[k].pc = "body" /\ jobs[k].op \in ObjectOps \ Reads /\ Steady
    BY SteadySteps DEF BeginObjects, At
<1>2. \/ Becomes(k, Answered(j, 404)) /\ log' = log
      \/ ~absent /\ RunGroups(k, p)
    BY DEF BeginObjects
<1>3. /\ DataOk(k, j) /\ Chunked(j) /\ HasChunks(j) /\ j.groups = Head(j.chunks)
      /\ j.op = jobs[k].op /\ j.at = jobs[k].at
    BY <1>1, ChunkTyped
<1>4. k[1] \in Requests /\ EntryTyped(Mem(j.at))  BY <1>1, <1>3, TypedFacts
<1>5. /\ DOMAIN p = JobFields /\ p.op = j.op /\ p.form = j.form /\ p.at = j.at
      /\ p.rows = Prepared(k[1], j) /\ p.olds = j.olds /\ p.before = j.before
      /\ p.wrote = j.wrote /\ p.did = j.did /\ p.part = j.part /\ p.count = j.count
      /\ p.chunks = j.chunks /\ p.groups = j.groups
    BY <1>3 DEF DataOk, JobFields
<1> HIDE DEF p, j
<1>6. /\ DOMAIN p.rows \subseteq Ids /\ \A id \in DOMAIN p.rows : p.rows[id] \in Row
      /\ j.op = "patch" => DOMAIN p.rows = {id \in LocalIds(j) : Present(Mem(j.at).rows[id])}
    <2> DEFINE rows == Prepared(k[1], j)
    <2>1. /\ DOMAIN rows \subseteq Ids /\ \A id \in DOMAIN rows : rows[id] \in Row
          /\ j.op = "patch" => DOMAIN rows = {id \in LocalIds(j) : Present(Mem(j.at).rows[id])}
        BY <1>3, <1>4, PreparedTyped
    <2>2. p.rows = rows  BY <1>5
    <2> HIDE DEF rows
    <2> QED  BY <2>1, <2>2
<1>7. DataOk(k, p)  BY <1>3, <1>5, <1>6 DEF DataOk
<1>8. CASE Becomes(k, Answered(j, 404)) /\ log' = log
    BY <1>1, <1>3, <1>8, AnsweredTyped, QuietTyped
<1>9. CASE ~absent /\ RunGroups(k, p)
    <2>1. Chunked(p) /\ HasChunks(p) /\ p.op \in ObjectOps \ Reads
          /\ p.groups = Head(p.chunks)
        BY <1>1, <1>3, <1>5 DEF Chunked, ForOne, HasChunks
    <2>2. ASSUME p.form = "single", p.op = "patch",
                 p.at \in Range(Owners[ShardOfGroup(Head(p.groups))])
          PROVE  DOMAIN p.rows # {}
        <3>1. ForOne(p)  BY <2>1, <2>2 DEF ForOne
        <3>2. PICK id \in Ids : p.chunks = << <<{id}>> >>
            BY <2>1, <3>1 DEF Chunked, OneObject
        <3>3. /\ Object(p.chunks) = id /\ Head(p.chunks) = <<{id}>>
              /\ Head(p.groups) = {id} /\ ShardOfGroup({id}) = ShardOf[id]
            BY <2>1, <3>2, OneObjectFacts
        <3>4. Local(j.at, id)  BY <1>5, <2>2, <3>3 DEF Local
        <3>5. Range(<<{id}>>) = {{id}}
            <4>1. DOMAIN <<{id}>> = {1} /\ <<{id}>>[1] = {id}  OBVIOUS
            <4> QED  BY <4>1 DEF Range
        <3>6. id \in LocalIds(j)  BY <1>5, <3>3, <3>4, <3>5 DEF LocalIds
        <3>7. Present(Mem(j.at).rows[id])  BY <1>5, <1>9, <2>2, <3>3, <3>4
        <3> QED  BY <1>5, <1>6, <2>2, <3>6, <3>7
    <2> QED  BY <1>1, <1>7, <1>9, <2>1, <2>2, RunGroupsTyped
<1> HIDE DEF absent
<1> QED  BY <1>2, <1>8, <1>9

LEMMA BeginFileTyped == ASSUME Inv, TypeInv, NEW k, BeginFile(k) PROVE TypeInv'
<1> DEFINE j == [jobs[k] EXCEPT !.groups = Head(jobs[k].chunks)]
           row == Mem(j.at).rows[Object(j.chunks)]
           p == [j EXCEPT !.pc = "put", !.before = row.file]
           q == [j EXCEPT !.before = row.file]
<1>1. /\ k \in DOMAIN jobs /\ jobs[k].pc = "body" /\ jobs[k].op \in ObjectOps
      /\ jobs[k].form = "file" /\ log' = log /\ Steady
    BY SteadySteps DEF BeginFile, At
<1>2. \/ Becomes(k, ToOwners(j)) \/ Becomes(k, Answered(j, 409)) \/ Becomes(k, p)
    BY DEF BeginFile
<1>3. /\ DataOk(k, j) /\ Chunked(j) /\ Grouped(j) /\ j.op = jobs[k].op /\ j.at = jobs[k].at
      /\ j.form = jobs[k].form
      /\ ForOne(j) => Object(j.chunks) \in Ids
    BY <1>1, ChunkTyped
<1>4. row.file \in Files
    <2>1. EntryTyped(Mem(j.at))  BY <1>1, <1>3, TypedFacts
    <2>2. Object(j.chunks) \in Ids  BY <1>1, <1>3 DEF ForOne
    <2> HIDE DEF j
    <2> QED  BY <2>1, <2>2, RowFacts DEF EntryTyped
<1>5. /\ DOMAIN q = JobFields /\ q.op = j.op /\ q.form = j.form /\ q.at = j.at
      /\ q.rows = j.rows /\ q.olds = j.olds /\ q.before = row.file
      /\ q.wrote = j.wrote /\ q.did = j.did /\ q.part = j.part /\ q.count = j.count
      /\ q.chunks = j.chunks /\ q.groups = j.groups
    BY <1>3 DEF DataOk, JobFields
<1>6. SameData(p, q) /\ p.pc = "put" /\ p.chunks = q.chunks /\ p.groups = q.groups
    BY <1>3 DEF DataOk, JobFields, SameData
<1> HIDE DEF p, q, row, j
<1>7. DataOk(k, q)  BY <1>3, <1>4, <1>5, BeforeTyped
<1>8. Chunked(q) /\ Grouped(q)  BY <1>3, <1>5 DEF Chunked, Grouped, ForOne
<1>9. JobTyped(k, p)  BY <1>1, <1>3, <1>5, <1>6, <1>7, <1>8, GoesOn DEF Stages
<1>10. JobTyped(k, ToOwners(j)) /\ JobTyped(k, Answered(j, 409))
    BY <1>3, ToOwnersTyped, AnsweredTyped
<1> QED  BY <1>1, <1>2, <1>9, <1>10, QuietTyped

LEMMA PutBlobTyped == ASSUME Inv, TypeInv, NEW k, PutBlob(k) PROVE TypeInv'
<1> DEFINE j == jobs[k]
<1>1. k \in DOMAIN jobs /\ j.pc = "put" /\ Steady /\ RunGroups(k, j)
    BY SteadySteps DEF PutBlob, At
<1>2. /\ DataOk(k, j) /\ Chunked(j) /\ Grouped(j) /\ k[1] \in Requests
      /\ scenario \in Scenarios
    BY <1>1, TypedFacts
<1>3. j.op \in ObjectOps \ Reads /\ HasChunks(j)  BY <1>1, JobFacts DEF Placed
<1>4. j.form = "single" /\ j.op = "patch" /\ j.groups # <<>>
      /\ j.at \in Range(Owners[ShardOfGroup(Head(j.groups))]) => DOMAIN j.rows # {}
    BY <1>1, TypedFacts DEF StageOk
<1> HIDE DEF j
<1> QED  BY <1>1, <1>2, <1>3, <1>4, RunGroupsTyped DEF Grouped

LEMMA SaveTyped == ASSUME Inv, TypeInv, NEW k, Save(k) PROVE TypeInv'
<1> DEFINE j == jobs[k]
           n == j.at
<1>1. k \in DOMAIN jobs /\ j.pc = "save" /\ Steady /\ Becomes(k, AfterSave(k, j))
    BY SteadySteps DEF Save, At
<1>2. DataOk(k, j) /\ Chunked(j) /\ n \in Nodes  BY <1>1, TypedFacts
<1>3. PICK i \in DOMAIN log[n] : log' = [log EXCEPT ![n] = SubSeq(log[n], i, Len(log[n]))]
    BY DEF Save
<1>4. IsLog(log[n]) /\ DOMAIN log = Nodes  BY <1>2 DEF Inv, LogsOk
<1>5. /\ log'[n] = SubSeq(log[n], i, Len(log[n]))
      /\ \A m \in Nodes \ {n} : log'[m] = log[m]
    BY <1>2, <1>3, <1>4
<1> DEFINE l == log[n]
<1>6. \A h \in DOMAIN l : EntryTyped(l[h])  BY <1>2 DEF TypeInv, LogsTyped
<1>7. \A h \in DOMAIN SubSeq(l, i, Len(l)) : \E g \in DOMAIN l : SubSeq(l, i, Len(l))[h] = l[g]
    <2>1. PICK S : l \in Seq(S)  BY <1>4 DEF IsLog
    <2>2. i \in 1..Len(l) /\ Len(l) \in Nat /\ DOMAIN l = 1..Len(l)
        BY <1>3, <2>1
    <2> HIDE DEF l
    <2> DEFINE m == SubSeq(l, i, Len(l))
    <2>3. /\ m \in Seq(S) /\ Len(m) = Len(l) - i + 1
          /\ \A h \in 1..(Len(l) - i + 1) : m[h] = l[i + h - 1]
        BY <2>1, <2>2
    <2>4. DOMAIN m = 1..(Len(l) - i + 1)  BY <2>3
    <2>5. \A h \in 1..(Len(l) - i + 1) : i + h - 1 \in 1..Len(l)  BY <2>2
    <2> HIDE DEF m
    <2> QED  BY <2>2, <2>3, <2>4, <2>5 DEF m
<1>8. \A h \in DOMAIN log'[n] : EntryTyped(log'[n][h])
    <2> HIDE DEF l
    <2>1. log'[n] = SubSeq(l, i, Len(l))  BY <1>5 DEF l
    <2> QED  BY <1>6, <1>7, <2>1
<1>9. \A m \in Nodes : \A h \in DOMAIN log'[m] : EntryTyped(log'[m][h])
    BY <1>5, <1>8 DEF TypeInv, LogsTyped
<1>10. LogsTyped'  BY <1>1, <1>9, SameScenario DEF LogsTyped, Steady
<1>11. JobTyped(k, AfterSave(k, j))  BY <1>2, AfterSaveTyped
<1>12. JobsTyped'  BY <1>1, <1>11, BecomesTyped DEF Steady
<1> QED  BY <1>1, <1>10, <1>12, SteadyFacts DEF TypeInv

\* The attempt has brought no answer, or one that does not count.
LEMMA AttemptTyped ==
    ASSUME Inv, TypeInv, Steady, UNCHANGED log, NEW k \in DOMAIN jobs,
           jobs[k].pc \in {"send", "wait"}, NEW a, SameData(a, jobs[k]),
           a.chunks = jobs[k].chunks, a.groups = jobs[k].groups, NEW status,
           Becomes(k, NextOwner(a, status))
    PROVE  TypeInv'
<1>1. DataOk(k, jobs[k]) /\ Grouped(jobs[k])  BY TypedFacts
<1>2. DataOk(k, a) /\ Grouped(a)  BY <1>1, DataKept DEF Grouped, ForOne, SameData
<1>3. JobTyped(k, NextOwner(a, status))  BY <1>2, NextOwnerTyped
<1> QED  BY <1>3, QuietTyped

LEMMA MissedTyped ==
    ASSUME Inv, TypeInv, NEW k, Unreachable(k) \/ TimesOut(k) \/ Disconnected(k)
    PROVE  TypeInv'
<1> DEFINE j == jobs[k]
           a == [j EXCEPT !.missed = TRUE]
<1>1. k \in DOMAIN jobs /\ j.pc \in {"send", "wait"} /\ log' = log /\ Steady
    BY SteadySteps DEF Unreachable, TimesOut, Disconnected, At, Failure
<1>2. \E status : Becomes(k, NextOwner(a, status))
    BY DEF Unreachable, TimesOut, Disconnected
<1>3. DataOk(k, j)  BY <1>1, TypedFacts
<1>4. SameData(a, j) /\ a.chunks = j.chunks /\ a.groups = j.groups
    BY <1>3 DEF DataOk, JobFields, SameData
<1> HIDE DEF a
<1> QED  BY <1>1, <1>2, <1>4, AttemptTyped

LEMMA ReturnTyped == ASSUME Inv, TypeInv, NEW k, Return(k) PROVE TypeInv'
<1> DEFINE i == jobs[k]
           c == jobs[i.child]
           j == [i EXCEPT !.child = <<>>]
           m == [j EXCEPT !.missed = @ \/ c.status # 404]
           e == [j EXCEPT !.started = StartedMarker(j, c.started)]
           f == [j EXCEPT !.before = c.before]
           g == [j EXCEPT !.part = @ + c.count, !.groups = Tail(@)]
<1>1. /\ k \in DOMAIN jobs /\ i.pc = "wait" /\ i.child \in DOMAIN jobs /\ Steady
    BY SteadySteps DEF Return, At
<1>2. \/ Becomes(k, NextOwner(m, c.status)) /\ log' = log
      \/ Becomes(k, Failed(e, c.status)) /\ log' = log
      \/ Becomes(k, Found(k, f)) /\ log' = log
      \/ j.op \notin Reads /\ RunGroups(k, g)
    BY DEF Return
<1>3. /\ DataOk(k, i) /\ Grouped(i) /\ Chunked(i) /\ k[1] \in Requests
      /\ i.op \in ObjectOps /\ HasChunks(i) /\ HasGroups(i)
    BY <1>1, TypedFacts, JobFacts DEF Placed
<1>4. c.before \in Files /\ c.count \in Nat  BY <1>1, TypedFacts DEF DataOk
<1>5. CASE Becomes(k, NextOwner(m, c.status)) /\ log' = log
    <2>1. SameData(m, i) /\ m.chunks = i.chunks /\ m.groups = i.groups
        BY <1>3 DEF DataOk, JobFields, SameData
    <2> HIDE DEF m
    <2> QED  BY <1>1, <1>5, <2>1, AttemptTyped
<1>6. CASE Becomes(k, Failed(e, c.status)) /\ log' = log
    <2>1. SameData(e, i) /\ e.chunks = i.chunks
        BY <1>3 DEF DataOk, JobFields, SameData
    <2> HIDE DEF e
    <2>2. DataOk(k, e) /\ Chunked(e)
        BY <1>3, <2>1, DataKept DEF Chunked, ForOne, SameData
    <2>3. JobTyped(k, Failed(e, c.status))  BY <2>2, FailedTyped
    <2> QED  BY <1>1, <1>6, <2>3, QuietTyped
<1>7. CASE Becomes(k, Found(k, f)) /\ log' = log
    <2>1. /\ DOMAIN f = JobFields /\ f.op = i.op /\ f.form = i.form /\ f.at = i.at
          /\ f.rows = i.rows /\ f.olds = i.olds /\ f.before = c.before
          /\ f.wrote = i.wrote /\ f.did = i.did /\ f.part = i.part /\ f.count = i.count
          /\ f.chunks = i.chunks
        BY <1>3 DEF DataOk, JobFields
    <2> HIDE DEF f
    <2>2. DataOk(k, f)  BY <1>3, <1>4, <2>1, BeforeTyped
    <2>3. Chunked(f)  BY <1>3, <2>1 DEF Chunked, ForOne
    <2>4. JobTyped(k, Found(k, f))  BY <2>2, <2>3, FoundTyped
    <2> QED  BY <1>1, <1>7, <2>4, QuietTyped
<1>8. CASE j.op \notin Reads /\ RunGroups(k, g)
    <2>1. /\ DOMAIN g = JobFields /\ g.op = i.op /\ g.form = i.form /\ g.at = i.at
          /\ g.rows = i.rows /\ g.olds = i.olds /\ g.before = i.before
          /\ g.wrote = i.wrote /\ g.did = i.did /\ g.part = i.part + c.count
          /\ g.count = i.count /\ g.chunks = i.chunks /\ g.groups = Tail(i.groups)
          /\ j.op = i.op
        BY <1>3 DEF DataOk, JobFields
    <2> HIDE DEF g, j, c
    <2>2. g.part \in Nat  BY <1>3, <1>4, <2>1 DEF DataOk
    <2>3. DataOk(k, g)  BY <1>3, <2>1, <2>2 DEF DataOk
    <2>4. Chunked(g) /\ HasChunks(g) /\ g.op \in ObjectOps \ Reads
        BY <1>3, <1>8, <2>1 DEF Chunked, ForOne, HasChunks
    <2>5. ForOne(g) => g.groups = <<>>
        <3> SUFFICES ASSUME ForOne(g) PROVE g.groups = <<>>  OBVIOUS
        <3>1. i.chunks \in OneObject /\ i.groups = Head(i.chunks)
            BY <1>3, <2>1 DEF ForOne, Grouped
        <3>2. PICK id \in Ids : i.chunks = << <<{id}>> >>  BY <3>1 DEF OneObject
        <3>3. i.groups = <<{id}>>  BY <3>1, <3>2
        <3> QED  BY <2>1, <3>3
    <2>6. g.form = "single" /\ g.op = "patch" => g.groups = <<>>
        BY <2>4, <2>5 DEF ForOne
    <2> QED  BY <1>1, <1>8, <2>3, <2>4, <2>5, <2>6, RunGroupsTyped
<1> HIDE DEF i, c, j, m, e, f, g
<1> QED  BY <1>2, <1>5, <1>6, <1>7, <1>8

LEMMA SendTyped == ASSUME Inv, TypeInv, NEW k, Send(k) PROVE TypeInv'
<1> DEFINE j == jobs[k]
           c == ChildKey(k, Head(j.peers))
           a == [j EXCEPT !.pc = "wait", !.child = c]
           chunks == << <<Head(j.groups)>> >>
           e == NewJob(k[1], Head(j.peers), chunks)
<1>1. /\ k \in DOMAIN jobs /\ j.pc = "send" /\ log' = log /\ Steady
      /\ jobs' = [q \in DOMAIN jobs \cup {c} |-> IF q = k THEN a ELSE IF q = c THEN e ELSE jobs[q]]
    BY DEF Send, At, NoFault, Steady
<1>2. /\ DataOk(k, j) /\ Grouped(j) /\ Chunked(j) /\ k[1] \in Requests
      /\ scenario \in Scenarios /\ j.op \in ObjectOps
      /\ j.peers \in Seq(Nodes) /\ j.peers # <<>>
    BY <1>1, TypedFacts, JobFacts DEF Placed
<1>3. c[1] = k[1]  BY DEF ChildKey
<1>4. JobTyped(c, e)
    <2>1. Head(j.peers) \in Nodes  BY <1>2
    <2>2. ASSUME Req(c[1]).op \in ObjectOps, Req(c[1]).form \in {"single", "file"}
          PROVE  chunks \in OneObject
        <3>1. ForOne(j)  BY <1>2, <1>3, <2>2 DEF ForOne, DataOk
        <3>2. PICK id \in Ids : j.chunks = << <<{id}>> >> /\ j.groups = Head(j.chunks)
            BY <1>2, <3>1 DEF Grouped, OneObject
        <3>3. j.groups = <<{id}>>  BY <3>2
        <3>4. Head(j.groups) = {id}  BY <3>3
        <3> QED  BY <3>4 DEF OneObject
    <2>3. e = NewJob(c[1], Head(j.peers), chunks)  BY <1>3
    <2> HIDE DEF e, c, j, chunks
    <2> QED  BY <1>2, <1>3, <2>1, <2>2, <2>3, NewJobTyped
<1>5. SameData(a, j) /\ a.pc = "wait" /\ a.chunks = j.chunks /\ a.groups = j.groups
    BY <1>2 DEF DataOk, JobFields, SameData
<1> HIDE DEF a, e, c
<1>6. JobTyped(k, a)  BY <1>2, <1>5, GoesOn DEF Stages
<1>7. \A q \in DOMAIN jobs' : JobTyped(q, jobs'[q])
    BY <1>1, <1>4, <1>6 DEF TypeInv, JobsTyped
<1>8. JobsTyped'  BY <1>1, <1>7, SameScenario DEF JobsTyped, Steady
<1>9. LogsTyped'  BY <1>1, SameLogTyped DEF Steady
<1> QED  BY <1>1, <1>8, <1>9, SteadyFacts DEF TypeInv

\* Dropping and creating a scope.
LEMMA ScopeOpFacts ==
    ASSUME NEW op \in ScopeOps
    PROVE  /\ op \notin ObjectOps /\ ScopeOf(op) \in Scopes
           /\ Scopes = {"db", "coll"}
BY DEF ScopeOps, ObjectOps, ScopeOf, Scopes

\* A handler of a scope goes to its save.
LEMMA ScopeSaveTyped ==
    ASSUME Inv, TypeInv, Steady, NEW k \in DOMAIN jobs, jobs[k].op \in ScopeOps,
           NEW a, DOMAIN a = JobFields, a.pc = "save", a.wrote = a.did,
           a.op = jobs[k].op, a.form = jobs[k].form, a.at = jobs[k].at,
           a.rows = jobs[k].rows, a.olds = jobs[k].olds, a.before = jobs[k].before,
           a.part = jobs[k].part, a.count = jobs[k].count, Becomes(k, a),
           NEW w, EntryTyped(w), Writes(jobs[k].at, w)
    PROVE  TypeInv'
<1>1. DataOk(k, jobs[k]) /\ jobs[k].at \in Nodes  BY TypedFacts
<1>2. DataOk(k, a)  BY <1>1 DEF DataOk
<1>3. StageOk(a)  BY ScopeOpFacts DEF StageOk, Stages, Chunked, ForOne
<1> QED  BY <1>1, <1>2, <1>3, WritingTyped DEF JobTyped

LEMMA BeginDropTyped == ASSUME Inv, TypeInv, NEW k, BeginDrop(k) PROVE TypeInv'
<1> DEFINE j == jobs[k]
           s == Mem(j.at)
           scope == ScopeOf(j.op)
           w == [Dropped(s, scope) EXCEPT !.ops = @ \cup {<<k[1], scope>>}]
           a == [j EXCEPT !.pc = "fan"]
           b == [j EXCEPT !.pc = "save", !.wrote = {<<k[1], scope>>},
                          !.did = {<<k[1], scope>>}, !.existed = scope \in s.live]
<1>1. k \in DOMAIN jobs /\ j.pc = "body" /\ j.op \in ScopeOps /\ Steady
    BY SteadySteps DEF BeginDrop, At, ScopeOps
<1>2. \/ Becomes(k, Answered(j, 404)) /\ log' = log
      \/ Becomes(k, a) /\ log' = log
      \/ Becomes(k, b) /\ Writes(j.at, w)
    BY DEF BeginDrop
<1>3. DataOk(k, j) /\ Chunked(j) /\ EntryTyped(s) /\ k[1] \in Requests /\ j.at \in Nodes
    BY <1>1, TypedFacts
<1>4. CASE Becomes(k, Answered(j, 404)) /\ log' = log  BY <1>1, <1>4, AnswerTyped
<1>5. CASE Becomes(k, a) /\ log' = log
    <2>1. SameData(a, j) /\ a.pc = "fan" /\ a.chunks = j.chunks
        BY <1>3 DEF DataOk, JobFields, SameData
    <2> HIDE DEF a
    <2>2. JobTyped(k, a)  BY <1>3, <2>1, GoesOn DEF Stages
    <2> QED  BY <1>1, <1>5, <2>2, QuietTyped
<1>6. CASE Becomes(k, b) /\ Writes(j.at, w)
    <2>1. /\ DOMAIN b = JobFields /\ b.pc = "save" /\ b.wrote = b.did
          /\ b.op = j.op /\ b.form = j.form /\ b.at = j.at /\ b.rows = j.rows
          /\ b.olds = j.olds /\ b.before = j.before /\ b.part = j.part /\ b.count = j.count
        BY <1>3 DEF DataOk, JobFields
    <2>2. DOMAIN s = StateFields  BY <1>3, LogTypedFacts
    <2>3. scope \in Scopes /\ Scopes = {"db", "coll"}  BY <1>1, ScopeOpFacts
    <2>4. /\ w.rows = NoRows /\ w.gone = s.gone \cup {scope}
          /\ w.live = IF scope = "db" THEN {} ELSE s.live \ {"coll"}
          /\ w.ops = s.ops \cup {<<k[1], scope>>}
        BY <2>2 DEF Dropped, StateFields
    <2> HIDE DEF w, s, scope, b
    <2>5. NoRows \in [Ids -> Row]  BY RowFacts DEF NoRows
    <2>6. w.live \subseteq Scopes /\ w.gone \subseteq Scopes
        BY <1>3, <2>3, <2>4 DEF EntryTyped
    <2>7. w.live \cap w.gone = {}
        <3>1. CASE scope = "db"  BY <2>4, <3>1
        <3>2. CASE scope = "coll"  BY <1>3, <2>4, <3>2 DEF EntryTyped
        <3> QED  BY <2>3, <3>1, <3>2
    <2>8. w.ops \subseteq Requests \X (Ids \cup Scopes)
        BY <1>3, <2>3, <2>4 DEF EntryTyped
    <2>9. EntryTyped(w)  BY <2>4, <2>5, <2>6, <2>7, <2>8 DEF EntryTyped
    <2> QED  BY <1>1, <1>6, <2>1, <2>9, ScopeSaveTyped
<1> QED  BY <1>2, <1>4, <1>5, <1>6

LEMMA BeginCreateTyped == ASSUME Inv, TypeInv, NEW k, BeginCreate(k) PROVE TypeInv'
<1> DEFINE j == jobs[k]
           s == Mem(j.at)
           scope == ScopeOf(j.op)
           w == [Created(s, scope) EXCEPT !.ops = @ \cup {<<k[1], scope>>}]
           v == [s EXCEPT !.gone = @ \ {"coll"}]
           b == [j EXCEPT !.pc = "save", !.wrote = {<<k[1], scope>>},
                          !.did = {<<k[1], scope>>}]
<1>1. k \in DOMAIN jobs /\ j.pc = "body" /\ j.op \in ScopeOps /\ Steady
    BY SteadySteps DEF BeginCreate, At, ScopeOps
<1>2. \/ Becomes(k, Answered(j, 409)) /\ Writes(j.at, v)
      \/ /\ scope = "coll" => "db" \notin s.gone
         /\ Becomes(k, b) /\ Writes(j.at, w)
    BY DEF BeginCreate
<1>3. DataOk(k, j) /\ Chunked(j) /\ EntryTyped(s) /\ k[1] \in Requests /\ j.at \in Nodes
    BY <1>1, TypedFacts
<1>4. DOMAIN s = StateFields  BY <1>3, LogTypedFacts
<1>5. CASE Becomes(k, Answered(j, 409)) /\ Writes(j.at, v)
    <2>1. v.rows = s.rows /\ v.live = s.live /\ v.gone = s.gone \ {"coll"} /\ v.ops = s.ops
        BY <1>4 DEF StateFields
    <2> HIDE DEF v, s
    <2>2. EntryTyped(v)  BY <1>3, <2>1 DEF EntryTyped
    <2>3. JobTyped(k, Answered(j, 409))  BY <1>3, AnsweredTyped
    <2> QED  BY <1>1, <1>3, <1>5, <2>2, <2>3, WritingTyped
<1>6. CASE (scope = "coll" => "db" \notin s.gone) /\ Becomes(k, b) /\ Writes(j.at, w)
    <2>1. /\ DOMAIN b = JobFields /\ b.pc = "save" /\ b.wrote = b.did
          /\ b.op = j.op /\ b.form = j.form /\ b.at = j.at /\ b.rows = j.rows
          /\ b.olds = j.olds /\ b.before = j.before /\ b.part = j.part /\ b.count = j.count
        BY <1>3 DEF DataOk, JobFields
    <2>2. scope \in Scopes /\ Scopes = {"db", "coll"}  BY <1>1, ScopeOpFacts
    <2>3. /\ w.rows = s.rows /\ w.gone = s.gone \ {scope}
          /\ w.live = IF scope \in s.live THEN s.live
                      ELSE IF scope = "db" THEN s.live \cup {"db"} ELSE Scopes
          /\ w.ops = s.ops \cup {<<k[1], scope>>}
        BY <1>4 DEF Created, StateFields
    <2> HIDE DEF w, s, scope, b
    <2>4. /\ s.live \subseteq w.live /\ w.live \subseteq Scopes /\ w.gone \subseteq Scopes
          /\ s.live \subseteq Scopes
        BY <1>3, <2>2, <2>3 DEF EntryTyped
    <2>5. w.live \cap w.gone = {}
        <3>1. CASE scope = "db"  BY <1>3, <2>3, <3>1 DEF EntryTyped
        <3>2. CASE scope = "coll"
            <4>1. w.gone = {}  BY <1>3, <1>6, <2>2, <2>3, <3>2 DEF EntryTyped
            <4> QED  BY <4>1
        <3> QED  BY <2>2, <3>1, <3>2
    <2>6. w.live # Scopes => w.rows = NoRows
        <3>1. w.live # Scopes => s.live # Scopes  BY <2>4
        <3> QED  BY <1>3, <2>3, <3>1 DEF EntryTyped
    <2>7. w.ops \subseteq Requests \X (Ids \cup Scopes)
        BY <1>3, <2>2, <2>3 DEF EntryTyped
    <2>8. EntryTyped(w)  BY <1>3, <2>3, <2>4, <2>5, <2>6, <2>7 DEF EntryTyped
    <2> QED  BY <1>1, <1>6, <2>1, <2>8, ScopeSaveTyped
<1> QED  BY <1>2, <1>5, <1>6

LEMMA FanOutTyped == ASSUME Inv, TypeInv, NEW k, FanOut(k) PROVE TypeInv'
<1> DEFINE j == jobs[k]
           others == Nodes \ {j.at}
<1>1. /\ k \in DOMAIN jobs /\ j.pc = "fan" /\ log' = log /\ scenario' = scenario
      /\ token' = token /\ restarted' = restarted
    BY DEF FanOut, At
<1>2. /\ DataOk(k, j) /\ Chunked(j) /\ k[1] \in Requests /\ scenario \in Scenarios
      /\ j.op \in ScopeOps
    BY <1>1, TypedFacts, FanFacts
<1>3. CASE IsForwarded(k)
    <2>1. Becomes(k, Answered(j, 200)) /\ faults' = faults  BY <1>3 DEF FanOut
    <2> QED  BY <1>1, <2>1, AnswerTyped DEF Steady
<1>4. CASE ~IsForwarded(k)
    <2>1. PICK down \in SUBSET others :
             /\ faults + Cardinality(down) <= MaxFaults
             /\ faults' = faults + Cardinality(down)
             /\ LET called == {ChildKey(k, n) : n \in others \ down}
                IN jobs' = [q \in DOMAIN jobs \cup called |->
                             IF q \in called THEN NewJob(k[1], q[2], <<>>)
                             ELSE IF q = k
                                  THEN [j EXCEPT !.pc = "fanned",
                                                 !.fan = [n \in others |-> IF n \in down THEN Unavailable ELSE 0]]
                             ELSE jobs[q]]
        BY <1>4 DEF FanOut
    <2> DEFINE C == {ChildKey(k, n) : n \in others \ down}
               a == [j EXCEPT !.pc = "fanned",
                              !.fan = [n \in others |-> IF n \in down THEN Unavailable ELSE 0]]
    <2>2. jobs' = [q \in DOMAIN jobs \cup C |->
                     IF q \in C THEN NewJob(k[1], q[2], <<>>)
                     ELSE IF q = k THEN a ELSE jobs[q]]
        BY <2>1
    <2>3. \A c \in C : c[1] = k[1] /\ c[2] \in Nodes
        <3>1. \A n : ChildKey(k, n)[1] = k[1] /\ ChildKey(k, n)[2] = n  BY DEF ChildKey
        <3> QED  BY <3>1
    <2>4. ASSUME NEW c \in C PROVE JobTyped(c, NewJob(k[1], c[2], <<>>))
        <3>1. Req(c[1]).op \notin ObjectOps  BY <1>2, <2>3, <2>4, OpsApart DEF DataOk
        <3>2. c[1] \in Requests /\ c[2] \in Nodes /\ c[1] = k[1]  BY <1>2, <2>3, <2>4
        <3> HIDE DEF C
        <3>3. JobTyped(c, NewJob(c[1], c[2], <<>>))  BY <1>2, <3>1, <3>2, NewJobTyped
        <3> QED  BY <3>2, <3>3
    <2>5. SameData(a, j) /\ a.pc = "fanned" /\ a.chunks = j.chunks
        BY <1>2 DEF DataOk, JobFields, SameData
    <2> HIDE DEF a, C
    <2>6. JobTyped(k, a)  BY <1>2, <2>5, GoesOn DEF Stages
    <2>7. \A q \in DOMAIN jobs' :
             \/ q \in C /\ jobs'[q] = NewJob(k[1], q[2], <<>>)
             \/ q = k /\ jobs'[q] = a
             \/ q \in DOMAIN jobs /\ jobs'[q] = jobs[q]
        BY <2>2
    <2>8. \A q \in DOMAIN jobs' : JobTyped(q, jobs'[q])
        BY <2>4, <2>6, <2>7 DEF TypeInv, JobsTyped
    <2>9. JobsTyped' /\ LogsTyped'
        BY <1>1, <2>8, SameScenario, SameLogTyped DEF JobsTyped
    <2>10. faults' \in 0..MaxFaults
        <3>1. IsFiniteSet(down)
            <4>1. down \subseteq Nodes  OBVIOUS
            <4> QED  BY <4>1, RequestsAssumption, FS_Subset
        <3>2. Cardinality(down) \in Nat  BY <3>1, FS_CardinalityType
        <3>3. MaxFaults \in Nat /\ faults \in 0..MaxFaults
            BY RequestsAssumption DEF TypeInv
        <3> DEFINE c == Cardinality(down)
        <3>4. faults' = faults + c /\ faults + c <= MaxFaults /\ c \in Nat  BY <2>1, <3>2
        <3> HIDE DEF c
        <3> QED  BY <3>3, <3>4
    <2> QED  BY <1>1, <2>9, <2>10 DEF TypeInv
<1> QED  BY <1>3, <1>4

LEMMA FanReturnTyped == ASSUME Inv, TypeInv, NEW k, FanReturn(k) PROVE TypeInv'
<1> DEFINE j == jobs[k]
<1>1. k \in DOMAIN jobs /\ j.pc = "fanned" /\ log' = log /\ Steady
    BY SteadySteps DEF FanReturn, At
<1>2. DataOk(k, j) /\ Chunked(j)  BY <1>1, TypedFacts
<1>3. PICK n, answer : Becomes(k, [j EXCEPT !.fan[n] = answer])  BY DEF FanReturn
<1> DEFINE a == [j EXCEPT !.fan[n] = answer]
<1>4. SameData(a, j) /\ a.pc = "fanned" /\ a.chunks = j.chunks
    BY <1>1, <1>2 DEF DataOk, JobFields, SameData
<1>5. Becomes(k, a)  BY <1>3
<1> HIDE DEF a
<1>6. JobTyped(k, a)  BY <1>2, <1>4, GoesOn DEF Stages
<1> QED  BY <1>1, <1>5, <1>6, QuietTyped

LEMMA FanDoneTyped == ASSUME Inv, TypeInv, NEW k, FanDone(k) PROVE TypeInv'
<1> DEFINE j == jobs[k]
           f == [j EXCEPT !.fan = <<>>]
<1>1. k \in DOMAIN jobs /\ log' = log /\ Steady
    BY SteadySteps DEF FanDone, At
<1>2. DataOk(k, j)  BY <1>1, TypedFacts
<1>3. PICK status : Becomes(k, Answered(f, status))
    <2> DEFINE failed == {n \in DOMAIN j.fan : /\ ~Ok(j.fan[n])
                                               /\ ~(AllowUnavailable(j.op) /\ j.fan[n] = Unavailable)}
               n == CHOOSE n \in failed : TRUE
               error == IF j.fan[n] = Unavailable THEN 503 ELSE j.fan[n]
    <2>1. Becomes(k, IF failed = {} THEN Answered(f, 200) ELSE Answered(f, error))
        BY DEF FanDone
    <2> HIDE DEF f, failed, error
    <2> QED  BY <2>1
<1>4. SameData(f, j)  BY <1>2 DEF DataOk, JobFields, SameData
<1> HIDE DEF f
<1>5. JobTyped(k, Answered(f, status))  BY <1>2, <1>4, DataKept, AnsweredTyped
<1> QED  BY <1>1, <1>3, <1>5, QuietTyped

LEMMA RestartTyped == ASSUME Inv, TypeInv, NEW n \in Nodes, Restart(n) PROVE TypeInv'
<1> DEFINE stopped(j) == [j EXCEPT !.pc = "done", !.status = 0, !.child = <<>>, !.fan = <<>>]
<1>1. /\ scenario' = scenario /\ token' = token /\ restarted' = restarted \cup {n} /\ Fault
      /\ log' = [log EXCEPT ![n] = <<Durable(n)>>]
    BY DEF Restart
<1>2. \A q \in DOMAIN jobs' : /\ q \in DOMAIN jobs
                              /\ jobs'[q] = jobs[q] \/ jobs'[q] = stopped(jobs[q])
    BY DEF Restart
<1>3. \A q \in DOMAIN jobs : JobTyped(q, stopped(jobs[q]))
    <2> SUFFICES ASSUME NEW q \in DOMAIN jobs PROVE JobTyped(q, stopped(jobs[q]))
        OBVIOUS
    <2> DEFINE a == stopped(jobs[q])
    <2>1. DataOk(q, jobs[q])  BY TypedFacts
    <2>2. SameData(a, jobs[q]) /\ a.pc = "done"
        BY <2>1 DEF DataOk, JobFields, SameData
    <2> HIDE DEF a
    <2>3. StageOk(a)  BY <2>2 DEF StageOk, Stages
    <2>4. JobTyped(q, a)  BY <2>1, <2>2, <2>3, DataKept DEF JobTyped
    <2> QED  BY <2>4 DEF a
<1> HIDE DEF stopped
<1>4. \A q \in DOMAIN jobs' : JobTyped(q, jobs'[q])
    BY <1>2, <1>3 DEF TypeInv, JobsTyped
<1>5. JobsTyped'  BY <1>1, <1>4, SameScenario DEF JobsTyped
<1>6. LogsTyped'
    <2>1. EntryTyped(Durable(n))  BY LogTypedFacts
    <2> DEFINE e == Durable(n)
    <2> HIDE DEF e
    <2>2. DOMAIN log = Nodes  BY DEF Inv, LogsOk
    <2>3. log'[n] = <<e>> /\ \A m \in Nodes \ {n} : log'[m] = log[m]
        BY <1>1, <2>2 DEF e
    <2>4. DOMAIN <<e>> = {1} /\ <<e>>[1] = e  OBVIOUS
    <2>5. \A i \in DOMAIN log'[n] : EntryTyped(log'[n][i])  BY <2>1, <2>3, <2>4 DEF e
    <2>6. \A m \in Nodes : \A i \in DOMAIN log'[m] : EntryTyped(log'[m][i])
        BY <2>3, <2>5 DEF TypeInv, LogsTyped
    <2> QED  BY <1>1, <2>6, SameScenario DEF LogsTyped
<1>7. MaxFaults \in Nat  BY RequestsAssumption
<1>8. faults' \in 0..MaxFaults  BY <1>1, <1>7 DEF TypeInv, Fault
<1> QED  BY <1>1, <1>5, <1>6, <1>8 DEF TypeInv

LEMMA InitTyped == Init => TypeInv
<1> SUFFICES ASSUME Init PROVE TypeInv  OBVIOUS
<1>1. Inv  BY InitInv
<1>2. token \in BOOLEAN /\ faults \in 0..MaxFaults /\ restarted \subseteq Nodes
    BY RequestsAssumption DEF Init
<1>3. LogsTyped
    <2> DEFINE start(n) ==
            [rows |-> [id \in Ids |->
                         IF id \in scenario.present /\ n \in Range(Owners[ShardOf[id]])
                         THEN [x |-> 0, y |-> 0, file |-> FirstFile(id)] ELSE NoRow],
             live |-> Scopes, gone |-> {}, ops |-> {}]
    <2>1. \A n \in Nodes : log[n] = <<start(n)>>  BY DEF Init
    <2>2. \A n : EntryTyped(start(n))
        <3> SUFFICES ASSUME NEW n PROVE EntryTyped(start(n))  OBVIOUS
        <3> DEFINE e == start(n)
        <3>1. e.live = Scopes /\ e.gone = {} /\ e.ops = {}  OBVIOUS
        <3>2. \A id \in Ids : FirstFile(id) \in Files  BY DEF FirstFile, Files
        <3>3. \A id \in Ids : [x |-> 0, y |-> 0, file |-> FirstFile(id)] \in Row
            BY <3>2 DEF Row
        <3>4. e.rows \in [Ids -> Row]  BY <3>3, RowFacts
        <3> HIDE DEF e
        <3> QED  BY <3>1, <3>4 DEF EntryTyped, e
    <2> HIDE DEF start
    <2>3. \A e : DOMAIN <<e>> = {1} /\ <<e>>[1] = e  OBVIOUS
    <2> QED  BY <2>1, <2>2, <2>3 DEF LogsTyped
<1>4. JobsTyped
    <2> SUFFICES ASSUME NEW k \in DOMAIN jobs PROVE JobTyped(k, jobs[k])
        BY DEF JobsTyped
    <2>1. jobs[k] = NewJob(k[1], Req(k[1]).at, Req(k[1]).chunks)  BY DEF Init
    <2>2. k[1] \in Requests /\ scenario \in Scenarios  BY <1>1, JobFacts DEF Inv
    <2>3. /\ Req(k[1]).at \in Nodes
          /\ Req(k[1]).op \in ObjectOps /\ Req(k[1]).form \in {"single", "file"}
             => Req(k[1]).chunks \in OneObject
        BY <2>2, RequestFacts
    <2> QED  BY <2>1, <2>2, <2>3, NewJobTyped
<1> QED  BY <1>2, <1>3, <1>4 DEF TypeInv

LEMMA NextTyped == Inv /\ TypeInv /\ [Next]_vars => TypeInv'
<1> SUFFICES ASSUME Inv, TypeInv, [Next]_vars PROVE TypeInv'  OBVIOUS
<1>1. ASSUME NEW k \in DOMAIN jobs, Step(k) PROVE TypeInv'
    BY <1>1, ReceiveTyped, BeginReadTyped, BeginObjectsTyped, BeginFileTyped, ReadBlobTyped,
       PutBlobTyped, SaveTyped, UnlinkTyped, SendTyped, ReturnTyped, MissedTyped,
       BeginDropTyped, BeginCreateTyped, FanOutTyped, FanReturnTyped, FanDoneTyped DEF Step
<1>2. ASSUME NEW k \in DOMAIN jobs, Failure(k) PROVE TypeInv'
    BY <1>2, RefuseTyped, PutBlobFailsTyped, SaveFailsTyped, MissedTyped DEF Failure
<1>3. CASE UNCHANGED <<scenario, log, jobs>> /\ token' \in BOOLEAN
           /\ UNCHANGED <<faults, restarted>>
    <2>1. \A q \in DOMAIN jobs' : JobTyped(q, jobs'[q])  BY <1>3 DEF TypeInv, JobsTyped
    <2>2. JobsTyped' /\ LogsTyped'  BY <1>3, <2>1, SameScenario, SameLogTyped DEF JobsTyped
    <2> QED  BY <1>3, <2>2 DEF TypeInv
<1>4. CASE ExpireToken  BY <1>3, <1>4 DEF ExpireToken
<1>5. CASE \E n \in Nodes : Restart(n)  BY <1>5, RestartTyped
<1>6. CASE UNCHANGED vars  BY <1>3, <1>6 DEF vars, TypeInv
<1> QED  BY <1>1, <1>2, <1>4, <1>5, <1>6 DEF Next

LEMMA TypeInvHolds == Spec => []TypeInv
<1>1. Inv /\ TypeInv /\ [Next]_vars => TypeInv'  BY NextTyped
<1> QED  BY <1>1, InitTyped, RequestsInvariant, PTL DEF Spec

\* TypeOK: every job and every entry of every log stays within its type, through
\* failures and restarts; a scope that is marked as dropped is not live, and a node on
\* which one is missing holds no object.
THEOREM RequestsAreTyped == Spec => []TypeOK
<1>1. Inv /\ TypeInv => TypeOK
    <2> SUFFICES ASSUME Inv, TypeInv PROVE TypeOK  OBVIOUS
    <2>1. ASSUME NEW k \in DOMAIN jobs PROVE JobType(jobs[k])
        <3>1. DataOk(k, jobs[k]) /\ jobs[k].pc \in Stages
            BY <2>1, TypedFacts DEF StageOk
        <3> QED  BY <3>1 DEF DataOk, Stages, JobType
    <2>2. \A n \in Nodes : \A i \in DOMAIN log[n] : EntryTyped(log[n][i])
        BY DEF TypeInv, LogsTyped
    <2> QED  BY <2>1, <2>2 DEF TypeOK, Inv, TypeInv, EntryTyped
<1> QED  BY <1>1, RequestsInvariant, TypeInvHolds, PTL

----------------------------------------------------------------------------
\* Patches.  A patch is compiled when the handler begins with a chunk.  It is written in
\* the same step if the chunk's first group is local; if that group is elsewhere, the
\* request is one that CompiledEarly names.  For this a handler must never find a local
\* group further down a chunk whose first one was local.

Owns(n, group) == n \in Range(Owners[ShardOfGroup(group)])

\* A forwarded handler is at an owner of its only group; the request's own handler works
\* on the request's chunks.
FromRequest(k, j) ==
    IF IsForwarded(k)
    THEN \E g \in Group : j.chunks = << <<g>> >> /\ Owns(j.at, g)
    ELSE j.at = Req(k[1]).at /\ Range(j.chunks) \subseteq Range(Req(k[1]).chunks)

LocalDone(j) ==
    j.groups # <<>> /\ Owns(j.at, Head(Head(j.chunks)))
    => \A g \in Range(Tail(j.groups)) : ~Owns(j.at, g)

PatchPlaced(k, j) ==
    j.op = "patch" /\ j.pc # "done" =>
        /\ FromRequest(k, j)
        /\ j.pc \in {"send", "wait"} =>
              /\ LocalDone(j)
              /\ Range(j.peers) \subseteq Range(Owners[ShardOfGroup(Head(j.groups))])

PatchInv == \A k \in DOMAIN jobs : PatchPlaced(k, jobs[k])

\* The action of PatchKeepsOtherFields.
PatchesKeep ==
    \A r \in Requests, n \in Nodes, id \in Ids :
       /\ Req(r).op = "patch" /\ ~CompiledEarly(r, n)
       /\ <<r, id>> \in Last(log'[n]).ops \ Mem(n).ops
       => Last(log'[n]).rows[id] = [Mem(n).rows[id] EXCEPT !.x = r]

LEMMA OneShardEach ==
    ASSUME NEW n \in Nodes, NEW g \in Group, NEW h \in Group, Owns(n, g), Owns(n, h)
    PROVE  ShardOfGroup(g) = ShardOfGroup(h)
<1>1. PICK own \in DOMAIN Owners : {sh \in DOMAIN Owners : n \in Range(Owners[sh])} = {own}
    BY RequestsAssumption
<1>2. \A f \in Group : ShardOfGroup(f) \in DOMAIN Owners
    <2> SUFFICES ASSUME NEW f \in Group PROVE ShardOfGroup(f) \in DOMAIN Owners  OBVIOUS
    <2>1. f \in SUBSET Ids /\ f # {}  BY DEF Group
    <2>2. (CHOOSE id \in f : TRUE) \in Ids  BY <2>1
    <2> HIDE DEF Group
    <2> QED  BY <2>2, RequestsAssumption DEF ShardOfGroup
<1> HIDE DEF Group
<1> QED  BY <1>1, <1>2 DEF Owns

LEMMA TailFacts ==
    ASSUME NEW T, NEW s \in Seq(T), s # <<>>
    PROVE  /\ Tail(s) \in Seq(T) /\ Range(Tail(s)) \subseteq Range(s)
           /\ Head(s) \in Range(s)
           /\ \A e \in Range(Tail(s)) : \E i \in DOMAIN s : i # 1 /\ e = s[i]
           /\ Tail(s) # <<>> => Head(Tail(s)) \in Range(Tail(s))
<1> DEFINE t == Tail(s)
<1>1. /\ t \in Seq(T) /\ Len(t) = Len(s) - 1 /\ Len(s) \in Nat /\ Len(s) >= 1
      /\ Head(s) = s[1] /\ DOMAIN s = 1..Len(s) /\ DOMAIN t = 1..Len(t)
      /\ \A i \in 1..Len(t) : t[i] = s[i + 1]
    OBVIOUS
<1>2. t # <<>> => Head(t) = t[1] /\ 1 \in DOMAIN t  OBVIOUS
<1> HIDE DEF t
<1>3. \A i \in 1..Len(t) : i + 1 \in 1..Len(s) /\ i + 1 # 1  BY <1>1
<1>4. \A e \in Range(t) : \E i \in DOMAIN s : i # 1 /\ e = s[i]
    BY <1>1, <1>3 DEF Range
<1>5. Range(t) \subseteq Range(s)  BY <1>4 DEF Range
<1>6. Head(s) \in Range(s)
    <2>1. 1 \in DOMAIN s  BY <1>1
    <2> QED  BY <1>1, <2>1 DEF Range
<1>7. t # <<>> => Head(t) \in Range(t)  BY <1>2 DEF Range
<1> QED  BY <1>1, <1>4, <1>5, <1>6, <1>7 DEF t

\* A node that owns the first group of a chunk owns no other.
LEMMA FirstIsOnly ==
    ASSUME NEW n \in Nodes, NEW c \in Chunk, Owns(n, Head(c))
    PROVE  \A g \in Range(Tail(c)) : ~Owns(n, g)
<1>1. /\ c \in Seq(Group) /\ c # <<>>
      /\ \A i, h \in DOMAIN c : ShardOfGroup(c[i]) = ShardOfGroup(c[h]) => i = h
    BY DEF Chunk
<1>2. Head(c) = c[1] /\ 1 \in DOMAIN c /\ \A i \in DOMAIN c : c[i] \in Group  BY <1>1
<1> SUFFICES ASSUME NEW g \in Range(Tail(c)), Owns(n, g) PROVE FALSE  OBVIOUS
<1>3. PICK i \in DOMAIN c : i # 1 /\ g = c[i]  BY <1>1, TailFacts
<1>4. ShardOfGroup(c[i]) = ShardOfGroup(c[1])  BY <1>2, <1>3, OneShardEach
<1> QED  BY <1>1, <1>2, <1>3, <1>4

----------------------------------------------------------------------------
\* Where a patch goes.

LEMMA PatchEnds ==
    ASSUME NEW k, NEW a, a.pc = "done" \/ a.op # "patch"
    PROVE  PatchPlaced(k, a)
BY DEF PatchPlaced

LEMMA PatchStays ==
    ASSUME NEW k, NEW j, FromRequest(k, j), NEW a, a.at = j.at, a.chunks = j.chunks,
           a.pc \notin {"send", "wait"}
    PROVE  PatchPlaced(k, a)
BY DEF PatchPlaced, FromRequest

LEMMA PatchAnswered ==
    ASSUME NEW k, NEW j, DataOk(k, j), NEW status
    PROVE  PatchPlaced(k, Answered(j, status))
<1>1. Answered(j, status).pc = "done"  BY DEF Answered, DataOk, JobFields
<1> QED  BY <1>1, PatchEnds

LEMMA PatchFailed ==
    ASSUME NEW k, NEW j, DataOk(k, j), FromRequest(k, j), NEW status
    PROVE  PatchPlaced(k, Failed(j, status))
<1> DEFINE a == [j EXCEPT !.pc = "save", !.fail = status]
<1>1. a.at = j.at /\ a.chunks = j.chunks /\ a.pc = "save"  BY DEF DataOk, JobFields
<1>2. Failed(j, status) = a \/ Failed(j, status) = Answered(j, status)  BY DEF Failed
<1> HIDE DEF a
<1>3. PatchPlaced(k, a)  BY <1>1, PatchStays
<1> QED  BY <1>2, <1>3, PatchAnswered

LEMMA PatchCompleted ==
    ASSUME NEW k, NEW j, DataOk(k, j), HasChunks(j), FromRequest(k, j)
    PROVE  PatchPlaced(k, Completed(j))
<1> DEFINE next == [j EXCEPT !.count = @ + j.part, !.part = 0, !.olds = {}, !.rows = <<>>,
                             !.wrote = {}, !.chunks = Tail(@)]
           a == [next EXCEPT !.pc = "body"]
<1>1. DOMAIN next = JobFields /\ next.at = j.at /\ next.chunks = Tail(j.chunks)
    BY DEF DataOk, JobFields
<1>2. Completed(j) = IF next.chunks = <<>> THEN Answered(next, 200) ELSE a
    BY DEF Completed
<1> HIDE DEF next
<1>3. Answered(next, 200).pc = "done"  BY <1>1 DEF Answered, JobFields
<1>4. ASSUME next.chunks # <<>> PROVE PatchPlaced(k, a)
    <2>1. a.at = j.at /\ a.chunks = Tail(j.chunks) /\ a.pc = "body"
        BY <1>1 DEF JobFields
    <2> HIDE DEF a
    <2>2. FromRequest(k, a)
        <3>1. CASE IsForwarded(k)
            <4>1. PICK g \in Group : j.chunks = << <<g>> >>  BY <3>1 DEF FromRequest
            <4>2. Tail(j.chunks) = <<>>  BY <4>1
            <4> QED  BY <1>1, <1>4, <4>2
        <3>2. CASE ~IsForwarded(k)
            <4>1. Range(Tail(j.chunks)) \subseteq Range(j.chunks)
                BY TailFacts DEF HasChunks
            <4> QED  BY <2>1, <3>2, <4>1 DEF FromRequest
        <3> QED  BY <3>1, <3>2
    <2> QED  BY <2>1, <2>2, PatchStays
<1> QED  BY <1>2, <1>3, <1>4, PatchEnds

LEMMA PatchAfterGroups ==
    ASSUME NEW k, NEW j, DataOk(k, j), HasChunks(j), FromRequest(k, j)
    PROVE  PatchPlaced(k, AfterGroups(j))
<1> DEFINE a == [j EXCEPT !.pc = "save"]
<1>1. a.at = j.at /\ a.chunks = j.chunks /\ a.pc = "save"  BY DEF DataOk, JobFields
<1>2. AfterGroups(j) = a \/ AfterGroups(j) = Completed(j)  BY DEF AfterGroups
<1> HIDE DEF a
<1>3. PatchPlaced(k, a)  BY <1>1, PatchStays
<1> QED  BY <1>2, <1>3, PatchCompleted

LEMMA PatchToOwners ==
    ASSUME NEW k, NEW j, DataOk(k, j), FromRequest(k, j), LocalDone(j)
    PROVE  PatchPlaced(k, ToOwners(j))
<1> DEFINE a == ToOwners(j)
<1>1. /\ a.at = j.at /\ a.chunks = j.chunks /\ a.groups = j.groups
      /\ a.peers = Owners[ShardOfGroup(Head(j.groups))]
    BY DEF ToOwners, DataOk, JobFields
<1> HIDE DEF a
<1>2. FromRequest(k, a) /\ LocalDone(a)  BY <1>1 DEF FromRequest, LocalDone
<1> QED  BY <1>1, <1>2 DEF PatchPlaced, a

LEMMA PatchNextOwner ==
    ASSUME NEW k, NEW j, DataOk(k, j), FromRequest(k, j), LocalDone(j),
           j.peers \in Seq(Nodes), j.peers # <<>>,
           Range(j.peers) \subseteq Range(Owners[ShardOfGroup(Head(j.groups))]), NEW status
    PROVE  PatchPlaced(k, NextOwner(j, status))
<1> DEFINE a == [j EXCEPT !.pc = "send", !.peers = Tail(@), !.child = <<>>]
           b == [j EXCEPT !.child = <<>>]
<1>1. /\ a.at = j.at /\ a.chunks = j.chunks /\ a.groups = j.groups /\ a.peers = Tail(j.peers)
      /\ SameData(b, j) /\ b.at = j.at /\ b.chunks = j.chunks
    BY DEF DataOk, JobFields, SameData
<1>2. NextOwner(j, status) = a \/ NextOwner(j, status) = Failed(b, status)  BY DEF NextOwner
<1> HIDE DEF a, b
<1>3. FromRequest(k, a) /\ LocalDone(a) /\ FromRequest(k, b)
    BY <1>1 DEF FromRequest, LocalDone
<1>4. Range(Tail(j.peers)) \subseteq Range(j.peers)  BY TailFacts
<1>5. PatchPlaced(k, a)  BY <1>1, <1>3, <1>4 DEF PatchPlaced
<1>6. PatchPlaced(k, Failed(b, status))  BY <1>1, <1>3, DataKept, PatchFailed
<1> QED  BY <1>2, <1>5, <1>6

LEMMA PatchAfterSave ==
    ASSUME NEW k, NEW j, DataOk(k, j), HasChunks(j), FromRequest(k, j), j.op \notin ScopeOps
    PROVE  PatchPlaced(k, AfterSave(k, j))
<1> DEFINE olds == IF j.form = "single" \/ (j.form = "file" /\ j.op = "replace")
                   THEN j.olds \cup Superseded(j) ELSE j.olds
           a == [j EXCEPT !.pc = "unlink", !.olds = olds]
<1>1. AfterSave(k, j) \in {Answered(j, j.fail), a, Completed(j)}
    BY DEF AfterSave
<1> HIDE DEF olds
<1>2. a.at = j.at /\ a.chunks = j.chunks /\ a.pc = "unlink"  BY DEF DataOk, JobFields
<1> HIDE DEF a
<1>3. PatchPlaced(k, a)  BY <1>2, PatchStays
<1> QED  BY <1>1, <1>3, PatchAnswered, PatchCompleted

----------------------------------------------------------------------------
\* What a step adds to the operations of a node, and which jobs it leaves alone.

NewMarks(n) == Last(log'[n]).ops \ Mem(n).ops
MarksOf(k) == \A n \in Nodes : \A o \in NewMarks(n) : o[1] = k[1]
OthersStay(k) == \A q \in DOMAIN jobs' : q[1] # k[1] => q \in DOMAIN jobs /\ jobs'[q] = jobs[q]
SavedStays == \A n \in Nodes : Saved(n) \subseteq Saved(n)'

LEMMA NoNewMarks ==
    ASSUME NEW n, Last(log'[n]).ops \subseteq Mem(n).ops
    PROVE  NewMarks(n) = {}
BY DEF NewMarks

LEMMA SameLogMarks ==
    ASSUME UNCHANGED log
    PROVE  SavedStays /\ \A n \in Nodes : NewMarks(n) = {}
BY DEF NewMarks, Mem, SavedStays, Saved, Durable

LEMMA BecomesOthers ==
    ASSUME NEW k \in DOMAIN jobs, NEW a, Becomes(k, a)
    PROVE  OthersStay(k)
BY BecomesFacts DEF OthersStay

LEMMA WrittenMarks ==
    ASSUME LogsOk, NEW n \in Nodes, NEW s, DOMAIN s = StateFields,
           Mem(n).ops \subseteq s.ops, Writes(n, s)
    PROVE  /\ Last(log'[n]) = s
           /\ \A m \in Nodes \ {n} : NewMarks(m) = {}
           /\ NewMarks(n) = s.ops \ Mem(n).ops
<1>1. Mem(n)' = s /\ \A m \in Nodes \ {n} : Mem(m)' = Mem(m)  BY WritesOk
<1>2. Last(log'[n]) = s /\ \A m \in Nodes \ {n} : Last(log'[m]) = Mem(m)
    BY <1>1 DEF Mem
<1> QED  BY <1>2 DEF NewMarks

LEMMA WritesMarksOf ==
    ASSUME LogsOk, NEW k, NEW n \in Nodes, NEW s, DOMAIN s = StateFields,
           Mem(n).ops \subseteq s.ops, Writes(n, s),
           \A o \in s.ops : o \in Mem(n).ops \/ o[1] = k[1]
    PROVE  MarksOf(k) /\ SavedStays
<1>1. \A m \in Nodes \ {n} : NewMarks(m) = {}  BY WrittenMarks
<1>2. \A o \in NewMarks(n) : o[1] = k[1]  BY WrittenMarks
<1>3. SavedStays  BY WritesOk DEF SavedStays
<1> QED  BY <1>1, <1>2, <1>3 DEF MarksOf

LEMMA SavedMarks ==
    ASSUME LogsOk, NEW n \in Nodes, NEW i \in DOMAIN log[n],
           log' = [log EXCEPT ![n] = SubSeq(log[n], i, Len(log[n]))]
    PROVE  SavedStays /\ \A m \in Nodes : NewMarks(m) = {}
<1>1. IsLog(log[n]) /\ DOMAIN log = Nodes  BY DEF LogsOk
<1>2. /\ log'[n] = SubSeq(log[n], i, Len(log[n])) /\ \A m \in Nodes \ {n} : log'[m] = log[m]
    BY <1>1
<1>3. Last(log'[n]) = Last(log[n])  BY <1>1, <1>2, SaveLog
<1>4. \A m \in Nodes : Last(log'[m]) = Last(log[m])  BY <1>2, <1>3
<1>5. Head(log[n]).ops \subseteq Head(log'[n]).ops  BY <1>1, <1>2, SaveLog
<1>6. \A m \in Nodes : Head(log[m]).ops \subseteq Head(log'[m]).ops  BY <1>2, <1>5
<1> QED  BY <1>4, <1>6 DEF NewMarks, Mem, SavedStays, Saved, Durable

\* The loop over the groups writes for its own request only.
LEMMA RunGroupsMarks ==
    ASSUME LogsOk, NEW k \in DOMAIN jobs, NEW j, j.at \in Nodes, RunGroups(k, j)
    PROVE  MarksOf(k) /\ OthersStay(k) /\ SavedStays
<1> DEFINE n == j.at
           s == Mem(n)
           w == LocalWrite(k[1], j, s)
<1>1. (UNCHANGED log \/ Writes(n, w)) /\ \E a : Becomes(k, a)  BY DEF RunGroups
<1>2. DOMAIN s = StateFields  BY LogEnds DEF LogsOk, Mem
<1>3. /\ DOMAIN w = StateFields /\ s.ops \subseteq w.ops
      /\ \A o \in w.ops : o \in s.ops \/ o[1] = k[1]
    BY <1>2, LocalWriteFields
<1> HIDE DEF w
<1>4. ASSUME UNCHANGED log PROVE MarksOf(k) /\ SavedStays  BY <1>4, SameLogMarks DEF MarksOf
<1>5. ASSUME Writes(n, w) PROVE MarksOf(k) /\ SavedStays  BY <1>3, <1>5, WritesMarksOf
<1> QED  BY <1>1, <1>4, <1>5, BecomesOthers

OwnStep(k) == MarksOf(k) /\ OthersStay(k) /\ SavedStays /\ scenario' = scenario

\* The steps of a handler.
LEMMA OwnSteps ==
    ASSUME Inv, NEW k \in DOMAIN jobs, Step(k) \/ Failure(k)
    PROVE  OwnStep(k)
<1>1. LogsOk /\ jobs[k].at \in Nodes /\ DOMAIN jobs[k] = JobFields
    BY JobFacts DEF Inv, Carries
<1>2. ASSUME scenario' = scenario, UNCHANGED log, \E a : Becomes(k, a)
      PROVE  OwnStep(k)
    BY <1>2, SameLogMarks, BecomesOthers DEF MarksOf, OwnStep
<1>3. ASSUME scenario' = scenario, NEW j, j.at = jobs[k].at, RunGroups(k, j)
      PROVE  OwnStep(k)
    <2>1. j.at \in Nodes  BY <1>1, <1>3
    <2> QED  BY <1>1, <1>3, <2>1, RunGroupsMarks DEF OwnStep
<1>4. ASSUME scenario' = scenario, \E a : Becomes(k, a),
             NEW w, DOMAIN w = StateFields, Mem(jobs[k].at).ops \subseteq w.ops,
             \A o \in w.ops : o \in Mem(jobs[k].at).ops \/ o[1] = k[1],
             Writes(jobs[k].at, w)
      PROVE  OwnStep(k)
    BY <1>1, <1>4, WritesMarksOf, BecomesOthers DEF OwnStep
<1>5. CASE Receive(k) \/ BeginRead(k) \/ BeginFile(k) \/ ReadBlob(k) \/ Unlink(k)
    <2>1. scenario' = scenario /\ log' = log /\ \E a : Becomes(k, a)
        BY <1>5 DEF Receive, BeginRead, BeginFile, ReadBlob, Unlink
    <2> QED  BY <1>2, <2>1
<1>6. CASE Disconnected(k) \/ FanReturn(k) \/ FanDone(k)
    <2>1. scenario' = scenario /\ log' = log /\ \E a : Becomes(k, a)
        BY <1>6 DEF Disconnected, FanReturn, FanDone
    <2> QED  BY <1>2, <2>1
<1>7. CASE Failure(k)
    <2>1. scenario' = scenario /\ log' = log /\ \E a : Becomes(k, a)
        BY <1>7 DEF Failure, Refuse, PutBlobFails, SaveFails, Unreachable, TimesOut
    <2> QED  BY <1>2, <2>1
<1>8. CASE BeginObjects(k)
    <2> DEFINE j == [jobs[k] EXCEPT !.groups = Head(jobs[k].chunks)]
               p == [j EXCEPT !.rows = Prepared(k[1], j)]
    <2>1. scenario' = scenario  BY <1>8 DEF BeginObjects
    <2>2. \/ RunGroups(k, p)
          \/ Becomes(k, Answered(j, 404)) /\ log' = log
        BY <1>8 DEF BeginObjects
    <2>3. p.at = jobs[k].at  BY <1>1 DEF JobFields
    <2> HIDE DEF p, j
    <2> QED  BY <1>2, <1>3, <2>1, <2>2, <2>3
<1>9. CASE PutBlob(k)
    <2>1. scenario' = scenario /\ RunGroups(k, jobs[k])  BY <1>9 DEF PutBlob
    <2> QED  BY <1>3, <2>1
<1>10. CASE Save(k)
    <2> DEFINE n == jobs[k].at
    <2>1. scenario' = scenario /\ \E a : Becomes(k, a)  BY <1>10 DEF Save
    <2>2. PICK i \in DOMAIN log[n] : log' = [log EXCEPT ![n] = SubSeq(log[n], i, Len(log[n]))]
        BY <1>10 DEF Save
    <2> HIDE DEF n
    <2>3. n \in Nodes  BY <1>1 DEF n
    <2>4. MarksOf(k) /\ SavedStays  BY <1>1, <2>2, <2>3, SavedMarks DEF MarksOf
    <2> QED  BY <2>1, <2>4, BecomesOthers DEF OwnStep
<1>11. CASE Send(k)
    <2> DEFINE j == jobs[k]
               c == ChildKey(k, Head(j.peers))
               a == [j EXCEPT !.pc = "wait", !.child = c]
               e == NewJob(k[1], Head(j.peers), << <<Head(j.groups)>> >>)
    <2>1. /\ scenario' = scenario /\ log' = log
          /\ jobs' = [q \in DOMAIN jobs \cup {c} |-> IF q = k THEN a ELSE IF q = c THEN e ELSE jobs[q]]
        BY <1>11 DEF Send
    <2>2. c[1] = k[1]  BY DEF ChildKey
    <2> HIDE DEF c, a, e
    <2>3. OthersStay(k)  BY <2>1, <2>2 DEF OthersStay
    <2> QED  BY <2>1, <2>3, SameLogMarks DEF MarksOf, OwnStep
<1>12. CASE Return(k)
    <2> DEFINE i == jobs[k]
               c == jobs[i.child]
               j == [i EXCEPT !.child = <<>>]
               g == [j EXCEPT !.part = @ + c.count, !.groups = Tail(@)]
               b == [j EXCEPT !.missed = @ \/ c.status # 404]
               f == [j EXCEPT !.started = StartedMarker(j, c.started)]
               h == [j EXCEPT !.before = c.before]
    <2>1. scenario' = scenario  BY <1>12 DEF Return
    <2>2. \/ Becomes(k, NextOwner(b, c.status)) /\ UNCHANGED log
          \/ Becomes(k, Failed(f, c.status)) /\ UNCHANGED log
          \/ Becomes(k, Found(k, h)) /\ UNCHANGED log
          \/ RunGroups(k, g)
        BY <1>12 DEF Return
    <2>3. g.at = jobs[k].at  BY <1>1 DEF JobFields
    <2> HIDE DEF g, b, f, h, c
    <2> QED  BY <1>2, <1>3, <2>1, <2>2, <2>3
<1>13. CASE BeginDrop(k)
    <2> DEFINE j == jobs[k]
               s == Mem(j.at)
               scope == ScopeOf(j.op)
               w == [Dropped(s, scope) EXCEPT !.ops = @ \cup {<<k[1], scope>>}]
    <2>1. scenario' = scenario /\ (\E a : Becomes(k, a)) /\ (UNCHANGED log \/ Writes(j.at, w))
        BY <1>13 DEF BeginDrop
    <2>2. DOMAIN s = StateFields  BY <1>1, LogEnds DEF LogsOk, Mem
    <2>3. DOMAIN w = StateFields /\ w.ops = s.ops \cup {<<k[1], scope>>}
        BY <2>2 DEF Dropped, StateFields
    <2> HIDE DEF w, scope
    <2>4. s.ops \subseteq w.ops /\ \A o \in w.ops : o \in s.ops \/ o[1] = k[1]  BY <2>3
    <2> QED  BY <1>2, <1>4, <2>1, <2>3, <2>4
<1>14. CASE BeginCreate(k)
    <2> DEFINE j == jobs[k]
               s == Mem(j.at)
               made == ScopeOf(j.op)
               w == [Created(s, made) EXCEPT !.ops = @ \cup {<<k[1], made>>}]
               v == [s EXCEPT !.gone = @ \ {"coll"}]
    <2>1. scenario' = scenario /\ (\E a : Becomes(k, a)) /\ (Writes(j.at, v) \/ Writes(j.at, w))
        BY <1>14 DEF BeginCreate
    <2>2. DOMAIN s = StateFields  BY <1>1, LogEnds DEF LogsOk, Mem
    <2>3. DOMAIN v = StateFields /\ v.ops = s.ops  BY <2>2 DEF StateFields
    <2>4. DOMAIN w = StateFields /\ w.ops = s.ops \cup {<<k[1], made>>}
        BY <2>2 DEF Created, StateFields
    <2> HIDE DEF w, v, made
    <2>5. s.ops \subseteq w.ops /\ \A o \in w.ops : o \in s.ops \/ o[1] = k[1]  BY <2>4
    <2>6. CASE Writes(j.at, v)  BY <1>4, <2>1, <2>3, <2>6
    <2>7. CASE Writes(j.at, w)  BY <1>4, <2>1, <2>4, <2>5, <2>7
    <2> QED  BY <2>1, <2>6, <2>7
<1>15. CASE FanOut(k)
    <2>1. CASE IsForwarded(k)
        <3>1. scenario' = scenario /\ log' = log /\ \E a : Becomes(k, a)  BY <1>15, <2>1 DEF FanOut
        <3> QED  BY <1>2, <3>1
    <2>2. CASE ~IsForwarded(k)
        <3>1. scenario' = scenario /\ log' = log  BY <1>15 DEF FanOut
        <3> DEFINE others == Nodes \ {jobs[k].at}
        <3>2. PICK down \in SUBSET others :
                 LET called == {ChildKey(k, n) : n \in others \ down}
                 IN jobs' = [q \in DOMAIN jobs \cup called |->
                              IF q \in called THEN NewJob(k[1], q[2], <<>>)
                              ELSE IF q = k
                                   THEN [jobs[k] EXCEPT !.pc = "fanned",
                                                        !.fan = [n \in others |-> IF n \in down THEN Unavailable ELSE 0]]
                              ELSE jobs[q]]
            BY <1>15, <2>2 DEF FanOut
        <3> DEFINE C == {ChildKey(k, n) : n \in others \ down}
        <3>3. \A c \in C : c[1] = k[1]
            <4>1. \A n : ChildKey(k, n)[1] = k[1]  BY DEF ChildKey
            <4> QED  BY <4>1
        <3>4. \A q \in DOMAIN jobs' : q \in C \/ q = k \/ (q \in DOMAIN jobs /\ jobs'[q] = jobs[q])
            BY <3>2
        <3> HIDE DEF C
        <3>5. OthersStay(k)  BY <3>3, <3>4 DEF OthersStay
        <3> QED  BY <3>1, <3>5, SameLogMarks DEF MarksOf, OwnStep
    <2> QED  BY <2>1, <2>2
<1> QED  BY <1>5, <1>6, <1>7, <1>8, <1>9, <1>10, <1>11, <1>12, <1>13, <1>14, <1>15 DEF Step

LEMMA SamePatch ==
    ASSUME scenario' = scenario
    PROVE  \A k, j : PatchPlaced(k, j)' <=> PatchPlaced(k, j)
BY DEF PatchPlaced, FromRequest, LocalDone, Owns, Req

\* What is to be shown of a step with a job of a patch: where it leaves the jobs of its
\* request, and what it writes.
PatchStep(k) ==
    /\ \A q \in DOMAIN jobs' : q[1] = k[1] => PatchPlaced(q, jobs'[q])
    /\ \A n \in Nodes, id \in Ids :
          <<k[1], id>> \in NewMarks(n) /\ ~CompiledEarly(k[1], n)
          => Last(log'[n]).rows[id] = Patched(Mem(n).rows[id], k[1])

LEMMA StepPatches ==
    ASSUME Inv, Inv', PatchInv, NEW k \in DOMAIN jobs, Step(k) \/ Failure(k),
           jobs[k].op = "patch" => PatchStep(k)
    PROVE  PatchInv' /\ PatchesKeep
<1>1. MarksOf(k) /\ OthersStay(k) /\ scenario' = scenario  BY OwnSteps DEF OwnStep
<1>2. k[1] \in Requests /\ jobs[k].op = Req(k[1]).op  BY JobFacts
<1>3. \A q \in DOMAIN jobs' : PatchPlaced(q, jobs'[q])
    <2> SUFFICES ASSUME NEW q \in DOMAIN jobs' PROVE PatchPlaced(q, jobs'[q])  OBVIOUS
    <2>1. CASE q[1] # k[1]  BY <1>1, <2>1 DEF OthersStay, PatchInv
    <2>2. CASE q[1] = k[1] /\ jobs[k].op = "patch"  BY <2>2 DEF PatchStep
    <2>3. CASE q[1] = k[1] /\ jobs[k].op # "patch"
        <3>1. jobs'[q].op = Req(q[1]).op'  BY DEF Inv, JobsOk
        <3>2. jobs'[q].op # "patch"  BY <1>1, <1>2, <2>3, <3>1 DEF Req
        <3> QED  BY <3>2, PatchEnds
    <2> QED  BY <2>1, <2>2, <2>3
<1>4. PatchInv'  BY <1>1, <1>3, SamePatch DEF PatchInv
<1>5. PatchesKeep
    <2> SUFFICES ASSUME NEW r \in Requests, NEW n \in Nodes, NEW id \in Ids,
                        Req(r).op = "patch", ~CompiledEarly(r, n),
                        <<r, id>> \in NewMarks(n)
                 PROVE  Last(log'[n]).rows[id] = [Mem(n).rows[id] EXCEPT !.x = r]
        BY DEF PatchesKeep, NewMarks
    <2>1. <<r, id>>[1] = k[1]  BY <1>1 DEF MarksOf
    <2>2. r = k[1]  BY <2>1
    <2> QED  BY <1>2, <2>2 DEF PatchStep, Patched
<1> QED  BY <1>4, <1>5

----------------------------------------------------------------------------
\* The steps with a job of a patch.

LEMMA PatchFacts ==
    ASSUME Inv, TypeInv, PatchInv, NEW k \in DOMAIN jobs, jobs[k].op = "patch",
           jobs[k].pc # "done"
    PROVE  LET j == jobs[k]
           IN  /\ k[1] \in Requests /\ j.at \in Nodes /\ EntryTyped(Mem(j.at))
               /\ DataOk(k, j) /\ HasChunks(j) /\ FromRequest(k, j)
               /\ j.op \in ObjectOps \ Reads /\ j.op \notin ScopeOps
               /\ j.form # "file" /\ j.pc \notin {"put", "fan", "fanned"}
               /\ j.pc \in {"send", "wait"} =>
                     /\ LocalDone(j) /\ HasGroups(j) /\ Grouped(j)
                     /\ j.peers \in Seq(Nodes) /\ j.peers # <<>>
                     /\ Range(j.peers) \subseteq Range(Owners[ShardOfGroup(Head(j.groups))])
<1> DEFINE j == jobs[k]
<1>1. /\ k[1] \in Requests /\ j.at \in Nodes /\ EntryTyped(Mem(j.at))
      /\ DataOk(k, j) /\ StageOk(j) /\ scenario \in Scenarios
      /\ j.pc \in {"put", "send", "wait"} => Grouped(j)
    BY TypedFacts
<1>2. Placed(j, Saved(j.at))  BY JobFacts
<1>3. j.op = "patch" /\ j.op \in ObjectOps \ Reads /\ j.op \notin ScopeOps
    BY DEF ObjectOps, Reads, ScopeOps
<1>4. j.form # "file"  BY <1>1, <1>3, RequestFacts DEF DataOk
<1>5. PatchPlaced(k, j) /\ j.pc # "done"  BY DEF PatchInv
<1> HIDE DEF j
<1>6. HasChunks(j) /\ j.pc \notin {"put", "fan", "fanned"}
    BY <1>1, <1>2, <1>3, <1>4, <1>5 DEF Placed, StageOk
<1>7. FromRequest(k, j)  BY <1>3, <1>5 DEF PatchPlaced
<1>8. ASSUME j.pc \in {"send", "wait"}
      PROVE  /\ LocalDone(j) /\ HasGroups(j) /\ j.peers \in Seq(Nodes) /\ j.peers # <<>>
             /\ Range(j.peers) \subseteq Range(Owners[ShardOfGroup(Head(j.groups))])
    BY <1>2, <1>3, <1>5, <1>8 DEF Placed, PatchPlaced
<1> QED  BY <1>1, <1>3, <1>4, <1>6, <1>7, <1>8 DEF j

\* The job goes to another place, and nothing is written.
LEMMA PatchMoves ==
    ASSUME PatchInv, NEW k \in DOMAIN jobs, NEW a, Becomes(k, a), PatchPlaced(k, a),
           \A n \in Nodes : NewMarks(n) = {}
    PROVE  PatchStep(k)
<1>1. \A q \in DOMAIN jobs' : PatchPlaced(q, jobs'[q])
    BY BecomesFacts DEF PatchInv
<1> QED  BY <1>1 DEF PatchStep

LEMMA PatchQuiet ==
    ASSUME PatchInv, NEW k \in DOMAIN jobs, NEW a, Becomes(k, a), PatchPlaced(k, a),
           UNCHANGED log
    PROVE  PatchStep(k)
BY PatchMoves, SameLogMarks

LEMMA LocalDoneTail ==
    ASSUME NEW j, LocalDone(j), j.groups \in Seq(Group), j.groups # <<>>, NEW a,
           a.at = j.at, a.chunks = j.chunks, a.groups = Tail(j.groups)
    PROVE  LocalDone(a)
<1> SUFFICES ASSUME a.groups # <<>>, Owns(a.at, Head(Head(a.chunks))),
                    NEW g \in Range(Tail(a.groups))
             PROVE  ~Owns(a.at, g)
    BY DEF LocalDone
<1>1. a.groups \in Seq(Group) /\ Range(a.groups) = Range(Tail(j.groups))  BY TailFacts
<1>2. Range(Tail(a.groups)) \subseteq Range(a.groups)  BY <1>1, TailFacts
<1> QED  BY <1>1, <1>2 DEF LocalDone

\* The local write of a patch: what it was compiled to.
LEMMA PatchWrites ==
    ASSUME Inv, PatchInv, NEW k \in DOMAIN jobs, k[1] \in Requests,
           NEW j, DataOk(k, j), HasChunks(j), j.op = "patch",
           NEW a, Becomes(k, a), PatchPlaced(k, a),
           Writes(j.at, LocalWrite(k[1], j, Mem(j.at))),
           \/ CompiledEarly(k[1], j.at)
           \/ \A id \in DOMAIN j.rows : j.rows[id] = Patched(Mem(j.at).rows[id], k[1])
    PROVE  PatchStep(k)
<1> DEFINE r == k[1]
           n == j.at
           s == Mem(n)
           w == LocalWrite(r, j, s)
<1>1. n \in Nodes /\ LogsOk  BY DEF DataOk, Inv
<1>2. DOMAIN s = StateFields  BY <1>1, LogEnds DEF LogsOk, Mem
<1>3. DOMAIN w = StateFields /\ s.ops \subseteq w.ops
    BY <1>2, LocalWriteFields
<1>4. ASSUME NEW id \in Ids, <<r, id>> \in w.ops, <<r, id>> \notin s.ops
      PROVE  id \in DOMAIN j.rows /\ w.rows[id] = j.rows[id]
    <2> DEFINE t == Targets(j, s)
               new == {<<r, i>> : i \in t}
    <2>1. t = DOMAIN j.rows  BY DEF Targets
    <2>2. t # {}  BY <1>4 DEF LocalWrite
    <2>3. w.rows = [i \in Ids |-> IF i \in t THEN NewRow(r, j, i) ELSE s.rows[i]]
          /\ w.ops = s.ops \cup new
        BY <2>2 DEF LocalWrite
    <2> HIDE DEF w, t
    <2>4. <<r, id>> \in new  BY <1>4, <2>3
    <2>5. id \in t  BY <2>4
    <2>6. w.rows[id] = NewRow(r, j, id)  BY <2>3, <2>5
    <2> QED  BY <2>1, <2>5, <2>6 DEF NewRow
<1>5. Writes(n, w)  OBVIOUS
<1> HIDE DEF w
<1>6. /\ Last(log'[n]) = w /\ NewMarks(n) = w.ops \ s.ops
      /\ \A m \in Nodes \ {n} : NewMarks(m) = {}
    BY <1>1, <1>3, <1>5, WrittenMarks
<1>7. \A m \in Nodes, id \in Ids :
         <<r, id>> \in NewMarks(m) /\ ~CompiledEarly(r, m)
         => Last(log'[m]).rows[id] = Patched(Mem(m).rows[id], r)
    <2> SUFFICES ASSUME NEW m \in Nodes, NEW id \in Ids, <<r, id>> \in NewMarks(m),
                        ~CompiledEarly(r, m)
                 PROVE  Last(log'[m]).rows[id] = Patched(Mem(m).rows[id], r)
        OBVIOUS
    <2>1. m = n  BY <1>6
    <2>2. id \in DOMAIN j.rows /\ w.rows[id] = j.rows[id]  BY <1>4, <1>6, <2>1
    <2>3. j.rows[id] = Patched(s.rows[id], r)  BY <2>1, <2>2
    <2> QED  BY <1>6, <2>1, <2>2, <2>3
<1>8. \A q \in DOMAIN jobs' : PatchPlaced(q, jobs'[q])
    BY BecomesFacts DEF PatchInv
<1> QED  BY <1>7, <1>8 DEF PatchStep

\* The loop over the groups of a patch.
LEMMA PatchRunGroups ==
    ASSUME Inv, PatchInv, NEW k \in DOMAIN jobs, k[1] \in Requests,
           NEW j, DataOk(k, j), HasChunks(j), FromRequest(k, j), LocalDone(j),
           j.groups \in Seq(Group), j.op = "patch",
           EntryTyped(Mem(j.at)),
           j.groups # <<>> /\ Owns(j.at, Head(j.groups))
           => /\ j.form = "single" => DOMAIN j.rows # {}
              /\ \/ CompiledEarly(k[1], j.at)
                 \/ \A id \in DOMAIN j.rows :
                       j.rows[id] = Patched(Mem(j.at).rows[id], k[1]),
           RunGroups(k, j)
    PROVE  PatchStep(k)
<1> DEFINE r == k[1]
           n == j.at
           s == Mem(n)
           isLocal == j.groups # <<>> /\ n \in Range(Owners[ShardOfGroup(Head(j.groups))])
           error == IF isLocal THEN LocalError(j, s) ELSE 0
           written == AfterLocalWrite(r, j, s)
           next == IF written.groups = <<>> THEN AfterGroups(written) ELSE ToOwners(written)
           onward == IF j.groups = <<>> THEN AfterGroups(j) ELSE ToOwners(j)
<1>1. \/ Becomes(k, Failed(j, error)) /\ UNCHANGED log
      \/ isLocal /\ Becomes(k, next) /\ Writes(n, LocalWrite(r, j, s))
      \/ Becomes(k, onward) /\ UNCHANGED log
    BY DEF RunGroups
<1>2. isLocal <=> j.groups # <<>> /\ Owns(n, Head(j.groups))  BY DEF Owns
<1>3. CASE Becomes(k, Failed(j, error)) /\ UNCHANGED log
    <2> HIDE DEF error
    <2> QED  BY <1>3, PatchFailed, PatchQuiet
<1>4. CASE Becomes(k, onward) /\ UNCHANGED log
    <2>1. PatchPlaced(k, onward)  BY PatchAfterGroups, PatchToOwners
    <2> HIDE DEF onward
    <2> QED  BY <1>4, <2>1, PatchQuiet
<1>5. CASE isLocal /\ Becomes(k, next) /\ Writes(n, LocalWrite(r, j, s))
    <2>1. j.form = "single" /\ j.op \in {"replace", "patch"} => Targets(j, s) # {}
        BY <1>2, <1>5 DEF Targets
    <2>2. DataOk(k, written)  BY <2>1, AfterLocalWriteTyped
    <2>3. /\ written.at = n /\ written.chunks = j.chunks /\ written.groups = Tail(j.groups)
        BY DEF AfterLocalWrite, DataOk, JobFields
    <2> HIDE DEF written
    <2>4. HasChunks(written) /\ FromRequest(k, written) /\ LocalDone(written)
        BY <1>5, <2>3, LocalDoneTail DEF HasChunks, FromRequest
    <2>5. PatchPlaced(k, next)  BY <2>2, <2>4, PatchAfterGroups, PatchToOwners
    <2> HIDE DEF next
    <2> QED  BY <1>2, <1>5, <2>5, PatchWrites
<1> QED  BY <1>1, <1>3, <1>4, <1>5

LEMMA PatchBegins ==
    ASSUME Inv, TypeInv, PatchInv, NEW k \in DOMAIN jobs, jobs[k].op = "patch",
           BeginObjects(k)
    PROVE  PatchStep(k)
<1> DEFINE i == jobs[k]
           j == [i EXCEPT !.groups = Head(i.chunks)]
           p == [j EXCEPT !.rows = Prepared(k[1], j)]
           absent == /\ j.form = "single" /\ j.op \in {"patch", "remove"}
                     /\ Local(j.at, Object(j.chunks))
                     /\ ~Present(Mem(j.at).rows[Object(j.chunks)])
<1>1. jobs[k].pc = "body"  BY DEF BeginObjects, At
<1>2. \/ Becomes(k, Answered(j, 404)) /\ UNCHANGED log
      \/ ~absent /\ RunGroups(k, p)
    BY DEF BeginObjects
<1>3. /\ k[1] \in Requests /\ i.at \in Nodes /\ EntryTyped(Mem(i.at))
      /\ FromRequest(k, i) /\ i.op \in ObjectOps
    BY <1>1, PatchFacts
<1>4. /\ DataOk(k, j) /\ Chunked(j) /\ HasChunks(j) /\ j.groups = Head(j.chunks)
      /\ j.op = "patch" /\ j.at = i.at
    BY <1>1, <1>3, ChunkTyped
<1>5. j.chunks = i.chunks
    <2>1. DataOk(k, i)  BY <1>1, PatchFacts
    <2> QED  BY <2>1 DEF DataOk, JobFields
<1>6. /\ DOMAIN p = JobFields /\ p.op = j.op /\ p.form = j.form /\ p.at = j.at
      /\ p.rows = Prepared(k[1], j) /\ p.olds = j.olds /\ p.before = j.before
      /\ p.wrote = j.wrote /\ p.did = j.did /\ p.part = j.part /\ p.count = j.count
      /\ p.chunks = j.chunks /\ p.groups = j.groups
    BY <1>4 DEF DataOk, JobFields
<1> HIDE DEF p, j
<1>7. /\ DOMAIN p.rows = {id \in LocalIds(j) : Present(Mem(j.at).rows[id])}
      /\ DOMAIN p.rows \subseteq Ids /\ \A id \in DOMAIN p.rows : p.rows[id] \in Row
      /\ \A id \in DOMAIN p.rows : p.rows[id] = Patched(Mem(j.at).rows[id], k[1])
    <2> DEFINE there == {id \in LocalIds(j) : Present(Mem(j.at).rows[id])}
               rows == Prepared(k[1], j)
    <2>1. rows = [id \in there |-> Patched(Mem(j.at).rows[id], k[1])]
        BY <1>4 DEF Prepared, CompileFrom
    <2>2. /\ DOMAIN rows \subseteq Ids /\ \A id \in DOMAIN rows : rows[id] \in Row
        BY <1>3, <1>4, PreparedTyped
    <2> HIDE DEF there, rows
    <2>3. p.rows = rows  BY <1>6 DEF rows
    <2>4. DOMAIN rows = there /\ \A id \in there : rows[id] = Patched(Mem(j.at).rows[id], k[1])
        BY <2>1
    <2> QED  BY <2>2, <2>3, <2>4 DEF there
<1>8. CASE Becomes(k, Answered(j, 404)) /\ UNCHANGED log
    BY <1>4, <1>8, PatchAnswered, PatchQuiet
<1>9. CASE ~absent /\ RunGroups(k, p)
    <2>1. DataOk(k, p)  BY <1>4, <1>6, <1>7 DEF DataOk
    <2>2. HasChunks(p) /\ FromRequest(k, p) /\ p.op = "patch"
        BY <1>3, <1>4, <1>5, <1>6 DEF HasChunks, FromRequest
    <2>3. Head(p.chunks) \in Chunk /\ p.groups = Head(p.chunks) /\ p.at \in Nodes
        BY <1>3, <1>4, <1>6, <2>2 DEF HasChunks
    <2>4. p.groups \in Seq(Group) /\ p.groups # <<>>  BY <2>3 DEF Chunk
    <2>5. LocalDone(p)  BY <2>3, FirstIsOnly DEF LocalDone
    <2>6. ASSUME p.form = "single", Owns(p.at, Head(p.groups))
          PROVE  DOMAIN p.rows # {}
        <3>1. ForOne(j) /\ j.form = "single"
            BY <1>4, <1>6, <2>6 DEF ForOne, ObjectOps
        <3>2. PICK id \in Ids : j.chunks = << <<{id}>> >>
            BY <1>4, <3>1 DEF Chunked, OneObject
        <3>3. /\ Object(j.chunks) = id /\ Head(j.chunks) = <<{id}>>
              /\ Head(j.groups) = {id} /\ ShardOfGroup({id}) = ShardOf[id]
            BY <1>4, <3>2, OneObjectFacts
        <3>4. Local(j.at, id)  BY <1>6, <2>6, <3>3 DEF Local, Owns
        <3>5. Range(<<{id}>>) = {{id}}
            <4>1. DOMAIN <<{id}>> = {1} /\ <<{id}>>[1] = {id}  OBVIOUS
            <4> QED  BY <4>1 DEF Range
        <3>6. id \in LocalIds(j)  BY <3>3, <3>4, <3>5 DEF LocalIds
        <3>7. Present(Mem(j.at).rows[id])  BY <1>4, <1>9, <3>1, <3>3, <3>4
        <3> QED  BY <1>7, <3>6, <3>7
    <2>7. \A id \in DOMAIN p.rows : p.rows[id] = Patched(Mem(p.at).rows[id], k[1])
        BY <1>6, <1>7
    <2>8. EntryTyped(Mem(p.at))  BY <1>3, <1>4, <1>6
    <2> QED  BY <1>3, <1>9, <2>1, <2>2, <2>4, <2>5, <2>6, <2>7, <2>8, PatchRunGroups
<1> QED  BY <1>2, <1>8, <1>9

\* A patch that finds a local group after it was sent elsewhere is compiled early.
LEMMA LaterIsEarly ==
    ASSUME NEW k, NEW i, i.at \in Nodes, FromRequest(k, i), LocalDone(i),
           HasChunks(i), HasGroups(i), Grouped(i), DataOk(k, i), i.op = "patch",
           Tail(i.groups) # <<>>, Owns(i.at, Head(Tail(i.groups)))
    PROVE  CompiledEarly(k[1], i.at)
<1>1. i.groups # <<>> /\ Head(Tail(i.groups)) \in Range(Tail(i.groups))
    BY TailFacts DEF HasGroups
<1>2. ~Owns(i.at, Head(Head(i.chunks)))  BY <1>1 DEF LocalDone
<1>3. ~IsForwarded(k)
    <2> SUFFICES ASSUME IsForwarded(k) PROVE FALSE  OBVIOUS
    <2>1. PICK g \in Group : i.chunks = << <<g>> >> /\ Owns(i.at, g)  BY DEF FromRequest
    <2>2. Head(Head(i.chunks)) = g  BY <2>1
    <2> QED  BY <1>2, <2>1, <2>2
<1>4. i.at = Req(k[1]).at /\ Range(i.chunks) \subseteq Range(Req(k[1]).chunks)
    BY <1>3 DEF FromRequest
<1>5. Head(i.chunks) \in Range(Req(k[1]).chunks)  BY <1>4, TailFacts DEF HasChunks
<1>6. i.form # "single"
    <2> SUFFICES ASSUME i.form = "single" PROVE FALSE  OBVIOUS
    <2>1. i.chunks \in OneObject /\ i.groups = Head(i.chunks)
        BY DEF Grouped, ForOne, ObjectOps
    <2>2. PICK id \in Ids : i.chunks = << <<{id}>> >>  BY <2>1 DEF OneObject
    <2>3. i.groups = <<{id}>>  BY <2>1, <2>2
    <2>4. Tail(i.groups) = <<>>  BY <2>3
    <2> QED  BY <2>4
<1> QED  BY <1>2, <1>4, <1>5, <1>6 DEF CompiledEarly, Owns, DataOk

LEMMA PatchReturns ==
    ASSUME Inv, TypeInv, PatchInv, NEW k \in DOMAIN jobs, jobs[k].op = "patch", Return(k)
    PROVE  PatchStep(k)
<1> DEFINE i == jobs[k]
           c == jobs[i.child]
           j == [i EXCEPT !.child = <<>>]
           m == [j EXCEPT !.missed = @ \/ c.status # 404]
           e == [j EXCEPT !.started = StartedMarker(j, c.started)]
           f == [j EXCEPT !.before = c.before]
           g == [j EXCEPT !.part = @ + c.count, !.groups = Tail(@)]
<1>1. i.pc = "wait" /\ i.child \in DOMAIN jobs  BY DEF Return, At
<1>2. \/ Becomes(k, NextOwner(m, c.status)) /\ UNCHANGED log
      \/ Becomes(k, Failed(e, c.status)) /\ UNCHANGED log
      \/ j.op \in Reads
      \/ RunGroups(k, g)
    BY DEF Return
<1>3. /\ k[1] \in Requests /\ i.at \in Nodes /\ EntryTyped(Mem(i.at))
      /\ DataOk(k, i) /\ HasChunks(i) /\ FromRequest(k, i)
      /\ LocalDone(i) /\ HasGroups(i) /\ Grouped(i)
      /\ i.peers \in Seq(Nodes) /\ i.peers # <<>>
      /\ Range(i.peers) \subseteq Range(Owners[ShardOfGroup(Head(i.groups))])
      /\ i.op \notin Reads
    BY <1>1, PatchFacts
<1>4. c.count \in Nat  BY <1>1, TypedFacts DEF DataOk
<1>5. j.op \notin Reads  BY <1>3 DEF DataOk, JobFields
<1>6. CASE Becomes(k, NextOwner(m, c.status)) /\ UNCHANGED log
    <2>1. /\ SameData(m, i) /\ m.at = i.at /\ m.chunks = i.chunks /\ m.groups = i.groups
          /\ m.peers = i.peers
        BY <1>3 DEF DataOk, JobFields, SameData
    <2> HIDE DEF m
    <2>2. DataOk(k, m) /\ FromRequest(k, m) /\ LocalDone(m)
        BY <1>3, <2>1, DataKept DEF FromRequest, LocalDone
    <2>3. PatchPlaced(k, NextOwner(m, c.status))  BY <1>3, <2>1, <2>2, PatchNextOwner
    <2> QED  BY <1>6, <2>3, PatchQuiet
<1>7. CASE Becomes(k, Failed(e, c.status)) /\ UNCHANGED log
    <2>1. SameData(e, i) /\ e.at = i.at /\ e.chunks = i.chunks
        BY <1>3 DEF DataOk, JobFields, SameData
    <2> HIDE DEF e
    <2>2. DataOk(k, e) /\ FromRequest(k, e)  BY <1>3, <2>1, DataKept DEF FromRequest
    <2>3. PatchPlaced(k, Failed(e, c.status))  BY <2>2, PatchFailed
    <2> QED  BY <1>7, <2>3, PatchQuiet
<1>8. CASE RunGroups(k, g)
    <2>1. /\ DOMAIN g = JobFields /\ g.op = i.op /\ g.form = i.form /\ g.at = i.at
          /\ g.rows = i.rows /\ g.olds = i.olds /\ g.before = i.before
          /\ g.wrote = i.wrote /\ g.did = i.did /\ g.part = i.part + c.count
          /\ g.count = i.count /\ g.chunks = i.chunks /\ g.groups = Tail(i.groups)
        BY <1>3 DEF DataOk, JobFields
    <2> HIDE DEF g, j, c
    <2>2. g.part \in Nat  BY <1>3, <1>4, <2>1 DEF DataOk
    <2>3. DataOk(k, g)  BY <1>3, <2>1, <2>2 DEF DataOk
    <2>4. HasChunks(g) /\ FromRequest(k, g) /\ g.op = "patch"
        BY <1>3, <2>1 DEF HasChunks, FromRequest
    <2>5. g.groups \in Seq(Group) /\ LocalDone(g)
        BY <1>3, <2>1, TailFacts, LocalDoneTail DEF HasGroups
    <2>6. ASSUME g.groups # <<>>, Owns(g.at, Head(g.groups))
          PROVE  g.form # "single" /\ CompiledEarly(k[1], g.at)
        <3>1. CompiledEarly(k[1], i.at)  BY <1>3, <2>1, <2>6, LaterIsEarly
        <3> QED  BY <1>3, <2>1, <3>1 DEF CompiledEarly, DataOk
    <2>7. EntryTyped(Mem(g.at))  BY <1>3, <2>1
    <2> QED  BY <1>3, <1>8, <2>3, <2>4, <2>5, <2>6, <2>7, PatchRunGroups
<1> QED  BY <1>2, <1>5, <1>6, <1>7, <1>8

LEMMA PatchMissed ==
    ASSUME Inv, TypeInv, PatchInv, NEW k \in DOMAIN jobs, jobs[k].op = "patch",
           Unreachable(k) \/ TimesOut(k) \/ Disconnected(k)
    PROVE  PatchStep(k)
<1> DEFINE i == jobs[k]
           m == [i EXCEPT !.missed = TRUE]
<1>1. i.pc \in {"send", "wait"} /\ UNCHANGED log
    BY DEF Unreachable, TimesOut, Disconnected, At
<1>2. \E status : Becomes(k, NextOwner(m, status))
    BY DEF Unreachable, TimesOut, Disconnected
<1>3. /\ DataOk(k, i) /\ FromRequest(k, i) /\ LocalDone(i)
      /\ i.peers \in Seq(Nodes) /\ i.peers # <<>>
      /\ Range(i.peers) \subseteq Range(Owners[ShardOfGroup(Head(i.groups))])
    BY <1>1, PatchFacts
<1>4. /\ SameData(m, i) /\ m.at = i.at /\ m.chunks = i.chunks /\ m.groups = i.groups
      /\ m.peers = i.peers
    BY <1>3 DEF DataOk, JobFields, SameData
<1> HIDE DEF m
<1>5. DataOk(k, m) /\ FromRequest(k, m) /\ LocalDone(m)
    BY <1>3, <1>4, DataKept DEF FromRequest, LocalDone
<1>6. \A status : PatchPlaced(k, NextOwner(m, status))  BY <1>3, <1>4, <1>5, PatchNextOwner
<1> QED  BY <1>1, <1>2, <1>6, PatchQuiet

\* The call goes to an owner of the group.
LEMMA PatchSends ==
    ASSUME Inv, TypeInv, PatchInv, NEW k \in DOMAIN jobs, jobs[k].op = "patch", Send(k)
    PROVE  PatchStep(k)
<1> DEFINE j == jobs[k]
           c == ChildKey(k, Head(j.peers))
           a == [j EXCEPT !.pc = "wait", !.child = c]
           chunks == << <<Head(j.groups)>> >>
           e == NewJob(k[1], Head(j.peers), chunks)
<1>1. /\ j.pc = "send" /\ UNCHANGED log
      /\ jobs' = [q \in DOMAIN jobs \cup {c} |-> IF q = k THEN a ELSE IF q = c THEN e ELSE jobs[q]]
    BY DEF Send, At
<1>2. /\ DataOk(k, j) /\ FromRequest(k, j) /\ LocalDone(j) /\ HasGroups(j)
      /\ j.peers \in Seq(Nodes) /\ j.peers # <<>>
      /\ Range(j.peers) \subseteq Range(Owners[ShardOfGroup(Head(j.groups))])
    BY <1>1, PatchFacts
<1>3. PatchPlaced(k, a)
    <2>1. a.at = j.at /\ a.chunks = j.chunks /\ a.groups = j.groups /\ a.peers = j.peers
        BY <1>2 DEF DataOk, JobFields
    <2> HIDE DEF a
    <2>2. FromRequest(k, a) /\ LocalDone(a)  BY <1>2, <2>1 DEF FromRequest, LocalDone
    <2> QED  BY <1>2, <2>1, <2>2 DEF PatchPlaced
<1>4. PatchPlaced(c, e)
    <2>1. e.at = Head(j.peers) /\ e.chunks = chunks /\ e.pc = "new"  BY DEF NewJob
    <2>2. Head(j.groups) \in Group /\ Head(j.peers) \in Range(j.peers)
          /\ Head(j.peers) \in Nodes
        BY <1>2, TailFacts DEF HasGroups
    <2>3. Owns(Head(j.peers), Head(j.groups))  BY <1>2, <2>2 DEF Owns
    <2>4. c[2] = Head(j.peers)  BY DEF ChildKey
    <2> HIDE DEF e, c
    <2>5. IsForwarded(c)  BY <2>2, <2>4, RootKeys DEF IsForwarded
    <2>6. FromRequest(c, e)  BY <2>1, <2>2, <2>3, <2>5 DEF FromRequest
    <2> QED  BY <2>1, <2>6 DEF PatchPlaced
<1> HIDE DEF a, c, e
<1>5. \A q \in DOMAIN jobs' : PatchPlaced(q, jobs'[q])
    BY <1>1, <1>3, <1>4 DEF PatchInv
<1> QED  BY <1>1, <1>5, SameLogMarks DEF PatchStep

LEMMA PatchReceives ==
    ASSUME Inv, TypeInv, PatchInv, NEW k \in DOMAIN jobs, jobs[k].op = "patch", Receive(k)
    PROVE  PatchStep(k)
<1> DEFINE j == jobs[k]
           a == [j EXCEPT !.pc = "body", !.started = TRUE, !.known = {id \in Ids : Acknowledged(id)}]
<1>1. j.pc = "new" /\ UNCHANGED log  BY DEF Receive, At
<1>2. Becomes(k, a) \/ Becomes(k, Answered(j, 401))  BY DEF Receive
<1>3. DataOk(k, j) /\ FromRequest(k, j)  BY <1>1, PatchFacts
<1>4. a.at = j.at /\ a.chunks = j.chunks /\ a.pc = "body"
    BY <1>3 DEF DataOk, JobFields
<1> HIDE DEF a
<1>5. PatchPlaced(k, a) /\ PatchPlaced(k, Answered(j, 401))
    BY <1>3, <1>4, PatchStays, PatchAnswered
<1> QED  BY <1>1, <1>2, <1>5, PatchQuiet

LEMMA PatchSaves ==
    ASSUME Inv, TypeInv, PatchInv, NEW k \in DOMAIN jobs, jobs[k].op = "patch", Save(k)
    PROVE  PatchStep(k)
<1> DEFINE j == jobs[k]
           n == j.at
<1>1. j.pc = "save" /\ Becomes(k, AfterSave(k, j))  BY DEF Save, At
<1>2. PICK i \in DOMAIN log[n] : log' = [log EXCEPT ![n] = SubSeq(log[n], i, Len(log[n]))]
    BY DEF Save
<1>3. DataOk(k, j) /\ FromRequest(k, j) /\ HasChunks(j) /\ j.op \notin ScopeOps /\ n \in Nodes
    BY <1>1, PatchFacts
<1>4. PatchPlaced(k, AfterSave(k, j))  BY <1>3, PatchAfterSave
<1> HIDE DEF n
<1>5. \A m \in Nodes : NewMarks(m) = {}  BY <1>2, <1>3, SavedMarks DEF Inv
<1> QED  BY <1>1, <1>4, <1>5, PatchMoves

LEMMA PatchUnlinks ==
    ASSUME Inv, TypeInv, PatchInv, NEW k \in DOMAIN jobs, jobs[k].op = "patch", Unlink(k)
    PROVE  PatchStep(k)
<1> DEFINE j == jobs[k]
<1>1. j.pc = "unlink" /\ UNCHANGED log  BY DEF Unlink, At
<1>2. DataOk(k, j) /\ FromRequest(k, j) /\ HasChunks(j) /\ j.op \notin ScopeOps
    BY <1>1, PatchFacts
<1>3. Becomes(k, Completed(j))  BY <1>2 DEF Unlink
<1> QED  BY <1>1, <1>2, <1>3, PatchCompleted, PatchQuiet

LEMMA PatchIsAnswered ==
    ASSUME Inv, TypeInv, PatchInv, NEW k \in DOMAIN jobs, jobs[k].op = "patch",
           ReadBlob(k) \/ Refuse(k) \/ PutBlobFails(k) \/ SaveFails(k)
    PROVE  PatchStep(k)
<1> DEFINE j == jobs[k]
<1>1. UNCHANGED log  BY DEF ReadBlob, Refuse, PutBlobFails, SaveFails
<1>2. DataOk(k, j)  BY TypedFacts
<1>3. PICK a : Becomes(k, a) /\ a.pc = "done"
    <2>1. \A status : Answered(j, status).pc = "done"  BY <1>2 DEF Answered, DataOk, JobFields
    <2>2. [Answered(j, 500) EXCEPT !.unsaved = TRUE].pc = "done"
        BY <1>2 DEF Answered, DataOk, JobFields
    <2>3. CASE SaveFails(k)  BY <2>2, <2>3 DEF SaveFails
    <2>4. CASE ReadBlob(k) \/ Refuse(k) \/ PutBlobFails(k)
        <3>1. \E status : Becomes(k, Answered(j, status))
            BY <2>4 DEF ReadBlob, Refuse, PutBlobFails
        <3> QED  BY <2>1, <3>1
    <2> QED  BY <2>3, <2>4
<1> QED  BY <1>1, <1>3, PatchEnds, PatchQuiet

LEMMA PatchSteps ==
    ASSUME Inv, TypeInv, PatchInv, NEW k \in DOMAIN jobs, jobs[k].op = "patch",
           Step(k) \/ Failure(k)
    PROVE  PatchStep(k)
<1>1. jobs[k].op \notin Reads \cup ScopeOps  BY DEF Reads, ScopeOps
<1>2. ~BeginRead(k) /\ ~BeginDrop(k) /\ ~BeginCreate(k)
    BY <1>1 DEF BeginRead, BeginDrop, BeginCreate, ScopeOps
<1>3. /\ ~PutBlob(k) /\ ~FanOut(k) /\ ~FanReturn(k) /\ ~FanDone(k)
    <2>1. jobs[k].pc \notin {"put", "fan", "fanned"}  BY PatchFacts
    <2> QED  BY <2>1 DEF PutBlob, FanOut, FanReturn, FanDone, At
<1>4. ~BeginFile(k)
    <2> SUFFICES ASSUME BeginFile(k) PROVE FALSE  OBVIOUS
    <2>1. jobs[k].pc = "body" /\ jobs[k].form = "file"  BY DEF BeginFile, At
    <2> QED  BY <2>1, PatchFacts
<1> QED  BY <1>2, <1>3, <1>4, PatchReceives, PatchBegins, PatchSaves, PatchUnlinks, PatchSends,
            PatchReturns, PatchMissed, PatchIsAnswered DEF Step, Failure

LEMMA RestartPatches ==
    ASSUME Inv, PatchInv, NEW n \in Nodes, Restart(n)
    PROVE  PatchInv' /\ PatchesKeep
<1> DEFINE stopped(j) == [j EXCEPT !.pc = "done", !.status = 0, !.child = <<>>, !.fan = <<>>]
<1>1. scenario' = scenario /\ log' = [log EXCEPT ![n] = <<Durable(n)>>]  BY DEF Restart
<1>2. \A q \in DOMAIN jobs' : /\ q \in DOMAIN jobs
                              /\ jobs'[q] = jobs[q] \/ jobs'[q] = stopped(jobs[q])
    BY DEF Restart
<1>3. \A q \in DOMAIN jobs : stopped(jobs[q]).pc = "done"
    <2>1. \A q \in DOMAIN jobs : DOMAIN jobs[q] = JobFields  BY JobFacts DEF Carries
    <2> QED  BY <2>1 DEF JobFields
<1> HIDE DEF stopped
<1>4. \A q \in DOMAIN jobs' : PatchPlaced(q, jobs'[q])  BY <1>2, <1>3, PatchEnds DEF PatchInv
<1>5. PatchInv'  BY <1>1, <1>4, SamePatch DEF PatchInv
<1>6. /\ DOMAIN log = Nodes /\ log'[n] = <<Head(log[n])>>
      /\ \A m \in Nodes \ {n} : log'[m] = log[m]
      /\ \A m \in Nodes : IsLog(log[m])
    BY <1>1 DEF Inv, LogsOk, Durable
<1>7. \A m \in Nodes : Last(log'[m]).ops \subseteq Last(log[m]).ops
    <2>1. Last(<<Head(log[n])>>) = Head(log[n])  BY <1>6, ResetLog
    <2>2. Head(log[n]).ops \subseteq Last(log[n]).ops  BY <1>6, LogEnds
    <2>3. Last(log'[n]).ops \subseteq Last(log[n]).ops  BY <1>6, <2>1, <2>2
    <2> QED  BY <1>6, <2>3
<1>8. PatchesKeep  BY <1>7 DEF PatchesKeep, Mem
<1> QED  BY <1>5, <1>8

LEMMA InitPatch == Init => PatchInv
<1> SUFFICES ASSUME Init, NEW k \in DOMAIN jobs PROVE PatchPlaced(k, jobs[k])
    BY DEF PatchInv
<1>1. PICK r \in Requests : k = RootKey(r)  BY DEF Init
<1>2. ~IsForwarded(k) /\ k[1] = r  BY <1>1, RootKeys
<1>3. jobs[k] = NewJob(k[1], Req(k[1]).at, Req(k[1]).chunks)  BY DEF Init
<1>4. /\ jobs[k].at = Req(k[1]).at /\ jobs[k].chunks = Req(k[1]).chunks
      /\ jobs[k].pc = "new"
    BY <1>3 DEF NewJob
<1> QED  BY <1>2, <1>4 DEF PatchPlaced, FromRequest

LEMMA NextPatch == Inv /\ Inv' /\ TypeInv /\ PatchInv /\ [Next]_vars => PatchInv' /\ [PatchesKeep]_vars
<1> SUFFICES ASSUME Inv, Inv', TypeInv, PatchInv, [Next]_vars
             PROVE  PatchInv' /\ [PatchesKeep]_vars
    OBVIOUS
<1>1. ASSUME NEW k \in DOMAIN jobs, Step(k) \/ Failure(k)
      PROVE  PatchInv' /\ PatchesKeep
    BY <1>1, PatchSteps, StepPatches
<1>2. ASSUME NEW n \in Nodes, Restart(n) PROVE PatchInv' /\ PatchesKeep
    BY <1>2, RestartPatches
<1>3. ASSUME UNCHANGED <<scenario, log, jobs>> PROVE PatchInv' /\ PatchesKeep
    <2>1. \A q \in DOMAIN jobs' : PatchPlaced(q, jobs'[q])  BY <1>3 DEF PatchInv
    <2>2. PatchInv'  BY <1>3, <2>1, SamePatch DEF PatchInv
    <2>3. PatchesKeep  BY <1>3 DEF PatchesKeep, Mem
    <2> QED  BY <2>2, <2>3
<1> QED  BY <1>1, <1>2, <1>3 DEF Next, ExpireToken, vars

\* A patch changes the field it names and nothing else of what the object is at that
\* moment: other requests, failures, retries at other owners and restarts do not make
\* it write what it was compiled from earlier, unless its request is compiled early.
THEOREM PatchesKeepOtherFields == Spec => PatchKeepsOtherFields
<1>1. Inv /\ Inv' /\ TypeInv /\ PatchInv /\ [Next]_vars => PatchInv'
    BY NextPatch
<1>2. Inv /\ Inv' /\ TypeInv /\ PatchInv /\ [Next]_vars => [PatchesKeep]_vars
    BY NextPatch
<1>3. Spec => [][PatchesKeep]_vars
    BY <1>1, <1>2, InitPatch, RequestsInvariant, TypeInvHolds, PTL DEF Spec
<1> QED  BY <1>3 DEF PatchKeepsOtherFields, PatchesKeep

----------------------------------------------------------------------------
\* Answers and what they count.  What a job is meant to do is in its request's chunks; what
\* it has done of them is marked in what it wrote or in what is saved somewhere.

Left(groups) == UNION Range(groups)
LeftIn(chunks) == UNION {Left(c) : c \in Range(chunks)}

\* The objects of ids that request r has operated on.
Marked(r, ids, marks) == {id \in ids : <<r, id>> \in marks}

\* What is saved anywhere.
Kept == UNION {Saved(n) : n \in Nodes}

\* A call carries the objects of one chunk that its node owns.
Meant(k) ==
    IF IsForwarded(k)
    THEN {id \in Ids : id \in Left(Req(k[1]).chunks[k[3] + 1]) /\ Local(k[2], id)}
    ELSE LeftIn(Req(k[1]).chunks)

IsTailOf(s, q) ==
    /\ Len(s) <= Len(q)
    /\ \A i \in 1..Len(s) : s[i] = q[Len(q) - Len(s) + i]

OnRequest(k, j) ==
    IF IsForwarded(k)
    THEN \E g \in Group : j.chunks = << <<g>> >> /\ Owns(j.at, g) /\ g \subseteq Meant(k)
    ELSE IsTailOf(j.chunks, Req(k[1]).chunks)

InChunk(j) ==
    j.groups # <<>> => j.groups \in Chunk /\ Range(j.groups) \subseteq Range(Head(j.chunks))

\* The call that the job awaits is for its next group.
Called(k, j) ==
    \E n \in Nodes : /\ j.child = <<k[1], n, Len(Req(k[1]).chunks) - Len(j.chunks)>>
                     /\ Owns(n, Head(j.groups))

Follows(k, j) ==
    /\ j.pc # "done" => OnRequest(k, j)
    /\ j.pc \in {"put", "send", "wait"} => InChunk(j)
    /\ j.pc \in {"send", "wait"} =>
          /\ ~IsForwarded(k)
          /\ j.op = "patch" => DOMAIN j.rows \subseteq LocalIds(j)
          /\ Range(j.peers) \subseteq Range(Owners[ShardOfGroup(Head(j.groups))])
    /\ j.pc = "wait" => Called(k, j)
    /\ j.pc = "read" => j.op \in Reads
    /\ j.pc = "unlink" \/ (j.pc = "save" /\ j.fail = 0) => j.groups = <<>>
    /\ ~Ok(j.fail)
    /\ j.pc = "done" /\ Ok(j.status) /\ j.op \notin Reads => j.chunks = <<>>
    /\ j.pc = "done" /\ IsForwarded(k) => j.status # 0

\* The chunks that are finished: no more is counted than was marked, and a create has
\* marked everything.
CountOk(k, j, saved) ==
    /\ NamesOnce(k[1]) =>
          j.count <= Cardinality(Marked(k[1], Meant(k) \ LeftIn(j.chunks), saved))
    /\ j.op = "create" => \A id \in Meant(k) \ LeftIn(j.chunks) : <<k[1], id>> \in saved

\* The same of the groups of the chunk at hand.
PartOk(k, j, saved) ==
    LET ids == Left(Head(j.chunks)) \ Left(j.groups)
    IN  /\ NamesOnce(k[1]) => j.part <= Cardinality(Marked(k[1], ids, j.wrote \cup saved))
        /\ j.op = "create" => \A id \in ids : <<k[1], id>> \in j.wrote \cup saved

Middle == {"send", "wait", "save", "unlink"}

Work(k, j, saved) ==
    /\ Follows(k, j)
    /\ CountOk(k, j, saved)
    /\ j.pc \in {"new", "body", "put"} => j.part = 0
    /\ j.pc \in Middle => PartOk(k, j, saved)

WorkInv == \A k \in DOMAIN jobs : Req(k[1]).op \in ObjectOps => Work(k, jobs[k], Kept)

\* A job in the middle of a chunk.
Handled(k) == scenario \in Scenarios /\ k[1] \in Requests /\ Req(k[1]).op \in ObjectOps

Fields(k, j) ==
    /\ DOMAIN j = JobFields /\ j.op = Req(k[1]).op /\ j.at \in Nodes
    /\ DOMAIN j.rows \subseteq Ids /\ j.part \in Nat /\ j.count \in Nat

Ready(k, j, saved) ==
    /\ Handled(k) /\ Fields(k, j) /\ HasChunks(j) /\ OnRequest(k, j)
    /\ CountOk(k, j, saved) /\ PartOk(k, j, saved) /\ ~Ok(j.fail)

LEMMA MarkedGrows ==
    ASSUME NEW r, NEW ids, NEW more \in SUBSET Ids, ids \subseteq more,
           NEW V, NEW W, V \subseteq W
    PROVE  /\ IsFiniteSet(Marked(r, ids, V)) /\ Cardinality(Marked(r, ids, V)) \in Nat
           /\ Cardinality(Marked(r, more, W)) \in Nat
           /\ Cardinality(Marked(r, ids, V)) <= Cardinality(Marked(r, more, W))
<1> DEFINE s == Marked(r, ids, V)
           t == Marked(r, more, W)
<1>1. s \subseteq t /\ t \subseteq Ids  BY DEF Marked
<1> HIDE DEF s, t
<1>2. IsFiniteSet(t)  BY <1>1, RequestsAssumption, FS_Subset
<1>3. IsFiniteSet(s) /\ Cardinality(s) <= Cardinality(t)  BY <1>1, <1>2, FS_Subset
<1>4. Cardinality(s) \in Nat /\ Cardinality(t) \in Nat  BY <1>2, <1>3, FS_CardinalityType
<1> QED  BY <1>3, <1>4 DEF s, t

LEMMA MarkedAdds ==
    ASSUME NEW r, NEW ids, NEW others, ids \cap others = {}, NEW W,
           NEW all \in SUBSET Ids, ids \cup others \subseteq all,
           NEW a \in Nat, a <= Cardinality(Marked(r, ids, W)),
           NEW b \in Nat, b <= Cardinality(Marked(r, others, W))
    PROVE  a + b <= Cardinality(Marked(r, all, W))
<1> DEFINE s == Marked(r, ids, W)
           t == Marked(r, others, W)
           u == Marked(r, ids \cup others, W)
<1>1. u = s \cup t /\ s \cap t = {}  BY DEF Marked
<1>2. IsFiniteSet(s) /\ Cardinality(s) \in Nat  BY MarkedGrows
<1>3. IsFiniteSet(t) /\ Cardinality(t) \in Nat  BY MarkedGrows
<1>4. Cardinality(u) <= Cardinality(Marked(r, all, W)) /\ Cardinality(u) \in Nat
      /\ Cardinality(Marked(r, all, W)) \in Nat
    BY MarkedGrows
<1>5. a <= Cardinality(s) /\ b <= Cardinality(t)  OBVIOUS
<1> HIDE DEF s, t, u
<1>6. Cardinality(s \cup t) = Cardinality(s) + Cardinality(t) - Cardinality(s \cap t)
    BY <1>2, <1>3, FS_Union
<1>7. Cardinality(s \cap t) = 0  BY <1>1, FS_EmptySet
<1>8. Cardinality(u) = Cardinality(s) + Cardinality(t)  BY <1>1, <1>2, <1>3, <1>6, <1>7
<1>9. a + b <= Cardinality(u)  BY <1>2, <1>3, <1>5, <1>8
<1> QED  BY <1>2, <1>3, <1>4, <1>8, <1>9

\* What is marked stays so.
LEMMA CountGrows ==
    ASSUME NEW k, Meant(k) \subseteq Ids, NEW j, NEW S, NEW T, S \subseteq T,
           j.count \in Nat, CountOk(k, j, S)
    PROVE  CountOk(k, j, T)
<1> DEFINE ids == Meant(k) \ LeftIn(j.chunks)
<1>1. ids \subseteq Ids  OBVIOUS
<1> HIDE DEF ids
<1>2. /\ Cardinality(Marked(k[1], ids, S)) \in Nat /\ Cardinality(Marked(k[1], ids, T)) \in Nat
      /\ Cardinality(Marked(k[1], ids, S)) <= Cardinality(Marked(k[1], ids, T))
    BY <1>1, MarkedGrows
<1>3. NamesOnce(k[1]) => j.count <= Cardinality(Marked(k[1], ids, S))  BY DEF CountOk, ids
<1>4. NamesOnce(k[1]) => j.count <= Cardinality(Marked(k[1], ids, T))  BY <1>2, <1>3
<1>5. j.op = "create" => \A id \in ids : <<k[1], id>> \in T  BY DEF CountOk, ids
<1> QED  BY <1>4, <1>5 DEF CountOk, ids

LEMMA PartGrows ==
    ASSUME NEW k, NEW j, HasChunks(j), NEW S, NEW T, S \subseteq T,
           j.part \in Nat, PartOk(k, j, S)
    PROVE  PartOk(k, j, T)
<1> DEFINE ids == Left(Head(j.chunks)) \ Left(j.groups)
           V == j.wrote \cup S
           W == j.wrote \cup T
<1>1. ids \subseteq Ids
    <2>1. Head(j.chunks) \in Seq(Group)  BY DEF HasChunks, Chunk
    <2>2. Range(Head(j.chunks)) \subseteq Group  BY <2>1 DEF Range
    <2> QED  BY <2>2 DEF Left, Group
<1>2. V \subseteq W  OBVIOUS
<1>3. /\ NamesOnce(k[1]) => j.part <= Cardinality(Marked(k[1], ids, V))
      /\ j.op = "create" => \A id \in ids : <<k[1], id>> \in V
    BY DEF PartOk
<1> HIDE DEF ids, V, W
<1>4. /\ Cardinality(Marked(k[1], ids, V)) \in Nat /\ Cardinality(Marked(k[1], ids, W)) \in Nat
      /\ Cardinality(Marked(k[1], ids, V)) <= Cardinality(Marked(k[1], ids, W))
    BY <1>1, <1>2, MarkedGrows
<1>5. NamesOnce(k[1]) => j.part <= Cardinality(Marked(k[1], ids, W))  BY <1>3, <1>4
<1>6. j.op = "create" => \A id \in ids : <<k[1], id>> \in W  BY <1>2, <1>3
<1> QED  BY <1>5, <1>6 DEF PartOk, ids, W

LEMMA WorkGrows ==
    ASSUME NEW k, Meant(k) \subseteq Ids, NEW j, Fields(k, j),
           j.pc # "done" => HasChunks(j), NEW S, NEW T, S \subseteq T, Work(k, j, S)
    PROVE  Work(k, j, T)
<1>1. j.count \in Nat /\ j.part \in Nat  BY DEF Fields
<1>2. CountOk(k, j, T)  BY <1>1, CountGrows DEF Work
<1>3. ASSUME j.pc \in Middle PROVE PartOk(k, j, T)
    BY <1>1, <1>3, PartGrows DEF Work, Middle
<1> QED  BY <1>2, <1>3 DEF Work

----------------------------------------------------------------------------
\* The groups of a chunk and the chunks of a request.

LEMMA GroupFacts ==
    ASSUME NEW g \in Group
    PROVE  /\ g \subseteq Ids /\ g # {}
           /\ \A id \in g : ShardOf[id] = ShardOfGroup(g)
           /\ \A n : \A id \in g : Local(n, id) <=> Owns(n, g)
<1>1. g \subseteq Ids /\ g # {} /\ \A id, other \in g : ShardOf[id] = ShardOf[other]
    BY DEF Group
<1>2. (CHOOSE id \in g : TRUE) \in g  BY <1>1
<1>3. \A id \in g : ShardOf[id] = ShardOfGroup(g)  BY <1>1, <1>2 DEF ShardOfGroup
<1> QED  BY <1>1, <1>3 DEF Local, Owns

LEMMA ChunkFacts ==
    ASSUME NEW c \in Chunk
    PROVE  /\ c \in Seq(Group) /\ c # <<>> /\ Range(c) \subseteq Group /\ Left(c) \subseteq Ids
           /\ \A g, h \in Range(c) : ShardOfGroup(g) = ShardOfGroup(h) => g = h
<1>1. /\ c \in Seq(Group) /\ c # <<>>
      /\ \A i, h \in DOMAIN c : ShardOfGroup(c[i]) = ShardOfGroup(c[h]) => i = h
    BY DEF Chunk
<1>2. Range(c) \subseteq Group  BY <1>1 DEF Range
<1>3. \A g \in Group : g \subseteq Ids  BY DEF Group
<1>4. Left(c) \subseteq Ids  BY <1>2, <1>3 DEF Left
<1>5. \A g, h \in Range(c) : ShardOfGroup(g) = ShardOfGroup(h) => g = h
    BY <1>1 DEF Range
<1> QED  BY <1>1, <1>2, <1>4, <1>5

\* A sequence is its head and its tail.
LEMMA HeadAndTail ==
    ASSUME NEW T, NEW s \in Seq(T), s # <<>>
    PROVE  Range(s) = {Head(s)} \cup Range(Tail(s))
<1> DEFINE t == Tail(s)
<1>1. /\ t \in Seq(T) /\ Len(t) = Len(s) - 1 /\ Len(s) \in Nat /\ Len(s) >= 1
      /\ Head(s) = s[1] /\ DOMAIN s = 1..Len(s) /\ DOMAIN t = 1..Len(t)
      /\ \A i \in 1..Len(t) : t[i] = s[i + 1]
    OBVIOUS
<1> HIDE DEF t
<1>2. \A e \in Range(s) : e = Head(s) \/ e \in Range(t)
    <2> SUFFICES ASSUME NEW i \in DOMAIN s PROVE s[i] = Head(s) \/ s[i] \in Range(t)
        BY DEF Range
    <2>1. CASE i = 1  BY <1>1, <2>1
    <2>2. CASE i # 1
        <3>1. i - 1 \in 1..Len(t) /\ (i - 1) + 1 = i  BY <1>1, <2>2
        <3>2. t[i - 1] = s[i] /\ i - 1 \in DOMAIN t  BY <1>1, <3>1
        <3> QED  BY <3>2 DEF Range
    <2> QED  BY <2>1, <2>2
<1>3. Head(s) \in Range(s) /\ Range(t) \subseteq Range(s)  BY TailFacts DEF t
<1> QED  BY <1>2, <1>3 DEF t

LEMMA LeftSplits ==
    ASSUME NEW T, NEW s \in Seq(T), s # <<>>
    PROVE  Left(s) = Head(s) \cup Left(Tail(s))
<1>1. Range(s) = {Head(s)} \cup Range(Tail(s))  BY HeadAndTail
<1> QED  BY <1>1 DEF Left

LEMMA NothingLeft == Left(<<>>) = {} /\ LeftIn(<<>>) = {}
<1>1. Range(<<>>) = {}  BY DEF Range
<1> QED  BY <1>1 DEF Left, LeftIn

LEMMA OneLeft ==
    ASSUME NEW g
    PROVE  /\ Left(<<g>>) = g /\ LeftIn(<< <<g>> >>) = g
           /\ Range(<<g>>) = {g}
<1>1. Range(<<g>>) = {g} /\ Range(<< <<g>> >>) = {<<g>>}  BY DEF Range
<1>2. Left(<<g>>) = g  BY <1>1 DEF Left
<1> QED  BY <1>1, <1>2 DEF LeftIn

LEMMA MeantFacts ==
    ASSUME NEW k, Handled(k)
    PROVE  Meant(k) \subseteq Ids
<1>1. Req(k[1]).chunks \in Seq(Chunk)  BY RequestFacts DEF Handled
<1>2. Range(Req(k[1]).chunks) \subseteq Chunk  BY <1>1 DEF Range
<1>3. LeftIn(Req(k[1]).chunks) \subseteq Ids  BY <1>2, ChunkFacts DEF LeftIn
<1> QED  BY <1>3 DEF Meant

\* What a node owns of a chunk is one of its groups.
LEMMA OwnedGroup ==
    ASSUME NEW c \in Chunk, NEW n \in Nodes, NEW g \in Range(c), Owns(n, g)
    PROVE  {id \in Left(c) : Local(n, id)} = g
<1>1. /\ Range(c) \subseteq Group
      /\ \A f, h \in Range(c) : ShardOfGroup(f) = ShardOfGroup(h) => f = h
    BY ChunkFacts
<1>2. ASSUME NEW id \in Left(c), Local(n, id) PROVE id \in g
    <2>1. PICK h \in Range(c) : id \in h  BY DEF Left
    <2>2. Owns(n, h)  BY <1>1, <1>2, <2>1, GroupFacts
    <2>3. h = g  BY <1>1, <2>2, OneShardEach
    <2> QED  BY <2>1, <2>3
<1>3. ASSUME NEW id \in g PROVE id \in Left(c) /\ Local(n, id)
    BY <1>1, GroupFacts DEF Left
<1> QED  BY <1>2, <1>3

LEMMA RestOfChunk ==
    ASSUME NEW c \in Chunk
    PROVE  /\ Tail(c) # <<>> => Tail(c) \in Chunk
           /\ Head(c) \in Group /\ Head(c) \in Range(c) /\ Head(c) \cap Left(Tail(c)) = {}
<1> DEFINE t == Tail(c)
<1>1. /\ c \in Seq(Group) /\ c # <<>>
      /\ \A i, h \in DOMAIN c : ShardOfGroup(c[i]) = ShardOfGroup(c[h]) => i = h
    BY DEF Chunk
<1>2. /\ t \in Seq(Group) /\ Len(t) = Len(c) - 1 /\ Len(c) \in Nat /\ Len(c) >= 1
      /\ Head(c) = c[1] /\ DOMAIN c = 1..Len(c) /\ DOMAIN t = 1..Len(t)
      /\ \A i \in 1..Len(t) : t[i] = c[i + 1]
    BY <1>1
<1> HIDE DEF t
<1>3. \A i \in 1..Len(t) : i + 1 \in 1..Len(c) /\ i + 1 # 1  BY <1>2
<1>4. \A i, h \in DOMAIN t : ShardOfGroup(t[i]) = ShardOfGroup(t[h]) => i = h
    <2> SUFFICES ASSUME NEW i \in DOMAIN t, NEW h \in DOMAIN t,
                        ShardOfGroup(t[i]) = ShardOfGroup(t[h])
                 PROVE  i = h
        OBVIOUS
    <2>1. i + 1 = h + 1  BY <1>1, <1>2, <1>3
    <2> QED  BY <1>2, <2>1
<1>5. t # <<>> => t \in Chunk  BY <1>2, <1>4 DEF Chunk
<1>6. Head(c) \in Group /\ Head(c) \in Range(c)
    <2>1. 1 \in DOMAIN c  BY <1>2
    <2> QED  BY <1>1, <1>2, <2>1 DEF Range
<1>7. ASSUME NEW id \in Head(c), NEW g \in Range(t), id \in g PROVE FALSE
    <2>1. PICK i \in DOMAIN t : g = t[i]  BY <1>7 DEF Range
    <2>2. g \in Group /\ t[i] = c[i + 1] /\ i + 1 \in DOMAIN c /\ i + 1 # 1
        BY <1>2, <1>3, <2>1
    <2>3. ShardOfGroup(c[i + 1]) = ShardOfGroup(c[1])
        BY <1>2, <1>6, <1>7, <2>1, <2>2, GroupFacts
    <2>4. 1 \in DOMAIN c  BY <1>2
    <2> QED  BY <1>1, <2>2, <2>3, <2>4
<1> QED  BY <1>5, <1>6, <1>7 DEF t, Left

----------------------------------------------------------------------------
\* A job that goes from one stage to the next.

LEMMA SameCount ==
    ASSUME NEW k, NEW j, NEW S, CountOk(k, j, S),
           NEW a, a.op = j.op, a.chunks = j.chunks, a.count = j.count
    PROVE  CountOk(k, a, S)
BY DEF CountOk

LEMMA SamePart ==
    ASSUME NEW k, NEW j, NEW S, PartOk(k, j, S),
           NEW a, a.op = j.op, a.chunks = j.chunks, a.groups = j.groups,
           a.part = j.part, a.wrote = j.wrote
    PROVE  PartOk(k, a, S)
BY DEF PartOk

LEMMA SameRequest ==
    ASSUME NEW k, NEW j, OnRequest(k, j), NEW a, a.at = j.at, a.chunks = j.chunks
    PROVE  OnRequest(k, a)
BY DEF OnRequest

LEMMA Errors ==
    /\ ~Ok(0) /\ \A status \in {400, 401, 403, 404, 409, 500, 502, 503, 504, 507} : ~Ok(status)
    /\ Ok(200)
BY DEF Ok

LEMMA WorkEnds ==
    ASSUME NEW k, NEW j, NEW S, CountOk(k, j, S), ~Ok(j.fail),
           NEW status, status # 0,
           Ok(status) => j.op \in Reads \/ j.chunks = <<>>,
           NEW a, a.pc = "done", a.status = status, a.op = j.op, a.chunks = j.chunks,
           a.count = j.count, a.fail = j.fail
    PROVE  Work(k, a, S)
<1>1. CountOk(k, a, S)  BY SameCount
<1>2. Follows(k, a)  BY DEF Follows
<1> QED  BY <1>1, <1>2 DEF Work, Middle

LEMMA WorkAnswered ==
    ASSUME NEW k, NEW j, Fields(k, j), NEW S, CountOk(k, j, S), ~Ok(j.fail),
           NEW status, status # 0,
           Ok(status) => j.op \in Reads \/ j.chunks = <<>>
    PROVE  Work(k, Answered(j, status), S)
<1> DEFINE a == Answered(j, status)
<1>1. /\ a.pc = "done" /\ a.status = status /\ a.op = j.op /\ a.chunks = j.chunks
      /\ a.count = j.count /\ a.fail = j.fail
    BY DEF Answered, Fields, JobFields
<1> HIDE DEF a
<1>2. Work(k, a, S)  BY <1>1, WorkEnds
<1> QED  BY <1>2 DEF a

LEMMA WorkFailed ==
    ASSUME NEW k, NEW j, NEW S, Ready(k, j, S), NEW status, status # 0, ~Ok(status)
    PROVE  Work(k, Failed(j, status), S)
<1>1. /\ Fields(k, j) /\ HasChunks(j) /\ OnRequest(k, j)
      /\ CountOk(k, j, S) /\ PartOk(k, j, S) /\ ~Ok(j.fail)
    BY DEF Ready
<1> DEFINE a == [j EXCEPT !.pc = "save", !.fail = status]
<1>2. /\ a.pc = "save" /\ a.fail = status /\ a.op = j.op /\ a.chunks = j.chunks
      /\ a.count = j.count /\ a.part = j.part /\ a.groups = j.groups /\ a.wrote = j.wrote
      /\ a.at = j.at
    BY <1>1 DEF Fields, JobFields
<1>3. Failed(j, status) = a \/ Failed(j, status) = Answered(j, status)  BY DEF Failed
<1> HIDE DEF a
<1>4. Work(k, a, S)
    <2>1. CountOk(k, a, S) /\ PartOk(k, a, S) /\ OnRequest(k, a)
        BY <1>1, <1>2, SameCount, SamePart, SameRequest
    <2>2. Follows(k, a)  BY <1>2, <2>1 DEF Follows
    <2> QED  BY <1>2, <2>1, <2>2 DEF Work
<1> QED  BY <1>1, <1>3, <1>4, WorkAnswered

LEMMA NamedOnce ==
    ASSUME NEW r, NamesOnce(r), NEW i \in DOMAIN Req(r).chunks, NEW h \in DOMAIN Req(r).chunks,
           i # h
    PROVE  Left(Req(r).chunks[i]) \cap Left(Req(r).chunks[h]) = {}
BY DEF NamesOnce, Left

\* The chunk at hand, and the chunks after it.
LEMMA ChunkSplit ==
    ASSUME NEW k, Handled(k), NEW j, HasChunks(j), OnRequest(k, j)
    PROVE  /\ LeftIn(j.chunks) = Left(Head(j.chunks)) \cup LeftIn(Tail(j.chunks))
           /\ Left(Head(j.chunks)) \subseteq Meant(k)
           /\ NamesOnce(k[1]) => Left(Head(j.chunks)) \cap LeftIn(Tail(j.chunks)) = {}
           /\ Tail(j.chunks) # <<>> =>
                 /\ ~IsForwarded(k) /\ Tail(j.chunks) \in Seq(Chunk)
                 /\ IsTailOf(Tail(j.chunks), Req(k[1]).chunks)
<1> DEFINE s == j.chunks
           t == Tail(j.chunks)
           q == Req(k[1]).chunks
<1>1. /\ s \in Seq(Chunk) /\ s # <<>> /\ q \in Seq(Chunk)
    BY RequestFacts DEF HasChunks, Handled
<1>2. /\ t \in Seq(Chunk) /\ Len(t) = Len(s) - 1 /\ Len(s) \in Nat /\ Len(s) >= 1
      /\ Head(s) = s[1] /\ DOMAIN s = 1..Len(s) /\ DOMAIN t = 1..Len(t)
      /\ \A i \in 1..Len(t) : t[i] = s[i + 1]
      /\ Len(q) \in Nat /\ DOMAIN q = 1..Len(q)
    BY <1>1
<1>3. LeftIn(s) = Left(Head(s)) \cup LeftIn(t)
    <2>1. Range(s) = {Head(s)} \cup Range(t)  BY <1>1, HeadAndTail
    <2> QED  BY <2>1 DEF LeftIn
<1> HIDE DEF s, t, q
<1>4. CASE IsForwarded(k)
    <2>1. PICK g \in Group : s = << <<g>> >> /\ g \subseteq Meant(k)
        BY <1>4 DEF OnRequest, s
    <2>2. Tail(s) = <<>> /\ Head(s) = <<g>>  BY <2>1
    <2>3. t = <<>>  BY <2>2 DEF s, t
    <2>4. Left(Head(s)) = g /\ LeftIn(t) = {}  BY <2>2, <2>3, OneLeft, NothingLeft
    <2> QED  BY <1>3, <2>1, <2>3, <2>4 DEF s, t
<1>5. CASE ~IsForwarded(k)
    <2>1. IsTailOf(s, q)  BY <1>5 DEF OnRequest, s, q
    <2> DEFINE d == Len(q) - Len(s)
    <2>2. d \in Nat /\ \A i \in 1..Len(s) : s[i] = q[d + i] /\ d + i \in 1..Len(q)
        BY <1>2, <2>1 DEF IsTailOf
    <2> HIDE DEF d
    <2>3. Left(Head(s)) \subseteq Meant(k)
        <3>1. Head(s) = q[d + 1] /\ d + 1 \in DOMAIN q  BY <1>2, <2>2
        <3>2. Head(s) \in Range(q)  BY <3>1 DEF Range
        <3>3. Left(Head(s)) \subseteq LeftIn(q)  BY <3>2 DEF LeftIn
        <3> QED  BY <1>5, <3>3 DEF Meant, q
    <2>4. ASSUME NamesOnce(k[1]), NEW id \in Left(Head(s)), id \in LeftIn(t)
          PROVE  FALSE
        <3>1. PICK i \in 1..Len(t) : id \in Left(t[i])  BY <1>2, <2>4 DEF LeftIn, Range
        <3>2. i + 1 \in 1..Len(s) /\ t[i] = s[i + 1] /\ 1 \in 1..Len(s) /\ i \in Nat /\ i # 0
            BY <1>2
        <3>4. /\ t[i] = q[d + (i + 1)] /\ d + (i + 1) \in DOMAIN q /\ d + (i + 1) # d + 1
              /\ Head(s) = q[d + 1] /\ d + 1 \in DOMAIN q
            BY <1>2, <2>2, <3>2
        <3>3. Left(q[d + 1]) \cap Left(q[d + (i + 1)]) = {}
            BY <2>4, <3>4, NamedOnce DEF q
        <3>5. id \in Left(q[d + 1]) /\ id \in Left(q[d + (i + 1)])
            BY <2>4, <3>1, <3>4
        <3> QED  BY <3>3, <3>5
    <2>5. IsTailOf(t, q)
        <3>1. Len(t) <= Len(q) /\ Len(q) - Len(t) = d + 1  BY <1>2, <2>1 DEF IsTailOf, d
        <3>2. \A i \in 1..Len(t) : i + 1 \in 1..Len(s) /\ d + 1 + i = d + (i + 1)
            BY <1>2, <2>2
        <3>3. \A i \in 1..Len(t) : t[i] = q[d + 1 + i]  BY <1>2, <2>2, <3>2
        <3> QED  BY <3>1, <3>3 DEF IsTailOf
    <2> QED  BY <1>2, <1>3, <1>5, <2>3, <2>4, <2>5 DEF s, t, q
<1> QED  BY <1>4, <1>5

\* A chunk is completed when all of its groups are saved.
LEMMA CompletedCounts ==
    ASSUME NEW k, NEW j, NEW S, Ready(k, j, S), j.groups = <<>>, j.wrote \subseteq S,
           NEW a, a.op = j.op, a.chunks = Tail(j.chunks), a.count = j.count + j.part
    PROVE  CountOk(k, a, S)
<1> DEFINE hd == Left(Head(j.chunks))
           old == Meant(k) \ LeftIn(j.chunks)
           new == Meant(k) \ LeftIn(Tail(j.chunks))
           r == k[1]
<1>1. /\ Handled(k) /\ Fields(k, j) /\ HasChunks(j) /\ OnRequest(k, j)
      /\ CountOk(k, j, S) /\ PartOk(k, j, S)
    BY DEF Ready
<1>2. Meant(k) \subseteq Ids  BY <1>1, MeantFacts
<1>3. /\ LeftIn(j.chunks) = hd \cup LeftIn(Tail(j.chunks)) /\ hd \subseteq Meant(k)
      /\ NamesOnce(r) => hd \cap LeftIn(Tail(j.chunks)) = {}
    BY <1>1, ChunkSplit
<1>4. /\ NamesOnce(r) => j.count <= Cardinality(Marked(r, old, S))
      /\ j.op = "create" => \A id \in old : <<r, id>> \in S
    BY <1>1 DEF CountOk
<1>5. j.wrote \cup S = S /\ Left(Head(j.chunks)) \ Left(j.groups) = hd  BY NothingLeft
<1>6. /\ NamesOnce(r) => j.part <= Cardinality(Marked(r, hd, S))
      /\ j.op = "create" => \A id \in hd : <<r, id>> \in S
    BY <1>1, <1>5 DEF PartOk
<1>7. j.count \in Nat /\ j.part \in Nat  BY <1>1 DEF Fields
<1>8. /\ old \cap hd = {} /\ new \subseteq Ids /\ new \subseteq old \cup hd
      /\ NamesOnce(r) => old \cup hd \subseteq new
    BY <1>2, <1>3
<1> HIDE DEF old, hd, new, r
<1>9. ASSUME NamesOnce(r) PROVE j.count + j.part <= Cardinality(Marked(r, new, S))
    BY <1>4, <1>6, <1>7, <1>8, <1>9, MarkedAdds
<1>10. j.op = "create" => \A id \in new : <<r, id>> \in S  BY <1>4, <1>6, <1>8
<1> QED  BY <1>9, <1>10 DEF CountOk, new, r

LEMMA WorkCompleted ==
    ASSUME NEW k, NEW j, NEW S, Ready(k, j, S), j.groups = <<>>, j.wrote \subseteq S
    PROVE  Work(k, Completed(j), S)
<1> DEFINE next == [j EXCEPT !.count = @ + j.part, !.part = 0, !.olds = {}, !.rows = <<>>,
                             !.wrote = {}, !.chunks = Tail(@)]
           a == [next EXCEPT !.pc = "body"]
<1>1. /\ Handled(k) /\ Fields(k, j) /\ HasChunks(j) /\ OnRequest(k, j) /\ ~Ok(j.fail)
    BY DEF Ready
<1>2. /\ DOMAIN next = JobFields /\ next.op = j.op /\ next.chunks = Tail(j.chunks)
      /\ next.count = j.count + j.part /\ next.part = 0 /\ next.fail = j.fail
      /\ next.at = j.at
    BY <1>1 DEF Fields, JobFields
<1>3. Completed(j) = IF next.chunks = <<>> THEN Answered(next, 200) ELSE a
    BY DEF Completed
<1> HIDE DEF next
<1>4. CountOk(k, next, S)  BY <1>2, CompletedCounts
<1>5. ASSUME next.chunks = <<>> PROVE Work(k, Answered(next, 200), S)
    <2> DEFINE b == Answered(next, 200)
    <2>1. /\ b.pc = "done" /\ b.status = 200 /\ b.op = next.op /\ b.chunks = next.chunks
          /\ b.count = next.count /\ b.fail = next.fail
        BY <1>2 DEF Answered, JobFields
    <2> HIDE DEF b
    <2>2. CountOk(k, b, S)  BY <1>4, <2>1, SameCount
    <2>3. Follows(k, b)  BY <1>1, <1>2, <1>5, <2>1 DEF Follows
    <2> QED  BY <2>1, <2>2, <2>3 DEF Work, Middle, b
<1>6. ASSUME next.chunks # <<>> PROVE Work(k, a, S)
    <2>1. /\ a.pc = "body" /\ a.op = next.op /\ a.chunks = next.chunks /\ a.at = next.at
          /\ a.count = next.count /\ a.fail = next.fail /\ a.part = 0
        BY <1>2 DEF JobFields
    <2> HIDE DEF a
    <2>2. CountOk(k, a, S)  BY <1>4, <2>1, SameCount
    <2>3. OnRequest(k, a)  BY <1>1, <1>2, <1>6, <2>1, ChunkSplit DEF OnRequest
    <2>4. Follows(k, a)  BY <1>1, <1>2, <2>1, <2>3 DEF Follows
    <2> QED  BY <2>1, <2>2, <2>4 DEF Work, Middle
<1> QED  BY <1>3, <1>5, <1>6

LEMMA WorkAfterGroups ==
    ASSUME NEW k, NEW j, NEW S, Ready(k, j, S), j.groups = <<>>
    PROVE  Work(k, AfterGroups(j), S)
<1> DEFINE a == [j EXCEPT !.pc = "save"]
<1>1. /\ Fields(k, j) /\ OnRequest(k, j) /\ CountOk(k, j, S) /\ PartOk(k, j, S) /\ ~Ok(j.fail)
    BY DEF Ready
<1>2. /\ a.pc = "save" /\ a.fail = j.fail /\ a.op = j.op /\ a.chunks = j.chunks
      /\ a.count = j.count /\ a.part = j.part /\ a.groups = j.groups /\ a.wrote = j.wrote
      /\ a.at = j.at
    BY <1>1 DEF Fields, JobFields
<1>3. AfterGroups(j) = IF j.wrote # {} THEN a ELSE Completed(j)  BY DEF AfterGroups
<1> HIDE DEF a
<1>4. Work(k, a, S)
    <2>1. CountOk(k, a, S) /\ PartOk(k, a, S) /\ OnRequest(k, a)
        BY <1>1, <1>2, SameCount, SamePart, SameRequest
    <2>2. Follows(k, a)  BY <1>1, <1>2, <2>1 DEF Follows
    <2> QED  BY <1>2, <2>1, <2>2 DEF Work
<1> QED  BY <1>3, <1>4, WorkCompleted

\* A group that is elsewhere is sent to its owners.
Outward(j) ==
    /\ InChunk(j) /\ j.groups # <<>>
    /\ j.op = "patch" => DOMAIN j.rows \subseteq LocalIds(j)

LEMMA WorkToOwners ==
    ASSUME NEW k, ~IsForwarded(k), NEW j, NEW S, Ready(k, j, S), Outward(j)
    PROVE  Work(k, ToOwners(j), S)
<1> DEFINE a == ToOwners(j)
<1>1. /\ Fields(k, j) /\ OnRequest(k, j) /\ CountOk(k, j, S) /\ PartOk(k, j, S) /\ ~Ok(j.fail)
    BY DEF Ready
<1>2. /\ a.pc = "send" /\ a.fail = j.fail /\ a.op = j.op /\ a.chunks = j.chunks
      /\ a.count = j.count /\ a.part = j.part /\ a.groups = j.groups /\ a.wrote = j.wrote
      /\ a.at = j.at /\ a.rows = j.rows /\ a.peers = Owners[ShardOfGroup(Head(j.groups))]
    BY <1>1 DEF ToOwners, Fields, JobFields
<1> HIDE DEF a
<1>3. CountOk(k, a, S) /\ PartOk(k, a, S) /\ OnRequest(k, a)
    BY <1>1, <1>2, SameCount, SamePart, SameRequest
<1>4. InChunk(a) /\ LocalIds(a) = LocalIds(j)  BY <1>2 DEF InChunk, LocalIds, Outward
<1>5. Follows(k, a)  BY <1>1, <1>2, <1>3, <1>4 DEF Follows, Outward
<1> QED  BY <1>2, <1>3, <1>5 DEF Work, a

SameTask(a, j) ==
    /\ DOMAIN a = JobFields /\ a.op = j.op /\ a.at = j.at
    /\ a.chunks = j.chunks /\ a.groups = j.groups /\ a.count = j.count /\ a.part = j.part
    /\ a.wrote = j.wrote /\ a.fail = j.fail

LEMMA SameReady ==
    ASSUME NEW k, NEW j, NEW S, Ready(k, j, S), NEW a, SameTask(a, j), a.rows = j.rows
    PROVE  Ready(k, a, S)
BY SameCount, SamePart, SameRequest DEF Ready, HasChunks, Fields, SameTask

LEMMA ReadyJob ==
    ASSUME NEW k, Handled(k), NEW j, Fields(k, j), HasChunks(j), NEW S, Work(k, j, S),
           j.pc \in Middle
    PROVE  Ready(k, j, S)
BY DEF Ready, Work, Follows, Middle

LEMMA WorkNextOwner ==
    ASSUME NEW k, ~IsForwarded(k), NEW j, NEW S, Ready(k, j, S), Outward(j),
           j.peers \in Seq(Nodes), j.peers # <<>>,
           Range(j.peers) \subseteq Range(Owners[ShardOfGroup(Head(j.groups))]),
           NEW status, status # 0, ~Ok(status)
    PROVE  Work(k, NextOwner(j, status), S)
<1> DEFINE a == [j EXCEPT !.pc = "send", !.peers = Tail(@), !.child = <<>>]
           b == [j EXCEPT !.child = <<>>]
<1>1. Fields(k, j)  BY DEF Ready
<1>2. /\ a.pc = "send" /\ a.peers = Tail(j.peers) /\ a.rows = j.rows /\ SameTask(a, j)
      /\ SameTask(b, j) /\ b.rows = j.rows
    BY <1>1 DEF Fields, JobFields, SameTask
<1>3. NextOwner(j, status) = a \/ NextOwner(j, status) = Failed(b, status)  BY DEF NextOwner
<1> HIDE DEF a, b
<1>4. Ready(k, a, S) /\ Ready(k, b, S)
    BY <1>1, <1>2, SameReady
<1>5. Work(k, Failed(b, status), S)  BY <1>4, WorkFailed
<1>6. Work(k, a, S)
    <2>1. InChunk(a) /\ LocalIds(a) = LocalIds(j)
        BY <1>2 DEF InChunk, LocalIds, Outward, SameTask
    <2>2. Range(Tail(j.peers)) \subseteq Range(j.peers)  BY TailFacts
    <2>3. Follows(k, a)
        BY <1>2, <1>4, <2>1, <2>2 DEF Follows, Outward, Ready, SameTask
    <2> QED  BY <1>2, <1>4, <2>3 DEF Work, Ready
<1> QED  BY <1>3, <1>5, <1>6

LEMMA WorkAfterSave ==
    ASSUME NEW k, Handled(k), NEW j, Fields(k, j), HasChunks(j), NEW S, Work(k, j, S),
           j.pc = "save", j.wrote \subseteq S
    PROVE  Work(k, AfterSave(k, j), S)
<1> DEFINE olds == IF j.form = "single" \/ (j.form = "file" /\ j.op = "replace")
                   THEN j.olds \cup Superseded(j) ELSE j.olds
           a == [j EXCEPT !.pc = "unlink", !.olds = olds]
<1>1. Ready(k, j, S)  BY ReadyJob DEF Middle
<1>2. OnRequest(k, j) /\ CountOk(k, j, S) /\ PartOk(k, j, S) /\ ~Ok(j.fail)
    BY <1>1 DEF Ready
<1>3. j.fail = 0 => j.groups = <<>>  BY DEF Work, Follows
<1>4. j.op \notin ScopeOps  BY OpsApart DEF Handled, Fields
<1>5. AfterSave(k, j) = IF j.fail # 0 THEN Answered(j, j.fail)
                        ELSE IF olds # {} THEN a ELSE Completed(j)
    BY <1>4 DEF AfterSave
<1> HIDE DEF olds
<1>6. /\ a.pc = "unlink" /\ a.op = j.op /\ a.at = j.at /\ a.chunks = j.chunks
      /\ a.groups = j.groups /\ a.count = j.count /\ a.part = j.part /\ a.wrote = j.wrote
      /\ a.fail = j.fail
    BY DEF Fields, JobFields
<1> HIDE DEF a
<1>7. ASSUME j.fail = 0 PROVE Work(k, a, S)
    <2>1. CountOk(k, a, S) /\ PartOk(k, a, S) /\ OnRequest(k, a)
        BY <1>2, <1>6, SameCount, SamePart, SameRequest
    <2>2. Follows(k, a)  BY <1>2, <1>3, <1>6, <1>7, <2>1 DEF Follows
    <2> QED  BY <1>6, <2>1, <2>2 DEF Work
<1>8. ASSUME j.fail = 0 PROVE Work(k, Completed(j), S)  BY <1>1, <1>3, <1>8, WorkCompleted
<1>9. ASSUME j.fail # 0 PROVE Work(k, Answered(j, j.fail), S)
    BY <1>2, <1>9, WorkAnswered
<1> QED  BY <1>5, <1>7, <1>8, <1>9

LEMMA WorkFound ==
    ASSUME NEW k, NEW j, Fields(k, j), NEW S, OnRequest(k, j), CountOk(k, j, S),
           ~Ok(j.fail), j.op \in Reads
    PROVE  Work(k, Found(k, j), S)
<1> DEFINE a == [j EXCEPT !.pc = "read"]
<1>1. /\ a.pc = "read" /\ a.op = j.op /\ a.at = j.at /\ a.chunks = j.chunks
      /\ a.count = j.count /\ a.fail = j.fail
    BY DEF Fields, JobFields
<1>2. Found(k, j) \in {Answered(j, 200), Answered(j, 404), a}  BY DEF Found
<1> HIDE DEF a
<1>3. Work(k, a, S)
    <2>1. CountOk(k, a, S) /\ OnRequest(k, a)  BY <1>1, SameCount, SameRequest
    <2>2. Follows(k, a)  BY <1>1, <2>1 DEF Follows
    <2> QED  BY <1>1, <2>1, <2>2 DEF Work, Middle
<1>4. Work(k, Answered(j, 200), S) /\ Work(k, Answered(j, 404), S)
    BY Errors, WorkAnswered
<1> QED  BY <1>2, <1>3, <1>4

\* A local group: what is written of it is marked.
LEMMA WorkLocalWrite ==
    ASSUME NEW k, NEW j, NEW S, Ready(k, j, S), j.at \in Nodes,
           Outward(j), Owns(j.at, Head(j.groups)), NEW s
    PROVE  LET w == AfterLocalWrite(k[1], j, s)
           IN  /\ Ready(k, w, S) /\ InChunk(w) /\ w.groups = Tail(j.groups)
               /\ w.groups # <<>> => Outward(w)
<1> DEFINE w == AfterLocalWrite(k[1], j, s)
           t == Targets(j, s)
           marks == {<<k[1], id>> : id \in t}
           g == Head(j.groups)
           r == k[1]
           c == Head(j.chunks)
<1>1. /\ Handled(k) /\ Fields(k, j) /\ HasChunks(j) /\ OnRequest(k, j)
      /\ CountOk(k, j, S) /\ PartOk(k, j, S) /\ ~Ok(j.fail)
    BY DEF Ready
<1>2. /\ w.op = j.op /\ w.at = j.at /\ w.chunks = j.chunks /\ w.groups = Tail(j.groups)
      /\ w.count = j.count /\ w.part = j.part + Cardinality(t)
      /\ w.wrote = j.wrote \cup marks /\ w.fail = j.fail /\ w.rows = j.rows
      /\ DOMAIN w = JobFields
    BY <1>1 DEF AfterLocalWrite, Fields, JobFields
<1>3. c \in Chunk /\ Range(c) \subseteq Group /\ Left(c) \subseteq Ids
    BY <1>1, ChunkFacts DEF HasChunks
<1>4. /\ j.groups \in Chunk /\ Range(j.groups) \subseteq Range(c) /\ j.groups # <<>>
      /\ j.op = "patch" => DOMAIN j.rows \subseteq LocalIds(j)
    BY DEF Outward, InChunk
<1>5. /\ Tail(j.groups) # <<>> => Tail(j.groups) \in Chunk
      /\ g \in Range(c) /\ g \cap Left(Tail(j.groups)) = {}
      /\ Left(j.groups) = g \cup Left(Tail(j.groups))
    BY <1>4, RestOfChunk, ChunkFacts, LeftSplits
<1>6. LocalIds(j) = g
    <2>1. LocalIds(j) = {id \in Left(c) : Local(j.at, id)}  BY DEF LocalIds, Left
    <2> QED  BY <1>3, <1>5, <2>1, OwnedGroup
<1>7. /\ t \subseteq g /\ Cardinality(t) \in Nat
      /\ j.op = "create" => t = g
    <2>1. /\ j.op = "patch" => t = DOMAIN j.rows
          /\ j.op = "remove" => t \subseteq LocalIds(j)
          /\ j.op \notin {"patch", "remove"} => t = LocalIds(j)
        BY DEF Targets
    <2> HIDE DEF t
    <2>2. t \subseteq g /\ (j.op = "create" => t = g)  BY <1>4, <1>6, <2>1
    <2>3. g \subseteq Ids  BY <1>3, <1>5, GroupFacts
    <2>4. IsFiniteSet(t)  BY <2>2, <2>3, RequestsAssumption, FS_Subset
    <2> QED  BY <2>2, <2>4, FS_CardinalityType
<1>8. InChunk(w)
    <2>1. Range(Tail(j.groups)) \subseteq Range(j.groups)
        BY <1>4, ChunkFacts, TailFacts
    <2> QED  BY <1>2, <1>4, <1>5, <2>1 DEF InChunk
<1>9. w.groups # <<>> => Outward(w)
    <2>1. LocalIds(w) = LocalIds(j)  BY <1>2 DEF LocalIds
    <2> QED  BY <1>2, <1>4, <1>8, <2>1 DEF Outward
<1> DEFINE old == Left(c) \ Left(j.groups)
           new == Left(c) \ Left(Tail(j.groups))
           W == w.wrote \cup S
<1>10. /\ NamesOnce(r) => j.part <= Cardinality(Marked(r, old, j.wrote \cup S))
       /\ j.op = "create" => \A id \in old : <<r, id>> \in j.wrote \cup S
    BY <1>1 DEF PartOk
<1>11. /\ j.wrote \cup S \subseteq W /\ \A id \in t : <<r, id>> \in W
       /\ old \cap t = {} /\ old \cup t \subseteq new /\ new \subseteq Ids
       /\ new \subseteq old \cup g
    <2>1. g \subseteq Left(c)  BY <1>5 DEF Left
    <2> QED  BY <1>2, <1>3, <1>5, <1>7, <2>1
<1>12. j.part \in Nat  BY <1>1 DEF Fields
<1> HIDE DEF old, new, W, t, g, r, c, w, marks
<1>13. ASSUME NamesOnce(r) PROVE j.part + Cardinality(t) <= Cardinality(Marked(r, new, W))
    <2>1. old \subseteq Ids  BY <1>11
    <2>2. /\ Cardinality(Marked(r, old, j.wrote \cup S)) <= Cardinality(Marked(r, old, W))
          /\ Cardinality(Marked(r, old, j.wrote \cup S)) \in Nat
          /\ Cardinality(Marked(r, old, W)) \in Nat
        BY <1>11, <2>1, MarkedGrows
    <2>3. j.part <= Cardinality(Marked(r, old, W))  BY <1>10, <1>12, <1>13, <2>2
    <2>4. Marked(r, t, W) = t  BY <1>11 DEF Marked
    <2>5. Cardinality(t) <= Cardinality(Marked(r, t, W))  BY <1>7, <2>4
    <2> QED  BY <1>7, <1>11, <1>12, <2>3, <2>5, MarkedAdds
<1>14. ASSUME j.op = "create" PROVE \A id \in new : <<r, id>> \in W
    BY <1>7, <1>10, <1>11, <1>14
<1>15. PartOk(k, w, S)  BY <1>2, <1>13, <1>14 DEF PartOk, new, W, r, c
<1>16. CountOk(k, w, S) /\ OnRequest(k, w)  BY <1>1, <1>2, SameCount, SameRequest
<1>17. Fields(k, w) /\ HasChunks(w)  BY <1>1, <1>2, <1>7 DEF Fields, HasChunks
<1> QED  BY <1>1, <1>2, <1>8, <1>9, <1>15, <1>16, <1>17 DEF Ready, w

----------------------------------------------------------------------------
\* The steps of a job.

LEMMA WorkFacts ==
    ASSUME Inv, TypeInv, WorkInv, NEW k \in DOMAIN jobs, jobs[k].op \in ObjectOps
    PROVE  LET j == jobs[k]
           IN  /\ Handled(k) /\ Meant(k) \subseteq Ids /\ Fields(k, j) /\ Work(k, j, Kept)
               /\ Follows(k, j) /\ CountOk(k, j, Kept) /\ ~Ok(j.fail) /\ j.op \notin ScopeOps
               /\ j.pc # "done" => HasChunks(j) /\ OnRequest(k, j)
               /\ j.pc \in {"new", "body", "put"} => j.part = 0
               /\ j.pc \in Middle => Ready(k, j, Kept)
               /\ j.pc \in Rested => j.wrote \subseteq Kept
<1> DEFINE j == jobs[k]
<1>1. k[1] \in Requests /\ scenario \in Scenarios /\ j.at \in Nodes /\ DataOk(k, j)
    BY TypedFacts
<1>2. Fields(k, j) /\ j.wrote \subseteq j.did  BY <1>1 DEF DataOk, Fields
<1>3. Req(k[1]).op = j.op /\ Placed(j, Saved(j.at))  BY JobFacts
<1>4. Handled(k) /\ j.op \notin ScopeOps  BY <1>1, <1>3, OpsApart DEF Handled
<1>5. Meant(k) \subseteq Ids  BY <1>4, MeantFacts
<1>6. Work(k, j, Kept)  BY <1>3 DEF WorkInv
<1>7. Follows(k, j) /\ CountOk(k, j, Kept) /\ ~Ok(j.fail)  BY <1>6 DEF Work, Follows
<1>8. /\ j.pc # "done" => HasChunks(j) /\ OnRequest(k, j)
      /\ j.pc \in {"new", "body", "put"} => j.part = 0
    BY <1>3, <1>6, <1>7 DEF Placed, Work, Follows
<1>9. j.pc \in Rested => j.wrote \subseteq Kept
    <2>1. j.pc \in Rested => j.did \subseteq Saved(j.at)  BY <1>3 DEF Placed
    <2> QED  BY <1>1, <1>2, <2>1 DEF Kept
<1> HIDE DEF j
<1>10. j.pc \in Middle => Ready(k, j, Kept)
    BY <1>2, <1>4, <1>6, <1>8, ReadyJob DEF Middle
<1> QED  BY <1>2, <1>4, <1>5, <1>6, <1>7, <1>8, <1>9, <1>10 DEF j

\* A job that sends, or waits for, the group at hand.
LEMMA SenderFacts ==
    ASSUME Inv, TypeInv, WorkInv, NEW k \in DOMAIN jobs, jobs[k].pc \in {"send", "wait"}
    PROVE  LET j == jobs[k]
           IN  /\ j.op \in ObjectOps /\ ~IsForwarded(k) /\ Ready(k, j, Kept) /\ Outward(j)
               /\ j.peers \in Seq(Nodes) /\ j.peers # <<>>
               /\ Range(j.peers) \subseteq Range(Owners[ShardOfGroup(Head(j.groups))])
               /\ j.pc = "wait" => Called(k, j)
<1> DEFINE j == jobs[k]
<1>1. /\ j.op \in ObjectOps /\ HasGroups(j) /\ j.peers \in Seq(Nodes) /\ j.peers # <<>>
    BY JobFacts DEF Placed
<1>2. Follows(k, j) /\ Ready(k, j, Kept)  BY <1>1, WorkFacts DEF Middle
<1> QED  BY <1>1, <1>2 DEF Follows, Outward, HasGroups

\* What is to be shown of a step: where it leaves the jobs of its request.
WorkStep(k) == \A q \in DOMAIN jobs' : q[1] = k[1] => Work(q, jobs'[q], Kept')

LEMMA KeptGrows ==
    ASSUME SavedStays
    PROVE  Kept \subseteq Kept'
BY DEF SavedStays, Kept

LEMMA SameKept ==
    ASSUME \A n \in Nodes : Saved(n)' = Saved(n)
    PROVE  Kept' = Kept
BY DEF Kept

LEMMA WorkStays ==
    ASSUME Inv, TypeInv, WorkInv, Kept \subseteq Kept',
           NEW k \in DOMAIN jobs, jobs[k].op \in ObjectOps
    PROVE  Work(k, jobs[k], Kept')
BY WorkFacts, WorkGrows

LEMMA WorkMoves ==
    ASSUME Inv, TypeInv, WorkInv, Kept \subseteq Kept',
           NEW k \in DOMAIN jobs, jobs[k].op \in ObjectOps,
           NEW a, Becomes(k, a), Work(k, a, Kept')
    PROVE  WorkStep(k)
<1> SUFFICES ASSUME NEW q \in DOMAIN jobs', q[1] = k[1] PROVE Work(q, jobs'[q], Kept')
    BY DEF WorkStep
<1>1. CASE q = k  BY <1>1, BecomesFacts
<1>2. CASE q # k
    <2>1. q \in DOMAIN jobs /\ jobs'[q] = jobs[q]  BY <1>2, BecomesFacts
    <2>2. jobs[q].op \in ObjectOps  BY <2>1, JobFacts
    <2> QED  BY <2>1, <2>2, WorkStays
<1> QED  BY <1>1, <1>2

LEMMA WorkQuiet ==
    ASSUME Inv, TypeInv, WorkInv, UNCHANGED log,
           NEW k \in DOMAIN jobs, jobs[k].op \in ObjectOps,
           NEW a, Becomes(k, a), Work(k, a, Kept)
    PROVE  WorkStep(k)
<1>1. Kept' = Kept  BY SameLog, SameKept DEF Inv
<1> QED  BY <1>1, WorkMoves

\* A call works on one group, which its node owns.
LEMMA CallIsLocal ==
    ASSUME NEW k, IsForwarded(k), NEW j, OnRequest(k, j), InChunk(j), j.groups # <<>>
    PROVE  Owns(j.at, Head(j.groups)) /\ Tail(j.groups) = <<>>
<1>1. PICK g \in Group : j.chunks = << <<g>> >> /\ Owns(j.at, g)  BY DEF OnRequest
<1>2. j.groups \in Chunk /\ Range(j.groups) \subseteq Range(Head(j.chunks))  BY DEF InChunk
<1>3. Head(j.chunks) = <<g>>  BY <1>1
<1>4. Range(j.groups) \subseteq {g}  BY <1>2, <1>3, OneLeft
<1>5. j.groups \in Seq(Group) /\ Head(j.groups) = g
    BY <1>2, <1>4, RestOfChunk, ChunkFacts
<1>6. ASSUME Tail(j.groups) # <<>> PROVE FALSE
    <2> DEFINE t == Tail(j.groups)
    <2>1. Head(t) \in Range(t) /\ Range(t) \subseteq Range(j.groups)
        BY <1>5, <1>6, TailFacts
    <2> HIDE DEF t
    <2>2. g \in Range(t)  BY <1>4, <2>1
    <2>3. g \subseteq Left(t)  BY <2>2 DEF Left
    <2>4. g \cap Left(t) = {}  BY <1>2, <1>5, RestOfChunk DEF t
    <2>5. g # {}  BY <1>1 DEF Group
    <2> QED  BY <2>3, <2>4, <2>5
<1> QED  BY <1>1, <1>5, <1>6

LEMMA WorkRunGroups ==
    ASSUME Inv, TypeInv, WorkInv, NEW k \in DOMAIN jobs, jobs[k].op \in ObjectOps,
           NEW j, Ready(k, j, Kept), j.groups # <<>> => Outward(j), RunGroups(k, j)
    PROVE  WorkStep(k)
<1> DEFINE r == k[1]
           n == j.at
           s == Mem(n)
           isLocal == j.groups # <<>> /\ Owns(n, Head(j.groups))
           error == IF isLocal THEN LocalError(j, s) ELSE 0
           w == AfterLocalWrite(r, j, s)
           next == IF w.groups = <<>> THEN AfterGroups(w) ELSE ToOwners(w)
           onward == IF j.groups = <<>> THEN AfterGroups(j) ELSE ToOwners(j)
<1>1. \/ error # 0 /\ Becomes(k, Failed(j, error)) /\ UNCHANGED log
      \/ isLocal /\ Becomes(k, next) /\ Writes(n, LocalWrite(r, j, s))
      \/ ~isLocal /\ Becomes(k, onward) /\ UNCHANGED log
    BY DEF RunGroups, Owns
<1>2. n \in Nodes /\ OnRequest(k, j)  BY DEF Ready, Fields
<1>3. error # 0 => error = 409  BY DEF LocalError
<1>4. CASE error # 0 /\ Becomes(k, Failed(j, error)) /\ UNCHANGED log
    <2> HIDE DEF error
    <2>1. Work(k, Failed(j, error), Kept)  BY <1>3, <1>4, Errors, WorkFailed
    <2> QED  BY <1>4, <2>1, WorkQuiet
<1>5. CASE isLocal /\ Becomes(k, next) /\ Writes(n, LocalWrite(r, j, s))
    <2>1. Outward(j) /\ InChunk(j)  BY <1>5 DEF Outward
    <2>2. /\ Ready(k, w, Kept) /\ w.groups = Tail(j.groups)
          /\ w.groups # <<>> => Outward(w)
        BY <1>2, <1>5, <2>1, WorkLocalWrite
    <2>3. IsForwarded(k) => Tail(j.groups) = <<>>  BY <1>2, <1>5, <2>1, CallIsLocal
    <2> HIDE DEF w
    <2>4. Work(k, next, Kept)
        <3>1. CASE w.groups = <<>>  BY <2>2, <3>1, WorkAfterGroups
        <3>2. CASE w.groups # <<>>  BY <2>2, <2>3, <3>2, WorkToOwners
        <3> QED  BY <3>1, <3>2
    <2> HIDE DEF next, s, n, isLocal
    <2>5. Kept' = Kept
        <3> DEFINE x == LocalWrite(r, j, s)
        <3>1. DOMAIN s = StateFields  BY <1>2, LogTypedFacts DEF s
        <3>2. DOMAIN x = StateFields /\ s.ops \subseteq x.ops  BY <3>1, LocalWriteFields
        <3> HIDE DEF x
        <3>3. Writes(n, x)  BY <1>5 DEF x
        <3>4. \A m \in Nodes : Saved(m)' = Saved(m)
            BY <1>2, <3>2, <3>3, WritesOk DEF s, Inv
        <3> QED  BY <3>4, SameKept
    <2> QED  BY <1>5, <2>4, <2>5, WorkMoves
<1>6. CASE ~isLocal /\ Becomes(k, onward) /\ UNCHANGED log
    <2>1. ASSUME j.groups = <<>> PROVE Work(k, onward, Kept)
        BY <2>1, WorkAfterGroups
    <2>2. ASSUME j.groups # <<>> PROVE Work(k, onward, Kept)
        <3>1. Outward(j) /\ InChunk(j)  BY <2>2 DEF Outward
        <3>2. ~IsForwarded(k)  BY <1>2, <1>6, <2>2, <3>1, CallIsLocal
        <3> QED  BY <2>2, <3>1, <3>2, WorkToOwners
    <2> HIDE DEF onward
    <2> QED  BY <1>6, <2>1, <2>2, WorkQuiet
<1> QED  BY <1>1, <1>4, <1>5, <1>6

\* The groups of a chunk before any of them is done.
LEMMA WorkBegins ==
    ASSUME Inv, TypeInv, WorkInv, NEW k \in DOMAIN jobs, jobs[k].op \in ObjectOps,
           jobs[k].pc \in {"body", "put"},
           NEW j, DOMAIN j = JobFields, DOMAIN j.rows \subseteq Ids,
           j.op = jobs[k].op, j.at = jobs[k].at, j.chunks = jobs[k].chunks,
           j.groups = Head(jobs[k].chunks), j.count = jobs[k].count, j.part = jobs[k].part,
           j.fail = jobs[k].fail
    PROVE  Ready(k, j, Kept) /\ InChunk(j) /\ j.groups # <<>> /\ j.groups = Head(j.chunks)
<1> DEFINE i == jobs[k]
<1>1. /\ Handled(k) /\ Fields(k, i) /\ CountOk(k, i, Kept) /\ ~Ok(i.fail)
      /\ HasChunks(i) /\ OnRequest(k, i) /\ i.part = 0
    BY WorkFacts
<1>2. Fields(k, j) /\ HasChunks(j)  BY <1>1 DEF Fields, HasChunks
<1>3. CountOk(k, j, Kept) /\ OnRequest(k, j)  BY <1>1, SameCount, SameRequest
<1>4. j.groups = Head(j.chunks) /\ j.groups \in Chunk  BY <1>1 DEF HasChunks
<1>5. InChunk(j) /\ j.groups # <<>>  BY <1>4, ChunkFacts DEF InChunk
<1>6. PartOk(k, j, Kept)
    <2>1. Left(Head(j.chunks)) \ Left(j.groups) = {}  BY <1>4
    <2>2. \A r, S : Marked(r, {}, S) = {}  BY DEF Marked
    <2>3. Cardinality({}) = 0 /\ j.part = 0  BY <1>1, FS_EmptySet
    <2> QED  BY <2>1, <2>2, <2>3 DEF PartOk
<1> QED  BY <1>1, <1>2, <1>3, <1>4, <1>5, <1>6 DEF Ready

LEMMA WorkReceives ==
    ASSUME Inv, TypeInv, WorkInv, NEW k \in DOMAIN jobs, jobs[k].op \in ObjectOps, Receive(k)
    PROVE  WorkStep(k)
<1> DEFINE j == jobs[k]
           a == [j EXCEPT !.pc = "body", !.started = TRUE, !.known = {id \in Ids : Acknowledged(id)}]
<1>1. j.pc = "new" /\ UNCHANGED log  BY DEF Receive, At
<1>2. Becomes(k, a) \/ Becomes(k, Answered(j, 401))  BY DEF Receive
<1>3. /\ Fields(k, j) /\ CountOk(k, j, Kept) /\ ~Ok(j.fail) /\ OnRequest(k, j) /\ j.part = 0
    BY <1>1, WorkFacts
<1>4. /\ a.at = j.at /\ a.chunks = j.chunks /\ a.pc = "body" /\ a.op = j.op
      /\ a.count = j.count /\ a.part = j.part /\ a.fail = j.fail
    BY <1>3 DEF Fields, JobFields
<1> HIDE DEF a
<1>5. Work(k, a, Kept)
    <2>1. CountOk(k, a, Kept) /\ OnRequest(k, a)  BY <1>3, <1>4, SameCount, SameRequest
    <2>2. Follows(k, a)  BY <1>3, <1>4, <2>1 DEF Follows
    <2> QED  BY <1>3, <1>4, <2>1, <2>2 DEF Work, Middle
<1>6. Work(k, Answered(j, 401), Kept)  BY <1>3, Errors, WorkAnswered
<1> QED  BY <1>1, <1>2, <1>5, <1>6, WorkQuiet

LEMMA WorkIsAnswered ==
    ASSUME Inv, TypeInv, WorkInv, NEW k \in DOMAIN jobs, jobs[k].op \in ObjectOps,
           ReadBlob(k) \/ Refuse(k) \/ PutBlobFails(k) \/ SaveFails(k)
    PROVE  WorkStep(k)
<1> DEFINE j == jobs[k]
<1>1. UNCHANGED log  BY DEF ReadBlob, Refuse, PutBlobFails, SaveFails
<1>2. Fields(k, j) /\ CountOk(k, j, Kept) /\ ~Ok(j.fail) /\ Follows(k, j)  BY WorkFacts
<1>3. CASE ReadBlob(k)
    <2>1. j.op \in Reads  BY <1>2, <1>3 DEF ReadBlob, At, Follows
    <2>2. Becomes(k, Answered(j, 200)) \/ Becomes(k, Answered(j, 404))  BY <1>3 DEF ReadBlob
    <2>3. Work(k, Answered(j, 200), Kept) /\ Work(k, Answered(j, 404), Kept)
        BY <1>2, <2>1, WorkAnswered
    <2> QED  BY <1>1, <2>2, <2>3, WorkQuiet
<1>4. CASE Refuse(k) \/ PutBlobFails(k)
    <2>1. PICK status \in {400, 403, 503, 507} : Becomes(k, Answered(j, status))
        BY <1>4 DEF Refuse, PutBlobFails
    <2>2. Work(k, Answered(j, status), Kept)  BY <1>2, <2>1, Errors, WorkAnswered
    <2> QED  BY <1>1, <2>1, <2>2, WorkQuiet
<1>5. CASE SaveFails(k)
    <2> DEFINE a == [Answered(j, 500) EXCEPT !.unsaved = TRUE]
    <2>1. Becomes(k, a)  BY <1>5 DEF SaveFails
    <2>2. /\ a.pc = "done" /\ a.status = 500 /\ a.op = j.op /\ a.chunks = j.chunks
          /\ a.count = j.count /\ a.fail = j.fail
        BY <1>2 DEF Answered, Fields, JobFields
    <2> HIDE DEF a
    <2>3. Work(k, a, Kept)  BY <1>2, <2>2, Errors, WorkEnds
    <2> QED  BY <1>1, <2>1, <2>3, WorkQuiet
<1> QED  BY <1>3, <1>4, <1>5

\* A read and an upload are of one object, which is here when its group is.
LEMMA OneObjectHere ==
    ASSUME NEW j, j.chunks \in OneObject, j.groups = Head(j.chunks)
    PROVE  Local(j.at, Object(j.chunks)) <=> Owns(j.at, Head(j.groups))
<1>1. PICK id \in Ids : j.chunks = << <<{id}>> >>  BY DEF OneObject
<1>2. /\ Object(j.chunks) = id /\ j.groups = <<{id}>> /\ ShardOfGroup({id}) = ShardOf[id]
    BY <1>1, OneObjectFacts
<1>3. Head(j.groups) = {id}  BY <1>2
<1> QED  BY <1>2, <1>3 DEF Local, Owns

LEMMA WorkReads ==
    ASSUME Inv, TypeInv, WorkInv, NEW k \in DOMAIN jobs, BeginRead(k)
    PROVE  WorkStep(k)
<1> DEFINE i == jobs[k]
           j == [i EXCEPT !.groups = Head(i.chunks)]
           row == Mem(j.at).rows[Object(j.chunks)]
           f == [j EXCEPT !.before = row.file]
<1>1. i.pc = "body" /\ i.op \in Reads /\ i.op \in ObjectOps /\ UNCHANGED log
    BY OpsApart DEF BeginRead, At
<1>2. \/ ~Local(j.at, Object(j.chunks)) /\ Becomes(k, ToOwners(j))
      \/ Becomes(k, Found(k, f))
      \/ Becomes(k, Answered(j, 404))
    BY DEF BeginRead
<1>3. Fields(k, i)  BY <1>1, WorkFacts
<1>4. /\ DOMAIN j = JobFields /\ j.rows = i.rows
      /\ j.op = i.op /\ j.at = i.at /\ j.chunks = i.chunks
      /\ j.groups = Head(i.chunks) /\ j.count = i.count /\ j.part = i.part
      /\ j.fail = i.fail /\ SameTask(f, j) /\ f.rows = j.rows
    BY <1>3 DEF Fields, JobFields, SameTask
<1>5. j.chunks \in OneObject
    <2>1. scenario \in Scenarios /\ k[1] \in Requests /\ DataOk(k, i) /\ Chunked(i)
        BY <1>1, TypedFacts
    <2>2. i.form = "single"  BY <1>1, <2>1, RequestFacts DEF DataOk
    <2> QED  BY <1>1, <1>4, <2>1, <2>2 DEF Chunked, ForOne
<1> HIDE DEF f, j
<1>6. Ready(k, j, Kept) /\ InChunk(j) /\ j.groups # <<>> /\ j.groups = Head(j.chunks)
    BY <1>1, <1>3, <1>4, WorkBegins DEF Fields
<1>7. Ready(k, f, Kept)  BY <1>4, <1>6, SameReady
<1>8. Work(k, Found(k, f), Kept)  BY <1>1, <1>4, <1>7, WorkFound DEF Ready, SameTask
<1>9. Work(k, Answered(j, 404), Kept)  BY <1>6, Errors, WorkAnswered DEF Ready
<1>10. ASSUME ~Local(j.at, Object(j.chunks)) PROVE Work(k, ToOwners(j), Kept)
    <2>1. ~Owns(j.at, Head(j.groups))  BY <1>5, <1>6, <1>10, OneObjectHere
    <2>2. ~IsForwarded(k)  BY <1>6, <2>1, CallIsLocal DEF Ready
    <2>3. Outward(j)  BY <1>1, <1>4, <1>6 DEF Outward, Reads
    <2> QED  BY <1>6, <2>2, <2>3, WorkToOwners
<1> QED  BY <1>1, <1>2, <1>8, <1>9, <1>10, WorkQuiet

LEMMA WorkObjects ==
    ASSUME Inv, TypeInv, WorkInv, NEW k \in DOMAIN jobs, BeginObjects(k)
    PROVE  WorkStep(k)
<1> DEFINE i == jobs[k]
           j == [i EXCEPT !.groups = Head(i.chunks)]
           p == [j EXCEPT !.rows = Prepared(k[1], j)]
<1>1. i.pc = "body" /\ i.op \in ObjectOps  BY DEF BeginObjects, At
<1>2. \/ Becomes(k, Answered(j, 404)) /\ UNCHANGED log
      \/ RunGroups(k, p)
    BY DEF BeginObjects
<1>3. DataOk(k, j) /\ HasChunks(j)  BY <1>1, ChunkTyped
<1>4. k[1] \in Requests /\ EntryTyped(Mem(i.at)) /\ Fields(k, i)
    BY <1>1, TypedFacts, WorkFacts
<1>5. /\ DOMAIN j = JobFields /\ j.rows = i.rows
      /\ j.op = i.op /\ j.at = i.at /\ j.chunks = i.chunks
      /\ j.groups = Head(i.chunks) /\ j.count = i.count /\ j.part = i.part
      /\ j.fail = i.fail
      /\ DOMAIN p = JobFields /\ p.rows = Prepared(k[1], j)
      /\ p.op = i.op /\ p.at = i.at /\ p.chunks = i.chunks
      /\ p.groups = Head(i.chunks) /\ p.count = i.count /\ p.part = i.part
      /\ p.fail = i.fail
    BY <1>4 DEF Fields, JobFields
<1> HIDE DEF p, j
<1>6. DOMAIN p.rows \subseteq Ids /\ (j.op = "patch" => DOMAIN p.rows \subseteq LocalIds(j))
    <2> DEFINE rows == Prepared(k[1], j)
    <2>1. /\ DOMAIN rows \subseteq Ids
          /\ j.op = "patch" => DOMAIN rows = {id \in LocalIds(j) : Present(Mem(j.at).rows[id])}
        BY <1>3, <1>4, <1>5, PreparedTyped
    <2>2. p.rows = rows  BY <1>5
    <2> HIDE DEF rows
    <2> QED  BY <2>1, <2>2
<1>7. Ready(k, j, Kept)  BY <1>1, <1>4, <1>5, WorkBegins DEF Fields
<1>8. Ready(k, p, Kept) /\ InChunk(p) /\ p.groups # <<>>
    BY <1>1, <1>5, <1>6, WorkBegins
<1>9. Outward(p)
    <2>1. LocalIds(p) = LocalIds(j)  BY <1>5 DEF LocalIds
    <2> QED  BY <1>5, <1>6, <1>8, <2>1 DEF Outward
<1>10. Work(k, Answered(j, 404), Kept)  BY <1>7, Errors, WorkAnswered DEF Ready
<1> QED  BY <1>1, <1>2, <1>8, <1>9, <1>10, WorkQuiet, WorkRunGroups

LEMMA WorkFiles ==
    ASSUME Inv, TypeInv, WorkInv, NEW k \in DOMAIN jobs, BeginFile(k)
    PROVE  WorkStep(k)
<1> DEFINE i == jobs[k]
           j == [i EXCEPT !.groups = Head(i.chunks)]
           row == Mem(j.at).rows[Object(j.chunks)]
           p == [j EXCEPT !.pc = "put", !.before = row.file]
<1>1. i.pc = "body" /\ i.op \in ObjectOps /\ i.form = "file" /\ UNCHANGED log
    BY DEF BeginFile, At
<1>2. \/ ~Local(j.at, Object(j.chunks)) /\ Becomes(k, ToOwners(j))
      \/ Becomes(k, Answered(j, 409))
      \/ Becomes(k, p)
    BY DEF BeginFile
<1>3. Fields(k, i)  BY <1>1, WorkFacts
<1>4. /\ DOMAIN j = JobFields /\ j.rows = i.rows
      /\ j.op = i.op /\ j.at = i.at /\ j.chunks = i.chunks
      /\ j.groups = Head(i.chunks) /\ j.count = i.count /\ j.part = i.part
      /\ j.fail = i.fail /\ SameTask(p, j) /\ p.rows = j.rows /\ p.pc = "put"
    BY <1>3 DEF Fields, JobFields, SameTask
<1>5. j.chunks \in OneObject /\ j.op # "patch"
    <2>1. scenario \in Scenarios /\ k[1] \in Requests /\ DataOk(k, i) /\ Chunked(i)
        BY <1>1, TypedFacts
    <2>2. i.op \in {"create", "replace"}  BY <1>1, <2>1, RequestFacts DEF DataOk
    <2> QED  BY <1>1, <1>4, <2>1, <2>2 DEF Chunked, ForOne
<1> HIDE DEF p, j
<1>6. Ready(k, j, Kept) /\ InChunk(j) /\ j.groups # <<>> /\ j.groups = Head(j.chunks)
    BY <1>1, <1>3, <1>4, WorkBegins DEF Fields
<1>7. Ready(k, p, Kept)  BY <1>4, <1>6, SameReady
<1>8. Work(k, p, Kept)
    <2>1. InChunk(p)  BY <1>4, <1>6 DEF InChunk, SameTask
    <2>2. Follows(k, p)  BY <1>4, <1>7, <2>1 DEF Follows, Ready
    <2>3. p.part = 0  BY <1>1, <1>4, WorkFacts DEF SameTask
    <2> QED  BY <1>4, <1>7, <2>2, <2>3 DEF Work, Ready, Middle
<1>9. Work(k, Answered(j, 409), Kept)  BY <1>6, Errors, WorkAnswered DEF Ready
<1>10. ASSUME ~Local(j.at, Object(j.chunks)) PROVE Work(k, ToOwners(j), Kept)
    <2>1. ~Owns(j.at, Head(j.groups))  BY <1>5, <1>6, <1>10, OneObjectHere
    <2>2. ~IsForwarded(k)  BY <1>6, <2>1, CallIsLocal DEF Ready
    <2>3. Outward(j)  BY <1>5, <1>6 DEF Outward
    <2> QED  BY <1>6, <2>2, <2>3, WorkToOwners
<1> QED  BY <1>1, <1>2, <1>8, <1>9, <1>10, WorkQuiet

LEMMA WorkPutBlob ==
    ASSUME Inv, TypeInv, WorkInv, NEW k \in DOMAIN jobs, PutBlob(k)
    PROVE  WorkStep(k)
<1> DEFINE j == jobs[k]
<1>1. j.pc = "put" /\ RunGroups(k, j)  BY DEF PutBlob, At
<1>2. j.op \in ObjectOps  BY <1>1, JobFacts DEF Placed
<1>3. DataOk(k, j) /\ StageOk(j) /\ Grouped(j) /\ scenario \in Scenarios /\ k[1] \in Requests
    BY <1>1, TypedFacts
<1>4. j.form = "file" /\ j.groups = Head(j.chunks)
    BY <1>1, <1>2, <1>3 DEF StageOk, Grouped, ForOne
<1>5. j.op # "patch"  BY <1>3, <1>4, RequestFacts DEF DataOk
<1>6. Ready(k, j, Kept) /\ InChunk(j) /\ j.groups # <<>>
    BY <1>1, <1>2, <1>3, <1>4, WorkBegins DEF DataOk
<1>7. Outward(j)  BY <1>5, <1>6 DEF Outward
<1> HIDE DEF j
<1> QED  BY <1>1, <1>2, <1>6, <1>7, WorkRunGroups DEF j

LEMMA WorkSaves ==
    ASSUME Inv, TypeInv, WorkInv, NEW k \in DOMAIN jobs, jobs[k].op \in ObjectOps, Save(k)
    PROVE  WorkStep(k)
<1> DEFINE j == jobs[k]
           n == j.at
<1>1. j.pc = "save" /\ Becomes(k, AfterSave(k, j))  BY DEF Save, At
<1>2. PICK i \in DOMAIN log[n] : /\ j.wrote \subseteq log[n][i].ops
                                 /\ log' = [log EXCEPT ![n] = SubSeq(log[n], i, Len(log[n]))]
    BY DEF Save
<1>3. Handled(k) /\ Fields(k, j) /\ HasChunks(j) /\ n \in Nodes
    BY <1>1, WorkFacts DEF Fields
<1>4. Kept \subseteq Kept'  BY <1>2, <1>3, SavedMarks, KeptGrows DEF Inv
<1>5. j.wrote \subseteq Kept'
    <2>1. DOMAIN log = Nodes /\ IsLog(log[n])  BY <1>3 DEF Inv, LogsOk
    <2>2. log'[n] = SubSeq(log[n], i, Len(log[n]))  BY <1>2, <1>3, <2>1
    <2>3. Head(log'[n]) = log[n][i]  BY <1>2, <2>1, <2>2, SaveLog
    <2>4. PICK m \in Nodes : m = n  BY <1>3
    <2>5. j.wrote \subseteq Head(log'[m]).ops  BY <1>2, <2>3, <2>4
    <2> HIDE DEF j, n
    <2>6. Kept' = UNION {Head(log'[x]).ops : x \in Nodes}  BY DEF Kept, Saved, Durable
    <2> QED  BY <2>5, <2>6
<1>6. Work(k, j, Kept')  BY <1>4, WorkStays
<1> HIDE DEF j, n
<1>7. Work(k, AfterSave(k, j), Kept')
    <2> DEFINE S == Kept'
    <2>1. j.wrote \subseteq S /\ Work(k, j, S)  BY <1>5, <1>6
    <2> HIDE DEF S
    <2>2. Work(k, AfterSave(k, j), S)  BY <1>1, <1>3, <2>1, WorkAfterSave
    <2> QED  BY <2>2 DEF S
<1> QED  BY <1>1, <1>4, <1>7, WorkMoves

LEMMA WorkUnlinks ==
    ASSUME Inv, TypeInv, WorkInv, NEW k \in DOMAIN jobs, jobs[k].op \in ObjectOps, Unlink(k)
    PROVE  WorkStep(k)
<1> DEFINE j == jobs[k]
<1>1. j.pc = "unlink" /\ UNCHANGED log  BY DEF Unlink, At
<1>2. Ready(k, j, Kept) /\ j.wrote \subseteq Kept /\ Follows(k, j) /\ j.op \notin ScopeOps
    BY <1>1, WorkFacts DEF Middle, Rested
<1>3. j.groups = <<>>  BY <1>1, <1>2 DEF Follows
<1>4. Becomes(k, Completed(j))  BY <1>2 DEF Unlink
<1> HIDE DEF j
<1>5. Work(k, Completed(j), Kept)  BY <1>2, <1>3, WorkCompleted
<1> QED  BY <1>1, <1>4, <1>5, WorkQuiet

LEMMA WorkMissed ==
    ASSUME Inv, TypeInv, WorkInv, NEW k \in DOMAIN jobs,
           Unreachable(k) \/ TimesOut(k) \/ Disconnected(k)
    PROVE  WorkStep(k)
<1> DEFINE i == jobs[k]
           m == [i EXCEPT !.missed = TRUE]
<1>1. i.pc \in {"send", "wait"} /\ UNCHANGED log
    BY DEF Unreachable, TimesOut, Disconnected, At
<1>2. PICK status \in {503, 504} : Becomes(k, NextOwner(m, status))
    BY DEF Unreachable, TimesOut, Disconnected
<1>3. /\ i.op \in ObjectOps /\ ~IsForwarded(k) /\ Ready(k, i, Kept) /\ Outward(i)
      /\ i.peers \in Seq(Nodes) /\ i.peers # <<>>
      /\ Range(i.peers) \subseteq Range(Owners[ShardOfGroup(Head(i.groups))])
    BY <1>1, SenderFacts
<1>4. SameTask(m, i) /\ m.rows = i.rows /\ m.peers = i.peers
    BY <1>3 DEF Ready, Fields, JobFields, SameTask
<1> HIDE DEF m
<1>5. Ready(k, m, Kept)  BY <1>3, <1>4, SameReady
<1>6. Outward(m) /\ m.groups = i.groups
    BY <1>3, <1>4 DEF Outward, SameTask, InChunk, LocalIds
<1>7. Work(k, NextOwner(m, status), Kept)
    BY <1>2, <1>3, <1>4, <1>5, <1>6, Errors, WorkNextOwner
<1> QED  BY <1>1, <1>2, <1>3, <1>7, WorkQuiet

\* A call is made for the group at hand.
LEMMA CallMeans ==
    ASSUME NEW k, Handled(k), ~IsForwarded(k), NEW j, HasChunks(j), OnRequest(k, j),
           InChunk(j), j.groups # <<>>, NEW n \in Nodes, Owns(n, Head(j.groups)),
           NEW c, c = <<k[1], n, Len(Req(k[1]).chunks) - Len(j.chunks)>>
    PROVE  /\ IsForwarded(c) /\ c[1] = k[1] /\ Meant(c) = Head(j.groups)
           /\ Head(j.groups) \in Group
<1> DEFINE q == Req(k[1]).chunks
           s == j.chunks
           g == Head(j.groups)
<1>1. s \in Seq(Chunk) /\ s # <<>> /\ IsTailOf(s, q)  BY DEF HasChunks, OnRequest
<1>2. q \in Seq(Chunk)  BY RequestFacts DEF Handled
<1>3. Len(s) \in Nat /\ Len(s) >= 1 /\ Head(s) = s[1] /\ Head(s) \in Chunk /\ Len(q) \in Nat
    BY <1>1, <1>2
<1>4. j.groups \in Chunk /\ Range(j.groups) \subseteq Range(Head(s))  BY DEF InChunk
<1>5. g \in Range(Head(s)) /\ g \in Group  BY <1>4, RestOfChunk
<1>6. c[1] = k[1] /\ c[2] = n /\ c[3] = Len(q) - Len(s) /\ IsForwarded(c)
    BY RootKeys DEF IsForwarded
<1> HIDE DEF q, s, g
<1>7. q[c[3] + 1] = Head(s)
    <2>1. 1 \in 1..Len(s)  BY <1>3
    <2>2. s[1] = q[Len(q) - Len(s) + 1]  BY <1>1, <2>1 DEF IsTailOf
    <2> QED  BY <1>3, <1>6, <2>2
<1>8. Meant(c) = {id \in Ids : id \in Left(Head(s)) /\ Local(n, id)}
    BY <1>6, <1>7 DEF Meant, q
<1>9. {id \in Left(Head(s)) : Local(n, id)} = g  BY <1>3, <1>5, OwnedGroup DEF g
<1>10. Left(Head(s)) \subseteq Ids  BY <1>3, ChunkFacts
<1> QED  BY <1>5, <1>6, <1>8, <1>9, <1>10 DEF g

LEMMA WorkNew ==
    ASSUME NEW k, NEW j, OnRequest(k, j), j.pc = "new", j.count = 0, j.part = 0, j.fail = 0,
           Meant(k) \subseteq LeftIn(j.chunks), NEW S
    PROVE  Work(k, j, S)
<1>1. Meant(k) \ LeftIn(j.chunks) = {}  OBVIOUS
<1>2. \A r : Marked(r, {}, S) = {}  BY DEF Marked
<1>3. CountOk(k, j, S)  BY <1>1, <1>2, FS_EmptySet DEF CountOk
<1>4. Follows(k, j)  BY Errors DEF Follows
<1> QED  BY <1>3, <1>4 DEF Work, Middle

LEMMA WorkSends ==
    ASSUME Inv, TypeInv, WorkInv, NEW k \in DOMAIN jobs, Send(k)
    PROVE  WorkStep(k)
<1> DEFINE j == jobs[k]
           n == Head(j.peers)
           g == Head(j.groups)
           c == ChildKey(k, n)
           a == [j EXCEPT !.pc = "wait", !.child = c]
           e == NewJob(k[1], n, << <<g>> >>)
<1>1. /\ j.pc = "send" /\ UNCHANGED log
      /\ jobs' = [q \in DOMAIN jobs \cup {c} |-> IF q = k THEN a ELSE IF q = c THEN e ELSE jobs[q]]
    BY DEF Send, At
<1>2. /\ j.op \in ObjectOps /\ ~IsForwarded(k) /\ Ready(k, j, Kept) /\ Outward(j)
      /\ j.peers \in Seq(Nodes) /\ j.peers # <<>>
      /\ Range(j.peers) \subseteq Range(Owners[ShardOfGroup(Head(j.groups))])
    BY <1>1, SenderFacts
<1>3. n \in Nodes /\ Owns(n, g)
    <2>1. n \in Nodes /\ n \in Range(j.peers)  BY <1>2, TailFacts
    <2> QED  BY <1>2, <2>1 DEF Owns
<1>4. c = <<k[1], n, Len(Req(k[1]).chunks) - Len(j.chunks)>>  BY DEF ChildKey
<1>5. /\ Handled(k) /\ Fields(k, j) /\ HasChunks(j) /\ OnRequest(k, j) /\ InChunk(j)
      /\ j.groups # <<>>
    BY <1>2 DEF Ready, Outward
<1>6. IsForwarded(c) /\ c[1] = k[1] /\ Meant(c) = g /\ g \in Group
    BY <1>2, <1>3, <1>4, <1>5, CallMeans
<1>7. Work(k, a, Kept)
    <2>1. /\ SameTask(a, j) /\ a.rows = j.rows /\ a.peers = j.peers /\ a.pc = "wait"
          /\ a.child = c
        BY <1>5 DEF Fields, JobFields, SameTask
    <2> HIDE DEF a, c, n
    <2>2. Ready(k, a, Kept)  BY <1>2, <2>1, SameReady
    <2>3. InChunk(a) /\ LocalIds(a) = LocalIds(j)
        BY <1>5, <2>1 DEF InChunk, LocalIds, SameTask
    <2>4. Called(k, a)  BY <1>3, <1>4, <2>1 DEF Called, SameTask
    <2>5. Follows(k, a)  BY <1>2, <2>1, <2>2, <2>3, <2>4 DEF Follows, Outward, Ready, SameTask
    <2> QED  BY <2>1, <2>2, <2>5 DEF Work, Ready
<1>8. Work(c, e, Kept)
    <2>1. /\ e.pc = "new" /\ e.count = 0 /\ e.part = 0 /\ e.fail = 0 /\ e.at = n
          /\ e.chunks = << <<g>> >>
        BY DEF NewJob
    <2> HIDE DEF e, c, n, g
    <2>2. OnRequest(c, e)  BY <1>3, <1>6, <2>1 DEF OnRequest
    <2>3. LeftIn(e.chunks) = g  BY <2>1, OneLeft
    <2> QED  BY <1>6, <2>1, <2>2, <2>3, WorkNew
<1> HIDE DEF a, c, e, j, n, g
<1>9. Kept' = Kept  BY <1>1, SameLog, SameKept DEF Inv
<1>10. ASSUME NEW q \in DOMAIN jobs', q[1] = k[1] PROVE Work(q, jobs'[q], Kept)
    <2>1. CASE q = k  BY <1>1, <1>7, <2>1
    <2>2. CASE q # k /\ q = c  BY <1>1, <1>8, <2>2
    <2>3. CASE q # k /\ q # c
        <3>1. q \in DOMAIN jobs /\ jobs'[q] = jobs[q]  BY <1>1, <2>3
        <3>2. jobs[q].op \in ObjectOps  BY <1>2, <1>10, <3>1, JobFacts DEF j
        <3> QED  BY <3>1, <3>2, WorkFacts
    <2> QED  BY <2>1, <2>2, <2>3
<1> QED  BY <1>9, <1>10 DEF WorkStep

\* A group that another node has done: what it counts is saved.
LEMMA WorkAddsCall ==
    ASSUME NEW k, NEW j, NEW S, Ready(k, j, S), Outward(j), NEW n \in Nat,
           NamesOnce(k[1]) => n <= Cardinality(Marked(k[1], Head(j.groups), S)),
           j.op = "create" => \A id \in Head(j.groups) : <<k[1], id>> \in S,
           NEW w, DOMAIN w = JobFields, w.op = j.op, w.at = j.at, w.chunks = j.chunks,
           w.groups = Tail(j.groups), w.count = j.count, w.part = j.part + n,
           w.wrote = j.wrote, w.fail = j.fail, w.rows = j.rows
    PROVE  Ready(k, w, S) /\ (w.groups # <<>> => Outward(w))
<1> DEFINE g == Head(j.groups)
           r == k[1]
           c == Head(j.chunks)
<1>1. /\ Handled(k) /\ Fields(k, j) /\ HasChunks(j) /\ OnRequest(k, j)
      /\ CountOk(k, j, S) /\ PartOk(k, j, S) /\ ~Ok(j.fail)
    BY DEF Ready
<1>2. c \in Chunk /\ Range(c) \subseteq Group /\ Left(c) \subseteq Ids
    BY <1>1, ChunkFacts DEF HasChunks
<1>3. /\ j.groups \in Chunk /\ Range(j.groups) \subseteq Range(c) /\ j.groups # <<>>
      /\ j.op = "patch" => DOMAIN j.rows \subseteq LocalIds(j)
    BY DEF Outward, InChunk
<1>4. /\ Tail(j.groups) # <<>> => Tail(j.groups) \in Chunk
      /\ g \in Range(c) /\ g \cap Left(Tail(j.groups)) = {}
      /\ Left(j.groups) = g \cup Left(Tail(j.groups))
    BY <1>3, RestOfChunk, ChunkFacts, LeftSplits
<1>5. InChunk(w)
    <2>1. Range(Tail(j.groups)) \subseteq Range(j.groups)  BY <1>3, ChunkFacts, TailFacts
    <2> QED  BY <1>3, <1>4, <2>1 DEF InChunk
<1>6. w.groups # <<>> => Outward(w)
    <2>1. LocalIds(w) = LocalIds(j)  BY DEF LocalIds
    <2> QED  BY <1>3, <1>5, <2>1 DEF Outward
<1> DEFINE old == Left(c) \ Left(j.groups)
           new == Left(c) \ Left(Tail(j.groups))
           W == j.wrote \cup S
<1>7. /\ NamesOnce(r) => j.part <= Cardinality(Marked(r, old, W))
      /\ j.op = "create" => \A id \in old : <<r, id>> \in W
    BY <1>1 DEF PartOk
<1>8. /\ S \subseteq W /\ old \cap g = {} /\ old \cup g \subseteq new /\ new \subseteq Ids
      /\ new \subseteq old \cup g
    <2>1. g \subseteq Left(c)  BY <1>4 DEF Left
    <2> QED  BY <1>2, <1>4, <2>1
<1>9. j.part \in Nat  BY <1>1 DEF Fields
<1>10. /\ NamesOnce(r) => n <= Cardinality(Marked(r, g, S))
       /\ j.op = "create" => \A id \in g : <<r, id>> \in S
    OBVIOUS
<1> HIDE DEF old, new, W, g, r, c
<1>11. ASSUME NamesOnce(r) PROVE j.part + n <= Cardinality(Marked(r, new, W))
    <2>1. g \subseteq Ids  BY <1>8
    <2>2. /\ Cardinality(Marked(r, g, S)) <= Cardinality(Marked(r, g, W))
          /\ Cardinality(Marked(r, g, S)) \in Nat /\ Cardinality(Marked(r, g, W)) \in Nat
        BY <1>8, <2>1, MarkedGrows
    <2>3. n <= Cardinality(Marked(r, g, W))  BY <1>10, <1>11, <2>2
    <2>4. j.part <= Cardinality(Marked(r, old, W))  BY <1>7, <1>11
    <2> QED  BY <1>8, <1>9, <2>3, <2>4, MarkedAdds
<1>12. ASSUME j.op = "create" PROVE \A id \in new : <<r, id>> \in W
    BY <1>7, <1>8, <1>10, <1>12
<1>13. PartOk(k, w, S)  BY <1>11, <1>12 DEF PartOk, new, W, r, c
<1>14. CountOk(k, w, S) /\ OnRequest(k, w)  BY <1>1, SameCount, SameRequest
<1>15. Fields(k, w) /\ HasChunks(w)  BY <1>1, <1>9 DEF Fields, HasChunks
<1> QED  BY <1>1, <1>6, <1>13, <1>14, <1>15 DEF Ready

LEMMA WorkReturns ==
    ASSUME Inv, TypeInv, WorkInv, NEW k \in DOMAIN jobs, Return(k)
    PROVE  WorkStep(k)
<1> DEFINE i == jobs[k]
           c == jobs[i.child]
           j == [i EXCEPT !.child = <<>>]
           m == [j EXCEPT !.missed = @ \/ c.status # 404]
           e == [j EXCEPT !.started = StartedMarker(j, c.started)]
           f == [j EXCEPT !.before = c.before]
           g == [j EXCEPT !.part = @ + c.count, !.groups = Tail(@)]
<1>1. i.pc = "wait" /\ i.child \in DOMAIN jobs /\ c.pc = "done"  BY DEF Return, At
<1>2. \/ c.status \in Retried(j.op) /\ Becomes(k, NextOwner(m, c.status)) /\ UNCHANGED log
      \/ ~Ok(c.status) /\ Becomes(k, Failed(e, c.status)) /\ UNCHANGED log
      \/ j.op \in Reads /\ Becomes(k, Found(k, f)) /\ UNCHANGED log
      \/ Ok(c.status) /\ j.op \notin Reads /\ RunGroups(k, g)
    BY DEF Return
<1>3. /\ i.op \in ObjectOps /\ ~IsForwarded(k) /\ Ready(k, i, Kept) /\ Outward(i)
      /\ i.peers \in Seq(Nodes) /\ i.peers # <<>>
      /\ Range(i.peers) \subseteq Range(Owners[ShardOfGroup(Head(i.groups))])
      /\ Called(k, i)
    BY <1>1, SenderFacts
<1>4. /\ Handled(k) /\ Fields(k, i) /\ HasChunks(i) /\ OnRequest(k, i) /\ InChunk(i)
      /\ i.groups # <<>>
    BY <1>3 DEF Ready, Outward
<1>5. PICK n \in Nodes :
         /\ i.child = <<k[1], n, Len(Req(k[1]).chunks) - Len(i.chunks)>>
         /\ Owns(n, Head(i.groups))
    BY <1>3 DEF Called
<1>6. /\ IsForwarded(i.child) /\ i.child[1] = k[1] /\ Meant(i.child) = Head(i.groups)
    <2> DEFINE cc == i.child
    <2>1. cc = <<k[1], n, Len(Req(k[1]).chunks) - Len(i.chunks)>>  BY <1>5
    <2> HIDE DEF cc, i
    <2>2. IsForwarded(cc) /\ cc[1] = k[1] /\ Meant(cc) = Head(i.groups)
        BY <1>3, <1>4, <1>5, <2>1, CallMeans
    <2> QED  BY <2>2 DEF cc
<1>7. c.op = i.op  BY <1>1, <1>6, JobFacts
<1>8. Follows(i.child, c) /\ CountOk(i.child, c, Kept) /\ Fields(i.child, c)
    BY <1>1, <1>3, <1>7, WorkFacts
<1>9. c.status # 0 /\ c.count \in Nat  BY <1>1, <1>6, <1>8 DEF Follows, Fields
<1>10. j.op = i.op  BY <1>4 DEF Fields, JobFields
<1>11. CASE c.status \in Retried(j.op) /\ Becomes(k, NextOwner(m, c.status)) /\ UNCHANGED log
    <2>1. SameTask(m, i) /\ m.rows = i.rows /\ m.peers = i.peers
        BY <1>4 DEF Fields, JobFields, SameTask
    <2>2. c.status \in {404, 409, 502, 503, 504}  BY <1>11 DEF Retried
    <2> HIDE DEF m, j
    <2>3. Ready(k, m, Kept)  BY <1>3, <2>1, SameReady
    <2>4. Outward(m) /\ m.groups = i.groups
        BY <1>3, <2>1 DEF Outward, SameTask, InChunk, LocalIds
    <2>5. ~Ok(c.status)  BY <2>2, Errors
    <2> HIDE DEF c, i
    <2>6. Work(k, NextOwner(m, c.status), Kept)
        BY <1>3, <1>9, <2>1, <2>3, <2>4, <2>5, WorkNextOwner
    <2> QED  BY <1>3, <1>11, <2>6, WorkQuiet DEF i
<1>12. CASE ~Ok(c.status) /\ Becomes(k, Failed(e, c.status)) /\ UNCHANGED log
    <2>1. SameTask(e, i) /\ e.rows = i.rows
        BY <1>4 DEF Fields, JobFields, SameTask
    <2> HIDE DEF e
    <2>2. Ready(k, e, Kept)  BY <1>3, <2>1, SameReady
    <2> HIDE DEF c, i
    <2>3. Work(k, Failed(e, c.status), Kept)  BY <1>9, <1>12, <2>2, WorkFailed
    <2> QED  BY <1>3, <1>12, <2>3, WorkQuiet DEF i
<1>13. CASE j.op \in Reads /\ Becomes(k, Found(k, f)) /\ UNCHANGED log
    <2>1. SameTask(f, i) /\ f.rows = i.rows
        BY <1>4 DEF Fields, JobFields, SameTask
    <2> HIDE DEF f, j
    <2>2. Ready(k, f, Kept)  BY <1>3, <2>1, SameReady
    <2>3. Work(k, Found(k, f), Kept)
        BY <1>10, <1>13, <2>1, <2>2, WorkFound DEF Ready, SameTask
    <2> QED  BY <1>3, <1>13, <2>3, WorkQuiet
<1>14. CASE Ok(c.status) /\ j.op \notin Reads /\ RunGroups(k, g)
    <2>1. /\ DOMAIN g = JobFields /\ g.op = i.op /\ g.at = i.at /\ g.chunks = i.chunks
          /\ g.groups = Tail(i.groups) /\ g.count = i.count /\ g.part = i.part + c.count
          /\ g.wrote = i.wrote /\ g.fail = i.fail /\ g.rows = i.rows
        BY <1>4 DEF Fields, JobFields
    <2>2. c.chunks = <<>>  BY <1>1, <1>7, <1>8, <1>10, <1>14 DEF Follows
    <2>3. Meant(i.child) \ LeftIn(c.chunks) = Head(i.groups)  BY <1>6, <2>2, NothingLeft
    <2>4. /\ NamesOnce(k[1]) => c.count <= Cardinality(Marked(k[1], Head(i.groups), Kept))
          /\ i.op = "create" => \A id \in Head(i.groups) : <<k[1], id>> \in Kept
        BY <1>6, <1>7, <1>8, <2>3 DEF CountOk
    <2> HIDE DEF g, j, c, i
    <2>5. Ready(k, g, Kept) /\ (g.groups # <<>> => Outward(g))
        BY <1>3, <1>9, <2>1, <2>4, WorkAddsCall
    <2> QED  BY <1>3, <1>14, <2>5, WorkRunGroups DEF i
<1> QED  BY <1>2, <1>11, <1>12, <1>13, <1>14

LEMMA WorkSteps ==
    ASSUME Inv, TypeInv, WorkInv, NEW k \in DOMAIN jobs, jobs[k].op \in ObjectOps,
           Step(k) \/ Failure(k)
    PROVE  WorkStep(k)
<1>1. jobs[k].op \notin ScopeOps  BY OpsApart
<1>2. ~BeginDrop(k) /\ ~BeginCreate(k)
    BY <1>1 DEF BeginDrop, BeginCreate, ScopeOps
<1>3. ~FanOut(k) /\ ~FanReturn(k) /\ ~FanDone(k)
    <2>1. jobs[k].pc \notin {"fan", "fanned"}  BY <1>1, JobFacts DEF Placed
    <2> QED  BY <2>1 DEF FanOut, FanReturn, FanDone, At
<1> QED  BY <1>2, <1>3, WorkReceives, WorkReads, WorkObjects, WorkFiles, WorkPutBlob,
            WorkSaves, WorkUnlinks, WorkSends, WorkReturns, WorkMissed, WorkIsAnswered
         DEF Step, Failure

LEMMA SameWork ==
    ASSUME scenario' = scenario
    PROVE  \A k, j, S : Work(k, j, S)' <=> Work(k, j, S)
<1>1. \A k : Meant(k)' = Meant(k)  BY DEF Meant, Req
<1>2. \A r : NamesOnce(r)' <=> NamesOnce(r)  BY DEF NamesOnce, Req
<1>3. \A k, j, S : CountOk(k, j, S)' <=> CountOk(k, j, S)  BY <1>1, <1>2 DEF CountOk
<1>4. \A k, j, S : PartOk(k, j, S)' <=> PartOk(k, j, S)  BY <1>2 DEF PartOk
<1>5. \A k, j : OnRequest(k, j)' <=> OnRequest(k, j)  BY <1>1 DEF OnRequest, Req
<1>6. \A k, j : Called(k, j)' <=> Called(k, j)  BY DEF Called, Req
<1>7. \A k, j : Follows(k, j)' <=> Follows(k, j)  BY <1>5, <1>6 DEF Follows
<1> QED  BY <1>3, <1>4, <1>7 DEF Work

LEMMA StepWork ==
    ASSUME Inv, Inv', TypeInv, WorkInv, NEW k \in DOMAIN jobs, Step(k) \/ Failure(k)
    PROVE  WorkInv'
<1>1. OthersStay(k) /\ SavedStays /\ scenario' = scenario  BY OwnSteps DEF OwnStep
<1>2. Kept \subseteq Kept'  BY <1>1, KeptGrows
<1>3. ASSUME NEW q \in DOMAIN jobs', Req(q[1]).op \in ObjectOps PROVE Work(q, jobs'[q], Kept')
    <2>1. CASE q[1] # k[1]
        <3>1. q \in DOMAIN jobs /\ jobs'[q] = jobs[q]  BY <1>1, <2>1 DEF OthersStay
        <3>2. jobs[q].op \in ObjectOps  BY <1>3, <3>1, JobFacts
        <3> QED  BY <1>2, <3>1, <3>2, WorkStays
    <2>2. CASE q[1] = k[1]
        <3>1. jobs[k].op \in ObjectOps  BY <1>3, <2>2, JobFacts
        <3> QED  BY <2>2, <3>1, WorkSteps DEF WorkStep
    <2> QED  BY <2>1, <2>2
<1>4. \A q \in DOMAIN jobs' : Req(q[1])'.op \in ObjectOps => Work(q, jobs'[q], Kept')
    BY <1>1, <1>3 DEF Req
<1> QED  BY <1>1, <1>4, SameWork DEF WorkInv

LEMMA RestartWorks ==
    ASSUME Inv, TypeInv, WorkInv, NEW n \in Nodes, Restart(n)
    PROVE  WorkInv'
<1> DEFINE stopped(j) == [j EXCEPT !.pc = "done", !.status = 0, !.child = <<>>, !.fan = <<>>]
<1>1. scenario' = scenario /\ log' = [log EXCEPT ![n] = <<Durable(n)>>]  BY DEF Restart
<1>2. \A q \in DOMAIN jobs' : /\ q \in DOMAIN jobs
                              /\ \/ jobs'[q] = jobs[q]
                                 \/ ~IsForwarded(q) /\ jobs'[q] = stopped(jobs[q])
    BY DEF Restart
<1>3. Kept' = Kept
    <2>1. /\ DOMAIN log = Nodes /\ log'[n] = <<Head(log[n])>>
          /\ \A m \in Nodes \ {n} : log'[m] = log[m]
        BY <1>1 DEF Inv, LogsOk, Durable
    <2>2. Head(log'[n]) = Head(log[n])  BY <2>1
    <2>3. \A m \in Nodes : Head(log'[m]) = Head(log[m])  BY <2>1, <2>2
    <2>4. \A m \in Nodes : Saved(m)' = Saved(m)  BY <2>3 DEF Saved, Durable
    <2> QED  BY <2>4, SameKept
<1>4. ASSUME NEW q \in DOMAIN jobs', Req(q[1]).op \in ObjectOps PROVE Work(q, jobs'[q], Kept)
    <2>1. q \in DOMAIN jobs /\ jobs[q].op \in ObjectOps  BY <1>2, <1>4, JobFacts
    <2> DEFINE j == jobs[q]
               a == stopped(j)
    <2>2. Work(q, j, Kept) /\ Fields(q, j) /\ CountOk(q, j, Kept) /\ ~Ok(j.fail)
        BY <2>1, WorkFacts
    <2>3. ASSUME ~IsForwarded(q) PROVE Work(q, a, Kept)
        <3>1. /\ a.pc = "done" /\ a.status = 0 /\ a.op = j.op /\ a.chunks = j.chunks
              /\ a.count = j.count /\ a.fail = j.fail
            BY <2>2 DEF Fields, JobFields
        <3> HIDE DEF a, j
        <3>2. CountOk(q, a, Kept)  BY <2>2, <3>1, SameCount
        <3>3. Follows(q, a)  BY <2>2, <2>3, <3>1, Errors DEF Follows
        <3> QED  BY <3>1, <3>2, <3>3 DEF Work, Middle
    <2> HIDE DEF stopped
    <2> QED  BY <1>2, <2>2, <2>3
<1>5. \A q \in DOMAIN jobs' : Req(q[1])'.op \in ObjectOps => Work(q, jobs'[q], Kept')
    BY <1>1, <1>3, <1>4 DEF Req
<1> QED  BY <1>1, <1>5, SameWork DEF WorkInv

LEMMA InitWork == Init => WorkInv
<1> SUFFICES ASSUME Init, NEW k \in DOMAIN jobs, Req(k[1]).op \in ObjectOps
             PROVE  Work(k, jobs[k], Kept)
    BY DEF WorkInv
<1>1. PICK r \in Requests : k = RootKey(r)  BY DEF Init
<1>2. ~IsForwarded(k) /\ k[1] = r  BY <1>1, RootKeys
<1>3. jobs[k] = NewJob(k[1], Req(k[1]).at, Req(k[1]).chunks)  BY DEF Init
<1> DEFINE j == jobs[k]
<1>4. /\ j.chunks = Req(k[1]).chunks /\ j.pc = "new" /\ j.count = 0 /\ j.part = 0
      /\ j.fail = 0
    BY <1>3 DEF NewJob
<1> HIDE DEF j
<1>5. OnRequest(k, j)
    <2> DEFINE q == Req(k[1]).chunks
    <2>1. scenario \in Scenarios  BY DEF Init
    <2>2. q \in Seq(Chunk)  BY <1>1, <1>2, <2>1, RequestFacts
    <2> HIDE DEF q
    <2>3. IsTailOf(q, q)  BY <2>2 DEF IsTailOf
    <2> QED  BY <1>2, <1>4, <2>3 DEF OnRequest, q
<1>6. Meant(k) \subseteq LeftIn(j.chunks)  BY <1>2, <1>4 DEF Meant
<1>7. Work(k, j, Kept)  BY <1>4, <1>5, <1>6, WorkNew
<1> QED  BY <1>7 DEF j

LEMMA NextWork == Inv /\ Inv' /\ TypeInv /\ WorkInv /\ [Next]_vars => WorkInv'
<1> SUFFICES ASSUME Inv, Inv', TypeInv, WorkInv, [Next]_vars PROVE WorkInv'  OBVIOUS
<1>1. ASSUME NEW k \in DOMAIN jobs, Step(k) \/ Failure(k) PROVE WorkInv'
    BY <1>1, StepWork
<1>2. ASSUME NEW n \in Nodes, Restart(n) PROVE WorkInv'  BY <1>2, RestartWorks
<1>3. ASSUME UNCHANGED <<scenario, log, jobs>> PROVE WorkInv'
    <2>1. Kept' = Kept  BY <1>3, SameLog, SameKept DEF Inv
    <2>2. \A q \in DOMAIN jobs' : Req(q[1])'.op \in ObjectOps => Work(q, jobs'[q], Kept')
        BY <1>3, <2>1 DEF WorkInv, Req
    <2> QED  BY <1>3, <2>2, SameWork DEF WorkInv
<1> QED  BY <1>1, <1>2, <1>3 DEF Next, ExpireToken, vars

LEMMA WorkInvHolds == Spec => []WorkInv
BY InitWork, NextWork, RequestsInvariant, TypeInvHolds, PTL DEF Spec

\* No answer counts more objects than are saved: not when an attempt that timed out is
\* repeated at another owner, not when an owner answers for part of a chunk, and not when
\* a stream breaks off.
THEOREM ReportedIsSavedHolds == Spec => []ReportedIsSaved
<1>1. Inv /\ TypeInv /\ WorkInv => ReportedIsSaved
    <2> SUFFICES ASSUME Inv, TypeInv, WorkInv, NEW r \in Requests, NamesOnce(r)
                 PROVE  LET j == jobs[RootKey(r)]
                        IN  Reported(j) <= Cardinality(
                                {id \in Ids : \E n \in Nodes : <<r, id>> \in Durable(n).ops})
        BY DEF ReportedIsSaved
    <2> DEFINE k == RootKey(r)
               j == jobs[k]
               ids == Meant(k) \ LeftIn(j.chunks)
               saved == {id \in Ids : \E n \in Nodes : <<r, id>> \in Durable(n).ops}
    <2>1. k \in DOMAIN jobs /\ k[1] = r  BY RootKeys DEF Inv, KeysOk
    <2>2. j.op \in ObjectOps  BY <2>1, JobFacts DEF NamesOnce
    <2>3. Meant(k) \subseteq Ids /\ Fields(k, j) /\ CountOk(k, j, Kept)
        BY <2>1, <2>2, WorkFacts
    <2>4. j.count <= Cardinality(Marked(r, ids, Kept)) /\ j.count \in Nat
        BY <2>1, <2>3 DEF CountOk, Fields
    <2>5. saved = Marked(r, Ids, Kept)  BY DEF Marked, Kept, Saved
    <2>6. ids \subseteq Ids  BY <2>3
    <2> HIDE DEF k, j, ids, saved
    <2>7. /\ Cardinality(Marked(r, ids, Kept)) \in Nat /\ Cardinality(saved) \in Nat
          /\ Cardinality(Marked(r, ids, Kept)) <= Cardinality(saved)
        BY <2>5, <2>6, MarkedGrows
    <2>8. Reported(j) \in {j.count, 0}  BY DEF Reported
    <2>9. Reported(j) <= Cardinality(saved)  BY <2>4, <2>7, <2>8
    <2> QED  BY <2>9 DEF j, k, saved
<1> QED  BY <1>1, RequestsInvariant, TypeInvHolds, WorkInvHolds, PTL

----------------------------------------------------------------------------
\* Lookups.  While nothing is removed, an object that was created somewhere is there, with
\* the mark of its creation; what a patch has prepared are objects, too; and a status is
\* given with the answer.

EntryHolds(n, e) ==
    \A o \in e.ops : Req(o[1]).op = "create" =>
        o[2] \in Ids /\ Local(n, o[2]) /\ Present(e.rows[o[2]])

LogHolds == \A n \in Nodes : \A i \in DOMAIN log[n] : EntryHolds(n, log[n][i])

RowsReady(j) == j.op = "patch" => \A id \in DOMAIN j.rows : Present(j.rows[id])

Plain(j) ==
    /\ j.pc # "done" => j.status = 0
    /\ RowsReady(j)

PlainInv == \A k \in DOMAIN jobs : jobs[k].op \in ObjectOps => Plain(jobs[k])

\* A job that has not answered.
Open(j) == DOMAIN j = JobFields /\ j.status = 0 /\ RowsReady(j)

LEMMA PlainAnswered ==
    ASSUME NEW j, Open(j), NEW status
    PROVE  Plain(Answered(j, status))
<1> DEFINE a == Answered(j, status)
<1>1. a.pc = "done" /\ a.op = j.op /\ a.rows = j.rows
    BY DEF Answered, Open, JobFields
<1> HIDE DEF a
<1>2. RowsReady(a)  BY <1>1 DEF Open, RowsReady
<1> QED  BY <1>1, <1>2 DEF Plain, a

LEMMA PlainMoved ==
    ASSUME NEW j, Open(j), NEW a, a.status = j.status, a.op = j.op, a.rows = j.rows
    PROVE  Plain(a)
BY DEF Open, Plain, RowsReady

LEMMA OpenMoved ==
    ASSUME NEW j, Open(j), NEW a, DOMAIN a = JobFields, a.status = j.status, a.op = j.op,
           a.rows = j.rows
    PROVE  Open(a)
BY DEF Open, RowsReady

LEMMA PlainFailed ==
    ASSUME NEW j, Open(j), NEW status
    PROVE  Plain(Failed(j, status))
<1> DEFINE a == [j EXCEPT !.pc = "save", !.fail = status]
<1>1. a.status = j.status /\ a.op = j.op /\ a.rows = j.rows  BY DEF Open, JobFields
<1>2. Failed(j, status) = a \/ Failed(j, status) = Answered(j, status)  BY DEF Failed
<1> HIDE DEF a
<1> QED  BY <1>1, <1>2, PlainAnswered, PlainMoved

LEMMA PlainCompleted ==
    ASSUME NEW j, Open(j)
    PROVE  Plain(Completed(j))
<1> DEFINE next == [j EXCEPT !.count = @ + j.part, !.part = 0, !.olds = {}, !.rows = <<>>,
                             !.wrote = {}, !.chunks = Tail(@)]
           a == [next EXCEPT !.pc = "body"]
<1>1. DOMAIN next = JobFields /\ next.status = 0 /\ next.rows = <<>>
    BY DEF Open, JobFields
<1>2. a.status = next.status /\ a.op = next.op /\ a.rows = next.rows  BY <1>1 DEF JobFields
<1>3. Completed(j) = a \/ Completed(j) = Answered(next, 200)  BY DEF Completed
<1> HIDE DEF next, a
<1>4. Open(next)
    <2>1. DOMAIN <<>> = {}  OBVIOUS
    <2> QED  BY <1>1, <2>1 DEF Open, RowsReady
<1> QED  BY <1>2, <1>3, <1>4, PlainAnswered, PlainMoved

LEMMA PlainAfterGroups ==
    ASSUME NEW j, Open(j)
    PROVE  Plain(AfterGroups(j))
<1> DEFINE a == [j EXCEPT !.pc = "save"]
<1>1. a.status = j.status /\ a.op = j.op /\ a.rows = j.rows  BY DEF Open, JobFields
<1>2. AfterGroups(j) = a \/ AfterGroups(j) = Completed(j)  BY DEF AfterGroups
<1> HIDE DEF a
<1> QED  BY <1>1, <1>2, PlainCompleted, PlainMoved

LEMMA PlainToOwners ==
    ASSUME NEW j, Open(j)
    PROVE  Plain(ToOwners(j))
<1> DEFINE a == ToOwners(j)
<1>1. a.status = j.status /\ a.op = j.op /\ a.rows = j.rows
    BY DEF ToOwners, Open, JobFields
<1> HIDE DEF a
<1> QED  BY <1>1, PlainMoved DEF a

LEMMA PlainNextOwner ==
    ASSUME NEW j, Open(j), NEW status
    PROVE  Plain(NextOwner(j, status))
<1> DEFINE a == [j EXCEPT !.pc = "send", !.peers = Tail(@), !.child = <<>>]
           b == [j EXCEPT !.child = <<>>]
<1>1. /\ a.status = j.status /\ a.op = j.op /\ a.rows = j.rows
      /\ b.status = j.status /\ b.op = j.op /\ b.rows = j.rows /\ DOMAIN b = JobFields
    BY DEF Open, JobFields
<1>2. NextOwner(j, status) = a \/ NextOwner(j, status) = Failed(b, status)  BY DEF NextOwner
<1> HIDE DEF a, b
<1>3. Open(b)  BY <1>1, OpenMoved
<1> QED  BY <1>1, <1>2, <1>3, PlainFailed, PlainMoved

LEMMA PlainFound ==
    ASSUME NEW k, NEW j, Open(j)
    PROVE  Plain(Found(k, j))
<1> DEFINE a == [j EXCEPT !.pc = "read"]
<1>1. a.status = j.status /\ a.op = j.op /\ a.rows = j.rows  BY DEF Open, JobFields
<1>2. Found(k, j) \in {Answered(j, 200), Answered(j, 404), a}  BY DEF Found
<1> HIDE DEF a
<1> QED  BY <1>1, <1>2, PlainAnswered, PlainMoved

LEMMA PlainAfterSave ==
    ASSUME NEW k, NEW j, Open(j), j.op \notin ScopeOps
    PROVE  Plain(AfterSave(k, j))
<1> DEFINE olds == IF j.form = "single" \/ (j.form = "file" /\ j.op = "replace")
                   THEN j.olds \cup Superseded(j) ELSE j.olds
           a == [j EXCEPT !.pc = "unlink", !.olds = olds]
<1>1. AfterSave(k, j) \in {Answered(j, j.fail), a, Completed(j)}  BY DEF AfterSave
<1> HIDE DEF olds
<1>2. a.status = j.status /\ a.op = j.op /\ a.rows = j.rows  BY DEF Open, JobFields
<1> HIDE DEF a
<1> QED  BY <1>1, <1>2, PlainAnswered, PlainCompleted, PlainMoved

\* What a local group writes is there afterwards.
LEMMA LocalWriteHolds ==
    ASSUME NEW k, k[1] \in Requests, scenario \in Scenarios, NEW j, DataOk(k, j), HasChunks(j),
           RowsReady(j), j.op # "remove", NEW s, EntryTyped(s), EntryHolds(j.at, s)
    PROVE  EntryHolds(j.at, LocalWrite(k[1], j, s))
<1> DEFINE t == Targets(j, s)
           w == LocalWrite(k[1], j, s)
<1>1. CASE t = {}  BY <1>1 DEF LocalWrite
<1>2. CASE t # {}
    <2>1. /\ w.rows = [id \in Ids |-> IF id \in t THEN NewRow(k[1], j, id) ELSE s.rows[id]]
          /\ w.ops = s.ops \cup {<<k[1], id>> : id \in t}
        BY <1>2 DEF LocalWrite
    <2>2. k[1] \in Nat
        <3>1. scenario.requests \in Seq(ObjectRequest \cup ScopeRequest)  BY RequestsAssumption
        <3> QED  BY <3>1 DEF Requests
    <2>3. t \subseteq Ids /\ (j.op = "patch" => t = DOMAIN j.rows)
          /\ (j.op \notin {"patch", "remove"} => t = LocalIds(j))
        BY TargetsFacts
    <2>4. ASSUME NEW id \in t PROVE Present(NewRow(k[1], j, id))
        <3>1. CASE j.op = "patch"  BY <2>3, <3>1 DEF NewRow, RowsReady
        <3>2. CASE j.op # "patch"
            <4> DEFINE row == NewRow(k[1], j, id)
            <4>1. row = [x |-> k[1], y |-> k[1], file |-> NewFile(k[1], j, id)]
                BY <3>2 DEF NewRow
            <4>2. row.x # -1  BY <2>2, <4>1
            <4> HIDE DEF row
            <4> QED  BY <4>2 DEF Present, NoRow, row
        <3> QED  BY <3>1, <3>2
    <2> HIDE DEF t, w
    <2> SUFFICES ASSUME NEW o \in w.ops, Req(o[1]).op = "create"
                 PROVE  o[2] \in Ids /\ Local(j.at, o[2]) /\ Present(w.rows[o[2]])
        BY DEF EntryHolds, w
    <2>5. CASE o \in s.ops
        <3>1. o[2] \in Ids /\ Local(j.at, o[2]) /\ Present(s.rows[o[2]])
            BY <2>5 DEF EntryHolds
        <3> QED  BY <2>1, <2>4, <3>1
    <2>6. CASE \E id \in t : o = <<k[1], id>>
        <3>1. PICK id \in t : o = <<k[1], id>>  BY <2>6
        <3>2. o[1] = k[1] /\ o[2] = id  BY <3>1
        <3>3. j.op = "create"  BY <3>2 DEF DataOk
        <3>4. id \in LocalIds(j)  BY <2>3, <3>3
        <3>5. Local(j.at, id)  BY <3>4 DEF LocalIds
        <3> QED  BY <2>1, <2>3, <2>4, <3>2, <3>5
    <2> QED  BY <2>1, <2>5, <2>6
<1> QED  BY <1>1, <1>2

LEMMA PlainAfterLocalWrite ==
    ASSUME NEW r, NEW j, Open(j), NEW s
    PROVE  Open(AfterLocalWrite(r, j, s))
<1> DEFINE w == AfterLocalWrite(r, j, s)
<1>1. DOMAIN w = JobFields /\ w.op = j.op /\ w.rows = j.rows /\ w.status = j.status
    BY DEF AfterLocalWrite, Open, JobFields
<1> HIDE DEF w
<1> QED  BY <1>1, OpenMoved DEF w

\* The entries of the logs after a write, a save and a restart.
LEMMA EntriesWritten ==
    ASSUME LogsOk, NEW n \in Nodes, NEW s, Writes(n, s)
    PROVE  \A m \in Nodes : \A h \in DOMAIN log'[m] :
              \/ m = n /\ log'[m][h] = s
              \/ h \in DOMAIN log[m] /\ log'[m][h] = log[m][h]
<1>1. CASE s = Mem(n)  BY <1>1 DEF Writes
<1>2. CASE s # Mem(n)
    <2>1. log' = [log EXCEPT ![n] = Append(log[n], s)]  BY <1>2 DEF Writes
    <2>2. IsLog(log[n]) /\ DOMAIN log = Nodes  BY DEF LogsOk
    <2>3. /\ log'[n] = Append(log[n], s) /\ \A m \in Nodes \ {n} : log'[m] = log[m]
        BY <2>1, <2>2
    <2>4. PICK S : log[n] \in Seq(S)  BY <2>2 DEF IsLog
    <2> DEFINE l == log[n]
    <2>5. l \in Seq(S)  BY <2>4
    <2> HIDE DEF l
    <2>6. \A h \in DOMAIN Append(l, s) :
             \/ Append(l, s)[h] = s
             \/ h \in DOMAIN l /\ Append(l, s)[h] = l[h]
        <3>1. l \in Seq(S \cup {s})  BY <2>5
        <3> QED  BY <3>1
    <2> QED  BY <2>3, <2>6 DEF l
<1> QED  BY <1>1, <1>2

LEMMA EntriesSaved ==
    ASSUME LogsOk, NEW n \in Nodes, NEW i \in DOMAIN log[n],
           log' = [log EXCEPT ![n] = SubSeq(log[n], i, Len(log[n]))]
    PROVE  \A m \in Nodes : \A h \in DOMAIN log'[m] :
              \E g \in DOMAIN log[m] : log'[m][h] = log[m][g]
<1>1. IsLog(log[n]) /\ DOMAIN log = Nodes  BY DEF LogsOk
<1>2. /\ log'[n] = SubSeq(log[n], i, Len(log[n])) /\ \A m \in Nodes \ {n} : log'[m] = log[m]
    BY <1>1
<1>3. PICK S : log[n] \in Seq(S)  BY <1>1 DEF IsLog
<1> DEFINE l == log[n]
<1>4. l \in Seq(S) /\ i \in DOMAIN l  BY <1>3
<1> HIDE DEF l
<1>5. \A h \in DOMAIN SubSeq(l, i, Len(l)) :
         i + h - 1 \in DOMAIN l /\ SubSeq(l, i, Len(l))[h] = l[i + h - 1]
    BY <1>4
<1> QED  BY <1>2, <1>5 DEF l


\* The steps with a job of an object operation.
Quietly(k) == UNCHANGED log /\ \E a : Becomes(k, a) /\ Plain(a)
Runs(k) == \E g : Open(g) /\ DataOk(k, g) /\ HasChunks(g) /\ RunGroups(k, g)

LEMMA OpenJob ==
    ASSUME Inv, TypeInv, PlainInv, NEW k \in DOMAIN jobs, jobs[k].op \in ObjectOps,
           jobs[k].pc # "done"
    PROVE  Open(jobs[k]) /\ DataOk(k, jobs[k]) /\ HasChunks(jobs[k]) /\ jobs[k].op \notin ScopeOps
<1>1. DataOk(k, jobs[k]) /\ HasChunks(jobs[k])  BY TypedFacts, JobFacts DEF Placed
<1>2. Plain(jobs[k])  BY DEF PlainInv
<1> QED  BY <1>1, <1>2, OpsApart DEF Open, Plain, DataOk

LEMMA PlainQuiet ==
    ASSUME Inv, TypeInv, PlainInv, NEW k \in DOMAIN jobs, jobs[k].op \in ObjectOps,
           \/ Receive(k) \/ BeginRead(k) \/ BeginFile(k) \/ ReadBlob(k) \/ Unlink(k)
           \/ Refuse(k) \/ PutBlobFails(k) \/ SaveFails(k)
           \/ Unreachable(k) \/ TimesOut(k) \/ Disconnected(k)
    PROVE  Quietly(k)
<1> DEFINE i == jobs[k]
           j == [i EXCEPT !.groups = Head(i.chunks)]
           m == [i EXCEPT !.missed = TRUE]
           u == [Answered(i, 500) EXCEPT !.unsaved = TRUE]
<1>1. i.pc # "done" /\ UNCHANGED log
    BY DEF Receive, BeginRead, BeginFile, ReadBlob, Unlink, Refuse, PutBlobFails, SaveFails,
           Unreachable, TimesOut, Disconnected, At
<1>2. Open(i) /\ i.op \notin ScopeOps  BY <1>1, OpenJob
<1>3. Open(j)
    <2>1. DOMAIN j = JobFields /\ j.status = i.status /\ j.op = i.op /\ j.rows = i.rows
        BY <1>2 DEF Open, JobFields
    <2> HIDE DEF j
    <2> QED  BY <1>2, <2>1, OpenMoved
<1>4. Open(m)
    <2>1. DOMAIN m = JobFields /\ m.status = i.status /\ m.op = i.op /\ m.rows = i.rows
        BY <1>2 DEF Open, JobFields
    <2> HIDE DEF m
    <2> QED  BY <1>2, <2>1, OpenMoved
<1>5. CASE Receive(k)
    <2> DEFINE a == [i EXCEPT !.pc = "body", !.started = TRUE,
                              !.known = {id \in Ids : Acknowledged(id)}]
    <2>1. Becomes(k, a) \/ Becomes(k, Answered(i, 401))  BY <1>5 DEF Receive
    <2>2. a.status = i.status /\ a.op = i.op /\ a.rows = i.rows  BY <1>2 DEF Open, JobFields
    <2> HIDE DEF a, i
    <2> QED  BY <1>1, <1>2, <2>1, <2>2, PlainMoved, PlainAnswered DEF Quietly
<1>6. CASE BeginRead(k)
    <2> DEFINE f == [j EXCEPT !.before = Mem(j.at).rows[Object(j.chunks)].file]
    <2>1. \/ Becomes(k, ToOwners(j)) \/ Becomes(k, Found(k, f)) \/ Becomes(k, Answered(j, 404))
        BY <1>6 DEF BeginRead
    <2>2. DOMAIN f = JobFields /\ f.status = j.status /\ f.op = j.op /\ f.rows = j.rows
        BY <1>3 DEF Open, JobFields
    <2> HIDE DEF f, j, i
    <2>3. Open(f)  BY <1>3, <2>2, OpenMoved
    <2> QED  BY <1>1, <1>3, <2>1, <2>3, PlainToOwners, PlainFound, PlainAnswered DEF Quietly
<1>7. CASE BeginFile(k)
    <2> DEFINE f == [j EXCEPT !.pc = "put", !.before = Mem(j.at).rows[Object(j.chunks)].file]
    <2>1. \/ Becomes(k, ToOwners(j)) \/ Becomes(k, f) \/ Becomes(k, Answered(j, 409))
        BY <1>7 DEF BeginFile
    <2>2. f.status = j.status /\ f.op = j.op /\ f.rows = j.rows
        BY <1>3 DEF Open, JobFields
    <2> HIDE DEF f, j, i
    <2> QED  BY <1>1, <1>3, <2>1, <2>2, PlainToOwners, PlainMoved, PlainAnswered DEF Quietly
<1>8. CASE ReadBlob(k) \/ Refuse(k) \/ PutBlobFails(k)
    <2>1. \E status : Becomes(k, Answered(i, status))
        BY <1>8 DEF ReadBlob, Refuse, PutBlobFails
    <2> HIDE DEF i
    <2> QED  BY <1>1, <1>2, <2>1, PlainAnswered DEF Quietly
<1>9. CASE SaveFails(k)
    <2>1. Becomes(k, u)  BY <1>9 DEF SaveFails
    <2>2. u.pc = "done" /\ u.op = i.op /\ u.rows = i.rows
        BY <1>2 DEF Answered, Open, JobFields
    <2> HIDE DEF u
    <2>3. Plain(u)  BY <1>2, <2>2 DEF Open, Plain, RowsReady
    <2> QED  BY <1>1, <2>1, <2>3 DEF Quietly
<1>10. CASE Unlink(k)
    <2>1. Becomes(k, Completed(i))  BY <1>2, <1>10 DEF Unlink
    <2> HIDE DEF i
    <2> QED  BY <1>1, <1>2, <2>1, PlainCompleted DEF Quietly
<1>11. CASE Unreachable(k) \/ TimesOut(k) \/ Disconnected(k)
    <2>1. \E status : Becomes(k, NextOwner(m, status))
        BY <1>11 DEF Unreachable, TimesOut, Disconnected
    <2> HIDE DEF m, i
    <2> QED  BY <1>1, <1>4, <2>1, PlainNextOwner DEF Quietly
<1> QED  BY <1>5, <1>6, <1>7, <1>8, <1>9, <1>10, <1>11

LEMMA PreparedReady ==
    ASSUME NEW k, k[1] \in Requests, scenario \in Scenarios, NEW j, DataOk(k, j), HasChunks(j),
           EntryTyped(Mem(j.at)), j.op = "patch"
    PROVE  \A id \in DOMAIN Prepared(k[1], j) : Present(Prepared(k[1], j)[id])
<1> DEFINE there == {id \in LocalIds(j) : Present(Mem(j.at).rows[id])}
           p == Prepared(k[1], j)
<1>1. there \subseteq Ids  BY LocalIdsFacts
<1>2. k[1] \in Nat
    <2>1. scenario.requests \in Seq(ObjectRequest \cup ScopeRequest)  BY RequestsAssumption
    <2> QED  BY <2>1 DEF Requests
<1>3. p = [id \in there |-> Patched(Mem(j.at).rows[id], k[1])]  BY DEF Prepared, CompileFrom
<1> HIDE DEF p, there
<1>4. ASSUME NEW id \in there PROVE Present(Patched(Mem(j.at).rows[id], k[1]))
    <2> DEFINE row == Mem(j.at).rows[id]
    <2>1. row \in Row  BY <1>1 DEF EntryTyped
    <2> HIDE DEF row
    <2>2. Patched(row, k[1]).x = k[1]  BY <2>1 DEF Patched, Row
    <2>3. Patched(row, k[1]) # NoRow  BY <1>2, <2>2 DEF NoRow
    <2> QED  BY <2>3 DEF row, Present
<1> QED  BY <1>3, <1>4 DEF p

LEMMA PlainRuns ==
    ASSUME Inv, TypeInv, PlainInv, NEW k \in DOMAIN jobs, jobs[k].op \in ObjectOps,
           BeginObjects(k) \/ PutBlob(k) \/ Return(k)
    PROVE  Quietly(k) \/ Runs(k)
<1> DEFINE i == jobs[k]
<1>1. i.pc # "done"  BY DEF BeginObjects, PutBlob, Return, At
<1>2. Open(i) /\ DataOk(k, i) /\ HasChunks(i)  BY <1>1, OpenJob
<1>3. CASE PutBlob(k)
    <2>1. RunGroups(k, i)  BY <1>3 DEF PutBlob
    <2> HIDE DEF i
    <2> QED  BY <1>2, <2>1 DEF Runs
<1>4. CASE BeginObjects(k)
    <2> DEFINE j == [i EXCEPT !.groups = Head(i.chunks)]
               p == [j EXCEPT !.rows = Prepared(k[1], j)]
    <2>1. \/ Becomes(k, Answered(j, 404)) /\ UNCHANGED log
          \/ RunGroups(k, p)
        BY <1>4 DEF BeginObjects
    <2>2. i.pc = "body"  BY <1>4 DEF BeginObjects, At
    <2>3. DataOk(k, j) /\ HasChunks(j)  BY <2>2, ChunkTyped
    <2>4. k[1] \in Requests /\ EntryTyped(Mem(i.at)) /\ scenario \in Scenarios  BY TypedFacts
    <2>5. /\ DOMAIN j = JobFields /\ j.status = i.status /\ j.op = i.op /\ j.rows = i.rows
          /\ j.at = i.at
          /\ DOMAIN p = JobFields /\ p.status = i.status /\ p.op = i.op /\ p.form = i.form
          /\ p.at = i.at /\ p.rows = Prepared(k[1], j) /\ p.olds = i.olds
          /\ p.before = i.before /\ p.wrote = i.wrote /\ p.did = i.did /\ p.part = i.part
          /\ p.count = i.count /\ p.chunks = i.chunks
        BY <1>2 DEF Open, JobFields
    <2> HIDE DEF p, j
    <2>6. Open(j)  BY <1>2, <2>5, OpenMoved
    <2>7. Plain(Answered(j, 404))  BY <2>6, PlainAnswered
    <2> DEFINE rows == Prepared(k[1], j)
    <2>8. DOMAIN rows \subseteq Ids /\ \A id \in DOMAIN rows : rows[id] \in Row
        BY <2>3, <2>4, <2>5, PreparedTyped
    <2>9. j.op = "patch" => \A id \in DOMAIN rows : Present(rows[id])
        BY <2>3, <2>4, <2>5, PreparedReady
    <2>10. p.rows = rows  BY <2>5
    <2> HIDE DEF rows
    <2>11. Open(p)  BY <1>2, <2>5, <2>9, <2>10 DEF Open, RowsReady
    <2>12. DataOk(k, p) /\ HasChunks(p)
        BY <1>2, <2>5, <2>8, <2>10 DEF DataOk, HasChunks
    <2> QED  BY <2>1, <2>7, <2>11, <2>12 DEF Quietly, Runs
<1>5. CASE Return(k)
    <2> DEFINE c == jobs[i.child]
               j == [i EXCEPT !.child = <<>>]
               m == [j EXCEPT !.missed = @ \/ c.status # 404]
               e == [j EXCEPT !.started = StartedMarker(j, c.started)]
               f == [j EXCEPT !.before = c.before]
               g == [j EXCEPT !.part = @ + c.count, !.groups = Tail(@)]
    <2>1. \/ Becomes(k, NextOwner(m, c.status)) /\ log' = log
          \/ Becomes(k, Failed(e, c.status)) /\ log' = log
          \/ Becomes(k, Found(k, f)) /\ log' = log
          \/ RunGroups(k, g)
        BY <1>5 DEF Return
    <2>2. /\ DOMAIN m = JobFields /\ m.status = i.status /\ m.op = i.op /\ m.rows = i.rows
          /\ DOMAIN e = JobFields /\ e.status = i.status /\ e.op = i.op /\ e.rows = i.rows
          /\ DOMAIN f = JobFields /\ f.status = i.status /\ f.op = i.op /\ f.rows = i.rows
        BY <1>2 DEF Open, JobFields
    <2>3. /\ DOMAIN g = JobFields /\ g.status = i.status /\ g.op = i.op /\ g.rows = i.rows
          /\ g.form = i.form /\ g.at = i.at /\ g.olds = i.olds /\ g.before = i.before
          /\ g.wrote = i.wrote /\ g.did = i.did /\ g.part = i.part + c.count
          /\ g.count = i.count /\ g.chunks = i.chunks
        BY <1>2 DEF Open, JobFields
    <2>4. c.count \in Nat
        <3>1. i.child \in DOMAIN jobs  BY <1>5 DEF Return, At
        <3> QED  BY <3>1, TypedFacts DEF DataOk
    <2> HIDE DEF m, e, f, g, j, c
    <2>5. Open(m) /\ Open(e) /\ Open(f) /\ Open(g)  BY <1>2, <2>2, <2>3, OpenMoved
    <2>6. g.part \in Nat  BY <1>2, <2>3, <2>4 DEF DataOk
    <2>7. DataOk(k, g) /\ HasChunks(g)  BY <1>2, <2>3, <2>6 DEF DataOk, HasChunks
    <2>8. Plain(NextOwner(m, c.status)) /\ Plain(Failed(e, c.status)) /\ Plain(Found(k, f))
        BY <2>5, PlainNextOwner, PlainFailed, PlainFound
    <2> QED  BY <2>1, <2>5, <2>7, <2>8 DEF Quietly, Runs
<1> QED  BY <1>3, <1>4, <1>5


LEMMA PlainRunGroups ==
    ASSUME NEW k, NEW g, Open(g), RunGroups(k, g)
    PROVE  \E a : Becomes(k, a) /\ Plain(a)
<1> DEFINE w == AfterLocalWrite(k[1], g, Mem(g.at))
           error == LocalError(g, Mem(g.at))
<1>1. \/ Becomes(k, Failed(g, error)) \/ Becomes(k, AfterGroups(w)) \/ Becomes(k, ToOwners(w))
      \/ Becomes(k, AfterGroups(g)) \/ Becomes(k, ToOwners(g))
    BY DEF RunGroups
<1>2. Open(w)  BY PlainAfterLocalWrite
<1> HIDE DEF w, error
<1> QED  BY <1>1, <1>2, PlainFailed, PlainAfterGroups, PlainToOwners

\* Every job of the request of k is plain after the step.
PlainStep(k) == \A q \in DOMAIN jobs' : q[1] = k[1] => Plain(jobs'[q])

LEMMA PlainMoves ==
    ASSUME Inv, PlainInv, NEW k \in DOMAIN jobs, jobs[k].op \in ObjectOps,
           NEW a, Becomes(k, a), Plain(a)
    PROVE  PlainStep(k)
<1> SUFFICES ASSUME NEW q \in DOMAIN jobs', q[1] = k[1] PROVE Plain(jobs'[q])
    BY DEF PlainStep
<1>1. q \in DOMAIN jobs /\ jobs'[q] = IF q = k THEN a ELSE jobs[q]  BY BecomesFacts
<1>2. jobs[q].op \in ObjectOps  BY <1>1, JobFacts
<1> QED  BY <1>1, <1>2 DEF PlainInv

LEMMA PlainSends ==
    ASSUME Inv, TypeInv, PlainInv, NEW k \in DOMAIN jobs, jobs[k].op \in ObjectOps, Send(k)
    PROVE  PlainStep(k)
<1> DEFINE j == jobs[k]
           c == ChildKey(k, Head(j.peers))
           a == [j EXCEPT !.pc = "wait", !.child = c]
           e == NewJob(k[1], Head(j.peers), << <<Head(j.groups)>> >>)
<1>1. /\ j.pc = "send"
      /\ jobs' = [q \in DOMAIN jobs \cup {c} |-> IF q = k THEN a ELSE IF q = c THEN e ELSE jobs[q]]
    BY DEF Send, At
<1>2. Open(j)  BY <1>1, OpenJob
<1>3. Plain(a)
    <2>1. a.status = j.status /\ a.op = j.op /\ a.rows = j.rows  BY <1>2 DEF Open, JobFields
    <2> HIDE DEF a
    <2> QED  BY <1>2, <2>1, PlainMoved
<1>4. Plain(e)
    <2>1. e.status = 0 /\ e.rows = <<>>  BY DEF NewJob
    <2>2. DOMAIN <<>> = {}  OBVIOUS
    <2> HIDE DEF e
    <2> QED  BY <2>1, <2>2 DEF Plain, RowsReady
<1> HIDE DEF a, c, e
<1> SUFFICES ASSUME NEW q \in DOMAIN jobs', q[1] = k[1] PROVE Plain(jobs'[q])
    BY DEF PlainStep
<1>5. CASE q = k  BY <1>1, <1>3, <1>5
<1>6. CASE q # k /\ q = c  BY <1>1, <1>4, <1>6
<1>7. CASE q # k /\ q # c
    <2>1. q \in DOMAIN jobs /\ jobs'[q] = jobs[q]  BY <1>1, <1>7
    <2>2. jobs[q].op \in ObjectOps  BY <2>1, JobFacts
    <2> QED  BY <2>1, <2>2 DEF PlainInv
<1> QED  BY <1>5, <1>6, <1>7

LEMMA PlainSteps ==
    ASSUME Inv, TypeInv, PlainInv, NEW k \in DOMAIN jobs, jobs[k].op \in ObjectOps,
           Step(k) \/ Failure(k)
    PROVE  PlainStep(k)
<1>1. jobs[k].op \notin ScopeOps  BY OpsApart
<1>2. ~BeginDrop(k) /\ ~BeginCreate(k)
    BY <1>1 DEF BeginDrop, BeginCreate, ScopeOps
<1>3. ~FanOut(k) /\ ~FanReturn(k) /\ ~FanDone(k)
    <2>1. jobs[k].pc \notin {"fan", "fanned"}  BY <1>1, JobFacts DEF Placed
    <2> QED  BY <2>1 DEF FanOut, FanReturn, FanDone, At
<1>4. CASE Quietly(k)  BY <1>4, PlainMoves DEF Quietly
<1>5. CASE Runs(k)  BY <1>5, PlainRunGroups, PlainMoves DEF Runs
<1>6. CASE Save(k)
    <2>1. Becomes(k, AfterSave(k, jobs[k])) /\ jobs[k].pc # "done"  BY <1>6 DEF Save, At
    <2>2. Plain(AfterSave(k, jobs[k]))  BY <2>1, OpenJob, PlainAfterSave
    <2> QED  BY <2>1, <2>2, PlainMoves
<1>7. \/ Quietly(k) \/ Runs(k) \/ Save(k) \/ Send(k)
    BY <1>2, <1>3, PlainQuiet, PlainRuns DEF Step, Failure
<1> QED  BY <1>4, <1>5, <1>6, <1>7, PlainSends

LEMMA StepPlain ==
    ASSUME Inv, Inv', TypeInv, PlainInv, NEW k \in DOMAIN jobs, Step(k) \/ Failure(k)
    PROVE  PlainInv'
<1>1. OthersStay(k) /\ scenario' = scenario  BY OwnSteps DEF OwnStep
<1> SUFFICES ASSUME NEW q \in DOMAIN jobs', jobs'[q].op \in ObjectOps PROVE Plain(jobs'[q])
    BY DEF PlainInv
<1>2. CASE q[1] # k[1]
    <2>1. q \in DOMAIN jobs /\ jobs'[q] = jobs[q]  BY <1>1, <1>2 DEF OthersStay
    <2> QED  BY <2>1 DEF PlainInv
<1>3. CASE q[1] = k[1]
    <2>1. jobs'[q].op = Req(q[1])'.op  BY DEF Inv, JobsOk
    <2>2. jobs[k].op \in ObjectOps  BY <1>1, <1>3, <2>1, JobFacts DEF Req
    <2> QED  BY <1>3, <2>2, PlainSteps DEF PlainStep
<1> QED  BY <1>2, <1>3

LEMMA RestartPlain ==
    ASSUME Inv, TypeInv, PlainInv, NEW n \in Nodes, Restart(n)
    PROVE  PlainInv'
<1> DEFINE stopped(j) == [j EXCEPT !.pc = "done", !.status = 0, !.child = <<>>, !.fan = <<>>]
<1>1. \A q \in DOMAIN jobs' : /\ q \in DOMAIN jobs
                              /\ jobs'[q] \in {jobs[q], stopped(jobs[q])}
    BY DEF Restart
<1> SUFFICES ASSUME NEW q \in DOMAIN jobs', jobs'[q].op \in ObjectOps PROVE Plain(jobs'[q])
    BY DEF PlainInv
<1>2. CASE jobs'[q] = jobs[q]  BY <1>1, <1>2 DEF PlainInv
<1>3. CASE jobs'[q] = stopped(jobs[q])
    <2> DEFINE j == jobs[q]
               a == stopped(j)
    <2>1. DOMAIN j = JobFields  BY <1>1, JobFacts DEF Carries
    <2>2. a.pc = "done" /\ a.op = j.op /\ a.rows = j.rows  BY <2>1 DEF JobFields
    <2>3. j.op \in ObjectOps => Plain(j)  BY <1>1 DEF PlainInv
    <2> HIDE DEF a, j
    <2>4. j.op \in ObjectOps => Plain(a)  BY <2>2, <2>3 DEF Plain, RowsReady
    <2> QED  BY <1>3, <2>2, <2>4 DEF a, j
<1> HIDE DEF stopped
<1> QED  BY <1>1, <1>2, <1>3


----------------------------------------------------------------------------
\* What is held: entries of the logs.

LEMMA HoldsFrom ==
    ASSUME scenario' = scenario,
           \A m \in Nodes : \A h \in DOMAIN log'[m] : EntryHolds(m, log'[m][h])
    PROVE  LogHolds'
<1>1. \A m, e : EntryHolds(m, e)' <=> EntryHolds(m, e)  BY DEF EntryHolds, Req
<1> QED  BY <1>1 DEF LogHolds

LEMMA HoldsWritten ==
    ASSUME Inv, LogHolds, scenario' = scenario, NEW n \in Nodes, NEW s, EntryHolds(n, s),
           Writes(n, s)
    PROVE  LogHolds'
<1>1. \A m \in Nodes : \A h \in DOMAIN log'[m] :
         \/ m = n /\ log'[m][h] = s
         \/ h \in DOMAIN log[m] /\ log'[m][h] = log[m][h]
    BY EntriesWritten DEF Inv
<1>2. \A m \in Nodes : \A h \in DOMAIN log'[m] : EntryHolds(m, log'[m][h])
    BY <1>1 DEF LogHolds
<1> QED  BY <1>2, HoldsFrom

LEMMA MemHolds ==
    ASSUME Inv, LogHolds, NEW n \in Nodes
    PROVE  EntryHolds(n, Mem(n)) /\ Durable(n).ops \subseteq Mem(n).ops
<1>1. IsLog(log[n])  BY DEF Inv, LogsOk
<1>2. /\ Last(log[n]) = log[n][Len(log[n])] /\ Len(log[n]) \in 1..Len(log[n])
      /\ DOMAIN log[n] = 1..Len(log[n]) /\ Head(log[n]).ops \subseteq Last(log[n]).ops
    BY <1>1, LogEnds DEF IsLog
<1> QED  BY <1>2 DEF LogHolds, Mem, Durable

LEMMA RunsHold ==
    ASSUME Inv, TypeInv, LogHolds, NothingRemoved, scenario' = scenario,
           NEW k \in DOMAIN jobs, Runs(k)
    PROVE  LogHolds'
<1>1. PICK g : Open(g) /\ DataOk(k, g) /\ HasChunks(g) /\ RunGroups(k, g)  BY DEF Runs
<1> DEFINE s == Mem(g.at)
           w == LocalWrite(k[1], g, s)
<1>2. g.at \in Nodes /\ g.op = Req(k[1]).op  BY <1>1 DEF DataOk
<1>3. k[1] \in Requests /\ scenario \in Scenarios  BY TypedFacts
<1>4. g.op # "remove"  BY <1>2, <1>3 DEF NothingRemoved
<1>5. EntryTyped(s) /\ EntryHolds(g.at, s)  BY <1>2, LogTypedFacts, MemHolds
<1>6. UNCHANGED log \/ Writes(g.at, w)  BY <1>1 DEF RunGroups
<1> HIDE DEF s
<1>7. EntryHolds(g.at, w)  BY <1>1, <1>3, <1>4, <1>5, LocalWriteHolds DEF Open
<1> HIDE DEF w
<1>8. CASE UNCHANGED log
    <2>1. \A m \in Nodes : \A h \in DOMAIN log'[m] : EntryHolds(m, log'[m][h])
        BY <1>8 DEF LogHolds
    <2> QED  BY <2>1, HoldsFrom
<1> QED  BY <1>2, <1>6, <1>7, <1>8, HoldsWritten

LEMMA CreatesHold ==
    ASSUME Inv, TypeInv, LogHolds, NEW k \in DOMAIN jobs, BeginCreate(k)
    PROVE  LogHolds'
<1> DEFINE j == jobs[k]
           s == Mem(j.at)
           scope == ScopeOf(j.op)
           b == [s EXCEPT !.gone = @ \ {"coll"}]
           c == Created(s, scope)
           w == [c EXCEPT !.ops = @ \cup {<<k[1], scope>>}]
<1>1. /\ j.op \in {"createDb", "createColl"} /\ scenario' = scenario
      /\ Writes(j.at, b) \/ Writes(j.at, w)
    BY DEF BeginCreate
<1>2. j.at \in Nodes /\ j.op = Req(k[1]).op  BY JobFacts
<1>3. EntryHolds(j.at, s) /\ DOMAIN s = StateFields  BY <1>2, MemHolds, LogTypedFacts
<1> HIDE DEF s
<1>4. b.ops = s.ops /\ b.rows = s.rows  BY <1>3 DEF StateFields
<1>5. DOMAIN c = StateFields /\ c.ops = s.ops /\ c.rows = s.rows
    BY <1>3 DEF Created, StateFields
<1> HIDE DEF b, c
<1>6. w.ops = s.ops \cup {<<k[1], scope>>} /\ w.rows = s.rows  BY <1>5 DEF StateFields
<1> HIDE DEF w, scope
<1>7. EntryHolds(j.at, b)  BY <1>3, <1>4 DEF EntryHolds
<1>8. EntryHolds(j.at, w)
    <2> SUFFICES ASSUME NEW o \in w.ops, Req(o[1]).op = "create"
                 PROVE  o[2] \in Ids /\ Local(j.at, o[2]) /\ Present(w.rows[o[2]])
        BY DEF EntryHolds
    <2>1. o # <<k[1], scope>>  BY <1>1, <1>2
    <2> QED  BY <1>3, <1>6, <2>1 DEF EntryHolds
<1> HIDE DEF j
<1> QED  BY <1>1, <1>2, <1>7, <1>8, HoldsWritten

LEMMA StepHolds ==
    ASSUME Inv, TypeInv, PlainInv, LogHolds, NothingRemoved,
           NEW k \in DOMAIN jobs, Step(k) \/ Failure(k)
    PROVE  LogHolds'
<1>1. scenario' = scenario  BY OwnSteps DEF OwnStep
<1>2. CASE UNCHANGED log
    <2>1. \A m \in Nodes : \A h \in DOMAIN log'[m] : EntryHolds(m, log'[m][h])
        BY <1>2 DEF LogHolds
    <2> QED  BY <1>1, <2>1, HoldsFrom
<1>3. CASE BeginObjects(k) \/ PutBlob(k) \/ Return(k)
    <2>1. jobs[k].op \in ObjectOps
        <3>1. BeginObjects(k) \/ jobs[k].pc \in {"put", "wait"}
            BY <1>3 DEF PutBlob, Return, At
        <3> QED  BY <3>1, JobFacts DEF BeginObjects, Placed
    <2>2. Quietly(k) \/ Runs(k)  BY <1>3, <2>1, PlainRuns
    <2> QED  BY <1>1, <1>2, <2>2, RunsHold DEF Quietly
<1>4. CASE Save(k)
    <2> DEFINE n == jobs[k].at
    <2>1. n \in Nodes  BY JobFacts
    <2>2. PICK i \in DOMAIN log[n] : log' = [log EXCEPT ![n] = SubSeq(log[n], i, Len(log[n]))]
        BY <1>4 DEF Save
    <2>3. PICK m : m = n  OBVIOUS
    <2> HIDE DEF n
    <2>4. \A q \in Nodes : \A h \in DOMAIN log'[q] :
              \E g \in DOMAIN log[q] : log'[q][h] = log[q][g]
        BY <2>1, <2>2, EntriesSaved DEF Inv
    <2>5. \A q \in Nodes : \A h \in DOMAIN log'[q] : EntryHolds(q, log'[q][h])
        BY <2>4 DEF LogHolds
    <2> QED  BY <1>1, <2>5, HoldsFrom
<1>5. ~BeginDrop(k)
    <2>1. jobs[k].op \notin {"dropDb", "dropColl"}  BY JobFacts DEF NothingRemoved
    <2> QED  BY <2>1 DEF BeginDrop
<1>6. \/ UNCHANGED log \/ BeginObjects(k) \/ PutBlob(k) \/ Return(k) \/ Save(k)
      \/ BeginCreate(k)
    BY <1>5 DEF Step, Failure, Receive, BeginRead, BeginFile, ReadBlob, Unlink, Send,
                Disconnected, FanOut, FanReturn, FanDone, Refuse, PutBlobFails, SaveFails,
                Unreachable, TimesOut
<1> QED  BY <1>2, <1>3, <1>4, <1>6, CreatesHold

LEMMA RestartHolds ==
    ASSUME Inv, LogHolds, NEW n \in Nodes, Restart(n)
    PROVE  LogHolds'
<1>1. scenario' = scenario /\ log' = [log EXCEPT ![n] = <<Head(log[n])>>]
    BY DEF Restart, Durable
<1>2. DOMAIN log = Nodes /\ IsLog(log[n])  BY DEF Inv, LogsOk
<1>3. log'[n] = <<Head(log[n])>> /\ \A m \in Nodes \ {n} : log'[m] = log[m]
    BY <1>1, <1>2
<1>4. Head(log[n]) = log[n][1] /\ 1 \in DOMAIN log[n]  BY <1>2, LogEnds DEF IsLog
<1>5. \A h \in DOMAIN log'[n] : log'[n][h] = log[n][1]  BY <1>3, <1>4
<1>6. \A m \in Nodes : \A h \in DOMAIN log'[m] : EntryHolds(m, log'[m][h])
    BY <1>3, <1>4, <1>5 DEF LogHolds
<1> QED  BY <1>1, <1>6, HoldsFrom

LEMMA InitHolds == Init => LogHolds /\ PlainInv
<1> SUFFICES ASSUME Init PROVE LogHolds /\ PlainInv  OBVIOUS
<1>1. LogHolds
    <2>1. \A n \in Nodes : \A i \in DOMAIN log[n] : log[n][i].ops = {}  BY DEF Init
    <2> QED  BY <2>1 DEF LogHolds, EntryHolds
<1>2. ASSUME NEW k \in DOMAIN jobs PROVE Plain(jobs[k])
    <2>1. jobs[k] = NewJob(k[1], Req(k[1]).at, Req(k[1]).chunks)  BY DEF Init
    <2> DEFINE j == jobs[k]
    <2>2. j.status = 0 /\ j.rows = <<>>  BY <2>1 DEF NewJob
    <2>3. DOMAIN <<>> = {}  OBVIOUS
    <2> HIDE DEF j
    <2> QED  BY <2>2, <2>3 DEF Plain, RowsReady, j
<1> QED  BY <1>1, <1>2 DEF PlainInv


----------------------------------------------------------------------------
\* A lookup.  A node holds an object when it has saved the mark of its creation; as long as
\* some node holds the object that is looked for, the job has not found it missing, and
\* one of the owners it still asks holds it and has not denied it.

Holders(id) ==
    {n \in Nodes : \E r \in Requests : Req(r).op = "create" /\ <<r, id>> \in Saved(n)}

Aim(k) == Object(Req(k[1]).chunks)

Seeking(k, j, H) ==
    /\ j.at = IF IsForwarded(k) THEN k[2] ELSE Req(k[1]).at
    /\ j.pc # "done" => j.chunks = Req(k[1]).chunks
    /\ Aim(k) \in j.known => H # {}

Seeks(k, j, H) ==
    /\ Seeking(k, j, H)
    /\ j.pc \in {"new", "body", "send", "wait", "done"}
    /\ j.pc = "wait" => ~IsForwarded(k) /\ j.child[1] = k[1] /\ j.child[2] = Head(j.peers)

\* What FoundUnlessUnanswered speaks of.
Wanted(k, j) ==
    /\ ~IsForwarded(k) /\ ~j.missed /\ Aim(k) \in j.known
    /\ Local(j.at, Aim(k)) => Len(Owners[ShardOf[Aim(k)]]) = 1

Ahead(j, js, H) ==
    \E n \in H \cap Range(j.peers) :
        j.pc = "wait" /\ n = Head(j.peers) /\ j.child \in DOMAIN js
        => js[j.child].status # 404

Look(k, js, H) ==
    /\ Seeks(k, js[k], H)
    /\ Wanted(k, js[k]) =>
          /\ js[k].status # 404
          /\ js[k].pc \in {"send", "wait"} => Ahead(js[k], js, H)

LookInv == \A k \in DOMAIN jobs : jobs[k].op = "get" => Look(k, jobs, Holders(Aim(k)))

\* A job after a step that does not wait for an answer.
Fits(k, a, H) ==
    /\ Seeks(k, a, H) /\ a.pc # "wait"
    /\ k[2] \in H => a.status # 404
    /\ Wanted(k, a) => a.status # 404 /\ (a.pc = "send" => H \cap Range(a.peers) # {})

LEMMA HoldersHave ==
    ASSUME Inv, LogHolds, NEW id, NEW n \in Holders(id)
    PROVE  n \in Nodes /\ id \in Ids /\ Local(n, id) /\ Present(Mem(n).rows[id])
<1>1. PICK r \in Requests : Req(r).op = "create" /\ <<r, id>> \in Durable(n).ops
    BY DEF Holders, Saved
<1>2. n \in Nodes  BY DEF Holders
<1>3. <<r, id>> \in Mem(n).ops /\ EntryHolds(n, Mem(n))  BY <1>1, <1>2, MemHolds
<1> QED  BY <1>1, <1>2, <1>3 DEF EntryHolds

LEMMA HoldersStay ==
    ASSUME SavedStays, scenario' = scenario
    PROVE  \A id : Holders(id) \subseteq Holders(id)'
BY DEF SavedStays, Holders, Requests, Req

LEMMA HoldersSame ==
    ASSUME Inv, UNCHANGED <<scenario, log>>
    PROVE  \A id : Holders(id)' = Holders(id)
<1>1. \A m \in Nodes : Saved(m)' = Saved(m)  BY SameLog DEF Inv
<1> QED  BY <1>1 DEF Holders, Requests, Req

\* An acknowledged creation is saved somewhere.
LEMMA AckHeld ==
    ASSUME Inv, TypeInv, WorkInv, PlainInv, NEW id, Acknowledged(id)
    PROVE  Holders(id) # {}
<1>1. PICK r \in Requests : /\ Req(r).op = "create" /\ id \in UNION Range(Head(Req(r).chunks))
                            /\ Ok(jobs[RootKey(r)].status)
    BY DEF Acknowledged
<1> DEFINE k == RootKey(r)
           j == jobs[k]
           q == Req(r).chunks
<1>2. k \in DOMAIN jobs /\ k[1] = r /\ ~IsForwarded(k)  BY RootKeys DEF Inv, KeysOk
<1>3. j.op = "create" /\ j.op \in ObjectOps /\ j.op \notin Reads
    BY <1>1, <1>2, JobFacts DEF ObjectOps, Reads
<1>4. Follows(k, j) /\ CountOk(k, j, Kept)  BY <1>2, <1>3, WorkFacts
<1>5. Plain(j)  BY <1>2, <1>3 DEF PlainInv
<1>6. j.pc = "done"  BY <1>1, <1>5, ZeroFails DEF Plain
<1>7. j.chunks = <<>>  BY <1>1, <1>3, <1>4, <1>6 DEF Follows
<1>8. id \in LeftIn(q)
    <2>1. q \in Seq(Chunk) /\ q # <<>>  BY <1>1, RequestFacts DEF Inv, ObjectOps
    <2> HIDE DEF q
    <2>2. Head(q) \in Range(q)  BY <2>1, TailFacts
    <2>3. id \in Left(Head(q))  BY <1>1 DEF Left, q
    <2> QED  BY <2>2, <2>3 DEF LeftIn
<1>9. Meant(k) = LeftIn(q)  BY <1>2 DEF Meant
<1>10. <<r, id>> \in Kept  BY <1>2, <1>3, <1>4, <1>7, <1>8, <1>9, NothingLeft DEF CountOk
<1> QED  BY <1>1, <1>10 DEF Kept, Holders

LEMMA GetJob ==
    ASSUME Inv, TypeInv, PlainInv, NEW k \in DOMAIN jobs, jobs[k].op = "get"
    PROVE  /\ k[1] \in Requests /\ Req(k[1]).op = "get" /\ jobs[k].op \in ObjectOps
           /\ jobs[k].op \in Reads /\ jobs[k].op \notin ScopeOps
           /\ Req(k[1]).chunks \in OneObject /\ jobs[k].wrote = {}
           /\ jobs[k].at \in Nodes
           /\ jobs[k].pc # "done" => Open(jobs[k])
<1>1. jobs[k].op \in ObjectOps /\ jobs[k].op \in Reads /\ jobs[k].op \notin ScopeOps
    BY DEF ObjectOps, Reads, ScopeOps
<1>2. k[1] \in Requests /\ Req(k[1]).op = "get" /\ jobs[k].at \in Nodes /\ jobs[k].did = {}
    BY <1>1, JobFacts DEF Carries
<1>3. jobs[k].wrote = {}  BY <1>2, TypedFacts DEF DataOk
<1>4. Req(k[1]).chunks \in OneObject
    BY <1>1, <1>2, RequestFacts DEF Inv
<1> QED  BY <1>1, <1>2, <1>3, <1>4, OpenJob

LEMMA FitsAnswered ==
    ASSUME NEW k, NEW j, Open(j), NEW H, Seeking(k, j, H), NEW status,
           status = 404 => ~Wanted(k, j) /\ k[2] \notin H
    PROVE  Fits(k, Answered(j, status), H)
<1> DEFINE a == Answered(j, status)
<1>1. /\ a.pc = "done" /\ a.status = status /\ a.at = j.at /\ a.known = j.known
      /\ a.missed = j.missed
    BY DEF Answered, Open, JobFields
<1> HIDE DEF a
<1>2. Wanted(k, a) <=> Wanted(k, j)  BY <1>1 DEF Wanted
<1>3. Seeks(k, a, H)  BY <1>1 DEF Seeks, Seeking
<1> QED  BY <1>1, <1>2, <1>3 DEF Fits, a

LEMMA FitsFound ==
    ASSUME NEW k, NEW j, Open(j), NEW H, Seeking(k, j, H)
    PROVE  Fits(k, Answered(j, 200), H)
<1>1. 200 # 404  OBVIOUS
<1> QED  BY <1>1, FitsAnswered

LEMMA FitsFailed ==
    ASSUME NEW k, NEW j, Open(j), j.wrote = {}, NEW H, Seeking(k, j, H), NEW status,
           status = 404 => ~Wanted(k, j) /\ k[2] \notin H
    PROVE  Fits(k, Failed(j, status), H)
<1>1. Failed(j, status) = Answered(j, status)  BY DEF Failed
<1> QED  BY <1>1, FitsAnswered

\* The next owner is asked.
LEMMA FitsNextOwner ==
    ASSUME NEW k, NEW j, Open(j), j.wrote = {}, NEW H, Seeking(k, j, H), j.pc # "done",
           k[2] \notin H, j.peers \in Seq(Nodes), j.peers # <<>>,
           Wanted(k, j) => H \cap Range(Tail(j.peers)) # {}, NEW status
    PROVE  Fits(k, NextOwner(j, status), H)
<1> DEFINE a == [j EXCEPT !.pc = "send", !.peers = Tail(@), !.child = <<>>]
           b == [j EXCEPT !.child = <<>>]
<1>1. /\ a.pc = "send" /\ a.peers = Tail(j.peers) /\ a.at = j.at /\ a.known = j.known
      /\ a.missed = j.missed /\ a.status = j.status /\ a.chunks = j.chunks
    BY DEF Open, JobFields
<1>2. /\ DOMAIN b = JobFields /\ b.pc = j.pc /\ b.peers = j.peers /\ b.at = j.at
      /\ b.known = j.known /\ b.missed = j.missed /\ b.status = j.status
      /\ b.chunks = j.chunks /\ b.op = j.op /\ b.rows = j.rows /\ b.wrote = j.wrote
      /\ b.child = <<>>
    BY DEF Open, JobFields
<1>3. CASE Len(j.peers) > 1
    <2>1. NextOwner(j, status) = a  BY <1>3 DEF NextOwner
    <2> HIDE DEF a
    <2>2. Wanted(k, a) <=> Wanted(k, j)  BY <1>1 DEF Wanted
    <2>3. Seeks(k, a, H)  BY <1>1 DEF Seeks, Seeking
    <2>4. a.status # 404  BY <1>1 DEF Open
    <2> QED  BY <1>1, <2>1, <2>2, <2>3, <2>4 DEF Fits
<1>4. CASE ~(Len(j.peers) > 1)
    <2>1. NextOwner(j, status) = Failed(b, status)  BY <1>4 DEF NextOwner
    <2>2. Tail(j.peers) = <<>>
        <3> DEFINE p == j.peers
        <3>1. p \in Seq(Nodes) /\ p # <<>> /\ ~(Len(p) > 1)  BY <1>4
        <3> HIDE DEF p
        <3>2. Len(p) \in Nat \ {0}  BY <3>1, EmptySeq
        <3>a. \A m \in Nat \ {0} : ~(m > 1) => m = 1  OBVIOUS
        <3>3. Len(p) = 1  BY <3>1, <3>2, <3>a
        <3>4. Tail(p) \in Seq(Nodes) /\ Len(Tail(p)) = 0  BY <3>1, <3>3, HeadTailProperties
        <3>5. Tail(p) = <<>>  BY <3>4, EmptySeq
        <3> QED  BY <3>5 DEF p
    <2>3. Range(<<>>) = {}  BY DEF Range
    <2>4. ~Wanted(k, j)  BY <2>2, <2>3
    <2> DEFINE c == Answered(b, status)
    <2> HIDE DEF b
    <2>5. Failed(b, status) = c  BY <1>2 DEF Failed
    <2>6. Open(b)  BY <1>2, OpenMoved
    <2>7. /\ c.pc = "done" /\ c.status = status /\ c.at = j.at /\ c.known = j.known
          /\ c.missed = j.missed
        BY <1>2, <2>6 DEF Answered, JobFields
    <2> HIDE DEF c
    <2>8. ~Wanted(k, c)  BY <2>4, <2>7 DEF Wanted
    <2>9. Seeks(k, c, H)  BY <2>7 DEF Seeks, Seeking
    <2> QED  BY <2>1, <2>5, <2>7, <2>8, <2>9 DEF Fits
<1> QED  BY <1>3, <1>4


\* Every job of the lookup of k, after a step that writes nothing.
LookStep(k) == \A q \in DOMAIN jobs' : q[1] = k[1] => Look(q, jobs', Holders(Aim(k)))

LEMMA LookKept ==
    ASSUME NEW q, NEW js, NEW more, NEW H, NEW G, Look(q, js, H), H \subseteq G,
           more[q] = js[q],
           js[q].pc = "wait" /\ Head(js[q].peers) \in H /\ js[q].child \in DOMAIN more
           /\ more[js[q].child].status = 404
           => js[q].child \in DOMAIN js /\ js[js[q].child].status = 404
    PROVE  Look(q, more, G)
<1> DEFINE j == js[q]
<1>1. Seeks(q, j, G)  BY DEF Look, Seeks, Seeking
<1>2. ASSUME Ahead(j, js, H) PROVE Ahead(j, more, G)
    <2>1. PICK n \in H \cap Range(j.peers) :
              j.pc = "wait" /\ n = Head(j.peers) /\ j.child \in DOMAIN js
              => js[j.child].status # 404
        BY <1>2 DEF Ahead
    <2>2. j.pc = "wait" /\ n = Head(j.peers) /\ j.child \in DOMAIN more
          => more[j.child].status # 404
        BY <2>1
    <2> QED  BY <2>1, <2>2 DEF Ahead
<1> QED  BY <1>1, <1>2 DEF Look

LEMMA LookMoves ==
    ASSUME Inv, LookInv, NEW k \in DOMAIN jobs, jobs[k].op = "get",
           NEW a, Becomes(k, a), Fits(k, a, Holders(Aim(k)))
    PROVE  LookStep(k)
<1> DEFINE H == Holders(Aim(k))
<1> SUFFICES ASSUME NEW q \in DOMAIN jobs', q[1] = k[1] PROVE Look(q, jobs', H)
    BY DEF LookStep
<1>1. q \in DOMAIN jobs /\ DOMAIN jobs' \subseteq DOMAIN jobs
      /\ \A p \in DOMAIN jobs' : jobs'[p] = IF p = k THEN a ELSE jobs[p]
    BY BecomesFacts
<1>2. Fits(k, a, H)  OBVIOUS
<1>3. Look(q, jobs, H)
    <2>1. jobs[q].op = "get"  BY <1>1, JobFacts
    <2>2. Aim(q) = Aim(k)  BY DEF Aim
    <2> QED  BY <1>1, <2>1, <2>2 DEF LookInv
<1> HIDE DEF H
<1>4. CASE q = k
    <2>1. jobs'[q] = a  BY <1>1, <1>4
    <2>2. Wanted(k, a) => a.status # 404 /\ (a.pc = "send" => H \cap Range(a.peers) # {})
        BY <1>2 DEF Fits
    <2>3. Seeks(k, a, H) /\ a.pc # "wait"  BY <1>2 DEF Fits
    <2>4. H \cap Range(a.peers) # {} => Ahead(a, jobs', H)  BY <2>3 DEF Ahead
    <2> QED  BY <1>4, <2>1, <2>2, <2>3, <2>4 DEF Look
<1>5. CASE q # k
    <2> DEFINE j == jobs[q]
               c == j.child
    <2>1. jobs'[q] = j  BY <1>1, <1>5
    <2>2. ASSUME j.pc = "wait", Head(j.peers) \in H, c \in DOMAIN jobs', jobs'[c].status = 404
          PROVE  c \in DOMAIN jobs /\ jobs[c].status = 404
        <3>1. c[2] \in H  BY <1>3, <2>2 DEF Look, Seeks, Seeking
        <3>2. c # k  BY <1>1, <1>2, <2>2, <3>1 DEF Fits
        <3> QED  BY <1>1, <2>2, <3>2
    <2> QED  BY <1>3, <2>1, <2>2, LookKept
<1> QED  BY <1>4, <1>5

LEMMA LookReceives ==
    ASSUME Inv, TypeInv, WorkInv, PlainInv, LogHolds, LookInv,
           NEW k \in DOMAIN jobs, jobs[k].op = "get", Receive(k)
    PROVE  LookStep(k)
<1> DEFINE H == Holders(Aim(k))
           j == jobs[k]
           known == {id \in Ids : Acknowledged(id)}
           a == [j EXCEPT !.pc = "body", !.started = TRUE, !.known = known]
<1>1. j.pc = "new" /\ (Becomes(k, a) \/ Becomes(k, Answered(j, 401)))  BY DEF Receive, At
<1>2. Open(j)  BY <1>1, GetJob
<1>3. Seeks(k, j, H)  BY DEF LookInv, Look
<1>4. Fits(k, Answered(j, 401), H)  BY <1>2, <1>3, FitsAnswered DEF Seeks
<1>5. Aim(k) \in known => H # {}  BY AckHeld
<1> HIDE DEF known, H
<1>6. /\ a.pc = "body" /\ a.known = known /\ a.at = j.at /\ a.chunks = j.chunks
      /\ a.status = j.status
    BY <1>2 DEF Open, JobFields
<1> HIDE DEF a, j
<1>7. Seeks(k, a, H)  BY <1>1, <1>3, <1>5, <1>6 DEF Seeks, Seeking
<1>8. Fits(k, a, H)  BY <1>2, <1>6, <1>7 DEF Fits, Open
<1> QED  BY <1>1, <1>4, <1>8, LookMoves DEF H, j

LEMMA LookReads ==
    ASSUME Inv, TypeInv, WorkInv, PlainInv, LogHolds, LookInv,
           NEW k \in DOMAIN jobs, jobs[k].op = "get", BeginRead(k)
    PROVE  LookStep(k)
<1> DEFINE H == Holders(Aim(k))
           id == Aim(k)
           i == jobs[k]
           j == [i EXCEPT !.groups = Head(i.chunks)]
           row == Mem(j.at).rows[Object(j.chunks)]
           f == [j EXCEPT !.before = row.file]
           a == ToOwners(j)
<1>1. i.pc = "body"  BY DEF BeginRead, At
<1>2. Open(i) /\ i.at \in Nodes /\ Req(k[1]).chunks \in OneObject  BY <1>1, GetJob
<1>3. Seeks(k, i, H)  BY DEF LookInv, Look
<1>4. /\ DOMAIN j = JobFields /\ j.op = i.op /\ j.rows = i.rows /\ j.status = i.status
      /\ j.pc = i.pc /\ j.at = i.at /\ j.chunks = i.chunks /\ j.groups = Head(i.chunks)
      /\ j.known = i.known /\ j.missed = i.missed
    BY <1>2 DEF Open, JobFields
<1>5. \/ Becomes(k, a) /\ ~Local(j.at, Object(j.chunks))
      \/ Becomes(k, Found(k, f)) /\ Local(j.at, Object(j.chunks))
      \/ Becomes(k, Answered(j, 404)) /\ Local(j.at, Object(j.chunks)) /\ ~Present(row)
    BY DEF BeginRead
<1> HIDE DEF j
<1>6. j.chunks = Req(k[1]).chunks /\ Object(j.chunks) = id
    BY <1>1, <1>3, <1>4 DEF Seeks, Seeking, Aim
<1>7. Seeks(k, j, H)  BY <1>1, <1>3, <1>4 DEF Seeks, Seeking
<1>8. Open(j)  BY <1>2, <1>4, OpenMoved
<1>9. \A n \in H : Local(n, id) /\ Present(Mem(n).rows[id]) /\ n \in Nodes  BY HoldersHave
<1>10. id \in j.known => H # {}  BY <1>7 DEF Seeks, Seeking
<1>11. ShardOfGroup(Head(j.groups)) = ShardOf[id]
    <2>1. PICK o \in Ids : j.chunks = << <<{o}>> >>  BY <1>2, <1>6 DEF OneObject
    <2>2. Object(j.chunks) = o /\ ShardOfGroup({o}) = ShardOf[o]  BY <2>1, OneObjectFacts
    <2>3. Head(j.groups) = {o}  BY <1>4, <2>1
    <2> QED  BY <1>6, <2>2, <2>3
<1>12. CASE Becomes(k, a)
    <2>1. /\ a.pc = "send" /\ a.peers = Owners[ShardOf[id]] /\ a.at = j.at
          /\ a.chunks = j.chunks /\ a.known = j.known /\ a.status = j.status
        BY <1>8, <1>11 DEF ToOwners, Open, JobFields
    <2> HIDE DEF a, H, id
    <2>2. Seeks(k, a, H)  BY <1>1, <1>4, <1>7, <2>1 DEF Seeks, Seeking
    <2>3. H # {} => H \cap Range(a.peers) # {}  BY <1>9, <2>1 DEF Local
    <2>4. Wanted(k, a) => H # {}  BY <1>10, <2>1 DEF Wanted, id
    <2>5. a.status # 404  BY <1>8, <2>1 DEF Open
    <2>6. Fits(k, a, H)  BY <2>1, <2>2, <2>3, <2>4, <2>5 DEF Fits
    <2> QED  BY <1>12, <2>6, LookMoves DEF H, id
<1>13. CASE Becomes(k, Found(k, f))
    <2>1. /\ DOMAIN f = JobFields /\ f.op = j.op /\ f.rows = j.rows /\ f.status = j.status
          /\ f.pc = j.pc /\ f.at = j.at /\ f.chunks = j.chunks
          /\ f.known = j.known
        BY <1>8 DEF Open, JobFields
    <2> HIDE DEF f, H
    <2>2. Open(f)  BY <1>8, <2>1, OpenMoved
    <2>3. Seeks(k, f, H)  BY <1>1, <1>4, <1>7, <2>1 DEF Seeks, Seeking
    <2>4. Found(k, f) = Answered(f, 200)  BY <1>4, <2>1 DEF Found
    <2>5. Fits(k, Answered(f, 200), H)  BY <2>2, <2>3, FitsFound DEF Seeks
    <2>6. Fits(k, Found(k, f), H)  BY <2>4, <2>5
    <2> QED  BY <1>13, <2>6, LookMoves DEF H
<1>14. CASE Becomes(k, Answered(j, 404)) /\ Local(j.at, id) /\ ~Present(row)
    <2>1. j.at \notin H  BY <1>6, <1>9, <1>14
    <2> HIDE DEF H, id
    <2>2. k[2] \notin H
        <3>1. CASE IsForwarded(k)  BY <1>7, <2>1, <3>1 DEF Seeks, Seeking
        <3>2. CASE ~IsForwarded(k)
            <4>1. k[2] = 0 /\ \A n \in H : n \in Nodes  BY <1>9, <3>2 DEF IsForwarded
            <4> QED  BY <4>1, RequestsAssumption
        <3> QED  BY <3>1, <3>2
    <2>3. ~Wanted(k, j)
        <3> SUFFICES ASSUME Wanted(k, j) PROVE FALSE  OBVIOUS
        <3>1. PICK n : n \in H  BY <1>10 DEF Wanted, id
        <3>2. Local(n, id) /\ Local(j.at, id) /\ Len(Owners[ShardOf[id]]) = 1
            BY <1>9, <1>14, <3>1 DEF Wanted, id
        <3> DEFINE p == Owners[ShardOf[id]]
        <3>3. n \in Range(p) /\ j.at \in Range(p) /\ Len(p) = 1  BY <3>2 DEF Local
        <3>4. id \in Ids
            BY <1>2, <1>6, OneObjectFacts DEF OneObject
        <3>5. p \in Seq(Nodes)
            BY <3>4, RequestsAssumption
        <3> HIDE DEF p
        <3>6. Range(p) = {p[1]}
            BY <3>3, <3>5, LenProperties DEF Range
        <3> QED  BY <2>1, <3>1, <3>3, <3>6
    <2>4. Fits(k, Answered(j, 404), H)  BY <1>7, <1>8, <2>2, <2>3, FitsAnswered DEF Seeks
    <2> QED  BY <1>14, <2>4, LookMoves DEF H, id
<1> QED  BY <1>5, <1>6, <1>12, <1>13, <1>14


\* An owner that gave no answer is remembered.
LEMMA LookMissed ==
    ASSUME Inv, TypeInv, WorkInv, PlainInv, LogHolds, LookInv,
           NEW k \in DOMAIN jobs, jobs[k].op = "get",
           Unreachable(k) \/ TimesOut(k) \/ Disconnected(k)
    PROVE  LookStep(k)
<1> DEFINE H == Holders(Aim(k))
           i == jobs[k]
           m == [i EXCEPT !.missed = TRUE]
<1>1. i.pc \in {"send", "wait"} /\ \E status : Becomes(k, NextOwner(m, status))
    BY DEF Unreachable, TimesOut, Disconnected, At
<1>2. Open(i) /\ i.wrote = {}  BY <1>1, GetJob
<1>3. Seeks(k, i, H)  BY DEF LookInv, Look
<1>4. ~IsForwarded(k) /\ i.peers \in Seq(Nodes) /\ i.peers # <<>>  BY <1>1, SenderFacts
<1>5. k[2] \notin H
    <2>1. k[2] = 0  BY <1>4 DEF IsForwarded
    <2> QED  BY <2>1, RequestsAssumption DEF Holders
<1>6. /\ DOMAIN m = JobFields /\ m.op = i.op /\ m.rows = i.rows /\ m.status = i.status
      /\ m.pc = i.pc /\ m.at = i.at /\ m.chunks = i.chunks /\ m.known = i.known
      /\ m.missed = TRUE /\ m.wrote = i.wrote /\ m.peers = i.peers /\ m.child = i.child
    BY <1>2 DEF Open, JobFields
<1> HIDE DEF m, H, i
<1>7. Open(m)  BY <1>2, <1>6, OpenMoved
<1>8. Seeks(k, m, H)  BY <1>3, <1>6 DEF Seeks, Seeking
<1>9. ~Wanted(k, m)  BY <1>6 DEF Wanted
<1>10. PICK status : Becomes(k, NextOwner(m, status))  BY <1>1
<1>11. Fits(k, NextOwner(m, status), H)
    BY <1>1, <1>2, <1>4, <1>5, <1>6, <1>7, <1>8, <1>9, FitsNextOwner DEF Seeks
<1> QED  BY <1>10, <1>11, LookMoves DEF H

\* An owner that does not have the object is not the one that holds it.
LEMMA LookReturns ==
    ASSUME Inv, TypeInv, WorkInv, PlainInv, LogHolds, LookInv,
           NEW k \in DOMAIN jobs, jobs[k].op = "get", Return(k)
    PROVE  LookStep(k)
<1> DEFINE H == Holders(Aim(k))
           i == jobs[k]
           c == jobs[i.child]
           j == [i EXCEPT !.child = <<>>]
           m == [j EXCEPT !.missed = @ \/ c.status # 404]
           e == [j EXCEPT !.started = StartedMarker(j, c.started)]
           f == [j EXCEPT !.before = c.before]
<1>1. i.pc = "wait" /\ i.child \in DOMAIN jobs  BY DEF Return, At
<1>2. Open(i) /\ i.wrote = {} /\ i.op \in Reads  BY <1>1, GetJob
<1>3. Look(k, jobs, H) /\ Seeks(k, i, H)  BY DEF LookInv, Look
<1>4. ~IsForwarded(k) /\ i.peers \in Seq(Nodes) /\ i.peers # <<>>  BY <1>1, SenderFacts
<1>5. k[2] \notin H
    <2>1. k[2] = 0  BY <1>4 DEF IsForwarded
    <2> QED  BY <2>1, RequestsAssumption DEF Holders
<1>6. /\ DOMAIN m = JobFields /\ m.op = i.op /\ m.rows = i.rows /\ m.status = i.status
      /\ m.pc = i.pc /\ m.at = i.at /\ m.chunks = i.chunks /\ m.known = i.known
      /\ m.missed = (i.missed \/ c.status # 404)
      /\ m.wrote = i.wrote /\ m.peers = i.peers
    BY <1>2 DEF Open, JobFields
<1>7. /\ DOMAIN e = JobFields /\ e.op = i.op /\ e.rows = i.rows /\ e.status = i.status
      /\ e.pc = i.pc /\ e.at = i.at /\ e.chunks = i.chunks /\ e.known = i.known
      /\ e.wrote = i.wrote
    BY <1>2 DEF Open, JobFields
<1>8. /\ DOMAIN f = JobFields /\ f.op = i.op /\ f.rows = i.rows /\ f.status = i.status
      /\ f.pc = i.pc /\ f.at = i.at /\ f.chunks = i.chunks /\ f.known = i.known
    BY <1>2 DEF Open, JobFields
<1>9. j.op = i.op  BY <1>2 DEF Open, JobFields
<1>10. \/ Becomes(k, NextOwner(m, c.status))
       \/ Becomes(k, Failed(e, c.status)) /\ c.status # 404
       \/ Becomes(k, Found(k, f))
    BY <1>2, <1>9 DEF Return, Retried
<1>11. Ahead(i, jobs, H) => \E n \in H \cap Range(i.peers) : n = Head(i.peers) => c.status # 404
    BY <1>1 DEF Ahead
<1> HIDE DEF m, e, f, H, j
<1>12. CASE Becomes(k, NextOwner(m, c.status))
    <2>1. Open(m)  BY <1>2, <1>6, OpenMoved
    <2>2. Wanted(k, m) => H \cap Range(Tail(m.peers)) # {}
        <3> SUFFICES ASSUME Wanted(k, m) PROVE H \cap Range(Tail(i.peers)) # {}
            BY <1>6
        <3>1. c.status = 404 /\ Wanted(k, i)  BY <1>6 DEF Wanted
        <3>2. Ahead(i, jobs, H)  BY <1>1, <1>3, <3>1 DEF Look
        <3>3. PICK n \in H \cap Range(i.peers) : n # Head(i.peers)  BY <1>11, <3>1, <3>2
        <3> DEFINE p == i.peers
        <3>4. p \in Seq(Nodes) /\ p # <<>> /\ n \in Range(p) /\ n # Head(p)  BY <1>4, <3>3
        <3> HIDE DEF p
        <3>5. n \in Range(Tail(p))  BY <3>4, HeadAndTail
        <3> QED  BY <3>3, <3>5 DEF p
    <2> DEFINE status == c.status
    <2> HIDE DEF status, i
    <2>3. Seeking(k, m, H) /\ m.pc # "done"  BY <1>1, <1>3, <1>6 DEF Seeks, Seeking
    <2>4. Fits(k, NextOwner(m, status), H)
        BY <1>2, <1>4, <1>5, <1>6, <2>1, <2>2, <2>3, FitsNextOwner
    <2> QED  BY <1>12, <2>4, LookMoves DEF H, status
<1>13. CASE Becomes(k, Failed(e, c.status)) /\ c.status # 404
    <2>1. Open(e)  BY <1>2, <1>7, OpenMoved
    <2> DEFINE status == c.status
    <2>2. status # 404  BY <1>13
    <2> HIDE DEF status, i
    <2>3. Seeking(k, e, H)  BY <1>1, <1>3, <1>7 DEF Seeks, Seeking
    <2>4. Fits(k, Failed(e, status), H)  BY <1>2, <1>7, <2>1, <2>2, <2>3, FitsFailed
    <2> QED  BY <1>13, <2>4, LookMoves DEF H, status
<1>14. CASE Becomes(k, Found(k, f))
    <2>1. Open(f)  BY <1>2, <1>8, OpenMoved
    <2>2. i.op = "get"  OBVIOUS
    <2> HIDE DEF i, c
    <2>3. Seeking(k, f, H)  BY <1>1, <1>3, <1>8 DEF Seeks, Seeking
    <2>4. Found(k, f) = Answered(f, 200)  BY <1>8, <2>2 DEF Found
    <2>5. Fits(k, Answered(f, 200), H)  BY <2>1, <2>3, FitsFound
    <2> QED  BY <1>14, <2>4, <2>5, LookMoves DEF H
<1> QED  BY <1>10, <1>12, <1>13, <1>14


LEMMA LookSends ==
    ASSUME Inv, TypeInv, WorkInv, PlainInv, LogHolds, LookInv,
           NEW k \in DOMAIN jobs, jobs[k].op = "get", Send(k)
    PROVE  LookStep(k)
<1> DEFINE H == Holders(Aim(k))
           j == jobs[k]
           n == Head(j.peers)
           g == Head(j.groups)
           c == ChildKey(k, n)
           a == [j EXCEPT !.pc = "wait", !.child = c]
           e == NewJob(k[1], n, << <<g>> >>)
<1>1. /\ j.pc = "send"
      /\ jobs' = [q \in DOMAIN jobs \cup {c} |-> IF q = k THEN a ELSE IF q = c THEN e ELSE jobs[q]]
    BY DEF Send, At
<1>2. Open(j) /\ Req(k[1]).chunks \in OneObject  BY <1>1, GetJob
<1>3. Look(k, jobs, H) /\ Seeks(k, j, H)  BY DEF LookInv, Look
<1>4. ~IsForwarded(k) /\ j.peers \in Seq(Nodes) /\ j.peers # <<>>  BY <1>1, SenderFacts
<1>5. n \in Nodes  BY <1>4, TailFacts
<1>6. c[1] = k[1] /\ c[2] = n  BY DEF ChildKey
<1>7. IsForwarded(c) /\ c # k
    <2>1. c[2] # 0  BY <1>5, <1>6, RequestsAssumption
    <2> HIDE DEF c
    <2> QED  BY <1>4, <2>1 DEF IsForwarded
<1>8. << <<g>> >> = Req(k[1]).chunks
    <2>1. j.chunks = Req(k[1]).chunks  BY <1>1, <1>3 DEF Seeks, Seeking
    <2>2. j.op \in ObjectOps /\ j.form \in {"single", "file"} => j.groups = Head(j.chunks)
        BY <1>1, TypedFacts DEF Grouped, ForOne
    <2>3. j.form = "single"
        <3>1. j.form = Req(k[1]).form /\ k[1] \in Requests  BY TypedFacts DEF DataOk
        <3>2. Req(k[1]).op \in Reads  BY GetJob DEF Reads
        <3> QED  BY <3>1, <3>2, RequestFacts DEF Inv
    <2>4. j.groups = Head(j.chunks)  BY <2>2, <2>3, GetJob
    <2>5. PICK id \in Ids : Req(k[1]).chunks = << <<{id}>> >>  BY <1>2 DEF OneObject
    <2> QED  BY <2>1, <2>4, <2>5
<1>9. /\ a.pc = "wait" /\ a.child = c /\ a.peers = j.peers /\ a.at = j.at
      /\ a.chunks = j.chunks /\ a.known = j.known /\ a.missed = j.missed
      /\ a.status = j.status
    BY <1>2 DEF Open, JobFields
<1>10. /\ e.pc = "new" /\ e.at = n /\ e.chunks = << <<g>> >> /\ e.known = {}
       /\ e.status = 0
    BY DEF NewJob
<1> HIDE DEF a, e, c, H
<1>11. Seeks(k, a, H)  BY <1>1, <1>3, <1>4, <1>6, <1>9 DEF Seeks, Seeking
<1>12. Seeks(c, e, H)
    <2>1. Aim(c) \notin e.known  BY <1>10
    <2> QED  BY <1>6, <1>7, <1>8, <1>10, <2>1 DEF Seeks, Seeking
<1>13. Look(k, jobs', H)
    <2>1. jobs'[k] = a /\ jobs'[c] = e  BY <1>1, <1>7
    <2>2. ASSUME Wanted(k, a) PROVE a.status # 404 /\ Ahead(a, jobs', H)
        <3>1. Wanted(k, j)  BY <1>9, <2>2 DEF Wanted
        <3>2. Ahead(j, jobs, H)  BY <1>1, <1>3, <3>1 DEF Look
        <3>3. PICK m : m \in H \cap Range(j.peers)  BY <3>2 DEF Ahead
        <3>4. jobs'[a.child].status # 404  BY <1>9, <1>10, <2>1
        <3> QED  BY <1>2, <1>9, <3>3, <3>4 DEF Ahead, Open
    <2> QED  BY <1>11, <2>1, <2>2 DEF Look
<1> SUFFICES ASSUME NEW q \in DOMAIN jobs', q[1] = k[1] PROVE Look(q, jobs', H)
    BY DEF LookStep, H
<1>14. CASE q = c
    <2>1. jobs'[q] = e  BY <1>1, <1>7, <1>14
    <2> QED  BY <1>7, <1>12, <1>14, <2>1 DEF Look, Wanted
<1>15. CASE q # k /\ q # c
    <2>1. q \in DOMAIN jobs /\ jobs'[q] = jobs[q]  BY <1>1, <1>15
    <2>2. q[2] \in Nodes
        <3>1. q # RootKey(q[1])
            <4>1. k = RootKey(k[1])  BY <1>4, RequestsAssumption DEF Inv, KeysOk, IsForwarded
            <4> QED  BY <1>15, <4>1
        <3> QED  BY <2>1, <3>1 DEF Inv, KeysOk
    <2>3. IsForwarded(q)  BY <2>2, RequestsAssumption DEF IsForwarded
    <2>4. jobs[q].op = "get"  BY <2>1, JobFacts
    <2>5. Aim(q) = Aim(k)  BY DEF Aim
    <2>6. Seeks(q, jobs[q], H)  BY <2>1, <2>4, <2>5 DEF LookInv, Look, H
    <2> QED  BY <2>1, <2>3, <2>6 DEF Look, Wanted
<1> QED  BY <1>13, <1>14, <1>15

LEMMA LookSteps ==
    ASSUME Inv, TypeInv, WorkInv, PlainInv, LogHolds, LookInv,
           NEW k \in DOMAIN jobs, jobs[k].op = "get", Step(k) \/ Failure(k)
    PROVE  LookStep(k) /\ UNCHANGED log
<1>1. jobs[k].op \in Reads /\ jobs[k].op \notin ScopeOps  BY GetJob
<1>2. jobs[k].pc \in {"new", "body", "send", "wait", "done"}  BY DEF LookInv, Look, Seeks
<1>3. ~BeginDrop(k) /\ ~BeginCreate(k) /\ ~BeginObjects(k) /\ ~BeginFile(k) /\ ~Refuse(k)
    BY <1>1 DEF BeginDrop, BeginCreate, ScopeOps, BeginObjects, BeginFile, Refuse
<1>4. /\ ~FanOut(k) /\ ~FanReturn(k) /\ ~FanDone(k) /\ ~ReadBlob(k) /\ ~PutBlob(k)
      /\ ~Save(k) /\ ~Unlink(k) /\ ~PutBlobFails(k) /\ ~SaveFails(k)
    BY <1>2 DEF FanOut, FanReturn, FanDone, ReadBlob, PutBlob, Save, Unlink, PutBlobFails,
                SaveFails, At
<1>5. \/ Receive(k) \/ BeginRead(k) \/ Send(k) \/ Return(k) \/ Disconnected(k)
      \/ Unreachable(k) \/ TimesOut(k)
    BY <1>3, <1>4 DEF Step, Failure
<1>6. UNCHANGED log
    <2>1. ASSUME Return(k) PROVE UNCHANGED log
        <3> DEFINE i == jobs[k]
                   j == [i EXCEPT !.child = <<>>]
        <3>1. i.pc # "done"  BY <2>1 DEF Return, At
        <3>2. j.op = i.op  BY <3>1, GetJob DEF Open, JobFields
        <3> QED  BY <1>1, <2>1, <3>2 DEF Return
    <2> QED  BY <1>5, <2>1 DEF Receive, BeginRead, Send, Disconnected, Unreachable, TimesOut
<1> QED  BY <1>5, <1>6, LookReceives, LookReads, LookSends, LookReturns, LookMissed

LEMMA StepLook ==
    ASSUME Inv, Inv', TypeInv, WorkInv, PlainInv, LogHolds, LookInv,
           NEW k \in DOMAIN jobs, Step(k) \/ Failure(k)
    PROVE  LookInv'
<1>1. OthersStay(k) /\ SavedStays /\ scenario' = scenario  BY OwnSteps DEF OwnStep
<1>2. ASSUME NEW q \in DOMAIN jobs', jobs'[q].op = "get"
      PROVE  Look(q, jobs', Holders(Aim(q))')
    <2> DEFINE H == Holders(Aim(q))
    <2>1. PICK G : G = Holders(Aim(q))'  OBVIOUS
    <2>2. PICK v : v = Aim(q)  OBVIOUS
    <2>3. Aim(q)' = v  BY <1>1, <2>2 DEF Aim, Req
    <2>4. H \subseteq G  BY <1>1, <2>1, <2>2, <2>3, HoldersStay
    <2>5. CASE q[1] # k[1]
        <3>1. q \in DOMAIN jobs /\ jobs'[q] = jobs[q]  BY <1>1, <2>5 DEF OthersStay
        <3>2. Look(q, jobs, H)  BY <1>2, <3>1 DEF LookInv
        <3> DEFINE j == jobs[q]
        <3>3. ASSUME j.pc = "wait", Head(j.peers) \in H, j.child \in DOMAIN jobs',
                     jobs'[j.child].status = 404
              PROVE  j.child \in DOMAIN jobs /\ jobs[j.child].status = 404
            <4>1. j.child[1] = q[1]  BY <3>2, <3>3 DEF Look, Seeks
            <4> QED  BY <1>1, <2>5, <3>3, <4>1 DEF OthersStay
        <3> HIDE DEF H
        <3>4. Look(q, jobs', G)  BY <2>4, <3>1, <3>2, <3>3, LookKept
        <3> QED  BY <2>1, <3>4
    <2>6. CASE q[1] = k[1]
        <3>1. jobs'[q].op = Req(q[1])'.op  BY DEF Inv, JobsOk
        <3>2. jobs[k].op = "get"  BY <1>1, <1>2, <2>6, <3>1, JobFacts DEF Req
        <3>3. LookStep(k) /\ UNCHANGED log  BY <3>2, LookSteps
        <3>4. Aim(q) = Aim(k)  BY <2>6 DEF Aim
        <3>5. G = H  BY <1>1, <2>1, <2>2, <2>3, <3>3, HoldersSame
        <3>6. Look(q, jobs', H)  BY <2>6, <3>3, <3>4 DEF LookStep
        <3> QED  BY <2>1, <3>5, <3>6
    <2> QED  BY <2>5, <2>6
<1>3. \A q, js, H : Look(q, js, H)' <=> Look(q, js, H)
    BY <1>1 DEF Look, Seeks, Seeking, Wanted, Ahead, Aim, Req
<1>4. \A q : Aim(q)' = Aim(q)  BY <1>1 DEF Aim, Req
<1> QED  BY <1>2, <1>3, <1>4 DEF LookInv


LEMMA RestartLook ==
    ASSUME Inv, LookInv, NEW n \in Nodes, Restart(n)
    PROVE  LookInv'
<1> DEFINE stopped(j) == [j EXCEPT !.pc = "done", !.status = 0, !.child = <<>>, !.fan = <<>>]
<1>1. scenario' = scenario /\ log' = [log EXCEPT ![n] = <<Head(log[n])>>]
    BY DEF Restart, Durable
<1>2. \A q \in DOMAIN jobs' : /\ q \in DOMAIN jobs
                              /\ jobs'[q] \in {jobs[q], stopped(jobs[q])}
    BY DEF Restart
<1>3. SavedStays
    <2>1. DOMAIN log = Nodes /\ IsLog(log[n])  BY DEF Inv, LogsOk
    <2>2. log'[n] = <<Head(log[n])>> /\ \A m \in Nodes \ {n} : log'[m] = log[m]
        BY <1>1, <2>1
    <2>3. \A m \in Nodes : Head(log'[m]) = Head(log[m])  BY <2>2
    <2> QED  BY <2>3 DEF SavedStays, Saved, Durable
<1>4. ASSUME NEW q \in DOMAIN jobs
      PROVE  LET a == stopped(jobs[q])
             IN  a.status = 0 /\ a.pc = "done" /\ a.at = jobs[q].at /\ a.op = jobs[q].op
                 /\ a.known = jobs[q].known
    <2>1. DOMAIN jobs[q] = JobFields  BY JobFacts DEF Carries
    <2> QED  BY <2>1 DEF JobFields
<1>5. ASSUME NEW q \in DOMAIN jobs', jobs'[q].op = "get"
      PROVE  Look(q, jobs', Holders(Aim(q))')
    <2> DEFINE H == Holders(Aim(q))
               j == jobs[q]
    <2>1. PICK G : G = Holders(Aim(q))'  OBVIOUS
    <2>2. PICK v : v = Aim(q)  OBVIOUS
    <2>3. Aim(q)' = v  BY <1>1, <2>2 DEF Aim, Req
    <2>4. H \subseteq G  BY <1>1, <1>3, <2>1, <2>2, <2>3, HoldersStay
    <2>5. q \in DOMAIN jobs /\ jobs'[q] \in {j, stopped(j)}  BY <1>2
    <2>6. Look(q, jobs, H)  BY <1>4, <1>5, <2>5 DEF LookInv
    <2>7. CASE jobs'[q] = j
        <3>1. ASSUME j.child \in DOMAIN jobs', jobs'[j.child].status = 404
              PROVE  j.child \in DOMAIN jobs /\ jobs[j.child].status = 404
            <4> DEFINE c == j.child
            <4>1. c \in DOMAIN jobs /\ jobs'[c] \in {jobs[c], stopped(jobs[c])}
                BY <1>2, <3>1
            <4>2. stopped(jobs[c]).status = 0  BY <1>4, <4>1
            <4> HIDE DEF stopped
            <4> QED  BY <3>1, <4>1, <4>2
        <3> HIDE DEF H, stopped
        <3>2. Look(q, jobs', G)  BY <2>4, <2>6, <2>7, <3>1, LookKept
        <3> QED  BY <2>1, <3>2
    <2>8. CASE jobs'[q] = stopped(j)
        <3> DEFINE a == stopped(j)
        <3>1. a.status = 0 /\ a.pc = "done" /\ a.at = j.at /\ a.known = j.known
            BY <1>4, <2>5
        <3> HIDE DEF a, H, j
        <3>2. Seeks(q, a, G)  BY <2>4, <2>6, <3>1 DEF Look, Seeks, Seeking, j
        <3>3. Look(q, jobs', G)  BY <2>8, <3>1, <3>2 DEF Look, a
        <3> QED  BY <2>1, <3>3
    <2> HIDE DEF stopped
    <2> QED  BY <2>5, <2>7, <2>8
<1>6. \A q, js, H : Look(q, js, H)' <=> Look(q, js, H)
    BY <1>1 DEF Look, Seeks, Seeking, Wanted, Ahead, Aim, Req
<1> QED  BY <1>5, <1>6 DEF LookInv

LEMMA InitLook == Init => LookInv
<1> SUFFICES ASSUME Init, NEW k \in DOMAIN jobs PROVE Look(k, jobs, Holders(Aim(k)))
    BY DEF LookInv
<1>1. PICK r \in Requests : k = RootKey(r)  BY DEF Init
<1>2. ~IsForwarded(k) /\ k[1] = r  BY <1>1, RootKeys
<1>3. jobs[k] = NewJob(k[1], Req(k[1]).at, Req(k[1]).chunks)  BY DEF Init
<1> DEFINE j == jobs[k]
<1>4. /\ j.chunks = Req(k[1]).chunks /\ j.at = Req(k[1]).at /\ j.pc = "new" /\ j.known = {}
    BY <1>3 DEF NewJob
<1> DEFINE H == Holders(Aim(k))
<1>5. Aim(k) \notin j.known  BY <1>4
<1> HIDE DEF j, H
<1>6. Seeks(k, j, H)  BY <1>2, <1>4, <1>5 DEF Seeks, Seeking
<1>7. ~Wanted(k, j)  BY <1>5 DEF Wanted
<1> QED  BY <1>6, <1>7 DEF Look, j, H

\* The four parts together.
SeekInv == PlainInv /\ (NothingRemoved => LogHolds /\ LookInv)

LEMMA NextSeek ==
    Inv /\ Inv' /\ TypeInv /\ WorkInv /\ SeekInv /\ [Next]_vars => SeekInv'
<1> SUFFICES ASSUME Inv, Inv', TypeInv, WorkInv, SeekInv, [Next]_vars PROVE SeekInv'
    OBVIOUS
<1>1. ASSUME NEW k \in DOMAIN jobs, Step(k) \/ Failure(k) PROVE SeekInv'
    <2>1. scenario' = scenario  BY <1>1, OwnSteps DEF OwnStep
    <2>2. NothingRemoved' <=> NothingRemoved  BY <2>1 DEF NothingRemoved, Requests, Req
    <2>3. PlainInv'  BY <1>1, StepPlain DEF SeekInv
    <2>4. NothingRemoved => LogHolds'  BY <1>1, StepHolds DEF SeekInv
    <2>5. NothingRemoved => LookInv'  BY <1>1, StepLook DEF SeekInv
    <2> QED  BY <2>2, <2>3, <2>4, <2>5 DEF SeekInv
<1>2. ASSUME NEW n \in Nodes, Restart(n) PROVE SeekInv'
    <2>1. scenario' = scenario  BY <1>2 DEF Restart
    <2>2. NothingRemoved' <=> NothingRemoved  BY <2>1 DEF NothingRemoved, Requests, Req
    <2>3. PlainInv'  BY <1>2, RestartPlain DEF SeekInv
    <2>4. NothingRemoved => LogHolds'  BY <1>2, RestartHolds DEF SeekInv
    <2>5. NothingRemoved => LookInv'  BY <1>2, RestartLook DEF SeekInv
    <2> QED  BY <2>2, <2>3, <2>4, <2>5 DEF SeekInv
<1>3. ASSUME UNCHANGED <<scenario, log, jobs>> PROVE SeekInv'
    <2>1. NothingRemoved' <=> NothingRemoved  BY <1>3 DEF NothingRemoved, Requests, Req
    <2>2. PlainInv'  BY <1>3 DEF SeekInv, PlainInv
    <2>3. ASSUME LogHolds PROVE LogHolds'
        <3>1. \A m \in Nodes : \A h \in DOMAIN log'[m] : EntryHolds(m, log'[m][h])
            BY <1>3, <2>3 DEF LogHolds
        <3> QED  BY <1>3, <3>1, HoldsFrom
    <2>4. ASSUME LookInv PROVE LookInv'
        <3>1. \A q, js, H : Look(q, js, H)' <=> Look(q, js, H)
            BY <1>3 DEF Look, Seeks, Seeking, Wanted, Ahead, Aim, Req
        <3>2. \A q : Aim(q)' = Aim(q)  BY <1>3 DEF Aim, Req
        <3>3. \A id : Holders(id)' = Holders(id)  BY <1>3, HoldersSame
        <3> QED  BY <1>3, <2>4, <3>1, <3>2, <3>3 DEF LookInv
    <2> QED  BY <2>1, <2>2, <2>3, <2>4 DEF SeekInv
<1> QED  BY <1>1, <1>2, <1>3 DEF Next, ExpireToken, vars

\* A lookup answers 404 only when it has asked every owner, and the one that saved the
\* creation has it: whether owners time out and are retried, restart, or create the object
\* while the lookup is under way.
THEOREM FoundUnlessUnansweredHolds == Spec => []FoundUnlessUnanswered
<1>1. Init => SeekInv  BY InitHolds, InitLook DEF SeekInv
<1>2. Inv /\ TypeInv /\ SeekInv => FoundUnlessUnanswered
    <2> SUFFICES ASSUME Inv, TypeInv, SeekInv, NothingRemoved, NEW r \in Requests,
                        Req(r).op = "get", jobs[RootKey(r)].status = 404,
                        ~jobs[RootKey(r)].missed,
                        Local(Req(r).at, Object(Req(r).chunks))
                        => Len(Owners[ShardOf[Object(Req(r).chunks)]]) = 1,
                        Object(Req(r).chunks) \in jobs[RootKey(r)].known
                 PROVE  FALSE
        BY DEF FoundUnlessUnanswered
    <2> DEFINE k == RootKey(r)
    <2>1. k \in DOMAIN jobs /\ k[1] = r /\ ~IsForwarded(k)  BY RootKeys DEF Inv, KeysOk
    <2>2. jobs[k].op = "get"  BY <2>1, JobFacts
    <2>3. Look(k, jobs, Holders(Aim(k)))  BY <2>1, <2>2 DEF SeekInv, LookInv
    <2>4. jobs[k].at = Req(r).at  BY <2>1, <2>3 DEF Look, Seeks, Seeking
    <2>5. Wanted(k, jobs[k])  BY <2>1, <2>4 DEF Wanted, Aim
    <2> QED  BY <2>3, <2>5 DEF Look
<1> QED  BY <1>1, <1>2, NextSeek, RequestsInvariant, TypeInvHolds, WorkInvHolds, PTL DEF Spec

=============================================================================
