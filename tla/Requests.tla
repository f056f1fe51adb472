------------------------------ MODULE Requests ------------------------------
(***************************************************************************)
(* The public API of a cluster: src/interfaces/public-object.js over        *)
(* src/shard-router.js, src/http-router.js and src/files.js.                *)
(*                                                                          *)
(* A request is handled by the node that receives it.  Work on objects of a *)
(* shard the node does not own is forwarded to an owner, and to the next    *)
(* owner when that one fails; a forwarded call is a job of its own, which   *)
(* goes on when the caller stops waiting.  A job is cut at its awaits, and  *)
(* whatever other jobs do may happen between two of its steps.              *)
(*                                                                          *)
(* Memory of a node is kept with the writes that are not durable yet, so    *)
(* that a restart can forget them; module Persistence says how a write      *)
(* becomes durable.  Simplifications: the shard maps of the nodes agree and *)
(* every node owns one shard; owners do not replicate to each other (module *)
(* Replication); one database, one collection; an object is two fields, x   *)
(* and y, each holding the request that set it last, and a file key.        *)
(***************************************************************************)
EXTENDS Integers, FiniteSets, SequencesExt

CONSTANTS
    Nodes,
    Ids,                 \* objects
    ShardOf,             \* [Ids -> shards]
    Owners,              \* for each shard its owners in routing order
    Scenarios,           \* which objects exist, which requests clients send, and
                         \* whether their token may expire meanwhile
    MaxFaults            \* bound: failures of calls, and restarts

Scopes == {"db", "coll"}
ObjectOps == {"create", "replace", "patch", "remove", "get", "blob"}
Reads == {"get", "blob"}
ScopeOps == {"createDb", "createColl", "dropDb", "dropColl"}
Forms == {"single", "bulk", "stream", "file"}

\* groupByShard divides a chunk into one group for each of its shards, in the order
\* in which the client named them.
Group == {g \in SUBSET Ids : g # {} /\ \A id, other \in g : ShardOf[id] = ShardOf[other]}
ShardOfGroup(group) == ShardOf[CHOOSE id \in group : TRUE]
Chunk == {c \in Seq(Group) \ {<<>>} :
            \A i, h \in DOMAIN c : ShardOfGroup(c[i]) = ShardOfGroup(c[h]) => i = h}

\* A read, a single write and an upload (POST or PUT) name one object.
OneObject == {<< <<{id}>> >> : id \in Ids}

ObjectRequest ==
    [op : ObjectOps, form : {"single"}, at : Nodes, chunks : OneObject]
    \cup [op : {"create", "replace"}, form : {"file"}, at : Nodes, chunks : OneObject]
    \cup [op : ObjectOps \ Reads, form : {"bulk", "stream"}, at : Nodes,
          chunks : Seq(Chunk) \ {<<>>}]
ScopeRequest == [op : ScopeOps, form : {"single"}, at : Nodes, chunks : {<<>>}]

\* A cluster has finitely many nodes, which hold finitely many objects.
ASSUME RequestsAssumption ==
    /\ 0 \notin Nodes /\ IsFiniteSet(Nodes) /\ IsFiniteSet(Ids)
    /\ ShardOf \in [Ids -> DOMAIN Owners]
    /\ Owners \in [DOMAIN Owners -> Seq(Nodes) \ {<<>>}]
    /\ \A n \in Nodes : \E own \in DOMAIN Owners :
          {sh \in DOMAIN Owners : n \in Range(Owners[sh])} = {own}
    /\ \A sc \in Scenarios : /\ sc.present \subseteq Ids /\ sc.expires \in BOOLEAN
                             /\ sc.requests \in Seq(ObjectRequest \cup ScopeRequest)
    /\ MaxFaults \in Nat

VARIABLES
    scenario,            \* the objects at the start and the requests
    token,               \* the client's access token has not expired
    log,                 \* log[n]: node n as saved, then after each unsaved write
    blobs,               \* file keys in object storage
    jobs,                \* the handlers at work and their answers
    faults,              \* failures so far
    restarted            \* nodes that have restarted

vars == <<scenario, token, log, blobs, jobs, faults, restarted>>

Requests == DOMAIN scenario.requests
Req(r) == scenario.requests[r]

NoFile == <<>>
NoRow == [x |-> -1, y |-> -1, file |-> NoFile]
FirstFile(id) == <<0, 0, id>>
Present(row) == row # NoRow

Mem(n) == Last(log[n])
Durable(n) == Head(log[n])

\* A job is a request's own handler, or a call forwarded to node n.
RootKey(r) == <<r, 0, 0>>
IsForwarded(k) == k[2] # 0

Ok(status) == status \in 200..299

\* Mutant: a lookup gives up at the first owner that does not have the object.
RetriedAlike(op) == {409, 502, 503, 504}

\* The answers after which the next owner is tried.
Retried(op) == IF op \in Reads THEN {404, 409, 503} ELSE {409, 502, 503, 504}

NewJob(r, n, chunks) ==
    [op |-> Req(r).op, form |-> Req(r).form, at |-> n, chunks |-> chunks, pc |-> "new",
     groups |-> <<>>, peers |-> <<>>, child |-> <<>>, fan |-> <<>>,
     rows |-> <<>>, before |-> NoFile, olds |-> {}, existed |-> FALSE,
     wrote |-> {}, did |-> {}, part |-> 0, count |-> 0, fail |-> 0,
     status |-> 0, started |-> FALSE,
     known |-> {}, missed |-> FALSE, unsaved |-> FALSE]

Init ==
    /\ scenario \in Scenarios
    /\ token = TRUE
    /\ log = [n \in Nodes |->
                <<[rows |-> [id \in Ids |->
                               IF id \in scenario.present /\ n \in Range(Owners[ShardOf[id]])
                               THEN [x |-> 0, y |-> 0, file |-> FirstFile(id)] ELSE NoRow],
                   live |-> Scopes, gone |-> {}, ops |-> {}]>>]
    /\ blobs = {FirstFile(id) : id \in scenario.present}
    /\ jobs = [k \in {RootKey(r) : r \in Requests} |->
                 NewJob(k[1], Req(k[1]).at, Req(k[1]).chunks)]
    /\ faults = 0
    /\ restarted = {}

----------------------------------------------------------------------------
\* Answers.

\* Mutant: a failed stream counts what its last chunk had written, too.
ReportedWithPart(j) == IF Ok(j.status) \/ j.form = "stream" THEN j.count + j.part ELSE 0

\* What the client is told to have been done: a stream that fails reports the
\* chunks before, any other failed request nothing.
Reported(j) == IF Ok(j.status) \/ j.form = "stream" THEN j.count ELSE 0

\* Mutant: the marker of a downstream rejection is passed on as it is.
PassedMarker(j, remoteStarted) == remoteStarted

\* A rejection downstream cannot undo what this node has begun.
StartedMarker(j, remoteStarted) == j.started \/ remoteStarted

Answered(j, status) == [j EXCEPT !.pc = "done", !.status = status]

\* A chunk of the request is done: the next one is read, or the request answered.
Completed(j) ==
    LET next == [j EXCEPT !.count = @ + j.part, !.part = 0, !.olds = {}, !.rows = <<>>,
                          !.wrote = {}, !.chunks = Tail(@)]
    IN IF next.chunks = <<>> THEN Answered(next, 200) ELSE [next EXCEPT !.pc = "body"]

\* Mutant: an error leaves the handler at once.
FailedAtOnce(j, status) == Answered(j, status)

\* An error first waits for what has been written locally.
Failed(j, status) ==
    IF j.wrote # {} THEN [j EXCEPT !.pc = "save", !.fail = status]
    ELSE Answered(j, status)

\* A caller that has stopped waiting does not see the answer: the job is forgotten.
Awaited(js, k) ==
    /\ RootKey(k[1]) \in DOMAIN js
    /\ \/ js[RootKey(k[1])].child = k
       \/ k[2] \in DOMAIN js[RootKey(k[1])].fan /\ js[RootKey(k[1])].fan[k[2]] = 0

Settle(js) ==
    [k \in {q \in DOMAIN js : IsForwarded(q) /\ js[q].pc = "done" => Awaited(js, q)} |-> js[k]]

Becomes(k, j) == jobs' = Settle([jobs EXCEPT ![k] = j])

Writes(n, s) == log' = IF s = Mem(n) THEN log ELSE [log EXCEPT ![n] = Append(@, s)]

Fault == faults < MaxFaults /\ faults' = faults + 1
NoFault == UNCHANGED <<faults, restarted>>

----------------------------------------------------------------------------
\* The local part of an object operation.

Local(n, id) == n \in Range(Owners[ShardOf[id]])

\* The object of a request for one.
Object(chunks) == CHOOSE id \in Head(Head(chunks)) : TRUE

LocalIds(j) == {id \in UNION Range(Head(j.chunks)) : Local(j.at, id)}

FileKey(r, j, id) == <<r, j.at, id>>
NewFile(r, j, id) == IF j.form = "file" THEN FileKey(r, j, id) ELSE NoFile

Patched(row, r) == [row EXCEPT !.x = r]

\* Mutant: the patch is applied to what was last saved.
CompileFromSaved(n) == Durable(n).rows

\* What patches are compiled from.
CompileFrom(n) == Mem(n).rows

\* Before the first group, every local patch is compiled into a whole object, and
\* the objects to delete are looked up.
Prepared(r, j) ==
    LET there == {id \in LocalIds(j) : Present(Mem(j.at).rows[id])}
    IN CASE j.op = "patch" -> [id \in there |-> Patched(CompileFrom(j.at)[id], r)]
         [] j.op = "remove" -> [id \in there |-> Mem(j.at).rows[id]]
         [] OTHER -> <<>>

\* The objects a local group touches.
Targets(j, s) ==
    CASE j.op = "patch" -> DOMAIN j.rows
      [] j.op = "remove" -> {id \in LocalIds(j) : Present(s.rows[id])}
      [] OTHER -> LocalIds(j)

NewRow(r, j, id) ==
    CASE j.op = "patch" -> j.rows[id]
      [] j.op = "remove" -> NoRow
      [] OTHER -> [x |-> r, y |-> r, file |-> NewFile(r, j, id)]

\* Files whose object is gone or names another file.
RemovedFiles(r, j, s) ==
    IF j.op = "remove"
    THEN {j.rows[id].file : id \in Targets(j, s) \cap DOMAIN j.rows}
    ELSE {s.rows[id].file : id \in {i \in Targets(j, s) : s.rows[i].file # NewRow(r, j, i).file}}

\* insertMany and replaceMany refuse a dropped scope, insertMany an existing object.
LocalError(j, s) ==
    IF \/ j.op \in {"create", "replace"} /\ s.gone # {}
       \/ j.op = "patch" /\ j.rows # <<>> /\ s.gone # {}
       \/ j.op = "create" /\ \E id \in LocalIds(j) : Present(s.rows[id])
    THEN 409 ELSE 0

LocalWrite(r, j, s) ==
    LET t == Targets(j, s)
    IN IF t = {} THEN s
       ELSE [rows |-> [id \in Ids |-> IF id \in t THEN NewRow(r, j, id) ELSE s.rows[id]],
             live |-> IF j.op = "remove" THEN s.live ELSE Scopes,
             gone |-> s.gone,
             ops |-> s.ops \cup {<<r, id>> : id \in t}]

Single(j) == j.form \in {"single", "file"}

\* The job after its local group: single replace and patch remember the file that
\* was there, bulk operations the files to delete.
AfterLocalWrite(r, j, s) ==
    LET t == Targets(j, s)
    IN [j EXCEPT !.wrote = @ \cup {<<r, id>> : id \in t},
                 !.did = @ \cup {<<r, id>> : id \in t},
                 !.part = @ + Cardinality(t),
                 !.groups = Tail(@),
                 !.before = IF j.form = "single" /\ j.op \in {"replace", "patch"}
                            THEN s.rows[CHOOSE id \in t : TRUE].file ELSE @,
                 !.olds = IF j.op = "create" \/ (Single(j) /\ j.op # "remove") THEN {}
                          ELSE RemovedFiles(r, j, s) \ {NoFile}]

ToOwners(j) == [j EXCEPT !.pc = "send", !.peers = Owners[ShardOfGroup(Head(j.groups))]]

\* When all groups are done: save what was written here.
AfterGroups(j) == IF j.wrote # {} THEN [j EXCEPT !.pc = "save"] ELSE Completed(j)

\* The loop over the groups up to the next await: local groups are written at once.
RunGroups(k, j) ==
    LET r == k[1]  n == j.at  s == Mem(n)
        isLocal == j.groups # <<>> /\ n \in Range(Owners[ShardOfGroup(Head(j.groups))])
        error == IF isLocal THEN LocalError(j, s) ELSE 0
        written == AfterLocalWrite(r, j, s)
    IN \/ /\ isLocal /\ error # 0
          /\ Becomes(k, Failed(j, error))
          /\ UNCHANGED log
       \/ /\ isLocal /\ error = 0
          /\ Becomes(k, IF written.groups = <<>> THEN AfterGroups(written)
                                                 ELSE ToOwners(written))
          /\ Writes(n, LocalWrite(r, j, s))
       \/ /\ ~isLocal
          /\ Becomes(k, IF j.groups = <<>> THEN AfterGroups(j) ELSE ToOwners(j))
          /\ UNCHANGED log

----------------------------------------------------------------------------
\* Steps of one job k.

At(k, pc) == k \in DOMAIN jobs /\ jobs[k].pc = pc

Acknowledged(id) ==
    \E r \in Requests : /\ Req(r).op = "create" /\ id \in UNION Range(Head(Req(r).chunks))
                        /\ Ok(jobs[RootKey(r)].status)

\* secureRoute: an expired token is rejected before the handler runs.
Receive(k) ==
    /\ At(k, "new")
    /\ IF token
       THEN Becomes(k, [jobs[k] EXCEPT !.pc = "body", !.started = TRUE,
                                       !.known = {id \in Ids : Acknowledged(id)}])
       ELSE Becomes(k, Answered(jobs[k], 401))
    /\ UNCHANGED <<scenario, token, log, blobs>> /\ NoFault

\* The guards before the first write: permission, persistence backlog, memory.
Refuse(k) ==
    /\ At(k, "body") /\ jobs[k].op \notin Reads \cup {"dropDb", "dropColl"}
    /\ Fault
    /\ \E status \in {403, 503, 507} : Becomes(k, Answered(jobs[k], status))
    /\ UNCHANGED <<scenario, token, log, blobs, restarted>>

\* An object was found: it is the answer, or its file is read next.
Found(k, j) ==
    IF j.op = "get" \/ IsForwarded(k) THEN Answered(j, 200)
    ELSE IF j.before = NoFile THEN Answered(j, 404)
    ELSE [j EXCEPT !.pc = "read"]

ReadBlob(k) ==
    /\ At(k, "read")
    /\ Becomes(k, Answered(jobs[k], IF jobs[k].before \in blobs THEN 200 ELSE 404))
    /\ UNCHANGED <<scenario, token, log, blobs>> /\ NoFault

\* Reads of an object: found here, not found here, or asked of its owners.
BeginRead(k) ==
    /\ At(k, "body") /\ jobs[k].op \in Reads
    /\ LET j == [jobs[k] EXCEPT !.groups = Head(jobs[k].chunks)]
           row == Mem(j.at).rows[Object(j.chunks)]
       IN Becomes(k, IF ~Local(j.at, Object(j.chunks)) THEN ToOwners(j)
                     ELSE IF Present(row) THEN Found(k, [j EXCEPT !.before = row.file])
                     ELSE Answered(j, 404))
    /\ UNCHANGED <<scenario, token, log, blobs>> /\ NoFault

\* Bulk and single writes of objects: the body is read and the hooks have run;
\* everything up to the next await.
BeginObjects(k) ==
    /\ At(k, "body") /\ jobs[k].op \in ObjectOps \ Reads /\ jobs[k].form # "file"
    /\ LET j == [jobs[k] EXCEPT !.groups = Head(jobs[k].chunks)]
           absent == /\ j.form = "single" /\ j.op \in {"patch", "remove"}
                     /\ Local(j.at, Object(j.chunks))
                     /\ ~Present(Mem(j.at).rows[Object(j.chunks)])
       IN \/ absent /\ Becomes(k, Answered(j, 404)) /\ UNCHANGED log
          \/ ~absent /\ RunGroups(k, [j EXCEPT !.rows = Prepared(k[1], j)])
    /\ UNCHANGED <<scenario, token, blobs>> /\ NoFault

\* Multipart uploads: the blob is put before the object is written.
BeginFile(k) ==
    /\ At(k, "body") /\ jobs[k].op \in ObjectOps \ Reads /\ jobs[k].form = "file"
    /\ LET j == [jobs[k] EXCEPT !.groups = Head(jobs[k].chunks)]
           row == Mem(j.at).rows[Object(j.chunks)]
       IN Becomes(k, IF ~Local(j.at, Object(j.chunks)) THEN ToOwners(j)
                     ELSE IF j.op = "create" /\ Present(row) THEN Answered(j, 409)
                     ELSE [j EXCEPT !.pc = "put", !.before = row.file])
    /\ UNCHANGED <<scenario, token, log, blobs>> /\ NoFault

PutBlob(k) ==
    /\ At(k, "put")
    /\ blobs' = blobs \cup {FileKey(k[1], jobs[k], Object(jobs[k].chunks))}
    /\ RunGroups(k, jobs[k])
    /\ UNCHANGED <<scenario, token>> /\ NoFault

PutBlobFails(k) ==
    /\ At(k, "put") /\ Fault
    /\ Becomes(k, Answered(jobs[k], 400))
    /\ UNCHANGED <<scenario, token, log, blobs, restarted>>

\* Mutant: the file that was there before is deleted without looking again.
SupersededBlindly(j) == {j.before} \ {NoFile}

\* The row is read again after the save: its file may be another by now.
Superseded(j) ==
    LET now == Mem(j.at).rows[Object(j.chunks)].file
    IN IF j.before \in {NoFile, now} THEN {} ELSE {j.before}

AfterSave(k, j) ==
    LET olds == IF j.form = "single" \/ (j.form = "file" /\ j.op = "replace")
                THEN j.olds \cup Superseded(j) ELSE j.olds
    IN IF j.fail # 0 THEN Answered(j, j.fail)
       ELSE IF j.op \in ScopeOps
            THEN [j EXCEPT !.pc = IF j.existed THEN "unlink" ELSE "fan"]
       ELSE IF olds # {} THEN [j EXCEPT !.pc = "unlink", !.olds = olds]
       ELSE Completed(j)

\* afterLocalWrite: a save covers at least what was written before it was asked for.
Save(k) ==
    /\ At(k, "save")
    /\ \E i \in DOMAIN log[jobs[k].at] :
          /\ jobs[k].wrote \subseteq log[jobs[k].at][i].ops
          /\ log' = [log EXCEPT ![jobs[k].at] = SubSeq(@, i, Len(@))]
    /\ Becomes(k, AfterSave(k, jobs[k]))
    /\ UNCHANGED <<scenario, token, blobs>> /\ NoFault

SaveFails(k) ==
    /\ At(k, "save") /\ Fault
    /\ Becomes(k, [Answered(jobs[k], 500) EXCEPT !.unsaved = TRUE])
    /\ UNCHANGED <<scenario, token, log, blobs, restarted>>

\* Files are deleted best-effort after the save, a dropped scope's by prefix.
Unlink(k) ==
    /\ At(k, "unlink")
    /\ \/ blobs' = (IF jobs[k].op \in ScopeOps THEN {} ELSE blobs \ jobs[k].olds) /\ UNCHANGED faults
       \/ Fault /\ UNCHANGED blobs
    /\ Becomes(k, IF jobs[k].op \in ScopeOps THEN [jobs[k] EXCEPT !.pc = "fan"]
                  ELSE Completed(jobs[k]))
    /\ UNCHANGED <<scenario, token, log, restarted>>

----------------------------------------------------------------------------
\* Forwarding to the owners of a shard, one after the other.

ChildKey(k, n) == <<k[1], n, Len(Req(k[1]).chunks) - Len(jobs[k].chunks)>>

\* Mutant: the next attempt goes to the same owner.
SameOwner(j, status) ==
    IF Len(j.peers) > 1 THEN [j EXCEPT !.pc = "send", !.child = <<>>]
    ELSE Failed([j EXCEPT !.child = <<>>], status)

\* The attempt brought no answer, or one that lets the next owner be tried.
NextOwner(j, status) ==
    IF Len(j.peers) > 1 THEN [j EXCEPT !.pc = "send", !.peers = Tail(@), !.child = <<>>]
    ELSE Failed([j EXCEPT !.child = <<>>], status)

Send(k) ==
    /\ At(k, "send")
    /\ LET j == jobs[k]  c == ChildKey(k, Head(j.peers))
       IN jobs' = [q \in DOMAIN jobs \cup {c} |->
                     IF q = k THEN [j EXCEPT !.pc = "wait", !.child = c]
                     ELSE IF q = c THEN NewJob(k[1], Head(j.peers), << <<Head(j.groups)>> >>)
                     ELSE jobs[q]]
    /\ UNCHANGED <<scenario, token, log, blobs>> /\ NoFault

Unreachable(k) ==
    /\ At(k, "send") /\ Fault
    /\ Becomes(k, NextOwner([jobs[k] EXCEPT !.missed = TRUE], 503))
    /\ UNCHANGED <<scenario, token, log, blobs, restarted>>

\* The answer of the owner.
Return(k) ==
    /\ At(k, "wait") /\ At(jobs[k].child, "done")
    /\ LET c == jobs[jobs[k].child]
           j == [jobs[k] EXCEPT !.child = <<>>]
       IN \/ /\ c.status \in Retried(j.op)
             /\ Becomes(k, NextOwner([j EXCEPT !.missed = @ \/ c.status # 404], c.status))
             /\ UNCHANGED log
          \/ /\ ~Ok(c.status) /\ c.status \notin Retried(j.op)
             /\ Becomes(k, Failed([j EXCEPT !.started = StartedMarker(j, c.started)], c.status))
             /\ UNCHANGED log
          \/ /\ Ok(c.status) /\ j.op \in Reads
             /\ Becomes(k, Found(k, [j EXCEPT !.before = c.before])) /\ UNCHANGED log
          \/ /\ Ok(c.status) /\ j.op \notin Reads
             /\ RunGroups(k, [j EXCEPT !.part = @ + c.count, !.groups = Tail(@)])
    /\ UNCHANGED <<scenario, token, blobs>> /\ NoFault

\* The forward is aborted; the owner may still be working on it, or have answered.
TimesOut(k) ==
    /\ At(k, "wait") /\ Fault
    /\ Becomes(k, NextOwner([jobs[k] EXCEPT !.missed = TRUE], 504))
    /\ UNCHANGED <<scenario, token, log, blobs, restarted>>

\* The owner restarted and the connection broke.
Disconnected(k) ==
    /\ At(k, "wait") /\ jobs[k].child \notin DOMAIN jobs
    /\ Becomes(k, NextOwner([jobs[k] EXCEPT !.missed = TRUE], 503))
    /\ UNCHANGED <<scenario, token, log, blobs>> /\ NoFault

----------------------------------------------------------------------------
\* Creating and dropping a database or the collection.

ScopeOf(op) == IF op \in {"createDb", "dropDb"} THEN "db" ELSE "coll"
NoRows == [id \in Ids |-> NoRow]

\* Mutant: the objects stay.
DroppedInName(s, scope) == [s EXCEPT !.gone = @ \cup {scope}, !.live = @ \ {scope}]

\* The tombstone is set and everything in the scope removed.
Dropped(s, scope) ==
    [s EXCEPT !.rows = NoRows, !.gone = @ \cup {scope},
              !.live = IF scope = "db" THEN {} ELSE @ \ {"coll"}]

Created(s, scope) ==
    [s EXCEPT !.gone = @ \ {scope},
              !.live = IF scope \in s.live THEN @
                       ELSE IF scope = "db" THEN @ \cup {"db"} ELSE Scopes]

\* Only what was there or not yet tombstoned is saved again; files are deleted
\* by the node that had the scope.
BeginDrop(k) ==
    /\ At(k, "body") /\ jobs[k].op \in {"dropDb", "dropColl"}
    /\ LET j == jobs[k]  s == Mem(j.at)  scope == ScopeOf(j.op)
           existed == scope \in s.live  already == scope \in s.gone
           next == [Dropped(s, scope) EXCEPT !.ops = @ \cup {<<k[1], scope>>}]
       IN \/ /\ ~existed /\ ~already /\ ~IsForwarded(k)
             /\ Becomes(k, Answered(j, 404)) /\ UNCHANGED log
          \/ /\ ~existed /\ already
             /\ Becomes(k, [j EXCEPT !.pc = "fan"]) /\ UNCHANGED log
          \/ /\ existed \/ (~already /\ IsForwarded(k))
             /\ Becomes(k, [j EXCEPT !.pc = "save", !.wrote = {<<k[1], scope>>},
                                     !.did = {<<k[1], scope>>},
                                     !.existed = existed])
             /\ Writes(j.at, next)
    /\ UNCHANGED <<scenario, token, blobs>> /\ NoFault

\* A collection of a dropped database is refused, after its tombstone was lifted.
BeginCreate(k) ==
    /\ At(k, "body") /\ jobs[k].op \in {"createDb", "createColl"}
    /\ LET j == jobs[k]  s == Mem(j.at)  scope == ScopeOf(j.op)
           next == [Created(s, scope) EXCEPT !.ops = @ \cup {<<k[1], scope>>}]
       IN \/ /\ scope = "coll" /\ "db" \in s.gone
             /\ Becomes(k, Answered(j, 409))
             /\ Writes(j.at, [s EXCEPT !.gone = @ \ {"coll"}])
          \/ /\ scope = "coll" => "db" \notin s.gone
             /\ Becomes(k, [j EXCEPT !.pc = "save", !.wrote = {<<k[1], scope>>},
                                     !.did = {<<k[1], scope>>}])
             /\ Writes(j.at, next)
    /\ UNCHANGED <<scenario, token, blobs>> /\ NoFault

\* forwardToAllPeers: all other nodes at once.
Unavailable == 1

FanOut(k) ==
    /\ At(k, "fan")
    /\ LET j == jobs[k]
           others == Nodes \ {j.at}
       IN IF IsForwarded(k)
          THEN Becomes(k, Answered(j, 200)) /\ UNCHANGED faults
          ELSE \E down \in SUBSET others :
                 /\ faults + Cardinality(down) <= MaxFaults
                 /\ faults' = faults + Cardinality(down)
                 /\ LET called == {ChildKey(k, n) : n \in others \ down}
                    IN jobs' = [q \in DOMAIN jobs \cup called |->
                         IF q \in called THEN NewJob(k[1], q[2], <<>>)
                         ELSE IF q = k
                              THEN [j EXCEPT !.pc = "fanned",
                                             !.fan = [n \in others |-> IF n \in down THEN Unavailable ELSE 0]]
                         ELSE jobs[q]]
    /\ UNCHANGED <<scenario, token, log, blobs, restarted>>

FanReturn(k) ==
    /\ At(k, "fanned")
    /\ \E n \in DOMAIN jobs[k].fan :
          /\ jobs[k].fan[n] = 0
          /\ \/ /\ At(ChildKey(k, n), "done")
                /\ Becomes(k, [jobs[k] EXCEPT !.fan[n] = jobs[ChildKey(k, n)].status])
                /\ UNCHANGED faults
             \/ /\ \/ Fault
                   \/ ChildKey(k, n) \notin DOMAIN jobs /\ UNCHANGED faults
                /\ Becomes(k, [jobs[k] EXCEPT !.fan[n] = Unavailable])
    /\ UNCHANGED <<scenario, token, log, blobs, restarted>>

\* Mutant: every schema change tolerates nodes that do not answer.
ToleratesAll(op) == TRUE

\* A drop that some node has not answered is not acknowledged.
AllowUnavailable(op) == op \in {"createDb", "createColl"}

FanDone(k) ==
    /\ At(k, "fanned") /\ \A n \in DOMAIN jobs[k].fan : jobs[k].fan[n] # 0
    /\ LET j == jobs[k]
           failed == {n \in DOMAIN j.fan : /\ ~Ok(j.fan[n])
                                           /\ ~(AllowUnavailable(j.op) /\ j.fan[n] = Unavailable)}
       IN Becomes(k, IF failed = {} THEN Answered([j EXCEPT !.fan = <<>>], 200)
                     ELSE LET n == CHOOSE n \in failed : TRUE
                          IN Answered([j EXCEPT !.fan = <<>>],
                                      IF j.fan[n] = Unavailable THEN 503 ELSE j.fan[n]))
    /\ UNCHANGED <<scenario, token, log, blobs>> /\ NoFault

----------------------------------------------------------------------------
\* What happens around the handlers.

ExpireToken ==
    /\ token /\ scenario.expires /\ token' = FALSE
    /\ UNCHANGED <<scenario, log, blobs, jobs, faults, restarted>>

\* A node stops and starts again: what was not saved is gone, its handlers with it.
Restart(n) ==
    /\ Fault
    /\ log' = [log EXCEPT ![n] = <<Durable(n)>>]
    /\ restarted' = restarted \cup {n}
    /\ jobs' = LET kept == {k \in DOMAIN jobs : jobs[k].at = n => ~IsForwarded(k)}
               IN [k \in kept |-> IF jobs[k].at = n /\ jobs[k].pc \notin {"new", "done"}
                                  THEN [jobs[k] EXCEPT !.pc = "done", !.status = 0, !.child = <<>>, !.fan = <<>>]
                                  ELSE jobs[k]]
    /\ UNCHANGED <<scenario, token, blobs>>

Step(k) ==
    \/ Receive(k) \/ BeginRead(k) \/ BeginObjects(k) \/ BeginFile(k) \/ ReadBlob(k) \/ PutBlob(k) \/ Save(k) \/ Unlink(k)
    \/ Send(k) \/ Return(k) \/ Disconnected(k)
    \/ BeginDrop(k) \/ BeginCreate(k) \/ FanOut(k) \/ FanReturn(k) \/ FanDone(k)

Failure(k) ==
    Refuse(k) \/ PutBlobFails(k) \/ SaveFails(k) \/ Unreachable(k) \/ TimesOut(k)

Next ==
    \/ \E k \in DOMAIN jobs : Step(k) \/ Failure(k)
    \/ ExpireToken
    \/ \E n \in Nodes : Restart(n)

\* Some handler that can go on goes on: the event loop runs what is ready.
Spec == Init /\ [][Next]_vars /\ WF_vars(\E k \in DOMAIN jobs : Step(k))

----------------------------------------------------------------------------
\* Properties.

Files == {NoFile} \cup ({0} \cup Requests) \X ({0} \cup Nodes) \X Ids
Row == [x : {-1, 0} \cup Requests, y : {-1, 0} \cup Requests, file : Files]

JobType(j) ==
    /\ j.op \in ObjectOps \cup ScopeOps /\ j.form \in Forms /\ j.at \in Nodes
    /\ j.pc \in {"new", "body", "read", "put", "send", "wait", "save", "unlink", "fan",
                 "fanned", "done"}
    /\ DOMAIN j.rows \subseteq Ids /\ \A id \in DOMAIN j.rows : j.rows[id] \in Row
    /\ j.olds \cup {j.before} \subseteq Files
    /\ j.wrote \subseteq j.did /\ j.part \in Nat /\ j.count \in Nat

\* What the variables range over; a dropped scope holds nothing.
TypeOK ==
    /\ scenario \in Scenarios /\ token \in BOOLEAN
    /\ faults \in 0..MaxFaults /\ restarted \subseteq Nodes
    /\ \A n \in Nodes : \A i \in DOMAIN log[n] :
          /\ log[n][i].rows \in [Ids -> Row]
          /\ log[n][i].live \subseteq Scopes /\ log[n][i].gone \subseteq Scopes
          /\ log[n][i].live \cap log[n][i].gone = {}
          /\ log[n][i].live # Scopes => log[n][i].rows = NoRows
          /\ log[n][i].ops \subseteq Requests \X (Ids \cup Scopes)
    /\ \A k \in DOMAIN jobs : JobType(jobs[k])

\* A handler that has answered - with success or with an error - and was not told
\* that saving failed has everything it wrote here saved: an error on a later shard
\* does not leave earlier local writes to chance (the catch of the routed writes).
AnsweredIsDurable ==
    \A k \in DOMAIN jobs :
       jobs[k].pc = "done" /\ jobs[k].status # 0 /\ ~jobs[k].unsaved
       => jobs[k].did \subseteq Durable(jobs[k].at).ops

\* No answer counts more objects than some owner has saved, whichever attempts were
\* retried and wherever a stream broke off.  (A stream may name an object in two of its
\* chunks and counts it twice; it is excepted.)
NamesOnce(r) ==
    /\ Req(r).op \in ObjectOps
    /\ LET chunks == Req(r).chunks
       IN \A i, h \in DOMAIN chunks :
             i # h => (UNION Range(chunks[i])) \cap (UNION Range(chunks[h])) = {}

ReportedIsSaved ==
    \A r \in Requests :
       LET j == jobs[RootKey(r)]
       IN NamesOnce(r) /\ j.pc = "done" /\ j.status # 0 =>
          Reported(j) <= Cardinality({id \in Ids : \E n \in Nodes : <<r, id>> \in Durable(n).ops})

\* API.md:114: a 401 with operationStarted false permits the client to send the
\* request again, so the first one has had no effect on any node, and never will.
NotStartedMeansNoEffect ==
    \A r \in Requests :
       LET j == jobs[RootKey(r)]
       IN j.status = 401 /\ ~j.started =>
          \A n \in Nodes : \A i \in DOMAIN log[n] : \A o \in log[n][i].ops : o[1] # r

\* A patch changes the field it names and nothing else of what the object is at that
\* moment, unless it waited for another shard after it was compiled (a bulk patch, or
\* a chunk of a stream, whose first objects are elsewhere).
CompiledEarly(r, n) ==
    /\ Req(r).form # "single" /\ Req(r).at = n
    /\ \E chunk \in Range(Req(r).chunks) : n \notin Range(Owners[ShardOfGroup(Head(chunk))])

PatchKeepsOtherFields ==
    [][\A r \in Requests, n \in Nodes, id \in Ids :
          /\ Req(r).op = "patch" /\ ~CompiledEarly(r, n)
          /\ <<r, id>> \in Last(log'[n]).ops \ Mem(n).ops
          => Last(log'[n]).rows[id] = [Mem(n).rows[id] EXCEPT !.x = r]]_vars

\* The file an object names is in storage: uploads put it before they write the
\* object, and no replace, patch or delete, however they overlap, deletes a file that
\* is in use.  For objects with one owner, while nothing is dropped and the owner has
\* not restarted; bulk patches compiled early are excepted.
RowsHaveTheirBlobs ==
    \A n \in Nodes \ restarted, id \in Ids :
       /\ Len(Owners[ShardOf[id]]) = 1 /\ Present(Mem(n).rows[id])
       /\ \A r \in Requests : Req(r).op \notin {"dropDb", "dropColl"}
                              /\ (Req(r).op = "patch" => ~CompiledEarly(r, n))
       => Mem(n).rows[id].file \in blobs \cup {NoFile}

\* An acknowledged drop is saved on every node, also when nodes fail while it runs.
\* (A second drop of the same scope relies on the first and is excepted.)
DroppedEverywhere ==
    \A r \in Requests :
       /\ Req(r).op \in {"dropDb", "dropColl"} /\ Ok(jobs[RootKey(r)].status)
       /\ \A q \in Requests \ {r} : Req(q).op \notin {"dropDb", "dropColl"}
       => \A n \in Nodes : <<r, ScopeOf(Req(r).op)>> \in Durable(n).ops

\* An object whose creation was acknowledged before a lookup began is found, wherever
\* it was stored, unless an owner gave no answer.  (A node that owns the shard answers
\* alone; one of several owners may not have the object yet.)
NothingRemoved == \A q \in Requests : Req(q).op \notin {"remove", "dropDb", "dropColl"}

FoundUnlessUnanswered ==
    \A r \in Requests :
       LET j == jobs[RootKey(r)]  id == Object(Req(r).chunks)
       IN /\ NothingRemoved /\ Req(r).op = "get" /\ j.status = 404 /\ ~j.missed
          /\ Local(Req(r).at, id) => Len(Owners[ShardOf[id]]) = 1
          => id \notin j.known

\* Every request is answered, or its node restarts: retries come to an end and no
\* two nodes wait for each other.
EveryRequestEnds == <>(\A r \in Requests : jobs[RootKey(r)].pc = "done")

=============================================================================
