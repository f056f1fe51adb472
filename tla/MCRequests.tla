----------------------------- MODULE MCRequests -----------------------------
(***************************************************************************)
(* A small cluster for Requests: node 1 owns shard s1 with object a, nodes  *)
(* 2 and 3 own shard s2 with object b, and pairs of requests that meet.     *)
(***************************************************************************)
EXTENDS Requests

CONSTANTS a, b

MCShardOf == [id \in {a, b} |-> IF id = a THEN "s1" ELSE "s2"]
MCOwners == [sh \in {"s1", "s2"} |-> IF sh = "s1" THEN <<1>> ELSE <<2, 3>>]

R(op, form, at, chunks) == [op |-> op, form |-> form, at |-> at, chunks |-> chunks]
One(op, at, id) == R(op, "single", at, << <<{id}>> >>)
File(op, at) == R(op, "file", at, << <<{a}>> >>)
Bulk(op, at, ids) == R(op, "bulk", at, <<ids>>)
Stream(op, at, chunks) == R(op, "stream", at, chunks)
Schema(op, at) == R(op, "single", at, <<>>)

Given(present, requests) == [present |-> present, requests |-> requests, expires |-> FALSE]
Expiring(present, requests) == [present |-> present, requests |-> requests, expires |-> TRUE]

MCScenarios == {
    Given({a}, <<One("patch", 2, a), One("replace", 1, a)>>),
    Given({a, b}, <<Bulk("patch", 1, <<{b}, {a}>>), One("patch", 1, a)>>),
    Given({}, <<Bulk("create", 1, <<{a}, {b}>>), One("create", 1, a)>>),
    Expiring({b}, <<Bulk("create", 1, <<{a}, {b}>>)>>),
    Expiring({b}, <<Bulk("patch", 1, <<{b}, {a}>>)>>),
    Expiring({}, <<Stream("create", 1, << <<{a}>>, <<{b}>> >>)>>),
    Given({a, b}, <<Stream("replace", 2, << <<{b}, {a}>> >>), One("patch", 1, a)>>),
    Given({a, b}, <<Bulk("remove", 1, <<{b}, {a}>>), File("replace", 1)>>),
    Given({a}, <<File("replace", 1), One("patch", 1, a)>>),
    Given({a}, <<File("replace", 1), File("replace", 2)>>),
    Given({a}, <<File("replace", 1), One("remove", 1, a)>>),
    Given({a}, <<File("replace", 1), One("blob", 2, a)>>),
    Given({}, <<File("create", 1), One("create", 1, a)>>),
    Given({}, <<One("create", 1, b), One("get", 1, b)>>),
    Given({a, b}, <<Schema("dropColl", 1), Schema("createColl", 2)>>),
    Given({a}, <<Schema("dropDb", 1), Schema("createColl", 1)>>),
    Given({a}, <<Schema("dropColl", 1), Bulk("create", 1, <<{b}>>)>>),
    Given({a}, <<Schema("dropDb", 1), Schema("dropColl", 1)>>),
    Given({a}, <<Schema("dropColl", 1), Schema("dropColl", 2)>>),
    Given({a}, <<Schema("createDb", 1), One("patch", 1, a)>>)}
=============================================================================
