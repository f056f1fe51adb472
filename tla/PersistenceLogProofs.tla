----------------------- MODULE PersistenceLogProofs -----------------------
(***************************************************************************)
(* Theorems about module Persistence: what the local log has acknowledged   *)
(* can be recovered from storage and log at any moment, provided that no    *)
(* append overtakes a truncation.                                           *)
(*                                                                          *)
(* The argument.  Every acknowledged operation of this process is either in *)
(* the log, or settled in storage.  In the log means that no removal was    *)
(* recorded after it, and that its collection was there when it was         *)
(* recorded, whatever tombstones storage may hold by the time of a restart. *)
(* Settled means that no flush will touch it, and that the log that remains *)
(* removes nothing.  Between the decision to truncate the log and the       *)
(* truncation, both hold, for the log and for what would remain of it.      *)
(***************************************************************************)
EXTENDS PersistenceProofs

Removals == {"dropDatabase", "dropCollection"}

\* After k - 1 records, a database or collection is there: none of its removals is
\* the last word, nor is a tombstone in storage.
Present(s, k, drop, create, tomb) ==
    /\ tomb => \E m \in 1..k-1 : s[m].type = create
    /\ \A j \in 1..k-1 : s[j].type = drop => \E m \in j+1..k-1 : s[m].type = create

\* The replay of s applies the operation that record k holds.
Stays(s, k, db, coll) ==
    /\ \A j \in k+1..Len(s) : s[j].type \notin Removals
    /\ Present(s, k, "dropDatabase", "database", db)
    /\ Present(s, k, "dropCollection", "meta", coll)

\* What memory shows as there is there after the file and the queue, and the operations
\* of the queue that memory shows will be applied.
Fits(w, q, m, known, db, coll) ==
    /\ ~m.dbGone => Present(w \o q, Len(w) + Len(q) + 1, "dropDatabase", "database", db)
    /\ ~m.collGone => Present(w \o q, Len(w) + Len(q) + 1, "dropCollection", "meta", coll)
    /\ \A k \in 1..Len(q) :
          q[k].type = "ops" /\ q[k].op \in known => Stays(w \o q, Len(w) + k, db, coll)

\* An operation is in the file, and will be applied if the queue gets there too.
Logged(o, w, q, db, coll) ==
    \E k \in 1..Len(w) : /\ w[k].type = "ops" /\ w[k].op = o
                         /\ Stays(w \o q, k, db, coll)

Lasting(s) == \A k \in 1..Len(s) : s[k].type \notin Removals

----------------------------------------------------------------------------
\* Sequences of records.

LEMMA ConcatFacts ==
    ASSUME NEW s \in Seq(Record), NEW t \in Seq(Record)
    PROVE  /\ s \o t \in Seq(Record) /\ Len(s) \in Nat /\ Len(t) \in Nat
           /\ Len(s \o t) = Len(s) + Len(t)
           /\ \A i \in 1..Len(s) : (s \o t)[i] = s[i]
           /\ \A i \in 1..Len(t) : (s \o t)[Len(s) + i] = t[i]
<1>1. Len(s) \in Nat /\ Len(t) \in Nat  BY LenProperties
<1>2. /\ s \o t \in Seq(Record) /\ Len(s \o t) = Len(s) + Len(t)
      /\ \A i \in 1..Len(s) + Len(t) :
            (s \o t)[i] = IF i <= Len(s) THEN s[i] ELSE t[i - Len(s)]
    BY ConcatProperties
<1>3. ASSUME NEW i \in 1..Len(s) PROVE (s \o t)[i] = s[i]
    <2>1. i \in 1..Len(s) + Len(t) /\ i <= Len(s)  BY <1>1
    <2> QED  BY <1>2, <2>1
<1>4. ASSUME NEW i \in 1..Len(t) PROVE (s \o t)[Len(s) + i] = t[i]
    <2>1. /\ Len(s) + i \in 1..Len(s) + Len(t) /\ ~(Len(s) + i <= Len(s))
          /\ Len(s) + i - Len(s) = i
        BY <1>1
    <2> QED  BY <1>2, <2>1
<1> QED  BY <1>1, <1>2, <1>3, <1>4

LEMMA OneRecord ==
    ASSUME NEW r \in Record
    PROVE  <<r>> \in Seq(Record) /\ Len(<<r>>) = 1 /\ <<r>>[1] = r
OBVIOUS

LEMMA ConcatOne ==
    ASSUME NEW s \in Seq(Record), NEW r \in Record
    PROVE  /\ s \o <<r>> \in Seq(Record) /\ Len(s) \in Nat
           /\ Len(s \o <<r>>) = Len(s) + 1
           /\ \A i \in 1..Len(s) : (s \o <<r>>)[i] = s[i]
           /\ (s \o <<r>>)[Len(s) + 1] = r
<1>1. <<r>> \in Seq(Record) /\ Len(<<r>>) = 1 /\ <<r>>[1] = r  BY OneRecord
<1> DEFINE e == <<r>>
<1> HIDE DEF e
<1>2. /\ s \o e \in Seq(Record) /\ Len(s) \in Nat /\ Len(s \o e) = Len(s) + Len(e)
      /\ \A i \in 1..Len(s) : (s \o e)[i] = s[i]
      /\ \A i \in 1..Len(e) : (s \o e)[Len(s) + i] = e[i]
    BY <1>1, ConcatFacts DEF e
<1>3. Len(e) = 1 /\ e[1] = r  BY <1>1 DEF e
<1>4. (s \o e)[Len(s) + 1] = r
    <2>1. 1 \in 1..Len(e)  BY <1>3
    <2> QED  BY <1>2, <1>3, <2>1
<1> QED  BY <1>2, <1>3, <1>4 DEF e

\* Being there depends on what precedes only.
LEMMA PresentPrefix ==
    ASSUME NEW s, NEW t, NEW k \in Nat, NEW drop, NEW create, NEW tomb,
           \A j \in 1..k-1 : s[j] = t[j],
           Present(s, k, drop, create, tomb)
    PROVE  Present(t, k, drop, create, tomb)
BY DEF Present

LEMMA PresentWeaker ==
    ASSUME NEW s, NEW k, NEW drop, NEW create, NEW tomb, NEW less, less => tomb,
           Present(s, k, drop, create, tomb)
    PROVE  Present(s, k, drop, create, less)
BY DEF Present

\* What precedes can be summed up in one bit.
LEMMA PresentSplit ==
    ASSUME NEW s \in Seq(Record), NEW q \in Seq(Record), NEW k \in 1..Len(q) + 1,
           NEW drop, NEW create, NEW tomb
    PROVE  Present(s \o q, Len(s) + k, drop, create, tomb)
           <=> Present(q, k, drop, create, ~Present(s, Len(s) + 1, drop, create, tomb))
<1> DEFINE t == s \o q
           n == Len(s)
           there == Present(s, n + 1, drop, create, tomb)
<1>1. n \in Nat /\ Len(q) \in Nat /\ k \in Nat  BY LenProperties
<1>2. \A i \in 1..n : t[i] = s[i]  BY ConcatFacts
<1>3. \A i \in 1..k-1 : t[n + i] = q[i]
    <2>1. \A i \in 1..k-1 : i \in 1..Len(q)  BY <1>1
    <2> QED  BY <2>1, ConcatFacts
<1>4. \A i \in 1..n+k-1 : i \in 1..n \/ \E j \in 1..k-1 : i = n + j
    <2> TAKE i \in 1..n+k-1
    <2>1. CASE i <= n  BY <1>1, <2>1
    <2>2. CASE ~(i <= n)
        <3>1. i - n \in 1..k-1 /\ i = n + (i - n)  BY <1>1, <2>2
        <3> QED  BY <3>1
    <2> QED  BY <2>1, <2>2
<1>5. there <=> /\ tomb => \E m \in 1..n : s[m].type = create
                /\ \A j \in 1..n : s[j].type = drop => \E m \in j+1..n : s[m].type = create
    <2>1. n + 1 - 1 = n  BY <1>1
    <2> QED  BY <2>1 DEF Present
<1> HIDE DEF there, t
<1>6. ASSUME Present(t, n + k, drop, create, tomb)
      PROVE  Present(q, k, drop, create, ~there)
    <2>1. /\ tomb => \E m \in 1..n+k-1 : t[m].type = create
          /\ \A j \in 1..n+k-1 : t[j].type = drop => \E m \in j+1..n+k-1 : t[m].type = create
        BY <1>6 DEF Present
    <2>2. ASSUME ~there PROVE \E m \in 1..k-1 : q[m].type = create
        <3>1. CASE tomb /\ \A m \in 1..n : s[m].type # create
            <4>1. PICK m \in 1..n+k-1 : t[m].type = create  BY <2>1, <3>1
            <4>2. m \notin 1..n  BY <1>2, <3>1, <4>1
            <4> QED  BY <1>3, <1>4, <4>1, <4>2
        <3>2. ASSUME NEW j \in 1..n, s[j].type = drop,
                     \A m \in j+1..n : s[m].type # create
              PROVE  \E m \in 1..k-1 : q[m].type = create
            <4>1. j \in 1..n+k-1 /\ t[j].type = drop  BY <1>1, <1>2, <3>2
            <4>2. PICK m \in j+1..n+k-1 : t[m].type = create  BY <2>1, <4>1
            <4>3. m \in 1..n+k-1  BY <1>1
            <4>4. m \notin 1..n
                <5>1. m \in 1..n => m \in j+1..n  BY <1>1
                <5> QED  BY <1>2, <3>2, <4>2, <5>1
            <4> QED  BY <1>3, <1>4, <4>2, <4>3, <4>4
        <3> QED  BY <1>5, <2>2, <3>1, <3>2
    <2>3. ASSUME NEW j \in 1..k-1, q[j].type = drop
          PROVE  \E m \in j+1..k-1 : q[m].type = create
        <3>1. n + j \in 1..n+k-1 /\ t[n + j].type = drop  BY <1>1, <1>3, <2>3
        <3>2. PICK m \in n+j+1..n+k-1 : t[m].type = create  BY <2>1, <3>1
        <3>3. m - n \in j+1..k-1 /\ m - n \in 1..k-1 /\ n + (m - n) = m  BY <1>1, <3>2
        <3>4. t[n + (m - n)] = q[m - n]  BY <1>3, <3>3
        <3> QED  BY <3>2, <3>3, <3>4
    <2> QED  BY <2>2, <2>3 DEF Present
<1>7. ASSUME Present(q, k, drop, create, ~there)
      PROVE  Present(t, n + k, drop, create, tomb)
    <2>1. /\ ~there => \E m \in 1..k-1 : q[m].type = create
          /\ \A j \in 1..k-1 : q[j].type = drop => \E m \in j+1..k-1 : q[m].type = create
        BY <1>7 DEF Present
    <2>2. \A m \in 1..k-1 : n + m \in 1..n+k-1 /\ \A j \in 1..n : n + m \in j+1..n+k-1
        BY <1>1
    <2>3. ASSUME tomb PROVE \E m \in 1..n+k-1 : t[m].type = create
        <3>1. CASE there
            <4>1. PICK m \in 1..n : s[m].type = create  BY <1>5, <2>3, <3>1
            <4>2. m \in 1..n+k-1  BY <1>1
            <4> QED  BY <1>2, <4>1, <4>2
        <3>2. CASE ~there
            <4>1. PICK m \in 1..k-1 : q[m].type = create  BY <2>1, <3>2
            <4> QED  BY <1>3, <2>2, <4>1
        <3> QED  BY <3>1, <3>2
    <2>4. ASSUME NEW j \in 1..n+k-1, t[j].type = drop
          PROVE  \E m \in j+1..n+k-1 : t[m].type = create
        <3>1. CASE j \in 1..n
            <4>1. CASE there
                <5>1. PICK m \in j+1..n : s[m].type = create
                    BY <1>2, <1>5, <2>4, <3>1, <4>1
                <5>2. m \in j+1..n+k-1 /\ m \in 1..n  BY <1>1, <3>1
                <5> QED  BY <1>2, <5>1, <5>2
            <4>2. CASE ~there
                <5>1. PICK m \in 1..k-1 : q[m].type = create  BY <2>1, <4>2
                <5> QED  BY <1>3, <2>2, <3>1, <5>1
            <4> QED  BY <4>1, <4>2
        <3>2. CASE j \notin 1..n
            <4>1. PICK i \in 1..k-1 : j = n + i  BY <1>4, <3>2
            <4>2. q[i].type = drop  BY <1>3, <2>4, <4>1
            <4>3. PICK m \in i+1..k-1 : q[m].type = create  BY <2>1, <4>2
            <4>4. m \in 1..k-1 /\ n + m \in j+1..n+k-1  BY <1>1, <4>1
            <4> QED  BY <1>3, <4>3, <4>4
        <3> QED  BY <3>1, <3>2
    <2> QED  BY <2>3, <2>4 DEF Present
<1> QED  BY <1>6, <1>7 DEF there, t

LEMMA PresentAppend ==
    ASSUME NEW s \in Seq(Record), NEW r \in Record,
           NEW drop, NEW create, NEW tomb, drop # create,
           \/ r.type = create
           \/ r.type # drop /\ Present(s, Len(s) + 1, drop, create, tomb)
    PROVE  Present(s \o <<r>>, Len(s) + 2, drop, create, tomb)
<1>1. <<r>> \in Seq(Record) /\ 2 \in 1..Len(<<r>>) + 1 /\ <<r>>[1] = r  BY OneRecord
<1>2. Present(<<r>>, 2, drop, create, ~Present(s, Len(s) + 1, drop, create, tomb))
    <2>1. 1..2-1 = {1} /\ \A j \in 1..2-1 : j = 1  OBVIOUS
    <2>2. ~Present(s, Len(s) + 1, drop, create, tomb) => r.type = create  OBVIOUS
    <2>3. r.type # drop  OBVIOUS
    <2> QED  BY <1>1, <2>1, <2>2, <2>3 DEF Present
<1> QED  BY <1>1, <1>2, PresentSplit

\* The same, with the file and the queue told apart.
LEMMA PresentQueued ==
    ASSUME NEW w \in Seq(Record), NEW q \in Seq(Record), NEW r \in Record,
           NEW drop, NEW create, NEW tomb, drop # create,
           \/ r.type = create
           \/ r.type # drop /\ Present(w \o q, Len(w) + Len(q) + 1, drop, create, tomb)
    PROVE  Present(w \o (q \o <<r>>), Len(w) + Len(q \o <<r>>) + 1, drop, create, tomb)
<1>1. w \o q \in Seq(Record) /\ Len(w \o q) = Len(w) + Len(q)  BY ConcatFacts
<1>2. <<r>> \in Seq(Record) /\ Len(<<r>>) = 1  BY OneRecord
<1>3. (w \o q) \o <<r>> = w \o (q \o <<r>>)  BY <1>2, ConcatAssociative
<1>4. Len(q \o <<r>>) = Len(q) + 1  BY <1>2, ConcatFacts
<1>5. Len(w) + Len(q) + 2 = Len(w) + (Len(q) + 1) + 1  BY ConcatFacts
<1> QED  BY <1>1, <1>3, <1>4, <1>5, PresentAppend

LEMMA StaysQueued ==
    ASSUME NEW w \in Seq(Record), NEW q \in Seq(Record), NEW r \in Record,
           NEW k \in 1..Len(w) + Len(q), NEW db, NEW coll,
           Stays(w \o q, k, db, coll), r.type \notin Removals
    PROVE  Stays(w \o (q \o <<r>>), k, db, coll)
<1> DEFINE s == w \o q
           t == w \o (q \o <<r>>)
<1>1. /\ s \in Seq(Record) /\ Len(s) = Len(w) + Len(q)
      /\ Len(w) \in Nat /\ Len(q) \in Nat
    BY ConcatFacts
<1>2. t = s \o <<r>>
    <2>1. <<r>> \in Seq(Record)  BY OneRecord
    <2> QED  BY <2>1, ConcatAssociative
<1> HIDE DEF s, t
<1>3. Len(t) = Len(s) + 1  BY <1>1, <1>2, ConcatOne
<1>4. \A i \in 1..Len(s) : t[i] = s[i]  BY <1>1, <1>2, ConcatOne
<1>5. t[Len(s) + 1] = r  BY <1>1, <1>2, ConcatOne
<1>6. \A j \in k+1..Len(t) : t[j].type \notin Removals
    <2>1. \A j \in k+1..Len(s) : s[j].type \notin Removals  BY DEF Stays, s
    <2> TAKE j \in k+1..Len(t)
    <2>2. j \in k+1..Len(s) \/ j = Len(s) + 1  BY <1>1, <1>3
    <2>3. j \in k+1..Len(s) => j \in 1..Len(s)  BY <1>1
    <2> QED  BY <1>4, <1>5, <2>1, <2>2, <2>3
<1>7. \A j \in 1..k-1 : t[j] = s[j]
    <2>1. \A j \in 1..k-1 : j \in 1..Len(s)  BY <1>1
    <2> QED  BY <1>4, <2>1
<1>8. k \in Nat  BY <1>1
<1>9. /\ Present(s, k, "dropDatabase", "database", db)
      /\ Present(s, k, "dropCollection", "meta", coll)
    BY DEF Stays, s
<1>10. /\ Present(t, k, "dropDatabase", "database", db)
       /\ Present(t, k, "dropCollection", "meta", coll)
    BY <1>7, <1>8, <1>9, PresentPrefix
<1> QED  BY <1>6, <1>10 DEF Stays, t

LEMMA StaysWeaker ==
    ASSUME NEW s, NEW k, NEW db, NEW coll, NEW db2, NEW coll2,
           db2 => db, coll2 => coll, Stays(s, k, db, coll)
    PROVE  Stays(s, k, db2, coll2)
BY PresentWeaker DEF Stays

LEMMA FitsWeaker ==
    ASSUME NEW w, NEW q, NEW m, NEW m2, NEW known, NEW known2,
           NEW db, NEW db2, NEW coll, NEW coll2,
           Fits(w, q, m, known, db, coll),
           m.dbGone => m2.dbGone, m.collGone => m2.collGone,
           known2 \subseteq known, db2 => db, coll2 => coll
    PROVE  Fits(w, q, m2, known2, db2, coll2)
<1>1. ~m2.dbGone => Present(w \o q, Len(w) + Len(q) + 1, "dropDatabase", "database", db2)
    BY PresentWeaker DEF Fits
<1>2. ~m2.collGone => Present(w \o q, Len(w) + Len(q) + 1, "dropCollection", "meta", coll2)
    BY PresentWeaker DEF Fits
<1>3. \A k \in 1..Len(q) : q[k].type = "ops" /\ q[k].op \in known2 =>
          Stays(w \o q, Len(w) + k, db2, coll2)
    BY StaysWeaker DEF Fits
<1> QED  BY <1>1, <1>2, <1>3 DEF Fits

\* A record that removes nothing is queued.
LEMMA FitsQueued ==
    ASSUME NEW w \in Seq(Record), NEW q \in Seq(Record), NEW r \in Record,
           NEW m, NEW m2, NEW known, NEW known2,
           NEW db, NEW db2, NEW coll, NEW coll2, db2 => db, coll2 => coll,
           Fits(w, q, m, known, db, coll), r.type \notin Removals,
           ~m2.dbGone => ~m.dbGone \/ r.type = "database",
           ~m2.collGone => ~m.collGone \/ r.type = "meta",
           r.type = "ops" => ~m.dbGone /\ ~m.collGone,
           \A k \in 1..Len(q) : q[k].type = "ops" /\ q[k].op \in known2 => q[k].op \in known
    PROVE  Fits(w, q \o <<r>>, m2, known2, db2, coll2)
<1> DEFINE q2 == q \o <<r>>
<1>1. <<r>> \in Seq(Record)  BY OneRecord
<1>2. /\ Len(w) \in Nat /\ Len(q) \in Nat /\ Len(q2) = Len(q) + 1
      /\ \A i \in 1..Len(q) : q2[i] = q[i]
    BY LenProperties, ConcatOne
<1>3. q2[Len(q) + 1] = r  BY ConcatOne
<1>4. /\ "dropDatabase" # "database" /\ "dropCollection" # "meta"
      /\ r.type # "dropDatabase" /\ r.type # "dropCollection"
    BY DEF Removals
<1>5. ~m2.dbGone => Present(w \o q2, Len(w) + Len(q2) + 1, "dropDatabase", "database", db2)
    <2>1. ASSUME ~m2.dbGone
          PROVE  Present(w \o q2, Len(w) + Len(q2) + 1, "dropDatabase", "database", db)
        BY <1>4, <2>1, PresentQueued DEF Fits
    <2> QED  BY <2>1, PresentWeaker
<1>6. ~m2.collGone => Present(w \o q2, Len(w) + Len(q2) + 1, "dropCollection", "meta", coll2)
    <2>1. ASSUME ~m2.collGone
          PROVE  Present(w \o q2, Len(w) + Len(q2) + 1, "dropCollection", "meta", coll)
        BY <1>4, <2>1, PresentQueued DEF Fits
    <2> QED  BY <2>1, PresentWeaker
<1>7. ASSUME NEW k \in 1..Len(q2), q2[k].type = "ops", q2[k].op \in known2
      PROVE  Stays(w \o q2, Len(w) + k, db2, coll2)
    <2>1. CASE k \in 1..Len(q)
        <3>1. q[k].type = "ops" /\ q[k].op \in known  BY <1>2, <1>7, <2>1
        <3>2. Stays(w \o q, Len(w) + k, db, coll)  BY <2>1, <3>1 DEF Fits
        <3>3. Len(w) + k \in 1..Len(w) + Len(q)  BY <1>2, <2>1
        <3>4. Stays(w \o q2, Len(w) + k, db, coll)  BY <3>2, <3>3, StaysQueued
        <3> QED  BY <3>4, StaysWeaker
    <2>2. CASE k = Len(q) + 1
        <3>1. ~m.dbGone /\ ~m.collGone  BY <1>3, <1>7, <2>2
        <3> DEFINE s == w \o q
                   t == w \o q2
        <3>2. t = s \o <<r>>  BY <1>1, ConcatAssociative
        <3>3. s \in Seq(Record) /\ Len(s) = Len(w) + Len(q)  BY ConcatFacts
        <3>4. /\ Present(s, Len(s) + 1, "dropDatabase", "database", db)
              /\ Present(s, Len(s) + 1, "dropCollection", "meta", coll)
            BY <3>1, <3>3 DEF Fits
        <3> HIDE DEF s, t, q2
        <3>5. \A i \in 1..Len(s) : t[i] = s[i]  BY <3>2, <3>3, ConcatOne
        <3>6. Len(t) = Len(s) + 1  BY <3>2, <3>3, ConcatOne
        <3>7. Len(s) + 1 \in Nat /\ Len(s) + 1 - 1 = Len(s)  BY <1>2, <3>3
        <3>8. /\ Present(t, Len(s) + 1, "dropDatabase", "database", db)
              /\ Present(t, Len(s) + 1, "dropCollection", "meta", coll)
            BY <3>4, <3>5, <3>7, PresentPrefix
        <3>9. /\ Present(t, Len(s) + 1, "dropDatabase", "database", db2)
              /\ Present(t, Len(s) + 1, "dropCollection", "meta", coll2)
            BY <3>8, PresentWeaker
        <3>10. Len(w) + k = Len(s) + 1  BY <1>2, <2>2, <3>3
        <3>11. \A j \in Len(s)+1+1..Len(t) : FALSE  BY <1>2, <3>3, <3>6
        <3> QED  BY <3>9, <3>10, <3>11 DEF Stays, t
    <2> QED  BY <1>2, <2>1, <2>2
<1> QED  BY <1>5, <1>6, <1>7 DEF Fits

\* The queue's first records are in the file now.
LEMMA FitsMoved ==
    ASSUME NEW w \in Seq(Record), NEW b \in Seq(Record), NEW p \in Seq(Record),
           NEW m, NEW known, NEW db, NEW coll,
           Fits(w, b \o p, m, known, db, coll)
    PROVE  /\ Fits(w \o b, p, m, known, db, coll)
           /\ \A k \in 1..Len(b) : b[k].type = "ops" /\ b[k].op \in known =>
                  Logged(b[k].op, w \o b, p, db, coll)
<1> DEFINE q == b \o p
           v == w \o b
<1>1. /\ Len(w) \in Nat /\ Len(b) \in Nat /\ Len(p) \in Nat
      /\ Len(q) = Len(b) + Len(p) /\ Len(v) = Len(w) + Len(b)
    BY ConcatFacts
<1>2. v \o p = w \o q  BY ConcatAssociative
<1>3. \A i \in 1..Len(b) : q[i] = b[i]  BY ConcatFacts
<1>4. \A i \in 1..Len(p) : q[Len(b) + i] = p[i]  BY ConcatFacts
<1>5. \A i \in 1..Len(b) : v[Len(w) + i] = b[i]  BY ConcatFacts
<1>6. Len(v) + Len(p) + 1 = Len(w) + Len(q) + 1  BY <1>1
<1> HIDE DEF q, v
<1>7. /\ ~m.dbGone => Present(v \o p, Len(v) + Len(p) + 1, "dropDatabase", "database", db)
      /\ ~m.collGone => Present(v \o p, Len(v) + Len(p) + 1, "dropCollection", "meta", coll)
    BY <1>2, <1>6 DEF Fits, q
<1>8. \A k \in 1..Len(q) : q[k].type = "ops" /\ q[k].op \in known =>
          Stays(v \o p, Len(w) + k, db, coll)
    BY <1>2 DEF Fits, q
<1>9. ASSUME NEW k \in 1..Len(p), p[k].type = "ops", p[k].op \in known
      PROVE  Stays(v \o p, Len(v) + k, db, coll)
    <2>1. Len(b) + k \in 1..Len(q) /\ Len(w) + (Len(b) + k) = Len(v) + k  BY <1>1
    <2> QED  BY <1>4, <1>8, <1>9, <2>1
<1>10. ASSUME NEW k \in 1..Len(b), b[k].type = "ops", b[k].op \in known
       PROVE  Logged(b[k].op, v, p, db, coll)
    <2>1. k \in 1..Len(q) /\ Len(w) + k \in 1..Len(v)  BY <1>1
    <2>2. Stays(v \o p, Len(w) + k, db, coll)  BY <1>3, <1>8, <1>10, <2>1
    <2>3. v[Len(w) + k] = b[k]  BY <1>5
    <2> QED  BY <1>10, <2>1, <2>2, <2>3 DEF Logged
<1> QED  BY <1>7, <1>9, <1>10 DEF Fits, q, v

LEMMA LoggedMoved ==
    ASSUME NEW w \in Seq(Record), NEW b \in Seq(Record), NEW p \in Seq(Record),
           NEW o, NEW db, NEW coll, Logged(o, w, b \o p, db, coll)
    PROVE  Logged(o, w \o b, p, db, coll)
<1>1. PICK k \in 1..Len(w) : /\ w[k].type = "ops" /\ w[k].op = o
                             /\ Stays(w \o (b \o p), k, db, coll)
    BY DEF Logged
<1>2. w \o (b \o p) = (w \o b) \o p  BY ConcatAssociative
<1>3. k \in 1..Len(w \o b)  BY ConcatFacts
<1>4. (w \o b)[k] = w[k]  BY ConcatFacts
<1> QED  BY <1>1, <1>2, <1>3, <1>4 DEF Logged

LEMMA LoggedQueued ==
    ASSUME NEW w \in Seq(Record), NEW q \in Seq(Record), NEW r \in Record,
           NEW o, NEW db, NEW coll, Logged(o, w, q, db, coll), r.type \notin Removals
    PROVE  Logged(o, w, q \o <<r>>, db, coll)
<1>1. PICK k \in 1..Len(w) : /\ w[k].type = "ops" /\ w[k].op = o
                             /\ Stays(w \o q, k, db, coll)
    BY DEF Logged
<1>2. k \in 1..Len(w) + Len(q)  BY ConcatFacts
<1> QED  BY <1>1, <1>2, StaysQueued DEF Logged

LEMMA LoggedWeaker ==
    ASSUME NEW w, NEW q, NEW o, NEW db, NEW coll, NEW db2, NEW coll2,
           db2 => db, coll2 => coll, Logged(o, w, q, db, coll)
    PROVE  Logged(o, w, q, db2, coll2)
BY StaysWeaker DEF Logged

\* Part of the queue is in the file, and will be written there again.
LEMMA PresentExtended ==
    ASSUME NEW w \in Seq(Record), NEW x \in Seq(Record), NEW q \in Seq(Record),
           NEW k \in 1..Len(q) + 1, NEW drop, NEW create, NEW tomb,
           \A i \in 1..Len(x) : x[i].type = drop => \E j \in 1..Len(q) : q[j].type = drop,
           \A j \in k..Len(q) : q[j].type # drop,
           Present(w \o q, Len(w) + k, drop, create, tomb)
    PROVE  Present((w \o x) \o q, Len(w \o x) + k, drop, create, tomb)
<1> DEFINE before == Present(w, Len(w) + 1, drop, create, tomb)
           v == w \o x
           after == Present(v, Len(v) + 1, drop, create, tomb)
<1>1. Len(x) \in Nat /\ Len(q) \in Nat /\ Len(w) \in Nat  BY LenProperties
<1>2. Present(q, k, drop, create, ~before)  BY PresentSplit
<1>3. v \in Seq(Record) /\ Len(v) + 1 = Len(w) + (Len(x) + 1)  BY <1>1, ConcatFacts
<1>4. after <=> Present(x, Len(x) + 1, drop, create, ~before)
    <2>1. Len(x) + 1 \in 1..Len(x) + 1  BY <1>1
    <2> QED  BY <1>3, <2>1, PresentSplit
<1> HIDE DEF before, after, v
<1>5. Present(q, k, drop, create, ~after)
    <2>1. CASE after  BY <1>2, <2>1, PresentWeaker
    <2>2. CASE ~before  BY <1>2, <2>2, PresentWeaker
    <2>3. CASE ~after /\ before
        <3>1. PICK i \in 1..Len(x)+1-1 : x[i].type = drop
            BY <1>4, <2>3 DEF Present
        <3>2. i \in 1..Len(x)  BY <1>1
        <3>3. PICK j \in 1..Len(q) : q[j].type = drop  BY <3>1, <3>2
        <3>4. j \notin k..Len(q)  BY <3>3
        <3>5. j \in 1..k-1  BY <1>1, <3>4
        <3>6. PICK m \in j+1..k-1 : q[m].type = create  BY <1>2, <3>3, <3>5 DEF Present
        <3>7. m \in 1..k-1  BY <3>5
        <3> QED  BY <1>2, <3>6, <3>7 DEF Present
    <2> QED  BY <2>1, <2>2, <2>3
<1> QED  BY <1>3, <1>5, PresentSplit DEF after, v

LEMMA StaysExtended ==
    ASSUME NEW w \in Seq(Record), NEW x \in Seq(Record), NEW q \in Seq(Record),
           NEW k \in 1..Len(q), q[k].type \notin Removals, NEW db, NEW coll,
           \A i \in 1..Len(x) : x[i].type \in Removals =>
               \E j \in 1..Len(q) : q[j].type = x[i].type,
           Stays(w \o q, Len(w) + k, db, coll)
    PROVE  Stays((w \o x) \o q, Len(w \o x) + k, db, coll)
<1> DEFINE s == w \o q
           v == w \o x
           t == v \o q
<1>1. Len(x) \in Nat /\ Len(q) \in Nat /\ Len(w) \in Nat  BY LenProperties
<1>2. Len(s) = Len(w) + Len(q) /\ \A i \in 1..Len(q) : s[Len(w) + i] = q[i]
    BY ConcatFacts
<1>3. v \in Seq(Record) /\ Len(v) \in Nat  BY ConcatFacts
<1> HIDE DEF s, v
<1>4. Len(t) = Len(v) + Len(q) /\ \A i \in 1..Len(q) : t[Len(v) + i] = q[i]
    BY <1>3, ConcatFacts
<1> HIDE DEF t
<1>5. \A j \in Len(w)+k+1..Len(s) : s[j].type \notin Removals  BY DEF Stays, s
<1>6. \A i \in k+1..Len(q) : q[i].type \notin Removals
    <2> TAKE i \in k+1..Len(q)
    <2>1. i \in 1..Len(q) /\ Len(w) + i \in Len(w)+k+1..Len(s)  BY <1>1, <1>2
    <2> QED  BY <1>2, <1>5, <2>1
<1>7. \A i \in k..Len(q) : q[i].type \notin Removals
    <2>1. \A i \in k..Len(q) : i = k \/ i \in k+1..Len(q)  BY <1>1
    <2> QED  BY <1>6, <2>1
<1>8. \A j \in Len(v)+k+1..Len(t) : t[j].type \notin Removals
    <2> TAKE j \in Len(v)+k+1..Len(t)
    <2>1. /\ j - Len(v) \in k+1..Len(q) /\ j - Len(v) \in 1..Len(q)
          /\ Len(v) + (j - Len(v)) = j
        BY <1>1, <1>3, <1>4
    <2> QED  BY <1>4, <1>6, <2>1
<1>9. k \in 1..Len(q) + 1  BY <1>1
<1>10. \A d \in Removals :
          /\ \A i \in 1..Len(x) : x[i].type = d => \E j \in 1..Len(q) : q[j].type = d
          /\ \A j \in k..Len(q) : q[j].type # d
    BY <1>7
<1>11. "dropDatabase" \in Removals /\ "dropCollection" \in Removals  BY DEF Removals
<1>12. Present(t, Len(v) + k, "dropDatabase", "database", db)
    <2>1. Present(w \o q, Len(w) + k, "dropDatabase", "database", db)  BY DEF Stays
    <2> QED  BY <1>9, <1>10, <1>11, <2>1, PresentExtended DEF t, v
<1>13. Present(t, Len(v) + k, "dropCollection", "meta", coll)
    <2>1. Present(w \o q, Len(w) + k, "dropCollection", "meta", coll)  BY DEF Stays
    <2> QED  BY <1>9, <1>10, <1>11, <2>1, PresentExtended DEF t, v
<1> QED  BY <1>8, <1>12, <1>13 DEF Stays, t, v

LEMMA FitsExtended ==
    ASSUME NEW w \in Seq(Record), NEW x \in Seq(Record), NEW q \in Seq(Record),
           NEW m, NEW known, NEW db, NEW coll, Fits(w, q, m, known, db, coll),
           \A i \in 1..Len(x) : x[i].type \in Removals =>
               \E j \in 1..Len(q) : q[j].type = x[i].type
    PROVE  Fits(w \o x, q, m, known, db, coll)
<1>1. Len(q) \in Nat /\ Len(w) \in Nat /\ Len(w \o x) \in Nat  BY ConcatFacts, LenProperties
<1>2. Len(q) + 1 \in 1..Len(q) + 1 /\ \A j \in Len(q)+1..Len(q) : FALSE  BY <1>1
<1>3. \A n \in Nat : n + Len(q) + 1 = n + (Len(q) + 1)  BY <1>1
<1>4. \A d \in Removals :
          \A i \in 1..Len(x) : x[i].type = d => \E j \in 1..Len(q) : q[j].type = d
    OBVIOUS
<1>5. "dropDatabase" \in Removals /\ "dropCollection" \in Removals  BY DEF Removals
<1>6. ASSUME ~m.dbGone
      PROVE  Present((w \o x) \o q, Len(w \o x) + Len(q) + 1, "dropDatabase", "database", db)
    <2>1. Present(w \o q, Len(w) + (Len(q) + 1), "dropDatabase", "database", db)
        BY <1>1, <1>3, <1>6 DEF Fits
    <2>2. Present((w \o x) \o q, Len(w \o x) + (Len(q) + 1), "dropDatabase", "database", db)
        BY <1>2, <1>4, <1>5, <2>1, PresentExtended
    <2> QED  BY <1>1, <1>3, <2>2
<1>7. ASSUME ~m.collGone
      PROVE  Present((w \o x) \o q, Len(w \o x) + Len(q) + 1, "dropCollection", "meta", coll)
    <2>1. Present(w \o q, Len(w) + (Len(q) + 1), "dropCollection", "meta", coll)
        BY <1>1, <1>3, <1>7 DEF Fits
    <2>2. Present((w \o x) \o q, Len(w \o x) + (Len(q) + 1), "dropCollection", "meta", coll)
        BY <1>2, <1>4, <1>5, <2>1, PresentExtended
    <2> QED  BY <1>1, <1>3, <2>2
<1>8. ASSUME NEW k \in 1..Len(q), q[k].type = "ops", q[k].op \in known
      PROVE  Stays((w \o x) \o q, Len(w \o x) + k, db, coll)
    <2>1. q[k].type \notin Removals  BY <1>8 DEF Removals
    <2>2. Stays(w \o q, Len(w) + k, db, coll)  BY <1>8 DEF Fits
    <2> QED  BY <2>1, <2>2, StaysExtended
<1> QED  BY <1>6, <1>7, <1>8 DEF Fits

\* An operation in the file, nothing in the queue that would remove it.
LEMMA LoggedExtended ==
    ASSUME NEW w \in Seq(Record), NEW x \in Seq(Record), NEW q \in Seq(Record),
           NEW q2 \in Seq(Record), NEW o, NEW db, NEW coll, Logged(o, w, q, db, coll),
           \A i \in 1..Len(x) : x[i].type \in Removals =>
               \E j \in 1..Len(q) : q[j].type = x[i].type,
           q2 = q \/ q2 = <<>>
    PROVE  Logged(o, w \o x, q2, db, coll)
<1> DEFINE s == w \o q
           v == w \o x
           t == v \o q2
<1>1. PICK k \in 1..Len(w) : /\ w[k].type = "ops" /\ w[k].op = o
                             /\ Stays(s, k, db, coll)
    BY DEF Logged
<1>2. Len(x) \in Nat /\ Len(q) \in Nat /\ Len(w) \in Nat  BY LenProperties
<1>3. /\ Len(s) = Len(w) + Len(q) /\ \A i \in 1..Len(q) : s[Len(w) + i] = q[i]
      /\ \A i \in 1..Len(w) : s[i] = w[i]
    BY ConcatFacts
<1>4. /\ v \in Seq(Record) /\ Len(v) = Len(w) + Len(x)
      /\ \A i \in 1..Len(x) : v[Len(w) + i] = x[i]
      /\ \A i \in 1..Len(w) : v[i] = w[i]
    BY ConcatFacts
<1> HIDE DEF s, v
<1>5. /\ Len(t) = Len(v) + Len(q2) /\ Len(q2) \in Nat
      /\ \A i \in 1..Len(q2) : t[Len(v) + i] = q2[i]
      /\ \A i \in 1..Len(v) : t[i] = v[i]
    BY <1>4, ConcatFacts
<1> HIDE DEF t
<1>6. \A j \in k+1..Len(s) : s[j].type \notin Removals  BY <1>1 DEF Stays
<1>7. \A i \in 1..Len(q) : q[i].type \notin Removals
    <2> TAKE i \in 1..Len(q)
    <2>1. Len(w) + i \in k+1..Len(s)  BY <1>2, <1>3
    <2> QED  BY <1>3, <1>6, <2>1
<1>8. \A i \in 1..Len(x) : x[i].type \notin Removals  BY <1>7
<1>9. \A i \in 1..Len(q2) : q2[i].type \notin Removals
    <2>1. CASE q2 = q  BY <1>7, <2>1
    <2>2. CASE q2 = <<>>
        <3>1. Len(q2) = 0  BY <2>2, EmptySeq
        <3> QED  BY <3>1
    <2> QED  BY <2>1, <2>2
<1>10. \A j \in k+1..Len(t) : t[j].type \notin Removals
    <2> TAKE j \in k+1..Len(t)
    <2>1. CASE j <= Len(w)
        <3>1. j \in 1..Len(w) /\ j \in 1..Len(v) /\ j \in k+1..Len(s)
            BY <1>2, <1>3, <1>4, <2>1
        <3> QED  BY <1>3, <1>4, <1>5, <1>6, <3>1
    <2>2. CASE j > Len(w) /\ j <= Len(v)
        <3>1. /\ j \in 1..Len(v) /\ j - Len(w) \in 1..Len(x)
              /\ Len(w) + (j - Len(w)) = j
            BY <1>2, <1>4, <2>2
        <3> QED  BY <1>4, <1>5, <1>8, <3>1
    <2>3. CASE j > Len(v)
        <3>1. j - Len(v) \in 1..Len(q2) /\ Len(v) + (j - Len(v)) = j
            BY <1>2, <1>4, <1>5, <2>3
        <3> QED  BY <1>5, <1>9, <3>1
    <2> QED  BY <1>2, <1>4, <2>1, <2>2, <2>3
<1>11. \A j \in 1..k-1 : s[j] = t[j]
    <2> TAKE j \in 1..k-1
    <2>1. j \in 1..Len(w) /\ j \in 1..Len(v)  BY <1>2, <1>4
    <2> QED  BY <1>3, <1>4, <1>5, <2>1
<1>12. k \in Nat  BY <1>2
<1>13. /\ Present(t, k, "dropDatabase", "database", db)
       /\ Present(t, k, "dropCollection", "meta", coll)
    <2>1. /\ Present(s, k, "dropDatabase", "database", db)
          /\ Present(s, k, "dropCollection", "meta", coll)
        BY <1>1 DEF Stays
    <2> QED  BY <1>11, <1>12, <2>1, PresentPrefix
<1>14. Stays(t, k, db, coll)  BY <1>10, <1>13 DEF Stays
<1>15. k \in 1..Len(v) /\ v[k] = w[k]  BY <1>2, <1>4
<1> QED  BY <1>1, <1>14, <1>15 DEF Logged, t, v

----------------------------------------------------------------------------
\* Removals take records out of the queue.

\* The end of the queue is replaced by one that leaves as much there.
LEMMA PresentReplaced ==
    ASSUME NEW w \in Seq(Record), NEW b \in Seq(Record), NEW p \in Seq(Record),
           NEW p2 \in Seq(Record), NEW drop, NEW create, NEW tomb,
           Present(w \o (b \o p), Len(w) + Len(b \o p) + 1, drop, create, tomb),
           \A gone \in BOOLEAN : Present(p, Len(p) + 1, drop, create, gone) =>
                                 Present(p2, Len(p2) + 1, drop, create, gone)
    PROVE  Present(w \o (b \o p2), Len(w) + Len(b \o p2) + 1, drop, create, tomb)
<1> DEFINE v == w \o b
           there == Present(v, Len(v) + 1, drop, create, tomb)
<1>1. /\ Len(w) \in Nat /\ Len(b) \in Nat /\ Len(p) \in Nat /\ Len(p2) \in Nat
      /\ Len(b \o p) = Len(b) + Len(p) /\ Len(b \o p2) = Len(b) + Len(p2)
    BY ConcatFacts
<1>2. v \in Seq(Record) /\ Len(v) = Len(w) + Len(b)  BY ConcatFacts
<1>3. w \o (b \o p) = v \o p /\ w \o (b \o p2) = v \o p2
    <2>1. w \o (b \o p) = v \o p  BY ConcatAssociative
    <2>2. w \o (b \o p2) = v \o p2  BY ConcatAssociative
    <2> QED  BY <2>1, <2>2
<1>4. /\ Len(w) + Len(b \o p) + 1 = Len(v) + (Len(p) + 1)
      /\ Len(w) + Len(b \o p2) + 1 = Len(v) + (Len(p2) + 1)
    BY <1>1, <1>2
<1>5. Len(p) + 1 \in 1..Len(p) + 1 /\ Len(p2) + 1 \in 1..Len(p2) + 1  BY <1>1
<1> HIDE DEF v
<1>6. Present(p, Len(p) + 1, drop, create, ~there)
    BY <1>2, <1>3, <1>4, <1>5, PresentSplit
<1>7. there \in BOOLEAN  BY DEF Present
<1>8. Present(p2, Len(p2) + 1, drop, create, ~there)
    <2> HIDE DEF there
    <2>1. (~there) \in BOOLEAN  BY <1>7
    <2> QED  BY <1>6, <2>1
<1> QED  BY <1>2, <1>3, <1>4, <1>5, <1>8, PresentSplit

LEMMA PresentNext ==
    ASSUME NEW s, NEW k \in Nat \ {0}, NEW drop, NEW create, NEW tomb,
           Present(s, k + 1, drop, create, tomb), s[k].type # create
    PROVE  Present(s, k, drop, create, tomb) /\ s[k].type # drop
<1>1. /\ tomb => \E m \in 1..k : s[m].type = create
      /\ \A j \in 1..k : s[j].type = drop => \E m \in j+1..k : s[m].type = create
    <2>1. k + 1 - 1 = k  OBVIOUS
    <2> QED  BY <2>1 DEF Present
<1>2. s[k].type # drop
    <2>1. k \in 1..k /\ \A m \in k+1..k : FALSE  OBVIOUS
    <2> QED  BY <1>1, <2>1
<1>3. tomb => \E m \in 1..k-1 : s[m].type = create
    <2>1. \A m \in 1..k : m = k \/ m \in 1..k-1  OBVIOUS
    <2> QED  BY <1>1, <2>1
<1>4. ASSUME NEW j \in 1..k-1, s[j].type = drop
      PROVE  \E m \in j+1..k-1 : s[m].type = create
    <2>1. j \in 1..k /\ \A m \in j+1..k : m = k \/ m \in j+1..k-1  OBVIOUS
    <2> QED  BY <1>1, <1>4, <2>1
<1> QED  BY <1>2, <1>3, <1>4 DEF Present

\* The records that WithoutCollection takes out say nothing about the database.
LEMMA WithoutCollectionKeeps ==
    ASSUME NEW p \in Seq(Record), NEW gone \in BOOLEAN,
           Present(p, Len(p) + 1, "dropDatabase", "database", gone)
    PROVE  LET kept == WithoutCollection(p) IN
           Present(kept, Len(kept) + 1, "dropDatabase", "database", gone)
<1> DEFINE n == Len(p)
           Taken(i) == p[i].type \in {"ops", "meta", "dropCollection"}
<1>1. PICK f \in [0..n -> Seq(Record)] :
          /\ WithoutCollection(p) = f[n] /\ f[0] = <<>>
          /\ \A i \in 1..n : f[i] = IF Taken(i) THEN f[i - 1] ELSE Append(f[i - 1], p[i])
    BY WithoutCollectionSteps
<1>2. n \in Nat  BY LenProperties
<1> DEFINE There(s, k) == Present(s, k, "dropDatabase", "database", gone)
           T == {i \in Nat : i <= n /\ There(p, i + 1) => There(f[i], Len(f[i]) + 1)}
<1>3. 0 \in T
    <2>1. There(p, 0 + 1) => There(f[0], Len(f[0]) + 1)
        <3>1. Len(f[0]) = 0  BY <1>1, EmptySeq
        <3>2. \A i \in 1..0+1-1 : FALSE  OBVIOUS
        <3> QED  BY <3>1, <3>2 DEF Present
    <2> HIDE DEF There
    <2> QED  BY <2>1
<1>4. ASSUME NEW i \in Nat, i \in T PROVE i + 1 \in T
    <2> SUFFICES ASSUME i + 1 <= n, There(p, i + 1 + 1)
                 PROVE  There(f[i + 1], Len(f[i + 1]) + 1)
        <3> HIDE DEF There, n
        <3> QED  OBVIOUS
    <2>1. i \in 0..n /\ i + 1 \in 1..n /\ i + 1 - 1 = i  BY <1>2
    <2>2. f[i] \in Seq(Record) /\ p[i + 1] \in Record  BY <1>1, <2>1, ElementOfSeq
    <2>3. f[i + 1] = IF Taken(i + 1) THEN f[i] ELSE Append(f[i], p[i + 1])
        <3> HIDE DEF Taken
        <3> QED  BY <1>1, <2>1
    <2>4. Append(f[i], p[i + 1]) = f[i] \o <<p[i + 1]>>  BY <2>2, AppendIsConcat
    <2>5. /\ f[i] \o <<p[i + 1]>> \in Seq(Record) /\ Len(f[i]) \in Nat
          /\ Len(f[i] \o <<p[i + 1]>>) = Len(f[i]) + 1
        BY <2>2, ConcatOne
    <2>6. Len(f[i]) + 1 + 1 = Len(f[i]) + 2  BY <2>5
    <2>7. CASE p[i + 1].type = "database"
        <3>1. There(f[i] \o <<p[i + 1]>>, Len(f[i]) + 2)  BY <2>2, <2>7, PresentAppend
        <3>2. ~Taken(i + 1)  BY <2>7
        <3> HIDE DEF There, Taken
        <3> QED  BY <2>3, <2>4, <2>5, <2>6, <3>1, <3>2
    <2>8. CASE p[i + 1].type # "database"
        <3>1. There(p, i + 1) /\ p[i + 1].type # "dropDatabase"
            <4>1. i + 1 \in Nat \ {0}  OBVIOUS
            <4> QED  BY <2>8, <4>1, PresentNext
        <3>2. There(f[i], Len(f[i]) + 1)
            <4>1. i <= n  BY <1>2
            <4> HIDE DEF There, n
            <4> QED  BY <1>4, <3>1, <4>1
        <3>3. There(f[i] \o <<p[i + 1]>>, Len(f[i]) + 2)
            BY <2>2, <3>1, <3>2, PresentAppend
        <3> HIDE DEF There, Taken
        <3> QED  BY <2>3, <2>4, <2>5, <2>6, <3>2, <3>3
    <2> QED  BY <2>7, <2>8
<1>5. n \in T
    <2> HIDE DEF T
    <2> QED  BY <1>2, <1>3, <1>4, NatSetInduction
<1>6. There(f[n], Len(f[n]) + 1)
    <2>1. There(p, n + 1) /\ n <= n  BY <1>2
    <2> HIDE DEF There, n
    <2> QED  BY <1>5, <2>1
<1> QED  BY <1>1, <1>6

----------------------------------------------------------------------------
\* What an append leaves in the file, if it leaves no damaged record there.

Whole(s) == \A i \in 1..Len(s) : s[i].type # "glued"

LEMMA MarksAreRecords == Torn \in Record /\ Glued \in Record /\ Glued.type = "glued"
                         /\ Torn.type = "torn"
BY DEF Torn, Glued, Rec, Record

LEMMA FrontRecords ==
    ASSUME NEW w \in Seq(Record), w # <<>>
    PROVE  Front(w) \in Seq(Record)
<1>1. Len(w) \in Nat \ {0}  BY EmptySeq
<1>2. 1 \in Int /\ Len(w) - 1 \in Int  BY <1>1
<1>3. \A i \in 1..Len(w) : w[i] \in Record  BY ElementOfSeq
<1>4. \A i \in 1..Len(w) - 1 : w[i] \in Record  BY <1>1, <1>3
<1>5. SubSeq(w, 1, Len(w) - 1) \in Seq(Record)  BY <1>2, <1>4, SubSeqProperties
<1> QED  BY <1>5 DEF Front

LEMMA AppendedRecords ==
    ASSUME NEW w \in Seq(Record), NEW rs \in Seq(Record)
    PROVE  Appended(w, rs) \in Seq(Record)
<1>1. w \o rs \in Seq(Record)  BY ConcatFacts
<1>2. ASSUME rs # <<>>, w # <<>>
      PROVE  Front(w) \o <<Glued>> \o Tail(rs) \in Seq(Record)
    <2>1. Front(w) \in Seq(Record)  BY <1>2, FrontRecords
    <2>2. Tail(rs) \in Seq(Record)  BY <1>2, HeadTailProperties
    <2>3. Front(w) \o <<Glued>> \in Seq(Record)  BY <2>1, ConcatOne, MarksAreRecords
    <2> QED  BY <2>2, <2>3, ConcatFacts
<1> QED  BY <1>1, <1>2 DEF Appended

LEMMA AppendedWhole ==
    ASSUME NEW w \in Seq(Record), NEW rs \in Seq(Record), Whole(Appended(w, rs))
    PROVE  Appended(w, rs) = w \o rs
<1>1. SUFFICES ASSUME rs # <<>>, w # <<>>,
                      Appended(w, rs) = Front(w) \o <<Glued>> \o Tail(rs)
               PROVE  FALSE
    BY DEF Appended
<1>2. Front(w) \in Seq(Record)  BY <1>1, FrontRecords
<1>3. Tail(rs) \in Seq(Record)  BY <1>1, HeadTailProperties
<1> DEFINE f == Front(w)
           g == f \o <<Glued>>
<1>4. g \in Seq(Record) /\ Len(f) \in Nat /\ Len(g) = Len(f) + 1 /\ g[Len(f) + 1] = Glued
    BY <1>2, ConcatOne, MarksAreRecords
<1> HIDE DEF g
<1>5. /\ Len(g \o Tail(rs)) = Len(g) + Len(Tail(rs)) /\ Len(Tail(rs)) \in Nat
      /\ \A i \in 1..Len(g) : (g \o Tail(rs))[i] = g[i]
    BY <1>3, <1>4, ConcatFacts
<1>6. Len(f) + 1 \in 1..Len(g) /\ Len(f) + 1 \in 1..Len(g \o Tail(rs))  BY <1>4, <1>5
<1>7. (g \o Tail(rs))[Len(f) + 1] = Glued  BY <1>4, <1>5, <1>6
<1>8. Appended(w, rs) = g \o Tail(rs)  BY <1>1 DEF g
<1> QED  BY <1>6, <1>7, <1>8, MarksAreRecords DEF Whole

LEMMA StoppedExtends ==
    ASSUME NEW w \in Seq(Record), NEW b \in Seq(Record), NEW w2 \in Stopped(w, b), Whole(w2)
    PROVE  \E x \in Seq(Record) :
               /\ w2 = w \o x
               /\ \A i \in 1..Len(x) : x[i].type \in Removals =>
                      \E j \in 1..Len(b) : b[j].type = x[i].type
<1>1. PICK k \in 0..Len(b) : \/ w2 = Appended(w, SubSeq(b, 1, k))
                             \/ w2 = Append(Appended(w, SubSeq(b, 1, k)), Torn)
    BY DEF Stopped
<1> DEFINE x == SubSeq(b, 1, k)
<1>2. Len(b) \in Nat  BY LenProperties
<1>3. \A i \in 1..k : b[i] \in Record
    <2>1. \A i \in 1..Len(b) : b[i] \in Record  BY ElementOfSeq
    <2> QED  BY <1>2, <2>1
<1>4. x \in Seq(Record)
    <2>1. 1 \in Int /\ k \in Int  BY <1>2
    <2> QED  BY <1>3, <2>1, SubSeqProperties
<1>5. \A i \in 1..Len(x) : i \in 1..Len(b) /\ x[i] = b[i]
    <2>1. 1 \in Int /\ k \in Int  BY <1>2
    <2>2. /\ Len(x) = IF 1 <= k THEN k - 1 + 1 ELSE 0
          /\ \A i \in 1..k-1+1 : x[i] = b[1 + i - 1]
        BY <1>3, <2>1, SubSeqProperties
    <2>3. Len(x) = k  BY <1>2, <2>2
    <2> TAKE i \in 1..Len(x)
    <2>4. i \in 1..k-1+1 /\ 1 + i - 1 = i /\ i \in 1..Len(b)  BY <1>2, <2>3
    <2> QED  BY <2>2, <2>4
<1> HIDE DEF x
<1>6. CASE w2 = Appended(w, x)
    <2>1. w2 = w \o x  BY <1>4, <1>6, AppendedWhole
    <2> QED  BY <1>4, <1>5, <2>1
<1>7. CASE w2 = Append(Appended(w, x), Torn)
    <2> DEFINE u == Appended(w, x)
    <2>1. u \in Seq(Record)  BY <1>4, AppendedRecords
    <2> HIDE DEF u
    <2>2. /\ Len(u) \in Nat /\ Len(w2) = Len(u) + 1
          /\ \A i \in 1..Len(u) : w2[i] = u[i]
        BY <1>7, <2>1, AppendProperties, LenProperties, MarksAreRecords DEF u
    <2>3. Whole(u)
        <3>1. \A i \in 1..Len(u) : i \in 1..Len(w2)  BY <2>2
        <3> QED  BY <2>2, <3>1 DEF Whole
    <2>4. u = w \o x  BY <1>4, <2>3, AppendedWhole DEF u
    <2> DEFINE y == x \o <<Torn>>
    <2>5. w2 = w \o y
        <3>1. w2 = u \o <<Torn>>  BY <1>7, <2>1, AppendIsConcat, MarksAreRecords DEF u
        <3>2. <<Torn>> \in Seq(Record)  BY OneRecord, MarksAreRecords
        <3> QED  BY <1>4, <2>4, <3>1, <3>2, ConcatAssociative
    <2>6. /\ y \in Seq(Record) /\ Len(x) \in Nat /\ Len(y) = Len(x) + 1
          /\ \A i \in 1..Len(x) : y[i] = x[i] /\ y[Len(x) + 1] = Torn
        BY <1>4, ConcatOne, MarksAreRecords
    <2>7. ASSUME NEW i \in 1..Len(y), y[i].type \in Removals
          PROVE  \E j \in 1..Len(b) : b[j].type = y[i].type
        <3>1. i \in 1..Len(x) \/ i = Len(x) + 1  BY <2>6
        <3>2. y[Len(x) + 1] = Torn  BY <1>4, ConcatOne, MarksAreRecords
        <3>3. i \in 1..Len(x)  BY <2>7, <3>1, <3>2, MarksAreRecords DEF Removals
        <3> QED  BY <1>5, <2>6, <2>7, <3>3
    <2> HIDE DEF y
    <2> QED  BY <2>5, <2>6, <2>7
<1> QED  BY <1>1, <1>6, <1>7 DEF x

----------------------------------------------------------------------------
\* The invariant.

Queued == walBusy \o walPend

\* A tombstone is in storage, or may get there without anything else being queued.
DbTomb == s3.dbTomb \/ pend.dbDrop
CollTomb == s3.collTomb \/ pend.collDrop
DbDoomed == DbTomb \/ batch.dbDrop
CollDoomed == CollTomb \/ batch.collDrop

\* Queued records hold operations of earlier runs of the process or numbers used up.
Numbered(run, top) ==
    {r \in Queueable(run) : IF r.type = "ops" THEN r.op.run = run => r.op.seq <= top
                                              ELSE r.op = NoOp}

NumbersOk ==
    /\ \A o \in Known : o.seq <= seq
    /\ \A o \in acked : o.run <= boots
    /\ walPend \in Seq(Numbered(boots, seq)) /\ walBusy \in Seq(Numbered(boots, seq))

LogFits ==
    InStep =>
        /\ Whole(wal) => Fits(wal, Queued, mem, Known, DbDoomed, CollDoomed)
        /\ "truncate" \in todo =>
               walBusy = <<>> /\ Fits(<<>>, walPend, mem, Known, DbTomb, CollTomb)

AckedNow == {o \in acked : o.run = boots}

\* Storage holds the operation, and no flush will take it away.
Settled(o, ops) == o \notin ops /\ ~s3.dbTomb /\ ~s3.collTomb

Safe(o) ==
    \/ Logged(o, wal, Queued, DbDoomed, CollDoomed)
    \/ Settled(o, pend.ops \cup batch.ops) /\ Lasting(wal \o Queued)

AckedOk ==
    InStep =>
        /\ AckedNow \subseteq mem.ops
        /\ Whole(wal) => \A o \in AckedNow : Safe(o)
        /\ "truncate" \in todo =>
               \A o \in AckedNow : Settled(o, pend.ops) /\ Lasting(walPend)

\* The next restart finds the operation.
Reachable(o) ==
    \/ Logged(o, wal, <<>>, s3.dbTomb, s3.collTomb)
    \/ o \in Restored(s3).ops /\ Lasting(wal)

DownSafe ==
    ~up /\ replayed \subseteq {"ops"} /\ lapses \subseteq LeftBehind /\ Whole(wal) =>
        \A o \in AckedNow : Reachable(o)

LogInv == IInv /\ NumbersOk /\ LogFits /\ AckedOk /\ DownSafe

----------------------------------------------------------------------------
\* Queued records.

LEMMA LogsAreRecords ==
    ASSUME Typed
    PROVE  /\ wal \in Seq(Record) /\ walPend \in Seq(Record) /\ walBusy \in Seq(Record)
           /\ Queued \in Seq(Record)
<1>1. /\ \A r \in Loggable(boots) : r \in Record
      /\ \A r \in Queueable(boots) : r \in Record
    BY DEF Loggable, Queueable
<1>2. wal \in Seq(Record)  BY <1>1, SeqMonotonic DEF Typed, LogsOk
<1>3. walPend \in Seq(Record)  BY <1>1, SeqMonotonic DEF Typed, LogsOk
<1>4. walBusy \in Seq(Record)  BY <1>1, SeqMonotonic DEF Typed, LogsOk
<1> QED  BY <1>2, <1>3, <1>4, ConcatFacts DEF Queued

LEMMA NumberedGrows ==
    ASSUME NEW run, NEW top \in Nat, NEW more \in Nat, top <= more,
           NEW s \in Seq(Numbered(run, top))
    PROVE  s \in Seq(Numbered(run, more))
<1>1. \A r \in Numbered(run, top) : r.type = "ops" => r.op.seq \in Nat
    BY OpFields, Bounds DEF Numbered, Queueable, Loggable
<1>2. \A r \in Numbered(run, top) : r \in Numbered(run, more)
    BY <1>1 DEF Numbered
<1> QED  BY <1>2, SeqMonotonic

LEMMA SpecialNumbered ==
    ASSUME NEW run \in Nat, NEW top
    PROVE  \A t \in RecordTypes \ {"ops"} :
               Rec(t) \in Numbered(run, top) /\ Rec(t) \in Record /\ Rec(t).type = t
<1>1. \A t \in RecordTypes \ {"ops"} : Rec(t) \in Queueable(run)  BY SpecialRecords
<1>2. \A t \in RecordTypes : Rec(t).type = t /\ Rec(t).op = NoOp  BY DEF Rec
<1> QED  BY <1>1, <1>2 DEF Numbered, Queueable, Loggable

LEMMA NumbersStep ==
    ASSUME Typed, NumbersOk, [Next]_vars
    PROVE  NumbersOk'
<1>1. /\ boots \in Nat /\ seq \in Nat /\ mem \in Memory
      /\ walPend \in Seq(Numbered(boots, seq)) /\ walBusy \in Seq(Numbered(boots, seq))
      /\ \A o \in Known : o.seq <= seq
      /\ \A o \in acked : o.run <= boots
    BY Bounds DEF Typed, Fields, NumbersOk
<1>2. CASE Insert
    <2> PICK new : new = [run |-> boots, seq |-> seq + 1]  OBVIOUS
    <2>1. /\ seq < MaxOps /\ seq' = seq + 1 /\ UNCHANGED <<boots, acked, walBusy>>
          /\ mem' = [mem EXCEPT !.ops = @ \cup {new}] /\ walPend' = Append(walPend, OpRec(new))
        BY <1>2 DEF Insert
    <2>2. new \in Op /\ new.run = boots /\ new.seq = seq + 1
        BY <1>1, <2>1, Bounds DEF Typed, Fields, Op
    <2>3. seq <= seq + 1 /\ seq + 1 \in Nat  BY <1>1
    <2>4. mem'.ops = mem.ops \cup {new}  BY <1>1, <2>1 DEF Memory
    <2>5. \A o \in Known' : o.seq <= seq'
        <3>1. \A o \in Known : o.seq \in Nat
            BY <1>1, OpFields, Bounds DEF Known, Memory
        <3>2. Known' \subseteq Known \cup {new}  BY <2>1, <2>4 DEF Known
        <3> QED  BY <1>1, <2>1, <2>2, <3>1, <3>2
    <2>6. OpRec(new) \in Numbered(boots, seq + 1)
        <3>1. OpRec(new).op = new /\ OpRec(new).type = "ops"  BY DEF OpRec
        <3>2. OpRec(new) \in Record  BY <2>2 DEF OpRec, Record, RecordTypes
        <3>3. boots <= boots /\ seq + 1 <= seq + 1  BY <1>1
        <3> QED
            BY <2>2, <3>1, <3>2, <3>3 DEF Numbered, Queueable, Loggable, RecordTypes
    <2>7. /\ walPend \in Seq(Numbered(boots, seq + 1))
          /\ walBusy \in Seq(Numbered(boots, seq + 1))
        BY <1>1, <2>3, NumberedGrows
    <2>8. walPend' \in Seq(Numbered(boots, seq + 1))
        BY <2>1, <2>6, <2>7, AppendProperties
    <2> QED  BY <1>1, <2>1, <2>5, <2>7, <2>8 DEF NumbersOk
<1>3. CASE SchemaStep
    <2>1. UNCHANGED <<seq, boots, walBusy>>
        BY <1>3 DEF SchemaStep, CreateDatabase, RemoveDatabase, CreateCollection,
                    RemoveCollection, Schema
    <2>2. acked' \subseteq acked
        BY <1>3 DEF SchemaStep, CreateDatabase, RemoveDatabase, CreateCollection,
                    RemoveCollection
    <2>3. Known' \subseteq Known
        <3>1. mem'.ops \subseteq mem.ops  BY <1>3, SchemaMemory
        <3> QED  BY <2>1, <3>1 DEF Known
    <2>4. walPend' \in Seq(Numbered(boots, seq))
        <3>1. \A t \in {"database", "dropDatabase", "meta", "dropCollection"} :
                  Rec(t) \in Numbered(boots, seq)
            BY <1>1, SpecialNumbered DEF RecordTypes
        <3>2. CASE CreateDatabase
            BY <1>1, <3>1, <3>2, AppendProperties DEF CreateDatabase
        <3>3. CASE RemoveDatabase
            <4>1. walPend' = <<Rec("dropDatabase")>>  BY <3>3 DEF RemoveDatabase
            <4> QED  BY <3>1, <4>1
        <3>4. CASE CreateCollection
            BY <1>1, <3>1, <3>4, AppendProperties DEF CreateCollection
        <3>5. CASE RemoveCollection
            <4>1. walPend' = Append(WithoutCollection(walPend), Rec("dropCollection"))
                BY <3>5 DEF RemoveCollection
            <4>2. WithoutCollection(walPend) \in Seq(Numbered(boots, seq))
                BY <1>1, WithoutCollectionType
            <4> QED  BY <3>1, <4>1, <4>2, AppendProperties
        <3> QED  BY <1>3, <3>2, <3>3, <3>4, <3>5 DEF SchemaStep
    <2> QED  BY <1>1, <2>1, <2>2, <2>3, <2>4 DEF NumbersOk
<1>4. CASE UNCHANGED <<mem, seq, boots, acked, walPend, walBusy>>
    BY <1>1, <1>4 DEF NumbersOk, Known
<1>5. CASE StartAppend
    <2>1. /\ walBusy' = walPend /\ walPend' = <<>>
          /\ UNCHANGED <<mem, seq, boots, acked>>
        BY <1>5 DEF StartAppend
    <2> QED  BY <1>1, <2>1, EmptySeq DEF NumbersOk, Known
<1>6. CASE FinishAppend
    <2>1. /\ walBusy' = <<>> /\ UNCHANGED <<mem, seq, boots, walPend>>
          /\ acked' = acked \cup ({r.op : r \in Range(walBusy)} \cap mem.ops)
        BY <1>6 DEF FinishAppend
    <2>2. \A o \in mem.ops : o.run <= boots  BY DEF Typed, RunsOk, Ops
    <2>3. \A o \in acked' : o.run <= boots  BY <1>1, <2>1, <2>2
    <2> QED  BY <1>1, <2>1, <2>3, EmptySeq DEF NumbersOk, Known
<1>7. CASE FailAppend
    <2>1. /\ walPend' = walBusy \o walPend /\ walBusy' = <<>>
          /\ UNCHANGED <<mem, seq, boots, acked>>
        BY <1>7 DEF FailAppend
    <2>2. walPend' \in Seq(Numbered(boots, seq))  BY <1>1, <2>1, ConcatProperties
    <2> QED  BY <1>1, <2>1, <2>2, EmptySeq DEF NumbersOk, Known
<1>8. CASE Crash
    <2>1. /\ walPend' = <<>> /\ walBusy' = <<>> /\ UNCHANGED <<boots, acked>>
          /\ mem'.ops = {}
        BY <1>8 DEF Crash
    <2> QED  BY <1>1, <2>1, EmptySeq DEF NumbersOk, Known
<1>9. CASE Restart
    <2>1. /\ boots' = boots + 1 /\ UNCHANGED <<walPend, walBusy, acked>>
          /\ mem'.ops = Recovered.ops /\ ~up
        BY <1>9 DEF Restart
    <2>2. walPend' = <<>> /\ walBusy' = <<>>  BY <2>1 DEF Typed, DownOk
    <2>3. \A o \in mem'.ops : o.run <= boots /\ o.run \in Nat
        BY <2>1, RecoveredFacts, OpFields, Bounds DEF Typed
    <2>4. Known' = {}  BY <1>1, <2>1, <2>3 DEF Known
    <2>5. \A o \in acked : o.run \in Nat  BY OpFields, Bounds DEF Typed, Fields
    <2>6. \A o \in acked' : o.run <= boots'  BY <1>1, <2>1, <2>5
    <2> QED  BY <2>2, <2>4, <2>6, EmptySeq DEF NumbersOk
<1>10. StartFlush \/ RequestCheckpoint \/ FlushCall \/ FailFlush \/ CheckpointStep
       \/ UNCHANGED vars => UNCHANGED <<mem, seq, boots, acked, walPend, walBusy>>
    BY DEF StartFlush, RequestCheckpoint, FlushCall, FailFlush, CheckpointStep, PauseFlushes,
           ReadSegments, WriteLatest, CompactJournals, FailCheckpoint, vars, data
<1> QED  BY <1>2, <1>3, <1>4, <1>5, <1>6, <1>7, <1>8, <1>9, <1>10, Steps DEF LogStep

----------------------------------------------------------------------------
\* Tombstones to come.

LEMMA CallTombs ==
    ASSUME Typed, BatchOk, NEW call \in todo
    PROVE  LET t == Stored(s3, {call}, batch) IN
           /\ t.dbTomb => s3.dbTomb \/ batch.dbDrop
           /\ t.collTomb => s3.collTomb \/ batch.collDrop
           /\ call = "truncate" => t.dbTomb = s3.dbTomb /\ t.collTomb = s3.collTomb
<1> DEFINE t == Stored(s3, {call}, batch)
<1>1. t.dbTomb = (call # "untombDb" /\ (call = "tombDb" \/ s3.dbTomb))
    BY OneCallStored
<1>2. t.collTomb = (call # "untombColl"
                       /\ (call = "tombColl" \/ (s3.collTomb /\ call # "deleteDb")))
    BY OneCallStored
<1>3. s3.dbTomb \in BOOLEAN /\ s3.collTomb \in BOOLEAN  BY DEF Typed, Fields, Storage
<1>4. call = "tombDb" => batch.dbDrop
    BY CallsOfMembers DEF Typed, Fields, BatchOk
<1>5. call = "tombColl" => batch.collDrop
    BY CallsOfMembers DEF Typed, Fields, BatchOk
<1> HIDE DEF t
<1>6. t.dbTomb => s3.dbTomb \/ batch.dbDrop  BY <1>1, <1>4
<1>7. t.collTomb => s3.collTomb \/ batch.collDrop  BY <1>2, <1>5
<1>8. call = "truncate" => t.dbTomb = s3.dbTomb /\ t.collTomb = s3.collTomb
    BY <1>1, <1>2, <1>3
<1> QED  BY <1>6, <1>7, <1>8 DEF t

\* No step dooms what is there, other than its removal.
LEMMA DoomStep ==
    ASSUME Typed, BatchOk, [Next]_vars, ~Crash, ~Restart
    PROVE  /\ ~RemoveDatabase => (DbDoomed' => DbDoomed)
           /\ ~RemoveCollection => (CollDoomed' => CollDoomed)
           /\ "truncate" \in todo /\ "truncate" \in todo' =>
                  /\ ~RemoveDatabase => (DbTomb' => DbTomb)
                  /\ ~RemoveCollection => (CollTomb' => CollTomb)
<1>1. CASE Insert
    <2>1. pend'.dbDrop = pend.dbDrop /\ pend'.collDrop = pend.collDrop
        BY <1>1 DEF Insert, QueueOp, Typed, Fields, Queue
    <2>2. UNCHANGED <<s3, batch>>  BY <1>1 DEF Insert
    <2> QED  BY <2>1, <2>2 DEF DbDoomed, CollDoomed, DbTomb, CollTomb
<1>2. CASE SchemaStep
    <2>1. UNCHANGED <<s3, batch>>  BY <1>2, SchemaEffect
    <2>2. CreateDatabase => ~pend'.dbDrop /\ pend'.collDrop = pend.collDrop
        BY <1>2, SchemaQueue
    <2>3. RemoveDatabase => ~pend'.collDrop
        BY <1>2, SchemaQueue
    <2>4. CreateCollection => pend'.dbDrop = pend.dbDrop /\ pend'.collDrop = pend.collDrop
        BY <1>2, SchemaQueue
    <2>5. RemoveCollection => pend'.dbDrop = pend.dbDrop
        BY QueueCollectionDropFields DEF RemoveCollection, Typed, Fields
    <2> QED
        BY <1>2, <2>1, <2>2, <2>3, <2>4, <2>5
           DEF SchemaStep, DbDoomed, CollDoomed, DbTomb, CollTomb
<1>3. CASE StartFlush \/ RequestCheckpoint
    <2>1. s3' = s3  BY <1>3, TakeBatchEffect
    <2>2. CASE UNCHANGED <<pend, batch, todo>>
        BY <2>1, <2>2 DEF DbDoomed, CollDoomed, DbTomb, CollTomb
    <2>3. CASE todo = {} /\ batch' = pend /\ pend' = Nothing
        <3>1. ~pend'.dbDrop /\ ~pend'.collDrop  BY <2>3, EmptyValues
        <3> QED  BY <2>1, <2>3, <3>1 DEF DbDoomed, CollDoomed, DbTomb, CollTomb
    <2> QED  BY <1>3, <2>2, <2>3, TakeBatchEffect
<1>4. CASE FlushCall
    <2>1. PICK call \in todo :
              /\ s3' = Stored(s3, {call}, batch) /\ pend' = pend
              /\ batch' = IF todo' = {} THEN Nothing ELSE batch
        BY <1>4, FlushCallEffect
    <2>2. /\ s3'.dbTomb => s3.dbTomb \/ batch.dbDrop
          /\ s3'.collTomb => s3.collTomb \/ batch.collDrop
          /\ call = "truncate" => s3'.dbTomb = s3.dbTomb /\ s3'.collTomb = s3.collTomb
        BY <2>1, CallTombs
    <2>3. /\ batch'.dbDrop => batch.dbDrop
          /\ batch'.collDrop => batch.collDrop
        BY <2>1, EmptyValues
    <2>4. "truncate" \in todo => call = "truncate"  BY DEF BatchOk
    <2> QED
        BY <2>1, <2>2, <2>3, <2>4 DEF DbDoomed, CollDoomed, DbTomb, CollTomb
<1>5. CASE FailFlush
    <2>1. PICK call \in todo :
              /\ s3' \in {s3, Stored(s3, {call}, batch)} /\ pend' = Requeued(pend, batch)
              /\ batch' = Nothing /\ todo' = {}
        BY <1>5, FailFlushEffect
    <2>2. /\ s3'.dbTomb => s3.dbTomb \/ batch.dbDrop
          /\ s3'.collTomb => s3.collTomb \/ batch.collDrop
        BY <2>1, CallTombs
    <2>3. /\ pend'.dbDrop = (pend.dbDrop \/ batch.dbDrop)
          /\ pend'.collDrop = (pend.collDrop \/ batch.collDrop)
        BY <2>1, RequeuedFields DEF Typed, Fields
    <2>4. ~batch'.dbDrop /\ ~batch'.collDrop  BY <2>1, EmptyValues
    <2> QED
        BY <2>1, <2>2, <2>3, <2>4 DEF DbDoomed, CollDoomed, DbTomb, CollTomb
<1>6. CASE CheckpointStep
    <2>1. UNCHANGED <<pend, batch>> /\ s3'.dbTomb = s3.dbTomb /\ s3'.collTomb = s3.collTomb
        BY <1>6, CheckpointEffect
    <2> QED  BY <2>1 DEF DbDoomed, CollDoomed, DbTomb, CollTomb
<1>7. CASE LogStep \/ UNCHANGED vars
    <2>1. UNCHANGED <<pend, batch, s3>>  BY <1>7, LogEffect DEF vars, data
    <2> QED  BY <2>1 DEF DbDoomed, CollDoomed, DbTomb, CollTomb
<1> QED  BY <1>1, <1>2, <1>3, <1>4, <1>5, <1>6, <1>7, Steps

\* No step, other than a removal, takes away what storage holds for good.
LEMMA SettledStep ==
    ASSUME Typed, NumbersOk, BatchOk, PlacesOk, InStep, [Next]_vars, ~Crash, ~Restart,
           ~RemoveDatabase, ~RemoveCollection,
           NEW o \in Known, Settled(o, pend.ops \cup batch.ops)
    PROVE  Settled(o, pend.ops \cup batch.ops)'
<1>1. o \notin pend.ops /\ o \notin batch.ops /\ ~s3.dbTomb /\ ~s3.collTomb
    BY DEF Settled
<1>2. ~batch.dbDrop /\ ~batch.collDrop
    BY <1>1 DEF PlacesOk, Placed
<1> SUFFICES o \notin pend'.ops /\ o \notin batch'.ops /\ ~s3'.dbTomb /\ ~s3'.collTomb
    BY DEF Settled
<1>3. CASE Insert
    <2> PICK new : new = [run |-> boots, seq |-> seq + 1]  OBVIOUS
    <2>1. UNCHANGED <<s3, batch>> /\ pend' = QueueOp(pend, new)  BY <1>3 DEF Insert
    <2>2. pend'.ops = pend.ops \cup {new}  BY <2>1 DEF QueueOp, Typed, Fields, Queue
    <2>3. o # new
        <3>1. o.seq <= seq /\ seq \in Nat  BY Bounds DEF NumbersOk, Typed, Fields
        <3> QED  BY <3>1
    <2> QED  BY <1>1, <2>1, <2>2, <2>3
<1>4. CASE SchemaStep
    <2>1. UNCHANGED <<s3, batch>>  BY <1>4, SchemaEffect
    <2>2. pend'.ops = pend.ops  BY <1>4, SchemaQueue DEF SchemaStep
    <2> QED  BY <1>1, <2>1, <2>2
<1>5. CASE StartFlush \/ RequestCheckpoint
    <2>1. s3' = s3  BY <1>5, TakeBatchEffect
    <2>2. pend'.ops \cup batch'.ops \subseteq pend.ops \cup batch.ops
        BY <1>5, TakeBatchEffect, EmptyValues
    <2> QED  BY <1>1, <2>1, <2>2
<1>6. CASE FlushCall
    <2>1. PICK call \in todo :
              /\ s3' = Stored(s3, {call}, batch) /\ pend' = pend
              /\ batch' = IF todo' = {} THEN Nothing ELSE batch
        BY <1>6, FlushCallEffect
    <2>2. ~s3'.dbTomb /\ ~s3'.collTomb  BY <1>1, <1>2, <2>1, CallTombs
    <2>3. batch'.ops \subseteq batch.ops  BY <2>1, EmptyValues
    <2> QED  BY <1>1, <2>1, <2>2, <2>3
<1>7. CASE FailFlush
    <2>1. PICK call \in todo :
              /\ s3' \in {s3, Stored(s3, {call}, batch)} /\ pend' = Requeued(pend, batch)
              /\ batch' = Nothing
        BY <1>7, FailFlushEffect
    <2>2. ~s3'.dbTomb /\ ~s3'.collTomb  BY <1>1, <1>2, <2>1, CallTombs
    <2>3. pend'.ops = batch.ops \cup pend.ops  BY <2>1, RequeuedFields DEF Typed, Fields
    <2>4. batch'.ops = {}  BY <2>1, EmptyValues
    <2> QED  BY <1>1, <2>2, <2>3, <2>4
<1>8. CASE CheckpointStep
    <2>1. UNCHANGED <<pend, batch>> /\ s3'.dbTomb = s3.dbTomb /\ s3'.collTomb = s3.collTomb
        BY <1>8, CheckpointEffect
    <2> QED  BY <1>1, <2>1
<1>9. CASE LogStep \/ UNCHANGED vars
    <2>1. UNCHANGED <<pend, batch, s3>>  BY <1>9, LogEffect DEF vars, data
    <2> QED  BY <1>1, <2>1
<1> QED  BY <1>3, <1>4, <1>5, <1>6, <1>7, <1>8, <1>9, Steps

----------------------------------------------------------------------------
\* File and queue stay fit for what memory shows.

LEMMA EmptyConcat ==
    ASSUME NEW s \in Seq(Record)
    PROVE  <<>> \o s = s /\ s \o <<>> = s /\ <<>> \in Seq(Record) /\ Len(<<>>) = 0
BY ConcatEmptySeq, EmptySeq

\* Nothing is queued, and the file removes nothing.
LEMMA FitsStored ==
    ASSUME NEW w \in Seq(Record), Lasting(w), NEW m, NEW known, NEW db, NEW coll,
           ~m.dbGone => ~db, ~m.collGone => ~coll
    PROVE  Fits(w, <<>>, m, known, db, coll)
<1>1. w \o <<>> = w /\ Len(<<>>) = 0 /\ Len(w) \in Nat  BY EmptyConcat, LenProperties
<1>2. Len(w) + 0 + 1 = Len(w) + 1 /\ Len(w) + 1 - 1 = Len(w) /\ \A k \in 1..0 : FALSE
    BY <1>1
<1>3. \A k \in 1..Len(w) : w[k].type # "dropDatabase" /\ w[k].type # "dropCollection"
    BY DEF Lasting, Removals
<1>4. ~db => Present(w, Len(w) + 1, "dropDatabase", "database", db)
    BY <1>2, <1>3 DEF Present
<1>5. ~coll => Present(w, Len(w) + 1, "dropCollection", "meta", coll)
    BY <1>2, <1>3 DEF Present
<1>6. ~m.dbGone => Present(w \o <<>>, Len(w) + Len(<<>>) + 1, "dropDatabase", "database", db)
    BY <1>1, <1>2, <1>4
<1>7. ~m.collGone => Present(w \o <<>>, Len(w) + Len(<<>>) + 1, "dropCollection", "meta", coll)
    BY <1>1, <1>2, <1>5
<1>8. \A k \in 1..Len(<<>>) : FALSE  BY <1>1, <1>2
<1> QED  BY <1>6, <1>7, <1>8 DEF Fits

\* The step does not concern the log.
LEMMA QuietFits ==
    ASSUME LogFits, InStep, UNCHANGED <<mem, boots, wal, walPend, walBusy>>,
           DbDoomed' => DbDoomed, CollDoomed' => CollDoomed,
           "truncate" \in todo' => /\ "truncate" \in todo
                                   /\ DbTomb' => DbTomb
                                   /\ CollTomb' => CollTomb
    PROVE  LogFits'
<1>1. Known' = Known /\ Queued' = Queued  BY DEF Known, Queued
<1>2. Whole(wal) => Fits(wal, Queued, mem, Known, DbDoomed', CollDoomed')
    BY FitsWeaker DEF LogFits
<1>3. "truncate" \in todo' =>
          walBusy = <<>> /\ Fits(<<>>, walPend, mem, Known, DbTomb', CollTomb')
    BY FitsWeaker DEF LogFits
<1> QED  BY <1>1, <1>2, <1>3 DEF LogFits

LEMMA FlushCallFits ==
    ASSUME Typed, BatchOk, LogFits, InStep, InStep', TombsOk', FlushCall
    PROVE  LogFits'
<1>1. PICK call \in todo :
        /\ s3' = Stored(s3, {call}, batch)
        /\ wal' = IF call = "truncate" THEN <<>> ELSE wal
        /\ todo' = IF todo = {call} /\ call # "truncate" /\ MayTruncate
                   THEN {"truncate"} ELSE todo \ {call}
        /\ batch' = IF todo' = {} THEN Nothing ELSE batch
        /\ UNCHANGED <<mem, boots, pend, walPend, walBusy>>
    BY DEF FlushCall
<1>2. /\ walPend \in Seq(Record) /\ walBusy \in Seq(Record) /\ wal \in Seq(Record)
    BY LogsAreRecords
<1>3. Known' = Known /\ Queued' = Queued  BY <1>1 DEF Known, Queued
<1>4. DbDoomed' => DbDoomed  BY DoomStep DEF FlushCall, RemoveDatabase, Schema, Crash,
                                             Restart, InStep, Next
<1>5. CollDoomed' => CollDoomed
    BY DoomStep DEF FlushCall, RemoveCollection, Schema, Crash, Restart, InStep, Next
<1>6. CASE call = "truncate"
    <2>1. todo = {"truncate"}  BY <1>6 DEF BatchOk
    <2>2. todo' = {} /\ batch' = Nothing /\ wal' = <<>>  BY <1>1, <1>6, <2>1
    <2>3. s3'.dbTomb = s3.dbTomb /\ s3'.collTomb = s3.collTomb
        BY <1>1, <1>6, CallTombs
    <2>4. (DbDoomed' => DbTomb) /\ (CollDoomed' => CollTomb)
        BY <1>1, <2>2, <2>3, EmptyValues DEF DbDoomed, CollDoomed, DbTomb, CollTomb
    <2>5. walBusy = <<>> /\ Fits(<<>>, walPend, mem, Known, DbTomb, CollTomb)
        BY <2>1 DEF LogFits
    <2>6. Queued = walPend  BY <1>2, <2>5, EmptyConcat DEF Queued
    <2>7. Fits(<<>>, walPend, mem, Known, DbDoomed', CollDoomed')
        BY <2>4, <2>5, FitsWeaker
    <2> QED  BY <1>1, <1>3, <2>2, <2>6, <2>7 DEF LogFits
<1>7. CASE call # "truncate" /\ todo = {call} /\ MayTruncate
    <2>1. wal' = wal /\ todo' = {"truncate"}  BY <1>1, <1>7
    <2>2. Whole(wal) => Fits(wal, Queued, mem, Known, DbDoomed', CollDoomed')
        BY <1>4, <1>5, FitsWeaker DEF LogFits
    <2>3. /\ walPend' = <<>> /\ walBusy' = <<>> /\ pend' = Nothing
        BY <1>1, <1>7 DEF MayTruncate
    <2>4. ~pend'.db /\ ~pend'.dbDrop /\ ~pend'.meta /\ ~pend'.collDrop
        BY <2>3, EmptyValues
    <2>5. (~mem'.dbGone => ~s3'.dbTomb) /\ (~mem'.collGone => ~s3'.collTomb)
        BY <2>1, <2>4 DEF TombsOk
    <2>6. (~mem'.dbGone => ~DbTomb') /\ (~mem'.collGone => ~CollTomb')
        BY <2>4, <2>5 DEF DbTomb, CollTomb
    <2>7. <<>> \in Seq(Record) /\ Lasting(<<>>)
        <3>1. \A k \in 1..0 : FALSE  OBVIOUS
        <3> QED  BY <3>1, EmptyConcat DEF Lasting
    <2>8. Fits(<<>>, <<>>, mem', Known', DbTomb', CollTomb')
        BY <2>6, <2>7, FitsStored
    <2> QED  BY <1>1, <1>3, <2>1, <2>2, <2>3, <2>8 DEF LogFits
<1>8. CASE call # "truncate" /\ ~(todo = {call} /\ MayTruncate)
    <2>1. wal' = wal /\ todo' = todo \ {call}  BY <1>1, <1>8
    <2>2. "truncate" \notin todo'  BY <1>8, <2>1 DEF BatchOk
    <2> QED  BY <1>1, <1>4, <1>5, <2>1, <2>2, QuietFits
<1> QED  BY <1>6, <1>7, <1>8

LEMMA QueuedAppend ==
    ASSUME Typed, NEW r \in Record
    PROVE  /\ Append(walPend, r) = walPend \o <<r>>
           /\ walBusy \o Append(walPend, r) = Queued \o <<r>>
<1>1. <<r>> \in Seq(Record) /\ walPend \in Seq(Record) /\ walBusy \in Seq(Record)
    BY OneRecord, LogsAreRecords
<1>2. Append(walPend, r) = walPend \o <<r>>  BY <1>1, AppendIsConcat
<1>3. walBusy \o (walPend \o <<r>>) = (walBusy \o walPend) \o <<r>>
    BY <1>1, ConcatAssociative
<1> QED  BY <1>2, <1>3 DEF Queued

\* A record that removes nothing is queued.
LEMMA AppendFits ==
    ASSUME Typed, LogFits, InStep, NEW r \in Record, walPend' = Append(walPend, r),
           UNCHANGED <<boots, wal, walBusy, todo>>,
           DbDoomed' => DbDoomed, CollDoomed' => CollDoomed,
           "truncate" \in todo => (DbTomb' => DbTomb) /\ (CollTomb' => CollTomb),
           r.type \notin Removals,
           ~mem'.dbGone => ~mem.dbGone \/ r.type = "database",
           ~mem'.collGone => ~mem.collGone \/ r.type = "meta",
           r.type = "ops" => ~mem.dbGone /\ ~mem.collGone,
           \A s \in {Queued, walPend} : \A k \in 1..Len(s) :
               s[k].type = "ops" /\ s[k].op \in Known' => s[k].op \in Known
    PROVE  LogFits'
<1>1. wal \in Seq(Record) /\ walPend \in Seq(Record) /\ Queued \in Seq(Record)
    BY LogsAreRecords
<1>2. walPend' = walPend \o <<r>> /\ Queued' = Queued \o <<r>>
    BY QueuedAppend DEF Queued
<1>3. Whole(wal) => Fits(wal, Queued \o <<r>>, mem', Known', DbDoomed', CollDoomed')
    BY <1>1, FitsQueued DEF LogFits
<1>4. "truncate" \in todo =>
          Fits(<<>>, walPend \o <<r>>, mem', Known', DbTomb', CollTomb')
    <2>1. <<>> \in Seq(Record)  BY EmptyConcat
    <2> QED  BY <1>1, <2>1, FitsQueued DEF LogFits
<1>5. "truncate" \in todo => walBusy = <<>>  BY DEF LogFits
<1> QED  BY <1>2, <1>3, <1>4, <1>5 DEF LogFits

LEMMA InsertFits ==
    ASSUME Typed, BatchOk, NumbersOk, LogFits, InStep, Insert
    PROVE  LogFits'
<1> PICK new : new = [run |-> boots, seq |-> seq + 1]  OBVIOUS
<1>1. /\ mem' = [mem EXCEPT !.ops = @ \cup {new}] /\ walPend' = Append(walPend, OpRec(new))
      /\ ~mem.dbGone /\ ~mem.collGone /\ seq < MaxOps
      /\ UNCHANGED <<boots, wal, walBusy, todo>>
    BY DEF Insert
<1>2. /\ mem'.dbGone = mem.dbGone /\ mem'.collGone = mem.collGone
      /\ mem'.ops = mem.ops \cup {new}
    BY <1>1 DEF Typed, Fields, Memory
<1>3. OpRec(new) \in Record /\ OpRec(new).type = "ops"
    <2>1. new \in Op  BY <1>1, Bounds DEF Typed, Fields, Op
    <2> QED  BY <2>1 DEF OpRec, Record, RecordTypes
<1>4. /\ DbDoomed' => DbDoomed
      /\ CollDoomed' => CollDoomed
      /\ "truncate" \in todo => (DbTomb' => DbTomb) /\ (CollTomb' => CollTomb)
    <2>1. ~Crash /\ ~Restart /\ Next
        BY DEF Crash, Restart, Next, InStep, Insert
    <2>2. ~RemoveDatabase /\ ~RemoveCollection
        <3>1. seq \in Nat /\ seq' = seq + 1  BY Bounds DEF Insert, Typed, Fields
        <3>2. RemoveDatabase \/ RemoveCollection => seq' = seq
            BY DEF RemoveDatabase, RemoveCollection, Schema
        <3> QED  BY <3>1, <3>2
    <2> QED  BY <1>1, <2>1, <2>2, DoomStep
<1>5. \A r \in Numbered(boots, seq) : r.type = "ops" => r.op # new
    <2>1. seq \in Nat  BY Bounds DEF Typed, Fields
    <2> QED  BY <2>1 DEF Numbered
<1>6. walPend \in Seq(Numbered(boots, seq)) /\ Queued \in Seq(Numbered(boots, seq))
    BY ConcatProperties DEF NumbersOk, Queued
<1>7. \A s \in {Queued, walPend} : \A k \in 1..Len(s) :
          s[k].type = "ops" /\ s[k].op \in Known' => s[k].op \in Known
    <2>1. Known' \subseteq Known \cup {new}  BY <1>1, <1>2 DEF Known
    <2>2. \A s \in {Queued, walPend} : \A k \in 1..Len(s) : s[k] \in Numbered(boots, seq)
        BY <1>6, ElementOfSeq
    <2> QED  BY <1>5, <2>1, <2>2
<1>8. OpRec(new).type \notin Removals  BY <1>3 DEF Removals
<1> QED  BY <1>1, <1>2, <1>3, <1>4, <1>7, <1>8, AppendFits

LEMMA CreateFits ==
    ASSUME Typed, BatchOk, NumbersOk, LogFits, InStep, InStep',
           CreateDatabase \/ CreateCollection
    PROVE  LogFits'
<1>1. ~Crash /\ ~Restart /\ Next
    BY DEF Crash, Restart, Next, InStep
<1>2. ~RemoveDatabase /\ ~RemoveCollection
    <2>1. mem.dbGone \in BOOLEAN /\ mem \in Memory  BY DEF Typed, Fields, Memory
    <2>2. CASE CreateDatabase
        <3>1. ~mem'.dbGone /\ mem'.collGone = mem.collGone
            BY <2>2, SchemaMemory DEF SchemaStep
        <3>2. RemoveDatabase => mem'.dbGone  BY SchemaMemory DEF SchemaStep
        <3>3. RemoveCollection => mem'.collGone /\ ~mem.collGone
            BY SchemaMemory DEF SchemaStep, RemoveCollection
        <3> QED  BY <3>1, <3>2, <3>3
    <2>3. CASE CreateCollection
        <3>1. mem'.dbGone = mem.dbGone /\ ~mem'.collGone
            BY <2>3, SchemaMemory DEF SchemaStep
        <3>2. RemoveDatabase => mem'.dbGone /\ ~mem.dbGone
            BY SchemaMemory DEF SchemaStep, RemoveDatabase
        <3>3. RemoveCollection => mem'.collGone  BY SchemaMemory DEF SchemaStep
        <3> QED  BY <3>1, <3>2, <3>3
    <2> QED  BY <2>2, <2>3
<1>3. UNCHANGED <<todo, boots, wal, walBusy>>
    BY DEF CreateDatabase, CreateCollection, Schema
<1>4. /\ DbDoomed' => DbDoomed
      /\ CollDoomed' => CollDoomed
      /\ "truncate" \in todo => (DbTomb' => DbTomb) /\ (CollTomb' => CollTomb)
    BY <1>1, <1>2, <1>3, DoomStep
<1>5. Known' \subseteq Known
    BY <1>3, SchemaMemory DEF SchemaStep, Known, CreateDatabase, CreateCollection
<1>6. \A s \in {Queued, walPend} : \A k \in 1..Len(s) :
          s[k].type = "ops" /\ s[k].op \in Known' => s[k].op \in Known
    BY <1>5
<1>7. boots \in Nat /\ {"database", "meta"} \subseteq RecordTypes \ {"ops"}
    BY Bounds DEF Typed, Fields, RecordTypes
<1>8. CASE CreateDatabase
    <2>1. ~mem'.dbGone /\ mem'.collGone = mem.collGone
        BY <1>8, SchemaMemory DEF SchemaStep
    <2>2. walPend' = Append(walPend, Rec("database"))  BY <1>8 DEF CreateDatabase
    <2>3. Rec("database") \in Record /\ Rec("database").type = "database"
        BY <1>7, SpecialNumbered
    <2>4. "database" \notin Removals /\ "database" # "ops"  BY DEF Removals
    <2> QED  BY <1>3, <1>4, <1>6, <2>1, <2>2, <2>3, <2>4, AppendFits
<1>9. CASE CreateCollection /\ mem.dbGone
    <2>1. walPend' = walPend /\ mem' = [mem EXCEPT !.collGone = FALSE]
        BY <1>9 DEF CreateCollection
    <2>2. ~mem.collGone
        <3>1. "unrecorded" \notin lapses'  BY DEF InStep, LeftBehind
        <3> QED  BY <1>9, <3>1 DEF CreateCollection, If
    <2>3. mem' = mem  BY <2>1, <2>2 DEF Typed, Fields, Memory
    <2> QED  BY <1>3, <1>4, <2>1, <2>3, QuietFits
<1>10. CASE CreateCollection /\ ~mem.dbGone
    <2>1. mem'.dbGone = mem.dbGone /\ ~mem'.collGone
        BY <1>10, SchemaMemory DEF SchemaStep
    <2>2. walPend' = Append(walPend, Rec("meta"))  BY <1>10 DEF CreateCollection
    <2>3. Rec("meta") \in Record /\ Rec("meta").type = "meta"
        BY <1>7, SpecialNumbered
    <2>4. "meta" \notin Removals /\ "meta" # "ops"  BY DEF Removals
    <2> QED  BY <1>3, <1>4, <1>6, <2>1, <2>2, <2>3, <2>4, AppendFits
<1> QED  BY <1>8, <1>9, <1>10

\* A removal, and what it takes out of the queue.
LEMMA FitsRemoved ==
    ASSUME NEW w \in Seq(Record), NEW b \in Seq(Record), NEW p \in Seq(Record),
           NEW p2 \in Seq(Record), NEW m, NEW m2, NEW known,
           NEW db, NEW db2, NEW coll, NEW coll2,
           Fits(w, b \o p, m, known, db, coll),
           ~m2.dbGone => /\ ~m.dbGone /\ (db2 => db)
                         /\ \A gone \in BOOLEAN :
                              Present(p, Len(p) + 1, "dropDatabase", "database", gone) =>
                              Present(p2, Len(p2) + 1, "dropDatabase", "database", gone),
           ~m2.collGone => /\ ~m.collGone /\ (coll2 => coll)
                           /\ \A gone \in BOOLEAN :
                                Present(p, Len(p) + 1, "dropCollection", "meta", gone) =>
                                Present(p2, Len(p2) + 1, "dropCollection", "meta", gone)
    PROVE  Fits(w, b \o p2, m2, {}, db2, coll2)
<1>1. ASSUME ~m2.dbGone
      PROVE  Present(w \o (b \o p2), Len(w) + Len(b \o p2) + 1, "dropDatabase",
                     "database", db2)
    <2>1. Present(w \o (b \o p), Len(w) + Len(b \o p) + 1, "dropDatabase", "database", db)
        BY <1>1 DEF Fits
    <2>2. Present(w \o (b \o p2), Len(w) + Len(b \o p2) + 1, "dropDatabase", "database", db)
        BY <1>1, <2>1, PresentReplaced
    <2> QED  BY <1>1, <2>2, PresentWeaker
<1>2. ASSUME ~m2.collGone
      PROVE  Present(w \o (b \o p2), Len(w) + Len(b \o p2) + 1, "dropCollection",
                     "meta", coll2)
    <2>1. Present(w \o (b \o p), Len(w) + Len(b \o p) + 1, "dropCollection", "meta", coll)
        BY <1>2 DEF Fits
    <2>2. Present(w \o (b \o p2), Len(w) + Len(b \o p2) + 1, "dropCollection", "meta", coll)
        BY <1>2, <2>1, PresentReplaced
    <2> QED  BY <1>2, <2>2, PresentWeaker
<1> QED  BY <1>1, <1>2 DEF Fits

LEMMA NoDropOne ==
    ASSUME NEW e \in Record, e.type = "dropDatabase"
    PROVE  \A k \in 1..Len(<<e>>) : <<e>>[k].type # "dropCollection"
<1>1. Len(<<e>>) = 1 /\ <<e>>[1] = e  BY OneRecord
<1>2. \A k \in 1..1 : k = 1  OBVIOUS
<1> QED  BY <1>1, <1>2

LEMMA NoDropConcat ==
    ASSUME NEW s \in Seq(Record), NEW t \in Seq(Record),
           \A r \in Range(s) : r.type # "dropCollection",
           \A k \in 1..Len(t) : t[k].type # "dropCollection"
    PROVE  /\ s \o t \in Seq(Record)
           /\ \A k \in 1..Len(s \o t) : (s \o t)[k].type # "dropCollection"
<1>1. /\ s \o t \in Seq(Record) /\ Len(s) \in Nat /\ Len(t) \in Nat
      /\ Len(s \o t) = Len(s) + Len(t)
      /\ \A i \in 1..Len(s) : (s \o t)[i] = s[i]
      /\ \A i \in 1..Len(t) : (s \o t)[Len(s) + i] = t[i]
    BY ConcatFacts
<1>2. \A i \in 1..Len(s) : s[i].type # "dropCollection"
    <2>1. DOMAIN s = 1..Len(s)  BY LenProperties
    <2> QED  BY <2>1 DEF Range
<1>3. ASSUME NEW k \in 1..Len(s \o t) PROVE (s \o t)[k].type # "dropCollection"
    <2>1. k \in 1..Len(s) \/ (k - Len(s) \in 1..Len(t) /\ Len(s) + (k - Len(s)) = k)
        BY <1>1
    <2>2. CASE k \in 1..Len(s)  BY <1>1, <1>2, <2>2
    <2>3. CASE k - Len(s) \in 1..Len(t) /\ Len(s) + (k - Len(s)) = k
        <3>1. PICK i \in 1..Len(t) : i = k - Len(s) /\ Len(s) + i = k  BY <2>3
        <3>2. (s \o t)[k] = t[i]  BY <1>1, <3>1
        <3> QED  BY <3>2
    <2> QED  BY <2>1, <2>2, <2>3
<1> QED  BY <1>1, <1>3

\* No collection is removed anywhere, and the database is gone.
LEMMA FitsUnremoved ==
    ASSUME NEW w \in Seq(Record), NEW q \in Seq(Record), NEW m, m.dbGone,
           NEW db, NEW coll, ~coll,
           \A k \in 1..Len(w \o q) : (w \o q)[k].type # "dropCollection"
    PROVE  Fits(w, q, m, {}, db, coll)
<1>1. Len(w \o q) = Len(w) + Len(q) /\ Len(w) + Len(q) + 1 - 1 = Len(w) + Len(q)
    <2>1. Len(w) \in Nat /\ Len(q) \in Nat /\ Len(w \o q) = Len(w) + Len(q)
        BY ConcatFacts
    <2> QED  BY <2>1
<1>2. Present(w \o q, Len(w) + Len(q) + 1, "dropCollection", "meta", coll)
    BY <1>1 DEF Present
<1> QED  BY <1>2 DEF Fits

\* The removal of the database: no metadata was queued.
LEMMA DropQueued ==
    ASSUME NEW p \in Seq(Record), NEW e \in Record, e.type = "dropDatabase",
           \A k \in 1..Len(p) : p[k].type # "meta", NEW gone \in BOOLEAN,
           Present(p, Len(p) + 1, "dropCollection", "meta", gone)
    PROVE  Present(<<e>>, Len(<<e>>) + 1, "dropCollection", "meta", gone)
<1>1. Len(p) \in Nat /\ Len(p) + 1 - 1 = Len(p)  BY LenProperties
<1>2. ~gone  BY <1>1 DEF Present
<1>3. Len(<<e>>) = 1 /\ <<e>>[1] = e  BY OneRecord
<1>4. 1 + 1 - 1 = 1 /\ \A j \in 1..1 : j = 1  OBVIOUS
<1> QED  BY <1>2, <1>3, <1>4 DEF Present

\* The removal of the collection.
LEMMA DropCollectionQueued ==
    ASSUME NEW p \in Seq(Record), NEW e \in Record, e.type = "dropCollection",
           NEW gone \in BOOLEAN,
           Present(p, Len(p) + 1, "dropDatabase", "database", gone)
    PROVE  LET p2 == Append(WithoutCollection(p), e) IN
           Present(p2, Len(p2) + 1, "dropDatabase", "database", gone)
<1> DEFINE kept == WithoutCollection(p)
<1>1. kept \in Seq(Record)  BY WithoutCollectionType
<1>2. Present(kept, Len(kept) + 1, "dropDatabase", "database", gone)
    BY WithoutCollectionKeeps
<1> HIDE DEF kept
<1>3. Present(kept \o <<e>>, Len(kept) + 2, "dropDatabase", "database", gone)
    BY <1>1, <1>2, PresentAppend
<1>4. Append(kept, e) = kept \o <<e>>  BY <1>1, AppendIsConcat
<1>5. Len(kept \o <<e>>) + 1 = Len(kept) + 2
    <2>1. Len(kept) \in Nat /\ Len(kept \o <<e>>) = Len(kept) + 1  BY <1>1, ConcatOne
    <2> QED  BY <2>1
<1> QED  BY <1>3, <1>4, <1>5 DEF kept

LEMMA RemoveFits ==
    ASSUME Typed, BatchOk, NumbersOk, LogFits, InStep, InStep',
           RemoveDatabase \/ RemoveCollection
    PROVE  LogFits'
<1>1. ~Crash /\ ~Restart /\ Next
    BY DEF Crash, Restart, Next, InStep
<1>2. /\ wal \in Seq(Record) /\ walPend \in Seq(Record) /\ walBusy \in Seq(Record)
      /\ <<>> \in Seq(Record)
    BY LogsAreRecords, EmptyConcat
<1>3. UNCHANGED <<todo, boots, wal, walBusy>>
    BY DEF RemoveDatabase, RemoveCollection, Schema
<1>4. Known' = {}
    <2>1. mem'.ops = {}  BY SchemaMemory DEF SchemaStep
    <2> QED  BY <2>1 DEF Known
<1>5. ~(RemoveDatabase /\ RemoveCollection)
    <2>1. RemoveDatabase => mem'.dbGone /\ ~mem.dbGone
        BY SchemaMemory DEF SchemaStep, RemoveDatabase
    <2>2. RemoveCollection => mem'.dbGone = mem.dbGone
        BY SchemaMemory DEF SchemaStep
    <2> QED  BY <2>1, <2>2
<1>6. /\ "truncate" \in todo => walBusy = <<>>
      /\ "truncate" \in todo => Fits(<<>>, <<>> \o walPend, mem, Known, DbTomb, CollTomb)
      /\ Whole(wal) => Fits(wal, walBusy \o walPend, mem, Known, DbDoomed, CollDoomed)
    BY <1>2, EmptyConcat DEF LogFits, Queued
<1>7. CASE RemoveDatabase
    <2> PICK e : e = Rec("dropDatabase")  OBVIOUS
    <2>1. e \in Record /\ e.type = "dropDatabase"
        BY Bounds, SpecialNumbered DEF Typed, Fields, RecordTypes
    <2>2. mem'.dbGone /\ mem'.collGone = mem.collGone
        BY <1>7, SchemaMemory DEF SchemaStep
    <2>3. walPend' = <<e>>  BY <1>7 DEF RemoveDatabase
    <2>4. ASSUME Rec("meta") \notin Range(walPend)
          PROVE  \A k \in 1..Len(walPend) : walPend[k].type # "meta"
        <3> TAKE k \in 1..Len(walPend)
        <3>2. walPend[k] \in Numbered(boots, seq)  BY ElementOfSeq DEF NumbersOk
        <3>3. walPend[k] \in Record
            /\ (walPend[k].type # "ops" => walPend[k].op = NoOp)
            BY <3>2 DEF Numbered, Queueable, Loggable
        <3>4. walPend[k].type = "meta" => walPend[k] = Rec("meta")
            BY <3>3 DEF Record, Rec
        <3>5. walPend[k] \in Range(walPend)
            <4>1. DOMAIN walPend = 1..Len(walPend)  BY <1>2, LenProperties
            <4> QED  BY <4>1 DEF Range
        <3> QED  BY <2>4, <3>4, <3>5
    <2>5. ASSUME Rec("meta") \notin Range(walPend)
          PROVE  \A gone \in BOOLEAN :
                     Present(walPend, Len(walPend) + 1, "dropCollection", "meta", gone) =>
                     Present(<<e>>, Len(<<e>>) + 1, "dropCollection", "meta", gone)
        BY <1>2, <2>1, <2>4, <2>5, DropQueued
    <2>6. /\ CollDoomed' => CollDoomed
          /\ "truncate" \in todo => (CollTomb' => CollTomb)
        BY <1>1, <1>3, <1>5, <1>7, DoomStep
    <2>7. <<e>> \in Seq(Record)  BY <2>1, OneRecord
    <2>12. ASSUME Rec("meta") \in Range(walPend)
           PROVE  /\ ~CollDoomed' /\ ~CollTomb'
                  /\ Fits(wal, walBusy \o <<e>>, mem', {}, DbDoomed', FALSE)
                  /\ Fits(<<>>, <<e>>, mem', {}, DbTomb', FALSE)
        <3>1. ~CollectionDropTaken
            <4>1. "discarded" \notin lapses'  BY DEF InStep, LeftBehind
            <4> QED  BY <1>7, <2>12, <4>1 DEF RemoveDatabase, If
        <3>2. ~CollDoomed' /\ ~CollTomb'
            <4>1. SchemaStep  BY <1>7 DEF SchemaStep
            <4>2. ~pend'.collDrop  BY <1>7, <4>1, SchemaQueue
            <4>3. UNCHANGED <<s3, batch>>  BY <1>7 DEF RemoveDatabase, Schema
            <4> QED  BY <3>1, <4>2, <4>3 DEF CollDoomed, CollTomb, CollectionDropTaken
        <3>3. \A r \in Range(wal) \cup Range(walBusy) : r.type # "dropCollection"
            BY <3>1 DEF CollectionDropTaken
        <3>4. PICK q : q = walBusy \o <<e>>  OBVIOUS
        <3>5. q \in Seq(Record) /\ \A k \in 1..Len(q) : q[k].type # "dropCollection"
            BY <1>2, <2>1, <2>7, <3>3, <3>4, NoDropConcat, NoDropOne
        <3>6. \A k \in 1..Len(wal \o q) : (wal \o q)[k].type # "dropCollection"
            BY <1>2, <3>3, <3>5, NoDropConcat
        <3>7. \A k \in 1..Len(<<>> \o <<e>>) :
                  (<<>> \o <<e>>)[k].type # "dropCollection"
            <4>1. <<>> \o <<e>> = <<e>>  BY <2>7, EmptyConcat
            <4> QED  BY <2>1, <4>1, NoDropOne
        <3>8. mem'.dbGone  BY <2>2
        <3>9. Fits(wal, q, mem', {}, DbDoomed', FALSE)
            BY <1>2, <3>5, <3>6, <3>8, FitsUnremoved
        <3>10. Fits(<<>>, <<e>>, mem', {}, DbTomb', FALSE)
            BY <1>2, <2>7, <3>7, <3>8, FitsUnremoved
        <3> QED  BY <3>2, <3>4, <3>9, <3>10
    <2>8. Whole(wal) => Fits(wal, walBusy \o <<e>>, mem', {}, DbDoomed', CollDoomed')
        <3>1. CASE Rec("meta") \notin Range(walPend)
            BY <1>2, <1>6, <2>2, <2>5, <2>6, <2>7, <3>1, FitsRemoved
        <3>2. CASE Rec("meta") \in Range(walPend)
            <4>1. CollDoomed' = FALSE  BY <2>12, <3>2 DEF CollDoomed, CollTomb
            <4> QED  BY <2>12, <3>2, <4>1
        <3> QED  BY <3>1, <3>2
    <2>9. "truncate" \in todo => Fits(<<>>, <<>> \o <<e>>, mem', {}, DbTomb', CollTomb')
        <3>1. CASE Rec("meta") \notin Range(walPend)
            BY <1>2, <1>6, <2>2, <2>5, <2>6, <2>7, <3>1, FitsRemoved
        <3>2. CASE Rec("meta") \in Range(walPend)
            <4>1. CollTomb' = FALSE  BY <2>12, <3>2 DEF CollTomb
            <4>2. <<>> \o <<e>> = <<e>>  BY <2>7, EmptyConcat
            <4> QED  BY <2>12, <3>2, <4>1, <4>2
        <3> QED  BY <3>1, <3>2
    <2>10. <<>> \o <<e>> = <<e>>  BY <2>7, EmptyConcat
    <2>11. Queued' = walBusy \o <<e>>  BY <1>3, <2>3 DEF Queued
    <2> QED  BY <1>3, <1>4, <1>6, <2>3, <2>8, <2>9, <2>10, <2>11 DEF LogFits
<1>8. CASE RemoveCollection
    <2> PICK e : e = Rec("dropCollection")  OBVIOUS
    <2>0. PICK p2 : p2 = Append(WithoutCollection(walPend), e)  OBVIOUS
    <2>1. e \in Record /\ e.type = "dropCollection"
        BY Bounds, SpecialNumbered DEF Typed, Fields, RecordTypes
    <2>2. mem'.collGone /\ mem'.dbGone = mem.dbGone
        BY <1>8, SchemaMemory DEF SchemaStep
    <2>3. walPend' = p2  BY <1>8, <2>0 DEF RemoveCollection
    <2>4. p2 \in Seq(Record)  BY <1>2, <2>0, <2>1, WithoutCollectionType, AppendProperties
    <2>5. \A gone \in BOOLEAN :
              Present(walPend, Len(walPend) + 1, "dropDatabase", "database", gone) =>
              Present(p2, Len(p2) + 1, "dropDatabase", "database", gone)
        BY <1>2, <2>0, <2>1, DropCollectionQueued
    <2>6. /\ DbDoomed' => DbDoomed
          /\ "truncate" \in todo => (DbTomb' => DbTomb)
        BY <1>1, <1>3, <1>5, <1>8, DoomStep
    <2>7. Whole(wal) => Fits(wal, walBusy \o p2, mem', {}, DbDoomed', CollDoomed')
        BY <1>2, <1>6, <2>2, <2>4, <2>5, <2>6, FitsRemoved
    <2>8. "truncate" \in todo => Fits(<<>>, <<>> \o p2, mem', {}, DbTomb', CollTomb')
        BY <1>2, <1>6, <2>2, <2>4, <2>5, <2>6, FitsRemoved
    <2>9. <<>> \o p2 = p2  BY <2>4, EmptyConcat
    <2>10. Queued' = walBusy \o p2  BY <1>3, <2>3 DEF Queued
    <2> QED  BY <1>3, <1>4, <1>6, <2>3, <2>7, <2>8, <2>9, <2>10 DEF LogFits
<1> QED  BY <1>7, <1>8

LEMMA WholePrefix ==
    ASSUME NEW w \in Seq(Record), NEW x \in Seq(Record), Whole(w \o x)
    PROVE  Whole(w)
<1>1. \A i \in 1..Len(w) : i \in 1..Len(w \o x) /\ (w \o x)[i] = w[i]
    BY ConcatFacts
<1> QED  BY <1>1 DEF Whole

LEMMA LastingConcat ==
    ASSUME NEW s \in Seq(Record), NEW t \in Seq(Record)
    PROVE  Lasting(s \o t) <=> Lasting(s) /\ Lasting(t)
<1>1. /\ Len(s) \in Nat /\ Len(t) \in Nat /\ Len(s \o t) = Len(s) + Len(t)
      /\ \A i \in 1..Len(s) : (s \o t)[i] = s[i]
      /\ \A i \in 1..Len(t) : (s \o t)[Len(s) + i] = t[i]
    BY ConcatFacts
<1>2. ASSUME Lasting(s \o t) PROVE Lasting(s) /\ Lasting(t)
    <2>1. \A i \in 1..Len(s) : i \in 1..Len(s \o t)  BY <1>1
    <2>2. \A i \in 1..Len(t) : Len(s) + i \in 1..Len(s \o t)  BY <1>1
    <2>3. Lasting(s)  BY <1>1, <1>2, <2>1 DEF Lasting
    <2>4. Lasting(t)  BY <1>1, <1>2, <2>2 DEF Lasting
    <2> QED  BY <2>3, <2>4
<1>3. ASSUME Lasting(s), Lasting(t) PROVE Lasting(s \o t)
    <2> SUFFICES ASSUME NEW i \in 1..Len(s \o t) PROVE (s \o t)[i].type \notin Removals
        BY DEF Lasting
    <2>1. CASE i <= Len(s)
        <3>1. i \in 1..Len(s)  BY <1>1, <2>1
        <3> QED  BY <1>1, <1>3, <3>1 DEF Lasting
    <2>2. CASE ~(i <= Len(s))
        <3>1. i - Len(s) \in 1..Len(t) /\ Len(s) + (i - Len(s)) = i  BY <1>1, <2>2
        <3>2. (s \o t)[Len(s) + (i - Len(s))] = t[i - Len(s)]  BY <1>1, <3>1
        <3> QED  BY <1>3, <3>1, <3>2 DEF Lasting
    <2> QED  BY <2>1, <2>2
<1> QED  BY <1>2, <1>3

\* What an append that fails or is cut off has written, if the file is whole.
LEMMA StoppedFile ==
    ASSUME Typed, NEW w2 \in Stopped(wal, walBusy), Whole(w2)
    PROVE  \E x \in Seq(Record) :
               /\ w2 = wal \o x /\ Whole(wal)
               /\ \A i \in 1..Len(x) : x[i].type \in Removals =>
                      \E j \in 1..Len(Queued) : Queued[j].type = x[i].type
<1>1. /\ wal \in Seq(Record) /\ walBusy \in Seq(Record) /\ walPend \in Seq(Record)
      /\ Queued \in Seq(Record)
    BY LogsAreRecords
<1>2. PICK x \in Seq(Record) :
          /\ w2 = wal \o x
          /\ \A i \in 1..Len(x) : x[i].type \in Removals =>
                 \E j \in 1..Len(walBusy) : walBusy[j].type = x[i].type
    BY <1>1, StoppedExtends
<1>3. Whole(wal)  BY <1>1, <1>2, WholePrefix
<1>4. \A j \in 1..Len(walBusy) : j \in 1..Len(Queued) /\ Queued[j] = walBusy[j]
    <2>1. \A j \in 1..Len(walBusy) : Queued[j] = walBusy[j]
        BY <1>1, ConcatFacts DEF Queued
    <2>2. /\ Len(Queued) = Len(walBusy) + Len(walPend)
          /\ Len(walBusy) \in Nat /\ Len(walPend) \in Nat
        BY <1>1, ConcatFacts DEF Queued
    <2>3. \A j \in 1..Len(walBusy) : j \in 1..Len(Queued)  BY <2>2
    <2> QED  BY <2>1, <2>3
<1> QED  BY <1>2, <1>3, <1>4

LEMMA LogStepFits ==
    ASSUME Typed, BatchOk, LogFits, InStep, AtomicTruncate, LogStep
    PROVE  LogFits'
<1>1. /\ wal \in Seq(Record) /\ walPend \in Seq(Record) /\ walBusy \in Seq(Record)
      /\ Queued \in Seq(Record) /\ <<>> \in Seq(Record)
    BY LogsAreRecords, EmptyConcat
<1>2. UNCHANGED <<mem, pend, batch, todo, s3, boots>>  BY LogEffect
<1>3. /\ Known' = Known /\ mem' = mem /\ todo' = todo
      /\ DbDoomed' = DbDoomed /\ CollDoomed' = CollDoomed
    BY <1>2 DEF Known, DbDoomed, CollDoomed, DbTomb, CollTomb
<1>4. "truncate" \notin todo
    <2>1. CASE StartAppend  BY <2>1 DEF StartAppend, BatchOk
    <2>2. CASE FinishAppend \/ FailAppend
        BY <2>2 DEF FinishAppend, FailAppend, LogFits
    <2> QED  BY <2>1, <2>2 DEF LogStep
<1>5. CASE StartAppend
    <2>1. walBusy = <<>> /\ walBusy' = walPend /\ walPend' = <<>> /\ wal' = wal
        BY <1>5 DEF StartAppend
    <2>2. Queued' = Queued  BY <1>1, <2>1, EmptyConcat DEF Queued
    <2> QED  BY <1>3, <1>4, <2>1, <2>2 DEF LogFits
<1>6. CASE FinishAppend
    <2>1. wal' = Appended(wal, walBusy) /\ walBusy' = <<>> /\ walPend' = walPend
        BY <1>6 DEF FinishAppend
    <2>2. Queued' = walPend  BY <1>1, <2>1, EmptyConcat DEF Queued
    <2>3. ASSUME Whole(wal')
          PROVE  Fits(wal', walPend, mem, Known, DbDoomed, CollDoomed)
        <3>1. wal' = wal \o walBusy  BY <1>1, <2>1, <2>3, AppendedWhole
        <3>2. Whole(wal)  BY <1>1, <2>3, <3>1, WholePrefix
        <3>3. Fits(wal, walBusy \o walPend, mem, Known, DbDoomed, CollDoomed)
            BY <3>2 DEF LogFits, Queued
        <3> QED  BY <1>1, <3>1, <3>3, FitsMoved
    <2> QED  BY <1>3, <1>4, <2>2, <2>3 DEF LogFits
<1>7. CASE FailAppend
    <2>1. wal' \in Stopped(wal, walBusy) /\ walPend' = Queued /\ walBusy' = <<>>
        BY <1>7 DEF FailAppend, Queued
    <2>2. Queued' = Queued
        <3>1. Queued' = <<>> \o Queued  BY <2>1 DEF Queued
        <3> QED  BY <1>1, <3>1, EmptyConcat
    <2>3. ASSUME Whole(wal')
          PROVE  Fits(wal', Queued, mem, Known, DbDoomed, CollDoomed)
        <3>1. PICK x \in Seq(Record) :
                  /\ wal' = wal \o x /\ Whole(wal)
                  /\ \A i \in 1..Len(x) : x[i].type \in Removals =>
                         \E j \in 1..Len(Queued) : Queued[j].type = x[i].type
            BY <2>1, <2>3, StoppedFile
        <3>2. Fits(wal, Queued, mem, Known, DbDoomed, CollDoomed)
            BY <3>1 DEF LogFits
        <3> QED  BY <1>1, <3>1, <3>2, FitsExtended
    <2> QED  BY <1>3, <1>4, <2>2, <2>3 DEF LogFits
<1> QED  BY <1>5, <1>6, <1>7 DEF LogStep

\* Removals are schema changes.
LEMMA NoRemoval ==
    ASSUME Typed, schema' = schema
    PROVE  ~RemoveDatabase /\ ~RemoveCollection
<1>1. schema \in Nat  BY Bounds DEF Typed, Fields
<1>2. RemoveDatabase \/ RemoveCollection => schema' = schema + 1
    BY DEF RemoveDatabase, RemoveCollection, Schema
<1> QED  BY <1>1, <1>2

LEMMA RestartLasting ==
    ASSUME Typed, Restart, InStep'
    PROVE  /\ Lasting(wal) /\ wal' = wal /\ walPend' = <<>> /\ walBusy' = <<>>
           /\ AckedNow' \subseteq {o \in acked : o.run = boots + 1}
           /\ pend' = Nothing /\ batch' = Nothing /\ todo' = {}
<1>1. /\ ~up /\ boots' = boots + 1 /\ replayed' = replayed \cup {r.type : r \in Range(wal)}
      /\ UNCHANGED <<pend, batch, todo, walPend, walBusy, wal, acked>>
    BY DEF Restart
<1>2. /\ pend = Nothing /\ batch = Nothing /\ todo = {} /\ walPend = <<>> /\ walBusy = <<>>
    BY <1>1 DEF Typed, DownOk
<1>3. \A r \in Range(wal) : r.type = "ops"  BY <1>1 DEF InStep
<1>4. \A k \in 1..Len(wal) : wal[k] \in Range(wal)
    <2>1. wal \in Seq(Record)  BY LogsAreRecords
    <2>2. DOMAIN wal = 1..Len(wal)  BY <2>1, LenProperties
    <2> QED  BY <2>2 DEF Range
<1>5. Lasting(wal)  BY <1>3, <1>4 DEF Lasting, Removals
<1>6. AckedNow' \subseteq {o \in acked : o.run = boots + 1}  BY <1>1 DEF AckedNow
<1> QED  BY <1>1, <1>2, <1>5, <1>6

LEMMA RestartFits ==
    ASSUME Typed, Restart, InStep'
    PROVE  LogFits'
<1>1. /\ Lasting(wal) /\ wal' = wal /\ walPend' = <<>> /\ walBusy' = <<>>
      /\ pend' = Nothing /\ batch' = Nothing /\ todo' = {}
    BY RestartLasting
<1>2. mem'.dbGone = s3.dbTomb /\ mem'.collGone = s3.collTomb /\ s3' = s3
    BY RestartInStep
<1>3. (~mem'.dbGone => ~DbDoomed') /\ (~mem'.collGone => ~CollDoomed')
    BY <1>1, <1>2, EmptyValues DEF DbDoomed, CollDoomed, DbTomb, CollTomb
<1>4. Queued' = <<>>
    <2>1. Queued' = <<>> \o <<>>  BY <1>1 DEF Queued
    <2> QED  BY <2>1, EmptyConcat
<1>5. wal \in Seq(Record)  BY LogsAreRecords
<1>6. Fits(wal, <<>>, mem', Known', DbDoomed', CollDoomed')
    BY <1>1, <1>3, <1>5, FitsStored
<1> QED  BY <1>1, <1>4, <1>6 DEF LogFits

LEMMA FitsStep ==
    ASSUME Typed, BatchOk, TombsOk', NumbersOk, LogFits, AtomicTruncate, [Next]_vars
    PROVE  LogFits'
<1> SUFFICES ASSUME InStep' PROVE LogFits'  BY DEF LogFits
<1>1. CASE Restart  BY <1>1, RestartFits
<1>2. CASE ~Restart
    <2>1. InStep /\ ~Crash /\ boots' = boots  BY <1>2, StaysInStep
    <2>2. CASE Insert  BY <2>1, <2>2, InsertFits
    <2>3. CASE SchemaStep  BY <2>1, <2>3, CreateFits, RemoveFits DEF SchemaStep
    <2>4. CASE FlushCall  BY <2>1, <2>4, FlushCallFits
    <2>5. CASE LogStep  BY <2>1, <2>5, LogStepFits
    <2>6. ASSUME UNCHANGED <<mem, boots, wal, walPend, walBusy>>,
                 "truncate" \in todo' => "truncate" \in todo,
                 ~RemoveDatabase, ~RemoveCollection
          PROVE  LogFits'
        <3>1. /\ DbDoomed' => DbDoomed
              /\ CollDoomed' => CollDoomed
              /\ "truncate" \in todo' => (DbTomb' => DbTomb) /\ (CollTomb' => CollTomb)
            BY <1>2, <2>1, <2>6, DoomStep
        <3> QED  BY <2>1, <2>6, <3>1, QuietFits
    <2>7. CASE StartFlush \/ RequestCheckpoint
        <3>1. UNCHANGED <<mem, boots, wal, walPend, walBusy, seq, schema>>
            BY <2>7 DEF StartFlush, RequestCheckpoint
        <3>2. "truncate" \in todo' => "truncate" \in todo
            BY <2>7, TakeBatchEffect, CallsOfMembers DEF Typed, Fields
        <3> QED  BY <2>6, <3>1, <3>2, NoRemoval
    <2>8. CASE FailFlush
        <3>1. UNCHANGED <<mem, boots, wal, walPend, walBusy, schema>> /\ todo' = {}
            BY <2>8 DEF FailFlush
        <3> QED  BY <2>6, <3>1, NoRemoval
    <2>9. CASE CheckpointStep
        <3>1. UNCHANGED <<mem, boots, wal, walPend, walBusy, todo, schema>>
            BY <2>9 DEF CheckpointStep, PauseFlushes, ReadSegments, WriteLatest,
                        CompactJournals, FailCheckpoint
        <3> QED  BY <2>6, <3>1, NoRemoval
    <2>10. CASE UNCHANGED vars
        <3>1. UNCHANGED <<mem, boots, wal, walPend, walBusy, todo, schema>>
            BY <2>10 DEF vars, data
        <3> QED  BY <2>6, <3>1, NoRemoval
    <2> QED
        BY <1>2, <2>1, <2>2, <2>3, <2>4, <2>5, <2>7, <2>8, <2>9, <2>10, Steps
<1> QED  BY <1>1, <1>2

----------------------------------------------------------------------------
\* Acknowledged operations stay in the log or settled in storage.

\* While the log is about to be truncated, what is settled stays so.
LEMMA SettledTruncate ==
    ASSUME Typed, NumbersOk, BatchOk, [Next]_vars, ~Crash, ~Restart,
           ~RemoveDatabase, ~RemoveCollection, "truncate" \in todo, "truncate" \in todo',
           NEW o \in Known, Settled(o, pend.ops)
    PROVE  Settled(o, pend.ops)'
<1>1. o \notin pend.ops /\ ~s3.dbTomb /\ ~s3.collTomb  BY DEF Settled
<1> SUFFICES o \notin pend'.ops /\ ~s3'.dbTomb /\ ~s3'.collTomb
    BY DEF Settled
<1>2. CASE Insert
    <2> PICK new : new = [run |-> boots, seq |-> seq + 1]  OBVIOUS
    <2>1. s3' = s3 /\ pend' = QueueOp(pend, new)  BY <1>2 DEF Insert
    <2>2. pend'.ops = pend.ops \cup {new}  BY <2>1 DEF QueueOp, Typed, Fields, Queue
    <2>3. o # new
        <3>1. o.seq <= seq /\ seq \in Nat  BY Bounds DEF NumbersOk, Typed, Fields
        <3> QED  BY <3>1
    <2> QED  BY <1>1, <2>1, <2>2, <2>3
<1>3. CASE SchemaStep
    <2>1. s3' = s3  BY <1>3, SchemaEffect
    <2>2. pend'.ops = pend.ops  BY <1>3, SchemaQueue DEF SchemaStep
    <2> QED  BY <1>1, <2>1, <2>2
<1>4. CASE StartFlush \/ RequestCheckpoint
    <2>1. s3' = s3 /\ pend' = pend  BY <1>4, TakeBatchEffect
    <2> QED  BY <1>1, <2>1
<1>5. CASE FlushCall
    <2>1. PICK call \in todo : s3' = Stored(s3, {call}, batch) /\ pend' = pend
        BY <1>5, FlushCallEffect
    <2>2. call = "truncate"  BY <2>1 DEF BatchOk
    <2> QED  BY <1>1, <2>1, <2>2, CallTombs
<1>6. CASE FailFlush
    <2>1. todo' = {}  BY <1>6, FailFlushEffect
    <2> QED  BY <2>1
<1>7. CASE CheckpointStep
    <2>1. pend' = pend /\ s3'.dbTomb = s3.dbTomb /\ s3'.collTomb = s3.collTomb
        BY <1>7, CheckpointEffect
    <2> QED  BY <1>1, <2>1
<1>8. CASE LogStep \/ UNCHANGED vars
    <2>1. UNCHANGED <<pend, s3>>  BY <1>8, LogEffect DEF vars, data
    <2> QED  BY <1>1, <2>1
<1> QED  BY <1>2, <1>3, <1>4, <1>5, <1>6, <1>7, <1>8, Steps

LEMMA AckedKnown ==
    ASSUME AckedOk, InStep
    PROVE  AckedNow \subseteq Known
BY DEF AckedOk, AckedNow, Known

\* What a step, other than a removal, leaves as it was.
LEMMA AckedEffect ==
    ASSUME Typed, NumbersOk, BatchOk, PlacesOk, AckedOk, InStep, [Next]_vars,
           ~Crash, ~Restart, ~RemoveDatabase, ~RemoveCollection
    PROVE  /\ DbDoomed' => DbDoomed
           /\ CollDoomed' => CollDoomed
           /\ \A o \in AckedNow : Settled(o, pend.ops \cup batch.ops) =>
                                  Settled(o, pend.ops \cup batch.ops)'
           /\ "truncate" \in todo /\ "truncate" \in todo' =>
                  \A o \in AckedNow : Settled(o, pend.ops)'
<1>1. (DbDoomed' => DbDoomed) /\ (CollDoomed' => CollDoomed)  BY DoomStep
<1>2. \A o \in AckedNow : Settled(o, pend.ops \cup batch.ops) =>
                          Settled(o, pend.ops \cup batch.ops)'
    BY AckedKnown, SettledStep
<1>3. ASSUME "truncate" \in todo, "truncate" \in todo'
      PROVE  \A o \in AckedNow : Settled(o, pend.ops)'
    <2>1. \A o \in AckedNow : Settled(o, pend.ops)  BY <1>3 DEF AckedOk
    <2> QED  BY <1>3, <2>1, AckedKnown, SettledTruncate
<1> QED  BY <1>1, <1>2, <1>3

\* The step does not concern the log.
LEMMA QuietAcked ==
    ASSUME Typed, NumbersOk, BatchOk, PlacesOk, AckedOk, InStep, [Next]_vars,
           ~Crash, ~Restart, ~RemoveDatabase, ~RemoveCollection,
           UNCHANGED <<mem, boots, acked, wal, walPend, walBusy>>
    PROVE  /\ Whole(wal') => \A o \in AckedNow' : Safe(o)'
           /\ ("truncate" \in todo' => "truncate" \in todo) => AckedOk'
<1>1. AckedNow' = AckedNow /\ Queued' = Queued  BY DEF AckedNow, Queued
<1>2. ASSUME Whole(wal), NEW o \in AckedNow PROVE Safe(o)'
    <2>1. Safe(o)  BY <1>2 DEF AckedOk
    <2>2. Logged(o, wal, Queued, DbDoomed, CollDoomed) =>
              Logged(o, wal, Queued, DbDoomed', CollDoomed')
        BY AckedEffect, LoggedWeaker
    <2>3. Settled(o, pend.ops \cup batch.ops) => Settled(o, pend.ops \cup batch.ops)'
        BY AckedEffect
    <2> QED  BY <1>1, <2>1, <2>2, <2>3 DEF Safe
<1>3. ASSUME "truncate" \in todo', "truncate" \in todo, NEW o \in AckedNow
      PROVE  Settled(o, pend.ops)' /\ Lasting(walPend)'
    <2>1. Settled(o, pend.ops)'  BY <1>3, AckedEffect
    <2>2. Lasting(walPend)  BY <1>3 DEF AckedOk
    <2> QED  BY <2>1, <2>2
<1>4. AckedNow' \subseteq mem'.ops  BY <1>1 DEF AckedOk
<1> QED  BY <1>1, <1>2, <1>3, <1>4 DEF AckedOk

\* A record that removes nothing is queued.
LEMMA AppendAcked ==
    ASSUME Typed, NumbersOk, BatchOk, PlacesOk, AckedOk, InStep, [Next]_vars,
           ~Crash, ~Restart, ~RemoveDatabase, ~RemoveCollection,
           NEW r \in Record, walPend' = Append(walPend, r), r.type \notin Removals,
           UNCHANGED <<boots, acked, wal, walBusy, todo>>, mem.ops \subseteq mem'.ops
    PROVE  AckedOk'
<1>1. wal \in Seq(Record) /\ walPend \in Seq(Record) /\ Queued \in Seq(Record)
      /\ <<r>> \in Seq(Record)
    BY LogsAreRecords, OneRecord
<1>2. walPend' = walPend \o <<r>> /\ Queued' = Queued \o <<r>> /\ AckedNow' = AckedNow
    BY QueuedAppend DEF Queued, AckedNow
<1>3. Lasting(<<r>>)  BY OneRecord DEF Lasting
<1>4. ASSUME Whole(wal), NEW o \in AckedNow PROVE Safe(o)'
    <2>1. Safe(o)  BY <1>4 DEF AckedOk
    <2>2. CASE Logged(o, wal, Queued, DbDoomed, CollDoomed)
        <3>1. Logged(o, wal, Queued \o <<r>>, DbDoomed, CollDoomed)
            BY <1>1, <2>2, LoggedQueued
        <3>2. Logged(o, wal, Queued \o <<r>>, DbDoomed', CollDoomed')
            BY <3>1, AckedEffect, LoggedWeaker
        <3> QED  BY <1>2, <3>2 DEF Safe
    <2>3. CASE Settled(o, pend.ops \cup batch.ops) /\ Lasting(wal \o Queued)
        <3>1. Settled(o, pend.ops \cup batch.ops)'  BY <2>3, AckedEffect
        <3>2. Lasting(wal \o (Queued \o <<r>>))
            <4>1. Lasting(wal) /\ Lasting(Queued)  BY <1>1, <2>3, LastingConcat
            <4>2. Queued \o <<r>> \in Seq(Record)  BY <1>1, ConcatFacts
            <4>3. Lasting(Queued \o <<r>>)  BY <1>1, <1>3, <4>1, LastingConcat
            <4> QED  BY <1>1, <4>1, <4>2, <4>3, LastingConcat
        <3> QED  BY <1>2, <3>1, <3>2 DEF Safe
    <2> QED  BY <2>1, <2>2, <2>3 DEF Safe
<1>5. ASSUME "truncate" \in todo, NEW o \in AckedNow
      PROVE  Settled(o, pend.ops)' /\ Lasting(walPend')
    <2>1. Settled(o, pend.ops)'  BY <1>5, AckedEffect
    <2>2. Lasting(walPend)  BY <1>5 DEF AckedOk
    <2>3. Lasting(walPend \o <<r>>)  BY <1>1, <1>3, <2>2, LastingConcat
    <2> QED  BY <1>2, <2>1, <2>3
<1>6. AckedNow' \subseteq mem'.ops  BY <1>2 DEF AckedOk
<1> QED  BY <1>2, <1>4, <1>5, <1>6 DEF AckedOk

LEMMA LastingEmpty == Lasting(<<>>)
<1>1. \A k \in 1..0 : FALSE  OBVIOUS
<1> QED  BY <1>1, EmptyConcat DEF Lasting

LEMMA StoppedLasting ==
    ASSUME NEW w \in Seq(Record), NEW x \in Seq(Record), NEW q \in Seq(Record),
           \A i \in 1..Len(x) : x[i].type \in Removals =>
               \E j \in 1..Len(q) : q[j].type = x[i].type,
           Lasting(w \o q)
    PROVE  Lasting(w \o x) /\ Lasting((w \o x) \o q)
<1>1. Lasting(w) /\ Lasting(q)  BY LastingConcat
<1>2. Lasting(x)  BY <1>1 DEF Lasting
<1>3. Lasting(w \o x) /\ w \o x \in Seq(Record)  BY <1>1, <1>2, LastingConcat, ConcatFacts
<1> QED  BY <1>1, <1>3, LastingConcat

LEMMA FlushCallAcked ==
    ASSUME Typed, NumbersOk, BatchOk, PlacesOk, LogFits, AckedOk, InStep, InStep',
           TombsOk', FlushCall
    PROVE  AckedOk'
<1>1. PICK call \in todo :
        /\ s3' = Stored(s3, {call}, batch)
        /\ wal' = IF call = "truncate" THEN <<>> ELSE wal
        /\ todo' = IF todo = {call} /\ call # "truncate" /\ MayTruncate
                   THEN {"truncate"} ELSE todo \ {call}
        /\ batch' = IF todo' = {} THEN Nothing ELSE batch
        /\ UNCHANGED <<mem, boots, acked, pend, walPend, walBusy, schema>>
    BY DEF FlushCall
<1>2. walPend \in Seq(Record) /\ <<>> \in Seq(Record)
    BY LogsAreRecords, EmptyConcat
<1>3. /\ ~Crash /\ ~Restart /\ ~RemoveDatabase /\ ~RemoveCollection /\ Next
    BY <1>1, NoRemoval DEF Crash, Restart, InStep, Next
<1>4. AckedNow' = AckedNow /\ AckedNow \subseteq mem.ops /\ mem' = mem
    BY <1>1 DEF AckedNow, AckedOk
<1>5. CASE call = "truncate"
    <2>1. todo = {"truncate"}  BY <1>5 DEF BatchOk
    <2>2. todo' = {} /\ batch' = Nothing /\ wal' = <<>>  BY <1>1, <1>5, <2>1
    <2>3. s3'.dbTomb = s3.dbTomb /\ s3'.collTomb = s3.collTomb
        BY <1>1, <1>5, CallTombs
    <2>4. walBusy = <<>>  BY <2>1 DEF LogFits
    <2>5. (wal \o Queued)' = walPend
        <3>1. Queued' = <<>> \o walPend /\ wal' = <<>>  BY <1>1, <2>2, <2>4 DEF Queued
        <3>2. <<>> \o walPend = walPend  BY <1>2, EmptyConcat
        <3> QED  BY <3>1, <3>2
    <2>6. ASSUME NEW o \in AckedNow PROVE Safe(o)'
        <3>1. Settled(o, pend.ops) /\ Lasting(walPend)  BY <2>1 DEF AckedOk
        <3>2. Settled(o, pend.ops \cup batch.ops)'
            BY <1>1, <2>2, <2>3, <3>1, EmptyValues DEF Settled
        <3> QED  BY <2>5, <3>1, <3>2 DEF Safe
    <2> QED  BY <1>4, <2>2, <2>6 DEF AckedOk
<1>6. CASE call # "truncate"
    <2>1. wal' = wal  BY <1>1, <1>6
    <2>2. Whole(wal') => \A o \in AckedNow' : Safe(o)'
        BY <1>1, <1>3, <2>1, QuietAcked
    <2>3. CASE todo = {call} /\ MayTruncate
        <3>1. todo' = {"truncate"} /\ walPend' = <<>> /\ pend' = Nothing
            BY <1>1, <1>6, <2>3 DEF MayTruncate
        <3>2. /\ ~pend'.db /\ ~pend'.dbDrop /\ ~pend'.meta /\ ~pend'.collDrop
              /\ pend'.ops = {}
            BY <3>1, EmptyValues
        <3>3. /\ ~mem'.dbGone => ~s3'.dbTomb
              /\ ~mem'.collGone => ~s3'.collTomb
              /\ mem'.dbGone \/ mem'.collGone => mem'.ops = {}
            BY <3>1, <3>2 DEF TombsOk
        <3>4. ASSUME NEW o \in AckedNow' PROVE Settled(o, pend.ops)' /\ Lasting(walPend')
            <4>1. ~s3'.dbTomb /\ ~s3'.collTomb  BY <1>4, <3>3
            <4> QED  BY <3>1, <3>2, <4>1, LastingEmpty DEF Settled
        <3> QED  BY <1>4, <2>2, <3>4 DEF AckedOk
    <2>4. CASE ~(todo = {call} /\ MayTruncate)
        <3>1. "truncate" \notin todo'
            BY <1>1, <1>6, <2>4 DEF BatchOk
        <3> QED  BY <1>1, <1>3, <2>1, <3>1, QuietAcked
    <2> QED  BY <2>3, <2>4
<1> QED  BY <1>5, <1>6

LEMMA StartAppendAcked ==
    ASSUME Typed, BatchOk, AckedOk, InStep, AtomicTruncate, StartAppend
    PROVE  AckedOk'
<1>1. /\ walBusy = <<>> /\ walBusy' = walPend /\ walPend' = <<>> /\ todo # {"truncate"}
      /\ UNCHANGED <<mem, pend, batch, todo, s3, wal, boots, acked>>
    BY DEF StartAppend
<1>2. "truncate" \notin todo  BY <1>1 DEF BatchOk
<1>3. Queued' = Queued
    <2>1. walPend \in Seq(Record)  BY LogsAreRecords
    <2>2. <<>> \o walPend = walPend /\ walPend \o <<>> = walPend  BY <2>1, EmptyConcat
    <2> QED  BY <1>1, <2>2 DEF Queued
<1>4. /\ AckedNow' = AckedNow /\ DbDoomed' = DbDoomed /\ CollDoomed' = CollDoomed
    BY <1>1 DEF AckedNow, DbDoomed, CollDoomed, DbTomb, CollTomb
<1>5. \A o \in AckedNow : Safe(o) => Safe(o)'
    BY <1>1, <1>3, <1>4 DEF Safe, Settled
<1> QED  BY <1>1, <1>2, <1>4, <1>5 DEF AckedOk

LEMMA FinishAppendAcked ==
    ASSUME Typed, NumbersOk, LogFits, AckedOk, InStep, FinishAppend
    PROVE  AckedOk'
<1>1. /\ walBusy # <<>> /\ wal' = Appended(wal, walBusy) /\ walBusy' = <<>>
      /\ acked' = acked \cup ({r.op : r \in Range(walBusy)} \cap mem.ops)
      /\ UNCHANGED <<mem, pend, batch, todo, s3, walPend, boots>>
    BY DEF FinishAppend
<1>2. /\ wal \in Seq(Record) /\ walPend \in Seq(Record) /\ walBusy \in Seq(Record)
    BY LogsAreRecords
<1>3. "truncate" \notin todo  BY <1>1 DEF LogFits
<1>4. Queued' = walPend  BY <1>1, <1>2, EmptyConcat DEF Queued
<1>5. DbDoomed' = DbDoomed /\ CollDoomed' = CollDoomed
    BY <1>1 DEF DbDoomed, CollDoomed, DbTomb, CollTomb
<1>6. \A o \in AckedNow' : \/ o \in AckedNow
                           \/ o \in Known /\ \E r \in Range(walBusy) : o = r.op
    BY <1>1 DEF AckedNow, Known
<1>7. AckedNow' \subseteq mem'.ops  BY <1>1, <1>6 DEF AckedOk, Known
<1>8. ASSUME Whole(wal'), NEW o \in AckedNow' PROVE Safe(o)'
    <2>1. wal' = wal \o walBusy  BY <1>1, <1>2, <1>8, AppendedWhole
    <2>2. Whole(wal)  BY <1>2, <1>8, <2>1, WholePrefix
    <2>3. CASE o \in AckedNow
        <3>1. Safe(o)  BY <2>2, <2>3 DEF AckedOk
        <3>2. Logged(o, wal, walBusy \o walPend, DbDoomed, CollDoomed) =>
                  Logged(o, wal \o walBusy, walPend, DbDoomed, CollDoomed)
            BY <1>2, LoggedMoved
        <3>3. wal \o (walBusy \o walPend) = (wal \o walBusy) \o walPend
            BY <1>2, ConcatAssociative
        <3> QED  BY <1>1, <1>4, <1>5, <2>1, <3>1, <3>2, <3>3 DEF Safe, Settled, Queued
    <2>4. CASE o \in Known /\ \E r \in Range(walBusy) : o = r.op
        <3>1. PICK k \in 1..Len(walBusy) : o = walBusy[k].op
            <4>1. DOMAIN walBusy = 1..Len(walBusy)  BY <1>2, LenProperties
            <4> QED  BY <2>4, <4>1 DEF Range
        <3>2. walBusy[k].type = "ops"
            <4>1. walBusy[k] \in Numbered(boots, seq)  BY ElementOfSeq DEF NumbersOk
            <4>2. o \in Op  BY <2>4 DEF Known, Typed, Fields, Memory
            <4>3. NoOp \notin Op  BY DEF Op, NoOp
            <4> QED  BY <3>1, <4>1, <4>2, <4>3 DEF Numbered
        <3>3. Fits(wal, walBusy \o walPend, mem, Known, DbDoomed, CollDoomed)
            BY <2>2 DEF LogFits, Queued
        <3>4. Logged(o, wal \o walBusy, walPend, DbDoomed, CollDoomed)
            BY <1>2, <2>4, <3>1, <3>2, <3>3, FitsMoved
        <3> QED  BY <1>4, <1>5, <2>1, <3>4 DEF Safe
    <2> QED  BY <1>6, <2>3, <2>4
<1> QED  BY <1>1, <1>3, <1>7, <1>8 DEF AckedOk

LEMMA FailAppendAcked ==
    ASSUME Typed, LogFits, AckedOk, InStep, FailAppend
    PROVE  AckedOk'
<1>1. /\ walBusy # <<>> /\ wal' \in Stopped(wal, walBusy)
      /\ walPend' = Queued /\ walBusy' = <<>>
      /\ UNCHANGED <<mem, pend, batch, todo, s3, boots, acked>>
    BY DEF FailAppend, Queued
<1>2. wal \in Seq(Record) /\ Queued \in Seq(Record)
    BY LogsAreRecords
<1>3. "truncate" \notin todo  BY <1>1 DEF LogFits
<1>4. Queued' = Queued
    <2>1. Queued' = <<>> \o Queued  BY <1>1 DEF Queued
    <2> QED  BY <1>2, <2>1, EmptyConcat
<1>5. /\ AckedNow' = AckedNow /\ DbDoomed' = DbDoomed /\ CollDoomed' = CollDoomed
    BY <1>1 DEF AckedNow, DbDoomed, CollDoomed, DbTomb, CollTomb
<1>6. ASSUME Whole(wal'), NEW o \in AckedNow PROVE Safe(o)'
    <2>1. PICK x \in Seq(Record) :
              /\ wal' = wal \o x /\ Whole(wal)
              /\ \A i \in 1..Len(x) : x[i].type \in Removals =>
                     \E j \in 1..Len(Queued) : Queued[j].type = x[i].type
        BY <1>1, <1>6, StoppedFile
    <2>2. Safe(o)  BY <2>1 DEF AckedOk
    <2>3. Logged(o, wal, Queued, DbDoomed, CollDoomed) =>
              Logged(o, wal \o x, Queued, DbDoomed, CollDoomed)
        BY <1>2, <2>1, LoggedExtended
    <2>4. Lasting(wal \o Queued) => Lasting((wal \o x) \o Queued)
        BY <1>2, <2>1, StoppedLasting
    <2> QED  BY <1>1, <1>4, <1>5, <2>1, <2>2, <2>3, <2>4 DEF Safe, Settled
<1> QED  BY <1>1, <1>3, <1>5, <1>6 DEF AckedOk

LEMMA CreateAcked ==
    ASSUME Typed, NumbersOk, BatchOk, PlacesOk, AckedOk, InStep, InStep', [Next]_vars,
           ~Crash, ~Restart, ~RemoveDatabase, ~RemoveCollection,
           CreateDatabase \/ CreateCollection
    PROVE  AckedOk'
<1>1. UNCHANGED <<boots, acked, wal, walBusy, todo>>
    BY DEF CreateDatabase, CreateCollection, Schema
<1>2. mem'.ops = mem.ops
    BY DEF CreateDatabase, CreateCollection, Typed, Fields, Memory
<1>3. boots \in Nat /\ {"database", "meta"} \subseteq RecordTypes \ {"ops"}
    BY Bounds DEF Typed, Fields, RecordTypes
<1>4. \A t \in {"database", "meta"} : Rec(t) \in Record /\ Rec(t).type \notin Removals
    BY <1>3, SpecialNumbered DEF Removals
<1>5. CASE walPend' = Append(walPend, Rec("database"))
    BY <1>1, <1>2, <1>4, <1>5, AppendAcked
<1>6. CASE walPend' = Append(walPend, Rec("meta"))
    BY <1>1, <1>2, <1>4, <1>6, AppendAcked
<1>7. CASE CreateCollection /\ mem.dbGone
    <2>1. walPend' = walPend /\ mem' = [mem EXCEPT !.collGone = FALSE]
        BY <1>7 DEF CreateCollection
    <2>2. ~mem.collGone
        <3>1. "unrecorded" \notin lapses'  BY DEF InStep, LeftBehind
        <3> QED  BY <1>7, <3>1 DEF CreateCollection, If
    <2>3. mem' = mem  BY <2>1, <2>2 DEF Typed, Fields, Memory
    <2> QED  BY <1>1, <2>1, <2>3, QuietAcked
<1> QED  BY <1>5, <1>6, <1>7 DEF CreateDatabase, CreateCollection

LEMMA AckedStep ==
    ASSUME Typed, BatchOk, PlacesOk, TombsOk', NumbersOk, LogFits, AckedOk, AtomicTruncate,
           [Next]_vars
    PROVE  AckedOk'
<1> SUFFICES ASSUME InStep' PROVE AckedOk'  BY DEF AckedOk
<1>1. CASE Restart
    <2>1. todo' = {} /\ AckedNow' \subseteq {o \in acked : o.run = boots + 1}
        BY <1>1, RestartLasting
    <2>2. \A o \in acked : o.run <= boots /\ o.run \in Nat /\ boots \in Nat
        BY OpFields, Bounds DEF NumbersOk, Typed, Fields
    <2>3. AckedNow' = {}  BY <2>1, <2>2
    <2> QED  BY <2>1, <2>3 DEF AckedOk
<1>2. CASE RemoveDatabase \/ RemoveCollection
    <2>1. acked' = {}  BY <1>2 DEF RemoveDatabase, RemoveCollection
    <2>2. AckedNow' = {}  BY <2>1 DEF AckedNow
    <2> QED  BY <2>2 DEF AckedOk
<1>3. CASE ~Restart /\ ~RemoveDatabase /\ ~RemoveCollection
    <2>1. InStep /\ ~Crash /\ boots' = boots  BY <1>3, StaysInStep
    <2>2. CASE Insert
        <3> PICK new : new = [run |-> boots, seq |-> seq + 1]  OBVIOUS
        <3>1. /\ mem' = [mem EXCEPT !.ops = @ \cup {new}]
              /\ walPend' = Append(walPend, OpRec(new)) /\ seq < MaxOps
              /\ UNCHANGED <<boots, acked, wal, walBusy, todo>>
            BY <2>2 DEF Insert
        <3>2. mem.ops \subseteq mem'.ops  BY <3>1 DEF Typed, Fields, Memory
        <3>3. new \in Op  BY <3>1, Bounds DEF Typed, Fields, Op
        <3>4. OpRec(new) \in Record /\ OpRec(new).type \notin Removals
            BY <3>3 DEF OpRec, Record, RecordTypes, Removals
        <3> QED  BY <1>3, <2>1, <3>1, <3>2, <3>4, AppendAcked
    <2>3. CASE SchemaStep
        BY <1>3, <2>1, <2>3, CreateAcked DEF SchemaStep
    <2>4. CASE FlushCall  BY <2>1, <2>4, FlushCallAcked
    <2>5. CASE LogStep
        BY <2>1, <2>5, StartAppendAcked, FinishAppendAcked, FailAppendAcked DEF LogStep
    <2>6. CASE StartFlush \/ RequestCheckpoint
        <3>1. UNCHANGED <<mem, boots, acked, wal, walPend, walBusy>>
            BY <2>6 DEF StartFlush, RequestCheckpoint
        <3>2. "truncate" \in todo' => "truncate" \in todo
            BY <2>6, TakeBatchEffect, CallsOfMembers DEF Typed, Fields
        <3> QED  BY <1>3, <2>1, <3>1, <3>2, QuietAcked
    <2>7. CASE FailFlush
        <3>1. UNCHANGED <<mem, boots, acked, wal, walPend, walBusy>> /\ todo' = {}
            BY <2>7 DEF FailFlush
        <3> QED  BY <1>3, <2>1, <3>1, QuietAcked
    <2>8. CASE CheckpointStep
        <3>1. UNCHANGED <<mem, boots, acked, wal, walPend, walBusy, todo>>
            BY <2>8 DEF CheckpointStep, PauseFlushes, ReadSegments, WriteLatest,
                        CompactJournals, FailCheckpoint
        <3> QED  BY <1>3, <2>1, <3>1, QuietAcked
    <2>9. CASE UNCHANGED vars
        <3>1. UNCHANGED <<mem, boots, acked, wal, walPend, walBusy, todo>>
            BY <2>9 DEF vars, data
        <3> QED  BY <1>3, <2>1, <3>1, QuietAcked
    <2> QED
        BY <1>3, <2>1, <2>2, <2>3, <2>4, <2>5, <2>6, <2>7, <2>8, <2>9, Steps
<1> QED  BY <1>1, <1>2, <1>3

----------------------------------------------------------------------------
\* What is safe while the process runs is found when it has stopped.

LEMMA SafeIsReachable ==
    ASSUME Typed, PlacesOk, AckedOk, InStep, NEW o \in AckedNow, Safe(o),
           NEW x \in Seq(Record),
           \A i \in 1..Len(x) : x[i].type \in Removals =>
               \E j \in 1..Len(Queued) : Queued[j].type = x[i].type
    PROVE  \/ Logged(o, wal \o x, <<>>, s3.dbTomb, s3.collTomb)
           \/ o \in Restored(s3).ops /\ Lasting(wal \o x)
<1>1. wal \in Seq(Record) /\ Queued \in Seq(Record) /\ <<>> \in Seq(Record)
    BY LogsAreRecords, EmptyConcat
<1>2. CASE Logged(o, wal, Queued, DbDoomed, CollDoomed)
    <2>1. Logged(o, wal \o x, <<>>, DbDoomed, CollDoomed)
        BY <1>1, <1>2, LoggedExtended
    <2>2. (s3.dbTomb => DbDoomed) /\ (s3.collTomb => CollDoomed)
        BY DEF DbDoomed, CollDoomed, DbTomb, CollTomb
    <2> QED  BY <2>1, <2>2, LoggedWeaker
<1>3. CASE Settled(o, pend.ops \cup batch.ops) /\ Lasting(wal \o Queued)
    <2>1. o \notin pend.ops \cup batch.ops /\ ~s3.dbTomb /\ ~s3.collTomb
        BY <1>3 DEF Settled
    <2>2. Placed(o)  BY AckedKnown DEF PlacesOk
    <2>3. /\ o \in s3.journal \/ o.seq <= s3.cursor
          /\ o.seq <= s3.cursor => o \in s3.snap
        BY <2>1, <2>2 DEF Placed
    <2>4. o.seq \in Nat /\ s3.cursor \in Nat
        BY OpFields, Bounds DEF AckedNow, Typed, Fields, Storage
    <2>5. o.seq <= s3.cursor \/ o.seq > s3.cursor  BY <2>4
    <2>6. o \in Restored(s3).ops
        BY <2>1, <2>3, <2>5 DEF Restored
    <2>7. Lasting(wal \o x)  BY <1>1, <1>3, StoppedLasting
    <2> QED  BY <2>6, <2>7
<1> QED  BY <1>2, <1>3 DEF Safe

LEMMA DownStep ==
    ASSUME Typed, PlacesOk, AckedOk, DownSafe, [Next]_vars
    PROVE  DownSafe'
<1> SUFFICES ASSUME ~up', replayed' \subseteq {"ops"}, lapses' \subseteq LeftBehind,
                    Whole(wal'), NEW o \in AckedNow'
             PROVE  Reachable(o)'
    BY DEF DownSafe
<1>1. CASE Crash
    <2>1. /\ wal' \in Stopped(wal, walBusy) /\ up
          /\ UNCHANGED <<s3, boots, acked, replayed, lapses>>
        BY <1>1 DEF Crash
    <2>2. InStep /\ AckedNow' = AckedNow  BY <2>1 DEF InStep, AckedNow
    <2>3. PICK x \in Seq(Record) :
              /\ wal' = wal \o x /\ Whole(wal)
              /\ \A i \in 1..Len(x) : x[i].type \in Removals =>
                     \E j \in 1..Len(Queued) : Queued[j].type = x[i].type
        BY <2>1, StoppedFile
    <2>4. Safe(o)  BY <2>2, <2>3 DEF AckedOk
    <2>5. \/ Logged(o, wal \o x, <<>>, s3.dbTomb, s3.collTomb)
          \/ o \in Restored(s3).ops /\ Lasting(wal \o x)
        BY <2>2, <2>3, <2>4, SafeIsReachable
    <2> QED  BY <2>1, <2>3, <2>5 DEF Reachable
<1>2. CASE ~Crash
    <2>1. UNCHANGED vars
        <3>1. up \/ Restart \/ UNCHANGED vars
            BY Steps DEF Insert, SchemaStep, CreateDatabase, RemoveDatabase,
               CreateCollection, RemoveCollection, Schema, StartFlush, RequestCheckpoint,
               FlushCall, FailFlush, CheckpointStep, PauseFlushes, ReadSegments,
               WriteLatest, CompactJournals, FailCheckpoint, LogStep, StartAppend,
               FinishAppend, FailAppend, Crash
        <3>2. Restart => up'  BY DEF Restart
        <3>3. up /\ ~Restart => up' = up
            BY <1>2, Steps, SchemaEffect, FlushCallEffect, FailFlushEffect,
               TakeBatchEffect, CheckpointEffect, LogEffect DEF Insert, vars
        <3> QED  BY <3>1, <3>2, <3>3
    <2>2. UNCHANGED <<up, replayed, lapses, wal, s3, acked, boots>>
        BY <2>1 DEF vars, data
    <2>3. AckedNow' = AckedNow  BY <2>2 DEF AckedNow
    <2>4. Reachable(o)  BY <2>2, <2>3 DEF DownSafe
    <2> QED  BY <2>2, <2>4 DEF Reachable
<1> QED  BY <1>1, <1>2

\* Being gone as a record is replayed is the opposite of being there.
LEMMA GoneIsAbsent ==
    ASSUME NEW i, NEW drop, NEW create, NEW before
    PROVE  Gone(i, drop, create, before) <=> ~Present(wal, i, drop, create, before)
BY DEF Gone, Present

LEMMA ReachableRecovered ==
    ASSUME Typed, NEW o \in acked, Reachable(o)
    PROVE  o \in Recovered.ops
<1> DEFINE stored == Restored(s3)
           dbGone(i) == Gone(i, "dropDatabase", "database", stored.dbGone)
           collGone(i) == Gone(i, "dropCollection", "meta", stored.collGone)
           applied == {i \in DOMAIN wal : /\ wal[i].type = "ops" /\ Kept(i)
                                          /\ ~dbGone(i) /\ ~collGone(i)}
<1>1. Recovered.ops = {p \in stored.ops : Kept(0)} \cup {wal[i].op : i \in applied}
    BY DEF Recovered
<1>2. wal \in Seq(Record) /\ DOMAIN wal = 1..Len(wal) /\ Len(wal) \in Nat
    BY LogsAreRecords, LenProperties
<1>3. stored.dbGone = s3.dbTomb /\ stored.collGone = s3.collTomb
    BY RestoredFacts DEF Typed, Fields
<1>4. CASE o \in Restored(s3).ops /\ Lasting(wal)
    <2>1. Kept(0)
        <3>1. \A j \in 0+1..Len(wal) : j \in 1..Len(wal)  OBVIOUS
        <3> QED  BY <1>4, <3>1 DEF Kept, Lasting, Removals
    <2> HIDE DEF applied
    <2> QED  BY <1>1, <1>4, <2>1
<1>5. CASE Logged(o, wal, <<>>, s3.dbTomb, s3.collTomb)
    <2>1. wal \o <<>> = wal  BY <1>2, EmptyConcat
    <2>2. PICK k \in 1..Len(wal) : /\ wal[k].type = "ops" /\ wal[k].op = o
                                   /\ Stays(wal, k, s3.dbTomb, s3.collTomb)
        BY <1>5, <2>1 DEF Logged
    <2>3. /\ Present(wal, k, "dropDatabase", "database", stored.dbGone)
          /\ Present(wal, k, "dropCollection", "meta", stored.collGone)
        BY <1>3, <2>2 DEF Stays
    <2>4. ~dbGone(k) /\ ~collGone(k)
        <3> HIDE DEF stored
        <3> QED  BY <2>3, GoneIsAbsent
    <2>5. Kept(k)  BY <2>2 DEF Kept, Stays, Removals
    <2>6. k \in applied
        <3> HIDE DEF dbGone, collGone
        <3> QED  BY <1>2, <2>2, <2>4, <2>5
    <2> HIDE DEF applied, stored
    <2> QED  BY <1>1, <2>2, <2>6
<1> QED  BY <1>4, <1>5 DEF Reachable

----------------------------------------------------------------------------
\* The theorem.

LEMMA LogInvInit == Init => LogInv
<1> SUFFICES ASSUME Init PROVE LogInv  OBVIOUS
<1>1. IInv  BY InvInit
<1>2. /\ mem.ops = {} /\ acked = {} /\ wal = <<>> /\ walPend = <<>> /\ walBusy = <<>>
      /\ todo = {} /\ pend = Nothing /\ batch = Nothing /\ s3 = EmptyStorage /\ up = TRUE
    BY DEF Init
<1>3. NumbersOk  BY <1>2, EmptySeq DEF NumbersOk, Known
<1>4. ~DbDoomed /\ ~CollDoomed
    BY <1>2, EmptyValues DEF DbDoomed, CollDoomed, DbTomb, CollTomb, EmptyStorage
<1>5. Queued = <<>> /\ <<>> \in Seq(Record)  BY <1>2, EmptyConcat DEF Queued
<1>6. Fits(<<>>, <<>>, mem, Known, DbDoomed, CollDoomed)
    BY <1>4, <1>5, LastingEmpty, FitsStored
<1>7. LogFits  BY <1>2, <1>5, <1>6 DEF LogFits
<1>8. AckedNow = {}  BY <1>2 DEF AckedNow
<1>9. AckedOk  BY <1>2, <1>8 DEF AckedOk
<1>10. DownSafe  BY <1>2 DEF DownSafe
<1> QED  BY <1>1, <1>3, <1>7, <1>9, <1>10 DEF LogInv

LEMMA LogInvStep ==
    ASSUME AtomicTruncate, LogInv, [Next]_vars
    PROVE  LogInv'
<1>1. IInv /\ IInv' /\ NumbersOk /\ LogFits /\ AckedOk /\ DownSafe
    BY InvStep DEF LogInv
<1>2. Typed /\ BatchOk /\ PlacesOk /\ TombsOk'  BY <1>1 DEF IInv
<1>3. NumbersOk'  BY <1>1, <1>2, NumbersStep
<1>4. LogFits'  BY <1>1, <1>2, FitsStep
<1>5. AckedOk'  BY <1>1, <1>2, AckedStep
<1>6. DownSafe'  BY <1>1, <1>2, DownStep
<1> QED  BY <1>1, <1>3, <1>4, <1>5, <1>6 DEF LogInv

LEMMA LogInvRecovers == LogInv => AckedRecoverable
<1> SUFFICES ASSUME LogInv, Recovered.ok, replayed \subseteq {"ops"}, lapses \subseteq LeftBehind,
                    NEW o \in AckedNow
             PROVE  o \in Recovered.ops
    BY DEF AckedRecoverable, AckedNow
<1>1. Typed /\ PlacesOk /\ AckedOk /\ DownSafe  BY DEF LogInv, IInv
<1>2. wal \in Seq(Record)  BY <1>1, LogsAreRecords
<1>3. Whole(wal)
    <2>1. \A r \in Range(wal) : r.type # "glued"  BY <1>1, RecoveredFacts DEF Typed
    <2>2. DOMAIN wal = 1..Len(wal)  BY <1>2, LenProperties
    <2>3. \A k \in 1..Len(wal) : wal[k] \in Range(wal)  BY <2>2 DEF Range
    <2> QED  BY <2>1, <2>3 DEF Whole
<1>4. Reachable(o)
    <2>1. CASE up
        <3>1. InStep  BY <2>1 DEF InStep
        <3>2. Safe(o)  BY <1>1, <1>3, <3>1 DEF AckedOk
        <3>3. wal \o <<>> = wal /\ <<>> \in Seq(Record) /\ Len(<<>>) = 0
            BY <1>2, EmptyConcat
        <3>4. \A i \in 1..Len(<<>>) : FALSE  BY <3>3
        <3>5. \/ Logged(o, wal \o <<>>, <<>>, s3.dbTomb, s3.collTomb)
              \/ o \in Restored(s3).ops /\ Lasting(wal \o <<>>)
            BY <1>1, <3>1, <3>2, <3>3, <3>4, SafeIsReachable
        <3> QED  BY <3>3, <3>5 DEF Reachable
    <2>2. CASE ~up  BY <1>1, <1>3, <2>2 DEF DownSafe
    <2> QED  BY <2>1, <2>2
<1> QED  BY <1>1, <1>4, ReachableRecovered DEF AckedNow

(***************************************************************************)
(* An operation that the local log has acknowledged is brought back by a    *)
(* restart at any moment (flushLocal, _truncateLocalWalIfDurable,           *)
(* _restoreLocalWal), whatever is dropped, fails or stops, and even when an *)
(* append may leave half a line.  AtomicTruncate is the one hypothesis:     *)
(* LocalWriteAheadLog lets an append overtake a truncation, and run         *)
(* persistence_faults makes the same assumption.                            *)
(***************************************************************************)
THEOREM AckedIsRecoverable == AtomicTruncate /\ Spec => []AckedRecoverable
<1>1. Init => LogInv  BY LogInvInit
<1>2. AtomicTruncate /\ LogInv /\ [Next]_vars => LogInv'  BY LogInvStep
<1>3. LogInv => AckedRecoverable  BY LogInvRecovers
<1> SUFFICES ASSUME AtomicTruncate PROVE Spec => []AckedRecoverable
    OBVIOUS
<1>4. LogInv /\ [Next]_vars => LogInv'  BY <1>2
<1> QED  BY <1>1, <1>3, <1>4, PTL DEF Spec

============================================================================
