------------------------------ MODULE DhtProofs -------------------------------
(***************************************************************************)
(* The routing table stays well formed, only bad nodes give way, every      *)
(* waiting query can be heard and no lookup asks twice, for every set of    *)
(* hosts and ids, every K, ALPHA and size of the counter.                   *)
(***************************************************************************)
EXTENDS Dht, FiniteSetTheorems, TLAPS

(* A candidate that may be asked has an address.                             *)
Addressed(c) ==
  \A n \in Id : c.state[n] # "unknown" \/ n \in c.batch => c.at[n] # Nobody

(* Queries are those of the rounds under way, and there are none while the   *)
(* node is down.                                                             *)
Asking ==
  /\ \A l \in Lookup :
       /\ look[l].phase \in {"idle", "picking"} => look[l].batch = {}
       /\ ~up => look[l].phase = "idle"
  /\ \A l \in Lookup, n \in Id :
       query[<<l, n>>].st # "none" => n \in look[l].batch

(* The strengthening: the table that the file would give is well formed, and *)
(* every search knows where to send its queries.                             *)
IInv ==
  /\ TypeOK
  /\ BucketsWellFormed
  /\ WellFormed(Loaded(file))
  /\ \A l \in Lookup : Addressed(look[l])
  /\ Asking
  /\ QueryIsHeard
  /\ StartReturns

(* What most steps need of the constants, all of it from DhtAssumption.       *)
LEMMA Constants ==
  /\ IsFiniteSet(Id) /\ Own \in Id /\ Me \in Host
  /\ Gets \cap Finds = {} /\ Starter \in Finds
  /\ K \in Nat
  /\ Failures \in Nat \ {0} /\ Txns \in Nat \ {0} /\ MaxStarts \in Nat
  /\ Nobody \notin Query /\ Nobody \notin Host
  BY DhtAssumption

USE Constants

-----------------------------------------------------------------------------
(* The table.                                                                *)

(* A table whose entries are some of another's, perhaps rewritten, is well   *)
(* formed if that one is.                                                    *)
LEMMA FewerEntries ==
  ASSUME NEW tb \in [Id -> Entry], NEW t2 \in [Id -> Entry], WellFormed(tb),
         \A n \in Id : t2[n] # Absent => tb[n] # Absent /\ t2[n].at # Nobody
  PROVE  WellFormed(t2)
<1> SUFFICES ASSUME NEW n \in Entries(t2)
             PROVE  /\ n # Own /\ t2[n].at # Nobody
                    /\ Cardinality(Bucket(t2, n)) <= K
    BY DEF WellFormed
<1>1. n \in Entries(tb) /\ t2[n].at # Nobody
    BY DEF Entries
<1>2. Bucket(t2, n) \subseteq Bucket(tb, n)
    BY DEF Bucket, Entries
<1>3. IsFiniteSet(Bucket(tb, n))
    BY FS_Subset DEF Bucket, Entries
<1>4. Cardinality(Bucket(t2, n)) <= Cardinality(Bucket(tb, n))
    BY <1>2, <1>3, FS_Subset
<1>5. /\ Cardinality(Bucket(tb, n)) \in Nat
      /\ Cardinality(Bucket(t2, n)) \in Nat
    BY <1>2, <1>3, FS_Subset, FS_CardinalityType
<1> QED
    BY <1>1, <1>4, <1>5 DEF WellFormed

LEMMA FreshIsEntry == ASSUME NEW h \in Address PROVE Fresh(h) \in Entry
  BY DEF Fresh, Entry

LEMMA AbsentIsEntry == Absent \in Entry
  BY DEF Absent, Fresh, Entry, Address

(* insert_or_update keeps the table a well-formed table: an update changes   *)
(* no bucket, an insertion finds room, a replacement makes it.               *)
LEMMA InsertWellFormed ==
  ASSUME NEW tb \in [Id -> Entry], WellFormed(tb), NEW n \in Id, NEW h \in Host,
         NEW t2 \in insert_or_update(tb, n, h)
  PROVE  t2 \in [Id -> Entry] /\ WellFormed(t2)
<1> USE FreshIsEntry, AbsentIsEntry
<1>0. Fresh(h) \in Entry /\ Fresh(h) # Absent /\ Fresh(h).at # Nobody
    BY DEF Fresh, Absent, Address
<1>1. CASE t2 = tb
    BY <1>1
<1>2. CASE n # Own /\ tb[n] # Absent /\ t2 = [tb EXCEPT ![n] = Fresh(h)]
  <2>1. t2 \in [Id -> Entry]
      BY <1>0, <1>2
  <2>2. \A m \in Id : t2[m] # Absent => tb[m] # Absent /\ t2[m].at # Nobody
      BY <1>0, <1>2 DEF WellFormed, Entries
  <2> QED
      BY <2>1, <2>2, FewerEntries
<1>3. CASE /\ n # Own /\ tb[n] = Absent /\ Cardinality(Bucket(tb, n)) < K
           /\ t2 = [tb EXCEPT ![n] = Fresh(h)]
  <2>1. t2 \in [Id -> Entry]
      BY <1>0, <1>3
  <2> SUFFICES ASSUME NEW m \in Entries(t2)
               PROVE  /\ m # Own /\ t2[m].at # Nobody
                      /\ Cardinality(Bucket(t2, m)) <= K
      BY <2>1 DEF WellFormed
  <2>2. m # Own /\ t2[m].at # Nobody
      BY <1>0, <1>3 DEF WellFormed, Entries
  <2>3. IsFiniteSet(Bucket(tb, n)) /\ Cardinality(Bucket(tb, n)) \in Nat
      BY FS_Subset, FS_CardinalityType DEF Bucket, Entries
  <2>4. CASE bucket_index(m) = bucket_index(n)
    <3>1. Bucket(t2, m) = Bucket(tb, n) \cup {n}
        BY <1>0, <1>3, <2>4 DEF Bucket, Entries
    <3>2. n \notin Bucket(tb, n)
        BY <1>3 DEF Bucket, Entries
    <3>3. Cardinality(Bucket(t2, m)) = Cardinality(Bucket(tb, n)) + 1
        BY <2>3, <3>1, <3>2, FS_AddElement
    <3> QED
        BY <1>3, <2>2, <2>3, <3>3
  <2>5. CASE bucket_index(m) # bucket_index(n)
    <3>1. Bucket(t2, m) = Bucket(tb, m) /\ m \in Entries(tb)
        BY <1>0, <1>3, <2>5 DEF Bucket, Entries
    <3> QED
        BY <2>2, <3>1 DEF WellFormed
  <2> QED
      BY <2>4, <2>5
<1>4. CASE /\ n # Own /\ tb[n] = Absent
           /\ \E m \in Bucket(tb, n) :
                t2 = [tb EXCEPT ![n] = Fresh(h), ![m] = Absent]
  <2> PICK m \in Bucket(tb, n) : t2 = [tb EXCEPT ![n] = Fresh(h), ![m] = Absent]
      BY <1>4
  <2>1. m \in Entries(tb) /\ m # n /\ bucket_index(m) = bucket_index(n)
      BY <1>4 DEF Bucket, Entries
  <2>2. t2 \in [Id -> Entry]
      BY <1>0, <2>1 DEF Entries
  <2>3. /\ t2[n] = Fresh(h) /\ t2[m] = Absent
        /\ \A x \in Id \ {m, n} : t2[x] = tb[x]
      BY <2>1 DEF Entries
  <2> SUFFICES ASSUME NEW x \in Entries(t2)
               PROVE  /\ x # Own /\ t2[x].at # Nobody
                      /\ Cardinality(Bucket(t2, x)) <= K
      BY <2>2 DEF WellFormed
  <2>4. x # Own /\ t2[x].at # Nobody
      BY <1>0, <1>4, <2>3 DEF WellFormed, Entries
  <2>5. CASE bucket_index(x) = bucket_index(n)
    <3>1. Bucket(t2, x) = (Bucket(tb, m) \ {m}) \cup {n}
        BY <1>0, <2>1, <2>3, <2>5 DEF Bucket, Entries
    <3>2. m \in Bucket(tb, m) /\ n \notin Bucket(tb, m)
        BY <1>4, <2>1 DEF Bucket, Entries
    <3>3. IsFiniteSet(Bucket(tb, m)) /\ Cardinality(Bucket(tb, m)) \in Nat
        BY FS_Subset, FS_CardinalityType DEF Bucket, Entries
    <3>4. /\ IsFiniteSet(Bucket(tb, m) \ {m})
          /\ Cardinality(Bucket(tb, m) \ {m}) = Cardinality(Bucket(tb, m)) - 1
        BY <3>2, <3>3, FS_RemoveElement
    <3>5. Cardinality(Bucket(t2, x)) = Cardinality(Bucket(tb, m) \ {m}) + 1
        BY <3>1, <3>2, <3>4, FS_AddElement
    <3>6. Cardinality(Bucket(tb, m)) <= K
        BY <2>1 DEF WellFormed
    <3> QED
        BY <2>4, <3>3, <3>4, <3>5, <3>6
  <2>6. CASE bucket_index(x) # bucket_index(n)
    <3>1. Bucket(t2, x) = Bucket(tb, x) /\ x \in Entries(tb)
        BY <2>1, <2>3, <2>6 DEF Bucket, Entries
    <3> QED
        BY <2>4, <3>1 DEF WellFormed
  <2> QED
      BY <2>5, <2>6
<1> QED
  <2>1. CASE n = Own
      BY <1>1, <2>1 DEF insert_or_update
  <2>2. CASE n # Own /\ tb[n] # Absent
      BY <1>2, <2>2 DEF insert_or_update
  <2>3. CASE n # Own /\ tb[n] = Absent /\ Cardinality(Bucket(tb, n)) < K
      BY <1>3, <2>3 DEF insert_or_update
  <2>4. CASE n # Own /\ tb[n] = Absent /\ ~(Cardinality(Bucket(tb, n)) < K)
    <3>1. t2 \in Replace(tb, n, h)
        BY <2>4 DEF insert_or_update
    <3> QED
        BY <1>1, <1>4, <2>4, <3>1 DEF Replace
  <2> QED
      BY <2>1, <2>2, <2>3, <2>4

LEMMA ModInRange ==
  ASSUME NEW a \in Nat, NEW b \in Nat \ {0} PROVE a % b \in 0 .. b - 1
  OBVIOUS

(* Marking a node changes no bucket.                                         *)
LEMMA MarkWellFormed ==
  ASSUME NEW tb \in [Id -> Entry], WellFormed(tb), NEW n \in Id
  PROVE  /\ mark_good(tb, n) \in [Id -> Entry] /\ WellFormed(mark_good(tb, n))
         /\ mark_failed(tb, n) \in [Id -> Entry] /\ WellFormed(mark_failed(tb, n))
<1>1. CASE tb[n] = Absent
    BY <1>1 DEF mark_good, mark_failed
<1>2. CASE tb[n] # Absent
  <2> DEFINE g == mark_good(tb, n)
             b == mark_failed(tb, n)
  <2>0. tb[n].failed + 1 \in Nat
      BY DEF Entry
  <2>1. (tb[n].failed + 1) % Failures \in 0 .. Failures - 1
      BY <2>0, ModInRange
  <2>2. 0 \in 0 .. Failures - 1
      OBVIOUS
  <2>c. [tb[n] EXCEPT !.status = "good", !.failed = 0] \in Entry
      BY <2>2 DEF Entry
  <2>d. g = [tb EXCEPT ![n] = [tb[n] EXCEPT !.status = "good", !.failed = 0]]
      BY <1>2 DEF mark_good
  <2>3. g \in [Id -> Entry]
      BY <2>c, <2>d
  <2>4. b \in [Id -> Entry]
      BY <1>2, <2>1 DEF mark_failed, Entry
  <2>6. \A m \in Id : m # n => g[m] = tb[m] /\ b[m] = tb[m]
      BY <1>2 DEF mark_good, mark_failed
  <2>a. g[n].at = tb[n].at
      BY <1>2, <2>d DEF Entry
  <2>b. b[n].at = tb[n].at
      BY <1>2 DEF mark_failed, Entry
  <2> HIDE DEF g, b
  <2>5. \A m \in Id : g[m].at = tb[m].at /\ b[m].at = tb[m].at
      BY <2>6, <2>a, <2>b
  <2>7. \A m \in Id : tb[m] # Absent => tb[m].at # Nobody
      BY DEF WellFormed, Entries
  <2>8. \A m \in Id : /\ g[m] # Absent => tb[m] # Absent /\ g[m].at # Nobody
                      /\ b[m] # Absent => tb[m] # Absent /\ b[m].at # Nobody
      BY <1>2, <2>5, <2>6, <2>7
  <2>9. WellFormed(g) /\ WellFormed(b)
      BY <2>3, <2>4, <2>8, FewerEntries
  <2>10. /\ g \in [Id -> Entry] /\ WellFormed(g)
         /\ b \in [Id -> Entry] /\ WellFormed(b)
      BY <2>3, <2>4, <2>9
  <2> QED
      BY <2>10 DEF g, b
<1> QED
    BY <1>1, <1>2

-----------------------------------------------------------------------------
(* Queries.                                                                  *)

(* One query task fails.                                                     *)
LEMMA FailedIsTask ==
  ASSUME NEW f \in [Query -> QueryTask], NEW q \in Query
  PROVE  LET g == [f EXCEPT ![q].st = "failed"]
         IN  /\ g \in [Query -> QueryTask] /\ g[q].st = "failed"
             /\ \A p \in Query \ {q} : g[p] = f[p]
<1> DEFINE d == [f[q] EXCEPT !.st = "failed"]
           g == [f EXCEPT ![q].st = "failed"]
<1>1. d \in QueryTask /\ d.st = "failed"
    BY DEF QueryTask
<1>2. g = [f EXCEPT ![q] = d]
    OBVIOUS
<1> HIDE DEF d, g
<1>3. /\ g \in [Query -> QueryTask] /\ g[q] = d
      /\ \A p \in Query \ {q} : g[p] = f[p]
    BY <1>1, <1>2
<1>4. /\ g \in [Query -> QueryTask] /\ g[q].st = "failed"
      /\ \A p \in Query \ {q} : g[p] = f[p]
    BY <1>1, <1>3
<1> QED
    BY <1>4 DEF g

(* A lookup asks the nodes of a batch.                                       *)
LEMMA AskedAreTasks ==
  ASSUME NEW f \in [Query -> QueryTask], NEW l, NEW B, NEW asked \in QueryTask
  PROVE  [q \in Query |-> IF q[1] = l /\ q[2] \in B THEN asked ELSE f[q]]
           \in [Query -> QueryTask]
<1> SUFFICES ASSUME NEW q \in Query
             PROVE  (IF q[1] = l /\ q[2] \in B THEN asked ELSE f[q]) \in QueryTask
    OBVIOUS
<1> QED
    OBVIOUS

-----------------------------------------------------------------------------
(* Searches.                                                                 *)

LEMMA IdleIsSearch == Idle \in Search /\ Addressed(Idle)
  BY DEF Idle, Search, Address, Addressed

(* A search that begins with the candidates S.                               *)
SearchFrom(tb, S) ==
  [phase |-> "picking", round |-> 0,
   at |-> [n \in Id |-> IF n \in S THEN tb[n].at ELSE Nobody],
   state |-> [n \in Id |-> IF n \in S THEN "new" ELSE "unknown"],
   batch |-> {}, learn |-> {}, found_new |-> FALSE]

LEMMA SeedsAreKnown ==
  ASSUME NEW tb \in [Id -> Entry], WellFormed(tb), NEW S \in SUBSET Entries(tb)
  PROVE  /\ SearchFrom(tb, S) \in Search /\ Addressed(SearchFrom(tb, S))
         /\ SearchFrom(tb, S).batch = {} /\ SearchFrom(tb, S).phase = "picking"
<1> DEFINE at == [n \in Id |-> IF n \in S THEN tb[n].at ELSE Nobody]
           state == [n \in Id |-> IF n \in S THEN "new" ELSE "unknown"]
<1>1. \A n \in S : tb[n].at \in Address /\ tb[n].at # Nobody
    BY DEF WellFormed, Entries, Entry
<1>2. at \in [Id -> Address]
    BY <1>1 DEF Address
<1>3. state \in [Id -> {"unknown", "new", "asked", "responded", "failed"}]
    OBVIOUS
<1>4. \A n \in Id : state[n] # "unknown" => at[n] # Nobody
    BY <1>1
<1> HIDE DEF at, state
<1>5. SearchFrom(tb, S) = [phase |-> "picking", round |-> 0, at |-> at,
        state |-> state, batch |-> {}, learn |-> {}, found_new |-> FALSE]
    BY DEF SearchFrom, at, state
<1> QED
    BY <1>2, <1>3, <1>4, <1>5 DEF Search, Addressed

LEMMA SeededIsSearch ==
  ASSUME table \in [Id -> Entry], WellFormed(table), NEW l \in Lookup
  PROVE  /\ Seeded(l) \in Search /\ Addressed(Seeded(l))
         /\ Seeded(l).batch = {} /\ Seeded(l).phase = "picking"
<1> DEFINE seeds == closest_nodes(table, Target(l), K)
<1>1. seeds \subseteq Entries(table)
    BY DEF closest_nodes, Closest
<1> DEFINE at == [n \in Id |-> IF n \in seeds THEN table[n].at ELSE Nobody]
           state == [n \in Id |-> IF n \in seeds THEN "new" ELSE "unknown"]
<1>a. Seeded(l) = [Idle EXCEPT !.phase = "picking", !.at = at, !.state = state]
    BY DEF Seeded
<1>b. SearchFrom(table, seeds) =
        [phase |-> "picking", round |-> 0, at |-> at, state |-> state,
         batch |-> {}, learn |-> {}, found_new |-> FALSE]
    BY DEF SearchFrom
<1> HIDE DEF at, state, seeds
<1>2. Seeded(l) = SearchFrom(table, seeds)
    BY <1>a, <1>b DEF Idle
<1> QED
    BY <1>1, <1>2, SeedsAreKnown

LEMMA AddedIsSearch ==
  ASSUME NEW c \in Search, Addressed(c), NEW nodes \in SUBSET Node
  PROVE  LET d == AddCandidates(c, nodes)
         IN  d \in Search /\ Addressed(d) /\ d.batch = c.batch /\ d.phase = c.phase
<1> DEFINE told == {x.id : x \in nodes} \cap {n \in Id : c.state[n] = "unknown"}
           at(n) == (CHOOSE x \in nodes : x.id = n).at
           d == AddCandidates(c, nodes)
<1>1. \A n \in told : at(n) \in Host
    BY DEF Node
<1>2. \A h \in Host : h \in Address /\ h # Nobody
    BY DEF Address
<1>3. d = [c EXCEPT
        !.state = [n \in Id |-> IF n \in told THEN "new" ELSE c.state[n]],
        !.at = [n \in Id |-> IF n \in told THEN at(n) ELSE c.at[n]]]
    BY DEF AddCandidates
<1> HIDE DEF told, at, d
<1>4. d \in Search /\ d.batch = c.batch /\ d.phase = c.phase
    BY <1>1, <1>2, <1>3 DEF Search
<1>5. /\ d.state = [n \in Id |-> IF n \in told THEN "new" ELSE c.state[n]]
      /\ d.at = [n \in Id |-> IF n \in told THEN at(n) ELSE c.at[n]]
    BY <1>3 DEF Search
<1>6. Addressed(d)
    BY <1>1, <1>2, <1>4, <1>5 DEF Addressed
<1> QED
    BY <1>4, <1>6 DEF d

-----------------------------------------------------------------------------
(* KrpcSocket.                                                               *)

LEMMA TaskUpdated ==
  ASSUME NEW r \in QueryTask, NEW t \in 0 .. Txns - 1,
         NEW st \in {"none", "spawned", "waiting", "answered", "closed", "failed"}
  PROVE  /\ [r EXCEPT !.st = st] \in QueryTask
         /\ [r EXCEPT !.st = st, !.txn = t] \in QueryTask
  BY DEF QueryTask

(* Dropping a sender closes the one query that waited for it, and touches no *)
(* other.                                                                    *)
LEMMA DroppedQueries ==
  ASSUME TypeOK, NEW t \in 0 .. Txns - 1
  PROVE  /\ Dropped(t) \in [Query -> QueryTask]
         /\ \A p \in Query :
              /\ Dropped(t)[p].txn = query[p].txn
              /\ Dropped(t)[p].st # "none" => query[p].st # "none"
              /\ Dropped(t)[p].st = "waiting" =>
                   /\ query[p].st = "waiting"
                   /\ ~(pending[t] = p /\ query[p].txn = t)
<1>1. CASE Live(t)
  <2>1. pending[t] \in Query /\ query[pending[t]].st = "waiting"
      BY <1>1 DEF Live, TypeOK
  <2>2. Dropped(t) = [query EXCEPT ![pending[t]].st = "closed"]
      BY <1>1 DEF Dropped
  <2>3. query \in [Query -> QueryTask]
      BY DEF TypeOK
  <2>4. [query[pending[t]] EXCEPT !.st = "closed"] \in QueryTask
      BY <2>1, <2>3, TaskUpdated
  <2>5. /\ Dropped(t) \in [Query -> QueryTask]
        /\ \A p \in Query \ {pending[t]} : Dropped(t)[p] = query[p]
        /\ Dropped(t)[pending[t]] = [query[pending[t]] EXCEPT !.st = "closed"]
      BY <2>1, <2>2, <2>3, <2>4
  <2>6. /\ Dropped(t)[pending[t]].st = "closed"
        /\ Dropped(t)[pending[t]].txn = query[pending[t]].txn
      BY <2>1, <2>3, <2>5 DEF QueryTask
  <2> QED
      BY <2>1, <2>5, <2>6
<1>2. CASE ~Live(t)
  <2>1. Dropped(t) = query
      BY <1>2 DEF Dropped
  <2>2. ASSUME NEW p \in Query, pending[t] = p, query[p].txn = t
        PROVE  query[p].st # "waiting"
      BY <1>2, <2>2 DEF Live, DhtAssumption
  <2> QED
      BY <2>1, <2>2 DEF TypeOK
<1> QED
    BY <1>1, <1>2

(* A step of the socket that makes no query of none, and leaves those that   *)
(* wait where they can be heard, preserves the invariant.                    *)
LEMMA KrpcStep ==
  ASSUME IInv,
         UNCHANGED <<up, ready, file, table, look, starts>>,
         txn' \in 0 .. Txns - 1,
         pending' \in [0 .. Txns - 1 -> Query \cup {Nobody}],
         query' \in [Query -> QueryTask],
         \A p \in Query : query'[p].st # "none" => query[p].st # "none",
         QueryIsHeard'
  PROVE  IInv'
<1>1. TypeOK'
    BY DEF IInv, TypeOK
<1>2. /\ BucketsWellFormed' /\ WellFormed(Loaded(file))'
      /\ (\A l \in Lookup : Addressed(look[l]))'
  <2>1. table' = table /\ Loaded(file)' = Loaded(file) /\ look' = look
      BY DEF Loaded
  <2> QED
      BY <2>1 DEF IInv, BucketsWellFormed
<1>4. StartReturns'
    BY DEF IInv, StartReturns
<1>3. Asking'
    BY DEF IInv, Asking, Query
<1> QED
    BY <1>1, <1>2, <1>3, <1>4 DEF IInv

LEMMA SendStep ==
  ASSUME IInv, NEW q \in Query, Send(q) \/ SendFails(q)
  PROVE  IInv'
<1> /\ TypeOK /\ BucketsWellFormed /\ Asking /\ QueryIsHeard
    /\ \A l \in Lookup : Addressed(look[l])
    BY DEF IInv
<1>0. /\ query[q].st = "spawned"
      /\ pending' = [pending EXCEPT ![txn] = q]
      /\ txn' = next_txn_id(txn)
      /\ UNCHANGED <<up, ready, file, table, look, starts>>
      /\ \E st \in {"waiting", "failed"} :
           query' = [Dropped(txn) EXCEPT ![q].st = st, ![q].txn = txn]
    BY DEF Send, SendFails
<1> PICK st \in {"waiting", "failed"} :
           query' = [Dropped(txn) EXCEPT ![q].st = st, ![q].txn = txn]
    BY <1>0
<1>1. /\ txn \in 0 .. Txns - 1 /\ txn + 1 \in Nat
      /\ query \in [Query -> QueryTask]
      /\ pending \in [0 .. Txns - 1 -> Query \cup {Nobody}]
    BY DEF TypeOK
<1>2. /\ Dropped(txn) \in [Query -> QueryTask]
      /\ \A p \in Query :
           /\ Dropped(txn)[p].txn = query[p].txn
           /\ Dropped(txn)[p].st # "none" => query[p].st # "none"
           /\ Dropped(txn)[p].st = "waiting" =>
                /\ query[p].st = "waiting"
                /\ ~(pending[txn] = p /\ query[p].txn = txn)
    BY <1>1, DroppedQueries
<1>3. txn' \in 0 .. Txns - 1
    BY <1>0, <1>1, ModInRange DEF next_txn_id
<1>4. query' \in [Query -> QueryTask]
  <2>1. [Dropped(txn)[q] EXCEPT !.st = st, !.txn = txn] \in QueryTask
      BY <1>1, <1>2, TaskUpdated
  <2> QED
      BY <1>2, <2>1
<1>5. /\ query'[q].st = st /\ query'[q].txn = txn
      /\ \A p \in Query \ {q} : query'[p] = Dropped(txn)[p]
    BY <1>2 DEF QueryTask
<1>6. QueryIsHeard'
  <2> SUFFICES ASSUME NEW p \in Query, query'[p].st = "waiting"
               PROVE  pending'[query'[p].txn] = p
      BY DEF QueryIsHeard
  <2>1. CASE p = q
      BY <1>0, <1>1, <1>5, <2>1
  <2>2. CASE p # q
    <3>1. /\ query[p].st = "waiting" /\ query'[p].txn = query[p].txn
          /\ ~(pending[txn] = p /\ query[p].txn = txn)
        BY <1>2, <1>5, <2>2
    <3>2. pending[query[p].txn] = p
        BY <3>1 DEF QueryIsHeard
    <3>3. query[p].txn # txn
        BY <3>1, <3>2
    <3> QED
        BY <1>0, <1>1, <3>1, <3>2, <3>3
  <2> QED
      BY <2>1, <2>2
<1>7. \A p \in Query : query'[p].st # "none" => query[p].st # "none"
    BY <1>0, <1>2, <1>5
<1>8. pending' \in [0 .. Txns - 1 -> Query \cup {Nobody}]
    BY <1>0, <1>1
<1> QED
    BY <1>0, <1>3, <1>4, <1>6, <1>7, <1>8, KrpcStep

(* The entry under t goes: whoever waited for it no longer waits.            *)
LEMMA RemovalStep ==
  ASSUME IInv, NEW t \in 0 .. Txns - 1,
         pending' = [pending EXCEPT ![t] = Nobody],
         UNCHANGED <<up, ready, file, table, txn, look, starts>>,
         query' \in [Query -> QueryTask],
         \A p \in Query :
           /\ query'[p].st # "none" => query[p].st # "none"
           /\ query'[p].st = "waiting" =>
                /\ query[p].st = "waiting" /\ query'[p].txn = query[p].txn
                /\ ~(pending[t] = p /\ query[p].txn = t)
  PROVE  IInv'
<1> /\ TypeOK /\ BucketsWellFormed /\ Asking /\ QueryIsHeard
    /\ \A l \in Lookup : Addressed(look[l])
    BY DEF IInv
<1>1. QueryIsHeard'
    BY DEF QueryIsHeard, TypeOK
<1>2. /\ pending' \in [0 .. Txns - 1 -> Query \cup {Nobody}]
      /\ txn' \in 0 .. Txns - 1
    BY DEF TypeOK
<1> QED
    BY <1>1, <1>2, KrpcStep

LEMMA FailsStep ==
  ASSUME IInv, NEW q \in Query, TimesOut(q) \/ ChannelClosed(q)
  PROVE  IInv'
<1> /\ TypeOK /\ BucketsWellFormed /\ Asking /\ QueryIsHeard
    /\ \A l \in Lookup : Addressed(look[l])
    BY DEF IInv
<1> DEFINE t == query[q].txn
<1>0. /\ query[q].st \in {"waiting", "closed"}
      /\ pending' = [pending EXCEPT ![t] = Nobody]
      /\ query' = [Dropped(t) EXCEPT ![q].st = "failed"]
      /\ UNCHANGED <<up, ready, file, table, txn, look, starts>>
    BY DEF TimesOut, ChannelClosed, Fails
<1>1. t \in 0 .. Txns - 1
    BY DEF TypeOK, QueryTask
<1>2. /\ Dropped(t) \in [Query -> QueryTask]
      /\ \A p \in Query :
           /\ Dropped(t)[p].txn = query[p].txn
           /\ Dropped(t)[p].st # "none" => query[p].st # "none"
           /\ Dropped(t)[p].st = "waiting" =>
                /\ query[p].st = "waiting"
                /\ ~(pending[t] = p /\ query[p].txn = t)
    BY <1>1, DroppedQueries
<1> DEFINE f == Dropped(t)
<1>a. f \in [Query -> QueryTask] /\ query' = [f EXCEPT ![q].st = "failed"]
    BY <1>0, <1>2
<1> HIDE DEF f
<1>b. /\ query' \in [Query -> QueryTask] /\ query'[q].st = "failed"
      /\ \A p \in Query \ {q} : query'[p] = f[p]
    BY <1>a, FailedIsTask
<1>3. /\ query' \in [Query -> QueryTask] /\ query'[q].st = "failed"
      /\ \A p \in Query \ {q} : query'[p] = Dropped(t)[p]
    BY <1>b DEF f
<1> HIDE DEF t
<1>4. \A p \in Query :
           /\ query'[p].st # "none" => query[p].st # "none"
           /\ query'[p].st = "waiting" =>
                /\ query[p].st = "waiting" /\ query'[p].txn = query[p].txn
                /\ ~(pending[t] = p /\ query[p].txn = t)
    BY <1>0, <1>2, <1>3
<1> QED
    BY <1>0, <1>1, <1>3, <1>4, RemovalStep

LEMMA RefuseStep ==
  ASSUME IInv, NEW q \in Query, Refuse(q)
  PROVE  IInv'
<1> /\ TypeOK /\ BucketsWellFormed /\ Asking /\ QueryIsHeard
    /\ \A l \in Lookup : Addressed(look[l])
    BY DEF IInv
<1> DEFINE t == query[q].txn
<1>0. /\ pending' = [pending EXCEPT ![t] = Nobody]
      /\ query' = Dropped(t)
      /\ UNCHANGED <<up, ready, file, table, txn, look, starts>>
    BY DEF Refuse
<1>1. t \in 0 .. Txns - 1
    BY DEF TypeOK, QueryTask
<1>2. /\ Dropped(t) \in [Query -> QueryTask]
      /\ \A p \in Query :
           /\ Dropped(t)[p].txn = query[p].txn
           /\ Dropped(t)[p].st # "none" => query[p].st # "none"
           /\ Dropped(t)[p].st = "waiting" =>
                /\ query[p].st = "waiting"
                /\ ~(pending[t] = p /\ query[p].txn = t)
    BY <1>1, DroppedQueries
<1> HIDE DEF t
<1>3. /\ query' \in [Query -> QueryTask]
      /\ \A p \in Query :
           /\ query'[p].st # "none" => query[p].st # "none"
           /\ query'[p].st = "waiting" =>
                /\ query[p].st = "waiting" /\ query'[p].txn = query[p].txn
                /\ ~(pending[t] = p /\ query[p].txn = t)
    BY <1>0, <1>2
<1> QED
    BY <1>0, <1>1, <1>3, RemovalStep

LEMMA AnswerStep ==
  ASSUME IInv, NEW q \in Query, Answer(q)
  PROVE  IInv'
<1> /\ TypeOK /\ BucketsWellFormed /\ Asking /\ QueryIsHeard
    /\ \A l \in Lookup : Addressed(look[l])
    BY DEF IInv
<1> DEFINE t == query[q].txn
           h == look[q[1]].at[q[2]]
<1>0. /\ query[q].st # "none" /\ pending[t] # Nobody
      /\ pending' = [pending EXCEPT ![t] = Nobody]
      /\ UNCHANGED <<up, ready, file, table, txn, look, starts>>
    BY DEF Answer
<1>1. t \in 0 .. Txns - 1 /\ pending[t] \in Query
    BY <1>0 DEF TypeOK, QueryTask
<1>2. /\ q[1] \in Lookup /\ q[2] \in Id /\ q = <<q[1], q[2]>>
    BY DEF Query
<1>3. h \in Host
  <2>1. q[2] \in look[q[1]].batch
      BY <1>0, <1>2 DEF Asking
  <2>2. h # Nobody
      BY <1>2, <2>1 DEF Addressed
  <2> QED
      BY <1>2, <2>2 DEF TypeOK, Search, Address
<1>4. \A nodes \in Tells(q) : nodes \in SUBSET Node
  <2>1. CASE h # Me
      BY DhtAssumption, <1>3, <2>1 DEF Tells, Node
  <2>2. CASE h = Me
    <3>1. \A n \in closest_nodes(table, Target(q[1]), K) :
            n \in Id /\ table[n].at \in Host
        BY DEF closest_nodes, Closest, Entries, BucketsWellFormed, WellFormed,
               TypeOK, Entry, Address
    <3> QED
        BY <2>2, <3>1 DEF Tells, Node
  <2> QED
      BY <2>1, <2>2
<1>5. PICK id \in Names[h], nodes \in Tells(q) :
        query' = IF Live(t)
                   THEN [query EXCEPT ![pending[t]] = Response(t, id, nodes)]
                   ELSE query
    BY DEF Answer
<1>6. id \in Id /\ nodes \in SUBSET Node
    BY DhtAssumption, <1>3, <1>4
<1>7. Response(t, id, nodes) \in QueryTask
    BY <1>1, <1>6 DEF QueryTask, Response
<1> HIDE DEF t, h
<1>8. CASE Live(t)
  <2>1. /\ query' \in [Query -> QueryTask]
        /\ query'[pending[t]].st # "waiting"
        /\ \A p \in Query \ {pending[t]} : query'[p] = query[p]
      BY <1>1, <1>5, <1>7, <1>8 DEF TypeOK, Response
  <2>2. query[pending[t]].st # "none"
      BY <1>8 DEF Live
  <2>3. \A p \in Query :
           /\ query'[p].st # "none" => query[p].st # "none"
           /\ query'[p].st = "waiting" =>
                /\ query[p].st = "waiting" /\ query'[p].txn = query[p].txn
                /\ ~(pending[t] = p /\ query[p].txn = t)
      BY <1>1, <2>1, <2>2
  <2>4. query' \in [Query -> QueryTask]
      BY <2>1
  <2> QED
      BY <1>0, <1>1, <2>3, <2>4, RemovalStep
<1>9. CASE ~Live(t)
  <2>1. query' = query
      BY <1>5, <1>9
  <2>2. ~(query[pending[t]].st = "waiting" /\ query[pending[t]].txn = t)
      BY <1>0, <1>9 DEF Live
  <2> QED
      BY <1>0, <1>1, <2>1, <2>2, RemovalStep DEF TypeOK
<1> QED
    BY <1>8, <1>9

-----------------------------------------------------------------------------
(* Lookups.                                                                  *)

(* A search with a round under way.                                          *)
RoundOf(r, pick, state) ==
  [r EXCEPT !.phase = "awaiting", !.round = @ + 1, !.batch = pick,
            !.found_new = FALSE, !.state = state]

LEMMA RoundIsSearch ==
  ASSUME NEW r \in Search, NEW pick \in SUBSET Id,
         NEW state \in [Id -> {"unknown", "new", "asked", "responded", "failed"}]
  PROVE  LET c == RoundOf(r, pick, state)
         IN  /\ c \in Search /\ c.batch = pick /\ c.phase = "awaiting"
             /\ c.state = state /\ c.at = r.at
<1> DEFINE i == r.round + 1
           d == [r EXCEPT !.phase = "awaiting", !.round = i]
           e == [d EXCEPT !.batch = pick, !.found_new = FALSE]
           c == [e EXCEPT !.state = state]
<1>0. i \in Nat
    BY DEF Search
<1> HIDE DEF i
<1>1. d \in Search /\ d.phase = "awaiting" /\ d.at = r.at
    BY <1>0 DEF Search
<1> HIDE DEF d
<1>2. /\ e \in Search /\ e.phase = "awaiting" /\ e.at = r.at /\ e.batch = pick
    BY <1>1 DEF Search
<1> HIDE DEF e
<1>3. /\ c \in Search /\ c.phase = "awaiting" /\ c.at = r.at /\ c.batch = pick
      /\ c.state = state
    BY <1>2 DEF Search
<1> QED
    BY <1>3 DEF RoundOf, c, d, e, i

(* A step of one lookup: its search and its queries change, and the table.   *)
LEMMA LookStep ==
  ASSUME IInv, up, NEW l \in Lookup, NEW c \in Search, Addressed(c),
         c.phase \in {"idle", "picking"} => c.batch = {},
         look' = [look EXCEPT ![l] = c],
         UNCHANGED <<up, file, txn, pending>>,
         table' \in [Id -> Entry], WellFormed(table'),
         query' \in [Query -> QueryTask],
         \A p \in Query : query'[p].st = "waiting" => query'[p] = query[p],
         \A k \in Lookup, n \in Id :
           query'[<<k, n>>].st # "none" => n \in look'[k].batch,
         starts' \in 0 .. MaxStarts,
         ready' \in BOOLEAN, ready => ready',
         l = Starter /\ c.phase = "idle" => ready'
  PROVE  IInv'
<1> /\ TypeOK /\ BucketsWellFormed /\ Asking /\ QueryIsHeard /\ StartReturns
    /\ \A k \in Lookup : Addressed(look[k])
    BY DEF IInv
<1>1. look' \in [Lookup -> Search] /\ look'[l] = c
      /\ \A k \in Lookup \ {l} : look'[k] = look[k]
    BY DEF TypeOK
<1>2. TypeOK'
    BY <1>1 DEF TypeOK
<1>3. BucketsWellFormed' /\ WellFormed(Loaded(file))'
  <2>1. Loaded(file)' = Loaded(file)
      BY DEF Loaded
  <2> QED
      BY <2>1 DEF IInv, BucketsWellFormed
<1>4. (\A k \in Lookup : Addressed(look[k]))'
  <2> SUFFICES ASSUME NEW k \in Lookup PROVE Addressed(look'[k])
      OBVIOUS
  <2> QED
      BY <1>1
<1>5. Asking'
    BY <1>1 DEF Asking
<1>6. QueryIsHeard'
    BY DEF QueryIsHeard
<1>7. StartReturns'
    BY <1>1 DEF StartReturns
<1> QED
    BY <1>2, <1>3, <1>4, <1>5, <1>6, <1>7 DEF IInv

(* The same for a step that leaves the queries alone.                        *)
LEMMA QuietStep ==
  ASSUME IInv, up, NEW l \in Lookup, NEW c \in Search, Addressed(c),
         c.batch = look[l].batch,
         c.phase \in {"idle", "picking"} => c.batch = {},
         look' = [look EXCEPT ![l] = c],
         UNCHANGED <<up, file, krpcVars>>,
         table' \in [Id -> Entry], WellFormed(table'),
         starts' \in 0 .. MaxStarts,
         ready' \in BOOLEAN, ready => ready',
         l = Starter /\ c.phase = "idle" => ready'
  PROVE  IInv'
<1> /\ TypeOK /\ BucketsWellFormed /\ Asking /\ QueryIsHeard /\ StartReturns
    /\ \A k \in Lookup : Addressed(look[k])
    BY DEF IInv
<1>1. \A k \in Lookup : look'[k].batch = look[k].batch
    BY DEF TypeOK
<1>2. /\ query' = query /\ UNCHANGED <<up, file, txn, pending>>
      /\ query' \in [Query -> QueryTask]
    BY DEF krpcVars, TypeOK
<1>3. \A k \in Lookup, n \in Id :
        query'[<<k, n>>].st # "none" => n \in look'[k].batch
    BY <1>1, <1>2 DEF Asking
<1> QED
    BY <1>2, <1>3, LookStep

LEMMA BeginStep ==
  ASSUME IInv, NEW l \in Lookup, Begin(l)
  PROVE  IInv'
<1> /\ TypeOK /\ BucketsWellFormed /\ Asking /\ QueryIsHeard /\ StartReturns
    /\ \A k \in Lookup : Addressed(look[k])
    BY DEF IInv
<1>1. /\ Seeded(l) \in Search /\ Addressed(Seeded(l))
      /\ Seeded(l).batch = {} /\ Seeded(l).phase = "picking"
    BY SeededIsSearch DEF TypeOK, BucketsWellFormed
<1>2. /\ up /\ look' = [look EXCEPT ![l] = Seeded(l)]
      /\ UNCHANGED <<up, file, krpcVars>> /\ ready' = ready /\ table' = table
      /\ starts < MaxStarts /\ starts' = starts + 1
    BY DEF Begin
<1>3. look[l].batch = {}
    BY DEF Begin, Asking
<1>4. starts' \in 0 .. MaxStarts /\ ready' \in BOOLEAN
    BY <1>2 DEF TypeOK
<1>5. table' \in [Id -> Entry] /\ WellFormed(table')
    BY <1>2 DEF TypeOK, BucketsWellFormed
<1> QED
    BY <1>1, <1>2, <1>3, <1>4, <1>5, QuietStep

(* A lookup with no round under way returns.                                 *)
LEMMA EndStep ==
  ASSUME IInv, up, NEW l \in Lookup, look[l].batch = {}, End(l),
         UNCHANGED <<up, file, table, krpcVars, starts>>
  PROVE  IInv'
<1> /\ TypeOK /\ BucketsWellFormed /\ Asking /\ QueryIsHeard /\ StartReturns
    /\ \A k \in Lookup : Addressed(look[k])
    BY DEF IInv
<1>1. Idle \in Search /\ Addressed(Idle) /\ Idle.batch = {}
    BY IdleIsSearch DEF Idle
<1>2. /\ look' = [look EXCEPT ![l] = Idle]
      /\ ready' \in BOOLEAN /\ (ready => ready') /\ (l = Starter => ready')
    BY DEF End, TypeOK
<1>3. /\ table' \in [Id -> Entry] /\ WellFormed(table')
      /\ starts' \in 0 .. MaxStarts
    BY DEF TypeOK, BucketsWellFormed
<1> QED
    BY <1>1, <1>2, <1>3, QuietStep

LEMMA PickStep ==
  ASSUME IInv, NEW l \in Lookup, PickRound(l)
  PROVE  IInv'
<1> /\ TypeOK /\ BucketsWellFormed /\ Asking /\ QueryIsHeard /\ StartReturns
    /\ \A k \in Lookup : Addressed(look[k])
    BY DEF IInv
<1> DEFINE pick == Closest(In(l, "new"), Target(l), ALPHA)
<1>0. /\ look[l].phase = "picking" /\ look[l].batch = {} /\ up
      /\ UNCHANGED <<up, file, table, txn, pending, starts>>
    BY DEF PickRound, Asking
<1>1. CASE End(l) /\ UNCHANGED query
    BY <1>0, <1>1, EndStep DEF krpcVars
<1>2. CASE /\ pick # {} /\ ready' = ready
           /\ look' = [look EXCEPT
                ![l].phase = "awaiting", ![l].round = @ + 1, ![l].batch = pick,
                ![l].found_new = FALSE,
                ![l].state = [n \in Id |-> IF n \in pick THEN "asked" ELSE @[n]]]
           /\ query' = [q \in Query |->
                IF q[1] = l /\ q[2] \in pick
                  THEN [NoQuery EXCEPT !.st = "spawned"] ELSE query[q]]
  <2> DEFINE state == [n \in Id |-> IF n \in pick THEN "asked" ELSE look[l].state[n]]
             c == RoundOf(look[l], pick, state)
  <2>1. pick \subseteq {n \in Id : look[l].state[n] = "new"}
      BY DEF Closest, In
  <2>2. look' = [look EXCEPT ![l] = c]
      BY <1>2 DEF RoundOf
  <2>3. /\ look[l] \in Search
        /\ state \in [Id -> {"unknown", "new", "asked", "responded", "failed"}]
      BY DEF TypeOK, Search
  <2>4. \A n \in Id : state[n] # "unknown" \/ n \in pick => look[l].at[n] # Nobody
      BY <2>1 DEF Addressed
  <2>a. pick \in SUBSET Id
      BY <2>1
  <2> HIDE DEF state, pick
  <2>5. /\ c \in Search /\ c.batch = pick /\ c.phase = "awaiting"
        /\ c.state = state /\ c.at = look[l].at
      BY <2>a, <2>3, RoundIsSearch
  <2>6. Addressed(c)
      BY <2>4, <2>5 DEF Addressed
  <2>7. [NoQuery EXCEPT !.st = "spawned"] \in QueryTask
      BY DEF NoQuery, QueryTask
  <2>8. query' \in [Query -> QueryTask]
    <3> DEFINE g == [q \in Query |-> IF q[1] = l /\ q[2] \in pick
                       THEN [NoQuery EXCEPT !.st = "spawned"] ELSE query[q]]
    <3>1. query \in [Query -> QueryTask] /\ query' = g
        BY <1>2 DEF TypeOK
    <3>2. g \in [Query -> QueryTask]
        BY <2>7, <3>1, AskedAreTasks
    <3> HIDE DEF g
    <3> QED
        BY <3>1, <3>2
  <2>9. \A p \in Query : query'[p].st = "waiting" => query'[p] = query[p]
      BY <1>2 DEF NoQuery
  <2>10. look'[l] = c /\ \A k \in Lookup \ {l} : look'[k] = look[k]
      BY <2>2 DEF TypeOK
  <2>11. \A k \in Lookup, n \in Id :
           query'[<<k, n>>].st # "none" => n \in look'[k].batch
    <3> SUFFICES ASSUME NEW k \in Lookup, NEW n \in Id,
                        query'[<<k, n>>].st # "none"
                 PROVE  n \in look'[k].batch
        OBVIOUS
    <3>1. <<k, n>> \in Query
        BY DEF Query
    <3>2. CASE k = l /\ n \in pick
        BY <2>5, <2>10, <3>2
    <3>3. CASE ~(k = l /\ n \in pick)
      <4>1. query'[<<k, n>>] = query[<<k, n>>]
          BY <1>2, <3>1, <3>3
      <4>2. n \in look[k].batch
          BY <4>1 DEF Asking
      <4> QED
          BY <1>0, <2>10, <4>2
    <3> QED
        BY <3>2, <3>3
  <2>12. /\ table' \in [Id -> Entry] /\ WellFormed(table')
         /\ starts' \in 0 .. MaxStarts /\ ready' \in BOOLEAN
      BY <1>0, <1>2 DEF TypeOK, BucketsWellFormed
  <2> HIDE DEF c
  <2> QED
      BY <1>0, <1>2, <2>2, <2>5, <2>6, <2>8, <2>9, <2>11, <2>12, LookStep
<1> QED
    BY <1>1, <1>2 DEF PickRound

(* The handle of n is done with: its query is gone, and n with it.           *)
LEMMA HandleTaken ==
  ASSUME IInv, NEW l \in Lookup, NEW n \in look[l].batch, n \in Id,
         NEW c \in Search, Addressed(c),
         c.batch = look[l].batch \ {n}, c.phase = look[l].phase,
         look' = [look EXCEPT ![l] = c],
         query' = [query EXCEPT ![<<l, n>>] = NoQuery],
         table' \in [Id -> Entry], WellFormed(table'),
         UNCHANGED <<up, ready, file, txn, pending, starts>>
  PROVE  IInv'
<1> /\ TypeOK /\ BucketsWellFormed /\ Asking /\ QueryIsHeard /\ StartReturns
    /\ \A k \in Lookup : Addressed(look[k])
    BY DEF IInv
<1>1. up /\ c.phase \notin {"idle", "picking"}
    BY DEF Asking
<1>2. look'[l] = c /\ \A k \in Lookup \ {l} : look'[k] = look[k]
    BY DEF TypeOK
<1>3. NoQuery \in QueryTask /\ NoQuery.st = "none"
    BY DEF NoQuery, QueryTask
<1>4. <<l, n>> \in Query
    BY DEF Query
<1>5. query' \in [Query -> QueryTask]
    BY <1>3 DEF TypeOK
<1>6. \A p \in Query : query'[p].st = "waiting" => query'[p] = query[p]
    BY <1>3, <1>4 DEF TypeOK
<1>7. \A k \in Lookup, m \in Id :
        query'[<<k, m>>].st # "none" => m \in look'[k].batch
  <2> SUFFICES ASSUME NEW k \in Lookup, NEW m \in Id,
                      query'[<<k, m>>].st # "none"
               PROVE  m \in look'[k].batch
      OBVIOUS
  <2>1. <<k, m>> \in Query
      BY DEF Query
  <2>2. ~(k = l /\ m = n)
      BY <1>3, <1>4 DEF TypeOK
  <2>3. query'[<<k, m>>] = query[<<k, m>>]
      BY <2>1, <2>2 DEF TypeOK
  <2> QED
      BY <1>2, <2>2, <2>3 DEF Asking
<1>8. starts' \in 0 .. MaxStarts /\ ready' \in BOOLEAN
    BY DEF TypeOK
<1> QED
    BY <1>1, <1>5, <1>6, <1>7, <1>8, LookStep

(* The table once n has answered from the address it was asked at.           *)
LEMMA HeardTable ==
  ASSUME IInv, NEW n \in Id, NEW h \in Host,
         \E tb \in insert_or_update(table, n, h) : table' = mark_good(tb, n)
  PROVE  table' \in [Id -> Entry] /\ WellFormed(table')
<1> PICK tb \in insert_or_update(table, n, h) : table' = mark_good(tb, n)
    OBVIOUS
<1>1. tb \in [Id -> Entry] /\ WellFormed(tb)
    BY InsertWellFormed DEF IInv, TypeOK, BucketsWellFormed
<1> QED
    BY <1>1, MarkWellFormed

LEMMA TakeStep ==
  ASSUME IInv, NEW l \in Lookup, Take(l)
  PROVE  IInv'
<1> /\ TypeOK /\ BucketsWellFormed /\ Asking /\ QueryIsHeard /\ StartReturns
    /\ \A k \in Lookup : Addressed(look[k])
    BY DEF IInv
<1> PICK n \in Id :
       /\ First(look[l].batch, n, Target(l))
       /\ \/ l \in Gets /\ TakeGet(l, n, query[<<l, n>>])
          \/ l \in Finds /\ TakeFind(l, n, query[<<l, n>>])
       /\ query' = [query EXCEPT ![<<l, n>>] = NoQuery]
    BY DEF Take
<1> DEFINE r == query[<<l, n>>]
           s == look[l]
<1>0. /\ n \in s.batch /\ s \in Search
      /\ UNCHANGED <<up, ready, file, txn, pending, starts>>
    BY DEF Take, First, TypeOK
<1>1. r.id \in Id /\ r.nodes \in SUBSET Node
    BY DEF TypeOK, QueryTask, Query
<1>2. s.at[n] \in Host /\ s.at[n] # Nobody
    BY <1>0 DEF Addressed, Search, Address
<1>3. /\ mark_failed(table, n) \in [Id -> Entry]
      /\ WellFormed(mark_failed(table, n))
      /\ table \in [Id -> Entry] /\ WellFormed(table)
    BY MarkWellFormed DEF TypeOK, BucketsWellFormed
<1>4. ASSUME NEW st \in {"responded", "failed"}
      PROVE  LET b == Marked(s, n, st)
             IN  /\ b \in Search /\ Addressed(b)
                 /\ b.batch = s.batch \ {n} /\ b.phase = s.phase
  <2> DEFINE state == [s.state EXCEPT ![n] = st]
             batch == s.batch \ {n}
             b == [s EXCEPT !.state = state, !.batch = batch]
  <2>1. /\ state \in [Id -> {"unknown", "new", "asked", "responded", "failed"}]
        /\ batch \in SUBSET Id
        /\ \A m \in Id : m # n => state[m] = s.state[m]
      BY <1>0 DEF Search
  <2> HIDE DEF state
  <2>2. /\ b \in Search /\ b.state = state /\ b.at = s.at
        /\ b.batch = s.batch \ {n} /\ b.phase = s.phase
      BY <1>0, <2>1 DEF Search
  <2> HIDE DEF b, batch
  <2>3. ASSUME NEW m \in Id, b.state[m] # "unknown" \/ m \in b.batch
        PROVE  b.at[m] # Nobody
    <3>1. CASE m = n
        BY <1>2, <2>2, <3>1
    <3>2. CASE m # n
      <4>1. s.state[m] # "unknown" \/ m \in s.batch
          BY <2>1, <2>2, <2>3, <3>2
      <4> QED
          BY <2>2, <4>1 DEF Addressed
    <3> QED
        BY <3>1, <3>2
  <2>4. Addressed(b)
      BY <2>3 DEF Addressed
  <2>5. b = Marked(s, n, st)
      BY DEF b, batch, state, Marked
  <2> QED
      BY <2>2, <2>4, <2>5
<1>5. CASE l \in Gets /\ TakeGet(l, n, r)
  <2>1. CASE r.st = "answered"
    <3> DEFINE b == Marked(s, n, "responded")
               c == AddCandidates(b, r.nodes)
    <3>1. /\ b \in Search /\ Addressed(b)
          /\ b.batch = s.batch \ {n} /\ b.phase = s.phase
        BY <1>4
    <3>2. /\ c \in Search /\ Addressed(c) /\ c.batch = b.batch
          /\ c.phase = b.phase
        BY <1>1, <3>1, AddedIsSearch
    <3>3. look' = [look EXCEPT ![l] = c]
        BY <1>5, <2>1 DEF TakeGet
    <3>4. table' \in [Id -> Entry] /\ WellFormed(table')
        BY <1>1, <1>2, <1>5, <2>1, HeardTable DEF TakeGet
    <3> HIDE DEF b, c
    <3> QED
        BY <1>0, <3>1, <3>2, <3>3, <3>4, HandleTaken
  <2>2. CASE r.st = "failed"
    <3> DEFINE b == Marked(s, n, "failed")
    <3>1. /\ b \in Search /\ Addressed(b)
          /\ b.batch = s.batch \ {n} /\ b.phase = s.phase
        BY <1>4
    <3>2. look' = [look EXCEPT ![l] = b] /\ table' = mark_failed(table, n)
        BY <1>5, <2>2 DEF TakeGet
    <3> HIDE DEF b
    <3> QED
        BY <1>0, <1>3, <3>1, <3>2, HandleTaken
  <2> QED
      BY <1>5, <2>1, <2>2 DEF TakeGet
<1>6. CASE l \in Finds /\ TakeFind(l, n, r)
  <2>1. ASSUME NEW learn \in SUBSET Node
        PROVE  LET b == [s EXCEPT !.batch = @ \ {n}, !.learn = learn]
               IN  /\ b \in Search /\ Addressed(b)
                   /\ b.batch = s.batch \ {n} /\ b.phase = s.phase
      BY <1>0 DEF Search, Addressed
  <2>2. CASE r.st = "answered"
    <3> DEFINE b == [s EXCEPT !.batch = @ \ {n}, !.learn = r.nodes]
    <3>1. /\ b \in Search /\ Addressed(b)
          /\ b.batch = s.batch \ {n} /\ b.phase = s.phase
        BY <1>1, <2>1
    <3>2. look' = [look EXCEPT ![l] = b]
        BY <1>6, <2>2 DEF TakeFind
    <3>3. table' \in [Id -> Entry] /\ WellFormed(table')
        BY <1>1, <1>2, <1>6, <2>2, HeardTable DEF TakeFind
    <3> HIDE DEF b
    <3> QED
        BY <1>0, <3>1, <3>2, <3>3, HandleTaken
  <2>3. CASE r.st = "failed"
    <3> DEFINE b == [s EXCEPT !.batch = @ \ {n}]
    <3>1. /\ b \in Search /\ Addressed(b)
          /\ b.batch = s.batch \ {n} /\ b.phase = s.phase
        BY <1>0 DEF Search, Addressed
    <3>2. look' = [look EXCEPT ![l] = b] /\ table' = table
        BY <1>6, <2>3 DEF TakeFind
    <3> HIDE DEF b
    <3> QED
        BY <1>0, <1>3, <3>1, <3>2, HandleTaken
  <2> QED
      BY <1>6, <2>2, <2>3 DEF TakeFind
<1> QED
    BY <1>5, <1>6

(* The search of a lookup that was told of one more node.                    *)
LEMMA ToldIsSearch ==
  ASSUME NEW c \in Search, Addressed(c), NEW node \in Node
  PROVE  LET d == Told(c, node)
         IN  d \in Search /\ Addressed(d) /\ d.batch = c.batch /\ d.phase = c.phase
<1> DEFINE rest == [c EXCEPT !.learn = c.learn \ {node}]
           more == AddCandidates(rest, {node})
           found == c.found_new \/ more.state # c.state
           last == [more EXCEPT !.found_new = found]
<1>1. /\ rest \in Search /\ Addressed(rest)
      /\ rest.batch = c.batch /\ rest.phase = c.phase
    BY DEF Search, Addressed
<1>2. Told(c, node) = IF c.phase = "boot" THEN rest ELSE last
    BY DEF Told
<1> HIDE DEF rest
<1>3. /\ more \in Search /\ Addressed(more)
      /\ more.batch = c.batch /\ more.phase = c.phase
    BY <1>1, AddedIsSearch
<1>4. found \in BOOLEAN
    BY DEF Search
<1> HIDE DEF more, found
<1>5. /\ last \in Search /\ Addressed(last)
      /\ last.batch = c.batch /\ last.phase = c.phase
    BY <1>3, <1>4 DEF Search, Addressed
<1> HIDE DEF last
<1> QED
    BY <1>1, <1>2, <1>5

LEMMA LearnStep ==
  ASSUME IInv, NEW l \in Lookup, Learn(l)
  PROVE  IInv'
<1> /\ TypeOK /\ BucketsWellFormed /\ Asking /\ QueryIsHeard /\ StartReturns
    /\ \A k \in Lookup : Addressed(look[k])
    BY DEF IInv
<1> PICK node \in look[l].learn :
       /\ table' \in insert_or_update(table, node.id, node.at)
       /\ look' = [look EXCEPT ![l] = Told(look[l], node)]
    BY DEF Learn
<1> DEFINE c == Told(look[l], node)
<1>1. look[l] \in Search /\ node \in Node
    BY DEF TypeOK, Search
<1>2. node.id \in Id /\ node.at \in Host
    BY <1>1 DEF Node
<1>3. /\ c \in Search /\ Addressed(c)
      /\ c.batch = look[l].batch /\ c.phase = look[l].phase
    BY <1>1, ToldIsSearch
<1>4. table' \in [Id -> Entry] /\ WellFormed(table')
    BY <1>2, InsertWellFormed DEF TypeOK, BucketsWellFormed
<1>5. /\ up /\ c.phase \notin {"idle", "picking"}
      /\ look' = [look EXCEPT ![l] = c]
      /\ UNCHANGED <<up, file, krpcVars>> /\ UNCHANGED <<ready, starts>>
    BY <1>3 DEF Learn, Asking
<1>6. starts' \in 0 .. MaxStarts /\ ready' \in BOOLEAN /\ ready' = ready
    BY <1>5 DEF TypeOK
<1>7. /\ (c.phase \in {"idle", "picking"} => c.batch = {})
      /\ (ready => ready') /\ (l = Starter /\ c.phase = "idle" => ready')
    BY <1>5, <1>6
<1> HIDE DEF c
<1> QED
    BY <1>3, <1>4, <1>5, <1>6, <1>7, QuietStep

LEMMA RoundEndsStep ==
  ASSUME IInv, NEW l \in Lookup, RoundEnds(l)
  PROVE  IInv'
<1> /\ TypeOK /\ BucketsWellFormed /\ Asking /\ QueryIsHeard /\ StartReturns
    /\ \A k \in Lookup : Addressed(look[k])
    BY DEF IInv
<1>1. /\ up /\ look[l].batch = {}
      /\ UNCHANGED <<up, file, table, krpcVars, starts>>
    BY DEF RoundEnds, Asking
<1>2. CASE End(l)
    BY <1>1, <1>2, EndStep
<1>3. CASE look' = [look EXCEPT ![l].phase = "picking"] /\ ready' = ready
  <2> DEFINE c == [look[l] EXCEPT !.phase = "picking"]
  <2>0. look[l] \in Search
      BY DEF TypeOK
  <2>1. /\ c \in Search /\ c.batch = {} /\ c.phase = "picking"
        /\ c.state = look[l].state /\ c.at = look[l].at
      BY <1>1, <2>0 DEF Search
  <2>4. Addressed(c)
      BY <1>1, <2>1 DEF Addressed
  <2>2. look' = [look EXCEPT ![l] = c]
      BY <1>3
  <2>3. /\ table' \in [Id -> Entry] /\ WellFormed(table')
        /\ starts' \in 0 .. MaxStarts /\ ready' \in BOOLEAN
      BY <1>1, <1>3 DEF TypeOK, BucketsWellFormed
  <2> HIDE DEF c
  <2> QED
      BY <1>1, <1>3, <2>1, <2>2, <2>3, <2>4, QuietStep
<1> QED
    BY <1>2, <1>3 DEF RoundEnds

LEMMA BootEndsStep ==
  ASSUME IInv, NEW l \in Lookup, BootEnds(l)
  PROVE  IInv'
<1> /\ TypeOK /\ BucketsWellFormed /\ Asking /\ QueryIsHeard /\ StartReturns
    /\ \A k \in Lookup : Addressed(look[k])
    BY DEF IInv
<1>1. /\ up /\ look[l].batch = {}
      /\ UNCHANGED <<up, file, table, krpcVars, starts>>
    BY DEF BootEnds, Asking
<1>2. CASE End(l)
    BY <1>1, <1>2, EndStep
<1>3. CASE look' = [look EXCEPT ![l] = Seeded(l)] /\ ready' = ready
  <2>1. /\ Seeded(l) \in Search /\ Addressed(Seeded(l))
        /\ Seeded(l).batch = {} /\ Seeded(l).phase = "picking"
      BY SeededIsSearch DEF TypeOK, BucketsWellFormed
  <2>2. /\ table' \in [Id -> Entry] /\ WellFormed(table')
        /\ starts' \in 0 .. MaxStarts /\ ready' \in BOOLEAN
      BY <1>1, <1>3 DEF TypeOK, BucketsWellFormed
  <2> QED
      BY <1>1, <1>3, <2>1, <2>2, QuietStep
<1> QED
    BY <1>2, <1>3 DEF BootEnds

-----------------------------------------------------------------------------
(* The node.                                                                 *)

LEMMA InboundStep ==
  ASSUME IInv, NEW h \in Host, Inbound(h)
  PROVE  IInv'
<1> /\ TypeOK /\ BucketsWellFormed /\ Asking /\ QueryIsHeard /\ StartReturns
    /\ \A k \in Lookup : Addressed(look[k])
    BY DEF IInv
<1> PICK n \in Names[h] : table' \in insert_or_update(table, n, h)
    BY DEF Inbound
<1>1. /\ starts' = starts + 1 /\ starts < MaxStarts
      /\ UNCHANGED <<up, ready, file, txn, pending, query, look>>
    BY DEF Inbound, krpcVars
<1>2. table' \in [Id -> Entry] /\ WellFormed(table')
    BY DhtAssumption, InsertWellFormed DEF TypeOK, BucketsWellFormed
<1>3. starts' \in 0 .. MaxStarts
    BY <1>1 DEF TypeOK
<1>4. TypeOK' /\ BucketsWellFormed'
    BY <1>1, <1>2, <1>3 DEF TypeOK, BucketsWellFormed
<1>5. WellFormed(Loaded(file))'
  <2>1. Loaded(file)' = Loaded(file)
      BY <1>1 DEF Loaded
  <2> QED
      BY <2>1 DEF IInv
<1>6. (\A k \in Lookup : Addressed(look[k]))' /\ Asking'
      /\ QueryIsHeard' /\ StartReturns'
    BY <1>1 DEF Asking, QueryIsHeard, StartReturns
<1> QED
    BY <1>4, <1>5, <1>6 DEF IInv

(* What is saved is well formed when it is loaded again.                     *)
LEMMA SavedWellFormed ==
  ASSUME table \in [Id -> Entry], WellFormed(table)
  PROVE  /\ Saved(table) \in [Id -> Address]
         /\ WellFormed(Loaded(Saved(table)))
<1>1. Saved(table) \in [Id -> Address]
    BY DEF Saved, Entry, Address
<1> DEFINE f == Saved(table)
<1>2. \A n \in Id : f[n] # Nobody => table[n] # Absent
    BY DEF Saved, Entries
<1> HIDE DEF f
<1>3. Loaded(f) \in [Id -> Entry]
    BY <1>1, FreshIsEntry, AbsentIsEntry DEF Loaded, f
<1>4. \A n \in Id : Loaded(f)[n] # Absent => f[n] # Nobody /\ Loaded(f)[n].at = f[n]
    BY DEF Loaded, Fresh
<1>5. WellFormed(Loaded(f))
    BY <1>2, <1>3, <1>4, FewerEntries
<1> QED
    BY <1>1, <1>5 DEF f

LEMMA LoadedIsTable ==
  ASSUME NEW f \in [Id -> Address] PROVE Loaded(f) \in [Id -> Entry]
    BY FreshIsEntry, AbsentIsEntry DEF Loaded

LEMMA EmptyWellFormed == EmptyTable \in [Id -> Entry] /\ WellFormed(EmptyTable)
    BY AbsentIsEntry DEF EmptyTable, WellFormed, Entries

LEMMA StopStep ==
  ASSUME IInv, Stop
  PROVE  IInv'
<1> /\ TypeOK /\ BucketsWellFormed /\ Asking
    BY DEF IInv
<1>1. /\ up' = FALSE /\ ready' = FALSE /\ file' \in {file, Saved(table)}
      /\ table' = EmptyTable /\ txn' = txn
      /\ pending' = [t \in 0 .. Txns - 1 |-> Nobody]
      /\ query' = [q \in Query |-> NoQuery]
      /\ look' = [l \in Lookup |-> Idle]
      /\ starts' = starts + 1 /\ starts < MaxStarts
    BY DEF Stop
<1>2. NoQuery \in QueryTask /\ NoQuery.st = "none"
    BY DEF NoQuery, QueryTask
<1>3. file' \in [Id -> Address] /\ WellFormed(Loaded(file'))
    BY <1>1, SavedWellFormed DEF IInv, TypeOK, BucketsWellFormed
<1>4. starts' \in 0 .. MaxStarts
    BY <1>1 DEF TypeOK
<1>5. TypeOK'
    BY <1>1, <1>2, <1>3, <1>4, EmptyWellFormed, IdleIsSearch DEF TypeOK
<1>6. BucketsWellFormed'
    BY <1>1, EmptyWellFormed DEF BucketsWellFormed
<1>7. WellFormed(Loaded(file))'
  <2>1. Loaded(file)' = Loaded(file')
      BY DEF Loaded
  <2> QED
      BY <1>3, <2>1
<1>8. (\A l \in Lookup : Addressed(look[l]))'
    BY <1>1, IdleIsSearch
<1>9. Asking'
  <2>1. \A l \in Lookup, n \in Id : <<l, n>> \in Query
      BY DEF Query
  <2>2. Idle.batch = {} /\ Idle.phase = "idle"
      BY DEF Idle
  <2> QED
      BY <1>1, <1>2, <2>1, <2>2 DEF Asking
<1>10. QueryIsHeard' /\ StartReturns'
    BY <1>1, <1>2 DEF QueryIsHeard, StartReturns
<1> QED
    BY <1>5, <1>6, <1>7, <1>8, <1>9, <1>10 DEF IInv

(* A start that asks the bootstrap hosts.                                    *)
BootIds == {BootId(h) : h \in Boot}
BootSearch ==
  [Idle EXCEPT !.phase = "boot",
     !.at = [n \in Id |-> IF n \in BootIds
               THEN CHOOSE h \in Boot : BootId(h) = n ELSE Nobody],
     !.batch = BootIds]

LEMMA BootIsSearch ==
  /\ BootSearch \in Search /\ Addressed(BootSearch)
  /\ BootSearch.phase = "boot" /\ BootSearch.batch = BootIds
  /\ BootIds \subseteq Id
<1>1. \A h \in Boot : BootId(h) \in Id
  <2> TAKE h \in Boot
  <2>1. Names[h] # {} /\ Names[h] \subseteq Id
      BY DhtAssumption
  <2>2. BootId(h) \in Names[h]
      BY <2>1 DEF BootId
  <2> QED
      BY <2>1, <2>2
<1>2. BootIds \subseteq Id
    BY <1>1 DEF BootIds
<1> DEFINE at == [n \in Id |-> IF n \in BootIds
                    THEN CHOOSE h \in Boot : BootId(h) = n ELSE Nobody]
<1>3. at \in [Id -> Address] /\ \A n \in BootIds : at[n] # Nobody
  <2>1. \A n \in BootIds : (CHOOSE h \in Boot : BootId(h) = n) \in Boot
      BY DEF BootIds
  <2>2. \A h \in Boot : h \in Address /\ h # Nobody
      BY DhtAssumption DEF Address
  <2> QED
      BY <1>2, <2>1, <2>2 DEF Address
<1>a. BootSearch = [Idle EXCEPT !.phase = "boot", !.at = at, !.batch = BootIds]
    BY DEF BootSearch
<1> HIDE DEF at
<1>4. BootSearch = [phase |-> "boot", round |-> 0, at |-> at,
                    state |-> [n \in Id |-> "unknown"], batch |-> BootIds,
                    learn |-> {}, found_new |-> FALSE]
    BY <1>a DEF Idle
<1>5. BootSearch \in Search
    BY <1>2, <1>3, <1>4 DEF Search
<1>6. Addressed(BootSearch)
    BY <1>3, <1>4 DEF Addressed
<1> QED
    BY <1>2, <1>4, <1>5, <1>6

LEMMA StartStep ==
  ASSUME IInv, Start
  PROVE  IInv'
<1> /\ TypeOK /\ BucketsWellFormed /\ Asking /\ QueryIsHeard /\ StartReturns
    /\ \A k \in Lookup : Addressed(look[k])
    BY DEF IInv
<1>1. /\ ~up /\ up' = TRUE /\ table' = Loaded(file)
      /\ UNCHANGED <<file, txn, pending, starts>>
    BY DEF Start
<1>2. Starter \in Lookup
    BY DEF Lookup
<1>3. table' \in [Id -> Entry] /\ WellFormed(table')
    BY <1>1, LoadedIsTable DEF IInv, TypeOK
<1>4. \A l \in Lookup : look[l].phase = "idle" /\ look[l].batch = {}
    BY <1>1 DEF Asking
<1>5. \A l \in Lookup, n \in Id : query[<<l, n>>].st = "none"
    BY <1>4 DEF Asking
<1>6. Loaded(file)' = Loaded(file) /\ WellFormed(Loaded(file))
    BY <1>1 DEF Loaded, IInv
<1>7. ASSUME NEW c \in Search, Addressed(c), c.phase \in {"boot", "picking"},
             c.phase = "picking" => c.batch = {},
             look' = [look EXCEPT ![Starter] = c],
             query' \in [Query -> QueryTask], ready' \in BOOLEAN,
             \A q \in Query : query'[q].st # "waiting",
             \A l \in Lookup, n \in Id :
               query'[<<l, n>>].st # "none" => n \in look'[l].batch
      PROVE  IInv'
  <2>1. /\ look' \in [Lookup -> Search] /\ look'[Starter] = c
        /\ \A l \in Lookup \ {Starter} : look'[l] = look[l]
      BY <1>2, <1>7 DEF TypeOK
  <2>2. TypeOK'
      BY <1>1, <1>3, <1>7, <2>1 DEF TypeOK
  <2>3. BucketsWellFormed' /\ WellFormed(Loaded(file))'
      BY <1>3, <1>6 DEF BucketsWellFormed
  <2>4. (\A l \in Lookup : Addressed(look[l]))'
    <3> SUFFICES ASSUME NEW l \in Lookup PROVE Addressed(look'[l])
        OBVIOUS
    <3> QED
        BY <1>7, <2>1
  <2>5. Asking'
      BY <1>1, <1>4, <1>7, <2>1 DEF Asking
  <2>6. QueryIsHeard' /\ StartReturns'
      BY <1>7, <2>1 DEF QueryIsHeard, StartReturns
  <2> QED
      BY <2>2, <2>3, <2>4, <2>5, <2>6 DEF IInv
<1>8. CASE look' = [look EXCEPT ![Starter] = Seeded(Starter)'] /\ ready' = TRUE
           /\ query' = query
  <2> DEFINE seeds == closest_nodes(table', Target(Starter), K)
             c == SearchFrom(table', seeds)
  <2>1. seeds \subseteq Entries(table')
      BY DEF closest_nodes, Closest
  <2>2. /\ c \in Search /\ Addressed(c)
        /\ c.batch = {} /\ c.phase = "picking"
      BY <1>3, <2>1, SeedsAreKnown
  <2>3. Seeded(Starter)' = c
    <3> DEFINE at == [n \in Id |-> IF n \in seeds THEN table'[n].at ELSE Nobody]
               state == [n \in Id |-> IF n \in seeds THEN "new" ELSE "unknown"]
    <3>1. Seeded(Starter)' =
            [Idle EXCEPT !.phase = "picking", !.at = at, !.state = state]
        BY DEF Seeded, closest_nodes, Closest, Entries, Status, Idle
    <3>2. c = [phase |-> "picking", round |-> 0, at |-> at, state |-> state,
               batch |-> {}, learn |-> {}, found_new |-> FALSE]
        BY DEF SearchFrom
    <3> HIDE DEF at, state, seeds, c
    <3> QED
        BY <3>1, <3>2 DEF Idle
  <2>4. look' = [look EXCEPT ![Starter] = c]
      BY <1>8, <2>3
  <2>5. /\ query' \in [Query -> QueryTask]
        /\ \A l \in Lookup, n \in Id : query'[<<l, n>>].st = "none"
        /\ \A q \in Query : query'[q].st # "waiting"
      BY <1>5, <1>8 DEF TypeOK, Query
  <2> HIDE DEF c
  <2> QED
      BY <1>7, <1>8, <2>2, <2>4, <2>5
<1>9. CASE Bootstrapping
  <2> DEFINE c == BootSearch
             asked == [NoQuery EXCEPT !.st = "spawned"]
  <2>1. /\ look' = [look EXCEPT ![Starter] = c] /\ ready' = FALSE
        /\ query' = [q \in Query |-> IF q[1] = Starter /\ q[2] \in BootIds
                                      THEN asked ELSE query[q]]
      BY <1>9 DEF Bootstrapping, BootSearch, BootIds
  <2>2. /\ c \in Search /\ Addressed(c) /\ c.phase = "boot" /\ c.batch = BootIds
      BY BootIsSearch
  <2>3. asked \in QueryTask /\ asked.st = "spawned"
      BY DEF NoQuery, QueryTask
  <2> HIDE DEF asked
  <2>a. query' \in [Query -> QueryTask]
    <3> DEFINE g == [q \in Query |-> IF q[1] = Starter /\ q[2] \in BootIds
                       THEN asked ELSE query[q]]
    <3>1. query \in [Query -> QueryTask] /\ query' = g
        BY <2>1 DEF TypeOK
    <3>2. g \in [Query -> QueryTask]
        BY <2>3, <3>1, AskedAreTasks
    <3> HIDE DEF g
    <3> QED
        BY <3>1, <3>2
  <2>b. \A q \in Query : query'[q].st # "waiting"
    <3> SUFFICES ASSUME NEW q \in Query
                 PROVE  query'[q].st # "waiting"
        OBVIOUS
    <3>1. query[q].st # "waiting"
        BY <1>5 DEF Query
    <3> QED
        BY <2>1, <2>3, <3>1
  <2>4. /\ query' \in [Query -> QueryTask]
        /\ \A q \in Query : query'[q].st # "waiting"
      BY <2>a, <2>b
  <2>5. ASSUME NEW l \in Lookup, NEW n \in Id, query'[<<l, n>>].st # "none"
        PROVE  n \in look'[l].batch
    <3>1. <<l, n>> \in Query
        BY DEF Query
    <3>2. l = Starter /\ n \in BootIds
        BY <1>5, <2>1, <2>5, <3>1
    <3> QED
        BY <1>2, <2>1, <2>2, <3>2 DEF TypeOK
  <2> QED
      BY <1>7, <2>1, <2>2, <2>4, <2>5
<1> QED
    BY <1>8, <1>9 DEF Start

-----------------------------------------------------------------------------
(* The whole.                                                                *)

LEMMA InitStep == Init => IInv
<1> SUFFICES ASSUME Init PROVE IInv
    OBVIOUS
<1> USE DEF Init
<1>1. NoQuery \in QueryTask /\ NoQuery.st = "none"
    BY DEF NoQuery, QueryTask
<1>2. TypeOK
  <2>1. /\ [n \in Id |-> Nobody] \in [Id -> Address]
        /\ [t \in 0 .. Txns - 1 |-> Nobody] \in [0 .. Txns - 1 -> Query \cup {Nobody}]
      BY DEF Address
  <2>2. /\ [q \in Query |-> NoQuery] \in [Query -> QueryTask]
        /\ [l \in Lookup |-> Idle] \in [Lookup -> Search]
      BY <1>1, IdleIsSearch
  <2>3. 0 \in 0 .. Txns - 1 /\ 0 \in 0 .. MaxStarts
      OBVIOUS
  <2> QED
      BY <2>1, <2>2, <2>3, EmptyWellFormed DEF TypeOK
<1>3. BucketsWellFormed
    BY EmptyWellFormed DEF BucketsWellFormed
<1>4. WellFormed(Loaded(file))
  <2>1. Loaded(file) = EmptyTable
      BY DEF Loaded, EmptyTable
  <2> QED
      BY <2>1, EmptyWellFormed
<1>5. \A l \in Lookup : Addressed(look[l])
    BY IdleIsSearch
<1>6. Asking
  <2>1. \A l \in Lookup, n \in Id : <<l, n>> \in Query
      BY DEF Query
  <2>2. Idle.batch = {} /\ Idle.phase = "idle"
      BY DEF Idle
  <2> QED
      BY <1>1, <2>1, <2>2 DEF Asking
<1>7. QueryIsHeard /\ StartReturns
    BY <1>1 DEF QueryIsHeard, StartReturns
<1> QED
    BY <1>2, <1>3, <1>4, <1>5, <1>6, <1>7 DEF IInv

LEMMA NextStep == IInv /\ [Next]_vars => IInv'
<1> SUFFICES ASSUME IInv, [Next]_vars PROVE IInv'
    OBVIOUS
<1>1. ASSUME NEW q \in Query, Task(q) \/ SendFails(q) \/ Answer(q) \/ Refuse(q)
      PROVE  IInv'
    BY <1>1, SendStep, FailsStep, AnswerStep, RefuseStep
       DEF Task, TimesOut, ChannelClosed
<1>2. ASSUME NEW l \in Lookup, Begin(l) \/ Proceed(l)
      PROVE  IInv'
    BY <1>2, BeginStep, PickStep, TakeStep, LearnStep, RoundEndsStep,
       BootEndsStep DEF Proceed
<1>3. ASSUME NEW h \in Host \ {Me}, Inbound(h)
      PROVE  IInv'
    BY <1>3, InboundStep
<1>4. CASE UNCHANGED vars
  <2>1. UNCHANGED <<up, ready, file, table, txn, pending, query, look, starts>>
      BY <1>4 DEF vars, krpcVars
  <2>2. Loaded(file)' = Loaded(file)
      BY <2>1 DEF Loaded
  <2> QED
      BY <2>1, <2>2 DEF IInv, TypeOK, BucketsWellFormed, Asking, QueryIsHeard,
         StartReturns
<1> QED
    BY <1>1, <1>2, <1>3, <1>4, StartStep, StopStep DEF Next

(* The inductive invariant holds in every state.                             *)
LEMMA Invariance == Spec => []IInv
BY InitStep, NextStep, PTL DEF Spec

(* Table, pending queries, counters and lookups of dht/node.rs keep their    *)
(* types, for any hosts, ids, bucket size and counter width.                 *)
THEOREM Types == Spec => []TypeOK
<1>1. IInv => TypeOK
  BY DEF IInv
<1> QED  BY <1>1, Invariance, PTL

(* Whatever the other nodes answer and the state file holds: the routing     *)
(* table never has our own id, an entry without an address or more than K    *)
(* nodes of a bucket (routing_table.rs).                                     *)
THEOREM WellFormedBuckets == Spec => []BucketsWellFormed
<1>1. IInv => BucketsWellFormed
  BY DEF IInv
<1> QED  BY <1>1, Invariance, PTL

(* However queries, time-outs, stops and starts interleave, a query that     *)
(* waits is the one its transaction id leads to (krpc.rs, node.rs).          *)
THEOREM HeardQueries == Spec => []QueryIsHeard
<1>1. IInv => QueryIsHeard
  BY DEF IInv
<1> QED  BY <1>1, Invariance, PTL

(* A start has returned or its bootstrap is under way (node.rs).             *)
THEOREM ReturningStarts == Spec => []StartReturns
<1>1. IInv => StartReturns
  BY DEF IInv
<1> QED  BY <1>1, Invariance, PTL

-----------------------------------------------------------------------------
(* Who gives way.                                                            *)

(* An insertion takes the place of a bad node, or of none.                   *)
LEMMA InsertDisplacesBad ==
  ASSUME NEW tb \in [Id -> Entry], NEW n \in Id, NEW h \in Host,
         NEW t2 \in insert_or_update(tb, n, h)
  PROVE  \A m \in Entries(tb) \ Entries(t2) : tb[m].status = "bad"
<1>0. Fresh(h) # Absent
    BY DEF Fresh, Absent
<1>1. CASE t2 = tb
    BY <1>1
<1>2. CASE t2 = [tb EXCEPT ![n] = Fresh(h)]
    BY <1>0, <1>2 DEF Entries
<1>3. ASSUME NEW x \in Bucket(tb, n) \cap Status(tb, "bad"),
             t2 = [tb EXCEPT ![n] = Fresh(h), ![x] = Absent]
      PROVE  \A m \in Entries(tb) \ Entries(t2) : tb[m].status = "bad"
  <2>1. x \in Id /\ tb[x].status = "bad"
      BY DEF Status, Entries
  <2>2. \A m \in Id \ {n, x} : t2[m] = tb[m]
      BY <1>3
  <2>3. x # n => t2[n] = Fresh(h)
      BY <1>3
  <2> QED
      BY <1>0, <2>1, <2>2, <2>3 DEF Entries
<1> QED
    BY <1>1, <1>2, <1>3 DEF insert_or_update, Replace

(* A node that is marked stays.                                              *)
LEMMA MarkingLosesNone ==
  ASSUME NEW tb \in [Id -> Entry], WellFormed(tb), NEW n \in Id
  PROVE  /\ Entries(tb) \subseteq Entries(mark_good(tb, n))
         /\ Entries(tb) \subseteq Entries(mark_failed(tb, n))
<1>1. CASE tb[n] = Absent
    BY <1>1 DEF mark_good, mark_failed
<1>2. CASE tb[n] # Absent
  <2>1. tb[n] \in Entry /\ tb[n].at # Nobody
      BY <1>2 DEF WellFormed, Entries
  <2>2. PICK g : g = [tb[n] EXCEPT !.status = "good", !.failed = 0]
      OBVIOUS
  <2>3. g.at # Nobody
      BY <2>1, <2>2 DEF Entry
  <2>4. PICK f : f = (tb[n].failed + 1) % Failures
      OBVIOUS
  <2>5. PICK b : b = [tb[n] EXCEPT !.failed = f, !.status =
                        IF f >= BadAfter THEN "bad" ELSE "questionable"]
      OBVIOUS
  <2>6. b.at # Nobody
      BY <2>1, <2>5 DEF Entry
  <2>7. g # Absent /\ b # Absent
      BY <2>3, <2>6 DEF Absent, Fresh
  <2>8. mark_good(tb, n) = [tb EXCEPT ![n] = g]
      BY <1>2, <2>2 DEF mark_good
  <2>9. mark_failed(tb, n) = [tb EXCEPT ![n] = b]
      BY <1>2, <2>4, <2>5 DEF mark_failed
  <2> QED
      BY <2>7, <2>8, <2>9 DEF Entries
<1> QED
    BY <1>1, <1>2

DisplacesBad ==
  \A n \in Entries(table) \ Entries(table') : table[n].status = "bad"

LEMMA InsertStep ==
  ASSUME IInv, NEW n \in Id, NEW h \in Host,
         \/ table' \in insert_or_update(table, n, h)
         \/ \E tb \in insert_or_update(table, n, h) : table' = mark_good(tb, n)
  PROVE  DisplacesBad
<1>1. table \in [Id -> Entry] /\ WellFormed(table)
    BY DEF IInv, TypeOK, BucketsWellFormed
<1>2. CASE table' \in insert_or_update(table, n, h)
  <2>1. PICK t2 \in insert_or_update(table, n, h) : table' = t2
      BY <1>2
  <2> QED
      BY <1>1, <2>1, InsertDisplacesBad DEF DisplacesBad
<1>3. ASSUME NEW tb \in insert_or_update(table, n, h), table' = mark_good(tb, n)
      PROVE  DisplacesBad
  <2>1. tb \in [Id -> Entry] /\ WellFormed(tb)
      BY <1>1, InsertWellFormed
  <2>2. \A m \in Entries(table) \ Entries(tb) : table[m].status = "bad"
      BY <1>1, InsertDisplacesBad
  <2>3. Entries(tb) \subseteq Entries(table')
      BY <1>3, <2>1, MarkingLosesNone
  <2> QED
      BY <2>2, <2>3 DEF DisplacesBad
<1> QED
    BY <1>2, <1>3

LEMMA TakeDisplacesBad ==
  ASSUME IInv, NEW l \in Lookup, Take(l)
  PROVE  DisplacesBad
<1> PICK n \in Id :
       /\ First(look[l].batch, n, Target(l))
       /\ \/ l \in Gets /\ TakeGet(l, n, query[<<l, n>>])
          \/ l \in Finds /\ TakeFind(l, n, query[<<l, n>>])
       /\ query' = [query EXCEPT ![<<l, n>>] = NoQuery]
    BY DEF Take
<1> DEFINE r == query[<<l, n>>]
           h == look[l].at[n]
<1>1. r.id \in Id /\ h \in Host
    BY DEF IInv, TypeOK, QueryTask, Query, Addressed, First, Search, Address
<1>2. \/ \E tb \in insert_or_update(table, r.id, h) : table' = mark_good(tb, r.id)
      \/ table' = mark_failed(table, n)
      \/ table' = table
    BY DEF TakeGet, TakeFind
<1> HIDE DEF r, h
<1>3. CASE \E tb \in insert_or_update(table, r.id, h) : table' = mark_good(tb, r.id)
    BY <1>1, <1>3, InsertStep
<1>4. CASE table' = mark_failed(table, n)
    BY <1>4, MarkingLosesNone DEF DisplacesBad, IInv, TypeOK, BucketsWellFormed
<1>5. CASE table' = table
    BY <1>5 DEF DisplacesBad
<1> QED
    BY <1>2, <1>3, <1>4, <1>5

LEMMA LearnDisplacesBad ==
  ASSUME IInv, NEW l \in Lookup, Learn(l)
  PROVE  DisplacesBad
<1> PICK node \in look[l].learn : table' \in insert_or_update(table, node.id, node.at)
    BY DEF Learn
<1>1. node.id \in Id /\ node.at \in Host
    BY DEF IInv, TypeOK, Search, Node
<1> QED
    BY <1>1, InsertStep

LEMMA NextDisplacesBad ==
  ASSUME IInv, Next, up, up'
  PROVE  DisplacesBad
<1>0. table' = table => DisplacesBad
    BY DEF DisplacesBad
<1>1. ASSUME NEW q \in Query, Task(q) \/ SendFails(q) \/ Answer(q) \/ Refuse(q)
      PROVE  table' = table
    BY <1>1 DEF Task, Send, TimesOut, ChannelClosed, Fails, SendFails, Answer, Refuse
<1>2. ASSUME NEW l \in Lookup, Begin(l) \/ PickRound(l) \/ RoundEnds(l) \/ BootEnds(l)
      PROVE  table' = table
    BY <1>2 DEF Begin, PickRound, RoundEnds, BootEnds
<1>3. ASSUME NEW h \in Host, Inbound(h)
      PROVE  DisplacesBad
  <2>1. PICK n \in Names[h] : table' \in insert_or_update(table, n, h)
      BY <1>3 DEF Inbound
  <2>2. n \in Id
      BY DhtAssumption
  <2> QED
      BY <2>1, <2>2, InsertStep
<1>4. ~ Start /\ ~ Stop
    BY DEF Start, Stop
<1> QED
    BY <1>0, <1>1, <1>2, <1>3, <1>4, TakeDisplacesBad, LearnDisplacesBad DEF Next, Proceed

(* While the node runs a node leaves the table only when three queries in a  *)
(* row have failed, whatever lookups, bootstraps and inbound queries insert  *)
(* for whatever hosts, bucket sizes and ids (routing_table.rs).              *)
THEOREM OldNodesStay == Spec => OnlyBadGiveWay
<1>1. IInv /\ [Next]_vars =>
        [up /\ up' =>
           \A n \in Entries(table) \ Entries(table') : table[n].status = "bad"]_vars
    BY NextDisplacesBad DEF DisplacesBad
<1> QED
    BY <1>1, Invariance, PTL DEF Spec, OnlyBadGiveWay

-----------------------------------------------------------------------------
(* Who is asked.                                                             *)

(* A lookup that does not run has asked nobody.                              *)
IdleAskedNobody == \A l \in Lookup : look[l].phase = "idle" => look[l] = Idle

(* The candidates that a search asked are not to be asked again.             *)
Remembers(c, d) ==
  \A n \in Id : c.state[n] \in {"asked", "responded", "failed"} => d.state[n] # "new"

(* What a step may make of the search of one lookup.                         *)
GoesOn(c, d) ==
  /\ d.phase = "idle" => d = Idle
  /\ d.phase = "idle" \/ c.phase = "boot" \/ Remembers(c, d)

LEMMA OnlyOneGoesOn ==
  ASSUME IInv, IdleAskedNobody, NEW l \in Lookup, NEW d,
         look' = [look EXCEPT ![l] = d], GoesOn(look[l], d)
  PROVE  \A k \in Lookup : GoesOn(look[k], look'[k])
<1>1. look'[l] = d /\ \A k \in Lookup \ {l} : look'[k] = look[k]
    BY DEF IInv, TypeOK
<1>2. \A k \in Lookup : GoesOn(look[k], look[k])
    BY DEF GoesOn, Remembers, IdleAskedNobody
<1> QED
    BY <1>1, <1>2

LEMMA IdleGoesOn ==
  \A c : GoesOn(c, Idle)
  BY DEF GoesOn, Idle

(* A search that begins with whatever seeds.                                 *)
LEMMA AfreshGoesOn ==
  ASSUME NEW c, c = Idle \/ c.phase = "boot", NEW d, d.phase # "idle"
  PROVE  GoesOn(c, d)
  BY DEF GoesOn, Remembers, Idle

LEMMA AddedRemembers ==
  ASSUME NEW c \in Search, NEW nodes
  PROVE  Remembers(c, AddCandidates(c, nodes))
<1> DEFINE told == {x.id : x \in nodes} \cap {n \in Id : c.state[n] = "unknown"}
           at(n) == (CHOOSE x \in nodes : x.id = n).at
<1>1. PICK state : state = [n \in Id |-> IF n \in told THEN "new" ELSE c.state[n]]
    OBVIOUS
<1>2. PICK ats : ats = [n \in Id |-> IF n \in told THEN at(n) ELSE c.at[n]]
    OBVIOUS
<1>3. AddCandidates(c, nodes) = [c EXCEPT !.state = state, !.at = ats]
    BY <1>1, <1>2 DEF AddCandidates
<1>4. AddCandidates(c, nodes).state = state
    BY <1>3 DEF Search
<1> QED
    BY <1>1, <1>4 DEF Remembers

LEMMA PickGoesOn ==
  ASSUME IInv, IdleAskedNobody, NEW l \in Lookup, PickRound(l)
  PROVE  \A k \in Lookup : GoesOn(look[k], look'[k])
<1> DEFINE pick == Closest(In(l, "new"), Target(l), ALPHA)
<1>1. CASE End(l)
    BY <1>1, IdleGoesOn, OnlyOneGoesOn DEF End
<1>2. CASE look' = [look EXCEPT
             ![l].phase = "awaiting", ![l].round = @ + 1, ![l].batch = pick,
             ![l].found_new = FALSE,
             ![l].state = [n \in Id |-> IF n \in pick THEN "asked" ELSE @[n]]]
  <2> DEFINE state == [n \in Id |-> IF n \in pick THEN "asked" ELSE look[l].state[n]]
             c == RoundOf(look[l], pick, state)
  <2>1. pick \in SUBSET Id
      BY DEF Closest, In
  <2>2. look' = [look EXCEPT ![l] = c]
      BY <1>2 DEF RoundOf
  <2>3. /\ look[l] \in Search
        /\ state \in [Id -> {"unknown", "new", "asked", "responded", "failed"}]
      BY DEF IInv, TypeOK, Search
  <2>4. \A n \in Id : look[l].state[n] # "new" => state[n] # "new"
      OBVIOUS
  <2> HIDE DEF state, pick
  <2>5. c.phase = "awaiting" /\ c.state = state
      BY <2>1, <2>3, RoundIsSearch
  <2> HIDE DEF c
  <2>6. GoesOn(look[l], c)
      BY <2>4, <2>5 DEF GoesOn, Remembers
  <2> QED
      BY <2>2, <2>6, OnlyOneGoesOn
<1> QED
    BY <1>1, <1>2 DEF PickRound

LEMMA TakeGoesOn ==
  ASSUME IInv, IdleAskedNobody, NEW l \in Lookup, Take(l)
  PROVE  \A k \in Lookup : GoesOn(look[k], look'[k])
<1> PICK n \in Id :
       /\ First(look[l].batch, n, Target(l))
       /\ \/ l \in Gets /\ TakeGet(l, n, query[<<l, n>>])
          \/ l \in Finds /\ TakeFind(l, n, query[<<l, n>>])
       /\ query' = [query EXCEPT ![<<l, n>>] = NoQuery]
    BY DEF Take
<1> PICK r : r = query[<<l, n>>]
    OBVIOUS
<1> PICK s : s = look[l]
    OBVIOUS
<1>1. s \in Search /\ r.nodes \in SUBSET Node /\ s.phase # "idle"
    BY DEF IInv, TypeOK, QueryTask, Query, Asking, First
<1>2. ASSUME NEW st \in {"responded", "failed"}
      PROVE  LET b == Marked(s, n, st)
             IN  b \in Search /\ b.phase = s.phase /\ Remembers(s, b)
  <2>1. PICK state : state = [s.state EXCEPT ![n] = st]
      OBVIOUS
  <2>2. PICK batch : batch = s.batch \ {n}
      OBVIOUS
  <2>3. Marked(s, n, st) = [s EXCEPT !.state = state, !.batch = batch]
      BY <2>1, <2>2 DEF Marked
  <2>4. /\ state \in [Id -> {"unknown", "new", "asked", "responded", "failed"}]
        /\ batch \in SUBSET Id /\ state[n] = st
        /\ \A m \in Id \ {n} : state[m] = s.state[m]
      BY <1>1, <2>1, <2>2 DEF Search
  <2> QED
      BY <1>1, <2>3, <2>4 DEF Search, Remembers
<1>3. CASE l \in Gets /\ TakeGet(l, n, r)
  <2>1. CASE r.st = "answered"
    <3>1. PICK b : b = Marked(s, n, "responded")
        OBVIOUS
    <3>2. PICK c : c = AddCandidates(b, r.nodes)
        OBVIOUS
    <3>3. b \in Search /\ b.phase = s.phase /\ Remembers(s, b)
        BY <1>2, <3>1
    <3>4. c.phase = b.phase
      <4>1. PICK told : told = {x.id : x \in r.nodes}
                               \cap {m \in Id : b.state[m] = "unknown"}
          OBVIOUS
      <4>2. PICK state : state = [m \in Id |-> IF m \in told THEN "new" ELSE b.state[m]]
          OBVIOUS
      <4>3. PICK at : at = [m \in Id |-> IF m \in told
                               THEN (CHOOSE x \in r.nodes : x.id = m).at ELSE b.at[m]]
          OBVIOUS
      <4>4. c = [b EXCEPT !.state = state, !.at = at]
          BY <3>2, <4>1, <4>2, <4>3 DEF AddCandidates
      <4> QED
          BY <3>3, <4>4 DEF Search
    <3>5. Remembers(b, c)
        BY <3>2, <3>3, AddedRemembers
    <3>6. Remembers(s, c)
      <4>1. \A m \in Id : s.state[m] \in {"asked", "responded", "failed"} =>
                            b.state[m] \in {"asked", "responded", "failed"}
        <5>1. \A m \in Id \ {n} : b.state[m] = s.state[m]
            BY <1>1, <3>1 DEF Marked, Search
        <5>2. b.state[n] = "responded"
            BY <1>1, <3>1 DEF Marked, Search
        <5> QED
            BY <5>1, <5>2
      <4> QED
          BY <3>5, <4>1 DEF Remembers
    <3>7. look' = [look EXCEPT ![l] = c]
        BY <1>3, <2>1, <3>1, <3>2 DEF TakeGet
    <3> QED
        BY <1>1, <3>3, <3>4, <3>6, <3>7, OnlyOneGoesOn DEF GoesOn
  <2>2. CASE r.st = "failed"
    <3>1. PICK b : b = Marked(s, n, "failed")
        OBVIOUS
    <3>2. b.phase = s.phase /\ Remembers(s, b)
        BY <1>2, <3>1
    <3>3. look' = [look EXCEPT ![l] = b]
        BY <1>3, <2>2, <3>1 DEF TakeGet
    <3> QED
        BY <1>1, <3>2, <3>3, OnlyOneGoesOn DEF GoesOn
  <2> QED
      BY <1>3, <2>1, <2>2 DEF TakeGet
<1>4. CASE l \in Finds /\ TakeFind(l, n, r)
  <2>1. PICK b \in {[s EXCEPT !.batch = s.batch \ {n}, !.learn = r.nodes],
                   [s EXCEPT !.batch = s.batch \ {n}]} :
          look' = [look EXCEPT ![l] = b]
      BY <1>4 DEF TakeFind
  <2>2. b.phase = s.phase /\ b.state = s.state
      BY <1>1, <2>1 DEF Search
  <2> QED
      BY <1>1, <2>1, <2>2, OnlyOneGoesOn DEF GoesOn, Remembers
<1> QED
    BY <1>3, <1>4

LEMMA ToldRemembers ==
  ASSUME NEW c \in Search, Addressed(c), NEW node \in Node
  PROVE  Remembers(c, Told(c, node))
<1> PICK learn : learn = c.learn \ {node}
    OBVIOUS
<1> PICK rest : rest = [c EXCEPT !.learn = learn]
    OBVIOUS
<1> PICK more : more = AddCandidates(rest, {node})
    OBVIOUS
<1> PICK found : found = (c.found_new \/ more.state # c.state)
    OBVIOUS
<1>1. rest \in Search /\ rest.state = c.state /\ Addressed(rest)
    BY DEF Search, Addressed
<1>2. Remembers(rest, more) /\ more \in Search
    BY <1>1, AddedRemembers, AddedIsSearch
<1>3. Told(c, node) = IF c.phase = "boot" THEN rest
                      ELSE [more EXCEPT !.found_new = found]
    BY DEF Told
<1>4. Told(c, node).state \in {rest.state, more.state}
    BY <1>2, <1>3 DEF Search
<1> QED
    BY <1>1, <1>2, <1>4 DEF Remembers

LEMMA LearnGoesOn ==
  ASSUME IInv, IdleAskedNobody, NEW l \in Lookup, Learn(l)
  PROVE  \A k \in Lookup : GoesOn(look[k], look'[k])
<1> PICK node \in look[l].learn : look' = [look EXCEPT ![l] = Told(look[l], node)]
    BY DEF Learn
<1>1. look[l] \in Search /\ node \in Node /\ Addressed(look[l])
    BY DEF IInv, TypeOK, Search
<1> PICK d : d = Told(look[l], node)
    OBVIOUS
<1>2. d.phase = look[l].phase /\ Remembers(look[l], d)
    BY <1>1, ToldIsSearch, ToldRemembers
<1>3. look[l].phase # "idle"
    BY DEF Learn
<1> QED
    BY <1>2, <1>3, OnlyOneGoesOn DEF GoesOn

LEMMA SeededRuns == \A l \in Lookup : Seeded(l).phase = "picking"
  BY DEF Seeded, Idle

LEMMA LookupGoesOn ==
  ASSUME IInv, IdleAskedNobody, NEW l \in Lookup,
         Begin(l) \/ RoundEnds(l) \/ BootEnds(l)
  PROVE  \A k \in Lookup : GoesOn(look[k], look'[k])
<1>1. CASE Begin(l)
  <2>1. look[l] = Idle /\ look' = [look EXCEPT ![l] = Seeded(l)]
      BY <1>1 DEF Begin, IdleAskedNobody
  <2> QED
      BY <2>1, SeededRuns, AfreshGoesOn, OnlyOneGoesOn
<1>2. CASE End(l)
    BY <1>2, IdleGoesOn, OnlyOneGoesOn DEF End
<1>3. CASE look' = [look EXCEPT ![l].phase = "picking"]
  <2>1. PICK d : d = [look[l] EXCEPT !.phase = "picking"]
      OBVIOUS
  <2>2. d.phase = "picking" /\ d.state = look[l].state
      BY <2>1 DEF IInv, TypeOK, Search
  <2>3. look' = [look EXCEPT ![l] = d]
      BY <1>3, <2>1
  <2> QED
      BY <2>2, <2>3, OnlyOneGoesOn DEF GoesOn, Remembers
<1>4. CASE look[l].phase = "boot" /\ look' = [look EXCEPT ![l] = Seeded(l)]
    BY <1>4, SeededRuns, AfreshGoesOn, OnlyOneGoesOn
<1> QED
    BY <1>1, <1>2, <1>3, <1>4 DEF RoundEnds, BootEnds

LEMMA StartGoesOn ==
  ASSUME IInv, IdleAskedNobody, Start
  PROVE  \A k \in Lookup : GoesOn(look[k], look'[k])
<1>1. Starter \in Lookup /\ look[Starter] = Idle
    BY DEF Start, IInv, Asking, IdleAskedNobody, Lookup
<1>2. CASE look' = [look EXCEPT ![Starter] = Seeded(Starter)']
  <2>1. Seeded(Starter)'.phase = "picking"
      BY DEF Seeded, Idle
  <2>2. PICK d : d = Seeded(Starter)'
      OBVIOUS
  <2> QED
      BY <1>1, <1>2, <2>1, <2>2, AfreshGoesOn, OnlyOneGoesOn
<1>3. CASE Bootstrapping
  <2>1. look' = [look EXCEPT ![Starter] = BootSearch]
      BY <1>3 DEF Bootstrapping, BootSearch, BootIds
  <2> QED
      BY <1>1, <2>1, BootIsSearch, AfreshGoesOn, OnlyOneGoesOn
<1> QED
    BY <1>2, <1>3 DEF Start

LEMMA NextGoesOn ==
  ASSUME IInv, IdleAskedNobody, [Next]_vars
  PROVE  \A k \in Lookup : GoesOn(look[k], look'[k])
<1>0. look' = look => \A k \in Lookup : GoesOn(look[k], look'[k])
    BY DEF GoesOn, Remembers, IdleAskedNobody
<1>1. ASSUME NEW q \in Query, Task(q) \/ SendFails(q) \/ Answer(q) \/ Refuse(q)
      PROVE  look' = look
    BY <1>1 DEF Task, Send, TimesOut, ChannelClosed, Fails, SendFails, Answer, Refuse
<1>2. ASSUME NEW l \in Lookup, Begin(l) \/ Proceed(l)
      PROVE  \A k \in Lookup : GoesOn(look[k], look'[k])
    BY <1>2, PickGoesOn, TakeGoesOn, LearnGoesOn, LookupGoesOn DEF Proceed
<1>3. ASSUME NEW h \in Host, Inbound(h)
      PROVE  look' = look
    BY <1>3 DEF Inbound
<1>4. CASE Stop
    BY <1>4, IdleGoesOn DEF Stop
<1>5. CASE UNCHANGED vars
    BY <1>0, <1>5 DEF vars
<1> QED
    BY <1>0, <1>1, <1>2, <1>3, <1>4, <1>5, StartGoesOn DEF Next

LEMMA IdleInvariance == Spec => []IdleAskedNobody
<1>1. Init => IdleAskedNobody
    BY DEF Init, IdleAskedNobody
<1>2. IInv /\ IdleAskedNobody /\ [Next]_vars => IdleAskedNobody'
    BY NextGoesOn DEF IdleAskedNobody, GoesOn
<1> QED
    BY <1>1, <1>2, Invariance, PTL DEF Spec

(* Within one lookup an id that was asked is never a candidate again, for    *)
(* any hosts, answers and rounds, even for our own id, which others may tell *)
(* of like any (lookup.rs, node.rs).                                         *)
THEOREM NobodyIsAskedTwice == Spec => NeverAskedAgain
<1>1. IInv /\ IdleAskedNobody /\ [Next]_vars =>
        [\A l \in Lookup : look'[l].phase # "idle" /\ look[l].phase # "boot" =>
           \A n \in Id : look[l].state[n] \in {"asked", "responded", "failed"} =>
                           look'[l].state[n] # "new"]_vars
    BY NextGoesOn DEF GoesOn, Remembers
<1> QED
    BY <1>1, Invariance, IdleInvariance, PTL DEF Spec, NeverAskedAgain
=============================================================================
