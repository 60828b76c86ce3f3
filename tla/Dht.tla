--------------------------------- MODULE Dht ----------------------------------
(***************************************************************************)
(* The DHT node: the routing table (dht/routing_table.rs), the transaction  *)
(* map of the socket (dht/krpc.rs), the iterative lookups (dht/lookup.rs),  *)
(* and the node that starts, bootstraps, saves and stops (dht/node.rs).     *)
(*                                                                          *)
(* An id is a string of bits, an address is a host.  What other nodes       *)
(* answer is theirs to choose among what they know.  Left out: the peers    *)
(* that answers carry, which only pass through; the announce tokens, which  *)
(* only decide what is answered; the replacement cache of a bucket, which   *)
(* is written and never read.                                               *)
(***************************************************************************)
EXTENDS Naturals, FiniteSets

CONSTANTS
  Bits,        \* bits of an id, and buckets: 160 in the code
  Id,          \* the ids that occur
  Own,         \* our id
  Me,          \* our address
  Host,        \* every address, Me included
  Names,       \* [Host -> set of ids]: a host that restarts takes another
  Knows,       \* [Host -> set of [id, at]]: nodes it may tell of
  Boot,        \* the bootstrap hosts that resolve
  Gets, Finds, \* the get_peers and the find_node lookups
  Starter,     \* the one of Finds that a start may run
  InfoHash,    \* what the former look for
  K,           \* bucket size and result size: 8
  ALPHA,       \* queries of one round: 3
  Rounds,      \* of a get_peers lookup: 20; of a find_node lookup: 30
  BadAfter,    \* failed queries that make a node bad: 3
  Failures,    \* values of failed_queries: 256
  Txns,        \* transaction ids: 65536
  Enough,      \* loaded nodes that make bootstrapping needless: 8
  MaxStarts,   \* bound: lookups started, inbound queries, restarts
  Nobody       \* no host, no query

Lookup == Gets \cup Finds
Query == Lookup \X Id

ASSUME DhtAssumption ==
  /\ Bits \in Nat \ {0} /\ Id \subseteq [1 .. Bits -> {0, 1}]
  /\ IsFiniteSet(Id) /\ Own \in Id /\ Me \in Host
  /\ InfoHash \in [1 .. Bits -> {0, 1}]
  /\ Names \in [Host -> SUBSET Id] /\ Names[Me] = {Own}
  /\ \A h \in Host : Names[h] # {}
  /\ Knows \in [Host -> SUBSET [id : Id, at : Host]]
  /\ Boot \subseteq Host
  /\ Gets \cap Finds = {} /\ Starter \in Finds
  /\ K \in Nat /\ ALPHA \in Nat /\ BadAfter \in Nat /\ Enough \in Nat
  /\ Rounds \in [Lookup -> Nat]
  /\ Failures \in Nat \ {0} /\ Txns \in Nat \ {0} /\ MaxStarts \in Nat
  /\ Nobody \notin Query /\ Nobody \notin Host

VARIABLES
  up,        \* the node's loop runs
  ready,     \* DhtHandle::start has returned
  file,      \* dht_nodes.json: [Id -> Host or Nobody]
  table,     \* [Id -> an entry, or Absent]
  txn,       \* TXN_COUNTER
  pending,   \* [0 .. Txns - 1 -> the query that waits, or Nobody]
  query,     \* [Query -> st, txn, reply]: the task of one query
  look,      \* [Lookup -> the lookup's local state]
  starts     \* lookups, inbound queries and restarts so far

krpcVars == <<txn, pending, query>>
vars == <<up, ready, file, table, krpcVars, look, starts>>

-----------------------------------------------------------------------------
(* Ids.                                                                      *)

Distance(a, b) == [i \in 1 .. Bits |-> IF a[i] = b[i] THEN 0 ELSE 1]

(* The order of byte strings.                                                *)
Less(d, e) == \E i \in 1 .. Bits :
                /\ d[i] < e[i]
                /\ \A j \in 1 .. i - 1 : d[j] = e[j]

Closer(a, b, target) == Less(Distance(a, target), Distance(b, target))

LeadingZeros(a, b) ==
  Cardinality({i \in 1 .. Bits : \A j \in 1 .. i : a[j] = b[j]})

(* The c ids of S closest to target.                                         *)
Closest(S, target, c) ==
  {n \in S : Cardinality({m \in S : Closer(m, n, target)}) < c}

(* n comes first in S by the distance to target.                             *)
First(S, n, target) == n \in S /\ \A m \in S : ~Closer(m, n, target)

-----------------------------------------------------------------------------
(* The routing table.                                                        *)

Fresh(h) == [at |-> h, status |-> "good", failed |-> 0]
Absent == Fresh(Nobody)

Entries(tb) == {n \in Id : tb[n] # Absent}
Status(tb, s) == {n \in Entries(tb) : tb[n].status = s}

bucket_index(n) ==
  LET zeros == LeadingZeros(Own, n)
  IN  IF zeros >= Bits THEN Bits - 1 ELSE Bits - 1 - zeros

Bucket(tb, n) == {m \in Entries(tb) : bucket_index(m) = bucket_index(n)}

(* Mutant: the newcomer takes the place of a node that missed one query.     *)
ReplaceDoubtful(tb, n, h) ==
  IF Bucket(tb, n) \ Status(tb, "good") # {}
    THEN {[tb EXCEPT ![n] = Fresh(h), ![m] = Absent] :
            m \in Bucket(tb, n) \ Status(tb, "good")}
    ELSE {tb}

(* A full bucket: the newcomer takes the place of a bad node, if any.  Which *)
(* of several is left open: the code takes the first in the bucket.          *)
Replace(tb, n, h) ==
  IF Bucket(tb, n) \cap Status(tb, "bad") # {}
    THEN {[tb EXCEPT ![n] = Fresh(h), ![m] = Absent] :
            m \in Bucket(tb, n) \cap Status(tb, "bad")}
    ELSE {tb}

(* Mutant: our own id is not turned away.                                    *)
InsertAnyId(tb, n, h) ==
  IF tb[n] # Absent \/ Cardinality(Bucket(tb, n)) < K
    THEN {[tb EXCEPT ![n] = Fresh(h)]}
    ELSE Replace(tb, n, h)

(* The tables that inserting or updating a node may leave.                   *)
insert_or_update(tb, n, h) ==
  IF n = Own THEN {tb}
  ELSE IF tb[n] # Absent \/ Cardinality(Bucket(tb, n)) < K
    THEN {[tb EXCEPT ![n] = Fresh(h)]}
    ELSE Replace(tb, n, h)

mark_good(tb, n) ==
  IF tb[n] = Absent THEN tb
  ELSE [tb EXCEPT ![n].status = "good", ![n].failed = 0]

(* failed_queries is a u8: it wraps where overflow checks are off.           *)
mark_failed(tb, n) ==
  IF tb[n] = Absent THEN tb
  ELSE LET f == (tb[n].failed + 1) % Failures
       IN  [tb EXCEPT ![n].failed = f,
                      ![n].status = IF f >= BadAfter THEN "bad"
                                    ELSE "questionable"]

closest_nodes(tb, target, count) ==
  Closest(Entries(tb) \ Status(tb, "bad"), target, count)

Saved(tb) == [n \in Id |-> IF n \in Entries(tb) \ Status(tb, "bad")
                             THEN tb[n].at ELSE Nobody]
EmptyTable == [n \in Id |-> Absent]
Loaded(f) == [n \in Id |-> IF f[n] = Nobody THEN Absent ELSE Fresh(f[n])]

-----------------------------------------------------------------------------
(* The tasks.                                                                *)

Idle == [phase |-> "idle", round |-> 0, at |-> [n \in Id |-> Nobody],
         state |-> [n \in Id |-> "unknown"], batch |-> {}, learn |-> {},
         found_new |-> FALSE]
NoQuery == [st |-> "none", txn |-> 0, id |-> Own, nodes |-> {}]
Node == [id : Id, at : Host]
Address == Host \cup {Nobody}
Entry == [at : Address, status : {"good", "questionable", "bad"},
          failed : 0 .. Failures - 1]
QueryTask ==
  [st : {"none", "spawned", "waiting", "answered", "closed", "failed"},
   txn : 0 .. Txns - 1, id : Id, nodes : SUBSET Node]
Search ==
  [phase : {"idle", "boot", "picking", "awaiting"}, round : Nat,
   at : [Id -> Address],
   state : [Id -> {"unknown", "new", "asked", "responded", "failed"}],
   batch : SUBSET Id, learn : SUBSET Node, found_new : BOOLEAN]

TypeOK ==
  /\ up \in BOOLEAN /\ ready \in BOOLEAN
  /\ file \in [Id -> Address]
  /\ table \in [Id -> Entry]
  /\ txn \in 0 .. Txns - 1
  /\ pending \in [0 .. Txns - 1 -> Query \cup {Nobody}]
  /\ query \in [Query -> QueryTask]
  /\ look \in [Lookup -> Search]
  /\ starts \in 0 .. MaxStarts

Target(l) == IF l \in Gets THEN InfoHash ELSE Own
In(l, s) == {n \in Id : look[l].state[n] = s}

Init ==
  /\ up = FALSE /\ ready = FALSE
  /\ file = [n \in Id |-> Nobody]
  /\ table = EmptyTable
  /\ txn = 0 /\ pending = [t \in 0 .. Txns - 1 |-> Nobody]
  /\ query = [q \in Query |-> NoQuery]
  /\ look = [l \in Lookup |-> Idle]
  /\ starts = 0

-----------------------------------------------------------------------------
(* KrpcSocket: one query is one task.                                        *)

(* The task behind pending[t] still waits for it.                            *)
Live(t) ==
  LET q == pending[t]
  IN  q # Nobody /\ query[q].st = "waiting" /\ query[q].txn = t

(* Mutant: the channel of an entry that is overwritten stays open.           *)
LeftOpen(t) == query

(* The queries once the sender in pending[t] is dropped.                     *)
Dropped(t) ==
  IF Live(t) THEN [query EXCEPT ![pending[t]].st = "closed"] ELSE query

(* Mutant: the counter does not wrap.                                        *)
GrowingId(t) == t + 1

next_txn_id(t) == (t + 1) % Txns

(* query(): an entry left over under the same id is overwritten, and its     *)
(* sender dropped.                                                           *)
Send(q) ==
  /\ query[q].st = "spawned"
  /\ pending' = [pending EXCEPT ![txn] = q]
  /\ txn' = next_txn_id(txn)
  /\ query' = [Dropped(txn) EXCEPT ![q].st = "waiting", ![q].txn = txn]
  /\ UNCHANGED <<up, ready, file, table, look, starts>>

(* send_to fails: query() returns at once and its entry stays.               *)
SendFails(q) ==
  /\ query[q].st = "spawned"
  /\ pending' = [pending EXCEPT ![txn] = q]
  /\ txn' = next_txn_id(txn)
  /\ query' = [Dropped(txn) EXCEPT ![q].st = "failed", ![q].txn = txn]
  /\ UNCHANGED <<up, ready, file, table, look, starts>>

(* What the host asked by q may tell.  Asked by ourselves, handle_inbound    *)
(* tells of the table.                                                       *)
Tells(q) ==
  LET h == look[q[1]].at[q[2]]
  IN  IF h = Me
        THEN {{[id |-> n, at |-> table[n].at] :
                 n \in closest_nodes(table, Target(q[1]), K)}}
        ELSE {{}, Knows[h]}

(* Whatever kind a response is taken for, it yields an id and some nodes.    *)
Response(t, id, nodes) ==
  [st |-> "answered", txn |-> t, id |-> id, nodes |-> nodes]

(* A response to q arrives: handle_message finds its task by the transaction *)
(* id alone.  One that comes after q's own task has gone finds no entry.     *)
Answer(q) ==
  LET t == query[q].txn
  IN  /\ query[q].st \in {"waiting", "closed"} /\ pending[t] # Nobody
      /\ pending' = [pending EXCEPT ![t] = Nobody]
      /\ \E id \in Names[look[q[1]].at[q[2]]], nodes \in Tells(q) :
           query' = IF Live(t)
                      THEN [query EXCEPT ![pending[t]] = Response(t, id, nodes)]
                      ELSE query
      /\ UNCHANGED <<up, ready, file, table, txn, look, starts>>

(* An error response, or one that cannot be decoded.                         *)
Refuse(q) ==
  LET t == query[q].txn
  IN  /\ query[q].st \in {"waiting", "closed"} /\ pending[t] # Nobody
      /\ pending' = [pending EXCEPT ![t] = Nobody]
      /\ query' = Dropped(t)
      /\ UNCHANGED <<up, ready, file, table, txn, look, starts>>

(* Five seconds are over, or the sender was dropped: the entry under the     *)
(* query's id is removed, whosever it is.                                    *)
Fails(q, st) ==
  LET t == query[q].txn
  IN  /\ query[q].st = st
      /\ pending' = [pending EXCEPT ![t] = Nobody]
      /\ query' = [Dropped(t) EXCEPT ![q].st = "failed"]
      /\ UNCHANGED <<up, ready, file, table, txn, look, starts>>

(* Mutant: a query waits for as long as it takes.                            *)
WaitsForEver(q) == FALSE /\ Fails(q, "waiting")

TimesOut(q) == Fails(q, "waiting")
ChannelClosed(q) == Fails(q, "closed")

-----------------------------------------------------------------------------
(* Lookups.                                                                  *)

(* iterative_get_peers or iterative_find_node begins.                        *)
Seeded(l) ==
  LET seeds == closest_nodes(table, Target(l), K)
  IN  [Idle EXCEPT !.phase = "picking",
         !.at = [n \in Id |-> IF n \in seeds THEN table[n].at ELSE Nobody],
         !.state = [n \in Id |-> IF n \in seeds THEN "new" ELSE "unknown"]]

(* lookup_rx.recv() or refresh_interval.tick() spawns a lookup.              *)
Begin(l) ==
  /\ up /\ starts < MaxStarts
  /\ look[l].phase = "idle"
  /\ \/ l \in Gets /\ ready
     \/ l \in Finds /\ l # Starter
  /\ look' = [look EXCEPT ![l] = Seeded(l)]
  /\ starts' = starts + 1
  /\ UNCHANGED <<up, ready, file, table, krpcVars>>

(* The lookup returns; start() returns with its own.                         *)
End(l) ==
  /\ look' = [look EXCEPT ![l] = Idle]
  /\ ready' = (ready \/ l = Starter)

(* Another round: the closest candidates not asked yet, at most ALPHA.       *)
PickRound(l) ==
  LET pick == Closest(In(l, "new"), Target(l), ALPHA)
  IN  /\ look[l].phase = "picking"
      /\ \/ /\ look[l].round = Rounds[l] \/ pick = {}
            /\ End(l) /\ UNCHANGED query
         \/ /\ look[l].round < Rounds[l] /\ pick # {}
            /\ look' = [look EXCEPT
                 ![l].phase = "awaiting", ![l].round = @ + 1,
                 ![l].batch = pick,
                 ![l].found_new = FALSE,
                 ![l].state = [n \in Id |-> IF n \in pick THEN "asked" ELSE @[n]]]
            /\ query' = [q \in Query |->
                 IF q[1] = l /\ q[2] \in pick
                   THEN [NoQuery EXCEPT !.st = "spawned"] ELSE query[q]]
            /\ UNCHANGED ready
      /\ UNCHANGED <<up, file, table, txn, pending, starts>>

(* Mutant: only ids not asked yet are looked for among the candidates.       *)
AddAnyUnasked(c, nodes) ==
  LET told == {x.id : x \in nodes} \ {n \in Id : c.state[n] = "new"}
      at(n) == (CHOOSE x \in nodes : x.id = n).at
  IN  [c EXCEPT !.state = [n \in Id |-> IF n \in told THEN "new" ELSE @[n]],
                !.at = [n \in Id |-> IF n \in told THEN at(n) ELSE @[n]]]

(* The candidates with those of nodes that were not among them.  Our own id  *)
(* is no exception.                                                          *)
AddCandidates(c, nodes) ==
  LET told == {x.id : x \in nodes} \cap {n \in Id : c.state[n] = "unknown"}
      at(n) == (CHOOSE x \in nodes : x.id = n).at
  IN  [c EXCEPT !.state = [n \in Id |-> IF n \in told THEN "new" ELSE @[n]],
                !.at = [n \in Id |-> IF n \in told THEN at(n) ELSE @[n]]]

(* A candidate has been heard from, or given up.                             *)
Marked(c, n, st) == [c EXCEPT !.state[n] = st, !.batch = c.batch \ {n}]

(* The next handle of the round is awaited: a get_peers lookup.              *)
TakeGet(l, n, r) ==
  \/ /\ r.st = "answered"
     /\ look' = [look EXCEPT ![l] =
          AddCandidates(Marked(look[l], n, "responded"), r.nodes)]
     /\ \E tb \in insert_or_update(table, r.id, look[l].at[n]) :
          table' = mark_good(tb, r.id)
  \/ /\ r.st = "failed"
     /\ look' = [look EXCEPT ![l] = Marked(look[l], n, "failed")]
     /\ table' = mark_failed(table, n)

(* A find_node lookup, or a bootstrap query.  A failure changes nothing.     *)
TakeFind(l, n, r) ==
  \/ /\ r.st = "answered"
     /\ look' = [look EXCEPT ![l].batch = @ \ {n}, ![l].learn = r.nodes]
     /\ \E tb \in insert_or_update(table, r.id, look[l].at[n]) :
          table' = mark_good(tb, r.id)
  \/ /\ r.st = "failed"
     /\ look' = [look EXCEPT ![l].batch = @ \ {n}]
     /\ UNCHANGED table

Take(l) ==
  /\ look[l].learn = {}
  /\ \E n \in Id :
       /\ First(look[l].batch, n, Target(l))
       /\ \/ l \in Gets /\ TakeGet(l, n, query[<<l, n>>])
          \/ l \in Finds /\ TakeFind(l, n, query[<<l, n>>])
       /\ query' = [query EXCEPT ![<<l, n>>] = NoQuery]
  /\ UNCHANGED <<up, ready, file, txn, pending, starts>>

(* A find_node lookup or the bootstrap takes the lock for one more node that *)
(* it was told of, in the teller's order; the lookup makes it a candidate.   *)
Told(c, node) ==
  LET rest == [c EXCEPT !.learn = c.learn \ {node}]
      more == AddCandidates(rest, {node})
  IN  IF c.phase = "boot" THEN rest
      ELSE [more EXCEPT !.found_new = c.found_new \/ more.state # c.state]

Learn(l) ==
  /\ look[l].phase \in {"boot", "awaiting"}
  /\ \E node \in look[l].learn :
       /\ table' \in insert_or_update(table, node.id, node.at)
       /\ look' = [look EXCEPT ![l] = Told(look[l], node)]
  /\ UNCHANGED <<up, ready, file, krpcVars, starts>>

(* No candidate left is closer than the closest that responded.              *)
Converged(l) ==
  IF l \in Gets
    THEN /\ In(l, "new") # {}
         /\ \E r \in In(l, "responded") : \A m \in In(l, "new") :
              ~Closer(m, r, InfoHash)
    ELSE ~look[l].found_new

RoundEnds(l) ==
  /\ look[l].phase = "awaiting"
  /\ look[l].batch = {} /\ look[l].learn = {}
  /\ \/ Converged(l) /\ End(l)
     \/ /\ ~Converged(l)
        /\ look' = [look EXCEPT ![l].phase = "picking"]
        /\ UNCHANGED ready
  /\ UNCHANGED <<up, file, table, krpcVars, starts>>

-----------------------------------------------------------------------------
(* The node.                                                                 *)

(* A bootstrap host is asked under its address; any id stands for it.        *)
BootId(h) == CHOOSE n \in Names[h] : TRUE

Bootstrapping ==
  LET ids == {BootId(h) : h \in Boot}
  IN  /\ look' = [look EXCEPT ![Starter] = [Idle EXCEPT !.phase = "boot",
           !.at = [n \in Id |-> IF n \in ids
                     THEN CHOOSE h \in Boot : BootId(h) = n ELSE Nobody],
           !.batch = ids]]
      /\ query' = [q \in Query |-> IF q[1] = Starter /\ q[2] \in ids
                     THEN [NoQuery EXCEPT !.st = "spawned"] ELSE query[q]]
      /\ ready' = FALSE

(* DhtHandle::start.                                                         *)
Start ==
  /\ ~up /\ up' = TRUE
  /\ table' = Loaded(file)
  /\ IF Cardinality(Entries(table')) >= Enough
       THEN /\ look' = [look EXCEPT ![Starter] = Seeded(Starter)']
            /\ ready' = TRUE /\ UNCHANGED query
       ELSE Bootstrapping
  /\ UNCHANGED <<file, txn, pending, starts>>

(* bootstrap() has heard from every host it asked.                           *)
BootEnds(l) ==
  /\ look[l].phase = "boot"
  /\ look[l].batch = {} /\ look[l].learn = {}
  /\ \/ /\ Status(table, "good") # {}
        /\ look' = [look EXCEPT ![l] = Seeded(l)]
        /\ UNCHANGED ready
     \/ Status(table, "good") = {} /\ End(l)
  /\ UNCHANGED <<up, file, table, krpcVars, starts>>

(* handle_inbound: whatever is asked, the sender goes into the table.        *)
Inbound(h) ==
  /\ up /\ starts < MaxStarts
  /\ \E n \in Names[h] : table' \in insert_or_update(table, n, h)
  /\ starts' = starts + 1
  /\ UNCHANGED <<up, ready, file, krpcVars, look>>

(* The session is cancelled, and the table saved or not.  The lookups under  *)
(* way go on for a table and a socket that nobody uses any more.             *)
Stop ==
  /\ up /\ starts < MaxStarts
  /\ up' = FALSE /\ ready' = FALSE
  /\ file' \in {file, Saved(table)}
  /\ table' = EmptyTable
  /\ pending' = [t \in 0 .. Txns - 1 |-> Nobody]
  /\ query' = [q \in Query |-> NoQuery]
  /\ look' = [l \in Lookup |-> Idle]
  /\ starts' = starts + 1
  /\ UNCHANGED txn

-----------------------------------------------------------------------------

Task(q) == Send(q) \/ TimesOut(q) \/ ChannelClosed(q)
Proceed(l) ==
  PickRound(l) \/ Take(l) \/ Learn(l) \/ RoundEnds(l) \/ BootEnds(l)

Next ==
  \/ \E q \in Query : Task(q) \/ SendFails(q) \/ Answer(q) \/ Refuse(q)
  \/ \E l \in Lookup : Begin(l) \/ Proceed(l)
  \/ Start \/ Stop
  \/ \E h \in Host \ {Me} : Inbound(h)

Spec == Init /\ [][Next]_vars

(* The runtime polls every task that can go on, and timers go off.  A lookup *)
(* has finitely many steps to take, so it is enough that some task of it     *)
(* goes on while one can.                                                    *)
FairSpec ==
  /\ Spec
  /\ \A l \in Lookup :
       WF_vars(Proceed(l) \/ \E n \in Id : Task(<<l, n>>))

-----------------------------------------------------------------------------
(* Properties.                                                               *)

(* The table never holds our own id or an entry without an address, and no   *)
(* bucket outgrows K: whatever lookups, bootstrap and inbound queries insert *)
(* in whatever order, and after a restart from the saved file.               *)
WellFormed(tb) ==
  \A n \in Entries(tb) :
    /\ n # Own /\ tb[n].at # Nobody
    /\ Cardinality(Bucket(tb, n)) <= K

BucketsWellFormed == WellFormed(table)

(* A query that waits is the one that its transaction id leads to: an answer *)
(* finds it.  It holds even when the 16-bit counter comes round to an id in  *)
(* use, for the task that is overwritten has had its channel closed.         *)
QueryIsHeard ==
  \A q \in Query : query[q].st = "waiting" => pending[query[q].txn] = q

(* While the node runs, an entry leaves the table only when it is bad: old   *)
(* nodes that answer, or missed a query or two, are never displaced.         *)
OnlyBadGiveWay ==
  [][up /\ up' =>
       \A n \in Entries(table) \ Entries(table') : table[n].status = "bad"]_vars

(* Within one lookup an id is asked at most once, however often and under    *)
(* whatever address other nodes tell of it again.                            *)
NeverAskedAgain ==
  [][\A l \in Lookup : look'[l].phase # "idle" /\ look[l].phase # "boot" =>
       \A n \in Id : look[l].state[n] \in {"asked", "responded", "failed"} =>
                       look'[l].state[n] # "new"]_vars

(* Every lookup ends, whoever does not answer it.                            *)
EveryLookupEnds ==
  \A l \in Lookup : look[l].phase # "idle" ~> look[l].phase = "idle"

(* start() has returned or its bootstrap is under way; as every lookup ends,  *)
(* the session that awaits it before its event loop (engine/session.rs:229)   *)
(* is not held up for ever, even when no node was found.                      *)
StartReturns == up => ready \/ look[Starter].phase # "idle"
==============================================================================
