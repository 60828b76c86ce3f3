--------------------------- MODULE LibraryProofs -----------------------------
(***************************************************************************)
(* Proofs about Library for any number of films, entries, requests and      *)
(* tasks, but for what happens to films that some task was misled about.    *)
(* First, what is stored and what each task knows have their types, and no  *)
(* write undoes another's: a task that holds an entry either knows what the *)
(* store says of it or has been told that it is out of date (IInv).  Then,  *)
(* from that, which files belong to whom (Safe): they are on disk, and no   *)
(* entry, job, clean-up or scan has a claim on those of another.            *)
(***************************************************************************)
EXTENDS Library, FiniteSetTheorems, FunctionTheorems, TLAPS

(* Ids that have been given out.                                             *)
Given == {m \in Id : m < next_id}

(* A subtitle is numbered when an upload puts it there, by how many the      *)
(* entry has: no number, and no count, exceeds the requests made.            *)
IsSubtitle(p) == p \in Path /\ p[3] \in 1 .. requests
Fits(e) ==
  /\ Sound(e)
  /\ IsFiniteSet(e.versions)
  /\ IsFiniteSet(e.subtitles) /\ Cardinality(e.subtitles) <= requests
  /\ \A p \in e.subtitles : IsSubtitle(p)

IsTask(d) ==
  d = [kind |-> d.kind, phase |-> d.phase, view |-> d.view, todo |-> d.todo,
       at |-> d.at, file |-> d.file, out |-> d.out, found |-> d.found,
       serial |-> d.serial, outdated |-> d.outdated, left |-> d.left]

(* A task other than a scan knows the entries it has still to go to, and the *)
(* one it is at.                                                             *)
Knows(d) ==
  /\ DOMAIN d.view \subseteq Given
  /\ \A m \in DOMAIN d.view : Fits(d.view[m])
  /\ d.kind # "scan" =>
       /\ d.todo \subseteq DOMAIN d.view \/ d.phase = "rest"
       /\ d.phase \in {"write", "put", "encode", "get", "remove", "unlink"}
            => d.at \in DOMAIN d.view
  /\ d.kind = "scan" => DOMAIN d.view = {}
  /\ d.kind = "job" => d.todo = {d.at}

(* Where a job writes; the subtitle of an upload has the next number.        *)
HasItsPaths(d) ==
  /\ {d.file, d.out} \subseteq Path \cup {NoPath}
  /\ d.kind = "job" => d.file \in Path /\ d.out \in Path /\ d.out[3] = 0
  /\ d.kind = "upload" =>
       /\ \A m \in DOMAIN d.view : Cardinality(d.view[m].subtitles) < d.serial
       /\ d.phase = "put" => IsSubtitle(d.file)

HasFound(d) ==
  /\ DOMAIN d.found \subseteq Path /\ \A p \in DOMAIN d.found : d.found[p] \in Film
  /\ d.kind = "scan" => d.todo \subseteq DOMAIN d.found

TaskFits(d) ==
  /\ IsTask(d) /\ d.kind \in Kind
  /\ d.serial \in 1 .. requests /\ d.outdated \cup d.left \subseteq Id
  /\ Knows(d) /\ HasItsPaths(d) /\ HasFound(d)

(* e is what the store says of m, as far as film and play position go.       *)
Same(e, m) == Present(m) /\ e.film = entry[m].film /\ e.played = entry[m].played

(* What a task has read of an entry still holds unless it has been told.     *)
UpToDate(d) == \A m \in DOMAIN d.view \ d.outdated : Same(d.view[m], m)

TasksFit ==
  \A t \in Slot : Active(t) => TaskFits(task[t]) /\ UpToDate(task[t])

FetchFits(q) ==
  /\ q = [phase |-> q.phase, copy |-> q.copy, lookups |-> q.lookups, outdated |-> q.outdated]
  /\ q.lookups \in {1, 2} /\ Fits(q.copy)

FetchesFit ==
  \A m \in Id : fetch[m] # NoFetch =>
    /\ m \in Given /\ FetchFits(fetch[m])
    /\ fetch[m].phase = "holding" /\ ~ fetch[m].outdated => Same(fetch[m].copy, m)

EntriesFit == \A m \in Entries : m \in Given /\ Fits(entry[m])

DiskFits ==
  /\ DOMAIN disk \subseteq Path
  /\ \A p \in DOMAIN disk : disk[p] \in Film /\ p[3] \in 0 .. requests

WorldFits ==
  /\ layout \in Layouts /\ record \in BOOLEAN /\ transcode_dir \in {OutDir, NewDir}
  /\ next_id \in 1 .. MaxId + 1 /\ requests \in 0 .. MaxRequests /\ faults \in 0 .. MaxFaults
  /\ misled \cup deleted \subseteq Film /\ removed \cup played \subseteq Given

Domains == DOMAIN entry = Id /\ DOMAIN task = Slot /\ DOMAIN fetch = Id

IInv ==
  /\ Domains /\ WorldFits /\ DiskFits /\ EntriesFit /\ TasksFit /\ FetchesFit
  /\ NothingIsUndone

-----------------------------------------------------------------------------
LEMMA Constants ==
  /\ Films \in Nat /\ MaxId \in Nat /\ Films <= MaxId
  /\ MaxRequests \in Nat /\ MaxFaults \in Nat
BY LibraryAssumption

LEMMA EntryIsSomething == \A e : Sound(e) => e # NoEntry
BY DEF Sound, Entry, NoEntry, Film

(* What fits goes on fitting while requests come and ids are given out.      *)
LEMMA Growth ==
  ASSUME layout' = layout, requests \in Nat, requests' \in Nat, requests <= requests',
         next_id \in Nat, next_id' \in Nat, next_id <= next_id'
  PROVE  /\ Path' = Path /\ Given \subseteq Given'
         /\ \A e : (Sound(e))' = Sound(e)
         /\ \A p : IsSubtitle(p) => (IsSubtitle(p))'
         /\ \A e : Fits(e) => (Fits(e))'
         /\ \A d : TaskFits(d) => (TaskFits(d))'
         /\ \A q : FetchFits(q) => (FetchFits(q))'
<1>1. Path' = Path
  BY DEF Path, Dir
<1>2. Given \subseteq Given'
  BY Constants DEF Given, Id
<1>3. \A e : (Sound(e))' = Sound(e)
  BY <1>1 DEF Sound, Entry, Group
<1>4. \A p : IsSubtitle(p) => (IsSubtitle(p))'
  BY <1>1 DEF IsSubtitle
<1>5. \A e : Fits(e) => (Fits(e))'
  <2> SUFFICES ASSUME NEW e, Fits(e)  PROVE (Fits(e))'
    OBVIOUS
  <2>1. Cardinality(e.subtitles) \in Nat
    BY FS_CardinalityType DEF Fits
  <2> QED  BY <1>3, <1>4, <2>1 DEF Fits
<1>6. \A d : TaskFits(d) => (TaskFits(d))'
  <2> SUFFICES ASSUME NEW d, TaskFits(d)  PROVE (TaskFits(d))'
    OBVIOUS
  <2>1. d.serial \in 1 .. requests'
    BY DEF TaskFits
  <2>2. (Knows(d))'
    BY <1>2, <1>5 DEF TaskFits, Knows
  <2>3. (HasItsPaths(d))'
    BY <1>1, <1>4 DEF TaskFits, HasItsPaths
  <2>4. (HasFound(d))'
    BY <1>1 DEF TaskFits, HasFound
  <2> QED  BY <2>1, <2>2, <2>3, <2>4 DEF TaskFits, IsTask
<1>7. \A q : FetchFits(q) => (FetchFits(q))'
  BY <1>5 DEF FetchFits
<1> QED  BY <1>1, <1>2, <1>3, <1>4, <1>5, <1>6, <1>7
-----------------------------------------------------------------------------
(* The parts of the invariant after a step that writes the entries W.        *)

Grows ==
  /\ layout' = layout /\ requests <= requests' /\ next_id <= next_id'
  /\ requests' \in Nat /\ next_id' \in Nat

LEMMA GrowthHere ==
  ASSUME IInv, Grows
  PROVE  /\ Path' = Path /\ Given \subseteq Given'
         /\ \A e : (Sound(e))' = Sound(e)
         /\ \A p : IsSubtitle(p) => (IsSubtitle(p))'
         /\ \A e : Fits(e) => (Fits(e))'
         /\ \A d : TaskFits(d) => (TaskFits(d))'
         /\ \A q : FetchFits(q) => (FetchFits(q))'
<1>1. requests \in Nat /\ next_id \in Nat
  BY Constants DEF IInv, WorldFits
<1> QED  BY <1>1, Growth DEF Grows

(* A task goes on as it was or as one that knows what it must, or it is told *)
(* what was written.                                                         *)
LEMMA TasksStayFit ==
  ASSUME IInv, Grows, NEW W \in SUBSET Id,
         \A k \in Id \ W : entry'[k] = entry[k],
         \A u \in Slot :
           \/ task'[u] = Idle
           \/ (TaskFits(task[u]) /\ UpToDate(task[u]))'
           \/ task'[u] = task[u] /\ W \cap DOMAIN task[u].view = {}
           \/ task[u] # Idle /\ task'[u] = [task[u] EXCEPT !.outdated = @ \cup W]
  PROVE  TasksFit'
<1> SUFFICES ASSUME NEW u \in Slot, task'[u] # Idle
             PROVE  (TaskFits(task[u]) /\ UpToDate(task[u]))'
  BY DEF TasksFit, Active
<1>1. CASE task'[u] = task[u] /\ W \cap DOMAIN task[u].view = {}
  <2>1. TaskFits(task[u]) /\ UpToDate(task[u])
    BY <1>1 DEF IInv, TasksFit, Active
  <2>2. (TaskFits(task[u]))'
    <3> DEFINE d == task[u]
    <3>1. \A e : TaskFits(e) => (TaskFits(e))'
      BY GrowthHere
    <3> QED  BY <3>1, <2>1, <1>1
  <2>3. DOMAIN task[u].view \subseteq Id
    BY <2>1 DEF TaskFits, Knows, Given
  <2>4. (UpToDate(task[u]))'
    BY <2>1, <2>3, <1>1 DEF UpToDate, Same, Present
  <2> QED  BY <2>2, <2>4
<1>2. CASE task[u] # Idle /\ task'[u] = [task[u] EXCEPT !.outdated = @ \cup W]
  <2>1. TaskFits(task[u]) /\ UpToDate(task[u])
    BY <1>2 DEF IInv, TasksFit, Active
  <2>2. /\ IsTask(task'[u]) /\ task'[u].outdated = task[u].outdated \cup W
        /\ task'[u].kind = task[u].kind /\ task'[u].phase = task[u].phase
        /\ task'[u].view = task[u].view /\ task'[u].todo = task[u].todo
        /\ task'[u].at = task[u].at /\ task'[u].file = task[u].file
        /\ task'[u].out = task[u].out /\ task'[u].found = task[u].found
        /\ task'[u].serial = task[u].serial /\ task'[u].left = task[u].left
    BY <2>1, <1>2 DEF TaskFits, IsTask
  <2>3. TaskFits(task'[u])
    BY <2>1, <2>2 DEF TaskFits, Knows, HasItsPaths, HasFound
  <2>4. (TaskFits(task[u]))'
    <3>1. \A e : TaskFits(e) => (TaskFits(e))'
      BY GrowthHere
    <3> QED  BY <3>1, <2>3
  <2>5. DOMAIN task[u].view \subseteq Id
    BY <2>1 DEF TaskFits, Knows, Given
  <2>6. (UpToDate(task[u]))'
    BY <2>1, <2>2, <2>5 DEF UpToDate, Same, Present
  <2> QED  BY <2>4, <2>6
<1> QED  BY <1>1, <1>2

(* The same for the lookups.                                                 *)
LEMMA FetchesStayFit ==
  ASSUME IInv, Grows, NEW W \in SUBSET Id,
         \A k \in Id \ W : entry'[k] = entry[k],
         \A k \in Id :
           \/ fetch'[k] = NoFetch
           \/ (/\ k \in Given /\ FetchFits(fetch[k])
               /\ fetch[k].phase = "holding" /\ ~ fetch[k].outdated
                    => Same(fetch[k].copy, k))'
           \/ fetch'[k] = fetch[k] /\ (k \notin W \/ fetch[k].phase # "holding")
           \/ fetch[k] # NoFetch /\ fetch'[k] = [fetch[k] EXCEPT !.outdated = TRUE]
  PROVE  FetchesFit'
<1> SUFFICES ASSUME NEW k \in Id, fetch'[k] # NoFetch
             PROVE  (/\ k \in Given /\ FetchFits(fetch[k])
                     /\ fetch[k].phase = "holding" /\ ~ fetch[k].outdated
                          => Same(fetch[k].copy, k))'
  BY DEF FetchesFit
<1>0. Given \subseteq Given' /\ \A q : FetchFits(q) => (FetchFits(q))'
  BY GrowthHere
<1>1. CASE fetch'[k] = fetch[k] /\ (k \notin W \/ fetch[k].phase # "holding")
  <2>1. /\ k \in Given /\ FetchFits(fetch[k])
        /\ fetch[k].phase = "holding" /\ ~ fetch[k].outdated => Same(fetch[k].copy, k)
    BY <1>1 DEF IInv, FetchesFit
  <2>2. k \in Given' /\ (FetchFits(fetch[k]))'
    BY <1>0, <1>1, <2>1
  <2> QED  BY <1>1, <2>1, <2>2 DEF Same, Present
<1>2. CASE fetch[k] # NoFetch /\ fetch'[k] = [fetch[k] EXCEPT !.outdated = TRUE]
  <2>1. k \in Given /\ FetchFits(fetch[k])
    BY <1>2 DEF IInv, FetchesFit
  <2>2. fetch'[k].outdated = TRUE /\ FetchFits(fetch'[k])
    BY <1>2, <2>1 DEF FetchFits
  <2>3. k \in Given' /\ (FetchFits(fetch[k]))'
    BY <1>0, <2>1, <2>2
  <2> QED  BY <2>2, <2>3
<1> QED  BY <1>1, <1>2

(* An entry written must fit, and must not undo anything.                    *)
LEMMA EntriesStayFit ==
  ASSUME IInv, Grows, NEW W \in SUBSET Id,
         \A k \in Id \ W : entry'[k] = entry[k],
         \A k \in W : entry'[k] = NoEntry \/ (k \in Given /\ Fits(entry[k]))'
  PROVE  EntriesFit'
<1>1. Given \subseteq Given' /\ \A e : Fits(e) => (Fits(e))'
  BY GrowthHere
<1> SUFFICES ASSUME NEW k \in Id, entry'[k] # NoEntry
             PROVE  (k \in Given /\ Fits(entry[k]))'
  BY DEF EntriesFit, Entries, Present
<1>2. CASE k \notin W
  <2>1. entry'[k] = entry[k]
    BY <1>2
  <2>2. k \in Given /\ Fits(entry[k])
    BY <2>1 DEF IInv, EntriesFit, Entries, Present
  <2> QED  BY <1>1, <2>1, <2>2
<1> QED  BY <1>2

-----------------------------------------------------------------------------
(* The kinds of steps.                                                       *)

(* All of the invariant but what a step says itself of world and disk.       *)
Books == Domains /\ EntriesFit /\ TasksFit /\ FetchesFit /\ NothingIsUndone

(* A step of one task, new or old, that leaves the store alone.              *)
LEMMA PrivateKeeps ==
  ASSUME IInv, Grows, NEW t \in Slot, NEW d, task' = [task EXCEPT ![t] = d],
         UNCHANGED <<entry, fetch, removed, played>>, misled \subseteq misled',
         d = Idle \/ ((TaskFits(d))' /\ UpToDate(d))
  PROVE  Books'
<1> DEFINE W == {}
<1>0. /\ W \in SUBSET Id /\ \A k \in Id \ W : entry'[k] = entry[k]
      /\ \A S : W \cap S = {}
      /\ \A k : k \notin W
  OBVIOUS
<1> HIDE DEF W
<1>1. Domains'
  BY DEF IInv, Domains
<1>2. EntriesFit'
  <2>1. \A k \in W : entry'[k] = NoEntry \/ (k \in Given /\ Fits(entry[k]))'
    BY <1>0
  <2> QED  BY <1>0, <2>1, EntriesStayFit
<1>3. TasksFit'
  <2>1. /\ task'[t] = d
        /\ \A u \in Slot \ {t} : task'[u] = task[u]
    BY DEF IInv, Domains
  <2>2. UpToDate(d) => (UpToDate(d))'
    BY DEF UpToDate, Same, Present
  <2>3. task'[t] = Idle \/ (TaskFits(task[t]) /\ UpToDate(task[t]))'
    BY <2>1, <2>2
  <2>4. \A u \in Slot :
          \/ task'[u] = Idle
          \/ (TaskFits(task[u]) /\ UpToDate(task[u]))'
          \/ task'[u] = task[u] /\ W \cap DOMAIN task[u].view = {}
          \/ task[u] # Idle /\ task'[u] = [task[u] EXCEPT !.outdated = @ \cup W]
    BY <1>0, <2>1, <2>3
  <2> QED  BY <1>0, <2>4, TasksStayFit
<1>4. FetchesFit'
  <2>1. \A k \in Id :
           \/ fetch'[k] = NoFetch
           \/ (/\ k \in Given /\ FetchFits(fetch[k])
               /\ fetch[k].phase = "holding" /\ ~ fetch[k].outdated
                    => Same(fetch[k].copy, k))'
           \/ fetch'[k] = fetch[k] /\ (k \notin W \/ fetch[k].phase # "holding")
           \/ fetch[k] # NoFetch /\ fetch'[k] = [fetch[k] EXCEPT !.outdated = TRUE]
    BY <1>0
  <2> QED  BY <1>0, <2>1, FetchesStayFit
<1>5. NothingIsUndone'
  BY DEF IInv, NothingIsUndone, Entries, Present
<1> QED  BY <1>1, <1>2, <1>3, <1>4, <1>5 DEF Books

(* put_media by a task: the others are told.                                 *)
PutDone(t, m, e, d) ==
  /\ entry'[m] = e /\ (\A k \in Id \ {m} : entry'[k] = entry[k])
  /\ task'[t] = d
  /\ \A u \in Slot \ {t} : task'[u] = IF task[u] # Idle
       THEN [task[u] EXCEPT !.outdated = @ \cup {m}] ELSE task[u]
  /\ \A k \in Id \ {m} : fetch'[k] = fetch[k]
  /\ fetch'[m] = IF fetch[m].phase = "holding"
                 THEN [fetch[m] EXCEPT !.outdated = TRUE] ELSE fetch[m]
  /\ Domains'

LEMMA PutIs ==
  ASSUME IInv, NEW t \in Slot, NEW m \in Id, NEW e, NEW d, Put(t, m, e, d)
  PROVE  PutDone(t, m, e, d)
<1> DEFINE W == {m}
<1>1. /\ entry' = [entry EXCEPT ![m] = e]
      /\ task' = Told([task EXCEPT ![t] = d], Slot \ {t}, m)
      /\ fetch' = FetchTold(m)
  BY DEF Put
<1>2. /\ DOMAIN entry = Id /\ DOMAIN task = Slot /\ DOMAIN fetch = Id
  BY DEF IInv, Domains
<1>3. entry'[m] = e /\ (\A k \in Id \ W : entry'[k] = entry[k])
  BY <1>1, <1>2
<1>4. /\ task'[t] = d
      /\ \A u \in Slot \ {t} : task'[u] = IF task[u] # Idle
           THEN [task[u] EXCEPT !.outdated = @ \cup W] ELSE task[u]
  <2> DEFINE T == [task EXCEPT ![t] = d]
  <2>1. T[t] = d /\ \A u \in Slot \ {t} : T[u] = task[u]
    BY <1>2
  <2> HIDE DEF T
  <2>2. \A u \in Slot : task'[u] = IF u \in Slot \ {t} /\ T[u] # Idle
                            THEN [T[u] EXCEPT !.outdated = @ \cup {m}] ELSE T[u]
    <3>1. task' = Told(T, Slot \ {t}, m)
      BY <1>1 DEF T
    <3> QED  BY <3>1 DEF Told
  <2> QED  BY <2>1, <2>2
<1>5. /\ \A k \in Id \ W : fetch'[k] = fetch[k]
      /\ fetch'[m] = IF fetch[m].phase = "holding"
                     THEN [fetch[m] EXCEPT !.outdated = TRUE] ELSE fetch[m]
  <2>1. CASE fetch[m].phase = "holding"
    <3>1. fetch' = [fetch EXCEPT ![m].outdated = TRUE]
      BY <1>1, <2>1 DEF FetchTold
    <3> QED  BY <3>1, <2>1, <1>2
  <2>2. CASE fetch[m].phase # "holding"
    <3>1. fetch' = fetch
      BY <1>1, <2>2 DEF FetchTold
    <3> QED  BY <3>1, <2>2
  <2> QED  BY <2>1, <2>2
<1>6. Domains'
  BY <1>1, <1>2 DEF Domains, Told, FetchTold
<1> QED  BY <1>3, <1>4, <1>5, <1>6 DEF PutDone

LEMMA PutKeeps ==
  ASSUME IInv, Grows, NEW t \in Slot, NEW m \in Id, NEW e, NEW d, Put(t, m, e, d),
         m \in Given, UNCHANGED <<requests, next_id>>,
         e = NoEntry \/ Fits(e),
         \/ d = Idle
         \/ /\ TaskFits(d)
            /\ \A k \in DOMAIN d.view \ d.outdated :
                 IF k = m THEN /\ e # NoEntry /\ d.view[k].film = e.film
                               /\ d.view[k].played = e.played
                 ELSE Same(d.view[k], k),
         misled \subseteq misled', removed' \subseteq removed \cup {m},
         played' \subseteq played \cup {m},
         e # NoEntry /\ e.film \notin misled' =>
           m \notin removed' /\ (m \in played' => e.played)
  PROVE  Books'
<1>1. PutDone(t, m, e, d)
  BY PutIs
<1> DEFINE W == {m}
<1>3. entry'[m] = e /\ (\A k \in Id \ W : entry'[k] = entry[k])
  BY <1>1 DEF PutDone
<1>4. /\ task'[t] = d
      /\ \A u \in Slot \ {t} : task'[u] = IF task[u] # Idle
           THEN [task[u] EXCEPT !.outdated = @ \cup W] ELSE task[u]
  BY <1>1 DEF PutDone
<1>5. /\ \A k \in Id \ W : fetch'[k] = fetch[k]
      /\ fetch'[m] = IF fetch[m].phase = "holding"
                     THEN [fetch[m] EXCEPT !.outdated = TRUE] ELSE fetch[m]
  BY <1>1 DEF PutDone
<1>w. W \in SUBSET Id /\ m \in W /\ (\A k \in W : k = m) /\ (\A k \in Id : k # m => k \notin W)
  OBVIOUS
<1> HIDE DEF W
<1>6. Domains'
  BY <1>1 DEF PutDone
<1>0. Given \subseteq Given' /\ (Fits(e) => (Fits(e))') /\ (TaskFits(d) => (TaskFits(d))')
  BY GrowthHere
<1>7. EntriesFit'
  <2>1. \A k \in W : entry'[k] = NoEntry \/ (k \in Given /\ Fits(entry[k]))'
    BY <1>0, <1>3, <1>w
  <2> QED  BY <1>3, <2>1, <1>w, EntriesStayFit
<1>8. TasksFit'
  <2>1. d = Idle \/ ((TaskFits(d))' /\ (UpToDate(d))')
    <3> SUFFICES ASSUME d # Idle  PROVE (TaskFits(d))' /\ (UpToDate(d))'
      OBVIOUS
    <3>1. (TaskFits(d))' /\ DOMAIN d.view \subseteq Id
      BY <1>0 DEF TaskFits, Knows, Given
    <3>2. ASSUME NEW k \in DOMAIN d.view \ d.outdated  PROVE (Same(d.view[k], k))'
      <4>1. CASE k = m
        BY <4>1, <1>3, <3>1 DEF Same, Present
      <4>2. CASE k # m
        <5>1. entry'[k] = entry[k]
          BY <4>2, <1>3, <3>1, <1>w
        <5>2. Same(d.view[k], k)
          BY <4>2
        <5> QED  BY <5>1, <5>2 DEF Same, Present
      <4> QED  BY <4>1, <4>2
    <3> QED  BY <3>1, <3>2 DEF UpToDate
  <2>2. task'[t] = Idle \/ (TaskFits(task[t]) /\ UpToDate(task[t]))'
    BY <2>1, <1>4
  <2>3. \A u \in Slot :
          \/ task'[u] = Idle
          \/ (TaskFits(task[u]) /\ UpToDate(task[u]))'
          \/ task'[u] = task[u] /\ W \cap DOMAIN task[u].view = {}
          \/ task[u] # Idle /\ task'[u] = [task[u] EXCEPT !.outdated = @ \cup W]
    BY <2>2, <1>4
  <2> QED  BY <1>3, <2>3, <1>w, TasksStayFit
<1>9. FetchesFit'
  <2>1. ASSUME NEW k \in Id
        PROVE  \/ fetch'[k] = fetch[k] /\ (k \notin W \/ fetch[k].phase # "holding")
               \/ fetch[k] # NoFetch /\ fetch'[k] = [fetch[k] EXCEPT !.outdated = TRUE]
    <3>1. CASE k = m
      BY <3>1, <1>5 DEF NoFetch
    <3>2. CASE k # m
      BY <3>2, <1>5, <1>w
    <3> QED  BY <3>1, <3>2
  <2>2. \A k \in Id :
           \/ fetch'[k] = NoFetch
           \/ (/\ k \in Given /\ FetchFits(fetch[k])
               /\ fetch[k].phase = "holding" /\ ~ fetch[k].outdated
                    => Same(fetch[k].copy, k))'
           \/ fetch'[k] = fetch[k] /\ (k \notin W \/ fetch[k].phase # "holding")
           \/ fetch[k] # NoFetch /\ fetch'[k] = [fetch[k] EXCEPT !.outdated = TRUE]
    BY <2>1
  <2> QED  BY <1>3, <2>2, <1>w, FetchesStayFit
<1>10. NothingIsUndone'
  <2> SUFFICES ASSUME NEW k \in Id, entry'[k] # NoEntry, entry'[k].film \notin misled'
               PROVE  k \notin removed' /\ (k \in played' => entry'[k].played)
    BY DEF NothingIsUndone, Entries, Present
  <2>1. CASE k = m
    BY <2>1, <1>3
  <2>2. CASE k # m
    <3>1. entry'[k] = entry[k]
      BY <2>2, <1>3, <1>w
    <3>2. k \notin removed /\ (k \in played => entry[k].played)
      BY <3>1 DEF IInv, NothingIsUndone, Entries, Present
    <3> QED  BY <3>1, <3>2, <2>2
  <2> QED  BY <2>1, <2>2
<1> QED  BY <1>6, <1>7, <1>8, <1>9, <1>10 DEF Books

-----------------------------------------------------------------------------
(* The disk.                                                                 *)
LEMMA DiskStaysFit ==
  ASSUME IInv, Grows
  PROVE  /\ disk' = disk => DiskFits'
         /\ \A S : disk' = Without(S) => DiskFits'
         /\ \A p \in Path, f \in Film :
              p[3] \in 0 .. requests /\ disk' = With(p, f) => DiskFits'
         /\ \A S \in SUBSET DOMAIN disk : disk' = Moved(S) => DiskFits'
<1>1. /\ Path' = Path
      /\ DOMAIN disk \subseteq Path
      /\ \A p \in DOMAIN disk : disk[p] \in Film /\ p[3] \in 0 .. requests
  BY GrowthHere DEF IInv, DiskFits
<1>2. \A n \in 0 .. requests : n \in 0 .. requests'
  BY Constants DEF Grows, IInv, WorldFits
<1>3. disk' = disk => DiskFits'
  BY <1>1, <1>2 DEF DiskFits
<1>4. \A S : disk' = Without(S) => DiskFits'
  BY <1>1, <1>2 DEF DiskFits, Without
<1>5. \A p \in Path, f \in Film :
        p[3] \in 0 .. requests /\ disk' = With(p, f) => DiskFits'
  BY <1>1, <1>2 DEF DiskFits, With
<1>6. ASSUME NEW S \in SUBSET DOMAIN disk, disk' = Moved(S)
      PROVE  DiskFits'
  <2>1. DOMAIN disk' = (DOMAIN disk \ S) \cup {Dest(p) : p \in S}
    BY <1>6 DEF Moved
  <2>2. ASSUME NEW p \in S  PROVE Dest(p) \in Path /\ Dest(p)[3] = p[3]
    BY <1>1 DEF Dest, Path, Dir
  <2>3. ASSUME NEW q \in DOMAIN disk'  PROVE disk'[q] \in Film
    <3>1. CASE \E p \in S : Dest(p) = q
      <4>1. disk'[q] = disk[CHOOSE p \in S : Dest(p) = q]
        BY <1>6, <2>1, <3>1 DEF Moved
      <4>2. (CHOOSE p \in S : Dest(p) = q) \in S
        BY <3>1
      <4> QED  BY <4>1, <4>2, <1>1
    <3>2. CASE ~ \E p \in S : Dest(p) = q
      <4>1. q \in DOMAIN disk /\ disk'[q] = disk[q]
        BY <1>6, <2>1, <3>2 DEF Moved
      <4> QED  BY <4>1, <1>1
    <3> QED  BY <3>1, <3>2
  <2>4. DOMAIN disk' \subseteq Path /\ \A q \in DOMAIN disk' : q[3] \in 0 .. requests'
    BY <2>1, <2>2, <1>1, <1>2
  <2> QED  BY <2>3, <2>4, <1>1 DEF DiskFits
<1> QED  BY <1>3, <1>4, <1>5, <1>6

-----------------------------------------------------------------------------
(* Requests arrive.                                                          *)

(* The first task of a request, which has read the entries it will go to.    *)
Fresh(d) ==
  /\ IsTask(d) /\ d.kind \in Kind /\ d.serial = requests + 1 /\ d.outdated = {} /\ d.left = {}
  /\ d.todo \subseteq Entries /\ d.view = [m \in d.todo |-> entry[m]]
  /\ d.phase \in {"write", "put", "encode", "get", "remove", "unlink"} => d.at \in d.todo
  /\ {d.file, d.out} \subseteq Path \cup {NoPath}
  /\ d.kind = "job" => d.file \in Path /\ d.out \in Path /\ d.out[3] = 0 /\ d.todo = {d.at}
  /\ d.kind = "upload" => d.phase # "put"
  /\ DOMAIN d.found \subseteq DOMAIN disk
  /\ \A p \in DOMAIN d.found : d.found[p] = disk[p]
  /\ d.kind = "scan" => d.todo = {}

LEMMA AskKeeps ==
  ASSUME IInv, NEW t \in Slot, NEW d, Ask(t, d), Fresh(d),
         UNCHANGED <<settings, entry, disk, fetch, next_id, faults, misled, removed, played>>,
         deleted' \subseteq Film
  PROVE  IInv'
<1> DEFINE S == d.todo
<1>0. /\ IsTask(d) /\ d.kind \in Kind /\ d.serial = requests + 1 /\ d.outdated = {} /\ d.left = {}
      /\ S \subseteq Entries /\ d.view = [m \in S |-> entry[m]]
      /\ d.phase \in {"write", "put", "encode", "get", "remove", "unlink"} => d.at \in S
      /\ {d.file, d.out} \subseteq Path \cup {NoPath}
      /\ d.kind = "job" =>
           d.file \in Path /\ d.out \in Path /\ d.out[3] = 0 /\ S = {d.at}
      /\ d.kind = "upload" => d.phase # "put"
      /\ DOMAIN d.found \subseteq DOMAIN disk
      /\ \A p \in DOMAIN d.found : d.found[p] = disk[p]
      /\ d.kind = "scan" => S = {}
  BY DEF Fresh
<1>1. /\ requests < MaxRequests /\ requests' = requests + 1
      /\ task' = [task EXCEPT ![t] = d]
  BY DEF Ask, Counted
<1>2. requests \in Nat /\ next_id \in Nat /\ requests' \in 0 .. MaxRequests
  BY <1>1, Constants DEF IInv, WorldFits
<1>3. Grows
  BY <1>1, <1>2 DEF Grows, settings
<1>v. DOMAIN d.view = S /\ \A m \in S : d.view[m] = entry[m]
  BY <1>0
<1>4. UpToDate(d)
  BY <1>0, <1>v DEF UpToDate, Same, Entries
<1>5. (TaskFits(d))'
  <2>0. /\ Path' = Path /\ Given' = Given
        /\ \A e : Fits(e) => (Fits(e))'
    BY <1>3, GrowthHere DEF Given
  <2>1. \A m \in S : m \in Given /\ Fits(entry[m])
    BY <1>0 DEF IInv, EntriesFit
  <2>2. d.serial \in 1 .. requests'
    BY <1>0, <1>1, <1>2
  <2>3. (Knows(d))'
    <3>2. \A m \in DOMAIN d.view : m \in Given' /\ (Fits(d.view[m]))'
      BY <1>v, <2>0, <2>1
    <3> QED  BY <1>0, <1>v, <3>2 DEF Knows
  <2>4. (HasItsPaths(d))'
    <3>1. ASSUME NEW m \in S  PROVE Cardinality(d.view[m].subtitles) < d.serial
      <4>1. d.view[m] = entry[m]
        BY <1>v
      <4>2. /\ Cardinality(entry[m].subtitles) <= requests
            /\ Cardinality(entry[m].subtitles) \in Nat
        BY <2>1, FS_CardinalityType DEF Fits
      <4> QED  BY <4>1, <4>2, <1>0, <1>2
    <3> QED  BY <3>1, <2>0, <1>0, <1>v DEF HasItsPaths
  <2>5. (HasFound(d))'
    BY <2>0, <1>0 DEF HasFound, IInv, DiskFits
  <2>6. d.outdated \cup d.left \subseteq Id
    BY <1>0
  <2> QED  BY <1>0, <2>2, <2>3, <2>4, <2>5, <2>6 DEF TaskFits, IsTask
<1>6. Books'
  BY <1>1, <1>3, <1>4, <1>5, PrivateKeeps
<1>7. DiskFits'
  BY <1>3, DiskStaysFit
<1>8. WorldFits'
  BY <1>2 DEF IInv, WorldFits, settings, Given
<1> QED  BY <1>6, <1>7, <1>8 DEF IInv, Books

(* The fields of the first task of a request.                                *)
LEMMA DoingIsTask ==
  ASSUME NEW kind, NEW phase, NEW S
  PROVE  LET r == Doing(kind, phase, S)
         IN  /\ IsTask(r) /\ r.kind = kind /\ r.phase = phase /\ r.todo = S
             /\ r.view = [m \in S |-> entry[m]] /\ r.serial = requests + 1
             /\ r.outdated = {} /\ r.left = {} /\ r.file = NoPath /\ r.out = NoPath
             /\ DOMAIN r.found = {}
BY DEF Doing, IsTask

LEMMA OutPathIsPath ==
  ASSUME IInv, NEW f \in Film
  PROVE  OutPath(f) \in Path /\ OutPath(f)[3] = 0
BY Constants DEF OutPath, Path, Dir, IInv, WorldFits

(* A request starts with nothing in hand.                                    *)
IsMoving(d) == d.kind = "migrate" /\ d.phase = "put"
IsRemoving(d) == d.kind \in {"delete", "torrent"} /\ d.phase = "remove"
IsUnlinking(d) == d.kind = "cleanup" /\ d.phase = "unlink"
HasWritten(d) == d.kind = "job" /\ d.phase \in {"get", "put"}
Starts(d) ==
  /\ ~ HasWritten(d) /\ ~ IsUnlinking(d) /\ ~ IsMoving(d) /\ ~ IsRemoving(d)
  /\ d.kind = "scan" => d.phase # "put"
  /\ d.kind = "migrate" => d.phase = "turn" /\ d.todo = Entries
  /\ \A p \in DOMAIN d.found : p[3] = 0
  /\ d.kind \in {"delete", "torrent"} => \A m \in d.todo : entry[m].film \in deleted'
Asks(t, d) ==
  /\ Ask(t, d) /\ Fresh(d) /\ Starts(d)
  /\ UNCHANGED <<settings, entry, disk, fetch, next_id, faults, misled, removed, played>>
  /\ deleted' \subseteq Film /\ deleted \subseteq deleted'

LEMMA Asked ==
  ASSUME IInv, NEW t \in Slot, Request(t)
  PROVE  \E d : Asks(t, d)
<1>a. deleted \subseteq Film /\ \A m \in Entries : entry[m].film \in Film
  BY DEF IInv, WorldFits, EntriesFit, Fits, Sound, Entry
<1> USE DEF history
<1>1. ASSUME NEW m \in Id, AskProgress(t, m)
      PROVE  \E x : Asks(t, x)
  <2> DEFINE r == Doing("progress", "put", {m})
             d == [r EXCEPT !.at = m]
  <2>1. /\ Present(m) /\ Ask(t, d) /\ deleted' \subseteq Film /\ deleted \subseteq deleted'
        /\ UNCHANGED <<settings, entry, disk, fetch, next_id, faults, misled, removed, played>>
    BY <1>1, <1>a DEF AskProgress, Entries
  <2>3. /\ IsTask(r) /\ r.kind = "progress" /\ r.phase = "put" /\ r.todo = {m}
        /\ r.view = [k \in {m} |-> entry[k]] /\ r.serial = requests + 1
        /\ r.outdated = {} /\ r.left = {} /\ r.file = NoPath /\ r.out = NoPath /\ DOMAIN r.found = {}
    BY DoingIsTask
  <2> HIDE DEF r
  <2>4. /\ IsTask(d) /\ d.kind = r.kind /\ d.phase = r.phase /\ d.todo = r.todo
        /\ d.view = r.view /\ d.serial = r.serial /\ d.outdated = r.outdated /\ d.left = r.left
        /\ d.file = r.file /\ d.out = r.out /\ d.found = r.found /\ d.at = m
    BY <2>3 DEF IsTask
  <2> HIDE DEF d
  <2>2. Fresh(d)
    BY <2>1, <2>3, <2>4 DEF Fresh, Kind, Entries
  <2>s. Starts(d)
    BY <2>3, <2>4 DEF Starts, HasWritten, IsUnlinking, IsMoving, IsRemoving
  <2> QED  BY <2>1, <2>2, <2>s DEF Asks
<1>2. ASSUME NEW m \in Id, AskUpload(t, m)
      PROVE  \E x : Asks(t, x)
  <2> DEFINE r == Doing("upload", "write", {m})
             d == [r EXCEPT !.at = m]
  <2>1. /\ Present(m) /\ Ask(t, d) /\ deleted' \subseteq Film /\ deleted \subseteq deleted'
        /\ UNCHANGED <<settings, entry, disk, fetch, next_id, faults, misled, removed, played>>
    BY <1>2, <1>a DEF AskUpload, Entries
  <2>3. /\ IsTask(r) /\ r.kind = "upload" /\ r.phase = "write" /\ r.todo = {m}
        /\ r.view = [k \in {m} |-> entry[k]] /\ r.serial = requests + 1
        /\ r.outdated = {} /\ r.left = {} /\ r.file = NoPath /\ r.out = NoPath /\ DOMAIN r.found = {}
    BY DoingIsTask
  <2> HIDE DEF r
  <2>4. /\ IsTask(d) /\ d.kind = r.kind /\ d.phase = r.phase /\ d.todo = r.todo
        /\ d.view = r.view /\ d.serial = r.serial /\ d.outdated = r.outdated /\ d.left = r.left
        /\ d.file = r.file /\ d.out = r.out /\ d.found = r.found /\ d.at = m
    BY <2>3 DEF IsTask
  <2> HIDE DEF d
  <2>2. Fresh(d)
    BY <2>1, <2>3, <2>4 DEF Fresh, Kind, Entries
  <2>s. Starts(d)
    BY <2>3, <2>4 DEF Starts, HasWritten, IsUnlinking, IsMoving, IsRemoving
  <2> QED  BY <2>1, <2>2, <2>s DEF Asks
<1>3. ASSUME NEW m \in Id, AskJob(t, m)
      PROVE  \E x : Asks(t, x)
  <2> DEFINE file == entry[m].media_file
             out == OutPath(entry[m].film)
             r == Doing("job", "encode", {m})
             d == [r EXCEPT !.at = m, !.file = file, !.out = out]
  <2>1. /\ Present(m) /\ Ask(t, d) /\ deleted' \subseteq Film /\ deleted \subseteq deleted'
        /\ UNCHANGED <<settings, entry, disk, fetch, next_id, faults, misled, removed, played>>
    BY <1>3, <1>a DEF AskJob, Entries
  <2>5. file \in Path
    BY <2>1 DEF IInv, EntriesFit, Entries, Fits, Sound, Entry
  <2>6. out \in Path /\ out[3] = 0
    BY <2>1, <1>a, OutPathIsPath DEF Entries
  <2> HIDE DEF file, out
  <2>3. /\ IsTask(r) /\ r.kind = "job" /\ r.phase = "encode" /\ r.todo = {m}
        /\ r.view = [k \in {m} |-> entry[k]] /\ r.serial = requests + 1
        /\ r.outdated = {} /\ r.left = {} /\ r.file = NoPath /\ r.out = NoPath /\ DOMAIN r.found = {}
    BY DoingIsTask
  <2> HIDE DEF r
  <2>4. /\ IsTask(d) /\ d.kind = r.kind /\ d.phase = r.phase /\ d.todo = r.todo
        /\ d.view = r.view /\ d.serial = r.serial /\ d.outdated = r.outdated /\ d.left = r.left
        /\ d.file = file /\ d.out = out /\ d.found = r.found /\ d.at = m
    <3> DEFINE a == [r EXCEPT !.at = m]
               b == [a EXCEPT !.file = file]
               c == [b EXCEPT !.out = out]
    <3>1. d = c
      OBVIOUS
    <3> HIDE DEF d
    <3>2. /\ IsTask(a) /\ a.at = m
          /\ a.kind = r.kind /\ a.phase = r.phase /\ a.view = r.view
          /\ a.todo = r.todo /\ a.file = r.file /\ a.out = r.out
          /\ a.found = r.found /\ a.serial = r.serial /\ a.outdated = r.outdated /\ a.left = r.left
      BY <2>3 DEF IsTask
    <3> HIDE DEF a
    <3>3. /\ IsTask(b) /\ b.file = file
          /\ b.kind = a.kind /\ b.phase = a.phase /\ b.view = a.view
          /\ b.todo = a.todo /\ b.at = a.at /\ b.out = a.out
          /\ b.found = a.found /\ b.serial = a.serial /\ b.outdated = a.outdated /\ b.left = a.left
      BY <3>2 DEF IsTask
    <3> HIDE DEF b
    <3>4. /\ IsTask(c) /\ c.out = out
          /\ c.kind = b.kind /\ c.phase = b.phase /\ c.view = b.view
          /\ c.todo = b.todo /\ c.at = b.at /\ c.file = b.file
          /\ c.found = b.found /\ c.serial = b.serial /\ c.outdated = b.outdated /\ c.left = b.left
      BY <3>3 DEF IsTask
    <3> HIDE DEF c
    <3> QED  BY <3>1, <3>2, <3>3, <3>4
  <2> HIDE DEF d
  <2>2. Fresh(d)
    BY <2>1, <2>3, <2>4, <2>5, <2>6 DEF Fresh, Kind, Entries
  <2>s. Starts(d)
    BY <2>3, <2>4 DEF Starts, HasWritten, IsUnlinking, IsMoving, IsRemoving
  <2> QED  BY <2>1, <2>2, <2>s DEF Asks
<1>4. ASSUME NEW m \in Id, AskForget(t, m)
      PROVE  \E x : Asks(t, x)
  <2> DEFINE r == Doing("forget", "remove", {m})
             d == [r EXCEPT !.at = m]
  <2>1. /\ Present(m) /\ Ask(t, d) /\ deleted' \subseteq Film /\ deleted \subseteq deleted'
        /\ UNCHANGED <<settings, entry, disk, fetch, next_id, faults, misled, removed, played>>
    BY <1>4, <1>a DEF AskForget, Entries
  <2>3. /\ IsTask(r) /\ r.kind = "forget" /\ r.phase = "remove" /\ r.todo = {m}
        /\ r.view = [k \in {m} |-> entry[k]] /\ r.serial = requests + 1
        /\ r.outdated = {} /\ r.left = {} /\ r.file = NoPath /\ r.out = NoPath /\ DOMAIN r.found = {}
    BY DoingIsTask
  <2> HIDE DEF r
  <2>4. /\ IsTask(d) /\ d.kind = r.kind /\ d.phase = r.phase /\ d.todo = r.todo
        /\ d.view = r.view /\ d.serial = r.serial /\ d.outdated = r.outdated /\ d.left = r.left
        /\ d.file = r.file /\ d.out = r.out /\ d.found = r.found /\ d.at = m
    BY <2>3 DEF IsTask
  <2> HIDE DEF d
  <2>2. Fresh(d)
    BY <2>1, <2>3, <2>4 DEF Fresh, Kind, Entries
  <2>s. Starts(d)
    BY <2>3, <2>4 DEF Starts, HasWritten, IsUnlinking, IsMoving, IsRemoving
  <2> QED  BY <2>1, <2>2, <2>s DEF Asks
<1>5. ASSUME NEW m \in Id, AskDelete(t, m)
      PROVE  \E x : Asks(t, x)
  <2> DEFINE d == Doing("delete", "turn", {m})
  <2>1. /\ Present(m) /\ Ask(t, d) /\ deleted' \subseteq Film /\ deleted \subseteq deleted'
        /\ UNCHANGED <<settings, entry, disk, fetch, next_id, faults, misled, removed, played>>
    BY <1>5, <1>a DEF AskDelete, Entries
  <2>2. Fresh(d)
    BY <2>1 DEF Fresh, Doing, IsTask, Kind, Entries
  <2>s. Starts(d)
    BY <1>5, <2>1 DEF Doing, AskDelete, Starts, HasWritten, IsUnlinking, IsMoving, IsRemoving
  <2> HIDE DEF d
  <2> QED  BY <2>1, <2>2, <2>s DEF Asks
<1>6. CASE AskDeleteTorrent(t)
  <2> DEFINE its == {m \in Entries : entry[m].download}
             phase == IF its = {} THEN "payload" ELSE "turn"
             d == Doing("torrent", phase, its)
  <2>1. /\ its \subseteq Entries /\ Ask(t, d) /\ deleted' \subseteq Film /\ deleted \subseteq deleted'
        /\ UNCHANGED <<settings, entry, disk, fetch, next_id, faults, misled, removed, played>>
    BY <1>6, <1>a DEF AskDeleteTorrent
  <2>3. phase \in {"payload", "turn"}
    OBVIOUS
  <2>d. \A m \in its : entry[m].film \in deleted'
    BY <1>6 DEF AskDeleteTorrent
  <2> HIDE DEF its, phase
  <2>2. Fresh(d)
    BY <2>1, <2>3 DEF Fresh, Doing, IsTask, Kind
  <2>s. Starts(d)
    BY <2>3, <2>d DEF Doing, Starts, HasWritten, IsUnlinking, IsMoving, IsRemoving
  <2> HIDE DEF d
  <2> QED  BY <2>1, <2>2, <2>s DEF Asks
<1>7. ASSUME NEW kind \in {"fix", "cleanup", "migrate"}, AskAll(t, kind)
      PROVE  \E x : Asks(t, x)
  <2> DEFINE d == Doing(kind, "turn", Entries)
  <2>1. /\ Ask(t, d) /\ deleted' \subseteq Film /\ deleted \subseteq deleted'
        /\ UNCHANGED <<settings, entry, disk, fetch, next_id, faults, misled, removed, played>>
    BY <1>7, <1>a DEF AskAll
  <2>2. Fresh(d)
    BY DEF Fresh, Doing, IsTask, Kind
  <2>s. Starts(d)
    BY <2>1 DEF Doing, Starts, HasWritten, IsUnlinking, IsMoving, IsRemoving
  <2> HIDE DEF d
  <2> QED  BY <2>1, <2>2, <2>s DEF Asks
<1>8. ASSUME NEW dir, NEW download \in BOOLEAN, AskScan(t, dir, download)
      PROVE  \E x : Asks(t, x)
  <2> DEFINE found == [p \in Videos(dir) |-> disk[p]]
             r == Doing("scan", "list", {})
             d == [r EXCEPT !.found = found, !.at = IF download THEN 1 ELSE 0]
  <2>1. /\ Ask(t, d) /\ deleted' \subseteq Film /\ deleted \subseteq deleted'
        /\ UNCHANGED <<settings, entry, disk, fetch, next_id, faults, misled, removed, played>>
    BY <1>8, <1>a DEF AskScan
  <2>5. /\ DOMAIN found \subseteq DOMAIN disk
        /\ \A p \in DOMAIN found : found[p] = disk[p] /\ p[3] = 0
    BY DEF Videos
  <2> HIDE DEF found
  <2>3. /\ IsTask(r) /\ r.kind = "scan" /\ r.phase = "list" /\ r.todo = {}
        /\ r.view = [k \in {} |-> entry[k]] /\ r.serial = requests + 1
        /\ r.outdated = {} /\ r.left = {} /\ r.file = NoPath /\ r.out = NoPath /\ DOMAIN r.found = {}
    BY DoingIsTask
  <2> HIDE DEF r
  <2>4. /\ IsTask(d) /\ d.kind = r.kind /\ d.phase = r.phase /\ d.todo = r.todo
        /\ d.view = r.view /\ d.serial = r.serial /\ d.outdated = r.outdated /\ d.left = r.left
        /\ d.file = r.file /\ d.out = r.out /\ d.found = found
    <3> DEFINE a == [r EXCEPT !.found = found]
               b == [a EXCEPT !.at = IF download THEN 1 ELSE 0]
    <3>1. d = b
      OBVIOUS
    <3> HIDE DEF d
    <3>2. /\ IsTask(a) /\ a.found = found
          /\ a.kind = r.kind /\ a.phase = r.phase /\ a.view = r.view
          /\ a.todo = r.todo /\ a.at = r.at /\ a.file = r.file
          /\ a.out = r.out /\ a.serial = r.serial /\ a.outdated = r.outdated /\ a.left = r.left
      BY <2>3 DEF IsTask
    <3> HIDE DEF a
    <3>3. /\ IsTask(b) /\ b.at = IF download THEN 1 ELSE 0
          /\ b.kind = a.kind /\ b.phase = a.phase /\ b.view = a.view
          /\ b.todo = a.todo /\ b.file = a.file /\ b.out = a.out
          /\ b.found = a.found /\ b.serial = a.serial /\ b.outdated = a.outdated /\ b.left = a.left
      BY <3>2 DEF IsTask
    <3> HIDE DEF b
    <3> QED  BY <3>1, <3>2, <3>3
  <2> HIDE DEF d
  <2>2. Fresh(d)
    BY <2>3, <2>4, <2>5 DEF Fresh, Kind
  <2>s. Starts(d)
    BY <2>3, <2>4, <2>5 DEF Starts, HasWritten, IsUnlinking, IsMoving, IsRemoving
  <2> QED  BY <2>1, <2>2, <2>s DEF Asks
<1> QED  BY <1>1, <1>2, <1>3, <1>4, <1>5, <1>6, <1>7, <1>8 DEF Request

LEMMA AsksKeep ==
  ASSUME IInv, NEW t \in Slot, Request(t)
  PROVE  IInv'
<1>1. PICK d : Asks(t, d)
  BY Asked
<1> QED  BY <1>1, AskKeeps DEF Asks

-----------------------------------------------------------------------------
(* What tasks know of the entry they are at.                                 *)
LEMMA TaskHere ==
  ASSUME IInv, NEW t \in Slot, Active(t)
  PROVE  TaskFits(task[t]) /\ UpToDate(task[t])
BY DEF IInv, TasksFit

LEMMA ViewHere ==
  ASSUME IInv, NEW t \in Slot, Active(t), NEW m \in DOMAIN task[t].view
  PROVE  /\ m \in Given /\ m \in Id /\ Fits(task[t].view[m])
         /\ task[t].view[m].film \in Film
         /\ m \notin task[t].outdated => Same(task[t].view[m], m)
         /\ Stale(t, m) \subseteq Film
         /\ \A S : Hurt(t, m, S) \subseteq Film
<1>1. TaskFits(task[t]) /\ UpToDate(task[t])
  BY TaskHere
<1>2. m \in Given /\ m \in Id /\ Fits(task[t].view[m])
  BY <1>1 DEF TaskFits, Knows, Given
<1>3. task[t].view[m].film \in Film
  BY <1>2 DEF Fits, Sound, Entry
<1>4. m \notin task[t].outdated => Same(task[t].view[m], m)
  BY <1>1 DEF UpToDate
<1>5. \A p \in DOMAIN disk : disk[p] \in Film
  BY DEF IInv, DiskFits
<1> QED  BY <1>2, <1>3, <1>4, <1>5 DEF Stale, Hurt

LEMMA AtHere ==
  ASSUME IInv, NEW t \in Slot, NEW kind, NEW phase, Is(t, kind, phase),
         kind # "scan", phase # "rest"
  PROVE  /\ Active(t) /\ task[t].kind = kind /\ task[t].phase = phase
         /\ task[t].todo \subseteq DOMAIN task[t].view
         /\ phase \in {"write", "put", "encode", "get", "remove", "unlink"}
              => task[t].at \in DOMAIN task[t].view
<1>1. Active(t) /\ task[t].kind = kind /\ task[t].phase = phase
  BY DEF Is
<1>2. Knows(task[t])
  BY <1>1, TaskHere DEF TaskFits
<1> QED  BY <1>1, <1>2 DEF Knows

(* A task that is done with an entry forgets what it has read of it.         *)
LEMMA DoneWithFits ==
  ASSUME IInv, NEW t \in Slot, Active(t), task[t].kind \notin {"scan", "job", "upload"},
         task[t].todo \subseteq DOMAIN task[t].view, NEW m
  PROVE  \/ DoneWith(t, m) = Idle
         \/ /\ TaskFits(DoneWith(t, m)) /\ UpToDate(DoneWith(t, m))
            /\ m \notin DOMAIN DoneWith(t, m).view
<1> DEFINE left == task[t].todo \ {m}
           d == DoneWith(t, m)
<1>1. TaskFits(task[t]) /\ UpToDate(task[t])
  BY TaskHere
<1> SUFFICES ASSUME left # {}
             PROVE  TaskFits(d) /\ UpToDate(d) /\ m \notin DOMAIN d.view
  BY DEF DoneWith
<1>2. /\ IsTask(d) /\ d.kind = task[t].kind /\ d.phase = "turn" /\ d.todo = left
      /\ d.view = [k \in left |-> task[t].view[k]] /\ d.file = NoPath
      /\ d.out = task[t].out /\ d.found = task[t].found
      /\ d.serial = task[t].serial /\ d.outdated = task[t].outdated /\ d.left = task[t].left
  BY <1>1 DEF DoneWith, TaskFits, IsTask
<1>3. DOMAIN d.view = left /\ \A k \in left : d.view[k] = task[t].view[k]
  BY <1>2
<1>4. Knows(d)
  BY <1>1, <1>2, <1>3 DEF TaskFits, Knows
<1> HIDE DEF d, left
<1>5. HasItsPaths(d)
  BY <1>1, <1>2 DEF TaskFits, HasItsPaths
<1>6. HasFound(d)
  BY <1>1, <1>2 DEF TaskFits, HasFound
<1>7. UpToDate(d)
  BY <1>1, <1>2, <1>3 DEF UpToDate, left
<1> QED  BY <1>1, <1>2, <1>3, <1>4, <1>5, <1>6, <1>7 DEF TaskFits, left

-----------------------------------------------------------------------------
(* Steps that leave requests and ids as they are.                            *)
LEMMA Still ==
  ASSUME IInv, UNCHANGED <<layout, requests, next_id>>
  PROVE  /\ Grows /\ Path' = Path /\ Given' = Given
         /\ \A d : TaskFits(d) => (TaskFits(d))'
         /\ \A q : FetchFits(q) => (FetchFits(q))'
<1>1. requests \in Nat /\ next_id \in Nat
  BY Constants DEF IInv, WorldFits
<1>2. Grows
  BY <1>1 DEF Grows
<1> QED  BY <1>2, GrowthHere DEF Given

(* What a task writes of film and play position is what it has read, or that *)
(* the film was played: unless it was told, that undoes nothing.             *)
LEMMA WritesWhatItRead ==
  ASSUME IInv, NEW t \in Slot, Active(t), NEW m \in DOMAIN task[t].view, NEW e,
         e.film = task[t].view[m].film, e.film \notin misled',
         misled \cup Stale(t, m) \subseteq misled', removed' = removed,
         \/ e.played = task[t].view[m].played /\ played' = played
         \/ e.played = TRUE /\ played' \subseteq played \cup {m}
  PROVE  m \notin removed' /\ (m \in played' => e.played)
<1>1. m \notin task[t].outdated
  BY DEF Stale
<1>2. Same(task[t].view[m], m) /\ m \in Id
  BY <1>1, ViewHere
<1>3. m \in Entries /\ entry[m].film \notin misled
  BY <1>2 DEF Same, Entries
<1>4. m \notin removed /\ (m \in played => entry[m].played)
  BY <1>3 DEF IInv, NothingIsUndone
<1>5. CASE e.played = TRUE
  BY <1>4, <1>5
<1>6. CASE e.played = task[t].view[m].played /\ played' = played
  <2>1. e.played = entry[m].played
    BY <1>2, <1>6 DEF Same
  <2> QED  BY <1>4, <1>6, <2>1
<1> QED  BY <1>5, <1>6

(* put_media by a task that has read m, of an entry that agrees with what it *)
(* has read.                                                                 *)
LEMMA PutOwn ==
  ASSUME IInv, UNCHANGED <<layout, requests, next_id>>,
         NEW t \in Slot, Active(t), NEW m \in DOMAIN task[t].view, NEW e, NEW d,
         Put(t, m, e, d), Fits(e), e.film = task[t].view[m].film,
         \/ e.played = task[t].view[m].played /\ played' = played
         \/ e.played = TRUE /\ played' \subseteq played \cup {m},
         \/ d = Idle
         \/ TaskFits(d) /\ UpToDate(d) /\ m \notin DOMAIN d.view
         \/ /\ TaskFits(d) /\ UpToDate(d) /\ e.played = task[t].view[m].played
            /\ d.view = task[t].view,
         misled \cup Stale(t, m) \subseteq misled', removed' = removed
  PROVE  Books'
<1>1. m \in Given /\ m \in Id
  BY ViewHere
<1>2. Grows
  BY Still
<1>3. e.film \notin misled' => m \notin removed' /\ (m \in played' => e.played)
  BY WritesWhatItRead
<1>4. e # NoEntry
  BY EntryIsSomething DEF Fits
<1>5. \/ d = Idle
      \/ /\ TaskFits(d)
         /\ \A k \in DOMAIN d.view \ d.outdated :
              IF k = m THEN /\ e # NoEntry /\ d.view[k].film = e.film
                            /\ d.view[k].played = e.played
              ELSE Same(d.view[k], k)
  BY <1>4 DEF UpToDate
<1>6. misled \subseteq misled' /\ removed' \subseteq removed \cup {m}
      /\ played' \subseteq played \cup {m}
  OBVIOUS
<1> QED  BY <1>1, <1>2, <1>3, <1>4, <1>5, <1>6, PutKeeps

(* The rest of the invariant.                                                *)
LEMMA WorldStaysFit ==
  ASSUME IInv, UNCHANGED <<layout, requests, next_id>>,
         record' \in BOOLEAN, transcode_dir' \in {OutDir, NewDir},
         faults' \in 0 .. MaxFaults, misled' \cup deleted' \subseteq Film,
         removed' \cup played' \subseteq Given
  PROVE  WorldFits'
BY DEF IInv, WorldFits, Given

LEMMA PutProgressStep ==
  ASSUME IInv, NEW t \in Slot, PutProgress(t)
  PROVE  IInv'
<1> DEFINE m == task[t].at
           e == [View(t) EXCEPT !.played = TRUE]
<1>1. Active(t) /\ m \in DOMAIN task[t].view
  BY AtHere DEF PutProgress
<1>2. /\ Put(t, m, e, Idle) /\ misled' = misled \cup Stale(t, m)
      /\ played' = played \cup {m}
      /\ UNCHANGED <<settings, disk, next_id, requests, faults, removed, deleted>>
  BY DEF PutProgress
<1>3. Fits(View(t)) /\ m \in Given /\ Stale(t, m) \subseteq Film
  BY <1>1, ViewHere DEF View
<1>4. Fits(e) /\ e.film = task[t].view[m].film /\ e.played = TRUE
  BY <1>3 DEF Fits, Sound, Entry, View
<1> HIDE DEF e, m
<1>5. Books'
  BY <1>1, <1>2, <1>4, PutOwn DEF settings
<1>6. WorldFits'
  BY <1>2, <1>3, WorldStaysFit DEF IInv, WorldFits, settings
<1>7. DiskFits'
  BY <1>2, Still, DiskStaysFit DEF settings
<1> QED  BY <1>5, <1>6, <1>7 DEF IInv, Books

LEMMA WriteSubtitleStep ==
  ASSUME IInv, NEW t \in Slot, WriteSubtitle(t)
  PROVE  IInv'
<1> DEFINE m == task[t].at
           v == task[t].view[m]
<1>1. /\ Active(t) /\ task[t].kind = "upload" /\ task[t].phase = "write"
      /\ m \in DOMAIN task[t].view /\ task[t].todo \subseteq DOMAIN task[t].view
  BY AtHere DEF WriteSubtitle
<1>2. PICK beside \in IF v.versions # {} THEN v.versions ELSE {v.media_file} :
        LET sub == <<beside[1], beside[2], Cardinality(v.subtitles) + 1>>
        IN  /\ disk' = With(sub, v.film)
            /\ task' = [task EXCEPT ![t].phase = "put", ![t].file = sub]
  BY DEF WriteSubtitle, View
<1>3. UNCHANGED <<settings, entry, fetch, next_id, requests, faults, history>>
  BY DEF WriteSubtitle
<1> DEFINE sub == <<beside[1], beside[2], Cardinality(v.subtitles) + 1>>
<1>4. TaskFits(task[t]) /\ UpToDate(task[t]) /\ Fits(v) /\ v.film \in Film
  BY <1>1, TaskHere, ViewHere
<1>5. /\ beside \in Path
      /\ Cardinality(v.subtitles) < task[t].serial /\ task[t].serial \in 1 .. requests
      /\ Cardinality(v.subtitles) \in Nat
  BY <1>1, <1>4, FS_CardinalityType DEF TaskFits, HasItsPaths, Fits, Sound, Entry
<1>6. requests \in 0 .. MaxRequests
  BY DEF IInv, WorldFits
<1>7. IsSubtitle(sub) /\ sub \in Path /\ sub[3] \in 0 .. requests
  <2>1. PICK n : n = Cardinality(v.subtitles) + 1
    OBVIOUS
  <2>2. n \in 1 .. requests /\ n \in 0 .. requests /\ n \in 0 .. MaxRequests
    <3> HIDE DEF m, v
    <3> QED  BY <1>5, <1>6, <2>1, Constants
  <2>3. sub = <<beside[1], beside[2], n>>
    BY <2>1
  <2> HIDE DEF sub, m, v
  <2>4. sub \in Path /\ sub[3] = n
    BY <1>5, <2>2, <2>3 DEF Path
  <2> QED  BY <2>2, <2>4 DEF IsSubtitle
<1>s. PICK x : x = sub
  OBVIOUS
<1>d. PICK d : d = [task[t] EXCEPT !.phase = "put", !.file = x]
  OBVIOUS
<1>8. disk' = With(x, v.film) /\ task' = [task EXCEPT ![t] = d]
  BY <1>2, <1>s, <1>d DEF IInv, Domains
<1> HIDE DEF sub, m, v
<1>9. /\ IsTask(d) /\ d.kind = task[t].kind /\ d.phase = "put" /\ d.todo = task[t].todo
      /\ d.view = task[t].view /\ d.file = x /\ d.at = task[t].at
      /\ d.out = task[t].out /\ d.found = task[t].found
      /\ d.serial = task[t].serial /\ d.outdated = task[t].outdated /\ d.left = task[t].left
  BY <1>4, <1>d DEF TaskFits, IsTask
<1>10. TaskFits(d) /\ UpToDate(d)
  <2>1. Knows(d)
    BY <1>1, <1>4, <1>9 DEF TaskFits, Knows, m
  <2>2. HasItsPaths(d)
    BY <1>1, <1>4, <1>7, <1>9, <1>s DEF TaskFits, HasItsPaths
  <2>3. HasFound(d)
    BY <1>4, <1>9 DEF TaskFits, HasFound
  <2> QED  BY <2>1, <2>2, <2>3, <1>4, <1>9 DEF TaskFits, UpToDate
<1>11. /\ UNCHANGED <<layout, requests, next_id, entry, fetch, removed, played>>
       /\ misled \subseteq misled'
  BY <1>3 DEF settings, history
<1>12. Grows /\ (TaskFits(d))'
  BY <1>10, <1>11, Still
<1>13. Books'
  BY <1>8, <1>10, <1>11, <1>12, PrivateKeeps
<1>14. WorldFits'
  BY <1>3, WorldStaysFit DEF IInv, WorldFits, settings, history
<1>15. DiskFits'
  BY <1>4, <1>7, <1>8, <1>12, <1>s, DiskStaysFit
<1> QED  BY <1>13, <1>14, <1>15 DEF IInv, Books

LEMMA PutSubtitleStep ==
  ASSUME IInv, NEW t \in Slot, PutSubtitle(t)
  PROVE  IInv'
<1> DEFINE m == task[t].at
           v == task[t].view[m]
           e == [View(t) EXCEPT !.subtitles = @ \cup {task[t].file}]
<1>1. /\ Active(t) /\ task[t].kind = "upload" /\ task[t].phase = "put"
      /\ m \in DOMAIN task[t].view
  BY AtHere DEF PutSubtitle
<1>2. /\ Put(t, m, e, Idle) /\ misled' = misled \cup Stale(t, m)
      /\ UNCHANGED <<settings, disk, next_id, requests, faults, removed, played, deleted>>
  BY DEF PutSubtitle
<1>3. Fits(v) /\ m \in Given /\ Stale(t, m) \subseteq Film /\ TaskFits(task[t])
  BY <1>1, ViewHere, TaskHere
<1>4. /\ Cardinality(v.subtitles) < task[t].serial /\ task[t].serial \in 1 .. requests
      /\ IsSubtitle(task[t].file)
      /\ IsFiniteSet(v.subtitles)
  BY <1>1, <1>3 DEF TaskFits, HasItsPaths, Fits
<1>5. /\ e \in Entry /\ e.film = v.film /\ e.played = v.played /\ e.group = v.group
      /\ e.versions = v.versions /\ e.subtitles = v.subtitles \cup {task[t].file}
  BY <1>3, <1>4 DEF Fits, Sound, Entry, View, IsSubtitle
<1> HIDE DEF e, m, v
<1>6. /\ IsFiniteSet(e.subtitles) /\ Cardinality(e.subtitles) <= requests
  <2>1. /\ IsFiniteSet(v.subtitles \cup {task[t].file})
        /\ Cardinality(v.subtitles \cup {task[t].file}) =
             IF task[t].file \in v.subtitles THEN Cardinality(v.subtitles)
             ELSE Cardinality(v.subtitles) + 1
    BY <1>4, FS_AddElement
  <2>2. Cardinality(v.subtitles) \in Nat /\ requests \in Nat
    BY <1>4, FS_CardinalityType, Constants DEF IInv, WorldFits
  <2> QED  BY <1>4, <1>5, <2>1, <2>2
<1>7. Fits(e)
  BY <1>3, <1>4, <1>5, <1>6 DEF Fits, Sound
<1>8. Books'
  BY <1>1, <1>2, <1>5, <1>7, PutOwn DEF settings, v
<1>9. WorldFits'
  BY <1>2, <1>3, WorldStaysFit DEF IInv, WorldFits, settings
<1>10. DiskFits'
  BY <1>2, Still, DiskStaysFit DEF settings
<1> QED  BY <1>8, <1>9, <1>10 DEF IInv, Books

(* A step of one task that leaves the store alone, in full.                  *)
LEMMA PrivateStep ==
  ASSUME IInv, NEW t \in Slot, NEW d, task' = [task EXCEPT ![t] = d],
         UNCHANGED <<layout, requests, next_id, entry, fetch, removed, played>>,
         d = Idle \/ (TaskFits(d) /\ UpToDate(d)),
         misled \subseteq misled', misled' \cup deleted' \subseteq Film,
         record' \in BOOLEAN, transcode_dir' \in {OutDir, NewDir},
         faults' \in 0 .. MaxFaults, DiskFits'
  PROVE  IInv'
<1>1. Grows /\ (TaskFits(d) => (TaskFits(d))')
  BY Still
<1>2. d = Idle \/ ((TaskFits(d))' /\ UpToDate(d))
  BY <1>1
<1>3. Books'
  BY <1>1, <1>2, PrivateKeeps
<1>4. WorldFits'
  BY WorldStaysFit DEF IInv, WorldFits
<1> QED  BY <1>3, <1>4 DEF IInv, Books

(* What the history names are films.                                         *)
LEMMA Filmed ==
  ASSUME IInv
  PROVE  /\ misled \cup deleted \subseteq Film
         /\ \A p \in DOMAIN disk : disk[p] \in Film
         /\ \A m \in Entries : entry[m].film \in Film
         /\ record \in BOOLEAN /\ transcode_dir \in {OutDir, NewDir}
         /\ faults \in 0 .. MaxFaults
BY DEF IInv, WorldFits, DiskFits, EntriesFit, Fits, Sound, Entry

LEMMA EncodeStep ==
  ASSUME IInv, NEW t \in Slot, Encode(t)
  PROVE  IInv'
<1>1. /\ Active(t) /\ task[t].kind = "job" /\ task[t].phase = "encode"
      /\ task[t].at \in DOMAIN task[t].view /\ Exists(task[t].file)
  BY AtHere DEF Encode
<1>2. /\ disk' = With(task[t].out, disk[task[t].file])
      /\ misled' = misled \cup {entry[m].film : m \in {k \in Entries \ {task[t].at} :
                                                  task[t].out \in Plays(entry[k])}}
                \cup ({disk[p] : p \in {task[t].out} \cap DOMAIN disk}
                        \ {disk[task[t].file]})
                \cup {disk[task[t].file] : p \in {task[t].out} \cap Limbo(task[t].at)}
      /\ task' = [task EXCEPT ![t].phase = "get"]
      /\ UNCHANGED <<settings, entry, fetch, next_id, requests, faults, removed, played,
                     deleted>>
  BY DEF Encode
<1>3. TaskFits(task[t]) /\ UpToDate(task[t])
  BY <1>1, TaskHere
<1>4. PICK d : d = [task[t] EXCEPT !.phase = "get"]
  OBVIOUS
<1>5. task' = [task EXCEPT ![t] = d]
  BY <1>2, <1>4 DEF IInv, Domains
<1>6. /\ IsTask(d) /\ d.kind = task[t].kind /\ d.phase = "get" /\ d.todo = task[t].todo
      /\ d.view = task[t].view /\ d.file = task[t].file /\ d.at = task[t].at
      /\ d.out = task[t].out /\ d.found = task[t].found
      /\ d.serial = task[t].serial /\ d.outdated = task[t].outdated /\ d.left = task[t].left
  BY <1>3, <1>4 DEF TaskFits, IsTask
<1>7. TaskFits(d) /\ UpToDate(d)
  <2>1. Knows(d)
    BY <1>1, <1>3, <1>6 DEF TaskFits, Knows
  <2>2. HasItsPaths(d)
    BY <1>1, <1>3, <1>6 DEF TaskFits, HasItsPaths
  <2>3. HasFound(d)
    BY <1>3, <1>6 DEF TaskFits, HasFound
  <2> QED  BY <2>1, <2>2, <2>3, <1>3, <1>6 DEF TaskFits, UpToDate
<1>8. task[t].out \in Path /\ task[t].out[3] = 0
  BY <1>1, <1>3 DEF TaskFits, HasItsPaths
<1>9. DiskFits'
  <2>1. Grows /\ disk[task[t].file] \in Film /\ requests \in Nat
    BY <1>1, <1>2, Still, Filmed, Constants DEF settings, Exists, IInv, WorldFits
  <2> QED  BY <1>2, <1>8, <2>1, DiskStaysFit
<1>10. misled \subseteq misled' /\ misled' \cup deleted' \subseteq Film
  BY <1>1, <1>2, Filmed DEF Exists
<1> QED
  BY <1>2, <1>5, <1>7, <1>9, <1>10, Filmed, PrivateStep DEF settings

LEMMA EncodeFailsStep ==
  ASSUME IInv, NEW t \in Slot, EncodeFails(t)
  PROVE  IInv'
<1>1. /\ disk' = Without({task[t].out})
      /\ misled' = misled \cup (IF Exists(task[t].out) THEN {disk[task[t].out]} ELSE {})
      /\ task' = [task EXCEPT ![t] = Idle]
      /\ UNCHANGED <<settings, entry, fetch, next_id, requests, faults, removed, played,
                     deleted>>
  BY DEF EncodeFails
<1>2. DiskFits'
  BY <1>1, Still, DiskStaysFit DEF settings
<1>3. misled \subseteq misled' /\ misled' \cup deleted' \subseteq Film
  BY <1>1, Filmed DEF Exists
<1> QED  BY <1>1, <1>2, <1>3, Filmed, PrivateStep DEF settings

LEMMA GetJobStep ==
  ASSUME IInv, NEW t \in Slot, GetJob(t)
  PROVE  IInv'
<1> DEFINE m == task[t].at
<1>1. /\ Active(t) /\ task[t].kind = "job" /\ task[t].phase = "get"
      /\ m \in DOMAIN task[t].view
  BY AtHere DEF GetJob
<1>2. /\ task' = [task EXCEPT ![t] = IF Present(m)
                                     THEN [@ EXCEPT !.phase = "put", !.outdated = {},
                                                    !.view = [k \in {m} |-> entry[m]]]
                                     ELSE Idle]
      /\ UNCHANGED <<settings, entry, disk, fetch, next_id, requests, faults, history>>
  BY DEF GetJob
<1>3. TaskFits(task[t]) /\ m \in Id
  BY <1>1, TaskHere, ViewHere
<1>4. PICK V : V = [k \in {m} |-> entry[m]]
  OBVIOUS
<1>5. PICK d : d = IF Present(m) THEN [task[t] EXCEPT !.phase = "put", !.outdated = {},
                                                      !.view = V]
                   ELSE Idle
  OBVIOUS
<1>6. task' = [task EXCEPT ![t] = d]
  BY <1>2, <1>4, <1>5 DEF IInv, Domains
<1>7. CASE Present(m)
  <2>1. /\ IsTask(d) /\ d.kind = task[t].kind /\ d.phase = "put" /\ d.todo = task[t].todo
        /\ d.view = V /\ d.file = task[t].file /\ d.at = task[t].at
        /\ d.out = task[t].out /\ d.found = task[t].found
        /\ d.serial = task[t].serial /\ d.outdated = {} /\ d.left = task[t].left
    BY <1>3, <1>5, <1>7 DEF TaskFits, IsTask
  <2>2. DOMAIN V = {m} /\ V[m] = entry[m] /\ m \in Given /\ Fits(entry[m])
    BY <1>3, <1>4, <1>7 DEF IInv, EntriesFit, Entries
  <2>3. Knows(d)
    BY <1>1, <1>3, <2>1, <2>2 DEF TaskFits, Knows
  <2>4. HasItsPaths(d)
    BY <1>1, <1>3, <2>1 DEF TaskFits, HasItsPaths
  <2>5. HasFound(d)
    BY <1>3, <2>1 DEF TaskFits, HasFound
  <2>6. UpToDate(d)
    BY <2>1, <2>2, <1>7 DEF UpToDate, Same
  <2>7. TaskFits(d)
    BY <2>1, <2>3, <2>4, <2>5, <1>3 DEF TaskFits
  <2>8. DiskFits'
    BY <1>2, Still, DiskStaysFit DEF settings
  <2> QED  BY <1>2, <1>6, <2>6, <2>7, <2>8, Filmed, PrivateStep DEF settings, history
<1>8. CASE ~ Present(m)
  <2>1. DiskFits'
    BY <1>2, Still, DiskStaysFit DEF settings
  <2> QED  BY <1>2, <1>5, <1>6, <1>8, <2>1, Filmed, PrivateStep DEF settings, history
<1> QED  BY <1>7, <1>8

LEMMA PutJobStep ==
  ASSUME IInv, NEW t \in Slot, PutJob(t)
  PROVE  IInv'
<1> DEFINE m == task[t].at
           out == task[t].out
           v == task[t].view[m]
           e == [View(t) EXCEPT !.transcoded = out, !.ready = out,
                                !.versions = @ \cup {out}]
<1>1. /\ Active(t) /\ task[t].kind = "job" /\ m \in DOMAIN task[t].view
  BY AtHere DEF PutJob
<1>2. /\ Put(t, m, e, Idle)
      /\ misled' = misled \cup Stale(t, m)
                     \cup (IF Exists(out) /\ disk[out] = View(t).film THEN {}
                           ELSE {View(t).film})
      /\ UNCHANGED <<settings, disk, next_id, requests, faults, removed, played, deleted>>
  BY DEF PutJob
<1>3. /\ Fits(v) /\ m \in Given /\ Stale(t, m) \subseteq Film /\ TaskFits(task[t])
      /\ v.film \in Film /\ v = View(t)
  BY <1>1, ViewHere, TaskHere DEF View
<1>4. out \in Path
  BY <1>1, <1>3 DEF TaskFits, HasItsPaths
<1>5. /\ e \in Entry /\ e.film = v.film /\ e.played = v.played /\ e.group = v.group
      /\ e.versions = v.versions \cup {out} /\ e.subtitles = v.subtitles
  BY <1>3, <1>4 DEF Fits, Sound, Entry, View
<1> HIDE DEF e, m, v, out
<1>6. Fits(e)
  <2>1. IsFiniteSet(v.versions \cup {out})
    BY <1>3, FS_AddElement DEF Fits
  <2> QED  BY <1>3, <1>5, <2>1 DEF Fits, Sound
<1>7. /\ misled \cup Stale(t, m) \subseteq misled' /\ misled' \cup deleted' \subseteq Film
  BY <1>2, <1>3, Filmed
<1>8. Books'
  BY <1>1, <1>2, <1>5, <1>6, <1>7, PutOwn DEF settings, v
<1>9. WorldFits'
  BY <1>2, <1>7, WorldStaysFit, Filmed DEF IInv, WorldFits, settings
<1>10. DiskFits'
  BY <1>2, Still, DiskStaysFit DEF settings
<1> QED  BY <1>8, <1>9, <1>10 DEF IInv, Books

(* A task of another kind than a scan has read what it has still to do.      *)
LEMMA TodoHere ==
  ASSUME IInv, NEW t \in Slot, Active(t), task[t].kind # "scan", task[t].phase # "rest"
  PROVE  task[t].todo \subseteq DOMAIN task[t].view
BY TaskHere DEF TaskFits, Knows

(* A task that comes to entry m, which it has read, in phase p.              *)
LEMMA ComesTo ==
  ASSUME IInv, NEW t \in Slot, Active(t), task[t].kind \notin {"scan", "job", "upload"},
         task[t].todo \subseteq DOMAIN task[t].view, NEW d, IsTask(d),
         d.at \in DOMAIN task[t].view, d.file \in Path \cup {NoPath},
         d.kind = task[t].kind, d.todo = task[t].todo, d.view = task[t].view,
         d.out = task[t].out, d.found = task[t].found,
         d.serial = task[t].serial, d.outdated = task[t].outdated, d.left = task[t].left
  PROVE  TaskFits(d) /\ UpToDate(d)
<1>1. TaskFits(task[t]) /\ UpToDate(task[t])
  BY TaskHere
<1>3. Knows(d)
  BY <1>1 DEF TaskFits, Knows
<1>4. HasItsPaths(d)
  BY <1>1 DEF TaskFits, HasItsPaths
<1>5. HasFound(d)
  BY <1>1 DEF TaskFits, HasFound
<1> QED  BY <1>1, <1>3, <1>4, <1>5 DEF TaskFits, UpToDate

LEMMA UnlinkStep ==
  ASSUME IInv, NEW t \in Slot, NEW m, Unlink(t, m)
  PROVE  IInv'
<1>1. /\ Active(t) /\ task[t].kind \in {"delete", "torrent"} /\ task[t].phase = "turn"
      /\ m \in task[t].todo
      /\ task' = [task EXCEPT ![t].phase = "remove", ![t].at = m]
      /\ UNCHANGED <<settings, entry, fetch, next_id, requests, faults, removed, played,
                     deleted>>
  BY DEF Unlink, Is
<1>2. PICK S : disk' = Without(S) /\ misled' = misled \cup Hurt(t, m, S)
  BY DEF Unlink
<1>3. task[t].todo \subseteq DOMAIN task[t].view /\ m \in DOMAIN task[t].view
  BY <1>1, TodoHere
<1>4. PICK d : d = [task[t] EXCEPT !.phase = "remove", !.at = m]
  OBVIOUS
<1>5. task' = [task EXCEPT ![t] = d]
  BY <1>1, <1>4 DEF IInv, Domains
<1>6. task[t].file \in Path \cup {NoPath}
  BY <1>1, TaskHere DEF TaskFits, HasItsPaths
<1>7. TaskFits(d) /\ UpToDate(d)
  <2>1. /\ IsTask(d) /\ d.kind = task[t].kind /\ d.at = m /\ d.todo = task[t].todo
        /\ d.view = task[t].view /\ d.file = task[t].file
        /\ d.out = task[t].out /\ d.found = task[t].found
        /\ d.serial = task[t].serial /\ d.outdated = task[t].outdated /\ d.left = task[t].left
    <3>1. IsTask(task[t])
      BY <1>1, TaskHere DEF TaskFits
    <3> QED  BY <1>4, <3>1 DEF IsTask
  <2> QED  BY <1>1, <1>3, <1>6, <2>1, ComesTo
<1>8. misled \subseteq misled' /\ misled' \cup deleted' \subseteq Film
  BY <1>1, <1>2, <1>3, ViewHere, Filmed
<1>9. DiskFits'
  BY <1>1, <1>2, Still, DiskStaysFit DEF settings
<1> QED  BY <1>1, <1>5, <1>7, <1>8, <1>9, Filmed, PrivateStep DEF settings

LEMMA RemoveStep ==
  ASSUME IInv, NEW t \in Slot, Remove(t)
  PROVE  IInv'
<1> DEFINE m == task[t].at
<1>1. /\ Active(t) /\ task[t].kind \in {"forget", "delete", "torrent"}
      /\ task[t].phase = "remove"
  BY DEF Remove, Is
<1>2. PICK none : none = <<>>
  OBVIOUS
<1>3. PICK d : d = IF task[t].todo = {m} /\ task[t].kind = "torrent"
                   THEN [task[t] EXCEPT !.phase = "payload", !.todo = {}, !.view = none]
                   ELSE DoneWith(t, m)
  OBVIOUS
<1>4. /\ Put(t, m, NoEntry, d) /\ removed' = removed \cup {m}
      /\ misled' = misled \cup Stale(t, m)
      /\ UNCHANGED <<settings, disk, next_id, requests, faults, played, deleted>>
  BY <1>2, <1>3 DEF Remove
<1>5. TaskFits(task[t]) /\ UpToDate(task[t])
  BY <1>1, TaskHere
<1>6. m \in DOMAIN task[t].view /\ task[t].todo \subseteq DOMAIN task[t].view
  BY <1>1, <1>5 DEF TaskFits, Knows
<1>7. m \in Given /\ m \in Id /\ Stale(t, m) \subseteq Film
  BY <1>1, <1>6, ViewHere
<1> HIDE DEF m
<1>8. \/ d = Idle
      \/ TaskFits(d) /\ UpToDate(d) /\ m \notin DOMAIN d.view
  <2>1. CASE task[t].todo = {m} /\ task[t].kind = "torrent"
    <3>1. d = [task[t] EXCEPT !.phase = "payload", !.todo = {}, !.view = none]
      BY <1>3, <2>1
    <3>2. /\ IsTask(d) /\ d.kind = task[t].kind /\ d.phase = "payload" /\ d.todo = {}
          /\ d.view = none /\ d.file = task[t].file /\ d.at = task[t].at
          /\ d.out = task[t].out /\ d.found = task[t].found
          /\ d.serial = task[t].serial /\ d.outdated = task[t].outdated /\ d.left = task[t].left
      BY <1>5, <3>1 DEF TaskFits, IsTask
    <3>3. DOMAIN none = {}
      BY <1>2
    <3>4. Knows(d) /\ UpToDate(d)
      BY <2>1, <3>2, <3>3 DEF Knows, UpToDate
    <3>5. HasItsPaths(d)
      BY <1>5, <2>1, <3>2 DEF TaskFits, HasItsPaths
    <3>6. HasFound(d)
      BY <1>5, <2>1, <3>2 DEF TaskFits, HasFound
    <3> QED  BY <1>5, <3>2, <3>3, <3>4, <3>5, <3>6 DEF TaskFits
  <2>2. CASE ~ (task[t].todo = {m} /\ task[t].kind = "torrent")
    <3>1. d = DoneWith(t, m)
      BY <1>3, <2>2
    <3> QED  BY <1>1, <1>6, <3>1, DoneWithFits
  <2> QED  BY <2>1, <2>2
<1>9. Books'
  <2>1. \/ d = Idle
        \/ /\ TaskFits(d)
           /\ \A k \in DOMAIN d.view \ d.outdated :
                IF k = m THEN /\ NoEntry # NoEntry /\ d.view[k].film = NoEntry.film
                              /\ d.view[k].played = NoEntry.played
                ELSE Same(d.view[k], k)
    BY <1>8 DEF UpToDate
  <2>2. Grows
    BY <1>4, Still DEF settings
  <2>3. UNCHANGED <<requests, next_id>> /\ misled \subseteq misled'
        /\ removed' \subseteq removed \cup {m} /\ played' \subseteq played \cup {m}
    BY <1>4
  <2> QED  BY <1>4, <1>7, <2>1, <2>2, <2>3, PutKeeps
<1>10. WorldFits'
  BY <1>4, <1>7, WorldStaysFit, Filmed DEF IInv, WorldFits, settings
<1>11. DiskFits'
  BY <1>4, Still, DiskStaysFit DEF settings
<1> QED  BY <1>9, <1>10, <1>11 DEF IInv, Books

LEMMA RemovePayloadStep ==
  ASSUME IInv, NEW t \in Slot, RemovePayload(t)
  PROVE  IInv'
<1>1. /\ record' = FALSE /\ task' = [task EXCEPT ![t] = Idle]
      /\ UNCHANGED <<layout, transcode_dir, entry, fetch, next_id, requests, faults, removed,
                     played>>
  BY DEF RemovePayload
<1>2. PICK S \in SUBSET DOMAIN disk :
        /\ disk' = Without(S) /\ misled' = misled \cup {disk[p] : p \in S}
        /\ deleted' = deleted \cup {disk[p] : p \in S}
  BY DEF RemovePayload
<1>3. misled \subseteq misled' /\ misled' \cup deleted' \subseteq Film
  BY <1>2, Filmed
<1>4. DiskFits'
  BY <1>1, <1>2, Still, DiskStaysFit
<1> QED  BY <1>1, <1>3, <1>4, Filmed, PrivateStep

LEMMA SkipStep ==
  ASSUME IInv, NEW t \in Slot, Active(t), task[t].kind \notin {"scan", "job", "upload"},
         task[t].todo \subseteq DOMAIN task[t].view, NEW m, Skip(t, m)
  PROVE  IInv'
<1>1. /\ task' = [task EXCEPT ![t] = DoneWith(t, m)]
      /\ UNCHANGED <<settings, entry, disk, fetch, next_id, requests, faults, history>>
  BY DEF Skip
<1>2. PICK d : d = DoneWith(t, m)
  OBVIOUS
<1>3. d = Idle \/ (TaskFits(d) /\ UpToDate(d))
  BY <1>2, DoneWithFits
<1>4. DiskFits'
  BY <1>1, Still, DiskStaysFit DEF settings
<1> QED  BY <1>1, <1>2, <1>3, <1>4, Filmed, PrivateStep DEF settings, history

LEMMA FixStep ==
  ASSUME IInv, NEW t \in Slot, NEW m, FixOne(t, m)
  PROVE  IInv'
<1> DEFINE v == task[t].view[m]
<1>1. /\ Active(t) /\ task[t].kind = "fix" /\ task[t].phase = "turn" /\ m \in task[t].todo
  BY DEF FixOne, Turn, Is
<1>2. task[t].todo \subseteq DOMAIN task[t].view /\ m \in DOMAIN task[t].view
  BY <1>1, TodoHere
<1>3. CASE Skip(t, m)
  BY <1>1, <1>2, <1>3, SkipStep
<1>4. CASE ~ Skip(t, m)
  <2>1. PICK w \in v.versions :
          Put(t, m, [v EXCEPT !.media_file = w,
                              !.transcoded = IF @ = NoPath \/ Exists(@) THEN @ ELSE w],
              DoneWith(t, m))
    BY <1>4 DEF FixOne
  <2>2. /\ misled' = misled \cup Stale(t, m)
        /\ UNCHANGED <<settings, disk, next_id, requests, faults, removed, played, deleted>>
    BY <1>4 DEF FixOne
  <2>3. PICK d : d = DoneWith(t, m)
    OBVIOUS
  <2>4. PICK tp : tp = IF v.transcoded = NoPath \/ Exists(v.transcoded)
                       THEN v.transcoded ELSE w
    OBVIOUS
  <2>5. PICK e : e = [v EXCEPT !.media_file = w, !.transcoded = tp]
    OBVIOUS
  <2>6. Put(t, m, e, d)
    BY <2>1, <2>3, <2>4, <2>5
  <2>7. Fits(v) /\ m \in Given /\ Stale(t, m) \subseteq Film
    BY <1>1, <1>2, ViewHere
  <2>8. w \in Path /\ tp \in Path \cup {NoPath}
    BY <2>4, <2>7 DEF Fits, Sound, Entry
  <2>9. /\ e \in Entry /\ e.film = v.film /\ e.played = v.played /\ e.group = v.group
        /\ e.versions = v.versions /\ e.subtitles = v.subtitles
    BY <2>5, <2>7, <2>8 DEF Fits, Sound, Entry
  <2>10. Fits(e)
    BY <2>7, <2>9 DEF Fits, Sound
  <2>11. d = Idle \/ (TaskFits(d) /\ UpToDate(d) /\ m \notin DOMAIN d.view)
    BY <1>1, <1>2, <2>3, DoneWithFits
  <2>12. misled \cup Stale(t, m) \subseteq misled' /\ misled' \cup deleted' \subseteq Film
    BY <2>2, <2>7, Filmed
  <2>13. Books'
    <3>1. e.played = task[t].view[m].played /\ played' = played /\ removed' = removed
      BY <2>2, <2>9
    <3>2. e.film = task[t].view[m].film
      BY <2>9
    <3> HIDE DEF v
    <3> QED  BY <1>1, <1>2, <2>2, <2>6, <2>10, <2>11, <2>12, <3>1, <3>2, PutOwn DEF settings
  <2>14. WorldFits'
    BY <2>2, <2>12, WorldStaysFit, Filmed DEF IInv, WorldFits, settings
  <2>15. DiskFits'
    BY <2>2, Still, DiskStaysFit DEF settings
  <2> QED  BY <2>13, <2>14, <2>15 DEF IInv, Books
<1> QED  BY <1>3, <1>4

LEMMA CleanupStep ==
  ASSUME IInv, NEW t \in Slot, NEW m, CleanupOne(t, m)
  PROVE  IInv'
<1> DEFINE v == task[t].view[m]
<1>1. /\ Active(t) /\ task[t].kind = "cleanup" /\ task[t].phase = "turn" /\ m \in task[t].todo
  BY DEF CleanupOne, Turn, Is
<1>2. task[t].todo \subseteq DOMAIN task[t].view /\ m \in DOMAIN task[t].view
  BY <1>1, TodoHere
<1>3. CASE Skip(t, m)
  BY <1>1, <1>2, <1>3, SkipStep
<1>4. CASE ~ Skip(t, m)
  <2>1. PICK o \in Outputs(v) :
          Put(t, m, [v EXCEPT !.media_file = o],
              [task[t] EXCEPT !.phase = "unlink", !.at = m, !.file = v.media_file])
    BY <1>4 DEF CleanupOne
  <2>2. /\ misled' = misled \cup Stale(t, m)
        /\ UNCHANGED <<settings, disk, next_id, requests, faults, removed, played, deleted>>
    BY <1>4 DEF CleanupOne
  <2>3. PICK file : file = v.media_file
    OBVIOUS
  <2>4. PICK d : d = [task[t] EXCEPT !.phase = "unlink", !.at = m, !.file = file]
    OBVIOUS
  <2>5. PICK e : e = [v EXCEPT !.media_file = o]
    OBVIOUS
  <2>6. Put(t, m, e, d)
    BY <2>1, <2>3, <2>4, <2>5
  <2>7. Fits(v) /\ m \in Given /\ Stale(t, m) \subseteq Film
    BY <1>1, <1>2, ViewHere
  <2>8. o \in Path /\ file \in Path \cup {NoPath}
    <3>1. /\ v.transcoded \in Path \cup {NoPath} /\ v.versions \subseteq Path
          /\ v.media_file \in Path
      BY <2>7 DEF Fits, Sound, Entry
    <3> HIDE DEF v
    <3>2. o \in Path
      BY <3>1, Zenon DEF Outputs
    <3> QED  BY <2>3, <3>1, <3>2
  <2>9. /\ e \in Entry /\ e.film = v.film /\ e.played = v.played /\ e.group = v.group
        /\ e.versions = v.versions /\ e.subtitles = v.subtitles
    BY <2>5, <2>7, <2>8 DEF Fits, Sound, Entry
  <2>10. Fits(e)
    BY <2>7, <2>9 DEF Fits, Sound
  <2>11. TaskFits(d) /\ UpToDate(d) /\ d.view = task[t].view
    <3> HIDE DEF v
    <3>1. /\ IsTask(d) /\ d.kind = task[t].kind /\ d.at = m /\ d.todo = task[t].todo
          /\ d.view = task[t].view /\ d.file = file
          /\ d.out = task[t].out /\ d.found = task[t].found
          /\ d.serial = task[t].serial /\ d.outdated = task[t].outdated /\ d.left = task[t].left
      <4>1. IsTask(task[t])
        BY <1>1, TaskHere DEF TaskFits
      <4> QED  BY <2>4, <4>1 DEF IsTask
    <3> QED  BY <1>1, <1>2, <2>8, <3>1, ComesTo
  <2>12. misled \cup Stale(t, m) \subseteq misled' /\ misled' \cup deleted' \subseteq Film
    BY <2>2, <2>7, Filmed
  <2>13. Books'
    <3>1. e.played = task[t].view[m].played /\ played' = played /\ removed' = removed
      BY <2>2, <2>9
    <3>2. e.film = task[t].view[m].film
      BY <2>9
    <3> HIDE DEF v
    <3> QED  BY <1>1, <1>2, <2>2, <2>6, <2>10, <2>11, <2>12, <3>1, <3>2, PutOwn DEF settings
  <2>14. WorldFits'
    BY <2>2, <2>12, WorldStaysFit, Filmed DEF IInv, WorldFits, settings
  <2>15. DiskFits'
    BY <2>2, Still, DiskStaysFit DEF settings
  <2> QED  BY <2>13, <2>14, <2>15 DEF IInv, Books
<1> QED  BY <1>3, <1>4

LEMMA UnlinkSourceStep ==
  ASSUME IInv, NEW t \in Slot, UnlinkSource(t)
  PROVE  IInv'
<1> DEFINE m == task[t].at
<1>1. /\ Active(t) /\ task[t].kind = "cleanup" /\ task[t].phase = "unlink"
      /\ m \in DOMAIN task[t].view /\ task[t].todo \subseteq DOMAIN task[t].view
  BY AtHere DEF UnlinkSource
<1>2. PICK S : disk' = Without(S) /\ misled' = misled \cup Hurt(t, m, S)
  BY DEF UnlinkSource
<1>3. /\ task' = [task EXCEPT ![t] = DoneWith(t, m)]
      /\ UNCHANGED <<settings, entry, fetch, next_id, requests, faults, removed, played,
                     deleted>>
  BY DEF UnlinkSource
<1> HIDE DEF m
<1>4. PICK d : d = DoneWith(t, m)
  OBVIOUS
<1>5. d = Idle \/ (TaskFits(d) /\ UpToDate(d))
  BY <1>1, <1>4, DoneWithFits
<1>6. misled \subseteq misled' /\ misled' \cup deleted' \subseteq Film
  BY <1>1, <1>2, <1>3, ViewHere, Filmed
<1>7. DiskFits'
  BY <1>2, <1>3, Still, DiskStaysFit DEF settings
<1> QED  BY <1>3, <1>4, <1>5, <1>6, <1>7, Filmed, PrivateStep DEF settings

-----------------------------------------------------------------------------
(* The migration.                                                            *)

LEMMA OwnedFinite ==
  ASSUME NEW e, Fits(e)
  PROVE  IsFiniteSet(Owned(e))
<1>1. IsFiniteSet({e.media_file}) /\ IsFiniteSet({e.transcoded})
  BY FS_Singleton
<1>2. IsFiniteSet({e.media_file, e.transcoded})
  BY <1>1, FS_AddElement
<1>3. IsFiniteSet(e.versions) /\ IsFiniteSet(e.subtitles)
  BY DEF Fits
<1>4. IsFiniteSet({e.media_file, e.transcoded} \cup e.versions)
  BY <1>2, <1>3, FS_Union
<1>5. Plays(e) \subseteq {e.media_file, e.transcoded} \cup e.versions
  BY DEF Plays
<1>6. IsFiniteSet(Plays(e))
  BY <1>4, <1>5, FS_Subset
<1> QED  BY <1>3, <1>6, FS_Union DEF Owned

(* Where the files P of an entry are when S have moved and F have failed to. *)
After(P, S, F) ==
  {Dest(p) : p \in P \cap S} \cup {p \in P : Exists(p) /\ p \notin S \cup F}

LEMMA AfterFits ==
  ASSUME IInv, NEW P \in SUBSET Path, IsFiniteSet(P), NEW S, NEW F
  PROVE  /\ IsFiniteSet(After(P, S, F)) /\ Cardinality(After(P, S, F)) <= Cardinality(P)
         /\ \A q \in After(P, S, F) : q \in Path /\ \E p \in P : q[3] = p[3]
<1> DEFINE A == After(P, S, F)
           R == {p \in P : p \in S \/ (Exists(p) /\ p \notin S \cup F)}
           g == [p \in R |-> IF p \in S THEN Dest(p) ELSE p]
<1>1. g \in [R -> A]
  BY DEF After
<1>2. \A q \in A : \E p \in R : g[p] = q
  <2> SUFFICES ASSUME NEW q \in A  PROVE \E p \in R : g[p] = q
    OBVIOUS
  <2>1. CASE q \in {Dest(p) : p \in P \cap S}
    BY <2>1
  <2>2. CASE q \in {p \in P : Exists(p) /\ p \notin S \cup F}
    BY <2>2
  <2> QED  BY <2>1, <2>2 DEF After
<1>3. g \in Surjection(R, A)
  BY <1>1, <1>2 DEF Surjection
<1>4. R \subseteq P
  OBVIOUS
<1> HIDE DEF A, R, g
<1>5. IsFiniteSet(R) /\ Cardinality(R) <= Cardinality(P)
  BY <1>4, FS_Subset
<1>6. IsFiniteSet(A) /\ Cardinality(A) <= Cardinality(R)
  BY <1>3, <1>5, FS_Surjection
<1>7. Cardinality(A) <= Cardinality(P)
  <2>1. Cardinality(A) \in Nat /\ Cardinality(R) \in Nat /\ Cardinality(P) \in Nat
    BY <1>5, <1>6, FS_CardinalityType
  <2> QED  BY <1>5, <1>6, <2>1
<1>8. \A p \in P : p \in Path /\ Dest(p) \in Path /\ Dest(p)[3] = p[3]
  BY DEF Dest, Path, Dir
<1>9. \A q \in A : q \in Path /\ \E p \in P : q[3] = p[3]
  <2> SUFFICES ASSUME NEW q \in A  PROVE q \in Path /\ \E p \in P : q[3] = p[3]
    OBVIOUS
  <2>1. CASE q \in {Dest(p) : p \in P \cap S}
    <3>1. PICK p \in P \cap S : q = Dest(p)
      BY <2>1
    <3> QED  BY <3>1, <1>8
  <2>2. CASE q \in {p \in P : Exists(p) /\ p \notin S \cup F}
    BY <2>2, <1>8
  <2> QED  BY <2>1, <2>2 DEF After, A
<1> QED  BY <1>6, <1>7, <1>9 DEF A

LEMMA MigratedFits ==
  ASSUME IInv, NEW e, Fits(e), NEW S, NEW F, NEW n \in Migrated(e, S, F)
  PROVE  Fits(n) /\ n.film = e.film /\ n.played = e.played
<1> DEFINE vs == After(e.versions, S, F)
           subs == After(e.subtitles, S, F)
           follow(p, taken) ==
             IF p = NoPath \/ (Exists(p) /\ p \notin S \cup F) THEN {p}
             ELSE IF p \in S \ taken THEN {Dest(p)}
             ELSE IF vs # {} THEN vs ELSE {p}
           TP == follow(e.transcoded, e.versions)
           MF == follow(e.media_file, e.versions \cup {e.transcoded})
           G(tp, file) == Rewritten(e, vs, subs, tp, file)
<1>0. Migrated(e, S, F) = {G(tp, file) : tp \in TP, file \in MF}
  BY DEF Migrated, After
<1> HIDE DEF TP, MF, vs, subs, follow, G
<1>1. PICK tp \in TP, file \in MF : n = G(tp, file)
  BY <1>0
<1>2. /\ e \in Entry /\ e.versions \subseteq Path /\ e.subtitles \subseteq Path
      /\ e.transcoded \in Path \cup {NoPath} /\ e.media_file \in Path
      /\ IsFiniteSet(e.versions) /\ IsFiniteSet(e.subtitles)
      /\ Cardinality(e.subtitles) <= requests
      /\ \A p \in e.subtitles : IsSubtitle(p)
  BY DEF Fits, Sound, Entry
<1>3. IsFiniteSet(vs) /\ \A q \in vs : q \in Path
  BY <1>2, AfterFits DEF vs
<1>4. /\ IsFiniteSet(subs) /\ Cardinality(subs) <= Cardinality(e.subtitles)
      /\ \A q \in subs : q \in Path /\ \E p \in e.subtitles : q[3] = p[3]
  BY <1>2, AfterFits DEF subs
<1>5. \A p \in Path : \A taken : follow(p, taken) \subseteq Path
  <2> SUFFICES ASSUME NEW p \in Path, NEW taken  PROVE follow(p, taken) \subseteq Path
    OBVIOUS
  <2>1. Dest(p) \in Path
    BY DEF Dest, Path, Dir
  <2> QED  BY <1>3, <2>1 DEF follow
<1>6. tp \in Path \cup {NoPath} /\ file \in Path
  <2>1. file \in follow(e.media_file, e.versions \cup {e.transcoded})
    BY DEF MF
  <2>2. follow(e.media_file, e.versions \cup {e.transcoded}) \subseteq Path
    BY <1>2, <1>5
  <2>3. tp \in follow(e.transcoded, e.versions)
    BY DEF TP
  <2>4. CASE e.transcoded \in Path
    <3>1. follow(e.transcoded, e.versions) \subseteq Path
      BY <2>4, <1>5
    <3> QED  BY <2>1, <2>2, <2>3, <3>1
  <2>5. CASE e.transcoded = NoPath
    <3>1. tp = NoPath
      BY <2>3, <2>5 DEF follow
    <3> QED  BY <2>1, <2>2, <3>1
  <2> QED  BY <1>2, <2>4, <2>5
<1>7. /\ n \in Entry /\ n.film = e.film /\ n.played = e.played /\ n.group = e.group
      /\ n.versions = vs /\ n.subtitles = subs
  BY <1>1, <1>2, <1>3, <1>4, <1>6 DEF Entry, G, Rewritten
<1>8. Cardinality(subs) <= requests
  <2>1. /\ Cardinality(subs) \in Nat /\ Cardinality(e.subtitles) \in Nat
        /\ requests \in Nat
    BY <1>2, <1>4, FS_CardinalityType, Constants DEF IInv, WorldFits
  <2> QED  BY <1>2, <1>4, <2>1
<1>9. \A q \in subs : IsSubtitle(q)
  BY <1>2, <1>4 DEF IsSubtitle
<1> QED  BY <1>3, <1>4, <1>7, <1>8, <1>9 DEF Fits, Sound

(* The migration turns to the files that are left, or to the next entry.     *)
LEMMA GoesOnFits ==
  ASSUME IInv, NEW t \in Slot, Active(t), task[t].kind = "migrate",
         task[t].phase # "rest", NEW m, NEW none, none = <<>>, NEW d,
         \/ d = [task[t] EXCEPT !.phase = "rest", !.view = none]
         \/ d = DoneWith(t, m)
  PROVE  d = Idle \/ (TaskFits(d) /\ UpToDate(d) /\ m \notin DOMAIN d.view)
<1>1. TaskFits(task[t]) /\ IsTask(task[t])
  BY TaskHere DEF TaskFits
<1>2. CASE d = DoneWith(t, m)
  BY <1>2, TodoHere, DoneWithFits
<1>3. CASE d = [task[t] EXCEPT !.phase = "rest", !.view = none]
  <2>1. /\ IsTask(d) /\ d.kind = task[t].kind /\ d.phase = "rest" /\ d.todo = task[t].todo
        /\ d.view = none /\ d.file = task[t].file /\ d.at = task[t].at
        /\ d.out = task[t].out /\ d.found = task[t].found
        /\ d.serial = task[t].serial /\ d.outdated = task[t].outdated /\ d.left = task[t].left
    BY <1>1, <1>3 DEF IsTask
  <2>2. DOMAIN none = {}
    OBVIOUS
  <2>3. Knows(d) /\ UpToDate(d)
    BY <2>1, <2>2 DEF Knows, UpToDate
  <2>4. HasItsPaths(d)
    BY <1>1, <2>1 DEF TaskFits, HasItsPaths
  <2>5. HasFound(d)
    BY <1>1, <2>1 DEF TaskFits, HasFound
  <2> QED  BY <1>1, <2>1, <2>2, <2>3, <2>4, <2>5 DEF TaskFits
<1> QED  BY <1>2, <1>3

LEMMA LeftFits ==
  ASSUME NEW d, TaskFits(d), UpToDate(d), NEW L \in SUBSET Id,
         NEW g, g = [d EXCEPT !.left = @ \cup L]
  PROVE  TaskFits(g) /\ UpToDate(g)
<1>1. /\ IsTask(g) /\ g.kind = d.kind /\ g.phase = d.phase /\ g.todo = d.todo
      /\ g.view = d.view /\ g.file = d.file /\ g.at = d.at
      /\ g.out = d.out /\ g.found = d.found
      /\ g.serial = d.serial /\ g.outdated = d.outdated /\ g.left = d.left \cup L
  BY DEF TaskFits, IsTask
<1>2. Knows(g) /\ UpToDate(g)
  BY <1>1 DEF TaskFits, Knows, UpToDate
<1>3. HasItsPaths(g)
  BY <1>1 DEF TaskFits, HasItsPaths
<1>4. HasFound(g)
  BY <1>1 DEF TaskFits, HasFound
<1> QED  BY <1>1, <1>2, <1>3, <1>4 DEF TaskFits

LEMMA MigrateStep ==
  ASSUME IInv, NEW t \in Slot, NEW m, MigrateOne(t, m)
  PROVE  IInv'
<1> DEFINE v == task[t].view[m]
<1>1. /\ Active(t) /\ task[t].kind = "migrate" /\ task[t].phase = "turn"
      /\ m \in task[t].todo
  BY DEF MigrateOne, Turn, Is
<1>2. task[t].todo \subseteq DOMAIN task[t].view /\ m \in DOMAIN task[t].view
  BY <1>1, TodoHere
<1>3. PICK F \in SUBSET {p \in Owned(v) : Movable(p)} :
        LET S == {p \in Owned(v) : Movable(p)} \ F
        IN  /\ faults + Cardinality(F) <= MaxFaults
            /\ faults' = faults + Cardinality(F)
            /\ disk' = Moved(S)
            /\ misled' = misled \cup Hurt(t, m, S) \cup Displacing(S)
                           \cup (IF F = {} THEN {} ELSE {v.film})
            /\ \E n \in Migrated(v, S, F) :
                 LET d == IF n # v
                          THEN [task[t] EXCEPT !.phase = "put", !.at = m, !.view[m] = n]
                          ELSE IF task[t].todo = {m}
                          THEN [task[t] EXCEPT !.phase = "rest", !.view = <<>>]
                          ELSE DoneWith(t, m)
                 IN  task' = [task EXCEPT ![t] = [d EXCEPT !.left = @ \cup Behind(t, m)]]
  BY DEF MigrateOne
<1>4. UNCHANGED <<settings, entry, fetch, next_id, requests, removed, played, deleted>>
  BY DEF MigrateOne
<1>5. PICK S : S = {p \in Owned(v) : Movable(p)} \ F
  OBVIOUS
<1>6. PICK n \in Migrated(v, S, F) :
        LET d == IF n # v
                 THEN [task[t] EXCEPT !.phase = "put", !.at = m, !.view[m] = n]
                 ELSE IF task[t].todo = {m}
                 THEN [task[t] EXCEPT !.phase = "rest", !.view = <<>>]
                 ELSE DoneWith(t, m)
        IN  task' = [task EXCEPT ![t] = [d EXCEPT !.left = @ \cup Behind(t, m)]]
  BY <1>3, <1>5
<1>7. /\ faults' = faults + Cardinality(F) /\ faults + Cardinality(F) <= MaxFaults
      /\ disk' = Moved(S)
      /\ misled' = misled \cup Hurt(t, m, S) \cup Displacing(S)
                     \cup (IF F = {} THEN {} ELSE {v.film})
  BY <1>3, <1>5
<1>8. PICK none : none = <<>>
  OBVIOUS
<1>9. PICK W : W = [task[t].view EXCEPT ![m] = n]
  OBVIOUS
<1>10. PICK d : d = IF n # v THEN [task[t] EXCEPT !.phase = "put", !.at = m, !.view = W]
                    ELSE IF task[t].todo = {m}
                    THEN [task[t] EXCEPT !.phase = "rest", !.view = none]
                    ELSE DoneWith(t, m)
  OBVIOUS
<1>18. PICK g : g = [d EXCEPT !.left = @ \cup Behind(t, m)]
  OBVIOUS
<1>11. task' = [task EXCEPT ![t] = g]
  <2>1. d = IF n # v
            THEN [task[t] EXCEPT !.phase = "put", !.at = m, !.view[m] = n]
            ELSE IF task[t].todo = {m}
            THEN [task[t] EXCEPT !.phase = "rest", !.view = <<>>]
            ELSE DoneWith(t, m)
    BY <1>8, <1>9, <1>10
  <2> QED  BY ONLY <1>6, <1>18, <2>1
<1>12. /\ TaskFits(task[t]) /\ UpToDate(task[t]) /\ IsTask(task[t])
       /\ Fits(v) /\ v.film \in Film
       /\ m \in Given /\ \A X : Hurt(t, m, X) \subseteq Film
  BY <1>1, <1>2, TaskHere, ViewHere DEF TaskFits
<1>13. Fits(n) /\ n.film = v.film /\ n.played = v.played
  BY <1>12, MigratedFits
<1>14. faults' \in 0 .. MaxFaults
  <2>1. F \subseteq Owned(v) /\ IsFiniteSet(Owned(v))
    BY <1>12, OwnedFinite
  <2>2. Cardinality(F) \in Nat
    BY <2>1, FS_Subset, FS_CardinalityType
  <2> QED  BY <1>7, <2>2, Constants, Filmed
<1>15. DiskFits'
  <2>1. S \in SUBSET DOMAIN disk
    BY <1>5 DEF Movable, Exists
  <2> QED  BY <1>4, <1>7, <2>1, Still, DiskStaysFit DEF settings
<1>16. misled \subseteq misled' /\ misled' \cup deleted' \subseteq Film
  <2>1. Displacing(S) \subseteq Film
    BY <1>5, Filmed DEF Displacing, Movable, Exists
  <2> QED  BY <1>4, <1>7, <1>12, <2>1, Filmed
<1>17. TaskFits(d) /\ UpToDate(d)
  <2>1. CASE n # v
    <3>1. d = [task[t] EXCEPT !.phase = "put", !.at = m, !.view = W]
      BY <1>10, <2>1
    <3>2. /\ IsTask(d) /\ d.kind = task[t].kind /\ d.phase = "put"
          /\ d.todo = task[t].todo
          /\ d.view = W /\ d.file = task[t].file /\ d.at = m
          /\ d.out = task[t].out /\ d.found = task[t].found
          /\ d.serial = task[t].serial /\ d.outdated = task[t].outdated /\ d.left = task[t].left
      BY <1>12, <3>1 DEF IsTask
    <3>3. /\ DOMAIN W = DOMAIN task[t].view /\ W[m] = n
          /\ \A k \in DOMAIN W : k # m => W[k] = task[t].view[k]
      BY <1>2, <1>9
    <3> HIDE DEF v
    <3>4. Knows(d)
      BY <1>1, <1>2, <1>12, <1>13, <3>2, <3>3 DEF TaskFits, Knows
    <3>5. HasItsPaths(d)
      BY <1>1, <1>12, <3>2 DEF TaskFits, HasItsPaths
    <3>6. HasFound(d)
      BY <1>12, <3>2 DEF TaskFits, HasFound
    <3>7. UpToDate(d)
      BY <1>2, <1>12, <1>13, <3>2, <3>3 DEF UpToDate, Same, v
    <3> QED  BY <1>12, <3>2, <3>4, <3>5, <3>6, <3>7 DEF TaskFits
  <2>2. CASE n = v
    <3>1. \/ d = [task[t] EXCEPT !.phase = "rest", !.view = none]
          \/ d = DoneWith(t, m)
      BY <1>10, <2>2
    <3>2. d # Idle
      BY <1>1, <1>10, <1>12, <2>2 DEF DoneWith, Idle, TaskFits, IsTask
    <3> QED  BY <1>1, <1>8, <3>1, <3>2, GoesOnFits
  <2> QED  BY <2>1, <2>2
<1>19. TaskFits(g) /\ UpToDate(g)
  BY <1>12, <1>17, <1>18, LeftFits DEF Behind, Given
<1> QED  BY <1>4, <1>11, <1>14, <1>15, <1>16, <1>19, Filmed, PrivateStep DEF settings

LEMMA PutMigratedStep ==
  ASSUME IInv, NEW t \in Slot, PutMigrated(t)
  PROVE  IInv'
<1> DEFINE m == task[t].at
           v == task[t].view[m]
<1>1. /\ Active(t) /\ task[t].kind = "migrate" /\ task[t].phase = "put"
      /\ m \in DOMAIN task[t].view
  BY AtHere DEF PutMigrated
<1>2. PICK none : none = <<>>
  OBVIOUS
<1>3. PICK d : d = IF task[t].todo = {m}
                   THEN [task[t] EXCEPT !.phase = "rest", !.view = none]
                   ELSE DoneWith(t, m)
  OBVIOUS
<1>4. /\ Put(t, m, v, d) /\ misled' = misled \cup Stale(t, m)
      /\ UNCHANGED <<settings, disk, next_id, requests, faults, removed, played, deleted>>
  BY <1>2, <1>3 DEF PutMigrated, View
<1>5. Fits(v) /\ m \in Given /\ Stale(t, m) \subseteq Film
  BY <1>1, ViewHere
<1>6. d = Idle \/ (TaskFits(d) /\ UpToDate(d) /\ m \notin DOMAIN d.view)
  <2>1. \/ d = [task[t] EXCEPT !.phase = "rest", !.view = none]
        \/ d = DoneWith(t, m)
    BY <1>3
  <2> QED  BY <1>1, <1>2, <2>1, GoesOnFits
<1> HIDE DEF m
<1>7. misled \cup Stale(t, m) \subseteq misled' /\ misled' \cup deleted' \subseteq Film
  BY <1>4, <1>5, Filmed
<1>8. Books'
  <2>1. /\ v.film = task[t].view[m].film /\ v.played = task[t].view[m].played
        /\ played' = played /\ removed' = removed
    BY <1>4
  <2> HIDE DEF v
  <2> QED  BY <1>1, <1>4, <1>5, <1>6, <1>7, <2>1, PutOwn DEF settings
<1>9. WorldFits'
  BY <1>4, <1>7, WorldStaysFit, Filmed DEF IInv, WorldFits, settings
<1>10. DiskFits'
  BY <1>4, Still, DiskStaysFit DEF settings
<1> QED  BY <1>8, <1>9, <1>10 DEF IInv, Books

LEMMA MoveRestStep ==
  ASSUME IInv, NEW t \in Slot, MoveRest(t)
  PROVE  IInv'
<1>1. /\ transcode_dir' = NewDir /\ task' = [task EXCEPT ![t] = Idle]
      /\ UNCHANGED <<layout, record, entry, fetch, next_id, requests, faults, removed, played,
                     deleted>>
  BY DEF MoveRest
<1>2. PICK S \in SUBSET DOMAIN disk :
        /\ disk' = Moved(S)
        /\ misled' = misled \cup Displacing(S)
                       \cup {entry[m].film : m \in {k \in Entries \cap
                                                         (task[t].outdated \cup task[t].left) :
                                               Owned(entry[k]) \cap S # {}}}
  BY DEF MoveRest
<1>3. Active(t)
  BY DEF MoveRest, Is
<1>4. Displacing(S) \subseteq Film
  BY Filmed DEF Displacing
<1>5. misled \subseteq misled' /\ misled' \cup deleted' \subseteq Film
  BY <1>1, <1>2, <1>4, Filmed
<1>6. DiskFits'
  BY <1>1, <1>2, Still, DiskStaysFit
<1> QED  BY <1>1, <1>5, <1>6, Filmed, PrivateStep

-----------------------------------------------------------------------------
(* The scans.                                                                *)

LEMMA ListScanStep ==
  ASSUME IInv, NEW t \in Slot, ListScan(t)
  PROVE  IInv'
<1> DEFINE found == task[t].found
           new == DOMAIN found \ Existing
           episodes == {p \in new : layout.show[found[p]] # NoShow}
           movies == new \ episodes
           largest == {p \in movies : \A q \in movies : found[p] <= found[q]}
<1>1. /\ Active(t) /\ task[t].kind = "scan"
      /\ UNCHANGED <<settings, entry, disk, fetch, next_id, requests, faults, history>>
  BY DEF ListScan, Is
<1>2. PICK plan \in IF movies = {} THEN {episodes} ELSE {episodes \cup {p} : p \in largest} :
        task' = [task EXCEPT ![t] =
             IF plan = {} THEN Idle
             ELSE [@ EXCEPT !.phase = "put", !.todo = plan, !.outdated = {},
                            !.found = [p \in plan |-> found[p]]]]
  BY DEF ListScan
<1>3. plan \subseteq DOMAIN found
  <2>1. episodes \subseteq DOMAIN found /\ largest \subseteq DOMAIN found
    OBVIOUS
  <2> HIDE DEF episodes, largest, movies, found
  <2> QED  BY <1>2, <2>1
<1> HIDE DEF found, new, episodes, movies, largest
<1>4. PICK listed : listed = [p \in plan |-> found[p]]
  OBVIOUS
<1>5. PICK d : d = IF plan = {} THEN Idle
                   ELSE [task[t] EXCEPT !.phase = "put", !.todo = plan, !.outdated = {},
                                        !.found = listed]
  OBVIOUS
<1>6. task' = [task EXCEPT ![t] = d]
  BY <1>2, <1>4, <1>5 DEF IInv, Domains
<1>7. d = Idle \/ (TaskFits(d) /\ UpToDate(d))
  <2> SUFFICES ASSUME plan # {}  PROVE TaskFits(d) /\ UpToDate(d)
    BY <1>5
  <2>1. TaskFits(task[t]) /\ IsTask(task[t])
    BY <1>1, TaskHere DEF TaskFits
  <2>2. /\ IsTask(d) /\ d.kind = task[t].kind /\ d.phase = "put" /\ d.todo = plan
        /\ d.view = task[t].view /\ d.file = task[t].file /\ d.at = task[t].at
        /\ d.out = task[t].out /\ d.found = listed
        /\ d.serial = task[t].serial /\ d.outdated = {} /\ d.left = task[t].left
    BY <1>5, <2>1 DEF IsTask
  <2>3. DOMAIN task[t].view = {}
    BY <1>1, <2>1 DEF TaskFits, Knows
  <2>4. Knows(d) /\ UpToDate(d)
    BY <1>1, <2>2, <2>3 DEF Knows, UpToDate
  <2>5. HasItsPaths(d)
    BY <1>1, <2>1, <2>2 DEF TaskFits, HasItsPaths
  <2>6. DOMAIN listed = plan /\ \A p \in plan : listed[p] = task[t].found[p]
    BY <1>4 DEF found
  <2>7. HasFound(d)
    BY <1>3, <2>1, <2>2, <2>6 DEF TaskFits, HasFound, found
  <2> QED  BY <2>1, <2>2, <2>4, <2>5, <2>7 DEF TaskFits
<1>8. DiskFits'
  BY <1>1, Still, DiskStaysFit DEF settings
<1> QED  BY <1>1, <1>6, <1>7, <1>8, Filmed, PrivateStep DEF settings, history

LEMMA SidecarsFit ==
  ASSUME IInv, NEW p \in Path
  PROVE  /\ Sidecars(p) \subseteq Path /\ IsFiniteSet(Sidecars(p))
         /\ Cardinality(Sidecars(p)) <= requests
         /\ \A q \in Sidecars(p) : IsSubtitle(q)
<1> DEFINE N == 1 .. requests
           T == {<<p[1], p[2], i>> : i \in N}
           f == [i \in N |-> <<p[1], p[2], i>>]
<1>1. requests \in Nat
  BY Constants DEF IInv, WorldFits
<1>2. \A q \in Sidecars(p) : q \in Path /\ q[3] \in 1 .. requests
  <2>1. \A q \in DOMAIN disk : q \in Path /\ q[3] \in 0 .. requests
    BY DEF IInv, DiskFits
  <2> QED  BY <1>1, <2>1 DEF Sidecars
<1>3. \A q \in Sidecars(p) : q = <<p[1], p[2], q[3]>>
  <2>1. \A q \in Path : q = <<q[1], q[2], q[3]>>
    BY DEF Path
  <2> QED  BY <1>2, <2>1 DEF Sidecars
<1>4. Sidecars(p) \subseteq T
  BY <1>2, <1>3
<1>5. f \in Surjection(N, T)
  BY DEF Surjection
<1>6. IsFiniteSet(N) /\ Cardinality(N) = requests
  BY <1>1, FS_Interval
<1> HIDE DEF N, T, f
<1>7. IsFiniteSet(T) /\ Cardinality(T) <= Cardinality(N)
  BY <1>5, <1>6, FS_Surjection
<1>8. IsFiniteSet(Sidecars(p)) /\ Cardinality(Sidecars(p)) <= Cardinality(T)
  BY <1>4, <1>7, FS_Subset
<1>9. Cardinality(Sidecars(p)) <= requests
  <2>1. Cardinality(Sidecars(p)) \in Nat /\ Cardinality(T) \in Nat
    BY <1>7, <1>8, FS_CardinalityType
  <2> QED  BY <1>1, <1>6, <1>7, <1>8, <2>1
<1> QED  BY <1>2, <1>8, <1>9 DEF IsSubtitle

(* One entry is written, by whoever it is.                                   *)
LEMMA WriteKeeps ==
  ASSUME IInv, Grows, NEW m \in Id, NEW e, entry' = [entry EXCEPT ![m] = e],
         m \in Given', (Fits(e))', DOMAIN task' = Slot, DOMAIN fetch' = Id,
         \A u \in Slot :
           \/ task'[u] = Idle
           \/ (TaskFits(task[u]) /\ UpToDate(task[u]))'
           \/ task[u] # Idle /\ task'[u] = [task[u] EXCEPT !.outdated = @ \cup {m}],
         \A k \in Id \ {m} : fetch'[k] = fetch[k],
         \/ fetch'[m] = NoFetch
         \/ (FetchFits(fetch[m]))' /\ fetch'[m].phase # "holding",
         misled \subseteq misled', removed' = removed, played' = played,
         e.film \notin misled' => m \notin removed /\ (m \in played => e.played)
  PROVE  Books'
<1> DEFINE W == {m}
<1>1. entry'[m] = e /\ (\A k \in Id \ W : entry'[k] = entry[k]) /\ DOMAIN entry' = Id
  BY DEF IInv, Domains
<1>2. W \in SUBSET Id /\ (\A k \in W : k = m) /\ (\A k \in Id : k # m => k \notin W)
  OBVIOUS
<1>3. \A u \in Slot :
        \/ task'[u] = Idle
        \/ (TaskFits(task[u]) /\ UpToDate(task[u]))'
        \/ task'[u] = task[u] /\ W \cap DOMAIN task[u].view = {}
        \/ task[u] # Idle /\ task'[u] = [task[u] EXCEPT !.outdated = @ \cup W]
  OBVIOUS
<1> HIDE DEF W
<1>4. EntriesFit'
  <2>1. \A k \in W : entry'[k] = NoEntry \/ (k \in Given /\ Fits(entry[k]))'
    BY <1>1, <1>2
  <2> QED  BY <1>1, <1>2, <2>1, EntriesStayFit
<1>5. TasksFit'
  BY <1>1, <1>2, <1>3, TasksStayFit
<1>6. FetchesFit'
  <2>1. \A k \in Id :
           \/ fetch'[k] = NoFetch
           \/ (/\ k \in Given /\ FetchFits(fetch[k])
               /\ fetch[k].phase = "holding" /\ ~ fetch[k].outdated
                    => Same(fetch[k].copy, k))'
           \/ fetch'[k] = fetch[k] /\ (k \notin W \/ fetch[k].phase # "holding")
           \/ fetch[k] # NoFetch /\ fetch'[k] = [fetch[k] EXCEPT !.outdated = TRUE]
    <3> SUFFICES ASSUME NEW k \in Id
                 PROVE  \/ fetch'[k] = NoFetch
                        \/ (/\ k \in Given /\ FetchFits(fetch[k])
                            /\ fetch[k].phase = "holding" /\ ~ fetch[k].outdated
                                 => Same(fetch[k].copy, k))'
                        \/ fetch'[k] = fetch[k] /\ k \notin W
      OBVIOUS
    <3>1. CASE k = m
      BY <3>1
    <3>2. CASE k # m
      BY <3>2, <1>2
    <3> QED  BY <3>1, <3>2
  <2> QED  BY <1>1, <1>2, <2>1, FetchesStayFit
<1>7. NothingIsUndone'
  <2> SUFFICES ASSUME NEW k \in Id, entry'[k] # NoEntry, entry'[k].film \notin misled'
               PROVE  k \notin removed /\ (k \in played => entry'[k].played)
    BY DEF NothingIsUndone, Entries, Present
  <2>1. CASE k = m
    BY <2>1, <1>1
  <2>2. CASE k # m
    <3>1. entry'[k] = entry[k]
      BY <2>2, <1>1, <1>2
    <3> QED  BY <3>1 DEF IInv, NothingIsUndone, Entries, Present
  <2> QED  BY <2>1, <2>2
<1>8. Domains'
  BY <1>1 DEF Domains
<1> QED  BY <1>4, <1>5, <1>6, <1>7, <1>8 DEF Books

LEMMA NewEntryFits ==
  ASSUME IInv, NEW f \in Film, NEW p \in Path, NEW download \in BOOLEAN,
         NEW serial \in 1 .. requests, NEW e,
         e = NewEntry(f, p, download, GroupOf(serial, f), Sidecars(p))
  PROVE  Fits(e) /\ e.film = f
<1>1. /\ e.film = f /\ e.media_file = p /\ e.transcoded = NoPath /\ e.versions = {}
      /\ e.ready = NoPath /\ e.subtitles = Sidecars(p) /\ e.played = FALSE
      /\ e.download = download /\ e.group = GroupOf(serial, f)
      /\ e = [film |-> e.film, media_file |-> e.media_file, transcoded |-> e.transcoded,
              versions |-> e.versions, ready |-> e.ready, subtitles |-> e.subtitles,
              played |-> e.played, download |-> e.download, group |-> e.group]
  BY DEF NewEntry
<1>2. GroupOf(serial, f) \in Group(f)
  <2>1. serial \in 0 .. MaxRequests
    BY Constants DEF IInv, WorldFits
  <2> QED  BY <2>1 DEF GroupOf, Group
<1>3. Sound(e)
  <2>1. e.group \in UNION {Group(g) : g \in Film}
    BY <1>1, <1>2
  <2>2. e.subtitles \in SUBSET Path
    BY <1>1, SidecarsFit
  <2>3. e \in Entry
    BY <1>1, <2>1, <2>2 DEF Entry
  <2> QED  BY <1>1, <1>2, <2>3 DEF Sound
<1>4. IsFiniteSet(e.versions)
  BY <1>1, FS_EmptySet
<1> QED  BY <1>1, <1>3, <1>4, SidecarsFit DEF Fits

LEMMA PutScannedStep ==
  ASSUME IInv, NEW t \in Slot, NEW p \in task[t].todo, PutScanned(t, p)
  PROVE  IInv'
<1> PICK m : m = next_id
  OBVIOUS
<1> PICK f : f = task[t].found[p]
  OBVIOUS
<1> PICK e : e = NewEntry(f, p, task[t].at = 1, GroupOf(task[t].serial, f), Sidecars(p))
  OBVIOUS
<1> PICK d : d = IF task[t].todo = {p} THEN Idle ELSE [task[t] EXCEPT !.todo = @ \ {p}]
  OBVIOUS
<1> PICK T : T = [task EXCEPT ![t] = d]
  OBVIOUS
<1>1. /\ Active(t) /\ task[t].kind = "scan" /\ m \in Id /\ next_id' = m + 1
      /\ entry' = [entry EXCEPT ![m] = e]
      /\ task' = Told(T, Slot \ {t}, m)
      /\ fetch' = [fetch EXCEPT ![m] = Waiting(e, 1)]
      /\ misled' = IF Raced(t, p)
                   THEN misled \cup {f} \cup (IF Exists(p) THEN {disk[p]} ELSE {})
                   ELSE misled
      /\ UNCHANGED <<settings, disk, requests, faults, removed, played, deleted>>
  BY DEF PutScanned, Is
<1>2. TaskFits(task[t]) /\ UpToDate(task[t]) /\ IsTask(task[t])
  BY <1>1, TaskHere DEF TaskFits
<1>3. p \in Path /\ f \in Film /\ task[t].serial \in 1 .. requests
  BY <1>1, <1>2 DEF TaskFits, HasFound
<1>4. Fits(e) /\ e.film = f
  <2>1. PICK download \in BOOLEAN : download = (task[t].at = 1)
    OBVIOUS
  <2>2. PICK serial : serial = task[t].serial
    OBVIOUS
  <2>3. e = NewEntry(f, p, download, GroupOf(serial, f), Sidecars(p))
    BY <2>1, <2>2
  <2>4. serial \in 1 .. requests
    BY <1>3, <2>2
  <2> QED  BY <1>3, <2>3, <2>4, NewEntryFits
<1>5. /\ m \in Nat /\ requests \in Nat /\ requests' = requests /\ layout' = layout
      /\ next_id' \in 1 .. MaxId + 1
  BY <1>1, Constants DEF IInv, WorldFits, settings, Id
<1>6. Grows
  BY <1>1, <1>5 DEF Grows
<1>7. /\ Path' = Path /\ Given \subseteq Given' /\ (Fits(e))'
      /\ TaskFits(d) => (TaskFits(d))'
  BY <1>4, <1>6, GrowthHere
<1>8. m \notin Given /\ m \in Given'
  BY <1>1, <1>5 DEF Given, Id
<1>9. misled \subseteq misled' /\ misled' \cup deleted' \subseteq Film
  BY <1>1, <1>3, Filmed DEF Exists
<1>10. d = Idle \/ (TaskFits(d) /\ DOMAIN d.view = {})
  <2> SUFFICES ASSUME task[t].todo # {p}
               PROVE  TaskFits(d) /\ DOMAIN d.view = {}
    OBVIOUS
  <2>1. d = [task[t] EXCEPT !.todo = task[t].todo \ {p}]
    OBVIOUS
  <2>2. /\ IsTask(d) /\ d.kind = task[t].kind /\ d.phase = task[t].phase
        /\ d.todo = task[t].todo \ {p}
        /\ d.view = task[t].view /\ d.file = task[t].file /\ d.at = task[t].at
        /\ d.out = task[t].out /\ d.found = task[t].found
        /\ d.serial = task[t].serial /\ d.outdated = task[t].outdated /\ d.left = task[t].left
    BY <1>2, <2>1 DEF IsTask
  <2>3. DOMAIN d.view = {} /\ Knows(d)
    BY <1>1, <1>2, <2>2 DEF TaskFits, Knows
  <2>4. HasItsPaths(d) /\ HasFound(d)
    BY <1>1, <1>2, <2>2 DEF TaskFits, HasItsPaths, HasFound
  <2> QED  BY <1>2, <2>2, <2>3, <2>4 DEF TaskFits
<1>11. d = Idle \/ (TaskFits(d) /\ UpToDate(d))'
  BY <1>7, <1>10 DEF UpToDate
<1>12. /\ T[t] = d /\ \A u \in Slot \ {t} : T[u] = task[u]
  BY DEF IInv, Domains
<1>13. /\ DOMAIN task' = Slot
       /\ \A u \in Slot : task'[u] = IF u \in Slot \ {t} /\ T[u] # Idle
                            THEN [T[u] EXCEPT !.outdated = @ \cup {m}] ELSE T[u]
  BY <1>1 DEF Told
<1>14. \A u \in Slot :
           \/ task'[u] = Idle
           \/ (TaskFits(task[u]) /\ UpToDate(task[u]))'
           \/ task[u] # Idle /\ task'[u] = [task[u] EXCEPT !.outdated = @ \cup {m}]
  <2> SUFFICES ASSUME NEW u \in Slot
               PROVE  \/ task'[u] = Idle
                      \/ (TaskFits(task[u]) /\ UpToDate(task[u]))'
                      \/ task[u] # Idle /\ task'[u] = [task[u] EXCEPT !.outdated = @ \cup {m}]
    OBVIOUS
  <2>1. CASE u = t
    <3>1. task'[u] = d
      BY <2>1, <1>12, <1>13
    <3> QED  BY <3>1, <1>11
  <2>2. CASE u # t
    BY <2>2, <1>12, <1>13
  <2> QED  BY <2>1, <2>2
<1>15. /\ fetch'[m] = Waiting(e, 1) /\ DOMAIN fetch' = Id
       /\ \A k \in Id \ {m} : fetch'[k] = fetch[k]
  BY <1>1 DEF IInv, Domains
<1>16. (FetchFits(fetch[m]))' /\ fetch'[m].phase # "holding"
  BY <1>7, <1>15 DEF FetchFits, Waiting
<1>17. m \notin removed /\ m \notin played
  BY <1>8 DEF IInv, WorldFits
<1>18. Books'
  BY <1>1, <1>6, <1>7, <1>8, <1>9, <1>13, <1>14, <1>15, <1>16, <1>17, WriteKeeps
<1>19. WorldFits'
  BY <1>1, <1>5, <1>7, <1>9 DEF IInv, WorldFits, settings
<1>20. DiskFits'
  BY <1>1, <1>6, DiskStaysFit
<1> QED  BY <1>18, <1>19, <1>20 DEF IInv, Books

-----------------------------------------------------------------------------
(* The lookups.                                                              *)

(* A step of the lookups, or a restart, which leaves the store alone.        *)
LEMMA FetchKeeps ==
  ASSUME IInv, Grows, UNCHANGED <<entry, removed, played>>, misled \subseteq misled',
         DOMAIN task' = Slot, DOMAIN fetch' = Id,
         \A u \in Slot : task'[u] = Idle \/ task'[u] = task[u],
         \A k \in Id :
           \/ fetch'[k] = NoFetch
           \/ (/\ k \in Given /\ FetchFits(fetch[k])
               /\ fetch[k].phase = "holding" /\ ~ fetch[k].outdated
                    => Same(fetch[k].copy, k))'
           \/ fetch'[k] = fetch[k]
  PROVE  Books'
<1> DEFINE W == {}
<1>0. /\ W \in SUBSET Id /\ \A k \in Id \ W : entry'[k] = entry[k]
      /\ \A S : W \cap S = {}
      /\ \A k : k \notin W
  OBVIOUS
<1> HIDE DEF W
<1>1. Domains'
  BY DEF IInv, Domains
<1>2. EntriesFit'
  <2>1. \A k \in W : entry'[k] = NoEntry \/ (k \in Given /\ Fits(entry[k]))'
    BY <1>0
  <2> QED  BY <1>0, <2>1, EntriesStayFit
<1>3. TasksFit'
  <2>1. \A u \in Slot :
          \/ task'[u] = Idle
          \/ (TaskFits(task[u]) /\ UpToDate(task[u]))'
          \/ task'[u] = task[u] /\ W \cap DOMAIN task[u].view = {}
          \/ task[u] # Idle /\ task'[u] = [task[u] EXCEPT !.outdated = @ \cup W]
    BY <1>0
  <2> QED  BY <1>0, <2>1, TasksStayFit
<1>4. FetchesFit'
  <2>1. \A k \in Id :
           \/ fetch'[k] = NoFetch
           \/ (/\ k \in Given /\ FetchFits(fetch[k])
               /\ fetch[k].phase = "holding" /\ ~ fetch[k].outdated
                    => Same(fetch[k].copy, k))'
           \/ fetch'[k] = fetch[k] /\ (k \notin W \/ fetch[k].phase # "holding")
           \/ fetch[k] # NoFetch /\ fetch'[k] = [fetch[k] EXCEPT !.outdated = TRUE]
    BY <1>0
  <2> QED  BY <1>0, <2>1, FetchesStayFit
<1>5. NothingIsUndone'
  BY DEF IInv, NothingIsUndone, Entries, Present
<1> QED  BY <1>1, <1>2, <1>3, <1>4, <1>5 DEF Books

(* A lookup that is under way.                                               *)
LEMMA FetchHere ==
  ASSUME IInv, NEW m \in Id, fetch[m].phase \in {"waiting", "holding"}
  PROVE  /\ m \in Given /\ FetchFits(fetch[m])
         /\ fetch[m].phase = "holding" /\ ~ fetch[m].outdated => Same(fetch[m].copy, m)
<1>1. fetch[m] # NoFetch
  BY DEF NoFetch
<1> QED  BY <1>1 DEF IInv, FetchesFit

(* Any entry fits what is known of it.                                       *)
LEMMA EntryHere ==
  ASSUME IInv, NEW m \in Id, Present(m)
  PROVE  m \in Given /\ Fits(entry[m]) /\ Same(entry[m], m)
BY DEF IInv, EntriesFit, Entries, Same

LEMMA GetFetchedStep ==
  ASSUME IInv, NEW m \in Id, GetFetched(m)
  PROVE  IInv'
<1> PICK q : q = fetch[m]
  OBVIOUS
<1> PICK e : e = entry[m]
  OBVIOUS
<1> PICK r : r = IF Present(m) THEN [q EXCEPT !.phase = "holding", !.copy = e] ELSE NoFetch
  OBVIOUS
<1>1. /\ q.phase = "waiting" /\ fetch' = [fetch EXCEPT ![m] = r]
      /\ UNCHANGED <<settings, entry, disk, task, next_id, requests, faults, history>>
  BY DEF GetFetched, Reread, IInv, Domains
<1>2. Grows /\ Given' = Given /\ \A s : FetchFits(s) => (FetchFits(s))'
  BY <1>1, Still DEF settings
<1>3. m \in Given /\ FetchFits(q)
  BY <1>1, FetchHere
<1>4. r = NoFetch \/ (FetchFits(r) /\ Same(r.copy, m))
  <2> SUFFICES ASSUME Present(m)  PROVE FetchFits(r) /\ Same(r.copy, m)
    OBVIOUS
  <2>1. /\ r = [phase |-> r.phase, copy |-> r.copy, lookups |-> r.lookups,
                outdated |-> r.outdated]
        /\ r.copy = e /\ r.lookups = q.lookups
    BY <1>3 DEF FetchFits
  <2> QED  BY <1>3, <2>1, EntryHere DEF FetchFits
<1>5. /\ fetch'[m] = r /\ DOMAIN fetch' = Id
      /\ \A k \in Id \ {m} : fetch'[k] = fetch[k]
  BY <1>1 DEF IInv, Domains
<1>6. r = NoFetch \/ (FetchFits(fetch[m]) /\ Same(fetch[m].copy, m))'
  <2>1. FetchFits(r) => (FetchFits(r))'
    BY <1>2
  <2>2. Same(r.copy, m) => (Same(fetch[m].copy, m))'
    BY <1>1, <1>5 DEF Same, Present
  <2> QED  BY <1>4, <1>5, <2>1, <2>2
<1>7. \A k \in Id :
           \/ fetch'[k] = NoFetch
           \/ (/\ k \in Given /\ FetchFits(fetch[k])
               /\ fetch[k].phase = "holding" /\ ~ fetch[k].outdated
                    => Same(fetch[k].copy, k))'
           \/ fetch'[k] = fetch[k]
  <2> SUFFICES ASSUME NEW k \in Id, k = m
               PROVE  \/ fetch'[k] = NoFetch
                      \/ (/\ k \in Given /\ FetchFits(fetch[k])
                          /\ fetch[k].phase = "holding" /\ ~ fetch[k].outdated
                               => Same(fetch[k].copy, k))'
    BY <1>5
  <2> QED  BY <1>2, <1>3, <1>5, <1>6
<1>8. Books'
  BY <1>1, <1>2, <1>5, <1>7, FetchKeeps DEF history, IInv, Domains
<1>9. WorldFits'
  BY <1>1 DEF IInv, WorldFits, Given, settings, history
<1>10. DiskFits'
  BY <1>1, <1>2, DiskStaysFit
<1> QED  BY <1>8, <1>9, <1>10 DEF IInv, Books

LEMMA FindNothingStep ==
  ASSUME IInv, NEW m \in Id, FindNothing(m)
  PROVE  IInv'
<1>1. /\ fetch' = [fetch EXCEPT ![m] = NoFetch]
      /\ UNCHANGED <<settings, entry, disk, task, next_id, requests, faults, history>>
  BY DEF FindNothing
<1>2. Grows /\ Given' = Given
  BY <1>1, Still DEF settings
<1>3. DOMAIN fetch' = Id /\ \A k \in Id : fetch'[k] = NoFetch \/ fetch'[k] = fetch[k]
  BY <1>1 DEF IInv, Domains
<1>4. Books'
  BY <1>1, <1>2, <1>3, FetchKeeps DEF history, IInv, Domains
<1>5. WorldFits'
  BY <1>1 DEF IInv, WorldFits, Given, settings, history
<1>6. DiskFits'
  BY <1>1, <1>2, DiskStaysFit
<1> QED  BY <1>4, <1>5, <1>6 DEF IInv, Books

LEMMA PutFetchedStep ==
  ASSUME IInv, NEW m \in Id, PutFetched(m)
  PROVE  IInv'
<1> PICK q : q = fetch[m]
  OBVIOUS
<1> PICK e : e = q.copy
  OBVIOUS
<1> PICK r : r = IF q.lookups = 1 THEN NoFetch ELSE Waiting(e, 1)
  OBVIOUS
<1>1. /\ q.phase = "holding" /\ entry' = [entry EXCEPT ![m] = e]
      /\ task' = Told(task, Slot, m)
      /\ fetch' = [fetch EXCEPT ![m] = r]
      /\ misled' = IF q.outdated THEN misled \cup {e.film} ELSE misled
      /\ UNCHANGED <<settings, disk, next_id, requests, faults, removed, played, deleted>>
  BY DEF PutFetched, IInv, Domains
<1>2. Grows /\ Given' = Given
  BY <1>1, Still DEF settings
<1>3. /\ m \in Given /\ FetchFits(q) /\ Fits(e)
      /\ ~ q.outdated => Same(e, m)
  BY <1>1, FetchHere DEF FetchFits
<1>4. (Fits(e))'
  BY <1>2, <1>3, GrowthHere
<1>5. misled \subseteq misled' /\ misled' \cup deleted' \subseteq Film
  <2>1. e.film \in Film
    BY <1>3 DEF Fits, Sound, Entry
  <2> QED  BY <1>1, <2>1, Filmed
<1>6. e.film \notin misled' => m \notin removed /\ (m \in played => e.played)
  <2> SUFFICES ASSUME e.film \notin misled'
               PROVE  m \notin removed /\ (m \in played => e.played)
    OBVIOUS
  <2>1. Same(e, m)
    BY <1>1, <1>3
  <2> QED  BY <2>1, <1>5 DEF IInv, NothingIsUndone, Entries, Same
<1>7. /\ DOMAIN task' = Slot
      /\ \A u \in Slot :
           \/ task'[u] = Idle
           \/ (TaskFits(task[u]) /\ UpToDate(task[u]))'
           \/ task[u] # Idle /\ task'[u] = [task[u] EXCEPT !.outdated = @ \cup {m}]
  <2>1. /\ DOMAIN task' = Slot
        /\ \A u \in Slot : task'[u] = IF u \in Slot /\ task[u] # Idle
                             THEN [task[u] EXCEPT !.outdated = @ \cup {m}] ELSE task[u]
    BY <1>1 DEF Told
  <2> QED  BY <2>1
<1>8. /\ fetch'[m] = r /\ DOMAIN fetch' = Id
      /\ \A k \in Id \ {m} : fetch'[k] = fetch[k]
  BY <1>1 DEF IInv, Domains
<1>9. \/ fetch'[m] = NoFetch
      \/ (FetchFits(fetch[m]))' /\ fetch'[m].phase # "holding"
  <2>1. CASE q.lookups = 1
    BY <2>1, <1>8
  <2>2. CASE q.lookups # 1
    <3>1. fetch'[m] = Waiting(e, 1)
      BY <2>2, <1>8
    <3> QED  BY <3>1, <1>4 DEF FetchFits, Waiting
  <2> QED  BY <2>1, <2>2
<1>10. Books'
  BY <1>1, <1>2, <1>3, <1>4, <1>5, <1>6, <1>7, <1>8, <1>9, WriteKeeps
<1>11. WorldFits'
  BY <1>1, <1>2, <1>5 DEF IInv, WorldFits, settings
<1>12. DiskFits'
  BY <1>1, <1>2, DiskStaysFit
<1> QED  BY <1>10, <1>11, <1>12 DEF IInv, Books

(* A copy of the entry as it is goes with a lookup that is asked for.        *)
LEMMA AskRefreshKeeps ==
  ASSUME IInv, NEW G \in SUBSET Entries, NEW n \in {1, 2}, Counted,
         fetch' = [m \in Id |-> IF m \in G THEN Waiting(entry[m], n) ELSE fetch[m]],
         UNCHANGED <<settings, entry, disk, task, next_id, faults, history>>
  PROVE  IInv'
<1>1. /\ requests \in Nat /\ next_id \in Nat /\ requests < MaxRequests
      /\ requests' = requests + 1 /\ next_id' = next_id
  BY Constants DEF IInv, WorldFits, Counted
<1>2. Grows
  BY <1>1 DEF Grows, settings
<1>3. Given' = Given
  BY <1>1 DEF Given
<1>4. ASSUME NEW k \in G
      PROVE  (k \in Given /\ FetchFits(fetch[k]) /\ fetch[k].phase # "holding")'
  <2>1. k \in Id /\ Present(k)
    BY DEF Entries
  <2>2. k \in Given /\ Fits(entry[k])
    BY <2>1, EntryHere
  <2>3. PICK e : e = entry[k]
    OBVIOUS
  <2>4. (Fits(e))'
    BY <1>2, <2>2, <2>3, GrowthHere
  <2>5. fetch'[k] = Waiting(e, n)
    BY <2>1, <2>3
  <2>6. PICK w : w = Waiting(e, n)
    OBVIOUS
  <2>7. /\ w.phase = "waiting" /\ w.copy = e /\ w.lookups = n
        /\ w = [phase |-> w.phase, copy |-> w.copy, lookups |-> w.lookups,
                outdated |-> w.outdated]
    BY <2>6 DEF Waiting
  <2>8. fetch'[k] = w
    BY <2>5, <2>6
  <2>9. (FetchFits(fetch[k]) /\ fetch[k].phase # "holding")'
    BY <2>4, <2>8, <2>7 DEF FetchFits
  <2> QED  BY <1>3, <2>2, <2>9
<1>5. DOMAIN fetch' = Id /\ \A k \in Id \ G : fetch'[k] = fetch[k]
  OBVIOUS
<1>6. \A k \in Id :
           \/ fetch'[k] = NoFetch
           \/ (/\ k \in Given /\ FetchFits(fetch[k])
               /\ fetch[k].phase = "holding" /\ ~ fetch[k].outdated
                    => Same(fetch[k].copy, k))'
           \/ fetch'[k] = fetch[k]
  BY <1>4, <1>5
<1>7. Books'
  BY <1>2, <1>5, <1>6, FetchKeeps DEF history, IInv, Domains
<1>8. WorldFits'
  BY <1>1, <1>3, Constants DEF IInv, WorldFits, settings, history
<1>9. DiskFits'
  BY <1>2, DiskStaysFit
<1> QED  BY <1>7, <1>8, <1>9 DEF IInv, Books

LEMMA AskRefreshStep ==
  ASSUME IInv, NEW m \in Id, AskRefresh(m)
  PROVE  IInv'
<1> DEFINE G == {m}
<1>1. G \in SUBSET Entries
  BY DEF AskRefresh, Entries
<1>2. fetch' = [k \in Id |-> IF k \in G THEN Waiting(entry[k], 1) ELSE fetch[k]]
  BY DEF AskRefresh, IInv, Domains
<1>3. Counted /\ UNCHANGED <<settings, entry, disk, task, next_id, faults, history>>
  BY DEF AskRefresh
<1> HIDE DEF G
<1> QED  BY <1>1, <1>2, <1>3, AskRefreshKeeps

LEMMA AskRefreshGroupStep ==
  ASSUME IInv, NEW g, AskRefreshGroup(g)
  PROVE  IInv'
<1> PICK G : G = {m \in Entries : entry[m].group = g}
  OBVIOUS
<1>1. /\ G \in SUBSET Entries /\ Counted
      /\ fetch' = [k \in Id |-> IF k \in G THEN Waiting(entry[k], 2) ELSE fetch[k]]
      /\ UNCHANGED <<settings, entry, disk, task, next_id, faults, history>>
  BY DEF AskRefreshGroup
<1> QED  BY <1>1, AskRefreshKeeps

-----------------------------------------------------------------------------
(* Crashes, and the user.                                                    *)
LEMMA CrashStep ==
  ASSUME IInv, Crash
  PROVE  IInv'
<1>1. /\ task' = [t \in Slot |-> Idle] /\ fetch' = [m \in Id |-> NoFetch]
      /\ faults < MaxFaults /\ faults' = faults + 1 /\ misled' = misled \cup InHand
      /\ UNCHANGED <<settings, entry, disk, next_id, requests, removed, played, deleted>>
  BY DEF Crash
<1>2. Grows /\ Given' = Given
  BY <1>1, Still DEF settings
<1>3. InHand \subseteq Film
  <2>1. ASSUME NEW t \in Slot, Holds(t)  PROVE View(t).film \in Film
    <3>1. Active(t) /\ task[t].at \in DOMAIN task[t].view
      BY <2>1, AtHere DEF Holds
    <3> QED  BY <3>1, ViewHere DEF View
  <2> QED  BY <2>1 DEF InHand
<1>4. Books'
  <2>1. /\ DOMAIN task' = Slot /\ DOMAIN fetch' = Id
        /\ \A u \in Slot : task'[u] = Idle
        /\ \A k \in Id : fetch'[k] = NoFetch
    BY <1>1
  <2> QED  BY <1>1, <1>2, <2>1, FetchKeeps
<1>5. WorldFits'
  <2>1. faults' \in 0 .. MaxFaults /\ misled' \cup deleted' \subseteq Film
    BY <1>1, <1>3, Constants, Filmed
  <2> QED  BY <1>1, <2>1, WorldStaysFit, Filmed DEF settings, IInv, WorldFits
<1>6. DiskFits'
  BY <1>1, <1>2, DiskStaysFit
<1> QED  BY <1>4, <1>5, <1>6 DEF IInv, Books

LEMMA VanishStep ==
  ASSUME IInv, NEW p \in DOMAIN disk, Vanish(p)
  PROVE  IInv'
<1>1. /\ disk' = Without({p}) /\ misled' = misled \cup {disk[p]}
      /\ deleted' = deleted \cup {disk[p]}
      /\ faults < MaxFaults /\ faults' = faults + 1
      /\ UNCHANGED <<settings, entry, task, fetch, next_id, requests, removed, played>>
  BY DEF Vanish, tasks
<1>2. Grows
  BY <1>1, Still DEF settings
<1>3. Books'
  BY <1>1, <1>2, FetchKeeps DEF IInv, Domains
<1>4. WorldFits'
  <2>1. faults' \in 0 .. MaxFaults /\ misled' \cup deleted' \subseteq Film
    BY <1>1, Constants, Filmed
  <2> QED  BY <1>1, <2>1, WorldStaysFit, Filmed DEF settings, IInv, WorldFits
<1>5. DiskFits'
  BY <1>1, <1>2, DiskStaysFit
<1> QED  BY <1>3, <1>4, <1>5 DEF IInv, Books

-----------------------------------------------------------------------------
(* The invariant.                                                            *)

LEMMA FirstEntryFits ==
  ASSUME layout \in Layouts, transcode_dir = OutDir, requests = 0,
         NEW f \in Film, NEW stage \in Stages \ {"loose"}
  PROVE  Fits(FirstEntry(f, stage))
<1> PICK s : s = Source(f)
  OBVIOUS
<1> PICK o : o = OutPath(f)
  OBVIOUS
<1> PICK download \in BOOLEAN : download = (layout.folder[f] = Payload)
  OBVIOUS
<1> PICK g : g = GroupOf(0, f)
  OBVIOUS
<1> PICK e : e = NewEntry(f, s, download, g, {})
  OBVIOUS
<1> PICK x : x = FirstEntry(f, stage)
  OBVIOUS
<1>1. s \in Path /\ o \in Path
  BY Constants DEF Source, OutPath, Path, Dir
<1>2. g \in Group(f)
  BY Constants DEF GroupOf, Group
<1>3. /\ e.film = f /\ e.media_file = s /\ e.transcoded = NoPath /\ e.versions = {}
      /\ e.ready = NoPath /\ e.subtitles = {} /\ e.played = FALSE
      /\ e.download = download /\ e.group = g
      /\ e = [film |-> e.film, media_file |-> e.media_file, transcoded |-> e.transcoded,
              versions |-> e.versions, ready |-> e.ready, subtitles |-> e.subtitles,
              played |-> e.played, download |-> e.download, group |-> e.group]
  BY DEF NewEntry
<1>4. x = IF stage = "imported" THEN e
          ELSE [e EXCEPT !.transcoded = o, !.versions = {o}, !.ready = o,
                         !.media_file = IF stage = "reclaimed" THEN o ELSE @]
  BY DEF FirstEntry
<1>5. /\ x.film = f /\ x.media_file \in {s, o} /\ x.transcoded \in {o, NoPath}
      /\ x.versions \in {{}, {o}}
      /\ x.ready \in {o, NoPath} /\ x.subtitles = {} /\ x.played = FALSE
      /\ x.download = download /\ x.group = g
      /\ x = [film |-> x.film, media_file |-> x.media_file, transcoded |-> x.transcoded,
              versions |-> x.versions, ready |-> x.ready, subtitles |-> x.subtitles,
              played |-> x.played, download |-> x.download, group |-> x.group]
  <2>1. CASE stage = "imported"
    <3>1. x = e
      BY <1>4, <2>1
    <3> QED  BY <1>3, <3>1
  <2>2. CASE stage # "imported"
    <3>1. PICK file : file = IF stage = "reclaimed" THEN o ELSE e.media_file
      OBVIOUS
    <3>2. x = [e EXCEPT !.transcoded = o, !.versions = {o}, !.ready = o,
                        !.media_file = file]
      BY <1>4, <2>2, <3>1
    <3>3. file \in {s, o}
      BY <1>3, <3>1
    <3>4. PICK a : a = [e EXCEPT !.transcoded = o]
      OBVIOUS
    <3>5. PICK b : b = [a EXCEPT !.versions = {o}]
      OBVIOUS
    <3>6. PICK c : c = [b EXCEPT !.ready = o]
      OBVIOUS
    <3>7. x = [c EXCEPT !.media_file = file]
      BY <3>2, <3>4, <3>5, <3>6
    <3>8. a = [film |-> e.film, media_file |-> e.media_file, transcoded |-> o,
               versions |-> e.versions, ready |-> e.ready, subtitles |-> e.subtitles,
               played |-> e.played, download |-> e.download, group |-> e.group]
      BY <1>3, <3>4
    <3>9. b = [film |-> e.film, media_file |-> e.media_file, transcoded |-> o,
               versions |-> {o}, ready |-> e.ready, subtitles |-> e.subtitles,
               played |-> e.played, download |-> e.download, group |-> e.group]
      BY <3>5, <3>8
    <3>10. c = [film |-> e.film, media_file |-> e.media_file, transcoded |-> o,
               versions |-> {o}, ready |-> o, subtitles |-> e.subtitles,
               played |-> e.played, download |-> e.download, group |-> e.group]
      BY <3>6, <3>9
    <3>11. x = [film |-> e.film, media_file |-> file, transcoded |-> o,
               versions |-> {o}, ready |-> o, subtitles |-> e.subtitles,
               played |-> e.played, download |-> e.download, group |-> e.group]
      BY <3>7, <3>10
    <3> QED  BY <1>3, <3>3, <3>11
  <2> QED  BY <2>1, <2>2
<1>6. Sound(x)
  <2>1. x.group \in UNION {Group(k) : k \in Film}
    BY <1>2, <1>5
  <2>2. x.versions \in SUBSET Path /\ x.subtitles \in SUBSET Path
    BY <1>1, <1>5
  <2>3. x \in Entry
    BY <1>1, <1>5, <2>1, <2>2 DEF Entry
  <2> QED  BY <1>2, <1>5, <2>3 DEF Sound
<1>7. IsFiniteSet(x.versions) /\ IsFiniteSet(x.subtitles) /\ Cardinality(x.subtitles) = 0
  <2>1. IsFiniteSet({o})
    BY FS_Singleton
  <2> QED  BY <1>5, <2>1, FS_EmptySet
<1> QED  BY <1>5, <1>6, <1>7 DEF Fits

LEMMA InitIInv ==
  ASSUME Init
  PROVE  IInv
<1>1. /\ layout \in Layouts /\ record = TRUE /\ transcode_dir = OutDir
      /\ task = [t \in Slot |-> Idle] /\ fetch = [m \in Id |-> NoFetch]
      /\ next_id = Films + 1 /\ requests = 0 /\ faults = 0
      /\ misled = {} /\ removed = {} /\ played = {} /\ deleted = {}
  BY DEF Init
<1>2. PICK stage \in [Film -> Stages] :
       LET sources == {f \in Film : stage[f] # "reclaimed"}
           outputs == {f \in Film : stage[f] \in {"transcoded", "reclaimed"}}
           has(f) == {p \in {Source(f)} : f \in sources} \cup {p \in {OutPath(f)} : f \in outputs}
       IN  /\ \A f, g \in outputs : f # g => OutPath(f) # OutPath(g)
           /\ entry = [m \in Id |-> IF m \in Film THEN FirstEntry(m, stage[m]) ELSE NoEntry]
           /\ disk = [p \in UNION {has(f) : f \in Film} |-> CHOOSE f \in Film : p \in has(f)]
  BY DEF Init
<1> DEFINE sources == {f \in Film : stage[f] # "reclaimed"}
           outputs == {f \in Film : stage[f] \in {"transcoded", "reclaimed"}}
           has(f) == {p \in {Source(f)} : f \in sources} \cup {p \in {OutPath(f)} : f \in outputs}
<1>3. /\ entry = [m \in Id |-> IF m \in Film THEN FirstEntry(m, stage[m]) ELSE NoEntry]
      /\ disk = [p \in UNION {has(f) : f \in Film} |-> CHOOSE f \in Film : p \in has(f)]
  BY <1>2
<1>4. Domains
  BY <1>1, <1>3 DEF Domains
<1>5. WorldFits
  BY <1>1, Constants DEF WorldFits
<1>6. DiskFits
  <2>1. \A f \in Film : \A p \in has(f) : p \in Path /\ p[3] = 0
    BY <1>1, Constants DEF Source, OutPath, Path, Dir
  <2> HIDE DEF has
  <2>2. ASSUME NEW p \in DOMAIN disk
        PROVE  p \in Path /\ p[3] = 0 /\ disk[p] \in Film
    <3>1. PICK f \in Film : p \in has(f)
      BY <1>3
    <3>2. disk[p] = CHOOSE k \in Film : p \in has(k)
      BY <1>3
    <3> QED  BY <3>1, <3>2, <2>1
  <2>3. 0 \in 0 .. requests
    BY <1>1
  <2> QED  BY <2>2, <2>3 DEF DiskFits
<1>7. EntriesFit
  <2> SUFFICES ASSUME NEW m \in Id, entry[m] # NoEntry
               PROVE  m \in Given /\ Fits(entry[m])
    BY DEF EntriesFit, Entries, Present
  <2>1. m \in Film /\ entry[m] = FirstEntry(m, stage[m])
    BY <1>3
  <2>2. stage[m] \in Stages \ {"loose"}
    BY <2>1 DEF FirstEntry
  <2>3. m \in Given
    BY <1>1, <2>1, Constants DEF Given, Film
  <2>4. PICK s \in Stages \ {"loose"} : s = stage[m]
    BY <2>2
  <2>5. Fits(FirstEntry(m, s))
    BY <1>1, <2>1, FirstEntryFits
  <2> QED  BY <2>1, <2>3, <2>4, <2>5
<1>8. TasksFit /\ FetchesFit
  BY <1>1 DEF TasksFit, FetchesFit, Active
<1>9. NothingIsUndone
  BY <1>1 DEF NothingIsUndone
<1> QED  BY <1>4, <1>5, <1>6, <1>7, <1>8, <1>9 DEF IInv

LEMMA IdlingKeeps ==
  ASSUME IInv, UNCHANGED vars
  PROVE  IInv'
<1>1. UNCHANGED <<settings, entry, disk, task, fetch, next_id, requests, faults, history>>
  BY DEF vars, tasks
<1>2. Grows
  BY <1>1, Still DEF settings
<1>3. Books'
  BY <1>1, <1>2, FetchKeeps DEF IInv, Domains, history
<1>4. WorldFits' /\ DiskFits'
  BY <1>1, <1>2, DiskStaysFit DEF IInv, WorldFits, Given, settings, history
<1> QED  BY <1>3, <1>4 DEF IInv, Books

LEMMA StepKeeps ==
  ASSUME IInv, NEW t \in Slot, Active(t), Step(t)
  PROVE  IInv'
<1>1. CASE PutProgress(t) \/ WriteSubtitle(t) \/ PutSubtitle(t)
  BY <1>1, PutProgressStep, WriteSubtitleStep, PutSubtitleStep
<1>2. CASE Encode(t) \/ EncodeFails(t) \/ GetJob(t) \/ PutJob(t)
  BY <1>2, EncodeStep, EncodeFailsStep, GetJobStep, PutJobStep
<1>3. CASE Remove(t) \/ RemovePayload(t)
  BY <1>3, RemoveStep, RemovePayloadStep
<1>4. ASSUME NEW m \in Id,
             Unlink(t, m) \/ FixOne(t, m) \/ CleanupOne(t, m) \/ MigrateOne(t, m)
      PROVE  IInv'
  BY <1>4, UnlinkStep, FixStep, CleanupStep, MigrateStep
<1>5. CASE UnlinkSource(t) \/ PutMigrated(t) \/ MoveRest(t)
  BY <1>5, UnlinkSourceStep, PutMigratedStep, MoveRestStep
<1>6. CASE ListScan(t)
  BY <1>6, ListScanStep
<1>7. ASSUME NEW p \in task[t].todo, PutScanned(t, p)
      PROVE  IInv'
  BY <1>7, PutScannedStep
<1> QED  BY <1>1, <1>2, <1>3, <1>4, <1>5, <1>6, <1>7 DEF Step

LEMMA NextIInv ==
  ASSUME IInv, [Next]_vars
  PROVE  IInv'
<1>1. ASSUME NEW t \in Slot, Request(t)
      PROVE  IInv'
  BY <1>1, AsksKeep
<1>2. ASSUME NEW t \in Slot, Active(t), Step(t)
      PROVE  IInv'
  BY <1>2, StepKeeps
<1>3. ASSUME NEW m \in Id, AskRefresh(m) \/ Lookup(m)
      PROVE  IInv'
  BY <1>3, AskRefreshStep, GetFetchedStep, PutFetchedStep, FindNothingStep DEF Lookup
<1>4. ASSUME NEW g, AskRefreshGroup(g)
      PROVE  IInv'
  BY <1>4, AskRefreshGroupStep
<1>5. CASE Crash
  BY <1>5, CrashStep
<1>6. ASSUME NEW p \in DOMAIN disk, Vanish(p)
      PROVE  IInv'
  BY <1>6, VanishStep
<1>7. CASE UNCHANGED vars
  BY <1>7, IdlingKeeps
<1> QED  BY <1>1, <1>2, <1>3, <1>4, <1>5, <1>6, <1>7 DEF Next

LEMMA Invariance == Spec => []IInv
<1>1. Init => IInv
  BY InitIInv
<1>2. IInv /\ [Next]_vars => IInv'
  BY NextIInv
<1> QED  BY <1>1, <1>2, PTL DEF Spec

LEMMA IInvTyped ==
  ASSUME IInv
  PROVE  TypeOK
<1>1. layout \in Layouts /\ record \in BOOLEAN /\ transcode_dir \in {OutDir, NewDir}
  BY DEF IInv, WorldFits
<1>2. \A m \in Id : Present(m) => Sound(entry[m])
  BY DEF IInv, EntriesFit, Entries, Fits
<1>3. DOMAIN disk \subseteq Path /\ \A p \in DOMAIN disk : disk[p] \in Film
  BY DEF IInv, DiskFits
<1>4. ASSUME NEW t \in Slot, Active(t)
      PROVE  /\ task[t].kind \in Kind
             /\ DOMAIN task[t].view \subseteq Id
             /\ \A m \in DOMAIN task[t].view : Sound(task[t].view[m])
             /\ {task[t].file, task[t].out} \subseteq Path \cup {NoPath}
             /\ DOMAIN task[t].found \subseteq Path
             /\ IF task[t].kind = "scan" THEN task[t].todo \subseteq DOMAIN task[t].found
                ELSE task[t].todo \subseteq DOMAIN task[t].view \/ task[t].phase = "rest"
             /\ task[t].serial \in 1 .. MaxRequests
             /\ task[t].outdated \cup task[t].left \subseteq Id
  <2>1. TaskFits(task[t])
    BY <1>4, TaskHere
  <2>2. task[t].serial \in 1 .. MaxRequests
    BY <2>1, Constants DEF TaskFits, IInv, WorldFits
  <2>3. /\ DOMAIN task[t].view \subseteq Id
        /\ \A m \in DOMAIN task[t].view : Sound(task[t].view[m])
    BY <2>1 DEF TaskFits, Knows, Given, Fits
  <2>4. /\ {task[t].file, task[t].out} \subseteq Path \cup {NoPath}
        /\ DOMAIN task[t].found \subseteq Path
    BY <2>1 DEF TaskFits, HasItsPaths, HasFound
  <2>5. IF task[t].kind = "scan" THEN task[t].todo \subseteq DOMAIN task[t].found
        ELSE task[t].todo \subseteq DOMAIN task[t].view \/ task[t].phase = "rest"
    BY <2>1 DEF TaskFits, Knows, HasFound
  <2> QED  BY <2>1, <2>2, <2>3, <2>4, <2>5 DEF TaskFits
<1>5. \A m \in Id : fetch[m] # NoFetch =>
        Sound(fetch[m].copy) /\ fetch[m].lookups \in {1, 2}
  BY DEF IInv, FetchesFit, FetchFits, Fits
<1>6. /\ next_id \in 1 .. MaxId + 1 /\ requests \in 0 .. MaxRequests
      /\ faults \in 0 .. MaxFaults
      /\ misled \cup deleted \subseteq Film /\ removed \cup played \subseteq Id
  BY DEF IInv, WorldFits, Given
<1> QED  BY <1>1, <1>2, <1>3, <1>4, <1>5, <1>6 DEF TypeOK

-----------------------------------------------------------------------------
(***************************************************************************)
(* The files of the films.                                                  *)
(***************************************************************************)
At(d) == d.view[d.at]

(* Nothing has misled f, and no task that has its files in hand has been     *)
(* overtaken: such a task is bound to mislead f.                             *)
Fair(f) ==
  /\ f \notin misled
  /\ \A t \in Slot : Holds(t) /\ View(t).film = f => task[t].at \notin task[t].outdated

(* The videos that m has, or will have when the task that moves them has     *)
(* written that down.                                                        *)
Held(m) == \E t \in Slot : Holds(t) /\ task[t].at = m /\ View(t).film = entry[m].film
MovedTo(m, p) ==
  \E t \in Slot : /\ IsMoving(task[t]) /\ task[t].at = m /\ View(t).film = entry[m].film
                  /\ p \in Plays(View(t))
Owns(m, p) ==
  /\ m \in Entries /\ Fair(entry[m].film)
  /\ (~ Held(m) /\ p \in Plays(entry[m])) \/ MovedTo(m, p)

HasVideos(e) == \A p \in Plays(e) : p[3] = 0
HasVersions(e) == e.ready # NoPath \/ e.transcoded # NoPath => e.versions # {}

(* What a task has read is what the store says, but for the entry it has in  *)
(* hand.                                                                     *)
Remembers(d) ==
  \A m \in DOMAIN d.view \ d.outdated :
    ((IsMoving(d) \/ IsUnlinking(d)) /\ d.at = m) \/ d.view[m] = entry[m]

(* Nobody else has what a job has written.                                   *)
WroteItsOwn(d) == HasWritten(d) => \A k \in Id : k # d.at => ~ Owns(k, d.out)

(* A clean-up that goes by what the store says.                              *)
Unlinks(d) == IsUnlinking(d) /\ d.at \notin d.outdated /\ Fair(At(d).film)

(* A source about to be deleted is nobody's any more, and no other film's.   *)
UnlinksItsOwn(d) ==
  Unlinks(d) =>
    /\ \A k \in Id : ~ Owns(k, d.file)
    /\ Exists(d.file) => disk[d.file] \in {At(d).film} \cup misled

InNewDir(e) == \A p \in Plays(e) : p[1] = NewDir

(* A migration has moved all of every entry it has been to.                  *)
Migrates(d) ==
  d.kind = "migrate" =>
    /\ \A k \in Entries : Fair(entry[k].film) /\ k \notin d.outdated \cup d.left =>
         (d.phase # "rest" /\ k \in d.todo) \/ InNewDir(entry[k])
    /\ IsMoving(d) /\ Fair(At(d).film) =>
         /\ HasVersions(At(d))
         /\ d.at \notin d.left => InNewDir(At(d))
         /\ \A p \in Plays(At(d)) : p[1] = NewDir \/ p \in Plays(entry[d.at])

(* What a scan is about to import is in no entry it knows of.                *)
ScansNew(d) ==
  d.kind = "scan" /\ d.phase = "put" =>
    \A p \in d.todo : \A k \in Entries \ d.outdated : p \notin Plays(entry[k])

Deletes(d) ==
  d.kind \in {"delete", "torrent"} => \A m \in DOMAIN d.view : d.view[m].film \in deleted

Sees(d) ==
  /\ \A m \in DOMAIN d.view : HasVideos(d.view[m])
  /\ \A p \in DOMAIN d.found : p[3] = 0
  /\ IsUnlinking(d) => d.file[3] = 0

TaskSafe(d) ==
  /\ Sees(d) /\ Remembers(d) /\ WroteItsOwn(d) /\ UnlinksItsOwn(d) /\ Migrates(d)
  /\ ScansNew(d) /\ Deletes(d)

TasksSafe == \A t \in Slot : task[t] # Idle => TaskSafe(task[t])

LookupsSafe ==
  \A m \in Id : fetch[m] # NoFetch =>
    /\ HasVideos(fetch[m].copy)
    /\ fetch[m].phase = "holding" /\ ~ fetch[m].outdated => fetch[m].copy = entry[m]

EntrySafe(e) == HasVideos(e) /\ (Fair(e.film) => HasVersions(e))
EntriesSafe == \A m \in Entries : EntrySafe(entry[m])

OwnedIsThere == \A m, p : Owns(m, p) => Exists(p) /\ disk[p] = entry[m].film
OwnersDiffer == \A m, k, p : Owns(m, p) /\ Owns(k, p) => m = k

OneHolder ==
  \A t, u \in Slot :
    Holds(t) /\ Holds(u) /\ View(t).film = View(u).film /\ Fair(View(t).film) => t = u

(* What a job has written is no other task's, unless that misled its film.   *)
InWork(d, p) == (HasWritten(d) /\ d.out = p) \/ (Unlinks(d) /\ d.file = p)
OutputsApart ==
  \A t, u \in Slot :
    HasWritten(task[t]) /\ InWork(task[u], task[t].out) /\ task[u].at # task[t].at
      /\ Exists(task[t].out) => disk[task[t].out] \in misled

Safe ==
  /\ TasksSafe /\ LookupsSafe /\ EntriesSafe /\ OwnedIsThere /\ OwnersDiffer
  /\ OneHolder /\ OutputsApart /\ FilmsSurvive

-----------------------------------------------------------------------------
(* Who holds what.                                                           *)
LEMMA NoPathIsNone == ASSUME NEW p \in Path PROVE p # NoPath
<1>1. PICK X : X = {layout.stem[f] : f \in Film} \cup {<<"transcode", layout.stem[f]>> : f \in Film}
  OBVIOUS
<1>2. p \in Dir \X X \X (0 .. MaxRequests)
  BY <1>1 DEF Path
<1>3. p = <<p[1], p[2], p[3]>>
  BY <1>2
<1>4. DOMAIN <<p[1], p[2], p[3]>> = 1 .. 3 /\ DOMAIN <<"no path">> = 1 .. 1
  OBVIOUS
<1>5. <<p[1], p[2], p[3]>> # <<"no path">>
  BY <1>4
<1> QED  BY <1>3, <1>5 DEF NoPath

LEMMA HoldsIs ==
  ASSUME NEW t \in Slot
  PROVE  Holds(t) <=> IsMoving(task[t]) \/ IsRemoving(task[t])
BY DEF Holds, IsMoving, IsRemoving, Is, Active, Idle

(* A task that holds an entry knows its film, or knows that it is outdated.  *)
LEMMA HolderHere ==
  ASSUME IInv, NEW t \in Slot, Holds(t)
  PROVE  /\ Active(t) /\ task[t].at \in DOMAIN task[t].view /\ task[t].at \in Given
         /\ task[t].at \notin task[t].outdated =>
              Present(task[t].at) /\ View(t).film = entry[task[t].at].film
<1>1. Active(t) /\ task[t].at \in DOMAIN task[t].view
  BY AtHere DEF Holds
<1> QED  BY <1>1, ViewHere DEF View, Same

(* The tasks but those of T go on as they were, and are told of W.           *)
AsBefore(c, d, W) ==
  \/ c = Idle /\ d = Idle
  \/ /\ c # Idle /\ d # Idle
     /\ d.kind = c.kind /\ d.phase = c.phase /\ d.view = c.view /\ d.todo = c.todo
     /\ d.at = c.at /\ d.file = c.file /\ d.out = c.out /\ d.found = c.found
     /\ d.outdated = c.outdated \cup W /\ d.left = c.left
Others(T, W) == \A u \in Slot \ T : AsBefore(task[u], task'[u], W)

LEMMA AsBeforeHolds ==
  ASSUME NEW u \in Slot, NEW W, AsBefore(task[u], task'[u], W)
  PROVE  /\ (Holds(u))' <=> Holds(u)
         /\ (IsMoving(task[u]))' <=> IsMoving(task[u])
         /\ (IsUnlinking(task[u]))' <=> IsUnlinking(task[u])
         /\ (HasWritten(task[u]))' <=> HasWritten(task[u])
         /\ task[u] # Idle => /\ (View(u))' = View(u)
                              /\ task'[u].at = task[u].at /\ task'[u].out = task[u].out
                              /\ task'[u].file = task[u].file
                              /\ task'[u].outdated = task[u].outdated \cup W
<1>1. CASE task[u] = Idle /\ task'[u] = Idle
  BY <1>1 DEF Holds, Is, Active, IsMoving, IsUnlinking, HasWritten
<1>2. CASE task[u] # Idle /\ task'[u] # Idle
  BY <1>2 DEF Holds, Is, Active, IsMoving, IsUnlinking, HasWritten, View, AsBefore
<1> QED  BY <1>1, <1>2 DEF AsBefore

(* What is fair was fair, if no task lets go of what it was told about       *)
(* without misleading it.                                                    *)
LEMMA FairBefore ==
  ASSUME NEW T \in SUBSET Slot, NEW W, Others(T, W), misled \subseteq misled',
         \A t \in T : Holds(t) /\ task[t].at \in task[t].outdated => View(t).film \in misled'
  PROVE  \A f : (Fair(f))' => Fair(f)
<1> SUFFICES ASSUME NEW f, (Fair(f))', NEW u \in Slot, Holds(u), View(u).film = f,
                    task[u].at \in task[u].outdated
             PROVE  FALSE
  BY DEF Fair
<1>1. f \notin misled'
  BY DEF Fair
<1>2. u \notin T
  BY <1>1
<1>3. AsBefore(task[u], task'[u], W) /\ task[u] # Idle
  BY <1>2 DEF Others, Holds, Is, Active
<1>4. (Holds(u))' /\ (View(u))' = View(u) /\ task'[u].at \in task'[u].outdated
  BY <1>3, AsBeforeHolds
<1> QED  BY <1>4 DEF Fair

(* What an entry has that was not written it had.                            *)
LEMMA OwnsBefore ==
  ASSUME NEW T \in SUBSET Slot, NEW W, Others(T, W), \A f : (Fair(f))' => Fair(f),
         NEW k \in Id, entry'[k] = entry[k],
         \A t \in T : Holds(t) => task[t].at # k,
         \A t \in T : (IsMoving(task[t]))' =>
           task'[t].at # k \/ (View(t))'.film # entry[k].film
  PROVE  \A p : (Owns(k, p))' => Owns(k, p)
<1> SUFFICES ASSUME NEW p, (Owns(k, p))'  PROVE Owns(k, p)
  OBVIOUS
<1>0. \A u \in Slot \ T : AsBefore(task[u], task'[u], W)
  BY DEF Others
<1>1. k \in Entries /\ Fair(entry[k].film)
  BY DEF Owns, Entries, Present
<1>2. Held(k) => (Held(k))'
  <2> SUFFICES ASSUME NEW u \in Slot, Holds(u), task[u].at = k, View(u).film = entry[k].film
               PROVE  (Held(k))'
    BY DEF Held
  <2>1. AsBefore(task[u], task'[u], W) /\ task[u] # Idle
    BY <1>0 DEF Holds, Is, Active
  <2>2. (Holds(u))' /\ (View(u))' = View(u) /\ task'[u].at = task[u].at
    BY <2>1, AsBeforeHolds
  <2> QED  BY <2>2 DEF Held
<1>3. (MovedTo(k, p))' => MovedTo(k, p)
  <2> SUFFICES ASSUME NEW u \in Slot, (IsMoving(task[u]))', task'[u].at = k,
                      (View(u))'.film = entry'[k].film, p \in (Plays(View(u)))'
               PROVE  MovedTo(k, p)
    BY DEF MovedTo
  <2>1. AsBefore(task[u], task'[u], W)
    BY <1>0
  <2>2. IsMoving(task[u])
    BY <2>1, AsBeforeHolds
  <2>3. task[u] # Idle
    BY <2>2 DEF IsMoving, Idle
  <2>4. (View(u))' = View(u) /\ task'[u].at = task[u].at
    BY <2>1, <2>3, AsBeforeHolds
  <2>5. p \in Plays(View(u))
    BY <2>4 DEF Plays
  <2> QED  BY <2>2, <2>4, <2>5 DEF MovedTo
<1>4. (Plays(entry[k]))' = Plays(entry[k])
  BY DEF Plays
<1> QED  BY <1>1, <1>2, <1>3, <1>4 DEF Owns

-----------------------------------------------------------------------------
(* The invariant after a step, part by part.                                 *)

(* What lies at p is what lay there, or it came at its film's expense.       *)
Kept(p) == p \in DOMAIN disk' => \/ p \in DOMAIN disk /\ disk'[p] = disk[p]
                                 \/ disk'[p] \in misled'

(* A task goes on as it was.                                                 *)
LEMMA TaskStaysSafe ==
  ASSUME NEW W \in SUBSET Id, \A k \in Id \ W : entry'[k] = entry[k],
         misled \subseteq misled', deleted \subseteq deleted',
         \A f : (Fair(f))' => Fair(f),
         NEW c, NEW d, AsBefore(c, d, W), d # Idle, TaskSafe(c), DOMAIN c.view \subseteq Id,
         IsMoving(c) \/ IsUnlinking(c) => c.at \in DOMAIN c.view,
         IsMoving(d) /\ d.at \in d.outdated => ~ (Fair(At(d).film))',
         \A k \in Id : \A p : (Owns(k, p))' =>
            Owns(k, p) \/ ~ (InWork(d, p))' \/ (k = d.at /\ k \in W),
         (Unlinks(d))' => Kept(d.file)
  PROVE  (TaskSafe(d))'
<1>1. /\ d.kind = c.kind /\ d.phase = c.phase /\ d.view = c.view /\ d.todo = c.todo
      /\ d.at = c.at /\ d.file = c.file /\ d.out = c.out /\ d.found = c.found
      /\ d.outdated = c.outdated \cup W /\ d.left = c.left
  BY DEF AsBefore
<1>2. /\ Sees(c) /\ Remembers(c) /\ WroteItsOwn(c) /\ UnlinksItsOwn(c) /\ Migrates(c)
      /\ ScansNew(c) /\ Deletes(c)
  BY DEF TaskSafe
<1>3. /\ IsMoving(d) <=> IsMoving(c)
      /\ IsUnlinking(d) <=> IsUnlinking(c)
      /\ HasWritten(d) <=> HasWritten(c)
      /\ At(d) = At(c)
  BY <1>1 DEF IsMoving, IsUnlinking, HasWritten, At
<1>4. (Unlinks(d))' => Unlinks(c) /\ d.at \notin W
  BY <1>1, <1>3 DEF Unlinks, IsUnlinking, At
<1>5. (Sees(d))'
  BY <1>1, <1>2 DEF Sees, HasVideos, Plays, IsUnlinking
<1>6. (Remembers(d))'
  <2> SUFFICES ASSUME NEW m \in DOMAIN d.view \ d.outdated,
                      ~ ((IsMoving(d) \/ IsUnlinking(d)) /\ d.at = m)
               PROVE  d.view[m] = entry'[m]
    BY DEF Remembers, IsMoving, IsUnlinking
  <2>1. m \in DOMAIN c.view \ c.outdated /\ m \in Id \ W
    BY <1>1
  <2>2. c.view[m] = entry[m]
    BY <2>1, <1>1, <1>2, <1>3 DEF Remembers
  <2> QED  BY <2>1, <2>2, <1>1
<1>7. (WroteItsOwn(d))'
  <2> SUFFICES ASSUME HasWritten(d), NEW k \in Id, k # d.at, (Owns(k, d.out))'
               PROVE  FALSE
    BY DEF WroteItsOwn, HasWritten
  <2>1. (InWork(d, d.out))'
    BY DEF InWork, HasWritten
  <2>2. Owns(k, d.out)
    BY <2>1
  <2> QED  BY <2>2, <1>1, <1>2, <1>3 DEF WroteItsOwn
<1>8. (UnlinksItsOwn(d))'
  <2> SUFFICES ASSUME (Unlinks(d))'
               PROVE  /\ \A k \in Id : ~ (Owns(k, d.file))'
                      /\ d.file \in DOMAIN disk' => disk'[d.file] \in {At(d).film} \cup misled'
    BY DEF UnlinksItsOwn, Exists, At
  <2>1. (InWork(d, d.file))'
    BY DEF InWork
  <2>2. /\ \A k \in Id : ~ Owns(k, c.file)
        /\ Exists(c.file) => disk[c.file] \in {At(c).film} \cup misled
    BY <1>2, <1>4 DEF UnlinksItsOwn
  <2>3. \A k \in Id : ~ (Owns(k, d.file))'
    BY <2>1, <2>2, <1>1, <1>4
  <2>4. Kept(d.file)
    OBVIOUS
  <2> QED  BY <2>2, <2>3, <2>4, <1>1, <1>3 DEF Kept, Exists
<1>9. (Migrates(d))'
  <2> SUFFICES ASSUME d.kind = "migrate"
               PROVE  /\ \A k \in Id :
                           entry'[k] # NoEntry /\ (Fair(entry[k].film))' /\ k \notin d.outdated \cup d.left =>
                             (d.phase # "rest" /\ k \in d.todo) \/ InNewDir(entry'[k])
                      /\ IsMoving(d) /\ (Fair(At(d).film))' =>
                           /\ HasVersions(At(d))
                           /\ d.at \notin d.left => InNewDir(At(d))
                           /\ \A p \in Plays(At(d)) : p[1] = NewDir \/ p \in Plays(entry'[d.at])
    BY DEF Migrates, Entries, Present, InNewDir, HasVersions, Plays, IsMoving, At
  <2>1. ASSUME NEW k \in Id, entry'[k] # NoEntry, (Fair(entry[k].film))',
               k \notin d.outdated \cup d.left
        PROVE  (d.phase # "rest" /\ k \in d.todo) \/ InNewDir(entry'[k])
    <3>1. entry'[k] = entry[k] /\ k \in Entries /\ k \notin c.outdated \cup c.left
      BY <1>1, <2>1 DEF Entries, Present
    <3>2. Fair(entry[k].film)
      BY <2>1, <3>1
    <3> QED  BY <3>1, <3>2, <1>1, <1>2 DEF Migrates
  <2>2. ASSUME IsMoving(d), (Fair(At(d).film))'
        PROVE  /\ HasVersions(At(d))
               /\ d.at \notin d.left => InNewDir(At(d))
               /\ \A p \in Plays(At(d)) : p[1] = NewDir \/ p \in Plays(entry'[d.at])
    <3>1. Fair(At(c).film) /\ IsMoving(c)
      BY <1>3, <2>2
    <3>2. d.at \notin W /\ d.at \in Id
      BY <2>2, <3>1, <1>1
    <3>3. entry'[d.at] = entry[c.at]
      BY <3>2, <1>1
    <3> QED  BY <3>1, <3>3, <1>1, <1>2, <1>3 DEF Migrates
  <2> QED  BY <2>1, <2>2
<1>10. (ScansNew(d))'
  <2> SUFFICES ASSUME d.kind = "scan", d.phase = "put", NEW p \in d.todo, NEW k \in Id,
                      entry'[k] # NoEntry, k \notin d.outdated
               PROVE  p \notin Plays(entry'[k])
    BY DEF ScansNew, Entries, Present, Plays
  <2>1. entry'[k] = entry[k] /\ k \in Entries \ c.outdated
    BY <1>1 DEF Entries, Present
  <2> QED  BY <2>1, <1>1, <1>2 DEF ScansNew
<1>11. (Deletes(d))'
  BY <1>1, <1>2 DEF Deletes
<1> QED  BY <1>5, <1>6, <1>7, <1>8, <1>9, <1>10, <1>11 DEF TaskSafe

(* What k comes to have at p is there, and nobody else has it.               *)
Gains(T, W, k, p) ==
  /\ p \in DOMAIN disk' /\ disk'[p] = entry'[k].film
  /\ \A j \in Id : (Owns(j, p))' => j = k
  /\ \A u \in Slot \ T : (InWork(task[u], p))' => task'[u].at = k /\ k \in W

(* What k has it had, and it is still there.                                 *)
Keeps(k, p) ==
  /\ Owns(k, p) /\ entry'[k].film = entry[k].film
  /\ p \in DOMAIN disk' /\ disk'[p] = disk[p]

(* t comes to hold what nobody else does, and to have written what nobody    *)
(* else has.                                                                 *)
HoldsAlone(t) ==
  (Holds(t))' /\ (Fair(View(t).film))' =>
    \A u \in Slot \ {t} : ~ ((Holds(u))' /\ (View(u).film = View(t).film)')
WritesAlone(t, u) ==
  /\ (HasWritten(task[t]) /\ InWork(task[u], task[t].out) /\ task[u].at # task[t].at)'
  /\ task'[t].out \in DOMAIN disk'
  => disk'[task'[t].out] \in misled'

(* A step of the tasks T, at most one, that writes the entries W.            *)
Works(T, W) ==
  /\ Others(T, W)
  /\ \A k \in Id \ W : entry'[k] = entry[k]
  /\ misled \subseteq misled' /\ deleted \subseteq deleted'
  /\ \A f : (Fair(f))' => Fair(f)

LEMMA InWorkBefore ==
  ASSUME NEW u \in Slot, NEW W, AsBefore(task[u], task'[u], W),
         \A f : (Fair(f))' => Fair(f), NEW p, (InWork(task[u], p))'
  PROVE  InWork(task[u], p) /\ task[u] # Idle /\ task'[u].at = task[u].at
<1>1. (IsUnlinking(task[u]))' \/ (HasWritten(task[u]))'
  BY DEF InWork, Unlinks
<1>2. task[u] # Idle
  BY <1>1, AsBeforeHolds DEF IsUnlinking, HasWritten, Idle
<1>3. /\ (View(u))' = View(u) /\ task'[u].at = task[u].at /\ task'[u].out = task[u].out
      /\ task'[u].file = task[u].file /\ task'[u].outdated = task[u].outdated \cup W
  BY <1>2, AsBeforeHolds
<1>4. CASE (HasWritten(task[u]) /\ task[u].out = p)'
  BY <1>2, <1>3, <1>4, AsBeforeHolds DEF InWork
<1>5. CASE (Unlinks(task[u]) /\ task[u].file = p)'
  <2>1. IsUnlinking(task[u]) /\ task[u].at \notin task[u].outdated /\ task[u].file = p
    BY <1>3, <1>5, AsBeforeHolds DEF Unlinks
  <2>2. (Fair(View(u).film))'
    BY <1>5 DEF Unlinks, At, View
  <2>3. Fair(View(u).film)
    BY <2>2, <1>3
  <2> QED  BY <1>2, <1>3, <2>1, <2>3 DEF InWork, Unlinks, At, View
<1> QED  BY <1>4, <1>5 DEF InWork

(* Files that a clean-up is about to delete, or that were written for two.   *)
Contested(T, p) ==
  \E u \in Slot \ T :
    /\ InWork(task[u], p)
    /\ Unlinks(task[u])
         \/ \E v \in Slot \ T : InWork(task[v], p) /\ task[v].at # task[u].at
AllKept(T) == \A p : (Contested(T, p))' => Kept(p)

LEMMA SafeAgain ==
  ASSUME IInv, Safe, NEW T \in SUBSET Slot, \A t, u \in T : t = u,
         NEW W \in SUBSET Id, Works(T, W),
         \A t \in T : task'[t] # Idle => (TaskSafe(task[t]))',
         LookupsSafe', FilmsSurvive',
         \A k \in W : entry'[k] # NoEntry => (EntrySafe(entry[k]))',
         \A k \in Id : \A p : (Owns(k, p))' => Keeps(k, p) \/ Gains(T, W, k, p),
         AllKept(T),
         \A t \in T : HoldsAlone(t),
         \A t \in T, u \in Slot \ T : WritesAlone(t, u) /\ WritesAlone(u, t)
  PROVE  Safe'
<1>1. /\ \A u \in Slot \ T : AsBefore(task[u], task'[u], W)
      /\ \A k \in Id \ W : entry'[k] = entry[k]
      /\ misled \subseteq misled' /\ deleted \subseteq deleted'
      /\ \A f : (Fair(f))' => Fair(f)
  BY DEF Works, Others
<1>2. /\ TasksSafe /\ LookupsSafe /\ EntriesSafe /\ OwnedIsThere /\ OwnersDiffer
      /\ OneHolder /\ OutputsApart
  BY DEF Safe
<1>3. TasksSafe'
  <2> SUFFICES ASSUME NEW u \in Slot, task'[u] # Idle  PROVE (TaskSafe(task[u]))'
    BY DEF TasksSafe
  <2>1. CASE u \in T
    BY <2>1
  <2>2. CASE u \notin T
    <3>1. PICK c : c = task[u]
      OBVIOUS
    <3>2. PICK d : d = task'[u]
      OBVIOUS
    <3>3. AsBefore(c, d, W) /\ d # Idle /\ c # Idle
      BY <2>2, <3>1, <3>2, <1>1 DEF AsBefore
    <3>4. TaskSafe(c) /\ TaskFits(c)
      BY <3>1, <3>3, <1>2, TaskHere DEF TasksSafe, Active
    <3>5. DOMAIN c.view \subseteq Id /\ (IsMoving(c) \/ IsUnlinking(c) => c.at \in DOMAIN c.view)
      BY <3>4 DEF TaskFits, Knows, Given, IsMoving, IsUnlinking
    <3>6. IsMoving(d) /\ d.at \in d.outdated => ~ (Fair(At(d).film))'
      <4> SUFFICES ASSUME IsMoving(d), d.at \in d.outdated, (Fair(At(d).film))'  PROVE FALSE
        OBVIOUS
      <4>1. (Holds(u))'
        BY <3>2, HoldsIs DEF IsMoving, Holds, Is, Active, Idle
      <4>2. At(d) = (View(u))'
        BY <3>2 DEF At, View
      <4> QED  BY <3>2, <4>1, <4>2 DEF Fair
    <3>7. \A k \in Id : \A p : (Owns(k, p))' =>
            Owns(k, p) \/ ~ (InWork(d, p))' \/ (k = d.at /\ k \in W)
      <4> SUFFICES ASSUME NEW k \in Id, NEW p, (Owns(k, p))', ~ Owns(k, p), (InWork(d, p))'
                   PROVE  k = d.at /\ k \in W
        OBVIOUS
      <4>1. Gains(T, W, k, p)
        BY DEF Keeps
      <4>2. (InWork(task[u], p))'
        BY <3>2
      <4> QED  BY <4>1, <4>2, <2>2, <3>2 DEF Gains
    <3>8. (Unlinks(d))' => Kept(d.file)
      <4> SUFFICES ASSUME (Unlinks(d))'  PROVE Kept(d.file)
        OBVIOUS
      <4>1. (Unlinks(task[u]))'
        BY <3>2
      <4>2. PICK p : p = d.file
        OBVIOUS
      <4>3. (InWork(task[u], p))'
        BY <4>1, <4>2, <3>2 DEF InWork
      <4>4. (Contested(T, p))'
        BY <4>1, <4>3, <2>2 DEF Contested
      <4> QED  BY <4>2, <4>4 DEF AllKept
    <3>9. (TaskSafe(d))'
      BY <1>1, <3>3, <3>4, <3>5, <3>6, <3>7, <3>8, TaskStaysSafe
    <3> QED  BY <3>2, <3>9
  <2> QED  BY <2>1, <2>2
<1>4. EntriesSafe'
  <2> SUFFICES ASSUME NEW k \in Id, entry'[k] # NoEntry  PROVE (EntrySafe(entry[k]))'
    BY DEF EntriesSafe, Entries, Present
  <2>1. CASE k \in W
    BY <2>1
  <2>2. CASE k \notin W
    <3>1. entry'[k] = entry[k] /\ k \in Entries
      BY <2>2, <1>1 DEF Entries, Present
    <3>2. EntrySafe(entry[k])
      BY <3>1, <1>2 DEF EntriesSafe
    <3> QED  BY <3>1, <3>2, <1>1 DEF EntrySafe, HasVideos, HasVersions, Plays
  <2> QED  BY <2>1, <2>2
<1>5. OwnedIsThere'
  <2> SUFFICES ASSUME NEW k, NEW p, (Owns(k, p))'
               PROVE  p \in DOMAIN disk' /\ disk'[p] = entry'[k].film
    BY DEF OwnedIsThere, Exists
  <2>1. k \in Id
    BY DEF Owns, Entries
  <2>2. CASE Keeps(k, p)
    BY <2>2, <1>2 DEF Keeps, OwnedIsThere
  <2>3. CASE Gains(T, W, k, p)
    BY <2>3 DEF Gains
  <2> QED  BY <2>1, <2>2, <2>3
<1>6. OwnersDiffer'
  <2> SUFFICES ASSUME NEW k, NEW j, NEW p, (Owns(k, p))', (Owns(j, p))'  PROVE k = j
    BY DEF OwnersDiffer
  <2>1. k \in Id /\ j \in Id
    BY DEF Owns, Entries
  <2>2. CASE Gains(T, W, k, p) \/ Gains(T, W, j, p)
    BY <2>1, <2>2 DEF Gains
  <2>3. CASE Keeps(k, p) /\ Keeps(j, p)
    BY <2>3, <1>2 DEF Keeps, OwnersDiffer
  <2> QED  BY <2>1, <2>2, <2>3
<1>7. OneHolder'
  <2> SUFFICES ASSUME NEW t \in Slot, NEW u \in Slot, (Holds(t))', (Holds(u))',
                      (View(t).film = View(u).film)', (Fair(View(t).film))', t # u
               PROVE  FALSE
    BY DEF OneHolder
  <2>1. CASE t \in T \/ u \in T
    <3>1. (Fair(View(u).film))'
      OBVIOUS
    <3> QED  BY <2>1, <3>1 DEF HoldsAlone
  <2>2. CASE t \notin T /\ u \notin T
    <3>1. AsBefore(task[t], task'[t], W) /\ AsBefore(task[u], task'[u], W)
      BY <2>2, <1>1
    <3>2. Holds(t) /\ Holds(u)
      BY <3>1, AsBeforeHolds
    <3>3. task[t] # Idle /\ task[u] # Idle
      BY <3>2 DEF Holds, Is, Active
    <3>4. (View(t))' = View(t) /\ (View(u))' = View(u)
      BY <3>1, <3>3, AsBeforeHolds
    <3>5. Fair(View(t).film)
      BY <3>4, <1>1
    <3> QED  BY <3>2, <3>4, <3>5, <1>2 DEF OneHolder
  <2> QED  BY <2>1, <2>2
<1>8. OutputsApart'
  <2> SUFFICES ASSUME NEW t \in Slot, NEW u \in Slot,
                      (HasWritten(task[t]) /\ InWork(task[u], task[t].out)
                         /\ task[u].at # task[t].at)',
                      task'[t].out \in DOMAIN disk'
               PROVE  disk'[task'[t].out] \in misled'
    BY DEF OutputsApart, Exists
  <2>1. t # u
    OBVIOUS
  <2>2. CASE t \in T \/ u \in T
    BY <2>1, <2>2 DEF WritesAlone
  <2>3. CASE t \notin T /\ u \notin T
    <3>1. AsBefore(task[t], task'[t], W) /\ AsBefore(task[u], task'[u], W)
      BY <2>3, <1>1
    <3>2. HasWritten(task[t]) /\ task[t] # Idle
      BY <3>1, AsBeforeHolds DEF HasWritten, Idle
    <3>3. task'[t].at = task[t].at /\ task'[t].out = task[t].out
      BY <3>1, <3>2, AsBeforeHolds
    <3>4. InWork(task[u], task[t].out) /\ task'[u].at = task[u].at
      <4>1. PICK p : p = task'[t].out
        OBVIOUS
      <4>2. (InWork(task[u], p))'
        BY <4>1
      <4>3. InWork(task[u], p) /\ task'[u].at = task[u].at
        BY <4>2, <3>1, <1>1, InWorkBefore
      <4> QED  BY <4>1, <4>3, <3>3
    <3>5. Exists(task[t].out) => disk[task[t].out] \in misled
      BY <3>2, <3>3, <3>4, <1>2 DEF OutputsApart
    <3>6. Kept(task[t].out)
      <4>1. PICK p : p = task'[t].out
        OBVIOUS
      <4>2. (InWork(task[u], p))' /\ (InWork(task[t], p))'
        BY <4>1 DEF InWork
      <4>3. (Contested(T, p))'
        BY <4>2, <2>3 DEF Contested
      <4>4. Kept(p)
        BY <4>3 DEF AllKept
      <4> QED  BY <4>1, <4>4, <3>3
    <3> QED  BY <3>3, <3>5, <3>6, <1>1 DEF Kept, Exists
  <2> QED  BY <2>2, <2>3
<1> QED  BY <1>3, <1>4, <1>5, <1>6, <1>7, <1>8 DEF Safe

-----------------------------------------------------------------------------
(* Steps that leave the store alone.                                         *)
LEMMA PrivateWorks ==
  ASSUME IInv, NEW t \in Slot, NEW d, task' = [task EXCEPT ![t] = d], entry' = entry,
         misled \subseteq misled', deleted \subseteq deleted', ~ Holds(t)
  PROVE  /\ task'[t] = d /\ Works({t}, {})
         /\ \A k \in Id : (IsMoving(d) => d.at # k \/ At(d).film # entry[k].film) =>
              \A p : (Owns(k, p))' => Owns(k, p)
<1>1. task'[t] = d /\ \A u \in Slot \ {t} : task'[u] = task[u]
  BY DEF IInv, Domains
<1>2. Others({t}, {})
  BY <1>1 DEF Others, AsBefore
<1>3. \A f : (Fair(f))' => Fair(f)
  <2>1. \A u \in {t} : Holds(u) /\ task[u].at \in task[u].outdated => View(u).film \in misled'
    OBVIOUS
  <2> QED  BY <1>2, <2>1, FairBefore
<1>4. ASSUME NEW k \in Id, IsMoving(d) => d.at # k \/ At(d).film # entry[k].film
      PROVE  \A p : (Owns(k, p))' => Owns(k, p)
  <2>1. \A u \in {t} : Holds(u) => task[u].at # k
    OBVIOUS
  <2>2. \A u \in {t} : (IsMoving(task[u]))' =>
          task'[u].at # k \/ (View(u))'.film # entry[k].film
    BY <1>1, <1>4 DEF IsMoving, View, At
  <2>3. entry'[k] = entry[k]
    OBVIOUS
  <2> QED  BY <1>2, <1>3, <2>1, <2>2, <2>3, OwnsBefore
<1> QED  BY <1>1, <1>2, <1>3, <1>4 DEF Works

(* A file owned before and after the step stays.                             *)
OwnedStays ==
  \A k \in Id : \A p : Owns(k, p) /\ (Owns(k, p))' => p \in DOMAIN disk' /\ disk'[p] = disk[p]

LEMMA PrivateSafe ==
  ASSUME IInv, Safe, NEW t \in Slot, NEW d, task' = [task EXCEPT ![t] = d],
         UNCHANGED <<entry, fetch>>, misled \subseteq misled', deleted \subseteq deleted',
         ~ Holds(t), ~ IsMoving(d), ~ IsRemoving(d), d = Idle \/ (TaskSafe(d))',
         OwnedStays, AllKept({t}), FilmsSurvive',
         \A u \in Slot \ {t} : WritesAlone(t, u) /\ WritesAlone(u, t)
  PROVE  Safe'
<1>1. task'[t] = d /\ Works({t}, {})
  BY PrivateWorks
<1>2. \A k \in Id : \A p : (Owns(k, p))' => Owns(k, p)
  BY PrivateWorks
<1>3. \A k \in Id : \A p : (Owns(k, p))' => Keeps(k, p) \/ Gains({t}, {}, k, p)
  BY <1>2 DEF OwnedStays, Keeps
<1>4. LookupsSafe'
  BY DEF Safe, LookupsSafe, HasVideos, Plays
<1>5. HoldsAlone(t)
  <2>1. ~ (Holds(t))'
    BY <1>1 DEF Holds, Is, Active, IsMoving, IsRemoving
  <2> QED  BY <2>1 DEF HoldsAlone
<1>6. task'[t] # Idle => (TaskSafe(task[t]))'
  BY <1>1
<1> QED  BY <1>1, <1>3, <1>4, <1>5, <1>6, SafeAgain

(* Steps of no task.                                                         *)
LEMMA LooksSafe ==
  ASSUME IInv, Safe, UNCHANGED <<task, entry>>,
         misled \subseteq misled', deleted \subseteq deleted',
         LookupsSafe', OwnedStays, AllKept({}), FilmsSurvive'
  PROVE  Safe'
<1>1. Others({}, {})
  BY DEF Others, AsBefore
<1>2. \A f : (Fair(f))' => Fair(f)
  BY <1>1, FairBefore
<1>3. \A k \in Id : \A p : (Owns(k, p))' => Owns(k, p)
  BY <1>1, <1>2, OwnsBefore
<1>4. \A k \in Id : \A p : (Owns(k, p))' => Keeps(k, p) \/ Gains({}, {}, k, p)
  BY <1>3 DEF OwnedStays, Keeps
<1>5. Works({}, {})
  BY <1>1, <1>2 DEF Works
<1> QED  BY <1>4, <1>5, SafeAgain

LEMMA SameDisk ==
  ASSUME Safe, disk' = disk, misled \subseteq misled', deleted \subseteq deleted',
         layout' = layout
  PROVE  OwnedStays /\ (\A T : AllKept(T)) /\ FilmsSurvive'
<1>1. OwnedStays
  BY DEF OwnedStays, Owns, Safe, OwnedIsThere, Exists
<1>2. \A T : AllKept(T)
  BY DEF AllKept, Kept
<1>3. FilmsSurvive'
  BY DEF Safe, FilmsSurvive
<1> QED  BY <1>1, <1>2, <1>3

(* Files that go at the expense of their films.                              *)
LEMMA Drops ==
  ASSUME Safe, NEW S, disk' = Without(S), entry' = entry,
         misled \subseteq misled', deleted \subseteq deleted',
         \A p \in S : p \in DOMAIN disk => disk[p] \in misled'
  PROVE  OwnedStays /\ (\A T : AllKept(T)) /\ FilmsSurvive'
<1>1. DOMAIN disk' = DOMAIN disk \ S /\ \A p \in DOMAIN disk' : disk'[p] = disk[p]
  BY DEF Without
<1>2. OwnedStays
  <2> SUFFICES ASSUME NEW k \in Id, NEW p, Owns(k, p), (Owns(k, p))'
               PROVE  p \in DOMAIN disk' /\ disk'[p] = disk[p]
    BY DEF OwnedStays
  <2>1. p \in DOMAIN disk /\ disk[p] = entry[k].film
    BY DEF Safe, OwnedIsThere, Exists
  <2>2. entry[k].film \notin misled'
    BY DEF Owns, Fair
  <2> QED  BY <2>1, <2>2, <1>1
<1>3. \A T : AllKept(T)
  BY <1>1 DEF AllKept, Kept
<1>4. FilmsSurvive'
  <2> SUFFICES ASSUME NEW f \in Film, f \notin misled', f \notin deleted'
               PROVE  \E p \in DOMAIN disk' : p[3] = 0 /\ disk'[p] = f
    BY DEF FilmsSurvive
  <2>1. PICK p \in DOMAIN disk : p[3] = 0 /\ disk[p] = f
    BY DEF Safe, FilmsSurvive
  <2> QED  BY <2>1, <1>1
<1> QED  BY <1>2, <1>3, <1>4

(* A task that has nothing in hand shares nothing with others.               *)
LEMMA WritesNothing ==
  ASSUME NEW t \in Slot, NEW d, task'[t] = d, ~ HasWritten(d), ~ IsUnlinking(d)
  PROVE  \A u \in Slot : WritesAlone(t, u) /\ WritesAlone(u, t)
<1>1. ~ (HasWritten(task[t]))' /\ ~ (IsUnlinking(task[t]))'
  BY DEF HasWritten, IsUnlinking
<1> QED  BY <1>1 DEF WritesAlone, InWork, Unlinks

LEMMA IdleHasNothing ==
  /\ ~ IsMoving(Idle) /\ ~ IsRemoving(Idle) /\ ~ HasWritten(Idle) /\ ~ IsUnlinking(Idle)
BY DEF IsMoving, IsRemoving, HasWritten, IsUnlinking, Idle

LEMMA AsksSafe ==
  ASSUME IInv, Safe, NEW t \in Slot, Request(t)
  PROVE  Safe'
<1> PICK d : Asks(t, d)
  BY Asked
<1>1. /\ task' = [task EXCEPT ![t] = d] /\ ~ Active(t)
      /\ UNCHANGED <<entry, fetch, disk, layout>> /\ misled' = misled /\ deleted \subseteq deleted'
  BY DEF Asks, Ask, settings
<1>2. /\ d.todo \subseteq Entries /\ d.view = [m \in d.todo |-> entry[m]] /\ d.outdated = {}
      /\ ~ HasWritten(d) /\ ~ IsUnlinking(d) /\ ~ IsMoving(d) /\ ~ IsRemoving(d)
      /\ d.kind = "scan" => d.phase # "put"
      /\ d.kind = "migrate" => d.phase = "turn" /\ d.todo = Entries
      /\ \A p \in DOMAIN d.found : p[3] = 0
      /\ d.kind \in {"delete", "torrent"} => \A m \in d.todo : entry[m].film \in deleted'
  BY DEF Asks, Fresh, Starts
<1>v. DOMAIN d.view = d.todo /\ \A m \in d.todo : d.view[m] = entry[m]
  BY <1>2
<1>3. (TaskSafe(d))'
  <2>1. (Sees(d))'
    BY <1>2, <1>v DEF Sees, Safe, EntriesSafe, EntrySafe, HasVideos, IsUnlinking, Plays
  <2>2. (Remembers(d))'
    BY <1>1, <1>v DEF Remembers
  <2>3. (WroteItsOwn(d))' /\ (UnlinksItsOwn(d))'
    BY <1>2 DEF WroteItsOwn, UnlinksItsOwn, Unlinks, HasWritten, IsUnlinking
  <2>4. (Migrates(d))'
    BY <1>1, <1>2 DEF Migrates, IsMoving, Entries, Present
  <2>5. (ScansNew(d))' /\ (Deletes(d))'
    BY <1>2, <1>v DEF ScansNew, Deletes
  <2> QED  BY <2>1, <2>2, <2>3, <2>4, <2>5 DEF TaskSafe
<1>4. OwnedStays /\ AllKept({t}) /\ FilmsSurvive'
  BY <1>1, SameDisk
<1>5. ~ Holds(t)
  BY <1>1 DEF Holds, Is
<1>6. \A u \in Slot \ {t} : WritesAlone(t, u) /\ WritesAlone(u, t)
  <2>1. task'[t] = d
    BY <1>1 DEF IInv, Domains
  <2> QED  BY <2>1, <1>2, WritesNothing
<1> QED  BY <1>1, <1>2, <1>3, <1>4, <1>5, <1>6, PrivateSafe

-----------------------------------------------------------------------------
(* A task that is done with m, and goes on as x.                             *)
LEMMA GoesOnSafe ==
  ASSUME NEW c, TaskSafe(c), DOMAIN c.view \subseteq Id, c.kind \notin {"scan", "job"},
         NEW m, \A k \in Id \ {m} : entry'[k] = entry[k], deleted \subseteq deleted',
         \A f : (Fair(f))' => Fair(f),
         IsMoving(c) \/ IsUnlinking(c) => c.at = m,
         NEW x, x.kind = c.kind, x.phase \in {"turn", "rest", "payload"},
         DOMAIN x.view \subseteq DOMAIN c.view \ {m}, \A k \in DOMAIN x.view : x.view[k] = c.view[k],
         x.outdated = c.outdated, c.left \subseteq x.left, x.found = c.found,
         c.kind = "migrate" =>
           /\ c.phase # "rest"
           /\ (x.phase = "turn" /\ x.todo = c.todo \ {m}) \/ c.todo = {m}
           /\ m \in Id /\ entry'[m] # NoEntry /\ (Fair(entry[m].film))'
                /\ m \notin c.outdated \cup x.left => InNewDir(entry'[m])
  PROVE  (TaskSafe(x))'
<1>1. /\ Sees(c) /\ Remembers(c) /\ Migrates(c) /\ Deletes(c)
  BY DEF TaskSafe
<1>2. /\ ~ IsMoving(x) /\ ~ IsUnlinking(x) /\ ~ HasWritten(x)
  BY DEF IsMoving, IsUnlinking, HasWritten
<1>3. (Sees(x))'
  BY <1>1, <1>2 DEF Sees, HasVideos, Plays, IsUnlinking
<1>4. (Remembers(x))'
  <2> SUFFICES ASSUME NEW k \in DOMAIN x.view \ x.outdated
               PROVE  x.view[k] = entry'[k]
    BY DEF Remembers
  <2>1. k \in DOMAIN c.view \ c.outdated /\ k # m /\ k \in Id
    OBVIOUS
  <2>2. c.view[k] = entry[k]
    BY <2>1, <1>1 DEF Remembers
  <2> QED  BY <2>1, <2>2
<1>5. (WroteItsOwn(x))' /\ (UnlinksItsOwn(x))'
  BY <1>2 DEF WroteItsOwn, UnlinksItsOwn, Unlinks, HasWritten, IsUnlinking
<1>6. (Migrates(x))'
  <2> SUFFICES ASSUME x.kind = "migrate", NEW k \in Id, entry'[k] # NoEntry,
                      (Fair(entry[k].film))', k \notin x.outdated \cup x.left
               PROVE  (x.phase # "rest" /\ k \in x.todo) \/ InNewDir(entry'[k])
    BY <1>2 DEF Migrates, Entries, Present, InNewDir, IsMoving, Plays
  <2>1. CASE k = m
    BY <2>1
  <2>2. CASE k # m
    <3>1. entry'[k] = entry[k] /\ k \in Entries /\ k \notin c.outdated \cup c.left
      BY <2>2 DEF Entries, Present
    <3>2. Fair(entry[k].film)
      BY <3>1
    <3>3. (c.phase # "rest" /\ k \in c.todo) \/ InNewDir(entry[k])
      BY <3>1, <3>2, <1>1 DEF Migrates
    <3> QED  BY <2>2, <3>1, <3>3
  <2> QED  BY <2>1, <2>2
<1>7. (ScansNew(x))' /\ (Deletes(x))'
  BY <1>1 DEF ScansNew, Deletes
<1> QED  BY <1>3, <1>4, <1>5, <1>6, <1>7 DEF TaskSafe

(* The fields of a task that is done with m.                                 *)
LEMMA DoneWithIs ==
  ASSUME IInv, NEW t \in Slot, Active(t), NEW m, DoneWith(t, m) # Idle
  PROVE  LET x == DoneWith(t, m)
         IN  /\ IsTask(x) /\ x.kind = task[t].kind /\ x.phase = "turn"
             /\ x.todo = task[t].todo \ {m}
             /\ x.view = [k \in task[t].todo \ {m} |-> task[t].view[k]]
             /\ x.outdated = task[t].outdated /\ x.left = task[t].left
             /\ x.found = task[t].found
<1>1. IsTask(task[t])
  BY TaskHere DEF TaskFits
<1> QED  BY <1>1 DEF DoneWith, IsTask

LEMMA DoneWithSafe ==
  ASSUME IInv, Safe, NEW t \in Slot, Active(t), task[t].kind \notin {"scan", "job"},
         task[t].todo \subseteq DOMAIN task[t].view,
         NEW m, \A k \in Id \ {m} : entry'[k] = entry[k], deleted \subseteq deleted',
         \A f : (Fair(f))' => Fair(f),
         IsMoving(task[t]) \/ IsUnlinking(task[t]) => task[t].at = m,
         task[t].kind = "migrate" =>
           /\ task[t].phase # "rest"
           /\ m \in Id /\ entry'[m] # NoEntry /\ (Fair(entry[m].film))'
                /\ m \notin task[t].outdated \cup task[t].left => InNewDir(entry'[m])
  PROVE  \A x : x = DoneWith(t, m) => x = Idle \/ (TaskSafe(x))'
<1> SUFFICES ASSUME NEW x, x = DoneWith(t, m), x # Idle  PROVE (TaskSafe(x))'
  OBVIOUS
<1> PICK c : c = task[t]
  OBVIOUS
<1>1. /\ x.kind = c.kind /\ x.phase = "turn" /\ x.todo = c.todo \ {m}
      /\ x.view = [k \in c.todo \ {m} |-> c.view[k]]
      /\ x.outdated = c.outdated /\ x.left = c.left /\ x.found = c.found
  BY DoneWithIs
<1>2. /\ TaskSafe(c) /\ DOMAIN c.view \subseteq Id
  BY TaskHere DEF Safe, TasksSafe, Active, TaskFits, Knows, Given
<1>3. /\ DOMAIN x.view \subseteq DOMAIN c.view \ {m} /\ \A k \in DOMAIN x.view : x.view[k] = c.view[k]
  BY <1>1
<1> QED  BY <1>1, <1>2, <1>3, GoesOnSafe

-----------------------------------------------------------------------------
(* What is owned, written or about to be deleted is a video.                 *)
LEMMA OwnedIsVideo ==
  ASSUME IInv, Safe
  PROVE  /\ \A k, p : Owns(k, p) => p[3] = 0 /\ k \in Entries /\ Fair(entry[k].film)
                                    /\ p \in DOMAIN disk /\ disk[p] = entry[k].film
         /\ \A u \in Slot : \A p : InWork(task[u], p) => p[3] = 0 /\ task[u] # Idle
<1>1. ASSUME NEW k, NEW p, Owns(k, p)
      PROVE  /\ p[3] = 0 /\ k \in Entries /\ Fair(entry[k].film)
             /\ p \in DOMAIN disk /\ disk[p] = entry[k].film
  <2>1. k \in Entries /\ Fair(entry[k].film) /\ p \in DOMAIN disk /\ disk[p] = entry[k].film
    BY <1>1 DEF Owns, Safe, OwnedIsThere, Exists
  <2>2. CASE p \in Plays(entry[k])
    BY <2>1, <2>2 DEF Safe, EntriesSafe, EntrySafe, HasVideos
  <2>3. CASE MovedTo(k, p)
    <3>1. PICK u \in Slot : IsMoving(task[u]) /\ p \in Plays(View(u))
      BY <2>3 DEF MovedTo
    <3>2. Holds(u)
      BY <3>1, HoldsIs
    <3>3. Active(u) /\ task[u].at \in DOMAIN task[u].view
      BY <3>2, HolderHere
    <3>4. HasVideos(View(u))
      BY <3>3 DEF Safe, TasksSafe, TaskSafe, Sees, View, Active
    <3> QED  BY <2>1, <3>1, <3>4 DEF HasVideos
  <2> QED  BY <1>1, <2>1, <2>2, <2>3 DEF Owns
<1>2. ASSUME NEW u \in Slot, NEW p, InWork(task[u], p)
      PROVE  p[3] = 0 /\ task[u] # Idle
  <2>1. task[u] # Idle
    BY <1>2 DEF InWork, Unlinks, IsUnlinking, HasWritten, Idle
  <2>2. CASE HasWritten(task[u]) /\ task[u].out = p
    BY <2>1, <2>2, TaskHere DEF TaskFits, HasItsPaths, HasWritten, Active
  <2>3. CASE Unlinks(task[u]) /\ task[u].file = p
    BY <2>1, <2>3 DEF Safe, TasksSafe, TaskSafe, Sees, Unlinks
  <2> QED  BY <1>2, <2>1, <2>2, <2>3 DEF InWork
<1> QED  BY <1>1, <1>2

LEMMA SkipSafe ==
  ASSUME IInv, Safe, NEW t \in Slot, NEW m, Skip(t, m),
         Turn(t, "fix", m) \/ Turn(t, "cleanup", m)
  PROVE  Safe'
<1>1. /\ Active(t) /\ task[t].kind \in {"fix", "cleanup"} /\ task[t].phase = "turn"
  BY DEF Turn, Is
<1>2. /\ task' = [task EXCEPT ![t] = DoneWith(t, m)]
      /\ UNCHANGED <<settings, entry, disk, fetch, history>>
  BY DEF Skip
<1> PICK d : d = DoneWith(t, m)
  OBVIOUS
<1>3. /\ UNCHANGED <<entry, fetch, disk, layout>> /\ misled' = misled /\ deleted' = deleted
      /\ task' = [task EXCEPT ![t] = d]
  BY <1>2 DEF settings, history
<1>4. ~ Holds(t) /\ ~ IsMoving(task[t]) /\ ~ IsUnlinking(task[t])
  BY <1>1 DEF Holds, Is, IsMoving, IsUnlinking
<1>5. task[t].todo \subseteq DOMAIN task[t].view
  BY <1>1, TodoHere
<1>6. /\ d = Idle \/ (d.kind = task[t].kind /\ d.phase = "turn")
      /\ ~ HasWritten(d) /\ ~ IsUnlinking(d) /\ ~ IsMoving(d) /\ ~ IsRemoving(d)
  <2>1. d = Idle \/ (d.kind = task[t].kind /\ d.phase = "turn")
    BY <1>1, DoneWithIs
  <2> QED  BY <2>1, <1>1, IdleHasNothing DEF HasWritten, IsUnlinking, IsMoving, IsRemoving
<1>7. \A f : (Fair(f))' => Fair(f)
  BY <1>3, <1>4, PrivateWorks DEF Works
<1>8. d = Idle \/ (TaskSafe(d))'
  BY <1>1, <1>3, <1>4, <1>5, <1>7, DoneWithSafe
<1>9. OwnedStays /\ AllKept({t}) /\ FilmsSurvive'
  BY <1>3, SameDisk
<1>10. task'[t] = d
  BY <1>3 DEF IInv, Domains
<1>11. \A u \in Slot \ {t} : WritesAlone(t, u) /\ WritesAlone(u, t)
  BY <1>6, <1>10, WritesNothing
<1> QED  BY <1>3, <1>4, <1>6, <1>8, <1>9, <1>11, PrivateSafe

LEMMA GetJobSafe ==
  ASSUME IInv, Safe, NEW t \in Slot, GetJob(t)
  PROVE  Safe'
<1> DEFINE m == task[t].at
<1>1. /\ Active(t) /\ task[t].kind = "job" /\ task[t].phase = "get"
      /\ m \in DOMAIN task[t].view /\ m \in Given
  BY AtHere, ViewHere DEF GetJob
<1>2. /\ task' = [task EXCEPT ![t] = IF Present(m)
                                     THEN [@ EXCEPT !.phase = "put", !.outdated = {},
                                                    !.view = [k \in {m} |-> entry[m]]]
                                     ELSE Idle]
      /\ UNCHANGED <<settings, entry, disk, fetch, history>>
  BY DEF GetJob
<1>3. TaskFits(task[t]) /\ TaskSafe(task[t])
  BY <1>1, TaskHere DEF Safe, TasksSafe, Active
<1>4. PICK V : V = [k \in {m} |-> entry[m]]
  OBVIOUS
<1>5. PICK d : d = IF Present(m) THEN [task[t] EXCEPT !.phase = "put", !.outdated = {},
                                                      !.view = V]
                   ELSE Idle
  OBVIOUS
<1>6. task' = [task EXCEPT ![t] = d] /\ task'[t] = d
  BY <1>2, <1>4, <1>5 DEF IInv, Domains
<1>7. /\ UNCHANGED <<entry, fetch, disk, layout>> /\ misled' = misled /\ deleted' = deleted
  BY <1>2 DEF settings, history
<1>8. ~ Holds(t) /\ HasWritten(task[t])
  BY <1>1 DEF Holds, Is, HasWritten
<1>9. Works({t}, {}) /\ \A k \in Id : \A p : ~ IsMoving(d) => ((Owns(k, p))' => Owns(k, p))
  BY <1>6, <1>7, <1>8, PrivateWorks
<1>10. d # Idle =>
       /\ Present(m) /\ d.kind = "job" /\ d.phase = "put" /\ d.view = V /\ d.at = m
       /\ d.out = task[t].out /\ d.found = task[t].found /\ d.outdated = {}
  BY <1>1, <1>3, <1>5 DEF TaskFits, IsTask
<1>11. /\ ~ IsMoving(d) /\ ~ IsRemoving(d) /\ ~ IsUnlinking(d)
  BY <1>10, IdleHasNothing DEF IsMoving, IsRemoving, IsUnlinking
<1>12. d = Idle \/ (TaskSafe(d))'
  <2> SUFFICES ASSUME d # Idle  PROVE (TaskSafe(d))'
    OBVIOUS
  <2>0. DOMAIN V = {m} /\ V[m] = entry[m] /\ m \in Entries
    BY <1>4, <1>10, <1>1 DEF Entries, Given
  <2>1. (Sees(d))'
    BY <1>3, <1>10, <1>11, <2>0 DEF Sees, TaskSafe, HasVideos, Safe, EntriesSafe, EntrySafe,
       Plays, IsUnlinking
  <2>2. (Remembers(d))'
    BY <1>7, <1>10, <2>0 DEF Remembers
  <2>3. (WroteItsOwn(d))'
    BY <1>3, <1>8, <1>9, <1>10, <1>11 DEF WroteItsOwn, TaskSafe
  <2>4. (UnlinksItsOwn(d))'
    BY <1>11 DEF UnlinksItsOwn, Unlinks, IsUnlinking
  <2>5. (Migrates(d))' /\ (ScansNew(d))' /\ (Deletes(d))'
    BY <1>10 DEF Migrates, ScansNew, Deletes
  <2> QED  BY <2>1, <2>2, <2>3, <2>4, <2>5 DEF TaskSafe
<1>13. OwnedStays /\ AllKept({t}) /\ FilmsSurvive'
  BY <1>7, SameDisk
<1>14. ASSUME NEW u \in Slot \ {t}
       PROVE  WritesAlone(t, u) /\ WritesAlone(u, t)
  <2>1. CASE d = Idle
    BY <1>6, <2>1, WritesNothing, IdleHasNothing
  <2>2. CASE d # Idle
    <3>1. /\ AsBefore(task[u], task'[u], {}) /\ \A f : (Fair(f))' => Fair(f)
      BY <1>9 DEF Works, Others
    <3>2. (HasWritten(task[u]))' => /\ HasWritten(task[u]) /\ task'[u].out = task[u].out
                                    /\ task'[u].at = task[u].at
      BY <3>1, AsBeforeHolds DEF HasWritten, Idle
    <3>3. task'[t].at = task[t].at /\ task'[t].out = task[t].out
      BY <1>6, <1>10, <2>2
    <3>4. \A p : (InWork(task[u], p))' => InWork(task[u], p) /\ task'[u].at = task[u].at
      BY <3>1, InWorkBefore
    <3>5. \A p : (InWork(task[t], p))' => InWork(task[t], p)
      BY <1>6, <1>8, <1>10, <1>11, <2>2 DEF InWork, Unlinks, IsUnlinking
    <3> QED  BY <1>7, <1>8, <3>2, <3>3, <3>4, <3>5 DEF WritesAlone, Safe, OutputsApart, Exists
  <2> QED  BY <2>1, <2>2
<1> QED  BY <1>6, <1>7, <1>8, <1>11, <1>12, <1>13, <1>14, PrivateSafe

LEMMA ListScanSafe ==
  ASSUME IInv, Safe, NEW t \in Slot, ListScan(t)
  PROVE  Safe'
<1> DEFINE found == task[t].found
           new == DOMAIN found \ Existing
           episodes == {p \in new : layout.show[found[p]] # NoShow}
           movies == new \ episodes
           largest == {p \in movies : \A q \in movies : found[p] <= found[q]}
<1>1. /\ Active(t) /\ task[t].kind = "scan" /\ task[t].phase = "list"
      /\ UNCHANGED <<settings, entry, disk, fetch, history>>
  BY DEF ListScan, Is
<1>2. PICK plan \in IF movies = {} THEN {episodes} ELSE {episodes \cup {p} : p \in largest} :
        task' = [task EXCEPT ![t] =
             IF plan = {} THEN Idle
             ELSE [@ EXCEPT !.phase = "put", !.todo = plan, !.outdated = {},
                            !.found = [p \in plan |-> found[p]]]]
  BY DEF ListScan
<1>3. plan \subseteq DOMAIN found /\ \A p \in plan : \A k \in Entries : p \notin Plays(entry[k])
  <2>1. episodes \subseteq new /\ largest \subseteq new
    OBVIOUS
  <2>2. plan \subseteq new
    <3> HIDE DEF episodes, largest, movies, new
    <3> QED  BY <1>2, <2>1
  <2> QED  BY <2>2 DEF Existing
<1> HIDE DEF found, new, episodes, movies, largest
<1>4. PICK listed : listed = [p \in plan |-> found[p]]
  OBVIOUS
<1>5. PICK d : d = IF plan = {} THEN Idle
                   ELSE [task[t] EXCEPT !.phase = "put", !.todo = plan, !.outdated = {},
                                        !.found = listed]
  OBVIOUS
<1>6. task' = [task EXCEPT ![t] = d] /\ task'[t] = d
  BY <1>2, <1>4, <1>5 DEF IInv, Domains
<1>7. TaskFits(task[t]) /\ TaskSafe(task[t])
  BY <1>1, TaskHere DEF Safe, TasksSafe, Active
<1>8. d # Idle =>
       /\ d.kind = "scan" /\ d.phase = "put" /\ d.todo = plan
       /\ d.view = task[t].view /\ d.found = listed /\ d.outdated = {}
  BY <1>1, <1>5, <1>7 DEF TaskFits, IsTask
<1>9. /\ UNCHANGED <<entry, fetch, disk, layout>> /\ misled' = misled /\ deleted' = deleted
  BY <1>1 DEF settings, history
<1>10. ~ IsMoving(d) /\ ~ IsRemoving(d) /\ ~ HasWritten(d) /\ ~ IsUnlinking(d)
  BY <1>8, IdleHasNothing DEF IsMoving, IsRemoving, HasWritten, IsUnlinking
<1>11. d = Idle \/ (TaskSafe(d))'
  <2> SUFFICES ASSUME d # Idle  PROVE (TaskSafe(d))'
    OBVIOUS
  <2>0. DOMAIN d.view = {} /\ DOMAIN d.found = plan
    BY <1>1, <1>4, <1>7, <1>8 DEF TaskFits, Knows
  <2>1. (Sees(d))'
    BY <1>3, <1>7, <1>10, <2>0 DEF Sees, TaskSafe, found, IsUnlinking
  <2>2. (Remembers(d))' /\ (Migrates(d))' /\ (Deletes(d))'
    BY <1>8, <2>0 DEF Remembers, Migrates, Deletes
  <2>3. (WroteItsOwn(d))' /\ (UnlinksItsOwn(d))'
    BY <1>10 DEF WroteItsOwn, UnlinksItsOwn, Unlinks, IsUnlinking, HasWritten
  <2>4. (ScansNew(d))'
    BY <1>3, <1>8, <1>9 DEF ScansNew, Entries, Present, Plays
  <2> QED  BY <2>1, <2>2, <2>3, <2>4 DEF TaskSafe
<1>12. OwnedStays /\ AllKept({t}) /\ FilmsSurvive'
  BY <1>9, SameDisk
<1>13. \A u \in Slot \ {t} : WritesAlone(t, u) /\ WritesAlone(u, t)
  BY <1>6, <1>10, WritesNothing
<1>14. ~ Holds(t)
  BY <1>1 DEF Holds, Is
<1> QED  BY <1>6, <1>9, <1>10, <1>11, <1>12, <1>13, <1>14, PrivateSafe

LEMMA WriteSubtitleSafe ==
  ASSUME IInv, Safe, NEW t \in Slot, WriteSubtitle(t)
  PROVE  Safe'
<1> DEFINE m == task[t].at
           v == task[t].view[m]
<1>1. /\ Active(t) /\ task[t].kind = "upload" /\ task[t].phase = "write"
      /\ m \in DOMAIN task[t].view
  BY AtHere DEF WriteSubtitle
<1>2. PICK beside : LET sub == <<beside[1], beside[2], Cardinality(v.subtitles) + 1>>
                    IN  /\ disk' = With(sub, v.film)
                        /\ task' = [task EXCEPT ![t].phase = "put", ![t].file = sub]
  BY DEF WriteSubtitle, View
<1>3. UNCHANGED <<settings, entry, fetch, history>>
  BY DEF WriteSubtitle
<1>4. TaskFits(task[t]) /\ TaskSafe(task[t]) /\ Fits(v)
  BY <1>1, TaskHere, ViewHere DEF Safe, TasksSafe, Active
<1>5. Cardinality(v.subtitles) \in Nat
  BY <1>4, FS_CardinalityType DEF Fits
<1>s. PICK x : x = <<beside[1], beside[2], Cardinality(v.subtitles) + 1>>
  OBVIOUS
<1>6. x[3] # 0
  BY <1>5, <1>s
<1>d. PICK d : d = [task[t] EXCEPT !.phase = "put", !.file = x]
  OBVIOUS
<1>8. disk' = With(x, v.film) /\ task' = [task EXCEPT ![t] = d] /\ task'[t] = d
  BY <1>2, <1>s, <1>d DEF IInv, Domains
<1> HIDE DEF m, v
<1>9. /\ d.kind = "upload" /\ d.phase = "put" /\ d.todo = task[t].todo
      /\ d.view = task[t].view /\ d.at = task[t].at /\ d.found = task[t].found
      /\ d.outdated = task[t].outdated /\ d.left = task[t].left
  BY <1>1, <1>4, <1>d DEF TaskFits, IsTask
<1>10. /\ UNCHANGED <<entry, fetch>> /\ misled' = misled /\ deleted' = deleted
  BY <1>3 DEF history
<1>11. /\ ~ Holds(t)
       /\ ~ IsMoving(d) /\ ~ IsRemoving(d) /\ ~ HasWritten(d) /\ ~ IsUnlinking(d)
       /\ ~ IsMoving(task[t]) /\ ~ IsUnlinking(task[t])
  BY <1>1, <1>9 DEF Holds, Is, IsMoving, IsRemoving, HasWritten, IsUnlinking
<1>12. (TaskSafe(d))'
  <2>1. (Sees(d))' /\ (Remembers(d))' /\ (Deletes(d))'
    BY <1>4, <1>9, <1>10, <1>11 DEF TaskSafe, Sees, Remembers, Deletes, HasVideos, Plays, IsUnlinking, IsMoving
  <2>2. (WroteItsOwn(d))' /\ (UnlinksItsOwn(d))'
    BY <1>11 DEF WroteItsOwn, UnlinksItsOwn, Unlinks, IsUnlinking, HasWritten
  <2>3. (Migrates(d))' /\ (ScansNew(d))'
    BY <1>9 DEF Migrates, ScansNew
  <2> QED  BY <2>1, <2>2, <2>3 DEF TaskSafe
<1>13. DOMAIN disk' = DOMAIN disk \cup {x} /\ \A p \in DOMAIN disk : p # x => disk'[p] = disk[p]
  BY <1>8 DEF With
<1>14. OwnedStays
  BY <1>6, <1>13, OwnedIsVideo DEF OwnedStays
<1>15. AllKept({t})
  <2> SUFFICES ASSUME NEW p, (Contested({t}, p))', p \in DOMAIN disk'
               PROVE  p \in DOMAIN disk /\ disk'[p] = disk[p]
    BY DEF AllKept, Kept
  <2>1. PICK u \in Slot \ {t} : (InWork(task[u], p))'
    BY DEF Contested
  <2>2. Works({t}, {})
    BY <1>8, <1>10, <1>11, PrivateWorks
  <2>3. AsBefore(task[u], task'[u], {}) /\ \A f : (Fair(f))' => Fair(f)
    BY <2>2 DEF Works, Others
  <2>4. InWork(task[u], p)
    BY <2>1, <2>3, InWorkBefore
  <2> QED  BY <2>4, <1>6, <1>13, OwnedIsVideo
<1>16. FilmsSurvive'
  <2> SUFFICES ASSUME NEW f \in Film, f \notin misled', f \notin deleted'
               PROVE  \E p \in DOMAIN disk' : p[3] = 0 /\ disk'[p] = f
    BY DEF FilmsSurvive
  <2>1. PICK p \in DOMAIN disk : p[3] = 0 /\ disk[p] = f
    BY <1>10 DEF Safe, FilmsSurvive
  <2> QED  BY <2>1, <1>6, <1>13
<1>17. \A u \in Slot \ {t} : WritesAlone(t, u) /\ WritesAlone(u, t)
  BY <1>8, <1>11, WritesNothing
<1> QED  BY <1>8, <1>10, <1>11, <1>12, <1>14, <1>15, <1>16, <1>17, PrivateSafe

LEMMA EncodeFailsSafe ==
  ASSUME IInv, Safe, NEW t \in Slot, EncodeFails(t)
  PROVE  Safe'
<1>1. /\ disk' = Without({task[t].out})
      /\ misled' = misled \cup (IF Exists(task[t].out) THEN {disk[task[t].out]} ELSE {})
      /\ task' = [task EXCEPT ![t] = Idle] /\ ~ Holds(t)
      /\ UNCHANGED <<entry, fetch, deleted>>
  BY DEF EncodeFails, Holds, Is
<1>2. misled \subseteq misled' /\ \A p \in {task[t].out} : p \in DOMAIN disk => disk[p] \in misled'
  BY <1>1 DEF Exists
<1>3. OwnedStays /\ AllKept({t}) /\ FilmsSurvive'
  BY <1>1, <1>2, Drops
<1>4. \A u \in Slot \ {t} : WritesAlone(t, u) /\ WritesAlone(u, t)
  <2>1. task'[t] = Idle
    BY <1>1 DEF IInv, Domains
  <2> QED  BY <2>1, WritesNothing, IdleHasNothing
<1> QED  BY <1>1, <1>2, <1>3, <1>4, IdleHasNothing, PrivateSafe

LEMMA RemovePayloadSafe ==
  ASSUME IInv, Safe, NEW t \in Slot, RemovePayload(t)
  PROVE  Safe'
<1> PICK S : S = {p \in DOMAIN disk : p[1] = Payload}
  OBVIOUS
<1>1. /\ disk' = Without(S) /\ misled' = misled \cup {disk[p] : p \in S}
      /\ deleted' = deleted \cup {disk[p] : p \in S}
      /\ task' = [task EXCEPT ![t] = Idle] /\ ~ Holds(t)
      /\ UNCHANGED <<entry, fetch>>
  BY DEF RemovePayload, Holds, Is
<1>2. misled \subseteq misled' /\ deleted \subseteq deleted' /\ \A p \in S : p \in DOMAIN disk => disk[p] \in misled'
  BY <1>1
<1>3. OwnedStays /\ AllKept({t}) /\ FilmsSurvive'
  BY <1>1, <1>2, Drops
<1>4. \A u \in Slot \ {t} : WritesAlone(t, u) /\ WritesAlone(u, t)
  <2>1. task'[t] = Idle
    BY <1>1 DEF IInv, Domains
  <2> QED  BY <2>1, WritesNothing, IdleHasNothing
<1> QED  BY <1>1, <1>2, <1>3, <1>4, IdleHasNothing, PrivateSafe

LEMMA VanishSafe ==
  ASSUME IInv, Safe, NEW p \in DOMAIN disk, Vanish(p)
  PROVE  Safe'
<1>1. /\ disk' = Without({p}) /\ misled' = misled \cup {disk[p]}
      /\ deleted' = deleted \cup {disk[p]}
      /\ UNCHANGED <<entry, task, fetch>>
  BY DEF Vanish, tasks
<1>2. misled \subseteq misled' /\ deleted \subseteq deleted' /\ \A q \in {p} : q \in DOMAIN disk => disk[q] \in misled'
  BY <1>1
<1>3. OwnedStays /\ AllKept({}) /\ FilmsSurvive'
  BY <1>1, <1>2, Drops
<1>4. LookupsSafe'
  BY <1>1 DEF Safe, LookupsSafe, HasVideos, Plays
<1> QED  BY <1>1, <1>2, <1>3, <1>4, LooksSafe

(* What tasks have in hand is in limbo.                                      *)
LEMMA InLimbo ==
  ASSUME IInv, NEW p
  PROVE  /\ \A u \in Slot : \A m : InWork(task[u], p) /\ task[u].at # m => p \in Limbo(m)
         /\ \A u \in Slot : InWork(task[u], p) => p \in Limbo(0)
         /\ \A T, m : Contested(T, p) => p \in Limbo(m)
         /\ \A k, m : MovedTo(k, p) => p \in Limbo(m)
<1>1. ASSUME NEW u \in Slot, NEW m, InWork(task[u], p), task[u].at # m
      PROVE  p \in Limbo(m)
  <2>1. CASE HasWritten(task[u]) /\ task[u].out = p
    <3>1. Is(u, "job", "get") \/ Is(u, "job", "put")
      BY <2>1 DEF HasWritten, Is, Active, Idle
    <3> QED  BY <1>1, <2>1, <3>1 DEF Limbo
  <2>2. CASE Unlinks(task[u]) /\ task[u].file = p
    <3>1. Is(u, "cleanup", "unlink")
      BY <2>2 DEF Unlinks, IsUnlinking, Is, Active, Idle
    <3> QED  BY <2>2, <3>1 DEF Limbo
  <2> QED  BY <1>1, <2>1, <2>2 DEF InWork
<1>2. ASSUME NEW u \in Slot, InWork(task[u], p)
      PROVE  p \in Limbo(0)
  <2>1. HasWritten(task[u]) \/ IsUnlinking(task[u])
    BY <1>2 DEF InWork, Unlinks
  <2>2. task[u] # Idle
    BY <2>1 DEF HasWritten, IsUnlinking, Idle
  <2>3. task[u].at \in DOMAIN task[u].view
    BY <2>1, <2>2, TaskHere DEF TaskFits, Knows, HasWritten, IsUnlinking, Active
  <2>4. task[u].at \in Id
    BY <2>2, <2>3, ViewHere DEF Active
  <2>5. task[u].at # 0
    BY <2>4, Constants DEF Id
  <2> QED  BY <1>1, <1>2, <2>5
<1>3. ASSUME NEW T, NEW m, Contested(T, p)
      PROVE  p \in Limbo(m)
  <2>1. PICK u \in Slot : /\ InWork(task[u], p)
                          /\ \/ Unlinks(task[u])
                             \/ \E v \in Slot : InWork(task[v], p) /\ task[v].at # task[u].at
    BY <1>3 DEF Contested
  <2>2. CASE Unlinks(task[u])
    <3>1. task[u].file = p /\ Is(u, "cleanup", "unlink")
      BY <2>1, <2>2 DEF InWork, HasWritten, Unlinks, IsUnlinking, Is, Active, Idle
    <3> QED  BY <3>1 DEF Limbo
  <2>3. CASE \E v \in Slot : InWork(task[v], p) /\ task[v].at # task[u].at
    BY <2>1, <2>3, <1>1
  <2> QED  BY <2>1, <2>2, <2>3
<1>4. ASSUME NEW k, NEW m, MovedTo(k, p)
      PROVE  p \in Limbo(m)
  <2>1. PICK u \in Slot : IsMoving(task[u]) /\ p \in Plays(View(u))
    BY <1>4 DEF MovedTo
  <2>2. Is(u, "migrate", "put")
    BY <2>1 DEF IsMoving, Is, Active, Idle
  <2> QED  BY <2>1, <2>2 DEF Limbo, Owned
<1> QED  BY <1>1, <1>2, <1>3, <1>4

(* What the other tasks have in work they had in work.                       *)
LEMMA OthersInWork ==
  ASSUME NEW T, NEW W, Works(T, W)
  PROVE  /\ \A u \in Slot \ T : \A p : (InWork(task[u], p))' =>
              InWork(task[u], p) /\ task'[u].at = task[u].at
         /\ \A u \in Slot \ T : (HasWritten(task[u]))' =>
              /\ HasWritten(task[u]) /\ task'[u].at = task[u].at
              /\ task'[u].out = task[u].out
         /\ \A u \in Slot \ T : (Unlinks(task[u]))' => Unlinks(task[u])
         /\ \A p : (Contested(T, p))' => Contested(T, p)
<1>0. /\ \A u \in Slot \ T : AsBefore(task[u], task'[u], W)
      /\ \A f : (Fair(f))' => Fair(f)
  BY DEF Works, Others
<1>1. \A u \in Slot \ T : \A p : (InWork(task[u], p))' =>
        InWork(task[u], p) /\ task'[u].at = task[u].at
  BY <1>0, InWorkBefore
<1>2. ASSUME NEW u \in Slot \ T, (HasWritten(task[u]))'
      PROVE  HasWritten(task[u]) /\ task'[u].at = task[u].at /\ task'[u].out = task[u].out
  <2>1. HasWritten(task[u])
    BY <1>0, <1>2, AsBeforeHolds
  <2> QED  BY <2>1, <1>0, AsBeforeHolds DEF HasWritten, Idle
<1>3. ASSUME NEW u \in Slot \ T, (Unlinks(task[u]))'
      PROVE  Unlinks(task[u])
  <2>1. PICK p : p = task'[u].file
    OBVIOUS
  <2>2. (InWork(task[u], p))'
    BY <2>1, <1>3 DEF InWork
  <2>3. InWork(task[u], p) /\ IsUnlinking(task[u])
    BY <2>2, <1>0, <1>1, <1>3, AsBeforeHolds DEF Unlinks
  <2> QED  BY <2>3 DEF InWork, HasWritten, IsUnlinking
<1>4. \A p : (Contested(T, p))' => Contested(T, p)
  BY <1>1, <1>3 DEF Contested
<1> QED  BY <1>1, <1>2, <1>3, <1>4

LEMMA EncodeSafe ==
  ASSUME IInv, Safe, NEW t \in Slot, Encode(t)
  PROVE  Safe'
<1> PICK out : out = task[t].out
  OBVIOUS
<1> PICK f : f = disk[task[t].file]
  OBVIOUS
<1>1. /\ Active(t) /\ task[t].kind = "job" /\ task[t].phase = "encode"
  BY AtHere DEF Encode
<1>2. /\ disk' = With(out, f)
      /\ misled' = misled \cup {entry[m].film : m \in {k \in Entries \ {task[t].at} :
                                                  out \in Plays(entry[k])}}
                \cup ({disk[p] : p \in {out} \cap DOMAIN disk} \ {f})
                \cup {f : p \in {out} \cap Limbo(task[t].at)}
      /\ task' = [task EXCEPT ![t].phase = "get"]
      /\ UNCHANGED <<entry, fetch, deleted>>
  BY DEF Encode
<1>m. /\ misled \subseteq misled'
      /\ \A k \in Entries : k # task[t].at /\ out \in Plays(entry[k]) => entry[k].film \in misled'
      /\ out \in DOMAIN disk => disk[out] \in misled' \cup {f}
      /\ out \in Limbo(task[t].at) => f \in misled'
  BY <1>2
<1>3. TaskFits(task[t]) /\ TaskSafe(task[t])
  BY <1>1, TaskHere DEF Safe, TasksSafe, Active
<1>4. PICK d : d = [task[t] EXCEPT !.phase = "get"]
  OBVIOUS
<1>5. task' = [task EXCEPT ![t] = d] /\ task'[t] = d
  BY <1>2, <1>4 DEF IInv, Domains
<1>6. /\ d.kind = "job" /\ d.phase = "get" /\ d.view = task[t].view
      /\ d.at = task[t].at /\ d.out = out /\ d.found = task[t].found
      /\ d.outdated = task[t].outdated
  BY <1>1, <1>3, <1>4 DEF TaskFits, IsTask
<1>7. /\ ~ Holds(t) /\ ~ IsMoving(d) /\ ~ IsRemoving(d) /\ ~ IsUnlinking(d)
      /\ ~ IsMoving(task[t]) /\ ~ IsUnlinking(task[t])
  BY <1>1, <1>6 DEF Holds, Is, IsMoving, IsRemoving, IsUnlinking
<1>8. Works({t}, {}) /\ \A k \in Id : \A p : (Owns(k, p))' => Owns(k, p)
  BY <1>2, <1>m, <1>5, <1>7, PrivateWorks
<1>9. DOMAIN disk' = DOMAIN disk \cup {out} /\ disk'[out] = f
      /\ \A p \in DOMAIN disk : p # out => disk'[p] = disk[p]
  BY <1>2 DEF With
<1>10. \A k, p : (Owns(k, p))' => entry[k].film \notin misled'
  BY <1>2 DEF Owns, Fair
<1>11. (TaskSafe(d))'
  <2>1. (Sees(d))' /\ (Remembers(d))'
    BY <1>2, <1>3, <1>6, <1>7 DEF TaskSafe, Sees, Remembers, HasVideos, Plays, IsUnlinking, IsMoving
  <2>2. (WroteItsOwn(d))'
    <3> SUFFICES ASSUME NEW k \in Id, k # d.at, (Owns(k, out))'  PROVE FALSE
      BY <1>6 DEF WroteItsOwn
    <3>1. Owns(k, out) /\ entry[k].film \notin misled'
      BY <1>8, <1>10
    <3>2. out \in DOMAIN disk /\ disk[out] = entry[k].film /\ k \in Entries
      BY <3>1, OwnedIsVideo
    <3>3. CASE out \in Plays(entry[k])
      BY <3>1, <3>2, <3>3, <1>m, <1>6
    <3>4. CASE MovedTo(k, out)
      BY <3>1, <3>2, <3>4, <1>m, InLimbo
    <3> QED  BY <3>1, <3>3, <3>4 DEF Owns
  <2>3. (UnlinksItsOwn(d))' /\ (Migrates(d))' /\ (ScansNew(d))' /\ (Deletes(d))'
    BY <1>6 DEF UnlinksItsOwn, Unlinks, IsUnlinking, Migrates, ScansNew, Deletes
  <2> QED  BY <2>1, <2>2, <2>3 DEF TaskSafe
<1>12. OwnedStays
  <2> SUFFICES ASSUME NEW k \in Id, NEW p, Owns(k, p), (Owns(k, p))'
               PROVE  p \in DOMAIN disk' /\ disk'[p] = disk[p]
    BY DEF OwnedStays
  <2>1. p \in DOMAIN disk /\ disk[p] \notin misled'
    BY <1>10, OwnedIsVideo
  <2> QED  BY <2>1, <1>m, <1>9
<1>13. AllKept({t})
  <2> SUFFICES ASSUME NEW p, (Contested({t}, p))'  PROVE Kept(p)
    BY DEF AllKept
  <2>1. p \in Limbo(task[t].at)
    BY <1>8, OthersInWork, InLimbo
  <2> QED  BY <2>1, <1>m, <1>9 DEF Kept
<1>14. FilmsSurvive'
  <2> SUFFICES ASSUME NEW g \in Film, g \notin misled', g \notin deleted'
               PROVE  \E p \in DOMAIN disk' : p[3] = 0 /\ disk'[p] = g
    BY DEF FilmsSurvive
  <2>1. PICK p \in DOMAIN disk : p[3] = 0 /\ disk[p] = g
    BY <1>2, <1>m DEF Safe, FilmsSurvive
  <2> QED  BY <2>1, <1>m, <1>9
<1>15. ASSUME NEW u \in Slot \ {t}
       PROVE  WritesAlone(t, u) /\ WritesAlone(u, t)
  <2>1. ASSUME (InWork(task[u], out))', task'[u].at # task[t].at  PROVE f \in misled'
    <3>1. InWork(task[u], out) /\ task'[u].at = task[u].at
      BY <2>1, <1>8, OthersInWork
    <3> QED  BY <2>1, <3>1, <1>m, InLimbo
  <2>2. WritesAlone(t, u)
    BY <2>1, <1>5, <1>6, <1>9 DEF WritesAlone
  <2>3. WritesAlone(u, t)
    <3> SUFFICES ASSUME (HasWritten(task[u]) /\ InWork(task[t], task[u].out)
                           /\ task[t].at # task[u].at)'
                 PROVE  disk'[task'[u].out] \in misled'
      BY DEF WritesAlone
    <3>1. task'[u].out = out
      <4>1. ~ (Unlinks(task[t]))'
        BY <1>5, <1>7 DEF Unlinks, IsUnlinking
      <4> QED  BY <4>1, <1>5, <1>6 DEF InWork
    <3>2. (InWork(task[u], out))'
      BY <3>1 DEF InWork
    <3> QED  BY <2>1, <3>1, <3>2, <1>5, <1>6, <1>9
  <2> QED  BY <2>2, <2>3
<1> QED  BY <1>2, <1>m, <1>5, <1>7, <1>11, <1>12, <1>13, <1>14, <1>15, PrivateSafe

(* The source goes that the entry at hand plays no more.                     *)
LEMMA UnlinkSourceSafe ==
  ASSUME IInv, Safe, NEW t \in Slot, UnlinkSource(t)
  PROVE  Safe'
<1> DEFINE m == task[t].at
<1> PICK file : file = task[t].file
  OBVIOUS
<1> PICK f : f = View(t).film
  OBVIOUS
<1> PICK d : d = DoneWith(t, m)
  OBVIOUS
<1>1. /\ Active(t) /\ task[t].kind = "cleanup" /\ task[t].phase = "unlink"
      /\ m \in DOMAIN task[t].view /\ task[t].todo \subseteq DOMAIN task[t].view
      /\ ~ Holds(t) /\ IsUnlinking(task[t])
  BY AtHere DEF UnlinkSource, Holds, Is, IsUnlinking
<1>2. /\ disk' = Without({file}) /\ misled' = misled \cup Hurt(t, m, {file})
      /\ task' = [task EXCEPT ![t] = d]
      /\ UNCHANGED <<entry, fetch, deleted>>
  BY DEF UnlinkSource
<1>3. /\ misled \subseteq misled' /\ task'[t] = d
  BY <1>2 DEF IInv, Domains
<1>4. /\ ~ HasWritten(d) /\ ~ IsUnlinking(d) /\ ~ IsMoving(d) /\ ~ IsRemoving(d)
  <2>1. d = Idle \/ (d.kind = task[t].kind /\ d.phase = "turn")
    BY <1>1, DoneWithIs
  <2> QED  BY <2>1, <1>1, IdleHasNothing DEF HasWritten, IsUnlinking, IsMoving, IsRemoving
<1>5. Works({t}, {})
  BY <1>1, <1>2, <1>3, PrivateWorks
<1>6. d = Idle \/ (TaskSafe(d))'
  <2>1. \A g : (Fair(g))' => Fair(g)
    BY <1>5 DEF Works
  <2>2. \A k \in Id \ {m} : entry'[k] = entry[k]
    BY <1>2
  <2>3. IsMoving(task[t]) \/ IsUnlinking(task[t]) => task[t].at = m
    OBVIOUS
  <2> HIDE DEF m
  <2> QED  BY <1>1, <1>2, <2>1, <2>2, <2>3, DoneWithSafe
<1>7. \A u \in Slot \ {t} : WritesAlone(t, u) /\ WritesAlone(u, t)
  BY <1>3, <1>4, WritesNothing
<1>8. OwnedStays /\ AllKept({t}) /\ FilmsSurvive'
  <2>1. CASE m \in task[t].outdated \/ f \in misled \cup InHand
    <3>1. \A p \in {file} : p \in DOMAIN disk => disk[p] \in misled'
      BY <1>2, <2>1 DEF Hurt, View
    <3> QED  BY <1>2, <1>3, <3>1, Drops
  <2>2. CASE m \notin task[t].outdated /\ f \notin misled \cup InHand
    <3>1. f \notin misled /\ \A u \in Slot : Holds(u) => View(u).film # f
      BY <2>2 DEF InHand
    <3>2. Fair(f)
      BY <3>1 DEF Fair
    <3>3. Unlinks(task[t])
      BY <1>1, <2>2, <3>2 DEF Unlinks, At, View
    <3>4. TaskSafe(task[t])
      BY <1>1 DEF Safe, TasksSafe, Active
    <3>5. /\ \A k \in Id : ~ Owns(k, file)
          /\ Exists(file) => disk[file] \in {f} \cup misled
      BY <3>3, <3>4 DEF TaskSafe, UnlinksItsOwn, At, View
    <3>6. /\ DOMAIN disk' = DOMAIN disk \ {file}
          /\ \A p \in DOMAIN disk' : disk'[p] = disk[p]
      BY <1>2 DEF Without
    <3>7. OwnedStays
      BY <3>5, <3>6, OwnedIsVideo DEF OwnedStays
    <3>8. AllKept({t})
      BY <3>6 DEF AllKept, Kept
    <3>9. FilmsSurvive'
      <4> SUFFICES ASSUME NEW g \in Film, g \notin misled', g \notin deleted'
                   PROVE  \E p \in DOMAIN disk' : p[3] = 0 /\ disk'[p] = g
        BY DEF FilmsSurvive
      <4>1. PICK p \in DOMAIN disk : p[3] = 0 /\ disk[p] = g
        BY <1>2, <1>3 DEF Safe, FilmsSurvive
      <4>2. CASE p # file
        BY <4>1, <4>2, <3>6
      <4>3. CASE p = file
        <5>1. g = f
          BY <4>1, <4>3, <3>5, <1>3 DEF Exists
        <5>2. Same(task[t].view[m], m) /\ m \in Id
          BY <1>1, <2>2, ViewHere
        <5>3. m \in Entries /\ entry[m].film = f
          BY <5>2 DEF Same, Entries, View
        <5>4. entry[m].media_file \in Plays(entry[m])
          <6>1. entry[m].media_file \in Path
            BY <5>3 DEF IInv, EntriesFit, Fits, Sound, Entry
          <6> QED  BY <6>1, NoPathIsNone DEF Plays
        <5>5. ~ Held(m)
          BY <3>1, <5>3 DEF Held
        <5>6. Owns(m, entry[m].media_file)
          BY <3>2, <5>3, <5>4, <5>5 DEF Owns
        <5>7. /\ entry[m].media_file[3] = 0 /\ entry[m].media_file \in DOMAIN disk
              /\ disk[entry[m].media_file] = f /\ entry[m].media_file # file
          BY <3>5, <5>2, <5>3, <5>6, OwnedIsVideo
        <5> QED  BY <3>6, <5>1, <5>7
      <4> QED  BY <4>2, <4>3
    <3> QED  BY <3>7, <3>8, <3>9
  <2> QED  BY <2>1, <2>2
<1> QED  BY <1>1, <1>2, <1>3, <1>4, <1>6, <1>7, <1>8, PrivateSafe

-----------------------------------------------------------------------------
(* Files move to the new directory.                                          *)
LEMMA MovedIs ==
  ASSUME NEW S, \A p \in S : Movable(p), disk' = Moved(S)
  PROVE  /\ \A q \in DOMAIN disk' :
              \/ q \in DOMAIN disk \ S /\ disk'[q] = disk[q]
              \/ /\ q \notin DOMAIN disk
                 /\ \E x \in S : q = Dest(x) /\ disk'[q] = disk[x]
         /\ \A q \in DOMAIN disk : q \notin S => q \in DOMAIN disk' /\ disk'[q] = disk[q]
         /\ \A x \in S : x \in DOMAIN disk /\ Dest(x) \notin DOMAIN disk /\ Dest(x) \in DOMAIN disk'
<1>1. /\ DOMAIN disk' = (DOMAIN disk \ S) \cup {Dest(p) : p \in S}
      /\ \A q \in DOMAIN disk' :
           disk'[q] = IF \E p \in S : Dest(p) = q THEN disk[CHOOSE p \in S : Dest(p) = q]
                      ELSE disk[q]
  BY DEF Moved
<1>2. \A x \in S : x \in DOMAIN disk /\ Dest(x) \notin DOMAIN disk
  BY DEF Movable, Exists
<1>3. ASSUME NEW q \in DOMAIN disk', \E p \in S : Dest(p) = q
      PROVE  \E x \in S : q = Dest(x) /\ disk'[q] = disk[x]
  <2>1. PICK x : x = CHOOSE p \in S : Dest(p) = q
    OBVIOUS
  <2>2. x \in S /\ Dest(x) = q
    BY <1>3, <2>1
  <2>3. disk'[q] = disk[x]
    BY <1>1, <1>3, <2>1
  <2> QED  BY <2>2, <2>3
<1>4. ASSUME NEW q \in DOMAIN disk', ~ \E p \in S : Dest(p) = q
      PROVE  q \in DOMAIN disk \ S /\ disk'[q] = disk[q]
  BY <1>1, <1>4
<1>5. \A q \in DOMAIN disk : q \notin S => q \in DOMAIN disk' /\ disk'[q] = disk[q]
  BY <1>1, <1>2
<1> QED  BY <1>1, <1>2, <1>3, <1>4, <1>5

(* What comes to a place that a task has in hand misleads its film.          *)
LEMMA MovedAllKept ==
  ASSUME IInv, NEW S, \A p \in S : Movable(p), disk' = Moved(S), Displacing(S) \subseteq misled',
         NEW T, NEW W, Works(T, W)
  PROVE  /\ AllKept(T)
         /\ \A p \in Limbo(0) : Kept(p)
<1>1. ASSUME NEW p \in Limbo(0)
      PROVE  Kept(p)
  <2> SUFFICES ASSUME p \in DOMAIN disk', ~ (p \in DOMAIN disk /\ disk'[p] = disk[p])
               PROVE  disk'[p] \in misled'
    BY DEF Kept
  <2>1. PICK x \in S : p = Dest(x) /\ disk'[p] = disk[x]
    BY MovedIs
  <2> QED  BY <2>1 DEF Displacing
<1>2. AllKept(T)
  <2> SUFFICES ASSUME NEW p, (Contested(T, p))'  PROVE Kept(p)
    BY DEF AllKept
  <2>1. p \in Limbo(0)
    BY OthersInWork, InLimbo
  <2> QED  BY <2>1, <1>1
<1> QED  BY <1>1, <1>2

LEMMA DestIs ==
  ASSUME IInv
  PROVE  /\ \A p \in DOMAIN disk : Dest(p)[1] = NewDir /\ Dest(p)[3] = p[3]
         /\ \A p, q \in DOMAIN disk : Dest(p) = Dest(q) /\ p[1] = q[1] => p = q
<1>1. DOMAIN disk \subseteq Path
  BY DEF IInv, DiskFits
<1>2. \A p \in Path : Dest(p)[1] = NewDir /\ Dest(p)[3] = p[3]
  BY DEF Path, Dir, Dest
<1>3. \A p, q \in Path : Dest(p) = Dest(q) /\ p[1] = q[1] => p = q
  BY DEF Path, Dir, Dest
<1> QED  BY <1>1, <1>2, <1>3

LEMMA MoveRestSafe ==
  ASSUME IInv, Safe, NEW t \in Slot, MoveRest(t)
  PROVE  Safe'
<1> PICK S : S = IF transcode_dir = NewDir THEN {}
                 ELSE {p \in DOMAIN disk : p[1] = transcode_dir /\ Movable(p)}
  OBVIOUS
<1>1. /\ Active(t) /\ task[t].kind = "migrate" /\ task[t].phase = "rest" /\ ~ Holds(t)
  BY DEF MoveRest, Is, Holds
<1>2. /\ disk' = Moved(S)
      /\ misled' = misled \cup Displacing(S)
                     \cup {entry[m].film : m \in {k \in Entries \cap (task[t].outdated \cup task[t].left) :
                                                Owned(entry[k]) \cap S # {}}}
      /\ task' = [task EXCEPT ![t] = Idle]
      /\ UNCHANGED <<entry, fetch, deleted>>
  BY DEF MoveRest
<1>3. /\ \A p \in S : p \in DOMAIN disk /\ Movable(p) /\ p[1] = transcode_dir /\ p[1] # NewDir
  OBVIOUS
<1>4. /\ misled \subseteq misled' /\ Displacing(S) \subseteq misled' /\ task'[t] = Idle
      /\ \A k \in Entries : k \in task[t].outdated \cup task[t].left /\ Owned(entry[k]) \cap S # {}
           => entry[k].film \in misled'
  BY <1>2 DEF IInv, Domains
<1>5. Works({t}, {})
  BY <1>1, <1>2, <1>4, PrivateWorks
<1>6. ASSUME NEW k \in Entries, Fair(entry[k].film), NEW p \in Plays(entry[k]), p \in S
      PROVE  entry[k].film \in misled'
  <2>1. CASE k \in task[t].outdated \cup task[t].left
    BY <1>4, <1>6, <2>1 DEF Owned
  <2>2. CASE k \notin task[t].outdated \cup task[t].left
    <3>1. Migrates(task[t])
      BY <1>1 DEF Safe, TasksSafe, TaskSafe, Active
    <3>2. InNewDir(entry[k])
      BY <1>1, <1>6, <2>2, <3>1 DEF Migrates
    <3> QED  BY <1>3, <1>6, <3>2 DEF InNewDir
  <2> QED  BY <2>1, <2>2
<1>7. OwnedStays
  <2> SUFFICES ASSUME NEW k \in Id, NEW p, Owns(k, p), (Owns(k, p))', p \in S
               PROVE  FALSE
    BY <1>2, <1>3, MovedIs, OwnedIsVideo DEF OwnedStays
  <2>1. k \in Entries /\ Fair(entry[k].film) /\ entry[k].film \notin misled'
    BY <1>2 DEF Owns, Fair
  <2>2. CASE p \in Plays(entry[k])
    BY <1>6, <2>1, <2>2
  <2>3. CASE MovedTo(k, p)
    <3>1. PICK u \in Slot : /\ IsMoving(task[u]) /\ task[u].at = k /\ p \in Plays(View(u))
                            /\ View(u).film = entry[k].film
      BY <2>3 DEF MovedTo
    <3>2. task[u] # Idle
      BY <3>1 DEF IsMoving, Idle
    <3>3. Migrates(task[u])
      BY <3>2 DEF Safe, TasksSafe, TaskSafe
    <3>4. p[1] = NewDir \/ p \in Plays(entry[k])
      BY <2>1, <3>1, <3>3 DEF Migrates, At, View, IsMoving
    <3> QED  BY <1>3, <1>6, <2>1, <3>4
  <2> QED  BY <2>2, <2>3 DEF Owns
<1>8. AllKept({t})
  BY <1>2, <1>3, <1>4, <1>5, MovedAllKept
<1>9. FilmsSurvive'
  <2> SUFFICES ASSUME NEW f \in Film, f \notin misled', f \notin deleted'
               PROVE  \E p \in DOMAIN disk' : p[3] = 0 /\ disk'[p] = f
    BY DEF FilmsSurvive
  <2>1. PICK p \in DOMAIN disk : p[3] = 0 /\ disk[p] = f
    BY <1>2, <1>4 DEF Safe, FilmsSurvive
  <2>2. CASE p \notin S
    BY <1>2, <1>3, <2>1, <2>2, MovedIs
  <2>3. CASE p \in S
    <3>1. Dest(p) \in DOMAIN disk' /\ Dest(p) \notin DOMAIN disk
      BY <1>2, <1>3, <2>3, MovedIs
    <3>2. PICK x \in S : Dest(p) = Dest(x) /\ disk'[Dest(p)] = disk[x]
      BY <1>2, <1>3, <3>1, MovedIs
    <3>3. x = p
      BY <1>3, <2>3, <3>2, DestIs
    <3>4. Dest(p)[3] = 0
      BY <2>1, DestIs
    <3> QED  BY <2>1, <3>1, <3>2, <3>3, <3>4
  <2> QED  BY <2>2, <2>3
<1>10. \A u \in Slot \ {t} : WritesAlone(t, u) /\ WritesAlone(u, t)
  BY <1>4, WritesNothing, IdleHasNothing
<1> QED  BY <1>1, <1>2, <1>4, <1>7, <1>8, <1>9, <1>10, IdleHasNothing, PrivateSafe

-----------------------------------------------------------------------------
(* A task that goes by what the store says, of a film nobody has in hand.    *)
Misinformed(t, m) == m \in task[t].outdated \/ task[t].view[m].film \in misled \cup InHand

LEMMA HurtIs ==
  ASSUME NEW t, NEW m, NEW S, Misinformed(t, m)
  PROVE  /\ task[t].view[m].film \in Hurt(t, m, S)
         /\ \A p \in S : p \in DOMAIN disk => disk[p] \in Hurt(t, m, S)
BY DEF Hurt, Misinformed

LEMMA WellInformed ==
  ASSUME IInv, Safe, NEW t \in Slot, Active(t), NEW m \in DOMAIN task[t].view,
         ~ Misinformed(t, m)
  PROVE  LET f == task[t].view[m].film
         IN  /\ m \in Id /\ m \in Entries /\ entry[m].film = f /\ Fair(f) /\ f \notin misled
             /\ \A u \in Slot : ~ (Holds(u) /\ View(u).film = f)
             /\ ~ (IsMoving(task[t]) \/ (IsUnlinking(task[t]) /\ task[t].at = m)) =>
                  task[t].view[m] = entry[m]
             /\ \A p \in Plays(entry[m]) : Owns(m, p)
<1> PICK f : f = task[t].view[m].film
  OBVIOUS
<1>1. f \notin misled /\ \A u \in Slot : ~ (Holds(u) /\ View(u).film = f)
  BY DEF Misinformed, InHand
<1>2. Fair(f)
  BY <1>1 DEF Fair
<1>3. m \in Entries /\ entry[m].film = f /\ m \in Id
  BY ViewHere DEF Misinformed, Same, Entries
<1>4. ~ Held(m)
  BY <1>1, <1>3 DEF Held
<1>5. \A p \in Plays(entry[m]) : Owns(m, p)
  BY <1>2, <1>3, <1>4 DEF Owns
<1>6. ~ (IsMoving(task[t]) \/ (IsUnlinking(task[t]) /\ task[t].at = m)) =>
         task[t].view[m] = entry[m]
  BY DEF Safe, TasksSafe, TaskSafe, Remembers, Misinformed, Active
<1> QED  BY <1>1, <1>2, <1>3, <1>5, <1>6

(* Subtitles are no videos.                                                  *)
LEMMA VideosOwned ==
  ASSUME IInv, Safe, NEW e, Fits(e)
  PROVE  \A p \in Owned(e) : p \in Plays(e) \/ (p \in e.subtitles /\ p[3] # 0)
<1>1. requests \in Nat
  BY Constants DEF IInv, WorldFits
<1> QED  BY <1>1 DEF Fits, IsSubtitle, Owned

(* The files of an entry go, and the task is about to remove it.             *)
LEMMA UnlinkSafe ==
  ASSUME IInv, Safe, NEW t \in Slot, NEW m, Unlink(t, m)
  PROVE  Safe'
<1> PICK S : S = Owned(task[t].view[m])
  OBVIOUS
<1> PICK f : f = task[t].view[m].film
  OBVIOUS
<1> PICK d : d = [task[t] EXCEPT !.phase = "remove", !.at = m]
  OBVIOUS
<1>1. /\ Active(t) /\ task[t].kind \in {"delete", "torrent"} /\ task[t].phase = "turn"
      /\ m \in task[t].todo
      /\ task' = [task EXCEPT ![t].phase = "remove", ![t].at = m]
      /\ disk' = Without(S) /\ misled' = misled \cup Hurt(t, m, S)
      /\ UNCHANGED <<entry, fetch, deleted>>
  BY DEF Unlink, Is
<1>2. task' = [task EXCEPT ![t] = d] /\ task'[t] = d /\ misled \subseteq misled'
  BY <1>1 DEF IInv, Domains
<1>3. m \in DOMAIN task[t].view /\ TaskFits(task[t]) /\ TaskSafe(task[t])
  BY <1>1, TodoHere, TaskHere DEF Safe, TasksSafe, Active
<1>4. /\ d.kind = task[t].kind /\ d.phase = "remove" /\ d.at = m /\ d.view = task[t].view
      /\ d.found = task[t].found /\ d.outdated = task[t].outdated
  BY <1>3 DEF TaskFits, IsTask
<1>5. /\ ~ Holds(t) /\ ~ IsMoving(d) /\ ~ HasWritten(d) /\ ~ IsUnlinking(d)
      /\ ~ IsMoving(task[t]) /\ ~ IsUnlinking(task[t])
  BY <1>1, <1>4 DEF Holds, Is, IsMoving, HasWritten, IsUnlinking
<1>6. Works({t}, {}) /\ \A k \in Id : \A p : (Owns(k, p))' => Owns(k, p)
  BY <1>1, <1>2, <1>5, PrivateWorks
<1>7. (TaskSafe(d))'
  <2>1. (Sees(d))' /\ (Remembers(d))' /\ (Deletes(d))'
    BY <1>1, <1>3, <1>4, <1>5 DEF TaskSafe, Sees, Remembers, Deletes, HasVideos, Plays, IsUnlinking, IsMoving
  <2>2. (WroteItsOwn(d))' /\ (UnlinksItsOwn(d))' /\ (Migrates(d))' /\ (ScansNew(d))'
    BY <1>1, <1>4, <1>5 DEF WroteItsOwn, UnlinksItsOwn, Unlinks, IsUnlinking, HasWritten, Migrates, ScansNew
  <2> QED  BY <2>1, <2>2 DEF TaskSafe
<1>8. LookupsSafe'
  BY <1>1 DEF Safe, LookupsSafe, HasVideos, Plays
<1>9. DOMAIN disk' = DOMAIN disk \ S /\ \A p \in DOMAIN disk' : disk'[p] = disk[p]
  BY <1>1 DEF Without
<1>10. AllKept({t})
  BY <1>9 DEF AllKept, Kept
<1>11. \A u \in Slot : u # t /\ (Holds(u))' => Holds(u) /\ (View(u))' = View(u)
  <2> SUFFICES ASSUME NEW u \in Slot, u # t, (Holds(u))'
               PROVE  Holds(u) /\ (View(u))' = View(u)
    OBVIOUS
  <2>1. AsBefore(task[u], task'[u], {})
    BY <1>6 DEF Works, Others
  <2>2. Holds(u)
    BY <2>1, AsBeforeHolds
  <2> QED  BY <2>1, <2>2, AsBeforeHolds DEF Holds, Is, Active
<1>12. OwnedStays /\ FilmsSurvive' /\ HoldsAlone(t)
  <2>1. CASE Misinformed(t, m)
    <3>1. f \in misled' /\ \A p \in S : p \in DOMAIN disk => disk[p] \in misled'
      BY <1>1, <2>1, HurtIs
    <3>2. OwnedStays /\ FilmsSurvive'
      BY <1>1, <1>2, <3>1, Drops
    <3>3. (View(t).film)' = f
      BY <1>2, <1>4 DEF View
    <3> QED  BY <3>1, <3>2, <3>3 DEF HoldsAlone, Fair
  <2>2. CASE ~ Misinformed(t, m)
    <3>1. /\ m \in Id /\ m \in Entries /\ entry[m].film = f /\ Fair(f)
          /\ \A u \in Slot : ~ (Holds(u) /\ View(u).film = f)
          /\ task[t].view[m] = entry[m] /\ \A p \in Plays(entry[m]) : Owns(m, p)
      BY <1>1, <1>3, <1>5, <2>2, WellInformed
    <3>2. (View(t).film)' = f
      BY <1>2, <1>4 DEF View
    <3>3. HoldsAlone(t)
      <4> SUFFICES ASSUME NEW u \in Slot, u # t, (Holds(u))', (View(u).film)' = f  PROVE FALSE
        BY <3>2 DEF HoldsAlone
      <4> QED  BY <1>11, <3>1
    <3>4. \A p \in S : Owns(m, p) \/ p[3] # 0
      BY <1>1, <1>3, <3>1, ViewHere, VideosOwned
    <3>5. OwnedStays
      <4> SUFFICES ASSUME NEW k \in Id, NEW p, Owns(k, p), (Owns(k, p))', p \in S  PROVE FALSE
        BY <1>9, OwnedIsVideo DEF OwnedStays
      <4>1. k = m
        BY <3>4, OwnedIsVideo DEF Safe, OwnersDiffer
      <4>2. (Held(m))'
        <5>1. (Holds(t))'
          <6>1. d # Idle
            BY <1>1, <1>4 DEF Idle
          <6> QED  BY <1>1, <1>2, <1>4, <6>1 DEF Holds, Is, Active
        <5>2. task'[t].at = m /\ (View(t).film)' = entry'[m].film
          BY <1>1, <1>2, <1>4, <3>1, <3>2
        <5> QED  BY <5>1, <5>2 DEF Held
      <4>3. (MovedTo(m, p))'
        BY <4>1, <4>2 DEF Owns
      <4>4. PICK u \in Slot : (IsMoving(task[u]))' /\ (View(u).film)' = f
        BY <1>1, <3>1, <4>3 DEF MovedTo
      <4>5. u # t
        BY <1>2, <1>5, <4>4 DEF IsMoving
      <4>6. (Holds(u))'
        BY <4>4 DEF Holds, Is, Active, Idle, IsMoving
      <4> QED  BY <1>11, <3>1, <4>4, <4>5, <4>6
    <3>6. FilmsSurvive'
      <4> SUFFICES ASSUME NEW g \in Film, g \notin misled', g \notin deleted'
                   PROVE  \E p \in DOMAIN disk' : p[3] = 0 /\ disk'[p] = g
        BY DEF FilmsSurvive
      <4>1. PICK p \in DOMAIN disk : p[3] = 0 /\ disk[p] = g
        BY <1>1, <1>2 DEF Safe, FilmsSurvive
      <4>2. CASE p \notin S
        BY <1>9, <4>1, <4>2
      <4>3. CASE p \in S
        <5>1. g = f
          BY <3>1, <3>4, <4>1, <4>3, OwnedIsVideo
        <5>2. f \in deleted
          BY <1>1, <1>3 DEF TaskSafe, Deletes
        <5> QED  BY <1>1, <5>1, <5>2
      <4> QED  BY <4>2, <4>3
    <3> QED  BY <3>3, <3>5, <3>6
  <2> QED  BY <2>1, <2>2
<1>13. \A k \in Id : \A p : (Owns(k, p))' => Keeps(k, p) \/ Gains({t}, {}, k, p)
  BY <1>1, <1>6, <1>12 DEF OwnedStays, Keeps
<1>14. \A u \in Slot \ {t} : WritesAlone(t, u) /\ WritesAlone(u, t)
  BY <1>2, <1>5, WritesNothing
<1>15. task'[t] # Idle => (TaskSafe(task[t]))'
  BY <1>2, <1>7
<1> QED  BY <1>6, <1>8, <1>10, <1>12, <1>13, <1>14, <1>15, SafeAgain

-----------------------------------------------------------------------------
(* What becomes of an entry whose files move.                                *)
LEMMA MigratedVideos ==
  ASSUME IInv, NEW e, Fits(e), HasVideos(e), NEW S, NEW F, NEW n \in Migrated(e, S, F)
  PROVE  HasVideos(n)
<1> DEFINE vs == After(e.versions, S, F)
           follow(p, taken) ==
             IF p = NoPath \/ (Exists(p) /\ p \notin S \cup F) THEN {p}
             ELSE IF p \in S \ taken THEN {Dest(p)}
             ELSE IF vs # {} THEN vs ELSE {p}
           TP == follow(e.transcoded, e.versions)
           MF == follow(e.media_file, e.versions \cup {e.transcoded})
           G(tp, file) == Rewritten(e, vs, After(e.subtitles, S, F), tp, file)
<1>0. Migrated(e, S, F) = {G(tp, file) : tp \in TP, file \in MF}
  BY DEF Migrated, After
<1> HIDE DEF TP, MF, vs, follow, G
<1>1. PICK tp \in TP, file \in MF : n = G(tp, file)
  BY <1>0
<1>2. /\ e \in Entry /\ e.versions \subseteq Path /\ IsFiniteSet(e.versions)
      /\ e.transcoded \in Path \cup {NoPath} /\ e.media_file \in Path
  BY DEF Fits, Sound, Entry
<1>3. /\ n.versions = vs /\ n.transcoded = tp /\ n.media_file = file
  BY <1>1, <1>2 DEF Entry, G, Rewritten
<1>4. \A p \in e.versions : p[3] = 0
  BY <1>2, NoPathIsNone DEF HasVideos, Plays
<1>5. \A q \in vs : q[3] = 0
  BY <1>2, <1>4, AfterFits DEF vs
<1>6. ASSUME NEW p, NEW taken, p = NoPath \/ (p \in Path /\ p[3] = 0), NEW q \in follow(p, taken)
      PROVE  q = NoPath \/ q[3] = 0
  BY <1>5, <1>6 DEF follow, Dest
<1>7. \A p \in {e.transcoded, e.media_file} : p = NoPath \/ (p \in Path /\ p[3] = 0)
  BY <1>2 DEF HasVideos, Plays
<1>8. \A q \in {tp, file} : q = NoPath \/ q[3] = 0
  BY <1>6, <1>7 DEF TP, MF
<1> QED  BY <1>3, <1>5, <1>8 DEF HasVideos, Plays

LEMMA MigratedPlays ==
  ASSUME IInv, NEW e, Fits(e), HasVersions(e), \A p \in Plays(e) : Exists(p),
         NEW S, NEW n \in Migrated(e, S, {})
  PROVE  /\ HasVersions(n)
         /\ \A q \in Plays(n) : \/ q \in Plays(e) /\ q \notin S
                                \/ \E x \in Plays(e) : x \in S /\ q = Dest(x)
<1> DEFINE vs == After(e.versions, S, {})
           follow(p, taken) ==
             IF p = NoPath \/ (Exists(p) /\ p \notin S \cup {}) THEN {p}
             ELSE IF p \in S \ taken THEN {Dest(p)}
             ELSE IF vs # {} THEN vs ELSE {p}
           TP == follow(e.transcoded, e.versions)
           MF == follow(e.media_file, e.versions \cup {e.transcoded})
           G(tp, file) == Rewritten(e, vs, After(e.subtitles, S, {}), tp, file)
           Comes(q) == \/ q \in Plays(e) /\ q \notin S
                       \/ \E x \in Plays(e) : x \in S /\ q = Dest(x)
<1>0. Migrated(e, S, {}) = {G(tp, file) : tp \in TP, file \in MF}
  BY DEF Migrated, After
<1> HIDE DEF TP, MF, vs, follow, G, Comes
<1>1. PICK tp \in TP, file \in MF : n = G(tp, file)
  BY <1>0
<1>2. /\ e \in Entry /\ e.versions \subseteq Path
      /\ e.transcoded \in Path \cup {NoPath} /\ e.media_file \in Path
  BY DEF Fits, Sound, Entry
<1>3. /\ n.versions = vs /\ n.transcoded = tp /\ n.media_file = file /\ n.ready = e.ready
  BY <1>1, <1>2 DEF Entry, G, Rewritten
<1>4. /\ e.versions \subseteq Plays(e) /\ e.media_file \in Plays(e)
      /\ e.transcoded # NoPath => e.transcoded \in Plays(e)
  BY <1>2, NoPathIsNone DEF Plays
<1>5. \A q \in vs : Comes(q)
  BY <1>4 DEF vs, After, Comes
<1>6. e.versions # {} => vs # {}
  <2> SUFFICES ASSUME NEW p \in e.versions  PROVE vs # {}
    OBVIOUS
  <2>1. Exists(p)
    BY <1>4
  <2>2. CASE p \in S
    BY <2>2 DEF vs, After
  <2>3. CASE p \notin S
    BY <2>1, <2>3 DEF vs, After
  <2> QED  BY <2>2, <2>3
<1>7. ASSUME NEW p \in Plays(e), NEW taken, p \in taken => vs # {}, NEW q \in follow(p, taken)
      PROVE  Comes(q)
  <2>1. Exists(p)
    OBVIOUS
  <2>2. CASE p \notin S
    BY <1>7, <2>1, <2>2 DEF follow, Comes
  <2>3. CASE p \in S /\ p \notin taken
    <3>1. p # NoPath
      BY DEF Plays
    <3> QED  BY <1>7, <2>3, <3>1 DEF follow, Comes
  <2>4. CASE p \in S /\ p \in taken
    <3>1. p # NoPath
      BY DEF Plays
    <3> QED  BY <1>5, <1>7, <2>4, <3>1 DEF follow
  <2> QED  BY <2>2, <2>3, <2>4
<1>8. tp = NoPath \/ Comes(tp)
  <2>1. CASE e.transcoded = NoPath
    BY <2>1 DEF TP, follow
  <2>2. CASE e.transcoded # NoPath
    BY <1>4, <1>6, <1>7, <2>2 DEF TP
  <2> QED  BY <2>1, <2>2
<1>9. Comes(file)
  <2>1. e.media_file \in e.versions \cup {e.transcoded} => vs # {}
    <3>1. e.media_file # NoPath
      BY <1>2, NoPathIsNone
    <3> QED  BY <1>6, <3>1 DEF HasVersions
  <2> QED  BY <1>4, <1>7, <2>1 DEF MF
<1>10. HasVersions(n)
  <2>1. e.transcoded = NoPath => tp = NoPath
    BY DEF TP, follow
  <2> QED  BY <1>3, <1>6, <2>1 DEF HasVersions
<1>11. \A q \in Plays(n) : Comes(q)
  BY <1>3, <1>5, <1>8, <1>9 DEF Plays
<1> QED  BY <1>10, <1>11 DEF Comes

(* The same for a migration that is well informed.                           *)
LEMMA MigratedHere ==
  ASSUME IInv, Safe, NEW t \in Slot, Active(t), NEW m \in DOMAIN task[t].view,
         ~ Misinformed(t, m), ~ IsMoving(task[t]), ~ IsUnlinking(task[t]),
         NEW e, e = task[t].view[m],
         NEW S, \A p : p \in S <=> p \in Owned(e) /\ Movable(p), NEW n \in Migrated(e, S, {})
  PROVE  /\ entry[m] = e /\ HasVersions(n)
         /\ \A q \in Plays(n) : \/ q \in Plays(e) /\ q \notin S
                                \/ \E x \in Plays(e) : x \in S /\ q = Dest(x)
         /\ Behind(t, m) = {} => InNewDir(n)
         /\ n = e => \A p \in Plays(e) : p \notin S
<1>1. /\ m \in Entries /\ entry[m] = e /\ Fair(e.film) /\ \A p \in Plays(e) : Owns(m, p)
  BY WellInformed
<1>2. \A p \in Plays(e) : p \in DOMAIN disk
  BY <1>1, OwnedIsVideo
<1>3. Fits(e) /\ HasVersions(e)
  BY <1>1, ViewHere DEF Safe, EntriesSafe, EntrySafe
<1>4. /\ HasVersions(n)
      /\ \A q \in Plays(n) : \/ q \in Plays(e) /\ q \notin S
                             \/ \E x \in Plays(e) : x \in S /\ q = Dest(x)
  BY <1>2, <1>3, MigratedPlays DEF Exists
<1>5. Behind(t, m) = {} => InNewDir(n)
  <2> SUFFICES ASSUME Behind(t, m) = {}, NEW q \in Plays(n)  PROVE q[1] = NewDir
    BY DEF InNewDir
  <2>1. CASE q \in Plays(e) /\ q \notin S
    <3>1. q \in Owned(e) /\ Exists(q)
      BY <1>2, <2>1 DEF Owned, Exists
    <3>2. Exists(Dest(q))
      BY <2>1, <3>1 DEF Movable
    <3> QED  BY <3>1, <3>2 DEF Behind
  <2>2. CASE \E x \in Plays(e) : x \in S /\ q = Dest(x)
    BY <1>2, <2>2, DestIs
  <2> QED  BY <1>4, <2>1, <2>2
<1>6. n = e => \A p \in Plays(e) : p \notin S
  BY <1>2, <1>4 DEF Movable, Exists
<1> QED  BY <1>1, <1>4, <1>5, <1>6

(* What a holder other than t holds, it held.                                *)
LEMMA OthersHeld ==
  ASSUME NEW T, NEW W, Works(T, W)
  PROVE  \A u \in Slot \ T : (Holds(u))' =>
           /\ Holds(u) /\ (View(u))' = View(u) /\ task'[u].at = task[u].at
           /\ (IsMoving(task[u]))' <=> IsMoving(task[u])
<1> SUFFICES ASSUME NEW u \in Slot \ T, (Holds(u))'
             PROVE  /\ Holds(u) /\ (View(u))' = View(u) /\ task'[u].at = task[u].at
                    /\ (IsMoving(task[u]))' <=> IsMoving(task[u])
  OBVIOUS
<1>1. AsBefore(task[u], task'[u], W)
  BY DEF Works, Others
<1>2. Holds(u)
  BY <1>1, AsBeforeHolds
<1> QED  BY <1>1, <1>2, AsBeforeHolds DEF Holds, Is, Active

LEMMA MovingHolds ==
  ASSUME NEW t \in Slot
  PROVE  IsMoving(task[t]) => Holds(t)
BY DEF IsMoving, Holds, Is, Active, Idle

(* An entry's files move; f is its film as the task knows it.                *)
LEMMA MigrateSafe ==
  ASSUME IInv, Safe, NEW t \in Slot, NEW m, MigrateOne(t, m)
  PROVE  Safe'
<1> PICK e : e = task[t].view[m]
  OBVIOUS
<1>0. e = task[t].view[m]
  OBVIOUS
<1>1. /\ Active(t) /\ task[t].kind = "migrate" /\ task[t].phase = "turn"
      /\ m \in task[t].todo /\ task[t].todo \subseteq DOMAIN task[t].view
      /\ m \in DOMAIN task[t].view
      /\ UNCHANGED <<entry, fetch, deleted>>
  <2>1. /\ Active(t) /\ task[t].kind = "migrate" /\ task[t].phase = "turn"
        /\ m \in task[t].todo /\ UNCHANGED <<entry, fetch, deleted>>
    BY DEF MigrateOne, Turn, Is
  <2> QED  BY <2>1, TodoHere
<1>3. PICK F \in SUBSET {p \in Owned(e) : Movable(p)} :
        LET S == {p \in Owned(e) : Movable(p)} \ F
        IN  /\ disk' = Moved(S)
            /\ misled' = misled \cup Hurt(t, m, S) \cup Displacing(S)
                           \cup (IF F = {} THEN {} ELSE {e.film})
            /\ \E n \in Migrated(e, S, F) :
                 LET d == IF n # e
                          THEN [task[t] EXCEPT !.phase = "put", !.at = m, !.view[m] = n]
                          ELSE IF task[t].todo = {m}
                          THEN [task[t] EXCEPT !.phase = "rest", !.view = <<>>]
                          ELSE DoneWith(t, m)
                 IN  task' = [task EXCEPT ![t] = [d EXCEPT !.left = @ \cup Behind(t, m)]]
  BY DEF MigrateOne
<1>5. PICK S : S = {p \in Owned(e) : Movable(p)} \ F
  OBVIOUS
<1>6. PICK n \in Migrated(e, S, F) :
        LET d == IF n # e
                 THEN [task[t] EXCEPT !.phase = "put", !.at = m, !.view[m] = n]
                 ELSE IF task[t].todo = {m}
                 THEN [task[t] EXCEPT !.phase = "rest", !.view = <<>>]
                 ELSE DoneWith(t, m)
        IN  task' = [task EXCEPT ![t] = [d EXCEPT !.left = @ \cup Behind(t, m)]]
  BY <1>3, <1>5
<1>7. /\ disk' = Moved(S)
      /\ misled' = misled \cup Hurt(t, m, S) \cup Displacing(S)
                     \cup (IF F = {} THEN {} ELSE {e.film})
  BY <1>3, <1>5
<1>8. PICK none : none = <<>>
  OBVIOUS
<1>9. PICK V : V = [task[t].view EXCEPT ![m] = n]
  OBVIOUS
<1>10. PICK d : d = IF n # e THEN [task[t] EXCEPT !.phase = "put", !.at = m, !.view = V]
                    ELSE IF task[t].todo = {m}
                    THEN [task[t] EXCEPT !.phase = "rest", !.view = none]
                    ELSE DoneWith(t, m)
  OBVIOUS
<1>11. PICK g : g = [d EXCEPT !.left = @ \cup Behind(t, m)]
  OBVIOUS
<1>12. task' = [task EXCEPT ![t] = g]
  <2>1. d = IF n # e
            THEN [task[t] EXCEPT !.phase = "put", !.at = m, !.view[m] = n]
            ELSE IF task[t].todo = {m}
            THEN [task[t] EXCEPT !.phase = "rest", !.view = <<>>]
            ELSE DoneWith(t, m)
    BY <1>8, <1>9, <1>10
  <2> QED  BY ONLY <1>6, <1>11, <2>1
<1>13. task'[t] = g
  BY <1>12 DEF IInv, Domains
<1>14. /\ TaskFits(task[t]) /\ IsTask(task[t]) /\ TaskSafe(task[t]) /\ Fits(e) /\ HasVideos(e)
       /\ DOMAIN task[t].view \subseteq Id /\ m \in Id
  BY <1>1, TaskHere, ViewHere DEF TaskFits, Safe, TasksSafe, TaskSafe, Sees, Active, Knows, Given
<1>15. Fits(n) /\ n.film = e.film /\ HasVideos(n)
  BY <1>14, MigratedFits, MigratedVideos
<1>16. ~ Holds(t) /\ ~ IsMoving(task[t]) /\ ~ IsUnlinking(task[t])
  BY <1>1 DEF Holds, Is, IsMoving, IsUnlinking
<1>17. /\ g.kind = "migrate" /\ g.outdated = task[t].outdated
       /\ g.left = task[t].left \cup Behind(t, m) /\ g.found = task[t].found
       /\ n # e => g.phase = "put" /\ g.at = m /\ g.view = V /\ g.todo = task[t].todo
       /\ n = e => /\ g.phase \in {"turn", "rest"}
                   /\ DOMAIN g.view \subseteq DOMAIN task[t].view \ {m}
                   /\ \A k \in DOMAIN g.view : g.view[k] = task[t].view[k]
                   /\ \/ g.phase = "turn" /\ g.todo = task[t].todo \ {m}
                      \/ task[t].todo = {m}
  <2>1. CASE n # e
    <3>1. d = [task[t] EXCEPT !.phase = "put", !.at = m, !.view = V]
      BY <1>10, <2>1
    <3>2. /\ IsTask(d) /\ d.kind = "migrate" /\ d.outdated = task[t].outdated
          /\ d.left = task[t].left /\ d.found = task[t].found /\ d.phase = "put" /\ d.at = m
          /\ d.view = V /\ d.todo = task[t].todo
      BY <1>1, <1>14, <3>1 DEF IsTask
    <3> QED  BY <2>1, <3>2, <1>11 DEF IsTask
  <2>2. CASE n = e /\ task[t].todo = {m}
    <3>1. d = [task[t] EXCEPT !.phase = "rest", !.view = none]
      BY <1>10, <2>2
    <3>2. /\ IsTask(d) /\ d.kind = "migrate" /\ d.outdated = task[t].outdated
          /\ d.left = task[t].left /\ d.found = task[t].found /\ d.phase = "rest"
          /\ d.view = none
      BY <1>1, <1>14, <3>1 DEF IsTask
    <3>3. DOMAIN none = {}
      BY <1>8
    <3> QED  BY <2>2, <3>2, <3>3, <1>11 DEF IsTask
  <2>3. CASE n = e /\ task[t].todo # {m}
    <3>1. d = DoneWith(t, m)
      BY <1>10, <2>3
    <3>2. d # Idle
      <4>1. task[t].todo \ {m} # {}
        BY <1>1, <2>3
      <4>2. d.kind = "migrate" /\ IsTask(d)
        BY <1>1, <1>14, <3>1, <4>1 DEF DoneWith, IsTask
      <4> QED  BY <4>2 DEF Idle
    <3>3. /\ IsTask(d) /\ d.kind = "migrate" /\ d.outdated = task[t].outdated
          /\ d.left = task[t].left /\ d.found = task[t].found /\ d.phase = "turn"
          /\ d.todo = task[t].todo \ {m}
          /\ d.view = [k \in task[t].todo \ {m} |-> task[t].view[k]]
      BY <1>1, <3>1, <3>2, DoneWithIs
    <3> QED  BY <1>1, <2>3, <3>3, <1>11 DEF IsTask
  <2> QED  BY <2>1, <2>2, <2>3
<1>18. /\ misled \subseteq misled' /\ Displacing(S) \subseteq misled' /\ (F # {} => e.film \in misled')
       /\ Hurt(t, m, S) \subseteq misled'
  BY <1>7
<1>19. /\ \A p \in S : p \in DOMAIN disk /\ Movable(p) /\ p \in Owned(e)
       /\ S \subseteq DOMAIN disk
  BY <1>5 DEF Movable, Exists
<1>20. /\ DOMAIN V = DOMAIN task[t].view /\ V[m] = n
       /\ \A k \in DOMAIN V : k # m => V[k] = task[t].view[k]
  BY <1>1, <1>9
<1>21. /\ ~ HasWritten(g) /\ ~ IsUnlinking(g) /\ ~ IsRemoving(g)
       /\ IsMoving(g) <=> n # e
  BY <1>17 DEF HasWritten, IsUnlinking, IsRemoving, IsMoving
<1>22. /\ Works({t}, {})
       /\ \A k \in Id : (IsMoving(g) => g.at # k \/ At(g).film # entry[k].film) =>
            \A p : (Owns(k, p))' => Owns(k, p)
  BY <1>1, <1>12, <1>16, <1>18, PrivateWorks
<1>23. \A k \in Id : \A p : (Owns(k, p))' => entry[k].film \notin misled'
  BY <1>1 DEF Owns, Fair
(* A film that is fair afterwards was well known, and nothing failed.        *)
<1>24. ASSUME e.film \notin misled'
       PROVE  /\ ~ Misinformed(t, m) /\ F = {} /\ m \in Entries /\ entry[m] = e /\ HasVersions(n)
              /\ \A u \in Slot : ~ (Holds(u) /\ View(u).film = e.film)
              /\ \A p \in Plays(e) : Owns(m, p)
              /\ \A p \in S : p[3] = 0 => p \in Plays(e)
              /\ \A q \in Plays(n) : \/ q \in Plays(e) /\ q \notin S
                                     \/ \E x \in Plays(e) : x \in S /\ q = Dest(x)
              /\ Behind(t, m) = {} => InNewDir(n)
              /\ n = e => \A p \in Plays(e) : p \notin S
  <2>1. ~ Misinformed(t, m)
    BY <1>18, <1>24, HurtIs
  <2>2. F = {}
    BY <1>18, <1>24
  <2>3. (\A p : p \in S <=> p \in Owned(e) /\ Movable(p)) /\ n \in Migrated(e, S, {})
    BY <1>5, <1>6, <2>2
  <2>4. /\ entry[m] = e /\ HasVersions(n)
        /\ \A q \in Plays(n) : \/ q \in Plays(e) /\ q \notin S
                               \/ \E x \in Plays(e) : x \in S /\ q = Dest(x)
        /\ Behind(t, m) = {} => InNewDir(n)
        /\ n = e => \A p \in Plays(e) : p \notin S
    BY <1>0, <1>1, <1>16, <2>1, <2>3, MigratedHere
  <2>5. /\ m \in Entries /\ \A u \in Slot : ~ (Holds(u) /\ View(u).film = e.film)
        /\ \A p \in Plays(entry[m]) : Owns(m, p)
    BY <1>1, <2>1, WellInformed
  <2>6. \A p \in S : p[3] = 0 => p \in Plays(e)
    BY <1>14, <1>19, VideosOwned
  <2> QED  BY <2>1, <2>2, <2>4, <2>5, <2>6
<1>25. ASSUME e.film \in misled' \/ Misinformed(t, m)
       PROVE  e.film \in misled'
  BY <1>18, <1>25, HurtIs
<1> HIDE DEF Misinformed
<1>26. (TaskSafe(g))'
  <2>1. CASE n # e
    <3>1. g.phase = "put" /\ g.at = m /\ g.view = V /\ g.todo = task[t].todo /\ IsMoving(g)
      BY <2>1, <1>17, <1>21
    <3>2. (Sees(g))'
      BY <1>14, <1>15, <1>17, <1>20, <1>21, <3>1 DEF TaskSafe, Sees, HasVideos, Plays, IsUnlinking
    <3>3. (Remembers(g))'
      BY <1>1, <1>14, <1>16, <1>17, <1>20, <3>1 DEF TaskSafe, Remembers, IsMoving
    <3>4. (WroteItsOwn(g))' /\ (UnlinksItsOwn(g))' /\ (ScansNew(g))' /\ (Deletes(g))'
      BY <1>17, <1>21 DEF WroteItsOwn, UnlinksItsOwn, Unlinks, IsUnlinking, HasWritten,
         ScansNew, Deletes
    <3>5. (Migrates(g))'
      <4>1. Migrates(task[t]) /\ \A f : (Fair(f))' => Fair(f)
        BY <1>14, <1>22 DEF TaskSafe, Works
      <4>2. ASSUME NEW k \in Id, k \in Entries', (Fair(entry[k].film))', k \notin g.outdated \cup g.left
            PROVE  (g.phase # "rest" /\ k \in g.todo) \/ InNewDir(entry'[k])
        <5>1. k \in Entries /\ entry'[k] = entry[k] /\ Fair(entry[k].film)
          BY <1>1, <4>1, <4>2 DEF Entries, Present
        <5> QED  BY <1>1, <1>17, <3>1, <4>1, <4>2, <5>1 DEF Migrates
      <4>3. ASSUME e.film \notin misled'
            PROVE  /\ HasVersions(n)
                   /\ m \notin g.left => InNewDir(n)
                   /\ \A p \in Plays(n) : p[1] = NewDir \/ p \in Plays(entry'[m])
        <5>2. m \notin g.left => Behind(t, m) = {}
          BY <1>17 DEF Behind
        <5>3. \A p \in Plays(e) : p \in S => Dest(p)[1] = NewDir
          BY <1>19, DestIs
        <5> QED  BY <1>1, <1>24, <4>3, <5>2, <5>3
      <4>4. At(g) = n
        BY <3>1, <1>20 DEF At
      <4>5. IsMoving(g) /\ (Fair(At(g).film))' =>
              /\ HasVersions(At(g))
              /\ g.at \notin g.left => InNewDir(At(g))
              /\ \A p \in Plays(At(g)) : p[1] = NewDir \/ p \in Plays(entry'[g.at])
        <5> SUFFICES ASSUME (Fair(At(g).film))'
                     PROVE  /\ HasVersions(n)
                            /\ m \notin g.left => InNewDir(n)
                            /\ \A p \in Plays(n) : p[1] = NewDir \/ p \in Plays(entry'[m])
          BY <3>1, <4>4
        <5>1. n.film \notin misled'
          BY <4>4 DEF At, Fair
        <5> QED  BY <1>15, <4>3, <5>1
      <4> QED  BY <4>2, <4>5 DEF Migrates, At, IsMoving, InNewDir, HasVersions, Plays, Entries, Present
    <3> QED  BY <3>2, <3>3, <3>4, <3>5 DEF TaskSafe
  <2>2. CASE n = e
    <3> PICK c : c = task[t]
      OBVIOUS
    <3>1. /\ g.phase \in {"turn", "rest"}
          /\ DOMAIN g.view \subseteq DOMAIN c.view \ {m}
          /\ \A k \in DOMAIN g.view : g.view[k] = c.view[k]
          /\ (g.phase = "turn" /\ g.todo = c.todo \ {m}) \/ c.todo = {m}
          /\ g.kind = c.kind /\ g.outdated = c.outdated /\ c.left \subseteq g.left
          /\ g.found = c.found
      BY <1>1, <1>17, <2>2
    <3>2. m \in Id /\ entry'[m] # NoEntry /\ (Fair(entry[m].film))'
                /\ m \notin c.outdated \cup g.left => InNewDir(entry'[m])
      <4> SUFFICES ASSUME (Fair(entry[m].film))', m \notin c.outdated, m \notin g.left
                   PROVE  InNewDir(entry'[m])
        OBVIOUS
      <4>1. entry[m].film = e.film
        BY <1>1, ViewHere DEF Same
      <4>2. e.film \notin misled'
        BY <1>1, <4>1 DEF Fair
      <4>3. Behind(t, m) = {}
        BY <1>17 DEF Behind
      <4> QED  BY <1>1, <1>24, <2>2, <4>2, <4>3
    <3>3. c.phase # "rest" /\ ~ IsMoving(c) /\ ~ IsUnlinking(c) /\ c.kind = "migrate"
      BY <1>1, <1>16
    <3>4. \A f : (Fair(f))' => Fair(f)
      BY <1>22 DEF Works
    <3>5. TaskSafe(c) /\ DOMAIN c.view \subseteq Id
      BY <1>14
    <3>6. \A k \in Id \ {m} : entry'[k] = entry[k]
      BY <1>1
    <3> QED  BY <1>1, <3>1, <3>2, <3>3, <3>4, <3>5, <3>6, GoesOnSafe
  <2> QED  BY <2>1, <2>2
<1>27. LookupsSafe'
  BY <1>1 DEF Safe, LookupsSafe, HasVideos, Plays
<1>28. AllKept({t}) /\ \A p \in Limbo(0) : Kept(p)
  BY <1>7, <1>18, <1>19, <1>22, MovedAllKept
<1>29. FilmsSurvive'
  <2> SUFFICES ASSUME NEW f \in Film, f \notin misled', f \notin deleted'
               PROVE  \E p \in DOMAIN disk' : p[3] = 0 /\ disk'[p] = f
    BY DEF FilmsSurvive
  <2>1. PICK p \in DOMAIN disk : p[3] = 0 /\ disk[p] = f
    BY <1>1, <1>18 DEF Safe, FilmsSurvive
  <2>2. CASE p \notin S
    BY <1>7, <1>19, <2>1, <2>2, MovedIs
  <2>3. CASE p \in S
    <3>0. ~ Misinformed(t, m)
      BY <1>18, <2>1, <2>3, HurtIs
    <3>1. /\ \A q \in Plays(entry[m]) : Owns(m, q)
          /\ entry[m] = e
      BY <1>1, <1>16, <3>0, WellInformed
    <3>2. \A q \in S : q[3] = 0 => disk[q] = e.film
      BY <1>14, <1>19, <3>1, VideosOwned, OwnedIsVideo
    <3>3. Dest(p) \in DOMAIN disk' /\ Dest(p) \notin DOMAIN disk
      BY <1>7, <1>19, <2>3, MovedIs
    <3>4. PICK x \in S : Dest(p) = Dest(x) /\ disk'[Dest(p)] = disk[x]
      BY <1>7, <1>19, <3>3, MovedIs
    <3>5. Dest(p)[3] = 0 /\ x[3] = 0
      BY <1>19, <2>1, <3>4, DestIs
    <3> QED  BY <2>1, <2>3, <3>2, <3>3, <3>4, <3>5
  <2> QED  BY <2>2, <2>3
<1>30. ASSUME NEW k \in Id, NEW p, (Owns(k, p))'
       PROVE  Keeps(k, p) \/ Gains({t}, {}, k, p)
  <2>1. entry[k].film \notin misled' /\ k \in Entries
    BY <1>1, <1>23, <1>30 DEF Owns, Entries, Present
  <2>2. ASSUME Owns(k, p), p \notin S  PROVE Keeps(k, p)
    BY <1>1, <1>7, <1>19, <2>2, MovedIs, OwnedIsVideo DEF Keeps
  <2>3. ASSUME Owns(k, p), p \in S
        PROVE  k = m /\ e.film \notin misled' /\ p \in Plays(e)
    <3>1. disk[p] = entry[k].film /\ p[3] = 0
      BY <2>3, OwnedIsVideo
    <3>2. ~ Misinformed(t, m)
      BY <1>18, <1>19, <2>1, <2>3, <3>1, HurtIs
    <3>3. entry[m] = e /\ \A q \in Plays(entry[m]) : Owns(m, q)
      BY <1>1, <1>16, <3>2, WellInformed
    <3>4. p \in Plays(e)
      BY <1>14, <1>19, <2>3, <3>1, VideosOwned
    <3>5. k = m
      BY <2>3, <3>3, <3>4 DEF Safe, OwnersDiffer
    <3> QED  BY <2>1, <3>3, <3>4, <3>5
  <2>4. CASE k # m \/ n = e \/ entry[k].film # e.film
    <3>1. IsMoving(g) => g.at # k \/ At(g).film # entry[k].film
      BY <2>4, <1>15, <1>17, <1>20, <1>21 DEF At
    <3>2. Owns(k, p)
      BY <1>22, <1>30, <3>1
    <3>3. CASE p \in S
      <4>1. k = m /\ e.film \notin misled' /\ p \in Plays(e)
        BY <2>3, <3>2, <3>3
      <4>2. n # e /\ entry[m] = e
        BY <1>24, <3>3, <4>1
      <4> QED  BY <2>4, <4>1, <4>2
    <3> QED  BY <2>2, <3>2, <3>3
  <2>5. CASE k = m /\ n # e /\ entry[k].film = e.film
    <3>1. e.film \notin misled'
      BY <2>1, <2>5
    <3>2. (View(t))' = n /\ (IsMoving(task[t]))' /\ task'[t].at = m /\ (Holds(t))'
      BY <2>5, <1>13, <1>17, <1>20, <1>21 DEF View, IsMoving, Holds, Is, Active, Idle
    <3>3. (Held(m))'
      BY <3>2, <2>5, <1>1, <1>15 DEF Held
    <3>4. (MovedTo(m, p))'
      BY <1>30, <2>5, <3>3 DEF Owns
    <3>5. PICK u \in Slot : (IsMoving(task[u]))' /\ (View(u))'.film = e.film /\ p \in (Plays(View(u)))'
      BY <1>1, <2>5, <3>4 DEF MovedTo
    <3>6. u = t
      <4>1. (Holds(u))'
        BY <3>5 DEF IsMoving, Holds, Is, Active, Idle
      <4>2. u \in Slot \ {t} => Holds(u) /\ View(u).film = e.film
        BY <4>1, <3>5, <1>22, OthersHeld
      <4> QED  BY <1>24, <3>1, <4>2
    <3>7. p \in Plays(n)
      BY <3>2, <3>5, <3>6 DEF Plays
    <3>8. CASE p \in Plays(e) /\ p \notin S
      BY <1>24, <2>2, <2>5, <3>1, <3>8
    <3>9. CASE \E x \in Plays(e) : x \in S /\ p = Dest(x)
      <4>1. PICK x \in Plays(e) : x \in S /\ p = Dest(x)
        BY <3>9
      <4>2. p \in DOMAIN disk' /\ p \notin DOMAIN disk
        BY <1>7, <1>19, <4>1, MovedIs
      <4>3. PICK y \in S : p = Dest(y) /\ disk'[p] = disk[y]
        BY <1>7, <1>19, <4>2, MovedIs
      <4>4. x[3] = 0 /\ y[3] = 0
        <5>1. x[3] = 0
          BY <1>14 DEF HasVideos
        <5> QED  BY <5>1, <1>19, <4>1, <4>3, DestIs
      <4>5. disk[y] = e.film
        BY <1>24, <3>1, <4>4, <2>5, OwnedIsVideo
      <4>6. disk'[p] = entry'[m].film
        BY <1>1, <2>5, <4>3, <4>5
      <4>7. \A j \in Id : (Owns(j, p))' => j = m
        <5> SUFFICES ASSUME NEW j \in Id, (Owns(j, p))', j # m  PROVE FALSE
          OBVIOUS
        <5>1. IsMoving(g) => g.at # j \/ At(g).film # entry[j].film
          BY <2>5, <1>17
        <5>2. Owns(j, p)
          BY <1>22, <5>1
        <5> QED  BY <4>2, <5>2, OwnedIsVideo
      <4>8. \A v \in Slot \ {t} : ~ (InWork(task[v], p))'
        <5> SUFFICES ASSUME NEW v \in Slot \ {t}, (InWork(task[v], p))'  PROVE FALSE
          OBVIOUS
        <5>1. p \in Limbo(0)
          BY <1>22, OthersInWork, InLimbo
        <5> QED  BY <1>28, <3>1, <4>2, <4>3, <4>5, <5>1 DEF Kept
      <4> QED  BY <2>5, <4>2, <4>6, <4>7, <4>8 DEF Gains
    <3> QED  BY <1>24, <3>1, <3>7, <3>8, <3>9
  <2> QED  BY <2>4, <2>5
<1>31. HoldsAlone(t)
  <2> SUFFICES ASSUME (Holds(t))', (Fair(View(t).film))', NEW u \in Slot \ {t},
                      (Holds(u))', (View(u).film = View(t).film)'
               PROVE  FALSE
    BY DEF HoldsAlone
  <2>1. n # e
    BY <1>13, <1>17 DEF Holds, Is
  <2>2. (View(t))'.film = e.film
    BY <2>1, <1>13, <1>15, <1>17, <1>20 DEF View
  <2>3. e.film \notin misled'
    BY <2>2 DEF Fair
  <2>4. Holds(u) /\ View(u).film = e.film
    BY <2>2, <1>22, OthersHeld
  <2> QED  BY <1>24, <2>3, <2>4
<1>32. \A u \in Slot \ {t} : WritesAlone(t, u) /\ WritesAlone(u, t)
  BY <1>13, <1>21, WritesNothing
<1>33. task'[t] # Idle => (TaskSafe(task[t]))'
  BY <1>13, <1>26
<1> QED  BY <1>22, <1>27, <1>28, <1>29, <1>30, <1>31, <1>32, <1>33, SafeAgain

-----------------------------------------------------------------------------
(* Tasks write entries.                                                      *)

(* A task that is told goes on as it was.                                    *)
LEMMA ToldAsBefore ==
  ASSUME IInv, NEW T, NEW W,
         \A u \in Slot \ T : task'[u] = IF task[u] # Idle
           THEN [task[u] EXCEPT !.outdated = @ \cup W] ELSE task[u]
  PROVE  Others(T, W)
<1> SUFFICES ASSUME NEW u \in Slot \ T  PROVE AsBefore(task[u], task'[u], W)
  BY DEF Others
<1>1. CASE task[u] = Idle
  BY <1>1 DEF AsBefore
<1>2. CASE task[u] # Idle
  <2> PICK c : c = task[u]
    OBVIOUS
  <2> PICK d : d = task'[u]
    OBVIOUS
  <2>1. IsTask(c) /\ c.kind \in Kind
    BY <1>2, TaskHere DEF TaskFits, Active
  <2>2. d = [c EXCEPT !.outdated = @ \cup W]
    BY <1>2
  <2>3. /\ d.kind = c.kind /\ d.phase = c.phase /\ d.view = c.view /\ d.todo = c.todo
        /\ d.at = c.at /\ d.file = c.file /\ d.out = c.out /\ d.found = c.found
        /\ d.outdated = c.outdated \cup W /\ d.left = c.left
    BY <2>1, <2>2 DEF IsTask
  <2>4. d # Idle
    BY <2>1, <2>3 DEF Idle, Kind
  <2> QED  BY <1>2, <2>3, <2>4 DEF AsBefore
<1> QED  BY <1>1, <1>2

LEMMA PutWorks ==
  ASSUME IInv, NEW t \in Slot, NEW m \in Id, NEW e, NEW d, Put(t, m, e, d),
         misled \cup Stale(t, m) \subseteq misled', deleted \subseteq deleted',
         Holds(t) => task[t].at = m, ~ IsMoving(d)
  PROVE  /\ Works({t}, {m}) /\ PutDone(t, m, e, d)
         /\ \A k \in Id \ {m} : \A p : (Owns(k, p))' => Owns(k, p)
<1>1. PutDone(t, m, e, d)
  BY PutIs
<1>2. Others({t}, {m})
  BY <1>1, ToldAsBefore DEF PutDone
<1>3. \A f : (Fair(f))' => Fair(f)
  <2>1. \A u \in {t} : Holds(u) /\ task[u].at \in task[u].outdated => View(u).film \in misled'
    BY DEF Stale, View
  <2> QED  BY <1>2, <2>1, FairBefore
<1>4. ASSUME NEW k \in Id \ {m}
      PROVE  \A p : (Owns(k, p))' => Owns(k, p)
  <2>1. \A u \in {t} : Holds(u) => task[u].at # k
    OBVIOUS
  <2>2. \A u \in {t} : ~ (IsMoving(task[u]))'
    BY <1>1 DEF PutDone, IsMoving
  <2>3. entry'[k] = entry[k]
    BY <1>1 DEF PutDone
  <2> QED  BY <1>2, <1>3, <2>1, <2>2, <2>3, OwnsBefore
<1>5. \A k \in Id \ {m} : entry'[k] = entry[k]
  BY <1>1 DEF PutDone
<1> QED  BY <1>1, <1>2, <1>3, <1>4, <1>5 DEF Works

(* The lookups are told.                                                     *)
LEMMA PutLookups ==
  ASSUME IInv, Safe, NEW t, NEW m \in Id, NEW e, NEW d, PutDone(t, m, e, d)
  PROVE  LookupsSafe'
<1> SUFFICES ASSUME NEW k \in Id, fetch'[k] # NoFetch
             PROVE  /\ HasVideos(fetch'[k].copy)
                    /\ fetch'[k].phase = "holding" /\ ~ fetch'[k].outdated =>
                         fetch'[k].copy = entry'[k]
  BY DEF LookupsSafe, HasVideos, Plays
<1>1. CASE k # m \/ fetch[k].phase # "holding"
  <2>1. fetch'[k] = fetch[k] /\ (k # m => entry'[k] = entry[k])
    BY <1>1 DEF PutDone
  <2> QED  BY <1>1, <2>1 DEF Safe, LookupsSafe
<1>2. CASE k = m /\ fetch[k].phase = "holding"
  <2>1. fetch[m] # NoFetch
    BY <1>2 DEF NoFetch
  <2>2. FetchFits(fetch[m]) /\ HasVideos(fetch[m].copy)
    BY <2>1 DEF IInv, FetchesFit, Safe, LookupsSafe
  <2>3. fetch'[m] = [fetch[m] EXCEPT !.outdated = TRUE]
    BY <1>2 DEF PutDone
  <2>4. fetch'[m].outdated = TRUE /\ fetch'[m].copy = fetch[m].copy
    BY <2>2, <2>3 DEF FetchFits
  <2> QED  BY <1>2, <2>2, <2>4
<1> QED  BY <1>1, <1>2

(* A task writes an entry, and holds nothing afterwards.                     *)
LEMMA PutAssembled ==
  ASSUME IInv, Safe, NEW t \in Slot, NEW m \in Id, NEW e, NEW d, Put(t, m, e, d),
         misled \cup Stale(t, m) \subseteq misled', deleted \subseteq deleted',
         disk' = disk, layout' = layout,
         Holds(t) => task[t].at = m, ~ IsMoving(d), ~ IsRemoving(d),
         e = NoEntry \/ (EntrySafe(e))', d = Idle \/ (TaskSafe(d))',
         \A p : (Owns(m, p))' => Keeps(m, p) \/ Gains({t}, {m}, m, p),
         \A u \in Slot \ {t} : WritesAlone(t, u) /\ WritesAlone(u, t)
  PROVE  Safe'
<1>1. /\ Works({t}, {m}) /\ PutDone(t, m, e, d)
      /\ \A k \in Id \ {m} : \A p : (Owns(k, p))' => Owns(k, p)
  BY PutWorks
<1>2. entry'[m] = e /\ task'[t] = d /\ \A k \in Id \ {m} : entry'[k] = entry[k]
  BY <1>1 DEF PutDone
<1>3. LookupsSafe'
  BY <1>1, PutLookups
<1>4. OwnedStays /\ AllKept({t}) /\ FilmsSurvive'
  BY SameDisk
<1>5. \A k \in Id : \A p : (Owns(k, p))' => Keeps(k, p) \/ Gains({t}, {m}, k, p)
  <2> SUFFICES ASSUME NEW k \in Id, k # m, NEW p, (Owns(k, p))'
               PROVE  Keeps(k, p)
    OBVIOUS
  <2>1. Owns(k, p)
    BY <1>1
  <2> QED  BY <1>2, <1>4, <2>1 DEF Keeps, OwnedStays
<1>6. HoldsAlone(t)
  <2>1. ~ (Holds(t))'
    BY <1>2 DEF Holds, Is, Active, IsMoving, IsRemoving
  <2> QED  BY <2>1 DEF HoldsAlone
<1>7. task'[t] # Idle => (TaskSafe(task[t]))'
  BY <1>2
<1>8. \A k \in {m} : entry'[k] # NoEntry => (EntrySafe(entry[k]))'
  BY <1>2
<1> HIDE DEF Works
<1> QED  BY <1>1, <1>3, <1>4, <1>5, <1>6, <1>7, <1>8, SafeAgain

(* What a task writes back that does not hold m is fair only if it knew m.   *)
LEMMA PutFair ==
  ASSUME IInv, Safe, NEW t \in Slot, Active(t), NEW m \in DOMAIN task[t].view,
         NEW e, NEW d, Put(t, m, e, d),
         misled \cup Stale(t, m) \subseteq misled', deleted \subseteq deleted',
         ~ Holds(t), ~ IsUnlinking(task[t]), ~ IsMoving(d),
         e.film = task[t].view[m].film, (Fair(e.film))'
  PROVE  /\ m \in Entries /\ task[t].view[m] = entry[m] /\ Fair(e.film)
         /\ e.film \notin misled'
         /\ \A p \in Plays(entry[m]) : Owns(m, p)
         /\ \A p : (Owns(m, p))' => p \in Plays(e)
<1>0. m \in Id
  BY ViewHere
<1>1. Works({t}, {m}) /\ PutDone(t, m, e, d)
  BY <1>0, PutWorks
<1>2. e.film \notin misled'
  BY DEF Fair
<1>3. m \notin task[t].outdated
  BY <1>2 DEF Stale
<1>4. Same(task[t].view[m], m)
  BY <1>3, ViewHere
<1>5. m \in Entries /\ entry[m].film = e.film
  BY <1>0, <1>4 DEF Same, Entries
<1>6. task[t].view[m] = entry[m]
  <2>1. ~ IsMoving(task[t])
    BY MovingHolds
  <2> QED  BY <1>3, <2>1 DEF Safe, TasksSafe, TaskSafe, Remembers, Active
<1>7. Fair(e.film)
  BY <1>1 DEF Works
<1>8. \A u \in Slot \ {t} : AsBefore(task[u], task'[u], {m})
  BY <1>1 DEF Works, Others
<1>9. ASSUME NEW u \in Slot, Holds(u), task[u].at = m, View(u).film = e.film
      PROVE  FALSE
  <2>1. AsBefore(task[u], task'[u], {m}) /\ task[u] # Idle
    BY <1>8, <1>9 DEF Holds, Is, Active
  <2>2. (Holds(u))' /\ (View(u))' = View(u) /\ task'[u].at = m /\ m \in task'[u].outdated
    BY <1>9, <2>1, AsBeforeHolds
  <2> QED  BY <1>9, <2>2 DEF Fair
<1>10. \A p \in Plays(entry[m]) : Owns(m, p)
  BY <1>5, <1>7, <1>9 DEF Owns, Held
<1>11. ASSUME NEW p, (Owns(m, p))'  PROVE p \in Plays(e)
  <2>1. entry'[m] = e /\ task'[t] = d
    BY <1>1 DEF PutDone
  <2>2. ~ (MovedTo(m, p))'
    <3> SUFFICES ASSUME NEW u \in Slot, (IsMoving(task[u]))', task'[u].at = m,
                        (View(u))'.film = e.film
                 PROVE  FALSE
      BY <2>1 DEF MovedTo
    <3>1. u # t
      BY <2>1
    <3>2. AsBefore(task[u], task'[u], {m})
      BY <1>8, <3>1
    <3>3. IsMoving(task[u])
      BY <3>2, AsBeforeHolds
    <3>4. Holds(u) /\ task[u] # Idle
      BY <3>3, MovingHolds DEF IsMoving, Idle
    <3>5. task[u].at = m /\ View(u).film = e.film
      BY <3>2, <3>4, AsBeforeHolds
    <3> QED  BY <1>9, <3>4, <3>5
  <2> QED  BY <1>11, <2>1, <2>2 DEF Owns, Plays
<1> QED  BY <1>2, <1>5, <1>6, <1>7, <1>10, <1>11

LEMMA PutSafe ==
  ASSUME IInv, Safe, NEW t \in Slot, Active(t), NEW m \in DOMAIN task[t].view,
         NEW e, NEW d, Put(t, m, e, d),
         misled \cup Stale(t, m) \subseteq misled', deleted \subseteq deleted',
         disk' = disk, layout' = layout,
         ~ Holds(t), ~ IsUnlinking(task[t]), ~ IsMoving(d), ~ IsRemoving(d),
         e.film = task[t].view[m].film, HasVideos(e),
         HasVersions(task[t].view[m]) => HasVersions(e),
         d = Idle \/ (TaskSafe(d))',
         e.film \notin misled' =>
           \A p \in Plays(e) : p \in Plays(task[t].view[m]) \/ Gains({t}, {m}, m, p),
         \A u \in Slot \ {t} : WritesAlone(t, u) /\ WritesAlone(u, t)
  PROVE  Safe'
<1>1. m \in Id
  BY ViewHere
<1>2. (EntrySafe(e))'
  <2> SUFFICES ASSUME (Fair(e.film))'  PROVE HasVersions(e)
    BY DEF EntrySafe, HasVideos, HasVersions, Plays
  <2>1. m \in Entries /\ task[t].view[m] = entry[m] /\ Fair(e.film)
    BY PutFair
  <2> QED  BY <2>1 DEF Safe, EntriesSafe, EntrySafe
<1>3. ASSUME NEW p, (Owns(m, p))'  PROVE Keeps(m, p) \/ Gains({t}, {m}, m, p)
  <2>0. PutDone(t, m, e, d)
    BY <1>1, PutIs
  <2>1. entry'[m] = e
    BY <2>0 DEF PutDone
  <2>2. (Fair(e.film))'
    BY <1>3, <2>1 DEF Owns
  <2>3. /\ m \in Entries /\ task[t].view[m] = entry[m] /\ e.film \notin misled'
        /\ \A q \in Plays(entry[m]) : Owns(m, q)
        /\ p \in Plays(e)
    BY <1>3, <2>2, PutFair
  <2>4. CASE p \in Plays(task[t].view[m])
    BY <2>1, <2>3, <2>4, OwnedIsVideo DEF Keeps
  <2> QED  BY <2>3, <2>4
<1> QED  BY <1>1, <1>2, <1>3, PutAssembled

LEMMA PutProgressSafe ==
  ASSUME IInv, Safe, NEW t \in Slot, PutProgress(t)
  PROVE  Safe'
<1> PICK m : m = task[t].at
  OBVIOUS
<1> PICK e : e = [View(t) EXCEPT !.played = TRUE]
  OBVIOUS
<1>1. /\ Active(t) /\ m \in DOMAIN task[t].view
      /\ task[t].kind = "progress" /\ task[t].phase = "put"
  BY AtHere DEF PutProgress
<1>2. /\ Put(t, m, e, Idle) /\ misled' = misled \cup Stale(t, m)
      /\ UNCHANGED <<layout, disk, deleted>>
  BY DEF PutProgress, settings
<1>3. ~ Holds(t) /\ ~ IsUnlinking(task[t])
  BY <1>1 DEF Holds, Is, IsUnlinking
<1>4. Fits(View(t)) /\ HasVideos(View(t))
  BY <1>1, ViewHere DEF View, Safe, TasksSafe, TaskSafe, Sees, Active
<1>5. /\ e.film = View(t).film /\ Plays(e) = Plays(View(t))
      /\ HasVersions(View(t)) => HasVersions(e)
  BY <1>4 DEF Fits, Sound, Entry, Plays, HasVersions
<1>6. PutDone(t, m, e, Idle)
  BY <1>1, <1>2, PutIs, ViewHere
<1>7. \A u \in Slot \ {t} : WritesAlone(t, u) /\ WritesAlone(u, t)
  BY <1>6, WritesNothing, IdleHasNothing DEF PutDone
<1>8. HasVideos(e)
  BY <1>4, <1>5 DEF HasVideos
<1>9. View(t) = task[t].view[m]
  BY DEF View
<1> QED  BY <1>1, <1>2, <1>3, <1>5, <1>7, <1>8, <1>9, IdleHasNothing, PutSafe

LEMMA PutSubtitleSafe ==
  ASSUME IInv, Safe, NEW t \in Slot, PutSubtitle(t)
  PROVE  Safe'
<1> PICK m : m = task[t].at
  OBVIOUS
<1> PICK e : e = [View(t) EXCEPT !.subtitles = @ \cup {task[t].file}]
  OBVIOUS
<1>1. /\ Active(t) /\ m \in DOMAIN task[t].view
      /\ task[t].kind = "upload" /\ task[t].phase = "put"
  BY AtHere DEF PutSubtitle
<1>2. /\ Put(t, m, e, Idle) /\ misled' = misled \cup Stale(t, m)
      /\ UNCHANGED <<layout, disk, deleted>>
  BY DEF PutSubtitle, settings
<1>3. ~ Holds(t) /\ ~ IsUnlinking(task[t])
  BY <1>1 DEF Holds, Is, IsUnlinking
<1>4. Fits(View(t)) /\ HasVideos(View(t))
  BY <1>1, ViewHere DEF View, Safe, TasksSafe, TaskSafe, Sees, Active
<1>5. /\ e.film = View(t).film /\ Plays(e) = Plays(View(t))
      /\ HasVersions(View(t)) => HasVersions(e)
  BY <1>4 DEF Fits, Sound, Entry, Plays, HasVersions
<1>6. PutDone(t, m, e, Idle)
  BY <1>1, <1>2, PutIs, ViewHere
<1>7. \A u \in Slot \ {t} : WritesAlone(t, u) /\ WritesAlone(u, t)
  BY <1>6, WritesNothing, IdleHasNothing DEF PutDone
<1>8. HasVideos(e)
  BY <1>4, <1>5 DEF HasVideos
<1>9. View(t) = task[t].view[m]
  BY DEF View
<1> QED  BY <1>1, <1>2, <1>3, <1>5, <1>7, <1>8, <1>9, IdleHasNothing, PutSafe

(* The job's output is a version now, and it is the film of the entry.       *)
LEMMA PutJobSafe ==
  ASSUME IInv, Safe, NEW t \in Slot, PutJob(t)
  PROVE  Safe'
<1> PICK m : m = task[t].at
  OBVIOUS
<1> PICK out : out = task[t].out
  OBVIOUS
<1> PICK e : e = [View(t) EXCEPT !.transcoded = out, !.ready = out, !.versions = @ \cup {out}]
  OBVIOUS
<1>1. /\ Active(t) /\ m \in DOMAIN task[t].view
      /\ task[t].kind = "job" /\ task[t].phase = "put" /\ HasWritten(task[t])
  BY AtHere DEF PutJob, HasWritten
<1>2. /\ Put(t, m, e, Idle)
      /\ misled' = misled \cup Stale(t, m)
                     \cup (IF Exists(out) /\ disk[out] = View(t).film THEN {}
                           ELSE {View(t).film})
      /\ UNCHANGED <<layout, disk, deleted>>
  BY DEF PutJob, settings
<1>3. ~ Holds(t) /\ ~ IsUnlinking(task[t])
  BY <1>1 DEF Holds, Is, IsUnlinking
<1>4. /\ Fits(View(t)) /\ HasVideos(View(t)) /\ WroteItsOwn(task[t])
      /\ out[3] = 0 /\ out \in Path /\ m \in Id
  BY <1>1, ViewHere, TaskHere
     DEF View, Safe, TasksSafe, TaskSafe, Sees, Active, TaskFits, HasItsPaths
<1>5. /\ e.film = View(t).film /\ Plays(e) \subseteq Plays(View(t)) \cup {out}
      /\ HasVersions(e)
  <2>1. /\ e.film = View(t).film /\ e.media_file = View(t).media_file /\ e.transcoded = out
        /\ e.versions = View(t).versions \cup {out}
    BY <1>4 DEF Fits, Sound, Entry
  <2> QED  BY <2>1 DEF Plays, HasVersions
<1>6. Works({t}, {m}) /\ PutDone(t, m, e, Idle)
      /\ \A k \in Id \ {m} : \A p : (Owns(k, p))' => Owns(k, p)
  <2>1. misled \cup Stale(t, m) \subseteq misled' /\ deleted \subseteq deleted'
    BY <1>2
  <2> QED  BY <1>2, <1>3, <1>4, <2>1, IdleHasNothing, PutWorks
<1>7. \A u \in Slot \ {t} : WritesAlone(t, u) /\ WritesAlone(u, t)
  BY <1>6, WritesNothing, IdleHasNothing DEF PutDone
<1>8. HasVideos(e)
  BY <1>4, <1>5 DEF HasVideos
<1>9. View(t) = task[t].view[m]
  BY DEF View
<1>10. ASSUME e.film \notin misled'  PROVE Gains({t}, {m}, m, out)
  <2>1. Exists(out) /\ disk[out] = e.film
    BY <1>2, <1>5, <1>10
  <2>2. entry'[m] = e
    BY <1>6 DEF PutDone
  <2>3. \A j \in Id : (Owns(j, out))' => j = m
    BY <1>1, <1>4, <1>6 DEF WroteItsOwn
  <2>4. ASSUME NEW u \in Slot \ {t}, (InWork(task[u], out))'  PROVE task'[u].at = m
    <3>1. InWork(task[u], out) /\ task'[u].at = task[u].at
      BY <1>6, <2>4, OthersInWork
    <3>2. misled \subseteq misled'
      BY <1>2
    <3> QED  BY <1>1, <1>10, <2>1, <3>1, <3>2 DEF Safe, OutputsApart
  <2> QED  BY <1>2, <2>1, <2>2, <2>3, <2>4 DEF Gains, Exists
<1>11. e.film \notin misled' =>
         \A p \in Plays(e) : p \in Plays(task[t].view[m]) \/ Gains({t}, {m}, m, p)
  BY <1>5, <1>9, <1>10
<1>12. misled \cup Stale(t, m) \subseteq misled'
  BY <1>2
<1> QED  BY <1>1, <1>2, <1>3, <1>5, <1>7, <1>8, <1>9, <1>11, <1>12, IdleHasNothing, PutSafe

LEMMA FixSafe ==
  ASSUME IInv, Safe, NEW t \in Slot, NEW m, FixOne(t, m)
  PROVE  Safe'
<1> PICK v : v = task[t].view[m]
  OBVIOUS
<1>0. v = task[t].view[m]
  OBVIOUS
<1>1. /\ Turn(t, "fix", m) /\ Active(t) /\ task[t].kind = "fix" /\ task[t].phase = "turn"
      /\ m \in task[t].todo
  BY DEF FixOne, Turn, Is
<1>2. task[t].todo \subseteq DOMAIN task[t].view /\ m \in DOMAIN task[t].view
  BY <1>1, TodoHere
<1>3. CASE Skip(t, m)
  BY <1>1, <1>3, SkipSafe
<1>4. CASE ~ Skip(t, m)
  <2>1. PICK w \in v.versions :
          Put(t, m, [v EXCEPT !.media_file = w,
                              !.transcoded = IF @ = NoPath \/ Exists(@) THEN @ ELSE w],
              DoneWith(t, m))
    BY <1>4 DEF FixOne
  <2>2. misled' = misled \cup Stale(t, m) /\ UNCHANGED <<layout, disk, deleted>>
    BY <1>4 DEF FixOne, settings
  <2>3. PICK d : d = DoneWith(t, m)
    OBVIOUS
  <2>4. PICK tp : tp = IF v.transcoded = NoPath \/ Exists(v.transcoded)
                       THEN v.transcoded ELSE w
    OBVIOUS
  <2>5. PICK e : e = [v EXCEPT !.media_file = w, !.transcoded = tp]
    OBVIOUS
  <2>6. Put(t, m, e, d)
    BY <2>1, <2>3, <2>4, <2>5
  <2>7. Fits(v) /\ HasVideos(v) /\ m \in Id
    BY <1>1, <1>2, ViewHere DEF Safe, TasksSafe, TaskSafe, Sees, Active
  <2>8. /\ e.film = v.film /\ e.media_file = w /\ e.transcoded = tp /\ e.ready = v.ready
        /\ e.versions = v.versions
    BY <2>5, <2>7 DEF Fits, Sound, Entry
  <2>9. Plays(e) \subseteq Plays(v) /\ (HasVersions(v) => HasVersions(e))
    BY <2>4, <2>8 DEF Plays, HasVersions
  <2>10. ~ Holds(t) /\ ~ IsUnlinking(task[t]) /\ ~ IsMoving(task[t])
    BY <1>1 DEF Holds, Is, IsUnlinking, IsMoving
  <2>11. ~ HasWritten(d) /\ ~ IsUnlinking(d) /\ ~ IsMoving(d) /\ ~ IsRemoving(d)
    <3>1. d = Idle \/ (d.kind = task[t].kind /\ d.phase = "turn")
      BY <1>1, <2>3, DoneWithIs
    <3> QED  BY <3>1, <1>1, IdleHasNothing DEF HasWritten, IsUnlinking, IsMoving, IsRemoving
  <2>12. misled \cup Stale(t, m) \subseteq misled' /\ deleted \subseteq deleted'
    BY <2>2
  <2>13. Works({t}, {m}) /\ PutDone(t, m, e, d)
    BY <2>6, <2>7, <2>10, <2>11, <2>12, PutWorks
  <2>14. d = Idle \/ (TaskSafe(d))'
    <3>1. \A f : (Fair(f))' => Fair(f)
      BY <2>13 DEF Works
    <3>2. \A k \in Id \ {m} : entry'[k] = entry[k]
      BY <2>13 DEF PutDone
    <3> QED  BY <1>1, <1>2, <2>3, <2>10, <2>12, <3>1, <3>2, DoneWithSafe
  <2>15. \A u \in Slot \ {t} : WritesAlone(t, u) /\ WritesAlone(u, t)
    BY <2>11, <2>13, WritesNothing DEF PutDone
  <2>16. HasVideos(e)
    BY <2>7, <2>9 DEF HasVideos
  <2>17. /\ e.film = task[t].view[m].film
         /\ HasVersions(task[t].view[m]) => HasVersions(e)
         /\ \A p \in Plays(e) : p \in Plays(task[t].view[m])
    BY <1>0, <2>8, <2>9
  <2> QED  BY <1>1, <1>2, <2>2, <2>6, <2>10, <2>11, <2>12, <2>14, <2>15, <2>16, <2>17, PutSafe
<1> QED  BY <1>3, <1>4

(* The source that the entry gives up is nobody's after that.                *)
LEMMA CleanupSafe ==
  ASSUME IInv, Safe, NEW t \in Slot, NEW m, CleanupOne(t, m)
  PROVE  Safe'
<1> PICK v : v = task[t].view[m]
  OBVIOUS
<1>0. v = task[t].view[m]
  OBVIOUS
<1>1. /\ Turn(t, "cleanup", m) /\ Active(t) /\ task[t].kind = "cleanup"
      /\ task[t].phase = "turn" /\ m \in task[t].todo
  BY DEF CleanupOne, Turn, Is
<1>2. task[t].todo \subseteq DOMAIN task[t].view /\ m \in DOMAIN task[t].view
  BY <1>1, TodoHere
<1>3. CASE Skip(t, m)
  BY <1>1, <1>3, SkipSafe
<1>4. CASE ~ Skip(t, m)
  <2>1. PICK o \in Outputs(v) :
          Put(t, m, [v EXCEPT !.media_file = o],
              [task[t] EXCEPT !.phase = "unlink", !.at = m, !.file = v.media_file])
    BY <1>4 DEF CleanupOne
  <2>2. misled' = misled \cup Stale(t, m) /\ UNCHANGED <<layout, disk, deleted>>
    BY <1>4 DEF CleanupOne, settings
  <2>3. PICK file : file = v.media_file
    OBVIOUS
  <2>4. PICK d : d = [task[t] EXCEPT !.phase = "unlink", !.at = m, !.file = file]
    OBVIOUS
  <2>5. PICK e : e = [v EXCEPT !.media_file = o]
    OBVIOUS
  <2>6. Put(t, m, e, d)
    BY <2>1, <2>3, <2>4, <2>5
  <2>7. Fits(v) /\ HasVideos(v) /\ m \in Id /\ TaskSafe(task[t]) /\ IsTask(task[t])
    BY <1>1, <1>2, ViewHere, TaskHere DEF Safe, TasksSafe, TaskSafe, Sees, Active, TaskFits
  <2>8. /\ e.film = v.film /\ e.media_file = o /\ e.transcoded = v.transcoded
        /\ e.ready = v.ready /\ e.versions = v.versions /\ v.media_file \in Path
        /\ v.versions \subseteq Path
    BY <2>5, <2>7 DEF Fits, Sound, Entry
  <2>9. /\ o # file /\ file \notin v.versions
        /\ IF v.transcoded # NoPath THEN o = v.transcoded ELSE o \in v.versions
    BY <2>1, <2>3 DEF Outputs, Redundant
  <2>10. /\ Plays(e) \subseteq Plays(v) /\ (HasVersions(v) => HasVersions(e))
         /\ file \in Plays(v) /\ file \notin Plays(e)
    <3>1. file # NoPath
      BY <2>3, <2>8, NoPathIsNone
    <3>2. o # NoPath
      BY <2>8, <2>9, NoPathIsNone
    <3> QED  BY <2>3, <2>8, <2>9, <3>1, <3>2 DEF Plays, HasVersions
  <2>11. /\ d.kind = "cleanup" /\ d.phase = "unlink" /\ d.at = m /\ d.view = task[t].view
         /\ d.file = file /\ d.found = task[t].found /\ d.outdated = task[t].outdated
    BY <1>1, <2>4, <2>7 DEF IsTask
  <2>12. /\ ~ Holds(t) /\ ~ IsUnlinking(task[t]) /\ ~ IsMoving(task[t])
         /\ ~ HasWritten(d) /\ IsUnlinking(d) /\ ~ IsMoving(d) /\ ~ IsRemoving(d)
    BY <1>1, <2>11 DEF Holds, Is, IsUnlinking, IsMoving, HasWritten, IsRemoving
  <2>13. misled \cup Stale(t, m) \subseteq misled' /\ deleted \subseteq deleted'
    BY <2>2
  <2>14. /\ Works({t}, {m}) /\ PutDone(t, m, e, d)
         /\ \A k \in Id \ {m} : \A p : (Owns(k, p))' => Owns(k, p)
    BY <2>6, <2>7, <2>12, <2>13, PutWorks
  <2>15. entry'[m] = e /\ task'[t] = d /\ \A k \in Id \ {m} : entry'[k] = entry[k]
    BY <2>14 DEF PutDone
  <2>16. At(d) = v
    BY <1>0, <2>11 DEF At
  (* If the clean-up goes by what the store says, m owned the source.        *)
  <2>17. ASSUME (Unlinks(d))'
         PROVE  /\ Owns(m, file) /\ Exists(file) /\ disk[file] = v.film
                /\ \A k \in Id : ~ (Owns(k, file))'
    <3>1. (Fair(e.film))'
      <4>1. (Fair(At(d).film))'
        BY <2>17 DEF Unlinks
      <4>2. e.film = At(d).film
        BY <2>8, <2>16
      <4>3. \A f : f = At(d).film => ((Fair(f))' <=> (Fair(At(d).film))')
        OBVIOUS
      <4> QED  BY <4>1, <4>2, <4>3
    <3>2. /\ m \in Entries /\ v = entry[m]
          /\ \A p \in Plays(entry[m]) : Owns(m, p)
          /\ \A p : (Owns(m, p))' => p \in Plays(e)
      BY <1>0, <1>1, <1>2, <2>6, <2>8, <2>12, <2>13, <3>1, PutFair
    <3>3. Owns(m, file) /\ Exists(file) /\ disk[file] = v.film
      BY <2>10, <3>2, OwnedIsVideo DEF Exists
    <3>4. \A k \in Id : ~ (Owns(k, file))'
      BY <2>10, <2>14, <3>2, <3>3 DEF Safe, OwnersDiffer
    <3> QED  BY <3>3, <3>4
  <2>18. (TaskSafe(d))'
    <3>1. (Sees(d))'
      BY <2>7, <2>10, <2>11 DEF TaskSafe, Sees, HasVideos, Plays
    <3>2. (Remembers(d))'
      <4> SUFFICES ASSUME NEW k \in DOMAIN d.view \ d.outdated, k # m
                   PROVE  d.view[k] = entry'[k]
        BY <2>11, <2>12 DEF Remembers, IsUnlinking
      <4>1. k \in Id
        BY <1>1, <2>11, ViewHere
      <4>2. d.view[k] = entry[k]
        BY <2>7, <2>11, <2>12 DEF TaskSafe, Remembers
      <4> QED  BY <2>15, <4>1, <4>2
    <3>3. (UnlinksItsOwn(d))'
      <4> SUFFICES ASSUME (Unlinks(d))'
                   PROVE  /\ \A k \in Id : ~ (Owns(k, d.file))'
                          /\ d.file \in DOMAIN disk' => disk'[d.file] \in {At(d).film} \cup misled'
        BY DEF UnlinksItsOwn, Exists, At
      <4> QED  BY <2>2, <2>11, <2>16, <2>17
    <3>4. (WroteItsOwn(d))' /\ (Migrates(d))' /\ (ScansNew(d))' /\ (Deletes(d))'
      BY <2>11, <2>12 DEF WroteItsOwn, HasWritten, Migrates, ScansNew, Deletes
    <3> QED  BY <3>1, <3>2, <3>3, <3>4 DEF TaskSafe
  <2>19. ASSUME NEW u \in Slot \ {t}
         PROVE  WritesAlone(t, u) /\ WritesAlone(u, t)
    <3>1. WritesAlone(t, u)
      BY <2>12, <2>15 DEF WritesAlone, HasWritten
    <3>2. WritesAlone(u, t)
      <4> SUFFICES ASSUME (HasWritten(task[u]))', (InWork(task[t], task[u].out))',
                          task'[t].at # task'[u].at
                   PROVE  FALSE
        BY DEF WritesAlone
      <4>1. (Unlinks(d))' /\ file = task'[u].out
        <5>1. (InWork(d, task[u].out))'
          BY <2>15
        <5> QED  BY <5>1, <2>11, <2>12 DEF InWork, HasWritten
      <4>2. HasWritten(task[u]) /\ task'[u].at = task[u].at /\ task'[u].out = task[u].out
        BY <2>14, <2>19, OthersInWork
      <4>3. TaskSafe(task[u])
        BY <2>19, <4>2 DEF Safe, TasksSafe, HasWritten, Idle
      <4>4. ~ Owns(m, file)
        BY <2>7, <2>11, <2>15, <4>1, <4>2, <4>3 DEF TaskSafe, WroteItsOwn
      <4> QED  BY <2>17, <4>1, <4>4
    <3> QED  BY <3>1, <3>2
  <2>20. HasVideos(e)
    BY <2>7, <2>10 DEF HasVideos
  <2>21. /\ e.film = task[t].view[m].film
         /\ HasVersions(task[t].view[m]) => HasVersions(e)
         /\ \A p \in Plays(e) : p \in Plays(task[t].view[m])
    BY <1>0, <2>8, <2>10
  <2> QED  BY <1>1, <1>2, <2>2, <2>6, <2>12, <2>13, <2>18, <2>19, <2>20, <2>21, PutSafe
<1> QED  BY <1>3, <1>4

(* What a migration has moved is written down.                               *)
LEMMA PutMigratedSafe ==
  ASSUME IInv, Safe, NEW t \in Slot, PutMigrated(t)
  PROVE  Safe'
<1> PICK m : m = task[t].at
  OBVIOUS
<1> PICK c : c = task[t]
  OBVIOUS
<1> PICK n : n = View(t)
  OBVIOUS
<1>0. m = task[t].at /\ c = task[t] /\ n = View(t) /\ n = c.view[m] /\ n = At(c)
  BY DEF View, At
<1>1. /\ Active(t) /\ c.kind = "migrate" /\ c.phase = "put" /\ m \in DOMAIN c.view
      /\ c.todo \subseteq DOMAIN c.view
  BY AtHere DEF PutMigrated
<1>2. PICK none : none = <<>>
  OBVIOUS
<1>3. PICK d : d = IF c.todo = {m} THEN [c EXCEPT !.phase = "rest", !.view = none]
                   ELSE DoneWith(t, m)
  OBVIOUS
<1>4. /\ Put(t, m, n, d) /\ misled' = misled \cup Stale(t, m)
      /\ UNCHANGED <<layout, disk, deleted>>
  BY <1>2, <1>3 DEF PutMigrated, settings
<1>5. /\ Fits(n) /\ HasVideos(n) /\ m \in Id /\ TaskSafe(c) /\ IsTask(c)
      /\ DOMAIN c.view \subseteq Id
  BY <1>0, <1>1, ViewHere, TaskHere
     DEF Safe, TasksSafe, TaskSafe, Sees, Active, TaskFits, Knows, Given
<1>6. Holds(t) /\ IsMoving(c) /\ ~ IsUnlinking(c)
  BY <1>1, MovingHolds DEF IsMoving, IsUnlinking
<1>7. d = Idle \/
        /\ d.kind = "migrate" /\ d.phase \in {"turn", "rest"}
        /\ DOMAIN d.view \subseteq DOMAIN c.view \ {m}
        /\ \A k \in DOMAIN d.view : d.view[k] = c.view[k]
        /\ d.outdated = c.outdated /\ d.left = c.left /\ d.found = c.found
        /\ (d.phase = "turn" /\ d.todo = c.todo \ {m}) \/ c.todo = {m}
  <2>1. CASE c.todo = {m}
    <3>1. d = [c EXCEPT !.phase = "rest", !.view = none]
      BY <1>3, <2>1
    <3>2. /\ d.kind = c.kind /\ d.phase = "rest" /\ d.view = none
          /\ d.outdated = c.outdated /\ d.left = c.left /\ d.found = c.found
      BY <1>5, <3>1 DEF IsTask
    <3>3. DOMAIN none = {}
      BY <1>2
    <3> QED  BY <1>1, <2>1, <3>2, <3>3
  <2>2. CASE c.todo # {m}
    <3> SUFFICES ASSUME d # Idle
                 PROVE  /\ d.kind = "migrate" /\ d.phase \in {"turn", "rest"}
                        /\ DOMAIN d.view \subseteq DOMAIN c.view \ {m}
                        /\ \A k \in DOMAIN d.view : d.view[k] = c.view[k]
                        /\ d.outdated = c.outdated /\ d.left = c.left /\ d.found = c.found
                        /\ d.phase = "turn" /\ d.todo = c.todo \ {m}
      OBVIOUS
    <3>1. d = DoneWith(t, m)
      BY <1>3, <2>2
    <3>2. /\ d.kind = c.kind /\ d.phase = "turn" /\ d.todo = c.todo \ {m}
          /\ d.view = [k \in c.todo \ {m} |-> c.view[k]]
          /\ d.outdated = c.outdated /\ d.left = c.left /\ d.found = c.found
      BY <1>0, <1>1, <3>1, DoneWithIs
    <3> QED  BY <1>1, <3>2
  <2> QED  BY <2>1, <2>2
<1>8. ~ HasWritten(d) /\ ~ IsUnlinking(d) /\ ~ IsMoving(d) /\ ~ IsRemoving(d)
  BY <1>7, IdleHasNothing DEF HasWritten, IsUnlinking, IsMoving, IsRemoving
<1>9. misled \cup Stale(t, m) \subseteq misled' /\ deleted \subseteq deleted'
  BY <1>4
<1>10. Works({t}, {m}) /\ PutDone(t, m, n, d)
  BY <1>0, <1>4, <1>5, <1>8, <1>9, PutWorks
<1>11. /\ entry'[m] = n /\ task'[t] = d /\ (\A k \in Id \ {m} : entry'[k] = entry[k])
       /\ \A f : (Fair(f))' => Fair(f)
  BY <1>10 DEF PutDone, Works
(* Fair afterwards, the film was nobody else's to hold.                      *)
<1>12. ASSUME (Fair(n.film))'
       PROVE  /\ m \notin c.outdated /\ m \in Entries /\ entry[m].film = n.film /\ Fair(n.film)
              /\ \A u \in Slot : u # t => ~ (Holds(u) /\ View(u).film = n.film)
  <2>1. n.film \notin misled' /\ Fair(n.film)
    BY <1>11, <1>12 DEF Fair
  <2>2. m \notin c.outdated
    BY <1>0, <1>9, <2>1 DEF Stale, View
  <2>3. m \in Entries /\ entry[m].film = n.film
    BY <1>0, <1>5, <1>6, <2>2, HolderHere DEF Entries
  <2>4. \A u \in Slot : u # t => ~ (Holds(u) /\ View(u).film = n.film)
    BY <1>0, <1>6, <2>1 DEF Safe, OneHolder
  <2> QED  BY <2>1, <2>2, <2>3, <2>4
<1>13. (EntrySafe(n))'
  <2> SUFFICES ASSUME (Fair(n.film))'  PROVE HasVersions(n)
    BY <1>5 DEF EntrySafe, HasVideos, HasVersions, Plays
  <2>1. Fair(n.film)
    BY <1>12
  <2> QED  BY <1>0, <1>1, <1>5, <1>6, <2>1 DEF TaskSafe, Migrates
<1>14. d = Idle \/ (TaskSafe(d))'
  <2> SUFFICES ASSUME d # Idle  PROVE (TaskSafe(d))'
    OBVIOUS
  <2>1. entry'[m] # NoEntry /\ (Fair(entry[m].film))' /\ m \notin c.outdated \cup d.left
          => InNewDir(entry'[m])
    <3> SUFFICES ASSUME (Fair(n.film))', m \notin d.left  PROVE InNewDir(n)
      BY <1>11
    <3>1. Fair(n.film)
      BY <1>12
    <3> QED  BY <1>0, <1>1, <1>5, <1>6, <1>7, <3>1 DEF TaskSafe, Migrates
  <2>2. c.left \subseteq d.left /\ c.kind \notin {"scan", "job"} /\ c.phase # "rest"
        /\ d.kind = c.kind /\ d.phase \in {"turn", "rest", "payload"}
    BY <1>1, <1>7
  <2>3. IsMoving(c) \/ IsUnlinking(c) => c.at = m
    BY <1>0
  <2> QED  BY <1>5, <1>7, <1>9, <1>11, <2>1, <2>2, <2>3, GoesOnSafe
<1>15. ASSUME NEW p, (Owns(m, p))'
       PROVE  Keeps(m, p)
  <2>1. (Fair(n.film))'
    BY <1>11, <1>15 DEF Owns
  <2>2. /\ m \in Entries /\ entry[m].film = n.film /\ Fair(n.film)
        /\ \A u \in Slot : u # t => ~ (Holds(u) /\ View(u).film = n.film)
    BY <1>12, <2>1
  <2>3. ~ (MovedTo(m, p))'
    <3> SUFFICES ASSUME NEW u \in Slot, (IsMoving(task[u]))', (View(u))'.film = n.film
                 PROVE  FALSE
      BY <1>11 DEF MovedTo
    <3>1. u # t
      BY <1>8, <1>11
    <3>2. (Holds(u))'
      BY DEF IsMoving, Holds, Is, Active, Idle
    <3>3. Holds(u) /\ (View(u))' = View(u)
      BY <1>10, <3>1, <3>2, OthersHeld
    <3> QED  BY <2>2, <3>1, <3>3
  <2>4. p \in Plays(n)
    BY <1>11, <1>15, <2>3 DEF Owns, Plays
  <2>5. MovedTo(m, p)
    BY <1>0, <1>6, <2>2, <2>4 DEF MovedTo
  <2>6. Owns(m, p)
    BY <2>2, <2>5 DEF Owns
  <2> QED  BY <1>4, <1>11, <2>2, <2>6, OwnedIsVideo DEF Keeps
<1>16. \A u \in Slot \ {t} : WritesAlone(t, u) /\ WritesAlone(u, t)
  BY <1>8, <1>11, WritesNothing
<1>17. Holds(t) => task[t].at = m
  BY <1>0
<1> QED  BY <1>4, <1>5, <1>8, <1>9, <1>13, <1>14, <1>15, <1>16, <1>17, PutAssembled

LEMMA RemoveSafe ==
  ASSUME IInv, Safe, NEW t \in Slot, Remove(t)
  PROVE  Safe'
<1> PICK m : m = task[t].at
  OBVIOUS
<1> PICK c : c = task[t]
  OBVIOUS
<1>0. m = task[t].at /\ c = task[t]
  OBVIOUS
<1>1. /\ Active(t) /\ c.kind \in {"forget", "delete", "torrent"} /\ c.phase = "remove"
  BY DEF Remove, Is
<1>2. PICK none : none = <<>>
  OBVIOUS
<1>3. PICK d : d = IF c.todo = {m} /\ c.kind = "torrent"
                   THEN [c EXCEPT !.phase = "payload", !.todo = {}, !.view = none]
                   ELSE DoneWith(t, m)
  OBVIOUS
<1>4. /\ Put(t, m, NoEntry, d) /\ misled' = misled \cup Stale(t, m)
      /\ UNCHANGED <<layout, disk, deleted>>
  BY <1>2, <1>3 DEF Remove, settings
<1>5. /\ TaskSafe(c) /\ TaskFits(c) /\ IsTask(c) /\ DOMAIN c.view \subseteq Id
  BY <1>1, TaskHere DEF Safe, TasksSafe, Active, TaskFits, Knows, Given
<1>6. m \in DOMAIN c.view /\ c.todo \subseteq DOMAIN c.view /\ m \in Id
  BY <1>1, <1>5 DEF TaskFits, Knows
<1>7. ~ IsMoving(c) /\ ~ IsUnlinking(c)
  BY <1>1 DEF IsMoving, IsUnlinking
<1>8. d = Idle \/
        /\ d.kind = c.kind /\ d.phase \in {"turn", "payload"}
        /\ DOMAIN d.view \subseteq DOMAIN c.view \ {m}
        /\ \A k \in DOMAIN d.view : d.view[k] = c.view[k]
        /\ d.outdated = c.outdated /\ d.left = c.left /\ d.found = c.found
  <2>1. CASE c.todo = {m} /\ c.kind = "torrent"
    <3>1. d = [c EXCEPT !.phase = "payload", !.todo = {}, !.view = none]
      BY <1>3, <2>1
    <3>2. /\ d.kind = c.kind /\ d.phase = "payload" /\ d.view = none
          /\ d.outdated = c.outdated /\ d.left = c.left /\ d.found = c.found
      BY <1>5, <3>1 DEF IsTask
    <3>3. DOMAIN none = {}
      BY <1>2
    <3> QED  BY <1>1, <2>1, <3>2, <3>3
  <2>2. CASE ~ (c.todo = {m} /\ c.kind = "torrent")
    <3> SUFFICES ASSUME d # Idle
                 PROVE  /\ d.kind = c.kind /\ d.phase \in {"turn", "payload"}
                        /\ DOMAIN d.view \subseteq DOMAIN c.view \ {m}
                        /\ \A k \in DOMAIN d.view : d.view[k] = c.view[k]
                        /\ d.outdated = c.outdated /\ d.left = c.left /\ d.found = c.found
      OBVIOUS
    <3>1. d = DoneWith(t, m)
      BY <1>3, <2>2
    <3>2. /\ d.kind = c.kind /\ d.phase = "turn" /\ d.todo = c.todo \ {m}
          /\ d.view = [k \in c.todo \ {m} |-> c.view[k]]
          /\ d.outdated = c.outdated /\ d.left = c.left /\ d.found = c.found
      BY <1>0, <1>1, <3>1, DoneWithIs
    <3> QED  BY <1>6, <3>2
  <2> QED  BY <2>1, <2>2
<1>9. ~ HasWritten(d) /\ ~ IsUnlinking(d) /\ ~ IsMoving(d) /\ ~ IsRemoving(d)
  BY <1>1, <1>8, IdleHasNothing DEF HasWritten, IsUnlinking, IsMoving, IsRemoving
<1>10. misled \cup Stale(t, m) \subseteq misled' /\ deleted \subseteq deleted'
  BY <1>4
<1>11. Works({t}, {m}) /\ PutDone(t, m, NoEntry, d)
  BY <1>0, <1>4, <1>6, <1>9, <1>10, PutWorks
<1>12. /\ entry'[m] = NoEntry /\ task'[t] = d /\ (\A k \in Id \ {m} : entry'[k] = entry[k])
       /\ \A f : (Fair(f))' => Fair(f)
  BY <1>11 DEF PutDone, Works
<1>13. d = Idle \/ (TaskSafe(d))'
  <2> SUFFICES ASSUME d # Idle  PROVE (TaskSafe(d))'
    OBVIOUS
  <2>1. /\ c.left \subseteq d.left /\ c.kind \notin {"scan", "job"} /\ c.kind # "migrate"
        /\ d.kind = c.kind /\ d.phase \in {"turn", "rest", "payload"}
    BY <1>1, <1>8
  <2> QED  BY <1>5, <1>7, <1>8, <1>10, <1>12, <2>1, GoesOnSafe
<1>14. \A p : ~ (Owns(m, p))'
  BY <1>12 DEF Owns, Entries, Present
<1>15. \A u \in Slot \ {t} : WritesAlone(t, u) /\ WritesAlone(u, t)
  BY <1>9, <1>12, WritesNothing
<1>16. Holds(t) => task[t].at = m
  BY <1>0
<1>17. disk' = disk /\ layout' = layout
  BY <1>4
<1>18. \A p : (Owns(m, p))' => Keeps(m, p) \/ Gains({t}, {m}, m, p)
  BY <1>14
<1>19. NoEntry = NoEntry \/ (EntrySafe(NoEntry))'
  OBVIOUS
<1> QED  BY <1>4, <1>6, <1>9, <1>10, <1>13, <1>15, <1>16, <1>17, <1>18, PutAssembled

(* A scan imports a file that is nobody's, unless it raced.                  *)
LEMMA PutScannedSafe ==
  ASSUME IInv, Safe, NEW t \in Slot, NEW p \in task[t].todo, PutScanned(t, p)
  PROVE  Safe'
<1> PICK m : m = next_id
  OBVIOUS
<1> PICK c : c = task[t]
  OBVIOUS
<1> PICK f : f = c.found[p]
  OBVIOUS
<1> PICK e : e = NewEntry(f, p, c.at = 1, GroupOf(c.serial, f), Sidecars(p))
  OBVIOUS
<1> PICK d : d = IF c.todo = {p} THEN Idle ELSE [c EXCEPT !.todo = @ \ {p}]
  OBVIOUS
<1> PICK T : T = [task EXCEPT ![t] = d]
  OBVIOUS
<1>0. m = next_id /\ c = task[t] /\ f = c.found[p]
  OBVIOUS
<1>1. /\ Active(t) /\ c.kind = "scan" /\ c.phase = "put" /\ m \in Id /\ p \in c.todo
      /\ entry' = [entry EXCEPT ![m] = e]
      /\ task' = Told(T, Slot \ {t}, m)
      /\ fetch' = [fetch EXCEPT ![m] = Waiting(e, 1)]
      /\ misled' = IF Raced(t, p)
                   THEN misled \cup {f} \cup (IF Exists(p) THEN {disk[p]} ELSE {})
                   ELSE misled
      /\ UNCHANGED <<layout, disk, deleted>>
  BY DEF PutScanned, Is, settings
<1>2. /\ TaskFits(c) /\ IsTask(c) /\ TaskSafe(c) /\ DOMAIN c.view = {}
      /\ p \in DOMAIN c.found /\ p[3] = 0
  BY <1>1, TaskHere
     DEF TaskFits, Knows, HasFound, Safe, TasksSafe, TaskSafe, Sees, Active
<1>3. m \notin Given /\ m \notin Entries
  <2>1. m \in Nat
    BY Constants DEF IInv, WorldFits
  <2> QED  BY <2>1 DEF Given, IInv, EntriesFit
<1>4. /\ e.film = f /\ Plays(e) \subseteq {p} /\ e.transcoded = NoPath /\ e.ready = NoPath
  BY DEF NewEntry, Plays
<1>5. HasVideos(e) /\ HasVersions(e)
  BY <1>2, <1>4 DEF HasVideos, HasVersions
<1>6. misled \subseteq misled' /\ deleted \subseteq deleted'
  BY <1>1
<1>7. ~ Raced(t, p) \/ f \in misled'
  BY <1>1
<1>8. /\ T[t] = d /\ \A u \in Slot \ {t} : T[u] = task[u]
  BY DEF IInv, Domains
<1>9. \A u \in Slot : task'[u] = IF u \in Slot \ {t} /\ T[u] # Idle
                            THEN [T[u] EXCEPT !.outdated = @ \cup {m}] ELSE T[u]
  BY <1>1 DEF Told
<1>10. task'[t] = d
  BY <1>8, <1>9
<1>11. entry'[m] = e /\ (\A k \in Id \ {m} : entry'[k] = entry[k])
       /\ fetch'[m] = Waiting(e, 1) /\ (\A k \in Id \ {m} : fetch'[k] = fetch[k])
  BY <1>1 DEF IInv, Domains
<1>12. d = Idle \/
         /\ d.kind = "scan" /\ d.phase = "put" /\ d.todo = c.todo \ {p}
         /\ d.view = c.view /\ d.found = c.found /\ d.outdated = c.outdated
  BY <1>1, <1>2 DEF IsTask
<1>13. /\ ~ HasWritten(d) /\ ~ IsUnlinking(d) /\ ~ IsMoving(d) /\ ~ IsRemoving(d)
       /\ ~ Holds(t)
  BY <1>1, <1>12, IdleHasNothing
     DEF HasWritten, IsUnlinking, IsMoving, IsRemoving, Holds, Is
<1>14. Others({t}, {m})
  BY <1>8, <1>9, ToldAsBefore
<1>15. \A g : (Fair(g))' => Fair(g)
  <2>1. \A u \in {t} : Holds(u) /\ task[u].at \in task[u].outdated => View(u).film \in misled'
    BY <1>13
  <2> QED  BY <1>6, <1>14, <2>1, FairBefore
<1>16. Works({t}, {m})
  BY <1>6, <1>11, <1>14, <1>15 DEF Works
<1>17. ASSUME NEW k \in Id \ {m}  PROVE \A q : (Owns(k, q))' => Owns(k, q)
  <2>1. \A u \in {t} : Holds(u) => task[u].at # k
    BY <1>13
  <2>2. \A u \in {t} : ~ (IsMoving(task[u]))'
    BY <1>10, <1>13 DEF IsMoving
  <2> QED  BY <1>11, <1>14, <1>15, <2>1, <2>2, OwnsBefore
<1>18. \A u \in Slot \ {t} : \A q : (InWork(task[u], q))' => InWork(task[u], q)
  BY <1>16, OthersInWork
<1>19. d # Idle => (TaskSafe(d))'
  <2> SUFFICES ASSUME d # Idle  PROVE (TaskSafe(d))'
    OBVIOUS
  <2>1. (Sees(d))' /\ (Remembers(d))'
    BY <1>2, <1>12, <1>13 DEF TaskSafe, Sees, Remembers
  <2>2. (WroteItsOwn(d))' /\ (UnlinksItsOwn(d))' /\ (Migrates(d))' /\ (Deletes(d))'
    BY <1>12, <1>13 DEF WroteItsOwn, UnlinksItsOwn, Unlinks, HasWritten, IsUnlinking,
       Migrates, Deletes
  <2>3. (ScansNew(d))'
    <3> SUFFICES ASSUME NEW q \in d.todo, NEW k \in Id, entry'[k] # NoEntry,
                        k \notin d.outdated
                 PROVE  q \notin Plays(entry'[k])
      BY DEF ScansNew, Entries, Present, Plays
    <3>1. CASE k = m
      BY <1>4, <1>11, <1>12, <3>1
    <3>2. CASE k # m
      <4>1. entry'[k] = entry[k] /\ k \in Entries
        BY <1>11, <3>2 DEF Entries, Present
      <4> QED  BY <1>1, <1>2, <1>12, <4>1 DEF TaskSafe, ScansNew
    <3> QED  BY <3>1, <3>2
  <2> QED  BY <2>1, <2>2, <2>3 DEF TaskSafe
<1>20. LookupsSafe'
  <2> SUFFICES ASSUME NEW k \in Id, fetch'[k] # NoFetch
               PROVE  /\ HasVideos(fetch'[k].copy)
                      /\ fetch'[k].phase = "holding" /\ ~ fetch'[k].outdated =>
                           fetch'[k].copy = entry'[k]
    BY DEF LookupsSafe, HasVideos, Plays
  <2>1. CASE k = m
    BY <1>5, <1>11, <2>1 DEF Waiting
  <2>2. CASE k # m
    BY <1>11, <2>2 DEF Safe, LookupsSafe
  <2> QED  BY <2>1, <2>2
<1>21. AllKept({t}) /\ FilmsSurvive' /\ OwnedStays
  BY <1>1, <1>6, SameDisk
<1>22. ASSUME NEW q, (Owns(m, q))'
       PROVE  q = p /\ f \notin misled'
  <2>1. f \notin misled'
    BY <1>4, <1>11, <1>22 DEF Owns, Fair
  <2>2. ~ (MovedTo(m, q))'
    <3> SUFFICES ASSUME NEW u \in Slot, (IsMoving(task[u]))', task'[u].at = m  PROVE FALSE
      BY DEF MovedTo
    <3>1. u # t
      BY <1>10, <1>13 DEF IsMoving
    <3>2. (Holds(u))'
      BY DEF IsMoving, Holds, Is, Active, Idle
    <3>3. Holds(u) /\ task[u].at = m
      BY <1>16, <3>1, <3>2, OthersHeld
    <3> QED  BY <1>3, <3>3, HolderHere
  <2>3. q \in Plays(e)
    BY <1>11, <1>22, <2>2 DEF Owns, Plays
  <2> QED  BY <1>4, <2>1, <2>3
<1>23. ASSUME f \notin misled'
       PROVE  Gains({t}, {m}, m, p)
  <2>1. /\ Exists(p) /\ disk[p] = f /\ p \notin Limbo(0)
        /\ \A k \in c.outdated : Present(k) => p \notin Plays(entry[k])
    BY <1>0, <1>7, <1>23 DEF Raced
  <2>2. ASSUME NEW j \in Id, (Owns(j, p))', j # m  PROVE FALSE
    <3>1. Owns(j, p)
      BY <1>17, <2>2
    <3>2. j \in Entries /\ Present(j)
      BY <3>1 DEF Owns, Entries
    <3>3. p \notin Plays(entry[j])
      BY <1>1, <1>2, <2>1, <3>2 DEF TaskSafe, ScansNew
    <3>4. MovedTo(j, p)
      BY <3>1, <3>3 DEF Owns
    <3> QED  BY <2>1, <3>4, InLimbo
  <2>3. \A u \in Slot \ {t} : ~ (InWork(task[u], p))'
    BY <1>18, <2>1, InLimbo
  <2> QED  BY <1>1, <1>4, <1>11, <2>1, <2>2, <2>3 DEF Gains, Exists
<1>24. ASSUME NEW k \in Id, NEW q, (Owns(k, q))'
       PROVE  Keeps(k, q) \/ Gains({t}, {m}, k, q)
  <2>1. CASE k = m
    BY <1>22, <1>23, <1>24, <2>1
  <2>2. CASE k # m
    BY <1>11, <1>17, <1>21, <1>24, <2>2 DEF Keeps, OwnedStays
  <2> QED  BY <2>1, <2>2
<1>25. HoldsAlone(t)
  <2>1. ~ (Holds(t))'
    BY <1>10, <1>13 DEF Holds, Is, Active, IsMoving, IsRemoving
  <2> QED  BY <2>1 DEF HoldsAlone
<1>26. \A u \in Slot \ {t} : WritesAlone(t, u) /\ WritesAlone(u, t)
  BY <1>10, <1>13, WritesNothing
<1>27. task'[t] # Idle => (TaskSafe(task[t]))'
  BY <1>10, <1>19
<1>28. \A k \in {m} : entry'[k] # NoEntry => (EntrySafe(entry[k]))'
  BY <1>5, <1>11 DEF EntrySafe, HasVideos, HasVersions, Plays
<1> HIDE DEF Works
<1> QED  BY <1>1, <1>16, <1>20, <1>21, <1>24, <1>25, <1>26, <1>27, <1>28, SafeAgain

-----------------------------------------------------------------------------
(* The lookups.                                                              *)

(* A lookup writes its entry back.                                           *)
LEMMA PutFetchedSafe ==
  ASSUME IInv, Safe, NEW m \in Id, PutFetched(m)
  PROVE  Safe'
<1> PICK q : q = fetch[m]
  OBVIOUS
<1> PICK e : e = q.copy
  OBVIOUS
<1> PICK r : r = IF q.lookups = 1 THEN NoFetch ELSE Waiting(e, 1)
  OBVIOUS
<1>0. q = fetch[m] /\ e = q.copy
  OBVIOUS
<1>1. /\ q.phase = "holding" /\ entry' = [entry EXCEPT ![m] = e]
      /\ task' = Told(task, Slot, m)
      /\ fetch' = [fetch EXCEPT ![m] = r]
      /\ misled' = IF q.outdated THEN misled \cup {e.film} ELSE misled
      /\ UNCHANGED <<layout, disk, deleted>>
  BY DEF PutFetched, IInv, Domains, settings
<1>2. Fits(e) /\ q # NoFetch
  <2>1. FetchFits(fetch[m])
    BY <1>0, <1>1, FetchHere
  <2> QED  BY <1>0, <1>1, <2>1 DEF FetchFits, NoFetch
<1>3. HasVideos(e) /\ (~ q.outdated => e = entry[m])
  BY <1>0, <1>1, <1>2 DEF Safe, LookupsSafe
<1>4. /\ entry'[m] = e /\ (\A k \in Id \ {m} : entry'[k] = entry[k])
      /\ fetch'[m] = r /\ (\A k \in Id \ {m} : fetch'[k] = fetch[k])
  BY <1>1 DEF IInv, Domains
<1>5. misled \subseteq misled' /\ deleted \subseteq deleted'
  BY <1>1
<1>6. Others({}, {m})
  <2>1. \A u \in Slot : task'[u] = IF u \in Slot /\ task[u] # Idle
                         THEN [task[u] EXCEPT !.outdated = @ \cup {m}] ELSE task[u]
    BY <1>1 DEF Told
  <2> QED  BY <2>1, ToldAsBefore
<1>7. \A f : (Fair(f))' => Fair(f)
  BY <1>5, <1>6, FairBefore
<1>8. Works({}, {m})
  BY <1>4, <1>5, <1>6, <1>7 DEF Works
<1>9. OwnedStays /\ AllKept({}) /\ FilmsSurvive'
  BY <1>1, <1>5, SameDisk
<1>10. ASSUME e.film \notin misled'
       PROVE  entry'[m] = entry[m] /\ m \in Entries
  <2>1. e = entry[m]
    BY <1>1, <1>3, <1>10
  <2>2. e # NoEntry
    BY <1>2, EntryIsSomething DEF Fits
  <2> QED  BY <1>4, <2>1, <2>2 DEF Entries, Present
<1>11. (EntrySafe(e))'
  <2> SUFFICES ASSUME (Fair(e.film))'  PROVE HasVersions(e)
    BY <1>3 DEF EntrySafe, HasVideos, HasVersions, Plays
  <2>1. e.film \notin misled' /\ Fair(e.film)
    BY <1>7 DEF Fair
  <2>2. e = entry[m] /\ m \in Entries
    BY <1>4, <1>10, <2>1
  <2> QED  BY <2>1, <2>2 DEF Safe, EntriesSafe, EntrySafe
<1>12. \A k \in {m} : entry'[k] # NoEntry => (EntrySafe(entry[k]))'
  BY <1>4, <1>11
<1>13. ASSUME NEW k \in Id, NEW p, (Owns(k, p))'
       PROVE  Keeps(k, p) \/ Gains({}, {m}, k, p)
  <2>1. entry'[k] = entry[k]
    <3>1. CASE k = m
      <4>1. e.film \notin misled'
        BY <1>4, <1>13, <3>1 DEF Owns, Fair
      <4> QED  BY <1>10, <3>1, <4>1
    <3> QED  BY <1>4, <3>1
  <2>2. Owns(k, p)
    BY <1>6, <1>7, <1>13, <2>1, OwnsBefore
  <2> QED  BY <1>9, <1>13, <2>1, <2>2 DEF Keeps, OwnedStays
<1>14. LookupsSafe'
  <2> SUFFICES ASSUME NEW k \in Id, fetch'[k] # NoFetch
               PROVE  /\ HasVideos(fetch'[k].copy)
                      /\ fetch'[k].phase = "holding" /\ ~ fetch'[k].outdated =>
                           fetch'[k].copy = entry'[k]
    BY DEF LookupsSafe, HasVideos, Plays
  <2>1. CASE k = m
    BY <1>3, <1>4, <2>1 DEF Waiting
  <2>2. CASE k # m
    BY <1>4, <2>2 DEF Safe, LookupsSafe
  <2> QED  BY <2>1, <2>2
<1> HIDE DEF Works
<1> QED  BY <1>8, <1>9, <1>12, <1>13, <1>14, SafeAgain

(* A step of the lookups that leaves the store alone.                        *)
LEMMA FetchSafe ==
  ASSUME IInv, Safe, UNCHANGED <<layout, entry, disk, task, misled, deleted>>,
         \A k \in Id :
           \/ fetch'[k] \in {NoFetch, fetch[k]}
           \/ fetch'[k].copy = entry[k] /\ k \in Entries
           \/ fetch'[k].copy = fetch[k].copy /\ fetch[k] # NoFetch /\ fetch'[k].phase # "holding"
  PROVE  Safe'
<1>1. LookupsSafe'
  <2> SUFFICES ASSUME NEW k \in Id, fetch'[k] # NoFetch
               PROVE  /\ HasVideos(fetch'[k].copy)
                      /\ fetch'[k].phase = "holding" /\ ~ fetch'[k].outdated =>
                           fetch'[k].copy = entry'[k]
    BY DEF LookupsSafe, HasVideos, Plays
  <2>1. k \in Entries => HasVideos(entry[k])
    BY DEF Safe, EntriesSafe, EntrySafe
  <2> QED  BY <2>1 DEF Safe, LookupsSafe
<1>2. OwnedStays /\ AllKept({}) /\ FilmsSurvive'
  BY SameDisk
<1> QED  BY <1>1, <1>2, LooksSafe

LEMMA LookupSafe ==
  ASSUME IInv, Safe, NEW m \in Id, GetFetched(m) \/ FindNothing(m)
  PROVE  Safe'
<1>1. CASE FindNothing(m)
  <2>1. /\ fetch' = [fetch EXCEPT ![m] = NoFetch]
        /\ UNCHANGED <<layout, entry, disk, task, misled, deleted>>
    BY <1>1 DEF FindNothing, settings, history
  <2>2. \A k \in Id : fetch'[k] \in {NoFetch, fetch[k]}
    BY <2>1 DEF IInv, Domains
  <2> QED  BY <2>1, <2>2, FetchSafe
<1>2. CASE GetFetched(m)
  <2> PICK q : q = fetch[m]
    OBVIOUS
  <2> PICK e : e = entry[m]
    OBVIOUS
  <2> PICK r : r = IF Present(m) THEN [q EXCEPT !.phase = "holding", !.copy = e] ELSE NoFetch
    OBVIOUS
  <2>1. /\ q.phase = "waiting" /\ fetch' = [fetch EXCEPT ![m] = r]
        /\ UNCHANGED <<layout, entry, disk, task, misled, deleted>>
    BY <1>2 DEF GetFetched, Reread, IInv, Domains, settings, history
  <2>2. FetchFits(q)
    BY <2>1, FetchHere
  <2>3. r = NoFetch \/ (r.copy = e /\ m \in Entries)
    BY <2>2 DEF FetchFits, Entries
  <2>4. \A k \in Id : \/ fetch'[k] \in {NoFetch, fetch[k]}
                      \/ fetch'[k].copy = entry[k] /\ k \in Entries
    BY <2>1, <2>3 DEF IInv, Domains
  <2> QED  BY <2>1, <2>4, FetchSafe
<1> QED  BY <1>1, <1>2

LEMMA AskLookupSafe ==
  ASSUME IInv, Safe, (\E m \in Id : AskRefresh(m)) \/ (\E g : AskRefreshGroup(g))
  PROVE  Safe'
<1>1. /\ UNCHANGED <<layout, entry, disk, task, misled, deleted>>
      /\ \A k \in Id : \/ fetch'[k] \in {NoFetch, fetch[k]}
                       \/ fetch'[k].copy = entry[k] /\ k \in Entries
  <2>1. ASSUME NEW m \in Id, AskRefresh(m)
        PROVE  /\ UNCHANGED <<layout, entry, disk, task, misled, deleted>>
               /\ \A k \in Id : \/ fetch'[k] \in {NoFetch, fetch[k]}
                                \/ fetch'[k].copy = entry[k] /\ k \in Entries
    BY <2>1 DEF AskRefresh, Waiting, Entries, IInv, Domains, settings, history
  <2>2. ASSUME NEW g, AskRefreshGroup(g)
        PROVE  /\ UNCHANGED <<layout, entry, disk, task, misled, deleted>>
               /\ \A k \in Id : \/ fetch'[k] \in {NoFetch, fetch[k]}
                                \/ fetch'[k].copy = entry[k] /\ k \in Entries
    BY <2>2 DEF AskRefreshGroup, Waiting, settings, history
  <2> QED  BY <2>1, <2>2
<1> QED  BY <1>1, FetchSafe

-----------------------------------------------------------------------------
(* A crash misleads the films that were in hand.                             *)
LEMMA CrashSafe ==
  ASSUME IInv, Safe, Crash
  PROVE  Safe'
<1>1. /\ task' = [t \in Slot |-> Idle] /\ fetch' = [m \in Id |-> NoFetch]
      /\ misled' = misled \cup InHand
      /\ UNCHANGED <<layout, entry, disk, deleted>>
  BY DEF Crash, settings
<1>2. \A t \in Slot : task'[t] = Idle
  BY <1>1
<1>3. \A t \in Slot :
        ~ (Holds(t))' /\ ~ (IsMoving(task[t]))' /\ ~ (HasWritten(task[t]))'
  BY <1>2 DEF Holds, Is, Active, IsMoving, HasWritten, Idle
<1>4. misled \subseteq misled'
  BY <1>1
<1>5. ASSUME NEW f, (Fair(f))'
      PROVE  Fair(f) /\ \A t \in Slot : ~ (Holds(t) /\ View(t).film = f)
  <2>1. f \notin misled'
    BY <1>5 DEF Fair
  <2>2. \A t \in Slot : ~ (Holds(t) /\ View(t).film = f)
    BY <1>1, <2>1 DEF InHand
  <2> QED  BY <1>4, <2>1, <2>2 DEF Fair
<1>6. ASSUME NEW k, NEW p, (Owns(k, p))'
      PROVE  Owns(k, p)
  <2>1. k \in Entries /\ (Fair(entry[k].film))' /\ ~ (MovedTo(k, p))'
    BY <1>1, <1>3, <1>6 DEF Owns, Entries, Present, MovedTo
  <2>2. Fair(entry[k].film) /\ ~ Held(k)
    <3>1. PICK f : f = entry[k].film
      OBVIOUS
    <3>2. (Fair(f))'
      BY <1>1, <2>1, <3>1
    <3> QED  BY <1>5, <3>1, <3>2 DEF Held
  <2>3. p \in Plays(entry[k])
    BY <1>1, <1>6, <2>1 DEF Owns, Plays
  <2> QED  BY <2>1, <2>2, <2>3 DEF Owns
<1>7. TasksSafe'
  BY <1>2 DEF TasksSafe
<1>8. LookupsSafe'
  BY <1>1 DEF LookupsSafe
<1>9. EntriesSafe'
  <2> SUFFICES ASSUME NEW k \in Id, entry'[k] # NoEntry  PROVE (EntrySafe(entry[k]))'
    BY DEF EntriesSafe, Entries, Present
  <2>1. entry'[k] = entry[k] /\ k \in Entries
    BY <1>1 DEF Entries, Present
  <2>2. EntrySafe(entry[k])
    BY <2>1 DEF Safe, EntriesSafe
  <2> QED  BY <1>5, <2>1, <2>2 DEF EntrySafe, HasVideos, HasVersions, Plays
<1>10. OwnedIsThere' /\ OwnersDiffer'
  BY <1>1, <1>6 DEF Safe, OwnedIsThere, OwnersDiffer, Exists
<1>11. OneHolder' /\ OutputsApart'
  BY <1>3 DEF OneHolder, OutputsApart
<1>12. FilmsSurvive'
  BY <1>1, <1>4, SameDisk
<1> QED  BY <1>7, <1>8, <1>9, <1>10, <1>11, <1>12 DEF Safe

LEMMA IdlingSafe ==
  ASSUME IInv, Safe, UNCHANGED vars
  PROVE  Safe'
<1>1. UNCHANGED <<layout, entry, disk, task, fetch, misled, deleted>>
  BY DEF vars, settings, tasks, history
<1> QED  BY <1>1, FetchSafe

LEMMA StepSafe ==
  ASSUME IInv, Safe, NEW t \in Slot, Step(t)
  PROVE  Safe'
<1>1. CASE PutProgress(t) \/ WriteSubtitle(t) \/ PutSubtitle(t)
  BY <1>1, PutProgressSafe, WriteSubtitleSafe, PutSubtitleSafe
<1>2. CASE Encode(t) \/ EncodeFails(t) \/ GetJob(t) \/ PutJob(t)
  BY <1>2, EncodeSafe, EncodeFailsSafe, GetJobSafe, PutJobSafe
<1>3. CASE Remove(t) \/ RemovePayload(t)
  BY <1>3, RemoveSafe, RemovePayloadSafe
<1>4. CASE \E m \in Id : Unlink(t, m) \/ FixOne(t, m) \/ CleanupOne(t, m) \/ MigrateOne(t, m)
  BY <1>4, UnlinkSafe, FixSafe, CleanupSafe, MigrateSafe
<1>5. CASE UnlinkSource(t) \/ PutMigrated(t) \/ MoveRest(t)
  BY <1>5, UnlinkSourceSafe, PutMigratedSafe, MoveRestSafe
<1>6. CASE ListScan(t) \/ \E p \in task[t].todo : PutScanned(t, p)
  BY <1>6, ListScanSafe, PutScannedSafe
<1> QED  BY <1>1, <1>2, <1>3, <1>4, <1>5, <1>6 DEF Step

LEMMA NextSafe == IInv /\ Safe /\ [Next]_vars => Safe'
<1> SUFFICES ASSUME IInv, Safe, [Next]_vars  PROVE Safe'
  OBVIOUS
<1>1. ASSUME NEW t \in Slot, Request(t) \/ (Active(t) /\ Step(t))
      PROVE  Safe'
  BY <1>1, AsksSafe, StepSafe
<1>2. ASSUME NEW m \in Id, AskRefresh(m) \/ Lookup(m)
      PROVE  Safe'
  BY <1>2, AskLookupSafe, LookupSafe, PutFetchedSafe DEF Lookup
<1>3. ASSUME NEW g, AskRefreshGroup(g)
      PROVE  Safe'
  BY <1>3, AskLookupSafe
<1>4. ASSUME NEW p \in DOMAIN disk, Vanish(p)
      PROVE  Safe'
  BY <1>4, VanishSafe
<1> QED  BY <1>1, <1>2, <1>3, <1>4, CrashSafe, IdlingSafe DEF Next

-----------------------------------------------------------------------------
(* What the invariant is for.                                                *)
LEMMA SafeMeans == IInv /\ Safe => EntriesArePlayable /\ FilesHaveOneOwner /\ FilmsSurvive
<1> SUFFICES ASSUME IInv, Safe  PROVE EntriesArePlayable /\ FilesHaveOneOwner
  BY DEF Safe
<1>1. ASSUME NEW m \in Entries, Settled(m)
      PROVE  /\ Fair(entry[m].film) /\ m \in Id /\ Fits(entry[m])
             /\ \A p \in Plays(entry[m]) : Owns(m, p)
  <2>1. entry[m].film \notin misled /\ \A t \in Slot : ~ (Holds(t) /\ View(t).film = entry[m].film)
    BY <1>1 DEF Settled, InHand
  <2>2. m \in Id /\ Fits(entry[m])
    BY DEF Entries, IInv, EntriesFit
  <2>3. Fair(entry[m].film) /\ ~ Held(m)
    BY <2>1 DEF Fair, Held
  <2> QED  BY <2>2, <2>3 DEF Owns
<1>2. EntriesArePlayable
  <2> SUFFICES ASSUME NEW m \in Entries, Settled(m),
                      NEW p \in Plays(entry[m]) \cup Streams(entry[m])
               PROVE  Exists(p) /\ disk[p] = entry[m].film
    BY DEF EntriesArePlayable
  <2>1. Streams(entry[m]) \subseteq Plays(entry[m])
    <3> PICK e : e = entry[m]
      OBVIOUS
    <3>1. HasVersions(e)
      BY <1>1 DEF Safe, EntriesSafe, EntrySafe
    <3>2. e.media_file \in Path /\ e.versions \subseteq Path
      BY <1>1 DEF Fits, Sound, Entry
    <3>3. e.media_file # NoPath /\ NoPath \notin e.versions
      BY <3>2, NoPathIsNone
    <3> QED  BY <3>1, <3>3 DEF Streams, Plays, HasVersions
  <2>2. Owns(m, p)
    BY <1>1, <2>1
  <2> QED  BY <2>2, OwnedIsVideo DEF Exists
<1>3. FilesHaveOneOwner
  <2> SUFFICES ASSUME NEW m \in Entries, NEW k \in Entries, m # k, Settled(m), Settled(k),
                      NEW p \in Plays(entry[m]) \cap Plays(entry[k])
               PROVE  FALSE
    BY DEF FilesHaveOneOwner
  <2>1. Owns(m, p) /\ Owns(k, p)
    BY <1>1
  <2> QED  BY <2>1 DEF Safe, OwnersDiffer
<1> QED  BY <1>2, <1>3

-----------------------------------------------------------------------------
(* In the first state nobody holds anything, and each film has its source,   *)
(* its output or both to itself.                                             *)
LEMMA FirstVideos ==
  ASSUME layout \in Layouts, transcode_dir = OutDir, NEW f \in Film,
         NEW stage \in Stages \ {"loose"}
  PROVE  LET x == FirstEntry(f, stage)
         IN  /\ x.film = f
             /\ Plays(x) \subseteq {Source(f), OutPath(f)}
             /\ Source(f) \in Plays(x) => stage # "reclaimed"
             /\ OutPath(f) \in Plays(x) => stage # "imported"
             /\ HasVersions(x)
<1> PICK s : s = Source(f)
  OBVIOUS
<1> PICK o : o = OutPath(f)
  OBVIOUS
<1> PICK download \in BOOLEAN : download = (layout.folder[f] = Payload)
  OBVIOUS
<1> PICK g : g = GroupOf(0, f)
  OBVIOUS
<1> PICK e : e = NewEntry(f, s, download, g, {})
  OBVIOUS
<1> PICK x : x = FirstEntry(f, stage)
  OBVIOUS
<1>0. x = FirstEntry(f, stage) /\ s = Source(f) /\ o = OutPath(f)
  OBVIOUS
<1>1. s # o
  <2>1. layout.folder[f] # OutDir \/ layout.stem[f] # <<"transcode", layout.stem[f]>>
    BY LayoutAssumption
  <2> QED  BY <2>1 DEF Source, OutPath
<1>2. s # NoPath /\ o # NoPath
  <2>1. s \in Path /\ o \in Path
    BY Constants DEF Source, OutPath, Path, Dir
  <2> QED  BY <2>1, NoPathIsNone
<1>3. e = [film |-> f, media_file |-> s, transcoded |-> NoPath, versions |-> {},
           ready |-> NoPath, subtitles |-> {}, played |-> FALSE, download |-> download,
           group |-> g]
  BY DEF NewEntry
<1>4. x = IF stage = "imported" THEN e
          ELSE [e EXCEPT !.transcoded = o, !.versions = {o}, !.ready = o,
                         !.media_file = IF stage = "reclaimed" THEN o ELSE @]
  BY DEF FirstEntry
<1>5. CASE stage = "imported"
  <2>1. x = e
    BY <1>4, <1>5
  <2>2. /\ x.film = f /\ x.media_file = s /\ x.transcoded = NoPath /\ x.versions = {}
        /\ x.ready = NoPath
    BY <1>3, <2>1
  <2>3. Plays(x) = {s} /\ HasVersions(x)
    BY <1>2, <2>2 DEF Plays, HasVersions
  <2> QED  BY <1>0, <1>1, <1>5, <2>2, <2>3
<1>6. CASE stage # "imported"
  <2>1. PICK file : file = IF stage = "reclaimed" THEN o ELSE e.media_file
    OBVIOUS
  <2>2. PICK a : a = [e EXCEPT !.transcoded = o]
    OBVIOUS
  <2>3. PICK b : b = [a EXCEPT !.versions = {o}]
    OBVIOUS
  <2>4. PICK c : c = [b EXCEPT !.ready = o]
    OBVIOUS
  <2>5. x = [c EXCEPT !.media_file = file]
    BY <1>4, <1>6, <2>1, <2>2, <2>3, <2>4
  <2>6. /\ x.film = f /\ x.media_file = file /\ x.transcoded = o /\ x.versions = {o}
        /\ x.ready = o
    BY <1>3, <2>2, <2>3, <2>4, <2>5
  <2>7. file = IF stage = "reclaimed" THEN o ELSE s
    BY <1>3, <2>1
  <2>8. Plays(x) = {file, o} /\ HasVersions(x)
    BY <1>2, <2>6, <2>7 DEF Plays, HasVersions
  <2> QED  BY <1>0, <1>1, <1>6, <2>6, <2>7, <2>8
<1> QED  BY <1>5, <1>6

LEMMA InitSafe ==
  ASSUME Init
  PROVE  Safe
<1>1. /\ layout \in Layouts /\ transcode_dir = OutDir
      /\ task = [t \in Slot |-> Idle] /\ fetch = [m \in Id |-> NoFetch]
      /\ misled = {}
  BY DEF Init
<1>2. PICK stage \in [Film -> Stages] :
       LET sources == {f \in Film : stage[f] # "reclaimed"}
           outputs == {f \in Film : stage[f] \in {"transcoded", "reclaimed"}}
           has(f) == {p \in {Source(f)} : f \in sources} \cup {p \in {OutPath(f)} : f \in outputs}
       IN  /\ \A f, g \in outputs : f # g => OutPath(f) # OutPath(g)
           /\ entry = [m \in Id |-> IF m \in Film THEN FirstEntry(m, stage[m]) ELSE NoEntry]
           /\ disk = [p \in UNION {has(f) : f \in Film} |-> CHOOSE f \in Film : p \in has(f)]
  BY DEF Init
<1> DEFINE sources == {f \in Film : stage[f] # "reclaimed"}
           outputs == {f \in Film : stage[f] \in {"transcoded", "reclaimed"}}
           has(f) == {p \in {Source(f)} : f \in sources} \cup {p \in {OutPath(f)} : f \in outputs}
<1>3. /\ \A f, g \in outputs : f # g => OutPath(f) # OutPath(g)
      /\ entry = [m \in Id |-> IF m \in Film THEN FirstEntry(m, stage[m]) ELSE NoEntry]
      /\ disk = [p \in UNION {has(f) : f \in Film} |-> CHOOSE f \in Film : p \in has(f)]
  BY <1>2
<1>4. \A t \in Slot : task[t] = Idle /\ ~ Holds(t)
  BY <1>1 DEF Holds, Is, Active
<1>5. \A m : ~ Held(m) /\ \A p : ~ MovedTo(m, p)
  <2>1. \A t \in Slot : ~ IsMoving(task[t])
    BY <1>4, HoldsIs
  <2> QED  BY <1>4, <2>1 DEF Held, MovedTo
<1>6. \A f, g \in Film : f # g => Source(f) # Source(g)
  <2>1. \A f, g \in Film : f # g => <<layout.folder[f], layout.stem[f]>> # <<layout.folder[g], layout.stem[g]>>
    BY <1>1, LayoutAssumption
  <2> QED  BY <2>1 DEF Source
<1>7. \A f, g \in Film : Source(f) # OutPath(g)
  <2>1. \A f, g \in Film : layout.folder[f] # OutDir \/ layout.stem[f] # <<"transcode", layout.stem[g]>>
    BY <1>1, LayoutAssumption
  <2> QED  BY <1>1, <2>1 DEF Source, OutPath
<1>8. \A f, g \in Film : \A p : p \in has(f) /\ p \in has(g) => f = g
  <2> SUFFICES ASSUME NEW f \in Film, NEW g \in Film, NEW p, p \in has(f), p \in has(g), f # g
               PROVE  FALSE
    OBVIOUS
  <2>1. p = Source(f) \/ (p = OutPath(f) /\ f \in outputs)
    OBVIOUS
  <2>2. p = Source(g) \/ (p = OutPath(g) /\ g \in outputs)
    OBVIOUS
  <2> HIDE DEF has, outputs
  <2> QED  BY <2>1, <2>2, <1>3, <1>6, <1>7
<1>9. \A f \in Film : \A p : p \in has(f) => Exists(p) /\ disk[p] = f
  <2> SUFFICES ASSUME NEW f \in Film, NEW p, p \in has(f)
               PROVE  Exists(p) /\ disk[p] = f
    OBVIOUS
  <2> HIDE DEF has
  <2>1. p \in UNION {has(g) : g \in Film}
    OBVIOUS
  <2>2. Exists(p) /\ disk[p] = CHOOSE g \in Film : p \in has(g)
    BY <1>3, <2>1 DEF Exists
  <2>3. (CHOOSE g \in Film : p \in has(g)) \in Film /\ p \in has(CHOOSE g \in Film : p \in has(g))
    OBVIOUS
  <2>4. (CHOOSE g \in Film : p \in has(g)) = f
    BY <1>8, <2>3
  <2> QED  BY <2>2, <2>4
<1>10. ASSUME NEW m \in Entries
       PROVE  /\ m \in Film /\ entry[m].film = m /\ HasVersions(entry[m])
              /\ Plays(entry[m]) \subseteq has(m)
  <2>1. m \in Id /\ entry[m] # NoEntry
    BY DEF Entries, Present
  <2>2. m \in Film /\ entry[m] = FirstEntry(m, stage[m])
    BY <1>3, <2>1
  <2>3. stage[m] \in Stages \ {"loose"}
    BY <2>1, <2>2 DEF FirstEntry
  <2> PICK x : x = FirstEntry(m, stage[m])
    OBVIOUS
  <2>4. entry[m] = x
    BY <2>2
  <2>5. /\ x.film = m /\ Plays(x) \subseteq {Source(m), OutPath(m)}
        /\ Source(m) \in Plays(x) => stage[m] # "reclaimed"
        /\ OutPath(m) \in Plays(x) => stage[m] # "imported"
        /\ HasVersions(x)
    BY <1>1, <2>2, <2>3, FirstVideos
  <2>6. Plays(x) \subseteq has(m)
    BY <2>2, <2>3, <2>5 DEF Stages
  <2> HIDE DEF has
  <2> QED  BY <2>2, <2>4, <2>5, <2>6
<1>11. EntriesSafe
  <2> SUFFICES ASSUME NEW m \in Entries  PROVE HasVideos(entry[m]) /\ HasVersions(entry[m])
    BY DEF EntriesSafe, EntrySafe
  <2>1. \A p \in has(m) : p[3] = 0
    BY DEF Source, OutPath
  <2> HIDE DEF has
  <2> QED  BY <1>10, <2>1 DEF HasVideos
<1>12. \A m, p : Owns(m, p) => m \in Entries /\ m \in Film /\ p \in has(m) /\ entry[m].film = m
  <2> HIDE DEF has
  <2> QED  BY <1>5, <1>10 DEF Owns
<1>13. OwnedIsThere /\ OwnersDiffer
  <2> HIDE DEF has
  <2> QED  BY <1>8, <1>9, <1>12 DEF OwnedIsThere, OwnersDiffer
<1>14. FilmsSurvive
  <2> SUFFICES ASSUME NEW f \in Film
               PROVE  \E p \in DOMAIN disk : p[3] = 0 /\ disk[p] = f
    BY DEF FilmsSurvive
  <2>1. \E p : p \in has(f) /\ p[3] = 0
    <3>1. CASE stage[f] = "reclaimed"
      <4>1. OutPath(f) \in has(f)
        BY <3>1
      <4> HIDE DEF has
      <4> QED  BY <4>1 DEF OutPath
    <3>2. CASE stage[f] # "reclaimed"
      <4>1. Source(f) \in has(f)
        BY <3>2
      <4> HIDE DEF has
      <4> QED  BY <4>1 DEF Source
    <3> QED  BY <3>1, <3>2
  <2> HIDE DEF has
  <2> QED  BY <1>9, <2>1 DEF Exists
<1>15. TasksSafe /\ OneHolder
  BY <1>4 DEF TasksSafe, OneHolder
<1>16. OutputsApart
  <2>1. \A t \in Slot : ~ HasWritten(task[t])
    BY <1>4 DEF HasWritten, Idle
  <2> QED  BY <2>1 DEF OutputsApart
<1>17. LookupsSafe
  BY <1>1 DEF LookupsSafe
<1> QED  BY <1>11, <1>13, <1>14, <1>15, <1>16, <1>17 DEF Safe

LEMMA SafeInvariance == Spec => [](IInv /\ Safe)
<1>1. Init => IInv /\ Safe
  BY InitIInv, InitSafe
<1>2. IInv /\ Safe /\ [Next]_vars => (IInv /\ Safe)'
  <2>1. IInv /\ [Next]_vars => IInv'
    BY NextIInv
  <2> QED  BY <2>1, NextSafe
<1> QED  BY <1>1, <1>2, PTL DEF Spec

-----------------------------------------------------------------------------
(* Whatever the handlers of the library, of media and of the settings, the   *)
(* jobs and the lookups do, in any order and with crashes between any two of *)
(* their steps, entries, files and what tasks hold are what they should be.  *)
(* In particular a subtitle's number never runs past the uploads made.       *)
THEOREM LibraryIsTyped == Spec => []TypeOK
BY Invariance, IInvTyped, PTL

(* An entry removed stays removed and a play position stored stays stored,   *)
(* unless a task that had read the entry before wrote it back after, however *)
(* many requests, jobs and lookups run together (store.rs:94-140, 247-261).  *)
THEOREM WritesAreKept == Spec => []NothingIsUndone
<1>1. IInv => NothingIsUndone
  BY DEF IInv
<1> QED  BY <1>1, Invariance, PTL

(* What an entry plays is on disk and is that film's, however many requests, *)
(* jobs, scans, migrations and lookups run together and whatever the user    *)
(* removes, unless a task went by what was no longer true of the film, or a  *)
(* job that failed or was cancelled removed an output made before, which     *)
(* needs no race (media.rs:65-98, library.rs:116-173, settings.rs:121-300,   *)
(* runner.rs:348-358).                                                       *)
THEOREM EntriesPlay == Spec => []EntriesArePlayable
BY SafeInvariance, SafeMeans, PTL

(* No video belongs to two entries, so that deleting one entry with its      *)
(* files takes nothing from another (cleanup.rs:14-33).                      *)
THEOREM OneOwner == Spec => []FilesHaveOneOwner
BY SafeInvariance, SafeMeans, PTL

(* A film that nobody asked to delete keeps a video on disk, whatever is     *)
(* moved, transcoded, cleaned up and repaired (cleanup.rs:35-89,             *)
(* settings.rs:255-285, library.rs:116-173).                                 *)
THEOREM FilmsKept == Spec => []FilmsSurvive
BY SafeInvariance, SafeMeans, PTL
=============================================================================
