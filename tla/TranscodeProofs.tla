-------------------------- MODULE TranscodeProofs ---------------------------
(***************************************************************************)
(* Theorems about Transcode, for every set of entries, titles and bounds.   *)
(* Tokens and states follow the phases of the jobs.  The files need more:    *)
(* entries of the same title share an output file, what is known of that     *)
(* file while one of them is not exposed says how far their one job is, and  *)
(* whatever is said of an entry is said of its copies as well, for they may  *)
(* be written over it at any time.                                           *)
(***************************************************************************)
EXTENDS Transcode, FiniteSetTheorems, TLAPS

-----------------------------------------------------------------------------
(* The inductive invariant.                                                  *)

(* Channel: it holds queued jobs, each once.                                 *)
ChannelHoldsQueued ==
  /\ \A i \in 1 .. Len(job_rx) : job[job_rx[i]].phase = "queued"
  /\ \A i, k \in 1 .. Len(job_rx) : job_rx[i] = job_rx[k] => i = k

(* Jobs before their token is made: nobody can have stopped them, and their  *)
(* ffmpeg does not run.                                                      *)
Early == {"asked", "spawned", "queued", "unavailable", "probed", "starting", "started"}
Untouched ==
  \A j \in Job : job[j].phase \in Early => ~ job[j].stopped /\ ~ job[j].writing

(* Job j will end the transcoding of its entry: it still encodes, or has not *)
(* read the entry yet for its last update, or has read it transcoding.       *)
WillEnd(j, m) ==
  /\ job[j].phase # "idle" /\ job[j].media = m
  /\ \/ job[j].phase \in {"started", "encoding", "subtitled"}
     \/ /\ job[j].phase \in {"failed", "ended"}
        /\ job[j].copy = NoCopy \/ job[j].copy.state = "transcoding"

TranscodingWillEnd ==
  \A m \in Media : entry[m].state = "transcoding" =>
    \/ <<"state", m>> \in reverted
    \/ server = "down"
    \/ request["recover"][m].phase \in {"waiting", "asked"}
    \/ \E j \in Job : WillEnd(j, m)

(* The entry m and the copies of it that tasks hold.                         *)
Seen(m) ==
  ({entry[m]} \cup {job[j].copy : j \in {i \in Job : Unfinished(i) /\ job[i].media = m}}
     \cup {request[k][m].copy : k \in Kind}) \ {NoCopy}

(* What an entry or a copy of it may say.  Its paths are its own.  While an   *)
(* entry of the same title is not exposed, the output that it knows of is     *)
(* finished, and it is not transcoded again; unless it is exposed itself, a   *)
(* film that has moved to the output is there in full.                        *)
Same(m, n) == Output(m) = Output(n)
Clean(n) == \E m \in Media \ exposed : Same(m, n)
Finished(p) == files[p] \in {"stub", "whole"}
Knowable(n, e) ==
  /\ e.media_file \in {Source(n), Output(n)}
  /\ e.versions \subseteq {Output(n)}
  /\ e.transcoded \in {NoPath, Output(n)}
  /\ Clean(n) =>
       /\ e.versions # {} \/ e.transcoded # NoPath => Finished(Output(n))
       /\ e.state = "transcoding" => e.transcoded = NoPath
  /\ n \notin exposed /\ e.media_file = Output(n) => files[Output(n)] = "whole"

AllKnowable == \A m \in Media : \A e \in Seen(m) : Knowable(m, e)

(* Tasks unlink their entry's source, which it no longer plays; recovery     *)
(* removes only an output whose entries are all exposed.                     *)
OwnUnlinks ==
  /\ \A j \in Job : job[j].phase \in {"repointing", "unlinking"} =>
       job[j].input = Source(job[j].media)
  /\ \A j \in Job : job[j].phase = "unlinking" =>
       \/ <<"media_file", job[j].media>> \in reverted
       \/ entry[job[j].media].media_file = Output(job[j].media)
  /\ \A m \in Media : request["cleanup"][m].phase = "unlinking" =>
       /\ request["cleanup"][m].path = Source(m)
       /\ <<"media_file", m>> \in reverted \/ entry[m].media_file = Output(m)
  /\ \A m \in Media : request["recover"][m].path # NoPath =>
       /\ request["recover"][m].path = Output(m)
       /\ ~ Clean(m)

Done == {"subtitled", "ended", "versioned", "coded", "reclaiming", "repointing", "unlinking"}
Running(j) == job[j].phase \in {"started", "encoding"} \cup Done

(* Two jobs at one output have exposed its entries.                          *)
OneWriter ==
  \A j, k \in Job :
    j # k /\ Running(j) /\ Running(k) /\ Same(job[j].media, job[k].media) =>
      ~ Clean(job[j].media)

(* The output of a running job whose entries are not all exposed: nothing is *)
(* there until ffmpeg opens it, and it is finished once ffmpeg has ended.    *)
OutputFollowsJob ==
  \A j \in Job : Running(j) /\ Clean(job[j].media) =>
    LET output == Output(job[j].media)
    IN  /\ job[j].phase \in {"started", "encoding"} =>
             files[output] = IF job[j].writing THEN "partial" ELSE "none"
        /\ job[j].phase \in Done => Finished(output)
        /\ job[j].phase = "repointing" => files[output] = "whole"

(* A source that its entry plays is there.                                   *)
SourcesStay ==
  \A m \in Media \ exposed :
    \/ <<"media_file", m>> \in reverted
    \/ entry[m].media_file = Output(m)
    \/ files[Source(m)] = "whole"

(* Who holds what.                                                           *)
Flow ==
  /\ ChannelHoldsQueued
  /\ Untouched
  /\ TokensAreLive
  /\ TranscodingWillEnd

(* What the paths name and what is there.                                    *)
Disk ==
  /\ AllKnowable
  /\ OwnUnlinks
  /\ OneWriter
  /\ OutputFollowsJob
  /\ SourcesStay

Sound == TypeOK /\ Flow /\ Disk

(* No job outlives the process.                                              *)
DownIsIdle == server = "down" => \A j \in Job : ~ Unfinished(j)

IInv == Sound /\ DownIsIdle

-----------------------------------------------------------------------------
(* Paths, entries and jobs.                                                  *)

LEMMA Constants ==
  /\ Concurrency \in Nat \ {0} /\ MaxJobs \in Nat \ {0}
  /\ MaxRequests \in Nat /\ MaxCrashes \in Nat
  BY TranscodeAssumption

(* A source is nobody else's source and nobody's output.                     *)
LEMMA Paths ==
  /\ \A m \in Media : Source(m) \in Path /\ Output(m) \in Path
  /\ \A m, n \in Media : Source(m) # Output(n)
  /\ \A m, n \in Media : Source(m) = Source(n) => m = n
  /\ NoPath \notin Path
<1>1. \A m \in Media : /\ Source(m)[1] = "source" /\ Source(m)[2] = m
                      /\ Output(m)[1] = "output"
    BY DEF Source, Output
<1>2. \A m, n \in Media : Source(m) # Output(n)
    BY <1>1
<1>3. \A m, n \in Media : Source(m) = Source(n) => m = n
    BY <1>1, Zenon
<1>4. \A m \in Media : Len(NoPath) # Len(Source(m)) /\ Len(NoPath) # Len(Output(m))
    BY DEF NoPath, Source, Output
<1>5. NoPath \notin Path
    BY <1>4 DEF Path
<1>6. \A m \in Media : Source(m) \in Path /\ Output(m) \in Path
    BY Zenon DEF Path
<1> QED
    BY <1>2, <1>3, <1>5, <1>6

LEMMA TaskOf ==
  ASSUME TypeOK, NEW j \in Job, job[j].phase # "idle"
  PROVE  /\ job[j] \in Task /\ job[j].media \in Media /\ job[j].input \in Path
         /\ job[j].phase \in Phase /\ job[j].copy \in Entry \cup {NoCopy}
<1>1. job[j] \in Task
    BY DEF TypeOK, Idle
<1> QED
    BY <1>1 DEF Task

LEMMA CallOf ==
  ASSUME TypeOK, NEW k \in Kind, NEW m \in Media
  PROVE  /\ request[k][m] \in Call
         /\ request[k][m].phase \in {"none", "waiting", "asked", "unlinking"}
         /\ request[k][m].copy \in Entry \cup {NoCopy}
         /\ request[k][m].path \in Path \cup {NoPath}
<1>1. request[k][m] \in Call
    BY DEF TypeOK
<1> QED
    BY <1>1 DEF Call

LEMMA EntryIsNoCopy ==
  \A e \in Entry : e # NoCopy
<1>1. \A e \in Entry : e.state # "none"
    BY DEF Entry
<1> QED
    BY <1>1 DEF NoCopy

LEMMA SeenEntry ==
  ASSUME TypeOK, NEW m \in Media
  PROVE  /\ entry[m] \in Seen(m) /\ entry[m] \in Entry
         /\ \A e \in Seen(m) : e \in Entry
<1>1. entry[m] \in Entry
    BY DEF TypeOK
<1>2. ASSUME NEW e \in Seen(m)
      PROVE  e \in Entry
  <2>1. CASE e = entry[m]
      BY <1>1, <2>1
  <2>2. CASE e # entry[m]
    <3>1. \/ \E j \in Job : job[j].phase # "idle" /\ job[j].copy = e
          \/ \E k \in Kind : request[k][m].copy = e
        BY <1>2, <2>2 DEF Seen, Unfinished
    <3>2. e # NoCopy
        BY <1>2 DEF Seen
    <3>3. CASE \E j \in Job : job[j].phase # "idle" /\ job[j].copy = e
      <4> PICK j \in Job : job[j].phase # "idle" /\ job[j].copy = e
          BY <3>3
      <4> QED
          BY <3>2, TaskOf
    <3>4. CASE \E k \in Kind : request[k][m].copy = e
      <4> PICK k \in Kind : request[k][m].copy = e
          BY <3>4
      <4> QED
          BY <3>2, CallOf
    <3> QED
        BY <3>1, <3>3, <3>4
  <2> QED
      BY <2>1, <2>2
<1> QED
    BY <1>1, <1>2, EntryIsNoCopy DEF Seen

LEMMA SeenCopies ==
  /\ \A j \in Job : job[j].phase # "idle" /\ job[j].copy # NoCopy =>
       job[j].copy \in Seen(job[j].media)
  /\ \A k \in Kind, m \in Media : request[k][m].copy # NoCopy =>
       request[k][m].copy \in Seen(m)
  BY DEF Seen, Unfinished

(* Tasks only learn of an entry what it is.                                  *)
JobsLearnNothing ==
  \A j \in Job : job'[j].phase # "idle" =>
    \/ job'[j].copy = NoCopy
    \/ job'[j].copy = entry[job'[j].media]
    \/ /\ job[j].phase # "idle" /\ job'[j].media = job[j].media
       /\ job'[j].copy = job[j].copy
RequestsLearnNothing ==
  \A k \in Kind, m \in Media :
    request'[k][m].copy \in {NoCopy, entry[m], request[k][m].copy}

LEMMA SeenAfter ==
  ASSUME TypeOK, JobsLearnNothing, RequestsLearnNothing,
         NEW n \in Media, NEW e \in Seen(n)'
  PROVE  e \in Seen(n) \/ e = entry'[n]
<1>0. entry[n] \in Seen(n)
    BY SeenEntry
<1>1. e # NoCopy
    BY DEF Seen
<1>2. \/ e = entry'[n]
      \/ \E j \in Job : job'[j].phase # "idle" /\ job'[j].media = n /\ job'[j].copy = e
      \/ \E k \in Kind : request'[k][n].copy = e
    BY DEF Seen, Unfinished
<1>3. ASSUME NEW j \in Job, job'[j].phase # "idle", job'[j].media = n, job'[j].copy = e
      PROVE  e \in Seen(n)
  <2>1. \/ e = entry[n]
        \/ job[j].phase # "idle" /\ job[j].media = n /\ job[j].copy = e
      BY <1>1, <1>3 DEF JobsLearnNothing
  <2> QED
      BY <1>0, <1>1, <2>1, SeenCopies
<1>4. ASSUME NEW k \in Kind, request'[k][n].copy = e
      PROVE  e \in Seen(n)
  <2>1. e = entry[n] \/ request[k][n].copy = e
      BY <1>1, <1>4 DEF RequestsLearnNothing
  <2> QED
      BY <1>0, <1>1, <2>1, SeenCopies
<1> QED
    BY <1>2, <1>3, <1>4

-----------------------------------------------------------------------------
(* What a store call leaves behind.                                          *)

(* Entry m is e now; a media_file of it that is neither what it was nor the  *)
(* output, and a state that kept says is the copy's, count as reverted.      *)
Stored(m, e) ==
  /\ entry' \in [Media -> Entry] /\ entry'[m] = e
  /\ \A n \in Media \ {m} : entry'[n] = entry[n]
  /\ reverted \subseteq reverted' /\ reverted' \subseteq {"state", "media_file"} \X Media
  /\ \/ <<"media_file", m>> \in reverted'
     \/ e.media_file \in {entry[m].media_file, Output(m)}

LEMMA NothingStored ==
  ASSUME TypeOK, UNCHANGED <<entry, reverted>>
  PROVE  \A m \in Media : Stored(m, entry[m])
  BY DEF TypeOK, Stored

LEMMA PutStores ==
  ASSUME TypeOK, NEW m \in Media, NEW c \in Entry, NEW e \in Entry,
         NEW kept \in SUBSET {"state", "media_file"}, Put(m, c, e, kept),
         \/ e.media_file = Output(m)
         \/ "media_file" \in kept /\ e.media_file = c.media_file
  PROVE  /\ Stored(m, e)
         /\ "state" \in kept /\ c.state # entry[m].state => <<"state", m>> \in reverted'
<1>1. /\ entry' = [entry EXCEPT ![m] = e]
      /\ reverted' = reverted \cup {<<f, m>> : f \in {g \in kept : c[g] # entry[m][g]}}
    BY DEF Put
<1>2. /\ entry' \in [Media -> Entry] /\ entry'[m] = e
      /\ \A n \in Media \ {m} : entry'[n] = entry[n]
    BY <1>1 DEF TypeOK
<1>3. reverted \subseteq reverted' /\ reverted' \subseteq {"state", "media_file"} \X Media
    BY <1>1 DEF TypeOK
<1>4. "state" \in kept /\ c.state # entry[m].state => <<"state", m>> \in reverted'
    BY <1>1
<1>5. "media_file" \in kept /\ c.media_file # entry[m].media_file =>
        <<"media_file", m>> \in reverted'
    BY <1>1
<1>6. \/ <<"media_file", m>> \in reverted'
      \/ e.media_file \in {entry[m].media_file, Output(m)}
    BY <1>5
<1> QED
    BY <1>2, <1>3, <1>4, <1>6 DEF Stored

(* An update is ignored, or changes the state of the copy and, to ready, its *)
(* transcoded_path.                                                          *)
LEMMA UpdateStores ==
  ASSUME TypeOK, NEW m \in Media, NEW c \in Entry,
         NEW new \in {"pending", "transcoding", "ready", "failed", "unavailable"},
         Update(m, c, new)
  PROVE  \E e \in Entry :
           /\ Stored(m, e)
           /\ \/ e = entry[m] /\ ~ Transition(c.state, new)
              \/ /\ Transition(c.state, new)
                 /\ e.state = new /\ e.media_file = c.media_file /\ e.versions = c.versions
                 /\ e.transcoded = IF new = "ready" THEN Output(m) ELSE c.transcoded
<1>1. CASE Transition(c.state, new)
  <2> DEFINE e == Updated(m, c, new)
  <2>1. /\ e.state = new /\ e.media_file = c.media_file /\ e.versions = c.versions
        /\ e.transcoded = (IF new = "ready" THEN Output(m) ELSE c.transcoded)
        /\ e \in Entry
      BY Paths DEF Updated, Entry
  <2>2. Put(m, c, e, {"media_file"})
      BY <1>1 DEF Update
  <2> HIDE DEF e
  <2>3. Stored(m, e)
      BY <2>1, <2>2, PutStores
  <2> QED
      BY <1>1, <2>1, <2>3
<1>2. CASE ~ Transition(c.state, new)
  <2>1. UNCHANGED <<entry, reverted>>
      BY <1>2 DEF Update
  <2>2. Stored(m, entry[m]) /\ entry[m] \in Entry
      BY <2>1, NothingStored, SeenEntry
  <2> QED
      BY <1>2, <2>2
<1> QED
    BY <1>1, <1>2

-----------------------------------------------------------------------------
(* What a step of job j does to the jobs.                                    *)

(* Job j goes on to phase p with copy c, and is otherwise the same.          *)
Moves(j, p, c) ==
  /\ job' \in [Job -> Task \cup {Idle}]
  /\ \A k \in Job \ {j} : job'[k] = job[k]
  /\ job'[j].phase = p /\ job'[j].copy = c
  /\ p # "idle" =>
       /\ job'[j].media = job[j].media /\ job'[j].input = job[j].input
       /\ job'[j].writing = job[j].writing /\ job'[j].stopped = job[j].stopped

LEMMA GoesOnMoves ==
  ASSUME TypeOK, NEW j \in Job, job[j].phase # "idle", NEW p \in Phase \cup {"idle"},
         GoesOn(j, p)
  PROVE  Moves(j, p, NoCopy)
<1> DEFINE t == [job[j] EXCEPT !.phase = p, !.copy = NoCopy]
<1>1. job[j] \in Task
    BY TaskOf
<1>2. CASE p = "idle"
  <2>1. job' = [job EXCEPT ![j] = Idle]
      BY <1>2 DEF GoesOn
  <2>2. Idle.phase = "idle" /\ Idle.copy = NoCopy
      BY DEF Idle
  <2> QED
      BY <1>2, <2>1, <2>2 DEF TypeOK, Moves
<1>3. CASE p # "idle"
  <2>1. /\ t \in Task /\ t.phase = p /\ t.copy = NoCopy
        /\ t.media = job[j].media /\ t.input = job[j].input
        /\ t.writing = job[j].writing /\ t.stopped = job[j].stopped
      BY <1>1, <1>3 DEF Task
  <2>2. job' = [job EXCEPT ![j] = t]
      BY <1>3 DEF GoesOn
  <2> HIDE DEF t
  <2> QED
      BY <1>3, <2>1, <2>2 DEF TypeOK, Moves
<1> QED
    BY <1>2, <1>3

LEMMA ReadMoves ==
  ASSUME TypeOK, NEW j \in Job, job[j].phase # "idle",
         job' = [job EXCEPT ![j].copy = entry[job[j].media]]
  PROVE  Moves(j, job[j].phase, entry[job[j].media])
<1> DEFINE c == entry[job[j].media]
           t == [job[j] EXCEPT !.copy = c]
<1>1. job[j] \in Task /\ c \in Entry
    BY TaskOf, SeenEntry
<1> HIDE DEF c
<1>2. /\ t \in Task /\ t.phase = job[j].phase /\ t.copy = c
      /\ t.media = job[j].media /\ t.input = job[j].input
      /\ t.writing = job[j].writing /\ t.stopped = job[j].stopped
    BY <1>1 DEF Task
<1>3. job' = [job EXCEPT ![j] = t]
    BY DEF c
<1> HIDE DEF t
<1>4. Moves(j, job[j].phase, c)
    BY <1>2, <1>3 DEF TypeOK, Moves
<1> QED
    BY <1>4 DEF c

LEMMA MovesLearnNothing ==
  ASSUME NEW j \in Job, NEW p, NEW c, Moves(j, p, c), job[j].phase # "idle",
         c \in {NoCopy, entry[job[j].media]}
  PROVE  JobsLearnNothing
  BY DEF Moves, JobsLearnNothing

(* Cancelling stops jobs that encode, and does nothing else to any.          *)
LEMMA CancelledJobs ==
  ASSUME TypeOK, NEW J, \A j \in J \cap Job : job[j].phase = "encoding",
         job' = Cancelled(J)
  PROVE  /\ job' \in [Job -> Task \cup {Idle}]
         /\ \A k \in Job \ J : job'[k] = job[k]
         /\ \A k \in Job : /\ job'[k].phase = job[k].phase
                           /\ job'[k].copy = job[k].copy
                           /\ job[k].phase # "idle" =>
                                /\ job'[k].media = job[k].media
                                /\ job'[k].input = job[k].input
                                /\ job'[k].writing = job[k].writing
<1>1. \A k \in Job \ J : job'[k] = job[k]
    BY DEF Cancelled
<1>2. ASSUME NEW k \in Job \cap J
      PROVE  LET t == [job[k] EXCEPT !.stopped = TRUE]
             IN  /\ job'[k] = t /\ t \in Task
                 /\ t.phase = job[k].phase /\ t.media = job[k].media
                 /\ t.input = job[k].input /\ t.writing = job[k].writing
                 /\ t.copy = job[k].copy
  <2>1. job[k] \in Task
      BY TaskOf
  <2>2. job'[k] = [job[k] EXCEPT !.stopped = TRUE]
      BY DEF Cancelled
  <2> QED
      BY <2>1, <2>2 DEF Task
<1>3. \A k \in Job : job'[k] \in Task \cup {Idle}
    BY <1>1, <1>2 DEF TypeOK
<1>4. job' \in [Job -> Task \cup {Idle}]
    BY <1>3 DEF Cancelled
<1>5. ASSUME NEW k \in Job
      PROVE  /\ job'[k].phase = job[k].phase /\ job'[k].copy = job[k].copy
             /\ job[k].phase # "idle" => /\ job'[k].media = job[k].media
                                         /\ job'[k].input = job[k].input
                                         /\ job'[k].writing = job[k].writing
  <2>1. CASE k \in J
      BY <1>2, <2>1
  <2>2. CASE k \notin J
      BY <1>1, <2>2
  <2> QED
      BY <2>1, <2>2
<1> QED
    BY <1>1, <1>4, <1>5

-----------------------------------------------------------------------------
(* The permits.                                                              *)

LEMMA PermitsFinite ==
  ASSUME TypeOK
  PROVE  /\ IsFiniteSet(Permits) /\ Cardinality(Permits) \in Nat
         /\ Cardinality(Permits) <= concurrency /\ concurrency \in Nat
<1>1. IsFiniteSet(Job)
    BY Constants, FS_Interval DEF Job
<1>2. IsFiniteSet(Permits)
    BY <1>1, FS_Subset DEF Permits
<1>3. Cardinality(Permits) <= concurrency /\ concurrency \in Nat
    BY Constants DEF TypeOK, Permits
<1> QED
    BY <1>2, <1>3, FS_CardinalityType

LEMMA FewerPermits ==
  ASSUME TypeOK, UNCHANGED concurrency,
         \A k \in Job : job'[k].phase \notin {"idle", "asked", "spawned", "queued"} =>
           job[k].phase \notin {"idle", "asked", "spawned", "queued"}
  PROVE  Cardinality(Permits') <= concurrency'
<1>1. Permits' \subseteq Permits
    BY DEF Permits, Unfinished
<1> QED
    BY <1>1, PermitsFinite, FS_Subset, FS_CardinalityType

LEMMA NoPermits ==
  ASSUME concurrency' \in Nat,
         \A k \in Job : job'[k].phase \in {"idle", "asked", "spawned", "queued"}
  PROVE  Cardinality(Permits') <= concurrency'
<1>1. Permits' = {}
    BY DEF Permits, Unfinished
<1> QED
    BY <1>1, FS_EmptySet

LEMMA OneMorePermit ==
  ASSUME TypeOK, UNCHANGED concurrency, Cardinality(Permits) < concurrency, NEW j \in Job,
         \A k \in Job \ {j} : job'[k] = job[k]
  PROVE  Cardinality(Permits') <= concurrency'
<1>1. Permits' \subseteq Permits \cup {j}
    BY DEF Permits, Unfinished
<1>2. /\ IsFiniteSet(Permits \cup {j})
      /\ Cardinality(Permits \cup {j}) <= Cardinality(Permits) + 1
  <2>1. IsFiniteSet(Permits) /\ Cardinality(Permits) \in Nat
      BY PermitsFinite
  <2>2. /\ IsFiniteSet(Permits \cup {j})
        /\ Cardinality(Permits \cup {j}) =
             IF j \in Permits THEN Cardinality(Permits) ELSE Cardinality(Permits) + 1
      BY <2>1, FS_AddElement, Zenon
  <2> QED
      BY <2>1, <2>2
<1>3. /\ Cardinality(Permits') <= Cardinality(Permits \cup {j})
      /\ Cardinality(Permits') \in Nat /\ Cardinality(Permits \cup {j}) \in Nat
    BY <1>1, <1>2, FS_Subset, FS_CardinalityType
<1> QED
    BY <1>2, <1>3, PermitsFinite

-----------------------------------------------------------------------------
(* What keeps the parts of Flow.                                             *)

LEMMA ChannelKept ==
  ASSUME TypeOK, ChannelHoldsQueued, UNCHANGED job_rx,
         \A k \in Job : job[k].phase = "queued" => job'[k].phase = "queued"
  PROVE  ChannelHoldsQueued'
<1>1. \A i \in 1 .. Len(job_rx) : job_rx[i] \in Job
    BY DEF TypeOK
<1> QED
    BY <1>1 DEF ChannelHoldsQueued

LEMMA UntouchedKept ==
  ASSUME Untouched,
         \A k \in Job : job'[k].phase \in Early =>
           \/ ~ job'[k].stopped /\ ~ job'[k].writing
           \/ /\ job[k].phase \in Early
              /\ job'[k].stopped = job[k].stopped /\ job'[k].writing = job[k].writing
  PROVE  Untouched'
  BY DEF Untouched

LEMMA TokensKept ==
  ASSUME TypeOK, TokensAreLive, UNCHANGED cancel_tokens,
         \A k \in Job : job[k].phase = "encoding" =>
           /\ job'[k].phase = "encoding" /\ job'[k].media = job[k].media
           /\ job'[k].stopped = job[k].stopped
  PROVE  TokensAreLive'
<1> SUFFICES ASSUME NEW m \in Media, cancel_tokens'[m] # NoJob
             PROVE  LET j == cancel_tokens[m]
                    IN  job'[j].phase = "encoding" /\ job'[j].media = m /\ ~ job'[j].stopped
    BY DEF TokensAreLive
<1>1. cancel_tokens[m] \in Job
    BY DEF TypeOK
<1>2. LET j == cancel_tokens[m]
      IN  job[j].phase = "encoding" /\ job[j].media = m /\ ~ job[j].stopped
    BY DEF TokensAreLive
<1> QED
    BY <1>1, <1>2

(* An entry that is transcoding after a step was so before, and whoever was  *)
(* to end that still is; or there is a job for it now, or a stale copy.      *)
StillEnds(m) ==
  \/ entry'[m].state # "transcoding"
  \/ <<"state", m>> \in reverted'
  \/ \E j \in Job : WillEnd(j, m)'
  \/ /\ entry[m].state = "transcoding"
     /\ \A j \in Job : WillEnd(j, m) => WillEnd(j, m)'
     /\ request["recover"][m].phase \in {"waiting", "asked"} =>
          request'["recover"][m].phase \in {"waiting", "asked"}

LEMMA TranscodingKept ==
  ASSUME TranscodingWillEnd, server = "down" => server' = "down",
         reverted \subseteq reverted', \A m \in Media : StillEnds(m)
  PROVE  TranscodingWillEnd'
<1> SUFFICES ASSUME NEW m \in Media, entry'[m].state = "transcoding",
                    <<"state", m>> \notin reverted', server' # "down",
                    ~ \E j \in Job : WillEnd(j, m)'
             PROVE  request'["recover"][m].phase \in {"waiting", "asked"}
    BY DEF TranscodingWillEnd
<1>1. /\ entry[m].state = "transcoding"
      /\ \A j \in Job : WillEnd(j, m) => WillEnd(j, m)'
      /\ request["recover"][m].phase \in {"waiting", "asked"} =>
           request'["recover"][m].phase \in {"waiting", "asked"}
    BY DEF StillEnds
<1> QED
    BY <1>1 DEF TranscodingWillEnd

-----------------------------------------------------------------------------
(* What keeps the parts of Disk.                                             *)

LEMMA CleanBefore ==
  ASSUME exposed \subseteq exposed'
  PROVE  \A n \in Media : Clean(n)' => Clean(n)
  BY DEF Clean, Same

LEMMA SameClean ==
  \A m, n \in Media : Same(m, n) => Output(m) = Output(n) /\ (Clean(m) <=> Clean(n))
  BY DEF Clean, Same

(* Something known stays knowable while its output does not change.          *)
LEMMA KnowableKept ==
  ASSUME exposed \subseteq exposed', NEW n \in Media, NEW e, Knowable(n, e),
         files'[Output(n)] = files[Output(n)]
  PROVE  Knowable(n, e)'
<1>1. Clean(n)' => Clean(n)
    BY CleanBefore
<1> QED
    BY <1>1 DEF Knowable, Finished

LEMMA KnownAfter ==
  ASSUME TypeOK, AllKnowable, exposed \subseteq exposed',
         JobsLearnNothing, RequestsLearnNothing,
         \A n \in Media : files'[Output(n)] = files[Output(n)],
         \A n \in Media, e \in Entry :
           e = entry'[n] => e \in Seen(n) \/ Knowable(n, e)',
         \A n \in Media : entry'[n] \in Entry
  PROVE  AllKnowable'
<1> SUFFICES ASSUME NEW n \in Media, NEW e \in Seen(n)'
             PROVE  Knowable(n, e)'
    BY DEF AllKnowable
<1>1. CASE e \in Seen(n)
  <2>1. Knowable(n, e)
      BY <1>1 DEF AllKnowable
  <2> QED
      BY <2>1, KnowableKept
<1>2. CASE e \notin Seen(n)
  <2>1. e = entry'[n]
      BY <1>2, SeenAfter
  <2> QED
      BY <1>2, <2>1
<1> QED
    BY <1>1, <1>2

LEMMA WriterKept ==
  ASSUME TypeOK, OneWriter, exposed \subseteq exposed',
         \A k \in Job : Running(k)' => Running(k) /\ job'[k].media = job[k].media
  PROVE  OneWriter'
<1> SUFFICES ASSUME NEW j \in Job, NEW k \in Job, j # k, Running(j)', Running(k)',
                    Same(job[j].media, job[k].media)', Clean(job[j].media)'
             PROVE  FALSE
    BY DEF OneWriter
<1>1. Running(j) /\ Running(k) /\ job'[j].media = job[j].media /\ job'[k].media = job[k].media
    OBVIOUS
<1>2. job[j].media \in Media
    BY <1>1, TaskOf DEF Running, Done
<1>3. Same(job[j].media, job[k].media) /\ Clean(job[j].media)
    BY <1>1 DEF Same, Clean
<1> QED
    BY <1>1, <1>3 DEF OneWriter

(* A running job k gets no further in what it does to its output.            *)
WritesOn(k) ==
  /\ Running(k) /\ job'[k].media = job[k].media /\ job'[k].writing = job[k].writing
  /\ \/ /\ job[k].phase \in {"started", "encoding"}
        /\ job'[k].phase \in {"started", "encoding"}
     \/ job[k].phase \in Done /\ job'[k].phase \in Done

LEMMA OutputKept ==
  ASSUME TypeOK, OutputFollowsJob, exposed \subseteq exposed',
         \A n \in Media : files'[Output(n)] = files[Output(n)],
         \A k \in Job : Running(k)' => WritesOn(k),
         \A k \in Job : job'[k].phase = "repointing" /\ Clean(job'[k].media) =>
           job[k].phase = "repointing" \/ files[Output(job'[k].media)] = "whole"
  PROVE  OutputFollowsJob'
<1> SUFFICES ASSUME NEW j \in Job, Running(j)', Clean(job[j].media)'
             PROVE  LET output == Output(job'[j].media)
                    IN  /\ job'[j].phase \in {"started", "encoding"} =>
                             files'[output] = IF job'[j].writing THEN "partial" ELSE "none"
                        /\ job'[j].phase \in Done => files'[output] \in {"stub", "whole"}
                        /\ job'[j].phase = "repointing" => files'[output] = "whole"
    BY DEF OutputFollowsJob, Finished
<1>1. WritesOn(j)
    OBVIOUS
<1>2. Running(j) /\ job'[j].media = job[j].media /\ job[j].media \in Media
    BY <1>1, TaskOf DEF WritesOn, Running, Done
<1>3. Clean(job[j].media)
    BY <1>2 DEF Clean, Same
<1>4. files'[Output(job[j].media)] = files[Output(job[j].media)]
    BY <1>2
<1>5. "repointing" \in Done /\ {"started", "encoding"} \cap Done = {}
    BY DEF Done
<1> QED
    BY <1>1, <1>2, <1>3, <1>4, <1>5 DEF OutputFollowsJob, WritesOn, Finished

LEMMA UnlinksKept ==
  ASSUME TypeOK, OwnUnlinks, exposed \subseteq exposed', reverted \subseteq reverted',
         \A n \in Media : \/ <<"media_file", n>> \in reverted'
                          \/ entry'[n].media_file \in {entry[n].media_file, Output(n)},
         \A k \in Job : job'[k].phase \in {"repointing", "unlinking"} =>
           /\ job'[k].input = Source(job'[k].media) /\ job'[k].media \in Media
           /\ job'[k].phase = "unlinking" =>
                \/ entry'[job'[k].media].media_file = Output(job'[k].media)
                \/ job[k].phase = "unlinking" /\ job'[k].media = job[k].media,
         \A m \in Media : request'["cleanup"][m].phase = "unlinking" =>
           /\ request'["cleanup"][m].path = Source(m)
           /\ \/ entry'[m].media_file = Output(m)
              \/ request["cleanup"][m].phase = "unlinking",
         \A m \in Media :
           \/ request'["recover"][m].path \in {NoPath, request["recover"][m].path}
           \/ request'["recover"][m].path = Output(m) /\ ~ Clean(m)
  PROVE  OwnUnlinks'
<1>1. ASSUME NEW k \in Job, job'[k].phase = "unlinking"
      PROVE  \/ <<"media_file", job'[k].media>> \in reverted'
             \/ entry'[job'[k].media].media_file = Output(job'[k].media)
  <2>1. CASE job[k].phase = "unlinking" /\ job'[k].media = job[k].media
      BY <1>1, <2>1 DEF OwnUnlinks
  <2>2. CASE entry'[job'[k].media].media_file = Output(job'[k].media)
      BY <2>2
  <2> QED
      BY <1>1, <2>1, <2>2
<1>2. ASSUME NEW m \in Media, request'["cleanup"][m].phase = "unlinking"
      PROVE  \/ <<"media_file", m>> \in reverted'
             \/ entry'[m].media_file = Output(m)
    BY <1>2 DEF OwnUnlinks
<1>3. ASSUME NEW m \in Media, request'["recover"][m].path # NoPath
      PROVE  request'["recover"][m].path = Output(m) /\ ~ Clean(m)'
    BY <1>3, CleanBefore DEF OwnUnlinks
<1> QED
    BY <1>1, <1>2, <1>3 DEF OwnUnlinks

LEMMA SourcesKept ==
  ASSUME TypeOK, SourcesStay, exposed \subseteq exposed', reverted \subseteq reverted',
         \A n \in Media : \/ <<"media_file", n>> \in reverted'
                          \/ entry'[n].media_file \in {entry[n].media_file, Output(n)},
         \A n \in Media : \/ <<"media_file", n>> \in reverted'
                          \/ entry[n].media_file = Output(n)
                          \/ files'[Source(n)] = files[Source(n)]
  PROVE  SourcesStay'
  BY DEF SourcesStay

-----------------------------------------------------------------------------
(* A step that leaves every file as it is, and stores e for entry m, the     *)
(* entry itself if it makes no store call.                                   *)
LEMMA DiskKept ==
  ASSUME TypeOK, Disk, UNCHANGED files, exposed \subseteq exposed',
         JobsLearnNothing, RequestsLearnNothing,
         NEW m \in Media, NEW e \in Entry, Stored(m, e), e \in Seen(m) \/ Knowable(m, e)',
         \A k \in Job : Running(k)' => WritesOn(k),
         \A k \in Job : job'[k].phase = "repointing" /\ Clean(job'[k].media) =>
           job[k].phase = "repointing" \/ files[Output(job'[k].media)] = "whole",
         \A k \in Job : job'[k].phase \in {"repointing", "unlinking"} =>
           /\ job'[k].input = Source(job'[k].media) /\ job'[k].media \in Media
           /\ job'[k].phase = "unlinking" =>
                \/ entry'[job'[k].media].media_file = Output(job'[k].media)
                \/ job[k].phase = "unlinking" /\ job'[k].media = job[k].media,
         \A n \in Media : request'["cleanup"][n].phase = "unlinking" =>
           /\ request'["cleanup"][n].path = Source(n)
           /\ \/ entry'[n].media_file = Output(n)
              \/ request["cleanup"][n].phase = "unlinking",
         \A n \in Media :
           \/ request'["recover"][n].path \in {NoPath, request["recover"][n].path}
           \/ request'["recover"][n].path = Output(n) /\ ~ Clean(n)
  PROVE  Disk'
<1>1. /\ entry' \in [Media -> Entry] /\ reverted \subseteq reverted'
      /\ \A n \in Media : n # m => entry'[n] = entry[n]
      /\ entry'[m] = e
    BY DEF Stored
<1>2. \A n \in Media : \/ <<"media_file", n>> \in reverted'
                       \/ entry'[n].media_file \in {entry[n].media_file, Output(n)}
    BY <1>1 DEF Stored
<1>3. ASSUME NEW n \in Media, NEW x \in Entry, x = entry'[n]
      PROVE  x \in Seen(n) \/ Knowable(n, x)'
  <2>1. CASE n = m
      BY <1>1, <1>3, <2>1
  <2>2. CASE n # m
      BY <1>1, <1>3, <2>2, SeenEntry
  <2> QED
      BY <2>1, <2>2
<1>4. AllKnowable'
  <2>1. \A n \in Media : entry'[n] \in Entry
      BY <1>1
  <2> QED
      BY <1>3, <2>1, KnownAfter DEF Disk
<1>5. OwnUnlinks'
    BY <1>1, <1>2, UnlinksKept DEF Disk
<1>6. OneWriter'
    BY WriterKept DEF Disk, WritesOn
<1>7. OutputFollowsJob'
    BY OutputKept DEF Disk
<1>8. SourcesStay'
    BY <1>1, <1>2, SourcesKept DEF Disk
<1> QED
    BY <1>4, <1>5, <1>6, <1>7, <1>8 DEF Disk

(* Job j goes on to phase p with copy c, on the same side of every change to *)
(* its output.                                                               *)
LEMMA JobDisk ==
  ASSUME TypeOK, Disk, NEW j \in Job, job[j].phase # "idle",
         NEW p, NEW c \in {NoCopy, entry[job[j].media]}, Moves(j, p, c),
         UNCHANGED <<files, request>>, exposed \subseteq exposed',
         NEW m \in Media, NEW e \in Entry, Stored(m, e), e \in Seen(m) \/ Knowable(m, e)',
         p \in {"started", "encoding"} => job[j].phase \in {"started", "encoding"},
         p \in Done => job[j].phase \in Done,
         p = "repointing" => job[j].phase = "repointing",
         p = "unlinking" =>
           /\ job[j].phase = "repointing"
           /\ m = job[j].media /\ e.media_file = Output(m)
  PROVE  Disk'
<1>1. /\ \A k \in Job : k # j => job'[k] = job[k]
      /\ job'[j].phase = p
      /\ p # "idle" => job'[j].media = job[j].media /\ job'[j].input = job[j].input
                       /\ job'[j].writing = job[j].writing
    BY DEF Moves
<1>2. JobsLearnNothing
    BY MovesLearnNothing
<1>3. RequestsLearnNothing
    BY DEF RequestsLearnNothing
<1>4. ASSUME NEW k \in Job, Running(k)'
      PROVE  WritesOn(k)
  <2>1. CASE k = j
    <3>1. p \in {"started", "encoding"} \cup Done /\ p # "idle"
        BY <1>1, <1>4, <2>1 DEF Running, Done
    <3> QED
        BY <1>1, <2>1, <3>1 DEF WritesOn, Running
  <2>2. CASE k # j
      BY <1>1, <1>4, <2>2 DEF WritesOn, Running
  <2> QED
      BY <2>1, <2>2
<1>5. ASSUME NEW k \in Job, job'[k].phase \in {"repointing", "unlinking"}
      PROVE  /\ job'[k].input = Source(job'[k].media) /\ job'[k].media \in Media
             /\ job'[k].phase = "repointing" => job[k].phase = "repointing"
             /\ job'[k].phase = "unlinking" =>
                  \/ entry'[job'[k].media].media_file = Output(job'[k].media)
                  \/ job[k].phase = "unlinking" /\ job'[k].media = job[k].media
  <2>1. CASE k = j
    <3>1. job[j].phase = "repointing" /\ job'[j].media = job[j].media
          /\ job'[j].input = job[j].input
        BY <1>1, <1>5, <2>1
    <3>2. job[j].media \in Media /\ job[j].input = Source(job[j].media)
        BY <3>1, TaskOf DEF Disk, OwnUnlinks
    <3>3. p = "unlinking" => entry'[job'[j].media].media_file = Output(job'[j].media)
        BY <3>1 DEF Stored
    <3> QED
        BY <1>1, <2>1, <3>1, <3>2, <3>3
  <2>2. CASE k # j
      BY <1>1, <1>5, <2>2, TaskOf DEF Disk, OwnUnlinks
  <2> QED
      BY <2>1, <2>2
<1>6. \A n \in Media : request["cleanup"][n].phase = "unlinking" =>
        request["cleanup"][n].path = Source(n)
    BY DEF Disk, OwnUnlinks
<1> QED
    BY <1>2, <1>3, <1>4, <1>5, <1>6, DiskKept

(* It keeps its token or has none, and ends the transcoding of its entry or  *)
(* still will.                                                               *)
LEMMA JobFlow ==
  ASSUME TypeOK, Flow, NEW j \in Job, job[j].phase \notin {"idle", "queued"},
         NEW p, NEW c, Moves(j, p, c),
         UNCHANGED <<job_rx, cancel_tokens, request, server>>,
         job[j].phase = "encoding" <=> p = "encoding",
         p \in Early => job[j].phase \in Early,
         NEW e, Stored(job[j].media, e),
         LET m == job[j].media
         IN  \/ e.state # "transcoding"
             \/ <<"state", m>> \in reverted'
             \/ p \in {"started", "encoding", "subtitled"}
             \/ p \in {"failed", "ended"} /\ (c = NoCopy \/ c.state = "transcoding")
             \/ entry[m].state = "transcoding" /\ ~ WillEnd(j, m)
  PROVE  Flow'
<1> DEFINE m == job[j].media
<1>1. /\ \A k \in Job : k # j => job'[k] = job[k]
      /\ job'[j].phase = p /\ job'[j].copy = c
      /\ p # "idle" => job'[j].media = m /\ job'[j].writing = job[j].writing
                       /\ job'[j].stopped = job[j].stopped
    BY DEF Moves
<1>2. m \in Media
    BY TaskOf
<1>3. ChannelHoldsQueued'
    BY <1>1, ChannelKept DEF Flow
<1>4. Untouched'
  <2>1. p \in Early => p # "idle"
      BY DEF Early
  <2> QED
      BY <1>1, <2>1, UntouchedKept DEF Flow
<1>5. TokensAreLive'
    BY <1>1, TokensKept DEF Flow
<1>6. ASSUME NEW n \in Media
      PROVE  StillEnds(n)
  <2>1. CASE n # m
    <3>1. entry'[n] = entry[n]
        BY <2>1 DEF Stored
    <3>2. \A k \in Job : WillEnd(k, n) => WillEnd(k, n)'
        BY <1>1, <2>1 DEF WillEnd
    <3> QED
        BY <3>1, <3>2 DEF StillEnds
  <2>2. CASE n = m
    <3>1. entry'[n] = e
        BY <2>2 DEF Stored
    <3>2. CASE \/ p \in {"started", "encoding", "subtitled"}
               \/ p \in {"failed", "ended"} /\ (c = NoCopy \/ c.state = "transcoding")
      <4>1. WillEnd(j, n)'
          BY <1>1, <2>2, <3>2 DEF WillEnd
      <4> QED
          BY <4>1 DEF StillEnds
    <3>3. CASE entry[m].state = "transcoding" /\ ~ WillEnd(j, m)
      <4>1. \A k \in Job : WillEnd(k, n) => WillEnd(k, n)'
          BY <1>1, <2>2, <3>3 DEF WillEnd
      <4> QED
          BY <2>2, <3>3, <4>1 DEF StillEnds
    <3> QED
        BY <2>2, <3>1, <3>2, <3>3 DEF StillEnds
  <2> QED
      BY <2>1, <2>2
<1>7. TranscodingWillEnd'
    BY <1>6, TranscodingKept DEF Flow, Stored
<1> QED
    BY <1>3, <1>4, <1>5, <1>7 DEF Flow

(* The step of a job that changes its entry and nothing else.                *)
LEMMA JobKeeps ==
  ASSUME Sound, NEW j \in Job, job[j].phase \notin {"idle", "queued"},
         NEW p, NEW c \in {NoCopy, entry[job[j].media]}, Moves(j, p, c),
         UNCHANGED <<files, job_rx, cancel_tokens, request, serverVars, exposed>>,
         NEW e \in Entry, Stored(job[j].media, e),
         e \in Seen(job[j].media) \/ Knowable(job[j].media, e),
         job[j].phase \in {"asked", "spawned"} => p \in {"asked", "spawned"},
         job[j].phase = "encoding" <=> p = "encoding",
         p \in Early => job[j].phase \in Early,
         p = "started" => job[j].phase = "started",
         p \in Done => job[j].phase \in Done,
         p = "repointing" => job[j].phase = "repointing",
         p = "unlinking" =>
           job[j].phase = "repointing" /\ e.media_file = Output(job[j].media),
         LET m == job[j].media
         IN  \/ e.state # "transcoding"
             \/ <<"state", m>> \in reverted'
             \/ p \in {"started", "encoding", "subtitled"}
             \/ p \in {"failed", "ended"} /\ (c = NoCopy \/ c.state = "transcoding")
             \/ entry[m].state = "transcoding" /\ ~ WillEnd(j, m)
  PROVE  Sound'
<1> TypeOK /\ Flow /\ Disk
    BY DEF Sound
<1> PICK m \in Media : m = job[j].media
    BY TaskOf
<1>1. TypeOK'
  <2>1. \A k \in Job : job'[k].phase \notin {"idle", "asked", "spawned", "queued"} =>
          job[k].phase \notin {"idle", "asked", "spawned", "queued"}
      BY DEF Moves
  <2>2. Cardinality(Permits') <= concurrency'
      BY <2>1, FewerPermits DEF serverVars
  <2>3. job' \in [Job -> Task \cup {Idle}]
      BY DEF Moves
  <2>4. entry' \in [Media -> Entry] /\ reverted' \subseteq {"state", "media_file"} \X Media
      BY DEF Stored
  <2> QED
      BY <2>2, <2>3, <2>4 DEF TypeOK, Permits, serverVars
<1>2. Flow'
    BY JobFlow DEF serverVars
<1>3. Disk'
  <2>1. Knowable(m, e) => Knowable(m, e)'
      BY KnowableKept
  <2>2. p \in {"started", "encoding"} => job[j].phase \in {"started", "encoding"}
      OBVIOUS
  <2> QED
      BY <2>1, <2>2, JobDisk
<1> QED
    BY <1>1, <1>2, <1>3 DEF Sound

-----------------------------------------------------------------------------
(* The jobs: calls of the store.                                             *)

LEMMA CopyKnown ==
  ASSUME TypeOK, Disk, NEW j \in Job, job[j].phase # "idle", job[j].copy # NoCopy
  PROVE  /\ job[j].copy \in Seen(job[j].media) /\ job[j].copy \in Entry
         /\ Knowable(job[j].media, job[j].copy)
<1>1. job[j].copy \in Seen(job[j].media) /\ job[j].media \in Media
    BY SeenCopies, TaskOf
<1> QED
    BY <1>1, SeenEntry DEF Disk, AllKnowable

LEMMA EntryKnown ==
  ASSUME TypeOK, Disk, NEW m \in Media
  PROVE  entry[m] \in Entry /\ entry[m] \in Seen(m) /\ Knowable(m, entry[m])
  BY SeenEntry DEF Disk, AllKnowable

(* An update of what is knowable.                                            *)
LEMMA UpdateKnowable ==
  ASSUME NEW m \in Media, NEW c, Knowable(m, c), NEW e,
         e.media_file = c.media_file, e.versions = c.versions,
         \/ e.transcoded = c.transcoded /\ e.state # "transcoding"
         \/ e.transcoded = Output(m) /\ e.state # "transcoding"
            /\ (Clean(m) => Finished(Output(m)))
         \/ e.transcoded = c.transcoded /\ (Clean(m) => c.transcoded = NoPath)
  PROVE  Knowable(m, e)
  BY DEF Knowable

(* A job's update: the job goes on, the entry is left or knows the new state.*)
LEMMA UpdatesEffect ==
  ASSUME Sound, NEW j \in Job, NEW phase \in Phase, NEW p \in Phase \cup {"idle"},
         NEW new \in {"pending", "transcoding", "ready", "failed", "unavailable"},
         Updates(j, phase, new, p)
  PROVE  /\ job[j].phase = phase /\ phase # "idle" /\ job[j].media \in Media
         /\ Moves(j, p, NoCopy)
         /\ job[j].copy # NoCopy /\ job[j].copy \in Entry
         /\ Knowable(job[j].media, job[j].copy)
         /\ \E e \in Entry :
              /\ Stored(job[j].media, e)
              /\ \/ e = entry[job[j].media] /\ ~ Transition(job[j].copy.state, new)
                 \/ /\ Transition(job[j].copy.state, new)
                    /\ e.state = new /\ e.media_file = job[j].copy.media_file
                    /\ e.versions = job[j].copy.versions
                    /\ e.transcoded = IF new = "ready" THEN Output(job[j].media)
                                      ELSE job[j].copy.transcoded
<1>1. job[j].phase = phase /\ phase # "idle" /\ job[j].copy # NoCopy
    BY DEF Updates, Phase
<1>2. TypeOK /\ Disk
    BY DEF Sound
<1>3. /\ job[j].copy \in Entry /\ Knowable(job[j].media, job[j].copy)
      /\ job[j].media \in Media
    BY <1>1, <1>2, CopyKnown, TaskOf
<1>4. Moves(j, p, NoCopy)
    BY <1>1, <1>2, GoesOnMoves DEF Updates
<1> QED
    BY <1>1, <1>2, <1>3, <1>4, UpdateStores DEF Updates

(* The updates that no file and no exposure goes with.                       *)
LEMMA PlainUpdate ==
  ASSUME Sound, NEW j \in Job, NEW phase \in Phase, NEW p \in Phase \cup {"idle"},
         NEW new \in {"pending", "transcoding", "ready", "failed", "unavailable"},
         Updates(j, phase, new, p),
         UNCHANGED <<files, job_rx, cancel_tokens, request, serverVars, exposed>>,
         \/ phase = "asked" /\ new = "pending" /\ p = "spawned"
         \/ phase = "unavailable" /\ new = "unavailable" /\ p = "idle"
         \/ phase = "encoding" /\ new = "transcoding" /\ p = "encoding"
         \/ phase = "failed" /\ new = "failed" /\ p = "idle"
         \/ phase = "ended" /\ new = "ready" /\ p = "versioned"
  PROVE  Sound'
<1> DEFINE m == job[j].media
           c == job[j].copy
<1> TypeOK /\ Disk
    BY DEF Sound
<1>1. /\ job[j].phase = phase /\ phase # "idle" /\ m \in Media
      /\ Moves(j, p, NoCopy) /\ c # NoCopy /\ c \in Entry /\ Knowable(m, c)
    BY UpdatesEffect
<1> PICK e \in Entry :
       /\ Stored(m, e)
       /\ \/ e = entry[m] /\ ~ Transition(c.state, new)
          \/ /\ Transition(c.state, new)
             /\ e.state = new /\ e.media_file = c.media_file /\ e.versions = c.versions
             /\ e.transcoded = IF new = "ready" THEN Output(m) ELSE c.transcoded
    BY UpdatesEffect
<1>2. new = "ready" /\ Clean(m) => Finished(Output(m))
  <2>1. new = "ready" => Running(j) /\ job[j].phase \in Done
      BY <1>1 DEF Running, Done
  <2> QED
      BY <2>1 DEF Disk, OutputFollowsJob
<1>3. new = "transcoding" /\ Clean(m) => c.transcoded = NoPath
  <2> HAVE new = "transcoding" /\ Clean(m)
  <2>1. Running(j) /\ job[j].phase = "encoding"
      BY <1>1 DEF Running
  <2>2. files[Output(m)] \in {"none", "partial"}
      BY <2>1 DEF Disk, OutputFollowsJob
  <2> QED
      BY <1>1, <2>2 DEF Knowable, Finished
<1>4. e \in Seen(m) \/ Knowable(m, e)
  <2>1. CASE e = entry[m]
      BY <1>1, <2>1, EntryKnown
  <2>2. CASE e # entry[m]
      BY <1>1, <1>2, <1>3, <2>2, UpdateKnowable
  <2> QED
      BY <2>1, <2>2
<1>5. \/ e.state # "transcoding"
      \/ p = "encoding"
      \/ entry[m].state = "transcoding" /\ ~ WillEnd(j, m)
  <2>1. CASE e = entry[m] /\ ~ Transition(c.state, new)
      BY <1>1, <2>1 DEF WillEnd, Transition
  <2>2. CASE e.state = new
      BY <2>2
  <2> QED
      BY <2>1, <2>2
<1>6. /\ phase \in {"asked", "spawned"} => p \in {"asked", "spawned"}
      /\ phase = "encoding" <=> p = "encoding"
      /\ p \in Early => phase \in Early
      /\ p \in Done => phase \in Done
      /\ p \notin {"started", "repointing", "unlinking"} /\ phase # "queued"
    BY DEF Early, Done
<1> HIDE DEF c
<1> QED
    BY <1>1, <1>4, <1>5, <1>6, JobKeeps

LEMMA UpdateSteps ==
  ASSUME Sound, NEW j \in Job,
         \/ SetPending(j) \/ SetUnavailable(j) \/ Progress(j) \/ SetFailed(j) \/ SetReady(j)
  PROVE  Sound'
<1>1. CASE SetPending(j)
    BY <1>1, PlainUpdate DEF SetPending, Phase
<1>2. CASE SetUnavailable(j)
    BY <1>2, PlainUpdate DEF SetUnavailable, Phase
<1>3. CASE Progress(j)
    BY <1>3, PlainUpdate DEF Progress, Phase
<1>4. CASE SetFailed(j)
    BY <1>4, PlainUpdate DEF SetFailed, Phase
<1>5. CASE SetReady(j)
    BY <1>5, PlainUpdate DEF SetReady, Phase
<1> QED
    BY <1>1, <1>2, <1>3, <1>4, <1>5

(* A read: what a last update reads is whether the entry is transcoding.     *)
LEMMA ReadSteps ==
  ASSUME Sound, NEW j \in Job, JobReads(j) \/ ReadsProgress(j)
  PROVE  Sound'
<1> DEFINE m == job[j].media
<1> TypeOK /\ Disk
    BY DEF Sound
<1>1. /\ job' = [job EXCEPT ![j].copy = entry[m]]
      /\ UNCHANGED <<entry, reverted, files, job_rx, cancel_tokens, request, serverVars,
                     exposed>>
      /\ job[j].phase \notin {"idle", "queued"}
      /\ job[j].phase \notin {"repointing", "unlinking"}
    BY DEF JobReads, ReadsProgress
<1>2. Moves(j, job[j].phase, entry[m]) /\ m \in Media
    BY <1>1, ReadMoves, TaskOf
<1>3. Stored(m, entry[m]) /\ entry[m] \in Entry /\ entry[m] \in Seen(m)
    BY <1>1, <1>2, NothingStored, SeenEntry
<1>4. LET c == entry[m]
          p == job[j].phase
      IN  \/ entry[m].state # "transcoding"
          \/ p \in {"started", "encoding", "subtitled"}
          \/ p \in {"failed", "ended"} /\ (c = NoCopy \/ c.state = "transcoding")
          \/ entry[m].state = "transcoding" /\ ~ WillEnd(j, m)
    BY DEF WillEnd
<1> PICK p : p = job[j].phase
    OBVIOUS
<1> QED
    BY <1>1, <1>2, <1>3, <1>4, JobKeeps

(* A put of the whole entry, of which e is the version that is put.          *)
LEMMA PutSteps ==
  ASSUME Sound, NEW j \in Job, StoreDetails(j) \/ AddVersion(j) \/ RepointsEntry(j)
  PROVE  Sound'
<1> DEFINE m == job[j].media
           c == job[j].copy
<1> TypeOK /\ Disk
    BY DEF Sound
<1>1. /\ UNCHANGED <<files, job_rx, cancel_tokens, request, serverVars, exposed>>
      /\ job[j].phase \in {"probed", "subtitled", "coded", "versioned", "repointing"}
      /\ c # NoCopy
    BY DEF StoreDetails, AddVersion, RepointsEntry, Writes
<1>2. m \in Media /\ c \in Entry /\ c \in Seen(m) /\ Knowable(m, c)
    BY <1>1, CopyKnown, TaskOf
<1>3. PICK e \in Entry, p \in Phase \cup {"idle"}, kept \in SUBSET {"state", "media_file"} :
        /\ Put(m, c, e, kept) /\ GoesOn(j, p) /\ Knowable(m, e)
        /\ "state" \in kept /\ e.state = c.state
        /\ \/ e.media_file = Output(m)
           \/ "media_file" \in kept /\ e.media_file = c.media_file
        /\ \/ job[j].phase = "probed" /\ p = "starting"
           \/ job[j].phase = "subtitled" /\ p = "ended"
           \/ job[j].phase = "coded" /\ p \in {"reclaiming", "idle"}
           \/ job[j].phase = "versioned" /\ p = "coded"
           \/ /\ job[j].phase = "repointing" /\ p = "unlinking"
              /\ e.media_file = Output(m)
  <2>1. CASE StoreDetails(j)
    <3>1. PICK p \in {"starting", "ended", "reclaiming", "idle"} :
            /\ CASE job[j].phase = "probed" -> p = "starting"
                 [] job[j].phase = "subtitled" -> p = "ended"
                 [] job[j].phase = "coded" -> p \in {"reclaiming", "idle"}
                 [] OTHER -> FALSE
            /\ Writes(j, c, {"state", "media_file"}, p)
        BY <2>1 DEF StoreDetails
    <3>2. p \in Phase \cup {"idle"}
        BY DEF Phase
    <3>3. \/ job[j].phase = "probed" /\ p = "starting"
          \/ job[j].phase = "subtitled" /\ p = "ended"
          \/ job[j].phase = "coded" /\ p \in {"reclaiming", "idle"}
        BY <3>1
    <3> QED
        BY <1>2, <3>1, <3>2, <3>3 DEF Writes
  <2>2. CASE AddVersion(j)
    <3> DEFINE e == [c EXCEPT !.versions = @ \cup {Output(m)}]
    <3>1. /\ e \in Entry /\ e.state = c.state /\ e.media_file = c.media_file
          /\ e.transcoded = c.transcoded /\ e.versions = c.versions \cup {Output(m)}
        BY <1>2, Paths DEF Entry
    <3>2. Clean(m) => Finished(Output(m))
      <4>1. job[j].phase \in Done /\ Running(j)
          BY <2>2 DEF AddVersion, Done, Running
      <4> QED
          BY <4>1 DEF Disk, OutputFollowsJob
    <3>3. Knowable(m, e)
        BY <1>2, <3>1, <3>2 DEF Knowable
    <3>4. /\ Put(m, c, e, {"state", "media_file"}) /\ GoesOn(j, "coded")
          /\ job[j].phase = "versioned"
        BY <2>2 DEF AddVersion, Writes
    <3> HIDE DEF e
    <3> QED
        BY <3>1, <3>3, <3>4 DEF Phase
  <2>3. CASE RepointsEntry(j)
    <3> DEFINE e == [c EXCEPT !.media_file = Output(m)]
    <3>1. /\ e \in Entry /\ e.state = c.state /\ e.media_file = Output(m)
          /\ e.transcoded = c.transcoded /\ e.versions = c.versions
        BY <1>2, Paths DEF Entry
    <3>2. Clean(m) => files[Output(m)] = "whole"
      <4>1. job[j].phase = "repointing" /\ Running(j)
          BY <2>3 DEF RepointsEntry, Done, Running
      <4> QED
          BY <4>1 DEF Disk, OutputFollowsJob
    <3>3. m \notin exposed => Clean(m)
        BY <1>2 DEF Clean, Same
    <3>4. Knowable(m, e)
        BY <1>2, <3>1, <3>2, <3>3 DEF Knowable
    <3>5. /\ Put(m, c, e, {"state"}) /\ GoesOn(j, "unlinking")
          /\ job[j].phase = "repointing"
        BY <2>3 DEF RepointsEntry, Writes
    <3> HIDE DEF e
    <3> QED
        BY <3>1, <3>4, <3>5 DEF Phase
  <2> QED
      BY <2>1, <2>2, <2>3
<1> HIDE DEF c
<1>4. /\ Stored(m, e)
      /\ c.state # entry[m].state => <<"state", m>> \in reverted'
    BY <1>2, <1>3, PutStores
<1>5. Moves(j, p, NoCopy)
    BY <1>1, <1>3, GoesOnMoves
<1>6. \/ e.state # "transcoding"
      \/ <<"state", m>> \in reverted'
      \/ p = "ended"
      \/ entry[m].state = "transcoding" /\ ~ WillEnd(j, m)
    BY <1>3, <1>4 DEF WillEnd
<1>7. /\ job[j].phase \notin {"asked", "spawned", "idle", "queued", "encoding"}
      /\ p \notin {"encoding", "started", "repointing"}
      /\ p \in Early => job[j].phase \in Early
      /\ p \in Done => job[j].phase \in Done
      /\ p = "unlinking" => job[j].phase = "repointing" /\ e.media_file = Output(m)
    BY <1>3 DEF Early, Done
<1> QED
    BY <1>1, <1>3, <1>4, <1>5, <1>6, <1>7, JobKeeps

-----------------------------------------------------------------------------
(* The jobs: from the request to ffmpeg.                                     *)

LEMMA RequestStep ==
  ASSUME Sound, NEW m \in Media, Request(m)
  PROVE  Sound'
<1> TypeOK /\ Flow /\ Disk
    BY DEF Sound
<1> PICK j \in Job, phase \in {"asked", "spawned"} :
       /\ ~ Unfinished(j)
       /\ job' = [job EXCEPT ![j] = [media |-> m, input |-> entry[m].media_file,
                                     phase |-> phase, writing |-> FALSE,
                                     stopped |-> FALSE, copy |-> NoCopy]]
    BY DEF Request
<1> DEFINE t == [media |-> m, input |-> entry[m].media_file, phase |-> phase,
                 writing |-> FALSE, stopped |-> FALSE, copy |-> NoCopy]
<1>1. /\ t \in Task /\ t.phase = phase /\ ~ t.stopped /\ ~ t.writing
      /\ t.copy = NoCopy
  <2>1. entry[m].media_file \in Path
      BY SeenEntry DEF Entry
  <2> QED
      BY <2>1 DEF Task, Phase
<1> HIDE DEF t
<1>2. /\ job' \in [Job -> Task \cup {Idle}] /\ job'[j] = t
      /\ \A k \in Job : k # j => job'[k] = job[k]
    BY <1>1 DEF TypeOK, t
<1>3. job[j].phase = "idle"
    BY DEF Unfinished
<1>4. /\ UNCHANGED <<entry, files, job_rx, cancel_tokens, request, exposed, reverted>>
      /\ UNCHANGED <<server, ffmpeg, concurrency, crashes>>
      /\ requests < MaxRequests /\ requests' = requests + 1
    BY DEF Request, Asks
<1>5. phase \in Early /\ phase \notin {"idle", "queued", "repointing", "unlinking"}
      /\ phase \notin {"started", "encoding"} \cup Done
    BY DEF Early, Done
<1>6. TypeOK'
  <2>1. Cardinality(Permits') <= concurrency'
      BY <1>1, <1>2, <1>4, FewerPermits
  <2>2. requests' \in 0 .. MaxRequests
      BY <1>4, Constants DEF TypeOK
  <2> QED
      BY <1>2, <1>4, <2>1, <2>2 DEF TypeOK, Permits
<1>7. Flow'
  <2>1. ChannelHoldsQueued'
      BY <1>2, <1>3, <1>4, ChannelKept DEF Flow
  <2>2. Untouched'
      BY <1>1, <1>2, UntouchedKept DEF Flow
  <2>3. TokensAreLive'
      BY <1>2, <1>3, <1>4, TokensKept DEF Flow
  <2>4. TranscodingWillEnd'
    <3>1. \A k \in Job, n \in Media : WillEnd(k, n) => WillEnd(k, n)'
        BY <1>2, <1>3 DEF WillEnd
    <3>2. \A n \in Media : StillEnds(n)
        BY <1>4, <3>1 DEF StillEnds
    <3> QED
        BY <1>4, <3>2, TranscodingKept DEF Flow
  <2> QED
      BY <2>1, <2>2, <2>3, <2>4 DEF Flow
<1>8. Disk'
  <2>1. JobsLearnNothing /\ RequestsLearnNothing
      BY <1>1, <1>2, <1>4 DEF JobsLearnNothing, RequestsLearnNothing
  <2>2. Stored(m, entry[m]) /\ entry[m] \in Entry /\ entry[m] \in Seen(m)
      BY <1>4, NothingStored, EntryKnown
  <2>3. ASSUME NEW k \in Job, Running(k)' PROVE k # j /\ WritesOn(k)
    <3>1. k # j
        BY <1>1, <1>2, <1>5, <2>3 DEF Running
    <3> QED
        BY <1>2, <2>3, <3>1 DEF WritesOn, Running
  <2>4. ASSUME NEW k \in Job, job'[k].phase \in {"repointing", "unlinking"}
        PROVE  /\ job'[k] = job[k] /\ job[k].media \in Media
               /\ job[k].input = Source(job[k].media)
    <3>1. k # j
        BY <1>1, <1>2, <1>5, <2>4
    <3> QED
        BY <1>2, <2>4, <3>1, TaskOf DEF Disk, OwnUnlinks
  <2>5. \A n \in Media : request["cleanup"][n].phase = "unlinking" =>
          request["cleanup"][n].path = Source(n)
      BY DEF Disk, OwnUnlinks
  <2> QED
      BY <1>4, <2>1, <2>2, <2>3, <2>4, <2>5, DiskKept
<1> QED
    BY <1>6, <1>7, <1>8 DEF Sound

(* The parts of a job's step that makes no store call and changes no file.   *)
LEMMA QuietDisk ==
  ASSUME TypeOK, Disk, NEW j \in Job, job[j].phase # "idle",
         NEW p, Moves(j, p, NoCopy),
         UNCHANGED <<entry, reverted, files, request, exposed>>,
         p \in {"started", "encoding"} => job[j].phase \in {"started", "encoding"},
         p \notin Done
  PROVE  Disk'
<1> PICK m \in Media : m = job[j].media
    BY TaskOf
<1>1. Stored(m, entry[m]) /\ entry[m] \in Entry /\ entry[m] \in Seen(m)
    BY NothingStored, EntryKnown
<1>2. p \notin {"repointing", "unlinking"}
    BY DEF Done
<1> QED
    BY <1>1, <1>2, JobDisk

LEMMA QuietTranscoding ==
  ASSUME TypeOK, TranscodingWillEnd, NEW j \in Job, job[j].phase # "idle",
         NEW p, Moves(j, p, NoCopy), UNCHANGED <<entry, reverted, request, server>>,
         job[j].phase \in {"started", "encoding", "failed", "subtitled", "ended"} =>
           p \in {"started", "encoding", "failed", "subtitled", "ended"}
  PROVE  TranscodingWillEnd'
<1>1. \A k \in Job, n \in Media : WillEnd(k, n) => WillEnd(k, n)'
  <2> SUFFICES ASSUME NEW k \in Job, NEW n \in Media, WillEnd(k, n)
               PROVE  WillEnd(k, n)'
      OBVIOUS
  <2>1. CASE k = j
      BY <2>1 DEF WillEnd, Moves
  <2>2. CASE k # j
      BY <2>2 DEF WillEnd, Moves
  <2> QED
      BY <2>1, <2>2
<1>2. \A n \in Media : StillEnds(n)
    BY <1>1 DEF StillEnds
<1> QED
    BY <1>2, TranscodingKept

LEMMA SubmitStep ==
  ASSUME Sound, NEW j \in Job, Submit(j)
  PROVE  Sound'
<1> TypeOK /\ Flow /\ Disk
    BY DEF Sound
<1>1. /\ job[j].phase = "spawned" /\ job_rx' = Append(job_rx, j)
      /\ job' = [job EXCEPT ![j].phase = "queued"]
      /\ UNCHANGED <<entry, files, cancel_tokens, request, serverVars, exposed, reverted>>
    BY DEF Submit
<1>2. /\ job' \in [Job -> Task \cup {Idle}]
      /\ \A k \in Job : k # j => job'[k] = job[k]
      /\ job'[j].phase = "queued" /\ job'[j].copy = job[j].copy
      /\ job'[j].media = job[j].media
      /\ job'[j].writing = job[j].writing /\ job'[j].stopped = job[j].stopped
  <2> DEFINE t == [job[j] EXCEPT !.phase = "queued"]
  <2>1. job[j] \in Task
      BY <1>1, TaskOf
  <2>2. /\ t \in Task /\ t.phase = "queued" /\ t.copy = job[j].copy
        /\ t.media = job[j].media
        /\ t.writing = job[j].writing /\ t.stopped = job[j].stopped
      BY <2>1 DEF Task, Phase
  <2>3. job' = [job EXCEPT ![j] = t]
      BY <1>1
  <2> HIDE DEF t
  <2> QED
      BY <2>2, <2>3 DEF TypeOK
<1>3. job_rx \in Seq(Job) /\ job_rx' \in Seq(Job) /\ Len(job_rx) \in Nat
    BY <1>1 DEF TypeOK
<1>4. TypeOK'
  <2>1. Cardinality(Permits') <= concurrency'
      BY <1>1, <1>2, FewerPermits DEF serverVars
  <2> QED
      BY <1>1, <1>2, <1>3, <2>1 DEF TypeOK, Permits, serverVars
<1>5. ChannelHoldsQueued'
  <2>1. /\ Len(job_rx') = Len(job_rx) + 1 /\ job_rx'[Len(job_rx) + 1] = j
        /\ \A i \in 1 .. Len(job_rx) : job_rx'[i] = job_rx[i]
      BY <1>1, <1>3
  <2>2. \A i \in 1 .. Len(job_rx) : job_rx[i] \in Job /\ job_rx[i] # j
      BY <1>1, <1>3 DEF Flow, ChannelHoldsQueued
  <2>3. \A i \in 1 .. Len(job_rx') : i \in 1 .. Len(job_rx) \/ i = Len(job_rx) + 1
      BY <1>3, <2>1
  <2>4. ASSUME NEW i \in 1 .. Len(job_rx') PROVE job'[job_rx'[i]].phase = "queued"
      BY <1>2, <2>1, <2>2, <2>3 DEF Flow, ChannelHoldsQueued
  <2>5. ASSUME NEW i \in 1 .. Len(job_rx'), NEW k \in 1 .. Len(job_rx'),
               job_rx'[i] = job_rx'[k]
        PROVE  i = k
      BY <2>1, <2>2, <2>3, <2>5 DEF Flow, ChannelHoldsQueued
  <2> QED
      BY <2>4, <2>5 DEF ChannelHoldsQueued
<1>6. Flow'
  <2>1. Untouched'
      BY <1>1, <1>2, UntouchedKept DEF Flow, Early
  <2>2. TokensAreLive'
      BY <1>1, <1>2, TokensKept DEF Flow
  <2>3. TranscodingWillEnd'
    <3>1. \A k \in Job, n \in Media : WillEnd(k, n) => WillEnd(k, n)'
        BY <1>1, <1>2 DEF WillEnd
    <3>2. \A n \in Media : StillEnds(n)
        BY <1>1, <3>1 DEF StillEnds
    <3> QED
        BY <1>1, <3>2, TranscodingKept DEF Flow, serverVars
  <2> QED
      BY <1>5, <2>1, <2>2, <2>3 DEF Flow
<1>7. Disk'
  <2> PICK m \in Media : m = job[j].media
      BY <1>1, TaskOf
  <2>1. JobsLearnNothing /\ RequestsLearnNothing
      BY <1>1, <1>2 DEF JobsLearnNothing, RequestsLearnNothing
  <2>2. Stored(m, entry[m]) /\ entry[m] \in Entry /\ entry[m] \in Seen(m)
      BY <1>1, NothingStored, EntryKnown
  <2>3. ASSUME NEW k \in Job, Running(k)' PROVE k # j /\ WritesOn(k)
    <3>1. k # j
        BY <1>2, <2>3 DEF Running, Done
    <3> QED
        BY <1>2, <2>3, <3>1 DEF WritesOn, Running
  <2>4. ASSUME NEW k \in Job, job'[k].phase \in {"repointing", "unlinking"}
        PROVE  /\ job'[k] = job[k] /\ job[k].media \in Media
               /\ job[k].input = Source(job[k].media)
    <3>1. k # j
        BY <1>2, <2>4
    <3> QED
        BY <1>2, <2>4, <3>1, TaskOf DEF Disk, OwnUnlinks
  <2>5. \A n \in Media : request["cleanup"][n].phase = "unlinking" =>
          request["cleanup"][n].path = Source(n)
      BY DEF Disk, OwnUnlinks
  <2> QED
      BY <1>1, <2>1, <2>2, <2>3, <2>4, <2>5, DiskKept
<1> QED
    BY <1>4, <1>6, <1>7 DEF Sound

LEMMA StartJobStep ==
  ASSUME Sound, NEW j \in Job, StartJob(j)
  PROVE  Sound'
<1> TypeOK /\ Flow /\ Disk
    BY DEF Sound
<1>1. /\ job_rx # <<>> /\ j = Head(job_rx) /\ job_rx' = Tail(job_rx)
      /\ Cardinality(Permits) < concurrency
      /\ UNCHANGED <<entry, files, cancel_tokens, request, serverVars, exposed, reverted>>
    BY DEF StartJob
<1>2. /\ job_rx \in Seq(Job) /\ job_rx' \in Seq(Job) /\ Len(job_rx) \in Nat
      /\ Len(job_rx) >= 1 /\ Len(job_rx') = Len(job_rx) - 1 /\ job_rx[1] = j
      /\ \A i \in 1 .. Len(job_rx') : job_rx'[i] = job_rx[i + 1]
    BY <1>1 DEF TypeOK
<1>3. job[j].phase = "queued"
    BY <1>2 DEF Flow, ChannelHoldsQueued
<1>4. PICK p \in {"probed", "starting", "unavailable"} : Moves(j, p, NoCopy)
  <2>1. PICK p \in {"probed", "starting", "unavailable"} : GoesOn(j, p)
      BY DEF StartJob
  <2> QED
      BY <1>3, <2>1, GoesOnMoves DEF Phase
<1>5. /\ job' \in [Job -> Task \cup {Idle}]
      /\ \A k \in Job : k # j => job'[k] = job[k]
      /\ job'[j].phase = p
      /\ job'[j].writing = job[j].writing /\ job'[j].stopped = job[j].stopped
    BY <1>4 DEF Moves
<1>6. TypeOK'
  <2>1. Cardinality(Permits') <= concurrency'
      BY <1>1, <1>5, OneMorePermit DEF serverVars
  <2> QED
      BY <1>1, <1>2, <1>5, <2>1 DEF TypeOK, Permits, serverVars
<1>7. ChannelHoldsQueued'
  <2>1. \A i \in 1 .. Len(job_rx') : i + 1 \in 1 .. Len(job_rx) /\ i + 1 # 1
      BY <1>2
  <2>2. 1 \in 1 .. Len(job_rx)
      BY <1>2
  <2>3. \A i \in 1 .. Len(job_rx') : job_rx'[i] \in Job /\ job_rx'[i] # j
      BY <1>2, <2>1, <2>2 DEF Flow, ChannelHoldsQueued
  <2>4. ASSUME NEW i \in 1 .. Len(job_rx') PROVE job'[job_rx'[i]].phase = "queued"
      BY <1>2, <1>5, <2>1, <2>3 DEF Flow, ChannelHoldsQueued
  <2>5. ASSUME NEW i \in 1 .. Len(job_rx'), NEW k \in 1 .. Len(job_rx'),
               job_rx'[i] = job_rx'[k]
        PROVE  i = k
    <3>1. i + 1 = k + 1
        BY <1>2, <2>1, <2>5 DEF Flow, ChannelHoldsQueued
    <3> QED
        BY <3>1
  <2> QED
      BY <2>4, <2>5 DEF ChannelHoldsQueued
<1>8. Flow'
  <2>1. Untouched'
      BY <1>3, <1>5, UntouchedKept DEF Flow, Early
  <2>2. TokensAreLive'
      BY <1>1, <1>3, <1>5, TokensKept DEF Flow
  <2>3. TranscodingWillEnd'
      BY <1>1, <1>3, <1>4, QuietTranscoding DEF Flow, serverVars
  <2> QED
      BY <1>7, <2>1, <2>2, <2>3 DEF Flow
<1>9. Disk'
    BY <1>1, <1>3, <1>4, QuietDisk DEF Done
<1> QED
    BY <1>6, <1>8, <1>9 DEF Sound

LEMMA InsertTokenStep ==
  ASSUME Sound, NEW j \in Job, InsertToken(j)
  PROVE  Sound'
<1> DEFINE m == job[j].media
<1> TypeOK /\ Flow /\ Disk
    BY DEF Sound
<1>1. /\ job[j].phase = "started"
      /\ cancel_tokens' = [cancel_tokens EXCEPT ![m] = j]
      /\ UNCHANGED <<entry, files, job_rx, request, serverVars, exposed, reverted>>
    BY DEF InsertToken
<1>2. Moves(j, "encoding", NoCopy) /\ m \in Media
  <2>1. GoesOn(j, "encoding")
      BY DEF InsertToken
  <2> QED
      BY <1>1, <2>1, GoesOnMoves, TaskOf DEF Phase
<1>3. /\ job' \in [Job -> Task \cup {Idle}]
      /\ \A k \in Job : k # j => job'[k] = job[k]
      /\ job'[j].phase = "encoding" /\ job'[j].media = m
      /\ job'[j].stopped = job[j].stopped
    BY <1>2 DEF Moves
<1>4. /\ cancel_tokens' \in [Media -> Job \cup {NoJob}] /\ cancel_tokens'[m] = j
      /\ \A n \in Media : n # m => cancel_tokens'[n] = cancel_tokens[n]
    BY <1>1, <1>2 DEF TypeOK
<1>5. TypeOK'
  <2>1. Cardinality(Permits') <= concurrency'
      BY <1>1, <1>3, FewerPermits DEF serverVars
  <2> QED
      BY <1>1, <1>3, <1>4, <2>1 DEF TypeOK, Permits, serverVars
<1>6. Flow'
  <2>1. ChannelHoldsQueued'
      BY <1>1, <1>3, ChannelKept DEF Flow
  <2>2. Untouched'
      BY <1>3, UntouchedKept DEF Flow, Early
  <2>3. TokensAreLive'
    <3> SUFFICES ASSUME NEW n \in Media, cancel_tokens'[n] # NoJob
                 PROVE  LET k == cancel_tokens'[n]
                        IN  /\ job'[k].phase = "encoding" /\ job'[k].media = n
                            /\ ~ job'[k].stopped
        BY DEF TokensAreLive
    <3>1. CASE n = m
      <4>1. ~ job[j].stopped
          BY <1>1 DEF Flow, Untouched, Early
      <4> QED
          BY <1>3, <1>4, <3>1, <4>1
    <3>2. CASE n # m
      <4>1. cancel_tokens'[n] = cancel_tokens[n] /\ cancel_tokens[n] \in Job
          BY <1>4, <3>2 DEF TypeOK
      <4>2. cancel_tokens[n] # j
          BY <1>1, <4>1 DEF Flow, TokensAreLive
      <4> QED
          BY <1>3, <4>1, <4>2 DEF Flow, TokensAreLive
    <3> QED
        BY <3>1, <3>2
  <2>4. TranscodingWillEnd'
      BY <1>1, <1>2, QuietTranscoding DEF Flow, serverVars
  <2> QED
      BY <2>1, <2>2, <2>3, <2>4 DEF Flow
<1>7. Disk'
    BY <1>1, <1>2, QuietDisk DEF Done
<1> QED
    BY <1>5, <1>6, <1>7 DEF Sound

-----------------------------------------------------------------------------
(* The steps that change a file.                                             *)

(* No task gets to unlink anything.                                          *)
NobodyUnlinks ==
  /\ \A k \in Job : job'[k].phase \in {"repointing", "unlinking"} => job'[k] = job[k]
  /\ \A n \in Media : request'["cleanup"][n].phase = "unlinking" =>
       request'["cleanup"][n] = request["cleanup"][n]
  /\ \A n \in Media : request'["recover"][n].path \in {NoPath, request["recover"][n].path}

LEMMA UnlinksLeft ==
  ASSUME TypeOK, Disk, UNCHANGED <<entry, reverted, exposed>>, NobodyUnlinks
  PROVE  OwnUnlinks'
<1>1. ASSUME NEW k \in Job, job'[k].phase \in {"repointing", "unlinking"}
      PROVE  /\ job'[k] = job[k] /\ job'[k].media \in Media
             /\ job'[k].input = Source(job'[k].media)
    BY <1>1, TaskOf DEF NobodyUnlinks, Disk, OwnUnlinks
<1>2. ASSUME NEW n \in Media, request'["cleanup"][n].phase = "unlinking"
      PROVE  /\ request'["cleanup"][n].path = Source(n)
             /\ request["cleanup"][n].phase = "unlinking"
    BY <1>2 DEF NobodyUnlinks, Disk, OwnUnlinks
<1>3. \A n \in Media : request'["recover"][n].path \in {NoPath, request["recover"][n].path}
    BY DEF NobodyUnlinks
<1> QED
    BY <1>1, <1>2, <1>3, UnlinksKept DEF Disk

(* The output of entry m is opened, written or removed.  While one of its    *)
(* entries is not exposed it was not finished, so nobody knew of it.         *)
LEMMA OutputDisk ==
  ASSUME TypeOK, Disk, NEW m \in Media,
         files' \in [Path -> {"none", "partial", "stub", "whole"}],
         \A p \in Path \ {Output(m)} : files'[p] = files[p],
         UNCHANGED <<entry, reverted, exposed>>,
         JobsLearnNothing, RequestsLearnNothing, NobodyUnlinks,
         Clean(m) => ~ Finished(Output(m)),
         \A k \in Job : Running(k)' => Running(k) /\ job'[k].media = job[k].media,
         \A k \in Job : Running(k)' =>
           \/ WritesOn(k) /\ (Clean(m) => ~ Same(job[k].media, m))
           \/ /\ Same(job[k].media, m)
              /\ \/ ~ Clean(m) /\ WritesOn(k)
                 \/ /\ job'[k].phase = "encoding"
                    /\ files'[Output(m)] = IF job'[k].writing THEN "partial" ELSE "none"
                 \/ job'[k].phase \in {"subtitled", "ended"}
                    /\ (Clean(m) => files'[Output(m)] \in {"stub", "whole"})
  PROVE  Disk'
<1>1. AllKnowable'
  <2> SUFFICES ASSUME NEW n \in Media, NEW e \in Seen(n)'
               PROVE  Knowable(n, e)'
      BY DEF AllKnowable
  <2>1. e \in Seen(n) \/ e = entry'[n]
      BY SeenAfter
  <2>2. Knowable(n, e)
      BY <2>1, EntryKnown DEF Disk, AllKnowable
  <2>3. CASE Output(n) # Output(m)
    <3>1. files'[Output(n)] = files[Output(n)]
        BY <2>3, Paths
    <3> QED
        BY <2>2, <3>1, KnowableKept
  <2>4. CASE Output(n) = Output(m)
    <3>1. (Clean(n)' <=> Clean(n)) /\ (Clean(n) <=> Clean(m))
        BY <2>4 DEF Clean, Same
    <3>2. n \notin exposed => Clean(n)
        BY DEF Clean, Same
    <3> QED
        BY <2>2, <2>4, <3>1, <3>2 DEF Knowable, Finished
  <2> QED
      BY <2>3, <2>4
<1>2. OwnUnlinks'
    BY UnlinksLeft
<1>3. OneWriter'
    BY WriterKept DEF Disk
<1>4. OutputFollowsJob'
  <2> SUFFICES ASSUME NEW j \in Job, Running(j)', Clean(job[j].media)'
               PROVE  LET output == Output(job'[j].media)
                      IN  /\ job'[j].phase \in {"started", "encoding"} =>
                             files'[output] = IF job'[j].writing THEN "partial" ELSE "none"
                          /\ job'[j].phase \in Done => files'[output] \in {"stub", "whole"}
                          /\ job'[j].phase = "repointing" => files'[output] = "whole"
      BY DEF OutputFollowsJob, Finished
  <2>1. Running(j) /\ job'[j].media = job[j].media
      OBVIOUS
  <2> PICK n \in Media : n = job[j].media
      BY <2>1, TaskOf DEF Running, Done
  <2>2. Clean(n)
      BY <2>1 DEF Clean, Same
  <2>3. "repointing" \in Done /\ {"started", "encoding"} \cap Done = {}
        /\ "subtitled" \in Done /\ "ended" \in Done
      BY DEF Done
  <2>4. CASE ~ Same(n, m)
    <3>1. files'[Output(n)] = files[Output(n)]
        BY <2>4, Paths DEF Same
    <3>2. WritesOn(j)
        BY <2>4
    <3>3. job'[j].phase = "repointing" => job[j].phase = "repointing"
        BY DEF NobodyUnlinks
    <3> QED
        BY <2>1, <2>2, <2>3, <3>1, <3>2, <3>3
           DEF Disk, OutputFollowsJob, WritesOn, Finished
  <2>5. CASE Same(n, m)
    <3>1. Clean(m) /\ Output(n) = Output(m)
        BY <2>2, <2>5, SameClean
    <3>2. \/ /\ job'[j].phase = "encoding"
             /\ files'[Output(m)] = IF job'[j].writing THEN "partial" ELSE "none"
          \/ job'[j].phase \in {"subtitled", "ended"}
             /\ files'[Output(m)] \in {"stub", "whole"}
        BY <2>5, <3>1
    <3> QED
        BY <2>1, <2>3, <3>1, <3>2
  <2> QED
      BY <2>4, <2>5
<1>5. SourcesStay'
  <2>1. \A n \in Media : files'[Source(n)] = files[Source(n)]
      BY Paths
  <2>2. UNCHANGED entry /\ SourcesStay
      BY DEF Disk
  <2> QED
      BY <2>1, <2>2 DEF SourcesStay
<1> QED
    BY <1>1, <1>2, <1>3, <1>4, <1>5 DEF Disk

(* The source of entry m, which it no longer plays, is removed.              *)
LEMMA SourceDisk ==
  ASSUME TypeOK, Disk, NEW m \in Media,
         files' \in [Path -> {"none", "partial", "stub", "whole"}],
         \A p \in Path \ {Source(m)} : files'[p] = files[p],
         <<"media_file", m>> \in reverted \/ entry[m].media_file = Output(m),
         UNCHANGED <<entry, reverted, exposed>>,
         JobsLearnNothing, RequestsLearnNothing, NobodyUnlinks,
         \A k \in Job : Running(k)' => WritesOn(k)
  PROVE  Disk'
<1>0. \A n \in Media : files'[Output(n)] = files[Output(n)]
    BY Paths
<1>1. AllKnowable'
    BY <1>0, EntryKnown, KnownAfter DEF Disk
<1>2. OwnUnlinks'
    BY UnlinksLeft
<1>3. OneWriter'
    BY WriterKept DEF Disk, WritesOn
<1>4. OutputFollowsJob'
  <2>1. \A k \in Job : job'[k].phase = "repointing" => job[k].phase = "repointing"
      BY DEF NobodyUnlinks
  <2> QED
      BY <1>0, <2>1, OutputKept DEF Disk
<1>5. SourcesStay'
  <2>1. \A n \in Media : n # m => files'[Source(n)] = files[Source(n)]
      BY Paths
  <2> QED
      BY <2>1, SourcesKept DEF Disk
<1> QED
    BY <1>1, <1>2, <1>3, <1>4, <1>5 DEF Disk

(* What an encoding job finds at its output.                                 *)
LEMMA EncodingOutput ==
  ASSUME TypeOK, Disk, NEW j \in Job, job[j].phase = "encoding"
  PROVE  LET m == job[j].media
         IN  /\ m \in Media /\ Running(j)
             /\ Clean(m) =>
                  /\ files[Output(m)] = IF job[j].writing THEN "partial" ELSE "none"
                  /\ ~ Finished(Output(m))
                  /\ \A k \in Job : k # j /\ Running(k) => ~ Same(job[k].media, m)
<1>1. job[j].media \in Media /\ Running(j)
    BY TaskOf DEF Running
<1>2. Clean(job[j].media) =>
        files[Output(job[j].media)] = IF job[j].writing THEN "partial" ELSE "none"
    BY <1>1 DEF Disk, OutputFollowsJob
<1>3. ASSUME NEW k \in Job, k # j, Running(k), Same(job[k].media, job[j].media)
      PROVE  ~ Clean(job[j].media)
  <2>1. Same(job[j].media, job[k].media)
      BY <1>3 DEF Same
  <2> QED
      BY <1>1, <1>3, <2>1 DEF Disk, OneWriter
<1> QED
    BY <1>1, <1>2, <1>3 DEF Finished

LEMMA FfmpegOpensStep ==
  ASSUME Sound, NEW j \in Job, FfmpegOpens(j)
  PROVE  Sound'
<1> DEFINE m == job[j].media
<1> TypeOK /\ Flow /\ Disk
    BY DEF Sound
<1>1. /\ job[j].phase = "encoding"
      /\ files' = [files EXCEPT ![Output(m)] = "partial"]
      /\ job' = [job EXCEPT ![j].writing = TRUE]
      /\ UNCHANGED <<entry, job_rx, cancel_tokens, request, serverVars, exposed, reverted>>
    BY DEF FfmpegOpens
<1>2. /\ m \in Media /\ Running(j)
      /\ Clean(m) => /\ ~ Finished(Output(m))
                     /\ \A k \in Job : k # j /\ Running(k) => ~ Same(job[k].media, m)
    BY <1>1, EncodingOutput
<1>3. /\ job' \in [Job -> Task \cup {Idle}]
      /\ \A k \in Job : k # j => job'[k] = job[k]
      /\ job'[j].phase = "encoding" /\ job'[j].copy = job[j].copy
      /\ job'[j].media = m /\ job'[j].stopped = job[j].stopped /\ job'[j].writing
  <2> DEFINE t == [job[j] EXCEPT !.writing = TRUE]
  <2>1. job[j] \in Task
      BY <1>1, TaskOf
  <2>2. /\ t \in Task /\ t.phase = "encoding" /\ t.copy = job[j].copy
        /\ t.media = m /\ t.stopped = job[j].stopped /\ t.writing = TRUE
      BY <1>1, <2>1 DEF Task
  <2>3. job' = [job EXCEPT ![j] = t]
      BY <1>1
  <2> HIDE DEF t
  <2> QED
      BY <2>2, <2>3 DEF TypeOK
<1>4. /\ files' \in [Path -> {"none", "partial", "stub", "whole"}]
      /\ files'[Output(m)] = "partial"
      /\ \A p \in Path \ {Output(m)} : files'[p] = files[p]
    BY <1>1, <1>2, Paths DEF TypeOK
<1>5. TypeOK'
  <2>1. Cardinality(Permits') <= concurrency'
      BY <1>1, <1>3, FewerPermits DEF serverVars
  <2> QED
      BY <1>1, <1>3, <1>4, <2>1 DEF TypeOK, Permits, serverVars
<1>6. Flow'
  <2>1. ChannelHoldsQueued'
      BY <1>1, <1>3, ChannelKept DEF Flow
  <2>2. Untouched'
      BY <1>3, UntouchedKept DEF Flow, Early
  <2>3. TokensAreLive'
      BY <1>1, <1>3, TokensKept DEF Flow
  <2>4. TranscodingWillEnd'
    <3>1. \A k \in Job, n \in Media : WillEnd(k, n) => WillEnd(k, n)'
        BY <1>1, <1>3 DEF WillEnd
    <3>2. \A n \in Media : StillEnds(n)
        BY <1>1, <3>1 DEF StillEnds
    <3> QED
        BY <1>1, <3>2, TranscodingKept DEF Flow, serverVars
  <2> QED
      BY <2>1, <2>2, <2>3, <2>4 DEF Flow
<1>7. Disk'
  <2>1. JobsLearnNothing /\ RequestsLearnNothing
      BY <1>1, <1>3 DEF JobsLearnNothing, RequestsLearnNothing
  <2>2. NobodyUnlinks
      BY <1>1, <1>3 DEF NobodyUnlinks
  <2>3. ASSUME NEW k \in Job, Running(k)'
        PROVE  /\ Running(k) /\ job'[k].media = job[k].media
               /\ k # j => WritesOn(k)
    BY <1>2, <1>3, <2>3 DEF Running, WritesOn
  <2>4. Same(job[j].media, m)
      BY DEF Same
  <2> HIDE DEF m
  <2>5. ASSUME NEW k \in Job, Running(k)'
        PROVE  \/ WritesOn(k) /\ (Clean(m) => ~ Same(job[k].media, m))
               \/ /\ Same(job[k].media, m)
                  /\ \/ ~ Clean(m) /\ WritesOn(k)
                     \/ /\ job'[k].phase = "encoding"
                        /\ files'[Output(m)] = IF job'[k].writing THEN "partial" ELSE "none"
    <3>1. CASE k = j
        BY <1>3, <1>4, <2>4, <3>1
    <3>2. CASE k # j
        BY <1>2, <2>3, <2>5, <3>2
    <3> QED
        BY <3>1, <3>2
  <2> QED
      BY <1>1, <1>2, <1>4, <2>1, <2>2, <2>3, <2>5, OutputDisk
<1> QED
    BY <1>5, <1>6, <1>7 DEF Sound

(* A job that no longer encodes has taken its entry's token away.            *)
LEMMA TokenGone ==
  ASSUME TypeOK, Flow, NEW j \in Job, job[j].phase = "encoding",
         NEW p, Moves(j, p, NoCopy), p # "encoding", cancel_tokens' = TokenRemoved(j)
  PROVE  /\ cancel_tokens' \in [Media -> Job \cup {NoJob}]
         /\ TokensAreLive'
<1> DEFINE m == job[j].media
<1>0. m \in Media
    BY TaskOf
<1>1. /\ cancel_tokens' \in [Media -> Job \cup {NoJob}] /\ cancel_tokens'[m] = NoJob
      /\ \A n \in Media : n # m => cancel_tokens'[n] = cancel_tokens[n]
    BY <1>0 DEF TokenRemoved, TypeOK
<1>2. TokensAreLive'
  <2> SUFFICES ASSUME NEW n \in Media, cancel_tokens'[n] # NoJob
               PROVE  LET k == cancel_tokens'[n]
                      IN  /\ job'[k].phase = "encoding" /\ job'[k].media = n
                          /\ ~ job'[k].stopped
      BY DEF TokensAreLive
  <2>1. n # m
      BY <1>1
  <2>2. cancel_tokens'[n] = cancel_tokens[n] /\ cancel_tokens[n] \in Job
      BY <1>1, <2>1 DEF TypeOK
  <2>3. LET k == cancel_tokens[n]
        IN  job[k].phase = "encoding" /\ job[k].media = n /\ ~ job[k].stopped
      BY <2>2 DEF Flow, TokensAreLive
  <2>4. cancel_tokens[n] # j
      BY <2>1, <2>3
  <2> QED
      BY <2>2, <2>3, <2>4 DEF Moves
<1> QED
    BY <1>1, <1>2

LEMMA FfmpegEndsStep ==
  ASSUME Sound, NEW j \in Job, FfmpegEnds(j)
  PROVE  Sound'
<1> DEFINE m == job[j].media
<1> TypeOK /\ Flow /\ Disk
    BY DEF Sound
<1>1. /\ job[j].phase = "encoding" /\ cancel_tokens' = TokenRemoved(j)
      /\ UNCHANGED <<entry, job_rx, request, serverVars, exposed, reverted>>
    BY DEF FfmpegEnds, FfmpegSucceeds, FfmpegFails
<1>2. /\ m \in Media /\ Running(j)
      /\ Clean(m) => /\ files[Output(m)] = IF job[j].writing THEN "partial" ELSE "none"
                     /\ ~ Finished(Output(m))
                     /\ \A k \in Job : k # j /\ Running(k) => ~ Same(job[k].media, m)
    BY <1>1, EncodingOutput
<1>3. PICK p \in {"subtitled", "ended", "failed"} :
        /\ Moves(j, p, NoCopy)
        /\ files' \in [Path -> {"none", "partial", "stub", "whole"}]
        /\ \A q \in Path \ {Output(m)} : files'[q] = files[q]
        /\ p # "failed" /\ Clean(m) => files'[Output(m)] \in {"stub", "whole"}
  <2>1. CASE FfmpegSucceeds(j)
    <3>1. PICK phase \in {"subtitled", "ended"} : GoesOn(j, phase)
        BY <2>1 DEF FfmpegSucceeds
    <3>2. Moves(j, phase, NoCopy)
        BY <1>1, <3>1, GoesOnMoves DEF Phase
    <3>3. PICK size \in {"stub", "whole"} :
            files' = [files EXCEPT ![Output(m)] = IF @ = "none" THEN @ ELSE size]
        BY <2>1 DEF FfmpegSucceeds
    <3>4. job[j].writing
        BY <2>1 DEF FfmpegSucceeds
    <3>5. /\ files' \in [Path -> {"none", "partial", "stub", "whole"}]
          /\ \A q \in Path \ {Output(m)} : files'[q] = files[q]
          /\ files[Output(m)] # "none" => files'[Output(m)] = size
        BY <1>2, <3>3, Paths DEF TypeOK
    <3>6. Clean(m) => files[Output(m)] = "partial"
        BY <1>2, <3>4
    <3> QED
        BY <3>2, <3>5, <3>6
  <2>2. CASE FfmpegFails(j)
    <3>1. GoesOn(j, "failed") /\ files' = [files EXCEPT ![Output(m)] = "none"]
        BY <2>2 DEF FfmpegFails
    <3>2. Moves(j, "failed", NoCopy)
        BY <1>1, <3>1, GoesOnMoves DEF Phase
    <3>3. /\ files' \in [Path -> {"none", "partial", "stub", "whole"}]
          /\ \A q \in Path \ {Output(m)} : files'[q] = files[q]
        BY <1>2, <3>1, Paths DEF TypeOK
    <3> QED
        BY <3>2, <3>3
  <2> QED
      BY <2>1, <2>2 DEF FfmpegEnds
<1>4. /\ job' \in [Job -> Task \cup {Idle}]
      /\ \A k \in Job : k # j => job'[k] = job[k]
      /\ job'[j].phase = p /\ job'[j].copy = NoCopy /\ job'[j].media = m
    BY <1>3 DEF Moves
<1>5. cancel_tokens' \in [Media -> Job \cup {NoJob}] /\ TokensAreLive'
    BY <1>1, <1>3, TokenGone
<1>6. TypeOK'
  <2>1. Cardinality(Permits') <= concurrency'
      BY <1>1, <1>4, FewerPermits DEF serverVars
  <2> QED
      BY <1>1, <1>3, <1>4, <1>5, <2>1 DEF TypeOK, Permits, serverVars
<1>7. Flow'
  <2>1. ChannelHoldsQueued'
      BY <1>1, <1>4, ChannelKept DEF Flow
  <2>2. Untouched'
      BY <1>4, UntouchedKept DEF Flow, Early
  <2>3. TranscodingWillEnd'
      BY <1>1, <1>3, QuietTranscoding DEF Flow, serverVars
  <2> QED
      BY <1>5, <2>1, <2>2, <2>3 DEF Flow
<1>8. Disk'
  <2>1. JobsLearnNothing /\ RequestsLearnNothing
      BY <1>1, <1>4 DEF JobsLearnNothing, RequestsLearnNothing
  <2>2. NobodyUnlinks
      BY <1>1, <1>4 DEF NobodyUnlinks
  <2>3. ASSUME NEW k \in Job, Running(k)'
        PROVE  /\ Running(k) /\ job'[k].media = job[k].media
               /\ k # j => WritesOn(k)
               /\ k = j => p # "failed"
    BY <1>2, <1>4, <2>3 DEF Running, WritesOn, Done
  <2>4. Same(job[j].media, m)
      BY DEF Same
  <2> HIDE DEF m
  <2>5. ASSUME NEW k \in Job, Running(k)'
        PROVE  \/ WritesOn(k) /\ (Clean(m) => ~ Same(job[k].media, m))
               \/ /\ Same(job[k].media, m)
                  /\ \/ ~ Clean(m) /\ WritesOn(k)
                     \/ job'[k].phase \in {"subtitled", "ended"}
                        /\ (Clean(m) => files'[Output(m)] \in {"stub", "whole"})
    <3>1. CASE k = j
        BY <1>3, <1>4, <2>3, <2>4, <2>5, <3>1
    <3>2. CASE k # j
        BY <1>2, <2>3, <2>5, <3>2
    <3> QED
        BY <3>1, <3>2
  <2> QED
      BY <1>1, <1>2, <1>3, <2>1, <2>2, <2>3, <2>5, OutputDisk
<1> QED
    BY <1>6, <1>7, <1>8 DEF Sound

LEMMA UnlinkSourceStep ==
  ASSUME Sound, NEW j \in Job, UnlinkSource(j)
  PROVE  Sound'
<1> DEFINE m == job[j].media
<1> TypeOK /\ Flow /\ Disk
    BY DEF Sound
<1>1. /\ job[j].phase = "unlinking"
      /\ files' = [files EXCEPT ![job[j].input] = "none"]
      /\ UNCHANGED <<entry, job_rx, cancel_tokens, request, serverVars, exposed, reverted>>
    BY DEF UnlinkSource
<1>2. Moves(j, "idle", NoCopy) /\ m \in Media
  <2>1. GoesOn(j, "idle")
      BY DEF UnlinkSource
  <2> QED
      BY <1>1, <2>1, GoesOnMoves, TaskOf
<1>3. /\ job[j].input = Source(m)
      /\ <<"media_file", m>> \in reverted \/ entry[m].media_file = Output(m)
    BY <1>1 DEF Disk, OwnUnlinks
<1>4. /\ files' \in [Path -> {"none", "partial", "stub", "whole"}]
      /\ \A p \in Path \ {Source(m)} : files'[p] = files[p]
    BY <1>1, <1>2, <1>3, Paths DEF TypeOK
<1>5. /\ job' \in [Job -> Task \cup {Idle}]
      /\ \A k \in Job : k # j => job'[k] = job[k]
      /\ job'[j].phase = "idle"
    BY <1>2 DEF Moves
<1>6. TypeOK'
  <2>1. Cardinality(Permits') <= concurrency'
      BY <1>1, <1>5, FewerPermits DEF serverVars
  <2> QED
      BY <1>1, <1>4, <1>5, <2>1 DEF TypeOK, Permits, serverVars
<1>7. Flow'
  <2>1. ChannelHoldsQueued'
      BY <1>1, <1>5, ChannelKept DEF Flow
  <2>2. Untouched'
      BY <1>5, UntouchedKept DEF Flow, Early
  <2>3. TokensAreLive'
      BY <1>1, <1>5, TokensKept DEF Flow
  <2>4. TranscodingWillEnd'
      BY <1>1, <1>2, QuietTranscoding DEF Flow, serverVars
  <2> QED
      BY <2>1, <2>2, <2>3, <2>4 DEF Flow
<1>8. Disk'
  <2>1. JobsLearnNothing /\ RequestsLearnNothing
      BY <1>1, <1>5 DEF JobsLearnNothing, RequestsLearnNothing
  <2>2. NobodyUnlinks
      BY <1>1, <1>5 DEF NobodyUnlinks
  <2>3. ASSUME NEW k \in Job, Running(k)' PROVE WritesOn(k)
    <3>1. k # j
        BY <1>5, <2>3 DEF Running, Done
    <3> QED
        BY <1>5, <2>3, <3>1 DEF WritesOn, Running
  <2> HIDE DEF m
  <2> QED
      BY <1>1, <1>2, <1>3, <1>4, <2>1, <2>2, <2>3, SourceDisk
<1> QED
    BY <1>6, <1>7, <1>8 DEF Sound

-----------------------------------------------------------------------------
(* The steps that look at a file.                                            *)

(* If an entry of the title is still not exposed by the start of job j, then *)
(* nothing is at the output and nobody is to write it.                       *)
LEMMA NothingThere ==
  ASSUME NEW j \in Job, exposed' = exposed \cup Exposes(j), Clean(job[j].media)'
  PROVE  LET m == job'[j].media
         IN  job[j].media = m =>
               /\ Clean(m) /\ files[Output(m)] = "none"
               /\ \A k \in Job : job[k].phase \in {"started", "encoding"} =>
                    ~ Same(job[k].media, m)
  BY DEF Clean, Same, Exposes

LEMMA SetTranscodingStep ==
  ASSUME Sound, NEW j \in Job, SetTranscoding(j)
  PROVE  Sound'
<1> DEFINE c == job[j].copy
<1> TypeOK /\ Flow /\ Disk
    BY DEF Sound
<1>1. /\ exposed' = exposed \cup Exposes(j)
      /\ UNCHANGED <<files, job_rx, cancel_tokens, request, serverVars>>
      /\ Updates(j, "starting", "transcoding", "started")
    BY DEF SetTranscoding
<1> PICK m \in Media : m = job[j].media
    BY <1>1, TaskOf DEF Updates
<1>2. /\ job[j].phase = "starting"
      /\ Moves(j, "started", NoCopy) /\ Knowable(m, c) /\ c \in Entry
    BY <1>1, UpdatesEffect DEF Phase
<1> PICK e \in Entry :
       /\ Stored(m, e)
       /\ e.media_file = c.media_file /\ e.versions = c.versions
       /\ e.transcoded = c.transcoded
  <2>1. \A old : Transition(old, "transcoding")
      BY DEF Transition
  <2> QED
      BY <1>1, <2>1, UpdatesEffect DEF Phase
<1>3. /\ job' \in [Job -> Task \cup {Idle}]
      /\ \A k \in Job : k # j => job'[k] = job[k]
      /\ job'[j].phase = "started" /\ job'[j].copy = NoCopy
      /\ job'[j].media = m /\ job'[j].writing = job[j].writing
    BY <1>2 DEF Moves
<1>4. exposed \subseteq exposed' /\ exposed' \subseteq Media
    BY <1>1 DEF Exposes, TypeOK
<1>5. ASSUME Clean(m)'
      PROVE  /\ Clean(m) /\ files[Output(m)] = "none"
             /\ \A k \in Job : job[k].phase \in {"started", "encoding"} =>
                  ~ Same(job[k].media, m)
  <2>1. Clean(job[j].media)'
      BY <1>3, <1>5 DEF Clean, Same
  <2> QED
      BY <1>1, <1>3, <2>1, NothingThere
<1>6. Knowable(m, e)'
  <2>1. m \notin exposed' => m \notin exposed
      BY <1>4
  <2>2. Clean(m)' => e.versions = {} /\ e.transcoded = NoPath
      BY <1>2, <1>5 DEF Knowable, Finished
  <2> QED
      BY <1>1, <1>2, <2>1, <2>2 DEF Knowable
<1>7. TypeOK'
  <2>1. Cardinality(Permits') <= concurrency'
      BY <1>1, <1>2, <1>3, FewerPermits DEF serverVars
  <2> QED
      BY <1>1, <1>3, <1>4, <2>1 DEF TypeOK, Permits, serverVars, Stored
<1>8. Flow'
    BY <1>1, <1>2, JobFlow DEF serverVars, Early
<1>9. JobsLearnNothing /\ RequestsLearnNothing
    BY <1>1, <1>2, MovesLearnNothing DEF RequestsLearnNothing
<1>10. /\ entry' \in [Media -> Entry] /\ reverted \subseteq reverted'
       /\ \A n \in Media : \/ <<"media_file", n>> \in reverted'
                           \/ entry'[n].media_file \in {entry[n].media_file, Output(n)}
       /\ \A n \in Media, x \in Entry :
            x = entry'[n] => x \in Seen(n) \/ Knowable(n, x)'
  <2>1. entry'[m] = e /\ \A n \in Media : n # m => entry'[n] = entry[n]
      BY DEF Stored
  <2>2. ASSUME NEW n \in Media
        PROVE  \/ <<"media_file", n>> \in reverted'
               \/ entry'[n].media_file \in {entry[n].media_file, Output(n)}
      BY <2>1 DEF Stored
  <2>3. ASSUME NEW n \in Media, NEW x \in Entry, x = entry'[n]
        PROVE  x \in Seen(n) \/ Knowable(n, x)'
    <3>1. CASE n = m
        BY <1>6, <2>1, <2>3, <3>1
    <3>2. CASE n # m
        BY <2>1, <2>3, <3>2, SeenEntry
    <3> QED
        BY <3>1, <3>2
  <2> QED
      BY <2>2, <2>3 DEF Stored
<1>11. AllKnowable'
  <2>1. \A n \in Media : entry'[n] \in Entry
      BY <1>10
  <2>2. UNCHANGED files
      BY <1>1
  <2> QED
      BY <1>4, <1>9, <1>10, <2>1, <2>2, KnownAfter DEF Disk
<1>12. OwnUnlinks'
  <2>1. ASSUME NEW k \in Job, job'[k].phase \in {"repointing", "unlinking"}
        PROVE  /\ job'[k] = job[k] /\ job'[k].media \in Media
               /\ job'[k].input = Source(job'[k].media)
    <3>1. k # j
        BY <1>3, <2>1
    <3> QED
        BY <1>3, <2>1, <3>1, TaskOf DEF Disk, OwnUnlinks
  <2>2. \A n \in Media : request["cleanup"][n].phase = "unlinking" =>
          request["cleanup"][n].path = Source(n)
      BY DEF Disk, OwnUnlinks
  <2> QED
      BY <1>1, <1>4, <1>10, <2>1, <2>2, UnlinksKept DEF Disk
<1>13. ASSUME NEW k \in Job, Running(k)', k # j
       PROVE  /\ Running(k) /\ job'[k] = job[k] /\ job[k].media \in Media
              /\ WritesOn(k)
  <2>1. Running(k) /\ job'[k] = job[k]
      BY <1>3, <1>13 DEF Running
  <2> QED
      BY <2>1, TaskOf DEF Running, Done, WritesOn
<1>14. ASSUME NEW k \in Job, Running(k)', k # j, Same(job[k].media, m)
       PROVE  ~ Clean(m)'
  <2> SUFFICES ASSUME Clean(m)' PROVE FALSE
      OBVIOUS
  <2>1. Clean(m) /\ files[Output(m)] = "none" /\ job[k].phase \notin {"started", "encoding"}
      BY <1>5, <1>14
  <2>2. Running(k) /\ job[k].media \in Media
      BY <1>13, <1>14
  <2>3. Clean(job[k].media) /\ Output(job[k].media) = Output(m) /\ job[k].phase \in Done
      BY <1>2, <1>14, <2>1, <2>2, SameClean DEF Running
  <2> QED
      BY <2>1, <2>2, <2>3 DEF Disk, OutputFollowsJob, Finished
<1>15. OneWriter'
  <2> SUFFICES ASSUME NEW a \in Job, NEW b \in Job, a # b, Running(a)', Running(b)',
                      Same(job[a].media, job[b].media)', Clean(job[a].media)'
               PROVE  FALSE
      BY DEF OneWriter
  <2>1. CASE a = j
    <3>1. Same(job[b].media, m) /\ Clean(m)'
        BY <1>3, <2>1 DEF Same, Clean
    <3> QED
        BY <1>14, <2>1, <3>1
  <2>2. CASE b = j
    <3>1. Same(job[a].media, m) /\ Clean(m)'
        BY <1>3, <2>2 DEF Same, Clean
    <3> QED
        BY <1>14, <2>2, <3>1
  <2>3. CASE a # j /\ b # j
    <3>1. /\ Running(a) /\ Running(b) /\ job'[a] = job[a] /\ job'[b] = job[b]
          /\ job[a].media \in Media
        BY <1>13, <2>3
    <3>2. Same(job[a].media, job[b].media)
        BY <3>1 DEF Same
    <3>3. Clean(job[a].media)
        BY <1>4, <3>1 DEF Clean, Same
    <3> QED
        BY <3>1, <3>2, <3>3 DEF Disk, OneWriter
  <2> QED
      BY <2>1, <2>2, <2>3
<1>16. OutputFollowsJob'
  <2> SUFFICES ASSUME NEW k \in Job, Running(k)', Clean(job[k].media)'
               PROVE  LET output == Output(job'[k].media)
                      IN  /\ job'[k].phase \in {"started", "encoding"} =>
                             files'[output] = IF job'[k].writing THEN "partial" ELSE "none"
                          /\ job'[k].phase \in Done => files'[output] \in {"stub", "whole"}
                          /\ job'[k].phase = "repointing" => files'[output] = "whole"
      BY DEF OutputFollowsJob, Finished
  <2>0. UNCHANGED files
      BY <1>1
  <2>1. CASE k = j
    <3>1. Clean(m)'
        BY <1>3, <2>1 DEF Clean, Same
    <3>2. ~ job[j].writing
        BY <1>2 DEF Flow, Untouched, Early
    <3>3. job'[j].phase \notin Done /\ job'[j].phase # "repointing"
        BY <1>3 DEF Done
    <3> QED
        BY <1>3, <1>5, <2>0, <2>1, <3>1, <3>2, <3>3
  <2>2. CASE k # j
    <3>1. Running(k) /\ job'[k] = job[k] /\ job[k].media \in Media
        BY <1>13, <2>2
    <3>2. Clean(job[k].media)
        BY <1>4, <3>1 DEF Clean, Same
    <3> QED
        BY <2>0, <3>1, <3>2 DEF Disk, OutputFollowsJob, Finished
  <2> QED
      BY <2>1, <2>2
<1>17. SourcesStay'
    BY <1>1, <1>4, <1>10, SourcesKept DEF Disk
<1> QED
    BY <1>7, <1>8, <1>11, <1>12, <1>15, <1>16, <1>17 DEF Sound, Disk

(* What reclaim_source is to unlink is its entry's source, and the output    *)
(* that the entry is to play is there.                                       *)
LEMMA WeighsSourceStep ==
  ASSUME Sound, NEW j \in Job, WeighsSource(j)
  PROVE  Sound'
<1> DEFINE m == job[j].media
           c == job[j].copy
<1> TypeOK /\ Flow /\ Disk
    BY DEF Sound
<1>1. /\ job[j].phase = "reclaiming" /\ c # NoCopy
      /\ UNCHANGED <<entry, files, job_rx, cancel_tokens, request, serverVars, exposed,
                     reverted>>
    BY DEF WeighsSource
<1>2. m \in Media /\ c \in Seen(m) /\ c \in Entry /\ Knowable(m, c) /\ job[j] \in Task
    BY <1>1, TaskOf, CopyKnown
<1>3. Stored(m, entry[m]) /\ entry[m] \in Entry /\ entry[m] \in Seen(m)
    BY <1>1, <1>2, NothingStored, SeenEntry
<1>4. CASE GoesOn(j, "idle")
  <2>1. Moves(j, "idle", NoCopy)
      BY <1>1, <1>4, GoesOnMoves
  <2>2. ~ WillEnd(j, m)
      BY <1>1 DEF WillEnd
  <2>3. "idle" \notin Early /\ "idle" \notin Done
      BY DEF Early, Done
  <2> PICK p : p = "idle"
      OBVIOUS
  <2> HIDE DEF c
  <2> QED
      BY <1>1, <1>2, <1>3, <2>1, <2>2, <2>3, JobKeeps
<1>5. CASE /\ Redundant(c, Output(m)) /\ Plausible(Output(m))
           /\ job' = [job EXCEPT ![j].phase = "repointing", ![j].input = c.media_file]
  <2>1. c.media_file = Source(m)
      BY <1>2, <1>5 DEF Redundant, Knowable
  <2> DEFINE t1 == [job[j] EXCEPT !.phase = "repointing"]
             t == [t1 EXCEPT !.input = c.media_file]
  <2>2. /\ t1 \in Task /\ t1.phase = "repointing" /\ t1.copy = c /\ t1.media = m
        /\ t1.writing = job[j].writing /\ t1.stopped = job[j].stopped
      BY <1>2 DEF Task, Phase
  <2>3. job' = [job EXCEPT ![j] = t]
      BY <1>5
  <2> HIDE DEF t1
  <2>4. /\ t \in Task /\ t.phase = "repointing" /\ t.copy = c /\ t.media = m
        /\ t.writing = job[j].writing /\ t.stopped = job[j].stopped
        /\ t.input = Source(m)
      BY <1>2, <2>1, <2>2, Paths DEF Task
  <2> HIDE DEF t
  <2>5. /\ job' \in [Job -> Task \cup {Idle}] /\ job'[j] = t
        /\ \A k \in Job : k # j => job'[k] = job[k]
      BY <2>3, <2>4 DEF TypeOK
  <2>6. Running(j) /\ job[j].phase \in Done /\ "repointing" \in Done
      BY <1>1 DEF Running, Done
  <2>7. Clean(m) => files[Output(m)] = "whole"
      BY <1>5, <2>6 DEF Disk, OutputFollowsJob, Finished, Plausible
  <2>8. TypeOK'
    <3>1. Cardinality(Permits') <= concurrency'
        BY <1>1, <2>5, FewerPermits DEF serverVars
    <3> QED
        BY <1>1, <2>5, <3>1 DEF TypeOK, Permits, serverVars
  <2>9. Flow'
    <3>1. ChannelHoldsQueued'
        BY <1>1, <2>5, ChannelKept DEF Flow
    <3>2. Untouched'
        BY <2>4, <2>5, UntouchedKept DEF Flow, Early
    <3>3. TokensAreLive'
        BY <1>1, <2>5, TokensKept DEF Flow
    <3>4. TranscodingWillEnd'
      <4>1. \A k \in Job, n \in Media : WillEnd(k, n) => WillEnd(k, n)'
          BY <1>1, <2>5 DEF WillEnd
      <4>2. \A n \in Media : StillEnds(n)
          BY <1>1, <4>1 DEF StillEnds
      <4> QED
          BY <1>1, <4>2, TranscodingKept DEF Flow, serverVars
    <3> QED
        BY <3>1, <3>2, <3>3, <3>4 DEF Flow
  <2>10. Disk'
    <3>1. JobsLearnNothing /\ RequestsLearnNothing
        BY <1>1, <2>4, <2>5 DEF JobsLearnNothing, RequestsLearnNothing
    <3>2. ASSUME NEW k \in Job, Running(k)' PROVE WritesOn(k)
        BY <2>4, <2>5, <2>6, <3>2 DEF WritesOn, Running
    <3>3. ASSUME NEW k \in Job, job'[k].phase \in {"repointing", "unlinking"}
          PROVE  /\ job'[k].input = Source(job'[k].media) /\ job'[k].media \in Media
                 /\ job'[k].phase = "unlinking" =>
                      job[k].phase = "unlinking" /\ job'[k].media = job[k].media
                 /\ job'[k].phase = "repointing" /\ Clean(job'[k].media) =>
                      \/ job[k].phase = "repointing"
                      \/ files[Output(job'[k].media)] = "whole"
      <4>1. CASE k = j
          BY <1>2, <2>4, <2>5, <2>7, <4>1
      <4>2. CASE k # j
          BY <2>5, <3>3, <4>2, TaskOf DEF Disk, OwnUnlinks
      <4> QED
          BY <4>1, <4>2
    <3>4. \A n \in Media : request["cleanup"][n].phase = "unlinking" =>
            request["cleanup"][n].path = Source(n)
        BY DEF Disk, OwnUnlinks
    <3> HIDE DEF m
    <3> QED
        BY <1>1, <1>2, <1>3, <3>1, <3>2, <3>3, <3>4, DiskKept
  <2> QED
      BY <2>8, <2>9, <2>10 DEF Sound
<1> QED
    BY <1>4, <1>5 DEF WeighsSource

-----------------------------------------------------------------------------
(* The requests.                                                             *)

(* Jobs go on as they were, but that some that encode may be stopped.        *)
JobsStay ==
  /\ job' \in [Job -> Task \cup {Idle}]
  /\ \A j \in Job :
       /\ job'[j].phase = job[j].phase /\ job'[j].copy = job[j].copy
       /\ job[j].phase # "idle" =>
            /\ job'[j].media = job[j].media /\ job'[j].input = job[j].input
            /\ job'[j].writing = job[j].writing
       /\ job[j].phase # "encoding" => job'[j] = job[j]

LEMMA UnchangedStay ==
  ASSUME TypeOK, Flow, UNCHANGED <<job, cancel_tokens>>
  PROVE  JobsStay /\ TokensAreLive' /\ cancel_tokens' \in [Media -> Job \cup {NoJob}]
<1>1. JobsStay
    BY DEF TypeOK, JobsStay
<1>2. TokensAreLive'
    BY TokensKept DEF Flow
<1> QED
    BY <1>1, <1>2 DEF TypeOK

(* The request of kind k for entry m is r now.                               *)
Becomes(k, m, r) ==
  /\ request' \in [Kind -> [Media -> Call]] /\ request'[k][m] = r
  /\ \A i \in Kind, n \in Media : i # k \/ n # m => request'[i][n] = request[i][n]

LEMMA RequestBecomes ==
  ASSUME TypeOK, NEW k \in Kind, NEW m \in Media, NEW r \in Call,
         request' = [request EXCEPT ![k][m] = r]
  PROVE  Becomes(k, m, r)
<1> DEFINE f == [request[k] EXCEPT ![m] = r]
<1>1. /\ f \in [Media -> Call] /\ f[m] = r
      /\ \A n \in Media : n # m => f[n] = request[k][n]
    BY DEF TypeOK
<1>2. request' = [request EXCEPT ![k] = f]
    OBVIOUS
<1> HIDE DEF f
<1> QED
    BY <1>1, <1>2 DEF TypeOK, Becomes

LEMMA RequestStays ==
  ASSUME TypeOK, NEW k \in Kind, NEW m \in Media, UNCHANGED request
  PROVE  Becomes(k, m, request[k][m])
  BY DEF TypeOK, Becomes

(* A step of the request of kind k for entry m, which becomes r, and of the  *)
(* store, where the entry becomes e.                                         *)
LEMMA RequestKeeps ==
  ASSUME Sound, JobsStay, TokensAreLive', cancel_tokens' \in [Media -> Job \cup {NoJob}],
         UNCHANGED <<files, job_rx, ffmpeg, concurrency, crashes>>,
         requests' \in 0 .. MaxRequests, server' \in {"up", "stopping", "down"},
         server = "down" => server' = "down",
         exposed \subseteq exposed', exposed' \subseteq Media,
         NEW k \in Kind, NEW m \in Media, NEW r \in Call, Becomes(k, m, r),
         r.copy \in {NoCopy, entry[m], request[k][m].copy},
         NEW e \in Entry, Stored(m, e), e \in Seen(m) \/ Knowable(m, e)',
         k = "cleanup" /\ r.phase = "unlinking" =>
           \/ r.path = Source(m) /\ e.media_file = Output(m)
           \/ r = request[k][m],
         k = "recover" => r.path \in {NoPath, request[k][m].path},
         \/ e.state # "transcoding"
         \/ <<"state", m>> \in reverted'
         \/ /\ entry[m].state = "transcoding"
            /\ k = "recover" /\ request[k][m].phase \in {"waiting", "asked"} =>
                 r.phase \in {"waiting", "asked"}
  PROVE  Sound'
<1> TypeOK /\ Flow /\ Disk
    BY DEF Sound
<1>1. \A n \in Media : n # m => entry'[n] = entry[n]
    BY DEF Stored
<1>2. /\ entry' \in [Media -> Entry] /\ entry'[m] = e
      /\ reverted \subseteq reverted' /\ reverted' \subseteq {"state", "media_file"} \X Media
    BY DEF Stored
<1>3. TypeOK'
  <2>1. Cardinality(Permits') <= concurrency'
    <3>1. \A i \in Job : job'[i].phase = job[i].phase
        BY DEF JobsStay
    <3> QED
        BY <3>1, FewerPermits
  <2>2. request' \in [Kind -> [Media -> Call]] /\ job' \in [Job -> Task \cup {Idle}]
      BY DEF Becomes, JobsStay
  <2> QED
      BY <1>2, <2>1, <2>2 DEF TypeOK, Permits
<1>4. Flow'
  <2>1. ChannelHoldsQueued'
    <3>1. \A i \in Job : job[i].phase = "queued" => job'[i].phase = "queued"
        BY DEF JobsStay
    <3> QED
        BY <3>1, ChannelKept DEF Flow
  <2>2. Untouched'
    <3>1. \A i \in Job : job'[i].phase \in Early => job[i].phase \in Early /\ job'[i] = job[i]
        BY DEF JobsStay, Early
    <3> QED
        BY <3>1, UntouchedKept DEF Flow
  <2>3. TranscodingWillEnd'
    <3>1. \A i \in Job, n \in Media : WillEnd(i, n) => WillEnd(i, n)'
        BY DEF WillEnd, JobsStay
    <3>2. ASSUME NEW n \in Media PROVE StillEnds(n)
      <4>0. "recover" \in Kind
          BY DEF Kind
      <4>1. CASE n # m
        <5>1. request'["recover"][n] = request["recover"][n]
            BY <4>0, <4>1 DEF Becomes
        <5> QED
            BY <1>1, <3>1, <4>1, <5>1 DEF StillEnds
      <4>2. CASE n = m
        <5>1. k # "recover" => request'["recover"][m] = request["recover"][m]
            BY <4>0 DEF Becomes
        <5>2. request'[k][m] = r
            BY DEF Becomes
        <5> QED
            BY <1>2, <3>1, <4>2, <5>1, <5>2 DEF StillEnds
      <4> QED
          BY <4>1, <4>2
    <3> QED
        BY <1>2, <3>2, TranscodingKept DEF Flow
  <2> QED
      BY <2>1, <2>2, <2>3 DEF Flow
<1>5. Disk'
  <2>1. JobsLearnNothing
      BY DEF JobsStay, JobsLearnNothing
  <2>2. RequestsLearnNothing
    <3>1. ASSUME NEW i \in Kind, NEW n \in Media
          PROVE  request'[i][n].copy \in {NoCopy, entry[n], request[i][n].copy}
      <4>1. CASE i = k /\ n = m
          BY <4>1 DEF Becomes
      <4>2. CASE i # k \/ n # m
          BY <4>2 DEF Becomes
      <4> QED
          BY <4>1, <4>2
    <3> QED
        BY <3>1 DEF RequestsLearnNothing
  <2>3. ASSUME NEW i \in Job, Running(i)' PROVE WritesOn(i)
    <3>1. job[i].phase # "idle" /\ job'[i].phase = job[i].phase
        BY <2>3 DEF JobsStay, Running, Done
    <3> QED
        BY <2>3, <3>1 DEF JobsStay, Running, WritesOn
  <2>4. ASSUME NEW i \in Job, job'[i].phase \in {"repointing", "unlinking"}
        PROVE  /\ job'[i].input = Source(job'[i].media) /\ job'[i].media \in Media
               /\ job'[i].phase = "unlinking" =>
                    job[i].phase = "unlinking" /\ job'[i].media = job[i].media
               /\ job'[i].phase = "repointing" => job[i].phase = "repointing"
    <3>1. job'[i] = job[i] /\ job[i].phase \in {"repointing", "unlinking"}
        BY <2>4 DEF JobsStay
    <3> QED
        BY <3>1, TaskOf DEF Disk, OwnUnlinks
  <2>5. ASSUME NEW n \in Media, request'["cleanup"][n].phase = "unlinking"
        PROVE  /\ request'["cleanup"][n].path = Source(n)
               /\ \/ entry'[n].media_file = Output(n)
                  \/ request["cleanup"][n].phase = "unlinking"
    <3>0. "cleanup" \in Kind
        BY DEF Kind
    <3>1. CASE k = "cleanup" /\ n = m
      <4>1. request'["cleanup"][n] = r
          BY <3>1 DEF Becomes
      <4>2. CASE r.path = Source(m) /\ e.media_file = Output(m)
          BY <1>2, <3>1, <4>1, <4>2
      <4>3. CASE r = request["cleanup"][m]
        <5>1. request["cleanup"][m].phase = "unlinking"
            BY <2>5, <3>1, <4>1, <4>3
        <5>2. request["cleanup"][m].path = Source(m)
            BY <5>1 DEF Disk, OwnUnlinks
        <5> QED
            BY <3>1, <4>1, <4>3, <5>1, <5>2
      <4> QED
          BY <2>5, <3>1, <4>1, <4>2, <4>3
    <3>2. CASE ~ (k = "cleanup" /\ n = m)
      <4>1. request'["cleanup"][n] = request["cleanup"][n]
          BY <3>0, <3>2 DEF Becomes
      <4> QED
          BY <2>5, <4>1 DEF Disk, OwnUnlinks
    <3> QED
        BY <3>1, <3>2
  <2>6. ASSUME NEW n \in Media
        PROVE  request'["recover"][n].path \in {NoPath, request["recover"][n].path}
    <3>0. "recover" \in Kind
        BY DEF Kind
    <3>1. CASE k = "recover" /\ n = m
        BY <3>1 DEF Becomes
    <3>2. CASE ~ (k = "recover" /\ n = m)
        BY <3>0, <3>2 DEF Becomes
    <3> QED
        BY <3>1, <3>2
  <2> QED
      BY <2>1, <2>2, <2>3, <2>4, <2>5, <2>6, DiskKept
<1> QED
    BY <1>3, <1>4, <1>5 DEF Sound

LEMMA Calls ==
  /\ NoCall \in Call /\ NoCall.phase = "none" /\ NoCall.copy = NoCopy /\ NoCall.path = NoPath
  /\ NoCalls \in [Kind -> [Media -> Call]]
  /\ \A phase \in {"none", "waiting", "asked", "unlinking"}, c \in Entry \cup {NoCopy},
        p \in Path \cup {NoPath} :
       LET r == [phase |-> phase, copy |-> c, path |-> p]
       IN  r \in Call /\ r.phase = phase /\ r.copy = c /\ r.path = p
<1>1. NoCall \in Call /\ NoCall.phase = "none" /\ NoCall.copy = NoCopy /\ NoCall.path = NoPath
    BY DEF NoCall, Call
<1>2. NoCalls \in [Kind -> [Media -> Call]]
    BY <1>1, Zenon DEF NoCalls
<1> QED
    BY <1>1, <1>2 DEF Call

(* A request comes in, or reads the entry, or is over.                       *)
LEMMA QuietRequest ==
  ASSUME Sound, UNCHANGED <<entry, files, jobVars, server, ffmpeg, concurrency, crashes,
                           exposed, reverted>>,
         requests' \in 0 .. MaxRequests,
         NEW k \in Kind, NEW m \in Media, NEW r \in Call,
         request' = [request EXCEPT ![k][m] = r],
         r.copy \in {NoCopy, entry[m], request[k][m].copy},
         k = "cleanup" => r.phase # "unlinking",
         k = "recover" => r.path = request[k][m].path /\ r.phase = request[k][m].phase
  PROVE  Sound'
<1> TypeOK /\ Flow /\ Disk
    BY DEF Sound
<1>1. Becomes(k, m, r)
    BY RequestBecomes
<1>2. JobsStay /\ TokensAreLive' /\ cancel_tokens' \in [Media -> Job \cup {NoJob}]
    BY UnchangedStay DEF jobVars
<1>3. Stored(m, entry[m]) /\ entry[m] \in Entry /\ entry[m] \in Seen(m)
    BY NothingStored, EntryKnown
<1>4. exposed' \subseteq Media /\ server' \in {"up", "stopping", "down"}
    BY DEF TypeOK
<1> QED
    BY <1>1, <1>2, <1>3, <1>4, RequestKeeps DEF jobVars

LEMMA Asked ==
  ASSUME TypeOK, Asks
  PROVE  /\ requests' \in 0 .. MaxRequests /\ server = "up"
         /\ UNCHANGED <<server, ffmpeg, concurrency, crashes>>
  BY Constants DEF TypeOK, Asks

LEMMA RequestBeginsStep ==
  ASSUME Sound, NEW m \in Media, OtherRequest(m) \/ ListForCleanup(m)
  PROVE  Sound'
<1> TypeOK /\ Flow /\ Disk
    BY DEF Sound
<1>0. entry[m] \in Entry /\ {"other", "cleanup"} \subseteq Kind
    BY SeenEntry DEF Kind
<1>1. PICK k \in {"other", "cleanup"}, c \in {NoCopy, entry[m]} :
        /\ Begins(k, m, "asked", c, NoPath)
        /\ UNCHANGED <<entry, files, jobVars, exposed, reverted>>
    BY DEF OtherRequest, ListForCleanup
<1> DEFINE r == [phase |-> "asked", copy |-> c, path |-> NoPath]
<1>2. r \in Call /\ r.phase = "asked" /\ r.copy = c /\ r.path = NoPath
    BY <1>0 DEF Call
<1>3. Asks /\ request' = [request EXCEPT ![k][m] = r]
    BY <1>1 DEF Begins
<1> HIDE DEF r
<1> QED
    BY <1>0, <1>1, <1>2, <1>3, Asked, QuietRequest

LEMMA RequestReadsStep ==
  ASSUME Sound, NEW k \in {"cancel", "other", "recover"}, NEW m \in Media, RequestReads(k, m)
  PROVE  Sound'
<1> TypeOK /\ Flow /\ Disk
    BY DEF Sound
<1>0. k \in Kind /\ entry[m] \in Entry
    BY SeenEntry DEF Kind
<1>1. /\ request' = [request EXCEPT ![k][m].copy = entry[m]]
      /\ UNCHANGED <<entry, files, jobVars, serverVars, exposed, reverted>>
    BY DEF RequestReads
<1> PICK c \in Entry : c = entry[m]
    BY <1>0
<1> DEFINE r == [request[k][m] EXCEPT !.copy = c]
<1>2. request[k][m] \in Call
    BY <1>0, CallOf
<1>3. /\ r \in Call /\ r.copy = c /\ r.path = request[k][m].path
      /\ r.phase = request[k][m].phase
    BY <1>2 DEF Call
<1>4. request' = [request EXCEPT ![k][m] = r]
    BY <1>1
<1> HIDE DEF r
<1>5. /\ requests' \in 0 .. MaxRequests
      /\ UNCHANGED <<entry, files, jobVars, server, ffmpeg, concurrency, crashes, exposed,
                     reverted>>
    BY <1>1 DEF TypeOK, serverVars
<1>6. /\ r.copy = entry[m]
      /\ k = "recover" => r.path = request[k][m].path /\ r.phase = request[k][m].phase
    BY <1>3
<1> QED
    BY <1>0, <1>3, <1>4, <1>5, <1>6, QuietRequest

LEMMA CleanupSkipsStep ==
  ASSUME Sound, NEW m \in Media, CleanupSkips(m)
  PROVE  Sound'
<1>1. /\ request' = [request EXCEPT !["cleanup"][m] = NoCall]
      /\ UNCHANGED <<entry, files, jobVars, serverVars, exposed, reverted>>
    BY DEF CleanupSkips
<1>2. requests' \in 0 .. MaxRequests
    BY <1>1 DEF Sound, TypeOK, serverVars
<1>3. NoCall \in Call /\ NoCall.phase = "none" /\ NoCall.copy = NoCopy /\ "cleanup" \in Kind
    BY Calls DEF Kind
<1> QED
    BY <1>1, <1>2, <1>3, QuietRequest DEF serverVars

(* A request writes the entry.                                               *)
LEMMA RequestWrites ==
  ASSUME Sound, UNCHANGED <<files, jobVars, serverVars>>,
         exposed \subseteq exposed', exposed' \subseteq Media,
         NEW k \in Kind, NEW m \in Media, NEW r \in Call,
         request' = [request EXCEPT ![k][m] = r], r.copy = NoCopy,
         NEW e \in Entry, Stored(m, e), e \in Seen(m) \/ Knowable(m, e)',
         k = "cleanup" /\ r.phase = "unlinking" =>
           r.path = Source(m) /\ e.media_file = Output(m),
         k = "recover" => r.path = request[k][m].path,
         \/ e.state # "transcoding"
         \/ <<"state", m>> \in reverted'
         \/ k # "recover" /\ entry[m].state = "transcoding"
  PROVE  Sound'
<1> TypeOK /\ Flow
    BY DEF Sound
<1>1. Becomes(k, m, r)
    BY RequestBecomes
<1>2. JobsStay /\ TokensAreLive' /\ cancel_tokens' \in [Media -> Job \cup {NoJob}]
    BY UnchangedStay DEF jobVars
<1>3. /\ UNCHANGED <<files, job_rx, ffmpeg, concurrency, crashes>>
      /\ requests' \in 0 .. MaxRequests /\ server' \in {"up", "stopping", "down"}
      /\ server = "down" => server' = "down"
    BY DEF TypeOK, serverVars, jobVars
<1> QED
    BY <1>1, <1>2, <1>3, RequestKeeps

LEMMA CallKnown ==
  ASSUME TypeOK, Disk, NEW k \in Kind, NEW m \in Media, request[k][m].copy # NoCopy
  PROVE  LET c == request[k][m].copy
         IN  c \in Entry /\ c \in Seen(m) /\ Knowable(m, c)
<1>1. request[k][m].copy \in Seen(m)
    BY SeenCopies
<1> QED
    BY <1>1, SeenEntry DEF Disk, AllKnowable

(* The updates: failed for a cancel, pending for a recovery.                 *)
LEMMA RequestUpdatesStep ==
  ASSUME Sound, NEW m \in Media, SetCancelled(m) \/ ResetStuck(m)
  PROVE  Sound'
<1> TypeOK /\ Flow /\ Disk
    BY DEF Sound
<1>1. PICK k \in {"cancel", "recover"}, new \in {"failed", "pending"} :
        /\ k = "recover" => new = "pending"
        /\ request[k][m].copy # NoCopy
        /\ Update(m, request[k][m].copy, new)
        /\ UNCHANGED <<files, jobVars, serverVars, exposed>>
        /\ \/ k = "cancel" /\ request' = [request EXCEPT ![k][m] = NoCall]
           \/ k = "recover" /\ request' = [request EXCEPT ![k][m].phase = "unlinking",
                                                          ![k][m].copy = NoCopy]
    BY DEF SetCancelled, ResetStuck
<1>2. k \in Kind
    BY DEF Kind
<1> PICK c \in Entry : c = request[k][m].copy /\ c \in Seen(m) /\ Knowable(m, c)
    BY <1>1, <1>2, CallKnown
<1> PICK e \in Entry :
       /\ Stored(m, e)
       /\ \/ e = entry[m] /\ ~ Transition(c.state, new)
          \/ /\ e.state = new /\ e.media_file = c.media_file /\ e.versions = c.versions
             /\ e.transcoded = c.transcoded
    BY <1>1, UpdateStores
<1>3. e \in Seen(m) \/ Knowable(m, e)'
  <2>1. CASE e = entry[m]
      BY <2>1, SeenEntry
  <2>2. CASE e # entry[m]
    <3>1. Knowable(m, e)
        BY <2>2, UpdateKnowable
    <3> QED
        BY <1>1, <3>1, KnowableKept
  <2> QED
      BY <2>1, <2>2
<1>4. e.state # "transcoding" \/ (k # "recover" /\ entry[m].state = "transcoding")
  <2>1. k = "recover" => Transition(c.state, new)
      BY <1>1 DEF Transition
  <2> QED
      BY <2>1
<1>5. PICK r \in Call : /\ request' = [request EXCEPT ![k][m] = r] /\ r.copy = NoCopy
                        /\ k = "recover" => r.path = request[k][m].path
  <2>1. CASE k = "cancel"
      BY <1>1, <2>1, Calls
  <2>2. CASE k = "recover"
    <3> DEFINE r1 == [request[k][m] EXCEPT !.phase = "unlinking"]
               f == [request EXCEPT ![k][m] = r1]
               r == [r1 EXCEPT !.copy = NoCopy]
    <3>1. request[k][m] \in Call
        BY <1>2, CallOf
    <3>2. r1 \in Call /\ r1.path = request[k][m].path
        BY <3>1 DEF Call
    <3>3. f = [request EXCEPT ![k][m].phase = "unlinking"]
        OBVIOUS
    <3>4. request' = [f EXCEPT ![k][m].copy = NoCopy]
        BY <1>1, <2>2, <3>3
    <3> HIDE DEF r1
    <3>5. f[k][m] = r1
        BY <1>2 DEF TypeOK
    <3>6. request' = [request EXCEPT ![k][m] = r]
        BY <1>2, <3>4, <3>5 DEF TypeOK
    <3>7. r \in Call /\ r.copy = NoCopy /\ r.path = request[k][m].path
        BY <3>2 DEF Call
    <3> HIDE DEF r
    <3> QED
        BY <3>6, <3>7
  <2> QED
      BY <2>1, <2>2
<1>6. exposed' \subseteq Media /\ exposed \subseteq exposed'
    BY <1>1 DEF TypeOK
<1> QED
    BY <1>1, <1>2, <1>3, <1>4, <1>5, <1>6, RequestWrites

LEMMA OtherWritesStep ==
  ASSUME Sound, NEW m \in Media, OtherWrites(m)
  PROVE  Sound'
<1> TypeOK /\ Flow /\ Disk
    BY DEF Sound
<1>1. PICK k \in {"other"} :
        /\ request[k][m].copy # NoCopy
        /\ Put(m, request[k][m].copy, request[k][m].copy, {"state", "media_file"})
        /\ UNCHANGED <<files, jobVars, serverVars, exposed>>
        /\ request' = [request EXCEPT ![k][m] = NoCall]
    BY DEF OtherWrites
<1>2. k \in Kind
    BY DEF Kind
<1> PICK c \in Entry : c = request[k][m].copy /\ c \in Seen(m)
    BY <1>1, <1>2, CallKnown
<1>3. Stored(m, c) /\ (c.state # entry[m].state => <<"state", m>> \in reverted')
    BY <1>1, PutStores
<1>4. NoCall \in Call /\ NoCall.copy = NoCopy
    BY Calls
<1>5. exposed' \subseteq Media /\ exposed \subseteq exposed'
    BY <1>1 DEF TypeOK
<1> QED
    BY <1>1, <1>2, <1>3, <1>4, <1>5, RequestWrites

LEMMA CleanupRepointsStep ==
  ASSUME Sound, NEW m \in Media, CleanupRepoints(m)
  PROVE  Sound'
<1> TypeOK /\ Flow /\ Disk
    BY DEF Sound
<1> PICK k \in Kind : k = "cleanup"
    BY DEF Kind
<1>1. request[k][m].copy # NoCopy /\ UNCHANGED <<files, jobVars, serverVars>>
    BY DEF CleanupRepoints
<1> PICK c \in Entry : c = request[k][m].copy /\ Knowable(m, c)
    BY <1>1, CallKnown
<1>2. PICK output \in Path :
        /\ IF c.transcoded # NoPath THEN output = c.transcoded ELSE output \in c.versions
        /\ Redundant(c, output)
        /\ Put(m, c, [c EXCEPT !.media_file = output], {"state"})
        /\ exposed' = IF files[output] = "whole" THEN exposed ELSE exposed \cup {m}
    BY DEF CleanupRepoints
<1>3. output = Output(m) /\ c.media_file = Source(m)
    BY <1>2 DEF Knowable, Redundant
<1> DEFINE e == [c EXCEPT !.media_file = output]
           r == [phase |-> "unlinking", copy |-> NoCopy, path |-> c.media_file]
<1>4. /\ e \in Entry /\ e.media_file = Output(m) /\ e.state = c.state
      /\ e.versions = c.versions /\ e.transcoded = c.transcoded
    BY <1>3 DEF Entry
<1>5. r \in Call /\ r.copy = NoCopy /\ r.path = Source(m)
    BY <1>3, Paths, Calls
<1>6. request' = [request EXCEPT ![k][m] = r]
    BY DEF CleanupRepoints
<1>7. Put(m, c, e, {"state"})
    BY <1>2
<1> HIDE DEF e, r
<1>8. Stored(m, e) /\ (c.state # entry[m].state => <<"state", m>> \in reverted')
    BY <1>4, <1>7, PutStores
<1>9. exposed' \subseteq Media /\ exposed \subseteq exposed'
    BY <1>2 DEF TypeOK
<1>10. Knowable(m, e)'
  <2>1. Clean(m)' => Clean(m)
      BY <1>9, CleanBefore
  <2>2. m \notin exposed' => files[Output(m)] = "whole"
      BY <1>2, <1>3
  <2>3. UNCHANGED files
      BY <1>1
  <2> QED
      BY <1>4, <2>1, <2>2, <2>3 DEF Knowable, Finished
<1>11. \/ e.state # "transcoding" \/ <<"state", m>> \in reverted'
       \/ k # "recover" /\ entry[m].state = "transcoding"
    BY <1>4, <1>8
<1> QED
    BY <1>1, <1>4, <1>5, <1>6, <1>8, <1>9, <1>10, <1>11, RequestWrites

-----------------------------------------------------------------------------
(* Cancelling, and the server.                                               *)

LEMMA StopKeeps ==
  ASSUME TypeOK, Flow, NEW J, \A j \in J \cap Job : job[j].phase = "encoding",
         job' = Cancelled(J),
         cancel_tokens' \in [Media -> Job \cup {NoJob}],
         \A m \in Media : cancel_tokens'[m] # NoJob =>
           cancel_tokens'[m] = cancel_tokens[m] /\ cancel_tokens[m] \notin J
  PROVE  JobsStay /\ TokensAreLive'
<1>1. /\ job' \in [Job -> Task \cup {Idle}]
      /\ \A k \in Job \ J : job'[k] = job[k]
      /\ \A k \in Job : /\ job'[k].phase = job[k].phase
                        /\ job'[k].copy = job[k].copy
                        /\ job[k].phase # "idle" =>
                             /\ job'[k].media = job[k].media
                             /\ job'[k].input = job[k].input
                             /\ job'[k].writing = job[k].writing
    BY CancelledJobs
<1>2. JobsStay
  <2>1. \A k \in Job : job[k].phase # "encoding" => job'[k] = job[k]
      BY <1>1
  <2> QED
      BY <1>1, <2>1 DEF JobsStay
<1>3. TokensAreLive'
  <2> SUFFICES ASSUME NEW m \in Media, cancel_tokens'[m] # NoJob
               PROVE  LET j == cancel_tokens'[m]
                      IN  /\ job'[j].phase = "encoding" /\ job'[j].media = m
                          /\ ~ job'[j].stopped
      BY DEF TokensAreLive
  <2> DEFINE j == cancel_tokens[m]
  <2>1. j \in Job \ J /\ cancel_tokens'[m] = j
      BY DEF TypeOK
  <2>2. job[j].phase = "encoding" /\ job[j].media = m /\ ~ job[j].stopped
      BY <2>1 DEF Flow, TokensAreLive
  <2> QED
      BY <1>1, <2>1, <2>2
<1> QED
    BY <1>2, <1>3

(* One entry's token is cancelled: no other entry has it.                    *)
LEMMA OneToken ==
  ASSUME TypeOK, Flow, NEW m \in Media, Stop(m)
  PROVE  JobsStay /\ TokensAreLive' /\ cancel_tokens' \in [Media -> Job \cup {NoJob}]
<1>1. /\ job' = Cancelled({cancel_tokens[m]})
      /\ cancel_tokens' = [cancel_tokens EXCEPT ![m] = NoJob]
    BY DEF Stop
<1>2. NoJob \notin Job
    BY DEF NoJob, Job
<1>3. \A n \in Media : cancel_tokens[n] # NoJob =>
        /\ cancel_tokens[n] \in Job /\ job[cancel_tokens[n]].phase = "encoding"
        /\ job[cancel_tokens[n]].media = n
    BY DEF TypeOK, Flow, TokensAreLive
<1>4. \A j \in {cancel_tokens[m]} \cap Job : job[j].phase = "encoding"
    BY <1>2, <1>3
<1>5. /\ cancel_tokens' \in [Media -> Job \cup {NoJob}] /\ cancel_tokens'[m] = NoJob
      /\ \A n \in Media : n # m => cancel_tokens'[n] = cancel_tokens[n]
    BY <1>1 DEF TypeOK
<1>6. \A n \in Media : cancel_tokens'[n] # NoJob =>
        cancel_tokens'[n] = cancel_tokens[n] /\ cancel_tokens[n] \notin {cancel_tokens[m]}
    BY <1>3, <1>5
<1> QED
    BY <1>1, <1>4, <1>5, <1>6, StopKeeps

LEMMA CancelTranscodeStep ==
  ASSUME Sound, NEW m \in Media, CancelTranscode(m)
  PROVE  Sound'
<1> TypeOK /\ Flow /\ Disk
    BY DEF Sound
<1>1. /\ Asks /\ Stop(m)
      /\ request' = [request EXCEPT !["cancel"][m] =
                       [phase |-> "asked", copy |-> NoCopy, path |-> NoPath]]
      /\ UNCHANGED <<entry, files, job_rx, exposed, reverted>>
    BY DEF CancelTranscode, Begins
<1> DEFINE r == [phase |-> "asked", copy |-> NoCopy, path |-> NoPath]
<1>2. r \in Call /\ r.copy = NoCopy /\ "cancel" \in Kind
    BY DEF Call, Kind
<1> HIDE DEF r
<1>3. Becomes("cancel", m, r)
    BY <1>1, <1>2, RequestBecomes DEF r
<1>4. JobsStay /\ TokensAreLive' /\ cancel_tokens' \in [Media -> Job \cup {NoJob}]
    BY <1>1, OneToken
<1>5. Stored(m, entry[m]) /\ entry[m] \in Entry /\ entry[m] \in Seen(m)
    BY <1>1, NothingStored, EntryKnown
<1>6. /\ requests' \in 0 .. MaxRequests /\ server' \in {"up", "stopping", "down"}
      /\ UNCHANGED <<server, ffmpeg, concurrency, crashes>>
      /\ exposed' \subseteq Media
    BY <1>1, Asked DEF TypeOK
<1> PICK k : k = "cancel"
    OBVIOUS
<1> QED
    BY <1>1, <1>2, <1>3, <1>4, <1>5, <1>6, RequestKeeps

LEMMA StopAny ==
  ASSUME Sound, JobsStay, TokensAreLive', cancel_tokens' \in [Media -> Job \cup {NoJob}],
         UNCHANGED <<entry, files, job_rx, request, ffmpeg, concurrency, crashes, requests,
                     exposed, reverted>>,
         server # "down", server' \in {"up", "stopping"}
  PROVE  Sound'
<1> TypeOK /\ Flow /\ Disk
    BY DEF Sound
<1> PICK m \in Media : TRUE
    BY TranscodeAssumption
<1> PICK k \in Kind : k = "other"
    BY DEF Kind
<1>1. Becomes(k, m, request[k][m]) /\ request[k][m] \in Call
    BY RequestStays, CallOf
<1>2. Stored(m, entry[m]) /\ entry[m] \in Entry /\ entry[m] \in Seen(m)
    BY NothingStored, EntryKnown
<1>3. requests' \in 0 .. MaxRequests /\ exposed' \subseteq Media
    BY DEF TypeOK
<1> QED
    BY <1>1, <1>2, <1>3, RequestKeeps

LEMMA StopGroupStep ==
  ASSUME Sound, NEW m \in Media, StopGroup(m)
  PROVE  Sound'
<1>1. Stop(m) /\ server = "up"
      /\ UNCHANGED <<entry, files, job_rx, request, serverVars, exposed, reverted>>
    BY DEF StopGroup
<1>2. JobsStay /\ TokensAreLive' /\ cancel_tokens' \in [Media -> Job \cup {NoJob}]
    BY <1>1, OneToken DEF Sound
<1> QED
    BY <1>1, <1>2, StopAny DEF serverVars

LEMMA CancelAllStep ==
  ASSUME Sound, CancelAll
  PROVE  Sound'
<1> TypeOK /\ Flow
    BY DEF Sound
<1> DEFINE J == {cancel_tokens[m] : m \in Media}
<1>1. /\ server = "up" /\ server' = "stopping"
      /\ job' = Cancelled(J) /\ cancel_tokens' = [m \in Media |-> NoJob]
      /\ UNCHANGED <<entry, files, job_rx, request, ffmpeg, concurrency, crashes, requests,
                     exposed, reverted>>
    BY DEF CancelAll
<1>2. \A j \in J \cap Job : job[j].phase = "encoding"
  <2>1. NoJob \notin Job
      BY DEF NoJob, Job
  <2> QED
      BY <2>1 DEF Flow, TokensAreLive
<1> HIDE DEF J
<1>3. /\ cancel_tokens' \in [Media -> Job \cup {NoJob}]
      /\ \A m \in Media : cancel_tokens'[m] = NoJob
    BY <1>1
<1>4. JobsStay /\ TokensAreLive'
    BY <1>1, <1>2, <1>3, StopKeeps
<1> QED
    BY <1>1, <1>3, <1>4, StopAny

(* While no job runs, what is known of the files stays.                      *)
LEMMA NobodyRuns ==
  ASSUME TypeOK, Disk, UNCHANGED <<entry, reverted, files, exposed>>,
         \A k \in Job : job'[k].phase = "idle",
         \A k \in Kind, n \in Media : request'[k][n].copy = NoCopy,
         \A n \in Media : /\ request'["cleanup"][n].phase # "unlinking"
                          /\ request'["recover"][n].path = NoPath
  PROVE  Disk'
<1> PICK m \in Media : TRUE
    BY TranscodeAssumption
<1>1. Stored(m, entry[m]) /\ entry[m] \in Entry /\ entry[m] \in Seen(m)
    BY NothingStored, EntryKnown
<1>2. JobsLearnNothing /\ RequestsLearnNothing
    BY DEF JobsLearnNothing, RequestsLearnNothing
<1>3. \A k \in Job : ~ Running(k)'
    BY DEF Running, Done
<1> QED
    BY <1>1, <1>2, <1>3, DiskKept

LEMMA CrashStep ==
  ASSUME Sound, Crash
  PROVE  Sound'
<1> TypeOK /\ Flow /\ Disk
    BY DEF Sound
<1>1. /\ server' = "down" /\ crashes < MaxCrashes /\ crashes' = crashes + 1
      /\ job' = [j \in Job |-> Idle] /\ job_rx' = <<>>
      /\ cancel_tokens' = [m \in Media |-> NoJob] /\ request' = NoCalls
      /\ UNCHANGED <<entry, files, ffmpeg, concurrency, requests, exposed, reverted>>
    BY DEF Crash
<1>2. \A j \in Job : job'[j] = Idle /\ job'[j].phase = "idle"
    BY <1>1 DEF Idle
<1>3. \A k \in Kind, n \in Media : request'[k][n] = NoCall
    BY <1>1 DEF NoCalls
<1>4. TypeOK'
  <2>1. Cardinality(Permits') <= concurrency'
      BY <1>1, <1>2, NoPermits, PermitsFinite
  <2>2. crashes' \in 0 .. MaxCrashes
      BY <1>1, Constants DEF TypeOK
  <2>3. request' \in [Kind -> [Media -> Call]]
      BY <1>1, Calls
  <2> QED
      BY <1>1, <2>1, <2>2, <2>3 DEF TypeOK, Permits
<1>5. Flow'
  <2>1. ChannelHoldsQueued' /\ TokensAreLive'
      BY <1>1 DEF ChannelHoldsQueued, TokensAreLive
  <2>2. Untouched'
      BY <1>2 DEF Untouched, Early
  <2>3. TranscodingWillEnd'
      BY <1>1 DEF TranscodingWillEnd
  <2> QED
      BY <2>1, <2>2, <2>3 DEF Flow
<1>6. Disk'
  <2>1. "cleanup" \in Kind /\ "recover" \in Kind
      BY DEF Kind
  <2> QED
      BY <1>1, <1>2, <1>3, <2>1, NobodyRuns, Calls
<1> QED
    BY <1>4, <1>5, <1>6 DEF Sound

LEMMA RestartStep ==
  ASSUME Sound, DownIsIdle, Restart
  PROVE  Sound'
<1> TypeOK /\ Flow /\ Disk
    BY DEF Sound
<1> DEFINE w == [NoCall EXCEPT !.phase = "waiting"]
<1>1. /\ server = "down" /\ server' = "up" /\ ffmpeg' \in BOOLEAN
      /\ concurrency' \in 1 .. Concurrency
      /\ request' = [NoCalls EXCEPT !["recover"] = [m \in Media |-> w]]
      /\ UNCHANGED <<entry, files, jobVars, crashes, requests, exposed, reverted>>
    BY DEF Restart
<1>2. w \in Call /\ w.phase = "waiting" /\ w.copy = NoCopy /\ w.path = NoPath
    BY DEF NoCall, Call
<1> HIDE DEF w
<1>3. /\ request' \in [Kind -> [Media -> Call]]
      /\ \A n \in Media : request'["recover"][n] = w
      /\ \A k \in Kind, n \in Media : request'[k][n] \in {NoCall, w}
      /\ \A n \in Media : request'["cleanup"][n] = NoCall
    BY <1>1, <1>2, Calls DEF NoCalls, Kind
<1>4. \A j \in Job : job'[j].phase = "idle"
    BY <1>1 DEF DownIsIdle, Unfinished, jobVars
<1>5. TypeOK'
  <2>1. concurrency' \in Nat
      BY <1>1, Constants
  <2>2. Cardinality(Permits') <= concurrency'
      BY <1>4, <2>1, NoPermits
  <2> QED
      BY <1>1, <1>3, <2>2 DEF TypeOK, Permits, jobVars
<1>6. Flow'
  <2>1. ChannelHoldsQueued' /\ Untouched' /\ TokensAreLive'
      BY <1>1 DEF Flow, ChannelHoldsQueued, Untouched, TokensAreLive, jobVars
  <2>2. TranscodingWillEnd'
      BY <1>2, <1>3 DEF TranscodingWillEnd
  <2> QED
      BY <2>1, <2>2 DEF Flow
<1>7. Disk'
    BY <1>1, <1>2, <1>3, <1>4, NobodyRuns, Calls
<1> QED
    BY <1>5, <1>6, <1>7 DEF Sound

(* A transcoding entry that was transcoded before was exposed by that.       *)
LEMMA ListStuckStep ==
  ASSUME Sound, ListStuck
  PROVE  Sound'
<1> TypeOK /\ Flow /\ Disk
    BY DEF Sound
<1> DEFINE s(n) == [phase |-> "asked", copy |-> NoCopy, path |-> entry[n].transcoded]
           f == [n \in Media |-> IF n \in Stuck THEN s(n) ELSE NoCall]
<1>1. /\ server # "down" /\ request' = [request EXCEPT !["recover"] = f]
      /\ UNCHANGED <<entry, files, jobVars, serverVars, exposed, reverted>>
    BY DEF ListStuck, Alive
<1>2. ASSUME NEW n \in Media
      PROVE  /\ f[n] \in Call /\ f[n].copy = NoCopy
             /\ entry[n].state = "transcoding" => f[n].phase = "asked"
             /\ \/ f[n].path = NoPath
                \/ f[n].path = Output(n) /\ ~ Clean(n)
  <2>1. entry[n] \in Entry /\ Knowable(n, entry[n])
      BY EntryKnown
  <2>2. entry[n].transcoded \in Path \cup {NoPath}
      BY <2>1 DEF Entry
  <2>3. s(n) \in Call /\ s(n).copy = NoCopy /\ s(n).phase = "asked"
        /\ s(n).path = entry[n].transcoded
      BY <2>2 DEF Call
  <2> HIDE DEF s
  <2>4. CASE n \in Stuck
    <3>1. f[n] = s(n) /\ entry[n].state = "transcoding"
        BY <2>4 DEF Stuck
    <3> HIDE DEF f
    <3> QED
        BY <2>1, <2>3, <3>1 DEF Knowable
  <2>5. CASE n \notin Stuck
      BY <2>5, Calls DEF Stuck
  <2> QED
      BY <2>4, <2>5
<1>3. f \in [Media -> Call]
    BY <1>2
<1> HIDE DEF f
<1>4. /\ request' \in [Kind -> [Media -> Call]] /\ request'["recover"] = f
      /\ \A k \in Kind : k # "recover" => request'[k] = request[k]
      /\ request'["cleanup"] = request["cleanup"]
    BY <1>1, <1>3 DEF TypeOK, Kind
<1>5. JobsStay /\ TokensAreLive' /\ cancel_tokens' \in [Media -> Job \cup {NoJob}]
    BY <1>1, UnchangedStay DEF jobVars
<1>6. TypeOK'
  <2>1. Cardinality(Permits') <= concurrency'
      BY <1>1, FewerPermits DEF jobVars, serverVars
  <2> QED
      BY <1>1, <1>4, <2>1 DEF TypeOK, Permits, jobVars, serverVars
<1>7. Flow'
  <2>1. ChannelHoldsQueued' /\ Untouched'
      BY <1>1 DEF Flow, ChannelHoldsQueued, Untouched, jobVars
  <2>2. TranscodingWillEnd'
      BY <1>1, <1>2, <1>4 DEF TranscodingWillEnd
  <2> QED
      BY <1>5, <2>1, <2>2 DEF Flow
<1>8. Disk'
  <2> PICK m \in Media : TRUE
      BY TranscodeAssumption
  <2>1. Stored(m, entry[m]) /\ entry[m] \in Entry /\ entry[m] \in Seen(m)
      BY <1>1, NothingStored, EntryKnown
  <2>2. JobsLearnNothing
      BY <1>1 DEF JobsLearnNothing, jobVars
  <2>3. RequestsLearnNothing
    <3>1. ASSUME NEW k \in Kind, NEW n \in Media
          PROVE  request'[k][n].copy \in {NoCopy, entry[n], request[k][n].copy}
        BY <1>2, <1>4
    <3> QED
        BY <3>1 DEF RequestsLearnNothing
  <2>4. \A k \in Job : Running(k)' => WritesOn(k)
      BY <1>1 DEF Running, WritesOn, jobVars
  <2>5. ASSUME NEW k \in Job, job'[k].phase \in {"repointing", "unlinking"}
        PROVE  /\ job'[k] = job[k] /\ job'[k].media \in Media
               /\ job'[k].input = Source(job'[k].media)
    <3>1. job'[k] = job[k]
        BY <1>1 DEF jobVars
    <3> QED
        BY <2>5, <3>1, TaskOf DEF Disk, OwnUnlinks
  <2>6. \A n \in Media : request'["cleanup"][n].phase = "unlinking" =>
          /\ request'["cleanup"][n].path = Source(n)
          /\ request["cleanup"][n].phase = "unlinking"
      BY <1>4 DEF Disk, OwnUnlinks
  <2>7. \A n \in Media : \/ request'["recover"][n].path = NoPath
                         \/ request'["recover"][n].path = Output(n) /\ ~ Clean(n)
      BY <1>2, <1>4
  <2> QED
      BY <1>1, <2>1, <2>2, <2>3, <2>4, <2>5, <2>6, <2>7, DiskKept
<1> QED
    BY <1>6, <1>7, <1>8 DEF Sound

(* A clean-up unlinks the source of an entry that no longer plays it, a      *)
(* recovery an output whose entries are all exposed.                         *)
LEMMA RequestUnlinksStep ==
  ASSUME Sound, NEW k \in {"cleanup", "recover"}, NEW m \in Media, RequestUnlinks(k, m)
  PROVE  Sound'
<1> TypeOK /\ Flow /\ Disk
    BY DEF Sound
<1> DEFINE path == request[k][m].path
<1>0. k \in Kind /\ "recover" \in Kind /\ "cleanup" \in Kind
    BY DEF Kind
<1>1. /\ server # "down" /\ request[k][m].phase = "unlinking"
      /\ files' = [p \in Path |-> IF p = path THEN "none" ELSE files[p]]
      /\ request' = [request EXCEPT ![k][m] = NoCall]
      /\ UNCHANGED <<entry, jobVars, serverVars, exposed, reverted>>
    BY DEF RequestUnlinks, Alive
<1>2. /\ files' \in [Path -> {"none", "partial", "stub", "whole"}]
      /\ \A p \in Path : p # path => files'[p] = files[p]
    BY <1>1 DEF TypeOK
<1>3. Becomes(k, m, NoCall)
    BY <1>0, <1>1, RequestBecomes, Calls
<1>4. JobsStay /\ TokensAreLive' /\ cancel_tokens' \in [Media -> Job \cup {NoJob}]
    BY <1>1, UnchangedStay DEF jobVars
<1>5. TypeOK'
  <2>1. Cardinality(Permits') <= concurrency'
      BY <1>1, FewerPermits DEF jobVars, serverVars
  <2>2. request' \in [Kind -> [Media -> Call]]
      BY <1>3 DEF Becomes
  <2> QED
      BY <1>1, <1>2, <2>1, <2>2 DEF TypeOK, Permits, jobVars, serverVars
<1>6. Flow'
  <2>1. ChannelHoldsQueued' /\ Untouched'
      BY <1>1 DEF Flow, ChannelHoldsQueued, Untouched, jobVars
  <2>2. ASSUME NEW n \in Media PROVE StillEnds(n)
    <3>1. \A j \in Job : WillEnd(j, n) => WillEnd(j, n)'
        BY <1>1 DEF WillEnd, jobVars
    <3>2. request["recover"][n].phase \in {"waiting", "asked"} =>
            request'["recover"][n].phase \in {"waiting", "asked"}
        BY <1>0, <1>1, <1>3 DEF Becomes
    <3> QED
        BY <1>1, <3>1, <3>2 DEF StillEnds
  <2>3. TranscodingWillEnd'
      BY <1>1, <2>2, TranscodingKept DEF Flow, serverVars
  <2> QED
      BY <1>4, <2>1, <2>3 DEF Flow
<1>7. JobsLearnNothing /\ (\A j \in Job : Running(j)' => WritesOn(j))
    BY <1>1 DEF JobsLearnNothing, Running, WritesOn, jobVars
<1>8. RequestsLearnNothing
  <2>1. ASSUME NEW i \in Kind, NEW n \in Media
        PROVE  request'[i][n].copy \in {NoCopy, entry[n], request[i][n].copy}
    <3>1. CASE i = k /\ n = m
        BY <1>3, <3>1, Calls DEF Becomes
    <3>2. CASE i # k \/ n # m
        BY <1>3, <3>2 DEF Becomes
    <3> QED
        BY <3>1, <3>2
  <2> QED
      BY <2>1 DEF RequestsLearnNothing
<1>9. NobodyUnlinks
  <2>1. ASSUME NEW n \in Media, request'["cleanup"][n].phase = "unlinking"
        PROVE  request'["cleanup"][n] = request["cleanup"][n]
    <3>1. ~ ("cleanup" = k /\ n = m)
        BY <1>3, <2>1, Calls DEF Becomes
    <3> QED
        BY <1>0, <1>3, <3>1 DEF Becomes
  <2>2. ASSUME NEW n \in Media
        PROVE  request'["recover"][n].path \in {NoPath, request["recover"][n].path}
    <3>1. CASE k = "recover" /\ n = m
        BY <1>3, <3>1, Calls DEF Becomes
    <3>2. CASE ~ (k = "recover" /\ n = m)
        BY <1>0, <1>3, <3>2 DEF Becomes
    <3> QED
        BY <3>1, <3>2
  <2>3. UNCHANGED job
      BY <1>1 DEF jobVars
  <2> QED
      BY <2>1, <2>2, <2>3 DEF NobodyUnlinks
<1>10. Disk'
  <2>1. CASE k = "cleanup"
    <3>1. /\ path = Source(m)
          /\ <<"media_file", m>> \in reverted \/ entry[m].media_file = Output(m)
        BY <1>1, <2>1 DEF Disk, OwnUnlinks
    <3> HIDE DEF path
    <3> QED
        BY <1>1, <1>2, <1>7, <1>8, <1>9, <3>1, SourceDisk
  <2>2. CASE k = "recover" /\ path = NoPath
    <3>1. \A p \in Path : files'[p] = files[p]
        BY <1>2, <2>2, Paths
    <3>2. files' = files
        BY <1>1, <3>1 DEF TypeOK
    <3>3. Stored(m, entry[m]) /\ entry[m] \in Entry /\ entry[m] \in Seen(m)
        BY <1>1, NothingStored, EntryKnown
    <3>4. \A j \in Job : job'[j].phase \in {"repointing", "unlinking"} =>
            /\ job'[j] = job[j] /\ job[j].media \in Media
            /\ job[j].input = Source(job[j].media)
        BY <1>9, TaskOf DEF NobodyUnlinks, Disk, OwnUnlinks
    <3>5. \A n \in Media : request'["cleanup"][n].phase = "unlinking" =>
            /\ request'["cleanup"][n].path = Source(n)
            /\ request["cleanup"][n].phase = "unlinking"
        BY <1>9 DEF NobodyUnlinks, Disk, OwnUnlinks
    <3>6. \A n \in Media :
            request'["recover"][n].path \in {NoPath, request["recover"][n].path}
        BY <1>9 DEF NobodyUnlinks
    <3> QED
        BY <1>1, <1>7, <1>8, <3>2, <3>3, <3>4, <3>5, <3>6, DiskKept
  <2>3. CASE k = "recover" /\ path # NoPath
    <3>1. path = Output(m) /\ ~ Clean(m)
        BY <2>3 DEF Disk, OwnUnlinks
    <3> HIDE DEF path
    <3>2. ASSUME NEW j \in Job, Running(j)'
          PROVE  /\ Running(j) /\ job'[j].media = job[j].media
                 /\ \/ WritesOn(j) /\ (Clean(m) => ~ Same(job[j].media, m))
                    \/ Same(job[j].media, m) /\ ~ Clean(m) /\ WritesOn(j)
        BY <1>7, <3>1, <3>2 DEF WritesOn
    <3> QED
        BY <1>1, <1>2, <1>7, <1>8, <1>9, <3>1, <3>2, OutputDisk
  <2> QED
      BY <2>1, <2>2, <2>3
<1> QED
    BY <1>5, <1>6, <1>10 DEF Sound

-----------------------------------------------------------------------------
(* The invariant holds.                                                      *)

LEMMA InitInv == Init => IInv
<1> SUFFICES ASSUME Init PROVE IInv
    OBVIOUS
<1> USE DEF Init
<1>1. \A j \in Job : job[j] = Idle /\ job[j].phase = "idle" /\ job[j].copy = NoCopy
    BY DEF Idle
<1>2. \A k \in Kind, m \in Media : request[k][m] = NoCall
    BY DEF NoCalls
<1>3. ASSUME NEW m \in Media
      PROVE  /\ entry[m] \in Entry /\ entry[m].media_file = Source(m)
             /\ entry[m].versions = {} /\ entry[m].transcoded = NoPath
             /\ entry[m].state # "transcoding"
  <2> DEFINE E == [state : {"pending", "skipped", "unavailable"},
                   media_file : Path, transcoded : {NoPath}, versions : {{}}]
  <2>1. entry[m] \in E /\ entry[m].media_file = Source(m)
      OBVIOUS
  <2>2. \A e \in E : e \in Entry /\ e.versions = {} /\ e.transcoded = NoPath
                     /\ e.state # "transcoding"
      BY DEF Entry
  <2> QED
      BY <2>1, <2>2
<1>4. TypeOK
  <2>1. {j \in Job : Unfinished(j) /\ job[j].phase \notin {"asked", "spawned", "queued"}} = {}
      BY <1>1 DEF Unfinished
  <2>2. Cardinality({}) <= concurrency
      BY FS_EmptySet, Constants
  <2>3. files \in [Path -> {"none", "partial", "stub", "whole"}]
      OBVIOUS
  <2>4. job \in [Job -> Task \cup {Idle}] /\ job_rx \in Seq(Job)
        /\ crashes \in 0 .. MaxCrashes /\ requests \in 0 .. MaxRequests
      BY Constants
  <2>5. entry \in [Media -> Entry]
    <3>1. DOMAIN entry = Media /\ entry = [m \in DOMAIN entry |-> entry[m]]
        OBVIOUS
    <3> QED
        BY <1>3, <3>1
  <2>6. request \in [Kind -> [Media -> Call]]
      BY Calls
  <2> QED
      BY <2>1, <2>2, <2>3, <2>4, <2>5, <2>6 DEF TypeOK
<1>5. Flow
  <2>1. Untouched
      BY <1>1 DEF Untouched, Early
  <2>2. TranscodingWillEnd
      BY <1>3 DEF TranscodingWillEnd
  <2>3. ChannelHoldsQueued /\ TokensAreLive
      BY DEF ChannelHoldsQueued, TokensAreLive
  <2> QED
      BY <2>1, <2>2, <2>3 DEF Flow
<1>6. Disk
  <2>1. AllKnowable
    <3> SUFFICES ASSUME NEW m \in Media, NEW e \in Seen(m)
                 PROVE  Knowable(m, e)
        BY DEF AllKnowable
    <3>1. e = entry[m]
        BY <1>1, <1>2, Calls DEF Seen, Unfinished
    <3> QED
        BY <1>3, <3>1, Paths DEF Knowable
  <2>2. OneWriter /\ OutputFollowsJob
      BY <1>1 DEF OneWriter, OutputFollowsJob, Running, Done
  <2>3. OwnUnlinks
      BY <1>1, <1>2, Calls DEF OwnUnlinks, Kind
  <2>4. SourcesStay
      BY Paths DEF SourcesStay
  <2> QED
      BY <2>1, <2>2, <2>3, <2>4 DEF Disk
<1>7. DownIsIdle
    BY DEF DownIsIdle
<1> QED
    BY <1>4, <1>5, <1>6, <1>7 DEF IInv, Sound

LEMMA JobStepInv ==
  ASSUME Sound, NEW j \in Job, JobStep(j)
  PROVE  Sound'
<1>1. CASE \/ SetPending(j) \/ SetUnavailable(j) \/ Progress(j) \/ SetFailed(j)
           \/ SetReady(j)
    BY <1>1, UpdateSteps
<1>2. CASE StoreDetails(j) \/ AddVersion(j) \/ RepointsEntry(j)
    BY <1>2, PutSteps
<1>3. CASE Submit(j) \/ StartJob(j) \/ SetTranscoding(j) \/ InsertToken(j)
    BY <1>3, SubmitStep, StartJobStep, SetTranscodingStep, InsertTokenStep
<1>4. CASE JobReads(j) \/ WeighsSource(j) \/ UnlinkSource(j)
    BY <1>4, ReadSteps, WeighsSourceStep, UnlinkSourceStep
<1> QED
    BY <1>1, <1>2, <1>3, <1>4 DEF JobStep

LEMMA RecoversInv ==
  ASSUME Sound, Recovers
  PROVE  Sound'
<1>1. ASSUME NEW m \in Media,
             RequestReads("recover", m) \/ ResetStuck(m) \/ RequestUnlinks("recover", m)
      PROVE  Sound'
    BY <1>1, RequestReadsStep, RequestUpdatesStep, RequestUnlinksStep
<1> QED
    BY <1>1, ListStuckStep DEF Recovers

(* Nothing runs while the server is down.                                    *)
LEMMA DownKept ==
  ASSUME Next, server' = "down"
  PROVE  \A j \in Job : ~ Unfinished(j)'
<1>1. CASE Crash
    BY <1>1 DEF Crash, Unfinished, Idle
<1>2. ASSUME NEW m \in Media,
             \/ Request(m) \/ CancelTranscode(m) \/ StopGroup(m) \/ OtherRequest(m)
             \/ ListForCleanup(m)
      PROVE  FALSE
    BY <1>2 DEF Request, CancelTranscode, StopGroup, OtherRequest, ListForCleanup, Begins,
               Asks, serverVars
<1>3. ASSUME NEW m \in Media, NEW k, RequestReads(k, m) \/ RequestUnlinks(k, m)
      PROVE  FALSE
    BY <1>3 DEF RequestReads, RequestUnlinks, Alive, serverVars
<1>4. ASSUME NEW m \in Media,
             \/ SetCancelled(m) \/ OtherWrites(m) \/ CleanupRepoints(m) \/ CleanupSkips(m)
             \/ ResetStuck(m) \/ ListStuck
      PROVE  FALSE
    BY <1>4 DEF SetCancelled, OtherWrites, CleanupRepoints, CleanupSkips, ResetStuck,
               ListStuck, Alive, serverVars
<1>5. ASSUME NEW j \in Job,
             \/ SetPending(j) \/ Submit(j) \/ StartJob(j) \/ SetUnavailable(j)
             \/ JobReads(j) \/ StoreDetails(j)
             \/ SetTranscoding(j) \/ InsertToken(j) \/ Progress(j)
      PROVE  FALSE
    BY <1>5 DEF SetPending, Submit, StartJob, SetUnavailable, JobReads, StoreDetails,
               SetTranscoding, InsertToken, Progress, Updates, Writes, Alive, serverVars
<1>6. ASSUME NEW j \in Job,
             \/ SetFailed(j) \/ SetReady(j) \/ AddVersion(j)
             \/ WeighsSource(j) \/ RepointsEntry(j) \/ UnlinkSource(j)
             \/ FfmpegOpens(j) \/ ReadsProgress(j) \/ FfmpegEnds(j)
      PROVE  FALSE
    BY <1>6 DEF SetFailed, SetReady, AddVersion, WeighsSource, RepointsEntry, UnlinkSource,
               FfmpegOpens, ReadsProgress, FfmpegEnds, FfmpegSucceeds, FfmpegFails,
               Updates, Writes, Alive, serverVars
<1>7. CASE Restart \/ CancelAll
    BY <1>7 DEF Restart, CancelAll
<1>8. CASE Recovers
  <2>1. CASE ListStuck
    <3> PICK m \in Media : TRUE
        BY TranscodeAssumption
    <3> QED
        BY <1>4, <2>1
  <2> QED
      BY <1>3, <1>4, <1>8, <2>1 DEF Recovers
<1> QED
    BY <1>1, <1>2, <1>3, <1>4, <1>5, <1>6, <1>7, <1>8 DEF Next, JobStep

LEMMA NextInv == IInv /\ [Next]_vars => IInv'
<1> SUFFICES ASSUME IInv, [Next]_vars PROVE IInv'
    OBVIOUS
<1> Sound /\ DownIsIdle
    BY DEF IInv
<1>1. ASSUME NEW m \in Media,
             \/ Request(m) \/ CancelTranscode(m) \/ StopGroup(m) \/ OtherRequest(m)
             \/ ListForCleanup(m)
      PROVE  Sound'
    BY <1>1, RequestStep, CancelTranscodeStep, StopGroupStep, RequestBeginsStep
<1>2. ASSUME NEW m \in Media,
             \/ \E k \in {"cancel", "other"} : RequestReads(k, m)
             \/ SetCancelled(m) \/ OtherWrites(m) \/ CleanupRepoints(m) \/ CleanupSkips(m)
             \/ RequestUnlinks("cleanup", m)
      PROVE  Sound'
    BY <1>2, RequestReadsStep, RequestUpdatesStep, OtherWritesStep, CleanupRepointsStep,
       CleanupSkipsStep, RequestUnlinksStep
<1>3. ASSUME NEW j \in Job,
             JobStep(j) \/ FfmpegOpens(j) \/ ReadsProgress(j) \/ FfmpegEnds(j)
      PROVE  Sound'
    BY <1>3, JobStepInv, FfmpegOpensStep, ReadSteps, FfmpegEndsStep
<1>4. ASSUME CancelAll \/ Crash \/ Restart \/ Recovers
      PROVE  Sound'
  <2>1. CASE CancelAll
      BY <2>1, CancelAllStep
  <2>2. CASE Crash
      BY <2>2, CrashStep
  <2>3. CASE Restart
      BY <2>3, RestartStep
  <2>4. CASE Recovers
      BY <2>4, RecoversInv
  <2> QED
      BY <1>4, <2>1, <2>2, <2>3, <2>4
<1>5. CASE UNCHANGED vars
  <2>1. UNCHANGED <<entry, files, job, job_rx, cancel_tokens, request, server, ffmpeg,
                    concurrency, crashes, requests, exposed, reverted>>
      BY <1>5 DEF vars, jobVars, serverVars
  <2>2. CASE server = "down"
    <3>1. Sound'
      <4>1. TypeOK'
          BY <2>1 DEF Sound, TypeOK, Unfinished
      <4>2. Flow'
          BY <2>1 DEF Sound, Flow, ChannelHoldsQueued, Untouched, TokensAreLive,
                     TranscodingWillEnd, WillEnd
      <4>3. Disk'
        <5>1. AllKnowable'
            BY <2>1 DEF Sound, Disk, AllKnowable, Seen, Unfinished, Knowable, Clean, Same,
                       Finished
        <5>2. OwnUnlinks' /\ SourcesStay'
            BY <2>1 DEF Sound, Disk, OwnUnlinks, SourcesStay, Clean, Same
        <5>3. OneWriter' /\ OutputFollowsJob'
            BY <2>1 DEF Sound, Disk, OneWriter, OutputFollowsJob, Running, Clean, Same,
                       Finished
        <5> QED
            BY <5>1, <5>2, <5>3 DEF Disk
      <4> QED
          BY <4>1, <4>2, <4>3 DEF Sound
    <3> QED
        BY <2>1, <2>2, <3>1 DEF IInv, DownIsIdle, Unfinished
  <2>3. CASE server # "down"
    <3>1. JobsStay /\ TokensAreLive' /\ cancel_tokens' \in [Media -> Job \cup {NoJob}]
        BY <2>1, UnchangedStay DEF Sound
    <3>2. server' \in {"up", "stopping"}
        BY <2>1, <2>3 DEF Sound, TypeOK
    <3>3. Sound'
        BY <2>1, <2>3, <3>1, <3>2, StopAny
    <3> QED
        BY <2>1, <2>3, <3>3 DEF IInv, DownIsIdle
  <2> QED
      BY <2>2, <2>3
<1>6. CASE Next
  <2>1. \/ \E m \in Media :
             \/ Request(m) \/ CancelTranscode(m) \/ StopGroup(m) \/ OtherRequest(m)
             \/ ListForCleanup(m)
        \/ \E m \in Media :
             \/ \E k \in {"cancel", "other"} : RequestReads(k, m)
             \/ SetCancelled(m) \/ OtherWrites(m) \/ CleanupRepoints(m) \/ CleanupSkips(m)
             \/ RequestUnlinks("cleanup", m)
        \/ \E j \in Job :
             JobStep(j) \/ FfmpegOpens(j) \/ ReadsProgress(j) \/ FfmpegEnds(j)
        \/ CancelAll \/ Crash \/ Restart \/ Recovers
      BY <1>6 DEF Next
  <2>2. Sound'
      BY <1>1, <1>2, <1>3, <1>4, <2>1
  <2>3. DownIsIdle'
      BY <1>6, DownKept DEF DownIsIdle
  <2> QED
      BY <2>2, <2>3 DEF IInv
<1> QED
    BY <1>5, <1>6

LEMMA Invariance == Spec => []IInv
<1> QED
    BY InitInv, NextInv, PTL DEF Spec

-----------------------------------------------------------------------------
(* The variables keep their types, and never do more jobs hold a permit than *)
(* transcode_concurrency allows (runner.rs:62-127).                          *)
THEOREM JobsHoldPermits == Spec => []TypeOK
<1>1. IInv => TypeOK
    BY DEF IInv, Sound
<1> QED
    BY Invariance, <1>1, PTL

(* Whatever requests, jobs, clean-ups and restarts read of an entry and      *)
(* write back later: it is not left transcoding without a job that will end  *)
(* that, unless the write of a stale copy has put its state back             *)
(* (store.rs:94-115, 161-261, runner.rs:152-364, library.rs:117-159).        *)
THEOREM TranscodingEnds == Spec => []TranscodingHasAJob
<1>1. IInv => TranscodingHasAJob
  <2>1. \A j \in Job, m \in Media : WillEnd(j, m) =>
          /\ job[j].phase \in {"started", "encoding", "failed", "subtitled", "ended"}
          /\ job[j].media = m
      BY DEF WillEnd
  <2> QED
      BY <2>1 DEF IInv, Sound, Flow, TranscodingWillEnd, TranscodingHasAJob
<1> QED
    BY Invariance, <1>1, PTL

(* A token in cancel_tokens is that of an encoding job of its entry which    *)
(* nobody has stopped (runner.rs:263, 294, 109-127).                         *)
THEOREM NoTokenIsLeftBehind == Spec => []TokensAreLive
<1>1. IInv => TokensAreLive
    BY DEF IInv, Sound, Flow
<1> QED
    BY Invariance, <1>1, PTL

(* However many entries share a title, whoever cancels, crashes or cleans up *)
(* meanwhile, and whatever copies are written back late: the file an entry   *)
(* plays is whole unless the entry was exposed in one of the ways that       *)
(* Exposes and CleanupRepoints name, or a stale copy has put its media_file  *)
(* back (runner.rs:31-60, 152-171, 228-358; cleanup.rs:43-52;                *)
(* store.rs:94-115, 231-261; library.rs:116-191).                            *)
THEOREM FilmsAreKept == Spec => []OnlyExposedLoseTheirFile
<1>1. IInv => OnlyExposedLoseTheirFile
  <2> SUFFICES ASSUME IInv, NEW m \in Media \ exposed, <<"media_file", m>> \notin reverted
               PROVE  files[entry[m].media_file] = "whole"
      BY DEF OnlyExposedLoseTheirFile
  <2>1. Knowable(m, entry[m])
      BY EntryKnown DEF IInv, Sound
  <2>2. entry[m].media_file = Output(m) \/ files[Source(m)] = "whole"
      BY DEF IInv, Sound, Disk, SourcesStay
  <2> QED
      BY <2>1, <2>2 DEF Knowable
<1> QED
    BY Invariance, <1>1, PTL
=============================================================================
