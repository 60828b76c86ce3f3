----------------------------- MODULE Transcode ------------------------------
(***************************************************************************)
(* Transcode jobs, the library entries they work for and the files on disk: *)
(* transcode/runner.rs and job.rs, the requests of web/api/transcode.rs and *)
(* cleanup_sources of web/api/library.rs, the state machine of              *)
(* Store::update_transcode_state, and cleanup.rs.                           *)
(*                                                                          *)
(* The store locks nothing between the read of an entry and the write of    *)
(* the whole of it (store.rs:94-115), so each is a step here, and another   *)
(* task may run between.  Remux and encode differ in nothing the store or   *)
(* the disk shows.  ffmpeg is external: it refuses to write over its own    *)
(* input, and a file it has been told to write stays partial until it ends. *)
(***************************************************************************)
EXTENDS Naturals, FiniteSets, Sequences

CONSTANTS
  Media,        \* library entries
  Title,        \* [Media -> titles], which name the output files
  Concurrency,  \* bound: of the setting transcode_concurrency
  MaxJobs,      \* bound: unfinished jobs at a time
  MaxRequests,  \* bound: requests in all
  MaxCrashes    \* bound: crashes of the server

ASSUME TranscodeAssumption ==
  /\ IsFiniteSet(Media) /\ Media # {}
  /\ DOMAIN Title = Media
  /\ Concurrency \in Nat \ {0}
  /\ MaxJobs \in Nat \ {0} /\ MaxRequests \in Nat /\ MaxCrashes \in Nat

Job == 1 .. MaxJobs
NoJob == 0
Source(m) == <<"source", m>>
Output(m) == <<"output", Title[m]>>
Path == {Source(m) : m \in Media} \cup {Output(m) : m \in Media}
NoPath == <<"no path">>

(* MediaEntry: transcode_state, the file that is played, transcoded_path and *)
(* the values of the versions map.                                           *)
Entry == [state : {"pending", "transcoding", "ready", "failed", "unavailable", "skipped"},
          media_file : Path, transcoded : Path \cup {NoPath}, versions : SUBSET Path]
NoCopy == [state |-> "none"]

(* A job names the call it makes or waits for next; copy is the entry it has *)
(* read and not written back yet.                                            *)
Phase == {"asked", "spawned", "queued", "unavailable", "probed", "starting", "started",
          "encoding", "failed", "subtitled", "ended", "versioned", "coded", "reclaiming",
          "repointing", "unlinking"}
Task == [media : Media, input : Path, phase : Phase, writing : BOOLEAN,
         stopped : BOOLEAN, copy : Entry \cup {NoCopy}]
Idle == [phase |-> "idle", copy |-> NoCopy]

(* What else writes an entry: cancel_transcode; cleanup_sources; a handler   *)
(* that changes fields not shown here, such as update_play_progress; the     *)
(* recovery of a restart.  Bound: one of each kind for an entry at a time.   *)
Kind == {"cancel", "cleanup", "other", "recover"}
Call == [phase : {"none", "waiting", "asked", "unlinking"}, copy : Entry \cup {NoCopy},
         path : Path \cup {NoPath}]
NoCall == [phase |-> "none", copy |-> NoCopy, path |-> NoPath]
NoCalls == [k \in Kind |-> [m \in Media |-> NoCall]]

VARIABLES
  entry,       \* [Media -> Entry]
  files,       \* the disk: "none", "partial", "stub" (below 1 MiB), "whole"
  (* the jobs *)
  job,         \* unfinished ones as records: the entry (media_id), the
               \* input_path, the phase, whether ffmpeg has opened the output,
               \* whether the token is cancelled, and the copy
  job_rx,      \* the channel to the runner
  cancel_tokens,
  request,     \* [Kind -> [Media -> Call]], path the file it is to unlink
  (* the server *)
  server,      \* "up", "stopping", "down"
  ffmpeg,      \* ffmpeg_available, cached for the life of the process
  concurrency, \* permits of the semaphore, from the settings at the start
  crashes,
  requests,    \* so far
  (* history, read by no action *)
  exposed,     \* entries whose file was put at risk, see Exposes
  reverted     \* <<field, entry>> that a stale copy was written over, see Put

jobVars == <<job, job_rx, cancel_tokens>>
serverVars == <<server, ffmpeg, concurrency, crashes, requests>>
vars == <<entry, files, jobVars, request, serverVars, exposed, reverted>>

Unfinished(j) == job[j].phase # "idle"

(* Mutants: a job takes its permit when it is put into the channel; it gives *)
(* it back as soon as ffmpeg has ended.                                      *)
TakenEarly == {j \in Job : Unfinished(j) /\ job[j].phase \notin {"asked", "spawned"}}
GivenBackEarly ==
  {j \in Job : job[j].phase \in {"unavailable", "probed", "starting", "started", "encoding"}}

(* Jobs that hold a permit of the semaphore.                                 *)
Permits == {j \in Job : Unfinished(j) /\ job[j].phase \notin {"asked", "spawned", "queued"}}

TypeOK ==
  /\ entry \in [Media -> Entry]
  /\ files \in [Path -> {"none", "partial", "stub", "whole"}]
  /\ job \in [Job -> Task \cup {Idle}]
  /\ job_rx \in Seq(Job)
  /\ cancel_tokens \in [Media -> Job \cup {NoJob}]
  /\ request \in [Kind -> [Media -> Call]]
  /\ server \in {"up", "stopping", "down"} /\ ffmpeg \in BOOLEAN
  /\ concurrency \in 1 .. Concurrency
  /\ crashes \in 0 .. MaxCrashes /\ requests \in 0 .. MaxRequests
  /\ exposed \subseteq Media
  /\ reverted \subseteq {"state", "media_file"} \X Media
  /\ Cardinality({j \in Job : Unfinished(j)
                     /\ job[j].phase \notin {"asked", "spawned", "queued"}}) <= concurrency

(* A finished download or a library scan has made the entries: skipped if    *)
(* browsers play the file, unavailable if there was no ffmpeg.               *)
Init ==
  /\ entry \in [Media -> [state : {"pending", "skipped", "unavailable"},
                          media_file : Path, transcoded : {NoPath}, versions : {{}}]]
  /\ \A m \in Media : entry[m].media_file = Source(m)
  /\ files = [p \in Path |-> IF p \in {Source(m) : m \in Media} THEN "whole" ELSE "none"]
  /\ job = [j \in Job |-> Idle] /\ job_rx = <<>>
  /\ cancel_tokens = [m \in Media |-> NoJob]
  /\ request = NoCalls
  /\ server = "up" /\ ffmpeg \in BOOLEAN /\ concurrency \in 1 .. Concurrency
  /\ crashes = 0 /\ requests = 0
  /\ exposed = {} /\ reverted = {}

Alive == server # "down"

-----------------------------------------------------------------------------
(* The store.                                                                *)

(* put_media of e, made from the copy c of entry m.  The fields kept are as  *)
(* the copy has them: one that has changed since is put back.                *)
Put(m, c, e, kept) ==
  /\ entry' = [entry EXCEPT ![m] = e]
  /\ reverted' = reverted \cup {<<f, m>> : f \in {g \in kept : c[g] # entry[m][g]}}

(* Store::update_transcode_state makes these transitions; it logs and        *)
(* ignores any other.                                                        *)
Transition(old, new) ==
  \/ new \in {"transcoding", "pending"}
  \/ old = "transcoding" /\ new \in {"ready", "failed"}
  \/ old = "pending" /\ new = "unavailable"

Updated(m, c, new) ==
  [c EXCEPT !.state = new, !.transcoded = IF new = "ready" THEN Output(m) ELSE @]

Update(m, c, new) ==
  IF Transition(c.state, new) THEN Put(m, c, Updated(m, c, new), {"media_file"})
  ELSE UNCHANGED <<entry, reverted>>

-----------------------------------------------------------------------------
(* The requests.                                                             *)

Asks ==
  /\ server = "up" /\ requests < MaxRequests
  /\ requests' = requests + 1
  /\ UNCHANGED <<server, ffmpeg, concurrency, crashes>>

(* manual_transcode, transcode_all and the auto-transcode of an import read  *)
(* the entry and make a job for the file it plays.  Only the import, of an   *)
(* entry it has made pending, submits without an update.                     *)
Request(m) ==
  /\ Asks
  /\ entry[m].state # "transcoding"
  /\ \E j \in Job, phase \in {"asked", "spawned"} :
       /\ ~ Unfinished(j) /\ \A k \in 1 .. j - 1 : Unfinished(k)
       /\ phase = "spawned" => entry[m].state = "pending"
       /\ job' = [job EXCEPT ![j] = [media |-> m, input |-> entry[m].media_file,
                                     phase |-> phase, writing |-> FALSE,
                                     stopped |-> FALSE, copy |-> NoCopy]]
  /\ UNCHANGED <<entry, files, job_rx, cancel_tokens, request, exposed, reverted>>

(* The task that each request spawns to put its job into the channel.        *)
Submit(j) ==
  /\ Alive /\ job[j].phase = "spawned"
  /\ job_rx' = Append(job_rx, j)
  /\ job' = [job EXCEPT ![j].phase = "queued"]
  /\ UNCHANGED <<entry, files, cancel_tokens, request, serverVars, exposed, reverted>>

(* TranscodeHandle::cancel.                                                  *)
Cancelled(J) == [j \in Job |-> IF j \in J THEN [job[j] EXCEPT !.stopped = TRUE] ELSE job[j]]

Stop(m) ==
  /\ job' = Cancelled({cancel_tokens[m]})
  /\ cancel_tokens' = [cancel_tokens EXCEPT ![m] = NoJob]

(* A request of kind k for entry m, path the file it is to unlink.           *)
Begins(k, m, phase, copy, path) ==
  /\ Asks /\ request[k][m].phase = "none"
  /\ request' = [request EXCEPT ![k][m] = [phase |-> phase, copy |-> copy, path |-> path]]

(* cancel_transcode marks the entry failed, whether or not a token was there.*)
CancelTranscode(m) ==
  /\ Begins("cancel", m, "asked", NoCopy, NoPath)
  /\ Stop(m)
  /\ UNCHANGED <<entry, files, job_rx, exposed, reverted>>

(* stop_group_transcode leaves the state to the job.  The list it goes by    *)
(* may be old, so the state of the entry now is no guard.                    *)
StopGroup(m) ==
  /\ server = "up"
  /\ Stop(m)
  /\ UNCHANGED <<entry, files, job_rx, request, serverVars, exposed, reverted>>

OtherRequest(m) ==
  /\ Begins("other", m, "asked", NoCopy, NoPath)
  /\ UNCHANGED <<entry, files, jobVars, exposed, reverted>>

(* The get of a request's store call.                                        *)
RequestReads(k, m) ==
  /\ Alive /\ request[k][m].phase = "asked" /\ request[k][m].copy = NoCopy
  /\ request' = [request EXCEPT ![k][m].copy = entry[m]]
  /\ UNCHANGED <<entry, files, jobVars, serverVars, exposed, reverted>>

SetCancelled(m) ==
  LET c == request["cancel"][m].copy
  IN  /\ Alive /\ c # NoCopy
      /\ Update(m, c, "failed")
      /\ request' = [request EXCEPT !["cancel"][m] = NoCall]
      /\ UNCHANGED <<files, jobVars, serverVars, exposed>>

OtherWrites(m) ==
  LET c == request["other"][m].copy
  IN  /\ Alive /\ c # NoCopy
      /\ Put(m, c, c, {"state", "media_file"})
      /\ request' = [request EXCEPT !["other"][m] = NoCall]
      /\ UNCHANGED <<files, jobVars, serverVars, exposed>>

(* redundant_source: the file played, unless it is the output or a version.  *)
Redundant(c, output) == c.media_file # output /\ c.media_file \notin c.versions

(* cleanup_sources lists all entries.  An entry of the list is a request of  *)
(* its own here, whatever becomes of the others.                             *)
ListForCleanup(m) ==
  /\ Begins("cleanup", m, "asked", entry[m], NoPath)
  /\ UNCHANGED <<entry, files, jobVars, exposed, reverted>>

(* The entry as it was listed is put back, to play the output.               *)
CleanupRepoints(m) ==
  LET c == request["cleanup"][m].copy
  IN  /\ Alive /\ c # NoCopy
      /\ c.state = "ready" \/ c.versions # {}
      /\ \E output \in Path :
           /\ IF c.transcoded # NoPath THEN output = c.transcoded ELSE output \in c.versions
           /\ Redundant(c, output)
           /\ Put(m, c, [c EXCEPT !.media_file = output], {"state"})
           /\ exposed' = IF files[output] = "whole" THEN exposed ELSE exposed \cup {m}
      /\ request' = [request EXCEPT !["cleanup"][m] =
                       [phase |-> "unlinking", copy |-> NoCopy, path |-> c.media_file]]
      /\ UNCHANGED <<files, jobVars, serverVars>>

(* It goes on to the next entry: this one has no output, or plays it.        *)
CleanupSkips(m) ==
  LET c == request["cleanup"][m].copy
  IN  /\ Alive /\ c # NoCopy
      /\ \/ c.state # "ready" /\ c.versions = {}
         \/ c.transcoded = NoPath /\ c.versions = {}
         \/ c.transcoded # NoPath /\ ~ Redundant(c, c.transcoded)
         \/ c.transcoded = NoPath /\ \E p \in c.versions : ~ Redundant(c, p)
      /\ request' = [request EXCEPT !["cleanup"][m] = NoCall]
      /\ UNCHANGED <<entry, files, jobVars, serverVars, exposed, reverted>>

(* A clean-up unlinks the source, a recovery the file of an earlier success. *)
RequestUnlinks(k, m) ==
  /\ Alive /\ request[k][m].phase = "unlinking"
  /\ files' = [p \in Path |-> IF p = request[k][m].path THEN "none" ELSE files[p]]
  /\ request' = [request EXCEPT ![k][m] = NoCall]
  /\ UNCHANGED <<entry, jobVars, serverVars, exposed, reverted>>

-----------------------------------------------------------------------------
(* A job.                                                                    *)

(* Job j goes on to another phase, or is over and gives its permit back.     *)
GoesOn(j, phase) ==
  job' = [job EXCEPT ![j] = IF phase = "idle" THEN Idle
                            ELSE [@ EXCEPT !.phase = phase, !.copy = NoCopy]]

(* The get of a job's store call.                                            *)
JobReads(j) ==
  /\ Alive /\ job[j].copy = NoCopy
  /\ job[j].phase \in {"asked", "unavailable", "probed", "starting", "failed", "subtitled",
                      "ended", "versioned", "coded", "reclaiming"}
  /\ job' = [job EXCEPT ![j].copy = entry[job[j].media]]
  /\ UNCHANGED <<entry, files, job_rx, cancel_tokens, request, serverVars, exposed,
                 reverted>>

(* Its put, and that of the update it makes of the state in one phase.       *)
Writes(j, e, kept, phase) ==
  /\ Alive /\ job[j].copy # NoCopy
  /\ Put(job[j].media, job[j].copy, e, kept)
  /\ GoesOn(j, phase)

Updates(j, phase, new, next) ==
  /\ Alive /\ job[j].phase = phase /\ job[j].copy # NoCopy
  /\ Update(job[j].media, job[j].copy, new)
  /\ GoesOn(j, next)

SetPending(j) ==
  /\ Updates(j, "asked", "pending", "spawned")
  /\ UNCHANGED <<files, job_rx, cancel_tokens, request, serverVars, exposed>>

(* The runner receives a job once a permit is free, and spawns its task,     *)
(* which probes the input: it has codecs to store, or the probe has failed.  *)
StartJob(j) ==
  /\ Alive /\ job_rx # <<>> /\ j = Head(job_rx)
  /\ \A m \in Media : request["recover"][m].phase = "none"
  /\ Cardinality(Permits) < concurrency
  /\ job_rx' = Tail(job_rx)
  /\ \/ ffmpeg /\ \E phase \in {"probed", "starting"} : GoesOn(j, phase)
     \/ ~ ffmpeg /\ GoesOn(j, "unavailable")
  /\ UNCHANGED <<entry, files, cancel_tokens, request, serverVars, exposed, reverted>>

SetUnavailable(j) ==
  /\ Updates(j, "unavailable", "unavailable", "idle")
  /\ UNCHANGED <<files, job_rx, cancel_tokens, request, serverVars, exposed>>

(* A put that changes fields not shown here: the codecs probed, the subtitle *)
(* tracks, the codecs of the output.  After those, the job is over unless    *)
(* delete_source_after_transcode is set, now.                                *)
StoreDetails(j) ==
  /\ \E next \in {"starting", "ended", "reclaiming", "idle"} :
       /\ CASE job[j].phase = "probed" -> next = "starting"
            [] job[j].phase = "subtitled" -> next = "ended"
            [] job[j].phase = "coded" -> next \in {"reclaiming", "idle"}
            [] OTHER -> FALSE
       /\ Writes(j, job[j].copy, {"state", "media_file"}, next)
  /\ UNCHANGED <<files, job_rx, cancel_tokens, request, serverVars, exposed>>

(* The entries a starting job j puts at risk: its output is a file that is   *)
(* there, or that another job has started to write.                          *)
Exposes(j) ==
  LET output == Output(job[j].media)
      others == {k \in Job : /\ job[k].phase \in {"started", "encoding"}
                             /\ Output(job[k].media) = output}
  IN  {m \in Media : Output(m) = output /\ (others # {} \/ files[output] # "none")}

SetTranscoding(j) ==
  /\ Updates(j, "starting", "transcoding", "started")
  /\ exposed' = exposed \cup Exposes(j)
  /\ UNCHANGED <<files, job_rx, cancel_tokens, request, serverVars>>

(* The token is made and ffmpeg spawned.  A cancel request before this step  *)
(* finds no token.                                                           *)
InsertToken(j) ==
  /\ Alive /\ job[j].phase = "started"
  /\ cancel_tokens' = [cancel_tokens EXCEPT ![job[j].media] = j]
  /\ GoesOn(j, "encoding")
  /\ UNCHANGED <<entry, files, job_rx, request, serverVars, exposed, reverted>>

(* ffmpeg truncates its output, if its input is there and another file.      *)
FfmpegOpens(j) ==
  /\ Alive /\ job[j].phase = "encoding" /\ ~ job[j].writing
  /\ job[j].input # Output(job[j].media) /\ files[job[j].input] # "none"
  /\ files' = [files EXCEPT ![Output(job[j].media)] = "partial"]
  /\ job' = [job EXCEPT ![j].writing = TRUE]
  /\ UNCHANGED <<entry, job_rx, cancel_tokens, request, serverVars, exposed, reverted>>

(* A line of progress: the get and the put of its update.                    *)
ReadsProgress(j) ==
  /\ Alive /\ job[j].phase = "encoding" /\ job[j].writing /\ job[j].copy = NoCopy
  /\ job' = [job EXCEPT ![j].copy = entry[job[j].media]]
  /\ UNCHANGED <<entry, files, job_rx, cancel_tokens, request, serverVars, exposed,
                 reverted>>

Progress(j) ==
  /\ Updates(j, "encoding", "transcoding", "encoding")
  /\ UNCHANGED <<files, job_rx, cancel_tokens, request, serverVars, exposed>>

(* Mutant: the token is left in the map.                                     *)
KeepsToken(j) == cancel_tokens

(* The job is over: its entry's token goes, be it another job's.             *)
TokenRemoved(j) == [cancel_tokens EXCEPT ![job[j].media] = NoJob]

(* ffmpeg ends well.  Its output may have been unlinked under it, and may be *)
(* far too short.  Subtitles are extracted next, if there are any.           *)
FfmpegSucceeds(j) ==
  /\ Alive /\ job[j].phase = "encoding" /\ job[j].writing /\ job[j].copy = NoCopy
  /\ \E size \in {"stub", "whole"} :
       files' = [files EXCEPT ![Output(job[j].media)] = IF @ = "none" THEN @ ELSE size]
  /\ cancel_tokens' = TokenRemoved(j)
  /\ \E phase \in {"subtitled", "ended"} : GoesOn(j, phase)
  /\ UNCHANGED <<entry, job_rx, request, serverVars, exposed, reverted>>

(* ffmpeg fails, cannot be run, or is killed for a cancelled token: the file *)
(* at the output path is removed, whoever wrote it.                          *)
FfmpegFails(j) ==
  /\ Alive /\ job[j].phase = "encoding" /\ job[j].copy = NoCopy
  /\ files' = [files EXCEPT ![Output(job[j].media)] = "none"]
  /\ cancel_tokens' = TokenRemoved(j)
  /\ GoesOn(j, "failed")
  /\ UNCHANGED <<entry, job_rx, request, serverVars, exposed, reverted>>

SetFailed(j) ==
  /\ Updates(j, "failed", "failed", "idle")
  /\ UNCHANGED <<files, job_rx, cancel_tokens, request, serverVars, exposed>>

SetReady(j) ==
  /\ Updates(j, "ended", "ready", "versioned")
  /\ UNCHANGED <<files, job_rx, cancel_tokens, request, serverVars, exposed>>

(* Store::add_version, whatever became of Ready.                             *)
AddVersion(j) ==
  /\ job[j].phase = "versioned"
  /\ Writes(j, [job[j].copy EXCEPT !.versions = @ \cup {Output(job[j].media)}],
            {"state", "media_file"}, "coded")
  /\ UNCHANGED <<files, job_rx, cancel_tokens, request, serverVars, exposed>>

(* Mutant: whatever ffmpeg called a success is believed.                     *)
AnySize(p) == TRUE

(* The output is at least MIN_PLAUSIBLE_OUTPUT_BYTES long.                   *)
Plausible(p) == files[p] \in {"partial", "whole"}

(* reclaim_source looks whether there is a source to delete, repoints the    *)
(* entry, and then unlinks what the entry it read played.                    *)
WeighsSource(j) ==
  LET m == job[j].media
      c == job[j].copy
  IN  /\ Alive /\ job[j].phase = "reclaiming" /\ c # NoCopy
      /\ \/ /\ Redundant(c, Output(m)) /\ Plausible(Output(m))
            /\ job' = [job EXCEPT ![j].phase = "repointing", ![j].input = c.media_file]
         \/ /\ ~ (Redundant(c, Output(m)) /\ Plausible(Output(m)))
            /\ GoesOn(j, "idle")
      /\ UNCHANGED <<entry, files, job_rx, cancel_tokens, request, serverVars, exposed,
                     reverted>>

RepointsEntry(j) ==
  /\ job[j].phase = "repointing"
  /\ Writes(j, [job[j].copy EXCEPT !.media_file = Output(job[j].media)], {"state"},
            "unlinking")
  /\ UNCHANGED <<files, job_rx, cancel_tokens, request, serverVars, exposed>>

UnlinkSource(j) ==
  /\ Alive /\ job[j].phase = "unlinking"
  /\ files' = [files EXCEPT ![job[j].input] = "none"]
  /\ GoesOn(j, "idle")
  /\ UNCHANGED <<entry, job_rx, cancel_tokens, request, serverVars, exposed, reverted>>

-----------------------------------------------------------------------------
(* The server.                                                               *)

(* Ctrl-C: cancel_all.                                                       *)
CancelAll ==
  /\ server = "up" /\ crashes < MaxCrashes
  /\ server' = "stopping"
  /\ job' = Cancelled({cancel_tokens[m] : m \in Media})
  /\ cancel_tokens' = [m \in Media |-> NoJob]
  /\ UNCHANGED <<entry, files, job_rx, request, ffmpeg, concurrency, crashes, requests, exposed, reverted>>

(* The process ends, with or without CancelAll, and its tasks with it.       *)
Crash ==
  /\ Alive /\ crashes < MaxCrashes
  /\ server' = "down"
  /\ crashes' = crashes + 1
  /\ job' = [j \in Job |-> Idle] /\ job_rx' = <<>>
  /\ cancel_tokens' = [m \in Media |-> NoJob]
  /\ request' = NoCalls
  /\ UNCHANGED <<entry, files, ffmpeg, concurrency, requests, exposed, reverted>>

(* The server is back.  The runner recovers in a task of its own, while      *)
(* requests come in, and takes no job before it has.                         *)
Restart ==
  /\ server = "down"
  /\ server' = "up" /\ ffmpeg' \in BOOLEAN /\ concurrency' \in 1 .. Concurrency
  /\ request' = [NoCalls EXCEPT !["recover"] =
                   [m \in Media |-> [NoCall EXCEPT !.phase = "waiting"]]]
  /\ UNCHANGED <<entry, files, jobVars, crashes, requests, exposed, reverted>>

(* Mutant: recovery overlooks the entries that were ready once.              *)
StuckFirstTime ==
  {m \in Media : entry[m].state = "transcoding" /\ entry[m].transcoded = NoPath}

(* The entries that recover_stuck_transcodes finds.                          *)
Stuck == {m \in Media : entry[m].state = "transcoding"}

(* It lists all entries, ...                                                 *)
ListStuck ==
  /\ Alive /\ \E m \in Media : request["recover"][m].phase = "waiting"
  /\ request' = [request EXCEPT !["recover"] =
                   [m \in Media |->
                      IF m \in Stuck
                      THEN [phase |-> "asked", copy |-> NoCopy, path |-> entry[m].transcoded]
                      ELSE NoCall]]
  /\ UNCHANGED <<entry, files, jobVars, serverVars, exposed, reverted>>

(* ... and makes those stuck pending, one after the other.  The file of an   *)
(* earlier success is removed after that.                                    *)
ResetStuck(m) ==
  LET c == request["recover"][m].copy
  IN  /\ Alive /\ c # NoCopy
      /\ Update(m, c, "pending")
      /\ request' = [request EXCEPT !["recover"][m].phase = "unlinking",
                                    !["recover"][m].copy = NoCopy]
      /\ UNCHANGED <<files, jobVars, serverVars, exposed>>

-----------------------------------------------------------------------------
JobStep(j) ==
  \/ SetPending(j) \/ Submit(j) \/ StartJob(j) \/ SetUnavailable(j)
  \/ JobReads(j) \/ StoreDetails(j)
  \/ SetTranscoding(j) \/ InsertToken(j) \/ Progress(j)
  \/ SetFailed(j) \/ SetReady(j) \/ AddVersion(j)
  \/ WeighsSource(j) \/ RepointsEntry(j) \/ UnlinkSource(j)

FfmpegEnds(j) == FfmpegSucceeds(j) \/ FfmpegFails(j)

Recovers ==
  \/ ListStuck
  \/ \E m \in Media : RequestReads("recover", m) \/ ResetStuck(m) \/ RequestUnlinks("recover", m)

Next ==
  \/ \E m \in Media : \/ Request(m)
                      \/ CancelTranscode(m)
                      \/ StopGroup(m)
                      \/ OtherRequest(m)
                      \/ ListForCleanup(m)
                      \/ \E k \in {"cancel", "other"} : RequestReads(k, m)
                      \/ SetCancelled(m)
                      \/ OtherWrites(m)
                      \/ CleanupRepoints(m)
                      \/ CleanupSkips(m)
                      \/ RequestUnlinks("cleanup", m)
  \/ \E j \in Job : JobStep(j) \/ FfmpegOpens(j) \/ ReadsProgress(j) \/ FfmpegEnds(j)
  \/ CancelAll \/ Crash \/ Restart \/ Recovers

Spec == Init /\ [][Next]_vars

(* Tokio runs the tasks, and every ffmpeg ends some day, whatever lines of   *)
(* progress it writes until then.                                            *)
FairSpec ==
  /\ Spec
  /\ \A j \in Job : WF_vars(JobStep(j)) /\ SF_vars(FfmpegEnds(j))
  /\ WF_vars(Recovers)

-----------------------------------------------------------------------------
(* An entry shown as transcoding has a job that will end that, or waits for  *)
(* the recovery of the next start: no interleaving of requests, cancels and  *)
(* jobs leaves it transcoding for ever (store.rs:161-229, runner.rs:152-364),*)
(* but for the entries whose state a stale copy has put back.                *)
TranscodingHasAJob ==
  \A m \in Media : entry[m].state = "transcoding" =>
    \/ <<"state", m>> \in reverted
    \/ server = "down"
    \/ request["recover"][m].phase \in {"waiting", "asked"}
    \/ \E j \in Job : /\ job[j].phase \in {"started", "encoding", "failed", "subtitled",
                                          "ended"}
                     /\ job[j].media = m

(* cancel_tokens holds the tokens of running jobs only, under their entry:   *)
(* none is left behind, whichever job of an entry ends first (runner.rs:263, *)
(* 294, 109-127).                                                            *)
TokensAreLive ==
  \A m \in Media : cancel_tokens[m] # NoJob =>
    LET j == cancel_tokens[m]
    IN  job[j].phase = "encoding" /\ job[j].media = m /\ ~ job[j].stopped

(* The file an entry plays is there in full, but for                         *)
(*  - entries exposed: a job started over a file that was there, or beside   *)
(*    another job with the same output, or cleanup_sources repointed the     *)
(*    entry while the output was not whole;                                  *)
(*  - entries whose media_file a stale copy has put back.                    *)
(* These are the only ways to lose a film (runner.rs:31-60, 152-171,         *)
(* 296-358; cleanup.rs:43-52; library.rs:116-191).                           *)
OnlyExposedLoseTheirFile ==
  \A m \in Media \ exposed :
    \/ <<"media_file", m>> \in reverted
    \/ files[entry[m].media_file] = "whole"

(* Every job submitted ends, and its permit is free again.                   *)
EveryJobEnds == \A j \in Job : Unfinished(j) ~> ~ Unfinished(j)

(* library.rs:114-115: cleanup_sources "only deletes source files where a    *)
(* transcoded version (Ready state) exists".                                 *)
CleanupNeedsAVersion ==
  [][\A m \in Media : RequestUnlinks("cleanup", m) => files[Output(m)] # "none"]_vars
=============================================================================
