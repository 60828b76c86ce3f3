------------------------------ MODULE Library -------------------------------
(***************************************************************************)
(* The media library: entries in the store, files on disk, and the requests *)
(* and tasks that read an entry, work, and write the whole entry back.      *)
(* web/api/library.rs (scan, fix-paths, clean-up, delete, refresh),         *)
(* web/api/settings.rs (migrate), web/api/media.rs (progress, subtitles),   *)
(* delete_torrent, the library import of engine/manager.rs, and the update  *)
(* helpers of engine/store.rs.                                              *)
(*                                                                          *)
(* The handlers run on several threads and take no lock, so a read of an    *)
(* entry and the write that follows are two steps, with what changes on     *)
(* disk in between.  The files of one entry are moved or deleted in one     *)
(* step.  A transcode job is here its encode and one update of the store,   *)
(* and does not reclaim its source: Transcode has the rest of it.           *)
(***************************************************************************)
EXTENDS Naturals, FiniteSets

CONSTANTS
  Films,       \* the number of videos that exist, numbered by size, largest first
  Layouts,     \* possible worlds: [show, folder, stem : Film -> ...] tell the
               \* show that a file name speaks of and where the source lies
  NoShow,
  Payload,     \* the folder that the one torrent downloaded
  OutDir, NewDir, \* the transcode directory, and where migrate_media moves it
  MaxId,       \* bound: media ids; those of the first entries are the films'
  Slot,        \* requests that may be under way together
  MaxRequests, \* bound: requests in all
  MaxFaults    \* bound: crashes, failed moves, files removed by the user

Film == 1 .. Films

ASSUME LibraryAssumption ==
  /\ Films \in Nat /\ MaxId \in Nat /\ Films <= MaxId
  /\ \A l \in Layouts : DOMAIN l.show = Film /\ DOMAIN l.folder = Film /\ DOMAIN l.stem = Film
  /\ Slot \subseteq Nat
  /\ MaxRequests \in Nat /\ MaxFaults \in Nat

(* Sources are different files, and none lies where an output would go.      *)
ASSUME LayoutAssumption ==
  \A l \in Layouts : \A f, g \in Film :
    /\ f # g => <<l.folder[f], l.stem[f]>> # <<l.folder[g], l.stem[g]>>
    /\ l.folder[f] # OutDir \/ l.stem[f] # <<"transcode", l.stem[g]>>

VARIABLES
  layout,
  entry,         \* the library tree of the store
  disk,          \* the files that exist, and the film each one belongs to
  record,        \* whether the download record of the torrent exists
  transcode_dir, \* setting
  task,          \* requests under way
  fetch,         \* spawned TMDB lookups, at most one for an entry
  next_id,       \* the next fresh media id
  requests, faults,
  (* history, read by no action *)
  misled,        \* films for which a task acted on what was no longer true
  removed,       \* ids removed from the library
  played,        \* ids whose play position was stored
  deleted        \* films whose files a request or the user removed

settings == <<layout, record, transcode_dir>>
tasks == <<task, fetch>>
history == <<misled, removed, played, deleted>>
vars == <<settings, entry, disk, tasks, next_id, requests, faults, history>>

-----------------------------------------------------------------------------
(* Paths: directory, file stem, and 0 for a video or the number of a         *)
(* subtitle beside it.  An output is named for the title of the entry, which *)
(* comes from the name of the file: namesakes share their output path.       *)
NoPath == <<"no path">>
Source(f) == <<layout.folder[f], layout.stem[f], 0>>
OutPath(f) == <<transcode_dir, <<"transcode", layout.stem[f]>>, 0>>
Exists(p) == p \in DOMAIN disk
Videos(d) == {p \in DOMAIN disk : p[1] = d /\ p[3] = 0}
Without(S) == [p \in DOMAIN disk \ S |-> disk[p]]
With(p, f) == [q \in DOMAIN disk \cup {p} |-> IF q = p THEN f ELSE disk[q]]

Id == 1 .. MaxId
NoEntry == [film |-> 0]
NewEntry(f, file, download, group, subs) ==
  [film |-> f, media_file |-> file, transcoded |-> NoPath, versions |-> {},
   ready |-> NoPath, subtitles |-> subs, played |-> FALSE, download |-> download,
   group |-> group]
Present(m) == entry[m] # NoEntry
Entries == {m \in Id : Present(m)}

(* The videos of an entry, and owned_files of cleanup.rs.                    *)
Plays(e) == ({e.media_file, e.transcoded} \cup e.versions) \ {NoPath}
Owned(e) == Plays(e) \cup e.subtitles

(* What stream_media opens: a version, the output_path of TranscodeState::   *)
(* Ready (here e.ready), or the source if browsers play it.                  *)
Streams(e) ==
  IF e.versions # {} THEN e.versions
  ELSE {IF e.ready # NoPath THEN e.ready ELSE e.media_file}

(* Mutant: movies are grouped too.                                           *)
GroupOfAll(serial, f) == <<serial, layout.show[f]>>

(* The group_id that one scan gives to all the episodes of a show.           *)
GroupOf(serial, f) == IF layout.show[f] = NoShow THEN <<>> ELSE <<serial, layout.show[f]>>

(* detect_subtitle_files.                                                    *)
Sidecars(p) == {q \in DOMAIN disk : q[1] = p[1] /\ q[2] = p[2] /\ q[3] # 0}

-----------------------------------------------------------------------------
(* Tasks.                                                                    *)
Idle == [kind |-> "idle"]
Doing(kind, phase, S) ==
  [kind |-> kind, phase |-> phase, view |-> [m \in S |-> entry[m]], todo |-> S,
   at |-> 0, file |-> NoPath, out |-> NoPath, found |-> <<>>, serial |-> requests + 1,
   outdated |-> {}, left |-> {}]
Active(t) == task[t] # Idle
Is(t, kind, phase) == Active(t) /\ task[t].kind = kind /\ task[t].phase = phase
View(t) == task[t].view[task[t].at]
NoFetch == [phase |-> "none"]
Waiting(e, lookups) ==
  [phase |-> "waiting", copy |-> e, lookups |-> lookups, outdated |-> FALSE]

(* A request arrives.                                                        *)
Counted == requests < MaxRequests /\ requests' = requests + 1
Ask(t, d) ==
  /\ Counted
  /\ ~ Active(t) /\ \A u \in Slot : u < t => Active(u)
  /\ task' = [task EXCEPT ![t] = d]

(* History: what others have read of m is out of date once m is written.     *)
Told(T, U, m) ==
  [u \in Slot |-> IF u \in U /\ T[u] # Idle THEN [T[u] EXCEPT !.outdated = @ \cup {m}]
                  ELSE T[u]]
FetchTold(m) ==
  IF fetch[m].phase = "holding" THEN [fetch EXCEPT ![m].outdated = TRUE] ELSE fetch

(* t is done with m, and goes on to another entry if it has one left.        *)
DoneWith(t, m) ==
  LET left == task[t].todo \ {m}
  IN  IF left = {} THEN Idle
      ELSE [task[t] EXCEPT !.phase = "turn", !.todo = left, !.at = 0, !.file = NoPath,
                           !.view = [k \in left |-> @[k]]]

(* put_media by task t, which goes on as d.                                  *)
Put(t, m, e, d) ==
  /\ entry' = [entry EXCEPT ![m] = e]
  /\ task' = Told([task EXCEPT ![t] = d], Slot \ {t}, m)
  /\ fetch' = FetchTold(m)
Stale(t, m) == IF m \in task[t].outdated THEN {task[t].view[m].film} ELSE {}

(* The films of the entries for which a task has changed the disk and not    *)
(* yet the store.                                                            *)
Holds(t) ==
  \/ Is(t, "migrate", "put")
  \/ Is(t, "delete", "remove") \/ Is(t, "torrent", "remove")
InHand == {View(t).film : t \in {u \in Slot : Holds(u)}}

(* The films that lose when t removes or moves the files S for m, if what it *)
(* knows of m is out of date or wrong.                                       *)
Hurt(t, m, S) ==
  IF m \in task[t].outdated \/ task[t].view[m].film \in misled \cup InHand
  THEN {task[t].view[m].film} \cup {disk[p] : p \in S \cap DOMAIN disk} ELSE {}

(* Files in no entry that a task is about to put into one, or to delete, but *)
(* for what the jobs of entry m have written.                                *)
Limbo(m) ==
  (UNION {Owned(View(t)) : t \in {u \in Slot : Is(u, "migrate", "put")}})
    \cup {task[t].out : t \in {u \in Slot : /\ Is(u, "job", "get") \/ Is(u, "job", "put")
                                           /\ task[u].at # m}}
    \cup {task[t].file : t \in {u \in Slot : Is(u, "cleanup", "unlink")}}

-----------------------------------------------------------------------------
(* The films are there; some were imported, some of those transcoded (of     *)
(* namesakes one at most), and some of these lost their source to the        *)
(* clean-up.  Entries in the payload folder came from the torrent, the       *)
(* others from a scan.                                                       *)
Stages == {"loose", "imported", "transcoded", "reclaimed"}

FirstEntry(f, stage) ==
  LET e == NewEntry(f, Source(f), layout.folder[f] = Payload, GroupOf(0, f), {})
      o == OutPath(f)
  IN  IF stage = "loose" THEN NoEntry
      ELSE IF stage = "imported" THEN e
      ELSE [e EXCEPT !.transcoded = o, !.versions = {o}, !.ready = o,
                     !.media_file = IF stage = "reclaimed" THEN o ELSE @]

Init ==
  /\ layout \in Layouts
  /\ record = TRUE /\ transcode_dir = OutDir
  /\ \E stage \in [Film -> Stages] :
       LET sources == {f \in Film : stage[f] # "reclaimed"}
           outputs == {f \in Film : stage[f] \in {"transcoded", "reclaimed"}}
           has(f) == {p \in {Source(f)} : f \in sources} \cup {p \in {OutPath(f)} : f \in outputs}
       IN  /\ \A f, g \in outputs : f # g => OutPath(f) # OutPath(g)
           /\ entry = [m \in Id |-> IF m \in Film THEN FirstEntry(m, stage[m]) ELSE NoEntry]
           /\ disk = [p \in UNION {has(f) : f \in Film} |-> CHOOSE f \in Film : p \in has(f)]
  /\ task = [t \in Slot |-> Idle] /\ fetch = [m \in Id |-> NoFetch]
  /\ next_id = Films + 1 /\ requests = 0 /\ faults = 0
  /\ misled = {} /\ removed = {} /\ played = {} /\ deleted = {}

-----------------------------------------------------------------------------
(* update_progress, upload_subtitle and a transcode job: one entry is read,  *)
(* something is done, and the entry is written back whole.                   *)

(* Store::update_play_progress reads.                                        *)
AskProgress(t, m) ==
  /\ Present(m)
  /\ Ask(t, [Doing("progress", "put", {m}) EXCEPT !.at = m])
  /\ UNCHANGED <<settings, entry, disk, fetch, next_id, faults, history>>

PutProgress(t) ==
  /\ Is(t, "progress", "put")
  /\ LET m == task[t].at
     IN  /\ Put(t, m, [View(t) EXCEPT !.played = TRUE], Idle)
         /\ misled' = misled \cup Stale(t, m)
         /\ played' = played \cup {m}
  /\ UNCHANGED <<settings, disk, next_id, requests, faults, removed, deleted>>

(* upload_subtitle reads the entry before it reads the request's body.       *)
AskUpload(t, m) ==
  /\ Present(m)
  /\ Ask(t, [Doing("upload", "write", {m}) EXCEPT !.at = m])
  /\ UNCHANGED <<settings, entry, disk, fetch, next_id, faults, history>>

(* The subtitle goes beside a version, or the file played, and is numbered   *)
(* by how many the entry had.                                                *)
WriteSubtitle(t) ==
  /\ Is(t, "upload", "write")
  /\ LET e == View(t)
     IN  \E beside \in IF e.versions # {} THEN e.versions ELSE {e.media_file} :
           LET sub == <<beside[1], beside[2], Cardinality(e.subtitles) + 1>>
           IN  /\ disk' = With(sub, e.film)
               /\ task' = [task EXCEPT ![t].phase = "put", ![t].file = sub]
  /\ UNCHANGED <<settings, entry, fetch, next_id, requests, faults, history>>

PutSubtitle(t) ==
  /\ Is(t, "upload", "put")
  /\ LET m == task[t].at
     IN  /\ Put(t, m, [View(t) EXCEPT !.subtitles = @ \cup {task[t].file}], Idle)
         /\ misled' = misled \cup Stale(t, m)
  /\ UNCHANGED <<settings, disk, next_id, requests, faults, removed, played, deleted>>

(* create_job, for the file played now.                                      *)
AskJob(t, m) ==
  /\ Present(m)
  /\ Ask(t, [Doing("job", "encode", {m}) EXCEPT !.at = m, !.file = entry[m].media_file,
                                                !.out = OutPath(entry[m].film)])
  /\ UNCHANGED <<settings, entry, disk, fetch, next_id, faults, history>>

(* The output may be a file that another entry has, or has left.             *)
Encode(t) ==
  /\ Is(t, "job", "encode") /\ task[t].file # task[t].out /\ Exists(task[t].file)
  /\ disk' = With(task[t].out, disk[task[t].file])
  /\ misled' = misled \cup {entry[m].film : m \in {k \in Entries \ {task[t].at} :
                                                  task[t].out \in Plays(entry[k])}}
                \cup ({disk[p] : p \in {task[t].out} \cap DOMAIN disk}
                        \ {disk[task[t].file]})
                \cup {disk[task[t].file] : p \in {task[t].out} \cap Limbo(task[t].at)}
  /\ task' = [task EXCEPT ![t].phase = "get"]
  /\ UNCHANGED <<settings, entry, fetch, next_id, requests, faults, removed, played,
                 deleted>>

(* ffmpeg fails, or is cancelled: what is at the output path is removed, be  *)
(* it a version that an earlier job left and the entry still lists.          *)
EncodeFails(t) ==
  /\ Is(t, "job", "encode")
  /\ disk' = Without({task[t].out})
  /\ misled' = misled \cup (IF Exists(task[t].out) THEN {disk[task[t].out]} ELSE {})
  /\ task' = [task EXCEPT ![t] = Idle]
  /\ UNCHANGED <<settings, entry, fetch, next_id, requests, faults, removed, played,
                 deleted>>

(* update_transcode_state and add_version read the entry again.              *)
GetJob(t) ==
  /\ Is(t, "job", "get")
  /\ LET m == task[t].at
     IN  task' = [task EXCEPT ![t] = IF Present(m)
                                     THEN [@ EXCEPT !.phase = "put", !.outdated = {},
                                                    !.view = [k \in {m} |-> entry[m]]]
                                     ELSE Idle]
  /\ UNCHANGED <<settings, entry, disk, fetch, next_id, requests, faults, history>>

PutJob(t) ==
  /\ Is(t, "job", "put")
  /\ LET m == task[t].at  out == task[t].out
     IN  /\ Put(t, m, [View(t) EXCEPT !.transcoded = out, !.ready = out,
                                   !.versions = @ \cup {out}], Idle)
         /\ misled' = misled \cup Stale(t, m)
                        \cup (IF Exists(out) /\ disk[out] = View(t).film THEN {}
                            ELSE {View(t).film})
  /\ UNCHANGED <<settings, disk, next_id, requests, faults, removed, played, deleted>>

-----------------------------------------------------------------------------
(* delete_library_item and delete_torrent.                                   *)

(* Without delete_files only the record goes.                                *)
AskForget(t, m) ==
  /\ Present(m)
  /\ Ask(t, [Doing("forget", "remove", {m}) EXCEPT !.at = m])
  /\ UNCHANGED <<settings, entry, disk, fetch, next_id, faults, history>>

AskDelete(t, m) ==
  /\ Present(m)
  /\ Ask(t, Doing("delete", "turn", {m}))
  /\ deleted' = deleted \cup {entry[m].film}
  /\ UNCHANGED <<settings, entry, disk, fetch, next_id, faults, misled, removed, played>>

(* The entries of the torrent, then its payload folder.                      *)
AskDeleteTorrent(t) ==
  /\ record
  /\ LET its == {m \in Entries : entry[m].download}
     IN  /\ Ask(t, Doing("torrent", IF its = {} THEN "payload" ELSE "turn", its))
         /\ deleted' = deleted \cup {entry[m].film : m \in its}
  /\ UNCHANGED <<settings, entry, disk, fetch, next_id, faults, misled, removed, played>>

(* remove_owned_files.                                                       *)
Unlink(t, m) ==
  /\ Is(t, "delete", "turn") \/ Is(t, "torrent", "turn")
  /\ m \in task[t].todo
  /\ LET S == Owned(task[t].view[m])
     IN  /\ disk' = Without(S)
         /\ misled' = misled \cup Hurt(t, m, S)
  /\ task' = [task EXCEPT ![t].phase = "remove", ![t].at = m]
  /\ UNCHANGED <<settings, entry, fetch, next_id, requests, faults, removed, played,
                 deleted>>

(* remove_media.                                                             *)
Remove(t) ==
  /\ Is(t, "forget", "remove") \/ Is(t, "delete", "remove") \/ Is(t, "torrent", "remove")
  /\ LET m == task[t].at
         last == task[t].todo = {m}
     IN  /\ Put(t, m, NoEntry,
                IF last /\ task[t].kind = "torrent"
                THEN [task[t] EXCEPT !.phase = "payload", !.todo = {},
                                         !.view = <<>>] ELSE DoneWith(t, m))
         /\ removed' = removed \cup {m}
         /\ misled' = misled \cup Stale(t, m)
  /\ UNCHANGED <<settings, disk, next_id, requests, faults, played, deleted>>

(* The folder goes with all that is in it, whoever owns that, and then the   *)
(* download record.                                                          *)
RemovePayload(t) ==
  /\ Is(t, "torrent", "payload")
  /\ LET S == {p \in DOMAIN disk : p[1] = Payload}
     IN  /\ disk' = Without(S)
         /\ misled' = misled \cup {disk[p] : p \in S}
         /\ deleted' = deleted \cup {disk[p] : p \in S}
  /\ record' = FALSE
  /\ task' = [task EXCEPT ![t] = Idle]
  /\ UNCHANGED <<layout, transcode_dir, entry, fetch, next_id, requests, faults, removed,
                 played>>

-----------------------------------------------------------------------------
(* fix_paths, cleanup_sources and migrate_media: all entries are read first, *)
(* and each is written back from that list.                                  *)
AskAll(t, kind) ==
  /\ Entries # {}
  /\ Ask(t, Doing(kind, "turn", Entries))
  /\ UNCHANGED <<settings, entry, disk, fetch, next_id, faults, history>>

Turn(t, kind, m) == Is(t, kind, "turn") /\ m \in task[t].todo

Skip(t, m) ==
  /\ task' = [task EXCEPT ![t] = DoneWith(t, m)]
  /\ UNCHANGED <<settings, entry, disk, fetch, next_id, requests, faults, history>>

(* An entry whose file is missing plays any of its versions, there or not.   *)
Broken(e) == ~ Exists(e.media_file) /\ e.versions # {}
FixOne(t, m) ==
  /\ Turn(t, "fix", m)
  /\ LET e == task[t].view[m]
     IN  \/ ~ Broken(e) /\ Skip(t, m)
         \/ /\ Broken(e)
            /\ \E v \in e.versions :
                 Put(t, m, [e EXCEPT !.media_file = v,
                                     !.transcoded = IF @ = NoPath \/ Exists(@) THEN @ ELSE v],
                     DoneWith(t, m))
            /\ misled' = misled \cup Stale(t, m)
            /\ UNCHANGED <<settings, disk, next_id, requests, faults, removed, played,
                           deleted>>

(* redundant_source: what is played, unless it is the output or a version.   *)
Redundant(e, output) == e.media_file # output /\ e.media_file \notin e.versions

(* Mutant: the source is not compared with what is kept.                     *)
AnyOutput(e) == IF e.transcoded # NoPath THEN {e.transcoded} ELSE e.versions

(* What cleanup_sources would play instead of the source.                    *)
Outputs(e) ==
  IF e.ready = NoPath /\ e.versions = {} THEN {}
  ELSE {o \in IF e.transcoded # NoPath THEN {e.transcoded} ELSE e.versions : Redundant(e, o)}

(* The entry is pointed at the output before the source is deleted.          *)
CleanupOne(t, m) ==
  /\ Turn(t, "cleanup", m)
  /\ LET e == task[t].view[m]
     IN  \/ Outputs(e) = {} /\ Skip(t, m)
         \/ /\ \E o \in Outputs(e) :
                 Put(t, m, [e EXCEPT !.media_file = o],
                     [task[t] EXCEPT !.phase = "unlink", !.at = m, !.file = e.media_file])
            /\ misled' = misled \cup Stale(t, m)
            /\ UNCHANGED <<settings, disk, next_id, requests, faults, removed, played,
                           deleted>>

UnlinkSource(t) ==
  /\ Is(t, "cleanup", "unlink")
  /\ disk' = Without({task[t].file})
  /\ misled' = misled \cup Hurt(t, task[t].at, {task[t].file})
  /\ task' = [task EXCEPT ![t] = DoneWith(t, task[t].at)]
  /\ UNCHANGED <<settings, entry, fetch, next_id, requests, faults, removed, played,
                 deleted>>

(* Mutant: what has the name in the new directory is written over.           *)
MovableAnyway(p) == Exists(p) /\ p # <<NewDir, p[2], p[3]>>

(* move_file: a file that is there already, or whose name is taken in the    *)
(* new directory, stays where it is; one that cannot be moved stays too, and *)
(* is reported as Failed.                                                    *)
Dest(p) == <<NewDir, p[2], p[3]>>
Movable(p) == Exists(p) /\ ~ Exists(Dest(p))
Moved(S) ==
  [q \in (DOMAIN disk \ S) \cup {Dest(p) : p \in S} |->
     IF \E p \in S : Dest(p) = q THEN disk[CHOOSE p \in S : Dest(p) = q] ELSE disk[q]]

(* The films of which a file takes a place that another task has in hand.    *)
Displacing(S) == {disk[p] : p \in {q \in S : Dest(q) \in Limbo(0)}}

(* What migrate_media writes into the entry.                                 *)
Rewritten(e, versions, subtitles, transcoded, file) ==
  [e EXCEPT !.versions = versions, !.subtitles = subtitles,
            !.transcoded = transcoded, !.media_file = file]

(* What becomes of e when the files S of it move and the files F fail to:    *)
(* versions and subtitles not found or failed are dropped; transcoded_path   *)
(* and media_file follow their file, and where it has gone with a version,   *)
(* was not found or failed they become some version, if there is one.        *)
Migrated(e, S, F) ==
  LET stays(p) == Exists(p) /\ p \notin S \cup F
      after(P) == {Dest(p) : p \in P \cap S} \cup {p \in P : stays(p)}
      versions == after(e.versions)
      follow(p, taken) ==
        IF p = NoPath \/ stays(p) THEN {p}
        ELSE IF p \in S \ taken THEN {Dest(p)}
        ELSE IF versions # {} THEN versions ELSE {p}
  IN  {Rewritten(e, versions, after(e.subtitles), tp, file) :
         tp \in follow(e.transcoded, e.versions),
         file \in follow(e.media_file, e.versions \cup {e.transcoded})}

(* History: whether a file of m must stay behind, its name being taken.      *)
Behind(t, m) ==
  {k \in {m} : \E p \in Owned(task[t].view[m]) :
                 Exists(p) /\ p[1] # NewDir /\ Exists(Dest(p))}

MigrateOne(t, m) ==
  /\ Turn(t, "migrate", m)
  /\ LET e == task[t].view[m]
     IN  \E F \in SUBSET {p \in Owned(e) : Movable(p)} :
           LET S == {p \in Owned(e) : Movable(p)} \ F
           IN  /\ faults + Cardinality(F) <= MaxFaults
               /\ faults' = faults + Cardinality(F)
               /\ disk' = Moved(S)
               /\ misled' = misled \cup Hurt(t, m, S) \cup Displacing(S)
                              \cup (IF F = {} THEN {} ELSE {e.film})
               /\ \E n \in Migrated(e, S, F) :
                    LET d == IF n # e
                             THEN [task[t] EXCEPT !.phase = "put", !.at = m, !.view[m] = n]
                             ELSE IF task[t].todo = {m}
                             THEN [task[t] EXCEPT !.phase = "rest", !.view = <<>>]
                             ELSE DoneWith(t, m)
                    IN  task' = [task EXCEPT ![t] = [d EXCEPT !.left = @ \cup Behind(t, m)]]
  /\ UNCHANGED <<settings, entry, fetch, next_id, requests, removed, played, deleted>>

PutMigrated(t) ==
  /\ Is(t, "migrate", "put")
  /\ LET m == task[t].at
     IN  /\ Put(t, m, View(t), IF task[t].todo = {m} THEN [task[t] EXCEPT !.phase = "rest", !.view = <<>>]
                               ELSE DoneWith(t, m))
         /\ misled' = misled \cup Stale(t, m)
  /\ UNCHANGED <<settings, disk, next_id, requests, faults, removed, played, deleted>>

(* The files left in the transcode directory, which is then the new one.     *)
(* Those of an entry go too, and the entry is not told.                      *)
MoveRest(t) ==
  /\ Is(t, "migrate", "rest")
  /\ LET S == IF transcode_dir = NewDir THEN {}
              ELSE {p \in DOMAIN disk : p[1] = transcode_dir /\ Movable(p)}
     IN  /\ disk' = Moved(S)
         /\ misled' = misled \cup Displacing(S)
                        \cup {entry[m].film : m \in {k \in Entries \cap (task[t].outdated \cup task[t].left) :
                                                Owned(entry[k]) \cap S # {}}}
  /\ transcode_dir' = NewDir
  /\ task' = [task EXCEPT ![t] = Idle]
  /\ UNCHANGED <<layout, record, entry, fetch, next_id, requests, faults, removed, played,
                 deleted>>

-----------------------------------------------------------------------------
(* scan_folder, and the import of a finished download, which scans the       *)
(* payload folder.  The branches of scan_folder for a planned file that is   *)
(* an entry's media_file are dead: such files are skipped before.            *)

(* detect_video_files.                                                       *)
AskScan(t, dir, download) ==
  /\ download => record /\ dir = Payload
  /\ Ask(t, [Doing("scan", "list", {}) EXCEPT
               !.found = [p \in Videos(dir) |-> disk[p]], !.at = IF download THEN 1 ELSE 0])
  /\ UNCHANGED <<settings, entry, disk, fetch, next_id, faults, history>>

(* Mutant: versions and outputs are taken for new files.                     *)
ExistingSources == {entry[m].media_file : m \in Entries}

(* What a scan takes for known, by the entries as they are now.              *)
Existing == UNION {Plays(entry[m]) : m \in Entries}

(* All new episodes, and of the new movies in the folder the largest.        *)
ListScan(t) ==
  /\ Is(t, "scan", "list")
  /\ LET found == task[t].found
         new == DOMAIN found \ Existing
         episodes == {p \in new : layout.show[found[p]] # NoShow}
         movies == new \ episodes
         largest == {p \in movies : \A q \in movies : found[p] <= found[q]}
     IN  \E plan \in IF movies = {} THEN {episodes} ELSE {episodes \cup {p} : p \in largest} :
           task' = [task EXCEPT ![t] =
             IF plan = {} THEN Idle
             ELSE [@ EXCEPT !.phase = "put", !.todo = plan, !.outdated = {},
                            !.found = [p \in plan |-> found[p]]]]
  /\ UNCHANGED <<settings, entry, disk, fetch, next_id, requests, faults, history>>

(* The file is no longer what it was, or an entry has it or is about to.     *)
Raced(t, p) ==
  \/ ~ Exists(p) \/ disk[p] # task[t].found[p]
  \/ p \in Limbo(0)
  \/ \E m \in task[t].outdated : Present(m) /\ p \in Plays(entry[m])

(* A new entry, with the group of this scan for its show, whose metadata     *)
(* will be looked up.                                                        *)
PutScanned(t, p) ==
  /\ Is(t, "scan", "put") /\ p \in task[t].todo
  /\ next_id \in Id /\ next_id' = next_id + 1
  /\ LET f == task[t].found[p]
         e == NewEntry(f, p, task[t].at = 1, GroupOf(task[t].serial, f), Sidecars(p))
     IN  /\ entry' = [entry EXCEPT ![next_id] = e]
         /\ task' = Told([task EXCEPT ![t] = IF @.todo = {p} THEN Idle
                                              ELSE [task[t] EXCEPT !.todo = @ \ {p}]],
                         Slot \ {t}, next_id)
         /\ fetch' = [fetch EXCEPT ![next_id] = Waiting(e, 1)]
         /\ misled' = IF Raced(t, p)
                      THEN misled \cup {f} \cup (IF Exists(p) THEN {disk[p]} ELSE {})
                      ELSE misled
  /\ UNCHANGED <<settings, disk, requests, faults, removed, played, deleted>>

-----------------------------------------------------------------------------
(* The lookups that refresh_metadata, refresh_group_metadata and the scans   *)
(* spawn.  Each holds the entry as it was when it was asked for; the lookup  *)
(* of a group's show is followed by one for its episodes.                    *)
AskRefresh(m) ==
  /\ Counted
  /\ Present(m) /\ fetch[m] = NoFetch
  /\ fetch' = [fetch EXCEPT ![m] = Waiting(entry[m], 1)]
  /\ UNCHANGED <<settings, entry, disk, task, next_id, faults, history>>

AskRefreshGroup(g) ==
  /\ Counted
  /\ LET group == {m \in Entries : entry[m].group = g}
     IN  /\ \A m \in group : fetch[m] = NoFetch
         /\ fetch' = [m \in Id |-> IF m \in group THEN Waiting(entry[m], 2) ELSE fetch[m]]
  /\ UNCHANGED <<settings, entry, disk, task, next_id, faults, history>>

(* Mutant: the copy held since the request is written back.                  *)
AsCaptured(m) == fetch[m].copy

(* The entry that the metadata is applied to.                                *)
Reread(m) == entry[m]

GetFetched(m) ==
  /\ fetch[m].phase = "waiting"
  /\ fetch' = [fetch EXCEPT ![m] =
                 IF Present(m) THEN [@ EXCEPT !.phase = "holding", !.copy = Reread(m)]
                 ELSE NoFetch]
  /\ UNCHANGED <<settings, entry, disk, task, next_id, requests, faults, history>>

PutFetched(m) ==
  /\ fetch[m].phase = "holding"
  /\ entry' = [entry EXCEPT ![m] = fetch[m].copy]
  /\ task' = Told(task, Slot, m)
  /\ fetch' = [fetch EXCEPT ![m] = IF @.lookups = 1 THEN NoFetch ELSE Waiting(@.copy, 1)]
  /\ misled' = IF fetch[m].outdated THEN misled \cup {fetch[m].copy.film} ELSE misled
  /\ UNCHANGED <<settings, disk, next_id, requests, faults, removed, played, deleted>>

FindNothing(m) ==
  /\ fetch[m].phase = "waiting"
  /\ fetch' = [fetch EXCEPT ![m] = NoFetch]
  /\ UNCHANGED <<settings, entry, disk, task, next_id, requests, faults, history>>

-----------------------------------------------------------------------------
(* The server ends and starts again; the store keeps every put.              *)
Crash ==
  /\ faults < MaxFaults /\ faults' = faults + 1
  /\ task' = [t \in Slot |-> Idle] /\ fetch' = [m \in Id |-> NoFetch]
  /\ misled' = misled \cup InHand
  /\ UNCHANGED <<settings, entry, disk, next_id, requests, removed, played, deleted>>

(* The user removes a file behind the program's back.                        *)
Vanish(p) ==
  /\ faults < MaxFaults /\ faults' = faults + 1
  /\ Exists(p)
  /\ disk' = Without({p})
  /\ misled' = misled \cup {disk[p]} /\ deleted' = deleted \cup {disk[p]}
  /\ UNCHANGED <<settings, entry, tasks, next_id, requests, removed, played>>

-----------------------------------------------------------------------------
Request(t) ==
  \/ \E m \in Id : \/ AskProgress(t, m)
                   \/ AskUpload(t, m)
                   \/ AskJob(t, m)
                   \/ AskForget(t, m)
                   \/ AskDelete(t, m)
  \/ AskDeleteTorrent(t)
  \/ \E kind \in {"fix", "cleanup", "migrate"} : AskAll(t, kind)
  \/ \E dir \in {layout.folder[f] : f \in Film} \cup {OutDir, NewDir} :
       \E download \in BOOLEAN : AskScan(t, dir, download)

Step(t) ==
  \/ PutProgress(t)
  \/ WriteSubtitle(t) \/ PutSubtitle(t)
  \/ Encode(t) \/ EncodeFails(t) \/ GetJob(t) \/ PutJob(t)
  \/ Remove(t) \/ RemovePayload(t)
  \/ \E m \in Id : Unlink(t, m) \/ FixOne(t, m) \/ CleanupOne(t, m) \/ MigrateOne(t, m)
  \/ UnlinkSource(t) \/ PutMigrated(t) \/ MoveRest(t)
  \/ ListScan(t) \/ \E p \in task[t].todo : PutScanned(t, p)

Lookup(m) == GetFetched(m) \/ PutFetched(m) \/ FindNothing(m)

Next ==
  \/ \E t \in Slot : Request(t) \/ (Active(t) /\ Step(t))
  \/ \E m \in Id : AskRefresh(m) \/ Lookup(m)
  \/ \E g \in {entry[m].group : m \in Entries} \ {<<>>} : AskRefreshGroup(g)
  \/ Crash
  \/ \E p \in DOMAIN disk : Vanish(p)

Spec == Init /\ [][Next]_vars

-----------------------------------------------------------------------------
Dir == {layout.folder[f] : f \in Film} \cup {OutDir, NewDir}
Path == Dir \X ({layout.stem[f] : f \in Film} \cup {<<"transcode", layout.stem[f]>> : f \in Film})
            \X (0 .. MaxRequests)
Group(f) == IF layout.show[f] = NoShow THEN {<<>>}
            ELSE (0 .. MaxRequests) \X {layout.show[f]}
Entry ==
  [film : Film, media_file : Path, transcoded : Path \cup {NoPath}, versions : SUBSET Path,
   ready : Path \cup {NoPath}, subtitles : SUBSET Path, played : BOOLEAN,
   download : BOOLEAN, group : UNION {Group(f) : f \in Film}]
Sound(e) == e \in Entry /\ e.group \in Group(e.film)
Kind == {"progress", "upload", "job", "forget", "delete", "torrent", "fix", "cleanup",
         "migrate", "scan"}

TypeOK ==
  /\ layout \in Layouts /\ record \in BOOLEAN /\ transcode_dir \in {OutDir, NewDir}
  /\ \A m \in Id : Present(m) => Sound(entry[m])
  /\ DOMAIN disk \subseteq Path /\ \A p \in DOMAIN disk : disk[p] \in Film
  /\ \A t \in Slot : Active(t) =>
       /\ task[t].kind \in Kind
       /\ DOMAIN task[t].view \subseteq Id
       /\ \A m \in DOMAIN task[t].view : Sound(task[t].view[m])
       /\ {task[t].file, task[t].out} \subseteq Path \cup {NoPath}
       /\ DOMAIN task[t].found \subseteq Path
       /\ IF task[t].kind = "scan" THEN task[t].todo \subseteq DOMAIN task[t].found
          ELSE task[t].todo \subseteq DOMAIN task[t].view \/ task[t].phase = "rest"
       /\ task[t].serial \in 1 .. MaxRequests /\ task[t].outdated \cup task[t].left \subseteq Id
  /\ \A m \in Id : fetch[m] # NoFetch =>
       Sound(fetch[m].copy) /\ fetch[m].lookups \in {1, 2}
  /\ next_id \in 1 .. MaxId + 1 /\ requests \in 0 .. MaxRequests /\ faults \in 0 .. MaxFaults
  /\ misled \cup deleted \subseteq Film /\ removed \cup played \subseteq Id

(* The properties speak of films that no task misled: by writing back an     *)
(* entry that another had written since it was read, by moving or removing   *)
(* files on such grounds, by importing or encoding over a file that another  *)
(* has in hand, by failing half-way, or - with no race at all - by a job     *)
(* that fails or is cancelled over an output made before, which it removes   *)
(* though the entry goes on to list it (runner.rs:348-358).  Nothing else    *)
(* does harm.                                                                *)
Settled(m) == entry[m].film \notin misled \cup InHand

(* The videos of an entry, and what is streamed for it, are on disk and are  *)
(* its film: but for the causes above, an output lost to a failed job among  *)
(* them, no request leaves an entry behind that points at nothing or at      *)
(* another film's file (library.rs:94-191, settings.rs:121-202, media.rs:    *)
(* 24-49; library_health counts the entries for which this fails).           *)
EntriesArePlayable ==
  \A m \in Entries : Settled(m) =>
    \A p \in Plays(entry[m]) \cup Streams(entry[m]) : Exists(p) /\ disk[p] = entry[m].film

(* No video belongs to two entries, so deleting one entry with its files     *)
(* takes nothing from another (cleanup.rs:14-33: "every file this entry      *)
(* alone owns"), scans, migrations and jobs in any order.  Subtitles may be  *)
(* shared: a scan takes those whose names fit.                               *)
FilesHaveOneOwner ==
  \A m, k \in Entries : m # k /\ Settled(m) /\ Settled(k) =>
    Plays(entry[m]) \cap Plays(entry[k]) = {}

(* An entry removed stays removed and a play position stored stays stored,   *)
(* although lookups that take seconds write whole entries back: a write is   *)
(* undone only by a task that read before it and writes after it             *)
(* (store.rs:94-140, 247-261; library.rs:279-295, 401-412).                  *)
NothingIsUndone ==
  \A m \in Entries : entry[m].film \notin misled =>
    m \notin removed /\ (m \in played => entry[m].played)

(* A film that nobody asked to delete stays on disk, whatever is moved,      *)
(* transcoded, cleaned up and repaired meanwhile (cleanup.rs:35-89,          *)
(* settings.rs:255-285, library.rs:116-173).                                 *)
FilmsSurvive ==
  \A f \in Film \ (misled \cup deleted) : \E p \in DOMAIN disk : p[3] = 0 /\ disk[p] = f
=============================================================================
