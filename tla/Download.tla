----------------------------- MODULE Download -------------------------------
(***************************************************************************)
(* The life of one download across server runs: the session task and its    *)
(* disk task (engine/session.rs, disk/io.rs, engine/resume.rs), the status  *)
(* forwarder, the final persist and library import, removal and restart     *)
(* (engine/manager.rs, main.rs, web/api/torrents.rs), and the record in the *)
(* sled store.  They run as separate tokio tasks, so their steps interleave.*)
(*                                                                          *)
(* Which peer sends what is Session's business: here a missing piece may be *)
(* verified at any time.  A piece on disk is either right or absent, since  *)
(* a torn write fails its SHA-1 and counts as absent.                       *)
(***************************************************************************)
EXTENDS Naturals, FiniteSets

CONSTANTS
  Piece,        \* pieces of the torrent
  QueueCap,     \* slots of the disk command channel (64 in the code)
  Lightspeed,   \* TRUE: pieces are written without sync_all
  Faults,       \* what may happen beside the normal course, see below
  MaxStarts     \* bound: server starts

ASSUME DownloadAssumption ==
  /\ IsFiniteSet(Piece) /\ Piece # {}
  /\ QueueCap \in Nat \ {0}
  /\ Lightspeed \in BOOLEAN
  /\ Faults \subseteq {"write error", "power loss", "shutdown", "removal"}
  /\ MaxStarts \in Nat \ {0}

VARIABLES
  (* the server process and the store *)
  server,      \* "up", "stopping" after Ctrl-C, "down"
  starts,      \* server starts so far
  record,      \* the download's record as get_download sees it
  durable,     \* the record a power loss would leave
  imported,    \* the library has an entry for the download
  (* the session task *)
  phase,       \* "none", "verifying", "running", "flushing" (awaits the write
               \* tasks), "closing" (awaits the disk task), "returned",
               \* "importing", "done"
  registered,  \* the session is in SessionManager.sessions
  cancelled,   \* the session's cancellation token
  status,      \* the state last published on the watch channel
  have,        \* pieces verified
  waiting,     \* write tasks that have not got a slot of the channel
  (* the disk task *)
  disk,        \* "running", "draining", "leaving" (found the channel empty),
               \* "gone"
  queue,       \* pieces in the command channel
  written,     \* pieces in the files
  synced,      \* pieces a power loss would leave in the files
  (* history, read by no action, of the verified pieces missing on disk *)
  refused,     \* their write failed
  dropped,     \* the disk task had stopped or stopped before their turn
  deleted,     \* a removal deleted them under the session
  (* the status forwarder *)
  unseen,      \* the watch channel holds a status it has not seen
  forward,     \* the status it is about to put into the record it has read
  (* a removal request *)
  removal      \* "none", then the step to come: "unregister", "unrecord"

States == {"downloading", "completed", "cancelled"}
Absent == "absent"
Nothing == "nothing"

storeVars == <<record, durable, imported>>
sessionVars == <<phase, registered, cancelled, status, have, waiting>>
diskVars == <<disk, queue, written, synced>>
historyVars == <<refused, dropped, deleted>>
forwardVars == <<unseen, forward>>
serverVars == <<server, starts>>
vars == <<serverVars, storeVars, sessionVars, diskVars, historyVars,
          forwardVars, removal>>

TypeOK ==
  /\ server \in {"up", "stopping", "down"}
  /\ starts \in 1 .. MaxStarts
  /\ record \in States \cup {Absent} /\ durable \in States \cup {Absent}
  /\ imported \in BOOLEAN
  /\ phase \in {"none", "verifying", "running", "flushing", "closing",
                "returned", "importing", "done"}
  /\ registered \in BOOLEAN /\ cancelled \in BOOLEAN
  /\ status \in States
  /\ have \subseteq Piece /\ waiting \subseteq Piece
  /\ disk \in {"running", "draining", "leaving", "gone"}
  /\ queue \subseteq Piece /\ Cardinality(queue) <= QueueCap
  /\ written \subseteq Piece /\ synced \subseteq Piece
  /\ refused \subseteq Piece /\ dropped \subseteq Piece /\ deleted \subseteq Piece
  /\ unseen \in BOOLEAN /\ forward \in States \cup {Nothing}
  /\ removal \in {"none", "unregister", "unrecord"}

(* add_torrent has put the record and spawned the session; the torrent's     *)
(* folder may hold some of its data already.                                 *)
Init ==
  /\ server = "up" /\ starts = 1
  /\ record = "downloading" /\ durable = Absent /\ imported = FALSE
  /\ phase = "verifying" /\ registered = TRUE /\ cancelled = FALSE
  /\ status = "downloading" /\ have = {} /\ waiting = {}
  /\ disk = "running" /\ queue = {}
  /\ refused = {} /\ dropped = {} /\ deleted = {}
  /\ written \in SUBSET Piece /\ synced = written
  /\ unseen = FALSE /\ forward = Nothing
  /\ removal = "none"

Alive == server # "down"

-----------------------------------------------------------------------------
(* The session task.                                                         *)

(* verify_on_disk: adopt what reads back intact.  Once the token is          *)
(* cancelled the disk task may be gone and reads fail.                       *)
VerifyOnDisk ==
  /\ Alive /\ phase = "verifying"
  /\ \E S \in SUBSET written :
       /\ cancelled \/ S = written
       /\ have' = S
  /\ phase' = "running"
  /\ unseen' = TRUE
  /\ UNCHANGED <<serverVars, storeVars, registered, cancelled, status, waiting,
                 diskVars, historyVars, forward, removal>>

(* Mutant: the write is only tried, and forgotten if the channel is full.    *)
TriesWrite(i) == IF Cardinality(queue) < QueueCap THEN waiting \cup {i} ELSE waiting

(* The write tasks once one is spawned for piece i.                          *)
WithWrite(i) == waiting \cup {i}

(* A piece passes SHA-1: mark_verified, then a task is spawned to write it.  *)
PieceVerified(i) ==
  /\ Alive /\ phase = "running" /\ i \notin have
  /\ have' = have \cup {i}
  /\ waiting' = WithWrite(i)
  /\ UNCHANGED <<serverVars, storeVars, phase, registered, cancelled, status,
                 diskVars, historyVars, forwardVars, removal>>

(* speed_tick publishes the status once a second.                            *)
SpeedTick ==
  /\ Alive /\ phase = "running"
  /\ unseen' = TRUE
  /\ UNCHANGED <<serverVars, storeVars, sessionVars, diskVars, historyVars,
                 forward, removal>>

(* The loop ends, and the final state is published before the write tasks    *)
(* have been awaited.                                                        *)
LeaveLoop ==
  /\ Alive /\ phase = "running"
  /\ have = Piece \/ cancelled
  /\ status' = IF have = Piece THEN "completed" ELSE "cancelled"
  /\ unseen' = TRUE
  /\ phase' = "flushing"
  /\ UNCHANGED <<serverVars, storeVars, registered, cancelled, have, waiting,
                 diskVars, historyVars, forward, removal>>

(* Mutant: no write task is awaited.                                         *)
NoneAwaited == TRUE

(* Every write task has had the answer to its command.                       *)
WritesDone == waiting = {} /\ queue = {}

(* All write tasks have been awaited; the session cancels its own token,     *)
(* which stops the disk task.                                                *)
AwaitWrites ==
  /\ Alive /\ phase = "flushing"
  /\ WritesDone
  /\ phase' = "closing"
  /\ cancelled' = TRUE
  /\ UNCHANGED <<serverVars, storeVars, registered, status, have, waiting,
                 diskVars, historyVars, forwardVars, removal>>

(* Five seconds at most for the disk task.                                   *)
AwaitDisk ==
  /\ Alive /\ phase = "closing"
  /\ phase' = "returned"
  /\ UNCHANGED <<serverVars, storeVars, registered, cancelled, status, have,
                 waiting, diskVars, historyVars, forwardVars, removal>>

(* Mutant: the record is written whether or not the session was removed.     *)
Unchecked == TRUE

(* sessions.get and get_download both find the download.                     *)
StillListed == registered /\ record # Absent

(* The tail of the task spawn_session starts: final status into the record,  *)
(* and flush.  A session that remove has taken out is left alone.            *)
FinalPersist ==
  /\ Alive /\ phase = "returned"
  /\ \/ /\ StillListed
        /\ record' = status /\ durable' = status
        /\ phase' = IF status = "completed" THEN "importing" ELSE "done"
     \/ /\ ~ StillListed
        /\ phase' = "done"
        /\ UNCHANGED <<record, durable>>
  /\ UNCHANGED <<serverVars, imported, registered, cancelled, status, have,
                 waiting, diskVars, historyVars, forwardVars, removal>>

(* The library gets an entry for every video file found.                     *)
Import ==
  /\ Alive /\ phase = "importing"
  /\ imported' = TRUE
  /\ phase' = "done"
  /\ UNCHANGED <<serverVars, record, durable, registered, cancelled, status,
                 have, waiting, diskVars, historyVars, forwardVars, removal>>

-----------------------------------------------------------------------------
(* The write tasks and the disk task.                                        *)

(* Mutants: the channel takes any number of commands; a write task is not    *)
(* told that the disk task has gone.                                         *)
Unbounded == TRUE
NeverClosed == FALSE

SlotFree == Cardinality(queue) < QueueCap
ChannelClosed == disk = "gone"

(* A write task gets a slot, or finds the channel closed.                    *)
SendWrite(i) ==
  /\ Alive /\ i \in waiting
  /\ \/ /\ disk # "gone" /\ SlotFree
        /\ queue' = queue \cup {i}
        /\ UNCHANGED dropped
     \/ /\ ChannelClosed
        /\ dropped' = dropped \cup {i}
        /\ UNCHANGED queue
  /\ waiting' = waiting \ {i}
  /\ UNCHANGED <<serverVars, storeVars, phase, registered, cancelled, status,
                 have, disk, written, synced, refused, deleted, forwardVars,
                 removal>>

(* process_command for a write, in the loop or while draining, which always  *)
(* syncs.  The session ignores a DiskResult::Error.                          *)
DiskWrites(i) ==
  /\ Alive /\ disk \in {"running", "draining"} /\ i \in queue
  /\ queue' = queue \ {i}
  /\ \/ /\ written' = written \cup {i}
        /\ synced' = IF Lightspeed /\ disk = "running" THEN synced ELSE synced \cup {i}
        /\ UNCHANGED refused
     \/ /\ "write error" \in Faults
        /\ refused' = refused \cup {i}
        /\ UNCHANGED <<written, synced>>
  /\ UNCHANGED <<serverVars, storeVars, sessionVars, disk, dropped, deleted,
                 forwardVars, removal>>

(* The cancelled token is seen; the channel is drained with try_recv; the    *)
(* task ends and what was sent after it found the channel empty is dropped.  *)
DiskSeesCancel ==
  /\ Alive /\ disk = "running" /\ cancelled
  /\ disk' = "draining"
  /\ UNCHANGED <<serverVars, storeVars, sessionVars, queue, written, synced,
                 historyVars, forwardVars, removal>>

DiskDrained ==
  /\ Alive /\ disk = "draining" /\ queue = {}
  /\ disk' = "leaving"
  /\ UNCHANGED <<serverVars, storeVars, sessionVars, queue, written, synced,
                 historyVars, forwardVars, removal>>

DiskGone ==
  /\ Alive /\ disk = "leaving"
  /\ disk' = "gone"
  /\ queue' = {}
  /\ dropped' = dropped \cup queue
  /\ UNCHANGED <<serverVars, storeVars, sessionVars, written, synced, refused,
                 deleted, forwardVars, removal>>

-----------------------------------------------------------------------------
(* The status forwarder: one task per session, whose persist is a read and a *)
(* write of the record with other tasks in between.                          *)

(* Mutant: a completion waits for the 5 s to pass like any other state.      *)
SometimesPersists(s) == {s, Nothing}

(* A completion is always persisted, other states when the last persist was  *)
(* 5 s ago.                                                                  *)
Persists(s) == IF s = "completed" THEN {s} ELSE {s, Nothing}

ForwardReads ==
  /\ Alive /\ unseen /\ forward = Nothing
  /\ unseen' = FALSE
  /\ forward' \in (IF record = Absent THEN {Nothing} ELSE Persists(status))
  /\ UNCHANGED <<serverVars, storeVars, sessionVars, diskVars, historyVars,
                 removal>>

ForwardWrites ==
  /\ Alive /\ forward # Nothing
  /\ record' = forward
  /\ forward' = Nothing
  /\ UNCHANGED <<serverVars, durable, imported, sessionVars, diskVars,
                 historyVars, unseen, removal>>

(* sled flushes its log in the background.                                   *)
StoreFlushes ==
  /\ Alive /\ durable # record
  /\ durable' = record
  /\ UNCHANGED <<serverVars, record, imported, sessionVars, diskVars,
                 historyVars, forwardVars, removal>>

-----------------------------------------------------------------------------
(* delete_torrent: the payload and the library entry first, then the session *)
(* is unregistered and cancelled, then the record goes.                      *)
DeletePayload ==
  /\ server = "up" /\ "removal" \in Faults
  /\ removal = "none" /\ record # Absent
  /\ \/ /\ written' = {} /\ synced' = {} /\ imported' = FALSE
        /\ deleted' = deleted \cup (written \cap have)
     \/ UNCHANGED <<written, synced, imported, deleted>>
  /\ removal' = "unregister"
  /\ UNCHANGED <<serverVars, record, durable, sessionVars, disk, queue, refused,
                 dropped, forwardVars>>

(* sessions.remove waits for the lock the importing task holds.              *)
Unregister ==
  /\ Alive /\ removal = "unregister" /\ phase # "importing"
  /\ registered' = FALSE
  /\ cancelled' = (cancelled \/ registered)
  /\ removal' = "unrecord"
  /\ UNCHANGED <<serverVars, storeVars, phase, status, have, waiting, diskVars,
                 historyVars, forwardVars>>

Unrecord ==
  /\ Alive /\ removal = "unrecord"
  /\ record' = Absent
  /\ removal' = "none"
  /\ UNCHANGED <<serverVars, durable, imported, sessionVars, diskVars,
                 historyVars, forwardVars>>

-----------------------------------------------------------------------------
(* The server process.                                                       *)

(* Ctrl-C cancels the root token, and with it every session's.               *)
Shutdown ==
  /\ server = "up" /\ "shutdown" \in Faults
  /\ server' = "stopping"
  /\ cancelled' = (cancelled \/ phase # "none")
  /\ UNCHANGED <<starts, storeVars, phase, registered, status, have, waiting,
                 diskVars, historyVars, forwardVars, removal>>

(* The process is gone and with it everything in memory.                     *)
ProcessEnds ==
  /\ server' = "down"
  /\ phase' = "none" /\ registered' = FALSE /\ cancelled' = FALSE
  /\ status' = "downloading" /\ have' = {} /\ waiting' = {}
  /\ disk' = "gone" /\ queue' = {}
  /\ refused' = {} /\ dropped' = {} /\ deleted' = {}
  /\ unseen' = FALSE /\ forward' = Nothing /\ removal' = "none"
  /\ UNCHANGED <<starts, imported>>

(* cmd_serve returns half a second after the last request, whatever the      *)
(* sessions are doing, and flushes the store.                                *)
Exit ==
  /\ server = "stopping"
  /\ durable' = record
  /\ UNCHANGED <<record, written, synced>>
  /\ ProcessEnds

PowerLoss ==
  /\ Alive /\ "power loss" \in Faults
  /\ \E S \in SUBSET written : synced \subseteq S /\ written' = S /\ synced' = S
  /\ record' = durable
  /\ UNCHANGED durable
  /\ ProcessEnds

(* cmd_serve with resume_all: a session for every record that is neither     *)
(* completed nor cancelled.                                                  *)
Resumed(r) == r \notin {Absent, "completed", "cancelled"}

Start ==
  /\ server = "down" /\ starts < MaxStarts
  /\ server' = "up"
  /\ starts' = starts + 1
  /\ IF Resumed(record)
     THEN phase' = "verifying" /\ registered' = TRUE /\ disk' = "running"
     ELSE UNCHANGED <<phase, registered, disk>>
  /\ UNCHANGED <<storeVars, cancelled, status, have, waiting, queue, written,
                 synced, historyVars, forwardVars, removal>>

-----------------------------------------------------------------------------
SessionStep ==
  \/ VerifyOnDisk
  \/ LeaveLoop
  \/ AwaitWrites
  \/ AwaitDisk
  \/ FinalPersist
  \/ Import

DiskStep ==
  \/ DiskSeesCancel
  \/ DiskDrained
  \/ DiskGone
  \/ \E i \in Piece : DiskWrites(i)

Next ==
  \/ SessionStep
  \/ SpeedTick
  \/ \E i \in Piece : PieceVerified(i) \/ SendWrite(i)
  \/ DiskStep
  \/ ForwardReads \/ ForwardWrites \/ StoreFlushes
  \/ DeletePayload \/ Unregister \/ Unrecord
  \/ Shutdown \/ Exit \/ PowerLoss \/ Start

Spec == Init /\ [][Next]_vars

(* Tokio runs every task that can go on.  Nothing makes pieces arrive.       *)
FairSpec ==
  /\ Spec
  /\ WF_vars(SessionStep) /\ WF_vars(DiskStep)
  /\ \A i \in Piece : WF_vars(SendWrite(i))
  /\ WF_vars(ForwardReads) /\ WF_vars(ForwardWrites)

-----------------------------------------------------------------------------
(* The session has awaited its writes (session.rs:614-617).                  *)
Over == phase \in {"closing", "returned", "importing", "done"}

(* picker.rs:314 has a piece marked verified after its write completes; the  *)
(* session marks it before, and what it has need not be on disk              *)
(* (session.rs:436-447).  What holds instead: a verified piece is on disk or *)
(* on its way there, and none is on its way any more when the final persist  *)
(* and the import come, but for those whose write failed, was dropped by a   *)
(* stopping disk task, or was deleted by a removal (session.rs:436-460,      *)
(* 614-620, disk/io.rs:109-134).                                             *)
VerifiedIsAccountedFor ==
  /\ have \subseteq written \cup waiting \cup queue \cup refused \cup dropped \cup deleted
  /\ Over => waiting \cup queue = {}

(* A write is dropped only when a shutdown or a removal stopped the session: *)
(* one that runs to its end hands every piece to the disk, however full the  *)
(* command channel (pending writes, session.rs:448-460, 614-620).            *)
OnlyOutsideStopDrops ==
  dropped # {} => server = "stopping" \/ ~ registered

(* A removed download comes back only through a persist the forwarder had    *)
(* under way, or a power loss before the removal is flushed; a session that  *)
(* ends later leaves it alone (manager.rs:205-214, 482-489).                 *)
OnlyForwarderResurrects ==
  [][record = Absent /\ record' # Absent => forward # Nothing \/ server' = "down"]_vars

(* Once a completed session is over and its forwarder idle, no stale status  *)
(* is left in the record, although forwarder and final persist write it      *)
(* concurrently (manager.rs:172-192, 201-214).                               *)
CompletionSticks ==
  phase = "done" /\ status = "completed" /\ ~ unseen /\ forward = Nothing
    => record \in {"completed", Absent}

(* A cancelled session always ends: neither a full command channel nor the   *)
(* disk task leaving early leaves a write task waiting for ever              *)
(* (session.rs:614-620, disk/io.rs:109-134).                                 *)
CancelledSessionEnds == cancelled ~> phase \in {"none", "done"}

(* resume.rs:10-14: rebuilding from the files is "robust to a stale record,  *)
(* a half-written piece from a crash or a full disk": what fails the hash is *)
(* "simply re-downloaded".  So no restart leaves a piece missing for good.   *)
MissingPiecesAreRefetched ==
  server = "up" /\ record = "completed" /\ phase = "none" => written = Piece

(* main.rs:204: startup restarts the "downloads a previous shutdown          *)
(* interrupted".                                                             *)
InterruptedIsResumed ==
  server = "up" /\ phase = "none" => record \in {Absent, "completed"}
=============================================================================
