------------------------------- MODULE Magnet --------------------------------
(***************************************************************************)
(* A magnet link: the metadata exchange of engine/magnet.rs with the        *)
(* MetadataBuffer of engine/magnet_buffer.rs, the placeholder that stands   *)
(* for it in the download list (engine/manager.rs), the task of             *)
(* web/api/torrents.rs that joins the two, and a restart.                   *)
(*                                                                          *)
(* A size is a number of metadata pieces.  Data is good or bad, and the     *)
(* hash of the buffer matches if the size is right and every piece good.    *)
(* Peers without the extension protocol, or that report no size or one out  *)
(* of range, change nothing and are left out.                               *)
(***************************************************************************)
EXTENDS Naturals

CONSTANTS
  Peer,         \* addresses the trackers and the DHT come up with
  TrueSize,     \* metadata pieces of the torrent
  MaxSize,      \* most pieces a size in range may stand for (640 in the code)
  Liar,         \* peers that may report another size, send bad data or too
                \* much of it, or answer what they were not asked
  Congested     \* peers whose command channel may fill up

ASSUME MagnetAssumption ==
  /\ TrueSize \in 1 .. MaxSize /\ MaxSize \in Nat
  /\ Liar \subseteq Peer /\ Congested \subseteq Peer

None == "none"
ASSUME NoneAssumption == None \notin Peer

VARIABLES
  (* the server and the list of downloads *)
  server,     \* "up" or "down"
  listed,     \* sessions has the placeholder
  record,     \* the placeholder's record: "resolving", "error", "absent"
  started,    \* add_torrent was called with the metadata
  removal,    \* a removal's next step: "none", "unregister", "unrecord"
  removed,    \* history: a removal went through
  (* the magnet's task *)
  task,       \* "exchanging"; "resolved", "unlisted", "unrecorded" are the
              \* steps of resolve_magnet to come, "failed", "failing" those
              \* of fail_magnet; "ended"
  (* download_metadata *)
  link,       \* "new"; "live"; "dead": its task is gone, the Disconnected
              \* event is still queued; "gone", for it is never requeued
  peer_ext,   \* peers that have told how to ask for metadata
  size,       \* num_pieces of the buffer, 0 while awaiting the size
  received,
  assigned,   \* [1 .. MaxSize -> Peer or None]
  bad,        \* received pieces that are wrong
  (* the remote ends *)
  asked,      \* requests they have not answered
  stranded    \* history: missing pieces that were free after a piece was
              \* given back, and have not been asked for since

managerVars == <<server, listed, record, started, removal, removed>>
bufferVars == <<size, received, assigned, bad>>
exchangeVars == <<link, peer_ext, bufferVars, asked, stranded>>
vars == <<managerVars, task, exchangeVars>>

Piece == 1 .. MaxSize

TypeOK ==
  /\ server \in {"up", "down"} /\ listed \in BOOLEAN /\ started \in BOOLEAN
  /\ record \in {"resolving", "error", "absent"}
  /\ removal \in {"none", "unregister", "unrecord"} /\ removed \in BOOLEAN
  /\ task \in {"exchanging", "resolved", "unlisted", "unrecorded", "failed",
               "failing", "ended"}
  /\ link \in [Peer -> {"new", "live", "dead", "gone"}]
  /\ peer_ext \subseteq Peer
  /\ size \in 0 .. MaxSize
  /\ received \subseteq 1 .. size /\ bad \subseteq received
  /\ assigned \in [Piece -> Peer \cup {None}]
  /\ asked \in [Peer -> SUBSET Piece]
  /\ stranded \subseteq Piece

(* register_magnet has run and the task is spawned.                          *)
Init ==
  /\ server = "up" /\ listed = TRUE /\ record = "resolving" /\ started = FALSE
  /\ removal = "none" /\ removed = FALSE
  /\ task = "exchanging"
  /\ link = [p \in Peer |-> "new"] /\ peer_ext = {}
  /\ size = 0 /\ received = {} /\ bad = {}
  /\ assigned = [i \in Piece |-> None]
  /\ asked = [p \in Peer |-> {}] /\ stranded = {}

-----------------------------------------------------------------------------
(* The metadata exchange.                                                    *)

(* Mutant: the scan ends one piece early.                                    *)
FreeButLast(n, got, held) == {i \in 1 .. n - 1 : i \notin got /\ held[i] = None}

(* Pieces next_request may hand out.                                         *)
Free(n, got, held) == {i \in 1 .. n : i \notin got /\ held[i] = None}

(* Mutant: one piece is handed out where the code goes on to the last.       *)
FirstHanded(p, free, unanswered) ==
  {{i \in free : link[p] = "live" /\ \A j \in free : i <= j}}

(* What request_metadata_pieces may get out to p of the free pieces: all, in *)
(* order, until its channel refuses one.  A dead connection's refuses at     *)
(* once, a full one holds earlier requests.                                  *)
Handed(p, free, unanswered) ==
  {S \in SUBSET free :
     /\ \A i \in S, j \in free : j < i => j \in S
     /\ S # {} => link[p] = "live"
     /\ \/ S = free \/ link[p] = "dead"
        \/ p \in Congested /\ unanswered[p] \cup S # {}}

(* request_metadata_pieces, for a peer that has told how to ask it.  The     *)
(* parameters are the state it begins with.                                  *)
RequestPieces(p, held, unanswered, lost) ==
  \E S \in IF p \in peer_ext'
           THEN Handed(p, Free(size', received', held), unanswered) ELSE {{}} :
    /\ assigned' = [i \in Piece |-> IF i \in S THEN p ELSE held[i]]
    /\ asked' = [unanswered EXCEPT ![p] = @ \cup S]
    /\ stranded' = lost \ (S \cup received')

Exchanging == server = "up" /\ task = "exchanging"

Connected(p) ==
  /\ Exchanging /\ link[p] = "new"
  /\ link' = [link EXCEPT ![p] = "live"]
  /\ UNCHANGED <<managerVars, task, peer_ext, bufferVars, asked, stranded>>

TaskEnds(p) ==
  /\ Exchanging /\ link[p] = "live"
  /\ link' = [link EXCEPT ![p] = "dead"]
  /\ UNCHANGED <<managerVars, task, peer_ext, bufferVars, asked, stranded>>

(* The first report of a size counts.                                        *)
SizeAfter(n) == IF size = 0 THEN n ELSE size

(* PeerEvent::ExtendedHandshake, with a size in range.                       *)
HandshakeReceived(p, n) ==
  /\ Exchanging /\ link[p] \in {"live", "dead"}
  /\ n = TrueSize \/ p \in Liar
  /\ peer_ext' = peer_ext \cup {p}
  /\ size' = SizeAfter(n)
  /\ UNCHANGED <<managerVars, task, link, received, bad>>
  /\ RequestPieces(p, assigned, asked, stranded)

(* Mutant: the pieces asked of a lost peer stay assigned to it.              *)
NotLost(p) == assigned

(* MetadataBuffer::on_peer_lost.                                             *)
PeerLost(p) == [i \in Piece |-> IF assigned[i] = p THEN None ELSE assigned[i]]

(* PeerEvent::Disconnected.  Nobody else is asked for what p was to send.    *)
Disconnected(p) ==
  /\ Exchanging /\ link[p] = "dead"
  /\ link' = [link EXCEPT ![p] = "gone"]
  /\ peer_ext' = peer_ext \ {p}
  /\ assigned' = PeerLost(p)
  /\ stranded' = Free(size, received, assigned')
  /\ asked' = [asked EXCEPT ![p] = {}]
  /\ UNCHANGED <<managerVars, task, size, received, bad>>

(* A message about piece i from p: an answer, or a liar's own idea.          *)
Answered(p, i) ==
  /\ Exchanging /\ link[p] \in {"live", "dead"}
  /\ i \in asked[p] \/ p \in Liar

AskedAfter(p, i) == [asked EXCEPT ![p] = @ \ {i}]

(* The hash of the assembled buffer is the info hash.                        *)
Verifies(wrong) == size = TrueSize /\ wrong = {}

(* MetadataMessage::Data for a piece that is new and fits: on_data, and the  *)
(* end of the exchange when it was the last.                                 *)
DataTaken(p, i, good) ==
  /\ Answered(p, i)
  /\ good \/ p \in Liar
  /\ i \in 1 .. size /\ i \notin received
  /\ received' = received \cup {i}
  /\ bad' = IF good THEN bad ELSE bad \cup {i}
  /\ LET held == [assigned EXCEPT ![i] = None]
     IN  \/ /\ received' = 1 .. size
            /\ task' = IF Verifies(bad') THEN "resolved" ELSE "failed"
            /\ assigned' = held
            /\ asked' = AskedAfter(p, i)
            /\ stranded' = {}
            /\ UNCHANGED <<size, peer_ext>>
         \/ /\ received' # 1 .. size
            /\ UNCHANGED <<task, size, peer_ext>>
            /\ RequestPieces(p, held, AskedAfter(p, i), stranded)
  /\ UNCHANGED <<managerVars, link>>

(* MetadataMessage::Data that on_data does not take: out of range, there     *)
(* already, or longer than a piece.  What was assigned stays so.             *)
DataRefused(p, i) ==
  /\ Answered(p, i)
  /\ i \notin 1 .. size \/ i \in received \/ p \in Liar
  /\ UNCHANGED <<managerVars, task, link, peer_ext, size, received, bad>>
  /\ RequestPieces(p, assigned, AskedAfter(p, i), stranded)

(* MetadataMessage::Reject: on_reject, whoever the piece is assigned to.     *)
Reject(p, i) ==
  /\ Answered(p, i)
  /\ assigned' = IF i \in 1 .. size THEN [assigned EXCEPT ![i] = None] ELSE assigned
  /\ stranded' = Free(size, received, assigned')
  /\ asked' = AskedAfter(p, i)
  /\ UNCHANGED <<managerVars, task, link, peer_ext, size, received, bad>>

-----------------------------------------------------------------------------
(* The placeholder.                                                          *)

TaskStep(from, to) == server = "up" /\ task = from /\ task' = to

(* resolve_magnet, whether the placeholder is still there or not.            *)
Unlist ==
  /\ TaskStep("resolved", "unlisted")
  /\ listed' = FALSE
  /\ UNCHANGED <<server, record, started, removal, removed, exchangeVars>>

DropRecord ==
  /\ TaskStep("unlisted", "unrecorded")
  /\ record' = "absent"
  /\ UNCHANGED <<server, listed, started, removal, removed, exchangeVars>>

AddTorrent ==
  /\ TaskStep("unrecorded", "ended")
  /\ started' = TRUE
  /\ UNCHANGED <<server, listed, record, removal, removed, exchangeVars>>

(* fail_magnet holds the placeholder's lock between reading its record and   *)
(* writing it.                                                               *)
FailReads ==
  /\ IF listed /\ record # "absent"
     THEN TaskStep("failed", "failing") ELSE TaskStep("failed", "ended")
  /\ UNCHANGED <<managerVars, exchangeVars>>

FailWrites ==
  /\ TaskStep("failing", "ended")
  /\ record' = "error"
  /\ UNCHANGED <<server, listed, started, removal, removed, exchangeVars>>

(* SessionManager::remove for the placeholder.  It cancels the placeholder's *)
(* token, which the task does not listen to.                                 *)
Remove ==
  /\ server = "up" /\ removal = "none" /\ record # "absent"
  /\ removal' = "unregister"
  /\ UNCHANGED <<server, listed, record, started, removed, task, exchangeVars>>

(* Mutant: the removal does not wait for the lock.                           *)
NoLock == TRUE

LockFree == task # "failing"

Unregister ==
  /\ server = "up" /\ removal = "unregister" /\ LockFree
  /\ listed' = FALSE
  /\ removal' = "unrecord"
  /\ UNCHANGED <<server, record, started, removed, task, exchangeVars>>

Unrecord ==
  /\ server = "up" /\ removal = "unrecord"
  /\ record' = "absent"
  /\ removal' = "none" /\ removed' = TRUE
  /\ UNCHANGED <<server, listed, started, task, exchangeVars>>

-----------------------------------------------------------------------------
(* The process ends, and the exchange with it.                               *)
Crash ==
  /\ server = "up"
  /\ server' = "down" /\ listed' = FALSE /\ removal' = "none"
  /\ task' = "ended"
  /\ link' = [p \in Peer |-> "gone"] /\ peer_ext' = {}
  /\ size' = 0 /\ received' = {} /\ bad' = {}
  /\ assigned' = [i \in Piece |-> None]
  /\ asked' = [p \in Peer |-> {}] /\ stranded' = {}
  /\ UNCHANGED <<record, started, removed>>

(* Mutant: placeholders are left alone, for they have nothing to resume.     *)
LeftAlone == record

(* resume cannot parse the placeholder's empty metainfo and says so.         *)
Resumed == IF record = "absent" THEN "absent" ELSE "error"

Start ==
  /\ server = "down"
  /\ server' = "up"
  /\ record' = Resumed
  /\ UNCHANGED <<listed, started, removal, removed, task, exchangeVars>>

-----------------------------------------------------------------------------
Next ==
  \/ \E p \in Peer :
       \/ Connected(p)
       \/ TaskEnds(p)
       \/ \E n \in Piece : HandshakeReceived(p, n)
       \/ Disconnected(p)
       \/ \E i \in Piece :
            \/ \E good \in BOOLEAN : DataTaken(p, i, good)
            \/ DataRefused(p, i)
            \/ Reject(p, i)
  \/ Unlist \/ DropRecord \/ AddTorrent
  \/ FailReads \/ FailWrites
  \/ Remove \/ Unregister \/ Unrecord
  \/ Crash \/ Start

Spec == Init /\ [][Next]_vars

(* Queued events are handled, and an honest peer answers while it is         *)
(* connected.                                                                *)
Answers(p, i) == i \in asked[p] /\ (DataTaken(p, i, TRUE) \/ DataRefused(p, i))

FairSpec ==
  /\ Spec
  /\ \A p \in Peer : WF_vars(Disconnected(p))
  /\ \A p \in Peer \ Liar, i \in Piece : WF_vars(Answers(p, i))

-----------------------------------------------------------------------------
(* A missing piece that is assigned is awaited from a peer still there that  *)
(* was asked for it, unless a liar has answered in vain: none is left with a *)
(* peer that has gone (magnet_buffer.rs:58-64, magnet.rs:162-167, 216-227).  *)
AssignedIsAwaited ==
  \A i \in Piece : assigned[i] # None =>
    /\ assigned[i] \in peer_ext /\ i \notin received
    /\ i \in asked[assigned[i]] \/ assigned[i] \in Liar

(* Requests that are refused, answered in vain or answered by others strand  *)
(* no piece: a missing piece that nobody was asked for is one that a         *)
(* rejection or a departure gave back since, as long as there is a peer to   *)
(* ask, live, known to serve metadata and with room in its channel           *)
(* (magnet.rs:144-167, 203-228; magnet_buffer.rs:52-74).                     *)
NoPieceIsOverlooked ==
  \A p \in peer_ext : link[p] = "live" /\ (p \notin Congested \/ asked[p] = {})
    => Free(size, received, assigned) \subseteq stranded

(* A row that looks alive is alive: while a record says resolving, the task  *)
(* is at work, over restarts too (manager.rs:104-117, 570-583).              *)
ResolvingIsAlive ==
  server = "up" /\ record = "resolving" => task # "ended" \/ removal # "none"

(* A failure never writes back the record of a removed placeholder           *)
(* (manager.rs:482-497, 570-583).                                            *)
RemovedStaysRemoved == removed => record = "absent"

(* p stays connected and, from some point on, rejects nothing.               *)
Serves(p) ==
  /\ <>[](p \in peer_ext /\ link[p] = "live")
  /\ <>[][\A i \in Piece : ~ Reject(p, i)]_vars

(* What can keep an exchange from ending although a peer serves it.          *)
Hindered ==
  \/ stranded # {}
  \/ size # TrueSize
  \/ \E i \in Piece : assigned[i] \in Liar

(* With an honest peer that serves, the exchange ends, unless time and again *)
(* a piece given back is asked of nobody, the first size was wrong or a liar *)
(* holds a piece (magnet.rs:142-158, 216-227).                               *)
EndsUnlessHindered ==
  (\E p \in Peer \ Liar : Serves(p)) => <>(task # "exchanging") \/ []<>Hindered
=============================================================================
