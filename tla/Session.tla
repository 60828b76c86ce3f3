------------------------------ MODULE Session -------------------------------
(***************************************************************************)
(* The download event loop of one torrent: TorrentSession::run of           *)
(* src/src/engine/session.rs with the PiecePicker it drives.  Every event   *)
(* a peer connection task queues is handled to the end before the next, so  *)
(* each handler is one action, the pipeline refills that close it included. *)
(*                                                                          *)
(* Abstractions.  A block is a pair <<piece, index>>; its data is good or   *)
(* bad, and a piece with a bad block fails SHA-1.  The choice among pieces  *)
(* (rarest first, random ties) and among in-progress pieces (least          *)
(* contended) is left open.  RandomFirst and RarestFirst are one mode here: *)
(* nothing in the code tells them apart.  The 512-slot command channel of a *)
(* peer is either accepting or, for a peer in Congested, possibly full.     *)
(***************************************************************************)
EXTENDS Naturals, FiniteSets

CONSTANTS
  Peer,        \* peer addresses
  Piece,       \* pieces of the torrent
  PieceBlocks, \* blocks in a full piece
  NumBlocks,   \* [Piece -> 1 .. PieceBlocks], the last piece may be shorter
  Depth,       \* requests a peer may have outstanding (max_pipeline)
  Announced,   \* sets of pieces a peer may come to announce
  Corrupt,     \* peers that may send bad data
  Congested,   \* peers whose command channel may be found full
  Responsive,  \* peers that answer what they are asked, in the end
  MaxSurprises \* bound: blocks that arrive bad or without being asked for

ASSUME SessionAssumption ==
  /\ IsFiniteSet(Peer) /\ IsFiniteSet(Piece)
  /\ PieceBlocks \in Nat \ {0}
  /\ NumBlocks \in [Piece -> 1 .. PieceBlocks]
  /\ Depth \in Nat \ {0}
  /\ Announced \subseteq SUBSET Piece
  /\ Corrupt \subseteq Peer /\ Congested \subseteq Peer /\ Responsive \subseteq Peer
  /\ MaxSurprises \in Nat

Block == {x \in Piece \X (0 .. PieceBlocks - 1) : x[2] < NumBlocks[x[1]]}
BlocksOf(i) == {x \in Block : x[1] = i}
PiecesOf(S) == {x[1] : x \in S}

VARIABLES
  (* PiecePicker *)
  have,           \* verified pieces
  verified_count,
  in_progress,    \* pieces being downloaded
  assigned,       \* blocks of pieces in progress handed to some peer
  received,       \* blocks of pieces in progress that have arrived
  tainted,        \* pieces in progress with a bad block among the received
  endgame,        \* mode = PickerMode::Endgame (never left again)
  (* PeerManager and the session's own maps *)
  link,           \* "none": not in PeerManager.peers; "live": its connection
                  \* task runs; "dead": the task is gone, its Disconnected
                  \* event is still queued
  choking,        \* PeerState.peer_choking
  outstanding,    \* PeerState.outstanding_requests
  joined,         \* peers with an entry in peer_bitfields and peer_pending
  bitfield,       \* peer_bitfields
  pending,        \* peer_pending: requests the session counts on
  (* the remote ends *)
  called_off,     \* pending requests each remote end was told to cancel
  surprises,      \* blocks that have arrived bad or unasked for
  (* history, read by no action *)
  leaked,         \* assigned blocks whose request was never sent
  failed          \* unverified pieces that failed SHA-1 at least once

pickerVars == <<have, verified_count, in_progress, assigned, received,
                tainted, endgame>>
peerVars == <<link, choking, outstanding, joined, bitfield, pending>>
remoteVars == <<called_off, surprises>>
historyVars == <<leaked, failed>>
vars == <<pickerVars, peerVars, remoteVars, historyVars>>

TypeOK ==
  /\ have \subseteq Piece
  /\ verified_count \in Nat
  /\ in_progress \subseteq Piece
  /\ assigned \subseteq Block
  /\ received \subseteq Block
  /\ tainted \subseteq Piece
  /\ endgame \in BOOLEAN
  /\ link \in [Peer -> {"none", "live", "dead"}]
  /\ choking \in [Peer -> BOOLEAN]
  /\ outstanding \in [Peer -> 0 .. Depth]
  /\ joined \subseteq Peer
  /\ bitfield \in [Peer -> SUBSET Piece]
  /\ pending \in [Peer -> SUBSET Block]
  /\ called_off \in [Peer -> SUBSET Block]
  /\ surprises \in 0 .. MaxSurprises
  /\ leaked \subseteq Block
  /\ failed \subseteq Piece

(* A session starts with the pieces that resume found intact on disk.        *)
Init ==
  /\ have \in SUBSET Piece
  /\ verified_count = Cardinality(have)
  /\ in_progress = {} /\ assigned = {} /\ received = {} /\ tainted = {}
  /\ endgame = FALSE
  /\ link = [p \in Peer |-> "none"]
  /\ choking = [p \in Peer |-> TRUE]
  /\ outstanding = [p \in Peer |-> 0]
  /\ joined = {}
  /\ bitfield = [p \in Peer |-> {}]
  /\ pending = [p \in Peer |-> {}]
  /\ called_off = [p \in Peer |-> {}]
  /\ surprises = 0
  /\ leaked = {} /\ failed = {}

(* The loop leaves as soon as every piece is verified.                       *)
Running == have # Piece

-----------------------------------------------------------------------------
(* Mutant: check_mode compares with all pieces, not the missing ones.        *)
AllStartedOfAll(started, verified) ==
  /\ Piece \ verified # {}
  /\ Cardinality(started) = Cardinality(Piece)

(* check_mode: every piece still missing is being downloaded.                *)
AllStarted(started, verified) ==
  /\ Piece \ verified # {}
  /\ Cardinality(started) = Cardinality(Piece \ verified)

(* Mutant: the scan for the next block ignores assignments.                  *)
NotReceived(bf, taken, verified, arrived) ==
  {x \in Block : x[1] \in bf \ verified /\ x \notin arrived}

(* Blocks pick_block may still hand to a peer with bitfield bf.              *)
Free(bf, taken, verified, arrived) ==
  {x \in Block : x[1] \in bf \ verified /\ x \notin taken \cup arrived}

(* S is what Cardinality(S) calls of pick_block can return: the low blocks   *)
(* of a piece first, pieces in progress before new ones, and no new piece    *)
(* before the last one started is handed out in full.                        *)
Picks(S, free, started) ==
  /\ S \subseteq free
  /\ \A x \in S, y \in free : x[1] = y[1] /\ y[2] < x[2] => y \in S
  /\ \/ PiecesOf(S) \subseteq started
     \/ {y \in free : y[1] \in started} \subseteq S
  /\ \A i, j \in PiecesOf(S) \ started :
        i = j \/ BlocksOf(i) \subseteq S \/ BlocksOf(j) \subseteq S

(* fill_pipeline for peer q with room for some requests: picks S and sends   *)
(* all of it, or stops at the first request the channel refuses, whose block *)
(* stays assigned.  The channel of a dead connection refuses every request.  *)
FillPipeline(q, room, free, started, S, lost) ==
  LET most == IF room < Cardinality(free) THEN room ELSE Cardinality(free)
  IN  /\ Picks(S, free, started)
      /\ \/ lost = {} /\ Cardinality(S) = most /\ (S = {} \/ link'[q] = "live")
         \/ /\ \E x \in S : lost = {x}
            /\ Picks(S \ lost, free, started)
            /\ Cardinality(S) <= most
            /\ S = lost \/ link'[q] = "live"
            /\ q \in Congested \/ link'[q] = "dead"

(* The fill_pipeline calls that close a handler, one for every caller in     *)
(* some order: for one peer, or refill_all_peers.  The parameters are the    *)
(* picker's and the session's state when they begin; off are the requests    *)
(* called off by then.                                                       *)
Refill(callers, taken, started, mode, outs, pend, off) ==
  LET able == {q \in callers \cap joined' :
                 link'[q] # "none" /\ ~ choking'[q] /\ outs[q] < Depth}
      anyFree == Free(UNION {bitfield'[q] : q \in able}, taken, have', received')
      batches == {S \in SUBSET anyFree : Cardinality(S) <= Depth}
  IN  \E turn \in [able -> 1 .. Cardinality(able)], picks \in [able -> batches] :
      \E lost \in [able -> {{}} \cup {{x} : x \in anyFree}] :
        /\ \A q, r \in able : turn[q] = turn[r] => q = r
        /\ \A q \in able :
             LET earlier == UNION {picks[r] : r \in {r \in able : turn[r] < turn[q]}}
             IN  FillPipeline(q, Depth - outs[q],
                              Free(bitfield'[q], taken \cup earlier, have', received'),
                              started \cup PiecesOf(earlier), picks[q], lost[q])
        /\ LET handed == UNION {picks[q] : q \in able}
               sent == [q \in Peer |-> IF q \in able THEN picks[q] \ lost[q] ELSE {}]
           IN  /\ assigned' = taken \cup handed
               /\ in_progress' = started \cup PiecesOf(handed)
               /\ endgame' = (mode \/ (/\ PiecesOf(handed) \ started # {}
                                       /\ AllStarted(in_progress', have')))
               /\ outstanding' = [q \in Peer |-> outs[q] + Cardinality(sent[q])]
               /\ pending' = [q \in Peer |-> pend[q] \cup sent[q]]
               /\ called_off' = [q \in Peer |-> off[q] \ sent[q]]
        /\ leaked' = (leaked \cap (taken \ received')) \cup UNION {lost[q] : q \in able}

-----------------------------------------------------------------------------
(* connect_pending: spawn a connection task for each peer in S, peers that a *)
(* tracker, the DHT, peer exchange or a requeue has put on the list.         *)
ConnectPending(S) ==
  /\ Running
  /\ S # {}
  /\ \A p \in S : link[p] = "none"
  /\ link' = [p \in Peer |-> IF p \in S THEN "live" ELSE link[p]]
  /\ choking' = [p \in Peer |-> IF p \in S THEN TRUE ELSE choking[p]]
  /\ outstanding' = [p \in Peer |-> IF p \in S THEN 0 ELSE outstanding[p]]
  /\ UNCHANGED <<pickerVars, joined, bitfield, pending, remoteVars, historyVars>>

(* A connection task ends: connection lost, bad handshake, cancelled.        *)
TaskEnds(p) ==
  /\ link[p] = "live"
  /\ link' = [link EXCEPT ![p] = "dead"]
  /\ UNCHANGED <<pickerVars, choking, outstanding, joined, bitfield, pending,
                 remoteVars, historyVars>>

(* Mutant: the endgame round asks for unassigned blocks only.                *)
UnassignedRequests(p) ==
  IF endgame /\ p \in joined /\ ~ choking[p] /\ link[p] = "live"
  THEN {x \in Block : x[1] \in in_progress \cap bitfield[p] /\ x \notin assigned}
  ELSE {}

(* The requests an endgame round sends to p, after every block received and  *)
(* every two seconds: each missing block of each piece in progress that p    *)
(* has, whoever it is assigned to.  The session keeps no trace of them.      *)
EndgameRequests(p) ==
  IF endgame /\ p \in joined /\ ~ choking[p] /\ link[p] = "live"
  THEN {x \in Block : x[1] \in in_progress \cap bitfield[p] /\ x \notin received}
  ELSE {}

-----------------------------------------------------------------------------
(* PeerEvent::Connected.                                                     *)
Connected(p) ==
  /\ Running
  /\ link[p] # "none" /\ p \notin joined
  /\ joined' = joined \cup {p}
  /\ bitfield' = [bitfield EXCEPT ![p] = {}]
  /\ pending' = [pending EXCEPT ![p] = {}]
  /\ UNCHANGED <<pickerVars, link, choking, outstanding, remoteVars, historyVars>>

(* Mutant: an announcement or unchoke is noted, but nothing is asked for.    *)
NoFill(p) ==
  Refill({}, assigned, in_progress, endgame, outstanding, pending, called_off)

(* What a handler that leaves the picker alone passes to its closing fill.   *)
FillAfter(p) ==
  Refill({p}, assigned, in_progress, endgame, outstanding, pending, called_off)

(* PeerEvent::BitfieldReceived, and HaveAll with every piece.                *)
BitfieldReceived(p, S) ==
  /\ Running
  /\ p \in joined
  /\ bitfield' = [bitfield EXCEPT ![p] = S]
  /\ UNCHANGED <<have, verified_count, received, tainted, link, choking,
                 joined, surprises, failed>>
  /\ FillAfter(p)

(* PeerEvent::Have.                                                          *)
Have(p, i) ==
  /\ Running
  /\ p \in joined
  /\ bitfield[p] \cup {i} \in Announced
  /\ bitfield' = [bitfield EXCEPT ![p] = @ \cup {i}]
  /\ UNCHANGED <<have, verified_count, received, tainted, link, choking,
                 joined, surprises, failed>>
  /\ FillAfter(p)

(* PeerEvent::Unchoked.                                                      *)
Unchoked(p) ==
  /\ Running
  /\ p \in joined
  /\ choking' = [choking EXCEPT ![p] = FALSE]
  /\ UNCHANGED <<have, verified_count, received, tainted, link, joined,
                 bitfield, surprises, failed>>
  /\ FillAfter(p)

(* Mutant: the blocks pending at p stay assigned.                            *)
NothingReleased(p) == assigned

(* release_peer_blocks: give the pending blocks of p back to the picker.     *)
Released(p) == assigned \ (pending[p] \ received)

(* PeerEvent::Choked.  The remote end drops every request it was sent.       *)
Choked(p) ==
  /\ Running
  /\ p \in joined
  /\ choking' = [choking EXCEPT ![p] = TRUE]
  /\ UNCHANGED <<have, verified_count, received, tainted, link, joined,
                 bitfield, surprises, failed>>
  /\ Refill(Peer, Released(p), in_progress, endgame,
            [outstanding EXCEPT ![p] = 0], [pending EXCEPT ![p] = {}],
            [called_off EXCEPT ![p] = {}])

(* PeerEvent::Disconnected.                                                  *)
Disconnected(p) ==
  /\ Running
  /\ link[p] = "dead"
  /\ link' = [link EXCEPT ![p] = "none"]
  /\ choking' = [choking EXCEPT ![p] = TRUE]
  /\ joined' = joined \ {p}
  /\ bitfield' = [bitfield EXCEPT ![p] = {}]
  /\ UNCHANGED <<have, verified_count, received, tainted, surprises, failed>>
  /\ Refill(Peer, Released(p), in_progress, endgame,
            [outstanding EXCEPT ![p] = 0], [pending EXCEPT ![p] = {}],
            [called_off EXCEPT ![p] = {}])

-----------------------------------------------------------------------------
(* PeerEvent::BlockReceived.  Any block may arrive from any peer: asked for, *)
(* late after a choke or a cancel, answered twice, or never asked for.       *)

(* The requests a remote end has to answer.                                  *)
Asked(p) == (pending[p] \ called_off[p]) \cup EndgameRequests(p)

Arrives(p, x, good) ==
  /\ Running
  /\ p \in joined
  /\ good \/ p \in Corrupt
  /\ IF good /\ x \in Asked(p)
     THEN UNCHANGED surprises
     ELSE /\ surprises < MaxSurprises
          /\ surprises' = surprises + 1
  /\ UNCHANGED <<link, choking, joined, bitfield>>

(* The entry of the answered request is dropped and the counter goes down.   *)
PendingAfter(p, x) == [pending EXCEPT ![p] = @ \ {x}]
OutstandingAfter(p) ==
  [outstanding EXCEPT ![p] = IF @ > 0 THEN @ - 1 ELSE 0]

(* In endgame the requests for the blocks S are called off at every peer but *)
(* p; the answer x ends p's own request.                                     *)
CalledOffAfter(p, x, S) ==
  [q \in Peer |-> IF q = p THEN called_off[q] \ {x}
                  ELSE IF endgame THEN called_off[q] \cup (pending[q] \cap S)
                  ELSE called_off[q]]

(* BlockResult::Duplicate.                                                   *)
BlockDuplicate(p, x, good) ==
  /\ x[1] \notin in_progress \/ x \in received
  /\ Arrives(p, x, good)
  /\ UNCHANGED <<have, verified_count, received, tainted, failed>>
  /\ Refill({p}, assigned, in_progress, endgame, OutstandingAfter(p),
            PendingAfter(p, x), CalledOffAfter(p, x, {x}))

(* BlockResult::Progress.                                                    *)
BlockProgress(p, x, good) ==
  /\ x[1] \in in_progress /\ x \notin received
  /\ ~ BlocksOf(x[1]) \subseteq received \cup {x}
  /\ Arrives(p, x, good)
  /\ received' = received \cup {x}
  /\ tainted' = IF good THEN tainted ELSE tainted \cup {x[1]}
  /\ UNCHANGED <<have, verified_count, failed>>
  /\ Refill({p}, assigned \cup {x}, in_progress, endgame, OutstandingAfter(p),
            PendingAfter(p, x), CalledOffAfter(p, x, {x}))

(* Mutant: a complete piece stays in the in_progress map.                    *)
KeepsPiece(i) == in_progress

(* The in_progress map once piece i is complete.                             *)
WithoutPiece(i) == in_progress \ {i}

(* BlockResult::PieceComplete.  The piece leaves in_progress; if its hash    *)
(* matches, mark_verified adopts it and check_mode runs, otherwise           *)
(* piece_failed leaves it to be started over.                                *)
BlockCompletes(p, x, good) ==
  LET i == x[1]
      verifies == good /\ i \notin tainted
      started == WithoutPiece(i)
  IN  /\ i \in in_progress /\ x \notin received
      /\ BlocksOf(i) \subseteq received \cup {x}
      /\ Arrives(p, x, good)
      /\ received' = received \ BlocksOf(i)
      /\ tainted' = tainted \ {i}
      /\ have' = IF verifies THEN have \cup {i} ELSE have
      /\ verified_count' = IF verifies THEN verified_count + 1 ELSE verified_count
      /\ failed' = IF verifies THEN failed \ {i} ELSE failed \cup {i}
      /\ Refill({p}, assigned \ BlocksOf(i), started,
                endgame \/ (verifies /\ AllStarted(started, have')),
                OutstandingAfter(p), PendingAfter(p, x),
                CalledOffAfter(p, x, BlocksOf(i)))

BlockReceived(p, x, good) ==
  \/ BlockDuplicate(p, x, good)
  \/ BlockProgress(p, x, good)
  \/ BlockCompletes(p, x, good)

-----------------------------------------------------------------------------
Next ==
  \/ \E S \in SUBSET Peer : ConnectPending(S)
  \/ \E p \in Peer :
       \/ TaskEnds(p)
       \/ Connected(p)
       \/ \E S \in Announced : BitfieldReceived(p, S)
       \/ \E i \in Piece : Have(p, i)
       \/ Unchoked(p)
       \/ Choked(p)
       \/ Disconnected(p)
       \/ \E x \in Block, good \in BOOLEAN : BlockReceived(p, x, good)

Spec == Init /\ [][Next]_vars

(* The channel of every task is drained and the timer of the endgame round   *)
(* ticks for ever, so queued events are handled; a responsive remote end,    *)
(* while it is connected, answers what it is asked and not told to forget.   *)
(* The others may stay connected and unchoked, hold requests and never       *)
(* answer.  Nothing says that a peer is ever unchoked, stays connected or    *)
(* has a piece.                                                              *)
Answers(p, x) == link[p] = "live" /\ x \in Asked(p) /\ BlockReceived(p, x, TRUE)

Fairness ==
  /\ \A p \in Peer : WF_vars(Disconnected(p))
  /\ \A p \in Responsive, x \in Block : WF_vars(Answers(p, x))

FairSpec == Spec /\ Fairness

-----------------------------------------------------------------------------
(* The picker's books agree: a piece is missing, in progress or verified,    *)
(* blocks are tracked for pieces in progress only, whatever arrived counts   *)
(* as handed out, a piece whose blocks are all there has left in_progress,   *)
(* and verified_count counts every verified piece once.  It is what keeps a  *)
(* late, repeated or unasked block (block_received, picker.rs:283-312) from  *)
(* reopening or recounting a piece.                                          *)
PickerAgrees ==
  /\ have \cap in_progress = {}
  /\ PiecesOf(assigned) \subseteq in_progress
  /\ received \subseteq assigned
  /\ tainted \subseteq PiecesOf(received)
  /\ \A i \in in_progress : ~ BlocksOf(i) \subseteq received
  /\ verified_count = Cardinality(have)

(* A block handed out and not arrived is awaited from a joined peer, unless  *)
(* its request was never sent: chokes and disconnects give back every block  *)
(* (release_peer_blocks, session.rs:731-741).                                *)
AssignedIsAwaited ==
  assigned \ received \subseteq leaked \cup UNION {pending[p] : p \in joined}

(* No block is awaited from two peers, but for stale requests of a piece     *)
(* that failed its hash or is verified: until endgame nothing is fetched     *)
(* twice (pick_block, picker.rs:204-249, with release_peer_blocks).          *)
AwaitedOnce ==
  \A p, q \in Peer : \A x \in pending[p] \cap pending[q] :
    p = q \/ x[1] \in failed \cup have

(* When no missing block is left to hand out, endgame is on: a block whose   *)
(* request was lost or whose peer is slow is asked of every other peer       *)
(* (check_mode, picker.rs:338-349; session.rs:490-509, 536-564).             *)
EndgameWhenHandedOut ==
  Running /\ Free(Piece, assigned, have, received) = {} => endgame

(* No peer idles while it could be asked for something: if it is connected,  *)
(* unchoked and has room, every block it has is handed out, unless the piece *)
(* failed its hash (the fill_pipeline and refill_all_peers calls of run,     *)
(* session.rs:345-379, 487, 512-523).                                        *)
NoIdlePeer ==
  \A p \in joined \ Congested :
    link[p] = "live" /\ ~ choking[p] /\ outstanding[p] < Depth
      => PiecesOf(Free(bitfield[p], assigned, have, received)) \subseteq failed

Seed(p) ==
  link[p] = "live" /\ p \in joined /\ ~ choking[p] /\ bitfield[p] = Piece

(* If one responsive seed stays connected and unchoked from some point on,   *)
(* and its channel takes every request, the download ends whatever the other *)
(* peers do, be they slow for ever: blocks they hold, or lost with a dead    *)
(* connection or a full channel, are asked again (session.rs:536-564), and a *)
(* failed piece is "re-queued for download" (picker.rs:325).                 *)
Completes ==
  (\E p \in Responsive \ Congested : <>[]Seed(p)) => <> ~ Running
=============================================================================
