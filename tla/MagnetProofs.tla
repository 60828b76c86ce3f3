---------------------------- MODULE MagnetProofs -----------------------------
(***************************************************************************)
(* The safety invariants of Magnet for any peers and any size.  The buffer  *)
(* needs to know that only pieces within the size are assigned, and who can *)
(* be asked at all; the placeholder, how the task, the list, the record and *)
(* a removal can be out of step.                                            *)
(***************************************************************************)
EXTENDS Magnet, TLAPS

AssignedFits == \A i \in Piece : assigned[i] # None => i \in 1 .. size

(* Whoever may be asked has connected, and has told a size.                  *)
AskableHaveSpoken ==
  /\ peer_ext # {} => size # 0
  /\ \A p \in peer_ext : link[p] \in {"live", "dead"}

Placeholder ==
  /\ listed => ~ removed /\ removal # "unrecord"
  /\ task = "failing" => listed
  /\ task = "unrecorded" => record = "absent"
  /\ task \in {"exchanging", "resolved", "failed"} /\ ~ listed
       => record = "absent" \/ removal = "unrecord"
  /\ server = "down" => task = "ended" /\ ~ listed /\ removal = "none"

IInv ==
  /\ TypeOK
  /\ AssignedIsAwaited
  /\ AssignedFits
  /\ AskableHaveSpoken
  /\ NoPieceIsOverlooked
  /\ ResolvingIsAlive
  /\ RemovedStaysRemoved
  /\ Placeholder

-----------------------------------------------------------------------------
(* The initial states satisfy the invariant.                                 *)
LEMMA InitInv == Init => IInv
<1> SUFFICES ASSUME Init PROVE IInv
  OBVIOUS
<1>1. TypeOK
  <2>1. listed \in BOOLEAN /\ started \in BOOLEAN /\ removed \in BOOLEAN
    BY DEF Init
  <2>2. size \in 0 .. MaxSize /\ received \subseteq 1 .. size /\ bad \subseteq received
    BY MagnetAssumption DEF Init
  <2> QED
    BY <2>1, <2>2 DEF Init, TypeOK
<1>2. AssignedIsAwaited /\ AssignedFits /\ AskableHaveSpoken /\ NoPieceIsOverlooked
  BY DEF Init, AssignedIsAwaited, AssignedFits, AskableHaveSpoken, NoPieceIsOverlooked
<1>3. ResolvingIsAlive /\ RemovedStaysRemoved /\ Placeholder
  BY DEF Init, ResolvingIsAlive, RemovedStaysRemoved, Placeholder
<1> QED
  BY <1>1, <1>2, <1>3 DEF IInv

(* What the buffer needs from what held the pieces before the requests of a  *)
(* closing request_metadata_pieces.                                          *)
LEMMA RequestsAreAwaited ==
  ASSUME NEW p \in Peer, NEW held, NEW unanswered, NEW lost,
         held \in [Piece -> Peer \cup {None}],
         unanswered \in [Peer -> SUBSET Piece],
         lost \subseteq Piece,
         size' \in 0 .. MaxSize, received' \subseteq 1 .. size',
         \A i \in Piece : held[i] # None =>
           /\ held[i] \in peer_ext' /\ i \notin received' /\ i \in 1 .. size'
           /\ i \in unanswered[held[i]] \/ held[i] \in Liar,
         RequestPieces(p, held, unanswered, lost)
  PROVE  /\ assigned' \in [Piece -> Peer \cup {None}]
         /\ asked' \in [Peer -> SUBSET Piece]
         /\ stranded' \subseteq Piece
         /\ AssignedIsAwaited'
         /\ AssignedFits'
<1> DEFINE free == Free(size', received', held)
<1>1. free \subseteq 1 .. size' /\ free \cap received' = {}
  BY DEF Free
<1>2. 1 .. size' \subseteq Piece
  BY MagnetAssumption DEF Piece
<1>3. PICK S \in SUBSET free :
        /\ S # {} => p \in peer_ext'
        /\ assigned' = [i \in Piece |-> IF i \in S THEN p ELSE held[i]]
        /\ asked' = [unanswered EXCEPT ![p] = @ \cup S]
        /\ stranded' = lost \ (S \cup received')
  BY DEF RequestPieces, Handed
<1>4. S \subseteq Piece
  BY <1>1, <1>2, <1>3
<1> HIDE DEF free
<1>5. assigned' \in [Piece -> Peer \cup {None}]
  BY <1>3
<1>6. asked' \in [Peer -> SUBSET Piece]
  BY <1>3, <1>4
<1>7. stranded' \subseteq Piece
  BY <1>3
<1>8. ASSUME NEW i \in Piece, assigned'[i] # None
      PROVE  /\ assigned'[i] \in peer_ext' /\ i \notin received' /\ i \in 1 .. size'
             /\ i \in asked'[assigned'[i]] \/ assigned'[i] \in Liar
  <2>1. CASE i \in S
    <3>1. assigned'[i] = p /\ p \in peer_ext'
      BY <2>1, <1>3
    <3>2. i \in asked'[p]
      BY <2>1, <1>3
    <3>3. i \notin received' /\ i \in 1 .. size'
      BY <2>1, <1>1, <1>3
    <3> QED
      BY <3>1, <3>2, <3>3
  <2>2. CASE i \notin S
    <3>1. assigned'[i] = held[i] /\ held[i] \in Peer
      BY <2>2, <1>3, <1>8
    <3>2. unanswered[held[i]] \subseteq asked'[held[i]]
      BY <3>1, <1>3
    <3> QED
      BY <3>1, <3>2, <1>8
  <2> QED
    BY <2>1, <2>2
<1> QED
  BY <1>5, <1>6, <1>7, <1>8 DEF AssignedIsAwaited, AssignedFits

(* A closing request_metadata_pieces leaves p nothing that it could be asked *)
(* for, and takes nothing from the others but what it asks of p.             *)
LEMMA RequestsOverlookNothing ==
  ASSUME NEW p \in Peer, NEW held, NEW unanswered, NEW lost,
         held \in [Piece -> Peer \cup {None}],
         unanswered \in [Peer -> SUBSET Piece],
         size' \in 0 .. MaxSize, UNCHANGED link, peer_ext' \subseteq Peer,
         \A q \in peer_ext' \ {p} :
           link[q] = "live" /\ (q \notin Congested \/ unanswered[q] = {})
             => Free(size', received', held) \subseteq lost,
         RequestPieces(p, held, unanswered, lost)
  PROVE  NoPieceIsOverlooked'
<1> DEFINE free == Free(size', received', held)
<1>1. 1 .. size' \subseteq Piece
  BY MagnetAssumption DEF Piece
<1>2. free \subseteq Piece /\ free \cap received' = {}
  BY <1>1 DEF Free
<1>3. PICK S \in SUBSET free :
        /\ p \in peer_ext' =>
             \/ S = free \/ link[p] = "dead"
             \/ p \in Congested /\ unanswered[p] \cup S # {}
        /\ assigned' = [i \in Piece |-> IF i \in S THEN p ELSE held[i]]
        /\ asked' = [unanswered EXCEPT ![p] = @ \cup S]
        /\ stranded' = lost \ (S \cup received')
  BY DEF RequestPieces, Handed
<1>4. Free(size', received', assigned') = free \ S
  <2>1. \A i \in Piece : assigned'[i] = None <=> i \notin S /\ held[i] = None
    BY <1>3, NoneAssumption
  <2> QED
    BY <2>1, <1>1 DEF Free
<1>5. ASSUME NEW q \in peer_ext', link'[q] = "live",
             q \notin Congested \/ asked'[q] = {}
      PROVE  Free(size', received', assigned') \subseteq stranded'
  <2>1. CASE q = p
    <3>1. asked'[p] = unanswered[p] \cup S
      BY <1>3
    <3> QED
      BY <1>3, <1>4, <1>5, <2>1, <3>1
  <2>2. CASE q # p
    <3>1. asked'[q] = unanswered[q]
      BY <1>3, <2>2
    <3>2. free \subseteq lost
      BY <1>5, <2>2, <3>1
    <3> QED
      BY <1>2, <1>3, <1>4, <3>2
  <2> QED
    BY <2>1, <2>2
<1> QED
  BY <1>5 DEF NoPieceIsOverlooked

-----------------------------------------------------------------------------
(* Every step keeps the invariant.                                           *)
LEMMA NextInv == IInv /\ [Next]_vars => IInv'
<1> SUFFICES ASSUME IInv, [Next]_vars PROVE IInv'
  OBVIOUS
<1> USE DEF IInv
<1>a. TypeOK /\ 1 .. size \subseteq Piece
  BY MagnetAssumption DEF TypeOK, Piece
(* The steps of the exchange leave the placeholder alone, and the task but   *)
(* for the last piece of data.                                               *)
<1>b. ASSUME Exchanging, UNCHANGED managerVars,
             task' \in {"exchanging", "resolved", "failed"}
      PROVE  /\ ResolvingIsAlive' /\ RemovedStaysRemoved' /\ Placeholder'
             /\ server' \in {"up", "down"} /\ listed' \in BOOLEAN
             /\ started' \in BOOLEAN /\ removed' \in BOOLEAN
             /\ record' \in {"resolving", "error", "absent"}
             /\ removal' \in {"none", "unregister", "unrecord"}
  <2>1. /\ server' = server /\ listed' = listed /\ record' = record
        /\ started' = started /\ removal' = removal /\ removed' = removed
    BY <1>b DEF managerVars
  <2>2. server = "up" /\ task = "exchanging"
    BY <1>b DEF Exchanging
  <2>3. ResolvingIsAlive' /\ RemovedStaysRemoved'
    BY <1>b, <2>1 DEF ResolvingIsAlive, RemovedStaysRemoved
  <2>4. Placeholder'
    BY <1>b, <2>1, <2>2 DEF Placeholder
  <2>5. /\ server' \in {"up", "down"}
        /\ record' \in {"resolving", "error", "absent"}
        /\ removal' \in {"none", "unregister", "unrecord"}
    BY <2>1 DEF TypeOK
  <2>6. listed' \in BOOLEAN /\ started' \in BOOLEAN /\ removed' \in BOOLEAN
    BY <2>1, Zenon DEF TypeOK
  <2> QED
    BY <2>3, <2>4, <2>5, <2>6
<1>1. ASSUME NEW p \in Peer, Connected(p) \/ TaskEnds(p) PROVE IInv'
  <2>1. /\ Exchanging /\ UNCHANGED managerVars
        /\ UNCHANGED <<task, peer_ext, size, received, bad, assigned, asked, stranded>>
        /\ link' \in [Peer -> {"new", "live", "dead", "gone"}]
        /\ \A q \in peer_ext : link'[q] = link[q] \/ (link[q] = "live" /\ link'[q] = "dead")
    BY <1>1 DEF AskableHaveSpoken, Connected, TaskEnds, bufferVars, TypeOK
  <2>2. task' = "exchanging"
    BY <2>1 DEF Exchanging
  <2>3. TypeOK'
    BY <1>b, <2>1, <2>2 DEF TypeOK
  <2>4. AssignedIsAwaited' /\ AssignedFits' /\ AskableHaveSpoken' /\ NoPieceIsOverlooked'
    BY <2>1 DEF AssignedIsAwaited, AssignedFits, AskableHaveSpoken, NoPieceIsOverlooked
  <2> QED
    BY <1>b, <2>1, <2>2, <2>3, <2>4
<1>2. ASSUME NEW p \in Peer, NEW n \in Piece, HandshakeReceived(p, n) PROVE IInv'
  <2>1. /\ Exchanging /\ UNCHANGED managerVars /\ UNCHANGED <<task, link, received, bad>>
        /\ peer_ext' = peer_ext \cup {p} /\ size' = SizeAfter(n)
        /\ link[p] \in {"live", "dead"}
        /\ RequestPieces(p, assigned, asked, stranded)
    BY <1>2 DEF HandshakeReceived
  <2>2. size' \in 0 .. MaxSize \ {0} /\ (size = 0 \/ size' = size)
    BY <2>1, MagnetAssumption DEF SizeAfter, TypeOK, Piece
  <2>3. received' \subseteq 1 .. size' /\ bad' \subseteq received'
    BY <2>1, <2>2 DEF TypeOK
  <2>4. \A i \in Piece : assigned[i] # None =>
          /\ assigned[i] \in peer_ext' /\ i \notin received' /\ i \in 1 .. size'
          /\ i \in asked[assigned[i]] \/ assigned[i] \in Liar
    BY <2>1, <2>2 DEF AssignedIsAwaited, AssignedFits
  <2>5. /\ assigned \in [Piece -> Peer \cup {None}]
        /\ asked \in [Peer -> SUBSET Piece] /\ stranded \subseteq Piece
    BY DEF TypeOK
  <2>6. /\ assigned' \in [Piece -> Peer \cup {None}]
        /\ asked' \in [Peer -> SUBSET Piece] /\ stranded' \subseteq Piece
        /\ AssignedIsAwaited' /\ AssignedFits'
    BY <2>1, <2>2, <2>3, <2>4, <2>5, RequestsAreAwaited
  <2>7. task' = "exchanging"
    BY <2>1 DEF Exchanging
  <2>8. link' \in [Peer -> {"new", "live", "dead", "gone"}] /\ peer_ext' \subseteq Peer
    BY <2>1 DEF TypeOK
  <2>9. TypeOK'
    BY <1>b, <2>1, <2>2, <2>3, <2>6, <2>7, <2>8 DEF TypeOK
  <2>10. AskableHaveSpoken'
    BY <2>1, <2>2 DEF AskableHaveSpoken
  <2>11. ASSUME NEW q \in peer_ext' \ {p}, link[q] = "live",
                q \notin Congested \/ asked[q] = {}
         PROVE  Free(size', received', assigned) \subseteq stranded
    <3>1. q \in peer_ext /\ size' = size /\ received' = received
      BY <2>1, <2>2 DEF AskableHaveSpoken
    <3> QED
      BY <2>11, <3>1 DEF NoPieceIsOverlooked
  <2>12. NoPieceIsOverlooked'
    BY <2>1, <2>2, <2>5, <2>8, <2>11, RequestsOverlookNothing
  <2> QED
    BY <1>b, <2>1, <2>6, <2>7, <2>9, <2>10, <2>12
<1>3. ASSUME NEW p \in Peer, Disconnected(p) PROVE IInv'
  <2>1. /\ Exchanging /\ UNCHANGED managerVars /\ UNCHANGED <<task, size, received, bad>>
        /\ link' = [link EXCEPT ![p] = "gone"] /\ peer_ext' = peer_ext \ {p}
        /\ assigned' = [i \in Piece |-> IF assigned[i] = p THEN None ELSE assigned[i]]
        /\ stranded' = Free(size, received, assigned')
        /\ asked' = [asked EXCEPT ![p] = {}]
    BY <1>3 DEF Disconnected, PeerLost
  <2>2. task' = "exchanging"
    BY <2>1 DEF Exchanging
  <2>3. /\ link' \in [Peer -> {"new", "live", "dead", "gone"}] /\ peer_ext' \subseteq Peer
        /\ assigned' \in [Piece -> Peer \cup {None}] /\ asked' \in [Peer -> SUBSET Piece]
    BY <2>1 DEF TypeOK
  <2>4. stranded' \subseteq Piece
    BY <2>1, <1>a DEF Free
  <2>5. TypeOK'
    BY <1>b, <2>1, <2>2, <2>3, <2>4 DEF TypeOK
  <2>6. ASSUME NEW i \in Piece, assigned'[i] # None
        PROVE  /\ assigned'[i] \in peer_ext' /\ i \notin received' /\ i \in 1 .. size'
               /\ i \in asked'[assigned'[i]] \/ assigned'[i] \in Liar
    <3>1. assigned[i] # p /\ assigned'[i] = assigned[i] /\ assigned[i] \in Peer
      BY <2>1, <2>6 DEF TypeOK
    <3>2. asked'[assigned[i]] = asked[assigned[i]]
      BY <2>1, <3>1 DEF TypeOK
    <3> QED
      BY <2>1, <2>6, <3>1, <3>2 DEF AssignedIsAwaited, AssignedFits
  <2>7. AssignedIsAwaited' /\ AssignedFits'
    BY <2>6 DEF AssignedIsAwaited, AssignedFits
  <2>8. AskableHaveSpoken' /\ NoPieceIsOverlooked'
    BY <2>1 DEF AskableHaveSpoken, NoPieceIsOverlooked
  <2> QED
    BY <1>b, <2>1, <2>2, <2>5, <2>7, <2>8
<1>4. ASSUME NEW p \in Peer, NEW i \in Piece, NEW good \in BOOLEAN, DataTaken(p, i, good)
      PROVE  IInv'
  <2> DEFINE held == [assigned EXCEPT ![i] = None]
  <2>1. /\ Exchanging /\ UNCHANGED <<managerVars, link, size, peer_ext>>
        /\ i \in 1 .. size /\ i \notin received /\ received' = received \cup {i}
        /\ bad' = IF good THEN bad ELSE bad \cup {i}
    BY <1>4 DEF DataTaken, Answered
  <2>2. received' \subseteq 1 .. size' /\ bad' \subseteq received' /\ size' \in 0 .. MaxSize
    BY <2>1 DEF TypeOK
  <2>3. /\ held \in [Piece -> Peer \cup {None}]
        /\ AskedAfter(p, i) \in [Peer -> SUBSET Piece] /\ stranded \subseteq Piece
    BY DEF TypeOK, AskedAfter
  <2>4. \A k \in Piece : held[k] # None =>
          /\ held[k] \in peer_ext' /\ k \notin received' /\ k \in 1 .. size'
          /\ k \in AskedAfter(p, i)[held[k]] \/ held[k] \in Liar
    BY <2>1 DEF AssignedIsAwaited, AssignedFits, TypeOK, AskedAfter
  <2>5. /\ assigned' \in [Piece -> Peer \cup {None}]
        /\ asked' \in [Peer -> SUBSET Piece] /\ stranded' \subseteq Piece
        /\ AssignedIsAwaited' /\ AssignedFits'
    <3>1. CASE RequestPieces(p, held, AskedAfter(p, i), stranded)
      <4> HIDE DEF held
      <4> QED
        BY <3>1, <2>2, <2>3, <2>4, RequestsAreAwaited
    <3>2. CASE assigned' = held /\ asked' = AskedAfter(p, i) /\ stranded' = {}
      BY <3>2, <2>3, <2>4 DEF AssignedIsAwaited, AssignedFits
    <3> QED
      BY <1>4, <3>1, <3>2 DEF DataTaken
  <2>6. task' \in {"exchanging", "resolved", "failed"}
    BY <1>4 DEF DataTaken, Exchanging, Answered
  <2>7. AskableHaveSpoken' /\ NoPieceIsOverlooked'
    <3>1. AskableHaveSpoken'
      BY <2>1 DEF AskableHaveSpoken
    <3>2. CASE received' = 1 .. size
      BY <2>1, <3>1, <3>2 DEF NoPieceIsOverlooked, Free
    <3>3. CASE RequestPieces(p, held, AskedAfter(p, i), stranded)
      <4>1. Free(size', received', held) \subseteq Free(size, received, assigned)
        BY <2>1, <1>a DEF Free, TypeOK
      <4>2. ASSUME NEW q \in peer_ext' \ {p}, link[q] = "live",
                   q \notin Congested \/ AskedAfter(p, i)[q] = {}
            PROVE  Free(size', received', held) \subseteq stranded
        <5>1. q \in peer_ext /\ AskedAfter(p, i)[q] = asked[q]
          BY <2>1 DEF AskedAfter, TypeOK
        <5> QED
          BY <4>1, <4>2, <5>1 DEF NoPieceIsOverlooked
      <4>3. UNCHANGED link /\ peer_ext' \subseteq Peer
        BY <2>1 DEF TypeOK
      <4> HIDE DEF held
      <4> QED
        BY <2>2, <2>3, <3>1, <3>3, <4>2, <4>3, RequestsOverlookNothing
    <3> QED
      BY <1>4, <3>1, <3>2, <3>3 DEF DataTaken
  <2>8. link' \in [Peer -> {"new", "live", "dead", "gone"}] /\ peer_ext' \subseteq Peer
    BY <2>1 DEF TypeOK
  <2>9. UNCHANGED managerVars
    BY <2>1
  <2>10. TypeOK'
    BY <1>b, <2>1, <2>2, <2>5, <2>6, <2>8, <2>9 DEF TypeOK
  <2> QED
    BY <1>b, <2>1, <2>5, <2>6, <2>7, <2>9, <2>10
<1>5. ASSUME NEW p \in Peer, NEW i \in Piece, DataRefused(p, i) PROVE IInv'
  <2>1. /\ Exchanging /\ UNCHANGED managerVars
        /\ UNCHANGED <<task, link, peer_ext, size, received, bad>>
        /\ i \notin 1 .. size \/ i \in received \/ p \in Liar
        /\ RequestPieces(p, assigned, AskedAfter(p, i), stranded)
    BY <1>5 DEF DataRefused, Answered
  <2>2. received' \subseteq 1 .. size' /\ bad' \subseteq received' /\ size' \in 0 .. MaxSize
    BY <2>1 DEF TypeOK
  <2>3. /\ assigned \in [Piece -> Peer \cup {None}]
        /\ AskedAfter(p, i) \in [Peer -> SUBSET Piece] /\ stranded \subseteq Piece
    BY DEF TypeOK, AskedAfter
  <2>4. \A k \in Piece : assigned[k] # None =>
          /\ assigned[k] \in peer_ext' /\ k \notin received' /\ k \in 1 .. size'
          /\ k \in AskedAfter(p, i)[assigned[k]] \/ assigned[k] \in Liar
    BY <2>1 DEF AssignedIsAwaited, AssignedFits, TypeOK, AskedAfter
  <2>5. /\ assigned' \in [Piece -> Peer \cup {None}]
        /\ asked' \in [Peer -> SUBSET Piece] /\ stranded' \subseteq Piece
        /\ AssignedIsAwaited' /\ AssignedFits'
    BY <2>1, <2>2, <2>3, <2>4, RequestsAreAwaited
  <2>6. task' = "exchanging"
    BY <2>1 DEF Exchanging
  <2>7. link' \in [Peer -> {"new", "live", "dead", "gone"}] /\ peer_ext' \subseteq Peer
    BY <2>1 DEF TypeOK
  <2>8. TypeOK'
    BY <1>b, <2>1, <2>2, <2>5, <2>6, <2>7 DEF TypeOK
  <2>9. ASSUME NEW q \in peer_ext' \ {p}, link[q] = "live",
               q \notin Congested \/ AskedAfter(p, i)[q] = {}
        PROVE  Free(size', received', assigned) \subseteq stranded
    <3>1. q \in peer_ext /\ AskedAfter(p, i)[q] = asked[q]
      BY <2>1 DEF AskedAfter, TypeOK
    <3> QED
      BY <2>1, <2>9, <3>1 DEF NoPieceIsOverlooked
  <2>10. NoPieceIsOverlooked'
    BY <2>1, <2>2, <2>3, <2>7, <2>9, RequestsOverlookNothing
  <2>11. AskableHaveSpoken'
    BY <2>1 DEF AskableHaveSpoken
  <2> QED
    BY <1>b, <2>1, <2>5, <2>6, <2>8, <2>10, <2>11
<1>6. ASSUME NEW p \in Peer, NEW i \in Piece, Reject(p, i) PROVE IInv'
  <2>1. /\ Exchanging /\ UNCHANGED managerVars
        /\ UNCHANGED <<task, link, peer_ext, size, received, bad>>
        /\ assigned' = IF i \in 1 .. size THEN [assigned EXCEPT ![i] = None] ELSE assigned
        /\ stranded' = Free(size, received, assigned')
        /\ asked' = AskedAfter(p, i)
    BY <1>6 DEF Reject, Answered
  <2>2. task' = "exchanging"
    BY <2>1 DEF Exchanging
  <2>3. /\ assigned' \in [Piece -> Peer \cup {None}] /\ asked' \in [Peer -> SUBSET Piece]
        /\ link' \in [Peer -> {"new", "live", "dead", "gone"}] /\ peer_ext' \subseteq Peer
    BY <2>1 DEF TypeOK, AskedAfter
  <2>4. stranded' \subseteq Piece
    BY <2>1, <1>a DEF Free
  <2>5. TypeOK'
    BY <1>b, <2>1, <2>2, <2>3, <2>4 DEF TypeOK
  <2>6. AssignedIsAwaited' /\ AssignedFits'
    BY <2>1 DEF AssignedIsAwaited, AssignedFits, TypeOK, AskedAfter
  <2>7. AskableHaveSpoken' /\ NoPieceIsOverlooked'
    BY <2>1 DEF AskableHaveSpoken, NoPieceIsOverlooked
  <2> QED
    BY <1>b, <2>1, <2>2, <2>5, <2>6, <2>7
(* The placeholder's steps leave the exchange alone.                         *)
<1>c. ASSUME UNCHANGED exchangeVars PROVE
        /\ AssignedIsAwaited' /\ AssignedFits'
        /\ AskableHaveSpoken' /\ NoPieceIsOverlooked'
        /\ link' \in [Peer -> {"new", "live", "dead", "gone"}]
        /\ peer_ext' \subseteq Peer /\ size' \in 0 .. MaxSize
        /\ received' \subseteq 1 .. size' /\ bad' \subseteq received'
        /\ assigned' \in [Piece -> Peer \cup {None}]
        /\ asked' \in [Peer -> SUBSET Piece] /\ stranded' \subseteq Piece
  BY <1>c DEF exchangeVars, bufferVars, AssignedIsAwaited, AssignedFits,
              AskableHaveSpoken, NoPieceIsOverlooked, TypeOK
<1>7. CASE Unlist
  <2>1. UNCHANGED exchangeVars
    BY <1>7 DEF Unlist, TaskStep
  <2>2. listed' \in BOOLEAN /\ started' \in BOOLEAN /\ removed' \in BOOLEAN
    BY <1>7, Zenon DEF Unlist, TypeOK
  <2>3. /\ server' \in {"up", "down"}
        /\ record' \in {"resolving", "error", "absent"}
        /\ removal' \in {"none", "unregister", "unrecord"}
        /\ task' \in {"exchanging", "resolved", "unlisted", "unrecorded", "failed",
                     "failing", "ended"}
    BY <1>7 DEF Unlist, TypeOK, TaskStep
  <2>4. TypeOK'
    BY <1>c, <2>1, <2>2, <2>3 DEF TypeOK
  <2>5. ResolvingIsAlive'
    BY <1>7 DEF Unlist, ResolvingIsAlive, Placeholder, TypeOK, TaskStep
  <2>6. RemovedStaysRemoved'
    BY <1>7 DEF Unlist, RemovedStaysRemoved, Placeholder, TaskStep
  <2>7. Placeholder'
    BY <1>7 DEF Unlist, Placeholder, RemovedStaysRemoved, TypeOK, TaskStep
  <2> QED
    BY <1>c, <2>1, <2>4, <2>5, <2>6, <2>7
<1>8. CASE DropRecord
  <2>1. UNCHANGED exchangeVars
    BY <1>8 DEF DropRecord, TaskStep
  <2>2. listed' \in BOOLEAN /\ started' \in BOOLEAN /\ removed' \in BOOLEAN
    BY <1>8, Zenon DEF DropRecord, TypeOK
  <2>3. /\ server' \in {"up", "down"}
        /\ record' \in {"resolving", "error", "absent"}
        /\ removal' \in {"none", "unregister", "unrecord"}
        /\ task' \in {"exchanging", "resolved", "unlisted", "unrecorded", "failed",
                     "failing", "ended"}
    BY <1>8 DEF DropRecord, TypeOK, TaskStep
  <2>4. TypeOK'
    BY <1>c, <2>1, <2>2, <2>3 DEF TypeOK
  <2>5. ResolvingIsAlive'
    BY <1>8 DEF DropRecord, ResolvingIsAlive, Placeholder, TypeOK, TaskStep
  <2>6. RemovedStaysRemoved'
    BY <1>8 DEF DropRecord, RemovedStaysRemoved, Placeholder, TaskStep
  <2>7. Placeholder'
    BY <1>8 DEF DropRecord, Placeholder, RemovedStaysRemoved, TypeOK, TaskStep
  <2> QED
    BY <1>c, <2>1, <2>4, <2>5, <2>6, <2>7
<1>9. CASE AddTorrent
  <2>1. UNCHANGED exchangeVars
    BY <1>9 DEF AddTorrent, TaskStep
  <2>2. listed' \in BOOLEAN /\ started' \in BOOLEAN /\ removed' \in BOOLEAN
    BY <1>9, Zenon DEF AddTorrent, TypeOK
  <2>3. /\ server' \in {"up", "down"}
        /\ record' \in {"resolving", "error", "absent"}
        /\ removal' \in {"none", "unregister", "unrecord"}
        /\ task' \in {"exchanging", "resolved", "unlisted", "unrecorded", "failed",
                     "failing", "ended"}
    BY <1>9 DEF AddTorrent, TypeOK, TaskStep
  <2>4. TypeOK'
    BY <1>c, <2>1, <2>2, <2>3 DEF TypeOK
  <2>5. ResolvingIsAlive'
    BY <1>9 DEF AddTorrent, ResolvingIsAlive, Placeholder, TypeOK, TaskStep
  <2>6. RemovedStaysRemoved'
    BY <1>9 DEF AddTorrent, RemovedStaysRemoved, Placeholder, TaskStep
  <2>7. Placeholder'
    BY <1>9 DEF AddTorrent, Placeholder, RemovedStaysRemoved, TypeOK, TaskStep
  <2> QED
    BY <1>c, <2>1, <2>4, <2>5, <2>6, <2>7
<1>10. CASE FailReads
  <2>1. UNCHANGED exchangeVars
    BY <1>10 DEF FailReads, TaskStep, managerVars
  <2>2. listed' \in BOOLEAN /\ started' \in BOOLEAN /\ removed' \in BOOLEAN
    BY <1>10, Zenon DEF FailReads, TypeOK, managerVars
  <2>3. /\ server' \in {"up", "down"}
        /\ record' \in {"resolving", "error", "absent"}
        /\ removal' \in {"none", "unregister", "unrecord"}
        /\ task' \in {"exchanging", "resolved", "unlisted", "unrecorded", "failed",
                     "failing", "ended"}
    BY <1>10 DEF FailReads, TypeOK, TaskStep, managerVars
  <2>4. TypeOK'
    BY <1>c, <2>1, <2>2, <2>3 DEF TypeOK
  <2>5. ResolvingIsAlive'
    BY <1>10 DEF FailReads, ResolvingIsAlive, Placeholder, TypeOK, TaskStep, managerVars
  <2>6. RemovedStaysRemoved'
    BY <1>10 DEF FailReads, RemovedStaysRemoved, Placeholder, TaskStep, managerVars
  <2>7. Placeholder'
    BY <1>10 DEF FailReads, Placeholder, RemovedStaysRemoved, TypeOK, TaskStep, managerVars
  <2> QED
    BY <1>c, <2>1, <2>4, <2>5, <2>6, <2>7
<1>11. CASE FailWrites
  <2>1. UNCHANGED exchangeVars
    BY <1>11 DEF FailWrites, TaskStep
  <2>2. listed' \in BOOLEAN /\ started' \in BOOLEAN /\ removed' \in BOOLEAN
    BY <1>11, Zenon DEF FailWrites, TypeOK
  <2>3. /\ server' \in {"up", "down"}
        /\ record' \in {"resolving", "error", "absent"}
        /\ removal' \in {"none", "unregister", "unrecord"}
        /\ task' \in {"exchanging", "resolved", "unlisted", "unrecorded", "failed",
                     "failing", "ended"}
    BY <1>11 DEF FailWrites, TypeOK, TaskStep
  <2>4. TypeOK'
    BY <1>c, <2>1, <2>2, <2>3 DEF TypeOK
  <2>5. ResolvingIsAlive'
    BY <1>11 DEF FailWrites, ResolvingIsAlive, Placeholder, TypeOK, TaskStep
  <2>6. RemovedStaysRemoved'
    BY <1>11 DEF FailWrites, RemovedStaysRemoved, Placeholder, TaskStep
  <2>7. Placeholder'
    BY <1>11 DEF FailWrites, Placeholder, RemovedStaysRemoved, TypeOK, TaskStep
  <2> QED
    BY <1>c, <2>1, <2>4, <2>5, <2>6, <2>7
<1>12. CASE Remove
  <2>1. UNCHANGED exchangeVars
    BY <1>12 DEF Remove
  <2>2. listed' \in BOOLEAN /\ started' \in BOOLEAN /\ removed' \in BOOLEAN
    BY <1>12, Zenon DEF Remove, TypeOK
  <2>3. /\ server' \in {"up", "down"}
        /\ record' \in {"resolving", "error", "absent"}
        /\ removal' \in {"none", "unregister", "unrecord"}
        /\ task' \in {"exchanging", "resolved", "unlisted", "unrecorded", "failed",
                     "failing", "ended"}
    BY <1>12 DEF Remove, TypeOK
  <2>4. TypeOK'
    BY <1>c, <2>1, <2>2, <2>3 DEF TypeOK
  <2>5. ResolvingIsAlive'
    BY <1>12 DEF Remove, ResolvingIsAlive, Placeholder, TypeOK
  <2>6. RemovedStaysRemoved'
    BY <1>12 DEF Remove, RemovedStaysRemoved, Placeholder
  <2>7. Placeholder'
    BY <1>12 DEF Remove, Placeholder, RemovedStaysRemoved, TypeOK
  <2> QED
    BY <1>c, <2>1, <2>4, <2>5, <2>6, <2>7
<1>13. CASE Unregister
  <2>1. UNCHANGED exchangeVars
    BY <1>13 DEF Unregister, LockFree
  <2>2. listed' \in BOOLEAN /\ started' \in BOOLEAN /\ removed' \in BOOLEAN
    BY <1>13, Zenon DEF Unregister, TypeOK
  <2>3. /\ server' \in {"up", "down"}
        /\ record' \in {"resolving", "error", "absent"}
        /\ removal' \in {"none", "unregister", "unrecord"}
        /\ task' \in {"exchanging", "resolved", "unlisted", "unrecorded", "failed",
                     "failing", "ended"}
    BY <1>13 DEF Unregister, TypeOK, LockFree
  <2>4. TypeOK'
    BY <1>c, <2>1, <2>2, <2>3 DEF TypeOK
  <2>5. ResolvingIsAlive'
    BY <1>13 DEF Unregister, ResolvingIsAlive, Placeholder, TypeOK, LockFree
  <2>6. RemovedStaysRemoved'
    BY <1>13 DEF Unregister, RemovedStaysRemoved, Placeholder, LockFree
  <2>7. Placeholder'
    BY <1>13 DEF Unregister, Placeholder, RemovedStaysRemoved, TypeOK, LockFree
  <2> QED
    BY <1>c, <2>1, <2>4, <2>5, <2>6, <2>7
<1>14. CASE Unrecord
  <2>1. UNCHANGED exchangeVars
    BY <1>14 DEF Unrecord
  <2>2. listed' \in BOOLEAN /\ started' \in BOOLEAN /\ removed' \in BOOLEAN
    BY <1>14, Zenon DEF Unrecord, TypeOK
  <2>3. /\ server' \in {"up", "down"}
        /\ record' \in {"resolving", "error", "absent"}
        /\ removal' \in {"none", "unregister", "unrecord"}
        /\ task' \in {"exchanging", "resolved", "unlisted", "unrecorded", "failed",
                     "failing", "ended"}
    BY <1>14 DEF Unrecord, TypeOK
  <2>4. TypeOK'
    BY <1>c, <2>1, <2>2, <2>3 DEF TypeOK
  <2>5. ResolvingIsAlive'
    BY <1>14 DEF Unrecord, ResolvingIsAlive, Placeholder, TypeOK
  <2>6. RemovedStaysRemoved'
    BY <1>14 DEF Unrecord, RemovedStaysRemoved, Placeholder
  <2>7. Placeholder'
    BY <1>14 DEF Unrecord, Placeholder, RemovedStaysRemoved, TypeOK
  <2> QED
    BY <1>c, <2>1, <2>4, <2>5, <2>6, <2>7
<1>15. CASE Start
  <2>1. UNCHANGED exchangeVars
    BY <1>15 DEF Start, Resumed
  <2>2. listed' \in BOOLEAN /\ started' \in BOOLEAN /\ removed' \in BOOLEAN
    BY <1>15, Zenon DEF Start, TypeOK
  <2>3. /\ server' \in {"up", "down"}
        /\ record' \in {"resolving", "error", "absent"}
        /\ removal' \in {"none", "unregister", "unrecord"}
        /\ task' \in {"exchanging", "resolved", "unlisted", "unrecorded", "failed",
                     "failing", "ended"}
    BY <1>15 DEF Start, TypeOK, Resumed
  <2>4. TypeOK'
    BY <1>c, <2>1, <2>2, <2>3 DEF TypeOK
  <2>5. ResolvingIsAlive'
    BY <1>15 DEF Start, ResolvingIsAlive, Placeholder, TypeOK, Resumed
  <2>6. RemovedStaysRemoved'
    BY <1>15 DEF Start, RemovedStaysRemoved, Placeholder, Resumed
  <2>7. Placeholder'
    BY <1>15 DEF Start, Placeholder, RemovedStaysRemoved, TypeOK, Resumed
  <2> QED
    BY <1>c, <2>1, <2>4, <2>5, <2>6, <2>7
<1>16. CASE Crash
  <2>1. /\ listed' = FALSE /\ started' = started /\ removed' = removed
        /\ server' = "down" /\ record' = record /\ removal' = "none" /\ task' = "ended"
        /\ size' = 0 /\ received' = {} /\ bad' = {} /\ stranded' = {} /\ peer_ext' = {}
        /\ link' = [p \in Peer |-> "gone"] /\ asked' = [p \in Peer |-> {}]
        /\ assigned' = [i \in Piece |-> None]
    BY <1>16 DEF Crash
  <2>2. listed' \in BOOLEAN /\ started' \in BOOLEAN /\ removed' \in BOOLEAN
    BY <2>1, Zenon DEF TypeOK
  <2>3. size' \in 0 .. MaxSize /\ received' \subseteq 1 .. size' /\ bad' \subseteq received'
    BY <2>1, MagnetAssumption
  <2>4. TypeOK'
    BY <2>1, <2>2, <2>3 DEF TypeOK
  <2>5. AssignedIsAwaited' /\ AssignedFits' /\ AskableHaveSpoken' /\ NoPieceIsOverlooked'
    BY <2>1 DEF AssignedIsAwaited, AssignedFits, AskableHaveSpoken, NoPieceIsOverlooked
  <2>6. ResolvingIsAlive' /\ RemovedStaysRemoved' /\ Placeholder'
    BY <2>1 DEF ResolvingIsAlive, RemovedStaysRemoved, Placeholder
  <2> QED
    BY <2>4, <2>5, <2>6
<1>17. CASE UNCHANGED vars
  <2>1. /\ UNCHANGED exchangeVars /\ UNCHANGED task
        /\ server' = server /\ listed' = listed /\ record' = record
        /\ started' = started /\ removal' = removal /\ removed' = removed
    BY <1>17 DEF vars, managerVars
  <2>2. listed' \in BOOLEAN /\ started' \in BOOLEAN /\ removed' \in BOOLEAN
    BY <2>1, Zenon DEF TypeOK
  <2>3. TypeOK'
    <3>1. /\ server' \in {"up", "down"}
          /\ record' \in {"resolving", "error", "absent"}
          /\ removal' \in {"none", "unregister", "unrecord"}
          /\ task' \in {"exchanging", "resolved", "unlisted", "unrecorded", "failed",
                       "failing", "ended"}
      BY <2>1 DEF TypeOK
    <3> QED
      BY <1>c, <2>1, <2>2, <3>1 DEF TypeOK
  <2>4. ResolvingIsAlive' /\ RemovedStaysRemoved' /\ Placeholder'
    BY <2>1 DEF ResolvingIsAlive, RemovedStaysRemoved, Placeholder
  <2> QED
    BY <1>c, <2>1, <2>3, <2>4
<1> QED
  BY <1>1, <1>2, <1>3, <1>4, <1>5, <1>6, <1>7, <1>8, <1>9, <1>10, <1>11, <1>12, <1>13,
     <1>14, <1>15, <1>16, <1>17 DEF Next

(* The inductive invariant holds in every state.                             *)
LEMMA Invariance == Spec => []IInv
BY InitInv, NextInv, PTL DEF Spec

(* The placeholder, the task and the metadata exchange keep their types, for *)
(* any peers and sizes (engine/magnet.rs).                                   *)
THEOREM Types == Spec => []TypeOK
<1>1. IInv => TypeOK
  BY DEF IInv
<1> QED  BY <1>1, Invariance, PTL

(* A metadata piece marked as assigned is awaited from a peer that is still  *)
(* there and was asked for it, or from one that lies (magnet.rs).            *)
THEOREM AwaitedPieces == Spec => []AssignedIsAwaited
<1>1. IInv => AssignedIsAwaited
  BY DEF IInv
<1> QED  BY <1>1, Invariance, PTL

(* For any peers and sizes, a metadata piece that nobody was asked for, with *)
(* a peer there to ask, is one that a rejection or a departure gave back     *)
(* (magnet.rs, magnet_buffer.rs).                                            *)
THEOREM PiecesAreAskedFor == Spec => []NoPieceIsOverlooked
<1>1. IInv => NoPieceIsOverlooked
  BY DEF IInv
<1> QED  BY <1>1, Invariance, PTL

(* A record that says resolving has a task that resolves it (manager.rs).    *)
THEOREM LiveResolution == Spec => []ResolvingIsAlive
<1>1. IInv => ResolvingIsAlive
  BY DEF IInv
<1> QED  BY <1>1, Invariance, PTL

(* A magnet that was removed has no record again (manager.rs).               *)
THEOREM LastingRemoval == Spec => []RemovedStaysRemoved
<1>1. IInv => RemovedStaysRemoved
  BY DEF IInv
<1> QED  BY <1>1, Invariance, PTL
=============================================================================
