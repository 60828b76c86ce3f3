--------------------------- MODULE SessionProofs ----------------------------
(***************************************************************************)
(* The safety invariants of Session hold for any number of peers, pieces    *)
(* and blocks.  Every handler ends in Refill, so the proof has two halves:  *)
(* each handler leaves the books Ready for its closing fill, and the fill   *)
(* turns Ready books into the inductive invariant of the next state.        *)
(***************************************************************************)
EXTENDS Session, FiniteSetTheorems, TLAPS

(* A pending request is for a block that is assigned, or whose piece failed  *)
(* or was verified meanwhile; only joined peers have pending requests.       *)
PendingIsKnown ==
  \A p \in Peer :
    /\ \A x \in pending[p] : x \in assigned \/ x[1] \in failed \cup have
    /\ pending[p] # {} => p \in joined

StartedMeansEndgame == AllStarted(in_progress, have) => endgame

IInv ==
  /\ TypeOK
  /\ PickerAgrees
  /\ AssignedIsAwaited
  /\ AwaitedOnce
  /\ PendingIsKnown
  /\ StartedMeansEndgame

-----------------------------------------------------------------------------
(* What a handler leaves behind when its closing fill begins.                *)
Ready(taken, started, mode, outs, pend, off) ==
  /\ taken \subseteq Block /\ started \subseteq Piece /\ mode \in BOOLEAN
  /\ outs \in [Peer -> 0 .. Depth]
  /\ pend \in [Peer -> SUBSET Block] /\ off \in [Peer -> SUBSET Block]
  /\ have' \subseteq Piece /\ received' \subseteq taken /\ joined' \subseteq Peer
  /\ bitfield' \in [Peer -> SUBSET Piece]
  /\ have' \cap started = {}
  /\ PiecesOf(taken) \subseteq started
  /\ tainted' \subseteq PiecesOf(received')
  /\ \A i \in started : ~ BlocksOf(i) \subseteq received'
  /\ AllStarted(started, have') => mode
  /\ taken \ received' \subseteq leaked \cup UNION {pend[p] : p \in joined'}
  /\ \A p \in Peer :
       /\ \A x \in pend[p] : x \in taken \/ x[1] \in failed' \cup have'
       /\ pend[p] # {} => p \in joined'
  /\ \A p, q \in Peer : \A x \in pend[p] \cap pend[q] :
       p = q \/ x[1] \in failed' \cup have'

(* What the fill does: it hands out free blocks, each to one peer or lost.   *)
Filled(taken, started, mode, pend, handed, lost, sent) ==
  /\ \A x \in handed : x[1] \in Piece \ have' /\ x \notin taken /\ x \notin received'
  /\ handed = lost \cup UNION {sent[q] : q \in Peer}
  /\ \A q \in Peer : sent[q] # {} => q \in joined'
  /\ \A q, r \in Peer : q # r => sent[q] \cap sent[r] = {}
  /\ assigned' = taken \cup handed
  /\ in_progress' = started \cup PiecesOf(handed)
  /\ endgame' = (mode \/ (/\ PiecesOf(handed) \ started # {}
                          /\ AllStarted(in_progress', have')))
  /\ pending' = [q \in Peer |-> pend[q] \cup sent[q]]
  /\ leaked' = (leaked \cap (taken \ received')) \cup lost

-----------------------------------------------------------------------------
LEMMA BlockFinite == IsFiniteSet(Block)
<1>1. IsFiniteSet(0 .. PieceBlocks - 1)
  BY SessionAssumption, FS_Interval
<1>2. IsFiniteSet(Piece \X (0 .. PieceBlocks - 1))
  BY <1>1, SessionAssumption, FS_Product
<1> QED  BY <1>2, FS_Subset DEF Block

(* Every piece has a first block.                                            *)
LEMMA FirstBlock == \A i \in Piece : <<i, 0>> \in Block
  BY SessionAssumption DEF Block

(* The comparison of sizes in check_mode compares sets.                      *)
LEMMA AllStartedIsAll ==
  ASSUME NEW started, NEW verified, started \subseteq Piece \ verified
  PROVE  AllStarted(started, verified)
           <=> Piece \ verified # {} /\ started = Piece \ verified
<1>1. IsFiniteSet(Piece \ verified)
  BY SessionAssumption, FS_Subset
<1>2. Cardinality(started) = Cardinality(Piece \ verified) => started = Piece \ verified
  BY <1>1, FS_Subset
<1> QED  BY <1>2 DEF AllStarted

-----------------------------------------------------------------------------
(* Refill, taken apart.                                                      *)
LEMMA RefillFills ==
  ASSUME NEW callers, NEW taken, NEW started, NEW mode, NEW outs, NEW pend, NEW off,
         Ready(taken, started, mode, outs, pend, off),
         Refill(callers, taken, started, mode, outs, pend, off)
  PROVE  /\ outstanding' \in [Peer -> 0 .. Depth]
         /\ called_off' \in [Peer -> SUBSET Block]
         /\ \E handed \in SUBSET Block, lost \in SUBSET Block, sent \in [Peer -> SUBSET Block] :
              Filled(taken, started, mode, pend, handed, lost, sent)
<1> DEFINE able == {q \in callers \cap joined' :
                      link'[q] # "none" /\ ~ choking'[q] /\ outs[q] < Depth}
           anyFree == Free(UNION {bitfield'[q] : q \in able}, taken, have', received')
           batches == {S \in SUBSET anyFree : Cardinality(S) <= Depth}
<1>1. PICK turn \in [able -> 1 .. Cardinality(able)], picks \in [able -> batches],
           lost \in [able -> {{}} \cup {{x} : x \in anyFree}] :
        /\ \A q, r \in able : turn[q] = turn[r] => q = r
        /\ \A q \in able :
             LET earlier == UNION {picks[r] : r \in {r \in able : turn[r] < turn[q]}}
             IN  FillPipeline(q, Depth - outs[q],
                              Free(bitfield'[q], taken \cup earlier, have', received'),
                              started \cup PiecesOf(earlier), picks[q], lost[q])
        /\ LET handed == UNION {picks[q] : q \in able}
               sent == [q \in Peer |-> IF q \in able THEN picks[q] \ lost[q] ELSE {}]
           IN  /\ assigned' = taken \cup handed
               /\ in_progress' = started \cup PiecesOf(handed)
               /\ endgame' = (mode \/ (/\ PiecesOf(handed) \ started # {}
                                       /\ AllStarted(in_progress', have')))
               /\ outstanding' = [q \in Peer |-> outs[q] + Cardinality(sent[q])]
               /\ pending' = [q \in Peer |-> pend[q] \cup sent[q]]
               /\ called_off' = [q \in Peer |-> off[q] \ sent[q]]
        /\ leaked' = (leaked \cap (taken \ received')) \cup UNION {lost[q] : q \in able}
  BY DEF Refill
<1> DEFINE earlier(q) == UNION {picks[r] : r \in {r \in able : turn[r] < turn[q]}}
           free(q) == Free(bitfield'[q], taken \cup earlier(q), have', received')
           handed == UNION {picks[q] : q \in able}
           sent == [q \in Peer |-> IF q \in able THEN picks[q] \ lost[q] ELSE {}]
           allLost == UNION {lost[q] : q \in able}
<1>2. able \subseteq Peer /\ able \subseteq joined'
  BY DEF Ready
<1>3. anyFree \subseteq Block
  BY DEF Free
<1>4. \A q \in able : FillPipeline(q, Depth - outs[q], free(q),
                                   started \cup PiecesOf(earlier(q)), picks[q], lost[q])
  BY <1>1
<1>5. \A q \in able : /\ picks[q] \subseteq free(q)
                      /\ lost[q] \subseteq picks[q]
                      /\ IsFiniteSet(picks[q])
                      /\ Cardinality(picks[q]) <= Depth - outs[q]
  <2> SUFFICES ASSUME NEW q \in able
               PROVE  /\ picks[q] \subseteq free(q)
                      /\ lost[q] \subseteq picks[q]
                      /\ IsFiniteSet(picks[q])
                      /\ Cardinality(picks[q]) <= Depth - outs[q]
    OBVIOUS
  <2>1. FillPipeline(q, Depth - outs[q], free(q),
                     started \cup PiecesOf(earlier(q)), picks[q], lost[q])
    BY <1>4
  <2>2. picks[q] \subseteq free(q)
    BY <2>1 DEF FillPipeline, Picks
  <2>3. lost[q] \subseteq picks[q]
    BY <2>1 DEF FillPipeline
  <2>4. IsFiniteSet(free(q))
    BY BlockFinite, FS_Subset DEF Free
  <2>5. IsFiniteSet(picks[q]) /\ Cardinality(picks[q]) \in Nat
        /\ Cardinality(free(q)) \in Nat
    BY <2>2, <2>4, FS_Subset, FS_CardinalityType
  <2>6. outs[q] \in 0 .. Depth /\ Depth \in Nat
    BY <1>2, SessionAssumption DEF Ready
  <2>7. Cardinality(picks[q]) <= Depth - outs[q]
    BY <2>1, <2>5, <2>6 DEF FillPipeline
  <2> QED  BY <2>2, <2>3, <2>5, <2>7
<1>6. \A q \in able : picks[q] \subseteq anyFree
  BY <1>1
<1>7. handed \in SUBSET Block
  BY <1>6, <1>3
<1>8. sent \in [Peer -> SUBSET Block]
  BY <1>6, <1>3
<1>9. allLost \in SUBSET Block
  BY <1>5, <1>6, <1>3
<1>10. outstanding' \in [Peer -> 0 .. Depth]
  <2>1. outstanding' = [q \in Peer |-> outs[q] + Cardinality(sent[q])]
    BY <1>1
  <2>2. ASSUME NEW q \in Peer  PROVE  outs[q] + Cardinality(sent[q]) \in 0 .. Depth
    <3>1. outs[q] \in 0 .. Depth /\ Depth \in Nat
      BY SessionAssumption DEF Ready
    <3>2. CASE q \in able
      <4>1. sent[q] = picks[q] \ lost[q]
        BY <3>2
      <4>2. Cardinality(sent[q]) <= Cardinality(picks[q])
            /\ Cardinality(sent[q]) \in Nat /\ Cardinality(picks[q]) \in Nat
        BY <4>1, <3>2, <1>5, FS_Subset, FS_CardinalityType
      <4> QED  BY <4>2, <3>1, <3>2, <1>5
    <3>3. CASE q \notin able
      BY <3>1, <3>3, FS_EmptySet
    <3> QED  BY <3>2, <3>3
  <2> QED  BY <2>1, <2>2
<1>11. called_off' \in [Peer -> SUBSET Block]
  <2>1. called_off' = [q \in Peer |-> off[q] \ sent[q]]
    BY <1>1
  <2> QED  BY <2>1 DEF Ready
<1>12. Filled(taken, started, mode, pend, handed, allLost, sent)
  <2>1. \A x \in handed : x[1] \in Piece \ have' /\ x \notin taken /\ x \notin received'
    <3> SUFFICES ASSUME NEW q \in able, NEW x \in picks[q]
                 PROVE  x[1] \in Piece \ have' /\ x \notin taken /\ x \notin received'
      OBVIOUS
    <3>1. x \in free(q)
      BY <1>5
    <3>2. bitfield'[q] \subseteq Piece
      BY <1>2 DEF Ready
    <3> QED  BY <3>1, <3>2 DEF Free
  <2>2. handed = allLost \cup UNION {sent[q] : q \in Peer}
    <3>1. \A q \in able : picks[q] = lost[q] \cup sent[q]
      BY <1>5, <1>2
    <3>2. \A q \in Peer \ able : sent[q] = {}
      OBVIOUS
    <3>3. ASSUME NEW x  PROVE  x \in handed <=> x \in allLost \cup UNION {sent[q] : q \in Peer}
      <4>1. x \in handed <=> \E q \in able : x \in picks[q]
        OBVIOUS
      <4>2. x \in allLost <=> \E q \in able : x \in lost[q]
        OBVIOUS
      <4>3. x \in UNION {sent[q] : q \in Peer} <=> \E q \in Peer : x \in sent[q]
        OBVIOUS
      <4> HIDE DEF handed, allLost, sent, able
      <4> QED  BY <4>1, <4>2, <4>3, <3>1, <3>2, <1>2
    <3> HIDE DEF handed, allLost, sent
    <3> QED  BY <3>3
  <2>3. \A q \in Peer : sent[q] # {} => q \in joined'
    BY <1>2
  <2>4. ASSUME NEW q \in Peer, NEW r \in Peer, q # r
        PROVE  sent[q] \cap sent[r] = {}
    <3>1. CASE q \in able /\ r \in able
      <4> DEFINE n == Cardinality(able)
      <4>0. n \in Nat
        BY <1>2, SessionAssumption, FS_Subset, FS_CardinalityType
      <4>1a. turn \in [able -> 1 .. n] /\ turn[q] # turn[r]
        BY <1>1, <2>4, <3>1
      <4> HIDE DEF n, able
      <4>1. turn[q] \in Nat /\ turn[r] \in Nat /\ turn[q] # turn[r]
        BY <4>0, <4>1a, <3>1
      <4> USE DEF able
      <4>2. turn[q] < turn[r] \/ turn[r] < turn[q]
        BY <4>1
      <4>3. picks[q] \cap picks[r] = {}
        <5>1. CASE turn[q] < turn[r]
          <6>1. picks[q] \subseteq earlier(r)
            BY <5>1, <3>1
          <6>2. picks[r] \cap earlier(r) = {}
            BY <1>5, <3>1 DEF Free
          <6> QED  BY <6>1, <6>2
        <5>2. CASE turn[r] < turn[q]
          <6>1. picks[r] \subseteq earlier(q)
            BY <5>2, <3>1
          <6>2. picks[q] \cap earlier(q) = {}
            BY <1>5, <3>1 DEF Free
          <6> QED  BY <6>1, <6>2
        <5> QED  BY <4>2, <5>1, <5>2
      <4> QED  BY <4>3
    <3>2. CASE ~ (q \in able /\ r \in able)
      BY <3>2
    <3> QED  BY <3>1, <3>2
  <2>5. /\ assigned' = taken \cup handed
        /\ in_progress' = started \cup PiecesOf(handed)
        /\ endgame' = (mode \/ (/\ PiecesOf(handed) \ started # {}
                                /\ AllStarted(in_progress', have')))
        /\ pending' = [q \in Peer |-> pend[q] \cup sent[q]]
        /\ leaked' = (leaked \cap (taken \ received')) \cup allLost
    BY <1>1
  <2> QED  BY <2>1, <2>2, <2>3, <2>4, <2>5 DEF Filled
<1> QED  BY <1>7, <1>8, <1>9, <1>10, <1>11, <1>12

-----------------------------------------------------------------------------
(* The fill turns Ready books into the invariant of the next state.          *)
LEMMA FillKeeps ==
  ASSUME NEW taken, NEW started, NEW mode, NEW outs, NEW pend, NEW off,
         NEW handed \in SUBSET Block, NEW lost \in SUBSET Block,
         NEW sent \in [Peer -> SUBSET Block],
         leaked \subseteq Block,
         Ready(taken, started, mode, outs, pend, off),
         Filled(taken, started, mode, pend, handed, lost, sent)
  PROVE  /\ assigned' \subseteq Block /\ in_progress' \subseteq Piece
         /\ endgame' \in BOOLEAN /\ leaked' \subseteq Block
         /\ pending' \in [Peer -> SUBSET Block]
         /\ have' \cap in_progress' = {}
         /\ PiecesOf(assigned') \subseteq in_progress'
         /\ received' \subseteq assigned'
         /\ \A i \in in_progress' : ~ BlocksOf(i) \subseteq received'
         /\ AssignedIsAwaited' /\ AwaitedOnce' /\ PendingIsKnown'
         /\ StartedMeansEndgame'
<1>1. /\ assigned' = taken \cup handed
      /\ in_progress' = started \cup PiecesOf(handed)
      /\ endgame' = (mode \/ (/\ PiecesOf(handed) \ started # {}
                              /\ AllStarted(in_progress', have')))
      /\ leaked' = (leaked \cap (taken \ received')) \cup lost
      /\ pending' = [q \in Peer |-> pend[q] \cup sent[q]]
  BY DEF Filled
<1>2. \A x \in handed : x[1] \in Piece \ have' /\ x \notin taken /\ x \notin received'
  BY DEF Filled
<1>3. assigned' \subseteq Block /\ leaked' \subseteq Block
  BY <1>1 DEF Ready
<1>4. in_progress' \subseteq Piece
  BY <1>1, <1>2 DEF Ready, PiecesOf
<1>5. pend \in [Peer -> SUBSET Block]
  BY DEF Ready
<1>6. pending' \in [Peer -> SUBSET Block]
  BY <1>1, <1>5
<1>7. have' \cap in_progress' = {}
  BY <1>1, <1>2 DEF Ready, PiecesOf
<1>8. PiecesOf(assigned') \subseteq in_progress'
  BY <1>1 DEF Ready, PiecesOf
<1>9. received' \subseteq assigned'
  BY <1>1 DEF Ready
<1>10. \A i \in in_progress' : ~ BlocksOf(i) \subseteq received'
  BY <1>1, <1>2 DEF Ready, PiecesOf, BlocksOf
<1>11. mode \in BOOLEAN /\ (AllStarted(started, have') => mode)
  BY DEF Ready
<1>12. endgame' \in BOOLEAN
  BY <1>1, <1>11, Zenon DEF AllStarted
<1>13. StartedMeansEndgame'
  <2>1. CASE PiecesOf(handed) \subseteq started
    <3>1. in_progress' = started
      BY <1>1, <2>1
    <3> QED  BY <3>1, <1>1, <1>11, Zenon DEF StartedMeansEndgame
  <2>2. CASE ~ PiecesOf(handed) \subseteq started
    BY <1>1, <2>2, Zenon DEF StartedMeansEndgame
  <2> QED  BY <2>1, <2>2
<1>14. AssignedIsAwaited'
  <2> SUFFICES ASSUME NEW x \in assigned' \ received'
               PROVE  x \in leaked' \/ \E p \in joined' : x \in pending'[p]
    BY DEF AssignedIsAwaited
  <2>0. joined' \subseteq Peer
    BY DEF Ready
  <2>1. CASE x \in handed
    <3>1. x \in lost \/ \E q \in Peer : x \in sent[q]
      BY <2>1 DEF Filled
    <3>2. \A q \in Peer : x \in sent[q] => q \in joined' /\ x \in pending'[q]
      BY <1>1 DEF Filled
    <3> QED  BY <3>1, <3>2, <1>1
  <2>2. CASE x \in taken
    <3>1. x \in leaked \/ \E p \in joined' : x \in pend[p]
      BY <2>2 DEF Ready
    <3>2. \A q \in Peer : x \in pend[q] => x \in pending'[q]
      BY <1>1
    <3> QED  BY <3>1, <3>2, <2>0, <2>2, <1>1
  <2> QED  BY <2>1, <2>2, <1>1
<1>15. AwaitedOnce'
  <2> SUFFICES ASSUME NEW p \in Peer, NEW q \in Peer, NEW x \in pending'[p] \cap pending'[q],
                      p # q
               PROVE  x[1] \in failed' \cup have'
    BY DEF AwaitedOnce
  <2>1. (x \in pend[p] \/ x \in sent[p]) /\ (x \in pend[q] \/ x \in sent[q])
    BY <1>1
  <2>2. ~ (x \in sent[p] /\ x \in sent[q])
    BY DEF Filled
  <2>3. \A r \in Peer : x \in sent[r] => x \in handed
    BY DEF Filled
  <2>4. \A r \in Peer : x \in pend[r] => x \in taken \/ x[1] \in failed' \cup have'
    BY DEF Ready
  <2>5. x \in pend[p] /\ x \in pend[q] => x[1] \in failed' \cup have'
    BY DEF Ready
  <2> QED  BY <2>1, <2>2, <2>3, <2>4, <2>5, <1>2
<1>16. PendingIsKnown'
  <2> SUFFICES ASSUME NEW p \in Peer
               PROVE  /\ \A x \in pending'[p] : x \in assigned' \/ x[1] \in failed' \cup have'
                      /\ pending'[p] # {} => p \in joined'
    BY DEF PendingIsKnown
  <2>1. pending'[p] = pend[p] \cup sent[p]
    BY <1>1
  <2>2. \A x \in sent[p] : x \in assigned'
    BY <1>1 DEF Filled
  <2>3. \A x \in pend[p] : x \in assigned' \/ x[1] \in failed' \cup have'
    BY <1>1 DEF Ready
  <2>4. pend[p] # {} \/ sent[p] # {} => p \in joined'
    BY DEF Ready, Filled
  <2> QED  BY <2>1, <2>2, <2>3, <2>4
<1> QED  BY <1>3, <1>4, <1>6, <1>7, <1>8, <1>9, <1>10, <1>12, <1>13, <1>14,
            <1>15, <1>16

(* What is left to show of a handler that ends in a fill.                    *)
LEMMA RefillKeeps ==
  ASSUME NEW callers, NEW taken, NEW started, NEW mode, NEW outs, NEW pend, NEW off,
         leaked \subseteq Block,
         Ready(taken, started, mode, outs, pend, off),
         Refill(callers, taken, started, mode, outs, pend, off),
         link' \in [Peer -> {"none", "live", "dead"}],
         choking' \in [Peer -> BOOLEAN],
         surprises' \in 0 .. MaxSurprises,
         failed' \subseteq Piece,
         verified_count' \in Nat, verified_count' = Cardinality(have')
  PROVE  IInv'
<1>1. /\ outstanding' \in [Peer -> 0 .. Depth]
      /\ called_off' \in [Peer -> SUBSET Block]
  BY RefillFills
<1>2. PICK handed \in SUBSET Block, lost \in SUBSET Block, sent \in [Peer -> SUBSET Block] :
        Filled(taken, started, mode, pend, handed, lost, sent)
  BY RefillFills
<1>3. /\ assigned' \subseteq Block /\ in_progress' \subseteq Piece
      /\ endgame' \in BOOLEAN /\ leaked' \subseteq Block
      /\ pending' \in [Peer -> SUBSET Block]
      /\ have' \cap in_progress' = {}
      /\ PiecesOf(assigned') \subseteq in_progress'
      /\ received' \subseteq assigned'
      /\ \A i \in in_progress' : ~ BlocksOf(i) \subseteq received'
      /\ AssignedIsAwaited' /\ AwaitedOnce' /\ PendingIsKnown'
      /\ StartedMeansEndgame'
  BY <1>2, FillKeeps
<1>4. /\ have' \subseteq Piece /\ joined' \subseteq Peer
      /\ bitfield' \in [Peer -> SUBSET Piece] /\ tainted' \subseteq PiecesOf(received')
      /\ received' \subseteq Block
  BY <1>3 DEF Ready
<1>5. tainted' \subseteq Piece
  BY <1>4 DEF PiecesOf, Block
<1>6. TypeOK'
  BY <1>1, <1>3, <1>4, <1>5 DEF TypeOK
<1>7. PickerAgrees'
  BY <1>3, <1>4 DEF PickerAgrees, PiecesOf, BlocksOf
<1> QED  BY <1>3, <1>6, <1>7 DEF IInv

-----------------------------------------------------------------------------
LEMMA InitIInv == Init => IInv
<1> SUFFICES ASSUME Init  PROVE IInv
  OBVIOUS
<1>1. IsFiniteSet(have)
  BY SessionAssumption, FS_Subset DEF Init
<1>2. TypeOK
  <2>1. verified_count \in Nat
    BY <1>1, FS_CardinalityType DEF Init
  <2>2. 0 \in 0 .. Depth /\ 0 \in 0 .. MaxSurprises
    BY SessionAssumption
  <2> QED  BY <2>1, <2>2 DEF Init, TypeOK
<1>3. PickerAgrees /\ AssignedIsAwaited /\ AwaitedOnce /\ PendingIsKnown
  BY DEF Init, PickerAgrees, AssignedIsAwaited, AwaitedOnce, PendingIsKnown,
         PiecesOf, BlocksOf
<1>4. StartedMeansEndgame
  <2>1. in_progress \subseteq Piece \ have /\ in_progress = {}
    BY DEF Init
  <2> QED  BY <2>1, AllStartedIsAll DEF StartedMeansEndgame
<1> QED  BY <1>2, <1>3, <1>4 DEF IInv

(* A handler that leaves the picker alone and drops no pending request.      *)
LEMMA FillAfterKeeps ==
  ASSUME IInv, NEW p \in Peer, FillAfter(p),
         UNCHANGED <<have, verified_count, received, tainted, surprises, failed, joined>>,
         link' \in [Peer -> {"none", "live", "dead"}],
         choking' \in [Peer -> BOOLEAN],
         bitfield' \in [Peer -> SUBSET Piece]
  PROVE  IInv'
<1>1. Ready(assigned, in_progress, endgame, outstanding, pending, called_off)
  BY DEF Ready, IInv, TypeOK, PickerAgrees, AssignedIsAwaited, AwaitedOnce,
         PendingIsKnown, StartedMeansEndgame
<1>2. Refill({p}, assigned, in_progress, endgame, outstanding, pending, called_off)
  BY DEF FillAfter
<1>3. /\ leaked \subseteq Block /\ surprises' \in 0 .. MaxSurprises /\ failed' \subseteq Piece
      /\ verified_count' \in Nat /\ verified_count' = Cardinality(have')
  BY DEF IInv, TypeOK, PickerAgrees
<1> QED  BY <1>1, <1>2, <1>3, RefillKeeps

(* A choke or a disconnect gives the pending blocks of p back.               *)
LEMMA ReleaseKeeps ==
  ASSUME IInv, NEW p \in Peer,
         Refill(Peer, Released(p), in_progress, endgame,
                [outstanding EXCEPT ![p] = 0], [pending EXCEPT ![p] = {}],
                [called_off EXCEPT ![p] = {}]),
         UNCHANGED <<have, verified_count, received, tainted, surprises, failed>>,
         joined' \subseteq Peer, joined \ {p} \subseteq joined',
         link' \in [Peer -> {"none", "live", "dead"}],
         choking' \in [Peer -> BOOLEAN],
         bitfield' \in [Peer -> SUBSET Piece]
  PROVE  IInv'
<1> DEFINE outs == [outstanding EXCEPT ![p] = 0]
           pend == [pending EXCEPT ![p] = {}]
           off == [called_off EXCEPT ![p] = {}]
<1>1. Ready(Released(p), in_progress, endgame, outs, pend, off)
  <2>1. outs \in [Peer -> 0 .. Depth]
    BY SessionAssumption DEF IInv, TypeOK
  <2>2. pend \in [Peer -> SUBSET Block] /\ off \in [Peer -> SUBSET Block]
    BY DEF IInv, TypeOK
  <2>3. \A q \in Peer : pend[q] = IF q = p THEN {} ELSE pending[q]
    BY DEF IInv, TypeOK
  <2>4. Released(p) \subseteq assigned /\ received \subseteq Released(p)
    BY DEF IInv, PickerAgrees, Released
  <2>5. Released(p) \ received \subseteq leaked \cup UNION {pend[q] : q \in joined'}
    <3> SUFFICES ASSUME NEW x \in Released(p) \ received, x \notin leaked
                 PROVE  \E q \in joined' : x \in pend[q]
      OBVIOUS
    <3>1. PICK q \in joined : x \in pending[q]
      BY DEF IInv, AssignedIsAwaited, Released
    <3>2. q # p
      BY <3>1 DEF Released
    <3> QED  BY <3>1, <3>2, <2>3
  <2>6. ASSUME NEW q \in Peer
        PROVE  /\ \A x \in pend[q] : x \in Released(p) \/ x[1] \in failed' \cup have'
               /\ pend[q] # {} => q \in joined'
    <3>1. CASE q = p
      BY <3>1, <2>3
    <3>2. CASE q # p
      <4>1. pend[q] = pending[q]
        BY <3>2, <2>3
      <4>2. pend[q] # {} => q \in joined'
        BY <4>1, <3>2 DEF IInv, PendingIsKnown
      <4>3. ASSUME NEW x \in pend[q], x[1] \notin failed' \cup have'
            PROVE  x \in Released(p)
        <5>1. x \in assigned
          BY <4>1, <4>3 DEF IInv, PendingIsKnown
        <5>2. x \notin pending[p]
          BY <4>1, <4>3, <3>2 DEF IInv, AwaitedOnce
        <5> QED  BY <5>1, <5>2 DEF Released
      <4> QED  BY <4>2, <4>3
    <3> QED  BY <3>1, <3>2
  <2>7. \A q, r \in Peer : \A x \in pend[q] \cap pend[r] : q = r \/ x[1] \in failed' \cup have'
    BY <2>3 DEF IInv, AwaitedOnce
  <2>8. PiecesOf(Released(p)) \subseteq in_progress
    BY <2>4 DEF IInv, PickerAgrees, PiecesOf
  <2> HIDE DEF outs, pend, off
  <2> QED  BY <2>1, <2>2, <2>4, <2>5, <2>6, <2>7, <2>8
           DEF Ready, IInv, TypeOK, PickerAgrees, StartedMeansEndgame
<1>2. /\ leaked \subseteq Block /\ surprises' \in 0 .. MaxSurprises /\ failed' \subseteq Piece
      /\ verified_count' \in Nat /\ verified_count' = Cardinality(have')
  BY DEF IInv, TypeOK, PickerAgrees
<1> QED  BY <1>1, <1>2, RefillKeeps

(* The bookkeeping that every arrival shares: x is taken off p's list and    *)
(* called off elsewhere.                                                     *)
LEMMA ArrivalBooks ==
  ASSUME IInv, NEW p \in Peer, NEW x \in Block, NEW S
  PROVE  /\ OutstandingAfter(p) \in [Peer -> 0 .. Depth]
         /\ PendingAfter(p, x) \in [Peer -> SUBSET Block]
         /\ CalledOffAfter(p, x, S) \in [Peer -> SUBSET Block]
         /\ \A q \in Peer : PendingAfter(p, x)[q] =
              IF q = p THEN pending[q] \ {x} ELSE pending[q]
<1>1. /\ outstanding \in [Peer -> 0 .. Depth] /\ pending \in [Peer -> SUBSET Block]
      /\ called_off \in [Peer -> SUBSET Block] /\ Depth \in Nat
  BY SessionAssumption DEF IInv, TypeOK
<1>2. OutstandingAfter(p) \in [Peer -> 0 .. Depth]
  BY <1>1 DEF OutstandingAfter
<1>3. CalledOffAfter(p, x, S) \in [Peer -> SUBSET Block]
  BY <1>1 DEF CalledOffAfter
<1> QED  BY <1>1, <1>2, <1>3 DEF PendingAfter

LEMMA DuplicateKeeps ==
  ASSUME IInv, NEW p \in Peer, NEW x \in Block, NEW good \in BOOLEAN,
         BlockDuplicate(p, x, good)
  PROVE  IInv'
<1> DEFINE outs == OutstandingAfter(p)
           pend == PendingAfter(p, x)
           off == CalledOffAfter(p, x, {x})
<1>1. /\ x[1] \notin in_progress \/ x \in received
      /\ UNCHANGED <<have, verified_count, received, tainted, failed>>
      /\ UNCHANGED <<link, choking, joined, bitfield>>
      /\ Refill({p}, assigned, in_progress, endgame, outs, pend, off)
  BY DEF BlockDuplicate, Arrives
<1>2. surprises' \in 0 .. MaxSurprises
  BY SessionAssumption DEF BlockDuplicate, Arrives, IInv, TypeOK
<1>3. Ready(assigned, in_progress, endgame, outs, pend, off)
  <2>1. /\ outs \in [Peer -> 0 .. Depth]
        /\ pend \in [Peer -> SUBSET Block]
        /\ off \in [Peer -> SUBSET Block]
        /\ \A q \in Peer : pend[q] = IF q = p THEN pending[q] \ {x} ELSE pending[q]
    BY ArrivalBooks
  <2>2. x \notin assigned \ received
    BY <1>1 DEF IInv, PickerAgrees, PiecesOf
  <2>3. assigned \ received' \subseteq leaked \cup UNION {pend[q] : q \in joined'}
    <3> SUFFICES ASSUME NEW y \in assigned \ received, y \notin leaked
                 PROVE  \E q \in joined : y \in pend[q]
      BY <1>1
    <3>1. PICK q \in joined : y \in pending[q]
      BY DEF IInv, AssignedIsAwaited
    <3>2. q \in Peer
      BY DEF IInv, TypeOK
    <3> QED  BY <3>1, <3>2, <2>1, <2>2
  <2>4. \A q \in Peer :
          /\ \A y \in pend[q] : y \in assigned \/ y[1] \in failed' \cup have'
          /\ pend[q] # {} => q \in joined'
    BY <1>1, <2>1 DEF IInv, PendingIsKnown
  <2>5. \A q, r \in Peer : \A y \in pend[q] \cap pend[r] :
          q = r \/ y[1] \in failed' \cup have'
    BY <1>1, <2>1 DEF IInv, AwaitedOnce
  <2> HIDE DEF outs, pend, off
  <2> QED  BY <1>1, <2>1, <2>3, <2>4, <2>5
           DEF Ready, IInv, TypeOK, PickerAgrees, StartedMeansEndgame
<1>4. /\ leaked \subseteq Block /\ failed' \subseteq Piece
      /\ verified_count' \in Nat /\ verified_count' = Cardinality(have')
      /\ link' \in [Peer -> {"none", "live", "dead"}] /\ choking' \in [Peer -> BOOLEAN]
  BY <1>1 DEF IInv, TypeOK, PickerAgrees
<1> QED  BY <1>1, <1>2, <1>3, <1>4, RefillKeeps

LEMMA ProgressKeeps ==
  ASSUME IInv, NEW p \in Peer, NEW x \in Block, NEW good \in BOOLEAN,
         BlockProgress(p, x, good)
  PROVE  IInv'
<1> DEFINE outs == OutstandingAfter(p)
           pend == PendingAfter(p, x)
           off == CalledOffAfter(p, x, {x})
           taken == assigned \cup {x}
<1>1. /\ x[1] \in in_progress /\ x \notin received
      /\ ~ BlocksOf(x[1]) \subseteq received \cup {x}
      /\ received' = received \cup {x}
      /\ tainted' = IF good THEN tainted ELSE tainted \cup {x[1]}
      /\ UNCHANGED <<have, verified_count, failed>>
      /\ UNCHANGED <<link, choking, joined, bitfield>>
      /\ Refill({p}, taken, in_progress, endgame, outs, pend, off)
  BY DEF BlockProgress, Arrives
<1>2. surprises' \in 0 .. MaxSurprises
  BY SessionAssumption DEF BlockProgress, Arrives, IInv, TypeOK
<1>3. Ready(taken, in_progress, endgame, outs, pend, off)
  <2>1. /\ outs \in [Peer -> 0 .. Depth]
        /\ pend \in [Peer -> SUBSET Block]
        /\ off \in [Peer -> SUBSET Block]
        /\ \A q \in Peer : pend[q] = IF q = p THEN pending[q] \ {x} ELSE pending[q]
    BY ArrivalBooks
  <2>2. taken \ received' \subseteq leaked \cup UNION {pend[q] : q \in joined'}
    <3> SUFFICES ASSUME NEW y \in assigned \ received, y # x, y \notin leaked
                 PROVE  \E q \in joined : y \in pend[q]
      BY <1>1
    <3>1. PICK q \in joined : y \in pending[q]
      BY DEF IInv, AssignedIsAwaited
    <3>2. q \in Peer
      BY DEF IInv, TypeOK
    <3> QED  BY <3>1, <3>2, <2>1
  <2>3. \A q \in Peer :
          /\ \A y \in pend[q] : y \in taken \/ y[1] \in failed' \cup have'
          /\ pend[q] # {} => q \in joined'
    BY <1>1, <2>1 DEF IInv, PendingIsKnown
  <2>4. \A q, r \in Peer : \A y \in pend[q] \cap pend[r] :
          q = r \/ y[1] \in failed' \cup have'
    BY <1>1, <2>1 DEF IInv, AwaitedOnce
  <2>5. taken \subseteq Block /\ received' \subseteq taken
    BY <1>1 DEF IInv, TypeOK, PickerAgrees
  <2>6. PiecesOf(taken) \subseteq in_progress /\ tainted' \subseteq PiecesOf(received')
    BY <1>1 DEF IInv, PickerAgrees, PiecesOf
  <2>7. ASSUME NEW i \in in_progress  PROVE  ~ BlocksOf(i) \subseteq received'
    <3>1. CASE i = x[1]
      BY <3>1, <1>1
    <3>2. CASE i # x[1]
      <4>1. PICK y \in BlocksOf(i) : y \notin received
        BY DEF IInv, PickerAgrees
      <4>2. y[1] = i
        BY <4>1 DEF BlocksOf
      <4> QED  BY <4>1, <4>2, <3>2, <1>1
    <3> QED  BY <3>1, <3>2
  <2> HIDE DEF outs, pend, off, taken
  <2> QED  BY <1>1, <2>1, <2>2, <2>3, <2>4, <2>5, <2>6, <2>7
           DEF Ready, IInv, TypeOK, PickerAgrees, StartedMeansEndgame
<1>4. /\ leaked \subseteq Block /\ failed' \subseteq Piece
      /\ verified_count' \in Nat /\ verified_count' = Cardinality(have')
      /\ link' \in [Peer -> {"none", "live", "dead"}] /\ choking' \in [Peer -> BOOLEAN]
  BY <1>1 DEF IInv, TypeOK, PickerAgrees
<1> QED  BY <1>1, <1>2, <1>3, <1>4, RefillKeeps

(* A complete piece leaves the books, whether its hash matches or not.       *)
LEMMA CompletesKeeps ==
  ASSUME IInv, NEW p \in Peer, NEW x \in Block, NEW good \in BOOLEAN,
         BlockCompletes(p, x, good)
  PROVE  IInv'
<1> DEFINE i == x[1]
           verifies == good /\ i \notin tainted
           started == in_progress \ {i}
           taken == assigned \ BlocksOf(i)
           mode == endgame \/ (verifies /\ AllStarted(started, have'))
           outs == OutstandingAfter(p)
           pend == PendingAfter(p, x)
           off == CalledOffAfter(p, x, BlocksOf(i))
<1>1. /\ i \in in_progress /\ x \notin received
      /\ BlocksOf(i) \subseteq received \cup {x}
      /\ received' = received \ BlocksOf(i)
      /\ tainted' = tainted \ {i}
      /\ have' = IF verifies THEN have \cup {i} ELSE have
      /\ verified_count' = IF verifies THEN verified_count + 1 ELSE verified_count
      /\ failed' = IF verifies THEN failed \ {i} ELSE failed \cup {i}
      /\ UNCHANGED <<link, choking, joined, bitfield>>
      /\ Refill({p}, taken, started, mode, outs, pend, off)
  BY DEF BlockCompletes, Arrives, WithoutPiece
<1>2. surprises' \in 0 .. MaxSurprises
  BY SessionAssumption DEF BlockCompletes, Arrives, IInv, TypeOK
<1>3. i \in Piece /\ i \notin have /\ x \in BlocksOf(i)
  BY <1>1 DEF IInv, TypeOK, PickerAgrees, BlocksOf
<1>4. i \in failed' \cup have' /\ failed \cup have \subseteq failed' \cup have'
      /\ have' \subseteq Piece /\ failed' \subseteq Piece
  BY <1>1, <1>3 DEF IInv, TypeOK
<1>5. verified_count' \in Nat /\ verified_count' = Cardinality(have')
  <2>1. IsFiniteSet(have) /\ verified_count \in Nat /\ verified_count = Cardinality(have)
    BY SessionAssumption, FS_Subset DEF IInv, TypeOK, PickerAgrees
  <2>2. Cardinality(have \cup {i}) = Cardinality(have) + 1
    BY <2>1, <1>3, FS_AddElement
  <2> QED  BY <1>1, <2>1, <2>2
<1>6. Ready(taken, started, mode, outs, pend, off)
  <2>1. /\ outs \in [Peer -> 0 .. Depth]
        /\ pend \in [Peer -> SUBSET Block]
        /\ off \in [Peer -> SUBSET Block]
        /\ \A q \in Peer : pend[q] = IF q = p THEN pending[q] \ {x} ELSE pending[q]
    BY ArrivalBooks
  <2>2. taken \ received' \subseteq leaked \cup UNION {pend[q] : q \in joined'}
    <3> SUFFICES ASSUME NEW y \in taken \ received', y \notin leaked
                 PROVE  \E q \in joined : y \in pend[q]
      BY <1>1
    <3>1. y \in assigned \ received /\ y # x
      BY <1>1, <1>3
    <3>2. PICK q \in joined : y \in pending[q]
      BY <3>1 DEF IInv, AssignedIsAwaited
    <3>3. q \in Peer
      BY DEF IInv, TypeOK
    <3> QED  BY <3>1, <3>2, <3>3, <2>1
  <2>3. \A y \in Block : y \in assigned => y \in taken \/ y[1] = i
    BY DEF BlocksOf
  <2>4. ASSUME NEW q \in Peer
        PROVE  /\ \A y \in pend[q] : y \in taken \/ y[1] \in failed' \cup have'
               /\ pend[q] # {} => q \in joined'
    <3>1. pend[q] \subseteq pending[q] /\ pend[q] \subseteq Block
      BY <2>1
    <3>2. \A y \in pend[q] : y \in assigned \/ y[1] \in failed \cup have
      BY <3>1 DEF IInv, PendingIsKnown
    <3>3. pend[q] # {} => q \in joined'
      BY <1>1, <3>1 DEF IInv, PendingIsKnown
    <3> HIDE DEF taken, pend, i
    <3> QED  BY <3>1, <3>2, <3>3, <2>3, <1>4
  <2>5. \A q, r \in Peer : \A y \in pend[q] \cap pend[r] :
          q = r \/ y[1] \in failed' \cup have'
    <3>1. \A q \in Peer : pend[q] \subseteq pending[q]
      BY <2>1
    <3> HIDE DEF pend, i
    <3> QED  BY <3>1, <1>4 DEF IInv, AwaitedOnce
  <2>6. taken \subseteq Block /\ received' \subseteq taken /\ started \subseteq Piece
    BY <1>1 DEF IInv, TypeOK, PickerAgrees
  <2>7. PiecesOf(taken) \subseteq started
    BY DEF IInv, TypeOK, PickerAgrees, PiecesOf, BlocksOf
  <2>8. tainted' \subseteq PiecesOf(received')
    BY <1>1 DEF IInv, TypeOK, PickerAgrees, PiecesOf, BlocksOf
  <2>9. \A j \in started : ~ BlocksOf(j) \subseteq received'
    BY <1>1 DEF IInv, PickerAgrees
  <2>10. have' \cap started = {}
    BY <1>1 DEF IInv, PickerAgrees
  <2>11. mode \in BOOLEAN
    BY Zenon DEF IInv, TypeOK, AllStarted
  <2>12. AllStarted(started, have') => mode
    <3>1. CASE verifies
      BY <3>1
    <3>2. CASE ~ verifies
      <4>1. have' = have /\ started \subseteq Piece \ have /\ i \in (Piece \ have) \ started
        BY <1>1, <1>3, <3>2, <2>6, <2>10
      <4>2. ~ AllStarted(started, have)
        BY <4>1, AllStartedIsAll
      <4> QED  BY <4>1, <4>2
    <3> QED  BY <3>1, <3>2
  <2>13. joined' \subseteq Peer /\ bitfield' \in [Peer -> SUBSET Piece]
    BY <1>1 DEF IInv, TypeOK
  <2> HIDE DEF outs, pend, off, taken, started, mode, verifies
  <2> QED  BY <1>4, <2>1, <2>2, <2>4, <2>5, <2>6, <2>7, <2>8, <2>9, <2>10, <2>11,
              <2>12, <2>13 DEF Ready
<1>7. /\ leaked \subseteq Block
      /\ link' \in [Peer -> {"none", "live", "dead"}] /\ choking' \in [Peer -> BOOLEAN]
  BY <1>1 DEF IInv, TypeOK
<1> QED  BY <1>1, <1>2, <1>4, <1>5, <1>6, <1>7, RefillKeeps

-----------------------------------------------------------------------------
LEMMA NextIInv == IInv /\ [Next]_vars => IInv'
<1> SUFFICES ASSUME IInv, [Next]_vars  PROVE IInv'
  OBVIOUS
<1>1. ASSUME NEW S \in SUBSET Peer, ConnectPending(S)
      PROVE  IInv'
  <2>0. /\ link' \in [Peer -> {"none", "live", "dead"}] /\ choking' \in [Peer -> BOOLEAN]
        /\ outstanding' \in [Peer -> 0 .. Depth]
    <3>1. /\ link \in [Peer -> {"none", "live", "dead"}] /\ 0 \in 0 .. Depth
          /\ choking \in [Peer -> BOOLEAN] /\ outstanding \in [Peer -> 0 .. Depth]
      BY SessionAssumption DEF IInv, TypeOK
    <3>2. link' \in [Peer -> {"none", "live", "dead"}]
      BY <1>1, <3>1 DEF ConnectPending
    <3>3. choking' \in [Peer -> BOOLEAN]
      BY <1>1, <3>1 DEF ConnectPending
    <3>4. outstanding' \in [Peer -> 0 .. Depth]
      BY <1>1, <3>1 DEF ConnectPending
    <3> QED  BY <3>2, <3>3, <3>4
  <2>1. TypeOK'
    BY <1>1, <2>0 DEF ConnectPending, IInv, TypeOK, pickerVars, remoteVars, historyVars
  <2> QED  BY <1>1, <2>1
           DEF ConnectPending, IInv, PickerAgrees, AssignedIsAwaited, AwaitedOnce,
               PendingIsKnown, StartedMeansEndgame, pickerVars, remoteVars, historyVars
<1>2. ASSUME NEW p \in Peer, TaskEnds(p)
      PROVE  IInv'
  <2>1. TypeOK'
    BY <1>2 DEF TaskEnds, IInv, TypeOK, pickerVars, remoteVars, historyVars
  <2> QED  BY <1>2, <2>1
           DEF TaskEnds, IInv, PickerAgrees, AssignedIsAwaited, AwaitedOnce,
               PendingIsKnown, StartedMeansEndgame, pickerVars, remoteVars, historyVars
<1>3. ASSUME NEW p \in Peer, Connected(p)
      PROVE  IInv'
  <2>1. pending[p] = {} /\ pending' = pending
    BY <1>3 DEF Connected, IInv, TypeOK, PendingIsKnown
  <2>2. TypeOK'
    BY <1>3, <2>1 DEF Connected, IInv, TypeOK, pickerVars, remoteVars, historyVars
  <2> QED  BY <1>3, <2>1, <2>2
           DEF Connected, IInv, PickerAgrees, AssignedIsAwaited, AwaitedOnce,
               PendingIsKnown, StartedMeansEndgame, pickerVars, remoteVars, historyVars
<1>4. ASSUME NEW p \in Peer, NEW S \in Announced, BitfieldReceived(p, S)
      PROVE  IInv'
  <2>1. bitfield' \in [Peer -> SUBSET Piece]
    BY <1>4, SessionAssumption DEF BitfieldReceived, IInv, TypeOK
  <2> QED  BY <1>4, <2>1, FillAfterKeeps DEF BitfieldReceived, IInv, TypeOK
<1>5. ASSUME NEW p \in Peer, NEW i \in Piece, Have(p, i)
      PROVE  IInv'
  <2>1. bitfield' \in [Peer -> SUBSET Piece]
    BY <1>5 DEF Have, IInv, TypeOK
  <2> QED  BY <1>5, <2>1, FillAfterKeeps DEF Have, IInv, TypeOK
<1>6. ASSUME NEW p \in Peer, Unchoked(p)
      PROVE  IInv'
  <2>1. choking' \in [Peer -> BOOLEAN]
    BY <1>6 DEF Unchoked, IInv, TypeOK
  <2> QED  BY <1>6, <2>1, FillAfterKeeps DEF Unchoked, IInv, TypeOK
<1>7. ASSUME NEW p \in Peer, Choked(p)
      PROVE  IInv'
  <2>1. choking' \in [Peer -> BOOLEAN]
    BY <1>7 DEF Choked, IInv, TypeOK
  <2> QED  BY <1>7, <2>1, ReleaseKeeps DEF Choked, IInv, TypeOK
<1>8. ASSUME NEW p \in Peer, Disconnected(p)
      PROVE  IInv'
  <2>1. /\ link' \in [Peer -> {"none", "live", "dead"}] /\ choking' \in [Peer -> BOOLEAN]
        /\ bitfield' \in [Peer -> SUBSET Piece] /\ joined' = joined \ {p}
        /\ joined \subseteq Peer
    BY <1>8 DEF Disconnected, IInv, TypeOK
  <2>2. Refill(Peer, Released(p), in_progress, endgame,
               [outstanding EXCEPT ![p] = 0], [pending EXCEPT ![p] = {}],
               [called_off EXCEPT ![p] = {}])
    BY <1>8 DEF Disconnected
  <2>3. UNCHANGED <<have, verified_count, received, tainted, surprises, failed>>
    BY <1>8 DEF Disconnected
  <2> QED  BY <2>1, <2>2, <2>3, ReleaseKeeps
<1>9. ASSUME NEW p \in Peer, NEW x \in Block, NEW good \in BOOLEAN,
             BlockReceived(p, x, good)
      PROVE  IInv'
  BY <1>9, DuplicateKeeps, ProgressKeeps, CompletesKeeps DEF BlockReceived
<1>10. CASE UNCHANGED vars
  BY <1>10 DEF vars, pickerVars, peerVars, remoteVars, historyVars, IInv, TypeOK,
     PickerAgrees, AssignedIsAwaited, AwaitedOnce, PendingIsKnown, StartedMeansEndgame
<1> QED  BY <1>1, <1>2, <1>3, <1>4, <1>5, <1>6, <1>7, <1>8, <1>9, <1>10 DEF Next

(* When everything missing is handed out, every missing piece is started.    *)
LEMMA HandedOutMeansStarted ==
  ASSUME IInv  PROVE EndgameWhenHandedOut
<1> SUFFICES ASSUME Running, Free(Piece, assigned, have, received) = {}  PROVE endgame
  BY DEF EndgameWhenHandedOut
<1>1. in_progress \subseteq Piece \ have
  BY DEF IInv, TypeOK, PickerAgrees
<1>2. ASSUME NEW i \in Piece \ have  PROVE i \in in_progress
  <2>1. <<i, 0>> \in assigned
    BY FirstBlock DEF Free, IInv, PickerAgrees
  <2>2. <<i, 0>>[1] \in PiecesOf(assigned)
    BY <2>1 DEF PiecesOf
  <2> QED  BY <2>2 DEF IInv, PickerAgrees
<1>3. Piece \ have # {}
  BY DEF Running, IInv, TypeOK
<1>4. AllStarted(in_progress, have)
  BY <1>1, <1>2, <1>3, AllStartedIsAll
<1> QED  BY <1>4 DEF IInv, StartedMeansEndgame

(* The inductive invariant holds in every state.                             *)
LEMMA Invariance == Spec => []IInv
BY InitIInv, NextIInv, PTL DEF Spec

-----------------------------------------------------------------------------
(* No idle peer.  A fill feeds the peers it is called for until they have no *)
(* room or nothing is left for them, and every handler calls it for each     *)
(* peer that gained room, a block to ask for, or the leave to ask.           *)

(* The fill leaves no called peer with room and a block to hand out, unless  *)
(* its channel refused a request.                                            *)
LEMMA RefillFeeds ==
  ASSUME NEW callers, NEW taken, NEW started, NEW mode,
         NEW outs \in [Peer -> 0 .. Depth], NEW pend, NEW off,
         joined' \subseteq Peer,
         Refill(callers, taken, started, mode, outs, pend, off)
  PROVE  /\ taken \subseteq assigned'
         /\ \A q \in Peer : outstanding'[q] \in Nat /\ outs[q] <= outstanding'[q]
         /\ \A q \in (callers \cap joined') \ Congested :
              link'[q] = "live" /\ ~ choking'[q] /\ outstanding'[q] < Depth
                => Free(bitfield'[q], assigned', have', received') = {}
<1> DEFINE able == {q \in callers \cap joined' :
                      link'[q] # "none" /\ ~ choking'[q] /\ outs[q] < Depth}
           anyFree == Free(UNION {bitfield'[q] : q \in able}, taken, have', received')
           batches == {S \in SUBSET anyFree : Cardinality(S) <= Depth}
<1>1. PICK turn \in [able -> 1 .. Cardinality(able)], picks \in [able -> batches],
           lost \in [able -> {{}} \cup {{x} : x \in anyFree}] :
        /\ \A q, r \in able : turn[q] = turn[r] => q = r
        /\ \A q \in able :
             LET earlier == UNION {picks[r] : r \in {r \in able : turn[r] < turn[q]}}
             IN  FillPipeline(q, Depth - outs[q],
                              Free(bitfield'[q], taken \cup earlier, have', received'),
                              started \cup PiecesOf(earlier), picks[q], lost[q])
        /\ LET handed == UNION {picks[q] : q \in able}
               sent == [q \in Peer |-> IF q \in able THEN picks[q] \ lost[q] ELSE {}]
           IN  /\ assigned' = taken \cup handed
               /\ in_progress' = started \cup PiecesOf(handed)
               /\ endgame' = (mode \/ (/\ PiecesOf(handed) \ started # {}
                                       /\ AllStarted(in_progress', have')))
               /\ outstanding' = [q \in Peer |-> outs[q] + Cardinality(sent[q])]
               /\ pending' = [q \in Peer |-> pend[q] \cup sent[q]]
               /\ called_off' = [q \in Peer |-> off[q] \ sent[q]]
        /\ leaked' = (leaked \cap (taken \ received')) \cup UNION {lost[q] : q \in able}
  BY DEF Refill
<1> DEFINE earlier(q) == UNION {picks[r] : r \in {r \in able : turn[r] < turn[q]}}
           free(q) == Free(bitfield'[q], taken \cup earlier(q), have', received')
           handed == UNION {picks[q] : q \in able}
           sent == [q \in Peer |-> IF q \in able THEN picks[q] \ lost[q] ELSE {}]
<1>2. assigned' = taken \cup handed
  BY <1>1
<1>3. \A q \in Peer : outstanding'[q] = outs[q] + Cardinality(sent[q])
  BY <1>1
<1>4. \A q \in able : FillPipeline(q, Depth - outs[q], free(q),
                                   started \cup PiecesOf(earlier(q)), picks[q], lost[q])
  BY <1>1
<1>5. \A q \in able : picks[q] \subseteq free(q)
  BY <1>4 DEF FillPipeline, Picks
<1>6. ASSUME NEW q \in able  PROVE  IsFiniteSet(free(q)) /\ IsFiniteSet(picks[q])
  <2>1. IsFiniteSet(free(q))
    BY BlockFinite, FS_Subset DEF Free
  <2>2. picks[q] \subseteq free(q)
    BY <1>5
  <2> HIDE DEF free
  <2> QED  BY <2>1, <2>2, FS_Subset
<1>7. \A q \in Peer : outs[q] \in Nat /\ Depth \in Nat
  BY SessionAssumption
<1>8. ASSUME NEW q \in Peer
      PROVE  outstanding'[q] \in Nat /\ outs[q] <= outstanding'[q]
  <2>1. IsFiniteSet(sent[q])
    <3>1. CASE q \in able
      <4>1. sent[q] \subseteq picks[q]
        BY <3>1
      <4> QED  BY <4>1, <3>1, <1>6, FS_Subset
    <3>2. CASE q \notin able
      BY <3>2, FS_EmptySet
    <3> QED  BY <3>1, <3>2
  <2>2. Cardinality(sent[q]) \in Nat
    BY <2>1, FS_CardinalityType
  <2> HIDE DEF sent
  <2> QED  BY <2>2, <1>3, <1>7
<1>9. ASSUME NEW q \in (callers \cap joined') \ Congested,
             link'[q] = "live", ~ choking'[q], outstanding'[q] < Depth
      PROVE  Free(bitfield'[q], assigned', have', received') = {}
  <2>1. q \in Peer
    OBVIOUS
  <2>2. outs[q] < Depth
    <3>1. /\ outs[q] \in Nat /\ Depth \in Nat
          /\ outs[q] <= outstanding'[q] /\ outstanding'[q] < Depth
          /\ outstanding'[q] = outs[q] + Cardinality(sent[q])
      BY <2>1, <1>3, <1>7, <1>8, <1>9
    <3>2. Cardinality(sent[q]) \in Nat
      <4>1. CASE q \in able
        <5>1. sent[q] \subseteq picks[q]
          BY <4>1
        <5> QED  BY <5>1, <4>1, <1>6, FS_Subset, FS_CardinalityType
      <4>2. CASE q \notin able
        BY <2>1, <4>2, FS_EmptySet
      <4> QED  BY <4>1, <4>2
    <3> HIDE DEF sent
    <3> QED  BY <3>1, <3>2
  <2>3. q \in able
    BY <1>9, <2>2
  <2>4. lost[q] = {} /\ Cardinality(picks[q]) =
          IF Depth - outs[q] < Cardinality(free(q))
          THEN Depth - outs[q] ELSE Cardinality(free(q))
    <3>1. ~ (q \in Congested \/ link'[q] = "dead")
      BY <1>9
    <3> HIDE DEF free, earlier, able
    <3> QED  BY <3>1, <1>4, <2>3 DEF FillPipeline
  <2>5. sent[q] = picks[q]
    BY <2>1, <2>3, <2>4
  <2>6. Cardinality(picks[q]) \in Nat /\ Cardinality(free(q)) \in Nat
    BY <1>6, <2>3, FS_CardinalityType
  <2>7. Cardinality(picks[q]) = Cardinality(free(q))
    <3>1. outstanding'[q] = outs[q] + Cardinality(picks[q])
      BY <2>1, <2>5, <1>3
    <3> HIDE DEF free
    <3> QED  BY <3>1, <2>1, <2>4, <2>6, <1>7, <1>9
  <2>8. picks[q] = free(q)
    <3>1. picks[q] \subseteq free(q) /\ IsFiniteSet(free(q))
      BY <2>3, <1>5, <1>6
    <3> HIDE DEF free
    <3> QED  BY <3>1, <2>7, FS_Subset
  <2>9. taken \cup earlier(q) \cup picks[q] \subseteq assigned'
    BY <1>2, <2>3
  <2> QED  BY <2>8, <2>9 DEF Free
<1> QED  BY <1>2, <1>8, <1>9

(* A handler that leaves the other peers alone leaves them fed: it must not  *)
(* give back a block of a piece that did not fail.                           *)
LEMMA OthersStayFed ==
  ASSUME NEW callers, NEW taken, NEW started, NEW mode,
         NEW outs \in [Peer -> 0 .. Depth], NEW pend, NEW off,
         NoIdlePeer, joined' \subseteq Peer,
         Refill(callers, taken, started, mode, outs, pend, off),
         \A q \in Peer \ callers :
           /\ q \in joined' => q \in joined
           /\ link'[q] = link[q] /\ choking'[q] = choking[q]
           /\ bitfield'[q] = bitfield[q] /\ outs[q] = outstanding[q]
           /\ outstanding[q] \in Nat,
         \A x \in Block : x \in assigned \cup received
                            => x \in taken \cup received' \/ x[1] \in failed' \cup have',
         failed \cup have \subseteq failed' \cup have'
  PROVE  NoIdlePeer'
<1>1. /\ taken \subseteq assigned'
      /\ \A q \in Peer : outstanding'[q] \in Nat /\ outs[q] <= outstanding'[q]
      /\ \A q \in (callers \cap joined') \ Congested :
           link'[q] = "live" /\ ~ choking'[q] /\ outstanding'[q] < Depth
             => Free(bitfield'[q], assigned', have', received') = {}
  BY RefillFeeds
<1> SUFFICES ASSUME NEW q \in joined' \ Congested,
                    link'[q] = "live", ~ choking'[q], outstanding'[q] < Depth,
                    NEW x \in Free(bitfield'[q], assigned', have', received')
             PROVE  x[1] \in failed'
  BY DEF NoIdlePeer, PiecesOf
<1>2. q \in Peer /\ q \notin callers
  BY <1>1
<1>3. outstanding[q] < Depth
  <2>1. outs[q] = outstanding[q] /\ outs[q] <= outstanding'[q]
        /\ outs[q] \in Nat /\ Depth \in Nat /\ outstanding'[q] \in Nat
    BY <1>1, <1>2, SessionAssumption
  <2> QED  BY <2>1
<1>4. /\ q \in joined \ Congested /\ link[q] = "live" /\ ~ choking[q]
      /\ bitfield'[q] = bitfield[q]
  BY <1>2
<1>5. /\ x \in Block /\ x[1] \in bitfield[q] /\ x[1] \notin have'
      /\ x \notin assigned' /\ x \notin received'
  BY <1>4 DEF Free
<1>6. SUFFICES ASSUME x[1] \notin failed'  PROVE FALSE
  OBVIOUS
<1>7. x \notin assigned \cup received /\ x[1] \notin failed \cup have
  BY <1>1, <1>5, <1>6
<1>8. x \in Free(bitfield[q], assigned, have, received)
  BY <1>5, <1>7 DEF Free
<1> QED  BY <1>3, <1>4, <1>7, <1>8 DEF NoIdlePeer, PiecesOf

LEMMA NextStaysFed ==
  ASSUME IInv, NoIdlePeer, [Next]_vars
  PROVE  NoIdlePeer'
<1>0. /\ joined' \subseteq Peer
      /\ outstanding \in [Peer -> 0 .. Depth]
      /\ \A q \in Peer : outstanding[q] \in Nat
  <2>1. TypeOK /\ TypeOK'
    BY NextIInv DEF IInv
  <2> QED  BY <2>1, SessionAssumption DEF TypeOK
<1>1. ASSUME NEW S \in SUBSET Peer, ConnectPending(S)
      PROVE  NoIdlePeer'
  <2>1. joined \subseteq Peer
    BY DEF IInv, TypeOK
  <2>2. \A q \in Peer : ~ choking'[q] =>
          choking'[q] = choking[q] /\ link'[q] = link[q] /\ outstanding'[q] = outstanding[q]
    BY <1>1, Zenon DEF ConnectPending
  <2>3. /\ joined' = joined /\ bitfield' = bitfield /\ assigned' = assigned
        /\ have' = have /\ received' = received /\ failed' = failed
    BY <1>1 DEF ConnectPending, pickerVars, historyVars
  <2> QED  BY <2>1, <2>2, <2>3 DEF NoIdlePeer, Free, PiecesOf
<1>2. ASSUME NEW p \in Peer, TaskEnds(p)
      PROVE  NoIdlePeer'
  <2>1. joined \subseteq Peer
    BY DEF IInv, TypeOK
  <2>2. \A q \in Peer : link'[q] = "live" => link[q] = "live"
    BY <1>2 DEF TaskEnds, IInv, TypeOK
  <2> QED  BY <1>2, <2>1, <2>2
           DEF TaskEnds, NoIdlePeer, Free, PiecesOf, pickerVars, historyVars
<1>3. ASSUME NEW p \in Peer, Connected(p)
      PROVE  NoIdlePeer'
  <2>1. /\ joined' = joined \cup {p} /\ bitfield'[p] = {}
        /\ \A q \in Peer \ {p} : bitfield'[q] = bitfield[q]
        /\ joined \subseteq Peer
    BY <1>3 DEF Connected, IInv, TypeOK
  <2>2. UNCHANGED <<link, choking, outstanding, assigned, have, received, failed>>
    BY <1>3 DEF Connected, pickerVars, historyVars
  <2> SUFFICES ASSUME NEW q \in joined' \ Congested, link'[q] = "live",
                      ~ choking'[q], outstanding'[q] < Depth
               PROVE  PiecesOf(Free(bitfield'[q], assigned', have', received'))
                        \subseteq failed'
    BY DEF NoIdlePeer
  <2>3. CASE q = p
    BY <2>1, <2>3 DEF Free, PiecesOf
  <2>4. CASE q # p
    BY <2>1, <2>2, <2>4 DEF NoIdlePeer
  <2> QED  BY <2>3, <2>4
<1>4. ASSUME NEW p \in Peer, FillAfter(p),
             UNCHANGED <<have, received, link, joined, failed>>,
             \A q \in Peer \ {p} : choking'[q] = choking[q] /\ bitfield'[q] = bitfield[q]
      PROVE  NoIdlePeer'
  <2>1. Refill({p}, assigned, in_progress, endgame, outstanding, pending, called_off)
    BY <1>4 DEF FillAfter
  <2>2. /\ \A q \in Peer \ {p} :
             /\ q \in joined' => q \in joined
             /\ link'[q] = link[q] /\ choking'[q] = choking[q]
             /\ bitfield'[q] = bitfield[q] /\ outstanding[q] = outstanding[q]
             /\ outstanding[q] \in Nat
        /\ \A x \in Block : x \in assigned \cup received
             => x \in assigned \cup received' \/ x[1] \in failed' \cup have'
        /\ failed \cup have \subseteq failed' \cup have'
    BY <1>0, <1>4
  <2> QED  BY <1>0, <2>1, <2>2, OthersStayFed
<1>5. ASSUME NEW p \in Peer, NEW S \in Announced, BitfieldReceived(p, S)
      PROVE  NoIdlePeer'
  BY <1>4, <1>5 DEF BitfieldReceived, IInv, TypeOK
<1>6. ASSUME NEW p \in Peer, NEW i \in Piece, Have(p, i)
      PROVE  NoIdlePeer'
  BY <1>4, <1>6 DEF Have, IInv, TypeOK
<1>7. ASSUME NEW p \in Peer, Unchoked(p)
      PROVE  NoIdlePeer'
  BY <1>4, <1>7 DEF Unchoked, IInv, TypeOK
<1>8. ASSUME NEW p \in Peer, Choked(p) \/ Disconnected(p)
      PROVE  NoIdlePeer'
  <2> DEFINE outs == [outstanding EXCEPT ![p] = 0]
             pend == [pending EXCEPT ![p] = {}]
             off == [called_off EXCEPT ![p] = {}]
  <2>1. Refill(Peer, Released(p), in_progress, endgame, outs, pend, off)
    BY <1>8 DEF Choked, Disconnected
  <2>2. outs \in [Peer -> 0 .. Depth]
    BY <1>0, SessionAssumption
  <2> HIDE DEF outs, pend, off
  <2>3. \A q \in (Peer \cap joined') \ Congested :
          link'[q] = "live" /\ ~ choking'[q] /\ outstanding'[q] < Depth
            => Free(bitfield'[q], assigned', have', received') = {}
    BY <1>0, <2>1, <2>2, RefillFeeds
  <2> QED  BY <1>0, <2>3 DEF NoIdlePeer, PiecesOf
<1>9. ASSUME NEW p \in Peer, NEW x \in Block, NEW good \in BOOLEAN,
             BlockReceived(p, x, good)
      PROVE  NoIdlePeer'
  <2> DEFINE outs == OutstandingAfter(p)
             pend == PendingAfter(p, x)
  <2>1. outs \in [Peer -> 0 .. Depth]
    BY <1>0, ArrivalBooks
  <2>2. \A q \in Peer \ {p} :
          /\ q \in joined' => q \in joined
          /\ link'[q] = link[q] /\ choking'[q] = choking[q]
          /\ bitfield'[q] = bitfield[q] /\ outs[q] = outstanding[q]
          /\ outstanding[q] \in Nat
    BY <1>0, <1>9 DEF OutstandingAfter, BlockReceived, BlockDuplicate, BlockProgress,
       BlockCompletes, Arrives
  <2> HIDE DEF outs, pend
  <2>3. CASE BlockDuplicate(p, x, good)
    <3>1. Refill({p}, assigned, in_progress, endgame, outs, pend,
                 CalledOffAfter(p, x, {x}))
      BY <2>3 DEF BlockDuplicate, outs, pend
    <3>2. UNCHANGED <<have, received, failed>>
      BY <2>3 DEF BlockDuplicate
    <3> QED  BY <1>0, <2>1, <2>2, <3>1, <3>2, OthersStayFed
  <2>4. CASE BlockProgress(p, x, good)
    <3>1. Refill({p}, assigned \cup {x}, in_progress, endgame, outs, pend,
                 CalledOffAfter(p, x, {x}))
      BY <2>4 DEF BlockProgress, outs, pend
    <3>2. received' = received \cup {x} /\ UNCHANGED <<have, failed>>
      BY <2>4 DEF BlockProgress
    <3> QED  BY <1>0, <2>1, <2>2, <3>1, <3>2, OthersStayFed
  <2>5. CASE BlockCompletes(p, x, good)
    <3> DEFINE i == x[1]
               verifies == good /\ i \notin tainted
               mode == endgame \/ (verifies /\ AllStarted(WithoutPiece(i), have'))
    <3>1. Refill({p}, assigned \ BlocksOf(i), WithoutPiece(i), mode, outs, pend,
                 CalledOffAfter(p, x, BlocksOf(i)))
      BY <2>5 DEF BlockCompletes, outs, pend
    <3>2. /\ received' = received \ BlocksOf(i)
          /\ have' = IF verifies THEN have \cup {i} ELSE have
          /\ failed' = IF verifies THEN failed \ {i} ELSE failed \cup {i}
      BY <2>5 DEF BlockCompletes
    <3>3. i \in failed' \cup have' /\ failed \cup have \subseteq failed' \cup have'
      BY <3>2
    <3>4. \A y \in Block : y \in assigned \cup received
            => y \in (assigned \ BlocksOf(i)) \cup received' \/ y[1] \in failed' \cup have'
      BY <3>2, <3>3 DEF BlocksOf
    <3> HIDE DEF mode, i
    <3> QED  BY <1>0, <2>1, <2>2, <3>1, <3>3, <3>4, OthersStayFed
  <2> QED  BY <1>9, <2>3, <2>4, <2>5 DEF BlockReceived
<1>10. CASE UNCHANGED vars
  BY <1>10 DEF vars, pickerVars, peerVars, historyVars, NoIdlePeer, Free, PiecesOf
<1> QED  BY <1>1, <1>2, <1>3, <1>5, <1>6, <1>7, <1>8, <1>9, <1>10 DEF Next

-----------------------------------------------------------------------------
(* The books of picker and session keep their types, and no peer has more    *)
(* requests outstanding than its pipeline holds.                             *)
THEOREM Types == Spec => []TypeOK
<1>1. IInv => TypeOK
  BY DEF IInv
<1> QED  BY <1>1, Invariance, PTL

(* The picker's books agree with the session's, for any peers, pieces and    *)
(* block counts, whatever the peers send (picker.rs, session.rs).            *)
THEOREM BooksAgree == Spec => []PickerAgrees
<1>1. IInv => PickerAgrees
  BY DEF IInv
<1> QED  BY <1>1, Invariance, PTL

(* A block marked as assigned is awaited from a peer, so none is lost when a *)
(* peer chokes us, leaves or goes silent.                                    *)
THEOREM NothingIsLost == Spec => []AssignedIsAwaited
<1>1. IInv => AssignedIsAwaited
  BY DEF IInv
<1> QED  BY <1>1, Invariance, PTL

(* Before endgame no block is awaited from two peers.                        *)
THEOREM NothingTwice == Spec => []AwaitedOnce
<1>1. IInv => AwaitedOnce
  BY DEF IInv
<1> QED  BY <1>1, Invariance, PTL

(* Endgame is on once every missing block has been handed out.               *)
THEOREM EndgameIsOn == Spec => []EndgameWhenHandedOut
<1>1. IInv => EndgameWhenHandedOut
  BY HandedOutMeansStarted DEF IInv
<1> QED  BY <1>1, Invariance, PTL

(* A connected and unchoked peer with room in its pipeline never idles while *)
(* it has a block nobody was asked for, unless that block's piece failed its *)
(* hash: no handler forgets a peer it gave work to (run, session.rs).        *)
THEOREM PeersAreFed == Spec => []NoIdlePeer
<1>1. Init => NoIdlePeer
  BY DEF Init, NoIdlePeer
<1>2. IInv /\ NoIdlePeer /\ [Next]_vars => NoIdlePeer'
  BY NextStaysFed
<1> QED  BY <1>1, <1>2, Invariance, PTL DEF Spec
=============================================================================
