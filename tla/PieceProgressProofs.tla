------------------------ MODULE PieceProgressProofs -------------------------
(***************************************************************************)
(* PieceProgress is correct for a piece of any number of blocks: its        *)
(* counter and cursor invariants hold, and it implements BlockTracker.      *)
(***************************************************************************)
EXTENDS PieceProgress, FiniteSetTheorems, TLAPS

(* The counter invariant and the cursor invariant are inductive together     *)
(* with the types.                                                           *)
IInv == TypeOK /\ CounterMatchesFlags /\ CursorPassesNothingFree

(* Blocks are finitely many, so the received ones can be counted; having      *)
(* counted as many as there are blocks is having received them all.           *)
LEMMA BlocksCount ==
  ASSUME NEW S \in SUBSET Block
  PROVE  /\ IsFiniteSet(S)
         /\ Cardinality(S) \in 0 .. NumBlocks
         /\ Cardinality(S) = NumBlocks <=> S = Block
<1>1. IsFiniteSet(Block) /\ Cardinality(Block) = NumBlocks
  BY NumBlocksAssumption, FS_Interval DEF Block
<1>2. /\ IsFiniteSet(S)
      /\ Cardinality(S) <= Cardinality(Block)
      /\ Cardinality(Block) = Cardinality(S) => Block = S
  BY <1>1, FS_Subset
<1>3. Cardinality(S) \in Nat
  BY <1>2, FS_CardinalityType
<1> QED
  BY <1>1, <1>2, <1>3, NumBlocksAssumption

(* Marking a fresh block adds exactly that block to the received ones.        *)
LEMMA MarkReceivedAdds ==
  ASSUME TypeOK, NEW b \in Block, ~ blocks_received[b],
         blocks_received' = [blocks_received EXCEPT ![b] = TRUE]
  PROVE  /\ Received' = Received \cup {b}
         /\ Cardinality(Received') = Cardinality(Received) + 1
<1>1. Received' = Received \cup {b}
  BY DEF TypeOK, Received
<1>2. b \notin Received
  BY DEF Received
<1>3. IsFiniteSet(Received)
  BY BlocksCount DEF Received
<1> QED
  BY <1>1, <1>2, <1>3, FS_AddElement

-----------------------------------------------------------------------------
LEMMA InitIInv == Init => IInv
<1> SUFFICES ASSUME Init PROVE IInv
  OBVIOUS
<1>1. TypeOK
  BY NumBlocksAssumption DEF Init, TypeOK, Handed, NoBlock
<1>2. Received = {}
  BY DEF Init, Received
<1>3. Cardinality(Received) = 0
  BY <1>2, FS_EmptySet
<1>4. CounterMatchesFlags
  BY <1>2, <1>3 DEF Init, CounterMatchesFlags
<1>5. CursorPassesNothingFree
  BY DEF Init, CursorPassesNothingFree, Block
<1> QED
  BY <1>1, <1>4, <1>5 DEF IInv

LEMMA NextIInv == IInv /\ [Next]_vars => IInv'
<1> SUFFICES ASSUME IInv, [Next]_vars PROVE IInv'
  OBVIOUS
<1> USE NumBlocksAssumption, IndexAssumption
<1> USE DEF IInv, Block, NoBlock, Handed, Verdict
<1>1. CASE AssignNextBlock
  <2>1. UNCHANGED <<blocks_received, received_count>>
    BY <1>1 DEF AssignNextBlock
  <2>2. TypeOK'
    <3>1. ASSUME NEW b \in assign_cursor .. NumBlocks - 1,
                 blocks_assigned' = [blocks_assigned EXCEPT ![b] = TRUE],
                 assign_cursor' = b + 1,
                 answer' = Handed(b)
          PROVE  TypeOK'
      BY <2>1, <3>1 DEF TypeOK
    <3>2. ASSUME assign_cursor' = NumBlocks, answer' = Handed(NoBlock),
                 UNCHANGED blocks_assigned
          PROVE  TypeOK'
      BY <2>1, <3>2 DEF TypeOK
    <3> QED
      BY <1>1, <3>1, <3>2 DEF AssignNextBlock
  <2>3. Claimed \subseteq Claimed'
    BY <1>1 DEF AssignNextBlock, TypeOK, Claimed
  <2>4. CounterMatchesFlags'
    BY <2>1, <2>3 DEF CounterMatchesFlags, Received
  <2>5. CursorPassesNothingFree'
    BY <1>1, <2>1 DEF AssignNextBlock, TypeOK, CursorPassesNothingFree, Unclaimed
  <2> QED
    BY <2>2, <2>4, <2>5
<1>2. ASSUME NEW b \in Index, MarkReceived(b), ~ IsComplete(received_count)
      PROVE  IInv'
  <2>1. CASE b \in Block => blocks_received[b]
    <3>1. UNCHANGED <<blocks_received, blocks_assigned, received_count, assign_cursor>>
      BY <1>2, <2>1 DEF MarkReceived
    <3>2. answer' = Verdict(FALSE, FALSE)
      BY <1>2, <2>1 DEF MarkReceived
    <3> QED
      BY <3>1, <3>2 DEF TypeOK, CounterMatchesFlags, CursorPassesNothingFree,
                        Unclaimed, Received, Claimed
  <2>2. CASE b \in Block /\ ~ blocks_received[b]
    <3>1. /\ blocks_received' = [blocks_received EXCEPT ![b] = TRUE]
          /\ blocks_assigned' = [blocks_assigned EXCEPT ![b] = TRUE]
          /\ received_count' = received_count + 1
          /\ assign_cursor' = 0
          /\ answer' = Verdict(TRUE, IsComplete(received_count + 1))
      BY <1>2, <2>2 DEF MarkReceived
    <3>2. received_count + 1 \in 0 .. NumBlocks
      BY <1>2 DEF TypeOK, IsComplete
    <3>3. TypeOK'
      <4>1. IsComplete(received_count + 1) \in BOOLEAN
        BY DEF IsComplete
      <4>2. answer' \in [block : 0 .. NumBlocks, fresh : BOOLEAN, complete : BOOLEAN]
        BY <3>1, <4>1
      <4>3. /\ blocks_received' \in [Block -> BOOLEAN]
            /\ blocks_assigned' \in [Block -> BOOLEAN]
        BY <3>1 DEF TypeOK
      <4> QED
        BY <3>1, <3>2, <4>2, <4>3 DEF TypeOK
    <3>4. /\ Received' = Received \cup {b}
          /\ Cardinality(Received') = Cardinality(Received) + 1
      BY <2>2, <3>1, MarkReceivedAdds
    <3>5. Claimed' = Claimed \cup {b}
      BY <2>2, <3>1 DEF TypeOK, Claimed
    <3>6. CounterMatchesFlags'
      BY <3>1, <3>4, <3>5 DEF CounterMatchesFlags
    <3>7. CursorPassesNothingFree'
      BY <3>1 DEF CursorPassesNothingFree
    <3> QED
      BY <3>3, <3>6, <3>7
  <2> QED
    BY <2>1, <2>2
<1>3. ASSUME NEW b \in Index, MarkUnassigned(b)
      PROVE  IInv'
  <2>1. UNCHANGED <<blocks_received, received_count, answer>>
    BY <1>3 DEF MarkUnassigned
  <2>2. TypeOK'
    <3>1. blocks_assigned' \in [Block -> BOOLEAN]
      BY <1>3 DEF MarkUnassigned, TypeOK
    <3>2. assign_cursor' \in {b, assign_cursor} /\ (assign_cursor' = b => b \in Block \/ b = assign_cursor)
      BY <1>3 DEF MarkUnassigned, TypeOK
    <3>3. assign_cursor' \in 0 .. NumBlocks
      BY <3>2 DEF TypeOK
    <3> QED
      BY <2>1, <3>1, <3>3 DEF TypeOK
  <2>3. \A c \in Block : blocks_received[c] => blocks_assigned'[c] = blocks_assigned[c]
    BY <1>3 DEF MarkUnassigned, TypeOK
  <2>4. CounterMatchesFlags'
    BY <2>1, <2>3 DEF CounterMatchesFlags, Received, Claimed
  <2>5. CursorPassesNothingFree'
    BY <1>3, <2>1 DEF MarkUnassigned, TypeOK, CursorPassesNothingFree, Unclaimed
  <2> QED
    BY <2>2, <2>4, <2>5
<1>4. CASE UNCHANGED vars
  BY <1>4 DEF vars, TypeOK, CounterMatchesFlags, CursorPassesNothingFree,
              Unclaimed, Received, Claimed
<1> QED
  BY <1>1, <1>2, <1>3, <1>4 DEF Next

(* At every moment, for every number of blocks and every sequence of calls:  *)
(* the types of PieceProgress, the agreement of received_count with the      *)
(* flags, and the cursor that has passed nothing free.                       *)
THEOREM Safe == Spec => [](TypeOK /\ CounterMatchesFlags /\ CursorPassesNothingFree)
<1>1. IInv => TypeOK /\ CounterMatchesFlags /\ CursorPassesNothingFree
  BY DEF IInv
<1> QED
  BY <1>1, InitIInv, NextIInv, PTL DEF Spec

-----------------------------------------------------------------------------
(* What the cursor hides: with nothing free below it, the blocks the scan     *)
(* looks at are all the free blocks there are.                                *)
LEMMA ScanSeesEveryFreeBlock ==
  ASSUME IInv
  PROVE  {b \in assign_cursor .. NumBlocks - 1 : Unclaimed(b)} = Tracker!Free
BY NumBlocksAssumption
   DEF IInv, TypeOK, CursorPassesNothingFree, Unclaimed, Claimed, Received,
       Tracker!Free, Tracker!Block, Block

LEMMA AssignImplements ==
  ASSUME IInv, AssignNextBlock
  PROVE  Tracker!Assign
<1> DEFINE ahead == {b \in assign_cursor .. NumBlocks - 1 : Unclaimed(b)}
<1>1. ahead = Tracker!Free
  BY ScanSeesEveryFreeBlock
<1>2. UNCHANGED Received
  BY DEF AssignNextBlock, Received
<1>3. CASE ahead = {}
  <2>1. answer' = Handed(NoBlock) /\ UNCHANGED blocks_assigned
    BY <1>3 DEF AssignNextBlock
  <2>2. UNCHANGED Claimed
    BY <2>1 DEF Claimed
  <2> QED
    BY <1>1, <1>2, <1>3, <2>1, <2>2
       DEF Tracker!Assign, Tracker!Handed, Tracker!NoBlock, Handed, NoBlock
<1>4. ASSUME NEW b \in ahead, \A c \in ahead : b <= c,
             blocks_assigned' = [blocks_assigned EXCEPT ![b] = TRUE],
             answer' = Handed(b)
      PROVE  Tracker!Assign
  <2>1. b \in Block
    BY <1>4, <1>1 DEF Tracker!Free, Tracker!Block, Block
  <2>2. Claimed' = Claimed \cup {b}
    BY <1>4, <2>1 DEF IInv, TypeOK, Claimed
  <2> QED
    BY <1>1, <1>2, <1>4, <2>2
       DEF Tracker!Assign, Tracker!Handed, Tracker!NoBlock, Handed, NoBlock
<1> QED
  BY <1>3, <1>4 DEF AssignNextBlock

LEMMA ReceiveImplements ==
  ASSUME IInv, NEW b \in Index, MarkReceived(b), ~ IsComplete(received_count)
  PROVE  Tracker!Receive(b)
<1> DEFINE isFresh == b \in Block \ Received
<1>1. CASE b \in Block => blocks_received[b]
  <2>1. UNCHANGED <<blocks_received, blocks_assigned>> /\ answer' = Verdict(FALSE, FALSE)
    BY <1>1 DEF MarkReceived
  <2>2. UNCHANGED <<Received, Claimed>>
    BY <2>1 DEF Received, Claimed
  <2>3. {b} \cap Block \subseteq Received /\ Received \subseteq Claimed
    BY <1>1 DEF Received, IInv, CounterMatchesFlags
  <2>4. Received' = Received \cup ({b} \cap Block) /\ Claimed' = Claimed \cup ({b} \cap Block)
    BY <2>2, <2>3
  <2>5. isFresh = FALSE /\ (isFresh /\ Received' = Block) = FALSE
    BY <2>3
  <2>6. answer' = Verdict(isFresh, isFresh /\ Received' = Block)
    BY <2>1, <2>5, Zenon
  <2> QED
    BY <2>4, <2>6 DEF Tracker!Receive, Tracker!Block, Tracker!NoBlock, Block,
                      NoBlock, Verdict
<1>2. CASE b \in Block /\ ~ blocks_received[b]
  <2>1. /\ blocks_received' = [blocks_received EXCEPT ![b] = TRUE]
        /\ blocks_assigned' = [blocks_assigned EXCEPT ![b] = TRUE]
        /\ received_count' = received_count + 1
        /\ answer' = Verdict(TRUE, IsComplete(received_count + 1))
    BY <1>2 DEF MarkReceived
  <2>2. IInv'
    BY NextIInv DEF Next
  <2>3. Received' = Received \cup {b}
    BY <1>2, <2>1, MarkReceivedAdds DEF IInv
  <2>4. Claimed' = Claimed \cup {b}
    BY <1>2, <2>1 DEF IInv, TypeOK, Claimed
  <2>5. IsComplete(received_count + 1) <=> Received' = Block
    <3>1. Received' \in SUBSET Block /\ received_count' = Cardinality(Received')
      BY <2>2 DEF IInv, CounterMatchesFlags, Received
    <3> QED
      BY <2>1, <3>1, BlocksCount DEF IsComplete
  <2>6. isFresh = TRUE /\ (isFresh /\ Received' = Block) = IsComplete(received_count + 1)
    BY <1>2, <2>5 DEF Received, IsComplete
  <2>7. answer' = Verdict(isFresh, isFresh /\ Received' = Block)
    BY <2>1, <2>6, Zenon
  <2>8. Received' = Received \cup ({b} \cap Block) /\ Claimed' = Claimed \cup ({b} \cap Block)
    BY <1>2, <2>3, <2>4
  <2> QED
    BY <2>7, <2>8 DEF Tracker!Receive, Tracker!Block, Tracker!NoBlock, Block,
                      NoBlock, Verdict
<1> QED
  BY <1>1, <1>2

LEMMA UnassignImplements ==
  ASSUME IInv, NEW b \in Index, MarkUnassigned(b)
  PROVE  Tracker!Unassign(b)
<1>1. UNCHANGED <<Received, answer>>
  BY DEF MarkUnassigned, Received
<1>2. Claimed' = Claimed \ ({b} \ Received)
  BY DEF MarkUnassigned, IInv, TypeOK, Claimed, Received
<1> QED
  BY <1>1, <1>2 DEF Tracker!Unassign

(* PieceProgress answers every sequence of calls as the abstract tracker      *)
(* would: it hands out the lowest free block and refuses only when no block   *)
(* is free, and it reports the piece complete exactly when every block has     *)
(* arrived.                                                                   *)
THEOREM Implements == Spec => ImplementsTracker
<1>1. Init => Tracker!Init
  BY DEF Init, Tracker!Init, Claimed, Received, Handed, Tracker!Handed,
         NoBlock, Tracker!NoBlock
<1>2. IInv /\ [Next]_vars => [Tracker!Next]_(Tracker!trackerVars)
  <2> SUFFICES ASSUME IInv, [Next]_vars
               PROVE  [Tracker!Next]_(Tracker!trackerVars)
    OBVIOUS
  <2>1. CASE Next
    BY <2>1, AssignImplements, ReceiveImplements, UnassignImplements
       DEF Next, Tracker!Next
  <2>2. CASE UNCHANGED vars
    BY <2>2 DEF vars, Tracker!trackerVars, Claimed, Received
  <2> QED
    BY <2>1, <2>2
<1> QED
  BY <1>1, <1>2, InitIInv, NextIInv, PTL
     DEF Spec, ImplementsTracker, Tracker!Spec
=============================================================================
