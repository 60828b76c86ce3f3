--------------------------- MODULE PieceProgress ----------------------------
(***************************************************************************)
(* The block bookkeeping of one piece being downloaded: the PieceProgress   *)
(* struct of src/src/piece/picker.rs, with its two flag vectors, its        *)
(* received counter and its assignment cursor.  The cursor makes            *)
(* assign_next_block a scan that never wraps, so a block below the cursor   *)
(* that nobody holds would never be requested again.                        *)
(***************************************************************************)
EXTENDS Naturals, FiniteSets

CONSTANT
  NumBlocks,   \* blocks in the piece
  Index        \* block indices a peer may name, in the piece or past its end

ASSUME NumBlocksAssumption == NumBlocks \in Nat \ {0}
ASSUME IndexAssumption == Index \subseteq Nat

Block == 0 .. NumBlocks - 1
NoBlock == NumBlocks

VARIABLES
  blocks_received,   \* [Block -> BOOLEAN]
  blocks_assigned,   \* [Block -> BOOLEAN]
  received_count,
  assign_cursor,
  answer             \* what the last call returned: the block handed out, or
                     \* whether the block was new and whether it was the last

vars == <<blocks_received, blocks_assigned, received_count, assign_cursor,
          answer>>

TypeOK ==
  /\ blocks_received \in [Block -> BOOLEAN]
  /\ blocks_assigned \in [Block -> BOOLEAN]
  /\ received_count \in 0 .. NumBlocks
  /\ assign_cursor \in 0 .. NumBlocks
  /\ answer \in [block : 0 .. NumBlocks, fresh : BOOLEAN, complete : BOOLEAN]

Handed(b) == [block |-> b, fresh |-> FALSE, complete |-> FALSE]
Verdict(isFresh, isComplete) ==
  [block |-> NoBlock, fresh |-> isFresh, complete |-> isComplete]

Init ==
  /\ blocks_received = [b \in Block |-> FALSE]
  /\ blocks_assigned = [b \in Block |-> FALSE]
  /\ received_count = 0
  /\ assign_cursor = 0
  /\ answer = Handed(NoBlock)

-----------------------------------------------------------------------------
(* is_complete compares the counter, not the vector.                        *)
IsComplete(count) == count = NumBlocks

Unclaimed(b) == ~ blocks_received[b] /\ ~ blocks_assigned[b]

(* Mutant: the duplicate check is missing, so a block counts twice.          *)
CountsTwice(b) ==
  \/ /\ b \in Block
     /\ blocks_received' = [blocks_received EXCEPT ![b] = TRUE]
     /\ blocks_assigned' = [blocks_assigned EXCEPT ![b] = TRUE]
     /\ received_count' = received_count + 1
     /\ assign_cursor' = 0
     /\ answer' = Verdict(TRUE, IsComplete(received_count + 1))
  \/ /\ b \notin Block
     /\ answer' = Verdict(FALSE, FALSE)
     /\ UNCHANGED <<blocks_received, blocks_assigned, received_count,
                    assign_cursor>>

(* Mutant: a block given back leaves the cursor where it is.                 *)
KeepsCursor(b) ==
  /\ IF b \in Block /\ ~ blocks_received[b]
     THEN blocks_assigned' = [blocks_assigned EXCEPT ![b] = FALSE]
     ELSE UNCHANGED blocks_assigned
  /\ UNCHANGED <<blocks_received, received_count, assign_cursor, answer>>

(* The scan of assign_next_block: from the cursor up, without wrapping.     *)
AssignNextBlock ==
  LET ahead == {b \in assign_cursor .. NumBlocks - 1 : Unclaimed(b)}
  IN  /\ \/ \E b \in ahead :
               /\ \A c \in ahead : b <= c
               /\ blocks_assigned' = [blocks_assigned EXCEPT ![b] = TRUE]
               /\ assign_cursor' = b + 1
               /\ answer' = Handed(b)
         \/ /\ ahead = {}
            /\ assign_cursor' = NumBlocks
            /\ answer' = Handed(NoBlock)
            /\ UNCHANGED blocks_assigned
      /\ UNCHANGED <<blocks_received, received_count>>

MarkReceived(b) ==
  \/ /\ b \in Block
     /\ ~ blocks_received[b]
     /\ blocks_received' = [blocks_received EXCEPT ![b] = TRUE]
     /\ blocks_assigned' = [blocks_assigned EXCEPT ![b] = TRUE]
     /\ received_count' = received_count + 1
     /\ assign_cursor' = 0
     /\ answer' = Verdict(TRUE, IsComplete(received_count + 1))
  \/ /\ b \in Block => blocks_received[b]
     /\ answer' = Verdict(FALSE, FALSE)
     /\ UNCHANGED <<blocks_received, blocks_assigned, received_count,
                    assign_cursor>>

MarkUnassigned(b) ==
  /\ \/ /\ b \in Block
        /\ ~ blocks_received[b]
        /\ blocks_assigned' = [blocks_assigned EXCEPT ![b] = FALSE]
        /\ assign_cursor' = IF b < assign_cursor THEN b ELSE assign_cursor
     \/ /\ b \in Block => blocks_received[b]
        /\ UNCHANGED <<blocks_assigned, assign_cursor>>
  /\ UNCHANGED <<blocks_received, received_count, answer>>

(* A complete piece leaves in_progress and is dropped: no call follows.      *)
Next ==
  /\ ~ IsComplete(received_count)
  /\ \/ AssignNextBlock
     \/ \E b \in Index : MarkReceived(b) \/ MarkUnassigned(b)

Spec == Init /\ [][Next]_vars

-----------------------------------------------------------------------------
Claimed == {b \in Block : blocks_assigned[b]}
Received == {b \in Block : blocks_received[b]}

(* Nothing the cursor has passed is up for grabs: a block below it has been *)
(* received or is assigned.  Without this the non-wrapping scan of           *)
(* assign_next_block would skip a block that no peer is fetching.            *)
CursorPassesNothingFree ==
  \A b \in Block : b < assign_cursor => ~ Unclaimed(b)

(* The counter that decides whether the piece is complete agrees with the    *)
(* flags, and a received block is never handed out again.                    *)
CounterMatchesFlags ==
  /\ received_count = Cardinality(Received)
  /\ Received \subseteq Claimed

(* The data structure implements the abstract tracker: same answers, for     *)
(* every sequence of calls.                                                  *)
Tracker == INSTANCE BlockTracker
             WITH assigned <- Claimed, received <- Received
ImplementsTracker == Tracker!Spec
=============================================================================
