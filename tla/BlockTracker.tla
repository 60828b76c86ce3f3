---------------------------- MODULE BlockTracker ----------------------------
(***************************************************************************)
(* What the rest of the engine relies on when it tracks the blocks of one   *)
(* piece: a set of blocks spoken for and a set of blocks received.  It      *)
(* knows nothing of cursors, counters or flag vectors.  PieceProgress is    *)
(* the data structure of src/src/piece/picker.rs and implements this.       *)
(***************************************************************************)
EXTENDS Naturals

CONSTANTS
  NumBlocks,   \* blocks in the piece
  Index        \* block indices a caller may name

NoBlock == NumBlocks          \* the answer "nothing left to assign"
Block == 0 .. NumBlocks - 1

VARIABLES
  assigned,   \* blocks handed out and not given back
  received,   \* blocks whose data has arrived
  answer      \* what the last call returned

trackerVars == <<assigned, received, answer>>

Handed(b) == [block |-> b, fresh |-> FALSE, complete |-> FALSE]

Init ==
  /\ assigned = {}
  /\ received = {}
  /\ answer = Handed(NoBlock)

Free == Block \ (assigned \cup received)

(* Hand out the lowest free block, and refuse only when there is none.      *)
Assign ==
  /\ \/ \E b \in Free :
           /\ \A c \in Free : b <= c
           /\ answer' = Handed(b)
           /\ assigned' = assigned \cup {b}
     \/ /\ Free = {}
        /\ answer' = Handed(NoBlock)
        /\ UNCHANGED assigned
  /\ UNCHANGED received

(* The first arrival of a block counts, every later one is a duplicate.     *)
Receive(b) ==
  /\ received' = received \cup ({b} \cap Block)
  /\ assigned' = assigned \cup ({b} \cap Block)
  /\ answer' = [block |-> NoBlock,
                fresh |-> b \in Block \ received,
                complete |-> b \in Block \ received /\ received' = Block]

(* A block given back is free again, unless its data arrived meanwhile.     *)
Unassign(b) ==
  /\ assigned' = assigned \ ({b} \ received)
  /\ UNCHANGED <<received, answer>>

Next ==
  \/ Assign
  \/ \E b \in Index : Receive(b) \/ Unassign(b)

Spec == Init /\ [][Next]_trackerVars
=============================================================================
