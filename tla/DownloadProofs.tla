--------------------------- MODULE DownloadProofs ---------------------------
(***************************************************************************)
(* Proofs about Download for every torrent, channel size and set of faults: *)
(* where verified pieces are, who may drop a write, who may bring back the  *)
(* record of a removed download; and, about EventFeed, that the browser's   *)
(* row agrees with the server once everything has settled.                  *)
(***************************************************************************)
EXTENDS EventFeed, FiniteSetTheorems, TLAPS

(* Somebody other than the session itself has stopped it.                    *)
StoppedOutside == server = "stopping" \/ ~ registered

(* Without a session nothing is in memory.                                   *)
NoSession ==
  /\ server = "down" => phase = "none"
  /\ phase = "none" =>
       /\ ~ registered /\ ~ cancelled
       /\ waiting = {} /\ queue = {} /\ dropped = {}
       /\ disk = "gone"

(* Why the disk task stops: its token is cancelled, by somebody else or by   *)
(* the session after its last write.                                         *)
StopsHaveAReason ==
  /\ disk # "running" /\ phase # "none" => cancelled
  /\ cancelled => StoppedOutside \/ Over

IInv ==
  /\ TypeOK
  /\ VerifiedIsAccountedFor
  /\ OnlyOutsideStopDrops
  /\ NoSession
  /\ StopsHaveAReason

-----------------------------------------------------------------------------
(* A command is sent into a free slot and taken out by the disk task.        *)
LEMMA SlotsSuffice ==
  ASSUME queue \subseteq Piece, Cardinality(queue) <= QueueCap
  PROVE  /\ Cardinality({}) <= QueueCap
         /\ \A i \in Piece :
              /\ Cardinality(queue \ {i}) <= QueueCap
              /\ SlotFree => Cardinality(queue \cup {i}) <= QueueCap
<1>1. IsFiniteSet(queue)
  BY FS_Subset, DownloadAssumption DEF DownloadAssumption
<1>2. Cardinality(queue) \in Nat /\ QueueCap \in Nat \ {0}
  BY <1>1, FS_CardinalityType, DownloadAssumption DEF DownloadAssumption
<1>3. Cardinality({}) <= QueueCap
  BY <1>2, FS_EmptySet
<1>4. ASSUME NEW i \in Piece
      PROVE  /\ Cardinality(queue \ {i}) <= QueueCap
             /\ SlotFree => Cardinality(queue \cup {i}) <= QueueCap
  <2>1. Cardinality(queue \ {i}) =
          IF i \in queue THEN Cardinality(queue) - 1 ELSE Cardinality(queue)
    BY <1>1, FS_RemoveElement
  <2>2. Cardinality(queue \cup {i}) =
          IF i \in queue THEN Cardinality(queue) ELSE Cardinality(queue) + 1
    BY <1>1, FS_AddElement
  <2> QED  BY <1>2, <2>1, <2>2 DEF SlotFree
<1> QED  BY <1>3, <1>4

LEMMA InitIInv == Init => IInv
<1> SUFFICES ASSUME Init  PROVE IInv
  OBVIOUS
<1>1. QueueCap \in Nat \ {0} /\ MaxStarts \in Nat \ {0}
  BY DownloadAssumption DEF DownloadAssumption
<1>2. Cardinality({}) <= QueueCap
  BY <1>1, FS_EmptySet
<1>3. starts \in 1 .. MaxStarts
  BY <1>1 DEF Init
<1>4. queue \subseteq Piece /\ Cardinality(queue) <= QueueCap
  BY <1>2 DEF Init
<1>5. TypeOK
  BY <1>3, <1>4 DEF Init, TypeOK, States, Absent, Nothing
<1> QED  BY <1>5 DEF Init, IInv, VerifiedIsAccountedFor, OnlyOutsideStopDrops,
     NoSession, StopsHaveAReason, StoppedOutside, Over

-----------------------------------------------------------------------------
(* One step per action.                                                      *)
LEMMA NextIInv == IInv /\ [Next]_vars => IInv'
<1> SUFFICES ASSUME IInv, [Next]_vars  PROVE IInv'
  OBVIOUS
<1> USE DEF Alive, Absent, Nothing, States
<1> DEFINE Parts == /\ VerifiedIsAccountedFor /\ OnlyOutsideStopDrops
                    /\ NoSession /\ StopsHaveAReason
<1>0. TypeOK /\ Parts
  BY DEF IInv
<1>a. /\ Cardinality({}) <= QueueCap
      /\ \A i \in Piece :
           /\ Cardinality(queue \ {i}) <= QueueCap
           /\ SlotFree => Cardinality(queue \cup {i}) <= QueueCap
  BY <1>0, SlotsSuffice DEF TypeOK
<1>b. MaxStarts \in Nat \ {0}
  BY DownloadAssumption DEF DownloadAssumption
<1>1. CASE VerifyOnDisk
  <2>1. TypeOK'
    BY <1>1, <1>0, <1>a DEF VerifyOnDisk, TypeOK, vars, serverVars, storeVars,
       sessionVars, diskVars, historyVars, forwardVars
  <2>2. Parts'
    BY <1>1, <1>0 DEF VerifyOnDisk, TypeOK, VerifiedIsAccountedFor,
       OnlyOutsideStopDrops, NoSession, StopsHaveAReason, StoppedOutside, Over,
       serverVars, storeVars, sessionVars, diskVars, historyVars, forwardVars
  <2> QED  BY <2>1, <2>2 DEF IInv
<1>2. CASE LeaveLoop
  <2>1. TypeOK'
    BY <1>2, <1>0, <1>a DEF LeaveLoop, TypeOK, vars, serverVars, storeVars,
       sessionVars, diskVars, historyVars, forwardVars
  <2>2. Parts'
    BY <1>2, <1>0 DEF LeaveLoop, TypeOK, VerifiedIsAccountedFor,
       OnlyOutsideStopDrops, NoSession, StopsHaveAReason, StoppedOutside, Over,
       serverVars, storeVars, sessionVars, diskVars, historyVars, forwardVars
  <2> QED  BY <2>1, <2>2 DEF IInv
<1>3. CASE AwaitWrites
  <2>1. TypeOK'
    BY <1>3, <1>0, <1>a DEF AwaitWrites, WritesDone, TypeOK, vars, serverVars, storeVars,
       sessionVars, diskVars, historyVars, forwardVars
  <2>2. Parts'
    BY <1>3, <1>0 DEF AwaitWrites, WritesDone, TypeOK, VerifiedIsAccountedFor,
       OnlyOutsideStopDrops, NoSession, StopsHaveAReason, StoppedOutside, Over,
       serverVars, storeVars, sessionVars, diskVars, historyVars, forwardVars
  <2> QED  BY <2>1, <2>2 DEF IInv
<1>4. CASE AwaitDisk
  <2>1. TypeOK'
    BY <1>4, <1>0, <1>a DEF AwaitDisk, TypeOK, vars, serverVars, storeVars,
       sessionVars, diskVars, historyVars, forwardVars
  <2>2. Parts'
    BY <1>4, <1>0 DEF AwaitDisk, TypeOK, VerifiedIsAccountedFor,
       OnlyOutsideStopDrops, NoSession, StopsHaveAReason, StoppedOutside, Over,
       serverVars, storeVars, sessionVars, diskVars, historyVars, forwardVars
  <2> QED  BY <2>1, <2>2 DEF IInv
<1>5. CASE FinalPersist
  <2>1. TypeOK'
    BY <1>5, <1>0, <1>a DEF FinalPersist, StillListed, TypeOK, vars, serverVars, storeVars,
       sessionVars, diskVars, historyVars, forwardVars
  <2>2. Parts'
    BY <1>5, <1>0 DEF FinalPersist, StillListed, TypeOK, VerifiedIsAccountedFor,
       OnlyOutsideStopDrops, NoSession, StopsHaveAReason, StoppedOutside, Over,
       serverVars, storeVars, sessionVars, diskVars, historyVars, forwardVars
  <2> QED  BY <2>1, <2>2 DEF IInv
<1>6. CASE Import
  <2>1. TypeOK'
    BY <1>6, <1>0, <1>a DEF Import, TypeOK, vars, serverVars, storeVars,
       sessionVars, diskVars, historyVars, forwardVars
  <2>2. Parts'
    BY <1>6, <1>0 DEF Import, TypeOK, VerifiedIsAccountedFor,
       OnlyOutsideStopDrops, NoSession, StopsHaveAReason, StoppedOutside, Over,
       serverVars, storeVars, sessionVars, diskVars, historyVars, forwardVars
  <2> QED  BY <2>1, <2>2 DEF IInv
<1>7. CASE SpeedTick
  <2>1. TypeOK'
    BY <1>7, <1>0, <1>a DEF SpeedTick, TypeOK, vars, serverVars, storeVars,
       sessionVars, diskVars, historyVars, forwardVars
  <2>2. Parts'
    BY <1>7, <1>0 DEF SpeedTick, TypeOK, VerifiedIsAccountedFor,
       OnlyOutsideStopDrops, NoSession, StopsHaveAReason, StoppedOutside, Over,
       serverVars, storeVars, sessionVars, diskVars, historyVars, forwardVars
  <2> QED  BY <2>1, <2>2 DEF IInv
<1>8. CASE DiskSeesCancel
  <2>1. TypeOK'
    BY <1>8, <1>0, <1>a DEF DiskSeesCancel, TypeOK, vars, serverVars, storeVars,
       sessionVars, diskVars, historyVars, forwardVars
  <2>2. Parts'
    BY <1>8, <1>0 DEF DiskSeesCancel, TypeOK, VerifiedIsAccountedFor,
       OnlyOutsideStopDrops, NoSession, StopsHaveAReason, StoppedOutside, Over,
       serverVars, storeVars, sessionVars, diskVars, historyVars, forwardVars
  <2> QED  BY <2>1, <2>2 DEF IInv
<1>9. CASE DiskDrained
  <2>1. TypeOK'
    BY <1>9, <1>0, <1>a DEF DiskDrained, TypeOK, vars, serverVars, storeVars,
       sessionVars, diskVars, historyVars, forwardVars
  <2>2. Parts'
    BY <1>9, <1>0 DEF DiskDrained, TypeOK, VerifiedIsAccountedFor,
       OnlyOutsideStopDrops, NoSession, StopsHaveAReason, StoppedOutside, Over,
       serverVars, storeVars, sessionVars, diskVars, historyVars, forwardVars
  <2> QED  BY <2>1, <2>2 DEF IInv
<1>10. CASE DiskGone
  <2>1. TypeOK'
    BY <1>10, <1>0, <1>a DEF DiskGone, TypeOK, vars, serverVars, storeVars,
       sessionVars, diskVars, historyVars, forwardVars
  <2>2. Parts'
    BY <1>10, <1>0 DEF DiskGone, TypeOK, VerifiedIsAccountedFor,
       OnlyOutsideStopDrops, NoSession, StopsHaveAReason, StoppedOutside, Over,
       serverVars, storeVars, sessionVars, diskVars, historyVars, forwardVars
  <2> QED  BY <2>1, <2>2 DEF IInv
<1>11. CASE ForwardReads
  <2>1. TypeOK'
    <3>1. forward' \in States \cup {Nothing} /\ unseen' \in BOOLEAN
      BY <1>11, <1>0 DEF ForwardReads, Persists, TypeOK
    <3> QED  BY <1>11, <1>0, <3>1
       DEF ForwardReads, Persists, TypeOK, serverVars, storeVars, sessionVars, diskVars,
       historyVars, forwardVars
  <2>2. Parts'
    BY <1>11, <1>0 DEF ForwardReads, Persists, TypeOK, VerifiedIsAccountedFor,
       OnlyOutsideStopDrops, NoSession, StopsHaveAReason, StoppedOutside, Over,
       serverVars, storeVars, sessionVars, diskVars, historyVars, forwardVars
  <2> QED  BY <2>1, <2>2 DEF IInv
<1>12. CASE ForwardWrites
  <2>1. TypeOK'
    BY <1>12, <1>0, <1>a DEF ForwardWrites, TypeOK, vars, serverVars, storeVars,
       sessionVars, diskVars, historyVars, forwardVars
  <2>2. Parts'
    BY <1>12, <1>0 DEF ForwardWrites, TypeOK, VerifiedIsAccountedFor,
       OnlyOutsideStopDrops, NoSession, StopsHaveAReason, StoppedOutside, Over,
       serverVars, storeVars, sessionVars, diskVars, historyVars, forwardVars
  <2> QED  BY <2>1, <2>2 DEF IInv
<1>13. CASE StoreFlushes
  <2>1. TypeOK'
    BY <1>13, <1>0, <1>a DEF StoreFlushes, TypeOK, vars, serverVars, storeVars,
       sessionVars, diskVars, historyVars, forwardVars
  <2>2. Parts'
    BY <1>13, <1>0 DEF StoreFlushes, TypeOK, VerifiedIsAccountedFor,
       OnlyOutsideStopDrops, NoSession, StopsHaveAReason, StoppedOutside, Over,
       serverVars, storeVars, sessionVars, diskVars, historyVars, forwardVars
  <2> QED  BY <2>1, <2>2 DEF IInv
<1>14. CASE DeletePayload
  <2>1. TypeOK'
    <3>1. /\ written' \subseteq Piece /\ synced' \subseteq Piece
         /\ imported' \in BOOLEAN /\ deleted' \subseteq Piece
      BY <1>14, <1>0 DEF DeletePayload, TypeOK
    <3> QED  BY <1>14, <1>0, <3>1
       DEF DeletePayload, TypeOK, serverVars, storeVars, sessionVars, diskVars,
       historyVars, forwardVars
  <2>2. Parts'
    BY <1>14, <1>0 DEF DeletePayload, TypeOK, VerifiedIsAccountedFor,
       OnlyOutsideStopDrops, NoSession, StopsHaveAReason, StoppedOutside, Over,
       serverVars, storeVars, sessionVars, diskVars, historyVars, forwardVars
  <2> QED  BY <2>1, <2>2 DEF IInv
<1>15. CASE Unregister
  <2>1. TypeOK'
    <3>1. registered' \in BOOLEAN /\ cancelled' \in BOOLEAN
      BY <1>15, <1>0 DEF Unregister, TypeOK
    <3> QED  BY <1>15, <1>0, <3>1
       DEF Unregister, TypeOK, serverVars, storeVars, sessionVars, diskVars,
       historyVars, forwardVars
  <2>2. Parts'
    BY <1>15, <1>0 DEF Unregister, TypeOK, VerifiedIsAccountedFor,
       OnlyOutsideStopDrops, NoSession, StopsHaveAReason, StoppedOutside, Over,
       serverVars, storeVars, sessionVars, diskVars, historyVars, forwardVars
  <2> QED  BY <2>1, <2>2 DEF IInv
<1>16. CASE Unrecord
  <2>1. TypeOK'
    BY <1>16, <1>0, <1>a DEF Unrecord, TypeOK, vars, serverVars, storeVars,
       sessionVars, diskVars, historyVars, forwardVars
  <2>2. Parts'
    BY <1>16, <1>0 DEF Unrecord, TypeOK, VerifiedIsAccountedFor,
       OnlyOutsideStopDrops, NoSession, StopsHaveAReason, StoppedOutside, Over,
       serverVars, storeVars, sessionVars, diskVars, historyVars, forwardVars
  <2> QED  BY <2>1, <2>2 DEF IInv
<1>17. CASE Shutdown
  <2>1. TypeOK'
    BY <1>17, <1>0, <1>a DEF Shutdown, TypeOK, vars, serverVars, storeVars,
       sessionVars, diskVars, historyVars, forwardVars
  <2>2. Parts'
    BY <1>17, <1>0 DEF Shutdown, TypeOK, VerifiedIsAccountedFor,
       OnlyOutsideStopDrops, NoSession, StopsHaveAReason, StoppedOutside, Over,
       serverVars, storeVars, sessionVars, diskVars, historyVars, forwardVars
  <2> QED  BY <2>1, <2>2 DEF IInv
<1>18. CASE Exit
  <2>1. TypeOK'
    BY <1>18, <1>0, <1>a DEF Exit, ProcessEnds, TypeOK, vars, serverVars, storeVars,
       sessionVars, diskVars, historyVars, forwardVars
  <2>2. Parts'
    BY <1>18, <1>0 DEF Exit, ProcessEnds, TypeOK, VerifiedIsAccountedFor,
       OnlyOutsideStopDrops, NoSession, StopsHaveAReason, StoppedOutside, Over,
       serverVars, storeVars, sessionVars, diskVars, historyVars, forwardVars
  <2> QED  BY <2>1, <2>2 DEF IInv
<1>19. CASE PowerLoss
  <2>1. TypeOK'
    BY <1>19, <1>0, <1>a DEF PowerLoss, ProcessEnds, TypeOK, vars, serverVars, storeVars,
       sessionVars, diskVars, historyVars, forwardVars
  <2>2. Parts'
    BY <1>19, <1>0 DEF PowerLoss, ProcessEnds, TypeOK, VerifiedIsAccountedFor,
       OnlyOutsideStopDrops, NoSession, StopsHaveAReason, StoppedOutside, Over,
       serverVars, storeVars, sessionVars, diskVars, historyVars, forwardVars
  <2> QED  BY <2>1, <2>2 DEF IInv
<1>20. CASE Start
  <2>1. TypeOK'
    <3>1. starts' \in 1 .. MaxStarts
      BY <1>20, <1>0, <1>b DEF Start, Resumed, TypeOK
    <3>2. /\ phase' \in {"none", "verifying"} \cup {phase}
         /\ registered' \in BOOLEAN /\ disk' \in {"running", disk}
      BY <1>20, <1>0 DEF Start, Resumed, TypeOK
    <3> QED  BY <1>20, <1>0, <3>1, <3>2
       DEF Start, Resumed, TypeOK, serverVars, storeVars, sessionVars, diskVars,
       historyVars, forwardVars
  <2>2. Parts'
    BY <1>20, <1>0 DEF Start, Resumed, TypeOK, VerifiedIsAccountedFor,
       OnlyOutsideStopDrops, NoSession, StopsHaveAReason, StoppedOutside, Over,
       serverVars, storeVars, sessionVars, diskVars, historyVars, forwardVars
  <2> QED  BY <2>1, <2>2 DEF IInv
<1>21. ASSUME NEW i \in Piece, PieceVerified(i)
      PROVE  IInv'
  <2>1. TypeOK'
    BY <1>21, <1>0, <1>a DEF PieceVerified, WithWrite, TypeOK, serverVars, storeVars,
       sessionVars, diskVars, historyVars, forwardVars
  <2>2. Parts'
    BY <1>21, <1>0 DEF PieceVerified, WithWrite, TypeOK, VerifiedIsAccountedFor,
       OnlyOutsideStopDrops, NoSession, StopsHaveAReason, StoppedOutside, Over,
       serverVars, storeVars, sessionVars, diskVars, historyVars, forwardVars
  <2> QED  BY <2>1, <2>2 DEF IInv
<1>22. ASSUME NEW i \in Piece, SendWrite(i)
      PROVE  IInv'
  <2>1. TypeOK'
    <3>1. queue' \subseteq Piece /\ Cardinality(queue') <= QueueCap
      BY <1>22, <1>0, <1>a DEF SendWrite, ChannelClosed, TypeOK
    <3>2. waiting' \subseteq Piece /\ dropped' \subseteq Piece
      BY <1>22, <1>0 DEF SendWrite, ChannelClosed, TypeOK
    <3> QED  BY <1>22, <1>0, <3>1, <3>2
       DEF SendWrite, ChannelClosed, TypeOK, serverVars, storeVars, sessionVars, diskVars,
       historyVars, forwardVars
  <2>2. Parts'
    BY <1>22, <1>0 DEF SendWrite, ChannelClosed, TypeOK, VerifiedIsAccountedFor,
       OnlyOutsideStopDrops, NoSession, StopsHaveAReason, StoppedOutside, Over,
       serverVars, storeVars, sessionVars, diskVars, historyVars, forwardVars
  <2> QED  BY <2>1, <2>2 DEF IInv
<1>23. ASSUME NEW i \in Piece, DiskWrites(i)
      PROVE  IInv'
  <2>1. TypeOK'
    <3>1. queue' \subseteq Piece /\ Cardinality(queue') <= QueueCap
      BY <1>23, <1>0, <1>a DEF DiskWrites, TypeOK
    <3>2. /\ written' \subseteq Piece /\ synced' \subseteq Piece
         /\ refused' \subseteq Piece
      BY <1>23, <1>0 DEF DiskWrites, TypeOK
    <3>3. UNCHANGED <<serverVars, storeVars, sessionVars, disk, dropped, deleted,
                      forwardVars, removal>>
      BY <1>23 DEF DiskWrites
    <3> QED  BY <1>0, <3>1, <3>2, <3>3
       DEF TypeOK, serverVars, storeVars, sessionVars, forwardVars
  <2>2. Parts'
    BY <1>23, <1>0 DEF DiskWrites, TypeOK, VerifiedIsAccountedFor,
       OnlyOutsideStopDrops, NoSession, StopsHaveAReason, StoppedOutside, Over,
       serverVars, storeVars, sessionVars, diskVars, historyVars, forwardVars
  <2> QED  BY <2>1, <2>2 DEF IInv
<1>24. CASE UNCHANGED vars
  BY <1>24, <1>0 DEF IInv, TypeOK, VerifiedIsAccountedFor, OnlyOutsideStopDrops,
     NoSession, StopsHaveAReason, StoppedOutside, Over, vars, serverVars,
     storeVars, sessionVars, diskVars, historyVars, forwardVars
<1> QED  BY <1>1, <1>2, <1>3, <1>4, <1>5, <1>6, <1>7, <1>8, <1>9, <1>10,
     <1>11, <1>12, <1>13, <1>14, <1>15, <1>16, <1>17, <1>18, <1>19, <1>20,
     <1>21, <1>22, <1>23, <1>24 DEF Next, SessionStep, DiskStep

(* The inductive invariant holds in every state.                             *)
LEMMA Invariance == Spec => []IInv
BY InitIInv, NextIInv, PTL DEF Spec

(* Session, disk task, forwarder, removal and store keep their types, and    *)
(* the command channel holds no more than its capacity.                      *)
THEOREM Types == Spec => []TypeOK
<1>1. IInv => TypeOK
  BY DEF IInv
<1> QED  BY <1>1, Invariance, PTL

(* A verified piece is on disk or on its way there, unless its write failed, *)
(* was dropped or deleted, and none is on its way once the session has       *)
(* awaited its writes: for any torrent, capacity and faults.                 *)
THEOREM NothingIsForgotten == Spec => []VerifiedIsAccountedFor
<1>1. IInv => VerifiedIsAccountedFor
  BY DEF IInv
<1> QED  BY <1>1, Invariance, PTL

(* Only a shutdown or a removal makes the disk task drop a write.            *)
THEOREM OnlyStopsDrop == Spec => []OnlyOutsideStopDrops
<1>1. IInv => OnlyOutsideStopDrops
  BY DEF IInv
<1> QED  BY <1>1, Invariance, PTL

(* Nothing but a persist under way or a power loss brings back the record of *)
(* a removed download.                                                       *)
THEOREM NoResurrection == Spec => OnlyForwarderResurrects
<1>1. [Next]_vars =>
        [record = Absent /\ record' # Absent => forward # Nothing \/ server' = "down"]_vars
  <2> SUFFICES ASSUME Next, record = Absent, record' # Absent, forward = Nothing
               PROVE  server' = "down"
    BY DEF vars, storeVars
  <2>1. CASE PowerLoss
    BY <2>1 DEF PowerLoss, ProcessEnds
  <2>2. ASSUME NEW i \in Piece, PieceVerified(i) \/ SendWrite(i) \/ DiskWrites(i)
        PROVE  FALSE
    BY <2>2 DEF PieceVerified, SendWrite, DiskWrites, storeVars
  <2>3. ~ (\/ VerifyOnDisk \/ LeaveLoop \/ AwaitWrites \/ AwaitDisk \/ FinalPersist
           \/ Import \/ SpeedTick \/ DiskSeesCancel \/ DiskDrained \/ DiskGone)
    BY DEF VerifyOnDisk, LeaveLoop, AwaitWrites, AwaitDisk, FinalPersist, StillListed,
       Import, SpeedTick, DiskSeesCancel, DiskDrained, DiskGone, storeVars
  <2>4. ~ (\/ ForwardReads \/ ForwardWrites \/ StoreFlushes \/ DeletePayload
           \/ Unregister \/ Unrecord \/ Shutdown \/ Exit \/ Start)
    BY DEF ForwardReads, ForwardWrites, StoreFlushes, DeletePayload, Unregister,
       Unrecord, Shutdown, Exit, Start, storeVars
  <2> QED  BY <2>1, <2>2, <2>3, <2>4 DEF Next, SessionStep, DiskStep
<1> QED  BY <1>1, PTL DEF Spec, OnlyForwarderResurrects

-----------------------------------------------------------------------------
(* What forwarder and final persist leave in the record of a completed       *)
(* session: a completion the forwarder has not seen is still to come, one it *)
(* has seen is being persisted, and after that the record is right or gone.  *)
CompletionReachesRecord ==
  status = "completed" /\ ~ unseen
    => \/ forward = "completed"
       \/ forward = Nothing /\ record \in {"completed", Absent}

LEMMA CompletionInit == Init => CompletionReachesRecord
BY DEF Init, CompletionReachesRecord

LEMMA CompletionStep ==
  CompletionReachesRecord /\ [Next]_vars => CompletionReachesRecord'
<1> SUFFICES ASSUME CompletionReachesRecord, [Next]_vars
             PROVE  CompletionReachesRecord'
  OBVIOUS
<1> USE DEF CompletionReachesRecord
<1>1. ASSUME NEW i \in Piece, PieceVerified(i) \/ SendWrite(i) \/ DiskWrites(i)
      PROVE  CompletionReachesRecord'
  BY <1>1 DEF PieceVerified, SendWrite, DiskWrites, storeVars, forwardVars,
     sessionVars
<1>2. ASSUME VerifyOnDisk \/ LeaveLoop \/ SpeedTick
      PROVE  CompletionReachesRecord'
  BY <1>2 DEF VerifyOnDisk, LeaveLoop, SpeedTick
<1>3. ASSUME AwaitWrites \/ AwaitDisk \/ Import
      PROVE  CompletionReachesRecord'
  BY <1>3 DEF AwaitWrites, AwaitDisk, Import, storeVars, forwardVars
<1>4. CASE FinalPersist
  BY <1>4 DEF FinalPersist, forwardVars
<1>5. ASSUME DiskSeesCancel \/ DiskDrained \/ DiskGone
      PROVE  CompletionReachesRecord'
  BY <1>5 DEF DiskSeesCancel, DiskDrained, DiskGone, storeVars, sessionVars,
     forwardVars
<1>6. CASE ForwardReads
  BY <1>6 DEF ForwardReads, Persists, storeVars, sessionVars, Nothing
<1>7. CASE ForwardWrites
  BY <1>7 DEF ForwardWrites, sessionVars
<1>8. ASSUME StoreFlushes \/ DeletePayload \/ Unregister \/ Unrecord \/ Shutdown
      PROVE  CompletionReachesRecord'
  BY <1>8 DEF StoreFlushes, DeletePayload, Unregister, Unrecord, Shutdown,
     storeVars, sessionVars, forwardVars
<1>9. CASE Exit \/ PowerLoss
  BY <1>9 DEF Exit, PowerLoss, ProcessEnds
<1>10. CASE Start
  BY <1>10 DEF Start, storeVars, forwardVars
<1>11. CASE UNCHANGED vars
  BY <1>11 DEF vars, storeVars, sessionVars, forwardVars
<1> QED  BY <1>1, <1>2, <1>3, <1>4, <1>5, <1>6, <1>7, <1>8, <1>9, <1>10, <1>11
         DEF Next, SessionStep, DiskStep

(* However forwarder and final persist interleave, no stale status is left   *)
(* in the record of a completed session.                                     *)
THEOREM LastingCompletion == Spec => []CompletionSticks
<1>1. CompletionReachesRecord => CompletionSticks
  BY DEF CompletionReachesRecord, CompletionSticks, Nothing
<1> QED  BY <1>1, CompletionInit, CompletionStep, PTL DEF Spec

-----------------------------------------------------------------------------
(* The event feed.  The server's steps are those of Download, so what is      *)
(* proved above holds here too; the proof follows what the browser will show  *)
(* once it has had the event under way.                                      *)

(* What the browser will show when the newest event has come.                *)
Shown == IF news = Nothing THEN row ELSE IF news = Removed THEN Absent ELSE news

(* Only a subscriber is sent events, a closed socket has no history, and a   *)
(* removal ends with the process and unregisters the session before it takes *)
(* the record.                                                               *)
FeedBooks ==
  /\ socket \in {"never", "closed", "listed", "subscribed"}
  /\ Open => Alive
  /\ news # Nothing => socket = "subscribed"
  /\ ~ Open => ~ missed /\ ~ revived
  /\ ~ Alive => removal = "none"
  /\ removal = "unrecord" => ~ registered

(* What the browser will show is out of date only if a status or a removal   *)
(* is still to be broadcast, or for one of the reasons RowIsTrue allows.     *)
ShownIsTrue ==
  Open /\ ~ unseen /\ removal # "unrecord" /\ ~ missed /\ ~ revived => Shown = Listed

FeedInv == FeedBooks /\ ShownIsTrue

-----------------------------------------------------------------------------
(* The feed only watches: every step of it is one of Download's or a stutter.*)
LEMMA FeedStepIsStep == [FeedNext]_<<vars, feedVars>> => [Next]_vars
<1>1. Silent => Next
  BY DEF Silent, Next, SessionStep
<1>2. ForwardTells \/ ForwardPuts \/ FinalTells \/ RemovalTells \/ Disconnects => Next
  BY DEF ForwardTells, ForwardPuts, FinalTells, RemovalTells, Disconnects, Next,
     SessionStep
<1>3. Connect \/ Subscribe \/ Receive => UNCHANGED vars
  BY DEF Connect, Subscribe, Receive
<1> QED  BY <1>1, <1>2, <1>3 DEF FeedNext

(* A browser that follows a download never changes what the download does.   *)
THEOREM FeedImplementsDownload == FeedSpec => Spec
<1>1. FeedInit => Init
  BY DEF FeedInit
<1> QED  BY <1>1, FeedStepIsStep, PTL DEF FeedSpec, Spec

LEMMA FeedInitInv == FeedInit => FeedInv
BY DEF FeedInit, Init, FeedInv, FeedBooks, ShownIsTrue, Open, Nothing

-----------------------------------------------------------------------------
(* An event that says what a reload would say settles the row, if somebody   *)
(* has subscribed.                                                           *)
LEMMA BroadcastSettles ==
  ASSUME FeedBooks, NEW e \in States \cup {Removed}, Broadcast(e),
         Alive', removal' = "unrecord" => ~ registered',
         ~ Open => ~ revived',
         Open /\ ~ revived' => Listed' = IF e = Removed THEN Absent ELSE e
  PROVE  FeedInv'
<1>1. /\ socket' = socket /\ row' = row
      /\ news' = IF socket = "subscribed" THEN e ELSE news
      /\ missed' = (socket = "listed")
  BY DEF Broadcast
<1>2. e # Nothing
  BY DEF States, Removed, Nothing
<1>3. FeedBooks'
  BY <1>1 DEF FeedBooks, Open, Alive
<1>4. ShownIsTrue'
  <2> SUFFICES ASSUME Open', ~ missed', ~ revived'  PROVE  Shown' = Listed'
    BY DEF ShownIsTrue
  <2>1. socket = "subscribed" /\ Open
    BY <1>1 DEF Open
  <2> QED  BY <2>1, <1>1, <1>2 DEF Shown
<1> QED  BY <1>3, <1>4 DEF FeedInv

(* What a step of the server that broadcasts nothing must respect.           *)
LEMMA SilenceKeeps ==
  ASSUME FeedInv, UNCHANGED feedVars,
         Open => Alive', ~ Alive' => removal' = "none",
         removal' = "unrecord" => ~ registered',
         Open => \/ unseen'
                 \/ removal' = "unrecord"
                 \/ Listed' = Listed /\ unseen' = unseen /\ removal # "unrecord"
  PROVE  FeedInv'
<1>1. /\ socket' = socket /\ news' = news /\ row' = row
      /\ missed' = missed /\ revived' = revived
  BY DEF feedVars
<1>2. Open' = Open /\ Shown' = Shown
  BY <1>1 DEF Open, Shown
<1>3. FeedBooks'
  BY <1>1, <1>2 DEF FeedInv, FeedBooks
<1>4. ShownIsTrue'
  BY <1>1, <1>2 DEF FeedInv, ShownIsTrue
<1> QED  BY <1>3, <1>4 DEF FeedInv

(* Of the steps that broadcast nothing, those that publish a status tell the *)
(* forwarder, and those that unregister the session are part of a removal.   *)
LEMMA SilentKeeps ==
  ASSUME FeedInv, Silent  PROVE FeedInv'
<1>0. UNCHANGED feedVars
  BY DEF Silent
<1>1. CASE VerifyOnDisk \/ LeaveLoop \/ SpeedTick
  <2>1. unseen' /\ server' = server /\ registered' = registered /\ removal' = removal
    BY <1>1 DEF VerifyOnDisk, LeaveLoop, SpeedTick, serverVars, sessionVars
  <2> QED  BY <1>0, <2>1, SilenceKeeps DEF FeedInv, FeedBooks, Alive
<1>2. ASSUME server' = server, registered' = registered, removal' = removal,
             status' = status, record' = record, unseen' = unseen
      PROVE  FeedInv'
  <2>1. Listed' = Listed
    BY <1>2 DEF Listed
  <2> QED  BY <1>0, <1>2, <2>1, SilenceKeeps DEF FeedInv, FeedBooks, Alive
<1>3. CASE AwaitWrites \/ AwaitDisk \/ Import
  BY <1>2, <1>3 DEF AwaitWrites, AwaitDisk, Import, serverVars, storeVars, forwardVars
<1>4. ASSUME NEW i \in Piece, PieceVerified(i) \/ SendWrite(i) \/ DiskWrites(i)
      PROVE  FeedInv'
  BY <1>2, <1>4 DEF PieceVerified, SendWrite, DiskWrites, serverVars, storeVars,
     sessionVars, forwardVars
<1>5. CASE DiskSeesCancel \/ DiskDrained \/ DiskGone
  BY <1>2, <1>5 DEF DiskSeesCancel, DiskDrained, DiskGone, serverVars, storeVars,
     sessionVars, forwardVars
<1>6. CASE StoreFlushes
  BY <1>2, <1>6 DEF StoreFlushes, serverVars, sessionVars, forwardVars
<1>7. CASE DeletePayload
  <2>1. /\ removal = "none" /\ removal' = "unregister"
        /\ server = "up" /\ server' = server /\ registered' = registered
        /\ status' = status /\ record' = record /\ unseen' = unseen
    BY <1>7 DEF DeletePayload, serverVars, sessionVars, forwardVars
  <2>2. Listed' = Listed
    BY <2>1 DEF Listed
  <2> QED  BY <1>0, <2>1, <2>2, SilenceKeeps DEF FeedInv, FeedBooks, Alive
<1>8. CASE Unregister
  <2>1. removal' = "unrecord" /\ ~ registered' /\ Alive /\ server' = server
    BY <1>8 DEF Unregister, serverVars
  <2> QED  BY <1>0, <2>1, SilenceKeeps DEF FeedInv, FeedBooks, Alive
<1>9. CASE Shutdown
  <2>1. /\ server' = "stopping" /\ registered' = registered /\ status' = status
        /\ record' = record /\ unseen' = unseen /\ removal' = removal
    BY <1>9 DEF Shutdown, storeVars, forwardVars
  <2>2. Listed' = Listed
    BY <2>1 DEF Listed
  <2> QED  BY <1>0, <2>1, <2>2, SilenceKeeps DEF FeedInv, FeedBooks, Alive
<1>10. CASE Start
  <2>1. ~ Open
    BY <1>10 DEF Start, FeedInv, FeedBooks, Alive
  <2>2. removal' = removal /\ server' = "up" /\ server = "down"
    BY <1>10 DEF Start
  <2> QED  BY <1>0, <2>1, <2>2, SilenceKeeps DEF FeedInv, FeedBooks, Alive
<1> QED  BY <1>1, <1>3, <1>4, <1>5, <1>6, <1>7, <1>8, <1>9, <1>10
         DEF Silent, DiskStep

-----------------------------------------------------------------------------
LEMMA FeedStepInv ==
  ASSUME TypeOK, FeedInv, [FeedNext]_<<vars, feedVars>>  PROVE FeedInv'
<1>1. CASE Silent
  BY <1>1, SilentKeeps
<1>2. CASE ForwardTells
  <2>1. /\ Alive /\ server' = server /\ removal' = removal /\ registered' = registered
        /\ status' = status /\ Broadcast(status)
        /\ revived' = (revived \/ (Open /\ ~ registered))
    BY <1>2 DEF ForwardTells, ForwardReads, serverVars, sessionVars
  <2>2. status \in States /\ status # Removed
    BY DEF TypeOK, States, Removed
  <2>3. Alive' /\ (removal' = "unrecord" => ~ registered') /\ (~ Open => ~ revived')
    BY <2>1 DEF FeedInv, FeedBooks, Alive
  <2>4. Open /\ ~ revived' => Listed' = status
    BY <2>1 DEF Listed
  <2> QED  BY <2>1, <2>2, <2>3, <2>4, BroadcastSettles DEF FeedInv
<1>3. CASE ForwardPuts
  <2>1. /\ Alive /\ server' = server /\ removal' = removal /\ registered' = registered
        /\ status' = status /\ unseen' = unseen
        /\ UNCHANGED <<socket, news, row, missed>>
        /\ revived' = (revived \/ (Open /\ ~ registered))
    BY <1>3 DEF ForwardPuts, ForwardWrites, serverVars, sessionVars
  <2>2. FeedBooks'
    BY <2>1 DEF FeedInv, FeedBooks, Open, Alive
  <2>3. Open /\ ~ revived' => Listed' = Listed
    BY <2>1 DEF Listed
  <2>4. ShownIsTrue'
    BY <2>1, <2>3 DEF FeedInv, ShownIsTrue, Open, Shown
  <2> QED  BY <2>2, <2>4 DEF FeedInv
<1>4. CASE FinalTells
  <2>1. /\ Alive /\ server' = server /\ removal' = removal /\ registered' = registered
        /\ status' = status /\ unseen' = unseen /\ revived' = revived
        /\ ~ registered => record' = record
    BY <1>4 DEF FinalTells, FinalPersist, StillListed, serverVars, forwardVars
  <2>2. CASE registered
    <3>1. Broadcast(status)
      BY <1>4, <2>2 DEF FinalTells
    <3>2. status \in States /\ status # Removed
      BY DEF TypeOK, States, Removed
    <3>3. Alive' /\ (removal' = "unrecord" => ~ registered') /\ (~ Open => ~ revived')
      BY <2>1 DEF FeedInv, FeedBooks, Alive
    <3>4. Listed' = status
      BY <2>1, <2>2 DEF Listed
    <3> QED  BY <3>1, <3>2, <3>3, <3>4, BroadcastSettles DEF FeedInv
  <2>3. CASE ~ registered
    <3>1. UNCHANGED feedVars
      BY <1>4, <2>1, <2>3 DEF FinalTells, feedVars
    <3>2. Listed' = Listed
      BY <2>1, <2>3 DEF Listed
    <3> QED  BY <2>1, <3>1, <3>2, SilenceKeeps DEF FeedInv, FeedBooks, Alive
  <2> QED  BY <2>2, <2>3
<1>5. CASE RemovalTells
  <2>1. /\ Alive /\ server' = server /\ removal = "unrecord" /\ removal' = "none"
        /\ registered' = registered /\ record' = Absent
        /\ Broadcast(Removed) /\ revived' = revived
    BY <1>5 DEF RemovalTells, Unrecord, serverVars, sessionVars
  <2>2. Alive' /\ (removal' = "unrecord" => ~ registered') /\ (~ Open => ~ revived')
    BY <2>1 DEF FeedInv, FeedBooks, Alive
  <2>3. Listed' = Absent
    BY <2>1 DEF Listed, FeedInv, FeedBooks
  <2> QED  BY <2>1, <2>2, <2>3, BroadcastSettles DEF FeedInv
<1>6. CASE Disconnects
  <2>1. /\ server' = "down" /\ removal' = "none"
        /\ socket' = IF Open THEN "closed" ELSE socket
        /\ news' = Nothing /\ missed' = FALSE /\ revived' = FALSE
    BY <1>6 DEF Disconnects, Exit, PowerLoss, ProcessEnds
  <2>2. socket' \in {"never", "closed"}
    BY <2>1 DEF FeedInv, FeedBooks, Open
  <2>3. ~ Open'
    BY <2>2 DEF Open
  <2> QED  BY <2>1, <2>2, <2>3 DEF FeedInv, FeedBooks, ShownIsTrue
<1>7. CASE Connect
  <2>1. /\ Alive /\ socket = "closed" /\ socket' = "listed" /\ row' = Listed
        /\ UNCHANGED <<vars, news, missed, revived>>
    BY <1>7 DEF Connect
  <2>2. /\ server' = server /\ removal' = removal /\ registered' = registered
        /\ Listed' = Listed
    BY <2>1 DEF vars, serverVars, storeVars, sessionVars, Listed
  <2>3. FeedBooks' /\ news' = Nothing
    BY <2>1, <2>2 DEF FeedInv, FeedBooks, Open, Alive
  <2>4. Shown' = Listed'
    BY <2>1, <2>2, <2>3 DEF Shown
  <2> QED  BY <2>3, <2>4 DEF FeedInv, ShownIsTrue
<1>8. CASE Subscribe \/ Receive
  <2>1. /\ server' = server /\ removal' = removal /\ registered' = registered
        /\ unseen' = unseen /\ Listed' = Listed
    BY <1>8 DEF Subscribe, Receive, vars, serverVars, storeVars, sessionVars,
       forwardVars, Listed
  <2>2. /\ Open' = Open /\ missed' = missed /\ revived' = revived
        /\ news' # Nothing => socket' = "subscribed"
        /\ socket' \in {"never", "closed", "listed", "subscribed"}
    BY <1>8 DEF Subscribe, Receive, FeedInv, FeedBooks, Open
  <2>3. Shown' = Shown
    BY <1>8 DEF Subscribe, Receive, Shown
  <2>4. FeedBooks'
    BY <2>1, <2>2 DEF FeedInv, FeedBooks, Alive
  <2>5. ShownIsTrue'
    BY <2>1, <2>2, <2>3 DEF FeedInv, ShownIsTrue
  <2> QED  BY <2>4, <2>5 DEF FeedInv
<1>9. CASE UNCHANGED <<vars, feedVars>>
  BY <1>9 DEF vars, serverVars, storeVars, sessionVars, forwardVars, feedVars,
     FeedInv, FeedBooks, ShownIsTrue, Open, Alive, Shown, Listed
<1> QED  BY <1>1, <1>2, <1>3, <1>4, <1>5, <1>6, <1>7, <1>8, <1>9 DEF FeedNext

(* Once everything has settled the browser shows what a reload would show,   *)
(* whatever the download goes through: no event is lost or overtaken in a    *)
(* way that leaves a stale row, but for the two gaps RowIsTrue names.        *)
THEOREM RowsAreTrue == FeedSpec => []RowIsTrue
<1>1. FeedInv => RowIsTrue
  BY DEF FeedInv, ShownIsTrue, RowIsTrue, Open, Shown
<1>2. FeedSpec => []TypeOK
  BY FeedImplementsDownload, Types, PTL
<1>3. TypeOK /\ FeedInv /\ [FeedNext]_<<vars, feedVars>> => FeedInv'
  BY FeedStepInv
<1> QED  BY <1>1, <1>2, <1>3, FeedInitInv, PTL DEF FeedSpec
=============================================================================
