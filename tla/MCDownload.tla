----------------------------- MODULE MCDownload ------------------------------
(* A download with and without a browser that follows it.  Pieces are        *)
(* nothing to the browser: the one it follows has all its data on disk when  *)
(* the server first starts, verifies all of it or none, and meets no power   *)
(* loss.                                                                     *)
EXTENDS EventFeed

MCInit == FeedInit /\ (socket = "closed" => written = Piece)

MCNext ==
  /\ FeedNext
  /\ \/ socket = "never"
     \/ have' \in {{}, Piece} /\ (server = "up" => Alive')

MCSpec ==
  /\ MCInit /\ [][MCNext]_<<vars, feedVars>>
  /\ WF_vars(SessionStep) /\ WF_vars(DiskStep)
  /\ \A i \in Piece : WF_vars(SendWrite(i))
  /\ WF_vars(ForwardReads) /\ WF_vars(ForwardWrites)
=============================================================================
