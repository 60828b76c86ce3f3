----------------------------- MODULE EventFeed -------------------------------
(***************************************************************************)
(* A browser that follows a download over the websocket: web/ws.rs, the     *)
(* broadcast channel of engine/manager.rs and useWebSocket.ts.  It is sent  *)
(* a snapshot, subscribes after that, and shows what the events say.        *)
(*                                                                          *)
(* Each event replaces the browser's row of the download, so of those on    *)
(* their way only the newest matters.  A receiver that lags skips the       *)
(* oldest, and loses nothing.                                               *)
(***************************************************************************)
EXTENDS Download

VARIABLES
  socket,  \* "never" (nobody looks), "closed", "listed" (has the snapshot, is
           \* not subscribed yet), "subscribed"
  news,    \* the newest event the browser has not had: a status, Removed, or
           \* Nothing
  row,     \* what the browser shows, Absent if it has no row
  (* history, since the browser connected, read by no action *)
  missed,  \* the last event fell between snapshot and subscription
  revived  \* a status was broadcast or persisted after remove unregistered it

feedVars == <<socket, news, row, missed, revived>>

FeedInit ==
  /\ Init
  /\ socket \in {"never", "closed"} /\ news = Nothing /\ row = Absent
  /\ missed = FALSE /\ revived = FALSE

Open == socket \in {"listed", "subscribed"}

-----------------------------------------------------------------------------
(* event_tx.send.                                                            *)
Broadcast(e) ==
  /\ news' = IF socket = "subscribed" THEN e ELSE news
  /\ missed' = (socket = "listed")
  /\ UNCHANGED <<socket, row>>

(* Mutant: a removal is broadcast like an update.                            *)
StatusRemoved == status

(* The event of remove.                                                      *)
Removed == "removed"

(* The forwarder sends every status it sees, listed or not.                  *)
ForwardTells ==
  /\ ForwardReads
  /\ Broadcast(status)
  /\ revived' = (revived \/ (Open /\ ~ registered))

ForwardPuts ==
  /\ ForwardWrites
  /\ revived' = (revived \/ (Open /\ ~ registered))
  /\ UNCHANGED <<socket, news, row, missed>>

(* The final status goes out before it is persisted.                         *)
FinalTells ==
  /\ FinalPersist
  /\ IF registered THEN Broadcast(status) ELSE UNCHANGED <<socket, news, row, missed>>
  /\ UNCHANGED revived

RemovalTells ==
  /\ Unrecord
  /\ Broadcast(Removed)
  /\ UNCHANGED revived

Disconnects ==
  /\ Exit \/ PowerLoss
  /\ socket' = IF Open THEN "closed" ELSE socket
  /\ news' = Nothing /\ row' = Absent /\ missed' = FALSE /\ revived' = FALSE

(* The steps of the server that broadcast nothing.                           *)
Silent ==
  /\ \/ VerifyOnDisk \/ LeaveLoop \/ AwaitWrites \/ AwaitDisk \/ Import
     \/ SpeedTick
     \/ \E i \in Piece : PieceVerified(i) \/ SendWrite(i)
     \/ DiskStep
     \/ StoreFlushes
     \/ DeletePayload \/ Unregister
     \/ Shutdown \/ Start
  /\ UNCHANGED feedVars

-----------------------------------------------------------------------------
(* list: the session's status if there is a session, or else the record's.   *)
Listed == IF registered THEN status ELSE record

(* The browser connects, now or two seconds after its socket was closed.     *)
Connect ==
  /\ Alive /\ socket = "closed"
  /\ socket' = "listed"
  /\ row' = Listed
  /\ UNCHANGED <<vars, news, missed, revived>>

Subscribe ==
  /\ socket = "listed"
  /\ socket' = "subscribed"
  /\ UNCHANGED <<vars, news, row, missed, revived>>

Receive ==
  /\ news # Nothing
  /\ row' = IF news = Removed THEN Absent ELSE news
  /\ news' = Nothing
  /\ UNCHANGED <<vars, socket, missed, revived>>

-----------------------------------------------------------------------------
FeedNext ==
  \/ Silent
  \/ ForwardTells \/ ForwardPuts \/ FinalTells \/ RemovalTells \/ Disconnects
  \/ Connect \/ Subscribe \/ Receive

FeedSpec == FeedInit /\ [][FeedNext]_<<vars, feedVars>>

(* Once no status, persist or removal is under way and the browser has had   *)
(* all events, it shows what a reload would show, unless the last event fell *)
(* into the gap between snapshot and subscription, or the download was       *)
(* removed and its session or forwarder spoke after that (ws.rs:16-57,       *)
(* manager.rs:172-211, 482-497; types.rs:244-247: a deleted download should  *)
(* not linger).                                                              *)
RowIsTrue ==
  /\ socket = "subscribed" /\ news = Nothing
  /\ ~ unseen /\ forward = Nothing /\ removal = "none"
  /\ ~ missed /\ ~ revived
  => row = Listed
=============================================================================
