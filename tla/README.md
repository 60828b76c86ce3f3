# MovieHouse in TLA+

This directory holds TLA+ models of MovieHouse, TLC configurations that check
them on small instances, and proofs for TLAPS. MovieHouse (`src/`) is a server
in Rust: a BitTorrent engine, an ffmpeg transcode runner, a sled store and a web
API, all tokio tasks of one process. Paths below are relative to `src/src/`
unless they begin with `docs/`.

## The system

| component | state it keeps | operations | modelled in |
|---|---|---|---|
| piece bookkeeping, `piece/picker.rs` (`PieceProgress`) | received and assigned flags, counter, cursor, buffer | assign, receive, unassign | `PieceProgress`, `BlockTracker`, `Payload` |
| piece picker, `piece/picker.rs` (`PiecePicker`) | verified pieces, pieces in progress, mode, rarity | pick, block received, verify, fail, endgame requests | `Session` |
| torrent session, `engine/session.rs` | announced pieces and pending requests per peer | one event loop: peer events, timers, refills | `Session` |
| peers, `peer/manager.rs`, `peer/connection.rs` | connections, choke state, outstanding counter, address queues | connect, commands, events | `Session` (as the session sees them) |
| disk task, `disk/io.rs`; `engine/resume.rs` | command channel, files | allocate, write, sync, drain, verify | `Download` (channel, tasks), `Payload` (bytes) |
| session manager, `engine/manager.rs`; `main.rs` | registered sessions, records, broadcast | add, resume, forward status, broadcast, import, remove | `Download`, `EventFeed`; the import's entries in `Library` |
| magnet resolution, `engine/magnet*.rs`, `web/api/torrents.rs` | metadata buffer, placeholder | handshake, data, reject, resolve, fail | `Magnet` |
| transcode runner, `transcode/*`, `web/api/transcode.rs` | job channel, permits, cancel tokens | submit, cancel, encode, publish, reclaim, recover | `Transcode` |
| media store, `engine/store.rs` | library entries, download records | transcode state machine, versions, reads and writes of whole entries | `Transcode`, `Library` (read and write apart), `Download` (single-step updates, but for the forwarder's) |
| library API, `web/api/library.rs`, `media.rs`, `settings.rs`, `engine/library.rs` | entries and files | scan, group, fix paths, clean up, delete, migrate, play position, subtitles, refresh, stream | `Library`; the clean-up beside running jobs in `Transcode` |
| DHT, `dht/*` | routing table, transactions, tokens | start, bootstrap, query, lookup, answer, save | `Dht` |
| trackers, `tracker/*` | announce loop | announce, retry | planned |
| choker, `engine/choker.rs` | throughput ranks | choke rounds | no |
| file mapping, `disk/mapping.rs`; bitfield; ranges | none | pure arithmetic | spans in `Payload`; ranges planned |
| bencode, metainfo, wire codec | none | parsing | no |
| web server, websocket | subscriptions | snapshot, events | `EventFeed` (events) |
| TMDB client, `tmdb.rs` | none | lookups that take seconds | `Library` (when an answer is applied, and to what) |
| ffprobe, presets, CLI, frontend | none the server depends on | requests and views | no, but for a browser's row in `EventFeed` |

How they interact. A peer connection task sends `PeerEvent`s to its session over
one channel and takes `PeerCommand`s from another that the session fills with
`try_send`. The session spawns a task for every piece write; those queue for the
64 slots of the disk task's channel. The session publishes its status on a
watch channel; a forwarder task of the manager writes it into the record. When
the session ends, the manager's task stores the final status, imports the files
into the library and submits transcode jobs. HTTP handlers remove, cancel and
clean up at any time. Ctrl-C cancels a root token; the process then ends
whatever the tasks are doing.

What is hard, and what makes each part correct:

- **Blocks.** A block may be lost with a choke, a disconnect, a dead connection
  or a full channel, and arrive late, twice, unasked or corrupt. The picker's
  and the session's books must agree after each event; no block may be lost for
  good or fetched twice before endgame; a seed must be enough to finish.
- **The cursor.** `assign_next_block` never looks back, so it must never have
  passed a block that is free.
- **The end of a download.** Final status, pending writes, the disk task's
  drain, the forwarder's read-then-write, the import, a removal, Ctrl-C and a
  power loss meet here. Verified data must reach the disk, the record must be
  neither stale nor resurrected, and an ended session must really end.
- **Metadata.** Several peers fill one buffer that is only checked as a whole,
  and pieces that are given back must be asked for again.
- **Bytes.** Pieces cut files and files cut pieces; blocks may lie across the
  grid; writes, allocations and the process fail half-way. A piece that counts
  as done must be on disk, and a restart must adopt what is whole, no more.
- **DHT.** Lookups, the bootstrap and inbound queries interleave on one table
  and one map of transactions whose 16-bit ids come round. The table must stay
  well formed, each waiting query must be the one an answer finds, and every
  lookup must end, for the session waits for the bootstrap before its loop.
- **Transcodes.** Jobs share output paths, token slots and permits; failure and
  recovery delete files. The film that an entry plays must survive.
- **The library.** Handlers and lookups run on several threads without a lock.
  They read an entry, or all of them, work for milliseconds or seconds, move and
  delete files, and write whole entries back. No entry may point at nothing or
  share its video with another; nobody's film may go with another's; what was
  removed must stay removed and what was stored must stay stored.
- **What a browser shows.** Snapshot, subscription, status updates and removals
  come from different tasks; the row must end up as a reload would show it.

`PROJECT.json` lists the hazards, each at its line, with the properties that
cover it or the reason why none does yet.

## The modules

**`BlockTracker`** is what the engine relies on for one piece: a set of blocks
spoken for and a set received; it hands out the lowest free block and counts a
block once. **`PieceProgress`** is the struct of `picker.rs:25-107`:
`blocks_received`, `blocks_assigned`, `received_count` and `assign_cursor` keep
their names, and each method is an action. `Tracker == INSTANCE BlockTracker`
gives the refinement mapping (flags to sets) and `ImplementsTracker` states it.

**`Payload`** puts bytes into that piece and carries them to files and back. It
extends `PieceProgress`: `data` is the buffer, `BlockReceived` is
`block_received` with the hash check of the session. `Offset` adds up the files as
`FileMapping::new` does and `Walk` is the loop of `piece_spans` (`Spanned` one turn of
it), both recursive functions over the files; `WriteSpan` and `WriteFails` are one turn of
`write_piece_blocking`. `Start` allocates, then adopts by `verify_on_disk`;
`Tamper` is what users do to files while the server is down. A byte is its
position in the torrent, so `Intact` can say what is right from the lengths
alone, without the spans that the code uses.

**`Session`** is the event loop of `TorrentSession::run` with the picker. Each
handler is one action, because the loop handles an event to its end; the
`fill_pipeline` and `refill_all_peers` calls that close it are part of it
(`Refill`). `Picks` says which blocks repeated calls of `pick_block` may hand
out (low blocks first, pieces in progress first); the choice among pieces,
by rarity and chance in the code, is left open, so what is shown does
not depend on it. `link` separates a connection task that has ended ("dead")
from the `Disconnected` event that tells the session: in between commands fail.
Blocks are pairs, data is good or bad, a piece with a bad block fails its hash.
Requests of endgame rounds leave no trace in the session; `Asked` recomputes
them from the state. A write of a verified piece is `Download`'s business.

**`Download`** is one download from the session's start to the library, with
the tasks around it: session (`phase`), write tasks (`waiting`), disk task
(`disk`, `queue`, `written`, `synced`), forwarder (`unseen`, `forward`), removal
request (`removal`), process (`server`, `starts`) and store (`record`, `durable`).
Each await of the code separates two actions. Which peer sends what is left
open: a missing piece may be verified at any time. `Faults` switches on
write errors, power loss, Ctrl-C and removal. A torn write counts as absent,
for it fails its hash at the next start.

**`EventFeed`** puts a browser beside `Download`: it wraps the actions that send an
event on the manager's broadcast channel (`ForwardTells`, `FinalTells`,
`RemovalTells`), and adds the websocket's snapshot (`Connect`), its subscription
and its loop. An event replaces the browser's row, so of those under way only
the newest is kept (`news`); a lagging receiver loses older ones only.

**`Library`** is the media library: `entry` is the store's tree, `disk` maps the files
that exist to the film each holds, `task` has the requests under way and `fetch`
the spawned metadata lookups. A request is a chain of steps: it reads (`Ask*`,
`Get*`), touches files (`Unlink`, `MigrateOne`, `WriteSubtitle`, `Encode`), and
writes the entry back (`Put*`). Whoever walks the list of all entries
(`fix_paths`, `cleanup_sources`, `migrate_media`, `delete_torrent`) works from
the list it read first, in any order. An entry's film is what its file held when
it was made; names, metadata and sizes are left out, but for the file stem, which
decides where an output goes, and the show, which decides how a scan groups.

The code keeps no promise for entries that two requests work on at once, since
each writes back what it read. So `Library` keeps a history: `outdated` are the
entries that others wrote since a task read them, and `misled` the films for which
a task acted on such knowledge, wrote it back or failed half-way, took a file that
another had in hand, wrote over another entry's output or moved a file to where
another task's output goes, or which the user or a torrent's removal took away.
One cause is no race: a job that fails or is cancelled removes the file at its output
path, also when an earlier job has made it and the entry lists it (runner.rs:348-358).
`left` are the entries of which a migration had to leave a file behind because its
name was taken: should it find the name free at the end, it moves the file and the
entry is not told. The properties speak of all other films: they say that what is
recorded there are the only ways to do harm. No action reads the history.

**`Magnet`** is one magnet link: the exchange loop of `download_metadata` with
the `MetadataBuffer`, the steps of `resolve_magnet` and `fail_magnet` that
follow it, removal of the placeholder, and a restart. Sizes are counted in
metadata pieces. A peer in `Liar` may report any size and send anything.

**`Dht`** is the DHT node. `table`, `txn` and `pending` are the routing table,
`TXN_COUNTER` and the map of waiting queries; `query` holds the task of each
query, `look` the local state of each lookup and of the bootstrap. A lookup runs
in rounds: `PickRound`, the queries' own steps (`Send`, `Answer`, `Refuse`,
`TimesOut`, `ChannelClosed`), `Take` for each handle in the order of the code,
`Learn` for each node that an answer names, `RoundEnds`. Each acquisition of the
table's lock is a step. `Start`, `BootEnds`, `Inbound` and `Stop` are the node.

**`Transcode`** has the library entries, the files on disk, and jobs from the
request to the unlinking of the source. A job is a record in a slot that is used
again when the job has ended, so there may be any number of jobs over time, at
most `MaxJobs` at once. Its `phase` names the call it makes or waits for next. The
store locks nothing between reading an entry and writing it back, so each store
call of the runner is two steps, `JobReads` and the step that writes: codecs and
subtitles (`StoreDetails`), states (`Set*`), progress, the version, the repointing.
`request` holds what else writes entries: a cancel, a clean-up (the list it goes
by, the write, the unlinking), any handler that changes fields not shown
(`OtherRequest`), the recovery of a restart, which runs beside requests. A clean-up
treats each listed entry as a request of its own. A write from an old copy puts old
fields back; `reverted` records when that is the state or the `media_file`, and
`exposed` the entries whose file was put at risk. No action reads either.
Files are absent, partial, a stub (below `MIN_PLAUSIBLE_OUTPUT_BYTES`) or whole.
`Title` makes entries share an output path, as equal titles do in the code.

**`*Proofs`** hold the theorems. **`MC*`** modules only give constants values.

How they compose. `PieceProgress` implements `BlockTracker`, and `Payload` runs it
with bytes, files and failures around; `Session` uses a
piece the way `BlockTracker` describes one (`assigned`, `received`, lowest free
block first). `Download` abstracts all of `Session` to `PieceVerified`, and
`Transcode` starts with the entries that `Download`'s `Import` makes. `Library` has
that import in detail (a scan of the payload folder) and the jobs in outline;
`Transcode` has the jobs in detail, and of the requests the clean-up in detail, the
rest as cancels and as writes of an entry that was read before.
`EventFeed` extends `Download` without touching it. `Magnet`
ends where `Download` begins (`AddTorrent`). What `Download` takes for granted, that a
piece is on disk or not and that a restart can tell, `Payload` shows. `Dht` and the
trackers only feed addresses to `Session`, which is open to any at any time.

### Abstractions

- In `Download`, `EventFeed` and `Magnet` a call of a store helper is one step, although
  it reads a whole record and writes it back; only the forwarder's persist is two, and
  `fail_magnet` works under the lock of the sessions. `Library` and `Transcode` have
  reads and writes apart. In `Library` a job is its encode and one store call; the
  other store calls of a job are in `Transcode`.
- `Transcode`: an entry has one request of each kind at a time. Scans, deletions and
  migrations are `Library`'s.
- `Library`: the files of one entry are moved or deleted in one step, and an entry's
  metadata is left out: lookups matter for what else they write back. A lookup of
  a whole import is one for each entry. Directories are flat. The torrent's
  download has ended; its removal without its files does not concern the library.
  A request that is refused half-way is one that takes no further step.
- `EventFeed`: `list` is one step, although it reads the sessions before the records.
- A hash matches exactly when all the data is right.
- Throughput, speed limits, keep-alives, logging and the contents of subtitles and
  codecs are left out (that a job writes the entry for them is in `Transcode`); so are limits on the
  number of peers: any known address may be connected.
- `Payload` follows one piece block by block, once; the others arrive whole. A
  true byte is never zero: a real piece of zeros is adopted from a freshly
  allocated file, rightly. A crash inside the followed piece is the same as one
  before it and is left out. One file at most fails to be allocated per start.
- `Dht`: an address is a host; a full bucket replaces any bad node where the
  code takes the first; the two lock acquisitions of insert and `mark_good` are
  one step. The nodes in an answer are a set. The loaded and saved file is
  that of lightspeed mode, with a fixed own id. Lookups that a stop leaves
  behind are dropped, as nobody reads what they write. `lookup.rs` keeps a set
  `queried` beside the state of its candidates (34, 43, 153, 163); here both are the
  candidate's state, so `NeverAskedAgain` does not tell the two checks apart. The
  bounded `peer_tx.send` of a peer lookup (104) is taken not to wait: the session
  that receives has its own loop, which a full channel only slows down.
- Clocks: a timeout may come at any time after its cause (`AwaitDisk`, the
  forwarder's 5 s between persists).

## The runs

All runs use `CHECK_DEADLOCK FALSE`: every part may stop (a finished piece, a
finished session, a process that is down for good).

| run | question | instance |
|---|---|---|
| `payload` | Is the cursor's shortcut invisible from outside, and do bytes reach their place and stay there? | 2 pieces of 3 blocks (6 and 5 bytes) over one file, over three with an empty one, and over three of which two lie within a piece; 4 kinds of wrong block; a restart |
| `session` | Do the books agree and no peer idle? | 2 peers, 2 pieces of 2 blocks and of 1 (the short last piece), 2 requests outstanding, both peers may send bad data, 1 surprise |
| `session_live` | Is one responsive seed enough to finish? | as above, the other peer with a full channel and under no duty to answer, no bad data (a piece that fails is not queued again, the finding of the next run) |
| `session_stall` | Is a failed piece queued again? | 1 piece, 1 request outstanding, both peers answer, one with bad data: **violated** |
| `download` | Is verified data kept, is the record right at the end, and does a browser show it? | 2 pieces, a channel of 1 slot, all faults, a restart; with a browser: all data on disk at first, no power loss |
| `download_crash` | Does a restart repair what a power loss took? | failed writes and power loss, writes synced: **violated** |
| `download_shutdown` | Does a restart resume what Ctrl-C interrupted? | Ctrl-C only: **violated** |
| `magnet` | Is the metadata the right one, and the placeholder honest? | an honest peer with a channel that fills up, a liar, true size 2 of at most 3 |
| `dht` | Is the table well formed, is every query heard, does every lookup end? | 3 hosts and us, 3-bit ids, buckets of 1, 2 transaction ids, a bootstrap, a refresh and a peer lookup, 3 starts, stops and inbound queries |
| `transcode` | Does anything get stuck, and how can a film be lost? | 1 entry, 2 jobs at a time, 1 or 2 permits, 2 requests, a crash |
| `transcode_cleanup` | Does the clean-up look before it deletes? | 1 entry, 1 job at a time, 3 requests: **violated** |
| `library` | Do concurrent library requests keep entries and files together? | 2 films at every stage (loose, imported, transcoded, source reclaimed) in 3 layouts, 2 requests at a time and in all, their lookups, 1 fault |

Why the bounds are enough. The books of a session couple two peers through
one block, and a third peer only repeats what the second does; two pieces
give one to finish while another is in progress, and the short last piece gives
the boundary. A channel of one slot for two writes is full at once. One surprise
is a late, repeated, unasked or bad block at every point of every behaviour; the
counter `surprises` keeps the state space finite. Two jobs over one
permit, or two, give one that waits and a running pair; with one entry they share
token slot and output path, the closest contact jobs can have, and the two requests
that make them may also be any other write of the entry, begun at any point of a job.
(Three requests for one entry were checked too, and the inductive invariant of the
proofs with two entries of one title.) `MaxStarts = 2` and
`MaxCrashes = 1` give one restart after any history; a second restart meets the
same records. The wrong blocks of `payload` lie in place, across two blocks, across the end of
the short piece and behind its last block, which is every way to be wrong. Two
transaction ids over three lookups make the counter meet a pending query, and a
bucket of one is full at the first node. Two requests of
`library` meet from every stage of both films, so that every pair of handlers runs
in every interleaving; the three layouts are the cases its rules tell apart:
episodes that are grouped, movies of which a folder gives one, and namesakes that
share an output path. Longer histories than two requests begin in the stages that
one request leads to. (With one film, or in one layout at a time with fewer
kinds of requests, three requests at once were checked too.) The proofs do not
depend on any of these bounds.

What the passing properties say:

- `CursorPassesNothingFree`, `ImplementsTracker`: the
  cursor, the counter and the flags are only a faster `BlockTracker`.
- `DoneIsOnDisk`, `KeepsBytes`: a piece in `have` has every byte in its place, or is
  queued, or its write failed (which the code only logs); no later step undoes a
  byte that has arrived.
- `AdoptsTheIntact`: a restart adopts all whole pieces and no others, whatever
  was torn, cut, edited or deleted. The doc of `resume.rs` promises this.
- `OnlyWrongBlocksFail`: a piece fails its hash only if a wrong block was taken.
- `PickerAgrees`: a piece is missing, in progress or verified, never two of
  these; late and repeated blocks do not reopen or recount it.
- `AssignedIsAwaited`, `AwaitedOnce`: each block handed out has a request
  pending at one joined peer, but for those whose send failed (`leaked`).
- `EndgameWhenHandedOut`: once nothing is left to hand out endgame is on, which
  is the only way a leaked block is ever asked again.
- `NoIdlePeer`: no usable peer idles while it has a block nobody was asked for,
  but for pieces that failed their hash (the finding below).
- `Completes`: one seed that stays and answers is enough, even if another unchoked
  peer holds blocks and never answers.
- `VerifiedIsAccountedFor`, `OnlyOutsideStopDrops`: a verified piece is on disk or on
  its way there, none is on its way any more when the final status is stored and the
  import begins, and only a shutdown or a removal drops a write. A failed write is
  exempt: the code only logs it.
- `CompletionSticks`, `OnlyForwarderResurrects`: forwarder, final persist and
  removal race on one record; no stale status stays in a completed one, and the
  only races that bring a removed record back are the two named.
- `CancelledSessionEnds`: neither a full channel nor the disk task's early end
  leaves a cancelled session waiting.
- `RowIsTrue`: a browser that has had all events shows what a reload would show,
  but for an event in the gap between snapshot and subscription, and a session
  that speaks after its removal (below).
- `AssignedIsAwaited` (of `Magnet`), `NoPieceIsOverlooked`,
  `ResolvingIsAlive`, `RemovedStaysRemoved`, `EndsUnlessHindered`: no metadata
  piece stays assigned to a peer that has gone; while a peer can be asked, the only
  missing pieces nobody was asked for are those that a rejection or a departure gave
  back since; a record says "resolving" only while a task resolves; a
  removed placeholder stays removed; and an exchange that a peer serves ends
  unless it is hindered in one of three named ways.
- `BucketsWellFormed`, `OnlyBadGiveWay`: no bucket outgrows its size or holds us,
  and only a node that failed three queries in a row loses its place.
- `QueryIsHeard`: a waiting query is the one its transaction id leads to, even
  after the counter came round: the query overwritten has its channel closed.
- `NeverAskedAgain`, `EveryLookupEnds`: a lookup asks no id twice and ends.
- `EntriesArePlayable`: what an entry plays and streams is on disk and is its film.
  `FilesHaveOneOwner`: no video is in two entries. `NothingIsUndone`: removed entries
  stay removed and play positions stay stored. `FilmsSurvive`: a film nobody
  deleted is still there. All of these but for films that were `misled`, by a race, a
  failure half-way, or a failed job over an earlier output.
- `TranscodingHasAJob`, `TokensAreLive`, `EveryJobEnds`: no entry, token or
  permit is stuck. But for an entry whose state a stale copy has put back.
  `OnlyExposedLoseTheirFile`: a film is lost only when a job started over an existing
  output or beside another job for the same output, when a clean-up repointed the
  entry while the output was not whole, or when a stale copy put its `media_file`
  back.

### Where code and documents disagree

- `session_stall`: `picker.rs:325` says a failed piece is queued again. Only the
  peer that sent its last block is refilled; if it is choked by then, nobody is
  asked and the download may stall beside an idle seed.
- `download_crash`: `resume.rs:10-14` promises repair after a crash. `Completed`
  is persisted before the writes are awaited, and completed downloads are not
  verified at a start. A write that fails, on a full disk say, is never repaired
  either: it is only logged.
- `download_shutdown`: `main.rs:204` promises to restart interrupted downloads.
  Ctrl-C stores `Cancelled`, which `resume_all` skips.
- `transcode_cleanup`: `library.rs:114-115` says sources are deleted only where
  a transcoded version exists. The file is not looked for.

Other things met while modelling, that no run of their own is about. The models
behave as the code does:

- `picker.rs:314` says that `mark_verified` is called "AFTER SHA1 verification succeeds
  and disk write completes". The session calls it before the write (session.rs:436-447,
  whose own comment wants `is_complete` honest) and only logs a write that fails, so a
  verified piece need not be on disk. `VerifiedIsAccountedFor` says what holds instead.
- `store.rs:152-160` lists the valid transitions of a transcode state, with only
  "Pending" before "Transcoding". The code lets an entry become transcoding from any
  state (171-176). And whoever writes back an entry read before (runner.rs:229-235,
  321-323, 338-343; the helpers of store.rs; library.rs:117 with 150-152) restores
  the state and the file it had then: an entry may be transcoding with no job, or play
  a file that a clean-up has unlinked (`reverted` in `Transcode`).
- A job that fails or is cancelled removes the output of an earlier job, and leaves it
  in the entry's versions (runner.rs:348-358).
- `docs/diagrams/download-magnet.md:72` says metadata pieces given back are
  "retried against other peers". They are only unassigned; nobody is asked until
  some peer happens to send a handshake or data. `EndsUnlessHindered` names this
  (`Hindered`).
- `engine/types.rs:245-247` says the removed event makes the browser drop the row,
  without which it "lingers in the list until the page is reloaded". Removing a
  running download also cancels its session, and the forwarder, which outlives the
  removal, broadcasts the session's last status after the removed event: the row
  comes back (`revived` in `EventFeed`). `resolve_magnet` (manager.rs:553-568) tells
  nobody that the placeholder is gone, and gives the download a new id.
- A scan never reuses the group of a show: its two branches for files that are
  already an entry's `media_file` cannot be reached, for such files were skipped
  (library.rs:453-490). Each scan of a folder that holds an extra beside a film
  imports the next largest file.
- `cleanup.rs:14` says "every file this entry alone owns". Subtitles are found by
  prefix and may be two entries' own; two films of one title share their output
  path, and the second transcode writes over the first's output.
- `fix_paths` takes any version, existing or not. `migrate_media` leaves the
  `output_path` of `TranscodeState::Ready` as it was, so a stream that has no version
  to offer looks for the old file. A version that could not be moved is dropped from
  its entry, and may be moved by the last step after all.
- Deleting a torrent removes its folder with the files of entries a scan made.
- `cleanup_sources` repoints an entry before it unlinks the source; a scan in
  between imports the source that is about to go.
- Transcoding an entry again after its source was reclaimed makes input and output
  the same file: ffmpeg refuses, and the failure path removes the file.
- An uploaded subtitle is numbered by the count of those there are, so that it
  replaces an earlier one after a migration has dropped one, or in a race.

Smaller still: the comment at
`dht/routing_table.rs:103` calls bucket 0 the farthest, while the index computed
below it is highest for the farthest ids; `docs/diagrams/dht-discovery.md` has
the candidates cut to the closest K, while `lookup.rs` never drops one; and
`failed_queries`, a `u8`, wraps (or panics in debug builds) at the 256th failure.

### Fairness

Fairness is stated action by action, never on `Next`.

- `Session`: queued `Disconnected` events are handled, for the loop is a tokio task. Of
  remote peers only the constant `Responsive` ones answer requests they have and were
  not told to forget; the others may hold blocks for ever, the slow peers of
  session.rs:539-541. The endgame round, which `connect_interval` starts every two
  seconds, keeps the requests of `Asked` coming. Nothing is assumed about unchoking,
  connecting or announcing; `Completes` assumes of one responsive peer, a seed, that it
  stays connected and unchoked.
- `Download`: tokio runs the session, disk, write and forwarder tasks whenever
  they can go on. Pieces need never arrive, requests and faults need never come.
- `Magnet`: queued `Disconnected` events are handled and honest peers answer
  while connected. Liars owe nothing.
- `Dht`: one weak fairness condition for each lookup, over its own steps and those
  of its queries, for tokio runs these tasks and the timeout of a query goes off.
  A lookup takes finitely many steps, so this is all it needs. Answers need never
  come, and nothing starts a lookup.
- `Payload`, `Library`: none; they have safety properties only. So does what
  `EventFeed` adds: `RowIsTrue` is about states in which nothing is under way.
- `Transcode`: each job's task goes on (weak fairness), the recovery of a restart too,
  and each ffmpeg ends, well or badly (strong fairness, as each line of progress
  makes the job wait for its store call first). Requests, progress lines and crashes
  need never come.

## The proofs

TLC shows a property for one instance; the theorems hold for every value of the
constants under the `ASSUME`s of the modules (finite nonempty sets, positive
sizes; see each module's head). Each safety theorem goes the same way: an
inductive `IInv`, its initial states, one step per action, and a temporal step.
Each `IInv`, and `Safe` of the library, was checked by TLC before it was proved.

- `PieceProgressProofs`: `Safe` (`TypeOK`, `CursorPassesNothingFree`,
  `CounterMatchesFlags`) and `Implements` (`ImplementsTracker`). The two
  invariants are inductive together: the refinement needs that the first free
  block at or after the cursor is the first free block of all.
- `PayloadProofs`: `PayloadSafe` (`DoneIsOnDisk`, with `CursorPassesNothingFree`),
  `PayloadKeepsBytes` (`KeepsBytes`), `PayloadAdopts` (`AdoptsTheIntact`), `PayloadFails`
  (`OnlyWrongBlocksFail`) and `PayloadImplements` (`ImplementsTracker`), for any list of
  files, piece and block length, and wrong blocks. The argument has three layers.
  Arithmetic: the walk of `piece_spans` covers each byte of a piece once, in the file
  that holds it (`Spans`), and the blocks tile the piece (`BlocksTile`). Bytes:
  reading a piece over its spans gives the true bytes just when each is in its place
  (`ReadBack`), and neither a write of true bytes over a span (`Putting`) nor an
  allocation (`Allocating`) moves a byte that is in place. State: `PayloadInv`. It adds
  to `DoneIsOnDisk` that queued and written pieces are true (`WritesFit`: a hash matched),
  that a write under way has put in place all that its remaining spans do not cover
  (so that its last span completes the piece), and that the buffer holds the truth
  wherever a block was received, unless a wrong one was taken (`FetchFits`). The walk is a
  recursion over the files: `Induction`, from the well-foundedness of `<`, and
  `Recursion`, that such a definition defines a function, are proved at the head of the
  module and used for `Offsets` and `Walks`.
- `SessionProofs`: one theorem for each invariant of run `session`, and `TypeOK`.
  `IInv` adds that a pending request is for a known block
  and that endgame is on once every piece is started. As every handler ends in
  `Refill`, the proof is cut there: each handler leaves its intermediate books
  `Ready`, and `Refill` turns `Ready` into `IInv'`. `PeersAreFed` (`NoIdlePeer`) follows
  the same cut: `Refill` feeds whomever it is called for, and whoever it is not called
  for stays fed, since a handler that does not refill everybody gives back no block, but
  for pieces that failed.
- `DownloadProofs`: `TypeOK`, `VerifiedIsAccountedFor` and `OnlyOutsideStopDrops` from
  one `IInv`, which ties the session's phase, its token and the disk task's phase
  together: the disk task stops only for a cancelled token, and a token is cancelled
  only by a stop or after the last write; and the session has awaited all writes once it
  publishes its end. `NoResurrection`
  (`OnlyForwarderResurrects`) needs no invariant. `LastingCompletion`
  (`CompletionSticks`) rests on `CompletionReachesRecord`: a completion is unseen,
  or about to be written, or written.
  `FeedImplementsDownload` (every step of the feed is a step of
  `Download` or a stutter, so its theorems hold with a browser beside it) and
  `RowsAreTrue` (`RowIsTrue`) are in the same module. Their invariant, `ShownIsTrue`, speaks
  of what the row will be when the event under way has come: it may differ from the
  server's listing only while something is still to be broadcast, or for a reason
  `RowIsTrue` names.
- `MagnetProofs`: one theorem for each invariant of run `magnet`, and `TypeOK`. `IInv`
  adds that only pieces within the size are assigned, that whoever can be asked has
  told the size, and how far task, list, record and removal may be out of step
  (`Placeholder`). `PiecesAreAskedFor` (`NoPieceIsOverlooked`) rests on the call of
  `request_metadata_pieces` that ends a handler: it leaves no free piece, unless the
  channel it asks through is full (`RequestsOverlookNothing`).
- `DhtProofs`: `TypeOK`, `BucketsWellFormed`, `QueryIsHeard`, and `StartReturns` (a
  start has returned or its bootstrap is at work), which no run repeats. `IInv` adds
  that the table loaded from the saved file would be well formed, that every query
  sent has an address, and that a lookup awaits exactly the queries of its round.
  The hard lemma is that inserting keeps every bucket within K, by cardinalities of
  the bucket before and after a replacement. Two action properties follow:
  `OldNodesStay` (`OnlyBadGiveWay`), because marking an answer or a failure drops no
  node and inserting drops one only for being bad, and `NobodyIsAskedTwice`
  (`NeverAskedAgain`), because a candidate never returns to "unknown" within a lookup,
  and an idle lookup remembers nobody.
- `TranscodeProofs`: `TypeOK`, `TranscodingHasAJob`, `TokensAreLive` and
  `OnlyExposedLoseTheirFile`, for any number of entries, outputs shared in any way,
  jobs, requests and permits. `IInv` has two parts. `Flow` is who holds what: the
  channel has exactly the queued jobs, a job that has not reached ffmpeg has written
  nothing, a token is a live job's, and an entry that is transcoding has a job that
  will still see this when it ends (`WillEnd`): a job that has already read another
  state would let it be. `Disk` is about paths and files. Copies may be written over
  their entry at any time, so what it says of an entry it says of every copy a task
  holds (`AllKnowable`): the paths are the entry's own source and output, and while an
  entry of that title is not `exposed`, an output that is known of is finished. Of
  such an output, one job at most runs for it (`OneWriter`), and the file is there as
  far as that job has come (`OutputFollowsJob`). Tasks unlink only a source that its
  entry no longer plays (`OwnUnlinks`), so a source that is played is there
  (`SourcesStay`), but for entries whose `media_file` was put back.
- `LibraryProofs`: every invariant of run `library`, for any number of films, entries,
  requests and tasks: `LibraryIsTyped` (`TypeOK`), `WritesAreKept` (`NothingIsUndone`),
  `EntriesPlay` (`EntriesArePlayable`, but for the films its `misled` names, an output
  lost to a failed job among them), `OneOwner` (`FilesHaveOneOwner`) and `FilmsKept`
  (`FilmsSurvive`). There are two layers.
  The core of `IInv` is `UpToDate`: what a task has read of an entry agrees with the
  store on film and play position, or the task has been told that it is `outdated`;
  the same for a lookup's copy. Every write to an entry is therefore either by one who
  is up to date, or makes its film `misled`. The type part needs that a subtitle's
  number never exceeds the requests made, and that the sets in an entry are finite.
  `Safe` says which files belong to whom. An entry `Owns` what the store says it plays,
  but while a migration has moved its files and not yet written the entry, it owns
  what the migration will write, and while a deletion is half done nothing, as long as
  its film is `Fair`: not `misled`, nor in the hands of a task that has been overtaken
  and is therefore bound to mislead it. What is owned is on disk and is that film's
  (`OwnedIsThere`) and has one owner (`OwnersDiffer`). These two are not inductive by
  themselves: a job is about to add what it wrote, so nobody else may own that
  (`WroteItsOwn`, `OutputsApart`); a clean-up unlinks a source after it repointed the
  entry, so nobody may own that source any more (`UnlinksItsOwn`); a migration moves
  at its end whatever is left in the old directory, so no entry it has been to may own
  a file there (`Migrates`); a scan adds files it found earlier (`ScansNew`). Each rests on
  `Remembers`: a task that was not told otherwise knows the very entry that is
  stored, but for the one it has in hand. One lemma per action shows what it changes
  (`Works`, `Kept`, `Gains`), and one for all of them that `Safe` then holds again.
  The initial state is `Safe` because of `LayoutAssumption`: the sources are different
  files, and none lies where an output would go.

Only model-checked:

- liveness (`Completes`, `CancelledSessionEnds`, `EndsUnlessHindered`,
  `EveryLookupEnds`, `EveryJobEnds`): fairness and `ENABLED` are out of the prover's
  reach.

Every invariant and action property of the passing runs is also proved.

## The plan

In order of what matters most, what is done first:

1. `PieceProgress`, `Session`, `Download`, with proofs: done.
2. `Transcode`, with proofs: done.
3. `Magnet`, with proofs: done.
4. `Dht` and `Payload`, with proofs: done.
5. `EventFeed` and `Library`, with proofs: done.
6. The peer pool: trackers and DHT as sources, `known_addrs`, half-open and
   connected limits, requeue, retry and backoff of announces, and the discovery
   tasks that outlive a magnet exchange.
7. Byte ranges of `web/api/media.rs` as operators.

Not modelled, and why: parsing, wire formats and serialisation (byte strings
without state), the choker (this client serves no blocks, so nothing depends on
it), requests to TMDB and ffprobe and the presets (outside services and tables),
the recognition of titles and episodes in file names (text heuristics, given to
`Library` by its layouts), directory listings, settings other than the transcode
directory, and the frontend but for a row of its list.
