------------------------------- MODULE Payload -------------------------------
(***************************************************************************)
(* The bytes of one torrent, from blocks to files and back: piece lengths   *)
(* and the spans a piece covers in the files (disk/mapping.rs), the buffer   *)
(* of a piece being fetched (piece/picker.rs), the hash check                *)
(* (piece/store.rs), allocation and writes that fail half-way (disk/io.rs)   *)
(* and the adoption of what a restart finds (engine/resume.rs).              *)
(*                                                                         *)
(* A byte of the torrent is its position, so a byte out of place shows; no   *)
(* true byte is Zero or Junk, so a hash matches exactly the true bytes.      *)
(* One piece is followed block by block through PieceProgress, once; the     *)
(* other pieces' data arrives whole and true.                                *)
(***************************************************************************)
EXTENDS PieceProgress, Integers, Sequences

CONSTANTS
  BLOCK_SIZE,
  PieceLength,
  Layouts,     \* sequences of file lengths; a single file is one length
  BadBlocks,   \* <<offset, length>> of blocks with wrong data
  MaxStarts    \* bound: sessions, each ended by a crash but the last

ASSUME PayloadAssumption ==
  /\ BLOCK_SIZE \in Nat \ {0} /\ PieceLength \in Nat \ {0}
  /\ \A l \in 1 .. Len(Layouts) : Layouts[l] \in Seq(Nat) /\ Layouts[l] # <<>>
  /\ BadBlocks \subseteq Nat \X Nat
  /\ Block \cup {b[1] \div BLOCK_SIZE : b \in BadBlocks} \subseteq Index
  /\ MaxStarts \in Nat

VARIABLES
  lengths,     \* the torrent's layout
  piece,       \* the piece followed
  following,   \* whether it is in progress
  data,        \* PieceProgress.data of that piece
  sound,       \* no wrong block of it was accepted
  have,        \* PiecePicker.have
  queue,       \* verified pieces whose write has not begun: WritePiece commands
  writing,     \* the write under way, or Idle
  present,     \* the files that exist
  files,       \* their bytes
  spoiled,     \* pieces of `have` whose write failed
  up, starts

fetchVars == <<piece, following, data, sound>>
diskVars == <<queue, writing, present, files, spoiled>>
payloadVars == <<vars, lengths, fetchVars, have, diskVars, up, starts>>

Zero == -1
Junk == -2
Idle == [piece |-> -1, bytes |-> <<>>, rest |-> <<>>]
NoBytes == [i \in {} |-> Zero]

Least(m, n) == IF m <= n THEN m ELSE n
Most(m, n) == IF m <= n THEN n ELSE m
CeilDiv(m, n) == (m + n - 1) \div n

-----------------------------------------------------------------------------
(* Layout arithmetic.  NumPieces: parse_info accepts no other count.         *)
File == DOMAIN lengths
Offset[f \in 0 .. Len(lengths)] == IF f = 0 THEN 0 ELSE Offset[f - 1] + lengths[f]
Before(f) == Offset[f - 1]
TotalLength == Offset[Len(lengths)]
NumPieces == CeilDiv(TotalLength, PieceLength)
Piece == 0 .. NumPieces - 1

(* Mutant: every piece is taken to be full.                                  *)
FullLength(p) == PieceLength

(* actual_piece_length of the picker and piece_len of the resume code.       *)
ActualPieceLength(p) ==
  LET remainder == TotalLength % PieceLength
  IN  IF p = NumPieces - 1 /\ remainder # 0 THEN remainder ELSE PieceLength
PieceLen(p) ==
  LET remainder == TotalLength % PieceLength
  IN  IF p + 1 = NumPieces /\ remainder # 0 THEN remainder ELSE PieceLength

BlocksOf(p) == CeilDiv(ActualPieceLength(p), BLOCK_SIZE)
BlockLength(b) ==
  LET remainder == ActualPieceLength(piece) % BLOCK_SIZE
  IN  IF b = NumBlocks - 1 /\ remainder # 0 THEN remainder ELSE BLOCK_SIZE

(* One turn of the loop of piece_spans, at file f.  `at` is the data_offset   *)
(* that the loops of read_piece_blocking and write_piece_blocking reach.     *)
Spanned(walk, f) ==
  LET taken == Least(walk.remaining, lengths[f] - (walk.offset - Before(f)))
  IN  IF \/ walk.remaining = 0
         \/ walk.offset >= Before(f) + lengths[f]
         \/ walk.offset < Before(f)
      THEN walk
      ELSE [offset |-> walk.offset + taken,
            remaining |-> walk.remaining - taken,
            at |-> walk.at + taken,
            spans |-> Append(walk.spans,
                             [file |-> f, offset |-> walk.offset - Before(f),
                              length |-> taken, at |-> walk.at])]

PieceStart(p) == p * PieceLength
PieceEnd(p) == Least(PieceStart(p) + PieceLength, TotalLength)
Walk(p) ==
  LET walk[f \in 0 .. Len(lengths)] ==
        IF f = 0
        THEN [offset |-> PieceStart(p), remaining |-> PieceEnd(p) - PieceStart(p),
              at |-> 0, spans |-> <<>>]
        ELSE Spanned(walk[f - 1], f)
  IN  walk
PieceSpans(p) == Walk(p)[Len(lengths)].spans

-----------------------------------------------------------------------------
Truth(p) ==
  [i \in 0 .. ActualPieceLength(p) - 1 |-> PieceStart(p) + i]

(* Mutant: whatever was assembled is taken for the piece.                    *)
Trusts(p, bytes) == TRUE

Verify(p, bytes) == bytes = Truth(p)

(* What seeking to `offset` and writing leaves; a hole reads as zeros.       *)
Written(old, offset, bytes) ==
  LET end == offset + Cardinality(DOMAIN bytes)
  IN  [i \in 0 .. Most(Cardinality(DOMAIN old), end) - 1 |->
         IF i \in offset .. end - 1 THEN bytes[i - offset]
         ELSE IF i \in DOMAIN old THEN old[i] ELSE Zero]

(* Mutant: the file is opened with truncate(true).                           *)
Emptied(old, length) == [i \in 0 .. length - 1 |-> Zero]

Resized(old, length) ==
  [i \in 0 .. length - 1 |-> IF i \in DOMAIN old THEN old[i] ELSE Zero]

(* read_piece succeeds when every span can be read in full.                  *)
Readable(p, there, disk) ==
  \A k \in DOMAIN PieceSpans(p) :
    LET s == PieceSpans(p)[k]
    IN  s.file \in there /\ s.offset + s.length <= Cardinality(DOMAIN disk[s.file])

ReadPiece(p, length, disk) ==
  LET spans == PieceSpans(p)
      Covers(k, i) == i \in spans[k].at .. spans[k].at + spans[k].length - 1
  IN  [i \in 0 .. length - 1 |->
         IF \E k \in DOMAIN spans : Covers(k, i)
         THEN LET s == spans[CHOOSE k \in DOMAIN spans : Covers(k, i)]
              IN  disk[s.file][s.offset + i - s.at]
         ELSE Zero]

VerifyOnDisk(there, disk) ==
  {p \in Piece : /\ Readable(p, there, disk)
                 /\ Verify(p, ReadPiece(p, PieceLen(p), disk))}

PayloadInit ==
  /\ Init
  /\ \E l \in 1 .. Len(Layouts) : lengths = Layouts[l]
  /\ piece \in {p \in Piece : BlocksOf(p) = NumBlocks}
  /\ following = TRUE
  /\ data = [i \in 0 .. ActualPieceLength(piece) - 1 |-> Zero]
  /\ sound = TRUE
  /\ have = {}
  /\ queue = {}
  /\ writing = Idle
  /\ present = {}
  /\ files = [f \in File |-> NoBytes]
  /\ spoiled = {}
  /\ up = FALSE
  /\ starts = 0

(* A session begins: files are created and given their size, which may fail  *)
(* for a file, at most one each time here, at either step; then what was on  *)
(* disk before is adopted.                                                   *)
Start ==
  /\ ~ up
  /\ starts < MaxStarts
  /\ up' = TRUE
  /\ starts' = starts + 1
  /\ \E failing \in SUBSET File : \E created \in {File, File \ failing} :
       /\ Cardinality(failing) <= 1
       /\ present' = present \cup created
       /\ files' = [f \in File |-> IF f \in failing THEN files[f]
                                   ELSE Resized(files[f], lengths[f])]
  /\ have' = IF present = {} THEN {} ELSE VerifyOnDisk(present', files')
  /\ UNCHANGED <<vars, lengths, fetchVars, queue, writing, spoiled>>

(* The process dies; a write it was at may be torn, see WriteFails.  Dying   *)
(* within the followed piece leaves what dying before its first block does,  *)
(* so only the latter is a step.                                             *)
Crash ==
  /\ up
  /\ following => blocks_assigned = [b \in Block |-> FALSE]
  /\ up' = FALSE
  /\ following' = FALSE
  /\ data' = NoBytes
  /\ have' = {}
  /\ queue' = {}
  /\ writing' = Idle
  /\ spoiled' = {}
  /\ UNCHANGED <<vars, lengths, piece, sound, present, files, starts>>

(* While the engine is down somebody deletes, cuts, grows or alters a file.  *)
Tamper(f) ==
  /\ ~ up
  /\ starts \in 1 .. MaxStarts - 1
  /\ f \in present
  /\ \/ /\ present' = present \ {f}
        /\ files' = [files EXCEPT ![f] = NoBytes]
     \/ /\ \E bytes \in {[i \in 0 .. lengths[f] \div 2 - 1 |-> Junk],
                         Resized(files[f], lengths[f] + 1)} :
             files' = [files EXCEPT ![f] = bytes]
        /\ UNCHANGED present
  /\ UNCHANGED <<vars, lengths, fetchVars, have, queue, writing, spoiled, up,
                 starts>>

-----------------------------------------------------------------------------
GoodBlocks ==
  {[offset |-> b * BLOCK_SIZE, length |-> BlockLength(b), right |-> TRUE] :
     b \in Block}
WrongBlocks ==
  {[offset |-> b[1], length |-> b[2], right |-> FALSE] : b \in BadBlocks}

(* Mutant: a repeated block is copied as well.                               *)
CopiedAnyway(block, fresh) ==
  LET end == block.offset + block.length
  IN  IF end <= Cardinality(DOMAIN data)
      THEN [i \in DOMAIN data |->
              IF i \notin block.offset .. end - 1 THEN data[i]
              ELSE IF block.right THEN Truth(piece)[i] ELSE Junk]
      ELSE data

(* A block that would run past the piece is marked but not copied.           *)
Copied(block, fresh) ==
  LET end == block.offset + block.length
  IN  IF fresh /\ end <= Cardinality(DOMAIN data)
      THEN [i \in DOMAIN data |->
              IF i \notin block.offset .. end - 1 THEN data[i]
              ELSE IF block.right THEN Truth(piece)[i] ELSE Junk]
      ELSE data

(* Nothing compares a block with what was asked for.                         *)
BlockReceived(block) ==
  /\ up /\ following
  /\ ~ IsComplete(received_count)
  /\ MarkReceived(block.offset \div BLOCK_SIZE)
  /\ LET copied == Copied(block, answer'.fresh)
         verified == Verify(piece, copied)
     IN  /\ sound' = (sound /\ (answer'.fresh => block.right))
         /\ following' = ~ answer'.complete
         /\ data' = IF answer'.complete THEN NoBytes ELSE copied
         /\ IF answer'.complete /\ verified
            THEN /\ have' = have \cup {piece}
                 /\ queue' = queue \cup {[piece |-> piece, bytes |-> copied]}
            ELSE UNCHANGED <<have, queue>>
  /\ UNCHANGED <<lengths, piece, writing, present, files, spoiled, up, starts>>

BlockAsked ==
  /\ up /\ following
  /\ \/ AssignNextBlock
     \/ \E b \in Index : MarkUnassigned(b)
  /\ UNCHANGED <<lengths, fetchVars, have, diskVars, up, starts>>

OtherPieceVerified(p) ==
  /\ up
  /\ p \notin have
  /\ following => p # piece
  /\ have' = have \cup {p}
  /\ queue' = queue \cup {[piece |-> p, bytes |-> Truth(p)]}
  /\ UNCHANGED <<vars, lengths, fetchVars, writing, present, files, spoiled,
                 up, starts>>

-----------------------------------------------------------------------------
BeginWrite(w) ==
  /\ writing = Idle
  /\ queue' = queue \ {w}
  /\ writing' = [piece |-> w.piece, bytes |-> w.bytes,
                 rest |-> PieceSpans(w.piece)]
  /\ UNCHANGED <<vars, lengths, fetchVars, have, present, files, spoiled, up,
                 starts>>

(* The first n bytes of the span reach its file.                             *)
Puts(span, n) ==
  /\ present' = present \cup {span.file}
  /\ files' = [files EXCEPT ![span.file] =
                 Written(@, span.offset,
                         [i \in 0 .. n - 1 |-> writing.bytes[span.at + i]])]

WriteSpan ==
  /\ writing # Idle
  /\ LET span == Head(writing.rest)
     IN  Puts(span, span.length)
  /\ writing' = IF Len(writing.rest) = 1 THEN Idle
                ELSE [writing EXCEPT !.rest = Tail(@)]
  /\ UNCHANGED <<vars, lengths, fetchVars, have, queue, spoiled, up, starts>>

(* Nobody but the log hears of it: the piece stays in `have`.                *)
WriteFails ==
  /\ writing # Idle
  /\ \/ UNCHANGED <<present, files>>
     \/ LET span == Head(writing.rest)
        IN  \E n \in 0 .. span.length - 1 : Puts(span, n)
  /\ spoiled' = spoiled \cup {writing.piece}
  /\ writing' = Idle
  /\ UNCHANGED <<vars, lengths, fetchVars, have, queue, up, starts>>

PayloadNext ==
  \/ Start
  \/ Crash
  \/ \E f \in File : Tamper(f)
  \/ \E block \in GoodBlocks \cup WrongBlocks : BlockReceived(block)
  \/ BlockAsked
  \/ \E p \in Piece : OtherPieceVerified(p)
  \/ \E w \in queue : BeginWrite(w)
  \/ WriteSpan
  \/ WriteFails

PayloadSpec == PayloadInit /\ [][PayloadNext]_payloadVars

-----------------------------------------------------------------------------
(* Where a position of the torrent lies, told from the lengths alone.        *)
InPlace(f, i) == files[f][i] = Before(f) + i
Intact(p) ==
  \A n \in PieceStart(p) .. PieceEnd(p) - 1 :
    \E f \in present :
      /\ n - Before(f) \in DOMAIN files[f]
      /\ n - Before(f) < lengths[f]
      /\ InPlace(f, n - Before(f))

(* A piece the engine counts as done is on disk, every byte in its place in  *)
(* its file, or still queued for the disk task, or its write has failed:     *)
(* no other piece, junk block, allocation or earlier life spoils it.         *)
DoneIsOnDisk ==
  \A p \in have :
    \/ Intact(p)
    \/ p \in spoiled \cup {writing.piece}
    \/ \E w \in queue : w.piece = p

(* A byte of the torrent that has reached its place stays there, whatever    *)
(* session, crash, failed allocation or torn write follows.                  *)
KeepsBytes ==
  [][up \/ up' =>
       \A f \in present : \A i \in DOMAIN files[f] :
         (i < lengths[f] /\ InPlace(f, i)) =>
           /\ f \in present'
           /\ i \in DOMAIN files'[f]
           /\ files'[f][i] = files[f][i]]_payloadVars

(* A restart adopts the pieces that are whole on disk, all of them and no    *)
(* others, after any crash, torn write, failed allocation or tampering.      *)
AdoptsTheIntact ==
  [][~ up /\ up' => have' = {p \in Piece : Intact(p)'}]_payloadVars

(* A piece whose accepted blocks were all true passes its hash check, in     *)
(* whatever order and with whatever repeated and misplaced blocks it came.   *)
OnlyWrongBlocksFail ==
  [][following /\ ~ following' /\ up' /\ sound' => piece \in have']_payloadVars
=============================================================================
