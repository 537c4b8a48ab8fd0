----------------------------- MODULE BlockPlan ------------------------------
(***************************************************************************)
(* How downloadFromPeer asks for the blocks of one piece, batch by batch,  *)
(* and decides by its size whether it has the piece: the arithmetic of the *)
(* last piece, which may be shorter than the others.  Download takes every *)
(* piece to be whole; here the length of the torrent is any number.        *)
(*                                                                         *)
(* One thread and one peer.  The peer serves what the torrent holds and    *)
(* ignores a request for anything else.  It may be late, and a message may *)
(* be garbled: then the thread puts the piece back and pops another one,   *)
(* with the cells of block_placeholder as they are.                        *)
(*                                                                         *)
(* The loop is bounded by the global no_of_blocks, which is the torrent's  *)
(* until the first call of writePieceToFile, by any thread, makes it 16.   *)
(***************************************************************************)
EXTENDS Integers

CONSTANTS
  BlockSize,    (* BLOCKSIZE                                               *)
  NumsOfBlocks, (* bound: pieceLength / BLOCKSIZE                          *)
  HardBlocks,   (* the 16 of writePieceToFile                              *)
  QueueSize,    (* QUEUESIZE                                               *)
  MaxPieces,    (* bound: pieces of the torrent                            *)
  MaxAttempts   (* bound: pieces popped in a behaviour                     *)

ASSUME PlanAssumption ==
  /\ BlockSize \in Nat \ {0}
  /\ NumsOfBlocks \subseteq Nat \ {0} /\ NumsOfBlocks # {}
  /\ HardBlocks \in Nat \ {0}
  /\ QueueSize \in Nat \ {0}
  /\ MaxPieces \in Nat \ {0}
  /\ MaxAttempts \in Nat

VARIABLES
  length,             (* tracker_info::length                              *)
  num_blocks,         (* tracker_info::pieceLength / BLOCKSIZE             *)
  no_of_blocks,       (* the global                                        *)
  piece_no,           (* the piece being fetched                           *)
  i,                  (* the first block of the batch                      *)
  j,                  (* the requests the batch has so far                 *)
  blocker,            (* the size asked for last                           *)
  requested,          (* <<block, size>> of the requests in peer_send_str  *)
  block_placeholder,  (* the piece and the size of what each cell holds    *)
  outcome,            (* "none", "written" or "putback"                    *)
  pc,                 (* "request", "batch", "size" or "end"               *)
  late,               (* history: a block did not come, or came garbled    *)
  stale,              (* history: cells the piece has no block for were    *)
                      (* full when it was popped                           *)
  limit,              (* history: no block from here on was asked for      *)
  held,               (* history: blocks of piece_no that the cells held   *)
                      (* when it was popped                                *)
  cut,                (* history: it was HardBlocks when piece_no was      *)
                      (* popped                                            *)
  attempts            (* history: pieces popped so far                     *)

torrentVars == <<length, num_blocks>>
vars == <<torrentVars, no_of_blocks, piece_no, i, j, blocker, requested,
          block_placeholder, outcome, pc, late, stale, limit, held, cut, attempts>>

-----------------------------------------------------------------------------
Blocks == 0 .. num_blocks - 1
pieceLength == num_blocks * BlockSize

(* ceil((double)length / pieceLength). *)
no_of_pieces == (length + pieceLength - 1) \div pieceLength

(* length % pieceLength, where the last piece is not whole. *)
Rest == length % pieceLength
ShortPiece(p) == p = no_of_pieces - 1 /\ Rest # 0

(* What the torrent holds: the bytes of block b of piece p. *)
TrueSize(p, b) ==
  IF ~ShortPiece(p) \/ (b + 1) * BlockSize <= Rest THEN BlockSize
  ELSE IF b * BlockSize < Rest THEN Rest - b * BlockSize ELSE 0

TrueBlocks(p) == { b \in Blocks : TrueSize(p, b) > 0 }

(* Mutant: the block after the one the comparison means. *)
ShortBlockLate(p, b) == ShortPiece(p) /\ b = Rest \div BlockSize + 1

(* The block the loop stops at: (i+j+1) == Rest / BLOCKSIZE + 1. *)
ShortBlock(p, b) == ShortPiece(p) /\ b + 1 = Rest \div BlockSize + 1

(* Mutant: the rest of the piece instead of the rest of the block. *)
RestAsked(p, b) == IF ~ShortBlock(p, b) THEN BlockSize ELSE Rest

(* blocker for block b of piece p. *)
SizeAsked(p, b) ==
  IF ~ShortBlock(p, b) \/ length % BlockSize = 0 THEN BlockSize
  ELSE length % BlockSize

(* Mutant: the inner loop does not look at no_of_blocks. *)
RoomUnbounded == j < QueueSize

(* What each turn of the inner loop asks; no_of_blocks is read again every *)
(* time, without the lock.                                                 *)
Room == j < QueueSize /\ i + j < no_of_blocks

NoCell == [piece |-> 0, size |-> 0]
Emptied == [b \in Blocks |-> NoCell]

-----------------------------------------------------------------------------
(* The piece is popped; block_placeholder keeps what it held. *)
Pop(p) ==
  /\ pc = "end"
  /\ attempts < MaxAttempts
  /\ piece_no' = p
  /\ i' = 0 /\ j' = 0
  /\ requested' = {}
  /\ outcome' = "none"
  /\ pc' = "request"
  /\ late' = FALSE
  /\ cut' = (no_of_blocks = HardBlocks)
  /\ held' = { b \in TrueBlocks(p) : block_placeholder[b] = [piece |-> p, size |-> TrueSize(p, b)] }
  /\ stale' = (\E b \in Blocks \ TrueBlocks(p) : block_placeholder[b].size > 0)
  /\ attempts' = attempts + 1
  /\ UNCHANGED <<torrentVars, no_of_blocks, blocker, block_placeholder, limit>>

(* A turn of the inner loop.  The break at the short block leaves the      *)
(* inner loop only, since isLastPiece==1 assigns nothing.                  *)
Request ==
  /\ pc = "request" /\ Room
  /\ requested' = requested \cup {<<i + j, SizeAsked(piece_no, i + j)>>}
  /\ blocker' = SizeAsked(piece_no, i + j)
  /\ limit' = i + j + 1
  /\ IF ShortBlock(piece_no, i + j) THEN pc' = "batch" /\ UNCHANGED j
     ELSE j' = j + 1 /\ UNCHANGED pc
  /\ UNCHANGED <<torrentVars, no_of_blocks, piece_no, i, block_placeholder, outcome,
                 late, stale, held, cut, attempts>>

(* The batch is full, or no_of_blocks is reached; by now there may be less *)
(* of it than when it was compared with i.                                 *)
SendBatch ==
  /\ pc = "request" /\ ~Room
  /\ pc' = "batch"
  /\ UNCHANGED <<torrentVars, no_of_blocks, piece_no, i, j, blocker, requested,
                 block_placeholder, outcome, late, stale, limit, held, cut, attempts>>

(* The peer serves a request for bytes the torrent has, and processMessage *)
(* files the block by its offset.                                          *)
Serve(b) ==
  /\ pc = "batch"
  /\ <<b, TrueSize(piece_no, b)>> \in requested
  /\ block_placeholder' = [block_placeholder EXCEPT ![b] =
                             [piece |-> piece_no, size |-> TrueSize(piece_no, b)]]
  /\ UNCHANGED <<torrentVars, no_of_blocks, piece_no, i, j, blocker, requested, outcome,
                 pc, late, stale, limit, held, cut, attempts>>

(* The end of a receive with SUCCESS: the next batch, or the size. *)
EndBatch ==
  /\ pc = "batch"
  /\ i' = i + QueueSize /\ j' = 0
  /\ pc' = IF i' < no_of_blocks THEN "request" ELSE "size"
  /\ late' = (late \/ \E b \in TrueBlocks(piece_no) :
                        /\ <<b, TrueSize(piece_no, b)>> \in requested
                        /\ block_placeholder[b] # [piece |-> piece_no,
                                                   size |-> TrueSize(piece_no, b)])
  /\ UNCHANGED <<torrentVars, no_of_blocks, piece_no, blocker, requested,
                 block_placeholder, outcome, stale, limit, held, cut, attempts>>

(* FAILURE: the piece goes back, and the cells stay full. *)
Fail ==
  /\ pc = "batch"
  /\ late' = TRUE
  /\ outcome' = "putback"
  /\ pc' = "end"
  /\ UNCHANGED <<torrentVars, no_of_blocks, piece_no, i, j, blocker, requested,
                 block_placeholder, stale, limit, held, cut, attempts>>

(* The size of block_piece when the first n cells have been appended. *)
Appended[n \in 0 .. num_blocks] ==
  IF n = 0 THEN 0 ELSE Appended[n - 1] + block_placeholder[n - 1].size

Downloaded == Appended[num_blocks]

(* Mutant: the last piece is compared like the others. *)
WholeExpected == pieceLength

(* What the code compares it with. *)
SizeExpected ==
  IF ShortPiece(piece_no) THEN (Rest \div BlockSize) * BlockSize + blocker ELSE pieceLength

(* Every byte is the byte of the torrent: what SHA-1 tells. *)
HashMatches ==
  \A b \in Blocks : IF b \in TrueBlocks(piece_no)
                    THEN block_placeholder[b] = [piece |-> piece_no,
                                                 size |-> TrueSize(piece_no, b)]
                    ELSE block_placeholder[b].size = 0

(* block_piece is put together, block_placeholder emptied, and the size    *)
(* and the hash decide.                                                    *)
CheckSize ==
  /\ pc = "size"
  /\ outcome' = IF Downloaded = SizeExpected /\ HashMatches THEN "written" ELSE "putback"
  /\ no_of_blocks' = IF outcome' = "written" THEN HardBlocks ELSE no_of_blocks
  /\ block_placeholder' = Emptied
  /\ pc' = "end"
  /\ UNCHANGED <<torrentVars, piece_no, i, j, blocker, requested, late, stale, limit, held,
                 cut, attempts>>

(* Another thread writes a piece, also between two turns of the loop. *)
OtherWrites ==
  /\ no_of_blocks # HardBlocks
  /\ no_of_blocks' = HardBlocks
  /\ UNCHANGED <<torrentVars, piece_no, i, j, blocker, requested, block_placeholder, outcome,
                 pc, late, stale, limit, held, cut, attempts>>

(* The bound on attempts is reached. *)
Finished == pc = "end" /\ attempts = MaxAttempts /\ UNCHANGED vars

-----------------------------------------------------------------------------
Init ==
  /\ num_blocks \in NumsOfBlocks
  /\ length \in 1 .. MaxPieces * pieceLength
  /\ no_of_blocks = num_blocks
  /\ limit = 0
  /\ held = {}
  /\ cut = FALSE
  /\ piece_no = 0
  /\ i = 0 /\ j = 0
  /\ blocker = 0
  /\ requested = {}
  /\ block_placeholder = Emptied
  /\ outcome = "none"
  /\ pc = "end"
  /\ late = FALSE
  /\ stale = FALSE
  /\ attempts = 0

Next == \/ \E p \in 0 .. no_of_pieces - 1 : Pop(p)
        \/ Request \/ SendBatch
        \/ \E b \in Blocks : Serve(b)
        \/ EndBatch \/ Fail
        \/ CheckSize
        \/ OtherWrites
        \/ Finished

Spec == Init /\ [][Next]_vars

-----------------------------------------------------------------------------
(* Every variable holds a value its declaration in the code allows. *)
TypeOK ==
  /\ num_blocks \in NumsOfBlocks
  /\ length \in 1 .. MaxPieces * pieceLength
  /\ no_of_blocks \in {num_blocks, HardBlocks} /\ limit \in Nat
  /\ piece_no \in 0 .. MaxPieces - 1
  /\ i \in Nat /\ j \in 0 .. QueueSize
  /\ blocker \in 0 .. BlockSize
  /\ requested \subseteq Nat \X (1 .. BlockSize)
  /\ block_placeholder \in [Blocks -> [piece : 0 .. MaxPieces - 1, size : 0 .. BlockSize]]
  /\ outcome \in {"none", "written", "putback"}
  /\ pc \in {"request", "batch", "size", "end"}
  /\ late \in BOOLEAN /\ stale \in BOOLEAN /\ held \subseteq Blocks /\ cut \in BOOLEAN
  /\ attempts \in 0 .. MaxAttempts

(* By the time the size is checked every block of the piece has been asked *)
(* for with the size it has in the torrent, whatever the length is and     *)
(* whenever no_of_blocks was set, unless it is below the torrent's.        *)
CoversPiece ==
  pc = "size" /\ no_of_blocks >= num_blocks =>
    \A b \in TrueBlocks(piece_no) : <<b, TrueSize(piece_no, b)>> \in requested

(* The first block of the last batch that had any. *)
LastBegin == ((limit - 1) \div QueueSize) * QueueSize

(* The pieces the code can finish: those whose blocks all lie below the    *)
(* limit, or are there from an earlier attempt; and a short one only if    *)
(* its short block lies in the last batch, for then blocker is its size.   *)
Finishable(p) ==
  /\ \A b \in TrueBlocks(p) : b < limit \/ b \in held
  /\ ShortPiece(p) => /\ Rest % BlockSize # 0
                      /\ Rest \div BlockSize \in LastBegin .. limit - 1

(* With a peer that served every request in time, and no cells left over   *)
(* where the piece has no block, exactly those pieces are written.         *)
WrittenIfFinishable ==
  outcome # "none" /\ ~late =>
    (outcome = "written" <=> Finishable(piece_no) /\ ~stale)

(* After the first write of any thread (helper.cpp:139) a whole piece of   *)
(* more than 16 blocks is written only by a thread that has its last       *)
(* blocks from an attempt begun before.                                    *)
SixteenBlocks ==
  cut /\ outcome = "written" /\ ~ShortPiece(piece_no) =>
    \A b \in TrueBlocks(piece_no) : b < HardBlocks \/ b \in held

(* README.md:2 calls the program a "BitTorrent Application based on the    *)
(* Version 1 Specification", in which the last piece has any length: a     *)
(* piece of 16 blocks that came whole and in time is not put back.         *)
WholePieceIsWritten ==
  outcome = "putback" => late \/ stale \/ num_blocks # HardBlocks
=============================================================================
