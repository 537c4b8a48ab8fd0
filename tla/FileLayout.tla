----------------------------- MODULE FileLayout -----------------------------
(***************************************************************************)
(* Where the bytes of a torrent lie in its files: writePieceToFile, which  *)
(* cuts a piece at the ends of the files it runs over, and                 *)
(* createPieceMessage, which puts a block together again, one turn of      *)
(* their loops a step.  Byte n of the torrent is the number n; whatever    *)
(* byte lies where this run of the program wrote none is a Hole.           *)
(*                                                                         *)
(* Both take the first byte of a piece to be its index times a number of   *)
(* blocks that is not the torrent's (writePieceToFile makes it 16), in int *)
(* arithmetic.  One call at a time: the race of two calls on a stream is   *)
(* Download's.  TorrentFiles takes the torrents from their metainfo.       *)
(***************************************************************************)
EXTENDS Integers, Sequences, FiniteSets

CONSTANTS
  BlockSize,    (* BLOCKSIZE                                               *)
  HardBlocks,   (* the 16 in writePieceToFile                              *)
  IntLimit      (* 2^31: the first number too large for an int             *)

ASSUME LayoutAssumption ==
  /\ BlockSize \in Nat \ {0}
  /\ HardBlocks \in Nat \ {0}
  /\ IntLimit \in Nat \ {0} /\ IntLimit % (HardBlocks * BlockSize) = 0

VARIABLES
  mode,          (* "SINGLE" or "MULTIPLE"                                 *)
  length_list,   (* tracker_info::length_list; <<length>> for one file     *)
  pieceLength,   (* tracker_info::pieceLength                              *)
  no_of_blocks,  (* the global                                             *)
  files,         (* the contents of the files                              *)
  failed,        (* the streams with failbit, which do nothing any more    *)
  on_disk,       (* the pieces written                                     *)
  op,            (* "none", "idle", "write", "read", "send", "undefined"   *)
  call,          (* what is written or read: piece, first byte, length     *)
  start_file,    (* the locals of the call                                 *)
  start,
  data           (* the rest of piece to write, or temp: what was read     *)

torrentVars == <<mode, length_list, pieceLength>>
diskVars == <<files, failed, on_disk>>
vars == <<torrentVars, no_of_blocks, diskVars, op, call, start_file, start, data>>

-----------------------------------------------------------------------------
Files == 1 .. Len(length_list)

(* Where each file begins in the torrent, the end behind the last, and     *)
(* length.                                                                 *)
len_culmulative[k \in 0 .. Len(length_list)] ==
  IF k = 0 THEN 0 ELSE len_culmulative[k - 1] + length_list[k]

length == len_culmulative[Len(length_list)]

no_of_pieces == (length + pieceLength - 1) \div pieceLength
Pieces == 0 .. no_of_pieces - 1
Rest == length % pieceLength

(* The bytes from the n-th on, m of them. *)
Bytes(n, m) == [k \in 1 .. m |-> n + k - 1]

PieceSize(p) == IF p = no_of_pieces - 1 /\ Rest # 0 THEN Rest ELSE pieceLength

(* position*no_of_blocks*BLOCKSIZE, as an int comes out of it. *)
InInt(n) == ((n + IntLimit) % (2 * IntLimit)) - IntLimit
FirstByte(p, blocks) == InInt(p * blocks * BlockSize)

Hole == -1

(* seekp and write: bytes at an offset, with a hole before it if need be. *)
Written(content, offset, bytes) ==
  LET stop == offset + Len(bytes)
  IN  [k \in 1 .. (IF stop > Len(content) THEN stop ELSE Len(content)) |->
         IF offset < k /\ k <= stop THEN bytes[k - offset]
         ELSE IF k <= Len(content) THEN content[k] ELSE Hole]

(* seekg and read: where the file has no byte, the buffer keeps what was   *)
(* in memory.                                                              *)
Read(content, offset, m) ==
  [k \in 1 .. m |-> IF offset + k <= Len(content) THEN content[offset + k] ELSE Hole]

(* Mutant: a file holds the byte after its last. *)
HoldsOneMore(f, n) == n <= len_culmulative[f]

Holds(f, n) == n < len_culmulative[f]

(* The search both functions begin with: the first file that ends after    *)
(* the n-th byte, and the byte as an offset into it.  Where there is none  *)
(* start_file is not set.                                                  *)
Locate(n, next) ==
  \/ /\ mode = "SINGLE"
     /\ start_file' = 1 /\ start' = n /\ op' = next
  \/ /\ mode = "MULTIPLE"
     /\ \E f \in Files :
          /\ Holds(f, n) /\ \A g \in 1 .. f - 1 : ~Holds(g, n)
          /\ start_file' = f /\ start' = n - len_culmulative[f - 1] /\ op' = next
  \/ /\ mode = "MULTIPLE"
     /\ \A f \in Files : ~Holds(f, n)
     /\ op' = "undefined" /\ UNCHANGED <<start_file, start>>

(* The last byte of the call lies in the current file: `end' in the code.  *)
Fits == mode = "SINGLE" \/ Holds(start_file, call.first + call.len - 1)

(* How many of the bytes still to come the current file takes. *)
Share(rest) == IF Fits THEN rest ELSE length_list[start_file] - start

(* The loop has gone past the last file and reads beyond its vectors. *)
OutOfFiles == start_file > Len(length_list)

(* Mutants: the next file is entered where this one was, or always; an     *)
(* empty file is not left.                                                 *)
NextFileAlways == start_file' = start_file + 1 /\ start' = 0

StayAtOffset == IF Fits THEN UNCHANGED <<start_file, start>>
                ELSE start_file' = start_file + 1 /\ UNCHANGED start

StayInEmpty == IF Fits \/ length_list[start_file] = 0 THEN UNCHANGED <<start_file, start>>
               ELSE start_file' = start_file + 1 /\ start' = 0

NextFile == IF Fits THEN UNCHANGED <<start_file, start>>
            ELSE start_file' = start_file + 1 /\ start' = 0

LosesItself == /\ op \in {"write", "read"} /\ OutOfFiles
               /\ op' = "undefined"
               /\ UNCHANGED <<torrentVars, no_of_blocks, diskVars, call, start_file,
                              start, data>>

(* A stream with failbit keeps it; a seek to a negative offset sets it.    *)
Stuck == start_file \in failed \/ start < 0

-----------------------------------------------------------------------------
(* dirfilecreation, after parseMetaFile.  A file that is there already is  *)
(* opened as it is, with the old[f] bytes it has.                          *)
Create(m, lengths, size, old) ==
  /\ op = "none"
  /\ mode' = m /\ length_list' = lengths /\ pieceLength' = size
  /\ no_of_blocks' = size \div BlockSize
  /\ files' = [f \in DOMAIN lengths |-> [k \in 1 .. old[f] |-> Hole]]
  /\ op' = "idle"
  /\ UNCHANGED <<failed, on_disk, call, start_file, start, data>>

(* writePieceToFile, called with a piece whose size and hash are right. *)
WritePiece(p) ==
  /\ op = "idle" /\ p \notin on_disk
  /\ no_of_blocks' = HardBlocks
  /\ data' = Bytes(p * pieceLength, PieceSize(p))
  /\ call' = [piece |-> p, first |-> FirstByte(p, HardBlocks), len |-> PieceSize(p)]
  /\ Locate(call'.first, "write")
  /\ UNCHANGED <<torrentVars, diskVars>>

(* A turn of its loop: the part of the piece that the current file takes.  *)
WritePart ==
  /\ op = "write" /\ ~OutOfFiles
  /\ LET n == Share(Len(data))
     IN  /\ files' = IF Stuck THEN files
                     ELSE [files EXCEPT ![start_file] = Written(@, start, SubSeq(data, 1, n))]
         /\ data' = SubSeq(data, n + 1, Len(data))
  /\ failed' = IF Stuck THEN failed \cup {start_file} ELSE failed
  /\ NextFile
  /\ op' = IF data' = <<>> THEN "idle" ELSE "write"
  /\ on_disk' = IF data' = <<>> THEN on_disk \cup {call.piece} ELSE on_disk
  /\ UNCHANGED <<torrentVars, no_of_blocks, call>>

(* Mutant: a last block of BLOCKSIZE bytes. *)
WholeBlock(p, begin) == BlockSize

(* The length of a block, as the handler of REQUEST has it. *)
BlockLength(p, begin) ==
  IF p = no_of_pieces - 1 /\ begin = (Rest \div BlockSize) * BlockSize
     /\ length % BlockSize # 0
  THEN length % BlockSize ELSE BlockSize

(* createPieceMessage, called for a block of a piece that was written. *)
ReadBlock(p, begin) ==
  /\ op = "idle" /\ p \in on_disk
  /\ data' = <<>>
  /\ call' = [piece |-> p, first |-> InInt(FirstByte(p, no_of_blocks) + begin),
              len |-> BlockLength(p, begin)]
  /\ Locate(call'.first, "read")
  /\ UNCHANGED <<torrentVars, no_of_blocks, diskVars>>

(* A turn of its loop: the part of the block that the current file has.    *)
(* What a stream that failed should have read was in memory before; a read *)
(* past the end of the file sets failbit.                                  *)
ReadPart ==
  /\ op = "read" /\ ~OutOfFiles
  /\ LET n == Share(call.len - Len(data))
     IN  /\ data' = data \o IF Stuck THEN [k \in 1 .. n |-> Hole]
                            ELSE Read(files[start_file], start, n)
         /\ failed' = IF Stuck \/ start + n > Len(files[start_file])
                      THEN failed \cup {start_file} ELSE failed
  /\ NextFile
  /\ op' = IF Len(data') < call.len THEN "read" ELSE "send"
  /\ UNCHANGED <<torrentVars, no_of_blocks, files, on_disk, call>>

Send == /\ op = "send"
        /\ op' = "idle"
        /\ data' = <<>>
        /\ UNCHANGED <<torrentVars, no_of_blocks, diskVars, call, start_file, start>>

-----------------------------------------------------------------------------
(* Before dirfilecreation. *)
Blank ==
  /\ mode = "SINGLE" /\ length_list = <<0>> /\ pieceLength = 1
  /\ no_of_blocks = HardBlocks
  /\ files = <<>>
  /\ failed = {}
  /\ on_disk = {}
  /\ op = "none"
  /\ call = [piece |-> 0, first |-> 0, len |-> 0]
  /\ start_file = 1
  /\ start = 0
  /\ data = <<>>

(* The loops, once begun. *)
Loops == WritePart \/ ReadPart \/ Send \/ LosesItself

Calls == \/ \E p \in Pieces : WritePiece(p)
         \/ \E p \in Pieces : \E b \in 0 .. pieceLength \div BlockSize - 1 :
              /\ b * BlockSize < PieceSize(p)
              /\ ReadBlock(p, b * BlockSize)

-----------------------------------------------------------------------------
(* The files by themselves: any torrent with a byte, opened once, over     *)
(* files that are there or not.                                            *)
Open ==
  \E m \in {"SINGLE", "MULTIPLE"}, lengths \in Seq(Nat), size \in Nat \ {0} :
    /\ \E f \in DOMAIN lengths : lengths[f] > 0
    /\ m = "SINGLE" => Len(lengths) = 1
    /\ \E old \in [DOMAIN lengths -> Nat] : Create(m, lengths, size, old)

LayoutNext == Open \/ Calls \/ Loops

LayoutSpec == Blank /\ [][LayoutNext]_vars

-----------------------------------------------------------------------------
(* What the code gets right: pieces of 16 blocks that begin below the      *)
(* limit of an int.                                                        *)
Placed(p) == pieceLength = HardBlocks * BlockSize /\ p * pieceLength < IntLimit
AllPlaced == \A p \in on_disk \cup {call.piece} : Placed(p)

(* Every variable holds a value its declaration in the code allows, and    *)
(* start_file indexes a file; past the last it goes for a piece that is    *)
(* not placed.                                                             *)
TypeOK ==
  /\ mode \in {"SINGLE", "MULTIPLE"}
  /\ length_list \in Seq(Nat)
  /\ pieceLength \in Nat \ {0}
  /\ no_of_blocks \in Nat
  /\ \A f \in DOMAIN files : files[f] \in Seq((0 .. length - 1) \cup {Hole})
  /\ failed \subseteq Files
  /\ on_disk \subseteq Pieces
  /\ op \in {"none", "idle", "write", "read", "send", "undefined"}
  /\ call.piece \in Nat /\ call.len \in 0 .. pieceLength
  /\ call.first \in -IntLimit .. IntLimit - 1
  /\ IF AllPlaced THEN start_file \in Files ELSE start_file \in 1 .. Len(length_list) + 1
  /\ start \in -IntLimit .. IntLimit - 1
  /\ data \in Seq((0 .. length - 1) \cup {Hole})

(* At any time, also between two turns of a loop, and as long as only such *)
(* pieces were written: no byte is written beyond the length the metainfo  *)
(* gives a file, and none is put anywhere but in the file and at the       *)
(* offset where the files, laid end to end, have it; whatever was in the   *)
(* files before.                                                           *)
NothingMisplaced ==
  AllPlaced =>
    \A f \in DOMAIN files : \A k \in 1 .. Len(files[f]) :
      files[f][k] # Hole =>
        k <= length_list[f] /\ files[f][k] = len_culmulative[f - 1] + k - 1

(* All of the piece lies where the program has written it, in its place. *)
Stored(p) ==
  \A k \in 0 .. PieceSize(p) - 1 :
    LET n == p * pieceLength + k
    IN  \E f \in Files : \E j \in 1 .. Len(files[f]) :
          files[f][j] = n /\ len_culmulative[f - 1] + j - 1 = n

(* As long as only such pieces were written each of them is in the files,  *)
(* all of it; and a torrent with any other piece has not been put into the *)
(* files when all of it was written.                                       *)
PiecesStored ==
  op # "undefined" =>
    /\ AllPlaced => \A p \in on_disk : Stored(p)
    /\ on_disk = Pieces /\ Cardinality(Pieces) > 1 =>
         ((\A p \in Pieces : Stored(p)) <=> (\A p \in Pieces : Placed(p)))

(* What is sent for a block is the block. *)
BlockSent ==
  AllPlaced /\ op = "send" =>
    \E b \in 0 .. HardBlocks - 1 :
      LET first == call.piece * pieceLength + b * BlockSize
          rest  == PieceSize(call.piece) - b * BlockSize
      IN  call.first = first /\ data = Bytes(first, IF rest < BlockSize THEN rest ELSE BlockSize)

(* A write and a read come to their end, over empty files too; the loops   *)
(* run past the last file only for a piece that is not placed.             *)
LoopsEnd == op \in {"write", "read", "send"} ~> op = "idle" \/ ~AllPlaced
=============================================================================
