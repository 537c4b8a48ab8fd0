------------------------------ MODULE Download ------------------------------
(***************************************************************************)
(* The concurrent download: the main loop of download_torrent, which       *)
(* announces to the trackers and starts one thread per peer, and the       *)
(* threads, which run downloadFromPeer on shared state.                    *)
(*                                                                         *)
(* A step is what a thread does between two points where another thread    *)
(* can see or change what it uses: a critical section of threadlock, one   *)
(* call on the shared file stream, one received message, one send.  The    *)
(* code has three kinds of shared access outside threadlock, and each is a *)
(* step of its own: the test of an empty queue and the pop after it, the   *)
(* seek and the write of a piece, and the reads of `downloaded' without    *)
(* the lock.  Those can fall between the two statements of the critical    *)
(* section that counts a piece, which is two steps for that reason.        *)
(*                                                                         *)
(* Undefined behaviour is a choice between the outcomes a build can show:  *)
(* front() of an empty deque reads a cell that nothing wrote, pop_front()  *)
(* then leaves its start one cell past its finish, and piece_no pushed     *)
(* before it was assigned is any integer (a piece number, or Wild).        *)
(*                                                                         *)
(* Every piece is whole and the torrent is one file, as with the           *)
(* debian.torrent the program opens: BlockPlan has the short last piece,   *)
(* FileLayout several files, Tracker the announce that is one step here.   *)
(***************************************************************************)
EXTENDS Integers, Sequences, FiniteSets

CONSTANTS
  Workers,      (* threads that can be alive at the same time              *)
  NumPieces,    (* trk_info.no_of_pieces                                   *)
  NumBlocks,    (* no_of_blocks: blocks in a piece                         *)
  QueueSize,    (* QUEUESIZE: blocks requested between two receives        *)
  MaxPeers,     (* bound: peers one announce returns                       *)
  Faults,       (* the faults the network and the peers may show           *)
  MaxFaults,    (* bound: how many faults happen in a behaviour            *)
  MaxDeficit    (* bound: pops of an empty deque before it leaves its node *)

FaultKinds == {"connect", "hangup", "send", "garbled", "late", "slow", "choke", "lacks",
               "stray", "request", "pause", "notracker"}

ASSUME DownloadAssumption ==
  /\ NumPieces \in Nat \ {0}
  /\ NumBlocks \in Nat \ {0}
  /\ QueueSize \in Nat \ {0}
  /\ MaxPeers \in Nat \ {0}
  /\ MaxFaults \in Nat
  /\ MaxDeficit \in Nat
  /\ IsFiniteSet(Workers)
  /\ Faults \subseteq FaultKinds

Pieces == 0 .. NumPieces - 1
Blocks == 0 .. NumBlocks - 1

(* An integer that is no piece number, read from memory nobody wrote. *)
Wild == -1
Numbers == Pieces \cup {Wild}

(* A block that did not arrive, and bytes that belong to no piece. *)
Empty == -2
Junk == -3

(* What a cell of block_placeholder holds: block b of the piece named. *)
Cells == Pieces \cup {Empty, Junk}

VARIABLES
  pieces_to_download,  (* pieces::pieces_to_download, the shared deque     *)
  deficit,             (* how far its start has run past its finish        *)
  downloaded,          (* url_params::downloaded                           *)
  havemesslist,        (* pieces::havemesslist                             *)
  pieces_disk,         (* pieces::pieces_disk, as the set of ones          *)
  left,                (* url_params::left, in pieces                      *)
  file,                (* the output file, block by block                  *)
  fpos,                (* position of the shared std::fstream              *)
  ffail,               (* its failbit                                      *)
  mainpc,              (* where the main thread is                         *)
  due,                 (* more than 900 s since trk_info.latestcall        *)
  to_spawn,            (* entries of peer_ip_port_map still to be started  *)
  process,             (* "up", or how the process ended                   *)
  pc,                  (* where each thread is                             *)
  piece_no,            (* the local piece_no of each thread                *)
  peerdata,            (* peer_info and the other locals of each thread    *)
  undefined,           (* history: an undefined value was used as a piece  *)
  displaced,           (* history: a piece was written off its place       *)
  faults               (* history: faults so far                           *)

queueVars == <<pieces_to_download, deficit>>
countVars == <<downloaded, havemesslist, left>>
fileVars == <<file, fpos, ffail>>
mainVars == <<mainpc, due, to_spawn>>
sharedVars == <<queueVars, countVars, pieces_disk, fileVars, mainVars, process>>
historyVars == <<undefined, displaced>>
vars == <<sharedVars, pc, piece_no, peerdata, historyVars, faults>>

-----------------------------------------------------------------------------
(* The states of a thread.  Receiving: the recv loop and processMessage    *)
(* after the handshake, after INTERESTED and after a batch of requests.    *)
(* Holding: the thread alone answers for piece_no.                         *)

Receiving == {"hello", "interested", "batch"}
Holding == {"request", "batch", "assemble", "seek", "write", "count", "list",
            "putback", "giveback"}
Locations == Receiving \cup Holding \cup
             {"idle", "start", "sendinterested", "while", "check", "pop", "mark",
              "farewell", "closing"}

Live(w) == pc[w] # "idle"

(* threadlock is free: a thread at "list" has counted its piece and not    *)
(* released the lock, and every other critical section waits for it.       *)
Unlocked == \A w \in Workers : pc[w] # "list"

(* The value of serving between two requests of the peer. *)
NotServing == -1

(* peer_info as downloadFromPeer sets it up, with the locals batch_start   *)
(* (the i of the request loop) and block_piece, and two history fields:    *)
(* have_base, the first value of no_of_havesent, and told, the HAVE        *)
(* messages sent.  idle: more than 120 s since latest_comms.               *)
FreshSession(sent) ==
  [pieces_have |-> {}, choked_client |-> TRUE, idle |-> TRUE,
   block_placeholder |-> [b \in Blocks |-> Empty],
   block_piece |-> [b \in Blocks |-> Empty],
   batch_start |-> 0, serving |-> NotServing, no_of_havesent |-> sent,
   have_base |-> sent, told |-> {}]

(* The file has room for the displaced writes of every thread. *)
FileCells == 0 .. (NumPieces + Cardinality(Workers)) * NumBlocks - 1
Blank == <<Empty, 0>>

Goto(w, from, to) == /\ process = "up"
                     /\ pc[w] = from
                     /\ pc' = [pc EXCEPT ![w] = to]

(* close and return: the locals are gone, and the std::thread has ended. *)
Leave(w, from) == /\ Goto(w, from, "idle")
                  /\ piece_no' = [piece_no EXCEPT ![w] = Wild]
                  /\ peerdata' = [peerdata EXCEPT ![w] = FreshSession(0)]

(* The thread goes on with its locals changed to session. *)
Continue(w, from, to, session) ==
  /\ Goto(w, from, to)
  /\ peerdata' = [peerdata EXCEPT ![w] = session]
  /\ UNCHANGED piece_no

Costs(kind) == /\ kind \in Faults
               /\ faults < MaxFaults
               /\ faults' = faults + 1

(* What happens for free when ok, and as a fault otherwise. *)
Charge(ok, kind) == IF ok THEN UNCHANGED faults ELSE Costs(kind)

-----------------------------------------------------------------------------
(* The deque.                                                              *)

QueueEmpty == pieces_to_download = <<>> /\ deficit = 0

(* push_back: with the start past the finish the item lands in front of    *)
(* the start, where nothing will read it.                                  *)
PushBack(p) ==
  IF deficit > 0
  THEN deficit' = deficit - 1 /\ UNCHANGED pieces_to_download
  ELSE pieces_to_download' = Append(pieces_to_download, p) /\ UNCHANGED deficit

(* Mutant: front() with pop_back(). *)
PopBack(w) ==
  /\ pieces_to_download # <<>>
  /\ piece_no' = [piece_no EXCEPT ![w] = Head(pieces_to_download)]
  /\ pieces_to_download' = SubSeq(pieces_to_download, 1, Len(pieces_to_download) - 1)
  /\ UNCHANGED <<deficit, undefined>>

(* front() and pop_front() of a deque that holds something. *)
PopFront(w) ==
  /\ pieces_to_download # <<>>
  /\ piece_no' = [piece_no EXCEPT ![w] = Head(pieces_to_download)]
  /\ pieces_to_download' = Tail(pieces_to_download)
  /\ UNCHANGED <<deficit, undefined>>

(* front() and pop_front() of a deque that holds nothing. *)
PopNothing(w) ==
  /\ pieces_to_download = <<>>
  /\ deficit < MaxDeficit
  /\ \E g \in Numbers : piece_no' = [piece_no EXCEPT ![w] = g]
  /\ deficit' = deficit + 1
  /\ undefined' = TRUE
  /\ UNCHANGED pieces_to_download

-----------------------------------------------------------------------------
(* The messages a thread sends about completed pieces.                     *)

(* Mutant: the loop stops one short. *)
NewHavesButOne(w) ==
  { havemesslist[k] : k \in peerdata[w].no_of_havesent + 2 .. Len(havemesslist) }

(* The loop takes havemesslist.at(size - i - 1) for i < size - z. *)
NewHaves(w) ==
  { havemesslist[k] : k \in peerdata[w].no_of_havesent + 1 .. Len(havemesslist) }

(* no_of_havesent after that loop. *)
HavesSent(w) ==
  IF Len(havemesslist) > peerdata[w].no_of_havesent
  THEN Len(havemesslist) ELSE peerdata[w].no_of_havesent

AnnounceHaves(w, sent) ==
  [peerdata[w] EXCEPT !.no_of_havesent = HavesSent(w),
                      !.told = IF sent THEN @ \cup NewHaves(w) ELSE @]

-----------------------------------------------------------------------------
(* The file stream.  A write or a read on a stream with failbit does       *)
(* nothing, and neither does a seek.                                       *)

FileEnd ==
  LET used == { c \in FileCells : file[c] # Blank }
  IN  IF used = {} THEN 0 ELSE 1 + CHOOSE c \in used : \A d \in used : d <= c

(* Mutant: pieces numbered from one. *)
SlotFromOne(p) == (p + 1) * NumBlocks

(* position * BLOCKSIZE * 16, in blocks. *)
SlotOf(p) == p * NumBlocks

StreamSeek(cell) == /\ fpos' = IF ffail THEN fpos ELSE cell
                    /\ UNCHANGED <<file, ffail>>

StreamWrite(data) ==
  IF ffail THEN UNCHANGED fileVars
  ELSE /\ file' = [c \in FileCells |->
                     IF c \in fpos .. fpos + NumBlocks - 1
                     THEN <<data[c - fpos], c - fpos>> ELSE file[c]]
       /\ fpos' = fpos + NumBlocks
       /\ UNCHANGED ffail

(* Reading a block past the end sets eofbit and failbit. *)
StreamRead ==
  /\ ffail' = (ffail \/ fpos >= FileEnd)
  /\ fpos' = IF ffail \/ fpos >= FileEnd THEN fpos ELSE fpos + 1
  /\ UNCHANGED file

-----------------------------------------------------------------------------
(* The main thread.                                                        *)

(* More than 900 seconds have passed since the last announce. *)
TimePasses ==
  /\ process = "up" /\ ~due
  /\ due' = TRUE
  /\ UNCHANGED <<queueVars, countVars, pieces_disk, fileVars, mainpc, to_spawn,
                 process, pc, piece_no, peerdata, historyVars, faults>>

(* The loop's condition, with its unlocked read of `downloaded'. *)
MainAnnounce ==
  /\ process = "up" /\ mainpc = "loop"
  /\ due /\ downloaded # NumPieces
  /\ mainpc' = "tracker"
  /\ UNCHANGED <<queueVars, countVars, pieces_disk, fileVars, due, to_spawn,
                 process, pc, piece_no, peerdata, historyVars, faults>>

(* handleTracker returns with the map filled, and latestcall is taken. *)
TrackersAnswer(n) ==
  /\ process = "up" /\ mainpc = "tracker"
  /\ to_spawn' = n
  /\ mainpc' = "spawn"
  /\ due' = FALSE
  /\ UNCHANGED <<queueVars, countVars, pieces_disk, fileVars, process, pc,
                 piece_no, peerdata, historyVars, faults>>

(* handleTracker ends the process, whatever the threads do: it found no    *)
(* peer and calls exit(0), or a reply made it throw.                       *)
TrackersSilent ==
  /\ process = "up" /\ mainpc = "tracker"
  /\ Costs("notracker")
  /\ process' = "exited"
  /\ UNCHANGED <<queueVars, countVars, pieces_disk, fileVars, mainVars, pc,
                 piece_no, peerdata, historyVars>>

(* Mutant: the loop runs one entry past the end. *)
SpawnPastEnd(w) ==
  /\ process = "up" /\ mainpc = "spawn" /\ to_spawn >= 0
  /\ ~Live(w)
  /\ pc' = [pc EXCEPT ![w] = "start"]
  /\ to_spawn' = to_spawn - 1
  /\ UNCHANGED <<queueVars, countVars, pieces_disk, fileVars, mainpc, due,
                 process, piece_no, peerdata, historyVars, faults>>

(* threads.push_back(std::thread(downloadFromPeer, ...)). *)
Spawn(w) ==
  /\ process = "up" /\ mainpc = "spawn" /\ to_spawn > 0
  /\ ~Live(w)
  /\ pc' = [pc EXCEPT ![w] = "start"]
  /\ to_spawn' = to_spawn - 1
  /\ UNCHANGED <<queueVars, countVars, pieces_disk, fileVars, mainpc, due,
                 process, piece_no, peerdata, historyVars, faults>>

(* peer_ip_port_map.clear(), and around the loop. *)
SpawnedAll ==
  /\ process = "up" /\ mainpc = "spawn" /\ to_spawn = 0
  /\ mainpc' = "loop"
  /\ UNCHANGED <<queueVars, countVars, pieces_disk, fileVars, due, to_spawn,
                 process, pc, piece_no, peerdata, historyVars, faults>>

-----------------------------------------------------------------------------
(* A thread, up to the download loop.                                      *)

(* Locals, the unlocked read of `downloaded', tcpconnectNB, the handshake  *)
(* and the comparison of the info hash.                                    *)
Connect(w) ==
  /\ \/ Continue(w, "start", "hello", FreshSession(downloaded)) /\ UNCHANGED faults
     \/ Leave(w, "start") /\ Costs("connect")
  /\ UNCHANGED <<sharedVars, historyVars>>

(* processMessage takes latest_comms when it returns SUCCESS. *)
Heard(w, status) == [peerdata[w] EXCEPT !.idle = @ /\ status # "SUCCESS"]

(* processMessage of what came with the handshake: only BITFIELDFAILURE    *)
(* ends the session, a FAILURE goes on.                                    *)
HelloDone(w, status) ==
  /\ peerdata[w].serving < 0
  /\ IF status = "BITFIELDFAILURE" THEN Leave(w, "hello")
     ELSE Continue(w, "hello", "sendinterested", Heard(w, status))
  /\ Charge(status = "SUCCESS", "garbled")
  /\ UNCHANGED <<sharedVars, historyVars>>

(* The peer sent its handshake and nothing else. *)
HelloSilent(w) ==
  /\ peerdata[w] = FreshSession(peerdata[w].have_base)
  /\ Continue(w, "hello", "sendinterested", peerdata[w])
  /\ UNCHANGED <<sharedVars, historyVars, faults>>

(* With EPIPE the thread pushes piece_no, which nothing has set yet. *)
SendInterested(w) ==
  /\ \/ /\ Continue(w, "sendinterested", "interested", peerdata[w])
        /\ UNCHANGED <<queueVars, undefined, faults>>
     \/ /\ Leave(w, "sendinterested")
        /\ Costs("hangup")
        /\ \/ /\ Unlocked
              /\ \E g \in Numbers : PushBack(g)
              /\ undefined' = TRUE
           \/ UNCHANGED <<queueVars, undefined>>
  /\ UNCHANGED <<countVars, pieces_disk, fileVars, mainVars, process, displaced>>

(* A peer that answers in time has unchoked us and has named its pieces;   *)
(* the thread waits one second for that, and never again.                  *)
Welcome(w) == ~peerdata[w].choked_client /\ peerdata[w].pieces_have = Pieces

(* Here both failures of processMessage end the session. *)
InterestedDone(w, status) ==
  /\ peerdata[w].serving < 0
  /\ IF status = "SUCCESS"
     THEN Continue(w, "interested", "while", Heard(w, status)) /\ Charge(Welcome(w), "late")
     ELSE Leave(w, "interested") /\ Costs("garbled")
  /\ UNCHANGED <<sharedVars, historyVars>>

-----------------------------------------------------------------------------
(* The messages processMessage handles, while pc[w] is in Receiving.  Those *)
(* that set only fields nothing reads (INTERESTED, NOT_INTERESTED) or       *)
(* nothing at all (CANCEL, PORT) are left out.                              *)

Receives(w) == /\ process = "up"
               /\ pc[w] \in Receiving
               /\ peerdata[w].serving < 0
               /\ UNCHANGED <<sharedVars, pc, piece_no, historyVars>>

OnKeepAlive(w) ==
  /\ Receives(w)
  /\ peerdata' = [peerdata EXCEPT ![w].idle = FALSE]
  /\ UNCHANGED faults

OnChoke(w) ==
  /\ Receives(w)
  /\ peerdata' = [peerdata EXCEPT ![w].choked_client = TRUE]
  /\ Costs("choke")

OnUnchoke(w) ==
  /\ Receives(w)
  /\ peerdata' = [peerdata EXCEPT ![w].choked_client = FALSE]
  /\ UNCHANGED faults

(* A seed has named every piece in its bitfield, and has no use for HAVE.  *)
OnHave(w, p) ==
  /\ Receives(w)
  /\ peerdata' = [peerdata EXCEPT ![w].pieces_have = @ \cup {p}]
  /\ Costs("lacks")

OnBitfield(w, S) ==
  /\ Receives(w)
  /\ peerdata' = [peerdata EXCEPT ![w].pieces_have = S]
  /\ Charge(S = Pieces, "lacks")

(* The blocks the request loop has asked for since peer_send_str was       *)
(* emptied: it is not emptied between two batches.                         *)
Requested(w) == { b \in Blocks : b < peerdata[w].batch_start + QueueSize }

(* The handler files the block by its offset alone; the piece index in the *)
(* message is not looked at, so a late or stray block lands here too.      *)
OnPiece(w, b, cell) ==
  /\ Receives(w)
  /\ peerdata' = [peerdata EXCEPT ![w].block_placeholder[b] = cell]
  /\ Charge(pc[w] = "batch" /\ b \in Requested(w) /\ cell = piece_no[w], "stray")

(* createPieceMessage moves the position of the shared stream, then reads. *)
OnRequest(w, cell) ==
  /\ process = "up" /\ pc[w] \in Receiving /\ peerdata[w].serving < 0
  /\ StreamSeek(cell)
  /\ peerdata' = [peerdata EXCEPT ![w].serving = cell]
  /\ Costs("request")
  /\ UNCHANGED <<queueVars, countVars, pieces_disk, mainVars, process, pc,
                 piece_no, historyVars>>

ServeBlock(w) ==
  /\ process = "up" /\ pc[w] \in Receiving /\ peerdata[w].serving >= 0
  /\ StreamRead
  /\ peerdata' = [peerdata EXCEPT ![w].serving = NotServing]
  /\ UNCHANGED <<queueVars, countVars, pieces_disk, mainVars, process, pc,
                 piece_no, historyVars, faults>>

-----------------------------------------------------------------------------
(* The download loop.                                                      *)

(* Mutant: nothing ends the loop but its returns. *)
WhileTrue(w) ==
  /\ Unlocked
  /\ Continue(w, "while", "check", peerdata[w])
  /\ UNCHANGED <<sharedVars, historyVars, faults>>

(* whileStatus. *)
WhileStatus(w) ==
  /\ Unlocked
  /\ LET to == IF ~QueueEmpty /\ downloaded < NumPieces THEN "check" ELSE "farewell"
     IN  Continue(w, "while", to, peerdata[w])
  /\ UNCHANGED <<sharedVars, historyVars, faults>>

(* queueIsEmpty, a second critical section.  Over an empty queue the       *)
(* thread waits in a loop for at most two minutes of silence, and over a   *)
(* queue that holds something it leaves when the peer chokes it.           *)
CheckQueue(w) ==
  /\ Unlocked
  /\ \/ QueueEmpty /\ peerdata[w].idle /\ Leave(w, "check")
     \/ QueueEmpty /\ ~peerdata[w].idle /\ Continue(w, "check", "while", peerdata[w])
     \/ ~QueueEmpty /\ peerdata[w].choked_client /\ Leave(w, "check")
     \/ ~QueueEmpty /\ ~peerdata[w].choked_client /\ Continue(w, "check", "pop", peerdata[w])
  /\ UNCHANGED <<sharedVars, historyVars, faults>>

(* A third critical section takes the front, then pieces_have is tested;   *)
(* pieces_have[Wild] is out of bounds and may read as anything.            *)
TakePiece(w) ==
  /\ Unlocked
  /\ PopFront(w) \/ PopNothing(w)
  /\ \/ piece_no'[w] \in peerdata[w].pieces_have \cup {Wild} /\ Goto(w, "pop", "request")
     \/ piece_no'[w] \notin peerdata[w].pieces_have /\ Goto(w, "pop", "putback")
  /\ peerdata' = [peerdata EXCEPT ![w].batch_start = 0]
  /\ UNCHANGED <<countVars, pieces_disk, fileVars, mainVars, process, displaced,
                 faults>>

(* The pop of an empty deque, or an index out of bounds, kills the process. *)
Crash(w) ==
  /\ process = "up"
  /\ \/ pc[w] = "pop" /\ pieces_to_download = <<>> /\ Unlocked
     \/ pc[w] \in Holding /\ piece_no[w] = Wild
  /\ process' = "crashed"
  /\ undefined' = TRUE
  /\ UNCHANGED <<queueVars, countVars, pieces_disk, fileVars, mainVars, pc,
                 piece_no, peerdata, displaced, faults>>

(* One turn of the request loop: the HAVE messages under threadlock, then  *)
(* the send of everything in peer_send_str.                                *)
SendRequests(w) ==
  /\ Unlocked
  /\ \/ Continue(w, "request", "batch", AnnounceHaves(w, TRUE)) /\ UNCHANGED faults
     \/ Continue(w, "request", "giveback", AnnounceHaves(w, FALSE)) /\ Costs("send")
  /\ UNCHANGED <<sharedVars, historyVars>>

(* Every block of the batch has come, or no peer can have the piece. *)
Answered(w) ==
  \/ piece_no[w] = Wild
  \/ \A b \in Requested(w) : peerdata[w].block_placeholder[b] = piece_no[w]

(* Mutant: the request loop steps one block too far. *)
BatchSkips(w, status) ==
  /\ peerdata[w].serving < 0
  /\ LET next == peerdata[w].batch_start + QueueSize + 1
         to   == IF next < NumBlocks THEN "request" ELSE "assemble"
     IN  IF status = "FAILURE" THEN Continue(w, "batch", "putback", Heard(w, status))
         ELSE Continue(w, "batch", to, [Heard(w, status) EXCEPT !.batch_start = next])
  /\ IF status = "SUCCESS" THEN Charge(Answered(w), "slow") ELSE Costs("garbled")
  /\ UNCHANGED <<sharedVars, historyVars>>

(* The end of a receive: only FAILURE leaves the loop, a BITFIELDFAILURE   *)
(* goes on to the next batch like SUCCESS.                                 *)
BatchDone(w, status) ==
  /\ peerdata[w].serving < 0
  /\ LET next == peerdata[w].batch_start + QueueSize
         to   == IF next < NumBlocks THEN "request" ELSE "assemble"
     IN  IF status = "FAILURE" THEN Continue(w, "batch", "putback", Heard(w, status))
         ELSE Continue(w, "batch", to, [Heard(w, status) EXCEPT !.batch_start = next])
  /\ IF status = "SUCCESS" THEN Charge(Answered(w), "slow") ELSE Costs("garbled")
  /\ UNCHANGED <<sharedVars, historyVars>>

(* Mutant: the size alone. *)
SizeOnly(data, p) == \A b \in Blocks : data[b] # Empty

(* The size of block_piece and its SHA-1 against pieces_hash_vec. *)
Verified(data, p) == \A b \in Blocks : data[b] = p

(* block_placeholder is emptied here only, so a batch that failed leaves   *)
(* its blocks to the next piece.                                           *)
Assemble(w) ==
  LET data == peerdata[w].block_placeholder
  IN  /\ Goto(w, "assemble", IF Verified(data, piece_no[w]) THEN "seek" ELSE "putback")
      /\ peerdata' = [peerdata EXCEPT
           ![w].block_piece = data,
           ![w].block_placeholder = [b \in Blocks |-> Empty]]
      /\ UNCHANGED <<sharedVars, piece_no, historyVars, faults>>

(* Mutant: the piece is marked before it is written and counted. *)
SeekAndMark(w) ==
  /\ Goto(w, "seek", "write")
  /\ StreamSeek(SlotOf(piece_no[w]))
  /\ pieces_disk' = pieces_disk \cup {piece_no[w]}
  /\ UNCHANGED <<queueVars, countVars, mainVars, process, piece_no,
                 peerdata, historyVars, faults>>

(* writePieceToFile: seekp, then write, on the stream all threads share. *)
SeekPiece(w) ==
  /\ Goto(w, "seek", "write")
  /\ StreamSeek(SlotOf(piece_no[w]))
  /\ UNCHANGED <<queueVars, countVars, pieces_disk, mainVars, process, piece_no,
                 peerdata, historyVars, faults>>

WritePiece(w) ==
  /\ Goto(w, "write", "count")
  /\ StreamWrite(peerdata[w].block_piece)
  /\ displaced' = (displaced \/ fpos # SlotOf(piece_no[w]))
  /\ UNCHANGED <<queueVars, countVars, pieces_disk, mainVars, process, piece_no,
                 peerdata, undefined, faults>>

(* threadlock.lock() and url.downloaded++. *)
CountPiece(w) ==
  /\ Unlocked
  /\ Goto(w, "count", "list")
  /\ downloaded' = downloaded + 1
  /\ UNCHANGED <<queueVars, havemesslist, left, pieces_disk, fileVars, mainVars,
                 process, piece_no, peerdata, historyVars, faults>>

(* The entry for the HAVE messages, and threadlock.unlock(). *)
ListPiece(w) ==
  /\ Goto(w, "list", "mark")
  /\ havemesslist' = Append(havemesslist, piece_no[w])
  /\ UNCHANGED <<queueVars, downloaded, left, pieces_disk, fileVars, mainVars,
                 process, piece_no, peerdata, historyVars, faults>>

(* pieces_disk[piece_no] = 1, without the lock, and the two minutes. *)
MarkPiece(w) ==
  /\ IF peerdata[w].idle THEN Leave(w, "mark")
     ELSE Continue(w, "mark", "while", peerdata[w])
  /\ pieces_disk' = pieces_disk \cup {piece_no[w]}
  /\ UNCHANGED <<queueVars, countVars, fileVars, mainVars, process, historyVars,
                 faults>>

(* Mutants: a session that ends keeps its piece; a piece counts although   *)
(* it goes back.                                                           *)
ReturnIfStaying(w) ==
  /\ Unlocked
  /\ \/ Continue(w, "putback", "while", peerdata[w]) /\ PushBack(piece_no[w])
     \/ Leave(w, "giveback") /\ UNCHANGED queueVars
  /\ UNCHANGED <<countVars, pieces_disk, fileVars, mainVars, process, historyVars,
                 faults>>

ReturnCounted(w) ==
  /\ Unlocked
  /\ Continue(w, "putback", "while", peerdata[w]) \/ Leave(w, "giveback")
  /\ PushBack(piece_no[w])
  /\ downloaded' = downloaded + 1
  /\ UNCHANGED <<havemesslist, left, pieces_disk, fileVars, mainVars, process,
                 historyVars, faults>>

(* The piece goes back to the queue: the session goes on after a piece the *)
(* peer lacks, a FAILURE, a wrong size or a wrong hash, and ends after a   *)
(* send that failed.                                                       *)
ReturnPiece(w) ==
  /\ Unlocked
  /\ Continue(w, "putback", "while", peerdata[w]) \/ Leave(w, "giveback")
  /\ PushBack(piece_no[w])
  /\ UNCHANGED <<countVars, pieces_disk, fileVars, mainVars, process, historyVars,
                 faults>>

(* After the loop: the HAVE messages and NOT_INTERESTED. *)
Farewell(w) ==
  /\ Unlocked
  /\ \/ Continue(w, "farewell", "closing", AnnounceHaves(w, TRUE)) /\ UNCHANGED faults
     \/ Leave(w, "farewell") /\ Costs("send")
  /\ UNCHANGED <<sharedVars, historyVars>>

Close(w) == /\ Leave(w, "closing")
            /\ UNCHANGED <<sharedVars, historyVars, faults>>

(* More than 120 seconds pass without latest_comms being taken. *)
Pause(w) ==
  /\ process = "up" /\ Live(w) /\ ~peerdata[w].idle
  /\ peerdata' = [peerdata EXCEPT ![w].idle = TRUE]
  /\ Costs("pause")
  /\ UNCHANGED <<sharedVars, pc, piece_no, historyVars>>

-----------------------------------------------------------------------------
Statuses == {"SUCCESS", "FAILURE", "BITFIELDFAILURE"}

(* The session setup, the receives and the download loop of a thread. *)
Setup(w) == \/ Connect(w)
            \/ HelloSilent(w)
            \/ SendInterested(w)
            \/ \E s \in Statuses : HelloDone(w, s) \/ InterestedDone(w, s)

Message(w) ==
  \/ OnKeepAlive(w) \/ OnChoke(w) \/ OnUnchoke(w)
  \/ \E p \in Pieces : OnHave(w, p)
  \/ \E S \in SUBSET Pieces : OnBitfield(w, S)
  \/ \E b \in Blocks, cell \in Cells \ {Empty} : OnPiece(w, b, cell)
  \/ \E cell \in 0 .. NumPieces * NumBlocks - 1 : OnRequest(w, cell)
  \/ ServeBlock(w)

Loop(w) ==
  \/ WhileStatus(w) \/ CheckQueue(w) \/ TakePiece(w)
  \/ SendRequests(w) \/ \E s \in Statuses : BatchDone(w, s)
  \/ Assemble(w) \/ SeekPiece(w) \/ WritePiece(w) \/ CountPiece(w) \/ ListPiece(w)
  \/ MarkPiece(w) \/ ReturnPiece(w) \/ Farewell(w) \/ Close(w)

Main == \/ MainAnnounce
        \/ \E n \in 1 .. MaxPeers : TrackersAnswer(n)
        \/ TrackersSilent
        \/ \E w \in Workers : Spawn(w)
        \/ SpawnedAll

(* The loop of download_torrent never ends; a process that ended stays so. *)
Quiet == /\ \/ process # "up"
            \/ mainpc = "loop" /\ downloaded = NumPieces
         /\ UNCHANGED vars

Init ==
  /\ pieces_to_download = [k \in 1 .. NumPieces |-> k - 1]
  /\ deficit = 0
  /\ downloaded = 0
  /\ havemesslist = <<>>
  /\ pieces_disk = {}
  /\ left = NumPieces
  /\ file = [c \in FileCells |-> Blank]
  /\ fpos = 0
  /\ ffail = FALSE
  /\ mainpc = "loop"
  /\ due = TRUE
  /\ to_spawn = 0
  /\ process = "up"
  /\ pc = [w \in Workers |-> "idle"]
  /\ piece_no = [w \in Workers |-> Wild]
  /\ peerdata = [w \in Workers |-> FreshSession(0)]
  /\ undefined = FALSE
  /\ displaced = FALSE
  /\ faults = 0

Next == \/ TimePasses
        \/ Main
        \/ \E w \in Workers : Setup(w) \/ Message(w) \/ Loop(w) \/ Crash(w) \/ Pause(w)
        \/ Quiet

Spec == Init /\ [][Next]_vars

(* The threads are scheduled, the clock advances, and a peer outside its   *)
(* faults answers: the free messages of a receive come before its end.     *)
Fairness == /\ WF_vars(TimePasses)
            /\ WF_vars(Main)
            /\ \A w \in Workers : WF_vars(Setup(w) \/ Message(w) \/ Loop(w) \/ Crash(w))

FairSpec == Spec /\ Fairness

-----------------------------------------------------------------------------
(* Properties.                                                             *)

Sessions == [pieces_have : SUBSET Pieces, choked_client : BOOLEAN, idle : BOOLEAN,
             block_placeholder : [Blocks -> Cells], block_piece : [Blocks -> Cells],
             batch_start : Nat, serving : Int, no_of_havesent : Nat,
             have_base : Nat, told : SUBSET Numbers]

(* Every variable holds a value its declaration in the code allows. *)
TypeOK ==
  /\ pieces_to_download \in Seq(Numbers)
  /\ deficit \in Nat
  /\ downloaded \in Nat
  /\ havemesslist \in Seq(Numbers)
  /\ pieces_disk \subseteq Numbers
  /\ left = NumPieces
  /\ file \in [FileCells -> Cells \X Blocks]
  /\ fpos \in Int
  /\ ffail \in BOOLEAN
  /\ mainpc \in {"loop", "tracker", "spawn"}
  /\ due \in BOOLEAN
  /\ to_spawn \in 0 .. MaxPeers
  /\ process \in {"up", "exited", "crashed"}
  /\ pc \in [Workers -> Locations]
  /\ piece_no \in [Workers -> Numbers]
  /\ peerdata \in [Workers -> Sessions]
  /\ undefined \in BOOLEAN
  /\ displaced \in BOOLEAN
  /\ faults \in 0 .. MaxFaults

Queued(p) == \E k \in 1 .. Len(pieces_to_download) : pieces_to_download[k] = p
Held(w, p) == pc[w] \in Holding /\ piece_no[w] = p
Counted(p) == \E k \in 1 .. Len(havemesslist) : havemesslist[k] = p

(* No piece is lost: whatever a session meets on its way out, each piece   *)
(* is waiting in the queue, in the hands of a thread or counted.           *)
NoPieceLost ==
  ~undefined =>
    \A p \in Pieces : Queued(p) \/ Counted(p) \/ \E w \in Workers : Held(w, p)

(* No piece is in two places: never queued twice, given to two threads, or *)
(* fetched again once it is counted.                                       *)
NoPieceTwice ==
  ~undefined =>
    /\ \A j, k \in 1 .. Len(pieces_to_download) :
         pieces_to_download[j] = pieces_to_download[k] => j = k
    /\ \A j, k \in 1 .. Len(havemesslist) : havemesslist[j] = havemesslist[k] => j = k
    /\ \A v, w \in Workers, p \in Pieces : Held(v, p) /\ Held(w, p) => v = w
    /\ \A w \in Workers, p \in Pieces : Held(w, p) => ~Queued(p) /\ ~Counted(p)
    /\ \A p \in Pieces : ~(Queued(p) /\ Counted(p))

(* The books of the download agree: no pop has overrun the queue, the      *)
(* counter is the number of HAVE entries, and one ahead of them while a    *)
(* thread is between the two statements that count a piece (peer.cpp:415), *)
(* and only piece numbers go round.                                        *)
Accounts ==
  ~undefined =>
    /\ deficit = 0
    /\ downloaded = Len(havemesslist) + (IF Unlocked THEN 0 ELSE 1)
    /\ pieces_to_download \in Seq(Pieces)
    /\ havemesslist \in Seq(Pieces)
    /\ \A w \in Workers : pc[w] \in Holding => piece_no[w] \in Pieces

(* The threads keep the ledger of pieces: the refinement of PieceLedger.   *)
Todo == { p \in Pieces : Queued(p) }
Hand == [w \in Workers |-> IF pc[w] \in Holding THEN piece_no[w] ELSE Wild]
Done == { p \in Pieces : Counted(p) }

Ledger == INSTANCE PieceLedger WITH
  None <- Wild, todo <- Todo, hand <- Hand, done <- Done, broken <- undefined

(* Every step of the program is a step of the ledger: a piece that leaves  *)
(* the queue is in one thread's hands, comes back from there or is counted *)
(* by that thread, and a counted piece never moves again.                  *)
KeepsLedger == Ledger!Spec

(* The counter that ends the download reaches the number of pieces only    *)
(* when every piece has been counted and none is still being fetched; a    *)
(* read without the lock may find the HAVE entry of the last one missing.  *)
CompleteMeansAll ==
  ~undefined /\ downloaded >= NumPieces =>
    /\ \A p \in Pieces : Counted(p) \/ \E w \in Workers : pc[w] = "list" /\ piece_no[w] = p
    /\ pieces_to_download = <<>>
    /\ \A w \in Workers : pc[w] \in Holding => pc[w] = "list"

(* The file holds every block of every counted piece, verified and in its  *)
(* place.                                                                  *)
CountedStored ==
  \A p \in Pieces : Counted(p) =>
    \A b \in Blocks : file[p * NumBlocks + b] = <<p, b>>

(* The same for many threads: only a write after another thread moved the  *)
(* position of the stream, or a stream that failed, can spoil the file.    *)
StoredUnlessDisturbed == ~displaced /\ ~ffail => CountedStored

(* The bitfield offered to others never runs ahead of the file, and lags   *)
(* behind the counter by the threads that are about to mark their piece.   *)
BitfieldFollowsCount ==
  /\ pieces_disk \subseteq { havemesslist[k] : k \in 1 .. Len(havemesslist) }
  /\ \A p \in Pieces : Counted(p) /\ p \notin pieces_disk =>
       \E w \in Workers : pc[w] = "mark" /\ piece_no[w] = p

(* A thread that leaves its loop normally has told its peer, in HAVE       *)
(* messages, exactly the pieces completed since it connected.              *)
FarewellTellsAll ==
  [][\A w \in Workers :
       pc[w] = "farewell" /\ pc'[w] = "closing" =>
         peerdata'[w].told =
           { havemesslist[k] : k \in peerdata[w].have_base + 1 .. Len(havemesslist) }]_vars

(* Faults that come to an end do not stop the download, unless one ended   *)
(* the process, or cost a thread its peer's bitfield: that thread puts     *)
(* every piece back, and lives for ever with a peer it never asks.         *)
Unasked(w) == Live(w) /\ peerdata[w].pieces_have # Pieces

Completes == \/ <>(downloaded = NumPieces \/ process # "up")
             \/ <>[](\E w \in Workers : Unasked(w))

(* Once the counter has reached the total, every session comes to its end. *)
WindsDown ==
  \A w \in Workers : downloaded >= NumPieces /\ Live(w) ~> ~Live(w) \/ process # "up"

(* download.cpp:87 says of `left': "This has to be updated after each     *)
(* piece has been successfully downloaded".                                *)
LeftIsUpdated == [][downloaded' > downloaded => left' < left]_vars

(* peer.cpp:254, a test left in a comment, takes an empty queue and a full *)
(* counter for "DOWLOAD COMPLETE".                                         *)
EmptyAndFullIsComplete ==
  Unlocked /\ QueueEmpty /\ downloaded = NumPieces => \A p \in Pieces : Counted(p)

(* peer.cpp:421 says, where a piece has been counted: "SEND OUT A HAVE     *)
(* MESSAGE TO ALL THE PEERS".                                              *)
HaveReachesEveryPeer ==
  \A w \in Workers, k \in 1 .. NumPieces :
    /\ pc[w] \notin {"idle", "start"}
    /\ k > peerdata[w].have_base /\ k <= Len(havemesslist)
    ~> (Live(w) /\ k <= Len(havemesslist) => havemesslist[k] \in peerdata[w].told)
       \/ process # "up"
=============================================================================
