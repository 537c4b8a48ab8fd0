--------------------------- MODULE DownloadProofs ---------------------------
(* Theorems about Download, for every value of its constants. *)
EXTENDS Download, SequenceTheorems, FiniteSetTheorems, TLAPS

(* What the assumption on the constants says of the derived sets. *)
LEMMA ConstantFacts ==
  /\ NumPieces \in Nat /\ NumPieces > 0
  /\ NumBlocks \in Nat /\ NumBlocks > 0
  /\ QueueSize \in Nat /\ QueueSize > 0
  /\ MaxPeers \in Nat /\ MaxFaults \in Nat /\ MaxDeficit \in Nat
  /\ Blank \in Cells \X Blocks
  /\ FileCells \subseteq Int
  /\ Pieces \subseteq Nat /\ Blocks \subseteq Nat /\ Numbers \subseteq Int
BY DownloadAssumption DEF Blank, Cells, Blocks, FileCells, Pieces, Numbers, Wild

(* The place of a piece in the file is an integer. *)
LEMMA SlotType == ASSUME NEW p \in Numbers
                  PROVE  SlotOf(p) \in Int
<1>1. p \in Int /\ NumBlocks \in Int BY ConstantFacts
<1>2. p * NumBlocks \in Int BY <1>1
<1> QED BY <1>2 DEF SlotOf

(* A session as downloadFromPeer sets it up is a session. *)
LEMMA FreshType == ASSUME NEW sent \in Nat
                   PROVE  FreshSession(sent) \in Sessions
BY DEF FreshSession, Sessions, Cells, NotServing

(* A thread moves to a place of the code. *)
LEMMA GotoType ==
  ASSUME TypeOK, NEW w \in Workers, NEW from, NEW to \in Locations, Goto(w, from, to)
  PROVE  /\ pc' \in [Workers -> Locations]
         /\ pc' = [pc EXCEPT ![w] = to] /\ pc[w] = from /\ process = "up"
BY DEF Goto, TypeOK

(* A thread that returns keeps the types of its locals. *)
LEMMA LeaveType ==
  ASSUME TypeOK, NEW w \in Workers, NEW from, Leave(w, from)
  PROVE  /\ pc' \in [Workers -> Locations]
         /\ piece_no' \in [Workers -> Numbers]
         /\ peerdata' \in [Workers -> Sessions]
BY FreshType DEF Leave, Goto, TypeOK, Numbers, Locations

(* A thread that goes on with other locals keeps their types. *)
LEMMA ContinueType ==
  ASSUME TypeOK, NEW w \in Workers, NEW from, NEW to \in Locations,
         NEW session \in Sessions, Continue(w, from, to, session)
  PROVE  /\ pc' \in [Workers -> Locations]
         /\ piece_no' \in [Workers -> Numbers]
         /\ peerdata' \in [Workers -> Sessions]
BY DEF Continue, Goto, TypeOK

(* The bound on faults is kept, at a price or for free. *)
LEMMA FaultsType ==
  ASSUME TypeOK, NEW kind, NEW ok, Costs(kind) \/ Charge(ok, kind)
  PROVE  faults' \in 0 .. MaxFaults
BY ConstantFacts DEF Costs, Charge, TypeOK

(* push_back keeps the deque a sequence of numbers. *)
LEMMA PushBackType ==
  ASSUME TypeOK, NEW p \in Numbers, PushBack(p)
  PROVE  pieces_to_download' \in Seq(Numbers) /\ deficit' \in Nat
<1>1. pieces_to_download \in Seq(Numbers) /\ deficit \in Nat BY DEF TypeOK
<1>2. CASE deficit > 0 BY <1>1, <1>2 DEF PushBack
<1>3. CASE ~(deficit > 0) BY <1>1, <1>3 DEF PushBack
<1> QED BY <1>2, <1>3

(* The loop over havemesslist changes a session to a session. *)
LEMMA HavesType ==
  ASSUME TypeOK, NEW w \in Workers, NEW sent
  PROVE  AnnounceHaves(w, sent) \in Sessions
<1>1. peerdata[w] \in Sessions /\ havemesslist \in Seq(Numbers) BY DEF TypeOK
<1>2. HavesSent(w) \in Nat BY <1>1 DEF HavesSent, Sessions
<1>3. NewHaves(w) \subseteq Numbers BY <1>1 DEF NewHaves, Sessions
<1> QED BY <1>1, <1>2, <1>3 DEF AnnounceHaves, Sessions

(* A seek, a write and a read keep the file and its stream typed. *)
LEMMA StreamType ==
  ASSUME TypeOK,
         \/ \E cell \in Int : StreamSeek(cell)
         \/ StreamRead
         \/ \E data \in [Blocks -> Cells] : StreamWrite(data)
  PROVE  file' \in [FileCells -> Cells \X Blocks] /\ fpos' \in Int /\ ffail' \in BOOLEAN
<1>1. file \in [FileCells -> Cells \X Blocks] /\ fpos \in Int /\ ffail \in BOOLEAN
  BY DEF TypeOK
<1>2. CASE \E cell \in Int : StreamSeek(cell) BY <1>1, <1>2 DEF StreamSeek
<1>3. CASE StreamRead BY <1>1, <1>3 DEF StreamRead
<1>4. ASSUME NEW data \in [Blocks -> Cells], StreamWrite(data)
      PROVE  file' \in [FileCells -> Cells \X Blocks] /\ fpos' \in Int /\ ffail' \in BOOLEAN
  <2>1. CASE ffail BY <1>1, <1>4, <2>1 DEF StreamWrite, fileVars
  <2>2. CASE ~ffail
    <3>1. ASSUME NEW c \in FileCells, c \in fpos .. fpos + NumBlocks - 1
          PROVE  <<data[c - fpos], c - fpos>> \in Cells \X Blocks
      BY <1>1, <3>1, ConstantFacts DEF Blocks
    <3> QED BY <1>1, <1>4, <2>2, <3>1, ConstantFacts DEF StreamWrite
  <2> QED BY <2>1, <2>2
<1> QED BY <1>2, <1>3, <1>4

(* Initially every variable has its type. *)
LEMMA InitType == Init => TypeOK
<1> SUFFICES ASSUME Init PROVE TypeOK
  OBVIOUS
<1>1. pieces_to_download \in Seq(Numbers)
  BY ConstantFacts DEF Init, Numbers, Pieces
<1>2. havemesslist \in Seq(Numbers) BY DEF Init
<1>3. file \in [FileCells -> Cells \X Blocks] BY ConstantFacts DEF Init
<1>4. pc \in [Workers -> Locations] BY DEF Init, Locations
<1>5. peerdata \in [Workers -> Sessions] BY FreshType DEF Init
<1>6. piece_no \in [Workers -> Numbers] BY DEF Init, Numbers
<1>7. ffail \in BOOLEAN /\ due \in BOOLEAN /\ undefined \in BOOLEAN /\ displaced \in BOOLEAN
  BY DEF Init
<1> QED BY <1>1, <1>2, <1>3, <1>4, <1>5, <1>6, <1>7, ConstantFacts DEF Init, TypeOK

(* A step of the main thread keeps the types. *)
LEMMA MainType ==
  ASSUME TypeOK, TimePasses \/ Main
  PROVE  TypeOK'
<1> USE DEF queueVars, countVars, fileVars, mainVars, historyVars
<1>1. CASE TimePasses
  <2>1. due' \in BOOLEAN BY <1>1 DEF TimePasses
  <2> QED BY <1>1, <2>1 DEF TimePasses, TypeOK
<1>2. CASE MainAnnounce BY <1>2 DEF MainAnnounce, TypeOK
<1>3. ASSUME NEW n \in 1 .. MaxPeers, TrackersAnswer(n) PROVE TypeOK'
  <2>1. due' \in BOOLEAN BY <1>3 DEF TrackersAnswer
  <2> QED BY <1>3, <2>1, ConstantFacts DEF TrackersAnswer, TypeOK
<1>4. CASE TrackersSilent
  <2>1. faults' \in 0 .. MaxFaults BY <1>4, FaultsType DEF TrackersSilent
  <2> QED BY <1>4, <2>1 DEF TrackersSilent, TypeOK
<1>5. ASSUME NEW w \in Workers, Spawn(w) PROVE TypeOK'
  <2>1. pc' \in [Workers -> Locations] BY <1>5 DEF Spawn, TypeOK, Locations
  <2> QED BY <1>5, <2>1, ConstantFacts DEF Spawn, TypeOK
<1>6. CASE SpawnedAll BY <1>6 DEF SpawnedAll, TypeOK
<1> QED BY <1>1, <1>2, <1>3, <1>4, <1>5, <1>6 DEF Main

(* A step of a thread that leaves the shared state alone. *)
LEMMA LocalStepType ==
  ASSUME TypeOK, UNCHANGED <<sharedVars, historyVars>>,
         pc' \in [Workers -> Locations],
         piece_no' \in [Workers -> Numbers],
         peerdata' \in [Workers -> Sessions],
         faults' \in 0 .. MaxFaults
  PROVE  TypeOK'
BY DEF sharedVars, queueVars, countVars, fileVars, mainVars, historyVars, TypeOK

(* Taking latest_comms changes a session to a session. *)
LEMMA HeardType ==
  ASSUME TypeOK, NEW w \in Workers, NEW status
  PROVE  Heard(w, status) \in Sessions
<1>1. peerdata[w] \in Sessions BY DEF TypeOK
<1>2. (peerdata[w].idle /\ status # "SUCCESS") \in BOOLEAN OBVIOUS
<1> QED BY <1>1, <1>2 DEF Heard, Sessions

(* A step that changes nothing keeps the types. *)
LEMMA UnchangedType ==
  ASSUME TypeOK
  PROVE  /\ UNCHANGED faults => faults' \in 0 .. MaxFaults
         /\ UNCHANGED pc => pc' \in [Workers -> Locations]
         /\ UNCHANGED piece_no => piece_no' \in [Workers -> Numbers]
         /\ \A w \in Workers : peerdata[w] \in Sessions
BY DEF TypeOK

(* A step of the set-up of a session keeps the types. *)
LEMMA SetupType ==
  ASSUME TypeOK, NEW w \in Workers, Setup(w)
  PROVE  TypeOK'
<1>1. CASE Connect(w)
  <2>1. FreshSession(downloaded) \in Sessions BY FreshType DEF TypeOK
  <2>2. "hello" \in Locations BY DEF Locations, Receiving
  <2>3. faults' \in 0 .. MaxFaults BY <1>1, FaultsType, UnchangedType DEF Connect
  <2>4. /\ pc' \in [Workers -> Locations]
        /\ piece_no' \in [Workers -> Numbers]
        /\ peerdata' \in [Workers -> Sessions]
    BY <1>1, <2>1, <2>2, ContinueType, LeaveType DEF Connect
  <2> QED BY <1>1, <2>3, <2>4, LocalStepType DEF Connect
<1>2. CASE HelloSilent(w)
  <2>1. "sendinterested" \in Locations BY DEF Locations
  <2>2. /\ pc' \in [Workers -> Locations]
        /\ piece_no' \in [Workers -> Numbers]
        /\ peerdata' \in [Workers -> Sessions]
    BY <1>2, <2>1, UnchangedType, ContinueType DEF HelloSilent
  <2> QED BY <1>2, <2>2, UnchangedType, LocalStepType DEF HelloSilent
<1>3. CASE SendInterested(w)
  <2>1. "interested" \in Locations BY DEF Locations, Receiving
  <2>2. /\ pc' \in [Workers -> Locations]
        /\ piece_no' \in [Workers -> Numbers]
        /\ peerdata' \in [Workers -> Sessions]
    BY <1>3, <2>1, UnchangedType, ContinueType, LeaveType DEF SendInterested
  <2>3. faults' \in 0 .. MaxFaults BY <1>3, FaultsType, UnchangedType DEF SendInterested
  <2>4. pieces_to_download' \in Seq(Numbers) /\ deficit' \in Nat
    BY <1>3, PushBackType DEF SendInterested, queueVars, TypeOK
  <2>5. undefined' \in BOOLEAN
    BY <1>3 DEF SendInterested, TypeOK
  <2> QED BY <1>3, <2>2, <2>3, <2>4, <2>5
          DEF SendInterested, countVars, fileVars, mainVars, TypeOK
<1>4. ASSUME NEW s \in Statuses, HelloDone(w, s) PROVE TypeOK'
  <2>1. "sendinterested" \in Locations BY DEF Locations
  <2>2. /\ pc' \in [Workers -> Locations]
        /\ piece_no' \in [Workers -> Numbers]
        /\ peerdata' \in [Workers -> Sessions]
    BY <1>4, <2>1, HeardType, ContinueType, LeaveType DEF HelloDone
  <2>3. faults' \in 0 .. MaxFaults BY <1>4, FaultsType DEF HelloDone
  <2> QED BY <1>4, <2>2, <2>3, LocalStepType DEF HelloDone
<1>5. ASSUME NEW s \in Statuses, InterestedDone(w, s) PROVE TypeOK'
  <2>1. "while" \in Locations BY DEF Locations
  <2>2. /\ pc' \in [Workers -> Locations]
        /\ piece_no' \in [Workers -> Numbers]
        /\ peerdata' \in [Workers -> Sessions]
    BY <1>5, <2>1, HeardType, ContinueType, LeaveType DEF InterestedDone
  <2>3. faults' \in 0 .. MaxFaults BY <1>5, FaultsType DEF InterestedDone
  <2> QED BY <1>5, <2>2, <2>3, LocalStepType DEF InterestedDone
<1> QED BY <1>1, <1>2, <1>3, <1>4, <1>5 DEF Setup

(* A step of processMessage keeps the types. *)
LEMMA MessageType ==
  ASSUME TypeOK, NEW w \in Workers, Message(w)
  PROVE  TypeOK'
<1>0. peerdata[w] \in Sessions /\ peerdata \in [Workers -> Sessions] BY DEF TypeOK
<1>1. CASE OnKeepAlive(w)
  <2>1. peerdata' \in [Workers -> Sessions] BY <1>0, <1>1 DEF OnKeepAlive, Sessions
  <2> QED BY <1>1, <2>1, UnchangedType, LocalStepType DEF OnKeepAlive, Receives
<1>2. CASE OnChoke(w)
  <2>1. peerdata' \in [Workers -> Sessions] BY <1>0, <1>2 DEF OnChoke, Sessions
  <2> QED BY <1>2, <2>1, FaultsType, UnchangedType, LocalStepType DEF OnChoke, Receives
<1>3. CASE OnUnchoke(w)
  <2>1. peerdata' \in [Workers -> Sessions] BY <1>0, <1>3 DEF OnUnchoke, Sessions
  <2> QED BY <1>3, <2>1, UnchangedType, LocalStepType DEF OnUnchoke, Receives
<1>4. ASSUME NEW p \in Pieces, OnHave(w, p) PROVE TypeOK'
  <2>1. peerdata' \in [Workers -> Sessions] BY <1>0, <1>4 DEF OnHave, Sessions
  <2> QED BY <1>4, <2>1, FaultsType, UnchangedType, LocalStepType DEF OnHave, Receives
<1>5. ASSUME NEW S \in SUBSET Pieces, OnBitfield(w, S) PROVE TypeOK'
  <2>1. peerdata' \in [Workers -> Sessions] BY <1>0, <1>5 DEF OnBitfield, Sessions
  <2> QED BY <1>5, <2>1, FaultsType, UnchangedType, LocalStepType DEF OnBitfield, Receives
<1>6. ASSUME NEW b \in Blocks, NEW cell \in Cells \ {Empty}, OnPiece(w, b, cell)
      PROVE  TypeOK'
  <2>1. [peerdata[w].block_placeholder EXCEPT ![b] = cell] \in [Blocks -> Cells]
    BY <1>0 DEF Sessions
  <2>2. peerdata' = [peerdata EXCEPT ![w] =
          [peerdata[w] EXCEPT !.block_placeholder =
             [peerdata[w].block_placeholder EXCEPT ![b] = cell]]]
    BY <1>0, <1>6 DEF OnPiece
  <2>3. peerdata' \in [Workers -> Sessions] BY <1>0, <2>1, <2>2 DEF Sessions
  <2> QED BY <1>6, <2>3, FaultsType, UnchangedType, LocalStepType DEF OnPiece, Receives
<1>7. ASSUME NEW cell \in 0 .. NumPieces * NumBlocks - 1, OnRequest(w, cell)
      PROVE  TypeOK'
  <2>1. cell \in Int OBVIOUS
  <2>2. peerdata' \in [Workers -> Sessions] BY <1>0, <1>7, <2>1 DEF OnRequest, Sessions
  <2>3. file' \in [FileCells -> Cells \X Blocks] /\ fpos' \in Int /\ ffail' \in BOOLEAN
    BY <1>7, <2>1, StreamType DEF OnRequest
  <2>4. faults' \in 0 .. MaxFaults BY <1>7, FaultsType DEF OnRequest
  <2> QED BY <1>7, <2>2, <2>3, <2>4
          DEF OnRequest, queueVars, countVars, mainVars, historyVars, TypeOK
<1>8. CASE ServeBlock(w)
  <2>0. NotServing \in Int BY DEF NotServing
  <2>1. peerdata' \in [Workers -> Sessions] BY <1>0, <1>8, <2>0 DEF ServeBlock, Sessions
  <2>2. file' \in [FileCells -> Cells \X Blocks] /\ fpos' \in Int /\ ffail' \in BOOLEAN
    BY <1>8, StreamType DEF ServeBlock
  <2> QED BY <1>8, <2>1, <2>2
          DEF ServeBlock, queueVars, countVars, mainVars, historyVars, TypeOK
<1> QED BY <1>1, <1>2, <1>3, <1>4, <1>5, <1>6, <1>7, <1>8 DEF Message

(* The queue and the thread's piece after a pop. *)
LEMMA PopType ==
  ASSUME TypeOK, NEW w \in Workers, PopFront(w) \/ PopNothing(w)
  PROVE  /\ pieces_to_download' \in Seq(Numbers)
         /\ deficit' \in Nat
         /\ undefined' \in BOOLEAN
         /\ piece_no' \in [Workers -> Numbers]
<1>1. /\ pieces_to_download \in Seq(Numbers) /\ deficit \in Nat
      /\ undefined \in BOOLEAN /\ piece_no \in [Workers -> Numbers]
  BY DEF TypeOK
<1>2. CASE PopFront(w)
  <2>1. /\ Head(pieces_to_download) \in Numbers
        /\ Tail(pieces_to_download) \in Seq(Numbers)
    BY <1>1, <1>2, HeadTailProperties DEF PopFront
  <2> QED BY <1>1, <1>2, <2>1 DEF PopFront
<1>3. CASE PopNothing(w)
  <2>1. undefined' \in BOOLEAN BY <1>3 DEF PopNothing
  <2> QED BY <1>1, <1>3, <2>1 DEF PopNothing
<1> QED BY <1>2, <1>3

(* A step of the download loop keeps the types. *)
LEMMA LoopType ==
  ASSUME TypeOK, NEW w \in Workers, Loop(w)
  PROVE  TypeOK'
<1>0. /\ peerdata[w] \in Sessions /\ peerdata \in [Workers -> Sessions]
      /\ piece_no[w] \in Numbers /\ pc \in [Workers -> Locations]
  BY DEF TypeOK
<1> Locations = {"hello", "interested", "batch", "request", "assemble", "seek",
                 "write", "count", "list", "putback", "giveback", "idle", "start",
                 "sendinterested", "while", "check", "pop", "mark", "farewell",
                 "closing"}
  BY DEF Locations, Receiving, Holding
<1>1. CASE WhileStatus(w)
  <2>1. /\ pc' \in [Workers -> Locations]
        /\ piece_no' \in [Workers -> Numbers]
        /\ peerdata' \in [Workers -> Sessions]
    BY <1>0, <1>1, ContinueType DEF WhileStatus
  <2> QED BY <1>1, <2>1, UnchangedType, LocalStepType DEF WhileStatus
<1>2. CASE CheckQueue(w)
  <2>1. /\ pc' \in [Workers -> Locations]
        /\ piece_no' \in [Workers -> Numbers]
        /\ peerdata' \in [Workers -> Sessions]
    BY <1>0, <1>2, ContinueType, LeaveType DEF CheckQueue
  <2> QED BY <1>2, <2>1, UnchangedType, LocalStepType DEF CheckQueue
<1>3. CASE TakePiece(w)
  <2>1. pc' \in [Workers -> Locations] BY <1>0, <1>3, GotoType DEF TakePiece
  <2>2. peerdata' \in [Workers -> Sessions] BY <1>0, <1>3 DEF TakePiece, Sessions
  <2>3. /\ pieces_to_download' \in Seq(Numbers) /\ deficit' \in Nat
        /\ undefined' \in BOOLEAN /\ piece_no' \in [Workers -> Numbers]
    BY <1>3, PopType DEF TakePiece
  <2> QED BY <1>3, <2>1, <2>2, <2>3
          DEF TakePiece, countVars, fileVars, mainVars, TypeOK
<1>4. CASE SendRequests(w)
  <2>1. /\ pc' \in [Workers -> Locations]
        /\ piece_no' \in [Workers -> Numbers]
        /\ peerdata' \in [Workers -> Sessions]
    BY <1>4, HavesType, ContinueType DEF SendRequests
  <2>2. faults' \in 0 .. MaxFaults BY <1>4, FaultsType, UnchangedType DEF SendRequests
  <2> QED BY <1>4, <2>1, <2>2, LocalStepType DEF SendRequests
<1>5. ASSUME NEW s \in Statuses, BatchDone(w, s) PROVE TypeOK'
  <2> DEFINE next == peerdata[w].batch_start + QueueSize
             to == IF next < NumBlocks THEN "request" ELSE "assemble"
             session == [Heard(w, s) EXCEPT !.batch_start = next]
  <2>1. Heard(w, s) \in Sessions BY HeardType
  <2>2. next \in Nat BY <1>0, ConstantFacts DEF Sessions
  <2>3. session \in Sessions BY <2>1, <2>2 DEF Sessions
  <2>4. to \in Locations /\ "putback" \in Locations OBVIOUS
  <2>5. \/ Continue(w, "batch", "putback", Heard(w, s))
        \/ Continue(w, "batch", to, session)
    BY <1>5 DEF BatchDone
  <2> HIDE DEF next, to, session
  <2>6. /\ pc' \in [Workers -> Locations]
        /\ piece_no' \in [Workers -> Numbers]
        /\ peerdata' \in [Workers -> Sessions]
    BY <2>1, <2>3, <2>4, <2>5, ContinueType
  <2>7. faults' \in 0 .. MaxFaults BY <1>5, FaultsType DEF BatchDone
  <2> QED BY <1>5, <2>6, <2>7, LocalStepType DEF BatchDone
<1>6. CASE Assemble(w)
  <2>1. pc' \in [Workers -> Locations] BY <1>0, <1>6, GotoType DEF Assemble
  <2>2. [b \in Blocks |-> Empty] \in [Blocks -> Cells] BY DEF Cells
  <2>3. peerdata' = [peerdata EXCEPT ![w] =
          [peerdata[w] EXCEPT !.block_piece = peerdata[w].block_placeholder,
                              !.block_placeholder = [b \in Blocks |-> Empty]]]
    BY <1>0, <1>6 DEF Assemble
  <2>4. peerdata' \in [Workers -> Sessions] BY <1>0, <2>2, <2>3 DEF Sessions
  <2> QED BY <1>6, <2>1, <2>4, UnchangedType, LocalStepType DEF Assemble
<1>7. CASE SeekPiece(w)
  <2>1. pc' \in [Workers -> Locations] BY <1>7, GotoType DEF SeekPiece
  <2>2. SlotOf(piece_no[w]) \in Int
    BY <1>0, SlotType
  <2>3. file' \in [FileCells -> Cells \X Blocks] /\ fpos' \in Int /\ ffail' \in BOOLEAN
    BY <1>7, <2>2, StreamType DEF SeekPiece
  <2> QED BY <1>7, <2>1, <2>3
          DEF SeekPiece, queueVars, countVars, mainVars, historyVars, TypeOK
<1>8. CASE WritePiece(w)
  <2>1. pc' \in [Workers -> Locations] BY <1>8, GotoType DEF WritePiece
  <2>2. peerdata[w].block_piece \in [Blocks -> Cells] BY <1>0 DEF Sessions
  <2>3. file' \in [FileCells -> Cells \X Blocks] /\ fpos' \in Int /\ ffail' \in BOOLEAN
    BY <1>8, <2>2, StreamType DEF WritePiece
  <2>4. displaced' \in BOOLEAN BY <1>8 DEF WritePiece
  <2> QED BY <1>8, <2>1, <2>3, <2>4
          DEF WritePiece, queueVars, countVars, mainVars, TypeOK
<1>9. CASE CountPiece(w)
  <2>1. pc' \in [Workers -> Locations] BY <1>9, GotoType DEF CountPiece
  <2>2. downloaded' \in Nat BY <1>9 DEF CountPiece, TypeOK
  <2> QED BY <1>9, <2>1, <2>2
          DEF CountPiece, queueVars, fileVars, mainVars, historyVars, TypeOK
<1>10. CASE MarkPiece(w)
  <2>1. /\ pc' \in [Workers -> Locations]
        /\ piece_no' \in [Workers -> Numbers]
        /\ peerdata' \in [Workers -> Sessions]
    BY <1>0, <1>10, ContinueType, LeaveType DEF MarkPiece
  <2> QED BY <1>0, <1>10, <2>1
          DEF MarkPiece, queueVars, countVars, fileVars, mainVars, historyVars, TypeOK
<1>11. CASE ReturnPiece(w)
  <2>1. /\ pc' \in [Workers -> Locations]
        /\ piece_no' \in [Workers -> Numbers]
        /\ peerdata' \in [Workers -> Sessions]
    BY <1>0, <1>11, ContinueType, LeaveType DEF ReturnPiece
  <2>2. pieces_to_download' \in Seq(Numbers) /\ deficit' \in Nat
    BY <1>0, <1>11, PushBackType DEF ReturnPiece
  <2> QED BY <1>11, <2>1, <2>2
          DEF ReturnPiece, countVars, fileVars, mainVars, historyVars, TypeOK
<1>12. CASE Farewell(w)
  <2>1. /\ pc' \in [Workers -> Locations]
        /\ piece_no' \in [Workers -> Numbers]
        /\ peerdata' \in [Workers -> Sessions]
    BY <1>12, HavesType, ContinueType, LeaveType DEF Farewell
  <2>2. faults' \in 0 .. MaxFaults BY <1>12, FaultsType, UnchangedType DEF Farewell
  <2> QED BY <1>12, <2>1, <2>2, LocalStepType DEF Farewell
<1>13. CASE Close(w)
  BY <1>13, LeaveType, UnchangedType, LocalStepType DEF Close
<1>14. CASE ListPiece(w)
  <2>1. pc' \in [Workers -> Locations] BY <1>14, GotoType DEF ListPiece
  <2>2. havemesslist' \in Seq(Numbers) BY <1>0, <1>14 DEF ListPiece, TypeOK
  <2> QED BY <1>14, <2>1, <2>2
          DEF ListPiece, queueVars, fileVars, mainVars, historyVars, TypeOK
<1> QED BY <1>1, <1>2, <1>3, <1>4, <1>5, <1>6, <1>7, <1>8, <1>9, <1>10, <1>11,
           <1>12, <1>13, <1>14 DEF Loop

(* A step keeps the types. *)
LEMMA NextType == TypeOK /\ [Next]_vars => TypeOK'
<1> SUFFICES ASSUME TypeOK, [Next]_vars PROVE TypeOK'
  OBVIOUS
<1>1. ASSUME NEW w \in Workers, Crash(w) PROVE TypeOK'
  <2>1. undefined' \in BOOLEAN BY <1>1 DEF Crash
  <2> QED BY <1>1, <2>1
          DEF Crash, queueVars, countVars, fileVars, mainVars, TypeOK
<1>2. ASSUME NEW w \in Workers, Pause(w) PROVE TypeOK'
  <2>1. peerdata' \in [Workers -> Sessions] BY <1>2 DEF Pause, TypeOK, Sessions
  <2> QED BY <1>2, <2>1, FaultsType, UnchangedType, LocalStepType DEF Pause
<1>3. CASE UNCHANGED vars
  BY <1>3 DEF vars, sharedVars, queueVars, countVars, fileVars, mainVars,
              historyVars, TypeOK
<1> QED BY <1>1, <1>2, <1>3, MainType, SetupType, MessageType, LoopType DEF Next, Quiet

(* Every variable keeps the type its declaration in the code gives it.     *)
THEOREM TypeCorrect == Spec => []TypeOK
BY InitType, NextType, PTL DEF Spec

-----------------------------------------------------------------------------
(* The critical section that counts a piece.                               *)

(* One thread at a time is in it, and the counter is ahead of the list     *)
(* while one is, also after a value nobody wrote was used as a piece.      *)
CountOK ==
  /\ \A v, w \in Workers : pc[v] = "list" /\ pc[w] = "list" => v = w
  /\ downloaded = Len(havemesslist) + (IF Unlocked THEN 0 ELSE 1)

(* A step away from that section. *)
Away == /\ UNCHANGED <<downloaded, havemesslist>>
        /\ \A v \in Workers : (pc'[v] = "list") <=> (pc[v] = "list")

(* A thread that moves between two places outside it. *)
LEMMA MoveAside ==
  ASSUME TypeOK, NEW w \in Workers, NEW from, from # "list", NEW to, to # "list"
  PROVE  /\ Goto(w, from, to) =>
              \A v \in Workers : (pc'[v] = "list") <=> (pc[v] = "list")
         /\ \A session : Continue(w, from, to, session) =>
              \A v \in Workers : (pc'[v] = "list") <=> (pc[v] = "list")
BY DEF TypeOK, Goto, Continue

LEMMA LeaveAside ==
  ASSUME TypeOK, NEW w \in Workers, NEW from, from # "list", Leave(w, from)
  PROVE  \A v \in Workers : (pc'[v] = "list") <=> (pc[v] = "list")
BY DEF TypeOK, Goto, Leave

(* The counter and the list change in that section only. *)
LEMMA LoopAway ==
  ASSUME TypeOK, NEW w \in Workers, Loop(w)
  PROVE  Away \/ CountPiece(w) \/ ListPiece(w)
<1> USE DEF sharedVars, countVars
<1>1. CASE WhileStatus(w)
  <2>1. PICK to \in {"check", "farewell"} : Continue(w, "while", to, peerdata[w])
    BY <1>1 DEF WhileStatus
  <2> QED BY <1>1, <2>1, MoveAside, LeaveAside DEF WhileStatus, Away
<1>2. CASE CheckQueue(w) BY <1>2, MoveAside, LeaveAside DEF CheckQueue, Away
<1>3. CASE TakePiece(w) BY <1>3, MoveAside, LeaveAside DEF TakePiece, Away
<1>4. CASE SendRequests(w) BY <1>4, MoveAside, LeaveAside DEF SendRequests, Away
<1>5. ASSUME NEW s \in Statuses, BatchDone(w, s) PROVE Away
  <2>1. \E to \in {"putback", "request", "assemble"} :
          \E session : Continue(w, "batch", to, session)
    BY <1>5 DEF BatchDone
  <2>2. UNCHANGED <<downloaded, havemesslist>> BY <1>5 DEF BatchDone
  <2> QED BY <2>1, <2>2, MoveAside, LeaveAside DEF Away
<1>6. CASE Assemble(w)
  <2>1. PICK to \in {"seek", "putback"} : Goto(w, "assemble", to) BY <1>6 DEF Assemble
  <2> QED BY <1>6, <2>1, MoveAside, LeaveAside DEF Assemble, Away
<1>7. CASE SeekPiece(w) \/ WritePiece(w)
  BY <1>7, MoveAside, LeaveAside DEF SeekPiece, WritePiece, Away
<1>8. CASE MarkPiece(w) BY <1>8, MoveAside, LeaveAside DEF MarkPiece, Away
<1>9. CASE ReturnPiece(w)
  <2>1. \/ Continue(w, "putback", "while", peerdata[w])
        \/ Leave(w, "giveback")
    BY <1>9 DEF ReturnPiece
  <2>2. UNCHANGED <<downloaded, havemesslist>> BY <1>9 DEF ReturnPiece
  <2> QED BY <2>1, <2>2, MoveAside, LeaveAside DEF Away
<1>10. CASE Farewell(w) BY <1>10, MoveAside, LeaveAside DEF Farewell, Away
<1>11. CASE Close(w) BY <1>11, MoveAside, LeaveAside DEF Close, Away
<1> QED BY <1>1, <1>2, <1>3, <1>4, <1>5, <1>6, <1>7, <1>8, <1>9, <1>10, <1>11
        DEF Loop

LEMMA StepAway ==
  ASSUME TypeOK, [Next]_vars
  PROVE  Away \/ \E w \in Workers : CountPiece(w) \/ ListPiece(w)
<1> USE DEF sharedVars, countVars
<1>1. CASE TimePasses \/ UNCHANGED vars BY <1>1 DEF TimePasses, vars, Away
<1>2. CASE Main
  <2>1. ASSUME NEW w \in Workers, Spawn(w) PROVE Away
    BY <2>1 DEF Spawn, Live, TypeOK, Away
  <2> QED BY <1>2, <2>1
          DEF Main, MainAnnounce, TrackersAnswer, TrackersSilent, SpawnedAll, Away
<1>3. ASSUME NEW w \in Workers, Setup(w) PROVE Away
  BY <1>3, MoveAside, LeaveAside
     DEF Setup, Connect, HelloSilent, SendInterested, HelloDone, InterestedDone, Away
<1>4. ASSUME NEW w \in Workers, Message(w) \/ Crash(w) \/ Pause(w) PROVE Away
  BY <1>4 DEF Message, OnKeepAlive, OnChoke, OnUnchoke, OnHave, OnBitfield, OnPiece,
              OnRequest, ServeBlock, Receives, Crash, Pause, Away
<1> QED BY <1>1, <1>2, <1>3, <1>4, LoopAway DEF Next, Quiet

LEMMA NextCount == TypeOK /\ CountOK /\ [Next]_vars => CountOK'
<1> SUFFICES ASSUME TypeOK, CountOK, [Next]_vars PROVE CountOK'
  OBVIOUS
<1>0. /\ downloaded \in Nat /\ havemesslist \in Seq(Numbers)
      /\ pc \in [Workers -> Locations] /\ Len(havemesslist) \in Nat
  BY DEF TypeOK
<1>1. CASE Away
  <2>1. Unlocked' <=> Unlocked BY <1>1 DEF Away, Unlocked
  <2> QED BY <1>1, <2>1 DEF Away, CountOK
<1>2. ASSUME NEW w \in Workers, CountPiece(w) PROVE CountOK'
  <2>1. /\ Unlocked /\ pc' = [pc EXCEPT ![w] = "list"]
        /\ downloaded' = downloaded + 1 /\ UNCHANGED havemesslist
    BY <1>2 DEF CountPiece, Goto
  <2>2. \A v \in Workers : pc'[v] = "list" <=> v = w BY <1>0, <2>1 DEF Unlocked
  <2>3. ~Unlocked' BY <2>2 DEF Unlocked
  <2>4. downloaded = Len(havemesslist) BY <1>0, <2>1 DEF CountOK
  <2> QED BY <2>1, <2>2, <2>3, <2>4 DEF CountOK
<1>3. ASSUME NEW w \in Workers, ListPiece(w) PROVE CountOK'
  <2>1. /\ pc[w] = "list" /\ pc' = [pc EXCEPT ![w] = "mark"] /\ UNCHANGED downloaded
        /\ havemesslist' = Append(havemesslist, piece_no[w])
    BY <1>3 DEF ListPiece, Goto
  <2>2. piece_no[w] \in Numbers BY DEF TypeOK
  <2>3. Len(havemesslist') = Len(havemesslist) + 1 BY <1>0, <2>1, <2>2
  <2>4. \A v \in Workers : pc'[v] # "list" BY <1>0, <2>1 DEF CountOK
  <2>5. Unlocked' /\ ~Unlocked BY <2>1, <2>4 DEF Unlocked
  <2> QED BY <1>0, <2>1, <2>3, <2>4, <2>5 DEF CountOK
<1> QED BY <1>1, <1>2, <1>3, StepAway

LEMMA InitCount == Init => CountOK
BY DEF Init, CountOK, Unlocked

-----------------------------------------------------------------------------
(* The accounts of the pieces.  NoPieceLost and NoPieceTwice are inductive  *)
(* together with what Accounts says beside the count: a thread that pushed  *)
(* a wild number, or a start past the finish, would spoil both.             *)
Ranges ==
  ~undefined =>
    /\ deficit = 0
    /\ pieces_to_download \in Seq(Pieces)
    /\ havemesslist \in Seq(Pieces)
    /\ \A w \in Workers : pc[w] \in Holding => piece_no[w] \in Pieces

Books == Ranges /\ NoPieceLost /\ NoPieceTwice
IInv == TypeOK /\ CountOK /\ Books

(* What a step must do: keep the books, and be a step of the ledger. *)
GoodStep == Books' /\ [Ledger!Next]_(Ledger!vars)

(* No piece has the number that stands for none. *)
LEMMA WildIsNone == Wild \notin Pieces
BY ConstantFacts DEF Wild

(* A step after which every thread answers for the same piece, or for none  *)
(* as before, keeps the books.                                              *)
LEMMA SameHands ==
  ASSUME IInv, UNCHANGED <<queueVars, havemesslist, undefined>>,
         \A v \in Workers : (pc'[v] \in Holding) <=> (pc[v] \in Holding),
         \A v \in Workers : pc[v] \in Holding => piece_no'[v] = piece_no[v]
  PROVE  GoodStep
<1> USE DEF queueVars
<1>1. \A v \in Workers, p \in Pieces : Held(v, p)' <=> Held(v, p) BY DEF Held
<1>2. \A p \in Pieces : Queued(p)' <=> Queued(p) BY DEF Queued
<1>3. \A p \in Pieces : Counted(p)' <=> Counted(p) BY DEF Counted
<1>4. Ranges' BY DEF IInv, Books, Ranges
<1>5. NoPieceLost' BY <1>1, <1>2, <1>3 DEF IInv, Books, NoPieceLost
<1>6. NoPieceTwice' BY <1>1, <1>2, <1>3 DEF IInv, Books, NoPieceTwice
<1>7. Todo' = Todo /\ Done' = Done BY <1>2, <1>3 DEF Todo, Done
<1>8. Hand' = Hand BY DEF Hand
<1>9. UNCHANGED Ledger!vars BY <1>7, <1>8 DEF Ledger!vars
<1> QED BY <1>4, <1>5, <1>6, <1>9 DEF Books, GoodStep

(* A thread takes the first piece of the queue. *)
LEMMA TakeKeepsBooks ==
  ASSUME IInv, ~undefined, NEW w \in Workers, PopFront(w), pc[w] \notin Holding,
         NEW to \in Holding, pc' = [pc EXCEPT ![w] = to],
         UNCHANGED havemesslist
  PROVE  GoodStep
<1> DEFINE q == pieces_to_download
           h == Head(q)
<1>1. /\ q \in Seq(Pieces) /\ q # <<>> /\ q' = Tail(q)
      /\ piece_no' = [piece_no EXCEPT ![w] = h]
      /\ piece_no \in [Workers -> Numbers] /\ pc \in [Workers -> Locations]
      /\ deficit' = deficit /\ undefined' = undefined
  BY DEF PopFront, IInv, Books, Ranges, TypeOK
<1>2. /\ h \in Pieces /\ h = q[1] /\ Len(q) \in Nat /\ Len(q) >= 1
      /\ q' \in Seq(Pieces) /\ Len(q') = Len(q) - 1
      /\ \A k \in 1 .. Len(q') : q'[k] = q[k + 1]
  BY <1>1, HeadTailProperties
<1>3. \A j, k \in 1 .. Len(q) : q[j] = q[k] => j = k
  BY DEF IInv, Books, NoPieceTwice
<1> HIDE DEF q, h
<1>4. \A p \in Pieces : Queued(p)' <=> Queued(p) /\ p # h
  <2> TAKE p \in Pieces
  <2>1. ASSUME Queued(p)' PROVE Queued(p) /\ p # h
    <3>1. PICK k \in 1 .. Len(q') : q'[k] = p BY <2>1 DEF Queued, q
    <3>2. k + 1 \in 1 .. Len(q) /\ q[k + 1] = p /\ k + 1 # 1 BY <1>2, <3>1
    <3>3. 1 \in 1 .. Len(q) BY <1>2
    <3> QED BY <1>2, <1>3, <3>2, <3>3 DEF Queued, q
  <2>2. ASSUME Queued(p), p # h PROVE Queued(p)'
    <3>1. PICK k \in 1 .. Len(q) : q[k] = p BY <2>2 DEF Queued, q
    <3>2. k # 1 BY <1>2, <2>2, <3>1
    <3>3. k - 1 \in 1 .. Len(q') /\ q'[k - 1] = p BY <1>2, <3>1, <3>2
    <3> QED BY <3>3 DEF Queued, q
  <2> QED BY <2>1, <2>2
<1>5. \A v \in Workers, p \in Pieces :
        Held(v, p)' <=> \/ v # w /\ Held(v, p)
                        \/ v = w /\ p = h
  BY <1>1, <1>2 DEF Held
<1>6. \A p \in Pieces : Counted(p)' <=> Counted(p) BY DEF Counted
<1>7. Queued(h) BY <1>2 DEF Queued, q
<1>8. Ranges'
  <2>1. \A v \in Workers : pc'[v] \in Holding => piece_no'[v] \in Pieces
    BY <1>1, <1>2 DEF IInv, Books, Ranges
  <2> QED BY <1>1, <1>2, <2>1 DEF IInv, Books, Ranges, q
<1>9. NoPieceLost'
  <2> SUFFICES ASSUME NEW p \in Pieces
               PROVE  Queued(p)' \/ Counted(p)' \/ \E v \in Workers : Held(v, p)'
    BY DEF NoPieceLost
  <2>1. \A v \in Workers : Held(v, p) => v # w BY DEF Held
  <2>2. Queued(p) \/ Counted(p) \/ \E v \in Workers : Held(v, p)
    BY DEF IInv, Books, NoPieceLost
  <2> QED BY <1>4, <1>5, <1>6, <2>1, <2>2
<1>10. NoPieceTwice'
  <2>1. ASSUME NEW j \in 1 .. Len(q'), NEW k \in 1 .. Len(q'), q'[j] = q'[k]
        PROVE  j = k
    <3>1. j + 1 \in 1 .. Len(q) /\ k + 1 \in 1 .. Len(q) BY <1>2
    <3>2. q[j + 1] = q[k + 1] BY <1>2, <2>1
    <3>3. j + 1 = k + 1 BY <1>3, <3>1, <3>2
    <3> QED BY <3>3
  <2>2. \A v \in Workers : Held(v, h) => FALSE
    BY <1>2, <1>7 DEF IInv, Books, NoPieceTwice
  <2>3. \A u, v \in Workers, p \in Pieces : Held(u, p)' /\ Held(v, p)' => u = v
    BY <1>5, <2>2 DEF IInv, Books, NoPieceTwice
  <2>4. \A v \in Workers, p \in Pieces : Held(v, p)' => ~Queued(p)' /\ ~Counted(p)'
    BY <1>2, <1>4, <1>5, <1>6, <1>7 DEF IInv, Books, NoPieceTwice
  <2>5. \A p \in Pieces : ~(Queued(p)' /\ Counted(p)')
    BY <1>4, <1>6 DEF IInv, Books, NoPieceTwice
  <2>6. \A j, k \in 1 .. Len(havemesslist') : havemesslist'[j] = havemesslist'[k] => j = k
    BY DEF IInv, Books, NoPieceTwice
  <2> QED BY <2>1, <2>3, <2>4, <2>5, <2>6 DEF NoPieceTwice, q
<1>11. Ledger!Take(w, h)
  <2>1. Hand[w] = Wild /\ h \in Todo BY <1>2, <1>7 DEF Hand, Todo
  <2>2. Hand' = [Hand EXCEPT ![w] = h] BY <1>1 DEF Hand
  <2>3. Todo' = Todo \ {h} /\ Done' = Done BY <1>4, <1>6 DEF Todo, Done
  <2> QED BY <1>1, <2>1, <2>2, <2>3 DEF Ledger!Take
<1> QED BY <1>2, <1>8, <1>9, <1>10, <1>11 DEF Books, GoodStep, Ledger!Next

(* A thread puts its piece back at the end of the queue. *)
LEMMA ReturnKeepsBooks ==
  ASSUME IInv, ~undefined, NEW w \in Workers, pc[w] \in Holding,
         PushBack(piece_no[w]),
         NEW to \in Locations \ Holding, pc' = [pc EXCEPT ![w] = to],
         \A v \in Workers : v # w => piece_no'[v] = piece_no[v],
         UNCHANGED <<havemesslist, undefined>>
  PROVE  GoodStep
<1> DEFINE q == pieces_to_download
           h == piece_no[w]
<1>1. /\ q \in Seq(Pieces) /\ h \in Pieces /\ q' = Append(q, h) /\ deficit' = 0
      /\ pc \in [Workers -> Locations]
  BY DEF PushBack, IInv, Books, Ranges, TypeOK
<1>2. /\ Len(q) \in Nat /\ q' \in Seq(Pieces) /\ Len(q') = Len(q) + 1
      /\ \A k \in 1 .. Len(q) : q'[k] = q[k]
      /\ q'[Len(q) + 1] = h
  BY <1>1
<1>3. \A j, k \in 1 .. Len(q) : q[j] = q[k] => j = k
  BY DEF IInv, Books, NoPieceTwice
<1>0. Held(w, h) BY DEF Held
<1> HIDE DEF q, h
<1>4. \A p \in Pieces : Queued(p)' <=> Queued(p) \/ p = h
  <2> TAKE p \in Pieces
  <2>1. ASSUME Queued(p)' PROVE Queued(p) \/ p = h
    <3>1. PICK k \in 1 .. Len(q') : q'[k] = p BY <2>1 DEF Queued, q
    <3>2. k \in 1 .. Len(q) \/ k = Len(q) + 1 BY <1>2
    <3> QED BY <1>2, <3>1, <3>2 DEF Queued, q
  <2>2. ASSUME Queued(p) PROVE Queued(p)'
    <3>1. PICK k \in 1 .. Len(q) : q[k] = p BY <2>2 DEF Queued, q
    <3>2. k \in 1 .. Len(q') /\ q'[k] = p BY <1>2, <3>1
    <3> QED BY <3>2 DEF Queued, q
  <2>3. Len(q) + 1 \in 1 .. Len(q') BY <1>2
  <2>4. ASSUME p = h PROVE Queued(p)' BY <1>2, <2>3, <2>4 DEF Queued, q
  <2> QED BY <2>1, <2>2, <2>4
<1>5. \A v \in Workers, p \in Pieces : Held(v, p)' <=> v # w /\ Held(v, p)
  BY <1>1 DEF Held
<1>6. \A p \in Pieces : Counted(p)' <=> Counted(p) BY DEF Counted
<1>7. ~Queued(h) /\ ~Counted(h) BY <1>0, <1>1 DEF IInv, Books, NoPieceTwice
<1>8. Ranges'
  <2>1. \A v \in Workers : pc'[v] \in Holding => piece_no'[v] \in Pieces
    BY <1>1 DEF IInv, Books, Ranges
  <2> QED BY <1>1, <1>2, <2>1 DEF IInv, Books, Ranges, q
<1>9. NoPieceLost'
  <2> SUFFICES ASSUME NEW p \in Pieces
               PROVE  Queued(p)' \/ Counted(p)' \/ \E v \in Workers : Held(v, p)'
    BY DEF NoPieceLost
  <2>1. Held(w, p) => p = h BY DEF Held, h
  <2>2. Queued(p) \/ Counted(p) \/ \E v \in Workers : Held(v, p)
    BY DEF IInv, Books, NoPieceLost
  <2> QED BY <1>4, <1>5, <1>6, <2>1, <2>2
<1>10. NoPieceTwice'
  <2>1. ASSUME NEW j \in 1 .. Len(q'), NEW k \in 1 .. Len(q'), q'[j] = q'[k]
        PROVE  j = k
    <3>1. /\ j \in 1 .. Len(q) \/ j = Len(q) + 1
          /\ k \in 1 .. Len(q) \/ k = Len(q) + 1
      BY <1>2
    <3>2. \A i \in 1 .. Len(q) : q[i] # h BY <1>7 DEF Queued, q
    <3> QED BY <1>2, <1>3, <2>1, <3>1, <3>2
  <2>2. \A v \in Workers : v # w => ~Held(v, h)
    BY <1>0, <1>1 DEF IInv, Books, NoPieceTwice
  <2>3. \A u, v \in Workers, p \in Pieces : Held(u, p)' /\ Held(v, p)' => u = v
    BY <1>5 DEF IInv, Books, NoPieceTwice
  <2>4. \A v \in Workers, p \in Pieces : Held(v, p)' => ~Queued(p)' /\ ~Counted(p)'
    BY <1>4, <1>5, <1>6, <2>2 DEF IInv, Books, NoPieceTwice
  <2>5. \A p \in Pieces : ~(Queued(p)' /\ Counted(p)')
    BY <1>4, <1>6, <1>7 DEF IInv, Books, NoPieceTwice
  <2>6. \A j, k \in 1 .. Len(havemesslist') : havemesslist'[j] = havemesslist'[k] => j = k
    BY DEF IInv, Books, NoPieceTwice
  <2> QED BY <2>1, <2>3, <2>4, <2>5, <2>6 DEF NoPieceTwice, q
<1>11. Ledger!GiveBack(w)
  <2>1. Hand[w] = h /\ Hand[w] # Wild BY <1>0, <1>1, WildIsNone DEF Hand, h
  <2>2. Hand' = [Hand EXCEPT ![w] = Wild] BY <1>1 DEF Hand
  <2>3. Todo' = Todo \cup {h} /\ Done' = Done BY <1>1, <1>4, <1>6 DEF Todo, Done
  <2> QED BY <2>1, <2>2, <2>3 DEF Ledger!GiveBack
<1> QED BY <1>8, <1>9, <1>10, <1>11 DEF Books, GoodStep, Ledger!Next

(* A thread lists its piece as counted. *)
LEMMA ListKeepsBooks ==
  ASSUME IInv, ~undefined, NEW w \in Workers, ListPiece(w)
  PROVE  GoodStep
<1> DEFINE m == havemesslist
           h == piece_no[w]
<1>1. /\ pc[w] \in Holding /\ pc' = [pc EXCEPT ![w] = "mark"] /\ "mark" \notin Holding
      /\ m' = Append(m, h)
      /\ UNCHANGED <<pieces_to_download, deficit, undefined, piece_no>>
      /\ pc \in [Workers -> Locations]
  BY DEF ListPiece, Goto, Holding, queueVars, historyVars, IInv, TypeOK
<1>2. m \in Seq(Pieces) /\ h \in Pieces
  BY <1>1 DEF IInv, Books, Ranges
<1>3. /\ Len(m) \in Nat /\ m' \in Seq(Pieces) /\ Len(m') = Len(m) + 1
      /\ \A k \in 1 .. Len(m) : m'[k] = m[k]
      /\ m'[Len(m) + 1] = h
  BY <1>1, <1>2
<1>4. \A j, k \in 1 .. Len(m) : m[j] = m[k] => j = k
  BY DEF IInv, Books, NoPieceTwice
<1>0. Held(w, h) BY <1>1 DEF Held
<1> HIDE DEF m, h
<1>5. \A p \in Pieces : Counted(p)' <=> Counted(p) \/ p = h
  <2> TAKE p \in Pieces
  <2>1. ASSUME Counted(p)' PROVE Counted(p) \/ p = h
    <3>1. PICK k \in 1 .. Len(m') : m'[k] = p BY <2>1 DEF Counted, m
    <3>2. k \in 1 .. Len(m) \/ k = Len(m) + 1 BY <1>3
    <3> QED BY <1>3, <3>1, <3>2 DEF Counted, m
  <2>2. ASSUME Counted(p) PROVE Counted(p)'
    <3>1. PICK k \in 1 .. Len(m) : m[k] = p BY <2>2 DEF Counted, m
    <3>2. k \in 1 .. Len(m') /\ m'[k] = p BY <1>3, <3>1
    <3> QED BY <3>2 DEF Counted, m
  <2>3. Len(m) + 1 \in 1 .. Len(m') BY <1>3
  <2>4. ASSUME p = h PROVE Counted(p)' BY <1>3, <2>3, <2>4 DEF Counted, m
  <2> QED BY <2>1, <2>2, <2>4
<1>6. \A v \in Workers, p \in Pieces : Held(v, p)' <=> v # w /\ Held(v, p)
  BY <1>1 DEF Held
<1>7. \A p \in Pieces : Queued(p)' <=> Queued(p) BY <1>1 DEF Queued
<1>8. ~Queued(h) /\ ~Counted(h) BY <1>0, <1>2 DEF IInv, Books, NoPieceTwice
<1>9. Ranges'
  <2>1. \A v \in Workers : pc'[v] \in Holding => piece_no'[v] \in Pieces
    BY <1>1 DEF IInv, Books, Ranges
  <2> QED BY <1>1, <1>2, <1>3, <2>1 DEF IInv, Books, Ranges, m
<1>10. NoPieceLost'
  <2> SUFFICES ASSUME NEW p \in Pieces
               PROVE  Queued(p)' \/ Counted(p)' \/ \E v \in Workers : Held(v, p)'
    BY DEF NoPieceLost
  <2>1. Held(w, p) => p = h BY DEF Held, h
  <2>2. Queued(p) \/ Counted(p) \/ \E v \in Workers : Held(v, p)
    BY DEF IInv, Books, NoPieceLost
  <2> QED BY <1>5, <1>6, <1>7, <2>1, <2>2
<1>11. NoPieceTwice'
  <2>1. ASSUME NEW j \in 1 .. Len(m'), NEW k \in 1 .. Len(m'), m'[j] = m'[k]
        PROVE  j = k
    <3>1. /\ j \in 1 .. Len(m) \/ j = Len(m) + 1
          /\ k \in 1 .. Len(m) \/ k = Len(m) + 1
      BY <1>3
    <3>2. \A i \in 1 .. Len(m) : m[i] # h BY <1>8 DEF Counted, m
    <3> QED BY <1>3, <1>4, <2>1, <3>1, <3>2
  <2>2. \A v \in Workers : v # w => ~Held(v, h)
    BY <1>0, <1>2 DEF IInv, Books, NoPieceTwice
  <2>3. \A u, v \in Workers, p \in Pieces : Held(u, p)' /\ Held(v, p)' => u = v
    BY <1>6 DEF IInv, Books, NoPieceTwice
  <2>4. \A v \in Workers, p \in Pieces : Held(v, p)' => ~Queued(p)' /\ ~Counted(p)'
    BY <1>5, <1>6, <1>7, <2>2 DEF IInv, Books, NoPieceTwice
  <2>5. \A p \in Pieces : ~(Queued(p)' /\ Counted(p)')
    BY <1>5, <1>7, <1>8 DEF IInv, Books, NoPieceTwice
  <2>6. \A j, k \in 1 .. Len(pieces_to_download') :
          pieces_to_download'[j] = pieces_to_download'[k] => j = k
    BY <1>1 DEF IInv, Books, NoPieceTwice
  <2> QED BY <2>1, <2>3, <2>4, <2>5, <2>6 DEF NoPieceTwice, m
<1>12. Ledger!Complete(w)
  <2>1. Hand[w] = h /\ Hand[w] # Wild BY <1>1, <1>2, WildIsNone DEF Hand, h
  <2>2. Hand' = [Hand EXCEPT ![w] = Wild] BY <1>1 DEF Hand
  <2>3. Done' = Done \cup {h} /\ Todo' = Todo BY <1>2, <1>5, <1>7 DEF Todo, Done
  <2> QED BY <1>1, <2>1, <2>2, <2>3 DEF Ledger!Complete
<1> QED BY <1>9, <1>10, <1>11, <1>12 DEF Books, GoodStep, Ledger!Next

(* Initially every piece waits, once, and nothing is counted. *)
LEMMA InitBooks == Init => Books
<1> SUFFICES ASSUME Init PROVE Books
  OBVIOUS
<1>1. /\ pieces_to_download \in Seq(Pieces)
      /\ Len(pieces_to_download) = NumPieces
      /\ \A k \in 1 .. NumPieces : pieces_to_download[k] = k - 1
  BY ConstantFacts DEF Init, Pieces
<1>2. havemesslist \in Seq(Pieces) /\ Len(havemesslist) = 0 /\ deficit = 0
  BY DEF Init
<1>3. \A w \in Workers : pc[w] \notin Holding BY DEF Init, Holding
<1>4. Ranges BY <1>1, <1>2, <1>3 DEF Ranges
<1>5. \A p \in Pieces : Queued(p)
  <2> TAKE p \in Pieces
  <2>1. p + 1 \in 1 .. NumPieces /\ pieces_to_download[p + 1] = p
    BY <1>1, ConstantFacts DEF Pieces
  <2> QED BY <1>1, <2>1 DEF Queued
<1>6. NoPieceLost BY <1>5 DEF NoPieceLost
<1>7. (\A p \in Pieces : ~Counted(p)) /\ \A w \in Workers, p \in Pieces : ~Held(w, p)
  BY <1>2, <1>3 DEF Counted, Held
<1>8. \A j, k \in 1 .. Len(pieces_to_download) :
        pieces_to_download[j] = pieces_to_download[k] => j = k
  BY <1>1, ConstantFacts
<1>9. NoPieceTwice BY <1>2, <1>7, <1>8 DEF NoPieceTwice
<1> QED BY <1>4, <1>6, <1>9 DEF Books

(* A step of a thread that starts and ends outside Holding. *)
LEMMA OutsideKeepsBooks ==
  ASSUME IInv, UNCHANGED <<queueVars, havemesslist, undefined>>,
         NEW w \in Workers, pc[w] \notin Holding, NEW to \in Locations \ Holding,
         pc' = [pc EXCEPT ![w] = to],
         \A v \in Workers : v # w => piece_no'[v] = piece_no[v]
  PROVE  GoodStep
<1>1. pc \in [Workers -> Locations] BY DEF IInv, TypeOK
<1>2. \A v \in Workers : (pc'[v] \in Holding) <=> (pc[v] \in Holding) BY <1>1
<1>3. \A v \in Workers : pc[v] \in Holding => piece_no'[v] = piece_no[v] OBVIOUS
<1> QED BY <1>2, <1>3, SameHands

(* A step of a thread that keeps the piece it has. *)
LEMMA HoldingKeepsBooks ==
  ASSUME IInv, UNCHANGED <<queueVars, havemesslist, undefined, piece_no>>,
         NEW w \in Workers, pc[w] \in Holding, NEW to \in Holding,
         pc' = [pc EXCEPT ![w] = to]
  PROVE  GoodStep
<1>1. pc \in [Workers -> Locations] BY DEF IInv, TypeOK
<1>2. \A v \in Workers : (pc'[v] \in Holding) <=> (pc[v] \in Holding) BY <1>1
<1> QED BY <1>2, SameHands

(* What Goto, Leave and Continue say of a thread. *)
LEMMA MoveFacts ==
  ASSUME IInv, NEW w \in Workers, NEW from, NEW to
  PROVE  /\ Goto(w, from, to) => pc[w] = from /\ pc' = [pc EXCEPT ![w] = to]
         /\ Leave(w, from) => /\ pc[w] = from /\ pc' = [pc EXCEPT ![w] = "idle"]
                              /\ \A v \in Workers : v # w => piece_no'[v] = piece_no[v]
         /\ \A session :
              Continue(w, from, to, session) =>
                pc[w] = from /\ pc' = [pc EXCEPT ![w] = to] /\ UNCHANGED piece_no
BY DEF IInv, TypeOK, Goto, Leave, Continue

(* The books are void once a value nobody wrote was used. *)
LEMMA VoidBooks == ASSUME TypeOK', undefined' PROVE GoodStep
<1>1. Books' BY DEF Books, Ranges, NoPieceLost, NoPieceTwice
<1>2. undefined' = TRUE /\ piece_no' \in [Workers -> Numbers] BY DEF TypeOK
<1>3. Hand' \in [Workers -> Pieces \cup {Wild}] BY <1>2 DEF Hand, Numbers
<1>4. Todo' \in SUBSET Pieces /\ Done' \in SUBSET Pieces BY DEF Todo, Done
<1>5. Ledger!Void BY <1>2, <1>3, <1>4 DEF Ledger!Void
<1> QED BY <1>1, <1>5 DEF GoodStep, Ledger!Next

(* Which of the places of a thread hold a piece. *)
LEMMA Places ==
  /\ {"request", "batch", "assemble", "seek", "write", "count", "list", "putback",
      "giveback"} = Holding
  /\ {"idle", "start", "hello", "sendinterested", "interested", "while",
      "check", "pop", "mark", "farewell", "closing"} = Locations \ Holding
  /\ "batch" \in Receiving
BY DEF Locations, Holding, Receiving

(* A session that ends with no piece in its thread's hands. *)
LEMMA LeaveKeepsBooks ==
  ASSUME IInv, UNCHANGED <<queueVars, havemesslist, undefined>>,
         NEW w \in Workers, NEW from \in Locations \ Holding, Leave(w, from)
  PROVE  GoodStep
<1>1. pc[w] = from /\ pc' = [pc EXCEPT ![w] = "idle"] BY DEF Leave, Goto
<1>2. \A v \in Workers : v # w => piece_no'[v] = piece_no[v] BY MoveFacts
<1> QED BY <1>1, <1>2, OutsideKeepsBooks, Places

(* A session that goes on with no piece in its thread's hands. *)
LEMMA ContinueKeepsBooks ==
  ASSUME IInv, UNCHANGED <<queueVars, havemesslist, undefined>>,
         NEW w \in Workers, NEW from \in Locations \ Holding,
         NEW to \in Locations \ Holding, NEW session, Continue(w, from, to, session)
  PROVE  GoodStep
<1>1. pc[w] = from /\ pc' = [pc EXCEPT ![w] = to] /\ UNCHANGED piece_no
  BY DEF Continue, Goto
<1> QED BY <1>1, OutsideKeepsBooks

(* A thread that goes on with the piece it has. *)
LEMMA GotoKeepsBooks ==
  ASSUME IInv, UNCHANGED <<queueVars, havemesslist, undefined, piece_no>>,
         NEW w \in Workers, NEW from \in Holding, NEW to \in Holding, Goto(w, from, to)
  PROVE  GoodStep
<1>1. pc[w] = from /\ pc' = [pc EXCEPT ![w] = to] BY DEF Goto
<1> QED BY <1>1, HoldingKeepsBooks

(* The main thread, the clock, a message and a pause move no piece. *)
LEMMA AsideKeepsBooks ==
  ASSUME IInv, TypeOK',
         \/ TimePasses \/ Main
         \/ \E w \in Workers : Message(w) \/ Crash(w) \/ Pause(w)
         \/ UNCHANGED vars
  PROVE  GoodStep
<1> USE DEF sharedVars, queueVars, countVars, fileVars, mainVars, historyVars
<1>1. ASSUME UNCHANGED <<queueVars, havemesslist, undefined, pc, piece_no>>
      PROVE  GoodStep
  BY <1>1, SameHands
<1>2. CASE TimePasses BY <1>1, <1>2 DEF TimePasses
<1>3. CASE MainAnnounce \/ TrackersSilent \/ SpawnedAll
  BY <1>1, <1>3 DEF MainAnnounce, TrackersSilent, SpawnedAll
<1>4. ASSUME NEW n \in 1 .. MaxPeers, TrackersAnswer(n) PROVE GoodStep
  BY <1>1, <1>4 DEF TrackersAnswer
<1>5. ASSUME NEW w \in Workers, Spawn(w) PROVE GoodStep
  BY <1>5, OutsideKeepsBooks, Places DEF Spawn, Live
<1>6. ASSUME NEW w \in Workers, Message(w) PROVE GoodStep
  <2>1. \/ UNCHANGED <<sharedVars, pc, piece_no, historyVars>>
        \/ \E cell \in 0 .. NumPieces * NumBlocks - 1 : OnRequest(w, cell)
        \/ ServeBlock(w)
    BY <1>6 DEF Message, OnKeepAlive, OnChoke, OnUnchoke, OnHave, OnBitfield,
                OnPiece, Receives
  <2> QED BY <1>1, <2>1 DEF OnRequest, ServeBlock
<1>7. ASSUME NEW w \in Workers, Crash(w) PROVE GoodStep
  BY <1>7, VoidBooks DEF Crash
<1>8. ASSUME NEW w \in Workers, Pause(w) PROVE GoodStep
  BY <1>1, <1>8 DEF Pause
<1>9. CASE UNCHANGED vars BY <1>1, <1>9 DEF vars
<1> QED BY <1>2, <1>3, <1>4, <1>5, <1>6, <1>7, <1>8, <1>9 DEF Main

(* The set-up of a session. *)
LEMMA SetupKeepsBooks ==
  ASSUME IInv, TypeOK', NEW w \in Workers, Setup(w)
  PROVE  GoodStep
<1> USE DEF sharedVars, queueVars, countVars, historyVars
<1>1. CASE Connect(w)
  <2>1. UNCHANGED <<queueVars, havemesslist, undefined>> BY <1>1 DEF Connect
  <2>2. CASE Continue(w, "start", "hello", FreshSession(downloaded))
    BY <2>1, <2>2, ContinueKeepsBooks, Places
  <2>3. CASE Leave(w, "start") BY <2>1, <2>3, LeaveKeepsBooks, Places
  <2> QED BY <1>1, <2>2, <2>3 DEF Connect
<1>2. CASE HelloSilent(w)
  <2>1. UNCHANGED <<queueVars, havemesslist, undefined>>
    BY <1>2 DEF HelloSilent
  <2>2. Continue(w, "hello", "sendinterested", peerdata[w]) BY <1>2 DEF HelloSilent
  <2> QED BY <2>1, <2>2, ContinueKeepsBooks, Places
<1>3. CASE SendInterested(w)
  <2>1. CASE undefined' BY <2>1, VoidBooks
  <2>2. CASE ~undefined'
    <3>1. UNCHANGED <<queueVars, havemesslist, undefined>>
      BY <1>3, <2>2 DEF SendInterested
    <3>2. CASE Continue(w, "sendinterested", "interested", peerdata[w])
      BY <3>1, <3>2, ContinueKeepsBooks, Places
    <3>3. CASE Leave(w, "sendinterested") BY <3>1, <3>3, LeaveKeepsBooks, Places
    <3> QED BY <1>3, <3>2, <3>3 DEF SendInterested
  <2> QED BY <2>1, <2>2
<1>4. ASSUME NEW s \in Statuses, HelloDone(w, s) PROVE GoodStep
  <2>1. UNCHANGED <<queueVars, havemesslist, undefined>> BY <1>4 DEF HelloDone
  <2>2. CASE Continue(w, "hello", "sendinterested", Heard(w, s))
    BY <2>1, <2>2, ContinueKeepsBooks, Places
  <2>3. CASE Leave(w, "hello") BY <2>1, <2>3, LeaveKeepsBooks, Places
  <2> QED BY <1>4, <2>2, <2>3 DEF HelloDone
<1>5. ASSUME NEW s \in Statuses, InterestedDone(w, s) PROVE GoodStep
  <2>1. UNCHANGED <<queueVars, havemesslist, undefined>>
    BY <1>5 DEF InterestedDone
  <2>2. CASE Continue(w, "interested", "while", Heard(w, s))
    BY <2>1, <2>2, ContinueKeepsBooks, Places
  <2>3. CASE Leave(w, "interested") BY <2>1, <2>3, LeaveKeepsBooks, Places
  <2> QED BY <1>5, <2>2, <2>3 DEF InterestedDone
<1> QED BY <1>1, <1>2, <1>3, <1>4, <1>5 DEF Setup

(* The download loop. *)
LEMMA LoopKeepsBooks ==
  ASSUME IInv, TypeOK', NEW w \in Workers, Loop(w)
  PROVE  GoodStep
<1> USE DEF sharedVars, queueVars, countVars, historyVars
<1>1. CASE WhileStatus(w)
  <2>1. UNCHANGED <<queueVars, havemesslist, undefined>>
    BY <1>1 DEF WhileStatus
  <2>2. PICK to \in {"check", "farewell"} : Continue(w, "while", to, peerdata[w])
    BY <1>1 DEF WhileStatus
  <2> QED BY <2>1, <2>2, ContinueKeepsBooks, Places
<1>2. CASE CheckQueue(w)
  <2>1. UNCHANGED <<queueVars, havemesslist, undefined>> BY <1>2 DEF CheckQueue
  <2>2. CASE \E to \in {"while", "pop"} : Continue(w, "check", to, peerdata[w])
    BY <2>1, <2>2, ContinueKeepsBooks, Places
  <2>3. CASE Leave(w, "check") BY <2>1, <2>3, LeaveKeepsBooks, Places
  <2> QED BY <1>2, <2>2, <2>3 DEF CheckQueue
<1>3. CASE TakePiece(w)
  <2>1. CASE undefined' BY <2>1, VoidBooks
  <2>2. CASE ~undefined'
    <3>1. PopFront(w) /\ ~undefined BY <1>3, <2>2 DEF TakePiece, PopFront, PopNothing
    <3>2. PICK to \in Holding : Goto(w, "pop", to) BY <1>3, Places DEF TakePiece
    <3> QED BY <1>3, <3>1, <3>2, MoveFacts, TakeKeepsBooks, Places DEF TakePiece
  <2> QED BY <2>1, <2>2
<1>4. CASE SendRequests(w)
  <2>1. UNCHANGED <<queueVars, havemesslist, undefined, piece_no>>
    BY <1>4, MoveFacts DEF SendRequests
  <2>2. CASE Continue(w, "request", "batch", AnnounceHaves(w, TRUE))
    <3>1. pc[w] = "request" /\ pc' = [pc EXCEPT ![w] = "batch"]
      BY <2>2 DEF Continue, Goto
    <3> QED BY <2>1, <3>1, HoldingKeepsBooks, Places
  <2>3. CASE Continue(w, "request", "giveback", AnnounceHaves(w, FALSE))
    <3>1. pc[w] = "request" /\ pc' = [pc EXCEPT ![w] = "giveback"]
      BY <2>3 DEF Continue, Goto
    <3> QED BY <2>1, <3>1, HoldingKeepsBooks, Places
  <2> QED BY <1>4, <2>2, <2>3 DEF SendRequests
<1>5. ASSUME NEW s \in Statuses, BatchDone(w, s) PROVE GoodStep
  <2>1. \E to \in Holding : \E session : Continue(w, "batch", to, session)
    BY <1>5, Places DEF BatchDone
  <2>2. UNCHANGED <<queueVars, havemesslist, undefined, piece_no>>
    BY <1>5, <2>1 DEF BatchDone, Continue
  <2>3. PICK to \in Holding : Goto(w, "batch", to) BY <2>1 DEF Continue
  <2> QED BY <2>2, <2>3, GotoKeepsBooks, Places
<1>6. CASE Assemble(w)
  <2>1. UNCHANGED <<queueVars, havemesslist, undefined, piece_no>>
    BY <1>6 DEF Assemble
  <2>2. PICK to \in {"seek", "putback"} : Goto(w, "assemble", to) BY <1>6 DEF Assemble
  <2> QED BY <2>1, <2>2, GotoKeepsBooks, Places
<1>7. CASE SeekPiece(w)
  <2>1. UNCHANGED <<queueVars, havemesslist, undefined, piece_no>>
    BY <1>7 DEF SeekPiece
  <2>2. Goto(w, "seek", "write") BY <1>7 DEF SeekPiece
  <2> QED BY <2>1, <2>2, GotoKeepsBooks, Places
<1>8. CASE WritePiece(w)
  <2>1. UNCHANGED <<queueVars, havemesslist, undefined, piece_no>>
    BY <1>8 DEF WritePiece
  <2>2. Goto(w, "write", "count") BY <1>8 DEF WritePiece
  <2> QED BY <2>1, <2>2, GotoKeepsBooks, Places
<1>9. CASE CountPiece(w)
  <2>1. UNCHANGED <<queueVars, havemesslist, undefined, piece_no>>
    BY <1>9 DEF CountPiece
  <2>2. Goto(w, "count", "list") BY <1>9 DEF CountPiece
  <2> QED BY <2>1, <2>2, GotoKeepsBooks, Places
<1>10. CASE MarkPiece(w)
  <2>1. UNCHANGED <<queueVars, havemesslist, undefined>> BY <1>10 DEF MarkPiece
  <2>2. CASE Continue(w, "mark", "while", peerdata[w])
    BY <2>1, <2>2, ContinueKeepsBooks, Places
  <2>3. CASE Leave(w, "mark") BY <2>1, <2>3, LeaveKeepsBooks, Places
  <2> QED BY <1>10, <2>2, <2>3 DEF MarkPiece
<1>11. CASE ReturnPiece(w)
  <2>1. CASE undefined BY <1>11, <2>1, VoidBooks DEF ReturnPiece
  <2>2. CASE ~undefined
    <3>1. PICK to \in Locations \ Holding :
            /\ pc[w] \in Holding /\ pc' = [pc EXCEPT ![w] = to]
            /\ \A v \in Workers : v # w => piece_no'[v] = piece_no[v]
      BY <1>11, MoveFacts, Places DEF ReturnPiece
    <3> QED BY <1>11, <2>2, <3>1, ReturnKeepsBooks DEF ReturnPiece
  <2> QED BY <2>1, <2>2
<1>12. CASE Farewell(w)
  <2>1. UNCHANGED <<queueVars, havemesslist, undefined>> BY <1>12 DEF Farewell
  <2>2. CASE Continue(w, "farewell", "closing", AnnounceHaves(w, TRUE))
    BY <2>1, <2>2, ContinueKeepsBooks, Places
  <2>3. CASE Leave(w, "farewell") BY <2>1, <2>3, LeaveKeepsBooks, Places
  <2> QED BY <1>12, <2>2, <2>3 DEF Farewell
<1>13. CASE Close(w)
  <2>1. UNCHANGED <<queueVars, havemesslist, undefined>> BY <1>13 DEF Close
  <2>2. Leave(w, "closing") BY <1>13 DEF Close
  <2> QED BY <2>1, <2>2, LeaveKeepsBooks, Places
<1>14. CASE ListPiece(w)
  <2>1. CASE undefined BY <1>14, <2>1, VoidBooks DEF ListPiece
  <2>2. CASE ~undefined BY <1>14, <2>2, ListKeepsBooks
  <2> QED BY <2>1, <2>2
<1> QED BY <1>1, <1>2, <1>3, <1>4, <1>5, <1>6, <1>7, <1>8, <1>9, <1>10, <1>11,
           <1>12, <1>13, <1>14 DEF Loop

(* The invariant is inductive, and a step from it is one of the ledger. *)
LEMMA Inductive == IInv /\ [Next]_vars => IInv' /\ [Ledger!Next]_(Ledger!vars)
<1> SUFFICES ASSUME IInv, [Next]_vars PROVE IInv' /\ [Ledger!Next]_(Ledger!vars)
  OBVIOUS
<1>1. TypeOK' /\ CountOK' BY NextType, NextCount DEF IInv
<1>2. GoodStep BY <1>1, AsideKeepsBooks, SetupKeepsBooks, LoopKeepsBooks DEF Next, Quiet
<1> QED BY <1>1, <1>2 DEF IInv, GoodStep

(* What the other theorems rest on: the types and the books of the pieces. *)
THEOREM InductiveInvariant == Spec => []IInv
<1>1. Init => IInv BY InitType, InitCount, InitBooks DEF IInv
<1> QED BY <1>1, Inductive, PTL DEF Spec

(* The counter is the number of pieces announced as complete, or one more  *)
(* while a thread holds the lock to announce it, and as long as no value   *)
(* nobody wrote is used, only pieces go through the queue.                 *)
THEOREM AccountsKept == Spec => []Accounts
<1>1. IInv => Accounts BY DEF IInv, CountOK, Books, Ranges, Accounts
<1> QED BY <1>1, InductiveInvariant, PTL

(* No way out of a session loses the piece the thread was fetching. *)
THEOREM PiecesKept == Spec => []NoPieceLost
<1>1. IInv => NoPieceLost BY DEF IInv, Books
<1> QED BY <1>1, InductiveInvariant, PTL

(* No piece is fetched by two threads, nor again once it is counted. *)
THEOREM PiecesApart == Spec => []NoPieceTwice
<1>1. IInv => NoPieceTwice BY DEF IInv, Books
<1> QED BY <1>1, InductiveInvariant, PTL

(* The pigeons: as many entries as pieces, all different, are all pieces.  *)
LEMMA AllEntries ==
  ASSUME NEW m \in Seq(Pieces), Len(m) >= NumPieces,
         \A j, k \in 1 .. Len(m) : m[j] = m[k] => j = k,
         NEW p \in Pieces
  PROVE  \E k \in 1 .. Len(m) : m[k] = p
<1> DEFINE S == 1 .. Len(m)
<1>1. Len(m) \in Nat /\ m \in [S -> Pieces] OBVIOUS
<1>2. m \in Injection(S, Pieces) BY <1>1 DEF Injection, IsInjective
<1>3. IsFiniteSet(Pieces) /\ Cardinality(Pieces) = NumPieces
  BY FS_Interval, ConstantFacts DEF Pieces
<1>4. Cardinality(S) = Len(m)
  <2>1. \A n \in Nat : Cardinality(1 .. n) = n BY FS_Interval
  <2> QED BY <1>1, <2>1
<1>5. /\ Cardinality(S) <= Cardinality(Pieces)
      /\ Cardinality(S) = Cardinality(Pieces) <=> m \in Surjection(S, Pieces)
  BY <1>2, <1>3, FS_Injection
<1>6. m \in Surjection(S, Pieces) BY <1>1, <1>3, <1>4, <1>5, ConstantFacts
<1> QED BY <1>6 DEF Surjection

(* With a full counter the list lacks at most the piece of the thread that *)
(* has the lock.                                                           *)
LEMMA AllCounted ==
  ASSUME IInv, ~undefined, downloaded >= NumPieces, NEW p \in Pieces
  PROVE  Counted(p) \/ \E w \in Workers : pc[w] = "list" /\ piece_no[w] = p
<1> DEFINE m == havemesslist
<1>1. /\ m \in Seq(Pieces) /\ Len(m) \in Nat /\ downloaded \in Nat
      /\ downloaded = Len(m) + (IF Unlocked THEN 0 ELSE 1)
  BY DEF IInv, TypeOK, CountOK, Books, Ranges
<1>2. \A j, k \in 1 .. Len(m) : m[j] = m[k] => j = k
  BY DEF IInv, Books, NoPieceTwice
<1> HIDE DEF m
<1>3. CASE Unlocked
  <2>1. Len(m) >= NumPieces BY <1>1, <1>3
  <2>2. \E k \in 1 .. Len(m) : m[k] = p BY <1>1, <1>2, <2>1, AllEntries
  <2> QED BY <2>2 DEF Counted, m
<1>4. CASE ~Unlocked
  <2>1. PICK w \in Workers : pc[w] = "list" BY <1>4 DEF Unlocked
  <2>2. PICK h, n : h = piece_no[w] /\ n = Append(m, h) OBVIOUS
  <2>3. "list" \in Holding BY DEF Holding
  <2>4. h \in Pieces /\ Held(w, h)
    BY <2>1, <2>2, <2>3 DEF Held, IInv, Books, Ranges
  <2>5. ~Counted(h) BY <2>4 DEF IInv, Books, NoPieceTwice
  <2>6. \A k \in 1 .. Len(m) : m[k] # h BY <2>5 DEF Counted, m
  <2>7. /\ n \in Seq(Pieces) /\ Len(n) = Len(m) + 1 /\ n[Len(m) + 1] = h
        /\ \A k \in 1 .. Len(m) : n[k] = m[k]
    BY <1>1, <2>2, <2>4
  <2>8. Len(n) >= NumPieces BY <1>1, <1>4, <2>7
  <2>9. \A k \in 1 .. Len(n) : k \in 1 .. Len(m) \/ k = Len(m) + 1 BY <1>1, <2>7
  <2>10. \A j, k \in 1 .. Len(n) : n[j] = n[k] => j = k
    BY <1>2, <2>6, <2>7, <2>9
  <2>11. PICK k \in 1 .. Len(n) : n[k] = p BY <2>7, <2>8, <2>10, AllEntries
  <2>12. CASE k \in 1 .. Len(m) BY <2>7, <2>11, <2>12 DEF Counted, m
  <2>13. CASE k = Len(m) + 1 BY <2>1, <2>2, <2>7, <2>11, <2>13
  <2> QED BY <2>9, <2>12, <2>13
<1> QED BY <1>3, <1>4

LEMMA BooksComplete == IInv => CompleteMeansAll
<1> SUFFICES ASSUME IInv, ~undefined, downloaded >= NumPieces
             PROVE  /\ \A p \in Pieces :
                         Counted(p) \/ \E w \in Workers : pc[w] = "list" /\ piece_no[w] = p
                    /\ pieces_to_download = <<>>
                    /\ \A w \in Workers : pc[w] \in Holding => pc[w] = "list"
  BY DEF CompleteMeansAll
<1>0. "list" \in Holding BY DEF Holding
<1>1. \A p \in Pieces :
        Counted(p) \/ \E w \in Workers : pc[w] = "list" /\ Held(w, p)
  BY <1>0, AllCounted DEF Held
<1>2. pieces_to_download = <<>>
  <2>1. pieces_to_download \in Seq(Pieces) BY DEF IInv, Books, Ranges
  <2>2. ASSUME pieces_to_download # <<>> PROVE FALSE
    <3>1. /\ 1 \in 1 .. Len(pieces_to_download)
          /\ pieces_to_download[1] \in Pieces
      BY <2>1, <2>2
    <3>2. Queued(pieces_to_download[1]) BY <3>1 DEF Queued
    <3> QED BY <1>1, <3>1, <3>2 DEF IInv, Books, NoPieceTwice
  <2> QED BY <2>2
<1>3. ASSUME NEW w \in Workers, pc[w] \in Holding PROVE pc[w] = "list"
  <2>1. piece_no[w] \in Pieces BY <1>3 DEF IInv, Books, Ranges
  <2>2. Held(w, piece_no[w]) BY <1>3 DEF Held
  <2>3. ~Counted(piece_no[w]) BY <2>1, <2>2 DEF IInv, Books, NoPieceTwice
  <2>4. PICK v \in Workers : pc[v] = "list" /\ Held(v, piece_no[w]) BY <1>1, <2>1, <2>3
  <2>5. v = w BY <2>1, <2>2, <2>4 DEF IInv, Books, NoPieceTwice
  <2> QED BY <2>4, <2>5
<1> QED BY <1>2, <1>3, AllCounted

(* The counter reaches the number of pieces only with every piece in, or   *)
(* in the hands of the thread that has the lock to list it.                *)
THEOREM CompleteIsComplete == Spec => []CompleteMeansAll
BY BooksComplete, InductiveInvariant, PTL

LEMMA LedgerBegins == Init => Ledger!Init
<1> SUFFICES ASSUME Init PROVE Ledger!Init
  OBVIOUS
<1>1. IInv BY InitType, InitCount, InitBooks DEF IInv
<1>2. ~undefined /\ undefined = FALSE BY DEF Init
<1>3. \A w \in Workers : pc[w] \notin Holding BY DEF Init, Holding
<1>4. \A p \in Pieces : ~Counted(p) BY DEF Init, Counted
<1>5. \A p \in Pieces : Queued(p)
  BY <1>1, <1>2, <1>3, <1>4 DEF IInv, Books, NoPieceLost, Held
<1>6. Todo = Pieces /\ Done = {} BY <1>4, <1>5 DEF Todo, Done
<1>7. Hand = [w \in Workers |-> Wild] BY <1>3 DEF Hand
<1> QED BY <1>2, <1>6, <1>7 DEF Ledger!Init

(* The threads, the queue and the list of HAVE entries keep the ledger of  *)
(* pieces, for any number of peers, pieces and faults.                     *)
THEOREM LedgerKept == Spec => KeepsLedger
BY LedgerBegins, InductiveInvariant, Inductive, PTL DEF Spec, Ledger!Spec, KeepsLedger


-----------------------------------------------------------------------------
(* What a peer has been told.                                              *)

Entries(from, to) == { havemesslist[k] : k \in from + 1 .. to }

(* The HAVE messages of a session name the entries from the first value of *)
(* no_of_havesent to the present one, unless a send has failed, after      *)
(* which the session ends.  The first value, read without the lock, may be *)
(* one ahead of the list.                                                  *)
TellOK(w) ==
  /\ peerdata[w].have_base <= peerdata[w].no_of_havesent
  /\ \/ peerdata[w].no_of_havesent <= Len(havemesslist)
     \/ /\ peerdata[w].no_of_havesent = peerdata[w].have_base
        /\ peerdata[w].no_of_havesent <= downloaded
  /\ pc[w] # "giveback" =>
       peerdata[w].told = Entries(peerdata[w].have_base, peerdata[w].no_of_havesent)

(* The counter may be the first value because it is the list's length      *)
(* wherever the list is read, also after an undefined value was used.      *)
TellInv == CountOK /\ \A w \in Workers : TellOK(w)

(* How the counter and the list of HAVE entries may change. *)
ListStep ==
  \/ UNCHANGED <<downloaded, havemesslist>>
  \/ downloaded' = downloaded + 1 /\ UNCHANGED havemesslist
  \/ \E p \in Numbers : havemesslist' = Append(havemesslist, p) /\ UNCHANGED downloaded

(* What a step does to the account of one thread. *)
SameTold(w) ==
  /\ peerdata'[w].have_base = peerdata[w].have_base
  /\ peerdata'[w].no_of_havesent = peerdata[w].no_of_havesent
  /\ peerdata'[w].told = peerdata[w].told
  /\ pc[w] = "giveback" => pc'[w] = "giveback"

FreshTold(w) == \E n \in {0, downloaded} : peerdata'[w] = FreshSession(n)

MoreTold(w) ==
  /\ pc[w] # "giveback"
  /\ Unlocked /\ UNCHANGED havemesslist
  /\ \/ peerdata'[w] = AnnounceHaves(w, TRUE)
     \/ peerdata'[w] = AnnounceHaves(w, FALSE) /\ pc'[w] = "giveback"

LEMMA ListGrows ==
  ASSUME TypeOK, ListStep
  PROVE  /\ havemesslist' \in Seq(Numbers) /\ Len(havemesslist) <= Len(havemesslist')
         /\ Len(havemesslist) \in Nat /\ Len(havemesslist') \in Nat
         /\ downloaded \in Nat /\ downloaded' \in Nat /\ downloaded <= downloaded'
         /\ \A k \in 1 .. Len(havemesslist) : havemesslist'[k] = havemesslist[k]
<1>1. havemesslist \in Seq(Numbers) /\ downloaded \in Nat BY DEF TypeOK
<1>2. CASE UNCHANGED havemesslist /\ downloaded' \in {downloaded, downloaded + 1}
  BY <1>1, <1>2
<1>3. ASSUME NEW p \in Numbers, havemesslist' = Append(havemesslist, p)
      PROVE  /\ havemesslist' \in Seq(Numbers) /\ Len(havemesslist') = Len(havemesslist) + 1
             /\ \A k \in 1 .. Len(havemesslist) : havemesslist'[k] = havemesslist[k]
  BY <1>1, <1>3
<1> QED BY <1>1, <1>2, <1>3 DEF ListStep

LEMMA TellKept ==
  ASSUME TypeOK, TellInv, ListStep, NEW w \in Workers,
         SameTold(w) \/ FreshTold(w) \/ MoreTold(w)
  PROVE  TellOK(w)'
<1> DEFINE base == peerdata[w].have_base
           sent == peerdata[w].no_of_havesent
<1>1. base \in Nat /\ sent \in Nat /\ TellOK(w)
  BY DEF TypeOK, Sessions, TellInv
<1>2. /\ havemesslist' \in Seq(Numbers) /\ Len(havemesslist) <= Len(havemesslist')
      /\ Len(havemesslist) \in Nat /\ Len(havemesslist') \in Nat
      /\ downloaded \in Nat /\ downloaded' \in Nat /\ downloaded <= downloaded'
      /\ \A k \in 1 .. Len(havemesslist) : havemesslist'[k] = havemesslist[k]
  BY ListGrows
<1>3. CASE SameTold(w)
  <2>1. base <= sent /\ (sent <= Len(havemesslist) \/ (sent = base /\ sent <= downloaded))
    BY <1>1 DEF TellOK
  <2>2. /\ peerdata'[w].have_base = base /\ peerdata'[w].no_of_havesent = sent
        /\ peerdata'[w].told = peerdata[w].told /\ (pc[w] = "giveback" => pc'[w] = "giveback")
    BY <1>3 DEF SameTold
  <2>3. { havemesslist'[k] : k \in base + 1 .. sent } = Entries(base, sent)
    <3>1. \A k \in base + 1 .. sent : havemesslist'[k] = havemesslist[k]
      BY <1>1, <1>2, <2>1
    <3> QED BY <3>1 DEF Entries
  <2>4. \/ peerdata'[w].no_of_havesent <= Len(havemesslist')
        \/ /\ peerdata'[w].no_of_havesent = peerdata'[w].have_base
           /\ peerdata'[w].no_of_havesent <= downloaded'
    BY <1>1, <1>2, <2>1, <2>2
  <2>5. pc'[w] # "giveback" =>
          peerdata'[w].told = Entries(peerdata[w].have_base, peerdata[w].no_of_havesent)'
    BY <1>1, <2>2, <2>3 DEF Entries, TellOK
  <2> QED BY <2>1, <2>2, <2>4, <2>5 DEF TellOK
<1>4. CASE FreshTold(w)
  <2>1. PICK n \in {0, downloaded} : peerdata'[w] = FreshSession(n) BY <1>4 DEF FreshTold
  <2>2. n \in Nat /\ n <= downloaded' BY <1>1, <1>2, <2>1
  <2>3. /\ peerdata'[w].have_base = n /\ peerdata'[w].no_of_havesent = n
        /\ peerdata'[w].told = {}
    BY <2>1 DEF FreshSession
  <2>4. n + 1 .. n = {} BY <2>2
  <2> QED BY <2>2, <2>3, <2>4 DEF TellOK, Entries
<1>5. CASE MoreTold(w)
  <2> DEFINE n == Len(havemesslist)
  <2>0. downloaded = n BY <1>2, <1>5 DEF MoreTold, TellInv, CountOK
  <2>1. base <= sent /\ sent <= n /\ peerdata[w].told = Entries(base, sent)
    BY <1>1, <1>5, <2>0 DEF TellOK, MoreTold
  <2>2. HavesSent(w) = n BY <1>1, <1>2, <2>1 DEF HavesSent
  <2>3. /\ peerdata'[w].have_base = base /\ peerdata'[w].no_of_havesent = n
        /\ pc'[w] # "giveback" => peerdata'[w].told = Entries(base, sent) \cup NewHaves(w)
    <3>1. peerdata[w] \in Sessions BY DEF TypeOK
    <3>2. \A s : /\ AnnounceHaves(w, s).have_base = base
                 /\ AnnounceHaves(w, s).no_of_havesent = HavesSent(w)
      BY <3>1 DEF AnnounceHaves, Sessions
    <3>3. AnnounceHaves(w, TRUE).told = peerdata[w].told \cup NewHaves(w)
      BY <3>1 DEF AnnounceHaves, Sessions
    <3> QED BY <1>5, <2>1, <2>2, <3>2, <3>3 DEF MoreTold
  <2>4. Entries(base, sent) \cup NewHaves(w) = Entries(base, n)
    <3>1. base + 1 .. n = (base + 1 .. sent) \cup (sent + 1 .. n) BY <1>1, <1>2, <2>1
    <3> QED BY <3>1 DEF Entries, NewHaves
  <2>5. Entries(base, n) = { havemesslist'[k] : k \in base + 1 .. n } /\ n = Len(havemesslist')
    BY <1>5 DEF Entries, MoreTold
  <2> HIDE DEF base, sent, n
  <2>6. base <= n /\ n <= n BY <1>1, <1>2, <2>1 DEF n
  <2> QED BY <2>3, <2>4, <2>5, <2>6 DEF TellOK, Entries
<1> QED BY <1>3, <1>4, <1>5

(* A step of one thread leaves the accounts of the others. *)
LEMMA OthersTold ==
  ASSUME TypeOK, NEW w \in Workers, NEW to, NEW session,
         pc' = [pc EXCEPT ![w] = to] \/ UNCHANGED pc,
         peerdata' = [peerdata EXCEPT ![w] = session] \/ UNCHANGED peerdata
  PROVE  \A v \in Workers : v # w => SameTold(v)
BY DEF TypeOK, SameTold

Tells(w) == SameTold(w) \/ FreshTold(w) \/ MoreTold(w)

(* A session that ends, and one that goes on with the same account. *)
LEMMA LeaveTells ==
  ASSUME TypeOK, NEW w \in Workers, NEW from, Leave(w, from)
  PROVE  \A v \in Workers : Tells(v)
<1>1. pc' = [pc EXCEPT ![w] = "idle"] /\ peerdata' = [peerdata EXCEPT ![w] = FreshSession(0)]
  BY DEF Leave, Goto
<1>2. FreshTold(w) BY <1>1 DEF FreshTold, TypeOK
<1> QED BY <1>1, <1>2, OthersTold DEF Tells

SameAccount(w, session) ==
  /\ session.have_base = peerdata[w].have_base
  /\ session.no_of_havesent = peerdata[w].no_of_havesent
  /\ session.told = peerdata[w].told

LEMMA GoTells ==
  ASSUME TypeOK, NEW w \in Workers, NEW from, NEW to, Goto(w, from, to), from # "giveback",
         NEW session, SameAccount(w, session),
         peerdata' = [peerdata EXCEPT ![w] = session] \/ UNCHANGED peerdata
  PROVE  \A v \in Workers : Tells(v)
<1>1. pc[w] = from /\ pc' = [pc EXCEPT ![w] = to] BY DEF Goto
<1>2. SameTold(w) BY <1>1 DEF SameTold, SameAccount, TypeOK
<1> QED BY <1>1, <1>2, OthersTold DEF Tells

LEMMA ContinueTells ==
  ASSUME TypeOK, NEW w \in Workers, NEW from, NEW to, NEW session,
         Continue(w, from, to, session), from # "giveback", SameAccount(w, session)
  PROVE  \A v \in Workers : Tells(v)
BY GoTells DEF Continue

(* A change of other fields in place. *)
LEMMA StayTells ==
  ASSUME TypeOK, NEW w \in Workers, UNCHANGED pc, NEW session, SameAccount(w, session),
         peerdata' = [peerdata EXCEPT ![w] = session] \/ UNCHANGED peerdata
  PROVE  \A v \in Workers : Tells(v)
<1>1. SameTold(w) BY DEF SameTold, SameAccount, TypeOK
<1> QED BY <1>1, OthersTold DEF Tells


(* The main thread, the clock, a message, a crash and a pause. *)
LEMMA AsideTells ==
  ASSUME TypeOK,
         \/ TimePasses \/ Main
         \/ \E w \in Workers : Message(w) \/ Crash(w) \/ Pause(w)
         \/ UNCHANGED vars
  PROVE  ListStep /\ \A v \in Workers : Tells(v)
<1> USE DEF sharedVars, countVars
<1>0. /\ \A w \in Workers : peerdata[w] \in Sessions
      /\ peerdata \in [Workers -> Sessions] /\ pc \in [Workers -> Locations]
  BY DEF TypeOK
<1>1. ASSUME UNCHANGED <<pc, peerdata>> PROVE \A v \in Workers : Tells(v)
  BY <1>1 DEF Tells, SameTold
<1>2. CASE TimePasses BY <1>1, <1>2 DEF TimePasses, ListStep
<1>3. CASE MainAnnounce \/ TrackersSilent \/ SpawnedAll
  BY <1>1, <1>3 DEF MainAnnounce, TrackersSilent, SpawnedAll, ListStep
<1>4. ASSUME NEW n \in 1 .. MaxPeers, TrackersAnswer(n)
      PROVE  ListStep /\ \A v \in Workers : Tells(v)
  BY <1>1, <1>4 DEF TrackersAnswer, ListStep
<1>5. ASSUME NEW w \in Workers, Spawn(w) PROVE ListStep /\ \A v \in Workers : Tells(v)
  <2>1. pc[w] = "idle" /\ pc' = [pc EXCEPT ![w] = "start"] /\ UNCHANGED peerdata
    BY <1>5 DEF Spawn, Live
  <2>2. \A v \in Workers : SameTold(v) BY <1>0, <2>1 DEF SameTold
  <2> QED BY <1>5, <2>2 DEF Spawn, ListStep, Tells
<1>6. ASSUME NEW w \in Workers, Message(w) PROVE ListStep /\ \A v \in Workers : Tells(v)
  <2>1. UNCHANGED <<pc, downloaded, havemesslist>>
    BY <1>6 DEF Message, OnKeepAlive, OnChoke, OnUnchoke, OnHave, OnBitfield, OnPiece,
                OnRequest, ServeBlock, Receives
  <2>2. \E session : SameAccount(w, session) /\ peerdata' = [peerdata EXCEPT ![w] = session]
    <3>1. CASE OnKeepAlive(w) \/ OnChoke(w) \/ OnUnchoke(w) \/ ServeBlock(w)
      BY <1>0, <3>1 DEF OnKeepAlive, OnChoke, OnUnchoke, ServeBlock, SameAccount, Sessions
    <3>2. ASSUME NEW p \in Pieces, OnHave(w, p)
          PROVE  \E session : SameAccount(w, session)
                              /\ peerdata' = [peerdata EXCEPT ![w] = session]
      BY <1>0, <3>2 DEF OnHave, SameAccount, Sessions
    <3>3. ASSUME NEW S \in SUBSET Pieces, OnBitfield(w, S)
          PROVE  \E session : SameAccount(w, session)
                              /\ peerdata' = [peerdata EXCEPT ![w] = session]
      BY <1>0, <3>3 DEF OnBitfield, SameAccount, Sessions
    <3>4. ASSUME NEW b \in Blocks, NEW cell \in Cells \ {Empty}, OnPiece(w, b, cell)
          PROVE  \E session : SameAccount(w, session)
                              /\ peerdata' = [peerdata EXCEPT ![w] = session]
      BY <1>0, <3>4 DEF OnPiece, SameAccount, Sessions
    <3>5. ASSUME NEW cell \in 0 .. NumPieces * NumBlocks - 1, OnRequest(w, cell)
          PROVE  \E session : SameAccount(w, session)
                              /\ peerdata' = [peerdata EXCEPT ![w] = session]
      BY <1>0, <3>5 DEF OnRequest, SameAccount, Sessions
    <3> QED BY <1>6, <3>1, <3>2, <3>3, <3>4, <3>5 DEF Message
  <2> QED BY <2>1, <2>2, StayTells DEF ListStep
<1>7. ASSUME NEW w \in Workers, Crash(w) PROVE ListStep /\ \A v \in Workers : Tells(v)
  BY <1>1, <1>7 DEF Crash, ListStep
<1>8. ASSUME NEW w \in Workers, Pause(w) PROVE ListStep /\ \A v \in Workers : Tells(v)
  <2>1. \E session : SameAccount(w, session) /\ peerdata' = [peerdata EXCEPT ![w] = session]
    BY <1>0, <1>8 DEF Pause, SameAccount, Sessions
  <2> QED BY <1>8, <2>1, StayTells DEF Pause, ListStep
<1>9. CASE UNCHANGED vars BY <1>1, <1>9 DEF vars, ListStep
<1> QED BY <1>2, <1>3, <1>4, <1>5, <1>6, <1>7, <1>8, <1>9 DEF Main

(* The sessions a thread goes on with. *)
LEMMA SameAccounts ==
  ASSUME TypeOK, NEW w \in Workers, NEW status, NEW n
  PROVE  /\ SameAccount(w, peerdata[w])
         /\ SameAccount(w, Heard(w, status))
         /\ SameAccount(w, [Heard(w, status) EXCEPT !.batch_start = n])
         /\ SameAccount(w, [peerdata[w] EXCEPT !.batch_start = n])
BY DEF TypeOK, SameAccount, Sessions, Heard

LEMMA SetupTells ==
  ASSUME TypeOK, NEW w \in Workers, Setup(w)
  PROVE  ListStep /\ \A v \in Workers : Tells(v)
<1>1. ListStep
  BY DEF Setup, Connect, HelloSilent, SendInterested, HelloDone, InterestedDone, sharedVars,
         countVars, ListStep
<1> SUFFICES \A v \in Workers : Tells(v) BY <1>1
<1>2. CASE Connect(w)
  <2>1. CASE Continue(w, "start", "hello", FreshSession(downloaded))
    <3>1. /\ pc' = [pc EXCEPT ![w] = "hello"]
          /\ peerdata' = [peerdata EXCEPT ![w] = FreshSession(downloaded)]
      BY <2>1 DEF Continue, Goto
    <3>2. FreshTold(w) BY <3>1 DEF FreshTold, TypeOK
    <3> QED BY <3>1, <3>2, OthersTold DEF Tells
  <2>2. CASE Leave(w, "start") BY <2>2, LeaveTells
  <2> QED BY <1>2, <2>1, <2>2 DEF Connect
<1>3. CASE HelloSilent(w)
  BY <1>3, ContinueTells, SameAccounts DEF HelloSilent
<1>4. CASE SendInterested(w)
  BY <1>4, ContinueTells, LeaveTells, SameAccounts DEF SendInterested
<1>5. ASSUME NEW s \in Statuses, HelloDone(w, s) PROVE \A v \in Workers : Tells(v)
  BY <1>5, ContinueTells, LeaveTells, SameAccounts DEF HelloDone
<1>6. ASSUME NEW s \in Statuses, InterestedDone(w, s) PROVE \A v \in Workers : Tells(v)
  BY <1>6, ContinueTells, LeaveTells, SameAccounts DEF InterestedDone
<1> QED BY <1>2, <1>3, <1>4, <1>5, <1>6 DEF Setup

LEMMA LoopTells ==
  ASSUME TypeOK, NEW w \in Workers, Loop(w)
  PROVE  ListStep /\ \A v \in Workers : Tells(v)
<1>1. ListStep
  <2>1. CASE CountPiece(w)
    BY <2>1 DEF CountPiece, ListStep
  <2>2. CASE ListPiece(w)
    <3>1. piece_no[w] \in Numbers BY DEF TypeOK
    <3> QED BY <2>2, <3>1 DEF ListPiece, ListStep
  <2>3. CASE ~CountPiece(w) /\ ~ListPiece(w)
    BY <2>3 DEF Loop, WhileStatus, CheckQueue, TakePiece, SendRequests, BatchDone, Assemble,
                SeekPiece, WritePiece, MarkPiece, ReturnPiece, Farewell, Close, sharedVars,
                countVars, ListStep
  <2> QED BY <2>1, <2>2, <2>3
<1> SUFFICES \A v \in Workers : Tells(v) BY <1>1
<1>2. CASE WhileStatus(w)
  BY <1>2, ContinueTells, SameAccounts DEF WhileStatus
<1>3. CASE CheckQueue(w)
  BY <1>3, ContinueTells, LeaveTells, SameAccounts DEF CheckQueue
<1>4. CASE TakePiece(w)
  <2>1. PICK to : Goto(w, "pop", to) BY <1>4 DEF TakePiece
  <2>2. peerdata' = [peerdata EXCEPT ![w] = [peerdata[w] EXCEPT !.batch_start = 0]]
    BY <1>4 DEF TakePiece, TypeOK
  <2> QED BY <2>1, <2>2, GoTells, SameAccounts
<1>5. CASE SendRequests(w)
  <2>1. Unlocked /\ UNCHANGED havemesslist
    BY <1>5 DEF SendRequests, sharedVars, countVars
  <2>2. CASE Continue(w, "request", "batch", AnnounceHaves(w, TRUE))
    <3>1. /\ pc[w] = "request" /\ pc' = [pc EXCEPT ![w] = "batch"]
          /\ peerdata' = [peerdata EXCEPT ![w] = AnnounceHaves(w, TRUE)]
      BY <2>2 DEF Continue, Goto
    <3>2. MoreTold(w) BY <2>1, <3>1 DEF MoreTold, TypeOK
    <3> QED BY <3>1, <3>2, OthersTold DEF Tells
  <2>3. CASE Continue(w, "request", "giveback", AnnounceHaves(w, FALSE))
    <3>1. /\ pc[w] = "request" /\ pc' = [pc EXCEPT ![w] = "giveback"]
          /\ peerdata' = [peerdata EXCEPT ![w] = AnnounceHaves(w, FALSE)]
      BY <2>3 DEF Continue, Goto
    <3>2. MoreTold(w) BY <2>1, <3>1 DEF MoreTold, TypeOK
    <3> QED BY <3>1, <3>2, OthersTold DEF Tells
  <2> QED BY <1>5, <2>2, <2>3 DEF SendRequests
<1>6. ASSUME NEW s \in Statuses, BatchDone(w, s) PROVE \A v \in Workers : Tells(v)
  <2>1. PICK to, session : Continue(w, "batch", to, session) /\ SameAccount(w, session)
    BY <1>6, SameAccounts DEF BatchDone
  <2> QED BY <2>1, ContinueTells
<1>7. CASE Assemble(w)
  <2>1. PICK to : Goto(w, "assemble", to) BY <1>7 DEF Assemble
  <2>2. PICK session : SameAccount(w, session)
                       /\ peerdata' = [peerdata EXCEPT ![w] = session]
    BY <1>7 DEF Assemble, SameAccount, TypeOK, Sessions
  <2> QED BY <2>1, <2>2, GoTells
<1>8. CASE SeekPiece(w) \/ WritePiece(w) \/ CountPiece(w) \/ ListPiece(w)
  <2>1. PICK from, to : from \in {"seek", "write", "count", "list"} /\ Goto(w, from, to)
    BY <1>8 DEF SeekPiece, WritePiece, CountPiece, ListPiece
  <2>2. UNCHANGED peerdata BY <1>8 DEF SeekPiece, WritePiece, CountPiece, ListPiece
  <2> QED BY <2>1, <2>2, GoTells, SameAccounts
<1>9. CASE MarkPiece(w) \/ ReturnPiece(w)
  BY <1>9, ContinueTells, LeaveTells, SameAccounts DEF MarkPiece, ReturnPiece
<1>10. CASE Farewell(w)
  <2>1. CASE Leave(w, "farewell") BY <2>1, LeaveTells
  <2>2. CASE Continue(w, "farewell", "closing", AnnounceHaves(w, TRUE))
    <3>1. /\ pc[w] = "farewell" /\ pc' = [pc EXCEPT ![w] = "closing"]
          /\ peerdata' = [peerdata EXCEPT ![w] = AnnounceHaves(w, TRUE)]
          /\ Unlocked /\ UNCHANGED havemesslist
      BY <1>10, <2>2 DEF Farewell, Continue, Goto, sharedVars, countVars
    <3>2. MoreTold(w) BY <3>1 DEF MoreTold, TypeOK
    <3> QED BY <3>1, <3>2, OthersTold DEF Tells
  <2> QED BY <1>10, <2>1, <2>2 DEF Farewell
<1>11. CASE Close(w) BY <1>11, LeaveTells DEF Close
<1> QED BY <1>2, <1>3, <1>4, <1>5, <1>6, <1>7, <1>8, <1>9, <1>10, <1>11 DEF Loop

LEMMA NextTells == TypeOK /\ TellInv /\ [Next]_vars => TellInv'
<1> SUFFICES ASSUME TypeOK, TellInv, [Next]_vars PROVE TellInv'
  OBVIOUS
<1>1. ListStep /\ \A v \in Workers : Tells(v)
  BY AsideTells, SetupTells, LoopTells DEF Next, Quiet
<1>2. CountOK' BY NextCount DEF TellInv
<1>3. \A v \in Workers : TellOK(v)' BY <1>1, TellKept DEF Tells
<1> QED BY <1>2, <1>3 DEF TellInv

(* One step of the code goes from the end of the loop to the close. *)
LEMMA OnlyFarewell ==
  ASSUME TypeOK, [Next]_vars, NEW w \in Workers, pc[w] = "farewell", pc'[w] = "closing"
  PROVE  peerdata'[w] = AnnounceHaves(w, TRUE) /\ Unlocked /\ UNCHANGED havemesslist
<1>1. pc \in [Workers -> Locations] /\ peerdata \in [Workers -> Sessions] BY DEF TypeOK
<1>2. ASSUME NEW v, NEW from, NEW to, Goto(v, from, to) PROVE v = w /\ from = "farewell"
  BY <1>1, <1>2 DEF Goto
<1>3. /\ \A v, from : Leave(v, from) => v = w /\ from = "farewell"
      /\ \A v, from, to, session :
           Continue(v, from, to, session) => v = w /\ from = "farewell"
  BY <1>2 DEF Leave, Continue
<1>4. ASSUME NEW v \in Workers, Setup(v) PROVE FALSE
  BY <1>3, <1>4 DEF Setup, Connect, HelloSilent, SendInterested, HelloDone, InterestedDone
<1>5. ASSUME NEW v \in Workers, Message(v) \/ Crash(v) \/ Pause(v) PROVE FALSE
  BY <1>5 DEF Message, OnKeepAlive, OnChoke, OnUnchoke, OnHave, OnBitfield, OnPiece,
              OnRequest, ServeBlock, Receives, Crash, Pause, sharedVars
<1>6. ~ TimePasses /\ ~ Main /\ ~ UNCHANGED vars
  <2>1. UNCHANGED pc => FALSE OBVIOUS
  <2>2. ASSUME NEW v \in Workers, Spawn(v) PROVE FALSE
    BY <1>1, <2>2 DEF Spawn, Live
  <2> QED BY <2>1, <2>2 DEF TimePasses, Main, MainAnnounce, TrackersAnswer, TrackersSilent,
                          SpawnedAll, vars
<1>7. ASSUME NEW v \in Workers, Loop(v) PROVE v = w /\ Farewell(v)
  <2>1. ~ WhileStatus(v) /\ ~ CheckQueue(v) /\ ~ TakePiece(v)
    BY <1>2, <1>3 DEF WhileStatus, CheckQueue, TakePiece
  <2>2. \A s \in Statuses : ~ BatchDone(v, s) BY <1>3 DEF BatchDone
  <2>3. /\ ~ Assemble(v) /\ ~ SeekPiece(v) /\ ~ WritePiece(v)
        /\ ~ CountPiece(v) /\ ~ ListPiece(v)
    BY <1>2 DEF Assemble, SeekPiece, WritePiece, CountPiece, ListPiece
  <2>4. ~ MarkPiece(v) /\ ~ ReturnPiece(v) /\ ~ Close(v)
    BY <1>3 DEF MarkPiece, ReturnPiece, Close
  <2>5. ~ SendRequests(v)
    <3>1. SendRequests(v) => \E to : Goto(v, "request", to) BY DEF SendRequests, Continue
    <3> QED BY <1>2, <3>1
  <2>6. Farewell(v) BY <1>7, <2>1, <2>2, <2>3, <2>4, <2>5 DEF Loop
  <2>7. \E to : Goto(v, "farewell", to) BY <2>6 DEF Farewell, Continue, Leave
  <2> QED BY <1>2, <2>6, <2>7
<1>8. Farewell(w) BY <1>4, <1>5, <1>6, <1>7 DEF Next, Quiet
<1>9. Continue(w, "farewell", "closing", AnnounceHaves(w, TRUE))
  BY <1>1, <1>8 DEF Farewell, Leave, Goto
<1> QED BY <1>1, <1>8, <1>9 DEF Continue, Farewell, sharedVars, countVars

(* Whatever happened in its session, also after undefined values were      *)
(* used: a thread that leaves its loop has told its peer of each piece     *)
(* completed since it connected, and of no other (peer.cpp:317-333,        *)
(* 446-461).                                                               *)
THEOREM FarewellTold == Spec => FarewellTellsAll
<1>1. Init => TellInv
  <2>1. Init => \A w \in Workers : TellOK(w)
    BY DEF Init, TellOK, FreshSession, Entries
  <2> QED BY <2>1, InitCount DEF TellInv
<1>2. Spec => [](TypeOK /\ TellInv) BY <1>1, InitType, NextType, NextTells, PTL DEF Spec
<1>3. ASSUME TypeOK, TellInv, TypeOK', TellInv', [Next]_vars, NEW w \in Workers,
             pc[w] = "farewell", pc'[w] = "closing"
      PROVE  peerdata'[w].told =
               { havemesslist[k] : k \in peerdata[w].have_base + 1 .. Len(havemesslist) }
  <2>1. peerdata'[w] = AnnounceHaves(w, TRUE) /\ Unlocked /\ UNCHANGED havemesslist
    BY <1>3, OnlyFarewell
  <2>2. /\ peerdata'[w].have_base = peerdata[w].have_base
        /\ peerdata'[w].no_of_havesent = HavesSent(w)
    BY <1>3, <2>1 DEF AnnounceHaves, TypeOK, Sessions
  <2>3. HavesSent(w) = Len(havemesslist)
    <3>0. downloaded = Len(havemesslist)
      BY <1>3, <2>1 DEF TypeOK, TellInv, CountOK
    <3>1. /\ peerdata[w].no_of_havesent \in Nat /\ Len(havemesslist) \in Nat
          /\ peerdata[w].no_of_havesent <= Len(havemesslist)
      BY <1>3, <3>0 DEF TypeOK, Sessions, TellInv, TellOK
    <3> QED BY <3>1 DEF HavesSent
  <2>4. peerdata'[w].told = Entries(peerdata[w].have_base, peerdata[w].no_of_havesent)'
    BY <1>3 DEF TellInv, TellOK
  <2> QED BY <2>1, <2>2, <2>3, <2>4 DEF Entries
<1>4. TypeOK /\ TellInv /\ (TypeOK /\ TellInv)' /\ [Next]_vars =>
        [\A w \in Workers :
           pc[w] = "farewell" /\ pc'[w] = "closing" =>
             peerdata'[w].told =
               { havemesslist[k] : k \in peerdata[w].have_base + 1 .. Len(havemesslist) }]_vars
  BY <1>3
<1> QED BY <1>2, <1>4, PTL DEF FarewellTellsAll, Spec

-----------------------------------------------------------------------------
(* What is on the disk: the file, the bitfield pieces_disk and the list of *)
(* counted pieces.                                                         *)

(* Every block of the piece is in its place. *)
InPlace(p) == \A b \in Blocks : file[p * NumBlocks + b] = <<p, b>>

(* What a thread is about to write was verified: all of it is piece_no.    *)
VerifiedInHand ==
  \A w \in Workers : pc[w] \in {"seek", "write"} =>
    \A b \in Blocks : peerdata[w].block_piece[b] = piece_no[w]

(* A counted piece, and one that was written and is not counted yet, is in *)
(* its place: StoredUnlessDisturbed is not inductive without the second.   *)
WrittenInPlace ==
  ~displaced /\ ~ffail =>
    \A p \in Pieces :
      Counted(p) \/ (\E w \in Workers : pc[w] \in {"count", "list"} /\ piece_no[w] = p)
        => InPlace(p)

(* A thread marks only what it has counted. *)
MarksCounted == \A w \in Workers : pc[w] = "mark" => Counted(piece_no[w])

Marks == MarksCounted /\ BitfieldFollowsCount

(* Only a piece is counted, even after a value nobody wrote was popped: no *)
(* block verifies for what is no piece.                                    *)
OnlyPieces ==
  /\ \A k \in 1 .. Len(havemesslist) : havemesslist[k] \in Pieces
  /\ \A w \in Workers : pc[w] \in {"count", "list"} => piece_no[w] \in Pieces

StoreInv == VerifiedInHand /\ WrittenInPlace /\ Marks /\ OnlyPieces

-----------------------------------------------------------------------------
(* Steps that touch none of this.                                          *)

(* The thread neither comes to hold a verified, written or counted piece   *)
(* nor lets go of a counted one.                                           *)
Steady(v) ==
  /\ pc'[v] \in {"seek", "write"} =>
       /\ pc[v] \in {"seek", "write"}
       /\ piece_no'[v] = piece_no[v]
       /\ peerdata'[v].block_piece = peerdata[v].block_piece
  /\ pc'[v] \in {"count", "list"} =>
       pc[v] \in {"count", "list"} /\ piece_no'[v] = piece_no[v]
  /\ pc'[v] = "mark" <=> pc[v] = "mark"
  /\ pc[v] = "mark" => piece_no'[v] = piece_no[v]

Calm == /\ UNCHANGED <<file, havemesslist, pieces_disk>>
        /\ (displaced => displaced') /\ (ffail => ffail')

(* With every thread steady, a calm step keeps the invariant. *)
LEMMA CalmStep ==
  ASSUME StoreInv, Calm, \A v \in Workers : Steady(v)
  PROVE  StoreInv'
<1>1. \A p : Counted(p)' <=> Counted(p) BY DEF Calm, Counted
<1>2. VerifiedInHand' BY DEF StoreInv, VerifiedInHand, Steady
<1>3. WrittenInPlace'
  <2>1. \A p \in Pieces : InPlace(p) => InPlace(p)' BY DEF Calm, InPlace
  <2> QED BY <1>1, <2>1 DEF Calm, StoreInv, WrittenInPlace, Steady
<1>4. MarksCounted' BY <1>1 DEF StoreInv, Marks, MarksCounted, Steady
<1>5. BitfieldFollowsCount'
  BY <1>1 DEF StoreInv, Marks, BitfieldFollowsCount, Calm, Steady
<1>6. OnlyPieces' BY DEF StoreInv, OnlyPieces, Calm, Steady
<1> QED BY <1>2, <1>3, <1>4, <1>5, <1>6 DEF StoreInv, Marks

(* A thread that moves leaves the others steady. *)
LEMMA OthersSteady ==
  ASSUME TypeOK, NEW w \in Workers, NEW from, NEW to, NEW session,
         Leave(w, from) \/ Continue(w, from, to, session)
  PROVE  \A v \in Workers \ {w} : Steady(v)
BY DEF TypeOK, Leave, Continue, Goto, Steady

(* A thread that moves between two places without a verified piece. *)
LEMMA MoveSteady ==
  ASSUME TypeOK, NEW w \in Workers, NEW from, from # "mark", NEW to,
         to \notin {"seek", "write", "count", "list", "mark"}, NEW session,
         Leave(w, from) \/ Continue(w, from, to, session)
  PROVE  \A v \in Workers : Steady(v)
<1>1. Steady(w) BY DEF TypeOK, Leave, Continue, Goto, Steady
<1> QED BY <1>1, OthersSteady

(* Threads that stay where they are, with what they are about to write. *)
LEMMA StaySteady ==
  ASSUME UNCHANGED <<pc, piece_no>>,
         \A v \in Workers : \/ pc[v] \in Receiving
                            \/ peerdata'[v].block_piece = peerdata[v].block_piece
  PROVE  \A v \in Workers : Steady(v)
BY DEF Steady, Receiving

(* The main thread, the clock, a message, the end of the process. *)
LEMMA AsideStored ==
  ASSUME TypeOK, StoreInv,
         \/ TimePasses \/ Main
         \/ \E w \in Workers : Message(w) \/ Crash(w) \/ Pause(w)
         \/ UNCHANGED vars
  PROVE  StoreInv'
<1> USE DEF sharedVars, queueVars, countVars, fileVars, mainVars, historyVars
<1>1. ASSUME UNCHANGED <<file, havemesslist, pieces_disk, displaced, ffail, pc,
                         piece_no, peerdata>>
      PROVE  StoreInv'
  BY <1>1, CalmStep, StaySteady DEF Calm
<1>2. CASE TimePasses BY <1>1, <1>2 DEF TimePasses
<1>3. CASE MainAnnounce \/ TrackersSilent \/ SpawnedAll
  BY <1>1, <1>3 DEF MainAnnounce, TrackersSilent, SpawnedAll
<1>4. ASSUME NEW n \in 1 .. MaxPeers, TrackersAnswer(n) PROVE StoreInv'
  BY <1>1, <1>4 DEF TrackersAnswer
<1>5. ASSUME NEW w \in Workers, Spawn(w) PROVE StoreInv'
  <2>1. \A v \in Workers : Steady(v) BY <1>5 DEF Spawn, Live, TypeOK, Steady
  <2> QED BY <1>5, <2>1, CalmStep DEF Spawn, Calm
<1>6. ASSUME NEW w \in Workers, Message(w) PROVE StoreInv'
  <2>1. /\ UNCHANGED <<file, havemesslist, pieces_disk, displaced, pc, piece_no>>
        /\ UNCHANGED ffail \/ StreamRead
    BY <1>6 DEF Message, OnKeepAlive, OnChoke, OnUnchoke, OnHave, OnBitfield, OnPiece,
                OnRequest, ServeBlock, Receives, StreamSeek, StreamRead
  <2>2. StreamRead => (ffail => ffail') BY DEF StreamRead
  <2>3. /\ pc[w] \in Receiving
        /\ \A v \in Workers \ {w} : peerdata'[v] = peerdata[v]
    BY <1>6 DEF Message, OnKeepAlive, OnChoke, OnUnchoke, OnHave, OnBitfield, OnPiece,
                OnRequest, ServeBlock, Receives, TypeOK
  <2>4. \A v \in Workers : Steady(v) BY <2>1, <2>3, StaySteady
  <2> QED BY <2>1, <2>2, <2>4, CalmStep DEF Calm
<1>7. ASSUME NEW w \in Workers, Crash(w) PROVE StoreInv'
  BY <1>1, <1>7 DEF Crash
<1>8. ASSUME NEW w \in Workers, Pause(w) PROVE StoreInv'
  <2>1. \A v \in Workers : peerdata'[v].block_piece = peerdata[v].block_piece
    BY <1>8 DEF Pause, TypeOK, Sessions
  <2>2. \A v \in Workers : Steady(v) BY <1>8, <2>1, StaySteady DEF Pause
  <2> QED BY <1>8, <2>2, CalmStep DEF Pause, Calm
<1>9. CASE UNCHANGED vars BY <1>1, <1>9 DEF vars
<1> QED BY <1>2, <1>3, <1>4, <1>5, <1>6, <1>7, <1>8, <1>9 DEF Main

-----------------------------------------------------------------------------
(* The set-up of a session, and the steps of the loop that verify, write,  *)
(* count and mark nothing.                                                 *)

(* The set-up of a session. *)
LEMMA SetupStored ==
  ASSUME TypeOK, StoreInv, NEW w \in Workers, Setup(w)
  PROVE  StoreInv'
<1> USE DEF sharedVars, queueVars, countVars, fileVars, historyVars
<1>1. UNCHANGED <<file, havemesslist, pieces_disk, displaced, ffail>>
  BY DEF Setup, Connect, HelloSilent, SendInterested, HelloDone, InterestedDone
<1>2. \E from \in {"start", "hello", "sendinterested", "interested"} :
        \/ Leave(w, from)
        \/ \E to \in {"hello", "sendinterested", "interested", "while"} :
             \E session : Continue(w, from, to, session)
  BY DEF Setup, Connect, HelloSilent, SendInterested, HelloDone, InterestedDone
<1>3. \A v \in Workers : Steady(v) BY <1>2, MoveSteady
<1> QED BY <1>1, <1>3, CalmStep DEF Calm

(* A turn of the loop outside assemble, seek, write, count, list and mark. *)
LEMMA TurnStored ==
  ASSUME TypeOK, StoreInv, NEW w \in Workers,
         \/ WhileStatus(w) \/ CheckQueue(w) \/ SendRequests(w)
         \/ \E s \in Statuses : BatchDone(w, s)
         \/ ReturnPiece(w) \/ Farewell(w) \/ Close(w)
  PROVE  StoreInv'
<1> USE DEF sharedVars, queueVars, countVars, fileVars, historyVars
<1> DEFINE From == {"while", "check", "request", "batch", "putback", "giveback",
                    "farewell", "closing"}
           To == {"check", "farewell", "while", "pop", "batch", "giveback", "putback",
                  "request", "assemble", "closing"}
<1>1. UNCHANGED <<file, havemesslist, pieces_disk, displaced, ffail>>
  BY DEF WhileStatus, CheckQueue, SendRequests, BatchDone, ReturnPiece, Farewell, Close
<1>2. \E from \in From :
        \/ Leave(w, from)
        \/ \E to \in To : \E session : Continue(w, from, to, session)
  BY DEF WhileStatus, CheckQueue, SendRequests, BatchDone, ReturnPiece, Farewell, Close
<1>3. \A v \in Workers : Steady(v) BY <1>2, MoveSteady
<1> QED BY <1>1, <1>3, CalmStep DEF Calm

(* The pop. *)
LEMMA TakeStored ==
  ASSUME TypeOK, StoreInv, NEW w \in Workers, TakePiece(w)
  PROVE  StoreInv'
<1> USE DEF sharedVars, queueVars, countVars, fileVars, historyVars
<1>1. UNCHANGED <<file, havemesslist, pieces_disk, displaced, ffail>>
  BY DEF TakePiece
<1>2. /\ pc[w] = "pop"
      /\ \E to \in {"request", "putback"} : pc' = [pc EXCEPT ![w] = to]
      /\ \A v \in Workers \ {w} : /\ piece_no'[v] = piece_no[v]
                                 /\ peerdata'[v] = peerdata[v]
  BY DEF TakePiece, Goto, PopFront, PopNothing, TypeOK
<1>3. \A v \in Workers : Steady(v) BY <1>2 DEF Steady, TypeOK
<1> QED BY <1>1, <1>3, CalmStep DEF Calm

-----------------------------------------------------------------------------
(* Verify, seek, write, count and mark.                                    *)

(* Only a piece that is all there goes on to be written. *)
LEMMA AssembleStored ==
  ASSUME TypeOK, StoreInv, NEW w \in Workers, Assemble(w)
  PROVE  StoreInv'
<1> USE DEF sharedVars, queueVars, countVars, fileVars, historyVars
<1>1. UNCHANGED <<file, havemesslist, pieces_disk, displaced, ffail, piece_no>>
  BY DEF Assemble
<1>2. /\ pc[w] = "assemble"
      /\ \/ pc' = [pc EXCEPT ![w] = "putback"]
         \/ /\ pc' = [pc EXCEPT ![w] = "seek"]
            /\ Verified(peerdata[w].block_placeholder, piece_no[w])
      /\ peerdata'[w].block_piece = peerdata[w].block_placeholder
      /\ \A v \in Workers \ {w} : peerdata'[v] = peerdata[v]
  BY DEF Assemble, Goto, TypeOK, Sessions
<1>3. \A p : Counted(p)' <=> Counted(p) BY <1>1 DEF Counted
<1>4. VerifiedInHand'
  BY <1>1, <1>2 DEF StoreInv, VerifiedInHand, Verified, TypeOK
<1>5. WrittenInPlace'
  <2>1. \A p \in Pieces : InPlace(p) => InPlace(p)' BY <1>1 DEF InPlace
  <2> QED BY <1>1, <1>2, <1>3, <2>1 DEF StoreInv, WrittenInPlace, TypeOK
<1>6. MarksCounted' BY <1>1, <1>2, <1>3 DEF StoreInv, Marks, MarksCounted, TypeOK
<1>7. BitfieldFollowsCount'
  BY <1>1, <1>2, <1>3 DEF StoreInv, Marks, BitfieldFollowsCount, TypeOK
<1>8. OnlyPieces' BY <1>1, <1>2 DEF StoreInv, OnlyPieces, TypeOK
<1> QED BY <1>4, <1>5, <1>6, <1>7, <1>8 DEF StoreInv, Marks

(* The seek. *)
LEMMA SeekStored ==
  ASSUME TypeOK, StoreInv, NEW w \in Workers, SeekPiece(w)
  PROVE  StoreInv'
<1> USE DEF queueVars, countVars, historyVars
<1>1. /\ UNCHANGED <<file, havemesslist, pieces_disk, displaced, ffail, piece_no,
                      peerdata>>
      /\ pc[w] = "seek" /\ pc' = [pc EXCEPT ![w] = "write"]
  BY DEF SeekPiece, StreamSeek, Goto
<1>2. \A v \in Workers : Steady(v) BY <1>1 DEF Steady, TypeOK
<1> QED BY <1>1, <1>2, CalmStep DEF Calm

(* The cells of the pieces lie apart, and in the file. *)
LEMMA CellsApart ==
  ASSUME NEW p \in Pieces, NEW q \in Int, NEW b \in Blocks
  PROVE  /\ p * NumBlocks + b \in FileCells
         /\ p * NumBlocks + b \in q * NumBlocks .. q * NumBlocks + NumBlocks - 1 => p = q
         /\ p * NumBlocks + b - p * NumBlocks = b
         /\ p * NumBlocks + b \in p * NumBlocks .. p * NumBlocks + NumBlocks - 1
<1> DEFINE n == NumBlocks
           W == Cardinality(Workers)
<1>1. /\ n \in Nat /\ n > 0 /\ p \in Nat /\ p <= NumPieces - 1 /\ NumPieces \in Nat
      /\ b \in Nat /\ b <= n - 1
  BY ConstantFacts DEF Pieces, Blocks
<1>2. W \in Nat BY DownloadAssumption, FS_CardinalityType
<1>3. p * n \in Nat /\ q * n \in Int BY <1>1
<1>4. (p + 1) * n = p * n + n /\ (q + 1) * n = q * n + n BY <1>1
<1>5. (p + 1) * n <= (NumPieces + W) * n
  <2>1. p + 1 <= NumPieces + W /\ p + 1 \in Nat /\ NumPieces + W \in Nat BY <1>1, <1>2
  <2>2. \A i, j \in Nat : i <= j => i * n <= j * n BY <1>1
  <2> QED BY <2>1, <2>2
<1>6. p * n + b \in 0 .. (NumPieces + W) * n - 1
  <2>1. (NumPieces + W) * n \in Int BY <1>1, <1>2
  <2> QED BY <1>1, <1>3, <1>4, <1>5, <2>1
<1>7. ASSUME p < q PROVE p * n + b < q * n
  <2>1. p + 1 <= q /\ q \in Nat BY <1>1, <1>7
  <2>2. \A i, j \in Nat : i <= j => i * n <= j * n BY <1>1
  <2>3. (p + 1) * n <= q * n BY <1>1, <2>1, <2>2
  <2> QED BY <1>1, <1>3, <1>4, <2>3
<1>8. ASSUME q < p PROVE q * n + n - 1 < p * n + b
  <2>1. q + 1 <= p /\ q + 1 \in Int BY <1>1, <1>8
  <2>2. \A i, j \in Int : i <= j => i * n <= j * n BY <1>1
  <2>3. (q + 1) * n <= p * n BY <1>1, <2>1, <2>2
  <2> QED BY <1>1, <1>3, <1>4, <2>3
<1>9. p * n + b \in q * n .. q * n + n - 1 => p = q
  <2> SUFFICES ASSUME p * n + b \in q * n .. q * n + n - 1, p # q PROVE FALSE
    OBVIOUS
  <2>1. p < q \/ q < p BY <1>1
  <2> QED BY <1>1, <1>3, <1>7, <1>8, <2>1
<1> QED BY <1>1, <1>3, <1>6, <1>9 DEF FileCells

(* A piece written at its slot is in its place, and no other is disturbed. *)
LEMMA WriteInPlace ==
  ASSUME TypeOK, NEW q \in Numbers, fpos = SlotOf(q), ~ffail,
         NEW data, \A b \in Blocks : data[b] = q, StreamWrite(data),
         NEW p \in Pieces, InPlace(p) \/ p = q
  PROVE  InPlace(p)'
<1> SUFFICES ASSUME NEW b \in Blocks PROVE file'[p * NumBlocks + b] = <<p, b>>
  BY DEF InPlace
<1> DEFINE c == p * NumBlocks + b
<1>1. q \in Int BY ConstantFacts
<1>2. fpos = q * NumBlocks BY DEF SlotOf
<1>3. c \in FileCells BY CellsApart
<1>4. file'[c] = IF c \in fpos .. fpos + NumBlocks - 1
                 THEN <<data[c - fpos], c - fpos>> ELSE file[c]
  BY <1>3 DEF StreamWrite
<1>5. CASE p = q
  <2>1. fpos = p * NumBlocks BY <1>2, <1>5
  <2>2. /\ c - p * NumBlocks = b
        /\ c \in p * NumBlocks .. p * NumBlocks + NumBlocks - 1
    <3>1. p * NumBlocks \in Int /\ NumBlocks \in Int /\ b \in Nat /\ b <= NumBlocks - 1
      BY ConstantFacts DEF Pieces, Blocks
    <3>2. \A d, n \in Int : b <= n - 1 => d + b - d = b /\ d + b \in d .. d + n - 1
      BY <3>1
    <3> QED BY <3>1, <3>2
  <2>3. c - fpos = b /\ c \in fpos .. fpos + NumBlocks - 1
    BY <2>1, <2>2
  <2> QED BY <1>4, <1>5, <2>3
<1>6. CASE p # q
  <2>1. ~(c \in q * NumBlocks .. q * NumBlocks + NumBlocks - 1)
    BY <1>1, <1>6, CellsApart
  <2> QED BY <1>2, <1>4, <1>6, <2>1 DEF InPlace
<1> QED BY <1>5, <1>6

(* The write: either it is at its slot, or displaced or ffail tells.       *)
LEMMA WriteStored ==
  ASSUME TypeOK, StoreInv, NEW w \in Workers, WritePiece(w)
  PROVE  StoreInv'
<1> USE DEF queueVars, countVars
<1>1. /\ UNCHANGED <<havemesslist, pieces_disk, piece_no, peerdata>>
      /\ pc[w] = "write" /\ pc' = [pc EXCEPT ![w] = "count"]
      /\ StreamWrite(peerdata[w].block_piece)
      /\ displaced' = (displaced \/ fpos # SlotOf(piece_no[w]))
  BY DEF WritePiece, Goto
<1>2. \A p : Counted(p)' <=> Counted(p) BY <1>1 DEF Counted
<1>3. VerifiedInHand' BY <1>1 DEF StoreInv, VerifiedInHand, TypeOK
<1>4. WrittenInPlace'
  <2> SUFFICES ASSUME ~displaced', ~ffail', NEW p \in Pieces,
                      \/ Counted(p)'
                      \/ \E v \in Workers : pc'[v] \in {"count", "list"} /\ piece_no'[v] = p
               PROVE  InPlace(p)'
    BY DEF WrittenInPlace
  <2>1. ffail' = ffail BY <1>1 DEF StreamWrite, fileVars
  <2>2. ~ffail /\ ~displaced /\ fpos = SlotOf(piece_no[w]) BY <1>1, <2>1
  <2>3. \A b \in Blocks : peerdata[w].block_piece[b] = piece_no[w]
    BY <1>1 DEF StoreInv, VerifiedInHand
  <2>4. piece_no[w] \in Numbers BY DEF TypeOK
  <2>5. InPlace(p) \/ p = piece_no[w]
    BY <1>1, <1>2, <2>2 DEF StoreInv, WrittenInPlace, TypeOK
  <2> QED BY <1>1, <2>2, <2>3, <2>4, <2>5, WriteInPlace
<1>5. MarksCounted' BY <1>1, <1>2 DEF StoreInv, Marks, MarksCounted, TypeOK
<1>6. BitfieldFollowsCount'
  BY <1>1, <1>2 DEF StoreInv, Marks, BitfieldFollowsCount, TypeOK
<1>7. OnlyPieces'
  <2>1. \A b \in Blocks : /\ peerdata[w].block_piece[b] = piece_no[w]
                          /\ peerdata[w].block_piece[b] \in Cells
    BY <1>1 DEF StoreInv, VerifiedInHand, TypeOK, Sessions
  <2>2. 0 \in Blocks BY ConstantFacts DEF Blocks
  <2>3. piece_no[w] \in Pieces
    BY <2>1, <2>2 DEF TypeOK, Cells, Numbers, Empty, Junk, Wild
  <2> QED BY <1>1, <2>3 DEF StoreInv, OnlyPieces, TypeOK
<1> QED BY <1>3, <1>4, <1>5, <1>6, <1>7 DEF StoreInv, Marks

(* The count: the thread goes on with the piece it has written. *)
LEMMA CountStored ==
  ASSUME TypeOK, StoreInv, NEW w \in Workers, CountPiece(w)
  PROVE  StoreInv'
<1>1. /\ UNCHANGED <<file, havemesslist, pieces_disk, displaced, ffail, piece_no>>
      /\ pc[w] = "count" /\ pc' = [pc EXCEPT ![w] = "list"]
      /\ UNCHANGED peerdata
  BY DEF CountPiece, Goto, fileVars, historyVars
<1>2. \A v \in Workers : Steady(v) BY <1>1 DEF Steady, TypeOK
<1> QED BY <1>1, <1>2, CalmStep DEF Calm

(* The entry: the piece was written, and its thread is about to mark it.   *)
LEMMA ListStored ==
  ASSUME TypeOK, StoreInv, NEW w \in Workers, ListPiece(w)
  PROVE  StoreInv'
<1> USE DEF fileVars, historyVars
<1>1. /\ UNCHANGED <<file, pieces_disk, piece_no, peerdata, displaced, ffail>>
      /\ pc[w] = "list" /\ pc' = [pc EXCEPT ![w] = "mark"]
      /\ havemesslist' = Append(havemesslist, piece_no[w])
  BY DEF ListPiece, Goto
<1>2. havemesslist \in Seq(Numbers) /\ piece_no[w] \in Numbers BY DEF TypeOK
<1>3. /\ Len(havemesslist') = Len(havemesslist) + 1
      /\ havemesslist'[Len(havemesslist) + 1] = piece_no[w]
      /\ \A k \in 1 .. Len(havemesslist) : havemesslist'[k] = havemesslist[k]
      /\ Len(havemesslist) \in Nat
  BY <1>1, <1>2
<1>4. \A p : Counted(p)' <=> Counted(p) \/ p = piece_no[w]
  BY <1>3 DEF Counted
<1>5. VerifiedInHand' BY <1>1 DEF StoreInv, VerifiedInHand, TypeOK
<1>6. WrittenInPlace'
  <2>1. \A p \in Pieces : InPlace(p) => InPlace(p)' BY <1>1 DEF InPlace
  <2> QED BY <1>1, <1>4, <2>1 DEF StoreInv, WrittenInPlace, TypeOK
<1>7. MarksCounted' BY <1>1, <1>4 DEF StoreInv, Marks, MarksCounted, TypeOK
<1>8. BitfieldFollowsCount'
  <2>1. \A v \in Workers : pc[v] = "mark" => pc'[v] = "mark"
    BY <1>1 DEF TypeOK
  <2>2. pc'[w] = "mark" BY <1>1 DEF TypeOK
  <2>3. pieces_disk' \subseteq { havemesslist'[k] : k \in 1 .. Len(havemesslist') }
    BY <1>1, <1>3 DEF StoreInv, Marks, BitfieldFollowsCount
  <2> QED BY <1>1, <1>4, <2>1, <2>2, <2>3 DEF StoreInv, Marks, BitfieldFollowsCount
<1>9. OnlyPieces'
  <2>1. piece_no[w] \in Pieces BY <1>1 DEF StoreInv, OnlyPieces
  <2>2. \A v \in Workers : pc'[v] \in {"count", "list"} => pc[v] \in {"count", "list"}
    BY <1>1 DEF TypeOK
  <2>3. \A k \in 1 .. Len(havemesslist') : k \in 1 .. Len(havemesslist) \/ k = Len(havemesslist) + 1
    BY <1>3
  <2>4. \A k \in 1 .. Len(havemesslist') : havemesslist'[k] \in Pieces
    BY <1>3, <2>1, <2>3 DEF StoreInv, OnlyPieces
  <2> QED BY <1>1, <2>2, <2>4 DEF StoreInv, OnlyPieces
<1> QED BY <1>5, <1>6, <1>7, <1>8, <1>9 DEF StoreInv, Marks

(* The mark: its piece was counted. *)
LEMMA MarkStored ==
  ASSUME TypeOK, StoreInv, NEW w \in Workers, MarkPiece(w)
  PROVE  StoreInv'
<1> USE DEF queueVars, countVars, fileVars, historyVars
<1>1. /\ UNCHANGED <<file, havemesslist, displaced, ffail>>
      /\ pieces_disk' = pieces_disk \cup {piece_no[w]}
  BY DEF MarkPiece
<1>2. /\ pc[w] = "mark" /\ pc'[w] \in {"idle", "while"}
      /\ \A v \in Workers \ {w} : /\ pc'[v] = pc[v] /\ piece_no'[v] = piece_no[v]
                                 /\ peerdata'[v] = peerdata[v]
  BY DEF MarkPiece, Leave, Continue, Goto, TypeOK
<1>3. \A p : Counted(p)' <=> Counted(p) BY <1>1 DEF Counted
<1>4. VerifiedInHand' BY <1>2 DEF StoreInv, VerifiedInHand
<1>5. WrittenInPlace'
  <2>1. \A p \in Pieces : InPlace(p) => InPlace(p)' BY <1>1 DEF InPlace
  <2> QED BY <1>1, <1>2, <1>3, <2>1 DEF StoreInv, WrittenInPlace
<1>6. MarksCounted' BY <1>2, <1>3 DEF StoreInv, Marks, MarksCounted
<1>7. BitfieldFollowsCount'
  <2>1. Counted(piece_no[w]) BY <1>2 DEF StoreInv, Marks, MarksCounted
  <2>2. pieces_disk' \subseteq { havemesslist'[k] : k \in 1 .. Len(havemesslist') }
    BY <1>1, <2>1 DEF StoreInv, Marks, BitfieldFollowsCount, Counted
  <2> QED BY <1>1, <1>2, <1>3, <2>2 DEF StoreInv, Marks, BitfieldFollowsCount
<1>8. OnlyPieces' BY <1>1, <1>2 DEF StoreInv, OnlyPieces
<1> QED BY <1>4, <1>5, <1>6, <1>7, <1>8 DEF StoreInv, Marks

-----------------------------------------------------------------------------
(* Nothing is counted, marked or verified at first. *)
LEMMA InitStored == Init => StoreInv
<1> SUFFICES ASSUME Init PROVE StoreInv
  OBVIOUS
<1>1. /\ \A w \in Workers : pc[w] = "idle"
      /\ \A p : ~Counted(p)
      /\ pieces_disk = {}
      /\ havemesslist = <<>>
  BY DEF Init, Counted
<1> QED BY <1>1 DEF StoreInv, VerifiedInHand, WrittenInPlace, Marks, MarksCounted,
                    BitfieldFollowsCount, OnlyPieces

(* Every step keeps the invariant. *)
LEMMA NextStored == TypeOK /\ StoreInv /\ [Next]_vars => StoreInv'
<1> SUFFICES ASSUME TypeOK, StoreInv, [Next]_vars PROVE StoreInv'
  OBVIOUS
<1>1. ASSUME NEW w \in Workers, Loop(w) PROVE StoreInv'
  BY <1>1, TurnStored, TakeStored, AssembleStored, SeekStored, WriteStored,
     CountStored, ListStored, MarkStored DEF Loop
<1> QED BY <1>1, AsideStored, SetupStored DEF Next, Quiet

LEMMA StoreInvariant == Spec => [](TypeOK /\ StoreInv)
<1>1. Init => TypeOK /\ StoreInv BY InitType, InitStored
<1>2. TypeOK /\ StoreInv /\ [Next]_vars => (TypeOK /\ StoreInv)'
  BY NextType, NextStored
<1> QED BY <1>1, <1>2, PTL DEF Spec

(* For any number of threads the file holds every block of every counted   *)
(* piece, whatever was late, stray or garbled, unless a write found the    *)
(* position of the stream moved, or the stream had failed (helper.cpp:143).*)
THEOREM StoredInPlace == Spec => []StoredUnlessDisturbed
<1>1. StoreInv => StoredUnlessDisturbed
  BY DEF StoreInv, WrittenInPlace, StoredUnlessDisturbed, CountedStored, InPlace
<1> QED BY <1>1, StoreInvariant, PTL

(* The bitfield never runs ahead of the count, also after a value nobody   *)
(* wrote was used as a piece (peer.cpp:418).                               *)
THEOREM BitfieldAfterCount == Spec => []BitfieldFollowsCount
<1>1. StoreInv => BitfieldFollowsCount BY DEF StoreInv, Marks
<1> QED BY <1>1, StoreInvariant, PTL

-----------------------------------------------------------------------------
(* One thread, with a peer that asks for nothing: nobody else moves the    *)
(* stream between the seek and the write.                                  *)
Undisturbed ==
  /\ ~displaced /\ ~ffail
  /\ \A w \in Workers : /\ peerdata[w].serving < 0
                        /\ pc[w] = "write" => fpos = SlotOf(piece_no[w])

(* A thread that moves, or ends, serves no block and is not at the write.  *)
LEMMA MoveAway ==
  ASSUME TypeOK, NEW w \in Workers, NEW from, NEW to, to # "write", NEW session,
         session.serving < 0,
         Leave(w, from) \/ Continue(w, from, to, session)
  PROVE  peerdata'[w].serving < 0 /\ pc'[w] # "write"
BY DEF Leave, Continue, Goto, FreshSession, NotServing, TypeOK

(* What changes a session here leaves serving alone. *)
LEMMA ServingKept ==
  ASSUME TypeOK, NEW w \in Workers
  PROVE  /\ \A s : Heard(w, s).serving = peerdata[w].serving
         /\ \A b \in BOOLEAN : AnnounceHaves(w, b).serving = peerdata[w].serving
         /\ \A s, n : [Heard(w, s) EXCEPT !.batch_start = n].serving = peerdata[w].serving
         /\ \A n : FreshSession(n).serving < 0
BY DEF Heard, AnnounceHaves, TypeOK, Sessions, FreshSession, NotServing

(* No step but the seek and the write goes to the file. *)
LEMMA AwayFromFile ==
  ASSUME TypeOK, "request" \notin Faults, Undisturbed, NEW w \in Workers, Workers = {w},
         \/ TimePasses \/ Main \/ UNCHANGED vars
         \/ Setup(w) \/ Message(w) \/ Crash(w) \/ Pause(w)
         \/ WhileStatus(w) \/ CheckQueue(w) \/ TakePiece(w) \/ SendRequests(w)
         \/ (\E s \in Statuses : BatchDone(w, s))
         \/ Assemble(w) \/ CountPiece(w) \/ ListPiece(w) \/ MarkPiece(w) \/ ReturnPiece(w)
         \/ Farewell(w) \/ Close(w)
  PROVE  /\ UNCHANGED <<fpos, ffail, displaced>>
         /\ peerdata'[w].serving < 0
         /\ pc'[w] = "write" => pc[w] = "write" /\ piece_no'[w] = piece_no[w]
<1> USE DEF sharedVars, queueVars, countVars, fileVars, mainVars, historyVars
<1> peerdata[w].serving < 0 /\ NotServing < 0 BY DEF Undisturbed, NotServing
<1>1. CASE TimePasses \/ Main \/ UNCHANGED vars \/ Crash(w)
  BY <1>1 DEF TimePasses, Main, MainAnnounce, TrackersAnswer, TrackersSilent, Spawn,
              SpawnedAll, Crash, vars, TypeOK
<1>2. CASE Setup(w)
  <2>1. \E from, session :
          /\ session.serving < 0
          /\ \/ Leave(w, from)
             \/ \E to \in {"hello", "sendinterested", "interested", "while"} :
                  Continue(w, from, to, session)
    BY <1>2, ServingKept
       DEF Setup, Connect, HelloSilent, SendInterested, HelloDone, InterestedDone
  <2>2. UNCHANGED <<fpos, ffail, displaced>>
    BY <1>2 DEF Setup, Connect, HelloSilent, SendInterested, HelloDone, InterestedDone
  <2> QED BY <2>1, <2>2, MoveAway
<1>3. CASE Message(w)
  BY SMTT(30), <1>3 DEF Message, OnKeepAlive, OnChoke, OnUnchoke, OnHave, OnBitfield, OnPiece,
              OnRequest, ServeBlock, Receives, Costs, TypeOK, Sessions
<1>4. CASE Pause(w) BY <1>4 DEF Pause, TypeOK, Sessions
<1>5. CASE WhileStatus(w) \/ CheckQueue(w) \/ SendRequests(w) \/ ReturnPiece(w)
           \/ Farewell(w) \/ Close(w) \/ \E s \in Statuses : BatchDone(w, s)
  <2> DEFINE To == {"check", "farewell", "while", "pop", "batch", "giveback", "putback",
                    "request", "assemble", "closing"}
  <2>1. \E from, session :
          /\ session.serving < 0
          /\ Leave(w, from) \/ \E to \in To : Continue(w, from, to, session)
    BY <1>5, ServingKept
       DEF WhileStatus, CheckQueue, SendRequests, BatchDone, ReturnPiece, Farewell, Close
  <2>2. UNCHANGED <<fpos, ffail, displaced>>
    BY <1>5 DEF WhileStatus, CheckQueue, SendRequests, BatchDone, ReturnPiece, Farewell,
                Close
  <2> QED BY <2>1, <2>2, MoveAway
<1>6. CASE TakePiece(w) BY <1>6 DEF TakePiece, Goto, TypeOK, Sessions
<1>7. CASE Assemble(w) BY <1>7 DEF Assemble, Goto, TypeOK, Sessions
<1>8. CASE CountPiece(w) \/ ListPiece(w)
  BY <1>8 DEF CountPiece, ListPiece, Goto, TypeOK
<1>9. CASE MarkPiece(w)
  BY <1>9, MoveAway, ServingKept DEF MarkPiece, Leave, Continue, Goto
<1> QED BY <1>1, <1>2, <1>3, <1>4, <1>5, <1>6, <1>7, <1>8, <1>9

(* The file holds every block of every counted piece, without exception,   *)
(* when one thread downloads from a peer that requests nothing.            *)
THEOREM StoredByOne ==
  ASSUME NEW w, Workers = {w}, "request" \notin Faults
  PROVE  Spec => []CountedStored
<1>1. Init => Undisturbed BY DEF Init, Undisturbed, FreshSession, NotServing
<1>2. TypeOK /\ Undisturbed /\ [Next]_vars => Undisturbed'
  <2> SUFFICES ASSUME TypeOK, Undisturbed, [Next]_vars PROVE Undisturbed'
    OBVIOUS
  <2>1. CASE SeekPiece(w)
    BY <2>1 DEF SeekPiece, StreamSeek, Goto, historyVars, TypeOK, Undisturbed
  <2>2. CASE WritePiece(w)
    BY <2>2 DEF WritePiece, StreamWrite, Goto, fileVars, TypeOK, Undisturbed
  <2>3. CASE ~SeekPiece(w) /\ ~WritePiece(w)
    <3>1. w \in Workers OBVIOUS
    <3>2. /\ UNCHANGED <<fpos, ffail, displaced>>
          /\ peerdata'[w].serving < 0
          /\ pc'[w] = "write" => pc[w] = "write" /\ piece_no'[w] = piece_no[w]
      BY <2>3, <3>1, AwayFromFile DEF Next, Quiet, Loop
    <3> QED BY <3>1, <3>2 DEF Undisturbed
  <2> QED BY <2>1, <2>2, <2>3
<1>3. StoredUnlessDisturbed /\ Undisturbed => CountedStored
  BY DEF StoredUnlessDisturbed, Undisturbed
<1>4. Spec => []TypeOK BY StoreInvariant, PTL
<1> QED BY <1>1, <1>2, <1>3, <1>4, StoredInPlace, PTL DEF Spec
=============================================================================
