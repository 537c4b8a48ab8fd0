------------------------------- MODULE Upload --------------------------------
(***************************************************************************)
(* The upload server: uploadToPeer and processMessageServer, beside the    *)
(* threads of Download whose counter, HAVE list, pieces_disk and file      *)
(* stream they share.  createServer listens at startup, and the accept     *)
(* that would hand a connection to uploadToPeer is commented out           *)
(* (download.cpp:101-103): this is the server as its threadlock presumes   *)
(* it, in a thread of its own.                                             *)
(*                                                                         *)
(* Its receives have no timeout and end with the stream: all a peer ever   *)
(* says is one string, and is processed when the peer has stopped sending. *)
(***************************************************************************)
EXTENDS Download

CONSTANT Talks     (* bound: what peers send after their handshakes         *)

VARIABLES
  upc,        (* where the thread is                                       *)
  sent,       (* peer_data.no_of_havesent                                  *)
  snapshot,   (* the pieces_disk of the `pieces pie' passed by value       *)
  inbox,      (* recvmes                                                   *)
  outbox,     (* sendmes: whether it holds bytes, and the HAVEs in it      *)
  recent,     (* latest_comms is not older than 120 s                      *)
  link,       (* the peer's end, see Links                                 *)
  learnt,     (* history: what the peer, if it stays, was told             *)
  served      (* history: the last block sent                              *)

uploadVars == <<upc, sent, snapshot, inbox, outbox, recent, link,
                learnt, served>>
allVars == <<vars, uploadVars>>

(* "half": the peer stopped sending and still reads; "gone": it closed,    *)
(* and a send brings a reset; "broken": a reset came before any of that    *)
(* and no call has reported it; "reset": one was reported, or came to a    *)
(* stream the peer had ended, and sends fail with EPIPE.                   *)
Links == {"open", "half", "gone", "broken", "reset"}

-----------------------------------------------------------------------------
(* What the peer says.                                                     *)

(* flag: CHOKE, UNCHOKE, NOT_INTERESTED, CANCEL, PORT; write: HAVE,        *)
(* BITFIELD or PIECE, which write to vectors nobody gave a size;           *)
(* unreadable: an unknown id, a bitfield of another length, or a message   *)
(* that is cut.                                                            *)
Plain(kind) == [kind |-> kind, cell |-> 0]
Request(cell) == [kind |-> "request", cell |-> cell]
Sayings == { Request(cell) : cell \in 0 .. NumPieces * NumBlocks - 1 } \cup
           { Plain(k) : k \in {"keepalive", "interested", "flag", "write", "unreadable"} }

ASSUME UploadAssumption == Talks \subseteq Seq(Sayings)

(* Nothing, another torrent's handshake, one cut behind its info hash, or  *)
(* a handshake and what follows it.                                        *)
Conversations == {<<>>, <<Plain("otherhash")>>, <<Plain("cuthandshake")>>}
                 \cup { <<Plain("handshake")>> \o t : t \in Talks }

-----------------------------------------------------------------------------
(* createBitfieldMessage: the eight digits of a byte, read in base 10.     *)

Digit(S, p) == IF p \in S THEN 1 ELSE 0

(* Mutant: read in base 2, but from the wrong end. *)
FromTheRight(S, byte) ==
  LET d(i) == Digit(S, 8 * byte + i)
  IN  d(0) + 2 * d(1) + 4 * d(2) + 8 * d(3) + 16 * d(4) + 32 * d(5) + 64 * d(6) + 128 * d(7)

ByteOf(S, byte) ==
  LET d(i) == Digit(S, 8 * byte + i)
  IN  (10000000 * d(0) + 1000000 * d(1) + 100000 * d(2) + 10000 * d(3)
       + 1000 * d(4) + 100 * d(5) + 10 * d(6) + d(7)) % 256

(* The bits of a byte, from its left. *)
Weight == <<128, 64, 32, 16, 8, 4, 2, 1>>

(* The pieces below n that a peer reads out of the bytes. *)
Offered(S, n) ==
  { p \in 0 .. n - 1 : (ByteOf(S, p \div 8) \div Weight[(p % 8) + 1]) % 2 = 1 }

(* The places of a byte, from its left, that base 10 misreads.             *)
Spoiled(S) == \E p \in S : p % 8 \in {2, 4, 5, 6}

-----------------------------------------------------------------------------
UGoto(from, to) == process = "up" /\ upc = from /\ upc' = to

othersThanStream == <<queueVars, countVars, pieces_disk, mainVars, process, pc,
                      piece_no, peerdata, historyVars, faults>>
othersThanProcess == <<queueVars, countVars, pieces_disk, fileVars, mainVars, pc,
                       piece_no, peerdata, historyVars, faults>>

NoServed == [cell |-> NotServing, data |-> Blank, moved |-> FALSE, failed |-> FALSE,
             poisons |-> FALSE]
Unsent == [some |-> FALSE, haves |-> {}]

(* The pieces it takes us to have; those whose thread stood between the    *)
(* count and pieces_disk when the bitfield was built; and whether base 10  *)
(* spoiled it.                                                             *)
Nothing == [pieces |-> {}, marking |-> {}, spoiled |-> FALSE]

(* close and return: the locals are gone. *)
ULeave(from) == /\ UGoto(from, "closed")
                /\ sent' = 0 /\ snapshot' = {}
                /\ inbox' = <<>> /\ outbox' = Unsent /\ recent' = FALSE
                /\ link' = "open"
                /\ learnt' = Nothing /\ served' = NoServed
                /\ UNCHANGED vars

(* An exception, or a write through a null pointer. *)
UCrash(from) == /\ process = "up" /\ upc = from
                /\ process' = "crashed"
                /\ UNCHANGED <<othersThanProcess, uploadVars>>

Accept == /\ UGoto("idle", "count")
          /\ UNCHANGED <<vars, sent, snapshot, inbox, outbox, recent, link, learnt, served>>

(* Mutant: the HAVEs begin one piece late. *)
TakeNextCount == /\ Unlocked
                 /\ UGoto("count", "greet")
                 /\ sent' = downloaded + 1
                 /\ UNCHANGED <<vars, snapshot, inbox, outbox, recent, link,
                                learnt, served>>

(* no_of_havesent, under threadlock. *)
TakeCount == /\ Unlocked
             /\ UGoto("count", "greet")
             /\ sent' = downloaded
             /\ UNCHANGED <<vars, snapshot, inbox, outbox, recent, link,
                            learnt, served>>

(* The bitfield, without the lock. *)
BuildBitfield ==
  /\ UGoto("greet", "sendgreeting")
  /\ learnt' = IF link \notin {"open", "half"} THEN Nothing ELSE
                [pieces  |-> Offered(pieces_disk, NumPieces),
                 marking |-> { piece_no[w] : w \in { v \in Workers : pc[v] = "mark" } },
                 spoiled |-> Spoiled(pieces_disk)]
  /\ UNCHANGED <<vars, sent, snapshot, inbox, outbox, recent, link, served>>

(* A send.  EPIPE ends the session; a reset that was not yet reported is   *)
(* ECONNRESET, which is only printed.                                      *)
USend(from, to, some, haves) ==
  \/ link = "reset" /\ ULeave(from)
  \/ /\ link # "reset" /\ UGoto(from, to)
     /\ link' = IF link = "broken" \/ (link = "gone" /\ some) THEN "reset" ELSE link
     /\ learnt' = IF link \notin {"open", "half"} THEN Nothing
                  ELSE [learnt EXCEPT !.pieces = @ \cup haves]
     /\ outbox' = Unsent
     /\ UNCHANGED <<vars, sent, snapshot, inbox, recent, served>>

(* Handshake, bitfield, UNCHOKE and a keep-alive. *)
SendGreeting == USend("sendgreeting", "receive", TRUE, {})

(* The peer stops sending, closes, or its end breaks; the receive ends.    *)
PeerStops ==
  /\ process = "up" /\ upc \notin {"idle", "closed"}
  /\ \/ link = "open" /\ link' \in {"half", "gone", "broken"}
     \/ link = "half" /\ link' \in {"gone", "reset"}
     \/ link = "gone" /\ link' = "reset"
  /\ learnt' = IF link' = "half" THEN learnt ELSE Nothing
  /\ UNCHANGED <<vars, upc, sent, snapshot, inbox, outbox, recent, served>>

(* What recv reports when it ends the loop. *)
Reported == IF link = "broken" THEN "reset" ELSE link

Receive ==
  /\ UGoto("receive", "verify") /\ link # "open"
  /\ inbox' \in Conversations
  /\ link' = Reported
  /\ UNCHANGED <<vars, sent, snapshot, outbox, recent, learnt, served>>

(* What comes next in recvmes. *)
First == IF inbox = <<>> THEN "nothing" ELSE inbox[1].kind

(* The comparison of the info hash, and substr(68) of what may be shorter. *)
Verify ==
  \/ First \in {"nothing", "otherhash"} /\ ULeave("verify")
  \/ First = "cuthandshake" /\ UCrash("verify")
  \/ /\ First = "handshake"
     /\ UGoto("verify", "call")
     /\ inbox' = Tail(inbox)
     /\ UNCHANGED <<vars, sent, snapshot, outbox, recent, link, learnt,
                    served>>

-----------------------------------------------------------------------------
(* processMessageServer.                                                   *)

(* Another thread is about to change the deque or the HAVE list, and the   *)
(* copy of `pieces' may meet it half way.                                  *)
Overlaps == \E w \in Workers : pc[w] \in {"pop", "putback", "giveback", "list"}

Call ==
  \/ /\ UGoto("call", "process")
     /\ snapshot' = pieces_disk
     /\ outbox' = Unsent
     /\ UNCHANGED <<vars, sent, inbox, recent, link, learnt, served>>
  \/ Overlaps /\ UCrash("call")

(* Mutant: any piece asked for is read. *)
AnyPiece(cell) == TRUE

OnDisk(cell) == cell \div NumBlocks \in snapshot

(* One message with its answer; the rest of recvmes stays. *)
Handled(kind) == /\ process = "up" /\ upc = "process"
                 /\ First = kind
                 /\ inbox' = Tail(inbox)

Replies == outbox' = [outbox EXCEPT !.some = TRUE]

HandlePlain ==
  /\ \/ Handled("keepalive") /\ recent' = TRUE /\ UNCHANGED outbox
     \/ Handled("flag") /\ UNCHANGED <<recent, outbox>>
     \/ Handled("interested") /\ Replies /\ UNCHANGED recent
     \/ Handled("request") /\ ~OnDisk(inbox[1].cell) /\ Replies /\ UNCHANGED recent
  /\ UNCHANGED <<vars, upc, sent, snapshot, link, learnt, served>>

HandleWrite == /\ First = "write"
               /\ UCrash("process")

(* createPieceMessage: seekg, then read, on the stream all threads share.  *)
SeekBlock ==
  /\ First = "request" /\ OnDisk(inbox[1].cell)
  /\ UGoto("process", "read")
  /\ StreamSeek(inbox[1].cell)
  /\ UNCHANGED <<othersThanStream, sent, snapshot, inbox, outbox, recent, link,
                 learnt, served>>

ReadBlock ==
  /\ UGoto("read", "process")
  /\ StreamRead
  /\ served' = [cell |-> inbox[1].cell,
                data |-> IF ffail \/ fpos >= FileEnd THEN <<Junk, 0>> ELSE file[fpos],
                moved |-> fpos # inbox[1].cell, failed |-> ffail,
                poisons |-> ffail' # ffail]
  /\ inbox' = Tail(inbox)
  /\ Replies
  /\ UNCHANGED <<othersThanStream, sent, snapshot, recent, link, learnt>>

(* A failure leaves the message at the head of recvmes, for the next pass; *)
(* the status is not looked at, and only SUCCESS takes latest_comms.       *)
Stuck == First = "unreadable"

Return ==
  /\ UGoto("process", "haves")
  /\ \/ First = "nothing" /\ recent' = TRUE
     \/ Stuck /\ UNCHANGED recent
  /\ snapshot' = {} /\ served' = NoServed
  /\ UNCHANGED <<vars, sent, inbox, outbox, link, learnt>>

-----------------------------------------------------------------------------
(* The rest of the loop.                                                   *)

Due == { havemesslist[k] : k \in sent + 1 .. Len(havemesslist) }

(* The HAVEs since no_of_havesent, under threadlock. *)
AddHaves ==
  /\ Unlocked
  /\ UGoto("haves", "send")
  /\ outbox' = [some |-> outbox.some \/ Due # {}, haves |-> Due]
  /\ sent' = IF Len(havemesslist) > sent THEN Len(havemesslist) ELSE sent
  /\ UNCHANGED <<vars, snapshot, inbox, recent, link, learnt, served>>

SendAll == USend("send", "listen", outbox.some, outbox.haves)

(* recv returns at once, for the stream has ended. *)
Listen == /\ UGoto("listen", "test")
          /\ link' = Reported
          /\ UNCHANGED <<vars, sent, snapshot, inbox, outbox, recent, learnt, served>>

(* Mutant: without the two minutes. *)
TestPeerd ==
  \/ ULeave("test")
  \/ /\ UGoto("test", "call")
     /\ UNCHANGED <<vars, sent, snapshot, inbox, outbox, recent, link, learnt,
                    served>>

(* Two minutes without latest_comms, or peerd == no_of_pieces, which       *)
(* nothing that a session survives ever writes: any value.                 *)
Test ==
  \/ ULeave("test")
  \/ /\ recent /\ UGoto("test", "call")
     /\ UNCHANGED <<vars, sent, snapshot, inbox, outbox, recent, link, learnt,
                    served>>

TwoMinutes == /\ process = "up" /\ recent
              /\ recent' = FALSE
              /\ UNCHANGED <<vars, upc, sent, snapshot, inbox, outbox, link,
                             learnt, served>>

-----------------------------------------------------------------------------
UploadThread ==
  \/ TakeCount \/ BuildBitfield \/ SendGreeting \/ Receive \/ Verify
  \/ Call \/ HandlePlain \/ HandleWrite \/ SeekBlock \/ ReadBlock \/ Return
  \/ AddHaves \/ SendAll \/ Listen \/ Test

UploadInit ==
  /\ Init
  /\ upc = "idle" /\ sent = 0 /\ snapshot = {}
  /\ inbox = <<>> /\ outbox = Unsent
  /\ recent = FALSE /\ link = "open"
  /\ learnt = Nothing /\ served = NoServed

UploadNext == \/ Next /\ UNCHANGED uploadVars
              \/ Accept \/ UploadThread \/ PeerStops \/ TwoMinutes

(* A thread that has threadlock goes on and releases it. *)
Releases == \A w \in Workers : WF_allVars(ListPiece(w) /\ UNCHANGED uploadVars)

(* The upload thread is scheduled and the clock advances; nothing is       *)
(* assumed of the peer, nor of the other threads but that they release the *)
(* lock.                                                                   *)
UploadSpec == /\ UploadInit /\ [][UploadNext]_allVars
              /\ WF_allVars(UploadThread) /\ WF_allVars(TwoMinutes) /\ Releases

-----------------------------------------------------------------------------
(* Properties.                                                             *)

Greeted == upc \notin {"idle", "count", "greet", "sendgreeting", "closed"}

ReadAsMeant ==
  \A n \in {8, 10} : \A S \in SUBSET (0 .. n - 1) : Offered(S, n) = S <=> ~Spoiled(S)

(* The bitfield a peer reads is the one that was meant as long as no piece *)
(* at one of four places of a byte is on the disk, and with such a piece   *)
(* it never is (messagesCreate.cpp:68): no two errors cancel out.          *)
BitfieldReadAsMeant == upc = "sendgreeting" => ReadAsMeant

(* A peer that stays learns in the bitfield (built outside threadlock,     *)
(* server.cpp:58-72) and in HAVEs of every piece counted so far, except    *)
(* one whose thread stood between the count and pieces_disk when the       *)
(* bitfield was built, and of no piece that is not counted.  A bitfield    *)
(* that base 10 spoiled is BitfieldReadAsMeant's.                          *)
PeerLearnsAll ==
  ~learnt.spoiled =>
    /\ \A p \in learnt.pieces : Counted(p)
    /\ upc \in {"listen", "test", "call"} /\ link = "half" =>
         \A k \in 1 .. Len(havemesslist) :
           k <= sent => havemesslist[k] \in learnt.pieces \cup learnt.marking

(* The block sent for a REQUEST is that block of that piece, and reading   *)
(* it leaves the stream as good as it was, unless another thread moved the *)
(* position between seekg and read, or the file was spoiled before.        *)
BlockServed ==
  served # NoServed /\ ~served.moved /\ ~served.failed /\ ~displaced =>
    /\ served.data = <<served.cell \div NumBlocks, served.cell % NumBlocks>>
    /\ ~served.poisons

(* An upload ends when its peer is lost to it: after a reset, when what it *)
(* said cannot be read to the end, or when it has closed and a thread      *)
(* completes a piece to tell it of.  One that has closed when nothing is   *)
(* left to say keeps its thread turning for ever (server.cpp:112-157), and *)
(* one that never stops sending is never heard.                            *)
UploadEnds ==
  \/ upc \in {"call", "process", "haves", "send", "listen", "test"} /\ Stuck
  \/ Greeted /\ link = "reset"
  \/ Greeted /\ link = "gone" /\ Len(havemesslist) > sent
  ~> upc = "closed" \/ process # "up"
=============================================================================
