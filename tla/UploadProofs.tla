---------------------------- MODULE UploadProofs -----------------------------
(* Theorems about Upload, beside the threads of Download, for every value  *)
(* of the constants: any number of threads and pieces, any conversation.   *)
EXTENDS Upload, DownloadProofs, WellFoundedInduction

-----------------------------------------------------------------------------
(* The bitfield.                                                           *)

(* A byte in base 2. *)
LEMMA BitsOfByte ==
  ASSUME NEW v \in 0 .. 255
  PROVE  \E b0, b1, b2, b3, b4, b5, b6, b7 \in {0, 1} :
           /\ v = 128 * b0 + 64 * b1 + 32 * b2 + 16 * b3 + 8 * b4 + 4 * b5 + 2 * b6 + b7
           /\ (v \div 128) % 2 = b0 /\ (v \div 64) % 2 = b1
           /\ (v \div 32) % 2 = b2 /\ (v \div 16) % 2 = b3
           /\ (v \div 8) % 2 = b4 /\ (v \div 4) % 2 = b5
           /\ (v \div 2) % 2 = b6 /\ (v \div 1) % 2 = b7
<1> DEFINE b(k) == (v \div k) % 2
<1>1. /\ b(128) \in {0, 1} /\ b(64) \in {0, 1} /\ b(32) \in {0, 1} /\ b(16) \in {0, 1}
      /\ b(8) \in {0, 1} /\ b(4) \in {0, 1} /\ b(2) \in {0, 1} /\ b(1) \in {0, 1}
  BY SMTT(30)
<1>2. v = 128 * b(128) + 64 * b(64) + 32 * b(32) + 16 * b(16) + 8 * b(8) + 4 * b(4)
          + 2 * b(2) + b(1)
  BY SMTT(60)
<1> QED BY <1>1, <1>2


(* What base 10 makes of eight digits: right without a one at the places   *)
(* 2, 4, 5 and 6 from the left, and otherwise wrong no further right than  *)
(* the last such one.                                                      *)
LEMMA BaseTen ==
  ASSUME NEW d0 \in {0, 1}, NEW d1 \in {0, 1}, NEW d2 \in {0, 1}, NEW d3 \in {0, 1},
         NEW d4 \in {0, 1}, NEW d5 \in {0, 1}, NEW d6 \in {0, 1}, NEW d7 \in {0, 1},
         NEW b0 \in {0, 1}, NEW b1 \in {0, 1}, NEW b2 \in {0, 1}, NEW b3 \in {0, 1},
         NEW b4 \in {0, 1}, NEW b5 \in {0, 1}, NEW b6 \in {0, 1}, NEW b7 \in {0, 1},
         (10000000 * d0 + 1000000 * d1 + 100000 * d2 + 10000 * d3 + 1000 * d4 + 100 * d5
          + 10 * d6 + d7) % 256
         = 128 * b0 + 64 * b1 + 32 * b2 + 16 * b3 + 8 * b4 + 4 * b5 + 2 * b6 + b7
  PROVE  /\ d2 = 0 /\ d4 = 0 /\ d5 = 0 /\ d6 = 0 =>
              /\ b0 = d0 /\ b1 = d1 /\ b2 = d2 /\ b3 = d3
              /\ b4 = d4 /\ b5 = d5 /\ b6 = d6 /\ b7 = d7
         /\ d2 = 1 /\ d4 = 0 /\ d5 = 0 /\ d6 = 0 =>
              b0 # d0 \/ b1 # d1 \/ b2 # d2
         /\ d4 = 1 /\ d5 = 0 /\ d6 = 0 =>
              b0 # d0 \/ b1 # d1 \/ b2 # d2 \/ b3 # d3 \/ b4 # d4
         /\ d5 = 1 /\ d6 = 0 =>
              b0 # d0 \/ b1 # d1 \/ b2 # d2 \/ b3 # d3 \/ b4 # d4 \/ b5 # d5
         /\ d6 = 1 =>
              b0 # d0 \/ b1 # d1 \/ b2 # d2 \/ b3 # d3 \/ b4 # d4 \/ b5 # d5 \/ b6 # d6
<1> DEFINE t == 128 * d0 + 64 * d1 + 160 * d2 + 16 * d3 + 232 * d4 + 100 * d5 + 10 * d6 + d7
           v == 128 * b0 + 64 * b1 + 32 * b2 + 16 * b3 + 8 * b4 + 4 * b5 + 2 * b6 + b7
<1>1. PICK k \in Int : t = v + 256 * k
  BY SMTT(60)
<1>2. k \in 0 .. 2
  BY <1>1, SMTT(30)
<1>3. CASE d2 = 0 /\ d4 = 0 /\ d5 = 0 /\ d6 = 0 BY SMTT(30), <1>1, <1>2, <1>3
<1>4. CASE d2 = 1 /\ d4 = 0 /\ d5 = 0 /\ d6 = 0 BY SMTT(30), <1>1, <1>2, <1>4
<1>5. CASE d4 = 1 /\ d5 = 0 /\ d6 = 0 BY SMTT(30), <1>1, <1>2, <1>5
<1>6. CASE d5 = 1 /\ d6 = 0 BY SMTT(30), <1>1, <1>2, <1>6
<1>7. CASE d6 = 1 BY SMTT(30), <1>1, <1>2, <1>7
<1> QED BY <1>3, <1>4, <1>5, <1>6, <1>7


(* What a peer reads at a place of a byte. *)
Bit(S, q, i) == (ByteOf(S, q) \div Weight[i + 1]) % 2

LEMMA BytePlaces ==
  ASSUME NEW S, NEW q \in Int
  PROVE  /\ \A i \in 0 .. 7 : Bit(S, q, i) \in {0, 1}
         /\ (\A i \in {2, 4, 5, 6} : 8 * q + i \notin S) =>
              \A i \in 0 .. 7 : Bit(S, q, i) = Digit(S, 8 * q + i)
         /\ (\E i \in {2, 4, 5, 6} : 8 * q + i \in S) =>
              \E i \in 0 .. 7 : /\ 8 * q + i \in S
                                /\ \E j \in 0 .. i : Bit(S, q, j) # Digit(S, 8 * q + j)
<1> DEFINE d(i) == Digit(S, 8 * q + i)
           v == ByteOf(S, q)
<1>1. \A i : d(i) \in {0, 1} /\ (d(i) = 1 <=> 8 * q + i \in S) BY DEF Digit
<1>2. v = (10000000 * d(0) + 1000000 * d(1) + 100000 * d(2) + 10000 * d(3)
           + 1000 * d(4) + 100 * d(5) + 10 * d(6) + d(7)) % 256
  BY DEF ByteOf
<1> HIDE DEF d
<1>3. v \in 0 .. 255
  <2>1. /\ d(0) \in {0, 1} /\ d(1) \in {0, 1} /\ d(2) \in {0, 1} /\ d(3) \in {0, 1}
        /\ d(4) \in {0, 1} /\ d(5) \in {0, 1} /\ d(6) \in {0, 1} /\ d(7) \in {0, 1}
    BY <1>1
  <2> QED BY <1>2, <2>1
<1> HIDE DEF v
<1>4. PICK b0, b1, b2, b3, b4, b5, b6, b7 \in {0, 1} :
        /\ v = 128 * b0 + 64 * b1 + 32 * b2 + 16 * b3 + 8 * b4 + 4 * b5 + 2 * b6 + b7
        /\ (v \div 128) % 2 = b0 /\ (v \div 64) % 2 = b1
        /\ (v \div 32) % 2 = b2 /\ (v \div 16) % 2 = b3
        /\ (v \div 8) % 2 = b4 /\ (v \div 4) % 2 = b5
        /\ (v \div 2) % 2 = b6 /\ (v \div 1) % 2 = b7
  BY <1>3, BitsOfByte
<1>5. /\ Bit(S, q, 0) = b0 /\ Bit(S, q, 1) = b1 /\ Bit(S, q, 2) = b2
      /\ Bit(S, q, 3) = b3 /\ Bit(S, q, 4) = b4 /\ Bit(S, q, 5) = b5
      /\ Bit(S, q, 6) = b6 /\ Bit(S, q, 7) = b7
  BY <1>4 DEF Bit, Weight, v
<1>6. /\ d(2) = 0 /\ d(4) = 0 /\ d(5) = 0 /\ d(6) = 0 =>
           /\ b0 = d(0) /\ b1 = d(1) /\ b2 = d(2) /\ b3 = d(3)
           /\ b4 = d(4) /\ b5 = d(5) /\ b6 = d(6) /\ b7 = d(7)
      /\ d(2) = 1 /\ d(4) = 0 /\ d(5) = 0 /\ d(6) = 0 =>
           b0 # d(0) \/ b1 # d(1) \/ b2 # d(2)
      /\ d(4) = 1 /\ d(5) = 0 /\ d(6) = 0 =>
           b0 # d(0) \/ b1 # d(1) \/ b2 # d(2) \/ b3 # d(3) \/ b4 # d(4)
      /\ d(5) = 1 /\ d(6) = 0 =>
           b0 # d(0) \/ b1 # d(1) \/ b2 # d(2) \/ b3 # d(3) \/ b4 # d(4) \/ b5 # d(5)
      /\ d(6) = 1 =>
           b0 # d(0) \/ b1 # d(1) \/ b2 # d(2) \/ b3 # d(3) \/ b4 # d(4) \/ b5 # d(5)
           \/ b6 # d(6)
  <2> DEFINE e0 == d(0) e1 == d(1) e2 == d(2) e3 == d(3)
             e4 == d(4) e5 == d(5) e6 == d(6) e7 == d(7)
  <2>1. /\ e0 \in {0, 1} /\ e1 \in {0, 1} /\ e2 \in {0, 1} /\ e3 \in {0, 1}
        /\ e4 \in {0, 1} /\ e5 \in {0, 1} /\ e6 \in {0, 1} /\ e7 \in {0, 1}
    BY <1>1
  <2>2. (10000000 * e0 + 1000000 * e1 + 100000 * e2 + 10000 * e3 + 1000 * e4 + 100 * e5
          + 10 * e6 + e7) % 256
         = 128 * b0 + 64 * b1 + 32 * b2 + 16 * b3 + 8 * b4 + 4 * b5 + 2 * b6 + b7
    BY <1>2, <1>4
  <2> HIDE DEF e0, e1, e2, e3, e4, e5, e6, e7
  <2>3. /\ e2 = 0 /\ e4 = 0 /\ e5 = 0 /\ e6 = 0 =>
             /\ b0 = e0 /\ b1 = e1 /\ b2 = e2 /\ b3 = e3
             /\ b4 = e4 /\ b5 = e5 /\ b6 = e6 /\ b7 = e7
        /\ e2 = 1 /\ e4 = 0 /\ e5 = 0 /\ e6 = 0 =>
             b0 # e0 \/ b1 # e1 \/ b2 # e2
        /\ e4 = 1 /\ e5 = 0 /\ e6 = 0 =>
             b0 # e0 \/ b1 # e1 \/ b2 # e2 \/ b3 # e3 \/ b4 # e4
        /\ e5 = 1 /\ e6 = 0 =>
             b0 # e0 \/ b1 # e1 \/ b2 # e2 \/ b3 # e3 \/ b4 # e4 \/ b5 # e5
        /\ e6 = 1 =>
             b0 # e0 \/ b1 # e1 \/ b2 # e2 \/ b3 # e3 \/ b4 # e4 \/ b5 # e5 \/ b6 # e6
    BY <2>1, <2>2, BaseTen
  <2> QED BY <2>3 DEF e0, e1, e2, e3, e4, e5, e6, e7
<1>7. \A i \in 0 .. 7 : i = 0 \/ i = 1 \/ i = 2 \/ i = 3 \/ i = 4 \/ i = 5 \/ i = 6 \/ i = 7
  OBVIOUS
<1>8. \A i \in 0 .. 7 : Bit(S, q, i) \in {0, 1} BY <1>5, <1>7
<1>9. ASSUME \A i \in {2, 4, 5, 6} : 8 * q + i \notin S
      PROVE  \A i \in 0 .. 7 : Bit(S, q, i) = d(i)
  <2>1. d(2) = 0 /\ d(4) = 0 /\ d(5) = 0 /\ d(6) = 0 BY <1>1, <1>9
  <2> QED BY <1>5, <1>6, <1>7, <2>1
<1>10. ASSUME \E i \in {2, 4, 5, 6} : 8 * q + i \in S
       PROVE  \E i \in 0 .. 7 : d(i) = 1 /\ \E j \in 0 .. i : Bit(S, q, j) # d(j)
  <2>1. d(2) = 1 \/ d(4) = 1 \/ d(5) = 1 \/ d(6) = 1 BY <1>1, <1>10
  <2>2. CASE d(6) = 1
    <3>1. \E j \in 0 .. 6 : Bit(S, q, j) # d(j) BY <1>5, <1>6, <2>2
    <3> QED BY <2>2, <3>1
  <2>3. CASE d(6) = 0 /\ d(5) = 1
    <3>1. \E j \in 0 .. 5 : Bit(S, q, j) # d(j) BY <1>5, <1>6, <2>3
    <3> QED BY <2>3, <3>1
  <2>4. CASE d(6) = 0 /\ d(5) = 0 /\ d(4) = 1
    <3>1. \E j \in 0 .. 4 : Bit(S, q, j) # d(j) BY <1>5, <1>6, <2>4
    <3> QED BY <2>4, <3>1
  <2>5. CASE d(6) = 0 /\ d(5) = 0 /\ d(4) = 0 /\ d(2) = 1
    <3>1. \E j \in 0 .. 2 : Bit(S, q, j) # d(j) BY <1>5, <1>6, <2>5
    <3> QED BY <2>5, <3>1
  <2>6. d(6) \in {0, 1} /\ d(5) \in {0, 1} /\ d(4) \in {0, 1} BY <1>1
  <2> QED BY <2>1, <2>2, <2>3, <2>4, <2>5, <2>6
<1> QED BY <1>1, <1>8, <1>9, <1>10 DEF d

(* The bitfield says what was meant exactly if no piece stands at one of   *)
(* the four places, for any number of pieces, a last byte that is not full *)
(* included: two errors never cancel, nor hide behind the end.             *)
LEMMA OfferedIsMeant ==
  ASSUME NEW n \in Nat, NEW S \in SUBSET (0 .. n - 1)
  PROVE  Offered(S, n) = S <=> ~Spoiled(S)
<1>1. \A p \in Nat : /\ p = 8 * (p \div 8) + (p % 8)
                     /\ p % 8 \in 0 .. 7 /\ p \div 8 \in Nat
  OBVIOUS
<1>2. \A q \in Nat, i \in 0 .. 7 : /\ (8 * q + i) \div 8 = q /\ (8 * q + i) % 8 = i
                                   /\ 8 * q + i \in Nat
  OBVIOUS
<1>3. \A p : p \in Offered(S, n) <=> p \in 0 .. n - 1 /\ Bit(S, p \div 8, p % 8) = 1
  BY DEF Offered, Bit
<1>4. ASSUME ~Spoiled(S) PROVE Offered(S, n) = S
  <2> SUFFICES ASSUME NEW p \in 0 .. n - 1 PROVE p \in Offered(S, n) <=> p \in S
    BY DEF Offered
  <2> DEFINE q == p \div 8
  <2>1. q \in Nat /\ p % 8 \in 0 .. 7 /\ p = 8 * q + (p % 8) BY <1>1
  <2>2. \A i \in {2, 4, 5, 6} : 8 * q + i \notin S BY <1>2, <1>4, <2>1 DEF Spoiled
  <2>3. Bit(S, q, p % 8) = Digit(S, p) BY <2>1, <2>2, BytePlaces
  <2> QED BY <1>3, <2>3 DEF Digit
<1>5. ASSUME Spoiled(S) PROVE Offered(S, n) # S
  <2>1. PICK p \in S : p % 8 \in {2, 4, 5, 6} BY <1>5 DEF Spoiled
  <2> DEFINE q == p \div 8
  <2>2. q \in Nat /\ p = 8 * q + (p % 8) BY <1>1
  <2>3. PICK i \in 0 .. 7 : /\ 8 * q + i \in S
                            /\ \E j \in 0 .. i : Bit(S, q, j) # Digit(S, 8 * q + j)
    <3>1. \E i \in {2, 4, 5, 6} : 8 * q + i \in S BY <2>1, <2>2
    <3> QED BY <2>2, <3>1, BytePlaces
  <2>4. PICK j \in 0 .. i : Bit(S, q, j) # Digit(S, 8 * q + j) BY <2>3
  <2> DEFINE c == 8 * q + j
  <2>5. c \in 0 .. n - 1 /\ c \div 8 = q /\ c % 8 = j BY <1>2, <2>2, <2>3
  <2>6. c \in Offered(S, n) <=> Bit(S, q, j) = 1 BY <1>3, <2>5
  <2>7. Bit(S, q, j) \in {0, 1} BY <2>2, BytePlaces
  <2> QED BY <2>4, <2>6, <2>7 DEF Digit
<1> QED BY <1>4, <1>5


-----------------------------------------------------------------------------
(* The invariant of an upload.                                             *)

Said == Sayings \cup { Plain(k) : k \in {"handshake", "otherhash", "cuthandshake"} }

Told == [pieces : SUBSET Numbers, marking : SUBSET Numbers, spoiled : BOOLEAN]
Waiting == [some : BOOLEAN, haves : SUBSET Numbers]

(* What the thread works on: only pieces that were counted, and between    *)
(* the seek and the read a REQUEST for a block of one of them.             *)
WorkOK ==
  /\ inbox \in Seq(Said) /\ outbox \in Waiting /\ learnt \in Told
  /\ \A p \in snapshot : Counted(p)
  /\ \A p \in outbox.haves : Counted(p)
  /\ sent \in Nat /\ sent <= Len(havemesslist)
  /\ upc = "read" => First = "request" /\ OnDisk(inbox[1].cell)

(* A peer that stays has been told of the list up to sent, or is about to  *)
(* be, by what stands in sendmes.                                          *)
Addressed == upc \notin {"idle", "count", "greet", "closed"} /\ link \in {"open", "half"}

ToldOf(p) == \/ p \in learnt.pieces \cup learnt.marking
             \/ upc = "send" /\ p \in outbox.haves

LearntOK ==
  ~learnt.spoiled =>
    /\ \A p \in learnt.pieces : Counted(p)
    /\ Addressed => \A k \in 1 .. sent : ToldOf(havemesslist[k])

DownInv == TypeOK /\ StoreInv /\ CountOK
UploadInv == DownInv /\ WorkOK /\ LearntOK /\ BlockServed


-----------------------------------------------------------------------------
(* What the steps of Download do to it.                                    *)

(* The list grows by one entry or not at all, and a displaced write stays  *)
(* on record.                                                              *)
LEMMA NewEntry ==
  ASSUME [Next]_vars
  PROVE  /\ \/ UNCHANGED havemesslist
            \/ \E w \in Workers : havemesslist' = Append(havemesslist, piece_no[w])
         /\ displaced => displaced'
<1> USE DEF sharedVars, queueVars, countVars, fileVars, mainVars, historyVars
<1> DEFINE Kept == UNCHANGED <<havemesslist, displaced>>
<1>1. CASE TimePasses \/ Main \/ UNCHANGED vars
  <2>1. Kept
    BY <1>1 DEF TimePasses, Main, MainAnnounce, TrackersAnswer, TrackersSilent, Spawn,
                SpawnedAll, vars
  <2> QED BY <2>1
<1>2. ASSUME NEW w \in Workers, Setup(w) \/ Message(w) \/ Crash(w) \/ Pause(w) PROVE Kept
  BY <1>2 DEF Setup, Connect, HelloSilent, SendInterested, HelloDone, InterestedDone,
              Message, OnKeepAlive, OnChoke, OnUnchoke, OnHave, OnBitfield, OnPiece,
              OnRequest, ServeBlock, Receives, Crash, Pause
<1>3. ASSUME NEW w \in Workers, Loop(w), ~ListPiece(w), ~WritePiece(w) PROVE Kept
  BY <1>3 DEF Loop, WhileStatus, CheckQueue, TakePiece, SendRequests, BatchDone, Assemble,
              SeekPiece, CountPiece, MarkPiece, ReturnPiece, Farewell, Close
<1>4. ASSUME NEW w \in Workers, WritePiece(w)
      PROVE  UNCHANGED havemesslist /\ (displaced => displaced')
  BY <1>4 DEF WritePiece
<1>5. ASSUME NEW w \in Workers, ListPiece(w)
      PROVE  havemesslist' = Append(havemesslist, piece_no[w]) /\ UNCHANGED displaced
  BY <1>5 DEF ListPiece
<1> QED BY <1>1, <1>2, <1>3, <1>4, <1>5 DEF Next, Quiet

(* What a longer list keeps. *)
ListKept == /\ Len(havemesslist) <= Len(havemesslist')
            /\ \A k \in 1 .. Len(havemesslist) : havemesslist'[k] = havemesslist[k]
            /\ \A p : Counted(p) => Counted(p)'
            /\ displaced => displaced'

LEMMA SharedKept ==
  ASSUME DownInv, [Next]_vars
  PROVE  DownInv' /\ ListKept
<1>1. DownInv' BY NextType, NextStored, NextCount DEF DownInv
<1>2. havemesslist \in Seq(Numbers) BY DEF DownInv, TypeOK
<1>3. CASE UNCHANGED havemesslist
  BY <1>1, <1>2, <1>3, NewEntry DEF ListKept, Counted
<1>4. ASSUME NEW w \in Workers, havemesslist' = Append(havemesslist, piece_no[w])
      PROVE  ListKept
  <2>1. piece_no[w] \in Numbers BY DEF DownInv, TypeOK
  <2>2. /\ Len(havemesslist') = Len(havemesslist) + 1 /\ Len(havemesslist) \in Nat
        /\ \A k \in 1 .. Len(havemesslist) : havemesslist'[k] = havemesslist[k]
    BY <1>2, <1>4, <2>1
  <2> QED BY <2>2, NewEntry DEF ListKept, Counted
<1> QED BY <1>1, <1>3, <1>4, NewEntry


-----------------------------------------------------------------------------
(* What the steps of the upload do to what it shares.                      *)

Seeks == UNCHANGED othersThanStream /\ \E cell \in Int : StreamSeek(cell)
Reads == UNCHANGED othersThanStream /\ StreamRead
Ends == UNCHANGED othersThanProcess /\ process' = "crashed"

LEMMA UploadShares ==
  ASSUME DownInv, UNCHANGED vars \/ Seeks \/ Reads \/ Ends
  PROVE  DownInv' /\ ListKept
<1> USE DEF queueVars, countVars, fileVars, mainVars, historyVars
<1>1. CASE UNCHANGED vars BY <1>1, SharedKept
<1>2. CASE Seeks \/ Reads \/ Ends
  <2>1. UNCHANGED <<pc, piece_no, peerdata, havemesslist, downloaded, pieces_disk,
                    displaced, undefined>>
    BY <1>2 DEF Seeks, Reads, Ends, othersThanStream, othersThanProcess
  <2>2. UNCHANGED file /\ (ffail => ffail')
    <3>1. CASE Seeks BY <3>1 DEF Seeks, StreamSeek
    <3>2. CASE Reads BY <3>2 DEF Reads, StreamRead
    <3>3. CASE Ends BY <3>3 DEF Ends, othersThanProcess
    <3> QED BY <1>2, <3>1, <3>2, <3>3
  <2>3. TypeOK'
    <3>1. CASE Seeks \/ Reads
      <4>1. /\ file' \in [FileCells -> Cells \X Blocks] /\ fpos' \in Int
            /\ ffail' \in BOOLEAN
        BY <3>1, StreamType DEF Seeks, Reads, DownInv
      <4> QED BY <3>1, <4>1 DEF Seeks, Reads, othersThanStream, DownInv, TypeOK
    <3>2. CASE Ends BY <3>2 DEF Ends, othersThanProcess, DownInv, TypeOK
    <3> QED BY <1>2, <3>1, <3>2
  <2>4. \A v \in Workers : Steady(v) BY <2>1, StaySteady
  <2>5. StoreInv' BY <2>1, <2>2, <2>4, CalmStep DEF Calm, DownInv
  <2>6. ListKept
    BY <2>1 DEF ListKept, Counted, DownInv, TypeOK
  <2>7. CountOK' BY <2>1 DEF DownInv, CountOK, Unlocked
  <2> QED BY <2>3, <2>5, <2>6, <2>7 DEF DownInv
<1> QED BY <1>1, <1>2

-----------------------------------------------------------------------------
(* Steps that leave a part of the invariant alone.                         *)

(* What sendmes is between two critical sections. *)
OutboxKept == outbox' \in {outbox, Unsent, [outbox EXCEPT !.some = TRUE]}

LEMMA NothingType == Nothing \in Told /\ Unsent \in Waiting
BY DEF Nothing, Told, Unsent, Waiting

LEMMA WorkKept ==
  ASSUME WorkOK, ListKept, DownInv, DownInv', OutboxKept,
         inbox' \in Seq(Said), learnt' \in Told,
         snapshot' \subseteq snapshot,
         sent' \in {0, sent},
         upc' = "read" => upc = "read" /\ UNCHANGED <<inbox, snapshot>>
  PROVE  WorkOK'
<1>1. /\ Len(havemesslist) \in Nat /\ Len(havemesslist') \in Nat
      /\ Len(havemesslist) <= Len(havemesslist')
  BY DEF DownInv, TypeOK, ListKept
<1>2. sent' \in Nat /\ sent' <= Len(havemesslist') BY <1>1 DEF WorkOK
<1>3. outbox' \in Waiting /\ outbox'.haves \subseteq outbox.haves
  <2>1. outbox \in Waiting BY DEF WorkOK
  <2>2. [outbox EXCEPT !.some = TRUE] \in Waiting
        /\ [outbox EXCEPT !.some = TRUE].haves = outbox.haves
    BY <2>1 DEF Waiting
  <2>3. Unsent.haves = {} BY DEF Unsent
  <2> QED BY <2>1, <2>2, <2>3, NothingType DEF OutboxKept
<1>5. /\ \A p \in snapshot' : Counted(p)'
      /\ \A p \in outbox'.haves : Counted(p)'
  BY <1>3 DEF WorkOK, ListKept
<1>4. upc' = "read" => First' = "request" /\ OnDisk(inbox[1].cell)'
  BY DEF WorkOK, First, OnDisk
<1> QED BY <1>2, <1>3, <1>4, <1>5 DEF WorkOK

LEMMA LearntKept ==
  ASSUME LearntOK, WorkOK, DownInv, ListKept,
         learnt' \in {learnt, Nothing},
         Addressed' => /\ Addressed
                       /\ UNCHANGED <<learnt, sent>>
                       /\ upc = "send" => upc' = "send" /\ UNCHANGED outbox
  PROVE  LearntOK'
<1> SUFFICES ASSUME ~learnt'.spoiled
             PROVE  /\ \A p \in learnt'.pieces : Counted(p)'
                    /\ Addressed' => \A k \in 1 .. sent' : ToldOf(havemesslist[k])'
  BY DEF LearntOK
<1>1. \A p \in learnt'.pieces : Counted(p)' BY DEF LearntOK, ListKept, Nothing
<1>2. ASSUME Addressed', NEW k \in 1 .. sent' PROVE ToldOf(havemesslist[k])'
  <2>1. Addressed /\ ~learnt.spoiled /\ k \in 1 .. sent BY <1>2
  <2>2. ToldOf(havemesslist[k]) BY <2>1 DEF LearntOK
  <2>3. k \in 1 .. Len(havemesslist) BY <2>1 DEF WorkOK, DownInv, TypeOK
  <2>4. havemesslist'[k] = havemesslist[k] BY <2>3 DEF ListKept
  <2> QED BY <1>2, <2>2, <2>4 DEF ToldOf
<1> QED BY <1>1, <1>2

LEMMA ServedKept ==
  ASSUME BlockServed, ListKept, served' \in {served, NoServed}
  PROVE  BlockServed'
BY DEF BlockServed, ListKept

(* The thread's own variables but for recent. *)
workVars == <<upc, sent, snapshot, inbox, outbox, link, learnt, served>>

LEMMA RestUpload ==
  ASSUME UploadInv, DownInv', ListKept, UNCHANGED workVars
  PROVE  UploadInv'
<1> USE DEF workVars, UploadInv
<1>1. WorkOK' BY WorkKept DEF WorkOK, OutboxKept
<1>2. LearntOK' BY LearntKept DEF Addressed
<1>3. BlockServed' BY ServedKept
<1> QED BY <1>1, <1>2, <1>3

(* A turn of the thread that leaves what the peer was told, and the count. *)
LEMMA TurnUpload ==
  ASSUME UploadInv, DownInv', ListKept,
         upc' # "read", upc # "send",
         upc' \in {"idle", "count", "closed"} \/ UNCHANGED <<learnt, sent>>,
         link \notin {"open", "half"} => link' \notin {"open", "half"},
         upc' \in {"idle", "count", "greet", "closed"}
         \/ upc \notin {"idle", "count", "greet", "closed", "send"},
         learnt' \in {learnt, Nothing}, sent' \in {0, sent},
         inbox' \in Seq(Said),
         snapshot' \subseteq snapshot, OutboxKept,
         served' \in {served, NoServed}
  PROVE  UploadInv'
<1> USE DEF UploadInv
<1>0. learnt' \in Told BY NothingType DEF WorkOK
<1>1. WorkOK' BY <1>0, WorkKept
<1>2. LearntOK' BY LearntKept DEF Addressed
<1>3. BlockServed' BY ServedKept
<1> QED BY <1>1, <1>2, <1>3


-----------------------------------------------------------------------------
(* The block that is read.                                                 *)

LessThan == { pair \in Nat \X Nat : pair[1] < pair[2] }

LEMMA LeastNumber ==
  ASSUME NEW S, S \subseteq Nat, S # {}
  PROVE  \E k \in S : \A j \in S : k <= j
<1>1. IsWellFoundedOn(LessThan, Nat) BY NatLessThanWellFounded DEF OpToRel, LessThan
<1>2. PICK k \in S : \A j \in S : <<j, k>> \notin LessThan BY <1>1, WFMin
<1>3. ASSUME NEW j \in S PROVE k <= j
  <2>1. j \in Nat /\ k \in Nat /\ <<j, k>> \in Nat \X Nat OBVIOUS
  <2> QED BY <1>2, <2>1 DEF LessThan
<1> QED BY <1>3

(* The least bound of the used cells is the last of them. *)
LEMMA LastCell ==
  ASSUME NEW m \in Int, NEW used, used \subseteq 0 .. m, used # {}
  PROVE  \E c \in used : \A d \in used : d <= c
<1> DEFINE Bounds == { n \in Nat : \A d \in used : d <= n }
<1>0. PICK u : u \in used OBVIOUS
<1>1. m \in Bounds
  <2>1. u \in 0 .. m /\ \A d \in used : d \in 0 .. m BY <1>0
  <2>2. m \in Nat /\ \A d \in used : d <= m BY <2>1
  <2> QED BY <2>2
<1>2. PICK n \in Bounds : \A k \in Bounds : n <= k BY <1>1, LeastNumber
<1>3. n \in Nat /\ \A d \in used : d <= n BY DEF Bounds
<1>4. n \in used
  <2> SUFFICES ASSUME n \notin used PROVE FALSE
    OBVIOUS
  <2>1. \A d \in used : d \in Nat /\ d <= n - 1
    <3> SUFFICES ASSUME NEW d \in used PROVE d \in Nat /\ d <= n - 1
      OBVIOUS
    <3>1. d \in 0 .. m /\ d <= n /\ d # n BY <1>3
    <3> QED BY <1>3, <3>1
  <2>2. n - 1 \in Nat
    <3>1. u \in Nat /\ u <= n - 1 BY <1>0, <2>1
    <3> QED BY <1>3, <3>1
  <2>3. n - 1 \in Bounds BY <2>1, <2>2
  <2> QED BY <1>2, <1>3, <2>3
<1> QED BY <1>3, <1>4

LEMMA FileEndBehind ==
  ASSUME NEW c \in FileCells, file[c] # Blank
  PROVE  FileEnd \in Int /\ c < FileEnd
<1> DEFINE used == { d \in FileCells : file[d] # Blank }
<1>1. c \in used OBVIOUS
<1>2. Cardinality(Workers) \in Nat BY DownloadAssumption, FS_CardinalityType
<1>3. PICK m \in Int : FileCells = 0 .. m
  <2>1. (NumPieces + Cardinality(Workers)) * NumBlocks - 1 \in Int
    BY <1>2, ConstantFacts
  <2> QED BY <2>1 DEF FileCells
<1>4. \E e \in used : \A d \in used : d <= e BY <1>1, <1>3, LastCell
<1> DEFINE last == CHOOSE e \in used : \A d \in used : d <= e
<1>5. last \in used /\ \A d \in used : d <= last BY <1>4
<1>6. FileEnd = 1 + last BY <1>1 DEF FileEnd
<1>7. last \in 0 .. m BY <1>3, <1>5
<1> QED BY <1>1, <1>3, <1>5, <1>6, <1>7

(* A cell of the file is a block of a piece. *)
LEMMA CellIsBlock ==
  ASSUME NEW cell \in 0 .. NumPieces * NumBlocks - 1
  PROVE  /\ cell \div NumBlocks \in Pieces /\ cell % NumBlocks \in Blocks
         /\ cell = (cell \div NumBlocks) * NumBlocks + (cell % NumBlocks)
<1>1. NumBlocks \in Nat \ {0} /\ NumPieces \in Nat \ {0} BY DownloadAssumption
<1>2. PICK p, b, n : p = cell \div n /\ b = cell % n /\ n = NumBlocks OBVIOUS
<1>3. PICK all : all = NumPieces * n OBVIOUS
<1>4. all \in Nat BY <1>1, <1>2, <1>3
<1>5. cell \in Nat /\ cell < all /\ n \in Nat \ {0} BY <1>1, <1>2, <1>3, <1>4
<1>6. p \in Int /\ b \in 0 .. n - 1 /\ cell = p * n + b BY <1>2, <1>5, SMT
<1>7. p < NumPieces
  <2> SUFFICES ASSUME NumPieces <= p PROVE FALSE
    BY <1>1, <1>6
  <2>1. \A i, j \in Int : i <= j => i * n <= j * n BY <1>5
  <2>2. all <= p * n BY <1>1, <1>3, <1>6, <2>1
  <2>3. p * n \in Int BY <1>5, <1>6
  <2> QED BY <1>4, <1>5, <1>6, <2>2, <2>3
<1>8. 0 <= p
  <2> SUFFICES ASSUME p <= -1 PROVE FALSE
    BY <1>6
  <2>1. \A i, j \in Int : i <= j => i * n <= j * n BY <1>5
  <2>2. p * n <= (-1) * n BY <1>6, <2>1
  <2>3. (-1) * n = -n /\ p * n \in Int BY <1>5, <1>6
  <2> QED BY <1>5, <1>6, <2>2, <2>3
<1> QED BY <1>1, <1>2, <1>6, <1>7, <1>8 DEF Pieces, Blocks


-----------------------------------------------------------------------------
(* The messages.                                                           *)

LEMMA TalkType ==
  /\ <<>> \in Seq(Said)
  /\ \A c \in Conversations : c \in Seq(Said)
  /\ \A s \in Seq(Said) : s # <<>> => Tail(s) \in Seq(Said) /\ s[1] \in Said
<1>1. \A s \in Seq(Said) : s # <<>> => Tail(s) \in Seq(Said) /\ s[1] \in Said
  OBVIOUS
<1>2. Plain("handshake") \in Said /\ Plain("otherhash") \in Said
      /\ Plain("cuthandshake") \in Said
  BY DEF Said
<1>3. ASSUME NEW t \in Talks PROVE <<Plain("handshake")>> \o t \in Seq(Said)
  <2>1. t \in Seq(Sayings) BY UploadAssumption
  <2>2. t \in Seq(Said) BY <2>1 DEF Said
  <2>3. <<Plain("handshake")>> \in Seq(Said) BY <1>2
  <2> QED BY <2>2, <2>3
<1>4. <<>> \in Seq(Said) /\ <<Plain("otherhash")>> \in Seq(Said)
      /\ <<Plain("cuthandshake")>> \in Seq(Said)
  BY <1>2
<1> QED BY <1>1, <1>3, <1>4 DEF Conversations

(* Only a REQUEST has a cell that is looked at, and it is one of the file. *)
LEMMA RequestCell ==
  ASSUME inbox \in Seq(Said), First = "request"
  PROVE  inbox # <<>> /\ inbox[1].cell \in 0 .. NumPieces * NumBlocks - 1
<1>1. inbox # <<>> BY DEF First
<1>2. inbox[1] \in Said /\ inbox[1].kind = "request" BY <1>1, TalkType DEF First
<1>3. \A k : Plain(k).kind = k /\ \A c : Request(c).cell = c BY DEF Plain, Request
<1>4. inbox[1] \in { Request(cell) : cell \in 0 .. NumPieces * NumBlocks - 1 }
  BY <1>2, <1>3 DEF Said, Sayings
<1> QED BY <1>1, <1>3, <1>4

-----------------------------------------------------------------------------
(* The steps of the upload.                                                *)

(* close and return. *)
LEMMA LeaveUpload ==
  ASSUME UploadInv, NEW from, ULeave(from)
  PROVE  UploadInv'
<1>1. DownInv' /\ ListKept BY UploadShares DEF UploadInv, ULeave
<1>2. /\ upc' = "closed" /\ sent' = 0 /\ snapshot' = {} /\ inbox' = <<>>
      /\ outbox' = Unsent /\ learnt' = Nothing /\ served' = NoServed
      /\ link' = "open"
  BY DEF ULeave, UGoto
<1>3. WorkOK'
  <2> QED BY <1>1, <1>2, NothingType, WorkKept, TalkType DEF UploadInv, OutboxKept
<1>4. LearntOK' BY <1>1, <1>2, LearntKept DEF UploadInv, Addressed
<1>5. BlockServed' BY <1>1, <1>2, ServedKept DEF UploadInv
<1> QED BY <1>1, <1>3, <1>4, <1>5 DEF UploadInv

LEMMA CrashUpload ==
  ASSUME UploadInv, NEW from, UCrash(from)
  PROVE  UploadInv'
<1>1. DownInv' /\ ListKept BY UploadShares DEF UploadInv, UCrash, Ends
<1> QED BY <1>1, RestUpload DEF UCrash, uploadVars, workVars

(* The greeting: the count first, then the bitfield. *)
LEMMA GreetUpload ==
  ASSUME UploadInv, Accept \/ TakeCount \/ BuildBitfield
  PROVE  UploadInv'
<1> USE DEF UploadInv
<1>1. DownInv' /\ ListKept
  BY UploadShares DEF Accept, TakeCount, BuildBitfield
<1>2. CASE Accept BY <1>1, <1>2, TurnUpload DEF Accept, UGoto, WorkOK, OutboxKept
<1>3. CASE TakeCount
  <2>0. downloaded = Len(havemesslist)
    BY <1>3 DEF TakeCount, DownInv, CountOK, TypeOK
  <2>1. /\ sent' = Len(havemesslist) /\ UNCHANGED vars /\ upc' = "greet"
        /\ UNCHANGED <<snapshot, inbox, outbox, link, learnt, served>>
    BY <1>3, <2>0 DEF TakeCount, UGoto
  <2>2. UNCHANGED havemesslist
    BY <2>1 DEF vars, sharedVars, countVars
  <2>3. Len(havemesslist) \in Nat BY DEF DownInv, TypeOK
  <2>4. WorkOK' BY <2>1, <2>2, <2>3 DEF WorkOK, Counted
  <2>5. LearntOK' BY <1>1, <2>1, LearntKept DEF Addressed
  <2>6. BlockServed' BY <1>1, <2>1, ServedKept
  <2> QED BY <1>1, <2>4, <2>5, <2>6
<1>4. CASE BuildBitfield
  <2>1. /\ upc' = "sendgreeting" /\ UNCHANGED vars
        /\ UNCHANGED <<sent, snapshot, inbox, outbox, link, served>>
    BY <1>4 DEF BuildBitfield, UGoto
  <2>2. UNCHANGED <<havemesslist, pieces_disk, pc, piece_no>>
    BY <2>1 DEF vars, sharedVars, countVars
  <2>3. ASSUME learnt' \in Told PROVE WorkOK'
    BY <1>1, <2>1, <2>3, WorkKept DEF WorkOK, OutboxKept
  <2>4. BlockServed' BY <1>1, <2>1, ServedKept
  <2>5. CASE link \notin {"open", "half"}
    <3>1. learnt' = Nothing BY <1>4, <2>5 DEF BuildBitfield
    <3>2. LearntOK' BY <1>1, <2>1, <2>5, <3>1, LearntKept DEF Addressed
    <3>3. learnt' \in Told BY <3>1 DEF Told, Nothing
    <3> QED BY <1>1, <2>3, <2>4, <3>2, <3>3
  <2>6. CASE link \in {"open", "half"}
    <3>1. /\ learnt'.pieces = Offered(pieces_disk, NumPieces)
          /\ learnt'.marking = { piece_no[w] : w \in { v \in Workers : pc[v] = "mark" } }
          /\ learnt'.spoiled = Spoiled(pieces_disk)
      BY <1>4, <2>6 DEF BuildBitfield
    <3>2. /\ \A p : Counted(p) => p \in Pieces
          /\ pieces_disk \subseteq { havemesslist[k] : k \in 1 .. Len(havemesslist) }
          /\ \A p \in Pieces : Counted(p) /\ p \notin pieces_disk =>
               \E w \in Workers : pc[w] = "mark" /\ piece_no[w] = p
      BY DEF DownInv, StoreInv, OnlyPieces, Marks, BitfieldFollowsCount, Counted
    <3>3. pieces_disk \in SUBSET (0 .. NumPieces - 1) /\ \A p \in pieces_disk : Counted(p)
      BY <3>2 DEF Pieces, Counted
    <3>4. ASSUME ~learnt'.spoiled PROVE learnt'.pieces = pieces_disk
      BY <3>1, <3>3, <3>4, OfferedIsMeant, ConstantFacts
    <3>5. ASSUME ~learnt'.spoiled, NEW k \in 1 .. sent'
          PROVE  ToldOf(havemesslist[k])'
      <4>1. k \in 1 .. Len(havemesslist) BY <2>1 DEF WorkOK, DownInv, TypeOK
      <4>2. Counted(havemesslist[k]) BY <4>1 DEF Counted
      <4>3. havemesslist[k] \in learnt'.pieces \cup learnt'.marking
        BY <3>1, <3>2, <3>4, <3>5, <4>2
      <4> QED BY <2>2, <4>3 DEF ToldOf
    <3>6. LearntOK'
      BY <2>2, <3>3, <3>4, <3>5 DEF LearntOK, Counted
    <3>7. learnt' \in Told
      <4>1. Offered(pieces_disk, NumPieces) \subseteq Numbers
        BY DEF Offered, Numbers, Pieces
      <4>2. { piece_no[w] : w \in { v \in Workers : pc[v] = "mark" } } \subseteq Numbers
        BY DEF DownInv, TypeOK
      <4>3. Spoiled(pieces_disk) \in BOOLEAN BY DEF Spoiled
      <4> QED BY <1>4, <2>6, <4>1, <4>2, <4>3 DEF BuildBitfield, Told
    <3> QED BY <1>1, <2>3, <2>4, <3>6, <3>7
  <2> QED BY <2>5, <2>6
<1> QED BY <1>2, <1>3, <1>4


(* A send: what stood in sendmes has been told, to a peer that stays. *)
LEMMA SendUpload ==
  ASSUME UploadInv, SendGreeting \/ SendAll
  PROVE  UploadInv'
<1> USE DEF UploadInv
<1>1. CASE \E from : ULeave(from) BY <1>1, LeaveUpload
<1>2. ASSUME NEW from \in {"sendgreeting", "send"}, NEW to \in {"receive", "listen"},
             NEW some, NEW haves,
             IF from = "send" THEN haves = outbox.haves ELSE haves = {},
             UGoto(from, to),
             link' = IF link = "broken" \/ (link = "gone" /\ some) THEN "reset" ELSE link,
             learnt' = IF link \notin {"open", "half"} THEN Nothing
                       ELSE [learnt EXCEPT !.pieces = @ \cup haves],
             outbox' = Unsent,
             UNCHANGED <<vars, sent, snapshot, inbox, recent, served>>
      PROVE  UploadInv'
  <2>1. DownInv' /\ ListKept BY <1>2, UploadShares
  <2>2. upc = from /\ upc' = to BY <1>2 DEF UGoto
  <2>3. UNCHANGED havemesslist BY <1>2 DEF vars, sharedVars, countVars
  <2>4. haves \subseteq Numbers /\ \A p \in haves : Counted(p)
    BY <1>2 DEF WorkOK, Waiting
  <2>5. learnt' \in Told
    BY <1>2, <2>4 DEF Told, Nothing, WorkOK
  <2>6. WorkOK' BY <1>2, <2>1, <2>2, <2>5, WorkKept DEF WorkOK, OutboxKept
  <2>7. BlockServed' BY <1>2, <2>1, ServedKept
  <2>8. CASE link \notin {"open", "half"}
    <3>1. learnt' = Nothing /\ ~Addressed' BY <1>2, <2>8 DEF Addressed
    <3>2. LearntOK' BY <2>1, <3>1, LearntKept
    <3> QED BY <2>1, <2>6, <2>7, <3>2
  <2>9. CASE link \in {"open", "half"}
    <3>1. /\ learnt'.pieces = learnt.pieces \cup haves
          /\ learnt'.marking = learnt.marking /\ learnt'.spoiled = learnt.spoiled
      BY <1>2, <2>9 DEF WorkOK, Told
    <3>2. Addressed BY <2>2, <2>9 DEF Addressed
    <3>3. ASSUME ~learnt.spoiled, NEW k \in 1 .. sent PROVE ToldOf(havemesslist[k])'
      <4>1. ToldOf(havemesslist[k]) BY <3>2, <3>3 DEF LearntOK
      <4> QED BY <1>2, <2>2, <2>3, <3>1, <4>1 DEF ToldOf
    <3>4. LearntOK' BY <1>2, <2>3, <2>4, <3>1, <3>3 DEF LearntOK, Counted
    <3> QED BY <2>1, <2>6, <2>7, <3>4
  <2> QED BY <2>8, <2>9
<1>3. CASE SendGreeting /\ ~\E from : ULeave(from)
  <2>1. USend("sendgreeting", "receive", TRUE, {}) BY <1>3 DEF SendGreeting
  <2> QED BY <1>2, <1>3, <2>1 DEF USend
<1>4. CASE SendAll /\ ~\E from : ULeave(from)
  <2>1. USend("send", "listen", outbox.some, outbox.haves) BY <1>4 DEF SendAll
  <2> QED BY <1>2, <1>4, <2>1 DEF USend
<1> QED BY <1>1, <1>3, <1>4

(* The peer, the receives and the tests. *)
LEMMA PeerUpload ==
  ASSUME UploadInv, PeerStops \/ Receive \/ Verify \/ Listen \/ Test \/ TwoMinutes
  PROVE  UploadInv'
<1> USE DEF UploadInv
<1>1. CASE \E from : ULeave(from) BY <1>1, LeaveUpload
<1>2. CASE \E from : UCrash(from) BY <1>2, CrashUpload
<1>3. ASSUME UNCHANGED vars PROVE DownInv' /\ ListKept BY <1>3, UploadShares
<1>4. CASE PeerStops
  <2>1. /\ UNCHANGED <<upc, sent, snapshot, inbox, outbox, served>> /\ UNCHANGED vars
        /\ link' = "half" => link = "open" /\ learnt' = learnt
        /\ link' # "half" => link' # "open" /\ learnt' = Nothing
    BY <1>4 DEF PeerStops
  <2>2. learnt' \in Told BY <2>1, NothingType DEF WorkOK
  <2>3. WorkOK' BY <1>3, <2>1, <2>2, WorkKept DEF WorkOK, OutboxKept
  <2>4. LearntOK' BY <1>3, <2>1, LearntKept DEF Addressed
  <2>5. BlockServed' BY <1>3, <2>1, ServedKept
  <2> QED BY <1>3, <2>1, <2>3, <2>4, <2>5
<1>5. CASE Receive
  <2>1. inbox' \in Seq(Said) BY <1>5, TalkType DEF Receive
  <2> QED BY <1>3, <1>5, <2>1, TurnUpload
          DEF Receive, UGoto, Reported, OutboxKept
<1>6. CASE Verify /\ (~\E from : ULeave(from)) /\ (~\E from : UCrash(from))
  <2>1. First = "handshake" /\ UGoto("verify", "call") /\ inbox' = Tail(inbox)
        /\ UNCHANGED <<vars, sent, snapshot, outbox, recent, link, learnt, served>>
    BY <1>6 DEF Verify
  <2>2. inbox # <<>> BY <2>1 DEF First
  <2>3. inbox' \in Seq(Said) BY <2>1, <2>2, TalkType DEF WorkOK
  <2> QED BY <1>3, <2>1, <2>3, TurnUpload DEF UGoto, OutboxKept
<1>7. CASE Listen BY <1>3, <1>7, TurnUpload DEF Listen, UGoto, Reported, OutboxKept, WorkOK
<1>8. CASE Test /\ ~\E from : ULeave(from)
  BY <1>3, <1>8, TurnUpload DEF Test, UGoto, OutboxKept, WorkOK
<1>9. CASE TwoMinutes BY <1>3, <1>9, RestUpload DEF TwoMinutes, workVars
<1>10. CASE Verify BY <1>1, <1>2, <1>6, <1>10
<1>11. CASE Test BY <1>1, <1>8, <1>11
<1> QED BY <1>4, <1>5, <1>7, <1>9, <1>10, <1>11


(* The messages but for the two steps that serve a block. *)
LEMMA MessagesUpload ==
  ASSUME UploadInv, Call \/ HandlePlain \/ HandleWrite \/ Return
  PROVE  UploadInv'
<1> USE DEF UploadInv
<1>1. CASE \E from : UCrash(from) BY <1>1, CrashUpload
<1>2. ASSUME UNCHANGED vars PROVE DownInv' /\ ListKept BY <1>2, UploadShares
<1>3. CASE Call /\ ~\E from : UCrash(from)
  <2>1. /\ UGoto("call", "process") /\ snapshot' = pieces_disk /\ outbox' = Unsent
        /\ UNCHANGED <<vars, sent, inbox, recent, link, learnt, served>>
    BY <1>3 DEF Call
  <2>2. UNCHANGED <<havemesslist, pieces_disk>>
    BY <2>1 DEF vars, sharedVars, countVars
  <2>3. \A p \in pieces_disk : Counted(p)
    BY DEF DownInv, StoreInv, Marks, BitfieldFollowsCount, Counted
  <2>4. outbox' \in Waiting /\ outbox'.haves = {} BY <2>1, NothingType DEF Unsent
  <2>5. WorkOK' BY <2>1, <2>2, <2>3, <2>4 DEF WorkOK, UGoto, Counted
  <2>6. LearntOK' BY <1>2, <2>1, LearntKept DEF Addressed, UGoto
  <2>7. BlockServed' BY <1>2, <2>1, ServedKept
  <2> QED BY <1>2, <2>1, <2>5, <2>6, <2>7
<1>4. CASE HandlePlain
  <2>1. /\ upc = "process" /\ inbox' = Tail(inbox) /\ First # "nothing"
        /\ OutboxKept /\ UNCHANGED <<vars, upc, sent, snapshot, link, learnt, served>>
    BY <1>4 DEF HandlePlain, Handled, Replies, OutboxKept
  <2>2. inbox # <<>> BY <2>1 DEF First
  <2>3. inbox' \in Seq(Said) BY <2>1, <2>2, TalkType DEF WorkOK
  <2> QED BY <1>2, <2>1, <2>3, TurnUpload
<1>5. CASE HandleWrite BY <1>1, <1>5 DEF HandleWrite
<1>6. CASE Return
  BY <1>2, <1>6, TurnUpload DEF Return, UGoto, OutboxKept, WorkOK
<1>7. CASE Call BY <1>1, <1>3, <1>7
<1> QED BY <1>4, <1>5, <1>6, <1>7

(* The HAVEs of the list behind sent. *)
LEMMA HavesUpload ==
  ASSUME UploadInv, AddHaves
  PROVE  UploadInv'
<1> USE DEF UploadInv
<1>1. DownInv' /\ ListKept BY UploadShares DEF AddHaves
<1>2. /\ upc = "haves" /\ upc' = "send" /\ UNCHANGED vars
      /\ UNCHANGED <<snapshot, inbox, link, learnt, served>>
      /\ outbox' = [some |-> outbox.some \/ Due # {}, haves |-> Due]
      /\ sent' = IF Len(havemesslist) > sent THEN Len(havemesslist) ELSE sent
  BY DEF AddHaves, UGoto
<1>3. UNCHANGED havemesslist BY <1>2 DEF vars, sharedVars, countVars
<1>4. /\ havemesslist \in Seq(Numbers) /\ Len(havemesslist) \in Nat
      /\ sent \in Nat /\ sent <= Len(havemesslist)
  BY DEF DownInv, TypeOK, WorkOK
<1>5. sent' = Len(havemesslist) BY <1>2, <1>4
<1>6. \A k \in sent + 1 .. Len(havemesslist) : k \in 1 .. Len(havemesslist) BY <1>4
<1>7. Due \subseteq Numbers /\ \A p \in Due : Counted(p) BY <1>4, <1>6 DEF Due, Counted
<1>8. outbox' \in Waiting /\ outbox'.haves = Due
  <2>1. outbox.some \in BOOLEAN /\ (Due # {}) \in BOOLEAN BY DEF WorkOK, Waiting
  <2>2. (outbox.some \/ Due # {}) \in BOOLEAN BY <2>1
  <2> QED BY <1>2, <1>7, <2>2 DEF Waiting
<1>9. WorkOK' BY <1>2, <1>3, <1>4, <1>5, <1>7, <1>8 DEF WorkOK, Counted
<1>10. LearntOK'
  <2> SUFFICES ASSUME ~learnt.spoiled
               PROVE  /\ \A p \in learnt.pieces : Counted(p)'
                      /\ Addressed' => \A k \in 1 .. sent' : ToldOf(havemesslist[k])'
    BY <1>2 DEF LearntOK
  <2>1. \A p \in learnt.pieces : Counted(p)' BY <1>1 DEF LearntOK, ListKept
  <2>2. ASSUME Addressed', NEW k \in 1 .. sent' PROVE ToldOf(havemesslist[k])'
    <3>1. Addressed BY <1>2, <2>2 DEF Addressed
    <3>2. CASE k <= sent
      <4>1. ToldOf(havemesslist[k]) BY <1>4, <3>1, <3>2 DEF LearntOK
      <4> QED BY <1>2, <1>3, <4>1 DEF ToldOf
    <3>3. CASE k > sent
      <4>1. havemesslist[k] \in Due BY <1>4, <1>5, <3>3 DEF Due
      <4> QED BY <1>2, <1>3, <1>8, <4>1 DEF ToldOf
    <3> QED BY <1>4, <1>5, <3>2, <3>3
  <2> QED BY <2>1, <2>2
<1>11. BlockServed' BY <1>1, <1>2, ServedKept
<1> QED BY <1>1, <1>9, <1>10, <1>11

(* The seek and the read of a block. *)
LEMMA SeekUpload ==
  ASSUME UploadInv, SeekBlock
  PROVE  UploadInv'
<1> USE DEF UploadInv
<1>1. /\ First = "request" /\ OnDisk(inbox[1].cell) /\ StreamSeek(inbox[1].cell)
      /\ upc = "process" /\ upc' = "read" /\ UNCHANGED othersThanStream
      /\ UNCHANGED <<sent, snapshot, inbox, outbox, link, learnt, served>>
  BY DEF SeekBlock, UGoto
<1>2. inbox[1].cell \in Int
  <2>1. NumPieces * NumBlocks - 1 \in Int BY ConstantFacts
  <2> QED BY <1>1, <2>1, RequestCell DEF WorkOK
<1>3. DownInv' /\ ListKept BY <1>1, <1>2, UploadShares DEF Seeks
<1>4. UNCHANGED havemesslist BY <1>1 DEF othersThanStream, countVars
<1>5. WorkOK' BY <1>1, <1>4 DEF WorkOK, Counted, First, OnDisk
<1>6. LearntOK' BY <1>1, <1>3, LearntKept DEF Addressed
<1>7. BlockServed' BY <1>1, <1>3, ServedKept
<1> QED BY <1>3, <1>5, <1>6, <1>7

LEMMA ReadUpload ==
  ASSUME UploadInv, ReadBlock
  PROVE  UploadInv'
<1> USE DEF UploadInv
<1> DEFINE cell == inbox[1].cell
<1>1. /\ upc = "read" /\ upc' = "process" /\ StreamRead /\ UNCHANGED othersThanStream
      /\ inbox' = Tail(inbox) /\ outbox' = [outbox EXCEPT !.some = TRUE]
      /\ UNCHANGED <<sent, snapshot, link, learnt>>
      /\ served' = [cell |-> cell,
                    data |-> IF ffail \/ fpos >= FileEnd THEN <<Junk, 0>> ELSE file[fpos],
                    moved |-> fpos # cell, failed |-> ffail,
                    poisons |-> ffail' # ffail]
  BY DEF ReadBlock, UGoto, Replies
<1>2. DownInv' /\ ListKept BY <1>1, UploadShares DEF Reads
<1>3. First = "request" /\ OnDisk(cell) BY <1>1 DEF WorkOK
<1>4. inbox # <<>> /\ cell \in 0 .. NumPieces * NumBlocks - 1
  BY <1>3, RequestCell DEF WorkOK
<1>5. inbox' \in Seq(Said) BY <1>1, <1>4, TalkType DEF WorkOK
<1>6. WorkOK' BY <1>1, <1>2, <1>5, WorkKept DEF WorkOK, OutboxKept
<1>7. LearntOK' BY <1>1, <1>2, LearntKept DEF Addressed
<1>8. BlockServed'
  <2> SUFFICES ASSUME fpos = cell, ~ffail, ~displaced'
               PROVE  /\ served'.data = <<cell \div NumBlocks, cell % NumBlocks>>
                      /\ ~served'.poisons
    <3>1. /\ served'.cell = cell /\ served'.moved = (fpos # cell)
          /\ served'.failed = ffail
      BY <1>1
    <3> QED BY <3>1 DEF BlockServed
  <2>1. ~displaced BY <1>2 DEF ListKept
  <2> DEFINE p == cell \div NumBlocks
             b == cell % NumBlocks
  <2>2. p \in Pieces /\ b \in Blocks /\ cell = p * NumBlocks + b BY <1>4, CellIsBlock
  <2>3. Counted(p) BY <1>3 DEF WorkOK, OnDisk
  <2>4. InPlace(p) BY <2>1, <2>2, <2>3 DEF DownInv, StoreInv, WrittenInPlace
  <2>5. file[cell] = <<p, b>> BY <2>2, <2>4 DEF InPlace
  <2>6. file[cell] # Blank
    BY <2>2, <2>5, ConstantFacts DEF Blank, Empty
  <2>7. cell \in FileCells BY <2>2, CellsApart
  <2>8. FileEnd \in Int /\ cell < FileEnd BY <2>6, <2>7, FileEndBehind
  <2>9. ~(fpos >= FileEnd)
    <3>1. cell \in Int BY <2>7, ConstantFacts
    <3> QED BY <2>8, <3>1
  <2>10. served'.data = file[cell] BY <1>1, <2>9
  <2>11. ~served'.poisons
    <3>1. ~ffail' BY <1>1, <2>9 DEF StreamRead
    <3>2. ffail \in BOOLEAN /\ ffail' \in BOOLEAN BY <1>2 DEF DownInv, TypeOK
    <3>3. ffail' = ffail BY <3>1, <3>2
    <3>4. served'.poisons = (ffail' # ffail) BY <1>1
    <3> QED BY <3>3, <3>4
  <2> QED BY <2>5, <2>10, <2>11
<1> QED BY <1>2, <1>6, <1>7, <1>8

-----------------------------------------------------------------------------
LEMMA InitUpload == UploadInit => UploadInv
<1> SUFFICES ASSUME UploadInit PROVE UploadInv
  OBVIOUS
<1>1. /\ Init /\ upc = "idle" /\ sent = 0 /\ snapshot = {} /\ inbox = <<>>
      /\ outbox = Unsent /\ learnt = Nothing /\ served = NoServed
  BY DEF UploadInit
<1>2. havemesslist = <<>> BY <1>1 DEF Init
<1>3. DownInv BY <1>1, InitType, InitStored, InitCount DEF DownInv
<1>4. outbox.haves = {} /\ learnt.pieces = {} BY <1>1 DEF Unsent, Nothing
<1>5. WorkOK BY <1>1, <1>2, <1>4, NothingType, TalkType DEF WorkOK
<1>6. LearntOK BY <1>1, <1>4 DEF LearntOK, Addressed
<1>7. BlockServed BY <1>1 DEF BlockServed
<1> QED BY <1>3, <1>5, <1>6, <1>7 DEF UploadInv

LEMMA NextUpload == UploadInv /\ [UploadNext]_allVars => UploadInv'
<1> SUFFICES ASSUME UploadInv, [UploadNext]_allVars PROVE UploadInv'
  OBVIOUS
<1>1. CASE (Next \/ UNCHANGED vars) /\ UNCHANGED uploadVars
  <2>1. DownInv' /\ ListKept BY <1>1, SharedKept DEF UploadInv
  <2> QED BY <1>1, <2>1, RestUpload DEF uploadVars, workVars
<1> QED
  BY <1>1, GreetUpload, SendUpload, PeerUpload, MessagesUpload, HavesUpload, SeekUpload,
     ReadUpload
     DEF UploadNext, UploadThread, allVars

(* The inductive invariant of an upload beside any number of threads.      *)
THEOREM UploadInvariant == UploadSpec => []UploadInv
BY InitUpload, NextUpload, PTL DEF UploadSpec

(* A peer that stays learns of every piece counted, in the bitfield or in  *)
(* a HAVE, except one whose thread stood between the count and pieces_disk *)
(* when the bitfield was built, and of no other (server.cpp:58-125).       *)
THEOREM PeerLearns == UploadSpec => []PeerLearnsAll
<1>1. UploadInv => PeerLearnsAll
  <2> SUFFICES ASSUME UploadInv, ~learnt.spoiled PROVE PeerLearnsAll
    BY DEF PeerLearnsAll
  <2>1. \A p \in learnt.pieces : Counted(p) BY DEF UploadInv, LearntOK
  <2>2. ASSUME upc \in {"listen", "test", "call"}, link = "half",
               NEW k \in 1 .. Len(havemesslist), k <= sent
        PROVE  havemesslist[k] \in learnt.pieces \cup learnt.marking
    <3>1. Addressed /\ upc # "send" BY <2>2 DEF Addressed
    <3>2. k \in 1 .. sent BY <2>2 DEF UploadInv, WorkOK
    <3>3. ToldOf(havemesslist[k]) BY <3>1, <3>2 DEF UploadInv, LearntOK
    <3> QED BY <3>1, <3>3 DEF ToldOf
  <2> QED BY <2>1, <2>2 DEF PeerLearnsAll
<1> QED BY <1>1, UploadInvariant, PTL

(* A block that is sent is the block asked for, and reading it leaves the  *)
(* stream good, unless another thread moved the position between the seek  *)
(* and the read or had spoiled the file (messagesCreate.cpp:92-148).       *)
THEOREM BlocksServed == UploadSpec => []BlockServed
<1>1. UploadInv => BlockServed BY DEF UploadInv
<1> QED BY <1>1, UploadInvariant, PTL

(* Of a torrent of any length: the bitfield is read as it was meant        *)
(* exactly if no piece stands at a place that base 10 spoils               *)
(* (messagesCreate.cpp:68), a last byte that is not full included.         *)
THEOREM BitfieldMeant ==
  \A n \in Nat : \A S \in SUBSET (0 .. n - 1) : Offered(S, n) = S <=> ~Spoiled(S)
BY OfferedIsMeant

(* In particular of those the run looks at. *)
THEOREM BitfieldRead == UploadSpec => []BitfieldReadAsMeant
<1>1. BitfieldReadAsMeant BY BitfieldMeant DEF BitfieldReadAsMeant, ReadAsMeant
<1> QED BY <1>1, PTL

-----------------------------------------------------------------------------
(* What the download promises, with an upload beside it.                   *)

LEMMA UploadSparesLedger ==
  ASSUME Accept \/ UploadThread \/ PeerStops \/ TwoMinutes
  PROVE  UNCHANGED <<queueVars, downloaded, havemesslist, undefined, pc, piece_no>>
<1> USE DEF vars, sharedVars, countVars, historyVars, othersThanStream, othersThanProcess
<1>1. CASE Accept \/ TakeCount \/ BuildBitfield
  BY <1>1 DEF Accept, TakeCount, BuildBitfield
<1>2. CASE SendGreeting \/ SendAll
  BY <1>2 DEF SendGreeting, SendAll, USend, ULeave
<1>3. CASE PeerStops \/ TwoMinutes \/ Receive \/ Verify
  BY <1>3 DEF PeerStops, TwoMinutes, Receive, Verify, ULeave, UCrash
<1>4. CASE Call \/ HandlePlain \/ HandleWrite \/ Return
  BY <1>4 DEF Call, HandlePlain, HandleWrite, Return, UCrash
<1>5. CASE SeekBlock \/ ReadBlock BY <1>5 DEF SeekBlock, ReadBlock
<1>6. CASE AddHaves \/ Listen \/ Test BY <1>6 DEF AddHaves, Listen, Test, ULeave
<1> QED BY <1>1, <1>2, <1>3, <1>4, <1>5, <1>6 DEF UploadThread

LEMMA LedgerBeside ==
  UploadInv /\ IInv /\ [UploadNext]_allVars => IInv' /\ [Ledger!Next]_(Ledger!vars)
<1> SUFFICES ASSUME UploadInv, IInv, [UploadNext]_allVars
             PROVE  IInv' /\ [Ledger!Next]_(Ledger!vars)
  OBVIOUS
<1>1. CASE Next \/ UNCHANGED vars BY <1>1, Inductive
<1>2. CASE Accept \/ UploadThread \/ PeerStops \/ TwoMinutes
  <2>1. TypeOK' /\ CountOK' BY NextUpload DEF UploadInv, DownInv
  <2>2. GoodStep BY <1>2, UploadSparesLedger, SameHands
  <2> QED BY <2>1, <2>2 DEF IInv, GoodStep
<1> QED BY <1>1, <1>2 DEF UploadNext, allVars

(* The books of the pieces hold beside an upload as without one.           *)
THEOREM BooksBeside == UploadSpec => []IInv
<1>1. UploadInit => IInv BY InitType, InitCount, InitBooks DEF IInv, UploadInit
<1> QED BY <1>1, UploadInvariant, LedgerBeside, PTL DEF UploadSpec

(* An upload beside the threads, which reads their files and takes their   *)
(* lock, moves no piece: the two together still implement the ledger       *)
(* (server.cpp:17-149 beside peer.cpp:251-472).                            *)
THEOREM LedgerBesideUpload == UploadSpec => KeepsLedger
<1>1. UploadInit => Ledger!Init BY LedgerBegins DEF UploadInit
<1> QED BY <1>1, UploadInvariant, BooksBeside, LedgerBeside, PTL
           DEF UploadSpec, Ledger!Spec, KeepsLedger

(* And a full counter means every piece, although an upload took a part in *)
(* the steps between.                                                      *)
THEOREM CompleteBesideUpload == UploadSpec => []CompleteMeansAll
BY BooksComplete, BooksBeside, PTL

(* An upload moves the stream the threads write to (messagesCreate.cpp:    *)
(* 92-148), and what is counted is in its place all the same, unless such  *)
(* a move came between the seek and the write of a piece.                  *)
THEOREM StoredBesideUpload == UploadSpec => []StoredUnlessDisturbed
<1>1. UploadInv => StoredUnlessDisturbed
  BY DEF UploadInv, DownInv, StoreInv, WrittenInPlace, StoredUnlessDisturbed,
         CountedStored, InPlace
<1> QED BY <1>1, UploadInvariant, PTL
=============================================================================
