--------------------------- MODULE SessionProofs ----------------------------
(* Theorems about Session, for every value of its constants: descriptors,  *)
(* types, and that processMessage does not lose step in silence.           *)
EXTENDS Session, SequenceTheorems, FiniteSetTheorems, TLAPS

(* The descriptors are counted, and each has its owner. *)
Counts == fds \in Int /\ leaked \in Int
SocketInv == Counts /\ SocketsAccounted

(* A thread that closes was not idle. *)
LEMMA LeaveCounts ==
  ASSUME SocketInv, NEW from, from # "idle", Leave(from)
  PROVE  SocketInv'
BY DEF SocketInv, Counts, SocketsAccounted, Leave, Goto

(* A step that opens and closes nothing. *)
LEMMA StayCounts ==
  ASSUME SocketInv, UNCHANGED <<fds, leaked>>, pc' = "idle" <=> pc = "idle"
  PROVE  SocketInv'
BY DEF SocketInv, Counts, SocketsAccounted

(* Connecting: the descriptor of a connect that failed has its own count. *)
LEMMA ConnectCounts ==
  ASSUME SocketInv, Connecting
  PROVE  SocketInv'
BY DEF SocketInv, Counts, SocketsAccounted, Connecting, NoSocket, OpenSocket,
       ConnectFails, Connected, Goto

(* Receiving and processing keep the connection. *)
LEMMA ParseCounts ==
  ASSUME SocketInv, Receiving \/ Parsing \/ Hangup \/ FallsSilent \/ UNCHANGED vars
  PROVE  SocketInv'
<1>1. UNCHANGED <<fds, leaked>>
  BY DEF Receiving, ReceiveHandshake, ReceiveInterested, ReceiveBatch, Receive, Parsing,
         ReturnSuccess, ReturnFailure, ReturnBitfieldFailure, Handle, MisreadReturn,
         MisreadMessage, MisreadStops, Return, Hangup, FallsSilent, vars
<1>2. pc' = "idle" <=> pc = "idle"
  <2>1. ASSUME NEW status, NEW misread, Return(status, misread)
        PROVE  pc' # "idle" /\ pc # "idle"
    BY <2>1 DEF Return, Processing, After, AfterHello, AfterInterested, AfterBatch
  <2> QED
    BY <2>1 DEF Receiving, ReceiveHandshake, ReceiveInterested, ReceiveBatch, Receive,
                Goto, Parsing, ReturnSuccess, ReturnFailure, ReturnBitfieldFailure, Handle,
                MisreadReturn, MisreadMessage, MisreadStops, Hangup, FallsSilent, vars,
                Processing
<1> QED BY <1>1, <1>2, StayCounts

(* Sending, verifying, looping and closing. *)
LEMMA ActCounts ==
  ASSUME SocketInv, Acting
  PROVE  SocketInv'
<1>1. CASE SendHandshake \/ SendInterested \/ SendRequests
  BY <1>1 DEF SendHandshake, SendInterested, SendRequests, Send, Leave, Goto, SocketInv,
              Counts, SocketsAccounted
<1>2. CASE Mismatch \/ Close
  BY <1>2, LeaveCounts DEF Mismatch, Close
<1>3. CASE Verified \/ While \/ Assemble
  <2>1. UNCHANGED <<fds, leaked>> BY <1>3 DEF Verified, While, Assemble
  <2>2. pc' # "idle" /\ pc # "idle" BY <1>3 DEF Verified, While, Assemble, Goto
  <2> QED BY <2>1, <2>2, StayCounts
<1> QED BY <1>1, <1>2, <1>3 DEF Acting

(* Whatever sequence of connects, hangups and receives: the only           *)
(* descriptors that outlive their session are those of the connects that   *)
(* failed (nonblocktcp.cpp:57-85 returns without close).                   *)
THEOREM DescriptorsOwned == Spec => []SocketsAccounted
<1>1. Init => SocketInv BY DEF Init, SocketInv, Counts, SocketsAccounted
<1>2. SocketInv /\ [Next]_vars => SocketInv'
  BY ConnectCounts, ParseCounts, ActCounts DEF Next, Quiet
<1>3. SocketInv => SocketsAccounted BY DEF SocketInv
<1> QED BY <1>1, <1>2, <1>3, PTL DEF Spec

-----------------------------------------------------------------------------
(* Type correctness.                                                       *)

Traces == [offered : BOOLEAN, failures : Nat, causes : Nat, short : BOOLEAN,
           misread : BOOLEAN]
Locals == [choked : BOOLEAN, has : BOOLEAN, blocks : SUBSET Blocks,
           junk : BOOLEAN, batch_start : Nat, stored : BOOLEAN]

StreamOK == wire \in Seq(Cells) /\ buffer \in Seq(Cells)

LEMMA SayOK ==
  ASSUME NEW kind \in Kinds
  PROVE  Say(kind) \in Seq(Cells) /\ Len(Say(kind)) = 2
BY SessionAssumption DEF Say, Message, Cells, Blocks

LEMMA AnswersOK ==
  ASSUME NEW n \in 0 .. NumBlocks
  PROVE  Answers(n) \in Seq(Cells) /\ Len(Answers(n)) = 2 * n
<1>1. ASSUME NEW k \in 1 .. 2 * n PROVE (k - 1) \div 2 \in Blocks
  BY SessionAssumption DEF Blocks
<1> QED BY <1>1, SessionAssumption DEF Answers, Cells, Kinds

LEMMA JoinOK ==
  ASSUME NEW s \in Seq(Cells), NEW t \in Seq(Cells) PROVE s \o t \in Seq(Cells)
OBVIOUS

LEMMA WelcomesOK ==
  /\ \A w \in Welcomes : w \in Seq(Cells)
  /\ \A kind \in {"unknown", "badbitfield", "nobitfield"} :
       \A w \in OddWelcomes(kind) : w \in Seq(Cells)
<1>1. \A kind \in {"bitfield", "unchoke", "keepalive", "unknown", "badbitfield"} :
        Say(kind) \in Seq(Cells)
  BY SayOK DEF Kinds
<1>2. ASSUME NEW w \in Welcomes PROVE w \in Seq(Cells)
  <2>1. PICK u \in {<<>>, Say("unchoke"), Say("keepalive")} : w = Say("bitfield") \o u
    BY DEF Welcomes
  <2>2. u \in Seq(Cells)
    <3>1. <<>> \in Seq(Cells) OBVIOUS
    <3> QED BY <1>1, <2>1, <3>1
  <2> QED BY <1>1, <2>1, <2>2, JoinOK
<1>3. /\ Say("unknown") \o Say("bitfield") \in Seq(Cells)
      /\ Say("bitfield") \o Say("unknown") \in Seq(Cells)
  BY <1>1, JoinOK
<1>4. OddWelcomes("unknown") = {Say("unknown") \o Say("bitfield"),
                                Say("bitfield") \o Say("unknown")}
      /\ OddWelcomes("badbitfield") = {Say("badbitfield")}
      /\ OddWelcomes("nobitfield") = {<<>>, Say("unchoke")}
  BY DEF OddWelcomes
<1>5. <<>> \in Seq(Cells) OBVIOUS
<1>6. ASSUME NEW kind \in {"unknown", "badbitfield", "nobitfield"}, NEW w \in OddWelcomes(kind)
      PROVE  w \in Seq(Cells)
  <2>1. CASE kind = "unknown" BY <2>1, <1>3, <1>4, <1>6
  <2>2. CASE kind = "badbitfield" BY <2>2, <1>1, <1>4, <1>6
  <2>3. CASE kind = "nobitfield" BY <2>3, <1>1, <1>4, <1>5, <1>6
  <2> QED BY <2>1, <2>2, <2>3
<1> QED BY <1>2, <1>6

TraceOK == trace \in Traces
LocalsOK == locals \in Locals
CountsOK == /\ pc \in Phases
            /\ sessions \in 0 .. MaxSessions
            /\ fds \in 0 .. FdLimit
            /\ link \in {"open", "silent", "closed", "reset"}
            /\ leaked \in Nat
            /\ faults \in 0 .. MaxFaults
            /\ SocketsAccounted

TypeInv == StreamOK /\ TraceOK /\ LocalsOK /\ CountsOK

LEMMA FreshOK == FreshTrace \in Traces /\ FreshLocals \in Locals
BY DEF FreshTrace, FreshLocals, Traces, Locals

LEMMA InitTypes == Init => TypeInv
BY FreshOK, SessionAssumption DEF Init, TypeInv, StreamOK, TraceOK, LocalsOK, CountsOK,
   SocketsAccounted, Phases, Ended

LEMMA LeaveTypes ==
  ASSUME TypeInv, NEW from, from # "idle", Leave(from), faults' \in 0 .. MaxFaults
  PROVE  TypeInv'
<1>1. StreamOK' BY DEF Leave, StreamOK
<1>2. TraceOK' /\ LocalsOK' BY FreshOK DEF Leave, TraceOK, LocalsOK
<1>3. CountsOK'
  BY SessionAssumption DEF Leave, Goto, TypeInv, CountsOK, SocketsAccounted, Phases, Ended
<1> QED BY <1>1, <1>2, <1>3 DEF TypeInv

(* A step within a connection. *)
LEMMA StayTypes ==
  ASSUME CountsOK, UNCHANGED <<sessions, fds, leaked>>, pc # "idle", pc' # "idle",
         pc' \in Phases, link' \in {"open", "silent", "closed", "reset"},
         faults' \in 0 .. MaxFaults
  PROVE  CountsOK'
BY DEF CountsOK, SocketsAccounted

LEMMA ConnectTypes == ASSUME TypeInv, Connecting PROVE TypeInv'
<1>1. StreamOK' /\ TraceOK' /\ LocalsOK'
  BY DEF TypeInv, StreamOK, TraceOK, LocalsOK, Connecting, NoSocket, OpenSocket, ConnectFails,
         Connected
<1>2. CountsOK'
  BY SessionAssumption DEF TypeInv, CountsOK, SocketsAccounted, Phases, Ended, Connecting,
         NoSocket, OpenSocket, ConnectFails, Connected, Goto, Costs
<1> QED BY <1>1, <1>2 DEF TypeInv

LEMMA ReceiveTypes ==
  ASSUME TypeInv, NEW from, NEW to, from # "idle", to # "idle", to \in Phases,
         Receive(from, to)
  PROVE  TypeInv'
<1>1. PICK n \in 0 .. Len(wire) :
        /\ Arrived(n) /\ Goto(from, to)
        /\ buffer' = buffer \o SubSeq(wire, 1, n)
        /\ wire' = SubSeq(wire, n + 1, Len(wire))
        /\ trace' = [trace EXCEPT !.causes = IF Cut(n) THEN @ + 1 ELSE @]
        /\ UNCHANGED <<sessions, fds, link, locals, leaked>>
  BY DEF Receive
<1>2. StreamOK' BY <1>1 DEF TypeInv, StreamOK
<1>3. trace' \in Traces
  <2>1. trace.causes \in Nat BY DEF TypeInv, TraceOK, Traces
  <2>2. (IF Cut(n) THEN trace.causes + 1 ELSE trace.causes) \in Nat BY <2>1
  <2> QED BY <1>1, <2>2 DEF TypeInv, TraceOK, Traces
<1>4. CountsOK'
  <2>1. faults' \in 0 .. MaxFaults
    BY SMTT(30), <1>1, SessionAssumption DEF Arrived, Costs, TypeInv, CountsOK
  <2> QED BY <1>1, <2>1, StayTypes DEF Goto, TypeInv, CountsOK
<1> QED BY <1>1, <1>2, <1>3, <1>4 DEF TypeInv, TraceOK, LocalsOK

(* What the peer answers, and what it leaves in the history. *)
LEMMA AnswerTypes ==
  ASSUME TypeInv, AnswerHandshake \/ AnswerInterested \/ AnswerRequests \/ SaysNothing
  PROVE  wire' \in Seq(Cells) /\ trace' \in Traces /\ faults' \in 0 .. MaxFaults
<1>1. \A kind \in {"handshake", "otherhash", "unchoke", "choke", "unknown"} :
        Say(kind) \in Seq(Cells)
  BY SayOK DEF Kinds
<1>2. wire \in Seq(Cells) /\ trace \in Traces /\ faults \in 0 .. MaxFaults
  BY DEF TypeInv, StreamOK, TraceOK, CountsOK
<1>3. faults' \in 0 .. MaxFaults
  BY <1>2, SessionAssumption DEF AnswerHandshake, AnswerInterested, AnswerRequests,
     SaysNothing, Costs
<1>4. wire' \in Seq(Cells)
  <2>1. CASE AnswerHandshake
    <3>1. CASE wire' = wire \o Say("otherhash") BY <3>1, <1>1, <1>2, JoinOK
    <3>2. ASSUME NEW w \in Seq(Cells), wire' = wire \o Say("handshake") \o w
          PROVE  wire' \in Seq(Cells)
      BY <3>2, <1>1, <1>2, JoinOK
    <3> QED BY <2>1, <3>1, <3>2, WelcomesOK DEF AnswerHandshake
  <2>2. CASE AnswerInterested
    <3>1. CASE wire' = wire \o Say("unchoke") \o Say("unknown")
      BY <3>1, <1>1, <1>2, JoinOK
    <3>2. CASE wire' \in {wire \o Say("unchoke"), wire \o Say("choke")}
      BY <3>2, <1>1, <1>2, JoinOK
    <3> QED BY <2>2, <3>1, <3>2 DEF AnswerInterested
  <2>3. CASE AnswerRequests
    <3>1. AskedFor(locals.batch_start) \in 0 .. NumBlocks
      BY SessionAssumption DEF AskedFor, TypeInv, LocalsOK, Locals
    <3> QED BY <3>1, <2>3, <1>2, AnswersOK DEF AnswerRequests
  <2>4. CASE SaysNothing BY <2>4, <1>2 DEF SaysNothing
  <2> QED BY <2>1, <2>2, <2>3, <2>4
<1>5. trace' \in Traces
  <2>1. trace.causes + 1 \in Nat BY <1>2 DEF Traces
  <2>2. CASE UNCHANGED trace BY <2>2, <1>2
  <2>3. CASE trace' = [trace EXCEPT !.causes = @ + 1] BY <2>1, <2>3, <1>2 DEF Traces
  <2>4. CASE trace' = [trace EXCEPT !.offered = TRUE] BY <2>4, <1>2 DEF Traces
  <2>5. ASSUME NEW kind, trace' = [trace EXCEPT !.offered = kind = "unknown",
                                  !.causes = IF kind = "unknown" THEN @ + 1 ELSE @]
        PROVE  trace' \in Traces
    <3>1. (IF kind = "unknown" THEN trace.causes + 1 ELSE trace.causes) \in Nat
      BY <2>1, <1>2 DEF Traces
    <3>2. (kind = "unknown") \in BOOLEAN OBVIOUS
    <3> QED BY <2>5, <3>1, <3>2, <1>2 DEF Traces
  <2> QED BY <2>2, <2>3, <2>4, <2>5 DEF AnswerHandshake, AnswerInterested, AnswerRequests,
                                       SaysNothing
<1> QED BY <1>3, <1>4, <1>5

LEMMA SendTypes ==
  ASSUME TypeInv, Acting, SendHandshake \/ SendInterested \/ SendRequests
  PROVE  TypeInv'
<1>1. \/ \E from \in {"sendhandshake", "sendinterested", "send"} :
            Leave(from) /\ UNCHANGED faults
      \/ /\ AnswerHandshake \/ AnswerInterested \/ AnswerRequests \/ SaysNothing
         /\ pc' \in {"receivehandshake", "receiveinterested", "receivebatch"}
         /\ pc # "idle" /\ link' \in {link, "reset"}
         /\ UNCHANGED <<sessions, fds, buffer, locals, leaked>>
  BY DEF SendHandshake, SendInterested, SendRequests, Send, Goto
<1>2. CASE \E from \in {"sendhandshake", "sendinterested", "send"} :
             Leave(from) /\ UNCHANGED faults
  BY <1>2, LeaveTypes DEF TypeInv, CountsOK
<1>3. CASE /\ AnswerHandshake \/ AnswerInterested \/ AnswerRequests \/ SaysNothing
           /\ pc' \in {"receivehandshake", "receiveinterested", "receivebatch"}
           /\ pc # "idle" /\ link' \in {link, "reset"}
           /\ UNCHANGED <<sessions, fds, buffer, locals, leaked>>
  <2>1. wire' \in Seq(Cells) /\ trace' \in Traces /\ faults' \in 0 .. MaxFaults
    BY <1>3, AnswerTypes
  <2>2. CountsOK'
    BY <1>3, <2>1, StayTypes DEF TypeInv, CountsOK, Phases
  <2> QED BY <1>3, <2>1, <2>2 DEF TypeInv, StreamOK, TraceOK, LocalsOK
<1> QED BY <1>1, <1>2, <1>3

LEMMA ActTypes == ASSUME TypeInv, Acting PROVE TypeInv'
<1>1. CASE SendHandshake \/ SendInterested \/ SendRequests BY <1>1, SendTypes
<1>2. CASE Mismatch \/ Close
  BY <1>2, LeaveTypes DEF Mismatch, Close, TypeInv, CountsOK
<1>3. CASE Verified
  <2>1. CountsOK' BY <1>3, StayTypes DEF Verified, Goto, TypeInv, CountsOK, Phases, Processing
  <2>2. StreamOK' BY <1>3 DEF Verified, TypeInv, StreamOK
  <2>3. trace' \in Traces
    <3>1. (Len(buffer) = 1) \in BOOLEAN OBVIOUS
    <3> QED BY <1>3, <3>1 DEF Verified, TypeInv, TraceOK, Traces
  <2> QED BY <1>3, <2>1, <2>2, <2>3 DEF Verified, TypeInv, TraceOK, LocalsOK
<1>4. CASE While
  <2>1. CountsOK' BY <1>4, StayTypes DEF While, Goto, TypeInv, CountsOK, Phases, Ended
  <2> QED BY <1>4, <2>1 DEF While, TypeInv, StreamOK, TraceOK, LocalsOK
<1>5. CASE Assemble
  <2>1. CountsOK' BY <1>5, StayTypes DEF Assemble, Goto, TypeInv, CountsOK, Phases
  <2>2. locals' \in Locals
    <3>1. (locals.blocks = Blocks /\ ~locals.junk) \in BOOLEAN OBVIOUS
    <3> QED BY <1>5, <3>1 DEF Assemble, TypeInv, LocalsOK, Locals
  <2> QED BY <1>5, <2>1, <2>2 DEF Assemble, TypeInv, StreamOK, TraceOK, LocalsOK
<1> QED BY <1>1, <1>2, <1>3, <1>4, <1>5 DEF Acting

LEMMA ReturnTypes ==
  ASSUME TypeInv, NEW status \in {"SUCCESS", "FAILURE", "BITFIELDFAILURE"},
         NEW misread \in BOOLEAN, Return(status, misread)
  PROVE  TypeInv'
<1>1. CountsOK'
  BY StayTypes DEF Return, Processing, After, AfterHello, AfterInterested, AfterBatch,
                   TypeInv, CountsOK, Phases
<1>2. trace' \in Traces
  <2>1. trace.failures \in Nat /\ (trace.misread \/ misread) \in BOOLEAN
    BY DEF TypeInv, TraceOK, Traces
  <2>2. (IF status = "FAILURE" /\ ~misread THEN trace.failures + 1 ELSE trace.failures) \in Nat
    BY <2>1
  <2> QED BY <2>1, <2>2 DEF Return, TypeInv, TraceOK, Traces
<1>3. locals' \in Locals
  <2>1. (IF pc' = "send" THEN locals.batch_start + QueueSize ELSE 0) \in Nat
    BY SessionAssumption DEF TypeInv, LocalsOK, Locals
  <2> QED BY <2>1 DEF Return, TypeInv, LocalsOK, Locals
<1>4. StreamOK' BY DEF Return, TypeInv, StreamOK
<1> QED BY <1>1, <1>2, <1>3, <1>4 DEF TypeInv, TraceOK, LocalsOK

LEMMA ParseTypes == ASSUME TypeInv, Parsing PROVE TypeInv'
<1>1. CASE ReturnSuccess \/ ReturnFailure \/ ReturnBitfieldFailure \/ MisreadReturn
  BY <1>1, ReturnTypes DEF ReturnSuccess, ReturnFailure, ReturnBitfieldFailure, MisreadReturn
<1>2. CASE Handle
  <2>1. locals' \in Locals
    <3>1. buffer[1] \in Cells BY <1>2 DEF Handle, TypeInv, StreamOK
    <3> QED BY <1>2, <3>1 DEF Handle, Effect, TypeInv, LocalsOK, Locals, Cells
  <2> QED BY <1>2, <2>1 DEF Handle, TypeInv, StreamOK, TraceOK, LocalsOK, CountsOK,
                            SocketsAccounted
<1>3. CASE MisreadMessage
  <2>1. locals' \in Locals
    <3>1. Blocks \in SUBSET Blocks OBVIOUS
    <3> QED BY <1>3, <3>1 DEF MisreadMessage, TypeInv, LocalsOK, Locals
  <2>2. StreamOK' BY <1>3 DEF MisreadMessage, TypeInv, StreamOK
  <2> QED BY <1>3, <2>1, <2>2 DEF MisreadMessage, TypeInv, TraceOK, Traces, LocalsOK, CountsOK,
                                  SocketsAccounted
<1>4. CASE MisreadStops
  <2>1. CountsOK'
    BY <1>4, StayTypes DEF MisreadStops, Processing, TypeInv, CountsOK, Phases, Ended
  <2> QED BY <1>4, <2>1 DEF MisreadStops, TypeInv, StreamOK, TraceOK, Traces, LocalsOK
<1> QED BY <1>1, <1>2, <1>3, <1>4 DEF Parsing

LEMMA PeerTypes == ASSUME TypeInv, Hangup \/ FallsSilent PROVE TypeInv'
<1>1. CountsOK'
  BY SessionAssumption, StayTypes DEF Hangup, FallsSilent, Costs, Ended, TypeInv, CountsOK
<1>2. StreamOK'
  <2>1. wire' = <<>> \/ wire' = wire BY DEF Hangup, FallsSilent
  <2>2. UNCHANGED buffer BY DEF Hangup, FallsSilent
  <2>3. <<>> \in Seq(Cells) OBVIOUS
  <2> QED BY <2>1, <2>2, <2>3 DEF TypeInv, StreamOK
<1> QED BY <1>1, <1>2 DEF Hangup, FallsSilent, TypeInv, TraceOK, LocalsOK

LEMMA StepTypes == ASSUME TypeInv, [Next]_vars PROVE TypeInv'
<1>1. CASE UNCHANGED vars
  BY <1>1 DEF vars, TypeInv, StreamOK, TraceOK, LocalsOK, CountsOK, SocketsAccounted
<1>2. CASE Receiving
  BY <1>2, ReceiveTypes DEF Receiving, ReceiveHandshake, ReceiveInterested, ReceiveBatch,
                            Phases, Processing
<1> QED BY <1>1, <1>2, ConnectTypes, ParseTypes, ActTypes, PeerTypes DEF Next, Quiet

(* Whatever the peer sends and wherever a receive cuts it, each variable   *)
(* keeps its type.                                                         *)
THEOREM SessionTypeCorrect == Spec => []TypeOK
<1>1. TypeInv => TypeOK
  BY DEF TypeInv, TypeOK, StreamOK, TraceOK, LocalsOK, CountsOK, Traces, Locals
<1> QED BY <1>1, InitTypes, StepTypes, PTL DEF Spec

-----------------------------------------------------------------------------
(* The stream in step.                                                     *)

(* The parts alternate, beginning with the one at place p of a stream.     *)
From(s, p) == \A k \in 1 .. Len(s) : s[k].part = IF (k + p) % 2 = 1 THEN 1 ELSE 2
Even(n) == n % 2 = 0
Without(s, kind) == \A k \in 1 .. Len(s) : s[k].kind # kind

LEMMA FromTail ==
  ASSUME NEW s \in Seq(Cells), NEW p \in Nat, From(s, p), NEW n \in 0 .. Len(s)
  PROVE  /\ SubSeq(s, n + 1, Len(s)) \in Seq(Cells)
         /\ Len(SubSeq(s, n + 1, Len(s))) = Len(s) - n
         /\ From(SubSeq(s, n + 1, Len(s)), p + n)
         /\ \A kind : Without(s, kind) => Without(SubSeq(s, n + 1, Len(s)), kind)
<1> DEFINE t == SubSeq(s, n + 1, Len(s))
<1>1. t \in Seq(Cells) /\ Len(t) = Len(s) - n
  OBVIOUS
<1>2. ASSUME NEW k \in 1 .. Len(t) PROVE t[k] = s[n + k] /\ n + k \in 1 .. Len(s)
  <2>1. n + k \in 1 .. Len(s) /\ k \in 1 .. Len(s) - n BY <1>1
  <2>2. t = [i \in 1 .. Len(s) - n |-> s[i + n]] OBVIOUS
  <2> QED BY <2>1, <2>2
<1>3. From(t, p + n)
  <2>1. ASSUME NEW k \in 1 .. Len(t) PROVE t[k].part = IF (k + (p + n)) % 2 = 1 THEN 1 ELSE 2
    <3>1. s[n + k].part = IF ((n + k) + p) % 2 = 1 THEN 1 ELSE 2 BY <1>2 DEF From
    <3>2. (n + k) + p = k + (p + n) BY <1>1
    <3> QED BY <1>2, <3>1, <3>2
  <2> QED BY <2>1 DEF From
<1>4. \A kind : Without(s, kind) => Without(t, kind) BY <1>2 DEF Without
<1> QED BY <1>1, <1>3, <1>4

LEMMA FromHead ==
  ASSUME NEW s \in Seq(Cells), NEW p \in Nat, From(s, p), NEW n \in 0 .. Len(s)
  PROVE  /\ SubSeq(s, 1, n) \in Seq(Cells)
         /\ Len(SubSeq(s, 1, n)) = n
         /\ From(SubSeq(s, 1, n), p)
         /\ \A kind : Without(s, kind) => Without(SubSeq(s, 1, n), kind)
<1> DEFINE t == SubSeq(s, 1, n)
<1>1. t \in Seq(Cells) /\ Len(t) = n OBVIOUS
<1>2. ASSUME NEW k \in 1 .. Len(t) PROVE t[k] = s[k] /\ k \in 1 .. Len(s)
  BY <1>1
<1> QED BY <1>1, <1>2 DEF From, Without

LEMMA FromJoin ==
  ASSUME NEW s \in Seq(Cells), NEW t \in Seq(Cells), NEW p \in Nat, From(s, p),
         From(t, p + Len(s))
  PROVE  /\ s \o t \in Seq(Cells) /\ Len(s \o t) = Len(s) + Len(t)
         /\ From(s \o t, p)
         /\ \A kind : Without(s, kind) /\ Without(t, kind) => Without(s \o t, kind)
<1> DEFINE u == s \o t
<1>1. u \in Seq(Cells) /\ Len(u) = Len(s) + Len(t) OBVIOUS
<1>2. ASSUME NEW k \in 1 .. Len(u)
      PROVE  \/ k \in 1 .. Len(s) /\ u[k] = s[k]
             \/ k - Len(s) \in 1 .. Len(t) /\ u[k] = t[k - Len(s)]
  BY <1>1
<1>3. From(u, p)
  <2>1. ASSUME NEW k \in 1 .. Len(u) PROVE u[k].part = IF (k + p) % 2 = 1 THEN 1 ELSE 2
    <3>1. CASE k \in 1 .. Len(s) /\ u[k] = s[k] BY <3>1 DEF From
    <3>2. CASE k - Len(s) \in 1 .. Len(t) /\ u[k] = t[k - Len(s)]
      <4>1. u[k].part = IF ((k - Len(s)) + (p + Len(s))) % 2 = 1 THEN 1 ELSE 2 BY <3>2 DEF From
      <4>2. (k - Len(s)) + (p + Len(s)) = k + p BY <1>1
      <4> QED BY <4>1, <4>2
    <3> QED BY <1>2, <3>1, <3>2
  <2> QED BY <2>1 DEF From
<1>4. \A kind : Without(s, kind) /\ Without(t, kind) => Without(u, kind)
  BY <1>2 DEF Without
<1> QED BY <1>1, <1>3, <1>4

(* Only the parity of the place matters. *)
LEMMA FromEven ==
  ASSUME NEW s \in Seq(Cells), NEW p \in Nat, NEW q \in Nat, Even(p) <=> Even(q), From(s, p)
  PROVE  From(s, q)
<1>1. ASSUME NEW k \in 1 .. Len(s) PROVE (k + p) % 2 = (k + q) % 2
  BY DEF Even
<1>2. ASSUME NEW k \in 1 .. Len(s) PROVE s[k].part = IF (k + q) % 2 = 1 THEN 1 ELSE 2
  <2>1. s[k].part = IF (k + p) % 2 = 1 THEN 1 ELSE 2 BY DEF From
  <2> QED BY <1>1, <2>1
<1> QED BY <1>2 DEF From

(* Whole messages put behind a stream keep it in step. *)
Whole(s) == s \in Seq(Cells) /\ From(s, 0) /\ Even(Len(s))

LEMMA WholeJoin ==
  ASSUME NEW s, Whole(s), NEW t, Whole(t)
  PROVE  /\ Whole(s \o t)
         /\ \A kind : Without(s, kind) /\ Without(t, kind) => Without(s \o t, kind)
<1>1. From(t, 0 + Len(s)) BY FromEven DEF Whole, Even
<1> QED BY SMTT(30), <1>1, FromJoin DEF Whole, Even

LEMMA SayWhole ==
  ASSUME NEW kind \in Kinds
  PROVE  Whole(Say(kind)) /\ \A other : other # kind => Without(Say(kind), other)
<1>1. Say(kind) \in Seq(Cells) /\ Len(Say(kind)) = 2 BY SayOK
<1>2. Say(kind)[1].part = 1 /\ Say(kind)[2].part = 2 BY DEF Say, Message
<1>3. Say(kind)[1].kind = kind /\ Say(kind)[2].kind = kind BY DEF Say, Message
<1>4. ASSUME NEW k \in 1 .. 2
      PROVE  Say(kind)[k].part = (IF (k + 0) % 2 = 1 THEN 1 ELSE 2) /\ Say(kind)[k].kind = kind
  <2>1. CASE k = 1 BY <2>1, <1>2, <1>3
  <2>2. CASE k = 2 BY <2>2, <1>2, <1>3
  <2> QED BY <2>1, <2>2
<1> QED BY <1>1, <1>4 DEF Whole, From, Even, Without

LEMMA AnswersWhole ==
  ASSUME NEW n \in 0 .. NumBlocks
  PROVE  Whole(Answers(n)) /\ \A other : other # "piece" => Without(Answers(n), other)
<1>1. Answers(n) \in Seq(Cells) /\ Len(Answers(n)) = 2 * n BY AnswersOK
<1>2. ASSUME NEW k \in 1 .. 2 * n
      PROVE  /\ Answers(n)[k].kind = "piece"
             /\ Answers(n)[k].part = IF k % 2 = 1 THEN 1 ELSE 2
  BY DEF Answers
<1>3. From(Answers(n), 0)
  <2>1. ASSUME NEW k \in 1 .. 2 * n
        PROVE  Answers(n)[k].part = IF (k + 0) % 2 = 1 THEN 1 ELSE 2
    <3>1. k + 0 = k OBVIOUS
    <3> QED BY <1>2, <3>1
  <2> QED BY <1>1, <2>1 DEF From
<1> QED BY <1>1, <1>2, <1>3, SessionAssumption DEF Whole, Even, Without

(* Nothing was lost so far, by what the session was told. *)
Sound == trace.failures = 0 /\ ~trace.short

(* A bitfield of another length and one that was taken exclude each other. *)
OneBitfield ==
  \/ Without(buffer, "badbitfield") /\ Without(wire, "badbitfield")
  \/ Without(buffer, "bitfield") /\ Without(wire, "bitfield") /\ ~locals.has

InStepNow ==
  /\ ~trace.misread
  /\ From(buffer, 0) /\ From(wire, Len(buffer))
  /\ link # "reset" => Even(Len(buffer) + Len(wire))
  /\ OneBitfield

Early == {"idle", "connect", "sendhandshake"}
Opening == {"receivehandshake", "verify"}
Asking == {"send", "receivebatch", "batch", "assemble"}
Taken == Processing \cup {"verify", "close"} \cup Ended

StepInv ==
  /\ pc \in Early => /\ wire = <<>> /\ buffer = <<>>
                     /\ trace = FreshTrace /\ locals = FreshLocals
  /\ pc \in Opening => Sound
  /\ pc \notin Taken => buffer = <<>>
  /\ pc \in Asking /\ Sound => locals.has
  /\ pc \notin Ended \cup {"connect", "close"} /\ Sound => InStepNow

LEMMA EmptyFrom ==
  /\ <<>> \in Seq(Cells) /\ Len(<<>>) = 0
  /\ \A p \in Nat : From(<<>>, p)
  /\ \A kind : Without(<<>>, kind)
BY DEF From, Without

LEMMA FreshInStep ==
  ASSUME wire = <<>>, buffer = <<>>, trace = FreshTrace, locals = FreshLocals
  PROVE  Sound /\ InStepNow
<1>1. From(buffer, 0) /\ From(wire, Len(buffer)) /\ Even(Len(buffer) + Len(wire))
  BY EmptyFrom DEF Even
<1>2. ~trace.misread /\ Sound BY DEF FreshTrace, Sound
<1>3. OneBitfield BY EmptyFrom DEF OneBitfield
<1> QED BY <1>1, <1>2, <1>3 DEF InStepNow

LEMMA LeaveInStep ==
  ASSUME NEW from, Leave(from) PROVE StepInv'
<1>1. /\ wire' = <<>> /\ buffer' = <<>> /\ trace' = FreshTrace /\ locals' = FreshLocals
      /\ pc' = "idle"
  BY DEF Leave, Goto
<1> QED BY <1>1 DEF StepInv, Early, Opening, Taken, Asking, Ended, Processing

(* Connecting leaves a fresh session. *)
LEMMA ConnectInStep == ASSUME StepInv, Connecting PROVE StepInv'
<1>1. pc \in Early /\ pc' \in Early /\ UNCHANGED <<wire, buffer, trace, locals>>
  BY DEF Connecting, NoSocket, OpenSocket, ConnectFails, Connected, Goto, Early
<1>2. wire' = <<>> /\ buffer' = <<>> /\ trace' = FreshTrace /\ locals' = FreshLocals
  BY <1>1 DEF StepInv
<1>3. Sound' /\ InStepNow'
  <2>1. Sound /\ InStepNow BY <1>1, FreshInStep DEF StepInv
  <2> QED
    BY <1>2, EmptyFrom DEF Sound, InStepNow, FreshTrace, OneBitfield, Even
<1> QED BY <1>1, <1>2, <1>3 DEF StepInv, Early, Opening, Asking, Taken, Ended, Processing

(* What the peer says is whole messages, and one kind of bitfield. *)
LEMMA WelcomesWhole ==
  /\ \A w \in Welcomes : Whole(w) /\ Without(w, "badbitfield")
  /\ \A kind \in {"unknown", "badbitfield", "nobitfield"} :
       \A w \in OddWelcomes(kind) :
         Whole(w) /\ (Without(w, "badbitfield") \/ Without(w, "bitfield"))
<1>1. \A kind \in {"bitfield", "unchoke", "keepalive", "unknown"} :
        Whole(Say(kind)) /\ Without(Say(kind), "badbitfield")
  BY SayWhole DEF Kinds
<1>2. Whole(Say("badbitfield")) /\ Without(Say("badbitfield"), "bitfield")
  BY SayWhole DEF Kinds
<1>3. Whole(<<>>) /\ Without(<<>>, "badbitfield")
  BY EmptyFrom DEF Whole, Even
<1>4. ASSUME NEW s, NEW t, Whole(s), Whole(t), Without(s, "badbitfield"),
             Without(t, "badbitfield")
      PROVE  Whole(s \o t) /\ Without(s \o t, "badbitfield")
  BY <1>4, WholeJoin
<1>5. ASSUME NEW w \in Welcomes PROVE Whole(w) /\ Without(w, "badbitfield")
  <2>1. PICK u \in {<<>>, Say("unchoke"), Say("keepalive")} : w = Say("bitfield") \o u
    BY DEF Welcomes
  <2>2. Whole(u) /\ Without(u, "badbitfield") BY <1>1, <1>3, <2>1
  <2> QED BY <1>1, <1>4, <2>1, <2>2
<1>6. OddWelcomes("unknown") = {Say("unknown") \o Say("bitfield"),
                                Say("bitfield") \o Say("unknown")}
      /\ OddWelcomes("badbitfield") = {Say("badbitfield")}
      /\ OddWelcomes("nobitfield") = {<<>>, Say("unchoke")}
  BY DEF OddWelcomes
<1>7. ASSUME NEW kind \in {"unknown", "badbitfield", "nobitfield"}, NEW w \in OddWelcomes(kind)
      PROVE  Whole(w) /\ (Without(w, "badbitfield") \/ Without(w, "bitfield"))
  <2>1. CASE kind = "unknown"
    <3>1. w \in {Say("unknown") \o Say("bitfield"), Say("bitfield") \o Say("unknown")}
      BY <2>1, <1>6, <1>7
    <3>2. /\ Whole(Say("unknown") \o Say("bitfield"))
          /\ Without(Say("unknown") \o Say("bitfield"), "badbitfield")
      BY <1>1, <1>4
    <3>3. /\ Whole(Say("bitfield") \o Say("unknown"))
          /\ Without(Say("bitfield") \o Say("unknown"), "badbitfield")
      BY <1>1, <1>4
    <3> QED BY <3>1, <3>2, <3>3
  <2>2. CASE kind = "badbitfield" BY <2>2, <1>2, <1>6, <1>7
  <2>3. CASE kind = "nobitfield" BY <2>3, <1>1, <1>3, <1>6, <1>7
  <2> QED BY <2>1, <2>2, <2>3
<1> QED BY <1>5, <1>7

LEMMA SpokenInStep ==
  ASSUME buffer = <<>>, UNCHANGED buffer, Whole(wire'), ~trace.misread', OneBitfield'
  PROVE  InStepNow'
BY EmptyFrom DEF InStepNow, Whole, Even

LEMMA AnswerInStep ==
  ASSUME TypeInv, buffer = <<>>, link = "open",
         \/ wire = <<>> /\ ~locals.has /\ AnswerHandshake
         \/ AnswerInterested \/ AnswerRequests \/ SaysNothing,
         UNCHANGED <<buffer, locals, link>>, Sound, InStepNow
  PROVE  Sound' /\ InStepNow'
<1>1. trace \in Traces BY DEF TypeInv, TraceOK
<1>2. Sound' /\ ~trace.misread'
  BY <1>1 DEF AnswerHandshake, AnswerInterested, AnswerRequests, SaysNothing, Sound, Traces,
              InStepNow
<1>3. Whole(wire)
  BY EmptyFrom DEF TypeInv, StreamOK, InStepNow, Whole, Even
<1>4. \A kind \in {"handshake", "otherhash", "unchoke", "choke", "unknown"} :
        /\ Whole(Say(kind))
        /\ Without(Say(kind), "bitfield") /\ Without(Say(kind), "badbitfield")
  BY SayWhole DEF Kinds
<1>5. \A kind : Without(buffer, kind) BY EmptyFrom
<1>6. ASSUME NEW t, Whole(t), Without(t, "bitfield"), Without(t, "badbitfield"),
             wire' = wire \o t
      PROVE  Whole(wire') /\ OneBitfield'
  <2>1. Whole(wire \o t) /\ \A kind \in {"bitfield", "badbitfield"} :
                              Without(wire, kind) => Without(wire \o t, kind)
    BY <1>3, <1>6, WholeJoin
  <2> QED BY <1>6, <2>1, <1>5 DEF InStepNow, OneBitfield
<1>7. CASE wire = <<>> /\ ~locals.has /\ AnswerHandshake
  <2>1. Without(wire, "bitfield") /\ Without(wire, "badbitfield") BY <1>7, EmptyFrom
  <2>2. CASE wire' = wire \o Say("otherhash")
    BY <2>2, <1>2, <1>4, <1>6, SpokenInStep
  <2>3. ASSUME NEW w, Whole(w), Without(w, "badbitfield") \/ Without(w, "bitfield"),
               wire' = wire \o Say("handshake") \o w
        PROVE  Whole(wire') /\ OneBitfield'
    <3> DEFINE x == wire \o Say("handshake")
    <3>1. Whole(x) /\ Without(x, "bitfield") /\ Without(x, "badbitfield")
      BY <1>3, <1>4, <2>1, WholeJoin
    <3>2. /\ Whole(x \o w)
          /\ Without(x \o w, "bitfield") \/ Without(x \o w, "badbitfield")
      <4> HIDE DEF x
      <4> QED BY <2>3, <3>1, WholeJoin
    <3> QED BY <1>5, <1>7, <2>3, <3>2 DEF OneBitfield
  <2>4. \/ wire' = wire \o Say("otherhash")
        \/ \E w : /\ Whole(w) /\ (Without(w, "badbitfield") \/ Without(w, "bitfield"))
                  /\ wire' = wire \o Say("handshake") \o w
    BY <1>7, WelcomesWhole DEF AnswerHandshake
  <2> QED BY <1>2, <2>2, <2>3, <2>4, SpokenInStep
<1>8. CASE AnswerInterested
  <2>1. CASE wire' = wire \o Say("unchoke") BY <2>1, <1>4, <1>6, <1>2, SpokenInStep
  <2>2. CASE wire' = wire \o Say("choke") BY <2>2, <1>4, <1>6, <1>2, SpokenInStep
  <2>3. CASE wire' = wire \o Say("unchoke") \o Say("unknown")
    <3> DEFINE t == Say("unchoke") \o Say("unknown")
    <3>1. Whole(t) /\ Without(t, "bitfield") /\ Without(t, "badbitfield")
      BY <1>4, WholeJoin
    <3>2. wire' = wire \o t BY SMTT(30), <2>3, <1>3, <1>4 DEF Whole
    <3> HIDE DEF t
    <3> QED BY <3>1, <3>2, <1>6, <1>2, SpokenInStep
  <2> QED BY <1>8, <2>1, <2>2, <2>3 DEF AnswerInterested
<1>9. CASE AnswerRequests
  <2>1. AskedFor(locals.batch_start) \in 0 .. NumBlocks
    BY SessionAssumption DEF AskedFor, TypeInv, LocalsOK, Locals
  <2> QED BY <2>1, <1>9, <1>6, <1>2, AnswersWhole, SpokenInStep DEF AnswerRequests
<1>10. CASE SaysNothing
  BY <1>10, <1>2, <1>3, SpokenInStep DEF SaysNothing, InStepNow, OneBitfield
<1> QED BY <1>2, <1>7, <1>8, <1>9, <1>10

LEMMA SendInStep ==
  ASSUME TypeInv, StepInv, SendHandshake \/ SendInterested \/ SendRequests
  PROVE  StepInv'
<1>1. \/ \E from : Leave(from)
      \/ /\ \/ pc = "sendhandshake" /\ pc' = "receivehandshake"
            \/ pc = "sendinterested" /\ pc' = "receiveinterested"
            \/ pc = "send" /\ pc' = "receivebatch"
         /\ UNCHANGED <<buffer, locals>>
         /\ \/ link = "open" /\ UNCHANGED link
               /\ \/ pc = "sendhandshake" /\ AnswerHandshake
                  \/ AnswerInterested \/ AnswerRequests \/ SaysNothing
            \/ (link' = link \/ link' = "reset") /\ SaysNothing
  BY DEF SendHandshake, SendInterested, SendRequests, Send, Goto
<1>2. CASE \E from : Leave(from) BY <1>2, LeaveInStep
<1>3. ASSUME /\ \/ pc = "sendhandshake" /\ pc' = "receivehandshake"
                \/ pc = "sendinterested" /\ pc' = "receiveinterested"
                \/ pc = "send" /\ pc' = "receivebatch"
             /\ UNCHANGED <<buffer, locals>>,
             Sound' => Sound, Sound => Sound' /\ InStepNow'
      PROVE  StepInv'
  <2>1. pc = "sendhandshake" => Sound
    BY FreshInStep DEF StepInv, Early
  <2>2. buffer = <<>> BY <1>3 DEF StepInv, Taken, Processing, Ended
  <2>3. pc' = "receivehandshake" => Sound' BY <1>3, <2>1
  <2>4. pc' = "receivebatch" /\ Sound' => locals.has'
    BY <1>3 DEF StepInv, Asking
  <2> QED BY <1>3, <2>2, <2>3, <2>4 DEF StepInv, Early, Opening, Asking, Taken, Ended, Processing
<1>4. Sound => InStepNow \/ \E from : Leave(from)
  BY <1>1 DEF StepInv, Ended
<1>5. CASE /\ link' = link \/ link' = "reset"
           /\ SaysNothing /\ UNCHANGED <<buffer, locals>>
  BY <1>5, <1>1, <1>2, <1>3, <1>4 DEF SaysNothing, Sound, InStepNow, OneBitfield
<1>6. CASE /\ link = "open" /\ UNCHANGED <<link, buffer, locals>>
           /\ \/ pc = "sendhandshake" /\ AnswerHandshake
              \/ AnswerInterested \/ AnswerRequests \/ SaysNothing
           /\ \/ pc = "sendhandshake" /\ pc' = "receivehandshake"
              \/ pc = "sendinterested" /\ pc' = "receiveinterested"
              \/ pc = "send" /\ pc' = "receivebatch"
  <2>1. buffer = <<>> BY <1>6 DEF StepInv, Taken, Processing, Ended
  <2>2. pc = "sendhandshake" => wire = <<>> /\ ~locals.has
    BY DEF StepInv, Early, FreshLocals
  <2>3. Sound' => Sound
    BY <1>6 DEF AnswerHandshake, AnswerInterested, AnswerRequests, SaysNothing, Sound,
                TypeInv, TraceOK, Traces
  <2>4. Sound => InStepNow BY <1>6 DEF StepInv, Ended
  <2>5. Sound => Sound' /\ InStepNow'
    BY <1>6, <2>1, <2>2, <2>4, AnswerInStep
  <2> QED BY <1>6, <1>3, <2>3, <2>5
<1> QED BY <1>1, <1>2, <1>5, <1>6

(* A receive moves a prefix: the parts go on alternating. *)
LEMMA ReceiveInStep ==
  ASSUME TypeInv, StepInv, NEW from, NEW to, Receive(from, to),
         \/ from = "receivehandshake" /\ to = "verify"
         \/ from = "receiveinterested" /\ to = "interested"
         \/ from = "receivebatch" /\ to = "batch"
  PROVE  StepInv'
<1>1. PICK n \in 0 .. Len(wire) :
        /\ Goto(from, to)
        /\ buffer' = buffer \o SubSeq(wire, 1, n)
        /\ wire' = SubSeq(wire, n + 1, Len(wire))
        /\ trace' = [trace EXCEPT !.causes = IF Cut(n) THEN @ + 1 ELSE @]
        /\ UNCHANGED <<sessions, fds, link, locals, leaked>>
  BY DEF Receive
<1>2. (Sound' <=> Sound) /\ trace'.misread = trace.misread
  BY <1>1 DEF Sound, TypeInv, TraceOK, Traces
<1>3. buffer = <<>> BY <1>1 DEF Goto, StepInv, Taken, Processing, Ended
<1>4. wire \in Seq(Cells) BY DEF TypeInv, StreamOK
<1>5. buffer' = SubSeq(wire, 1, n) BY <1>1, <1>3, <1>4
<1>6. ASSUME Sound PROVE InStepNow'
  <2>1. InStepNow BY <1>1, <1>6 DEF Goto, StepInv, Ended
  <2>2. From(wire, 0) BY <2>1, <1>3, EmptyFrom DEF InStepNow
  <2>3. /\ Len(buffer') = n /\ From(buffer', 0)
        /\ \A kind : Without(wire, kind) => Without(buffer', kind)
    BY <2>2, <1>4, <1>5, FromHead
  <2>4. /\ Len(wire') = Len(wire) - n /\ From(wire', n)
        /\ \A kind : Without(wire, kind) => Without(wire', kind)
    <3>1. 0 + n = n /\ 0 \in Nat BY <1>4
    <3> QED BY <3>1, <2>2, <1>1, <1>4, FromTail
  <2>5. Len(buffer') + Len(wire') = Len(buffer) + Len(wire)
    <3>1. Len(wire) \in Nat /\ n \in Nat /\ Len(buffer) = 0 BY <1>3, <1>4, EmptyFrom
    <3>2. Len(wire') = Len(wire) - n /\ Len(buffer') = n BY <2>3, <2>4
    <3> QED BY <3>1, <3>2
  <2>6. OneBitfield' BY <2>1, <2>3, <2>4, <1>1 DEF InStepNow, OneBitfield
  <2> QED BY <1>1, <1>2, <2>1, <2>3, <2>4, <2>5, <2>6 DEF InStepNow
<1> QED BY <1>1, <1>2, <1>6 DEF Goto, StepInv, Early, Opening, Asking, Taken, Ended, Processing

LEMMA AtLeastTwo == \A n \in Nat : n # 0 /\ n # 1 => n >= 2
OBVIOUS

LEMMA EvenLess ==
  ASSUME NEW n \in Nat, n >= 2
  PROVE  n - 2 \in Nat /\ (Even(n - 2) <=> Even(n))
<1>1. (n - 2) % 2 = n % 2 OBVIOUS
<1> QED BY <1>1 DEF Even

(* A message, or the handshake, is taken from the buffer whole. *)
LEMMA DropInStep ==
  ASSUME TypeInv, InStepNow, Len(buffer) >= 2, buffer' = SubSeq(buffer, 3, Len(buffer)),
         UNCHANGED <<wire, link>>, ~trace.misread',
         \/ UNCHANGED locals
         \/ buffer[1].kind = "bitfield" \/ locals'.has = locals.has
  PROVE  InStepNow'
<1>1. buffer \in Seq(Cells) /\ wire \in Seq(Cells) BY DEF TypeInv, StreamOK
<1>2. From(buffer, 0) /\ From(wire, Len(buffer)) BY DEF InStepNow
<1>3. /\ buffer' \in Seq(Cells) /\ Len(buffer') = Len(buffer) - 2 /\ From(buffer', 2)
      /\ \A kind : Without(buffer, kind) => Without(buffer', kind)
  <2>1. 2 \in 0 .. Len(buffer) /\ 2 + 1 = 3 /\ 0 + 2 = 2 BY <1>1
  <2> QED BY <1>1, <1>2, <2>1, FromTail
<1>4. From(buffer', 0)
  <2>1. Even(2) /\ Even(0) BY DEF Even
  <2> QED BY <1>3, <2>1, FromEven
<1>5. From(wire', Len(buffer'))
  <2>1. Len(buffer) \in Nat /\ Len(wire) \in Nat BY <1>1
  <2>2. Len(buffer') \in Nat /\ (Even(Len(buffer)) <=> Even(Len(buffer')))
    BY <1>3, <2>1, EvenLess
  <2>3. From(wire, Len(buffer')) BY <1>1, <1>2, <2>1, <2>2, FromEven
  <2> QED BY <2>3
<1>6. link' # "reset" => Even(Len(buffer') + Len(wire'))
  <2>1. Len(buffer) + Len(wire) \in Nat /\ Len(buffer) + Len(wire) >= 2 BY <1>1
  <2>2. Len(buffer') + Len(wire') = Len(buffer) + Len(wire) - 2 BY <1>1, <1>3
  <2> QED BY <2>1, <2>2, EvenLess DEF InStepNow
<1>7. OneBitfield'
  <2>1. buffer[1].kind = "bitfield" => ~Without(buffer, "bitfield")
    BY <1>1 DEF Without
  <2> QED BY <1>3, <2>1 DEF InStepNow, OneBitfield
<1> QED BY <1>4, <1>5, <1>6, <1>7 DEF InStepNow

(* After the handshake: a cut one is told by its length. *)
LEMMA VerifyInStep == ASSUME TypeInv, StepInv, Verified PROVE StepInv'
<1>1. Sound /\ InStepNow BY DEF Verified, Goto, StepInv, Opening, Ended
<1>2. trace'.misread = FALSE /\ trace'.failures = 0 /\ trace'.short = (Len(buffer) = 1)
  BY <1>1 DEF Verified, TypeInv, TraceOK, Traces, InStepNow, Sound
<1>3. Len(buffer) \in Nat /\ Len(buffer) # 0
  BY DEF Verified, TypeInv, StreamOK
<1>4. ASSUME Sound' PROVE InStepNow'
  <2>1. Len(buffer) # 1
    <3>1. SUFFICES ASSUME Len(buffer) = 1 PROVE FALSE OBVIOUS
    <3>2. trace'.short = TRUE BY <1>2, <3>1
    <3> QED BY <1>4, <3>2 DEF Sound
  <2>2. Len(buffer) >= 2 BY <1>3, <2>1, AtLeastTwo
  <2>3. ~trace.misread' BY <1>2
  <2> QED BY <1>1, <2>2, <2>3, DropInStep DEF Verified
<1>5. pc' \notin Taken => buffer' = <<>>
  <2>1. pc' \notin Taken => Len(buffer) <= 2
    BY <1>3 DEF Verified, Goto, Taken, Processing
  <2>2. Len(buffer) <= 2 => SubSeq(buffer, 3, Len(buffer)) = <<>>
    BY <1>3 DEF TypeInv, StreamOK
  <2> QED BY <2>1, <2>2 DEF Verified
<1> QED BY <1>4, <1>5 DEF Verified, Goto, StepInv, Early, Opening, Asking, Taken, Ended,
                          Processing

(* What a caller does with a status keeps the stream in step, or a FAILURE *)
(* is counted.                                                             *)
LEMMA ReturnInStep ==
  ASSUME TypeInv, StepInv, ReturnSuccess \/ ReturnFailure \/ ReturnBitfieldFailure
  PROVE  StepInv'
<1>1. PICK status \in {"SUCCESS", "FAILURE", "BITFIELDFAILURE"} : Return(status, FALSE)
  BY DEF ReturnSuccess, ReturnFailure, ReturnBitfieldFailure
<1>2. /\ pc \in Processing /\ pc' = After(status) /\ buffer' = <<>>
      /\ trace' = [trace EXCEPT !.failures = IF status = "FAILURE" THEN @ + 1 ELSE @,
                                !.misread = @]
      /\ locals'.has = locals.has /\ UNCHANGED <<wire, link>>
  BY <1>1 DEF Return, TypeInv, TraceOK, Traces, LocalsOK, Locals
<1>3. trace.failures \in Nat /\ trace'.short = trace.short /\ trace'.misread = trace.misread
  BY <1>2 DEF TypeInv, TraceOK, Traces
<1>4. trace'.failures = IF status = "FAILURE" THEN trace.failures + 1 ELSE trace.failures
  BY <1>2 DEF TypeInv, TraceOK, Traces
<1>5. pc' \in {"close", "sendinterested", "while", "assemble", "send"}
      /\ (pc' \in {"assemble", "send"} => pc = "batch")
  BY <1>2 DEF Processing, After, AfterHello, AfterInterested, AfterBatch
<1>6. Sound' => Sound /\ status # "FAILURE"
  BY <1>3, <1>4 DEF Sound
<1>7. Sound' => InStepNow BY <1>2, <1>6 DEF StepInv, Processing, Ended
<1>8. Sound' /\ pc = "batch" => locals.has BY <1>6 DEF StepInv, Asking
<1>9. ASSUME Sound', pc' # "close" PROVE InStepNow'
  <2>1. status = "SUCCESS" \/ status = "BITFIELDFAILURE" BY <1>6, <1>9
  <2>2. buffer = <<>>
    <3>1. CASE ReturnSuccess BY <3>1 DEF ReturnSuccess
    <3>2. CASE ReturnFailure
      <4>1. trace'.failures = trace.failures + 1
        BY <3>2 DEF ReturnFailure, Return, TypeInv, TraceOK, Traces
      <4> QED BY <4>1, <1>3, <1>6, <1>9 DEF Sound
    <3>3. CASE ReturnBitfieldFailure
      <4>1. pc = "batch"
        BY <3>3, <1>9 DEF ReturnBitfieldFailure, Return, Processing, After, AfterHello,
                          AfterInterested
      <4>2. ~Without(buffer, "badbitfield")
        BY <3>3 DEF ReturnBitfieldFailure, Without, TypeInv, StreamOK
      <4> QED BY <4>1, <4>2, <1>7, <1>8, <1>9 DEF InStepNow, OneBitfield
    <3> QED BY <3>1, <3>2, <3>3
  <2>3. UNCHANGED buffer BY <1>2, <2>2
  <2> QED BY <1>2, <1>3, <1>7, <1>9, <2>3 DEF InStepNow, OneBitfield
<1> QED BY <1>2, <1>5, <1>6, <1>8, <1>9 DEF StepInv, Early, Opening, Asking, Taken, Ended,
                                           Processing

(* A stream that nothing was lost of is not misread. *)
LEMMA SoundAligned ==
  ASSUME TypeInv, StepInv, pc \in Processing, Sound, buffer # <<>>
  PROVE  Aligned
<1>1. InStepNow BY DEF StepInv, Processing, Ended
<1>2. 1 \in 1 .. Len(buffer) /\ (1 + 0) % 2 = 1 BY DEF TypeInv, StreamOK
<1>3. buffer[1].part = 1 BY <1>1, <1>2 DEF InStepNow, From
<1> QED BY <1>1, <1>3 DEF Aligned, InStep, InStepNow

LEMMA HandleInStep == ASSUME TypeInv, StepInv, Handle PROVE StepInv'
<1>1. /\ pc \in Processing /\ UNCHANGED <<pc, wire, link, trace>> /\ Len(buffer) # 1
      /\ buffer # <<>> /\ buffer' = SubSeq(buffer, 3, Len(buffer))
  BY DEF Handle, Incomplete
<1>2. Len(buffer) >= 2
  <2>1. buffer \in Seq(Cells) BY DEF TypeInv, StreamOK
  <2>2. Len(buffer) \in Nat /\ Len(buffer) # 0 BY <1>1, <2>1
  <2> QED BY <1>1, <2>2, AtLeastTwo
<1>3. buffer[1].kind = "bitfield" \/ locals'.has = locals.has
  BY DEF Handle, Effect, TypeInv, LocalsOK, Locals
<1>4. locals.has => locals'.has
  BY DEF Handle, Effect, TypeInv, LocalsOK, Locals
<1>5. Sound' => InStepNow'
  BY <1>1, <1>2, <1>3, DropInStep DEF Sound, StepInv, Processing, Ended, InStepNow
<1> QED BY <1>1, <1>4, <1>5 DEF StepInv, Sound, Early, Opening, Asking, Taken, Ended, Processing

LEMMA MisreadInStep ==
  ASSUME TypeInv, StepInv, MisreadReturn \/ MisreadMessage \/ MisreadStops
  PROVE  StepInv'
<1>1. pc \in Processing /\ buffer # <<>> /\ ~Aligned
  BY DEF MisreadReturn, MisreadMessage, MisreadStops, Return
<1>2. ~Sound BY <1>1, SoundAligned
<1>3. ~Sound'
  <2>1. trace'.short = trace.short /\ (trace'.failures = trace.failures)
    BY DEF MisreadReturn, MisreadMessage, MisreadStops, Return, TypeInv, TraceOK, Traces
  <2> QED BY <1>2, <2>1 DEF Sound
<1>4. pc' \notin Early \cup Opening
  BY <1>1 DEF MisreadReturn, MisreadMessage, MisreadStops, Return, Processing, After, AfterHello,
              AfterInterested, AfterBatch, Early, Opening
<1>5. pc' \notin Taken => buffer' = <<>>
  BY <1>1 DEF MisreadReturn, MisreadMessage, MisreadStops, Return, Taken, Ended
<1> QED BY <1>3, <1>4, <1>5 DEF StepInv

LEMMA LoopInStep == ASSUME TypeInv, StepInv, While \/ Assemble PROVE StepInv'
<1>1. /\ UNCHANGED <<wire, buffer, trace, link>> /\ locals'.has = locals.has
      /\ \/ pc = "while" /\ pc' \in {"close", "spinning"}
         \/ pc = "while" /\ pc' = "send" /\ locals.has
         \/ pc = "assemble" /\ pc' = "while"
  <2>1. CASE While
    <3>1. UNCHANGED <<wire, buffer, trace, link, locals>> BY <2>1 DEF While
    <3>2. \/ pc = "while" /\ pc' \in {"close", "spinning"}
          \/ pc = "while" /\ pc' = "send" /\ locals.has
      BY <2>1 DEF While, Goto, TypeInv, LocalsOK, Locals
    <3> QED BY <3>1, <3>2
  <2>2. CASE Assemble
    BY <2>2 DEF Assemble, Goto, TypeInv, LocalsOK, Locals
  <2> QED BY <2>1, <2>2
<1>2. Sound => InStepNow BY <1>1 DEF StepInv, Ended
<1>3. InStepNow => InStepNow' BY <1>1 DEF InStepNow, OneBitfield
<1> QED BY <1>1, <1>2, <1>3 DEF StepInv, Sound, Early, Opening, Asking, Taken, Ended, Processing

(* The peer's end breaks: what was on the wire may be gone. *)
LEMMA PeerInStep == ASSUME TypeInv, StepInv, Hangup \/ FallsSilent PROVE StepInv'
<1>1. /\ UNCHANGED <<pc, buffer, trace, locals>>
      /\ \/ wire' = <<>> /\ link' = "reset"
         \/ wire' = wire /\ link # "reset"
  BY DEF Hangup, FallsSilent
<1>2. Len(buffer) \in Nat BY DEF TypeInv, StreamOK
<1>3. InStepNow => InStepNow'
  BY <1>1, <1>2, EmptyFrom DEF InStepNow, OneBitfield
<1> QED BY <1>1, <1>3 DEF StepInv, Sound, Early

LEMMA InitStep == Init => StepInv
BY FreshInStep DEF Init, StepInv, Early, Opening, Taken, Asking, Ended, Processing

LEMMA StepStep == ASSUME TypeInv, StepInv, [Next]_vars PROVE StepInv'
<1>1. CASE UNCHANGED vars
  BY <1>1 DEF vars, StepInv, Sound, InStepNow, OneBitfield
<1>2. CASE Receiving
  BY <1>2, ReceiveInStep DEF Receiving, ReceiveHandshake, ReceiveInterested, ReceiveBatch
<1>3. CASE Parsing
  BY <1>3, ReturnInStep, HandleInStep, MisreadInStep DEF Parsing
<1>4. CASE Acting
  BY <1>4, SendInStep, VerifyInStep, LoopInStep, LeaveInStep DEF Acting, Mismatch, Close
<1> QED BY <1>1, <1>2, <1>3, <1>4, ConnectInStep, PeerInStep DEF Next, Quiet

(* processMessage never loses the boundary of a message in silence: as     *)
(* long as no FAILURE was returned and the handshake was not cut, what is  *)
(* left on the wire between two receives begins with the head of a message *)
(* (messageHandling.cpp:20-34, peer.cpp:203, 334).                         *)
THEOREM StepLossTold == Spec => []LossOfStepIsTold
<1>1. TypeInv /\ StepInv => LossOfStepIsTold
  <2>1. SUFFICES ASSUME TypeInv, StepInv, BetweenReceives, Sound, wire # <<>>
                 PROVE  wire[1].part = 1
    BY DEF LossOfStepIsTold, Sound, InStep
  <2>2. buffer = <<>> BY <2>1 DEF StepInv, BetweenReceives, Taken, Ended, Processing
  <2>3. From(wire, 0)
    BY <2>1, <2>2, EmptyFrom DEF StepInv, BetweenReceives, Ended, InStepNow
  <2>4. 1 \in 1 .. Len(wire) /\ (1 + 0) % 2 = 1 BY <2>1 DEF TypeInv, StreamOK
  <2> QED BY <2>3, <2>4 DEF From
<1> QED BY <1>1, InitTypes, StepTypes, InitStep, StepStep, PTL DEF Spec

-----------------------------------------------------------------------------
(* What lies ahead.                                                        *)

(* The heads of the messages of a kind, in a stream. *)
Heads(s, kind) == {k \in 1 .. Len(s) : s[k].part = 1 /\ s[k].kind = kind}
Unknowns(s) == Cardinality(Heads(s, "unknown"))

LEMMA HeadsFinite ==
  ASSUME NEW s \in Seq(Cells), NEW kind
  PROVE  IsFiniteSet(Heads(s, kind)) /\ Cardinality(Heads(s, kind)) \in Nat
<1>1. IsFiniteSet(1 .. Len(s)) BY FS_Interval
<1>2. Heads(s, kind) \in SUBSET (1 .. Len(s)) BY DEF Heads
<1>3. IsFiniteSet(Heads(s, kind)) BY <1>1, <1>2, FS_Subset
<1> QED BY <1>3, FS_CardinalityType

LEMMA HeadsJoin ==
  ASSUME NEW s \in Seq(Cells), NEW t \in Seq(Cells), NEW kind
  PROVE  /\ Cardinality(Heads(s \o t, kind))
              = Cardinality(Heads(s, kind)) + Cardinality(Heads(t, kind))
         /\ Heads(s \o t, kind) = {} <=> Heads(s, kind) = {} /\ Heads(t, kind) = {}
<1> DEFINE n == Len(s)
           U == {k + n : k \in Heads(t, kind)}
           f == [k \in Heads(t, kind) |-> k + n]
<1>1. /\ n \in Nat /\ Len(t) \in Nat /\ Len(s \o t) = n + Len(t)
      /\ Heads(s, kind) \subseteq 1 .. n /\ Heads(t, kind) \subseteq 1 .. Len(t)
  BY DEF Heads
<1>2. Heads(s \o t, kind) = Heads(s, kind) \cup U
  <2>1. ASSUME NEW k \in 1 .. n + Len(t)
        PROVE  k \in Heads(s \o t, kind) <=> k \in Heads(s, kind) \cup U
    <3>1. CASE k \in 1 .. n
      <4>1. (s \o t)[k] = s[k] BY <3>1, <1>1
      <4>2. k \notin U BY <3>1, <1>1
      <4> QED BY <3>1, <4>1, <4>2, <1>1 DEF Heads
    <3>2. CASE k \notin 1 .. n
      <4>1. k - n \in 1 .. Len(t) /\ (s \o t)[k] = t[k - n] BY <3>2, <1>1
      <4>2. k \in U <=> k - n \in Heads(t, kind) BY <3>2, <1>1
      <4> QED BY <3>2, <4>1, <4>2, <1>1 DEF Heads
    <3> QED BY <3>1, <3>2
  <2>2. Heads(s \o t, kind) \subseteq 1 .. n + Len(t) BY <1>1 DEF Heads
  <2>3. Heads(s, kind) \cup U \subseteq 1 .. n + Len(t) BY <1>1
  <2> QED BY <2>1, <2>2, <2>3
<1>3. Heads(s, kind) \cap U = {} BY <1>1
<1>4. IsFiniteSet(U) /\ Cardinality(U) = Cardinality(Heads(t, kind))
  <2>1. f \in Bijection(Heads(t, kind), U)
    BY <1>1 DEF Bijection, Injection, Surjection, IsInjective
  <2>2. ExistsBijection(Heads(t, kind), U) BY <2>1 DEF ExistsBijection
  <2> QED BY <2>2, HeadsFinite, FS_Bijection
<1>5. Cardinality(Heads(s, kind) \cup U) = Cardinality(Heads(s, kind)) + Cardinality(U)
  <2>1. IsFiniteSet(Heads(s, kind)) /\ Cardinality(Heads(s, kind)) \in Nat BY HeadsFinite
  <2>2. Cardinality(U) \in Nat BY <1>4, HeadsFinite
  <2>3. Cardinality(Heads(s, kind) \cup U)
          = Cardinality(Heads(s, kind)) + Cardinality(U) - Cardinality(Heads(s, kind) \cap U)
    BY <2>1, <1>4, FS_Union
  <2>4. Cardinality(Heads(s, kind) \cap U) = 0 BY <1>3, FS_EmptySet
  <2> HIDE DEF U
  <2> QED BY <2>1, <2>2, <2>3, <2>4
<1>6. U = {} <=> Heads(t, kind) = {} OBVIOUS
<1> HIDE DEF U
<1> QED BY <1>2, <1>4, <1>5, <1>6

(* A stream and the two parts a cut makes of it. *)
LEMMA HeadsSplit ==
  ASSUME NEW s \in Seq(Cells), NEW n \in 0 .. Len(s), NEW kind
  PROVE  /\ Cardinality(Heads(s, kind)) = Cardinality(Heads(SubSeq(s, 1, n), kind))
                                          + Cardinality(Heads(SubSeq(s, n + 1, Len(s)), kind))
         /\ Heads(s, kind) = {} <=> /\ Heads(SubSeq(s, 1, n), kind) = {}
                                    /\ Heads(SubSeq(s, n + 1, Len(s)), kind) = {}
<1> DEFINE a == SubSeq(s, 1, n)
           b == SubSeq(s, n + 1, Len(s))
<1>1. a \in Seq(Cells) /\ b \in Seq(Cells) OBVIOUS
<1>2. s = a \o b
  <2>1. a \o b = SubSeq(s, 1, Len(s))
    <3>1. /\ 1 \in 1 .. Len(s) + 1 /\ Len(s) \in n .. Len(s)
          /\ n \in 1 - 1 .. Len(s)
      OBVIOUS
    <3> QED BY <3>1, ConcatAdjacentSubSeq
  <2> QED BY <2>1, SubSeqFull
<1> HIDE DEF a, b
<1>3. /\ Cardinality(Heads(a \o b, kind))
           = Cardinality(Heads(a, kind)) + Cardinality(Heads(b, kind))
      /\ Heads(a \o b, kind) = {} <=> Heads(a, kind) = {} /\ Heads(b, kind) = {}
  BY <1>1, HeadsJoin
<1> QED BY <1>2, <1>3 DEF a, b

LEMMA HeadsEmpty ==
  \A kind : Heads(<<>>, kind) = {} /\ Cardinality(Heads(<<>>, kind)) = 0
<1>1. \A kind : Heads(<<>>, kind) = {} BY DEF Heads
<1> QED BY <1>1, FS_EmptySet

LEMMA SayHeads ==
  ASSUME NEW kind \in Kinds
  PROVE  /\ Heads(Say(kind), kind) = {1} /\ Cardinality(Heads(Say(kind), kind)) = 1
         /\ \A other : other # kind => /\ Heads(Say(kind), other) = {}
                                       /\ Cardinality(Heads(Say(kind), other)) = 0
<1>1. Len(Say(kind)) = 2 BY SayOK
<1>2. Say(kind)[1].part = 1 /\ Say(kind)[2].part = 2 BY DEF Say, Message
<1>3. Say(kind)[1].kind = kind /\ Say(kind)[2].kind = kind BY DEF Say, Message
<1>4. Heads(Say(kind), kind) = {1} BY <1>1, <1>2, <1>3 DEF Heads
<1>5. \A other : other # kind => Heads(Say(kind), other) = {}
  BY <1>1, <1>2, <1>3 DEF Heads
<1> QED BY <1>4, <1>5, FS_Singleton, FS_EmptySet

LEMMA AnswersHeads ==
  ASSUME NEW n \in 0 .. NumBlocks
  PROVE  Unknowns(Answers(n)) = 0
<1>1. Without(Answers(n), "unknown") BY AnswersWhole
<1>2. Heads(Answers(n), "unknown") = {} BY <1>1 DEF Heads, Without
<1> QED BY <1>2, FS_EmptySet DEF Unknowns

(* A welcome offers a bitfield exactly when it holds one, and each message *)
(* without a known id is counted.                                          *)
LEMMA WelcomesHeads ==
  /\ \A w \in Welcomes : Unknowns(w) = 0 /\ Heads(w, "bitfield") # {}
  /\ \A w \in OddWelcomes("unknown") : Unknowns(w) = 1 /\ Heads(w, "bitfield") # {}
  /\ \A w \in OddWelcomes("badbitfield") \cup OddWelcomes("nobitfield") : Unknowns(w) = 0
<1>1. \A kind \in {"bitfield", "unchoke", "keepalive", "badbitfield"} :
        Say(kind) \in Seq(Cells) /\ Unknowns(Say(kind)) = 0
  BY SayOK, SayHeads DEF Kinds, Unknowns
<1>2. Say("unknown") \in Seq(Cells) /\ Unknowns(Say("unknown")) = 1
  BY SayOK, SayHeads DEF Kinds, Unknowns
<1>3. Heads(Say("bitfield"), "bitfield") # {} BY SayHeads DEF Kinds
<1>4. <<>> \in Seq(Cells) /\ Unknowns(<<>>) = 0 BY HeadsEmpty DEF Unknowns
<1>5. ASSUME NEW s \in Seq(Cells), NEW t \in Seq(Cells)
      PROVE  /\ Unknowns(s \o t) = Unknowns(s) + Unknowns(t)
             /\ Heads(s, "bitfield") # {} \/ Heads(t, "bitfield") # {}
                  => Heads(s \o t, "bitfield") # {}
  BY HeadsJoin DEF Unknowns
<1>6. ASSUME NEW w \in Welcomes PROVE Unknowns(w) = 0 /\ Heads(w, "bitfield") # {}
  <2>1. PICK u \in {<<>>, Say("unchoke"), Say("keepalive")} : w = Say("bitfield") \o u
    BY DEF Welcomes
  <2>2. u \in Seq(Cells) /\ Unknowns(u) = 0 BY <1>1, <1>4, <2>1
  <2>3. Say("bitfield") \in Seq(Cells) /\ Unknowns(Say("bitfield")) = 0 BY <1>1
  <2>4. Unknowns(w) = 0 + 0 /\ Heads(w, "bitfield") # {} BY <1>3, <1>5, <2>1, <2>2, <2>3
  <2> QED BY <2>4
<1>7. OddWelcomes("unknown") = {Say("unknown") \o Say("bitfield"),
                                Say("bitfield") \o Say("unknown")}
      /\ OddWelcomes("badbitfield") = {Say("badbitfield")}
      /\ OddWelcomes("nobitfield") = {<<>>, Say("unchoke")}
  BY DEF OddWelcomes
<1>8. /\ Unknowns(Say("unknown") \o Say("bitfield")) = 1
      /\ Unknowns(Say("bitfield") \o Say("unknown")) = 1
      /\ Heads(Say("unknown") \o Say("bitfield"), "bitfield") # {}
      /\ Heads(Say("bitfield") \o Say("unknown"), "bitfield") # {}
  <2>1. /\ Say("unknown") \in Seq(Cells) /\ Say("bitfield") \in Seq(Cells)
        /\ Unknowns(Say("unknown")) = 1 /\ Unknowns(Say("bitfield")) = 0
        /\ Heads(Say("bitfield"), "bitfield") # {}
    BY <1>1, <1>2, <1>3
  <2>2. /\ Unknowns(Say("unknown") \o Say("bitfield")) = 1 + 0
        /\ Heads(Say("unknown") \o Say("bitfield"), "bitfield") # {}
    BY <1>5, <2>1
  <2>3. /\ Unknowns(Say("bitfield") \o Say("unknown")) = 0 + 1
        /\ Heads(Say("bitfield") \o Say("unknown"), "bitfield") # {}
    BY <1>5, <2>1
  <2>4. 1 + 0 = 1 /\ 0 + 1 = 1 OBVIOUS
  <2> QED BY <2>2, <2>3, <2>4
<1>9. \A w \in OddWelcomes("unknown") : Unknowns(w) = 1 /\ Heads(w, "bitfield") # {}
  BY <1>7, <1>8
<1>10. \A w \in OddWelcomes("badbitfield") \cup OddWelcomes("nobitfield") : Unknowns(w) = 0
  BY <1>1, <1>4, <1>7
<1> QED BY <1>6, <1>9, <1>10

Answered == AnswerHandshake \/ AnswerInterested \/ AnswerRequests \/ SaysNothing

(* What a send brings to the wire, and to the history. *)
Spoken(t) == /\ t \in Seq(Cells) /\ wire' = wire \o t
             /\ trace'.causes = trace.causes + Unknowns(t)
             /\ UNCHANGED <<trace.failures, trace.short, trace.misread>>
             /\ trace'.offered => trace.offered \/ Heads(t, "bitfield") # {}

LEMMA AnswerSpoken == ASSUME TypeInv, Answered PROVE \E t : Spoken(t)
<1>1. wire \in Seq(Cells) /\ trace \in Traces /\ trace.causes \in Nat
  BY DEF TypeInv, StreamOK, TraceOK, Traces
<1>2. \A kind \in {"handshake", "otherhash", "unchoke", "choke"} :
        Say(kind) \in Seq(Cells) /\ Unknowns(Say(kind)) = 0
  BY SayOK, SayHeads DEF Kinds, Unknowns
<1>3. Say("unknown") \in Seq(Cells) /\ Unknowns(Say("unknown")) = 1
  BY SayOK, SayHeads DEF Kinds, Unknowns
<1>4. <<>> \in Seq(Cells) /\ Unknowns(<<>>) = 0 BY HeadsEmpty DEF Unknowns
<1>5. ASSUME NEW s \in Seq(Cells), NEW t \in Seq(Cells)
      PROVE  /\ s \o t \in Seq(Cells)
             /\ wire \o s \o t = wire \o (s \o t)
             /\ Unknowns(s \o t) = Unknowns(s) + Unknowns(t)
             /\ Heads(t, "bitfield") # {} => Heads(s \o t, "bitfield") # {}
  <2>1. s \o t \in Seq(Cells) BY JoinOK
  <2>2. (wire \o s) \o t = wire \o (s \o t) BY <1>1, ConcatAssociative
  <2> QED BY <2>1, <2>2, HeadsJoin DEF Unknowns
<1>6. ASSUME NEW t \in Seq(Cells), Unknowns(t) = 0, wire' = wire \o t, UNCHANGED trace
      PROVE  Spoken(t)
  <2>1. trace'.causes = trace.causes + 0 BY <1>1, <1>6
  <2> QED BY <1>6, <2>1 DEF Spoken
<1>7. ASSUME NEW w \in Seq(Cells), wire' = wire \o Say("handshake") \o w,
             trace'.causes = trace.causes + Unknowns(w),
             UNCHANGED <<trace.failures, trace.short, trace.misread>>,
             trace'.offered => trace.offered \/ Heads(w, "bitfield") # {},
             Unknowns(w) \in {0, 1}
      PROVE  \E t : Spoken(t)
  <2>1. Say("handshake") \in Seq(Cells) /\ Unknowns(Say("handshake")) = 0 BY <1>2
  <2>2. /\ Say("handshake") \o w \in Seq(Cells)
        /\ wire' = wire \o (Say("handshake") \o w)
        /\ Unknowns(Say("handshake") \o w) = 0 + Unknowns(w)
        /\ Heads(w, "bitfield") # {} => Heads(Say("handshake") \o w, "bitfield") # {}
    BY <1>5, <1>7, <2>1
  <2>3. 0 + Unknowns(w) = Unknowns(w) BY <1>7
  <2>4. Spoken(Say("handshake") \o w) BY <1>7, <2>2, <2>3 DEF Spoken
  <2> QED BY <2>4
<1>8. CASE AnswerHandshake
  <2>1. CASE \E w \in Welcomes : /\ wire' = wire \o Say("handshake") \o w
                                 /\ trace' = [trace EXCEPT !.offered = TRUE]
    <3>1. PICK w \in Welcomes : /\ wire' = wire \o Say("handshake") \o w
                                /\ trace' = [trace EXCEPT !.offered = TRUE]
      BY <2>1
    <3>2. w \in Seq(Cells) /\ Unknowns(w) = 0 /\ Heads(w, "bitfield") # {}
      BY WelcomesOK, WelcomesHeads
    <3>3. trace'.causes = trace.causes + 0 BY <1>1, <3>1 DEF Traces
    <3>4. UNCHANGED <<trace.failures, trace.short, trace.misread>>
      BY <1>1, <3>1 DEF Traces
    <3> QED BY <1>7, <3>1, <3>2, <3>3, <3>4
  <2>2. ASSUME NEW kind \in {"unknown", "badbitfield", "nobitfield"}, NEW w \in OddWelcomes(kind),
               wire' = wire \o Say("handshake") \o w,
               trace' = [trace EXCEPT !.offered = kind = "unknown",
                                      !.causes = IF kind = "unknown" THEN @ + 1 ELSE @]
        PROVE  \E t : Spoken(t)
    <3>1. w \in Seq(Cells) BY WelcomesOK
    <3>2. UNCHANGED <<trace.failures, trace.short, trace.misread>>
      BY <1>1, <2>2 DEF Traces
    <3>3. /\ trace'.offered <=> kind = "unknown"
          /\ trace'.causes = IF kind = "unknown" THEN trace.causes + 1 ELSE trace.causes
      BY <1>1, <2>2 DEF Traces
    <3>4. CASE kind = "unknown"
      <4>1. Unknowns(w) = 1 /\ Heads(w, "bitfield") # {} BY <2>2, <3>4, WelcomesHeads
      <4>2. trace'.causes = trace.causes + 1 BY <3>3, <3>4
      <4> QED BY <1>7, <2>2, <3>1, <3>2, <4>1, <4>2
    <3>5. CASE kind # "unknown"
      <4>1. Unknowns(w) = 0 BY <2>2, <3>5, WelcomesHeads
      <4>2. trace'.causes = trace.causes + 0 /\ ~trace'.offered BY <1>1, <3>3, <3>5
      <4> QED BY <1>7, <2>2, <3>1, <3>2, <4>1, <4>2
    <3> QED BY <3>4, <3>5
  <2>3. CASE wire' = wire \o Say("otherhash") /\ UNCHANGED trace
    BY <2>3, <1>2, <1>6
  <2> QED BY <1>8, <2>1, <2>2, <2>3 DEF AnswerHandshake
<1>9. CASE AnswerInterested
  <2>1. CASE wire' = wire \o Say("unchoke") /\ UNCHANGED trace BY <2>1, <1>2, <1>6
  <2>2. CASE wire' = wire \o Say("choke") /\ UNCHANGED trace BY <2>2, <1>2, <1>6
  <2>3. CASE /\ wire' = wire \o Say("unchoke") \o Say("unknown")
             /\ trace' = [trace EXCEPT !.causes = @ + 1]
    <3>1. /\ Say("unchoke") \o Say("unknown") \in Seq(Cells)
          /\ wire' = wire \o (Say("unchoke") \o Say("unknown"))
          /\ Unknowns(Say("unchoke") \o Say("unknown")) = 0 + 1
      BY <1>2, <1>3, <1>5, <2>3
    <3>2. /\ trace'.causes = trace.causes + 1 /\ (trace'.offered => trace.offered)
          /\ UNCHANGED <<trace.failures, trace.short, trace.misread>>
      BY <1>1, <2>3 DEF Traces
    <3>3. Spoken(Say("unchoke") \o Say("unknown")) BY <3>1, <3>2 DEF Spoken
    <3> QED BY <3>3
  <2> QED BY <1>9, <2>1, <2>2, <2>3 DEF AnswerInterested
<1>10. CASE AnswerRequests
  <2>1. AskedFor(locals.batch_start) \in 0 .. NumBlocks
    BY SessionAssumption DEF AskedFor, TypeInv, LocalsOK, Locals
  <2> QED BY <2>1, <1>10, <1>6, AnswersOK, AnswersHeads DEF AnswerRequests
<1>11. CASE SaysNothing
  <2>1. wire' = wire \o <<>> BY <1>11, <1>1 DEF SaysNothing
  <2> QED BY <2>1, <1>4, <1>6, <1>11 DEF SaysNothing
<1> QED BY <1>8, <1>9, <1>10, <1>11 DEF Answered

(* The causes of a FAILURE that are still ahead of processMessage: unknown *)
(* messages, and the cut at the end of what was received.                  *)
CutOff == IF buffer # <<>> /\ buffer[Len(buffer)].part = 1 THEN 1 ELSE 0
Ahead == Unknowns(buffer) + Unknowns(wire) + CutOff

CauseInv == ~trace.misread => trace.failures + Ahead <= trace.causes

(* A bitfield was offered, and neither the thread nor the network had      *)
(* reason to lose it.                                                      *)
Offering == Sound /\ ~trace.misread /\ trace.offered /\ link # "reset"

OfferInv ==
  /\ pc \notin Ended \cup {"connect", "close"} /\ Offering =>
       locals.has \/ Heads(buffer, "bitfield") # {} \/ Heads(wire, "bitfield") # {}
  /\ pc = "spinning" /\ Offering => Heads(wire, "bitfield") # {}

LossInv == CauseInv /\ OfferInv

LEMMA LossNumbers ==
  ASSUME TypeInv
  PROVE  /\ Unknowns(buffer) \in Nat /\ Unknowns(wire) \in Nat
         /\ trace.causes \in Nat /\ trace.failures \in Nat
         /\ CutOff \in {0, 1} /\ Ahead \in Nat
<1>1. Unknowns(buffer) \in Nat /\ Unknowns(wire) \in Nat
  BY HeadsFinite DEF TypeInv, StreamOK, Unknowns
<1>2. CutOff \in {0, 1} BY DEF CutOff
<1>3. Ahead \in Nat BY <1>1, <1>2 DEF Ahead
<1> QED BY <1>1, <1>2, <1>3 DEF TypeInv, TraceOK, Traces

LEMMA FreshLoss ==
  ASSUME wire = <<>>, buffer = <<>>, trace = FreshTrace PROVE LossInv
<1>1. Unknowns(wire) = 0 /\ Unknowns(buffer) = 0 /\ CutOff = 0
  BY HeadsEmpty DEF Unknowns, CutOff
<1>2. CauseInv BY <1>1 DEF CauseInv, Ahead, FreshTrace
<1>3. ~trace.offered BY DEF FreshTrace
<1> QED BY <1>2, <1>3 DEF LossInv, OfferInv, Offering

LEMMA InitLoss == Init => LossInv
BY FreshLoss DEF Init

LEMMA LeaveLoss == ASSUME NEW from, Leave(from) PROVE LossInv'
<1>1. wire' = <<>> /\ buffer' = <<>> /\ trace' = FreshTrace BY DEF Leave
<1>2. Unknowns(wire)' = 0 /\ Unknowns(buffer)' = 0 /\ CutOff' = 0
  BY <1>1, HeadsEmpty DEF Unknowns, CutOff
<1>3. CauseInv' BY <1>1, <1>2 DEF CauseInv, Ahead, FreshTrace
<1>4. ~trace'.offered BY <1>1 DEF FreshTrace
<1> QED BY <1>3, <1>4 DEF LossInv, OfferInv, Offering

LEMMA ConnectLoss == ASSUME StepInv, Connecting PROVE LossInv'
<1>1. pc \in Early /\ UNCHANGED <<wire, buffer, trace>>
  BY DEF Connecting, NoSocket, OpenSocket, ConnectFails, Connected, Goto, Early
<1>2. wire' = <<>> /\ buffer' = <<>> /\ trace' = FreshTrace
  BY <1>1 DEF StepInv
<1>3. Unknowns(wire)' = 0 /\ Unknowns(buffer)' = 0 /\ CutOff' = 0
  BY <1>2, HeadsEmpty DEF Unknowns, CutOff
<1>4. CauseInv' BY <1>2, <1>3 DEF CauseInv, Ahead, FreshTrace
<1>5. ~trace'.offered BY <1>2 DEF FreshTrace
<1> QED BY <1>4, <1>5 DEF LossInv, OfferInv, Offering

LEMMA SendLoss ==
  ASSUME TypeInv, LossInv, SendHandshake \/ SendInterested \/ SendRequests
  PROVE  LossInv'
<1>1. \/ \E from : Leave(from)
      \/ /\ Answered
         /\ pc \in {"sendhandshake", "sendinterested", "send"}
         /\ pc' \in {"receivehandshake", "receiveinterested", "receivebatch"}
         /\ UNCHANGED <<buffer, locals>>
         /\ link' # "reset" => link # "reset"
  BY DEF SendHandshake, SendInterested, SendRequests, Send, Goto, Answered
<1>2. CASE \E from : Leave(from) BY <1>2, LeaveLoss
<1>3. CASE /\ Answered
           /\ pc \in {"sendhandshake", "sendinterested", "send"}
           /\ pc' \in {"receivehandshake", "receiveinterested", "receivebatch"}
           /\ UNCHANGED <<buffer, locals>>
           /\ link' # "reset" => link # "reset"
  <2>1. PICK t : Spoken(t) BY <1>3, AnswerSpoken
  <2>2. /\ Unknowns(wire \o t) = Unknowns(wire) + Unknowns(t) /\ Unknowns(t) \in Nat
        /\ Heads(wire, "bitfield") # {} \/ Heads(t, "bitfield") # {}
             => Heads(wire \o t, "bitfield") # {}
    BY <2>1, HeadsJoin, HeadsFinite DEF Spoken, TypeInv, StreamOK, Unknowns
  <2>3. CauseInv'
    <3>1. /\ trace'.causes = trace.causes + Unknowns(t) /\ trace'.failures = trace.failures
          /\ trace'.misread = trace.misread /\ wire' = wire \o t
      BY <2>1 DEF Spoken
    <3>2. /\ Unknowns(buffer)' = Unknowns(buffer) /\ CutOff' = CutOff
          /\ Unknowns(wire)' = Unknowns(wire \o t)
      BY <1>3, <3>1 DEF Unknowns, CutOff
    <3> HIDE DEF Unknowns, CutOff
    <3>3. ~trace.misread => trace.failures + (Unknowns(buffer) + Unknowns(wire) + CutOff) <= trace.causes
      BY DEF LossInv, CauseInv, Ahead
    <3>4. (~trace.misread)' => trace'.failures + (Unknowns(buffer)' + Unknowns(wire)' + CutOff') <= trace'.causes
      BY <2>2, <3>1, <3>2, <3>3, LossNumbers
    <3> QED BY <3>4 DEF CauseInv, Ahead
  <2>4. OfferInv'
    <3>1. wire' = wire \o t BY <2>1 DEF Spoken
    <3>2. Offering' => Offering \/ Heads(t, "bitfield") # {}
      BY <1>3, <2>1 DEF Offering, Spoken, Sound
    <3> QED BY <1>3, <2>2, <3>1, <3>2 DEF LossInv, OfferInv, Ended
  <2> QED BY <2>3, <2>4 DEF LossInv
<1> QED BY <1>1, <1>2, <1>3

(* A receive brings what was ahead nearer, and its own cut is counted. *)
LEMMA ReceiveLoss ==
  ASSUME TypeInv, StepInv, LossInv, NEW from, NEW to, Receive(from, to),
         from \in {"receivehandshake", "receiveinterested", "receivebatch"},
         to \in {"verify", "interested", "batch"}
  PROVE  LossInv'
<1>1. PICK n \in 0 .. Len(wire) :
        /\ Goto(from, to)
        /\ buffer' = buffer \o SubSeq(wire, 1, n)
        /\ wire' = SubSeq(wire, n + 1, Len(wire))
        /\ trace' = [trace EXCEPT !.causes = IF Cut(n) THEN @ + 1 ELSE @]
        /\ UNCHANGED <<link, locals>>
  BY DEF Receive
<1>2. wire \in Seq(Cells) /\ trace \in Traces /\ n \in Nat
  BY DEF TypeInv, StreamOK, TraceOK
<1>3. buffer = <<>> BY <1>1 DEF Goto, StepInv, Taken, Processing, Ended
<1>4. buffer' = SubSeq(wire, 1, n) BY <1>1, <1>2, <1>3
<1>5. /\ trace'.causes = (IF Cut(n) THEN trace.causes + 1 ELSE trace.causes)
      /\ UNCHANGED <<trace.failures, trace.short, trace.misread, trace.offered>>
  BY <1>1, <1>2 DEF Traces
<1>6. /\ Unknowns(wire) = Unknowns(buffer)' + Unknowns(wire)'
      /\ Heads(wire, "bitfield") = {} <=> Heads(buffer, "bitfield")' = {}
                                          /\ Heads(wire, "bitfield")' = {}
  BY <1>1, <1>2, <1>4, HeadsSplit DEF Unknowns
<1>7. CutOff' = IF Cut(n) THEN 1 ELSE 0
  <2>1. CASE n = 0
    <3>1. buffer' = <<>> BY <1>2, <1>4, <2>1
    <3> QED BY <2>1, <3>1 DEF CutOff, Cut
  <2>2. CASE n # 0
    <3>1. n > 0 /\ n \in 1 .. Len(wire) BY <1>2, <2>2
    <3>2. Len(buffer') = n /\ buffer'[n] = wire[n] BY <1>2, <1>4, <3>1
    <3>3. buffer' # <<>> BY <3>2, <2>2
    <3> QED BY <3>1, <3>2, <3>3 DEF CutOff, Cut
  <2> QED BY <2>1, <2>2
<1>8. CauseInv'
  <2>1. Unknowns(buffer) = 0 /\ CutOff = 0 BY <1>3, HeadsEmpty DEF Unknowns, CutOff
  <2>2. ~trace.misread => trace.failures + (Unknowns(buffer) + Unknowns(wire) + CutOff) <= trace.causes
    BY DEF LossInv, CauseInv, Ahead
  <2>3. /\ trace.failures \in Nat /\ trace.causes \in Nat /\ Unknowns(wire) \in Nat
    BY LossNumbers
  <2>4. ~trace.misread => trace.failures + Unknowns(wire) <= trace.causes
    BY <2>1, <2>2, <2>3
  <2>5. (~trace.misread)' => trace'.failures + (Unknowns(wire) + CutOff') <= trace'.causes
    <3>1. CASE Cut(n) BY <3>1, <1>5, <1>7, <2>3, <2>4
    <3>2. CASE ~Cut(n) BY <3>2, <1>5, <1>7, <2>3, <2>4
    <3> QED BY <3>1, <3>2
  <2> QED BY <1>6, <2>5 DEF CauseInv, Ahead
<1>9. OfferInv'
  <2>1. Offering' => Offering BY <1>1, <1>5 DEF Offering, Sound
  <2>2. Heads(buffer, "bitfield") = {} BY <1>3, HeadsEmpty
  <2> QED BY <1>1, <1>6, <2>1, <2>2 DEF LossInv, OfferInv, Goto, Ended
<1> QED BY <1>8, <1>9 DEF LossInv

LEMMA TailOf ==
  ASSUME NEW s \in Seq(Cells), NEW n \in 0 .. Len(s)
  PROVE  /\ SubSeq(s, n + 1, Len(s)) \in Seq(Cells)
         /\ Len(SubSeq(s, n + 1, Len(s))) = Len(s) - n
         /\ \A k \in 1 .. Len(s) - n : SubSeq(s, n + 1, Len(s))[k] = s[n + k]
<1> DEFINE t == SubSeq(s, n + 1, Len(s))
<1>1. t \in Seq(Cells) /\ Len(t) = Len(s) - n OBVIOUS
<1>2. ASSUME NEW k \in 1 .. Len(s) - n PROVE t[k] = s[n + k]
  <2>1. t = [i \in 1 .. Len(s) - n |-> s[i + n]] OBVIOUS
  <2> QED BY <2>1
<1> QED BY <1>1, <1>2

(* Two cells taken from the front of the buffer: nothing is added to what  *)
(* lies ahead, and one that is no bitfield leaves the bitfield there.      *)
LEMMA DropLoss ==
  ASSUME TypeInv, buffer # <<>>, buffer' = SubSeq(buffer, 3, Len(buffer)), UNCHANGED wire
  PROVE  /\ Ahead' <= Ahead /\ Ahead' \in Nat
         /\ (/\ From(buffer, 0) /\ Heads(buffer, "bitfield") # {}
             /\ buffer[1].kind # "bitfield")
              => Heads(buffer, "bitfield")' # {}
<1>1. buffer \in Seq(Cells) /\ Len(buffer) \in Nat /\ Len(buffer) # 0
  BY DEF TypeInv, StreamOK
<1>2. CASE Len(buffer) = 1
  <2>1. buffer' = <<>> BY <1>1, <1>2
  <2>2. Unknowns(buffer)' = 0 /\ CutOff' = 0 /\ Unknowns(wire)' = Unknowns(wire)
    BY <2>1, HeadsEmpty DEF Unknowns, CutOff
  <2>3. Ahead' <= Ahead /\ Ahead' \in Nat BY <2>2, LossNumbers DEF Ahead
  <2>4. Heads(buffer, "bitfield") # {} => buffer[1].kind = "bitfield"
    BY <1>2 DEF Heads
  <2> QED BY <2>3, <2>4
<1>3. CASE Len(buffer) # 1
  <2>1. 2 \in 0 .. Len(buffer) /\ 2 + 1 = 3
    <3>1. Len(buffer) >= 2 BY <1>1, <1>3, AtLeastTwo
    <3> QED BY <3>1, <1>1
  <2> DEFINE a == SubSeq(buffer, 1, 2)
  <2>2. /\ Unknowns(buffer) = Unknowns(a) + Unknowns(buffer)'
        /\ Heads(buffer, "bitfield") # {} => \/ Heads(a, "bitfield") # {}
                                             \/ Heads(buffer, "bitfield")' # {}
    BY <1>1, <2>1, HeadsSplit DEF Unknowns
  <2>3. a \in Seq(Cells) /\ Len(a) = 2 /\ a[1] = buffer[1] /\ a[2] = buffer[2] BY <1>1, <2>1
  <2>4. /\ buffer' \in Seq(Cells) /\ Len(buffer') = Len(buffer) - 2
        /\ \A k \in 1 .. Len(buffer) - 2 : buffer'[k] = buffer[2 + k]
    BY <1>1, <2>1, TailOf
  <2> HIDE DEF a
  <2>5. CutOff' <= CutOff
    <3>1. CASE Len(buffer) = 2
      <4>1. buffer' = <<>> BY <3>1, <2>4
      <4> QED BY <4>1 DEF CutOff
    <3>2. CASE Len(buffer) # 2
      <4>1. Len(buffer) - 2 \in 1 .. Len(buffer) - 2 /\ 2 + (Len(buffer) - 2) = Len(buffer)
        <5>1. Len(buffer) \in Nat /\ Len(buffer) >= 2 /\ Len(buffer) # 2
          BY <1>1, <2>1, <3>2
        <5>2. \A n \in Nat : n >= 2 /\ n # 2 => n - 2 \in 1 .. n - 2 /\ 2 + (n - 2) = n
          OBVIOUS
        <5> QED BY <5>1, <5>2
      <4>2. buffer'[Len(buffer')] = buffer[Len(buffer)] BY <1>1, <2>4, <4>1
      <4>3. buffer # <<>> BY <1>1
      <4> QED BY <4>2, <4>3 DEF CutOff
    <3> QED BY <3>1, <3>2
  <2>6. Ahead' <= Ahead /\ Ahead' \in Nat
    <3>1. Unknowns(a) \in Nat /\ Unknowns(buffer)' \in Nat
      BY <2>3, <2>4, HeadsFinite DEF Unknowns
    <3>2. Unknowns(wire)' = Unknowns(wire) /\ CutOff' \in {0, 1} BY DEF Unknowns, CutOff
    <3> QED BY <2>2, <2>5, <3>1, <3>2, LossNumbers DEF Ahead
  <2>7. From(buffer, 0) /\ buffer[1].kind # "bitfield" => Heads(a, "bitfield") = {}
    <3>1. SUFFICES ASSUME From(buffer, 0), buffer[1].kind # "bitfield",
                          NEW k \in 1 .. 2, a[k].part = 1
                   PROVE  a[k].kind # "bitfield"
      BY <2>3 DEF Heads
    <3>2. buffer[2].part = 2 BY <2>1, <3>1 DEF From
    <3>3. k = 1 BY <3>1, <3>2, <2>3
    <3> QED BY <3>1, <3>3, <2>3
  <2> QED BY <2>2, <2>6, <2>7
<1> QED BY <1>2, <1>3

LEMMA VerifiedLoss == ASSUME TypeInv, StepInv, LossInv, Verified PROVE LossInv'
<1>1. /\ pc = "verify" /\ pc' \in {"hello", "sendinterested"}
      /\ buffer # <<>> /\ buffer[1].kind = "handshake"
      /\ buffer' = SubSeq(buffer, 3, Len(buffer)) /\ UNCHANGED <<wire, link, locals>>
  BY DEF Verified, Goto
<1>2. /\ UNCHANGED <<trace.causes, trace.failures, trace.misread, trace.offered>>
  BY DEF Verified, TypeInv, TraceOK, Traces
<1>3. Sound /\ InStepNow BY <1>1 DEF StepInv, Opening, Ended
<1>4. Ahead' <= Ahead /\ Ahead' \in Nat
      /\ (Heads(buffer, "bitfield") # {} => Heads(buffer, "bitfield")' # {})
  BY <1>1, <1>3, DropLoss DEF InStepNow
<1>5. CauseInv' BY <1>2, <1>4, LossNumbers DEF LossInv, CauseInv
<1>6. Offering' => Offering BY <1>1, <1>2, <1>3 DEF Offering
<1>7. Heads(wire, "bitfield")' = Heads(wire, "bitfield") BY <1>1
<1>8. OfferInv' BY <1>1, <1>4, <1>6, <1>7 DEF LossInv, OfferInv, Ended
<1> QED BY <1>5, <1>8 DEF LossInv

LEMMA HandleLoss == ASSUME TypeInv, StepInv, LossInv, Handle PROVE LossInv'
<1>1. /\ pc \in Processing /\ buffer # <<>> /\ buffer' = SubSeq(buffer, 3, Len(buffer))
      /\ UNCHANGED <<pc, wire, link, trace>> /\ locals' = Effect(buffer[1])
  BY DEF Handle
<1>2. /\ Ahead' <= Ahead /\ Ahead' \in Nat
      /\ (From(buffer, 0) /\ Heads(buffer, "bitfield") # {} /\ buffer[1].kind # "bitfield"
            => Heads(buffer, "bitfield")' # {})
  BY <1>1, DropLoss
<1>3. CauseInv' BY <1>1, <1>2, LossNumbers DEF LossInv, CauseInv
<1>4. /\ buffer[1].kind = "bitfield" => locals'.has
      /\ locals.has => locals'.has
  BY <1>1 DEF Effect, TypeInv, LocalsOK, Locals
<1>5. Offering' => Offering /\ From(buffer, 0)
  BY <1>1 DEF Offering, Sound, StepInv, Processing, Ended, InStepNow
<1>6. Heads(wire, "bitfield")' = Heads(wire, "bitfield") BY <1>1
<1>7. pc' \notin Ended \cup {"connect", "close"} /\ pc \notin Ended \cup {"connect", "close"}
  BY <1>1 DEF Processing, Ended
<1>8. OfferInv' BY <1>2, <1>4, <1>5, <1>6, <1>7 DEF LossInv, OfferInv, Ended
<1> QED BY <1>3, <1>8 DEF LossInv

(* A FAILURE in step uses up one of its causes. *)
LEMMA ReturnLoss ==
  ASSUME TypeInv, StepInv, LossInv, ReturnSuccess \/ ReturnFailure \/ ReturnBitfieldFailure
  PROVE  LossInv'
<1>1. PICK status \in {"SUCCESS", "FAILURE", "BITFIELDFAILURE"} :
        /\ Return(status, FALSE)
        /\ \/ status = "SUCCESS" /\ ReturnSuccess
           \/ status = "FAILURE" /\ ReturnFailure
           \/ status = "BITFIELDFAILURE" /\ ReturnBitfieldFailure
  BY DEF ReturnSuccess, ReturnFailure, ReturnBitfieldFailure
<1>2. /\ pc \in Processing /\ pc' = After(status) /\ buffer' = <<>>
      /\ UNCHANGED <<wire, link>> /\ locals'.has = locals.has
  BY <1>1 DEF Return, TypeInv, LocalsOK, Locals
<1>3. /\ trace'.failures = (IF status = "FAILURE" THEN trace.failures + 1 ELSE trace.failures)
      /\ UNCHANGED <<trace.causes, trace.short, trace.misread, trace.offered>>
  BY <1>1 DEF Return, TypeInv, TraceOK, Traces
<1>4. Ahead' = Unknowns(wire)
  <2>1. Unknowns(buffer)' = 0 /\ CutOff' = 0 /\ Unknowns(wire)' = Unknowns(wire)
    BY <1>2, HeadsEmpty DEF Unknowns, CutOff
  <2> QED BY <2>1, LossNumbers DEF Ahead
<1>5. status = "FAILURE" => Unknowns(buffer) + CutOff >= 1
  <2>1. SUFFICES ASSUME ReturnFailure PROVE Unknowns(buffer) + CutOff >= 1
    BY <1>1
  <2>2. buffer # <<>> /\ buffer[1].part = 1 /\ buffer \in Seq(Cells) /\ Len(buffer) \in Nat
    BY <2>1 DEF ReturnFailure, Aligned, InStep, TypeInv, StreamOK
  <2>3. CASE Len(buffer) = 1
    <3>1. CutOff = 1 BY <2>2, <2>3 DEF CutOff
    <3> QED BY <3>1, LossNumbers
  <2>4. CASE buffer[1].kind = "unknown"
    <3>1. 1 \in Heads(buffer, "unknown") BY <2>2, <2>4 DEF Heads
    <3>2. Unknowns(buffer) # 0
      <4>1. IsFiniteSet(Heads(buffer, "unknown")) BY <2>2, HeadsFinite
      <4> QED BY <3>1, <4>1, FS_EmptySet DEF Unknowns
    <3> QED BY <3>2, LossNumbers
  <2> QED BY <2>1, <2>3, <2>4 DEF ReturnFailure, Incomplete
<1>6. CauseInv'
  <2>1. ~trace.misread => trace.failures + (Unknowns(buffer) + Unknowns(wire) + CutOff) <= trace.causes
    BY DEF LossInv, CauseInv, Ahead
  <2>2. (~trace.misread)' => trace'.failures + Unknowns(wire) <= trace'.causes
    <3>1. CASE status = "FAILURE" BY <3>1, <1>3, <1>5, <2>1, LossNumbers
    <3>2. CASE status # "FAILURE" BY <3>2, <1>3, <2>1, LossNumbers
    <3> QED BY <3>1, <3>2
  <2> QED BY <1>4, <2>2 DEF CauseInv
<1>7. OfferInv'
  <2>1. SUFFICES ASSUME Offering', pc' \notin Ended \cup {"connect", "close"}
                 PROVE  locals.has \/ Heads(wire, "bitfield") # {}
    <3>1. pc' # "spinning"
      BY <1>2 DEF Processing, After, AfterHello, AfterInterested, AfterBatch
    <3> QED BY <1>2, <3>1 DEF OfferInv
  <2>2. Offering /\ status # "FAILURE"
    <3>1. trace.failures \in Nat BY LossNumbers
    <3> QED BY <1>2, <1>3, <2>1, <3>1 DEF Offering, Sound
  <2>3. InStepNow BY <1>2, <2>2 DEF StepInv, Offering, Processing, Ended
  <2>4. locals.has \/ Heads(buffer, "bitfield") # {} \/ Heads(wire, "bitfield") # {}
    BY <1>2, <2>2 DEF LossInv, OfferInv, Processing, Ended
  <2>5. CASE status = "SUCCESS"
    BY <1>1, <2>4, <2>5, HeadsEmpty DEF ReturnSuccess
  <2>6. CASE status = "BITFIELDFAILURE"
    <3>1. ReturnBitfieldFailure BY <1>1, <2>6
    <3>2. ~Without(buffer, "badbitfield")
      BY <3>1 DEF ReturnBitfieldFailure, Without, TypeInv, StreamOK
    <3>3. Without(buffer, "bitfield") /\ Without(wire, "bitfield") /\ ~locals.has
      BY <2>3, <3>2 DEF InStepNow, OneBitfield
    <3> QED BY <2>4, <3>3 DEF Heads, Without
  <2> QED BY <2>2, <2>5, <2>6
<1> QED BY <1>6, <1>7 DEF LossInv

LEMMA MisreadLoss ==
  ASSUME MisreadReturn \/ MisreadMessage \/ MisreadStops, TypeInv PROVE LossInv'
<1>1. trace'.misread
  BY DEF MisreadReturn, MisreadMessage, MisreadStops, Return, TypeInv, TraceOK, Traces
<1> QED BY <1>1 DEF LossInv, CauseInv, OfferInv, Offering

LEMMA StayLoss ==
  ASSUME CauseInv, UNCHANGED <<trace, buffer, wire>> PROVE CauseInv'
BY DEF CauseInv, Ahead, Unknowns, CutOff

LEMMA LoopLoss == ASSUME TypeInv, StepInv, LossInv, While \/ Assemble PROVE LossInv'
<1>1. /\ UNCHANGED <<wire, buffer, trace, link>> /\ locals'.has = locals.has
      /\ pc \in {"while", "assemble"} /\ pc' # "idle"
      /\ pc' = "spinning" => ~locals.has
  BY DEF While, Assemble, Goto, TypeInv, LocalsOK, Locals
<1>2. buffer = <<>> BY <1>1 DEF StepInv, Taken, Processing, Ended
<1>3. Heads(buffer, "bitfield") = {} BY <1>2, HeadsEmpty
<1>4. CauseInv' BY <1>1, StayLoss DEF LossInv
<1>5. Offering' => Offering BY <1>1 DEF Offering, Sound
<1>6. Offering => locals.has \/ Heads(wire, "bitfield") # {}
  BY <1>1, <1>3 DEF LossInv, OfferInv, Ended
<1>7. Heads(wire, "bitfield")' = Heads(wire, "bitfield") BY <1>1
<1> QED BY <1>1, <1>4, <1>5, <1>6, <1>7 DEF LossInv, OfferInv

LEMMA PeerLoss == ASSUME TypeInv, LossInv, Hangup \/ FallsSilent PROVE LossInv'
<1>1. /\ UNCHANGED <<pc, buffer, trace, locals>> /\ pc # "spinning"
      /\ \/ wire' = <<>> /\ link' = "reset"
         \/ wire' = wire /\ link # "reset"
  BY DEF Hangup, FallsSilent, Ended
<1>2. CASE wire' = <<>> /\ link' = "reset"
  <2>1. Unknowns(wire)' = 0 /\ Unknowns(buffer)' = Unknowns(buffer) /\ CutOff' = CutOff
    BY <1>1, <1>2, HeadsEmpty DEF Unknowns, CutOff
  <2>2. Ahead' <= Ahead /\ Ahead' \in Nat BY <2>1, LossNumbers DEF Ahead
  <2>3. CauseInv' BY <1>1, <2>2, LossNumbers DEF LossInv, CauseInv
  <2> QED BY <1>2, <2>3 DEF LossInv, OfferInv, Offering
<1>3. CASE wire' = wire /\ link # "reset"
  <2>1. CauseInv' BY <1>1, <1>3, StayLoss DEF LossInv
  <2>2. Offering' => Offering BY <1>1, <1>3 DEF Offering, Sound
  <2> QED BY <1>1, <1>3, <2>1, <2>2 DEF LossInv, OfferInv
<1> QED BY <1>1, <1>2, <1>3

LEMMA StepLoss == ASSUME TypeInv, StepInv, LossInv, [Next]_vars PROVE LossInv'
<1>1. CASE UNCHANGED vars
  BY <1>1, StayLoss DEF vars, LossInv, OfferInv, Offering, Sound
<1>2. CASE Receiving
  BY <1>2, ReceiveLoss DEF Receiving, ReceiveHandshake, ReceiveInterested, ReceiveBatch
<1>3. CASE Parsing
  BY <1>3, ReturnLoss, HandleLoss, MisreadLoss DEF Parsing
<1>4. CASE Acting
  BY <1>4, SendLoss, VerifiedLoss, LoopLoss, LeaveLoss DEF Acting, Mismatch, Close
<1> QED BY <1>1, <1>2, <1>3, <1>4, ConnectLoss, PeerLoss DEF Next, Quiet

THEOREM LossInvariant == Spec => [](TypeInv /\ StepInv /\ LossInv)
<1>1. Init => TypeInv /\ StepInv /\ LossInv BY InitTypes, InitStep, InitLoss
<1>2. TypeInv /\ StepInv /\ LossInv /\ [Next]_vars => (TypeInv /\ StepInv /\ LossInv)'
  BY StepTypes, StepStep, StepLoss
<1> QED BY <1>1, <1>2, PTL DEF Spec

(* As long as the stream is read in step, processMessage returns FAILURE   *)
(* at most once for each message that a receive cut or that has no known   *)
(* id (messageHandling.cpp:28-34, 172): none without a cause, and none for *)
(* a cause already answered.                                               *)
THEOREM FailuresCaused == Spec => []FailureHasCause
<1>1. TypeInv /\ LossInv => FailureHasCause
  <2>1. SUFFICES ASSUME TypeInv, LossInv, ~trace.misread
                 PROVE  trace.failures <= trace.causes
    BY DEF FailureHasCause
  <2> QED BY <2>1, LossNumbers DEF LossInv, CauseInv
<1> QED BY <1>1, LossInvariant, PTL

(* A thread that turns for ever around a piece whose bitfield its peer     *)
(* sent (peer.cpp:285-295) was told of the loss, or the bitfield is still  *)
(* on the wire, where the thread no longer looks.                          *)
THEOREM SpinsTold == Spec => []SpinsOnlyAfterLoss
<1>1. TypeInv /\ LossInv => SpinsOnlyAfterLoss
  <2>1. SUFFICES ASSUME TypeInv, LossInv, pc = "spinning", trace.offered, link # "reset",
                        ~(trace.failures > 0 \/ trace.short \/ trace.misread)
                 PROVE  \E k \in DOMAIN wire : wire[k].kind = "bitfield"
    BY DEF SpinsOnlyAfterLoss
  <2>2. trace.failures = 0 BY <2>1, LossNumbers
  <2>3. Heads(wire, "bitfield") # {}
    BY <2>1, <2>2 DEF LossInv, OfferInv, Offering, Sound
  <2>4. PICK k \in 1 .. Len(wire) : wire[k].kind = "bitfield" BY <2>3 DEF Heads
  <2>5. k \in DOMAIN wire BY <2>1 DEF TypeInv, StreamOK
  <2> QED BY <2>4, <2>5
<1> QED BY <1>1, LossInvariant, PTL
=============================================================================
