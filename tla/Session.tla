------------------------------ MODULE Session -------------------------------
(***************************************************************************)
(* One session of downloadFromPeer as its socket sees it: tcpconnectNB,    *)
(* the handshake, and processMessage cutting a TCP stream into messages.   *)
(* Download has the same session message by message beside other threads;  *)
(* here is what lies below it: where a receive ends, what is left on the   *)
(* wire, what a FAILURE throws away, and the descriptors.                  *)
(*                                                                         *)
(* A message is two cells on the wire, the bytes before and after the only *)
(* place where a receive may cut it (in the handshake: after the info      *)
(* hash).  A receive moves a prefix of the wire into the buffer.           *)
(*                                                                         *)
(* One piece waits in the queue; sessions follow each other, as they do    *)
(* when the tracker names the peer again.                                  *)
(***************************************************************************)
EXTENDS Integers, Sequences, FiniteSets

CONSTANTS
  NumBlocks,    (* no_of_blocks: blocks in the piece                       *)
  QueueSize,    (* QUEUESIZE: blocks requested between two receives        *)
  MaxSessions,  (* bound: calls of downloadFromPeer                        *)
  FdLimit,      (* descriptors the process may have open for peers         *)
  Faults,       (* the faults the network and the peer may show            *)
  MaxFaults     (* bound: how many faults happen in a behaviour            *)

FaultKinds == {"connect", "late", "hangup", "silent", "nobitfield", "badbitfield",
               "unknown", "choke", "badhash"}

ASSUME SessionAssumption ==
  /\ NumBlocks \in Nat \ {0} /\ QueueSize \in Nat \ {0}
  /\ MaxSessions \in Nat /\ FdLimit \in Nat /\ MaxFaults \in Nat
  /\ Faults \subseteq FaultKinds

Blocks == 0 .. NumBlocks - 1

VARIABLES
  pc,        (* where the thread is; "idle" between two sessions           *)
  sessions,  (* sessions begun                                             *)
  fds,       (* open descriptors                                           *)
  link,      (* the peer's end: "open", "silent", "closed" or "reset"      *)
  wire,      (* cells the peer has sent and no receive has taken           *)
  buffer,    (* peer_recv_str, or message_string after the handshake       *)
  locals,    (* peer_info and the other locals                             *)
  trace,     (* history of this session, see FreshTrace                    *)
  leaked,    (* history: sockets of connects that failed                   *)
  faults     (* history: faults so far                                     *)

vars == <<pc, sessions, fds, link, wire, buffer, locals, trace, leaked, faults>>

-----------------------------------------------------------------------------
(* The stream.                                                             *)

Kinds == {"handshake", "otherhash", "bitfield", "badbitfield", "keepalive", "choke",
          "unchoke", "unknown", "piece"}
Cells == [kind : Kinds, block : Blocks, part : {1, 2}]

Message(kind, b) == <<[kind |-> kind, block |-> b, part |-> 1],
                      [kind |-> kind, block |-> b, part |-> 2]>>
Say(kind) == Message(kind, 0)

(* A stream that goes on with the head of a message, or has nothing yet. *)
InStep(s) == s = <<>> \/ s[1].part = 1

(* The first n blocks of the piece, one PIECE each. *)
Answers(n) == [k \in 1 .. 2 * n |-> [kind |-> "piece", block |-> (k - 1) \div 2,
                                     part |-> IF k % 2 = 1 THEN 1 ELSE 2]]

(* choked_client, the peer's bit for the piece, the filled cells of        *)
(* block_placeholder, whether one of them holds other bytes, the i of the  *)
(* request loop, and whether the piece was stored.                         *)
FreshLocals == [choked |-> TRUE, has |-> FALSE, blocks |-> {}, junk |-> FALSE,
                batch_start |-> 0, stored |-> FALSE]

(* offered: the peer sent its bitfield; failures: FAILUREs in step so far; *)
(* causes: the messages cut or unknown so far; short: the handshake itself *)
(* was cut; misread: the thread took other bytes for the head of a message.*)
FreshTrace == [offered |-> FALSE, failures |-> 0, causes |-> 0, short |-> FALSE,
               misread |-> FALSE]

Processing == {"hello", "interested", "batch"}
Ended == {"idle", "hung", "crashed", "spinning"}

Goto(from, to) == pc = from /\ pc' = to

Costs(kind) == kind \in Faults /\ faults < MaxFaults /\ faults' = faults + 1

(* Mutant: a way out that forgets to close. *)
LeaveOpen(from) == /\ Goto(from, "idle")
                   /\ wire' = <<>> /\ buffer' = <<>>
                   /\ locals' = FreshLocals /\ trace' = FreshTrace
                   /\ UNCHANGED <<sessions, fds, link, leaked>>

(* close and return. *)
Leave(from) == /\ Goto(from, "idle")
               /\ fds' = fds - 1
               /\ wire' = <<>> /\ buffer' = <<>>
               /\ locals' = FreshLocals /\ trace' = FreshTrace
               /\ UNCHANGED <<sessions, link, leaked>>

-----------------------------------------------------------------------------
(* tcpconnectNB.                                                           *)

(* At the limit socket() itself fails and nothing was opened. *)
NoSocket == /\ pc = "idle" /\ sessions < MaxSessions /\ fds = FdLimit
            /\ sessions' = sessions + 1
            /\ UNCHANGED <<pc, fds, link, wire, buffer, locals, trace, leaked, faults>>

OpenSocket == /\ Goto("idle", "connect") /\ sessions < MaxSessions /\ fds < FdLimit
              /\ sessions' = sessions + 1
              /\ fds' = fds + 1
              /\ link' = "open"
              /\ UNCHANGED <<wire, buffer, locals, trace, leaked, faults>>

(* Refused, unreachable, three seconds of select, a signal during select   *)
(* or SO_ERROR: FAILURE is returned and the socket stays open.             *)
ConnectFails == /\ Goto("connect", "idle")
                /\ Costs("connect")
                /\ leaked' = leaked + 1
                /\ UNCHANGED <<sessions, fds, link, wire, buffer, locals, trace>>

Connected == /\ Goto("connect", "sendhandshake")
             /\ UNCHANGED <<sessions, fds, link, wire, buffer, locals, trace, leaked, faults>>

-----------------------------------------------------------------------------
(* The peer.  What it answers to a send is on the wire at once; a receive  *)
(* that comes too early for some of it leaves that on the wire.            *)

(* What follows the peer's handshake: its bitfield, and what it may say    *)
(* without being asked.                                                    *)
Welcomes == { Say("bitfield") \o u : u \in {<<>>, Say("unchoke"), Say("keepalive")} }

(* Extension messages, a bitfield of another length, or no bitfield. *)
OddWelcomes(kind) == CASE kind = "unknown"     -> {Say("unknown") \o Say("bitfield"),
                                                   Say("bitfield") \o Say("unknown")}
                       [] kind = "badbitfield" -> {Say("badbitfield")}
                       [] kind = "nobitfield"  -> {<<>>, Say("unchoke")}

SaysNothing == UNCHANGED <<wire, trace, faults>>

AnswerHandshake ==
  \/ \E w \in Welcomes : /\ wire' = wire \o Say("handshake") \o w
                         /\ trace' = [trace EXCEPT !.offered = TRUE]
                         /\ UNCHANGED faults
  \/ \E kind \in {"unknown", "badbitfield", "nobitfield"} :
       \E w \in OddWelcomes(kind) :
         /\ Costs(kind)
         /\ wire' = wire \o Say("handshake") \o w
         /\ trace' = [trace EXCEPT !.offered = kind = "unknown",
                                   !.causes = IF kind = "unknown" THEN @ + 1 ELSE @]
  \/ /\ Costs("badhash")
     /\ wire' = wire \o Say("otherhash")
     /\ UNCHANGED trace

AnswerInterested ==
  \/ wire' = wire \o Say("unchoke") /\ UNCHANGED <<trace, faults>>
  \/ Costs("choke") /\ wire' = wire \o Say("choke") /\ UNCHANGED trace
  \/ /\ Costs("unknown")
     /\ wire' = wire \o Say("unchoke") \o Say("unknown")
     /\ trace' = [trace EXCEPT !.causes = @ + 1]

(* Mutant: the batch is always QUEUESIZE blocks. *)
AskedForFull(start) == start + QueueSize

(* peer_send_str is emptied for each piece and not for each batch: the     *)
(* earlier blocks are asked for again with each batch.                     *)
AskedFor(start) == IF start + QueueSize < NumBlocks THEN start + QueueSize ELSE NumBlocks

AnswerRequests ==
  /\ wire' = wire \o Answers(AskedFor(locals.batch_start))
  /\ UNCHANGED <<trace, faults>>

(* A send: the first after the peer has closed is accepted and brings a    *)
(* reset, the next ones fail.                                              *)
Send(from, to, Answer) ==
  \/ /\ link = "open" /\ Goto(from, to) /\ Answer
     /\ UNCHANGED <<sessions, fds, link, buffer, locals, leaked>>
  \/ /\ link = "silent" /\ Goto(from, to) /\ SaysNothing
     /\ UNCHANGED <<sessions, fds, link, buffer, locals, leaked>>
  \/ /\ link = "closed" /\ Goto(from, to) /\ SaysNothing
     /\ link' = "reset"
     /\ UNCHANGED <<sessions, fds, buffer, locals, leaked>>
  \/ /\ link = "reset" /\ Leave(from)
     /\ UNCHANGED faults

(* The peer closes, or its end breaks. *)
Hangup == /\ pc \notin Ended \cup {"connect"} /\ link \in {"open", "silent"}
          /\ Costs("hangup")
          /\ link' \in {"closed", "reset"}
          /\ wire' = IF link' = "reset" THEN <<>> ELSE wire
          /\ UNCHANGED <<pc, sessions, fds, buffer, locals, trace, leaked>>

(* The peer stops talking and keeps the connection. *)
FallsSilent == /\ pc \notin Ended \cup {"connect"} /\ link = "open"
               /\ Costs("silent")
               /\ link' = "silent"
               /\ UNCHANGED <<pc, sessions, fds, wire, buffer, locals, trace, leaked>>

-----------------------------------------------------------------------------
(* The recv loop: it ends at a second of silence (three for the handshake),*)
(* at the end of the stream or at a reset, and says nothing of which.      *)

(* n cells have come; the others are late. *)
Arrived(n) == /\ n \in 0 .. Len(wire)
              /\ IF n = Len(wire) THEN UNCHANGED faults ELSE Costs("late")

(* A receive that ends inside a message. *)
Cut(n) == n > 0 /\ wire[n].part = 1

Receive(from, to) ==
  \E n \in 0 .. Len(wire) :
    /\ Arrived(n)
    /\ Goto(from, to)
    /\ buffer' = buffer \o SubSeq(wire, 1, n)
    /\ wire' = SubSeq(wire, n + 1, Len(wire))
    /\ trace' = [trace EXCEPT !.causes = IF Cut(n) THEN @ + 1 ELSE @]
    /\ UNCHANGED <<sessions, fds, link, locals, leaked>>

SendHandshake == Send("sendhandshake", "receivehandshake", AnswerHandshake)
ReceiveHandshake == Receive("receivehandshake", "verify")

(* Another info hash, or a handshake that was cut before it or never came. *)
Mismatch == /\ Leave("verify")
            /\ buffer # <<>> => buffer[1].kind = "otherhash"
            /\ UNCHANGED faults

(* Mutant: what came with the handshake is thrown away. *)
VerifiedOnly == /\ buffer # <<>> /\ buffer[1].kind = "handshake"
                /\ Goto("verify", "sendinterested")
                /\ buffer' = <<>>
                /\ trace' = [trace EXCEPT !.short = Len(buffer) = 1]
                /\ UNCHANGED <<sessions, fds, link, wire, locals, leaked, faults>>

(* What follows the 68 bytes is processed; a handshake of that length or   *)
(* less has "No bitfield message sent".                                    *)
Verified == /\ buffer # <<>> /\ buffer[1].kind = "handshake"
            /\ Goto("verify", IF Len(buffer) > 2 THEN "hello" ELSE "sendinterested")
            /\ buffer' = SubSeq(buffer, 3, Len(buffer))
            /\ trace' = [trace EXCEPT !.short = Len(buffer) = 1]
            /\ UNCHANGED <<sessions, fds, link, wire, locals, leaked, faults>>

SendInterested == Send("sendinterested", "receiveinterested", AnswerInterested)
ReceiveInterested == Receive("receiveinterested", "interested")

-----------------------------------------------------------------------------
(* What the callers of processMessage do with its status.  Each throws the *)
(* rest of the buffer away.                                                *)

AfterHello(status) ==
  IF status = "BITFIELDFAILURE" THEN "close" ELSE "sendinterested"

AfterInterested(status) == IF status = "SUCCESS" THEN "while" ELSE "close"

(* A FAILURE puts the piece back. *)
AfterBatch(status) ==
  CASE status = "FAILURE"                            -> "while"
    [] locals.batch_start + QueueSize >= NumBlocks   -> "assemble"
    [] OTHER                                         -> "send"

After(status) == CASE pc = "hello"      -> AfterHello(status)
                   [] pc = "interested" -> AfterInterested(status)
                   [] pc = "batch"      -> AfterBatch(status)

(* The caller drops what is left of the string it passed. *)
Return(status, misread) ==
  /\ pc \in Processing
  /\ pc' = After(status)
  /\ buffer' = <<>>
  /\ locals' = [locals EXCEPT !.batch_start = IF pc' = "send" THEN @ + QueueSize ELSE 0]
  /\ trace' = [trace EXCEPT !.failures = IF status = "FAILURE" /\ ~misread THEN @ + 1 ELSE @,
                            !.misread = @ \/ misread]
  /\ UNCHANGED <<sessions, fds, link, wire, leaked, faults>>

(* The stream is read from where the last message ended. *)
Aligned == ~trace.misread /\ InStep(buffer)

(* Mutants: no such test; >= in it. *)
NeverIncomplete == FALSE
IncompleteOrLast == Len(buffer) <= 2

(* messagelen + 4 > message.size(): the end of the message has not come.   *)
(* With fewer than four bytes this holds for whatever substr(0,4) lacks.   *)
Incomplete == Len(buffer) = 1

ReturnSuccess == buffer = <<>> /\ Return("SUCCESS", FALSE)

ReturnFailure == /\ buffer # <<>> /\ Aligned
                 /\ Incomplete \/ buffer[1].kind = "unknown"
                 /\ Return("FAILURE", FALSE)

ReturnBitfieldFailure == /\ buffer # <<>> /\ Aligned /\ ~Incomplete
                         /\ buffer[1].kind = "badbitfield"
                         /\ Return("BITFIELDFAILURE", FALSE)

(* What one message changes; a handshake or another hash never gets here. *)
Effect(c) ==
  CASE c.kind = "choke"    -> [locals EXCEPT !.choked = TRUE]
    [] c.kind = "unchoke"  -> [locals EXCEPT !.choked = FALSE]
    [] c.kind = "bitfield" -> [locals EXCEPT !.has = TRUE]
    [] c.kind = "piece"    -> [locals EXCEPT !.blocks = @ \cup {c.block}]
    [] OTHER               -> locals

(* message.substr(4 + messagelen), and around the loop. *)
Handle == /\ pc \in Processing /\ buffer # <<>> /\ Aligned /\ ~Incomplete
          /\ buffer[1].kind \notin {"unknown", "badbitfield"}
          /\ locals' = Effect(buffer[1])
          /\ buffer' = SubSeq(buffer, 3, Len(buffer))
          /\ UNCHANGED <<pc, sessions, fds, link, wire, trace, leaked, faults>>

(* Bytes that are no head are read as one: any length and any id.  The     *)
(* message they make up may be refused, may be one of the nine with any    *)
(* content, may index a vector out of bounds, and a length of -4 consumes  *)
(* nothing, for ever.                                                      *)
MisreadReturn == /\ buffer # <<>> /\ ~Aligned
                 /\ \E status \in {"FAILURE", "BITFIELDFAILURE"} : Return(status, TRUE)

MisreadMessage == /\ pc \in Processing /\ buffer # <<>> /\ ~Aligned
                  /\ \E n \in 1 .. Len(buffer) : buffer' = SubSeq(buffer, n + 1, Len(buffer))
                  /\ \/ locals' = [locals EXCEPT !.junk = TRUE, !.blocks = Blocks]
                     \/ \E b \in BOOLEAN : locals' = [locals EXCEPT !.choked = b]
                     \/ \E b \in BOOLEAN : locals' = [locals EXCEPT !.has = b]
                  /\ trace' = [trace EXCEPT !.misread = TRUE]
                  /\ UNCHANGED <<pc, sessions, fds, link, wire, leaked, faults>>

MisreadStops == /\ pc \in Processing /\ buffer # <<>> /\ ~Aligned
                /\ pc' \in {"crashed", "hung"}
                /\ trace' = [trace EXCEPT !.misread = TRUE]
                /\ UNCHANGED <<sessions, fds, link, wire, buffer, locals, leaked, faults>>

Close == Leave("close") /\ UNCHANGED faults

-----------------------------------------------------------------------------
(* The download loop, with the piece in the queue until it is stored.      *)

(* Mutant: a choked session goes on asking. *)
WhileUnasked ==
  /\ \/ locals.stored /\ Goto("while", "close")
     \/ ~locals.stored /\ locals.has /\ Goto("while", "send")
     \/ ~locals.stored /\ ~locals.has /\ Goto("while", "spinning")
  /\ UNCHANGED <<sessions, fds, link, wire, buffer, locals, trace, leaked, faults>>

(* A thread that was choked leaves, and one whose peer lacks the piece     *)
(* pops it and pushes it back without ever receiving again.                *)
While ==
  /\ \/ (locals.stored \/ locals.choked) /\ Goto("while", "close")
     \/ ~locals.stored /\ ~locals.choked /\ locals.has /\ Goto("while", "send")
     \/ ~locals.stored /\ ~locals.choked /\ ~locals.has /\ Goto("while", "spinning")
  /\ UNCHANGED <<sessions, fds, link, wire, buffer, locals, trace, leaked, faults>>

(* A choking peer leaves requests unanswered. *)
SendRequests == Send("send", "receivebatch",
                     IF locals.choked THEN SaysNothing ELSE AnswerRequests)
ReceiveBatch == Receive("receivebatch", "batch")

(* The size and the hash; block_placeholder is emptied either way. *)
Assemble == /\ Goto("assemble", "while")
            /\ locals' = [locals EXCEPT !.stored = locals.blocks = Blocks /\ ~locals.junk,
                                        !.blocks = {}, !.junk = FALSE]
            /\ UNCHANGED <<sessions, fds, link, wire, buffer, trace, leaked, faults>>

-----------------------------------------------------------------------------
Connecting == NoSocket \/ OpenSocket \/ ConnectFails \/ Connected

Receiving == ReceiveHandshake \/ ReceiveInterested \/ ReceiveBatch

Parsing == \/ ReturnSuccess \/ ReturnFailure \/ ReturnBitfieldFailure \/ Handle
           \/ MisreadReturn \/ MisreadMessage \/ MisreadStops

Acting == \/ SendHandshake \/ Mismatch \/ Verified \/ SendInterested
          \/ While \/ SendRequests \/ Assemble \/ Close

(* The last session allowed is over, or the thread will never do more. *)
Quiet == /\ pc \in Ended \ {"idle"} \/ sessions = MaxSessions
         /\ pc \in Ended
         /\ UNCHANGED vars

Init == /\ pc = "idle" /\ sessions = 0 /\ fds = 0 /\ link = "open"
        /\ wire = <<>> /\ buffer = <<>>
        /\ locals = FreshLocals /\ trace = FreshTrace
        /\ leaked = 0 /\ faults = 0

Next == Connecting \/ Receiving \/ Parsing \/ Acting \/ Hangup \/ FallsSilent \/ Quiet

Spec == Init /\ [][Next]_vars

(* The thread is scheduled. *)
FairSpec == Spec /\ WF_vars(Connecting \/ Receiving \/ Parsing \/ Acting)

-----------------------------------------------------------------------------
(* Properties.                                                             *)

Phases == Ended \cup Processing \cup
          {"connect", "sendhandshake", "receivehandshake", "verify", "sendinterested",
           "receiveinterested", "while", "send", "receivebatch", "assemble", "close"}

(* Every variable holds a value its declaration in the code allows. *)
TypeOK ==
  /\ pc \in Phases
  /\ sessions \in 0 .. MaxSessions
  /\ fds \in 0 .. FdLimit
  /\ link \in {"open", "silent", "closed", "reset"}
  /\ wire \in Seq(Cells) /\ buffer \in Seq(Cells)
  /\ locals \in [choked : BOOLEAN, has : BOOLEAN, blocks : SUBSET Blocks,
                 junk : BOOLEAN, batch_start : Nat, stored : BOOLEAN]
  /\ trace \in [offered : BOOLEAN, failures : Nat, causes : Nat, short : BOOLEAN,
                misread : BOOLEAN]
  /\ leaked \in Nat
  /\ faults \in 0 .. MaxFaults

(* Between two receives (peer.cpp:203, 334).                               *)
BetweenReceives == pc \in {"sendinterested", "receiveinterested", "while", "send",
                           "receivebatch", "assemble"}

(* The end of a message is noticed or the session is told: between two     *)
(* receives the stream goes on with the head of a message, unless a        *)
(* FAILURE or a cut handshake came before.                                 *)
LossOfStepIsTold ==
  BetweenReceives /\ trace.failures = 0 /\ ~trace.short => InStep(wire)

(* No FAILURE without a cause: while the stream is in step each FAILURE of *)
(* processMessage answers one message that was cut or that has no known id.*)
FailureHasCause == ~trace.misread => trace.failures <= trace.causes

(* A bitfield is not lost in silence: a thread that turns for ever around  *)
(* a piece its peer has (peer.cpp:285-295) was told so, by a FAILURE in    *)
(* the hello, by a cut handshake, or the bitfield is still to be read.     *)
SpinsOnlyAfterLoss ==
  pc = "spinning" /\ trace.offered /\ link # "reset" =>
    \/ trace.failures > 0 \/ trace.short \/ trace.misread
    \/ \E k \in DOMAIN wire : wire[k].kind = "bitfield"

(* Every descriptor is the one of the session that runs or that of a       *)
(* connect that failed (nonblocktcp.cpp:57-85): the failed ones are never  *)
(* closed, and at the limit no session can begin.                          *)
SocketsAccounted ==
  fds = leaked + IF pc = "idle" THEN 0 ELSE 1

(* A session whose peer answers comes to its end, the piece stored or the  *)
(* connection closed, or reaches the place it goes round in for ever       *)
(* without a piece to ask for, whose causes are SpinsOnlyAfterLoss's. The  *)
(* exceptions are a peer that stays silent (an empty receive is a SUCCESS  *)
(* that takes latest_comms, so the two minutes of peer.cpp:432 never pass) *)
(* and a stream read out of step.                                          *)
SessionSettles ==
  pc = "connect" ~> pc \in Ended \/ link = "silent" \/ trace.misread
=============================================================================
