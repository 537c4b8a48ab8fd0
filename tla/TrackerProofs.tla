--------------------------- MODULE TrackerProofs ----------------------------
(* Theorems about Tracker, for every value of its constants. *)
EXTENDS Tracker, FiniteSetTheorems, WellFoundedInduction, TLAPS

Lists == Seq(Ips \X Ports)
Replies == [action : {0, 1, 3}, trans : TransIds \cup {-1}, size : Nat, list : Lists]
Datagrams == [action : {0, 1, 3}, trans : TransIds, size : Nat, list : Lists]

(* The histories and the datagrams, which TypeOK says less of; and an      *)
(* exchange is with a tracker of the list.                                 *)
HistoryOK ==
  /\ inbox \subseteq Datagrams
  /\ taken \in Seq(Replies)
  /\ pc \notin {"loop", "next"} => a <= Len(announce_list)

TypeInv == ValuesOK /\ HistoryOK /\ SocketsAccounted

-----------------------------------------------------------------------------
(* Replies and the map.                                                    *)

LEMMA ListsOK == ASSUME NEW list \in PeerLists PROVE list \in Lists /\ Len(list) \in Nat
BY TrackerAssumption DEF Lists

LEMMA HearsFields == ASSUME NEW bytes PROVE DOMAIN Hears(bytes) = {"hash", "port"}
BY DEF Hears, Nothing

Below == { pair \in Nat \X Nat : pair[1] < pair[2] }

LEMMA LeastPlace ==
  ASSUME NEW S, S \subseteq Nat, S # {}
  PROVE  \E k \in S : \A j \in S : k <= j
<1>1. IsWellFoundedOn(Below, Nat) BY NatLessThanWellFounded DEF OpToRel, Below
<1>2. PICK k \in S : \A j \in S : <<j, k>> \notin Below BY <1>1, WFMin
<1>3. ASSUME NEW j \in S PROVE k <= j
  <2>1. j \in Nat /\ k \in Nat /\ <<j, k>> \in Nat \X Nat OBVIOUS
  <2> QED BY <1>2, <2>1 DEF Below
<1> QED BY <1>3

(* An address that a list names has a port in it. *)
LEMMA FirstPortOK ==
  ASSUME NEW list \in Lists, NEW ip \in Named(list)
  PROVE  ip \in Ips /\ FirstPort(list, ip) \in Ports
<1> DEFINE S == { k \in 1 .. Len(list) : list[k][1] = ip }
<1>1. S # {} /\ S \subseteq Nat BY DEF Named, Lists
<1>2. PICK k \in S : \A j \in S : k <= j BY <1>1, LeastPlace
<1>3. list[k][1] = ip /\ \A j \in 1 .. k - 1 : list[j][1] # ip BY <1>2 DEF Lists
<1> DEFINE First(i) == list[i][1] = ip /\ \A j \in 1 .. i - 1 : list[j][1] # ip
<1>4. \E i \in 1 .. Len(list) : First(i) BY <1>2, <1>3
<1>5. PICK f \in 1 .. Len(list) : First(f) /\ f = CHOOSE i \in 1 .. Len(list) : First(i)
  BY <1>4
<1>6. list[f] \in Ips \X Ports BY <1>5 DEF Lists
<1>7. FirstPort(list, ip) = list[f][2] BY <1>5 DEF FirstPort
<1> QED BY <1>5, <1>6, <1>7

(* The map after a reply. *)
LEMMA MergeOK ==
  ASSUME NEW map, NEW list \in Lists, DOMAIN map \subseteq Ips,
         \A ip \in DOMAIN map : map[ip] \in Ports
  PROVE  /\ DOMAIN Merge(map, list) = DOMAIN map \cup Named(list)
         /\ DOMAIN Merge(map, list) \subseteq Ips
         /\ \A ip \in DOMAIN Merge(map, list) : Merge(map, list)[ip] \in Ports
BY FirstPortOK DEF Merge

MapOK == /\ DOMAIN peer_ip_port \subseteq Ips
         /\ \A ip \in DOMAIN peer_ip_port : peer_ip_port[ip] \in Ports

LEMMA TakeOK ==
  ASSUME NEW reply \in Replies, Take(reply), MapOK, taken \in Seq(Replies)
  PROVE  MapOK' /\ taken' \in Seq(Replies)
<1>1. reply.list \in Lists BY DEF Replies
<1>2. taken' \in Seq(Replies) BY DEF Take
<1>3. MapOK' BY <1>1, MergeOK DEF Take, MapOK
<1> QED BY <1>2, <1>3

-----------------------------------------------------------------------------
(* Type correctness, and the sockets.                                      *)

LEMMA InitTypes == Init => TypeInv
BY TrackerAssumption DEF Init, TypeInv, ValuesOK, HistoryOK, SocketsAccounted, Nothing,
   NoPeers, Replies

(* Steps of handleTracker itself. *)
LEMMA RoundTypes ==
  ASSUME TypeInv, \/ StartRound \/ NoPeersObtained \/ StartThreads \/ Quiet
                  \/ \E t \in Trackers : SkipTracker(t)
  PROVE  TypeInv'
<1> USE TrackerAssumption DEF TypeInv, ValuesOK, HistoryOK, SocketsAccounted, socketVars, roundVars
<1>1. CASE StartRound
  BY <1>1 DEF StartRound, Replies
<1>2. CASE NoPeersObtained
  BY <1>2 DEF NoPeersObtained, Ends
<1>3. CASE StartThreads
  BY <1>3 DEF StartThreads, NoPeers, Replies
<1>4. CASE Quiet
  BY <1>4 DEF Quiet, vars
<1>5. ASSUME NEW t \in Trackers, SkipTracker(t) PROVE TypeInv'
  BY <1>5 DEF SkipTracker, At
<1> QED BY <1>1, <1>2, <1>3, <1>4, <1>5

(* One more tracker asked. *)
LEMMA AsksOK ==
  ASSUME TypeInv, NEW t \in Trackers, asked' = [asked EXCEPT ![t] = @ + 1]
  PROVE  asked' \in [Trackers -> Nat]
<1>1. asked \in [Trackers -> Nat] BY DEF TypeInv, ValuesOK
<1>2. asked[t] + 1 \in Nat BY <1>1
<1> QED BY <1>1, <1>2

(* The process ends, and nothing else changes. *)
LEMMA EndsTypes ==
  ASSUME TypeInv, NEW how \in {"exited", "failed", "terminated"}, Ends(how),
         UNCHANGED asked, faults' \in 0 .. MaxFaults
  PROVE  TypeInv'
BY DEF TypeInv, ValuesOK, HistoryOK, SocketsAccounted, Ends, socketVars

LEMMA UdpTypes ==
  ASSUME TypeInv, UdpExchange
  PROVE  TypeInv'
<1> USE TrackerAssumption DEF TypeInv, ValuesOK, HistoryOK, SocketsAccounted, socketVars,
        roundVars, Costs, Return, Nothing
<1>1. ASSUME NEW t \in Trackers, UdpConnect(t) PROVE TypeInv'
  <2>1. asked' \in [Trackers -> Nat]
    <3> HIDE DEF TypeInv
    <3> QED BY <1>1, AsksOK DEF UdpConnect
  <2>2. CASE pc' = "udpconnect" /\ UNCHANGED <<a, heard, inbox, forgotten, faults>>
    BY <1>1, <2>1, <2>2 DEF UdpConnect, At
  <2>3. CASE Costs("send") /\ forgotten' = forgotten + 1 /\ Return
    BY <1>1, <2>1, <2>3 DEF UdpConnect, At
  <2> QED BY <1>1, <2>2, <2>3 DEF UdpConnect
<1>2. ASSUME NEW t \in Trackers, UdpConnectEnds(t) PROVE TypeInv'
  <2>1. /\ (Ends("failed") \/ Ends("terminated"))
        /\ UNCHANGED <<asked, faults>>
    BY <1>2 DEF UdpConnectEnds
  <2>2. faults' \in 0 .. MaxFaults BY <2>1
  <2> HIDE DEF TypeInv
  <2> QED BY <2>1, <2>2, EndsTypes
<1>3. CASE UdpAnswer
  <2>1. PICK d : inbox' = inbox \cup {d} /\ d \in Datagrams
    <3>1. Connected(trans_id) \in Datagrams /\ Refused(trans_id) \in Datagrams
      BY DEF Connected, Refused, Datagrams, Lists
    <3>2. \A list \in PeerLists : Announced(trans_id, list) \in Datagrams
      BY ListsOK DEF Announced, Datagrams
    <3> QED BY <1>3, <3>1, <3>2 DEF UdpAnswer
  <2>2. faults' \in 0 .. MaxFaults BY <1>3 DEF UdpAnswer
  <2> QED BY <1>3, <2>1, <2>2 DEF UdpAnswer, Datagrams
<1>4. CASE Lose
  BY <1>4 DEF Lose
<1>5. ASSUME NEW d \in inbox, OnConnected(d) PROVE TypeInv'
  <2>1. CASE pc' = "udpannounce" /\ heard' = Hears(BytesCopied) /\ Receive(d)
              /\ trans_id' \in TransIds /\ UNCHANGED <<a, sockets, forgotten>>
    <3>1. DOMAIN heard' = {"hash", "port"} BY <2>1, HearsFields
    <3> QED BY <1>5, <2>1, <3>1 DEF OnConnected, Receive
  <2>2. CASE Costs("send") /\ Closed /\ Return
    BY <1>5, <2>2 DEF OnConnected, Closed
  <2> QED BY <1>5, <2>1, <2>2 DEF OnConnected
<1>6. ASSUME NEW d \in inbox, OnAnnounced(d) PROVE TypeInv'
  <2>1. d \in Replies /\ d.list \in Lists BY DEF Datagrams, Replies
  <2>2. MapOK' /\ taken' \in Seq(Replies) BY <1>6, <2>1, TakeOK DEF OnAnnounced, MapOK
  <2> QED BY <1>6, <2>2 DEF OnAnnounced, Closed, MapOK
<1>7. ASSUME NEW d \in inbox, OnOther(d) PROVE TypeInv'
  BY <1>7 DEF OnOther, Closed
<1>8. CASE Timeout
  BY <1>8 DEF Timeout, Closed
<1> QED BY <1>1, <1>2, <1>3, <1>4, <1>5, <1>6, <1>7, <1>8 DEF UdpExchange

LEMMA HttpTypes ==
  ASSUME TypeInv, HttpExchange
  PROVE  TypeInv'
<1>0. ASSUME NEW t, HttpConnect(t) PROVE UNCHANGED faults \/ Costs("connect")
  BY <1>0 DEF HttpConnect
<1> USE TrackerAssumption DEF TypeInv, ValuesOK, HistoryOK, SocketsAccounted, socketVars,
        roundVars, Costs, Return, Nothing
<1>1. ASSUME NEW t \in Trackers, HttpConnect(t) PROVE TypeInv'
  <2>1. asked' \in [Trackers -> Nat]
    <3> HIDE DEF TypeInv
    <3> QED BY <1>1, AsksOK DEF HttpConnect
  <2>2. CASE /\ sockets' = sockets + 1 /\ sockets < FdLimit /\ pc' = "http"
             /\ UNCHANGED <<a, trans_id, heard, wire, inbox, forgotten, faults>>
    <3>1. UNCHANGED <<peer_ip_port, roundVars, taken>> /\ pc = "next" /\ a <= Len(announce_list)
      BY <1>1 DEF HttpConnect, At
    <3> QED BY <2>1, <2>2, <3>1
  <2>3. CASE sockets' = sockets + 1 /\ forgotten' = forgotten + 1 /\ Return
    <3>1. faults' \in 0 .. MaxFaults
      <4>1. \/ UNCHANGED faults
            \/ Costs("connect")
        BY <1>0, <1>1
      <4> QED BY <4>1
    <3>2. sockets' \in 0 .. FdLimit BY <1>1, <2>3 DEF HttpConnect
    <3> QED BY <1>1, <2>1, <2>3, <3>1, <3>2 DEF HttpConnect, At
  <2>4. CASE UNCHANGED <<sockets, forgotten, faults>> /\ Return
    BY <1>1, <2>1, <2>4 DEF HttpConnect, At
  <2> QED BY <1>1, <2>2, <2>3, <2>4 DEF HttpConnect
<1>2. ASSUME NEW list \in PeerLists, OnBody(list) PROVE TypeInv'
  <2>1. Body(list) \in Replies BY ListsOK DEF Body, Replies
  <2>2. MapOK' /\ taken' \in Seq(Replies) BY <1>2, <2>1, TakeOK DEF OnBody, MapOK
  <2> QED BY <1>2, <2>2 DEF OnBody, Closed, MapOK
<1>3. CASE OnNotOk
  BY <1>3 DEF OnNotOk, NotClosed
<1>4. CASE OnMalformed
  <2>1. Ends("terminated") /\ UNCHANGED asked /\ faults' \in 0 .. MaxFaults
    BY <1>4 DEF OnMalformed
  <2> HIDE DEF TypeInv
  <2> QED BY <2>1, EndsTypes
<1>5. CASE OnHold
  BY <1>5 DEF OnHold
<1> QED BY <1>1, <1>2, <1>3, <1>4, <1>5 DEF HttpExchange

LEMMA StepTypes == ASSUME TypeInv, [Next]_vars PROVE TypeInv'
<1>1. CASE UNCHANGED vars
  BY <1>1 DEF vars, socketVars, roundVars, TypeInv, ValuesOK, HistoryOK, SocketsAccounted
<1> QED BY <1>1, RoundTypes, UdpTypes, HttpTypes DEF Next

LEMMA TypesKept == Spec => []TypeInv
BY InitTypes, StepTypes, PTL DEF Spec

Waits == wire \in BOOLEAN

LEMMA WireKept == Spec => []Waits
<1>1. Init => Waits BY DEF Init, Waits
<1>2. ASSUME Waits, [Next]_vars PROVE Waits'
  <2> USE DEF Waits, socketVars, Return
  <2>1. CASE UNCHANGED vars BY <1>2, <2>1 DEF vars
  <2>2. CASE \/ StartRound \/ NoPeersObtained \/ StartThreads \/ Quiet
            \/ \E t \in Trackers : SkipTracker(t)
    BY <1>2, <2>2 DEF StartRound, NoPeersObtained, StartThreads, Quiet, SkipTracker, Ends, vars
  <2>3. CASE UdpExchange
    BY <1>2, <2>3 DEF UdpExchange, UdpConnect, UdpConnectEnds, UdpAnswer, Lose, OnConnected,
                      OnAnnounced, OnOther, Timeout, Ends
  <2>4. CASE HttpExchange
    BY <1>2, <2>4 DEF HttpExchange, HttpConnect, OnBody, OnNotOk, OnMalformed, OnHold, Ends
  <2> QED BY <1>2, <2>1, <2>2, <2>3, <2>4 DEF Next
<1> QED BY <1>1, <1>2, PTL DEF Spec

(* Whatever the trackers answer, each variable keeps its type: the place   *)
(* in the list, the ports in the map, the descriptors in use.              *)
THEOREM TrackerTypeCorrect == Spec => []TypeOK
<1>1. TypeInv /\ Waits => TypeOK BY DEF TypeInv, Waits, TypeOK
<1> QED BY <1>1, TypesKept, WireKept, PTL

(* A socket of a tracker outlives its exchange only after one of two       *)
(* failures, over any number of rounds and trackers.                       *)
THEOREM TrackerSocketsOwned == Spec => []SocketsAccounted
<1>1. TypeInv => SocketsAccounted BY DEF TypeInv
<1> QED BY <1>1, TypesKept, PTL

-----------------------------------------------------------------------------
(* The map of peers.                                                       *)

(* The least place of a list that names an address, without a CHOOSE. *)
NamedFirst(ip) ==
  \E k \in Naming(ip) :
    /\ \A j \in Naming(ip) : k <= j
    /\ peer_ip_port[ip] = FirstPort(taken[k].list, ip)

MapInv ==
  /\ \A k \in 1 .. Len(taken) : taken[k].action = 1
  /\ DOMAIN peer_ip_port = { ip \in Ips : Naming(ip) # {} }
  /\ \A ip \in DOMAIN peer_ip_port : NamedFirst(ip)
  /\ pc = "loop" => taken = <<>>

(* A reply names an address again, for the first time or not at all. *)
LEMMA TakeNames ==
  ASSUME taken \in Seq(Replies), NEW reply \in Replies, Take(reply), NEW ip
  PROVE  Naming(ip)' = Naming(ip) \cup
                         IF ip \in Named(reply.list) THEN {Len(taken) + 1} ELSE {}
<1>1. /\ taken' \in Seq(Replies) /\ Len(taken') = Len(taken) + 1
      /\ taken'[Len(taken) + 1] = reply
      /\ \A k \in 1 .. Len(taken) : taken'[k] = taken[k]
  BY DEF Take
<1>2. 1 .. Len(taken) + 1 = (1 .. Len(taken)) \cup {Len(taken) + 1} OBVIOUS
<1>3. Naming(ip)' = { k \in 1 .. Len(taken) + 1 : ip \in Named(taken'[k].list) }
  BY <1>1 DEF Naming, Named
<1> QED BY <1>1, <1>2, <1>3 DEF Naming

LEMMA TakeAnswers ==
  ASSUME MapInv, taken \in Seq(Replies), NEW reply \in Replies, reply.action = 1,
         Take(reply), pc' # "loop"
  PROVE  MapInv'
<1> DEFINE n == Len(taken) + 1
<1>1. /\ taken' \in Seq(Replies) /\ Len(taken') = n /\ taken'[n] = reply
      /\ \A k \in 1 .. Len(taken) : taken'[k] = taken[k]
  BY DEF Take
<1>2. reply.list \in Lists BY DEF Replies
<1>3. /\ DOMAIN peer_ip_port' = DOMAIN peer_ip_port \cup Named(reply.list)
      /\ \A ip \in DOMAIN peer_ip_port : peer_ip_port'[ip] = peer_ip_port[ip]
      /\ \A ip \in Named(reply.list) \ DOMAIN peer_ip_port :
           peer_ip_port'[ip] = FirstPort(reply.list, ip)
  BY DEF Take, Merge
<1>4. \A ip : Naming(ip)' = Naming(ip) \cup IF ip \in Named(reply.list) THEN {n} ELSE {}
  BY TakeNames
<1>5. \A ip : Naming(ip) \subseteq 1 .. Len(taken) BY DEF Naming
<1>6. \A k \in 1 .. Len(taken') : taken'[k].action = 1
  BY <1>1 DEF MapInv
<1>7. DOMAIN peer_ip_port' = { ip \in Ips : Naming(ip)' # {} }
  <2>1. Named(reply.list) \subseteq Ips BY <1>2, FirstPortOK
  <2> QED BY <2>1, <1>3, <1>4 DEF MapInv
<1>8. ASSUME NEW ip \in DOMAIN peer_ip_port' PROVE NamedFirst(ip)'
  <2>1. CASE ip \in DOMAIN peer_ip_port
    <3>1. PICK k \in Naming(ip) : /\ \A j \in Naming(ip) : k <= j
                                 /\ peer_ip_port[ip] = FirstPort(taken[k].list, ip)
      BY <2>1 DEF MapInv, NamedFirst
    <3>2. k \in 1 .. Len(taken) /\ k <= n BY <1>5
    <3>3. k \in Naming(ip)' /\ \A j \in Naming(ip)' : k <= j BY <1>4, <3>1, <3>2
    <3>4. peer_ip_port'[ip] = FirstPort(taken'[k].list, ip) BY <1>1, <1>3, <2>1, <3>1, <3>2
    <3> QED BY <3>3, <3>4 DEF NamedFirst, FirstPort
  <2>2. CASE ip \notin DOMAIN peer_ip_port
    <3>1. ip \in Named(reply.list) /\ ip \in Ips BY <1>2, <1>3, <2>2, FirstPortOK
    <3>2. Naming(ip)' = {n} BY <1>4, <2>2, <3>1 DEF MapInv
    <3>3. peer_ip_port'[ip] = FirstPort(taken'[n].list, ip) BY <1>1, <1>3, <2>2, <3>1
    <3>4. n \in Naming(ip)' /\ \A j \in Naming(ip)' : n <= j BY <3>2
    <3> QED BY <3>3, <3>4 DEF NamedFirst, FirstPort
  <2> QED BY <2>1, <2>2
<1> QED BY <1>6, <1>7, <1>8 DEF MapInv

(* No list and no address: before a round, and after its threads began. *)
LEMMA EmptyAnswers ==
  ASSUME taken = <<>>, peer_ip_port = NoPeers PROVE MapInv
<1>1. Len(taken) = 0 /\ DOMAIN peer_ip_port = {} BY DEF NoPeers
<1>2. \A ip : Naming(ip) = {} BY <1>1 DEF Naming
<1> QED BY <1>1, <1>2 DEF MapInv

(* What neither takes a reply nor begins or ends a round. *)
LEMMA SameAnswers ==
  ASSUME MapInv, UNCHANGED <<peer_ip_port, taken>>, pc' = "loop" => pc = "loop"
  PROVE  MapInv'
<1>1. \A ip : Naming(ip)' = Naming(ip) BY DEF Naming, Named
<1>2. ASSUME NEW ip, NamedFirst(ip) PROVE NamedFirst(ip)'
  <2>1. PICK k \in Naming(ip) : /\ \A j \in Naming(ip) : k <= j
                               /\ peer_ip_port[ip] = FirstPort(taken[k].list, ip)
    BY <1>2 DEF NamedFirst
  <2>2. FirstPort(taken[k].list, ip)' = FirstPort(taken[k].list, ip) BY DEF FirstPort
  <2>3. peer_ip_port'[ip] = FirstPort(taken[k].list, ip)' BY <2>1, <2>2
  <2>4. k \in Naming(ip)' /\ \A j \in Naming(ip)' : k <= j BY <1>1, <2>1
  <2> QED BY <2>3, <2>4 DEF NamedFirst
<1>3. (\A k \in 1 .. Len(taken) : taken[k].action = 1)' BY DEF MapInv
<1>4. DOMAIN peer_ip_port' = { ip \in Ips : Naming(ip)' # {} } BY <1>1 DEF MapInv
<1>5. \A ip \in DOMAIN peer_ip_port' : NamedFirst(ip)' BY <1>2 DEF MapInv
<1>6. pc' = "loop" => taken' = <<>> BY DEF MapInv
<1> QED BY <1>3, <1>4, <1>5, <1>6 DEF MapInv

LEMMA StepAnswers == ASSUME TypeInv, MapInv, [Next]_vars PROVE MapInv'
<1> USE DEF socketVars, roundVars, Return
<1>1. taken \in Seq(Replies) /\ inbox \subseteq Datagrams BY DEF TypeInv, HistoryOK
<1>2. CASE UNCHANGED vars \/ Quiet \/ NoPeersObtained \/ \E t \in Trackers : SkipTracker(t)
  BY <1>2, SameAnswers DEF vars, Quiet, NoPeersObtained, Ends, SkipTracker
<1>3. CASE StartRound
  <2>1. UNCHANGED <<peer_ip_port, taken>>
    BY <1>3 DEF StartRound, MapInv
  <2> QED BY <2>1, <1>3, SameAnswers DEF StartRound
<1>4. CASE StartThreads
  BY <1>4, EmptyAnswers DEF StartThreads, MapInv, Naming, NamedFirst, NoPeers
<1>5. CASE UdpExchange
  <2>1. ASSUME NEW d \in inbox, OnAnnounced(d) PROVE MapInv'
    <3>1. d \in Replies /\ d.action = 1 BY <1>1, <2>1 DEF Datagrams, Replies, OnAnnounced, IsAnnounced
    <3> QED BY <3>1, <1>1, <2>1, TakeAnswers DEF OnAnnounced
  <2>2. CASE ~ \E d \in inbox : OnAnnounced(d)
    <3>1. UNCHANGED <<peer_ip_port, taken>> /\ (pc' = "loop" => pc = "loop")
      BY <1>5, <2>2 DEF UdpExchange, UdpConnect, UdpConnectEnds, UdpAnswer, Lose, OnConnected,
                        OnOther, Timeout, Ends
    <3> QED BY <3>1, SameAnswers
  <2> QED BY <2>1, <2>2
<1>6. CASE HttpExchange
  <2>1. ASSUME NEW list \in PeerLists, OnBody(list) PROVE MapInv'
    <3>1. Body(list) \in Replies /\ Body(list).action = 1 BY ListsOK DEF Body, Replies
    <3> QED BY <3>1, <1>1, <2>1, TakeAnswers DEF OnBody
  <2>2. CASE ~ \E list \in PeerLists : OnBody(list)
    <3>1. UNCHANGED <<peer_ip_port, taken>> /\ (pc' = "loop" => pc = "loop")
      BY <1>6, <2>2 DEF HttpExchange, HttpConnect, OnNotOk, OnMalformed, OnHold, Ends
    <3> QED BY <3>1, SameAnswers
  <2> QED BY <2>1, <2>2
<1> QED BY <1>2, <1>3, <1>4, <1>5, <1>6 DEF Next

(* Whatever answers come, late, twice or as errors: what download_torrent  *)
(* starts threads for is what the answers to this round's announces named, *)
(* each address at the port named first (tracker.cpp:133, 229).            *)
THEOREM MapHoldsAnswers == Spec => []MapIsAnswers
<1>1. Init => MapInv
  <2>1. Init => taken = <<>> /\ peer_ip_port = NoPeers BY DEF Init
  <2> QED BY <2>1, EmptyAnswers
<1>2. TypeInv /\ MapInv /\ [Next]_vars => MapInv' BY StepAnswers
<1>3. ASSUME MapInv PROVE MapIsAnswers
  <2>1. ASSUME NEW ip \in DOMAIN peer_ip_port
        PROVE  peer_ip_port[ip] = FirstPort(taken[FirstNaming(ip)].list, ip)
    <3>1. PICK k \in Naming(ip) : /\ \A j \in Naming(ip) : k <= j
                                 /\ peer_ip_port[ip] = FirstPort(taken[k].list, ip)
      BY <1>3, <2>1 DEF MapInv, NamedFirst
    <3>2. Naming(ip) \subseteq Int BY DEF Naming
    <3>3. FirstNaming(ip) \in Naming(ip) /\ \A j \in Naming(ip) : FirstNaming(ip) <= j
      BY <3>1 DEF FirstNaming
    <3>4. FirstNaming(ip) = k BY <3>1, <3>2, <3>3
    <3> QED BY <3>1, <3>4
  <2> QED BY <1>3, <2>1 DEF MapInv, MapIsAnswers
<1> QED BY <1>1, <1>2, <1>3, TypesKept, PTL DEF Spec

-----------------------------------------------------------------------------
(* The trackers asked.                                                     *)

Places(t, n) == { k \in 1 .. n : announce_list[k] = t }

(* The trackers of the list whose turn has begun. *)
Reached == IF pc \in {"loop", "next"} THEN a - 1 ELSE a

(* parseMetaFile's list, with announce behind it where it was missing. *)
ListInv ==
  /\ given \in Seq(Trackers)
  /\ rounds = 0 => announce_list = given
  /\ rounds > 0 => announce_list = IF \E k \in 1 .. Len(given) : given[k] = Announce
                                  THEN given ELSE Append(given, Announce)

AskedInv ==
  /\ ListInv
  /\ pc # "loop" => rounds > 0
  /\ rounds > 0 /\ (pc = "loop" \/ process = "exited") => Reached = Len(announce_list)
  /\ process = "exited" => pc = "next"
  /\ rounds > 0 =>
       \A t \in Udp \cup Http : asked[t] = Cardinality(Places(t, Reached))

LEMMA PlacesFinite ==
  ASSUME NEW t, NEW n \in Nat
  PROVE  IsFiniteSet(Places(t, n)) /\ Cardinality(Places(t, n)) \in Nat
<1>1. Places(t, n) \in SUBSET (1 .. n) BY DEF Places
<1>2. IsFiniteSet(1 .. n) BY FS_Interval
<1>3. IsFiniteSet(Places(t, n)) BY <1>1, <1>2, FS_Subset
<1> QED BY <1>3, FS_CardinalityType

LEMMA PlacesGrow ==
  ASSUME NEW t, NEW n \in Nat
  PROVE  Cardinality(Places(t, n + 1)) =
           Cardinality(Places(t, n)) + IF announce_list[n + 1] = t THEN 1 ELSE 0
<1>1. 1 .. n + 1 = (1 .. n) \cup {n + 1} OBVIOUS
<1>2. CASE announce_list[n + 1] = t
  <2>1. Places(t, n + 1) = Places(t, n) \cup {n + 1} BY <1>1, <1>2 DEF Places
  <2>2. n + 1 \notin Places(t, n) BY DEF Places
  <2> QED BY <1>2, <2>1, <2>2, PlacesFinite, FS_AddElement
<1>3. CASE announce_list[n + 1] # t
  <2>1. Places(t, n + 1) = Places(t, n) BY <1>1, <1>3 DEF Places
  <2> QED BY <1>3, <2>1, PlacesFinite
<1> QED BY <1>2, <1>3

(* No turn begins. *)
LEMMA SameAsked ==
  ASSUME AskedInv, UNCHANGED <<announce_list, given, rounds, asked>>,
         Reached' = Reached, pc' = "loop" <=> pc = "loop",
         process' = "exited" => process = "exited" /\ UNCHANGED pc
  PROVE  AskedInv'
<1>1. \A t : Places(t, Reached)' = Places(t, Reached) BY DEF Places
<1>2. ListInv' BY DEF AskedInv, ListInv
<1> QED BY <1>1, <1>2 DEF AskedInv

(* The turn of a tracker begins: its place is counted if it is asked.      *)
LEMMA TurnAsked ==
  ASSUME TypeInv, AskedInv, NEW t \in Trackers, At(t), UNCHANGED roundVars,
         pc' # "loop", Reached' = a,
         asked' = IF t \in Udp \cup Http THEN [asked EXCEPT ![t] = @ + 1] ELSE asked
  PROVE  AskedInv'
<1>1. ListInv' BY DEF AskedInv, ListInv, roundVars
<1>2. a - 1 \in Nat /\ (a - 1) + 1 = a /\ Reached = a - 1 /\ announce_list[a] = t
  BY DEF At, Reached, TypeInv, ValuesOK
<1>3. asked \in [Trackers -> Nat] BY DEF TypeInv, ValuesOK
<1>4. ASSUME NEW u \in Udp \cup Http, rounds > 0
      PROVE  asked'[u] = Cardinality(Places(u, Reached)')
  <2>1. Places(u, Reached)' = Places(u, a) BY DEF Places, roundVars
  <2>2. asked[u] = Cardinality(Places(u, a - 1)) BY <1>2, <1>4 DEF AskedInv
  <2>3. Cardinality(Places(u, a)) = asked[u] + IF t = u THEN 1 ELSE 0
    BY <1>2, <2>2, PlacesGrow
  <2>4. asked'[u] = asked[u] + IF t = u THEN 1 ELSE 0
    BY <1>3, TrackerAssumption
  <2> QED BY <2>1, <2>3, <2>4
<1> QED BY <1>1, <1>4 DEF AskedInv, roundVars, At

LEMMA StartAsked == ASSUME TypeInv, AskedInv, StartRound PROVE AskedInv'
<1>1. given \in Seq(Trackers) /\ Announce \in Trackers /\ rounds \in Nat
  BY TrackerAssumption DEF AskedInv, ListInv, TypeInv, ValuesOK
<1>2. ListInv'
  <2>1. CASE rounds = 0 BY <1>1, <2>1 DEF StartRound, AskedInv, ListInv
  <2>2. CASE rounds > 0
    <3>1. \E k \in 1 .. Len(announce_list) : announce_list[k] = Announce
      <4>1. CASE \E k \in 1 .. Len(given) : given[k] = Announce
        BY <2>2, <4>1 DEF AskedInv, ListInv
      <4>2. CASE ~ \E k \in 1 .. Len(given) : given[k] = Announce
        <5>1. announce_list = Append(given, Announce) BY <2>2, <4>2 DEF AskedInv, ListInv
        <5>2. /\ Len(announce_list) = Len(given) + 1
              /\ announce_list[Len(given) + 1] = Announce
          BY <1>1, <5>1
        <5> QED BY <1>1, <5>2
      <4> QED BY <4>1, <4>2
    <3>2. UNCHANGED <<announce_list, given>> BY <3>1 DEF StartRound
    <3>3. rounds' > 0 /\ rounds' # 0 BY <1>1, <2>2 DEF StartRound
    <3> QED BY <2>2, <3>2, <3>3 DEF AskedInv, ListInv
  <2> QED BY <1>1, <2>1, <2>2
<1>3. pc' = "next" /\ process' = "up" /\ rounds' > 0 /\ Reached' = 0
  BY <1>1 DEF StartRound, Reached
<1>4. ASSUME NEW t \in Udp \cup Http PROVE asked'[t] = Cardinality(Places(t, Reached)')
  <2>1. Places(t, Reached)' = {} BY <1>3 DEF Places
  <2>2. t \in Trackers BY TrackerAssumption
  <2> QED BY <2>1, <2>2, FS_EmptySet DEF StartRound
<1> QED BY <1>2, <1>3, <1>4 DEF AskedInv

LEMMA StepAsked == ASSUME TypeInv, AskedInv, [Next]_vars PROVE AskedInv'
<1> USE DEF socketVars, roundVars, Return, Reached
<1>1. a \in Nat /\ Len(announce_list) \in Nat /\ a <= Len(announce_list) + 1
  BY DEF TypeInv, ValuesOK
<1>2. CASE UNCHANGED vars \/ Quiet BY <1>2, SameAsked DEF vars, Quiet
<1>3. CASE StartRound BY <1>3, StartAsked
<1>4. CASE NoPeersObtained
  <2>1. ListInv' BY <1>4 DEF NoPeersObtained, Ends, AskedInv, ListInv
  <2>2. \A t : Places(t, Reached)' = Places(t, Reached)
    BY <1>4 DEF NoPeersObtained, Ends, Places
  <2> QED BY <1>1, <1>4, <2>1, <2>2 DEF NoPeersObtained, Ends, AskedInv
<1>5. CASE StartThreads
  <2>1. ListInv' BY <1>5 DEF StartThreads, AskedInv, ListInv
  <2>2. \A t : Places(t, Reached)' = Places(t, Reached) BY <1>5 DEF StartThreads, Places
  <2> QED BY <1>1, <1>5, <2>1, <2>2 DEF StartThreads, AskedInv
<1>6. ASSUME NEW t \in Trackers, SkipTracker(t) \/ UdpConnect(t) \/ HttpConnect(t)
      PROVE  AskedInv'
  <2>1. CASE SkipTracker(t) BY <1>1, <1>6, <2>1, TurnAsked DEF SkipTracker, At
  <2>2. CASE UdpConnect(t)
    <3>1. asked' = [asked EXCEPT ![t] = @ + 1] /\ t \in Udp /\ At(t) /\ UNCHANGED roundVars
      BY <2>2 DEF UdpConnect
    <3>2. pc' # "loop" /\ Reached' = a BY <1>1, <2>2 DEF UdpConnect
    <3> QED BY <1>6, <3>1, <3>2, TurnAsked
  <2>3. CASE HttpConnect(t)
    <3>1. asked' = [asked EXCEPT ![t] = @ + 1] /\ t \in Http /\ At(t) /\ UNCHANGED roundVars
      BY <2>3 DEF HttpConnect
    <3>2. pc' # "loop" /\ Reached' = a BY <1>1, <2>3 DEF HttpConnect, At
    <3> QED BY <1>6, <3>1, <3>2, TurnAsked
  <2> QED BY <1>6, <2>1, <2>2, <2>3
<1>7. CASE UdpExchange /\ ~ \E t \in Trackers : UdpConnect(t)
  BY <1>1, <1>7, SameAsked DEF UdpExchange, UdpConnectEnds, UdpAnswer, Lose, OnConnected,
                               OnAnnounced, OnOther, Timeout, Ends
<1>8. CASE HttpExchange /\ ~ \E t \in Trackers : HttpConnect(t)
  BY <1>1, <1>8, SameAsked DEF HttpExchange, OnBody, OnNotOk, OnMalformed, OnHold, Ends
<1> QED BY <1>2, <1>3, <1>4, <1>5, <1>6, <1>7, <1>8 DEF Next, UdpExchange, HttpExchange

(* Whatever happens to the exchanges with the others, a round has asked    *)
(* each tracker as often as the metainfo lists it, and announce where it   *)
(* does not (tracker.cpp:242-256).                                         *)
THEOREM EveryTrackerReached == Spec => []EveryTrackerAsked
<1>1. Init => AskedInv
  BY TrackerAssumption DEF Init, AskedInv, ListInv
<1>2. TypeInv /\ AskedInv /\ [Next]_vars => AskedInv' BY StepAsked
<1>3. ASSUME AskedInv, rounds > 0, pc = "loop" \/ process = "exited", NEW t \in Udp \cup Http
      PROVE  asked[t] = IF t = Announce /\ Occurrences(t) = 0 THEN 1 ELSE Occurrences(t)
  <2> DEFINE inGiven == { k \in 1 .. Len(given) : given[k] = t }
  <2>1. asked[t] = Cardinality(Places(t, Len(announce_list))) BY <1>3 DEF AskedInv
  <2>2. given \in Seq(Trackers) /\ Len(given) \in Nat BY <1>3 DEF AskedInv, ListInv
  <2>3. IsFiniteSet(inGiven) /\ (Cardinality(inGiven) = 0 <=> inGiven = {})
    <3>1. IsFiniteSet(1 .. Len(given)) BY <2>2, FS_Interval
    <3> QED BY <3>1, FS_Subset, FS_EmptySet
  <2>4. CASE \E k \in 1 .. Len(given) : given[k] = Announce
    <3>1. announce_list = given BY <1>3, <2>4 DEF AskedInv, ListInv
    <3>2. asked[t] = Occurrences(t) BY <2>1, <3>1 DEF Places, Occurrences
    <3>3. ~(t = Announce /\ Occurrences(t) = 0) BY <2>3, <2>4 DEF Occurrences
    <3> QED BY <3>2, <3>3
  <2>5. CASE ~ \E k \in 1 .. Len(given) : given[k] = Announce
    <3>1. announce_list = Append(given, Announce) BY <1>3, <2>5 DEF AskedInv, ListInv
    <3>2. /\ Len(announce_list) = Len(given) + 1
          /\ announce_list[Len(given) + 1] = Announce
          /\ \A k \in 1 .. Len(given) : announce_list[k] = given[k]
      BY <2>2, <3>1
    <3>3. Places(t, Len(given)) = inGiven BY <3>2 DEF Places
    <3>4. asked[t] = Cardinality(inGiven) + IF Announce = t THEN 1 ELSE 0
      <4>1. Cardinality(Places(t, Len(given) + 1)) =
              Cardinality(Places(t, Len(given))) +
                IF announce_list[Len(given) + 1] = t THEN 1 ELSE 0
        BY <2>2, PlacesGrow
      <4>2. asked[t] = Cardinality(Places(t, Len(given) + 1)) BY <2>1, <3>2
      <4> HIDE DEF inGiven
      <4> QED BY <3>2, <3>3, <4>1, <4>2
    <3>5. CASE t = Announce
      <4>1. inGiven = {} BY <2>5, <3>5
      <4> QED BY <2>3, <3>4, <3>5, <4>1 DEF Occurrences
    <3>6. CASE t # Announce
      <4>1. Cardinality(inGiven) \in Nat BY <2>3, FS_CardinalityType
      <4> QED BY <3>4, <3>6, <4>1 DEF Occurrences
    <3> QED BY <3>5, <3>6
  <2> QED BY <2>4, <2>5
<1>4. AskedInv => EveryTrackerAsked BY <1>3 DEF EveryTrackerAsked
<1> QED BY <1>1, <1>2, <1>4, TypesKept, PTL DEF Spec


-----------------------------------------------------------------------------
(* What a UDP tracker hears.                                               *)

NoZero == \A k \in DOMAIN info_hash : info_hash[k] # 0

(* No answer comes to an announce that was not heard; of the history, only *)
(* lists of HTTP trackers remain.                                          *)
HeardInv ==
  /\ pc = "udpannounce" => heard = Hears(BytesCopied)
  /\ ~NoZero => \A d \in inbox : d.action # 1
  /\ ~NoZero => \A k \in DOMAIN taken : taken[k].trans \notin TransIds

LEMMA JoinOK ==
  ASSUME NEW S, NEW s \in Seq(S), NEW t \in Seq(S)
  PROVE  /\ s \o t \in Seq(S) /\ Len(s \o t) = Len(s) + Len(t)
         /\ \A k \in 1 .. Len(s) : (s \o t)[k] = s[k]
         /\ \A k \in 1 .. Len(t) : (s \o t)[Len(s) + k] = t[k]
OBVIOUS

LEMMA PrefixOK ==
  ASSUME NEW S, NEW s \in Seq(S), NEW n \in 0 .. Len(s)
  PROVE  /\ SubSeq(s, 1, n) \in Seq(S) /\ Len(SubSeq(s, 1, n)) = n
         /\ \A k \in 1 .. n : SubSeq(s, 1, n)[k] = s[k]
OBVIOUS

LEMMA PairOK ==
  ASSUME NEW S, NEW s \in Seq(S), NEW m \in 1 .. Len(s) - 1
  PROVE  SubSeq(s, m, m + 1) = <<s[m], s[m + 1]>>
<1> DEFINE p == SubSeq(s, m, m + 1)
           q == <<s[m], s[m + 1]>>
<1>1. p \in Seq(S) /\ Len(p) = 2 /\ \A k \in 1 .. 2 : p[k] = s[m + k - 1]
  <2>1. m \in 1 .. Len(s) + 1 /\ m + 1 \in m - 1 .. Len(s) /\ m + 1 - m + 1 = 2
        /\ m \in Int /\ m + 1 \in Int
    OBVIOUS
  <2>2. \A i, j \in Int : i \in 1 .. Len(s) + 1 /\ j \in i - 1 .. Len(s) =>
          /\ SubSeq(s, i, j) \in Seq(S) /\ Len(SubSeq(s, i, j)) = j - i + 1
          /\ \A k \in 1 .. j - i + 1 : SubSeq(s, i, j)[k] = s[i + k - 1]
    OBVIOUS
  <2>3. /\ p \in Seq(S) /\ Len(p) = m + 1 - m + 1
        /\ \A k \in 1 .. m + 1 - m + 1 : p[k] = s[m + k - 1]
    BY <2>1, <2>2
  <2> QED BY <2>1, <2>3
<1>2. q \in Seq(S) /\ Len(q) = 2 /\ \A k \in 1 .. 2 : q[k] = s[m + k - 1] OBVIOUS
<1> HIDE DEF p, q
<1>3. p = q BY <1>1, <1>2
<1> QED BY <1>3 DEF p, q

Fields == {"peer_id", "downloaded", "left", "uploaded", "event", "ip", "key", "num_want", "port"}

(* num_want is in its place two bytes before the end. *)
LEMMA AfterOK ==
  /\ BytesAfter \in Seq(Fields) /\ Len(BytesAfter) = 62
  /\ BytesAfter[59] = "num_want" /\ BytesAfter[60] = "num_want"
<1> DEFINE t1 == Bytes("peer_id", 20)
           t2 == Bytes("downloaded", 8)
           t3 == Bytes("left", 8)
           t4 == Bytes("uploaded", 8)
           t5 == Bytes("event", 4)
           t6 == Bytes("ip", 4)
           t7 == Bytes("key", 4)
           t8 == Bytes("num_want", 4)
           t9 == Bytes("port", 2)
           s2 == t1 \o t2
           s3 == s2 \o t3
           s4 == s3 \o t4
           s5 == s4 \o t5
           s6 == s5 \o t6
           s7 == s6 \o t7
           s8 == s7 \o t8
           s9 == s8 \o t9
<1>1. /\ Len(t1) = 20 /\ Len(t2) = 8 /\ Len(t3) = 8 /\ Len(t4) = 8 /\ Len(t5) = 4
      /\ Len(t6) = 4 /\ Len(t7) = 4 /\ Len(t8) = 4 /\ Len(t9) = 2
      /\ \A k \in 1 .. 4 : t8[k] = "num_want"
  BY DEF Bytes
<1>2. /\ t1 \in Seq(Fields) /\ t2 \in Seq(Fields) /\ t3 \in Seq(Fields)
      /\ t4 \in Seq(Fields) /\ t5 \in Seq(Fields) /\ t6 \in Seq(Fields)
      /\ t7 \in Seq(Fields) /\ t8 \in Seq(Fields) /\ t9 \in Seq(Fields)
  BY DEF Bytes, Fields
<1>3. BytesAfter = s9 BY DEF BytesAfter
<1> HIDE DEF t1, t2, t3, t4, t5, t6, t7, t8, t9
<1>4. s2 \in Seq(Fields) /\ Len(s2) = Len(t1) + Len(t2) BY <1>2, JoinOK
<1> HIDE DEF s2
<1>5. s3 \in Seq(Fields) /\ Len(s3) = Len(s2) + Len(t3) BY <1>2, <1>4, JoinOK
<1> HIDE DEF s3
<1>6. s4 \in Seq(Fields) /\ Len(s4) = Len(s3) + Len(t4) BY <1>2, <1>5, JoinOK
<1> HIDE DEF s4
<1>7. s5 \in Seq(Fields) /\ Len(s5) = Len(s4) + Len(t5) BY <1>2, <1>6, JoinOK
<1> HIDE DEF s5
<1>8. s6 \in Seq(Fields) /\ Len(s6) = Len(s5) + Len(t6) BY <1>2, <1>7, JoinOK
<1> HIDE DEF s6
<1>9. s7 \in Seq(Fields) /\ Len(s7) = Len(s6) + Len(t7) BY <1>2, <1>8, JoinOK
<1> HIDE DEF s7
<1>10. s8 \in Seq(Fields) /\ Len(s8) = Len(s7) + Len(t8)
       /\ \A k \in 1 .. Len(t8) : s8[Len(s7) + k] = t8[k]
  <2>1. s7 \in Seq(Fields) /\ t8 \in Seq(Fields) BY <1>2, <1>9
  <2> HIDE DEF s8
  <2>2. s8 = s7 \o t8 BY DEF s8
  <2> QED BY <2>1, <2>2, JoinOK
<1> HIDE DEF s8
<1>11. s9 \in Seq(Fields) /\ Len(s9) = Len(s8) + Len(t9)
       /\ \A k \in 1 .. Len(s8) : s9[k] = s8[k]
  <2>1. s8 \in Seq(Fields) /\ t9 \in Seq(Fields) BY <1>2, <1>10
  <2> HIDE DEF s9
  <2>2. s9 = s8 \o t9 BY DEF s9
  <2> QED BY <2>1, <2>2, JoinOK
<1> HIDE DEF s9
<1>12. Len(s7) = 56 /\ Len(s8) = 60 /\ Len(s9) = 62
  BY <1>1, <1>4, <1>5, <1>6, <1>7, <1>8, <1>9, <1>10, <1>11
<1>13. ASSUME NEW k \in 3 .. 4 PROVE s9[56 + k] = "num_want"
  <2>1. s8[56 + k] = t8[k] /\ t8[k] = "num_want" BY <1>1, <1>10, <1>12
  <2> QED BY <1>11, <1>12, <2>1
<1>14. s9[56 + 3] = "num_want" /\ s9[56 + 4] = "num_want" BY <1>13
<1>15. s9[59] = "num_want" /\ s9[60] = "num_want" BY <1>14
<1> QED BY <1>3, <1>11, <1>12, <1>15, Zenon

(* The string ends at the first zero of the hash, or two bytes behind it.  *)
LEMMA CopiedOK ==
  ASSUME info_hash \in Seq(0 .. 255)
  PROVE  /\ NoZero => BytesCopied = info_hash \o <<57, 27>>
         /\ ~NoZero => BytesCopied \in Seq(0 .. 255) /\ Len(BytesCopied) < Len(info_hash)
<1> DEFINE memory == info_hash \o PortBytes
           n == Len(info_hash)
           zeros == { k \in DOMAIN memory : memory[k] = 0 }
           least == CHOOSE k \in zeros : \A j \in zeros : k <= j
<1>1. /\ memory \in Seq(0 .. 255) /\ n \in Nat /\ Len(memory) = n + 4
      /\ \A k \in 1 .. n : memory[k] = info_hash[k]
      /\ memory[n + 1] = 57 /\ memory[n + 2] = 27 /\ memory[n + 3] = 0 /\ memory[n + 4] = 0
  BY DEF PortBytes
<1>2. n + 3 \in zeros /\ zeros \subseteq Nat BY <1>1
<1> HIDE DEF memory
<1>3. least \in zeros /\ \A j \in zeros : least <= j
  <2>1. \E k \in zeros : \A j \in zeros : k <= j BY <1>2, LeastPlace
  <2> QED BY <2>1
<1>4. BytesCopied = SubSeq(memory, 1, least - 1) BY <1>2 DEF BytesCopied, memory
<1>5. least \in 1 .. n + 4 /\ memory[least] = 0 BY <1>1, <1>3
<1> HIDE DEF least
<1>6. CASE NoZero
  <2>1. least = n + 3
    <3>1. ASSUME NEW k \in 1 .. n PROVE k \notin zeros BY <1>1, <1>6 DEF NoZero
    <3>2. n + 1 \notin zeros /\ n + 2 \notin zeros BY <1>1
    <3>3. least <= n + 3 BY <1>2, <1>3
    <3> HIDE DEF zeros, n
    <3>4. least \in 1 .. n \/ least = n + 1 \/ least = n + 2 \/ least = n + 3
      BY <1>1, <1>5, <3>3
    <3> QED BY <1>3, <3>1, <3>2, <3>4
  <2>2. BytesCopied = SubSeq(memory, 1, n + 2) BY <1>1, <1>4, <2>1
  <2>3. SubSeq(memory, 1, n + 2) = info_hash \o <<57, 27>>
    <3> DEFINE s == SubSeq(memory, 1, n + 2)
               e == info_hash \o <<57, 27>>
    <3>1. s \in Seq(0 .. 255) /\ Len(s) = n + 2 /\ \A k \in 1 .. n + 2 : s[k] = memory[k]
      BY <1>1
    <3>2. e \in Seq(0 .. 255) /\ Len(e) = n + 2 /\ e[n + 1] = 57 /\ e[n + 2] = 27
          /\ \A k \in 1 .. n : e[k] = info_hash[k]
      OBVIOUS
    <3>3. ASSUME NEW k \in 1 .. n + 2 PROVE s[k] = e[k]
      <4>1. k \in 1 .. n \/ k = n + 1 \/ k = n + 2 BY <1>1
      <4> QED BY <1>1, <3>1, <3>2, <4>1
    <3> HIDE DEF s, e
    <3> QED BY <3>1, <3>2, <3>3
  <2> QED BY <1>6, <2>2, <2>3
<1>7. CASE ~NoZero
  <2>1. PICK k \in 1 .. n : info_hash[k] = 0 BY <1>7 DEF NoZero
  <2>2. k \in zeros BY <1>1, <2>1
  <2>3. least <= k BY <1>3, <2>2
  <2>4. least - 1 \in 0 .. n - 1 BY <1>1, <1>5, <2>3
  <2>5. BytesCopied \in Seq(0 .. 255) /\ Len(BytesCopied) = least - 1
    <3>1. memory \in Seq(0 .. 255) /\ least - 1 \in 0 .. Len(memory) BY <1>1, <2>4
    <3> QED BY <1>4, <3>1, PrefixOK
  <2> QED BY <1>1, <1>7, <2>4, <2>5
<1> QED BY <1>6, <1>7

(* What is read of an announce: the hash and num_want, or nothing. *)
LEMMA HearsOK ==
  ASSUME info_hash \in Seq(0 .. 255)
  PROVE  /\ Hears(BytesCopied).hash = info_hash <=> NoZero
         /\ Hears(BytesCopied).port \in {<<"num_want", "num_want">>, <<>>}
<1> DEFINE n == Len(info_hash)
           packet == BytesCopied \o BytesAfter
           AnyByte == (0 .. 255) \cup Fields
<1>1. n \in Nat OBVIOUS
<1>2. CASE NoZero
  <2> DEFINE copied == info_hash \o <<57, 27>>
  <2>1. BytesCopied = copied BY <1>2, CopiedOK
  <2>2. /\ copied \in Seq(0 .. 255) /\ Len(copied) = n + 2
        /\ \A k \in 1 .. n : copied[k] = info_hash[k]
    OBVIOUS
  <2> HIDE DEF copied
  <2>3. copied \in Seq(AnyByte) /\ BytesAfter \in Seq(AnyByte) /\ Len(BytesAfter) = 62
    BY <2>2, AfterOK
  <2>4. packet = copied \o BytesAfter BY <2>1
  <2>5. /\ packet \in Seq(AnyByte) /\ Len(packet) = Len(copied) + Len(BytesAfter)
        /\ \A k \in 1 .. Len(copied) : packet[k] = copied[k]
        /\ \A k \in 1 .. Len(BytesAfter) : packet[Len(copied) + k] = BytesAfter[k]
    <3>1. copied \in Seq(AnyByte) /\ BytesAfter \in Seq(AnyByte) BY <2>3
    <3> HIDE DEF packet, AnyByte
    <3> QED BY <2>4, <3>1, JoinOK
  <2> HIDE DEF packet, AnyByte
  <2>6. Len(packet) = n + 64 /\ \A k \in 1 .. n : packet[k] = info_hash[k]
    BY <1>1, <2>2, <2>3, <2>5
  <2>7. packet[n + 61] = "num_want" /\ packet[n + 62] = "num_want"
    <3>1. \A k \in 1 .. 62 : packet[n + 2 + k] = BytesAfter[k]
      BY <1>1, <2>2, <2>3, <2>5
    <3>2. packet[n + 2 + 59] = BytesAfter[59] /\ packet[n + 2 + 60] = BytesAfter[60]
      BY <3>1
    <3>3. n + 2 + 59 = n + 61 /\ n + 2 + 60 = n + 62 BY <1>1
    <3> QED BY <3>2, <3>3, AfterOK
  <2>8. Hears(BytesCopied) = [hash |-> SubSeq(packet, 1, n),
                              port |-> SubSeq(packet, n + 62 - 1, n + 62)]
    BY <1>1, <2>3, <2>6 DEF Hears, packet
  <2>9. SubSeq(packet, 1, n) = info_hash
    <3>1. SubSeq(packet, 1, n) \in Seq(AnyByte) /\ Len(SubSeq(packet, 1, n)) = n
          /\ \A k \in 1 .. n : SubSeq(packet, 1, n)[k] = packet[k]
      <4>1. n \in 0 .. Len(packet) BY <1>1, <2>6
      <4> HIDE DEF n
      <4> QED BY <2>5, <4>1, PrefixOK
    <3> QED BY <1>1, <2>6, <3>1
  <2>10. SubSeq(packet, n + 62 - 1, n + 62) = <<"num_want", "num_want">>
    <3>1. n + 62 - 1 = n + 61 /\ n + 61 + 1 = n + 62 /\ n + 61 \in 1 .. Len(packet) - 1
      BY <1>1, <2>6
    <3>2. SubSeq(packet, n + 61, n + 61 + 1) = <<packet[n + 61], packet[n + 61 + 1]>>
      <4> HIDE DEF n
      <4> QED BY <2>5, <3>1, PairOK
    <3> QED BY <2>7, <3>1, <3>2
  <2> QED BY <1>2, <2>8, <2>9, <2>10
<1>3. CASE ~NoZero
  <2>1. BytesCopied \in Seq(0 .. 255) /\ Len(BytesCopied) < n BY <1>3, CopiedOK
  <2>2. BytesCopied \in Seq(AnyByte) /\ BytesAfter \in Seq(AnyByte) /\ Len(BytesAfter) = 62
    BY <2>1, AfterOK
  <2>3. Len(packet) = Len(BytesCopied) + 62 /\ Len(BytesCopied) \in Nat
    <3>1. BytesCopied \in Seq(AnyByte) /\ BytesAfter \in Seq(AnyByte) BY <2>2
    <3>2. Len(packet) = Len(BytesCopied) + Len(BytesAfter)
      <4> HIDE DEF AnyByte
      <4> QED BY <3>1, JoinOK
    <3> HIDE DEF packet
    <3> QED BY <2>2, <3>2
  <2> HIDE DEF packet
  <2>4. Hears(BytesCopied) = Nothing
    BY <1>1, <2>1, <2>2, <2>3 DEF Hears, packet
  <2>5. info_hash # <<>> BY <1>1, <2>1, <2>3
  <2> QED BY <1>3, <2>4, <2>5 DEF Nothing
<1> QED BY <1>2, <1>3


(* No answer under way, and none taken but before. *)
LEMMA SameHeard ==
  ASSUME HeardInv, UNCHANGED info_hash,
         pc' = "udpannounce" => pc = "udpannounce" /\ UNCHANGED heard,
         inbox' \subseteq inbox, taken' = taken \/ taken' = <<>>
  PROVE  HeardInv'
<1>1. (BytesCopied = BytesCopied' /\ NoZero = NoZero') BY DEF BytesCopied, NoZero
<1>2. Hears(BytesCopied)' = Hears(BytesCopied) BY <1>1 DEF Hears
<1> QED BY <1>1, <1>2 DEF HeardInv

LEMMA TakeHeard ==
  ASSUME HeardInv, taken \in Seq(Replies), NEW reply \in Replies, Take(reply), Return,
         ~NoZero => reply.trans \notin TransIds, UNCHANGED info_hash
  PROVE  HeardInv'
<1>1. NoZero' = NoZero BY DEF NoZero
<1>2. /\ taken' \in Seq(Replies) /\ Len(taken') = Len(taken) + 1
      /\ taken'[Len(taken) + 1] = reply
      /\ \A k \in 1 .. Len(taken) : taken'[k] = taken[k]
  BY DEF Take
<1>3. ASSUME ~NoZero, NEW k \in DOMAIN taken' PROVE taken'[k].trans \notin TransIds
  <2>1. k \in 1 .. Len(taken) \/ k = Len(taken) + 1 BY <1>2
  <2> QED BY <1>2, <1>3, <2>1 DEF HeardInv
<1> QED BY <1>1, <1>3 DEF HeardInv, Return

LEMMA StepHeard == ASSUME TypeInv, HeardInv, [Next]_vars PROVE HeardInv'
<1> USE DEF socketVars, roundVars, Return
<1>1. /\ taken \in Seq(Replies) /\ inbox \subseteq Datagrams
      /\ info_hash \in Seq(0 .. 255)
  BY TrackerAssumption DEF TypeInv, ValuesOK, HistoryOK
<1>2. CASE \/ UNCHANGED vars \/ StartRound \/ StartThreads \/ NoPeersObtained \/ Quiet
           \/ \E t \in Trackers : SkipTracker(t)
  BY <1>2, SameHeard DEF vars, StartRound, StartThreads, NoPeersObtained, Ends, Quiet,
                         SkipTracker
<1>3. ASSUME NEW t \in Trackers, UdpConnect(t) \/ UdpConnectEnds(t) PROVE HeardInv'
  BY <1>3, SameHeard DEF UdpConnect, UdpConnectEnds, Ends
<1>4. CASE UdpAnswer
  <2>1. UNCHANGED <<info_hash, pc, heard, taken>> /\ NoZero' = NoZero
    BY <1>4 DEF UdpAnswer, NoZero
  <2>2. ASSUME ~NoZero PROVE \A d \in inbox' : d.action # 1
    <3>1. pc = "udpannounce" => heard.hash # info_hash BY <1>1, <2>2, HearsOK DEF HeardInv
    <3>2. inbox' = inbox \cup {Connected(trans_id)} \/ inbox' = inbox \cup {Refused(trans_id)}
      BY <1>4, <3>1 DEF UdpAnswer
    <3> QED BY <2>2, <3>2 DEF HeardInv, Connected, Refused
  <2>3. Hears(BytesCopied)' = Hears(BytesCopied) BY <2>1 DEF Hears, BytesCopied
  <2> QED BY <2>1, <2>2, <2>3 DEF HeardInv
<1>5. CASE Lose \/ Timeout BY <1>5, SameHeard DEF Lose, Timeout
<1>6. ASSUME NEW d \in inbox, OnConnected(d) PROVE HeardInv'
  <2>1. CASE pc' = "udpannounce" /\ heard' = Hears(BytesCopied) /\ inbox' \subseteq inbox
    <3>1. UNCHANGED <<info_hash, taken>> BY <1>6 DEF OnConnected
    <3>2. Hears(BytesCopied)' = Hears(BytesCopied) /\ NoZero' = NoZero
      BY <3>1 DEF Hears, BytesCopied, NoZero
    <3> QED BY <2>1, <3>1, <3>2 DEF HeardInv
  <2>2. CASE Return
    BY <1>6, <2>2, SameHeard DEF OnConnected
  <2> QED BY <1>6, <2>1, <2>2 DEF OnConnected, Receive
<1>7. ASSUME NEW d \in inbox, OnAnnounced(d) PROVE HeardInv'
  <2>1. d \in Replies /\ d.action = 1 BY <1>1, <1>7 DEF Datagrams, Replies, OnAnnounced, IsAnnounced
  <2>2. NoZero BY <2>1 DEF HeardInv
  <2> HIDE DEF Return
  <2> QED BY <1>1, <1>7, <2>1, <2>2, TakeHeard DEF OnAnnounced
<1>8. ASSUME NEW d \in inbox, OnOther(d) PROVE HeardInv'
  BY <1>8, SameHeard DEF OnOther
<1>9. ASSUME NEW list \in PeerLists, OnBody(list) PROVE HeardInv'
  <2>1. Body(list) \in Replies BY ListsOK DEF Body, Replies
  <2>2. Body(list).trans \notin TransIds BY TrackerAssumption DEF Body
  <2> HIDE DEF Return
  <2> QED BY <1>1, <1>9, <2>1, <2>2, TakeHeard DEF OnBody
<1>10. CASE HttpExchange /\ ~ \E list \in PeerLists : OnBody(list)
  BY <1>10, SameHeard DEF HttpExchange, HttpConnect, OnNotOk, OnMalformed, OnHold, Ends
<1> QED BY <1>2, <1>3, <1>4, <1>5, <1>6, <1>7, <1>8, <1>9, <1>10
        DEF Next, UdpExchange, HttpExchange

(* For an info hash of any length and any bytes: a UDP tracker hears of    *)
(* the torrent exactly when none of them is zero, and never hears our      *)
(* port; so no peer comes from a UDP tracker for a torrent whose hash has  *)
(* a zero byte (tracker.cpp:92).                                           *)
THEOREM HashHeard == Spec => []AnnounceHeard
<1>1. Init => HeardInv BY DEF Init, HeardInv
<1>2. TypeInv /\ HeardInv /\ [Next]_vars => HeardInv' BY StepHeard
<1>3. ASSUME TypeInv, HeardInv PROVE AnnounceHeard
  <2>1. info_hash \in Seq(0 .. 255) BY <1>3, TrackerAssumption DEF TypeInv, ValuesOK
  <2> QED BY <1>3, <2>1, HearsOK DEF HeardInv, AnnounceHeard, NoZero
<1> QED BY <1>1, <1>2, <1>3, TypesKept, PTL DEF Spec
=============================================================================
