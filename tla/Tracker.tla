------------------------------ MODULE Tracker -------------------------------
(***************************************************************************)
(* One announce after another: the main thread runs handleTracker, which   *)
(* asks every tracker of announce_list in turn, by UDP datagrams or by an  *)
(* HTTP request, and fills peer_ip_port.  Download models the same thread  *)
(* with the answer of the whole round as one step.                         *)
(*                                                                         *)
(* A UDP exchange has its own socket, two requests and a receive timeout   *)
(* of one second: what arrives later goes to a socket that is closed.  An  *)
(* HTTP exchange reads until the tracker closes the connection and has no  *)
(* timeout.  An exception that nobody catches ends the process.            *)
(***************************************************************************)
EXTENDS Integers, Sequences, FiniteSets

CONSTANTS
  Trackers,      (* the announce URLs                                      *)
  Udp, Http,     (* those with "udp", with "http" in their text            *)
  PortLess,      (* those that name no port                                *)
  OtherPort,     (* those whose port is not trk_info.port                  *)
  Announce,      (* trk_info.announce                                      *)
  AnnounceLists, (* trk_info.announce_list as parseMetaFile may leave it   *)
  Ips, Ports,    (* the addresses of peers                                 *)
  PeerLists,     (* bound: the compact lists of <<ip, port>> in replies    *)
  TransIds,      (* bound: what dist(mt) may return                        *)
  InfoHashes,    (* bound: the info hash, a sequence of bytes              *)
  Faults,        (* the faults the trackers and the network may show       *)
  MaxFaults,     (* bound: how many faults happen in a behaviour           *)
  MaxRounds,     (* bound: announces in a behaviour                        *)
  FdLimit        (* sockets the process may have open for trackers         *)

FaultKinds == {"send", "lost", "dup", "error", "connect", "notok", "malformed", "hold"}

ASSUME TrackerAssumption ==
  /\ Udp \cup Http \cup PortLess \cup OtherPort \subseteq Trackers
  /\ Announce \in Trackers
  /\ AnnounceLists \subseteq Seq(Trackers)
  /\ PeerLists \subseteq Seq(Ips \X Ports)
  /\ TransIds # {} /\ TransIds \subseteq Nat
  /\ InfoHashes \subseteq Seq(0 .. 255)
  /\ Faults \subseteq FaultKinds
  /\ MaxFaults \in Nat
  /\ MaxRounds \in Nat
  /\ FdLimit \in Nat

VARIABLES
  announce_list,  (* tracker_info::announce_list                           *)
  a,              (* the position of the loop over it                      *)
  pc,             (* where handleTracker is                                *)
  trans_id,       (* of the request the UDP exchange waits on              *)
  info_hash,      (* url_params::info_hash                                 *)
  heard,          (* history: what a UDP tracker read of the last announce *)
  wire,           (* the tracker has a request that it may still answer    *)
  inbox,          (* datagrams that have reached the socket                *)
  peer_ip_port,   (* pieces::peer_ip_port_map, a function on its keys      *)
  sockets,        (* file descriptors of trackers that are open            *)
  process,        (* "up", or how the process ended                        *)
  given,          (* history: the list as parseMetaFile left it            *)
  asked,          (* history: exchanges begun in this round, by tracker    *)
  taken,          (* history: replies whose lists went into the map        *)
  forgotten,      (* history: exchanges that failed where none is closed   *)
  rounds,         (* history: announces so far                             *)
  faults          (* history: faults so far                                *)

socketVars == <<wire, inbox, sockets, forgotten>>
roundVars == <<announce_list, process, rounds, given, info_hash>>
vars == <<a, pc, trans_id, heard, socketVars, peer_ip_port, roundVars, asked, taken, faults>>

-----------------------------------------------------------------------------
(* The datagrams of the UDP protocol: action 0 answers the connect request *)
(* in 16 bytes, 1 the announce in 20 and 6 per peer, 3 is an error.        *)
Connected(id) == [action |-> 0, trans |-> id, size |-> 16, list |-> <<>>]
Announced(id, list) ==
  [action |-> 1, trans |-> id, size |-> 20 + 6 * Len(list), list |-> list]
Refused(id) == [action |-> 3, trans |-> id, size |-> 26, list |-> <<>>]

(* A reply of an HTTP tracker with the compact list of peers. *)
Body(list) == [action |-> 1, trans |-> -1, size |-> 6 * Len(list), list |-> list]

(* url_params::port, 6969, as the bytes of an int lie in memory. *)
PortBytes == <<57, 27, 0, 0>>

(* Mutant: nothing ends the string. *)
BytesBehind == info_hash \o PortBytes

(* A zero byte ends the string that starts at info_hash; without one it    *)
(* goes on into port, which lies behind.                                   *)
BytesCopied ==
  LET memory == info_hash \o PortBytes
      zeros  == { k \in DOMAIN memory : memory[k] = 0 }
  IN  IF zeros = {} THEN memory
      ELSE SubSeq(memory, 1, (CHOOSE k \in zeros : \A j \in zeros : k <= j) - 1)

Bytes(field, size) == [k \in 1 .. size |-> field]

(* What follows the info hash in an announce. *)
BytesAfter ==
  Bytes("peer_id", 20) \o Bytes("downloaded", 8) \o Bytes("left", 8) \o Bytes("uploaded", 8)
    \o Bytes("event", 4) \o Bytes("ip", 4) \o Bytes("key", 4)
    \o Bytes("num_want", 4) \o Bytes("port", 2)

Nothing == [hash |-> <<>>, port |-> <<>>]

(* A tracker reads each field at its place in the protocol. *)
Hears(bytes) ==
  LET packet == bytes \o BytesAfter
      place  == Len(info_hash) + Len(BytesAfter)
  IN  IF Len(packet) < place THEN Nothing
      ELSE [hash |-> SubSeq(packet, 1, Len(info_hash)),
            port |-> SubSeq(packet, place - 1, place)]

NoPeers == [ip \in {} |-> 0]
Named(list) == { list[k][1] : k \in 1 .. Len(list) }

(* The port a list gives an address the first time it names it. *)
FirstPort(list, ip) ==
  list[CHOOSE k \in 1 .. Len(list) :
         list[k][1] = ip /\ \A j \in 1 .. k - 1 : list[j][1] # ip][2]

(* Mutant: peer_ip_port[ip] = portno. *)
Overwrite(map, list) ==
  [ip \in DOMAIN map \cup Named(list) |->
     IF ip \in Named(list) THEN FirstPort(list, ip) ELSE map[ip]]

(* insert, where find(ip) is the end: the port seen first stays. *)
Merge(map, list) ==
  [ip \in DOMAIN map \cup Named(list) |->
     IF ip \in DOMAIN map THEN map[ip] ELSE FirstPort(list, ip)]

Costs(kind) == /\ kind \in Faults
               /\ faults < MaxFaults
               /\ faults' = faults + 1

(* handleTracker is at the tracker t of its list. *)
At(t) == /\ process = "up" /\ pc = "next"
         /\ a <= Len(announce_list) /\ announce_list[a] = t

(* The exchange returns, and the loop goes on to the next tracker. *)
Return == /\ a' = a + 1
          /\ pc' = "next"
          /\ inbox' = {}
          /\ wire' = FALSE
          /\ heard' = Nothing
          /\ UNCHANGED trans_id

(* Mutant: the socket is closed where it was closed before. *)
ClosedTwice == sockets' = sockets - 2 /\ UNCHANGED forgotten

Closed == sockets' = sockets - 1 /\ UNCHANGED forgotten
NotClosed == forgotten' = forgotten + 1 /\ UNCHANGED sockets

Take(reply) == /\ peer_ip_port' = Merge(peer_ip_port, reply.list)
               /\ taken' = Append(taken, reply)

Ends(how) == /\ process' = how
             /\ UNCHANGED <<a, pc, trans_id, heard, socketVars, peer_ip_port, announce_list,
                            rounds, given, info_hash, taken>>

-----------------------------------------------------------------------------
(* handleTracker. *)

(* Mutant: emplace_back without the find. *)
AppendAlways ==
  /\ process = "up" /\ pc = "loop" /\ rounds < MaxRounds
  /\ announce_list' = Append(announce_list, Announce)
  /\ a' = 1
  /\ pc' = "next"
  /\ asked' = [t \in Trackers |-> 0]
  /\ taken' = <<>>
  /\ rounds' = rounds + 1
  /\ UNCHANGED <<trans_id, heard, socketVars, peer_ip_port, process, given,
                 info_hash, faults>>

(* 900 seconds have passed: announce joins the list unless it is there. *)
StartRound ==
  /\ process = "up" /\ pc = "loop" /\ rounds < MaxRounds
  /\ announce_list' = IF \E k \in 1 .. Len(announce_list) : announce_list[k] = Announce
                      THEN announce_list ELSE Append(announce_list, Announce)
  /\ a' = 1
  /\ pc' = "next"
  /\ asked' = [t \in Trackers |-> 0]
  /\ taken' = <<>>
  /\ rounds' = rounds + 1
  /\ UNCHANGED <<trans_id, heard, socketVars, peer_ip_port, process, given,
                 info_hash, faults>>

(* A URL with neither "udp" nor "http" in it. *)
SkipTracker(t) ==
  /\ At(t) /\ t \notin Udp \cup Http
  /\ a' = a + 1
  /\ UNCHANGED <<pc, trans_id, heard, socketVars, peer_ip_port, roundVars, asked, taken, faults>>

(* No tracker has named a peer: exit(0). *)
NoPeersObtained ==
  /\ process = "up" /\ pc = "next" /\ a > Len(announce_list)
  /\ peer_ip_port = NoPeers
  /\ Ends("exited")
  /\ UNCHANGED <<asked, faults>>

(* handleTracker returns, download_torrent starts a thread for each entry  *)
(* and clears the map.                                                     *)
StartThreads ==
  /\ process = "up" /\ pc = "next" /\ a > Len(announce_list)
  /\ peer_ip_port # NoPeers
  /\ pc' = "loop"
  /\ peer_ip_port' = NoPeers
  /\ taken' = <<>>
  /\ UNCHANGED <<a, trans_id, heard, socketVars, roundVars, asked, faults>>

-----------------------------------------------------------------------------
(* udpTracker. *)

(* stoi of a URL without a port throws, and socket() over the limit makes  *)
(* udpConnect call exit(EXIT_FAILURE).                                     *)
UdpConnectEnds(t) ==
  /\ At(t) /\ t \in Udp
  /\ \/ t \notin PortLess /\ sockets = FdLimit /\ Ends("failed")
     \/ t \in PortLess /\ Ends("terminated")
  /\ UNCHANGED <<asked, faults>>

(* udpConnect and the connect request; where it cannot be sent the socket  *)
(* stays open.                                                             *)
UdpConnect(t) ==
  /\ At(t) /\ t \in Udp \ PortLess /\ sockets < FdLimit
  /\ asked' = [asked EXCEPT ![t] = @ + 1]
  /\ sockets' = sockets + 1
  /\ \/ /\ \E id \in TransIds : trans_id' = id
        /\ pc' = "udpconnect"
        /\ wire' = TRUE
        /\ UNCHANGED <<a, heard, inbox, forgotten, faults>>
     \/ /\ Costs("send")
        /\ forgotten' = forgotten + 1
        /\ Return
  /\ UNCHANGED <<peer_ip_port, roundVars, taken>>

(* The tracker answers the request it has: with what was asked or an       *)
(* error, and with an error if it hears of a torrent it does not have.     *)
UdpAnswer ==
  /\ process = "up" /\ wire
  /\ wire' = FALSE
  /\ \/ /\ pc = "udpconnect"
        /\ inbox' = inbox \cup {Connected(trans_id)}
        /\ UNCHANGED faults
     \/ /\ pc = "udpannounce" /\ heard.hash = info_hash
        /\ \E list \in PeerLists : inbox' = inbox \cup {Announced(trans_id, list)}
        /\ UNCHANGED faults
     \/ /\ inbox' = inbox \cup {Refused(trans_id)}
        /\ IF pc = "udpannounce" /\ heard.hash # info_hash THEN UNCHANGED faults
           ELSE Costs("error")
  /\ UNCHANGED <<a, pc, trans_id, heard, sockets, forgotten, peer_ip_port, roundVars, asked, taken>>

(* The request or its answer is lost, or comes after the timeout. *)
Lose ==
  /\ process = "up" /\ wire
  /\ wire' = FALSE
  /\ Costs("lost")
  /\ UNCHANGED <<a, pc, trans_id, heard, inbox, sockets, forgotten, peer_ip_port, roundVars,
                 asked, taken>>

(* recvfrom takes a datagram, of which the network may have a copy. *)
Receive(d) == \/ inbox' = inbox \ {d} /\ UNCHANGED faults
              \/ inbox' = inbox /\ Costs("dup")

IsConnected(d) == d.size >= 16 /\ d.action = 0 /\ d.trans = trans_id

(* Mutant: the action of the reply is not looked at. *)
IsAnyReply(d) == d.size >= 20 /\ d.trans = trans_id

IsAnnounced(d) == d.size >= 20 /\ d.action = 1 /\ d.trans = trans_id

(* The reply to the connect request: the announce goes out under a new     *)
(* transaction id.                                                         *)
OnConnected(d) ==
  /\ process = "up" /\ pc = "udpconnect" /\ d \in inbox /\ IsConnected(d)
  /\ \/ /\ \E id \in TransIds : trans_id' = id
        /\ pc' = "udpannounce"
        /\ heard' = Hears(BytesCopied)
        /\ wire' = TRUE
        /\ Receive(d)
        /\ UNCHANGED <<a, sockets, forgotten>>
     \/ Costs("send") /\ Closed /\ Return
  /\ UNCHANGED <<peer_ip_port, roundVars, asked, taken>>

OnAnnounced(d) ==
  /\ process = "up" /\ pc = "udpannounce" /\ d \in inbox /\ IsAnnounced(d)
  /\ Take(d) /\ Closed /\ Return
  /\ UNCHANGED <<roundVars, asked, faults>>

(* Any other datagram: "Problem with Tracker". *)
OnOther(d) ==
  /\ process = "up" /\ d \in inbox
  /\ \/ pc = "udpconnect" /\ ~IsConnected(d)
     \/ pc = "udpannounce" /\ ~IsAnnounced(d)
  /\ Closed /\ Return
  /\ UNCHANGED <<peer_ip_port, roundVars, asked, taken, faults>>

(* Mutants: no close where nothing came; another receive instead. *)
TimeoutNotClosed ==
  /\ process = "up" /\ pc \in {"udpconnect", "udpannounce"} /\ ~wire /\ inbox = {}
  /\ Return
  /\ UNCHANGED <<sockets, forgotten, peer_ip_port, roundVars, asked, taken, faults>>

ReceiveAgain ==
  /\ process = "up" /\ pc \in {"udpconnect", "udpannounce"} /\ ~wire /\ inbox = {}
  /\ UNCHANGED vars

(* Nothing came for a second. *)
Timeout ==
  /\ process = "up" /\ pc \in {"udpconnect", "udpannounce"} /\ ~wire /\ inbox = {}
  /\ Closed /\ Return
  /\ UNCHANGED <<peer_ip_port, roundVars, asked, taken, faults>>

-----------------------------------------------------------------------------
(* httpTracker. *)

(* tcpConnect to trk_info.port and the GET.  A connect that fails leaves   *)
(* its socket open; the rest then fails on the value it returned.          *)
HttpConnect(t) ==
  /\ At(t) /\ t \in Http \ Udp
  /\ asked' = [asked EXCEPT ![t] = @ + 1]
  /\ \/ /\ t \notin PortLess \cup OtherPort /\ sockets < FdLimit
        /\ sockets' = sockets + 1
        /\ pc' = "http"
        /\ UNCHANGED <<a, trans_id, heard, wire, inbox, forgotten, faults>>
     \/ /\ IF t \in PortLess \cup OtherPort THEN UNCHANGED faults ELSE Costs("connect")
        /\ sockets < FdLimit
        /\ sockets' = sockets + 1
        /\ forgotten' = forgotten + 1
        /\ Return
     \/ /\ sockets = FdLimit
        /\ Return
        /\ UNCHANGED <<sockets, forgotten, faults>>
  /\ UNCHANGED <<peer_ip_port, roundVars, taken>>

(* The tracker answers 200 OK with a compact list and closes. *)
OnBody(list) ==
  /\ process = "up" /\ pc = "http"
  /\ Take(Body(list)) /\ Closed /\ Return
  /\ UNCHANGED <<roundVars, asked, faults>>

(* Any other status, or none: the function returns before its close. *)
OnNotOk ==
  /\ process = "up" /\ pc = "http"
  /\ Costs("notok")
  /\ NotClosed /\ Return
  /\ UNCHANGED <<peer_ip_port, roundVars, asked, taken>>

(* 200 OK without Content-Length, with a body cut short, with a "failure   *)
(* reason", or with the list of dictionaries that "&compact=0" asks for:   *)
(* stoi, decode or std::get throws.                                        *)
OnMalformed ==
  /\ process = "up" /\ pc = "http"
  /\ Costs("malformed")
  /\ Ends("terminated")
  /\ UNCHANGED asked

(* The tracker keeps the connection open, and recv waits for ever. *)
OnHold ==
  /\ process = "up" /\ pc = "http"
  /\ Costs("hold")
  /\ pc' = "held"
  /\ UNCHANGED <<a, trans_id, heard, socketVars, peer_ip_port, roundVars, asked, taken>>

-----------------------------------------------------------------------------
Init ==
  /\ announce_list \in AnnounceLists
  /\ given = announce_list
  /\ a = 1
  /\ pc = "loop"
  /\ trans_id \in TransIds
  /\ info_hash \in InfoHashes
  /\ heard = Nothing
  /\ wire = FALSE
  /\ inbox = {}
  /\ peer_ip_port = NoPeers
  /\ sockets = 0
  /\ process = "up"
  /\ asked = [t \in Trackers |-> 0]
  /\ taken = <<>>
  /\ forgotten = 0
  /\ rounds = 0
  /\ faults = 0

(* The process ended, hangs, or has made all the rounds of the bound. *)
Quiet == /\ process # "up" \/ pc = "held" \/ (pc = "loop" /\ rounds = MaxRounds)
         /\ UNCHANGED vars

UdpExchange == \/ \E t \in Trackers : UdpConnect(t) \/ UdpConnectEnds(t)
               \/ UdpAnswer \/ Lose
               \/ \E d \in inbox : OnConnected(d) \/ OnAnnounced(d) \/ OnOther(d)
               \/ Timeout

HttpExchange == \/ \E t \in Trackers : HttpConnect(t)
                \/ \E list \in PeerLists : OnBody(list)
                \/ OnNotOk \/ OnMalformed \/ OnHold

Next == \/ StartRound
        \/ \E t \in Trackers : SkipTracker(t)
        \/ UdpExchange
        \/ HttpExchange
        \/ NoPeersObtained
        \/ StartThreads
        \/ Quiet

Spec == Init /\ [][Next]_vars

(* The main thread is scheduled; a tracker outside its faults answers. *)
FairSpec == Spec /\ WF_vars(Next)

-----------------------------------------------------------------------------
ValuesOK ==
  /\ announce_list \in Seq(Trackers)
  /\ a \in 1 .. Len(announce_list) + 1
  /\ pc \in {"loop", "next", "udpconnect", "udpannounce", "http", "held"}
  /\ trans_id \in TransIds
  /\ info_hash \in InfoHashes
  /\ DOMAIN heard = {"hash", "port"}
  /\ \A d \in inbox : d.action \in {0, 1, 3} /\ d.trans \in TransIds /\ d.size \in Nat
  /\ DOMAIN peer_ip_port \subseteq Ips
  /\ \A ip \in DOMAIN peer_ip_port : peer_ip_port[ip] \in Ports
  /\ sockets \in 0 .. FdLimit
  /\ process \in {"up", "exited", "failed", "terminated"}
  /\ asked \in [Trackers -> Nat]
  /\ forgotten \in Nat
  /\ rounds \in 0 .. MaxRounds
  /\ faults \in 0 .. MaxFaults

(* Every variable holds a value its declaration in the code allows. *)
TypeOK == ValuesOK /\ wire \in BOOLEAN

(* The lists taken in this round that name an address, and the first one.  *)
Naming(ip) == { k \in 1 .. Len(taken) : ip \in Named(taken[k].list) }
FirstNaming(ip) == CHOOSE k \in Naming(ip) : \A j \in Naming(ip) : k <= j

(* The map holds the addresses that the answers to the announces of this   *)
(* round named, and no other, each at the port it had when it was named    *)
(* first; no second copy of the reply to a connect request and no error    *)
(* was taken for an answer, whatever its transaction id.                   *)
MapIsAnswers ==
  /\ \A k \in 1 .. Len(taken) : taken[k].action = 1
  /\ DOMAIN peer_ip_port = { ip \in Ips : Naming(ip) # {} }
  /\ \A ip \in DOMAIN peer_ip_port :
       peer_ip_port[ip] = FirstPort(taken[FirstNaming(ip)].list, ip)

(* The info hash is appended to the announce as a C string                 *)
(* (tracker.cpp:92), and what follows it is read where that string ends: a *)
(* UDP tracker hears of this torrent exactly when its hash has no zero     *)
(* byte, and it never reads the port of this client, but of num_want, or   *)
(* nothing at all.  So the peers that UDP trackers name are those of       *)
(* torrents without a zero byte.                                           *)
AnnounceHeard ==
  /\ pc = "udpannounce" =>
       /\ heard.hash = info_hash <=> \A k \in DOMAIN info_hash : info_hash[k] # 0
       /\ heard.port \in {<<"num_want", "num_want">>, <<>>}
  /\ \A k \in DOMAIN taken :
       taken[k].trans \in TransIds => \A j \in DOMAIN info_hash : info_hash[j] # 0

Occurrences(t) == Cardinality({ k \in 1 .. Len(given) : given[k] = t })

(* However the others failed, a round has asked every tracker as often as  *)
(* the metainfo lists it, and the one under `announce' at least once.      *)
EveryTrackerAsked ==
  rounds > 0 /\ (pc = "loop" \/ process = "exited") =>
    \A t \in Udp \cup Http :
      asked[t] = IF t = Announce /\ Occurrences(t) = 0 THEN 1 ELSE Occurrences(t)

(* Only two failures leave a socket open behind the exchange: a connect    *)
(* request that could not be sent, and an HTTP exchange without 200 OK.    *)
SocketsAccounted ==
  sockets = forgotten + IF pc \in {"loop", "next"} THEN 0 ELSE 1

(* A round comes to its end, unless an HTTP tracker holds the connection.  *)
RoundEnds == pc # "loop" ~> pc \in {"loop", "held"} \/ process # "up"
=============================================================================
