\* Two rounds with two faults each, so that the second finds the list, the
\* map and the sockets the first has left, up to the limit on sockets.
SPECIFICATION FairSpec
CONSTANTS
  u1 = u1
  u2 = u2
  u3 = u3
  h1 = h1
  h2 = h2
  x1 = x1
  ip1 = ip1
  ip2 = ip2
  Trackers <- MCTrackers
  Udp <- MCUdp
  Http <- MCHttp
  PortLess = {u3}
  OtherPort = {h2}
  Announce = u2
  AnnounceLists <- MCAnnounceLists
  Ips = {ip1, ip2}
  Ports = {1, 2}
  PeerLists <- MCPeerLists
  TransIds = {0, 1}
  InfoHashes <- MCInfoHashes
  Faults = {"send", "lost", "dup", "error", "connect", "notok", "malformed", "hold"}
  MaxFaults = 2
  MaxRounds = 2
  FdLimit = 2
INVARIANTS TypeOK MapIsAnswers AnnounceHeard EveryTrackerAsked SocketsAccounted
PROPERTY RoundEnds
