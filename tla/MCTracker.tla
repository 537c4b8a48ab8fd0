----------------------------- MODULE MCTracker ------------------------------
(* Two UDP trackers, of which one is asked although announce-list does not *)
(* name it, two HTTP trackers, of which one is not at trk_info.port, one   *)
(* of a kind the client skips, and a UDP URL that names no port, at which  *)
(* parseMetaFile has stopped reading the list.  The info hash has three    *)
(* bytes, of which one may be zero.                                        *)
EXTENDS Tracker

CONSTANTS u1, u2, u3, h1, h2, x1, ip1, ip2

MCTrackers == {u1, u2, u3, h1, h2, x1}
MCUdp == {u1, u2, u3}
MCHttp == {h1, h2}
MCInfoHashes == {<<200, 7, 3>>, <<200, 0, 3>>, <<200, 7, 0>>, <<0, 7, 3>>}
MCAnnounceLists == {<<u1, x1, h1>>, <<h2, u3>>}
MCPeerLists == {<<>>, << <<ip1, 1>> >>, << <<ip2, 1>>, <<ip1, 2>>, <<ip2, 2>> >>}
=============================================================================
