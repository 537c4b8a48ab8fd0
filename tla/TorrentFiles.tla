---------------------------- MODULE TorrentFiles ----------------------------
(***************************************************************************)
(* download_torrent from debian.torrent to its files: MetaInfo parses the  *)
(* metainfo, dirfilecreation opens the files it names, and FileLayout      *)
(* writes and reads them.                                                  *)
(***************************************************************************)
EXTENDS FileLayout, MetaInfo

CONSTANT OldSizes  (* bound: the sizes of files that are there already, 0  *)
                   (* for one that is not                                  *)

ASSUME TorrentFilesAssumption == OldSizes \subseteq Nat

allVars == <<vars, metaVars>>

(* The metainfo has been read, and the torrent has a byte. *)
Start ==
  /\ phase = "ready" /\ trk.length > 0
  /\ LET lengths == IF trk.mode = "SINGLE" THEN <<trk.length>> ELSE trk.length_list
     IN  \E old \in [DOMAIN lengths -> OldSizes] :
           Create(trk.mode, lengths, trk.pieceLength, old)
  /\ phase' = "done"
  /\ Forget

Quiet == /\ \/ phase \in {"rejected", "terminated"}
            \/ phase = "ready" /\ trk.length = 0
            \/ op = "undefined"
         /\ UNCHANGED allVars

Init == ParseInit /\ Blank

Next == \/ ParseNext /\ UNCHANGED vars
        \/ Start
        \/ (Loops \/ Calls) /\ UNCHANGED metaVars
        \/ Quiet

Spec == Init /\ [][Next]_allVars

(* A loop that has begun goes on. *)
FairSpec == Spec /\ WF_allVars(Loops /\ UNCHANGED metaVars)

-----------------------------------------------------------------------------
(* Every variable of both parts holds a value its declaration allows. *)
TypesOK == TypeOK /\ ValuesOK
=============================================================================
