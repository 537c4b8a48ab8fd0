------------------------------ MODULE MetaInfo ------------------------------
(***************************************************************************)
(* What the program makes of debian.torrent: bencode::decode, which reads  *)
(* the file element by element onto a stack, and parseMetaFile, which      *)
(* takes the geometry of the torrent from the value and encodes the info   *)
(* dictionary again to hash it.  The trackers, which parseMetaFile reads   *)
(* in between, are Tracker's.                                              *)
(*                                                                         *)
(* The file is a sequence of tokens.  An integer or a string has a number  *)
(* and is plain or not: i03e, i-0e, ie and 04:name are taken like i3e,     *)
(* i0e, i0e and 4:name.  There are no negative numbers.  Nothing catches   *)
(* what is thrown outside the two try blocks: the process is terminated.   *)
(***************************************************************************)
EXTENDS Integers, Sequences, FiniteSets, SequencesExt

CONSTANTS
  Sources,   (* bound: the files, a tree and the number of tokens cut off  *)
  Depth,     (* bound: how deep lists and dicts lie in each other          *)
  KeyOrder   (* the keys that occur, in the order of std::map              *)

VARIABLES
  source,    (* history: the file as its author meant it                   *)
  phase,     (* where the main thread is                                   *)
  input,     (* the tokens of the file                                     *)
  pos,       (* begin                                                      *)
  stack,     (* the open lists and dicts, each with its key in the outer   *)
  value,     (* what decode returned                                       *)
  info,      (* the info dictionary, with what operator[] added to it      *)
  info_str,  (* its encoding, of which info_hash is the SHA-1              *)
  trk        (* mode and tracker_info                                        *)

metaVars == <<source, phase, input, pos, stack, value, info, info_str, trk>>

-----------------------------------------------------------------------------
(* The values of bencode::data; a dict has a value or Absent for each key. *)

Names == { KeyOrder[k] : k \in DOMAIN KeyOrder }

Number(n) == [type |-> "integer", n |-> n]
Str(s) == [type |-> "string", s |-> s]
List(items) == [type |-> "list", items |-> items]
Dict(map) == [type |-> "dict", map |-> map]
Absent == [type |-> "none"]
NoEntries == [key \in Names |-> Absent]

Simple == [type : {"integer"}, n : Nat] \cup [type : {"string"}, s : STRING]
ListsOf(V) == [type : {"list"}, items : Seq(V)]
DictsOf(V) == [type : {"dict"}, map : [Names -> V \cup {Absent}]]

ValuesTo[d \in 0 .. Depth] ==
  IF d = 0 THEN Simple
  ELSE Simple \cup ListsOf(ValuesTo[d - 1]) \cup DictsOf(ValuesTo[d - 1])
Values == ValuesTo[Depth]

(* The trees of a file keep what a value forgets: the order of the         *)
(* entries, keys that occur twice, and whether a scalar is plain.          *)
SInt(n, plain) == [type |-> "integer", n |-> n, plain |-> plain]
SStr(s, plain) == [type |-> "string", s |-> s, plain |-> plain]
SList(items) == [type |-> "list", items |-> items]
SDict(entries) == [type |-> "dict", entries |-> entries]
Entry(key, node) == [key |-> key, node |-> node]

Scalars == [type : {"integer"}, n : Nat, plain : BOOLEAN]
           \cup [type : {"string"}, s : STRING, plain : BOOLEAN]
ListTrees(T) == [type : {"list"}, items : Seq(T)]
DictTrees(T) == [type : {"dict"}, entries : Seq([key : Names, node : T])]

TreesTo[d \in 0 .. Depth] ==
  IF d = 0 THEN Scalars
  ELSE Scalars \cup ListTrees(TreesTo[d - 1]) \cup DictTrees(TreesTo[d - 1])
Trees == TreesTo[Depth]

ASSUME MetaInfoAssumption ==
  /\ Depth \in Nat
  /\ KeyOrder \in Seq(STRING)
  /\ \A j, k \in DOMAIN KeyOrder : KeyOrder[j] = KeyOrder[k] => j = k
  /\ {"files", "info", "length", "name", "path", "piece length", "pieces"} \subseteq Names
  /\ Sources \subseteq [tree : Trees, cut : Nat]

Mark(t) == [t |-> t, n |-> 0, s |-> "", plain |-> TRUE]
IntToken(n, plain) == [t |-> "i", n |-> n, s |-> "", plain |-> plain]
StrToken(s, plain) == [t |-> "s", n |-> 0, s |-> s, plain |-> plain]

Enclosed(t, parts) == <<Mark(t)>> \o FlattenSeq(parts) \o <<Mark("e")>>
Named(key, text) == <<StrToken(key, TRUE)>> \o text

Each(f, items) == [k \in DOMAIN items |-> f[items[k]]]
EachNamed(f, entries) ==
  [k \in DOMAIN entries |-> Named(entries[k].key, f[entries[k].node])]

Emit[node \in Trees] ==
  CASE node.type = "integer" -> <<IntToken(node.n, node.plain)>>
    [] node.type = "string"  -> <<StrToken(node.s, node.plain)>>
    [] node.type = "list"    -> Enclosed("l", Each(Emit, node.items))
    [] OTHER                 -> Enclosed("d", EachNamed(Emit, node.entries))

-----------------------------------------------------------------------------
(* encode: scalars plain, and a dict in the order of its map.              *)

Has(node, key) == node.map[key] # Absent

InOrder(f, map) ==
  [k \in DOMAIN KeyOrder |-> LET key == KeyOrder[k]
                             IN  IF map[key] = Absent THEN <<>> ELSE Named(key, f[map[key]])]

Encode[v \in Values] ==
  CASE v.type = "integer" -> <<IntToken(v.n, TRUE)>>
    [] v.type = "string"  -> <<StrToken(v.s, TRUE)>>
    [] v.type = "list"    -> Enclosed("l", Each(Encode, v.items))
    [] OTHER              -> Enclosed("d", InOrder(Encode, v.map))

-----------------------------------------------------------------------------
(* decode: one turn of the loop of basic_decode a step.                    *)

Top == stack[Len(stack)]
InDict == stack # <<>> /\ Top.node.type = "dict"

(* The element of this turn, after the key if the top is a dict. *)
At == IF InDict THEN pos + 1 ELSE pos
Key == IF InDict THEN input[pos].s ELSE ""

Put(node, key, v) ==
  IF node.type = "list" THEN [node EXCEPT !.items = Append(@, v)]
  ELSE [node EXCEPT !.map[key] = v]

(* The value v is complete: it goes into rest's top, or is the root. *)
Complete(rest, key, v) ==
  IF rest = <<>> THEN /\ value' = v
                      /\ phase' = "info"
                      /\ stack' = <<>>
  ELSE /\ stack' = [rest EXCEPT ![Len(rest)].node = Put(@, key, v)]
       /\ UNCHANGED <<value, phase>>

(* An 'e' closes the top. *)
CloseContainer ==
  /\ phase = "decode" /\ pos <= Len(input) /\ input[pos].t = "e" /\ stack # <<>>
  /\ Complete(SubSeq(stack, 1, Len(stack) - 1), Top.key, Top.node)
  /\ pos' = pos + 1
  /\ UNCHANGED <<source, input, info, info_str, trk>>

(* Mutant: a key that is there already is taken again. *)
AnyElement ==
  /\ phase = "decode" /\ pos <= Len(input) /\ input[pos].t # "e"
  /\ InDict => input[pos].t = "s" /\ At <= Len(input)
  /\ input[At].t # "e"

(* There is an element: no key is missing or there twice, and no value. *)
ElementFollows ==
  /\ phase = "decode" /\ pos <= Len(input) /\ input[pos].t # "e"
  /\ InDict => input[pos].t = "s" /\ At <= Len(input) /\ ~Has(Top.node, Key)
  /\ input[At].t # "e"

StoreScalar ==
  /\ ElementFollows /\ input[At].t \in {"i", "s"}
  /\ Complete(stack, Key, IF input[At].t = "i" THEN Number(input[At].n) ELSE Str(input[At].s))
  /\ pos' = At + 1
  /\ UNCHANGED <<source, input, info, info_str, trk>>

OpenContainer ==
  /\ ElementFollows /\ input[At].t \in {"l", "d"}
  /\ stack' = Append(stack, [key |-> Key,
                             node |-> IF input[At].t = "l" THEN List(<<>>) ELSE Dict(NoEntries)])
  /\ pos' = At + 1
  /\ UNCHANGED <<source, phase, input, value, info, info_str, trk>>

(* decode_error: the end of the input, a key that is no string or is there *)
(* twice, an 'e' that closes nothing or stands for a value.                *)
DecodeError ==
  /\ phase = "decode"
  /\ ~ElementFollows
  /\ ~(pos <= Len(input) /\ input[pos].t = "e" /\ stack # <<>>)
  /\ phase' = "rejected"
  /\ UNCHANGED <<source, input, pos, stack, value, info, info_str, trk>>

-----------------------------------------------------------------------------
(* parseMetaFile.                                                          *)

(* operator[] of the map: a key that is missing is added, as the integer 0.*)
Get(node, key) == IF Has(node, key) THEN node.map[key] ELSE Number(0)

InfoOf(v) == IF v.type = "dict" THEN Get(v, "info") ELSE Number(0)

(* Mutant: a missing key is looked up and not added. *)
Found(node, key) == node

(* What operator[] leaves in the map. *)
Touched(node, key) == Put(node, key, Get(node, key))

(* pieceLength, pieces and info_str; what is no dict, integer or string    *)
(* where one is taken throws.                                              *)
ReadInfo ==
  /\ phase = "info"
  /\ LET node == InfoOf(value)
     IN  IF /\ node.type = "dict"
            /\ Get(node, "piece length").type = "integer"
            /\ Get(node, "pieces").type = "string"
         THEN /\ info' = Touched(node, "piece length")
              /\ info_str' = Encode[info']
              /\ trk' = [trk EXCEPT !.pieceLength = Get(node, "piece length").n]
              /\ phase' = "files"
         ELSE /\ phase' = "terminated"
              /\ UNCHANGED <<info, info_str, trk>>
  /\ UNCHANGED <<source, input, pos, stack, value>>

(* The exception of the files section: SINGLE. *)
GiveUpFiles(lengths) ==
  /\ trk' = [trk EXCEPT !.mode = "SINGLE", !.length_list = lengths]
  /\ phase' = "single"

FileList == Get(info, "files")
Readable(f) == /\ f.type = "dict" /\ Get(f, "length").type = "integer"
               /\ Get(f, "path").type = "list"
               /\ \A k \in DOMAIN Get(f, "path").items : Get(f, "path").items[k].type = "string"

(* The components of the path of a file. *)
PathOf(f) == [k \in DOMAIN Get(f, "path").items |-> Get(f, "path").items[k].s]

(* One turn of the loop over "files". *)
ReadFile ==
  /\ phase = "files" /\ FileList.type = "list" /\ Len(trk.path_list) < Len(FileList.items)
  /\ LET f == FileList.items[Len(trk.path_list) + 1]
         lengths == IF f.type = "dict" /\ Get(f, "length").type = "integer"
                    THEN Append(trk.length_list, Get(f, "length").n) ELSE trk.length_list
     IN  IF Readable(f)
         THEN /\ trk' = [trk EXCEPT !.length_list = lengths, !.length = @ + Get(f, "length").n,
                                    !.path_list = Append(@, PathOf(f))]
              /\ UNCHANGED phase
         ELSE GiveUpFiles(lengths)
  /\ UNCHANGED <<source, input, pos, stack, value, info, info_str>>

NameRead == Get(info, "name").s

(* The end of the list, or no list. *)
FilesRead ==
  /\ phase = "files"
  /\ FileList.type = "list" => Len(trk.path_list) = Len(FileList.items)
  /\ IF FileList.type = "list" /\ Get(info, "name").type = "string"
     THEN phase' = "size" /\ trk' = [trk EXCEPT !.name = NameRead]
     ELSE GiveUpFiles(trk.length_list)
  /\ UNCHANGED <<source, input, pos, stack, value, info, info_str>>

(* Mutant: length is added to what the files gave. *)
SingleLength == trk.length + Get(info, "length").n

LengthRead == Get(info, "length").n

ReadSingle ==
  /\ phase = "single"
  /\ IF Get(info, "name").type = "string" /\ Get(info, "length").type = "integer"
     THEN phase' = "size" /\ trk' = [trk EXCEPT !.name = NameRead, !.length = LengthRead]
     ELSE phase' = "terminated" /\ UNCHANGED trk
  /\ UNCHANGED <<source, input, pos, stack, value, info, info_str>>

(* no_of_pieces; with a piece length of 0 it is no number that pieces_disk *)
(* could be resized to.                                                    *)
TakeSize ==
  /\ phase = "size"
  /\ IF trk.pieceLength > 0
     THEN /\ trk' = [trk EXCEPT !.no_of_pieces =
                       (trk.length + trk.pieceLength - 1) \div trk.pieceLength]
          /\ phase' = "create"
     ELSE phase' = "terminated" /\ UNCHANGED trk
  /\ UNCHANGED <<source, input, pos, stack, value, info, info_str>>

(* What dirfilecreation makes no file of: a path of no components has no   *)
(* name for it, and to the file of the torrent's own name, in no directory *)
(* at all, create_directories("") throws.                                  *)
NoDirectory(path) == path = <<>> \/ path = <<trk.name>>

CreateFiles ==
  /\ phase = "create"
  /\ phase' = IF trk.mode = "MULTIPLE" /\ \E k \in DOMAIN trk.path_list : NoDirectory(trk.path_list[k])
              THEN "terminated" ELSE "ready"
  /\ UNCHANGED <<source, input, pos, stack, value, info, info_str, trk>>

-----------------------------------------------------------------------------
NoTrk == [mode |-> "MULTIPLE", pieceLength |-> 0, length |-> 0, length_list |-> <<>>,
          path_list |-> <<>>, name |-> "", no_of_pieces |-> 0]

ParseInit ==
  /\ source \in Sources
  /\ phase = "decode"
  /\ input = SubSeq(Emit[source.tree], 1, Len(Emit[source.tree]) - source.cut)
  /\ pos = 1
  /\ stack = <<>>
  /\ value = Number(0)
  /\ info = Dict(NoEntries)
  /\ info_str = <<>>
  /\ trk = NoTrk

(* parseMetaFile has returned: of its locals nothing is used any more. *)
Forget ==
  /\ source' = [tree |-> SDict(<<>>), cut |-> 0]
  /\ input' = <<>> /\ pos' = 1 /\ stack' = <<>>
  /\ value' = Number(0) /\ info' = Dict(NoEntries) /\ info_str' = <<>>
  /\ trk' = NoTrk

ParseNext == \/ CloseContainer \/ StoreScalar \/ OpenContainer \/ DecodeError
             \/ ReadInfo \/ ReadFile \/ FilesRead \/ ReadSingle
             \/ TakeSize \/ CreateFiles

-----------------------------------------------------------------------------
(* What the author of the file meant.                                      *)

Before(j, k) == \E x, y \in DOMAIN KeyOrder : KeyOrder[x] = j /\ KeyOrder[y] = k /\ x < y

Keys(node) == { node.entries[k].key : k \in DOMAIN node.entries }
Child(node, key) == node.entries[CHOOSE k \in DOMAIN node.entries : node.entries[k].key = key].node

Distinct[node \in Trees] ==
  CASE node.type = "list" -> \A k \in DOMAIN node.items : Distinct[node.items[k]]
    [] node.type = "dict" ->
         /\ \A j, k \in DOMAIN node.entries : node.entries[j].key = node.entries[k].key => j = k
         /\ \A k \in DOMAIN node.entries : Distinct[node.entries[k].node]
    [] OTHER -> TRUE

Canonical[node \in Trees] ==
  CASE node.type = "list" -> \A k \in DOMAIN node.items : Canonical[node.items[k]]
    [] node.type = "dict" ->
         /\ \A k \in 2 .. Len(node.entries) : Before(node.entries[k - 1].key, node.entries[k].key)
         /\ \A k \in DOMAIN node.entries : Canonical[node.entries[k].node]
    [] OTHER -> node.plain

MapOf(f, node) ==
  [key \in Names |-> IF key \in Keys(node) THEN f[Child(node, key)] ELSE Absent]

Meaning[node \in Trees] ==
  CASE node.type = "integer" -> Number(node.n)
    [] node.type = "string"  -> Str(node.s)
    [] node.type = "list"    -> List(Each(Meaning, node.items))
    [] OTHER                 -> Dict(MapOf(Meaning, node))

Whole == source.cut = 0
Decoded == phase \in {"info", "files", "single", "size", "create",
                     "ready"}

(* Every variable holds a value its declaration in the code allows. *)
ValuesOK ==
  /\ phase \in {"decode", "rejected", "terminated", "done"} \/ Decoded
  /\ pos \in 1 .. Len(input) + 1
  /\ \A k \in DOMAIN stack : stack[k].node.type \in {"list", "dict"}
  /\ value.type \in {"integer", "string", "list", "dict"}
  /\ info.type = "dict"
  /\ trk.mode \in {"SINGLE", "MULTIPLE"}
  /\ trk.pieceLength \in Nat /\ trk.length \in Nat /\ trk.no_of_pieces \in Nat
  /\ trk.length_list \in Seq(Nat) /\ Len(trk.path_list) <= Len(trk.length_list)

(* A file is decoded exactly when all of it is there and no dict has a key *)
(* twice, and then to the value that was meant.                            *)
DecodesAsWritten ==
  /\ Decoded => Whole /\ Distinct[source.tree] /\ value = Meaning[source.tree]
  /\ phase = "rejected" => ~(Whole /\ Distinct[source.tree])

(* The info hash is taken from an encoding of the value, not from the      *)
(* bytes of the file: it is the hash all other clients use exactly when    *)
(* the author wrote plain scalars and sorted keys, and gave a piece length *)
(* for operator[] to find.                                                 *)
InfoHashKept ==
  Decoded /\ phase # "info" =>
    LET node == Child(source.tree, "info")
    IN  info_str = Emit[node] <=> Canonical[node] /\ "piece length" \in Keys(node)

Total[k \in 0 .. Len(trk.length_list)] == IF k = 0 THEN 0 ELSE Total[k - 1] + trk.length_list[k]

(* What a download starts with fits together: several files whose lengths  *)
(* add up to the length if all of "files" could be read, else the one      *)
(* length of the file, 0 where it is missing; and never without a piece    *)
(* length.                                                                 *)
TorrentAsWritten ==
  phase = "ready" =>
    LET node == InfoOf(Meaning[source.tree])
        list == Get(node, "files")
    IN  /\ trk.mode = "MULTIPLE" <=>
             list.type = "list" /\ \A k \in DOMAIN list.items : Readable(list.items[k])
        /\ trk.mode = "MULTIPLE" =>
             /\ trk.length_list = [k \in DOMAIN list.items |-> Get(list.items[k], "length").n]
             /\ trk.length = Total[Len(trk.length_list)]
        /\ trk.mode = "SINGLE" => trk.length = Get(node, "length").n
        /\ Has(node, "piece length")
        /\ trk.pieceLength * (trk.no_of_pieces - 1) < trk.length
        /\ trk.length <= trk.pieceLength * trk.no_of_pieces
=============================================================================
