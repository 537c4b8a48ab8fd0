--------------------------- MODULE MCTorrentFiles ---------------------------
(***************************************************************************)
(* TorrentFiles over the metainfo files an author may write: every small   *)
(* torrent written as it should be, a few of them with one or two things   *)
(* wrong, and files cut short.                                             *)
(***************************************************************************)
EXTENDS TorrentFiles

MCKeyOrder == <<"announce", "files", "info", "length", "name", "path", "piece length",
                "pieces">>

Nr(n) == SInt(n, TRUE)
Text(s) == SStr(s, TRUE)
Root(info_) == SDict(<<Entry("announce", Text("url")), Entry("info", info_)>>)
File(n, name) == SDict(<<Entry("length", Nr(n)), Entry("path", SList(<<Text(name)>>))>>)

Single(n, size) ==
  SDict(<<Entry("length", Nr(n)), Entry("name", Text("a")),
            Entry("piece length", Nr(size)), Entry("pieces", Text("hashes"))>>)
Multiple(files_, size) ==
  SDict(<<Entry("files", SList(files_)), Entry("name", Text("t")),
            Entry("piece length", Nr(size)), Entry("pieces", Text("hashes"))>>)

(* One thing wrong with a dictionary. *)
Odd == {Nr(3), Text("x"), SList(<<>>), SDict(<<>>), SInt(3, FALSE), SStr("x", FALSE)}
Without(s, k) == SubSeq(s, 1, k - 1) \o SubSeq(s, k + 1, Len(s))
Swapped(s, k) == [s EXCEPT ![k] = s[k + 1], ![k + 1] = s[k]]
Variations(dict) ==
  LET s == dict.entries
  IN  { SDict(Without(s, k)) : k \in DOMAIN s }
      \cup { SDict(Append(s, s[k])) : k \in DOMAIN s }
      \cup { SDict(Swapped(s, k)) : k \in 1 .. Len(s) - 1 }
      \cup { SDict([s EXCEPT ![k].node = o]) : k \in DOMAIN s, o \in Odd }

Entire(trees) == { [tree |-> t, cut |-> 0] : t \in trees }

Lists == UNION { [1 .. n -> 0 .. 4] : n \in 1 .. 3 }
PlainFiles == { Root(Single(n, 4)) : n \in 0 .. 20 }
         \cup { Root(Multiple([f \in DOMAIN l |-> File(l[f], <<"a", "b", "c">>[f])], 4)) : l \in Lists }

(* Pieces of one block and of three. *)
OtherSizes == { Root(Single(n, size)) : n \in {1, 5, 7}, size \in {2, 6} }
              \cup { Root(Multiple(<<File(3, "a"), File(n, "b")>>, size)) : n \in {2, 4}, size \in {2, 6} }

OddInfos == UNION { Variations(v) : v \in Variations(Single(5, 4)) \cup {Single(5, 4)} }
            \cup Variations(Multiple(<<File(3, "a"), File(2, "b")>>, 4))

OddFiles == { SDict(<<Entry("length", Nr(2)), Entry("path", SList(p))>>) :
                p \in {<<>>, <<Text("t")>>, <<Text("t"), Text("b")>>, <<Text("d"), Text("b")>>,
                      <<Text("d"), Nr(3)>>} }

Varied ==
  { Root(i) : i \in OddInfos }
  \cup { Root(Multiple(<<File(3, "a"), f>>, 4)) : f \in Variations(File(2, "b")) \cup Odd \cup OddFiles }
  \cup Variations(Root(Single(5, 4))) \cup Odd

Cut == { [tree |-> Root(Multiple(<<File(3, "a"), File(2, "b")>>, 4)), cut |-> k] : k \in 1 .. 36 }

MCSources == Entire(PlainFiles \cup OtherSizes \cup Varied) \cup Cut
=============================================================================
