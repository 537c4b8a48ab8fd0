# A TLA+ model of BitTorrent-CLI

BitTorrent-CLI is a command-line BitTorrent client in C++. It opens
`debian.torrent`, asks the trackers for peers every 15 minutes, starts a thread
for each peer, and the threads fetch pieces from a shared queue and write them
to shared files. This directory holds TLA+ modules translated from that code,
TLC configurations that check them on small instances, and TLAPS proofs about
the modules for every value of the constants.

Line numbers are those of the files under `src/`.

## The system

| part | code | state it keeps | operations |
|---|---|---|---|
| main loop | `download.cpp` | `latestcall`, the vector of threads, the map of peers | announce, start a thread per peer, clear the map |
| peer thread | `peer.cpp` | `peer_info` and locals such as `piece_no`, one set per thread | handshake, INTERESTED, the download loop, farewell |
| shared state | `global.hpp`, `struct pieces`, `url_params` | `pieces_to_download`, `havemesslist`, `downloaded` (behind `threadlock`, with exceptions), `pieces_disk`, `no_of_blocks` (never locked) | push, pop, count, mark |
| message handler | `messageHandling.cpp` | fields of `peer_info` | one case per message |
| files | `helper.cpp`, `messagesCreate.cpp` | the `fstream`s, one per file, shared by all threads | write a piece, read a block |
| tracker client | `tracker.cpp`, `udpConnection.cpp`, `tcpConnection.cpp` | `announce_list`, sockets, the map being filled | a round over all trackers, UDP and HTTP exchanges |
| metainfo | `helper.cpp` | `tracker_info` | parse once, at the start |
| peer connection | `nonblocktcp.cpp` | a socket | connect with a timeout of three seconds |
| upload server | `server.cpp`, `messageHandlingServer.cpp` | a listening socket; `recvmes`, `sendmes`, `no_of_havesent` of an upload | greet a peer, answer its REQUESTs, send it HAVEs; nothing accepts, so nothing calls it yet |
| codecs | `trackerurlcreation.cpp`, `messagesCreate.cpp` | none | numbers, bitfield, URL |
| bencode | `bencode.hpp` | a stack while decoding | decode, encode; vendored |

The main thread calls the tracker client, which fills the map of peers, and
passes every entry to a thread. The threads share the queue, the counter, the
HAVE list, the bitfield and the files; they never talk to each other otherwise.
Nothing is read back from disk after a restart: there is no crash recovery.

What makes it hard:

* A piece leaves the queue when a thread pops it, and has to come back on each
  of six ways out (the peer lacks it, two kinds of failed send, a FAILURE of the
  receive, a wrong size, a wrong hash), and on none other.
* The lock protects single operations. "Is the queue empty" and "pop" are two
  (three, with `whileStatus`) critical sections; so several threads can pop the
  last piece, and one of them pops an empty deque.
* The `fstream` is shared without a lock: a seek of one thread can come between
  the seek and the write of another. A REQUEST served while downloading reads
  from the same stream, and a read past the end stops all later writes.
* Blocks are filed by offset only, and `block_placeholder` survives a failed
  batch: late and stray blocks mix with those of the piece being fetched.
* Peers and trackers are late, silent, garbled, or gone.
* A receive ends by the clock, not by a message: what it cuts is thrown away, and
  the rest of the stream is read from the middle of a message.
* An upload reads from the stream the threads write to, and tells its peer what
  they complete, from two places with a gap between them.
* Offsets are products of `int`s, and a global that one function resets to 16.
* The test of two minutes of silence sits behind five `continue`s.

What makes each part correct:

* queue and counter: each piece in exactly one place; the counter means what
  ends the download takes it to mean; no thread is left behind.
* files: what is counted is in its place; nothing is anywhere else.
* announcements: HAVE and the bitfield never run ahead of the files, and every
  peer that is kept hears of every piece.
* sessions: the stream of a peer is read in step or the session is told; every
  session of a peer that talks ends; a descriptor has an owner.
* uploads: the peer gets the block it asked for and hears of every piece.
* metainfo: what the author meant, with the info hash of everyone else, or none.
* trackers: every tracker is asked in every round, the map is exactly what they
  answered, no socket is lost silently, the round ends.

## The modules

| module | models | composed with |
|---|---|---|
| `PieceLedger` | the abstract specification: a piece is to do, in a hand or done | implemented by `Download` |
| `Download` | main loop, peer threads, message handler, one shared stream | instantiates `PieceLedger` |
| `BlockPlan` | the request loop and the size test for every length of the last piece | one thread of `Download` in detail |
| `FileLayout` | `dirfilecreation`, `writePieceToFile`, `createPieceMessage` over several files | the stream of `Download` in detail |
| `MetaInfo` | `bencode::decode`, `bencode::encode`, `parseMetaFile` | |
| `TorrentFiles` | from the metainfo file to the torrent's files | extends both: the one, then the other |
| `Session` | `tcpconnectNB`, the receives, `processMessage` cutting a stream into messages | a session of `Download` in detail |
| `Upload` | `uploadToPeer`, `processMessageServer`, `createBitfieldMessage` | extends `Download`: an upload beside its threads |
| `Tracker` | `handleTracker`, `udpTracker`, `httpTracker` | the announce of `Download` in detail |
| `DownloadProofs`, `PieceLedgerProofs`, `SessionProofs`, `TrackerProofs`, `BlockPlanProofs`, `LayoutProofs`, `TorrentFilesProofs`, `UploadProofs` | theorems and proofs | |
| `MC...` | the instances for TLC | |

### Download

The variables are the fields of `pieces` and `url_params` under their own names,
`file`, `fpos` and `ffail` for the stream (contents, position, failbit), and for
each thread `pc`, `piece_no` and `peerdata` (the `peer_info` with the locals the
control depends on). `undefined` and `displaced` are history variables.

A step is what happens between two points where another thread can see or change
what the step uses: a critical section, a call on the stream, a received
message, a send, the end of a receive. The critical section that counts a piece
(`peer.cpp:414-417`) is two steps, for `downloaded` is read without the lock at
`peer.cpp:83` and `download.cpp:117`, and such a read can fall between its two
statements. While a thread is there (`~Unlocked`) no other critical section begins.

| action | code |
|---|---|
| `MainAnnounce`, `TrackersAnswer`, `TrackersSilent`, `Spawn`, `SpawnedAll` | `download.cpp:113-131`, `tracker.cpp:258-262` |
| `Connect`, `HelloDone`, `HelloSilent`, `SendInterested`, `InterestedDone` | `peer.cpp:77-248` |
| `OnKeepAlive` ... `OnRequest`, `ServeBlock` | the cases of `processMessage` |
| `WhileStatus`, `CheckQueue`, `TakePiece` | `peer.cpp:251-295`, the three critical sections |
| `SendRequests`, `BatchDone` | a turn of the request loop, `peer.cpp:301-366` |
| `Assemble` | `block_piece`, size and hash, `peer.cpp:375-411` |
| `SeekPiece`, `WritePiece` | the two calls on the stream, `helper.cpp:143-144` |
| `CountPiece`, `ListPiece` | lock and `downloaded++`, then `push_back` and unlock, `peer.cpp:414-417` |
| `MarkPiece` | `pieces_disk`, without the lock, `peer.cpp:418-439` |
| `ReturnPiece` | every `push_back(piece_no)` after a pop |
| `Farewell`, `Close` | `peer.cpp:446-472` |
| `Crash` | what undefined behaviour may do to the process |

Abstractions. A block is the number of the piece it belongs to, or `Junk`; the
SHA-1 of a piece is right iff every block is the piece's (no collisions). A
message is an action; a receive ends with the status `processMessage` returns,
and FAILURE can come at any point (garbled or cut messages). Time is the two
facts the code asks for: more than 900 s since the announce (`due`), more than
120 s since `latest_comms` (`idle`). The order of the bytes that two threads
write to the stream in the same instant is not modelled below the call.
INTERESTED, NOT_INTERESTED, CANCEL and PORT change nothing that is read.

Undefined behaviour is a choice. `front()` of an empty deque returns any
integer: a piece number or `Wild`, which is no piece number. `pop_front()` then
leaves the start of the deque past its finish (`deficit`), so that an item
pushed next is lost, as libstdc++ does while no node boundary is crossed; or the
process crashes. The uninitialised `piece_no` at `peer.cpp:213` is any integer
too. The properties of the queue and the counter are stated for behaviours in which
none of this has happened (`~undefined`), those of the file, the bitfield and the
HAVEs without that condition, and the runs `winds_down` and `false_end` show what comes
after.

Faults. Everything the network or a peer can do out of order costs one of
`MaxFaults`, and each run names the kinds it allows in `Faults`: a failed
connect, a connection closed before INTERESTED (`hangup`), a failed send after
it, a garbled receive, a late answer to INTERESTED, an incomplete
batch, CHOKE, a peer that lacks pieces, a stray block, a REQUEST, two minutes of
silence, a round of trackers that ends the process.

### PieceLedger

`todo`, `hand`, `done`: `Take`, `GiveBack`, `Complete`. The refinement mapping
in `Download` is: `todo` the pieces in the queue, `hand[w]` the piece of a
thread from its pop to the count or the push, `done` the pieces in
`havemesslist`. Once a value nobody wrote has been used as a piece number the
ledger promises nothing (`broken`).

### BlockPlan

One thread and one peer, and the arithmetic of `peer.cpp:301-316` and `382-405`
for every length of the torrent: which blocks are asked for with which sizes,
what `blocker` holds after the loop, which pieces pass the size test.
`requested` is what `peer_send_str` has asked for so far, in all batches, since
it is not emptied between them.

A request is a step (`Request`), and so is the end of a batch (`SendBatch`): the
loop reads the global `no_of_blocks` again before each of its turns.
`OtherWrites` is `helper.cpp:139`, executed by any other thread: from then on the
loop goes up to 16 blocks, whatever the torrent's pieces have. It may come between
any two requests, and between the test of the outer loop and a batch, which then
has no block.

### MetaInfo, FileLayout and TorrentFiles

`MetaInfo` decodes a file, a sequence of tokens, one turn of the loop of
`basic_decode` a step, then does what `parseMetaFile` does with the value: which
of its exceptions end the process, which only make the torrent a single file,
and what `operator[]` adds to the dictionary before it is encoded for the hash.
A token is plain or not: `decode` reads `i03e` as 3, and `encode` writes it `i3e`.
The trees a file is written from keep the order of keys and keys that occur
twice; `Meaning` is the value their author meant, the reference for `decode`.
`CreateFiles` is what can still go wrong between the parse and the download, in a
torrent of several files: a path that is the torrent's own name leaves nothing for
`create_directories`, which throws, and a path without a component ends in `at`.
A dictionary is a value or `Absent` for each key of `KeyOrder`, which is the order
of `std::map`; `Emit`, `Meaning` and `Encode` are functions defined by recursion over
the values that are at most `Depth` deep. A number is a natural number.

`FileLayout` has the search for the first file, the loop that cuts a piece at
the ends of files, and the loop that reads a block across them, a turn a step.
`HardBlocks` is the 16 of `helper.cpp:139` and `143`; `IntLimit` is 2^31, and
`FirstByte` is the product as an `int` of the build holds it, wrapped. A
seek to a negative offset sets failbit. `len_culmulative` are the sums of the
lengths, as `parseMetaFile` keeps them. `Create` opens a file that is there already
as it is: the bytes it had before are a `Hole` like those a file never got, for
neither holds anything this run wrote, and such a file may be shorter or longer
than its length in the torrent. `LayoutSpec` is any torrent with a byte,
opened once, under any calls, and is what the proofs are about; `TorrentFiles`
takes its torrents from their metainfo, and each of its steps on these variables
is one of `LayoutNext` (its `Start` is a `Create` with the metainfo's values).

`TorrentFiles` runs one after the other: `Start` is the point where
`dirfilecreation` has opened the files that the metainfo names.

### Session

One thread, session after session, over a stream of cells, two to a message:
the bytes before and after the place where a receive may cut it. `wire` is what
the peer has sent, `buffer` what a receive has taken, `link` the peer's end. A
receive takes a prefix of the wire; it ends by the clock, so that less than all
of it is the fault `late`. `Handle`, `ReturnSuccess`, `ReturnFailure`,
`ReturnBitfieldFailure` are the turns and returns of `processMessage`; `After` is
what each of its three callers does with the status. Where the stream is out of
step (`~Aligned`) any bytes are read as a length and an id, and everything that
can come of it is a choice (`MisreadReturn`, `MisreadMessage`, `MisreadStops`).
`trace` is history: what went wrong in this session so far. `fds` counts the
descriptors open for peers; `ConnectFails` returns without closing its own.

`Download` abstracts this: a receive there ends with any of the three statuses,
and any blocks may have come.

### Upload

`Upload` extends `Download` with one upload: `uploadToPeer` takes its count under
the lock, builds the bitfield without it, sends both, receives until the peer
stops sending (there is no timeout), and then goes round: the messages in
`recvmes`, the HAVEs under the lock, a send, a receive, the two minutes. No code
calls it: the accept at `download.cpp:101-103` is a comment. It is modelled in a
thread of its own, as its use of `threadlock` presumes. `ByteOf` is
`createBitfieldMessage`: the eight bits of a byte are written as decimal digits
and read by `stoull(temp, 0, 10)`. `learnt` is history: the pieces the peer takes us
to have, those whose thread was about to mark them when its bitfield was built, and
whether base 10 spoiled it. `link` tells apart what a send does to a peer
that stopped sending, closed, or reset. `peerd`, which nothing initialises, may
have any value at the test that ends an upload.

### Tracker

Every tracker of `announce_list` in turn. A UDP exchange is a connect request, a
reply, an announce, a reply, each with a timeout of one second; `inbox` holds
what has reached its socket. An HTTP exchange is a connect, a GET and a read to
the end. `PortLess` and `OtherPort` are URLs the code handles in its own way
(`stoi` throws on a UDP URL that names no port; HTTP trackers are all contacted
at the port of `announce`). Transaction ids come from a set of two, so that a
reply to one request can match the next by chance. `BytesCopied` is the string
made of `info_hash` at `tracker.cpp:92`, up to a zero byte in it or in `port`
behind it (`PortBytes`, the 6969 of `download.cpp:86`), and `Hears` what a tracker
reads at the places of the protocol.

## The runs

| run | instance | shows |
|---|---|---|
| `solo` | 1 thread, 3 pieces, 2 blocks, batches of 1, 2 faults of 10 kinds, fairness | `TypeOK`; `CountedStored`: a counted piece is in the file block for block, whatever blocks of other pieces came in between; `Completes`: the download comes to its end over any number of reconnections, unless a fault ended the process or cost a thread its peer's bitfield |
| `pair` | 2 threads, 2 pieces, 1 fault of 5 kinds | `NoPieceLost`, `NoPieceTwice`, `Accounts`, `CompleteMeansAll`, `StoredUnlessDisturbed`, and the refinement `KeepsLedger` |
| `winds_down` | 2 threads, 1 piece, a pop of an empty deque, 1 fault, fairness | `WindsDown`; `BitfieldFollowsCount` also after undefined behaviour; `FarewellTellsAll` |
| `session` | 3 sessions, 2 descriptors, 3 blocks in batches of 2, 3 faults of 9 kinds, fairness | `LossOfStepIsTold`, `FailureHasCause`, `SpinsOnlyAfterLoss`, `SocketsAccounted`, `SessionSettles` |
| `upload` | an upload with 4 conversations beside 1 thread with 2 pieces, fairness | `PeerLearnsAll`, `BitfieldReadAsMeant`, `BlockServed`, `UploadEnds` |
| `layout` | some 900 metainfo files; of those that are right, every torrent of up to 3 files of up to 4 bytes, pieces of 1 to 3 blocks, offsets past the width of an `int` | `DecodesAsWritten`, `InfoHashKept`, `TorrentAsWritten`, `NothingMisplaced`, `PiecesStored`, `BlockSent`, `LoopsEnd` |
| `block_plan` | every length of the last piece, several numbers of blocks in a piece beside the hard one, other threads' writes at any time | `CoversPiece`, `WrittenIfFinishable`, `SixteenBlocks` |
| `tracker` | 6 trackers, 2 rounds, 2 faults, 2 sockets, hashes with and without a zero byte, fairness | `MapIsAnswers`, `AnnounceHeard`, `EveryTrackerAsked`, `SocketsAccounted`, `RoundEnds` |

What some of them show of the code, beyond that it holds:

* `AnnounceHeard`: no UDP tracker ever reads this client's port. With a zero byte
  in the hash the announce is too short; without one two bytes of `port` are
  copied behind the hash, and what stands at the place of the port is `num_want`.
* `BitfieldReadAsMeant`: the bitfield of `createBitfieldMessage` is right exactly
  when no piece at one of the places 2, 4, 5 or 6 of its byte is on the disk.
* `PiecesStored`: a torrent whose pieces do not have 16 blocks, or one past 2 GiB,
  is never all in its files, though every piece was written and counted.
* `InfoHashKept`: a metainfo that is not canonical gets another torrent's hash.
* `SpinsOnlyAfterLoss`: a session that lost the bitfield in a FAILURE behind the
  handshake goes on (`peer.cpp:186`) and pops and pushes for ever.
* `SocketsAccounted`: each connect that fails costs a descriptor for good.
* `UploadEnds` has no case for a peer that closes when nothing is left to say:
  each turn takes `latest_comms`, and the thread turns for ever.

Four runs are expected to find a violation: the code does something else than
one of its comments, or than the documentation, says.

| run | what the code says | what TLC finds |
|---|---|---|
| `left` | `download.cpp:87`, `left` "has to be updated after each piece" | it never is |
| `false_end` | `peer.cpp:254`, an empty queue and a full counter are a complete download | two threads pop the last piece; the second gets a number that was popped before and counts it twice |
| `have_to_all` | `peer.cpp:421`, HAVE goes "TO ALL THE PEERS" | a thread whose peer lacks the remaining pieces sends none, for ever: the `continue` at 294 skips the sends, and the test of two minutes of silence too |
| `short_piece` | `README.md:2`, the version 1 specification | a short last piece is put back although it came whole, unless its short block is in the last batch (`isLastPiece==1` at 309) |

`debian.torrent` has 2512 whole pieces of 16 blocks in one file of less than
2 GiB, so none of the short piece, the 16 of `helper.cpp:139` and the width of an
`int` is met with it.

### Why the bounds are enough

* Two threads: every hazard between threads is between a pair of steps of two
  threads on the same piece, queue or stream. Any number of threads is the
  subject of the proofs.
* Two pieces: one counted or lost while another is in a hand. Three in `solo`,
  where a piece can be fetched after two others have left blocks behind.
* Two blocks in batches of one where a batch can fail in the middle of a piece;
  one block where only whole pieces matter.
* One fault at a time between two threads: each of the ways out of a piece is
  one fault. `solo` combines two.
* `MaxDeficit`, pops of an empty deque: 0 keeps the process from going on after
  one (it then crashes), 1 lets it. More only loses more items.
* `MaxPeers`, peers an announce returns: with 1 a second thread comes from a
  second announce, while the first still runs.
* Two rounds of trackers: the second finds the list, the map and the sockets the
  first has left. `FdLimit` 2 is reached within them.
* Lengths up to two pieces (`block_plan`): the last piece is the first one or not,
  and every remainder occurs; the last batch is shorter than the others.
* Three files of up to four bytes: a piece over two ends of files, empty files
  at each end and in the middle, files that end with a piece. One file of up to
  20 bytes with an `int` of four bits: pieces before and after the offset wraps,
  and again after it has come round.
* Files that are there already have 1 byte or 6 (`OldSizes`; 0 is a new one):
  shorter and longer than what the torrent has for them.
* `Depth` 5: the values of the keys `files` and `path` of a metainfo lie that deep.
* The metainfo files: one thing wrong with a right one, at every place, and two
  things wrong with a single file; every place where a file can be cut.
* Three sessions with two descriptors: two leak, and the third cannot begin. Three
  faults: one to get out of step, one to cut again, one to end. Three blocks in
  batches of two: the second batch is smaller and repeats the first.
* Two pieces beside an upload: one counted before and one after each of its
  steps. The bitfield is checked for every set of pieces of torrents of 8 and 10.

Symmetry: `pair` treats the threads as interchangeable, and the formulas it
checks are invariants and properties of single steps.

Deadlock is checked in every run. The states in which the program does nothing
more for good (`Quiet` in `Download` and `Tracker`, `Finished` in `BlockPlan`)
are steps of their own: the process has ended, or the main loop spins with a
full counter, or a bound is reached. In a spinning main loop with nobody left
and `due` false, time goes on.

### Fairness

`Download`: the clock advances (`WF(TimePasses)`), the main thread is scheduled
(`WF(Main)`), and each thread is (`WF` of all its steps as one: no particular
step of a thread is preferred, so that a peer that keeps sending keeps a receive
going). A pause of two minutes and every fault stay without fairness. A peer
outside its faults answers: the end of a receive costs a fault unless what was
asked for has come. `Completes` is checked with one thread: with several, the
undefined pop makes it false.

`Tracker`: the main thread is scheduled, and a tracker outside its faults
answers (`WF(Next)`; there is one process). `TorrentFiles`: a loop that has begun
goes on; the calls are the environment's. `Session`: the thread is scheduled;
the peer owes nothing. `Upload`: the upload's thread is scheduled and the clock
advances; nothing is assumed of the peer, nor of the other threads but that one
which has `threadlock` goes on to release it (`Releases`).

## What is proved

`tlapm` checks these for any number of threads, pieces, blocks, batches and
faults, under `DownloadAssumption` (the counts are positive, the threads a
finite set) or the assumption the theorem names; for any number of sessions,
descriptors, blocks and faults under `SessionAssumption`; for any list of
trackers, rounds and answers under `TrackerAssumption`; for any length of the
torrent and any size of block, piece and batch under `PlanAssumption`; for any
number and lengths of files, any piece length and any width of an `int` under
`LayoutAssumption`, which asks that 2^31 be a whole number of 16 blocks (it is:
`BLOCKSIZE` is 2^14); for any metainfo files, cut anywhere, with lists and dictionaries
as deep in each other as `Depth`, which may be any number, under
`MetaInfoAssumption`: no key stands twice in the order of keys, and those the
program asks for stand there; for an upload beside any number of threads, and any messages
of its peer, under `UploadAssumption`.

| theorem | statement |
|---|---|
| `TypeCorrect` | `Spec => []TypeOK` |
| `AccountsKept` | `Spec => []Accounts` |
| `PiecesKept` | `Spec => []NoPieceLost` |
| `PiecesApart` | `Spec => []NoPieceTwice` |
| `CompleteIsComplete` | `Spec => []CompleteMeansAll` |
| `LedgerKept` | `Spec => KeepsLedger` |
| `StoredInPlace` | `Spec => []StoredUnlessDisturbed` |
| `BitfieldAfterCount` | `Spec => []BitfieldFollowsCount` |
| `StoredByOne` | `Spec => []CountedStored`, for one thread whose peer sends no REQUEST |
| `FarewellTold` | `Spec => FarewellTellsAll` |
| `LedgerBalances` (`PieceLedgerProofs`) | `Spec => []Balanced`, where `None` is no piece |
| `DescriptorsOwned` (`SessionProofs`) | `Spec => []SocketsAccounted` |
| `SessionTypeCorrect` | `Spec => []TypeOK` |
| `StepLossTold` | `Spec => []LossOfStepIsTold` |
| `LossInvariant` | `Spec => []LossInv`, the inductive invariant of what is lost |
| `FailuresCaused` | `Spec => []FailureHasCause` |
| `SpinsTold` | `Spec => []SpinsOnlyAfterLoss` |
| `TrackerTypeCorrect` (`TrackerProofs`) | `Spec => []TypeOK` |
| `TrackerSocketsOwned` | `Spec => []SocketsAccounted` |
| `MapHoldsAnswers` | `Spec => []MapIsAnswers` |
| `EveryTrackerReached` | `Spec => []EveryTrackerAsked` |
| `HashHeard` | `Spec => []AnnounceHeard` |
| `PlanTypeCorrect` (`BlockPlanProofs`) | `Spec => []TypeOK` |
| `EveryBlockAsked` | `Spec => []CoversPiece` |
| `OnlySixteenBlocks` | `Spec => []SixteenBlocks` |
| `ExactlyFinishable` | `Spec => []WrittenIfFinishable` |
| `LayoutInvariant` (`LayoutProofs`) | `LayoutSpec => []LayoutInv`, the inductive invariant of the files |
| `LayoutTypes` | `LayoutSpec => []TypeOK` |
| `LayoutKept` | `LayoutSpec => []NothingMisplaced` |
| `LayoutComplete` | `LayoutSpec => []PiecesStored` |
| `LayoutBlocks` | `LayoutSpec => []BlockSent` |
| `DecodedAsWritten` (`TorrentFilesProofs`) | `Spec => []DecodesAsWritten` |
| `TorrentTaken` | `Spec => []TorrentAsWritten` |
| `InfoHashTaken` | `Spec => []InfoHashKept` |
| `TorrentTypes` | `Spec => []TypesOK` |
| `FilesKeepLayout` | `Spec => LayoutSpec`, the files of a metainfo are files of `FileLayout` |
| `TorrentKept` | `Spec => [](NothingMisplaced /\ PiecesStored /\ BlockSent)` |
| `UploadInvariant` (`UploadProofs`) | `UploadSpec => []UploadInv`, the inductive invariant of an upload |
| `PeerLearns` | `UploadSpec => []PeerLearnsAll` |
| `BlocksServed` | `UploadSpec => []BlockServed` |
| `BitfieldMeant` | `Offered(S, n) = S <=> ~Spoiled(S)`, for every `n` and every set of pieces below it |
| `BitfieldRead` | `UploadSpec => []BitfieldReadAsMeant` |
| `BooksBeside` | `UploadSpec => []IInv`, the books of the download |
| `LedgerBesideUpload` | `UploadSpec => KeepsLedger` |
| `CompleteBesideUpload` | `UploadSpec => []CompleteMeansAll` |
| `StoredBesideUpload` | `UploadSpec => []StoredUnlessDisturbed` |

The argument. `IInv` is `TypeOK`, `CountOK` and the books of the download: what
`Accounts` says of the queue and of hands (`Ranges`), `NoPieceLost` and
`NoPieceTwice`. `CountOK` is about the section that counts: one thread at a time
is in it, and the counter is ahead of the list exactly while one is; that is
inductive with the types alone and holds whatever was undefined, so that a lemma
for the steps away from that section (`StepAway`) leaves two to look at. None of
the three books is inductive alone. A piece that is put back is queued once only
because it was in one hand and not queued before; a pop finds a piece number only
because the queue holds nothing else. Together they are inductive: the proof takes
the steps by what they do to the books (nothing, a pop, a push of the held piece,
a count), each a lemma, and goes through the actions once (`AsideKeepsBooks`,
`SetupKeepsBooks`, `LoopKeepsBooks`). A step that uses an undefined value makes
`undefined` true, which ends the promise.

`CompleteIsComplete` counts: `havemesslist` is a list of pieces without
repetition, so that its length is the cardinality of its range, and that is
`downloaded`, or one less with one more piece in the hands of the thread that has
counted it and not listed it. When the counter reaches `NumPieces` every piece is
one of these, and none can be queued or held otherwise. `LedgerKept` maps the same four kinds of step to `Take`,
`GiveBack`, `Complete` and `Void`, everything else to a stutter.

`StoreInv` is what the disk needs. `StoredUnlessDisturbed` is not inductive: a
piece is written before it is counted, so what is counted next must already be
in place (`WrittenInPlace`), and what is written next must already be verified
(`VerifiedInHand`). The write itself needs arithmetic: the cells of two pieces lie
apart (`CellsApart`). A step that is none of assemble, seek, write, count and mark
leaves every thread `Steady`, and one lemma (`CalmStep`) covers all of those.
`BitfieldFollowsCount` needs that a thread about to mark has counted
(`MarksCounted`). `StoredByOne` adds that with one thread and no REQUEST nobody
moves the stream between the seek and the write (`Undisturbed`), which removes the
condition.

`FarewellTold` is an action property that needs an invariant of the history
variable: what a thread has told its peer are the entries of `havemesslist`
between the length it had when the session began and `no_of_havesent`
(`TellInv`). A session begins at the counter, read without the lock, which may then
be one ahead of the list. It never sends from there: the list is read under the
lock, and wherever that is free the counter is the list's length (`CountOK`), also
after an undefined pop. After a failed send the index has gone on and `told` has not, but such a
thread leaves by another way (`OnlyFarewell`).

`StepLossTold` is about parity. Every message is two cells, so that the parts of
the cells in `buffer` and then in `wire` alternate (`From`), wherever a receive
puts the end of the one and the start of the other; this is preserved by taking a
prefix, by dropping two cells and by appending whole messages, each a lemma about
sequences. `StepInv` says so while the session is `Sound`: no FAILURE was
returned and the handshake was not cut. Two ways out of `processMessage` drop the
rest of the buffer. `FAILURE` ends `Sound`; a `BITFIELDFAILURE` would not where the
caller goes on (the batch, `AfterBatch`), and cannot occur there: the thread asks
only peers whose bitfield it took, and a peer sends one bitfield (`OneBitfield`).
That a `Sound` stream is never misread is a consequence, not an assumption. The
spare cells a reset leaves are why the parity of the sum is stated for other
links only.

`FailureHasCause` bounds what has happened, and is not inductive: a cause is
counted when the message is sent or the stream is cut, and the FAILURE comes
when `processMessage` gets there. `CauseInv` adds to the failures the causes
still ahead, the heads of unknown messages in `buffer` and `wire` and the cut at
the end of `buffer`; a receive moves heads from the one to the other, and a
FAILURE, which drops the buffer, takes at least one cause with it. `OfferInv` does
the same for the bitfield: where one was offered and nothing was lost, the thread
has it or its head is still ahead.

For `Tracker`, the first answer that names an address is a `CHOOSE` of a least
place; the proofs find it by well-founded order, and show that appending an
answer moves it for no address named before. `EveryTrackerReached` compares
`asked` with the number of places of each URL in the part of `announce_list`
already passed, a cardinality that grows by one at each turn of the loop.

`HashHeard` is about the places of bytes in a string. What `tracker.cpp:92`
appends ends at the first zero byte of the hash, or, without one, two bytes into
`port` behind it (6969 is 57, 27, 0, 0), so that the two bytes a tracker takes
for the port are those of `num_want`, which `append` copies next. `HeardInv` adds
that no reply to an announce that was cut short is on its way, and tells the
answers of UDP trackers from those of HTTP ones by their transaction ids, which
are natural numbers there and -1 here.

`EveryBlockAsked` is arithmetic first. The code takes the size of the short block
from `length % BLOCKSIZE` and its place from `(length % pieceLength) / BLOCKSIZE`;
they agree because a piece is a whole number of blocks (`RestOK`), so that every
block the torrent has is asked for with its size, and none lies behind the one at
which the loop stops (`AskedAsHeld`): the `break` skips nothing. `LimitInv`, one part
of `PlanInv`, says where the requests have got to: between two turns of the inner
loop every block before the next one was asked for (`Reached`), and a batch that was
sent is complete, or was cut short at 16 blocks and was the last. `no_of_blocks`
changes once, so that a thread for which it is not below the torrent's at the end
never saw it below before. `OnlySixteenBlocks` carries from the pop to the write
where each block in a cell came from (`SixteenInv`): a request below 16, or an
attempt begun before.

`ExactlyFinishable` compares two sums. The code adds up what
is in the cells (`Appended`), and compares with a length it computes from `blocker`.
`PlanInv` says where the requests of an attempt end (`LimitInv`), which blocks
were asked for (`AskedInv`), what each cell holds of this attempt, of others and of
an earlier one (`CellsInv`), and that `blocker` is the short size exactly when the
last batch with a request had the short block (`BlockerInv`). That cells no larger
than the blocks of the piece add up to its length only if each is equal is shown by
a least counterexample.

`LayoutInv` ties a loop in its middle to the torrent. `LoopOK` says that the rest
of the data begins, in the torrent, where `start` lies in `start_file`, so that
each turn's part ends where the next file begins; `PlacedOK` says that what the
loop has written of its piece, and every piece on the disk, is `Held` at the place
the sums give it, and that nothing this run wrote lies behind the length of its
file (`Inside`), old bytes may. Those sums are a recursive function; what is needed of them
(they ascend, and each byte has one file) comes from a least counterexample, not
from an induction rule. `PiecesStored` is also about torrents with a piece that is not
placed, which are never whole. For them `Positioned` says of every byte in a file,
whichever piece it came from, how far behind its piece's `FirstByte` it lies: were
such a piece stored, its `FirstByte` would be its place (`StoredBegins`), and it
would be placed.

`UploadInv` is the invariant of the download (`TypeOK`, `StoreInv` and `CountOK`,
from which the count an upload takes under the lock is the length of the list)
with two conditions on the upload. `WorkOK`: what
it works on was counted, because `pieces_disk` never runs ahead of the count, and
between the seek and the read a REQUEST for such a piece stands first in `recvmes`.
`LearntOK`: each of the first `sent` entries of the list is in the bitfield, was about
to be marked when that was built, was sent in a HAVE or stands in `sendmes`. That
the first `sent` entries are all in the first two cases when the bitfield is built
needs `OnlyPieces`: also after an undefined pop nothing but a piece is counted,
since no block verifies for what is no piece. `BlocksServed` divides the cell into a
piece and a block, finds the piece in its place and the end of the file behind it
(`FileEndBehind`). A step of the upload only moves the stream, or ends the process
(`UploadShares`), so that the proofs of the download carry over; it touches neither
the queue nor the count nor what a thread holds (`UploadSparesLedger`), which is why
the two together still implement `PieceLedger`. `BitfieldMeant` is
arithmetic modulo 256: the weight 10^k of a digit is the bit 2^k there at four of the
places, and at the others that bit with some to the left of it; the last of those
that is set leaves a bit wrong at its place or before it.

`DecodedAsWritten` has no induction over the tree to rest on: what stands in for
it is the stack. `DecodeInv` says that for every open list or dictionary there is a
node of the author's tree, each a child of the one before (`Framed`); that the
decoder stands right behind the children it has taken (`Reading`); and that each
container on the stack is what `Meaning` would be of those children alone. The next
element is then the next child (`Coming`). A key that occurs twice is met when the
second one is stored, since the map has it. That a file with a cut or such a key is
never accepted follows from the lengths: the decoder is at the end of the tree's
text only if it has taken all of it. `Distinct`, `Meaning` and `Emit` are unfolded one
level at a time, by the depth of a node.

`GeometryInv` is about `parseMetaFile`, an entry a step: what has been read so far
(`InfoTaken`, `FilesTaken`, `SingleTaken`, `PiecesTaken`) is what the author's
value holds up to there. An exception inside the first `try` block leaves the
lengths that were already pushed, and the mode tells that the list is not whole.
`FilesKeepLayout` uses it at one step, `Start`: the torrent `dirfilecreation` gets
has a file for each length, a byte in one of them and pieces of some size, which
is all that `LayoutSpec` asks of a torrent. What `LayoutProofs` shows of the files
then holds from the metainfo file on (`TorrentKept`).

`InfoHashTaken` compares two texts, the one in the file and the one `encode` makes
of the value. Neither of two encodings begins with the other (`PartsAgree`), so
that a text can be read back in one way. Lemmas about sequences go by the least
place at which they would fail, those about trees by the least depth. From that, a
tree whose text is that of some value is canonical and means that value
(`EncodedCanonical`), and a canonical tree has the text of its value
(`CanonicalEncoded`), for which the loop over all keys in order is compared with
the entries the dictionary has (`InOrderOK`). `operator[]` adds an entry where the
piece length is missing, and no canonical tree without one has the text with one
(`TouchedTyped`, `HashAsWritten`).

Only model-checked: the liveness properties (`Completes`, `WindsDown`, `RoundEnds`,
`LoopsEnd`, `SessionSettles`, `UploadEnds`), which are beyond the prover, as is
`ENABLED`, and so that no module deadlocks. Every invariant and every property of
single steps that a passing run checks is also a theorem, `CountedStored` for one
thread whose peer asks for nothing (for several it is false, and
`StoredInPlace` has the condition). The proofs hold for `Depth` any number, and not
for no bound at all: the values are built level by level. The ledger has no run of
its own: `pair` checks that `Download` implements it, and `LedgerBalances` proves
what it promises.

## What is not modelled

* `createServer`: it binds, listens, and may end the process before the download
  begins; nobody accepts. `main.cpp` calls `download_torrent`.
* The spare bits that are written past the end of `pieces_have`
  (`messageHandling.cpp:93`) and the vectors an upload never sizes
  (`messageHandlingServer.cpp:69`), beyond the end of the process: after a write
  outside an object on the heap no state of the program is known.
* The fixed messages of `messagesCreate.cpp` and the byte order of numbers: one
  expression each, without state. The announce URL likewise.
* The digits of a bencoded number and their overflow; the views, proxies and
  variants of `bencode.hpp` that the program does not use.
* What the file system refuses: a directory where a file should be, an empty name,
  a full disk. Two entries of a metainfo with the same path are two streams over
  one file in the program and two files here.
* Name resolution: a host that does not resolve is a request that is lost.
* The bytes that two threads write to the stream in the same instant, below the
  call; the buffers of the stream and what the disk has of them after a crash.

## Plan

Done: the ledger, the download with its proofs and those of its storage, the
block plan, the metainfo and the files, the sessions, the upload, the trackers,
each with its proofs. Left:

* That a session of `Session` implements the thread of `Download`, and the round of
  `Tracker` its announce: `Download` leaves out the bytes and the list of trackers
  that these are about, and a mapping would have to choose its faults.
* That `BlockPlan` implements the batches of a thread of `Download`, whose pieces all
  have the same number of blocks.
* The sign and the overflow of a bencoded number.
