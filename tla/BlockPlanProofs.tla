-------------------------- MODULE BlockPlanProofs --------------------------
(* Theorems about BlockPlan, for every value of its constants: blocks of   *)
(* any size, any number of them in a piece and in a batch, any length.     *)
EXTENDS BlockPlan, WellFoundedInduction, TLAPS

-----------------------------------------------------------------------------
(* Division.                                                               *)

LEMMA Below ==
  ASSUME NEW x \in Int, NEW y \in Int, NEW d \in Nat \ {0}, x < y
  PROVE  x * d \in Int /\ y * d \in Int /\ x * d + d <= y * d
<1>1. x + 1 <= y OBVIOUS
<1> QED BY <1>1, SMT

Divided(n, d, q, r) == q = n \div d /\ r = n % d

LEMMA Division ==
  ASSUME NEW n \in Nat, NEW d \in Nat \ {0}, NEW q, NEW r, Divided(n, d, q, r)
  PROVE  q \in Nat /\ r \in 0 .. d - 1 /\ n = q * d + r
<1>0. q = n \div d /\ r = n % d BY DEF Divided
<1>1. r \in 0 .. d - 1 BY <1>0, SMT
<1>2. n = q * d + r BY <1>0, SMT
<1>3. q \in Int BY <1>0, SMT
<1>4. q >= 0
  <2>1. SUFFICES ASSUME q < 0 PROVE FALSE BY <1>3
  <2>2. q * d \in Int /\ q * d + d <= 0 * d BY <1>3, <2>1, Below
  <2>3. 0 * d = 0 OBVIOUS
  <2> DEFINE x == q * d
  <2>4. x \in Int /\ x + d <= 0 /\ n = x + r BY <1>2, <2>2, <2>3
  <2> HIDE DEF x
  <2> QED BY <1>1, <2>4
<1> QED BY <1>1, <1>2, <1>3, <1>4

LEMMA DivisionOnly ==
  ASSUME NEW q \in Nat, NEW d \in Nat \ {0}, NEW r \in 0 .. d - 1
  PROVE  (q * d + r) \div d = q /\ (q * d + r) % d = r
BY SMT

LEMMA Spread ==
  ASSUME NEW q \in Nat, NEW m \in Nat, NEW d \in Nat, NEW e \in Nat
  PROVE  q * (m * e) + d * e = (q * m + d) * e /\ q * m + d \in Nat
BY SMT

-----------------------------------------------------------------------------
(* What the torrent holds and what is asked for.                           *)

TorrentOK == /\ num_blocks \in NumsOfBlocks
             /\ length \in 1 .. MaxPieces * pieceLength

LEMMA LengthsOK ==
  ASSUME TorrentOK
  PROVE  /\ num_blocks \in Nat \ {0} /\ pieceLength \in Nat \ {0}
         /\ length \in Nat \ {0} /\ BlockSize \in Nat \ {0}
<1>1. num_blocks \in Nat \ {0} /\ BlockSize \in Nat \ {0}
  BY PlanAssumption DEF TorrentOK
<1>2. pieceLength \in Nat \ {0}
  <2>1. \A x, y \in Nat \ {0} : x * y \in Nat \ {0} BY SMT
  <2> QED BY <1>1, <2>1 DEF pieceLength
<1>3. length \in Nat \ {0} BY DEF TorrentOK
<1> QED BY <1>1, <1>2, <1>3

LEMMA PiecesOK == ASSUME TorrentOK PROVE no_of_pieces \in 0 .. MaxPieces
<1>1. PICK n, q, r : /\ n = length + pieceLength - 1
                     /\ Divided(n, pieceLength, q, r)
  BY DEF Divided
<1>2. n \in Nat /\ MaxPieces \in Nat /\ pieceLength \in Nat \ {0}
  BY <1>1, LengthsOK, PlanAssumption
<1>3. q \in Nat /\ r \in 0 .. pieceLength - 1 /\ n = q * pieceLength + r
  BY <1>1, <1>2, Division
<1>4. PICK x, y : x = q * pieceLength /\ y = MaxPieces * pieceLength OBVIOUS
<1>5. x \in Int /\ y \in Int /\ (MaxPieces < q => y + pieceLength <= x)
  BY <1>2, <1>3, <1>4, Below, SMT
<1>6. length <= y BY <1>4 DEF TorrentOK
<1>7. n = x + r BY <1>3, <1>4
<1>8. ~(MaxPieces < q)
  BY <1>1, <1>2, <1>3, <1>5, <1>6, <1>7, LengthsOK
<1>9. no_of_pieces = q BY <1>1 DEF no_of_pieces, Divided
<1> QED BY <1>2, <1>3, <1>8, <1>9

(* The rest of the torrent ends in the middle of a block where its length  *)
(* does.                                                                   *)
LEMMA RestOK ==
  ASSUME TorrentOK, NEW d, NEW r, Divided(Rest, BlockSize, d, r)
  PROVE  /\ Rest \in Nat /\ length % BlockSize = r
         /\ d \in Nat /\ r \in 0 .. BlockSize - 1 /\ Rest = d * BlockSize + r
<1> USE LengthsOK
<1>1. PICK q : Divided(length, pieceLength, q, Rest) BY DEF Divided, Rest
<1>2. q \in Nat /\ Rest \in 0 .. pieceLength - 1 /\ length = q * pieceLength + Rest
  BY <1>1, Division
<1>3. Rest \in Nat /\ d \in Nat /\ r \in 0 .. BlockSize - 1 /\ Rest = d * BlockSize + r
  <2>1. Rest \in Nat BY <1>2
  <2> QED BY <2>1, Division
<1>4. PICK z : z = q * num_blocks + d OBVIOUS
<1>5. q * (num_blocks * BlockSize) + d * BlockSize = z * BlockSize /\ z \in Nat
  <2>1. num_blocks \in Nat /\ BlockSize \in Nat OBVIOUS
  <2>2. /\ q * (num_blocks * BlockSize) + d * BlockSize = (q * num_blocks + d) * BlockSize
        /\ q * num_blocks + d \in Nat
    <3>2. q \in Nat /\ d \in Nat BY <1>2, <1>3
    <3>3. PICK m \in Nat, e \in Nat : m = num_blocks /\ e = BlockSize BY <2>1
    <3>4. q * (m * e) + d * e = (q * m + d) * e /\ q * m + d \in Nat BY <3>2, Spread
    <3> QED BY <3>3, <3>4
  <2> QED BY <1>4, <2>2, Zenon
<1>6. PICK x, y : x = q * pieceLength /\ y = d * BlockSize OBVIOUS
<1>7. x \in Int /\ y \in Int
  <2>1. \A u, v \in Nat : u * v \in Int OBVIOUS
  <2> QED BY <1>2, <1>3, <1>6, <2>1, LengthsOK
<1>8. length = x + Rest /\ Rest = y + r /\ x + y = z * BlockSize
  BY <1>2, <1>3, <1>5, <1>6 DEF pieceLength
<1>9. length = (x + y) + r BY <1>3, <1>7, <1>8
<1>10. length % BlockSize = r
  <2>1. length = z * BlockSize + r BY <1>8, <1>9
  <2>2. (z * BlockSize + r) % BlockSize = r BY <1>3, <1>5, DivisionOnly, Zenon
  <2> QED BY <2>1, <2>2, Zenon
<1> QED BY <1>2, <1>3, <1>10

LEMMA TrueSizeOK ==
  ASSUME TorrentOK, NEW p, NEW b \in Nat
  PROVE  TrueSize(p, b) \in 0 .. BlockSize
<1>1. Rest \in Nat /\ BlockSize \in Nat \ {0}
  <2>1. PICK d, r : Divided(Rest, BlockSize, d, r) BY DEF Divided
  <2> QED BY <2>1, RestOK, LengthsOK
<1>2. b * BlockSize \in Int /\ (b + 1) * BlockSize = b * BlockSize + BlockSize
  BY <1>1, SMT
<1> DEFINE x == b * BlockSize
           y == (b + 1) * BlockSize
<1>3. TrueSize(p, b) = IF ~ShortPiece(p) \/ y <= Rest THEN BlockSize
                       ELSE IF x < Rest THEN Rest - x ELSE 0
  BY DEF TrueSize
<1>4. x \in Int /\ y = x + BlockSize BY <1>2
<1> HIDE DEF x, y
<1> QED BY <1>1, <1>3, <1>4

LEMMA SizeAskedOK ==
  ASSUME TorrentOK, NEW p, NEW b
  PROVE  SizeAsked(p, b) \in 1 .. BlockSize
<1>1. PICK d, r : Divided(Rest, BlockSize, d, r) BY DEF Divided
<1>2. length % BlockSize \in 0 .. BlockSize - 1 /\ BlockSize \in Nat \ {0}
  BY <1>1, RestOK, LengthsOK
<1> QED BY <1>2 DEF SizeAsked

(* Every block the torrent has is asked for with its size, and none of     *)
(* them lies behind the block at which the loop stops.                     *)
LEMMA AskedAsHeld ==
  ASSUME TorrentOK, NEW p, NEW b \in TrueBlocks(p)
  PROVE  /\ SizeAsked(p, b) = TrueSize(p, b)
         /\ \A s \in Nat : s < b => ~ShortBlock(p, s)
<1>0. PICK d, r, x, y, z : /\ Divided(Rest, BlockSize, d, r)
                           /\ x = b * BlockSize /\ y = (b + 1) * BlockSize
                           /\ z = d * BlockSize
  BY DEF Divided
<1>1. Rest \in Nat /\ d \in Nat /\ r \in 0 .. BlockSize - 1 /\ Rest = z + r
      /\ length % BlockSize = r /\ BlockSize \in Nat \ {0}
  BY <1>0, RestOK, LengthsOK
<1>2. b \in Nat BY LengthsOK DEF TrueBlocks, Blocks
<1>3. x \in Int /\ y = x + BlockSize /\ z \in Int
  <2>1. \A u, v \in Nat : u * v \in Int /\ (u + 1) * v = u * v + v BY SMT
  <2> QED BY <1>0, <1>1, <1>2, <2>1
<1>4. TrueSize(p, b) = IF ~ShortPiece(p) \/ y <= Rest THEN BlockSize
                       ELSE IF x < Rest THEN Rest - x ELSE 0
  BY <1>0 DEF TrueSize
<1>5. TrueSize(p, b) > 0 BY DEF TrueBlocks
<1>6. \A s : ShortBlock(p, s) <=> ShortPiece(p) /\ s + 1 = d + 1
  BY <1>0 DEF ShortBlock, Divided
<1>7. SizeAsked(p, b) = IF ~ShortBlock(p, b) \/ r = 0 THEN BlockSize ELSE r
  BY <1>1 DEF SizeAsked
<1>8. CASE ~ShortPiece(p)
  BY <1>4, <1>6, <1>7, <1>8
<1>9. CASE ShortPiece(p)
  <2>1. /\ b < d => x + BlockSize <= z
        /\ d < b => z + BlockSize <= x
        /\ b = d => x = z
    BY <1>0, <1>1, <1>2, Below
  <2>2. x < Rest BY <1>1, <1>3, <1>4, <1>5, <1>9
  <2>3. b < d \/ b = d BY <1>1, <1>2, <1>3, <2>1, <2>2
  <2>4. CASE b < d
    <3>1. TrueSize(p, b) = BlockSize BY <1>1, <1>3, <1>4, <2>1, <2>4
    <3>2. ~ShortBlock(p, b) BY <1>1, <1>2, <1>6, <2>4
    <3> QED BY <1>1, <1>2, <1>6, <1>7, <2>4, <3>1, <3>2
  <2>5. CASE b = d
    <3>1. ~(y <= Rest) /\ Rest - x = r BY <1>1, <1>3, <2>1, <2>5
    <3>2. TrueSize(p, b) = r BY <1>4, <1>9, <2>2, <3>1
    <3>3. ShortBlock(p, b) /\ r # 0 BY <1>5, <1>6, <1>9, <2>5, <3>2
    <3>4. \A s \in Nat : s < b => ~ShortBlock(p, s) BY <1>1, <1>6, <2>5
    <3> QED BY <1>7, <3>2, <3>3, <3>4
  <2> QED BY <2>3, <2>4, <2>5
<1> QED BY <1>8, <1>9

-----------------------------------------------------------------------------
(* Type correctness.                                                       *)

(* What TypeOK says of the thread. *)
ThreadOK ==
  /\ no_of_blocks \in {num_blocks, HardBlocks} /\ limit \in Nat
  /\ piece_no \in 0 .. MaxPieces - 1
  /\ i \in Nat /\ j \in 0 .. QueueSize
  /\ blocker \in 0 .. BlockSize
  /\ requested \subseteq Nat \X (1 .. BlockSize)
  /\ block_placeholder \in [Blocks -> [piece : 0 .. MaxPieces - 1, size : 0 .. BlockSize]]
  /\ outcome \in {"none", "written", "putback"}
  /\ pc \in {"request", "batch", "size", "end"}
  /\ late \in BOOLEAN /\ stale \in BOOLEAN /\ held \subseteq Blocks /\ cut \in BOOLEAN
  /\ attempts \in 0 .. MaxAttempts

LEMMA TypeParts == TypeOK <=> TorrentOK /\ ThreadOK
BY DEF TypeOK, TorrentOK, ThreadOK

LEMMA InitTypes == Init => TypeOK
<1> SUFFICES ASSUME Init PROVE TypeOK OBVIOUS
<1>1. TorrentOK BY DEF Init, TorrentOK
<1>2. Emptied \in [Blocks -> [piece : 0 .. MaxPieces - 1, size : 0 .. BlockSize]]
  BY PlanAssumption DEF Emptied, NoCell
<1>3. BlockSize \in Nat /\ MaxPieces - 1 \in Nat /\ MaxAttempts \in Nat BY PlanAssumption
<1>4. ThreadOK
  <2>1. block_placeholder \in [Blocks -> [piece : 0 .. MaxPieces - 1, size : 0 .. BlockSize]]
    BY <1>2 DEF Init
  <2>2. /\ no_of_blocks = num_blocks /\ limit = 0 /\ held = {} /\ cut = FALSE /\ piece_no = 0
        /\ i = 0 /\ j = 0 /\ blocker = 0 /\ requested = {} /\ outcome = "none" /\ pc = "end"
        /\ late = FALSE /\ stale = FALSE /\ attempts = 0
    BY DEF Init
  <2>3. /\ piece_no \in 0 .. MaxPieces - 1 /\ blocker \in 0 .. BlockSize
        /\ attempts \in 0 .. MaxAttempts /\ i \in Nat /\ limit \in Nat
        /\ j \in 0 .. QueueSize
    BY <1>3, <2>2, PlanAssumption
  <2>4. requested \subseteq Nat \X (1 .. BlockSize) /\ held \subseteq Blocks BY <2>2
  <2>5. /\ late \in BOOLEAN /\ stale \in BOOLEAN /\ cut \in BOOLEAN
        /\ outcome \in {"none", "written", "putback"}
        /\ pc \in {"request", "batch", "size", "end"}
        /\ no_of_blocks \in {num_blocks, HardBlocks}
    BY <2>2
  <2> QED BY <2>1, <2>3, <2>4, <2>5 DEF ThreadOK
<1> QED BY <1>1, <1>4, TypeParts

(* A step that leaves the torrent and the cells alone. *)
LEMMA TorrentKept ==
  ASSUME TypeOK, UNCHANGED torrentVars
  PROVE  /\ TorrentOK /\ TorrentOK' /\ ThreadOK
         /\ num_blocks' = num_blocks /\ Blocks' = Blocks /\ pieceLength' = pieceLength
         /\ ThreadOK' => TypeOK'
<1>1. TorrentOK /\ ThreadOK BY TypeParts
<1>2. /\ length' = length /\ num_blocks' = num_blocks /\ Blocks' = Blocks
      /\ pieceLength' = pieceLength
  BY DEF torrentVars, Blocks, pieceLength
<1>3. TorrentOK' BY <1>1, <1>2 DEF TorrentOK
<1>4. ThreadOK' => TypeOK'
  <2>1. TypeOK' <=> TorrentOK' /\ ThreadOK'
    BY DEF TypeOK, TorrentOK, ThreadOK
  <2> QED BY <1>3, <2>1
<1> QED BY <1>1, <1>2, <1>3, <1>4

LEMMA RequestTypes == ASSUME TypeOK, Request PROVE TypeOK'
<1>1. UNCHANGED torrentVars BY DEF Request
<1>2. TorrentOK BY <1>1, TorrentKept
<1>3. PICK c : c = i + j OBVIOUS
<1>4. c \in Nat /\ j < QueueSize /\ j \in 0 .. QueueSize /\ QueueSize \in Nat
  BY <1>3, PlanAssumption DEF Request, Room, TypeOK
<1>5. PICK size : size = SizeAsked(piece_no, c) OBVIOUS
<1>6. size \in 1 .. BlockSize BY <1>2, <1>5, SizeAskedOK
<1>7. requested' \subseteq Nat \X (1 .. BlockSize)
  <2>1. requested' = requested \cup {<<c, size>>} BY <1>3, <1>5 DEF Request
  <2> QED BY <1>4, <1>6, <2>1 DEF TypeOK
<1>8. blocker' \in 0 .. BlockSize BY <1>3, <1>5, <1>6 DEF Request
<1>9. limit' \in Nat BY <1>3, <1>4 DEF Request
<1>10. j' \in 0 .. QueueSize /\ pc' \in {"request", "batch"}
  BY <1>4 DEF Request
<1> QED BY <1>1, <1>7, <1>8, <1>9, <1>10, TorrentKept DEF Request, ThreadOK

LEMMA ServeTypes == ASSUME TypeOK, NEW b \in Blocks, Serve(b) PROVE TypeOK'
<1>1. UNCHANGED torrentVars BY DEF Serve
<1>2. TrueSize(piece_no, b) \in 0 .. BlockSize
  <2>1. b \in Nat BY <1>1, TorrentKept, LengthsOK DEF Blocks
  <2> QED BY <1>1, <2>1, TorrentKept, TrueSizeOK
<1>3. block_placeholder' \in [Blocks -> [piece : 0 .. MaxPieces - 1, size : 0 .. BlockSize]]
  BY <1>2 DEF Serve, TypeOK
<1> QED BY <1>1, <1>3, TorrentKept DEF Serve, ThreadOK

LEMMA PopTypes == ASSUME TypeOK, NEW p \in 0 .. no_of_pieces - 1, Pop(p) PROVE TypeOK'
<1>1. UNCHANGED torrentVars BY DEF Pop
<1>2. p \in 0 .. MaxPieces - 1
  <2>1. no_of_pieces \in 0 .. MaxPieces BY <1>1, TorrentKept, PiecesOK
  <2> QED BY <2>1, PlanAssumption
<1>3. held' \subseteq Blocks BY DEF Pop, TrueBlocks
<1>4. stale' \in BOOLEAN /\ cut' \in BOOLEAN BY DEF Pop
<1>5. attempts' \in 0 .. MaxAttempts BY PlanAssumption DEF Pop, TypeOK
<1>6. i' \in Nat /\ j' \in 0 .. QueueSize BY PlanAssumption DEF Pop
<1> QED BY <1>1, <1>2, <1>3, <1>4, <1>5, <1>6, TorrentKept DEF Pop, ThreadOK

LEMMA OtherTypes ==
  ASSUME TypeOK, SendBatch \/ EndBatch \/ Fail \/ CheckSize \/ OtherWrites
  PROVE  TypeOK'
<1>1. UNCHANGED torrentVars BY DEF SendBatch, EndBatch, Fail, CheckSize, OtherWrites
<1>6. CASE SendBatch BY <1>1, <1>6, TorrentKept DEF SendBatch, ThreadOK
<1>2. CASE EndBatch
  <2>1. i' \in Nat /\ j' \in 0 .. QueueSize BY <1>2, PlanAssumption DEF EndBatch, TypeOK
  <2>2. late' \in BOOLEAN BY <1>2 DEF EndBatch
  <2> QED BY <1>1, <1>2, <2>1, <2>2, TorrentKept DEF EndBatch, ThreadOK
<1>3. CASE Fail BY <1>1, <1>3, TorrentKept DEF Fail, ThreadOK
<1>4. CASE CheckSize
  <2>1. block_placeholder' \in [Blocks -> [piece : 0 .. MaxPieces - 1, size : 0 .. BlockSize]]
    BY <1>4, PlanAssumption DEF CheckSize, Emptied, NoCell
  <2> QED BY <1>1, <1>4, <2>1, TorrentKept DEF CheckSize, ThreadOK
<1>5. CASE OtherWrites BY <1>1, <1>5, TorrentKept DEF OtherWrites, ThreadOK
<1> QED BY <1>2, <1>3, <1>4, <1>5, <1>6

LEMMA StepTypes == ASSUME TypeOK, [Next]_vars PROVE TypeOK'
<1>1. CASE UNCHANGED vars
  BY <1>1, TorrentKept DEF vars, TypeOK, TorrentOK, torrentVars
<1> QED BY <1>1, RequestTypes, ServeTypes, PopTypes, OtherTypes DEF Next, Finished

(* Whatever the length of the torrent and whenever other threads write,    *)
(* each variable keeps its type: no request for no bytes, or for more than *)
(* a block (peer.cpp:306-316).                                             *)
THEOREM PlanTypeCorrect == Spec => []TypeOK
BY InitTypes, StepTypes, PTL DEF Spec

-----------------------------------------------------------------------------
(* The blocks and their requests.                                          *)

Fetching == pc \in {"request", "batch", "size"}

Asked(b) == <<b, TrueSize(piece_no, b)>> \in requested

LEMMA PlanKept ==
  ASSUME UNCHANGED torrentVars
  PROVE  num_blocks' = num_blocks
         /\ (UNCHANGED piece_no => /\ TrueBlocks(piece_no)' = TrueBlocks(piece_no)
                                   /\ \A b : TrueSize(piece_no, b)' = TrueSize(piece_no, b))
BY DEF torrentVars, TrueBlocks, TrueSize, ShortPiece, Rest, Blocks, no_of_pieces, pieceLength

LEMMA BlockRange ==
  ASSUME TorrentOK, NEW p, NEW b \in TrueBlocks(p)
  PROVE  b \in Nat /\ b < num_blocks
BY LengthsOK DEF TrueBlocks, Blocks

-----------------------------------------------------------------------------
(* The sixteen blocks.                                                     *)

InPlace(b) == block_placeholder[b] = [piece |-> piece_no, size |-> TrueSize(piece_no, b)]

FromBefore == \A b \in TrueBlocks(piece_no) : InPlace(b) => b < HardBlocks \/ b \in held

SixteenInv ==
  cut => /\ no_of_blocks = HardBlocks
         /\ \A request \in requested : request[1] < HardBlocks
         /\ Fetching => FromBefore
         /\ outcome = "written" => \A b \in TrueBlocks(piece_no) : b < HardBlocks \/ b \in held

(* Nothing that the invariant speaks of changes but pc and no_of_blocks. *)
LEMMA SameSixteen ==
  ASSUME SixteenInv, UNCHANGED <<torrentVars, piece_no, requested, block_placeholder, held, cut,
                                 outcome, no_of_blocks>>,
         Fetching' => Fetching
  PROVE  SixteenInv'
BY PlanKept DEF SixteenInv, FromBefore, InPlace

LEMMA PopSixteen == ASSUME TypeOK, NEW p, Pop(p) PROVE SixteenInv'
<1>1. /\ UNCHANGED <<torrentVars, no_of_blocks, block_placeholder>> /\ piece_no' = p
      /\ requested' = {} /\ outcome' = "none" /\ cut' = (no_of_blocks = HardBlocks)
      /\ held' = { b \in TrueBlocks(p) :
                     block_placeholder[b] = [piece |-> p, size |-> TrueSize(p, b)] }
  BY DEF Pop
<1>2. TrueBlocks(p)' = TrueBlocks(p) /\ \A b : TrueSize(p, b)' = TrueSize(p, b)
  BY <1>1 DEF torrentVars, TrueBlocks, TrueSize, ShortPiece, Rest, Blocks, no_of_pieces,
              pieceLength
<1>3. TrueBlocks(piece_no)' = TrueBlocks(p)
  BY <1>1, <1>2 DEF TrueBlocks, TrueSize, ShortPiece
<1>4. \A b : TrueSize(piece_no, b)' = TrueSize(p, b)
  BY <1>1, <1>2 DEF TrueSize, ShortPiece
<1>5. FromBefore' BY <1>1, <1>3, <1>4 DEF FromBefore, InPlace
<1> QED BY <1>1, <1>5 DEF SixteenInv

LEMMA RequestSixteen == ASSUME TypeOK, SixteenInv, Request PROVE SixteenInv'
<1>1. /\ UNCHANGED <<torrentVars, piece_no, block_placeholder, held, cut, outcome, no_of_blocks>>
      /\ pc = "request" /\ i + j < no_of_blocks
      /\ requested' = requested \cup {<<i + j, SizeAsked(piece_no, i + j)>>}
  BY DEF Request, Room
<1>2. ASSUME no_of_blocks = HardBlocks, \A request \in requested : request[1] < HardBlocks
      PROVE  \A request \in requested' : request[1] < HardBlocks
  <2>1. PICK c, size : c = i + j /\ size = SizeAsked(piece_no, i + j) OBVIOUS
  <2>2. c < HardBlocks /\ requested' = requested \cup {<<c, size>>} BY <1>1, <1>2, <2>1
  <2>3. <<c, size>>[1] = c OBVIOUS
  <2> QED BY <1>2, <2>2, <2>3, Zenon
<1>3. FromBefore' <=> FromBefore BY <1>1, PlanKept DEF FromBefore, InPlace
<1> QED BY <1>1, <1>2, <1>3, PlanKept DEF SixteenInv, Fetching

LEMMA ServeSixteen ==
  ASSUME TypeOK, SixteenInv, NEW c \in Blocks, Serve(c)
  PROVE  SixteenInv'
<1>1. /\ UNCHANGED <<torrentVars, piece_no, requested, held, cut, outcome, no_of_blocks, pc>>
      /\ <<c, TrueSize(piece_no, c)>> \in requested
      /\ \A b \in Blocks : b # c => block_placeholder'[b] = block_placeholder[b]
  BY DEF Serve, TypeOK
<1>2. ASSUME FromBefore, c < HardBlocks PROVE FromBefore'
  <2>1. ASSUME NEW b \in TrueBlocks(piece_no)', InPlace(b)'
        PROVE  b < HardBlocks \/ b \in held'
    <3>1. b \in TrueBlocks(piece_no) /\ b \in Blocks
      BY <1>1, <2>1, PlanKept DEF TrueBlocks
    <3>2. CASE b = c BY <1>2, <3>2
    <3>3. CASE b # c
      BY <1>1, <1>2, <2>1, <3>1, <3>3, PlanKept DEF FromBefore, InPlace
    <3> QED BY <3>2, <3>3
  <2> QED BY <2>1 DEF FromBefore
<1>3. cut => c < HardBlocks BY <1>1 DEF SixteenInv
<1> QED BY <1>1, <1>2, <1>3, PlanKept DEF SixteenInv, Fetching

LEMMA CheckSixteen == ASSUME TypeOK, SixteenInv, CheckSize PROVE SixteenInv'
<1>1. /\ UNCHANGED <<torrentVars, piece_no, requested, held, cut>> /\ pc = "size" /\ pc' = "end"
      /\ outcome' = "written" => HashMatches
      /\ no_of_blocks' = no_of_blocks \/ no_of_blocks' = HardBlocks
  BY DEF CheckSize
<1>2. HashMatches => \A b \in TrueBlocks(piece_no) : InPlace(b)
  BY DEF HashMatches, InPlace, TrueBlocks
<1> QED BY <1>1, <1>2, PlanKept DEF SixteenInv, Fetching, FromBefore

LEMMA StepSixteen == ASSUME TypeOK, SixteenInv, [Next]_vars PROVE SixteenInv'
<1>1. CASE UNCHANGED vars BY <1>1, SameSixteen DEF vars, Fetching
<1>2. CASE SendBatch \/ EndBatch
  BY <1>2, SameSixteen DEF SendBatch, EndBatch, Fetching
<1>3. CASE Fail
  BY <1>3, PlanKept DEF Fail, SixteenInv, Fetching
<1>4. CASE OtherWrites
  BY <1>4 DEF OtherWrites, SixteenInv
<1> QED BY <1>1, <1>2, <1>3, <1>4, PopSixteen, RequestSixteen, ServeSixteen, CheckSixteen
        DEF Next, Finished

(* After the first write of any thread (helper.cpp:139), a whole piece of  *)
(* more than HardBlocks blocks is written only with the last ones from an  *)
(* attempt that began before, for every size of piece and batch.           *)
THEOREM OnlySixteenBlocks == Spec => []SixteenBlocks
<1>1. Init => SixteenInv BY DEF Init, SixteenInv
<1>2. SixteenInv => SixteenBlocks BY DEF SixteenInv, SixteenBlocks
<1> QED BY <1>1, <1>2, InitTypes, StepTypes, StepSixteen, PTL DEF Spec

-----------------------------------------------------------------------------
(* What is written.                                                        *)

(* This attempt has asked for a block. *)
Begun == Fetching /\ (pc = "request" => i + j > 0)

(* All blocks of the piece below n have been asked for. *)
Reached(n) == \A b \in TrueBlocks(piece_no) : b < n => b < limit

(* Between two turns of the inner loop nothing is left out, and the short  *)
(* block was none of the batch.  A batch that was sent is complete or was  *)
(* cut short at HardBlocks, and then it was the last.                      *)
LimitInv ==
  /\ Fetching => i % QueueSize = 0
  /\ pc = "request" /\ i + j = 0 => requested = {}
  /\ pc = "request" /\ i + j > 0 => limit <= i + j /\ Reached(i + j)
  /\ pc = "request" /\ ShortPiece(piece_no) => Rest \div BlockSize \notin i .. i + j - 1
  /\ pc = "batch" =>
       /\ limit <= i + QueueSize
       /\ \/ Reached(i + QueueSize)
          \/ /\ no_of_blocks = HardBlocks /\ HardBlocks < i + QueueSize
             /\ Reached(HardBlocks)
  /\ pc = "size" /\ no_of_blocks >= num_blocks => Reached(num_blocks)

AskedInv == Begun => \A b \in TrueBlocks(piece_no) : Asked(b) <=> b < limit

(* The cells hold what was there before and what was asked for; nothing    *)
(* comes to the cells the piece has no block for.                          *)
CellsInv ==
  /\ Fetching => /\ \A b \in TrueBlocks(piece_no) : /\ InPlace(b) => b \in held \/ Asked(b)
                                                    /\ b \in held => InPlace(b)
                 /\ stale <=> \E b \in Blocks \ TrueBlocks(piece_no) :
                                block_placeholder[b].size > 0
  /\ pc = "size" /\ ~late => \A b \in TrueBlocks(piece_no) : Asked(b) => InPlace(b)

(* blocker tells whether the last batch that had a request had the one for *)
(* the end of the torrent.                                                 *)
EndsShort == /\ ShortPiece(piece_no) /\ Rest \div BlockSize \in LastBegin .. limit - 1
             /\ Rest % BlockSize # 0

BlockerInv == Begun => blocker = IF EndsShort THEN Rest % BlockSize ELSE BlockSize

PlanInv == /\ LimitInv /\ AskedInv /\ CellsInv /\ BlockerInv
           /\ Fetching => outcome = "none"
           /\ WrittenIfFinishable

LEMMA PlanNumbers ==
  ASSUME TypeOK
  PROVE  /\ TorrentOK
         /\ num_blocks \in Nat \ {0} /\ no_of_blocks \in Nat \ {0}
         /\ BlockSize \in Nat \ {0} /\ QueueSize \in Nat \ {0}
         /\ i \in Nat /\ j \in 0 .. QueueSize /\ limit \in Nat
<1>1. TorrentOK BY TypeParts
<1> QED BY <1>1, LengthsOK, PlanAssumption DEF TypeOK

(* The block in which the torrent ends. *)
LEMMA EndBlock ==
  ASSUME TorrentOK, NEW p
  PROVE  /\ Rest \div BlockSize \in Nat /\ Rest % BlockSize \in 0 .. BlockSize - 1
         /\ length % BlockSize = Rest % BlockSize
         /\ Rest = (Rest \div BlockSize) * BlockSize + (Rest % BlockSize)
         /\ \A b \in Int : ShortBlock(p, b) <=> ShortPiece(p) /\ b = Rest \div BlockSize
<1>1. PICK d, r : Divided(Rest, BlockSize, d, r) BY DEF Divided
<1>2. /\ Rest \in Nat /\ length % BlockSize = r
      /\ d \in Nat /\ r \in 0 .. BlockSize - 1 /\ Rest = d * BlockSize + r
  BY <1>1, RestOK
<1>3. d = Rest \div BlockSize /\ r = Rest % BlockSize BY <1>1 DEF Divided
<1>4. \A b \in Int : ShortBlock(p, b) <=> ShortPiece(p) /\ b = d
  <2>1. \A b : ShortBlock(p, b) <=> ShortPiece(p) /\ b + 1 = d + 1
    BY <1>3 DEF ShortBlock
  <2>2. \A b \in Int : b + 1 = d + 1 <=> b = d BY <1>2
  <2> QED BY <2>1, <2>2
<1> QED BY <1>2, <1>3, <1>4

(* What keeps the plan of the requests. *)
LEMMA SamePlan ==
  ASSUME UNCHANGED <<torrentVars, piece_no, requested, limit>>
  PROVE  /\ num_blocks' = num_blocks /\ Blocks' = Blocks
         /\ TrueBlocks(piece_no)' = TrueBlocks(piece_no)
         /\ \A b : TrueSize(piece_no, b)' = TrueSize(piece_no, b) /\ Asked(b)' = Asked(b)
         /\ EndsShort' = EndsShort /\ Rest' = Rest
         /\ ShortPiece(piece_no)' = ShortPiece(piece_no)
         /\ (UNCHANGED held => Finishable(piece_no)' = Finishable(piece_no))
<1>1. /\ num_blocks' = num_blocks /\ Blocks' = Blocks /\ Rest' = Rest
      /\ TrueBlocks(piece_no)' = TrueBlocks(piece_no)
      /\ \A b : TrueSize(piece_no, b)' = TrueSize(piece_no, b)
      /\ ShortPiece(piece_no)' = ShortPiece(piece_no)
  BY PlanKept DEF torrentVars, Blocks, Rest, pieceLength, ShortPiece, no_of_pieces
<1>2. \A b : Asked(b)' = Asked(b) BY <1>1 DEF Asked
<1>3. EndsShort' = EndsShort BY <1>1 DEF EndsShort, LastBegin
<1>4. UNCHANGED held => Finishable(piece_no)' = Finishable(piece_no)
  BY <1>1 DEF Finishable, LastBegin
<1> QED BY <1>1, <1>2, <1>3, <1>4

(* A block of the batch lies in no other batch. *)
LEMMA InBatch ==
  ASSUME TypeOK, i % QueueSize = 0, NEW k \in 0 .. QueueSize - 1
  PROVE  ((i + k) \div QueueSize) * QueueSize = i
<1>1. i \in Nat /\ QueueSize \in Nat \ {0} BY PlanNumbers
<1>2. PICK q : Divided(i, QueueSize, q, 0) BY DEF Divided
<1>3. q \in Nat /\ i = q * QueueSize + 0 BY <1>1, <1>2, Division
<1>4. PICK x : x = q * QueueSize OBVIOUS
<1>5. x \in Int BY <1>1, <1>3, <1>4
<1>6. i = x BY <1>3, <1>4, <1>5
<1>7. (q * QueueSize + k) \div QueueSize = q BY <1>1, <1>3, DivisionOnly
<1> QED BY <1>4, <1>6, <1>7

(* The blocks of the piece end with the short block. *)
LEMMA BeyondShort ==
  ASSUME TorrentOK, NEW c \in Nat, ShortBlock(piece_no, c)
  PROVE  \A b \in TrueBlocks(piece_no) : b <= c
<1>1. SUFFICES ASSUME NEW b \in TrueBlocks(piece_no), ~(b <= c) PROVE FALSE OBVIOUS
<1>2. b \in Nat BY BlockRange
<1>3. c < b BY <1>1, <1>2
<1> QED BY <1>3, AskedAsHeld

LEMMA RequestPlan == ASSUME TypeOK, PlanInv, Request PROVE PlanInv'
<1>0. PICK c : c = i + j OBVIOUS
<1>1. /\ UNCHANGED <<torrentVars, no_of_blocks, piece_no, i, block_placeholder, outcome, late,
                     stale, held>>
      /\ pc = "request" /\ limit' = c + 1 /\ j < QueueSize
      /\ requested' = requested \cup {<<c, SizeAsked(piece_no, c)>>}
      /\ blocker' = SizeAsked(piece_no, c)
      /\ IF ShortBlock(piece_no, c) THEN pc' = "batch" /\ j' = j
         ELSE j' = j + 1 /\ pc' = pc
  BY <1>0 DEF Request, Room
<1>2. /\ num_blocks' = num_blocks /\ TrueBlocks(piece_no)' = TrueBlocks(piece_no)
      /\ \A b : TrueSize(piece_no, b)' = TrueSize(piece_no, b)
      /\ Rest' = Rest /\ ShortPiece(piece_no)' = ShortPiece(piece_no) /\ Blocks' = Blocks
  BY <1>1, PlanKept DEF torrentVars, Rest, pieceLength, ShortPiece, no_of_pieces, Blocks
<1>3. i % QueueSize = 0 /\ outcome = "none"
  BY <1>1 DEF PlanInv, LimitInv, Fetching
<1>4. /\ TorrentOK /\ i \in Nat /\ j \in Nat /\ QueueSize \in Nat \ {0} /\ c \in Nat
      /\ limit \in Nat /\ c <= i + QueueSize - 1 /\ num_blocks \in Nat
      /\ j \in 0 .. QueueSize - 1
  BY <1>0, <1>1, PlanNumbers
<1>5. c > 0 => limit <= c /\ Reached(c) BY <1>0, <1>1 DEF PlanInv, LimitInv
<1>6. PICK d, e : d = Rest \div BlockSize /\ e = Rest % BlockSize OBVIOUS
<1>7. /\ d \in Nat /\ e \in 0 .. BlockSize - 1 /\ length % BlockSize = e
      /\ ShortBlock(piece_no, c) <=> ShortPiece(piece_no) /\ c = d
  BY <1>4, <1>6, EndBlock
<1>8. ShortPiece(piece_no) => d \notin i .. c - 1
  <2>1. ShortPiece(piece_no) => Rest \div BlockSize \notin i .. i + j - 1
    BY <1>1 DEF PlanInv, LimitInv
  <2>2. i .. i + j - 1 = i .. c - 1
    <3>1. i + j - 1 = c - 1 BY <1>0, <1>4
    <3> QED BY <3>1
  <2> QED BY <1>6, <2>1, <2>2, Zenon
<1>9. LimitInv'
  <2>1. Fetching' => i' % QueueSize = 0 BY <1>1, <1>3
  <2>2. Reached(c + 1)'
    <3>1. \A b \in TrueBlocks(piece_no) : b < c + 1 => b < limit' BY <1>1
    <3>2. (c + 1)' = c + 1 /\ TrueBlocks(piece_no)' = TrueBlocks(piece_no) BY <1>2
    <3> QED BY <3>1, <3>2 DEF Reached
  <2>3. CASE ShortBlock(piece_no, c)
    <3>1. \A b \in TrueBlocks(piece_no) : b < limit'
      <4>1. SUFFICES ASSUME NEW b \in TrueBlocks(piece_no) PROVE b < c + 1 BY <1>1
      <4>2. b \in Nat BY <1>4, BlockRange
      <4> QED BY <1>4, <2>3, <4>2, BeyondShort
    <3>2. \A n : \A b \in TrueBlocks(piece_no) : b < n => b < limit' BY <3>1
    <3>3. (\A b \in TrueBlocks(piece_no) : b < i + QueueSize => b < limit)'
      BY <1>1, <1>2, <3>2
    <3>4. Reached(i + QueueSize)' BY <3>3 DEF Reached
    <3>5. pc' = "batch" /\ limit' <= i + QueueSize BY <1>1, <1>4, <2>3
    <3> QED BY <1>1, <2>1, <3>4, <3>5 DEF LimitInv
  <2>4. CASE ~ShortBlock(piece_no, c)
    <3>1. i' + j' = c + 1 /\ c + 1 > 0 /\ limit' = c + 1 /\ pc' = "request" /\ i' = i
      BY <1>0, <1>1, <1>4, <2>4
    <3>2. (i + j > 0 => limit <= i + j /\ Reached(i + j))'
      <4>1. \A b \in TrueBlocks(piece_no)' : b < i' + j' => b < limit' BY <3>1
      <4> QED BY <3>1, <1>4, <4>1 DEF Reached
    <3>3. (ShortPiece(piece_no) => Rest \div BlockSize \notin i .. i + j - 1)'
      <4>1. ShortPiece(piece_no) => d \notin i .. c BY <1>4, <1>7, <1>8, <2>4
      <4>2. i' .. i' + j' - 1 = i .. c
        <5>1. j' = j + 1 BY <1>1, <2>4
        <5>2. i' + j' - 1 = c BY <1>0, <1>4, <3>1, <5>1
        <5> QED BY <3>1, <5>2
      <4> QED BY <1>2, <1>6, <4>1, <4>2, Zenon
    <3>4. ~(i' + j' = 0) BY <1>4, <3>1
    <3> QED BY <2>1, <3>1, <3>2, <3>3, <3>4 DEF LimitInv
  <2> QED BY <2>3, <2>4
<1>10. AskedInv'
  <2>1. SUFFICES ASSUME NEW b \in TrueBlocks(piece_no)
                 PROVE  <<b, TrueSize(piece_no, b)>> \in requested' <=> b < c + 1
    BY <1>1, <1>2 DEF AskedInv, Asked
  <2>2. b \in Nat BY <1>4, BlockRange
  <2>3. SizeAsked(piece_no, b) = TrueSize(piece_no, b) BY <1>4, AskedAsHeld
  <2>4. <<b, TrueSize(piece_no, b)>> \in requested' <=> Asked(b) \/ b = c
    BY <1>1, <2>3 DEF Asked
  <2>5. CASE c = 0
    <3>1. ~Asked(b) BY <1>0, <1>1, <2>5 DEF PlanInv, LimitInv, Asked
    <3> QED BY <2>2, <2>4, <2>5, <3>1
  <2>6. CASE c > 0
    <3>1. Asked(b) <=> b < limit
      BY <1>0, <1>1, <2>6 DEF PlanInv, AskedInv, Begun, Fetching
    <3>2. limit <= c /\ (b < c => b < limit) BY <1>5, <2>6 DEF Reached
    <3> QED BY <1>4, <2>2, <2>4, <3>1, <3>2
  <2> QED BY <1>4, <2>5, <2>6
<1>11. CellsInv'
  <2>1. \A b : InPlace(b)' = InPlace(b) BY <1>1, <1>2 DEF InPlace
  <2>2. \A b : Asked(b) => Asked(b)' BY <1>1, <1>2 DEF Asked
  <2>3. pc' # "size" BY <1>1
  <2> QED BY <1>1, <1>2, <2>1, <2>2, <2>3 DEF PlanInv, CellsInv, Fetching
<1>12. BlockerInv'
  <2>1. LastBegin' = i
    <3>1. (limit - 1)' = i + j BY <1>0, <1>1, <1>4
    <3> QED BY <1>3, <1>4, <3>1, InBatch DEF LastBegin
  <2>2. EndsShort' <=> ShortPiece(piece_no) /\ d \in i .. c /\ e # 0
    <3>1. (limit - 1)' = c BY <1>1, <1>4
    <3> QED BY <1>2, <1>6, <2>1, <3>1 DEF EndsShort
  <2>3. ShortPiece(piece_no) => (d \in i .. c <=> d = c) BY <1>0, <1>4, <1>7, <1>8
  <2>4. SizeAsked(piece_no, c) = IF ShortBlock(piece_no, c) /\ e # 0 THEN e ELSE BlockSize
    BY <1>7 DEF SizeAsked
  <2> QED BY <1>1, <1>2, <1>6, <1>7, <2>2, <2>3, <2>4 DEF BlockerInv
<1>13. WrittenIfFinishable' BY <1>1, <1>3 DEF WrittenIfFinishable
<1> QED BY <1>1, <1>3, <1>9, <1>10, <1>11, <1>12, <1>13 DEF PlanInv

LEMMA SendPlan == ASSUME TypeOK, PlanInv, SendBatch PROVE PlanInv'
<1>1. /\ UNCHANGED <<torrentVars, piece_no, requested, limit, no_of_blocks, i, j, blocker,
                     outcome, block_placeholder, late, stale, held>>
      /\ pc = "request" /\ pc' = "batch" /\ (j < QueueSize => no_of_blocks <= i + j)
  BY PlanNumbers DEF SendBatch, Room
<1>2. /\ num_blocks' = num_blocks /\ Blocks' = Blocks
      /\ TrueBlocks(piece_no)' = TrueBlocks(piece_no)
      /\ \A b : TrueSize(piece_no, b)' = TrueSize(piece_no, b) /\ Asked(b)' = Asked(b)
      /\ EndsShort' = EndsShort /\ Rest' = Rest
  BY <1>1, SamePlan
<1>3. \A b : InPlace(b)' = InPlace(b) BY <1>1, <1>2 DEF InPlace
<1>4. /\ i \in Nat /\ j \in 0 .. QueueSize /\ QueueSize \in Nat \ {0} /\ limit \in Nat
      /\ no_of_blocks \in Nat \ {0} /\ num_blocks \in Nat \ {0} /\ TorrentOK
  BY PlanNumbers
<1>5. i + j > 0 /\ Begun /\ Begun'
  <2>1. i + j > 0 BY <1>1, <1>4
  <2> QED BY <1>1, <2>1 DEF Begun, Fetching
<1>6. limit <= i + j /\ Reached(i + j) /\ i % QueueSize = 0
  BY <1>1, <1>5 DEF PlanInv, LimitInv, Fetching
<1>7. \/ Reached(i + QueueSize)
      \/ no_of_blocks = HardBlocks /\ HardBlocks < i + QueueSize /\ Reached(HardBlocks)
  <2>1. CASE j = QueueSize BY <1>6, <2>1
  <2>2. CASE j < QueueSize
    <3>1. no_of_blocks <= i + j BY <1>1, <2>2
    <3>2. \A b \in TrueBlocks(piece_no) : b \in Nat /\ b < num_blocks BY <1>4, BlockRange
    <3>3. ASSUME NEW n \in Nat, no_of_blocks = num_blocks \/ n <= no_of_blocks
          PROVE  Reached(n)
      <4>1. \A b \in TrueBlocks(piece_no) : b < n => b < i + j
        BY <1>4, <3>1, <3>2, <3>3
      <4> QED BY <1>6, <4>1 DEF Reached
    <3>4. CASE no_of_blocks = num_blocks BY <1>4, <3>3, <3>4
    <3>5. CASE no_of_blocks = HardBlocks
      <4>1. HardBlocks < i + QueueSize BY <1>4, <2>2, <3>1, <3>5
      <4> QED BY <1>4, <3>3, <3>5, <4>1
    <3> QED BY <3>4, <3>5 DEF TypeOK
  <2> QED BY <1>4, <2>1, <2>2
<1>8. LimitInv'
  <2>1. \A n : Reached(n) => \A b \in TrueBlocks(piece_no)' : b < n => b < limit'
    BY <1>1, <1>2 DEF Reached
  <2>2. Reached(i + QueueSize) => Reached(i + QueueSize)' BY <1>1, <2>1 DEF Reached
  <2>3. Reached(HardBlocks) => Reached(HardBlocks)' BY <2>1 DEF Reached
  <2>4. limit' <= i' + QueueSize BY <1>1, <1>4, <1>6
  <2> QED BY <1>1, <1>6, <1>7, <2>2, <2>3, <2>4 DEF LimitInv
<1>9. AskedInv' BY <1>1, <1>2, <1>5 DEF PlanInv, AskedInv
<1>10. BlockerInv' BY <1>1, <1>2, <1>5 DEF PlanInv, BlockerInv
<1>11. CellsInv' BY <1>1, <1>2, <1>3 DEF PlanInv, CellsInv, Fetching
<1>12. outcome' = "none" BY <1>1 DEF PlanInv, Fetching
<1> QED BY <1>8, <1>9, <1>10, <1>11, <1>12 DEF PlanInv, WrittenIfFinishable

LEMMA PopPlan ==
  ASSUME TypeOK, NEW p \in 0 .. no_of_pieces - 1, Pop(p) PROVE PlanInv'
<1>1. /\ UNCHANGED <<torrentVars, no_of_blocks, block_placeholder>> /\ piece_no' = p
      /\ i' = 0 /\ pc' = "request" /\ late' = FALSE
      /\ requested' = {} /\ outcome' = "none"
      /\ held' = { b \in TrueBlocks(p) :
                     block_placeholder[b] = [piece |-> p, size |-> TrueSize(p, b)] }
      /\ stale' = \E b \in Blocks \ TrueBlocks(p) : block_placeholder[b].size > 0
  BY DEF Pop
<1>2. TrueBlocks(p)' = TrueBlocks(p) /\ \A b : TrueSize(p, b)' = TrueSize(p, b)
  BY <1>1 DEF torrentVars, TrueBlocks, TrueSize, ShortPiece, Rest, Blocks, no_of_pieces,
              pieceLength
<1>3. TrueBlocks(piece_no)' = TrueBlocks(p) /\ Blocks' = Blocks
  BY <1>1, <1>2 DEF TrueBlocks, TrueSize, ShortPiece, torrentVars, Blocks
<1>4. \A b : TrueSize(piece_no, b)' = TrueSize(p, b)
  BY <1>1, <1>2 DEF TrueSize, ShortPiece
<1>5. 0 % QueueSize = 0 BY PlanNumbers
<1>6. LimitInv'
  <2>1. j' = 0 /\ i' + j' = 0 /\ 0 .. (i' + j') - 1 = {} BY <1>1 DEF Pop
  <2> QED BY <1>1, <1>5, <2>1 DEF LimitInv
<1>7. AskedInv' /\ BlockerInv'
  <2>1. ~Begun' BY <1>1 DEF Pop, Begun
  <2> QED BY <2>1 DEF AskedInv, BlockerInv
<1>8. CellsInv'
  <2>1. \A b \in TrueBlocks(piece_no)' : InPlace(b)' <=> b \in held'
    BY <1>1, <1>3, <1>4 DEF InPlace
  <2>2. stale' <=> (\E b \in Blocks \ TrueBlocks(piece_no) : block_placeholder[b].size > 0)'
    BY <1>1, <1>3
  <2>3. \A b : ~Asked(b)' BY <1>1 DEF Asked
  <2> QED BY <2>1, <2>2, <2>3 DEF CellsInv
<1>9. WrittenIfFinishable' BY <1>1 DEF WrittenIfFinishable
<1> QED BY <1>1, <1>6, <1>7, <1>8, <1>9 DEF PlanInv

LEMMA ServePlan ==
  ASSUME TypeOK, PlanInv, NEW c \in Blocks, Serve(c) PROVE PlanInv'
<1>1. /\ UNCHANGED <<torrentVars, piece_no, requested, limit, no_of_blocks, i, j, blocker,
                     outcome, pc, late, stale, held>>
      /\ pc = "batch" /\ Asked(c)
      /\ block_placeholder' = [block_placeholder EXCEPT ![c] =
                                 [piece |-> piece_no, size |-> TrueSize(piece_no, c)]]
  BY DEF Serve, Asked
<1>2. /\ num_blocks' = num_blocks /\ Blocks' = Blocks
      /\ TrueBlocks(piece_no)' = TrueBlocks(piece_no)
      /\ \A b : TrueSize(piece_no, b)' = TrueSize(piece_no, b) /\ Asked(b)' = Asked(b)
      /\ EndsShort' = EndsShort /\ Rest' = Rest
  BY <1>1, SamePlan
<1>3. c \in TrueBlocks(piece_no)
  <2>1. TrueSize(piece_no, c) \in 1 .. BlockSize BY <1>1 DEF Asked, TypeOK
  <2>2. TrueSize(piece_no, c) > 0 BY <2>1
  <2> QED BY <2>2 DEF TrueBlocks
<1>4. /\ InPlace(c)'
      /\ \A b \in Blocks : b # c => /\ InPlace(b)' = InPlace(b)
                                    /\ block_placeholder'[b] = block_placeholder[b]
  BY <1>1, <1>2 DEF InPlace, TypeOK
<1>5. TrueBlocks(piece_no) \subseteq Blocks BY DEF TrueBlocks
<1>6. CellsInv'
  <2>1. ASSUME NEW b \in TrueBlocks(piece_no)
        PROVE  /\ InPlace(b)' => b \in held \/ Asked(b)
               /\ b \in held => InPlace(b)'
    <3>1. CASE b = c BY <1>1, <1>4, <3>1
    <3>2. CASE b # c
      <4>1. InPlace(b)' = InPlace(b) BY <1>4, <1>5, <3>2
      <4> QED BY <1>1, <4>1 DEF PlanInv, CellsInv, Fetching
    <3> QED BY <3>1, <3>2
  <2>2. \A b \in Blocks \ TrueBlocks(piece_no) : block_placeholder'[b] = block_placeholder[b]
    BY <1>3, <1>4
  <2>3. stale <=> \E b \in Blocks \ TrueBlocks(piece_no) : block_placeholder[b].size > 0
    BY <1>1 DEF PlanInv, CellsInv, Fetching
  <2>4. stale <=> \E b \in Blocks \ TrueBlocks(piece_no) : block_placeholder'[b].size > 0
    BY <2>2, <2>3
  <2> QED BY <1>1, <1>2, <2>1, <2>4 DEF CellsInv
<1>7. LimitInv' BY <1>1, <1>2 DEF PlanInv, LimitInv, Fetching, Reached
<1>8. AskedInv' /\ BlockerInv'
  BY <1>1, <1>2 DEF PlanInv, AskedInv, BlockerInv, Begun, Fetching
<1>9. outcome' = "none" BY <1>1 DEF PlanInv, Fetching
<1> QED BY <1>6, <1>7, <1>8, <1>9 DEF PlanInv, WrittenIfFinishable

LEMMA EndBatchPlan == ASSUME TypeOK, PlanInv, EndBatch PROVE PlanInv'
<1>1. /\ UNCHANGED <<torrentVars, piece_no, requested, limit, no_of_blocks, blocker, outcome,
                     block_placeholder, stale, held>>
      /\ pc = "batch" /\ i' = i + QueueSize
      /\ pc' = IF i' < no_of_blocks THEN "request" ELSE "size"
      /\ late' = (late \/ \E b \in TrueBlocks(piece_no) : Asked(b) /\ ~InPlace(b))
  BY DEF EndBatch, Asked, InPlace
<1>2. /\ num_blocks' = num_blocks /\ Blocks' = Blocks
      /\ TrueBlocks(piece_no)' = TrueBlocks(piece_no)
      /\ \A b : TrueSize(piece_no, b)' = TrueSize(piece_no, b) /\ Asked(b)' = Asked(b)
      /\ EndsShort' = EndsShort /\ Rest' = Rest
  BY <1>1, SamePlan
<1>3. \A b : InPlace(b)' = InPlace(b) BY <1>1, <1>2 DEF InPlace
<1>4. /\ i \in Nat /\ QueueSize \in Nat \ {0} /\ limit \in Nat
      /\ no_of_blocks \in Nat \ {0} /\ num_blocks \in Nat \ {0}
  BY PlanNumbers
<1>5. i' > 0 /\ j' = 0 /\ i' + j' = i' /\ pc' \in {"request", "size"} /\ Begun' /\ Begun
  <2>1. i' > 0 /\ j' = 0 /\ i' + j' = i' BY <1>1, <1>4 DEF EndBatch
  <2> QED BY <1>1, <2>1 DEF Begun, Fetching
<1>6. LimitInv'
  <2>1. i' % QueueSize = 0
    <3>1. i % QueueSize = 0 BY <1>1 DEF PlanInv, LimitInv, Fetching
    <3>2. PICK k : Divided(i, QueueSize, k, 0) BY <3>1 DEF Divided
    <3>3. k \in Nat /\ i = k * QueueSize + 0 BY <1>4, <3>2, Division
    <3>4. \A q \in Nat \ {0} : k * q + 0 + q = (k + 1) * q + 0 BY <3>3, SMT
    <3>5. k + 1 \in Nat /\ 0 \in 0 .. QueueSize - 1 BY <1>4, <3>3
    <3>6. ((k + 1) * QueueSize + 0) % QueueSize = 0 BY <1>4, <3>5, DivisionOnly
    <3> QED BY <1>1, <1>4, <3>3, <3>4, <3>6
  <2>2. /\ limit <= i'
        /\ \/ Reached(i')
           \/ no_of_blocks = HardBlocks /\ HardBlocks < i' /\ Reached(HardBlocks)
    BY <1>1 DEF PlanInv, LimitInv
  <2>3. PICK n : n = i' OBVIOUS
  <2>4. CASE i' < no_of_blocks
    <3>1. Reached(n) /\ limit <= n /\ pc' = "request" BY <1>1, <1>4, <2>2, <2>3, <2>4
    <3>2. (limit <= i + j /\ Reached(i + j))' BY <1>1, <1>2, <1>5, <2>3, <3>1 DEF Reached
    <3>3. (Rest \div BlockSize \notin i .. i + j - 1)'
      <4>1. \A m \in Nat : \A z : z \notin m .. m - 1 OBVIOUS
      <4>2. i' \in Nat BY <1>1, <1>4
      <4> QED BY <1>5, <4>1, <4>2
    <3> QED BY <1>5, <2>1, <3>1, <3>2, <3>3 DEF LimitInv
  <2>5. CASE ~(i' < no_of_blocks)
    <3>1. pc' = "size" BY <1>1, <2>5
    <3>2. ASSUME no_of_blocks >= num_blocks PROVE Reached(num_blocks)
      <4>1. \A b \in TrueBlocks(piece_no) : b \in Nat /\ b < num_blocks
        BY PlanNumbers, BlockRange
      <4>2. CASE Reached(n) BY <1>1, <1>4, <2>3, <2>5, <3>2, <4>1, <4>2 DEF Reached
      <4>3. CASE no_of_blocks = HardBlocks /\ Reached(HardBlocks)
        BY <1>4, <3>2, <4>1, <4>3 DEF Reached
      <4> QED BY <2>2, <2>3, <4>2, <4>3
    <3>3. Reached(num_blocks)' = Reached(num_blocks) BY <1>1, <1>2 DEF Reached
    <3> QED BY <1>1, <1>2, <2>1, <3>1, <3>2, <3>3 DEF LimitInv
  <2> QED BY <2>4, <2>5
<1>7. AskedInv' BY <1>2, <1>5, <1>1 DEF PlanInv, AskedInv
<1>8. BlockerInv' BY <1>1, <1>2, <1>5 DEF PlanInv, BlockerInv
<1>9. CellsInv' BY <1>1, <1>2, <1>3, <1>5 DEF PlanInv, CellsInv, Fetching
<1>10. outcome' = "none" BY <1>1 DEF PlanInv, Fetching
<1> QED BY <1>6, <1>7, <1>8, <1>9, <1>10 DEF PlanInv, WrittenIfFinishable

LEMMA FailPlan == ASSUME Fail PROVE PlanInv'
<1>1. pc' = "end" /\ late' = TRUE BY DEF Fail
<1> QED BY <1>1 DEF PlanInv, LimitInv, AskedInv, CellsInv, BlockerInv, WrittenIfFinishable,
                    Begun, Fetching

LEMMA WritePlan == ASSUME TypeOK, PlanInv, OtherWrites PROVE PlanInv'
<1>1. /\ UNCHANGED <<torrentVars, piece_no, requested, limit, i, j, blocker, outcome, pc,
                     block_placeholder, late, stale, held>>
      /\ no_of_blocks # HardBlocks /\ no_of_blocks' = HardBlocks /\ no_of_blocks = num_blocks
  BY DEF OtherWrites, TypeOK
<1>2. /\ num_blocks' = num_blocks /\ Blocks' = Blocks
      /\ TrueBlocks(piece_no)' = TrueBlocks(piece_no)
      /\ \A b : TrueSize(piece_no, b)' = TrueSize(piece_no, b) /\ Asked(b)' = Asked(b)
      /\ EndsShort' = EndsShort /\ Rest' = Rest
      /\ ShortPiece(piece_no)' = ShortPiece(piece_no)
      /\ Finishable(piece_no)' = Finishable(piece_no)
  BY <1>1, SamePlan
<1>3. \A b : InPlace(b)' = InPlace(b) BY <1>1, <1>2 DEF InPlace
<1>4. LimitInv'
  <2>1. \A n : Reached(n) => \A b \in TrueBlocks(piece_no)' : b < n => b < limit'
    BY <1>1, <1>2 DEF Reached
  <2>2. /\ Reached(i + j) => Reached(i + j)'
        /\ Reached(i + QueueSize) => Reached(i + QueueSize)'
        /\ Reached(num_blocks) => Reached(num_blocks)'
    BY <1>1, <1>2, <2>1 DEF Reached
  <2>3. pc = "batch" => limit <= i + QueueSize /\ Reached(i + QueueSize)
    BY <1>1 DEF PlanInv, LimitInv
  <2>4. pc = "size" => Reached(num_blocks)
    <3>1. no_of_blocks >= num_blocks BY <1>1, PlanNumbers
    <3> QED BY <3>1 DEF PlanInv, LimitInv
  <2> QED BY <1>1, <1>2, <2>2, <2>3, <2>4 DEF PlanInv, LimitInv, Fetching
<1>5. AskedInv' /\ BlockerInv'
  BY <1>1, <1>2 DEF PlanInv, AskedInv, BlockerInv, Begun, Fetching
<1>6. CellsInv' BY <1>1, <1>2, <1>3 DEF PlanInv, CellsInv, Fetching
<1>7. WrittenIfFinishable' BY <1>1, <1>2 DEF PlanInv, WrittenIfFinishable
<1> QED BY <1>1, <1>4, <1>5, <1>6, <1>7 DEF PlanInv, Fetching

-----------------------------------------------------------------------------
(* The size of the piece.                                                  *)

LessThan == { pair \in Nat \X Nat : pair[1] < pair[2] }

(* A set of numbers has a least one: how the inductions below are done.    *)
LEMMA LeastNumber ==
  ASSUME NEW S, S \subseteq Nat, S # {}
  PROVE  \E k \in S : \A m \in S : k <= m
<1>1. IsWellFoundedOn(LessThan, Nat) BY NatLessThanWellFounded DEF OpToRel, LessThan
<1>2. PICK k \in S : \A m \in S : <<m, k>> \notin LessThan BY <1>1, WFMin
<1>3. ASSUME NEW m \in S PROVE k <= m
  <2>1. m \in Nat /\ k \in Nat /\ <<m, k>> \in Nat \X Nat OBVIOUS
  <2> QED BY <1>2, <2>1 DEF LessThan
<1> QED BY <1>3

Sums(cells, s, n) == s = [k \in 0 .. n |-> IF k = 0 THEN 0 ELSE s[k - 1] + cells[k - 1].size]

(* The recursion of Appended has a solution. *)
LEMMA SumsExist ==
  ASSUME NEW cells, NEW m \in Nat
  PROVE  \E s : Sums(cells, s, m)
<1> DEFINE Bad == { n \in Nat : ~ \E s : Sums(cells, s, n) }
<1>1. SUFFICES ASSUME Bad # {} PROVE FALSE OBVIOUS
<1>2. PICK n \in Bad : \A k \in Bad : n <= k BY <1>1, LeastNumber
<1>3. n \in Nat /\ ~ \E s : Sums(cells, s, n) OBVIOUS
<1>4. n # 0
  <2>1. Sums(cells, [k \in 0 .. 0 |-> 0], 0) BY DEF Sums
  <2> QED BY <1>3, <2>1
<1>5. n - 1 \in Nat /\ n - 1 \notin Bad BY <1>2, <1>3, <1>4
<1>6. PICK s : Sums(cells, s, n - 1) BY <1>5
<1> DEFINE t == [k \in 0 .. n |-> IF k = n THEN s[n - 1] + cells[n - 1].size ELSE s[k]]
<1>7. ASSUME NEW k \in 0 .. n PROVE t[k] = IF k = 0 THEN 0 ELSE t[k - 1] + cells[k - 1].size
  <2>1. CASE k = n BY <1>4, <2>1
  <2>2. CASE k # n
    <3>1. k \in 0 .. n - 1 /\ t[k] = s[k] BY <1>3, <2>2
    <3>2. s[k] = IF k = 0 THEN 0 ELSE s[k - 1] + cells[k - 1].size BY <1>6, <3>1 DEF Sums
    <3>3. k # 0 => t[k - 1] = s[k - 1] BY <3>1
    <3> QED BY <3>1, <3>2, <3>3
  <2> QED BY <2>1, <2>2
<1>8. Sums(cells, t, n) BY <1>7 DEF Sums
<1> QED BY <1>3, <1>8

LEMMA AppendedAre ==
  ASSUME num_blocks \in Nat
  PROVE  /\ Appended[0] = 0
         /\ \A n \in 1 .. num_blocks :
              Appended[n] = Appended[n - 1] + block_placeholder[n - 1].size
<1>1. PICK t : Sums(block_placeholder, t, num_blocks) BY SumsExist
<1>2. Appended = CHOOSE s : Sums(block_placeholder, s, num_blocks)
  BY DEF Appended, Sums
<1>3. Sums(block_placeholder, Appended, num_blocks) BY <1>1, <1>2
<1>4. \A n \in 0 .. num_blocks :
        Appended[n] = IF n = 0 THEN 0 ELSE Appended[n - 1] + block_placeholder[n - 1].size
  BY <1>3 DEF Sums
<1> QED BY <1>4

(* Cells with the bytes of the torrent add up to the bytes it has there. *)
LEMMA TrueSum ==
  ASSUME TypeOK, HashMatches
  PROVE  Downloaded = IF ShortPiece(piece_no) THEN Rest ELSE pieceLength
<1> DEFINE Held(n) == IF ShortPiece(piece_no) /\ Rest < n * BlockSize THEN Rest
                      ELSE n * BlockSize
           Bad == { n \in 0 .. num_blocks : Appended[n] # Held(n) }
<1>1. /\ TorrentOK /\ num_blocks \in Nat \ {0} /\ BlockSize \in Nat \ {0}
      /\ Rest \in Nat /\ pieceLength \in Nat \ {0} /\ Rest < pieceLength
  <2>1. TorrentOK BY PlanNumbers
  <2>2. PICK q, r : Divided(length, pieceLength, q, r) BY DEF Divided
  <2>3. r \in 0 .. pieceLength - 1 /\ pieceLength \in Nat \ {0}
    BY <2>1, <2>2, Division, LengthsOK
  <2>4. Rest = r BY <2>2 DEF Rest, Divided
  <2> QED BY <2>1, <2>3, <2>4, PlanNumbers
<1>2. \A b \in Blocks : block_placeholder[b].size = TrueSize(piece_no, b)
  <2>1. ASSUME NEW b \in Blocks PROVE block_placeholder[b].size = TrueSize(piece_no, b)
    <3>1. CASE b \in TrueBlocks(piece_no)
      <4>1. block_placeholder[b] = [piece |-> piece_no, size |-> TrueSize(piece_no, b)]
        BY <3>1 DEF HashMatches
      <4> QED BY <4>1
    <3>2. CASE b \notin TrueBlocks(piece_no)
      <4>1. TrueSize(piece_no, b) \in 0 .. BlockSize BY <1>1, TrueSizeOK DEF Blocks
      <4>2. TrueSize(piece_no, b) = 0 BY <1>1, <3>2, <4>1 DEF TrueBlocks
      <4> QED BY <3>2, <4>2 DEF HashMatches
    <3> QED BY <3>1, <3>2
  <2> QED BY <2>1
<1>3. /\ Appended[0] = 0
      /\ \A n \in 1 .. num_blocks :
           Appended[n] = Appended[n - 1] + block_placeholder[n - 1].size
  BY <1>1, AppendedAre
<1>4. 0 \notin Bad
  <2>1. 0 * BlockSize = 0 /\ ~(Rest < 0) BY <1>1
  <2> QED BY <1>3, <2>1
<1>5. ASSUME NEW n \in 1 .. num_blocks, Appended[n - 1] = Held(n - 1)
      PROVE  Appended[n] = Held(n)
  <2>1. n - 1 \in Blocks /\ (n - 1) + 1 = n /\ n \in Nat BY <1>1 DEF Blocks
  <2>2. Appended[n] = Held(n - 1) + TrueSize(piece_no, n - 1)
    BY <1>2, <1>3, <1>5, <2>1
  <2>3. PICK x, y : x = (n - 1) * BlockSize /\ y = n * BlockSize OBVIOUS
  <2>4. x \in Int /\ y = x + BlockSize
    <3>1. \A m \in Nat \ {0}, d \in Nat \ {0} :
            (m - 1) * d \in Int /\ m * d = (m - 1) * d + d
      BY SMT
    <3>2. n \in Nat \ {0} BY <2>1
    <3> QED BY <1>1, <2>3, <3>1, <3>2
  <2>5. TrueSize(piece_no, n - 1) =
          IF ~ShortPiece(piece_no) \/ y <= Rest THEN BlockSize
          ELSE IF x < Rest THEN Rest - x ELSE 0
    BY <2>1, <2>3 DEF TrueSize
  <2>6. /\ Held(n - 1) = IF ShortPiece(piece_no) /\ Rest < x THEN Rest ELSE x
        /\ Held(n) = IF ShortPiece(piece_no) /\ Rest < y THEN Rest ELSE y
    BY <2>3
  <2> HIDE DEF Held
  <2> QED BY <1>1, <2>2, <2>4, <2>5, <2>6
<1>6. Bad = {}
  <2>1. SUFFICES ASSUME Bad # {} PROVE FALSE OBVIOUS
  <2>2. Bad \subseteq Nat BY <1>1
  <2> HIDE DEF Bad
  <2>3. PICK n \in Bad : \A m \in Bad : n <= m BY <2>1, <2>2, LeastNumber
  <2>4. n \in 0 .. num_blocks /\ Appended[n] # Held(n) BY DEF Bad
  <2>5. n \in 1 .. num_blocks BY <1>1, <1>4, <2>4
  <2>6. n - 1 \notin Bad /\ n - 1 \in 0 .. num_blocks BY <1>1, <2>2, <2>3, <2>5
  <2>7. Appended[n - 1] = Held(n - 1) BY <2>6 DEF Bad
  <2> QED BY <1>5, <2>4, <2>5, <2>7
<1>7. Downloaded = Held(num_blocks)
  <2>1. num_blocks \in 0 .. num_blocks BY <1>1
  <2> QED BY <1>6, <2>1 DEF Downloaded
<1>8. num_blocks * BlockSize = pieceLength BY DEF pieceLength
<1> QED BY <1>1, <1>7, <1>8

LEMMA CheckPlan == ASSUME TypeOK, PlanInv, CheckSize PROVE PlanInv'
<1>1. /\ UNCHANGED <<torrentVars, piece_no, requested, limit, late, stale, held>>
      /\ pc = "size" /\ pc' = "end"
      /\ outcome' = IF Downloaded = SizeExpected /\ HashMatches THEN "written" ELSE "putback"
  BY DEF CheckSize
<1>2. Finishable(piece_no)' = Finishable(piece_no) BY <1>1, SamePlan
<1>3. SUFFICES ASSUME ~late
               PROVE  Downloaded = SizeExpected /\ HashMatches
                        <=> Finishable(piece_no) /\ ~stale
  BY <1>1, <1>2 DEF PlanInv, LimitInv, AskedInv, CellsInv, BlockerInv, WrittenIfFinishable,
                    Begun, Fetching
<1>4. Begun BY <1>1 DEF Begun, Fetching
<1>5. HashMatches <=> ~stale /\ \A b \in TrueBlocks(piece_no) : b < limit \/ b \in held
  <2>1. \A b \in TrueBlocks(piece_no) : InPlace(b) <=> b < limit \/ b \in held
    BY <1>1, <1>3, <1>4 DEF PlanInv, AskedInv, CellsInv, Fetching
  <2>2. stale <=> \E b \in Blocks \ TrueBlocks(piece_no) : block_placeholder[b].size > 0
    BY <1>1 DEF PlanInv, CellsInv, Fetching
  <2>3. \A b \in Blocks : block_placeholder[b].size > 0 <=> block_placeholder[b].size # 0
    <3>1. \A b \in Blocks : block_placeholder[b].size \in 0 .. BlockSize BY DEF TypeOK
    <3> QED BY <3>1, PlanNumbers
  <2>4. HashMatches <=> /\ \A b \in TrueBlocks(piece_no) : InPlace(b)
                        /\ \A b \in Blocks \ TrueBlocks(piece_no) : block_placeholder[b].size = 0
    BY DEF HashMatches, InPlace, TrueBlocks
  <2> QED BY <2>1, <2>2, <2>3, <2>4
<1>6. ASSUME HashMatches
      PROVE  Downloaded = SizeExpected <=>
               (ShortPiece(piece_no) => /\ Rest % BlockSize # 0
                                        /\ Rest \div BlockSize \in LastBegin .. limit - 1)
  <2>1. Downloaded = IF ShortPiece(piece_no) THEN Rest ELSE pieceLength BY <1>6, TrueSum
  <2>2. blocker = IF EndsShort THEN Rest % BlockSize ELSE BlockSize
    BY <1>4 DEF PlanInv, BlockerInv
  <2>3. PICK d, r, x : d = Rest \div BlockSize /\ r = Rest % BlockSize /\ x = d * BlockSize
    OBVIOUS
  <2>4. d \in Nat /\ r \in 0 .. BlockSize - 1 /\ Rest = x + r /\ BlockSize \in Nat \ {0}
    BY <2>3, PlanNumbers, EndBlock
  <2>5. x \in Int
    <3>1. \A u, v \in Nat : u * v \in Int BY SMT
    <3> QED BY <2>3, <2>4, <3>1
  <2>6. CASE ShortPiece(piece_no)
    <3>1. SizeExpected = x + blocker BY <2>3, <2>6 DEF SizeExpected
    <3>2. blocker = IF EndsShort THEN r ELSE BlockSize BY <2>2, <2>3
    <3>3. EndsShort <=> d \in LastBegin .. limit - 1 /\ r # 0 BY <2>3, <2>6 DEF EndsShort
    <3>4. Downloaded = SizeExpected <=> blocker = r
      BY <2>1, <2>4, <2>5, <2>6, <3>1, <3>2
    <3>5. blocker = r <=> EndsShort BY <2>4, <3>2
    <3> QED BY <2>3, <2>6, <3>3, <3>4, <3>5
  <2>7. CASE ~ShortPiece(piece_no)
    BY <2>1, <2>7 DEF SizeExpected
  <2> QED BY <2>6, <2>7
<1> QED BY <1>5, <1>6 DEF Finishable

LEMMA StepPlan == ASSUME TypeOK, PlanInv, [Next]_vars PROVE PlanInv'
<1>1. CASE UNCHANGED vars
  <2>1. /\ num_blocks' = num_blocks /\ Blocks' = Blocks /\ Rest' = Rest
        /\ TrueBlocks(piece_no)' = TrueBlocks(piece_no)
        /\ \A b : TrueSize(piece_no, b)' = TrueSize(piece_no, b) /\ Asked(b)' = Asked(b)
        /\ EndsShort' = EndsShort /\ Finishable(piece_no)' = Finishable(piece_no)
        /\ ShortPiece(piece_no)' = ShortPiece(piece_no)
    BY <1>1, SamePlan DEF vars
  <2>3. \A b : InPlace(b)' = InPlace(b) BY <1>1, <2>1 DEF vars, InPlace
  <2>4. LimitInv' BY <1>1, <2>1 DEF vars, PlanInv, LimitInv, Fetching, Reached
  <2>5. AskedInv' /\ BlockerInv'
    BY <1>1, <2>1 DEF vars, PlanInv, AskedInv, BlockerInv, Begun, Fetching
  <2>6. CellsInv' BY <1>1, <2>1, <2>3 DEF vars, PlanInv, CellsInv, Fetching
  <2>7. WrittenIfFinishable' BY <1>1, <2>1 DEF vars, PlanInv, WrittenIfFinishable
  <2> QED BY <1>1, <2>4, <2>5, <2>6, <2>7 DEF vars, PlanInv, Fetching
<1> QED BY <1>1, PopPlan, RequestPlan, SendPlan, ServePlan, EndBatchPlan, FailPlan, CheckPlan, WritePlan
        DEF Next, Finished

LEMMA InitPlan == Init => PlanInv
BY DEF Init, PlanInv, LimitInv, AskedInv, CellsInv, BlockerInv, WrittenIfFinishable, Begun,
       Fetching

(* By the time the size of a piece is compared, each of its blocks has     *)
(* been asked for with the size it has in the torrent, for every length of *)
(* the torrent, size of a batch and moment at which another thread writes, *)
(* unless no_of_blocks is below the torrent's (peer.cpp:301-316).          *)
THEOREM EveryBlockAsked == Spec => []CoversPiece
<1>1. Init => PlanInv BY InitPlan
<1>2. TypeOK /\ PlanInv => CoversPiece
  <2>1. SUFFICES ASSUME TypeOK, PlanInv, pc = "size", no_of_blocks >= num_blocks,
                        NEW b \in TrueBlocks(piece_no)
                 PROVE  Asked(b)
    BY DEF CoversPiece, Asked
  <2>2. b < num_blocks BY <2>1, PlanNumbers, BlockRange
  <2>3. b < limit BY <2>1, <2>2 DEF PlanInv, LimitInv, Reached
  <2> QED BY <2>1, <2>3 DEF PlanInv, AskedInv, Begun, Fetching
<1> QED BY <1>1, <1>2, InitTypes, StepTypes, StepPlan, PTL DEF Spec

(* Which pieces the code can finish, for every length of the torrent, size *)
(* of a block, of a piece and of a batch: with a peer that served each     *)
(* request in time, a piece is written exactly when its blocks were all    *)
(* asked for or already there, and, if it is the short last one, its last  *)
(* block is short and lies in the last batch that had a request, so that   *)
(* blocker still is its size when peer.cpp:386 reads it.                   *)
THEOREM ExactlyFinishable == Spec => []WrittenIfFinishable
<1>1. Init => PlanInv BY InitPlan
<1>2. PlanInv => WrittenIfFinishable BY DEF PlanInv
<1> QED BY <1>1, <1>2, InitTypes, StepTypes, StepPlan, PTL DEF Spec
=============================================================================
