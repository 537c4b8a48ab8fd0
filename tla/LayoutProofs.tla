---------------------------- MODULE LayoutProofs ----------------------------
(* Theorems about FileLayout, for every value of its constants and every   *)
(* torrent: any number of files of any length, empty ones too, and pieces  *)
(* of any size.                                                            *)
EXTENDS FileLayout, FiniteSetTheorems, WellFoundedInduction, TLAPS

-----------------------------------------------------------------------------
(* Numbers.                                                                *)

LessThan == { pair \in Nat \X Nat : pair[1] < pair[2] }

(* A set of numbers has a least one: how the inductions below are done.    *)
LEMMA LeastNumber ==
  ASSUME NEW S, S \subseteq Nat, S # {}
  PROVE  \E k \in S : \A j \in S : k <= j
<1>1. IsWellFoundedOn(LessThan, Nat) BY NatLessThanWellFounded DEF OpToRel, LessThan
<1>2. PICK k \in S : \A j \in S : <<j, k>> \notin LessThan BY <1>1, WFMin
<1>3. ASSUME NEW j \in S PROVE k <= j
  <2>1. j \in Nat /\ k \in Nat /\ <<j, k>> \in Nat \X Nat OBVIOUS
  <2> QED BY <1>2, <2>1 DEF LessThan
<1> QED BY <1>3

LEMMA ProductOK ==
  ASSUME NEW x \in Nat, NEW y \in Nat
  PROVE  x * y \in Nat
BY SMT

(* The multiples of d lie d apart. *)
LEMMA Apart ==
  ASSUME NEW x \in Int, NEW y \in Int, NEW d \in Nat \ {0}, x < y
  PROVE  x * d \in Int /\ y * d \in Int /\ x * d + d <= y * d
<1>1. x + 1 <= y OBVIOUS
<1> QED BY <1>1, SMT

Divided(n, d, q, r) == q = n \div d /\ r = n % d

LEMMA Division ==
  ASSUME NEW n \in Nat, NEW d \in Nat \ {0}, NEW q, NEW r, Divided(n, d, q, r)
  PROVE  q \in Nat /\ r \in 0 .. d - 1 /\ n = q * d + r
<1>0. q = n \div d /\ r = n % d BY DEF Divided
<1>1. r \in 0 .. d - 1 /\ n = q * d + r /\ q \in Int BY <1>0, SMT
<1>2. q >= 0
  <2>1. SUFFICES ASSUME q < 0 PROVE FALSE BY <1>1
  <2>2. PICK x : x = q * d OBVIOUS
  <2>3. x \in Int /\ x + d <= 0 * d BY <1>1, <2>1, <2>2, Apart
  <2>4. 0 * d = 0 OBVIOUS
  <2>5. n = x + r BY <1>1, <2>2
  <2> QED BY <1>1, <2>3, <2>4, <2>5
<1> QED BY <1>1, <1>2

LEMMA Remainder ==
  ASSUME NEW q \in Nat, NEW d \in Nat \ {0}, NEW r \in 0 .. d - 1
  PROVE  (q * d + r) \div d = q /\ (q * d + r) % d = r
BY SMT

(* A number is in one place of one multiple. *)
LEMMA OnePlace ==
  ASSUME NEW d \in Nat \ {0}, NEW p \in Nat, NEW q \in Nat,
         NEW i \in 0 .. d - 1, NEW j \in 0 .. d - 1, p * d + i = q * d + j
  PROVE  p = q /\ i = j
<1>1. PICK x, y : x = p * d /\ y = q * d OBVIOUS
<1>2. x \in Nat /\ y \in Nat BY <1>1, ProductOK
<1>3. ~(p < q)
  <2>1. p < q => x + d <= y BY <1>1, Apart
  <2> QED BY <1>1, <1>2, <2>1
<1>4. ~(q < p)
  <2>1. q < p => y + d <= x BY <1>1, Apart
  <2> QED BY <1>1, <1>2, <2>1
<1>5. p = q BY <1>3, <1>4
<1> QED BY <1>1, <1>2, <1>5

(* What comes out of an int. *)
LEMMA IntOK ==
  ASSUME NEW n \in Int, n >= -IntLimit
  PROVE  /\ InInt(n) \in -IntLimit .. IntLimit - 1
         /\ n < IntLimit => InInt(n) = n
         /\ n = IntLimit => InInt(n) = -IntLimit
<1>1. PICK d, m, q, r : d = 2 * IntLimit /\ m = n + IntLimit /\ Divided(m, d, q, r)
  BY DEF Divided
<1>2. d \in Nat \ {0} /\ m \in Nat /\ IntLimit \in Nat BY <1>1, LayoutAssumption
<1>3. q \in Nat /\ r \in 0 .. d - 1 /\ m = q * d + r BY <1>1, <1>2, Division
<1>4. InInt(n) = r - IntLimit BY <1>1 DEF InInt, Divided
<1>5. r \in Int /\ 0 <= r /\ r < 2 * IntLimit BY <1>1, <1>2, <1>3
<1>6. m < d => r = m
  <2>1. SUFFICES ASSUME m < d PROVE r = m OBVIOUS
  <2>2. m \in 0 .. d - 1 BY <1>2, <2>1
  <2>3. 0 * d + m = m BY <1>2
  <2> QED BY <1>2, <1>3, <2>2, <2>3, OnePlace
<1>7. m = d => r = 0
  <2>1. SUFFICES ASSUME m = d PROVE r = 0 OBVIOUS
  <2>2. 0 \in 0 .. d - 1 /\ 1 * d + 0 = m BY <1>2, <2>1
  <2> QED BY <1>2, <1>3, <2>2, OnePlace
<1> QED BY <1>1, <1>2, <1>4, <1>5, <1>6, <1>7

-----------------------------------------------------------------------------
(* Where the files begin.                                                  *)

TorrentOK ==
  /\ mode \in {"SINGLE", "MULTIPLE"}
  /\ length_list \in Seq(Nat) /\ Len(length_list) >= 1
  /\ mode = "SINGLE" => Len(length_list) = 1
  /\ pieceLength \in Nat \ {0}

Sums(l, s, n) == s = [k \in 0 .. n |-> IF k = 0 THEN 0 ELSE s[k - 1] + l[k]]

(* The recursion of len_culmulative has a solution. *)
LEMMA SumsExist ==
  ASSUME NEW l, l \in Seq(Nat), NEW m \in Nat
  PROVE  \E s : Sums(l, s, m)
<1> DEFINE Bad == { n \in Nat : ~ \E s : Sums(l, s, n) }
<1>1. SUFFICES ASSUME Bad # {} PROVE FALSE OBVIOUS
<1>2. PICK n \in Bad : \A k \in Bad : n <= k BY <1>1, LeastNumber
<1>3. n \in Nat /\ ~ \E s : Sums(l, s, n) OBVIOUS
<1>4. n # 0
  <2>1. Sums(l, [k \in 0 .. 0 |-> 0], 0) BY DEF Sums
  <2> QED BY <1>3, <2>1
<1>5. n - 1 \in Nat /\ n - 1 \notin Bad BY <1>2, <1>3, <1>4
<1>6. PICK s : Sums(l, s, n - 1) BY <1>5
<1> DEFINE t == [k \in 0 .. n |-> IF k = n THEN s[n - 1] + l[n] ELSE s[k]]
<1>7. ASSUME NEW k \in 0 .. n PROVE t[k] = IF k = 0 THEN 0 ELSE t[k - 1] + l[k]
  <2>1. CASE k = n BY <1>4, <2>1
  <2>2. CASE k # n
    <3>1. k \in 0 .. n - 1 /\ t[k] = s[k] BY <1>3, <2>2
    <3>2. s[k] = IF k = 0 THEN 0 ELSE s[k - 1] + l[k] BY <1>6, <3>1 DEF Sums
    <3>3. k # 0 => t[k - 1] = s[k - 1] BY <3>1
    <3> QED BY <3>1, <3>2, <3>3
  <2> QED BY <2>1, <2>2
<1>8. Sums(l, t, n) BY <1>7 DEF Sums
<1> QED BY <1>3, <1>8

LEMMA BeginningsAre ==
  ASSUME TorrentOK
  PROVE  Sums(length_list, len_culmulative, Len(length_list))
<1>1. Len(length_list) \in Nat BY DEF TorrentOK
<1>2. PICK t : Sums(length_list, t, Len(length_list)) BY <1>1, SumsExist DEF TorrentOK
<1>3. len_culmulative = CHOOSE s : Sums(length_list, s, Len(length_list))
  BY DEF len_culmulative, Sums
<1> QED BY <1>2, <1>3

LEMMA Beginnings ==
  ASSUME TorrentOK
  PROVE  /\ len_culmulative[0] = 0
         /\ \A k \in 0 .. Len(length_list) : len_culmulative[k] \in Nat
         /\ \A k \in Files : /\ length_list[k] \in Nat
                             /\ len_culmulative[k] = len_culmulative[k - 1] + length_list[k]
<1> DEFINE N == Len(length_list)
<1>1. N \in Nat /\ \A k \in 1 .. N : length_list[k] \in Nat BY DEF TorrentOK
<1>2. \A k \in 0 .. N : len_culmulative[k] =
                           IF k = 0 THEN 0 ELSE len_culmulative[k - 1] + length_list[k]
  BY BeginningsAre DEF Sums
<1>3. len_culmulative[0] = 0 BY <1>1, <1>2
<1>4. \A k \in 1 .. N : len_culmulative[k] = len_culmulative[k - 1] + length_list[k]
  BY <1>1, <1>2
<1> DEFINE Bad == { k \in 0 .. N : len_culmulative[k] \notin Nat }
<1>5. Bad = {}
  <2>1. SUFFICES ASSUME Bad # {} PROVE FALSE OBVIOUS
  <2>2. Bad \subseteq Nat OBVIOUS
  <2>3. PICK k \in Bad : \A j \in Bad : k <= j BY <2>1, <2>2, LeastNumber
  <2>4. k \in 1 .. N BY <1>1, <1>3
  <2>5. k - 1 \in 0 .. N /\ k - 1 \notin Bad BY <1>1, <2>3, <2>4
  <2> QED BY <1>1, <1>4, <2>4, <2>5
<1> QED BY <1>1, <1>3, <1>4, <1>5 DEF Files

(* A later file begins later. *)
LEMMA Ascending ==
  ASSUME TorrentOK, NEW f \in 0 .. Len(length_list), NEW g \in f .. Len(length_list)
  PROVE  len_culmulative[f] <= len_culmulative[g]
<1> DEFINE N == Len(length_list)
           Bad == { k \in f .. N : len_culmulative[k] < len_culmulative[f] }
<1>1. N \in Nat BY DEF TorrentOK
<1>2. \A k \in 0 .. N : len_culmulative[k] \in Nat BY Beginnings
<1>3. Bad = {}
  <2>1. SUFFICES ASSUME Bad # {} PROVE FALSE OBVIOUS
  <2>2. Bad \subseteq Nat BY <1>1
  <2>3. PICK k \in Bad : \A j \in Bad : k <= j BY <2>1, <2>2, LeastNumber
  <2>4. k # f BY <1>2
  <2>5. k - 1 \in f .. N /\ k \in 1 .. N BY <1>1, <2>4
  <2>6. k - 1 \notin Bad BY <1>1, <2>3, <2>5
  <2>7. len_culmulative[k] = len_culmulative[k - 1] + length_list[k] /\ length_list[k] \in Nat
    BY <2>5, Beginnings DEF Files
  <2>8. len_culmulative[k - 1] \in Nat /\ len_culmulative[f] \in Nat BY <1>1, <1>2, <2>5
  <2> QED BY <2>5, <2>6, <2>7, <2>8
<1>4. g \notin Bad BY <1>3
<1> QED BY <1>1, <1>2, <1>4

LEMMA LengthOK ==
  ASSUME TorrentOK
  PROVE  /\ length \in Nat
         /\ \A k \in 0 .. Len(length_list) : len_culmulative[k] <= length
<1>1. Len(length_list) \in Nat BY DEF TorrentOK
<1>2. length \in Nat BY <1>1, Beginnings DEF length
<1>3. ASSUME NEW k \in 0 .. Len(length_list) PROVE len_culmulative[k] <= length
  <2>1. Len(length_list) \in k .. Len(length_list) BY <1>1
  <2> QED BY <2>1, Ascending DEF length
<1> QED BY <1>2, <1>3

(* A byte lies in one file. *)
LEMMA OneFile ==
  ASSUME TorrentOK, NEW f \in Files, NEW g \in Files, NEW n \in Int,
         len_culmulative[f - 1] <= n, n < len_culmulative[f],
         len_culmulative[g - 1] <= n, n < len_culmulative[g]
  PROVE  f = g
<1>1. Len(length_list) \in Nat BY DEF TorrentOK
<1>2. \A k \in 0 .. Len(length_list) : len_culmulative[k] \in Nat BY Beginnings
<1>3. ASSUME NEW a \in Files, NEW b \in Files, a < b
      PROVE  len_culmulative[a] <= len_culmulative[b - 1]
  <2>1. a \in 0 .. Len(length_list) /\ b - 1 \in a .. Len(length_list) BY <1>1, <1>3 DEF Files
  <2> QED BY <2>1, Ascending
<1>4. f \in Int /\ g \in Int /\ len_culmulative[f] \in Int /\ len_culmulative[g] \in Int
      /\ len_culmulative[f - 1] \in Int /\ len_culmulative[g - 1] \in Int
  BY <1>1, <1>2 DEF Files
<1>5. ~(f < g) BY <1>3, <1>4
<1>6. ~(g < f) BY <1>3, <1>4
<1> QED BY <1>4, <1>5, <1>6

-----------------------------------------------------------------------------
(* The pieces and their bytes.                                             *)

LEMMA PieceOK ==
  ASSUME TorrentOK, NEW p \in Pieces
  PROVE  /\ p \in Nat /\ p * pieceLength \in Nat
         /\ PieceSize(p) \in 1 .. pieceLength
         /\ p * pieceLength + PieceSize(p) <= length
<1>1. pieceLength \in Nat \ {0} /\ length \in Nat BY LengthOK DEF TorrentOK
<1>2. PICK m, n, r : /\ m = length + pieceLength - 1
                     /\ Divided(m, pieceLength, n, r)
  BY DEF Divided
<1>3. n = no_of_pieces BY <1>2 DEF no_of_pieces, Divided
<1>4. m \in Nat BY <1>1, <1>2
<1>5. n \in Nat /\ r \in 0 .. pieceLength - 1 /\ m = n * pieceLength + r
  BY <1>1, <1>2, <1>4, Division
<1>6. p \in Nat /\ p < n BY <1>3, <1>5 DEF Pieces
<1>7. PICK c, x, y, z : /\ c = n - 1
                        /\ x = p * pieceLength /\ y = c * pieceLength /\ z = n * pieceLength
  OBVIOUS
<1>14. c \in Nat /\ c < n BY <1>5, <1>6, <1>7
<1>8. x \in Nat BY <1>1, <1>6, <1>7, ProductOK
<1>9. y + pieceLength <= z /\ y \in Nat /\ z \in Nat
  BY <1>1, <1>5, <1>7, <1>14, Apart, ProductOK
<1>10. z = y + pieceLength
  <2>1. \A a \in Int, d \in Int : (a + 1) * d = a * d + d BY SMT
  <2>2. c \in Int /\ c + 1 = n BY <1>5, <1>7
  <2>3. (c + 1) * pieceLength = c * pieceLength + pieceLength BY <1>1, <2>1, <2>2
  <2> QED BY <1>7, <2>2, <2>3
<1>11. length = y + r + 1 BY <1>1, <1>2, <1>5, <1>7, <1>9, <1>10
<1>12. CASE p = n - 1
  <2>1. x = y BY <1>7, <1>12, Zenon
  <2>2. PICK q, t : Divided(length, pieceLength, q, t) BY DEF Divided
  <2>3. q \in Nat /\ t \in 0 .. pieceLength - 1 /\ length = q * pieceLength + t
    BY <1>1, <2>2, Division
  <2>4. t = Rest BY <2>2 DEF Divided, Rest
  <2>5. CASE r + 1 < pieceLength
    <3>1. PICK s : s = r + 1 OBVIOUS
    <3>2. s \in 0 .. pieceLength - 1 /\ s # 0 BY <1>1, <1>5, <2>5, <3>1
    <3>3. c * pieceLength + s = q * pieceLength + t
      <4>1. y + s = length BY <1>5, <1>9, <1>11, <3>1
      <4> QED BY <1>7, <2>3, <4>1, Zenon
    <3>5. t = s BY <1>1, <1>14, <2>3, <3>2, <3>3, OnePlace
    <3>4. PieceSize(p) = r + 1 BY <1>3, <1>12, <2>4, <3>1, <3>2, <3>5 DEF PieceSize
    <3> QED BY <1>1, <1>5, <1>6, <1>7, <1>8, <1>11, <2>1, <3>4
  <2>6. CASE r + 1 = pieceLength
    <3>1. 0 \in 0 .. pieceLength - 1 /\ n \in Nat BY <1>1, <1>5
    <3>2. n * pieceLength + 0 = q * pieceLength + t
      <4>1. z + 0 = length BY <1>1, <1>5, <1>9, <1>10, <1>11, <2>6
      <4> QED BY <1>7, <2>3, <4>1, Zenon
    <3>3. t = 0 BY <1>1, <2>3, <3>1, <3>2, OnePlace
    <3>4. PieceSize(p) = pieceLength BY <2>4, <3>3 DEF PieceSize
    <3> QED BY <1>1, <1>5, <1>6, <1>7, <1>8, <1>11, <2>1, <2>6, <3>4
  <2> QED BY <1>1, <1>5, <2>5, <2>6
<1>13. CASE p # n - 1
  <2>1. p < c BY <1>5, <1>6, <1>7, <1>13
  <2>2. x + pieceLength <= y BY <1>1, <1>6, <1>7, <1>14, <2>1, Apart
  <2>3. PieceSize(p) = pieceLength BY <1>3, <1>13 DEF PieceSize
  <2> QED BY <1>1, <1>5, <1>6, <1>7, <1>8, <1>9, <1>11, <2>2, <2>3
<1> QED BY <1>12, <1>13

LEMMA OnePiece ==
  ASSUME TorrentOK, NEW p \in Pieces, NEW q \in Pieces,
         NEW i \in 0 .. PieceSize(p) - 1, NEW j \in 0 .. PieceSize(q) - 1,
         p * pieceLength + i = q * pieceLength + j
  PROVE  p = q /\ i = j
<1>1. pieceLength \in Nat \ {0} /\ p \in Nat /\ q \in Nat BY PieceOK DEF TorrentOK
<1>2. i \in 0 .. pieceLength - 1 /\ j \in 0 .. pieceLength - 1
  <2>1. PieceSize(p) \in 1 .. pieceLength /\ PieceSize(q) \in 1 .. pieceLength BY PieceOK
  <2> QED BY <1>1, <2>1
<1> QED BY <1>1, <1>2, OnePlace

(* Where writePieceToFile takes a piece to begin. *)
LEMMA BeginOK ==
  ASSUME TorrentOK, NEW p \in Nat
  PROVE  /\ FirstByte(p, HardBlocks) \in -IntLimit .. IntLimit - 1
         /\ Placed(p) => FirstByte(p, HardBlocks) = p * pieceLength
<1>1. HardBlocks \in Nat /\ BlockSize \in Nat /\ p * HardBlocks \in Nat
  BY ProductOK, LayoutAssumption
<1>2. p * HardBlocks * BlockSize \in Nat BY <1>1, ProductOK
<1>3. p * HardBlocks * BlockSize = p * (HardBlocks * BlockSize)
  <2>1. \A a, b, c \in Nat : a * b * c = a * (b * c) BY SMT
  <2> QED BY <1>1, <2>1
<1>4. IntLimit \in Nat BY LayoutAssumption
<1> QED BY <1>2, <1>3, <1>4, IntOK DEF FirstByte, Placed

LEMMA HardPiece ==
  /\ HardBlocks * BlockSize \in Nat \ {0}
  /\ IntLimit \in Nat \ {0}
  /\ \E k \in Nat \ {0} : IntLimit = k * (HardBlocks * BlockSize)
<1>1. \A x, y \in Nat \ {0} : x * y \in Nat \ {0} BY SMT
<1>2. HardBlocks * BlockSize \in Nat \ {0} BY <1>1, LayoutAssumption
<1>3. IntLimit \in Nat \ {0} /\ IntLimit % (HardBlocks * BlockSize) = 0 BY LayoutAssumption
<1>4. PICK d, q, r : d = HardBlocks * BlockSize /\ Divided(IntLimit, d, q, r) BY DEF Divided
<1>5. q \in Nat /\ IntLimit = q * d + r /\ r = 0
  <2>1. d \in Nat \ {0} /\ IntLimit \in Nat BY <1>2, <1>3, <1>4
  <2>2. r = 0 BY <1>3, <1>4, Zenon DEF Divided
  <2>3. Divided(IntLimit, d, q, r) BY <1>4
  <2> QED BY <2>1, <2>2, <2>3, Division
<1>6. q # 0
  <2>1. 0 * d = 0 BY <1>2, <1>4
  <2> QED BY <1>2, <1>3, <1>4, <1>5, <2>1
<1>7. IntLimit = q * d
  <2>1. q * d \in Nat BY <1>2, <1>4, <1>5, ProductOK
  <2> QED BY <1>5, <2>1
<1>8. IntLimit = q * (HardBlocks * BlockSize) BY <1>4, <1>7, Zenon
<1> QED BY <1>2, <1>3, <1>5, <1>6, <1>8, Zenon

(* A piece that begins below the limit of an int ends there: the limit is  *)
(* a multiple of its size.                                                 *)
LEMMA EndsBelowLimit ==
  ASSUME TorrentOK, NEW p \in Pieces, Placed(p)
  PROVE  p * pieceLength + pieceLength <= IntLimit
<1>1. pieceLength = HardBlocks * BlockSize /\ p * pieceLength < IntLimit BY DEF Placed
<1>2. PICK k \in Nat \ {0} : IntLimit = k * pieceLength BY <1>1, HardPiece
<1>3. p \in Nat /\ pieceLength \in Nat \ {0} BY PieceOK DEF TorrentOK
<1>4. p < k
  <2>1. SUFFICES ASSUME k <= p PROVE FALSE BY <1>2, <1>3
  <2>2. k = p => FALSE
    <3>1. p * pieceLength \in Int BY <1>3
    <3> QED BY <1>1, <1>2, <3>1
  <2>3. k < p => FALSE
    <3>1. PICK x, y : x = k * pieceLength /\ y = p * pieceLength OBVIOUS
    <3>2. k < p => x \in Int /\ y \in Int /\ x + pieceLength <= y BY <1>2, <1>3, <3>1, Apart
    <3> QED BY <1>1, <1>2, <1>3, <3>1, <3>2
  <2> QED BY <1>2, <1>3, <2>1, <2>2, <2>3
<1> QED BY <1>2, <1>3, <1>4, Apart

-----------------------------------------------------------------------------
(* What a stream does to a file.                                           *)

LEMMA WrittenOK ==
  ASSUME NEW S, Hole \in S, NEW content \in Seq(S), NEW bytes \in Seq(S), NEW offset \in Nat,
         NEW after, after = Written(content, offset, bytes)
  PROVE  /\ after \in Seq(S)
         /\ Len(after) = IF offset + Len(bytes) > Len(content)
                         THEN offset + Len(bytes) ELSE Len(content)
         /\ \A k \in 1 .. Len(after) :
              after[k] = IF offset < k /\ k <= offset + Len(bytes) THEN bytes[k - offset]
                         ELSE IF k <= Len(content) THEN content[k] ELSE Hole
<1> DEFINE stop == offset + Len(bytes)
           N == IF stop > Len(content) THEN stop ELSE Len(content)
           F(k) == IF offset < k /\ k <= stop THEN bytes[k - offset]
                   ELSE IF k <= Len(content) THEN content[k] ELSE Hole
<1>1. Len(content) \in Nat /\ Len(bytes) \in Nat /\ N \in Nat OBVIOUS
<1>2. after = [k \in 1 .. N |-> F(k)] BY DEF Written
<1>3. \A k \in 1 .. N : F(k) \in S OBVIOUS
<1> HIDE DEF N, F
<1>4. after \in Seq(S) /\ Len(after) = N BY <1>1, <1>2, <1>3
<1> QED BY <1>2, <1>4 DEF N, F

LEMMA DropOK ==
  ASSUME NEW S, NEW s \in Seq(S), NEW n \in 0 .. Len(s), NEW t, t = SubSeq(s, n + 1, Len(s))
  PROVE  /\ t \in Seq(S) /\ Len(t) = Len(s) - n
         /\ \A k \in 1 .. Len(t) : t[k] = s[n + k]
<1>1. Len(s) \in Nat /\ n \in Nat /\ \A k \in 1 .. Len(s) : s[k] \in S OBVIOUS
<1>2. t = [k \in 1 .. Len(s) - n |-> s[n + k]]
  <2>1. t = [k \in 1 .. Len(s) - (n + 1) + 1 |-> s[n + 1 + k - 1]] BY <1>1
  <2>2. Len(s) - (n + 1) + 1 = Len(s) - n BY <1>1
  <2>3. \A k \in Int : n + 1 + k - 1 = n + k BY <1>1
  <2> QED BY <2>1, <2>2, <2>3
<1>3. \A k \in 1 .. Len(s) - n : n + k \in 1 .. Len(s) BY <1>1
<1>4. Len(s) - n \in Nat BY <1>1
<1>5. t \in Seq(S) BY <1>1, <1>2, <1>3, <1>4
<1> QED BY <1>2, <1>4, <1>5

LEMMA ReadOK ==
  ASSUME NEW S, Hole \in S, NEW content \in Seq(S), NEW offset \in Nat, NEW m \in Nat
  PROVE  /\ Read(content, offset, m) \in Seq(S) /\ Len(Read(content, offset, m)) = m
         /\ \A k \in 1 .. m :
              Read(content, offset, m)[k] = IF offset + k <= Len(content)
                                            THEN content[offset + k] ELSE Hole
<1>1. PICK got : got = Read(content, offset, m) OBVIOUS
<1>2. got = [k \in 1 .. m |-> IF offset + k <= Len(content) THEN content[offset + k] ELSE Hole]
  BY <1>1 DEF Read
<1>3. \A k \in 1 .. m : got[k] \in S BY <1>2
<1>4. got \in Seq(S) /\ Len(got) = m BY <1>2, <1>3
<1> QED BY <1>1, <1>2, <1>4

-----------------------------------------------------------------------------
(* The inductive invariant.                                                *)

Numbers == (0 .. length - 1) \cup {Hole}

(* The pieces whose bytes may be in the files. *)
Attempted == on_disk \cup IF op \in {"write", "undefined"} THEN {call.piece} ELSE {}

DiskOK ==
  /\ DOMAIN files = IF op = "none" THEN {} ELSE Files
  /\ \A f \in DOMAIN files : files[f] \in Seq(Numbers)
  /\ failed \subseteq Files
  /\ Attempted \subseteq Pieces
  /\ no_of_blocks \in Nat /\ (Attempted # {} => no_of_blocks = HardBlocks)

(* The k-th byte of file f is one of piece p, as far behind the place      *)
(* where writePieceToFile takes the piece to begin as it is in the piece.  *)
FromPiece(f, k, p) ==
  \E j \in 0 .. PieceSize(p) - 1 :
    /\ files[f][k] = p * pieceLength + j
    /\ len_culmulative[f - 1] + k - 1 = FirstByte(p, HardBlocks) + j

(* Placed or not, a piece is nowhere but behind that place. *)
Positioned ==
  \A f \in DOMAIN files : \A k \in 1 .. Len(files[f]) :
    files[f][k] = Hole \/ \E p \in Attempted : FromPiece(f, k, p)

(* A placed piece is read where it is, block by block. *)
ReadsBlock ==
  Placed(call.piece) =>
    \E b \in 0 .. HardBlocks - 1 :
      LET rest == PieceSize(call.piece) - b * BlockSize
      IN  /\ call.first = call.piece * pieceLength + b * BlockSize
          /\ rest > 0
          /\ call.len = IF rest < BlockSize THEN rest ELSE BlockSize

CallOK ==
  /\ op \in {"none", "idle", "write", "read", "send", "undefined"}
  /\ call \in [piece : Nat, first : -IntLimit .. IntLimit - 1, len : 0 .. pieceLength]
  /\ op = "none" => /\ on_disk = {} /\ failed = {} /\ data = <<>>
                    /\ call.piece = 0 /\ call.len = 0 /\ start_file = 1
  /\ op = "idle" => call.piece \in on_disk \cup {0}
  /\ op = "write" => /\ call.first = FirstByte(call.piece, HardBlocks)
                     /\ call.len = PieceSize(call.piece)
  /\ op \in {"read", "send"} => call.piece \in on_disk /\ ReadsBlock

(* How many bytes of the call are through. *)
Done == IF op = "write" THEN call.len - Len(data) ELSE Len(data)

(* The offset in the current file is the place in the torrent, and lies    *)
(* inside the file wherever the search or the last turn has set it.        *)
LoopOK ==
  /\ data \in Seq(Numbers)
  /\ start \in -IntLimit .. IntLimit - 1
  /\ start_file \in 1 .. Len(length_list) + 1
  /\ op \in {"none", "idle", "send"} => start_file \in Files
  /\ op \in {"write", "read"} =>
       /\ Done \in 0 .. call.len - 1
       /\ len_culmulative[start_file - 1] + start = call.first + Done
       /\ mode = "SINGLE" \/ start < 0 => start_file = 1
       /\ mode = "MULTIPLE" /\ start > 0 => /\ start_file \in Files
                                            /\ start < length_list[start_file]
  /\ op = "write" =>
       \A k \in 1 .. Len(data) : data[k] = call.piece * pieceLength + Done + k - 1
  /\ op = "send" => Len(data) = call.len

(* Byte n of the torrent is in its place. *)
Held(n) ==
  \E f \in Files : \E j \in 1 .. Len(files[f]) :
    files[f][j] = n /\ len_culmulative[f - 1] + j - 1 = n

(* No byte is written beyond the end of its file. *)
Inside ==
  \A f \in DOMAIN files : \A k \in 1 .. Len(files[f]) :
    files[f][k] # Hole => k <= length_list[f]

(* As long as all pieces are placed. *)
PlacedOK ==
  AllPlaced =>
    /\ op # "undefined"
    /\ failed = {}
    /\ Inside
    /\ \A p \in on_disk : \A k \in 0 .. PieceSize(p) - 1 : Held(p * pieceLength + k)
    /\ op = "write" => \A k \in 0 .. Done - 1 : Held(call.first + k)
    /\ op \in {"read", "send"} => \A k \in 1 .. Len(data) : data[k] = call.first + k - 1

LayoutInv == TorrentOK /\ DiskOK /\ Positioned /\ CallOK /\ LoopOK /\ PlacedOK

-----------------------------------------------------------------------------
(* What does not change with the torrent.                                  *)

LEMMA SameTorrent ==
  ASSUME UNCHANGED torrentVars
  PROVE  /\ TorrentOK' = TorrentOK
         /\ Files' = Files /\ Pieces' = Pieces /\ Numbers' = Numbers
         /\ len_culmulative' = len_culmulative /\ length' = length
         /\ \A p : PieceSize(p)' = PieceSize(p)
         /\ \A p : Placed(p)' = Placed(p)
<1>1. len_culmulative' = len_culmulative BY DEF torrentVars, len_culmulative
<1>2. length' = length BY <1>1 DEF torrentVars, length
<1>3. no_of_pieces' = no_of_pieces /\ Rest' = Rest
  BY <1>2 DEF torrentVars, no_of_pieces, Rest
<1> QED BY <1>1, <1>2, <1>3
        DEF torrentVars, TorrentOK, Files, Pieces, Numbers, PieceSize, Placed

(* The search: the byte as an offset into the first file that ends behind  *)
(* it, or a byte behind the torrent.                                       *)
LEMMA LocateOK ==
  ASSUME TorrentOK, NEW n \in -IntLimit .. IntLimit - 1, NEW next, Locate(n, next)
  PROVE  \/ /\ op' = next
            /\ start_file' \in Files /\ start' \in -IntLimit .. IntLimit - 1
            /\ len_culmulative[start_file' - 1] + start' = n
            /\ mode = "SINGLE" \/ start' < 0 => start_file' = 1
            /\ mode = "MULTIPLE" => start' < length_list[start_file']
         \/ /\ op' = "undefined" /\ UNCHANGED <<start_file, start>>
            /\ length <= n
<1>1. Len(length_list) \in Nat /\ Len(length_list) >= 1 /\ IntLimit \in Nat
  BY LayoutAssumption DEF TorrentOK
<1>2. len_culmulative[0] = 0 /\ \A k \in 0 .. Len(length_list) : len_culmulative[k] \in Nat
  BY Beginnings
<1>3. CASE /\ mode = "SINGLE"
           /\ start_file' = 1 /\ start' = n /\ op' = next
  BY <1>1, <1>2, <1>3 DEF Files
<1>4. ASSUME NEW f \in Files, mode = "MULTIPLE",
             Holds(f, n), \A g \in 1 .. f - 1 : ~Holds(g, n),
             start_file' = f, start' = n - len_culmulative[f - 1], op' = next
      PROVE  /\ start' \in -IntLimit .. IntLimit - 1
             /\ len_culmulative[f - 1] + start' = n
             /\ start' < length_list[f]
             /\ start' < 0 => f = 1
  <2>1. f \in 1 .. Len(length_list) /\ f - 1 \in 0 .. Len(length_list) BY <1>1 DEF Files
  <2>2. len_culmulative[f - 1] \in Nat BY <1>2, <2>1
  <2>3. len_culmulative[f] = len_culmulative[f - 1] + length_list[f] /\ length_list[f] \in Nat
    BY Beginnings
  <2>4. n < len_culmulative[f - 1] + length_list[f] BY <1>4, <2>3 DEF Holds
  <2>5. \/ f = 1 /\ len_culmulative[f - 1] = 0
        \/ len_culmulative[f - 1] <= n
    <3>1. CASE f = 1 BY <1>2, <3>1
    <3>2. CASE f # 1
      <4>1. f - 1 \in 1 .. f - 1 BY <2>1, <3>2
      <4> QED BY <1>4, <2>2, <4>1 DEF Holds
    <3> QED BY <3>1, <3>2
  <2> QED BY <1>1, <1>4, <2>2, <2>3, <2>4, <2>5
<1>5. CASE /\ mode = "MULTIPLE"
           /\ \A f \in Files : ~Holds(f, n)
           /\ op' = "undefined" /\ UNCHANGED <<start_file, start>>
  <2>1. Len(length_list) \in Files BY <1>1 DEF Files
  <2>2. ~(n < length) BY <1>5, <2>1 DEF Holds, length
  <2> QED BY <1>5, <2>2, LengthOK
<1> QED BY <1>3, <1>4, <1>5 DEF Locate

(* A turn of either loop. *)
LEMMA TurnOK ==
  ASSUME TorrentOK, CallOK, LoopOK, op \in {"write", "read"}, ~OutOfFiles, NextFile,
         NEW rest, rest = call.len - Done, NEW n, n = Share(rest)
  PROVE  /\ start_file \in Files /\ rest \in 1 .. call.len /\ n \in 0 .. rest
         /\ start_file' \in 1 .. Len(length_list) + 1 /\ start' \in -IntLimit .. IntLimit - 1
         /\ Fits => n = rest /\ UNCHANGED <<start_file, start>>
         /\ ~Fits => /\ n < rest /\ mode = "MULTIPLE" /\ start' = 0
                     /\ len_culmulative[start_file' - 1] + start' = call.first + Done + n
         /\ n = 0 => start <= 0
         /\ mode = "MULTIPLE" => start + n <= length_list[start_file]
         /\ start + n = call.first + Done + n - len_culmulative[start_file - 1]
<1>1. /\ Len(length_list) \in Nat /\ start_file \in Nat
      /\ start_file \in 1 .. Len(length_list) + 1
      /\ mode \in {"SINGLE", "MULTIPLE"}
  BY DEF TorrentOK, LoopOK
<1>2. start_file \in Files BY <1>1 DEF Files, OutOfFiles
<1>3. Done \in 0 .. call.len - 1 /\ call.len \in Nat /\ call.first \in Int /\ start \in Int
      /\ len_culmulative[start_file - 1] + start = call.first + Done
      /\ IntLimit \in Nat \ {0}
  BY LayoutAssumption DEF LoopOK, CallOK, TorrentOK
<1>4. rest \in 1 .. call.len BY <1>3
<1>5. start_file - 1 \in 0 .. Len(length_list) /\ start_file \in 0 .. Len(length_list)
  BY <1>1, <1>2 DEF Files
<1>6. /\ len_culmulative[start_file - 1] \in Nat /\ length_list[start_file] \in Nat
      /\ len_culmulative[start_file] = len_culmulative[start_file - 1] + length_list[start_file]
  BY <1>2, <1>5, Beginnings
<1>7. mode = "MULTIPLE" /\ start > 0 => start < length_list[start_file] BY DEF LoopOK
<1>10. Done \in Int BY <1>3
<1>8. CASE Fits
  <2>1. n = rest /\ UNCHANGED <<start_file, start>> BY <1>8 DEF Share, NextFile
  <2>2. mode = "MULTIPLE" => call.first + call.len - 1 < len_culmulative[start_file]
    BY <1>8 DEF Fits, Holds
  <2>3. start \in -IntLimit .. IntLimit - 1 BY DEF LoopOK
  <2>4. /\ start_file' \in 1 .. Len(length_list) + 1 /\ start' \in -IntLimit .. IntLimit - 1
    BY <1>1, <2>1, <2>3
  <2>5. mode = "MULTIPLE" => start + n <= length_list[start_file]
    BY <1>3, <1>4, <1>6, <2>1, <2>2
  <2>6. n \in 0 .. rest /\ n # 0 BY <1>4, <2>1
  <2>7. start + n = call.first + Done + n - len_culmulative[start_file - 1]
    BY <1>3, <1>4, <1>6, <1>10, <2>6
  <2> QED BY <1>2, <1>4, <1>8, <2>1, <2>4, <2>5, <2>6, <2>7, Zenon
<1>9. CASE ~Fits
  <2>1. /\ n = length_list[start_file] - start
        /\ start_file' = start_file + 1 /\ start' = 0
    BY <1>9 DEF Share, NextFile
  <2>2. mode = "MULTIPLE" /\ ~(call.first + call.len - 1 < len_culmulative[start_file])
    BY <1>1, <1>9 DEF Fits, Holds
  <2>3. n \in Int /\ n >= 0 /\ n < rest /\ (n = 0 => start <= 0)
    BY <1>3, <1>6, <1>7, <2>1, <2>2
  <2>4. start_file' - 1 = start_file /\ start_file' \in 1 .. Len(length_list) + 1
    BY <1>1, <1>5, <2>1
  <2>5. len_culmulative[start_file' - 1] + start' = call.first + Done + n
    <3>1. len_culmulative[start_file' - 1] = len_culmulative[start_file] BY <2>4, Zenon
    <3>2. len_culmulative[start_file] + 0 = call.first + Done + n BY <1>3, <1>6, <1>10, <2>1
    <3> QED BY <2>1, <3>1, <3>2, Zenon
  <2>6. start' \in -IntLimit .. IntLimit - 1 BY <1>3, <2>1
  <2>7. start + n <= length_list[start_file] /\ n \in 0 .. rest BY <1>3, <1>4, <1>6, <2>1, <2>3
  <2>8. start + n = call.first + Done + n - len_culmulative[start_file - 1]
    BY <1>3, <1>6, <1>10, <2>3
  <2> QED BY <1>2, <1>4, <1>9, <2>1, <2>2, <2>3, <2>4, <2>5, <2>6, <2>7, <2>8, Zenon
<1> QED BY <1>8, <1>9

-----------------------------------------------------------------------------
(* The steps that begin something.                                         *)

LEMMA InitLayout == Blank => LayoutInv
<1> SUFFICES ASSUME Blank PROVE LayoutInv OBVIOUS
<1>1. Len(length_list) = 1 /\ length_list \in Seq(Nat) /\ IntLimit \in Nat \ {0}
  BY LayoutAssumption DEF Blank
<1>2. TorrentOK BY <1>1 DEF Blank, TorrentOK
<1>3. files = <<>> /\ DOMAIN files = {} /\ Attempted = {} BY DEF Blank, Attempted
<1>4. DiskOK /\ Positioned BY <1>3, LayoutAssumption DEF Blank, DiskOK, Positioned
<1>5. CallOK BY <1>1 DEF Blank, CallOK
<1>6. LoopOK BY <1>1 DEF Blank, LoopOK, Files
<1>7. PlacedOK BY <1>3 DEF Blank, PlacedOK, Inside
<1> QED BY <1>2, <1>4, <1>5, <1>6, <1>7 DEF LayoutInv

LEMMA OpenLayout == ASSUME LayoutInv, Open PROVE LayoutInv'
<1>1. PICK m \in {"SINGLE", "MULTIPLE"}, lengths \in Seq(Nat), size \in Nat \ {0} :
        /\ \E f \in DOMAIN lengths : lengths[f] > 0
        /\ m = "SINGLE" => Len(lengths) = 1
        /\ \E old \in [DOMAIN lengths -> Nat] : Create(m, lengths, size, old)
  BY DEF Open
<1>0. PICK old \in [DOMAIN lengths -> Nat] : Create(m, lengths, size, old) BY <1>1
<1>2. op = "none" /\ op' = "idle" /\ UNCHANGED <<failed, on_disk, call, start_file, start, data>>
  BY <1>0 DEF Create
<1>3. failed = {} /\ on_disk = {} /\ data = <<>> /\ call.piece = 0 /\ call.len = 0
      /\ start_file = 1 /\ call \in [piece : Nat, first : -IntLimit .. IntLimit - 1,
                                     len : 0 .. pieceLength]
  BY <1>2 DEF LayoutInv, CallOK
<1>4. Len(lengths) \in Nat /\ Len(lengths) >= 1 BY <1>1
<1>5. TorrentOK' BY <1>0, <1>1, <1>4 DEF Create, TorrentOK
<1>6. Attempted' = {} BY <1>2, <1>3 DEF Attempted
<1>7. /\ DOMAIN files' = Files' /\ DOMAIN lengths = Files'
      /\ \A f \in DOMAIN files' : files'[f] = [k \in 1 .. old[f] |-> Hole]
  BY <1>0, <1>4 DEF Create, Files
<1>13. ASSUME NEW f \in DOMAIN files'
       PROVE  files'[f] \in Seq({Hole}) /\ \A k \in 1 .. Len(files'[f]) : files'[f][k] = Hole
  <2>1. PICK n \in Nat : n = old[f] BY <1>7
  <2>2. files'[f] = [k \in 1 .. n |-> Hole] BY <1>7, <2>1
  <2>3. PICK S : S = {Hole} OBVIOUS
  <2>4. files'[f] \in Seq(S) /\ Len(files'[f]) = n BY <2>1, <2>2, <2>3
  <2> QED BY <2>2, <2>3, <2>4
<1>8. DiskOK'
  <2>1. BlockSize \in Nat \ {0} /\ size \in Nat /\ no_of_blocks' = size \div BlockSize
    BY <1>0, LayoutAssumption DEF Create
  <2>2. PICK r : Divided(size, BlockSize, no_of_blocks', r) BY <2>1 DEF Divided
  <2>3. no_of_blocks' \in Nat BY <2>1, <2>2, Division
  <2>4. \A f \in DOMAIN files' : files'[f] \in Seq(Numbers')
    <3>1. Seq({Hole}) \subseteq Seq(Numbers') BY DEF Numbers
    <3> QED BY <1>13, <3>1
  <2>5. DOMAIN files' = IF op' = "none" THEN {} ELSE Files' BY <1>2, <1>7
  <2>6. failed' \subseteq Files' /\ Attempted' \subseteq Pieces' BY <1>2, <1>3, <1>6
  <2> QED BY <1>6, <2>3, <2>4, <2>5, <2>6, Zenon DEF DiskOK
<1>9. Positioned' BY <1>13 DEF Positioned
<1>10. CallOK'
  <2>1. pieceLength' \in Nat /\ call.len \in 0 .. pieceLength' BY <1>3, <1>5 DEF TorrentOK
  <2>2. call' \in [piece : Nat, first : -IntLimit .. IntLimit - 1, len : 0 .. pieceLength']
    BY <1>2, <1>3, <2>1
  <2> QED BY <1>2, <1>3, <2>2 DEF CallOK
<1>11. LoopOK'
  <2>1. start \in -IntLimit .. IntLimit - 1 BY DEF LayoutInv, LoopOK
  <2>2. 1 \in Files' /\ 1 \in 1 .. Len(length_list') + 1 BY <1>0, <1>4 DEF Create, Files
  <2> QED BY <1>2, <1>3, <2>1, <2>2 DEF LoopOK
<1>12. PlacedOK'
  <2>1. Inside' BY <1>13 DEF Inside
  <2> QED BY <1>2, <1>3, <2>1 DEF PlacedOK
<1> QED BY <1>5, <1>8, <1>9, <1>10, <1>11, <1>12 DEF LayoutInv

LEMMA BytesOK ==
  ASSUME TorrentOK, NEW p \in Pieces, NEW s, s = Bytes(p * pieceLength, PieceSize(p))
  PROVE  /\ s \in Seq(Numbers) /\ Len(s) = PieceSize(p)
         /\ \A k \in 1 .. Len(s) : s[k] = p * pieceLength + k - 1
<1>1. /\ PieceSize(p) \in Nat /\ p * pieceLength \in Nat /\ length \in Nat
      /\ p * pieceLength + PieceSize(p) <= length
  BY PieceOK, LengthOK DEF TorrentOK
<1>2. PICK x, m : x = p * pieceLength /\ m = PieceSize(p) OBVIOUS
<1>3. s = [k \in 1 .. m |-> x + k - 1] BY <1>2 DEF Bytes
<1>4. \A k \in 1 .. m : x + k - 1 \in Numbers BY <1>1, <1>2 DEF Numbers
<1>5. s \in Seq(Numbers) /\ Len(s) = m BY <1>1, <1>2, <1>3, <1>4
<1> QED BY <1>2, <1>3, <1>5

(* Between two calls there is no piece but those on the disk. *)
LEMMA IdlePlaced ==
  ASSUME LayoutInv, op = "idle", NEW p, Placed(p), \A q \in on_disk : Placed(q)
  PROVE  AllPlaced
<1>1. call.piece \in on_disk \cup {0} BY DEF LayoutInv, CallOK
<1>2. Placed(0)
  <2>1. 0 * pieceLength = 0 BY DEF LayoutInv, TorrentOK
  <2> QED BY <2>1, LayoutAssumption DEF Placed
<1> QED BY <1>1, <1>2 DEF AllPlaced

LEMMA WritePieceLayout == ASSUME LayoutInv, NEW p \in Pieces, WritePiece(p) PROVE LayoutInv'
<1> DEFINE first == FirstByte(p, HardBlocks)
<1> HIDE DEF first
<1>0. TorrentOK /\ op = "idle" /\ UNCHANGED torrentVars /\ UNCHANGED diskVars
  BY DEF LayoutInv, WritePiece
<1>1. TorrentOK' /\ Files' = Files /\ Pieces' = Pieces /\ Numbers' = Numbers
      /\ len_culmulative' = len_culmulative /\ length' = length
      /\ (\A q : PieceSize(q)' = PieceSize(q)) /\ \A q : Placed(q)' = Placed(q)
  BY <1>0, SameTorrent
<1>2. /\ p \in Nat /\ p * pieceLength \in Nat /\ length \in Nat
      /\ PieceSize(p) \in 1 .. pieceLength /\ p * pieceLength + PieceSize(p) <= length
      /\ pieceLength \in Nat /\ PieceSize(p) \in Nat
  BY <1>0, PieceOK, LengthOK DEF TorrentOK
<1>3. first \in -IntLimit .. IntLimit - 1 /\ (Placed(p) => first = p * pieceLength)
  BY <1>0, <1>2, BeginOK DEF first
<1>4. call' = [piece |-> p, first |-> first, len |-> PieceSize(p)] /\ Locate(first, "write")
      /\ no_of_blocks' = HardBlocks
  BY DEF WritePiece, first
<1>5. data' \in Seq(Numbers) /\ Len(data') = PieceSize(p)
      /\ \A k \in 1 .. Len(data') : data'[k] = p * pieceLength + k - 1
  BY <1>0, BytesOK DEF WritePiece
<1>6. \/ /\ op' = "write"
         /\ start_file' \in Files /\ start' \in -IntLimit .. IntLimit - 1
         /\ len_culmulative[start_file' - 1] + start' = first
         /\ mode = "SINGLE" \/ start' < 0 => start_file' = 1
         /\ mode = "MULTIPLE" => start' < length_list[start_file']
      \/ /\ op' = "undefined" /\ UNCHANGED <<start_file, start>>
         /\ length <= first
  BY <1>0, <1>3, <1>4, LocateOK
<1>7. Attempted = on_disk /\ Attempted' = on_disk \cup {p}
  BY <1>0, <1>4, <1>6 DEF Attempted, diskVars
<1>8. DiskOK'
  <2>1. DOMAIN files' = Files' BY <1>0, <1>1 DEF LayoutInv, DiskOK, diskVars
  <2>2. op' # "none" BY <1>6
  <2>3. Attempted' \subseteq Pieces BY <1>7 DEF LayoutInv, DiskOK
  <2> QED BY <1>0, <1>1, <1>4, <2>1, <2>2, <2>3, LayoutAssumption
          DEF LayoutInv, DiskOK, diskVars
<1>9. Positioned'
  <2>1. \A f, k, q : FromPiece(f, k, q)' = FromPiece(f, k, q)
    BY <1>0, <1>1 DEF FromPiece, diskVars, torrentVars
  <2> QED BY <1>0, <1>7, <2>1 DEF LayoutInv, Positioned, diskVars
<1>10. CallOK'
  <2>1. call' \in [piece : Nat, first : -IntLimit .. IntLimit - 1, len : 0 .. pieceLength']
    BY <1>0, <1>2, <1>3, <1>4 DEF torrentVars
  <2>2. op' \in {"write", "undefined"} BY <1>6
  <2> QED BY <1>1, <1>4, <2>1, <2>2 DEF CallOK, first
<1>11. op' = "write" => Done' = 0 BY <1>2, <1>4, <1>5 DEF Done
<1>12. LoopOK'
  <2>1. start_file' \in 1 .. Len(length_list') + 1 /\ start' \in -IntLimit .. IntLimit - 1
    <3>1. Files \subseteq 1 .. Len(length_list') + 1 /\ length_list' = length_list
      BY <1>0 DEF Files, TorrentOK, torrentVars
    <3> QED BY <1>6, <3>1 DEF LayoutInv, LoopOK
  <2>2. op' \in {"write", "undefined"} BY <1>6
  <2>3. ASSUME op' = "write"
        PROVE  /\ Done' \in 0 .. call'.len - 1
               /\ len_culmulative'[start_file' - 1] + start' = call'.first + Done'
               /\ mode' = "SINGLE" \/ start' < 0 => start_file' = 1
               /\ mode' = "MULTIPLE" /\ start' > 0 => /\ start_file' \in Files'
                                                     /\ start' < length_list'[start_file']
               /\ \A k \in 1 .. Len(data') : data'[k] = call'.piece * pieceLength' + Done' + k - 1
    <3>1. Done' = 0 BY <1>11, <2>3
    <3>2. 0 \in 0 .. call'.len - 1 /\ call'.first + 0 = first BY <1>2, <1>3, <1>4
    <3>3. \A k \in 1 .. Len(data') : data'[k] = p * pieceLength + 0 + k - 1
      BY <1>2, <1>5
    <3>4. mode' = mode /\ length_list' = length_list /\ pieceLength' = pieceLength
      BY <1>0 DEF torrentVars
    <3> QED BY <1>1, <1>4, <1>6, <2>3, <3>1, <3>2, <3>3, <3>4
  <2> QED BY <1>1, <1>5, <2>1, <2>2, <2>3 DEF LoopOK
<1>13. PlacedOK'
  <2>1. SUFFICES ASSUME AllPlaced' PROVE PlacedOK' BY DEF PlacedOK
  <2>2. Placed(p) /\ \A q \in on_disk : Placed(q)
    BY <1>0, <1>1, <1>4, <2>1 DEF AllPlaced, diskVars
  <2>3. AllPlaced BY <1>0, <2>2, IdlePlaced
  <2>4. op' = "write" BY <1>2, <1>3, <1>6, <2>2
  <2>5. Done' = 0 BY <1>11, <2>4
  <2>6. \A n : Held(n)' = Held(n) BY <1>0, <1>1 DEF Held, diskVars
  <2> QED BY <1>0, <1>1, <2>3, <2>4, <2>5, <2>6
          DEF LayoutInv, PlacedOK, Inside, diskVars, torrentVars
<1> QED BY <1>1, <1>8, <1>9, <1>10, <1>12, <1>13 DEF LayoutInv

(* A whole number of blocks, and the rest that a block short of them has.  *)
LEMMA BlockLengthOK ==
  ASSUME TorrentOK, NEW p \in Pieces, NEW b \in 0 .. pieceLength \div BlockSize - 1,
         b * BlockSize < PieceSize(p)
  PROVE  /\ b * BlockSize \in Nat /\ BlockLength(p, b * BlockSize) \in 1 .. pieceLength
         /\ pieceLength = HardBlocks * BlockSize =>
              /\ b \in 0 .. HardBlocks - 1
              /\ LET rest == PieceSize(p) - b * BlockSize
                 IN  BlockLength(p, b * BlockSize) = IF rest < BlockSize THEN rest ELSE BlockSize
<1>1. BlockSize \in Nat \ {0} /\ HardBlocks \in Nat \ {0} /\ pieceLength \in Nat \ {0}
      /\ length \in Nat /\ p \in Nat /\ PieceSize(p) \in 1 .. pieceLength
  BY LayoutAssumption, PieceOK, LengthOK DEF TorrentOK
<1>2. PICK bl, t : Divided(pieceLength, BlockSize, bl, t) BY DEF Divided
<1>3. bl = pieceLength \div BlockSize /\ bl \in Nat BY <1>1, <1>2, Division DEF Divided
<1>4. b \in Nat /\ b < bl BY <1>3
<1>5. PICK x, z : x = b * BlockSize /\ z = bl * BlockSize OBVIOUS
<1>6. x \in Nat /\ z \in Nat /\ x + BlockSize <= z BY <1>1, <1>3, <1>4, <1>5, Apart, ProductOK
<1>7. z + t = pieceLength /\ t \in Nat
  <2>1. t \in 0 .. BlockSize - 1 /\ pieceLength = bl * BlockSize + t BY <1>1, <1>2, Division
  <2> QED BY <1>1, <1>5, <2>1
<1>8. PICK u : u = length % BlockSize /\ u \in 0 .. BlockSize - 1
  <2>1. PICK q, r : Divided(length, BlockSize, q, r) BY DEF Divided
  <2> QED BY <1>1, <2>1, Division DEF Divided
<1>9. PICK d, r, y : Divided(Rest, BlockSize, d, r) /\ y = d * BlockSize BY DEF Divided
<1>10. BlockLength(p, x) = IF p = no_of_pieces - 1 /\ x = y /\ u # 0 THEN u ELSE BlockSize
  BY <1>8, <1>9 DEF BlockLength, Divided
<1>11. BlockLength(p, x) \in 1 .. pieceLength BY <1>1, <1>6, <1>7, <1>8, <1>10
<1>12. ASSUME pieceLength = HardBlocks * BlockSize
       PROVE  /\ b \in 0 .. HardBlocks - 1
              /\ BlockLength(p, x) = IF PieceSize(p) - x < BlockSize THEN PieceSize(p) - x
                                     ELSE BlockSize
  <2>1. bl = HardBlocks
    <3>1. 0 \in 0 .. BlockSize - 1 /\ HardBlocks * BlockSize + 0 = pieceLength
      BY <1>1, <1>12
    <3>2. (HardBlocks * BlockSize + 0) \div BlockSize = HardBlocks BY <1>1, <3>1, Remainder
    <3> QED BY <1>3, <3>1, <3>2, Zenon
  <2>2. PICK q : Divided(length, pieceLength, q, Rest) BY DEF Divided, Rest
  <2>3. q \in Nat /\ Rest \in 0 .. pieceLength - 1 /\ length = q * pieceLength + Rest
    BY <1>1, <2>2, Division
  <2>4. d \in Nat /\ r \in 0 .. BlockSize - 1 /\ Rest = y + r /\ y \in Nat
    <3>1. Rest \in Nat BY <1>1, <2>3
    <3> QED BY <1>1, <1>9, <3>1, Division, ProductOK
  <2>5. u = r
    <3>1. PICK c : c = q * HardBlocks + d OBVIOUS
    <3>2. c \in Nat BY <1>1, <2>3, <2>4, <3>1, ProductOK
    <3>3. c * BlockSize = q * pieceLength + y
      <4>1. \A a, e, f, g \in Nat : (a * e + f) * g = a * (e * g) + f * g BY SMT
      <4>2. (q * HardBlocks + d) * BlockSize = q * (HardBlocks * BlockSize) + d * BlockSize
        BY <1>1, <2>3, <2>4, <4>1
      <4> QED BY <1>9, <1>12, <3>1, <4>2
    <3>4. length = c * BlockSize + r
      <4>1. PICK v : v = q * pieceLength OBVIOUS
      <4>2. v \in Nat BY <1>1, <2>3, <4>1, ProductOK
      <4>3. length = v + Rest /\ c * BlockSize = v + y BY <2>3, <3>3, <4>1
      <4> QED BY <2>4, <4>2, <4>3
    <3>5. (c * BlockSize + r) % BlockSize = r BY <1>1, <2>4, <3>2, Remainder
    <3> QED BY <1>8, <3>4, <3>5, Zenon
  <2>6. CASE p = no_of_pieces - 1 /\ Rest # 0
    <3>1. PieceSize(p) = y + r BY <2>4, <2>6 DEF PieceSize
    <3>2. CASE b = d BY <1>1, <1>5, <1>6, <1>9, <1>10, <2>1, <2>4, <2>5, <2>6, <3>1, <3>2
    <3>3. CASE b < d
      <4>1. x + BlockSize <= y BY <1>1, <1>4, <1>5, <1>9, <2>4, <3>3, Apart
      <4> QED BY <1>1, <1>4, <1>6, <1>10, <2>1, <2>4, <3>1, <4>1
    <3>4. CASE d < b
      <4>1. y + BlockSize <= x BY <1>1, <1>4, <1>5, <1>9, <2>4, <3>4, Apart
      <4>2. x < PieceSize(p) BY <1>5
      <4> QED BY <1>1, <1>6, <2>4, <3>1, <4>1, <4>2
    <3> QED BY <1>4, <2>4, <3>2, <3>3, <3>4
  <2>7. CASE ~(p = no_of_pieces - 1 /\ Rest # 0)
    <3>1. PieceSize(p) = pieceLength BY <2>7 DEF PieceSize
    <3>2. BlockLength(p, x) = BlockSize
      <4>1. Rest = 0 => u = 0 BY <2>4, <2>5
      <4> QED BY <1>10, <2>7, <4>1
    <3> QED BY <1>1, <1>4, <1>6, <1>7, <2>1, <3>1, <3>2
  <2> QED BY <2>6, <2>7
<1> QED BY <1>5, <1>6, <1>11, <1>12

LEMMA ReadBlockLayout ==
  ASSUME LayoutInv, NEW p \in Pieces, NEW b \in 0 .. pieceLength \div BlockSize - 1,
         b * BlockSize < PieceSize(p), ReadBlock(p, b * BlockSize)
  PROVE  LayoutInv'
<1> DEFINE begin == b * BlockSize
           first == InInt(FirstByte(p, no_of_blocks) + begin)
<1>0. TorrentOK /\ op = "idle" /\ p \in on_disk /\ UNCHANGED <<torrentVars, no_of_blocks, diskVars>>
  BY DEF LayoutInv, ReadBlock
<1>1. TorrentOK' /\ Files' = Files /\ Pieces' = Pieces /\ Numbers' = Numbers
      /\ len_culmulative' = len_culmulative /\ length' = length
      /\ (\A q : PieceSize(q)' = PieceSize(q)) /\ \A q : Placed(q)' = Placed(q)
  BY <1>0, SameTorrent
<1>2. /\ p \in Nat /\ p * pieceLength \in Nat /\ length \in Nat
      /\ PieceSize(p) \in 1 .. pieceLength /\ p * pieceLength + PieceSize(p) <= length
      /\ pieceLength \in Nat /\ PieceSize(p) \in Nat /\ IntLimit \in Nat
  BY <1>0, PieceOK, LengthOK, LayoutAssumption DEF TorrentOK
<1>3. begin \in Nat /\ BlockLength(p, begin) \in 1 .. pieceLength BY <1>0, BlockLengthOK
<1>4. no_of_blocks = HardBlocks
  <2>1. p \in Attempted BY <1>0 DEF Attempted
  <2> QED BY <2>1 DEF LayoutInv, DiskOK
<1>5. FirstByte(p, no_of_blocks) \in -IntLimit .. IntLimit - 1
      /\ (Placed(p) => FirstByte(p, no_of_blocks) = p * pieceLength)
  BY <1>0, <1>2, <1>4, BeginOK
<1>6. first \in -IntLimit .. IntLimit - 1 /\ (Placed(p) => first = p * pieceLength + begin)
  <2>1. PICK m : m = FirstByte(p, no_of_blocks) + begin OBVIOUS
  <2>2. m \in Int /\ m >= -IntLimit BY <1>2, <1>3, <1>5, <2>1
  <2>3. Placed(p) => m = p * pieceLength + begin /\ m < IntLimit
    <3>1. Placed(p) => p * pieceLength + pieceLength <= IntLimit BY <1>0, EndsBelowLimit
    <3>4. begin < PieceSize(p) OBVIOUS
    <3> HIDE DEF begin
    <3>2. begin < pieceLength BY <1>2, <1>3, <3>4
    <3>3. PICK x : x = p * pieceLength OBVIOUS
    <3> QED BY <1>2, <1>3, <1>5, <2>1, <3>1, <3>2, <3>3
  <2> QED BY <2>1, <2>2, <2>3, IntOK
<1> HIDE DEF first
<1>7. call' = [piece |-> p, first |-> first, len |-> BlockLength(p, begin)]
      /\ Locate(first, "read") /\ data' = <<>>
  BY DEF ReadBlock, first
<1>8. \/ /\ op' = "read"
         /\ start_file' \in Files /\ start' \in -IntLimit .. IntLimit - 1
         /\ len_culmulative[start_file' - 1] + start' = first
         /\ mode = "SINGLE" \/ start' < 0 => start_file' = 1
         /\ mode = "MULTIPLE" => start' < length_list[start_file']
      \/ /\ op' = "undefined" /\ UNCHANGED <<start_file, start>>
         /\ length <= first
  BY <1>0, <1>6, <1>7, LocateOK
<1>9. Attempted = on_disk /\ Attempted' = on_disk BY <1>0, <1>7, <1>8 DEF Attempted, diskVars
<1>10. DiskOK'
  <2>1. DOMAIN files' = Files' BY <1>0, <1>1 DEF LayoutInv, DiskOK, diskVars
  <2>2. op' # "none" BY <1>8
  <2> QED BY <1>0, <1>1, <1>9, <2>1, <2>2 DEF LayoutInv, DiskOK, diskVars
<1>11. Positioned'
  <2>1. \A f, k, q : FromPiece(f, k, q)' = FromPiece(f, k, q)
    BY <1>0, <1>1 DEF FromPiece, diskVars, torrentVars
  <2> QED BY <1>0, <1>9, <2>1 DEF LayoutInv, Positioned, diskVars
<1>12. CallOK'
  <2>1. call' \in [piece : Nat, first : -IntLimit .. IntLimit - 1, len : 0 .. pieceLength']
    BY <1>0, <1>2, <1>3, <1>6, <1>7 DEF torrentVars
  <2>2. op' \in {"read", "undefined"} BY <1>8
  <2>3. ReadsBlock'
    <3>1. SUFFICES ASSUME Placed(p) PROVE ReadsBlock' BY <1>1, <1>7 DEF ReadsBlock
    <3>2. pieceLength = HardBlocks * BlockSize BY <3>1 DEF Placed
    <3>3. /\ b \in 0 .. HardBlocks - 1
          /\ BlockLength(p, begin) = IF PieceSize(p) - begin < BlockSize
                                     THEN PieceSize(p) - begin ELSE BlockSize
      BY <1>0, <3>2, BlockLengthOK
    <3>4. PieceSize(p) - begin > 0
      <4>1. begin < PieceSize(p) OBVIOUS
      <4> HIDE DEF begin
      <4> QED BY <1>2, <1>3, <4>1
    <3>5. pieceLength' = pieceLength BY <1>0 DEF torrentVars
    <3> QED BY <1>1, <1>6, <1>7, <3>1, <3>3, <3>4, <3>5 DEF ReadsBlock
  <2> QED BY <1>0, <2>1, <2>2, <2>3, <1>7 DEF CallOK, diskVars
<1>13. op' = "read" => Done' = 0 BY <1>7 DEF Done
<1>14. LoopOK'
  <2>1. start_file' \in 1 .. Len(length_list') + 1 /\ start' \in -IntLimit .. IntLimit - 1
    <3>1. Files \subseteq 1 .. Len(length_list') + 1 /\ length_list' = length_list
      BY <1>0 DEF Files, TorrentOK, torrentVars
    <3> QED BY <1>8, <3>1 DEF LayoutInv, LoopOK
  <2>2. op' \in {"read", "undefined"} /\ data' \in Seq(Numbers') BY <1>7, <1>8
  <2>3. ASSUME op' = "read"
        PROVE  /\ Done' \in 0 .. call'.len - 1
               /\ len_culmulative'[start_file' - 1] + start' = call'.first + Done'
               /\ mode' = "SINGLE" \/ start' < 0 => start_file' = 1
               /\ mode' = "MULTIPLE" /\ start' > 0 => /\ start_file' \in Files'
                                                     /\ start' < length_list'[start_file']
    <3>1. Done' = 0 BY <1>13, <2>3
    <3>2. 0 \in 0 .. call'.len - 1 /\ call'.first + 0 = first BY <1>3, <1>6, <1>7
    <3>4. mode' = mode /\ length_list' = length_list BY <1>0 DEF torrentVars
    <3> QED BY <1>1, <1>7, <1>8, <2>3, <3>1, <3>2, <3>4
  <2> QED BY <2>1, <2>2, <2>3 DEF LoopOK
<1>15. PlacedOK'
  <2>1. SUFFICES ASSUME AllPlaced' PROVE PlacedOK' BY DEF PlacedOK
  <2>2. Placed(p) /\ \A q \in on_disk : Placed(q)
    BY <1>0, <1>1, <1>7, <2>1 DEF AllPlaced, diskVars
  <2>3. AllPlaced BY <1>0, <2>2, IdlePlaced
  <2>4. op' = "read"
    <3>1. first < length
      <4>1. PICK x : x = p * pieceLength OBVIOUS
      <4>2. begin < PieceSize(p) OBVIOUS
      <4> HIDE DEF begin
      <4> QED BY <1>2, <1>3, <1>6, <2>2, <4>1, <4>2
    <3> QED BY <1>2, <1>6, <1>8, <3>1
  <2>5. \A n : Held(n)' = Held(n) BY <1>0, <1>1 DEF Held, diskVars
  <2>6. Len(data') = 0 BY <1>7
  <2> QED BY <1>0, <1>1, <2>3, <2>4, <2>5, <2>6
          DEF LayoutInv, PlacedOK, Inside, diskVars, torrentVars
<1> QED BY <1>1, <1>10, <1>11, <1>12, <1>14, <1>15 DEF LayoutInv

-----------------------------------------------------------------------------
(* The turns of the loops.                                                 *)

(* A placed piece is written and read inside the files. *)
LEMMA PlacedCall ==
  ASSUME LayoutInv, AllPlaced, op \in {"write", "read"}
  PROVE  /\ call.first \in Nat /\ call.first + call.len <= length
         /\ start \in Nat /\ ~OutOfFiles /\ start_file \in Files /\ ~Stuck
         /\ op = "write" => call.first = call.piece * pieceLength
<1>1. TorrentOK /\ failed = {} BY DEF LayoutInv, PlacedOK
<1>2. call.piece \in Pieces /\ Placed(call.piece) /\ call.len \in Nat
  <2>1. call.piece \in Attempted BY DEF LayoutInv, CallOK, Attempted
  <2>2. pieceLength \in Nat BY <1>1 DEF TorrentOK
  <2> QED BY <2>1, <2>2 DEF LayoutInv, DiskOK, AllPlaced, CallOK
<1> DEFINE x == call.piece * pieceLength
<1>3. /\ call.piece \in Nat /\ x \in Nat /\ PieceSize(call.piece) \in Nat
      /\ x + PieceSize(call.piece) <= length
  <2>1. pieceLength \in Nat BY <1>1 DEF TorrentOK
  <2> QED BY <1>1, <1>2, <2>1, PieceOK
<1> HIDE DEF x
<1>4. op = "write" => call.first = x /\ call.len = PieceSize(call.piece)
  BY <1>1, <1>2, <1>3, BeginOK DEF LayoutInv, CallOK, x
<1>5. op = "read" => \E y \in Nat : /\ call.first = x + y
                                    /\ call.len <= PieceSize(call.piece) - y
  <2>1. SUFFICES ASSUME op = "read"
                 PROVE  \E y \in Nat : /\ call.first = x + y
                                       /\ call.len <= PieceSize(call.piece) - y
    OBVIOUS
  <2>2. PICK b \in 0 .. HardBlocks - 1 :
          /\ call.first = x + b * BlockSize
          /\ call.len = IF PieceSize(call.piece) - b * BlockSize < BlockSize
                        THEN PieceSize(call.piece) - b * BlockSize ELSE BlockSize
    BY <1>2, <2>1 DEF LayoutInv, CallOK, ReadsBlock, x
  <2>3. PICK y : y = b * BlockSize OBVIOUS
  <2>4. y \in Nat /\ BlockSize \in Nat BY <2>3, ProductOK, LayoutAssumption
  <2> QED BY <1>3, <2>2, <2>3, <2>4
<1>6. call.first \in Nat /\ call.first + call.len <= length
  <2>1. length \in Nat BY <1>1, LengthOK
  <2> QED BY <1>2, <1>3, <1>4, <1>5, <2>1
<1>7. /\ Done \in 0 .. call.len - 1
      /\ len_culmulative[start_file - 1] + start = call.first + Done
      /\ mode = "SINGLE" \/ start < 0 => start_file = 1
      /\ start_file \in 1 .. Len(length_list) + 1 /\ start \in Int
  BY LayoutAssumption DEF LayoutInv, LoopOK
<1>8. start >= 0
  <2>1. SUFFICES ASSUME start < 0 PROVE FALSE BY <1>7
  <2>2. len_culmulative[start_file - 1] = 0 BY <1>1, <1>7, <2>1, Beginnings
  <2> QED BY <1>2, <1>6, <1>7, <2>1, <2>2
<1>9. ~OutOfFiles
  <2>1. SUFFICES ASSUME OutOfFiles PROVE FALSE OBVIOUS
  <2>2. Len(length_list) \in Nat BY <1>1 DEF TorrentOK
  <2>3. start_file - 1 = Len(length_list) BY <1>7, <2>1, <2>2 DEF OutOfFiles
  <2>4. len_culmulative[start_file - 1] = length BY <2>3 DEF length
  <2>5. length \in Nat BY <1>1, LengthOK
  <2> QED BY <1>2, <1>6, <1>7, <1>8, <2>4, <2>5
<1>10. start_file \in Files
  <2>1. Len(length_list) \in Nat BY <1>1 DEF TorrentOK
  <2> QED BY <1>7, <1>9, <2>1 DEF OutOfFiles, Files
<1>11. ~Stuck BY <1>1, <1>7, <1>8 DEF Stuck
<1> QED BY <1>4, <1>6, <1>7, <1>8, <1>9, <1>10, <1>11 DEF x

(* The part of the piece that a turn writes goes to its place. *)
LEMMA WritePartData ==
  ASSUME LayoutInv, WritePart, NEW n, n = Share(Len(data))
  PROVE  /\ start_file \in Files /\ Len(data) = call.len - Done /\ n \in 0 .. Len(data)
         /\ start_file' \in 1 .. Len(length_list) + 1 /\ start' \in -IntLimit .. IntLimit - 1
         /\ Fits => n = Len(data) /\ start_file' = start_file
         /\ ~Fits => /\ n < Len(data) /\ mode = "MULTIPLE" /\ start' = 0
                     /\ len_culmulative[start_file' - 1] + start' = call.first + Done + n
         /\ mode = "MULTIPLE" => start + n <= length_list[start_file]
         /\ start + n = call.first + Done + n - len_culmulative[start_file - 1]
         /\ data' \in Seq(Numbers) /\ Len(data') = Len(data) - n
         /\ \A k \in 1 .. Len(data') : data'[k] = call.piece * pieceLength + Done + n + k - 1
         /\ op' = IF Fits THEN "idle" ELSE "write"
         /\ op' = "write" => Done' = Done + n
<1> DEFINE L == Len(data)
<1>1. /\ TorrentOK /\ CallOK /\ LoopOK /\ op = "write" /\ ~OutOfFiles /\ NextFile
      /\ data \in Seq(Numbers)
  BY DEF LayoutInv, WritePart, LoopOK
<1>2. L \in Nat /\ call.len \in Nat /\ Done = call.len - L
  <2>1. call.len \in Nat BY <1>1 DEF CallOK, TorrentOK
  <2> QED BY <1>1, <2>1 DEF Done
<1>3. L = call.len - Done BY <1>2
<1>4. /\ start_file \in Files /\ L \in 1 .. call.len /\ n \in 0 .. L
      /\ start_file' \in 1 .. Len(length_list) + 1 /\ start' \in -IntLimit .. IntLimit - 1
      /\ Fits => n = L /\ UNCHANGED <<start_file, start>>
      /\ ~Fits => /\ n < L /\ mode = "MULTIPLE" /\ start' = 0
                  /\ len_culmulative[start_file' - 1] + start' = call.first + Done + n
      /\ mode = "MULTIPLE" => start + n <= length_list[start_file]
      /\ start + n = call.first + Done + n - len_culmulative[start_file - 1]
  BY <1>1, <1>3, TurnOK
<1>5. data' = SubSeq(data, n + 1, L) /\ call' = call
      /\ op' = IF data' = <<>> THEN "idle" ELSE "write"
  BY DEF WritePart
<1>6. data' \in Seq(Numbers) /\ Len(data') = L - n
      /\ \A k \in 1 .. Len(data') : data'[k] = data[n + k]
  <2>1. data \in Seq(Numbers) BY <1>1
  <2>2. n \in 0 .. Len(data) BY <1>4
  <2>3. data' = SubSeq(data, n + 1, Len(data)) BY <1>5
  <2>4. PICK t : t = data' OBVIOUS
  <2>5. t = SubSeq(data, n + 1, Len(data)) BY <2>3, <2>4
  <2>6. /\ t \in Seq(Numbers) /\ Len(t) = Len(data) - n
        /\ \A k \in 1 .. Len(t) : t[k] = data[n + k]
    BY <2>1, <2>2, <2>5, DropOK, SMT
  <2> QED BY <2>4, <2>6
<1>7. \A k \in 1 .. L : data[k] = call.piece * pieceLength + Done + k - 1
  BY <1>1 DEF LoopOK
<1>8. \A k \in 1 .. Len(data') : data'[k] = call.piece * pieceLength + Done + n + k - 1
  <2>1. call.piece * pieceLength \in Nat /\ Done \in Int
    BY <1>1, <1>2, ProductOK DEF CallOK, TorrentOK
  <2>2. PICK x : x = call.piece * pieceLength OBVIOUS
  <2>3. ASSUME NEW k \in 1 .. Len(data') PROVE data'[k] = x + Done + n + k - 1
    <3>1. k \in Int /\ n + k \in 1 .. L BY <1>2, <1>4, <1>6
    <3>2. data[n + k] = x + Done + (n + k) - 1 BY <1>7, <2>2, <3>1
    <3>3. x + Done + (n + k) - 1 = x + Done + n + k - 1 BY <1>4, <2>1, <2>2, <3>1
    <3>4. data'[k] = data[n + k] BY <1>6
    <3> QED BY <3>2, <3>3, <3>4
  <2> QED BY <2>2, <2>3
<1>9. data' = <<>> <=> Fits
  <2>1. data' = <<>> <=> L - n = 0 BY <1>6
  <2> QED BY <1>2, <1>4, <2>1
<1>10. op' = "write" => Done' = Done + n
  <2>1. op' = "write" => Done' = call.len - Len(data') BY <1>5 DEF Done
  <2>2. call.len - (L - n) = Done + n BY <1>2, <1>4
  <2> QED BY <1>6, <2>1, <2>2
<1> QED BY <1>3, <1>4, <1>5, <1>6, <1>8, <1>9, <1>10

LEMMA WritePartFile ==
  ASSUME LayoutInv, WritePart, ~Stuck, NEW n, n = Share(Len(data))
  PROVE  /\ failed' = failed /\ DOMAIN files' = DOMAIN files /\ start_file \in DOMAIN files
         /\ \A f \in DOMAIN files : f # start_file => files'[f] = files[f]
         /\ files'[start_file] \in Seq(Numbers)
         /\ Len(files'[start_file]) = IF start + n > Len(files[start_file])
                                      THEN start + n ELSE Len(files[start_file])
         /\ \A k \in 1 .. Len(files'[start_file]) :
              files'[start_file][k] =
                IF start < k /\ k <= start + n
                THEN call.piece * pieceLength + Done + (k - start) - 1
                ELSE IF k <= Len(files[start_file]) THEN files[start_file][k] ELSE Hole
<1> DEFINE part == SubSeq(data, 1, n)
           content == files[start_file]
           after == Written(content, start, part)
<1>1. start_file \in Files /\ n \in 0 .. Len(data) BY WritePartData
<1>2. /\ DOMAIN files = Files /\ content \in Seq(Numbers) /\ data \in Seq(Numbers)
      /\ op = "write" /\ start \in Nat
      /\ \A k \in 1 .. Len(data) : data[k] = call.piece * pieceLength + Done + k - 1
  BY <1>1, LayoutAssumption DEF LayoutInv, DiskOK, LoopOK, WritePart, Stuck
<1>3. files' = [files EXCEPT ![start_file] = after] /\ failed' = failed
  BY DEF WritePart
<1>4. part \in Seq(Numbers) /\ Len(part) = n /\ \A k \in 1 .. n : part[k] = data[k]
  BY <1>1, <1>2
<1>5. DOMAIN files' = DOMAIN files /\ files'[start_file] = after
      /\ \A f \in DOMAIN files : f # start_file => files'[f] = files[f]
  BY <1>1, <1>2, <1>3
<1>6. Hole \in Numbers BY DEF Numbers
<1> HIDE DEF part, content, after
<1>7. /\ after \in Seq(Numbers)
      /\ Len(after) = IF start + Len(part) > Len(content) THEN start + Len(part) ELSE Len(content)
      /\ \A k \in 1 .. Len(after) :
           after[k] = IF start < k /\ k <= start + Len(part) THEN part[k - start]
                      ELSE IF k <= Len(content) THEN content[k] ELSE Hole
  BY <1>2, <1>4, <1>6, WrittenOK DEF after
<1>8. ASSUME NEW k \in 1 .. Len(after), start < k, k <= start + n
      PROVE  after[k] = call.piece * pieceLength + Done + (k - start) - 1
  <2>1. k - start \in 1 .. n BY <1>1, <1>2, <1>8
  <2>2. part[k - start] = data[k - start] /\ k - start \in 1 .. Len(data) BY <1>1, <1>4, <2>1
  <2>3. after[k] = part[k - start] BY <1>4, <1>7, <1>8
  <2> QED BY <1>2, <2>2, <2>3
<1> QED BY <1>1, <1>2, <1>3, <1>4, <1>5, <1>7, <1>8 DEF content

(* A byte of a placed piece that is in its place stays there, and those of *)
(* the part that is written come to theirs.                                *)
LEMMA WritePartHeld ==
  ASSUME LayoutInv, WritePart, AllPlaced, NEW n, n = Share(Len(data))
  PROVE  /\ \A m \in Int : Held(m) => Held(m)'
         /\ \A k \in Done .. Done + n - 1 : Held(call.first + k)'
<1>1. op = "write" /\ TorrentOK /\ UNCHANGED torrentVars BY DEF LayoutInv, WritePart
<1>2. Files' = Files /\ len_culmulative' = len_culmulative BY <1>1, SameTorrent
<1>3. ~Stuck /\ start \in Nat /\ call.first \in Nat /\ call.first = call.piece * pieceLength
  BY <1>1, PlacedCall
<1>4. start_file \in Files /\ Len(data) = call.len - Done /\ n \in 0 .. Len(data)
      /\ start + n = call.first + Done + n - len_culmulative[start_file - 1]
  BY WritePartData
<1>5. /\ DOMAIN files' = DOMAIN files
      /\ \A f \in DOMAIN files : f # start_file => files'[f] = files[f]
      /\ files'[start_file] \in Seq(Numbers)
      /\ Len(files'[start_file]) = IF start + n > Len(files[start_file])
                                   THEN start + n ELSE Len(files[start_file])
      /\ \A k \in 1 .. Len(files'[start_file]) :
           files'[start_file][k] =
             IF start < k /\ k <= start + n
             THEN call.piece * pieceLength + Done + (k - start) - 1
             ELSE IF k <= Len(files[start_file]) THEN files[start_file][k] ELSE Hole
  BY <1>3, WritePartFile
<1>6. DOMAIN files = Files /\ files[start_file] \in Seq(Numbers)
      /\ Len(files[start_file]) \in Nat
  BY <1>1, <1>4 DEF LayoutInv, DiskOK
<1>7. Done \in Nat /\ len_culmulative[start_file - 1] \in Nat /\ n \in Nat
  <2>1. Done \in 0 .. call.len - 1 /\ call.len \in Nat
    BY <1>1 DEF LayoutInv, LoopOK, CallOK, TorrentOK
  <2>2. start_file - 1 \in 0 .. Len(length_list) BY <1>1, <1>4 DEF Files, TorrentOK
  <2> QED BY <1>1, <1>4, <2>1, <2>2, Beginnings
<1>8. len_culmulative[start_file - 1] = call.first + Done - start BY <1>3, <1>4, <1>7
<1>9. ASSUME NEW j \in 1 .. start + n, start < j
      PROVE  /\ j \in 1 .. Len(files'[start_file])
             /\ files'[start_file][j] = len_culmulative[start_file - 1] + j - 1
  <2>1. j \in 1 .. Len(files'[start_file]) BY <1>3, <1>5, <1>6, <1>7, <1>9
  <2>2. files'[start_file][j] = call.first + Done + (j - start) - 1
    BY <1>3, <1>5, <1>9, <2>1
  <2>3. call.first + Done + (j - start) - 1 = call.first + Done - start + j - 1
    BY <1>3, <1>7, <1>9
  <2> QED BY <1>8, <2>1, <2>2, <2>3
<1>10. ASSUME NEW m \in Int, Held(m) PROVE Held(m)'
  <2>0. PICK f \in Files : \E j \in 1 .. Len(files[f]) :
          files[f][j] = m /\ len_culmulative[f - 1] + j - 1 = m
    BY <1>10 DEF Held
  <2>1. PICK j \in 1 .. Len(files[f]) :
          files[f][j] = m /\ len_culmulative[f - 1] + j - 1 = m
    BY <2>0
  <2>2. j \in 1 .. Len(files'[f]) /\ files'[f][j] = m
    <3>1. CASE f # start_file BY <1>5, <1>6, <2>1, <3>1
    <3>2. CASE f = start_file /\ start < j /\ j <= start + n
      <4>1. j \in 1 .. start + n BY <1>3, <1>7, <3>2
      <4> QED BY <1>9, <2>1, <3>2, <4>1
    <3>3. CASE f = start_file /\ ~(start < j /\ j <= start + n)
      <4>1. j \in 1 .. Len(files'[start_file]) /\ j <= Len(files[start_file])
        BY <1>3, <1>5, <1>6, <1>7, <3>3
      <4> QED BY <1>5, <2>1, <3>3, <4>1
    <3> QED BY <3>1, <3>2, <3>3
  <2> QED BY <1>2, <2>1, <2>2 DEF Held
<1>11. ASSUME NEW k \in Done .. Done + n - 1 PROVE Held(call.first + k)'
  <2>1. PICK j : j = start + (k - Done) + 1 OBVIOUS
  <2>2. j \in 1 .. start + n /\ start < j BY <1>3, <1>7, <2>1
  <2>3. len_culmulative[start_file - 1] + j - 1 = call.first + k BY <1>3, <1>7, <1>8, <2>1
  <2>4. call' = call BY DEF WritePart
  <2> QED BY <1>2, <1>4, <1>9, <2>2, <2>3, <2>4 DEF Held
<1> QED BY <1>10, <1>11

LEMMA WritePartPositioned ==
  ASSUME LayoutInv, WritePart, Attempted' = Attempted
  PROVE  Positioned' /\ DiskOK'
<1>1. op = "write" /\ op' # "none" /\ TorrentOK /\ UNCHANGED torrentVars
      /\ UNCHANGED <<no_of_blocks, call>>
  BY DEF LayoutInv, WritePart
<1>2. /\ Files' = Files /\ len_culmulative' = len_culmulative /\ Numbers' = Numbers
      /\ Pieces' = Pieces /\ \A q : PieceSize(q)' = PieceSize(q)
  BY <1>1, SameTorrent
<1>3. PICK n : n = Share(Len(data)) OBVIOUS
<1>4. start_file \in Files /\ Len(data) = call.len - Done /\ n \in 0 .. Len(data)
      /\ start + n = call.first + Done + n - len_culmulative[start_file - 1]
  BY <1>3, WritePartData
<1>5. /\ DOMAIN files = Files /\ \A f \in DOMAIN files : files[f] \in Seq(Numbers)
      /\ failed \subseteq Files
  BY <1>1 DEF LayoutInv, DiskOK
<1>6. CASE Stuck
  <2>1. files' = files /\ failed' = failed \cup {start_file} BY <1>6 DEF WritePart
  <2>2. \A f, k, q : FromPiece(f, k, q)' = FromPiece(f, k, q)
    BY <1>1, <1>2, <2>1 DEF FromPiece, FirstByte, InInt, torrentVars
  <2>3. Positioned' BY <1>1, <2>1, <2>2 DEF LayoutInv, Positioned
  <2>4. DiskOK' BY <1>1, <1>2, <1>4, <1>5, <2>1 DEF LayoutInv, DiskOK
  <2> QED BY <2>3, <2>4
<1>7. CASE ~Stuck
  <2>1. /\ failed' = failed /\ DOMAIN files' = DOMAIN files
        /\ \A f \in DOMAIN files : f # start_file => files'[f] = files[f]
        /\ files'[start_file] \in Seq(Numbers)
        /\ \A k \in 1 .. Len(files'[start_file]) :
             files'[start_file][k] =
               IF start < k /\ k <= start + n
               THEN call.piece * pieceLength + Done + (k - start) - 1
               ELSE IF k <= Len(files[start_file]) THEN files[start_file][k] ELSE Hole
    BY <1>3, <1>7, WritePartFile
  <2>2. DiskOK'
    <3>1. \A f \in DOMAIN files' : files'[f] \in Seq(Numbers) BY <1>5, <2>1
    <3> QED BY <1>1, <1>2, <1>5, <2>1, <3>1 DEF LayoutInv, DiskOK
  <2>3. /\ call.first = FirstByte(call.piece, HardBlocks) /\ call.len = PieceSize(call.piece)
        /\ call.piece \in Attempted /\ call.piece * pieceLength \in Nat
        /\ call.first \in Int /\ call.len \in Nat /\ Done \in Nat /\ start \in Nat
        /\ len_culmulative[start_file - 1] + start = call.first + Done
        /\ len_culmulative[start_file - 1] \in Nat
    <3>1. call.piece \in Attempted BY <1>1 DEF Attempted
    <3>2. call.piece * pieceLength \in Nat
      BY <1>1, <3>1, PieceOK DEF LayoutInv, DiskOK
    <3>3. start_file - 1 \in 0 .. Len(length_list) BY <1>1, <1>4 DEF Files, TorrentOK
    <3>4. len_culmulative[start_file - 1] \in Nat BY <1>1, <3>3, Beginnings
    <3>5. Done \in 0 .. call.len - 1 /\ call.len \in Nat /\ start \in Int
      BY <1>1, LayoutAssumption DEF LayoutInv, LoopOK, CallOK, TorrentOK
    <3> QED BY <1>1, <1>7, <3>1, <3>2, <3>4, <3>5, LayoutAssumption
            DEF LayoutInv, CallOK, LoopOK, Stuck
  <2>4. ASSUME NEW f \in DOMAIN files', NEW k \in 1 .. Len(files'[f]), files'[f][k] # Hole
        PROVE  \E p \in Attempted : FromPiece(f, k, p)'
    <3>1. CASE f \in DOMAIN files /\ k \in 1 .. Len(files[f]) /\ files'[f][k] = files[f][k]
      <4>1. PICK p \in Attempted : FromPiece(f, k, p)
        BY <2>4, <3>1 DEF LayoutInv, Positioned
      <4>2. FromPiece(f, k, p)'
        BY <1>1, <1>2, <3>1, <4>1 DEF FromPiece, FirstByte, InInt, torrentVars
      <4> QED BY <4>2
    <3>2. CASE f = start_file /\ start < k /\ k <= start + n
      <4>1. PICK j : j = Done + (k - start) - 1 OBVIOUS
      <4>2. k \in Int /\ j \in 0 .. call.len - 1
        <5>1. Len(files'[f]) \in Nat BY <2>1, <3>2
        <5>2. k \in Int BY <5>1
        <5> QED BY <1>4, <2>3, <3>2, <4>1, <5>2
      <4>3. files'[f][k] = call.piece * pieceLength + j
        <5>1. PICK x : x = call.piece * pieceLength OBVIOUS
        <5>2. x + j = x + Done + (k - start) - 1 BY <1>4, <2>3, <4>1, <4>2, <5>1
        <5> QED BY <2>1, <3>2, <5>1, <5>2
      <4>4. len_culmulative[f - 1] + k - 1 = call.first + j BY <2>3, <3>2, <4>1, <4>2
      <4>5. /\ PieceSize(call.piece)' = PieceSize(call.piece)
            /\ FirstByte(call.piece, HardBlocks)' = FirstByte(call.piece, HardBlocks)
            /\ (call.piece * pieceLength)' = call.piece * pieceLength
        BY <1>1, <1>2 DEF FirstByte, InInt, torrentVars
      <4>6. PICK p : p = call.piece OBVIOUS
      <4>7. PieceSize(p)' = PieceSize(p) /\ pieceLength' = pieceLength BY <1>1, <1>2 DEF torrentVars
      <4>8. FromPiece(f, k, p)'
        BY <1>2, <2>3, <4>2, <4>3, <4>4, <4>6, <4>7 DEF FromPiece, FirstByte, InInt
      <4> QED BY <2>3, <4>6, <4>8
    <3>3. CASE f = start_file /\ ~(start < k /\ k <= start + n)
      <4>1. k <= Len(files[f]) /\ files'[f][k] = files[f][k] BY <2>1, <2>4, <3>3
      <4>2. k \in 1 .. Len(files[f]) BY <1>4, <1>5, <2>1, <3>3, <4>1
      <4> QED BY <1>4, <1>5, <3>1, <3>3, <4>1, <4>2
    <3>4. f # start_file => files'[f] = files[f] /\ f \in DOMAIN files BY <2>1
    <3> QED BY <3>1, <3>2, <3>3, <3>4
  <2>5. Positioned' BY <2>4 DEF Positioned
  <2> QED BY <2>2, <2>5
<1> QED BY <1>6, <1>7

LEMMA WritePartLayout == ASSUME LayoutInv, WritePart PROVE LayoutInv'
<1>1. /\ op = "write" /\ TorrentOK /\ UNCHANGED torrentVars /\ UNCHANGED <<no_of_blocks, call>>
      /\ on_disk' = IF data' = <<>> THEN on_disk \cup {call.piece} ELSE on_disk
      /\ op' = IF data' = <<>> THEN "idle" ELSE "write"
  BY DEF LayoutInv, WritePart
<1>2. /\ TorrentOK' /\ Files' = Files /\ Numbers' = Numbers /\ len_culmulative' = len_culmulative
      /\ (\A q : PieceSize(q)' = PieceSize(q)) /\ \A q : Placed(q)' = Placed(q)
  BY <1>1, SameTorrent
<1>3. Attempted' = Attempted BY <1>1 DEF Attempted
<1>4. AllPlaced' = AllPlaced
  <2>1. on_disk' \cup {call'.piece} = on_disk \cup {call.piece} BY <1>1
  <2> QED BY <1>2, <2>1 DEF AllPlaced
<1>5. Positioned' /\ DiskOK' BY <1>3, WritePartPositioned
<1>6. PICK n : n = Share(Len(data)) OBVIOUS
<1>7. /\ start_file \in Files /\ Len(data) = call.len - Done /\ n \in 0 .. Len(data)
      /\ start_file' \in 1 .. Len(length_list) + 1 /\ start' \in -IntLimit .. IntLimit - 1
      /\ Fits => n = Len(data) /\ start_file' = start_file
      /\ ~Fits => /\ n < Len(data) /\ mode = "MULTIPLE" /\ start' = 0
                  /\ len_culmulative[start_file' - 1] + start' = call.first + Done + n
      /\ mode = "MULTIPLE" => start + n <= length_list[start_file]
      /\ start + n = call.first + Done + n - len_culmulative[start_file - 1]
      /\ data' \in Seq(Numbers) /\ Len(data') = Len(data) - n
      /\ \A k \in 1 .. Len(data') : data'[k] = call.piece * pieceLength + Done + n + k - 1
      /\ op' = IF Fits THEN "idle" ELSE "write"
      /\ op' = "write" => Done' = Done + n
  BY <1>6, WritePartData
<1>8. /\ call.first = FirstByte(call.piece, HardBlocks) /\ call.len = PieceSize(call.piece)
      /\ call.len \in Nat /\ call.first \in Int /\ Done \in 0 .. call.len - 1
  BY <1>1, LayoutAssumption DEF LayoutInv, CallOK, LoopOK, TorrentOK
<1>12. Done \in Nat /\ n \in Nat /\ Len(data) \in Nat
  <2>1. Len(data) \in Nat BY DEF LayoutInv, LoopOK
  <2> QED BY <1>7, <1>8, <2>1
<1>9. CallOK'
  <2>1. FirstByte(call.piece, HardBlocks)' = FirstByte(call.piece, HardBlocks)
    BY <1>1 DEF FirstByte, InInt
  <2>2. call' \in [piece : Nat, first : -IntLimit .. IntLimit - 1, len : 0 .. pieceLength']
    BY <1>1 DEF LayoutInv, CallOK, torrentVars
  <2>3. length' = length /\ no_of_pieces' = no_of_pieces
    BY <1>1, <1>2, SameTorrent DEF no_of_pieces, torrentVars
  <2>4. PieceSize(call.piece)' = PieceSize(call.piece)
    BY <1>1, <2>3 DEF PieceSize, Rest, torrentVars
  <2>7. CASE op' = "idle"
    <3>1. call'.piece \in on_disk' \cup {0} BY <1>1, <2>7
    <3> QED BY <2>2, <2>7, <3>1 DEF CallOK
  <2>8. CASE op' = "write"
    <3>1. call'.first = FirstByte(call.piece, HardBlocks)' /\ call'.len = PieceSize(call.piece)'
      BY <1>1, <1>8, <2>1, <2>4
    <3> QED BY <2>2, <2>8, <3>1 DEF CallOK
  <2> QED BY <1>1, <2>7, <2>8
<1>10. LoopOK'
  <2>1. data' \in Seq(Numbers') /\ start' \in -IntLimit .. IntLimit - 1
        /\ start_file' \in 1 .. Len(length_list') + 1
    BY <1>1, <1>2, <1>7 DEF torrentVars
  <2>2. CASE op' = "idle"
    <3>1. start_file' \in Files' BY <1>2, <1>7, <2>2
    <3> QED BY <2>1, <2>2, <3>1 DEF LoopOK
  <2>3. CASE op' = "write"
    <3>1. ~Fits /\ Done' = Done + n BY <1>7, <2>3
    <3>2. Done' \in 0 .. call'.len - 1 BY <1>1, <1>7, <1>8, <3>1
    <3>3. len_culmulative'[start_file' - 1] + start' = call'.first + Done'
      <4>1. len_culmulative[start_file' - 1] + start' = call.first + Done + n BY <1>7, <3>1
      <4>2. Done \in Int /\ n \in Int BY <1>7, <1>8
      <4>3. call.first + Done + n = call.first + (Done + n) BY <1>8, <4>2
      <4> QED BY <1>1, <1>2, <3>1, <4>1, <4>3
    <3>4. mode' = "MULTIPLE" /\ start' = 0 BY <1>1, <1>7, <3>1 DEF torrentVars
    <3>5. \A k \in 1 .. Len(data') :
            data'[k] = call'.piece * pieceLength' + Done' + k - 1
      <4>1. call'.piece = call.piece /\ pieceLength' = pieceLength BY <1>1 DEF torrentVars
      <4>2. PICK x : x = call.piece * pieceLength OBVIOUS
      <4>3. \A k \in 1 .. Len(data') : data'[k] = x + Done + n + k - 1 BY <1>7, <4>2
      <4>4. x \in Nat /\ Done \in Int /\ n \in Int /\ Len(data') \in Nat
        <5>1. call.piece \in Nat /\ pieceLength \in Nat BY DEF LayoutInv, CallOK, TorrentOK
        <5>2. x \in Nat BY <4>2, <5>1, ProductOK
        <5> QED BY <1>7, <1>12, <5>2
      <4>5. \A k \in 1 .. Len(data') : x + Done + n + k - 1 = x + (Done + n) + k - 1 BY <4>4
      <4>6. call'.piece * pieceLength' = x BY <4>1, <4>2
      <4> QED BY <3>1, <4>3, <4>5, <4>6
    <3> QED BY <2>1, <2>3, <3>2, <3>3, <3>4, <3>5 DEF LoopOK
  <2> QED BY <1>1, <2>2, <2>3
<1>11. PlacedOK'
  <2>1. SUFFICES ASSUME AllPlaced PROVE PlacedOK' BY <1>4 DEF PlacedOK
  <2>2. /\ failed = {} /\ Inside
        /\ \A p \in on_disk : \A k \in 0 .. PieceSize(p) - 1 : Held(p * pieceLength + k)
        /\ \A k \in 0 .. Done - 1 : Held(call.first + k)
    BY <1>1, <2>1 DEF LayoutInv, PlacedOK
  <2>3. /\ call.first \in Nat /\ call.first + call.len <= length
        /\ start \in Nat /\ ~Stuck /\ call.first = call.piece * pieceLength
    BY <1>1, <2>1, PlacedCall
  <2>4. /\ failed' = failed /\ DOMAIN files' = DOMAIN files
        /\ \A f \in DOMAIN files : f # start_file => files'[f] = files[f]
        /\ files[start_file] \in Seq(Numbers) /\ files'[start_file] \in Seq(Numbers)
        /\ \A k \in 1 .. Len(files'[start_file]) :
             files'[start_file][k] # Hole =>
               \/ k <= start + n
               \/ /\ k <= Len(files[start_file])
                  /\ files'[start_file][k] = files[start_file][k]
    <3>1. files[start_file] \in Seq(Numbers) BY <1>6, <2>3, WritePartFile DEF LayoutInv, DiskOK
    <3>2. /\ failed' = failed /\ DOMAIN files' = DOMAIN files
          /\ \A f \in DOMAIN files : f # start_file => files'[f] = files[f]
          /\ files'[start_file] \in Seq(Numbers)
          /\ \A k \in 1 .. Len(files'[start_file]) :
               files'[start_file][k] =
                 IF start < k /\ k <= start + n
                 THEN call.piece * pieceLength + Done + (k - start) - 1
                 ELSE IF k <= Len(files[start_file]) THEN files[start_file][k] ELSE Hole
      BY <1>6, <2>3, WritePartFile
    <3>3. ASSUME NEW k \in 1 .. Len(files'[start_file]), files'[start_file][k] # Hole
          PROVE  \/ k <= start + n
                 \/ /\ k <= Len(files[start_file])
                    /\ files'[start_file][k] = files[start_file][k]
      <4>1. CASE start < k /\ k <= start + n BY <4>1
      <4>2. CASE ~(start < k /\ k <= start + n)
        <5>1. files'[start_file][k] = IF k <= Len(files[start_file])
                                      THEN files[start_file][k] ELSE Hole
          BY <3>2, <3>3, <4>2, Zenon
        <5> QED BY <3>3, <5>1, Zenon
      <4> QED BY <4>1, <4>2
    <3> QED BY <3>1, <3>2, <3>3
  <2>5. start + n <= length_list[start_file]
    <3>1. CASE mode = "MULTIPLE" BY <1>7, <3>1
    <3>2. CASE mode = "SINGLE"
      <4>0. Len(length_list) = 1 /\ start_file \in 1 .. Len(length_list)
        BY <1>1, <1>7, <3>2 DEF TorrentOK, Files
      <4>1. Len(length_list) = 1 /\ start_file = 1 BY <4>0
      <4>2. len_culmulative[0] = 0 /\ length = length_list[1] /\ length_list[1] \in Nat
        BY <1>1, <4>1, Beginnings DEF Files, length
      <4>3. start + n <= call.first + call.len BY <1>7, <1>8, <2>3, <4>1, <4>2
      <4> QED BY <1>7, <1>8, <2>3, <4>1, <4>2, <4>3
    <3> QED BY <1>1, <3>1, <3>2 DEF TorrentOK
  <2>6. Inside'
    <3>1. ASSUME NEW f \in DOMAIN files', NEW k \in 1 .. Len(files'[f]), files'[f][k] # Hole
          PROVE  k <= length_list'[f]
      <4>1. CASE f = start_file
        <5>1. k \in Int /\ length_list[f] \in Nat /\ n \in Int
          <6>1. k \in Int BY <2>4, <4>1
          <6>2. Len(data) \in Nat BY DEF LayoutInv, LoopOK
          <6>3. start_file \in 1 .. Len(length_list) /\ length_list \in Seq(Nat)
            BY <1>1, <1>7 DEF TorrentOK, Files
          <6>4. length_list[start_file] \in Nat BY <6>3
          <6>5. n \in Int BY <1>7, <6>2
          <6> QED BY <4>1, <6>1, <6>4, <6>5
        <5>2. CASE k <= start + n BY <1>1, <2>3, <2>5, <4>1, <5>1, <5>2 DEF torrentVars
        <5>3. CASE k <= Len(files[f]) /\ files'[f][k] = files[f][k]
          <6>1. k \in 1 .. Len(files[f]) BY <5>1, <5>3
          <6> QED BY <1>1, <2>2, <2>4, <3>1, <5>3, <6>1 DEF Inside, torrentVars
        <5> QED BY <2>4, <3>1, <4>1, <5>2, <5>3
      <4>2. CASE f # start_file BY <1>1, <2>2, <2>4, <3>1, <4>2 DEF Inside, torrentVars
      <4> QED BY <4>1, <4>2
    <3> QED BY <3>1 DEF Inside
  <2>7. /\ \A m \in Int : Held(m) => Held(m)'
        /\ \A k \in Done .. Done + n - 1 : Held(call.first + k)'
    BY <1>6, <2>1, WritePartHeld
  <2>8. \A k \in 0 .. Done + n - 1 : Held(call.first + k)'
    <3>1. ASSUME NEW k \in 0 .. Done + n - 1 PROVE Held(call.first + k)'
      <4>1. call' = call /\ k \in Int /\ call.first + k \in Int BY <1>1, <1>7, <1>8
      <4>2. CASE k < Done
        <5>1. k \in 0 .. Done - 1 BY <1>8, <4>1, <4>2
        <5>2. PICK m : m = call.first + k OBVIOUS
        <5>3. m \in Int /\ Held(m) BY <2>2, <4>1, <5>1, <5>2
        <5>4. Held(m)' BY <2>7, <5>3
        <5>5. (call.first + k)' = m BY <4>1, <5>2
        <5> QED BY <5>4, <5>5 DEF Held
      <4>3. CASE ~(k < Done)
        <5>1. k \in Done .. Done + n - 1 BY <1>7, <1>8, <4>1, <4>3
        <5> QED BY <2>7, <5>1
      <4> QED BY <4>2, <4>3
    <3> QED BY <3>1
  <2>9. \A p \in on_disk' : \A k \in 0 .. PieceSize(p)' - 1 : Held(p * pieceLength + k)'
    <3>1. ASSUME NEW p \in on_disk', NEW k \in 0 .. PieceSize(p)' - 1
          PROVE  Held(p * pieceLength + k)'
      <4>0. PieceSize(p)' = PieceSize(p) /\ pieceLength' = pieceLength BY <1>1, <1>2 DEF torrentVars
      <4>1. CASE p \in on_disk
        <5>1. PICK m : m = p * pieceLength + k OBVIOUS
        <5>2. m \in Int
          <6>1. p \in Pieces BY <4>1 DEF LayoutInv, DiskOK, Attempted
          <6>2. p * pieceLength \in Nat /\ PieceSize(p) \in 1 .. pieceLength
            BY <1>1, <6>1, PieceOK
          <6>3. k \in Int BY <1>1, <4>0, <6>2 DEF TorrentOK
          <6> QED BY <5>1, <6>2, <6>3
        <5>3. Held(m) BY <2>2, <4>0, <4>1, <5>1
        <5>4. Held(m)' BY <2>7, <5>2, <5>3
        <5>5. (p * pieceLength + k)' = m BY <4>0, <5>1
        <5> QED BY <5>4, <5>5 DEF Held
      <4>2. CASE p \notin on_disk
        <5>1. p = call.piece /\ op' = "idle" BY <1>1, <4>2
        <5>2. Done + n = PieceSize(p)
          <6>1. Fits /\ n = Len(data) BY <1>7, <5>1
          <6>2. Len(data) = call.len - Done BY <1>7
          <6> QED BY <1>8, <5>1, <6>1, <6>2
        <5>3. k \in 0 .. Done + n - 1
          <6>1. PICK m : m = PieceSize(p) OBVIOUS
          <6>2. k \in 0 .. m - 1 BY <4>0, <6>1
          <6>3. Done + n = m BY <5>2, <6>1
          <6>4. 0 .. m - 1 = 0 .. Done + n - 1 BY <1>12, <6>3
          <6> QED BY <6>2, <6>4
        <5>4. Held(call.first + k)' BY <2>8, <5>3
        <5>5. (call.first + k)' = (p * pieceLength + k)' BY <1>1, <2>3, <4>0, <5>1
        <5> QED BY <5>4, <5>5 DEF Held
      <4> QED BY <4>1, <4>2
    <3> QED BY <3>1
  <2>10. op' = "write" => \A k \in 0 .. Done' - 1 : Held(call.first + k)'
    <3>1. SUFFICES ASSUME op' = "write"
                   PROVE  \A k \in 0 .. Done' - 1 : Held(call.first + k)'
      OBVIOUS
    <3>2. 0 .. Done' - 1 = 0 .. Done + n - 1 BY <1>7, <1>12, <3>1
    <3> QED BY <2>8, <3>2
  <2>11. op' \notin {"undefined", "read", "send"} BY <1>1
  <2> QED BY <2>2, <2>4, <2>6, <2>9, <2>10, <2>11 DEF PlacedOK
<1> QED BY <1>2, <1>5, <1>9, <1>10, <1>11 DEF LayoutInv

LEMMA ReadPartData ==
  ASSUME LayoutInv, ReadPart, NEW n, n = Share(call.len - Len(data)),
         NEW got, got = IF Stuck THEN [k \in 1 .. n |-> Hole]
                        ELSE Read(files[start_file], start, n)
  PROVE  /\ start_file \in Files /\ n \in 0 .. call.len - Len(data)
         /\ start_file' \in 1 .. Len(length_list) + 1 /\ start' \in -IntLimit .. IntLimit - 1
         /\ Fits => n = call.len - Len(data) /\ start_file' = start_file
         /\ ~Fits => /\ n < call.len - Len(data) /\ mode = "MULTIPLE" /\ start' = 0
                     /\ len_culmulative[start_file' - 1] + start'
                          = call.first + (Len(data) + n)
         /\ n = 0 => start <= 0
         /\ mode = "MULTIPLE" => start + n <= length_list[start_file]
         /\ Len(data) \in 0 .. call.len - 1 /\ call.len \in Nat /\ call.first \in Int
         /\ len_culmulative[start_file - 1] + start = call.first + Len(data)
         /\ got \in Seq(Numbers) /\ Len(got) = n
         /\ data' = data \o got /\ data' \in Seq(Numbers) /\ Len(data') = Len(data) + n
         /\ op' = IF Fits THEN "send" ELSE "read"
<1>1. /\ TorrentOK /\ CallOK /\ LoopOK /\ op = "read" /\ ~OutOfFiles /\ NextFile
      /\ data \in Seq(Numbers) /\ Done = Len(data)
  BY DEF LayoutInv, ReadPart, LoopOK, Done
<1>2. PICK rest : rest = call.len - Done OBVIOUS
<1>3. n = Share(rest) /\ rest = call.len - Len(data) BY <1>1, <1>2
<1>4. /\ start_file \in Files /\ rest \in 1 .. call.len /\ n \in 0 .. rest
      /\ start_file' \in 1 .. Len(length_list) + 1 /\ start' \in -IntLimit .. IntLimit - 1
      /\ Fits => n = rest /\ UNCHANGED <<start_file, start>>
      /\ ~Fits => /\ n < rest /\ mode = "MULTIPLE" /\ start' = 0
                  /\ len_culmulative[start_file' - 1] + start' = call.first + Done + n
      /\ n = 0 => start <= 0
      /\ mode = "MULTIPLE" => start + n <= length_list[start_file]
  BY <1>1, <1>2, <1>3, TurnOK
<1>5. /\ Len(data) \in 0 .. call.len - 1 /\ call.len \in Nat /\ call.first \in Int
      /\ len_culmulative[start_file - 1] + start = call.first + Len(data)
  BY <1>1, LayoutAssumption DEF LoopOK, CallOK, TorrentOK
<1>6. n \in Nat /\ Len(data) \in Nat /\ Hole \in Numbers
  <2>1. Len(data) \in Nat BY <1>1
  <2> QED BY <1>3, <1>4, <1>5, <2>1 DEF Numbers
<1>7. got \in Seq(Numbers) /\ Len(got) = n
  <2>1. CASE Stuck
    <3>1. got = [k \in 1 .. n |-> Hole] BY <2>1
    <3> QED BY <1>6, <3>1
  <2>2. CASE ~Stuck
    <3>1. got = Read(files[start_file], start, n) BY <2>2
    <3>2. files[start_file] \in Seq(Numbers) BY <1>1, <1>4 DEF LayoutInv, DiskOK
    <3>3. start \in Nat BY <1>1, <2>2, LayoutAssumption DEF LoopOK, Stuck
    <3>4. PICK S, content : S = Numbers /\ content = files[start_file] OBVIOUS
    <3>5. Hole \in S /\ content \in Seq(S) /\ n \in Nat /\ start \in Nat
      BY <1>6, <3>2, <3>3, <3>4
    <3>6. got = Read(content, start, n) BY <3>1, <3>4, Zenon
    <3>7. PICK o : o = start OBVIOUS
    <3>8. Read(content, o, n) \in Seq(S) BY <3>5, <3>7, ReadOK
    <3>9. Len(Read(content, o, n)) = n BY <3>5, <3>7, ReadOK
    <3> QED BY <3>4, <3>6, <3>7, <3>8, <3>9
  <2> QED BY <2>1, <2>2
<1>8. data' = data \o got BY DEF ReadPart
<1>9. data' \in Seq(Numbers) /\ Len(data') = Len(data) + n
  <2>1. \A S, s, t : s \in Seq(S) /\ t \in Seq(S)
                      => s \o t \in Seq(S) /\ Len(s \o t) = Len(s) + Len(t)
    OBVIOUS
  <2>2. data \o got \in Seq(Numbers) /\ Len(data \o got) = Len(data) + Len(got)
    BY <1>1, <1>7, <2>1, Zenon
  <2> QED BY <1>7, <1>8, <2>2, Zenon
<1>10. op' = IF Fits THEN "send" ELSE "read"
  <2>1. op' = IF Len(data') < call.len THEN "read" ELSE "send" BY DEF ReadPart
  <2>2. Len(data) + n < call.len <=> n < rest BY <1>3, <1>5, <1>6
  <2>3. n < rest <=> ~Fits BY <1>3, <1>4, <1>5, <1>6
  <2> QED BY <1>9, <2>1, <2>2, <2>3
<1>11. call.first + Done + n = call.first + (Len(data) + n) BY <1>1, <1>5, <1>6
<1> QED BY <1>3, <1>4, <1>5, <1>7, <1>8, <1>9, <1>10, <1>11, Zenon

(* While all pieces are placed a turn reads what is there. *)
LEMMA ReadPartHeld ==
  ASSUME LayoutInv, ReadPart, AllPlaced, NEW n, n = Share(call.len - Len(data)),
         NEW i \in 1 .. n
  PROVE  /\ start + i <= Len(files[start_file])
         /\ files[start_file][start + i] = call.first + Len(data) + i - 1
<1>1. /\ TorrentOK /\ op = "read" /\ call.piece \in on_disk /\ Placed(call.piece)
      /\ DOMAIN files = Files
  BY DEF LayoutInv, ReadPart, CallOK, AllPlaced, DiskOK
<1>2. call.first \in Nat /\ start \in Nat BY <1>1, PlacedCall
<1>3. /\ start_file \in Files /\ n \in 0 .. call.len - Len(data)
      /\ mode = "MULTIPLE" => start + n <= length_list[start_file]
      /\ Len(data) \in 0 .. call.len - 1 /\ call.len \in Nat
      /\ len_culmulative[start_file - 1] + start = call.first + Len(data)
  <2>1. PICK got : got = IF Stuck THEN [k \in 1 .. n |-> Hole]
                         ELSE Read(files[start_file], start, n)
    OBVIOUS
  <2> QED BY <2>1, ReadPartData
<1>4. PICK m : m = call.first + Len(data) + i - 1 OBVIOUS
<1>5. m \in Nat /\ n \in Nat /\ Len(data) \in Nat /\ i \in Nat
  <2>1. Len(data) \in Nat BY DEF LayoutInv, LoopOK
  <2> QED BY <1>2, <1>3, <1>4, <2>1
<1>6. Held(m)
  <2>1. /\ call.piece \in Nat /\ call.piece * pieceLength \in Nat
        /\ PieceSize(call.piece) \in Nat
    <3>1. call.piece \in Pieces BY <1>1 DEF LayoutInv, DiskOK, Attempted
    <3>2. pieceLength \in Nat BY <1>1 DEF TorrentOK
    <3> QED BY <1>1, <3>1, <3>2, PieceOK
  <2>2. PICK b \in 0 .. HardBlocks - 1 :
          /\ call.first = call.piece * pieceLength + b * BlockSize
          /\ call.len = IF PieceSize(call.piece) - b * BlockSize < BlockSize
                        THEN PieceSize(call.piece) - b * BlockSize ELSE BlockSize
    BY <1>1 DEF LayoutInv, CallOK, ReadsBlock
  <2>3. PICK x, y : x = call.piece * pieceLength /\ y = b * BlockSize OBVIOUS
  <2>4. x \in Nat /\ y \in Nat /\ BlockSize \in Nat BY <2>1, <2>3, ProductOK, LayoutAssumption
  <2>5. call.len <= PieceSize(call.piece) - y BY <2>1, <2>2, <2>3, <2>4
  <2>6. PICK k : k = y + Len(data) + i - 1 OBVIOUS
  <2>7. k \in 0 .. PieceSize(call.piece) - 1 BY <1>3, <1>5, <2>1, <2>4, <2>5, <2>6
  <2>8. m = x + k BY <1>4, <1>5, <2>2, <2>3, <2>4, <2>6
  <2>9. Held(x + k) BY <1>1, <2>3, <2>7 DEF LayoutInv, PlacedOK
  <2> QED BY <2>8, <2>9
<1>7. PICK f \in Files : \E j \in 1 .. Len(files[f]) :
        files[f][j] = m /\ len_culmulative[f - 1] + j - 1 = m
  BY <1>6 DEF Held
<1>8. PICK j \in 1 .. Len(files[f]) : files[f][j] = m /\ len_culmulative[f - 1] + j - 1 = m
  BY <1>7
<1>9. j \in Nat /\ 1 <= j /\ j <= length_list[f]
  <2>1. files[f] \in Seq(Numbers) /\ f \in DOMAIN files BY <1>1, <1>7 DEF LayoutInv, DiskOK
  <2>2. files[f][j] # Hole BY <1>8, <1>4, <1>5 DEF Hole
  <2> QED BY <1>1, <1>8, <2>1, <2>2 DEF LayoutInv, PlacedOK, Inside
<1>10. Len(length_list) \in Nat /\ f - 1 \in 0 .. Len(length_list)
       /\ start_file - 1 \in 0 .. Len(length_list)
  BY <1>1, <1>3 DEF TorrentOK, Files
<1>11. /\ len_culmulative[f - 1] \in Nat /\ len_culmulative[start_file - 1] \in Nat
       /\ length_list[f] \in Nat /\ length_list[start_file] \in Nat
       /\ len_culmulative[f] = len_culmulative[f - 1] + length_list[f]
       /\ len_culmulative[start_file] = len_culmulative[start_file - 1] + length_list[start_file]
  BY <1>1, <1>3, <1>10, Beginnings
<1>12. len_culmulative[f - 1] <= m /\ m < len_culmulative[f] BY <1>5, <1>8, <1>9, <1>11
<1>13. f = start_file
  <2>1. CASE mode = "SINGLE"
    <3>1. Len(length_list) = 1 BY <1>1, <2>1 DEF TorrentOK
    <3>2. Files = {1} BY <3>1 DEF Files
    <3> QED BY <1>3, <3>2
  <2>2. CASE mode = "MULTIPLE"
    <3>1. len_culmulative[start_file - 1] <= m BY <1>2, <1>3, <1>4, <1>5, <1>11
    <3>2. m < len_culmulative[start_file] BY <1>2, <1>3, <1>4, <1>5, <1>11, <2>2
    <3> QED BY <1>1, <1>3, <1>5, <1>12, <3>1, <3>2, OneFile
  <2> QED BY <1>1, <2>1, <2>2 DEF TorrentOK
<1>14. j = start + i BY <1>2, <1>3, <1>4, <1>5, <1>8, <1>9, <1>11, <1>13
<1> QED BY <1>4, <1>8, <1>9, <1>13, <1>14

LEMMA ReadPartLayout == ASSUME LayoutInv, ReadPart PROVE LayoutInv'
<1>1. /\ op = "read" /\ TorrentOK /\ UNCHANGED torrentVars
      /\ UNCHANGED <<no_of_blocks, files, on_disk, call>>
      /\ call.piece \in on_disk
  BY DEF LayoutInv, ReadPart, CallOK
<1>2. /\ TorrentOK' /\ Files' = Files /\ Numbers' = Numbers /\ len_culmulative' = len_culmulative
      /\ Pieces' = Pieces
      /\ (\A q : PieceSize(q)' = PieceSize(q)) /\ \A q : Placed(q)' = Placed(q)
  BY <1>1, SameTorrent
<1>3. PICK n : n = Share(call.len - Len(data)) OBVIOUS
<1>4. PICK got : got = IF Stuck THEN [k \in 1 .. n |-> Hole]
                       ELSE Read(files[start_file], start, n)
  OBVIOUS
<1>5. /\ start_file \in Files /\ n \in 0 .. call.len - Len(data)
      /\ start_file' \in 1 .. Len(length_list) + 1 /\ start' \in -IntLimit .. IntLimit - 1
      /\ Fits => n = call.len - Len(data) /\ start_file' = start_file
      /\ ~Fits => /\ n < call.len - Len(data) /\ mode = "MULTIPLE" /\ start' = 0
                  /\ len_culmulative[start_file' - 1] + start' = call.first + (Len(data) + n)
      /\ n = 0 => start <= 0
      /\ Len(data) \in 0 .. call.len - 1 /\ call.len \in Nat /\ call.first \in Int
      /\ got \in Seq(Numbers) /\ Len(got) = n
      /\ data' = data \o got /\ data' \in Seq(Numbers) /\ Len(data') = Len(data) + n
      /\ op' = IF Fits THEN "send" ELSE "read"
  BY <1>3, <1>4, ReadPartData
<1>6. n \in Nat /\ Len(data) \in Nat /\ data \in Seq(Numbers)
  <2>1. data \in Seq(Numbers) BY DEF LayoutInv, LoopOK
  <2> QED BY <1>5, <2>1
<1>7. Attempted = on_disk /\ Attempted' = on_disk BY <1>1, <1>5 DEF Attempted
<1>8. AllPlaced' = AllPlaced BY <1>1, <1>2 DEF AllPlaced
<1>9. DiskOK'
  <2>1. failed' \subseteq Files BY <1>5 DEF LayoutInv, DiskOK, ReadPart
  <2>2. op # "none" /\ op' # "none" BY <1>1, <1>5
  <2> QED BY <1>1, <1>2, <1>7, <2>1, <2>2 DEF LayoutInv, DiskOK
<1>10. Positioned'
  <2>1. \A f, k, q : FromPiece(f, k, q)' = FromPiece(f, k, q)
    BY <1>1, <1>2 DEF FromPiece, FirstByte, InInt, torrentVars
  <2> QED BY <1>1, <1>7, <2>1 DEF LayoutInv, Positioned
<1>11. CallOK'
  <2>1. PieceSize(call.piece)' = PieceSize(call.piece)
    <3>1. length' = length /\ no_of_pieces' = no_of_pieces
      BY <1>1, <1>2, SameTorrent DEF no_of_pieces, torrentVars
    <3> QED BY <1>1, <3>1 DEF PieceSize, Rest, torrentVars
  <2>2. Placed(call.piece)' = Placed(call.piece) BY <1>1 DEF Placed, torrentVars
  <2>3. ReadsBlock BY <1>1 DEF LayoutInv, CallOK
  <2>4. ReadsBlock' BY <1>1, <2>1, <2>2, <2>3 DEF ReadsBlock, torrentVars
  <2>5. call' \in [piece : Nat, first : -IntLimit .. IntLimit - 1, len : 0 .. pieceLength']
    BY <1>1 DEF LayoutInv, CallOK, torrentVars
  <2> QED BY <1>1, <1>5, <2>4, <2>5 DEF CallOK
<1>12. LoopOK'
  <2>1. data' \in Seq(Numbers') /\ start' \in -IntLimit .. IntLimit - 1
        /\ start_file' \in 1 .. Len(length_list') + 1
    BY <1>1, <1>2, <1>5 DEF torrentVars
  <2>2. CASE op' = "send"
    <3>1. start_file' \in Files' BY <1>2, <1>5, <2>2
    <3>2. Len(data') = call'.len BY <1>1, <1>5, <1>6, <2>2
    <3> QED BY <2>1, <2>2, <3>1, <3>2 DEF LoopOK
  <2>3. CASE op' = "read"
    <3>1. ~Fits /\ Done' = Len(data) + n BY <1>5, <2>3 DEF Done
    <3>2. Done' \in 0 .. call'.len - 1 BY <1>1, <1>5, <1>6, <3>1
    <3>3. len_culmulative'[start_file' - 1] + start' = call'.first + Done'
      BY <1>1, <1>2, <1>5, <3>1
    <3>4. mode' = "MULTIPLE" /\ start' = 0 BY <1>1, <1>5, <3>1 DEF torrentVars
    <3> QED BY <2>1, <2>3, <3>2, <3>3, <3>4 DEF LoopOK
  <2> QED BY <1>5, <2>2, <2>3
<1>13. PlacedOK'
  <2>1. SUFFICES ASSUME AllPlaced PROVE PlacedOK' BY <1>8 DEF PlacedOK
  <2>2. /\ failed = {} /\ Inside
        /\ \A p \in on_disk : \A k \in 0 .. PieceSize(p) - 1 : Held(p * pieceLength + k)
        /\ \A k \in 1 .. Len(data) : data[k] = call.first + k - 1
    BY <1>1, <2>1 DEF LayoutInv, PlacedOK
  <2>3. ~Stuck /\ start \in Nat BY <1>1, <2>1, PlacedCall
  <2>4. \A i \in 1 .. n : /\ start + i <= Len(files[start_file])
                          /\ files[start_file][start + i] = call.first + Len(data) + i - 1
    BY <1>3, <2>1, ReadPartHeld
  <2>5. files[start_file] \in Seq(Numbers) /\ Len(files[start_file]) \in Nat
    BY <1>1, <1>5 DEF LayoutInv, DiskOK
  <2>6. start + n <= Len(files[start_file])
    <3>1. CASE n = 0 BY <1>5, <2>3, <2>5, <3>1
    <3>2. CASE n # 0
      <4>1. n \in 1 .. n BY <1>6, <3>2
      <4> QED BY <2>4, <4>1
    <3> QED BY <3>1, <3>2
  <2>7. failed' = {}
    <3>1. ~(start + n > Len(files[start_file])) BY <1>6, <2>3, <2>5, <2>6
    <3>2. failed' = IF Stuck \/ start + n > Len(files[start_file])
                    THEN failed \cup {start_file} ELSE failed
      BY <1>3 DEF ReadPart
    <3> QED BY <2>2, <2>3, <3>1, <3>2
  <2>8. ASSUME NEW k \in 1 .. Len(data') PROVE data'[k] = call.first + k - 1
    <3>1. k \in Int /\ 1 <= k /\ k <= Len(data) + n BY <1>5, <1>6
    <3>2. CASE k <= Len(data)
      <4>1. k \in 1 .. Len(data) BY <1>6, <3>1, <3>2
      <4>2. data'[k] = data[k] BY <1>5, <1>6, <4>1
      <4> QED BY <2>2, <4>1, <4>2
    <3>3. CASE k > Len(data)
      <4>1. PICK i : i = k - Len(data) OBVIOUS
      <4>2. i \in 1 .. n /\ k = Len(data) + i BY <1>6, <3>1, <3>3, <4>1
      <4>3. data'[k] = got[i] BY <1>5, <1>6, <3>1, <3>3, <4>1
      <4>4. got[i] = files[start_file][start + i]
        <5>1. PICK o, content, S : o = start /\ content = files[start_file] /\ S = Numbers OBVIOUS
        <5>2. Hole \in S /\ content \in Seq(S) /\ o \in Nat /\ start + i <= Len(content)
          BY <2>3, <2>4, <2>5, <4>2, <5>1 DEF Numbers
        <5>3. got = Read(content, o, n) BY <1>4, <2>3, <5>1, Zenon
        <5>4. Read(content, o, n)[i] = content[o + i] BY <1>6, <4>2, <5>1, <5>2, ReadOK
        <5> QED BY <5>1, <5>3, <5>4
      <4>5. got[i] = call.first + Len(data) + i - 1 BY <2>4, <4>2, <4>4
      <4> QED BY <1>5, <1>6, <4>2, <4>3, <4>5
    <3> QED BY <1>6, <3>1, <3>2, <3>3
  <2>9. \A m : Held(m)' = Held(m) BY <1>1, <1>2 DEF Held
  <2>10. op' \in {"read", "send"} BY <1>5
  <2>11. pieceLength' = pieceLength /\ length_list' = length_list BY <1>1 DEF torrentVars
  <2>12. \A p \in on_disk' : \A k \in 0 .. PieceSize(p)' - 1 : Held(p * pieceLength + k)'
    <3>1. ASSUME NEW p \in on_disk', NEW k \in 0 .. PieceSize(p)' - 1
          PROVE  Held(p * pieceLength + k)'
      <4>1. p \in on_disk /\ k \in 0 .. PieceSize(p) - 1 BY <1>1, <1>2
      <4>2. PICK m : m = p * pieceLength + k OBVIOUS
      <4>3. Held(m)' BY <2>2, <2>9, <4>1, <4>2
      <4>4. (p * pieceLength + k)' = m BY <2>11, <4>2
      <4> QED BY <4>3, <4>4 DEF Held
    <3> QED BY <3>1
  <2>13. Inside' BY <1>1, <2>2, <2>11 DEF Inside
  <2> QED BY <1>1, <2>2, <2>7, <2>8, <2>10, <2>11, <2>12, <2>13 DEF PlacedOK
<1> QED BY <1>2, <1>9, <1>10, <1>11, <1>12, <1>13 DEF LayoutInv

-----------------------------------------------------------------------------
(* The other steps, and all of them.                                       *)

LEMMA SameDisk ==
  ASSUME LayoutInv, UNCHANGED torrentVars, UNCHANGED diskVars, UNCHANGED no_of_blocks,
         Attempted' = Attempted, op # "none", op' # "none"
  PROVE  TorrentOK' /\ DiskOK' /\ Positioned'
<1>1. /\ TorrentOK' /\ Files' = Files /\ Pieces' = Pieces /\ Numbers' = Numbers
      /\ len_culmulative' = len_culmulative /\ \A q : PieceSize(q)' = PieceSize(q)
  BY SameTorrent DEF LayoutInv
<1>2. DiskOK' BY <1>1 DEF LayoutInv, DiskOK, diskVars
<1>3. \A f, k, q : FromPiece(f, k, q)' = FromPiece(f, k, q)
  BY <1>1 DEF FromPiece, FirstByte, InInt, torrentVars, diskVars
<1>4. Positioned' BY <1>3 DEF LayoutInv, Positioned, diskVars
<1> QED BY <1>1, <1>2, <1>4

LEMMA SendLayout == ASSUME LayoutInv, Send PROVE LayoutInv'
<1>1. /\ op = "send" /\ op' = "idle" /\ data' = <<>> /\ UNCHANGED torrentVars /\ UNCHANGED diskVars
      /\ UNCHANGED <<no_of_blocks, call, start_file, start>>
  BY DEF Send
<1>2. Attempted' = Attempted BY <1>1 DEF Attempted, diskVars
<1>3. /\ Files' = Files /\ Numbers' = Numbers /\ len_culmulative' = len_culmulative
      /\ (\A q : PieceSize(q)' = PieceSize(q)) /\ \A q : Placed(q)' = Placed(q)
  BY <1>1, SameTorrent DEF LayoutInv
<1>4. TorrentOK' /\ DiskOK' /\ Positioned' BY <1>1, <1>2, SameDisk
<1>5. CallOK' BY <1>1 DEF LayoutInv, CallOK, torrentVars, diskVars
<1>6. LoopOK' BY <1>1, <1>3 DEF LayoutInv, LoopOK, torrentVars
<1>7. PlacedOK'
  <2>1. AllPlaced' = AllPlaced BY <1>1, <1>3 DEF AllPlaced, diskVars
  <2>2. SUFFICES ASSUME AllPlaced PROVE PlacedOK' BY <2>1 DEF PlacedOK
  <2>3. \A m : Held(m)' = Held(m) BY <1>1, <1>3 DEF Held, diskVars
  <2>4. \A p \in on_disk' : \A k \in 0 .. PieceSize(p)' - 1 : Held(p * pieceLength + k)'
    <3>1. ASSUME NEW p \in on_disk', NEW k \in 0 .. PieceSize(p)' - 1
          PROVE  Held(p * pieceLength + k)'
      <4>1. p \in on_disk /\ k \in 0 .. PieceSize(p) - 1 BY <1>1, <1>3 DEF diskVars
      <4>2. PICK m : m = p * pieceLength + k OBVIOUS
      <4>3. Held(m)' BY <2>2, <2>3, <4>1, <4>2 DEF LayoutInv, PlacedOK
      <4>4. (p * pieceLength + k)' = m BY <1>1, <4>2 DEF torrentVars
      <4> QED BY <4>3, <4>4 DEF Held
    <3> QED BY <3>1
  <2> QED BY <1>1, <2>2, <2>4 DEF LayoutInv, PlacedOK, Inside, diskVars, torrentVars
<1> QED BY <1>4, <1>5, <1>6, <1>7 DEF LayoutInv

LEMMA LosesLayout == ASSUME LayoutInv, LosesItself PROVE LayoutInv'
<1>1. /\ op \in {"write", "read"} /\ OutOfFiles /\ op' = "undefined"
      /\ UNCHANGED torrentVars /\ UNCHANGED diskVars
      /\ UNCHANGED <<no_of_blocks, call, start_file, start, data>>
  BY DEF LosesItself
<1>2. Attempted' = Attempted
  <2>1. op = "read" => call.piece \in on_disk BY DEF LayoutInv, CallOK
  <2> QED BY <1>1, <2>1 DEF Attempted, diskVars
<1>3. Numbers' = Numbers /\ \A q : Placed(q)' = Placed(q)
  BY <1>1, SameTorrent DEF LayoutInv
<1>4. TorrentOK' /\ DiskOK' /\ Positioned' BY <1>1, <1>2, SameDisk
<1>5. CallOK' BY <1>1 DEF LayoutInv, CallOK, torrentVars, diskVars
<1>6. LoopOK' BY <1>1, <1>3 DEF LayoutInv, LoopOK, torrentVars
<1>7. ~AllPlaced BY <1>1, PlacedCall
<1>8. AllPlaced' = AllPlaced BY <1>1, <1>3 DEF AllPlaced, diskVars
<1>9. PlacedOK' BY <1>7, <1>8 DEF PlacedOK
<1> QED BY <1>4, <1>5, <1>6, <1>9 DEF LayoutInv

LEMMA IdleLayout == ASSUME LayoutInv, UNCHANGED vars PROVE LayoutInv'
<1>1. /\ UNCHANGED torrentVars
      /\ UNCHANGED <<no_of_blocks, files, failed, on_disk, op, call, start_file, start, data>>
  BY DEF vars, torrentVars, diskVars
<1>2. /\ TorrentOK' /\ Files' = Files /\ Pieces' = Pieces /\ Numbers' = Numbers
      /\ len_culmulative' = len_culmulative
      /\ (\A q : PieceSize(q)' = PieceSize(q)) /\ \A q : Placed(q)' = Placed(q)
  BY <1>1, SameTorrent DEF LayoutInv
<1>3. PieceSize(call.piece)' = PieceSize(call.piece)
      /\ FirstByte(call.piece, HardBlocks)' = FirstByte(call.piece, HardBlocks)
      /\ Placed(call.piece)' = Placed(call.piece)
  <2>1. length' = length /\ no_of_pieces' = no_of_pieces
    BY <1>1, SameTorrent DEF no_of_pieces, torrentVars, LayoutInv
  <2> QED BY <1>1, <2>1 DEF PieceSize, Rest, FirstByte, InInt, Placed, torrentVars
<1>4. Attempted' = Attempted BY <1>1 DEF Attempted
<1>5. DiskOK' BY <1>1, <1>2, <1>4 DEF LayoutInv, DiskOK
<1>6. Positioned'
  <2>1. \A f, k, q : FromPiece(f, k, q)' = FromPiece(f, k, q)
    BY <1>1, <1>2 DEF FromPiece, FirstByte, InInt, torrentVars
  <2> QED BY <1>1, <1>4, <2>1 DEF LayoutInv, Positioned
<1>7. CallOK'
  <2>1. ReadsBlock' = ReadsBlock BY <1>1, <1>3 DEF ReadsBlock, torrentVars
  <2> QED BY <1>1, <1>3, <2>1 DEF LayoutInv, CallOK, torrentVars
<1>8. Done' = Done BY <1>1 DEF Done
<1>9. LoopOK' BY <1>1, <1>2, <1>8 DEF LayoutInv, LoopOK, torrentVars
<1>10. PlacedOK'
  <2>1. AllPlaced' = AllPlaced BY <1>1, <1>2 DEF AllPlaced
  <2>3. \A p, k : Held(p * pieceLength + k)' = Held(p * pieceLength + k)
    BY <1>1, <1>2 DEF Held, torrentVars
  <2>4. \A k : Held(call.first + k)' = Held(call.first + k) BY <1>1, <1>2 DEF Held
  <2> QED BY <1>1, <1>2, <1>8, <2>1, <2>3, <2>4 DEF LayoutInv, PlacedOK, Inside, torrentVars
<1> QED BY <1>2, <1>5, <1>6, <1>7, <1>9, <1>10 DEF LayoutInv

LEMMA StepLayout == ASSUME LayoutInv, [LayoutNext]_vars PROVE LayoutInv'
<1>1. CASE Open BY <1>1, OpenLayout
<1>2. CASE Calls
  <2>1. CASE \E p \in Pieces : WritePiece(p) BY <2>1, WritePieceLayout
  <2>2. CASE \E p \in Pieces : \E b \in 0 .. pieceLength \div BlockSize - 1 :
               b * BlockSize < PieceSize(p) /\ ReadBlock(p, b * BlockSize)
    BY <2>2, ReadBlockLayout
  <2> QED BY <1>2, <2>1, <2>2 DEF Calls
<1>3. CASE Loops
  BY <1>3, WritePartLayout, ReadPartLayout, SendLayout, LosesLayout DEF Loops
<1>4. CASE UNCHANGED vars
  BY <1>4, IdleLayout
<1> QED BY <1>1, <1>2, <1>3, <1>4 DEF LayoutNext

(* Whatever the torrent and whichever pieces and blocks are asked for, in  *)
(* any order: between any two turns of the loops of writePieceToFile and   *)
(* createPieceMessage the streams, the files and the locals agree.         *)
THEOREM LayoutInvariant == LayoutSpec => []LayoutInv
<1>1. Blank => LayoutInv BY InitLayout
<1>2. LayoutInv /\ [LayoutNext]_vars => LayoutInv' BY StepLayout
<1> QED BY <1>1, <1>2, PTL DEF LayoutSpec

-----------------------------------------------------------------------------
(* What follows from it.                                                   *)

LEMMA LayoutTypeOK == LayoutInv => TypeOK
<1> SUFFICES ASSUME LayoutInv PROVE TypeOK OBVIOUS
<1>1. call.piece \in Nat /\ call.len \in 0 .. pieceLength
      /\ call.first \in -IntLimit .. IntLimit - 1
  BY DEF LayoutInv, CallOK
<1>2. on_disk \subseteq Pieces BY DEF LayoutInv, DiskOK, Attempted
<1>3. AllPlaced => start_file \in Files
  <2>1. SUFFICES ASSUME AllPlaced PROVE start_file \in Files OBVIOUS
  <2>2. op # "undefined" BY <2>1 DEF LayoutInv, PlacedOK
  <2>3. CASE op \in {"write", "read"} BY <2>1, <2>3, PlacedCall
  <2>4. CASE op \in {"none", "idle", "send"} BY <2>4 DEF LayoutInv, LoopOK
  <2> QED BY <2>2, <2>3, <2>4 DEF LayoutInv, CallOK
<1> QED BY <1>1, <1>2, <1>3
        DEF LayoutInv, TypeOK, TorrentOK, DiskOK, CallOK, LoopOK, Numbers

(* The variables hold values of their types, and the loops index a file    *)
(* that exists as long as every piece is placed.                           *)
THEOREM LayoutTypes == LayoutSpec => []TypeOK
BY LayoutInvariant, LayoutTypeOK, PTL

LEMMA LayoutNothingMisplaced == LayoutInv => NothingMisplaced
<1> SUFFICES ASSUME LayoutInv, AllPlaced,
                    NEW f \in DOMAIN files, NEW k \in 1 .. Len(files[f]), files[f][k] # Hole
             PROVE  k <= length_list[f] /\ files[f][k] = len_culmulative[f - 1] + k - 1
  BY DEF NothingMisplaced
<1>1. k <= length_list[f] BY DEF LayoutInv, PlacedOK, Inside
<1>2. files[f][k] = len_culmulative[f - 1] + k - 1
  <2>1. PICK p \in Attempted : FromPiece(f, k, p) BY DEF LayoutInv, Positioned
  <2>2. TorrentOK /\ p \in Pieces /\ Placed(p) BY DEF LayoutInv, DiskOK, AllPlaced, Attempted
  <2>3. FirstByte(p, HardBlocks) = p * pieceLength BY <2>2, BeginOK, PieceOK
  <2> QED BY <2>1, <2>3 DEF FromPiece
<1> QED BY <1>1, <1>2

(* writePieceToFile writes no byte behind the end the metainfo gives a     *)
(* file, and none but in its place, also with files that end inside a      *)
(* piece, empty ones, and files that had other bytes before.               *)
THEOREM LayoutKept == LayoutSpec => []NothingMisplaced
BY LayoutInvariant, LayoutNothingMisplaced, PTL

LEMMA LayoutBlockSent == LayoutInv => BlockSent
<1> SUFFICES ASSUME LayoutInv, AllPlaced, op = "send"
             PROVE  \E b \in 0 .. HardBlocks - 1 :
                      LET first == call.piece * pieceLength + b * BlockSize
                          rest  == PieceSize(call.piece) - b * BlockSize
                      IN  /\ call.first = first
                          /\ data = Bytes(first, IF rest < BlockSize THEN rest ELSE BlockSize)
  BY DEF BlockSent
<1>1. Placed(call.piece) /\ ReadsBlock BY DEF LayoutInv, CallOK, AllPlaced
<1>2. PICK b \in 0 .. HardBlocks - 1 :
        /\ call.first = call.piece * pieceLength + b * BlockSize
        /\ call.len = IF PieceSize(call.piece) - b * BlockSize < BlockSize
                      THEN PieceSize(call.piece) - b * BlockSize ELSE BlockSize
  BY <1>1 DEF ReadsBlock
<1>3. /\ data \in Seq(Numbers) /\ Len(data) = call.len
      /\ \A k \in 1 .. Len(data) : data[k] = call.first + k - 1
  BY DEF LayoutInv, LoopOK, PlacedOK
<1>4. data = Bytes(call.first, call.len)
  <2>1. data = [k \in 1 .. Len(data) |-> data[k]] BY <1>3
  <2> QED BY <1>3, <2>1 DEF Bytes
<1> QED BY <1>2, <1>4

(* createPieceMessage puts together the block that was asked for, over any *)
(* number of files.                                                        *)
THEOREM LayoutBlocks == LayoutSpec => []BlockSent
BY LayoutInvariant, LayoutBlockSent, PTL

(* A byte that is in its place is where writePieceToFile puts it. *)
LEMMA StoredBegins ==
  ASSUME LayoutInv, op # "none", NEW p \in Pieces, Stored(p)
  PROVE  FirstByte(p, HardBlocks) = p * pieceLength /\ p * pieceLength < IntLimit
<1>1. TorrentOK BY DEF LayoutInv
<1>2. /\ p \in Nat /\ p * pieceLength \in Nat /\ PieceSize(p) \in 1 .. pieceLength
      /\ pieceLength \in Nat /\ IntLimit \in Nat
  BY <1>1, PieceOK, LayoutAssumption DEF TorrentOK
<1>3. PICK x : x = p * pieceLength OBVIOUS
<1>4. x \in Nat /\ 0 \in 0 .. PieceSize(p) - 1 /\ x + 0 = x BY <1>2, <1>3
<1>5. \E f \in Files : \E j \in 1 .. Len(files[f]) :
        files[f][j] = x + 0 /\ len_culmulative[f - 1] + j - 1 = x + 0
  BY <1>3, <1>4 DEF Stored
<1>6. PICK f \in Files : \E j \in 1 .. Len(files[f]) :
        files[f][j] = x /\ len_culmulative[f - 1] + j - 1 = x
  BY <1>4, <1>5
<1>7. PICK j \in 1 .. Len(files[f]) : files[f][j] = x /\ len_culmulative[f - 1] + j - 1 = x
  BY <1>6
<1>8. f \in DOMAIN files BY DEF LayoutInv, DiskOK
<1>9. PICK q \in Attempted : FromPiece(f, j, q)
  <2>1. x # Hole BY <1>4 DEF Hole
  <2> QED BY <1>7, <1>8, <2>1 DEF LayoutInv, Positioned
<1>10. PICK i \in 0 .. PieceSize(q) - 1 :
         /\ x = q * pieceLength + i
         /\ x = FirstByte(q, HardBlocks) + i
  BY <1>7, <1>9 DEF FromPiece
<1>11. q \in Pieces BY DEF LayoutInv, DiskOK
<1>12. p * pieceLength + 0 = q * pieceLength + i BY <1>3, <1>4, <1>10
<1>13. p = q /\ 0 = i BY <1>1, <1>4, <1>11, <1>12, OnePiece
<1>14. FirstByte(p, HardBlocks) \in -IntLimit .. IntLimit - 1 BY <1>1, <1>2, BeginOK
<1> QED BY <1>2, <1>3, <1>4, <1>10, <1>13, <1>14

LEMMA LayoutPiecesStored == LayoutInv => PiecesStored
<1> SUFFICES ASSUME LayoutInv, op # "undefined" PROVE PiecesStored BY DEF PiecesStored
<1>1. TorrentOK BY DEF LayoutInv
<1>2. ASSUME AllPlaced, NEW p \in on_disk PROVE Stored(p)
  BY <1>2 DEF LayoutInv, PlacedOK, Held, Stored
<1>3. ASSUME on_disk = Pieces, Cardinality(Pieces) > 1
      PROVE  1 \in Pieces /\ 0 \in Pieces /\ op # "none"
  <2>1. PICK n : n = no_of_pieces OBVIOUS
  <2>2. n \in Int
    <3>1. PICK m, r : m = length + pieceLength - 1 /\ Divided(m, pieceLength, n, r)
      BY <2>1 DEF Divided, no_of_pieces
    <3>2. m \in Nat /\ pieceLength \in Nat \ {0} BY <1>1, <3>1, LengthOK DEF TorrentOK
    <3> QED BY <3>1, <3>2, Division
  <2>3. Pieces = 0 .. n - 1 BY <2>1 DEF Pieces
  <2>4. n > 1
    <3>1. SUFFICES ASSUME n <= 1 PROVE FALSE BY <2>2
    <3>2. 0 .. n - 1 \subseteq {0} BY <2>2, <3>1
    <3>3. IsFiniteSet({0}) /\ Cardinality({0}) = 1 BY FS_Singleton
    <3>4. Cardinality(Pieces) <= 1 /\ Cardinality(Pieces) \in Nat
      BY <2>3, <3>2, <3>3, FS_Subset, FS_CardinalityType
    <3> QED BY <1>3, <3>4
  <2>5. 0 \in Pieces BY <2>2, <2>3, <2>4
  <2>6. op # "none" BY <1>3, <2>5 DEF LayoutInv, CallOK
  <2> QED BY <2>2, <2>3, <2>4, <2>5, <2>6
<1>4. ASSUME on_disk = Pieces, Cardinality(Pieces) > 1, \A p \in Pieces : Stored(p)
      PROVE  \A p \in Pieces : Placed(p)
  <2>1. 1 \in Pieces /\ op # "none" BY <1>3, <1>4
  <2>2. FirstByte(1, HardBlocks) = 1 * pieceLength BY <1>4, <2>1, StoredBegins
  <2>3. pieceLength = HardBlocks * BlockSize
    <3>1. PICK h : h = HardBlocks * BlockSize OBVIOUS
    <3>2. PICK k \in Nat \ {0} : IntLimit = k * h BY <3>1, HardPiece
    <3>3. h \in Nat \ {0} /\ IntLimit \in Nat \ {0} /\ pieceLength \in Nat \ {0}
          /\ HardBlocks \in Nat
      BY <1>1, <3>1, HardPiece, LayoutAssumption DEF TorrentOK
    <3>4. 1 * HardBlocks * BlockSize = h /\ 1 * pieceLength = pieceLength
      <4>1. 1 * HardBlocks = HardBlocks /\ 1 * pieceLength = pieceLength BY <3>3
      <4> QED BY <3>1, <4>1
    <3>5. InInt(h) = pieceLength BY <2>2, <3>4 DEF FirstByte
    <3>6. h <= IntLimit
      <4>1. CASE k = 1 BY <3>2, <3>3, <4>1
      <4>2. CASE 1 < k
        <5>1. 1 * h + h <= k * h BY <3>3, <4>2, Apart
        <5>2. 1 * h = h BY <3>3
        <5> QED BY <3>2, <3>3, <5>1, <5>2
      <4> QED BY <4>1, <4>2
    <3>7. h < IntLimit => InInt(h) = h BY <3>3, IntOK
    <3>8. h = IntLimit => InInt(h) = -IntLimit BY <3>3, IntOK
    <3> QED BY <3>1, <3>3, <3>5, <3>6, <3>7, <3>8
  <2> QED BY <1>4, <2>1, <2>3, StoredBegins DEF Placed
<1>5. ASSUME on_disk = Pieces, Cardinality(Pieces) > 1, \A p \in Pieces : Placed(p)
      PROVE  \A p \in Pieces : Stored(p)
  <2>1. 0 \in Pieces /\ op # "none" BY <1>3, <1>5
  <2>2. call.piece \in Pieces
    <3>1. op = "write" => call.piece \in Pieces BY DEF LayoutInv, DiskOK, Attempted
    <3> QED BY <1>5, <2>1, <3>1 DEF LayoutInv, CallOK
  <2>3. AllPlaced BY <1>5, <2>2 DEF AllPlaced
  <2> QED BY <1>2, <1>5, <2>3
<1> QED BY <1>2, <1>4, <1>5 DEF PiecesStored

(* A piece that writePieceToFile has written is in the files; and all of a *)
(* torrent of several pieces is there exactly if its pieces have 16 blocks *)
(* and begin below 2^31.                                                   *)
THEOREM LayoutComplete == LayoutSpec => []PiecesStored
BY LayoutInvariant, LayoutPiecesStored, PTL
=============================================================================
