------------------------- MODULE TorrentFilesProofs -------------------------
(* Theorems about TorrentFiles, for every metainfo file: any tree of lists *)
(* and dicts, cut anywhere, and what parseMetaFile and the files make of   *)
(* it.                                                                     *)
EXTENDS TorrentFiles, LayoutProofs

-----------------------------------------------------------------------------
(* Trees and values, level by level.                                       *)

TreeLevels(t, n) ==
  t = [d \in 0 .. n |->
         IF d = 0 THEN Scalars ELSE Scalars \cup ListTrees(t[d - 1]) \cup DictTrees(t[d - 1])]

ValueLevels(t, n) ==
  t = [d \in 0 .. n |->
         IF d = 0 THEN Simple ELSE Simple \cup ListsOf(t[d - 1]) \cup DictsOf(t[d - 1])]

LEMMA TreeLevelsExist == ASSUME NEW m \in Nat PROVE \E t : TreeLevels(t, m)
<1> DEFINE Bad == { n \in Nat : ~ \E t : TreeLevels(t, n) }
<1>1. SUFFICES ASSUME Bad # {} PROVE FALSE OBVIOUS
<1>2. PICK n \in Bad : \A k \in Bad : n <= k BY <1>1, LeastNumber
<1>3. n \in Nat /\ ~ \E t : TreeLevels(t, n) OBVIOUS
<1>4. n # 0
  <2>1. TreeLevels([d \in 0 .. 0 |-> Scalars], 0) BY DEF TreeLevels
  <2> QED BY <1>3, <2>1
<1>5. n - 1 \in Nat /\ n - 1 \notin Bad BY <1>2, <1>3, <1>4
<1>6. PICK s : TreeLevels(s, n - 1) BY <1>5
<1> DEFINE Level(T) == Scalars \cup ListTrees(T) \cup DictTrees(T)
           t == [d \in 0 .. n |-> IF d = n THEN Level(s[n - 1]) ELSE s[d]]
<1>7. \A d \in 0 .. n - 1 : s[d] = IF d = 0 THEN Scalars ELSE Level(s[d - 1])
  BY <1>6 DEF TreeLevels
<1> HIDE DEF Level
<1>8. ASSUME NEW d \in 0 .. n PROVE t[d] = IF d = 0 THEN Scalars ELSE Level(t[d - 1])
  <2>1. CASE d = n BY <1>3, <1>4, <2>1
  <2>2. CASE d # n
    <3>1. d \in 0 .. n - 1 /\ t[d] = s[d] BY <1>3, <2>2
    <3>2. d # 0 => t[d - 1] = s[d - 1] BY <3>1
    <3> QED BY <1>7, <3>1, <3>2
  <2> QED BY <2>1, <2>2
<1>9. TreeLevels(t, n) BY <1>8 DEF TreeLevels, Level
<1> QED BY <1>3, <1>9

LEMMA ValueLevelsExist == ASSUME NEW m \in Nat PROVE \E t : ValueLevels(t, m)
<1> DEFINE Bad == { n \in Nat : ~ \E t : ValueLevels(t, n) }
<1>1. SUFFICES ASSUME Bad # {} PROVE FALSE OBVIOUS
<1>2. PICK n \in Bad : \A k \in Bad : n <= k BY <1>1, LeastNumber
<1>3. n \in Nat /\ ~ \E t : ValueLevels(t, n) OBVIOUS
<1>4. n # 0
  <2>1. ValueLevels([d \in 0 .. 0 |-> Simple], 0) BY DEF ValueLevels
  <2> QED BY <1>3, <2>1
<1>5. n - 1 \in Nat /\ n - 1 \notin Bad BY <1>2, <1>3, <1>4
<1>6. PICK s : ValueLevels(s, n - 1) BY <1>5
<1> DEFINE Level(T) == Simple \cup ListsOf(T) \cup DictsOf(T)
           t == [d \in 0 .. n |-> IF d = n THEN Level(s[n - 1]) ELSE s[d]]
<1>7. \A d \in 0 .. n - 1 : s[d] = IF d = 0 THEN Simple ELSE Level(s[d - 1])
  BY <1>6 DEF ValueLevels
<1> HIDE DEF Level
<1>8. ASSUME NEW d \in 0 .. n PROVE t[d] = IF d = 0 THEN Simple ELSE Level(t[d - 1])
  <2>1. CASE d = n BY <1>3, <1>4, <2>1
  <2>2. CASE d # n
    <3>1. d \in 0 .. n - 1 /\ t[d] = s[d] BY <1>3, <2>2
    <3>2. d # 0 => t[d - 1] = s[d - 1] BY <3>1
    <3> QED BY <1>7, <3>1, <3>2
  <2> QED BY <2>1, <2>2
<1>9. ValueLevels(t, n) BY <1>8 DEF ValueLevels, Level
<1> QED BY <1>3, <1>9

TreeLevel(T) == Scalars \cup ListTrees(T) \cup DictTrees(T)
ValueLevel(V) == Simple \cup ListsOf(V) \cup DictsOf(V)

LEMMA TreesToAre ==
  /\ Depth \in Nat
  /\ TreesTo[0] = Scalars
  /\ \A d \in 1 .. Depth : TreesTo[d] = TreeLevel(TreesTo[d - 1])
<1>1. Depth \in Nat BY MetaInfoAssumption
<1>2. PICK t : TreeLevels(t, Depth) BY <1>1, TreeLevelsExist
<1>3. TreesTo = CHOOSE s : TreeLevels(s, Depth) BY DEF TreesTo, TreeLevels
<1>4. TreeLevels(TreesTo, Depth) BY <1>2, <1>3
<1>5. \A d \in 0 .. Depth : TreesTo[d] = IF d = 0 THEN Scalars ELSE TreeLevel(TreesTo[d - 1])
  BY <1>4 DEF TreeLevels, TreeLevel
<1> QED BY <1>1, <1>5

LEMMA ValuesToAre ==
  /\ Depth \in Nat
  /\ ValuesTo[0] = Simple
  /\ \A d \in 1 .. Depth : ValuesTo[d] = ValueLevel(ValuesTo[d - 1])
<1>1. Depth \in Nat BY MetaInfoAssumption
<1>2. PICK t : ValueLevels(t, Depth) BY <1>1, ValueLevelsExist
<1>3. ValuesTo = CHOOSE s : ValueLevels(s, Depth) BY DEF ValuesTo, ValueLevels
<1>4. ValueLevels(ValuesTo, Depth) BY <1>2, <1>3
<1>5. \A d \in 0 .. Depth : ValuesTo[d] = IF d = 0 THEN Simple ELSE ValueLevel(ValuesTo[d - 1])
  BY <1>4 DEF ValueLevels, ValueLevel
<1> QED BY <1>1, <1>5

(* Lists and dicts of a larger set of trees. *)
LEMMA LevelGrows ==
  ASSUME NEW S, NEW T, S \subseteq T
  PROVE  /\ TreeLevel(S) \subseteq TreeLevel(T)
         /\ ValueLevel(S) \subseteq ValueLevel(T)
<1>1. Seq(S) \subseteq Seq(T) OBVIOUS
<1>2. ListTrees(S) \subseteq ListTrees(T) BY <1>1 DEF ListTrees
<1>3. Seq([key : Names, node : S]) \subseteq Seq([key : Names, node : T])
  <2>1. \A E, F : E \subseteq F => Seq(E) \subseteq Seq(F) OBVIOUS
  <2>2. [key : Names, node : S] \subseteq [key : Names, node : T] OBVIOUS
  <2> QED BY <2>1, <2>2, Zenon
<1>4. DictTrees(S) \subseteq DictTrees(T) BY <1>3 DEF DictTrees
<1>5. ListsOf(S) \subseteq ListsOf(T) BY <1>1 DEF ListsOf
<1>6. [Names -> S \cup {Absent}] \subseteq [Names -> T \cup {Absent}] OBVIOUS
<1>7. DictsOf(S) \subseteq DictsOf(T) BY <1>6 DEF DictsOf
<1> QED BY <1>2, <1>4, <1>5, <1>7 DEF TreeLevel, ValueLevel

LEMMA LevelsAscend ==
  \A d \in 1 .. Depth : /\ TreesTo[d - 1] \subseteq TreesTo[d]
                        /\ ValuesTo[d - 1] \subseteq ValuesTo[d]
<1> DEFINE Bad == { d \in 1 .. Depth : ~ /\ TreesTo[d - 1] \subseteq TreesTo[d]
                                         /\ ValuesTo[d - 1] \subseteq ValuesTo[d] }
<1>1. SUFFICES ASSUME Bad # {} PROVE FALSE OBVIOUS
<1>0. Depth \in Nat BY MetaInfoAssumption
<1>11. Bad \subseteq Nat BY <1>0
<1> HIDE DEF Bad
<1>2. PICK d \in Bad : \A k \in Bad : d <= k BY <1>1, <1>11, LeastNumber
<1> USE DEF Bad
<1>3. d \in 1 .. Depth BY <1>2
<1>4. /\ TreesTo[d] = TreeLevel(TreesTo[d - 1]) /\ ValuesTo[d] = ValueLevel(ValuesTo[d - 1])
  BY <1>3, TreesToAre, ValuesToAre
<1>5. d # 1
  <2>1. SUFFICES ASSUME d = 1 PROVE FALSE OBVIOUS
  <2>2. TreesTo[0] \subseteq TreesTo[d] /\ ValuesTo[0] \subseteq ValuesTo[d]
    BY <1>4, TreesToAre, ValuesToAre DEF TreeLevel, ValueLevel
  <2> QED BY <1>2, <2>1, <2>2
<1>6. d - 1 \in 1 .. Depth /\ d - 1 \notin Bad BY <1>0, <1>2, <1>3, <1>5
<1>7. PICK e : e = (d - 1) - 1 OBVIOUS
<1>8. /\ TreesTo[d - 1] = TreeLevel(TreesTo[e]) /\ ValuesTo[d - 1] = ValueLevel(ValuesTo[e])
      /\ TreesTo[e] \subseteq TreesTo[d - 1] /\ ValuesTo[e] \subseteq ValuesTo[d - 1]
  BY <1>6, <1>7, TreesToAre, ValuesToAre
<1>9. TreesTo[d - 1] \subseteq TreesTo[d] /\ ValuesTo[d - 1] \subseteq ValuesTo[d]
  <2>1. \A S, T : S \subseteq T => /\ TreeLevel(S) \subseteq TreeLevel(T)
                                  /\ ValueLevel(S) \subseteq ValueLevel(T)
    BY LevelGrows, Zenon
  <2>2. PICK S, T : S = TreesTo[e] /\ T = TreesTo[d - 1] OBVIOUS
  <2>3. PICK V, W : V = ValuesTo[e] /\ W = ValuesTo[d - 1] OBVIOUS
  <2>4. S \subseteq T /\ V \subseteq W BY <1>8, <2>2, <2>3
  <2>5. TreeLevel(S) \subseteq TreeLevel(T) /\ ValueLevel(V) \subseteq ValueLevel(W)
    BY <2>1, <2>4, Zenon
  <2> QED BY <1>4, <1>8, <2>2, <2>3, <2>5, Zenon
<1> QED BY <1>2, <1>9

LEMMA ElementOf ==
  ASSUME NEW S, NEW s \in Seq(S), NEW k \in DOMAIN s
  PROVE  s[k] \in S
OBVIOUS

(* Every level lies within the last. *)
LEMMA LevelsWithin ==
  \A d \in 0 .. Depth : TreesTo[d] \subseteq Trees /\ ValuesTo[d] \subseteq Values
<1>0. Depth \in Nat BY MetaInfoAssumption
<1> DEFINE Bad == { n \in Nat : /\ n <= Depth
                                /\ ~ /\ TreesTo[Depth - n] \subseteq Trees
                                     /\ ValuesTo[Depth - n] \subseteq Values }
<1>1. SUFFICES Bad = {}
  <2>1. ASSUME NEW d \in 0 .. Depth
        PROVE  TreesTo[d] \subseteq Trees /\ ValuesTo[d] \subseteq Values
    <3>1. Depth - d \in Nat /\ Depth - d <= Depth /\ Depth - (Depth - d) = d BY <1>0
    <3> QED BY <1>1, <3>1
  <2> QED BY <2>1
<1>2. SUFFICES ASSUME Bad # {} PROVE FALSE OBVIOUS
<1>3. Bad \subseteq Nat OBVIOUS
<1> HIDE DEF Bad
<1>4. PICK n \in Bad : \A k \in Bad : n <= k BY <1>2, <1>3, LeastNumber
<1> USE DEF Bad
<1>5. n \in Nat /\ n <= Depth OBVIOUS
<1>6. n # 0
  <2>1. SUFFICES ASSUME n = 0 PROVE FALSE OBVIOUS
  <2>2. TreesTo[Depth - n] = Trees /\ ValuesTo[Depth - n] = Values
    BY <1>0, <2>1 DEF Trees, Values
  <2> QED BY <2>2
<1>7. n - 1 \in Nat /\ n - 1 \notin Bad BY <1>4, <1>5, <1>6
<1>8. PICK d : d = Depth - (n - 1) OBVIOUS
<1>9. TreesTo[d] \subseteq Trees /\ ValuesTo[d] \subseteq Values BY <1>0, <1>5, <1>7, <1>8
<1>10. d \in 1 .. Depth /\ d - 1 = Depth - n BY <1>0, <1>5, <1>6, <1>8
<1>11. TreesTo[d - 1] \subseteq TreesTo[d] /\ ValuesTo[d - 1] \subseteq ValuesTo[d]
  BY <1>10, LevelsAscend
<1> QED BY <1>9, <1>10, <1>11

(* What lies in a tree or a value is one. *)
LEMMA TreesUnfold == Trees \subseteq TreeLevel(Trees) /\ Values \subseteq ValueLevel(Values)
<1>0. Depth \in Nat BY MetaInfoAssumption
<1>1. CASE Depth = 0
  <2>1. Trees = Scalars /\ Values = Simple BY <1>1, TreesToAre, ValuesToAre DEF Trees, Values
  <2> QED BY <2>1 DEF TreeLevel, ValueLevel
<1>2. CASE Depth # 0
  <2>1. Depth \in 1 .. Depth BY <1>0, <1>2
  <2>2. PICK S, V : S = TreesTo[Depth - 1] /\ V = ValuesTo[Depth - 1] OBVIOUS
  <2>3. S \subseteq Trees /\ V \subseteq Values BY <2>1, <2>2, LevelsWithin
  <2>4. Trees = TreeLevel(S) /\ Values = ValueLevel(V)
    BY <2>1, <2>2, TreesToAre, ValuesToAre DEF Trees, Values
  <2>5. \A A, B : A \subseteq B => /\ TreeLevel(A) \subseteq TreeLevel(B)
                                /\ ValueLevel(A) \subseteq ValueLevel(B)
    BY LevelGrows, Zenon
  <2>6. TreeLevel(S) \subseteq TreeLevel(Trees) /\ ValueLevel(V) \subseteq ValueLevel(Values)
    BY <2>3, <2>5, Zenon
  <2> QED BY <2>4, <2>6
<1> QED BY <1>1, <1>2

(* A set of trees in which every tree lies whose parts lie in it holds all *)
(* of them: how the inductions over trees are done.                        *)
LEMMA TreeInduction ==
  ASSUME NEW S, Trees \cap TreeLevel(S) \subseteq S
  PROVE  Trees \subseteq S
<1>0. Depth \in Nat BY MetaInfoAssumption
<1> DEFINE Bad == { d \in 0 .. Depth : ~ TreesTo[d] \subseteq S }
<1>1. SUFFICES ASSUME Bad # {} PROVE FALSE BY <1>0 DEF Trees
<1>2. Bad \subseteq Nat BY <1>0
<1> HIDE DEF Bad
<1>3. PICK d \in Bad : \A k \in Bad : d <= k BY <1>1, <1>2, LeastNumber
<1> USE DEF Bad
<1>4. d \in 0 .. Depth /\ ~ TreesTo[d] \subseteq S /\ TreesTo[d] \subseteq Trees
  BY <1>3, LevelsWithin
<1>5. TreesTo[d] \subseteq TreeLevel(S)
  <2>1. CASE d = 0 BY <2>1, TreesToAre DEF TreeLevel
  <2>2. CASE d # 0
    <3>1. d - 1 \in 0 .. Depth /\ d - 1 \notin Bad BY <1>0, <1>3, <1>4, <2>2
    <3>2. PICK T : T = TreesTo[d - 1] OBVIOUS
    <3>3. T \subseteq S /\ TreesTo[d] = TreeLevel(T)
      BY <1>0, <1>4, <2>2, <3>1, <3>2, TreesToAre
    <3>4. TreeLevel(T) \subseteq TreeLevel(S) BY <3>3, LevelGrows
    <3> QED BY <3>3, <3>4
  <2> QED BY <2>1, <2>2
<1> QED BY <1>4, <1>5

LEMMA ValueInduction ==
  ASSUME NEW S, Values \cap ValueLevel(S) \subseteq S
  PROVE  Values \subseteq S
<1>0. Depth \in Nat BY MetaInfoAssumption
<1> DEFINE Bad == { d \in 0 .. Depth : ~ ValuesTo[d] \subseteq S }
<1>1. SUFFICES ASSUME Bad # {} PROVE FALSE BY <1>0 DEF Values
<1>2. Bad \subseteq Nat BY <1>0
<1> HIDE DEF Bad
<1>3. PICK d \in Bad : \A k \in Bad : d <= k BY <1>1, <1>2, LeastNumber
<1> USE DEF Bad
<1>4. d \in 0 .. Depth /\ ~ ValuesTo[d] \subseteq S /\ ValuesTo[d] \subseteq Values
  BY <1>3, LevelsWithin
<1>5. ValuesTo[d] \subseteq ValueLevel(S)
  <2>1. CASE d = 0 BY <2>1, ValuesToAre DEF ValueLevel
  <2>2. CASE d # 0
    <3>1. d - 1 \in 0 .. Depth /\ d - 1 \notin Bad BY <1>0, <1>3, <1>4, <2>2
    <3>2. PICK T : T = ValuesTo[d - 1] OBVIOUS
    <3>3. T \subseteq S /\ ValuesTo[d] = ValueLevel(T)
      BY <1>0, <1>4, <2>2, <3>1, <3>2, ValuesToAre
    <3>4. ValueLevel(T) \subseteq ValueLevel(S) BY <3>3, LevelGrows
    <3> QED BY <3>3, <3>4
  <2> QED BY <2>1, <2>2
<1> QED BY <1>4, <1>5

-----------------------------------------------------------------------------
(* The recursive functions over trees and values are what their            *)
(* definitions say: each is the solution of its equation on every level.   *)

EmitBody(node, f) ==
  CASE node.type = "integer" -> <<IntToken(node.n, node.plain)>>
    [] node.type = "string"  -> <<StrToken(node.s, node.plain)>>
    [] node.type = "list"    -> Enclosed("l", Each(f, node.items))
    [] OTHER                 -> Enclosed("d", EachNamed(f, node.entries))

DistinctBody(node, f) ==
  CASE node.type = "list" -> \A k \in DOMAIN node.items : f[node.items[k]]
    [] node.type = "dict" ->
         /\ \A j, k \in DOMAIN node.entries : node.entries[j].key = node.entries[k].key => j = k
         /\ \A k \in DOMAIN node.entries : f[node.entries[k].node]
    [] OTHER -> TRUE

CanonicalBody(node, f) ==
  CASE node.type = "list" -> \A k \in DOMAIN node.items : f[node.items[k]]
    [] node.type = "dict" ->
         /\ \A k \in 2 .. Len(node.entries) : Before(node.entries[k - 1].key, node.entries[k].key)
         /\ \A k \in DOMAIN node.entries : f[node.entries[k].node]
    [] OTHER -> node.plain

MeaningBody(node, f) ==
  CASE node.type = "integer" -> Number(node.n)
    [] node.type = "string"  -> Str(node.s)
    [] node.type = "list"    -> List(Each(f, node.items))
    [] OTHER                 -> Dict(MapOf(f, node))

EncodeBody(v, f) ==
  CASE v.type = "integer" -> <<IntToken(v.n, TRUE)>>
    [] v.type = "string"  -> <<StrToken(v.s, TRUE)>>
    [] v.type = "list"    -> Enclosed("l", Each(f, v.items))
    [] OTHER              -> Enclosed("d", InOrder(f, v.map))

Body(which, node, f) ==
  CASE which = "Emit"      -> EmitBody(node, f)
    [] which = "Distinct"  -> DistinctBody(node, f)
    [] which = "Canonical" -> CanonicalBody(node, f)
    [] which = "Meaning"   -> MeaningBody(node, f)
    [] which = "Encode"    -> EncodeBody(node, f)

Which == {"Emit", "Distinct", "Canonical", "Meaning", "Encode"}

LevelOf(which, T) == IF which = "Encode" THEN ValueLevel(T) ELSE TreeLevel(T)

LEMMA ScalarOrMore ==
  ASSUME NEW T, NEW node \in TreeLevel(T)
  PROVE  \/ node.type = "integer" /\ node.n \in Nat /\ node.plain \in BOOLEAN
            /\ node = SInt(node.n, node.plain)
         \/ node.type = "string" /\ node.s \in STRING /\ node.plain \in BOOLEAN
            /\ node = SStr(node.s, node.plain)
         \/ node.type = "list" /\ node.items \in Seq(T) /\ node = SList(node.items)
         \/ node.type = "dict" /\ node.entries \in Seq([key : Names, node : T])
            /\ node = SDict(node.entries)
<1>1. CASE node \in [type : {"integer"}, n : Nat, plain : BOOLEAN] BY <1>1 DEF SInt
<1>2. CASE node \in [type : {"string"}, s : STRING, plain : BOOLEAN] BY <1>2 DEF SStr
<1>3. CASE node \in ListTrees(T) BY <1>3 DEF ListTrees, SList
<1>4. CASE node \in DictTrees(T) BY <1>4 DEF DictTrees, SDict
<1> QED BY <1>1, <1>2, <1>3, <1>4 DEF TreeLevel, Scalars

LEMMA SimpleOrMore ==
  ASSUME NEW V, NEW v \in ValueLevel(V)
  PROVE  \/ v.type = "integer" /\ v.n \in Nat /\ v = Number(v.n)
         \/ v.type = "string" /\ v.s \in STRING /\ v = Str(v.s)
         \/ v.type = "list" /\ v.items \in Seq(V) /\ v = List(v.items)
         \/ v.type = "dict" /\ v.map \in [Names -> V \cup {Absent}] /\ v = Dict(v.map)
<1>1. CASE v \in [type : {"integer"}, n : Nat] BY <1>1 DEF Number
<1>2. CASE v \in [type : {"string"}, s : STRING] BY <1>2 DEF Str
<1>3. CASE v \in ListsOf(V) BY <1>3 DEF ListsOf, List
<1>4. CASE v \in DictsOf(V) BY <1>4 DEF DictsOf, Dict
<1> QED BY <1>1, <1>2, <1>3, <1>4 DEF ValueLevel, Simple

(* The child of a key that is there is one of the entries with that key. *)
LEMMA ChildIs ==
  ASSUME NEW node, NEW key \in Keys(node)
  PROVE  \E k \in DOMAIN node.entries : /\ node.entries[k].key = key
                                        /\ Child(node, key) = node.entries[k].node
<1>1. \E k \in DOMAIN node.entries : node.entries[k].key = key BY DEF Keys
<1> QED BY <1>1 DEF Child

(* What a function gives for a node depends on what it gives for the parts.*)
LEMMA BodyDepends ==
  ASSUME NEW which \in Which, NEW T, NEW node \in LevelOf(which, T), NEW f, NEW g,
         \A kid \in T : f[kid] = g[kid]
  PROVE  Body(which, node, f) = Body(which, node, g)
<1>1. CASE which # "Encode"
  <2>1. node \in TreeLevel(T) BY <1>1 DEF LevelOf
  <2>2. CASE node.type = "list"
    <3>0. node.items \in Seq(T) BY <2>1, <2>2, ScalarOrMore
    <3>1. \A k \in DOMAIN node.items : f[node.items[k]] = g[node.items[k]] BY <3>0
    <3>2. Each(f, node.items) = Each(g, node.items) BY <3>1 DEF Each
    <3>3. (\A k \in DOMAIN node.items : f[node.items[k]])
          <=> (\A k \in DOMAIN node.items : g[node.items[k]])
      BY <3>1
    <3> QED BY <1>1, <2>2, <3>2, <3>3
         DEF Which, Body, EmitBody, DistinctBody, CanonicalBody, MeaningBody
  <2>3. CASE node.type = "dict"
    <3>0. node.entries \in Seq([key : Names, node : T]) BY <2>1, <2>3, ScalarOrMore
    <3>6. \A k \in DOMAIN node.entries : node.entries[k] \in [key : Names, node : T]
      BY <3>0, ElementOf
    <3>1. \A k \in DOMAIN node.entries : node.entries[k].node \in T BY <3>6
    <3>2. \A k \in DOMAIN node.entries : f[node.entries[k].node] = g[node.entries[k].node]
      BY <3>1
    <3>3. EachNamed(f, node.entries) = EachNamed(g, node.entries) BY <3>2 DEF EachNamed
    <3>4. MapOf(f, node) = MapOf(g, node)
      <4>1. \A key \in Keys(node) : f[Child(node, key)] = g[Child(node, key)]
        BY <3>2, ChildIs
      <4> QED BY <4>1 DEF MapOf
    <3>5. (\A k \in DOMAIN node.entries : f[node.entries[k].node])
          <=> (\A k \in DOMAIN node.entries : g[node.entries[k].node])
      BY <3>2
    <3> QED BY <1>1, <2>3, <3>3, <3>4, <3>5
         DEF Which, Body, EmitBody, DistinctBody, CanonicalBody, MeaningBody
  <2>4. CASE node.type = "integer"
    BY <1>1, <2>4 DEF Which, Body, EmitBody, DistinctBody, CanonicalBody, MeaningBody
  <2>5. CASE node.type = "string"
    BY <1>1, <2>5 DEF Which, Body, EmitBody, DistinctBody, CanonicalBody, MeaningBody
  <2> QED BY <2>1, <2>2, <2>3, <2>4, <2>5, ScalarOrMore
<1>2. CASE which = "Encode"
  <2>1. node \in ValueLevel(T) BY <1>2 DEF LevelOf
  <2>2. CASE node.type = "list"
    <3>1. \A k \in DOMAIN node.items : f[node.items[k]] = g[node.items[k]]
      BY <2>1, <2>2, SimpleOrMore
    <3>2. Each(f, node.items) = Each(g, node.items) BY <3>1 DEF Each
    <3> QED BY <1>2, <2>2, <3>2 DEF Body, EncodeBody
  <2>3. CASE node.type = "dict"
    <3>1. ASSUME NEW k \in DOMAIN KeyOrder, node.map[KeyOrder[k]] # Absent
          PROVE  f[node.map[KeyOrder[k]]] = g[node.map[KeyOrder[k]]]
      <4>1. KeyOrder[k] \in Names /\ node.map \in [Names -> T \cup {Absent}]
        BY <2>1, <2>3, SimpleOrMore DEF Names
      <4>2. node.map[KeyOrder[k]] \in T \cup {Absent} BY <4>1
      <4> QED BY <3>1, <4>2
    <3>2. InOrder(f, node.map) = InOrder(g, node.map) BY <3>1 DEF InOrder
    <3> QED BY <1>2, <2>3, <3>2 DEF Body, EncodeBody
  <2>4. CASE node.type = "integer" BY <1>2, <2>4 DEF Body, EncodeBody
  <2>5. CASE node.type = "string" BY <1>2, <2>5 DEF Body, EncodeBody
  <2> QED BY <2>1, <2>2, <2>3, <2>4, <2>5, SimpleOrMore
<1> QED BY <1>1, <1>2

LevelNumber(which, d) == IF which = "Encode" THEN ValuesTo[d] ELSE TreesTo[d]

Solves(f, which, S) == f = [node \in S |-> Body(which, node, f)]

LEMMA FunctionsExist ==
  ASSUME NEW which \in Which
  PROVE  \E f : Solves(f, which, LevelNumber(which, Depth))
<1>0. Depth \in Nat BY MetaInfoAssumption
<1> DEFINE Bad == { d \in 0 .. Depth : ~ \E f : Solves(f, which, LevelNumber(which, d)) }
<1>1. SUFFICES ASSUME Bad # {} PROVE FALSE BY <1>0
<1>2. Bad \subseteq Nat BY <1>0
<1> HIDE DEF Bad
<1>3. PICK d \in Bad : \A k \in Bad : d <= k BY <1>1, <1>2, LeastNumber
<1> USE DEF Bad
<1>4. d \in 0 .. Depth /\ ~ \E f : Solves(f, which, LevelNumber(which, d)) BY <1>3
<1>5. PICK T, f : /\ LevelNumber(which, d) \subseteq LevelOf(which, T)
                  /\ \A node \in T : /\ f[node] = Body(which, node, f)
                                     /\ node \in LevelNumber(which, d)
  <2>1. CASE d = 0
    <3>1. LevelNumber(which, d) \subseteq LevelOf(which, {})
      BY <2>1, TreesToAre, ValuesToAre DEF LevelNumber, LevelOf, TreeLevel, ValueLevel
    <3>2. PICK T : T = {} OBVIOUS
    <3>3. \A f : \A node \in T : /\ f[node] = Body(which, node, f)
                              /\ node \in LevelNumber(which, d)
      BY <3>2
    <3> QED BY <3>1, <3>2, <3>3, Zenon
  <2>2. CASE d # 0
    <3>1. d \in 1 .. Depth /\ d - 1 \in 0 .. Depth /\ d - 1 \notin Bad
      BY <1>0, <1>3, <1>4, <2>2
    <3>2. PICK T : T = LevelNumber(which, d - 1) OBVIOUS
    <3>3. PICK f : Solves(f, which, T) BY <3>1, <3>2
    <3>4. LevelNumber(which, d) = LevelOf(which, T) /\ T \subseteq LevelNumber(which, d)
      BY <3>1, <3>2, TreesToAre, ValuesToAre, LevelsAscend DEF LevelNumber, LevelOf
    <3>5. \A node \in T : f[node] = Body(which, node, f) BY <3>3 DEF Solves
    <3> QED BY <3>4, <3>5, Zenon
  <2> QED BY <2>1, <2>2
<1> DEFINE g == [node \in LevelNumber(which, d) |-> Body(which, node, f)]
<1>6. \A node \in T : f[node] = g[node] BY <1>5
<1>7. ASSUME NEW node \in LevelNumber(which, d)
      PROVE  Body(which, node, f) = Body(which, node, g)
  <2>1. node \in LevelOf(which, T) BY <1>5
  <2> QED BY <1>6, <2>1, BodyDepends
<1>8. g = [node \in LevelNumber(which, d) |-> Body(which, node, g)] BY <1>7, Zenon
<1>9. Solves(g, which, LevelNumber(which, d)) BY <1>8 DEF Solves
<1> QED BY <1>4, <1>9

LEMMA FunctionsAre ==
  /\ \A node \in Trees : /\ Emit[node] = EmitBody(node, Emit)
                         /\ Distinct[node] = DistinctBody(node, Distinct)
                         /\ Canonical[node] = CanonicalBody(node, Canonical)
                         /\ Meaning[node] = MeaningBody(node, Meaning)
  /\ \A v \in Values : Encode[v] = EncodeBody(v, Encode)
<1>1. Solves(Emit, "Emit", Trees)
  <2>1. Emit = CHOOSE f : f = [node \in Trees |-> EmitBody(node, f)] BY DEF Emit, EmitBody
  <2>2. \A f : Solves(f, "Emit", Trees) <=> f = [node \in Trees |-> EmitBody(node, f)]
    BY DEF Solves, Body
  <2>3. \E f : Solves(f, "Emit", Trees)
    BY FunctionsExist DEF Which, LevelNumber, Trees
  <2> QED BY <2>1, <2>2, <2>3, Zenon
<1>2. Solves(Distinct, "Distinct", Trees)
  <2>1. Distinct = CHOOSE f : f = [node \in Trees |-> DistinctBody(node, f)]
    BY DEF Distinct, DistinctBody
  <2>2. \A f : Solves(f, "Distinct", Trees) <=> f = [node \in Trees |-> DistinctBody(node, f)]
    BY DEF Solves, Body
  <2>3. \E f : Solves(f, "Distinct", Trees)
    BY FunctionsExist DEF Which, LevelNumber, Trees
  <2> QED BY <2>1, <2>2, <2>3, Zenon
<1>3. Solves(Canonical, "Canonical", Trees)
  <2>1. Canonical = CHOOSE f : f = [node \in Trees |-> CanonicalBody(node, f)]
    BY DEF Canonical, CanonicalBody
  <2>2. \A f : Solves(f, "Canonical", Trees) <=> f = [node \in Trees |-> CanonicalBody(node, f)]
    BY DEF Solves, Body
  <2>3. \E f : Solves(f, "Canonical", Trees)
    BY FunctionsExist DEF Which, LevelNumber, Trees
  <2> QED BY <2>1, <2>2, <2>3, Zenon
<1>4. Solves(Meaning, "Meaning", Trees)
  <2>1. Meaning = CHOOSE f : f = [node \in Trees |-> MeaningBody(node, f)]
    BY DEF Meaning, MeaningBody
  <2>2. \A f : Solves(f, "Meaning", Trees) <=> f = [node \in Trees |-> MeaningBody(node, f)]
    BY DEF Solves, Body
  <2>3. \E f : Solves(f, "Meaning", Trees)
    BY FunctionsExist DEF Which, LevelNumber, Trees
  <2> QED BY <2>1, <2>2, <2>3, Zenon
<1>5. Solves(Encode, "Encode", Values)
  <2>1. Encode = CHOOSE f : f = [v \in Values |-> EncodeBody(v, f)] BY DEF Encode, EncodeBody
  <2>2. \A f : Solves(f, "Encode", Values) <=> f = [v \in Values |-> EncodeBody(v, f)]
    BY DEF Solves, Body
  <2>3. \E f : Solves(f, "Encode", Values)
    BY FunctionsExist DEF Which, LevelNumber, Values
  <2> QED BY <2>1, <2>2, <2>3, Zenon
<1> QED BY <1>1, <1>2, <1>3, <1>4, <1>5 DEF Solves, Body

-----------------------------------------------------------------------------
(* Sequences laid end to end.                                              *)

LEMMA SumsOK ==
  ASSUME NEW l, l \in Seq(Nat), NEW s, Sums(l, s, Len(l))
  PROVE  /\ s[0] = 0
         /\ \A k \in 0 .. Len(l) : s[k] \in Nat
         /\ \A k \in 1 .. Len(l) : l[k] \in Nat /\ s[k] = s[k - 1] + l[k]
<1>1. Len(l) \in Nat /\ \A k \in 1 .. Len(l) : l[k] \in Nat OBVIOUS
<1>2. \A k \in 0 .. Len(l) : s[k] = IF k = 0 THEN 0 ELSE s[k - 1] + l[k] BY DEF Sums
<1>3. s[0] = 0 BY <1>1, <1>2
<1>4. \A k \in 1 .. Len(l) : s[k] = s[k - 1] + l[k] BY <1>1, <1>2
<1> DEFINE Bad == { k \in 0 .. Len(l) : s[k] \notin Nat }
<1>5. Bad = {}
  <2>1. SUFFICES ASSUME Bad # {} PROVE FALSE OBVIOUS
  <2>2. Bad \subseteq Nat BY <1>1
  <2>3. PICK k \in Bad : \A j \in Bad : k <= j BY <2>1, <2>2, LeastNumber
  <2>4. k \in 1 .. Len(l) BY <1>1, <1>3
  <2>5. k - 1 \in 0 .. Len(l) /\ k - 1 \notin Bad BY <1>1, <2>3, <2>4
  <2> QED BY <1>1, <1>4, <2>4, <2>5
<1> QED BY <1>1, <1>3, <1>4, <1>5

LEMMA SumsAscend ==
  ASSUME NEW l, l \in Seq(Nat), NEW s, Sums(l, s, Len(l)),
         NEW j \in 0 .. Len(l), NEW k \in j .. Len(l)
  PROVE  s[j] <= s[k]
<1> DEFINE Bad == { i \in j .. Len(l) : s[i] < s[j] }
<1>1. Len(l) \in Nat OBVIOUS
<1>2. \A i \in 0 .. Len(l) : s[i] \in Nat BY SumsOK
<1>3. Bad = {}
  <2>1. SUFFICES ASSUME Bad # {} PROVE FALSE OBVIOUS
  <2>2. Bad \subseteq Nat BY <1>1
  <2>3. PICK i \in Bad : \A h \in Bad : i <= h BY <2>1, <2>2, LeastNumber
  <2>4. i # j BY <1>2
  <2>5. i - 1 \in j .. Len(l) /\ i \in 1 .. Len(l) BY <1>1, <2>4
  <2>6. i - 1 \notin Bad BY <1>1, <2>3, <2>5
  <2>7. s[i] = s[i - 1] + l[i] /\ l[i] \in Nat BY <2>5, SumsOK
  <2>8. s[i - 1] \in Nat /\ s[j] \in Nat BY <1>1, <1>2, <2>5
  <2> QED BY <2>5, <2>6, <2>7, <2>8
<1>4. k \notin Bad BY <1>3
<1> QED BY <1>1, <1>2, <1>4

(* Where each part ends. *)
Lengths(parts) == [k \in 1 .. Len(parts) |-> Len(parts[k])]
Ends(parts) == CHOOSE s : Sums(Lengths(parts), s, Len(parts))

LEMMA EndsAre ==
  ASSUME NEW S, NEW parts \in Seq(Seq(S))
  PROVE  /\ Ends(parts)[0] = 0
         /\ \A k \in 0 .. Len(parts) : Ends(parts)[k] \in Nat
         /\ \A k \in 1 .. Len(parts) : Ends(parts)[k] = Ends(parts)[k - 1] + Len(parts[k])
         /\ \A j, k \in 0 .. Len(parts) : j <= k => Ends(parts)[j] <= Ends(parts)[k]
<1> DEFINE l == Lengths(parts)
           s == Ends(parts)
<1>1. Len(parts) \in Nat /\ \A k \in 1 .. Len(parts) : parts[k] \in Seq(S)
  BY ElementOf
<1>2. \A k \in 1 .. Len(parts) : Len(parts[k]) \in Nat BY <1>1
<1>3. l \in Seq(Nat) /\ Len(l) = Len(parts) /\ \A k \in 1 .. Len(parts) : l[k] = Len(parts[k])
  BY <1>1, <1>2 DEF Lengths
<1> HIDE DEF l
<1>4. \E t : Sums(l, t, Len(parts)) BY <1>1, <1>3, SumsExist
<1>5. Sums(l, s, Len(parts)) BY <1>4 DEF Ends, l
<1> HIDE DEF s
<1>6. \A k \in 0 .. Len(parts) : s[k] \in Nat BY <1>3, <1>5, SumsOK
<1>7. s[0] = 0 /\ \A k \in 1 .. Len(parts) : s[k] = s[k - 1] + Len(parts[k])
  BY <1>3, <1>5, SumsOK
<1>8. ASSUME NEW j \in 0 .. Len(parts), NEW k \in 0 .. Len(parts), j <= k
      PROVE  s[j] <= s[k]
  <2>1. k \in j .. Len(l) /\ j \in 0 .. Len(l) BY <1>1, <1>3, <1>8
  <2> QED BY <1>3, <1>5, <2>1, SumsAscend
<1> QED BY <1>6, <1>7, <1>8 DEF s

FlatTo(f, parts, n) ==
  f = [i \in 1 .. n |-> IF i = 1 THEN parts[i] ELSE f[i - 1] \o parts[i]]

LEMMA FlatExists ==
  ASSUME NEW parts, NEW m \in Nat
  PROVE  \E f : FlatTo(f, parts, m)
<1> DEFINE Bad == { n \in Nat : ~ \E f : FlatTo(f, parts, n) }
<1>1. SUFFICES ASSUME Bad # {} PROVE FALSE OBVIOUS
<1>2. PICK n \in Bad : \A k \in Bad : n <= k BY <1>1, LeastNumber
<1>3. n \in Nat /\ ~ \E f : FlatTo(f, parts, n) OBVIOUS
<1>4. n # 0
  <2>1. FlatTo([i \in 1 .. 0 |-> 0], parts, 0) BY DEF FlatTo
  <2> QED BY <1>3, <2>1
<1>5. n - 1 \in Nat /\ n - 1 \notin Bad BY <1>2, <1>3, <1>4
<1>6. PICK f : FlatTo(f, parts, n - 1) BY <1>5
<1> DEFINE g == [i \in 1 .. n |-> IF i < n THEN f[i]
                                  ELSE IF i = 1 THEN parts[i] ELSE f[i - 1] \o parts[i]]
<1>7. ASSUME NEW i \in 1 .. n
      PROVE  g[i] = IF i = 1 THEN parts[i] ELSE g[i - 1] \o parts[i]
  <2>1. i # 1 => i - 1 \in 1 .. n /\ g[i - 1] = f[i - 1] BY <1>3
  <2>2. CASE i < n
    <3>1. i \in 1 .. n - 1 BY <1>3, <2>2
    <3>2. f[i] = IF i = 1 THEN parts[i] ELSE f[i - 1] \o parts[i] BY <1>6, <3>1 DEF FlatTo
    <3>3. g[i] = f[i] BY <2>2
    <3> QED BY <2>1, <3>2, <3>3
  <2>3. CASE i = n BY <1>3, <2>1, <2>3
  <2> QED BY <1>3, <2>2, <2>3
<1>8. FlatTo(g, parts, n) BY <1>7 DEF FlatTo
<1> QED BY <1>3, <1>8

LEMMA Joined ==
  ASSUME NEW S, NEW a \in Seq(S), NEW b \in Seq(S), NEW c, c = a \o b
  PROVE  /\ c \in Seq(S)
         /\ Len(c) = Len(a) + Len(b)
         /\ \A i \in 1 .. Len(a) : c[i] = a[i]
         /\ \A j \in 1 .. Len(b) : c[Len(a) + j] = b[j]
OBVIOUS

(* All of the first n parts is in what they were joined to. *)
Holding(text, parts, n) ==
  /\ Len(text) = Ends(parts)[n]
  /\ \A k \in 1 .. n : \A j \in 1 .. Len(parts[k]) : text[Ends(parts)[k - 1] + j] = parts[k][j]

LEMMA Flattened ==
  ASSUME NEW S, NEW parts \in Seq(Seq(S))
  PROVE  FlattenSeq(parts) \in Seq(S) /\ Holding(FlattenSeq(parts), parts, Len(parts))
<1> DEFINE n == Len(parts)
           end == Ends(parts)
<1>1. n \in Nat /\ \A k \in 1 .. n : parts[k] \in Seq(S) BY ElementOf
<1>2. /\ end[0] = 0
      /\ \A k \in 0 .. n : end[k] \in Nat
      /\ \A k \in 1 .. n : end[k] = end[k - 1] + Len(parts[k])
      /\ \A j, k \in 0 .. n : j <= k => end[j] <= end[k]
  BY EndsAre
<1>3. CASE n = 0
  <2>1. parts = <<>> /\ FlattenSeq(parts) = parts BY <1>3 DEF FlattenSeq
  <2>3. <<>> \in Seq(S) /\ Len(<<>>) = 0 OBVIOUS
  <2>2. FlattenSeq(parts) \in Seq(S) /\ Len(FlattenSeq(parts)) = 0 BY <1>3, <2>1, <2>3, Zenon
  <2> QED BY <1>2, <1>3, <2>2 DEF Holding
<1>4. CASE n # 0
  <2>1. PICK f : FlatTo(f, parts, n) BY <1>1, FlatExists
  <2>2. PICK flat : FlatTo(flat, parts, n) /\ FlattenSeq(parts) = flat[n]
    <3>1. FlattenSeq(parts) = (CHOOSE g : FlatTo(g, parts, n))[n]
      BY <1>4 DEF FlattenSeq, FlatTo
    <3>2. PICK g : g = CHOOSE h : FlatTo(h, parts, n) OBVIOUS
    <3>3. FlatTo(g, parts, n) BY <2>1, <3>2
    <3> QED BY <3>1, <3>2, <3>3
  <2>3. \A i \in 1 .. n : flat[i] = IF i = 1 THEN parts[i] ELSE flat[i - 1] \o parts[i]
    BY <2>2 DEF FlatTo
  <2> DEFINE Bad == { i \in 1 .. n : ~ (flat[i] \in Seq(S) /\ Holding(flat[i], parts, i)) }
  <2>4. SUFFICES ASSUME Bad # {} PROVE FALSE BY <1>1, <1>4, <2>2
  <2>5. Bad \subseteq Nat BY <1>1
  <2> HIDE DEF Bad
  <2>6. PICK i \in Bad : \A k \in Bad : i <= k BY <2>4, <2>5, LeastNumber
  <2> USE DEF Bad
  <2>7. i \in 1 .. n BY <2>6
  <2>8. CASE i = 1
    <3>1. flat[i] = parts[i] /\ flat[i] \in Seq(S) BY <1>1, <2>3, <2>7, <2>8
    <3>2. Len(parts[i]) \in Nat /\ end[i] = Len(parts[i]) BY <1>1, <1>2, <2>7, <2>8
    <3>3. \A k \in 1 .. i : \A j \in 1 .. Len(parts[k]) : end[k - 1] + j = j /\ k = i
      BY <1>2, <2>8
    <3>4. Holding(flat[i], parts, i) BY <3>1, <3>2, <3>3 DEF Holding
    <3> QED BY <2>6, <3>1, <3>4
  <2>9. CASE i # 1
    <3>1. i - 1 \in 1 .. n /\ i - 1 \notin Bad BY <1>1, <2>6, <2>7, <2>9
    <3>2. PICK a, b : a = flat[i - 1] /\ b = parts[i] OBVIOUS
    <3>3. a \in Seq(S) /\ b \in Seq(S) /\ Holding(a, parts, i - 1) /\ flat[i] = a \o b
      BY <1>1, <2>3, <2>7, <2>9, <3>1, <3>2
    <3>4. /\ a \o b \in Seq(S)
          /\ Len(a \o b) = Len(a) + Len(b)
          /\ \A h \in 1 .. Len(a) : (a \o b)[h] = a[h]
          /\ \A j \in 1 .. Len(b) : (a \o b)[Len(a) + j] = b[j]
      BY <3>3, Joined
    <3>5. Len(a) = end[i - 1] /\ Len(flat[i]) = end[i]
      BY <1>2, <2>7, <3>2, <3>3, <3>4 DEF Holding
    <3>6. ASSUME NEW k \in 1 .. i, NEW j \in 1 .. Len(parts[k])
          PROVE  flat[i][end[k - 1] + j] = parts[k][j]
      <4>1. CASE k = i BY <3>2, <3>3, <3>4, <3>5, <4>1
      <4>2. CASE k # i
        <5>1. k \in 1 .. i - 1 /\ k \in 1 .. n BY <2>7, <4>2
        <5>2. end[k - 1] + Len(parts[k]) = end[k] /\ end[k] <= end[i - 1]
              /\ end[k - 1] \in Nat /\ end[i - 1] \in Nat
          BY <1>1, <1>2, <2>7, <3>1, <5>1
        <5>3. Len(parts[k]) \in Nat BY <1>1, <5>1
        <5>4. end[k - 1] + j \in 1 .. Len(a)
          <6>1. PICK x, l, y, z : x = end[k - 1] /\ l = Len(parts[k]) /\ y = end[k] /\ z = Len(a)
            OBVIOUS
          <6>2. x \in Nat /\ l \in Nat /\ j \in 1 .. l /\ x + l = y /\ y <= z /\ z \in Nat
            BY <3>5, <5>2, <5>3, <6>1
          <6>3. x + j \in 1 .. z BY <6>2
          <6> QED BY <6>1, <6>3
        <5>5. a[end[k - 1] + j] = parts[k][j] BY <3>3, <5>1 DEF Holding
        <5> QED BY <3>3, <3>4, <5>4, <5>5
      <4> QED BY <4>1, <4>2
    <3>7. Holding(flat[i], parts, i) BY <3>5, <3>6 DEF Holding
    <3> QED BY <2>6, <3>3, <3>4, <3>7
  <2> QED BY <2>8, <2>9
<1> QED BY <1>3, <1>4

-----------------------------------------------------------------------------
(* What a tree looks like in the file.                                     *)

Tokens == [t : {"i", "s", "l", "d", "e"}, n : Nat,
           s : STRING \cup {""}, plain : BOOLEAN]

LEMMA TokensOK ==
  /\ \A t \in {"l", "d", "e"} : Mark(t) \in Tokens /\ Mark(t).t = t
  /\ \A n \in Nat, plain \in BOOLEAN : IntToken(n, plain) \in Tokens
  /\ \A s \in STRING, plain \in BOOLEAN : StrToken(s, plain) \in Tokens
<1>1. \A t \in {"l", "d", "e"} : Mark(t) \in Tokens /\ Mark(t).t = t BY DEF Tokens, Mark
<1>2. \A n \in Nat, plain \in BOOLEAN : IntToken(n, plain) \in Tokens BY DEF Tokens, IntToken
<1>3. \A s \in STRING, plain \in BOOLEAN : StrToken(s, plain) \in Tokens
  BY DEF Tokens, StrToken
<1> QED BY <1>1, <1>2, <1>3

LEMMA One ==
  ASSUME NEW S, NEW x \in S
  PROVE  <<x>> \in Seq(S) /\ Len(<<x>>) = 1 /\ <<x>>[1] = x
OBVIOUS

LEMMA EnclosedOK ==
  ASSUME NEW t \in {"l", "d"}, NEW parts \in Seq(Seq(Tokens))
  PROVE  /\ Enclosed(t, parts) \in Seq(Tokens)
         /\ Len(Enclosed(t, parts)) = Ends(parts)[Len(parts)] + 2
         /\ Enclosed(t, parts)[1] = Mark(t)
         /\ Enclosed(t, parts)[Ends(parts)[Len(parts)] + 2] = Mark("e")
         /\ \A k \in 1 .. Len(parts) : \A j \in 1 .. Len(parts[k]) :
              Enclosed(t, parts)[1 + Ends(parts)[k - 1] + j] = parts[k][j]
<1> DEFINE end == Ends(parts)
           n == Len(parts)
<1>0. PICK a, f, b : a = <<Mark(t)>> /\ f = FlattenSeq(parts) /\ b = <<Mark("e")>> OBVIOUS
<1>1. /\ a \in Seq(Tokens) /\ Len(a) = 1 /\ a[1] = Mark(t)
      /\ b \in Seq(Tokens) /\ Len(b) = 1 /\ b[1] = Mark("e")
  <2>1. Mark(t) \in Tokens /\ Mark("e") \in Tokens BY TokensOK
  <2>2. PICK x, y : x = Mark(t) /\ y = Mark("e") OBVIOUS
  <2> QED BY <1>0, <2>1, <2>2, One
<1>2. f \in Seq(Tokens) /\ Holding(f, parts, n) BY <1>0, Flattened
<1>13. a \in Seq(Tokens) /\ f \in Seq(Tokens) /\ b \in Seq(Tokens) BY <1>1, <1>2
<1>3. Len(f) = end[n] BY <1>2 DEF Holding
<1>4. /\ end[0] = 0 /\ n \in Nat
      /\ \A k \in 0 .. n : end[k] \in Nat
      /\ \A k \in 1 .. n : end[k] = end[k - 1] + Len(parts[k]) /\ Len(parts[k]) \in Nat
      /\ \A k \in 1 .. n : end[k] <= end[n]
  <2>1. n \in Nat /\ \A k \in 1 .. n : parts[k] \in Seq(Tokens) BY ElementOf
  <2>2. \A k \in 1 .. n : Len(parts[k]) \in Nat BY <2>1
  <2> QED BY <2>1, <2>2, EndsAre
<1> HIDE DEF end, n
<1>5. PICK c : c = a \o f OBVIOUS
<1>6. /\ c \in Seq(Tokens) /\ Len(c) = 1 + end[n]
      /\ \A i \in 1 .. 1 : c[i] = a[i]
      /\ \A j \in 1 .. Len(f) : c[1 + j] = f[j]
  <2>1. /\ c \in Seq(Tokens) /\ Len(c) = Len(a) + Len(f)
        /\ \A i \in 1 .. Len(a) : c[i] = a[i]
        /\ \A j \in 1 .. Len(f) : c[Len(a) + j] = f[j]
    BY <1>5, <1>13, Joined
  <2> QED BY <1>1, <1>3, <2>1, Zenon
<1>7. end[n] \in Nat BY <1>4
<1>8. PICK d : d = c \o b OBVIOUS
<1>9. /\ d \in Seq(Tokens) /\ Len(d) = Len(c) + 1
      /\ \A i \in 1 .. Len(c) : d[i] = c[i]
      /\ \A j \in 1 .. 1 : d[Len(c) + j] = b[j]
  <2>1. /\ d \in Seq(Tokens) /\ Len(d) = Len(c) + Len(b)
        /\ \A i \in 1 .. Len(c) : d[i] = c[i]
        /\ \A j \in 1 .. Len(b) : d[Len(c) + j] = b[j]
    <3>1. c \in Seq(Tokens) BY <1>6
    <3> QED BY <1>8, <1>13, <3>1, Joined
  <2> QED BY <1>1, <2>1, Zenon
<1>10. Enclosed(t, parts) = d BY <1>0, <1>5, <1>8 DEF Enclosed
<1>11. d \in Seq(Tokens) /\ Len(d) = end[n] + 2 /\ d[1] = Mark(t) /\ d[end[n] + 2] = Mark("e")
  <2>1. Len(c) = 1 + end[n] /\ Len(c) \in Nat BY <1>6, <1>7
  <2>2. Len(d) = end[n] + 2 /\ Len(c) + 1 = end[n] + 2 BY <1>7, <1>9, <2>1
  <2>3. d[1] = c[1] /\ c[1] = a[1] BY <1>6, <1>7, <1>9, <2>1
  <2>4. d[Len(c) + 1] = b[1] BY <1>9
  <2> QED BY <1>1, <1>9, <2>2, <2>3, <2>4, Zenon
<1>12. ASSUME NEW k \in 1 .. n, NEW j \in 1 .. Len(parts[k])
       PROVE  d[1 + end[k - 1] + j] = parts[k][j]
  <2>1. f[end[k - 1] + j] = parts[k][j] BY <1>2 DEF Holding, end
  <2>2. end[k - 1] \in Nat /\ end[k - 1] + j \in 1 .. Len(f) BY <1>3, <1>4
  <2>3. PICK i : i = end[k - 1] + j OBVIOUS
  <2>7. i \in 1 .. Len(f) /\ i \in 1 .. end[n] BY <1>3, <2>2, <2>3
  <2>4. c[1 + i] = f[i] /\ 1 + i \in 1 .. Len(c)
    <3>1. c[1 + i] = f[i] BY <1>6, <2>7, Zenon
    <3>2. Len(c) = 1 + end[n] BY <1>6
    <3> QED BY <1>7, <2>7, <3>1, <3>2
  <2>5. d[1 + i] = f[i] BY <1>9, <2>4
  <2>6. 1 + end[k - 1] + j = 1 + i BY <2>2, <2>3
  <2> QED BY <2>1, <2>3, <2>5, <2>6
<1> QED BY <1>10, <1>11, <1>12 DEF end, n

LEMMA NamedOK ==
  ASSUME NEW key \in STRING, NEW text \in Seq(Tokens)
  PROVE  /\ Named(key, text) \in Seq(Tokens)
         /\ Len(Named(key, text)) = 1 + Len(text)
         /\ Named(key, text)[1] = StrToken(key, TRUE)
         /\ \A j \in 1 .. Len(text) : Named(key, text)[1 + j] = text[j]
<1>1. PICK x : x = StrToken(key, TRUE) OBVIOUS
<1>2. x \in Tokens BY <1>1, TokensOK
<1>3. PICK a : a = <<x>> OBVIOUS
<1>4. a \in Seq(Tokens) /\ Len(a) = 1 /\ a[1] = x BY <1>2, <1>3, One
<1>5. PICK c : c = a \o text OBVIOUS
<1>6. /\ c \in Seq(Tokens) /\ Len(c) = Len(a) + Len(text)
      /\ \A i \in 1 .. Len(a) : c[i] = a[i]
      /\ \A j \in 1 .. Len(text) : c[Len(a) + j] = text[j]
  <2>1. a \in Seq(Tokens) BY <1>4
  <2> QED BY <1>5, <2>1, Joined
<1>7. c[1] = x BY <1>4, <1>6
<1>8. Named(key, text) = c BY <1>1, <1>3, <1>5 DEF Named
<1> QED BY <1>1, <1>4, <1>6, <1>7, <1>8, Zenon

LEMMA NamesOK == Names \subseteq STRING
<1>1. \A k \in DOMAIN KeyOrder : KeyOrder[k] \in STRING BY MetaInfoAssumption, ElementOf
<1> QED BY <1>1 DEF Names

LEMMA EmitTyped == \A node \in Trees : Emit[node] \in Seq(Tokens)
<1> DEFINE S == { node \in Trees : Emit[node] \in Seq(Tokens) }
<1>1. ASSUME NEW node \in Trees, node \in TreeLevel(S) PROVE node \in S
  <2>0. Emit[node] = EmitBody(node, Emit) BY FunctionsAre
  <2>1. CASE node.type = "integer"
    <3>1. node.n \in Nat /\ node.plain \in BOOLEAN BY <1>1, <2>1, ScalarOrMore
    <3>2. IntToken(node.n, node.plain) \in Tokens BY <3>1, TokensOK
    <3>3. Emit[node] = <<IntToken(node.n, node.plain)>> BY <2>0, <2>1 DEF EmitBody
    <3> QED BY <3>2, <3>3, One
  <2>2. CASE node.type = "string"
    <3>1. node.s \in STRING /\ node.plain \in BOOLEAN BY <1>1, <2>2, ScalarOrMore
    <3>2. StrToken(node.s, node.plain) \in Tokens BY <3>1, TokensOK
    <3>3. Emit[node] = <<StrToken(node.s, node.plain)>> BY <2>0, <2>2 DEF EmitBody
    <3> QED BY <3>2, <3>3, One
  <2>3. CASE node.type = "list"
    <3>1. node.items \in Seq(S) BY <1>1, <2>3, ScalarOrMore
    <3>2. \A k \in DOMAIN node.items : Emit[node.items[k]] \in Seq(Tokens)
      BY <3>1, ElementOf
    <3>3. Each(Emit, node.items) \in Seq(Seq(Tokens)) BY <3>1, <3>2 DEF Each
    <3>4. Enclosed("l", Each(Emit, node.items)) \in Seq(Tokens) BY <3>3, EnclosedOK
    <3> QED BY <2>0, <2>3, <3>4 DEF EmitBody
  <2>4. CASE node.type = "dict"
    <3>1. node.entries \in Seq([key : Names, node : S]) BY <1>1, <2>4, ScalarOrMore
    <3>2. \A k \in DOMAIN node.entries : node.entries[k] \in [key : Names, node : S]
      BY <3>1, ElementOf
    <3>3. \A k \in DOMAIN node.entries :
            node.entries[k].key \in STRING /\ Emit[node.entries[k].node] \in Seq(Tokens)
      BY <3>2, NamesOK
    <3>4. \A k \in DOMAIN node.entries :
            Named(node.entries[k].key, Emit[node.entries[k].node]) \in Seq(Tokens)
      BY <3>3, NamedOK
    <3>5. EachNamed(Emit, node.entries) \in Seq(Seq(Tokens)) BY <3>1, <3>4 DEF EachNamed
    <3>6. Enclosed("d", EachNamed(Emit, node.entries)) \in Seq(Tokens) BY <3>5, EnclosedOK
    <3> QED BY <2>0, <2>4, <3>6 DEF EmitBody
  <2> QED BY <1>1, <2>1, <2>2, <2>3, <2>4, ScalarOrMore
<1>2. Trees \cap TreeLevel(S) \subseteq S BY <1>1
<1>3. Trees \subseteq S
  <2> HIDE DEF S
  <2> QED BY <1>2, TreeInduction
<1> QED BY <1>3

(* The parts of a list or dict, and how many tokens lie before them in it: *)
(* a part of a dict begins with its key.                                   *)
Composite(node) == node.type \in {"list", "dict"}
Count(node) == IF node.type = "list" THEN Len(node.items) ELSE Len(node.entries)
Kid(node, k) == IF node.type = "list" THEN node.items[k] ELSE node.entries[k].node
NoKey == ""
Label(node, k) == IF node.type = "list" THEN NoKey ELSE node.entries[k].key
Lead(node) == IF node.type = "list" THEN 0 ELSE 1
Texts(node) == IF node.type = "list" THEN Each(Emit, node.items)
               ELSE EachNamed(Emit, node.entries)
End(node, k) == 1 + Ends(Texts(node))[k]

LEMMA PartsOK ==
  ASSUME NEW T, NEW node \in TreeLevel(T), Composite(node)
  PROVE  /\ Count(node) \in Nat
         /\ \A k \in 1 .. Count(node) : Kid(node, k) \in T
         /\ \A k \in 1 .. Count(node) : node.type = "dict" => Label(node, k) \in Names
<1>1. CASE node.type = "list"
  <2>1. node.items \in Seq(T) BY <1>1, ScalarOrMore
  <2>2. \A k \in 1 .. Len(node.items) : node.items[k] \in T BY <2>1, ElementOf
  <2> QED BY <1>1, <2>1, <2>2 DEF Count, Kid, Label
<1>2. CASE node.type = "dict"
  <2>1. node.entries \in Seq([key : Names, node : T]) BY <1>2, ScalarOrMore
  <2>2. \A k \in DOMAIN node.entries : node.entries[k] \in [key : Names, node : T]
    BY <2>1, ElementOf
  <2>5. DOMAIN node.entries = 1 .. Len(node.entries) BY <2>1
  <2>3. \A k \in 1 .. Len(node.entries) :
          node.entries[k].key \in Names /\ node.entries[k].node \in T
    BY <2>2, <2>5
  <2>4. Len(node.entries) \in Nat BY <2>1
  <2> QED BY <1>2, <2>3, <2>4 DEF Count, Kid, Label
<1> QED BY <1>1, <1>2 DEF Composite

LEMMA TextsOK ==
  ASSUME NEW node \in Trees, Composite(node)
  PROVE  /\ Texts(node) \in Seq(Seq(Tokens)) /\ Len(Texts(node)) = Count(node)
         /\ Emit[node] = Enclosed(IF node.type = "list" THEN "l" ELSE "d", Texts(node))
         /\ \A k \in 1 .. Count(node) :
              LET text == Texts(node)[k]
              IN  /\ Len(text) = Lead(node) + Len(Emit[Kid(node, k)])
                  /\ \A j \in 1 .. Len(Emit[Kid(node, k)]) :
                       text[Lead(node) + j] = Emit[Kid(node, k)][j]
                  /\ node.type = "dict" => text[1] = StrToken(Label(node, k), TRUE)
<1>0. node \in TreeLevel(Trees) BY TreesUnfold
<1>1. /\ Count(node) \in Nat
      /\ \A k \in 1 .. Count(node) : /\ Kid(node, k) \in Trees
                                     /\ Emit[Kid(node, k)] \in Seq(Tokens)
                                     /\ node.type = "dict" => Label(node, k) \in STRING
  BY <1>0, PartsOK, EmitTyped, NamesOK
<1>2. Emit[node] = EmitBody(node, Emit) BY FunctionsAre
<1>3. \A k \in 1 .. Count(node) : Len(Emit[Kid(node, k)]) \in Nat BY <1>1
<1>4. CASE node.type = "list"
  <2>1. node.items \in Seq(Trees) BY <1>0, <1>4, ScalarOrMore
  <2>2. /\ Texts(node) = [k \in 1 .. Count(node) |-> Emit[Kid(node, k)]]
        /\ Lead(node) = 0
    BY <1>4, <2>1 DEF Texts, Each, Count, Kid, Lead
  <2>3. Texts(node) \in Seq(Seq(Tokens)) /\ Len(Texts(node)) = Count(node) BY <1>1, <2>2
  <2>4. Emit[node] = Enclosed("l", Texts(node)) BY <1>2, <1>4 DEF EmitBody, Texts
  <2>5. \A k \in 1 .. Count(node) : Texts(node)[k] = Emit[Kid(node, k)] BY <2>2
  <2>6. ASSUME NEW k \in 1 .. Count(node)
        PROVE  /\ Len(Texts(node)[k]) = Lead(node) + Len(Emit[Kid(node, k)])
               /\ \A j \in 1 .. Len(Emit[Kid(node, k)]) :
                    Texts(node)[k][Lead(node) + j] = Emit[Kid(node, k)][j]
    BY <1>3, <2>2, <2>5
  <2> QED BY <1>4, <2>3, <2>4, <2>6
<1>5. CASE node.type = "dict"
  <2>1. node.entries \in Seq([key : Names, node : Trees]) BY <1>0, <1>5, ScalarOrMore
  <2>2. /\ Texts(node) = [k \in 1 .. Count(node) |-> Named(Label(node, k), Emit[Kid(node, k)])]
        /\ Lead(node) = 1
    BY <1>5, <2>1 DEF Texts, EachNamed, Count, Kid, Label, Lead
  <2>3. \A k \in 1 .. Count(node) :
          LET text == Named(Label(node, k), Emit[Kid(node, k)])
          IN  /\ text \in Seq(Tokens)
              /\ Len(text) = 1 + Len(Emit[Kid(node, k)])
              /\ text[1] = StrToken(Label(node, k), TRUE)
              /\ \A j \in 1 .. Len(Emit[Kid(node, k)]) : text[1 + j] = Emit[Kid(node, k)][j]
    BY <1>1, <1>5, NamedOK
  <2>7. \A k \in 1 .. Count(node) : Named(Label(node, k), Emit[Kid(node, k)]) \in Seq(Tokens)
    BY <2>3
  <2>4. Texts(node) \in Seq(Seq(Tokens)) /\ Len(Texts(node)) = Count(node)
    BY <1>1, <2>2, <2>7
  <2>5. Emit[node] = Enclosed("d", Texts(node)) BY <1>2, <1>5 DEF EmitBody, Texts
  <2>6. \A k \in 1 .. Count(node) : Texts(node)[k] = Named(Label(node, k), Emit[Kid(node, k)])
    BY <2>2
  <2> QED BY <1>5, <2>2, <2>3, <2>4, <2>5, <2>6
<1> QED BY <1>4, <1>5 DEF Composite

(* The tokens of a list or dict. *)
LEMMA OpenEmit ==
  ASSUME NEW node \in Trees, Composite(node)
  PROVE  /\ Count(node) \in Nat /\ Lead(node) \in {0, 1}
         /\ End(node, 0) = 1
         /\ \A k \in 0 .. Count(node) : End(node, k) \in Nat
         /\ \A j, k \in 0 .. Count(node) : j <= k => End(node, j) <= End(node, k)
         /\ Len(Emit[node]) = End(node, Count(node)) + 1
         /\ Emit[node][1] = Mark(IF node.type = "list" THEN "l" ELSE "d")
         /\ Emit[node][End(node, Count(node)) + 1] = Mark("e")
<1>1. /\ Texts(node) \in Seq(Seq(Tokens)) /\ Len(Texts(node)) = Count(node)
      /\ Emit[node] = Enclosed(IF node.type = "list" THEN "l" ELSE "d", Texts(node))
  BY TextsOK
<1>2. PICK p, n : p = Texts(node) /\ n = Count(node) OBVIOUS
<1>3. /\ p \in Seq(Seq(Tokens)) /\ Len(p) = n
      /\ Emit[node] = Enclosed(IF node.type = "list" THEN "l" ELSE "d", p)
      /\ \A k : End(node, k) = 1 + Ends(p)[k]
  BY <1>1, <1>2 DEF End
<1>4. /\ n \in Nat /\ Ends(p)[0] = 0
      /\ \A k \in 0 .. n : Ends(p)[k] \in Nat
      /\ \A j, k \in 0 .. n : j <= k => Ends(p)[j] <= Ends(p)[k]
  BY <1>3, EndsAre
<1>5. PICK t \in {"l", "d"} : t = IF node.type = "list" THEN "l" ELSE "d" OBVIOUS
<1>6. /\ Len(Emit[node]) = Ends(p)[n] + 2 /\ Emit[node][1] = Mark(t)
      /\ Emit[node][Ends(p)[n] + 2] = Mark("e")
  BY <1>3, <1>5, EnclosedOK
<1>7. Lead(node) \in {0, 1} BY DEF Lead
<1>8. End(node, n) + 1 = Ends(p)[n] + 2 BY <1>3, <1>4
<1>9. Emit[node][End(node, n) + 1] = Mark("e") /\ Len(Emit[node]) = End(node, n) + 1
  BY <1>6, <1>8
<1>10. End(node, 0) = 1 /\ \A k \in 0 .. n : End(node, k) \in Nat BY <1>3, <1>4
<1>11. \A j, k \in 0 .. n : j <= k => End(node, j) <= End(node, k) BY <1>3, <1>4
<1> QED BY <1>2, <1>4, <1>5, <1>6, <1>7, <1>9, <1>10, <1>11

LEMMA KidEmit ==
  ASSUME NEW node \in Trees, Composite(node), NEW k \in 1 .. Count(node)
  PROVE  /\ Kid(node, k) \in Trees
         /\ End(node, k) = End(node, k - 1) + Lead(node) + Len(Emit[Kid(node, k)])
         /\ \A j \in 1 .. Len(Emit[Kid(node, k)]) :
              Emit[node][End(node, k - 1) + Lead(node) + j] = Emit[Kid(node, k)][j]
         /\ node.type = "dict" => /\ Label(node, k) \in Names
                                  /\ Emit[node][End(node, k - 1) + 1]
                                       = StrToken(Label(node, k), TRUE)
<1>1. /\ Texts(node) \in Seq(Seq(Tokens)) /\ Len(Texts(node)) = Count(node)
      /\ Emit[node] = Enclosed(IF node.type = "list" THEN "l" ELSE "d", Texts(node))
      /\ Len(Texts(node)[k]) = Lead(node) + Len(Emit[Kid(node, k)])
      /\ \A j \in 1 .. Len(Emit[Kid(node, k)]) :
           Texts(node)[k][Lead(node) + j] = Emit[Kid(node, k)][j]
      /\ node.type = "dict" => Texts(node)[k][1] = StrToken(Label(node, k), TRUE)
  BY TextsOK
<1>2. PICK p, n : p = Texts(node) /\ n = Count(node) OBVIOUS
<1>3. /\ p \in Seq(Seq(Tokens)) /\ Len(p) = n
      /\ Emit[node] = Enclosed(IF node.type = "list" THEN "l" ELSE "d", p)
      /\ \A i : End(node, i) = 1 + Ends(p)[i]
  BY <1>1, <1>2 DEF End
<1>4. /\ n \in Nat /\ k \in 1 .. n
      /\ Ends(p)[k - 1] \in Nat /\ Ends(p)[k] = Ends(p)[k - 1] + Len(p[k])
  <2>1. n \in Nat /\ k \in 1 .. n /\ k - 1 \in 0 .. n BY <1>2, <1>3
  <2>2. /\ \A i \in 0 .. n : Ends(p)[i] \in Nat
        /\ \A i \in 1 .. n : Ends(p)[i] = Ends(p)[i - 1] + Len(p[i])
    BY <1>3, EndsAre
  <2> QED BY <2>1, <2>2
<1>5. PICK t \in {"l", "d"} : t = IF node.type = "list" THEN "l" ELSE "d" OBVIOUS
<1>6. \A j \in 1 .. Len(p[k]) : Emit[node][1 + Ends(p)[k - 1] + j] = p[k][j]
  BY <1>3, <1>4, <1>5, EnclosedOK
<1>7. /\ Kid(node, k) \in Trees
      /\ node.type = "dict" => Label(node, k) \in Names
  BY TreesUnfold, PartsOK
<1>8. Len(Emit[Kid(node, k)]) \in Nat
  <2>1. Emit[Kid(node, k)] \in Seq(Tokens) BY <1>7, EmitTyped
  <2> QED BY <2>1
<1>9. Lead(node) \in {0, 1} /\ (node.type = "dict" => Lead(node) = 1) BY DEF Lead
<1>10. Len(p[k]) = Lead(node) + Len(Emit[Kid(node, k)]) BY <1>1, <1>2
<1>11. End(node, k) = End(node, k - 1) + Lead(node) + Len(Emit[Kid(node, k)])
  <2>1. PICK a, b, c : a = Ends(p)[k - 1] /\ b = Lead(node) /\ c = Len(Emit[Kid(node, k)])
    OBVIOUS
  <2>2. a \in Nat /\ b \in Nat /\ c \in Nat /\ Ends(p)[k] = a + (b + c)
    BY <1>4, <1>8, <1>9, <1>10, <2>1
  <2>3. 1 + (a + (b + c)) = (1 + a) + b + c BY <2>2
  <2> QED BY <1>3, <2>1, <2>2, <2>3
<1>12. ASSUME NEW j \in 1 .. Len(Emit[Kid(node, k)])
       PROVE  Emit[node][End(node, k - 1) + Lead(node) + j] = Emit[Kid(node, k)][j]
  <2>1. PICK i : i = Lead(node) + j OBVIOUS
  <2>2. i \in 1 .. Len(p[k]) BY <1>8, <1>9, <1>10, <2>1
  <2>3. Emit[node][1 + Ends(p)[k - 1] + i] = p[k][i] BY <1>6, <2>2
  <2>4. p[k][i] = Emit[Kid(node, k)][j] BY <1>1, <1>2, <2>1
  <2>5. End(node, k - 1) + Lead(node) + j = 1 + Ends(p)[k - 1] + i
    <3>1. PICK a, b : a = Ends(p)[k - 1] /\ b = Lead(node) OBVIOUS
    <3>2. a \in Nat /\ b \in Nat /\ j \in Nat BY <1>4, <1>8, <1>9, <3>1
    <3>3. (1 + a) + b + j = 1 + a + (b + j) BY <3>2
    <3> QED BY <1>3, <2>1, <3>1, <3>3
  <2> QED BY <2>3, <2>4, <2>5
<1>13. ASSUME node.type = "dict"
       PROVE  Emit[node][End(node, k - 1) + 1] = StrToken(Label(node, k), TRUE)
  <2>1. 1 \in 1 .. Len(p[k]) BY <1>8, <1>9, <1>10, <1>13
  <2>2. Emit[node][1 + Ends(p)[k - 1] + 1] = p[k][1] BY <1>6, <2>1
  <2> QED BY <1>1, <1>2, <1>3, <1>13, <2>2
<1> QED BY <1>7, <1>11, <1>12, <1>13

LEMMA ScalarEmit ==
  ASSUME NEW node \in Trees, ~Composite(node)
  PROVE  /\ Len(Emit[node]) = 1
         /\ \/ /\ node.type = "integer" /\ node.n \in Nat /\ Meaning[node] = Number(node.n)
               /\ Emit[node][1] = IntToken(node.n, node.plain)
            \/ /\ node.type = "string" /\ node.s \in STRING /\ Meaning[node] = Str(node.s)
               /\ Emit[node][1] = StrToken(node.s, node.plain)
<1>0. node \in TreeLevel(Trees) BY TreesUnfold
<1>1. Emit[node] = EmitBody(node, Emit) /\ Meaning[node] = MeaningBody(node, Meaning)
  BY FunctionsAre
<1>2. CASE node.type = "integer"
  <2>1. node.n \in Nat BY <1>0, <1>2, ScalarOrMore
  <2>2. Emit[node] = <<IntToken(node.n, node.plain)>> /\ Meaning[node] = Number(node.n)
    BY <1>1, <1>2 DEF EmitBody, MeaningBody
  <2>3. PICK x : x = IntToken(node.n, node.plain) OBVIOUS
  <2>4. Len(Emit[node]) = 1 /\ Emit[node][1] = x BY <2>2, <2>3
  <2> QED BY <1>2, <2>1, <2>2, <2>3, <2>4
<1>3. CASE node.type = "string"
  <2>1. node.s \in STRING BY <1>0, <1>3, ScalarOrMore
  <2>2. Emit[node] = <<StrToken(node.s, node.plain)>> /\ Meaning[node] = Str(node.s)
    BY <1>1, <1>3 DEF EmitBody, MeaningBody
  <2>3. PICK x : x = StrToken(node.s, node.plain) OBVIOUS
  <2>4. Len(Emit[node]) = 1 /\ Emit[node][1] = x BY <2>2, <2>3
  <2> QED BY <1>3, <2>1, <2>2, <2>3, <2>4
<1> QED BY <1>0, <1>2, <1>3, ScalarOrMore DEF Composite

LEMMA ScalarMeaning ==
  ASSUME NEW node \in Trees, ~Composite(node)
  PROVE  Meaning[node] \in Simple
<1>1. \A n \in Nat : Number(n) \in Simple BY DEF Number, Simple
<1>2. \A s \in STRING : Str(s) \in Simple BY DEF Str, Simple
<1> QED BY <1>1, <1>2, ScalarEmit

LEMMA OpenMeaning ==
  ASSUME NEW node \in Trees, Composite(node)
  PROVE  Meaning[node] = IF node.type = "list" THEN List(Each(Meaning, node.items))
                         ELSE Dict(MapOf(Meaning, node))
<1>1. Meaning[node] = MeaningBody(node, Meaning) BY FunctionsAre
<1> QED BY <1>1 DEF Composite, MeaningBody

LEMMA MeaningLevel ==
  ASSUME NEW T, NEW V, \A kid \in T : Meaning[kid] \in V,
         NEW node \in Trees, node \in TreeLevel(T)
  PROVE  Meaning[node] \in ValueLevel(V)
<1>1. CASE ~Composite(node)
  BY <1>1, ScalarMeaning DEF ValueLevel
<1>2. CASE node.type = "list"
  <2>1. node.items \in Seq(T) BY <1>2, ScalarOrMore
  <2>2. \A k \in DOMAIN node.items : Meaning[node.items[k]] \in V BY <2>1, ElementOf
  <2>3. Each(Meaning, node.items) \in Seq(V) BY <2>1, <2>2 DEF Each
  <2>4. Meaning[node] = List(Each(Meaning, node.items)) BY <1>2, OpenMeaning DEF Composite
  <2> QED BY <2>3, <2>4 DEF List, ValueLevel, ListsOf
<1>3. CASE node.type = "dict"
  <2>1. node.entries \in Seq([key : Names, node : T]) BY <1>3, ScalarOrMore
  <2>2. \A k \in DOMAIN node.entries : node.entries[k] \in [key : Names, node : T]
    BY <2>1, ElementOf
  <2>3. \A k \in DOMAIN node.entries : Meaning[node.entries[k].node] \in V BY <2>2
  <2>4. \A key \in Keys(node) : Meaning[Child(node, key)] \in V BY <2>3, ChildIs
  <2>5. MapOf(Meaning, node) \in [Names -> V \cup {Absent}] BY <2>4 DEF MapOf
  <2>6. Meaning[node] = Dict(MapOf(Meaning, node)) BY <1>3, OpenMeaning DEF Composite
  <2> QED BY <2>5, <2>6 DEF Dict, ValueLevel, DictsOf
<1> QED BY <1>1, <1>2, <1>3 DEF Composite

LEMMA MeaningTyped == \A node \in Trees : Meaning[node] \in Values
<1>0. Depth \in Nat BY MetaInfoAssumption
<1> DEFINE Bad == { d \in 0 .. Depth : \E node \in TreesTo[d] : Meaning[node] \notin ValuesTo[d] }
<1>1. SUFFICES ASSUME Bad # {} PROVE FALSE BY <1>0 DEF Trees, Values
<1>2. Bad \subseteq Nat BY <1>0
<1> HIDE DEF Bad
<1>3. PICK d \in Bad : \A k \in Bad : d <= k BY <1>1, <1>2, LeastNumber
<1> USE DEF Bad
<1>4. d \in 0 .. Depth BY <1>3
<1>5. PICK node \in TreesTo[d] : Meaning[node] \notin ValuesTo[d] BY <1>3
<1>6. node \in Trees BY <1>4, <1>5, LevelsWithin
<1>7. CASE d = 0
  <2>1. node \in Scalars /\ ValuesTo[d] = Simple BY <1>5, <1>7, TreesToAre, ValuesToAre
  <2>2. ~Composite(node) BY <2>1 DEF Scalars, Composite
  <2>3. Meaning[node] \in Simple BY <1>6, <2>2, ScalarMeaning
  <2> QED BY <1>5, <2>1, <2>3
<1>8. CASE d # 0
  <2>1. d \in 1 .. Depth /\ d - 1 \in 0 .. Depth /\ d - 1 \notin Bad BY <1>0, <1>3, <1>4, <1>8
  <2>2. PICK T, V : T = TreesTo[d - 1] /\ V = ValuesTo[d - 1] OBVIOUS
  <2>3. \A kid \in T : Meaning[kid] \in V BY <2>1, <2>2
  <2>4. node \in TreeLevel(T) /\ ValuesTo[d] = ValueLevel(V)
    BY <1>5, <2>1, <2>2, TreesToAre, ValuesToAre
  <2>5. Meaning[node] \in ValueLevel(V) BY <1>6, <2>3, <2>4, MeaningLevel
  <2> QED BY <1>5, <2>4, <2>5
<1> QED BY <1>7, <1>8

LEMMA ValuesPresent == Absent \notin Values
<1>1. Values \subseteq ValueLevel(Values) BY TreesUnfold
<1>2. SUFFICES ASSUME Absent \in ValueLevel(Values) PROVE FALSE BY <1>1
<1>3. Absent.type \in {"integer", "string", "list", "dict"} BY <1>2, SimpleOrMore
<1> QED BY <1>3 DEF Absent

-----------------------------------------------------------------------------
(* What decode has made of the first parts of a list or dict.              *)

Partial == ListsOf(Values) \cup DictsOf(Values)

Gathered(v, node, done) ==
  /\ v \in Partial /\ v.type = node.type
  /\ v.type = "list" =>
       /\ Len(v.items) = done
       /\ \A k \in 1 .. done : v.items[k] = Meaning[Kid(node, k)]
  /\ v.type = "dict" =>
       /\ \A k \in 1 .. done : v.map[Label(node, k)] = Meaning[Kid(node, k)]
       /\ \A key \in Names : v.map[key] # Absent => \E k \in 1 .. done : Label(node, k) = key

(* No key of these parts is there twice, nor one in them. *)
Separate(node, done) ==
  /\ node.type = "dict" => \A j, k \in 1 .. done : Label(node, j) = Label(node, k) => j = k
  /\ \A k \in 1 .. done : Distinct[Kid(node, k)]

LEMMA PartialOK ==
  ASSUME NEW v \in Partial
  PROVE  \/ v.type = "list" /\ v = List(v.items) /\ v.items \in Seq(Values)
         \/ v.type = "dict" /\ v = Dict(v.map) /\ v.map \in [Names -> Values \cup {Absent}]
<1>1. CASE v \in ListsOf(Values) BY <1>1 DEF ListsOf, List
<1>2. CASE v \in DictsOf(Values) BY <1>2 DEF DictsOf, Dict
<1> QED BY <1>1, <1>2 DEF Partial

LEMMA PartialIs ==
  /\ \A t \in Seq(Values) : /\ List(t) \in Partial
                            /\ List(t).type = "list" /\ List(t).items = t
  /\ \A m \in [Names -> Values \cup {Absent}] : /\ Dict(m) \in Partial
                                               /\ Dict(m).type = "dict" /\ Dict(m).map = m
<1>1. \A t \in Seq(Values) : List(t) \in ListsOf(Values) BY DEF List, ListsOf
<1>2. \A m \in [Names -> Values \cup {Absent}] : Dict(m) \in DictsOf(Values)
  BY DEF Dict, DictsOf
<1>3. \A t : List(t).type = "list" /\ List(t).items = t BY DEF List
<1>4. \A m : Dict(m).type = "dict" /\ Dict(m).map = m BY DEF Dict
<1> QED BY <1>1, <1>2, <1>3, <1>4 DEF Partial

LEMMA FreshOK ==
  ASSUME NEW node, node.type \in {"list", "dict"}
  PROVE  /\ Gathered(IF node.type = "list" THEN List(<<>>) ELSE Dict(NoEntries), node, 0)
         /\ Separate(node, 0)
<1>1. List(<<>>) \in Partial /\ List(<<>>).type = "list" /\ List(<<>>).items = <<>>
  <2>1. <<>> \in Seq(Values) OBVIOUS
  <2> QED BY <2>1, PartialIs
<1>2. Dict(NoEntries) \in Partial /\ Dict(NoEntries).type = "dict"
      /\ Dict(NoEntries).map = NoEntries
  <2>1. NoEntries \in [Names -> Values \cup {Absent}] BY DEF NoEntries
  <2> QED BY <2>1, PartialIs
<1>3. \A key \in Names : NoEntries[key] = Absent BY DEF NoEntries
<1>4. Len(<<>>) = 0 OBVIOUS
<1>5. CASE node.type = "list" BY <1>1, <1>4, <1>5 DEF Gathered, Separate
<1>6. CASE node.type = "dict" BY <1>2, <1>3, <1>6 DEF Gathered, Separate
<1> QED BY <1>5, <1>6

(* One part more. *)
LEMMA PutOK ==
  ASSUME NEW node \in Trees, Composite(node), NEW done \in 0 .. Count(node) - 1, NEW v,
         Gathered(v, node, done), Separate(node, done), Distinct[Kid(node, done + 1)],
         node.type = "dict" => \A k \in 1 .. done : Label(node, k) # Label(node, done + 1)
  PROVE  /\ Gathered(Put(v, Label(node, done + 1), Meaning[Kid(node, done + 1)]), node, done + 1)
         /\ Separate(node, done + 1)
<1> DEFINE kid == Kid(node, done + 1)
           key == Label(node, done + 1)
           w == Put(v, key, Meaning[kid])
<1>1. Count(node) \in Nat /\ done \in Nat /\ done + 1 \in 1 .. Count(node) BY OpenEmit
<1>2. kid \in Trees /\ (node.type = "dict" => key \in Names) BY <1>1, KidEmit
<1>3. Meaning[kid] \in Values /\ Meaning[kid] # Absent BY <1>2, MeaningTyped, ValuesPresent
<1>4. \A k \in 1 .. done + 1 : k \in 1 .. done \/ k = done + 1 BY <1>1
<1>5. Separate(node, done + 1) BY <1>1, <1>4 DEF Separate
<1>6. CASE node.type = "list"
  <2>1. v = List(v.items) /\ v.items \in Seq(Values) /\ v.type = "list"
    BY <1>6, PartialOK DEF Gathered
  <2>2. PICK s, x : s = v.items /\ x = Meaning[kid] OBVIOUS
  <2>3. s \in Seq(Values) /\ x \in Values /\ Len(s) = done
    BY <1>3, <2>1, <2>2 DEF Gathered
  <2>4. w = List(Append(s, x)) BY <2>1, <2>2 DEF Put, List
  <2>5. /\ Append(s, x) \in Seq(Values) /\ Len(Append(s, x)) = done + 1
        /\ Append(s, x)[done + 1] = x /\ \A k \in 1 .. done : Append(s, x)[k] = s[k]
    BY <2>3
  <2>6. w.type = "list" /\ w.items = Append(s, x) /\ w \in Partial
    BY <2>4, <2>5, PartialIs
  <2>7. \A k \in 1 .. done : s[k] = Meaning[Kid(node, k)] BY <2>1, <2>2 DEF Gathered
  <2>8. \A k \in 1 .. done + 1 : w.items[k] = Meaning[Kid(node, k)]
    BY <1>4, <2>2, <2>5, <2>6, <2>7
  <2> QED BY <1>5, <1>6, <2>5, <2>6, <2>8 DEF Gathered
<1>7. CASE node.type = "dict"
  <2>1. v = Dict(v.map) /\ v.map \in [Names -> Values \cup {Absent}] /\ v.type = "dict"
    BY <1>7, PartialOK DEF Gathered
  <2>2. PICK m, x : m = v.map /\ x = Meaning[kid] OBVIOUS
  <2>3. w = Dict([m EXCEPT ![key] = x]) BY <2>1, <2>2 DEF Put, Dict
  <2>4. PICK n : n = [m EXCEPT ![key] = x] OBVIOUS
  <2>5. /\ n \in [Names -> Values \cup {Absent}] /\ n[key] = x
        /\ \A other \in Names : other # key => n[other] = m[other]
    BY <1>2, <1>3, <1>7, <2>1, <2>2, <2>4
  <2>6. w.type = "dict" /\ w.map = n /\ w \in Partial
    BY <2>3, <2>4, <2>5, PartialIs
  <2>7. \A k \in 1 .. done : Label(node, k) \in Names /\ Label(node, k) # key
    <3>1. \A k \in 1 .. done : k \in 1 .. Count(node) BY <1>1
    <3> QED BY <1>7, <3>1, KidEmit
  <2>8. \A k \in 1 .. done + 1 : w.map[Label(node, k)] = Meaning[Kid(node, k)]
    <3>1. \A k \in 1 .. done : m[Label(node, k)] = Meaning[Kid(node, k)]
      BY <2>1, <2>2 DEF Gathered
    <3> QED BY <1>4, <2>2, <2>5, <2>6, <2>7, <3>1
  <2>9. ASSUME NEW other \in Names, w.map[other] # Absent
        PROVE  \E k \in 1 .. done + 1 : Label(node, k) = other
    <3>1. CASE other = key BY <1>1, <3>1
    <3>2. CASE other # key
      <4>1. m[other] # Absent BY <2>5, <2>6, <2>9, <3>2
      <4>2. \E k \in 1 .. done : Label(node, k) = other BY <2>1, <2>2, <4>1 DEF Gathered
      <4> QED BY <1>1, <4>2
    <3> QED BY <3>1, <3>2
  <2> QED BY <1>5, <1>7, <2>6, <2>8, <2>9 DEF Gathered
<1> QED BY <1>6, <1>7 DEF Composite

(* All parts: the value is what was meant. *)
LEMMA ClosedOK ==
  ASSUME NEW node \in Trees, Composite(node), NEW v,
         Gathered(v, node, Count(node)), Separate(node, Count(node))
  PROVE  v = Meaning[node] /\ Distinct[node]
<1>0. node \in TreeLevel(Trees) /\ Count(node) \in Nat BY TreesUnfold, OpenEmit
<1>1. Distinct[node] = DistinctBody(node, Distinct) BY FunctionsAre
<1>2. CASE node.type = "list"
  <2>1. v = List(v.items) /\ v.items \in Seq(Values) /\ v.type = "list"
    BY <1>2, PartialOK DEF Gathered
  <2>2. node.items \in Seq(Trees) /\ Count(node) = Len(node.items)
        /\ \A k : Kid(node, k) = node.items[k]
    BY <1>0, <1>2, ScalarOrMore DEF Count, Kid
  <2>3. DOMAIN node.items = 1 .. Len(node.items) BY <2>2
  <2>4. PICK s, t : s = v.items /\ t = Each(Meaning, node.items) OBVIOUS
  <2>5. s \in Seq(Values) /\ Len(s) = Len(node.items)
        /\ \A k \in 1 .. Len(node.items) : s[k] = Meaning[node.items[k]]
    BY <2>1, <2>2, <2>4 DEF Gathered
  <2>6. t = [k \in 1 .. Len(node.items) |-> Meaning[node.items[k]]] BY <2>3, <2>4 DEF Each
  <2>7. s = [k \in 1 .. Len(s) |-> s[k]] BY <2>5
  <2>8. s = t BY <2>5, <2>6, <2>7
  <2>9. v = Meaning[node] BY <1>2, <2>1, <2>4, <2>8, OpenMeaning
  <2>10. Distinct[node] BY <1>1, <1>2, <2>2, <2>3 DEF DistinctBody, Separate
  <2> QED BY <2>9, <2>10
<1>3. CASE node.type = "dict"
  <2>1. v = Dict(v.map) /\ v.map \in [Names -> Values \cup {Absent}] /\ v.type = "dict"
    BY <1>3, PartialOK DEF Gathered
  <2>2. node.entries \in Seq([key : Names, node : Trees]) /\ Count(node) = Len(node.entries)
        /\ \A k : Kid(node, k) = node.entries[k].node /\ Label(node, k) = node.entries[k].key
    BY <1>0, <1>3, ScalarOrMore DEF Count, Kid, Label
  <2>3. DOMAIN node.entries = 1 .. Len(node.entries) BY <2>2
  <2>4. /\ \A k \in DOMAIN node.entries : v.map[node.entries[k].key] = Meaning[node.entries[k].node]
        /\ \A key \in Names : v.map[key] # Absent =>
             \E k \in DOMAIN node.entries : node.entries[k].key = key
    BY <2>1, <2>2, <2>3 DEF Gathered
  <2>5. ASSUME NEW key \in Names PROVE v.map[key] = MapOf(Meaning, node)[key]
    <3>1. CASE key \in Keys(node)
      <4>1. PICK k \in DOMAIN node.entries : /\ node.entries[k].key = key
                                             /\ Child(node, key) = node.entries[k].node
        BY <3>1, ChildIs
      <4> QED BY <2>4, <3>1, <4>1 DEF MapOf
    <3>2. CASE key \notin Keys(node)
      <4>1. v.map[key] = Absent BY <2>4, <3>2 DEF Keys
      <4> QED BY <3>2, <4>1 DEF MapOf
    <3> QED BY <3>1, <3>2
  <2>6. v.map = MapOf(Meaning, node) BY <2>1, <2>5 DEF MapOf
  <2>7. v = Meaning[node] BY <1>3, <2>1, <2>6, OpenMeaning
  <2>8. Distinct[node] BY <1>1, <1>3, <2>2, <2>3 DEF DistinctBody, Separate
  <2> QED BY <2>7, <2>8
<1> QED BY <1>2, <1>3 DEF Composite

(* And a tree whose keys are distinct has only such parts. *)
LEMMA DistinctParts ==
  ASSUME NEW node \in Trees, Composite(node), Distinct[node], NEW k \in 1 .. Count(node)
  PROVE  /\ Distinct[Kid(node, k)]
         /\ node.type = "dict" => \A j \in 1 .. k - 1 : Label(node, j) # Label(node, k)
<1>0. node \in TreeLevel(Trees) BY TreesUnfold
<1>1. Distinct[node] = DistinctBody(node, Distinct) BY FunctionsAre
<1>2. CASE node.type = "list"
  <2>1. node.items \in Seq(Trees) BY <1>0, <1>2, ScalarOrMore
  <2>2. k \in DOMAIN node.items BY <1>2, <2>1 DEF Count
  <2> QED BY <1>1, <1>2, <2>2 DEF DistinctBody, Kid
<1>3. CASE node.type = "dict"
  <2>1. node.entries \in Seq([key : Names, node : Trees]) BY <1>0, <1>3, ScalarOrMore
  <2>2. Len(node.entries) \in Nat /\ DOMAIN node.entries = 1 .. Len(node.entries) BY <2>1
  <2>3. k \in DOMAIN node.entries /\ \A j \in 1 .. k - 1 : j \in DOMAIN node.entries /\ j # k
    BY <1>3, <2>2 DEF Count
  <2> QED BY <1>1, <1>3, <2>3 DEF DistinctBody, Kid, Label
<1> QED BY <1>2, <1>3 DEF Composite

-----------------------------------------------------------------------------
(* Where decode is in the file.                                            *)

(* The tree node lies in the text, behind its first at tokens. *)
Occurs(text, at, node) ==
  /\ node \in Trees /\ at \in Nat
  /\ at + Len(Emit[node]) <= Len(text)
  /\ \A j \in 1 .. Len(Emit[node]) : text[at + j] = Emit[node][j]

(* An open list or dict: where it lies and how many of its parts are read. *)
Frame == [node : Trees, at : Nat, done : Nat]

Reached(f) == f.at + End(f.node, f.done)

(* The part of f after those that are read. *)
Following(f, node, at, key) ==
  /\ f.done < Count(f.node)
  /\ node = Kid(f.node, f.done + 1) /\ key = Label(f.node, f.done + 1)
  /\ at = Reached(f) + Lead(f.node)

LEMMA EmitLength == \A node \in Trees : Len(Emit[node]) \in Nat /\ Len(Emit[node]) >= 1
<1>1. ASSUME NEW node \in Trees PROVE Len(Emit[node]) \in Nat /\ Len(Emit[node]) >= 1
  <2>1. CASE Composite(node)
    <3>1. /\ Len(Emit[node]) = End(node, Count(node)) + 1
          /\ End(node, 0) = 1 /\ Count(node) \in Nat
          /\ \A k \in 0 .. Count(node) : End(node, k) \in Nat
      BY <2>1, OpenEmit
    <3> QED BY <3>1
  <2>2. CASE ~Composite(node) BY <2>2, ScalarEmit
  <2> QED BY <2>1, <2>2
<1> QED BY <1>1

(* The first token of a tree tells its type, and is never an 'e'. *)
LEMMA FirstToken ==
  ASSUME NEW node \in Trees
  PROVE  \/ node.type = "integer" /\ Emit[node][1].t = "i" /\ Emit[node][1].n = node.n
         \/ node.type = "string" /\ Emit[node][1].t = "s" /\ Emit[node][1].s = node.s
         \/ node.type = "list" /\ Emit[node][1].t = "l"
         \/ node.type = "dict" /\ Emit[node][1].t = "d"
<1>1. CASE Composite(node)
  <2>1. Emit[node][1] = Mark(IF node.type = "list" THEN "l" ELSE "d") BY <1>1, OpenEmit
  <2> QED BY <1>1, <2>1, TokensOK DEF Composite
<1>2. CASE ~Composite(node)
  <2>1. \A n, plain : IntToken(n, plain).t = "i" /\ IntToken(n, plain).n = n BY DEF IntToken
  <2>2. \A s, plain : StrToken(s, plain).t = "s" /\ StrToken(s, plain).s = s BY DEF StrToken
  <2>3. \/ node.type = "integer" /\ Emit[node][1] = IntToken(node.n, node.plain)
        \/ node.type = "string" /\ Emit[node][1] = StrToken(node.s, node.plain)
    BY <1>2, ScalarEmit
  <2> QED BY <2>1, <2>2, <2>3
<1> QED BY <1>1, <1>2

(* The next token after the parts that are read: an 'e' if these were all, *)
(* else the key, in a dict, and the first of the next part.                *)
LEMMA NextToken ==
  ASSUME NEW text, NEW f \in Frame, Composite(f.node), f.done <= Count(f.node),
         Occurs(text, f.at, f.node)
  PROVE  /\ Reached(f) \in Nat /\ Reached(f) + 1 <= Len(text)
         /\ f.done = Count(f.node) =>
              /\ text[Reached(f) + 1].t = "e"
              /\ Reached(f) + 1 = f.at + Len(Emit[f.node])
         /\ f.done < Count(f.node) =>
              LET kid == Kid(f.node, f.done + 1)
                  at  == Reached(f) + Lead(f.node)
              IN  /\ Occurs(text, at, kid)
                  /\ at + Len(Emit[kid]) = f.at + End(f.node, f.done + 1)
                  /\ f.node.type = "dict" => /\ text[Reached(f) + 1].t = "s"
                                             /\ text[Reached(f) + 1].s = Label(f.node, f.done + 1)
<1> DEFINE node == f.node
           n == Count(node)
           e == End(node, f.done)
           len == Len(Emit[node])
<1>1. /\ node \in Trees /\ f.at \in Nat /\ f.done \in Nat /\ Composite(node)
      /\ f.at + len <= Len(text)
      /\ \A j \in 1 .. len : text[f.at + j] = Emit[node][j]
  BY DEF Frame, Occurs
<1>2. /\ n \in Nat /\ f.done \in 0 .. n /\ n \in 0 .. n
      /\ \A k \in 0 .. n : End(node, k) \in Nat
      /\ \A j, k \in 0 .. n : j <= k => End(node, j) <= End(node, k)
      /\ len = End(node, n) + 1
      /\ Emit[node][End(node, n) + 1] = Mark("e")
      /\ Lead(node) \in {0, 1}
  BY <1>1, OpenEmit
<1>3. e \in Nat /\ e <= End(node, n) /\ len \in Nat /\ Reached(f) = f.at + e
  BY <1>1, <1>2 DEF Reached
<1>9. \A i \in Nat : f.at + (e + i) = Reached(f) + i
  <2>1. PICK a, b : a = f.at /\ b = e OBVIOUS
  <2>2. a \in Nat /\ b \in Nat /\ Reached(f) = a + b BY <1>1, <1>3, <2>1
  <2>3. \A i \in Nat : a + (b + i) = (a + b) + i BY <2>2
  <2> QED BY <2>1, <2>2, <2>3
<1>4. Reached(f) \in Nat /\ Reached(f) + 1 <= f.at + len BY <1>1, <1>2, <1>3
<1>5. ASSUME f.done = n
      PROVE  text[Reached(f) + 1].t = "e" /\ Reached(f) + 1 = f.at + len
  <2>1. e = End(node, n) /\ e + 1 = len BY <1>2, <1>3, <1>5
  <2>2. e + 1 \in 1 .. len BY <1>3, <2>1
  <2>3. text[f.at + (e + 1)] = Mark("e") BY <1>1, <1>2, <2>1, <2>2
  <2>4. Reached(f) + 1 = f.at + (e + 1) BY <1>9
  <2> QED BY <2>1, <2>3, <2>4, TokensOK
<1>6. ASSUME f.done < n, NEW kid, kid = Kid(node, f.done + 1), NEW at, at = Reached(f) + Lead(node)
      PROVE  /\ Occurs(text, at, kid)
             /\ at + Len(Emit[kid]) = f.at + End(node, f.done + 1)
             /\ node.type = "dict" => /\ text[Reached(f) + 1].t = "s"
                                     /\ text[Reached(f) + 1].s = Label(node, f.done + 1)
  <2>1. PICK k : k = f.done + 1 OBVIOUS
  <2>2. k \in 1 .. n /\ k \in 0 .. n /\ k - 1 = f.done
    <3>1. PICK m, d : m = n /\ d = f.done OBVIOUS
    <3>2. m \in Nat /\ d \in Nat /\ d < m /\ k = d + 1 BY <1>1, <1>2, <1>6, <2>1, <3>1
    <3>3. k \in 1 .. m /\ k \in 0 .. m /\ k - 1 = d BY <3>2
    <3> QED BY <3>1, <3>3
  <2>3. PICK b, c : b = Lead(node) /\ c = Len(Emit[kid]) OBVIOUS
  <2>4. /\ kid \in Trees /\ End(node, k) = e + b + c
        /\ \A j \in 1 .. c : Emit[node][e + b + j] = Emit[kid][j]
        /\ node.type = "dict" => Emit[node][e + 1] = StrToken(Label(node, k), TRUE)
    <3>1. kid = Kid(node, k) BY <1>6, <2>1
    <3>2. /\ Kid(node, k) \in Trees
          /\ End(node, k) = End(node, k - 1) + Lead(node) + Len(Emit[Kid(node, k)])
          /\ \A j \in 1 .. Len(Emit[Kid(node, k)]) :
               Emit[node][End(node, k - 1) + Lead(node) + j] = Emit[Kid(node, k)][j]
          /\ node.type = "dict" => Emit[node][End(node, k - 1) + 1] = StrToken(Label(node, k), TRUE)
      BY <1>1, <2>2, KidEmit
    <3> QED BY <2>2, <2>3, <3>1, <3>2
  <2>5. b \in {0, 1} /\ c \in Nat /\ c >= 1 /\ at = f.at + e + b
    BY <1>1, <1>2, <1>3, <1>6, <2>3, <2>4, EmitLength
  <2>6. e + b + c <= End(node, n) BY <1>2, <2>2, <2>4
  <2>7. at \in Nat /\ at + c <= f.at + len BY <1>1, <1>2, <1>3, <2>5, <2>6
  <2>8. ASSUME NEW j \in 1 .. c PROVE text[at + j] = Emit[kid][j]
    <3>1. e + b + j \in 1 .. len BY <1>2, <1>3, <2>5, <2>6
    <3>2. text[f.at + (e + b + j)] = Emit[node][e + b + j] BY <1>1, <3>1
    <3>3. f.at + (e + b + j) = at + j BY <1>1, <1>3, <2>5
    <3> QED BY <2>4, <3>2, <3>3
  <2>9. Occurs(text, at, kid)
    <3>1. at + Len(Emit[kid]) <= Len(text) BY <1>1, <2>3, <2>7
    <3> QED BY <2>3, <2>4, <2>7, <2>8, <3>1 DEF Occurs
  <2>10. at + c = f.at + End(node, k) BY <1>1, <1>3, <2>4, <2>5
  <2>11. ASSUME node.type = "dict" PROVE text[Reached(f) + 1] = StrToken(Label(node, k), TRUE)
    <3>1. e + 1 \in 1 .. len BY <1>2, <1>3
    <3>2. text[f.at + (e + 1)] = Emit[node][e + 1] BY <1>1, <3>1
    <3>3. Reached(f) + 1 = f.at + (e + 1) BY <1>9
    <3> QED BY <2>4, <2>11, <3>2, <3>3
  <2> QED BY <2>1, <2>3, <2>9, <2>10, <2>11 DEF StrToken
<1>8. Reached(f) + 1 <= Len(text) BY <1>1, <1>4
<1> QED BY <1>4, <1>5, <1>6, <1>8

-----------------------------------------------------------------------------
(* The open lists and dicts on the stack, each in the one below it.        *)

FrameOK(text, f, v) ==
  /\ Composite(f.node) /\ f.done <= Count(f.node)
  /\ Occurs(text, f.at, f.node)
  /\ Gathered(v, f.node, f.done) /\ Separate(f.node, f.done)

NewKey(f) ==
  f.node.type = "dict" => \A k \in 1 .. f.done : Label(f.node, k) # Label(f.node, f.done + 1)

StackFrame == [key : Names \cup {NoKey}, node : Partial]

Framed(root, text, st, p) ==
  /\ p \in Seq(Frame) /\ st \in Seq(StackFrame)
  /\ Len(p) = Len(st)
  /\ \A k \in 1 .. Len(p) : FrameOK(text, p[k], st[k].node)
  /\ \A k \in 2 .. Len(p) : /\ Following(p[k - 1], p[k].node, p[k].at, st[k].key)
                            /\ NewKey(p[k - 1])
  /\ Len(p) # 0 => p[1].node = root /\ p[1].at = 0
  /\ Distinct[root] => \A k \in 1 .. Len(p) : Distinct[p[k].node]

(* The element that is read next. *)
Coming(root, p, node, at, key) ==
  IF Len(p) = 0 THEN node = root /\ at = 0
  ELSE Following(p[Len(p)], node, at, key) /\ NewKey(p[Len(p)])

Fresh(node) == IF node.type = "list" THEN List(<<>>) ELSE Dict(NoEntries)

OneOn(f) == [node |-> f.node, at |-> f.at, done |-> f.done + 1]

(* What becomes of the sequences in a step. *)
Added(t, s, x) == t = Append(s, x)
Shorter(t, s) == t = SubSeq(s, 1, Len(s) - 1)
Changed(t, s, x) == t = [s EXCEPT ![Len(s)] = x]

Filled(g, frame, key, v) == g = [frame EXCEPT !.node = Put(frame.node, key, v)]

LEMMA Empty ==
  ASSUME NEW S, NEW s \in Seq(S), Len(s) = 0
  PROVE  s = <<>>
OBVIOUS

LEMMA AppendOK ==
  ASSUME NEW S, NEW s \in Seq(S), NEW x \in S, NEW t, Added(t, s, x)
  PROVE  /\ t \in Seq(S) /\ Len(t) = Len(s) + 1 /\ Len(s) \in Nat
         /\ t[Len(s) + 1] = x
         /\ \A k \in 1 .. Len(s) : t[k] = s[k]
BY DEF Added

LEMMA FrontOK ==
  ASSUME NEW S, NEW s \in Seq(S), Len(s) # 0, NEW t, Shorter(t, s)
  PROVE  /\ t \in Seq(S) /\ Len(t) = Len(s) - 1 /\ Len(s) \in Nat
         /\ \A k \in 1 .. Len(s) - 1 : t[k] = s[k]
<1>1. Len(s) \in Nat OBVIOUS
<1>2. PICK m : m = Len(s) - 1 OBVIOUS
<1>3. m \in Nat /\ m <= Len(s) BY <1>1, <1>2
<1>4. t = SubSeq(s, 1, m) BY <1>2 DEF Shorter
<1>5. t \in Seq(S) /\ Len(t) = m BY <1>3, <1>4
<1>6. \A k \in 1 .. m : t[k] = s[k] BY <1>3, <1>4
<1> QED BY <1>1, <1>2, <1>5, <1>6

LEMMA ExceptOK ==
  ASSUME NEW S, NEW s \in Seq(S), Len(s) # 0, NEW x \in S, NEW t, Changed(t, s, x)
  PROVE  /\ t \in Seq(S) /\ Len(t) = Len(s) /\ Len(s) \in Nat
         /\ t[Len(s)] = x
         /\ \A k \in 1 .. Len(s) - 1 : t[k] = s[k]
BY DEF Changed

(* A list or dict is opened. *)
LEMMA OpenOK ==
  ASSUME NEW root, NEW text, NEW st, NEW p, Framed(root, text, st, p),
         NEW node, NEW at, NEW key, Coming(root, p, node, at, key),
         Composite(node), Occurs(text, at, node), Distinct[root] => Distinct[node],
         NEW f \in Frame, f.node = node, f.at = at, f.done = 0, NEW q, Added(q, p, f),
         NEW g \in StackFrame, g.key = key, g.node = Fresh(node),
         NEW tt, Added(tt, st, g)
  PROVE  /\ Framed(root, text, tt, q)
         /\ Len(q) # 0 /\ Reached(q[Len(q)]) = at + 1
<1>1. /\ p \in Seq(Frame) /\ st \in Seq(StackFrame) /\ Len(p) = Len(st)
      /\ node \in Trees /\ at \in Nat
  BY DEF Framed, Occurs
<1>2. PICK v : v = Fresh(node) OBVIOUS
<1>3. f \in Frame /\ f.node = node /\ f.at = at /\ f.done = 0 OBVIOUS
<1>4. Gathered(v, node, 0) /\ Separate(node, 0)
  <2>1. node.type \in {"list", "dict"} BY DEF Composite
  <2> QED BY <1>2, <2>1, FreshOK DEF Fresh
<1>6. g \in StackFrame /\ g.key = key /\ g.node = v BY <1>2
<1>7. PICK n : n = Len(p) OBVIOUS
<1>0. n \in Nat BY <1>1, <1>7
<1>8. /\ q \in Seq(Frame) /\ Len(q) = n + 1 /\ n \in Nat /\ q[n + 1] = f
      /\ \A k \in 1 .. n : q[k] = p[k]
  <2>2. /\ q \in Seq(Frame) /\ Len(q) = Len(p) + 1 /\ q[Len(p) + 1] = f
        /\ \A k \in 1 .. Len(p) : q[k] = p[k]
    BY <1>1, AppendOK
  <2> QED BY <1>0, <1>7, <2>2
<1>9. /\ tt \in Seq(StackFrame) /\ Len(tt) = n + 1 /\ tt[n + 1] = g
      /\ \A k \in 1 .. n : tt[k] = st[k]
  <2>1. g \in StackFrame /\ st \in Seq(StackFrame) BY <1>1, <1>6
  <2>2. /\ tt \in Seq(StackFrame) /\ Len(tt) = Len(st) + 1 /\ tt[Len(st) + 1] = g
        /\ \A k \in 1 .. Len(st) : tt[k] = st[k]
    BY <2>1, AppendOK
  <2> QED BY <1>1, <1>7, <2>2
<1>10. Count(node) \in Nat /\ End(node, 0) = 1 BY <1>1, OpenEmit
<1>11. FrameOK(text, f, g.node)
  <2>1. 0 <= Count(node) BY <1>10
  <2> QED BY <1>3, <1>4, <1>6, <2>1 DEF FrameOK
<1>12. \A k \in 1 .. n + 1 : k \in 1 .. n \/ k = n + 1 BY <1>0
<1>13. \A k \in 1 .. n + 1 : FrameOK(text, q[k], tt[k].node)
  <2>1. \A k \in 1 .. n : FrameOK(text, p[k], st[k].node) BY <1>7 DEF Framed
  <2> QED BY <1>8, <1>9, <1>11, <1>12, <2>1
<1>14. ASSUME NEW k \in 2 .. n + 1
       PROVE  Following(q[k - 1], q[k].node, q[k].at, tt[k].key) /\ NewKey(q[k - 1])
  <2>1. CASE k = n + 1
    <3>1. k - 1 = n /\ n \in 1 .. n /\ n # 0 BY <1>0, <2>1
    <3>2. Following(p[n], node, at, key) /\ NewKey(p[n])
      BY <1>7, <3>1, Zenon DEF Coming
    <3> QED BY <1>3, <1>6, <1>8, <1>9, <2>1, <3>1, <3>2
  <2>2. CASE k # n + 1
    <3>1. k \in 2 .. n /\ k \in 1 .. n /\ k - 1 \in 1 .. n BY <1>0, <2>2
    <3>2. Following(p[k - 1], p[k].node, p[k].at, st[k].key) /\ NewKey(p[k - 1])
      BY <1>7, <3>1 DEF Framed
    <3> QED BY <1>8, <1>9, <3>1, <3>2
  <2> QED BY <2>1, <2>2
<1>15. q[1].node = root /\ q[1].at = 0
  <2>1. CASE n = 0
    <3>1. q[1] = f
      <4>1. n + 1 = 1 BY <2>1
      <4> QED BY <1>8, <4>1, Zenon
    <3> QED BY <1>3, <1>7, <2>1, <3>1 DEF Coming
  <2>2. CASE n # 0
    <3>1. q[1] = p[1]
      <4>1. 1 \in 1 .. n BY <1>0, <2>2
      <4> QED BY <1>8, <4>1, Zenon
    <3> QED BY <1>7, <2>2, <3>1 DEF Framed
  <2> QED BY <2>1, <2>2
<1>16. Distinct[root] => \A k \in 1 .. n + 1 : Distinct[q[k].node]
  <2>1. Distinct[root] => \A k \in 1 .. n : Distinct[p[k].node] BY <1>7 DEF Framed
  <2> QED BY <1>3, <1>8, <1>12, <2>1
<1>17. Framed(root, text, tt, q)
  BY <1>8, <1>9, <1>13, <1>14, <1>15, <1>16 DEF Framed
<1>18. Len(q) # 0 /\ Reached(q[Len(q)]) = at + 1
  <2>1. Len(q) = n + 1 /\ q[Len(q)] = f BY <1>8, Zenon
  <2>2. n + 1 # 0 BY <1>0
  <2>3. Reached(f) = at + 1 BY <1>3, <1>10, Zenon DEF Reached
  <2> QED BY <2>1, <2>2, <2>3, Zenon
<1> QED BY <1>17, <1>18

(* A list or dict is closed: it is the element that comes next in the one  *)
(* around it.                                                              *)
LEMMA PopOK ==
  ASSUME NEW root, NEW text, NEW st, NEW p, Framed(root, text, st, p), Len(p) # 0,
         NEW q, Shorter(q, p), NEW rest, Shorter(rest, st)
  PROVE  /\ Framed(root, text, rest, q)
         /\ Coming(root, q, p[Len(p)].node, p[Len(p)].at, st[Len(st)].key)
<1>1. p \in Seq(Frame) /\ st \in Seq(StackFrame) /\ Len(p) = Len(st) BY DEF Framed
<1>2. PICK n : n = Len(p) OBVIOUS
<1>3. /\ q \in Seq(Frame) /\ Len(q) = n - 1 /\ n \in Nat /\ \A k \in 1 .. n - 1 : q[k] = p[k]
  <2>1. /\ q \in Seq(Frame) /\ Len(q) = Len(p) - 1 /\ Len(p) \in Nat
        /\ \A k \in 1 .. Len(p) - 1 : q[k] = p[k]
    BY <1>1, FrontOK
  <2> QED BY <1>2, <2>1
<1>4. /\ rest \in Seq(StackFrame) /\ Len(rest) = n - 1 /\ \A k \in 1 .. n - 1 : rest[k] = st[k]
  <2> QED BY <1>1, <1>2, FrontOK
<1>5. n - 1 \in Nat /\ n \in 1 .. n /\ \A k \in 1 .. n - 1 : k \in 1 .. n BY <1>2, <1>3
<1>6. \A k \in 1 .. n - 1 : FrameOK(text, q[k], rest[k].node)
  BY <1>2, <1>3, <1>4, <1>5 DEF Framed
<1>7. \A k \in 2 .. n : /\ Following(p[k - 1], p[k].node, p[k].at, st[k].key)
                        /\ NewKey(p[k - 1])
  BY <1>2 DEF Framed
<1>8. ASSUME NEW k \in 2 .. n - 1
      PROVE  Following(q[k - 1], q[k].node, q[k].at, rest[k].key) /\ NewKey(q[k - 1])
  <2>1. k \in 2 .. n /\ k \in 1 .. n - 1 /\ k - 1 \in 1 .. n - 1 BY <1>3
  <2> QED BY <1>3, <1>4, <1>7, <2>1
<1>9. p[1].node = root /\ p[1].at = 0 BY DEF Framed
<1>10. n - 1 # 0 => q[1].node = root /\ q[1].at = 0 BY <1>3, <1>5, <1>9
<1>11. Distinct[root] => \A k \in 1 .. n - 1 : Distinct[q[k].node]
  BY <1>2, <1>3, <1>5 DEF Framed
<1>12. Framed(root, text, rest, q)
  BY <1>3, <1>4, <1>6, <1>8, <1>10, <1>11 DEF Framed
<1>13. Coming(root, q, p[n].node, p[n].at, st[n].key)
  <2>1. CASE n = 1 BY <1>3, <1>9, <2>1 DEF Coming
  <2>2. CASE n # 1
    <3>1. n \in 2 .. n /\ n - 1 \in 1 .. n - 1 /\ Len(q) # 0 BY <1>2, <1>3, <2>2
    <3>2. Following(p[n - 1], p[n].node, p[n].at, st[n].key) /\ NewKey(p[n - 1])
      BY <1>7, <3>1
    <3> QED BY <1>3, <3>1, <3>2 DEF Coming
  <2> QED BY <2>1, <2>2
<1> QED BY <1>1, <1>2, <1>12, <1>13

(* An element is complete: the list or dict around it has a part more.     *)
LEMMA AdvanceOK ==
  ASSUME NEW root, NEW text, NEW st, NEW p, Framed(root, text, st, p), Len(p) # 0,
         NEW node, NEW at, NEW key, Coming(root, p, node, at, key), Distinct[node],
         NEW q, Changed(q, p, OneOn(p[Len(p)])),
         NEW g, Filled(g, st[Len(st)], key, Meaning[node]),
         NEW tt, Changed(tt, st, g)
  PROVE  /\ Framed(root, text, tt, q)
         /\ Len(q) # 0 /\ Reached(q[Len(q)]) = at + Len(Emit[node])
<1>1. p \in Seq(Frame) /\ st \in Seq(StackFrame) /\ Len(p) = Len(st) BY DEF Framed
<1>2. PICK n : n = Len(p) OBVIOUS
<1>3. n \in Nat /\ n \in 1 .. n /\ Len(st) = n BY <1>1, <1>2
<1>4. PICK f, v : f = p[n] /\ v = st[n].node OBVIOUS
<1>5. f \in Frame
  <2>1. n \in DOMAIN p BY <1>1, <1>2, <1>3
  <2> QED BY <1>1, <1>4, <2>1, ElementOf
<1>6. /\ Composite(f.node) /\ Occurs(text, f.at, f.node) /\ f.done <= Count(f.node)
      /\ Gathered(v, f.node, f.done) /\ Separate(f.node, f.done)
  <2>1. FrameOK(text, p[n], st[n].node) BY <1>2, <1>3 DEF Framed
  <2> QED BY <1>4, <2>1 DEF FrameOK
<1>7. /\ f.done < Count(f.node) /\ node = Kid(f.node, f.done + 1)
      /\ key = Label(f.node, f.done + 1) /\ at = Reached(f) + Lead(f.node) /\ NewKey(f)
  <2>1. Following(p[n], node, at, key) /\ NewKey(p[n]) BY <1>2, <1>3, Zenon DEF Coming
  <2> QED BY <1>4, <2>1 DEF Following
<1>8. f.node \in Trees /\ f.at \in Nat /\ f.done \in Nat BY <1>5 DEF Frame
<1>9. Count(f.node) \in Nat BY <1>6, <1>8, OpenEmit
<1>10. f.done \in 0 .. Count(f.node) - 1 /\ f.done + 1 \in Nat /\ f.done + 1 <= Count(f.node)
  <2>1. PICK c, d : c = Count(f.node) /\ d = f.done OBVIOUS
  <2>2. c \in Nat /\ d \in Nat /\ d < c BY <1>7, <1>8, <1>9, <2>1
  <2>3. d \in 0 .. c - 1 /\ d + 1 \in Nat /\ d + 1 <= c BY <2>2
  <2> QED BY <2>1, <2>3
<1>11. PICK h : h = OneOn(f) OBVIOUS
<1>12. h \in Frame /\ h.node = f.node /\ h.at = f.at /\ h.done = f.done + 1
  BY <1>8, <1>10, <1>11 DEF OneOn, Frame
<1>13. /\ Gathered(Put(v, key, Meaning[node]), f.node, f.done + 1)
       /\ Separate(f.node, f.done + 1)
  <2>1. Distinct[Kid(f.node, f.done + 1)] BY <1>7
  <2>2. f.node.type = "dict" => \A k \in 1 .. f.done : Label(f.node, k) # Label(f.node, f.done + 1)
    BY <1>7 DEF NewKey
  <2> QED BY <1>6, <1>7, <1>8, <1>10, <2>1, <2>2, PutOK
<1>14. g \in StackFrame /\ g.key = st[n].key /\ g.node = Put(v, key, Meaning[node])
  <2>1. PICK e : e = st[n] OBVIOUS
  <2>2. n \in DOMAIN st BY <1>1, <1>3
  <2>3. e \in StackFrame BY <1>1, <2>1, <2>2, ElementOf
  <2>4. PICK w : w = Put(v, key, Meaning[node]) OBVIOUS
  <2>5. w \in Partial BY <1>13, <2>4 DEF Gathered
  <2>6. g = [e EXCEPT !.node = w] BY <1>3, <1>4, <2>1, <2>4 DEF Filled
  <2> QED BY <2>1, <2>3, <2>4, <2>5, <2>6 DEF StackFrame
<1>15. FrameOK(text, h, g.node) BY <1>6, <1>10, <1>12, <1>13, <1>14 DEF FrameOK
<1>16. q \in Seq(Frame) /\ Len(q) = n /\ q[n] = h /\ \A k \in 1 .. n - 1 : q[k] = p[k]
  <2>1. Changed(q, p, h) BY <1>2, <1>4, <1>11
  <2>2. /\ q \in Seq(Frame) /\ Len(q) = Len(p) /\ q[Len(p)] = h
        /\ \A k \in 1 .. Len(p) - 1 : q[k] = p[k]
    BY <1>1, <1>12, <2>1, ExceptOK
  <2> QED BY <1>2, <2>2
<1>17. tt \in Seq(StackFrame) /\ Len(tt) = n /\ tt[n] = g /\ \A k \in 1 .. n - 1 : tt[k] = st[k]
  <2>1. Len(st) # 0 BY <1>2, <1>3
  <2>3. g \in StackFrame BY <1>14
  <2>2. /\ tt \in Seq(StackFrame) /\ Len(tt) = Len(st) /\ tt[Len(st)] = g
        /\ \A k \in 1 .. Len(st) - 1 : tt[k] = st[k]
    BY <1>1, <2>1, <2>3, ExceptOK
  <2> QED BY <1>3, <2>2
<1>18. \A k \in 1 .. n : k \in 1 .. n - 1 \/ k = n BY <1>3
<1>19. \A k \in 1 .. n : FrameOK(text, q[k], tt[k].node)
  <2>1. \A k \in 1 .. n : FrameOK(text, p[k], st[k].node) BY <1>2 DEF Framed
  <2> QED BY <1>15, <1>16, <1>17, <1>18, <2>1
<1>20. \A k \in 1 .. n : q[k].node = p[k].node /\ q[k].at = p[k].at /\ tt[k].key = st[k].key
  BY <1>4, <1>12, <1>14, <1>16, <1>17, <1>18
<1>21. ASSUME NEW k \in 2 .. n
       PROVE  Following(q[k - 1], q[k].node, q[k].at, tt[k].key) /\ NewKey(q[k - 1])
  <2>1. k \in 1 .. n /\ k - 1 \in 1 .. n - 1 BY <1>3
  <2>2. Following(p[k - 1], p[k].node, p[k].at, st[k].key) /\ NewKey(p[k - 1])
    BY <1>2 DEF Framed
  <2> QED BY <1>16, <1>20, <2>1, <2>2
<1>22. q[1].node = root /\ q[1].at = 0
  <2>1. p[1].node = root /\ p[1].at = 0 BY DEF Framed
  <2>2. 1 \in 1 .. n BY <1>2, <1>3
  <2> QED BY <1>20, <2>1, <2>2
<1>23. Distinct[root] => \A k \in 1 .. n : Distinct[q[k].node]
  <2>1. Distinct[root] => \A k \in 1 .. n : Distinct[p[k].node] BY <1>2 DEF Framed
  <2> QED BY <1>20, <2>1
<1>24. Framed(root, text, tt, q)
  BY <1>16, <1>17, <1>19, <1>21, <1>22, <1>23 DEF Framed
<1>25. Reached(h) = at + Len(Emit[node])
  <2>1. Reached(f) \in Nat /\ Reached(f) + Lead(f.node) + Len(Emit[Kid(f.node, f.done + 1)])
                               = f.at + End(f.node, f.done + 1)
    BY <1>5, <1>6, <1>7, NextToken
  <2>2. Reached(h) = f.at + End(f.node, f.done + 1) BY <1>12 DEF Reached
  <2> QED BY <1>7, <2>1, <2>2
<1> QED BY <1>2, <1>16, <1>24, <1>25

(* The element node, at its place at in the text, is next after here tokens. *)
ComesNext(root, text, p, here, node, at, key) ==
  LET dict == Len(p) # 0 /\ p[Len(p)].node.type = "dict"
  IN  /\ Occurs(text, at, node)
      /\ IF Len(p) = 0 THEN node = root /\ at = 0
         ELSE Following(p[Len(p)], node, at, key)
      /\ at + 1 = here + (IF dict THEN 1 ELSE 0)
      /\ dict => text[here].t = "s" /\ text[here].s = key
      /\ ~dict => key = NoKey
      /\ Distinct[root] => Distinct[node] /\ (Len(p) # 0 => NewKey(p[Len(p)]))

(* What decode finds where it is. *)
LEMMA ComingOK ==
  ASSUME NEW root \in Trees, NEW text, text = Emit[root], NEW st, NEW p,
         Framed(root, text, st, p),
         NEW here, here = (IF Len(p) = 0 THEN 0 ELSE Reached(p[Len(p)])) + 1
  PROVE  /\ here \in Nat \ {0} /\ here <= Len(text)
         /\ \/ /\ Len(p) # 0 /\ text[here].t = "e"
               /\ p[Len(p)].done = Count(p[Len(p)].node)
               /\ here = p[Len(p)].at + Len(Emit[p[Len(p)].node])
            \/ \E node \in Trees, at \in Nat, key \in Names \cup {NoKey} :
                 ComesNext(root, text, p, here, node, at, key)
<1>0. USE DEF ComesNext
<1>1. CASE Len(p) = 0
  <2>1. here = 1 BY <1>1
  <2>2. Len(text) \in Nat /\ Len(text) >= 1 BY EmitLength
  <2>3. Occurs(text, 0, root) BY <2>2 DEF Occurs
  <2>4. 0 + 1 = here + 0 /\ 0 \in Nat BY <2>1
  <2> QED BY <1>1, <2>1, <2>2, <2>3, <2>4
<1>2. CASE Len(p) # 0
  <2>1. p \in Seq(Frame) BY DEF Framed
  <2>2. PICK n, f : n = Len(p) /\ f = p[n] OBVIOUS
  <2>3. n \in DOMAIN p /\ n \in 1 .. n BY <1>2, <2>1, <2>2
  <2>4. f \in Frame BY <2>1, <2>2, <2>3, ElementOf
  <2>5. Composite(f.node) /\ f.done <= Count(f.node) /\ Occurs(text, f.at, f.node)
    BY <2>2, <2>3 DEF Framed, FrameOK
  <2>6. Distinct[root] => Distinct[f.node] BY <2>2, <2>3 DEF Framed
  <2>7. f.node \in Trees /\ f.done \in Nat BY <2>4 DEF Frame
  <2>8. Count(f.node) \in Nat /\ Lead(f.node) \in {0, 1} BY <2>5, <2>7, OpenEmit
  <2>9. here = Reached(f) + 1 BY <1>2, <2>2
  <2>10. /\ Reached(f) \in Nat /\ Reached(f) + 1 <= Len(text)
         /\ f.done = Count(f.node) =>
              /\ text[Reached(f) + 1].t = "e"
              /\ Reached(f) + 1 = f.at + Len(Emit[f.node])
         /\ f.done < Count(f.node) =>
              LET kid == Kid(f.node, f.done + 1)
                  at  == Reached(f) + Lead(f.node)
              IN  /\ Occurs(text, at, kid)
                  /\ f.node.type = "dict" => /\ text[Reached(f) + 1].t = "s"
                                             /\ text[Reached(f) + 1].s = Label(f.node, f.done + 1)
    BY <2>4, <2>5, NextToken
  <2>11. here \in Nat \ {0} /\ here <= Len(text) BY <2>9, <2>10
  <2>12. CASE f.done = Count(f.node) BY <1>2, <2>2, <2>9, <2>10, <2>11, <2>12
  <2>13. CASE f.done # Count(f.node)
    <3>1. PICK k : k = f.done + 1 OBVIOUS
    <3>2. f.done < Count(f.node) /\ k \in 1 .. Count(f.node) /\ k - 1 = f.done
      <4>1. PICK c, d : c = Count(f.node) /\ d = f.done OBVIOUS
      <4>2. c \in Nat /\ d \in Nat /\ d <= c /\ d # c BY <2>5, <2>7, <2>8, <2>13, <4>1
      <4>3. d < c /\ d + 1 \in 1 .. c /\ (d + 1) - 1 = d BY <4>2
      <4> QED BY <3>1, <4>1, <4>3
    <3>3. PICK node, at, key : /\ node = Kid(f.node, k) /\ at = Reached(f) + Lead(f.node)
                               /\ key = Label(f.node, k)
      OBVIOUS
    <3>4. Occurs(text, at, node) /\ Following(f, node, at, key)
      BY <2>10, <3>1, <3>2, <3>3 DEF Following
    <3>5. node \in Trees /\ at \in Nat BY <3>4 DEF Occurs
    <3>6. key \in Names \cup {NoKey} /\ (f.node.type # "dict" => key = NoKey)
      <4>1. CASE f.node.type = "dict" BY <2>5, <2>7, <3>2, <3>3, <4>1, KidEmit
      <4>2. CASE f.node.type = "list" BY <3>3, <4>2 DEF Label
      <4> QED BY <2>5, <4>1, <4>2 DEF Composite
    <3>7. at + 1 = here + (IF f.node.type = "dict" THEN 1 ELSE 0)
      <4>1. Lead(f.node) = IF f.node.type = "dict" THEN 1 ELSE 0
        BY <2>5 DEF Lead, Composite
      <4> QED BY <2>9, <2>10, <3>3, <4>1
    <3>8. f.node.type = "dict" => text[here].t = "s" /\ text[here].s = key
      BY <2>9, <2>10, <3>1, <3>2, <3>3
    <3>9. Distinct[root] => Distinct[node] /\ NewKey(f)
      <4>1. SUFFICES ASSUME Distinct[root] PROVE Distinct[node] /\ NewKey(f) OBVIOUS
      <4>2. Distinct[f.node] BY <2>6, <4>1
      <4>3. /\ Distinct[Kid(f.node, k)]
            /\ f.node.type = "dict" => \A j \in 1 .. k - 1 : Label(f.node, j) # Label(f.node, k)
        BY <2>5, <2>7, <3>2, <4>2, DistinctParts
      <4> QED BY <3>1, <3>2, <3>3, <4>3 DEF NewKey
    <3> QED BY <1>2, <2>2, <2>11, <3>4, <3>5, <3>6, <3>7, <3>8, <3>9
  <2> QED BY <2>12, <2>13
<1> QED BY <1>1, <1>2

-----------------------------------------------------------------------------
(* decode.                                                                 *)

Text == Emit[source.tree]

SourceOK == source.tree \in Trees /\ source.cut \in Nat

InputOK ==
  /\ Len(input) \in Nat /\ Len(input) <= Len(Text)
  /\ Len(input) = Len(Text) <=> Whole
  /\ \A k \in 1 .. Len(input) : input[k] = Text[k]

Reading ==
  \E p : /\ Framed(source.tree, Text, stack, p)
         /\ pos = (IF Len(p) = 0 THEN 0 ELSE Reached(p[Len(p)])) + 1

(* decode is where it is in the file for the lists and dicts it has open,  *)
(* each of which holds what the file has for it up to there.               *)
DecodeInv ==
  /\ phase # "done" => SourceOK /\ InputOK
  /\ pos \in Nat \ {0} /\ pos <= Len(input) + 1
  /\ phase = "decode" => Reading
  /\ DecodesAsWritten

LEMMA CompleteOK ==
  ASSUME SourceOK, InputOK, phase = "decode",
         NEW rest, NEW p, Framed(source.tree, Text, rest, p),
         NEW node, NEW at, NEW key, Coming(source.tree, p, node, at, key),
         Occurs(Text, at, node), Distinct[node],
         Complete(rest, key, Meaning[node]),
         pos' = at + Len(Emit[node]) + 1, pos' <= Len(input) + 1, source' = source, input' = input
  PROVE  DecodeInv'
<1>1. p \in Seq(Frame) /\ rest \in Seq(StackFrame) /\ Len(p) = Len(rest) BY DEF Framed
<1>2. SourceOK' /\ InputOK' /\ Text' = Text BY DEF SourceOK, InputOK, Text, Whole
<1>3. at \in Nat /\ node \in Trees BY DEF Occurs
<1>4. Len(Emit[node]) \in Nat /\ Len(Emit[node]) >= 1 BY <1>3, EmitLength
<1>5. pos' \in Nat \ {0} /\ pos' <= Len(input') + 1 BY <1>3, <1>4
<1>6. CASE Len(p) = 0
  <2>1. rest = <<>> BY <1>1, <1>6, Empty
  <2>2. phase' = "info" /\ value' = Meaning[node] /\ node = source.tree /\ at = 0
    BY <1>6, <2>1 DEF Complete, Coming
  <2>3. Len(Text) \in Nat /\ Len(Text) + 1 <= Len(input) + 1
    BY <1>4, <2>2 DEF Text
  <2>4. Whole' BY <2>3 DEF InputOK, Whole
  <2>5. DecodesAsWritten' BY <2>2, <2>4 DEF DecodesAsWritten, Decoded
  <2> QED BY <1>2, <1>5, <2>2, <2>5 DEF DecodeInv
<1>7. CASE Len(p) # 0
  <2>1. PICK n, x : n = Len(rest) /\ x = Meaning[node] OBVIOUS
  <2>2. rest # <<>> /\ n \in Nat \ {0} BY <1>1, <1>7, <2>1
  <2>3. /\ stack' = [rest EXCEPT ![n].node = Put(@, key, x)]
        /\ phase' = "decode"
    BY <2>1, <2>2 DEF Complete
  <2>4. PICK g : Filled(g, rest[n], key, x) BY DEF Filled
  <2>5. Changed(stack', rest, g) BY <2>1, <2>3, <2>4 DEF Filled, Changed
  <2>6. PICK q : Changed(q, p, OneOn(p[Len(p)])) BY DEF Changed
  <2>7. /\ Framed(source.tree, Text, stack', q)
        /\ Len(q) # 0 /\ Reached(q[Len(q)]) = at + Len(Emit[node])
    BY <1>7, <2>1, <2>4, <2>5, <2>6, AdvanceOK
  <2>8. Reading' BY <1>2, <2>7, Zenon DEF Reading
  <2>9. DecodesAsWritten' BY <2>3 DEF DecodesAsWritten, Decoded
  <2> QED BY <1>2, <1>5, <2>3, <2>8, <2>9 DEF DecodeInv
<1> QED BY <1>6, <1>7

(* The top of the stack is the last frame's. *)
LEMMA TopOK ==
  ASSUME NEW p, Framed(source.tree, Text, stack, p)
  PROVE  /\ InDict <=> Len(p) # 0 /\ p[Len(p)].node.type = "dict"
         /\ stack = <<>> <=> Len(p) = 0
         /\ Len(p) # 0 => /\ Top = stack[Len(p)] /\ Len(stack) = Len(p)
                          /\ p[Len(p)] \in Frame /\ Top \in StackFrame
                          /\ FrameOK(Text, p[Len(p)], Top.node)
<1>1. p \in Seq(Frame) /\ stack \in Seq(StackFrame) /\ Len(p) = Len(stack) BY DEF Framed
<1>2. CASE Len(p) = 0
  <2>1. stack = <<>> BY <1>1, <1>2, Empty
  <2> QED BY <1>2, <2>1 DEF InDict
<1>3. CASE Len(p) # 0
  <2>1. PICK n : n = Len(p) OBVIOUS
  <2>2. n \in 1 .. n /\ n \in DOMAIN p /\ n \in DOMAIN stack BY <1>1, <1>3, <2>1
  <2>3. stack # <<>> /\ Top = stack[n] /\ Len(stack) = n BY <1>1, <1>3, <2>1 DEF Top
  <2>4. p[n] \in Frame /\ stack[n] \in StackFrame BY <1>1, <2>2, ElementOf
  <2>5. FrameOK(Text, p[n], stack[n].node) BY <2>1, <2>2 DEF Framed
  <2>6. stack[n].node.type = p[n].node.type BY <2>5 DEF FrameOK, Gathered
  <2> QED BY <1>3, <2>1, <2>3, <2>4, <2>5, <2>6 DEF InDict
<1> QED BY <1>2, <1>3

(* A key that is not in the map was not read before. *)
LEMMA NewKeyOK ==
  ASSUME NEW f \in Frame, NEW v, FrameOK(Text, f, v), NEW key,
         f.node.type = "dict" => key = Label(f.node, f.done + 1) /\ ~Has(v, key)
  PROVE  NewKey(f)
<1>1. SUFFICES ASSUME f.node.type = "dict", NEW k \in 1 .. f.done, Label(f.node, k) = key
               PROVE  FALSE
  BY DEF NewKey
<1>2. f.node \in Trees /\ f.done \in Nat /\ Composite(f.node) /\ f.done <= Count(f.node)
  BY DEF Frame, FrameOK
<1>3. Count(f.node) \in Nat BY <1>2, OpenEmit
<1>4. k \in 1 .. Count(f.node)
  <2>1. PICK c, d : c = Count(f.node) /\ d = f.done OBVIOUS
  <2>2. c \in Nat /\ d \in Nat /\ d <= c /\ k \in 1 .. d BY <1>2, <1>3, <2>1
  <2>3. k \in 1 .. c BY <2>2
  <2> QED BY <2>1, <2>3
<1>5. Kid(f.node, k) \in Trees BY <1>2, <1>4, KidEmit
<1>6. v.type = "dict" /\ v.map[Label(f.node, k)] = Meaning[Kid(f.node, k)]
  BY <1>1 DEF FrameOK, Gathered
<1>7. Meaning[Kid(f.node, k)] # Absent BY <1>5, MeaningTyped, ValuesPresent
<1> QED BY <1>1, <1>6, <1>7 DEF Has

LEMMA ElementOK ==
  ASSUME DecodeInv, phase = "decode", ElementFollows
  PROVE  \E p, at : \E node \in Trees :
           /\ Framed(source.tree, Text, stack, p)
           /\ Coming(source.tree, p, node, at, Key) /\ Key \in Names \cup {NoKey}
           /\ Occurs(Text, at, node)
           /\ Distinct[source.tree] => Distinct[node]
           /\ At = at + 1 /\ At <= Len(input) /\ input[At] = Emit[node][1]
<1>1. SourceOK /\ InputOK /\ Reading BY DEF DecodeInv
<1>2. PICK p : /\ Framed(source.tree, Text, stack, p)
               /\ pos = (IF Len(p) = 0 THEN 0 ELSE Reached(p[Len(p)])) + 1
  BY <1>1 DEF Reading
<1> DEFINE dict == Len(p) # 0 /\ p[Len(p)].node.type = "dict"
<1>3. pos <= Len(input) /\ input[pos].t # "e" /\ pos \in Nat \ {0}
  BY DEF ElementFollows, DecodeInv
<1>4. input[pos] = Text[pos] BY <1>1, <1>3 DEF InputOK
<1>5. source.tree \in Trees BY <1>1 DEF SourceOK
<1>6. PICK node \in Trees, at \in Nat, key \in Names \cup {NoKey} :
        /\ Occurs(Text, at, node)
        /\ IF Len(p) = 0 THEN node = source.tree /\ at = 0
           ELSE Following(p[Len(p)], node, at, key)
        /\ at + 1 = pos + (IF dict THEN 1 ELSE 0)
        /\ dict => Text[pos].t = "s" /\ Text[pos].s = key
        /\ ~dict => key = NoKey
        /\ Distinct[source.tree] => Distinct[node] /\ (Len(p) # 0 => NewKey(p[Len(p)]))
  <2>1. PICK text, here, root, st : text = Text /\ here = pos /\ root = source.tree /\ st = stack
    OBVIOUS
  <2>2. /\ root \in Trees /\ text = Emit[root] /\ Framed(root, text, st, p)
        /\ here = (IF Len(p) = 0 THEN 0 ELSE Reached(p[Len(p)])) + 1
    BY <1>2, <1>5, <2>1 DEF Text
  <2>3. text[here].t # "e" BY <1>3, <1>4, <2>1
  <2>4. \E node \in Trees, at \in Nat, key \in Names \cup {NoKey} :
          ComesNext(root, text, p, here, node, at, key)
    BY <2>2, <2>3, ComingOK
  <2> QED BY <2>1, <2>4, Zenon DEF ComesNext
<1>7. InDict <=> dict BY <1>2, TopOK
<1>8. Key = key
  <2>1. CASE dict BY <1>4, <1>6, <1>7, <2>1 DEF Key
  <2>2. CASE ~dict BY <1>6, <1>7, <2>2, Zenon DEF Key, NoKey
  <2> QED BY <2>1, <2>2
<1>9. At = at + 1
  <2>1. CASE dict BY <1>3, <1>6, <1>7, <2>1 DEF At
  <2>2. CASE ~dict BY <1>3, <1>6, <1>7, <2>2 DEF At
  <2> QED BY <2>1, <2>2
<1>10. At <= Len(input)
  <2>1. CASE InDict BY <2>1 DEF ElementFollows
  <2>2. CASE ~InDict BY <1>3, <2>2 DEF At
  <2> QED BY <2>1, <2>2
<1>11. input[At] = Emit[node][1]
  <2>1. Len(Emit[node]) >= 1 /\ Len(Emit[node]) \in Nat BY EmitLength
  <2>2. Text[at + 1] = Emit[node][1] BY <1>6, <2>1 DEF Occurs
  <2>3. input[At] = Text[At] BY <1>1, <1>6, <1>9, <1>10 DEF InputOK
  <2> QED BY <1>9, <2>2, <2>3
<1>12. Coming(source.tree, p, node, at, key)
  <2>1. CASE Len(p) = 0 BY <1>6, <2>1 DEF Coming
  <2>2. CASE Len(p) # 0
    <3>1. PICK f : f = p[Len(p)] OBVIOUS
    <3>2. f \in Frame /\ FrameOK(Text, f, Top.node) BY <1>2, <2>2, <3>1, TopOK
    <3>3. Following(f, node, at, key) BY <1>6, <2>2, <3>1
    <3>4. f.node.type = "dict" => key = Label(f.node, f.done + 1) /\ ~Has(Top.node, key)
      BY <1>7, <1>8, <2>2, <3>1, <3>3 DEF ElementFollows, Following
    <3>5. NewKey(f) BY <3>2, <3>4, NewKeyOK
    <3> QED BY <2>2, <3>1, <3>3, <3>5 DEF Coming
  <2> QED BY <2>1, <2>2
<1>13. Distinct[source.tree] => Distinct[node] BY <1>6
<1> QED BY <1>2, <1>6, <1>8, <1>9, <1>10, <1>11, <1>12, <1>13

LEMMA ComesNextOK ==
  ASSUME NEW root, NEW text, NEW p, NEW here \in Nat, NEW node, NEW at, NEW key,
         ComesNext(root, text, p, here, node, at, key)
  PROVE  /\ text[here].t # "e"
         /\ at \in Nat /\ at + 1 <= Len(text) /\ text[at + 1].t # "e"
<1>1. Occurs(text, at, node) BY DEF ComesNext
<1>2. node \in Trees /\ at \in Nat /\ at + Len(Emit[node]) <= Len(text) BY <1>1 DEF Occurs
<1>3. Len(Emit[node]) >= 1 /\ Len(Emit[node]) \in Nat BY <1>2, EmitLength
<1>4. text[at + 1] = Emit[node][1] BY <1>1, <1>3 DEF Occurs
<1>5. Emit[node][1].t # "e" BY <1>2, FirstToken
<1>6. at + 1 <= Len(text)
  <2>1. PICK n, m : n = Len(Emit[node]) /\ m = Len(text) OBVIOUS
  <2>2. n \in Nat /\ n >= 1 /\ at + n <= m BY <1>2, <1>3, <2>1
  <2>3. CASE m \in Int BY <1>2, <2>1, <2>2, <2>3
  <2>4. CASE m \notin Int BY <1>1, <2>1, <2>4 DEF Occurs
  <2> QED BY <2>3, <2>4
<1>7. text[here].t # "e"
  <2>1. CASE Len(p) # 0 /\ p[Len(p)].node.type = "dict" BY <2>1 DEF ComesNext
  <2>2. CASE ~(Len(p) # 0 /\ p[Len(p)].node.type = "dict")
    <3>1. at + 1 = here + 0 BY <2>2 DEF ComesNext
    <3> QED BY <1>2, <1>4, <1>5, <3>1
  <2> QED BY <2>1, <2>2
<1> QED BY <1>2, <1>4, <1>5, <1>6, <1>7

LEMMA CloseDecode == ASSUME DecodeInv, CloseContainer PROVE DecodeInv'
<1>1. SourceOK /\ InputOK /\ Reading /\ phase = "decode" BY DEF DecodeInv, CloseContainer
<1>2. PICK p : /\ Framed(source.tree, Text, stack, p)
               /\ pos = (IF Len(p) = 0 THEN 0 ELSE Reached(p[Len(p)])) + 1
  BY <1>1 DEF Reading
<1>3. pos <= Len(input) /\ input[pos].t = "e" /\ pos \in Nat \ {0} /\ stack # <<>>
  BY DEF CloseContainer, DecodeInv
<1>4. Text[pos].t = "e" BY <1>1, <1>3 DEF InputOK
<1>5. Len(p) # 0 /\ Top = stack[Len(stack)] BY <1>2, <1>3, TopOK
<1>6. PICK f : f = p[Len(p)] OBVIOUS
<1>7. f \in Frame /\ FrameOK(Text, f, Top.node) BY <1>2, <1>5, <1>6, TopOK
<1>8. f.node \in Trees /\ Composite(f.node) /\ Occurs(Text, f.at, f.node)
  BY <1>7 DEF Frame, FrameOK
<1>9. f.done = Count(f.node) /\ pos = f.at + Len(Emit[f.node])
  <2>1. PICK text, here, root, st : text = Text /\ here = pos /\ root = source.tree /\ st = stack
    OBVIOUS
  <2>2. /\ root \in Trees /\ text = Emit[root] /\ Framed(root, text, st, p)
        /\ here = (IF Len(p) = 0 THEN 0 ELSE Reached(p[Len(p)])) + 1
    BY <1>1, <1>2, <2>1 DEF Text, SourceOK
  <2>3. ~ \E node \in Trees, at \in Nat, key \in Names \cup {NoKey} :
            ComesNext(root, text, p, here, node, at, key)
    BY <1>3, <1>4, <2>1, ComesNextOK
  <2>4. p[Len(p)].done = Count(p[Len(p)].node) /\ here = p[Len(p)].at + Len(Emit[p[Len(p)].node])
    BY <2>2, <2>3, ComingOK
  <2> QED BY <1>6, <2>1, <2>4
<1>10. Top.node = Meaning[f.node] /\ Distinct[f.node]
  <2>1. Gathered(Top.node, f.node, Count(f.node)) /\ Separate(f.node, Count(f.node))
    BY <1>7, <1>9 DEF FrameOK
  <2> QED BY <1>8, <2>1, ClosedOK
<1>11. PICK q, rest : Shorter(q, p) /\ Shorter(rest, stack) BY DEF Shorter
<1>12. /\ Framed(source.tree, Text, rest, q)
       /\ Coming(source.tree, q, f.node, f.at, Top.key)
  BY <1>2, <1>5, <1>6, <1>11, PopOK
<1>13. Complete(rest, Top.key, Meaning[f.node])
  BY <1>10, <1>11 DEF CloseContainer, Shorter
<1>14. /\ pos' = f.at + Len(Emit[f.node]) + 1 /\ pos' <= Len(input) + 1
       /\ source' = source /\ input' = input
  BY <1>1, <1>3, <1>9 DEF CloseContainer, InputOK
<1> QED BY <1>1, <1>8, <1>10, <1>12, <1>13, <1>14, CompleteOK

LEMMA ScalarDecode == ASSUME DecodeInv, StoreScalar PROVE DecodeInv'
<1>1. SourceOK /\ InputOK /\ phase = "decode" /\ ElementFollows
  BY DEF DecodeInv, StoreScalar, ElementFollows
<1>2. PICK p, at : \E node \in Trees :
        /\ Framed(source.tree, Text, stack, p)
        /\ Coming(source.tree, p, node, at, Key) /\ Key \in Names \cup {NoKey}
        /\ Occurs(Text, at, node)
        /\ Distinct[source.tree] => Distinct[node]
        /\ At = at + 1 /\ At <= Len(input) /\ input[At] = Emit[node][1]
  BY <1>1, ElementOK
<1>3. PICK node \in Trees :
        /\ Framed(source.tree, Text, stack, p)
        /\ Coming(source.tree, p, node, at, Key)
        /\ Occurs(Text, at, node)
        /\ At = at + 1 /\ At <= Len(input) /\ input[At] = Emit[node][1]
  BY <1>2
<1>4. ~Composite(node)
  <2>1. Emit[node][1].t \in {"i", "s"} BY <1>3 DEF StoreScalar
  <2> QED BY <2>1, FirstToken DEF Composite
<1>5. Distinct[node] BY <1>4, FunctionsAre DEF DistinctBody, Composite
<1>6. (IF input[At].t = "i" THEN Number(input[At].n) ELSE Str(input[At].s)) = Meaning[node]
  <2>1. CASE node.type = "integer"
    <3>1. Emit[node][1].t = "i" /\ Emit[node][1].n = node.n BY <2>1, FirstToken
    <3>2. Meaning[node] = Number(node.n) BY <1>4, <2>1, ScalarEmit
    <3> QED BY <1>3, <3>1, <3>2
  <2>2. CASE node.type # "integer"
    <3>1. /\ node.type = "string" /\ Emit[node][1].t = "s" /\ Emit[node][1].s = node.s
      BY <1>4, <2>2, FirstToken DEF Composite
    <3>2. Meaning[node] = Str(node.s) BY <1>4, <2>2, ScalarEmit
    <3> QED BY <1>3, <3>1, <3>2
  <2> QED BY <2>1, <2>2
<1>7. Complete(stack, Key, Meaning[node]) BY <1>6 DEF StoreScalar
<1>8. at \in Nat /\ Len(Emit[node]) = 1 BY <1>3, <1>4, ScalarEmit DEF Occurs
<1>9. /\ pos' = at + Len(Emit[node]) + 1 /\ pos' <= Len(input) + 1
      /\ source' = source /\ input' = input
  <2>1. pos' = At + 1 BY DEF StoreScalar
  <2>2. pos' = at + 1 + 1 BY <1>3, <2>1
  <2>3. pos' <= Len(input) + 1 BY <1>1, <1>3, <1>8, <2>1 DEF InputOK
  <2> QED BY <1>8, <2>2, <2>3 DEF StoreScalar
<1> QED BY <1>1, <1>3, <1>5, <1>7, <1>9, CompleteOK

LEMMA OpenDecode == ASSUME DecodeInv, OpenContainer PROVE DecodeInv'
<1>1. SourceOK /\ InputOK /\ phase = "decode" /\ ElementFollows
  BY DEF DecodeInv, OpenContainer, ElementFollows
<1>2. PICK p, at : \E node \in Trees :
        /\ Framed(source.tree, Text, stack, p)
        /\ Coming(source.tree, p, node, at, Key) /\ Key \in Names \cup {NoKey}
        /\ Occurs(Text, at, node)
        /\ Distinct[source.tree] => Distinct[node]
        /\ At = at + 1 /\ At <= Len(input) /\ input[At] = Emit[node][1]
  BY <1>1, ElementOK
<1>3. PICK node \in Trees :
        /\ Framed(source.tree, Text, stack, p)
        /\ Coming(source.tree, p, node, at, Key) /\ Key \in Names \cup {NoKey}
        /\ Occurs(Text, at, node)
        /\ Distinct[source.tree] => Distinct[node]
        /\ At = at + 1 /\ At <= Len(input) /\ input[At] = Emit[node][1]
  BY <1>2
<1>4. Composite(node) /\ (input[At].t = "l" <=> node.type = "list")
  <2>1. Emit[node][1].t \in {"l", "d"} BY <1>3 DEF OpenContainer
  <2> QED BY <1>3, <2>1, FirstToken DEF Composite
<1>5. at \in Nat BY <1>3 DEF Occurs
<1>6. PICK f : f = [node |-> node, at |-> at, done |-> 0] OBVIOUS
<1>7. f \in Frame /\ f.node = node /\ f.at = at /\ f.done = 0 BY <1>5, <1>6 DEF Frame
<1>8. PICK k, v : k = Key /\ v = Fresh(node) OBVIOUS
<1>9. v \in Partial
  <2>1. node.type \in {"list", "dict"} BY <1>4 DEF Composite
  <2>2. Gathered(v, node, 0) BY <1>8, <2>1, FreshOK DEF Fresh
  <2> QED BY <2>2 DEF Gathered
<1>10. PICK g : g = [key |-> k, node |-> v] OBVIOUS
<1>11. g \in StackFrame /\ g.key = k /\ g.node = v
  <2>1. k \in Names \cup {NoKey} BY <1>3, <1>8
  <2> QED BY <1>9, <1>10, <2>1 DEF StackFrame
<1>12. PICK q : Added(q, p, f) BY DEF Added
<1>13. Added(stack', stack, g)
  <2>1. v = IF input[At].t = "l" THEN List(<<>>) ELSE Dict(NoEntries)
    BY <1>4, <1>8 DEF Fresh
  <2> QED BY <1>8, <1>10, <2>1, Zenon DEF OpenContainer, Added
<1>14. Framed(source.tree, Text, stack', q) /\ Len(q) # 0 /\ Reached(q[Len(q)]) = at + 1
  BY <1>3, <1>4, <1>7, <1>8, <1>11, <1>12, <1>13, OpenOK
<1>15. /\ source' = source /\ input' = input /\ phase' = phase /\ value' = value
       /\ pos' = At + 1
  BY DEF OpenContainer
<1>16. SourceOK' /\ InputOK' /\ Text' = Text BY <1>1, <1>15 DEF SourceOK, InputOK, Text, Whole
<1>17. Reading' BY <1>3, <1>14, <1>15, <1>16, Zenon DEF Reading
<1>18. pos' \in Nat \ {0} /\ pos' <= Len(input') + 1
  BY <1>1, <1>3, <1>5, <1>15 DEF InputOK
<1>19. DecodesAsWritten' BY <1>1, <1>15 DEF DecodesAsWritten, Decoded
<1> QED BY <1>1, <1>15, <1>16, <1>17, <1>18, <1>19 DEF DecodeInv

(* What is there whole and has no key twice is not rejected. *)
LEMMA ErrorDecode == ASSUME DecodeInv, DecodeError PROVE DecodeInv'
<1>1. SourceOK /\ InputOK /\ Reading /\ phase = "decode" BY DEF DecodeInv, DecodeError
<1>2. ASSUME Whole, Distinct[source.tree] PROVE FALSE
  <2>1. PICK p : /\ Framed(source.tree, Text, stack, p)
                 /\ pos = (IF Len(p) = 0 THEN 0 ELSE Reached(p[Len(p)])) + 1
    BY <1>1 DEF Reading
  <2>2. PICK text, here, root, st : text = Text /\ here = pos /\ root = source.tree /\ st = stack
    OBVIOUS
  <2>3. /\ root \in Trees /\ text = Emit[root] /\ Framed(root, text, st, p)
        /\ here = (IF Len(p) = 0 THEN 0 ELSE Reached(p[Len(p)])) + 1
    BY <1>1, <2>1, <2>2 DEF Text, SourceOK
  <2>4. Len(input) = Len(Text) /\ Len(Text) \in Nat
        /\ \A k \in 1 .. Len(Text) : input[k] = Text[k]
    BY <1>1, <1>2 DEF InputOK
  <2>5. here \in Nat \ {0} /\ here <= Len(text) BY <2>3, ComingOK
  <2>6. pos <= Len(input) /\ input[pos] = Text[pos] BY <2>2, <2>4, <2>5
  <2>7. ~(Len(p) # 0 /\ text[here].t = "e")
    BY <1>1, <2>1, <2>2, <2>6, TopOK DEF DecodeError
  <2>8. PICK node \in Trees, at \in Nat, key \in Names \cup {NoKey} :
          ComesNext(root, text, p, here, node, at, key)
    BY <2>3, <2>7, ComingOK
  <2>9. /\ text[here].t # "e"
        /\ at + 1 <= Len(text) /\ text[at + 1].t # "e"
    BY <2>5, <2>8, ComesNextOK
  <2>10. InDict <=> Len(p) # 0 /\ p[Len(p)].node.type = "dict" BY <2>1, TopOK
  <2>11. At = at + 1
    <3>1. CASE InDict BY <2>2, <2>5, <2>8, <2>10, <3>1 DEF At, ComesNext
    <3>2. CASE ~InDict BY <2>2, <2>5, <2>8, <2>10, <3>2 DEF At, ComesNext
    <3> QED BY <3>1, <3>2
  <2>12. input[At] = text[at + 1] /\ At <= Len(input) BY <2>2, <2>4, <2>9, <2>11
  <2>13. ASSUME InDict PROVE input[pos].t = "s" /\ ~Has(Top.node, Key)
    <3>1. text[here].t = "s" /\ text[here].s = key BY <2>8, <2>10, <2>13 DEF ComesNext
    <3>2. Key = key BY <2>2, <2>6, <2>13, <3>1 DEF Key
    <3>3. PICK f : f = p[Len(p)] OBVIOUS
    <3>4. f \in Frame /\ FrameOK(Text, f, Top.node) BY <2>1, <2>10, <2>13, <3>3, TopOK
    <3>5. Following(f, node, at, key) /\ NewKey(f)
      BY <1>2, <2>2, <2>8, <2>10, <2>13, <3>3 DEF ComesNext
    <3>6. f.node.type = "dict" BY <2>10, <2>13, <3>3
    <3>7. /\ f.node \in Trees /\ f.done \in Nat /\ Composite(f.node)
          /\ Gathered(Top.node, f.node, f.done)
      BY <3>4 DEF Frame, FrameOK
    <3>8. f.done < Count(f.node) /\ Count(f.node) \in Nat /\ key = Label(f.node, f.done + 1)
      BY <3>5, <3>7, OpenEmit DEF Following
    <3>9. PICK k : k = f.done + 1 OBVIOUS
    <3>10. k \in 1 .. Count(f.node)
      <4>1. PICK c, d : c = Count(f.node) /\ d = f.done OBVIOUS
      <4>2. c \in Nat /\ d \in Nat /\ d < c BY <3>7, <3>8, <4>1
      <4>3. d + 1 \in 1 .. c BY <4>2
      <4> QED BY <3>9, <4>1, <4>3
    <3>11. key \in Names BY <3>6, <3>7, <3>8, <3>9, <3>10, KidEmit
    <3>12. Has(Top.node, key) => \E j \in 1 .. f.done : Label(f.node, j) = key
      BY <3>6, <3>7, <3>11 DEF Gathered, Has
    <3>13. \A j \in 1 .. f.done : Label(f.node, j) # key BY <3>5, <3>6, <3>8 DEF NewKey
    <3> QED BY <2>2, <2>6, <3>1, <3>2, <3>12, <3>13
  <2>14. ElementFollows
    BY <1>1, <2>2, <2>6, <2>9, <2>12, <2>13 DEF ElementFollows
  <2> QED BY <2>14 DEF DecodeError
<1>3. /\ source' = source /\ input' = input /\ phase' = "rejected" /\ pos' = pos
  BY DEF DecodeError
<1>4. SourceOK' /\ InputOK' BY <1>1, <1>3 DEF SourceOK, InputOK, Text, Whole
<1>5. DecodesAsWritten' BY <1>2, <1>3 DEF DecodesAsWritten, Decoded, Whole
<1> QED BY <1>3, <1>4, <1>5 DEF DecodeInv

(* The rest of parseMetaFile leaves what decode returned. *)
ParseRest == ReadInfo \/ ReadFile \/ FilesRead \/ ReadSingle \/ TakeSize \/ CreateFiles

LEMMA RestDecode == ASSUME DecodeInv, ParseRest PROVE DecodeInv'
<1>1. /\ source' = source /\ input' = input /\ pos' = pos /\ value' = value
      /\ Decoded /\ phase' \in {"terminated"} \cup {"files", "single", "size", "create", "ready"}
  <2>1. CASE ReadInfo BY <2>1 DEF ReadInfo, Decoded
  <2>2. CASE ReadFile BY <2>2 DEF ReadFile, GiveUpFiles, Decoded
  <2>3. CASE FilesRead BY <2>3 DEF FilesRead, GiveUpFiles, Decoded
  <2>4. CASE ReadSingle BY <2>4 DEF ReadSingle, Decoded
  <2>5. CASE TakeSize BY <2>5 DEF TakeSize, Decoded
  <2>6. CASE CreateFiles BY <2>6 DEF CreateFiles, Decoded
  <2> QED BY <2>1, <2>2, <2>3, <2>4, <2>5, <2>6 DEF ParseRest
<1>2. SourceOK /\ InputOK BY <1>1 DEF DecodeInv, Decoded
<1>3. SourceOK' /\ InputOK' BY <1>1, <1>2 DEF SourceOK, InputOK, Text, Whole
<1>4. DecodesAsWritten' BY <1>1 DEF DecodeInv, DecodesAsWritten, Decoded, Whole
<1> QED BY <1>1, <1>3, <1>4 DEF DecodeInv

LEMMA InitDecode == ParseInit => DecodeInv
<1> SUFFICES ASSUME ParseInit PROVE DecodeInv OBVIOUS
<1>1. SourceOK
  <2>1. source \in Sources BY DEF ParseInit
  <2> QED BY <2>1, MetaInfoAssumption DEF SourceOK
<1>2. Text \in Seq(Tokens) /\ Len(Text) \in Nat BY <1>1, EmitTyped, EmitLength DEF SourceOK, Text
<1>3. PICK t, c : t = Text /\ c = source.cut OBVIOUS
<1>4. input = SubSeq(t, 1, Len(t) - c) /\ c \in Nat /\ Len(t) \in Nat /\ t \in Seq(Tokens)
  BY <1>1, <1>2, <1>3 DEF ParseInit, SourceOK, Text
<1>5. /\ Len(input) \in Nat /\ Len(input) <= Len(t)
      /\ Len(input) = Len(t) <=> c = 0
      /\ \A k \in 1 .. Len(input) : input[k] = t[k]
  <2>1. Len(t) >= 1 BY <1>1, <1>3, EmitLength DEF SourceOK, Text
  <2>2. CASE c <= Len(t)
    <3>1. Len(input) = Len(t) - c BY <1>4, <2>2
    <3> QED BY <1>4, <2>2, <3>1
  <2>3. CASE c > Len(t)
    <3>1. Len(input) = 0 BY <1>4, <2>3
    <3> QED BY <1>4, <2>1, <2>3, <3>1
  <2> QED BY <1>4, <2>2, <2>3
<1>6. InputOK BY <1>3, <1>5 DEF InputOK, Whole
<1>7. Framed(source.tree, Text, stack, <<>>)
  <2>1. PICK p : p = <<>> OBVIOUS
  <2>2. stack = p BY <2>1 DEF ParseInit
  <2>3. p \in Seq(Frame) /\ p \in Seq(StackFrame) /\ Len(p) = 0 BY <2>1
  <2>4. Framed(source.tree, Text, stack, p) BY <2>2, <2>3 DEF Framed
  <2> QED BY <2>1, <2>4
<1>8. phase = "decode" /\ pos = 1 BY DEF ParseInit
<1>9. Reading
  <2>1. PICK p : p = <<>> OBVIOUS
  <2>2. Framed(source.tree, Text, stack, p) /\ Len(p) = 0 BY <1>7, <2>1
  <2>3. pos = (IF Len(p) = 0 THEN 0 ELSE Reached(p[Len(p)])) + 1 BY <1>8, <2>2
  <2> QED BY <2>2, <2>3 DEF Reading
<1>10. DecodesAsWritten BY <1>8 DEF DecodesAsWritten, Decoded
<1> QED BY <1>1, <1>5, <1>6, <1>8, <1>9, <1>10 DEF DecodeInv

LEMMA DoneDecode == ASSUME Start PROVE DecodeInv'
<1>1. phase' = "done" /\ pos' = 1 /\ input' = <<>> BY DEF Start, Forget
<1>2. DecodesAsWritten' BY <1>1 DEF DecodesAsWritten, Decoded
<1> QED BY <1>1, <1>2 DEF DecodeInv

LEMMA SameDecode == ASSUME DecodeInv, UNCHANGED metaVars PROVE DecodeInv'
<1>1. /\ source' = source /\ input' = input /\ pos' = pos /\ value' = value
      /\ phase' = phase /\ stack' = stack
  BY DEF metaVars
<1> QED
  BY <1>1 DEF DecodeInv, DecodesAsWritten, Decoded, SourceOK, InputOK, Text, Reading, Whole

LEMMA StepDecode == ASSUME DecodeInv, [Next]_allVars PROVE DecodeInv'
<1>1. CASE CloseContainer BY <1>1, CloseDecode
<1>2. CASE StoreScalar BY <1>2, ScalarDecode
<1>3. CASE OpenContainer BY <1>3, OpenDecode
<1>4. CASE DecodeError BY <1>4, ErrorDecode
<1>5. CASE ParseRest BY <1>5, RestDecode
<1>6. CASE Start BY <1>6, DoneDecode
<1>7. CASE UNCHANGED metaVars BY <1>7, SameDecode
<1>8. UNCHANGED allVars => UNCHANGED metaVars BY DEF allVars
<1> QED
  BY <1>1, <1>2, <1>3, <1>4, <1>5, <1>6, <1>7, <1>8 DEF Next, ParseNext, ParseRest, Quiet

(* decode is right: the value of every file there is whole, with no key    *)
(* twice in a dict, is the one its author meant, at any depth of lists and *)
(* dicts; and every other file is rejected.                                *)
THEOREM DecodedAsWritten == Spec => []DecodesAsWritten
<1>1. Init => DecodeInv BY InitDecode DEF Init
<1>2. DecodeInv /\ [Next]_allVars => DecodeInv' BY StepDecode
<1>3. DecodeInv => DecodesAsWritten BY DEF DecodeInv
<1> QED BY <1>1, <1>2, <1>3, PTL DEF Spec

-----------------------------------------------------------------------------
(* parseMetaFile.                                                          *)

LEMMA KeysOK ==
  {"files", "info", "length", "name", "path", "piece length", "pieces"} \subseteq Names
BY MetaInfoAssumption

LEMMA NumberOK == \A n \in Nat : Number(n) \in Values /\ Number(n).type = "integer" /\ Number(n).n = n
<1>1. \A n \in Nat : Number(n) \in Simple BY DEF Number, Simple
<1>2. Simple \subseteq Values
  <2>1. 0 \in 0 .. Depth /\ ValuesTo[0] = Simple BY ValuesToAre
  <2> QED BY <2>1, LevelsWithin
<1> QED BY <1>1, <1>2 DEF Number

(* What is in a value. *)
LEMMA InsideOK ==
  ASSUME NEW v \in Values
  PROVE  /\ v.type \in {"integer", "string", "list", "dict"}
         /\ v.type = "integer" => v.n \in Nat
         /\ v.type = "string" => v.s \in STRING
         /\ v.type = "list" => v.items \in Seq(Values)
         /\ v.type = "dict" => /\ v.map \in [Names -> Values \cup {Absent}] /\ v = Dict(v.map)
                               /\ \A key \in Names : Get(v, key) \in Values
<1>1. v \in ValueLevel(Values) BY TreesUnfold
<1>2. 0 \in Nat OBVIOUS
<1>3. Number(0) \in Values BY <1>2, NumberOK
<1> QED BY <1>1, <1>3, SimpleOrMore DEF Get, Has

(* operator[] adds nothing that a second look-up does not find as well. *)
LEMMA TouchedOK ==
  ASSUME NEW node \in Values, node.type = "dict", NEW key \in Names
  PROVE  /\ Touched(node, key) \in DictsOf(Values) /\ Touched(node, key).type = "dict"
         /\ \A other \in Names : Get(Touched(node, key), other) = Get(node, other)
<1>1. node.map \in [Names -> Values \cup {Absent}] /\ node = Dict(node.map)
      /\ Get(node, key) \in Values
  BY InsideOK
<1>2. PICK map, v : map = node.map /\ v = Get(node, key) OBVIOUS
<1>3. PICK next : next = [map EXCEPT ![key] = v] OBVIOUS
<1>4. next \in [Names -> Values \cup {Absent}] BY <1>1, <1>2, <1>3
<1>5. Touched(node, key) = Dict(next)
  <2>1. Dict(map).type = "dict" /\ Dict(map).map = map BY DEF Dict
  <2>2. Touched(node, key) = [Dict(map) EXCEPT !.map[key] = v]
    BY <1>1, <1>2, <2>1 DEF Touched, Put
  <2> QED BY <1>3, <2>2 DEF Dict
<1>6. Dict(next) \in DictsOf(Values) /\ Dict(next).type = "dict" /\ Dict(next).map = next
  BY <1>4 DEF DictsOf, Dict
<1>7. ASSUME NEW other \in Names PROVE Get(Dict(next), other) = Get(node, other)
  <2>1. CASE other = key
    <3>1. next[key] = v /\ v # Absent BY <1>1, <1>2, <1>3, ValuesPresent
    <3> QED BY <1>2, <1>6, <2>1, <3>1 DEF Get, Has
  <2>2. CASE other # key
    <3>1. next[other] = map[other] BY <1>1, <1>2, <1>3, <2>2
    <3> QED BY <1>2, <1>6, <3>1 DEF Get, Has
  <2> QED BY <2>1, <2>2
<1> QED BY <1>5, <1>6, <1>7

Trk == [mode : {"SINGLE", "MULTIPLE"}, pieceLength : Nat, length : Nat, length_list : Seq(Nat),
        path_list : Seq(Seq(STRING)), name : STRING \cup {NoKey}, no_of_pieces : Nat]

Summed(l, n) == \E s : Sums(l, s, Len(l)) /\ n = s[Len(l)]

AllReadable(list) == list.type = "list" /\ \A k \in DOMAIN list.items : Readable(list.items[k])

(* The info dictionary that was meant, with a piece length. *)
InfoTaken ==
  phase \in {"files", "single", "size", "create", "ready"} =>
    LET node == InfoOf(value)
    IN  /\ node.type = "dict" /\ info = Touched(node, "piece length")
        /\ Get(node, "piece length").type = "integer"
        /\ trk.pieceLength = Get(node, "piece length").n

(* The files read so far. *)
FilesTaken ==
  trk.mode = "MULTIPLE" =>
    /\ Len(trk.path_list) = Len(trk.length_list)
    /\ Summed(trk.length_list, trk.length)
    /\ phase \in {"decode", "info"} => Len(trk.length_list) = 0
    /\ phase \in {"files", "size", "create", "ready"} =>
         \A k \in 1 .. Len(trk.length_list) :
           /\ FileList.type = "list" /\ k \in DOMAIN FileList.items
           /\ Readable(FileList.items[k])
           /\ trk.length_list[k] = Get(FileList.items[k], "length").n
    /\ phase \in {"size", "create", "ready"} =>
         FileList.type = "list" /\ Len(trk.length_list) = Len(FileList.items)

(* What is taken for one file could not be read as several. *)
SingleTaken ==
  trk.mode = "SINGLE" =>
    /\ phase = "single" => ~AllReadable(FileList) \/ Get(info, "name").type # "string"
    /\ phase \in {"size", "create", "ready"} =>
         ~AllReadable(FileList) /\ trk.length = Get(info, "length").n

PiecesTaken ==
  phase \in {"create", "ready"} =>
    /\ trk.pieceLength > 0
    /\ trk.no_of_pieces = (trk.length + trk.pieceLength - 1) \div trk.pieceLength

ParseTypes ==
  /\ \/ Decoded
     \/ phase \in {"decode", "rejected", "terminated", "single", "done"}
  /\ stack \in Seq(StackFrame)
  /\ value \in Values /\ info \in DictsOf(Values)
  /\ trk \in Trk /\ Len(trk.path_list) <= Len(trk.length_list)
  /\ phase \in {"decode", "info", "files"} => trk.mode = "MULTIPLE"
  /\ phase = "single" => trk.mode = "SINGLE"

GeometryInv == ParseTypes /\ InfoTaken /\ FilesTaken /\ SingleTaken /\ PiecesTaken

LEMMA SummedMore ==
  ASSUME NEW l \in Seq(Nat), NEW n, Summed(l, n), NEW x \in Nat, NEW t, Added(t, l, x)
  PROVE  Summed(t, n + x)
<1>1. PICK m : m = Len(l) OBVIOUS
<1>2. m \in Nat BY <1>1
<1>3. PICK s : Sums(l, s, m) /\ n = s[m] BY <1>1 DEF Summed
<1>4. t \in Seq(Nat) /\ Len(t) = m + 1 /\ t[m + 1] = x /\ \A k \in 1 .. m : t[k] = l[k]
  <2>1. /\ t \in Seq(Nat) /\ Len(t) = Len(l) + 1 /\ t[Len(l) + 1] = x
        /\ \A k \in 1 .. Len(l) : t[k] = l[k]
    BY DEF Added
  <2> QED BY <1>1, <2>1
<1> DEFINE r == [k \in 0 .. m + 1 |-> IF k = m + 1 THEN s[m] + x ELSE s[k]]
<1>5. ASSUME NEW k \in 0 .. m + 1 PROVE r[k] = IF k = 0 THEN 0 ELSE r[k - 1] + t[k]
  <2>1. \A j \in 0 .. m : r[j] = s[j] /\ s[j] = IF j = 0 THEN 0 ELSE s[j - 1] + l[j]
    BY <1>2, <1>3 DEF Sums
  <2>2. CASE k = m + 1
    <3>1. k - 1 = m /\ m \in 0 .. m /\ k # 0 /\ t[k] = x BY <1>2, <1>4, <2>2
    <3>2. r[k] = s[m] + x /\ r[m] = s[m] BY <2>1, <2>2, <3>1
    <3> QED BY <3>1, <3>2
  <2>3. CASE k # m + 1
    <3>1. k \in 0 .. m /\ (k # 0 => k - 1 \in 0 .. m /\ k \in 1 .. m) BY <1>2, <2>3
    <3> QED BY <1>4, <2>1, <3>1
  <2> QED BY <2>2, <2>3
<1>6. Sums(t, r, Len(t)) BY <1>4, <1>5 DEF Sums
<1>7. r[Len(t)] = n + x
  <2>1. m + 1 \in 0 .. m + 1 BY <1>2
  <2>2. r[m + 1] = s[m] + x BY <2>1
  <2> QED BY <1>3, <1>4, <2>2
<1> QED BY <1>6, <1>7 DEF Summed

LEMMA SummedNone == ASSUME NEW l \in Seq(Nat), Len(l) = 0 PROVE Summed(l, 0)
<1>1. PICK m : m = Len(l) OBVIOUS
<1>2. m \in Nat /\ m = 0 BY <1>1
<1>3. PICK s : Sums(l, s, m) BY <1>2, SumsExist
<1>4. s[m] = 0 BY <1>2, <1>3 DEF Sums
<1> QED BY <1>1, <1>3, <1>4 DEF Summed

LEMMA SummedPositive ==
  ASSUME NEW l \in Seq(Nat), NEW n, Summed(l, n), n # 0
  PROVE  \E f \in DOMAIN l : l[f] > 0
<1>1. PICK s : Sums(l, s, Len(l)) /\ n = s[Len(l)] BY DEF Summed
<1>2. /\ s[0] = 0 /\ \A k \in 0 .. Len(l) : s[k] \in Nat
      /\ \A k \in 1 .. Len(l) : l[k] \in Nat /\ s[k] = s[k - 1] + l[k]
  BY <1>1, SumsOK
<1>3. Len(l) \in Nat OBVIOUS
<1> DEFINE Bad == { k \in 0 .. Len(l) : s[k] # 0 }
<1>4. Bad # {} /\ Bad \subseteq Nat BY <1>1, <1>3
<1> HIDE DEF Bad
<1>5. PICK k \in Bad : \A j \in Bad : k <= j BY <1>4, LeastNumber
<1> USE DEF Bad
<1>6. k \in 1 .. Len(l) BY <1>2, <1>3, <1>5
<1>7. k - 1 \in 0 .. Len(l) /\ k - 1 \notin Bad BY <1>3, <1>5, <1>6
<1>8. l[k] > 0 BY <1>2, <1>5, <1>6, <1>7
<1> QED BY <1>6, <1>8

Element == CloseContainer \/ StoreScalar \/ OpenContainer \/ DecodeError

LEMMA ElementGeometry ==
  ASSUME GeometryInv, DecodeInv, DecodeInv', Element
  PROVE  GeometryInv'
<1>1. /\ source' = source /\ info' = info /\ trk' = trk
      /\ phase = "decode" /\ phase' \in {"decode", "info", "rejected"}
      /\ phase' = "rejected" => stack' = stack
      /\ phase' = "info" => stack' = <<>>
      /\ phase' # "info" => value' = value
  <2>1. CASE CloseContainer BY <2>1 DEF CloseContainer, Complete
  <2>2. CASE StoreScalar BY <2>2 DEF StoreScalar, Complete, ElementFollows
  <2>3. CASE OpenContainer BY <2>3 DEF OpenContainer, ElementFollows
  <2>4. CASE DecodeError BY <2>4 DEF DecodeError
  <2> QED BY <2>1, <2>2, <2>3, <2>4 DEF Element
<1>2. stack' \in Seq(StackFrame)
  <2>1. CASE phase' = "decode"
    <3>1. Reading' BY <2>1 DEF DecodeInv
    <3> QED BY <3>1 DEF Reading, Framed
  <2>2. CASE phase' = "info"
    <3>1. <<>> \in Seq(StackFrame) OBVIOUS
    <3> QED BY <1>1, <2>2, <3>1, Zenon
  <2>3. CASE phase' = "rejected" BY <1>1, <2>3 DEF GeometryInv, ParseTypes
  <2> QED BY <1>1, <2>1, <2>2, <2>3
<1>3. value' \in Values
  <2>1. CASE phase' = "info"
    <3>1. value' = Meaning[source.tree] BY <1>1, <2>1 DEF DecodeInv, DecodesAsWritten, Decoded
    <3>2. source.tree \in Trees BY <1>1 DEF DecodeInv, SourceOK
    <3> QED BY <3>1, <3>2, MeaningTyped
  <2>2. CASE phase' # "info" BY <1>1, <2>2 DEF GeometryInv, ParseTypes
  <2> QED BY <2>1, <2>2
<1>4. ParseTypes' BY <1>1, <1>2, <1>3 DEF GeometryInv, ParseTypes, Decoded
<1>5. InfoTaken' /\ PiecesTaken' /\ SingleTaken'
  BY <1>1 DEF InfoTaken, PiecesTaken, SingleTaken
<1>6. FilesTaken' BY <1>1 DEF GeometryInv, FilesTaken
<1> QED BY <1>4, <1>5, <1>6 DEF GeometryInv

LEMMA ReadInfoGeometry == ASSUME GeometryInv, ReadInfo PROVE GeometryInv'
<1>1. /\ value \in Values /\ trk \in Trk /\ phase = "info" /\ trk.mode = "MULTIPLE"
      /\ value' = value /\ stack' = stack /\ stack \in Seq(StackFrame)
      /\ Len(trk.path_list) <= Len(trk.length_list) /\ info \in DictsOf(Values)
  BY DEF GeometryInv, ParseTypes, ReadInfo
<1>2. /\ Len(trk.path_list) = Len(trk.length_list) /\ Summed(trk.length_list, trk.length)
      /\ Len(trk.length_list) = 0
  BY <1>1 DEF GeometryInv, FilesTaken
<1>3. PICK node : node = InfoOf(value) OBVIOUS
<1>4. node \in Values
  <2>1. 0 \in Nat OBVIOUS
  <2>2. Number(0) \in Values BY <2>1, NumberOK
  <2> QED BY <1>1, <1>3, <2>2, InsideOK, KeysOK DEF InfoOf
<1>5. InfoOf(value') = node BY <1>1, <1>3
<1>6. CASE /\ node.type = "dict"
           /\ Get(node, "piece length").type = "integer"
           /\ Get(node, "pieces").type = "string"
  <2>1. PICK n : n = Get(node, "piece length").n OBVIOUS
  <2>2. /\ info' = Touched(node, "piece length") /\ phase' = "files"
        /\ trk' = [trk EXCEPT !.pieceLength = n]
    BY <1>3, <1>6, <2>1 DEF ReadInfo
  <2>3. n \in Nat BY <1>4, <1>6, <2>1, InsideOK, KeysOK
  <2>4. info' \in DictsOf(Values) BY <1>4, <1>6, <2>2, TouchedOK, KeysOK
  <2>5. /\ trk' \in Trk /\ trk'.mode = trk.mode /\ trk'.path_list = trk.path_list
        /\ trk'.length_list = trk.length_list /\ trk'.length = trk.length /\ trk'.pieceLength = n
    BY <1>1, <2>2, <2>3 DEF Trk
  <2>6. ParseTypes' BY <1>1, <2>2, <2>4, <2>5 DEF ParseTypes, Decoded
  <2>7. InfoTaken' BY <1>5, <1>6, <2>1, <2>2, <2>5 DEF InfoTaken
  <2>8. FilesTaken'
    <3>1. \A k \in 1 .. Len(trk'.length_list) : FALSE BY <1>2, <2>5
    <3> QED BY <1>2, <2>2, <2>5, <3>1 DEF FilesTaken
  <2>9. SingleTaken' /\ PiecesTaken' BY <1>1, <2>2, <2>5 DEF SingleTaken, PiecesTaken
  <2> QED BY <2>6, <2>7, <2>8, <2>9 DEF GeometryInv
<1>7. CASE ~ /\ node.type = "dict"
             /\ Get(node, "piece length").type = "integer"
             /\ Get(node, "pieces").type = "string"
  <2>1. phase' = "terminated" /\ info' = info /\ trk' = trk BY <1>3, <1>7 DEF ReadInfo
  <2>2. ParseTypes' BY <1>1, <2>1 DEF ParseTypes
  <2>3. FilesTaken' BY <1>2, <2>1 DEF FilesTaken
  <2> QED BY <2>1, <2>2, <2>3 DEF GeometryInv, InfoTaken, SingleTaken, PiecesTaken
<1> QED BY <1>6, <1>7

LEMMA FileListOK ==
  ASSUME GeometryInv
  PROVE  /\ FileList.type \in {"integer", "string", "list", "dict"}
         /\ FileList.type = "list" => FileList.items \in Seq(Values)
<1>1. info \in DictsOf(Values) BY DEF GeometryInv, ParseTypes
<1>2. 0 \in Nat OBVIOUS
<1>3. Number(0) \in Values BY <1>2, NumberOK
<1>4. info.map \in [Names -> Values \cup {Absent}] BY <1>1 DEF DictsOf
<1>5. FileList \in Values BY <1>3, <1>4, KeysOK DEF FileList, Get, Has
<1> QED BY <1>5, InsideOK

LEMMA ReadFileGeometry == ASSUME GeometryInv, ReadFile PROVE GeometryInv'
<1>1. /\ value \in Values /\ trk \in Trk /\ phase = "files" /\ trk.mode = "MULTIPLE"
      /\ value' = value /\ stack' = stack /\ stack \in Seq(StackFrame)
      /\ info' = info /\ info \in DictsOf(Values)
  BY DEF GeometryInv, ParseTypes, ReadFile
<1>2. /\ Len(trk.path_list) = Len(trk.length_list) /\ Summed(trk.length_list, trk.length)
      /\ \A k \in 1 .. Len(trk.length_list) :
           /\ FileList.type = "list" /\ k \in DOMAIN FileList.items
           /\ Readable(FileList.items[k])
           /\ trk.length_list[k] = Get(FileList.items[k], "length").n
  BY <1>1 DEF GeometryInv, FilesTaken
<1>3. PICK l, m, items : l = trk.length_list /\ m = Len(l) /\ items = FileList.items OBVIOUS
<1>4. l \in Seq(Nat) /\ trk.path_list \in Seq(Seq(STRING)) /\ trk.length \in Nat /\ m \in Nat
  BY <1>1, <1>3 DEF Trk
<1>5. FileList.type = "list" /\ items \in Seq(Values) /\ m < Len(items)
  BY <1>2, <1>3, FileListOK DEF ReadFile
<1>6. m + 1 \in DOMAIN items /\ m + 1 \in 1 .. Len(items) BY <1>4, <1>5
<1>7. PICK f : f = items[m + 1] OBVIOUS
<1>8. f \in Values BY <1>5, <1>6, <1>7, ElementOf
<1>9. f.type = "dict" => Get(f, "length") \in Values /\ Get(f, "path") \in Values
  BY <1>8, InsideOK, KeysOK
<1>10. PICK n, t : n = Get(f, "length").n /\ t = Append(l, n) OBVIOUS
<1>11. PICK lengths :
         lengths = IF f.type = "dict" /\ Get(f, "length").type = "integer" THEN t ELSE l
  OBVIOUS
<1>12. FileList' = FileList BY <1>1 DEF FileList
<1>13. InfoTaken => InfoOf(value).type = "dict" /\ info = Touched(InfoOf(value), "piece length")
                    /\ Get(InfoOf(value), "piece length").type = "integer"
                    /\ trk.pieceLength = Get(InfoOf(value), "piece length").n
  BY <1>1 DEF InfoTaken
<1>14. CASE Readable(f)
  <2>1. n \in Nat /\ Get(f, "path").items \in Seq(Values)
    BY <1>9, <1>10, <1>14, InsideOK DEF Readable
  <2>2. PICK c, paths : c = PathOf(f) /\ Added(paths, trk.path_list, c)
    BY DEF Added
  <2>3. c \in Seq(STRING)
    <3>1. PICK parts : parts = Get(f, "path").items OBVIOUS
    <3>2. parts \in Seq(Values) /\ \A k \in DOMAIN parts : parts[k].type = "string"
      BY <1>14, <2>1, <3>1 DEF Readable
    <3>3. \A k \in DOMAIN parts : parts[k].s \in STRING
      <4>1. SUFFICES ASSUME NEW k \in DOMAIN parts PROVE parts[k].s \in STRING OBVIOUS
      <4>2. parts[k] \in Values BY <3>2, ElementOf
      <4> QED BY <3>2, <4>2, InsideOK
    <3>4. c = [k \in DOMAIN parts |-> parts[k].s] BY <2>2, <3>1 DEF PathOf
    <3> QED BY <3>2, <3>3, <3>4
  <2>4. /\ trk' = [trk EXCEPT !.length_list = t, !.length = trk.length + n, !.path_list = paths]
        /\ phase' = phase
    <3>1. lengths = t BY <1>11, <1>14 DEF Readable
    <3> QED BY <1>2, <1>3, <1>7, <1>10, <1>14, <2>2 DEF ReadFile, Added, Readable
  <2>5. t \in Seq(Nat) /\ Len(t) = m + 1 /\ t[m + 1] = n /\ \A k \in 1 .. m : t[k] = l[k]
    <3>1. Added(t, l, n) BY <1>10 DEF Added
    <3>2. /\ t \in Seq(Nat) /\ Len(t) = Len(l) + 1 /\ t[Len(l) + 1] = n
          /\ \A k \in 1 .. Len(l) : t[k] = l[k]
      BY <1>4, <2>1, <3>1 DEF Added
    <3> QED BY <1>3, <3>2
  <2>6. paths \in Seq(Seq(STRING)) /\ Len(paths) = m + 1
    <3>1. PICK s : s = trk.path_list OBVIOUS
    <3>2. s \in Seq(Seq(STRING)) /\ Added(paths, s, c) BY <1>4, <2>2, <3>1
    <3>3. paths \in Seq(Seq(STRING)) /\ Len(paths) = Len(s) + 1 BY <2>3, <3>2, AppendOK
    <3> QED BY <1>2, <1>3, <3>1, <3>3
  <2>7. /\ trk' \in Trk /\ trk'.mode = trk.mode /\ trk'.path_list = paths
        /\ trk'.length_list = t /\ trk'.length = trk.length + n
        /\ trk'.pieceLength = trk.pieceLength
    <3>1. PICK z : z = trk.length + n OBVIOUS
    <3>2. z \in Nat /\ t \in Seq(Nat) /\ paths \in Seq(Seq(STRING)) BY <1>4, <2>1, <2>5, <2>6, <3>1
    <3>3. trk' = [trk EXCEPT !.length_list = t, !.length = z, !.path_list = paths]
      BY <2>4, <3>1
    <3> QED BY <1>1, <3>1, <3>2, <3>3 DEF Trk
  <2>8. Summed(t, trk.length + n)
    <3>1. Added(t, l, n) BY <1>10 DEF Added
    <3> QED BY <1>2, <1>3, <1>4, <2>1, <3>1, SummedMore
  <2>9. ASSUME NEW k \in 1 .. m + 1
        PROVE  /\ FileList.type = "list" /\ k \in DOMAIN items
               /\ Readable(items[k])
               /\ t[k] = Get(items[k], "length").n
    <3>1. CASE k = m + 1 BY <1>5, <1>6, <1>7, <1>10, <1>14, <2>5, <3>1
    <3>2. CASE k # m + 1
      <4>1. k \in 1 .. m BY <1>4, <3>2
      <4> QED BY <1>2, <1>3, <2>5, <4>1
    <3> QED BY <3>1, <3>2
  <2>10. ParseTypes' BY <1>1, <1>4, <2>4, <2>5, <2>6, <2>7 DEF ParseTypes, Decoded
  <2>11. InfoTaken' BY <1>1, <1>13, <2>4, <2>7 DEF GeometryInv, InfoTaken
  <2>12. FilesTaken'
    BY <1>1, <1>3, <1>12, <2>4, <2>5, <2>6, <2>7, <2>8, <2>9 DEF FilesTaken
  <2>13. SingleTaken' /\ PiecesTaken' BY <1>1, <2>4, <2>7 DEF SingleTaken, PiecesTaken
  <2> QED BY <2>10, <2>11, <2>12, <2>13 DEF GeometryInv
<1>15. CASE ~Readable(f)
  <2>1. trk' = [trk EXCEPT !.mode = "SINGLE", !.length_list = lengths] /\ phase' = "single"
    BY <1>2, <1>3, <1>7, <1>10, <1>11, <1>15 DEF ReadFile, GiveUpFiles
  <2>2. lengths \in Seq(Nat) /\ Len(lengths) >= m
    <3>1. CASE f.type = "dict" /\ Get(f, "length").type = "integer"
      <4>1. n \in Nat BY <1>9, <1>10, <3>1, InsideOK
      <4>2. Added(t, l, n) BY <1>10 DEF Added
      <4>3. t \in Seq(Nat) /\ Len(t) = m + 1
        <5>1. t \in Seq(Nat) /\ Len(t) = Len(l) + 1 BY <1>4, <4>1, <4>2, AppendOK
        <5> QED BY <1>3, <5>1
      <4>4. lengths = t BY <1>11, <3>1
      <4> QED BY <1>4, <4>3, <4>4
    <3>2. CASE ~(f.type = "dict" /\ Get(f, "length").type = "integer")
      BY <1>3, <1>4, <1>11, <3>2
    <3> QED BY <3>1, <3>2
  <2>3. /\ trk' \in Trk /\ trk'.mode = "SINGLE" /\ trk'.path_list = trk.path_list
        /\ trk'.length_list = lengths /\ trk'.pieceLength = trk.pieceLength
    BY <1>1, <2>1, <2>2 DEF Trk
  <2>4. ParseTypes' BY <1>1, <1>2, <1>3, <2>1, <2>2, <2>3 DEF ParseTypes, Decoded
  <2>5. InfoTaken' BY <1>1, <1>13, <2>1, <2>3 DEF GeometryInv, InfoTaken
  <2>6. FilesTaken' /\ PiecesTaken' BY <2>1, <2>3 DEF FilesTaken, PiecesTaken
  <2>7. ~AllReadable(FileList) BY <1>3, <1>6, <1>7, <1>15 DEF AllReadable
  <2>8. SingleTaken' BY <1>12, <2>1, <2>7 DEF SingleTaken
  <2> QED BY <2>4, <2>5, <2>6, <2>8 DEF GeometryInv
<1> QED BY <1>14, <1>15

LEMMA NameOK ==
  ASSUME info \in DictsOf(Values), Get(info, "name").type = "string"
  PROVE  NameRead \in STRING
<1>1. 0 \in Nat OBVIOUS
<1>2. Number(0) \in Values BY <1>1, NumberOK
<1>3. info.map \in [Names -> Values \cup {Absent}] BY DEF DictsOf
<1>4. Get(info, "name") \in Values BY <1>2, <1>3, KeysOK DEF Get, Has
<1> QED BY <1>4, InsideOK DEF NameRead

LEMMA FilesReadGeometry == ASSUME GeometryInv, FilesRead PROVE GeometryInv'
<1>1. /\ trk \in Trk /\ phase = "files" /\ trk.mode = "MULTIPLE"
      /\ value' = value /\ stack' = stack /\ info' = info /\ info \in DictsOf(Values)
  BY DEF GeometryInv, ParseTypes, FilesRead
<1>2. /\ Len(trk.path_list) = Len(trk.length_list) /\ Summed(trk.length_list, trk.length)
      /\ \A k \in 1 .. Len(trk.length_list) :
           /\ FileList.type = "list" /\ k \in DOMAIN FileList.items
           /\ Readable(FileList.items[k])
           /\ trk.length_list[k] = Get(FileList.items[k], "length").n
  BY <1>1 DEF GeometryInv, FilesTaken
<1>3. /\ InfoOf(value).type = "dict" /\ info = Touched(InfoOf(value), "piece length")
      /\ Get(InfoOf(value), "piece length").type = "integer"
      /\ trk.pieceLength = Get(InfoOf(value), "piece length").n
  BY <1>1 DEF GeometryInv, InfoTaken
<1>4. FileList' = FileList BY <1>1 DEF FileList
<1>5. CASE FileList.type = "list" /\ Get(info, "name").type = "string"
  <2>1. phase' = "size" /\ trk' = [trk EXCEPT !.name = NameRead] BY <1>5 DEF FilesRead
  <2>2. Len(trk.length_list) = Len(FileList.items) BY <1>2, <1>5 DEF FilesRead
  <2>7. NameRead \in STRING BY <1>1, <1>5, NameOK
  <2>8. /\ trk' \in Trk /\ trk'.mode = trk.mode /\ trk'.path_list = trk.path_list
        /\ trk'.length_list = trk.length_list /\ trk'.pieceLength = trk.pieceLength
        /\ trk'.length = trk.length
    BY <1>1, <2>1, <2>7 DEF Trk
  <2>3. ParseTypes' BY <1>1, <2>1, <2>8 DEF GeometryInv, ParseTypes, Decoded
  <2>4. InfoTaken' BY <1>1, <1>3, <2>1, <2>8 DEF InfoTaken
  <2>5. FilesTaken' BY <1>2, <1>4, <1>5, <2>1, <2>2, <2>8 DEF FilesTaken
  <2>6. SingleTaken' /\ PiecesTaken' BY <1>1, <2>1, <2>8 DEF SingleTaken, PiecesTaken
  <2> QED BY <2>3, <2>4, <2>5, <2>6 DEF GeometryInv
<1>6. CASE ~(FileList.type = "list" /\ Get(info, "name").type = "string")
  <2>1. phase' = "single" /\ trk' = [trk EXCEPT !.mode = "SINGLE", !.length_list = @]
    BY <1>6 DEF FilesRead, GiveUpFiles
  <2>2. /\ trk' \in Trk /\ trk'.mode = "SINGLE" /\ trk'.path_list = trk.path_list
        /\ trk'.length_list = trk.length_list /\ trk'.pieceLength = trk.pieceLength
    BY <1>1, <2>1 DEF Trk
  <2>3. ParseTypes' BY <1>1, <2>1, <2>2 DEF GeometryInv, ParseTypes
  <2>4. InfoTaken' BY <1>1, <1>3, <2>1, <2>2 DEF InfoTaken
  <2>5. FilesTaken' /\ PiecesTaken' BY <2>1, <2>2 DEF FilesTaken, PiecesTaken
  <2>6. ~AllReadable(FileList) \/ Get(info, "name").type # "string" BY <1>6 DEF AllReadable
  <2>7. SingleTaken' BY <1>1, <1>4, <2>1, <2>6 DEF SingleTaken
  <2> QED BY <2>3, <2>4, <2>5, <2>7 DEF GeometryInv
<1> QED BY <1>5, <1>6

LEMMA ReadSingleGeometry == ASSUME GeometryInv, ReadSingle PROVE GeometryInv'
<1>1. /\ trk \in Trk /\ phase = "single" /\ trk.mode = "SINGLE"
      /\ value' = value /\ stack' = stack /\ info' = info /\ info \in DictsOf(Values)
  BY DEF GeometryInv, ParseTypes, ReadSingle
<1>2. /\ InfoOf(value).type = "dict" /\ info = Touched(InfoOf(value), "piece length")
      /\ Get(InfoOf(value), "piece length").type = "integer"
      /\ trk.pieceLength = Get(InfoOf(value), "piece length").n
  BY <1>1 DEF GeometryInv, InfoTaken
<1>3. ~AllReadable(FileList) \/ Get(info, "name").type # "string"
  BY <1>1 DEF GeometryInv, SingleTaken
<1>4. FileList' = FileList BY <1>1 DEF FileList
<1>5. CASE Get(info, "name").type = "string" /\ Get(info, "length").type = "integer"
  <2>1. PICK n : n = Get(info, "length").n OBVIOUS
  <2>2. phase' = "size" /\ trk' = [trk EXCEPT !.name = NameRead, !.length = n]
    BY <1>5, <2>1 DEF ReadSingle, LengthRead
  <2>9. NameRead \in STRING BY <1>1, <1>5, NameOK
  <2>3. n \in Nat
    <3>1. info.map \in [Names -> Values \cup {Absent}] BY <1>1 DEF DictsOf
    <3>2. 0 \in Nat OBVIOUS
    <3>3. Number(0) \in Values BY <3>2, NumberOK
    <3>4. Get(info, "length") \in Values BY <3>1, <3>3, KeysOK DEF Get, Has
    <3> QED BY <1>5, <2>1, <3>4, InsideOK
  <2>4. /\ trk' \in Trk /\ trk'.mode = "SINGLE" /\ trk'.path_list = trk.path_list
        /\ trk'.length_list = trk.length_list /\ trk'.pieceLength = trk.pieceLength
        /\ trk'.length = n
    BY <1>1, <2>2, <2>3, <2>9 DEF Trk
  <2>5. ParseTypes' BY <1>1, <2>2, <2>4 DEF GeometryInv, ParseTypes, Decoded
  <2>6. InfoTaken' BY <1>1, <1>2, <2>2, <2>4 DEF InfoTaken
  <2>7. FilesTaken' /\ PiecesTaken' BY <2>2, <2>4 DEF FilesTaken, PiecesTaken
  <2>8. SingleTaken' BY <1>1, <1>3, <1>4, <1>5, <2>1, <2>2, <2>4 DEF SingleTaken
  <2> QED BY <2>5, <2>6, <2>7, <2>8 DEF GeometryInv
<1>6. CASE ~(Get(info, "name").type = "string" /\ Get(info, "length").type = "integer")
  <2>1. phase' = "terminated" /\ trk' = trk BY <1>6 DEF ReadSingle
  <2> QED BY <1>1, <2>1 DEF GeometryInv, ParseTypes, Decoded, InfoTaken, FilesTaken, SingleTaken, PiecesTaken
<1> QED BY <1>5, <1>6

LEMMA TakeSizeGeometry == ASSUME GeometryInv, TakeSize PROVE GeometryInv'
<1>1. /\ trk \in Trk /\ phase = "size"
      /\ value' = value /\ stack' = stack /\ info' = info
  BY DEF GeometryInv, ParseTypes, TakeSize
<1>2. /\ InfoOf(value).type = "dict" /\ info = Touched(InfoOf(value), "piece length")
      /\ Get(InfoOf(value), "piece length").type = "integer"
      /\ trk.pieceLength = Get(InfoOf(value), "piece length").n
  BY <1>1 DEF GeometryInv, InfoTaken
<1>3. FileList' = FileList BY <1>1 DEF FileList
<1>4. CASE trk.pieceLength > 0
  <2>1. PICK n, r : Divided(trk.length + trk.pieceLength - 1, trk.pieceLength, n, r)
    BY DEF Divided
  <2>2. phase' = "create" /\ trk' = [trk EXCEPT !.no_of_pieces = n]
    BY <1>4, <2>1 DEF TakeSize, Divided
  <2>3. n \in Nat
    <3>1. PICK d, m : d = trk.pieceLength /\ m = trk.length + trk.pieceLength - 1 OBVIOUS
    <3>2. d \in Nat \ {0} /\ m \in Nat BY <1>1, <1>4, <3>1 DEF Trk
    <3>3. Divided(m, d, n, r) BY <2>1, <3>1
    <3> QED BY <3>2, <3>3, Division
  <2>4. /\ trk' \in Trk /\ trk'.mode = trk.mode /\ trk'.path_list = trk.path_list
        /\ trk'.length_list = trk.length_list /\ trk'.pieceLength = trk.pieceLength
        /\ trk'.length = trk.length /\ trk'.no_of_pieces = n
    BY <1>1, <2>2, <2>3 DEF Trk
  <2>5. ParseTypes' BY <1>1, <2>2, <2>4 DEF GeometryInv, ParseTypes, Decoded
  <2>6. InfoTaken' BY <1>1, <1>2, <2>2, <2>4 DEF InfoTaken
  <2>7. FilesTaken' BY <1>1, <1>3, <2>2, <2>4 DEF GeometryInv, FilesTaken
  <2>8. SingleTaken' BY <1>1, <1>3, <2>2, <2>4 DEF GeometryInv, SingleTaken
  <2>9. PiecesTaken' BY <1>4, <2>1, <2>2, <2>4 DEF PiecesTaken, Divided
  <2> QED BY <2>5, <2>6, <2>7, <2>8, <2>9 DEF GeometryInv
<1>5. CASE ~(trk.pieceLength > 0)
  <2>1. phase' = "terminated" /\ trk' = trk BY <1>5 DEF TakeSize
  <2>2. ParseTypes' /\ InfoTaken' /\ SingleTaken' /\ PiecesTaken'
    BY <1>1, <2>1 DEF GeometryInv, ParseTypes, InfoTaken, SingleTaken, PiecesTaken
  <2>3. FilesTaken' BY <2>1 DEF GeometryInv, FilesTaken
  <2> QED BY <2>2, <2>3 DEF GeometryInv
<1> QED BY <1>4, <1>5

LEMMA CreateFilesGeometry == ASSUME GeometryInv, CreateFiles PROVE GeometryInv'
<1>1. /\ phase = "create" /\ phase' \in {"terminated", "ready"}
      /\ value' = value /\ stack' = stack /\ info' = info /\ trk' = trk
  BY DEF CreateFiles
<1>2. FileList' = FileList BY <1>1 DEF FileList
<1>3. ParseTypes' BY <1>1 DEF GeometryInv, ParseTypes, Decoded
<1>4. InfoTaken' BY <1>1 DEF GeometryInv, InfoTaken
<1>5. FilesTaken' BY <1>1, <1>2 DEF GeometryInv, FilesTaken
<1>6. SingleTaken' BY <1>1, <1>2 DEF GeometryInv, SingleTaken
<1>7. PiecesTaken' BY <1>1 DEF GeometryInv, PiecesTaken
<1> QED BY <1>3, <1>4, <1>5, <1>6, <1>7 DEF GeometryInv

(* At the beginning nothing is taken yet, and when the files are open      *)
(* nothing is kept.                                                        *)
LEMMA NoTrkOK ==
  /\ NoTrk \in Trk /\ NoTrk.mode = "MULTIPLE" /\ Len(NoTrk.length_list) = 0
  /\ Len(NoTrk.path_list) = 0 /\ Summed(NoTrk.length_list, NoTrk.length)
  /\ Dict(NoEntries) \in DictsOf(Values) /\ Number(0) \in Values
<1>1. 0 \in Nat OBVIOUS
<1>2. PICK l : l = <<>> OBVIOUS
<1>3. l \in Seq(Nat) /\ Len(l) = 0 BY <1>2
<1>4. Summed(l, 0) BY <1>3, SummedNone
<1>5. NoEntries \in [Names -> Values \cup {Absent}] BY DEF NoEntries
<1>6. Dict(NoEntries) \in DictsOf(Values) BY <1>5 DEF Dict, DictsOf
<1>7. NoTrk = [mode |-> "MULTIPLE", pieceLength |-> 0, length |-> 0, length_list |-> l,
               path_list |-> l, name |-> NoKey, no_of_pieces |-> 0]
  BY <1>2 DEF NoTrk, NoKey
<1>9. l \in Seq(Seq(STRING)) BY <1>2
<1> QED BY <1>1, <1>3, <1>4, <1>6, <1>7, <1>9, NumberOK DEF Trk

LEMMA InitGeometry == ParseInit => GeometryInv
<1> SUFFICES ASSUME ParseInit PROVE GeometryInv OBVIOUS
<1>1. PICK st : st = stack OBVIOUS
<1>2. st \in Seq(StackFrame) BY <1>1 DEF ParseInit
<1>3. ParseTypes BY <1>1, <1>2, NoTrkOK DEF ParseInit, ParseTypes
<1>4. FilesTaken BY NoTrkOK DEF ParseInit, FilesTaken
<1>5. InfoTaken /\ SingleTaken /\ PiecesTaken
  BY NoTrkOK DEF ParseInit, InfoTaken, SingleTaken, PiecesTaken
<1> QED BY <1>3, <1>4, <1>5 DEF GeometryInv

LEMMA DoneGeometry == ASSUME Start PROVE GeometryInv'
<1>1. /\ phase' = "done" /\ value' = Number(0) /\ info' = Dict(NoEntries) /\ trk' = NoTrk
      /\ stack' = <<>>
  BY DEF Start, Forget
<1>2. stack' \in Seq(StackFrame)
  <2>1. <<>> \in Seq(StackFrame) OBVIOUS
  <2> QED BY <1>1, <2>1, Zenon
<1>3. ParseTypes' BY <1>1, <1>2, NoTrkOK DEF ParseTypes
<1>4. FilesTaken' BY <1>1, NoTrkOK DEF FilesTaken
<1>5. InfoTaken' /\ SingleTaken' /\ PiecesTaken'
  BY <1>1, NoTrkOK DEF InfoTaken, SingleTaken, PiecesTaken
<1> QED BY <1>3, <1>4, <1>5 DEF GeometryInv

LEMMA SameGeometry == ASSUME GeometryInv, UNCHANGED metaVars PROVE GeometryInv'
<1>1. /\ value' = value /\ stack' = stack /\ info' = info /\ trk' = trk /\ phase' = phase
  BY DEF metaVars
<1>2. FileList' = FileList BY <1>1 DEF FileList
<1>3. ParseTypes' BY <1>1 DEF GeometryInv, ParseTypes, Decoded
<1>4. InfoTaken' BY <1>1 DEF GeometryInv, InfoTaken
<1>5. FilesTaken' BY <1>1, <1>2 DEF GeometryInv, FilesTaken
<1>6. SingleTaken' BY <1>1, <1>2 DEF GeometryInv, SingleTaken
<1>7. PiecesTaken' BY <1>1 DEF GeometryInv, PiecesTaken
<1> QED BY <1>3, <1>4, <1>5, <1>6, <1>7 DEF GeometryInv

LEMMA StepGeometry ==
  ASSUME GeometryInv, DecodeInv, DecodeInv', [Next]_allVars
  PROVE  GeometryInv'
<1>1. CASE Element BY <1>1, ElementGeometry
<1>2. CASE ReadInfo BY <1>2, ReadInfoGeometry
<1>3. CASE ReadFile BY <1>3, ReadFileGeometry
<1>4. CASE FilesRead BY <1>4, FilesReadGeometry
<1>5. CASE ReadSingle BY <1>5, ReadSingleGeometry
<1>6. CASE TakeSize BY <1>6, TakeSizeGeometry
<1>7. CASE CreateFiles BY <1>7, CreateFilesGeometry
<1>8. CASE Start BY <1>8, DoneGeometry
<1>9. CASE UNCHANGED metaVars BY <1>9, SameGeometry
<1>10. UNCHANGED allVars => UNCHANGED metaVars BY DEF allVars
<1> QED
  BY <1>1, <1>2, <1>3, <1>4, <1>5, <1>6, <1>7, <1>8, <1>9, <1>10
  DEF Next, ParseNext, Element, Quiet

LEMMA SumsUnique ==
  ASSUME NEW l, NEW m \in Nat, NEW s, NEW r, Sums(l, s, m), Sums(l, r, m)
  PROVE  s[m] = r[m]
<1> DEFINE Bad == { k \in 0 .. m : s[k] # r[k] }
<1>1. SUFFICES ASSUME Bad # {} PROVE FALSE OBVIOUS
<1>2. Bad \subseteq Nat OBVIOUS
<1> HIDE DEF Bad
<1>3. PICK k \in Bad : \A j \in Bad : k <= j BY <1>1, <1>2, LeastNumber
<1> USE DEF Bad
<1>4. /\ s[k] = IF k = 0 THEN 0 ELSE s[k - 1] + l[k]
      /\ r[k] = IF k = 0 THEN 0 ELSE r[k - 1] + l[k]
  BY DEF Sums
<1>5. k # 0 BY <1>4
<1>6. k - 1 \in 0 .. m /\ k - 1 \notin Bad BY <1>3, <1>5
<1> QED BY <1>4, <1>5, <1>6

LEMMA TotalOK ==
  ASSUME trk \in Trk, Summed(trk.length_list, trk.length)
  PROVE  trk.length = Total[Len(trk.length_list)]
<1>1. PICK l, m : l = trk.length_list /\ m = Len(l) OBVIOUS
<1>2. m \in Nat BY <1>1 DEF Trk
<1>3. PICK s : Sums(l, s, m) /\ trk.length = s[m] BY <1>1 DEF Summed
<1>4. Total = CHOOSE t : Sums(l, t, m) BY <1>1 DEF Total, Sums
<1>5. Sums(l, Total, m) BY <1>3, <1>4
<1>6. s[m] = Total[m] BY <1>2, <1>3, <1>5, SumsUnique
<1> QED BY <1>1, <1>3, <1>6

LEMMA PieceCount ==
  ASSUME NEW len \in Nat, NEW size \in Nat \ {0}, NEW n, n = (len + size - 1) \div size
  PROVE  /\ n \in Nat
         /\ size * (n - 1) < len /\ len <= size * n
<1>1. PICK m : m = len + size - 1 OBVIOUS
<1>2. m \in Nat BY <1>1
<1>3. PICK r : r = (m % size) OBVIOUS
<1>4. Divided(m, size, n, r) BY <1>1, <1>3 DEF Divided
<1>5. n \in Nat /\ r \in 0 .. size - 1 /\ m = n * size + r BY <1>2, <1>4, Division
<1>6. PICK x : x = n * size OBVIOUS
<1>7. x \in Nat /\ size * n = x /\ size * (n - 1) = x - size BY <1>5, <1>6, SMT
<1>8. m = x + r BY <1>5, <1>6
<1> QED BY <1>1, <1>5, <1>7, <1>8

LEMMA GeometryAsWritten == ASSUME DecodeInv, GeometryInv PROVE TorrentAsWritten
<1> SUFFICES ASSUME phase = "ready" PROVE TorrentAsWritten BY DEF TorrentAsWritten
<1>1. PICK node, list : node = InfoOf(value) /\ list = Get(node, "files") OBVIOUS
<1>2. value = Meaning[source.tree] BY DEF DecodeInv, DecodesAsWritten, Decoded
<1>3. /\ node.type = "dict" /\ info = Touched(node, "piece length")
      /\ Get(node, "piece length").type = "integer"
      /\ trk.pieceLength = Get(node, "piece length").n
  BY <1>1 DEF GeometryInv, InfoTaken
<1>4. trk \in Trk BY DEF GeometryInv, ParseTypes
<1>5. node \in Values
  <2>1. 0 \in Nat OBVIOUS
  <2>2. Number(0) \in Values BY <2>1, NumberOK
  <2>3. value \in Values BY DEF GeometryInv, ParseTypes
  <2> QED BY <1>1, <2>2, <2>3, InsideOK, KeysOK DEF InfoOf
<1>6. FileList = list /\ Get(info, "length") = Get(node, "length")
  BY <1>1, <1>3, <1>5, TouchedOK, KeysOK DEF FileList
<1>7. /\ trk.mode = "MULTIPLE" => AllReadable(list)
      /\ trk.mode = "MULTIPLE" =>
           /\ trk.length_list = [k \in DOMAIN list.items |-> Get(list.items[k], "length").n]
           /\ trk.length = Total[Len(trk.length_list)]
  <2> SUFFICES ASSUME trk.mode = "MULTIPLE"
               PROVE  /\ AllReadable(list)
                      /\ trk.length_list = [k \in DOMAIN list.items |-> Get(list.items[k], "length").n]
                      /\ trk.length = Total[Len(trk.length_list)]
    OBVIOUS
  <2>1. /\ Summed(trk.length_list, trk.length)
        /\ \A k \in 1 .. Len(trk.length_list) :
             /\ Readable(list.items[k])
             /\ trk.length_list[k] = Get(list.items[k], "length").n
        /\ list.type = "list" /\ Len(trk.length_list) = Len(list.items)
    BY <1>6 DEF GeometryInv, FilesTaken
  <2>2. list.items \in Seq(Values) BY <1>6, <2>1, FileListOK
  <2>3. PICK l, items : l = trk.length_list /\ items = list.items OBVIOUS
  <2>4. l \in Seq(Nat) /\ items \in Seq(Values) /\ Len(l) = Len(items)
    BY <1>4, <2>1, <2>2, <2>3 DEF Trk
  <2>5. DOMAIN items = 1 .. Len(l) /\ DOMAIN l = 1 .. Len(l) BY <2>4
  <2>6. AllReadable(list) BY <2>1, <2>3, <2>5 DEF AllReadable
  <2>7. l = [k \in DOMAIN items |-> Get(items[k], "length").n]
    <3>1. \A k \in DOMAIN items : l[k] = Get(items[k], "length").n BY <2>1, <2>3, <2>5
    <3>2. l = [k \in DOMAIN l |-> l[k]] BY <2>4
    <3> QED BY <2>5, <3>1, <3>2
  <2> QED BY <1>4, <2>1, <2>3, <2>6, <2>7, TotalOK
<1>8. trk.mode # "MULTIPLE" => /\ trk.mode = "SINGLE"
                               /\ ~AllReadable(list) /\ trk.length = Get(node, "length").n
  BY <1>4, <1>6 DEF GeometryInv, SingleTaken, Trk
<1>9. Has(node, "piece length")
  <2>1. trk.pieceLength > 0 BY DEF GeometryInv, PiecesTaken
  <2>2. Number(0).n = 0 BY DEF Number
  <2>3. trk.pieceLength # 0 BY <2>1
  <2>4. ~Has(node, "piece length") => Get(node, "piece length") = Number(0) BY Zenon DEF Get
  <2> QED BY <1>3, <2>2, <2>3, <2>4
<1>10. /\ trk.pieceLength * (trk.no_of_pieces - 1) < trk.length
       /\ trk.length <= trk.pieceLength * trk.no_of_pieces
  <2>1. /\ trk.pieceLength > 0
        /\ trk.no_of_pieces = (trk.length + trk.pieceLength - 1) \div trk.pieceLength
    BY DEF GeometryInv, PiecesTaken
  <2>2. PICK len, size, n : len = trk.length /\ size = trk.pieceLength /\ n = trk.no_of_pieces
    OBVIOUS
  <2>3. len \in Nat /\ size \in Nat \ {0} /\ n = (len + size - 1) \div size
    BY <1>4, <2>1, <2>2 DEF Trk
  <2>4. size * (n - 1) < len /\ len <= size * n BY <2>3, PieceCount
  <2> QED BY <2>2, <2>4
<1>11. AllReadable(list) <=>
         list.type = "list" /\ \A k \in DOMAIN list.items : Readable(list.items[k])
  BY DEF AllReadable
<1> QED
  BY <1>1, <1>2, <1>7, <1>8, <1>9, <1>10, <1>11, Zenon DEF TorrentAsWritten

LEMMA ParseKept ==
  Spec => [](DecodeInv /\ GeometryInv)
<1>1. Init => DecodeInv /\ GeometryInv BY InitDecode, InitGeometry DEF Init
<1>2. DecodeInv /\ GeometryInv /\ [Next]_allVars => (DecodeInv /\ GeometryInv)'
  BY StepDecode, StepGeometry
<1> QED BY <1>1, <1>2, PTL DEF Spec

(* parseMetaFile is right: whatever the metainfo file, the mode, the       *)
(* lengths of the files, the length, the piece length and the number of    *)
(* pieces that a download starts with are what the author of the file      *)
(* meant, and they fit together.                                           *)
THEOREM TorrentTaken == Spec => []TorrentAsWritten
<1>1. DecodeInv /\ GeometryInv => TorrentAsWritten BY GeometryAsWritten
<1> QED BY <1>1, ParseKept, PTL

LEMMA ParseTypesOK == ASSUME DecodeInv, GeometryInv PROVE ValuesOK
<1>1. phase \in {"decode", "rejected", "terminated", "done"} \/ Decoded
  BY DEF GeometryInv, ParseTypes, Decoded
<1>2. pos \in 1 .. Len(input) + 1 BY DEF DecodeInv
<1>3. \A k \in DOMAIN stack : stack[k].node.type \in {"list", "dict"}
  <2>1. stack \in Seq(StackFrame) BY DEF GeometryInv, ParseTypes
  <2>2. ASSUME NEW k \in DOMAIN stack PROVE stack[k].node.type \in {"list", "dict"}
    <3>1. stack[k] \in StackFrame BY <2>1, ElementOf
    <3>2. stack[k].node \in Partial BY <3>1 DEF StackFrame
    <3> QED BY <3>2, PartialOK
  <2> QED BY <2>2
<1>4. value.type \in {"integer", "string", "list", "dict"}
  <2>1. value \in Values BY DEF GeometryInv, ParseTypes
  <2> QED BY <2>1, InsideOK
<1>5. info.type = "dict"
  <2>1. info \in DictsOf(Values) BY DEF GeometryInv, ParseTypes
  <2> QED BY <2>1 DEF DictsOf
<1>6. trk \in Trk /\ Len(trk.path_list) <= Len(trk.length_list) BY DEF GeometryInv, ParseTypes
<1>7. /\ trk.mode \in {"SINGLE", "MULTIPLE"}
      /\ trk.pieceLength \in Nat /\ trk.length \in Nat /\ trk.no_of_pieces \in Nat
      /\ trk.length_list \in Seq(Nat)
  BY <1>6 DEF Trk
<1> QED BY <1>1, <1>2, <1>3, <1>4, <1>5, <1>6, <1>7 DEF ValuesOK

-----------------------------------------------------------------------------
(* The encoding of a dict, whose map holds its keys in order.              *)

LEMMA FlatSame ==
  ASSUME NEW p, NEW q, NEW n \in Nat, NEW m \in Nat, NEW k \in Nat, k <= n, k <= m,
         NEW f, FlatTo(f, p, n), NEW g, FlatTo(g, q, m),
         \A i \in 1 .. k : p[i] = q[i]
  PROVE  \A i \in 1 .. k : f[i] = g[i]
<1> DEFINE Bad == { i \in 1 .. k : f[i] # g[i] }
<1>1. SUFFICES ASSUME Bad # {} PROVE FALSE OBVIOUS
<1>2. Bad \subseteq Nat OBVIOUS
<1> HIDE DEF Bad
<1>3. PICK i \in Bad : \A j \in Bad : i <= j BY <1>1, <1>2, LeastNumber
<1> USE DEF Bad
<1>4. i \in 1 .. k /\ f[i] # g[i] /\ i \in 1 .. n /\ i \in 1 .. m BY <1>3
<1>5. /\ f[i] = IF i = 1 THEN p[i] ELSE f[i - 1] \o p[i]
      /\ g[i] = IF i = 1 THEN q[i] ELSE g[i - 1] \o q[i]
  BY <1>4 DEF FlatTo
<1>6. i # 1 => i - 1 \in 1 .. k /\ i - 1 \notin Bad BY <1>3, <1>4
<1>7. CASE i = 1 BY <1>4, <1>5, <1>7
<1>8. CASE i # 1
  <2>1. f[i - 1] = g[i - 1] /\ p[i] = q[i] BY <1>4, <1>6, <1>8
  <2> QED BY <1>4, <1>5, <1>8, <2>1, Zenon
<1> QED BY <1>7, <1>8

(* The first k parts, end to end. *)
Joint(parts, k) == FlattenSeq([i \in 1 .. k |-> parts[i]])

LEMMA JointIs ==
  ASSUME NEW parts, NEW n \in Nat, NEW f, FlatTo(f, parts, n), NEW k \in 1 .. n
  PROVE  Joint(parts, k) = f[k]
<1> DEFINE p == [i \in 1 .. k |-> parts[i]]
<1>1. k \in Nat /\ k # 0 /\ DOMAIN p = 1 .. k OBVIOUS
<1>2. Len(p) = k
  <2>1. p \in Seq({ parts[i] : i \in 1 .. k }) BY <1>1
  <2> QED BY <1>1, <2>1
<1>3. \A i \in 1 .. k : p[i] = parts[i] OBVIOUS
<1> HIDE DEF p
<1>4. PICK g : FlatTo(g, p, k) BY <1>1, FlatExists
<1>5. PICK h : h = CHOOSE e : FlatTo(e, p, k) OBVIOUS
<1>6. FlatTo(h, p, k) BY <1>4, <1>5
<1>7. FlattenSeq(p) = h[k] BY <1>1, <1>2, <1>5 DEF FlattenSeq, FlatTo
<1>8. h[k] = f[k]
  <2>1. k <= n /\ k <= k /\ k \in 1 .. k BY <1>1
  <2> QED BY <1>1, <1>3, <1>6, <2>1, FlatSame
<1> QED BY <1>7, <1>8 DEF Joint, p

LEMMA JointOK ==
  ASSUME NEW S, NEW parts \in Seq(Seq(S))
  PROVE  /\ Joint(parts, 0) = <<>>
         /\ Joint(parts, Len(parts)) = FlattenSeq(parts)
         /\ \A k \in 0 .. Len(parts) : Joint(parts, k) \in Seq(S)
         /\ \A k \in 1 .. Len(parts) : Joint(parts, k) = Joint(parts, k - 1) \o parts[k]
<1>1. PICK n : n = Len(parts) OBVIOUS
<1>2. n \in Nat /\ \A k \in 1 .. n : parts[k] \in Seq(S) BY <1>1, ElementOf
<1>3. Joint(parts, 0) = <<>>
  <2>1. [i \in 1 .. 0 |-> parts[i]] = <<>> OBVIOUS
  <2>2. FlattenSeq(<<>>) = <<>> BY DEF FlattenSeq
  <2> QED BY <2>1, <2>2 DEF Joint
<1>4. Joint(parts, n) = FlattenSeq(parts)
  <2>1. [i \in 1 .. n |-> parts[i]] = parts BY <1>1
  <2> QED BY <2>1 DEF Joint
<1>5. PICK f : FlatTo(f, parts, n) BY <1>2, FlatExists
<1>6. \A k \in 1 .. n : Joint(parts, k) = f[k] BY <1>2, <1>5, JointIs
<1>7. \A k \in 1 .. n : f[k] = IF k = 1 THEN parts[k] ELSE f[k - 1] \o parts[k]
  BY <1>5 DEF FlatTo
<1>8. ASSUME NEW k \in 1 .. n PROVE Joint(parts, k) = Joint(parts, k - 1) \o parts[k]
  <2>1. CASE k = 1
    <3>1. PICK x : x = parts[k] OBVIOUS
    <3>2. x \in Seq(S) /\ Joint(parts, k) = x BY <1>2, <1>6, <1>7, <2>1, <3>1
    <3>3. <<>> \o x = x BY <3>2
    <3>4. k - 1 = 0 BY <2>1
    <3> QED BY <1>3, <3>1, <3>2, <3>3, <3>4, Zenon
  <2>2. CASE k # 1
    <3>1. k - 1 \in 1 .. n BY <1>2, <2>2
    <3>2. Joint(parts, k - 1) = f[k - 1] /\ Joint(parts, k) = f[k] BY <1>6, <3>1
    <3> QED BY <1>7, <2>2, <3>2, Zenon
  <2> QED BY <2>1, <2>2
<1> DEFINE Bad == { k \in 0 .. n : Joint(parts, k) \notin Seq(S) }
<1>9. Bad = {}
  <2>1. SUFFICES ASSUME Bad # {} PROVE FALSE OBVIOUS
  <2>2. Bad \subseteq Nat BY <1>2
  <2> HIDE DEF Bad
  <2>3. PICK k \in Bad : \A j \in Bad : k <= j BY <2>1, <2>2, LeastNumber
  <2> USE DEF Bad
  <2>4. k \in 0 .. n /\ Joint(parts, k) \notin Seq(S) BY <2>3
  <2>5. k # 0
    <3>1. <<>> \in Seq(S) OBVIOUS
    <3> QED BY <1>3, <2>4, <3>1
  <2>6. k \in 1 .. n /\ k - 1 \in 0 .. n /\ k - 1 \notin Bad BY <1>2, <2>3, <2>4, <2>5
  <2>7. PICK a, b : a = Joint(parts, k - 1) /\ b = parts[k] OBVIOUS
  <2>8. a \in Seq(S) /\ b \in Seq(S) /\ Joint(parts, k) = a \o b
    BY <1>2, <1>8, <2>6, <2>7
  <2>9. a \o b \in Seq(S) BY <2>8
  <2> QED BY <2>4, <2>8, <2>9
<1> QED BY <1>1, <1>3, <1>4, <1>8, <1>9

(* The keys a dict has, in the order of std::map. *)
Sorted(ks) == \A k \in 2 .. Len(ks) : Before(ks[k - 1], ks[k])

Lists(ks, map) ==
  /\ ks \in Seq(Names) /\ Sorted(ks)
  /\ \A key \in Names : map[key] # Absent <=> \E k \in DOMAIN ks : ks[k] = key

Place(key) == CHOOSE x \in DOMAIN KeyOrder : KeyOrder[x] = key

LEMMA PlaceOK ==
  /\ KeyOrder \in Seq(STRING) /\ Len(KeyOrder) \in Nat
  /\ \A key \in Names : Place(key) \in 1 .. Len(KeyOrder) /\ KeyOrder[Place(key)] = key
  /\ \A x \in 1 .. Len(KeyOrder) : KeyOrder[x] \in Names /\ Place(KeyOrder[x]) = x
  /\ \A a, b \in Names : Before(a, b) <=> Place(a) < Place(b)
<1>1. /\ KeyOrder \in Seq(STRING)
      /\ \A j, k \in DOMAIN KeyOrder : KeyOrder[j] = KeyOrder[k] => j = k
  BY MetaInfoAssumption
<1>2. DOMAIN KeyOrder = 1 .. Len(KeyOrder) /\ Len(KeyOrder) \in Nat BY <1>1
<1>3. \A key \in Names : Place(key) \in DOMAIN KeyOrder /\ KeyOrder[Place(key)] = key
  BY DEF Names, Place
<1>4. \A x \in DOMAIN KeyOrder : KeyOrder[x] \in Names BY DEF Names
<1>5. \A x \in DOMAIN KeyOrder : Place(KeyOrder[x]) = x BY <1>1, <1>3, <1>4
<1>6. ASSUME NEW a \in Names, NEW b \in Names PROVE Before(a, b) <=> Place(a) < Place(b)
  BY <1>3, <1>5 DEF Before
<1> QED BY <1>1, <1>2, <1>3, <1>4, <1>5, <1>6

LEMMA SortedOK ==
  ASSUME NEW ks \in Seq(Names), Sorted(ks), NEW i \in 1 .. Len(ks), NEW j \in 1 .. Len(ks), i < j
  PROVE  Place(ks[i]) < Place(ks[j])
<1>1. Len(ks) \in Nat /\ \A k \in 1 .. Len(ks) : ks[k] \in Names BY ElementOf
<1>2. \A k \in 1 .. Len(ks) : Place(ks[k]) \in Nat BY <1>1, PlaceOK
<1> DEFINE Bad == { k \in i + 1 .. Len(ks) : ~ Place(ks[i]) < Place(ks[k]) }
<1>3. SUFFICES ASSUME Bad # {} PROVE FALSE
  <2>1. j \in i + 1 .. Len(ks) BY <1>1
  <2> QED BY <2>1
<1>4. Bad \subseteq Nat BY <1>1
<1> HIDE DEF Bad
<1>5. PICK k \in Bad : \A h \in Bad : k <= h BY <1>3, <1>4, LeastNumber
<1> USE DEF Bad
<1>6. k \in i + 1 .. Len(ks) /\ ~ Place(ks[i]) < Place(ks[k]) BY <1>5
<1>7. k \in 2 .. Len(ks) /\ k - 1 \in 1 .. Len(ks) /\ k \in 1 .. Len(ks) BY <1>1, <1>6
<1>8. Place(ks[k - 1]) < Place(ks[k]) BY <1>1, <1>7, PlaceOK DEF Sorted
<1>9. CASE k - 1 = i BY <1>6, <1>8, <1>9
<1>10. CASE k - 1 # i
  <2>1. k - 1 \in i + 1 .. Len(ks) /\ k - 1 \notin Bad BY <1>1, <1>5, <1>6, <1>10
  <2>2. Place(ks[i]) < Place(ks[k - 1]) BY <2>1
  <2>3. Place(ks[i]) \in Nat /\ Place(ks[k - 1]) \in Nat /\ Place(ks[k]) \in Nat
    BY <1>2, <1>7
  <2> QED BY <1>6, <1>8, <2>2, <2>3
<1> QED BY <1>9, <1>10

(* Every dict has such a list of keys. *)
LEMMA ListExists ==
  ASSUME NEW map
  PROVE  \E ks : Lists(ks, map)
<1> DEFINE n == Len(KeyOrder)
           Upto(ks, m) == /\ ks \in Seq(Names) /\ Sorted(ks)
                          /\ \A k \in DOMAIN ks : Place(ks[k]) <= m
                          /\ \A k \in DOMAIN ks : map[ks[k]] # Absent
                          /\ \A key \in Names : Place(key) <= m /\ map[key] # Absent
                               => \E k \in DOMAIN ks : ks[k] = key
           Bad == { m \in 0 .. n : ~ \E ks : Upto(ks, m) }
<1>0. n \in Nat /\ \A key \in Names : Place(key) \in 1 .. n BY PlaceOK
<1>1. Bad = {}
  <2>1. SUFFICES ASSUME Bad # {} PROVE FALSE OBVIOUS
  <2>2. Bad \subseteq Nat BY <1>0
  <2> HIDE DEF Bad
  <2>3. PICK m \in Bad : \A j \in Bad : m <= j BY <2>1, <2>2, LeastNumber
  <2>14. m \in Nat /\ m - 1 \notin Bad BY <2>2, <2>3
  <2> USE DEF Bad
  <2>4. m \in 0 .. n /\ ~ \E ks : Upto(ks, m) BY <2>3
  <2>5. m # 0
    <3>1. SUFFICES ASSUME m = 0 PROVE FALSE OBVIOUS
    <3>2. PICK ks \in Seq(Names) : Len(ks) = 0
      <4>1. <<>> \in Seq(Names) /\ Len(<<>>) = 0 OBVIOUS
      <4> QED BY <4>1
    <3>3. DOMAIN ks = {} BY <3>2
    <3>4. Sorted(ks) BY <3>2 DEF Sorted
    <3>5. \A key \in Names : ~ Place(key) <= m BY <1>0, <3>1
    <3>6. Upto(ks, m) BY <3>2, <3>3, <3>4, <3>5
    <3> QED BY <2>4, <3>6
  <2>6. m \in 1 .. n /\ m - 1 \in 0 .. n /\ m - 1 \notin Bad
    <3>1. m \in 0 .. n BY <2>4
    <3> HIDE DEF Bad
    <3> QED BY <1>0, <2>5, <2>14, <3>1
  <2>7. PICK ks : Upto(ks, m - 1) BY <2>6
  <2>8. PICK new : new = KeyOrder[m] OBVIOUS
  <2>9. new \in Names /\ Place(new) = m BY <2>6, <2>8, PlaceOK
  <2>10. \A key \in Names : Place(key) <= m => Place(key) <= m - 1 \/ key = new
    <3>1. \A key \in Names : Place(key) = m => key = new BY <2>6, <2>8, PlaceOK
    <3>2. \A key \in Names : Place(key) \in Nat BY <1>0
    <3> QED BY <2>6, <3>1, <3>2
  <2>11. \A k \in DOMAIN ks : ks[k] \in Names BY <2>7, ElementOf
  <2>12. CASE map[new] = Absent
    <3>1. \A k \in DOMAIN ks : Place(ks[k]) <= m
      <4>1. \A k \in DOMAIN ks : Place(ks[k]) <= m - 1 /\ Place(ks[k]) \in Nat BY <1>0, <2>7, <2>11
      <4> QED BY <2>6, <4>1
    <3>2. Upto(ks, m) BY <2>7, <2>10, <2>12, <3>1
    <3> QED BY <2>4, <3>2
  <2>13. CASE map[new] # Absent
    <3>1. PICK ls : Added(ls, ks, new) BY DEF Added
    <3>2. PICK c : c = Len(ks) OBVIOUS
    <3>3. /\ ls \in Seq(Names) /\ Len(ls) = c + 1 /\ c \in Nat /\ ls[c + 1] = new
          /\ \A k \in 1 .. c : ls[k] = ks[k]
      <4>1. ks \in Seq(Names) BY <2>7
      <4>2. /\ ls \in Seq(Names) /\ Len(ls) = Len(ks) + 1 /\ Len(ks) \in Nat
            /\ ls[Len(ks) + 1] = new /\ \A k \in 1 .. Len(ks) : ls[k] = ks[k]
        BY <2>9, <3>1, <4>1, AppendOK
      <4> QED BY <3>2, <4>2
    <3>4. DOMAIN ks = 1 .. c /\ DOMAIN ls = 1 .. c + 1 BY <2>7, <3>2, <3>3
    <3>5. \A k \in 1 .. c : /\ ks[k] \in Names /\ Place(ks[k]) \in Nat /\ Place(ks[k]) <= m - 1
                            /\ map[ks[k]] # Absent
      BY <1>0, <2>7, <2>11, <3>4
    <3>6. \A k \in 1 .. c + 1 : k \in 1 .. c \/ k = c + 1 BY <3>3
    <3>7. Sorted(ls)
      <4>1. ASSUME NEW k \in 2 .. c + 1 PROVE Before(ls[k - 1], ls[k])
        <5>1. k - 1 \in 1 .. c /\ ls[k - 1] = ks[k - 1] BY <3>3
        <5>2. CASE k = c + 1
          <6>1. Place(ks[k - 1]) < Place(new) BY <2>6, <2>9, <3>5, <5>1
          <6> QED BY <2>9, <3>3, <3>5, <5>1, <5>2, <6>1, PlaceOK
        <5>3. CASE k # c + 1
          <6>1. k \in 2 .. Len(ks) /\ k \in 1 .. c BY <3>2, <3>3, <5>3
          <6>2. Before(ks[k - 1], ks[k]) BY <2>7, <6>1 DEF Sorted
          <6> QED BY <3>3, <5>1, <6>1, <6>2
        <5> QED BY <5>2, <5>3
      <4> QED BY <3>3, <4>1 DEF Sorted
    <3>8. \A k \in DOMAIN ls : Place(ls[k]) <= m /\ map[ls[k]] # Absent
      <4>1. \A k \in 1 .. c : Place(ls[k]) <= m /\ map[ls[k]] # Absent
        BY <2>6, <3>3, <3>5
      <4>2. Place(ls[c + 1]) <= m /\ map[ls[c + 1]] # Absent BY <2>6, <2>9, <2>13, <3>3
      <4> QED BY <3>4, <3>6, <4>1, <4>2
    <3>9. ASSUME NEW key \in Names, Place(key) <= m, map[key] # Absent
          PROVE  \E k \in DOMAIN ls : ls[k] = key
      <4>1. CASE key = new
        <5>1. c + 1 \in DOMAIN ls BY <3>3, <3>4
        <5> QED BY <3>3, <4>1, <5>1
      <4>2. CASE key # new
        <5>1. PICK k \in DOMAIN ks : ks[k] = key BY <2>7, <2>10, <3>9, <4>2
        <5>2. k \in 1 .. c /\ k \in DOMAIN ls BY <3>3, <3>4
        <5> QED BY <3>3, <5>1, <5>2
      <4> QED BY <4>1, <4>2
    <3>10. Upto(ls, m) BY <3>3, <3>7, <3>8, <3>9
    <3> QED BY <2>4, <3>10
  <2> QED BY <2>12, <2>13
<1>2. PICK ks : Upto(ks, n)
  <2>1. n \in 0 .. n BY <1>0
  <2>2. n \notin Bad
    <3> HIDE DEF Bad
    <3> QED BY <1>1
  <2> QED BY <2>1, <2>2
<1>3. \A k \in DOMAIN ks : ks[k] \in Names BY <1>2, ElementOf
<1>4. \A key \in Names : map[key] # Absent <=> \E k \in DOMAIN ks : ks[k] = key
  BY <1>0, <1>2, <1>3
<1> QED BY <1>2, <1>4 DEF Lists

(* A map encodes as the entries it has. *)
Pairs(f, map, ks) == [k \in 1 .. Len(ks) |-> Named(ks[k], f[map[ks[k]]])]

LEMMA InOrderOK ==
  ASSUME NEW f, NEW map, NEW ks, Lists(ks, map),
         \A key \in Names : map[key] # Absent => f[map[key]] \in Seq(Tokens)
  PROVE  /\ Pairs(f, map, ks) \in Seq(Seq(Tokens)) /\ Len(Pairs(f, map, ks)) = Len(ks)
         /\ Enclosed("d", InOrder(f, map)) = Enclosed("d", Pairs(f, map, ks))
<1> DEFINE all == InOrder(f, map)
           own == Pairs(f, map, ks)
           n == Len(KeyOrder)
           m == Len(ks)
<1>1. ks \in Seq(Names) /\ Sorted(ks) /\ m \in Nat /\ DOMAIN ks = 1 .. m BY DEF Lists
<1>2. \A k \in 1 .. m : ks[k] \in Names /\ map[ks[k]] # Absent
  <2>1. \A k \in 1 .. m : ks[k] \in Names BY <1>1, ElementOf
  <2> QED BY <1>1, <2>1 DEF Lists
<1>3. \A key \in Names : map[key] # Absent => Named(key, f[map[key]]) \in Seq(Tokens)
  BY NamesOK, NamedOK
<1>4. own \in Seq(Seq(Tokens)) /\ Len(own) = m
      /\ \A k \in 1 .. m : own[k] = Named(ks[k], f[map[ks[k]]])
  BY <1>1, <1>2, <1>3 DEF Pairs
<1>5. n \in Nat /\ DOMAIN KeyOrder = 1 .. n BY PlaceOK
<1>6. \A x \in 1 .. n : all[x] = IF map[KeyOrder[x]] = Absent THEN <<>>
                                 ELSE Named(KeyOrder[x], f[map[KeyOrder[x]]])
  BY <1>5 DEF InOrder
<1>7. all \in Seq(Seq(Tokens)) /\ Len(all) = n
  <2>1. \A x \in 1 .. n : all[x] \in Seq(Tokens)
    <3>1. <<>> \in Seq(Tokens) OBVIOUS
    <3>2. \A x \in 1 .. n : KeyOrder[x] \in Names BY PlaceOK
    <3> QED BY <1>3, <1>6, <3>1, <3>2
  <2>2. all = [x \in 1 .. n |-> all[x]] BY <1>5 DEF InOrder
  <2> HIDE DEF all
  <2> QED BY <1>5, <2>1, <2>2
<1> HIDE DEF all, own
<1> DEFINE Passed(x, c) == /\ \A k \in 1 .. c : Place(ks[k]) <= x
                           /\ \A k \in c + 1 .. m : Place(ks[k]) > x
                           /\ Joint(all, x) = Joint(own, c)
           Bad == { x \in 0 .. n : ~ \E c \in 0 .. m : Passed(x, c) }
<1>8. Bad = {}
  <2>1. SUFFICES ASSUME Bad # {} PROVE FALSE OBVIOUS
  <2>2. Bad \subseteq Nat BY <1>5
  <2> HIDE DEF Bad
  <2>3. PICK x \in Bad : \A y \in Bad : x <= y BY <2>1, <2>2, LeastNumber
  <2> USE DEF Bad
  <2>4. x \in 0 .. n /\ ~ \E c \in 0 .. m : Passed(x, c) BY <2>3
  <2>20. \A k \in 1 .. m : Place(ks[k]) \in 1 .. n BY <1>2, PlaceOK
  <2>5. x # 0
    <3>1. SUFFICES ASSUME x = 0 PROVE FALSE OBVIOUS
    <3>2. Joint(all, 0) = <<>> /\ Joint(own, 0) = <<>> BY <1>4, <1>7, JointOK
    <3>3. \A k \in 0 + 1 .. m : Place(ks[k]) > 0 BY <2>20
    <3>4. 0 \in 0 .. m /\ \A k \in 1 .. 0 : FALSE BY <1>1
    <3>5. Passed(0, 0) BY <3>2, <3>3, <3>4
    <3> QED BY <2>4, <3>1, <3>4, <3>5
  <2>6. x \in 1 .. n /\ x - 1 \in 0 .. n /\ x - 1 \notin Bad BY <1>5, <2>3, <2>4, <2>5
  <2>7. PICK c \in 0 .. m : Passed(x - 1, c) BY <2>6
  <2>8. c \in Nat /\ c <= m BY <1>1
  <2>9. PICK new : new = KeyOrder[x] OBVIOUS
  <2>10. new \in Names /\ Place(new) = x BY <2>6, <2>9, PlaceOK
  <2>11. Joint(all, x) = Joint(all, x - 1) \o all[x] /\ Joint(all, x - 1) = Joint(own, c)
         /\ Joint(own, c) \in Seq(Tokens)
    <3>1. Joint(all, x) = Joint(all, x - 1) \o all[x] BY <1>7, <2>6, JointOK
    <3>2. Joint(own, c) \in Seq(Tokens) BY <1>4, <2>8, JointOK
    <3> QED BY <2>7, <3>1, <3>2
  <2>12. CASE map[new] = Absent
    <3>1. \A k \in 1 .. m : ks[k] # new BY <1>2, <2>12
    <3>2. \A k \in 1 .. m : Place(ks[k]) # x BY <1>2, <2>9, <3>1, PlaceOK
    <3>3. Joint(all, x) = Joint(own, c)
      <4>1. all[x] = <<>> BY <1>6, <2>6, <2>9, <2>12
      <4>2. PICK a : a = Joint(own, c) OBVIOUS
      <4>3. a \in Seq(Tokens) BY <2>11, <4>2
      <4>4. a \o <<>> = a BY <4>3
      <4> QED BY <2>11, <4>1, <4>2, <4>4, Zenon
    <3>4. \A k \in 1 .. c : Place(ks[k]) <= x
      <4>1. \A k \in 1 .. c : Place(ks[k]) <= x - 1 /\ Place(ks[k]) \in Nat BY <2>7, <2>8, <2>20
      <4> QED BY <2>6, <4>1
    <3>5. \A k \in c + 1 .. m : Place(ks[k]) > x
      <4>1. \A k \in c + 1 .. m : Place(ks[k]) > x - 1 /\ Place(ks[k]) \in Nat /\ Place(ks[k]) # x
        <5>1. \A k \in c + 1 .. m : k \in 1 .. m BY <2>8
        <5> QED BY <2>7, <2>20, <3>2, <5>1
      <4> QED BY <2>6, <4>1
    <3>6. Passed(x, c) BY <3>3, <3>4, <3>5
    <3> QED BY <2>4, <3>6
  <2>13. CASE map[new] # Absent
    <3>1. PICK k \in 1 .. m : ks[k] = new BY <1>1, <2>10, <2>13 DEF Lists
    <3>2. Place(ks[k]) = x /\ k > c
      <4>1. Place(ks[k]) = x BY <2>10, <3>1
      <4>2. k \in 1 .. c => Place(ks[k]) <= x - 1 BY <2>7
      <4> QED BY <2>6, <2>8, <4>1, <4>2
    <3>3. c + 1 \in 1 .. m /\ c + 1 \in 0 .. m BY <2>8, <3>2
    <3>4. Place(ks[c + 1]) > x - 1 BY <2>7, <2>8, <3>3
    <3>5. k = c + 1
      <4>1. SUFFICES ASSUME k # c + 1 PROVE FALSE OBVIOUS
      <4>2. c + 1 < k BY <2>8, <3>2, <4>1
      <4>3. Place(ks[c + 1]) < Place(ks[k]) BY <1>1, <3>3, <4>2, SortedOK
      <4> QED BY <2>6, <2>20, <3>2, <3>3, <3>4, <4>3
    <3>6. Joint(all, x) = Joint(own, c + 1)
      <4>1. all[x] = Named(new, f[map[new]]) BY <1>6, <2>6, <2>9, <2>13
      <4>2. own[c + 1] = Named(new, f[map[new]]) BY <1>4, <3>1, <3>3, <3>5
      <4>3. Joint(own, c + 1) = Joint(own, (c + 1) - 1) \o own[c + 1] BY <1>4, <3>3, JointOK
      <4>4. (c + 1) - 1 = c BY <2>8
      <4> QED BY <2>11, <4>1, <4>2, <4>3, <4>4, Zenon
    <3>7. \A i \in 1 .. c + 1 : Place(ks[i]) <= x
      <4>1. \A i \in 1 .. c : Place(ks[i]) <= x - 1 /\ Place(ks[i]) \in Nat BY <2>7, <2>8, <2>20
      <4>2. \A i \in 1 .. c + 1 : i \in 1 .. c \/ i = c + 1 BY <2>8
      <4>3. Place(ks[c + 1]) <= x BY <2>6, <3>2, <3>5
      <4> QED BY <2>6, <4>1, <4>2, <4>3
    <3>8. \A i \in (c + 1) + 1 .. m : Place(ks[i]) > x
      <4>1. ASSUME NEW i \in (c + 1) + 1 .. m PROVE Place(ks[i]) > x
        <5>1. c + 1 < i /\ i \in 1 .. m BY <2>8
        <5>2. Place(ks[c + 1]) < Place(ks[i]) BY <1>1, <3>3, <5>1, SortedOK
        <5> QED BY <2>6, <2>20, <3>2, <3>5, <5>1, <5>2
      <4> QED BY <4>1
    <3>9. Passed(x, c + 1) BY <3>6, <3>7, <3>8
    <3> QED BY <2>4, <3>3, <3>9
  <2> QED BY <2>12, <2>13
<1>9. PICK c \in 0 .. m : Passed(n, c)
  <2>1. n \in 0 .. n /\ n \notin Bad BY <1>5, <1>8
  <2> QED BY <2>1
<1>10. c = m
  <2>1. SUFFICES ASSUME c # m PROVE FALSE OBVIOUS
  <2>4. c \in Nat /\ m \in Nat /\ c < m
    <3> HIDE DEF m, Passed
    <3> QED BY <1>1, <1>9, <2>1
  <2>2. c + 1 \in c + 1 .. m /\ c + 1 \in 1 .. m
    <3> HIDE DEF m, Passed
    <3> QED BY <2>4
  <2>3. Place(ks[c + 1]) > n /\ Place(ks[c + 1]) \in 1 .. n BY <1>2, <1>9, <2>2, PlaceOK
  <2> QED BY <1>5, <2>3
<1>11. FlattenSeq(all) = FlattenSeq(own)
  <2>1. Joint(all, n) = FlattenSeq(all) /\ Joint(own, m) = FlattenSeq(own)
    BY <1>4, <1>7, JointOK
  <2> QED BY <1>9, <1>10, <2>1
<1>12. Enclosed("d", all) = Enclosed("d", own) BY <1>11 DEF Enclosed
<1> QED BY <1>4, <1>12 DEF all, own

-----------------------------------------------------------------------------
(* An encoding is read in one way: of two, neither begins with the other.  *)

Agree(a, b) == \A i \in 1 .. Len(a) : i <= Len(b) => a[i] = b[i]

(* Parts that begin with a token other than 'e'. *)
Headed(parts) ==
  /\ parts \in Seq(Seq(Tokens))
  /\ \A k \in 1 .. Len(parts) : Len(parts[k]) >= 1 /\ parts[k][1].t # "e"

LEMMA EndsSame ==
  ASSUME NEW p \in Seq(Seq(Tokens)), NEW q \in Seq(Seq(Tokens)),
         NEW k \in Nat, k <= Len(p), k <= Len(q), \A i \in 1 .. k : p[i] = q[i]
  PROVE  Ends(p)[k] = Ends(q)[k]
<1> DEFINE x == Ends(p)
           y == Ends(q)
<1>1. /\ x[0] = 0 /\ y[0] = 0
      /\ \A i \in 1 .. Len(p) : x[i] = x[i - 1] + Len(p[i])
      /\ \A i \in 1 .. Len(q) : y[i] = y[i - 1] + Len(q[i])
  BY EndsAre
<1>2. Len(p) \in Nat /\ Len(q) \in Nat OBVIOUS
<1> HIDE DEF x, y
<1> DEFINE Bad == { i \in 0 .. k : x[i] # y[i] }
<1>3. SUFFICES ASSUME Bad # {} PROVE FALSE BY DEF x, y
<1>4. Bad \subseteq Nat OBVIOUS
<1> HIDE DEF Bad
<1>5. PICK i \in Bad : \A j \in Bad : i <= j BY <1>3, <1>4, LeastNumber
<1>6. i \in Nat /\ i - 1 \notin Bad BY <1>4, <1>5
<1> USE DEF Bad
<1>7. i \in 0 .. k /\ x[i] # y[i] BY <1>5
<1>8. i # 0 BY <1>1, <1>7
<1>9. i \in 1 .. Len(p) /\ i \in 1 .. Len(q) /\ i \in 1 .. k /\ i - 1 \in 0 .. k
  BY <1>2, <1>7, <1>8
<1>10. x[i - 1] = y[i - 1] BY <1>6, <1>9
<1>11. p[i] = q[i] BY <1>9
<1> QED BY <1>1, <1>7, <1>9, <1>10, <1>11

(* Where the parts agree as far as both go, they are the same. *)
LEMMA PartsBegin ==
  ASSUME NEW t \in {"l", "d"}, NEW u \in {"l", "d"}, NEW p, Headed(p), NEW q, Headed(q),
         \A k \in 1 .. Len(p) : k <= Len(q) /\ Agree(p[k], q[k]) => p[k] = q[k],
         Agree(Enclosed(t, p), Enclosed(u, q))
  PROVE  Len(p) <= Len(q) /\ \A k \in 1 .. Len(p) : p[k] = q[k]
<1> DEFINE a == Enclosed(t, p)
           b == Enclosed(u, q)
           n == Len(p)
           m == Len(q)
           x == Ends(p)
           y == Ends(q)
<1>1. p \in Seq(Seq(Tokens)) /\ q \in Seq(Seq(Tokens)) BY DEF Headed
<1>2. n \in Nat /\ m \in Nat BY <1>1
<1>3. /\ Len(a) = x[n] + 2 /\ Len(b) = y[m] + 2 /\ b[y[m] + 2] = Mark("e")
      /\ \A k \in 1 .. n : \A j \in 1 .. Len(p[k]) : a[1 + x[k - 1] + j] = p[k][j]
      /\ \A k \in 1 .. m : \A j \in 1 .. Len(q[k]) : b[1 + y[k - 1] + j] = q[k][j]
  BY <1>1, EnclosedOK
<1>4. /\ \A k \in 0 .. n : x[k] \in Nat
      /\ \A k \in 0 .. m : y[k] \in Nat
      /\ \A k \in 1 .. n : x[k] = x[k - 1] + Len(p[k])
      /\ \A k \in 1 .. m : y[k] = y[k - 1] + Len(q[k])
      /\ \A j, k \in 0 .. n : j <= k => x[j] <= x[k]
      /\ \A j, k \in 0 .. m : j <= k => y[j] <= y[k]
  BY <1>1, EndsAre
<1>5. /\ \A k \in 1 .. n : Len(p[k]) \in Nat /\ Len(p[k]) >= 1 /\ p[k][1].t # "e"
      /\ \A k \in 1 .. m : Len(q[k]) \in Nat
  <2>1. \A k \in 1 .. n : p[k] \in Seq(Tokens) BY <1>1, ElementOf
  <2>2. \A k \in 1 .. m : q[k] \in Seq(Tokens) BY <1>1, ElementOf
  <2> QED BY <2>1, <2>2 DEF Headed
<1>6. \A i \in 1 .. Len(a) : i <= Len(b) => a[i] = b[i] BY DEF Agree
<1>7. \A k \in Nat : k <= n /\ k <= m /\ (\A i \in 1 .. k : p[i] = q[i]) => x[k] = y[k]
  BY <1>1, EndsSame
<1> HIDE DEF a, b, x, y
<1> DEFINE Bad == { k \in 1 .. n : ~ (k <= m /\ p[k] = q[k]) }
<1>8. Bad = {}
  <2>1. SUFFICES ASSUME Bad # {} PROVE FALSE OBVIOUS
  <2>2. Bad \subseteq Nat BY <1>2
  <2> HIDE DEF Bad
  <2>3. PICK k \in Bad : \A j \in Bad : k <= j BY <2>1, <2>2, LeastNumber
  <2>4. k \in Nat /\ \A j \in Nat : j < k => j \notin Bad BY <2>2, <2>3
  <2> USE DEF Bad
  <2>5. k \in 1 .. n /\ ~ (k <= m /\ p[k] = q[k]) BY <2>3
  <2>6. PICK h : h = k - 1 OBVIOUS
  <2>7. h \in Nat /\ h <= n /\ h \in 0 .. n /\ h + 1 = k BY <1>2, <2>5, <2>6
  <2>8. \A j \in 1 .. h : j <= m /\ p[j] = q[j]
    <3>1. \A j \in 1 .. h : j \in Nat /\ j < k /\ j \in 1 .. n BY <2>4, <2>5, <2>7
    <3> QED BY <2>4, <3>1
  <2>9. h <= m
    <3>1. h # 0 => h \in 1 .. h BY <2>7
    <3> QED BY <1>2, <2>7, <2>8, <3>1
  <2>10. x[h] = y[h] BY <1>7, <2>7, <2>8, <2>9
  <2>11. PICK o : o = x[h] OBVIOUS
  <2>12. /\ o \in Nat /\ o + Len(p[k]) <= x[n] /\ x[n] \in Nat
         /\ \A j \in 1 .. Len(p[k]) : a[1 + o + j] = p[k][j]
    <3>1. x[k] = o + Len(p[k]) /\ x[k] <= x[n] /\ o \in Nat /\ x[n] \in Nat
      <4>1. k \in 0 .. n /\ n \in 0 .. n /\ k <= n BY <1>2, <2>5
      <4> QED BY <1>4, <2>5, <2>6, <2>7, <2>11, <4>1
    <3> QED BY <1>3, <2>5, <2>6, <2>11, <3>1
  <2>13. Len(p[k]) \in Nat /\ Len(p[k]) >= 1 /\ p[k][1].t # "e" BY <1>5, <2>5
  <2>14. k <= m
    <3>1. SUFFICES ASSUME h = m PROVE FALSE BY <1>2, <2>7, <2>9
    <3>2. b[o + 2] = Mark("e") /\ Len(b) = o + 2 BY <1>3, <2>10, <2>11, <3>1
    <3>3. a[1 + o + 1] = p[k][1] BY <2>12, <2>13
    <3>4. o + 2 \in 1 .. Len(a) /\ o + 2 <= Len(b) /\ 1 + o + 1 = o + 2
      BY <1>3, <2>12, <2>13, <3>2
    <3>5. p[k][1] = Mark("e") BY <1>6, <3>2, <3>3, <3>4
    <3> QED BY <2>13, <3>5, TokensOK
  <2>15. /\ o + Len(q[k]) <= y[m] /\ y[m] \in Nat /\ Len(q[k]) \in Nat
         /\ \A j \in 1 .. Len(q[k]) : b[1 + o + j] = q[k][j]
    <3>0. k \in 1 .. m /\ k \in 0 .. m /\ m \in 0 .. m /\ k <= m BY <1>2, <2>5, <2>14
    <3>1. y[k] = o + Len(q[k]) /\ y[k] <= y[m] /\ y[m] \in Nat
      BY <1>4, <2>6, <2>10, <2>11, <3>0
    <3> QED BY <1>3, <1>5, <2>6, <2>10, <2>11, <3>0, <3>1
  <2>16. Agree(p[k], q[k])
    <3>1. ASSUME NEW i \in 1 .. Len(p[k]), i <= Len(q[k]) PROVE p[k][i] = q[k][i]
      <4>1. a[1 + o + i] = p[k][i] /\ b[1 + o + i] = q[k][i]
        BY <2>12, <2>13, <2>15, <3>1
      <4>2. 1 + o + i \in 1 .. Len(a) /\ 1 + o + i <= Len(b)
        <5>1. PICK c, d, e, g : c = Len(p[k]) /\ d = Len(q[k]) /\ e = x[n] /\ g = y[m] OBVIOUS
        <5>2. /\ c \in Nat /\ d \in Nat /\ e \in Nat /\ g \in Nat /\ i \in 1 .. c /\ i <= d
              /\ o \in Nat /\ o + c <= e /\ o + d <= g /\ Len(a) = e + 2 /\ Len(b) = g + 2
          BY <1>3, <2>12, <2>13, <2>15, <3>1, <5>1
        <5> QED BY <5>2
      <4> QED BY <1>6, <4>1, <4>2
    <3> QED BY <3>1 DEF Agree
  <2> QED BY <2>5, <2>14, <2>16
<1>9. \A k \in 1 .. n : k <= m /\ p[k] = q[k] BY <1>8
<1>10. n <= m
  <2>1. n # 0 => n \in 1 .. n BY <1>2
  <2> QED BY <1>2, <1>9, <2>1
<1> QED BY <1>9, <1>10

LEMMA PartsAgree ==
  ASSUME NEW t \in {"l", "d"}, NEW u \in {"l", "d"}, NEW p, Headed(p), NEW q, Headed(q),
         \A k \in 1 .. Len(p) : k <= Len(q) /\ Agree(p[k], q[k]) => p[k] = q[k],
         Agree(Enclosed(t, p), Enclosed(u, q))
  PROVE  t = u /\ p = q
<1>1. p \in Seq(Seq(Tokens)) /\ q \in Seq(Seq(Tokens)) BY DEF Headed
<1>2. PICK n, m : n = Len(p) /\ m = Len(q) OBVIOUS
<1>3. n \in Nat /\ m \in Nat BY <1>1, <1>2
<1>4. n <= m /\ \A k \in 1 .. n : p[k] = q[k] BY <1>2, PartsBegin
<1>5. /\ \A k \in 1 .. Len(q) : k <= Len(p) /\ Agree(q[k], p[k]) => q[k] = p[k]
      /\ Agree(Enclosed(u, q), Enclosed(t, p))
  <2>1. \A k \in 1 .. Len(q) : k <= Len(p) => q[k] = p[k] BY <1>2, <1>3, <1>4
  <2>2. Enclosed(t, p) \in Seq(Tokens) /\ Enclosed(u, q) \in Seq(Tokens)
    BY <1>1, EnclosedOK
  <2>3. PICK a, b : a = Enclosed(t, p) /\ b = Enclosed(u, q) OBVIOUS
  <2>4. Len(a) \in Nat /\ Len(b) \in Nat /\ Agree(a, b) BY <2>2, <2>3
  <2>5. Agree(b, a) BY <2>4 DEF Agree
  <2> QED BY <2>1, <2>3, <2>5
<1>6. m <= n BY <1>2, <1>5, PartsBegin
<1>7. n = m BY <1>3, <1>4, <1>6
<1>8. p = [k \in 1 .. n |-> p[k]] /\ q = [k \in 1 .. m |-> q[k]] BY <1>1, <1>2
<1>9. p = q BY <1>4, <1>7, <1>8
<1>10. t = u
  <2>1. /\ Enclosed(t, p)[1] = Mark(t) /\ Enclosed(u, q)[1] = Mark(u)
        /\ Len(Enclosed(t, p)) = Ends(p)[n] + 2 /\ Len(Enclosed(u, q)) = Ends(q)[m] + 2
    BY <1>1, <1>2, EnclosedOK
  <2>2. Ends(p)[n] \in Nat /\ Ends(q)[m] \in Nat
    <3>1. n \in 0 .. n /\ m \in 0 .. m BY <1>3
    <3> QED BY <1>1, <1>2, <3>1, EndsAre
  <2>3. 1 \in 1 .. Len(Enclosed(t, p)) /\ 1 <= Len(Enclosed(u, q)) BY <2>1, <2>2
  <2>4. Mark(t) = Mark(u) BY <2>1, <2>3 DEF Agree
  <2> QED BY <2>4, TokensOK
<1> QED BY <1>9, <1>10

(* What the first token is. *)
Letter(type) == CASE type = "integer" -> "i" [] type = "string" -> "s"
                  [] type = "list" -> "l" [] OTHER -> "d"

Starts(text, type) ==
  /\ text \in Seq(Tokens) /\ Len(text) >= 1
  /\ text[1].t = Letter(type)

LEMMA LetterOK ==
  /\ \A type : Letter(type) # "e"
  /\ \A a, b \in {"integer", "string", "list", "dict"} : Letter(a) = Letter(b) => a = b
BY DEF Letter

LEMMA HeadedEach ==
  ASSUME NEW D, NEW f, NEW s \in Seq(D), \A x \in D : Starts(f[x], x.type)
  PROVE  /\ Headed(Each(f, s)) /\ Len(Each(f, s)) = Len(s)
         /\ \A k \in 1 .. Len(s) : Each(f, s)[k] = f[s[k]]
<1>1. Len(s) \in Nat /\ DOMAIN s = 1 .. Len(s) OBVIOUS
<1>2. \A k \in 1 .. Len(s) : s[k] \in D BY ElementOf
<1>3. Each(f, s) = [k \in 1 .. Len(s) |-> f[s[k]]] BY <1>1 DEF Each
<1>4. \A k \in 1 .. Len(s) : f[s[k]] \in Seq(Tokens) /\ Len(f[s[k]]) >= 1 /\ f[s[k]][1].t # "e"
  BY <1>2, LetterOK DEF Starts
<1>5. Each(f, s) \in Seq(Seq(Tokens)) /\ Len(Each(f, s)) = Len(s) BY <1>1, <1>3, <1>4
<1> QED BY <1>3, <1>4, <1>5 DEF Headed

LEMMA SequenceOf ==
  ASSUME NEW S, NEW n \in Nat, NEW p, p = [k \in 1 .. n |-> p[k]], \A k \in 1 .. n : p[k] \in S
  PROVE  p \in Seq(S) /\ Len(p) = n
OBVIOUS

LEMMA HeadedNamed ==
  ASSUME NEW n \in Nat, NEW ks, NEW ts, NEW p, p = [k \in 1 .. n |-> Named(ks[k], ts[k])],
         \A k \in 1 .. n : ks[k] \in STRING /\ ts[k] \in Seq(Tokens)
  PROVE  Headed(p) /\ Len(p) = n
<1>1. \A k \in 1 .. n : p[k] = Named(ks[k], ts[k]) OBVIOUS
<1>2. \A k \in 1 .. n : ts[k] \in Seq(Tokens) /\ Len(ts[k]) \in Nat OBVIOUS
<1>3. \A k \in 1 .. n : /\ p[k] \in Seq(Tokens) /\ Len(p[k]) = 1 + Len(ts[k])
                        /\ p[k][1] = StrToken(ks[k], TRUE)
  BY <1>1, NamedOK
<1>4. \A s : StrToken(s, TRUE).t = "s" BY DEF StrToken
<1>10. \A l \in Nat : 1 + l >= 1 OBVIOUS
<1>5. \A k \in 1 .. n : Len(p[k]) >= 1 BY <1>2, <1>3, <1>10, Zenon
<1>7. \A k \in 1 .. n : p[k][1].t = "s" BY <1>3, <1>4, Zenon
<1>8. \A k \in 1 .. n : p[k][1].t # "e" BY <1>7
<1>9. p = [k \in 1 .. n |-> p[k]] /\ \A k \in 1 .. n : p[k] \in Seq(Tokens) BY <1>1, <1>3
<1>6. p \in Seq(Seq(Tokens)) /\ Len(p) = n BY <1>9, SequenceOf
<1> QED BY <1>5, <1>6, <1>8 DEF Headed

LEMMA NamedAgree ==
  ASSUME NEW key \in STRING, NEW other \in STRING, NEW a \in Seq(Tokens), NEW b \in Seq(Tokens),
         Agree(Named(key, a), Named(other, b))
  PROVE  key = other /\ Agree(a, b)
<1>1. PICK c, d : c = Named(key, a) /\ d = Named(other, b) OBVIOUS
<1>2. /\ Len(c) = 1 + Len(a) /\ c[1] = StrToken(key, TRUE)
      /\ \A j \in 1 .. Len(a) : c[1 + j] = a[j]
      /\ Len(d) = 1 + Len(b) /\ d[1] = StrToken(other, TRUE)
      /\ \A j \in 1 .. Len(b) : d[1 + j] = b[j]
  BY <1>1, NamedOK
<1>3. Len(a) \in Nat /\ Len(b) \in Nat OBVIOUS
<1>4. \A i \in 1 .. Len(c) : i <= Len(d) => c[i] = d[i] BY <1>1 DEF Agree
<1>5. key = other
  <2>2. 1 \in 1 .. Len(c) /\ 1 <= Len(d) BY <1>2, <1>3
  <2>1. c[1] = d[1] BY <1>4, <2>2
  <2> QED BY <1>2, <2>1 DEF StrToken
<1>6. ASSUME NEW i \in 1 .. Len(a), i <= Len(b) PROVE a[i] = b[i]
  <2>1. 1 + i \in 1 .. Len(c) /\ 1 + i <= Len(d) /\ i \in 1 .. Len(b) BY <1>2, <1>3, <1>6
  <2> QED BY <1>2, <1>4, <2>1
<1> QED BY <1>5, <1>6 DEF Agree

LEMMA EncodeScalar ==
  ASSUME NEW v \in Values
  PROVE  /\ v.type = "integer" => /\ Encode[v] = <<IntToken(v.n, TRUE)>>
                                  /\ v.n \in Nat /\ v = Number(v.n)
         /\ v.type = "string" => /\ Encode[v] = <<StrToken(v.s, TRUE)>>
                                 /\ v.s \in STRING /\ v = Str(v.s)
<1>1. v \in ValueLevel(Values) BY TreesUnfold
<1>2. Encode[v] = EncodeBody(v, Encode) BY FunctionsAre
<1> QED BY <1>1, <1>2, SimpleOrMore DEF EncodeBody

LEMMA EncodeOpen ==
  ASSUME NEW V, NEW v \in Values, v \in ValueLevel(V), \A x \in V : Starts(Encode[x], x.type)
  PROVE  /\ v.type = "list" =>
              /\ v.items \in Seq(V) /\ v = List(v.items) /\ Headed(Each(Encode, v.items))
              /\ Encode[v] = Enclosed("l", Each(Encode, v.items))
         /\ v.type = "dict" =>
              /\ v.map \in [Names -> V \cup {Absent}] /\ v = Dict(v.map)
              /\ \A ks : Lists(ks, v.map) =>
                   /\ Headed(Pairs(Encode, v.map, ks))
                   /\ Len(Pairs(Encode, v.map, ks)) = Len(ks)
                   /\ Encode[v] = Enclosed("d", Pairs(Encode, v.map, ks))
<1>1. Encode[v] = EncodeBody(v, Encode) BY FunctionsAre
<1>2. ASSUME v.type = "list"
      PROVE  /\ v.items \in Seq(V) /\ v = List(v.items) /\ Headed(Each(Encode, v.items))
             /\ Encode[v] = Enclosed("l", Each(Encode, v.items))
  <2>1. v.items \in Seq(V) /\ v = List(v.items) BY <1>2, SimpleOrMore
  <2>2. Headed(Each(Encode, v.items)) BY <2>1, HeadedEach
  <2> QED BY <1>1, <1>2, <2>1, <2>2 DEF EncodeBody
<1>3. ASSUME v.type = "dict"
      PROVE  v.map \in [Names -> V \cup {Absent}] /\ v = Dict(v.map)
  BY <1>3, SimpleOrMore
<1>4. ASSUME v.type = "dict", NEW ks, Lists(ks, v.map)
      PROVE  /\ Headed(Pairs(Encode, v.map, ks)) /\ Len(Pairs(Encode, v.map, ks)) = Len(ks)
             /\ Encode[v] = Enclosed("d", Pairs(Encode, v.map, ks))
  <2>1. PICK map : map = v.map OBVIOUS
  <2>2. map \in [Names -> V \cup {Absent}] /\ Lists(ks, map) BY <1>3, <1>4, <2>1
  <2>3. \A key \in Names : map[key] # Absent => Encode[map[key]] \in Seq(Tokens)
    BY <2>2 DEF Starts
  <2>4. Enclosed("d", InOrder(Encode, map)) = Enclosed("d", Pairs(Encode, map, ks))
    BY <2>2, <2>3, InOrderOK
  <2>5. Encode[v] = Enclosed("d", InOrder(Encode, map)) BY <1>1, <1>4, <2>1 DEF EncodeBody
  <2>6. Len(ks) \in Nat /\ \A k \in 1 .. Len(ks) : ks[k] \in Names /\ map[ks[k]] # Absent
    <3>1. ks \in Seq(Names) BY <2>2 DEF Lists
    <3>2. DOMAIN ks = 1 .. Len(ks) /\ Len(ks) \in Nat BY <3>1
    <3>3. \A k \in 1 .. Len(ks) : ks[k] \in Names BY <3>1, ElementOf
    <3> QED BY <2>2, <3>2, <3>3 DEF Lists
  <2>7. PICK ts : ts = [k \in 1 .. Len(ks) |-> Encode[map[ks[k]]]] OBVIOUS
  <2>8. \A k \in 1 .. Len(ks) : ks[k] \in STRING /\ ts[k] \in Seq(Tokens)
    BY <2>3, <2>6, <2>7, NamesOK
  <2>9. Pairs(Encode, map, ks) = [k \in 1 .. Len(ks) |-> Named(ks[k], ts[k])]
    BY <2>7 DEF Pairs
  <2>10. Headed(Pairs(Encode, map, ks)) /\ Len(Pairs(Encode, map, ks)) = Len(ks)
    <3>1. PICK p, n : p = Pairs(Encode, map, ks) /\ n = Len(ks) OBVIOUS
    <3>2. /\ n \in Nat /\ p = [k \in 1 .. n |-> Named(ks[k], ts[k])]
          /\ \A k \in 1 .. n : ks[k] \in STRING /\ ts[k] \in Seq(Tokens)
      BY <2>6, <2>8, <2>9, <3>1
    <3>3. Headed(p) /\ Len(p) = n BY <3>2, HeadedNamed
    <3> QED BY <3>1, <3>3
  <2> QED BY <2>1, <2>4, <2>5, <2>10
<1> QED BY <1>2, <1>3, <1>4

LEMMA EncodeTyped == \A v \in Values : Starts(Encode[v], v.type)
<1> DEFINE S == { v \in Values : Starts(Encode[v], v.type) }
<1>0. \A t : Mark(t).t = t BY DEF Mark
<1>1. ASSUME NEW v \in Values, v \in ValueLevel(S) PROVE v \in S
  <2>1. CASE v.type = "integer"
    <3>1. PICK x : x = IntToken(v.n, TRUE) OBVIOUS
    <3>2. Encode[v] = <<x>> /\ x \in Tokens /\ x.t = "i"
      <4>1. Encode[v] = <<IntToken(v.n, TRUE)>> /\ v.n \in Nat BY <2>1, EncodeScalar
      <4>2. IntToken(v.n, TRUE) \in Tokens BY <4>1, TokensOK
      <4> QED BY <3>1, <4>1, <4>2 DEF IntToken
    <3>3. Encode[v] \in Seq(Tokens) /\ Len(Encode[v]) = 1 /\ Encode[v][1] = x BY <3>2, One
    <3>4. Encode[v][1].t = "i" BY <3>2, <3>3, Zenon
    <3>5. Letter(v.type) = "i" BY <2>1 DEF Letter
    <3> QED BY <3>3, <3>4, <3>5 DEF Starts
  <2>2. CASE v.type = "string"
    <3>1. PICK x : x = StrToken(v.s, TRUE) OBVIOUS
    <3>2. Encode[v] = <<x>> /\ x \in Tokens /\ x.t = "s"
      <4>1. Encode[v] = <<StrToken(v.s, TRUE)>> /\ v.s \in STRING BY <2>2, EncodeScalar
      <4>2. StrToken(v.s, TRUE) \in Tokens BY <4>1, TokensOK
      <4> QED BY <3>1, <4>1, <4>2 DEF StrToken
    <3>3. Encode[v] \in Seq(Tokens) /\ Len(Encode[v]) = 1 /\ Encode[v][1] = x BY <3>2, One
    <3>4. Encode[v][1].t = "s" BY <3>2, <3>3, Zenon
    <3>5. Letter(v.type) = "s" BY <2>2 DEF Letter
    <3> QED BY <3>3, <3>4, <3>5 DEF Starts
  <2>3. ASSUME NEW t \in {"l", "d"}, NEW p, Headed(p), Encode[v] = Enclosed(t, p)
        PROVE  Encode[v] \in Seq(Tokens) /\ Len(Encode[v]) >= 1 /\ Encode[v][1].t = t
    <3>1. p \in Seq(Seq(Tokens)) BY <2>3 DEF Headed
    <3>2. PICK n : n = Len(p) OBVIOUS
    <3>3. n \in Nat /\ n \in 0 .. n BY <3>1, <3>2
    <3>4. Ends(p)[n] \in Nat BY <3>1, <3>2, <3>3, EndsAre
    <3>5. /\ Enclosed(t, p) \in Seq(Tokens) /\ Len(Enclosed(t, p)) = Ends(p)[n] + 2
          /\ Enclosed(t, p)[1] = Mark(t)
      BY <3>1, <3>2, EnclosedOK
    <3> QED BY <1>0, <2>3, <3>4, <3>5
  <2>4. \A x \in S : Starts(Encode[x], x.type) OBVIOUS
  <2> HIDE DEF S
  <2>5. CASE v.type = "list"
    <3>1. Headed(Each(Encode, v.items)) /\ Encode[v] = Enclosed("l", Each(Encode, v.items))
      BY <1>1, <2>4, <2>5, EncodeOpen
    <3>2. Encode[v] \in Seq(Tokens) /\ Len(Encode[v]) >= 1 /\ Encode[v][1].t = "l"
      BY <2>3, <3>1
    <3> QED BY <1>1, <2>5, <3>2 DEF S, Starts, Letter
  <2>6. CASE v.type = "dict"
    <3>1. PICK ks : Lists(ks, v.map) BY ListExists
    <3>2. /\ Headed(Pairs(Encode, v.map, ks))
          /\ Encode[v] = Enclosed("d", Pairs(Encode, v.map, ks))
      BY <1>1, <2>4, <2>6, <3>1, EncodeOpen
    <3>3. Encode[v] \in Seq(Tokens) /\ Len(Encode[v]) >= 1 /\ Encode[v][1].t = "d"
      BY <2>3, <3>2
    <3> QED BY <1>1, <2>6, <3>3 DEF S, Starts, Letter
  <2> QED BY <1>1, <2>1, <2>2, <2>5, <2>6, SimpleOrMore
<1>2. Values \cap ValueLevel(S) \subseteq S BY <1>1
<1>3. Values \subseteq S
  <2> HIDE DEF S
  <2> QED BY <1>2, ValueInduction
<1> QED BY <1>3

LEMMA EmitStarts == \A node \in Trees : Starts(Emit[node], node.type)
<1>1. ASSUME NEW node \in Trees PROVE Starts(Emit[node], node.type)
  <2>1. Emit[node] \in Seq(Tokens) /\ Len(Emit[node]) >= 1 BY EmitTyped, EmitLength
  <2>2. Emit[node][1].t = Letter(node.type) BY FirstToken DEF Letter
  <2> QED BY <2>1, <2>2 DEF Starts
<1> QED BY <1>1

(* A canonical tree is what encode makes of its meaning. *)
LEMMA CanonicalEncoded ==
  \A node \in Trees : Canonical[node] => Encode[Meaning[node]] = Emit[node]
<1> DEFINE S == { node \in Trees : Canonical[node] => Encode[Meaning[node]] = Emit[node] }
<1>1. ASSUME NEW node \in Trees, node \in TreeLevel(S), Canonical[node]
      PROVE  Encode[Meaning[node]] = Emit[node]
  <2>0. PICK v : v = Meaning[node] OBVIOUS
  <2>1. v \in Values BY <2>0, MeaningTyped
  <2>2. /\ Canonical[node] = CanonicalBody(node, Canonical)
        /\ Emit[node] = EmitBody(node, Emit) /\ v = MeaningBody(node, Meaning)
        /\ Encode[v] = EncodeBody(v, Encode)
    BY <2>0, <2>1, FunctionsAre
  <2>3. CASE node.type = "integer"
    <3>1. node.plain \in BOOLEAN /\ node.plain BY <1>1, <2>2, <2>3, ScalarOrMore DEF CanonicalBody
    <3>2. v = Number(node.n) BY <2>2, <2>3 DEF MeaningBody
    <3>3. v.type = "integer" /\ v.n = node.n BY <3>2 DEF Number
    <3>4. Encode[v] = <<IntToken(node.n, TRUE)>> BY <2>1, <3>3, EncodeScalar
    <3>5. Emit[node] = <<IntToken(node.n, node.plain)>> BY <2>2, <2>3 DEF EmitBody
    <3>6. node.plain = TRUE BY <3>1
    <3> QED BY <2>0, <3>4, <3>5, <3>6
  <2>4. CASE node.type = "string"
    <3>1. node.plain \in BOOLEAN /\ node.plain BY <1>1, <2>2, <2>4, ScalarOrMore DEF CanonicalBody
    <3>2. v = Str(node.s) BY <2>2, <2>4 DEF MeaningBody
    <3>3. v.type = "string" /\ v.s = node.s BY <3>2 DEF Str
    <3>4. Encode[v] = <<StrToken(node.s, TRUE)>> BY <2>1, <3>3, EncodeScalar
    <3>5. Emit[node] = <<StrToken(node.s, node.plain)>> BY <2>2, <2>4 DEF EmitBody
    <3>6. node.plain = TRUE BY <3>1
    <3> QED BY <2>0, <3>4, <3>5, <3>6
  <2>5. CASE node.type = "list"
    <3>1. PICK s : s = node.items OBVIOUS
    <3>2. s \in Seq(S) BY <1>1, <2>5, <3>1, ScalarOrMore
    <3>3. \A k \in DOMAIN s : Canonical[s[k]] BY <1>1, <2>2, <2>5, <3>1 DEF CanonicalBody
    <3>4. \A k \in DOMAIN s : Encode[Meaning[s[k]]] = Emit[s[k]] BY <3>2, <3>3, ElementOf
    <3>5. v = List(Each(Meaning, s)) BY <2>2, <2>5, <3>1 DEF MeaningBody
    <3>6. v.type = "list" /\ v.items = Each(Meaning, s) BY <3>5 DEF List
    <3>7. Encode[v] = Enclosed("l", Each(Encode, Each(Meaning, s)))
      BY <2>2, <3>6 DEF EncodeBody
    <3>8. Each(Encode, Each(Meaning, s)) = Each(Emit, s) BY <3>4 DEF Each
    <3>9. Emit[node] = Enclosed("l", Each(Emit, s)) BY <2>2, <2>5, <3>1 DEF EmitBody
    <3> QED BY <2>0, <3>7, <3>8, <3>9
  <2>6. CASE node.type = "dict"
    <3>1. PICK s : s = node.entries OBVIOUS
    <3>2. s \in Seq([key : Names, node : S]) BY <1>1, <2>6, <3>1, ScalarOrMore
    <3>3. PICK n : n = Len(s) OBVIOUS
    <3>4. n \in Nat /\ DOMAIN s = 1 .. n BY <3>2, <3>3
    <3>5. \A k \in 1 .. n : s[k].key \in Names /\ s[k].node \in S
      <4>1. \A k \in 1 .. n : s[k] \in [key : Names, node : S] BY <3>2, <3>4, ElementOf
      <4> QED BY <4>1
    <3>6. /\ \A k \in 2 .. n : Before(s[k - 1].key, s[k].key)
          /\ \A k \in 1 .. n : Canonical[s[k].node]
      BY <1>1, <2>2, <2>6, <3>1, <3>3, <3>4 DEF CanonicalBody
    <3>7. PICK ks : ks = [k \in 1 .. n |-> s[k].key] OBVIOUS
    <3>8. /\ ks \in Seq(Names) /\ Len(ks) = n /\ DOMAIN ks = 1 .. n
          /\ \A k \in 1 .. n : ks[k] = s[k].key
      BY <3>4, <3>5, <3>7
    <3>9. Sorted(ks)
      <4>1. \A k \in 2 .. n : k \in 1 .. n /\ k - 1 \in 1 .. n BY <3>4
      <4> QED BY <3>6, <3>8, <4>1 DEF Sorted
    <3>10. PICK map : map = MapOf(Meaning, node) OBVIOUS
    <3>11. \A k \in 1 .. n : map[ks[k]] = Meaning[s[k].node]
      <4>1. ASSUME NEW k \in 1 .. n PROVE map[ks[k]] = Meaning[s[k].node]
        <5>1. ks[k] \in Names /\ ks[k] \in Keys(node)
          BY <3>1, <3>4, <3>5, <3>8 DEF Keys
        <5>2. PICK j \in 1 .. n : s[j].key = ks[k] /\ Child(node, ks[k]) = s[j].node
          BY <3>1, <3>4, <5>1, ChildIs
        <5>3. j = k
          <6>1. SUFFICES ASSUME j # k PROVE FALSE OBVIOUS
          <6>2. j < k \/ k < j BY <3>4, <6>1
          <6>3. ks[j] = ks[k] BY <3>8, <5>2
          <6>4. Place(ks[j]) < Place(ks[k]) \/ Place(ks[k]) < Place(ks[j])
            BY <3>8, <3>9, <6>2, SortedOK
          <6>5. Place(ks[k]) \in Nat BY <5>1, PlaceOK
          <6> QED BY <6>3, <6>4, <6>5
        <5> QED BY <3>10, <5>1, <5>2, <5>3 DEF MapOf
      <4> QED BY <4>1
    <3>12. Lists(ks, map)
      <4>1. ASSUME NEW key \in Names
            PROVE  map[key] # Absent <=> \E k \in DOMAIN ks : ks[k] = key
        <5>1. CASE key \in Keys(node)
          <6>1. PICK k \in 1 .. n : s[k].key = key BY <3>1, <3>4, <5>1 DEF Keys
          <6>2. map[key] = Meaning[s[k].node] BY <3>8, <3>11, <6>1
          <6>3. Meaning[s[k].node] \in Values BY <3>5, MeaningTyped
          <6> QED BY <3>8, <6>1, <6>2, <6>3, ValuesPresent
        <5>2. CASE key \notin Keys(node)
          <6>1. map[key] = Absent BY <3>10, <5>2 DEF MapOf
          <6>2. \A k \in DOMAIN ks : ks[k] # key BY <3>1, <3>4, <3>8, <5>2 DEF Keys
          <6> QED BY <6>1, <6>2
        <5> QED BY <5>1, <5>2
      <4> QED BY <3>8, <3>9, <4>1 DEF Lists
    <3>13. v = Dict(map) BY <2>2, <2>6, <3>10 DEF MeaningBody
    <3>14. v.type = "dict" /\ v.map = map BY <3>13 DEF Dict
    <3>15. Encode[v] = Enclosed("d", Pairs(Encode, map, ks))
      BY <2>1, <3>12, <3>14, TreesUnfold, EncodeTyped, EncodeOpen
    <3>16. \A k \in 1 .. n : Encode[map[ks[k]]] = Emit[s[k].node] BY <3>5, <3>6, <3>11
    <3>17. Pairs(Encode, map, ks) = EachNamed(Emit, s)
      BY <3>4, <3>8, <3>16 DEF Pairs, EachNamed
    <3>18. Emit[node] = Enclosed("d", EachNamed(Emit, s)) BY <2>2, <2>6, <3>1 DEF EmitBody
    <3> QED BY <2>0, <3>15, <3>17, <3>18
  <2> QED BY <1>1, <2>3, <2>4, <2>5, <2>6, ScalarOrMore
<1>2. Trees \cap TreeLevel(S) \subseteq S BY <1>1
<1>3. Trees \subseteq S
  <2> HIDE DEF S
  <2> QED BY <1>2, TreeInduction
<1> QED BY <1>3

(* And no other tree looks like an encoding, nor begins with one, or one   *)
(* with it.                                                                *)
LEMMA EncodedCanonical ==
  \A node \in Trees : \A v \in Values :
    Agree(Encode[v], Emit[node]) => Canonical[node] /\ Meaning[node] = v
<1> DEFINE S == { node \in Trees : \A v \in Values :
                    Agree(Encode[v], Emit[node]) => Canonical[node] /\ Meaning[node] = v }
<1>0. \A node \in S : \A v \in Values :
        Agree(Encode[v], Emit[node]) =>
          Canonical[node] /\ Meaning[node] = v /\ Encode[v] = Emit[node]
  BY CanonicalEncoded
<1>1. ASSUME NEW node \in Trees, node \in TreeLevel(S), NEW v \in Values,
             Agree(Encode[v], Emit[node])
      PROVE  Canonical[node] /\ Meaning[node] = v
  <2> HIDE DEF S
  <2>1. S \subseteq Trees BY DEF S
  <2>2. /\ Canonical[node] = CanonicalBody(node, Canonical)
        /\ Emit[node] = EmitBody(node, Emit) /\ Meaning[node] = MeaningBody(node, Meaning)
    BY FunctionsAre
  <2>3. Starts(Encode[v], v.type) /\ Starts(Emit[node], node.type) BY EncodeTyped, EmitStarts
  <2>4. Encode[v][1] = Emit[node][1] /\ v.type = node.type
    <3>1. Len(Encode[v]) \in Nat BY <2>3 DEF Starts
    <3>2. 1 \in 1 .. Len(Encode[v]) /\ 1 <= Len(Emit[node]) BY <2>3, <3>1 DEF Starts
    <3>3. Encode[v][1] = Emit[node][1] BY <1>1, <3>2 DEF Agree
    <3>4. Letter(v.type) = Letter(node.type) BY <2>3, <3>3 DEF Starts
    <3>5. v.type \in {"integer", "string", "list", "dict"} BY InsideOK
    <3>6. node.type \in {"integer", "string", "list", "dict"} BY <1>1, ScalarOrMore
    <3> QED BY <3>3, <3>4, <3>5, <3>6, LetterOK
  <2>5. CASE node.type = "integer"
    <3>1. Encode[v] = <<IntToken(v.n, TRUE)>> /\ v = Number(v.n) BY <2>4, <2>5, EncodeScalar
    <3>2. Emit[node] = <<IntToken(node.n, node.plain)>> BY <2>2, <2>5 DEF EmitBody
    <3>3. PICK x, y : x = IntToken(v.n, TRUE) /\ y = IntToken(node.n, node.plain) OBVIOUS
    <3>4. x = y
      <4>1. Encode[v] = <<x>> /\ Emit[node] = <<y>> BY <3>1, <3>2, <3>3
      <4>2. <<x>>[1] = x /\ <<y>>[1] = y OBVIOUS
      <4> QED BY <2>4, <4>1, <4>2, Zenon
    <3>5. node.n = v.n /\ node.plain = TRUE
      <4>1. \A i, b : IntToken(i, b).n = i BY DEF IntToken
      <4>2. \A i, b : IntToken(i, b).plain = b BY Zenon DEF IntToken
      <4>3. x.n = v.n /\ x.plain = TRUE BY <3>3, <4>1, <4>2, Zenon
      <4>4. y.n = node.n /\ y.plain = node.plain BY <3>3, <4>1, <4>2, Zenon
      <4> QED BY <3>4, <4>3, <4>4, Zenon
    <3> QED BY <2>2, <2>5, <3>1, <3>5 DEF CanonicalBody, MeaningBody
  <2>6. CASE node.type = "string"
    <3>1. Encode[v] = <<StrToken(v.s, TRUE)>> /\ v = Str(v.s) BY <2>4, <2>6, EncodeScalar
    <3>2. Emit[node] = <<StrToken(node.s, node.plain)>> BY <2>2, <2>6 DEF EmitBody
    <3>3. PICK x, y : x = StrToken(v.s, TRUE) /\ y = StrToken(node.s, node.plain) OBVIOUS
    <3>4. x = y
      <4>1. Encode[v] = <<x>> /\ Emit[node] = <<y>> BY <3>1, <3>2, <3>3
      <4>2. <<x>>[1] = x /\ <<y>>[1] = y OBVIOUS
      <4> QED BY <2>4, <4>1, <4>2, Zenon
    <3>5. node.s = v.s /\ node.plain = TRUE BY <3>3, <3>4 DEF StrToken
    <3> QED BY <2>2, <2>6, <3>1, <3>5 DEF CanonicalBody, MeaningBody
  <2>7. CASE node.type = "list"
    <3>1. PICK s, w : s = node.items /\ w = v.items OBVIOUS
    <3>2. s \in Seq(S) BY <1>1, <2>7, <3>1, ScalarOrMore
    <3>3. /\ w \in Seq(Values) /\ v = List(w) /\ Headed(Each(Encode, w))
          /\ Encode[v] = Enclosed("l", Each(Encode, w))
      BY <2>4, <2>7, <3>1, TreesUnfold, EncodeTyped, EncodeOpen
    <3>4. /\ Headed(Each(Emit, s)) /\ Len(Each(Emit, s)) = Len(s)
          /\ \A k \in 1 .. Len(s) : Each(Emit, s)[k] = Emit[s[k]]
      <4>1. \A x \in S : Starts(Emit[x], x.type) BY <2>1, EmitStarts
      <4> QED BY <3>2, <4>1, HeadedEach
    <3>5. /\ Len(Each(Encode, w)) = Len(w)
          /\ \A k \in 1 .. Len(w) : Each(Encode, w)[k] = Encode[w[k]]
      <4>1. \A x \in Values : Starts(Encode[x], x.type) BY EncodeTyped
      <4> QED BY <3>3, <4>1, HeadedEach
    <3>6. PICK p, q : p = Each(Encode, w) /\ q = Each(Emit, s) OBVIOUS
    <3>7. Len(s) \in Nat /\ Len(w) \in Nat /\ DOMAIN s = 1 .. Len(s) /\ DOMAIN w = 1 .. Len(w)
      BY <3>2, <3>3
    <3>8. /\ \A k \in 1 .. Len(s) : s[k] \in S
          /\ \A k \in 1 .. Len(w) : w[k] \in Values
      BY <3>2, <3>3, ElementOf
    <3>9. \A k \in 1 .. Len(w) : k <= Len(s) /\ Agree(p[k], q[k]) =>
            Canonical[s[k]] /\ Meaning[s[k]] = w[k] /\ p[k] = q[k]
      <4>1. ASSUME NEW k \in 1 .. Len(w), k <= Len(s), Agree(p[k], q[k])
            PROVE  Canonical[s[k]] /\ Meaning[s[k]] = w[k] /\ p[k] = q[k]
        <5>1. k \in 1 .. Len(s) BY <3>7, <4>1
        <5>2. p[k] = Encode[w[k]] /\ q[k] = Emit[s[k]] BY <3>4, <3>5, <3>6, <5>1
        <5> QED BY <1>0, <3>8, <4>1, <5>1, <5>2
      <4> QED BY <4>1
    <3>10. p = q
      <4>1. Emit[node] = Enclosed("l", q) BY <2>2, <2>7, <3>1, <3>6 DEF EmitBody
      <4>2. Agree(Enclosed("l", p), Enclosed("l", q)) BY <1>1, <3>3, <3>6, <4>1
      <4>3. Headed(p) /\ Headed(q) /\ Len(p) = Len(w) /\ Len(q) = Len(s)
        BY <3>3, <3>4, <3>5, <3>6
      <4>4. \A k \in 1 .. Len(p) : k <= Len(q) /\ Agree(p[k], q[k]) => p[k] = q[k]
        BY <3>9, <4>3
      <4> QED BY <4>2, <4>3, <4>4, PartsAgree
    <3>11. Len(s) = Len(w) BY <3>4, <3>5, <3>6, <3>10
    <3>12. \A k \in 1 .. Len(s) : Canonical[s[k]] /\ Meaning[s[k]] = w[k]
      <4>1. \A x : Agree(x, x) BY DEF Agree
      <4>2. \A k \in 1 .. Len(s) : k \in 1 .. Len(w) /\ k <= Len(s) /\ Agree(p[k], q[k])
        BY <3>7, <3>10, <3>11, <4>1
      <4> QED BY <3>9, <4>2
    <3>13. Canonical[node] BY <2>2, <2>7, <3>1, <3>7, <3>12 DEF CanonicalBody
    <3>14. Each(Meaning, s) = w
      <4>1. Each(Meaning, s) = [k \in 1 .. Len(s) |-> Meaning[s[k]]] BY <3>7 DEF Each
      <4>2. w = [k \in 1 .. Len(w) |-> w[k]] BY <3>3
      <4> QED BY <3>11, <3>12, <4>1, <4>2
    <3>15. Meaning[node] = List(Each(Meaning, s)) BY <2>2, <2>7, <3>1 DEF MeaningBody
    <3> QED BY <3>3, <3>13, <3>14, <3>15
  <2>8. CASE node.type = "dict"
    <3>1. PICK s, map : s = node.entries /\ map = v.map OBVIOUS
    <3>2. s \in Seq([key : Names, node : S]) BY <1>1, <2>8, <3>1, ScalarOrMore
    <3>3. PICK ks : Lists(ks, map) BY ListExists
    <3>4. /\ map \in [Names -> Values \cup {Absent}] /\ v = Dict(map)
          /\ Headed(Pairs(Encode, map, ks)) /\ Len(Pairs(Encode, map, ks)) = Len(ks)
          /\ Encode[v] = Enclosed("d", Pairs(Encode, map, ks))
      BY <2>4, <2>8, <3>1, <3>3, TreesUnfold, EncodeTyped, EncodeOpen
    <3>5. PICK n, m : n = Len(s) /\ m = Len(ks) OBVIOUS
    <3>6. /\ n \in Nat /\ DOMAIN s = 1 .. n /\ m \in Nat /\ DOMAIN ks = 1 .. m
          /\ ks \in Seq(Names) /\ Sorted(ks)
      BY <3>2, <3>3, <3>5 DEF Lists
    <3>7. \A k \in 1 .. n : s[k].key \in Names /\ s[k].node \in S
      <4>1. \A k \in 1 .. n : s[k] \in [key : Names, node : S] BY <3>2, <3>6, ElementOf
      <4> QED BY <4>1
    <3>8. \A k \in 1 .. m : ks[k] \in Names /\ map[ks[k]] \in Values
      <4>1. \A k \in 1 .. m : ks[k] \in Names BY <3>6, ElementOf
      <4>2. \A k \in 1 .. m : map[ks[k]] # Absent BY <3>3, <3>6, <4>1 DEF Lists
      <4> QED BY <3>4, <4>1, <4>2
    <3>9. PICK p, q : p = Pairs(Encode, map, ks) /\ q = EachNamed(Emit, s) OBVIOUS
    <3>10. \A k \in 1 .. m : p[k] = Named(ks[k], Encode[map[ks[k]]]) BY <3>5, <3>9 DEF Pairs
    <3>11. \A k \in 1 .. n : q[k] = Named(s[k].key, Emit[s[k].node])
      BY <3>6, <3>9 DEF EachNamed
    <3>12. Headed(q) /\ Len(q) = n
      <4>1. PICK ls, ts : /\ ls = [k \in 1 .. n |-> s[k].key]
                          /\ ts = [k \in 1 .. n |-> Emit[s[k].node]]
        OBVIOUS
      <4>2. q = [k \in 1 .. n |-> Named(ls[k], ts[k])] BY <3>6, <3>9, <4>1 DEF EachNamed
      <4>3. \A k \in 1 .. n : ls[k] \in STRING /\ ts[k] \in Seq(Tokens)
        BY <2>1, <3>7, <4>1, NamesOK, EmitTyped
      <4> QED BY <3>6, <4>2, <4>3, HeadedNamed
    <3>13. \A k \in 1 .. m : k <= n /\ Agree(p[k], q[k]) =>
             /\ ks[k] = s[k].key /\ Canonical[s[k].node] /\ Meaning[s[k].node] = map[ks[k]]
             /\ p[k] = q[k]
      <4>1. ASSUME NEW k \in 1 .. m, k <= n, Agree(p[k], q[k])
            PROVE  /\ ks[k] = s[k].key /\ Canonical[s[k].node]
                   /\ Meaning[s[k].node] = map[ks[k]] /\ p[k] = q[k]
        <5>1. k \in 1 .. n BY <3>6, <4>1
        <5>2. PICK a, b, c, d : /\ a = ks[k] /\ b = s[k].key
                                /\ c = Encode[map[ks[k]]] /\ d = Emit[s[k].node]
          OBVIOUS
        <5>3. p[k] = Named(a, c) /\ q[k] = Named(b, d) BY <3>10, <3>11, <5>1, <5>2
        <5>4. a \in STRING /\ b \in STRING /\ c \in Seq(Tokens) /\ d \in Seq(Tokens)
          <6>1. Starts(c, map[ks[k]].type) BY <3>8, <5>2, EncodeTyped
          <6>2. d \in Seq(Tokens) BY <2>1, <3>7, <5>1, <5>2, EmitTyped
          <6> QED BY <3>7, <3>8, <5>1, <5>2, <6>1, <6>2, NamesOK DEF Starts
        <5>5. a = b /\ Agree(c, d)
          <6>1. Agree(Named(a, c), Named(b, d)) BY <4>1, <5>3
          <6> QED BY <5>4, <6>1, NamedAgree
        <5>6. Canonical[s[k].node] /\ Meaning[s[k].node] = map[ks[k]] /\ c = d
          BY <1>0, <3>7, <3>8, <5>1, <5>2, <5>5
        <5> QED BY <5>2, <5>3, <5>5, <5>6
      <4> QED BY <4>1
    <3>14. p = q
      <4>1. Emit[node] = Enclosed("d", q) BY <2>2, <2>8, <3>1, <3>9 DEF EmitBody
      <4>2. Agree(Enclosed("d", p), Enclosed("d", q)) BY <1>1, <3>4, <3>9, <4>1
      <4>3. Headed(p) /\ Headed(q) /\ Len(p) = m /\ Len(q) = n
        BY <3>4, <3>5, <3>9, <3>12
      <4>4. \A k \in 1 .. Len(p) : k <= Len(q) /\ Agree(p[k], q[k]) => p[k] = q[k]
        BY <3>13, <4>3
      <4> QED BY <4>2, <4>3, <4>4, PartsAgree
    <3>15. n = m BY <3>4, <3>5, <3>9, <3>12, <3>14
    <3>16. \A k \in 1 .. n : /\ ks[k] = s[k].key /\ Canonical[s[k].node]
                             /\ Meaning[s[k].node] = map[ks[k]]
      <4>1. \A x : Agree(x, x) BY DEF Agree
      <4>2. \A k \in 1 .. n : k \in 1 .. m /\ k <= n /\ Agree(p[k], q[k])
        BY <3>6, <3>14, <3>15, <4>1
      <4> QED BY <3>13, <4>2
    <3>17. Canonical[node]
      <4>1. \A k \in 2 .. n : k \in 1 .. n /\ k - 1 \in 1 .. n BY <3>6
      <4>2. \A k \in 2 .. n : Before(s[k - 1].key, s[k].key)
        BY <3>5, <3>6, <3>15, <3>16, <4>1 DEF Sorted
      <4> QED BY <2>2, <2>8, <3>1, <3>5, <3>6, <3>16, <4>2 DEF CanonicalBody
    <3>18. MapOf(Meaning, node) = map
      <4>1. ASSUME NEW key \in Names PROVE MapOf(Meaning, node)[key] = map[key]
        <5>1. CASE key \in Keys(node)
          <6>1. PICK k \in 1 .. n : s[k].key = key /\ Child(node, key) = s[k].node
            BY <3>1, <3>6, <5>1, ChildIs
          <6> QED BY <3>16, <5>1, <6>1 DEF MapOf
        <5>2. CASE key \notin Keys(node)
          <6>1. \A k \in 1 .. n : s[k].key # key BY <3>1, <3>6, <5>2 DEF Keys
          <6>2. \A k \in DOMAIN ks : ks[k] # key BY <3>6, <3>15, <3>16, <6>1
          <6>3. map[key] = Absent BY <3>3, <6>2 DEF Lists
          <6> QED BY <5>2, <6>3 DEF MapOf
        <5> QED BY <5>1, <5>2
      <4> QED BY <3>4, <4>1 DEF MapOf
    <3>19. Meaning[node] = Dict(MapOf(Meaning, node)) BY <2>2, <2>8 DEF MeaningBody
    <3> QED BY <3>4, <3>17, <3>18, <3>19
  <2> QED BY <1>1, <2>5, <2>6, <2>7, <2>8, ScalarOrMore
<1>2. Trees \cap TreeLevel(S) \subseteq S BY <1>1
<1>3. Trees \subseteq S
  <2> HIDE DEF S
  <2> QED BY <1>2, TreeInduction
<1> QED BY <1>3

-----------------------------------------------------------------------------
(* The info hash.                                                          *)

(* What is hashed is the encoding of the dictionary as it is then. *)
HashTaken ==
  phase \in {"files", "single", "size", "create", "ready"} => info_str = Encode[info]

LEMMA InitHash == ParseInit => HashTaken
BY DEF ParseInit, HashTaken

LEMMA StepHash == ASSUME HashTaken, [Next]_allVars PROVE HashTaken'
<1>1. CASE Element
  <2>1. phase' \in {"decode", "info", "rejected"}
    BY <1>1 DEF Element, CloseContainer, StoreScalar, OpenContainer, DecodeError, Complete,
       ElementFollows
  <2> QED BY <2>1 DEF HashTaken
<1>2. CASE ReadInfo BY <1>2 DEF ReadInfo, HashTaken
<1>3. CASE ReadFile \/ FilesRead \/ ReadSingle \/ TakeSize \/ CreateFiles
  <2>1. info' = info /\ info_str' = info_str
        /\ phase \in {"files", "single", "size", "create"}
    BY <1>3 DEF ReadFile, FilesRead, ReadSingle, TakeSize, CreateFiles
  <2> QED BY <2>1 DEF HashTaken
<1>4. CASE Start BY <1>4 DEF Start, HashTaken
<1>5. CASE UNCHANGED metaVars BY <1>5 DEF metaVars, HashTaken
<1>6. Quiet \/ UNCHANGED allVars => UNCHANGED metaVars BY DEF Quiet, allVars
<1> QED BY <1>1, <1>2, <1>3, <1>4, <1>5, <1>6 DEF Next, ParseNext, Element

(* The dictionary with what operator[] added is a value no deeper than it  *)
(* was, and the same where there was nothing to add.                       *)
LEMMA TouchedTyped ==
  ASSUME NEW node \in Values, node.type = "dict", NEW key \in Names
  PROVE  /\ Touched(node, key) \in Values
         /\ Touched(node, key).map[key] # Absent
         /\ Has(node, key) => Touched(node, key) = node
<1>0. Depth \in Nat BY MetaInfoAssumption
<1>1. Depth # 0
  <2>1. SUFFICES ASSUME Depth = 0 PROVE FALSE OBVIOUS
  <2>2. node \in Simple BY <2>1, ValuesToAre DEF Values
  <2> QED BY <2>2 DEF Simple
<1>2. PICK V : V = ValuesTo[Depth - 1] OBVIOUS
<1>3. Values = ValueLevel(V)
  <2>1. Depth \in 1 .. Depth BY <1>0, <1>1
  <2> QED BY <1>2, <2>1, ValuesToAre DEF Values
<1>4. V \subseteq Values /\ Simple \subseteq V
  <2>1. Depth - 1 \in 0 .. Depth BY <1>0, <1>1
  <2>2. V \subseteq Values BY <1>2, <2>1, LevelsWithin
  <2>3. CASE Depth - 1 = 0 BY <1>2, <2>2, <2>3, ValuesToAre
  <2>4. CASE Depth - 1 # 0
    <3>1. Depth - 1 \in 1 .. Depth BY <1>0, <1>1, <2>4
    <3>2. PICK e : e = (Depth - 1) - 1 OBVIOUS
    <3>3. V = ValueLevel(ValuesTo[e]) BY <1>2, <3>1, <3>2, ValuesToAre
    <3> QED BY <2>2, <3>3 DEF ValueLevel
  <2> QED BY <2>2, <2>3, <2>4
<1>5. node.map \in [Names -> V \cup {Absent}] /\ node = Dict(node.map)
  BY <1>3, SimpleOrMore
<1>6. PICK map, v : map = node.map /\ v = Get(node, key) OBVIOUS
<1>7. v \in V
  <2>1. 0 \in Nat OBVIOUS
  <2>2. Number(0) \in Simple BY <2>1 DEF Number, Simple
  <2> QED BY <1>4, <1>5, <1>6, <2>2 DEF Get, Has
<1>8. PICK next : next = [map EXCEPT ![key] = v] OBVIOUS
<1>9. next \in [Names -> V \cup {Absent}] /\ next[key] = v BY <1>5, <1>6, <1>7, <1>8
<1>10. Touched(node, key) = Dict(next)
  <2>1. Dict(map).type = "dict" /\ Dict(map).map = map BY DEF Dict
  <2>2. Touched(node, key) = [Dict(map) EXCEPT !.map[key] = v]
    BY <1>5, <1>6, <2>1 DEF Touched, Put
  <2> QED BY <1>8, <2>2 DEF Dict
<1>11. Dict(next) \in DictsOf(V) /\ Dict(next).map = next BY <1>9 DEF DictsOf, Dict
<1>12. v # Absent BY <1>4, <1>7, ValuesPresent
<1>13. ASSUME Has(node, key) PROVE Dict(next) = node
  <2>1. v = map[key] BY <1>6, <1>13 DEF Get
  <2>2. next = map BY <1>5, <1>6, <1>8, <2>1
  <2> QED BY <1>5, <1>6, <2>2
<1> QED BY <1>3, <1>9, <1>10, <1>11, <1>12, <1>13 DEF ValueLevel

LEMMA HashAsWritten == ASSUME DecodeInv, GeometryInv, HashTaken PROVE InfoHashKept
<1>1. SUFFICES ASSUME Decoded, phase # "info"
               PROVE  LET node == Child(source.tree, "info")
                      IN  info_str = Emit[node] <=> Canonical[node] /\ "piece length" \in Keys(node)
  BY DEF InfoHashKept
<1>2. phase \in {"files", "single", "size", "create", "ready"} BY <1>1 DEF Decoded
<1>3. source.tree \in Trees /\ value = Meaning[source.tree]
  BY <1>1, <1>2 DEF DecodeInv, SourceOK, DecodesAsWritten
<1>4. PICK root, v, key : root = source.tree /\ v = InfoOf(value) /\ key = "piece length"
  OBVIOUS
<1>5. v.type = "dict" /\ info = Touched(v, key) /\ info_str = Encode[info]
  BY <1>2, <1>4 DEF GeometryInv, InfoTaken, HashTaken
<1>6. key \in Names /\ "info" \in Names BY <1>4, KeysOK
<1>7. \A n : Number(n).type # "dict" BY DEF Number
<1>8. value.type = "dict" /\ v = value.map["info"]
  BY <1>4, <1>5, <1>7 DEF InfoOf, Get
<1>9. /\ root.type = "dict" /\ "info" \in Keys(root)
      /\ v = Meaning[Child(root, "info")]
  <2>1. value = MeaningBody(root, Meaning) BY <1>3, <1>4, FunctionsAre
  <2>2. root \in TreeLevel(Trees) BY <1>3, <1>4, TreesUnfold
  <2>3. root.type = "dict"
    <3>1. \A n, s : Number(n).type = "integer" /\ Str(s).type = "string" /\ List(s).type = "list"
      BY DEF Number, Str, List
    <3> QED BY <1>8, <2>1, <2>2, <3>1, ScalarOrMore DEF MeaningBody
  <2>4. value.map = MapOf(Meaning, root) BY <2>1, <2>3 DEF MeaningBody, Dict
  <2>5. "info" \in Keys(root)
    <3>1. Absent.type # "dict" BY DEF Absent
    <3> QED BY <1>5, <1>6, <1>8, <2>4, <3>1 DEF MapOf
  <2> QED BY <1>6, <1>8, <2>3, <2>4, <2>5 DEF MapOf
<1>10. PICK node : node = Child(root, "info") OBVIOUS
<1>11. node \in Trees
  <2>1. root.entries \in Seq([key : Names, node : Trees])
    BY <1>3, <1>4, <1>9, TreesUnfold, ScalarOrMore
  <2>2. PICK k \in DOMAIN root.entries : node = root.entries[k].node
    BY <1>9, <1>10, ChildIs
  <2>3. root.entries[k] \in [key : Names, node : Trees] BY <2>1, ElementOf
  <2> QED BY <2>2, <2>3
<1>12. v = Meaning[node] /\ v \in Values BY <1>9, <1>10, <1>11, MeaningTyped
<1>13. info \in Values /\ info.map[key] # Absent /\ (Has(v, key) => info = v)
  BY <1>5, <1>6, <1>12, TouchedTyped
<1>14. Has(v, key) <=> key \in Keys(node)
  <2>1. v = MeaningBody(node, Meaning) BY <1>11, <1>12, FunctionsAre
  <2>2. node \in TreeLevel(Trees) BY <1>11, TreesUnfold
  <2>3. node.type = "dict"
    <3>1. \A n, s : Number(n).type = "integer" /\ Str(s).type = "string" /\ List(s).type = "list"
      BY DEF Number, Str, List
    <3> QED BY <1>5, <2>1, <2>2, <3>1, ScalarOrMore DEF MeaningBody
  <2>4. v.map = MapOf(Meaning, node) BY <2>1, <2>3 DEF MeaningBody, Dict
  <2>5. CASE key \in Keys(node)
    <3>1. Child(node, key) \in Trees
      <4>1. node.entries \in Seq([key : Names, node : Trees]) BY <2>2, <2>3, ScalarOrMore
      <4>2. PICK k \in DOMAIN node.entries : Child(node, key) = node.entries[k].node
        BY <2>5, ChildIs
      <4>3. node.entries[k] \in [key : Names, node : Trees] BY <4>1, ElementOf
      <4> QED BY <4>2, <4>3
    <3>2. v.map[key] \in Values BY <1>6, <2>4, <2>5, <3>1, MeaningTyped DEF MapOf
    <3> QED BY <2>5, <3>2, ValuesPresent DEF Has
  <2>6. CASE key \notin Keys(node) BY <1>6, <2>4, <2>6 DEF MapOf, Has
  <2> QED BY <2>5, <2>6
<1>15. ASSUME info_str = Emit[node] PROVE Canonical[node] /\ key \in Keys(node)
  <2>1. Agree(Encode[info], Emit[node]) BY <1>5, <1>15 DEF Agree
  <2>2. Canonical[node] /\ Meaning[node] = info BY <1>11, <1>13, <2>1, EncodedCanonical
  <2>3. Has(v, key) BY <1>12, <1>13, <2>2 DEF Has
  <2> QED BY <1>14, <2>2, <2>3
<1>16. ASSUME Canonical[node], key \in Keys(node) PROVE info_str = Emit[node]
  <2>1. info = Meaning[node] BY <1>12, <1>13, <1>14, <1>16
  <2>2. Encode[Meaning[node]] = Emit[node] BY <1>11, <1>16, CanonicalEncoded
  <2> QED BY <1>5, <2>1, <2>2
<1> QED BY <1>4, <1>10, <1>15, <1>16

(* The hash under which the program asks for a torrent is the one all      *)
(* other clients use exactly when the info dictionary of the metainfo file *)
(* is canonical and has a piece length: what encode writes is read in one  *)
(* way, and no other tree looks like it.                                   *)
THEOREM InfoHashTaken == Spec => []InfoHashKept
<1>1. Init => HashTaken BY InitHash DEF Init
<1>2. HashTaken /\ [Next]_allVars => HashTaken' BY StepHash
<1>3. DecodeInv /\ GeometryInv /\ HashTaken => InfoHashKept BY HashAsWritten
<1> QED BY <1>1, <1>2, <1>3, ParseKept, PTL DEF Spec

-----------------------------------------------------------------------------
(* The files.                                                              *)

(* What dirfilecreation is given is a torrent FileLayout opens: it has a   *)
(* byte, in one of its files.                                              *)
LEMMA StartOpens == ASSUME GeometryInv, Start PROVE Open
<1>1. /\ trk \in Trk /\ trk.length > 0 /\ trk.pieceLength > 0
      /\ trk.mode = "MULTIPLE" => Summed(trk.length_list, trk.length)
  BY DEF Start, GeometryInv, ParseTypes, FilesTaken, PiecesTaken
<1>2. PICK m, lengths, size :
        /\ m = trk.mode /\ size = trk.pieceLength
        /\ lengths = IF m = "SINGLE" THEN <<trk.length>> ELSE trk.length_list
  OBVIOUS
<1>3. m \in {"SINGLE", "MULTIPLE"} /\ size \in Nat \ {0} BY <1>1, <1>2 DEF Trk
<1>4. /\ lengths \in Seq(Nat) /\ \E f \in DOMAIN lengths : lengths[f] > 0
      /\ m = "SINGLE" => Len(lengths) = 1
  <2>1. CASE m = "SINGLE"
    <3>1. PICK n : n = trk.length OBVIOUS
    <3>2. n \in Nat /\ n > 0 /\ lengths = <<n>> BY <1>1, <1>2, <2>1, <3>1 DEF Trk
    <3> QED BY <3>2
  <2>2. CASE m # "SINGLE"
    <3>1. PICK l, n : l = trk.length_list /\ n = trk.length OBVIOUS
    <3>2. l \in Seq(Nat) /\ n # 0 /\ Summed(l, n) /\ lengths = l
      BY <1>1, <1>2, <1>3, <2>2, <3>1 DEF Trk
    <3>3. \E f \in DOMAIN l : l[f] > 0 BY <3>2, SummedPositive
    <3> QED BY <2>2, <3>2, <3>3
  <2> QED BY <2>1, <2>2
<1>5. PICK old \in [DOMAIN lengths -> OldSizes] : Create(m, lengths, size, old)
  BY <1>2 DEF Start
<1>6. old \in [DOMAIN lengths -> Nat] BY TorrentFilesAssumption
<1> QED BY <1>3, <1>4, <1>5, <1>6 DEF Open

LEMMA StepKeepsLayout == ASSUME GeometryInv, [Next]_allVars PROVE [LayoutNext]_vars
<1>1. CASE Start BY <1>1, StartOpens DEF LayoutNext
<1>2. CASE Loops \/ Calls BY <1>2 DEF LayoutNext
<1>3. CASE UNCHANGED vars BY <1>3
<1>4. UNCHANGED allVars => UNCHANGED vars BY DEF allVars
<1> QED BY <1>1, <1>2, <1>3, <1>4 DEF Next, Quiet

(* The program opens, writes and reads its files as FileLayout does, and   *)
(* only torrents that FileLayout knows: dirfilecreation gets nothing else  *)
(* from parseMetaFile, whatever the metainfo file.                         *)
THEOREM FilesKeepLayout == Spec => LayoutSpec
<1>1. Init => Blank BY DEF Init
<1>2. GeometryInv /\ [Next]_allVars => [LayoutNext]_vars BY StepKeepsLayout
<1> QED BY <1>1, <1>2, ParseKept, PTL DEF Spec, LayoutSpec

(* The variables of both parts. *)
THEOREM TorrentTypes == Spec => []TypesOK
<1>1. DecodeInv /\ GeometryInv => ValuesOK BY ParseTypesOK
<1>2. TypeOK /\ ValuesOK => TypesOK BY DEF TypesOK
<1> QED BY <1>1, <1>2, ParseKept, FilesKeepLayout, LayoutTypes, PTL

(* From the bytes of the metainfo file to the files on the disk: nothing   *)
(* is written where it does not belong, all of a piece that was written is *)
(* there, and what is sent for a block is the block.                       *)
THEOREM TorrentKept == Spec => [](NothingMisplaced /\ PiecesStored /\ BlockSent)
BY FilesKeepLayout, LayoutKept, LayoutComplete, LayoutBlocks, PTL
=============================================================================
