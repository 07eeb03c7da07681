--------------------------- MODULE Parser_proofs ---------------------------
(***************************************************************************)
(* Theorems of Parser, for all lists of tokens: it stays inside of them,   *)
(* every step takes it on or ends it, and the trees it builds are those of *)
(* the grammar and have every token.                                       *)
(***************************************************************************)
EXTENDS Evaluate, Lemmas

N == Len(tokens)
Listed == tokens \in Seq(Range(tokens))

LEMMA PeekInside ==
  ASSUME Listed, NEW p \in Nat, Peek(p) # MadeUp
  PROVE  p < N /\ Peek(p) = tokens[p + 1] /\ Peek(p) \in Range(tokens)
<1>1. N \in Nat
  BY DEF Listed, N
<1>2. p < N /\ Peek(p) = tokens[p + 1]
  BY <1>1 DEF Peek, N
<1>3. p + 1 \in DOMAIN tokens
  BY <1>1, <1>2 DEF Listed, N
<1> QED
  BY <1>2, <1>3, Zenon DEF Range

LEMMA PeekPast ==
  ASSUME Listed, NEW p \in Nat, N <= p
  PROVE  Peek(p) = MadeUp
BY DEF Peek, N, Listed

-----------------------------------------------------------------------------
(* The recursive functions are what their definitions say *)

UnaryAt(p, next) ==
    IF Peek(p) = "-"
      THEN {Parsed(NegNode(operand.node), operand.pos) : operand \in next}
      ELSE Primary(p)

(* From a place behind the last token back to the first.                    *)
LEMMA UnaryExists ==
  ASSUME Listed
  PROVE  \E f : f = [p \in Nat |-> UnaryAt(p, f[p + 1])]
<1> DEFINE From(f, k) ==
             /\ f = [p \in Nat |-> f[p]]
             /\ \A p \in Nat : p >= k => f[p] = UnaryAt(p, f[p + 1])
           T == {k \in Nat : \E f : From(f, k)}
<1>1. N \in Nat
  BY DEF Listed, N
<1>2. N \in T
  <2> DEFINE g == [p \in Nat |-> Primary(p)]
  <2>1. \A p \in Nat : p >= N => Peek(p) # "-"
    BY PeekPast DEF MadeUp
  <2>2. \A p \in Nat : p >= N => UnaryAt(p, g[p + 1]) = Primary(p)
    BY <2>1, Zenon DEF UnaryAt
  <2>3. \A p \in Nat : g[p] = Primary(p)
    OBVIOUS
  <2>4. From(g, N)
    BY <2>2, <2>3, Zenon
  <2> QED
    BY <1>1, <2>4, Zenon
<1>3. PICK k \in T : \A j \in T : k <= j
  <2>1. T \subseteq Nat /\ T # {}
    BY <1>2, Zenon
  <2> HIDE DEF T
  <2> QED
    BY <2>1, LeastNat, Zenon
<1>4. ASSUME NEW j \in Nat, k = j + 1
      PROVE  FALSE
  <2>1. PICK f : From(f, k)
    BY <1>3, Zenon
  <2> DEFINE v == UnaryAt(j, f[k])
             g == [p \in Nat |-> IF p = j THEN v ELSE f[p]]
  <2>2. g = [p \in Nat |-> g[p]]
    BY Zenon
  <2>3. ASSUME NEW p \in Nat, p >= j
        PROVE  g[p] = UnaryAt(p, g[p + 1])
    <3>0. p + 1 \in Nat /\ p + 1 # j
      BY <2>3
    <3>1. g[p + 1] = f[p + 1]
      BY <3>0, Zenon
    <3>2. CASE p = j
      <4>1. g[p] = v
        BY <3>2, Zenon
      <4>2. g[p + 1] = f[k]
        BY <3>1, <3>2, <1>4, Zenon
      <4> QED
        BY <4>1, <4>2, <3>2, Zenon
    <3>3. CASE p # j
      <4>1. p >= k
        BY <1>4, <2>3, <3>3
      <4>2. f[p] = UnaryAt(p, f[p + 1])
        BY <2>1, <4>1, Zenon
      <4> QED
        BY <3>1, <3>3, <4>2, Zenon
    <3> QED
      BY <3>2, <3>3, Zenon
  <2>4. From(g, j)
    BY <2>2, <2>3, Zenon
  <2>5. j \in T
    BY <2>4, Zenon
  <2> HIDE DEF T
  <2> QED
    BY <1>3, <1>4, <2>5
<1>5. k = 0
  <2>1. k \in Nat
    BY <1>3, Zenon
  <2>2. k # 0 => k - 1 \in Nat /\ k = (k - 1) + 1
    BY <2>1
  <2> QED
    BY <1>4, <2>2, Zenon
<1>6. PICK f : From(f, 0)
  BY <1>3, <1>5, Zenon
<1>7. \A p \in Nat : f[p] = UnaryAt(p, f[p + 1])
  BY <1>6
<1> QED
  BY <1>6, <1>7, Zenon

LEMMA UnaryIs ==
  ASSUME Listed, NEW p \in Nat
  PROVE  Unary[p] = UnaryAt(p, Unary[p + 1])
<1> DEFINE IsUnary(f) == f = [q \in Nat |-> UnaryAt(q, f[q + 1])]
<1>1. Unary = CHOOSE f : IsUnary(f)
  BY Zenon DEF Unary, UnaryAt
<1>2. IsUnary(Unary)
  BY <1>1, UnaryExists, Zenon
<1> QED
  BY <1>2, Zenon

TurnAt(ops, Arg, lefts) ==
    UNION {IF Peek(left.pos) \in ops
             THEN {Parsed(OpNode(Peek(left.pos), left.node, right.node), right.pos) :
                     right \in Arg[left.pos + 1]}
             ELSE {left} : left \in lefts}

LEMMA TurnsAre ==
  ASSUME Listed, NEW ops, NEW Arg, NEW p
  PROVE  /\ Turns(ops, Arg, p)[0] = Arg[p]
         /\ \A n \in 1..N :
              Turns(ops, Arg, p)[n] = TurnAt(ops, Arg, Turns(ops, Arg, p)[n - 1])
<1> DEFINE At(f, n) == IF n = 0 THEN Arg[p] ELSE TurnAt(ops, Arg, f[n - 1])
           IsTurns(f, m) == f = [n \in 0..m |-> At(f, n)]
           T == {m \in Nat : ~ \E f : IsTurns(f, m)}
<1>1. N \in Nat
  BY DEF Listed, N
<1>2. ASSUME NEW m \in Nat, \E f : IsTurns(f, m)
      PROVE  \E f : IsTurns(f, m + 1)
  <2>1. PICK f : IsTurns(f, m)
    BY <1>2, Zenon
  <2> DEFINE g == [n \in 0..(m + 1) |-> IF n = m + 1 THEN TurnAt(ops, Arg, f[m]) ELSE f[n]]
  <2>2. ASSUME NEW n \in 0..(m + 1)
        PROVE  g[n] = At(g, n)
    <3>1. CASE n = m + 1
      <4>1. n # 0 /\ n - 1 = m /\ m \in 0..(m + 1) /\ m # m + 1
        BY <3>1
      <4>2. g[n] = TurnAt(ops, Arg, f[m]) /\ g[m] = f[m]
        BY <3>1, <4>1, Zenon
      <4> QED
        BY <4>1, <4>2, Zenon
    <3>2. CASE n # m + 1
      <4>1. n \in 0..m
        BY <3>2
      <4>2. f[n] = At(f, n) /\ g[n] = f[n]
        BY <2>1, <3>2, <4>1, Zenon
      <4>3. n # 0 => n - 1 \in 0..(m + 1) /\ n - 1 # m + 1
        BY <4>1
      <4>4. n # 0 => g[n - 1] = f[n - 1]
        BY <4>3, Zenon
      <4> QED
        BY <4>2, <4>4, Zenon
    <3> QED
      BY <3>1, <3>2, Zenon
  <2>3. IsTurns(g, m + 1)
    BY <2>2, Zenon
  <2> QED
    BY <2>3, Zenon
<1>3. \E f : IsTurns(f, 0)
  <2> DEFINE g == [n \in 0..0 |-> Arg[p]]
  <2>1. \A n \in 0..0 : n = 0
    OBVIOUS
  <2>2. IsTurns(g, 0)
    BY <2>1, Zenon
  <2> QED
    BY <2>2, Zenon
<1>4. \E f : IsTurns(f, N)
  <2>1. CASE T # {}
    <3>1. T \subseteq Nat
      BY Zenon
    <3>2. PICK m \in T : \A j \in T : m <= j
      <4> HIDE DEF T
      <4> QED
        BY <2>1, <3>1, LeastNat, Zenon
    <3>3. m \in Nat /\ m # 0
      BY <1>3, <3>1, <3>2, Zenon
    <3>4. m - 1 \in Nat /\ m = (m - 1) + 1 /\ ~(m <= m - 1)
      BY <3>3
    <3>5. m - 1 \notin T
      BY <3>2, <3>4, Zenon
    <3>6. \E f : IsTurns(f, m - 1)
      BY <3>4, <3>5, Zenon
    <3>7. \E f : IsTurns(f, (m - 1) + 1)
      BY <1>2, <3>4, <3>6, Zenon
    <3>8. \E f : IsTurns(f, m)
      BY <3>4, <3>7, Zenon
    <3> QED
      BY <3>2, <3>8, Zenon
  <2>2. CASE T = {}
    BY <2>2, <1>1, Zenon
  <2> QED
    BY <2>1, <2>2, Zenon
<1> DEFINE turns == Turns(ops, Arg, p)
<1>5. turns = CHOOSE f : IsTurns(f, N)
  BY Zenon DEF Turns, TurnAt, N
<1>6. IsTurns(turns, N)
  BY <1>4, <1>5, Zenon
<1>7. \A n \in 0..N : turns[n] = At(turns, n)
  BY <1>6, Zenon
<1>8. 0 \in 0..N /\ \A n \in 1..N : n \in 0..N /\ n # 0
  BY <1>1
<1> QED
  BY <1>7, <1>8, Zenon

TreesAt(d, sub) ==
    Leaves \cup IF d = 0 THEN {} ELSE
      [id : {"UNARY_OP"}, operand : sub]
      \cup [id : {"BINARY_OP"}, op : {"*", "/", "+", "-"}, left : sub, right : sub]
YieldsAt(d, sub) == [node \in Trees[d] |-> YieldFrom(node, sub)]
BinaryAt(d, ops, left, right) ==
    IF d = 0 THEN {} ELSE [id : {"BINARY_OP"}, op : ops, left : left, right : right]
UnaryTreesAt(d, sub) ==
    Leaves \cup IF d = 0 THEN {} ELSE [id : {"UNARY_OP"}, operand : sub.unary]
MultiplicationTreesAt(d, sub) ==
    UnaryTreesAt(d, sub) \cup BinaryAt(d, {"*", "/"}, sub.multiplication, sub.unary)
AdditionTreesAt(d, sub) ==
    MultiplicationTreesAt(d, sub)
    \cup BinaryAt(d, {"+", "-"}, sub.addition, sub.multiplication)
GrammarAt(d, sub) ==
    [unary |-> UnaryTreesAt(d, sub), multiplication |-> MultiplicationTreesAt(d, sub),
     addition |-> AdditionTreesAt(d, sub)]

(* What is made of a tree of what was made of the trees under it.           *)
Folds == {"evaluated", "values", "subexpressions", "labels"}
From(what, node, sub) ==
    CASE what = "evaluated" -> EvaluatedFrom(node, sub)
      [] what = "values" -> [at \in Addresses |-> ValueFrom(node, at, sub)]
      [] what = "subexpressions" -> SubexpressionsFrom(node, sub)
      [] what = "labels" -> LabelsFrom(node, sub)
FoldAt(what, d, sub) == [node \in Trees[d] |-> From(what, node, sub)]

(* What each of the functions by depth makes of its value for one less.     *)
ByDepth(what, d, sub) ==
    CASE what = "trees" -> TreesAt(d, sub)
      [] what = "yields" -> YieldsAt(d, sub)
      [] what = "grammar" -> GrammarAt(d, sub)
      [] what \in Folds -> FoldAt(what, d, sub)

LEMMA ByDepthExists ==
  ASSUME NEW what, NEW n \in Nat,
         \A x, y : ByDepth(what, 0, x) = ByDepth(what, 0, y)
  PROVE  \E f : f = [d \in 0..n |-> ByDepth(what, d, f[d - 1])]
<1> DEFINE Is(f, m) == f = [d \in 0..m |-> ByDepth(what, d, f[d - 1])]
           T == {m \in Nat : ~ \E f : Is(f, m)}
<1>2. ASSUME NEW m \in Nat, \E f : Is(f, m)
      PROVE  \E f : Is(f, m + 1)
  <2>1. PICK f : Is(f, m)
    BY <1>2, Zenon
  <2> DEFINE v == ByDepth(what, m + 1, f[m])
             g == [d \in 0..(m + 1) |-> IF d = m + 1 THEN v ELSE f[d]]
  <2>2. ASSUME NEW d \in 0..(m + 1)
        PROVE  g[d] = ByDepth(what, d, g[d - 1])
    <3>1. CASE d = m + 1
      <4>1. d - 1 = m /\ m \in 0..(m + 1) /\ m # m + 1
        BY <3>1
      <4>2. g[d] = v /\ g[m] = f[m]
        BY <3>1, <4>1, Zenon
      <4> QED
        BY <3>1, <4>1, <4>2, Zenon
    <3>2. CASE d # m + 1
      <4>1. d \in 0..m
        BY <3>2
      <4>2. f[d] = ByDepth(what, d, f[d - 1]) /\ g[d] = f[d]
        BY <2>1, <3>2, <4>1, Zenon
      <4>3. d # 0 => d - 1 \in 0..(m + 1) /\ d - 1 # m + 1
        BY <4>1
      <4>4. d # 0 => g[d - 1] = f[d - 1]
        BY <4>3, Zenon
      <4>5. CASE d = 0
        BY <4>2, <4>5, Zenon
      <4>6. CASE d # 0
        BY <4>2, <4>4, <4>6, Zenon
      <4> QED
        BY <4>5, <4>6, Zenon
    <3> QED
      BY <3>1, <3>2, Zenon
  <2>3. Is(g, m + 1)
    BY <2>2, Zenon
  <2> QED
    BY <2>3, Zenon
<1>3. \E f : Is(f, 0)
  <2> DEFINE g == [d \in 0..0 |-> ByDepth(what, 0, {})]
  <2>1. \A d \in 0..0 : d = 0
    OBVIOUS
  <2>2. \A d \in 0..0 : g[d] = ByDepth(what, d, g[d - 1])
    BY <2>1, Zenon
  <2>3. Is(g, 0)
    BY <2>2, Zenon
  <2> QED
    BY <2>3, Zenon
<1>4. T = {}
  <2>1. ASSUME T # {}
        PROVE  FALSE
    <3>1. T \subseteq Nat
      BY Zenon
    <3>2. PICK m \in T : \A j \in T : m <= j
      <4> HIDE DEF T
      <4> QED
        BY <2>1, <3>1, LeastNat, Zenon
    <3>3. m \in Nat /\ m # 0
      BY <1>3, <3>1, <3>2, Zenon
    <3>4. m - 1 \in Nat /\ m = (m - 1) + 1 /\ ~(m <= m - 1)
      BY <3>3
    <3>5. m - 1 \notin T
      BY <3>2, <3>4, Zenon
    <3>6. \E f : Is(f, m - 1)
      BY <3>4, <3>5, Zenon
    <3>7. \E f : Is(f, (m - 1) + 1)
      BY <1>2, <3>4, <3>6, Zenon
    <3>8. \E f : Is(f, m)
      BY <3>4, <3>7, Zenon
    <3> QED
      BY <3>2, <3>8, Zenon
  <2> QED
    BY <2>1, Zenon
<1> QED
  BY <1>4, Zenon

LEMMA TreesAre ==
  ASSUME Listed, NEW d \in 0..N
  PROVE  Trees[d] = TreesAt(d, Trees[d - 1])
<1> DEFINE Is(f) == f = [e \in 0..N |-> TreesAt(e, f[e - 1])]
<1>1. \A x, e : ByDepth("trees", e, x) = TreesAt(e, x)
  BY Zenon DEF ByDepth, Folds
<1>2. \A x, y : TreesAt(0, x) = TreesAt(0, y)
  BY Zenon DEF TreesAt
<1>3. \A x, y : ByDepth("trees", 0, x) = ByDepth("trees", 0, y)
  BY <1>1, <1>2, Zenon
<1>4. N \in Nat
  BY DEF Listed, N
<1>5. PICK f : f = [e \in 0..N |-> ByDepth("trees", e, f[e - 1])]
  BY <1>3, <1>4, ByDepthExists, Zenon
<1>6. Is(f)
  BY <1>1, <1>5, Zenon
<1>7. Trees = CHOOSE g : Is(g)
  BY Zenon DEF Trees, TreesAt, N
<1>8. Is(Trees)
  BY <1>6, <1>7, Zenon
<1> QED
  BY <1>8, Zenon

LEMMA YieldsAre ==
  ASSUME Listed, NEW d \in 0..N
  PROVE  Yields[d] = YieldsAt(d, Yields[d - 1])
<1> DEFINE Is(f) == f = [e \in 0..N |-> YieldsAt(e, f[e - 1])]
<1>1. \A x, e : ByDepth("yields", e, x) = YieldsAt(e, x)
  BY Zenon DEF ByDepth, Folds
<1>2. \A x, y : YieldsAt(0, x) = YieldsAt(0, y)
  <2>1. ASSUME NEW node \in Trees[0]
        PROVE  node.id # "UNARY_OP" /\ node.id # "BINARY_OP"
    <3>1. node \in TreesAt(0, Trees[0 - 1])
      <4>1. 0 \in 0..N
        BY DEF Listed, N
      <4> QED
        BY <4>1, TreesAre, Zenon
    <3>2. node \in Leaves
      BY <3>1, Zenon DEF TreesAt
    <3> QED
      BY <3>2 DEF Leaves
  <2>2. ASSUME NEW x, NEW y, NEW node \in Trees[0]
        PROVE  YieldFrom(node, x) = YieldFrom(node, y)
    BY <2>1 DEF YieldFrom
  <2> QED
    BY <2>2, Zenon DEF YieldsAt
<1>3. \A x, y : ByDepth("yields", 0, x) = ByDepth("yields", 0, y)
  BY <1>1, <1>2, Zenon
<1>4. N \in Nat
  BY DEF Listed, N
<1>5. PICK f : f = [e \in 0..N |-> ByDepth("yields", e, f[e - 1])]
  BY <1>3, <1>4, ByDepthExists, Zenon
<1>6. Is(f)
  BY <1>1, <1>5, Zenon
<1>7. Yields = CHOOSE g : Is(g)
  BY Zenon DEF Yields, YieldsAt, N
<1>8. Is(Yields)
  BY <1>6, <1>7, Zenon
<1> QED
  BY <1>8, Zenon

LEMMA GrammarIs ==
  ASSUME Listed, NEW d \in 0..N
  PROVE  Grammar[d] = GrammarAt(d, Grammar[d - 1])
<1> DEFINE Is(f) == f = [e \in 0..N |-> GrammarAt(e, f[e - 1])]
<1>1. \A x, e : ByDepth("grammar", e, x) = GrammarAt(e, x)
  BY Zenon DEF ByDepth, Folds
<1>2. \A x, y : GrammarAt(0, x) = GrammarAt(0, y)
  BY Zenon DEF GrammarAt, UnaryTreesAt, MultiplicationTreesAt, AdditionTreesAt, BinaryAt
<1>3. \A x, y : ByDepth("grammar", 0, x) = ByDepth("grammar", 0, y)
  BY <1>1, <1>2, Zenon
<1>4. N \in Nat
  BY DEF Listed, N
<1>5. PICK f : f = [e \in 0..N |-> ByDepth("grammar", e, f[e - 1])]
  BY <1>3, <1>4, ByDepthExists, Zenon
<1>6. Is(f)
  BY <1>1, <1>5, Zenon
<1>7. Grammar = CHOOSE g : Is(g)
  BY Zenon DEF Grammar, GrammarAt, UnaryTreesAt, MultiplicationTreesAt, AdditionTreesAt,
                  BinaryAt, N
<1>8. Is(Grammar)
  BY <1>6, <1>7, Zenon
<1> QED
  BY <1>8, Zenon

-----------------------------------------------------------------------------
(* Trees by depth *)

LEMMA GrammarLevels ==
  ASSUME Listed, NEW d \in 0..N
  PROVE  /\ Grammar[d].unary = UnaryTreesAt(d, Grammar[d - 1])
         /\ Grammar[d].multiplication =
              Grammar[d].unary
              \cup BinaryAt(d, {"*", "/"}, Grammar[d - 1].multiplication, Grammar[d - 1].unary)
         /\ Grammar[d].addition =
              Grammar[d].multiplication
              \cup BinaryAt(d, {"+", "-"}, Grammar[d - 1].addition,
                            Grammar[d - 1].multiplication)
<1>1. Grammar[d] = GrammarAt(d, Grammar[d - 1])
  BY GrammarIs, Zenon
<1>2. /\ Grammar[d].unary = UnaryTreesAt(d, Grammar[d - 1])
      /\ Grammar[d].multiplication = MultiplicationTreesAt(d, Grammar[d - 1])
      /\ Grammar[d].addition = AdditionTreesAt(d, Grammar[d - 1])
  BY <1>1 DEF GrammarAt
<1> QED
  BY <1>2, Zenon DEF MultiplicationTreesAt, AdditionTreesAt

(* What a level has for a depth, it has for the next.                       *)
LevelsWithin(d, e) ==
    /\ Grammar[d].unary \subseteq Grammar[e].unary
    /\ Grammar[d].multiplication \subseteq Grammar[e].multiplication
    /\ Grammar[d].addition \subseteq Grammar[e].addition

LEMMA GrammarGrows ==
  ASSUME Listed, NEW d \in 0..N, NEW e \in 0..N, e = d + 1
  PROVE  LevelsWithin(d, e)
<1> DEFINE T == {c \in Nat : c + 1 <= N /\ ~LevelsWithin(c, c + 1)}
<1>1. N \in Nat
  BY DEF Listed, N
<1>2. ASSUME NEW c \in Nat, c + 1 <= N, c # 0 => LevelsWithin(c - 1, c)
      PROVE  LevelsWithin(c, c + 1)
  <2> DEFINE g == Grammar[c]  h == Grammar[c - 1]  k == Grammar[c + 1]
  <2>1. c \in 0..N /\ c + 1 \in 0..N /\ (c + 1) - 1 = c /\ c + 1 # 0
    BY <1>1, <1>2
  <2>2. /\ g.unary = UnaryTreesAt(c, h)
        /\ g.multiplication =
             g.unary \cup BinaryAt(c, {"*", "/"}, h.multiplication, h.unary)
        /\ g.addition =
             g.multiplication \cup BinaryAt(c, {"+", "-"}, h.addition, h.multiplication)
    BY <2>1, GrammarLevels, Zenon
  <2>3. /\ k.unary = UnaryTreesAt(c + 1, Grammar[(c + 1) - 1])
        /\ k.multiplication =
             k.unary \cup BinaryAt(c + 1, {"*", "/"}, Grammar[(c + 1) - 1].multiplication,
                                   Grammar[(c + 1) - 1].unary)
        /\ k.addition =
             k.multiplication \cup BinaryAt(c + 1, {"+", "-"}, Grammar[(c + 1) - 1].addition,
                                            Grammar[(c + 1) - 1].multiplication)
    BY <2>1, GrammarLevels, Zenon
  <2>4. /\ k.unary = UnaryTreesAt(c + 1, g)
        /\ k.multiplication =
             k.unary \cup BinaryAt(c + 1, {"*", "/"}, g.multiplication, g.unary)
        /\ k.addition =
             k.multiplication \cup BinaryAt(c + 1, {"+", "-"}, g.addition, g.multiplication)
    BY <2>1, <2>3, Zenon
  <2>5. /\ k.unary = Leaves \cup [id : {"UNARY_OP"}, operand : g.unary]
        /\ k.multiplication =
             k.unary \cup [id : {"BINARY_OP"}, op : {"*", "/"}, left : g.multiplication,
                           right : g.unary]
        /\ k.addition =
             k.multiplication \cup [id : {"BINARY_OP"}, op : {"+", "-"}, left : g.addition,
                                    right : g.multiplication]
    BY <2>1, <2>4, Zenon DEF UnaryTreesAt, BinaryAt
  <2>6. CASE c = 0
    <3>1. /\ g.unary = Leaves
          /\ g.multiplication = g.unary
          /\ g.addition = g.multiplication
      BY <2>2, <2>6, Zenon DEF UnaryTreesAt, BinaryAt
    <3> HIDE DEF g, k
    <3>2. /\ g.unary \subseteq k.unary /\ g.multiplication \subseteq k.multiplication
          /\ g.addition \subseteq k.addition
      BY <2>5, <3>1, Zenon
    <3> QED
      BY <3>2, Zenon DEF LevelsWithin, g, k
  <2>7. CASE c # 0
    <3>1. /\ g.unary = Leaves \cup [id : {"UNARY_OP"}, operand : h.unary]
          /\ g.multiplication =
               g.unary \cup [id : {"BINARY_OP"}, op : {"*", "/"}, left : h.multiplication,
                             right : h.unary]
          /\ g.addition =
               g.multiplication \cup [id : {"BINARY_OP"}, op : {"+", "-"}, left : h.addition,
                                      right : h.multiplication]
      BY <2>2, <2>7, Zenon DEF UnaryTreesAt, BinaryAt
    <3>2. /\ h.unary \subseteq g.unary /\ h.multiplication \subseteq g.multiplication
          /\ h.addition \subseteq g.addition
      BY <1>2, <2>7, Zenon DEF LevelsWithin
    <3> HIDE DEF g, h, k
    <3>3. g.unary \subseteq k.unary
      BY <2>5, <3>1, <3>2
    <3>4. g.multiplication \subseteq k.multiplication
      BY <2>5, <3>1, <3>2, <3>3
    <3>5. g.addition \subseteq k.addition
      BY <2>5, <3>1, <3>2, <3>4
    <3> QED
      BY <3>3, <3>4, <3>5, Zenon DEF LevelsWithin, g, k
  <2> QED
    BY <2>6, <2>7, Zenon
<1>3. T = {}
  <2>1. ASSUME T # {}
        PROVE  FALSE
    <3>1. T \subseteq Nat
      BY Zenon
    <3>2. PICK c \in T : \A j \in T : c <= j
      <4> HIDE DEF T
      <4> QED
        BY <2>1, <3>1, LeastNat, Zenon
    <3>3. c \in Nat /\ c + 1 <= N /\ ~LevelsWithin(c, c + 1)
      BY <3>2, Zenon
    <3>4. c # 0 => /\ c - 1 \in Nat /\ (c - 1) + 1 = c /\ c <= N /\ ~(c <= c - 1)
      BY <1>1, <3>3
    <3>5. c # 0 => c - 1 \notin T
      BY <3>2, <3>4, Zenon
    <3>6. c # 0 => LevelsWithin(c - 1, c)
      BY <3>4, <3>5, Zenon
    <3> QED
      BY <1>2, <3>3, <3>6, Zenon
  <2> QED
    BY <2>1, Zenon
<1>4. d \in Nat /\ d + 1 <= N
  BY <1>1
<1> QED
  BY <1>3, <1>4, Zenon

LEMMA GrammarWithin ==
  ASSUME Listed, NEW d \in 0..N, NEW e \in 0..N, d <= e
  PROVE  LevelsWithin(d, e)
<1> DEFINE T == {c \in Nat : d <= c /\ c <= N /\ ~LevelsWithin(d, c)}
<1>1. N \in Nat
  BY DEF Listed, N
<1>2. LevelsWithin(d, d)
  BY Zenon DEF LevelsWithin
<1>3. T = {}
  <2>1. ASSUME T # {}
        PROVE  FALSE
    <3>1. T \subseteq Nat
      BY Zenon
    <3>2. PICK c \in T : \A j \in T : c <= j
      <4> HIDE DEF T
      <4> QED
        BY <2>1, <3>1, LeastNat, Zenon
    <3>3. c \in Nat /\ d <= c /\ c <= N /\ ~LevelsWithin(d, c) /\ c # d
      BY <1>2, <3>2, Zenon
    <3>4. /\ c - 1 \in 0..N /\ c \in 0..N /\ c - 1 \in Nat /\ c = (c - 1) + 1
          /\ d <= c - 1 /\ c - 1 <= N /\ ~(c <= c - 1)
      BY <1>1, <3>3
    <3>5. c - 1 \notin T
      BY <3>2, <3>4, Zenon
    <3>6. LevelsWithin(d, c - 1)
      BY <3>4, <3>5, Zenon
    <3>7. LevelsWithin(c - 1, c)
      BY <3>4, GrammarGrows, Zenon
    <3> QED
      BY <3>3, <3>6, <3>7, Zenon DEF LevelsWithin
  <2> QED
    BY <2>1, Zenon
<1>4. e \in Nat /\ e <= N
  BY <1>1
<1> QED
  BY <1>3, <1>4, Zenon

(* The trees of the grammar are trees.                                      *)
LEMMA GrammarTrees ==
  ASSUME Listed, NEW d \in 0..N
  PROVE  /\ Grammar[d].unary \subseteq Trees[d]
         /\ Grammar[d].multiplication \subseteq Trees[d]
         /\ Grammar[d].addition \subseteq Trees[d]
<1> DEFINE In(c) == /\ Grammar[c].unary \subseteq Trees[c]
                    /\ Grammar[c].multiplication \subseteq Trees[c]
                    /\ Grammar[c].addition \subseteq Trees[c]
           T == {c \in Nat : c <= N /\ ~In(c)}
<1>1. N \in Nat
  BY DEF Listed, N
<1>2. ASSUME NEW c \in 0..N, c # 0 => In(c - 1)
      PROVE  In(c)
  <2> DEFINE g == Grammar[c]  h == Grammar[c - 1]  t == Trees[c]  s == Trees[c - 1]
  <2>2. /\ g.unary = UnaryTreesAt(c, h)
        /\ g.multiplication =
             g.unary \cup BinaryAt(c, {"*", "/"}, h.multiplication, h.unary)
        /\ g.addition =
             g.multiplication \cup BinaryAt(c, {"+", "-"}, h.addition, h.multiplication)
    BY GrammarLevels, Zenon
  <2>3. t = TreesAt(c, s)
    BY TreesAre, Zenon
  <2>4. CASE c = 0
    <3>1. /\ g.unary = Leaves /\ g.multiplication = g.unary
          /\ g.addition = g.multiplication /\ Leaves \subseteq t
      BY <2>2, <2>3, <2>4, Zenon DEF UnaryTreesAt, BinaryAt, TreesAt
    <3> QED
      BY <3>1, Zenon
  <2>5. CASE c # 0
    <3>1. /\ g.unary = Leaves \cup [id : {"UNARY_OP"}, operand : h.unary]
          /\ g.multiplication =
               g.unary \cup [id : {"BINARY_OP"}, op : {"*", "/"}, left : h.multiplication,
                             right : h.unary]
          /\ g.addition =
               g.multiplication \cup [id : {"BINARY_OP"}, op : {"+", "-"}, left : h.addition,
                                      right : h.multiplication]
          /\ t = Leaves \cup ([id : {"UNARY_OP"}, operand : s]
                   \cup [id : {"BINARY_OP"}, op : {"*", "/", "+", "-"}, left : s, right : s])
      BY <2>2, <2>3, <2>5, Zenon DEF UnaryTreesAt, BinaryAt, TreesAt
    <3>2. h.unary \subseteq s /\ h.multiplication \subseteq s /\ h.addition \subseteq s
      BY <1>2, <2>5, Zenon
    <3> HIDE DEF g, h, s, t
    <3>3. g.unary \subseteq t
      BY <3>1, <3>2
    <3>4. g.multiplication \subseteq t
      BY <3>1, <3>2, <3>3
    <3>5. g.addition \subseteq t
      BY <3>1, <3>2, <3>4
    <3> QED
      BY <3>3, <3>4, <3>5, Zenon DEF g, h, s, t
  <2> QED
    BY <2>4, <2>5, Zenon
<1>3. T = {}
  <2>1. ASSUME T # {}
        PROVE  FALSE
    <3>1. T \subseteq Nat
      BY Zenon
    <3>2. PICK c \in T : \A j \in T : c <= j
      <4> HIDE DEF T
      <4> QED
        BY <2>1, <3>1, LeastNat, Zenon
    <3>3. c \in Nat /\ c <= N /\ ~In(c)
      BY <3>2, Zenon
    <3>4. c \in 0..N /\ (c # 0 => c - 1 \in Nat /\ c - 1 <= N /\ ~(c <= c - 1))
      BY <1>1, <3>3
    <3>5. c # 0 => c - 1 \notin T
      BY <3>2, <3>4, Zenon
    <3>6. c # 0 => In(c - 1)
      BY <3>4, <3>5, Zenon
    <3> QED
      BY <1>2, <3>3, <3>4, <3>6, Zenon
  <2> QED
    BY <2>1, Zenon
<1>4. d \in Nat /\ d <= N
  BY <1>1
<1> QED
  BY <1>3, <1>4, Zenon

(* A tree of some depth is one of the next, with the same yield.            *)
TreesKept(d, e) ==
    \A node \in Trees[d] : node \in Trees[e] /\ Yields[e][node] = Yields[d][node]

LEMMA TreeShapes ==
  ASSUME Listed, NEW d \in 0..N, NEW node \in Trees[d]
  PROVE  \/ node \in Leaves
         \/ d # 0 /\ node \in [id : {"UNARY_OP"}, operand : Trees[d - 1]]
         \/ /\ d # 0
            /\ node \in [id : {"BINARY_OP"}, op : {"*", "/", "+", "-"},
                         left : Trees[d - 1], right : Trees[d - 1]]
<1>1. node \in TreesAt(d, Trees[d - 1])
  BY TreesAre, Zenon
<1> QED
  BY <1>1, Zenon DEF TreesAt

LEMMA YieldIs ==
  ASSUME Listed, NEW d \in 0..N, NEW node \in Trees[d]
  PROVE  Yields[d][node] = YieldFrom(node, Yields[d - 1])
<1>1. Yields[d] = YieldsAt(d, Yields[d - 1])
  BY YieldsAre, Zenon
<1> QED
  BY <1>1, Zenon DEF YieldsAt

LEMMA TreesGrow ==
  ASSUME Listed, NEW d \in 0..N, NEW e \in 0..N, e = d + 1
  PROVE  TreesKept(d, e)
<1> DEFINE T == {c \in Nat : c + 1 <= N /\ ~TreesKept(c, c + 1)}
<1>1. N \in Nat
  BY DEF Listed, N
<1>2. ASSUME NEW c \in Nat, c + 1 <= N, c # 0 => TreesKept(c - 1, c), NEW node \in Trees[c]
      PROVE  node \in Trees[c + 1] /\ Yields[c + 1][node] = Yields[c][node]
  <2>1. c \in 0..N /\ c + 1 \in 0..N /\ (c + 1) - 1 = c /\ c + 1 # 0
    BY <1>1, <1>2
  <2>2. Trees[c + 1] = TreesAt(c + 1, Trees[(c + 1) - 1])
    BY <2>1, TreesAre, Zenon
  <2>3. Trees[c + 1] = Leaves \cup ([id : {"UNARY_OP"}, operand : Trees[c]]
                         \cup [id : {"BINARY_OP"}, op : {"*", "/", "+", "-"},
                               left : Trees[c], right : Trees[c]])
    BY <2>1, <2>2, Zenon DEF TreesAt
  <2>4. Yields[c][node] = YieldFrom(node, Yields[c - 1])
    BY <2>1, YieldIs, Zenon
  <2>5. node \in Trees[c + 1] => Yields[c + 1][node] = YieldFrom(node, Yields[c])
    BY <2>1, YieldIs, Zenon
  <2>6. CASE node \in Leaves
    <3>1. node \in Trees[c + 1]
      BY <2>3, <2>6, Zenon
    <3>2. node.id \in {"LABEL", "NUMBER"}
      BY <2>6 DEF Leaves
    <3>3. YieldFrom(node, Yields[c - 1]) = YieldFrom(node, Yields[c])
      BY <3>2 DEF YieldFrom
    <3> QED
      BY <2>4, <2>5, <3>1, <3>3, Zenon
  <2>7. CASE c # 0 /\ node \in [id : {"UNARY_OP"}, operand : Trees[c - 1]]
    <3> DEFINE a == node.operand
    <3>1. node = [id |-> "UNARY_OP", operand |-> a] /\ a \in Trees[c - 1] /\ node.id = "UNARY_OP"
      BY <2>7
    <3>2. a \in Trees[c] /\ Yields[c][a] = Yields[c - 1][a]
      BY <1>2, <2>7, <3>1, Zenon DEF TreesKept
    <3>3. node \in [id : {"UNARY_OP"}, operand : Trees[c]]
      BY <3>1, <3>2
    <3>4. YieldFrom(node, Yields[c - 1]) = YieldFrom(node, Yields[c])
      BY <3>1, <3>2 DEF YieldFrom
    <3> QED
      BY <2>3, <2>4, <2>5, <3>3, <3>4, Zenon
  <2>8. CASE /\ c # 0
             /\ node \in [id : {"BINARY_OP"}, op : {"*", "/", "+", "-"},
                          left : Trees[c - 1], right : Trees[c - 1]]
    <3> DEFINE a == node.left  b == node.right
    <3>1. /\ node = [id |-> "BINARY_OP", op |-> node.op, left |-> a, right |-> b]
          /\ a \in Trees[c - 1] /\ b \in Trees[c - 1] /\ node.id = "BINARY_OP"
          /\ node.op \in {"*", "/", "+", "-"}
      BY <2>8
    <3>2. /\ a \in Trees[c] /\ Yields[c][a] = Yields[c - 1][a]
          /\ b \in Trees[c] /\ Yields[c][b] = Yields[c - 1][b]
      BY <1>2, <2>8, <3>1, Zenon DEF TreesKept
    <3>3. node \in [id : {"BINARY_OP"}, op : {"*", "/", "+", "-"}, left : Trees[c],
                    right : Trees[c]]
      BY <3>1, <3>2
    <3>4. YieldFrom(node, Yields[c - 1]) = YieldFrom(node, Yields[c])
      BY <3>1, <3>2 DEF YieldFrom
    <3> QED
      BY <2>3, <2>4, <2>5, <3>3, <3>4, Zenon
  <2> QED
    BY <2>1, <2>6, <2>7, <2>8, TreeShapes, Zenon
<1>3. T = {}
  <2>1. ASSUME T # {}
        PROVE  FALSE
    <3>1. T \subseteq Nat
      BY Zenon
    <3>2. PICK c \in T : \A j \in T : c <= j
      <4> HIDE DEF T
      <4> QED
        BY <2>1, <3>1, LeastNat, Zenon
    <3>3. c \in Nat /\ c + 1 <= N /\ ~TreesKept(c, c + 1)
      BY <3>2, Zenon
    <3>4. c # 0 => /\ c - 1 \in Nat /\ (c - 1) + 1 = c /\ c <= N /\ ~(c <= c - 1)
      BY <1>1, <3>3
    <3>5. c # 0 => c - 1 \notin T
      BY <3>2, <3>4, Zenon
    <3>6. c # 0 => TreesKept(c - 1, c)
      BY <3>4, <3>5, Zenon
    <3>7. TreesKept(c, c + 1)
      BY <1>2, <3>3, <3>6, Zenon DEF TreesKept
    <3> QED
      BY <3>3, <3>7, Zenon
  <2> QED
    BY <2>1, Zenon
<1>4. d \in Nat /\ d + 1 <= N
  BY <1>1
<1> QED
  BY <1>3, <1>4, Zenon

LEMMA TreesWithin ==
  ASSUME Listed, NEW d \in 0..N, NEW e \in 0..N, d <= e
  PROVE  TreesKept(d, e)
<1> DEFINE T == {c \in Nat : d <= c /\ c <= N /\ ~TreesKept(d, c)}
<1>1. N \in Nat
  BY DEF Listed, N
<1>2. TreesKept(d, d)
  BY Zenon DEF TreesKept
<1>3. T = {}
  <2>1. ASSUME T # {}
        PROVE  FALSE
    <3>1. T \subseteq Nat
      BY Zenon
    <3>2. PICK c \in T : \A j \in T : c <= j
      <4> HIDE DEF T
      <4> QED
        BY <2>1, <3>1, LeastNat, Zenon
    <3>3. c \in Nat /\ d <= c /\ c <= N /\ ~TreesKept(d, c) /\ c # d
      BY <1>2, <3>2, Zenon
    <3>4. /\ c - 1 \in 0..N /\ c \in 0..N /\ c - 1 \in Nat /\ c = (c - 1) + 1
          /\ d <= c - 1 /\ c - 1 <= N /\ ~(c <= c - 1)
      BY <1>1, <3>3
    <3>5. c - 1 \notin T
      BY <3>2, <3>4, Zenon
    <3>6. TreesKept(d, c - 1)
      BY <3>4, <3>5, Zenon
    <3>7. TreesKept(c - 1, c)
      BY <3>4, TreesGrow, Zenon
    <3> QED
      BY <3>3, <3>6, <3>7, Zenon DEF TreesKept
  <2> QED
    BY <2>1, Zenon
<1>4. e \in Nat /\ e <= N
  BY <1>1
<1> QED
  BY <1>3, <1>4, Zenon

-----------------------------------------------------------------------------
(* What is written between two places *)

Shows == Range(tokens) \cup {ToString(Atoi(tok) % 256) : tok \in Range(tokens)}
Kept(p, q) == WithoutCommas(SubSeq(tokens, p + 1, q))

LEMMA ShownType ==
  ASSUME NEW tok \in Range(tokens)
  PROVE  Shown(tok) \in Seq(Shows)
<1>1. tok \in Shows /\ ToString(Atoi(tok) % 256) \in Shows
  BY Zenon DEF Shows
<1>2. << >> \in Seq(Shows) /\ << tok >> \in Seq(Shows)
      /\ << ToString(Atoi(tok) % 256) >> \in Seq(Shows)
  BY <1>1
<1>3. \/ Shown(tok) = << >> \/ Shown(tok) = << tok >>
      \/ Shown(tok) = << ToString(Atoi(tok) % 256) >>
  BY DEF Shown
<1> QED
  BY <1>2, <1>3, Zenon

LEMMA PartType ==
  ASSUME Listed, NEW p \in Nat, NEW q \in Nat, p <= q, q <= N
  PROVE  /\ SubSeq(tokens, p + 1, q) \in Seq(Range(tokens))
         /\ Len(SubSeq(tokens, p + 1, q)) = q - p
         /\ \A i \in 1..(q - p) : SubSeq(tokens, p + 1, q)[i] = tokens[p + i]
<1>1. N \in Nat
  BY DEF Listed, N
<1>2. \A i \in (p + 1)..q : i \in 1..Len(tokens)
  BY <1>1 DEF N
<1>3. \A i \in (p + 1)..q : tokens[i] \in Range(tokens)
  BY <1>2 DEF Listed
<1> QED
  BY <1>1, <1>3 DEF Listed, N

LEMMA KeptType ==
  ASSUME Listed, NEW p \in Nat, NEW q \in Nat, p <= q, q <= N
  PROVE  Kept(p, q) \in Seq(Shows)
<1> DEFINE s == SubSeq(tokens, p + 1, q)
           shown == [i \in DOMAIN s |-> Shown(s[i])]
<1>1. s \in Seq(Range(tokens))
  BY PartType
<1>2. \A i \in DOMAIN s : s[i] \in Range(tokens)
  BY <1>1
<1>3. \A i \in DOMAIN s : Shown(s[i]) \in Seq(Shows)
  BY <1>2, ShownType, Zenon
<1> HIDE DEF s
<1>4. shown \in Seq(Seq(Shows))
  BY <1>1, <1>3
<1>5. FlattenSeq(shown) \in Seq(Shows)
  BY <1>4, FlattenSeqType, Zenon
<1>6. Kept(p, q) = FlattenSeq(shown)
  BY Zenon DEF Kept, WithoutCommas, s
<1> QED
  BY <1>5, <1>6, Zenon

LEMMA KeptNext ==
  ASSUME Listed, NEW p \in Nat, NEW q \in Nat, NEW r \in Nat, p <= q, r = q + 1, r <= N
  PROVE  Kept(p, r) = Kept(p, q) \o Shown(tokens[r])
<1> DEFINE s == SubSeq(tokens, p + 1, q)
           t == SubSeq(tokens, p + 1, r)
           S == [i \in DOMAIN s |-> Shown(s[i])]
           T == [i \in DOMAIN t |-> Shown(t[i])]
<1>0. N \in Nat /\ q <= N /\ p <= r
  BY DEF Listed, N
<1>1. /\ s \in Seq(Range(tokens)) /\ Len(s) = q - p
      /\ \A i \in 1..(q - p) : s[i] = tokens[p + i]
  BY <1>0, PartType, Zenon
<1>2. /\ t \in Seq(Range(tokens)) /\ Len(t) = r - p
      /\ \A i \in 1..(r - p) : t[i] = tokens[p + i]
  BY <1>0, PartType, Zenon
<1>3. r \in DOMAIN tokens
  BY <1>0 DEF Listed, N
<1>4. tokens[r] \in Range(tokens)
  BY <1>3, Zenon DEF Range
<1>5. Shown(tokens[r]) \in Seq(Shows)
  BY <1>4, ShownType, Zenon
<1>6. \A i \in DOMAIN s : s[i] \in Range(tokens)
  BY <1>1
<1>7. \A i \in DOMAIN s : Shown(s[i]) \in Seq(Shows)
  BY <1>6, ShownType, Zenon
<1>8. DOMAIN s = 1..(q - p) /\ DOMAIN t = 1..(r - p)
  BY <1>1, <1>2
<1> HIDE DEF s, t
<1>9. S \in Seq(Seq(Shows)) /\ Len(S) = q - p
  BY <1>1, <1>7, <1>8, SMTT(30)
<1>10. r - p = (q - p) + 1 /\ p + (r - p) = r /\ q - p \in Nat
  BY <1>0
<1>11. \A i \in 1..(q - p) : t[i] = s[i]
  BY <1>1, <1>2, <1>10
<1>12. t[r - p] = tokens[r]
  BY <1>2, <1>10
<1>13. T = Append(S, Shown(tokens[r]))
  <2> DEFINE x == Shown(tokens[r])
  <2>1. Append(S, x) = [i \in 1..((q - p) + 1) |-> IF i \in 1..(q - p) THEN S[i] ELSE x]
    <3> HIDE DEF S, x
    <3>1. S = [i \in 1..(q - p) |-> S[i]]
      BY <1>9
    <3>2. \A c \in Nat : S = [k \in 1..c |-> S[k]] =>
            Append(S, x) = [k \in 1..(c + 1) |-> IF k \in 1..c THEN S[k] ELSE x]
      BY AppendIs
    <3> QED
      BY <1>10, <3>1, <3>2, Zenon
  <2>2. ASSUME NEW i \in 1..((q - p) + 1)
        PROVE  Shown(t[i]) = IF i \in 1..(q - p) THEN S[i] ELSE x
    <3>1. CASE i \in 1..(q - p)
      BY <1>8, <1>11, <3>1, Zenon
    <3>2. CASE i \notin 1..(q - p)
      <4>1. i = r - p
        BY <1>10, <3>2
      <4> QED
        BY <1>12, <3>2, <4>1, Zenon
    <3> QED
      BY <3>1, <3>2, Zenon
  <2> QED
    BY <1>8, <1>10, <2>1, <2>2, Zenon
<1>14. Kept(p, q) = FlattenSeq(S) /\ Kept(p, r) = FlattenSeq(T)
  BY Zenon DEF Kept, WithoutCommas, s, t
<1> HIDE DEF S, T
<1>15. FlattenSeq(Append(S, Shown(tokens[r]))) = FlattenSeq(S) \o Shown(tokens[r])
  BY <1>5, <1>9, FlattenSeqAppend, Zenon
<1> QED
  BY <1>13, <1>14, <1>15, Zenon

LEMMA KeptNone ==
  ASSUME Listed, NEW p \in Nat, p <= N
  PROVE  Kept(p, p) = << >>
<1> DEFINE s == SubSeq(tokens, p + 1, p)
           S == [i \in DOMAIN s |-> Shown(s[i])]
<1>1. s \in Seq(Range(tokens)) /\ Len(s) = 0
  BY PartType
<1>2. DOMAIN s = {}
  BY <1>1
<1>3. S = << >>
  BY <1>2
<1>4. FlattenSeq(<< >>) = << >>
  BY DEF FlattenSeq
<1> QED
  BY <1>3, <1>4, Zenon DEF Kept, WithoutCommas

LEMMA KeptOne ==
  ASSUME Listed, NEW p \in Nat, NEW q \in Nat, q = p + 1, q <= N
  PROVE  Kept(p, q) = Shown(tokens[q])
<1>1. N \in Nat /\ p <= N /\ p <= p
  BY DEF Listed, N
<1>2. q \in DOMAIN tokens
  BY DEF Listed, N
<1>3. tokens[q] \in Range(tokens)
  BY <1>2, Zenon DEF Range
<1>4. Shown(tokens[q]) \in Seq(Shows)
  BY <1>3, ShownType, Zenon
<1>5. Kept(p, q) = Kept(p, p) \o Shown(tokens[q])
  BY <1>1, KeptNext, Zenon
<1>6. Kept(p, p) = << >>
  BY <1>1, KeptNone, Zenon
<1> QED
  BY <1>4, <1>5, <1>6

LEMMA KeptJoin ==
  ASSUME Listed, NEW p \in Nat, NEW q \in Nat, NEW r \in Nat, p <= q, q <= r, r <= N
  PROVE  Kept(p, r) = Kept(p, q) \o Kept(q, r)
<1> DEFINE T == {c \in Nat : q <= c /\ c <= N /\ Kept(p, c) # Kept(p, q) \o Kept(q, c)}
<1>1. N \in Nat /\ q <= N
  BY DEF Listed, N
<1>2. Kept(p, q) = Kept(p, q) \o Kept(q, q)
  <2>1. Kept(p, q) \in Seq(Shows)
    BY <1>1, KeptType
  <2>2. Kept(q, q) = << >>
    BY <1>1, KeptNone
  <2> QED
    BY <2>1, <2>2
<1>3. T = {}
  <2>1. ASSUME T # {}
        PROVE  FALSE
    <3>1. T \subseteq Nat
      BY Zenon
    <3>2. PICK c \in T : \A j \in T : c <= j
      <4> HIDE DEF T
      <4> QED
        BY <2>1, <3>1, LeastNat, Zenon
    <3>3. /\ c \in Nat /\ q <= c /\ c <= N /\ Kept(p, c) # Kept(p, q) \o Kept(q, c)
          /\ c # q
      BY <1>2, <3>2, Zenon
    <3>4. PICK b \in Nat : c = b + 1
      <4>1. c - 1 \in Nat /\ c = (c - 1) + 1
        BY <3>3
      <4> QED
        BY <4>1, Zenon
    <3>5. q <= b /\ b <= N /\ ~(c <= b) /\ p <= b
      BY <1>1, <3>3, <3>4
    <3>6. b \notin T
      BY <3>2, <3>5, Zenon
    <3>7. Kept(p, b) = Kept(p, q) \o Kept(q, b)
      BY <3>5, <3>6, Zenon
    <3>8. Kept(p, c) = Kept(p, b) \o Shown(tokens[c])
      BY <3>3, <3>4, <3>5, KeptNext, Zenon
    <3>9. Kept(q, c) = Kept(q, b) \o Shown(tokens[c])
      BY <3>3, <3>4, <3>5, KeptNext, Zenon
    <3>10. Kept(p, q) \in Seq(Shows) /\ Kept(q, b) \in Seq(Shows)
      BY <1>1, <3>5, KeptType, Zenon
    <3>11. Shown(tokens[c]) \in Seq(Shows)
      <4>1. c \in DOMAIN tokens
        BY <3>3, <3>4 DEF Listed, N
      <4>2. tokens[c] \in Range(tokens)
        BY <4>1, Zenon DEF Range
      <4> QED
        BY <4>2, ShownType, Zenon
    <3>12. (Kept(p, q) \o Kept(q, b)) \o Shown(tokens[c])
           = Kept(p, q) \o (Kept(q, b) \o Shown(tokens[c]))
      <4> DEFINE x == Kept(p, q)  y == Kept(q, b)  z == Shown(tokens[c])
      <4>1. x \in Seq(Shows) /\ y \in Seq(Shows) /\ z \in Seq(Shows)
        BY <3>10, <3>11, Zenon
      <4> HIDE DEF x, y, z
      <4>2. (x \o y) \o z = x \o (y \o z)
        BY <4>1, SMTT(30)
      <4> QED
        BY <4>2, Zenon DEF x, y, z
    <3> QED
      BY <3>3, <3>7, <3>8, <3>9, <3>12, Zenon
  <2> QED
    BY <2>1, Zenon
<1> QED
  BY <1>3, Zenon

-----------------------------------------------------------------------------
(* Expressions *)

Level(level, d) ==
    IF level = "unary" THEN Grammar[d].unary
    ELSE IF level = "multiplication" THEN Grammar[d].multiplication
    ELSE Grammar[d].addition

(* The tokens of an operand or of several: none of them begins a directive,  *)
(* a newline among them is an operator's operand, and no operator is last.  *)
Reads(p, e) ==
    \A q \in Nat : p <= q /\ q < e =>
      /\ Peek(q) # ".section"
      /\ q + 1 < e /\ Peek(q + 1) = "EOL" => Peek(q) \in NumericOps
      /\ q + 1 = e => Peek(q) \notin NumericOps

LEMMA ReadsOne ==
  ASSUME NEW p \in Nat, Peek(p) # ".section", Peek(p) \notin NumericOps
  PROVE  Reads(p, p + 1)
<1>1. \A q \in Nat : p <= q /\ q < p + 1 => q = p /\ ~(q + 1 < p + 1)
  OBVIOUS
<1> QED
  BY <1>1, Zenon DEF Reads

LEMMA ReadsCommas ==
  ASSUME NEW p \in Nat, NEW e \in Nat,
         \A q \in Nat : p <= q /\ q < e => Peek(q) = Comma
  PROVE  Reads(p, e)
<1>1. Comma # ".section" /\ Comma # "EOL" /\ Comma \notin NumericOps
  BY Zenon DEF Comma, NumericOps, MultiplicationOps, AdditionOps
<1>2. \A q \in Nat : p <= q => q + 1 \in Nat /\ p <= q + 1
  OBVIOUS
<1> QED
  BY <1>1, <1>2, Zenon DEF Reads

(* An operator takes what follows it, a newline too.                        *)
LEMMA ReadsOp ==
  ASSUME NEW p \in Nat, NEW e \in Nat, Peek(p) \in NumericOps, p + 1 < e,
         Reads(p + 1, e)
  PROVE  Reads(p, e)
<1>1. Peek(p) # ".section"
  BY Zenon DEF NumericOps, MultiplicationOps, AdditionOps
<1>2. \A q \in Nat : p <= q /\ q < e => (q = p /\ q + 1 # e) \/ p + 1 <= q
  OBVIOUS
<1> QED
  BY <1>1, <1>2, Zenon DEF Reads

LEMMA ReadsJoin ==
  ASSUME NEW p \in Nat, NEW m \in Nat, NEW e \in Nat, p <= m, m <= e,
         Reads(p, m), Reads(m, e), p < m /\ m < e => Peek(m) # "EOL"
  PROVE  Reads(p, e)
<1> SUFFICES ASSUME NEW q \in Nat, p <= q, q < e
             PROVE  /\ Peek(q) # ".section"
                    /\ q + 1 < e /\ Peek(q + 1) = "EOL" => Peek(q) \in NumericOps
                    /\ q + 1 = e => Peek(q) \notin NumericOps
  BY Zenon DEF Reads
<1>1. CASE m <= q
  BY <1>1, Zenon DEF Reads
<1>2. CASE q < m
  <2>1. q + 1 = e => q + 1 = m
    BY <1>2
  <2>2. q + 1 < m \/ q + 1 = m
    BY <1>2
  <2>3. q + 1 = m => p < m /\ q + 1 = m
    BY <1>2
  <2> QED
    BY <1>2, <2>1, <2>2, <2>3, Zenon DEF Reads
<1> QED
  BY <1>1, <1>2

(* What an expression parsed at p is: a tree of its level of the grammar,   *)
(* with the tokens up to the position after it.                             *)
Parses(r, p, level) ==
    /\ r.pos \in Nat /\ p < r.pos /\ r.pos <= N
    /\ r.node \in Level(level, r.pos - p)
    /\ Yields[r.pos - p][r.node] = Kept(p, r.pos)
    /\ Reads(p, r.pos)

LEMMA LevelTrees ==
  ASSUME Listed, NEW d \in 0..N, NEW level
  PROVE  Level(level, d) \subseteq Trees[d] /\ Level(level, d) \subseteq Grammar[d].addition
<1>1. /\ Grammar[d].unary \subseteq Grammar[d].multiplication
      /\ Grammar[d].multiplication \subseteq Grammar[d].addition
  BY GrammarLevels, Zenon
<1>2. /\ Grammar[d].unary \subseteq Trees[d]
      /\ Grammar[d].multiplication \subseteq Trees[d]
      /\ Grammar[d].addition \subseteq Trees[d]
  BY GrammarTrees, Zenon
<1> QED
  BY <1>1, <1>2, Zenon DEF Level

LEMMA LevelWithin ==
  ASSUME Listed, NEW d \in 0..N, NEW e \in 0..N, d <= e, NEW level
  PROVE  Level(level, d) \subseteq Level(level, e)
<1>1. LevelsWithin(d, e)
  BY GrammarWithin, Zenon
<1> QED
  BY <1>1, Zenon DEF LevelsWithin, Level

LEMMA LeavesUnary ==
  ASSUME Listed, NEW d \in 0..N
  PROVE  Leaves \subseteq Level("unary", d)
<1>1. Grammar[d].unary = UnaryTreesAt(d, Grammar[d - 1])
  BY GrammarLevels, Zenon
<1> QED
  BY <1>1, Zenon DEF Level, UnaryTreesAt

LEMMA PrimaryParses ==
  ASSUME Listed, NEW p \in Nat, NEW r \in Primary(p)
  PROVE  Parses(r, p, "unary")
<1> DEFINE tok == Peek(p)  q == p + 1
<1>1. \/ tok \in Words \ Instructions /\ r = Parsed(LabelNode(tok), q)
      \/ tok \in Numbers /\ r = Parsed(NumberNode(tok), q)
  BY DEF Primary
<1>2. tok # MadeUp /\ tok # Comma
  BY <1>1, TokensAssumption
<1>3. p < N /\ tok = tokens[q]
  BY <1>2, PeekInside, Zenon
<1>4. N \in Nat /\ q \in Nat /\ p < q /\ q <= N /\ q - p = 1 /\ 1 \in 0..N
  BY <1>3 DEF Listed, N
<1>5. Kept(p, q) = Shown(tok)
  BY <1>3, <1>4, KeptOne, Zenon
<1>6. r.pos = q
  BY <1>1 DEF Parsed
<1>10. Reads(p, q)
  <2>1. tok # ".section" /\ tok \notin NumericOps
    BY <1>1, TokensAssumption DEF NumericOps, MultiplicationOps, AdditionOps
  <2> QED
    BY <2>1, ReadsOne, Zenon
<1>7. ASSUME r.node \in Leaves, YieldFrom(r.node, Yields[1 - 1]) = Shown(tok)
      PROVE  Parses(r, p, "unary")
  <2>1. r.node \in Level("unary", 1) /\ r.node \in Trees[1]
    BY <1>4, <1>7, LeavesUnary, LevelTrees, Zenon
  <2>2. Yields[1][r.node] = Shown(tok)
    BY <1>4, <1>7, <2>1, YieldIs, Zenon
  <2> QED
    BY <1>4, <1>5, <1>6, <1>10, <2>1, <2>2, Zenon DEF Parses
<1>8. CASE tok \in Words \ Instructions /\ r = Parsed(LabelNode(tok), q)
  <2>1. r.node = [id |-> "LABEL", name |-> tok]
    BY <1>8 DEF Parsed, LabelNode
  <2>2. r.node \in Leaves
    BY <1>8, <2>1 DEF Leaves
  <2>3. tok \notin Numbers
    BY <1>8, TokensAssumption
  <2>4. Shown(tok) = << tok >>
    BY <1>2, <2>3 DEF Shown
  <2>5. YieldFrom(r.node, Yields[1 - 1]) = << tok >>
    BY <2>1 DEF YieldFrom
  <2> QED
    BY <1>7, <2>2, <2>4, <2>5, Zenon
<1>9. CASE tok \in Numbers /\ r = Parsed(NumberNode(tok), q)
  <2>1. r.node = [id |-> "NUMBER", value |-> Atoi(tok) % 256]
    BY <1>9 DEF Parsed, NumberNode
  <2>2. Atoi(tok) \in Int
    BY <1>9, TokensAssumption, Zenon
  <2>3. Atoi(tok) % 256 \in 0..255
    BY <2>2
  <2>4. r.node \in Leaves
    BY <2>1, <2>3 DEF Leaves
  <2>5. Shown(tok) = << ToString(Atoi(tok) % 256) >>
    BY <1>2, <1>9 DEF Shown
  <2>6. YieldFrom(r.node, Yields[1 - 1]) = << ToString(Atoi(tok) % 256) >>
    BY <2>1 DEF YieldFrom
  <2> QED
    BY <1>7, <2>4, <2>5, <2>6, Zenon
<1> QED
  BY <1>1, <1>8, <1>9, Zenon

LEMMA NegParses ==
  ASSUME Listed, NEW p \in Nat, Peek(p) = "-", NEW o, Parses(o, p + 1, "unary")
  PROVE  Parses(Parsed(NegNode(o.node), o.pos), p, "unary")
<1> DEFINE neg == NegNode(o.node)
<1>1. PICK q \in Nat : q = p + 1
  OBVIOUS
<1>2. PICK e \in Nat : e = o.pos
  BY DEF Parses
<1>3. N \in Nat /\ p < q /\ q < e /\ e <= N /\ p < e
  BY <1>1, <1>2 DEF Parses, Listed, N
<1>4. PICK d \in 0..N, c \in 0..N : d = e - p /\ c = e - q /\ c = d - 1 /\ d # 0
  <2>1. e - p \in 0..N /\ e - q \in 0..N /\ e - q = (e - p) - 1 /\ e - p # 0
    BY <1>1, <1>3
  <2> QED
    BY <2>1, Zenon
<1>5. o.node \in Level("unary", c) /\ Yields[c][o.node] = Kept(q, e)
  BY <1>1, <1>2, <1>4, Zenon DEF Parses
<1>6. neg = [id |-> "UNARY_OP", operand |-> o.node]
  BY Zenon DEF NegNode
<1>7. neg \in Level("unary", d)
  <2>1. Grammar[d].unary = UnaryTreesAt(d, Grammar[c])
    BY <1>4, GrammarLevels, Zenon
  <2>2. Grammar[d].unary = Leaves \cup [id : {"UNARY_OP"}, operand : Grammar[c].unary]
    BY <1>4, <2>1, Zenon DEF UnaryTreesAt
  <2>3. o.node \in Grammar[c].unary
    BY <1>5, Zenon DEF Level
  <2>4. neg \in [id : {"UNARY_OP"}, operand : Grammar[c].unary]
    BY <1>6, <2>3
  <2> QED
    BY <2>2, <2>4, Zenon DEF Level
<1>8. Yields[d][neg] = YieldFrom(neg, Yields[c])
  <2>1. neg \in Trees[d]
    BY <1>7, LevelTrees, Zenon
  <2> QED
    BY <1>4, <2>1, YieldIs, Zenon
<1>9. YieldFrom(neg, Yields[c]) = << "-" >> \o Kept(q, e)
  BY <1>5, <1>6 DEF YieldFrom
<1>10. Shown("-") = << "-" >>
  <2>1. "-" # Comma /\ "-" \notin Numbers
    BY TokensAssumption DEF Comma
  <2> QED
    BY <2>1 DEF Shown
<1>11. tokens[q] = "-"
  BY <1>1, PeekInside DEF MadeUp
<1>12. Kept(p, e) = Kept(p, q) \o Kept(q, e)
  <2>1. p <= q /\ q <= e
    BY <1>3
  <2> QED
    BY <1>3, <2>1, KeptJoin, Zenon
<1>13. Kept(p, q) = Shown(tokens[q])
  <2>1. q <= N
    BY <1>3
  <2> QED
    BY <1>1, <2>1, KeptOne, Zenon
<1>14. Parsed(neg, o.pos).node = neg /\ Parsed(neg, o.pos).pos = e
  BY <1>2 DEF Parsed
<1>15. Yields[d][neg] = Kept(p, e)
  BY <1>8, <1>9, <1>10, <1>11, <1>12, <1>13, Zenon
<1>16. Reads(p, e)
  <2>1. Peek(p) \in NumericOps
    BY DEF NumericOps, MultiplicationOps, AdditionOps
  <2>2. Reads(q, e)
    BY <1>1, <1>2, Zenon DEF Parses
  <2> QED
    BY <1>1, <1>3, <2>1, <2>2, ReadsOp, Zenon
<1> QED
  BY <1>3, <1>4, <1>7, <1>14, <1>15, <1>16, Zenon DEF Parses

(* unary(): from the last token back.                                       *)
LEMMA UnaryParses ==
  ASSUME Listed, NEW p \in Nat, NEW r \in Unary[p]
  PROVE  Parses(r, p, "unary")
<1> DEFINE Good(q) == \A o \in Unary[q] : Parses(o, q, "unary")
           T == {k \in Nat : \A q \in Nat : q >= k => Good(q)}
<1>1. N \in Nat
  BY DEF Listed, N
<1>2. ASSUME NEW q \in Nat, Peek(q) # "-"
      PROVE  Good(q)
  <2>1. Unary[q] = Primary(q)
    BY <1>2, UnaryIs, Zenon DEF UnaryAt
  <2> QED
    BY <2>1, PrimaryParses, Zenon
<1>3. ASSUME NEW q \in Nat, Good(q + 1)
      PROVE  Good(q)
  <2>1. CASE Peek(q) = "-"
    <3>1. Unary[q] = {Parsed(NegNode(o.node), o.pos) : o \in Unary[q + 1]}
      BY <2>1, UnaryIs, Zenon DEF UnaryAt
    <3> QED
      BY <1>3, <2>1, <3>1, NegParses, Zenon
  <2> QED
    BY <1>2, <2>1, Zenon
<1>4. N \in T
  <2>1. ASSUME NEW q \in Nat, q >= N
        PROVE  Good(q)
    <3>1. Peek(q) # "-"
      BY <2>1, PeekPast DEF MadeUp
    <3> QED
      BY <1>2, <3>1, Zenon
  <2> QED
    BY <1>1, <2>1, Zenon
<1>5. PICK k \in T : \A j \in T : k <= j
  <2>1. T \subseteq Nat /\ T # {}
    BY <1>4, Zenon
  <2> HIDE DEF T
  <2> QED
    BY <2>1, LeastNat, Zenon
<1>6. ASSUME k # 0
      PROVE  FALSE
  <2>1. PICK j \in Nat : k = j + 1
    <3>1. k \in Nat
      BY <1>5, Zenon
    <3>2. k - 1 \in Nat /\ k = (k - 1) + 1
      BY <1>6, <3>1
    <3> QED
      BY <3>2, Zenon
  <2>2. ASSUME NEW q \in Nat, q >= j
        PROVE  Good(q)
    <3>1. q + 1 \in Nat /\ q + 1 >= k
      BY <2>1, <2>2
    <3>2. Good(q + 1)
      BY <1>5, <3>1, Zenon
    <3> QED
      BY <1>3, <3>2, Zenon
  <2>3. j \in T
    BY <2>2, Zenon
  <2>4. ~(k <= j)
    BY <2>1
  <2> QED
    BY <1>5, <2>3, <2>4, Zenon
<1>7. \A q \in Nat : q >= 0 => Good(q)
  BY <1>5, <1>6, Zenon
<1>8. p >= 0
  OBVIOUS
<1> QED
  BY <1>7, <1>8, Zenon

(* The two loops: the operators of each, the level of its operands and of   *)
(* what it makes.                                                           *)
IsLoop(ops, lower, upper) ==
    \/ ops = {"*", "/"} /\ lower = "unary" /\ upper = "multiplication"
    \/ ops = {"+", "-"} /\ lower = "multiplication" /\ upper = "addition"

LEMMA LoopLevel ==
  ASSUME Listed, NEW ops, NEW lower, NEW upper, IsLoop(ops, lower, upper),
         NEW d \in 0..N
  PROVE  Level(upper, d) = Level(lower, d)
                           \cup BinaryAt(d, ops, Level(upper, d - 1), Level(lower, d - 1))
<1>1. /\ Grammar[d].multiplication =
           Grammar[d].unary
           \cup BinaryAt(d, {"*", "/"}, Grammar[d - 1].multiplication, Grammar[d - 1].unary)
      /\ Grammar[d].addition =
           Grammar[d].multiplication
           \cup BinaryAt(d, {"+", "-"}, Grammar[d - 1].addition,
                         Grammar[d - 1].multiplication)
  BY GrammarLevels, Zenon
<1>2. \A e : /\ Level("unary", e) = Grammar[e].unary
             /\ Level("multiplication", e) = Grammar[e].multiplication
             /\ Level("addition", e) = Grammar[e].addition
  BY DEF Level
<1> QED
  BY <1>1, <1>2, Zenon DEF IsLoop

LEMMA OpParses ==
  ASSUME Listed, NEW ops, NEW lower, NEW upper, IsLoop(ops, lower, upper),
         NEW p \in Nat, NEW left, Parses(left, p, upper), Peek(left.pos) \in ops,
         NEW right, Parses(right, left.pos + 1, lower)
  PROVE  Parses(Parsed(OpNode(Peek(left.pos), left.node, right.node), right.pos), p, upper)
<1> DEFINE op == Peek(left.pos)
           node == OpNode(op, left.node, right.node)
<1>1. PICK l \in Nat, q \in Nat, e \in Nat : l = left.pos /\ q = l + 1 /\ e = right.pos
  <2>1. left.pos \in Nat /\ left.pos + 1 \in Nat /\ right.pos \in Nat
    BY DEF Parses
  <2> QED
    BY <2>1, Zenon
<1>2. N \in Nat /\ p < l /\ q < e /\ e <= N /\ p <= q /\ q <= e /\ l <= N /\ q <= N /\ p <= l
  BY <1>1, SMTT(30) DEF Parses, Listed, N
<1>3. PICK d \in 0..N, c \in 0..N, a \in 0..N, b \in 0..N :
        /\ d = e - p /\ c = d - 1 /\ d # 0
        /\ a = l - p /\ b = e - q /\ a <= c /\ b <= c
  <2>1. /\ e - p \in 0..N /\ (e - p) - 1 \in 0..N /\ e - p # 0
        /\ l - p \in 0..N /\ e - q \in 0..N /\ l - p <= (e - p) - 1
        /\ e - q <= (e - p) - 1
    BY <1>1, <1>2
  <2> QED
    BY <2>1, Zenon
<1>4. left.node \in Level(upper, a) /\ Yields[a][left.node] = Kept(p, l)
  BY <1>1, <1>3, Zenon DEF Parses
<1>5. right.node \in Level(lower, b) /\ Yields[b][right.node] = Kept(q, e)
  BY <1>1, <1>3, Zenon DEF Parses
<1>6. /\ left.node \in Level(upper, c) /\ Yields[c][left.node] = Kept(p, l)
  <2>1. left.node \in Level(upper, c)
    BY <1>3, <1>4, LevelWithin, Zenon
  <2>2. left.node \in Trees[a]
    BY <1>4, LevelTrees, Zenon
  <2>3. TreesKept(a, c)
    BY <1>3, TreesWithin, Zenon
  <2> QED
    BY <1>4, <2>1, <2>2, <2>3, Zenon DEF TreesKept
<1>7. /\ right.node \in Level(lower, c) /\ Yields[c][right.node] = Kept(q, e)
  <2>1. right.node \in Level(lower, c)
    BY <1>3, <1>5, LevelWithin, Zenon
  <2>2. right.node \in Trees[b]
    BY <1>5, LevelTrees, Zenon
  <2>3. TreesKept(b, c)
    BY <1>3, TreesWithin, Zenon
  <2> QED
    BY <1>5, <2>1, <2>2, <2>3, Zenon DEF TreesKept
<1>8. node = [id |-> "BINARY_OP", op |-> op, left |-> left.node, right |-> right.node]
  BY Zenon DEF OpNode
<1>9. node \in Level(upper, d)
  <2>1. BinaryAt(d, ops, Level(upper, c), Level(lower, c))
        = [id : {"BINARY_OP"}, op : ops, left : Level(upper, c), right : Level(lower, c)]
    BY <1>3, Zenon DEF BinaryAt
  <2>2. op \in ops
    OBVIOUS
  <2>3. node \in [id : {"BINARY_OP"}, op : ops, left : Level(upper, c),
                  right : Level(lower, c)]
    <3> HIDE DEF op, node
    <3> QED
      BY <1>6, <1>7, <1>8, <2>2
  <2>4. Level(upper, d) = Level(lower, d)
                          \cup BinaryAt(d, ops, Level(upper, d - 1), Level(lower, d - 1))
    BY LoopLevel
  <2> QED
    BY <1>3, <2>1, <2>3, <2>4, Zenon
<1>10. Yields[d][node] = YieldFrom(node, Yields[c])
  <2>1. node \in Trees[d]
    BY <1>9, LevelTrees, Zenon
  <2> QED
    BY <1>3, <2>1, YieldIs, Zenon
<1>11. YieldFrom(node, Yields[c]) = (Kept(p, l) \o << op >>) \o Kept(q, e)
  <2>1. /\ node.id = "BINARY_OP" /\ node.op = op /\ node.left = left.node
        /\ node.right = right.node
    BY <1>8
  <2> HIDE DEF node, op
  <2>2. YieldFrom(node, Yields[c])
        = (Yields[c][left.node] \o << op >>) \o Yields[c][right.node]
    BY <2>1 DEF YieldFrom
  <2> QED
    BY <1>6, <1>7, <2>2, Zenon
<1>12. op = tokens[q] /\ Shown(op) = << op >>
  <2>1. op \in {"*", "/", "+", "-"}
    BY DEF IsLoop
  <2>2. op # MadeUp /\ op # Comma /\ op \notin Numbers
    BY <2>1, TokensAssumption DEF MadeUp, Comma
  <2>3. op = tokens[q]
    BY <1>1, <2>2, PeekInside, Zenon
  <2> QED
    BY <2>2, <2>3 DEF Shown
<1>13. Kept(p, q) = Kept(p, l) \o << op >>
  <2>1. Kept(p, q) = Kept(p, l) \o Shown(tokens[q])
    BY <1>1, <1>2, KeptNext, ZenonT(30)
  <2> QED
    BY <1>12, <2>1, Zenon
<1>14. Kept(p, e) = Kept(p, q) \o Kept(q, e)
  BY <1>2, KeptJoin, Zenon
<1>15. Yields[d][node] = Kept(p, e)
  BY <1>10, <1>11, <1>13, <1>14, Zenon
<1>16. Parsed(node, right.pos).node = node /\ Parsed(node, right.pos).pos = e
  BY <1>1 DEF Parsed
<1>17. p < e /\ l <= e
  BY <1>1, <1>2
<1>18. Reads(p, e)
  <2>1. op \in NumericOps /\ op # "EOL"
    BY DEF IsLoop, NumericOps, MultiplicationOps, AdditionOps
  <2>2. Reads(p, l) /\ Reads(q, e)
    BY <1>1, Zenon DEF Parses
  <2>3. Reads(l, e)
    BY <1>1, <1>2, <2>1, <2>2, ReadsOp, Zenon
  <2> QED
    BY <1>1, <1>2, <1>17, <2>1, <2>2, <2>3, ReadsJoin, Zenon
<1> QED
  BY <1>2, <1>3, <1>9, <1>15, <1>16, <1>17, <1>18, Zenon DEF Parses

LEMMA TurnsParse ==
  ASSUME Listed, NEW ops, NEW lower, NEW upper, IsLoop(ops, lower, upper), NEW Arg,
         \A q \in Nat : \A r \in Arg[q] : Parses(r, q, lower),
         NEW p \in Nat, NEW n \in 0..N, NEW r \in Turns(ops, Arg, p)[n]
  PROVE  Parses(r, p, upper)
<1> DEFINE turns == Turns(ops, Arg, p)
           Good(m) == \A l \in turns[m] : Parses(l, p, upper)
           T == {m \in Nat : m <= N /\ ~Good(m)}
<1>1. N \in Nat
  BY DEF Listed, N
<1>2. turns[0] = Arg[p] /\ \A m \in 1..N : turns[m] = TurnAt(ops, Arg, turns[m - 1])
  <2>1. \A o, a : /\ Turns(o, a, p)[0] = a[p]
                  /\ \A m \in 1..N :
                       Turns(o, a, p)[m] = TurnAt(o, a, Turns(o, a, p)[m - 1])
    BY TurnsAre
  <2> QED
    BY <2>1, Zenon
<1>3. Good(0)
  <2>1. ASSUME NEW l \in Arg[p]
        PROVE  Parses(l, p, upper)
    <3>1. Parses(l, p, lower)
      BY <2>1, Zenon
    <3>2. PICK d \in 0..N : d = l.pos - p
      <4>1. l.pos - p \in 0..N
        BY <1>1, <3>1 DEF Parses
      <4> QED
        BY <4>1, Zenon
    <3>3. Level(upper, d) = Level(lower, d)
                            \cup BinaryAt(d, ops, Level(upper, d - 1), Level(lower, d - 1))
      BY LoopLevel
    <3> QED
      BY <3>1, <3>2, <3>3, Zenon DEF Parses
  <2> QED
    BY <1>2, <2>1, Zenon
<1>4. ASSUME NEW m \in 1..N, Good(m - 1)
      PROVE  Good(m)
  <2>1. ASSUME NEW l \in TurnAt(ops, Arg, turns[m - 1])
        PROVE  Parses(l, p, upper)
    <3>1. PICK left \in turns[m - 1] :
            l \in IF Peek(left.pos) \in ops
                    THEN {Parsed(OpNode(Peek(left.pos), left.node, right.node), right.pos) :
                            right \in Arg[left.pos + 1]}
                    ELSE {left}
      BY <2>1, Zenon DEF TurnAt
    <3>2. Parses(left, p, upper)
      BY <1>4, Zenon
    <3>3. CASE Peek(left.pos) \in ops
      <4>1. PICK right \in Arg[left.pos + 1] :
              l = Parsed(OpNode(Peek(left.pos), left.node, right.node), right.pos)
        BY <3>1, <3>3, Zenon
      <4>2. left.pos + 1 \in Nat
        BY <3>2 DEF Parses
      <4>3. Parses(right, left.pos + 1, lower)
        BY <4>2, Zenon
      <4> QED
        BY <3>2, <3>3, <4>1, <4>3, OpParses, Zenon
    <3>4. CASE Peek(left.pos) \notin ops
      BY <3>1, <3>2, <3>4, Zenon
    <3> QED
      BY <3>3, <3>4, Zenon
  <2> QED
    BY <1>2, <2>1, Zenon
<1>5. T = {}
  <2>1. ASSUME T # {}
        PROVE  FALSE
    <3>1. T \subseteq Nat
      BY Zenon
    <3>2. PICK m \in T : \A j \in T : m <= j
      <4> HIDE DEF T
      <4> QED
        BY <2>1, <3>1, LeastNat, Zenon
    <3>3. m \in Nat /\ m <= N /\ ~Good(m) /\ m # 0
      BY <1>3, <3>2, Zenon
    <3>4. m \in 1..N /\ m - 1 \in Nat /\ m - 1 <= N /\ ~(m <= m - 1)
      BY <1>1, <3>3
    <3>5. m - 1 \notin T
      BY <3>2, <3>4, Zenon
    <3>6. Good(m - 1)
      BY <3>4, <3>5, Zenon
    <3> QED
      BY <1>4, <3>3, <3>4, <3>6, Zenon
  <2> QED
    BY <2>1, Zenon
<1>6. n \in Nat /\ n <= N
  BY <1>1
<1> QED
  BY <1>5, <1>6, Zenon

LEMMA AdditionParses ==
  ASSUME Listed, NEW p \in Nat, NEW r \in Addition[p]
  PROVE  Parses(r, p, "addition")
<1>1. N \in 0..N
  BY DEF Listed, N
<1>2. \A q \in Nat : \A o \in Unary[q] : Parses(o, q, "unary")
  BY UnaryParses, Zenon
<1>3. IsLoop(MultiplicationOps, "unary", "multiplication")
      /\ IsLoop(AdditionOps, "multiplication", "addition")
  BY DEF IsLoop, MultiplicationOps, AdditionOps
<1>4. ASSUME NEW q \in Nat, NEW o \in Multiplication[q]
      PROVE  Parses(o, q, "multiplication")
  <2>1. o \in Turns(MultiplicationOps, Unary, q)[N]
    BY Zenon DEF Multiplication, N
  <2> QED
    BY <1>1, <1>2, <1>3, <2>1, TurnsParse, Zenon
<1>5. r \in Turns(AdditionOps, Multiplication, p)[N]
  BY Zenon DEF Addition, N
<1> QED
  BY <1>1, <1>3, <1>4, <1>5, TurnsParse, Zenon

-----------------------------------------------------------------------------
(* Operands *)

OnlyCommas(p, e) == \A q \in Nat : p <= q /\ q < e => Peek(q) = Comma

LEMMA SkipCommasIs ==
  ASSUME Listed, NEW p \in Nat, p <= N
  PROVE  /\ SkipCommas(p) \in Nat /\ p <= SkipCommas(p) /\ SkipCommas(p) <= N
         /\ Peek(SkipCommas(p)) # Comma
         /\ Kept(p, SkipCommas(p)) = << >>
         /\ OnlyCommas(p, SkipCommas(p))
         /\ Peek(p) # Comma => SkipCommas(p) = p
<1> DEFINE S == {q \in p..N : Peek(q) # Comma}
<1>1. N \in Nat
  BY DEF Listed, N
<1>2. S \subseteq Nat /\ N \in S
  <2>1. Peek(N) # Comma
    <3>1. N <= N
      BY <1>1
    <3>2. Peek(N) = MadeUp
      BY <1>1, <3>1, PeekPast, Zenon
    <3>3. MadeUp # Comma
      BY Zenon DEF MadeUp, Comma
    <3> QED
      BY <3>2, <3>3, Zenon
  <2> QED
    BY <1>1, <2>1
<1>3. PICK q \in S : \A c \in S : q <= c
  <2> HIDE DEF S
  <2> QED
    BY <1>2, LeastNat, Zenon
<1>4. SkipCommas(p) = q
  <2>1. Min(S) = q
    BY <1>2, <1>3, MinIs, Zenon
  <2> QED
    BY <2>1, Zenon DEF SkipCommas, N
<1>5. q \in Nat /\ p <= q /\ q <= N /\ Peek(q) # Comma
  BY <1>1, <1>3
<1>6. Peek(p) # Comma => q = p
  <2>1. p \in p..N
    BY <1>1
  <2>2. Peek(p) # Comma => q <= p
    BY <1>3, <2>1, Zenon
  <2> QED
    BY <1>5, <2>2
<1>7. Kept(p, q) = << >>
  <2> DEFINE T == {c \in Nat : p <= c /\ c <= q /\ Kept(p, c) # << >>}
  <2>1. T = {}
    <3>1. ASSUME T # {}
          PROVE  FALSE
      <4>1. T \subseteq Nat
        BY Zenon
      <4>2. PICK c \in T : \A j \in T : c <= j
        <5> HIDE DEF T
        <5> QED
          BY <3>1, <4>1, LeastNat, Zenon
      <4>3. c \in Nat /\ p <= c /\ c <= q /\ Kept(p, c) # << >> /\ c # p
        BY <4>2, KeptNone, Zenon
      <4>4. PICK b \in Nat : c = b + 1
        <5>1. c - 1 \in Nat /\ c = (c - 1) + 1
          BY <4>3
        <5> QED
          BY <5>1, Zenon
      <4>5. p <= b /\ b <= q /\ ~(c <= b) /\ b \in p..N /\ ~(q <= b) /\ c <= N
        BY <1>1, <1>5, <4>3, <4>4
      <4>6. b \notin T
        BY <4>2, <4>5, Zenon
      <4>7. Kept(p, b) = << >>
        BY <4>5, <4>6, Zenon
      <4>8. Kept(p, c) = Kept(p, b) \o Shown(tokens[c])
        BY <4>3, <4>4, <4>5, KeptNext, Zenon
      <4>9. Peek(b) = Comma
        BY <1>3, <4>5, Zenon
      <4>10. tokens[c] = Comma /\ Comma \notin Numbers
        <5>1. MadeUp # Comma
          BY Zenon DEF MadeUp, Comma
        <5>2. Comma \notin Numbers
          BY TokensAssumption, Zenon
        <5> QED
          BY <4>4, <4>9, <5>1, <5>2, PeekInside, Zenon
      <4>11. Shown(tokens[c]) = << >>
        BY <4>10 DEF Shown
      <4>12. << >> \o << >> = << >>
        OBVIOUS
      <4> QED
        BY <4>3, <4>7, <4>8, <4>11, <4>12, Zenon
    <3> QED
      BY <3>1, Zenon
  <2>2. p <= q /\ q <= q
    BY <1>5
  <2> QED
    BY <1>5, <2>1, <2>2, Zenon
<1>8. OnlyCommas(p, q)
  <2>1. ASSUME NEW c \in Nat, p <= c, c < q
        PROVE  Peek(c) = Comma
    <3>1. c \in p..N /\ ~(q <= c)
      BY <1>1, <1>5, <2>1
    <3> QED
      BY <1>3, <3>1, Zenon
  <2> QED
    BY <2>1, Zenon DEF OnlyCommas
<1> QED
  BY <1>4, <1>5, <1>6, <1>7, <1>8, Zenon

Args ==
    Grammar[N].addition
    \cup [id : {"REGISTER"}, reg : Registers] \cup [id : {"DREGISTER"}, reg : DRegisters]

LEMMA NoRegister ==
  ASSUME Listed, NEW d \in 0..N, NEW node \in Trees[d]
  PROVE  /\ node.id # "REGISTER" /\ node.id # "DREGISTER"
         /\ ~IsRegister(node)
<1>1. node \in Leaves => node.id # "REGISTER" /\ node.id # "DREGISTER"
  BY DEF Leaves
<1>2. node.id # "REGISTER" /\ node.id # "DREGISTER"
  BY <1>1, TreeShapes
<1> QED
  BY <1>2, Zenon DEF IsRegister

LEMMA RegisterParses ==
  ASSUME Listed, NEW p \in Nat, NEW id, id \in {"REGISTER", "DREGISTER"},
         Peek(p) \in (IF id = "REGISTER" THEN Registers ELSE DRegisters)
  PROVE  LET node == [id |-> id, reg |-> Peek(p)] IN
         /\ p + 1 <= N /\ node \in Args /\ IsRegister(node)
         /\ Yield(node) = Kept(p, p + 1)
         /\ Reads(p, p + 1)
<1> DEFINE tok == Peek(p)  node == [id |-> id, reg |-> tok]
<1>1. tok \in Registers \cup DRegisters
  OBVIOUS
<1>2. tok # MadeUp /\ tok # Comma /\ tok \notin Numbers
  BY <1>1, TokensAssumption DEF MadeUp, Comma, Registers, DRegisters
<1>3. PICK q \in Nat : q = p + 1
  OBVIOUS
<1>4. p < N /\ tok = tokens[p + 1]
  BY <1>2, PeekInside, Zenon
<1>5. q <= N
  BY <1>3, <1>4 DEF Listed, N
<1>6. Kept(p, q) = Shown(tok)
  BY <1>3, <1>4, <1>5, KeptOne, Zenon
<1>7. Shown(tok) = << tok >>
  BY <1>2 DEF Shown
<1>8. node.id = id /\ node.reg = tok
  OBVIOUS
<1>9. IsRegister(node)
  BY <1>8 DEF IsRegister
<1>10. node \in Args
  BY DEF Args
<1>11. Yield(node) = << tok >>
  BY <1>8, <1>9, Zenon DEF Yield
<1>12. Reads(p, q)
  <2>1. tok # ".section" /\ tok \notin NumericOps
    BY <1>1 DEF Registers, DRegisters, NumericOps, MultiplicationOps, AdditionOps
  <2> QED
    BY <1>3, <2>1, ReadsOne, Zenon
<1> QED
  BY <1>3, <1>5, <1>6, <1>7, <1>9, <1>10, <1>11, <1>12, Zenon

OperandParses(o, p) ==
    /\ o.pos \in Nat /\ p < o.pos /\ o.pos <= N
    /\ o.node \in Args
    /\ Yield(o.node) = Kept(p, o.pos)
    /\ Reads(p, o.pos)
    /\ IsRegister(o.node) => o.node.reg = Peek(p) /\ o.pos = p + 1

LEMMA OperandIs ==
  ASSUME Listed, NEW p \in Nat, NEW o \in Operand(p)
  PROVE  OperandParses(o, p)
<1>1. Registers \cap DRegisters = {}
  BY DEF Registers, DRegisters
<1>2. p + 1 \in Nat /\ p < p + 1
  OBVIOUS
<1>3. CASE Peek(p) \in Registers
  <2>1. o = Parsed([id |-> "REGISTER", reg |-> Peek(p)], p + 1)
    BY <1>1, <1>3 DEF Operand
  <2>2. /\ o.node = [id |-> "REGISTER", reg |-> Peek(p)] /\ o.pos = p + 1
        /\ o.node.reg = Peek(p)
    BY <2>1 DEF Parsed
  <2>3. /\ p + 1 <= N /\ [id |-> "REGISTER", reg |-> Peek(p)] \in Args
        /\ Yield([id |-> "REGISTER", reg |-> Peek(p)]) = Kept(p, p + 1)
        /\ Reads(p, p + 1)
    BY <1>3, RegisterParses
  <2> QED
    BY <1>2, <2>2, <2>3, Zenon DEF OperandParses
<1>4. CASE Peek(p) \in DRegisters
  <2>0. Peek(p) \notin Registers
    BY <1>1, <1>4, Zenon
  <2>1. o = Parsed([id |-> "DREGISTER", reg |-> Peek(p)], p + 1)
    BY <1>4, <2>0 DEF Operand
  <2>2. /\ o.node = [id |-> "DREGISTER", reg |-> Peek(p)] /\ o.pos = p + 1
        /\ o.node.reg = Peek(p)
    BY <2>1 DEF Parsed
  <2>3. /\ p + 1 <= N /\ [id |-> "DREGISTER", reg |-> Peek(p)] \in Args
        /\ Yield([id |-> "DREGISTER", reg |-> Peek(p)]) = Kept(p, p + 1)
        /\ Reads(p, p + 1)
    BY <1>4, RegisterParses
  <2> QED
    BY <1>2, <2>2, <2>3, Zenon DEF OperandParses
<1>5. CASE Peek(p) \notin Registers /\ Peek(p) \notin DRegisters
  <2>1. o \in Addition[p]
    BY <1>5 DEF Operand
  <2>2. Parses(o, p, "addition")
    BY <2>1, AdditionParses, Zenon
  <2>3. N \in Nat /\ N \in 0..N
    BY DEF Listed, N
  <2>4. PICK d \in 0..N : d = o.pos - p /\ d <= N
    <3>1. o.pos - p \in 0..N /\ o.pos - p <= N
      BY <2>2, <2>3 DEF Parses
    <3> QED
      BY <3>1, Zenon
  <2>5. o.node \in Level("addition", d) /\ Yields[d][o.node] = Kept(p, o.pos)
    BY <2>2, <2>4, Zenon DEF Parses
  <2>6. o.node \in Level("addition", N)
    BY <2>3, <2>4, <2>5, LevelWithin, Zenon
  <2>7. o.node \in Grammar[N].addition
    BY <2>3, <2>6, LevelTrees, Zenon
  <2>8. o.node \in Args
    BY <2>7, Zenon DEF Args
  <2>9. o.node \in Trees[d] /\ TreesKept(d, N)
    BY <2>3, <2>4, <2>5, LevelTrees, TreesWithin, Zenon
  <2>10. Yields[N][o.node] = Kept(p, o.pos)
    BY <2>5, <2>9, Zenon DEF TreesKept
  <2>11. ~IsRegister(o.node)
    BY <2>9, NoRegister, Zenon
  <2>12. Yield(o.node) = Kept(p, o.pos)
    BY <2>10, <2>11, Zenon DEF Yield, N
  <2> QED
    BY <2>2, <2>8, <2>11, <2>12, Zenon DEF OperandParses, Parses
<1> QED
  BY <1>3, <1>4, <1>5, Zenon
-----------------------------------------------------------------------------
(* Instructions *)

YieldsOf(args) == [i \in DOMAIN args |-> Yield(args[i])]

(* The tokens of no operand, of a register, of one operand, of two.         *)
Counted(args, p, e) ==
    /\ Len(args) = 0 => OnlyCommas(p, e)
    /\ Len(args) = 1 =>
         \E j \in Nat : /\ p <= j /\ j < e /\ Peek(j) # Comma
                        /\ IsRegister(args[1]) =>
                             /\ args[1].reg = Peek(j)
                             /\ OnlyCommas(p, j) /\ OnlyCommas(j + 1, e)
    /\ Len(args) = 2 =>
         \E i, j \in Nat : p <= i /\ i < j /\ j < e /\ Peek(i) # Comma /\ Peek(j) # Comma

LEMMA CountedCommas ==
  ASSUME NEW args, NEW p \in Nat, NEW m \in Nat, NEW e \in Nat, p <= m, m <= e,
         Counted(args, p, m), OnlyCommas(m, e)
  PROVE  Counted(args, p, e)
<1>1. ASSUME NEW q \in Nat, OnlyCommas(q, m)
      PROVE  OnlyCommas(q, e)
  <2>1. \A c \in Nat : q <= c /\ c < e => c < m \/ m <= c
    OBVIOUS
  <2> QED
    BY <1>1, <2>1, Zenon DEF OnlyCommas
<1>2. \A j \in Nat : j < m => j < e /\ j + 1 \in Nat
  OBVIOUS
<1> QED
  BY <1>1, <1>2, Zenon DEF Counted

LEMMA CountedNext ==
  ASSUME Listed, NEW args \in Seq(Args), NEW s \in Nat, NEW m \in Nat, NEW p \in Nat,
         s <= m, m <= p, Counted(args, s, m), OnlyCommas(m, p), Peek(p) # Comma,
         NEW o, OperandParses(o, p)
  PROVE  Counted(Append(args, o.node), s, o.pos)
<1> DEFINE more == Append(args, o.node)
<1>1. PICK e \in Nat : e = o.pos /\ p < e
  BY DEF OperandParses
<1>2. PICK c \in Nat : c = Len(args)
  BY LenProperties
<1>3. Len(more) = c + 1 /\ more[c + 1] = o.node
  BY <1>2, AppendProperties DEF OperandParses
<1>4. s <= p
  OBVIOUS
<1> HIDE DEF more
<1>5. CASE c = 0
  <2>1. Counted(args, s, p)
    BY CountedCommas, Zenon
  <2>2. OnlyCommas(s, p)
    BY <1>2, <1>5, <2>1, Zenon DEF Counted
  <2>3. Len(more) = 1 /\ more[1] = o.node
    BY <1>3, <1>5
  <2>4. ASSUME IsRegister(o.node)
        PROVE  o.node.reg = Peek(p) /\ OnlyCommas(p + 1, e)
    <3>1. o.node.reg = Peek(p) /\ e = p + 1
      BY <1>1, <2>4, Zenon DEF OperandParses
    <3>2. \A q \in Nat : ~(p + 1 <= q /\ q < p + 1)
      OBVIOUS
    <3> QED
      BY <3>1, <3>2, Zenon DEF OnlyCommas
  <2>5. Counted(more, s, e)
    <3>1. 1 # 0 /\ 1 # 2
      OBVIOUS
    <3> QED
      BY <1>1, <1>4, <2>2, <2>3, <2>4, <3>1, Zenon DEF Counted
  <2> QED
    BY <1>1, <2>5, Zenon DEF more
<1>6. CASE c = 1
  <2>1. PICK i \in Nat : s <= i /\ i < m /\ Peek(i) # Comma
    BY <1>2, <1>6, Zenon DEF Counted
  <2>2. i < p
    BY <2>1
  <2>3. Len(more) = 2 /\ 2 # 0 /\ 2 # 1
    BY <1>3, <1>6
  <2>4. Counted(more, s, e)
    BY <1>1, <2>1, <2>2, <2>3, Zenon DEF Counted
  <2> QED
    BY <1>1, <2>4, Zenon DEF more
<1>7. CASE c # 0 /\ c # 1
  <2>1. Len(more) # 0 /\ Len(more) # 1 /\ Len(more) # 2
    BY <1>3, <1>7
  <2> QED
    BY <2>1, Zenon DEF Counted, more
<1> QED
  BY <1>5, <1>6, <1>7, Zenon

RestParses(r, s, n) ==
    /\ r.pos \in Nat /\ s <= r.pos /\ r.pos <= N
    /\ Reads(s, r.pos) /\ (s < r.pos => Peek(s) # "EOL")
    /\ Counted(r.args, s, r.pos)
    /\ r.args \in Seq(Args) /\ Len(r.args) <= n
    /\ Len(r.args) < n => Peek(r.pos) = "EOL"
    /\ YieldsOf(r.args) \in Seq(Seq(Shows))
    /\ FlattenSeq(YieldsOf(r.args)) = Kept(s, r.pos)

LEMMA YieldsAppend ==
  ASSUME NEW S, NEW args \in Seq(S), NEW node \in S
  PROVE  YieldsOf(Append(args, node)) = Append(YieldsOf(args), Yield(node))
<1> DEFINE more == Append(args, node)
           yields == YieldsOf(args)
<1>1. PICK c \in Nat : c = Len(args)
  BY LenProperties
<1>2. /\ more \in Seq(S) /\ Len(more) = c + 1 /\ more[c + 1] = node
      /\ \A i \in 1..c : more[i] = args[i]
  BY <1>1, AppendProperties
<1>3. DOMAIN args = 1..c /\ DOMAIN more = 1..(c + 1)
  BY <1>1, <1>2, LenProperties
<1> HIDE DEF more
<1>4. yields = [i \in 1..c |-> Yield(args[i])]
  BY <1>3, Zenon DEF YieldsOf
<1>5. yields = [i \in 1..c |-> yields[i]] /\ \A i \in 1..c : yields[i] = Yield(args[i])
  BY <1>4, Zenon
<1> HIDE DEF yields
<1>6. Append(yields, Yield(node))
        = [i \in 1..(c + 1) |-> IF i \in 1..c THEN yields[i] ELSE Yield(node)]
  BY <1>5, AppendIs
<1>7. YieldsOf(more) = [i \in 1..(c + 1) |-> Yield(more[i])]
  BY <1>3, Zenon DEF YieldsOf
<1>8. \A i \in 1..(c + 1) :
        Yield(more[i]) = IF i \in 1..c THEN yields[i] ELSE Yield(node)
  <2>1. ASSUME NEW i \in 1..(c + 1)
        PROVE  Yield(more[i]) = IF i \in 1..c THEN yields[i] ELSE Yield(node)
    <3>1. i \notin 1..c => i = c + 1
      BY <1>1
    <3> QED
      BY <1>2, <1>5, <3>1, Zenon
  <2> QED
    BY <2>1, Zenon
<1>9. YieldsOf(more) = Append(yields, Yield(node))
  BY <1>6, <1>7, <1>8, Zenon
<1> QED
  BY <1>9, Zenon DEF more, yields

LEMMA NoArgs ==
  ASSUME Listed, NEW s \in Nat, s <= N
  PROVE  RestParses([args |-> << >>, pos |-> s], s, 0)
<1> DEFINE r == [args |-> << >>, pos |-> s]
<1>1. r.args = << >> /\ r.pos = s
  BY Zenon
<1>2. YieldsOf(<< >>) = << >>
  BY DEF YieldsOf
<1>3. FlattenSeq(<< >>) = << >>
  BY DEF FlattenSeq
<1>4. Kept(s, s) = << >>
  BY KeptNone
<1>5. << >> \in Seq(Args) /\ << >> \in Seq(Seq(Shows)) /\ Len(<< >>) = 0
  OBVIOUS
<1>6. s <= s /\ 0 <= 0 /\ ~(0 < 0) /\ ~(s < s)
  OBVIOUS
<1>7. Reads(s, s) /\ Counted(<< >>, s, s)
  <2>1. \A q \in Nat : ~(s <= q /\ q < s)
    OBVIOUS
  <2>2. Len(<< >>) # 1 /\ Len(<< >>) # 2
    OBVIOUS
  <2> QED
    BY <2>1, <2>2, Zenon DEF Reads, Counted, OnlyCommas
<1> QED
  BY <1>1, <1>2, <1>3, <1>4, <1>5, <1>6, <1>7, Zenon DEF RestParses

LEMMA NextOperandParses ==
  ASSUME Listed, NEW s \in Nat, NEW n \in Nat, NEW m \in Nat, m = n + 1,
         NEW rests, \A r \in rests : RestParses(r, s, n), NEW x \in NextOperand(rests)
  PROVE  RestParses(x, s, m)
<1>1. PICK rest \in rests :
        x \in (IF Peek(SkipCommas(rest.pos)) = "EOL"
                 THEN {[args |-> rest.args, pos |-> SkipCommas(rest.pos)]}
                 ELSE {[args |-> Append(rest.args, operand.node), pos |-> operand.pos] :
                         operand \in Operand(SkipCommas(rest.pos))})
  BY Zenon DEF NextOperand
<1>2. RestParses(rest, s, n)
  BY <1>1, Zenon
<1>3. PICK p \in Nat : /\ p = SkipCommas(rest.pos) /\ rest.pos <= p /\ p <= N
                       /\ Kept(rest.pos, p) = << >>
                       /\ OnlyCommas(rest.pos, p) /\ Peek(p) # Comma
                       /\ Peek(rest.pos) # Comma => p = rest.pos
  BY <1>2, SkipCommasIs, Zenon DEF RestParses
<1>4. s <= p /\ rest.pos \in Nat /\ s <= rest.pos /\ rest.pos <= N
  BY <1>2, <1>3 DEF RestParses
<1>9. Reads(s, p) /\ (s < p => Peek(s) # "EOL")
  <2>1. "EOL" # Comma
    BY Zenon DEF Comma
  <2>2. rest.pos < p => Peek(rest.pos) = Comma
    BY <1>3, <1>4, Zenon DEF OnlyCommas
  <2>3. Reads(rest.pos, p)
    BY <1>3, <1>4, ReadsCommas, Zenon DEF OnlyCommas
  <2>4. Reads(s, p)
    BY <1>2, <1>3, <1>4, <2>1, <2>2, <2>3, ReadsJoin, Zenon DEF RestParses
  <2>5. s < p => s < rest.pos \/ (s = rest.pos /\ rest.pos < p)
    BY <1>3, <1>4
  <2> QED
    BY <1>2, <2>1, <2>2, <2>4, <2>5, Zenon DEF RestParses
<1>10. Counted(rest.args, s, p)
  BY <1>2, <1>3, <1>4, CountedCommas, Zenon DEF RestParses
<1>5. Kept(s, p) = Kept(s, rest.pos)
  <2>1. Kept(s, p) = Kept(s, rest.pos) \o Kept(rest.pos, p)
    BY <1>3, <1>4, KeptJoin, Zenon
  <2>2. Kept(s, rest.pos) \in Seq(Shows)
    BY <1>4, KeptType, Zenon
  <2>3. Kept(s, rest.pos) \o << >> = Kept(s, rest.pos)
    BY <2>2
  <2> QED
    BY <1>3, <2>1, <2>3, Zenon
<1>6. PICK c \in Nat : c = Len(rest.args)
  BY <1>2 DEF RestParses
<1>7. CASE Peek(p) = "EOL"
  <2>1. x = [args |-> rest.args, pos |-> p]
    BY <1>1, <1>3, <1>7, Zenon
  <2>2. x.args = rest.args /\ x.pos = p
    BY <2>1, Zenon
  <2>3. c <= m
    BY <1>2, <1>6 DEF RestParses
  <2> QED
    BY <1>2, <1>3, <1>4, <1>5, <1>6, <1>7, <1>9, <1>10, <2>2, <2>3, Zenon DEF RestParses
<1>8. CASE Peek(p) # "EOL"
  <2>1. PICK o \in Operand(p) : x = [args |-> Append(rest.args, o.node), pos |-> o.pos]
    BY <1>1, <1>3, <1>8, Zenon
  <2>2. OperandParses(o, p)
    BY <2>1, OperandIs, Zenon
  <2>3. x.args = Append(rest.args, o.node) /\ x.pos = o.pos
    BY <2>1, Zenon
  <2>4. c = n
    <3>1. "EOL" # Comma
      BY Zenon DEF Comma
    <3>2. ~(c < n)
      BY <1>2, <1>3, <1>6, <1>8, <3>1, Zenon DEF RestParses
    <3> QED
      BY <1>2, <1>6, <3>2 DEF RestParses
  <2>5. x.args \in Seq(Args) /\ Len(x.args) = m
    <3>1. rest.args \in Seq(Args) /\ o.node \in Args
      BY <1>2, <2>2, Zenon DEF RestParses, OperandParses
    <3>2. Append(rest.args, o.node) \in Seq(Args) /\ Len(Append(rest.args, o.node)) = c + 1
      BY <1>6, <3>1, AppendProperties
    <3> QED
      BY <2>3, <2>4, <3>2, Zenon
  <2>6. PICK q \in Nat : q = o.pos /\ p < q /\ p <= q /\ q <= N /\ s <= q
    <3>1. o.pos \in Nat /\ p < o.pos /\ p <= o.pos /\ o.pos <= N /\ s <= o.pos
      BY <1>4, <2>2 DEF OperandParses
    <3> QED
      BY <3>1, Zenon
  <2>7. YieldsOf(x.args) = Append(YieldsOf(rest.args), Yield(o.node))
    BY <1>2, <2>2, <2>3, YieldsAppend, Zenon DEF RestParses, OperandParses
  <2>8. Yield(o.node) = Kept(p, q) /\ Kept(p, q) \in Seq(Shows)
    <3>1. Yield(o.node) = Kept(p, q)
      BY <2>2, <2>6, Zenon DEF OperandParses
    <3> QED
      BY <2>6, <3>1, KeptType, Zenon
  <2>9. FlattenSeq(YieldsOf(x.args)) = FlattenSeq(YieldsOf(rest.args)) \o Kept(p, q)
    BY <1>2, <2>7, <2>8, FlattenSeqAppend, Zenon DEF RestParses
  <2>10. Kept(s, q) = Kept(s, p) \o Kept(p, q)
    BY <1>3, <1>4, <2>6, KeptJoin, ZenonT(30)
  <2>11. FlattenSeq(YieldsOf(x.args)) = Kept(s, q)
    BY <1>2, <1>5, <2>9, <2>10, Zenon DEF RestParses
  <2>12. YieldsOf(x.args) \in Seq(Seq(Shows))
    <3>1. YieldsOf(rest.args) \in Seq(Seq(Shows))
      BY <1>2, Zenon DEF RestParses
    <3>2. Append(YieldsOf(rest.args), Kept(p, q)) \in Seq(Seq(Shows))
      BY <2>8, <3>1, AppendProperties
    <3> QED
      BY <2>7, <2>8, <3>2, Zenon
  <2>13. m <= m /\ ~(m < m)
    OBVIOUS
  <2>14. Reads(s, q) /\ Peek(s) # "EOL"
    <3>1. Reads(p, q)
      BY <2>2, <2>6, Zenon DEF OperandParses
    <3>2. Reads(s, q)
      BY <1>4, <1>8, <1>9, <2>6, <3>1, ReadsJoin, Zenon
    <3>3. s < p \/ s = p
      BY <1>4
    <3> QED
      BY <1>8, <1>9, <3>2, <3>3, Zenon
  <2>15. Counted(x.args, s, q)
    <3>1. rest.args \in Seq(Args) /\ Counted(rest.args, s, rest.pos)
      BY <1>2, Zenon DEF RestParses
    <3> QED
      BY <1>3, <1>4, <2>2, <2>3, <2>6, <3>1, CountedNext, Zenon
  <2> QED
    BY <2>3, <2>5, <2>6, <2>11, <2>12, <2>13, <2>14, <2>15, Zenon DEF RestParses
<1> QED
  BY <1>7, <1>8, Zenon

(* What the statement between s and e is, whatever its kind.                *)
Proper(node) ==
    node.id = "INSTRUCTION" =>
      \A i \in DOMAIN node.args :
        IsRegister(node.args[i]) \/ node.args[i] \in Grammar[N].addition

InstructionNode(type, args) == [id |-> "INSTRUCTION", type |-> type, args |-> args]

(* The tokens of a statement, and what stands behind it.                    *)
Spells(node, s, e) ==
    /\ node.id = "DIRECTIVE" =>
         /\ e = s + 2 /\ Peek(s) = ".section"
         /\ node.operands[1] = Peek(s + 1) /\ Peek(s + 1) # "EOL"
    /\ node.id = "LABEL" => e = s + 1 /\ IsLabel(Peek(s)) /\ Peek(e) = ":"
    /\ node.id = "INSTRUCTION" =>
         /\ Peek(s) = node.type /\ node.type \in Instructions /\ Peek(e) = "EOL"
         /\ Reads(s, e) /\ Counted(node.args, s + 1, e) /\ node.args \in Seq(Args)
         /\ node = InstructionNode(node.type, node.args)

StatementParses(node, s, e) ==
    /\ s \in Nat /\ e \in Nat /\ s < e /\ e <= N
    /\ Spells(node, s, e)
    /\ IsStatement(node) /\ Proper(node)
    /\ YieldOf(node) = IF node.id = "INSTRUCTION" THEN Kept(s, e)
                       ELSE SubSeq(tokens, s + 1, e)

LEMMA ArityIs ==
  ASSUME NEW inst \in Instructions, NEW n \in Nat, n \in Arity(inst)
  PROVE  n < 3
BY DEF Arity, Instructions

LEMMA ArgsAre ==
  ASSUME Listed, NEW node \in Args
  PROVE  /\ IsRegister(node) \/ node \in Grammar[N].addition
         /\ IsRegister(node) \/ node \in Trees[N]
         /\ node.id \in {"REGISTER", "DREGISTER"} => IsRegister(node)
<1>1. N \in 0..N
  BY DEF Listed, N
<1>2. node \in [id : {"REGISTER"}, reg : Registers] => IsRegister(node)
  BY DEF IsRegister
<1>3. node \in [id : {"DREGISTER"}, reg : DRegisters] => IsRegister(node)
  BY DEF IsRegister
<1>4. node \in Grammar[N].addition => node \in Trees[N]
  BY <1>1, LevelTrees, Zenon DEF Level
<1>5. node \in Trees[N] => node.id \notin {"REGISTER", "DREGISTER"}
  BY <1>1, NoRegister
<1> QED
  BY <1>2, <1>3, <1>4, <1>5, Zenon DEF Args

LEMMA InstructionParses ==
  ASSUME Listed, NEW p \in Nat, p < N, Peek(p) \in Instructions, NEW r \in Instruction(p)
  PROVE  /\ StatementParses(r.node, p, r.pos)
         /\ Peek(r.pos) = "EOL"
<1>1. PICK rest \in Operands(p + 1) :
        /\ Len(rest.args) \in Arity(Peek(p))
        /\ r = Parsed([id |-> "INSTRUCTION", type |-> Peek(p), args |-> rest.args], rest.pos)
  BY Zenon DEF Instruction
<1>2. r.node = [id |-> "INSTRUCTION", type |-> Peek(p), args |-> rest.args]
      /\ r.pos = rest.pos
  BY <1>1, Zenon DEF Parsed
<1>3. r.node.id = "INSTRUCTION" /\ r.node.type = Peek(p) /\ r.node.args = rest.args
  BY <1>2
<1>4. PICK s \in Nat : s = p + 1 /\ s <= N
  BY DEF Listed, N
<1>5. RestParses(rest, s, 3)
  <2> DEFINE none == {[args |-> << >>, pos |-> s]}
  <2>1. \A x \in none : RestParses(x, s, 0)
    BY <1>4, NoArgs, Zenon
  <2>2. 0 \in Nat /\ 1 \in Nat /\ 2 \in Nat /\ 3 \in Nat /\ 1 = 0 + 1 /\ 2 = 1 + 1 /\ 3 = 2 + 1
    OBVIOUS
  <2> HIDE DEF none
  <2>3. \A x \in NextOperand(none) : RestParses(x, s, 1)
    BY <2>1, <2>2, NextOperandParses, Zenon
  <2>4. \A x \in NextOperand(NextOperand(none)) : RestParses(x, s, 2)
    BY <2>2, <2>3, NextOperandParses, Zenon
  <2>5. \A x \in NextOperand(NextOperand(NextOperand(none))) : RestParses(x, s, 3)
    BY <2>2, <2>4, NextOperandParses, Zenon
  <2>6. Operands(s) = NextOperand(NextOperand(NextOperand(none)))
    BY Zenon DEF Operands, none
  <2> QED
    BY <1>1, <1>4, <2>5, <2>6, Zenon
<1>6. Len(rest.args) < 3
  <2>1. Len(rest.args) \in Nat
    BY <1>5 DEF RestParses
  <2> QED
    BY <1>1, <2>1, ArityIs, Zenon
<1>7. Peek(r.pos) = "EOL"
  BY <1>2, <1>5, <1>6, Zenon DEF RestParses
<1>8. PICK e \in Nat : e = r.pos /\ s <= e /\ p < e /\ p <= s /\ e <= N
  <2>1. r.pos \in Nat /\ s <= r.pos /\ p < r.pos /\ r.pos <= N /\ p <= s
    BY <1>2, <1>4, <1>5 DEF RestParses
  <2> QED
    BY <2>1, Zenon
<1>9. \A i \in DOMAIN rest.args : rest.args[i] \in Args
  BY <1>5 DEF RestParses
<1>10. Proper(r.node)
  BY <1>3, <1>9, ArgsAre, Zenon DEF Proper
<1>11. IsStatement(r.node)
  BY <1>1, <1>3, <1>9, ArgsAre, Zenon DEF IsStatement, N
<1>12. YieldOf(r.node) = Kept(p, e)
  <2>1. YieldOf(r.node) = << Peek(p) >> \o FlattenSeq(YieldsOf(rest.args))
    BY <1>3 DEF YieldOf, YieldsOf
  <2>2. Peek(p) # Comma /\ Peek(p) # MadeUp /\ Peek(p) \notin Numbers
    <3>1. Comma \notin Instructions /\ MadeUp \notin Instructions
      BY Zenon DEF Comma, MadeUp, Instructions, NoOperands, OneOperand, TwoOperands,
                   OneOrTwoOperands
    <3> QED
      BY <3>1, TokensAssumption, Zenon
  <2>3. Peek(p) = tokens[s]
    BY <1>4, <2>2, PeekInside, Zenon
  <2>4. Shown(Peek(p)) = << Peek(p) >>
    BY <2>2 DEF Shown
  <2>5. Kept(p, s) = << Peek(p) >>
    BY <1>4, <2>3, <2>4, KeptOne, Zenon
  <2>6. Kept(p, e) = Kept(p, s) \o Kept(s, e)
    BY <1>4, <1>8, KeptJoin, Zenon
  <2> QED
    BY <1>2, <1>5, <1>8, <2>1, <2>5, <2>6, Zenon DEF RestParses
<1>13. Spells(r.node, p, e)
  <2>1. Reads(s, e) /\ (s < e => Peek(s) # "EOL") /\ Counted(rest.args, s, e)
    BY <1>2, <1>5, <1>8, Zenon DEF RestParses
  <2>2. Peek(p) # ".section" /\ Peek(p) \notin NumericOps
    BY DEF Instructions, NoOperands, OneOperand, TwoOperands, OneOrTwoOperands,
           NumericOps, MultiplicationOps, AdditionOps
  <2>3. Reads(p, s)
    BY <1>4, <2>2, ReadsOne, Zenon
  <2>4. Reads(p, e)
    BY <1>4, <1>8, <2>1, <2>3, ReadsJoin, Zenon
  <2>5. r.node.id # "DIRECTIVE" /\ r.node.id # "LABEL"
    BY <1>3
  <2>6. rest.args \in Seq(Args)
    BY <1>5, Zenon DEF RestParses
  <2>7. r.node = InstructionNode(r.node.type, r.node.args)
    BY <1>2, <1>3, Zenon DEF InstructionNode
  <2> QED
    BY <1>3, <1>4, <1>7, <1>8, <2>1, <2>4, <2>5, <2>6, <2>7, Zenon DEF Spells
<1> QED
  BY <1>3, <1>7, <1>8, <1>10, <1>11, <1>12, <1>13, Zenon DEF StatementParses
-----------------------------------------------------------------------------
(* The invariant *)

EndsClosed == IsSuffix(<< "EOL", "EOF" >>, tokens)

LEMMA FirstTwo ==
  ASSUME NEW s
  PROVE  SubSeq(s, 1, 2)[1] = s[1] /\ SubSeq(s, 1, 2)[2] = s[2]
<1> DEFINE T == {s[i] : i \in 1..2}
<1>1. \A i \in 1..2 : s[i] \in T
  OBVIOUS
<1> HIDE DEF T
<1>2. PICK u : u = SubSeq(s, 1, 2)
  OBVIOUS
<1>3. \A i \in 1..(2 - 1 + 1) : u[i] = s[1 + i - 1]
  BY <1>1, <1>2, SubSeqProperties
<1> QED
  BY <1>2, <1>3

LEMMA EndIs ==
  ASSUME Listed, EndsClosed
  PROVE  /\ N \in Nat /\ 2 <= N
         /\ Peek(N - 1) = "EOF" /\ Peek(N - 2) = "EOL"
<1> DEFINE s == << "EOL", "EOF" >>
           u == Reverse(s)
           v == Reverse(tokens)
<1>1. N \in Nat
  BY DEF Listed, N
<1>2. Len(s) = 2 /\ s[1] = "EOL" /\ s[2] = "EOF"
  OBVIOUS
<1>3. u = [i \in 1..2 |-> s[(2 - i) + 1]]
  BY <1>2, Zenon DEF Reverse
<1>4. Len(u) = 2 /\ u[1] = "EOF" /\ u[2] = "EOL"
  BY <1>2, <1>3
<1>5. v = [i \in 1..N |-> tokens[(N - i) + 1]]
  BY Zenon DEF Reverse, N
<1>6. Len(v) = N
  BY <1>1, <1>5
<1> HIDE DEF u, v
<1>7. 2 <= N /\ SubSeq(u, 1, 2) = SubSeq(v, 1, 2)
  <2>1. Len(u) <= Len(v) /\ SubSeq(u, 1, Len(u)) = SubSeq(v, 1, Len(u))
    BY Zenon DEF EndsClosed, IsSuffix, IsPrefix, u, v
  <2> QED
    BY <1>4, <1>6, <2>1
<1>8. v[1] = "EOF" /\ v[2] = "EOL"
  BY <1>4, <1>7, FirstTwo, Zenon
<1>9. v[1] = tokens[N] /\ v[2] = tokens[N - 1]
  BY <1>1, <1>5, <1>7
<1>10. N - 1 < N /\ (N - 1) + 1 = N /\ N - 2 < N /\ (N - 2) + 1 = N - 1
  BY <1>1
<1> QED
  BY <1>1, <1>7, <1>8, <1>9, <1>10, Zenon DEF Peek, N

StatementsParse ==
    \A k \in 1..Len(lines) : StatementParses(lines[k], spans[k][1], spans[k][2])
OnlyNewlinesBetween ==
    \A p \in Nat : p < mPos =>
      \/ Peek(p) = "EOL"
      \/ \E k \in 1..Len(lines) : spans[k][1] <= p /\ p < spans[k][2]
SpansInOrder ==
    /\ \A k \in 1..Len(lines) : spans[k][2] <= mPos
    /\ \A j, k \in 1..Len(lines) : j < k => spans[j][2] <= spans[k][1]
ParserInv ==
    /\ Listed
    /\ mPos \in Nat /\ mPos <= N
    /\ Len(lines) \in Nat /\ lines = [k \in 1..Len(lines) |-> lines[k]]
    /\ spans = [k \in 1..Len(lines) |-> spans[k]]
    /\ StatementsParse
    /\ SpansInOrder
    /\ OnlyNewlinesBetween
    /\ status \in {"running", "done", "ParserException", "out_of_range"}
    /\ status = "done" => Peek(mPos) = "EOF"
    /\ EndsClosed => mPos < N /\ status # "out_of_range"

LEMMA SameTokens ==
  ASSUME tokens' = tokens
  PROVE  /\ N' = N /\ (Listed' <=> Listed) /\ (EndsClosed' <=> EndsClosed)
         /\ \A p : Peek(p)' = Peek(p)
         /\ \A node, s, e : StatementParses(node, s, e)' <=> StatementParses(node, s, e)
<1>1. N' = N /\ (Listed' <=> Listed) /\ (EndsClosed' <=> EndsClosed)
  BY DEF N, Listed, EndsClosed
<1>2. \A p : Peek(p)' = Peek(p)
  BY Zenon DEF Peek
<1>3. Trees' = Trees
  BY DEF Trees
<1>4. Grammar' = Grammar
  BY DEF Grammar
<1>5. Yields' = Yields
  BY DEF Yields, Trees
<1>6. \A node : Yield(node)' = Yield(node)
  BY <1>5, Zenon DEF Yield, IsRegister
<1>7. ASSUME NEW node
      PROVE  YieldOf(node)' = YieldOf(node)
  BY <1>6 DEF YieldOf
<1>8. \A node : /\ IsStatement(node)' <=> IsStatement(node)
                /\ Proper(node)' <=> Proper(node)
  BY <1>1, <1>3, <1>4, Zenon DEF IsStatement, Proper, N, IsRegister, IsLabel, Arity
<1>9. \A s, e : Kept(s, e)' = Kept(s, e)
  BY DEF Kept, WithoutCommas, Shown
<1>11. ASSUME NEW node, NEW s, NEW e
       PROVE  Spells(node, s, e)' <=> Spells(node, s, e)
  <2>1. Args' = Args
    BY <1>1, <1>4, Zenon DEF Args
  <2>2. ASSUME NEW args, NEW p
        PROVE  /\ Reads(s, e)' <=> Reads(s, e)
               /\ Counted(args, p, e)' <=> Counted(args, p, e)
    BY <1>2 DEF Reads, Counted, OnlyCommas, IsRegister
  <2> QED
    BY <1>2, <2>1, <2>2, Zenon DEF Spells, IsLabel
<1>10. ASSUME NEW node, NEW s, NEW e
       PROVE  StatementParses(node, s, e)' <=> StatementParses(node, s, e)
  BY <1>1, <1>7, <1>8, <1>9, <1>11, Zenon DEF StatementParses
<1> QED
  BY <1>1, <1>2, <1>10, Zenon
LEMMA AppendFacts ==
  ASSUME NEW c \in Nat, NEW d \in Nat, d = c + 1,
         NEW s, s = [k \in 1..c |-> s[k]], NEW x, NEW t, t = Append(s, x)
  PROVE  /\ Len(t) = d /\ t = [k \in 1..d |-> t[k]]
         /\ \A k \in 1..c : t[k] = s[k]
         /\ t[d] = x
<1>1. t = [k \in 1..d |-> IF k \in 1..c THEN s[k] ELSE x]
  BY AppendIs
<1>2. t = [k \in 1..d |-> t[k]]
  BY <1>1, Zenon
<1>3. d \in 1..d /\ d \notin 1..c /\ 1..c \subseteq 1..d
  OBVIOUS
<1>4. Len(t) = d
  BY <1>2
<1>5. \A k \in 1..d : t[k] = IF k \in 1..c THEN s[k] ELSE x
  BY <1>1, Zenon
<1> QED
  BY <1>2, <1>3, <1>4, <1>5, Zenon

(* A statement that parses goes to the end of the tree.                     *)
LEMMA StatementStep ==
  ASSUME ParserInv, NEW parsed, AtStatement, Statement(parsed),
         StatementParses(parsed.node, mPos, parsed.pos),
         EndsClosed => parsed.pos < N
  PROVE  ParserInv'
<1>1. /\ lines' = Append(lines, parsed.node)
      /\ spans' = Append(spans, << mPos, parsed.pos >>)
      /\ mPos' = parsed.pos /\ tokens' = tokens /\ status' = status
  BY Zenon DEF Statement
<1>2. PICK c \in Nat : c = Len(lines)
  BY Zenon DEF ParserInv
<1>3. PICK d \in Nat : d = c + 1
  OBVIOUS
<1>4. /\ Len(lines') = d /\ lines' = [k \in 1..d |-> lines'[k]]
      /\ \A k \in 1..c : lines'[k] = lines[k]
      /\ lines'[d] = parsed.node
  <2>1. lines = [k \in 1..c |-> lines[k]]
    BY <1>2, Zenon DEF ParserInv
  <2> QED
    BY <1>1, <1>3, <2>1, AppendFacts
<1>5. /\ spans' = [k \in 1..d |-> spans'[k]]
      /\ \A k \in 1..c : spans'[k] = spans[k]
      /\ spans'[d] = << mPos, parsed.pos >>
  <2>1. spans = [k \in 1..c |-> spans[k]]
    BY <1>2, Zenon DEF ParserInv
  <2> QED
    BY <1>1, <1>3, <2>1, AppendFacts
<1>6. 1..d = 1..c \cup {d}
  BY <1>3
<1>7. spans'[d][1] = mPos /\ spans'[d][2] = parsed.pos
  BY <1>5
<1>8. /\ N' = N /\ (Listed' <=> Listed) /\ (EndsClosed' <=> EndsClosed)
      /\ \A p : Peek(p)' = Peek(p)
      /\ \A node, s, e : StatementParses(node, s, e)' <=> StatementParses(node, s, e)
  BY <1>1, SameTokens
<1>9. StatementsParse'
  <2>1. ASSUME NEW k \in 1..d
        PROVE  StatementParses(lines'[k], spans'[k][1], spans'[k][2])
    <3>1. CASE k \in 1..c
      BY <1>2, <1>4, <1>5, <3>1, Zenon DEF ParserInv, StatementsParse
    <3>2. CASE k = d
      BY <1>4, <1>7, <3>2, Zenon
    <3> QED
      BY <1>6, <3>1, <3>2, Zenon
  <2>2. PICK more, places : more = lines' /\ places = spans'
    OBVIOUS
  <2>3. \A k \in 1..d : StatementParses(more[k], places[k][1], places[k][2])'
    BY <1>8, <2>1, <2>2, Zenon
  <2> QED
    BY <1>4, <2>2, <2>3 DEF StatementsParse
<1>10. parsed.pos \in Nat /\ mPos \in Nat /\ parsed.pos <= N
  BY Zenon DEF StatementParses
<1>11. OnlyNewlinesBetween'
  <2>1. ASSUME NEW p \in Nat, p < parsed.pos
        PROVE  \/ Peek(p) = "EOL"
               \/ \E k \in 1..d : spans'[k][1] <= p /\ p < spans'[k][2]
    <3>1. CASE p < mPos
      <4>1. \/ Peek(p) = "EOL"
            \/ \E k \in 1..c : spans[k][1] <= p /\ p < spans[k][2]
        BY <1>2, <3>1, Zenon DEF ParserInv, OnlyNewlinesBetween
      <4> QED
        BY <1>5, <1>6, <4>1, Zenon
    <3>2. CASE mPos <= p
      BY <1>6, <1>7, <2>1, <3>2, Zenon
    <3> QED
      BY <1>10, <3>1, <3>2
  <2> QED
    BY <1>1, <1>4, <1>8, <2>1 DEF OnlyNewlinesBetween
<1>12. SpansInOrder'
  <2>1. /\ \A k \in 1..c : spans[k][2] <= mPos /\ spans[k][2] \in Nat
        /\ \A j, k \in 1..c : j < k => spans[j][2] <= spans[k][1]
    BY <1>2, Zenon DEF ParserInv, SpansInOrder, StatementsParse, StatementParses
  <2>2. mPos <= parsed.pos
    BY DEF StatementParses
  <2>3. ASSUME NEW k \in 1..d
        PROVE  spans'[k][2] <= parsed.pos
    <3>1. CASE k \in 1..c
      <4>1. PICK e \in Nat : e = spans[k][2] /\ e <= mPos
        BY <2>1, <3>1, Zenon
      <4>2. e <= parsed.pos
        BY <1>10, <2>2, <4>1
      <4> QED
        BY <1>5, <3>1, <4>1, <4>2, Zenon
    <3>2. CASE k = d
      BY <1>7, <1>10, <3>2
    <3> QED
      BY <1>6, <3>1, <3>2, Zenon
  <2>4. ASSUME NEW j \in 1..d, NEW k \in 1..d, j < k
        PROVE  spans'[j][2] <= spans'[k][1]
    <3>1. j \in 1..c
      BY <1>3, <2>4
    <3>2. CASE k \in 1..c
      BY <1>5, <2>1, <2>4, <3>1, <3>2, Zenon
    <3>3. CASE k = d
      BY <1>5, <1>7, <2>1, <3>1, <3>3, Zenon
    <3> QED
      BY <1>6, <3>2, <3>3, Zenon
  <2> QED
    BY <1>1, <1>4, <2>3, <2>4, Zenon DEF SpansInOrder
<1>13. status' # "done"
  BY <1>1, Zenon DEF AtStatement
<1> QED
  BY <1>1, <1>3, <1>4, <1>5, <1>8, <1>9, <1>10, <1>11, <1>12, <1>13 DEF ParserInv

(* Only a newline was passed, or nothing.                                   *)
LEMMA OtherStep ==
  ASSUME ParserInv, UNCHANGED <<tokens, lines, spans>>,
         \/ mPos' = mPos
         \/ Peek(mPos) = "EOL" /\ mPos' = mPos + 1,
         status' \in {"running", "done", "ParserException", "out_of_range"},
         status' = "done" => mPos' = mPos /\ Peek(mPos) = "EOF",
         EndsClosed => status' # "out_of_range"
  PROVE  ParserInv'
<1>1. /\ N' = N /\ (Listed' <=> Listed) /\ (EndsClosed' <=> EndsClosed)
      /\ \A p : Peek(p)' = Peek(p)
      /\ \A node, s, e : StatementParses(node, s, e)' <=> StatementParses(node, s, e)
  BY SameTokens
<1>2. StatementsParse'
  <2>1. \A k \in 1..Len(lines) : StatementParses(lines[k], spans[k][1], spans[k][2])'
    BY <1>1, Zenon DEF ParserInv, StatementsParse
  <2> QED
    BY <2>1 DEF StatementsParse
<1>3. Listed /\ mPos \in Nat /\ N \in Nat
  BY DEF ParserInv, Listed, N
<1>6. SpansInOrder'
  <2>1. \A k \in 1..Len(lines) : spans[k][2] \in Nat /\ spans[k][2] <= mPos
    BY Zenon DEF ParserInv, SpansInOrder, StatementsParse, StatementParses
  <2>2. mPos' \in Nat /\ mPos <= mPos'
    BY <1>3
  <2>3. \A k \in 1..Len(lines) : spans[k][2] <= mPos'
    BY <1>3, <2>1, <2>2
  <2> QED
    BY <2>3 DEF ParserInv, SpansInOrder
<1>7. status' = "done" => Peek(mPos)' = "EOF"
  <2>1. mPos' = mPos => Peek(mPos)' = Peek(mPos)
    BY Zenon DEF Peek
  <2> QED
    BY <2>1, Zenon
<1>4. CASE mPos' = mPos
  <2>1. OnlyNewlinesBetween'
    BY <1>1, <1>4 DEF ParserInv, OnlyNewlinesBetween
  <2> QED
    BY <1>1, <1>2, <1>4, <1>6, <1>7, <2>1 DEF ParserInv
<1>5. CASE Peek(mPos) = "EOL" /\ mPos' = mPos + 1
  <2>1. "EOL" # MadeUp
    BY Zenon DEF MadeUp
  <2>2. mPos < N
    BY <1>3, <1>5, <2>1, PeekInside, Zenon
  <2>3. OnlyNewlinesBetween'
    <3>1. ASSUME NEW p \in Nat, p < mPos + 1
          PROVE  \/ Peek(p) = "EOL"
                 \/ \E k \in 1..Len(lines) : spans[k][1] <= p /\ p < spans[k][2]
      <4>1. p < mPos \/ p = mPos
        BY <1>3, <3>1
      <4> QED
        BY <1>5, <4>1, Zenon DEF ParserInv, OnlyNewlinesBetween
    <3> QED
      BY <1>1, <1>5, <3>1 DEF OnlyNewlinesBetween
  <2>4. EndsClosed => mPos + 1 < N
    <3>1. EndsClosed => 2 <= N /\ Peek(N - 1) = "EOF"
      BY <1>3, EndIs, Zenon
    <3>2. mPos = N - 1 => Peek(mPos) = Peek(N - 1)
      BY Zenon
    <3> QED
      BY <1>3, <1>5, <2>2, <3>1, <3>2
  <2> QED
    BY <1>1, <1>2, <1>3, <1>5, <1>6, <1>7, <2>2, <2>3, <2>4 DEF ParserInv
<1> QED
  BY <1>4, <1>5
-----------------------------------------------------------------------------
(* The steps *)

(* Before the first token, whichever way the list came about.               *)
LEMMA ParserStart ==
  ASSUME Listed, mPos = 0, lines = << >>, spans = << >>, status = "running"
  PROVE  ParserInv
<1>1. N \in Nat
  BY DEF Listed, N
<1>2. Len(<< >>) = 0 /\ << >> = [k \in 1..0 |-> << >>[k]] /\ 1..0 = {}
  OBVIOUS
<1>3. StatementsParse /\ OnlyNewlinesBetween /\ SpansInOrder
  BY <1>2 DEF StatementsParse, OnlyNewlinesBetween, SpansInOrder
<1>4. EndsClosed => 0 < N
  BY <1>1, EndIs
<1> QED
  BY <1>1, <1>2, <1>3, <1>4 DEF ParserInv

LEMMA ParserInit == Init => ParserInv
<1> SUFFICES ASSUME Init
             PROVE  ParserInv
  OBVIOUS
<1>1. Listed
  BY TokensAssumption, Zenon DEF Init, Listed
<1> QED
  BY <1>1, ParserStart, Zenon DEF Init

(* A statement that begins begins before the newline at the end.            *)
LEMMA BeforeEnd ==
  ASSUME ParserInv, AtStatement, EndsClosed
  PROVE  mPos + 2 < N
<1>1. Listed /\ mPos \in Nat /\ mPos < N
  BY Zenon DEF ParserInv
<1>2. N \in Nat /\ 2 <= N /\ Peek(N - 1) = "EOF" /\ Peek(N - 2) = "EOL"
  BY <1>1, EndIs, Zenon
<1>3. mPos # N - 1 /\ mPos # N - 2
  BY <1>2, Zenon DEF AtStatement
<1> QED
  BY <1>1, <1>2, <1>3

LEMMA DirectiveStep ==
  ASSUME ParserInv, ParseDirective
  PROVE  ParserInv' /\ (mPos' \in (mPos + 1)..N \/ status' # "running")
<1>1. Listed /\ mPos \in Nat /\ N \in Nat
  BY DEF ParserInv, Listed, N
<1>2. EndsClosed => mPos + 2 < N
  BY BeforeEnd, Zenon DEF ParseDirective
<1>3. ASSUME NEW exception \in {"ParserException", "out_of_range"}, Throw(exception),
             EndsClosed => exception # "out_of_range"
      PROVE  ParserInv' /\ status' # "running"
  BY <1>3, OtherStep DEF Throw
<1> DEFINE node == [id |-> "DIRECTIVE", type |-> "SECTION", operands |-> << Peek(mPos + 1) >>]
           parsed == Parsed(node, mPos + 2)
<1>4. CASE Peek(mPos) # ".section" /\ Throw("ParserException")
  BY <1>3, <1>4
<1>5. CASE Peek(mPos + 1) = "EOL" /\ Throw("ParserException")
  BY <1>3, <1>5
<1>6. CASE mPos + 1 >= Len(tokens) /\ Throw("out_of_range")
  BY <1>1, <1>2, <1>3, <1>6 DEF N
<1>7. CASE /\ Peek(mPos) = ".section" /\ Peek(mPos + 1) # "EOL"
           /\ mPos + 1 < Len(tokens) /\ Statement(parsed)
  <2>1. parsed.node = node /\ parsed.pos = mPos + 2
    BY DEF Parsed
  <2>2. PICK tok : tok = Peek(mPos + 1)
    OBVIOUS
  <2>3. node.id = "DIRECTIVE" /\ node.type = "SECTION" /\ node.operands = << tok >>
    BY <2>2
  <2>4. PICK q \in Nat, e \in Nat : q = mPos + 1 /\ e = q + 1 /\ e = mPos + 2
    BY <1>1
  <2>5. q < N /\ e <= N /\ mPos < N /\ mPos < e
    BY <1>1, <1>7, <2>4 DEF N
  <2>6. tokens[q] = ".section" /\ tokens[e] = tok
    BY <1>1, <1>7, <2>2, <2>4, <2>5, Zenon DEF Peek, N
  <2>7. YieldOf(node) = << ".section" >> \o << tok >>
    BY <2>3 DEF YieldOf
  <2>8. SubSeq(tokens, mPos + 1, e) = << ".section" >> \o << tok >>
    <3>1. SubSeq(tokens, q, e) = Append(SubSeq(tokens, q, q), tokens[e])
      <4>1. 1 <= q /\ q <= e /\ q \in Nat
        BY <1>1, <2>4
      <4> QED
        BY <1>1, <2>4, <2>5, <4>1, SubSeqNext, Zenon DEF Listed, N
    <3>2. SubSeq(tokens, q, q) = << ".section" >>
      BY <2>6, SubSeqOne, Zenon
    <3>3. Append(<< ".section" >>, tok) = << ".section" >> \o << tok >>
      OBVIOUS
    <3> QED
      BY <2>4, <2>6, <3>1, <3>2, <3>3, Zenon
  <2>9. Len(node.operands) = 1 /\ node.operands[1] = tok
    BY <2>3
  <2>10. node.id # "INSTRUCTION" /\ node.id # "LABEL"
    BY <2>3
  <2> HIDE DEF node
  <2>11. IsStatement(node) /\ Proper(node)
    BY <2>3, <2>9, <2>10, Zenon DEF IsStatement, Proper
  <2>17. Spells(node, mPos, e)
    BY <1>7, <2>2, <2>4, <2>9, <2>10, Zenon DEF Spells
  <2>12. StatementParses(node, mPos, e)
    BY <1>1, <2>5, <2>7, <2>8, <2>10, <2>11, <2>17, Zenon DEF StatementParses
  <2>13. EndsClosed => e < N
    BY <1>2, <2>4, Zenon
  <2>14. ParserInv'
    BY <1>7, <2>1, <2>4, <2>12, <2>13, StatementStep, Zenon DEF ParseDirective
  <2>15. mPos' = e
    BY <1>7, <2>1, <2>4, Zenon DEF Statement
  <2>16. e \in (mPos + 1)..N
    BY <1>1, <2>4, <2>5
  <2> QED
    BY <2>14, <2>15, <2>16, Zenon
<1> QED
  BY <1>4, <1>5, <1>6, <1>7, Zenon DEF ParseDirective

LEMMA LabelStep ==
  ASSUME ParserInv, ParseLabel
  PROVE  ParserInv' /\ (mPos' \in (mPos + 1)..N \/ status' # "running")
<1>1. Listed /\ mPos \in Nat /\ N \in Nat
  BY DEF ParserInv, Listed, N
<1>2. EndsClosed => mPos + 2 < N
  BY BeforeEnd, Zenon DEF ParseLabel
<1>3. ASSUME NEW exception \in {"ParserException", "out_of_range"}, Throw(exception),
             EndsClosed => exception # "out_of_range"
      PROVE  ParserInv' /\ status' # "running"
  BY <1>3, OtherStep DEF Throw
<1> DEFINE node == LabelNode(Peek(mPos))
           parsed == Parsed(node, mPos + 1)
<1>4. CASE Throw("ParserException")
  BY <1>3, <1>4
<1>5. CASE mPos + 1 >= Len(tokens) /\ Throw("out_of_range")
  BY <1>1, <1>2, <1>3, <1>5 DEF N
<1>6. CASE mPos + 1 < Len(tokens) /\ Peek(mPos + 1) = ":" /\ Statement(parsed)
  <2>1. parsed.node = node /\ parsed.pos = mPos + 1
    BY DEF Parsed
  <2>2. node.id = "LABEL" /\ node.name = Peek(mPos) /\ node.id # "INSTRUCTION"
        /\ node.id # "DIRECTIVE"
    BY DEF LabelNode
  <2>3. PICK e \in Nat : e = mPos + 1
    BY <1>1
  <2>4. e < N /\ e <= N /\ mPos < N /\ mPos < e
    BY <1>1, <1>6, <2>3 DEF N
  <2>5. tokens[e] = Peek(mPos)
    BY <2>3, <2>4, Zenon DEF Peek, N
  <2>6. YieldOf(node) = << Peek(mPos) >>
    BY <2>2 DEF YieldOf
  <2>7. SubSeq(tokens, mPos + 1, e) = << Peek(mPos) >>
    BY <2>3, <2>5, SubSeqOne, Zenon
  <2>8. IsLabel(node.name)
    BY <2>2, Zenon DEF ParseLabel
  <2> HIDE DEF node
  <2>9. IsStatement(node) /\ Proper(node)
    BY <2>2, <2>8, Zenon DEF IsStatement, Proper
  <2>14. Spells(node, mPos, e)
    BY <1>6, <2>2, <2>3, Zenon DEF Spells, ParseLabel
  <2>10. StatementParses(node, mPos, e)
    BY <1>1, <2>2, <2>4, <2>6, <2>7, <2>9, <2>14, Zenon DEF StatementParses
  <2>11. ParserInv'
    BY <1>6, <2>1, <2>3, <2>4, <2>10, StatementStep, Zenon DEF ParseLabel
  <2>12. mPos' = e
    BY <1>6, <2>1, <2>3, Zenon DEF Statement
  <2>13. e \in (mPos + 1)..N
    BY <1>1, <2>3, <2>4
  <2> QED
    BY <2>11, <2>12, <2>13, Zenon
<1> QED
  BY <1>4, <1>5, <1>6, Zenon DEF ParseLabel

LEMMA InstructionStep ==
  ASSUME ParserInv, ParseInstruction
  PROVE  ParserInv' /\ (mPos' \in (mPos + 1)..N \/ status' # "running")
<1>1. Listed /\ mPos \in Nat /\ N \in Nat /\ mPos <= N
  BY DEF ParserInv, Listed, N
<1>2. CASE Throw("ParserException")
  BY <1>2, OtherStep DEF Throw
<1>3. ASSUME NEW parsed \in Instruction(mPos), Statement(parsed)
      PROVE  ParserInv' /\ mPos' \in (mPos + 1)..N
  <2>1. Peek(mPos) # MadeUp
    BY Zenon DEF ParseInstruction, MadeUp, Instructions, NoOperands, OneOperand,
                 TwoOperands, OneOrTwoOperands
  <2>2. mPos < N
    BY <1>1, <2>1, PeekInside, Zenon
  <2>3. StatementParses(parsed.node, mPos, parsed.pos) /\ Peek(parsed.pos) = "EOL"
    BY <1>1, <1>3, <2>2, InstructionParses, Zenon DEF ParseInstruction
  <2>4. parsed.pos \in Nat /\ mPos < parsed.pos /\ parsed.pos <= N
    BY <2>3, Zenon DEF StatementParses
  <2>5. parsed.pos < N
    <3>1. "EOL" # MadeUp
      BY Zenon DEF MadeUp
    <3> QED
      BY <1>1, <2>3, <2>4, <3>1, PeekInside, Zenon
  <2>6. ParserInv'
    BY <1>3, <2>3, <2>5, StatementStep, Zenon DEF ParseInstruction
  <2>7. mPos' = parsed.pos
    BY <1>3, Zenon DEF Statement
  <2> QED
    BY <1>1, <2>4, <2>6, <2>7
<1> QED
  BY <1>2, <1>3, Zenon DEF ParseInstruction

LEMMA ParserStep ==
  ASSUME ParserInv, Next
  PROVE  ParserInv' /\ (mPos' \in (mPos + 1)..N \/ status' # "running")
<1>1. CASE SkipNewline
  <2>1. Listed /\ mPos \in Nat /\ N \in Nat
    BY DEF ParserInv, Listed, N
  <2>2. /\ Peek(mPos) = "EOL" /\ mPos' = mPos + 1 /\ status' = status
        /\ UNCHANGED <<tokens, lines, spans>>
    BY <1>1, Zenon DEF SkipNewline
  <2>3. "EOL" # MadeUp
    BY Zenon DEF MadeUp
  <2>4. mPos < N
    BY <2>1, <2>2, <2>3, PeekInside, Zenon
  <2>5. status' \in {"running", "done", "ParserException", "out_of_range"}
        /\ (EndsClosed => status' # "out_of_range") /\ status' # "done"
    BY <1>1, <2>2, Zenon DEF ParserInv, SkipNewline
  <2>6. ParserInv'
    BY <2>2, <2>5, OtherStep, Zenon
  <2> QED
    BY <2>1, <2>2, <2>4, <2>6
<1>2. CASE ParseDirective
  BY <1>2, DirectiveStep, Zenon
<1>3. CASE ParseLabel
  BY <1>3, LabelStep, Zenon
<1>4. CASE ParseInstruction
  BY <1>4, InstructionStep, Zenon
<1>5. CASE InvalidToken
  BY <1>5, OtherStep DEF InvalidToken, Throw
<1>6. CASE Return
  BY <1>6, OtherStep DEF Return
<1> QED
  BY <1>1, <1>2, <1>3, <1>4, <1>5, <1>6, Zenon DEF Next

LEMMA ParserNextInv == ParserInv /\ [Next]_vars => ParserInv'
<1>1. ASSUME ParserInv, UNCHANGED vars
      PROVE  ParserInv'
  BY <1>1, OtherStep DEF vars, ParserInv
<1> QED
  BY <1>1, ParserStep

(* The inductive invariant: between the statements so far and the position  *)
(* there is nothing but newlines, and each is a tree of the tokens from     *)
(* its first to its last.                                                   *)
THEOREM ParserInvariant == Spec => []ParserInv
BY ParserInit, ParserNextInv, PTL DEF Spec

LEMMA ParserTypeInv ==
  ASSUME ParserInv
  PROVE  ParserTypeOK
<1>1. Len(spans) = Len(lines) /\ DOMAIN lines = 1..Len(lines)
  BY DEF ParserInv
<1> QED
  BY <1>1, Zenon DEF ParserInv, ParserTypeOK, StatementsParse, StatementParses

(* Every node of the tree is one the assembler can take, with as many       *)
(* operands as its instruction has.                                         *)
THEOREM ParserTypeCorrect == Spec => []ParserTypeOK
<1>1. ParserInv => ParserTypeOK
  BY ParserTypeInv
<1> QED
  BY <1>1, ParserInvariant, PTL

LEMMA ParserStaysInsideInv ==
  ASSUME ParserInv
  PROVE  StaysInside
BY Zenon DEF ParserInv, StaysInside, EndsClosed, N

(* On a list that ends in a newline and EOF, parse never reads behind it.    *)
THEOREM ParserStaysInside == Spec => []StaysInside
<1>1. ParserInv => StaysInside
  BY ParserStaysInsideInv
<1> QED
  BY <1>1, ParserInvariant, PTL

LEMMA ParserKeepsTokensInv ==
  ASSUME ParserInv
  PROVE  TreeKeepsTokens
<1>1. DOMAIN lines = 1..Len(lines) /\ DOMAIN spans = 1..Len(lines)
  BY DEF ParserInv
<1>2. ASSUME NEW k \in 1..Len(lines)
      PROVE  /\ spans[k][1] \in Nat /\ spans[k][2] \in Nat
             /\ YieldOf(lines[k]) = IF lines[k].id = "INSTRUCTION"
                                      THEN WithoutCommas(Written(k)) ELSE Written(k)
  BY Zenon DEF ParserInv, StatementsParse, StatementParses, Kept, Written
<1>3. ASSUME NEW p \in 0..(mPos - 1)
      PROVE  \/ Peek(p) = "EOL"
             \/ \E k \in DOMAIN spans : p \in spans[k][1]..(spans[k][2] - 1)
  <2>1. p \in Nat /\ p < mPos
    BY DEF ParserInv
  <2>2. \/ Peek(p) = "EOL"
        \/ \E k \in 1..Len(lines) : spans[k][1] <= p /\ p < spans[k][2]
    BY <2>1, Zenon DEF ParserInv, OnlyNewlinesBetween
  <2> QED
    BY <1>1, <1>2, <2>1, <2>2
<1> QED
  BY <1>1, <1>2, <1>3, Zenon DEF TreeKeepsTokens

(* The tree has every token of the source, in its order, and no other.      *)
THEOREM ParserKeepsTokens == Spec => []TreeKeepsTokens
<1>1. ParserInv => TreeKeepsTokens
  BY ParserKeepsTokensInv
<1> QED
  BY <1>1, ParserInvariant, PTL

LEMMA ParserPrecedenceInv ==
  ASSUME ParserInv
  PROVE  Precedence
<1>1. DOMAIN lines = 1..Len(lines)
  BY DEF ParserInv
<1> QED
  BY <1>1, Zenon DEF ParserInv, StatementsParse, StatementParses, Proper,
                           Precedence, N

(* Every expression is a tree of the grammar at parser.hpp:451-453.         *)
THEOREM ParserPrecedence == Spec => []Precedence
<1>1. ParserInv => Precedence
  BY ParserPrecedenceInv
<1> QED
  BY <1>1, ParserInvariant, PTL

(* No step of parse leaves it where it was: it takes a token more, and      *)
(* never more than there are, or is the last.  That is what ParseEnds needs  *)
(* of the code besides its being run.                                       *)
THEOREM ParserAdvances ==
  Spec => [][mPos' \in (mPos + 1)..Len(tokens) \/ status' # "running"]_vars
<1>1. ASSUME ParserInv, [Next]_vars
      PROVE  [mPos' \in (mPos + 1)..Len(tokens) \/ status' # "running"]_vars
  BY <1>1, ParserStep, Zenon DEF N
<1> QED
  BY <1>1, ParserInvariant, PTL DEF Spec

-----------------------------------------------------------------------------
(* Folds of a tree by its depth *)

(* Two functions that give the parts of a tree the same.                    *)
SameUnder(node, x, y) ==
    /\ node.id \in {"LABEL", "NUMBER", "UNARY_OP", "BINARY_OP"}
    /\ node.id = "UNARY_OP" => x[node.operand] = y[node.operand]
    /\ node.id = "BINARY_OP" => x[node.left] = y[node.left] /\ x[node.right] = y[node.right]

LEMMA FromSame ==
  ASSUME NEW what \in Folds, NEW node, NEW x, NEW y, SameUnder(node, x, y)
  PROVE  From(what, node, x) = From(what, node, y)
<1>1. EvaluatedFrom(node, x) = EvaluatedFrom(node, y)
  BY DEF EvaluatedFrom, SameUnder
<1>2. SubexpressionsFrom(node, x) = SubexpressionsFrom(node, y)
  BY DEF SubexpressionsFrom, SameUnder
<1>3. LabelsFrom(node, x) = LabelsFrom(node, y)
  BY DEF LabelsFrom, SameUnder
<1>4. \A at : ValueFrom(node, at, x) = ValueFrom(node, at, y)
  BY DEF ValueFrom, SameUnder
<1>5. [at \in Addresses |-> ValueFrom(node, at, x)] = [at \in Addresses |-> ValueFrom(node, at, y)]
  BY <1>4, Zenon
<1> QED
  BY <1>1, <1>2, <1>3, <1>5, Zenon DEF From, Folds

(* The shapes of a tree, and that its parts are less deep.                  *)
LEMMA ShapesOf ==
  ASSUME Listed, NEW d \in 0..N, NEW node \in Trees[d]
  PROVE  /\ node.id \in {"LABEL", "NUMBER", "UNARY_OP", "BINARY_OP"}
         /\ node.id \in {"LABEL", "NUMBER"} => node \in Leaves
         /\ node.id = "UNARY_OP" =>
              /\ d # 0 /\ node.operand \in Trees[d - 1]
              /\ node = NegNode(node.operand)
         /\ node.id = "BINARY_OP" =>
              /\ d # 0 /\ node.left \in Trees[d - 1] /\ node.right \in Trees[d - 1]
              /\ node.op \in NumericOps
              /\ node = OpNode(node.op, node.left, node.right)
<1>1. CASE node \in Leaves
  BY <1>1 DEF Leaves
<1>2. CASE d # 0 /\ node \in [id : {"UNARY_OP"}, operand : Trees[d - 1]]
  BY <1>2 DEF NegNode
<1>3. CASE /\ d # 0
           /\ node \in [id : {"BINARY_OP"}, op : {"*", "/", "+", "-"},
                        left : Trees[d - 1], right : Trees[d - 1]]
  BY <1>3 DEF OpNode, NumericOps, MultiplicationOps, AdditionOps
<1> QED
  BY <1>1, <1>2, <1>3, TreeShapes, Zenon

LEMMA FoldExists ==
  ASSUME Listed, NEW what \in Folds
  PROVE  \E f : f = [d \in 0..N |-> FoldAt(what, d, f[d - 1])]
<1>1. \A x, e : ByDepth(what, e, x) = FoldAt(what, e, x)
  BY Zenon DEF ByDepth, Folds
<1>2. \A x, y : FoldAt(what, 0, x) = FoldAt(what, 0, y)
  <2>1. ASSUME NEW node \in Trees[0]
        PROVE  node.id \in {"LABEL", "NUMBER", "UNARY_OP", "BINARY_OP"} \ {"UNARY_OP", "BINARY_OP"}
    <3>1. 0 \in 0..N
      BY DEF Listed, N
    <3> QED
      BY <3>1, ShapesOf, Zenon
  <2>2. ASSUME NEW x, NEW y, NEW node \in Trees[0]
        PROVE  From(what, node, x) = From(what, node, y)
    BY <2>1, FromSame, Zenon DEF SameUnder
  <2> QED
    BY <2>2, Zenon DEF FoldAt
<1>3. \A x, y : ByDepth(what, 0, x) = ByDepth(what, 0, y)
  BY <1>1, <1>2, Zenon
<1>4. N \in Nat
  BY DEF Listed, N
<1>5. PICK f : f = [e \in 0..N |-> ByDepth(what, e, f[e - 1])]
  BY <1>3, <1>4, ByDepthExists, Zenon
<1>6. f = [e \in 0..N |-> FoldAt(what, e, f[e - 1])]
  BY <1>1, <1>5, Zenon
<1> QED
  BY <1>6, Zenon

FoldOf(g, what) == \A d \in 0..N : g[d] = FoldAt(what, d, g[d - 1])

LEMMA FoldOne ==
  ASSUME NEW what \in Folds, NEW g, FoldOf(g, what), NEW d \in 0..N, NEW node \in Trees[d]
  PROVE  g[d][node] = From(what, node, g[d - 1])
BY Zenon DEF FoldOf, FoldAt

LEMMA FoldGrows ==
  ASSUME Listed, NEW what \in Folds, NEW g, FoldOf(g, what),
         NEW d \in 0..N, NEW e \in 0..N, d <= e, NEW node \in Trees[d]
  PROVE  g[e][node] = g[d][node]
<1> DEFINE Same(c) == \A b \in 0..N : c <= b => \A t \in Trees[c] : g[b][t] = g[c][t]
           S == {c \in Nat : c <= N /\ ~Same(c)}
<1>1. N \in Nat
  BY DEF Listed, N
<1>2. ASSUME NEW c \in Nat, c <= N, c # 0 => Same(c - 1), NEW b \in 0..N, c <= b,
             NEW t \in Trees[c]
      PROVE  g[b][t] = g[c][t]
  <2>1. c \in 0..N
    BY <1>1, <1>2
  <2>2. t \in Trees[b]
    BY <2>1, <1>2, TreesWithin, Zenon DEF TreesKept
  <2>3. g[b][t] = From(what, t, g[b - 1]) /\ g[c][t] = From(what, t, g[c - 1])
    BY <2>1, <2>2, FoldOne, Zenon
  <2>4. c # 0 => c - 1 <= b - 1 /\ b - 1 \in 0..N
    BY <1>1, <1>2
  <2>5. ASSUME c # 0, NEW a \in Trees[c - 1]
        PROVE  g[b - 1][a] = g[c - 1][a]
    BY <1>2, <2>4, <2>5, Zenon
  <2>6. /\ t.id \in {"LABEL", "NUMBER", "UNARY_OP", "BINARY_OP"}
        /\ t.id = "UNARY_OP" => c # 0 /\ t.operand \in Trees[c - 1]
        /\ t.id = "BINARY_OP" =>
             c # 0 /\ t.left \in Trees[c - 1] /\ t.right \in Trees[c - 1]
    BY <2>1, ShapesOf, Zenon
  <2>7. From(what, t, g[b - 1]) = From(what, t, g[c - 1])
    <3>1. SameUnder(t, g[b - 1], g[c - 1])
      BY <2>5, <2>6, Zenon DEF SameUnder
    <3> QED
      BY <3>1, FromSame, Zenon
  <2> QED
    BY <2>3, <2>7, Zenon
<1>3. S = {}
  <2>1. ASSUME S # {}
        PROVE  FALSE
    <3>1. S \subseteq Nat
      BY Zenon
    <3>2. PICK c \in S : \A j \in S : c <= j
      <4> HIDE DEF S
      <4> QED
        BY <2>1, <3>1, LeastNat, Zenon
    <3>3. c \in Nat /\ c <= N /\ ~Same(c)
      BY <3>2, Zenon
    <3>4. c # 0 => c - 1 \in Nat /\ c - 1 <= N /\ ~(c <= c - 1)
      BY <1>1, <3>3
    <3>5. c # 0 => Same(c - 1)
      BY <3>2, <3>4, Zenon
    <3>6. Same(c)
      BY <1>2, <3>3, <3>5, Zenon
    <3> QED
      BY <3>3, <3>6, Zenon
  <2> QED
    BY <2>1, Zenon
<1>4. d \in Nat /\ d <= N
  BY <1>1
<1>5. Same(d)
  BY <1>3, <1>4, Zenon
<1> QED
  BY <1>5, Zenon

(* Of a tree of any depth, a fold by depth makes what it makes of its parts. *)
LEMMA FoldUnfolds ==
  ASSUME Listed, NEW what \in Folds, NEW g, FoldOf(g, what), NEW node \in Trees[N]
  PROVE  g[N][node] = From(what, node, g[N])
<1>1. N \in Nat /\ N \in 0..N
  BY DEF Listed, N
<1>2. g[N][node] = From(what, node, g[N - 1])
  BY <1>1, FoldOne, Zenon
<1>3. N # 0 => N - 1 \in 0..N /\ N - 1 <= N
  BY <1>1
<1>4. ASSUME N # 0, NEW a \in Trees[N - 1]
      PROVE  g[N][a] = g[N - 1][a]
  BY <1>1, <1>3, <1>4, FoldGrows, ZenonT(40)
<1>5. /\ node.id \in {"LABEL", "NUMBER", "UNARY_OP", "BINARY_OP"}
      /\ node.id = "UNARY_OP" => N # 0 /\ node.operand \in Trees[N - 1]
      /\ node.id = "BINARY_OP" =>
           N # 0 /\ node.left \in Trees[N - 1] /\ node.right \in Trees[N - 1]
  BY <1>1, ShapesOf, Zenon
<1>6. SameUnder(node, g[N - 1], g[N])
  BY <1>4, <1>5, Zenon DEF SameUnder
<1>7. From(what, node, g[N - 1]) = From(what, node, g[N])
  BY <1>6, FromSame, Zenon
<1> QED
  BY <1>2, <1>7, Zenon

(* Whatever the leaves have, and a tree has if its parts do, all trees have. *)
LEMMA AllTrees ==
  ASSUME Listed, NEW S,
         \A d \in 0..N : \A node \in Trees[d] :
           /\ node.id = "UNARY_OP" => node.operand \in S[d - 1]
           /\ node.id = "BINARY_OP" => node.left \in S[d - 1] /\ node.right \in S[d - 1]
           => node \in S[d],
         NEW d \in 0..N
  PROVE  Trees[d] \subseteq S[d]
<1> DEFINE Has(c) == Trees[c] \subseteq S[c]
           L == {c \in Nat : c <= N /\ ~Has(c)}
<1>1. N \in Nat
  BY DEF Listed, N
<1>2. ASSUME NEW c \in Nat, c <= N, c # 0 => Has(c - 1), NEW node \in Trees[c]
      PROVE  node \in S[c]
  <2>1. c \in 0..N
    BY <1>1, <1>2
  <2>2. /\ node.id = "UNARY_OP" => c # 0 /\ node.operand \in Trees[c - 1]
        /\ node.id = "BINARY_OP" =>
             c # 0 /\ node.left \in Trees[c - 1] /\ node.right \in Trees[c - 1]
    BY <2>1, ShapesOf, Zenon
  <2>3. /\ node.id = "UNARY_OP" => node.operand \in S[c - 1]
        /\ node.id = "BINARY_OP" => node.left \in S[c - 1] /\ node.right \in S[c - 1]
    BY <1>2, <2>2, Zenon
  <2> QED
    BY <2>1, <2>3, Zenon
<1>3. L = {}
  <2>1. ASSUME L # {}
        PROVE  FALSE
    <3>1. L \subseteq Nat
      BY Zenon
    <3>2. PICK c \in L : \A j \in L : c <= j
      <4> HIDE DEF L
      <4> QED
        BY <2>1, <3>1, LeastNat, Zenon
    <3>3. c \in Nat /\ c <= N /\ ~Has(c)
      BY <3>2, Zenon
    <3>4. c # 0 => c - 1 \in Nat /\ c - 1 <= N /\ ~(c <= c - 1)
      BY <1>1, <3>3
    <3>5. c # 0 => Has(c - 1)
      BY <3>2, <3>4, Zenon
    <3>6. Has(c)
      BY <1>2, <3>3, <3>5, Zenon
    <3> QED
      BY <3>3, <3>6, Zenon
  <2> QED
    BY <2>1, Zenon
<1>4. d \in Nat /\ d <= N
  BY <1>1
<1>5. Has(d)
  BY <1>3, <1>4, Zenon
<1> QED
  BY <1>5, Zenon

EvaluatedAt(d, sub) == [node \in Trees[d] |-> EvaluatedFrom(node, sub)]
LabelsAt(d, sub) == [node \in Trees[d] |-> LabelsFrom(node, sub)]
SubexpressionsAt(d, sub) == [node \in Trees[d] |-> SubexpressionsFrom(node, sub)]
ValuesAt(d, sub) ==
    [node \in Trees[d] |-> [at \in Addresses |-> ValueFrom(node, at, sub)]]

LEMMA EvaluatedFold ==
  ASSUME Listed
  PROVE  FoldOf(EvaluatedTrees, "evaluated")
<1> DEFINE Is(f) == f = [e \in 0..N |-> EvaluatedAt(e, f[e - 1])]
<1>1. ASSUME NEW x, NEW e
      PROVE  FoldAt("evaluated", e, x) = EvaluatedAt(e, x)
  <2>1. \A node \in Trees[e] : From("evaluated", node, x) = EvaluatedFrom(node, x)
    BY Zenon DEF From
  <2> QED
    BY <2>1, Zenon DEF FoldAt, EvaluatedAt
<1>2. PICK f : f = [e \in 0..N |-> FoldAt("evaluated", e, f[e - 1])]
  BY FoldExists, Zenon DEF Folds
<1>3. Is(f)
  BY <1>1, <1>2, Zenon
<1>4. EvaluatedTrees = CHOOSE g : Is(g)
  BY Zenon DEF EvaluatedTrees, EvaluatedAt, N
<1>5. Is(EvaluatedTrees)
  BY <1>3, <1>4, Zenon
<1> QED
  BY <1>1, <1>5, Zenon DEF FoldOf

LEMMA LabelsFold ==
  ASSUME Listed
  PROVE  FoldOf(LabelTrees, "labels")
<1> DEFINE Is(f) == f = [e \in 0..N |-> LabelsAt(e, f[e - 1])]
<1>1. ASSUME NEW x, NEW e
      PROVE  FoldAt("labels", e, x) = LabelsAt(e, x)
  <2>1. \A node \in Trees[e] : From("labels", node, x) = LabelsFrom(node, x)
    BY Zenon DEF From
  <2> QED
    BY <2>1, Zenon DEF FoldAt, LabelsAt
<1>2. PICK f : f = [e \in 0..N |-> FoldAt("labels", e, f[e - 1])]
  BY FoldExists, Zenon DEF Folds
<1>3. Is(f)
  BY <1>1, <1>2, Zenon
<1>4. LabelTrees = CHOOSE g : Is(g)
  BY Zenon DEF LabelTrees, LabelsAt, N
<1>5. Is(LabelTrees)
  BY <1>3, <1>4, Zenon
<1> QED
  BY <1>1, <1>5, Zenon DEF FoldOf

LEMMA SubexpressionsFold ==
  ASSUME Listed
  PROVE  FoldOf(SubexpressionTrees, "subexpressions")
<1> DEFINE Is(f) == f = [e \in 0..N |-> SubexpressionsAt(e, f[e - 1])]
<1>1. ASSUME NEW x, NEW e
      PROVE  FoldAt("subexpressions", e, x) = SubexpressionsAt(e, x)
  <2>1. \A node \in Trees[e] : From("subexpressions", node, x) = SubexpressionsFrom(node, x)
    BY Zenon DEF From
  <2> QED
    BY <2>1, Zenon DEF FoldAt, SubexpressionsAt
<1>2. PICK f : f = [e \in 0..N |-> FoldAt("subexpressions", e, f[e - 1])]
  BY FoldExists, Zenon DEF Folds
<1>3. Is(f)
  BY <1>1, <1>2, Zenon
<1>4. SubexpressionTrees = CHOOSE g : Is(g)
  BY Zenon DEF SubexpressionTrees, SubexpressionsAt, N
<1>5. Is(SubexpressionTrees)
  BY <1>3, <1>4, Zenon
<1> QED
  BY <1>1, <1>5, Zenon DEF FoldOf

LEMMA ValuesFold ==
  ASSUME Listed
  PROVE  FoldOf(Values, "values")
<1> DEFINE Is(f) == f = [e \in 0..N |-> ValuesAt(e, f[e - 1])]
<1>1. ASSUME NEW x, NEW e
      PROVE  FoldAt("values", e, x) = ValuesAt(e, x)
  <2>1. \A node \in Trees[e] : From("values", node, x) = [at \in Addresses |-> ValueFrom(node, at, x)]
    BY Zenon DEF From
  <2> QED
    BY <2>1, Zenon DEF FoldAt, ValuesAt
<1>2. PICK f : f = [e \in 0..N |-> FoldAt("values", e, f[e - 1])]
  BY FoldExists, Zenon DEF Folds
<1>3. Is(f)
  BY <1>1, <1>2, Zenon
<1>4. Values = CHOOSE g : Is(g)
  BY Zenon DEF Values, ValuesAt, N
<1>5. Is(Values)
  BY <1>3, <1>4, Zenon
<1> QED
  BY <1>1, <1>5, Zenon DEF FoldOf

LEMMA PartsOf ==
  ASSUME Listed, NEW node \in Trees[N]
  PROVE  /\ node.id = "UNARY_OP" => node.operand \in Trees[N]
         /\ node.id = "BINARY_OP" => node.left \in Trees[N] /\ node.right \in Trees[N]
<1>1. N \in 0..N /\ (N # 0 => N - 1 \in 0..N /\ N - 1 <= N)
  BY DEF Listed, N
<1>2. N # 0 => \A a \in Trees[N - 1] : a \in Trees[N]
  BY <1>1, TreesWithin, Zenon DEF TreesKept
<1> QED
  BY <1>1, <1>2, ShapesOf, Zenon

LEMMA NotRegister ==
  ASSUME Listed, NEW node \in Trees[N]
  PROVE  /\ ~IsRegister(node)
         /\ Evaluated(node) = EvaluatedTrees[N][node]
         /\ Subexpressions(node) = SubexpressionTrees[N][node]
         /\ LabelsOf(node) = LabelTrees[N][node]
         /\ \A at : Value(node, at) = Values[N][node][at]
<1>1. node.id \in {"LABEL", "NUMBER", "UNARY_OP", "BINARY_OP"}
  <2>1. N \in 0..N
    BY DEF Listed, N
  <2> QED
    BY <2>1, ShapesOf, Zenon
<1>2. ~IsRegister(node)
  BY <1>1 DEF IsRegister
<1> QED
  BY <1>2, Zenon DEF Evaluated, Subexpressions, LabelsOf, Value, N

LEMMA EvaluatedIs ==
  ASSUME Listed, NEW node \in Trees[N]
  PROVE  /\ node.id \in {"LABEL", "NUMBER"} => Evaluated(node) = node
         /\ node.id = "UNARY_OP" => Evaluated(node) = EvaluatedNeg(Evaluated(node.operand))
         /\ node.id = "BINARY_OP" =>
              Evaluated(node)
              = EvaluatedOp(node.op, Evaluated(node.left), Evaluated(node.right))
<1>1. EvaluatedTrees[N][node] = From("evaluated", node, EvaluatedTrees[N])
  BY EvaluatedFold, FoldUnfolds, Zenon DEF Folds
<1>2. EvaluatedTrees[N][node] = EvaluatedFrom(node, EvaluatedTrees[N])
  BY <1>1, Zenon DEF From
<1>3. \A t \in Trees[N] : Evaluated(t) = EvaluatedTrees[N][t]
  BY NotRegister, Zenon
<1>4. /\ node.id \in {"LABEL", "NUMBER"} => EvaluatedTrees[N][node] = node
      /\ node.id = "UNARY_OP" =>
           EvaluatedTrees[N][node] = EvaluatedNeg(EvaluatedTrees[N][node.operand])
      /\ node.id = "BINARY_OP" =>
           EvaluatedTrees[N][node] = EvaluatedOp(node.op, EvaluatedTrees[N][node.left],
                                                 EvaluatedTrees[N][node.right])
  BY <1>2 DEF EvaluatedFrom
<1> QED
  BY <1>3, <1>4, PartsOf, Zenon

LEMMA LabelsAre ==
  ASSUME Listed, NEW node \in Trees[N]
  PROVE  /\ node.id = "LABEL" => LabelsOf(node) = << node.name >>
         /\ node.id = "NUMBER" => LabelsOf(node) = << >>
         /\ node.id = "UNARY_OP" => LabelsOf(node) = LabelsOf(node.operand)
         /\ node.id = "BINARY_OP" =>
              LabelsOf(node) = LabelsOf(node.left) \o LabelsOf(node.right)
<1>1. LabelTrees[N][node] = From("labels", node, LabelTrees[N])
  BY LabelsFold, FoldUnfolds, Zenon DEF Folds
<1>2. LabelTrees[N][node] = LabelsFrom(node, LabelTrees[N])
  BY <1>1, Zenon DEF From
<1>3. \A t \in Trees[N] : LabelsOf(t) = LabelTrees[N][t]
  BY NotRegister, Zenon
<1>4. /\ node.id = "LABEL" => LabelTrees[N][node] = << node.name >>
      /\ node.id = "NUMBER" => LabelTrees[N][node] = << >>
      /\ node.id = "UNARY_OP" => LabelTrees[N][node] = LabelTrees[N][node.operand]
      /\ node.id = "BINARY_OP" =>
           LabelTrees[N][node] = LabelTrees[N][node.left] \o LabelTrees[N][node.right]
  BY <1>2 DEF LabelsFrom
<1> QED
  BY <1>3, <1>4, PartsOf, Zenon

LEMMA SubexpressionsAre ==
  ASSUME Listed, NEW node \in Trees[N]
  PROVE  /\ node.id \in {"LABEL", "NUMBER"} => Subexpressions(node) = {node}
         /\ node.id = "UNARY_OP" =>
              Subexpressions(node) = {node} \cup Subexpressions(node.operand)
         /\ node.id = "BINARY_OP" =>
              Subexpressions(node)
              = {node} \cup (Subexpressions(node.left) \cup Subexpressions(node.right))
<1>1. SubexpressionTrees[N][node] = From("subexpressions", node, SubexpressionTrees[N])
  BY SubexpressionsFold, FoldUnfolds, Zenon DEF Folds
<1>2. SubexpressionTrees[N][node] = SubexpressionsFrom(node, SubexpressionTrees[N])
  BY <1>1, Zenon DEF From
<1>3. \A t \in Trees[N] : Subexpressions(t) = SubexpressionTrees[N][t]
  BY NotRegister, Zenon
<1>4. /\ node.id \in {"LABEL", "NUMBER"} => SubexpressionTrees[N][node] = {node}
      /\ node.id = "UNARY_OP" =>
           SubexpressionTrees[N][node] = {node} \cup SubexpressionTrees[N][node.operand]
      /\ node.id = "BINARY_OP" =>
           SubexpressionTrees[N][node]
           = {node} \cup (SubexpressionTrees[N][node.left]
                          \cup SubexpressionTrees[N][node.right])
  BY <1>2 DEF SubexpressionsFrom
<1> QED
  BY <1>3, <1>4, PartsOf, Zenon

Operated(op, l, r) ==
    CASE op = "+" -> l + r
      [] op = "-" -> l - r
      [] op = "*" -> l * r
      [] op = "/" -> IF r <= 0 THEN 0 ELSE l \div r

LEMMA ValueIs ==
  ASSUME Listed, NEW node \in Trees[N], NEW at \in Addresses
  PROVE  /\ node.id = "NUMBER" => Value(node, at) = node.value
         /\ node.id = "LABEL" => Value(node, at) = at
         /\ node.id = "UNARY_OP" => Value(node, at) = - Value(node.operand, at)
         /\ node.id = "BINARY_OP" =>
              Value(node, at) = Operated(node.op, Value(node.left, at), Value(node.right, at))
<1>1. Values[N][node] = From("values", node, Values[N])
  BY ValuesFold, FoldUnfolds, Zenon DEF Folds
<1>2. Values[N][node][at] = ValueFrom(node, at, Values[N])
  BY <1>1, Zenon DEF From
<1>3. \A t \in Trees[N] : Value(t, at) = Values[N][t][at]
  BY NotRegister, Zenon
<1>4. /\ node.id = "NUMBER" => Values[N][node][at] = node.value
      /\ node.id = "LABEL" => Values[N][node][at] = at
      /\ node.id = "UNARY_OP" => Values[N][node][at] = - Values[N][node.operand][at]
  BY <1>2 DEF ValueFrom
<1>5. node.id = "BINARY_OP" =>
        Values[N][node][at]
        = Operated(node.op, Values[N][node.left][at], Values[N][node.right][at])
  BY <1>2, Zenon DEF ValueFrom, Operated
<1> QED
  BY <1>3, <1>4, <1>5, PartsOf, Zenon

-----------------------------------------------------------------------------
(* What is evaluated is a tree or the trap *)

LEMMA MoreTrees ==
  ASSUME Listed, NEW d \in 0..N
  PROVE  /\ Leaves \subseteq Trees[d] /\ Trees[d] \subseteq Trees[N]
         /\ d # 0 => \A a, b \in Trees[d - 1] : \A op \in NumericOps :
                       a \in Trees[N] /\ NegNode(a) \in Trees[d] /\ OpNode(op, a, b) \in Trees[d]
<1>1. Trees[d] = TreesAt(d, Trees[d - 1])
  BY TreesAre, Zenon
<1>2. N \in 0..N /\ d <= N /\ (d # 0 => d - 1 \in 0..N /\ d - 1 <= N)
  BY DEF Listed, N
<1>3. Trees[d] \subseteq Trees[N]
  BY <1>2, TreesWithin, Zenon DEF TreesKept
<1>4. d # 0 => Trees[d - 1] \subseteq Trees[N]
  BY <1>2, TreesWithin, Zenon DEF TreesKept
<1>5. ASSUME d # 0, NEW a \in Trees[d - 1], NEW b \in Trees[d - 1], NEW op \in NumericOps
      PROVE  NegNode(a) \in Trees[d] /\ OpNode(op, a, b) \in Trees[d]
  <2>1. /\ NegNode(a) \in [id : {"UNARY_OP"}, operand : Trees[d - 1]]
        /\ OpNode(op, a, b) \in [id : {"BINARY_OP"}, op : {"*", "/", "+", "-"},
                                 left : Trees[d - 1], right : Trees[d - 1]]
    BY <1>5 DEF NegNode, OpNode, NumericOps, MultiplicationOps, AdditionOps
  <2> QED
    BY <1>1, <1>5, <2>1, Zenon DEF TreesAt
<1> QED
  BY <1>1, <1>3, <1>4, <1>5, Zenon DEF TreesAt

LEMMA TrapIs == Failed(Trap) /\ ~IsNumber(Trap)
BY DEF Trap, Failed, IsNumber

LEMMA TreesSucceed ==
  ASSUME Listed, NEW d \in 0..N, NEW node \in Trees[d]
  PROVE  ~Failed(node) /\ node # Trap
<1>1. node.id \in {"LABEL", "NUMBER", "UNARY_OP", "BINARY_OP"}
  BY ShapesOf, Zenon
<1>2. ~Failed(node)
  BY <1>1 DEF Failed
<1> QED
  BY <1>2, TrapIs, Zenon

LEMMA NumbersAre ==
  ASSUME Listed, NEW d \in 0..N, NEW node \in Trees[d], IsNumber(node)
  PROVE  node.value \in 0..255 /\ node = [id |-> "NUMBER", value |-> node.value]
<1>1. node \in Leaves /\ node.id = "NUMBER"
  BY ShapesOf, Zenon DEF IsNumber
<1> QED
  BY <1>1 DEF Leaves

LEMMA NumberLeaves ==
  \A v \in 0..255 : [id |-> "NUMBER", value |-> v] \in Leaves
                    /\ IsNumber([id |-> "NUMBER", value |-> v])
BY DEF Leaves, IsNumber

FoldedTrue(op, l, r) ==
    IF op = "/" /\ r = 0
      THEN Folded(op, l, r) = Trap
      ELSE \E v \in 0..255 : /\ Folded(op, l, r) = [id |-> "NUMBER", value |-> v]
                             /\ v = Operated(op, l, r) % 256

LEMMA FoldedIs ==
  ASSUME NEW l \in 0..255, NEW r \in 0..255, NEW op \in NumericOps
  PROVE  FoldedTrue(op, l, r)
<1> USE DEF FoldedTrue
<1>1. CASE op = "/" /\ r = 0
  BY <1>1 DEF Folded
<1>2. CASE op = "/" /\ r # 0
  <2>1. PICK v \in Int : v = l \div r
    BY <1>2
  <2>2. v \in 0..255 /\ v % 256 = v
    BY <1>2, <2>1
  <2>3. Folded(op, l, r) = [id |-> "NUMBER", value |-> v]
    BY <1>2, <2>1 DEF Folded
  <2>4. Operated(op, l, r) = v
    BY <1>2, <2>1 DEF Operated
  <2> QED
    BY <1>2, <2>2, <2>3, <2>4, Zenon
<1>3. CASE op # "/"
  <2> DEFINE w == Operated(op, l, r)
  <2>1. w \in Int /\ Folded(op, l, r) = [id |-> "NUMBER", value |-> w % 256]
    <3>1. op \in {"+", "-", "*"}
      BY <1>3 DEF NumericOps, MultiplicationOps, AdditionOps
    <3>2. CASE op = "+"
      <4>1. PICK p \in Int : p = l + r
        OBVIOUS
      <4>2. Operated(op, l, r) = p /\ Folded(op, l, r) = [id |-> "NUMBER", value |-> p % 256]
        BY <3>2, <4>1, Zenon DEF Folded, Operated
      <4> QED
        BY <4>1, <4>2, Zenon
    <3>3. CASE op = "-"
      <4>1. PICK p \in Int : p = l - r
        OBVIOUS
      <4>2. Operated(op, l, r) = p /\ Folded(op, l, r) = [id |-> "NUMBER", value |-> p % 256]
        BY <3>3, <4>1, Zenon DEF Folded, Operated
      <4> QED
        BY <4>1, <4>2, Zenon
    <3>4. CASE op = "*"
      <4>1. PICK p \in Int : p = l * r
        OBVIOUS
      <4>2. p \in Int
        BY <4>1
      <4>3. Operated(op, l, r) = p /\ Folded(op, l, r) = [id |-> "NUMBER", value |-> p % 256]
        BY <3>4, <4>1, Zenon DEF Folded, Operated
      <4> QED
        BY <4>2, <4>3, Zenon
    <3> QED
      BY <3>1, <3>2, <3>3, <3>4, Zenon
  <2> HIDE DEF w
  <2>3. w % 256 \in 0..255
    BY <2>1
  <2> QED
    BY <1>3, <2>1, <2>3, Zenon DEF w
<1> QED
  BY <1>1, <1>2, <1>3

LEMMA EvaluatedOpIs ==
  ASSUME Listed, NEW d \in 0..N, NEW x \in Trees[d] \cup {Trap}, NEW y \in Trees[d] \cup {Trap},
         NEW op \in NumericOps
  PROVE  /\ x = Trap \/ y = Trap => EvaluatedOp(op, x, y) = Trap
         /\ x # Trap /\ y # Trap /\ IsNumber(x) /\ IsNumber(y) =>
              /\ x.value \in 0..255 /\ y.value \in 0..255
              /\ EvaluatedOp(op, x, y) = Folded(op, x.value, y.value)
         /\ x # Trap /\ y # Trap /\ ~(IsNumber(x) /\ IsNumber(y)) =>
              EvaluatedOp(op, x, y) = OpNode(op, x, y)
<1>1. Failed(x) <=> x = Trap
  BY TrapIs, TreesSucceed, Zenon
<1>2. Failed(y) <=> y = Trap
  BY TrapIs, TreesSucceed, Zenon
<1>3. x # Trap /\ IsNumber(x) => x.value \in 0..255
  BY NumbersAre, Zenon
<1>4. y # Trap /\ IsNumber(y) => y.value \in 0..255
  BY NumbersAre, Zenon
<1>5. ~(Failed(x) /\ IsNumber(x)) /\ ~(Failed(y) /\ IsNumber(y))
  BY DEF Failed, IsNumber
<1>6. CASE Failed(x)
  <2>1. ~(~Failed(x) /\ Failed(y)) /\ ~(IsNumber(x) /\ IsNumber(y))
    BY <1>5, <1>6, Zenon
  <2>2. EvaluatedOp(op, x, y) = x
    BY <1>6, <2>1, Zenon DEF EvaluatedOp
  <2> QED
    BY <1>1, <1>2, <1>6, <2>2, Zenon
<1>7. CASE ~Failed(x) /\ Failed(y)
  <2>1. ~Failed(x) /\ ~(IsNumber(x) /\ IsNumber(y))
    BY <1>5, <1>7, Zenon
  <2>2. EvaluatedOp(op, x, y) = y
    BY <1>7, <2>1, Zenon DEF EvaluatedOp
  <2> QED
    BY <1>1, <1>2, <1>7, <2>2, Zenon
<1>8. CASE ~Failed(x) /\ ~Failed(y) /\ IsNumber(x) /\ IsNumber(y)
  <2>1. EvaluatedOp(op, x, y) = Folded(op, x.value, y.value)
    BY <1>8, Zenon DEF EvaluatedOp
  <2> QED
    BY <1>1, <1>2, <1>3, <1>4, <1>8, <2>1, Zenon
<1>9. CASE ~Failed(x) /\ ~Failed(y) /\ ~(IsNumber(x) /\ IsNumber(y))
  <2>1. EvaluatedOp(op, x, y) = OpNode(op, x, y)
    BY <1>9, Zenon DEF EvaluatedOp
  <2> QED
    BY <1>1, <1>2, <1>9, <2>1, Zenon
<1> QED
  BY <1>6, <1>7, <1>8, <1>9, Zenon

LEMMA EvaluatedNegIs ==
  ASSUME Listed, NEW d \in 0..N, NEW x \in Trees[d] \cup {Trap}
  PROVE  /\ x = Trap => EvaluatedNeg(x) = Trap
         /\ x # Trap /\ IsNumber(x) =>
              /\ x.value \in 0..255
              /\ EvaluatedNeg(x) = [id |-> "NUMBER", value |-> (- x.value) % 256]
         /\ x # Trap /\ ~IsNumber(x) => EvaluatedNeg(x) = NegNode(x)
<1>1. Failed(x) <=> x = Trap
  BY TrapIs, TreesSucceed, Zenon
<1>2. x # Trap /\ IsNumber(x) => x.value \in 0..255
  BY NumbersAre, Zenon
<1>3. ~(Failed(x) /\ IsNumber(x))
  BY DEF Failed, IsNumber
<1>4. CASE Failed(x)
  <2>1. ~IsNumber(x)
    BY <1>3, <1>4, Zenon
  <2>2. EvaluatedNeg(x) = x
    BY <1>4, <2>1, Zenon DEF EvaluatedNeg
  <2> QED
    BY <1>1, <1>4, <2>2, Zenon
<1>5. CASE ~Failed(x) /\ IsNumber(x)
  <2>1. EvaluatedNeg(x) = [id |-> "NUMBER", value |-> (- x.value) % 256]
    BY <1>5, Zenon DEF EvaluatedNeg
  <2> QED
    BY <1>1, <1>2, <1>5, <2>1, Zenon
<1>6. CASE ~Failed(x) /\ ~IsNumber(x)
  <2>1. EvaluatedNeg(x) = NegNode(x)
    BY <1>6, Zenon DEF EvaluatedNeg
  <2> QED
    BY <1>1, <1>6, <2>1, Zenon
<1> QED
  BY <1>4, <1>5, <1>6, Zenon

LEMMA EvaluatedType ==
  ASSUME Listed, NEW d \in 0..N, NEW node \in Trees[d]
  PROVE  Evaluated(node) \in Trees[d] \cup {Trap}
<1> DEFINE S == [c \in 0..N |-> {t \in Trees[c] : Evaluated(t) \in Trees[c] \cup {Trap}}]
<1>1. ASSUME NEW c \in 0..N, NEW t \in Trees[c],
             t.id = "UNARY_OP" => t.operand \in S[c - 1],
             t.id = "BINARY_OP" => t.left \in S[c - 1] /\ t.right \in S[c - 1]
      PROVE  Evaluated(t) \in Trees[c] \cup {Trap}
  <2>1. /\ t \in Trees[N] /\ Leaves \subseteq Trees[c]
        /\ c # 0 => c - 1 \in 0..N
        /\ c # 0 => \A a, b \in Trees[c - 1] : \A op \in NumericOps :
                      NegNode(a) \in Trees[c] /\ OpNode(op, a, b) \in Trees[c]
    <3>1. c # 0 => c - 1 \in 0..N
      BY DEF Listed, N
    <3> QED
      BY <3>1, MoreTrees, Zenon
  <2>2. CASE t.id \in {"LABEL", "NUMBER"}
    BY <2>1, <2>2, EvaluatedIs, Zenon
  <2>3. CASE t.id = "UNARY_OP"
    <3>1. c # 0 /\ Evaluated(t.operand) \in Trees[c - 1] \cup {Trap}
      BY <1>1, <2>1, <2>3, ShapesOf, Zenon
    <3>2. PICK x : x = Evaluated(t.operand)
      OBVIOUS
    <3>3. Evaluated(t) = EvaluatedNeg(x)
      BY <2>1, <2>3, <3>2, EvaluatedIs, Zenon
    <3>4. /\ x = Trap => EvaluatedNeg(x) = Trap
          /\ x # Trap /\ IsNumber(x) =>
               /\ x.value \in 0..255
               /\ EvaluatedNeg(x) = [id |-> "NUMBER", value |-> (- x.value) % 256]
          /\ x # Trap /\ ~IsNumber(x) => EvaluatedNeg(x) = NegNode(x)
      BY <2>1, <3>1, <3>2, EvaluatedNegIs, ZenonT(30)
    <3>5. x.value \in 0..255 => (- x.value) % 256 \in 0..255
      OBVIOUS
    <3>6. CASE x # Trap /\ IsNumber(x)
      BY <2>1, <3>3, <3>4, <3>5, <3>6, NumberLeaves, ZenonT(40)
    <3>7. CASE x # Trap /\ ~IsNumber(x)
      BY <2>1, <3>1, <3>2, <3>3, <3>4, <3>7, Zenon DEF NumericOps, AdditionOps
    <3> QED
      BY <3>3, <3>4, <3>6, <3>7, Zenon
  <2>4. CASE t.id = "BINARY_OP"
    <3>1. /\ c # 0 /\ t.op \in NumericOps
          /\ Evaluated(t.left) \in Trees[c - 1] \cup {Trap}
          /\ Evaluated(t.right) \in Trees[c - 1] \cup {Trap}
      BY <1>1, <2>1, <2>4, ShapesOf, Zenon
    <3>2. PICK x, y : x = Evaluated(t.left) /\ y = Evaluated(t.right)
      OBVIOUS
    <3>3. Evaluated(t) = EvaluatedOp(t.op, x, y)
      BY <2>1, <2>4, <3>2, EvaluatedIs, Zenon
    <3>4. /\ x = Trap \/ y = Trap => EvaluatedOp(t.op, x, y) = Trap
          /\ x # Trap /\ y # Trap /\ IsNumber(x) /\ IsNumber(y) =>
               /\ x.value \in 0..255 /\ y.value \in 0..255
               /\ EvaluatedOp(t.op, x, y) = Folded(t.op, x.value, y.value)
          /\ x # Trap /\ y # Trap /\ ~(IsNumber(x) /\ IsNumber(y)) =>
               EvaluatedOp(t.op, x, y) = OpNode(t.op, x, y)
      BY <2>1, <3>1, <3>2, EvaluatedOpIs, ZenonT(30)
    <3>5. CASE x # Trap /\ y # Trap /\ IsNumber(x) /\ IsNumber(y)
      <4>1. PICK l \in 0..255, r \in 0..255 : l = x.value /\ r = y.value
        BY <3>4, <3>5, Zenon
      <4>2. \/ Folded(t.op, l, r) = Trap
            \/ \E v \in 0..255 : Folded(t.op, l, r) = [id |-> "NUMBER", value |-> v]
        <5>1. t.op \in NumericOps
          BY <3>1, Zenon
        <5>2. FoldedTrue(t.op, l, r)
          BY <5>1, FoldedIs, Zenon
        <5> QED
          BY <5>2, Zenon DEF FoldedTrue
      <4> QED
        BY <2>1, <3>3, <3>4, <3>5, <4>1, <4>2, NumberLeaves, Zenon
    <3>6. CASE x # Trap /\ y # Trap /\ ~(IsNumber(x) /\ IsNumber(y))
      BY <2>1, <3>1, <3>2, <3>3, <3>4, <3>6, ZenonT(30)
    <3> QED
      BY <3>3, <3>4, <3>5, <3>6, Zenon
  <2> QED
    BY <2>2, <2>3, <2>4, ShapesOf, Zenon
<1>2. \A c \in 0..N : \A t \in Trees[c] :
        /\ t.id = "UNARY_OP" => t.operand \in S[c - 1]
        /\ t.id = "BINARY_OP" => t.left \in S[c - 1] /\ t.right \in S[c - 1]
        => t \in S[c]
  BY <1>1, Zenon
<1>3. Trees[d] \subseteq S[d]
  <2> HIDE DEF S
  <2> QED
    BY <1>2, AllTrees, Zenon
<1> QED
  BY <1>3, Zenon

Inductive(S) ==
    \A node \in Trees[N] :
      /\ node.id = "UNARY_OP" => node.operand \in S
      /\ node.id = "BINARY_OP" => node.left \in S /\ node.right \in S
      => node \in S

(* The same for all trees together.                                         *)
LEMMA EveryTree ==
  ASSUME Listed, NEW S, Inductive(S)
  PROVE  Trees[N] \subseteq S
<1> DEFINE R == [c \in 0..N |-> S]
<1>1. ASSUME NEW c \in 0..N, NEW t \in Trees[c],
             t.id = "UNARY_OP" => t.operand \in R[c - 1],
             t.id = "BINARY_OP" => t.left \in R[c - 1] /\ t.right \in R[c - 1]
      PROVE  t \in R[c]
  <2>1. c # 0 => R[c - 1] = S
    <3>1. c # 0 => c - 1 \in 0..N
      BY DEF Listed, N
    <3> QED
      BY <3>1, Zenon
  <2>2. t \in Trees[N]
    BY MoreTrees, Zenon
  <2>3. t.id \in {"UNARY_OP", "BINARY_OP"} => c # 0
    BY ShapesOf, Zenon
  <2> QED
    BY <1>1, <2>1, <2>2, <2>3, Zenon DEF Inductive
<1>2. N \in 0..N /\ R[N] = S
  BY DEF Listed, N
<1>3. Trees[N] \subseteq R[N]
  <2> HIDE DEF R
  <2>1. \A c \in 0..N : \A t \in Trees[c] :
          /\ t.id = "UNARY_OP" => t.operand \in R[c - 1]
          /\ t.id = "BINARY_OP" => t.left \in R[c - 1] /\ t.right \in R[c - 1]
          => t \in R[c]
    BY <1>1, Zenon
  <2> QED
    BY <1>2, <2>1, AllTrees, Zenon
<1> QED
  BY <1>2, <1>3, Zenon

(* The ways a tree of an operator or a sign can be evaluated, by what its    *)
(* parts are evaluated to.                                                  *)
OperatorCases(node, x, y) ==
    \/ (x = Trap \/ y = Trap) /\ Evaluated(node) = Trap
    \/ /\ x \in Trees[N] /\ y \in Trees[N] /\ IsNumber(x) /\ IsNumber(y)
       /\ x.value \in 0..255 /\ y.value \in 0..255
       /\ IF node.op = "/" /\ y.value = 0
            THEN Evaluated(node) = Trap
            ELSE \E v \in 0..255 : /\ Evaluated(node) = [id |-> "NUMBER", value |-> v]
                                   /\ v = Operated(node.op, x.value, y.value) % 256
    \/ /\ x \in Trees[N] /\ y \in Trees[N] /\ ~(IsNumber(x) /\ IsNumber(y))
       /\ Evaluated(node) = OpNode(node.op, x, y) /\ OpNode(node.op, x, y) \in Trees[N]

SignCases(node, x) ==
    \/ x = Trap /\ Evaluated(node) = Trap
    \/ /\ x \in Trees[N] /\ IsNumber(x) /\ x.value \in 0..255
       /\ Evaluated(node) = [id |-> "NUMBER", value |-> (- x.value) % 256]
    \/ /\ x \in Trees[N] /\ ~IsNumber(x)
       /\ Evaluated(node) = NegNode(x) /\ NegNode(x) \in Trees[N]

LEMMA EvaluatedParts ==
  ASSUME Listed, NEW node \in Trees[N]
  PROVE  /\ node.id \in {"LABEL", "NUMBER", "UNARY_OP", "BINARY_OP"}
         /\ node.id \in {"LABEL", "NUMBER"} => Evaluated(node) = node
         /\ node.id = "UNARY_OP" =>
              node.operand \in Trees[N] /\ SignCases(node, Evaluated(node.operand))
         /\ node.id = "BINARY_OP" =>
              /\ node.left \in Trees[N] /\ node.right \in Trees[N] /\ node.op \in NumericOps
              /\ OperatorCases(node, Evaluated(node.left), Evaluated(node.right))
<1>1. N \in 0..N
  BY DEF Listed, N
<1>2. \A t \in Trees[N] : Evaluated(t) \in Trees[N] \cup {Trap}
  BY <1>1, EvaluatedType, Zenon
<1>3. Evaluated(node) # Trap => Evaluated(node) \in Trees[N]
  BY <1>2, Zenon
<1>4. \A op, a, b : NegNode(a) # Trap /\ OpNode(op, a, b) # Trap
  BY DEF NegNode, OpNode, Trap
<1>5. ASSUME node.id = "UNARY_OP"
      PROVE  node.operand \in Trees[N] /\ SignCases(node, Evaluated(node.operand))
  <2>1. PICK x \in Trees[N] \cup {Trap} : x = Evaluated(node.operand)
    BY <1>2, <1>5, PartsOf, Zenon
  <2>2. Evaluated(node) = EvaluatedNeg(x)
    BY <1>5, <2>1, EvaluatedIs, Zenon
  <2>3. /\ x = Trap => EvaluatedNeg(x) = Trap
        /\ x # Trap /\ IsNumber(x) =>
             /\ x.value \in 0..255
             /\ EvaluatedNeg(x) = [id |-> "NUMBER", value |-> (- x.value) % 256]
        /\ x # Trap /\ ~IsNumber(x) => EvaluatedNeg(x) = NegNode(x)
    BY <1>1, EvaluatedNegIs, Zenon
  <2>4. SignCases(node, x)
    BY <1>3, <1>4, <2>2, <2>3, Zenon DEF SignCases
  <2> QED
    BY <1>5, <2>1, <2>4, PartsOf, Zenon
<1>6. ASSUME node.id = "BINARY_OP"
      PROVE  /\ node.left \in Trees[N] /\ node.right \in Trees[N] /\ node.op \in NumericOps
             /\ OperatorCases(node, Evaluated(node.left), Evaluated(node.right))
  <2>1. node.left \in Trees[N] /\ node.right \in Trees[N] /\ node.op \in NumericOps
    BY <1>1, <1>6, PartsOf, ShapesOf, Zenon
  <2>2. PICK x \in Trees[N] \cup {Trap}, y \in Trees[N] \cup {Trap} :
               x = Evaluated(node.left) /\ y = Evaluated(node.right)
    BY <1>2, <2>1, Zenon
  <2>3. Evaluated(node) = EvaluatedOp(node.op, x, y)
    BY <1>6, <2>2, EvaluatedIs, Zenon
  <2>4. PICK op \in NumericOps : op = node.op
    BY <2>1, Zenon
  <2>5. /\ x = Trap \/ y = Trap => EvaluatedOp(op, x, y) = Trap
        /\ x # Trap /\ y # Trap /\ IsNumber(x) /\ IsNumber(y) =>
             /\ x.value \in 0..255 /\ y.value \in 0..255
             /\ EvaluatedOp(op, x, y) = Folded(op, x.value, y.value)
        /\ x # Trap /\ y # Trap /\ ~(IsNumber(x) /\ IsNumber(y)) =>
             EvaluatedOp(op, x, y) = OpNode(op, x, y)
    BY <1>1, EvaluatedOpIs, Zenon
  <2>6. x # Trap /\ y # Trap /\ IsNumber(x) /\ IsNumber(y)
          => FoldedTrue(op, x.value, y.value)
    <3>1. ASSUME NEW l \in 0..255, NEW r \in 0..255
          PROVE  FoldedTrue(op, l, r)
      BY FoldedIs, Zenon
    <3> QED
      BY <2>5, <3>1, Zenon
  <2>7. OperatorCases(node, x, y)
    <3>1. CASE x = Trap \/ y = Trap
      BY <2>3, <2>4, <2>5, <3>1, Zenon DEF OperatorCases
    <3>2. CASE x # Trap /\ y # Trap /\ IsNumber(x) /\ IsNumber(y)
      BY <2>3, <2>4, <2>5, <2>6, <3>2, Zenon DEF OperatorCases, FoldedTrue
    <3>3. CASE x # Trap /\ y # Trap /\ ~(IsNumber(x) /\ IsNumber(y))
      BY <1>3, <1>4, <2>3, <2>4, <2>5, <3>3, Zenon DEF OperatorCases
    <3> QED
      BY <3>1, <3>2, <3>3, Zenon
  <2> QED
    BY <2>1, <2>2, <2>7, Zenon
<1> QED
  BY <1>1, <1>5, <1>6, EvaluatedIs, ShapesOf, Zenon

-----------------------------------------------------------------------------
(* The labels of an expression *)

LEMMA LabelsType ==
  ASSUME Listed, NEW node \in Trees[N]
  PROVE  LabelsOf(node) \in Seq(Words)
<1> DEFINE S == {t \in Trees[N] : LabelsOf(t) \in Seq(Words)}
<1>1. ASSUME NEW t \in Trees[N],
             t.id = "UNARY_OP" => t.operand \in S,
             t.id = "BINARY_OP" => t.left \in S /\ t.right \in S
      PROVE  LabelsOf(t) \in Seq(Words)
  <2>1. CASE t.id \in {"LABEL", "NUMBER"}
    <3>1. t \in Leaves
      <4>1. N \in 0..N
        BY DEF Listed, N
      <4> QED
        BY <2>1, <4>1, ShapesOf, Zenon
    <3>2. t.id = "LABEL" => t.name \in Words
      BY <3>1 DEF Leaves
    <3>3. t.id = "LABEL" => << t.name >> \in Seq(Words)
      BY <3>2
    <3>4. << >> \in Seq(Words)
      OBVIOUS
    <3> QED
      BY <2>1, <3>3, <3>4, LabelsAre, Zenon
  <2>2. CASE t.id = "UNARY_OP"
    BY <1>1, <2>2, LabelsAre, Zenon
  <2>3. CASE t.id = "BINARY_OP"
    <3>1. LabelsOf(t) = LabelsOf(t.left) \o LabelsOf(t.right)
      BY <2>3, LabelsAre, Zenon
    <3>2. LabelsOf(t.left) \in Seq(Words) /\ LabelsOf(t.right) \in Seq(Words)
      BY <1>1, <2>3, Zenon
    <3> HIDE DEF S
    <3> QED
      BY <3>1, <3>2
  <2> QED
    BY <2>1, <2>2, <2>3, EvaluatedParts, Zenon
<1>2. Inductive(S)
  BY <1>1, Zenon DEF Inductive
<1>3. Trees[N] \subseteq S
  <2> HIDE DEF S
  <2> QED
    BY <1>2, EveryTree, Zenon
<1> QED
  BY <1>3, Zenon

LEMMA NoneJoined ==
  ASSUME NEW S, NEW s \in Seq(S), NEW t \in Seq(S)
  PROVE  s \o t = << >> <=> s = << >> /\ t = << >>
<1>1. Len(s \o t) = Len(s) + Len(t) /\ s \o t \in Seq(S)
  OBVIOUS
<1>2. \A u \in Seq(S) : u = << >> <=> Len(u) = 0
  OBVIOUS
<1>3. Len(s) \in Nat /\ Len(t) \in Nat
  OBVIOUS
<1>4. Len(s \o t) = 0 <=> Len(s) = 0 /\ Len(t) = 0
  BY <1>1, <1>3
<1> QED
  BY <1>1, <1>2, <1>4, Zenon

Number(v) == [id |-> "NUMBER", value |-> v]

LEMMA NumberIs ==
  ASSUME Listed, NEW v \in 0..255
  PROVE  Number(v) \in Trees[N] /\ IsNumber(Number(v)) /\ LabelsOf(Number(v)) = << >>
<1>1. Number(v) \in Leaves /\ Number(v).id = "NUMBER" /\ IsNumber(Number(v))
  BY DEF Number, Leaves, IsNumber
<1>2. Leaves \subseteq Trees[N]
  <2>1. N \in 0..N
    BY DEF Listed, N
  <2> QED
    BY <2>1, MoreTrees, Zenon
<1> QED
  BY <1>1, <1>2, LabelsAre, Zenon

LEMMA NegNodeIs ==
  ASSUME Listed, NEW x, NegNode(x) \in Trees[N]
  PROVE  /\ LabelsOf(NegNode(x)) = LabelsOf(x)
         /\ \A f \in Subexpressions(NegNode(x)) : f = NegNode(x) \/ f \in Subexpressions(x)
         /\ \A at \in Addresses : Value(NegNode(x), at) = - Value(x, at)
<1>1. PICK node \in Trees[N] : node = NegNode(x)
  BY Zenon
<1>2. node.id = "UNARY_OP" /\ node.operand = x
  BY <1>1 DEF NegNode
<1>3. LabelsOf(node) = LabelsOf(x) /\ Subexpressions(node) = {node} \cup Subexpressions(x)
  BY <1>2, LabelsAre, SubexpressionsAre, Zenon
<1>4. \A at \in Addresses : Value(node, at) = - Value(x, at)
  BY <1>2, ValueIs, Zenon
<1> QED
  BY <1>1, <1>3, <1>4, Zenon

LEMMA OpNodeIs ==
  ASSUME Listed, NEW op, NEW x, NEW y, OpNode(op, x, y) \in Trees[N]
  PROVE  /\ LabelsOf(OpNode(op, x, y)) = LabelsOf(x) \o LabelsOf(y)
         /\ \A f \in Subexpressions(OpNode(op, x, y)) :
              f = OpNode(op, x, y) \/ f \in Subexpressions(x) \/ f \in Subexpressions(y)
<1>1. PICK node \in Trees[N] : node = OpNode(op, x, y)
  BY Zenon
<1>2. node.id = "BINARY_OP" /\ node.op = op /\ node.left = x /\ node.right = y
  BY <1>1 DEF OpNode
<1>3. /\ LabelsOf(node) = LabelsOf(x) \o LabelsOf(y)
      /\ Subexpressions(node) = {node} \cup (Subexpressions(x) \cup Subexpressions(y))
  BY <1>2, LabelsAre, SubexpressionsAre, Zenon
<1> QED
  BY <1>1, <1>3, Zenon

(* What became of the labels: all are left, in their order, and where there  *)
(* are none the whole is a number.                                          *)
KeepsLabels(node) ==
    Evaluated(node) # Trap =>
      /\ LabelsOf(Evaluated(node)) = LabelsOf(node)
      /\ LabelsOf(node) = << >> => IsNumber(Evaluated(node))

LEMMA NumberLabels ==
  ASSUME Listed, NEW node \in Trees[N], IsNumber(node)
  PROVE  LabelsOf(node) = << >>
BY LabelsAre, Zenon DEF IsNumber

LEMMA LabelsKept ==
  ASSUME Listed, NEW node \in Trees[N]
  PROVE  KeepsLabels(node)
<1> DEFINE S == {t \in Trees[N] : KeepsLabels(t)}
<1>1. ASSUME NEW t \in Trees[N],
             t.id = "UNARY_OP" => t.operand \in S,
             t.id = "BINARY_OP" => t.left \in S /\ t.right \in S
      PROVE  KeepsLabels(t)
  <2>1. CASE t.id \in {"LABEL", "NUMBER"}
    <3>1. Evaluated(t) = t
      BY <2>1, EvaluatedParts, Zenon
    <3>2. LabelsOf(t) = << >> => IsNumber(t)
      <4>1. t.id = "LABEL" => LabelsOf(t) # << >>
        <5>1. << t.name >> # << >>
          OBVIOUS
        <5> QED
          BY <5>1, LabelsAre, Zenon
      <4> QED
        BY <2>1, <4>1, Zenon DEF IsNumber
    <3> QED
      BY <3>1, <3>2, Zenon DEF KeepsLabels
  <2>2. CASE t.id = "UNARY_OP"
    <3>1. PICK x : x = Evaluated(t.operand)
      OBVIOUS
    <3>2. SignCases(t, x) /\ KeepsLabels(t.operand) /\ LabelsOf(t) = LabelsOf(t.operand)
      BY <1>1, <2>2, <3>1, EvaluatedParts, LabelsAre, Zenon
    <3>3. ASSUME Evaluated(t) # Trap
          PROVE  /\ LabelsOf(Evaluated(t)) = LabelsOf(t)
                 /\ LabelsOf(t) = << >> => IsNumber(Evaluated(t))
      <4>1. x # Trap
        <5>1. x = Trap => x \notin Trees[N]
          <6>1. N \in 0..N
            BY DEF Listed, N
          <6> QED
            BY <6>1, TreesSucceed, Zenon
        <5> QED
          BY <3>2, <3>3, <5>1, Zenon DEF SignCases
      <4>2. LabelsOf(x) = LabelsOf(t) /\ (LabelsOf(t) = << >> => IsNumber(x))
        BY <3>1, <3>2, <4>1, Zenon DEF KeepsLabels
      <4>3. CASE /\ x \in Trees[N] /\ IsNumber(x) /\ x.value \in 0..255
                 /\ Evaluated(t) = [id |-> "NUMBER", value |-> (- x.value) % 256]
        <5>1. (- x.value) % 256 \in 0..255
          BY <4>3
        <5>2. PICK v \in 0..255 : Evaluated(t) = Number(v)
          BY <4>3, <5>1, Zenon DEF Number
        <5>3. LabelsOf(x) = << >>
          BY <4>3, NumberLabels, Zenon
        <5> QED
          BY <4>2, <5>2, <5>3, NumberIs, Zenon
      <4>4. CASE /\ x \in Trees[N] /\ ~IsNumber(x)
                 /\ Evaluated(t) = NegNode(x) /\ NegNode(x) \in Trees[N]
        <5>1. LabelsOf(NegNode(x)) = LabelsOf(x)
          BY <4>4, NegNodeIs, Zenon
        <5> QED
          BY <4>2, <4>4, <5>1, Zenon
      <4> QED
        BY <3>2, <4>1, <4>3, <4>4, Zenon DEF SignCases
    <3> QED
      BY <3>3, Zenon DEF KeepsLabels
  <2>3. CASE t.id = "BINARY_OP"
    <3>1. PICK x, y : x = Evaluated(t.left) /\ y = Evaluated(t.right)
      OBVIOUS
    <3>2. /\ OperatorCases(t, x, y) /\ KeepsLabels(t.left) /\ KeepsLabels(t.right)
          /\ t.left \in Trees[N] /\ t.right \in Trees[N]
          /\ LabelsOf(t) = LabelsOf(t.left) \o LabelsOf(t.right)
      BY <1>1, <2>3, <3>1, EvaluatedParts, LabelsAre, Zenon
    <3>3. ASSUME Evaluated(t) # Trap
          PROVE  /\ LabelsOf(Evaluated(t)) = LabelsOf(t)
                 /\ LabelsOf(t) = << >> => IsNumber(Evaluated(t))
      <4>1. x # Trap /\ y # Trap
        <5>1. Trap \notin Trees[N]
          <6>1. N \in 0..N
            BY DEF Listed, N
          <6> QED
            BY <6>1, TreesSucceed, Zenon
        <5> QED
          BY <3>2, <3>3, <5>1, Zenon DEF OperatorCases
      <4>2. /\ LabelsOf(x) = LabelsOf(t.left) /\ LabelsOf(y) = LabelsOf(t.right)
            /\ LabelsOf(t.left) = << >> => IsNumber(x)
            /\ LabelsOf(t.right) = << >> => IsNumber(y)
        BY <3>1, <3>2, <4>1, Zenon DEF KeepsLabels
      <4>3. LabelsOf(t.left) \in Seq(Words) /\ LabelsOf(t.right) \in Seq(Words)
        BY <3>2, LabelsType, Zenon
      <4>4. LabelsOf(t) = << >> <=> LabelsOf(t.left) = << >> /\ LabelsOf(t.right) = << >>
        BY <3>2, <4>3, NoneJoined, Zenon
      <4>5. CASE x \in Trees[N] /\ y \in Trees[N] /\ IsNumber(x) /\ IsNumber(y)
        <5>1. PICK v \in 0..255 : Evaluated(t) = Number(v)
          <6>1. ~(~(IsNumber(x) /\ IsNumber(y)))
            BY <4>5, Zenon
          <6> QED
            BY <3>2, <3>3, <4>1, <6>1, Zenon DEF OperatorCases, Number
        <5>2. LabelsOf(x) = << >> /\ LabelsOf(y) = << >>
          BY <4>5, NumberLabels, Zenon
        <5>3. LabelsOf(t) = << >>
          BY <4>2, <4>4, <5>2, Zenon
        <5> QED
          BY <5>1, <5>3, NumberIs, Zenon
      <4>6. CASE /\ x \in Trees[N] /\ y \in Trees[N] /\ ~(IsNumber(x) /\ IsNumber(y))
                 /\ Evaluated(t) = OpNode(t.op, x, y) /\ OpNode(t.op, x, y) \in Trees[N]
        <5>1. LabelsOf(OpNode(t.op, x, y)) = LabelsOf(x) \o LabelsOf(y)
          BY <4>6, OpNodeIs, Zenon
        <5> QED
          BY <3>2, <4>2, <4>4, <4>6, <5>1, Zenon
      <4> QED
        BY <3>2, <4>1, <4>5, <4>6, Zenon DEF OperatorCases
    <3> QED
      BY <3>3, Zenon DEF KeepsLabels
  <2> QED
    BY <2>1, <2>2, <2>3, EvaluatedParts, Zenon
<1>2. Inductive(S)
  BY <1>1, Zenon DEF Inductive
<1>3. Trees[N] \subseteq S
  <2> HIDE DEF S
  <2> QED
    BY <1>2, EveryTree, Zenon
<1> QED
  BY <1>3, Zenon

(* Nothing of an evaluated tree could still be folded.                      *)
Unfoldable(f) ==
    /\ f.id = "UNARY_OP" => ~IsNumber(f.operand)
    /\ f.id = "BINARY_OP" => ~(IsNumber(f.left) /\ IsNumber(f.right))
FullyFolded(node) ==
    Evaluated(node) # Trap => \A f \in Subexpressions(Evaluated(node)) : Unfoldable(f)

LEMMA LeafUnfoldable ==
  ASSUME Listed, NEW node \in Trees[N], node.id \in {"LABEL", "NUMBER"}
  PROVE  \A f \in Subexpressions(node) : Unfoldable(f)
<1>1. node.id # "UNARY_OP" /\ node.id # "BINARY_OP"
  OBVIOUS
<1>2. Subexpressions(node) = {node}
  BY SubexpressionsAre, Zenon
<1> QED
  BY <1>1, <1>2, Zenon DEF Unfoldable

LEMMA FoldedFully ==
  ASSUME Listed, NEW node \in Trees[N]
  PROVE  FullyFolded(node)
<1> DEFINE S == {t \in Trees[N] : FullyFolded(t)}
<1>0. Trap \notin Trees[N]
  <2>1. N \in 0..N
    BY DEF Listed, N
  <2> QED
    BY <2>1, TreesSucceed, Zenon
<1>1. ASSUME NEW t \in Trees[N],
             t.id = "UNARY_OP" => t.operand \in S,
             t.id = "BINARY_OP" => t.left \in S /\ t.right \in S,
             Evaluated(t) # Trap
      PROVE  \A f \in Subexpressions(Evaluated(t)) : Unfoldable(f)
  <2>1. CASE t.id \in {"LABEL", "NUMBER"}
    BY <2>1, EvaluatedParts, LeafUnfoldable, Zenon
  <2>2. ASSUME NEW v \in 0..255, Evaluated(t) = Number(v)
        PROVE  \A f \in Subexpressions(Evaluated(t)) : Unfoldable(f)
    <3>1. Number(v) \in Trees[N] /\ Number(v).id = "NUMBER"
      BY NumberIs, Zenon DEF IsNumber
    <3> QED
      BY <2>2, <3>1, LeafUnfoldable, Zenon
  <2>3. CASE t.id = "UNARY_OP"
    <3>1. PICK x : x = Evaluated(t.operand)
      OBVIOUS
    <3>2. SignCases(t, x) /\ FullyFolded(t.operand)
      BY <1>1, <2>3, <3>1, EvaluatedParts, Zenon
    <3>3. CASE /\ x \in Trees[N] /\ IsNumber(x) /\ x.value \in 0..255
               /\ Evaluated(t) = [id |-> "NUMBER", value |-> (- x.value) % 256]
      <4>1. (- x.value) % 256 \in 0..255
        BY <3>3
      <4> QED
        BY <2>2, <3>3, <4>1, Zenon DEF Number
    <3>4. CASE /\ x \in Trees[N] /\ ~IsNumber(x)
               /\ Evaluated(t) = NegNode(x) /\ NegNode(x) \in Trees[N]
      <4>1. \A f \in Subexpressions(NegNode(x)) : f = NegNode(x) \/ f \in Subexpressions(x)
        BY <3>4, NegNodeIs, Zenon
      <4>2. \A f \in Subexpressions(x) : Unfoldable(f)
        BY <1>0, <3>1, <3>2, <3>4, Zenon DEF FullyFolded
      <4>3. NegNode(x).id # "BINARY_OP" /\ NegNode(x).operand = x
        BY DEF NegNode
      <4>4. Unfoldable(NegNode(x))
        BY <3>4, <4>3, Zenon DEF Unfoldable
      <4> QED
        BY <3>4, <4>1, <4>2, <4>4, Zenon
    <3> QED
      BY <1>1, <3>2, <3>3, <3>4, Zenon DEF SignCases
  <2>4. CASE t.id = "BINARY_OP"
    <3>1. PICK x, y : x = Evaluated(t.left) /\ y = Evaluated(t.right)
      OBVIOUS
    <3>2. OperatorCases(t, x, y) /\ FullyFolded(t.left) /\ FullyFolded(t.right)
      BY <1>1, <2>4, <3>1, EvaluatedParts, Zenon
    <3>3. CASE \E v \in 0..255 : Evaluated(t) = Number(v)
      BY <2>2, <3>3, Zenon
    <3>4. CASE /\ x \in Trees[N] /\ y \in Trees[N] /\ ~(IsNumber(x) /\ IsNumber(y))
               /\ Evaluated(t) = OpNode(t.op, x, y) /\ OpNode(t.op, x, y) \in Trees[N]
      <4>1. \A f \in Subexpressions(OpNode(t.op, x, y)) :
              f = OpNode(t.op, x, y) \/ f \in Subexpressions(x) \/ f \in Subexpressions(y)
        BY <3>4, OpNodeIs, Zenon
      <4>2. /\ \A f \in Subexpressions(x) : Unfoldable(f)
            /\ \A f \in Subexpressions(y) : Unfoldable(f)
        BY <1>0, <3>1, <3>2, <3>4, Zenon DEF FullyFolded
      <4>3. /\ OpNode(t.op, x, y).id # "UNARY_OP" /\ OpNode(t.op, x, y).left = x
            /\ OpNode(t.op, x, y).right = y
        BY DEF OpNode
      <4>4. Unfoldable(OpNode(t.op, x, y))
        BY <3>4, <4>3, Zenon DEF Unfoldable
      <4> QED
        BY <3>4, <4>1, <4>2, <4>4, Zenon
    <3> QED
      BY <1>1, <3>2, <3>3, <3>4, Zenon DEF OperatorCases, Number
  <2> QED
    BY <2>1, <2>3, <2>4, EvaluatedParts, Zenon
<1>2. Inductive(S)
  BY <1>1, Zenon DEF Inductive, FullyFolded
<1>3. Trees[N] \subseteq S
  <2> HIDE DEF S
  <2> QED
    BY <1>2, EveryTree, Zenon
<1> QED
  BY <1>3, Zenon

-----------------------------------------------------------------------------
(* What ends the evaluation of an expression *)

LEMMA QuotientsAre ==
  ASSUME Listed, NEW node \in Trees[N]
  PROVE  /\ node.id \in {"LABEL", "NUMBER"} => Quotients(node) = {}
         /\ node.id = "UNARY_OP" => \A q : q \in Quotients(node) <=> q \in Quotients(node.operand)
         /\ node.id = "BINARY_OP" =>
              \A q : q \in Quotients(node) <=>
                       \/ q = node /\ node.op = "/"
                       \/ q \in Quotients(node.left) \/ q \in Quotients(node.right)
<1>1. /\ node.id \in {"LABEL", "NUMBER"} => node.id # "BINARY_OP"
      /\ node.id = "UNARY_OP" => node.id # "BINARY_OP"
  OBVIOUS
<1>2. ASSUME node.id \in {"LABEL", "NUMBER"}
      PROVE  Quotients(node) = {}
  <2>1. Subexpressions(node) = {node}
    BY <1>2, SubexpressionsAre, Zenon
  <2> QED
    BY <1>1, <1>2, <2>1, Zenon DEF Quotients
<1>3. ASSUME node.id = "UNARY_OP", NEW q
      PROVE  q \in Quotients(node) <=> q \in Quotients(node.operand)
  <2>1. Subexpressions(node) = {node} \cup Subexpressions(node.operand)
    BY <1>3, SubexpressionsAre, Zenon
  <2> QED
    BY <1>1, <1>3, <2>1, Zenon DEF Quotients
<1>4. ASSUME node.id = "BINARY_OP", NEW q
      PROVE  q \in Quotients(node) <=> \/ q = node /\ node.op = "/"
                                       \/ q \in Quotients(node.left)
                                       \/ q \in Quotients(node.right)
  <2>1. Subexpressions(node)
        = {node} \cup (Subexpressions(node.left) \cup Subexpressions(node.right))
    BY <1>4, SubexpressionsAre, Zenon
  <2> QED
    BY <1>4, <2>1, Zenon DEF Quotients
<1> QED
  BY <1>2, <1>3, <1>4, Zenon

(* The division that traps: without labels, and its divisor becomes zero.   *)
ZeroDivisor(q) == LabelsOf(q) = << >> /\ Evaluated(q.right) = Number(0)
FailsByDivision(node) ==
    Evaluated(node) = Trap <=> \E q \in Quotients(node) : ZeroDivisor(q)

LEMMA FailureIs ==
  ASSUME Listed, NEW node \in Trees[N]
  PROVE  FailsByDivision(node)
<1> DEFINE S == {t \in Trees[N] : FailsByDivision(t)}
<1>0. Trap \notin Trees[N] /\ \A t \in Trees[N] : IsNumber(t) => t = Number(t.value)
  <2>1. N \in 0..N
    BY DEF Listed, N
  <2> QED
    BY <2>1, TreesSucceed, NumbersAre, Zenon DEF Number
<1>1. ASSUME NEW t \in Trees[N],
             t.id = "UNARY_OP" => t.operand \in S,
             t.id = "BINARY_OP" => t.left \in S /\ t.right \in S
      PROVE  FailsByDivision(t)
  <2>1. CASE t.id \in {"LABEL", "NUMBER"}
    <3>1. Evaluated(t) # Trap
      BY <1>0, <2>1, EvaluatedParts, Zenon
    <3>2. Quotients(t) = {}
      BY <2>1, QuotientsAre, Zenon
    <3> QED
      BY <3>1, <3>2, Zenon DEF FailsByDivision
  <2>2. CASE t.id = "UNARY_OP"
    <3>1. FailsByDivision(t.operand) /\ SignCases(t, Evaluated(t.operand))
      BY <1>1, <2>2, EvaluatedParts, Zenon
    <3>2. \A q : q \in Quotients(t) <=> q \in Quotients(t.operand)
      BY <2>2, QuotientsAre, Zenon
    <3>3. Evaluated(t) = Trap <=> Evaluated(t.operand) = Trap
      <4>1. PICK x : x = Evaluated(t.operand)
        OBVIOUS
      <4>2. \A v : [id |-> "NUMBER", value |-> v] # Trap
        BY DEF Trap
      <4>3. SignCases(t, x)
        BY <3>1, <4>1, Zenon
      <4>4. Evaluated(t) = Trap <=> x = Trap
        BY <1>0, <4>2, <4>3, Zenon DEF SignCases
      <4> QED
        BY <4>1, <4>4, Zenon
    <3> QED
      BY <3>1, <3>2, <3>3, Zenon DEF FailsByDivision
  <2>3. CASE t.id = "BINARY_OP"
    <3>1. PICK x, y : x = Evaluated(t.left) /\ y = Evaluated(t.right)
      OBVIOUS
    <3>2. /\ FailsByDivision(t.left) /\ FailsByDivision(t.right)
          /\ KeepsLabels(t.left) /\ KeepsLabels(t.right) /\ OperatorCases(t, x, y)
          /\ t.left \in Trees[N] /\ t.right \in Trees[N]
      BY <1>1, <2>3, <3>1, EvaluatedParts, LabelsKept, Zenon
    <3>3. \A q : q \in Quotients(t) <=> \/ q = t /\ t.op = "/"
                                        \/ q \in Quotients(t.left)
                                        \/ q \in Quotients(t.right)
      BY <2>3, QuotientsAre, Zenon
    <3>4. LabelsOf(t) = << >> <=> LabelsOf(t.left) = << >> /\ LabelsOf(t.right) = << >>
      <4>1. LabelsOf(t.left) \in Seq(Words) /\ LabelsOf(t.right) \in Seq(Words)
        BY <3>2, LabelsType, Zenon
      <4>2. LabelsOf(t) = LabelsOf(t.left) \o LabelsOf(t.right)
        BY <2>3, LabelsAre, Zenon
      <4> QED
        BY <4>1, <4>2, NoneJoined, Zenon
    <3>5. CASE (x = Trap \/ y = Trap) /\ Evaluated(t) = Trap
      BY <3>1, <3>2, <3>3, <3>5, Zenon DEF FailsByDivision
    <3>6. ASSUME x # Trap, y # Trap
          PROVE  \A q \in Quotients(t) : ZeroDivisor(q) => q = t /\ t.op = "/"
      BY <3>1, <3>2, <3>3, <3>6, Zenon DEF FailsByDivision
    <3>7. CASE /\ x \in Trees[N] /\ y \in Trees[N] /\ IsNumber(x) /\ IsNumber(y)
               /\ IF t.op = "/" /\ y.value = 0
                    THEN Evaluated(t) = Trap
                    ELSE \E v \in 0..255 : Evaluated(t) = Number(v)
      <4>1. x # Trap /\ y # Trap /\ y = Number(y.value)
        BY <1>0, <3>7, Zenon
      <4>2. LabelsOf(t) = << >>
        <5>1. LabelsOf(x) = << >> /\ LabelsOf(y) = << >>
          BY <3>7, NumberLabels, Zenon
        <5> QED
          BY <3>1, <3>2, <3>4, <4>1, <5>1, Zenon DEF KeepsLabels
      <4>3. y = Number(0) <=> y.value = 0
        <5>1. Number(0).value = 0
          BY DEF Number
        <5> QED
          BY <4>1, <5>1, Zenon
      <4>4. t.op = "/" => (ZeroDivisor(t) <=> y.value = 0)
        BY <3>1, <4>2, <4>3, Zenon DEF ZeroDivisor
      <4>5. \A v : Number(v) # Trap
        BY DEF Number, Trap
      <4>6. CASE t.op = "/" /\ y.value = 0
        BY <3>3, <3>7, <4>4, <4>6, Zenon DEF FailsByDivision
      <4>7. CASE ~(t.op = "/" /\ y.value = 0)
        <5>1. Evaluated(t) # Trap
          BY <3>7, <4>5, <4>7, Zenon
        <5> QED
          BY <3>6, <4>1, <4>4, <4>7, <5>1, Zenon DEF FailsByDivision
      <4> QED
        BY <4>6, <4>7, Zenon
    <3>8. CASE /\ x \in Trees[N] /\ y \in Trees[N] /\ ~(IsNumber(x) /\ IsNumber(y))
               /\ Evaluated(t) = OpNode(t.op, x, y) /\ OpNode(t.op, x, y) \in Trees[N]
      <4>1. x # Trap /\ y # Trap /\ Evaluated(t) # Trap
        BY <1>0, <3>8, Zenon
      <4>2. LabelsOf(t) # << >>
        BY <3>1, <3>2, <3>4, <3>8, <4>1, Zenon DEF KeepsLabels
      <4> QED
        BY <3>6, <4>1, <4>2, Zenon DEF FailsByDivision, ZeroDivisor
    <3> QED
      BY <3>2, <3>5, <3>7, <3>8, Zenon DEF OperatorCases, Number
  <2> QED
    BY <2>1, <2>2, <2>3, EvaluatedParts, Zenon
<1>2. Inductive(S)
  BY <1>1, Zenon DEF Inductive
<1>3. Trees[N] \subseteq S
  <2> HIDE DEF S
  <2> QED
    BY <1>2, EveryTree, Zenon
<1> QED
  BY <1>3, Zenon

-----------------------------------------------------------------------------
(* The value of an expression *)

(* The same in the low eight bits.                                          *)
Alike(x, y) == (x - y) % 256 = 0

Congruent(x, y) == \E k \in Int : x = y + 256 * k

LEMMA AlikeBy ==
  ASSUME NEW x \in Int, NEW y \in Int
  PROVE  Alike(x, y) <=> Congruent(x, y)
<1>1. ASSUME Alike(x, y)
      PROVE  Congruent(x, y)
  <2>1. PICK z \in Int : z = x - y
    OBVIOUS
  <2>2. z % 256 = 0
    BY <1>1, <2>1 DEF Alike
  <2>3. PICK k \in Int : k = z \div 256
    OBVIOUS
  <2>4. z = 256 * k
    BY <2>2, <2>3
  <2>5. x = y + 256 * k
    BY <2>1, <2>4
  <2> QED
    BY <2>5, Zenon DEF Congruent
<1>2. ASSUME NEW k \in Int, x = y + 256 * k
      PROVE  Alike(x, y)
  <2>1. x - y = 256 * k
    BY <1>2
  <2>2. (256 * k) % 256 = 0
    OBVIOUS
  <2> QED
    BY <2>1, <2>2, Zenon DEF Alike
<1> QED
  BY <1>1, <1>2, Zenon DEF Congruent

LEMMA AlikeSelf ==
  ASSUME NEW x \in Int
  PROVE  Alike(x, x) /\ Alike(x % 256, x)
<1>1. PICK k \in Int, y \in Int : y = x % 256 /\ x = y + 256 * k
  <2>1. x % 256 \in Int /\ x \div 256 \in Int /\ x = (x % 256) + 256 * (x \div 256)
    OBVIOUS
  <2> QED
    BY <2>1, Zenon
<1>2. x = x + 256 * 0 /\ 0 \in Int /\ y = x + 256 * (- k) /\ - k \in Int
  BY <1>1
<1>3. Congruent(x, x) /\ Congruent(y, x)
  BY <1>2, Zenon DEF Congruent
<1>4. Alike(x, x) /\ Alike(y, x)
  BY <1>3, AlikeBy, Zenon
<1> QED
  BY <1>1, <1>4, Zenon

LEMMA AlikeTrans ==
  ASSUME NEW x \in Int, NEW y \in Int, NEW z \in Int, Alike(x, y), Alike(y, z)
  PROVE  Alike(x, z)
<1>1. Congruent(x, y) /\ Congruent(y, z)
  BY AlikeBy, Zenon
<1>2. PICK j \in Int, k \in Int : x = y + 256 * j /\ y = z + 256 * k
  BY <1>1, ZenonT(40) DEF Congruent
<1>3. x = z + 256 * (j + k) /\ j + k \in Int
  BY <1>2
<1>4. Congruent(x, z)
  BY <1>3, Zenon DEF Congruent
<1> QED
  BY <1>4, AlikeBy, Zenon

LEMMA AlikeNegated ==
  ASSUME NEW x \in Int, NEW y \in Int, Alike(x, y)
  PROVE  Alike(- x, - y)
<1>1. PICK k \in Int : x = y + 256 * k
  <2>1. Congruent(x, y)
    BY AlikeBy, Zenon
  <2> QED
    BY <2>1, Zenon DEF Congruent
<1>2. - x = (- y) + 256 * (- k) /\ - x \in Int /\ - y \in Int /\ - k \in Int
  BY <1>1
<1>3. Congruent(- x, - y)
  BY <1>2, Zenon DEF Congruent
<1> QED
  BY <1>2, <1>3, AlikeBy, Zenon

LEMMA OperatedType ==
  ASSUME NEW op \in NumericOps, NEW l \in Int, NEW r \in Int
  PROVE  Operated(op, l, r) \in Int
<1>1. op \in {"*", "/", "+", "-"}
  BY DEF NumericOps, MultiplicationOps, AdditionOps
<1>2. l + r \in Int /\ l - r \in Int /\ l * r \in Int
  OBVIOUS
<1>3. (IF r <= 0 THEN 0 ELSE l \div r) \in Int
  OBVIOUS
<1> QED
  BY <1>1, <1>2, <1>3, Zenon DEF Operated

LEMMA AlikeOperated ==
  ASSUME NEW op \in {"+", "-", "*"}, NEW x \in Int, NEW y \in Int, NEW l \in Int, NEW r \in Int,
         Alike(x, l), Alike(y, r)
  PROVE  Alike(Operated(op, x, y), Operated(op, l, r))
<1>0. Congruent(x, l) /\ Congruent(y, r)
  BY AlikeBy, Zenon
<1>1. PICK i \in Int : x = l + 256 * i
  BY <1>0, Zenon DEF Congruent
<1>2. PICK j \in Int : y = r + 256 * j
  BY <1>0, Zenon DEF Congruent
<1>3. CASE op = "+"
  <2>1. /\ x + y = (l + r) + 256 * (i + j) /\ i + j \in Int
        /\ x + y \in Int /\ l + r \in Int
    BY <1>1, <1>2
  <2>2. Congruent(x + y, l + r)
    BY <2>1, Zenon DEF Congruent
  <2>3. Alike(x + y, l + r)
    BY <2>1, <2>2, AlikeBy, Zenon
  <2> QED
    BY <1>3, <2>3, Zenon DEF Operated
<1>4. CASE op = "-"
  <2>1. /\ x - y = (l - r) + 256 * (i - j) /\ i - j \in Int
        /\ x - y \in Int /\ l - r \in Int
    BY <1>1, <1>2
  <2>2. Congruent(x - y, l - r)
    BY <2>1, Zenon DEF Congruent
  <2>3. Alike(x - y, l - r)
    BY <2>1, <2>2, AlikeBy, Zenon
  <2> QED
    BY <1>4, <2>3, Zenon DEF Operated
<1>5. CASE op = "*"
  <2>1. PICK k \in Int : k = l * j + i * r + 256 * (i * j)
    OBVIOUS
  <2>2. x * y = l * r + 256 * k
    BY <1>1, <1>2, <2>1
  <2>3. PICK a \in Int, b \in Int : a = x * y /\ b = l * r
    OBVIOUS
  <2>4. Congruent(a, b)
    BY <2>2, <2>3, Zenon DEF Congruent
  <2>5. Alike(a, b)
    BY <2>4, AlikeBy, Zenon
  <2> QED
    BY <1>5, <2>3, <2>5, Zenon DEF Operated
<1> QED
  BY <1>3, <1>4, <1>5, Zenon

LEMMA ValueType ==
  ASSUME Listed, NEW node \in Trees[N], NEW at \in Addresses
  PROVE  Value(node, at) \in Int
<1> DEFINE S == {t \in Trees[N] : Value(t, at) \in Int}
<1>1. ASSUME NEW t \in Trees[N],
             t.id = "UNARY_OP" => t.operand \in S,
             t.id = "BINARY_OP" => t.left \in S /\ t.right \in S
      PROVE  Value(t, at) \in Int
  <2>1. CASE t.id = "LABEL"
    <3>1. at \in Int
      BY AddressesAssumption
    <3> QED
      BY <2>1, <3>1, ValueIs, Zenon
  <2>2. CASE t.id = "NUMBER"
    <3>1. t.value \in 0..255
      <4>1. N \in 0..N
        BY DEF Listed, N
      <4> QED
        BY <2>2, <4>1, NumbersAre, Zenon DEF IsNumber
    <3>2. t.value \in Int
      BY <3>1
    <3> QED
      BY <2>2, <3>2, ValueIs, Zenon
  <2>3. CASE t.id = "UNARY_OP"
    <3>1. PICK l \in Int : l = Value(t.operand, at)
      BY <1>1, <2>3, Zenon
    <3>2. - l \in Int
      BY <3>1
    <3> QED
      BY <2>3, <3>1, <3>2, ValueIs, Zenon
  <2>4. CASE t.id = "BINARY_OP"
    <3>1. Value(t.left, at) \in Int /\ Value(t.right, at) \in Int /\ t.op \in NumericOps
      BY <1>1, <2>4, EvaluatedParts, Zenon
    <3>2. Operated(t.op, Value(t.left, at), Value(t.right, at)) \in Int
      BY <3>1, OperatedType, Zenon
    <3> QED
      BY <2>4, <3>2, ValueIs, Zenon
  <2> QED
    BY <2>1, <2>2, <2>3, <2>4, EvaluatedParts, Zenon
<1>2. Inductive(S)
  BY <1>1, Zenon DEF Inductive
<1>3. Trees[N] \subseteq S
  <2> HIDE DEF S
  <2> QED
    BY <1>2, EveryTree, Zenon
<1> QED
  BY <1>3, Zenon

LEMMA NumberValue ==
  ASSUME Listed, NEW v \in 0..255, NEW at \in Addresses
  PROVE  Value(Number(v), at) = v
<1>1. Number(v).id = "NUMBER" /\ Number(v).value = v
  BY DEF Number
<1> QED
  BY <1>1, NumberIs, ValueIs, Zenon

LEMMA RepresentableParts ==
  ASSUME Listed, NEW node \in Trees[N], NEW at \in Addresses, Representable(node, at)
  PROVE  /\ Value(node, at) \in 0..255
         /\ node.id = "UNARY_OP" => Representable(node.operand, at)
         /\ node.id = "BINARY_OP" =>
              Representable(node.left, at) /\ Representable(node.right, at)
<1>1. \A e \in Subexpressions(node) : Value(e, at) \in 0..255
  BY Zenon DEF Representable
<1>2. \A q \in Quotients(node) : Value(q.right, at) # 0
  BY Zenon DEF Representable
<1>3. node \in Subexpressions(node)
  BY SubexpressionsAre, EvaluatedParts, Zenon
<1>4. ASSUME node.id = "UNARY_OP"
      PROVE  Representable(node.operand, at)
  <2>1. \A e \in Subexpressions(node.operand) : e \in Subexpressions(node)
    BY <1>4, SubexpressionsAre, Zenon
  <2>2. \A q \in Quotients(node.operand) : q \in Quotients(node)
    BY <1>4, QuotientsAre, Zenon
  <2> QED
    BY <1>1, <1>2, <2>1, <2>2, Zenon DEF Representable
<1>5. ASSUME node.id = "BINARY_OP"
      PROVE  Representable(node.left, at) /\ Representable(node.right, at)
  <2>1. \A e : e \in Subexpressions(node.left) \/ e \in Subexpressions(node.right)
               => e \in Subexpressions(node)
    BY <1>5, SubexpressionsAre, ZenonT(30)
  <2>2. \A q : q \in Quotients(node.left) \/ q \in Quotients(node.right)
               => q \in Quotients(node)
    BY <1>5, QuotientsAre, Zenon
  <2> QED
    BY <1>1, <1>2, <2>1, <2>2, Zenon DEF Representable
<1> QED
  BY <1>1, <1>3, <1>4, <1>5, Zenon

(* What became of the value, of numbers m and n to eight bits.              *)
KeptValue(new, old, exact, wrapped) ==
    /\ exact => new = old
    /\ wrapped => Alike(new, old)
KeepsValue(node, at) ==
    Evaluated(node) # Trap =>
      KeptValue(Value(Evaluated(node), at), Value(node, at),
                Representable(node, at), Quotients(node) = {})

(* A number v of eight bits in place of y, which stands for the value x.     *)
Wraps(v, y) == v = y % 256
StandsFor(v, y, x) ==
    /\ y = x /\ x \in 0..255 => v = x
    /\ Alike(y, x) => Alike(v, x)

LEMMA WrappedValue ==
  ASSUME NEW x \in Int, NEW y \in Int, NEW v \in Int, Wraps(v, y)
  PROVE  StandsFor(v, y, x)
<1> USE DEF Wraps, StandsFor
<1>1. x = y /\ x \in 0..255 => v = x
  OBVIOUS
<1>2. Alike(v, y)
  BY AlikeSelf, Zenon
<1> QED
  BY <1>1, <1>2, AlikeTrans, Zenon

LEMMA SignKeepsValue ==
  ASSUME Listed, NEW t \in Trees[N], NEW at \in Addresses, t.id = "UNARY_OP",
         KeepsValue(t.operand, at)
  PROVE  KeepsValue(t, at)
<1>1. PICK x : x = Evaluated(t.operand)
  OBVIOUS
<1>2. t.operand \in Trees[N] /\ SignCases(t, x) /\ Trap \notin Trees[N]
  <2>1. N \in 0..N
    BY DEF Listed, N
  <2> QED
    BY <1>1, <2>1, EvaluatedParts, TreesSucceed, Zenon
<1>3. PICK l \in Int : l = Value(t.operand, at)
  BY <1>2, ValueType, Zenon
<1>4. PICK w \in Int : w = Value(t, at) /\ w = - l
  <2>1. - l \in Int
    OBVIOUS
  <2> QED
    BY <1>3, <2>1, ValueIs, Zenon
<1>5. /\ Representable(t, at) => Representable(t.operand, at) /\ w \in 0..255
      /\ Quotients(t) = {} => Quotients(t.operand) = {}
  BY <1>4, RepresentableParts, QuotientsAre, Zenon
<1>6. ASSUME x \in Trees[N]
      PROVE  \E k \in Int : /\ k = Value(x, at)
                            /\ Representable(t, at) => - k = w /\ w \in 0..255
                            /\ Quotients(t) = {} => Alike(- k, w)
  <2>1. PICK k \in Int : k = Value(x, at)
    BY <1>6, ValueType, Zenon
  <2>2. KeptValue(k, l, Representable(t.operand, at), Quotients(t.operand) = {})
    BY <1>1, <1>2, <1>3, <1>6, <2>1, Zenon DEF KeepsValue
  <2>3. (Representable(t, at) => k = l) /\ (Quotients(t) = {} => Alike(k, l))
    BY <1>5, <2>2, Zenon DEF KeptValue
  <2>4. Quotients(t) = {} => Alike(- k, - l)
    BY <2>3, AlikeNegated, Zenon
  <2> QED
    BY <1>4, <1>5, <2>1, <2>3, <2>4, Zenon
<1>7. CASE /\ x \in Trees[N] /\ IsNumber(x) /\ x.value \in 0..255
           /\ Evaluated(t) = [id |-> "NUMBER", value |-> (- x.value) % 256]
  <2>1. PICK k \in Int : /\ k = Value(x, at)
                         /\ Representable(t, at) => - k = w /\ w \in 0..255
                         /\ Quotients(t) = {} => Alike(- k, w)
    BY <1>6, <1>7, Zenon
  <2>2. x.value = k
    BY <1>7, <2>1, ValueIs, Zenon DEF IsNumber
  <2>3. PICK y \in Int, v \in 0..255 : y = - k /\ v = y % 256
    <3>1. - k \in Int /\ (- k) % 256 \in 0..255
      OBVIOUS
    <3> QED
      BY <3>1, Zenon
  <2>4. Evaluated(t) = Number(v)
    BY <1>7, <2>2, <2>3, Zenon DEF Number
  <2>5. Value(Evaluated(t), at) = v
    BY <2>4, NumberValue, Zenon
  <2>6. v \in Int
    OBVIOUS
  <2>7. Wraps(v, y)
    BY <2>3, Zenon DEF Wraps
  <2>8. StandsFor(v, y, w)
    BY <2>6, <2>7, WrappedValue, Zenon
  <2> QED
    BY <1>4, <2>1, <2>3, <2>5, <2>8, Zenon DEF KeepsValue, KeptValue, StandsFor
<1>8. CASE /\ x \in Trees[N] /\ ~IsNumber(x)
           /\ Evaluated(t) = NegNode(x) /\ NegNode(x) \in Trees[N]
  <2>1. PICK k \in Int : /\ k = Value(x, at)
                         /\ Representable(t, at) => - k = w /\ w \in 0..255
                         /\ Quotients(t) = {} => Alike(- k, w)
    BY <1>6, <1>8, Zenon
  <2>2. Value(Evaluated(t), at) = - k
    BY <1>8, <2>1, NegNodeIs, Zenon
  <2> QED
    BY <1>4, <2>1, <2>2, Zenon DEF KeepsValue, KeptValue
<1>9. CASE Evaluated(t) = Trap
  BY <1>9, Zenon DEF KeepsValue
<1> QED
  BY <1>2, <1>7, <1>8, <1>9, Zenon DEF SignCases

(* Of the operands of an operator: their values l and r, and the values i   *)
(* and j of what they are evaluated to.                                     *)
OperandsKeep(t, at, i, j, w) ==
    /\ Operated(t.op, i, j) \in Int
    /\ Representable(t, at) => Operated(t.op, i, j) = w /\ w \in 0..255
    /\ Quotients(t) = {} => Alike(Operated(t.op, i, j), w)

LEMMA OperandValues ==
  ASSUME Listed, NEW t \in Trees[N], NEW at \in Addresses, t.id = "BINARY_OP",
         KeepsValue(t.left, at), KeepsValue(t.right, at),
         Evaluated(t.left) \in Trees[N], Evaluated(t.right) \in Trees[N]
  PROVE  OperandsKeep(t, at, Value(Evaluated(t.left), at), Value(Evaluated(t.right), at),
                      Value(t, at))
<1>1. t.left \in Trees[N] /\ t.right \in Trees[N] /\ t.op \in NumericOps /\ Trap \notin Trees[N]
  <2>1. N \in 0..N
    BY DEF Listed, N
  <2> QED
    BY <2>1, EvaluatedParts, TreesSucceed, Zenon
<1>2. PICK l \in Int, r \in Int : l = Value(t.left, at) /\ r = Value(t.right, at)
  BY <1>1, ValueType, Zenon
<1>3. PICK i \in Int, j \in Int :
             i = Value(Evaluated(t.left), at) /\ j = Value(Evaluated(t.right), at)
  BY ValueType, Zenon
<1>4. Value(t, at) = Operated(t.op, l, r)
  BY <1>2, ValueIs, Zenon
<1>5. /\ KeptValue(i, l, Representable(t.left, at), Quotients(t.left) = {})
      /\ KeptValue(j, r, Representable(t.right, at), Quotients(t.right) = {})
  BY <1>1, <1>2, <1>3, Zenon DEF KeepsValue
<1>6. Representable(t, at) =>
        /\ Representable(t.left, at) /\ Representable(t.right, at)
        /\ Value(t, at) \in 0..255
  BY RepresentableParts, Zenon
<1>7. Representable(t, at) => Operated(t.op, i, j) = Value(t, at)
  BY <1>4, <1>5, <1>6, Zenon DEF KeptValue
<1>8. ASSUME Quotients(t) = {}
      PROVE  Alike(Operated(t.op, i, j), Value(t, at))
  <2>1. t.op # "/" /\ Quotients(t.left) = {} /\ Quotients(t.right) = {}
    BY <1>8, QuotientsAre, Zenon
  <2>2. PICK op \in {"+", "-", "*"} : op = t.op
    BY <1>1, <2>1 DEF NumericOps, MultiplicationOps, AdditionOps
  <2>3. Alike(i, l) /\ Alike(j, r)
    BY <1>5, <2>1, Zenon DEF KeptValue
  <2>4. Alike(Operated(op, i, j), Operated(op, l, r))
    BY <2>3, AlikeOperated, Zenon
  <2> QED
    BY <1>4, <2>2, <2>4, Zenon
<1>9. Operated(t.op, i, j) \in Int
  BY <1>1, OperatedType, Zenon
<1> QED
  BY <1>3, <1>6, <1>7, <1>8, <1>9, Zenon DEF OperandsKeep

LEMMA OperatorKeepsValue ==
  ASSUME Listed, NEW t \in Trees[N], NEW at \in Addresses, t.id = "BINARY_OP",
         KeepsValue(t.left, at), KeepsValue(t.right, at)
  PROVE  KeepsValue(t, at)
<1>1. PICK x, y : x = Evaluated(t.left) /\ y = Evaluated(t.right)
  OBVIOUS
<1>2. OperatorCases(t, x, y) /\ t.op \in NumericOps
  BY <1>1, EvaluatedParts, Zenon
<1>3. PICK w \in Int : w = Value(t, at)
  BY ValueType, Zenon
<1>4. ASSUME x \in Trees[N], y \in Trees[N]
      PROVE  OperandsKeep(t, at, Value(x, at), Value(y, at), w)
  BY <1>1, <1>3, <1>4, OperandValues, Zenon
<1>5. CASE /\ x \in Trees[N] /\ y \in Trees[N] /\ IsNumber(x) /\ IsNumber(y)
           /\ \E v \in 0..255 : /\ Evaluated(t) = [id |-> "NUMBER", value |-> v]
                                /\ v = Operated(t.op, x.value, y.value) % 256
  <2>1. Value(x, at) = x.value /\ Value(y, at) = y.value
    BY <1>5, ValueIs, Zenon DEF IsNumber
  <2>2. PICK p \in Int : /\ p = Operated(t.op, x.value, y.value)
                         /\ Representable(t, at) => p = w /\ w \in 0..255
                         /\ Quotients(t) = {} => Alike(p, w)
    BY <1>4, <1>5, <2>1, Zenon DEF OperandsKeep
  <2>3. PICK v \in 0..255 : Evaluated(t) = Number(v) /\ v = p % 256
    BY <1>5, <2>2, Zenon DEF Number
  <2>4. Value(Evaluated(t), at) = v
    BY <2>3, NumberValue, Zenon
  <2>5. v \in Int
    OBVIOUS
  <2>6. Wraps(v, p)
    BY <2>3, Zenon DEF Wraps
  <2>7. StandsFor(v, p, w)
    BY <2>5, <2>6, WrappedValue, Zenon
  <2> QED
    BY <1>3, <2>2, <2>4, <2>7, Zenon DEF KeepsValue, KeptValue, StandsFor
<1>6. CASE /\ x \in Trees[N] /\ y \in Trees[N]
           /\ Evaluated(t) = OpNode(t.op, x, y) /\ OpNode(t.op, x, y) \in Trees[N]
  <2>1. Value(OpNode(t.op, x, y), at) = Operated(t.op, Value(x, at), Value(y, at))
    <3>1. PICK node \in Trees[N] : node = OpNode(t.op, x, y)
      BY <1>6, Zenon
    <3>2. node.id = "BINARY_OP" /\ node.op = t.op /\ node.left = x /\ node.right = y
      BY <3>1 DEF OpNode
    <3> QED
      BY <3>1, <3>2, ValueIs, Zenon
  <2> QED
    BY <1>3, <1>4, <1>6, <2>1, Zenon DEF KeepsValue, KeptValue, OperandsKeep
<1>7. CASE Evaluated(t) = Trap
  BY <1>7, Zenon DEF KeepsValue
<1> QED
  BY <1>2, <1>5, <1>6, <1>7, Zenon DEF OperatorCases

LEMMA ValueKept ==
  ASSUME Listed, NEW node \in Trees[N], NEW at \in Addresses
  PROVE  KeepsValue(node, at)
<1> DEFINE S == {t \in Trees[N] : KeepsValue(t, at)}
<1>1. ASSUME NEW t \in Trees[N],
             t.id = "UNARY_OP" => t.operand \in S,
             t.id = "BINARY_OP" => t.left \in S /\ t.right \in S
      PROVE  KeepsValue(t, at)
  <2>1. CASE t.id \in {"LABEL", "NUMBER"}
    <3>1. Evaluated(t) = t
      BY <2>1, EvaluatedParts, Zenon
    <3>2. Alike(Value(t, at), Value(t, at))
      BY ValueType, AlikeSelf, Zenon
    <3> QED
      BY <3>1, <3>2, Zenon DEF KeepsValue, KeptValue
  <2>2. CASE t.id = "UNARY_OP"
    BY <1>1, <2>2, SignKeepsValue, Zenon
  <2>3. CASE t.id = "BINARY_OP"
    BY <1>1, <2>3, OperatorKeepsValue, Zenon
  <2> QED
    BY <2>1, <2>2, <2>3, EvaluatedParts, Zenon
<1>2. Inductive(S)
  BY <1>1, Zenon DEF Inductive
<1>3. Trees[N] \subseteq S
  <2> HIDE DEF S
  <2> QED
    BY <1>2, EveryTree, Zenon
<1> QED
  BY <1>3, Zenon

-----------------------------------------------------------------------------
(* The properties of evaluation *)

LEMMA OperandFails ==
  ASSUME Listed, NEW node \in Args
  PROVE  /\ Failed(Evaluated(node)) <=> \E q \in Quotients(node) : ZeroDivisor(q)
         /\ Failed(Evaluated(node)) => Evaluated(node) = Trap
<1>1. N \in 0..N
  BY DEF Listed, N
<1>2. CASE IsRegister(node)
  <2>1. Evaluated(node) = node /\ Subexpressions(node) = {node}
    BY <1>2, Zenon DEF Evaluated, Subexpressions
  <2>2. node.id \in {"REGISTER", "DREGISTER"}
    BY <1>2 DEF IsRegister
  <2>3. node.id # "BINARY_OP" /\ ~Failed(node)
    BY <2>2 DEF Failed
  <2>4. Quotients(node) = {}
    BY <2>1, <2>3, Zenon DEF Quotients
  <2> QED
    BY <2>1, <2>3, <2>4, Zenon
<1>3. CASE node \in Trees[N]
  <2>1. Evaluated(node) \in Trees[N] \cup {Trap}
    BY <1>1, <1>3, EvaluatedType, Zenon
  <2>2. Failed(Evaluated(node)) <=> Evaluated(node) = Trap
    BY <1>1, <2>1, TreesSucceed, TrapIs, Zenon
  <2>3. FailsByDivision(node)
    BY <1>3, FailureIs, Zenon
  <2> QED
    BY <2>2, <2>3, Zenon DEF FailsByDivision
<1> QED
  BY <1>2, <1>3, ArgsAre, Zenon

(* What becomes of a statement.                                             *)
StatementGoes(node) ==
    IF StatementFails(node)
      THEN /\ EvaluatedStatement(node) = IF node.id = "DIRECTIVE" THEN Exception ELSE Trap
           /\ Failed(EvaluatedStatement(node))
      ELSE EvaluatedStatement(node).id = node.id /\ ~Failed(EvaluatedStatement(node))

LEMMA InstructionGoes ==
  ASSUME Listed, NEW node, node.id = "INSTRUCTION", node.args \in Seq(Args),
         node = InstructionNode(node.type, node.args)
  PROVE  StatementGoes(node)
<1> DEFINE args == [i \in DOMAIN node.args |-> Evaluated(node.args[i])]
           S == Failures(args)
<1>1. DOMAIN node.args \subseteq Nat /\ \A i \in DOMAIN node.args : node.args[i] \in Args
  OBVIOUS
<1>2. \A i \in DOMAIN node.args :
        /\ Failed(args[i]) <=> \E q \in Quotients(node.args[i]) : ZeroDivisor(q)
        /\ Failed(args[i]) => args[i] = Trap
  BY <1>1, OperandFails, Zenon
<1>3. \A i : i \in S <=> i \in DOMAIN node.args /\ Failed(args[i])
  BY Zenon DEF Failures
<1>4. StatementFails(node) <=> S # {}
  <2>1. node.id # "DIRECTIVE"
    OBVIOUS
  <2>2. DividesByZero(node)
        <=> \E i \in DOMAIN node.args : \E q \in Quotients(node.args[i]) : ZeroDivisor(q)
    BY Zenon DEF DividesByZero, ZeroDivisor, Number
  <2>3. DividesByZero(node) <=> S # {}
    BY <1>2, <1>3, <2>2, Zenon
  <2> QED
    BY <2>1, <2>3, Zenon DEF StatementFails
<1>5. node.id # "LABEL" /\ node.id # "DIRECTIVE"
  OBVIOUS
<1>6. EvaluatedStatement(node)
      = IF S = {} THEN [node EXCEPT !.args = args] ELSE FirstFailure(args)
  BY <1>5, Zenon DEF EvaluatedStatement
<1>7. CASE S = {}
  <2>1. [node EXCEPT !.args = args].id = "INSTRUCTION"
    <3> HIDE DEF args
    <3> QED
      BY DEF InstructionNode
  <2>2. EvaluatedStatement(node).id = "INSTRUCTION"
    BY <1>6, <1>7, <2>1, Zenon
  <2>3. ~Failed(EvaluatedStatement(node))
    BY <2>2 DEF Failed
  <2> QED
    BY <1>4, <1>7, <2>2, <2>3, Zenon DEF StatementGoes
<1>8. CASE S # {}
  <2>1. S \subseteq Nat
    BY <1>1, <1>3, Zenon
  <2>2. Min(S) \in S
    <3> HIDE DEF S
    <3>1. PICK x \in S : \A y \in S : x <= y
      BY <1>8, <2>1, LeastNat, Zenon
    <3> QED
      BY <2>1, <3>1, MinIs, Zenon
  <2>3. Failed(args[Min(S)]) /\ args[Min(S)] = Trap
    BY <1>2, <1>3, <2>2, Zenon
  <2>4. EvaluatedStatement(node) = Trap
    BY <1>6, <1>8, <2>3, Zenon DEF FirstFailure
  <2> QED
    BY <1>4, <1>5, <1>8, <2>4, TrapIs, Zenon DEF StatementGoes
<1> QED
  BY <1>7, <1>8, Zenon

LEMMA ExceptionIs == Failed(Exception)
BY DEF Exception, Failed

LEMMA StatementEvaluated ==
  ASSUME Listed, NEW node, NEW s, NEW e, StatementParses(node, s, e)
  PROVE  StatementGoes(node)
<1>1. node.id \in {"LABEL", "DIRECTIVE", "INSTRUCTION"}
  BY Zenon DEF StatementParses, IsStatement
<1>2. CASE node.id = "LABEL"
  <2>1. node.id # "DIRECTIVE" /\ node.id # "INSTRUCTION" /\ ~Failed(node)
    BY <1>2 DEF Failed
  <2>2. EvaluatedStatement(node) = node
    BY <1>2, <2>1, Zenon DEF EvaluatedStatement
  <2> QED
    BY <2>1, <2>2, Zenon DEF StatementGoes, StatementFails
<1>3. CASE node.id = "DIRECTIVE"
  <2>1. node.id # "LABEL" /\ node.id # "INSTRUCTION"
    BY <1>3
  <2>2. EvaluatedStatement(node) = Exception
    BY <2>1, Zenon DEF EvaluatedStatement
  <2> QED
    BY <1>3, <2>2, ExceptionIs, Zenon DEF StatementGoes, StatementFails
<1>4. CASE node.id = "INSTRUCTION"
  <2>1. node.args \in Seq(Args) /\ node = InstructionNode(node.type, node.args)
    BY <1>4, Zenon DEF StatementParses, Spells
  <2> QED
    BY <1>4, <2>1, InstructionGoes, Zenon
<1> QED
  BY <1>1, <1>2, <1>3, <1>4, Zenon

LEMMA ExpressionsAre ==
  ASSUME ParserInv, NEW node \in Expressions
  PROVE  node \in Trees[N]
<1>1. PICK k \in DOMAIN lines : lines[k].id = "INSTRUCTION"
                                /\ \E i \in DOMAIN lines[k].args : node = lines[k].args[i]
  BY Zenon DEF Expressions, Arguments
<1>2. PICK i \in DOMAIN lines[k].args : node = lines[k].args[i]
  BY <1>1, Zenon
<1>3. DOMAIN lines = 1..Len(lines)
  BY DEF ParserInv
<1>4. lines[k].args \in Seq(Args)
  BY <1>1, <1>3, Zenon DEF ParserInv, StatementsParse, StatementParses, Spells
<1>5. node \in Args
  BY <1>2, <1>4
<1>6. node.id \notin {"REGISTER", "DREGISTER"}
  BY Zenon DEF Expressions
<1>7. ~IsRegister(node)
  BY <1>6 DEF IsRegister
<1>8. Listed
  BY Zenon DEF ParserInv
<1> QED
  BY <1>5, <1>7, <1>8, ArgsAre, Zenon

LEMMA EvaluateKeepsValueInv ==
  ASSUME ParserInv
  PROVE  EvaluateKeepsValue
<1>1. Listed
  BY Zenon DEF ParserInv
<1>2. ASSUME NEW node \in Expressions, ~Failed(Evaluated(node)), NEW at \in Addresses
      PROVE  /\ Representable(node, at) => Value(Evaluated(node), at) = Value(node, at)
             /\ Quotients(node) = {} =>
                  (Value(Evaluated(node), at) - Value(node, at)) % 256 = 0
  <2>1. Evaluated(node) # Trap /\ node \in Trees[N]
    BY <1>2, TrapIs, ExpressionsAre, Zenon
  <2>2. KeepsValue(node, at)
    BY <1>1, <2>1, ValueKept, Zenon
  <2> QED
    BY <2>1, <2>2, Zenon DEF KeepsValue, KeptValue, Alike
<1> QED
  BY <1>2, Zenon DEF EvaluateKeepsValue

(* What evaluate makes of an expression has its value: exactly if all its   *)
(* values fit eight bits, and up to a multiple of 256 if it does not divide. *)
THEOREM EvaluateKeepsValueCorrect == Spec => []EvaluateKeepsValue
<1>1. ParserInv => EvaluateKeepsValue
  BY EvaluateKeepsValueInv
<1> QED
  BY <1>1, ParserInvariant, PTL

LEMMA EvaluateFoldsInv ==
  ASSUME ParserInv
  PROVE  EvaluateFolds
<1>1. Listed /\ N \in 0..N
  BY DEF ParserInv, Listed, N
<1>2. ASSUME NEW node \in Expressions, ~Failed(Evaluated(node))
      PROVE  /\ Evaluated(node) \in Trees[N] /\ LabelsOf(Evaluated(node)) = LabelsOf(node)
             /\ LabelsOf(node) = << >> => IsNumber(Evaluated(node))
             /\ \A f \in Subexpressions(Evaluated(node)) : Unfoldable(f)
  <2>1. Evaluated(node) # Trap /\ node \in Trees[N]
    BY <1>2, TrapIs, ExpressionsAre, Zenon
  <2>2. Evaluated(node) \in Trees[N]
    BY <1>1, <2>1, EvaluatedType, Zenon
  <2>3. KeepsLabels(node) /\ FullyFolded(node)
    BY <1>1, <2>1, LabelsKept, FoldedFully, Zenon
  <2> QED
    BY <2>1, <2>2, <2>3, Zenon DEF KeepsLabels, FullyFolded
<1> QED
  BY <1>2, Zenon DEF EvaluateFolds, Unfoldable, N

(* What evaluate leaves of an expression is an expression again, with its   *)
(* labels in their order, and no operator in it has only numbers to work on. *)
THEOREM EvaluateFoldsCorrect == Spec => []EvaluateFolds
<1>1. ParserInv => EvaluateFolds
  BY EvaluateFoldsInv
<1> QED
  BY <1>1, ParserInvariant, PTL

LEMMA EvaluateFailsInv ==
  ASSUME ParserInv
  PROVE  EvaluateFails
<1> DEFINE all == [k \in DOMAIN lines |-> EvaluatedStatement(lines[k])]
           failing == {k \in DOMAIN lines : StatementFails(lines[k])}
           new == EvaluatedRoot(lines)
<1>1. DOMAIN lines = 1..Len(lines) /\ Len(lines) \in Nat
  BY DEF ParserInv
<1>2. \A k \in DOMAIN lines : StatementGoes(lines[k])
  BY <1>1, StatementEvaluated, Zenon DEF ParserInv, StatementsParse
<1>3. \A k \in DOMAIN lines : StatementFails(lines[k]) <=> Failed(all[k])
  BY <1>2, Zenon DEF StatementGoes
<1>4. failing = Failures(all)
  <2>1. \A k : k \in Failures(all) <=> k \in DOMAIN lines /\ Failed(all[k])
    BY Zenon DEF Failures
  <2>2. \A k : k \in failing <=> k \in Failures(all)
    BY <1>3, <2>1, Zenon
  <2> QED
    BY <2>2, Zenon
<1>5. CASE failing = {}
  <2>1. new = [id |-> "ROOT", children |-> all]
    BY <1>4, <1>5, Zenon DEF EvaluatedRoot
  <2>2. new.id = "ROOT" /\ new.children = all
    <3> HIDE DEF all, new
    <3> QED
      BY <2>1
  <2>3. Len(all) = Len(lines)
    BY <1>1
  <2>4. \A k \in DOMAIN lines : all[k].id = lines[k].id
    BY <1>2, <1>5, Zenon DEF StatementGoes
  <2> QED
    BY <1>5, <2>2, <2>3, <2>4, Zenon DEF EvaluateFails
<1>6. CASE failing # {}
  <2>1. failing \subseteq Nat
    BY <1>1
  <2>2. Min(failing) \in failing
    <3> HIDE DEF failing
    <3>1. PICK x \in failing : \A y \in failing : x <= y
      BY <1>6, <2>1, LeastNat, Zenon
    <3> QED
      BY <2>1, <3>1, MinIs, Zenon
  <2>3. new = all[Min(failing)]
    BY <1>4, <1>6, Zenon DEF EvaluatedRoot, FirstFailure
  <2>4. all[Min(failing)]
        = IF lines[Min(failing)].id = "DIRECTIVE" THEN Exception ELSE Trap
    BY <1>2, <2>2, Zenon DEF StatementGoes
  <2>5. CASE lines[Min(failing)].id = "DIRECTIVE"
    <3>1. new = Exception
      <4> HIDE DEF all, failing, new
      <4> QED
        BY <2>3, <2>4, <2>5
    <3> QED
      BY <1>6, <2>5, <3>1, Zenon DEF EvaluateFails
  <2>6. CASE lines[Min(failing)].id # "DIRECTIVE"
    <3>1. new = Trap
      <4> HIDE DEF all, failing, new
      <4> QED
        BY <2>3, <2>4, <2>6
    <3> QED
      BY <1>6, <2>6, <3>1, Zenon DEF EvaluateFails
  <2> QED
    BY <2>5, <2>6, Zenon
<1> QED
  BY <1>5, <1>6, Zenon

(* A program is evaluated as a whole unless it has a directive or divides   *)
(* by zero, and fails as the first statement that does.                     *)
THEOREM EvaluateFailsCorrect == Spec => []EvaluateFails
<1>1. ParserInv => EvaluateFails
  BY EvaluateFailsInv
<1> QED
  BY <1>1, ParserInvariant, PTL

=============================================================================
