--------------------------- MODULE LintFileProofs ---------------------------
(***************************************************************************)
(* The state that cpplint.py keeps from line to line, for any text: the     *)
(* stack is that of the branches that are taken, and what is said of the    *)
(* headers is right.                                                        *)
(***************************************************************************)
EXTENDS LintFile, SequenceTheorems, FiniteSetTheorems, WellFoundedInduction, TLAPS

(* A nonempty set of natural numbers has a least, and one that is bounded   *)
(* a greatest, which is its Max.                                            *)
LEMMA Least ==
  ASSUME NEW T \in SUBSET Nat, T # {}
  PROVE  \E n \in T : \A m \in T : n <= m
<1> DEFINE R == {ss \in Nat \X Nat : ss[1] < ss[2]}
<1>1. IsWellFoundedOn(R, Nat)
  BY NatLessThanWellFounded DEF OpToRel
<1>2. PICK n \in T : \A m \in T : <<m, n>> \notin R
  <2> HIDE DEF R
  <2> QED
    BY <1>1, WFMin
<1>3. ASSUME NEW m \in T PROVE n <= m
  <2>1. <<m, n>> \in Nat \X Nat /\ <<m, n>>[1] = m /\ <<m, n>>[2] = n
    OBVIOUS
  <2>2. ~(m < n)
    BY <1>2, <2>1
  <2> QED
    BY <2>2
<1> QED
  BY <1>3

LEMMA MaxIs ==
  ASSUME NEW S \in SUBSET Int, NEW x \in S, \A y \in S : y <= x
  PROVE  Max(S) = x
<1>1. \A y \in S : x >= y
  OBVIOUS
<1>2. \A z \in S : (\A y \in S : z >= y) => z = x
  OBVIOUS
<1> QED
  BY <1>1, <1>2 DEF Max

LEMMA MinIs ==
  ASSUME NEW S \in SUBSET Int, NEW x \in S, \A y \in S : x <= y
  PROVE  Min(S) = x
<1>1. \A z \in S : (\A y \in S : z <= y) => z = x
  OBVIOUS
<1> QED
  BY <1>1 DEF Min

LEMMA Greatest ==
  ASSUME NEW n \in Nat, NEW S \in SUBSET (1..n), S # {}
  PROVE  Max(S) \in S /\ \A y \in S : y <= Max(S)
<1> DEFINE T == {m \in 0..n : n - m \in S}
<1>1. \A y \in S : n - y \in T
  OBVIOUS
<1>2. T \in SUBSET Nat /\ T # {}
  <2>1. T \in SUBSET Nat
    OBVIOUS
  <2>2. PICK y \in S : TRUE
    OBVIOUS
  <2> HIDE DEF T
  <2> QED
    BY <1>1, <2>1, <2>2
<1>3. PICK t \in T : \A m \in T : t <= m
  BY <1>2, Least
<1>4. n - t \in S /\ \A y \in S : y <= n - t
  <2>1. n - t \in S /\ t \in 0..n
    OBVIOUS
  <2>2. \A y \in S : t <= n - y /\ y \in 1..n
    BY <1>1, <1>3
  <2> QED
    BY <2>1, <2>2
<1>5. S \in SUBSET Int
  OBVIOUS
<1> HIDE DEF T
<1> QED
  BY <1>4, <1>5, MaxIs
-----------------------------------------------------------------------------
(* The stack of StackOf, line by line.                                      *)
Layer(lines, path, s, k) ==
  IF k \in path THEN UpdateStack(s, lines, k).stack ELSE s

Chain(g, lines, path, n) ==
  g[0] = <<>> /\ \A k \in 1..n : g[k] = Layer(lines, path, g[k - 1], k)

(* StackOf is what a fold should be: one line after the other.              *)
LEMMA StackIsChain ==
  ASSUME NEW lines, NEW path, NEW n \in Nat
  PROVE  \E g : Chain(g, lines, path, n) /\ StackOf(lines, path, n) = g[n]
<1> DEFINE Value(h, S) == IF S = {} THEN <<>>
                          ELSE LET x == Max(S) IN Layer(lines, path, h[S \ {x}], x)
           Steps(h, m) == h = [S \in SUBSET (1..m) |-> Value(h, S)]
           T == {m \in 0..n : ~\E h : Steps(h, m)}
           id == [k \in 1..n |-> k]
           iter == CHOOSE h : h = [S \in SUBSET DOMAIN id |->
                              IF S = {} THEN <<>>
                              ELSE LET x == Max(S) IN
                                   IF id[x] \in path THEN UpdateStack(h[S \ {x}], lines, id[x]).stack
                                   ELSE h[S \ {x}]]
           IsIt(h) == \A S \in SUBSET (1..n) : h[S] = Value(h, S)
<1>1. StackOf(lines, path, n) = iter[DOMAIN id]
  BY Zenon DEF StackOf, FoldLeft, MapThenFoldSet
<1>2. T = {}
  <2> SUFFICES ASSUME T # {} PROVE FALSE
    OBVIOUS
  <2>1. T \in SUBSET Nat
    <3>1. 0..n \in SUBSET Nat
      OBVIOUS
    <3> QED
      BY <3>1
  <2>2. PICK m \in T : \A k \in T : m <= k
    BY <2>1, Least
  <2>3. m \in 0..n /\ ~\E h : Steps(h, m)
    OBVIOUS
  <2>4. CASE m = 0
    <3> DEFINE h == [S \in SUBSET (1..0) |-> <<>>]
    <3>1. SUBSET (1..0) = {{}}
      OBVIOUS
    <3>2. \A S \in SUBSET (1..0) : h[S] = Value(h, S)
      BY <3>1
    <3>3. h = [S \in SUBSET (1..0) |-> h[S]]
      OBVIOUS
    <3>4. Steps(h, 0)
      <4> HIDE DEF h, Value
      <4> QED
        BY <3>2, <3>3
    <3> HIDE DEF h, Steps
    <3> QED
      BY <2>3, <2>4, <3>4
  <2>5. CASE m # 0
    <3>1. m \in Nat \ {0} /\ m - 1 \in 0..n /\ ~(m <= m - 1)
      BY <2>3, <2>5
    <3>2. PICK h : Steps(h, m - 1)
      BY <2>2, <3>1
    <3> DEFINE g == [S \in SUBSET (1..m) |->
                      IF m \in S THEN Layer(lines, path, h[S \ {m}], m) ELSE h[S]]
    <3>3. ASSUME NEW S \in SUBSET (1..m) PROVE g[S] = Value(g, S)
      <4>1. CASE m \in S
        <5>1. Max(S) = m
          <6>1. S \in SUBSET Int /\ \A y \in S : y <= m
            BY <3>1
          <6> QED
            BY <4>1, <6>1, MaxIs
        <5>2. S \ {m} \in SUBSET (1..m) /\ m \notin S \ {m}
          OBVIOUS
        <5>3. g[S \ {m}] = h[S \ {m}]
          BY <5>2
        <5> QED
          BY <4>1, <5>1, <5>3
      <4>2. CASE m \notin S
        <5>1. S \in SUBSET (1..(m - 1)) /\ g[S] = h[S]
          BY <3>1, <4>2
        <5>2. h[S] = Value(h, S)
          <6> HIDE DEF Value
          <6> QED
            BY <3>2, <5>1
        <5>3. S # {} => g[S \ {Max(S)}] = h[S \ {Max(S)}]
          <6>1. S \ {Max(S)} \in SUBSET (1..m) /\ m \notin S \ {Max(S)}
            BY <4>2
          <6> QED
            BY <6>1
        <5> HIDE DEF g
        <5> QED
          BY <5>1, <5>2, <5>3
      <4> QED
        BY <4>1, <4>2
    <3>4. g = [S \in SUBSET (1..m) |-> g[S]]
      OBVIOUS
    <3>5. Steps(g, m)
      <4> HIDE DEF g, Value
      <4> QED
        BY <3>3, <3>4
    <3> HIDE DEF g, Steps
    <3> QED
      BY <2>3, <3>5
  <2> QED
    BY <2>4, <2>5
<1>3. PICK h : Steps(h, n)
  <2>1. n \in 0..n
    OBVIOUS
  <2> HIDE DEF Steps
  <2> QED
    BY <1>2, <2>1
<1>4. \A S \in SUBSET (1..n) : iter[S] = Value(iter, S)
  <2> DEFINE Full(h1, S) == IF S = {} THEN <<>>
                            ELSE LET x == Max(S) IN
                                 IF id[x] \in path THEN UpdateStack(h1[S \ {x}], lines, id[x]).stack
                                 ELSE h1[S \ {x}]
  <2>1. DOMAIN id = 1..n
    OBVIOUS
  <2>2. ASSUME NEW h1, NEW S \in SUBSET (1..n) PROVE Full(h1, S) = Value(h1, S)
    <3>1. CASE S # {}
      <4>1. Max(S) \in S
        BY <3>1, Greatest
      <4>2. id[Max(S)] = Max(S)
        BY <4>1
      <4> QED
        BY <3>1, <4>2 DEF Layer
    <3>2. CASE S = {}
      BY <3>2
    <3> QED
      BY <3>1, <3>2
  <2>3. h = [S \in SUBSET DOMAIN id |-> Full(h, S)]
    <3> HIDE DEF Full, Value, id
    <3>1. h = [S \in SUBSET (1..n) |-> Value(h, S)]
      BY <1>3
    <3>2. [S \in SUBSET (1..n) |-> Value(h, S)] = [S \in SUBSET (1..n) |-> Full(h, S)]
      BY <2>2
    <3> QED
      BY <2>1, <3>1, <3>2
  <2>4. iter = [S \in SUBSET DOMAIN id |-> Full(iter, S)]
    <3>1. iter = CHOOSE h1 : h1 = [S \in SUBSET DOMAIN id |-> Full(h1, S)]
      BY Zenon
    <3> HIDE DEF iter, Full, id
    <3> QED
      BY <2>3, <3>1
  <2> HIDE DEF iter, Full, id, Value
  <2>5. iter = [S \in SUBSET (1..n) |-> Full(iter, S)]
    BY <2>1, <2>4
  <2> QED
    BY <2>2, <2>5
<1> HIDE DEF iter
<1> DEFINE g == [m \in 0..n |-> iter[1..m]]
<1>5. g[0] = <<>>
  <2>1. 1..0 = {} /\ 0 \in 0..n
    OBVIOUS
  <2> QED
    BY <1>4, <2>1
<1>6. ASSUME NEW k \in 1..n PROVE g[k] = Layer(lines, path, g[k - 1], k)
  <2>1. 1..k \in SUBSET (1..n) /\ k \in 1..k /\ k \in 0..n /\ k - 1 \in 0..n
    OBVIOUS
  <2>2. (1..k) \ {k} = 1..(k - 1)
    OBVIOUS
  <2>3. Max(1..k) = k
    <3>1. 1..k \in SUBSET Int /\ \A y \in 1..k : y <= k
      OBVIOUS
    <3> QED
      BY <2>1, <3>1, MaxIs
  <2>4. iter[1..k] = Value(iter, 1..k)
    BY <1>4, <2>1
  <2> QED
    BY <2>1, <2>2, <2>3, <2>4
<1>7. StackOf(lines, path, n) = g[n]
  <2>1. DOMAIN id = 1..n /\ n \in 0..n
    OBVIOUS
  <2> QED
    BY <1>1, <2>1
<1> QED
  BY <1>5, <1>6, <1>7 DEF Chain

LEMMA SameChain ==
  ASSUME NEW lines, NEW P, NEW Q, NEW n \in Nat, NEW m \in Nat, NEW g, NEW h,
         Chain(g, lines, P, n), Chain(h, lines, Q, m),
         NEW c \in 0..n, c <= m, \A k \in 1..c : k \in P <=> k \in Q
  PROVE  g[c] = h[c]
<1> DEFINE T == {k \in 0..c : g[k] # h[k]}
<1> SUFFICES ASSUME T # {} PROVE FALSE
  <2>1. c \in 0..c
    OBVIOUS
  <2> QED
    BY <2>1
<1>1. T \in SUBSET Nat
  <2>1. 0..c \in SUBSET Nat
    OBVIOUS
  <2> QED
    BY <2>1
<1>2. PICK k \in T : \A i \in T : k <= i
  BY <1>1, Least
<1>3. k \in 0..c /\ g[k] # h[k] /\ g[0] = h[0]
  BY DEF Chain
<1>4. k \in 1..c /\ k \in 1..n /\ k \in 1..m /\ k - 1 \in 0..c /\ ~(k <= k - 1)
  BY <1>3
<1>5. g[k - 1] = h[k - 1]
  BY <1>2, <1>4
<1>6. g[k] = Layer(lines, P, g[k - 1], k) /\ h[k] = Layer(lines, Q, h[k - 1], k)
  BY <1>4 DEF Chain
<1>7. Layer(lines, P, g[k - 1], k) = Layer(lines, Q, g[k - 1], k)
  BY <1>4 DEF Layer
<1> QED
  BY <1>3, <1>5, <1>6, <1>7

(* One line more; the same lines; and lines that are not on the path.       *)
LEMMA Layers ==
  ASSUME NEW lines, NEW P, NEW n \in Nat
  PROVE  StackOf(lines, P, n + 1) = Layer(lines, P, StackOf(lines, P, n), n + 1)
<1>1. PICK g : Chain(g, lines, P, n) /\ StackOf(lines, P, n) = g[n]
  BY StackIsChain
<1>2. PICK h : Chain(h, lines, P, n + 1) /\ StackOf(lines, P, n + 1) = h[n + 1]
  <2>1. n + 1 \in Nat
    OBVIOUS
  <2> QED
    BY <2>1, StackIsChain
<1>3. g[n] = h[n]
  <2>1. n \in 0..n /\ n <= n + 1 /\ n + 1 \in Nat
    OBVIOUS
  <2> QED
    BY <1>1, <1>2, <2>1, SameChain
<1>4. h[n + 1] = Layer(lines, P, h[(n + 1) - 1], n + 1)
  <2>1. n + 1 \in 1..(n + 1)
    OBVIOUS
  <2> QED
    BY <1>2, <2>1 DEF Chain
<1>5. (n + 1) - 1 = n
  OBVIOUS
<1> QED
  BY <1>1, <1>2, <1>3, <1>4, <1>5

LEMMA NoLayer ==
  ASSUME NEW lines, NEW P
  PROVE  StackOf(lines, P, 0) = <<>>
<1>1. PICK g : Chain(g, lines, P, 0) /\ StackOf(lines, P, 0) = g[0]
  BY StackIsChain
<1> QED
  BY <1>1 DEF Chain

LEMMA SameLayers ==
  ASSUME NEW lines, NEW P, NEW Q, NEW n \in Nat, \A k \in 1..n : k \in P <=> k \in Q
  PROVE  StackOf(lines, P, n) = StackOf(lines, Q, n)
<1>1. PICK g : Chain(g, lines, P, n) /\ StackOf(lines, P, n) = g[n]
  BY StackIsChain
<1>2. PICK h : Chain(h, lines, Q, n) /\ StackOf(lines, Q, n) = h[n]
  BY StackIsChain
<1>3. n \in 0..n /\ n <= n
  OBVIOUS
<1> QED
  BY <1>1, <1>2, <1>3, SameChain

LEMMA OtherLayers ==
  ASSUME NEW lines, NEW P, NEW n \in Nat, NEW m \in 0..n, \A k \in (m + 1)..n : k \notin P
  PROVE  StackOf(lines, P, n) = StackOf(lines, P, m)
<1>1. PICK g : Chain(g, lines, P, n) /\ StackOf(lines, P, n) = g[n]
  BY StackIsChain
<1>2. PICK h : Chain(h, lines, P, m) /\ StackOf(lines, P, m) = h[m]
  BY StackIsChain
<1>3. g[m] = h[m]
  <2>1. m \in Nat /\ m <= m
    OBVIOUS
  <2> QED
    BY <1>1, <1>2, <2>1, SameChain
<1> DEFINE T == {k \in m..n : g[k] # g[m]}
<1>4. T = {}
  <2> SUFFICES ASSUME T # {} PROVE FALSE
    OBVIOUS
  <2>1. T \in SUBSET Nat
    <3>1. m..n \in SUBSET Nat
      OBVIOUS
    <3> QED
      BY <3>1
  <2>2. PICK k \in T : \A i \in T : k <= i
    BY <2>1, Least
  <2>3. k \in m..n /\ g[k] # g[m]
    OBVIOUS
  <2>4. k \in (m + 1)..n /\ k \in 1..n /\ k - 1 \in m..n /\ ~(k <= k - 1)
    BY <2>3
  <2>5. g[k - 1] = g[m]
    BY <2>2, <2>4
  <2>6. g[k] = g[k - 1]
    BY <1>1, <2>4 DEF Chain, Layer
  <2> QED
    BY <2>3, <2>5, <2>6
<1>5. g[n] = g[m]
  <2>1. n \in m..n
    OBVIOUS
  <2> QED
    BY <1>4, <2>1
<1> QED
  BY <1>1, <1>2, <1>3, <1>5
-----------------------------------------------------------------------------
(* The preprocessor's conditionals, one line later.                         *)
TextInv == text \in Seq(Range(text)) /\ line \in 1..(Len(text) + 2)

LEMMA CountGrows ==
  ASSUME NEW a \in Nat, NEW b \in Nat, a <= b + 1, NEW x
  PROVE  /\ PP(a, b, x) \in Nat
         /\ PP(a, b + 1, x) = PP(a, b, x) + (IF text[b + 1].pp = x THEN 1 ELSE 0)
<1> DEFINE S == {k \in a..b : text[k].pp = x}
           T == {k \in a..(b + 1) : text[k].pp = x}
<1>1. IsFiniteSet(S)
  <2>1. IsFiniteSet(a..b)
    BY FS_Interval
  <2>2. S \in SUBSET (a..b)
    OBVIOUS
  <2> QED
    BY <2>1, <2>2, FS_Subset
<1>2. PP(a, b, x) = Cardinality(S) /\ PP(a, b + 1, x) = Cardinality(T)
  BY DEF PP
<1>3. Cardinality(S) \in Nat /\ b + 1 \notin S
  BY <1>1, FS_CardinalityType
<1>4. CASE text[b + 1].pp = x
  <2>1. T = S \cup {b + 1}
    BY <1>4
  <2>2. Cardinality(S \cup {b + 1}) = Cardinality(S) + 1
    BY <1>1, <1>3, FS_AddElement
  <2> QED
    BY <1>2, <1>3, <1>4, <2>1, <2>2
<1>5. CASE text[b + 1].pp # x
  <2>1. T = S
    BY <1>5
  <2> QED
    BY <1>2, <1>3, <1>5, <2>1, SMTT(30)
<1> QED
  BY <1>4, <1>5

LEMMA NoCount ==
  ASSUME NEW a \in Nat, NEW x
  PROVE  PP(a, a - 1, x) = 0
<1>1. {k \in a..(a - 1) : text[k].pp = x} = {}
  OBVIOUS
<1> QED
  BY <1>1, FS_EmptySet DEF PP

(* A conditional has a line unless it is closed before it or there.         *)
Closed(j, m) == PP(j, m, "if") = PP(j, m, "endif")

LEMMA HoldsIs ==
  ASSUME TextInv, NEW j \in Ifs, NEW k \in j..Len(text)
  PROVE  Holds(j, k) <=> \A m \in j..k : ~Closed(j, m)
<1> DEFINE ends == {m \in j..Len(text) : PP(j, m, "if") = PP(j, m, "endif")}
<1>1. EndOf(j) = IF ends = {} THEN Len(text) + 1 ELSE Min(ends)
  BY DEF EndOf
<1>2. j \in 1..Len(text) /\ Len(text) \in Nat
  BY LenProperties DEF Ifs, TextInv
<1>3. Holds(j, k) <=> k < EndOf(j)
  BY <1>2 DEF Holds
<1>4. \A m \in j..k : Closed(j, m) <=> m \in ends
  BY <1>2 DEF Closed
<1>5. CASE ends = {}
  BY <1>1, <1>2, <1>3, <1>4, <1>5
<1>6. CASE ends # {}
  <2>1. ends \in SUBSET Nat
    <3>1. j..Len(text) \in SUBSET Nat
      BY <1>2
    <3> QED
      BY <3>1
  <2>2. PICK e \in ends : \A m \in ends : e <= m
    BY <1>6, <2>1, Least
  <2>3. e \in Int /\ ends \in SUBSET Int /\ \A m \in ends : m \in Int
    BY <2>1, <2>2
  <2> HIDE DEF ends
  <2>4. Min(ends) = e
    BY <2>2, <2>3, MinIs
  <2>5. e \in j..Len(text)
    BY <2>2 DEF ends
  <2> QED
    BY <1>1, <1>2, <1>3, <1>4, <1>6, <2>2, <2>3, <2>4, <2>5
<1> QED
  BY <1>5, <1>6

LEMMA IfsAre ==
  ASSUME TextInv
  PROVE  Len(text) \in Nat /\ DOMAIN text = 1..Len(text) /\ Ifs \in SUBSET Nat
<1>1. Len(text) \in Nat /\ DOMAIN text = 1..Len(text)
  BY LenProperties DEF TextInv
<1>2. Ifs \in SUBSET (1..Len(text))
  BY <1>1 DEF Ifs
<1> QED
  BY <1>1, <1>2

(* One line later a conditional has the line too unless it is closed there. *)
LEMMA HoldsNext ==
  ASSUME TextInv, NEW n \in Nat, n + 1 <= Len(text), NEW i \in Ifs
  PROVE  /\ i <= n => (Holds(i, n + 1) <=> Holds(i, n) /\ ~Closed(i, n + 1))
         /\ i > n => ~Holds(i, n)
         /\ i > n /\ Holds(i, n + 1) => i = n + 1
         /\ Holds(i, n) => i \in 1..n
<1>1. i \in 1..Len(text) /\ Len(text) \in Nat
  BY LenProperties DEF Ifs, TextInv
<1>2. i > n => ~Holds(i, n) /\ (Holds(i, n + 1) => i = n + 1)
  BY <1>1 DEF Holds
<1>3. ASSUME i <= n
      PROVE  Holds(i, n + 1) <=> Holds(i, n) /\ ~Closed(i, n + 1)
  <2>1. n \in i..Len(text) /\ n + 1 \in i..Len(text)
    BY <1>1, <1>3
  <2>2. /\ Holds(i, n) <=> \A m \in i..n : ~Closed(i, m)
        /\ Holds(i, n + 1) <=> \A m \in i..(n + 1) : ~Closed(i, m)
    BY <2>1, HoldsIs
  <2>3. \A m \in i..(n + 1) : m \in i..n \/ m = n + 1
    BY <1>1
  <2>4. \A m \in i..n : m \in i..(n + 1)
    BY <1>1
  <2>5. n + 1 \in i..(n + 1)
    BY <2>1, <1>1
  <2> QED
    BY <2>2, <2>3, <2>4, <2>5
<1> QED
  BY <1>1, <1>2, <1>3

LEMMA HoldsFirst ==
  ASSUME TextInv, NEW j \in Ifs
  PROVE  Holds(j, j) /\ PP(j, j, "if") = 1 /\ PP(j, j, "endif") = 0
<1>1. j \in 1..Len(text) /\ Len(text) \in Nat /\ text[j].pp = "if" /\ j \in j..Len(text)
  BY LenProperties DEF Ifs, TextInv
<1>2. PP(j, j - 1, "if") = 0 /\ PP(j, j - 1, "endif") = 0
  BY <1>1, NoCount
<1>3. j - 1 \in Nat /\ (j - 1) + 1 = j
  BY <1>1
<1>4. PP(j, j, "if") = 1 /\ PP(j, j, "endif") = 0
  <2>1. j \in Nat /\ j <= (j - 1) + 1
    BY <1>3
  <2>2. \A x : PP(j, (j - 1) + 1, x) =
                 PP(j, j - 1, x) + (IF text[(j - 1) + 1].pp = x THEN 1 ELSE 0)
    BY <1>3, <2>1, CountGrows
  <2>3. /\ PP(j, j, "if") = PP(j, j - 1, "if") + 1
        /\ PP(j, j, "endif") = PP(j, j - 1, "endif") + 0
    BY <1>1, <1>3, <2>2
  <2> QED
    BY <1>2, <2>3
<1>5. \A m \in j..j : ~Closed(j, m)
  BY <1>4 DEF Closed
<1> QED
  BY <1>1, <1>4, <1>5, HoldsIs

LEMMA BranchGrows ==
  ASSUME NEW j \in Nat, NEW k \in Nat, j <= k + 1
  PROVE  /\ Branch(j, k) \in Nat
         /\ Branch(j, k + 1) = Branch(j, k)
              + (IF text[k + 1].pp = "else" /\ Innermost(j, k + 1) THEN 1 ELSE 0)
<1> DEFINE Is(e) == text[e].pp = "else" /\ Innermost(j, e)
           S == {e \in j..k : Is(e)}
           T == {e \in j..(k + 1) : Is(e)}
<1>1. IsFiniteSet(S)
  <2>1. IsFiniteSet(j..k)
    BY FS_Interval
  <2>2. S \in SUBSET (j..k)
    OBVIOUS
  <2> QED
    BY <2>1, <2>2, FS_Subset
<1>2. Branch(j, k) = Cardinality(S) /\ Branch(j, k + 1) = Cardinality(T)
  BY DEF Branch
<1>3. Cardinality(S) \in Nat /\ k + 1 \notin S
  BY <1>1, FS_CardinalityType
<1>4. CASE Is(k + 1)
  <2>1. T = S \cup {k + 1}
    <3> HIDE DEF Is
    <3> QED
      BY <1>4
  <2>2. Cardinality(S \cup {k + 1}) = Cardinality(S) + 1
    BY <1>1, <1>3, FS_AddElement
  <2> QED
    BY <1>2, <1>3, <1>4, <2>1, <2>2
<1>5. CASE ~Is(k + 1)
  <2>1. T = S
    <3> HIDE DEF Is
    <3> QED
      BY <1>5
  <2>2. (IF text[k + 1].pp = "else" /\ Innermost(j, k + 1) THEN 1 ELSE 0) = 0
    BY <1>5
  <2> HIDE DEF S, T
  <2> QED
    BY <1>2, <1>3, <2>1, <2>2
<1> QED
  BY <1>4, <1>5

LEMMA NoBranch ==
  ASSUME NEW j \in Nat, NEW k \in Nat, j <= k + 1,
         text[k + 1].pp # "else" \/ ~Innermost(j, k + 1)
  PROVE  Branch(j, k + 1) = Branch(j, k)
<1>1. (IF text[k + 1].pp = "else" /\ Innermost(j, k + 1) THEN 1 ELSE 0) = 0
  OBVIOUS
<1>2. Branch(j, k) \in Nat /\ Branch(j, k + 1) = Branch(j, k) + 0
  BY <1>1, BranchGrows
<1> QED
  BY <1>2

LEMMA BranchRises ==
  ASSUME NEW j \in Nat, NEW k \in Nat, NEW n \in Nat, k <= n
  PROVE  Branch(j, k) \in Nat /\ Branch(j, n) \in Nat /\ Branch(j, k) <= Branch(j, n)
<1> DEFINE Is(e) == text[e].pp = "else" /\ Innermost(j, e)
           S == {e \in j..k : Is(e)}
           T == {e \in j..n : Is(e)}
<1>1. IsFiniteSet(T)
  <2>1. IsFiniteSet(j..n)
    BY FS_Interval
  <2>2. T \in SUBSET (j..n)
    OBVIOUS
  <2> QED
    BY <2>1, <2>2, FS_Subset
<1>2. S \in SUBSET T
  <2> HIDE DEF Is
  <2> QED
    OBVIOUS
<1>3. Branch(j, k) = Cardinality(S) /\ Branch(j, n) = Cardinality(T)
  BY DEF Branch
<1> HIDE DEF S, T
<1>4. IsFiniteSet(S) /\ Cardinality(S) <= Cardinality(T)
  BY <1>1, <1>2, FS_Subset
<1> QED
  BY <1>1, <1>3, <1>4, FS_CardinalityType
-----------------------------------------------------------------------------
(* The path as it would be if conditional j, and all in it, were over.      *)
PathBut(j, n) ==
  {k \in 1..n : \A i \in Ifs :
     Holds(i, k) => Branch(i, k) = IF Holds(i, n) /\ i < j THEN Branch(i, n) ELSE 0}

(* What was kept of a conditional.                                          *)
BranchesAt(j, top, n) ==
  /\ DOMAIN top = {"beforeIf", "beforeElse", "seenElse"}
  /\ top.beforeIf = StackOf(text, Path(n), j - 1)
  /\ top.seenElse <=> Branch(j, n) > 0
  /\ top.seenElse => top.beforeElse = StackOf(text, PathBut(j, n), n)

(* Of the conditionals that have line n, from without, o are the lines.     *)
OpenAs(o, n) ==
  /\ \A a \in DOMAIN o : /\ o[a] \in Ifs /\ Holds(o[a], n)
                         /\ PP(o[a], n, "if") - PP(o[a], n, "endif") = Len(o) - a + 1
  /\ \A a, b \in DOMAIN o : a < b => o[a] < o[b]
  /\ \A j \in Ifs : Holds(j, n) => \E a \in DOMAIN o : o[a] = j

IsSeq(s) == \E S : s \in Seq(S)

PPIs(pp, n) ==
  /\ IsSeq(pp)
  /\ \E o \in Seq(Nat) : /\ Len(o) = Len(pp) /\ OpenAs(o, n)
                         /\ \A a \in DOMAIN o : BranchesAt(o[a], pp[a], n)

NestAt(st, n) ==
  /\ st = [stack |-> st.stack, pp |-> st.pp]
  /\ st.stack = StackOf(text, Path(n), n) /\ PPIs(st.pp, n)

(* What was kept of a conditional stays right if nothing happens to it and  *)
(* to those around it.                                                      *)
LEMMA BranchesKept ==
  ASSUME TextInv, NEW n \in Nat, NEW j \in 1..n, NEW top, BranchesAt(j, top, n), j \in Ifs,
         Holds(j, n + 1), Branch(j, n + 1) = Branch(j, n),
         \A i \in Ifs : i < j =>
           /\ Holds(i, n + 1) <=> Holds(i, n)
           /\ Holds(i, n) => Branch(i, n + 1) = Branch(i, n)
  PROVE  BranchesAt(j, top, n + 1)
<1>1. \A i \in Ifs : \A k : Holds(i, k) => i <= k
  BY DEF Holds
<1>2. Ifs \in SUBSET Int
  BY IfsAre
<1>3. top.beforeIf = StackOf(text, Path(n + 1), j - 1)
  <2>1. \A k \in 1..(j - 1) : k \in Path(n + 1) <=> k \in Path(n)
    <3> SUFFICES ASSUME NEW k \in 1..(j - 1) PROVE k \in Path(n + 1) <=> k \in Path(n)
      OBVIOUS
    <3>1. k \in 1..n /\ k \in 1..(n + 1) /\ k < j
      OBVIOUS
    <3>2. \A i \in Ifs : Holds(i, k) => i < j
      BY <1>1, <1>2, <3>1
    <3> QED
      BY <3>1, <3>2 DEF Path
  <2>2. StackOf(text, Path(n + 1), j - 1) = StackOf(text, Path(n), j - 1)
    <3>1. j - 1 \in Nat
      OBVIOUS
    <3> QED
      BY <2>1, <3>1, SameLayers
  <2> QED
    BY <2>2 DEF BranchesAt
<1>4. ASSUME top.seenElse
      PROVE  top.beforeElse = StackOf(text, PathBut(j, n + 1), n + 1)
  <2>1. n + 1 \notin PathBut(j, n + 1)
    <3>1. Branch(j, n + 1) > 0
      BY <1>4 DEF BranchesAt
    <3>2. Branch(j, n + 1) # 0 /\ ~(j < j)
      BY <3>1
    <3> QED
      BY <3>2 DEF PathBut
  <2>2. \A k \in 1..n : k \in PathBut(j, n + 1) <=> k \in PathBut(j, n)
    <3>1. \A i \in Ifs : (IF Holds(i, n + 1) /\ i < j THEN Branch(i, n + 1) ELSE 0)
                       = (IF Holds(i, n) /\ i < j THEN Branch(i, n) ELSE 0)
      OBVIOUS
    <3>2. \A k \in 1..n : k \in 1..(n + 1)
      OBVIOUS
    <3> QED
      BY <3>1, <3>2 DEF PathBut
  <2>3. StackOf(text, PathBut(j, n + 1), n + 1) = StackOf(text, PathBut(j, n + 1), n)
    <3>1. n + 1 \in Nat /\ n \in 0..(n + 1) /\ \A k \in (n + 1)..(n + 1) : k = n + 1
      OBVIOUS
    <3> QED
      BY <2>1, <3>1, OtherLayers
  <2>4. StackOf(text, PathBut(j, n + 1), n) = StackOf(text, PathBut(j, n), n)
    BY <2>2, SameLayers
  <2> QED
    BY <1>4, <2>3, <2>4 DEF BranchesAt
<1> QED
  BY <1>3, <1>4 DEF BranchesAt

LEMMA SeqOps ==
  ASSUME NEW s, IsSeq(s)
  PROVE  Len(s) \in Nat /\ DOMAIN s = 1..Len(s) /\ (s = <<>> <=> Len(s) = 0)
BY LenProperties, EmptySeq DEF IsSeq

LEMMA AppendOps ==
  ASSUME NEW s, IsSeq(s), NEW x
  PROVE  /\ IsSeq(Append(s, x)) /\ Len(Append(s, x)) = Len(s) + 1
         /\ DOMAIN Append(s, x) = 1..(Len(s) + 1)
         /\ Append(s, x)[Len(s) + 1] = x
         /\ \A i \in 1..Len(s) : Append(s, x)[i] = s[i]
<1>1. PICK S : s \in Seq(S)
  BY DEF IsSeq
<1> DEFINE R == S \cup {x}
<1>2. s \in Seq(R) /\ x \in R
  BY <1>1, SeqMonotonic
<1> HIDE DEF R
<1>3. /\ Append(s, x) \in Seq(R) /\ Len(Append(s, x)) = Len(s) + 1
      /\ Append(s, x)[Len(s) + 1] = x
      /\ \A i \in 1..Len(s) : Append(s, x)[i] = s[i]
  BY <1>2, AppendProperties
<1>4. DOMAIN Append(s, x) = 1..(Len(s) + 1)
  BY <1>3, LenProperties
<1> QED
  BY <1>3, <1>4 DEF IsSeq

LEMMA FrontOps ==
  ASSUME NEW s, IsSeq(s), s # <<>>
  PROVE  /\ IsSeq(Front(s)) /\ Len(Front(s)) = Len(s) - 1
         /\ DOMAIN Front(s) = 1..(Len(s) - 1)
         /\ \A i \in 1..(Len(s) - 1) : Front(s)[i] = s[i]
         /\ Last(s) = s[Len(s)]
<1>1. PICK S : s \in Seq(S)
  BY DEF IsSeq
<1>2. Len(s) \in Nat /\ Len(s) # 0
  BY SeqOps
<1>3. \A i \in 1..(Len(s) - 1) : s[i] \in S
  BY <1>1, <1>2, ElementOfSeq
<1> DEFINE m == Len(s) - 1
<1>4. m \in Nat /\ m \in Int
  BY <1>2
<1>5. Front(s) = SubSeq(s, 1, m)
  BY DEF Front
<1>6. \A i \in 1..m : s[i] \in S
  BY <1>3
<1> HIDE DEF m
<1>7. /\ SubSeq(s, 1, m) \in Seq(S)
      /\ Len(SubSeq(s, 1, m)) = IF 1 <= m THEN m - 1 + 1 ELSE 0
      /\ \A i \in 1..(m - 1 + 1) : SubSeq(s, 1, m)[i] = s[1 + i - 1]
  BY <1>4, <1>6, SubSeqProperties
<1>8. Len(Front(s)) = m /\ \A i \in 1..m : Front(s)[i] = s[i]
  BY <1>4, <1>5, <1>7
<1>9. Front(s) \in Seq(S) /\ DOMAIN Front(s) = 1..m
  BY <1>5, <1>7, <1>8, LenProperties
<1> QED
  BY <1>8, <1>9 DEF IsSeq, Last, m

(* A line is on its own path, and another's where the conditionals agree.   *)
LEMMA OnItsPath ==
  ASSUME NEW n \in Nat
  PROVE  n + 1 \in Path(n + 1)
BY DEF Path

LEMMA SamePath ==
  ASSUME TextInv, NEW n \in Nat, n + 1 <= Len(text),
         \A i \in Ifs : /\ Holds(i, n + 1) <=> Holds(i, n) \/ i = n + 1
                        /\ Holds(i, n) => Branch(i, n + 1) = Branch(i, n)
  PROVE  StackOf(text, Path(n + 1), n) = StackOf(text, Path(n), n)
<1>1. \A i \in Ifs, k \in 1..n : Holds(i, k) => i # n + 1
  BY IfsAre DEF Holds
<1>2. \A k \in 1..n : k \in Path(n + 1) <=> k \in Path(n)
  <2>1. \A i \in Ifs : i # n + 1 =>
          (IF Holds(i, n + 1) THEN Branch(i, n + 1) ELSE 0)
            = (IF Holds(i, n) THEN Branch(i, n) ELSE 0)
    OBVIOUS
  <2>2. \A k \in 1..n : k \in 1..(n + 1)
    OBVIOUS
  <2> QED
    BY <1>1, <2>1, <2>2 DEF Path
<1> QED
  BY <1>2, SameLayers

(* The counts of a conditional that has the line before.                    *)
LEMMA Deeper ==
  ASSUME TextInv, NEW n \in Nat, NEW i \in Ifs, i <= n, NEW x
  PROVE  /\ PP(i, n, x) \in Nat /\ PP(i, n + 1, x) \in Nat
         /\ PP(i, n + 1, x) = PP(i, n, x) + (IF text[n + 1].pp = x THEN 1 ELSE 0)
         /\ text[n + 1].pp # x => PP(i, n + 1, x) = PP(i, n, x)
<1>1. i \in Nat /\ i <= n + 1 /\ i <= (n + 1) + 1 /\ n + 1 \in Nat
  BY IfsAre
<1>2. /\ PP(i, n, x) \in Nat
      /\ PP(i, n + 1, x) = PP(i, n, x) + (IF text[n + 1].pp = x THEN 1 ELSE 0)
  BY <1>1, CountGrows
<1>3. PP(i, n + 1, x) \in Nat
  BY <1>1, CountGrows
<1>4. text[n + 1].pp # x => PP(i, n + 1, x) = PP(i, n, x)
  <2>1. text[n + 1].pp # x => PP(i, n + 1, x) = PP(i, n, x) + 0
    BY <1>2
  <2> QED
    BY <1>2, <2>1
<1> QED
  BY <1>2, <1>3, <1>4

(* No directive, or one without a conditional.                              *)
LEMMA OtherLine ==
  ASSUME TextInv, NEW n \in Nat, n + 1 <= Len(text), NEW st, NestAt(st, n),
         \/ text[n + 1].pp \notin {"if", "else", "endif"}
         \/ text[n + 1].pp # "if" /\ st.pp = <<>>
  PROVE  st.stack = StackOf(text, Path(n + 1), n) /\ PPIs(st.pp, n + 1)
<1>1. PICK o \in Seq(Nat) : /\ Len(o) = Len(st.pp) /\ OpenAs(o, n)
                            /\ \A a \in DOMAIN o : BranchesAt(o[a], st.pp[a], n)
  BY DEF NestAt, PPIs
<1>2. DOMAIN o = 1..Len(o) /\ Len(o) \in Nat
  BY LenProperties
<1>3. st.pp = <<>> => DOMAIN o = {}
  BY <1>1, <1>2, SeqOps DEF NestAt, PPIs
<1>4. n + 1 \notin Ifs
  BY DEF Ifs
<1>5. ASSUME NEW i \in Ifs
      PROVE  /\ Holds(i, n + 1) <=> Holds(i, n)
             /\ Holds(i, n) => Branch(i, n + 1) = Branch(i, n)
  <2>1. CASE st.pp = <<>>
    <3>1. ~Holds(i, n)
      BY <1>1, <1>3, <2>1 DEF OpenAs
    <3>2. ~Holds(i, n + 1)
      BY <3>1, <1>4, HoldsNext, IfsAre
    <3> QED
      BY <3>1, <3>2
  <2>2. CASE text[n + 1].pp \notin {"if", "else", "endif"}
    <3>1. ASSUME Holds(i, n)
          PROVE  Holds(i, n + 1) /\ Branch(i, n + 1) = Branch(i, n)
      <4>1. i \in 1..n
        BY <3>1, HoldsNext
      <4>2. ~Closed(i, n)
        <5>1. n \in i..Len(text)
          BY <4>1, IfsAre
        <5>2. n \in i..n
          BY <4>1
        <5> QED
          BY <3>1, <5>1, <5>2, HoldsIs
      <4>3. ~Closed(i, n + 1)
        <5>1. i <= n /\ text[n + 1].pp # "if" /\ text[n + 1].pp # "endif"
          BY <2>2, <4>1
        <5>2. /\ PP(i, n + 1, "if") = PP(i, n, "if")
              /\ PP(i, n + 1, "endif") = PP(i, n, "endif")
          BY <5>1, Deeper
        <5> QED
          BY <4>2, <5>2 DEF Closed
      <4>4. Branch(i, n + 1) = Branch(i, n)
        <5>1. i \in Nat /\ i <= n + 1
          BY <4>1
        <5>2. text[n + 1].pp # "else"
          BY <2>2
        <5> QED
          BY <5>1, <5>2, NoBranch
      <4> QED
        BY <3>1, <4>1, <4>3, <4>4, HoldsNext
    <3>2. Holds(i, n + 1) => Holds(i, n)
      BY <1>4, HoldsNext, IfsAre
    <3> QED
      BY <3>1, <3>2
  <2> QED
    BY <2>1, <2>2
<1>6. st.stack = StackOf(text, Path(n + 1), n)
  BY <1>4, <1>5, SamePath DEF NestAt
<1>7. OpenAs(o, n + 1)
  <2>1. ASSUME NEW a \in DOMAIN o
        PROVE  /\ o[a] \in Ifs /\ Holds(o[a], n + 1)
               /\ PP(o[a], n + 1, "if") - PP(o[a], n + 1, "endif") = Len(o) - a + 1
    <3>1. /\ o[a] \in Ifs /\ Holds(o[a], n)
          /\ PP(o[a], n, "if") - PP(o[a], n, "endif") = Len(o) - a + 1
      BY <1>1 DEF OpenAs
    <3>2. text[n + 1].pp # "if" /\ text[n + 1].pp # "endif"
      BY <1>3
    <3>3. o[a] <= n
      BY <3>1, HoldsNext
    <3>4. /\ PP(o[a], n + 1, "if") = PP(o[a], n, "if")
          /\ PP(o[a], n + 1, "endif") = PP(o[a], n, "endif")
      BY <3>1, <3>2, <3>3, Deeper, SMTT(30)
    <3> QED
      BY <1>5, <3>1, <3>4
  <2> QED
    BY <1>1, <1>5, <2>1 DEF OpenAs
<1>8. ASSUME NEW a \in DOMAIN o PROVE BranchesAt(o[a], st.pp[a], n + 1)
  <2>1. /\ o[a] \in Ifs /\ Holds(o[a], n) /\ BranchesAt(o[a], st.pp[a], n)
    BY <1>1 DEF OpenAs
  <2>2. o[a] \in 1..n
    BY <2>1, HoldsNext
  <2> QED
    BY <1>5, <2>1, <2>2, BranchesKept
<1> QED
  BY <1>1, <1>6, <1>7, <1>8 DEF NestAt, PPIs

(* The conditionals that have a line, one by one.                           *)
LEMMA OpenLines ==
  ASSUME TextInv, NEW n \in Nat, n + 1 <= Len(text), NEW o \in Seq(Nat), OpenAs(o, n)
  PROVE  /\ DOMAIN o = 1..Len(o) /\ Len(o) \in Nat
         /\ \A a \in DOMAIN o :
              /\ o[a] \in Ifs /\ Holds(o[a], n) /\ o[a] \in 1..n
              /\ LET change == (IF text[n + 1].pp = "if" THEN 1 ELSE 0)
                               - (IF text[n + 1].pp = "endif" THEN 1 ELSE 0)
                     depth == PP(o[a], n + 1, "if") - PP(o[a], n + 1, "endif")
                 IN  /\ depth = Len(o) - a + 1 + change
                     /\ Holds(o[a], n + 1) <=> depth # 0
         /\ \A i \in Ifs : i # n + 1 /\ Holds(i, n + 1) => Holds(i, n)
<1>1. DOMAIN o = 1..Len(o) /\ Len(o) \in Nat
  BY LenProperties
<1>2. ASSUME NEW a \in DOMAIN o
      PROVE  /\ o[a] \in Ifs /\ Holds(o[a], n) /\ o[a] \in 1..n
             /\ LET change == (IF text[n + 1].pp = "if" THEN 1 ELSE 0)
                              - (IF text[n + 1].pp = "endif" THEN 1 ELSE 0)
                    depth == PP(o[a], n + 1, "if") - PP(o[a], n + 1, "endif")
                IN  /\ depth = Len(o) - a + 1 + change
                    /\ Holds(o[a], n + 1) <=> depth # 0
  <2>1. /\ o[a] \in Ifs /\ Holds(o[a], n)
        /\ PP(o[a], n, "if") - PP(o[a], n, "endif") = Len(o) - a + 1
    BY DEF OpenAs
  <2>2. o[a] \in 1..n
    BY <2>1, HoldsNext
  <2>3. PICK i, q, r : i = o[a] /\ q = PP(i, n + 1, "if") /\ r = PP(i, n + 1, "endif")
    OBVIOUS
  <2>4. PICK c, d : /\ c = (IF text[n + 1].pp = "if" THEN 1 ELSE 0)
                    /\ d = (IF text[n + 1].pp = "endif" THEN 1 ELSE 0)
    OBVIOUS
  <2>5. /\ q = PP(i, n, "if") + c /\ r = PP(i, n, "endif") + d
        /\ q \in Nat /\ r \in Nat /\ PP(i, n, "if") \in Nat /\ PP(i, n, "endif") \in Nat
    <3>1. i \in Ifs /\ i <= n
      BY <2>1, <2>2, <2>3
    <3>2. /\ PP(i, n, "if") \in Nat /\ PP(i, n + 1, "if") \in Nat
          /\ PP(i, n + 1, "if") = PP(i, n, "if") + (IF text[n + 1].pp = "if" THEN 1 ELSE 0)
      BY <3>1, Deeper
    <3>3. /\ PP(i, n, "endif") \in Nat /\ PP(i, n + 1, "endif") \in Nat
          /\ PP(i, n + 1, "endif")
               = PP(i, n, "endif") + (IF text[n + 1].pp = "endif" THEN 1 ELSE 0)
      BY <3>1, Deeper
    <3> QED
      BY <2>3, <2>4, <3>2, <3>3
  <2>6. q - r = Len(o) - a + 1 + (c - d)
    <3>1. c \in Int /\ d \in Int /\ a \in Int /\ Len(o) \in Int
      BY <1>1, <2>4
    <3>2. PP(i, n, "if") - PP(i, n, "endif") = Len(o) - a + 1
      BY <2>1, <2>3
    <3> QED
      BY <2>5, <3>1, <3>2, SMTT(30)
  <2>7. Holds(i, n + 1) <=> q # r
    BY <2>1, <2>2, <2>3, HoldsNext DEF Closed
  <2>8. q \in Nat /\ r \in Nat
    BY <2>5
  <2>9. q # r <=> q - r # 0
    BY <2>8
  <2> QED
    BY <2>1, <2>2, <2>3, <2>4, <2>6, <2>7, <2>9
<1>3. ASSUME NEW i \in Ifs, i # n + 1, Holds(i, n + 1) PROVE Holds(i, n)
  <2>1. i <= n \/ i > n
    BY IfsAre
  <2> QED
    BY <1>3, <2>1, HoldsNext
<1> QED
  BY <1>1, <1>2, <1>3

LEMMA NoBranches ==
  ASSUME NEW j \in Nat
  PROVE  Branch(j, j - 1) = 0
<1>1. {e \in j..(j - 1) : text[e].pp = "else" /\ Innermost(j, e)} = {}
  OBVIOUS
<1> QED
  BY <1>1, FS_EmptySet DEF Branch

LEMMA IfLine ==
  ASSUME TextInv, NEW n \in Nat, n + 1 <= Len(text), NEW st, NestAt(st, n),
         text[n + 1].pp = "if"
  PROVE  LET top == [beforeIf |-> st.stack, beforeElse |-> <<>>, seenElse |-> FALSE]
         IN  /\ st.stack = StackOf(text, Path(n + 1), n)
             /\ PPIs(Append(st.pp, top), n + 1)
<1> DEFINE l == n + 1
           top == [beforeIf |-> st.stack, beforeElse |-> <<>>, seenElse |-> FALSE]
<1>1. PICK o \in Seq(Nat) : /\ Len(o) = Len(st.pp) /\ OpenAs(o, n)
                            /\ \A a \in DOMAIN o : BranchesAt(o[a], st.pp[a], n)
  BY DEF NestAt, PPIs
<1>2. DOMAIN o = 1..Len(o) /\ Len(o) \in Nat
  BY LenProperties
<1>3. l \in Ifs /\ l \in Nat
  BY IfsAre DEF Ifs
<1>4. ASSUME NEW a \in DOMAIN o
      PROVE  /\ o[a] \in Ifs /\ o[a] \in 1..n /\ Holds(o[a], l)
             /\ PP(o[a], l, "if") - PP(o[a], l, "endif") = Len(o) - a + 2
  <2>1. /\ o[a] \in Ifs /\ o[a] \in 1..n
        /\ PP(o[a], l, "if") - PP(o[a], l, "endif") = Len(o) - a + 1 + (1 - 0)
        /\ Holds(o[a], l) <=> PP(o[a], l, "if") - PP(o[a], l, "endif") # 0
    BY <1>1, OpenLines
  <2>2. Len(o) - a + 1 + (1 - 0) = Len(o) - a + 2 /\ Len(o) - a + 2 # 0
    BY <1>2
  <2> QED
    BY <2>1, <2>2
<1>5. Holds(l, l) /\ PP(l, l, "if") = 1 /\ PP(l, l, "endif") = 0
  BY <1>3, HoldsFirst
<1>6. \A i \in Ifs : Holds(i, l) <=> Holds(i, n) \/ i = l
  <2>1. \A i \in Ifs : Holds(i, n) => Holds(i, l)
    BY <1>1, <1>4 DEF OpenAs
  <2> QED
    BY <1>1, <1>5, <2>1, OpenLines
<1>7. ASSUME NEW i \in Ifs, Holds(i, n) PROVE Branch(i, l) = Branch(i, n)
  <2>1. i \in Nat /\ i <= n + 1
    BY <1>7, HoldsNext, IfsAre
  <2> QED
    BY <2>1, NoBranch
<1>8. st.stack = StackOf(text, Path(l), n)
  BY <1>6, <1>7, SamePath DEF NestAt
<1> DEFINE p == Append(o, l)
           pp == Append(st.pp, top)
<1>9. /\ p \in Seq(Nat) /\ Len(p) = Len(o) + 1 /\ p[Len(o) + 1] = l
      /\ DOMAIN p = 1..(Len(o) + 1) /\ \A a \in 1..Len(o) : p[a] = o[a]
  <2>1. /\ p \in Seq(Nat) /\ Len(p) = Len(o) + 1 /\ p[Len(o) + 1] = l
        /\ \A a \in 1..Len(o) : p[a] = o[a]
    BY <1>3, AppendProperties
  <2> QED
    BY <2>1, LenProperties
<1>10. /\ IsSeq(pp) /\ Len(pp) = Len(o) + 1 /\ pp[Len(o) + 1] = top
       /\ \A a \in 1..Len(o) : pp[a] = st.pp[a]
  BY <1>1, AppendOps DEF NestAt, PPIs
<1> HIDE DEF p, pp
<1>11. \A a \in DOMAIN p : a \in DOMAIN o \/ a = Len(o) + 1
  BY <1>2, <1>9
<1>12. OpenAs(p, l)
  <2>1. ASSUME NEW a \in DOMAIN p
        PROVE  /\ p[a] \in Ifs /\ Holds(p[a], l)
               /\ PP(p[a], l, "if") - PP(p[a], l, "endif") = Len(p) - a + 1
    <3>1. CASE a \in DOMAIN o
      <4>1. p[a] = o[a] /\ Len(p) - a + 1 = Len(o) - a + 2
        BY <1>2, <1>9, <3>1
      <4> QED
        BY <1>4, <3>1, <4>1
    <3>2. CASE a = Len(o) + 1
      <4>1. p[a] = l /\ Len(p) - a + 1 = 1
        BY <1>2, <1>9, <3>2
      <4> QED
        BY <1>3, <1>5, <4>1
    <3> QED
      BY <1>11, <3>1, <3>2
  <2>2. ASSUME NEW a \in DOMAIN p, NEW b \in DOMAIN p, a < b PROVE p[a] < p[b]
    <3>1. a \in DOMAIN o /\ p[a] = o[a] /\ o[a] \in 1..n
      BY <1>2, <1>4, <1>9, <2>2, SMTT(30)
    <3>2. CASE b \in DOMAIN o
      BY <1>1, <1>2, <1>9, <2>2, <3>1, <3>2 DEF OpenAs
    <3>3. CASE b = Len(o) + 1
      BY <1>9, <3>1, <3>3
    <3> QED
      BY <1>11, <3>2, <3>3
  <2>3. ASSUME NEW j \in Ifs, Holds(j, l) PROVE \E a \in DOMAIN p : p[a] = j
    <3>1. CASE j = l
      <4>1. Len(o) + 1 \in DOMAIN p
        BY <1>2, <1>9
      <4> QED
        BY <1>9, <3>1, <4>1
    <3>2. CASE j # l
      <4>1. PICK a \in DOMAIN o : o[a] = j
        BY <1>1, <1>6, <2>3, <3>2 DEF OpenAs
      <4>2. a \in DOMAIN p /\ p[a] = o[a]
        BY <1>2, <1>9
      <4> QED
        BY <4>1, <4>2
    <3> QED
      BY <3>1, <3>2
  <2> QED
    BY <2>1, <2>2, <2>3 DEF OpenAs
<1>13. ASSUME NEW a \in DOMAIN p PROVE BranchesAt(p[a], pp[a], l)
  <2>1. CASE a \in DOMAIN o
    <3>1. p[a] = o[a] /\ pp[a] = st.pp[a] /\ BranchesAt(o[a], st.pp[a], n)
      BY <1>1, <1>2, <1>9, <1>10, <2>1
    <3>2. o[a] \in Ifs /\ o[a] \in 1..n /\ Holds(o[a], l) /\ Holds(o[a], n)
      BY <1>1, <1>4, <2>1 DEF OpenAs
    <3>3. \A i \in Ifs : i < o[a] => (Holds(i, l) <=> Holds(i, n))
      BY <1>6, <3>2
    <3> QED
      BY <1>7, <3>1, <3>2, <3>3, BranchesKept
  <2>2. CASE a = Len(o) + 1
    <3>1. p[a] = l /\ pp[a] = top
      BY <1>9, <1>10, <2>2
    <3>2. Branch(l, l) = 0
      <4>1. Branch(l, l - 1) = 0
        BY <1>3, NoBranches
      <4>2. l - 1 = n /\ l <= n + 1 /\ text[n + 1].pp # "else"
        OBVIOUS
      <4>3. Branch(l, n + 1) = Branch(l, n)
        BY <1>3, <4>2, NoBranch
      <4> QED
        BY <4>1, <4>2, <4>3
    <3>3. top.beforeIf = StackOf(text, Path(l), l - 1)
      <4>1. l - 1 = n
        OBVIOUS
      <4> QED
        BY <1>8, <4>1
    <3> QED
      BY <3>1, <3>2, <3>3 DEF BranchesAt
  <2> QED
    BY <1>11, <2>1, <2>2
<1>14. PPIs(pp, l)
  <2>1. Len(p) = Len(pp)
    BY <1>9, <1>10
  <2> QED
    BY <1>9, <1>10, <1>12, <1>13, <2>1 DEF PPIs
<1> QED
  BY <1>8, <1>14 DEF pp

(* The innermost conditional, and those around it, unless a line begins one. *)
LEMMA InnerLine ==
  ASSUME TextInv, NEW n \in Nat, n + 1 <= Len(text), NEW o \in Seq(Nat), OpenAs(o, n),
         o # <<>>, text[n + 1].pp # "if", NEW J, J = o[Len(o)]
  PROVE  /\ Len(o) \in DOMAIN o /\ J \in Ifs /\ J \in 1..n /\ Holds(J, n)
         /\ \A i \in Ifs : Holds(i, n) => i <= J
         /\ \A i \in Ifs : Holds(i, n + 1) => Holds(i, n)
         /\ \A i \in Ifs : Holds(i, n) /\ i # J => Holds(i, n + 1)
         /\ Holds(J, n + 1) <=> text[n + 1].pp # "endif"
         /\ \A a \in DOMAIN o : a # Len(o) => o[a] < J
<1>1. /\ DOMAIN o = 1..Len(o) /\ Len(o) \in Nat /\ Len(o) \in DOMAIN o
  BY LenProperties, EmptySeq
<1>2. J \in Ifs /\ J \in 1..n /\ Holds(J, n)
  BY <1>1, OpenLines
<1>3. \A a \in DOMAIN o : a # Len(o) => o[a] < J
  <2>1. \A a \in DOMAIN o : a # Len(o) => a < Len(o)
    BY <1>1
  <2> QED
    BY <1>1, <2>1 DEF OpenAs
<1>4. n + 1 \notin Ifs
  BY DEF Ifs
<1>5. \A i \in Ifs : Holds(i, n + 1) => Holds(i, n)
  BY <1>4, OpenLines
<1>6. \A i \in Ifs : Holds(i, n) => \E a \in DOMAIN o : o[a] = i
  BY DEF OpenAs
<1>7. \A i \in Ifs : Holds(i, n) => i <= J
  BY <1>2, <1>3, <1>6, SMTT(30)
<1>8. ASSUME NEW a \in DOMAIN o
      PROVE  Holds(o[a], n + 1) <=> a # Len(o) \/ text[n + 1].pp # "endif"
  <2>1. PICK d : d = (IF text[n + 1].pp = "endif" THEN 1 ELSE 0)
    OBVIOUS
  <2>2. PICK q : q = PP(o[a], n + 1, "if") - PP(o[a], n + 1, "endif")
    OBVIOUS
  <2>3. q = Len(o) - a + 1 + (0 - d) /\ (Holds(o[a], n + 1) <=> q # 0)
    BY <2>1, <2>2, OpenLines
  <2>4. q # 0 <=> a # Len(o) \/ d = 0
    <3>1. d = 0 \/ d = 1
      BY <2>1
    <3>2. a \in 1..Len(o) /\ Len(o) \in Nat /\ q = Len(o) - a + 1 + (0 - d)
      BY <1>1, <2>3
    <3>3. CASE d = 0
      <4>1. q = Len(o) - a + 1 /\ q # 0
        BY <3>2, <3>3
      <4> QED
        BY <3>3, <4>1
    <3>4. CASE d = 1
      <4>1. q = Len(o) - a
        BY <3>2, <3>4
      <4>2. Len(o) \in Int /\ a \in Int
        BY <3>2
      <4>3. \A x, y \in Int : x - y # 0 <=> x # y
        OBVIOUS
      <4>4. q # 0 <=> a # Len(o)
        BY <4>1, <4>2, <4>3, Zenon
      <4> QED
        BY <3>4, <4>4
    <3> QED
      BY <3>1, <3>3, <3>4
  <2>5. d = 0 <=> text[n + 1].pp # "endif"
    BY <2>1
  <2>6. Holds(o[a], n + 1) <=> q # 0
    BY <2>3
  <2> QED
    BY <2>4, <2>5, <2>6
<1>9. \A i \in Ifs : Holds(i, n) /\ i # J => Holds(i, n + 1)
  BY <1>6, <1>8
<1>10. Holds(J, n + 1) <=> text[n + 1].pp # "endif"
  BY <1>1, <1>8
<1> QED
  BY <1>1, <1>2, <1>3, <1>5, <1>7, <1>9, <1>10

(* A conditional has all lines between two that it has.                     *)
LEMMA HoldsBetween ==
  ASSUME TextInv, NEW j \in Ifs, NEW n \in Nat, n <= Len(text), Holds(j, n), NEW k \in j..n
  PROVE  Holds(j, k)
<1>1. j \in Nat /\ n \in j..Len(text) /\ k \in j..Len(text)
  BY IfsAre
<1>2. \A m \in j..k : m \in j..n
  BY <1>1
<1> QED
  BY <1>1, <1>2, HoldsIs

(* As long as the innermost is in its first branch, that is the path.       *)
LEMMA FirstBranch ==
  ASSUME TextInv, NEW n \in Nat, NEW J \in Ifs, Holds(J, n), Branch(J, n) = 0,
         \A i \in Ifs : Holds(i, n) => i <= J
  PROVE  PathBut(J, n) = Path(n)
<1>1. \A i \in Ifs : (IF Holds(i, n) /\ i < J THEN Branch(i, n) ELSE 0)
                   = (IF Holds(i, n) THEN Branch(i, n) ELSE 0)
  BY IfsAre
<1>2. \A k : k \in PathBut(J, n) <=> k \in Path(n)
  BY <1>1 DEF PathBut, Path
<1> QED
  BY <1>2

LEMMA ElseLine ==
  ASSUME TextInv, NEW n \in Nat, n + 1 <= Len(text), NEW st, NestAt(st, n),
         text[n + 1].pp = "else", st.pp # <<>>, NEW pp,
         LET top == Last(st.pp)
         IN  pp = IF top.seenElse THEN st.pp
                  ELSE SetTop(st.pp, [top EXCEPT !.seenElse = TRUE, !.beforeElse = st.stack])
  PROVE  Last(st.pp).beforeIf = StackOf(text, Path(n + 1), n) /\ PPIs(pp, n + 1)
<1> DEFINE l == n + 1
           top == Last(st.pp)
<1>1. PICK o \in Seq(Nat) : /\ Len(o) = Len(st.pp) /\ OpenAs(o, n)
                            /\ \A a \in DOMAIN o : BranchesAt(o[a], st.pp[a], n)
  BY DEF NestAt, PPIs
<1>2. DOMAIN o = 1..Len(o) /\ Len(o) \in Nat /\ o # <<>>
  BY <1>1, LenProperties, EmptySeq, SeqOps DEF NestAt, PPIs
<1>3. PICK J : J = o[Len(o)]
  OBVIOUS
<1>4. /\ Len(o) \in DOMAIN o /\ J \in Ifs /\ J \in 1..n /\ Holds(J, n) /\ Holds(J, l)
      /\ \A i \in Ifs : Holds(i, n) => i <= J
      /\ \A i \in Ifs : Holds(i, l) <=> Holds(i, n)
      /\ \A a \in DOMAIN o : a # Len(o) => o[a] < J
  BY <1>1, <1>2, <1>3, InnerLine, SMTT(30)
<1>5. Innermost(J, l)
  BY <1>4, IfsAre DEF Innermost
<1>6. Branch(J, l) = Branch(J, n) + 1 /\ Branch(J, n) \in Nat
  <2>1. J \in Nat /\ J <= n + 1
    BY <1>4
  <2> QED
    BY <1>5, <2>1, BranchGrows
<1>7. ASSUME NEW i \in Ifs, Holds(i, n), i < J PROVE Branch(i, l) = Branch(i, n)
  <2>1. i \in Nat /\ i <= n + 1
    BY <1>7, HoldsNext, IfsAre
  <2>2. ~Innermost(i, l)
    <3>1. J > i
      BY <1>4, <1>7, <2>1
    <3> QED
      BY <1>4, <3>1 DEF Innermost
  <2> QED
    BY <2>1, <2>2, NoBranch
<1>8. top = st.pp[Len(o)] /\ BranchesAt(J, top, n)
  BY <1>1, <1>2, <1>3, <1>4, SeqOps, FrontOps DEF NestAt, PPIs
<1>9. StackOf(text, Path(l), J - 1) = StackOf(text, Path(n), J - 1)
  <2>1. \A i \in Ifs : \A k : Holds(i, k) => i <= k
    BY DEF Holds
  <2>2. ASSUME NEW k \in 1..(J - 1) PROVE k \in Path(l) <=> k \in Path(n)
    <3>1. k \in 1..n /\ k \in 1..l /\ k < J
      BY <1>4
    <3>2. \A i \in Ifs : Holds(i, k) => i < J
      BY <2>1, <3>1, <1>4, IfsAre
    <3>3. \A i \in Ifs : i < J => (IF Holds(i, l) THEN Branch(i, l) ELSE 0)
                                   = (IF Holds(i, n) THEN Branch(i, n) ELSE 0)
      BY <1>4, <1>7
    <3> QED
      BY <3>1, <3>2, <3>3 DEF Path
  <2>3. J - 1 \in Nat
    BY <1>4
  <2> QED
    BY <2>2, <2>3, SameLayers
<1>10. StackOf(text, Path(l), n) = StackOf(text, Path(l), J - 1)
  <2>1. ASSUME NEW k \in J..n PROVE k \notin Path(l)
    <3>1. Holds(J, k)
      <4>1. n <= Len(text)
        BY IfsAre
      <4> QED
        BY <1>4, <4>1, HoldsBetween
    <3>2. Branch(J, k) # Branch(J, l)
      <4>1. k \in Nat /\ k <= n /\ J \in Nat
        BY <1>4
      <4>2. Branch(J, k) \in Nat /\ Branch(J, k) <= Branch(J, n)
        BY <4>1, BranchRises
      <4> QED
        BY <1>6, <4>2
    <3> QED
      BY <1>4, <3>1, <3>2 DEF Path
  <2>2. J - 1 \in 0..n /\ \A k \in ((J - 1) + 1)..n : k \in J..n
    BY <1>4
  <2> QED
    BY <2>1, <2>2, OtherLayers
<1>11. top.beforeIf = StackOf(text, Path(l), n) /\ top.beforeIf = StackOf(text, Path(l), J - 1)
  BY <1>8, <1>9, <1>10 DEF BranchesAt
<1>12. StackOf(text, PathBut(J, l), l) = StackOf(text, PathBut(J, n), n)
  <2>1. l \notin PathBut(J, l)
    <3>1. Branch(J, l) # 0 /\ ~(J < J)
      BY <1>4, <1>6
    <3> QED
      BY <1>4, <3>1 DEF PathBut
  <2>2. \A k \in 1..n : k \in PathBut(J, l) <=> k \in PathBut(J, n)
    <3>1. \A i \in Ifs : (IF Holds(i, l) /\ i < J THEN Branch(i, l) ELSE 0)
                       = (IF Holds(i, n) /\ i < J THEN Branch(i, n) ELSE 0)
      BY <1>4, <1>7
    <3>2. \A k \in 1..n : k \in 1..l
      OBVIOUS
    <3> QED
      BY <3>1, <3>2 DEF PathBut
  <2>3. StackOf(text, PathBut(J, l), l) = StackOf(text, PathBut(J, l), n)
    <3>1. l \in Nat /\ n \in 0..l /\ \A k \in (n + 1)..l : k = l
      OBVIOUS
    <3> QED
      BY <2>1, <3>1, OtherLayers
  <2>4. StackOf(text, PathBut(J, l), n) = StackOf(text, PathBut(J, n), n)
    BY <2>2, SameLayers
  <2> QED
    BY <2>3, <2>4
<1>13. /\ IsSeq(pp) /\ Len(pp) = Len(o)
       /\ \A a \in 1..(Len(o) - 1) : pp[a] = st.pp[a]
       /\ pp[Len(o)].seenElse /\ pp[Len(o)].beforeIf = top.beforeIf
       /\ DOMAIN pp[Len(o)] = DOMAIN top
       /\ pp[Len(o)].beforeElse = IF top.seenElse THEN top.beforeElse ELSE st.stack
  <2>1. IsSeq(st.pp) /\ st.pp # <<>> /\ Len(st.pp) = Len(o)
    BY <1>1 DEF NestAt, PPIs
  <2>2. CASE top.seenElse
    BY <1>2, <1>8, <2>1, <2>2
  <2>3. CASE ~top.seenElse
    <3> DEFINE new == [top EXCEPT !.seenElse = TRUE, !.beforeElse = st.stack]
    <3>1. pp = Append(Front(st.pp), new)
      BY <2>3 DEF SetTop
    <3>2. /\ IsSeq(Front(st.pp)) /\ Len(Front(st.pp)) = Len(o) - 1
          /\ \A i \in 1..(Len(o) - 1) : Front(st.pp)[i] = st.pp[i]
      BY <2>1, FrontOps
    <3> HIDE DEF new
    <3>3. /\ IsSeq(pp) /\ Len(pp) = (Len(o) - 1) + 1 /\ pp[(Len(o) - 1) + 1] = new
          /\ \A i \in 1..(Len(o) - 1) : pp[i] = Front(st.pp)[i]
      <4>1. PICK s : s = Front(st.pp)
        OBVIOUS
      <4>2. IsSeq(s) /\ Len(s) = Len(o) - 1 /\ pp = Append(s, new)
        BY <3>1, <3>2, <4>1
      <4>3. /\ IsSeq(pp) /\ Len(pp) = Len(s) + 1 /\ pp[Len(s) + 1] = new
            /\ \A i \in 1..Len(s) : pp[i] = s[i]
        <5>1. PICK x : x = new
          OBVIOUS
        <5>2. PICK y : y = Append(s, x)
          OBVIOUS
        <5>3. /\ IsSeq(y) /\ Len(y) = Len(s) + 1 /\ y[Len(s) + 1] = x
              /\ \A i \in 1..Len(s) : y[i] = s[i]
          BY <4>2, <5>2, AppendOps
        <5> QED
          BY <4>2, <5>1, <5>2, <5>3
      <4> QED
        BY <4>1, <4>2, <4>3
    <3>4. (Len(o) - 1) + 1 = Len(o)
      BY <1>2
    <3>5. /\ new.seenElse /\ new.beforeIf = top.beforeIf /\ new.beforeElse = st.stack
          /\ DOMAIN new = DOMAIN top
      <4>1. "seenElse" \in DOMAIN top /\ "beforeElse" \in DOMAIN top
        BY <1>8 DEF BranchesAt
      <4>2. PICK t : t = top
        OBVIOUS
      <4> HIDE DEF top
      <4> QED
        BY <4>1, <4>2 DEF new
    <3> QED
      BY <2>3, <3>2, <3>3, <3>4, <3>5
  <2> QED
    BY <2>2, <2>3
<1>14. ASSUME NEW a \in DOMAIN o PROVE BranchesAt(o[a], pp[a], l)
  <2>1. CASE a = Len(o)
    <3>1. StackOf(text, PathBut(J, l), l) = pp[a].beforeElse
      <4>1. CASE top.seenElse
        BY <1>8, <1>12, <1>13, <2>1, <4>1 DEF BranchesAt
      <4>2. CASE ~top.seenElse
        <5>1. Branch(J, n) = 0
          BY <1>6, <1>8, <4>2 DEF BranchesAt
        <5>2. PathBut(J, n) = Path(n)
          BY <1>4, <5>1, FirstBranch
        <5> QED
          BY <1>12, <1>13, <2>1, <4>2, <5>2 DEF NestAt
      <4> QED
        BY <4>1, <4>2
    <3>2. Branch(J, l) > 0
      BY <1>6
    <3> QED
      BY <1>3, <1>8, <1>11, <1>13, <2>1, <3>1, <3>2 DEF BranchesAt
  <2>2. CASE a # Len(o)
    <3>1. a \in 1..(Len(o) - 1) /\ o[a] < J /\ pp[a] = st.pp[a]
      BY <1>2, <1>4, <1>13, <2>2
    <3>2. o[a] \in Ifs /\ Holds(o[a], n) /\ o[a] \in 1..n /\ BranchesAt(o[a], pp[a], n)
      BY <1>1, <3>1, OpenLines
    <3>3. \A i \in Ifs : i < o[a] => i < J
      BY <1>4, <3>1, <3>2, IfsAre
    <3> QED
      BY <1>4, <1>7, <3>1, <3>2, <3>3, BranchesKept
  <2> QED
    BY <2>1, <2>2
<1>15. OpenAs(o, l)
  <2>1. ASSUME NEW a \in DOMAIN o
        PROVE  /\ o[a] \in Ifs /\ Holds(o[a], l)
               /\ PP(o[a], l, "if") - PP(o[a], l, "endif") = Len(o) - a + 1
    <3>1. /\ o[a] \in Ifs /\ Holds(o[a], n)
          /\ PP(o[a], l, "if") - PP(o[a], l, "endif") = Len(o) - a + 1 + (0 - 0)
      BY <1>1, OpenLines
    <3>2. Len(o) - a + 1 + (0 - 0) = Len(o) - a + 1
      BY <1>2
    <3> QED
      BY <1>4, <3>1, <3>2
  <2> QED
    BY <1>1, <1>4, <2>1 DEF OpenAs
<1> QED
  BY <1>11, <1>13, <1>14, <1>15 DEF PPIs

LEMMA EndifLine ==
  ASSUME TextInv, NEW n \in Nat, n + 1 <= Len(text), NEW st, NestAt(st, n),
         text[n + 1].pp = "endif", st.pp # <<>>
  PROVE  LET top == Last(st.pp)
         IN  /\ (IF top.seenElse THEN top.beforeElse ELSE st.stack)
                  = StackOf(text, Path(n + 1), n)
             /\ PPIs(Front(st.pp), n + 1)
<1> DEFINE l == n + 1
           top == Last(st.pp)
<1>1. PICK o \in Seq(Nat) : /\ Len(o) = Len(st.pp) /\ OpenAs(o, n)
                            /\ \A a \in DOMAIN o : BranchesAt(o[a], st.pp[a], n)
  BY DEF NestAt, PPIs
<1>2. DOMAIN o = 1..Len(o) /\ Len(o) \in Nat /\ o # <<>>
  BY <1>1, LenProperties, EmptySeq, SeqOps DEF NestAt, PPIs
<1>3. PICK J : J = o[Len(o)]
  OBVIOUS
<1>4. /\ Len(o) \in DOMAIN o /\ J \in Ifs /\ J \in 1..n /\ Holds(J, n) /\ ~Holds(J, l)
      /\ \A i \in Ifs : Holds(i, n) => i <= J
      /\ \A i \in Ifs : Holds(i, l) <=> Holds(i, n) /\ i # J
      /\ \A a \in DOMAIN o : a # Len(o) => o[a] < J
  BY <1>1, <1>2, <1>3, InnerLine
<1>5. ASSUME NEW i \in Ifs, Holds(i, n) PROVE Branch(i, l) = Branch(i, n)
  <2>1. i \in 1..n
    BY <1>5, HoldsNext
  <2> HIDE DEF top
  <2>2. i \in Nat /\ i <= n + 1
    BY <2>1
  <2> QED
    BY <2>2, NoBranch
<1>6. top = st.pp[Len(o)] /\ BranchesAt(J, top, n)
  <2>1. IsSeq(st.pp)
    BY DEF NestAt, PPIs
  <2>2. Last(st.pp) = st.pp[Len(st.pp)]
    BY <2>1, FrontOps
  <2> QED
    BY <1>1, <1>2, <1>3, <1>4, <2>2
<1>7. StackOf(text, Path(l), n) = StackOf(text, PathBut(J, n), n)
  <2>1. \A i \in Ifs : (IF Holds(i, l) THEN Branch(i, l) ELSE 0)
                     = (IF Holds(i, n) /\ i < J THEN Branch(i, n) ELSE 0)
    <3>1. \A i \in Ifs : Holds(i, l) <=> Holds(i, n) /\ i < J
      BY <1>4, IfsAre
    <3> QED
      BY <1>5, <3>1
  <2>2. \A k \in 1..n : k \in 1..l
    OBVIOUS
  <2>3. \A k \in 1..n : k \in Path(l) <=> k \in PathBut(J, n)
    BY <2>1, <2>2 DEF Path, PathBut
  <2> QED
    BY <2>3, SameLayers
<1>8. (IF top.seenElse THEN top.beforeElse ELSE st.stack) = StackOf(text, Path(l), n)
  <2>1. CASE top.seenElse
    BY <1>6, <1>7, <2>1 DEF BranchesAt
  <2>2. CASE ~top.seenElse
    <3>1. Branch(J, n) = 0
      <4>1. J \in Nat /\ n <= n
        BY <1>4
      <4>2. Branch(J, n) \in Nat
        BY <4>1, BranchRises
      <4> QED
        BY <1>6, <2>2, <4>2 DEF BranchesAt
    <3>2. PathBut(J, n) = Path(n)
      BY <1>4, <3>1, FirstBranch
    <3> QED
      BY <1>7, <2>2, <3>2 DEF NestAt
  <2> QED
    BY <2>1, <2>2
<1> DEFINE p == [a \in 1..(Len(o) - 1) |-> o[a]]
           pp == Front(st.pp)
<1>9. /\ IsSeq(pp) /\ Len(pp) = Len(o) - 1
      /\ \A a \in 1..(Len(o) - 1) : pp[a] = st.pp[a]
  <2>1. IsSeq(st.pp) /\ Len(st.pp) = Len(o)
    BY <1>1 DEF NestAt, PPIs
  <2> QED
    BY <2>1, FrontOps
<1>10. /\ p \in Seq(Nat) /\ Len(p) = Len(o) - 1 /\ DOMAIN p = 1..(Len(o) - 1)
       /\ \A a \in 1..(Len(o) - 1) : a \in DOMAIN o /\ p[a] = o[a]
  <2>1. Len(o) - 1 \in Nat /\ \A a \in 1..(Len(o) - 1) : a \in DOMAIN o /\ o[a] \in Nat
    BY <1>2, EmptySeq, ElementOfSeq
  <2>2. p \in [1..(Len(o) - 1) -> Nat]
    BY <2>1
  <2>3. p \in Seq(Nat)
    BY <2>1, <2>2
  <2> QED
    BY <2>1, <2>3, LenProperties
<1> HIDE DEF p, pp
<1>11. OpenAs(p, l)
  <2>1. ASSUME NEW a \in DOMAIN p
        PROVE  /\ p[a] \in Ifs /\ Holds(p[a], l)
               /\ PP(p[a], l, "if") - PP(p[a], l, "endif") = Len(p) - a + 1
    <3>1. a \in 1..(Len(o) - 1)
      BY <1>10
    <3>2. a \in DOMAIN o /\ a # Len(o) /\ p[a] = o[a] /\ Len(p) = Len(o) - 1
      <4>1. a # Len(o)
        BY <1>2, <3>1
      <4> QED
        BY <1>10, <3>1, <4>1
    <3>3. /\ o[a] \in Ifs /\ Holds(o[a], n)
          /\ PP(o[a], l, "if") - PP(o[a], l, "endif") = Len(o) - a + 1 + (0 - 1)
      BY <1>1, <3>2, OpenLines
    <3>4. Len(o) - a + 1 + (0 - 1) = Len(p) - a + 1
      BY <1>2, <3>2
    <3>5. o[a] # J
      BY <1>4, <3>2, <3>3, IfsAre
    <3> QED
      BY <1>4, <3>2, <3>3, <3>4, <3>5
  <2>2. \A a, b \in DOMAIN p : a < b => p[a] < p[b]
    BY <1>1, <1>10 DEF OpenAs
  <2>3. ASSUME NEW j \in Ifs, Holds(j, l) PROVE \E a \in DOMAIN p : p[a] = j
    <3>1. PICK a \in DOMAIN o : o[a] = j
      BY <1>1, <1>4, <2>3 DEF OpenAs
    <3>2. a # Len(o)
      BY <1>3, <1>4, <2>3, <3>1
    <3>3. a \in DOMAIN p
      BY <1>2, <1>10, <3>2
    <3> QED
      BY <1>10, <3>1, <3>3
  <2> QED
    BY <2>1, <2>2, <2>3 DEF OpenAs
<1>12. ASSUME NEW a \in DOMAIN p PROVE BranchesAt(p[a], pp[a], l)
  <2>1. a \in 1..(Len(o) - 1)
    BY <1>10
  <2>2. a \in DOMAIN o /\ a # Len(o) /\ p[a] = o[a] /\ pp[a] = st.pp[a]
    <3>1. a # Len(o)
      BY <1>2, <2>1
    <3>2. a \in DOMAIN o /\ p[a] = o[a]
      BY <1>10, <2>1
    <3>3. pp[a] = st.pp[a]
      BY <1>9, <2>1
    <3> QED
      BY <3>1, <3>2, <3>3
  <2>3. /\ o[a] \in Ifs /\ Holds(o[a], n) /\ o[a] \in 1..n /\ o[a] < J
        /\ BranchesAt(o[a], pp[a], n)
    BY <1>1, <1>4, <2>2, OpenLines
  <2>4. \A i \in Ifs : i < o[a] => i # J
    BY <1>4, <2>3, IfsAre
  <2>5. Holds(o[a], l)
    BY <1>4, <2>3
  <2>6. \A i \in Ifs : i < o[a] => /\ Holds(i, l) <=> Holds(i, n)
                                   /\ Holds(i, n) => Branch(i, l) = Branch(i, n)
    BY <1>4, <1>5, <2>4
  <2> QED
    BY <1>5, <2>2, <2>3, <2>5, <2>6, BranchesKept
<1>13. PPIs(pp, l)
  <2>1. Len(p) = Len(pp)
    BY <1>9, <1>10
  <2> QED
    BY <1>9, <1>10, <1>11, <1>12, <2>1 DEF PPIs
<1> QED
  BY <1>8, <1>13 DEF pp

(* A line: the directive first, then the rest.                              *)
LEMMA OneLine ==
  ASSUME TextInv, NEW n \in Nat, n + 1 <= Len(text), NEW st, NestAt(st, n)
  PROVE  LET u == Update(st, text, n + 1)
         IN  NestAt([stack |-> u.stack, pp |-> u.pp], n + 1)
<1> DEFINE l == n + 1
           p == UpdatePreprocessor(st, text[l].pp)
           top == Last(st.pp)
<1>1. p.stack = StackOf(text, Path(l), n) /\ PPIs(p.pp, l)
  <2>1. CASE text[l].pp = "if"
    <3> DEFINE new == [beforeIf |-> st.stack, beforeElse |-> <<>>, seenElse |-> FALSE]
    <3>1. p = [st EXCEPT !.pp = Append(@, new)]
      BY <2>1 DEF UpdatePreprocessor
    <3>2. p.stack = st.stack /\ p.pp = Append(st.pp, new)
      <4>1. st = [stack |-> st.stack, pp |-> st.pp]
        BY DEF NestAt
      <4>2. \A a, b : [[stack |-> a, pp |-> b] EXCEPT !.pp = Append(@, new)]
                        = [stack |-> a, pp |-> Append(b, new)]
        OBVIOUS
      <4>3. p = [stack |-> st.stack, pp |-> Append(st.pp, new)]
        BY <3>1, <4>1, <4>2
      <4> QED
        BY <4>3
    <3> QED
      BY <2>1, <3>2, IfLine
  <2>2. CASE text[l].pp = "else" /\ st.pp # <<>>
    <3> DEFINE pp == IF top.seenElse THEN st.pp
                     ELSE SetTop(st.pp, [top EXCEPT !.seenElse = TRUE,
                                                    !.beforeElse = st.stack])
    <3>1. p = [stack |-> top.beforeIf, pp |-> pp]
      BY <2>2 DEF UpdatePreprocessor
    <3>2. p.stack = top.beforeIf /\ p.pp = pp
      BY <3>1
    <3>3. top.beforeIf = StackOf(text, Path(l), n) /\ PPIs(pp, l)
      BY <2>2, ElseLine
    <3> QED
      BY <3>2, <3>3
  <2>3. CASE text[l].pp = "endif" /\ st.pp # <<>>
    <3>1. p = [stack |-> IF top.seenElse THEN top.beforeElse ELSE st.stack,
               pp |-> Front(st.pp)]
      BY <2>3 DEF UpdatePreprocessor
    <3>2. /\ p.stack = IF top.seenElse THEN top.beforeElse ELSE st.stack
          /\ p.pp = Front(st.pp)
      BY <3>1
    <3> QED
      BY <2>3, <3>2, EndifLine
  <2>4. CASE \/ text[l].pp \notin {"if", "else", "endif"}
             \/ text[l].pp # "if" /\ st.pp = <<>>
    <3>1. p = st
      BY <2>4 DEF UpdatePreprocessor
    <3> QED
      BY <2>4, <3>1, OtherLine
  <2> QED
    BY <2>1, <2>2, <2>3, <2>4
<1>2. l \in Path(l)
  BY OnItsPath
<1>3. StackOf(text, Path(l), l) = UpdateStack(p.stack, text, l).stack
  BY <1>1, <1>2, Layers DEF Layer
<1>4. Update(st, text, l).stack = UpdateStack(p.stack, text, l).stack
  BY DEF Update
<1>5. Update(st, text, l).pp = p.pp
  BY DEF Update
<1> QED
  BY <1>1, <1>3, <1>4, <1>5 DEF NestAt
(* Nothing of this depends on anything but the text.                        *)
LEMMA SameText ==
  ASSUME text' = text
  PROVE  /\ Ifs' = Ifs
         /\ \A a, b, x : PP(a, b, x)' = PP(a, b, x)
         /\ \A j : EndOf(j)' = EndOf(j)
         /\ \A j, k : Holds(j, k)' <=> Holds(j, k)
         /\ \A j, k : Innermost(j, k)' <=> Innermost(j, k)
         /\ \A j, k : Branch(j, k)' = Branch(j, k)
         /\ \A n : Path(n)' = Path(n)
         /\ \A j, n : PathBut(j, n)' = PathBut(j, n)
<1>1. Ifs' = Ifs
  BY DEF Ifs
<1>2. ASSUME NEW a, NEW b, NEW x PROVE PP(a, b, x)' = PP(a, b, x)
  BY DEF PP
<1>3. ASSUME NEW j PROVE EndOf(j)' = EndOf(j)
  BY <1>2 DEF EndOf
<1>4. ASSUME NEW j, NEW k PROVE Holds(j, k)' <=> Holds(j, k)
  BY <1>1, <1>3 DEF Holds
<1>5. ASSUME NEW j, NEW k PROVE Innermost(j, k)' <=> Innermost(j, k)
  BY <1>1, <1>4 DEF Innermost
<1>6. ASSUME NEW j, NEW k PROVE Branch(j, k)' = Branch(j, k)
  BY <1>5 DEF Branch
<1>7. ASSUME NEW n PROVE Path(n)' = Path(n)
  BY <1>1, <1>4, <1>6 DEF Path
<1>8. ASSUME NEW j, NEW n PROVE PathBut(j, n)' = PathBut(j, n)
  BY <1>1, <1>4, <1>6 DEF PathBut
<1> QED
  BY <1>1, <1>2, <1>3, <1>4, <1>5, <1>6, <1>7, <1>8

LEMMA SameNest ==
  ASSUME text' = text, NEW st, NEW n, NestAt(st, n)
  PROVE  NestAt(st, n)'
<1>1. \A j, top : BranchesAt(j, top, n)' <=> BranchesAt(j, top, n)
  <2> SUFFICES ASSUME NEW j, NEW top
               PROVE  BranchesAt(j, top, n)' <=> BranchesAt(j, top, n)
    OBVIOUS
  <2>1. Path(n)' = Path(n) /\ PathBut(j, n)' = PathBut(j, n) /\ Branch(j, n)' = Branch(j, n)
    BY SameText
  <2> QED
    BY <2>1 DEF BranchesAt
<1>2. \A o : OpenAs(o, n)' <=> OpenAs(o, n)
  <2> SUFFICES ASSUME NEW o PROVE OpenAs(o, n)' <=> OpenAs(o, n)
    OBVIOUS
  <2>1. Ifs' = Ifs /\ (\A j : Holds(j, n)' <=> Holds(j, n))
        /\ \A j, x : PP(j, n, x)' = PP(j, n, x)
    BY SameText
  <2> QED
    BY <2>1 DEF OpenAs
<1>3. Path(n)' = Path(n)
  BY SameText
<1> QED
  BY <1>1, <1>2, <1>3 DEF NestAt, PPIs

(* What is known of the nesting before a line.                              *)
NestInv ==
  \A n \in Nat : \A st : st = nesting /\ n + 1 = line /\ n <= Len(text) => NestAt(st, n)

LEMMA TextInductive == Spec => []TextInv
<1>1. Init => TextInv
  <2>1. ASSUME Init PROVE text \in Seq(Range(text)) /\ line = 1
    BY <2>1, LintFileAssumption DEF Init
  <2> QED
    BY <2>1, LenProperties DEF TextInv
<1>2. TextInv /\ [Next]_vars => TextInv'
  <2> SUFFICES ASSUME TextInv, [Next]_vars PROVE TextInv'
    OBVIOUS
  <2>1. Len(text) \in Nat
    BY IfsAre
  <2>2. CASE ProcessLine
    BY <2>1, <2>2 DEF ProcessLine, TextInv, Range
  <2>3. CASE FinishFile
    BY <2>1, <2>3 DEF FinishFile, TextInv, Range
  <2>4. CASE UNCHANGED vars
    BY <2>4 DEF vars, TextInv, Range
  <2> QED
    BY <2>2, <2>3, <2>4 DEF Next
<1> QED
  BY <1>1, <1>2, PTL DEF Spec

LEMMA NestFirst == Init => NestInv
<1> SUFFICES ASSUME Init, NEW st, st = nesting PROVE NestAt(st, 0)
  BY DEF NestInv, Init
<1>1. st.stack = <<>> /\ st.pp = <<>> /\ st = [stack |-> st.stack, pp |-> st.pp]
  BY DEF Init, NewNesting
<1>2. StackOf(text, Path(0), 0) = <<>>
  BY NoLayer
<1>3. OpenAs(<<>>, 0)
  <2>1. TextInv
    <3>1. text \in Seq(Range(text)) /\ line = 1
      BY LintFileAssumption DEF Init
    <3> QED
      BY <3>1, LenProperties DEF TextInv
  <2>2. \A j \in Ifs : ~Holds(j, 0)
    BY <2>1, IfsAre DEF Holds, Ifs
  <2> QED
    BY <2>2 DEF OpenAs
<1>4. IsSeq(<<>>) /\ <<>> \in Seq(Nat) /\ Len(<<>>) = 0
  BY EmptySeq DEF IsSeq
<1>5. PPIs(st.pp, 0)
  <2>1. PICK o : o = <<>>
    OBVIOUS
  <2>2. o \in Seq(Nat) /\ Len(o) = Len(st.pp) /\ OpenAs(o, 0) /\ DOMAIN o = {}
    BY <1>1, <1>3, <1>4, <2>1
  <2> QED
    BY <1>1, <1>4, <2>2 DEF PPIs
<1> QED
  BY <1>1, <1>2, <1>5 DEF NestAt

LEMMA NestNext == TextInv /\ NestInv /\ [Next]_vars => NestInv'
<1> SUFFICES ASSUME TextInv, NestInv, [Next]_vars,
                    NEW m \in Nat, NEW s, s = nesting', m + 1 = line', m <= Len(text')
             PROVE  NestAt(s, m)'
  BY DEF NestInv
<1>1. text' = text
  BY DEF Next, ProcessLine, FinishFile, vars
<1>2. NestAt(s, m)
  <2>1. CASE ProcessLine
    <3>1. PICK n, st : n = line - 1 /\ st = nesting
      OBVIOUS
    <3>2. line \in Nat /\ line \in Int /\ line <= Len(text) /\ line' = line + 1
      BY <2>1, IfsAre DEF TextInv, ProcessLine
    <3>3. n \in Nat /\ n + 1 = line /\ m = line /\ m = n + 1 /\ n <= Len(text)
      BY <3>1, <3>2, IfsAre DEF TextInv
    <3>4. NestAt(st, n)
      BY <3>1, <3>3 DEF NestInv
    <3> DEFINE u == Update(st, text, n + 1)
    <3>5. NestAt([stack |-> u.stack, pp |-> u.pp], n + 1)
      BY <3>2, <3>3, <3>4, OneLine
    <3>6. s = [stack |-> u.stack, pp |-> u.pp]
      BY <2>1, <3>1, <3>3 DEF ProcessLine
    <3> QED
      BY <3>3, <3>5, <3>6
  <2>2. CASE FinishFile
    <3>1. line' = line + 1 /\ line = Len(text) + 1 /\ Len(text) \in Nat
      BY <2>2, IfsAre DEF FinishFile
    <3> QED
      BY <1>1, <3>1
  <2>3. CASE UNCHANGED vars
    BY <1>1, <2>3 DEF NestInv, vars
  <2> QED
    BY <2>1, <2>2, <2>3 DEF Next
<1> QED
  BY <1>1, <1>2, SameNest

(* The stack after a line is that of the lines on its path: nothing of a    *)
(* branch that another replaces is left, and of a conditional that is over  *)
(* what its first branch left is.  (NestingState.UpdatePreprocessor)        *)
THEOREM StackFollowsPath == Spec => []StackIsOfPath
<1>1. TextInv /\ NestInv => StackIsOfPath
  <2> SUFFICES ASSUME TextInv, NestInv, line \in 2..(Len(text) + 1)
               PROVE  nesting.stack = StackOf(text, Path(line - 1), line - 1)
    BY DEF StackIsOfPath
  <2>1. line - 1 \in Nat /\ (line - 1) + 1 = line /\ line - 1 <= Len(text)
    BY IfsAre
  <2>2. NestAt(nesting, line - 1)
    BY <2>1 DEF NestInv
  <2> QED
    BY <2>2 DEF NestAt
<1> QED
  BY <1>1, NestFirst, NestNext, TextInductive, PTL DEF Spec
-----------------------------------------------------------------------------
(* What the headers that are listed, and the section, are.                  *)
Branching == {"if", "else", "endif"}

(* The includes since the last directive, as Stretch has them.              *)
Recent(n) ==
  {j \in Includes : j < n /\ ~Again(j) /\ \A k \in j .. n - 1 : text[k].pp \notin Branching}

SectionIs(n) ==
  /\ includes.section \in Initial .. OtherH
  /\ \A j \in Recent(n) : Rank(j) <= includes.section
  /\ includes.section # Initial => \E j \in Recent(n) : Rank(j) = includes.section

(* What is listed has been included, and has not been left out by an #else. *)
EntryIs(x, last, n) ==
  /\ x.line \in Includes /\ x.line < n /\ x.name = Named(x.line) /\ x.of = text[x.line].inc
  /\ last => \A m \in x.line .. n - 1 : text[m].pp \notin {"if", "else"}
  /\ ~last => IfIn(x.line, n - 1)
  /\ \A e \in x.line .. n - 1 : text[e].pp = "else" => IfIn(x.line, e)

ListIs(n) ==
  LET list == includes.list IN
  /\ IsSeq(list) /\ list # <<>>
  /\ \A a \in DOMAIN list :
       IsSeq(list[a]) /\ \A x \in Range(list[a]) : EntryIs(x, a = Len(list), n)

(* What is included is listed unless an #else has left it out.              *)
Listing(j) == \E x \in Listed(includes) : x.name = Named(j) /\ x.line <= j
Kept(n) == \A j \in Includes : j < n => Listing(j) \/ Dropped(j, n)

(* The errors about headers are those of the lines before.                  *)
ErrorsAre(n) ==
  \A x \in errors : /\ x.cat # IncludeWhatYouUse
                    /\ x.cat \in {Include, IncludeOrder} => x.line \in 1 .. n - 1

InCode == \A l \in skipped : text[l].pp \in {"none", "define"}

IncludesInv ==
  \A n \in Nat : n = line /\ n <= Len(text) + 1 =>
    /\ ErrorsAre(n)
    /\ InCode => SectionIs(n) /\ ListIs(n) /\ Kept(n)

-----------------------------------------------------------------------------
(* The folds over the tokens of a line that Update makes, one token after   *)
(* the other.                                                               *)
TakeAll(base, toks, l) ==
  FoldLeft(LAMBDA acc, i : TakeNamespace(acc, toks, i, l), base, [i \in DOMAIN toks |-> i])

ConsumeAll(base, code, rest, l) ==
  FoldLeft(LAMBDA acc, i : Consume(acc, code, rest, i, l), base, [i \in DOMAIN rest |-> i])

LEMMA TakeIsChain ==
  ASSUME NEW base, NEW toks, NEW l, NEW n \in Nat, DOMAIN toks = 1..n
  PROVE  \E g : /\ g[0] = base
                /\ \A k \in 1..n : g[k] = TakeNamespace(g[k - 1], toks, k, l)
                /\ TakeAll(base, toks, l) = g[n]
<1> DEFINE Next1(s, k) == TakeNamespace(s, toks, k, l)
           Value(h, S) == IF S = {} THEN base ELSE LET x == Max(S) IN Next1(h[S \ {x}], x)
           Steps(h, m) == h = [S \in SUBSET (1..m) |-> Value(h, S)]
           T == {m \in 0..n : ~\E h : Steps(h, m)}
           id == [i \in DOMAIN toks |-> i]
           iter == CHOOSE h : h = [S \in SUBSET DOMAIN id |->
                              IF S = {} THEN base
                              ELSE LET x == Max(S) IN TakeNamespace(h[S \ {x}], toks, id[x], l)]
<1>1. TakeAll(base, toks, l) = iter[DOMAIN id]
  BY Zenon DEF TakeAll, FoldLeft, MapThenFoldSet
<1> HIDE DEF Next1
<1>2. T = {}
  <2> SUFFICES ASSUME T # {} PROVE FALSE
    OBVIOUS
  <2>1. T \in SUBSET Nat
    <3>1. 0..n \in SUBSET Nat
      OBVIOUS
    <3> QED
      BY <3>1
  <2>2. PICK m \in T : \A k \in T : m <= k
    BY <2>1, Least
  <2>3. m \in 0..n /\ ~\E h : Steps(h, m)
    OBVIOUS
  <2>4. CASE m = 0
    <3> DEFINE h == [S \in SUBSET (1..0) |-> base]
    <3>1. SUBSET (1..0) = {{}}
      OBVIOUS
    <3>2. \A S \in SUBSET (1..0) : h[S] = Value(h, S)
      BY <3>1
    <3>3. h = [S \in SUBSET (1..0) |-> h[S]]
      OBVIOUS
    <3>4. Steps(h, 0)
      <4> HIDE DEF h, Value
      <4> QED
        BY <3>2, <3>3
    <3> HIDE DEF h, Steps
    <3> QED
      BY <2>3, <2>4, <3>4
  <2>5. CASE m # 0
    <3>1. m \in Nat \ {0} /\ m - 1 \in 0..n /\ ~(m <= m - 1)
      BY <2>3, <2>5
    <3>2. PICK h : Steps(h, m - 1)
      BY <2>2, <3>1
    <3> DEFINE g == [S \in SUBSET (1..m) |->
                      IF m \in S THEN Next1(h[S \ {m}], m) ELSE h[S]]
    <3>3. ASSUME NEW S \in SUBSET (1..m) PROVE g[S] = Value(g, S)
      <4>1. CASE m \in S
        <5>1. Max(S) = m
          <6>1. S \in SUBSET Int /\ \A y \in S : y <= m
            BY <3>1
          <6> QED
            BY <4>1, <6>1, MaxIs
        <5>2. S \ {m} \in SUBSET (1..m) /\ m \notin S \ {m}
          OBVIOUS
        <5>3. g[S \ {m}] = h[S \ {m}]
          BY <5>2
        <5> QED
          BY <4>1, <5>1, <5>3
      <4>2. CASE m \notin S
        <5>1. S \in SUBSET (1..(m - 1)) /\ g[S] = h[S]
          BY <3>1, <4>2
        <5>2. h[S] = Value(h, S)
          <6> HIDE DEF Value
          <6> QED
            BY <3>2, <5>1
        <5>3. S # {} => g[S \ {Max(S)}] = h[S \ {Max(S)}]
          <6>1. S \ {Max(S)} \in SUBSET (1..m) /\ m \notin S \ {Max(S)}
            BY <4>2
          <6> QED
            BY <6>1
        <5> HIDE DEF g
        <5> QED
          BY <5>1, <5>2, <5>3
      <4> QED
        BY <4>1, <4>2
    <3>4. g = [S \in SUBSET (1..m) |-> g[S]]
      OBVIOUS
    <3>5. Steps(g, m)
      <4> HIDE DEF g, Value
      <4> QED
        BY <3>3, <3>4
    <3> HIDE DEF g, Steps
    <3> QED
      BY <2>3, <3>5
  <2> QED
    BY <2>4, <2>5
<1>3. PICK h : Steps(h, n)
  <2>1. n \in 0..n
    OBVIOUS
  <2> HIDE DEF Steps
  <2> QED
    BY <1>2, <2>1
<1>4. \A S \in SUBSET (1..n) : iter[S] = Value(iter, S)
  <2> DEFINE Full(h1, S) == IF S = {} THEN base
                            ELSE LET x == Max(S) IN TakeNamespace(h1[S \ {x}], toks, id[x], l)
  <2>1. DOMAIN id = 1..n
    OBVIOUS
  <2>2. ASSUME NEW h1, NEW S \in SUBSET (1..n) PROVE Full(h1, S) = Value(h1, S)
    <3>1. CASE S # {}
      <4>1. Max(S) \in S
        BY <3>1, Greatest
      <4>2. id[Max(S)] = Max(S)
        BY <2>1, <4>1
      <4> QED
        BY <3>1, <4>2 DEF Next1
    <3>2. CASE S = {}
      BY <3>2
    <3> QED
      BY <3>1, <3>2
  <2>3. h = [S \in SUBSET DOMAIN id |-> Full(h, S)]
    <3> HIDE DEF Full, Value, id
    <3>1. h = [S \in SUBSET (1..n) |-> Value(h, S)]
      BY <1>3
    <3>2. [S \in SUBSET (1..n) |-> Value(h, S)] = [S \in SUBSET (1..n) |-> Full(h, S)]
      BY <2>2
    <3> QED
      BY <2>1, <3>1, <3>2
  <2>4. iter = [S \in SUBSET DOMAIN id |-> Full(iter, S)]
    <3>1. iter = CHOOSE h1 : h1 = [S \in SUBSET DOMAIN id |-> Full(h1, S)]
      BY Zenon
    <3> HIDE DEF iter, Full, id
    <3> QED
      BY <2>3, <3>1
  <2> HIDE DEF iter, Full, id, Value
  <2>5. iter = [S \in SUBSET (1..n) |-> Full(iter, S)]
    BY <2>1, <2>4
  <2> QED
    BY <2>2, <2>5
<1> HIDE DEF iter
<1> DEFINE g == [m \in 0..n |-> iter[1..m]]
<1>5. g[0] = base
  <2>1. 1..0 = {} /\ 0 \in 0..n
    OBVIOUS
  <2> QED
    BY <1>4, <2>1
<1>6. ASSUME NEW k \in 1..n PROVE g[k] = Next1(g[k - 1], k)
  <2>1. 1..k \in SUBSET (1..n) /\ k \in 1..k /\ k \in 0..n /\ k - 1 \in 0..n
    OBVIOUS
  <2>2. (1..k) \ {k} = 1..(k - 1)
    OBVIOUS
  <2>3. Max(1..k) = k
    <3>1. 1..k \in SUBSET Int /\ \A y \in 1..k : y <= k
      OBVIOUS
    <3> QED
      BY <2>1, <3>1, MaxIs
  <2>4. iter[1..k] = Value(iter, 1..k)
    BY <1>4, <2>1
  <2> QED
    BY <2>1, <2>2, <2>3, <2>4
<1>7. TakeAll(base, toks, l) = g[n]
  <2>1. DOMAIN id = 1..n /\ n \in 0..n
    OBVIOUS
  <2> QED
    BY <1>1, <2>1
<1>8. \A k \in 1..n : g[k] = TakeNamespace(g[k - 1], toks, k, l)
  BY <1>6 DEF Next1
<1> HIDE DEF g
<1> QED
  BY <1>5, <1>7, <1>8

LEMMA ConsumeIsChain ==
  ASSUME NEW base, NEW code, NEW rest, NEW l, NEW n \in Nat, DOMAIN rest = 1..n
  PROVE  \E g : /\ g[0] = base
                /\ \A k \in 1..n : g[k] = Consume(g[k - 1], code, rest, k, l)
                /\ ConsumeAll(base, code, rest, l) = g[n]
<1> DEFINE Next1(s, k) == Consume(s, code, rest, k, l)
           Value(h, S) == IF S = {} THEN base ELSE LET x == Max(S) IN Next1(h[S \ {x}], x)
           Steps(h, m) == h = [S \in SUBSET (1..m) |-> Value(h, S)]
           T == {m \in 0..n : ~\E h : Steps(h, m)}
           id == [i \in DOMAIN rest |-> i]
           iter == CHOOSE h : h = [S \in SUBSET DOMAIN id |->
                              IF S = {} THEN base
                              ELSE LET x == Max(S) IN Consume(h[S \ {x}], code, rest, id[x], l)]
<1>1. ConsumeAll(base, code, rest, l) = iter[DOMAIN id]
  BY Zenon DEF ConsumeAll, FoldLeft, MapThenFoldSet
<1> HIDE DEF Next1
<1>2. T = {}
  <2> SUFFICES ASSUME T # {} PROVE FALSE
    OBVIOUS
  <2>1. T \in SUBSET Nat
    <3>1. 0..n \in SUBSET Nat
      OBVIOUS
    <3> QED
      BY <3>1
  <2>2. PICK m \in T : \A k \in T : m <= k
    BY <2>1, Least
  <2>3. m \in 0..n /\ ~\E h : Steps(h, m)
    OBVIOUS
  <2>4. CASE m = 0
    <3> DEFINE h == [S \in SUBSET (1..0) |-> base]
    <3>1. SUBSET (1..0) = {{}}
      OBVIOUS
    <3>2. \A S \in SUBSET (1..0) : h[S] = Value(h, S)
      BY <3>1
    <3>3. h = [S \in SUBSET (1..0) |-> h[S]]
      OBVIOUS
    <3>4. Steps(h, 0)
      <4> HIDE DEF h, Value
      <4> QED
        BY <3>2, <3>3
    <3> HIDE DEF h, Steps
    <3> QED
      BY <2>3, <2>4, <3>4
  <2>5. CASE m # 0
    <3>1. m \in Nat \ {0} /\ m - 1 \in 0..n /\ ~(m <= m - 1)
      BY <2>3, <2>5
    <3>2. PICK h : Steps(h, m - 1)
      BY <2>2, <3>1
    <3> DEFINE g == [S \in SUBSET (1..m) |->
                      IF m \in S THEN Next1(h[S \ {m}], m) ELSE h[S]]
    <3>3. ASSUME NEW S \in SUBSET (1..m) PROVE g[S] = Value(g, S)
      <4>1. CASE m \in S
        <5>1. Max(S) = m
          <6>1. S \in SUBSET Int /\ \A y \in S : y <= m
            BY <3>1
          <6> QED
            BY <4>1, <6>1, MaxIs
        <5>2. S \ {m} \in SUBSET (1..m) /\ m \notin S \ {m}
          OBVIOUS
        <5>3. g[S \ {m}] = h[S \ {m}]
          BY <5>2
        <5> QED
          BY <4>1, <5>1, <5>3
      <4>2. CASE m \notin S
        <5>1. S \in SUBSET (1..(m - 1)) /\ g[S] = h[S]
          BY <3>1, <4>2
        <5>2. h[S] = Value(h, S)
          <6> HIDE DEF Value
          <6> QED
            BY <3>2, <5>1
        <5>3. S # {} => g[S \ {Max(S)}] = h[S \ {Max(S)}]
          <6>1. S \ {Max(S)} \in SUBSET (1..m) /\ m \notin S \ {Max(S)}
            BY <4>2
          <6> QED
            BY <6>1
        <5> HIDE DEF g
        <5> QED
          BY <5>1, <5>2, <5>3
      <4> QED
        BY <4>1, <4>2
    <3>4. g = [S \in SUBSET (1..m) |-> g[S]]
      OBVIOUS
    <3>5. Steps(g, m)
      <4> HIDE DEF g, Value
      <4> QED
        BY <3>3, <3>4
    <3> HIDE DEF g, Steps
    <3> QED
      BY <2>3, <3>5
  <2> QED
    BY <2>4, <2>5
<1>3. PICK h : Steps(h, n)
  <2>1. n \in 0..n
    OBVIOUS
  <2> HIDE DEF Steps
  <2> QED
    BY <1>2, <2>1
<1>4. \A S \in SUBSET (1..n) : iter[S] = Value(iter, S)
  <2> DEFINE Full(h1, S) == IF S = {} THEN base
                            ELSE LET x == Max(S) IN Consume(h1[S \ {x}], code, rest, id[x], l)
  <2>1. DOMAIN id = 1..n
    OBVIOUS
  <2>2. ASSUME NEW h1, NEW S \in SUBSET (1..n) PROVE Full(h1, S) = Value(h1, S)
    <3>1. CASE S # {}
      <4>1. Max(S) \in S
        BY <3>1, Greatest
      <4>2. id[Max(S)] = Max(S)
        BY <2>1, <4>1
      <4> QED
        BY <3>1, <4>2 DEF Next1
    <3>2. CASE S = {}
      BY <3>2
    <3> QED
      BY <3>1, <3>2
  <2>3. h = [S \in SUBSET DOMAIN id |-> Full(h, S)]
    <3> HIDE DEF Full, Value, id
    <3>1. h = [S \in SUBSET (1..n) |-> Value(h, S)]
      BY <1>3
    <3>2. [S \in SUBSET (1..n) |-> Value(h, S)] = [S \in SUBSET (1..n) |-> Full(h, S)]
      BY <2>2
    <3> QED
      BY <2>1, <3>1, <3>2
  <2>4. iter = [S \in SUBSET DOMAIN id |-> Full(iter, S)]
    <3>1. iter = CHOOSE h1 : h1 = [S \in SUBSET DOMAIN id |-> Full(h1, S)]
      BY Zenon
    <3> HIDE DEF iter, Full, id
    <3> QED
      BY <2>3, <3>1
  <2> HIDE DEF iter, Full, id, Value
  <2>5. iter = [S \in SUBSET (1..n) |-> Full(iter, S)]
    BY <2>1, <2>4
  <2> QED
    BY <2>2, <2>5
<1> HIDE DEF iter
<1> DEFINE g == [m \in 0..n |-> iter[1..m]]
<1>5. g[0] = base
  <2>1. 1..0 = {} /\ 0 \in 0..n
    OBVIOUS
  <2> QED
    BY <1>4, <2>1
<1>6. ASSUME NEW k \in 1..n PROVE g[k] = Next1(g[k - 1], k)
  <2>1. 1..k \in SUBSET (1..n) /\ k \in 1..k /\ k \in 0..n /\ k - 1 \in 0..n
    OBVIOUS
  <2>2. (1..k) \ {k} = 1..(k - 1)
    OBVIOUS
  <2>3. Max(1..k) = k
    <3>1. 1..k \in SUBSET Int /\ \A y \in 1..k : y <= k
      OBVIOUS
    <3> QED
      BY <2>1, <3>1, MaxIs
  <2>4. iter[1..k] = Value(iter, 1..k)
    BY <1>4, <2>1
  <2> QED
    BY <2>1, <2>2, <2>3, <2>4
<1>7. ConsumeAll(base, code, rest, l) = g[n]
  <2>1. DOMAIN id = 1..n /\ n \in 0..n
    OBVIOUS
  <2> QED
    BY <1>1, <2>1
<1>8. \A k \in 1..n : g[k] = Consume(g[k - 1], code, rest, k, l)
  BY <1>6 DEF Next1
<1> HIDE DEF g
<1> QED
  BY <1>5, <1>7, <1>8

(* What is left of a line after the namespaces, and a class, is a sequence. *)
LEMMA RestIsSeq ==
  ASSUME NEW toks, toks \in Seq(Range(toks)), NEW stack, NEW l
  PROVE  TakeNamespaces(stack, toks, l).rest \in Seq(Range(toks))
<1> DEFINE base == [stack |-> stack, from |-> 1]
           taken == TakeAll(base, toks, l)
           n == Len(toks)
<1>1. TakeNamespaces(stack, toks, l).rest = SubSeq(toks, taken.from, n)
  <2>1. TakeNamespaces(stack, toks, l)
          = [stack |-> taken.stack, rest |-> SubSeq(toks, taken.from, n)]
    BY Zenon DEF TakeNamespaces, TakeAll, FoldLeft, MapThenFoldSet
  <2>2. PICK r, t, q : /\ r = TakeNamespaces(stack, toks, l) /\ t = taken.stack
                       /\ q = SubSeq(toks, taken.from, n)
    OBVIOUS
  <2>3. r = [stack |-> t, rest |-> q]
    BY <2>1, <2>2
  <2>4. r.rest = q
    BY <2>3
  <2> QED
    BY <2>2, <2>4
<1>2. n \in Nat /\ DOMAIN toks = 1..n
  BY LenProperties
<1> HIDE DEF base
<1>3. PICK g : /\ g[0] = base
               /\ \A k \in 1..n : g[k] = TakeNamespace(g[k - 1], toks, k, l)
               /\ taken = g[n]
  BY <1>2, TakeIsChain
<1> HIDE DEF taken
<1> DEFINE T == {k \in 0..n : g[k].from \notin Nat \ {0}}
<1>4. T = {}
  <2> SUFFICES ASSUME T # {} PROVE FALSE
    OBVIOUS
  <2>1. T \in SUBSET Nat
    <3>1. 0..n \in SUBSET Nat
      BY <1>2
    <3> QED
      BY <3>1
  <2>2. PICK k \in T : \A i \in T : k <= i
    BY <2>1, Least
  <2>3. k \in 0..n /\ g[k].from \notin Nat \ {0}
    OBVIOUS
  <2>4. k # 0
    BY <1>3, <2>3 DEF base
  <2>5. k \in 1..n /\ k - 1 \in 0..n /\ ~(k <= k - 1) /\ k \in Nat
    BY <1>2, <2>3, <2>4
  <2>6. g[k - 1].from \in Nat \ {0}
    BY <2>2, <2>5
  <2> DEFINE brace == {m \in (k + 1)..Len(toks) : toks[m] = "{"}
             end == IF brace = {} THEN k ELSE Min(brace)
  <2>7. end \in Nat
    <3>1. CASE brace # {}
      <4>1. brace \in SUBSET Nat
        <5>1. (k + 1)..Len(toks) \in SUBSET Nat
          BY <2>5, <1>2
        <5> QED
          BY <5>1
      <4>2. PICK m \in brace : \A i \in brace : m <= i
        BY <3>1, <4>1, Least
      <4> HIDE DEF brace
      <4>3. m \in Nat /\ brace \in SUBSET Int
        BY <4>1, <4>2
      <4> QED
        BY <3>1, <4>2, <4>3, MinIs
    <3> QED
      BY <2>5, <3>1
  <2>8. g[k] = TakeNamespace(g[k - 1], toks, k, l)
    BY <1>3, <2>5
  <2>9. \/ g[k] = g[k - 1]
        \/ \E s : g[k] = [stack |-> s, from |-> end + 1]
    BY <2>8 DEF TakeNamespace
  <2> HIDE DEF end
  <2>10. CASE g[k] = g[k - 1]
    BY <2>3, <2>6, <2>10
  <2>11. CASE \E s : g[k] = [stack |-> s, from |-> end + 1]
    <3>1. g[k].from = end + 1
      BY <2>11
    <3> QED
      BY <2>3, <2>7, <3>1
  <2> QED
    BY <2>9, <2>10, <2>11
<1>5. taken.from \in Nat \ {0}
  <2>1. n \in 0..n
    BY <1>2
  <2> QED
    BY <1>3, <1>4, <2>1
<1>6. \A i \in taken.from..n : toks[i] \in Range(toks)
  <2>1. \A i \in 1..n : toks[i] \in Range(toks)
    BY <1>2 DEF Range
  <2>2. \A i \in taken.from..n : i \in 1..n
    BY <1>2, <1>5
  <2> QED
    BY <2>1, <2>2
<1>7. SubSeq(toks, taken.from, n) \in Seq(Range(toks))
  BY <1>2, <1>5, <1>6, SubSeqProperties
<1> QED
  BY <1>1, <1>7

(* What Update and the checks beside it say is not about headers.           *)
Aside == {Indent, Namespace, IndentationNamespace, FnSize}

LEMMA AsideAre ==
  Aside \cap {Include, IncludeOrder, IncludeWhatYouUse} = {}
BY DEF Aside, Indent, Namespace, IndentationNamespace, FnSize, Include, IncludeOrder,
       IncludeWhatYouUse

LEMMA UpdateSays ==
  ASSUME NEW st, NEW l, text[l].toks \in Seq(Range(text[l].toks)),
         NEW x \in Update(st, text, l).errors
  PROVE  x.cat \in Aside
<1> DEFINE code == text[l]
           p == UpdatePreprocessor(st, code.pp)
           ns == TakeNamespaces(CountParentheses(p.stack, code.toks), code.toks, l)
           head == TakeClass(ns.stack, ns.rest, text, l)
           base == [stack |-> head.stack, from |-> 1,
                    errors |-> AccessErrors(head.stack, code, head.rest, l)]
           u == ConsumeAll(base, code, head.rest, l)
           n == Len(head.rest)
<1>1. Update(st, text, l).errors = u.errors
  <2>1. UpdateStack(p.stack, text, l) = u
    BY Zenon DEF UpdateStack, ConsumeAll, FoldLeft, MapThenFoldSet
  <2> HIDE DEF u
  <2> QED
    BY <2>1 DEF Update
<1>2. head.rest \in Seq(Range(code.toks))
  <2>1. ns.rest \in Seq(Range(code.toks))
    BY RestIsSeq
  <2> HIDE DEF ns
  <2>2. CASE ns.rest # <<>>
    <3>1. Tail(ns.rest) \in Seq(Range(code.toks))
      BY <2>1, <2>2, HeadTailProperties
    <3> QED
      BY <2>1, <3>1 DEF TakeClass
  <2>3. CASE ns.rest = <<>>
    BY <2>1, <2>3 DEF TakeClass
  <2> QED
    BY <2>2, <2>3
<1>3. n \in Nat /\ DOMAIN head.rest = 1..n
  BY <1>2, LenProperties
<1> HIDE DEF head, base
<1>4. PICK g : /\ g[0] = base
               /\ \A k \in 1..n : g[k] = Consume(g[k - 1], code, head.rest, k, l)
               /\ u = g[n]
  BY <1>3, ConsumeIsChain, SMTT(30)
<1> HIDE DEF u
<1> DEFINE Good(a) == "errors" \in DOMAIN a /\ \A y \in a.errors : y.cat \in Aside
           T == {k \in 0..n : ~Good(g[k])}
<1>5. Good(g[0])
  <2>1. \A y \in AccessErrors(head.stack, code, head.rest, l) : y.cat = Indent
    BY DEF AccessErrors, Err
  <2> QED
    BY <1>4, <2>1 DEF base, Aside
<1>6. T = {}
  <2> SUFFICES ASSUME T # {} PROVE FALSE
    OBVIOUS
  <2>1. T \in SUBSET Nat
    <3>1. 0..n \in SUBSET Nat
      BY <1>3
    <3> QED
      BY <3>1
  <2>2. PICK k \in T : \A i \in T : k <= i
    BY <2>1, Least
  <2>3. k \in 0..n /\ ~Good(g[k])
    OBVIOUS
  <2>4. k # 0
    BY <1>5, <2>3
  <2>5. k \in 1..n /\ k - 1 \in 0..n /\ ~(k <= k - 1)
    BY <1>3, <2>3, <2>4
  <2>6. Good(g[k - 1])
    BY <2>2, <2>5
  <2>7. g[k] = Consume(g[k - 1], code, head.rest, k, l)
    BY <1>4, <2>5
  <2>8. ASSUME NEW a, Good(a), NEW i PROVE Good(Consume(a, code, head.rest, i, l))
    <3>1. \A b : \A y \in CheckEnd(b, code, l) : y.cat \in {Indent, Namespace}
      <4> SUFFICES ASSUME NEW b, NEW y \in CheckEnd(b, code, l)
                   PROVE  y.cat \in {Indent, Namespace}
        OBVIOUS
      <4>1. CASE b.kind = "namespace"
        <5>1. CheckEnd(b, code, l) \subseteq Err(l, Namespace, 5)
          BY <4>1 DEF CheckEnd
        <5> QED
          BY <5>1 DEF Err
      <4>2. CASE b.kind = "class"
        <5>1. CheckEnd(b, code, l) \subseteq Err(l, Indent, 3)
          BY <4>2 DEF CheckEnd
        <5> QED
          BY <5>1 DEF Err
      <4>3. CASE b.kind \notin {"namespace", "class"}
        BY <4>3 DEF CheckEnd
      <4> QED
        BY <4>1, <4>2, <4>3
    <3>2. PICK c : c = Consume(a, code, head.rest, i, l)
      OBVIOUS
    <3>3. \/ c = a
          \/ \E s, f : c = [a EXCEPT !.from = f, !.stack = s]
          \/ \E f : c = [a EXCEPT !.from = f]
          \/ \E s, f, b : c = [stack |-> s, from |-> f,
                               errors |-> a.errors \cup CheckEnd(b, code, l)]
      BY <3>2 DEF Consume
    <3>4. "errors" \in DOMAIN a /\ \A y \in a.errors : y.cat \in Aside
      BY <2>8
    <3>5. "errors" \in DOMAIN c /\ \A y \in c.errors : y.cat \in Aside
      <4>1. CASE \E s, f : c = [a EXCEPT !.from = f, !.stack = s]
        BY <3>4, <4>1
      <4>2. CASE \E f : c = [a EXCEPT !.from = f]
        BY <3>4, <4>2
      <4>3. CASE \E s, f, b : c = [stack |-> s, from |-> f,
                                  errors |-> a.errors \cup CheckEnd(b, code, l)]
        <5>1. PICK s, f, b, E : /\ E = a.errors \cup CheckEnd(b, code, l)
                                /\ c = [stack |-> s, from |-> f, errors |-> E]
          BY <4>3
        <5>2. "errors" \in DOMAIN c /\ c.errors = E
          BY <5>1
        <5>3. \A y \in E : y.cat \in Aside
          BY <3>1, <3>4, <5>1 DEF Aside
        <5> QED
          BY <5>2, <5>3
      <4> QED
        BY <3>3, <3>4, <4>1, <4>2, <4>3
    <3> QED
      BY <3>2, <3>5
  <2> HIDE DEF Good
  <2> QED
    BY <2>3, <2>6, <2>7, <2>8
<1>7. Good(u)
  <2>1. n \in 0..n
    BY <1>3
  <2> QED
    BY <1>4, <1>6, <2>1
<1> QED
  BY <1>1, <1>7

(* What is said of a directive is of its line.                              *)
LEMMA DirectiveSays ==
  ASSUME NEW inc, NEW l
  PROVE  LET says == TakeDirective(inc, file, text, l).errors
             h == text[l].inc
         IN  /\ \A x \in says : /\ x.line = l
                                /\ x.cat \in {Include, IncludeOrder, IncludeAlpha}
             /\ Says(l, "again") \subseteq says
                  <=> text[l].pp = "include" /\ Included(inc, h.name)
             /\ (\E x \in says : x.cat = IncludeOrder)
                  <=> /\ text[l].pp = "include" /\ ~Included(inc, h.name)
                      /\ ~Foreign(h) /\ ~h.third
                      /\ OutOfOrder(inc.section, ClassifyInclude(file, h))
<1> DEFINE says == TakeDirective(inc, file, text, l).errors
           h == text[l].inc
           out == OutOfOrder(inc.section, ClassifyInclude(file, h))
<1>1. Include # IncludeOrder /\ Include # IncludeAlpha /\ IncludeOrder # IncludeAlpha
  BY DEF Include, IncludeOrder, IncludeAlpha
<1>2. \A w : \A x \in Says(l, w) : x.line = l /\ x.cat = Include /\ x.what = w
  BY DEF Says
<1>3. \A c : \A x \in Wrong(l, c) : x.line = l /\ x.cat = c
  BY DEF Wrong
<1>4. \A w : \E x : Says(l, w) = {x}
  BY DEF Says
<1>5. \A c : \E x : Wrong(l, c) = {x}
  BY DEF Wrong
<1>6. CASE text[l].pp # "include"
  <2>1. says = {}
    BY <1>6 DEF TakeDirective
  <2> QED
    BY <1>4, <1>6, <2>1
<1>7. CASE text[l].pp = "include"
  <2>1. says = CheckIncludeLine(inc, file, text, l).errors
    BY <1>7 DEF TakeDirective
  <2>2. PICK bare : /\ bare \in {{}, Says(l, "bare")}
                    /\ bare = IF /\ ~h.sys /\ h.dir = <<>> /\ h.ext = "h" /\ ~h.third
                                 /\ text[l].indent = 0
                              THEN Says(l, "bare") ELSE {}
    OBVIOUS
  <2>3. CASE Included(inc, h.name)
    <3>1. says = bare \cup Says(l, "again")
      BY <2>1, <2>2, <2>3 DEF CheckIncludeLine
    <3> QED
      BY <1>1, <1>2, <1>7, <2>2, <2>3, <3>1
  <2>4. CASE ~Included(inc, h.name) /\ Foreign(h)
    <3>1. says = bare \cup Says(l, "foreign")
      BY <2>1, <2>2, <2>4 DEF CheckIncludeLine, Foreign
    <3>2. \A x \in says : x.cat = Include => x.what # "again"
      BY <1>2, <2>2, <3>1
    <3>3. ~(Says(l, "again") \subseteq says)
      BY <1>2, <1>4, <3>2
    <3> QED
      BY <1>1, <1>2, <1>7, <2>2, <2>4, <3>1, <3>3
  <2>5. CASE ~Included(inc, h.name) /\ ~Foreign(h) /\ h.third
    <3>1. says = bare
      BY <2>1, <2>2, <2>5 DEF CheckIncludeLine, Foreign
    <3>2. \A x \in says : x.cat = Include => x.what # "again"
      BY <1>2, <2>2, <3>1
    <3>3. ~(Says(l, "again") \subseteq says)
      BY <1>2, <1>4, <3>2
    <3> QED
      BY <1>1, <1>2, <1>7, <2>2, <2>5, <3>1, <3>3
  <2>6. CASE ~Included(inc, h.name) /\ ~Foreign(h) /\ ~h.third
    <3>1. says = bare \cup Judge(inc, file, text, l).errors
      BY <2>1, <2>2, <2>6 DEF CheckIncludeLine, Foreign
    <3>2. PICK alpha : /\ alpha \in {{}, Wrong(l, IncludeAlpha)}
                       /\ Judge(inc, file, text, l).errors
                            = (IF out THEN Wrong(l, IncludeOrder) ELSE {}) \cup alpha
      BY DEF Judge
    <3>3. ~(Says(l, "again") \subseteq says)
      <4>1. \A x \in bare : x.what # "again"
        BY <1>2, <2>2
      <4>2. \A x \in Judge(inc, file, text, l).errors : x.cat # Include
        BY <1>1, <1>3, <3>2
      <4>3. \A x \in says : x.cat # Include \/ x.what # "again"
        BY <3>1, <4>1, <4>2
      <4> QED
        BY <1>2, <1>4, <4>3
    <3>4. (\E x \in says : x.cat = IncludeOrder) <=> out
      BY <1>1, <1>2, <1>3, <1>5, <2>2, <3>1, <3>2
    <3>5. \A x \in says : x.line = l /\ x.cat \in {Include, IncludeOrder, IncludeAlpha}
      BY <1>2, <1>3, <2>2, <3>1, <3>2
    <3> QED
      BY <1>7, <2>6, <3>3, <3>4, <3>5
  <2> QED
    BY <2>3, <2>4, <2>5, <2>6
<1> QED
  BY <1>6, <1>7

LinesInv == \A l \in DOMAIN text : text[l].toks \in Seq(Range(text[l].toks))

(* What a line adds to what is said of headers.                             *)
LEMMA LineSays ==
  ASSUME TextInv, LinesInv, ProcessLine
  PROVE  LET inside == InAsmBlock(Update(nesting, text, line).stack)
             says == TakeDirective(includes, file, text, line).errors
         IN  /\ errors \subseteq errors' /\ (~inside => says \subseteq errors')
             /\ \A x \in errors' : x.cat \in {Include, IncludeOrder, IncludeWhatYouUse} =>
                  x \in errors \/ (~inside /\ x \in says)
<1> DEFINE n == Update(nesting, text, line)
           inside == InAsmBlock(n.stack)
           says == TakeDirective(includes, file, text, line).errors
           f == CheckForFunctionLengths(function, line)
           spaces == CheckForNamespaceIndentation(nesting.stack, n.stack, text, line)
<1>1. line \in DOMAIN text
  BY IfsAre DEF ProcessLine, TextInv
<1>2. \A x \in n.errors : x.cat \in Aside
  BY <1>1, UpdateSays DEF LinesInv
<1>3. \A x \in spaces : x.cat \in Aside
  BY DEF CheckForNamespaceIndentation, ShouldCheckNamespaceIndentation, Err, Aside
<1>4. \A x \in f.errors : x.cat \in Aside
  <2>1. \A c : \A x \in Err(line, FnSize, c) : x.cat \in Aside
    BY DEF Err, Aside
  <2>2. \/ f.errors = {}
        \/ \E c : f.errors = Err(line, FnSize, c)
    BY DEF CheckForFunctionLengths, CheckLength
  <2> QED
    BY <2>1, <2>2
<1>5. errors' = errors \cup n.errors \cup spaces \cup (IF inside THEN {} ELSE f.errors \cup says)
  BY DEF ProcessLine
<1> HIDE DEF n, says, f, spaces, inside
<1>6. \A x \in errors' : x.cat \in {Include, IncludeOrder, IncludeWhatYouUse} =>
        x \in errors \/ (~inside /\ x \in says)
  BY <1>2, <1>3, <1>4, <1>5, AsideAre
<1> QED
  BY <1>5, <1>6 DEF n, says, inside

(* ... and what is known of it afterwards: nothing changes for other lines. *)
LEMMA LineJudged ==
  ASSUME TextInv, LinesInv, ProcessLine, NEW n, n = line, ErrorsAre(n)
  PROVE  LET inside == InAsmBlock(Update(nesting, text, line).stack)
             h == text[n].inc
         IN  /\ ErrorsAre(n + 1)'
             /\ \A i : i # n => /\ Again(i)' <=> Again(i)
                                /\ Reported(i, IncludeOrder)' <=> Reported(i, IncludeOrder)
             /\ Again(n)' <=> /\ ~inside /\ text[n].pp = "include"
                              /\ Included(includes, h.name)
             /\ Reported(n, IncludeOrder)' <=>
                  /\ ~inside /\ text[n].pp = "include" /\ ~Included(includes, h.name)
                  /\ ~Foreign(h) /\ ~h.third
                  /\ OutOfOrder(includes.section, ClassifyInclude(file, h))
<1> DEFINE inside == InAsmBlock(Update(nesting, text, line).stack)
           h == text[n].inc
           says == TakeDirective(includes, file, text, n).errors
<1>1. n \in Nat /\ n \in 1..n /\ n \notin 1..(n - 1) /\ (n + 1) - 1 = n
  BY DEF TextInv, ProcessLine
<1>2. /\ errors \subseteq errors' /\ (~inside => says \subseteq errors')
      /\ \A x \in errors' : x.cat \in {Include, IncludeOrder, IncludeWhatYouUse} =>
           x \in errors \/ (~inside /\ x \in says)
  BY LineSays
<1>3. /\ \A x \in says : x.line = n /\ x.cat \in {Include, IncludeOrder, IncludeAlpha}
      /\ Says(n, "again") \subseteq says
           <=> text[n].pp = "include" /\ Included(includes, h.name)
      /\ (\E x \in says : x.cat = IncludeOrder)
           <=> /\ text[n].pp = "include" /\ ~Included(includes, h.name)
               /\ ~Foreign(h) /\ ~h.third
               /\ OutOfOrder(includes.section, ClassifyInclude(file, h))
  BY DirectiveSays
<1> HIDE DEF inside, says
<1>4. /\ Include # IncludeWhatYouUse /\ IncludeOrder # IncludeWhatYouUse
      /\ IncludeAlpha # IncludeWhatYouUse
  BY DEF Include, IncludeOrder, IncludeAlpha, IncludeWhatYouUse
<1>5. ErrorsAre(n + 1)'
  <2> SUFFICES ASSUME NEW x \in errors'
               PROVE  /\ x.cat # IncludeWhatYouUse
                      /\ x.cat \in {Include, IncludeOrder} => x.line \in 1..n
    BY <1>1 DEF ErrorsAre
  <2>1. CASE x \in errors
    <3>1. x.line \in 1..(n - 1) => x.line \in 1..n
      BY <1>1
    <3> QED
      BY <2>1, <3>1 DEF ErrorsAre
  <2>2. CASE x \in says
    BY <1>1, <1>3, <1>4, <2>2
  <2> QED
    BY <1>2, <2>1, <2>2
<1>6. \A i, w : \A x \in Says(i, w) : x.line = i /\ x.cat = Include
  BY DEF Says
<1>7. \A i : i # n => Again(i)' <=> Again(i)
  <2> SUFFICES ASSUME NEW i, i # n, NEW S, S = Says(i, "again")
               PROVE  S \subseteq errors' <=> S \subseteq errors
    BY DEF Again
  <2> QED
    BY <1>2, <1>3, <1>6
<1>8. \A i : i # n => Reported(i, IncludeOrder)' <=> Reported(i, IncludeOrder)
  BY <1>2, <1>3 DEF Reported
<1>9. Again(n)' <=> ~inside /\ Says(n, "again") \subseteq says
  <2> SUFFICES ASSUME NEW S, S = Says(n, "again")
               PROVE  S \subseteq errors' <=> ~inside /\ S \subseteq says
    BY DEF Again
  <2>1. \E x : x \in S
    BY DEF Says
  <2>2. \A x \in S : x \notin errors
    BY <1>1, <1>6 DEF ErrorsAre
  <2> QED
    BY <1>2, <1>6, <2>1, <2>2
<1>10. Reported(n, IncludeOrder)' <=> ~inside /\ \E x \in says : x.cat = IncludeOrder
  <2>1. \A x \in errors : x.cat = IncludeOrder => x.line # n
    BY <1>1 DEF ErrorsAre
  <2> QED
    BY <1>2, <1>3, <2>1 DEF Reported
<1> QED
  BY <1>3, <1>5, <1>7, <1>8, <1>9, <1>10 DEF inside

(* What depends on the text and the name of the file only.                  *)
LEMMA SameHeaders ==
  ASSUME text' = text, file' = file
  PROVE  /\ Includes' = Includes
         /\ \A h : Foreign(h)' <=> Foreign(h)
         /\ \A i : Named(i)' = Named(i) /\ Kind(i)' = Kind(i)
         /\ \A i, j : /\ Exclusive(i, j)' <=> Exclusive(i, j)
                      /\ Implies(i, j)' <=> Implies(i, j)
                      /\ IfIn(i, j)' <=> IfIn(i, j)
                      /\ Dropped(i, j)' <=> Dropped(i, j)
         /\ Nested' <=> Nested
         /\ Stray' <=> Stray
<1>1. /\ Ifs' = Ifs
      /\ \A j, k : Holds(j, k)' <=> Holds(j, k)
      /\ \A j, k : Branch(j, k)' = Branch(j, k)
  BY SameText
<1>2. \A h : Foreign(h)' <=> Foreign(h)
  BY DEF Foreign
<1>3. Includes' = Includes
  BY <1>2 DEF Includes
<1>4. \A i : Named(i)' = Named(i) /\ Kind(i)' = Kind(i)
  BY DEF Named, Kind
<1>5. \A i, j : IfIn(i, j)' <=> IfIn(i, j)
  BY DEF IfIn
<1>6. \A i, j : Dropped(i, j)' <=> Dropped(i, j)
  BY <1>5 DEF Dropped
<1>7. \A i, j : Exclusive(i, j)' <=> Exclusive(i, j)
  BY <1>1 DEF Exclusive
<1>8. \A i, j : Implies(i, j)' <=> Implies(i, j)
  BY <1>1 DEF Implies
<1>9. Nested' <=> Nested
  BY <1>1 DEF Nested
<1>10. Stray' <=> Stray
  BY <1>1 DEF Stray
<1> QED
  BY <1>2, <1>3, <1>4, <1>5, <1>6, <1>7, <1>8, <1>9, <1>10
-----------------------------------------------------------------------------
(* The sections.                                                            *)
Ordered == {"c", "cpp", "other"}

LEMMA KindIs ==
  ASSUME NEW i
  PROVE  Kind(i) \in {"c", "cpp", "likely", "possible", "other"}
BY DEF Kind, ClassifyInclude

LEMMA SectionAfter ==
  ASSUME NEW s \in Initial..OtherH, NEW kind \in {"c", "cpp", "likely", "possible", "other"}
  PROVE  /\ kind = "c" => Section(s, kind) = IF s <= C THEN C ELSE s
         /\ kind = "cpp" => Section(s, kind) = IF s <= Cpp THEN Cpp ELSE s
         /\ kind = "other" => Section(s, kind) = OtherH
         /\ kind \notin Ordered => Section(s, kind) = IF s <= MyH THEN MyH ELSE OtherH
<1>1. s \in Int /\ C \in Int /\ Cpp \in Int
  BY DEF Initial, C, Cpp, OtherH
<1>2. ASSUME NEW a \in Int PROVE Max({s, a}) = IF s <= a THEN a ELSE s
  <2>1. CASE s <= a
    <3>1. a \in {s, a} /\ {s, a} \in SUBSET Int /\ \A y \in {s, a} : y <= a
      BY <1>1, <2>1
    <3> QED
      BY <2>1, <3>1, MaxIs
  <2>2. CASE ~(s <= a)
    <3>1. s \in {s, a} /\ {s, a} \in SUBSET Int /\ \A y \in {s, a} : y <= s
      BY <1>1, <2>2
    <3> QED
      BY <2>2, <3>1, MaxIs
  <2> QED
    BY <2>1, <2>2
<1>3. Max({s, C}) = (IF s <= C THEN C ELSE s) /\ Max({s, Cpp}) = (IF s <= Cpp THEN Cpp ELSE s)
  BY <1>1, <1>2
<1> QED
  BY <1>3 DEF Section, Ordered

(* The ranks of what has been included recently.                            *)
LEMMA RanksAre ==
  ASSUME NEW j
  PROVE  /\ Kind(j) = "c" => Rank(j) = C
         /\ Kind(j) = "cpp" => Rank(j) = Cpp
         /\ Kind(j) = "other" => Rank(j) = OtherH
         /\ Kind(j) \notin Ordered =>
              Rank(j) = IF \E k \in Stretch(j) : Kind(k) \in Ordered THEN OtherH ELSE MyH
BY DEF Rank, Ordered

LEMMA OrderedIs ==
  ASSUME TextInv, NEW n \in Nat, SectionIs(n)
  PROVE  (\E k \in Recent(n) : Kind(k) \in Ordered) <=> includes.section > MyH
<1>1. ASSUME NEW k \in Recent(n), Kind(k) \in Ordered PROVE includes.section > MyH
  <2>1. Rank(k) \in {C, Cpp, OtherH} /\ Rank(k) <= includes.section
    BY <1>1, RanksAre DEF SectionIs, Ordered
  <2> QED
    BY <2>1 DEF SectionIs, C, Cpp, OtherH, MyH, Initial
<1>2. ASSUME includes.section > MyH PROVE \E k \in Recent(n) : Kind(k) \in Ordered
  <2>1. includes.section # Initial
    BY <1>2 DEF Initial, MyH
  <2>2. PICK j \in Recent(n) : Rank(j) = includes.section
    BY <2>1 DEF SectionIs
  <2>3. CASE Kind(j) \in Ordered
    BY <2>3
  <2>4. CASE Kind(j) \notin Ordered
    <3>1. PICK k \in Stretch(j) : Kind(k) \in Ordered
      BY <1>2, <2>2, <2>4, RanksAre DEF MyH
    <3>2. j \in Nat /\ k \in Nat /\ k \in Includes /\ ~Again(k) /\ k < j /\ j < n
      BY <3>1, IfsAre DEF Stretch, Recent, Includes
    <3>3. \A m \in k..(n - 1) : m \in k..j \/ m \in j..(n - 1)
      BY <3>2
    <3>4. \A m \in k..(n - 1) : text[m].pp \notin Branching
      BY <3>1, <3>3 DEF Stretch, Recent, Branching
    <3>5. k \in Recent(n)
      BY <3>2, <3>4 DEF Recent
    <3> QED
      BY <3>1, <3>5
  <2> QED
    BY <2>3, <2>4
<1> QED
  BY <1>1, <1>2

(* The same for the ranks, as long as nothing changes for the lines before. *)
LEMMA SameRanks ==
  ASSUME text' = text, file' = file, TextInv, NEW n \in Nat,
         \A i : i # n => Again(i)' <=> Again(i)
  PROVE  /\ \A i \in 1..n : Stretch(i)' = Stretch(i) /\ Rank(i)' = Rank(i)
         /\ Recent(n)' = Recent(n)
<1>1. Includes' = Includes /\ \A i : Kind(i)' = Kind(i)
  BY SameHeaders
<1>2. Includes \in SUBSET Nat
  BY IfsAre DEF Includes
<1>3. ASSUME NEW i \in 1..n PROVE Stretch(i)' = Stretch(i)
  <2>1. \A j \in Includes : j < i => (Again(j)' <=> Again(j))
    BY <1>2
  <2> QED
    BY <1>1, <2>1 DEF Stretch
<1>4. ASSUME NEW i \in 1..n PROVE Rank(i)' = Rank(i)
  BY <1>1, <1>3 DEF Rank
<1>5. Recent(n)' = Recent(n)
  <2>1. \A j \in Includes : j < n => (Again(j)' <=> Again(j))
    BY <1>2
  <2> QED
    BY <1>1, <2>1 DEF Recent
<1> QED
  BY <1>3, <1>4, <1>5

(* What a line does to the headers: nothing, a new section, or one more.    *)
LEMMA DirectiveStep ==
  ASSUME TextInv, ProcessLine, NEW n, n = line, InCode'
  PROVE  LET inside == InAsmBlock(Update(nesting, text, line).stack) IN
         \/ /\ includes' = includes /\ text[n].pp \notin Branching
            /\ n \in Includes => ~inside /\ Included(includes, Named(n))
         \/ /\ text[n].pp \in Branching /\ n \notin Includes
            /\ includes' = ResetSection(includes, text[n].pp)
         \/ /\ n \in Includes /\ ~inside /\ ~Included(includes, Named(n))
            /\ includes' = Judge(includes, file, text, n).inc
<1> DEFINE inside == InAsmBlock(Update(nesting, text, line).stack)
<1>1. inside => includes' = includes /\ skipped' = skipped \cup {line} /\ text' = text
  BY DEF ProcessLine
<1>2. ~inside => includes' = TakeDirective(includes, file, text, n).inc
  BY DEF ProcessLine
<1> HIDE DEF inside
<1>3. CASE inside
  <2>1. text[n].pp \in {"none", "define"}
    BY <1>1, <1>3 DEF InCode
  <2> QED
    BY <1>1, <1>3, <2>1 DEF Branching, Includes
<1>4. CASE ~inside
  <2>1. CASE text[n].pp \in Branching
    <3>1. includes' = ResetSection(includes, text[n].pp)
      BY <1>2, <1>4, <2>1 DEF TakeDirective, Branching
    <3> QED
      BY <2>1, <3>1 DEF Branching, Includes
  <2>2. CASE text[n].pp = "include"
    <3>1. includes' = CheckIncludeLine(includes, file, text, n).inc
      BY <1>2, <1>4, <2>2 DEF TakeDirective
    <3> DEFINE h == text[n].inc
    <3>2. CASE Included(includes, h.name)
      BY <1>4, <2>2, <3>1, <3>2 DEF CheckIncludeLine, Named, Branching, inside
    <3>3. CASE ~Included(includes, h.name) /\ (Foreign(h) \/ h.third)
      BY <2>2, <3>1, <3>3 DEF CheckIncludeLine, Foreign, Includes, Branching
    <3>4. CASE ~Included(includes, h.name) /\ ~Foreign(h) /\ ~h.third
      <4>1. includes' = Judge(includes, file, text, n).inc
        BY <3>1, <3>4 DEF CheckIncludeLine, Foreign
      <4>2. n \in Includes
        BY <2>2, <3>4, IfsAre DEF Includes, TextInv, ProcessLine
      <4> QED
        BY <1>4, <3>4, <4>1, <4>2 DEF Named, inside
    <3> QED
      BY <3>2, <3>3, <3>4
  <2>3. CASE text[n].pp \notin Branching \cup {"include"}
    <3>1. includes' = includes
      BY <1>2, <1>4, <2>3 DEF TakeDirective, Branching
    <3> QED
      BY <2>3, <3>1 DEF Includes
  <2> QED
    BY <2>1, <2>2, <2>3
<1> QED
  BY <1>3, <1>4 DEF inside

OrderAt(i) ==
  Reported(i, IncludeOrder) <=>
    /\ Kind(i) \in {"c", "cpp"} /\ ~Again(i)
    /\ \E j \in Stretch(i) : Rank(j) > Rank(i)

(* The includes that are recent one line later.                             *)
LEMMA RecentNext ==
  ASSUME TextInv, LinesInv, ProcessLine, NEW n \in Nat, n = line, ErrorsAre(n)
  PROVE  /\ text[n].pp \in Branching => Recent(n + 1)' = {}
         /\ text[n].pp \notin Branching =>
              Recent(n + 1)' = Recent(n) \cup (IF n \in Includes /\ ~Again(n)' THEN {n} ELSE {})
         /\ \A i \in 1..n : Stretch(i)' = Stretch(i) /\ Rank(i)' = Rank(i)
<1>1. text' = text /\ file' = file
  BY DEF ProcessLine
<1>2. \A i : i # n => Again(i)' <=> Again(i)
  BY LineJudged
<1>3. Includes' = Includes /\ Includes \in SUBSET Nat
  BY <1>1, SameHeaders, IfsAre DEF Includes
<1>4. \A i \in 1..n : Stretch(i)' = Stretch(i) /\ Rank(i)' = Rank(i)
  BY <1>1, <1>2, SameRanks
<1>5. (n + 1) - 1 = n
  OBVIOUS
<1>6. Recent(n + 1)' = {j \in Includes : /\ j < n + 1 /\ ~Again(j)'
                                         /\ \A k \in j..n : text[k].pp \notin Branching}
  BY <1>1, <1>3, <1>5 DEF Recent
<1>7. \A j \in Includes : j < n + 1 <=> j < n \/ j = n
  BY <1>3
<1>8. \A j \in Includes : j < n + 1 => n \in j..n
  BY <1>3
<1>9. \A j \in Includes : \A k : k \in j..n <=> k \in j..(n - 1) \/ (k = n /\ j <= n)
  BY <1>3
<1>10. text[n].pp \in Branching => Recent(n + 1)' = {}
  BY <1>6, <1>8
<1>11. ASSUME text[n].pp \notin Branching
       PROVE  Recent(n + 1)' = Recent(n) \cup (IF n \in Includes /\ ~Again(n)' THEN {n} ELSE {})
  <2>1. \A j \in Includes : (\A k \in j..n : text[k].pp \notin Branching)
                              <=> \A k \in j..(n - 1) : text[k].pp \notin Branching
    BY <1>9, <1>11
  <2>2. \A k : k \notin n..(n - 1)
    OBVIOUS
  <2>3. ASSUME NEW j PROVE j \in Recent(n + 1)' <=>
                             j \in Recent(n) \/ (j = n /\ n \in Includes /\ ~Again(n)')
    <3>1. CASE j = n
      <4>1. ~(n < n) /\ n < n + 1
        OBVIOUS
      <4> QED
        BY <1>6, <2>1, <2>2, <3>1, <4>1 DEF Recent
    <3>2. CASE j # n
      BY <1>2, <1>6, <1>7, <2>1, <3>2 DEF Recent
    <3> QED
      BY <3>1, <3>2
  <2> QED
    BY <2>3
<1> QED
  BY <1>4, <1>10, <1>11

(* The section one line later, and what is said of the order there.         *)
LEMMA SectionNext ==
  ASSUME TextInv, LinesInv, ProcessLine, NEW n \in Nat, n = line, ErrorsAre(n),
         InCode', SectionIs(n)
  PROVE  SectionIs(n + 1)' /\ (n \in Includes => OrderAt(n)')
<1> DEFINE inside == InAsmBlock(Update(nesting, text, line).stack)
           s == includes.section
           kind == Kind(n)
<1>1. text' = text /\ file' = file /\ n \in 1..n
  BY DEF ProcessLine, TextInv
<1>2. /\ text[n].pp \in Branching => Recent(n + 1)' = {}
      /\ text[n].pp \notin Branching =>
           Recent(n + 1)' = Recent(n) \cup (IF n \in Includes /\ ~Again(n)' THEN {n} ELSE {})
      /\ \A i \in 1..n : Stretch(i)' = Stretch(i) /\ Rank(i)' = Rank(i)
  BY RecentNext
<1>3. /\ Again(n)' <=> ~inside /\ text[n].pp = "include" /\ Included(includes, text[n].inc.name)
      /\ Reported(n, IncludeOrder)' <=>
           /\ ~inside /\ text[n].pp = "include" /\ ~Included(includes, text[n].inc.name)
           /\ ~Foreign(text[n].inc) /\ ~text[n].inc.third
           /\ OutOfOrder(includes.section, ClassifyInclude(file, text[n].inc))
  BY LineJudged
<1> HIDE DEF inside
<1>4. ASSUME NEW j \in Recent(n) PROVE j \in 1..n /\ Rank(j)' = Rank(j)
  BY <1>2, IfsAre DEF Recent, Includes
<1>5. s \in Initial..OtherH
  BY DEF SectionIs
<1>6. ASSUME includes'.section = s, Recent(n + 1)' = Recent(n)
      PROVE  SectionIs(n + 1)'
  BY <1>4, <1>6 DEF SectionIs
<1>7. Kind(n)' = Kind(n) /\ Kind(n) = ClassifyInclude(file, text[n].inc)
  BY <1>1, SameHeaders DEF Kind
<1>8. n \in Includes => /\ Stretch(n) = Recent(n) /\ Stretch(n)' = Recent(n)
                        /\ text[n].pp = "include" /\ text[n].pp \notin Branching
                        /\ ~Foreign(text[n].inc) /\ ~text[n].inc.third
  <2> SUFFICES ASSUME n \in Includes
               PROVE  /\ Stretch(n) = Recent(n) /\ text[n].pp = "include"
                      /\ ~Foreign(text[n].inc) /\ ~text[n].inc.third
    BY <1>1, <1>2 DEF Branching
  <2>1. text[n].pp = "include"
    BY DEF Includes
  <2>2. ASSUME NEW j \in Includes, j < n
        PROVE  (\A k \in j..n : text[k].pp \notin Branching)
                 <=> \A k \in j..(n - 1) : text[k].pp \notin Branching
    <3>1. j \in Nat
      BY IfsAre DEF Includes
    <3>2. \A k : k \in j..n <=> k \in j..(n - 1) \/ k = n
      BY <2>2, <3>1
    <3> QED
      BY <2>1, <3>2 DEF Branching
  <2>3. Stretch(n) = {j \in Includes : /\ j < n /\ ~Again(j)
                                       /\ \A k \in j..n : text[k].pp \notin Branching}
    BY DEF Stretch, Branching
  <2>4. \A j : j \in Stretch(n) <=> j \in Recent(n)
    BY <2>2, <2>3 DEF Recent
  <2> QED
    BY <2>1, <2>4 DEF Includes
<1>9. CASE /\ includes' = includes /\ text[n].pp \notin Branching
           /\ n \in Includes => ~inside /\ Included(includes, Named(n))
  <2>1. n \in Includes => Again(n)'
    BY <1>3, <1>8, <1>9 DEF Named
  <2>2. Recent(n + 1)' = Recent(n)
    BY <1>2, <1>9, <2>1
  <2>3. n \in Includes => OrderAt(n)'
    BY <1>3, <1>9, <2>1 DEF OrderAt, Named
  <2> QED
    BY <1>6, <1>9, <2>2, <2>3
<1>10. CASE /\ text[n].pp \in Branching /\ n \notin Includes
            /\ includes' = ResetSection(includes, text[n].pp)
  <2>1. includes'.section = Initial /\ Recent(n + 1)' = {}
    BY <1>2, <1>10 DEF ResetSection
  <2> QED
    BY <1>10, <2>1 DEF SectionIs, Initial, OtherH
<1>11. CASE /\ n \in Includes /\ ~inside /\ ~Included(includes, Named(n))
            /\ includes' = Judge(includes, file, text, n).inc
  <2>1. includes'.section = Section(s, kind)
    BY <1>7, <1>11 DEF Judge
  <2>2. ~Again(n)'
    BY <1>3, <1>11 DEF Named
  <2>3. Recent(n + 1)' = Recent(n) \cup {n}
    BY <1>2, <1>8, <1>11, <2>2
  <2>4. /\ kind = "c" => Section(s, kind) = IF s <= C THEN C ELSE s
        /\ kind = "cpp" => Section(s, kind) = IF s <= Cpp THEN Cpp ELSE s
        /\ kind = "other" => Section(s, kind) = OtherH
        /\ kind \notin Ordered => Section(s, kind) = IF s <= MyH THEN MyH ELSE OtherH
    BY <1>5, KindIs, SectionAfter
  <2>5. /\ kind = "c" => Rank(n) = C
        /\ kind = "cpp" => Rank(n) = Cpp
        /\ kind = "other" => Rank(n) = OtherH
        /\ kind \notin Ordered => Rank(n) = IF s > MyH THEN OtherH ELSE MyH
    BY <1>8, <1>11, RanksAre, OrderedIs
  <2>6. kind \in {"c", "cpp", "likely", "possible", "other"}
    BY KindIs
  <2> DEFINE r == Rank(n)
             t == Section(s, kind)
  <2>7. /\ s \in 0..4 /\ t \in 0..4 /\ r \in 1..4 /\ s <= t /\ r <= t
        /\ t = s \/ t = r
    BY <1>5, <2>4, <2>5, <2>6 DEF Initial, MyH, C, Cpp, OtherH, Ordered
  <2>8. Rank(n)' = r
    BY <1>1, <1>2
  <2>9. \A j \in Recent(n) : Rank(j) <= s /\ Rank(j) \in 1..4
    <3>1. \A j : Rank(j) \in 1..4
      BY KindIs, RanksAre DEF Ordered, MyH, C, Cpp, OtherH
    <3> QED
      BY <3>1 DEF SectionIs
  <2>10. SectionIs(n + 1)'
    <3>1. ASSUME NEW j \in Recent(n) \cup {n} PROVE Rank(j)' <= t
      BY <1>4, <2>7, <2>8, <2>9
    <3>2. ASSUME t # Initial PROVE \E j \in Recent(n) \cup {n} : Rank(j)' = t
      <4>1. CASE t = r
        BY <2>8, <4>1
      <4>2. CASE t = s
        <5>1. PICK j \in Recent(n) : Rank(j) = s
          BY <3>2, <4>2 DEF SectionIs
        <5> QED
          BY <1>4, <4>2, <5>1
      <4> QED
        BY <2>7, <4>1, <4>2
    <3>3. t \in Initial..OtherH
      BY <2>7 DEF Initial, OtherH
    <3> QED
      BY <2>1, <2>3, <3>1, <3>2, <3>3 DEF SectionIs
  <2>11. Reported(n, IncludeOrder)' <=> OutOfOrder(s, kind)
    BY <1>3, <1>7, <1>8, <1>11 DEF Named
  <2>12. OutOfOrder(s, kind) <=> kind \in {"c", "cpp"} /\ s > r
    BY <2>5 DEF OutOfOrder
  <2>13. s > r <=> \E j \in Recent(n) : Rank(j) > r
    <3>1. s # Initial => \E j \in Recent(n) : Rank(j) = s
      BY DEF SectionIs
    <3> QED
      BY <2>7, <2>9, <3>1 DEF Initial
  <2>14. (\E j \in Stretch(n) : Rank(j) > Rank(n))' <=> \E j \in Recent(n) : Rank(j) > r
    BY <1>4, <1>8, <1>11, <2>8
  <2> QED
    BY <1>7, <2>2, <2>10, <2>11, <2>12, <2>13, <2>14 DEF OrderAt
<1> QED
  BY <1>9, <1>10, <1>11, DirectiveStep DEF inside
-----------------------------------------------------------------------------
(* The headers that are listed, one line later.                             *)
LEMMA EntryNext ==
  ASSUME text' = text, file' = file, NEW n \in Nat, NEW x, NEW last, EntryIs(x, last, n), TextInv,
         NEW later \in BOOLEAN,
         later => last /\ text[n].pp \notin {"if", "else"},
         ~later => ~last \/ text[n].pp = "if",
         last => text[n].pp # "else"
  PROVE  EntryIs(x, later, n + 1)'
<1>1. Includes' = Includes /\ Named(x.line)' = Named(x.line)
      /\ \A i, j : IfIn(i, j)' <=> IfIn(i, j)
  BY SameHeaders
<1>2. x.line \in Nat /\ x.line \in Includes /\ x.line < n /\ x.name = Named(x.line)
  BY IfsAre DEF EntryIs, Includes
<1>3. (n + 1) - 1 = n /\ x.line < n + 1
  BY <1>2
<1>4. \A m \in x.line..n : m \in x.line..(n - 1) \/ m = n
  BY <1>2
<1>5. \A m \in x.line..(n - 1) : m \in x.line..n
  BY <1>2
<1>6. n \in x.line..n
  BY <1>2
<1>7. IfIn(x.line, n - 1) => IfIn(x.line, n)
  BY <1>5 DEF IfIn
<1>8. ~later => IfIn(x.line, n)
  BY <1>6, <1>7 DEF EntryIs, IfIn
<1>9. later => \A m \in x.line..n : text[m].pp \notin {"if", "else"}
  BY <1>4 DEF EntryIs
<1>10. ASSUME NEW e \in x.line..n, text[e].pp = "else" PROVE IfIn(x.line, e)
  <2>1. CASE e \in x.line..(n - 1)
    BY <1>10, <2>1 DEF EntryIs
  <2>2. CASE e = n
    <3>1. ~last
      BY <1>10, <2>2
    <3> QED
      BY <1>7, <2>2, <3>1 DEF EntryIs
  <2> QED
    BY <1>4, <2>1, <2>2
<1> QED
  BY <1>1, <1>2, <1>3, <1>8, <1>9, <1>10 DEF EntryIs

LEMMA RangeOps ==
  ASSUME NEW s, IsSeq(s), NEW x
  PROVE  /\ Range(Append(s, x)) = Range(s) \cup {x}
         /\ Range(<<>>) = {}
         /\ \A i \in DOMAIN s : s[i] \in Range(s)
<1>1. DOMAIN s = 1..Len(s) /\ Len(s) \in Nat
  BY SeqOps
<1>2. /\ DOMAIN Append(s, x) = 1..(Len(s) + 1) /\ Append(s, x)[Len(s) + 1] = x
      /\ \A i \in 1..Len(s) : Append(s, x)[i] = s[i]
  BY AppendOps
<1>3. 1..(Len(s) + 1) = 1..Len(s) \cup {Len(s) + 1}
  BY <1>1
<1>4. \A y : y \in Range(Append(s, x)) <=> y \in Range(s) \cup {x}
  BY <1>1, <1>2, <1>3 DEF Range
<1>5. Range(<<>>) = {}
  BY DEF Range
<1> QED
  BY <1>4, <1>5 DEF Range

(* Either the list has stayed, or its end is new.                           *)
LEMMA ListsAre ==
  ASSUME NEW list, IsSeq(list), list # <<>>, NEW y, NEW z
  PROVE  /\ LET new == Append(list, y) IN
            /\ IsSeq(new) /\ new # <<>> /\ Len(new) = Len(list) + 1
            /\ DOMAIN new = 1..(Len(list) + 1) /\ new[Len(list) + 1] = y
            /\ \A a \in 1..Len(list) : new[a] = list[a]
         /\ LET new == Append(Front(list), z) IN
            /\ IsSeq(new) /\ new # <<>> /\ Len(new) = Len(list)
            /\ DOMAIN new = 1..Len(list) /\ new[Len(list)] = z
            /\ \A a \in 1..(Len(list) - 1) : new[a] = list[a]
         /\ DOMAIN list = 1..Len(list) /\ Len(list) \in Nat \ {0} /\ Last(list) = list[Len(list)]
<1>1. DOMAIN list = 1..Len(list) /\ Len(list) \in Nat /\ Len(list) # 0
  BY SeqOps
<1>2. /\ IsSeq(Front(list)) /\ Len(Front(list)) = Len(list) - 1
      /\ \A i \in 1..(Len(list) - 1) : Front(list)[i] = list[i]
      /\ Last(list) = list[Len(list)]
  BY FrontOps
<1>3. /\ IsSeq(Append(list, y)) /\ Len(Append(list, y)) = Len(list) + 1
      /\ DOMAIN Append(list, y) = 1..(Len(list) + 1)
      /\ Append(list, y)[Len(list) + 1] = y
      /\ \A i \in 1..Len(list) : Append(list, y)[i] = list[i]
  BY AppendOps
<1>4. PICK s : s = Front(list)
  OBVIOUS
<1>5. /\ IsSeq(Append(s, z)) /\ Len(Append(s, z)) = Len(s) + 1
      /\ DOMAIN Append(s, z) = 1..(Len(s) + 1)
      /\ Append(s, z)[Len(s) + 1] = z
      /\ \A i \in 1..Len(s) : Append(s, z)[i] = s[i]
  BY <1>2, <1>4, AppendOps
<1>6. Len(s) = Len(list) - 1 /\ Len(s) + 1 = Len(list)
  <2>1. Len(s) = Len(list) - 1
    BY <1>2, <1>4
  <2> QED
    BY <1>1, <2>1
<1>7. Append(list, y) # <<>> /\ Append(s, z) # <<>>
  <2>1. Len(Append(list, y)) # 0
    BY <1>1, <1>3
  <2>2. Len(Append(s, z)) # 0
    BY <1>1, <1>5, <1>6
  <2>3. Append(list, y) # <<>>
    BY <1>3, <2>1, SeqOps
  <2>4. Append(s, z) # <<>>
    BY <1>5, <2>2, SeqOps
  <2> QED
    BY <2>3, <2>4
<1> QED
  BY <1>1, <1>2, <1>3, <1>4, <1>5, <1>6, <1>7

LEMMA ListNext ==
  ASSUME TextInv, ProcessLine, NEW n \in Nat, n = line, InCode', ListIs(n)
  PROVE  /\ ListIs(n + 1)'
         /\ \A a \in DOMAIN includes.list : \A x \in Range(includes.list[a]) :
              \/ \E b \in DOMAIN includes'.list : x \in Range(includes'.list[b])
              \/ text[n].pp = "else" /\ a = Len(includes.list)
         /\ n \in Includes =>
              \E b \in DOMAIN includes'.list : \E x \in Range(includes'.list[b]) :
                x.name = Named(n) /\ x.line <= n
<1> DEFINE list == includes.list
           new == includes'.list
<1>1. text' = text /\ file' = file
  BY DEF ProcessLine
<1>2. IsSeq(list) /\ list # <<>>
  BY DEF ListIs
<1>3. DOMAIN list = 1..Len(list) /\ Len(list) \in Nat \ {0} /\ Last(list) = list[Len(list)]
  BY <1>2, ListsAre
<1>4. \A a \in DOMAIN list :
        IsSeq(list[a]) /\ \A x \in Range(list[a]) : EntryIs(x, a = Len(list), n)
  BY DEF ListIs
<1>5. SUFFICES ASSUME NEW k, k = list, NEW m, m = new
               PROVE  /\ /\ IsSeq(m) /\ m # <<>>
                         /\ \A a \in DOMAIN m :
                              IsSeq(m[a]) /\ \A x \in Range(m[a]) : EntryIs(x, a = Len(m), n + 1)'
                      /\ \A a \in DOMAIN k : \A x \in Range(k[a]) :
                           \/ \E b \in DOMAIN m : x \in Range(m[b])
                           \/ text[n].pp = "else" /\ a = Len(k)
                      /\ n \in Includes =>
                           \E b \in DOMAIN m : \E x \in Range(m[b]) :
                             x.name = Named(n) /\ x.line <= n
  BY DEF ListIs
<1> HIDE DEF list, new
<1>6. CASE m = k /\ text[n].pp \notin {"if", "else"}
           /\ (n \in Includes => Included(includes, Named(n)))
  <2>1. ASSUME NEW a \in DOMAIN m, NEW x \in Range(m[a]) PROVE EntryIs(x, a = Len(m), n + 1)'
    <3>1. EntryIs(x, a = Len(k), n)
      BY <1>4, <1>5, <1>6
    <3>2. (a = Len(m)) \in BOOLEAN /\ (a = Len(m)) = (a = Len(k))
      BY <1>6
    <3> QED
      BY <1>1, <1>6, <3>1, <3>2, EntryNext
  <2>2. ASSUME n \in Includes
        PROVE  \E b \in DOMAIN m : \E x \in Range(m[b]) : x.name = Named(n) /\ x.line <= n
    <3>1. PICK b \in DOMAIN k : \E x \in Range(k[b]) : x.name = Named(n)
      BY <1>5, <1>6, <2>2 DEF Included, list
    <3>2. PICK x \in Range(k[b]) : x.name = Named(n)
      BY <3>1
    <3>3. x.line \in Includes /\ x.line < n
      BY <1>4, <1>5, <3>2 DEF EntryIs
    <3>4. x.line <= n
      BY <3>3, IfsAre DEF Includes
    <3> QED
      BY <1>6, <3>2, <3>4
  <2> QED
    BY <1>2, <1>4, <1>5, <1>6, <2>1, <2>2
<1>7. CASE m = Append(k, <<>>) /\ text[n].pp = "if" /\ n \notin Includes
  <2>1. /\ IsSeq(m) /\ m # <<>> /\ Len(m) = Len(k) + 1
        /\ DOMAIN m = 1..(Len(k) + 1) /\ m[Len(k) + 1] = <<>>
        /\ \A a \in 1..Len(k) : m[a] = k[a]
    BY <1>2, <1>5, <1>7, ListsAre
  <2>2. ASSUME NEW a \in DOMAIN m
        PROVE  IsSeq(m[a]) /\ \A x \in Range(m[a]) : EntryIs(x, a = Len(m), n + 1)'
    <3>1. CASE a = Len(k) + 1
      <4>1. m[a] = <<>>
        BY <2>1, <3>1
      <4>2. IsSeq(<<>>) /\ Range(<<>>) = {}
        BY EmptySeq DEF IsSeq, Range
      <4> QED
        BY <4>1, <4>2
    <3>2. CASE a # Len(k) + 1
      <4>1. a \in 1..Len(k) /\ a # Len(m)
        BY <1>3, <1>5, <2>1, <3>2
      <4>2. ASSUME NEW x \in Range(m[a]) PROVE EntryIs(x, FALSE, n + 1)'
        <5>1. EntryIs(x, a = Len(k), n)
          BY <1>3, <1>4, <1>5, <2>1, <4>1
        <5> QED
          BY <1>1, <1>7, <5>1, EntryNext
      <4>3. (a = Len(m)) = FALSE
        BY <4>1
      <4> QED
        BY <1>3, <1>4, <1>5, <2>1, <4>1, <4>2, <4>3
    <3> QED
      BY <3>1, <3>2
  <2>3. \A a \in DOMAIN k : a \in DOMAIN m /\ m[a] = k[a]
    BY <1>3, <1>5, <2>1
  <2> QED
    BY <1>7, <2>1, <2>2, <2>3
<1>8. CASE m = Append(Front(k), <<>>) /\ text[n].pp = "else" /\ n \notin Includes
  <2>1. /\ IsSeq(m) /\ m # <<>> /\ Len(m) = Len(k)
        /\ DOMAIN m = 1..Len(k) /\ m[Len(k)] = <<>>
        /\ \A a \in 1..(Len(k) - 1) : m[a] = k[a]
    BY <1>2, <1>5, <1>8, ListsAre
  <2>2. ASSUME NEW a \in DOMAIN m
        PROVE  IsSeq(m[a]) /\ \A x \in Range(m[a]) : EntryIs(x, a = Len(m), n + 1)'
    <3>1. CASE a = Len(k)
      <4>1. m[a] = <<>>
        BY <2>1, <3>1
      <4>2. IsSeq(<<>>) /\ Range(<<>>) = {}
        BY EmptySeq DEF IsSeq, Range
      <4> QED
        BY <4>1, <4>2
    <3>2. CASE a # Len(k)
      <4>1. a \in 1..(Len(k) - 1) /\ a \in DOMAIN k /\ a # Len(m)
        BY <1>3, <1>5, <2>1, <3>2
      <4>2. ASSUME NEW x \in Range(m[a]) PROVE EntryIs(x, FALSE, n + 1)'
        <5>1. EntryIs(x, a = Len(k), n)
          BY <1>4, <1>5, <2>1, <4>1
        <5>2. (a = Len(k)) = FALSE
          BY <3>2
        <5>3. EntryIs(x, FALSE, n)
          BY <5>1, <5>2
        <5> QED
          BY <1>1, <5>3, EntryNext
      <4>3. (a = Len(m)) = FALSE
        BY <4>1
      <4> QED
        BY <1>4, <1>5, <2>1, <4>1, <4>2, <4>3
    <3> QED
      BY <3>1, <3>2
  <2>3. \A a \in DOMAIN k : a # Len(k) => a \in DOMAIN m /\ m[a] = k[a]
    BY <1>3, <1>5, <2>1
  <2> QED
    BY <1>8, <2>1, <2>2, <2>3
<1>9. ASSUME n \in Includes, NEW rec, rec.name = Named(n), rec.line = n, rec.of = text[n].inc,
             m = Append(Front(k), Append(Last(k), rec))
      PROVE  /\ /\ IsSeq(m) /\ m # <<>>
                /\ \A a \in DOMAIN m :
                     IsSeq(m[a]) /\ \A x \in Range(m[a]) : EntryIs(x, a = Len(m), n + 1)'
             /\ \A a \in DOMAIN k : \A x \in Range(k[a]) :
                  \/ \E b \in DOMAIN m : x \in Range(m[b])
                  \/ text[n].pp = "else" /\ a = Len(k)
             /\ \E b \in DOMAIN m : \E x \in Range(m[b]) :
                  x.name = Named(n) /\ x.line <= n
  <2>1. /\ IsSeq(m) /\ m # <<>> /\ Len(m) = Len(k)
        /\ DOMAIN m = 1..Len(k) /\ m[Len(k)] = Append(Last(k), rec)
        /\ \A a \in 1..(Len(k) - 1) : m[a] = k[a]
    <3>1. PICK z : z = Append(Last(k), rec)
      OBVIOUS
    <3>2. IsSeq(k) /\ k # <<>> /\ m = Append(Front(k), z)
      BY <1>2, <1>5, <1>9, <3>1
    <3>3. /\ IsSeq(m) /\ m # <<>> /\ Len(m) = Len(k)
          /\ DOMAIN m = 1..Len(k) /\ m[Len(k)] = z
          /\ \A a \in 1..(Len(k) - 1) : m[a] = k[a]
      BY <3>2, ListsAre
    <3> QED
      BY <3>1, <3>3
  <2>2. Last(k) = k[Len(k)] /\ Len(k) \in DOMAIN k /\ DOMAIN k = 1..Len(k) /\ Len(k) \in Nat
    BY <1>3, <1>5
  <2>3. IsSeq(Last(k))
    BY <1>4, <1>5, <2>2
  <2>4. /\ IsSeq(Append(Last(k), rec))
        /\ Range(Append(Last(k), rec)) = Range(Last(k)) \cup {rec}
    BY <2>3, AppendOps, RangeOps
  <2>5. text[n].pp = "include"
    BY <1>9 DEF Includes
  <2>6. ASSUME NEW x, NEW last \in BOOLEAN, EntryIs(x, last, n) PROVE EntryIs(x, last, n + 1)'
    BY <1>1, <2>5, <2>6, EntryNext
  <2>7. EntryIs(rec, TRUE, n + 1)'
    <3>1. Includes' = Includes /\ Named(n)' = Named(n)
      BY <1>1, SameHeaders
    <3>2. n < n + 1 /\ (n + 1) - 1 = n /\ \A i \in n..n : i = n
      OBVIOUS
    <3> QED
      BY <1>1, <1>9, <2>5, <3>1, <3>2 DEF EntryIs
  <2>8. ASSUME NEW a \in DOMAIN m
        PROVE  IsSeq(m[a]) /\ \A x \in Range(m[a]) : EntryIs(x, a = Len(m), n + 1)'
    <3>1. CASE a = Len(k)
      <4>1. ASSUME NEW x \in Range(m[a]) PROVE EntryIs(x, TRUE, n + 1)'
        <5>1. CASE x = rec
          BY <2>7, <5>1
        <5>2. CASE x \in Range(k[a])
          <6>1. EntryIs(x, a = Len(k), n) /\ (a = Len(k)) = TRUE
            BY <1>4, <1>5, <2>2, <3>1, <5>2
          <6>2. EntryIs(x, TRUE, n)
            BY <6>1
          <6> QED
            BY <2>6, <6>2
        <5> QED
          BY <2>1, <2>2, <2>4, <3>1, <5>1, <5>2
      <4>2. (a = Len(m)) = TRUE
        BY <2>1, <3>1
      <4> QED
        BY <2>1, <2>4, <3>1, <4>1, <4>2
    <3>2. CASE a # Len(k)
      <4>1. a \in 1..(Len(k) - 1) /\ a \in DOMAIN k
        BY <2>1, <2>2, <3>2
      <4>2. ASSUME NEW x \in Range(m[a]) PROVE EntryIs(x, FALSE, n + 1)'
        <5>1. EntryIs(x, a = Len(k), n) /\ (a = Len(k)) = FALSE
          BY <1>4, <1>5, <2>1, <3>2, <4>1
        <5>2. EntryIs(x, FALSE, n)
          BY <5>1
        <5> QED
          BY <2>6, <5>2
      <4>3. (a = Len(m)) = FALSE
        BY <2>1, <3>2
      <4> QED
        BY <1>4, <1>5, <2>1, <4>1, <4>2, <4>3
    <3> QED
      BY <3>1, <3>2
  <2>9. ASSUME NEW a \in DOMAIN k, NEW x \in Range(k[a])
        PROVE  \E b \in DOMAIN m : x \in Range(m[b])
    <3>1. CASE a = Len(k)
      BY <2>1, <2>2, <2>4, <3>1
    <3>2. CASE a # Len(k)
      <4>1. a \in 1..(Len(k) - 1) /\ a \in DOMAIN m
        BY <2>1, <2>2, <3>2
      <4> QED
        BY <2>1, <4>1
    <3> QED
      BY <3>1, <3>2
  <2>10. \E b \in DOMAIN m : \E x \in Range(m[b]) : x.name = Named(n) /\ x.line <= n
    <3>1. rec \in Range(m[Len(k)]) /\ Len(k) \in DOMAIN m /\ n <= n
      BY <2>1, <2>2, <2>4
    <3> QED
      BY <1>9, <3>1
  <2> QED
    BY <2>1, <2>8, <2>9, <2>10
<1>10. CASE /\ includes' = includes /\ text[n].pp \notin Branching
            /\ n \in Includes => Included(includes, Named(n))
  BY <1>5, <1>6, <1>10 DEF Branching, list, new
<1>11. CASE /\ text[n].pp \in Branching /\ n \notin Includes
            /\ includes' = ResetSection(includes, text[n].pp)
  <2>1. m = CASE text[n].pp = "if" -> Append(k, <<>>)
              [] text[n].pp = "else" -> Append(Front(k), <<>>)
              [] OTHER -> k
    BY <1>5, <1>11 DEF ResetSection, list, new
  <2> QED
    BY <1>6, <1>7, <1>8, <1>11, <2>1 DEF Branching
<1>12. CASE /\ n \in Includes /\ includes' = Judge(includes, file, text, n).inc
  <2> DEFINE rec == [name |-> text[n].inc.name, line |-> n, of |-> text[n].inc]
  <2>1. m = Append(Front(k), Append(Last(k), rec))
    BY <1>5, <1>12 DEF Judge, list, new
  <2>2. rec.name = Named(n) /\ rec.line = n /\ rec.of = text[n].inc
    BY DEF Named
  <2> HIDE DEF rec
  <2> QED
    BY <1>9, <1>12, <2>1, <2>2
<1> QED
  BY <1>10, <1>11, <1>12, DirectiveStep

LEMMA KeptNext ==
  ASSUME TextInv, ProcessLine, NEW n \in Nat, n = line, InCode', ListIs(n), Kept(n)
  PROVE  Kept(n + 1)'
<1>1. text' = text /\ file' = file
  BY DEF ProcessLine
<1>2. Includes' = Includes /\ (\A j : Named(j)' = Named(j))
      /\ \A i, j : Dropped(i, j)' <=> Dropped(i, j)
  BY <1>1, SameHeaders
<1>3. /\ \A a \in DOMAIN includes.list : \A x \in Range(includes.list[a]) :
           \/ \E b \in DOMAIN includes'.list : x \in Range(includes'.list[b])
           \/ text[n].pp = "else" /\ a = Len(includes.list)
      /\ n \in Includes =>
           \E b \in DOMAIN includes'.list : \E x \in Range(includes'.list[b]) :
             x.name = Named(n) /\ x.line <= n
  BY ListNext
<1>4. \A x : x \in Listed(includes)
               <=> \E a \in DOMAIN includes.list : x \in Range(includes.list[a])
  BY DEF Listed
<1>5. \A x : x \in Listed(includes)'
               <=> \E b \in DOMAIN includes'.list : x \in Range(includes'.list[b])
  BY DEF Listed
<1>6. ASSUME NEW j \in Includes, j < n + 1 PROVE Listing(j)' \/ Dropped(j, n + 1)
  <2>1. j \in Nat
    BY IfsAre DEF Includes
  <2>2. CASE j = n
    BY <1>2, <1>3, <1>5, <1>6, <2>2 DEF Listing
  <2>3. CASE j # n
    <3>1. j < n /\ (Listing(j) \/ Dropped(j, n))
      BY <1>6, <2>1, <2>3 DEF Kept
    <3>2. \A e \in (j + 1)..(n - 1) : e \in (j + 1)..((n + 1) - 1)
      BY <2>1
    <3>3. CASE Dropped(j, n)
      BY <3>2, <3>3 DEF Dropped
    <3>4. CASE Listing(j)
      <4>1. PICK x : x \in Listed(includes) /\ x.name = Named(j) /\ x.line <= j
        BY <3>4 DEF Listing
      <4>2. PICK a \in DOMAIN includes.list : x \in Range(includes.list[a])
        BY <1>4, <4>1
      <4>3. CASE \E b \in DOMAIN includes'.list : x \in Range(includes'.list[b])
        BY <1>2, <1>5, <4>1, <4>3 DEF Listing
      <4>4. CASE text[n].pp = "else" /\ a = Len(includes.list)
        <5>1. x.line \in Includes /\ \A m \in x.line..(n - 1) : text[m].pp \notin {"if", "else"}
          BY <4>2, <4>4 DEF ListIs, EntryIs
        <5>2. x.line \in Nat /\ x.line <= j
          BY <4>1, <5>1, IfsAre DEF Includes
        <5>3. \A m \in j..n : m \in x.line..(n - 1) \/ m = n
          BY <2>1, <5>2
        <5>4. ~IfIn(j, n)
          BY <4>4, <5>1, <5>3 DEF IfIn
        <5>5. n \in (j + 1)..((n + 1) - 1)
          BY <2>1, <3>1
        <5> QED
          BY <4>4, <5>4, <5>5 DEF Dropped
      <4> QED
        BY <1>3, <4>2, <4>3, <4>4
    <3> QED
      BY <3>1, <3>3, <3>4
  <2> QED
    BY <2>2, <2>3
<1> QED
  BY <1>2, <1>6 DEF Kept
-----------------------------------------------------------------------------
LEMMA EndIs ==
  ASSUME TextInv, NEW c \in Ifs
  PROVE  EndOf(c) \in Int
<1> DEFINE ends == {m \in c..Len(text) : PP(c, m, "if") = PP(c, m, "endif")}
<1>1. EndOf(c) = IF ends = {} THEN Len(text) + 1 ELSE Min(ends)
  BY DEF EndOf
<1>2. c \in Nat /\ Len(text) \in Nat
  BY IfsAre
<1>3. CASE ends # {}
  <2>1. ends \in SUBSET Nat
    <3>1. c..Len(text) \in SUBSET Nat
      BY <1>2
    <3> QED
      BY <3>1
  <2>2. PICK m \in ends : \A i \in ends : m <= i
    BY <1>3, <2>1, Least
  <2> HIDE DEF ends
  <2>3. m \in Int /\ ends \in SUBSET Int
    BY <2>1, <2>2
  <2> QED
    BY <1>1, <1>3, <2>2, <2>3, MinIs
<1> QED
  BY <1>1, <1>2, <1>3

(* An #else that drops what line j includes is of a conditional around j.   *)
LEMMA Dropping ==
  ASSUME TextInv, ~Stray, NEW n \in Nat, n <= Len(text) + 1, NEW j \in Includes, Dropped(j, n)
  PROVE  \E c \in Ifs, e \in (j + 1)..(n - 1) :
           Holds(c, j) /\ Innermost(c, e) /\ text[e].pp = "else"
<1>1. PICK e \in (j + 1)..(n - 1) : text[e].pp = "else" /\ ~IfIn(j, e)
  BY DEF Dropped
<1>2. j \in 1..Len(text) /\ Len(text) \in Nat /\ e \in 1..Len(text) /\ j < e
  BY <1>1, IfsAre DEF Includes
<1> DEFINE T == {c \in Ifs : Holds(c, e)}
<1>3. T # {} /\ T \in SUBSET (1..Len(text))
  <2>1. e \in DOMAIN text
    BY <1>2, IfsAre
  <2>2. Ifs \in SUBSET (1..Len(text))
    BY IfsAre DEF Ifs
  <2> QED
    BY <1>1, <2>1, <2>2 DEF Stray
<1>4. Max(T) \in T /\ \A c \in T : c <= Max(T)
  BY <1>2, <1>3, Greatest
<1>5. PICK c : c = Max(T)
  OBVIOUS
<1>6. c \in Ifs /\ Holds(c, e) /\ \A i \in Ifs : Holds(i, e) => i <= c
  BY <1>4, <1>5
<1>7. c \in Nat /\ Ifs \in SUBSET Nat
  BY <1>6, IfsAre
<1>8. Innermost(c, e)
  BY <1>6, <1>7 DEF Innermost
<1>9. c < j
  <2>1. c <= e /\ text[c].pp = "if"
    BY <1>6 DEF Holds, Ifs
  <2>2. c \notin j..e
    BY <1>1, <2>1 DEF IfIn
  <2> QED
    BY <1>2, <1>7, <2>1, <2>2
<1>10. Holds(c, j)
  <2>1. EndOf(c) \in Int
    BY <1>6, EndIs
  <2>2. e < EndOf(c)
    BY <1>6 DEF Holds
  <2> QED
    BY <1>2, <1>6, <1>7, <1>9, <2>1, <2>2 DEF Holds
<1> QED
  BY <1>1, <1>6, <1>8, <1>10

(* The branch of a conditional changes where it has an #else, and only      *)
(* there.                                                                   *)
LEMMA ElseCounts ==
  ASSUME NEW c \in Nat, NEW j \in Nat, NEW e \in Nat, NEW i \in Nat,
         c <= j, j < e, e <= i, text[e].pp = "else", Innermost(c, e)
  PROVE  Branch(c, j) # Branch(c, i)
<1>1. e - 1 \in Nat /\ (e - 1) + 1 = e /\ c <= (e - 1) + 1 /\ j <= e - 1
  OBVIOUS
<1>2. Branch(c, e - 1) \in Nat /\ Branch(c, e) = Branch(c, e - 1) + 1
  <2>1. PICK k \in Nat : k = e - 1 /\ k + 1 = e
    BY <1>1
  <2>2. /\ Branch(c, k) \in Nat
        /\ Branch(c, k + 1) = Branch(c, k)
             + (IF text[k + 1].pp = "else" /\ Innermost(c, k + 1) THEN 1 ELSE 0)
    BY <1>1, <2>1, BranchGrows
  <2>3. (IF text[k + 1].pp = "else" /\ Innermost(c, k + 1) THEN 1 ELSE 0) = 1
    BY <2>1
  <2> QED
    BY <2>1, <2>2, <2>3
<1>3. /\ Branch(c, j) \in Nat /\ Branch(c, i) \in Nat
      /\ Branch(c, j) <= Branch(c, e - 1) /\ Branch(c, e) <= Branch(c, i)
  BY <1>1, BranchRises
<1> QED
  BY <1>2, <1>3

LEMMA BranchDiffers ==
  ASSUME NEW c \in Nat, NEW j \in Nat, NEW i \in Nat, c <= j, j <= i,
         Branch(c, i) # Branch(c, j)
  PROVE  \E e \in (j + 1)..i : text[e].pp = "else" /\ Innermost(c, e)
<1> SUFFICES ASSUME \A e \in (j + 1)..i : ~(text[e].pp = "else" /\ Innermost(c, e))
             PROVE  FALSE
  OBVIOUS
<1>1. \A e : e \in c..i <=> e \in c..j \/ e \in (j + 1)..i
  OBVIOUS
<1>2. {e \in c..i : text[e].pp = "else" /\ Innermost(c, e)}
        = {e \in c..j : text[e].pp = "else" /\ Innermost(c, e)}
  BY <1>1
<1> QED
  BY <1>2 DEF Branch

RepeatAt(i) == Again(i) <=> \E j \in Same(i) : ~Dropped(j, i)

DuplicatesAt(i) ==
  /\ (\E j \in Same(i) : Implies(i, j)) => Again(i)
  /\ Again(i) /\ ~Nested => \E j \in Same(i) : ~Exclusive(i, j)

(* What is said of a duplicate is right: what an #else has left out is not  *)
(* compiled with the line, and what it has not may be.                      *)
LEMMA DuplicatesNext ==
  ASSUME TextInv, LinesInv, ProcessLine, NEW n \in Nat, n = line, ErrorsAre(n),
         InCode', ListIs(n), Kept(n), n \in Includes
  PROVE  RepeatAt(n)' /\ (~Stray => DuplicatesAt(n)')
<1> DEFINE same == {j \in Includes : j < n /\ Named(j) = Named(n)}
           inside == InAsmBlock(Update(nesting, text, line).stack)
<1>1. text' = text /\ file' = file /\ n <= Len(text) + 1
  BY IfsAre DEF ProcessLine
<1>2. text[n].pp = "include"
  BY DEF Includes
<1>3. Again(n)' <=> Included(includes, Named(n))
  <2>1. ~inside
    BY DirectiveStep
  <2> QED
    BY <1>2, <2>1, LineJudged DEF Named
<1>4. /\ Includes' = Includes /\ (\A j : Named(j)' = Named(j)) /\ (Nested' <=> Nested)
      /\ \A i, j : /\ Implies(i, j)' <=> Implies(i, j)
                   /\ Exclusive(i, j)' <=> Exclusive(i, j)
                   /\ Dropped(i, j)' <=> Dropped(i, j)
  BY <1>1, SameHeaders
<1>5. \A x : (\E a \in DOMAIN includes.list : x \in Range(includes.list[a]))
               <=> x \in Listed(includes)
  BY DEF Listed
<1>6. ASSUME NEW j \in same, ~Dropped(j, n) PROVE Included(includes, Named(n))
  <2>1. j \in Includes /\ j < n /\ Named(j) = Named(n)
    OBVIOUS
  <2>2. Listing(j)
    BY <1>6, <2>1 DEF Kept
  <2> QED
    BY <1>5, <2>1, <2>2 DEF Listing, Included
<1>7. ASSUME Included(includes, Named(n)) PROVE \E j \in same : ~Dropped(j, n)
  <2>1. PICK a \in DOMAIN includes.list : \E x \in Range(includes.list[a]) : x.name = Named(n)
    BY <1>7 DEF Included
  <2>2. PICK x \in Range(includes.list[a]) : x.name = Named(n)
    BY <2>1
  <2>3. PICK j : j = x.line
    OBVIOUS
  <2>4. /\ j \in Includes /\ j < n /\ Named(j) = Named(n)
        /\ \A e \in j..(n - 1) : text[e].pp = "else" => IfIn(j, e)
    BY <2>2, <2>3 DEF ListIs, EntryIs
  <2>5. j \in Nat
    BY <2>4, IfsAre DEF Includes
  <2>6. \A e \in (j + 1)..(n - 1) : e \in j..(n - 1)
    BY <2>5
  <2>7. ~Dropped(j, n)
    BY <2>4, <2>6 DEF Dropped
  <2> QED
    BY <2>4, <2>7
<1>8. ASSUME ~Stray, NEW j \in same, Implies(n, j) PROVE Included(includes, Named(n))
  <2>1. j \in Includes /\ j < n /\ Named(j) = Named(n) /\ j \in Nat
    BY IfsAre DEF Includes
  <2>2. CASE Listing(j)
    BY <1>5, <2>1, <2>2 DEF Listing, Included
  <2>3. CASE Dropped(j, n)
    <3>1. PICK c \in Ifs, e \in (j + 1)..(n - 1) :
            Holds(c, j) /\ Innermost(c, e) /\ text[e].pp = "else"
      BY <1>1, <1>8, <2>1, <2>3, Dropping
    <3>2. Branch(c, n) = Branch(c, j)
      BY <1>8, <3>1 DEF Implies
    <3>3. c \in Nat /\ e \in Nat /\ c <= j /\ j < e /\ e <= n
      BY <2>1, <3>1, IfsAre DEF Holds
    <3> QED
      BY <2>1, <3>1, <3>2, <3>3, ElseCounts
  <2> QED
    BY <2>1, <2>2, <2>3 DEF Kept
<1>9. ASSUME Included(includes, Named(n)), ~Nested PROVE \E j \in same : ~Exclusive(n, j)
  <2>1. PICK j \in same : ~Dropped(j, n)
    BY <1>9, <1>7
  <2>2. \A e \in (j + 1)..(n - 1) : text[e].pp = "else" => IfIn(j, e)
    BY <2>1 DEF Dropped
  <2>3. j \in Includes /\ j < n /\ Named(j) = Named(n)
    OBVIOUS
  <2>4. j \in Nat /\ text[j].pp = "include"
    BY <2>3, IfsAre DEF Includes
  <2>5. ASSUME NEW c \in Ifs, Holds(c, n), Holds(c, j), Branch(c, n) # Branch(c, j)
        PROVE  FALSE
    <3>1. c \in Nat /\ c <= j /\ j <= n
      BY <2>3, <2>4, <2>5, IfsAre DEF Holds
    <3>2. PICK e \in (j + 1)..n : text[e].pp = "else" /\ Innermost(c, e)
      BY <2>4, <2>5, <3>1, BranchDiffers
    <3>3. e # n
      BY <1>2, <3>2
    <3>4. e \in (j + 1)..(n - 1)
      BY <2>4, <3>2, <3>3
    <3>5. PICK d \in j..e : text[d].pp = "if"
      BY <2>2, <3>2, <3>4 DEF IfIn
    <3>6. d # j
      BY <2>4, <3>5
    <3>7. d \in Ifs /\ c # d /\ c <= d /\ d <= e
      <4>1. n <= Len(text) /\ Len(text) \in Nat /\ DOMAIN text = 1..Len(text)
        BY IfsAre DEF ProcessLine
      <4>2. d \in 1..Len(text)
        BY <2>4, <3>4, <3>5, <3>6, <4>1
      <4> QED
        BY <2>4, <3>1, <3>4, <3>5, <3>6, <4>1, <4>2 DEF Ifs
    <3>8. Holds(c, d)
      <4>1. e < EndOf(c) /\ EndOf(c) \in Int
        BY <3>2, EndIs DEF Innermost, Holds
      <4>2. d \in Int /\ e \in Int
        BY <2>4, <3>4, <3>5
      <4> QED
        BY <3>7, <4>1, <4>2 DEF Holds
    <3> QED
      BY <1>9, <3>7, <3>8 DEF Nested
  <2>6. ~Exclusive(n, j)
    BY <2>5 DEF Exclusive
  <2> QED
    BY <2>3, <2>6
<1>10. same' = same
  BY <1>4
<1>11. (\E j \in same : Implies(n, j))' <=> \E j \in same : Implies(n, j)
  BY <1>4, <1>10
<1>12. (\E j \in same : ~Exclusive(n, j))' <=> \E j \in same : ~Exclusive(n, j)
  BY <1>4, <1>10
<1>13. Same(n)' = same
  BY <1>4 DEF Same
<1>14. DuplicatesAt(n)' <=> /\ (\E j \in same : Implies(n, j)) => Again(n)'
                            /\ Again(n)' /\ ~Nested => \E j \in same : ~Exclusive(n, j)
  BY <1>4, <1>13 DEF DuplicatesAt
<1>15. RepeatAt(n)' <=> (Again(n)' <=> \E j \in same : ~Dropped(j, n))
  BY <1>4, <1>13 DEF RepeatAt
<1> QED
  BY <1>3, <1>6, <1>7, <1>8, <1>9, <1>14, <1>15

(* A name is of one header.                                                 *)
NamesInv ==
  \A i, j \in Includes :
    Named(i) = Named(j) => /\ text[i].inc.dir = text[j].inc.dir
                           /\ text[i].inc.base = text[j].inc.base
                           /\ text[i].inc.ext = text[j].inc.ext

(* After the last line: what is asked for is not included, and the other    *)
(* way round.                                                               *)
LEMMA UsesFinal ==
  ASSUME TextInv, NamesInv, FinishFile, NEW n \in Nat, n = line, ErrorsAre(n), ListIs(n), Kept(n), ~Stray
  PROVE  UsesJudged'
<1> DEFINE disk == file.disk
           opened == {x \in Listed(includes) : /\ FilesBelongToSameModule(file, x.of)
                                               /\ x.name \in DOMAIN disk}
           names == {x.name : x \in Listed(includes)} \cup UNION {disk[x.name] : x \in opened}
           uses == {l \in DOMAIN text : text[l].needs # {} /\ text[l].pp = "none"}
           all == UNION {text[l].needs : l \in uses}
           At(m) == Max({l \in uses : m \in text[l].needs})
           found == CheckForIncludeWhatYouUse(includes, file, text, file.disk)
           everywhere == {Named(j) : j \in {k \in Includes : \A c \in Ifs : ~Holds(c, k)}}
           somewhere == {Named(j) : j \in Includes} \cup UNION Range(disk)
           last(m, l) == m \in text[l].needs /\ \A k \in uses : k > l => m \notin text[k].needs
<1>1. text' = text /\ file' = file /\ n = Len(text) + 1
  BY DEF FinishFile
<1>2. found = IF file.ext = "cc" /\ opened = {} THEN {}
              ELSE UNION {Wrong(At(m), IncludeWhatYouUse) : m \in all \ names}
  BY DEF CheckForIncludeWhatYouUse
<1>3. \A c, i : \A x \in Wrong(i, c) : x.line = i /\ x.cat = c
  BY DEF Wrong
<1>4. \A l : Reported(l, IncludeWhatYouUse)' <=> \E x \in found : x.line = l
  <2>1. ASSUME NEW x \in CheckCompletedBlocks(nesting.stack) PROVE x.cat # IncludeWhatYouUse
    <3>1. PICK i \in DOMAIN nesting.stack, c \in {BuildClass, BuildNamespaces} :
            x \in Err(nesting.stack[i].line, c, 5)
      BY <2>1 DEF CheckCompletedBlocks
    <3> QED
      BY <3>1 DEF Err, BuildClass, BuildNamespaces, IncludeWhatYouUse
  <2>2. \A x \in CheckHeaderFileIncluded(includes, file) : x.cat # IncludeWhatYouUse
    BY DEF CheckHeaderFileIncluded, Include, IncludeWhatYouUse
  <2>3. \A x \in errors : x.cat # IncludeWhatYouUse
    BY DEF ErrorsAre
  <2>4. \A x \in found : x.cat = IncludeWhatYouUse
    <3>1. found = {} \/ found = UNION {Wrong(At(m), IncludeWhatYouUse) : m \in all \ names}
      BY <1>2
    <3> HIDE DEF found, At, all, names
    <3> QED
      BY <1>3, <3>1
  <2> DEFINE header == IF IsSource(file) THEN CheckHeaderFileIncluded(includes, file) ELSE {}
  <2>5. errors' = errors \cup CheckCompletedBlocks(nesting.stack) \cup found \cup header
    BY DEF FinishFile
  <2>6. \A x \in header : x.cat # IncludeWhatYouUse
    BY <2>2
  <2> HIDE DEF found, header
  <2>7. \A x : x \in errors' /\ x.cat = IncludeWhatYouUse <=> x \in found
    BY <2>1, <2>3, <2>4, <2>5, <2>6
  <2> QED
    BY <2>7 DEF Reported
<1> HIDE DEF found
<1>5. \A x : (\E a \in DOMAIN includes.list : x \in Range(includes.list[a]))
               <=> x \in Listed(includes)
  BY DEF Listed
<1>6. DOMAIN text = 1..Len(text) /\ Len(text) \in Nat
  BY IfsAre
<1>7. ASSUME NEW l \in uses, Reported(l, IncludeWhatYouUse)'
      PROVE  \E m \in text[l].needs \ everywhere : last(m, l)
  <2>1. PICK x \in found : x.line = l
    BY <1>4, <1>7
  <2>2. PICK m \in all \ names : x \in Wrong(At(m), IncludeWhatYouUse)
    BY <1>2, <2>1
  <2> DEFINE S == {k \in uses : m \in text[k].needs}
  <2>3. l = Max(S)
    BY <1>3, <2>1, <2>2
  <2>4. S # {} /\ S \in SUBSET (1..Len(text))
    BY <1>6, <2>2
  <2>5. l \in S /\ \A k \in S : k <= l
    BY <1>6, <2>3, <2>4, Greatest
  <2>6. last(m, l)
    <3>1. \A k \in uses : k > l => ~(k <= l)
      BY <1>6
    <3> QED
      BY <2>5, <3>1
  <2>7. m \notin everywhere
    <3> SUFFICES ASSUME NEW j \in Includes, \A c \in Ifs : ~Holds(c, j), m = Named(j)
                 PROVE  FALSE
      OBVIOUS
    <3>1. j < n
      BY <1>1, <1>6 DEF Includes
    <3>2. ~Listing(j)
      <4>1. \A y \in Listed(includes) : y.name # m
        BY <2>2
      <4> QED
        BY <4>1 DEF Listing
    <3>3. Dropped(j, n)
      BY <3>1, <3>2 DEF Kept
    <3>4. n <= Len(text) + 1
      BY <1>1, <1>6
    <3> QED
      BY <3>3, <3>4, Dropping
  <2> QED
    BY <2>5, <2>6, <2>7
<1>8. ASSUME NEW j \in Includes, OwnHeader(j) PROVE opened # {}
  <2>1. j < n /\ n <= Len(text) + 1
    BY <1>1, <1>6 DEF Includes
  <2>2. ~Dropped(j, n)
    BY <1>8, <2>1, Dropping DEF OwnHeader
  <2>3. PICK x \in Listed(includes) : x.name = Named(j)
    BY <2>1, <2>2 DEF Kept, Listing
  <2>4. x.line \in Includes /\ x.name = Named(x.line) /\ x.of = text[x.line].inc
    BY <1>5, <2>3 DEF ListIs, EntryIs
  <2>5. /\ x.of.dir = text[j].inc.dir /\ x.of.base = text[j].inc.base
        /\ x.of.ext = text[j].inc.ext
    BY <2>3, <2>4 DEF NamesInv
  <2>6. FilesBelongToSameModule(file, x.of)
    BY <1>8, <2>5 DEF OwnHeader, FilesBelongToSameModule
  <2> QED
    BY <1>8, <2>3, <2>6 DEF OwnHeader
<1>9. ASSUME NEW l \in uses, file.ext # "cc" \/ (\E j \in Includes : OwnHeader(j)), NEW m \in text[l].needs \ somewhere, last(m, l)
      PROVE  Reported(l, IncludeWhatYouUse)'
  <2>1. m \in all
    BY <1>9
  <2>2. ASSUME NEW x \in Listed(includes) PROVE x.name # m
    <3>1. x.line \in Includes /\ x.name = Named(x.line)
      BY <1>5 DEF ListIs, EntryIs
    <3> QED
      BY <1>9, <3>1
  <2>3. ASSUME NEW x \in opened PROVE m \notin disk[x.name]
    <3>1. disk[x.name] \in Range(disk)
      BY DEF Range
    <3> QED
      BY <1>9, <3>1
  <2>4. m \in all \ names
    BY <2>1, <2>2, <2>3
  <2> DEFINE S == {k \in uses : m \in text[k].needs}
  <2>5. Max(S) = l
    <3>1. l \in S /\ S \in SUBSET Int
      BY <1>6, <1>9
    <3>2. \A k \in S : k <= l
      BY <1>6, <1>9
    <3> HIDE DEF S
    <3> QED
      BY <3>1, <3>2, MaxIs
  <2>6. PICK x : x \in Wrong(l, IncludeWhatYouUse)
    BY DEF Wrong
  <2>7. x \in found /\ x.line = l
    <3>1. found = UNION {Wrong(At(k), IncludeWhatYouUse) : k \in all \ names}
      BY <1>2, <1>9, <1>8
    <3>2. At(m) = l
      BY <2>5
    <3> HIDE DEF At, all, names
    <3> QED
      BY <1>3, <2>4, <2>6, <3>1, <3>2
  <2> QED
    BY <1>4, <2>7
<1>10. everywhere' = everywhere /\ somewhere' = somewhere /\ uses' = uses
  <2>1. /\ Includes' = Includes /\ Ifs' = Ifs
        /\ (\A j : Named(j)' = Named(j)) /\ \A c, k : Holds(c, k)' <=> Holds(c, k)
    BY <1>1, SameHeaders, SameText
  <2> QED
    BY <1>1, <2>1
<1>11. \A j : OwnHeader(j)' <=> OwnHeader(j)
  BY <1>1, SameText DEF OwnHeader, Named
<1> HIDE DEF everywhere, somewhere, uses
<1>12. UsesJudged' <=>
         (Finished' =>
           \A l \in uses' :
             /\ Reported(l, IncludeWhatYouUse)' =>
                  \E m \in text'[l].needs \ everywhere' :
                    m \in text'[l].needs /\ \A k \in uses' : k > l => m \notin text'[k].needs
             /\ /\ file'.ext # "cc" \/ \E j \in Includes' : OwnHeader(j)'
                /\ \E m \in text'[l].needs \ somewhere' :
                    m \in text'[l].needs /\ \A k \in uses' : k > l => m \notin text'[k].needs
                => Reported(l, IncludeWhatYouUse)')
  BY DEF UsesJudged, everywhere, somewhere, uses
<1>13. Includes' = Includes
  BY <1>1, SameHeaders
<1> QED
  BY <1>1, <1>7, <1>9, <1>10, <1>12, <1>11, <1>13

(* What is said at the end changes nothing of what is said of includes.     *)
LEMMA FinishSays ==
  ASSUME FinishFile
  PROVE  \A i : /\ Again(i)' <=> Again(i)
                /\ Reported(i, IncludeOrder)' <=> Reported(i, IncludeOrder)
<1> DEFINE uses == CheckForIncludeWhatYouUse(includes, file, text, file.disk)
           blocks == CheckCompletedBlocks(nesting.stack)
           header == IF IsSource(file) THEN CheckHeaderFileIncluded(includes, file) ELSE {}
           OfOthers(x) == x.cat # IncludeOrder /\ ~(x.cat = Include /\ x.conf = 4)
<1>1. ASSUME NEW x \in blocks PROVE OfOthers(x)
  <2>1. PICK i \in DOMAIN nesting.stack, c \in {BuildClass, BuildNamespaces} :
          x \in Err(nesting.stack[i].line, c, 5)
    BY <1>1 DEF CheckCompletedBlocks
  <2> QED
    BY <2>1 DEF Err, BuildClass, BuildNamespaces, Include, IncludeOrder
<1>2. ASSUME NEW x \in uses PROVE OfOthers(x)
  <2>1. PICK l : x \in Wrong(l, IncludeWhatYouUse)
    BY <1>2 DEF CheckForIncludeWhatYouUse
  <2> QED
    BY <2>1 DEF Wrong, IncludeWhatYouUse, Include, IncludeOrder
<1>3. ASSUME NEW x \in header PROVE OfOthers(x)
  <2>1. x \in CheckHeaderFileIncluded(includes, file)
    BY <1>3
  <2>2. PICK l : x = [line |-> l, cat |-> Include, conf |-> 5]
    BY <2>1 DEF CheckHeaderFileIncluded, Err
  <2>3. x.cat = Include /\ x.conf = 5
    BY <2>2
  <2>4. Include # IncludeOrder
    BY DEF Include, IncludeOrder
  <2> QED
    BY <2>3, <2>4
<1>4. errors' = errors \cup blocks \cup uses \cup header
  BY DEF FinishFile
<1> HIDE DEF uses, blocks, header
<1>5. \A x \in errors' : x \in errors \/ OfOthers(x)
  BY <1>1, <1>2, <1>3, <1>4
<1>6. errors \subseteq errors'
  BY <1>4
<1>7. \A i : \A x \in Says(i, "again") : x.cat = Include /\ x.conf = 4
  BY DEF Says
<1>8. \A i : Again(i)' <=> Again(i)
  <2> SUFFICES ASSUME NEW i, NEW S, S = Says(i, "again")
               PROVE  S \subseteq errors' <=> S \subseteq errors
    BY DEF Again
  <2> QED
    BY <1>5, <1>6, <1>7
<1>9. \A i : Reported(i, IncludeOrder)' <=> Reported(i, IncludeOrder)
  BY <1>5, <1>6 DEF Reported
<1> QED
  BY <1>8, <1>9
-----------------------------------------------------------------------------
(* What has been said of the lines before does not change.                  *)
LEMMA SameVerdicts ==
  ASSUME text' = text, file' = file, TextInv, NEW n \in Nat,
         \A i : i # n => /\ Again(i)' <=> Again(i)
                         /\ Reported(i, IncludeOrder)' <=> Reported(i, IncludeOrder)
  PROVE  \A i \in Includes : i < n =>
           /\ OrderAt(i)' <=> OrderAt(i)
           /\ RepeatAt(i)' <=> RepeatAt(i)
           /\ DuplicatesAt(i)' <=> DuplicatesAt(i)
<1> SUFFICES ASSUME NEW i \in Includes, i < n
             PROVE  /\ OrderAt(i)' <=> OrderAt(i)
                    /\ RepeatAt(i)' <=> RepeatAt(i)
                    /\ DuplicatesAt(i)' <=> DuplicatesAt(i)
  OBVIOUS
<1>1. /\ Includes' = Includes /\ (\A j : Named(j)' = Named(j) /\ Kind(j)' = Kind(j))
      /\ (Nested' <=> Nested)
      /\ \A k, j : /\ Implies(k, j)' <=> Implies(k, j)
                   /\ Exclusive(k, j)' <=> Exclusive(k, j)
                   /\ Dropped(k, j)' <=> Dropped(k, j)
  BY SameHeaders
<1>2. Same(i)' = Same(i)
  BY <1>1 DEF Same
<1>3. Includes \in SUBSET (1..Len(text)) /\ Len(text) \in Nat
  BY IfsAre DEF Includes
<1>4. i \in 1..n /\ i # n
  BY <1>3
<1>5. Stretch(i)' = Stretch(i) /\ \A j \in 1..n : Rank(j)' = Rank(j)
  BY <1>4, SameRanks
<1>6. ASSUME NEW j \in Stretch(i) PROVE j \in 1..n
  <2>1. j \in Includes /\ j < i
    BY DEF Stretch
  <2> QED
    BY <1>3, <1>4, <2>1
<1>7. (\E j \in Stretch(i) : Rank(j) > Rank(i))' <=> \E j \in Stretch(i) : Rank(j) > Rank(i)
  BY <1>4, <1>5, <1>6
<1>8. OrderAt(i)' <=> OrderAt(i)
  BY <1>1, <1>4, <1>7 DEF OrderAt
<1>9. (DuplicatesAt(i)' <=> DuplicatesAt(i)) /\ (RepeatAt(i)' <=> RepeatAt(i))
  BY <1>1, <1>2, <1>4 DEF DuplicatesAt, RepeatAt
<1> QED
  BY <1>8, <1>9

Judged ==
  /\ InCode => \A i \in Includes : i < line => OrderAt(i) /\ RepeatAt(i)
  /\ InCode /\ ~Stray => \A i \in Includes : i < line => DuplicatesAt(i)
  /\ InCode /\ ~Stray => UsesJudged

LEMMA LinesInductive == Spec => []LinesInv
<1>1. Init => LinesInv
  <2> SUFFICES ASSUME Init, NEW l \in DOMAIN text
               PROVE  text[l].toks \in Seq(Range(text[l].toks))
    BY DEF LinesInv
  <2>1. \A t \in Range(text) : t.toks \in Seq(Range(t.toks))
    BY LintFileAssumption DEF Init
  <2>2. text[l] \in Range(text)
    BY DEF Range
  <2> QED
    BY <2>1, <2>2
<1>2. LinesInv /\ [Next]_vars => LinesInv'
  <2> SUFFICES ASSUME LinesInv, [Next]_vars PROVE LinesInv'
    OBVIOUS
  <2>1. text' = text
    BY DEF Next, ProcessLine, FinishFile, vars
  <2> QED
    BY <2>1 DEF LinesInv, Range
<1> QED
  BY <1>1, <1>2, PTL DEF Spec

LEMMA NamesInductive == Spec => []NamesInv
<1>1. Init => NamesInv
  <2> SUFFICES ASSUME Init, NEW i \in Includes, NEW j \in Includes, Named(i) = Named(j)
               PROVE  /\ text[i].inc.dir = text[j].inc.dir
                      /\ text[i].inc.base = text[j].inc.base
                      /\ text[i].inc.ext = text[j].inc.ext
    BY DEF NamesInv
  <2>1. \A k, l \in Range(text) :
          k.pp = "include" /\ l.pp = "include" /\ k.inc.name = l.inc.name
            => k.inc.dir = l.inc.dir /\ k.inc.base = l.inc.base /\ k.inc.ext = l.inc.ext
    BY LintFileAssumption DEF Init
  <2>2. text[i] \in Range(text) /\ text[j] \in Range(text)
    BY DEF Includes, Range
  <2>3. text[i].pp = "include" /\ text[j].pp = "include" /\ text[i].inc.name = text[j].inc.name
    BY DEF Includes, Named
  <2> QED
    BY <2>1, <2>2, <2>3
<1>2. NamesInv /\ [Next]_vars => NamesInv'
  <2> SUFFICES ASSUME NamesInv, [Next]_vars PROVE NamesInv'
    OBVIOUS
  <2>1. text' = text /\ file' = file
    BY DEF Next, ProcessLine, FinishFile, vars
  <2>2. Includes' = Includes /\ \A i : Named(i)' = Named(i)
    BY <2>1, SameHeaders
  <2> QED
    BY <2>1, <2>2 DEF NamesInv
<1> QED
  BY <1>1, <1>2, PTL DEF Spec

LEMMA IncludesFirst == Init => IncludesInv /\ Judged
<1> SUFFICES ASSUME Init PROVE IncludesInv /\ Judged
  OBVIOUS
<1>1. line = 1 /\ errors = {} /\ includes = [section |-> Initial, last |-> 0, list |-> << <<>> >>]
  BY DEF Init, NewIncludes
<1>2. text \in Seq(Range(text))
  BY LintFileAssumption DEF Init
<1>3. DOMAIN text = 1..Len(text) /\ Len(text) \in Nat
  BY <1>2, LenProperties
<1>4. \A j \in Includes : ~(j < 1)
  BY <1>3 DEF Includes
<1>5. SectionIs(1)
  BY <1>1, <1>4 DEF SectionIs, Recent, Initial, OtherH
<1>6. ListIs(1)
  <2>1. PICK list : list = << <<>> >>
    OBVIOUS
  <2>2. list \in Seq({<<>>}) /\ DOMAIN list = {1} /\ list[1] = <<>> /\ list # <<>>
    BY <2>1
  <2>3. IsSeq(<<>>) /\ Range(<<>>) = {}
    BY EmptySeq DEF IsSeq, Range
  <2> QED
    BY <1>1, <2>1, <2>2, <2>3 DEF ListIs, IsSeq
<1>7. Kept(1) /\ ErrorsAre(1)
  BY <1>1, <1>4 DEF Kept, ErrorsAre
<1>8. IncludesInv
  BY <1>1, <1>5, <1>6, <1>7 DEF IncludesInv
<1>9. ~Finished
  BY <1>1, <1>3 DEF Finished
<1> QED
  BY <1>1, <1>4, <1>8, <1>9 DEF Judged, UsesJudged

LEMMA IncludesNext ==
  TextInv /\ LinesInv /\ NamesInv /\ IncludesInv /\ Judged /\ [Next]_vars
    => IncludesInv' /\ Judged'
<1> SUFFICES ASSUME TextInv, LinesInv, NamesInv, IncludesInv, Judged, [Next]_vars
             PROVE  IncludesInv' /\ Judged'
  OBVIOUS
<1>1. text' = text /\ file' = file /\ skipped \subseteq skipped'
  BY DEF Next, ProcessLine, FinishFile, vars
<1>2. InCode' => InCode
  BY <1>1 DEF InCode
<1>3. Includes' = Includes /\ (Stray' <=> Stray) /\ Includes \in SUBSET (1..Len(text))
      /\ Len(text) \in Nat
  BY <1>1, SameHeaders, IfsAre DEF Includes
<1>4. PICK n : n = line
  OBVIOUS
<1>5. n \in Nat /\ n \in 1..(Len(text) + 2)
  BY <1>4, <1>3 DEF TextInv
<1>6. n <= Len(text) + 1 => /\ ErrorsAre(n)
                            /\ InCode => SectionIs(n) /\ ListIs(n) /\ Kept(n)
  BY <1>4, <1>5 DEF IncludesInv
<1>7. CASE ProcessLine
  <2>1. line' = n + 1 /\ n <= Len(text)
    BY <1>4, <1>7 DEF ProcessLine
  <2>2. /\ ErrorsAre(n + 1)'
        /\ \A i : i # n => /\ Again(i)' <=> Again(i)
                           /\ Reported(i, IncludeOrder)' <=> Reported(i, IncludeOrder)
    BY <1>3, <1>4, <1>5, <1>6, <1>7, <2>1, LineJudged
  <2>3. ASSUME InCode'
        PROVE  SectionIs(n + 1)' /\ ListIs(n + 1)' /\ Kept(n + 1)'
               /\ (n \in Includes => OrderAt(n)' /\ RepeatAt(n)')
               /\ (n \in Includes /\ ~Stray => DuplicatesAt(n)')
    <3>1. ErrorsAre(n) /\ SectionIs(n) /\ ListIs(n) /\ Kept(n)
      <4>1. n <= Len(text) + 1
        BY <1>3, <1>5, <2>1
      <4> QED
        BY <1>2, <1>6, <2>3, <4>1
    <3>2. SectionIs(n + 1)' /\ (n \in Includes => OrderAt(n)')
      BY <1>4, <1>5, <1>7, <2>3, <3>1, SectionNext
    <3>3. ListIs(n + 1)'
      BY <1>4, <1>5, <1>7, <2>3, <3>1, ListNext
    <3>4. Kept(n + 1)'
      BY <1>4, <1>5, <1>7, <2>3, <3>1, KeptNext
    <3>5. n \in Includes => RepeatAt(n)' /\ (~Stray => DuplicatesAt(n)')
      BY <1>4, <1>5, <1>7, <2>3, <3>1, DuplicatesNext
    <3> QED
      BY <3>2, <3>3, <3>4, <3>5
  <2>4. IncludesInv'
    <3>1. \A m \in Nat : m = line' => m = n + 1
      BY <2>1
    <3>2. ASSUME NEW m \in Nat, m = line'
          PROVE  ErrorsAre(m)' /\ (InCode' => SectionIs(m)' /\ ListIs(m)' /\ Kept(m)')
      <4>1. m = n + 1
        BY <2>1, <3>2
      <4> QED
        BY <2>2, <2>3, <4>1
    <3> QED
      BY <3>2 DEF IncludesInv
  <2>5. \A i \in Includes : i < n => /\ OrderAt(i)' <=> OrderAt(i)
                                     /\ RepeatAt(i)' <=> RepeatAt(i)
                                     /\ DuplicatesAt(i)' <=> DuplicatesAt(i)
    BY <1>1, <1>5, <2>2, SameVerdicts
  <2>6. \A i \in Includes : i < n + 1 => i < n \/ i = n
    BY <1>3, <1>5
  <2>7. InCode' => \A i \in Includes : i < n + 1 => OrderAt(i)' /\ RepeatAt(i)'
    BY <1>2, <1>4, <2>3, <2>5, <2>6 DEF Judged
  <2>8. InCode' /\ ~Stray => \A i \in Includes : i < n + 1 => DuplicatesAt(i)'
    BY <1>2, <1>4, <2>3, <2>5, <2>6 DEF Judged
  <2>9. ~Finished'
    BY <1>1, <1>3, <1>5, <2>1 DEF Finished
  <2>10. UsesJudged'
    BY <2>9 DEF UsesJudged
  <2> QED
    BY <1>3, <2>1, <2>4, <2>7, <2>8, <2>10 DEF Judged
<1>8. CASE FinishFile
  <2>1. line' = n + 1 /\ n = Len(text) + 1 /\ skipped' = skipped
    BY <1>4, <1>8 DEF FinishFile
  <2>2. ErrorsAre(n) /\ (InCode => SectionIs(n) /\ ListIs(n) /\ Kept(n))
    BY <1>3, <1>6, <2>1
  <2>3. IncludesInv'
    <3>1. ~(line' <= Len(text') + 1)
      BY <1>1, <1>3, <2>1
    <3> QED
      BY <3>1 DEF IncludesInv
  <2>4. ASSUME NEW i
        PROVE  /\ Again(i)' <=> Again(i)
               /\ Reported(i, IncludeOrder)' <=> Reported(i, IncludeOrder)
    BY <1>8, FinishSays
  <2>5. \A i \in Includes : /\ OrderAt(i)' <=> OrderAt(i)
                            /\ RepeatAt(i)' <=> RepeatAt(i)
                            /\ DuplicatesAt(i)' <=> DuplicatesAt(i)
    <3>1. \A i \in Includes : i < n
      BY <1>3, <2>1
    <3> QED
      BY <1>1, <1>5, <2>4, <3>1, SameVerdicts
  <2>6. \A i \in Includes : i < line
    BY <1>3, <1>4, <2>1
  <2>7. InCode' /\ ~Stray => UsesJudged'
    BY <1>2, <1>4, <1>5, <1>8, <2>2, UsesFinal
  <2> QED
    BY <1>2, <1>3, <2>3, <2>5, <2>6, <2>7 DEF Judged
<1>9. CASE UNCHANGED vars
  <2>1. line' = line /\ errors' = errors /\ includes' = includes /\ skipped' = skipped
    BY <1>9 DEF vars
  <2>2. ASSUME NEW i, NEW c
        PROVE  (Again(i)' <=> Again(i)) /\ (Reported(i, c)' <=> Reported(i, c))
    BY <2>1 DEF Again, Reported
  <2>3. \A m : ErrorsAre(m)' <=> ErrorsAre(m)
    BY <2>1 DEF ErrorsAre
  <2>4. \A m \in Nat : SectionIs(m) => SectionIs(m)'
    <3> SUFFICES ASSUME NEW m \in Nat, SectionIs(m) PROVE SectionIs(m)'
      OBVIOUS
    <3>1. Recent(m)' = Recent(m) /\ \A j \in 1..m : Rank(j)' = Rank(j)
      BY <1>1, <2>2, SameRanks
    <3>2. \A j \in Recent(m) : j \in 1..m
      BY <1>3 DEF Recent
    <3> QED
      BY <2>1, <3>1, <3>2 DEF SectionIs
  <2>5. /\ \A j : Named(j)' = Named(j)
        /\ \A i, j : (IfIn(i, j)' <=> IfIn(i, j)) /\ (Dropped(i, j)' <=> Dropped(i, j))
    BY <1>1, SameHeaders
  <2>6. \A x, last, m : EntryIs(x, last, m)' <=> EntryIs(x, last, m)
    BY <1>1, <1>3, <2>5 DEF EntryIs
  <2>7. \A m : ListIs(m)' <=> ListIs(m)
    BY <2>1, <2>6 DEF ListIs
  <2>8. \A m : Kept(m)' <=> Kept(m)
    BY <1>3, <2>1, <2>5 DEF Kept, Listing
  <2>9. IncludesInv'
    BY <1>1, <1>2, <2>1, <2>3, <2>4, <2>7, <2>8 DEF IncludesInv
  <2>10. \A i \in Includes : /\ OrderAt(i)' <=> OrderAt(i)
                             /\ RepeatAt(i)' <=> RepeatAt(i)
                             /\ DuplicatesAt(i)' <=> DuplicatesAt(i)
    <3> SUFFICES ASSUME NEW i \in Includes
                 PROVE  /\ OrderAt(i)' <=> OrderAt(i)
                        /\ RepeatAt(i)' <=> RepeatAt(i)
                        /\ DuplicatesAt(i)' <=> DuplicatesAt(i)
      OBVIOUS
    <3>1. i + 1 \in Nat /\ i < i + 1
      BY <1>3
    <3> QED
      BY <1>1, <2>2, <3>1, SameVerdicts
  <2>11. UsesJudged' <=> UsesJudged
    <3>1. Ifs' = Ifs /\ \A c, k : Holds(c, k)' <=> Holds(c, k)
      BY <1>1, SameText
    <3> QED
      BY <1>1, <1>3, <2>1, <2>2, <2>5, <3>1 DEF UsesJudged, Finished, OwnHeader
  <2> QED
    BY <1>2, <1>3, <2>1, <2>9, <2>10, <2>11 DEF Judged
<1> QED
  BY <1>7, <1>8, <1>9 DEF Next

(* What is said of the headers is right wherever no directive is in         *)
(* assembly, for any text: an include is reported as out of order exactly   *)
(* if a header of a later section precedes it in its stretch; as a          *)
(* duplicate exactly if an include of the same header before it is not      *)
(* followed by an #else with no #if between, nested conditionals and stray  *)
(* #else included, hence, without a stray #else, if the header is included  *)
(* already whenever it is and, without nested conditionals, only if it may  *)
(* be; and headers are asked for that are used and not included.            *)
(* (_IncludeState, CheckIncludeLine, CheckForIncludeWhatYouUse)             *)
THEOREM IncludesAreJudged == Spec => []IncludesJudged
<1>1. Judged => IncludesJudged
  BY DEF Judged, IncludesJudged, InCode, OrderJudged, DuplicatesFound, DuplicatesJudged,
         OrderAt, RepeatAt, DuplicatesAt
<1> QED
  BY <1>1, IncludesFirst, IncludesNext, TextInductive, LinesInductive, NamesInductive, PTL
  DEF Spec
-----------------------------------------------------------------------------
(* Both searches for the other end of a bracket, as seen from the one they  *)
(* start at.                                                                *)
PairSet == {x \in Openers \X Closers : Pairs(x[1], x[2])}

Rightwards == [ins |-> Openers, outs |-> Closers, angle |-> "<", pairs |-> PairSet]
Leftwards ==
  [ins |-> Closers, outs |-> Openers, angle |-> ">",
   pairs |-> {x \in Closers \X Openers : Pairs(x[2], x[1])}]

IsWay(way) ==
  /\ way.ins \cap way.outs = {} /\ way.angle \notin way.ins \cup way.outs
  /\ way.pairs \in SUBSET (way.ins \X way.outs)

Is(way, x) == x \in way.ins \cup way.outs

(* What has been read up to k, as w has it, has left st on the stack, from  *)
(* the positions pos; some of them are of angle brackets.                   *)
Stacked(way, w, st, pos, k) ==
  /\ IsSeq(st) /\ IsSeq(pos) /\ Len(pos) = Len(st) /\ st # <<>>
  /\ pos[1] = 1 /\ st[1] \in way.ins
  /\ \A i \in 1..Len(st) : /\ pos[i] \in 1..k
                           /\ st[i] \in way.ins => w[pos[i]] = st[i]
                           /\ st[i] \notin way.ins => st[i] = way.angle
  /\ \A i, j \in 1..Len(st) : i < j => pos[i] < pos[j]

OpenTo(way, st, pos, n) == {pos[i] : i \in {j \in 1..n : st[j] \in way.ins}}
OpenAt(way, st, pos) == OpenTo(way, st, pos, Len(st))

Leaves(way, w, st, U, k) ==
  \E pos : Stacked(way, w, st, pos, k) /\ U = OpenAt(way, st, pos)

LEMMA PrefixOps ==
  ASSUME NEW s, IsSeq(s), NEW j \in 0..Len(s)
  PROVE  /\ IsSeq(SubSeq(s, 1, j)) /\ Len(SubSeq(s, 1, j)) = j
         /\ \A i \in 1..j : SubSeq(s, 1, j)[i] = s[i]
<1>1. PICK S : s \in Seq(S)
  BY DEF IsSeq
<1>2. Len(s) \in Nat
  BY SeqOps
<1>3. j \in Int /\ 1 \in Int /\ \A i \in 1..j : s[i] \in S
  BY <1>1, <1>2, ElementOfSeq
<1>4. /\ SubSeq(s, 1, j) \in Seq(S)
      /\ Len(SubSeq(s, 1, j)) = IF 1 <= j THEN j - 1 + 1 ELSE 0
      /\ \A i \in 1..(j - 1 + 1) : SubSeq(s, 1, j)[i] = s[1 + i - 1]
  BY <1>3, SubSeqProperties
<1>5. Len(SubSeq(s, 1, j)) = j /\ \A i \in 1..j : SubSeq(s, 1, j)[i] = s[i]
  BY <1>2, <1>4
<1>6. IsSeq(SubSeq(s, 1, j))
  BY <1>4 DEF IsSeq
<1> QED
  BY <1>5, <1>6

LEMMA Begun ==
  ASSUME NEW way, NEW w, w[1] \in way.ins
  PROVE  Leaves(way, w, Append(<<>>, w[1]), {1}, 1)
<1> DEFINE st == Append(<<>>, w[1])
           pos == Append(<<>>, 1)
<1>1. IsSeq(<<>>) /\ Len(<<>>) = 0
  BY EmptySeq DEF IsSeq
<1>2. ASSUME NEW x
      PROVE  LET s == Append(<<>>, x) IN IsSeq(s) /\ Len(s) = 1 /\ s[1] = x /\ s # <<>>
  <2>1. /\ IsSeq(Append(<<>>, x)) /\ Len(Append(<<>>, x)) = 0 + 1
        /\ Append(<<>>, x)[0 + 1] = x
    BY <1>1, AppendOps
  <2>2. 0 + 1 = 1 /\ 1 # 0
    OBVIOUS
  <2> QED
    BY <2>1, <2>2, SeqOps
<1>3. /\ IsSeq(st) /\ Len(st) = 1 /\ st[1] = w[1] /\ st # <<>> /\ 1..1 = {1}
      /\ IsSeq(pos) /\ Len(pos) = 1 /\ pos[1] = 1
  BY <1>2
<1> HIDE DEF st, pos
<1>4. Stacked(way, w, st, pos, 1)
  BY <1>3 DEF Stacked
<1>5. OpenAt(way, st, pos) = {1}
  BY <1>3 DEF OpenAt, OpenTo
<1> QED
  BY <1>4, <1>5 DEF Leaves, st

LEMMA StackedUp ==
  ASSUME NEW way, NEW w, NEW k \in Nat, NEW st, NEW pos, Stacked(way, w, st, pos, k),
         NEW x, IF x \in way.ins THEN x = w[k + 1] ELSE x = way.angle
  PROVE  /\ Stacked(way, w, Append(st, x), Append(pos, k + 1), k + 1)
         /\ x \in way.ins => OpenAt(way, Append(st, x), Append(pos, k + 1)) =
                              OpenAt(way, st, pos) \cup {k + 1}
         /\ x \notin way.ins => OpenAt(way, Append(st, x), Append(pos, k + 1)) =
                                 OpenAt(way, st, pos)
<1> DEFINE n == Len(st)
           s == Append(st, x)
           p == Append(pos, k + 1)
<1>1. n \in Nat /\ n # 0 /\ Len(pos) = n /\ IsSeq(st) /\ IsSeq(pos)
  BY SeqOps DEF Stacked
<1>2. /\ IsSeq(s) /\ Len(s) = n + 1 /\ s[n + 1] = x /\ \A i \in 1..n : s[i] = st[i]
      /\ IsSeq(p) /\ Len(p) = n + 1 /\ p[n + 1] = k + 1 /\ \A i \in 1..n : p[i] = pos[i]
  BY <1>1, AppendOps
<1>3. /\ pos[1] = 1 /\ st[1] \in way.ins
      /\ \A i \in 1..n : /\ pos[i] \in 1..k
                         /\ st[i] \in way.ins => w[pos[i]] = st[i]
                         /\ st[i] \notin way.ins => st[i] = way.angle
      /\ \A i, j \in 1..n : i < j => pos[i] < pos[j]
  BY DEF Stacked
<1> HIDE DEF n, s, p
<1>4. \A i \in 1..(n + 1) : i \in 1..n \/ i = n + 1
  BY <1>1
<1>5. \A i \in 1..n : i \in 1..(n + 1) /\ i < n + 1 /\ ~(n + 1 < i)
  BY <1>1
<1>6. n + 1 \in 1..(n + 1) /\ 1 \in 1..n /\ ~(n + 1 < n + 1)
  BY <1>1
<1>7. s # <<>>
  BY <1>1, <1>2, SeqOps
<1>8. \A i \in 1..(n + 1) : /\ p[i] \in 1..(k + 1)
                            /\ s[i] \in way.ins => w[p[i]] = s[i]
                            /\ s[i] \notin way.ins => s[i] = way.angle
  <2>1. \A m \in 1..k : m \in 1..(k + 1)
    OBVIOUS
  <2>2. k + 1 \in 1..(k + 1)
    OBVIOUS
  <2> QED
    BY <1>2, <1>3, <1>4, <2>1, <2>2
<1>9. \A i, j \in 1..(n + 1) : i < j => p[i] < p[j]
  <2> SUFFICES ASSUME NEW i \in 1..(n + 1), NEW j \in 1..(n + 1), i < j
               PROVE  p[i] < p[j]
    OBVIOUS
  <2>1. i \in 1..n
    BY <1>1
  <2>2. CASE j \in 1..n
    BY <1>2, <1>3, <2>1, <2>2
  <2>3. CASE j = n + 1
    <3>1. pos[i] \in 1..k
      BY <1>3, <2>1
    <3> QED
      BY <1>2, <2>1, <2>3, <3>1
  <2> QED
    BY <1>4, <2>2, <2>3
<1>10. Stacked(way, w, s, p, k + 1)
  BY <1>2, <1>3, <1>6, <1>7, <1>8, <1>9 DEF Stacked
<1>11. /\ x \in way.ins => OpenAt(way, s, p) = OpenAt(way, st, pos) \cup {k + 1}
       /\ x \notin way.ins => OpenAt(way, s, p) = OpenAt(way, st, pos)
  BY <1>2, <1>4, <1>5, <1>6 DEF OpenAt, OpenTo, n
<1> QED
  BY <1>10, <1>11 DEF s, p

(* What is above j has been removed.                                        *)
LEMMA StackedDown ==
  ASSUME NEW way, NEW w, NEW k \in Nat, NEW st, NEW pos, Stacked(way, w, st, pos, k),
         NEW j \in 1..Len(st)
  PROVE  /\ Stacked(way, w, SubSeq(st, 1, j), SubSeq(pos, 1, j), k)
         /\ OpenAt(way, SubSeq(st, 1, j), SubSeq(pos, 1, j)) =
              OpenTo(way, st, pos, j)
<1> DEFINE s == SubSeq(st, 1, j)
           p == SubSeq(pos, 1, j)
<1>1. Len(st) \in Nat /\ Len(pos) = Len(st) /\ IsSeq(st) /\ IsSeq(pos)
  BY SeqOps DEF Stacked
<1>2. j \in 0..Len(st) /\ j # 0 /\ 1 \in 1..j /\ \A i \in 1..j : i \in 1..Len(st)
  BY <1>1
<1>3. /\ IsSeq(s) /\ Len(s) = j /\ s # <<>> /\ \A i \in 1..j : s[i] = st[i]
      /\ IsSeq(p) /\ Len(p) = j /\ \A i \in 1..j : p[i] = pos[i]
  <2>1. IsSeq(s) /\ Len(s) = j /\ \A i \in 1..j : s[i] = st[i]
    BY <1>1, <1>2, PrefixOps
  <2>2. IsSeq(p) /\ Len(p) = j /\ \A i \in 1..j : p[i] = pos[i]
    BY <1>1, <1>2, PrefixOps
  <2> HIDE DEF s, p
  <2>3. s # <<>>
    BY <1>2, <2>1, SeqOps
  <2> QED
    BY <2>1, <2>2, <2>3
<1> HIDE DEF s, p
<1>4. /\ pos[1] = 1 /\ st[1] \in way.ins
      /\ \A i \in 1..j : /\ pos[i] \in 1..k
                         /\ st[i] \in way.ins => w[pos[i]] = st[i]
                         /\ st[i] \notin way.ins => st[i] = way.angle
      /\ \A i, m \in 1..j : i < m => pos[i] < pos[m]
  BY <1>2 DEF Stacked
<1>5. /\ p[1] = 1 /\ s[1] \in way.ins
      /\ \A i \in 1..j : /\ p[i] \in 1..k
                         /\ s[i] \in way.ins => w[p[i]] = s[i]
                         /\ s[i] \notin way.ins => s[i] = way.angle
  BY <1>2, <1>3, <1>4
<1>6. \A i, m \in 1..j : i < m => p[i] < p[m]
  BY <1>3, <1>4
<1>7. Stacked(way, w, s, p, k)
  BY <1>3, <1>5, <1>6 DEF Stacked
<1>8. OpenAt(way, s, p) = OpenTo(way, st, pos, j)
  BY <1>3 DEF OpenAt, OpenTo
<1> QED
  BY <1>7, <1>8 DEF s, p

LEMMA StackedOn ==
  ASSUME NEW way, NEW w, NEW k \in Nat, NEW st, NEW pos, Stacked(way, w, st, pos, k)
  PROVE  Stacked(way, w, st, pos, k + 1)
<1>1. \A m \in 1..k : m \in 1..(k + 1)
  OBVIOUS
<1> QED
  BY <1>1 DEF Stacked

(* Without removes the angle brackets above the last that is none.          *)
LEMMA WithoutIs ==
  ASSUME NEW way, IsWay(way), NEW w, NEW k \in Nat, NEW st, NEW pos, Stacked(way, w, st, pos, k)
  PROVE  \E j \in 1..Len(st) :
           /\ Without(st, way.angle) = SubSeq(st, 1, j) /\ st[j] \in way.ins
           /\ \A i \in 1..Len(st) : i > j => st[i] \notin way.ins
<1> DEFINE S == {i \in DOMAIN st : st[i] # way.angle}
<1>1. Len(st) \in Nat /\ DOMAIN st = 1..Len(st) /\ Len(st) # 0
  BY SeqOps DEF Stacked
<1>2. way.angle \notin way.ins
  BY DEF IsWay
<1>3. 1 \in S /\ S \in SUBSET (1..Len(st))
  BY <1>1, <1>2 DEF Stacked
<1> DEFINE j == Max(S)
<1>4. j \in S /\ \A y \in S : y <= j
  BY <1>1, <1>3, Greatest
<1>5. Max({0} \cup S) = j
  <2> HIDE DEF j
  <2>1. {0} \cup S \in SUBSET Int /\ j \in {0} \cup S /\ \A y \in {0} \cup S : y <= j
    BY <1>1, <1>3, <1>4
  <2> HIDE DEF S
  <2> QED
    BY <2>1, MaxIs
<1>6. Without(st, way.angle) = SubSeq(st, 1, j)
  BY <1>5 DEF Without
<1> HIDE DEF j
<1>7. j \in 1..Len(st) /\ st[j] # way.angle
  BY <1>3, <1>4
<1>8. ASSUME NEW i \in 1..Len(st), i > j
      PROVE  st[i] \notin way.ins
  <2>1. i \notin S
    BY <1>1, <1>4, <1>7, <1>8
  <2> QED
    BY <1>1, <1>2, <2>1
<1> QED
  BY <1>6, <1>7, <1>8 DEF Stacked
Running(s) == ~s.found /\ ~s.failed

(* What the token c makes of the state s of a search: at is where the other *)
(* end is, if it is one.                                                    *)
Reads(way, s, t, c, at) ==
  /\ ~Running(s) => t = s
  /\ Running(s) /\ c \in way.ins =>
       Running(t) /\ t.at = 0 /\ t.stack = Append(s.stack, c)
  /\ Running(s) /\ c \in way.outs =>
       LET rest == Without(s.stack, way.angle) IN
       IF rest = <<>> \/ <<Last(rest), c>> \notin way.pairs
       THEN ~t.found /\ t.failed /\ t.at = 0
       ELSE IF Len(rest) = 1 THEN t.found /\ t.at = at
       ELSE Running(t) /\ t.at = 0 /\ t.stack = Front(rest)
  /\ Running(s) /\ ~Is(way, c) /\ IsSeq(s.stack) /\ s.stack # <<>> /\ s.stack[1] # way.angle =>
       /\ Running(t) /\ t.at \in {0, s.at}
       /\ \/ t.stack = s.stack
          \/ t.stack = Append(s.stack, way.angle)
          \/ /\ Len(s.stack) # 1 /\ Last(s.stack) = way.angle
             /\ t.stack = Front(s.stack)
          \/ t.stack = Without(s.stack, way.angle)

LEMMA LeavesIs ==
  ASSUME NEW way, IsWay(way), NEW w, NEW k \in Nat, NEW st, NEW U, Leaves(way, w, st, U, k)
  PROVE  /\ IsSeq(st) /\ st # <<>> /\ st[1] # way.angle
         /\ 1 \in U /\ \A u \in U : u \in 1..k /\ w[u] \in way.ins
<1>1. PICK pos : Stacked(way, w, st, pos, k) /\ U = OpenAt(way, st, pos)
  BY DEF Leaves
<1>2. Len(st) \in Nat /\ Len(st) # 0
  BY <1>1, SeqOps DEF Stacked
<1>3. 1 \in 1..Len(st)
  BY <1>2
<1> QED
  BY <1>1, <1>3 DEF Stacked, OpenAt, OpenTo, IsWay

LEMMA ReadsOne ==
  ASSUME NEW way, IsWay(way), NEW w, NEW k \in Nat, NEW s, NEW t, NEW at, NEW U,
         Running(s), Leaves(way, w, s.stack, U, k), NEW c, c = w[k + 1],
         Reads(way, s, t, c, at)
  PROVE  /\ c \in way.ins => Running(t) /\ Leaves(way, w, t.stack, U \cup {k + 1}, k + 1)
         /\ ~Is(way, c) => Running(t) /\ Leaves(way, w, t.stack, U, k + 1)
         /\ c \in way.outs =>
              \E u \in U :
                /\ \A v \in U : v <= u
                /\ <<w[u], c>> \notin way.pairs => ~t.found /\ t.failed
                /\ <<w[u], c>> \in way.pairs /\ u = 1 => t.found /\ t.at = at
                /\ <<w[u], c>> \in way.pairs /\ u # 1 =>
                     Running(t) /\ Leaves(way, w, t.stack, U \ {u}, k + 1)
<1>1. PICK st : st = s.stack
  OBVIOUS
<1>2. PICK pos : Stacked(way, w, st, pos, k) /\ U = OpenAt(way, st, pos)
  BY <1>1 DEF Leaves
<1>3. /\ IsSeq(st) /\ IsSeq(pos) /\ Len(pos) = Len(st) /\ st # <<>>
      /\ pos[1] = 1 /\ st[1] \in way.ins
      /\ \A i \in 1..Len(st) : /\ pos[i] \in 1..k
                               /\ st[i] \in way.ins => w[pos[i]] = st[i]
      /\ \A i, j \in 1..Len(st) : i < j => pos[i] < pos[j]
  BY <1>2 DEF Stacked
<1>4. Len(st) \in Nat /\ Len(st) # 0
  BY <1>3, SeqOps
<1>5. PICK j \in 1..Len(st) :
        /\ Without(st, way.angle) = SubSeq(st, 1, j) /\ st[j] \in way.ins
        /\ \A i \in 1..Len(st) : i > j => st[i] \notin way.ins
  BY <1>2, WithoutIs
<1>6. way.angle \notin way.ins /\ st[1] # way.angle
  BY <1>3 DEF IsWay
<1>7. ASSUME NEW i \in 1..Len(st), i >= j
      PROVE  /\ Stacked(way, w, SubSeq(st, 1, i), SubSeq(pos, 1, i), k)
             /\ OpenAt(way, SubSeq(st, 1, i), SubSeq(pos, 1, i)) = U
  <2>1. /\ Stacked(way, w, SubSeq(st, 1, i), SubSeq(pos, 1, i), k)
        /\ OpenAt(way, SubSeq(st, 1, i), SubSeq(pos, 1, i)) =
             OpenTo(way, st, pos, i)
    BY <1>2, StackedDown
  <2>2. {n \in 1..i : st[n] \in way.ins} = {n \in 1..Len(st) : st[n] \in way.ins}
    <3>1. \A n \in 1..i : n \in 1..Len(st)
      BY <1>4
    <3>2. \A n \in 1..Len(st) : st[n] \in way.ins => n \in 1..i
      <4> SUFFICES ASSUME NEW n \in 1..Len(st), st[n] \in way.ins PROVE n \in 1..i
        OBVIOUS
      <4>1. ~(n > j)
        BY <1>5
      <4> QED
        BY <1>4, <1>7, <4>1
    <3> QED
      BY <3>1, <3>2
  <2> QED
    BY <1>2, <2>1, <2>2 DEF OpenAt, OpenTo
<1>8. ASSUME c \in way.ins
      PROVE  Running(t) /\ Leaves(way, w, t.stack, U \cup {k + 1}, k + 1)
  <2>1. Running(t) /\ t.stack = Append(st, c)
    BY <1>1, <1>8 DEF Reads
  <2>2. /\ Stacked(way, w, Append(st, c), Append(pos, k + 1), k + 1)
        /\ OpenAt(way, Append(st, c), Append(pos, k + 1)) = U \cup {k + 1}
    <3>1. Stacked(way, w, Append(st, c), Append(pos, k + 1), k + 1)
      BY <1>2, <1>8, StackedUp
    <3>2. OpenAt(way, Append(st, c), Append(pos, k + 1)) = OpenAt(way, st, pos) \cup {k + 1}
      BY <1>2, <1>8, StackedUp
    <3> QED
      BY <1>2, <3>1, <3>2
  <2> QED
    BY <2>1, <2>2 DEF Leaves
<1>9. ASSUME ~Is(way, c)
      PROVE  Running(t) /\ Leaves(way, w, t.stack, U, k + 1)
  <2>1. /\ Running(t)
        /\ \/ t.stack = st
           \/ t.stack = Append(st, way.angle)
           \/ Len(st) # 1 /\ Last(st) = way.angle /\ t.stack = Front(st)
           \/ t.stack = Without(st, way.angle)
    BY <1>1, <1>3, <1>6, <1>9 DEF Reads
  <2>2. CASE t.stack = st
    BY <1>2, <2>1, <2>2, StackedOn DEF Leaves
  <2>3. CASE t.stack = Append(st, way.angle)
    <3>1. PICK x : x = way.angle
      OBVIOUS
    <3>2. x \notin way.ins
      BY <1>6, <3>1
    <3>3. IF x \in way.ins THEN x = w[k + 1] ELSE x = way.angle
      BY <3>1, <3>2
    <3>4. Stacked(way, w, Append(st, x), Append(pos, k + 1), k + 1)
      BY <1>2, <3>3, StackedUp
    <3>5. OpenAt(way, Append(st, x), Append(pos, k + 1)) = OpenAt(way, st, pos)
      BY <1>2, <3>2, <3>3, StackedUp
    <3> QED
      BY <1>2, <2>1, <2>3, <3>1, <3>2, <3>4, <3>5 DEF Leaves
  <2>4. CASE Len(st) # 1 /\ Last(st) = way.angle /\ t.stack = Front(st)
    <3>1. Last(st) = st[Len(st)] /\ Front(st) = SubSeq(st, 1, Len(st) - 1)
      BY DEF Front, Last
    <3>2. j # Len(st)
      BY <1>5, <1>6, <2>4, <3>1
    <3>3. Len(st) - 1 \in 1..Len(st) /\ Len(st) - 1 >= j
      BY <1>4, <3>2
    <3>4. Stacked(way, w, t.stack, SubSeq(pos, 1, Len(st) - 1), k)
          /\ OpenAt(way, t.stack, SubSeq(pos, 1, Len(st) - 1)) = U
      BY <1>7, <2>4, <3>1, <3>3
    <3> QED
      BY <2>1, <3>4, StackedOn DEF Leaves
  <2>5. CASE t.stack = Without(st, way.angle)
    <3>1. j >= j
      BY <1>4
    <3>2. /\ Stacked(way, w, t.stack, SubSeq(pos, 1, j), k)
          /\ OpenAt(way, t.stack, SubSeq(pos, 1, j)) = U
      BY <1>5, <1>7, <2>5, <3>1
    <3> QED
      BY <2>1, <3>2, StackedOn DEF Leaves
  <2> QED
    BY <2>1, <2>2, <2>3, <2>4, <2>5
<1>10. ASSUME c \in way.outs
       PROVE  \E u \in U :
                /\ \A v \in U : v <= u
                /\ <<w[u], c>> \notin way.pairs => ~t.found /\ t.failed
                /\ <<w[u], c>> \in way.pairs /\ u = 1 => t.found /\ t.at = at
                /\ <<w[u], c>> \in way.pairs /\ u # 1 =>
                     Running(t) /\ Leaves(way, w, t.stack, U \ {u}, k + 1)
  <2> DEFINE rest == SubSeq(st, 1, j)
             at0 == SubSeq(pos, 1, j)
  <2>1. /\ Stacked(way, w, rest, at0, k) /\ OpenAt(way, rest, at0) = U
    <3>1. j >= j
      BY <1>4
    <3> QED
      BY <1>7, <3>1
  <2>2. /\ IsSeq(rest) /\ Len(rest) = j /\ \A i \in 1..j : rest[i] = st[i]
        /\ \A i \in 1..j : at0[i] = pos[i]
    <3>1. j \in 0..Len(st) /\ j \in 0..Len(pos)
      BY <1>3, <1>4
    <3>2. IsSeq(rest) /\ Len(rest) = j /\ \A i \in 1..j : rest[i] = st[i]
      BY <1>3, <3>1, PrefixOps
    <3>3. \A i \in 1..j : at0[i] = pos[i]
      BY <1>3, <3>1, PrefixOps
    <3> QED
      BY <3>2, <3>3
  <2> HIDE DEF rest, at0
  <2>3. rest # <<>> /\ Last(rest) = st[j] /\ j \in 1..j
    <3>1. j \in 1..j /\ j # 0
      BY <1>4
    <3> QED
      BY <2>2, <3>1, SeqOps DEF Last
  <2>4. pos[j] \in U /\ w[pos[j]] = st[j] /\ pos[j] \in 1..k
    BY <1>2, <1>3, <1>5 DEF OpenAt, OpenTo
  <2>5. \A v \in U : v <= pos[j]
    <3> SUFFICES ASSUME NEW i \in 1..Len(st), st[i] \in way.ins PROVE pos[i] <= pos[j]
      BY <1>2 DEF OpenAt, OpenTo
    <3>1. ~(i > j)
      BY <1>5
    <3>2. i < j \/ i = j
      BY <1>4, <3>1
    <3>3. pos[i] \in Int /\ pos[j] \in Int
      BY <1>3
    <3> QED
      <4>1. CASE i < j
        <5>1. pos[i] < pos[j]
          BY <1>3, <4>1
        <5> QED
          BY <3>3, <5>1
      <4>2. CASE i = j
        BY <3>3, <4>2
      <4> QED
        BY <3>2, <4>1, <4>2
  <2>6. pos[j] = 1 <=> j = 1
    <3>1. CASE j # 1
      <4>1. 1 < j /\ 1 \in 1..Len(st)
        BY <1>4, <3>1
      <4>2. pos[1] < pos[j]
        BY <1>3, <4>1
      <4> QED
        BY <1>3, <3>1, <4>2
    <3> QED
      BY <1>3, <3>1
  <2>7. Without(s.stack, way.angle) = rest
    BY <1>1, <1>5 DEF rest
  <2>8. IF <<st[j], c>> \notin way.pairs THEN ~t.found /\ t.failed
        ELSE IF j = 1 THEN t.found /\ t.at = at
        ELSE Running(t) /\ t.stack = Front(rest)
    BY <1>10, <2>2, <2>3, <2>7 DEF Reads
  <2>9. ASSUME j # 1 PROVE Leaves(way, w, Front(rest), U \ {pos[j]}, k + 1)
    <3>1. j - 1 \in 1..Len(rest)
      BY <1>4, <2>2, <2>9
    <3>2. Front(rest) = SubSeq(rest, 1, j - 1)
      BY <2>2 DEF Front
    <3>3. /\ Stacked(way, w, Front(rest), SubSeq(at0, 1, j - 1), k)
          /\ OpenAt(way, Front(rest), SubSeq(at0, 1, j - 1)) =
               OpenTo(way, rest, at0, j - 1)
      BY <2>1, <3>1, <3>2, StackedDown
    <3>4. U = OpenTo(way, rest, at0, j)
      BY <2>1, <2>2 DEF OpenAt
    <3>5. OpenTo(way, rest, at0, j - 1) = U \ {pos[j]}
      <4>1. \A m \in 1..j : m = j \/ m \in 1..(j - 1)
        BY <1>4
      <4>2. \A m \in 1..(j - 1) : m \in 1..j /\ m < j /\ m \in 1..Len(st)
        BY <1>4
      <4>3. \A m \in 1..(j - 1) : at0[m] = pos[m] /\ pos[m] < pos[j] /\ pos[m] \in Int
        BY <1>3, <2>2, <4>2
      <4>4. \A m \in 1..(j - 1) : at0[m] # pos[j]
        BY <2>4, <4>3
      <4>5. at0[j] = pos[j]
        BY <2>2, <2>3
      <4> QED
        BY <3>4, <4>1, <4>2, <4>4, <4>5 DEF OpenTo
    <3> QED
      BY <3>3, <3>5, StackedOn DEF Leaves
  <2> QED
    BY <2>4, <2>5, <2>6, <2>8, <2>9
<1> QED
  BY <1>8, <1>9, <1>10
-----------------------------------------------------------------------------
(* What Matches says, of w and in the sense of way.                         *)
Matched(way, w, S, m) ==
  \A r \in S : Is(way, w[r]) =>
    /\ m[r] \in S /\ m[m[r]] = r
    /\ \/ r < m[r] /\ <<w[r], w[m[r]]>> \in way.pairs
       \/ m[r] < r /\ <<w[m[r]], w[r]>> \in way.pairs
    /\ \A x \in S : Is(way, w[x]) /\ r < x /\ x < m[r] => r < m[x] /\ m[x] < m[r]

(* All of 1..k that is not open has been matched, between what is open.     *)
Settled(way, w, U, k, m) ==
  \A r \in 1..k : Is(way, w[r]) /\ r \notin U =>
    /\ m[r] \in 1..k /\ m[r] \notin U /\ m[m[r]] = r
    /\ \/ r < m[r] /\ <<w[r], w[m[r]]>> \in way.pairs
       \/ m[r] < r /\ <<w[m[r]], w[r]>> \in way.pairs
    /\ \A x \in 1..k : Is(way, w[x]) /\ r < x /\ x < m[r] =>
         x \notin U /\ r < m[x] /\ m[x] < m[r]

Run(way, w, n, at, g) ==
  /\ IsWay(way) /\ w[1] \in way.ins /\ n \in Nat \ {0}
  /\ g[0].stack = <<>> /\ g[0].at = 0 /\ Running(g[0])
  /\ \A k \in 1..n : Reads(way, g[k - 1], g[k], w[k], at[k])

LEMMA PairsAre ==
  ASSUME NEW way, IsWay(way), NEW x, NEW y, <<x, y>> \in way.pairs
  PROVE  x \in way.ins /\ y \in way.outs /\ x \notin way.outs /\ y \notin way.ins
         /\ Is(way, x) /\ Is(way, y)
BY DEF IsWay, Is

(* What is closed is settled with what was opened last.                     *)
LEMMA Settling ==
  ASSUME NEW way, IsWay(way), NEW w, NEW k \in Nat, NEW U, NEW m, Settled(way, w, U, k, m),
         NEW u \in U, \A v \in U : v \in 1..k /\ w[v] \in way.ins /\ v <= u,
         <<w[u], w[k + 1]>> \in way.pairs
  PROVE  \E m1 : Settled(way, w, U \ {u}, k + 1, m1)
<1> DEFINE m1 == [x \in 1..(k + 1) |-> IF x = u THEN k + 1 ELSE IF x = k + 1 THEN u ELSE m[x]]
           V == U \ {u}
<1>1. /\ u \in 1..k /\ u \in 1..(k + 1) /\ u < k + 1 /\ u # k + 1 /\ k + 1 \in 1..(k + 1)
      /\ \A x \in 1..(k + 1) : x \in 1..k \/ x = k + 1
      /\ \A x \in 1..k : x \in 1..(k + 1) /\ x < k + 1 /\ x # k + 1
  OBVIOUS
<1>2. /\ m1[u] = k + 1 /\ m1[k + 1] = u
      /\ \A x \in 1..k : x # u => m1[x] = m[x]
  BY <1>1
<1> HIDE DEF m1
<1>3. k + 1 \notin U
  BY <1>1
<1>4. ASSUME NEW x \in 1..k, Is(way, w[x]), u < x
      PROVE  x \notin U /\ m1[x] = m[x] /\ u < m[x] /\ m[x] \in 1..k
  <2>1. x \notin U /\ x # u
    BY <1>1, <1>4
  <2>2. /\ m[x] \in 1..k /\ m[x] \notin U /\ m[m[x]] = x
        /\ \/ x < m[x]
           \/ m[x] < x /\ <<w[m[x]], w[x]>> \in way.pairs
    <3>1. /\ m[x] \in 1..k /\ m[x] \notin U /\ m[m[x]] = x
          /\ \/ x < m[x] /\ <<w[x], w[m[x]]>> \in way.pairs
             \/ m[x] < x /\ <<w[m[x]], w[x]>> \in way.pairs
      BY <1>4, <2>1 DEF Settled
    <3> QED
      BY <3>1
  <2>3. ASSUME m[x] < u PROVE FALSE
    <3>1. m[x] < x /\ <<w[m[x]], w[x]>> \in way.pairs
      BY <1>1, <1>4, <2>2, <2>3
    <3>2. Is(way, w[m[x]]) /\ Is(way, w[u])
      BY <3>1, PairsAre
    <3>3. m[m[x]] = x /\ u < x
      BY <1>4, <2>2
    <3>4. u \notin U
      BY <1>1, <2>2, <2>3, <3>2, <3>3 DEF Settled
    <3> QED
      BY <3>4
  <2>4. m[x] # u
    BY <2>2
  <2> QED
    BY <1>1, <1>2, <2>1, <2>2, <2>3, <2>4
<1>5. ASSUME NEW r \in 1..k, Is(way, w[r]), r \notin U
      PROVE  /\ m1[r] \in 1..(k + 1) /\ m1[r] \notin V /\ m1[m1[r]] = r
             /\ \/ r < m1[r] /\ <<w[r], w[m1[r]]>> \in way.pairs
                \/ m1[r] < r /\ <<w[m1[r]], w[r]>> \in way.pairs
             /\ \A x \in 1..(k + 1) : Is(way, w[x]) /\ r < x /\ x < m1[r] =>
                  x \notin V /\ r < m1[x] /\ m1[x] < m1[r]
  <2>1. /\ m[r] \in 1..k /\ m[r] \notin U /\ m[m[r]] = r
        /\ \/ r < m[r] /\ <<w[r], w[m[r]]>> \in way.pairs
           \/ m[r] < r /\ <<w[m[r]], w[r]>> \in way.pairs
        /\ \A x \in 1..k : Is(way, w[x]) /\ r < x /\ x < m[r] =>
             x \notin U /\ r < m[x] /\ m[x] < m[r]
    BY <1>5 DEF Settled
  <2>2. m1[r] = m[r] /\ m1[m[r]] = r
    BY <1>2, <1>5, <2>1
  <2>3. ASSUME NEW x \in 1..(k + 1), Is(way, w[x]), r < x, x < m[r]
        PROVE  x \notin V /\ r < m1[x] /\ m1[x] < m[r]
    <3>1. x \in 1..k
      BY <1>1, <2>1, <2>3
    <3>2. x \notin U /\ r < m[x] /\ m[x] < m[r]
      BY <2>1, <2>3, <3>1
    <3> QED
      BY <1>2, <3>1, <3>2
  <2> QED
    BY <1>1, <2>1, <2>2, <2>3
<1>6. /\ m1[u] \in 1..(k + 1) /\ m1[u] \notin V /\ m1[m1[u]] = u
      /\ u < m1[u] /\ <<w[u], w[m1[u]]>> \in way.pairs
      /\ \A x \in 1..(k + 1) : Is(way, w[x]) /\ u < x /\ x < m1[u] =>
           x \notin V /\ u < m1[x] /\ m1[x] < m1[u]
  <2>1. ASSUME NEW x \in 1..(k + 1), Is(way, w[x]), u < x, x < k + 1
        PROVE  x \notin V /\ u < m1[x] /\ m1[x] < k + 1
    <3>1. x \in 1..k
      BY <1>1, <2>1
    <3> QED
      BY <1>1, <1>4, <2>1, <3>1
  <2> QED
    BY <1>1, <1>2, <1>3, <2>1
<1>7. /\ m1[k + 1] \in 1..(k + 1) /\ m1[k + 1] \notin V /\ m1[m1[k + 1]] = k + 1
      /\ m1[k + 1] < k + 1 /\ <<w[m1[k + 1]], w[k + 1]>> \in way.pairs
      /\ \A x \in 1..(k + 1) : ~(k + 1 < x /\ x < m1[k + 1])
  BY <1>1, <1>2
<1>8. ASSUME NEW r \in 1..(k + 1), Is(way, w[r]), r \notin V
      PROVE  /\ m1[r] \in 1..(k + 1) /\ m1[r] \notin V /\ m1[m1[r]] = r
             /\ \/ r < m1[r] /\ <<w[r], w[m1[r]]>> \in way.pairs
                \/ m1[r] < r /\ <<w[m1[r]], w[r]>> \in way.pairs
             /\ \A x \in 1..(k + 1) : Is(way, w[x]) /\ r < x /\ x < m1[r] =>
                  x \notin V /\ r < m1[x] /\ m1[x] < m1[r]
  <2>1. r = k + 1 \/ r = u \/ (r \in 1..k /\ r \notin U)
    BY <1>1, <1>8
  <2>2. CASE r = k + 1
    BY <1>7, <2>2
  <2>3. CASE r = u
    BY <1>6, <2>3
  <2>4. CASE r \in 1..k /\ r \notin U
    BY <1>5, <1>8, <2>4
  <2> QED
    BY <2>1, <2>2, <2>3, <2>4
<1> QED
  BY <1>8 DEF Settled, V
-----------------------------------------------------------------------------
(* Induction, with a set for the operator.                                  *)
LEMMA Onwards ==
  ASSUME NEW a \in Nat, NEW b \in Nat, NEW S, a <= b => a \in S,
         \A k \in a..(b - 1) : k \in S => k + 1 \in S
  PROVE  a..b \subseteq S
<1> DEFINE T == {k \in a..b : k \notin S}
<1> SUFFICES ASSUME T # {} PROVE FALSE
  OBVIOUS
<1>1. T \in SUBSET Nat
  OBVIOUS
<1>2. PICK k \in T : \A m \in T : k <= m
  BY <1>1, Least
<1>3. k \in a..b /\ k \notin S
  OBVIOUS
<1>4. k # a
  BY <1>3
<1>5. k - 1 \in a..(b - 1) /\ k - 1 \in a..b /\ ~(k <= k - 1) /\ k - 1 + 1 = k
  BY <1>3, <1>4
<1>6. k - 1 \in S
  BY <1>2, <1>5
<1> QED
  BY <1>3, <1>5, <1>6

LEMMA SettledOn ==
  ASSUME NEW way, NEW w, NEW k \in Nat, NEW U, NEW m, Settled(way, w, U, k, m),
         ~Is(way, w[k + 1]) \/ k + 1 \in U
  PROVE  Settled(way, w, U, k + 1, m)
<1>1. /\ \A x \in 1..(k + 1) : x \in 1..k \/ x = k + 1
      /\ \A x \in 1..k : x \in 1..(k + 1) /\ ~(k + 1 < x)
  OBVIOUS
<1>2. ASSUME NEW r \in 1..(k + 1), Is(way, w[r]), r \notin U
      PROVE  /\ m[r] \in 1..(k + 1) /\ m[r] \notin U /\ m[m[r]] = r
             /\ \/ r < m[r] /\ <<w[r], w[m[r]]>> \in way.pairs
                \/ m[r] < r /\ <<w[m[r]], w[r]>> \in way.pairs
             /\ \A x \in 1..(k + 1) : Is(way, w[x]) /\ r < x /\ x < m[r] =>
                  x \notin U /\ r < m[x] /\ m[x] < m[r]
  <2>1. r \in 1..k
    BY <1>1, <1>2
  <2>2. /\ m[r] \in 1..k /\ m[r] \notin U /\ m[m[r]] = r
        /\ \/ r < m[r] /\ <<w[r], w[m[r]]>> \in way.pairs
           \/ m[r] < r /\ <<w[m[r]], w[r]>> \in way.pairs
        /\ \A x \in 1..k : Is(way, w[x]) /\ r < x /\ x < m[r] =>
             x \notin U /\ r < m[x] /\ m[x] < m[r]
    BY <1>2, <2>1 DEF Settled
  <2>3. \A x \in 1..(k + 1) : x < m[r] => x \in 1..k
    BY <1>1, <2>2
  <2> QED
    BY <1>1, <2>2, <2>3
<1> QED
  BY <1>2 DEF Settled

LEMMA ReadsAt ==
  ASSUME NEW way, NEW s, NEW t, NEW c, NEW at, Reads(way, s, t, c, at), Running(s),
         s.at = 0, IsSeq(s.stack), s.stack # <<>>, s.stack[1] # way.angle
  PROVE  t.at = 0 \/ (t.found /\ t.at = at)
BY DEF Reads, Is, Running

(* What is known of a search after k tokens.                                *)
Searching(way, w, at, g, k) ==
  \/ /\ Running(g[k]) /\ g[k].at = 0
     /\ \E U, m : Leaves(way, w, g[k].stack, U, k) /\ Settled(way, w, U, k, m)
  \/ /\ ~Running(g[k])
     /\ \/ g[k].at = 0
        \/ \E y \in 2..k : /\ g[k].at = at[y] /\ <<w[1], w[y]>> \in way.pairs
                           /\ \E m : Settled(way, w, {1}, y - 1, m)

LEMMA Starts ==
  ASSUME NEW way, NEW w, NEW n, NEW at, NEW g, Run(way, w, n, at, g)
  PROVE  Running(g[1]) /\ g[1].at = 0 /\ Leaves(way, w, g[1].stack, {1}, 1)
<1>1. 1 \in 1..n /\ 1 - 1 = 0
  BY DEF Run
<1>2. Reads(way, g[0], g[1], w[1], at[1])
  BY <1>1 DEF Run
<1>3. Running(g[1]) /\ g[1].at = 0 /\ g[1].stack = Append(<<>>, w[1])
  BY <1>2 DEF Reads, Run
<1> QED
  BY <1>3, Begun DEF Run

LEMMA Searches ==
  ASSUME NEW way, NEW w, NEW n, NEW at, NEW g, Run(way, w, n, at, g)
  PROVE  \A k \in 1..n : Searching(way, w, at, g, k)
<1> DEFINE S == {k \in 1..n : Searching(way, w, at, g, k)}
<1>1. n \in Nat /\ 1 \in Nat /\ 1 \in 1..n /\ IsWay(way)
  BY DEF Run
<1>2. 1 \in S
  <2>1. Settled(way, w, {1}, 1, <<>>)
    BY DEF Settled
  <2> QED
    BY <1>1, <2>1, Starts DEF Searching
<1>3. ASSUME NEW k \in 1..(n - 1), Searching(way, w, at, g, k)
      PROVE  Searching(way, w, at, g, k + 1)
  <2> DEFINE c == w[k + 1]
             t == g[k + 1]
  <2>1. k + 1 \in 1..n /\ k + 1 - 1 = k /\ k \in Nat /\ k + 1 \in 2..(k + 1)
    BY <1>1
  <2>2. Reads(way, g[k], g[k + 1], w[k + 1], at[k + 1])
    <3>1. Reads(way, g[k + 1 - 1], g[k + 1], w[k + 1], at[k + 1])
      BY <2>1 DEF Run
    <3> QED
      BY <2>1, <3>1
  <2>3. CASE ~Running(g[k])
    <3>1. t = g[k]
      BY <2>2, <2>3 DEF Reads
    <3>2. \A y \in 2..k : y \in 2..(k + 1)
      OBVIOUS
    <3> QED
      BY <1>3, <2>3, <3>1, <3>2 DEF Searching
  <2>4. CASE Running(g[k])
    <3>1. PICK U, m : Leaves(way, w, g[k].stack, U, k) /\ Settled(way, w, U, k, m)
      BY <1>3, <2>4 DEF Searching
    <3>2. /\ IsSeq(g[k].stack) /\ g[k].stack # <<>> /\ g[k].stack[1] # way.angle
          /\ 1 \in U /\ \A u \in U : u \in 1..k /\ w[u] \in way.ins
      BY <1>1, <2>1, <3>1, LeavesIs
    <3>3. t.at = 0 \/ (t.found /\ t.at = at[k + 1])
      BY <1>3, <2>2, <2>4, <3>2, ReadsAt DEF Searching
    <3>4. /\ c \in way.ins => Running(t) /\ Leaves(way, w, t.stack, U \cup {k + 1}, k + 1)
          /\ ~Is(way, c) => Running(t) /\ Leaves(way, w, t.stack, U, k + 1)
          /\ c \in way.outs =>
               \E u \in U :
                 /\ \A v \in U : v <= u
                 /\ <<w[u], c>> \notin way.pairs => ~t.found /\ t.failed
                 /\ <<w[u], c>> \in way.pairs /\ u = 1 => t.found /\ t.at = at[k + 1]
                 /\ <<w[u], c>> \in way.pairs /\ u # 1 =>
                      Running(t) /\ Leaves(way, w, t.stack, U \ {u}, k + 1)
      BY <1>1, <2>1, <2>2, <2>4, <3>1, ReadsOne
    <3>5. CASE c \in way.ins
      <4>1. Settled(way, w, U \cup {k + 1}, k, m)
        BY <3>1 DEF Settled
      <4>2. Settled(way, w, U \cup {k + 1}, k + 1, m)
        BY <2>1, <4>1, SettledOn
      <4> QED
        BY <3>3, <3>4, <3>5, <4>2 DEF Searching, Running
    <3>6. CASE ~Is(way, c)
      <4>1. Settled(way, w, U, k + 1, m)
        BY <2>1, <3>1, <3>6, SettledOn
      <4> QED
        BY <3>3, <3>4, <3>6, <4>1 DEF Searching, Running
    <3>7. CASE c \in way.outs
      <4>1. PICK u \in U :
              /\ \A v \in U : v <= u
              /\ <<w[u], c>> \notin way.pairs => ~t.found /\ t.failed
              /\ <<w[u], c>> \in way.pairs /\ u = 1 => t.found /\ t.at = at[k + 1]
              /\ <<w[u], c>> \in way.pairs /\ u # 1 =>
                   Running(t) /\ Leaves(way, w, t.stack, U \ {u}, k + 1)
        BY <3>4, <3>7
      <4>2. CASE <<w[u], c>> \notin way.pairs
        BY <3>3, <4>1, <4>2 DEF Searching, Running
      <4>3. CASE <<w[u], c>> \in way.pairs /\ u = 1
        <5>1. U = {1}
          <6>1. \A v \in U : v \in 1..k /\ v <= 1
            BY <3>2, <4>1, <4>3
          <6>2. \A v \in U : v = 1
            BY <2>1, <6>1
          <6> QED
            BY <3>2, <6>2
        <5>2. t.found /\ t.at = at[k + 1]
          BY <4>1, <4>3
        <5>3. Settled(way, w, {1}, k + 1 - 1, m)
          BY <2>1, <3>1, <5>1
        <5> QED
          BY <2>1, <4>3, <5>2, <5>3 DEF Searching, Running
      <4>4. CASE <<w[u], c>> \in way.pairs /\ u # 1
        <5>1. Running(t) /\ Leaves(way, w, t.stack, U \ {u}, k + 1)
          BY <4>1, <4>4
        <5>2. \E m1 : Settled(way, w, U \ {u}, k + 1, m1)
          BY <1>1, <2>1, <3>1, <3>2, <4>1, <4>4, Settling
        <5> QED
          BY <3>3, <5>1, <5>2 DEF Searching, Running
      <4> QED
        BY <4>2, <4>3, <4>4
    <3> QED
      BY <3>5, <3>6, <3>7 DEF Is
  <2> QED
    BY <2>3, <2>4
<1>4. \A k \in 1..(n - 1) : k \in S => k + 1 \in S
  <2>1. \A k \in 1..(n - 1) : k + 1 \in 1..n
    BY <1>1
  <2> QED
    BY <1>3, <2>1
<1> HIDE DEF S
<1>5. 1..n \subseteq S
  BY <1>1, <1>2, <1>4, Onwards
<1> QED
  BY <1>5 DEF S

(* What is found is a pair.                                                 *)
LEMMA FoundIsPair ==
  ASSUME NEW way, NEW w, NEW n, NEW at, NEW g, Run(way, w, n, at, g), NEW y \in 2..n,
         \A k \in 1..n : at[k] # 0, \A j, k \in 1..n : at[j] = at[k] => j = k,
         g[n].at = at[y]
  PROVE  /\ <<w[1], w[y]>> \in way.pairs
         /\ \E mm \in [2..(y - 1) -> 2..(y - 1)] : Matched(way, w, 2..(y - 1), mm)
<1>1. n \in Nat /\ n \in 1..n /\ y \in 1..n /\ IsWay(way)
  BY DEF Run
<1>2. Searching(way, w, at, g, n)
  BY <1>1, Searches
<1>3. PICK z \in 2..n : /\ g[n].at = at[z] /\ <<w[1], w[z]>> \in way.pairs
                        /\ \E m : Settled(way, w, {1}, z - 1, m)
  BY <1>1, <1>2 DEF Searching
<1>4. z = y
  <2>1. z \in 1..n
    BY <1>1
  <2> QED
    BY <1>1, <1>3, <2>1
<1>5. PICK m : Settled(way, w, {1}, y - 1, m)
  BY <1>3, <1>4
<1> DEFINE S == 2..(y - 1)
           mm == [r \in S |-> IF Is(way, w[r]) THEN m[r] ELSE r]
<1>6. ASSUME NEW r \in S, Is(way, w[r])
      PROVE  /\ m[r] \in S /\ m[m[r]] = r /\ Is(way, w[m[r]])
             /\ \/ r < m[r] /\ <<w[r], w[m[r]]>> \in way.pairs
                \/ m[r] < r /\ <<w[m[r]], w[r]>> \in way.pairs
             /\ \A x \in S : Is(way, w[x]) /\ r < x /\ x < m[r] => r < m[x] /\ m[x] < m[r]
  <2>1. \A x \in S : x \in 1..(y - 1) /\ x \notin {1}
    BY <1>1
  <2>2. r \in 1..(y - 1) /\ r \notin {1}
    BY <1>6, <2>1
  <2>3. /\ m[r] \in 1..(y - 1) /\ m[r] \notin {1} /\ m[m[r]] = r
        /\ \/ r < m[r] /\ <<w[r], w[m[r]]>> \in way.pairs
           \/ m[r] < r /\ <<w[m[r]], w[r]>> \in way.pairs
        /\ \A x \in 1..(y - 1) : Is(way, w[x]) /\ r < x /\ x < m[r] =>
             x \notin {1} /\ r < m[x] /\ m[x] < m[r]
    BY <1>5, <1>6, <2>2 DEF Settled
  <2>4. m[r] \in S
    BY <1>1, <2>3
  <2>5. Is(way, w[m[r]])
    BY <1>1, <2>3, PairsAre
  <2> QED
    BY <2>1, <2>3, <2>4, <2>5
<1> HIDE DEF S
<1>7. mm \in [S -> S]
  BY <1>6
<1>8. Matched(way, w, S, mm)
  <2>1. \A r \in S : Is(way, w[r]) => mm[r] = m[r]
    OBVIOUS
  <2> HIDE DEF mm
  <2>2. ASSUME NEW r \in S, Is(way, w[r])
        PROVE  /\ mm[r] \in S /\ mm[mm[r]] = r
               /\ \/ r < mm[r] /\ <<w[r], w[mm[r]]>> \in way.pairs
                  \/ mm[r] < r /\ <<w[mm[r]], w[r]>> \in way.pairs
               /\ \A x \in S : Is(way, w[x]) /\ r < x /\ x < mm[r] =>
                    r < mm[x] /\ mm[x] < mm[r]
    BY <1>6, <2>1, <2>2
  <2> QED
    BY <2>2 DEF Matched
<1> QED
  BY <1>3, <1>4, <1>7, <1>8 DEF S

(* While no partner of 1 has been read, exactly those are open whose        *)
(* partner is still to come.                                                *)
Waiting(way, w, mm, y, k) ==
  {r \in 1..k : r = 1 \/ (r \in 2..(y - 1) /\ w[r] \in way.ins /\ mm[r] > k)}

(* A pair is found.                                                         *)
LEMMA PairIsFound ==
  ASSUME NEW way, NEW w, NEW n, NEW at, NEW g, Run(way, w, n, at, g), NEW y \in 2..n,
         <<w[1], w[y]>> \in way.pairs,
         NEW mm \in [2..(y - 1) -> 2..(y - 1)], Matched(way, w, 2..(y - 1), mm)
  PROVE  g[n].at = at[y]
<1> DEFINE S == 2..(y - 1)
           V(k) == Waiting(way, w, mm, y, k)
           Fine(k) == Running(g[k]) /\ g[k].at = 0 /\ Leaves(way, w, g[k].stack, V(k), k)
           K == {k \in 1..(y - 1) : Fine(k)}
           E == {k \in y..n : g[k] = g[y] /\ ~Running(g[k]) /\ g[k].at = at[y]}
<1>1. n \in Nat /\ y \in 1..n /\ y \in Nat /\ y - 1 \in Nat /\ y - 1 \in 1..(y - 1) /\ IsWay(way)
  BY DEF Run
<1>2. ASSUME NEW r \in S, Is(way, w[r])
      PROVE  /\ mm[r] \in S /\ mm[mm[r]] = r /\ Is(way, w[mm[r]])
             /\ w[r] \in way.ins => r < mm[r] /\ w[mm[r]] \in way.outs /\ w[mm[r]] \notin way.ins
             /\ w[r] \in way.outs =>
                  mm[r] < r /\ w[mm[r]] \in way.ins /\ <<w[mm[r]], w[r]>> \in way.pairs
             /\ \A x \in S : Is(way, w[x]) /\ r < x /\ x < mm[r] => r < mm[x] /\ mm[x] < mm[r]
  <2>1. /\ mm[r] \in S /\ mm[mm[r]] = r
        /\ \/ r < mm[r] /\ <<w[r], w[mm[r]]>> \in way.pairs
           \/ mm[r] < r /\ <<w[mm[r]], w[r]>> \in way.pairs
        /\ \A x \in S : Is(way, w[x]) /\ r < x /\ x < mm[r] => r < mm[x] /\ mm[x] < mm[r]
    BY <1>2 DEF Matched
  <2>2. CASE r < mm[r] /\ <<w[r], w[mm[r]]>> \in way.pairs
    BY <1>1, <2>1, <2>2, PairsAre
  <2>3. CASE mm[r] < r /\ <<w[mm[r]], w[r]>> \in way.pairs
    BY <1>1, <2>1, <2>3, PairsAre
  <2> QED
    BY <2>1, <2>2, <2>3
<1>3. ASSUME NEW k \in 1..(n - 1)
      PROVE  /\ k + 1 \in 1..n /\ k \in Nat
             /\ Reads(way, g[k], g[k + 1], w[k + 1], at[k + 1])
  <2>1. k + 1 \in 1..n /\ k + 1 - 1 = k /\ k \in Nat
    BY <1>1
  <2>2. Reads(way, g[k + 1 - 1], g[k + 1], w[k + 1], at[k + 1])
    BY <2>1 DEF Run
  <2> QED
    BY <2>1, <2>2
<1>4. Fine(1)
  <2>1. V(1) = {1}
    BY DEF Waiting
  <2> QED
    BY <2>1, Starts
<1>5. ASSUME NEW k \in 1..(n - 1), Fine(k)
      PROVE  LET c == w[k + 1] t == g[k + 1] IN
             /\ t.at = 0 \/ (t.found /\ t.at = at[k + 1])
             /\ c \in way.ins => Running(t) /\ Leaves(way, w, t.stack, V(k) \cup {k + 1}, k + 1)
             /\ ~Is(way, c) => Running(t) /\ Leaves(way, w, t.stack, V(k), k + 1)
             /\ c \in way.outs =>
                  \E u \in V(k) :
                    /\ \A v \in V(k) : v <= u
                    /\ <<w[u], c>> \in way.pairs /\ u = 1 => t.found /\ t.at = at[k + 1]
                    /\ <<w[u], c>> \in way.pairs /\ u # 1 =>
                         Running(t) /\ Leaves(way, w, t.stack, V(k) \ {u}, k + 1)
  <2> DEFINE c == w[k + 1]
             t == g[k + 1]
  <2>1. PICK U : U = V(k)
    OBVIOUS
  <2>2. Running(g[k]) /\ g[k].at = 0 /\ Leaves(way, w, g[k].stack, U, k)
    BY <1>5, <2>1
  <2>3. IsSeq(g[k].stack) /\ g[k].stack # <<>> /\ g[k].stack[1] # way.angle
    BY <1>1, <1>3, <2>2, LeavesIs
  <2>4. t.at = 0 \/ (t.found /\ t.at = at[k + 1])
    BY <1>3, <2>2, <2>3, ReadsAt
  <2>5. /\ c \in way.ins => Running(t) /\ Leaves(way, w, t.stack, U \cup {k + 1}, k + 1)
        /\ ~Is(way, c) => Running(t) /\ Leaves(way, w, t.stack, U, k + 1)
        /\ c \in way.outs =>
             \E u \in U :
               /\ \A v \in U : v <= u
               /\ <<w[u], c>> \notin way.pairs => ~t.found /\ t.failed
               /\ <<w[u], c>> \in way.pairs /\ u = 1 => t.found /\ t.at = at[k + 1]
               /\ <<w[u], c>> \in way.pairs /\ u # 1 =>
                    Running(t) /\ Leaves(way, w, t.stack, U \ {u}, k + 1)
    BY <1>1, <1>3, <2>2, ReadsOne
  <2> HIDE DEF V
  <2> QED
    BY <2>1, <2>4, <2>5
<1>6. ASSUME NEW k \in 1..(y - 2), Fine(k)
      PROVE  Fine(k + 1)
  <2> DEFINE c == w[k + 1]
             t == g[k + 1]
  <2>1. k \in 1..(n - 1) /\ k + 1 \in S /\ k \in Nat /\ k + 1 # 1
    BY <1>1
  <2>2. ASSUME NEW r \in S, w[r] \in way.ins
        PROVE  r < mm[r] /\ Is(way, w[mm[r]]) /\ w[mm[r]] \in way.outs /\ w[mm[r]] \notin way.ins
               /\ mm[r] \in Nat /\ r \in Nat /\ mm[mm[r]] = r
    <3>1. Is(way, w[r])
      BY <2>2 DEF Is
    <3>2. mm[r] \in Nat /\ r \in Nat
      BY <1>2, <3>1
    <3> QED
      BY <1>2, <2>2, <3>1, <3>2
  <2>3. CASE c \in way.ins
    <3>1. V(k + 1) = V(k) \cup {k + 1}
      <4>1. k + 1 \in V(k + 1)
        BY <2>1, <2>2, <2>3 DEF Waiting
      <4>2. ASSUME NEW r \in V(k) PROVE r \in V(k + 1)
        <5>1. CASE r = 1
          BY <2>1, <5>1 DEF Waiting
        <5>2. CASE r \in S /\ w[r] \in way.ins /\ mm[r] > k
          <6>1. mm[r] # k + 1
            BY <2>2, <2>3, <5>2
          <6>2. mm[r] > k + 1
            BY <2>1, <2>2, <5>2, <6>1
          <6> QED
            BY <2>1, <5>2, <6>2 DEF Waiting
        <5> QED
          BY <5>1, <5>2 DEF Waiting
      <4>3. ASSUME NEW r \in V(k + 1), r # k + 1 PROVE r \in V(k)
        <5>1. r \in 1..k
          BY <2>1, <4>3 DEF Waiting
        <5>2. CASE r \in S /\ w[r] \in way.ins /\ mm[r] > k + 1
          BY <2>1, <2>2, <5>1, <5>2 DEF Waiting
        <5> QED
          BY <5>1, <5>2 DEF Waiting
      <4> HIDE DEF V
      <4> QED
        BY <4>1, <4>2, <4>3
    <3> HIDE DEF V
    <3>2. Running(t) /\ Leaves(way, w, t.stack, V(k) \cup {k + 1}, k + 1)
      BY <1>5, <1>6, <2>1, <2>3
    <3>3. t.at = 0
      BY <1>5, <1>6, <2>1, <3>2 DEF Running
    <3> QED
      BY <3>1, <3>2, <3>3
  <2>4. CASE ~Is(way, c)
    <3>1. V(k + 1) = V(k)
      <4>1. ASSUME NEW r \in V(k) PROVE r \in V(k + 1)
        <5>1. CASE r = 1
          BY <2>1, <5>1 DEF Waiting
        <5>2. CASE r \in S /\ w[r] \in way.ins /\ mm[r] > k
          <6>1. mm[r] # k + 1
            BY <2>2, <2>4, <5>2
          <6>2. mm[r] > k + 1
            BY <2>1, <2>2, <5>2, <6>1
          <6>3. r \in 1..k
            BY DEF Waiting
          <6>4. r \in 1..(k + 1)
            BY <2>1, <6>3
          <6> QED
            BY <5>2, <6>2, <6>4 DEF Waiting
        <5> QED
          BY <5>1, <5>2 DEF Waiting
      <4>2. ASSUME NEW r \in V(k + 1) PROVE r \in V(k)
        <5>1. CASE r = 1
          BY <2>1, <5>1 DEF Waiting
        <5>2. CASE r \in S /\ w[r] \in way.ins /\ mm[r] > k + 1
          <6>1. r # k + 1
            BY <2>4, <5>2 DEF Is
          <6>2. r \in 1..k /\ mm[r] > k
            BY <2>1, <2>2, <5>2, <6>1 DEF Waiting
          <6> QED
            BY <5>2, <6>2 DEF Waiting
        <5> QED
          BY <5>1, <5>2 DEF Waiting
      <4> HIDE DEF V
      <4> QED
        BY <4>1, <4>2
    <3> HIDE DEF V
    <3>2. Running(t) /\ Leaves(way, w, t.stack, V(k), k + 1)
      BY <1>5, <1>6, <2>1, <2>4
    <3>3. t.at = 0
      BY <1>5, <1>6, <2>1, <3>2 DEF Running
    <3> QED
      BY <3>1, <3>2, <3>3
  <2>5. CASE c \in way.outs
    <3>1. PICK p : p = mm[k + 1]
      OBVIOUS
    <3>2. /\ p \in S /\ mm[p] = k + 1 /\ p < k + 1 /\ w[p] \in way.ins
          /\ <<w[p], c>> \in way.pairs /\ Is(way, w[p])
          /\ c \notin way.ins
      <4>1. Is(way, c)
        BY <2>5 DEF Is
      <4>2. c \notin way.ins
        BY <1>1, <2>5 DEF IsWay
      <4> QED
        BY <1>2, <2>1, <2>5, <3>1, <4>1, <4>2
    <3>3. p \in V(k) /\ p # 1
      BY <2>1, <3>2 DEF Waiting
    <3>4. ASSUME NEW v \in V(k) PROVE v <= p
      <4>1. CASE v = 1
        BY <3>2, <4>1
      <4>2. CASE v \in S /\ w[v] \in way.ins /\ mm[v] > k /\ v \in 1..k
        <5> SUFFICES ASSUME p < v PROVE FALSE
          BY <2>1, <3>2, <4>2
        <5>1. Is(way, w[v])
          BY <4>2 DEF Is
        <5>2. v < mm[p]
          BY <2>1, <3>2, <4>2
        <5>3. mm[v] < mm[p]
          BY <1>2, <3>2, <4>2, <5>1, <5>2
        <5> QED
          BY <2>1, <2>2, <3>2, <4>2, <5>3
      <4> QED
        BY <4>1, <4>2 DEF Waiting
    <3>5. V(k + 1) = V(k) \ {p}
      <4>1. ASSUME NEW r \in V(k), r # p PROVE r \in V(k + 1)
        <5>1. CASE r = 1
          BY <2>1, <5>1 DEF Waiting
        <5>2. CASE r \in S /\ w[r] \in way.ins /\ mm[r] > k
          <6>1. mm[r] # k + 1
            BY <2>2, <3>1, <4>1, <5>2
          <6>2. mm[r] > k + 1
            BY <2>1, <2>2, <5>2, <6>1
          <6>3. r \in 1..k
            BY DEF Waiting
          <6>4. r \in 1..(k + 1)
            BY <2>1, <6>3
          <6> QED
            BY <5>2, <6>2, <6>4 DEF Waiting
        <5> QED
          BY <5>1, <5>2 DEF Waiting
      <4>2. ASSUME NEW r \in V(k + 1) PROVE r \in V(k) /\ r # p
        <5>1. CASE r = 1
          BY <2>1, <3>3, <5>1 DEF Waiting
        <5>2. CASE r \in S /\ w[r] \in way.ins /\ mm[r] > k + 1
          <6>1. r # k + 1 /\ r # p
            <7>1. r # k + 1
              BY <3>2, <5>2
            <7>2. r # p
              BY <2>1, <3>2, <5>2
            <7> QED
              BY <7>1, <7>2
          <6>2. r \in 1..k /\ mm[r] > k
            BY <2>1, <2>2, <5>2, <6>1 DEF Waiting
          <6> QED
            BY <5>2, <6>1, <6>2 DEF Waiting
        <5> QED
          BY <5>1, <5>2 DEF Waiting
      <4> HIDE DEF V
      <4> QED
        BY <4>1, <4>2
    <3>6. \A v \in V(k) : v \in Int
      BY DEF Waiting
    <3> HIDE DEF V
    <3>7. PICK u \in V(k) :
            /\ \A v \in V(k) : v <= u
            /\ <<w[u], c>> \in way.pairs /\ u # 1 =>
                 Running(t) /\ Leaves(way, w, t.stack, V(k) \ {u}, k + 1)
      BY <1>5, <1>6, <2>1, <2>5
    <3>8. u = p
      BY <3>3, <3>4, <3>6, <3>7
    <3>9. Running(t) /\ Leaves(way, w, t.stack, V(k) \ {p}, k + 1)
      BY <3>2, <3>3, <3>7, <3>8
    <3>10. t.at = 0
      BY <1>5, <1>6, <2>1, <3>9 DEF Running
    <3> QED
      BY <3>5, <3>9, <3>10
  <2> QED
    BY <2>3, <2>4, <2>5 DEF Is
<1>7. Fine(y - 1)
  <2>1. 1 \in K
    BY <1>1, <1>4
  <2>2. \A k \in 1..(y - 1 - 1) : k \in K => k + 1 \in K
    <3>1. \A k \in 1..(y - 1 - 1) : k \in 1..(y - 2) /\ k + 1 \in 1..(y - 1)
      BY <1>1
    <3> HIDE DEF Fine
    <3> QED
      BY <1>6, <3>1
  <2> HIDE DEF K
  <2>3. 1..(y - 1) \subseteq K
    BY <1>1, <2>1, <2>2, Onwards
  <2> HIDE DEF Fine
  <2> QED
    BY <1>1, <2>3 DEF K
<1>8. V(y - 1) = {1}
  <2>1. ASSUME NEW r \in S, w[r] \in way.ins PROVE ~(mm[r] > y - 1)
    <3>1. mm[r] \in 2..(y - 1)
      OBVIOUS
    <3> QED
      BY <1>1, <3>1
  <2> QED
    BY <1>1, <2>1 DEF Waiting
<1>9. g[y].found /\ g[y].at = at[y]
  <2>1. y - 1 \in 1..(n - 1) /\ y - 1 + 1 = y
    BY <1>1
  <2>2. w[y] \in way.outs
    BY <1>1, PairsAre
  <2> HIDE DEF Fine, V
  <2>3. PICK u \in V(y - 1) :
          <<w[u], w[y - 1 + 1]>> \in way.pairs /\ u = 1 =>
            g[y - 1 + 1].found /\ g[y - 1 + 1].at = at[y - 1 + 1]
    BY <1>5, <1>7, <2>1, <2>2
  <2> QED
    BY <1>8, <2>1, <2>3
<1>10. g[n].at = at[y]
  <2>1. y \in E
    BY <1>1, <1>9 DEF Running
  <2>2. ASSUME NEW k \in y..(n - 1), k \in E PROVE k + 1 \in E
    <3>1. k \in 1..(n - 1) /\ k + 1 \in y..n
      BY <1>1
    <3>2. Reads(way, g[k], g[k + 1], w[k + 1], at[k + 1])
      BY <1>3, <3>1
    <3>3. g[k + 1] = g[k]
      BY <2>2, <3>2 DEF Reads
    <3> QED
      BY <2>2, <3>1, <3>3
  <2> HIDE DEF E
  <2>3. y..n \subseteq E
    BY <1>1, <2>1, <2>2, Onwards
  <2>4. n \in y..n
    BY <1>1
  <2> QED
    BY <2>3, <2>4 DEF E
<1> QED
  BY <1>10
-----------------------------------------------------------------------------
(* The states that the tokens from pos on lead to, one after the other.     *)
RightSteps(tokens, pos, n, g) ==
  /\ g[0] = Open(<<>>)
  /\ \A k \in 1..n : g[k] = Forward(tokens, g[k - 1], pos + k - 1)
  /\ CloseExpression(tokens, pos) = g[n].at

LeftSteps(tokens, pos, n, g) ==
  /\ g[0] = Open(<<>>)
  /\ \A k \in 1..n : g[k] = Backward(tokens, g[k - 1], pos - k + 1)
  /\ ReverseCloseExpression(tokens, pos) = g[n].at

LEMMA ForwardIsChain ==
  ASSUME NEW tokens, NEW pos, NEW n \in Nat, n = Len(tokens) - pos + 1, tokens[pos] \in Openers
  PROVE  \E g : RightSteps(tokens, pos, n, g)
<1> DEFINE Next1(s, k) == Forward(tokens, s, pos + k - 1)
           Value(h, S) == IF S = {} THEN Open(<<>>) ELSE LET x == Max(S) IN Next1(h[S \ {x}], x)
           Steps(h, m) == h = [S \in SUBSET (1..m) |-> Value(h, S)]
           T == {m \in 0..n : ~\E h : Steps(h, m)}
           id == [i \in 1..Len(tokens) - pos + 1 |-> pos + i - 1]
           iter == CHOOSE h : h = [S \in SUBSET DOMAIN id |->
                              IF S = {} THEN Open(<<>>)
                              ELSE LET x == Max(S) IN Forward(tokens, h[S \ {x}], id[x])]
<1>1. CloseExpression(tokens, pos) = iter[DOMAIN id].at
  <2>1. ~(\/ tokens[pos] \notin Openers \cup {"<"}
          \/ tokens[pos] = "<" /\ pos < Len(tokens) /\ tokens[pos + 1] \in {"<", "="})
    BY DEF Openers, Closers
  <2> QED
    BY <2>1, Zenon DEF CloseExpression, FoldLeft, MapThenFoldSet
<1> HIDE DEF Next1
<1>2. T = {}
  <2> SUFFICES ASSUME T # {} PROVE FALSE
    OBVIOUS
  <2>1. T \in SUBSET Nat
    <3>1. 0..n \in SUBSET Nat
      OBVIOUS
    <3> QED
      BY <3>1
  <2>2. PICK m \in T : \A k \in T : m <= k
    BY <2>1, Least
  <2>3. m \in 0..n /\ ~\E h : Steps(h, m)
    OBVIOUS
  <2>4. CASE m = 0
    <3> DEFINE h == [S \in SUBSET (1..0) |-> Open(<<>>)]
    <3>1. SUBSET (1..0) = {{}}
      OBVIOUS
    <3>2. \A S \in SUBSET (1..0) : h[S] = Value(h, S)
      BY <3>1
    <3>3. h = [S \in SUBSET (1..0) |-> h[S]]
      OBVIOUS
    <3>4. Steps(h, 0)
      <4> HIDE DEF h, Value
      <4> QED
        BY <3>2, <3>3
    <3> HIDE DEF h, Steps
    <3> QED
      BY <2>3, <2>4, <3>4
  <2>5. CASE m # 0
    <3>1. m \in Nat \ {0} /\ m - 1 \in 0..n /\ ~(m <= m - 1)
      BY <2>3, <2>5
    <3>2. PICK h : Steps(h, m - 1)
      BY <2>2, <3>1
    <3> DEFINE g == [S \in SUBSET (1..m) |->
                      IF m \in S THEN Next1(h[S \ {m}], m) ELSE h[S]]
    <3>3. ASSUME NEW S \in SUBSET (1..m) PROVE g[S] = Value(g, S)
      <4>1. CASE m \in S
        <5>1. Max(S) = m
          <6>1. S \in SUBSET Int /\ \A y \in S : y <= m
            BY <3>1
          <6> QED
            BY <4>1, <6>1, MaxIs
        <5>2. S \ {m} \in SUBSET (1..m) /\ m \notin S \ {m}
          OBVIOUS
        <5>3. g[S \ {m}] = h[S \ {m}]
          BY <5>2
        <5> QED
          BY <4>1, <5>1, <5>3
      <4>2. CASE m \notin S
        <5>1. S \in SUBSET (1..(m - 1)) /\ g[S] = h[S]
          BY <3>1, <4>2
        <5>2. h[S] = Value(h, S)
          <6> HIDE DEF Value
          <6> QED
            BY <3>2, <5>1
        <5>3. S # {} => g[S \ {Max(S)}] = h[S \ {Max(S)}]
          <6>1. S \ {Max(S)} \in SUBSET (1..m) /\ m \notin S \ {Max(S)}
            BY <4>2
          <6> QED
            BY <6>1
        <5> HIDE DEF g
        <5> QED
          BY <5>1, <5>2, <5>3
      <4> QED
        BY <4>1, <4>2
    <3>4. g = [S \in SUBSET (1..m) |-> g[S]]
      OBVIOUS
    <3>5. Steps(g, m)
      <4> HIDE DEF g, Value
      <4> QED
        BY <3>3, <3>4
    <3> HIDE DEF g, Steps
    <3> QED
      BY <2>3, <3>5
  <2> QED
    BY <2>4, <2>5
<1>3. PICK h : Steps(h, n)
  <2>1. n \in 0..n
    OBVIOUS
  <2> HIDE DEF Steps
  <2> QED
    BY <1>2, <2>1
<1>4. \A S \in SUBSET (1..n) : iter[S] = Value(iter, S)
  <2> DEFINE Full(h1, S) == IF S = {} THEN Open(<<>>)
                            ELSE LET x == Max(S) IN Forward(tokens, h1[S \ {x}], id[x])
  <2>1. DOMAIN id = 1..n
    OBVIOUS
  <2>2. ASSUME NEW h1, NEW S \in SUBSET (1..n) PROVE Full(h1, S) = Value(h1, S)
    <3>1. CASE S # {}
      <4>1. Max(S) \in S
        BY <3>1, Greatest
      <4>2. id[Max(S)] = pos + Max(S) - 1
        BY <2>1, <4>1
      <4> QED
        BY <3>1, <4>2 DEF Next1
    <3>2. CASE S = {}
      BY <3>2
    <3> QED
      BY <3>1, <3>2
  <2>3. h = [S \in SUBSET DOMAIN id |-> Full(h, S)]
    <3> HIDE DEF Full, Value, id
    <3>1. h = [S \in SUBSET (1..n) |-> Value(h, S)]
      BY <1>3
    <3>2. [S \in SUBSET (1..n) |-> Value(h, S)] = [S \in SUBSET (1..n) |-> Full(h, S)]
      BY <2>2
    <3> QED
      BY <2>1, <3>1, <3>2
  <2>4. iter = [S \in SUBSET DOMAIN id |-> Full(iter, S)]
    <3>1. iter = CHOOSE h1 : h1 = [S \in SUBSET DOMAIN id |-> Full(h1, S)]
      BY Zenon
    <3> HIDE DEF iter, Full, id
    <3> QED
      BY <2>3, <3>1
  <2> HIDE DEF iter, Full, id, Value
  <2>5. iter = [S \in SUBSET (1..n) |-> Full(iter, S)]
    BY <2>1, <2>4
  <2> QED
    BY <2>2, <2>5
<1> HIDE DEF iter
<1> DEFINE g == [m \in 0..n |-> iter[1..m]]
<1>5. g[0] = Open(<<>>)
  <2>1. 1..0 = {} /\ 0 \in 0..n
    OBVIOUS
  <2> QED
    BY <1>4, <2>1
<1>6. ASSUME NEW k \in 1..n PROVE g[k] = Next1(g[k - 1], k)
  <2>1. 1..k \in SUBSET (1..n) /\ k \in 1..k /\ k \in 0..n /\ k - 1 \in 0..n
    OBVIOUS
  <2>2. (1..k) \ {k} = 1..(k - 1)
    OBVIOUS
  <2>3. Max(1..k) = k
    <3>1. 1..k \in SUBSET Int /\ \A y \in 1..k : y <= k
      OBVIOUS
    <3> QED
      BY <2>1, <3>1, MaxIs
  <2>4. iter[1..k] = Value(iter, 1..k)
    BY <1>4, <2>1
  <2> QED
    BY <2>1, <2>2, <2>3, <2>4
<1>7. CloseExpression(tokens, pos) = g[n].at
  <2>1. DOMAIN id = 1..n /\ n \in 0..n
    OBVIOUS
  <2> QED
    BY <1>1, <2>1
<1>8. \A k \in 1..n : g[k] = Forward(tokens, g[k - 1], pos + k - 1)
  BY <1>6 DEF Next1
<1> HIDE DEF g
<1> QED
  BY <1>5, <1>7, <1>8 DEF RightSteps


LEMMA BackwardIsChain ==
  ASSUME NEW tokens, NEW pos, NEW n \in Nat, n = pos, tokens[pos] \in Closers
  PROVE  \E g : LeftSteps(tokens, pos, n, g)
<1> DEFINE Next1(s, k) == Backward(tokens, s, pos - k + 1)
           Value(h, S) == IF S = {} THEN Open(<<>>) ELSE LET x == Max(S) IN Next1(h[S \ {x}], x)
           Steps(h, m) == h = [S \in SUBSET (1..m) |-> Value(h, S)]
           T == {m \in 0..n : ~\E h : Steps(h, m)}
           id == [i \in 1..pos |-> pos - i + 1]
           iter == CHOOSE h : h = [S \in SUBSET DOMAIN id |->
                              IF S = {} THEN Open(<<>>)
                              ELSE LET x == Max(S) IN Backward(tokens, h[S \ {x}], id[x])]
<1>1. ReverseCloseExpression(tokens, pos) = iter[DOMAIN id].at
  <2>1. ~(tokens[pos] \notin Closers \cup {">"})
    BY DEF Openers, Closers
  <2> QED
    BY <2>1, Zenon DEF ReverseCloseExpression, FoldLeft, MapThenFoldSet
<1> HIDE DEF Next1
<1>2. T = {}
  <2> SUFFICES ASSUME T # {} PROVE FALSE
    OBVIOUS
  <2>1. T \in SUBSET Nat
    <3>1. 0..n \in SUBSET Nat
      OBVIOUS
    <3> QED
      BY <3>1
  <2>2. PICK m \in T : \A k \in T : m <= k
    BY <2>1, Least
  <2>3. m \in 0..n /\ ~\E h : Steps(h, m)
    OBVIOUS
  <2>4. CASE m = 0
    <3> DEFINE h == [S \in SUBSET (1..0) |-> Open(<<>>)]
    <3>1. SUBSET (1..0) = {{}}
      OBVIOUS
    <3>2. \A S \in SUBSET (1..0) : h[S] = Value(h, S)
      BY <3>1
    <3>3. h = [S \in SUBSET (1..0) |-> h[S]]
      OBVIOUS
    <3>4. Steps(h, 0)
      <4> HIDE DEF h, Value
      <4> QED
        BY <3>2, <3>3
    <3> HIDE DEF h, Steps
    <3> QED
      BY <2>3, <2>4, <3>4
  <2>5. CASE m # 0
    <3>1. m \in Nat \ {0} /\ m - 1 \in 0..n /\ ~(m <= m - 1)
      BY <2>3, <2>5
    <3>2. PICK h : Steps(h, m - 1)
      BY <2>2, <3>1
    <3> DEFINE g == [S \in SUBSET (1..m) |->
                      IF m \in S THEN Next1(h[S \ {m}], m) ELSE h[S]]
    <3>3. ASSUME NEW S \in SUBSET (1..m) PROVE g[S] = Value(g, S)
      <4>1. CASE m \in S
        <5>1. Max(S) = m
          <6>1. S \in SUBSET Int /\ \A y \in S : y <= m
            BY <3>1
          <6> QED
            BY <4>1, <6>1, MaxIs
        <5>2. S \ {m} \in SUBSET (1..m) /\ m \notin S \ {m}
          OBVIOUS
        <5>3. g[S \ {m}] = h[S \ {m}]
          BY <5>2
        <5> QED
          BY <4>1, <5>1, <5>3
      <4>2. CASE m \notin S
        <5>1. S \in SUBSET (1..(m - 1)) /\ g[S] = h[S]
          BY <3>1, <4>2
        <5>2. h[S] = Value(h, S)
          <6> HIDE DEF Value
          <6> QED
            BY <3>2, <5>1
        <5>3. S # {} => g[S \ {Max(S)}] = h[S \ {Max(S)}]
          <6>1. S \ {Max(S)} \in SUBSET (1..m) /\ m \notin S \ {Max(S)}
            BY <4>2
          <6> QED
            BY <6>1
        <5> HIDE DEF g
        <5> QED
          BY <5>1, <5>2, <5>3
      <4> QED
        BY <4>1, <4>2
    <3>4. g = [S \in SUBSET (1..m) |-> g[S]]
      OBVIOUS
    <3>5. Steps(g, m)
      <4> HIDE DEF g, Value
      <4> QED
        BY <3>3, <3>4
    <3> HIDE DEF g, Steps
    <3> QED
      BY <2>3, <3>5
  <2> QED
    BY <2>4, <2>5
<1>3. PICK h : Steps(h, n)
  <2>1. n \in 0..n
    OBVIOUS
  <2> HIDE DEF Steps
  <2> QED
    BY <1>2, <2>1
<1>4. \A S \in SUBSET (1..n) : iter[S] = Value(iter, S)
  <2> DEFINE Full(h1, S) == IF S = {} THEN Open(<<>>)
                            ELSE LET x == Max(S) IN Backward(tokens, h1[S \ {x}], id[x])
  <2>1. DOMAIN id = 1..n
    OBVIOUS
  <2>2. ASSUME NEW h1, NEW S \in SUBSET (1..n) PROVE Full(h1, S) = Value(h1, S)
    <3>1. CASE S # {}
      <4>1. Max(S) \in S
        BY <3>1, Greatest
      <4>2. id[Max(S)] = pos - Max(S) + 1
        BY <2>1, <4>1
      <4> QED
        BY <3>1, <4>2 DEF Next1
    <3>2. CASE S = {}
      BY <3>2
    <3> QED
      BY <3>1, <3>2
  <2>3. h = [S \in SUBSET DOMAIN id |-> Full(h, S)]
    <3> HIDE DEF Full, Value, id
    <3>1. h = [S \in SUBSET (1..n) |-> Value(h, S)]
      BY <1>3
    <3>2. [S \in SUBSET (1..n) |-> Value(h, S)] = [S \in SUBSET (1..n) |-> Full(h, S)]
      BY <2>2
    <3> QED
      BY <2>1, <3>1, <3>2
  <2>4. iter = [S \in SUBSET DOMAIN id |-> Full(iter, S)]
    <3>1. iter = CHOOSE h1 : h1 = [S \in SUBSET DOMAIN id |-> Full(h1, S)]
      BY Zenon
    <3> HIDE DEF iter, Full, id
    <3> QED
      BY <2>3, <3>1
  <2> HIDE DEF iter, Full, id, Value
  <2>5. iter = [S \in SUBSET (1..n) |-> Full(iter, S)]
    BY <2>1, <2>4
  <2> QED
    BY <2>2, <2>5
<1> HIDE DEF iter
<1> DEFINE g == [m \in 0..n |-> iter[1..m]]
<1>5. g[0] = Open(<<>>)
  <2>1. 1..0 = {} /\ 0 \in 0..n
    OBVIOUS
  <2> QED
    BY <1>4, <2>1
<1>6. ASSUME NEW k \in 1..n PROVE g[k] = Next1(g[k - 1], k)
  <2>1. 1..k \in SUBSET (1..n) /\ k \in 1..k /\ k \in 0..n /\ k - 1 \in 0..n
    OBVIOUS
  <2>2. (1..k) \ {k} = 1..(k - 1)
    OBVIOUS
  <2>3. Max(1..k) = k
    <3>1. 1..k \in SUBSET Int /\ \A y \in 1..k : y <= k
      OBVIOUS
    <3> QED
      BY <2>1, <3>1, MaxIs
  <2>4. iter[1..k] = Value(iter, 1..k)
    BY <1>4, <2>1
  <2> QED
    BY <2>1, <2>2, <2>3, <2>4
<1>7. ReverseCloseExpression(tokens, pos) = g[n].at
  <2>1. DOMAIN id = 1..n /\ n \in 0..n
    OBVIOUS
  <2> QED
    BY <1>1, <2>1
<1>8. \A k \in 1..n : g[k] = Backward(tokens, g[k - 1], pos - k + 1)
  BY <1>6 DEF Next1
<1> HIDE DEF g
<1> QED
  BY <1>5, <1>7, <1>8 DEF LeftSteps


LEMMA WaysAre == IsWay(Rightwards) /\ IsWay(Leftwards)
BY DEF IsWay, Rightwards, Leftwards, PairSet, Openers, Closers

LEMMA PairIs ==
  ASSUME NEW x, NEW y
  PROVE  /\ Pairs(x, y) => x \in Openers /\ y \in Closers
         /\ <<x, y>> \in Rightwards.pairs <=> Pairs(x, y)
         /\ <<y, x>> \in Leftwards.pairs <=> Pairs(x, y)
<1>1. <<x, y>>[1] = x /\ <<x, y>>[2] = y /\ <<y, x>>[1] = y /\ <<y, x>>[2] = x
  OBVIOUS
<1>2. Pairs(x, y) => x \in Openers /\ y \in Closers
  BY DEF Pairs, Closer, Openers, Closers
<1>3. <<x, y>> \in Rightwards.pairs <=> Pairs(x, y)
  BY <1>1, <1>2 DEF Rightwards, PairSet
<1>4. <<y, x>> \in Leftwards.pairs <=> Pairs(x, y)
  BY <1>1, <1>2 DEF Leftwards
<1> QED
  BY <1>2, <1>3, <1>4

LEMMA WithoutNot ==
  ASSUME NEW st, IsSeq(st), st # <<>>, NEW angle, st[1] # angle
  PROVE  Without(st, angle) # <<>>
<1> DEFINE S == {i \in DOMAIN st : st[i] # angle}
           j == Max(S)
<1>1. Len(st) \in Nat /\ DOMAIN st = 1..Len(st) /\ Len(st) # 0
  BY SeqOps
<1>2. 1 \in S /\ S \in SUBSET (1..Len(st))
  BY <1>1
<1>3. j \in S /\ \A y \in S : y <= j
  BY <1>1, <1>2, Greatest
<1>4. Max({0} \cup S) = j
  <2> HIDE DEF j
  <2>1. {0} \cup S \in SUBSET Int /\ j \in {0} \cup S /\ \A y \in {0} \cup S : y <= j
    BY <1>1, <1>2, <1>3
  <2> HIDE DEF S
  <2> QED
    BY <2>1, MaxIs
<1>5. Without(st, angle) = SubSeq(st, 1, j)
  BY <1>4 DEF Without
<1> HIDE DEF j
<1>6. j \in 1..Len(st) /\ j \in 0..Len(st) /\ j # 0
  BY <1>1, <1>2, <1>3
<1>7. IsSeq(SubSeq(st, 1, j)) /\ Len(SubSeq(st, 1, j)) = j
  BY <1>6, PrefixOps
<1> QED
  BY <1>5, <1>6, <1>7, SeqOps

LEMMA TopIsNone ==
  ASSUME NEW st, IsSeq(st), NEW angle, st[1] # angle, Tops(st, angle)
  PROVE  Len(st) # 1 /\ Last(st) = angle
BY DEF Tops, Last

LEMMA OpenIs ==
  ASSUME NEW st
  PROVE  Open(st).stack = st /\ Open(st).at = 0 /\ Running(Open(st)) /\ ~Open(st).skip
BY DEF Open, Running

LEMMA FoundIs ==
  ASSUME NEW p
  PROVE  FoundAt(p).found /\ ~FoundAt(p).failed /\ FoundAt(p).at = p /\ ~FoundAt(p).skip
BY DEF Open, FoundAt

LEMMA FailedIs == ~Failed.found /\ Failed.failed /\ Failed.at = 0 /\ ~Failed.skip
BY DEF Open, Failed

LEMMA ForwardReads ==
  ASSUME NEW tokens, NEW acc, NEW i
  PROVE  Reads(Rightwards, acc, Forward(tokens, acc, i), tokens[i], i + 1)
<1> DEFINE c == tokens[i]
           t == Forward(tokens, acc, i)
           rest == Without(acc.stack, "<")
<1>1. /\ Rightwards.ins = Openers /\ Rightwards.outs = Closers /\ Rightwards.angle = "<"
      /\ \A x : Is(Rightwards, x) <=> x \in Openers \cup Closers
  BY DEF Rightwards, Is
<1>2. ~Running(acc) => t = acc
  BY DEF Running, Forward
<1>3. ASSUME Running(acc), c \in Openers
      PROVE  t = Open(Append(acc.stack, c))
  BY <1>3 DEF Running, Forward, Openers, Closers
<1>4. ASSUME Running(acc), c \in Closers
      PROVE  t = IF rest = <<>> \/ ~Pairs(Last(rest), c) THEN Failed
                 ELSE IF Len(rest) = 1 THEN FoundAt(i + 1) ELSE Open(Front(rest))
  BY <1>4 DEF Running, Forward, Openers, Closers, Pop
<1>5. ASSUME Running(acc), c \notin Openers \cup Closers,
             IsSeq(acc.stack), acc.stack # <<>>, acc.stack[1] # "<"
      PROVE  /\ Running(t) /\ t.at \in {0, acc.at}
             /\ \/ t.stack = acc.stack
                \/ t.stack = Append(acc.stack, "<")
                \/ /\ Len(acc.stack) # 1 /\ Last(acc.stack) = "<"
                   /\ t.stack = Front(acc.stack)
                \/ t.stack = rest
  <2>1. rest # <<>>
    BY <1>5, WithoutNot
  <2>2. Tops(acc.stack, "<") => Len(acc.stack) # 1 /\ Last(acc.stack) = "<"
    BY <1>5, TopIsNone
  <2>3. \/ t = acc
        \/ t = Open(Append(acc.stack, "<"))
        \/ Tops(acc.stack, "<") /\ t = Open(Front(acc.stack))
        \/ t = Open(rest)
    <3> HIDE DEF rest
    <3>1. CASE c = "<"
      BY <1>5, <2>2, <3>1 DEF Running, Forward, Openers, Closers
    <3>2. CASE c = ">"
      BY <1>5, <2>2, <3>2 DEF Running, Forward, Openers, Closers, Pop
    <3>3. CASE c = ";"
      BY <1>5, <2>1, <3>3 DEF Running, Forward, Openers, Closers, rest
    <3>4. CASE c \notin {"<", ">", ";"}
      BY <1>5, <3>4 DEF Running, Forward
    <3> QED
      BY <3>1, <3>2, <3>3, <3>4
  <2> HIDE DEF t, rest
  <2> QED
    BY <1>5, <2>2, <2>3, OpenIs
<1>6. c \in Closers => (<<Last(rest), c>> \notin Rightwards.pairs <=> ~Pairs(Last(rest), c))
  BY PairIs
<1> HIDE DEF t, rest
<1>7. ASSUME Running(acc), c \in Openers
      PROVE  Running(t) /\ t.at = 0 /\ t.stack = Append(acc.stack, c)
  BY <1>3, <1>7, OpenIs
<1>8. ASSUME Running(acc), c \in Closers
      PROVE  IF rest = <<>> \/ <<Last(rest), c>> \notin Rightwards.pairs
             THEN ~t.found /\ t.failed /\ t.at = 0
             ELSE IF Len(rest) = 1 THEN t.found /\ t.at = i + 1
             ELSE Running(t) /\ t.at = 0 /\ t.stack = Front(rest)
  BY <1>4, <1>6, <1>8, OpenIs, FoundIs, FailedIs
<1> QED
  BY <1>1, <1>2, <1>5, <1>7, <1>8 DEF Reads, t, rest

(* What Backward hands on to the next token.                                *)
Whole(acc) ==
  /\ DOMAIN acc = {"stack", "found", "failed", "at", "skip"}
  /\ acc.skip \in BOOLEAN /\ (acc.skip => Running(acc))

LEMMA WholeAre ==
  /\ \A st : Whole(Open(st))
  /\ \A p : Whole(FoundAt(p))
  /\ Whole(Failed)
<1>1. ASSUME NEW st
      PROVE  DOMAIN Open(st) = {"stack", "found", "failed", "at", "skip"} /\ Whole(Open(st))
  BY DEF Whole, Open
<1>2. ASSUME NEW p PROVE Whole(FoundAt(p))
  <2>1. DOMAIN FoundAt(p) = {"stack", "found", "failed", "at", "skip"}
    BY <1>1 DEF FoundAt
  <2>2. FoundAt(p).skip = FALSE
    BY DEF FoundAt, Open
  <2> QED
    BY <2>1, <2>2 DEF Whole
<1>3. Whole(Failed)
  <2>1. DOMAIN Failed = {"stack", "found", "failed", "at", "skip"}
    BY <1>1 DEF Failed
  <2>2. Failed.skip = FALSE
    BY DEF Failed, Open
  <2> QED
    BY <2>1, <2>2 DEF Whole
<1> QED
  BY <1>1, <1>2, <1>3

LEMMA SkipIs ==
  ASSUME NEW acc, Whole(acc), NEW b \in BOOLEAN, Running(acc)
  PROVE  LET t == [acc EXCEPT !.skip = b] IN
         /\ t.stack = acc.stack /\ t.at = acc.at /\ Running(t) /\ t.skip = b /\ Whole(t)
BY DEF Whole, Running

(* A token that is read with the one after it is no bracket.                *)
LEMMA SkippedIsNone ==
  ASSUME NEW tokens, NEW i \in Nat \ {0, 1},
         Before(tokens, i) \in {"-", "<"} \/ SpacedGe(tokens, i) \/ OperatorBefore(tokens, i)
  PROVE  tokens[i - 1] \notin Openers \cup Closers
<1>1. Before(tokens, i) = tokens[i - 1]
  BY DEF Before
<1>2. ASSUME OperatorBefore(tokens, i) PROVE tokens[i - 1] \in {"operator", "sp"}
  <2>1. PICK j \in 1..(i - 1) : /\ tokens[j] = "operator"
                                /\ \A k \in (j + 1)..(i - 1) : tokens[k] = "sp"
    BY <1>2 DEF OperatorBefore
  <2>2. j = i - 1 \/ i - 1 \in (j + 1)..(i - 1)
    OBVIOUS
  <2> QED
    BY <2>1, <2>2
<1>3. tokens[i - 1] \in {"-", "<", "operator", "sp"}
  BY <1>1, <1>2 DEF SpacedGe
<1> QED
  BY <1>3 DEF Openers, Closers

LEMMA BackwardReads ==
  ASSUME NEW tokens, NEW acc, NEW i \in Nat \ {0}, Whole(acc),
         acc.skip => tokens[i] \notin Openers \cup Closers
  PROVE  LET t == Backward(tokens, acc, i) IN
         /\ Reads(Leftwards, acc, t, tokens[i], i)
         /\ Whole(t) /\ (t.skip /\ i # 1 => tokens[i - 1] \notin Openers \cup Closers)
<1> DEFINE c == tokens[i]
           t == Backward(tokens, acc, i)
           rest == Without(acc.stack, ">")
           next == i # 1 => tokens[i - 1] \notin Openers \cup Closers
<1>1. /\ Leftwards.ins = Closers /\ Leftwards.outs = Openers /\ Leftwards.angle = ">"
      /\ \A x : Is(Leftwards, x) <=> x \in Openers \cup Closers
  BY DEF Leftwards, Is
<1>2. ASSUME ~Running(acc) PROVE t = acc /\ ~acc.skip
  BY <1>2 DEF Running, Backward, Whole
<1>3. ASSUME Running(acc), c \in Closers
      PROVE  t = Open(Append(acc.stack, c))
  BY <1>3 DEF Running, Backward, Openers, Closers
<1>4. ASSUME Running(acc), c \in Openers
      PROVE  t = IF rest = <<>> \/ ~Pairs(c, Last(rest)) THEN Failed
                 ELSE IF Len(rest) = 1 THEN FoundAt(i) ELSE Open(Front(rest))
  BY <1>4 DEF Running, Backward, Openers, Closers, Pop
<1>5. ASSUME Running(acc), c \notin Openers \cup Closers
      PROVE  \/ t = [acc EXCEPT !.skip = FALSE]
             \/ t = acc /\ ~acc.skip
             \/ t = [acc EXCEPT !.skip = TRUE] /\ next
             \/ t = Open(Append(acc.stack, ">"))
             \/ Tops(acc.stack, ">") /\ Len(acc.stack) # 1 /\ t = Open(Front(acc.stack))
             \/ Tops(acc.stack, ">") /\ Len(acc.stack) = 1 /\ t = FoundAt(i)
             \/ rest # <<>> /\ t = Open(rest)
             \/ rest = <<>> /\ t = Failed
             \/ acc.stack = <<>> /\ t = Failed
  <2>1. ASSUME Before(tokens, i) \in {"-", "<"} \/ SpacedGe(tokens, i) \/ OperatorBefore(tokens, i)
        PROVE  next
    BY <2>1, SkippedIsNone
  <2> HIDE DEF next, rest
  <2>2. CASE acc.skip
    BY <1>5, <2>2 DEF Running, Backward
  <2>3. CASE ~acc.skip /\ c = "<"
    BY <1>5, <2>1, <2>3 DEF Running, Backward, Openers, Closers, Pop
  <2>4. CASE ~acc.skip /\ c = ">"
    BY <1>5, <2>1, <2>4 DEF Running, Backward, Openers, Closers
  <2>5. CASE ~acc.skip /\ c = ";"
    BY <1>5, <2>5 DEF Running, Backward, Openers, Closers, rest
  <2>6. CASE ~acc.skip /\ c \notin {"<", ">", ";"}
    BY <1>5, <2>6 DEF Running, Backward
  <2> QED
    BY <2>2, <2>3, <2>4, <2>5, <2>6
<1>6. c \in Openers => (<<Last(rest), c>> \notin Leftwards.pairs <=> ~Pairs(c, Last(rest)))
  BY PairIs
<1>7. ASSUME IsSeq(acc.stack), acc.stack # <<>>, acc.stack[1] # ">"
      PROVE  /\ rest # <<>>
             /\ Tops(acc.stack, ">") => Len(acc.stack) # 1 /\ Last(acc.stack) = ">"
  BY <1>7, WithoutNot, TopIsNone
<1> HIDE DEF t, rest
<1>8. ASSUME Running(acc), c \in Closers
      PROVE  Running(t) /\ t.at = 0 /\ t.stack = Append(acc.stack, c)
  BY <1>3, <1>8, OpenIs
<1>9. ASSUME Running(acc), c \in Openers
      PROVE  IF rest = <<>> \/ <<Last(rest), c>> \notin Leftwards.pairs
             THEN ~t.found /\ t.failed /\ t.at = 0
             ELSE IF Len(rest) = 1 THEN t.found /\ t.at = i
             ELSE Running(t) /\ t.at = 0 /\ t.stack = Front(rest)
  BY <1>4, <1>6, <1>9, OpenIs, FoundIs, FailedIs
<1>10. ASSUME Running(acc), c \notin Openers \cup Closers,
              IsSeq(acc.stack), acc.stack # <<>>, acc.stack[1] # ">"
       PROVE  /\ Running(t) /\ t.at \in {0, acc.at}
              /\ \/ t.stack = acc.stack
                 \/ t.stack = Append(acc.stack, ">")
                 \/ /\ Len(acc.stack) # 1 /\ Last(acc.stack) = ">"
                    /\ t.stack = Front(acc.stack)
                 \/ t.stack = rest
  <2>1. \/ \E b \in BOOLEAN : t = [acc EXCEPT !.skip = b]
        \/ t = acc
        \/ t = Open(Append(acc.stack, ">"))
        \/ Len(acc.stack) # 1 /\ Last(acc.stack) = ">" /\ t = Open(Front(acc.stack))
        \/ t = Open(rest)
    BY <1>5, <1>7, <1>10
  <2>2. CASE \E b \in BOOLEAN : t = [acc EXCEPT !.skip = b]
    BY <1>10, <2>2, SkipIs
  <2>3. CASE t = acc
    BY <1>10, <2>3
  <2>4. CASE t = Open(Append(acc.stack, ">"))
    BY <2>4, OpenIs
  <2>5. CASE Len(acc.stack) # 1 /\ Last(acc.stack) = ">" /\ t = Open(Front(acc.stack))
    BY <2>5, OpenIs
  <2>6. CASE t = Open(rest)
    BY <2>6, OpenIs
  <2> QED
    BY <2>1, <2>2, <2>3, <2>4, <2>5, <2>6
<1>11. Whole(t) /\ (t.skip => next)
  <2> HIDE DEF next
  <2>1. CASE ~Running(acc)
    BY <1>2, <2>1
  <2>2. CASE Running(acc) /\ c \in Openers \cup Closers
    <3>1. t = Failed \/ (\E p : t = FoundAt(p)) \/ (\E st : t = Open(st))
      BY <1>3, <1>4, <2>2
    <3> QED
      BY <3>1, OpenIs, FoundIs, FailedIs, WholeAre
  <2>3. CASE Running(acc) /\ c \notin Openers \cup Closers
    <3>1. CASE t = [acc EXCEPT !.skip = FALSE]
      BY <2>3, <3>1, SkipIs
    <3>2. CASE t = acc /\ ~acc.skip
      BY <3>2
    <3>3. CASE t = [acc EXCEPT !.skip = TRUE] /\ next
      BY <2>3, <3>3, SkipIs
    <3>4. CASE t = Failed \/ (\E p : t = FoundAt(p)) \/ (\E st : t = Open(st))
      BY <3>4, OpenIs, FoundIs, FailedIs, WholeAre
    <3> QED
      BY <1>5, <2>3, <3>1, <3>2, <3>3, <3>4
  <2> QED
    BY <2>1, <2>2, <2>3
<1>12. Reads(Leftwards, acc, t, c, i)
  BY <1>1, <1>2, <1>8, <1>9, <1>10 DEF Reads, rest
<1> QED
  BY <1>11, <1>12 DEF t
-----------------------------------------------------------------------------
Linked(way, w, S) == \E m \in [S -> S] : Matched(way, w, S, m)

(* f and h take the positions S of v to the positions R of w and back, in   *)
(* order or in reverse.                                                     *)
Fitting(one, two, S, R, f, h, v, w) ==
  /\ IsWay(one) /\ IsWay(two) /\ \A c : Is(one, c) <=> Is(two, c)
  /\ S \in SUBSET Int /\ R \in SUBSET Int /\ f \in [S -> R] /\ h \in [R -> S]
  /\ \A x \in S : h[f[x]] = x
  /\ \A y \in R : f[h[y]] = y
  /\ \A x \in S : w[f[x]] = v[x]
  /\ \/ /\ \A x, y \in S : x < y <=> f[x] < f[y]
        /\ \A c, d : <<c, d>> \in one.pairs <=> <<c, d>> \in two.pairs
     \/ /\ \A x, y \in S : x < y <=> f[y] < f[x]
        /\ \A c, d : <<c, d>> \in one.pairs <=> <<d, c>> \in two.pairs

(* A matching carries over to other positions.                              *)
LEMMA Carried ==
  ASSUME NEW one, NEW two, NEW S, NEW R, NEW f, NEW h, NEW v, NEW w,
         Fitting(one, two, S, R, f, h, v, w), Linked(one, v, S)
  PROVE  Linked(two, w, R)
<1>1. /\ IsWay(one) /\ \A c : Is(one, c) <=> Is(two, c)
      /\ S \in SUBSET Int /\ R \in SUBSET Int /\ f \in [S -> R] /\ h \in [R -> S]
      /\ \A x \in S : h[f[x]] = x
      /\ \A y \in R : f[h[y]] = y
      /\ \A x \in S : w[f[x]] = v[x]
  BY DEF Fitting
<1>2. \/ /\ \A x, y \in S : x < y <=> f[x] < f[y]
         /\ \A c, d : <<c, d>> \in one.pairs <=> <<c, d>> \in two.pairs
      \/ /\ \A x, y \in S : x < y <=> f[y] < f[x]
         /\ \A c, d : <<c, d>> \in one.pairs <=> <<d, c>> \in two.pairs
  BY DEF Fitting
<1>3. PICK m \in [S -> S] : Matched(one, v, S, m)
  BY DEF Linked
<1> DEFINE k == [y \in R |-> f[m[h[y]]]]
<1>4. ASSUME NEW x \in S, Is(one, v[x])
      PROVE  /\ m[x] \in S /\ m[m[x]] = x /\ Is(one, v[m[x]])
             /\ \/ x < m[x] /\ <<v[x], v[m[x]]>> \in one.pairs
                \/ m[x] < x /\ <<v[m[x]], v[x]>> \in one.pairs
             /\ \A y \in S : Is(one, v[y]) /\ x < y /\ y < m[x] => x < m[y] /\ m[y] < m[x]
  <2>1. /\ m[x] \in S /\ m[m[x]] = x
        /\ \/ x < m[x] /\ <<v[x], v[m[x]]>> \in one.pairs
           \/ m[x] < x /\ <<v[m[x]], v[x]>> \in one.pairs
        /\ \A y \in S : Is(one, v[y]) /\ x < y /\ y < m[x] => x < m[y] /\ m[y] < m[x]
    BY <1>4, <1>3 DEF Matched
  <2> QED
    BY <1>1, <2>1, PairsAre
<1>5. \A x \in S : k[f[x]] = f[m[x]] /\ f[x] \in R
  BY <1>1
<1> HIDE DEF k
<1>6. ASSUME NEW r \in R, Is(two, w[r])
      PROVE  /\ k[r] \in R /\ k[k[r]] = r
             /\ \/ r < k[r] /\ <<w[r], w[k[r]]>> \in two.pairs
                \/ k[r] < r /\ <<w[k[r]], w[r]>> \in two.pairs
             /\ \A z \in R : Is(two, w[z]) /\ r < z /\ z < k[r] => r < k[z] /\ k[z] < k[r]
  <2>1. PICK x \in S : x = h[r]
    BY <1>1
  <2>2. r = f[x] /\ w[r] = v[x] /\ Is(one, v[x])
    BY <1>1, <1>6, <2>1
  <2>3. /\ m[x] \in S /\ m[m[x]] = x /\ Is(one, v[m[x]])
        /\ \/ x < m[x] /\ <<v[x], v[m[x]]>> \in one.pairs
           \/ m[x] < x /\ <<v[m[x]], v[x]>> \in one.pairs
    BY <1>4, <2>2
  <2>4. k[r] = f[m[x]] /\ k[r] \in R /\ k[k[r]] = r /\ w[k[r]] = v[m[x]]
    <3>1. k[r] = f[m[x]] /\ k[r] \in R
      BY <1>5, <2>2, <2>3
    <3>2. w[f[m[x]]] = v[m[x]]
      BY <1>1, <2>3
    <3>3. k[f[m[x]]] = f[m[m[x]]]
      BY <1>5, <2>3
    <3> QED
      BY <2>2, <2>3, <3>1, <3>2, <3>3
  <2>5. \/ r < k[r] /\ <<w[r], w[k[r]]>> \in two.pairs
        \/ k[r] < r /\ <<w[k[r]], w[r]>> \in two.pairs
    BY <1>1, <1>2, <2>2, <2>3, <2>4
  <2>6. ASSUME NEW z \in R, Is(two, w[z]), r < z, z < k[r]
        PROVE  r < k[z] /\ k[z] < k[r]
    <3>1. PICK y \in S : y = h[z]
      BY <1>1
    <3>2. z = f[y] /\ w[z] = v[y] /\ Is(one, v[y]) /\ k[z] = f[m[y]] /\ m[y] \in S
      BY <1>1, <1>5, <2>6, <3>1
    <3>3. CASE \A c, d \in S : c < d <=> f[c] < f[d]
      <4>1. x < y /\ y < m[x]
        BY <2>2, <2>3, <2>4, <2>6, <3>2, <3>3
      <4>2. x < m[y] /\ m[y] < m[x]
        BY <1>4, <2>2, <3>2, <4>1
      <4>3. f[x] < f[m[y]] /\ f[m[y]] < f[m[x]]
        BY <2>3, <3>2, <3>3, <4>2
      <4> QED
        BY <2>2, <2>4, <3>2, <4>3
    <3>4. CASE \A c, d \in S : c < d <=> f[d] < f[c]
      <4>1. m[x] < y /\ y < x
        BY <2>2, <2>3, <2>4, <2>6, <3>2, <3>4
      <4>2. m[x] < m[y] /\ m[y] < x
        BY <1>4, <2>3, <3>2, <4>1
      <4>3. f[x] < f[m[y]] /\ f[m[y]] < f[m[x]]
        BY <2>3, <3>2, <3>4, <4>2
      <4> QED
        BY <2>2, <2>4, <3>2, <4>3
    <3> QED
      BY <1>2, <3>3, <3>4
  <2> QED
    BY <2>4, <2>5, <2>6
<1>7. Matched(two, w, R, k)
  BY <1>6 DEF Matched
<1>8. k \in [R -> R]
  BY <1>1 DEF k
<1> QED
  BY <1>7, <1>8 DEF Linked

LEMMA MatchesIs ==
  ASSUME NEW tokens, NEW S
  PROVE  (\E m \in [S -> S] : Matches(tokens, S, m)) <=> Linked(Rightwards, tokens, S)
<1>1. \A c : Is(Rightwards, c) <=> c \in Brackets
  BY DEF Is, Rightwards, Brackets
<1>2. \A c, d : <<c, d>> \in Rightwards.pairs <=> Pairs(c, d)
  BY PairIs
<1>3. ASSUME NEW m \in [S -> S]
      PROVE  Matches(tokens, S, m) <=> Matched(Rightwards, tokens, S, m)
  BY <1>1, <1>2 DEF Matches, Matched
<1> QED
  BY <1>3 DEF Linked

Meets(way, w, y) == <<w[1], w[y]>> \in way.pairs /\ Linked(way, w, 2..(y - 1))
Apart(at, n) ==
  /\ \A k \in 1..n : at[k] # 0
  /\ \A j, k \in 1..n : at[j] = at[k] => j = k

(* What a search of n tokens says of them.                                  *)
LEMMA SearchDecides ==
  ASSUME NEW way, NEW w, NEW n, NEW at, NEW g, Run(way, w, n, at, g), Apart(at, n)
  PROVE  /\ \A y \in 2..n : g[n].at = at[y] <=> Meets(way, w, y)
         /\ g[n].at = 0 \/ \E y \in 2..n : g[n].at = at[y]
<1>1. n \in 1..n
  BY DEF Run
<1>2. Searching(way, w, at, g, n)
  BY <1>1, Searches
<1>3. g[n].at = 0 \/ \E y \in 2..n : g[n].at = at[y]
  BY <1>2 DEF Searching
<1>4. (\A k \in 1..n : at[k] # 0) /\ \A j, k \in 1..n : at[j] = at[k] => j = k
  BY DEF Apart
<1>5. ASSUME NEW y \in 2..n, g[n].at = at[y]
      PROVE  Meets(way, w, y)
  <2>1. /\ <<w[1], w[y]>> \in way.pairs
        /\ \E mm \in [2..(y - 1) -> 2..(y - 1)] : Matched(way, w, 2..(y - 1), mm)
    BY <1>4, <1>5, FoundIsPair
  <2> QED
    BY <2>1 DEF Meets, Linked
<1>6. ASSUME NEW y \in 2..n, Meets(way, w, y)
      PROVE  g[n].at = at[y]
  <2>1. PICK mm \in [2..(y - 1) -> 2..(y - 1)] : Matched(way, w, 2..(y - 1), mm)
    BY <1>6 DEF Meets, Linked
  <2> QED
    BY <1>6, <2>1, PairIsFound DEF Meets
<1> QED
  BY <1>3, <1>5, <1>6

(* The n tokens from p on, and where a search would stop after them.        *)
FromLeft(tokens, p, n) == [k \in 1..n |-> tokens[p + k - 1]]
AfterLeft(p, n) == [k \in 1..n |-> p + k]
FromRight(tokens, q) == [k \in 1..q |-> tokens[q - k + 1]]
AtRight(q) == [k \in 1..q |-> q - k + 1]

LEMMA ForwardRuns ==
  ASSUME NEW tokens, NEW p \in Nat \ {0}, NEW n \in Nat \ {0}, n = Len(tokens) - p + 1,
         tokens[p] \in Openers
  PROVE  \E g : /\ Run(Rightwards, FromLeft(tokens, p, n), n, AfterLeft(p, n), g)
                /\ CloseExpression(tokens, p) = g[n].at
<1> DEFINE w == FromLeft(tokens, p, n)
           at == AfterLeft(p, n)
<1>1. n \in Nat
  OBVIOUS
<1>2. PICK g : RightSteps(tokens, p, n, g)
  BY <1>1, ForwardIsChain
<1>3. ASSUME NEW k \in 1..n PROVE Reads(Rightwards, g[k - 1], g[k], w[k], at[k])
  <2>1. Reads(Rightwards, g[k - 1], Forward(tokens, g[k - 1], p + k - 1), tokens[p + k - 1],
              p + k - 1 + 1)
    BY ForwardReads
  <2>2. p + k - 1 + 1 = p + k
    OBVIOUS
  <2>3. w[k] = tokens[p + k - 1] /\ at[k] = p + k /\ g[k] = Forward(tokens, g[k - 1], p + k - 1)
    BY <1>2 DEF RightSteps, FromLeft, AfterLeft
  <2> HIDE DEF w, at
  <2> QED
    BY <2>1, <2>2, <2>3
<1>4. w[1] \in Rightwards.ins
  <2>1. 1 \in 1..n /\ p + 1 - 1 = p
    OBVIOUS
  <2> QED
    BY <2>1 DEF Rightwards, FromLeft
<1>5. g[0].stack = <<>> /\ g[0].at = 0 /\ Running(g[0])
  BY <1>2, OpenIs DEF RightSteps
<1> HIDE DEF w, at
<1>6. Run(Rightwards, w, n, at, g)
  BY <1>3, <1>4, <1>5, WaysAre DEF Run
<1> QED
  BY <1>2, <1>6 DEF RightSteps, w, at

LEMMA BackwardRuns ==
  ASSUME NEW tokens, NEW q \in Nat \ {0}, tokens[q] \in Closers
  PROVE  \E g : /\ Run(Leftwards, FromRight(tokens, q), q, AtRight(q), g)
                /\ ReverseCloseExpression(tokens, q) = g[q].at
<1> DEFINE w == FromRight(tokens, q)
           at == AtRight(q)
<1>1. q \in Nat
  OBVIOUS
<1>2. PICK g : LeftSteps(tokens, q, q, g)
  BY <1>1, BackwardIsChain
<1> DEFINE Fine(k) == /\ Whole(g[k])
                      /\ g[k].skip /\ k # q => tokens[q - k] \notin Openers \cup Closers
           K == {k \in 0..q : Fine(k)}
<1>3. ASSUME NEW k \in 0..(q - 1), Fine(k)
      PROVE  /\ Reads(Leftwards, g[k], g[k + 1], tokens[q - k], q - k)
             /\ Fine(k + 1)
  <2>1. k + 1 \in 1..q /\ k + 1 - 1 = k /\ q - (k + 1) + 1 = q - k /\ q - k \in Nat \ {0}
        /\ q - k - 1 = q - (k + 1) /\ (q - k = 1 <=> k + 1 = q) /\ k # q
    OBVIOUS
  <2>2. g[k + 1] = Backward(tokens, g[k], q - k)
    <3>1. g[k + 1] = Backward(tokens, g[k + 1 - 1], q - (k + 1) + 1)
      BY <1>2, <2>1 DEF LeftSteps
    <3> QED
      BY <2>1, <3>1
  <2>3. Whole(g[k]) /\ (g[k].skip => tokens[q - k] \notin Openers \cup Closers)
    BY <1>3, <2>1
  <2>4. LET t == Backward(tokens, g[k], q - k) IN
        /\ Reads(Leftwards, g[k], t, tokens[q - k], q - k)
        /\ Whole(t) /\ (t.skip /\ q - k # 1 => tokens[q - k - 1] \notin Openers \cup Closers)
    BY <2>1, <2>3, BackwardReads
  <2> QED
    BY <2>1, <2>2, <2>4
<1>4. 0..q \subseteq K
  <2>1. 0 \in K
    <3>1. 0 \in 0..q
      OBVIOUS
    <3> QED
      BY <1>2, <3>1, OpenIs, WholeAre DEF LeftSteps
  <2>2. \A k \in 0..(q - 1) : k \in K => k + 1 \in K
    <3>1. \A k \in 0..(q - 1) : k + 1 \in 0..q
      OBVIOUS
    <3> HIDE DEF Fine
    <3> QED
      BY <1>3, <3>1
  <2>3. 0 \in Nat /\ q \in Nat
    OBVIOUS
  <2> HIDE DEF K
  <2> QED
    BY <2>1, <2>2, <2>3, Onwards
<1>5. ASSUME NEW k \in 1..q PROVE Reads(Leftwards, g[k - 1], g[k], w[k], at[k])
  <2>1. k - 1 \in 0..(q - 1) /\ k - 1 \in 0..q /\ k - 1 + 1 = k /\ q - (k - 1) = q - k + 1
    OBVIOUS
  <2>2. Fine(k - 1)
    BY <1>4, <2>1
  <2> HIDE DEF Fine
  <2>3. Reads(Leftwards, g[k - 1], g[k - 1 + 1], tokens[q - (k - 1)], q - (k - 1))
    BY <1>3, <2>1, <2>2
  <2>4. w[k] = tokens[q - k + 1] /\ at[k] = q - k + 1
    BY DEF FromRight, AtRight
  <2> HIDE DEF w, at
  <2> QED
    BY <2>1, <2>3, <2>4
<1>6. w[1] \in Leftwards.ins
  <2>1. 1 \in 1..q /\ q - 1 + 1 = q
    OBVIOUS
  <2> QED
    BY <2>1 DEF Leftwards, FromRight
<1>7. g[0].stack = <<>> /\ g[0].at = 0 /\ Running(g[0])
  BY <1>2, OpenIs DEF LeftSteps
<1> HIDE DEF w, at, K
<1>8. Run(Leftwards, w, q, at, g)
  BY <1>5, <1>6, <1>7, WaysAre DEF Run
<1> QED
  BY <1>2, <1>8 DEF LeftSteps, w, at

LEMMA SameBrackets == \A c : Is(Rightwards, c) <=> Is(Leftwards, c)
BY DEF Is, Rightwards, Leftwards

(* A pair at p and q, as the search to the right sees it.                   *)
LEMMA PairToRight ==
  ASSUME NEW tokens, NEW p \in Nat \ {0}, NEW n \in Nat, NEW y \in 2..n
  PROVE  Pair(tokens, p, p + y - 1) <=> Meets(Rightwards, FromLeft(tokens, p, n), y)
<1> DEFINE w == FromLeft(tokens, p, n)
           q == p + y - 1
           S == (p + 1)..(q - 1)
           R == 2..(y - 1)
           f == [x \in S |-> x - p + 1]
           h == [x \in R |-> p + x - 1]
<1>1. S \in SUBSET Int /\ R \in SUBSET Int
  OBVIOUS
<1>2. \A x \in S : x \in Int /\ x - p + 1 \in R /\ x - p + 1 \in 1..n /\ p + (x - p + 1) - 1 = x
  OBVIOUS
<1>3. \A x \in R : x \in Int /\ p + x - 1 \in S /\ (p + x - 1) - p + 1 = x /\ x \in 1..n
  OBVIOUS
<1>4. p < q /\ w[1] = tokens[p] /\ w[y] = tokens[q]
  <2>1. 1 \in 1..n /\ y \in 1..n /\ p + 1 - 1 = p /\ p < q
    OBVIOUS
  <2> QED
    BY <2>1 DEF FromLeft
<1>5. (\A x \in S : w[x - p + 1] = tokens[x]) /\ \A x \in R : w[x] = tokens[p + x - 1]
  BY <1>2, <1>3 DEF FromLeft
<1> HIDE DEF w, S, R
<1>6. f \in [S -> R] /\ h \in [R -> S]
  BY <1>2, <1>3
<1>7. \A x \in S : h[f[x]] = x /\ w[f[x]] = tokens[x]
  BY <1>2, <1>5
<1>8. \A x \in R : f[h[x]] = x /\ tokens[h[x]] = w[x]
  BY <1>3, <1>5
<1>9. \A x1, x2 \in S : x1 < x2 <=> f[x1] < f[x2]
  <2>1. \A x1, x2 \in S : x1 < x2 <=> x1 - p + 1 < x2 - p + 1
    BY <1>1
  <2> QED
    BY <2>1
<1>10. \A x1, x2 \in R : x1 < x2 <=> h[x1] < h[x2]
  <2>1. \A x1, x2 \in R : x1 < x2 <=> p + x1 - 1 < p + x2 - 1
    BY <1>1
  <2> QED
    BY <2>1
<1> HIDE DEF q, f, h
<1>11. \A c, d : <<c, d>> \in Rightwards.pairs <=> <<c, d>> \in Rightwards.pairs
  BY PairIs
<1>12. Fitting(Rightwards, Rightwards, S, R, f, h, tokens, w)
  BY <1>1, <1>6, <1>7, <1>8, <1>9, <1>11, WaysAre, SameBrackets DEF Fitting
<1>13. Fitting(Rightwards, Rightwards, R, S, h, f, w, tokens)
  BY <1>1, <1>6, <1>7, <1>8, <1>10, <1>11, WaysAre, SameBrackets DEF Fitting
<1>14. Linked(Rightwards, tokens, S) <=> Linked(Rightwards, w, R)
  BY <1>12, <1>13, Carried
<1>15. Pair(tokens, p, q) <=> Pairs(tokens[p], tokens[q]) /\ Linked(Rightwards, tokens, S)
  <2>1. Pair(tokens, p, q) <=>
          Pairs(tokens[p], tokens[q]) /\ \E m \in [S -> S] : Matches(tokens, S, m)
    BY <1>4 DEF Pair, S
  <2> QED
    BY <2>1, MatchesIs
<1>16. <<w[1], w[y]>> \in Rightwards.pairs <=> Pairs(tokens[p], tokens[q])
  BY <1>4, PairIs
<1>17. Meets(Rightwards, w, y) <=> Pairs(tokens[p], tokens[q]) /\ Linked(Rightwards, w, R)
  BY <1>16 DEF Meets, R
<1> QED
  BY <1>14, <1>15, <1>17 DEF q, w

(* The same for the search to the left.                                     *)
LEMMA PairToLeft ==
  ASSUME NEW tokens, NEW q \in Nat \ {0}, NEW y \in 2..q
  PROVE  Pair(tokens, q - y + 1, q) <=> Meets(Leftwards, FromRight(tokens, q), y)
<1> DEFINE w == FromRight(tokens, q)
           p == q - y + 1
           S == (p + 1)..(q - 1)
           R == 2..(y - 1)
           f == [x \in S |-> q - x + 1]
           h == [x \in R |-> q - x + 1]
<1>1. S \in SUBSET Int /\ R \in SUBSET Int
  OBVIOUS
<1>2. \A x \in S : x \in Int /\ q - x + 1 \in R /\ q - x + 1 \in 1..q /\ q - (q - x + 1) + 1 = x
  OBVIOUS
<1>3. \A x \in R : x \in Int /\ q - x + 1 \in S /\ q - (q - x + 1) + 1 = x /\ x \in 1..q
  OBVIOUS
<1>4. p < q /\ w[1] = tokens[q] /\ w[y] = tokens[p]
  <2>1. 1 \in 1..q /\ y \in 1..q /\ q - 1 + 1 = q /\ p < q
    OBVIOUS
  <2> QED
    BY <2>1 DEF FromRight
<1>5. (\A x \in S : w[q - x + 1] = tokens[x]) /\ \A x \in R : w[x] = tokens[q - x + 1]
  BY <1>2, <1>3 DEF FromRight
<1> HIDE DEF w, S, R
<1>6. f \in [S -> R] /\ h \in [R -> S]
  BY <1>2, <1>3
<1>7. \A x \in S : h[f[x]] = x /\ w[f[x]] = tokens[x]
  BY <1>2, <1>5
<1>8. \A x \in R : f[h[x]] = x /\ tokens[h[x]] = w[x]
  BY <1>3, <1>5
<1>9. \A x1, x2 \in S : x1 < x2 <=> f[x2] < f[x1]
  <2>1. \A x1, x2 \in S : x1 < x2 <=> q - x2 + 1 < q - x1 + 1
    BY <1>1
  <2> QED
    BY <2>1
<1>10. \A x1, x2 \in R : x1 < x2 <=> h[x2] < h[x1]
  <2>1. \A x1, x2 \in R : x1 < x2 <=> q - x2 + 1 < q - x1 + 1
    BY <1>1
  <2> QED
    BY <2>1
<1> HIDE DEF p, f, h
<1>11. \A c, d : <<c, d>> \in Rightwards.pairs <=> <<d, c>> \in Leftwards.pairs
  BY PairIs
<1>12. Fitting(Rightwards, Leftwards, S, R, f, h, tokens, w)
  BY <1>1, <1>6, <1>7, <1>8, <1>9, <1>11, WaysAre, SameBrackets DEF Fitting
<1>13. Fitting(Leftwards, Rightwards, R, S, h, f, w, tokens)
  BY <1>1, <1>6, <1>7, <1>8, <1>10, <1>11, WaysAre, SameBrackets DEF Fitting
<1>14. Linked(Rightwards, tokens, S) <=> Linked(Leftwards, w, R)
  BY <1>12, <1>13, Carried
<1>15. Pair(tokens, p, q) <=> Pairs(tokens[p], tokens[q]) /\ Linked(Rightwards, tokens, S)
  <2>1. Pair(tokens, p, q) <=>
          Pairs(tokens[p], tokens[q]) /\ \E m \in [S -> S] : Matches(tokens, S, m)
    BY <1>4 DEF Pair, S
  <2> QED
    BY <2>1, MatchesIs
<1>16. <<w[1], w[y]>> \in Leftwards.pairs <=> Pairs(tokens[p], tokens[q])
  BY <1>4, PairIs
<1>17. Meets(Leftwards, w, y) <=> Pairs(tokens[p], tokens[q]) /\ Linked(Leftwards, w, R)
  BY <1>16 DEF Meets, R
<1> QED
  BY <1>14, <1>15, <1>17 DEF p, w

(* In every text both searches find the other end of a round, square or     *)
(* curly bracket, and nothing else: they stop at q if and only if the       *)
(* brackets at p and q are of one kind and all between them can be matched. *)
(* No < or > between them, whether it is an operator, an arrow or part of a *)
(* template, makes a difference.  (CloseExpression, ReverseCloseExpression) *)
THEOREM PartnersAreFound ==
  ASSUME NEW S, NEW tokens \in Seq(S), NEW p \in DOMAIN tokens, NEW q \in DOMAIN tokens
  PROVE  /\ tokens[p] \in Openers => (CloseExpression(tokens, p) = q + 1 <=> Pair(tokens, p, q))
         /\ tokens[q] \in Closers => (ReverseCloseExpression(tokens, q) = p <=> Pair(tokens, p, q))
<1>1. /\ Len(tokens) \in Nat /\ p \in 1..Len(tokens) /\ q \in 1..Len(tokens)
      /\ p \in Nat \ {0} /\ q \in Nat \ {0}
  <2>1. Len(tokens) \in Nat /\ DOMAIN tokens = 1..Len(tokens)
    BY LenProperties
  <2>2. p \in 1..Len(tokens) /\ q \in 1..Len(tokens)
    BY <2>1
  <2> QED
    BY <2>1, <2>2
<1>2. ~(p < q) => ~Pair(tokens, p, q)
  BY DEF Pair
<1>3. ASSUME tokens[p] \in Openers
      PROVE  CloseExpression(tokens, p) = q + 1 <=> Pair(tokens, p, q)
  <2>1. PICK n \in Nat \ {0} : n = Len(tokens) - p + 1
    BY <1>1
  <2> DEFINE w == FromLeft(tokens, p, n)
             at == AfterLeft(p, n)
  <2>2. \A k \in 1..n : at[k] = p + k
    BY DEF AfterLeft
  <2>3. Apart(at, n)
    <3>1. \A k \in 1..n : p + k # 0
      BY <1>1
    <3>2. \A j, k \in 1..n : p + j = p + k => j = k
      BY <1>1
    <3> HIDE DEF at
    <3> QED
      BY <2>2, <3>1, <3>2 DEF Apart
  <2>4. PICK g : Run(Rightwards, w, n, at, g) /\ CloseExpression(tokens, p) = g[n].at
    BY <1>1, <1>3, <2>1, ForwardRuns
  <2> HIDE DEF w, at
  <2>5. /\ \A y \in 2..n : g[n].at = at[y] <=> Meets(Rightwards, w, y)
        /\ g[n].at = 0 \/ \E y \in 2..n : g[n].at = at[y]
    BY <2>4, <2>3, SearchDecides
  <2>6. CASE p < q
    <3>1. PICK y \in 2..n : y = q - p + 1
      BY <1>1, <2>1, <2>6
    <3>2. at[y] = q + 1 /\ p + y - 1 = q
      <4>1. y \in 1..n /\ p + y = q + 1 /\ p + y - 1 = q
        BY <1>1, <3>1
      <4> QED
        BY <2>2, <4>1
    <3>3. Pair(tokens, p, p + y - 1) <=> Meets(Rightwards, w, y)
      BY <1>1, PairToRight DEF w
    <3> QED
      BY <2>4, <2>5, <3>2, <3>3
  <2>7. CASE ~(p < q)
    <3>1. \A y \in 2..n : at[y] = p + y /\ p + y # q + 1
      BY <1>1, <2>1, <2>2, <2>7
    <3>2. q + 1 # 0
      BY <1>1
    <3> QED
      BY <1>2, <2>4, <2>5, <2>7, <3>1, <3>2
  <2> QED
    BY <2>6, <2>7
<1>4. ASSUME tokens[q] \in Closers
      PROVE  ReverseCloseExpression(tokens, q) = p <=> Pair(tokens, p, q)
  <2> DEFINE w == FromRight(tokens, q)
             at == AtRight(q)
  <2>1. \A k \in 1..q : at[k] = q - k + 1
    BY DEF AtRight
  <2>2. Apart(at, q)
    <3>1. \A k \in 1..q : q - k + 1 # 0
      BY <1>1
    <3>2. \A j, k \in 1..q : q - j + 1 = q - k + 1 => j = k
      BY <1>1
    <3> HIDE DEF at
    <3> QED
      BY <2>1, <3>1, <3>2 DEF Apart
  <2>3. PICK g : Run(Leftwards, w, q, at, g) /\ ReverseCloseExpression(tokens, q) = g[q].at
    BY <1>1, <1>4, BackwardRuns
  <2> HIDE DEF w, at
  <2>4. /\ \A y \in 2..q : g[q].at = at[y] <=> Meets(Leftwards, w, y)
        /\ g[q].at = 0 \/ \E y \in 2..q : g[q].at = at[y]
    BY <2>3, <2>2, SearchDecides
  <2>5. CASE p < q
    <3>1. PICK y \in 2..q : y = q - p + 1
      BY <1>1, <2>5
    <3>2. at[y] = p /\ q - y + 1 = p
      <4>1. y \in 1..q /\ q - y + 1 = p
        BY <1>1, <3>1
      <4> QED
        BY <2>1, <4>1
    <3>3. Pair(tokens, q - y + 1, q) <=> Meets(Leftwards, w, y)
      BY <1>1, PairToLeft DEF w
    <3> QED
      BY <2>3, <2>4, <3>2, <3>3
  <2>6. CASE ~(p < q)
    <3>1. \A y \in 2..q : at[y] = q - y + 1 /\ q - y + 1 # p
      BY <1>1, <2>1, <2>6
    <3>2. p # 0
      BY <1>1
    <3> QED
      BY <1>2, <2>3, <2>4, <2>6, <3>1, <3>2
  <2> QED
    BY <2>5, <2>6
<1> QED
  BY <1>3, <1>4
=============================================================================
