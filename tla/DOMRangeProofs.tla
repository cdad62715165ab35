---------------------------- MODULE DOMRangeProofs ----------------------------
(***************************************************************************)
(* Proofs about DOMRange for every document, every number of ranges and    *)
(* texts of any length: whatever is done to the tree and to the texts      *)
(* under them, the boundary points of a range exist and its start is not   *)
(* after its end, and compareBoundaryPoints is document order.             *)
(*                                                                         *)
(* Document order is defined by counting tags and characters, which no     *)
(* edit leaves alone.  The invariant therefore orders two points by where  *)
(* they stand at every node above both of them (NotAfter); that this is    *)
(* what compareBoundaryPoints answers, and what the count says, is proved  *)
(* apart from the steps.                                                   *)
(***************************************************************************)
EXTENDS DOMRange, DOMTreeProofs

-----------------------------------------------------------------------------
(* The nodes above a node *)

LEMMA PathStep ==
  ASSUME NEW d \in Doms, NEW x \in Node
  PROVE  Path(d, x) = {x} \cup Path(d, d.parent[x]) /\ Path(d, Nil) = {}
<1> DEFINE Upward(S) == \A a \in S : d.parent[a] \in Node => d.parent[a] \in S
           reach(y) == {a \in Node : \A S \in SUBSET Node : y \in S /\ Upward(S) => a \in S}
           f == [y \in NodeOrNil |-> IF y = Nil THEN {} ELSE reach(y)]
           Is(g) == g = [y \in NodeOrNil |->
                           IF y = Nil THEN {} ELSE {y} \cup g[d.parent[y]]]
           up == CHOOSE g : Is(g)
<1>1. \A y \in Node : d.parent[y] \in NodeOrNil /\ y # Nil /\ y \in NodeOrNil
  BY NilAssumption DEF Doms, NodeOrNil
<1>2. ASSUME NEW y \in Node
      PROVE  reach(y) = {y} \cup IF d.parent[y] = Nil THEN {} ELSE reach(d.parent[y])
  <2>1. y \in reach(y)
    OBVIOUS
  <2>2. CASE d.parent[y] # Nil
    <3> DEFINE q == d.parent[y]
               S == {y} \cup reach(q)
    <3>1. q \in Node
      BY <1>1, <2>2 DEF NodeOrNil
    <3>2. reach(q) \subseteq reach(y)
      BY <3>1
    <3>3. q \in reach(q) /\ Upward(reach(q))
      BY <3>1
    <3>4. S \in SUBSET Node /\ y \in S /\ Upward(S)
      BY <3>3
    <3> HIDE DEF S
    <3>5. reach(y) \subseteq S
      BY <3>4
    <3> QED
      BY <2>1, <2>2, <3>2, <3>5 DEF S
  <2>3. CASE d.parent[y] = Nil
    <3>1. Upward({y})
      BY <2>3, NilAssumption
    <3>2. reach(y) \subseteq {y}
      BY <3>1
    <3> QED
      BY <2>1, <2>3, <3>2
  <2> QED
    BY <2>2, <2>3
<1>3. Is(f)
  <2> HIDE DEF reach
  <2>1. f[Nil] = {} /\ \A y \in Node : f[y] = reach(y)
    BY <1>1 DEF NodeOrNil
  <2>2. ASSUME NEW y \in NodeOrNil
        PROVE  f[y] = IF y = Nil THEN {} ELSE {y} \cup f[d.parent[y]]
    <3>1. CASE y = Nil
      BY <2>1, <3>1
    <3>2. CASE y # Nil
      <4>1. y \in Node /\ d.parent[y] \in NodeOrNil
        BY <1>1, <3>2 DEF NodeOrNil
      <4>2. f[d.parent[y]] = IF d.parent[y] = Nil THEN {} ELSE reach(d.parent[y])
        BY <2>1, <4>1 DEF NodeOrNil
      <4> HIDE DEF f
      <4> QED
        BY <1>2, <2>1, <3>2, <4>1, <4>2
    <3> QED
      BY <3>1, <3>2
  <2>3. f = [y \in NodeOrNil |-> f[y]]
    OBVIOUS
  <2> HIDE DEF f
  <2> QED
    BY <2>2, <2>3
<1> HIDE DEF f, Is, reach
<1>4. Is(up)
  BY <1>3
<1>5. \A y : Path(d, y) = up[y]
  BY DEF Path, up, Is
<1> HIDE DEF up
<1>6. up[Nil] = {} /\ up[x] = {x} \cup up[d.parent[x]]
  BY <1>1, <1>4 DEF Is, NodeOrNil
<1> QED
  BY <1>5, <1>6

\* Path(x) is the least set with x and the parent of each of its members.
LEMMA PathLeast ==
  ASSUME NEW d \in Doms, NoCycle(d), NEW x \in Node, NEW S \in SUBSET Node, x \in S,
         \A y \in S : d.parent[y] # Nil => d.parent[y] \in S
  PROVE  Path(d, x) \subseteq S
<1> SUFFICES ASSUME NEW a \in Path(d, x), a \notin S PROVE FALSE
  OBVIOUS
<1> DEFINE T == {y \in S : a \in Path(d, y)}
<1>1. T \in SUBSET Node /\ T # {}
  OBVIOUS
<1>2. PICK y \in T : d.parent[y] \notin T
  BY <1>1 DEF NoCycle
<1>3. /\ y \in S /\ y \in Node /\ a \in Path(d, y) /\ a # y
      /\ Path(d, y) = {y} \cup Path(d, d.parent[y]) /\ Path(d, Nil) = {}
  BY <1>2, PathStep
<1>4. a \in Path(d, d.parent[y]) /\ d.parent[y] # Nil
  BY <1>3
<1> QED
  BY <1>2, <1>3, <1>4

LEMMA PathIs ==
  ASSUME NEW d \in Doms, NoCycle(d), NEW x \in Node
  PROVE  /\ Path(d, x) \in SUBSET Node /\ x \in Path(d, x)
         /\ \A y \in Path(d, x) : d.parent[y] # Nil => d.parent[y] \in Path(d, x)
         /\ \A y \in Path(d, x) : Path(d, y) \subseteq Path(d, x)
<1>1. /\ x \in Path(d, x) /\ Path(d, Nil) = {}
      /\ \A y \in Node : Path(d, y) = {y} \cup Path(d, d.parent[y])
  BY PathStep
<1>2. \A y \in Node : d.parent[y] # Nil => d.parent[y] \in Node
  BY DEF Doms, NodeOrNil
<1>3. Path(d, x) \subseteq Node
  BY <1>2, PathLeast
<1> DEFINE S == {y \in Node : Path(d, y) \subseteq Path(d, x)}
<1>4. Path(d, x) \subseteq S
  <2>1. x \in S /\ \A y \in S : d.parent[y] # Nil => d.parent[y] \in S
    BY <1>1, <1>2
  <2> HIDE DEF S
  <2>2. S \in SUBSET Node
    BY DEF S
  <2> QED
    BY <2>1, <2>2, PathLeast
<1>5. \A y \in Path(d, x) : d.parent[y] # Nil => d.parent[y] \in Path(d, x)
  <2> TAKE y \in Path(d, x)
  <2> HAVE d.parent[y] # Nil
  <2>1. y \in Node /\ Path(d, y) \subseteq Path(d, x) /\ d.parent[y] \in Node
    BY <1>2, <1>4
  <2>2. d.parent[y] \in Path(d, d.parent[y])
    BY <1>1, <2>1
  <2> QED
    BY <1>1, <2>1, <2>2
<1> QED
  BY <1>1, <1>3, <1>4, <1>5

LEMMA PathChain ==
  ASSUME NEW d \in Doms, NoCycle(d), NEW x \in Node, NEW a \in Path(d, x), NEW b \in Path(d, x)
  PROVE  a \in Path(d, b) \/ b \in Path(d, a)
<1> DEFINE S == {y \in Path(d, x) : a \in Path(d, y) \/ y \in Path(d, a)}
<1>1. /\ \A z \in Node : /\ Path(d, z) \in SUBSET Node /\ z \in Path(d, z)
                         /\ \A y \in Path(d, z) : d.parent[y] # Nil => d.parent[y] \in Path(d, z)
      /\ a \in Node
  BY PathIs
<1>2. ASSUME NEW y \in S, d.parent[y] # Nil PROVE d.parent[y] \in S
  <2>1. /\ d.parent[y] \in Path(d, x) /\ y \in Node
        /\ Path(d, y) = {y} \cup Path(d, d.parent[y])
    BY <1>1, <1>2, PathStep
  <2>2. y \in Path(d, a) => d.parent[y] \in Path(d, a)
    BY <1>1, <1>2
  <2> QED
    BY <1>1, <1>2, <2>1, <2>2
<1>3. x \in S /\ S \in SUBSET Node
  BY <1>1
<1> HIDE DEF S
<1>4. Path(d, x) \subseteq S
  BY <1>2, <1>3, PathLeast
<1> QED
  BY <1>4 DEF S

\* A node is not above its parent.
LEMMA NotAboveParent ==
  ASSUME NEW d \in Doms, NoCycle(d), NEW x \in Node, d.parent[x] # Nil
  PROVE  d.parent[x] \in Node /\ x \notin Path(d, d.parent[x]) /\ d.parent[x] # x
<1> DEFINE S == {z \in Path(d, d.parent[x]) : x \in Path(d, z)}
<1>1. d.parent[x] \in Node
  BY DEF Doms, NodeOrNil
<1>2. x \notin Path(d, d.parent[x])
  <2> SUFFICES ASSUME x \in Path(d, d.parent[x]) PROVE FALSE
    OBVIOUS
  <2>1. d.parent[x] \in S /\ S \in SUBSET Node
    BY <1>1, PathIs
  <2>2. PICK y \in S : d.parent[y] \notin S
    BY <2>1 DEF NoCycle
  <2>3. /\ y \in Node /\ x \in Path(d, y) /\ y # x
        /\ Path(d, y) = {y} \cup Path(d, d.parent[y]) /\ Path(d, Nil) = {}
    BY <2>1, <2>2, PathStep
  <2>4. d.parent[y] \in Path(d, d.parent[x])
    <3>1. y \in Path(d, d.parent[x]) /\ d.parent[y] # Nil
      BY <2>2, <2>3
    <3> QED
      BY <1>1, <3>1, PathIs
  <2> QED
    BY <2>2, <2>3, <2>4
<1>3. d.parent[x] # x
  BY <1>1, <1>2, PathIs
<1> QED
  BY <1>1, <1>2, <1>3

\* One child of a node is on the way up to it.
LEMMA OneChildOnPath ==
  ASSUME NEW d \in Doms, NoCycle(d), NEW x \in Node,
         NEW b \in Path(d, x), NEW c \in Path(d, x), d.parent[b] = d.parent[c], d.parent[b] # Nil
  PROVE  b = c
<1>1. b \in Node /\ c \in Node
  BY PathIs
<1>2. \A y, z \in Node : y \in Path(d, z) /\ d.parent[y] = d.parent[z] /\ d.parent[y] # Nil => y = z
  <2> TAKE y, z \in Node
  <2> HAVE y \in Path(d, z) /\ d.parent[y] = d.parent[z] /\ d.parent[y] # Nil
  <2>1. Path(d, z) = {z} \cup Path(d, d.parent[y])
    BY PathStep
  <2> QED
    BY <2>1, NotAboveParent
<1> QED
  BY <1>1, <1>2, PathChain

LEMMA ChildOnPath ==
  ASSUME NEW d \in Doms, NoCycle(d), NEW x \in Node, NEW a \in Path(d, x)
  PROVE  a = x \/ \E c \in Path(d, x) : d.parent[c] = a
<1> DEFINE S == {y \in Path(d, x) : y = x \/ \E c \in Path(d, x) : d.parent[c] = y}
<1>1. /\ Path(d, x) \in SUBSET Node /\ x \in Path(d, x)
      /\ \A y \in Path(d, x) : d.parent[y] # Nil => d.parent[y] \in Path(d, x)
  BY PathIs
<1>2. x \in S /\ S \in SUBSET Node /\ \A y \in S : d.parent[y] # Nil => d.parent[y] \in S
  BY <1>1
<1> HIDE DEF S
<1>3. Path(d, x) \subseteq S
  BY <1>2, PathLeast
<1> QED
  BY <1>3 DEF S

\* Two trees with the same parents on the way up from x.
LEMMA PathSame ==
  ASSUME NEW d \in Doms, NoCycle(d), NEW e \in Doms, NoCycle(e), NEW x \in Node,
         \A y \in Path(d, x) : e.parent[y] = d.parent[y]
  PROVE  Path(e, x) = Path(d, x)
<1>1. \A f \in {d, e} : /\ Path(f, x) \in SUBSET Node /\ x \in Path(f, x)
                        /\ \A y \in Path(f, x) : f.parent[y] # Nil => f.parent[y] \in Path(f, x)
  BY PathIs
<1>2. Path(e, x) \subseteq Path(d, x)
  <2>1. \A y \in Path(d, x) : e.parent[y] # Nil => e.parent[y] \in Path(d, x)
    BY <1>1
  <2> QED
    BY <1>1, <2>1, PathLeast
<1>3. Path(d, x) \subseteq Path(e, x)
  <2>1. \A y \in Path(e, x) : d.parent[y] # Nil => d.parent[y] \in Path(e, x)
    BY <1>1, <1>2
  <2> QED
    BY <1>1, <2>1, PathLeast
<1> QED
  BY <1>2, <1>3

\* A tree has one root.
LEMMA RootIs ==
  ASSUME NEW d \in Doms, NoCycle(d), NEW x \in Node
  PROVE  Root(d, x) \in Path(d, x) /\ d.parent[Root(d, x)] = Nil
<1>1. /\ Path(d, x) \in SUBSET Node /\ x \in Path(d, x)
      /\ \A y \in Path(d, x) : d.parent[y] # Nil => d.parent[y] \in Path(d, x)
  BY PathIs
<1>2. PICK y \in Path(d, x) : d.parent[y] \notin Path(d, x)
  BY <1>1 DEF NoCycle
<1>3. d.parent[y] = Nil
  BY <1>1, <1>2
<1> QED
  BY <1>3 DEF Root

LEMMA SameRoot ==
  ASSUME NEW d \in Doms, NoCycle(d), NEW x \in Node, NEW y \in Node
  PROVE  Root(d, x) = Root(d, y) <=> Path(d, x) \cap Path(d, y) # {}
<1>1. /\ Root(d, x) \in Path(d, x) /\ d.parent[Root(d, x)] = Nil
      /\ Root(d, y) \in Path(d, y) /\ d.parent[Root(d, y)] = Nil
  BY RootIs
<1>2. ASSUME NEW a \in Path(d, x) \cap Path(d, y) PROVE Root(d, x) = Root(d, y)
  <2>1. a \in Node /\ Path(d, a) \subseteq Path(d, x) /\ Path(d, a) \subseteq Path(d, y)
    BY PathIs
  <2>2. \A z \in Node : \A r, s \in Path(d, z) : d.parent[r] = Nil /\ d.parent[s] = Nil => r = s
    <3> TAKE z \in Node
    <3> TAKE r, s \in Path(d, z)
    <3> HAVE d.parent[r] = Nil /\ d.parent[s] = Nil
    <3>1. r \in Node /\ s \in Node
      BY PathIs
    <3>2. Path(d, r) = {r} /\ Path(d, s) = {s}
      BY <3>1, PathStep
    <3> QED
      BY <3>2, PathChain
  <2>3. Root(d, a) \in Path(d, a) /\ d.parent[Root(d, a)] = Nil
    BY <2>1, RootIs
  <2> QED
    BY <1>1, <2>1, <2>2, <2>3
<1> QED
  BY <1>1, <1>2
-----------------------------------------------------------------------------
(* Where the members of a list are after an edit *)

LEMMA WithoutLength ==
  ASSUME NEW S, NEW s \in Seq(S), NEW x, Occurs(x, s)
  PROVE  IndexOf(s, x) \in 1 .. Len(s) /\ Len(Without(s, x)) = Len(s) - 1
<1> DEFINE k == IndexOf(s, x)
           a == SubSeq(s, 1, k - 1)
           b == SubSeq(s, k + 1, Len(s))
<1>1. k \in 1 .. Len(s)
  BY IndexOfOccurs
<1>2. Without(s, x) = a \o b
  BY DEF Without
<1> HIDE DEF k
<1>3. a \in Seq(S) /\ Len(a) = k - 1 /\ b \in Seq(S) /\ Len(b) = Len(s) - k
  BY <1>1
<1> HIDE DEF a, b
<1>4. Len(a \o b) = Len(a) + Len(b)
  BY <1>3
<1> QED
  BY <1>1, <1>2, <1>3, <1>4 DEF k

LEMMA BeforeLength ==
  ASSUME NEW S, NEW s \in Seq(S), NEW x \in S, NEW r, r = Nil \/ Occurs(r, s)
  PROVE  Len(Before(s, x, r)) = Len(s) + 1
<1> DEFINE k == IF r = Nil THEN Len(s) + 1 ELSE IndexOf(s, r)
           a == SubSeq(s, 1, k - 1)
           b == SubSeq(s, k, Len(s))
<1>1. k \in 1 .. Len(s) + 1
  BY IndexOfOccurs
<1>2. Before(s, x, r) = a \o <<x>> \o b
  BY DEF Before
<1> HIDE DEF k
<1>3. a \in Seq(S) /\ Len(a) = k - 1 /\ b \in Seq(S) /\ Len(b) = Len(s) - k + 1
  BY <1>1
<1> HIDE DEF a, b
<1>4. Len(a \o <<x>> \o b) = Len(a) + 1 + Len(b)
  <2>1. <<x>> \in Seq(S) /\ Len(<<x>>) = 1
    OBVIOUS
  <2>2. a \o <<x>> \in Seq(S) /\ Len(a \o <<x>>) = Len(a) + 1
    BY ONLY <1>3, <2>1, ConcatProperties
  <2>3. Len((a \o <<x>>) \o b) = Len(a \o <<x>>) + Len(b)
    BY ONLY <1>3, <2>2, ConcatProperties
  <2> QED
    BY <2>2, <2>3
<1> QED
  BY <1>1, <1>2, <1>3, <1>4

LEMMA IndexAt ==
  ASSUME NEW s, Distinct(s), NEW i \in DOMAIN s
  PROVE  IndexOf(s, s[i]) = i
<1>1. Occurs(s[i], s)
  BY DEF Occurs
<1>2. IndexOf(s, s[i]) \in DOMAIN s /\ s[IndexOf(s, s[i])] = s[i]
  BY <1>1, IndexOfOccurs
<1> QED
  BY <1>2 DEF Distinct

LEMMA WithoutIndex ==
  ASSUME NEW S, NEW s \in Seq(S), Distinct(s), NEW x \in S, Occurs(x, s),
         NEW y, Occurs(y, s), y # x
  PROVE  LET i == IndexOf(s, y)
             k == IndexOf(s, x)
         IN  /\ i \in 1 .. Len(s) /\ k \in 1 .. Len(s) /\ i # k
             /\ IndexOf(Without(s, x), y) = IF i < k THEN i ELSE i - 1
<1> DEFINE i == IndexOf(s, y)
           k == IndexOf(s, x)
           a == SubSeq(s, 1, k - 1)
           b == SubSeq(s, k + 1, Len(s))
           w == Without(s, x)
           j == IF i < k THEN i ELSE i - 1
<1>1. k \in 1 .. Len(s) /\ s[k] = x /\ i \in 1 .. Len(s) /\ s[i] = y
  BY IndexOfOccurs
<1>2. w = a \o b
  BY DEF Without
<1>3. Distinct(w)
  BY WithoutIs
<1> HIDE DEF k, i
<1>4. i # k
  BY <1>1
<1>5. a \in Seq(S) /\ Len(a) = k - 1 /\ \A h \in 1 .. k - 1 : a[h] = s[h]
  BY <1>1
<1>6. b \in Seq(S) /\ Len(b) = Len(s) - k /\ \A h \in 1 .. Len(s) - k : b[h] = s[k + h]
  BY <1>1
<1> HIDE DEF a, b, w
<1>7. Len(s) \in Nat /\ Len(w) = Len(s) - 1
  BY <1>1, <1>2, <1>5, <1>6
<1>8. j \in 1 .. Len(w) /\ w[j] = y
  <2>1. CASE i < k
    <3>1. j = i /\ i \in 1 .. k - 1 /\ i \in 1 .. Len(w)
      BY <1>1, <1>7, <2>1
    <3>2. w[i] = a[i]
      BY <1>2, <1>5, <1>6, <3>1
    <3> QED
      BY <1>1, <1>5, <3>1, <3>2
  <2>2. CASE ~(i < k)
    <3>1. j = i - 1 /\ j \in 1 .. Len(w) /\ ~(j <= k - 1) /\ j - (k - 1) \in 1 .. Len(s) - k
          /\ k + (j - (k - 1)) = i
      BY <1>1, <1>4, <1>7, <2>2
    <3> HIDE DEF j
    <3>2. w[j] = b[j - (k - 1)]
      BY <1>1, <1>2, <1>5, <1>6, <1>7, <3>1
    <3> QED
      BY <1>1, <1>6, <3>1, <3>2
  <2> QED
    BY <2>1, <2>2
<1> HIDE DEF j
<1>9. IndexOf(w, y) = j
  <2>1. j \in DOMAIN w
    BY <1>2, <1>5, <1>6, <1>8
  <2> QED
    BY <1>3, <1>8, <2>1, IndexAt
<1> QED
  BY <1>1, <1>4, <1>9 DEF i, k, j, w

LEMMA BeforeIndex ==
  ASSUME NEW S, NEW s \in Seq(S), Distinct(s), NEW x \in S, ~Occurs(x, s),
         NEW r, r = Nil \/ Occurs(r, s)
  PROVE  LET w == Before(s, x, r)
         IN  /\ IndexOf(w, x) = IF r = Nil THEN Len(s) + 1 ELSE IndexOf(s, r)
             /\ IndexOf(w, x) \in 1 .. Len(s) + 1
             /\ \A y : Occurs(y, s) => /\ IndexOf(s, y) \in 1 .. Len(s)
                                       /\ IndexOf(w, y) = IF IndexOf(s, y) < IndexOf(w, x) THEN IndexOf(s, y)
                                                          ELSE IndexOf(s, y) + 1
<1> DEFINE k == IF r = Nil THEN Len(s) + 1 ELSE IndexOf(s, r)
           a == SubSeq(s, 1, k - 1)
           b == SubSeq(s, k, Len(s))
           w == Before(s, x, r)
<1>1. k \in 1 .. Len(s) + 1
  BY IndexOfOccurs
<1>2. w = a \o <<x>> \o b
  BY DEF Before
<1>3. Distinct(w)
  BY BeforeIs
<1> HIDE DEF k
<1>4. a \in Seq(S) /\ Len(a) = k - 1 /\ \A h \in 1 .. k - 1 : a[h] = s[h]
  BY <1>1
<1>5. /\ b \in Seq(S) /\ Len(b) = Len(s) + 1 - k
      /\ \A h \in 1 .. Len(s) + 1 - k : b[h] = s[k + h - 1]
  BY <1>1
<1> DEFINE c == a \o <<x>>
<1>6. c \in Seq(S) /\ Len(c) = k /\ c[k] = x /\ \A h \in 1 .. k - 1 : c[h] = s[h]
  <2>1. <<x>> \in Seq(S) /\ Len(<<x>>) = 1 /\ <<x>>[1] = x
    OBVIOUS
  <2> HIDE DEF a
  <2> QED
    BY <1>1, <1>4, <2>1
<1> HIDE DEF a, b, w, c
<1>7. w = c \o b
  BY <1>2 DEF c
<1>8. Len(s) \in Nat /\ w \in Seq(S) /\ Len(w) = Len(s) + 1
  <2>1. c \o b \in Seq(S) /\ Len(c \o b) = Len(c) + Len(b)
    BY ONLY <1>5, <1>6, ConcatProperties
  <2> QED
    BY <1>1, <1>5, <1>6, <1>7, <2>1
<1>9. \A h \in 1 .. k : w[h] = c[h]
  BY <1>1, <1>5, <1>6, <1>7
<1>10. \A h \in k + 1 .. Len(s) + 1 : w[h] = b[h - k]
  BY <1>1, <1>5, <1>6, <1>7
<1>11. \A h \in 1 .. Len(s) + 1 : h \in DOMAIN w
  BY <1>8
<1>12. IndexOf(w, x) = k
  BY <1>1, <1>3, <1>6, <1>9, <1>11, IndexAt
<1>13. ASSUME NEW y, Occurs(y, s)
       PROVE  /\ IndexOf(s, y) \in 1 .. Len(s)
              /\ IndexOf(w, y) = IF IndexOf(s, y) < k THEN IndexOf(s, y) ELSE IndexOf(s, y) + 1
  <2> DEFINE i == IndexOf(s, y)
  <2>1. i \in 1 .. Len(s) /\ s[i] = y
    BY <1>13, IndexOfOccurs
  <2> HIDE DEF i
  <2>2. CASE i < k
    <3>1. w[i] = y /\ i \in DOMAIN w
      BY <1>1, <1>6, <1>8, <1>9, <1>11, <2>1, <2>2
    <3> QED
      BY <1>3, <2>1, <2>2, <3>1, IndexAt DEF i
  <2>3. CASE ~(i < k)
    <3>1. i + 1 \in k + 1 .. Len(s) + 1 /\ i + 1 - k \in 1 .. Len(s) + 1 - k
          /\ k + (i + 1 - k) - 1 = i
      BY <1>1, <1>8, <2>1, <2>3
    <3>2. w[i + 1] = y
      <4> DEFINE h == i + 1
      <4>0. h \in k + 1 .. Len(s) + 1
        BY <3>1
      <4> HIDE DEF h
      <4>1. w[h] = b[h - k]
        BY ONLY <1>10, <4>0
      <4> DEFINE g == h - k
      <4>2. g \in 1 .. Len(s) + 1 - k /\ k + g - 1 = i
        BY <1>1, <2>1, <3>1 DEF h
      <4> HIDE DEF g
      <4>3. b[g] = s[k + g - 1]
        BY ONLY <1>5, <4>2
      <4>4. b[g] = s[i]
        BY ONLY <4>2, <4>3
      <4>5. w[h] = y
        BY <2>1, <4>1, <4>4 DEF g
      <4> QED
        BY <4>5 DEF h
    <3>3. i + 1 \in DOMAIN w
      BY <1>1, <1>8, <1>11, <2>1
    <3>4. IndexOf(w, y) = i + 1
      BY <1>3, <3>2, <3>3, IndexAt
    <3> QED
      BY <2>1, <2>3, <3>4 DEF i
  <2> QED
    BY <2>2, <2>3
<1> QED
  BY <1>1, <1>12, <1>13 DEF k, w

LEMMA ChildIs ==
  ASSUME NEW d \in Doms, NEW n \in Node, d.parent[n] # Nil, Linked(d)
  PROVE  /\ d.parent[n] \in Node /\ d.kids[d.parent[n]] \in Seq(Node)
         /\ Occurs(n, d.kids[d.parent[n]])
         /\ Index(d, n) \in Nat /\ Index(d, n) < Len(d.kids[d.parent[n]])
<1>1. /\ d.parent[n] \in Node /\ d.kids[d.parent[n]] \in Seq(Node)
      /\ Occurs(n, d.kids[d.parent[n]])
  BY LinkedIs DEF Doms, NodeOrNil
<1>2. IndexOf(d.kids[d.parent[n]], n) \in 1 .. Len(d.kids[d.parent[n]])
  BY <1>1, WithoutLength
<1> QED
  BY <1>1, <1>2 DEF Index
-----------------------------------------------------------------------------
(* The order of two points: at every node above both, the one is not       *)
(* behind the other                                                        *)

\* Where P stands among the children of the node a above it: between two of
\* them at an even number, in one of them at an odd one.
Stands(d, P, a, t) ==
  \/ a = P[1] /\ t = 2 * P[2]
  \/ \E c \in Path(d, P[1]) : d.parent[c] = a /\ t = 2 * Index(d, c) + 1

NotAfter(d, A, B) ==
  /\ Path(d, A[1]) \cap Path(d, B[1]) # {}
  /\ \A a \in Node : \A s, t \in Nat : Stands(d, A, a, s) /\ Stands(d, B, a, t) => s <= t

IsPoint(P) == P = <<P[1], P[2]>> /\ P[1] \in Node /\ P[2] \in Nat

\* u is d without n under its parent.
Unlinked(d, u, n) ==
  /\ d \in Doms /\ Linked(d) /\ NoCycle(d) /\ u \in Doms /\ NoCycle(u)
  /\ n \in Node /\ d.parent[n] # Nil
  /\ u.parent = [d.parent EXCEPT ![n] = Nil]
  /\ u.kids = [d.kids EXCEPT ![d.parent[n]] = Without(@, n)]

\* What a removal of child i makes of a place among the children.
Pulled(i, t) == IF t <= 2 * i THEN t ELSE IF t = 2 * i + 1 THEN 2 * i ELSE t - 2

LEMMA PulledGrows ==
  ASSUME NEW i \in Nat, NEW s \in Nat, NEW t \in Nat, s <= t
  PROVE  Pulled(i, s) <= Pulled(i, t)
BY DEF Pulled

LEMMA UnlinkedIndex ==
  ASSUME NEW d, NEW u, NEW n, Unlinked(d, u, n), NEW c \in Node, c # n, d.parent[c] # Nil
  PROVE  LET i == Index(d, n)
             j == Index(d, c)
         IN  /\ i \in Nat /\ j \in Nat /\ u.parent[c] = d.parent[c]
             /\ d.parent[c] = d.parent[n] => j # i /\ Index(u, c) = IF j < i THEN j ELSE j - 1
             /\ d.parent[c] # d.parent[n] => Index(u, c) = j
<1> DEFINE q == d.parent[n]
<1>1. /\ d.kids \in [Node -> Seq(Node)] /\ q \in Node /\ d.parent[c] \in Node
      /\ Index(d, n) \in Nat /\ Index(d, c) \in Nat
      /\ Occurs(n, d.kids[q]) /\ Occurs(c, d.kids[d.parent[c]]) /\ Distinct(d.kids[q])
  BY ChildIs, LinkedIs DEF Unlinked, Doms
<1>2. u.parent[c] = d.parent[c]
  BY DEF Unlinked, Doms
<1>3. u.kids = [d.kids EXCEPT ![q] = Without(@, n)]
  BY DEF Unlinked
<1>4. CASE d.parent[c] = q
  <2>1. u.kids[q] = Without(d.kids[q], n)
    BY <1>1, <1>3
  <2> DEFINE i == IndexOf(d.kids[q], c)
             k == IndexOf(d.kids[q], n)
  <2>2. /\ i \in 1 .. Len(d.kids[q]) /\ k \in 1 .. Len(d.kids[q]) /\ i # k
        /\ IndexOf(Without(d.kids[q], n), c) = IF i < k THEN i ELSE i - 1
    <3>1. d.kids[q] \in Seq(Node) /\ n \in Node /\ Occurs(c, d.kids[q])
      BY <1>1, <1>4 DEF Unlinked
    <3> QED
      BY ONLY <1>1, <3>1, c # n, WithoutIndex
  <2>3. Index(u, c) = IndexOf(Without(d.kids[q], n), c) - 1 /\ Index(d, c) = i - 1 /\ Index(d, n) = k - 1
    BY <1>2, <1>4, <2>1 DEF Index
  <2> HIDE DEF i, k
  <2> QED
    BY <1>1, <1>2, <1>4, <2>2, <2>3
<1>5. CASE d.parent[c] # q
  BY <1>1, <1>2, <1>3, <1>5 DEF Index
<1> QED
  BY <1>1, <1>2, <1>4, <1>5

\* updateRangeForDeletedNode: a point that was below the node is where it was.
LEMMA StandsUnlinked ==
  ASSUME NEW d, NEW u, NEW n, Unlinked(d, u, n), NEW P, IsPoint(P)
  PROVE  LET Q == AfterRemoval(d, P, n)
             q == d.parent[n]
         IN  /\ IsPoint(Q)
             /\ Q[1] = IF n \in Path(d, P[1]) THEN q ELSE P[1]
             /\ Path(u, Q[1]) = Path(d, Q[1])
             /\ \A a \in Node, t \in Nat :
                  Stands(u, Q, a, t) =>
                    \E s \in Nat : Stands(d, P, a, s) /\ t = IF a = q THEN Pulled(Index(d, n), s) ELSE s
<1> DEFINE Q == AfterRemoval(d, P, n)
           q == d.parent[n]
           i == Index(d, n)
<1>1. /\ d \in Doms /\ Linked(d) /\ NoCycle(d) /\ u \in Doms /\ NoCycle(u) /\ n \in Node
      /\ q # Nil /\ u.parent = [d.parent EXCEPT ![n] = Nil] /\ d.parent \in [Node -> NodeOrNil]
  BY DEF Unlinked, Doms
<1>2. q \in Node /\ n \notin Path(d, q) /\ i \in Nat
  BY <1>1, NotAboveParent, ChildIs
<1>3. \A x \in Node : /\ Path(d, x) \in SUBSET Node /\ x \in Path(d, x)
                      /\ \A y \in Path(d, x) : d.parent[y] # Nil => d.parent[y] \in Path(d, x)
                      /\ \A y \in Path(d, x) : Path(d, y) \subseteq Path(d, x)
  BY <1>1, PathIs
<1>4. \A x \in Node : n \notin Path(d, x) => Path(u, x) = Path(d, x)
  <2> TAKE x \in Node
  <2> HAVE n \notin Path(d, x)
  <2>1. \A y \in Path(d, x) : u.parent[y] = d.parent[y]
    BY <1>1, <1>3
  <2> QED
    BY <1>1, <2>1, PathSame
<1>5. n \in Path(d, P[1]) => P[1] # q
  BY <1>2
<1>6. Q = IF q = P[1] THEN IF P[2] > i THEN <<P[1], P[2] - 1>> ELSE P
          ELSE IF n \in Path(d, P[1]) THEN <<q, i>> ELSE P
  BY DEF AfterRemoval, IsAncestorOf
<1>7. IsPoint(Q) /\ Q[1] = IF n \in Path(d, P[1]) THEN q ELSE P[1]
  BY <1>2, <1>5, <1>6 DEF IsPoint
<1>8. Path(u, Q[1]) = Path(d, Q[1]) /\ n \notin Path(d, Q[1]) /\ Path(d, Q[1]) \subseteq Path(d, P[1])
  <2>1. n \in Path(d, P[1]) => q \in Path(d, P[1])
    BY <1>1, <1>3 DEF IsPoint
  <2> QED
    BY <1>2, <1>3, <1>4, <1>7, <2>1 DEF IsPoint
<1> HIDE DEF Q
<1>9. ASSUME NEW a \in Node, NEW t \in Nat, a = Q[1], t = 2 * Q[2]
      PROVE  \E s \in Nat : Stands(d, P, a, s) /\ t = IF a = q THEN Pulled(i, s) ELSE s
  <2>1. CASE q = P[1]
    <3>1. Stands(d, P, a, 2 * P[2]) /\ 2 * P[2] \in Nat /\ a = q
      BY <1>5, <1>7, <1>9, <2>1 DEF Stands, IsPoint
    <3>2. t = Pulled(i, 2 * P[2])
      <4>1. CASE P[2] > i
        <5>1. Q[2] = P[2] - 1 /\ ~(2 * P[2] <= 2 * i) /\ 2 * P[2] # 2 * i + 1
          BY <1>2, <1>6, <2>1, <4>1 DEF IsPoint
        <5> QED
          BY <1>9, <5>1 DEF Pulled, IsPoint
      <4>2. CASE ~(P[2] > i)
        <5>1. Q[2] = P[2] /\ 2 * P[2] <= 2 * i
          BY <1>2, <1>6, <2>1, <4>2 DEF IsPoint
        <5> QED
          BY <1>9, <5>1 DEF Pulled
      <4> QED
        BY <4>1, <4>2
    <3> QED
      BY <3>1, <3>2
  <2>2. CASE q # P[1] /\ n \in Path(d, P[1])
    <3>1. a = q /\ t = 2 * i
      BY <1>6, <1>9, <2>2
    <3>2. Stands(d, P, a, 2 * i + 1)
      BY <2>2, <3>1 DEF Stands
    <3>3. 2 * i + 1 \in Nat /\ Pulled(i, 2 * i + 1) = 2 * i
      BY <1>2 DEF Pulled
    <3> QED
      BY <3>1, <3>2, <3>3
  <2>3. CASE q # P[1] /\ n \notin Path(d, P[1])
    BY <1>6, <1>9, <2>3 DEF Stands
  <2> QED
    BY <2>1, <2>2, <2>3
<1>10. ASSUME NEW a \in Node, NEW t \in Nat, NEW c \in Path(u, Q[1]), u.parent[c] = a,
              t = 2 * Index(u, c) + 1
       PROVE  \E s \in Nat : Stands(d, P, a, s) /\ t = IF a = q THEN Pulled(i, s) ELSE s
  <2>1. c \in Path(d, P[1]) /\ c # n /\ c \in Node
    BY <1>3, <1>7, <1>8, <1>10 DEF IsPoint
  <2>2. d.parent[c] = a /\ a # Nil
    BY <1>1, <1>10, <2>1, NilAssumption
  <2> DEFINE j == Index(d, c)
  <2>3. /\ j \in Nat
        /\ a = q => j # i /\ Index(u, c) = IF j < i THEN j ELSE j - 1
        /\ a # q => Index(u, c) = j
    BY <2>1, <2>2, UnlinkedIndex
  <2>4. Stands(d, P, a, 2 * j + 1)
    BY <2>1, <2>2 DEF Stands
  <2> HIDE DEF i, j
  <2>5. 2 * j + 1 \in Nat /\ t = IF a = q THEN Pulled(i, 2 * j + 1) ELSE 2 * j + 1
    <3>1. CASE a # q
      BY <1>10, <2>3, <3>1
    <3>2. CASE a = q /\ j < i
      <4>1. t = 2 * j + 1 /\ 2 * j + 1 <= 2 * i
        BY <1>2, <1>10, <2>3, <3>2
      <4> QED
        BY <2>3, <3>2, <4>1 DEF Pulled
    <3>3. CASE a = q /\ ~(j < i)
      <4>1. t = 2 * j + 1 - 2 /\ ~(2 * j + 1 <= 2 * i) /\ 2 * j + 1 # 2 * i + 1
        BY <1>2, <1>10, <2>3, <3>3
      <4> QED
        BY <2>3, <3>3, <4>1 DEF Pulled
    <3> QED
      BY <3>1, <3>2, <3>3
  <2> QED
    BY <2>4, <2>5
<1>11. \A a \in Node, t \in Nat :
         Stands(u, Q, a, t) =>
           \E s \in Nat : Stands(d, P, a, s) /\ t = IF a = q THEN Pulled(i, s) ELSE s
  BY <1>9, <1>10 DEF Stands
<1> QED
  BY <1>7, <1>8, <1>11 DEF Q

LEMMA RemovalKeepsOrder ==
  ASSUME NEW d, NEW u, NEW n, Unlinked(d, u, n), NEW A, IsPoint(A), NEW B, IsPoint(B),
         NotAfter(d, A, B)
  PROVE  NotAfter(u, AfterRemoval(d, A, n), AfterRemoval(d, B, n))
<1> DEFINE X == AfterRemoval(d, A, n)
           Y == AfterRemoval(d, B, n)
           q == d.parent[n]
           i == Index(d, n)
<1>1. d \in Doms /\ Linked(d) /\ NoCycle(d) /\ n \in Node /\ q \in Node /\ i \in Nat
  BY ChildIs DEF Unlinked
<1>2. /\ IsPoint(X) /\ X[1] = (IF n \in Path(d, A[1]) THEN q ELSE A[1])
      /\ Path(u, X[1]) = Path(d, X[1])
      /\ \A a \in Node, t \in Nat :
           Stands(u, X, a, t) =>
             \E s \in Nat : Stands(d, A, a, s) /\ t = IF a = q THEN Pulled(i, s) ELSE s
  BY StandsUnlinked
<1>3. /\ IsPoint(Y) /\ Y[1] = (IF n \in Path(d, B[1]) THEN q ELSE B[1])
      /\ Path(u, Y[1]) = Path(d, Y[1])
      /\ \A a \in Node, t \in Nat :
           Stands(u, Y, a, t) =>
             \E s \in Nat : Stands(d, B, a, s) /\ t = IF a = q THEN Pulled(i, s) ELSE s
  BY StandsUnlinked
<1> HIDE DEF X, Y
<1>4. Path(d, X[1]) \cap Path(d, Y[1]) # {}
  <2>1. PICK a : a \in Path(d, A[1]) \cap Path(d, B[1])
    BY DEF NotAfter
  <2>2. \A x \in Node : n \in Path(d, x) /\ a \in Path(d, x) => a \in {n} \cup Path(d, q) \/ n \in Path(d, a)
    BY <1>1, PathStep, PathChain
  <2>3. \A x \in Node : x \in Path(d, x) /\ \A y \in Path(d, x) : Path(d, y) \subseteq Path(d, x)
    BY <1>1, PathIs
  <2> QED
    BY <1>1, <1>2, <1>3, <2>1, <2>2, <2>3 DEF IsPoint
<1>5. ASSUME NEW a \in Node, NEW s \in Nat, NEW t \in Nat, Stands(u, X, a, s), Stands(u, Y, a, t)
      PROVE  s <= t
  <2>1. PICK v \in Nat : Stands(d, A, a, v) /\ s = IF a = q THEN Pulled(i, v) ELSE v
    BY <1>2, <1>5
  <2>2. PICK w \in Nat : Stands(d, B, a, w) /\ t = IF a = q THEN Pulled(i, w) ELSE w
    BY <1>3, <1>5
  <2>3. v <= w
    BY <2>1, <2>2 DEF NotAfter
  <2> QED
    BY <1>1, <2>1, <2>2, <2>3, PulledGrows
<1> QED
  BY <1>2, <1>3, <1>4, <1>5 DEF NotAfter, X, Y

\* u is e with n, which had no parent, under p in front of r.
Joined(e, u, p, n, r) ==
  /\ e \in Doms /\ Linked(e) /\ NoCycle(e) /\ u \in Doms /\ NoCycle(u)
  /\ n \in Node /\ p \in Node /\ e.parent[n] = Nil
  /\ u.parent = [e.parent EXCEPT ![n] = p]
  /\ r = Nil \/ Occurs(r, e.kids[p])
  /\ u.kids = [e.kids EXCEPT ![p] = Before(@, n, r)]

\* What an insertion in front of child k makes of a place among the children.
Pushed(k, t) == IF t <= 2 * k THEN t ELSE t + 2

LEMMA PushedGrows ==
  ASSUME NEW i \in Nat, NEW s \in Nat, NEW t \in Nat, s <= t
  PROVE  Pushed(i, s) <= Pushed(i, t)
BY DEF Pushed

LEMMA JoinedIndex ==
  ASSUME NEW e, NEW u, NEW p, NEW n, NEW r, Joined(e, u, p, n, r)
  PROVE  /\ Index(u, n) \in Nat /\ u.parent[n] = p
         /\ Index(u, n) = (IF r = Nil THEN Len(e.kids[p]) + 1 ELSE IndexOf(e.kids[p], r)) - 1
         /\ \A c \in Node : c # n /\ e.parent[c] # Nil =>
              LET j == Index(e, c)
              IN  /\ j \in Nat /\ u.parent[c] = e.parent[c]
                  /\ e.parent[c] = p => Index(u, c) = IF j < Index(u, n) THEN j ELSE j + 1
                  /\ e.parent[c] # p => Index(u, c) = j
<1> DEFINE s == e.kids[p]
           w == Before(s, n, r)
           k == IndexOf(w, n)
<1>1. /\ e.kids \in [Node -> Seq(Node)] /\ e.parent \in [Node -> NodeOrNil] /\ p \in Node /\ n \in Node
      /\ s \in Seq(Node) /\ Distinct(s) /\ ~Occurs(n, s) /\ (r = Nil \/ Occurs(r, s))
  BY LinkedIs, NilAssumption DEF Joined, Doms
<1>2. u.parent[n] = p /\ u.kids[p] = w /\ \A x \in Node : x # p => u.kids[x] = e.kids[x]
  BY <1>1 DEF Joined
<1>3. /\ k = (IF r = Nil THEN Len(s) + 1 ELSE IndexOf(s, r)) /\ k \in 1 .. Len(s) + 1
      /\ \A y : Occurs(y, s) => /\ IndexOf(s, y) \in 1 .. Len(s)
                                /\ IndexOf(w, y) = IF IndexOf(s, y) < k THEN IndexOf(s, y)
                                                   ELSE IndexOf(s, y) + 1
  BY ONLY <1>1, BeforeIndex
<1> HIDE DEF w, k
<1>4. Index(u, n) = k - 1 /\ Index(u, n) \in Nat
  <2>1. Index(u, n) = IndexOf(w, n) - 1
    BY <1>2 DEF Index
  <2> QED
    BY <1>3, <2>1 DEF k
<1>5. ASSUME NEW c \in Node, c # n, e.parent[c] # Nil
      PROVE  LET j == Index(e, c)
             IN  /\ j \in Nat /\ u.parent[c] = e.parent[c]
                 /\ e.parent[c] = p => Index(u, c) = IF j < Index(u, n) THEN j ELSE j + 1
                 /\ e.parent[c] # p => Index(u, c) = j
  <2>1. u.parent[c] = e.parent[c]
    BY <1>1, <1>5 DEF Joined
  <2>2. Index(e, c) \in Nat /\ e.parent[c] \in Node /\ Occurs(c, e.kids[e.parent[c]])
    BY <1>5, ChildIs DEF Joined
  <2>3. CASE e.parent[c] = p
    <3> DEFINE i == IndexOf(s, c)
    <3>1. i \in 1 .. Len(s) /\ IndexOf(w, c) = IF i < k THEN i ELSE i + 1
      BY <1>3, <2>2, <2>3
    <3>2. Index(u, c) = IndexOf(w, c) - 1 /\ Index(e, c) = i - 1
      BY <1>2, <2>1, <2>3 DEF Index
    <3> HIDE DEF i
    <3> QED
      BY <1>3, <1>4, <2>1, <2>2, <2>3, <3>1, <3>2
  <2>4. CASE e.parent[c] # p
    BY <1>2, <2>1, <2>2, <2>4 DEF Index
  <2> QED
    BY <2>3, <2>4
<1> QED
  BY <1>1, <1>2, <1>3, <1>4, <1>5

\* Above p nothing is below n.
LEMMA JoinedPaths ==
  ASSUME NEW e, NEW u, NEW p, NEW n, NEW r, Joined(e, u, p, n, r)
  PROVE  /\ n \notin Path(e, p) /\ Path(u, p) = Path(e, p) /\ Path(e, n) = {n} /\ n # p
         /\ Path(u, n) = {n} \cup Path(e, p)
         /\ \A x \in Node : IF n \in Path(e, x) THEN Path(u, x) = Path(e, x) \cup Path(e, p)
                            ELSE Path(u, x) = Path(e, x)
<1>1. /\ e \in Doms /\ NoCycle(e) /\ u \in Doms /\ NoCycle(u) /\ n \in Node /\ p \in Node
      /\ e.parent \in [Node -> NodeOrNil] /\ u.parent = [e.parent EXCEPT ![n] = p]
      /\ e.parent[n] = Nil /\ p # Nil
  BY NilAssumption DEF Joined, Doms
<1>2. u.parent[n] = p /\ \A y \in Node : y # n => u.parent[y] = e.parent[y]
  BY <1>1
<1>3. n \notin Path(u, p) /\ n # p
  BY <1>1, <1>2, NotAboveParent
<1>4. \A f \in {e, u} : \A x \in Node :
        /\ Path(f, x) \in SUBSET Node /\ x \in Path(f, x)
        /\ \A y \in Path(f, x) : f.parent[y] # Nil => f.parent[y] \in Path(f, x)
        /\ \A y \in Path(f, x) : Path(f, y) \subseteq Path(f, x)
  BY <1>1, PathIs
<1>5. Path(u, p) = Path(e, p)
  <2>1. \A y \in Path(u, p) : e.parent[y] = u.parent[y]
    BY <1>1, <1>2, <1>3, <1>4
  <2> QED
    BY <1>1, <2>1, PathSame
<1>6. Path(e, n) = {n} /\ Path(u, n) = {n} \cup Path(e, p)
  BY <1>1, <1>2, <1>5, PathStep
<1>7. ASSUME NEW x \in Node, n \in Path(e, x) PROVE Path(u, x) = Path(e, x) \cup Path(e, p)
  <2>1. Path(u, x) \subseteq Path(e, x) \cup Path(e, p)
    <3> DEFINE S == Path(e, x) \cup Path(e, p)
    <3>1. S \in SUBSET Node /\ x \in S
      BY <1>1, <1>4
    <3>2. \A y \in S : u.parent[y] # Nil => u.parent[y] \in S
      BY <1>1, <1>2, <1>4
    <3> HIDE DEF S
    <3>3. Path(u, x) \subseteq S
      BY <1>1, <3>1, <3>2, PathLeast
    <3> QED
      BY <3>3 DEF S
  <2>2. Path(e, x) \subseteq Path(u, x)
    <3>1. \A y \in Path(u, x) : e.parent[y] # Nil => e.parent[y] \in Path(u, x)
      BY <1>1, <1>2, <1>4
    <3> QED
      BY <1>1, <1>4, <3>1, PathLeast
  <2>3. Path(e, p) \subseteq Path(u, x)
    <3>1. Path(u, n) \subseteq Path(u, x)
      BY <1>4, <1>7, <2>2
    <3> QED
      BY <1>6, <3>1
  <2> QED
    BY <2>1, <2>2, <2>3
<1>8. ASSUME NEW x \in Node, n \notin Path(e, x) PROVE Path(u, x) = Path(e, x)
  <2>1. \A y \in Path(e, x) : u.parent[y] = e.parent[y]
    BY <1>2, <1>4, <1>8
  <2> QED
    BY <1>1, <2>1, PathSame
<1> QED
  BY <1>3, <1>5, <1>6, <1>7, <1>8

\* updateRangeForInsertedNode
LEMMA StandsJoined ==
  ASSUME NEW e, NEW u, NEW p, NEW n, NEW r, Joined(e, u, p, n, r), NEW P, IsPoint(P)
  PROVE  LET Q == AfterInsertion(u, P, n)
         IN  /\ IsPoint(Q) /\ Q[1] = P[1]
             /\ \A a \in Node, t \in Nat :
                  Stands(u, Q, a, t) =>
                    \/ \E s \in Nat : Stands(e, P, a, s) /\ t = IF a = p THEN Pushed(Index(u, n), s) ELSE s
                    \/ /\ n \in Path(e, P[1])
                       /\ \E c \in Path(u, n) : u.parent[c] = a /\ t = 2 * Index(u, c) + 1
<1> DEFINE Q == AfterInsertion(u, P, n)
           k == Index(u, n)
<1>1. /\ e \in Doms /\ NoCycle(e) /\ u.parent = [e.parent EXCEPT ![n] = p]
      /\ e.parent \in [Node -> NodeOrNil] /\ n \in Node /\ p \in Node
  BY DEF Joined, Doms
<1>2. /\ k \in Nat /\ u.parent[n] = p
      /\ \A c \in Node : c # n /\ e.parent[c] # Nil =>
           LET j == Index(e, c)
           IN  /\ j \in Nat /\ u.parent[c] = e.parent[c]
               /\ e.parent[c] = p => Index(u, c) = IF j < k THEN j ELSE j + 1
               /\ e.parent[c] # p => Index(u, c) = j
  BY JoinedIndex
<1>3. Q = IF p = P[1] /\ k < P[2] THEN <<P[1], P[2] + 1>> ELSE P
  BY <1>2 DEF AfterInsertion
<1>4. IsPoint(Q) /\ Q[1] = P[1]
  BY <1>3 DEF IsPoint
<1>5. Path(u, P[1]) \subseteq Path(e, P[1]) \cup (IF n \in Path(e, P[1]) THEN Path(u, n) ELSE {})
  BY JoinedPaths DEF IsPoint
<1>6. Path(e, P[1]) \subseteq Node
  BY <1>1, PathIs DEF IsPoint
<1> HIDE DEF Q, k
<1>7. ASSUME NEW a \in Node, NEW t \in Nat, a = Q[1], t = 2 * Q[2]
      PROVE  \E s \in Nat : Stands(e, P, a, s) /\ t = IF a = p THEN Pushed(k, s) ELSE s
  <2>1. Stands(e, P, a, 2 * P[2]) /\ 2 * P[2] \in Nat
    BY <1>4, <1>7 DEF Stands, IsPoint
  <2>2. t = IF a = p THEN Pushed(k, 2 * P[2]) ELSE 2 * P[2]
    <3>1. CASE p = P[1] /\ k < P[2]
      <4>1. Q[2] = P[2] + 1 /\ ~(2 * P[2] <= 2 * k)
        BY <1>2, <1>3, <3>1 DEF IsPoint
      <4> QED
        BY <1>4, <1>7, <3>1, <4>1 DEF Pushed, IsPoint
    <3>2. CASE ~(p = P[1] /\ k < P[2])
      <4>1. Q[2] = P[2] /\ (a = p => 2 * P[2] <= 2 * k)
        BY <1>2, <1>3, <1>4, <1>7, <3>2 DEF IsPoint
      <4> QED
        BY <1>7, <4>1 DEF Pushed
    <3> QED
      BY <3>1, <3>2
  <2> QED
    BY <2>1, <2>2
<1>8. ASSUME NEW a \in Node, NEW t \in Nat, NEW c \in Path(e, P[1]), c # n, u.parent[c] = a,
             t = 2 * Index(u, c) + 1
      PROVE  \E s \in Nat : Stands(e, P, a, s) /\ t = IF a = p THEN Pushed(k, s) ELSE s
  <2>1. c \in Node /\ e.parent[c] = a /\ a # Nil
    BY <1>1, <1>6, <1>8, NilAssumption
  <2> DEFINE j == Index(e, c)
  <2>2. /\ j \in Nat
        /\ a = p => Index(u, c) = IF j < k THEN j ELSE j + 1
        /\ a # p => Index(u, c) = j
    BY <1>2, <1>8, <2>1
  <2>3. Stands(e, P, a, 2 * j + 1)
    BY <1>8, <2>1 DEF Stands
  <2> HIDE DEF j
  <2>4. 2 * j + 1 \in Nat /\ t = IF a = p THEN Pushed(k, 2 * j + 1) ELSE 2 * j + 1
    <3>1. CASE a # p
      BY <1>8, <2>2, <3>1
    <3>2. CASE a = p /\ j < k
      <4>1. t = 2 * j + 1 /\ 2 * j + 1 <= 2 * k
        BY <1>2, <1>8, <2>2, <3>2
      <4> QED
        BY <2>2, <3>2, <4>1 DEF Pushed
    <3>3. CASE a = p /\ ~(j < k)
      <4>1. t = 2 * j + 1 + 2 /\ ~(2 * j + 1 <= 2 * k)
        BY <1>2, <1>8, <2>2, <3>3
      <4> QED
        BY <2>2, <3>3, <4>1 DEF Pushed
    <3> QED
      BY <3>1, <3>2, <3>3
  <2> QED
    BY <2>3, <2>4
<1>9. ASSUME NEW a \in Node, NEW t \in Nat, Stands(u, Q, a, t)
      PROVE  \/ \E s \in Nat : Stands(e, P, a, s) /\ t = IF a = p THEN Pushed(k, s) ELSE s
             \/ /\ n \in Path(e, P[1])
                /\ \E c \in Path(u, n) : u.parent[c] = a /\ t = 2 * Index(u, c) + 1
  <2>1. CASE a = Q[1] /\ t = 2 * Q[2]
    BY <1>7, <2>1
  <2>2. ASSUME NEW c \in Path(u, Q[1]), u.parent[c] = a, t = 2 * Index(u, c) + 1
        PROVE  \/ \E s \in Nat : Stands(e, P, a, s) /\ t = IF a = p THEN Pushed(k, s) ELSE s
               \/ /\ n \in Path(e, P[1])
                  /\ \E b \in Path(u, n) : u.parent[b] = a /\ t = 2 * Index(u, b) + 1
    <3>1. n \in Path(u, n)
      BY JoinedPaths
    <3>2. CASE c \in Path(e, P[1]) /\ c # n
      BY <1>8, <2>2, <3>2
    <3>3. CASE c = n \/ c \notin Path(e, P[1])
      BY <1>4, <1>5, <2>2, <3>1, <3>3
    <3> QED
      BY <3>2, <3>3
  <2> QED
    BY <1>9, <2>1, <2>2 DEF Stands
<1> QED
  BY <1>4, <1>9 DEF Q, k

LEMMA InsertionKeepsOrder ==
  ASSUME NEW e, NEW u, NEW p, NEW n, NEW r, Joined(e, u, p, n, r),
         NEW A, IsPoint(A), NEW B, IsPoint(B), NotAfter(e, A, B)
  PROVE  NotAfter(u, AfterInsertion(u, A, n), AfterInsertion(u, B, n))
<1> DEFINE X == AfterInsertion(u, A, n)
           Y == AfterInsertion(u, B, n)
           k == Index(u, n)
           Kept(P, a, t) == \E s \in Nat : Stands(e, P, a, s) /\ t = IF a = p THEN Pushed(k, s) ELSE s
           Above(a, t) == \E c \in Path(u, n) : u.parent[c] = a /\ t = 2 * Index(u, c) + 1
<1>1. e \in Doms /\ NoCycle(e) /\ u \in Doms /\ NoCycle(u) /\ n \in Node /\ p \in Node
      /\ u.parent = [e.parent EXCEPT ![n] = p] /\ e.parent \in [Node -> NodeOrNil]
  BY DEF Joined, Doms
<1>2. /\ IsPoint(X) /\ X[1] = A[1]
      /\ \A a \in Node, t \in Nat : Stands(u, X, a, t) => Kept(A, a, t) \/ (n \in Path(e, A[1]) /\ Above(a, t))
  BY StandsJoined
<1>3. /\ IsPoint(Y) /\ Y[1] = B[1]
      /\ \A a \in Node, t \in Nat : Stands(u, Y, a, t) => Kept(B, a, t) \/ (n \in Path(e, B[1]) /\ Above(a, t))
  BY StandsJoined
<1> HIDE DEF X, Y
<1>4. k \in Nat /\ u.parent[n] = p
  BY JoinedIndex
<1>5. /\ n \notin Path(e, p) /\ n # p /\ Path(e, n) = {n} /\ Path(u, n) = {n} \cup Path(e, p)
      /\ \A x \in Node : Path(e, x) \subseteq Path(u, x)
  BY JoinedPaths
<1>6. \A x \in Node : /\ Path(e, x) \in SUBSET Node
                      /\ \A y \in Path(e, x) : e.parent[y] # Nil => e.parent[y] \in Path(e, x)
                      /\ \A y \in Path(e, x) : Path(e, y) \subseteq Path(e, x)
                      /\ x \in Path(e, x)
  BY <1>1, PathIs
<1>7. PICK z : z \in Path(e, A[1]) \cap Path(e, B[1])
  BY DEF NotAfter
<1>8. Path(u, A[1]) \cap Path(u, B[1]) # {}
  BY <1>5, <1>7 DEF IsPoint
<1>9. n \in Path(e, A[1]) <=> n \in Path(e, B[1])
  <2>1. \A x \in Node : n \in Path(e, x) /\ z \in Path(e, x) => n = z \/ n \in Path(e, z)
    BY <1>1, <1>5, PathChain
  <2>2. \A x \in Node : z \in Path(e, x) => Path(e, z) \subseteq Path(e, x)
    BY <1>6
  <2> QED
    BY <1>7, <2>1, <2>2 DEF IsPoint
<1>10. ASSUME NEW P, IsPoint(P), n \in Path(e, P[1]), NEW a \in Node, NEW s \in Nat, NEW t \in Nat,
              Kept(P, a, s), Above(a, t)
       PROVE  FALSE
  <2>1. a \in Path(e, p)
    <3>1. PICK c \in Path(u, n) : u.parent[c] = a
      BY <1>10
    <3>2. CASE c = n
      BY <1>1, <1>4, <1>6, <3>1, <3>2
    <3>3. CASE c # n
      <4>1. c \in Path(e, p) /\ c \in Node /\ e.parent[c] = a /\ a # Nil
        BY <1>1, <1>5, <1>6, <3>1, <3>3, NilAssumption
      <4> QED
        BY <1>1, <1>6, <4>1
    <3> QED
      BY <3>2, <3>3
  <2>2. a \in Path(e, P[1])
    <3>1. PICK v \in Nat : Stands(e, P, a, v)
      BY <1>10
    <3>2. P[1] \in Path(e, P[1]) /\ \A c \in Path(e, P[1]) : e.parent[c] = a => a \in Path(e, P[1])
      BY <1>6, <1>10, NilAssumption DEF IsPoint
    <3> QED
      BY <3>1, <3>2 DEF Stands
  <2>3. a = n \/ n \in Path(e, a)
    BY <1>1, <1>5, <1>10, <2>2, PathChain DEF IsPoint
  <2> QED
    BY <1>1, <1>5, <1>6, <2>1, <2>3
<1>11. ASSUME NEW a \in Node, NEW s \in Nat, NEW t \in Nat, Stands(u, X, a, s), Stands(u, Y, a, t)
       PROVE  s <= t
  <2>1. Kept(A, a, s) \/ (n \in Path(e, A[1]) /\ Above(a, s))
    BY <1>2, <1>11
  <2>2. Kept(B, a, t) \/ (n \in Path(e, B[1]) /\ Above(a, t))
    BY <1>3, <1>11
  <2>3. CASE Kept(A, a, s) /\ Kept(B, a, t)
    <3>1. PICK v \in Nat : Stands(e, A, a, v) /\ s = IF a = p THEN Pushed(k, v) ELSE v
      BY <2>3
    <3>2. PICK w \in Nat : Stands(e, B, a, w) /\ t = IF a = p THEN Pushed(k, w) ELSE w
      BY <2>3
    <3>3. v <= w
      BY <3>1, <3>2 DEF NotAfter
    <3> HIDE DEF k
    <3> QED
      BY <1>4, <3>1, <3>2, <3>3, PushedGrows
  <2>4. CASE Above(a, s) /\ Above(a, t)
    <3>1. PICK b \in Path(u, n) : u.parent[b] = a /\ s = 2 * Index(u, b) + 1
      BY <2>4
    <3>2. PICK c \in Path(u, n) : u.parent[c] = a /\ t = 2 * Index(u, c) + 1
      BY <2>4
    <3>3. b = c
      BY <1>1, <3>1, <3>2, OneChildOnPath, NilAssumption
    <3> QED
      BY <3>1, <3>2, <3>3
  <2> HIDE DEF Kept, Above
  <2> QED
    BY <1>9, <1>10, <2>1, <2>2, <2>3, <2>4
<1> QED
  BY <1>2, <1>3, <1>8, <1>11 DEF NotAfter, X, Y

\* A point has one place at most among the children of a node.
LEMMA StandsOnce ==
  ASSUME NEW d \in Doms, NoCycle(d), NEW P, IsPoint(P), NEW b \in Node, NEW i, NEW j,
         Stands(d, P, b, i), Stands(d, P, b, j)
  PROVE  i = j
<1>1. \A c \in Path(d, P[1]) : d.parent[c] = b => b # P[1]
  <2> TAKE c \in Path(d, P[1])
  <2> HAVE d.parent[c] = b
  <2>1. c \in Node /\ d.parent[c] # Nil
    BY PathIs, NilAssumption DEF IsPoint
  <2>2. c \notin Path(d, d.parent[c])
    BY <2>1, NotAboveParent
  <2> QED
    BY <2>2
<1>2. \A c, e \in Path(d, P[1]) : d.parent[c] = b /\ d.parent[e] = b => c = e
  BY OneChildOnPath, NilAssumption DEF IsPoint
<1> QED
  BY <1>1, <1>2 DEF Stands

LEMMA NotAfterWithin ==
  ASSUME NEW d \in Doms, NoCycle(d), NEW x \in Node, NEW i \in Nat, NEW j \in Nat, i <= j
  PROVE  NotAfter(d, <<x, i>>, <<x, j>>)
<1> DEFINE A == <<x, i>>
           B == <<x, j>>
<1>1. IsPoint(A) /\ IsPoint(B) /\ A[1] = x /\ B[1] = x /\ A[2] = i /\ B[2] = j
  BY DEF IsPoint
<1> HIDE DEF A, B
<1>2. x \in Path(d, x)
  BY PathIs
<1>3. ASSUME NEW a \in Node, NEW s \in Nat, NEW t \in Nat, Stands(d, A, a, s), Stands(d, B, a, t)
      PROVE  s <= t
  <2>1. CASE a = x
    <3>1. Stands(d, A, a, 2 * i) /\ Stands(d, B, a, 2 * j)
      BY <1>1, <2>1 DEF Stands
    <3>2. s = 2 * i /\ t = 2 * j
      BY <1>1, <1>3, <3>1, StandsOnce
    <3> QED
      BY <3>2
  <2>2. CASE a # x
    <3>1. Stands(d, B, a, s)
      BY <1>1, <1>3, <2>2 DEF Stands
    <3>2. s = t
      BY <1>1, <1>3, <3>1, StandsOnce
    <3> QED
      BY <3>2
  <2> QED
    BY <2>1, <2>2
<1>4. NotAfter(d, A, B)
  BY <1>1, <1>2, <1>3 DEF NotAfter
<1> QED
  BY <1>4 DEF A, B
-----------------------------------------------------------------------------
(* compareBoundaryPoints *)

\* Places s and t of A and B at the last node on the way down to both.
Meet(d, A, B, a, s, t) ==
  /\ a \in Node /\ s \in Nat /\ t \in Nat /\ Stands(d, A, a, s) /\ Stands(d, B, a, t)
  /\ \A c \in Path(d, A[1]) \cap Path(d, B[1]) : d.parent[c] # a

\* Above that node the places are the same.
LEMMA MeetIsLast ==
  ASSUME NEW d \in Doms, NoCycle(d), NEW A, IsPoint(A), NEW B, IsPoint(B),
         NEW a, NEW s, NEW t, Meet(d, A, B, a, s, t)
  PROVE  \A b \in Node : \A i, j \in Nat :
           Stands(d, A, b, i) /\ Stands(d, B, b, j) => IF b = a THEN i = s /\ j = t ELSE i = j
<1>1. \A x \in Node : /\ Path(d, x) \in SUBSET Node /\ x \in Path(d, x)
                      /\ \A y \in Path(d, x) : d.parent[y] # Nil => d.parent[y] \in Path(d, x)
                      /\ \A y \in Path(d, x) : Path(d, y) \subseteq Path(d, x)
  BY PathIs
<1>2. A[1] \in Node /\ B[1] \in Node /\ a \in Node /\ s \in Nat /\ t \in Nat
      /\ Stands(d, A, a, s) /\ Stands(d, B, a, t)
  BY DEF IsPoint, Meet
<1>3. \A P : \A b \in Node : \A i : IsPoint(P) /\ Stands(d, P, b, i) => b \in Path(d, P[1])
  BY <1>1, NilAssumption DEF Stands, IsPoint
<1>4. ASSUME NEW P, IsPoint(P), NEW b \in Node, NEW i \in Nat, NEW j \in Nat,
             Stands(d, P, b, i), Stands(d, P, b, j)
      PROVE  i = j
  BY <1>4, StandsOnce
<1>5. ASSUME NEW b \in Node, NEW i \in Nat, NEW j \in Nat, b # a, Stands(d, A, b, i), Stands(d, B, b, j)
      PROVE  i = j
  <2>1. a \in Path(d, A[1]) /\ b \in Path(d, A[1]) /\ a \in Path(d, B[1]) /\ b \in Path(d, B[1])
    BY <1>2, <1>3, <1>5
  <2>2. a \notin Path(d, b)
    <3> SUFFICES ASSUME a \in Path(d, b) PROVE FALSE
      OBVIOUS
    <3>1. PICK c \in Path(d, b) : d.parent[c] = a
      BY <1>5, ChildOnPath
    <3>2. c \in Path(d, A[1]) \cap Path(d, B[1])
      BY <1>1, <1>2, <2>1, <3>1
    <3> QED
      BY <3>1, <3>2 DEF Meet
  <2>3. b \in Path(d, a)
    BY <1>2, <2>1, <2>2, PathChain
  <2>4. PICK c \in Path(d, a) : d.parent[c] = b
    BY <1>2, <1>5, <2>3, ChildOnPath
  <2>5. c \in Path(d, A[1]) /\ c \in Path(d, B[1]) /\ c \in Node
    BY <1>1, <1>2, <2>1, <2>4
  <2> DEFINE k == 2 * Index(d, c) + 1
  <2>6. Stands(d, A, b, k) /\ Stands(d, B, b, k)
    BY <2>4, <2>5 DEF Stands
  <2>7. \A P : IsPoint(P) /\ c \in Path(d, P[1]) => P[1] # b
    <3> TAKE P
    <3> HAVE IsPoint(P) /\ c \in Path(d, P[1])
    <3>1. c \notin Path(d, d.parent[c])
      BY <2>4, <2>5, NotAboveParent, NilAssumption
    <3> QED
      BY <2>4, <3>1
  <2>8. \A P : \A v : IsPoint(P) /\ c \in Path(d, P[1]) /\ Stands(d, P, b, v) => v = k
    <3> TAKE P
    <3> TAKE v
    <3> HAVE IsPoint(P) /\ c \in Path(d, P[1]) /\ Stands(d, P, b, v)
    <3>1. PICK e \in Path(d, P[1]) : d.parent[e] = b /\ v = 2 * Index(d, e) + 1
      BY <2>7 DEF Stands
    <3>2. e = c
      BY <2>4, <3>1, OneChildOnPath, NilAssumption DEF IsPoint
    <3> QED
      BY <3>1, <3>2
  <2> QED
    BY <1>5, <2>5, <2>8
<1> QED
  BY <1>2, <1>4, <1>5

Sign(s, t) == IF s < t THEN -1 ELSE IF s = t THEN 0 ELSE 1

Over(d, A, B) == {c \in Node : d.parent[c] = A[1] /\ c \in Path(d, B[1])}

Forks(d, A, B) ==
  {c \in Node \X Node :
     /\ c[1] # c[2] /\ d.parent[c[1]] = d.parent[c[2]] /\ d.parent[c[1]] # Nil
     /\ c[1] \in Path(d, A[1]) /\ c[2] \in Path(d, B[1])}

\* The cases of compareBoundaryPoints are exclusive and all there are.
LEMMA CasesOfCompare ==
  ASSUME NEW d \in Doms, Linked(d), NoCycle(d), IsFiniteSet(Node), NEW A, IsPoint(A), NEW B, IsPoint(B),
         Path(d, A[1]) \cap Path(d, B[1]) # {}
  PROVE  /\ A[1] = B[1] => Over(d, A, B) = {} /\ Over(d, B, A) = {} /\ Forks(d, A, B) = {}
         /\ Over(d, A, B) # {} => Over(d, B, A) = {} /\ Forks(d, A, B) = {}
         /\ Over(d, B, A) # {} => Forks(d, A, B) = {}
         /\ A[1] = B[1] \/ Over(d, A, B) # {} \/ Over(d, B, A) # {} \/ Forks(d, A, B) # {}
<1>1. \A x \in Node : /\ Path(d, x) \in SUBSET Node /\ x \in Path(d, x)
                      /\ \A y \in Path(d, x) : d.parent[y] # Nil => d.parent[y] \in Path(d, x)
                      /\ \A y \in Path(d, x) : Path(d, y) \subseteq Path(d, x)
  BY PathIs
<1>2. A[1] \in Node /\ B[1] \in Node
  BY DEF IsPoint
<1>3. \A c \in Node : d.parent[c] # Nil => c \notin Path(d, d.parent[c])
  BY NotAboveParent
<1>4. \A P, Q : IsPoint(P) /\ IsPoint(Q) /\ Over(d, P, Q) # {} =>
                  P[1] # Q[1] /\ P[1] \in Path(d, Q[1]) /\ Q[1] \notin Path(d, P[1])
  <2> TAKE P, Q
  <2> HAVE IsPoint(P) /\ IsPoint(Q) /\ Over(d, P, Q) # {}
  <2>1. PICK c \in Node : d.parent[c] = P[1] /\ c \in Path(d, Q[1])
    BY DEF Over
  <2>2. P[1] \in Node /\ Q[1] \in Node /\ P[1] # Nil /\ c \notin Path(d, P[1])
    BY <1>3, <2>1, NilAssumption DEF IsPoint
  <2>3. P[1] # Q[1] /\ P[1] \in Path(d, Q[1])
    BY <1>1, <2>1, <2>2
  <2>4. Q[1] \notin Path(d, P[1])
    BY <1>1, <2>1, <2>2
  <2> QED
    BY <2>3, <2>4
<1>5. \A c \in Forks(d, A, B) :
        /\ c[1] \in Path(d, A[1]) /\ c[2] \in Path(d, B[1])
        /\ c[1] \notin Path(d, B[1]) /\ c[2] \notin Path(d, A[1])
  <2> TAKE c \in Forks(d, A, B)
  <2>1. /\ c[1] \in Path(d, A[1]) /\ c[2] \in Path(d, B[1]) /\ c[1] # c[2]
        /\ d.parent[c[1]] = d.parent[c[2]] /\ d.parent[c[1]] # Nil
    BY DEF Forks
  <2>2. c[1] \notin Path(d, B[1])
    BY <1>2, <2>1, OneChildOnPath
  <2>3. c[2] \notin Path(d, A[1])
    BY <1>2, <2>1, OneChildOnPath
  <2> QED
    BY <2>1, <2>2, <2>3
<1>6. A[1] = B[1] \/ Over(d, A, B) # {} \/ Over(d, B, A) # {} \/ Forks(d, A, B) # {}
  <2> DEFINE S == Path(d, A[1]) \cap Path(d, B[1])
  <2>1. S \in SUBSET Node /\ S # {}
    BY <1>1, <1>2
  <2> HIDE DEF S
  <2>2. PICK a \in S : \A y \in S : d.parent[y] # a
    BY <2>1, LeafOf
  <2>3. a \in Path(d, A[1]) /\ a \in Path(d, B[1]) /\ a # Nil
    BY <2>1, <2>2, NilAssumption DEF S
  <2>4. a = A[1] \/ \E c \in Path(d, A[1]) : d.parent[c] = a
    BY <1>2, <2>3, ChildOnPath
  <2>5. a = B[1] \/ \E c \in Path(d, B[1]) : d.parent[c] = a
    BY <1>2, <2>3, ChildOnPath
  <2>6. CASE a = A[1] /\ a = B[1]
    BY <2>6
  <2>7. ASSUME a = A[1], NEW c \in Path(d, B[1]), d.parent[c] = a PROVE Over(d, A, B) # {}
    BY <1>1, <1>2, <2>7 DEF Over
  <2>8. ASSUME a = B[1], NEW c \in Path(d, A[1]), d.parent[c] = a PROVE Over(d, B, A) # {}
    BY <1>1, <1>2, <2>8 DEF Over
  <2>9. ASSUME NEW b \in Path(d, A[1]), NEW c \in Path(d, B[1]), d.parent[b] = a, d.parent[c] = a
        PROVE  Forks(d, A, B) # {}
    <3>1. b # c
      BY <2>2, <2>9 DEF S
    <3>2. <<b, c>> \in Forks(d, A, B)
      BY <1>1, <1>2, <2>3, <2>9, <3>1 DEF Forks
    <3> QED
      BY <3>2
  <2> QED
    BY <2>4, <2>5, <2>6, <2>7, <2>8, <2>9
<1>7. A[1] = B[1] => Forks(d, A, B) = {}
  BY <1>5
<1>8. Over(d, A, B) # {} => Forks(d, A, B) = {}
  BY <1>1, <1>2, <1>4, <1>5
<1>9. Over(d, B, A) # {} => Forks(d, A, B) = {}
  BY <1>1, <1>2, <1>4, <1>5
<1> QED
  BY <1>4, <1>6, <1>7, <1>8, <1>9

LEMMA ComparedIs ==
  ASSUME NEW d \in Doms, Linked(d), NoCycle(d), IsFiniteSet(Node), NEW A, IsPoint(A), NEW B, IsPoint(B),
         Path(d, A[1]) \cap Path(d, B[1]) # {}
  PROVE  \E a : \E s, t \in Nat : /\ Meet(d, A, B, a, s, t) /\ Compared(d, A, B) = Sign(s, t)
                                  /\ s = t => A = B
<1> DEFINE over  == Over(d, A, B)
           under == Over(d, B, A)
           fork  == Forks(d, A, B)
<1>1. Compared(d, A, B) =
        CASE A[1] = B[1]  -> IF A[2] < B[2] THEN -1 ELSE IF A[2] = B[2] THEN 0 ELSE 1
          [] over # {}    -> LET c == CHOOSE c \in over : TRUE
                             IN  IF A[2] <= Index(d, c) THEN -1 ELSE 1
          [] under # {}   -> LET c == CHOOSE c \in under : TRUE
                             IN  IF Index(d, c) < B[2] THEN -1 ELSE 1
          [] fork # {}    -> LET c == CHOOSE c \in fork : TRUE
                             IN  IF Index(d, c[1]) < Index(d, c[2]) THEN -1 ELSE 1
          [] OTHER        -> -1
  BY DEF Compared, Over, Forks, IsAncestorOf
<1>2. /\ A[1] = B[1] => over = {} /\ under = {} /\ fork = {}
      /\ over # {} => under = {} /\ fork = {}
      /\ under # {} => fork = {}
      /\ A[1] = B[1] \/ over # {} \/ under # {} \/ fork # {}
  BY CasesOfCompare
<1>3. A[1] \in Node /\ B[1] \in Node /\ A[2] \in Nat /\ B[2] \in Nat
      /\ A = <<A[1], A[2]>> /\ B = <<B[1], B[2]>>
  BY DEF IsPoint
<1>4. \A c \in Node : d.parent[c] # Nil => c \notin Path(d, d.parent[c]) /\ Index(d, c) \in Nat
  BY NotAboveParent, ChildIs
<1>5. \A x \in Node : Path(d, x) \in SUBSET Node /\ x \in Path(d, x)
  BY PathIs
<1>6. CASE A[1] = B[1]
  <2>1. Compared(d, A, B) = IF A[2] < B[2] THEN -1 ELSE IF A[2] = B[2] THEN 0 ELSE 1
    BY <1>1, <1>2, <1>6
  <2>2. Meet(d, A, B, A[1], 2 * A[2], 2 * B[2])
    BY <1>3, <1>4, <1>5, <1>6, NilAssumption DEF Meet, Stands
  <2>3. Compared(d, A, B) = Sign(2 * A[2], 2 * B[2])
    BY <1>3, <2>1 DEF Sign
  <2>4. 2 * A[2] \in Nat /\ 2 * B[2] \in Nat /\ (2 * A[2] = 2 * B[2] => A = B)
    BY <1>3, <1>6
  <2> QED
    BY <2>2, <2>3, <2>4
<1>7. CASE over # {}
  <2> DEFINE c == CHOOSE c \in over : TRUE
  <2>1. c \in over
    BY <1>7
  <2>2. Compared(d, A, B) = IF A[2] <= Index(d, c) THEN -1 ELSE 1
    BY <1>1, <1>2, <1>7
  <2> HIDE DEF c, over
  <2>3. c \in Node /\ d.parent[c] = A[1] /\ c \in Path(d, B[1]) /\ A[1] # Nil
    BY <1>3, <2>1, NilAssumption DEF Over, over
  <2>4. Index(d, c) \in Nat
    BY <1>4, <2>3
  <2>5. Meet(d, A, B, A[1], 2 * A[2], 2 * Index(d, c) + 1)
    <3>1. \A b \in Path(d, A[1]) \cap Path(d, B[1]) : d.parent[b] # A[1]
      BY <1>3, <1>4, <1>5, <2>3
    <3> QED
      BY <1>3, <2>3, <2>4, <3>1 DEF Meet, Stands
  <2>6. Compared(d, A, B) = Sign(2 * A[2], 2 * Index(d, c) + 1)
        /\ 2 * A[2] # 2 * Index(d, c) + 1
    BY <1>3, <2>2, <2>4 DEF Sign
  <2>7. 2 * A[2] \in Nat /\ 2 * Index(d, c) + 1 \in Nat
    BY <1>3, <2>4
  <2> QED
    BY <2>5, <2>6, <2>7
<1>8. CASE under # {}
  <2> DEFINE c == CHOOSE c \in under : TRUE
  <2>1. c \in under
    BY <1>8
  <2>2. Compared(d, A, B) = IF Index(d, c) < B[2] THEN -1 ELSE 1
    BY <1>1, <1>2, <1>8
  <2> HIDE DEF c, under
  <2>3. c \in Node /\ d.parent[c] = B[1] /\ c \in Path(d, A[1]) /\ B[1] # Nil
    BY <1>3, <2>1, NilAssumption DEF Over, under
  <2>4. Index(d, c) \in Nat
    BY <1>4, <2>3
  <2>5. Meet(d, A, B, B[1], 2 * Index(d, c) + 1, 2 * B[2])
    <3>1. \A b \in Path(d, A[1]) \cap Path(d, B[1]) : d.parent[b] # B[1]
      BY <1>3, <1>4, <1>5, <2>3
    <3> QED
      BY <1>3, <2>3, <2>4, <3>1 DEF Meet, Stands
  <2>6. Compared(d, A, B) = Sign(2 * Index(d, c) + 1, 2 * B[2])
        /\ 2 * Index(d, c) + 1 # 2 * B[2]
    BY <1>3, <2>2, <2>4 DEF Sign
  <2>7. 2 * B[2] \in Nat /\ 2 * Index(d, c) + 1 \in Nat
    BY <1>3, <2>4
  <2> QED
    BY <2>5, <2>6, <2>7
<1>9. CASE fork # {}
  <2> DEFINE c == CHOOSE c \in fork : TRUE
  <2>1. c \in fork
    BY <1>9
  <2>2. Compared(d, A, B) = IF Index(d, c[1]) < Index(d, c[2]) THEN -1 ELSE 1
    BY <1>1, <1>2, <1>9
  <2> HIDE DEF c, fork
  <2> DEFINE q == d.parent[c[1]]
             i == Index(d, c[1])
             j == Index(d, c[2])
  <2>3. /\ c[1] \in Node /\ c[2] \in Node /\ c[1] # c[2] /\ q = d.parent[c[2]] /\ q # Nil
        /\ c[1] \in Path(d, A[1]) /\ c[2] \in Path(d, B[1])
    BY <2>1 DEF Forks, fork
  <2>4. i \in Nat /\ j \in Nat /\ q \in Node /\ i # j
    <3>1. i \in Nat /\ j \in Nat /\ q \in Node
      BY <2>3, ChildIs
    <3>2. i # j
      <4>1. /\ IndexOf(d.kids[q], c[1]) \in DOMAIN d.kids[q] /\ d.kids[q][IndexOf(d.kids[q], c[1])] = c[1]
            /\ IndexOf(d.kids[q], c[2]) \in DOMAIN d.kids[q] /\ d.kids[q][IndexOf(d.kids[q], c[2])] = c[2]
        BY <2>3, <3>1, LinkedIs, IndexOfOccurs
      <4>2. d.kids[q] \in Seq(Node)
        BY <3>1 DEF Doms
      <4> QED
        BY <2>3, <4>1, <4>2 DEF Index
    <3> QED
      BY <3>1, <3>2
  <2>5. Meet(d, A, B, q, 2 * i + 1, 2 * j + 1)
    <3>1. \A b \in Path(d, A[1]) \cap Path(d, B[1]) : d.parent[b] # q
      BY <1>3, <2>3, OneChildOnPath
    <3> QED
      BY <2>3, <2>4, <3>1 DEF Meet, Stands
  <2> HIDE DEF i, j
  <2>6. Compared(d, A, B) = Sign(2 * i + 1, 2 * j + 1) /\ 2 * i + 1 # 2 * j + 1
    BY <2>2, <2>4 DEF Sign, i, j
  <2>7. 2 * i + 1 \in Nat /\ 2 * j + 1 \in Nat
    BY <2>4
  <2> QED
    BY <2>5, <2>6, <2>7
<1> QED
  BY <1>2, <1>6, <1>7, <1>8, <1>9

\* What setStart and setEnd go by.
LEMMA ComparedOrders ==
  ASSUME NEW d \in Doms, Linked(d), NoCycle(d), IsFiniteSet(Node), NEW A, IsPoint(A), NEW B, IsPoint(B),
         Path(d, A[1]) \cap Path(d, B[1]) # {}
  PROVE  NotAfter(d, A, B) <=> Compared(d, A, B) # 1
<1>0. PICK a : \E s, t \in Nat : /\ Meet(d, A, B, a, s, t) /\ Compared(d, A, B) = Sign(s, t)
                                 /\ s = t => A = B
  BY ComparedIs
<1>1. PICK s \in Nat, t \in Nat :
        Meet(d, A, B, a, s, t) /\ Compared(d, A, B) = Sign(s, t) /\ (s = t => A = B)
  BY <1>0
<1>2. \A b \in Node : \A i, j \in Nat :
        Stands(d, A, b, i) /\ Stands(d, B, b, j) => IF b = a THEN i = s /\ j = t ELSE i = j
  BY <1>1, MeetIsLast
<1>3. a \in Node /\ Stands(d, A, a, s) /\ Stands(d, B, a, t)
  BY <1>1 DEF Meet
<1>4. NotAfter(d, A, B) <=> s <= t
  <2>1. ASSUME s <= t, NEW b \in Node, NEW i \in Nat, NEW j \in Nat, Stands(d, A, b, i), Stands(d, B, b, j)
        PROVE  i <= j
    BY <1>2, <2>1
  <2> QED
    BY <1>3, <2>1 DEF NotAfter
<1> QED
  BY <1>1, <1>4 DEF Sign
-----------------------------------------------------------------------------
(* The invariant *)

\* Character data has no children and a fragment is no child.
Shaped(d) ==
  \A x \in Node : d.parent[x] # Nil => ~IsChars(d.parent[x]) /\ Kind[x] # "fragment"

\* The boundary points outside the nodes that do not exist yet.
Points(d, l, sp) == {P \in PointsOf(d, l) : P[1] \notin sp}

\* The tables of ranges whose points are in A.
Ranges(A) == [RangeId -> [start : A, end : A] \cup {NotRegistered}]

\* No range starts after its end.
Ordered(d, rg) == \A i \in Live(rg) : NotAfter(d, rg[i].start, rg[i].end)

\* A tree, the lengths and the ranges of its texts, and the nodes to come.
Sound(d, l, rg, sp) ==
  /\ d \in Doms /\ Linked(d) /\ NoCycle(d) /\ Shaped(d)
  /\ l \in [Node -> Nat]
  /\ sp \in SUBSET {x \in Node : IsChars(x)} /\ \A x \in sp : d.parent[x] = Nil
  /\ rg \in Ranges(Points(d, l, sp))
  /\ SplitFreely \/ Ordered(d, rg)

\* The inductive invariant.
RangeInv == TreeInv /\ Sound(dom, len, range, spare)
-----------------------------------------------------------------------------
(* Boundary points *)

LEMMA PointIs ==
  ASSUME NEW d \in Doms, NEW l \in [Node -> Nat], NEW sp, NEW P
  PROVE  /\ P \in Points(d, l, sp) <=>
              /\ P = <<P[1], P[2]>> /\ P[1] \in Node /\ P[1] \notin sp
              /\ P[2] \in Nat /\ P[2] <= Units(d, l, P[1])
         /\ \A x \in Node : Units(d, l, x) \in Nat
<1>1. \A x \in Node : Units(d, l, x) \in Nat
  BY DEF Units, Doms
<1>2. ASSUME P \in Points(d, l, sp)
      PROVE  /\ P = <<P[1], P[2]>> /\ P[1] \in Node /\ P[1] \notin sp
             /\ P[2] \in Nat /\ P[2] <= Units(d, l, P[1])
  <2>1. PICK x \in Node : P \in {<<x, o>> : o \in 0 .. Units(d, l, x)}
    BY <1>2 DEF Points, PointsOf
  <2>2. PICK o \in 0 .. Units(d, l, x) : P = <<x, o>>
    BY <2>1
  <2> QED
    BY <1>1, <1>2, <2>2 DEF Points
<1>3. ASSUME P = <<P[1], P[2]>>, P[1] \in Node, P[1] \notin sp,
             P[2] \in Nat, P[2] <= Units(d, l, P[1])
      PROVE  P \in Points(d, l, sp)
  <2>1. P \in {<<P[1], o>> : o \in 0 .. Units(d, l, P[1])}
    BY <1>1, <1>3
  <2> QED
    BY <1>3, <2>1 DEF Points, PointsOf
<1> QED
  BY <1>1, <1>2, <1>3

\* The points depend on the lists of children and the lengths only.
LEMMA SamePoints ==
  ASSUME NEW d, NEW e, e.kids = d.kids, NEW l, NEW sp
  PROVE  Points(e, l, sp) = Points(d, l, sp)
BY DEF Points, PointsOf, Units
-----------------------------------------------------------------------------
(* Ranges whose points are in order *)

LEMMA LiveIs ==
  ASSUME NEW A, NEW rg \in Ranges(A), NEW i, i \in Live(rg)
  PROVE  /\ i \in RangeId /\ rg[i] # NotRegistered /\ rg[i] \in [start : A, end : A]
         /\ rg[i].start \in A /\ rg[i].end \in A
BY DEF Live, Ranges

LEMMA RangePoints ==
  ASSUME NEW d \in Doms, NEW l \in [Node -> Nat], NEW sp, NEW rg \in Ranges(Points(d, l, sp)),
         NEW i \in Live(rg)
  PROVE  IsPoint(rg[i].start) /\ IsPoint(rg[i].end)
<1>1. rg[i].start \in Points(d, l, sp) /\ rg[i].end \in Points(d, l, sp)
  BY LiveIs
<1> QED
  BY <1>1, PointIs DEF IsPoint

LEMMA OrderedSame ==
  ASSUME NEW d \in Doms, NEW e \in Doms, NoCycle(d), NoCycle(e),
         e.parent = d.parent, e.kids = d.kids,
         NEW l \in [Node -> Nat], NEW sp, NEW rg \in Ranges(Points(d, l, sp)), Ordered(d, rg)
  PROVE  Ordered(e, rg)
<1>1. \A x \in Node : Path(e, x) = Path(d, x)
  BY PathSame
<1>2. \A x : Index(e, x) = Index(d, x)
  BY DEF Index
<1>3. ASSUME NEW i \in Live(rg) PROVE NotAfter(e, rg[i].start, rg[i].end)
  <2>1. IsPoint(rg[i].start) /\ IsPoint(rg[i].end) /\ NotAfter(d, rg[i].start, rg[i].end)
    BY RangePoints DEF Ordered
  <2>2. \A P : IsPoint(P) => \A a, t : Stands(e, P, a, t) <=> Stands(d, P, a, t)
    BY <1>1, <1>2 DEF Stands, IsPoint
  <2> QED
    BY <1>1, <2>1, <2>2 DEF NotAfter, IsPoint
<1> QED
  BY <1>3 DEF Ordered

LEMMA RemovalKeepsOrdered ==
  ASSUME NEW d, NEW u, NEW n, Unlinked(d, u, n), NEW l \in [Node -> Nat], NEW sp,
         NEW rg \in Ranges(Points(d, l, sp)), Ordered(d, rg)
  PROVE  Ordered(u, OnRemoval(d, rg, n))
<1> DEFINE rh == OnRemoval(d, rg, n)
<1>1. \A i \in RangeId : rh[i] = IF rg[i] = NotRegistered THEN rg[i]
                                 ELSE [start |-> AfterRemoval(d, rg[i].start, n),
                                       end   |-> AfterRemoval(d, rg[i].end, n)]
  BY DEF OnRemoval, FixBoth
<1> HIDE DEF rh
<1>2. ASSUME NEW i \in Live(rh) PROVE NotAfter(u, rh[i].start, rh[i].end)
  <2>1. i \in Live(rg) /\ rh[i] = [start |-> AfterRemoval(d, rg[i].start, n),
                                   end   |-> AfterRemoval(d, rg[i].end, n)]
    BY <1>1 DEF Live
  <2>2. IsPoint(rg[i].start) /\ IsPoint(rg[i].end) /\ NotAfter(d, rg[i].start, rg[i].end)
    BY <2>1, RangePoints DEF Ordered, Unlinked
  <2>3. NotAfter(u, AfterRemoval(d, rg[i].start, n), AfterRemoval(d, rg[i].end, n))
    BY <2>2, RemovalKeepsOrder
  <2> QED
    BY <2>1, <2>3
<1> QED
  BY <1>2 DEF Ordered, rh

LEMMA InsertionKeepsOrdered ==
  ASSUME NEW e, NEW u, NEW p, NEW n, NEW r, Joined(e, u, p, n, r), NEW l \in [Node -> Nat], NEW sp,
         NEW rg \in Ranges(Points(e, l, sp)), Ordered(e, rg)
  PROVE  Ordered(u, OnInsertion(u, rg, n))
<1> DEFINE rh == OnInsertion(u, rg, n)
<1>1. \A i \in RangeId : rh[i] = IF rg[i] = NotRegistered THEN rg[i]
                                 ELSE [start |-> AfterInsertion(u, rg[i].start, n),
                                       end   |-> AfterInsertion(u, rg[i].end, n)]
  BY DEF OnInsertion, FixBoth
<1> HIDE DEF rh
<1>2. ASSUME NEW i \in Live(rh) PROVE NotAfter(u, rh[i].start, rh[i].end)
  <2>1. i \in Live(rg) /\ rh[i] = [start |-> AfterInsertion(u, rg[i].start, n),
                                   end   |-> AfterInsertion(u, rg[i].end, n)]
    BY <1>1 DEF Live
  <2>2. IsPoint(rg[i].start) /\ IsPoint(rg[i].end) /\ NotAfter(e, rg[i].start, rg[i].end)
    BY <2>1, RangePoints DEF Ordered, Joined
  <2>3. NotAfter(u, AfterInsertion(u, rg[i].start, n), AfterInsertion(u, rg[i].end, n))
    BY <2>2, InsertionKeepsOrder
  <2> QED
    BY <2>1, <2>3
<1> QED
  BY <1>2 DEF Ordered, rh

\* Points in one text, moved in that text.
LEMMA TextKeepsOrder ==
  ASSUME NEW d \in Doms, NEW x \in Node, \A c \in Node : d.parent[c] # x,
         NoCycle(d), NEW A, NEW B, NEW X, NEW Y, IsPoint(A), IsPoint(B), IsPoint(X), IsPoint(Y),
         NotAfter(d, A, B),
         X = A \/ (A[1] = x /\ X[1] = x), Y = B \/ (B[1] = x /\ Y[1] = x),
         A[1] = x /\ B[1] = x /\ A[2] <= B[2] => X[2] <= Y[2]
  PROVE  NotAfter(d, X, Y)
<1>1. X[1] = A[1] /\ Y[1] = B[1]
  OBVIOUS
<1>2. \A P : IsPoint(P) => Path(d, P[1]) \subseteq Node
  BY PathIs DEF IsPoint
<1>3. ASSUME NEW a \in Node, NEW s \in Nat, NEW t \in Nat, Stands(d, X, a, s), Stands(d, Y, a, t)
      PROVE  s <= t
  <2>1. CASE a = x
    <3>1. X[1] = x /\ Y[1] = x /\ s = 2 * X[2] /\ t = 2 * Y[2]
      BY <1>2, <1>3, <2>1 DEF Stands
    <3>2. Stands(d, A, x, 2 * A[2]) /\ Stands(d, B, x, 2 * B[2])
      BY <1>1, <3>1 DEF Stands
    <3>3. 2 * A[2] <= 2 * B[2] /\ A[2] \in Nat /\ B[2] \in Nat
      BY <3>2 DEF NotAfter, IsPoint
    <3> QED
      BY <1>1, <3>1, <3>3 DEF IsPoint
  <2>2. CASE a # x
    <3>1. Stands(d, A, a, s) /\ Stands(d, B, a, t)
      BY <1>1, <1>3, <2>2 DEF Stands
    <3> QED
      BY <3>1 DEF NotAfter
  <2> QED
    BY <2>1, <2>2
<1> QED
  BY <1>1, <1>3 DEF NotAfter

\* The three ways in which ranges are told of an edit of a text.
LEMMA TextKeepsOrdered ==
  ASSUME NEW d \in Doms, Linked(d), NoCycle(d), Shaped(d), NEW x \in Node, IsChars(x),
         NEW l \in [Node -> Nat], NEW m \in [Node -> Nat], NEW sp,
         NEW rg \in Ranges(Points(d, l, sp)), NEW rh \in Ranges(Points(d, m, sp)),
         NEW offset \in Nat, NEW k \in Nat, Ordered(d, rg),
         \/ rh = FixBoth(rg, LAMBDA P : AfterReplacedText(P, x))
         \/ rh = OnDeletedText(rg, x, offset, k)
         \/ rh = OnInsertedText(rg, x, offset, k)
  PROVE  Ordered(d, rh)
<1>1. \A c \in Node : d.parent[c] # x
  BY NilAssumption DEF Shaped
<1> SUFFICES ASSUME NEW i \in Live(rh) PROVE NotAfter(d, rh[i].start, rh[i].end)
  BY DEF Ordered
<1> DEFINE A == rg[i].start
           B == rg[i].end
           X == rh[i].start
           Y == rh[i].end
<1>2. i \in RangeId /\ rh[i] # NotRegistered
  BY DEF Live
<1>3. IsPoint(X) /\ IsPoint(Y)
  BY RangePoints
<1>4. ASSUME rh = FixBoth(rg, LAMBDA P : AfterReplacedText(P, x))
      PROVE  /\ i \in Live(rg)
             /\ X = AfterReplacedText(A, x) /\ Y = AfterReplacedText(B, x)
  BY <1>2, <1>4 DEF FixBoth, Live
<1>5. ASSUME rh = OnDeletedText(rg, x, offset, k)
      PROVE  /\ i \in Live(rg)
             /\ X = AfterDeletedText(A, x, offset, k) /\ Y = AfterDeletedText(B, x, offset, k)
  BY <1>2, <1>5 DEF OnDeletedText, FixBoth, Live
<1>6. ASSUME rh = OnInsertedText(rg, x, offset, k)
      PROVE  /\ i \in Live(rg)
             /\ X = StartAfterInsertedText(A, x, offset) /\ Y = EndAfterInsertedText(B, x, offset, k)
  BY <1>2, <1>6 DEF OnInsertedText, Live
<1>7. IsPoint(A) /\ IsPoint(B) /\ NotAfter(d, A, B)
  BY <1>4, <1>5, <1>6, RangePoints DEF Ordered
<1> HIDE DEF A, B, X, Y
<1>8. A[2] \in Nat /\ B[2] \in Nat
  BY <1>7 DEF IsPoint
<1>9. /\ X = A \/ (A[1] = x /\ X[1] = x)
      /\ Y = B \/ (B[1] = x /\ Y[1] = x)
      /\ A[1] = x /\ B[1] = x /\ A[2] <= B[2] => X[2] <= Y[2]
  <2>1. CASE X = AfterReplacedText(A, x) /\ Y = AfterReplacedText(B, x)
    <3>1. \A P : AfterReplacedText(P, x) = P \/ (P[1] = x /\ AfterReplacedText(P, x) = <<x, 0>>)
      BY DEF AfterReplacedText
    <3>2. A[1] = x /\ B[1] = x => X = <<x, 0>> /\ Y = <<x, 0>>
      BY <2>1 DEF AfterReplacedText
    <3> QED
      BY <2>1, <3>1, <3>2
  <2>2. CASE X = AfterDeletedText(A, x, offset, k) /\ Y = AfterDeletedText(B, x, offset, k)
    BY <1>8, <2>2 DEF AfterDeletedText
  <2>3. CASE X = StartAfterInsertedText(A, x, offset) /\ Y = EndAfterInsertedText(B, x, offset, k)
    BY <1>8, <2>3 DEF StartAfterInsertedText, EndAfterInsertedText
  <2> QED
    BY <1>4, <1>5, <1>6, <2>1, <2>2, <2>3
<1>10. NotAfter(d, X, Y)
  BY <1>1, <1>3, <1>7, <1>9, TextKeepsOrder
<1> QED
  BY <1>10 DEF X, Y

LEMMA DeletedKeepsOrdered ==
  ASSUME NEW d \in Doms, Linked(d), NoCycle(d), Shaped(d), NEW x \in Node, IsChars(x),
         NEW l \in [Node -> Nat], NEW m \in [Node -> Nat], NEW sp,
         NEW rg \in Ranges(Points(d, l, sp)), NEW offset \in Nat, NEW k \in Nat, Ordered(d, rg),
         OnDeletedText(rg, x, offset, k) \in Ranges(Points(d, m, sp))
  PROVE  Ordered(d, OnDeletedText(rg, x, offset, k))
BY TextKeepsOrdered

LEMMA InsertedKeepsOrdered ==
  ASSUME NEW d \in Doms, Linked(d), NoCycle(d), Shaped(d), NEW x \in Node, IsChars(x),
         NEW l \in [Node -> Nat], NEW m \in [Node -> Nat], NEW sp,
         NEW rg \in Ranges(Points(d, l, sp)), NEW offset \in Nat, Ordered(d, rg),
         NEW k \in Nat, OnInsertedText(rg, x, offset, k) \in Ranges(Points(d, m, sp))
  PROVE  Ordered(d, OnInsertedText(rg, x, offset, k))
BY TextKeepsOrdered
-----------------------------------------------------------------------------
(* What the edits of a tree do to the lists of children *)

LEMMA KidsTaken ==
  ASSUME NEW d \in Doms, NEW n \in Node, d.parent[n] # Nil, NEW p
  PROVE  LET k == [d.kids EXCEPT ![d.parent[n]] = Without(@, n)]
         IN  Removed(d, n).kids = k /\ OldRemoved(d, p, n).kids = k
BY DEF OldRemoved, Removed, Uncached, Unlink, Doms

\* What insertBefore may be asked to do with n.
Insertable(d, p, n, r) ==
  /\ n # p /\ n # r /\ (r # Nil => d.parent[r] = p)
  /\ ~IsChars(p) /\ Kind[n] # "fragment"
  /\ \E C : Separates(C, d, n, p)

LEMMA PutIs ==
  ASSUME NEW d \in Doms, NEW p \in Node, NEW n \in Node, NEW r \in NodeOrNil,
         Insertable(d, p, n, r), Linked(d), NoCycle(d)
  PROVE  LET u == Inserted(d, p, n, r)
             e == Lifted(d, n)
         IN  /\ u \in Doms /\ Linked(u) /\ NoCycle(u)
             /\ u.parent = [d.parent EXCEPT ![n] = p]
             /\ r = Nil \/ Occurs(r, e.kids[p])
             /\ u.kids = [e.kids EXCEPT ![p] = Before(@, n, r)]
<1> DEFINE e == Lifted(d, n)
<1>1. PICK C : Separates(C, d, n, p) /\ n # p
  BY DEF Insertable
<1>2. e \in Doms /\ Linked(e) /\ NoCycle(e) /\ e.parent = [d.parent EXCEPT ![n] = Nil]
  BY LiftedIs
<1>3. Inserted(d, p, n, r) = Cached(Link(e, p, n, r), p, n)
  BY DEF Inserted, Lifted, Insertable
<1> HIDE DEF e
<1>4. Separates(C, e, n, p)
  BY <1>1, <1>2 DEF Separates, Doms, NodeOrNil
<1>5. n # p /\ e.parent[n] = Nil /\ (r # Nil => e.parent[r] = p)
  BY <1>2 DEF Insertable, Doms, NodeOrNil
<1> DEFINE l == Link(e, p, n, r)
           u == Cached(l, p, n)
<1>6. /\ l \in Doms /\ Linked(l) /\ NoCycle(l)
      /\ l.parent = [e.parent EXCEPT ![n] = p]
  <2>1. /\ e \in Doms /\ e.parent[n] = Nil /\ n # p /\ (r # Nil => e.parent[r] = p)
        /\ Separates(C, e, n, p) /\ Linked(e) /\ NoCycle(e)
    BY <1>2, <1>4, <1>5
  <2> QED
    BY ONLY <2>1, LinkIs, n \in Node, p \in Node, r \in NodeOrNil
<1>7. l.kids = [e.kids EXCEPT ![p] = Before(@, n, r)]
  BY <1>2 DEF Link, Doms
<1> HIDE DEF l
<1>8. u \in Doms /\ u.parent = l.parent /\ u.kids = l.kids
  BY <1>6, CachesIs
<1> HIDE DEF u
<1>9. Linked(u) /\ NoCycle(u)
  BY <1>6, <1>8, SameShape
<1>10. u.parent = [d.parent EXCEPT ![n] = p]
  BY <1>2, <1>6, <1>8 DEF Doms
<1>11. r = Nil \/ Occurs(r, e.kids[p])
  BY <1>2, <1>5, LinkedIs, NilAssumption DEF NodeOrNil
<1>12. u.kids = [e.kids EXCEPT ![p] = Before(@, n, r)]
  BY <1>7, <1>8
<1> QED
  BY <1>3, <1>8, <1>9, <1>10, <1>11, <1>12 DEF e, l, u
-----------------------------------------------------------------------------
(* What the ranges are told, and what becomes of their points *)

\* updateRangeForDeletedNode
LEMMA RemovalKeepsPoints ==
  ASSUME NEW d \in Doms, Linked(d), Shaped(d), NEW l \in [Node -> Nat],
         NEW sp, \A x \in sp : IsChars(x), NEW n \in Node, d.parent[n] # Nil,
         NEW u \in Doms, u.kids = [d.kids EXCEPT ![d.parent[n]] = Without(@, n)],
         NEW rg \in Ranges(Points(d, l, sp))
  PROVE  OnRemoval(d, rg, n) \in Ranges(Points(u, l, sp))
<1> DEFINE q == d.parent[n]
<1>1. /\ q \in Node /\ ~IsChars(q) /\ q \notin sp
      /\ Index(d, n) \in Nat /\ Index(d, n) < Len(d.kids[q])
  BY ChildIs DEF Shaped
<1>2. Len(u.kids[q]) = Len(d.kids[q]) - 1 /\ \A x \in Node : x # q => u.kids[x] = d.kids[x]
  <2>1. d.kids[q] \in Seq(Node) /\ Occurs(n, d.kids[q])
    BY ChildIs
  <2>2. Len(Without(d.kids[q], n)) = Len(d.kids[q]) - 1
    BY ONLY <2>1, WithoutLength
  <2> QED
    BY <1>1, <2>2 DEF Doms
<1>3. /\ Units(u, l, q) = Units(d, l, q) - 1 /\ Units(d, l, q) = Len(d.kids[q])
      /\ \A x \in Node : x # q => Units(u, l, x) = Units(d, l, x)
  BY <1>1, <1>2 DEF Units
<1> HIDE DEF q
<1>4. ASSUME NEW P \in Points(d, l, sp)
      PROVE  AfterRemoval(d, P, n) \in Points(u, l, sp)
  <2>1. /\ P = <<P[1], P[2]>> /\ P[1] \in Node /\ P[1] \notin sp
        /\ P[2] \in Nat /\ P[2] <= Units(d, l, P[1])
    BY PointIs
  <2>2. AfterRemoval(d, P, n) = IF q = P[1]
          THEN IF P[2] > Index(d, n) THEN <<P[1], P[2] - 1>> ELSE P
          ELSE IF IsAncestorOf(d, n, P[1]) THEN <<q, Index(d, n)>> ELSE P
    BY DEF AfterRemoval, q
  <2>3. CASE q = P[1] /\ P[2] > Index(d, n)
    <3>1. P[2] - 1 \in Nat /\ P[2] - 1 <= Units(u, l, P[1])
      BY <1>1, <1>3, <2>1, <2>3
    <3> QED
      BY <2>1, <2>2, <2>3, <3>1, PointIs
  <2>4. CASE q = P[1] /\ ~(P[2] > Index(d, n))
    <3>1. P[2] <= Units(u, l, P[1])
      BY <1>1, <1>3, <2>1, <2>4
    <3> QED
      BY <2>1, <2>2, <2>4, <3>1, PointIs
  <2>5. CASE q # P[1] /\ IsAncestorOf(d, n, P[1])
    <3>1. Index(d, n) <= Units(u, l, q)
      BY <1>1, <1>3
    <3> QED
      BY <1>1, <2>2, <2>5, <3>1, PointIs
  <2>6. CASE q # P[1] /\ ~IsAncestorOf(d, n, P[1])
    BY <1>3, <2>1, <2>2, <2>6, PointIs
  <2> QED
    BY <2>3, <2>4, <2>5, <2>6
<1> QED
  BY <1>4 DEF OnRemoval, FixBoth, Ranges

\* updateRangeForInsertedNode
LEMMA InsertionKeepsPoints ==
  ASSUME NEW e \in Doms, NEW l \in [Node -> Nat], NEW sp, NEW p \in Node, ~IsChars(p),
         NEW n \in Node, NEW r, r = Nil \/ Occurs(r, e.kids[p]),
         NEW u \in Doms, u.kids = [e.kids EXCEPT ![p] = Before(@, n, r)], u.parent[n] = p,
         NEW rg \in Ranges(Points(e, l, sp))
  PROVE  OnInsertion(u, rg, n) \in Ranges(Points(u, l, sp))
<1>1. Len(u.kids[p]) = Len(e.kids[p]) + 1 /\ \A x \in Node : x # p => u.kids[x] = e.kids[x]
  <2>1. e.kids[p] \in Seq(Node) /\ (r = Nil \/ Occurs(r, e.kids[p])) /\ n \in Node
    BY DEF Doms
  <2>2. Len(Before(e.kids[p], n, r)) = Len(e.kids[p]) + 1
    BY ONLY <2>1, BeforeLength
  <2>3. e.kids \in [Node -> Seq(Node)]
    BY DEF Doms
  <2>4. \A x \in Node : u.kids[x] = IF x = p THEN Before(e.kids[p], n, r) ELSE e.kids[x]
    BY <2>3
  <2> QED
    BY <2>2, <2>4
<1>2. /\ Units(u, l, p) = Units(e, l, p) + 1
      /\ \A x \in Node : x # p => Units(u, l, x) = Units(e, l, x)
  BY <1>1 DEF Units
<1>3. ASSUME NEW P \in Points(e, l, sp)
      PROVE  AfterInsertion(u, P, n) \in Points(u, l, sp)
  <2>1. /\ P = <<P[1], P[2]>> /\ P[1] \in Node /\ P[1] \notin sp
        /\ P[2] \in Nat /\ P[2] <= Units(e, l, P[1]) /\ Units(e, l, P[1]) \in Nat
    BY PointIs
  <2>2. AfterInsertion(u, P, n) =
          IF p = P[1] /\ Index(u, n) < P[2] THEN <<P[1], P[2] + 1>> ELSE P
    BY DEF AfterInsertion
  <2>3. CASE p = P[1] /\ Index(u, n) < P[2]
    <3>1. P[2] + 1 \in Nat /\ P[2] + 1 <= Units(u, l, P[1])
      BY <1>2, <2>1, <2>3
    <3> QED
      BY <2>1, <2>2, <2>3, <3>1, PointIs
  <2>4. CASE ~(p = P[1] /\ Index(u, n) < P[2])
    <3>1. P[2] <= Units(u, l, P[1])
      BY <1>2, <2>1
    <3> QED
      BY <2>1, <2>2, <2>4, <3>1, PointIs
  <2> QED
    BY <2>3, <2>4
<1> QED
  BY <1>3 DEF OnInsertion, FixBoth, Ranges

\* insertBefore tells the ranges twice when the node comes from elsewhere.
LEMMA MoveKeepsPoints ==
  ASSUME NEW d \in Doms, Linked(d), NoCycle(d), Shaped(d), NEW l \in [Node -> Nat],
         NEW sp, \A x \in sp : IsChars(x), NEW p \in Node, NEW n \in Node, NEW r \in NodeOrNil,
         Insertable(d, p, n, r), NEW rg \in Ranges(Points(d, l, sp))
  PROVE  OnMove(d, Inserted(d, p, n, r), rg, n, r)
           \in Ranges(Points(Inserted(d, p, n, r), l, sp))
<1> DEFINE u == Inserted(d, p, n, r)
           e == Lifted(d, n)
           mid == IF d.parent[n] = Nil THEN rg ELSE OnRemoval(d, rg, n)
<1>1. /\ u \in Doms /\ u.parent = [d.parent EXCEPT ![n] = p]
      /\ r = Nil \/ Occurs(r, e.kids[p])
      /\ u.kids = [e.kids EXCEPT ![p] = Before(@, n, r)]
  BY PutIs
<1>2. e \in Doms
  BY LiftedIs
<1>3. mid \in Ranges(Points(e, l, sp))
  <2>1. CASE d.parent[n] = Nil
    BY <2>1 DEF Lifted
  <2>2. CASE d.parent[n] # Nil
    <3>1. e = Removed(d, n) /\ mid = OnRemoval(d, rg, n)
      BY <2>2 DEF Lifted
    <3>2. e.kids = [d.kids EXCEPT ![d.parent[n]] = Without(@, n)]
      BY <2>2, <3>1, KidsTaken
    <3> QED
      BY <1>2, <2>2, <3>1, <3>2, RemovalKeepsPoints
  <2> QED
    BY <2>1, <2>2
<1>4. u.parent[n] = p /\ ~IsChars(p)
  BY <1>1 DEF Doms, Insertable
<1>5. OnMove(d, u, rg, n, r) = OnInsertion(u, mid, n)
  BY DEF OnMove, Insertable
<1> HIDE DEF u, e, mid
<1>6. OnInsertion(u, mid, n) \in Ranges(Points(u, l, sp))
  BY <1>1, <1>2, <1>3, <1>4, InsertionKeepsPoints
<1> QED
  BY <1>5, <1>6 DEF u
-----------------------------------------------------------------------------
(* The tree mutators *)

LEMMA SoundSame ==
  ASSUME NEW d, NEW l, NEW rg, NEW sp, Sound(d, l, rg, sp),
         NEW e \in Doms, e.parent = d.parent, e.kids = d.kids
  PROVE  Sound(e, l, rg, sp)
<1>1. Linked(e) /\ NoCycle(e)
  BY SameShape DEF Sound
<1>2. Points(e, l, sp) = Points(d, l, sp)
  BY SamePoints
<1>3. SplitFreely \/ Ordered(e, rg)
  BY <1>1, OrderedSame DEF Sound
<1> QED
  BY <1>1, <1>2, <1>3 DEF Sound, Shaped

LEMMA SoundRemoved ==
  ASSUME NEW d, NEW l, NEW rg, NEW sp, Sound(d, l, rg, sp), NEW n \in Node, d.parent[n] # Nil,
         NEW u \in {Removed(d, n), OldRemoved(d, d.parent[n], n)}
  PROVE  Sound(u, l, OnRemoval(d, rg, n), sp)
<1>1. /\ d \in Doms /\ Linked(d) /\ NoCycle(d) /\ Shaped(d) /\ l \in [Node -> Nat]
      /\ sp \in SUBSET Node /\ \A x \in sp : IsChars(x) /\ d.parent[x] = Nil
      /\ rg \in Ranges(Points(d, l, sp))
  BY DEF Sound
<1>2. d.parent[n] \in Node
  BY <1>1, ChildIs
<1>3. /\ u \in Doms /\ Linked(u) /\ NoCycle(u)
      /\ u.parent = [d.parent EXCEPT ![n] = Nil]
  BY <1>1, RemovedIs, UnlinkIs DEF OldRemoved
<1>4. u.kids = [d.kids EXCEPT ![d.parent[n]] = Without(@, n)]
  <2>1. LET k == [d.kids EXCEPT ![d.parent[n]] = Without(@, n)]
        IN  Removed(d, n).kids = k /\ OldRemoved(d, d.parent[n], n).kids = k
    BY ONLY <1>1, n \in Node, d.parent[n] # Nil, KidsTaken
  <2> QED
    BY <2>1
<1>5. OnRemoval(d, rg, n) \in Ranges(Points(u, l, sp))
  BY ONLY <1>1, <1>3, <1>4, n \in Node, d.parent[n] # Nil, RemovalKeepsPoints
<1>6. Shaped(u) /\ \A x \in sp : u.parent[x] = Nil
  BY <1>1, <1>3 DEF Shaped, Doms
<1>7. SplitFreely \/ Ordered(u, OnRemoval(d, rg, n))
  <2>1. Unlinked(d, u, n)
    BY <1>1, <1>3, <1>4 DEF Unlinked
  <2> QED
    BY <1>1, <2>1, RemovalKeepsOrdered DEF Sound
<1> QED
  BY <1>1, <1>3, <1>5, <1>6, <1>7 DEF Sound

\* insertBefore leaves no range upside down.
LEMMA MoveKeepsOrdered ==
  ASSUME NEW d \in Doms, Linked(d), NoCycle(d), Shaped(d), NEW l \in [Node -> Nat],
         NEW sp, \A x \in sp : IsChars(x), NEW p \in Node, NEW n \in Node, NEW r \in NodeOrNil,
         Insertable(d, p, n, r), NEW rg \in Ranges(Points(d, l, sp)), Ordered(d, rg)
  PROVE  Ordered(Inserted(d, p, n, r), OnMove(d, Inserted(d, p, n, r), rg, n, r))
<1> DEFINE u == Inserted(d, p, n, r)
           e == Lifted(d, n)
           mid == IF d.parent[n] = Nil THEN rg ELSE OnRemoval(d, rg, n)
<1>1. /\ u \in Doms /\ Linked(u) /\ NoCycle(u) /\ u.parent = [d.parent EXCEPT ![n] = p]
      /\ r = Nil \/ Occurs(r, e.kids[p])
      /\ u.kids = [e.kids EXCEPT ![p] = Before(@, n, r)]
  BY PutIs
<1>2. e \in Doms /\ Linked(e) /\ NoCycle(e) /\ e.parent = [d.parent EXCEPT ![n] = Nil]
  BY LiftedIs
<1>3. mid \in Ranges(Points(e, l, sp)) /\ Ordered(e, mid)
  <2>1. CASE d.parent[n] = Nil
    BY <2>1 DEF Lifted
  <2>2. CASE d.parent[n] # Nil
    <3>1. e = Removed(d, n) /\ mid = OnRemoval(d, rg, n)
      BY <2>2 DEF Lifted
    <3>2. e.kids = [d.kids EXCEPT ![d.parent[n]] = Without(@, n)]
      BY <2>2, <3>1, KidsTaken
    <3>3. Unlinked(d, e, n)
      BY <1>2, <2>2, <3>2 DEF Unlinked
    <3> HIDE DEF e, mid
    <3> QED
      BY <1>2, <2>2, <3>1, <3>2, <3>3, RemovalKeepsPoints, RemovalKeepsOrdered
  <2> QED
    BY <2>1, <2>2
<1>4. OnMove(d, u, rg, n, r) = OnInsertion(u, mid, n)
  BY DEF OnMove, Insertable
<1> HIDE DEF u, e, mid
<1>5. Joined(e, u, p, n, r)
  BY <1>1, <1>2 DEF Joined, Doms
<1>6. Ordered(u, OnInsertion(u, mid, n))
  BY <1>3, <1>5, InsertionKeepsOrdered
<1> QED
  BY <1>4, <1>6 DEF u

LEMMA SoundPut ==
  ASSUME NEW d \in Doms, Linked(d), NoCycle(d), NEW l, NEW rg, NEW sp, Sound(d, l, rg, sp),
         NEW p \in Node, NEW n \in Node,
         NEW r \in NodeOrNil, n \notin sp, Insertable(d, p, n, r)
  PROVE  Sound(Inserted(d, p, n, r), l, OnMove(d, Inserted(d, p, n, r), rg, n, r), sp)
<1> DEFINE u == Inserted(d, p, n, r)
<1>1. /\ d \in Doms /\ Linked(d) /\ NoCycle(d) /\ Shaped(d) /\ l \in [Node -> Nat]
      /\ sp \in SUBSET Node /\ \A x \in sp : IsChars(x) /\ d.parent[x] = Nil
      /\ rg \in Ranges(Points(d, l, sp))
  BY DEF Sound
<1>2. /\ u \in Doms /\ Linked(u) /\ NoCycle(u)
      /\ u.parent = [d.parent EXCEPT ![n] = p]
  <2> DEFINE e == Lifted(d, n)
  <2>1. /\ u \in Doms /\ Linked(u) /\ NoCycle(u)
        /\ u.parent = [d.parent EXCEPT ![n] = p]
        /\ r = Nil \/ Occurs(r, e.kids[p])
        /\ u.kids = [e.kids EXCEPT ![p] = Before(@, n, r)]
    BY PutIs
  <2> QED
    BY <2>1
<1>3. /\ OnMove(d, u, rg, n, r) \in Ranges(Points(u, l, sp))
      /\ SplitFreely \/ Ordered(u, OnMove(d, u, rg, n, r))
  BY <1>1, MoveKeepsPoints, MoveKeepsOrdered DEF Sound
<1> HIDE DEF u
<1>4. ~IsChars(p) /\ Kind[n] # "fragment"
  BY DEF Insertable
<1>5. Shaped(u) /\ \A x \in sp : u.parent[x] = Nil
  BY <1>1, <1>2, <1>4 DEF Shaped, Doms
<1>6. Sound(u, l, OnMove(d, u, rg, n, r), sp)
  BY <1>1, <1>2, <1>3, <1>5 DEF Sound
<1> QED
  BY <1>6 DEF u

LEMMA AllowedInsertable ==
  ASSUME NEW d \in Doms, Linked(d), NEW p \in Node, NEW n \in Node, NEW r \in NodeOrNil,
         n # p, n # r, Kind[n] # "fragment", InsertAllowed(d, p, n, r)
  PROVE  Insertable(d, p, n, r)
<1>1. \E C : Separates(C, d, n, p)
  BY CheckedSeparates DEF InsertAllowed
<1>2. KidOK(p, n) /\ (r # Nil => d.parent[r] = p)
  BY DEF InsertAllowed
<1>3. ~IsChars(p)
  BY <1>2 DEF KidOK, IsChars, CharKinds
<1> QED
  BY <1>1, <1>2, <1>3 DEF Insertable

LEMMA SoundInserted ==
  ASSUME NEW d, NEW l, NEW rg, NEW sp, Sound(d, l, rg, sp), NEW p \in Node, NEW n \in Node,
         NEW r \in NodeOrNil, n \notin sp, n # p, Kind[n] # "fragment", InsertAllowed(d, p, n, r)
  PROVE  Sound(Inserted(d, p, n, r), l, OnMove(d, Inserted(d, p, n, r), rg, n, r), sp)
<1>1. d \in Doms /\ Linked(d) /\ NoCycle(d)
  BY DEF Sound
<1>2. CASE n = r
  <2>1. Inserted(d, p, n, r) = Cached(d, p, n) /\ OnMove(d, Inserted(d, p, n, r), rg, n, r) = rg
    BY <1>2 DEF Inserted, OnMove
  <2>2. /\ Cached(d, p, n) \in Doms
        /\ Cached(d, p, n).parent = d.parent /\ Cached(d, p, n).kids = d.kids
    BY <1>1, CachesIs
  <2>3. Sound(Cached(d, p, n), l, rg, sp)
    BY <2>2, SoundSame
  <2> QED
    BY <2>1, <2>3
<1>3. CASE n # r
  BY <1>1, <1>3, AllowedInsertable, SoundPut
<1> QED
  BY <1>2, <1>3

\* A mutator of the tree leaves the ranges, the texts and the tree in order.
LEMMA TreeStepKeeps ==
  ASSUME "selfInsert" \notin Unguarded, RangeInv, TreeStep
  PROVE  RangeInv'
<1>1. /\ TypeOK /\ dom \in Doms /\ Linked(dom) /\ NoCycle(dom) /\ Shaped(dom) /\ CallSound
      /\ Sound(dom, len, range, spare)
  BY DEF RangeInv, TreeInv, TypeOK, Sound
<1>2. TreeInv'
  <2>1. [Next]_vars
    BY DEF TreeStep, Next
  <2> QED
    BY <2>1, TreeInvStep DEF RangeInv
<1>3. len' = len /\ spare' = spare
  BY DEF TreeStep
<1> SUFFICES Sound(dom', len, range', spare)
  BY <1>2, <1>3 DEF RangeInv
<1>4. ASSUME NEW p \in Node \ spare, NEW n \in Node \ spare, NEW r \in NodeOrNil,
             InsertNode(p, n, r), range' = OnMove(dom, dom', range, n, r)
      PROVE  Sound(dom', len, range', spare)
  <2>1. /\ n # p /\ Kind[n] # "fragment" /\ InsertAllowed(dom, p, n, r)
        /\ dom' = Inserted(dom, p, n, r)
    BY <1>4 DEF InsertNode, CallExpected
  <2> QED
    BY <1>1, <1>4, <2>1, SoundInserted
<1>5. ASSUME NEW p \in Node \ spare, NEW n \in Node \ spare, NEW r \in NodeOrNil,
             InsertFragment(p, n, r), range' = range
      PROVE  Sound(dom', len, range', spare)
  BY <1>1, <1>5 DEF InsertFragment, StartFragment
<1>6. CASE MoveKid /\ range' = OnMove(dom, dom', range, Head(dom.kids[call.frag]), call.ref)
  <2> DEFINE n == Head(dom.kids[call.frag])
  <2>1. /\ call.parent \in Node /\ call.frag \in Node /\ call.ref \in NodeOrNil
        /\ n \in Node /\ dom.parent[n] = call.frag /\ n # call.parent
    BY <1>6, KidIs DEF MoveKid, RangeInv
  <2>2. InsertAllowed(dom, call.parent, n, call.ref) /\ dom' = Inserted(dom, call.parent, n, call.ref)
    BY <1>6 DEF MoveKid
  <2> HIDE DEF n
  <2>3. n \notin spare /\ Kind[n] # "fragment"
    BY <1>1, <2>1, NilAssumption DEF Sound, Shaped
  <2>4. Sound(dom', len, OnMove(dom, dom', range, n, call.ref), spare)
    BY <1>1, <2>1, <2>2, <2>3, SoundInserted
  <2> QED
    BY <1>6, <2>4 DEF n
<1>7. CASE KidRefused /\ range' = range
  <2>1. dom' \in Doms /\ dom'.parent = dom.parent /\ dom'.kids = dom.kids
    BY <1>1, <1>2, <1>7 DEF KidRefused, TreeInv, TypeOK, Doms
  <2> QED
    BY <1>1, <1>7, <2>1, SoundSame
<1>8. CASE FragmentDone /\ range' = IF call.old = Nil THEN range ELSE OnRemoval(dom, range, call.old)
  <2>1. call \in Calls /\ call # Idle
    BY <1>1, <1>8 DEF FragmentDone, TypeOK
  <2>2. CASE call.old = Nil
    BY <1>1, <1>8, <2>2 DEF FragmentDone
  <2>3. CASE call.old # Nil
    <3>1. /\ call.old \in Node /\ dom.parent[call.old] = call.parent /\ call.parent \in Node
      BY <1>1, <2>1, <2>3 DEF CallSound, Calls, NodeOrNil
    <3>2. dom' = OldRemoved(dom, call.parent, call.old) /\ range' = OnRemoval(dom, range, call.old)
      BY <1>8, <2>3 DEF FragmentDone
    <3> QED
      BY <1>1, <3>1, <3>2, NilAssumption, SoundRemoved
  <2> QED
    BY <2>2, <2>3
<1>9. ASSUME NEW n \in Node, RemoveChild(n), range' = OnRemoval(dom, range, n)
      PROVE  Sound(dom', len, range', spare)
  BY <1>1, <1>9, SoundRemoved DEF RemoveChild
<1>10. ASSUME NEW p \in Node \ spare, NEW n \in Node \ spare, NEW o \in Node \ spare,
              ReplaceByNode(p, n, o),
              LET d == ForReplace(dom, p, o)
                  g == Inserted(d, p, n, o)
              IN  range' = OnRemoval(g, OnMove(d, g, range, n, o), o)
       PROVE  Sound(dom', len, range', spare)
  <2> DEFINE d == ForReplace(dom, p, o)
             g == Inserted(d, p, n, o)
             t == OnMove(d, g, range, n, o)
  <2>1. d \in Doms /\ d.parent = dom.parent /\ d.kids = dom.kids
    BY <1>1, CachesIs DEF ForReplace
  <2>2. /\ n # p /\ Kind[n] # "fragment" /\ InsertAllowed(d, p, n, o)
        /\ dom' = OldRemoved(g, p, o)
    BY <1>10 DEF ReplaceByNode, CallExpected
  <2>3. range' = OnRemoval(g, t, o)
    BY <1>10
  <2> HIDE DEF d
  <2>4. Sound(d, len, range, spare)
    BY <1>1, <2>1, SoundSame
  <2>5. o # Nil /\ d.parent[o] = p /\ Linked(d) /\ NoCycle(d)
    BY <2>2, <2>4, NilAssumption DEF InsertAllowed, Sound
  <2>6. Sound(g, len, t, spare)
    BY <2>2, <2>4, SoundInserted DEF NodeOrNil
  <2>7. g.parent[o] = p
    <3>1. g.parent = IF n = o THEN d.parent ELSE [d.parent EXCEPT ![n] = p]
      BY <2>1, <2>2, <2>5, InsertedIs, SMTT(30) DEF NodeOrNil
    <3> QED
      BY <2>1, <2>5, <3>1 DEF Doms
  <2> HIDE DEF g, t
  <2>8. OldRemoved(g, p, o) \in {Removed(g, o), OldRemoved(g, g.parent[o], o)} /\ g.parent[o] # Nil
    BY <2>7, NilAssumption
  <2> QED
    BY <2>2, <2>3, <2>6, <2>8, SoundRemoved
<1>11. ASSUME NEW p \in Node \ spare, NEW n \in Node \ spare, NEW o \in Node \ spare,
              ReplaceByFragment(p, n, o), range' = range
       PROVE  Sound(dom', len, range', spare)
  <2>1. /\ ForReplace(dom, p, o) \in Doms /\ ForReplace(dom, p, o).parent = dom.parent
        /\ ForReplace(dom, p, o).kids = dom.kids
    BY <1>1, CachesIs DEF ForReplace
  <2>2. dom' = ForReplace(dom, p, o)
    BY <1>11 DEF ReplaceByFragment, StartFragment
  <2> QED
    BY <1>1, <1>11, <2>1, <2>2, SoundSame
<1> QED
  BY <1>4, <1>5, <1>6, <1>7, <1>8, <1>9, <1>10, <1>11 DEF TreeStep
-----------------------------------------------------------------------------
(* Character data *)

\* receiveReplacedText
LEMMA ReplacedText ==
  ASSUME NEW d \in Doms, NEW l \in [Node -> Nat], NEW sp, NEW rg \in Ranges(Points(d, l, sp)),
         NEW x \in Node, IsChars(x), x \notin sp, NEW k \in Nat
  PROVE  FixBoth(rg, LAMBDA P : AfterReplacedText(P, x))
           \in Ranges(Points(d, [l EXCEPT ![x] = k], sp))
<1> DEFINE m == [l EXCEPT ![x] = k]
<1>1. /\ m \in [Node -> Nat] /\ Units(d, m, x) = k
      /\ \A y \in Node : y # x => Units(d, m, y) = Units(d, l, y)
  BY DEF Units
<1> HIDE DEF m
<1>2. ASSUME NEW P \in Points(d, l, sp)
      PROVE  AfterReplacedText(P, x) \in Points(d, m, sp)
  <2>1. /\ P = <<P[1], P[2]>> /\ P[1] \in Node /\ P[1] \notin sp
        /\ P[2] \in Nat /\ P[2] <= Units(d, l, P[1])
    BY PointIs
  <2>2. CASE P[1] = x
    BY <1>1, <2>1, <2>2, PointIs DEF AfterReplacedText
  <2>3. CASE P[1] # x
    BY <1>1, <2>1, <2>3, PointIs DEF AfterReplacedText
  <2> QED
    BY <2>2, <2>3
<1>3. FixBoth(rg, LAMBDA P : AfterReplacedText(P, x)) \in Ranges(Points(d, m, sp))
  BY <1>2 DEF FixBoth, Ranges
<1> QED
  BY <1>3 DEF m

\* updateRangeForDeletedText: of l[x] units k are taken out behind offset.
LEMMA DeletedText ==
  ASSUME NEW d \in Doms, NEW l \in [Node -> Nat], NEW sp, NEW rg \in Ranges(Points(d, l, sp)),
         NEW x \in Node, IsChars(x), x \notin sp,
         NEW offset \in Nat, NEW k \in Nat, offset + k <= l[x]
  PROVE  /\ [l EXCEPT ![x] = @ - k] \in [Node -> Nat]
         /\ OnDeletedText(rg, x, offset, k) \in Ranges(Points(d, [l EXCEPT ![x] = @ - k], sp))
<1> DEFINE j == l[x] - k
           m == [l EXCEPT ![x] = @ - k]
<1>1. j \in Nat /\ offset <= j /\ j + k = l[x]
  OBVIOUS
<1>2. m = [l EXCEPT ![x] = j]
  OBVIOUS
<1> HIDE DEF j, m
<1>3. /\ m \in [Node -> Nat] /\ Units(d, l, x) = l[x] /\ Units(d, m, x) = j
      /\ \A y \in Node : y # x => Units(d, m, y) = Units(d, l, y)
  BY <1>1, <1>2 DEF Units
<1>4. ASSUME NEW P \in Points(d, l, sp)
      PROVE  AfterDeletedText(P, x, offset, k) \in Points(d, m, sp)
  <2>1. /\ P = <<P[1], P[2]>> /\ P[1] \in Node /\ P[1] \notin sp
        /\ P[2] \in Nat /\ P[2] <= Units(d, l, P[1])
    BY PointIs
  <2>2. CASE P[1] # x
    BY <1>3, <2>1, <2>2, PointIs DEF AfterDeletedText
  <2>3. CASE P[1] = x
    <3>1. PICK o \in Nat : o <= j /\ AfterDeletedText(P, x, offset, k) = <<x, o>>
      <4>1. P[2] <= j + k
        BY <1>1, <1>3, <2>1, <2>3
      <4>2. CASE P[2] > offset + k
        <5>1. P[2] - k \in Nat /\ P[2] - k <= j
          BY <1>1, <2>1, <4>1, <4>2
        <5> QED
          BY <2>3, <4>2, <5>1 DEF AfterDeletedText
      <4>3. CASE P[2] <= offset + k /\ P[2] > offset
        <5>1. ~(P[2] > offset + k)
          BY <2>1, <4>3
        <5> QED
          BY <1>1, <2>3, <4>3, <5>1 DEF AfterDeletedText
      <4>4. CASE P[2] <= offset
        <5>1. ~(P[2] > offset + k) /\ ~(P[2] > offset) /\ P[2] <= j
          BY <1>1, <2>1, <4>4
        <5> QED
          BY <2>1, <2>3, <5>1 DEF AfterDeletedText
      <4> QED
        BY <2>1, <4>2, <4>3, <4>4
    <3> QED
      BY <1>3, <3>1, PointIs
  <2> QED
    BY <2>2, <2>3
<1>5. OnDeletedText(rg, x, offset, k) \in Ranges(Points(d, m, sp))
  BY <1>4 DEF OnDeletedText, FixBoth, Ranges
<1> QED
  BY <1>3, <1>5 DEF m

\* updateRangeForInsertedText: k units are put in at offset.
LEMMA InsertedText ==
  ASSUME NEW d \in Doms, NEW l \in [Node -> Nat], NEW sp, NEW rg \in Ranges(Points(d, l, sp)),
         NEW x \in Node, IsChars(x), x \notin sp,
         NEW offset \in Nat, NEW k \in Nat, offset <= l[x]
  PROVE  /\ [l EXCEPT ![x] = @ + k] \in [Node -> Nat]
         /\ OnInsertedText(rg, x, offset, k) \in Ranges(Points(d, [l EXCEPT ![x] = @ + k], sp))
<1> DEFINE j == l[x] + k
           m == [l EXCEPT ![x] = @ + k]
<1>1. j \in Nat /\ offset <= j /\ l[x] <= j
  OBVIOUS
<1>2. m = [l EXCEPT ![x] = j]
  OBVIOUS
<1>3. /\ m \in [Node -> Nat] /\ Units(d, l, x) = l[x] /\ Units(d, m, x) = j
      /\ \A y \in Node : y # x => Units(d, m, y) = Units(d, l, y)
  <2> HIDE DEF j, m
  <2> QED
    BY <1>1, <1>2 DEF Units
<1> HIDE DEF m
<1>4. ASSUME NEW P \in Points(d, l, sp)
      PROVE  /\ StartAfterInsertedText(P, x, offset) \in Points(d, m, sp)
             /\ EndAfterInsertedText(P, x, offset, k) \in Points(d, m, sp)
  <2>1. /\ P = <<P[1], P[2]>> /\ P[1] \in Node /\ P[1] \notin sp
        /\ P[2] \in Nat /\ P[2] <= Units(d, l, P[1])
    BY PointIs
  <2>2. CASE P[1] # x
    BY <1>3, <2>1, <2>2, PointIs DEF StartAfterInsertedText, EndAfterInsertedText
  <2>3. CASE P[1] = x
    <3>1. P[2] + k \in Nat /\ P[2] <= j /\ P[2] + k <= j
      BY <1>3, <2>1, <2>3
    <3> HIDE DEF j
    <3>2. \A o \in Nat : o <= j => <<x, o>> \in Points(d, m, sp)
      BY <1>3, PointIs
    <3>3. <<x, P[2]>> \in Points(d, m, sp) /\ <<x, offset>> \in Points(d, m, sp)
          /\ <<x, P[2] + k>> \in Points(d, m, sp)
      BY <1>1, <2>1, <3>1, <3>2
    <3> QED
      BY <2>1, <2>3, <3>3 DEF StartAfterInsertedText, EndAfterInsertedText
  <2> QED
    BY <2>2, <2>3
<1>5. OnInsertedText(rg, x, offset, k) \in Ranges(Points(d, m, sp))
  BY <1>4 DEF OnInsertedText, Ranges
<1> QED
  BY <1>3, <1>5 DEF m

\* A text that grows at its end keeps all its points.
LEMMA GrownText ==
  ASSUME NEW d \in Doms, NEW l \in [Node -> Nat], NEW sp, NEW m \in [Node -> Nat],
         \A y \in Node : l[y] <= m[y]
  PROVE  Ranges(Points(d, l, sp)) \subseteq Ranges(Points(d, m, sp))
<1>1. \A y \in Node : Units(d, l, y) \in Nat /\ Units(d, m, y) \in Nat
                      /\ Units(d, l, y) <= Units(d, m, y)
  <2> TAKE y \in Node
  <2>1. d.kids[y] \in Seq(Node) /\ Len(d.kids[y]) \in Nat
    BY DEF Doms
  <2>2. l[y] \in Nat /\ m[y] \in Nat /\ l[y] <= m[y]
    OBVIOUS
  <2>3. CASE IsChars(y)
    BY <2>2, <2>3 DEF Units
  <2>4. CASE ~IsChars(y)
    BY <2>1, <2>4 DEF Units
  <2> QED
    BY <2>3, <2>4
<1>2. ASSUME NEW P \in Points(d, l, sp) PROVE P \in Points(d, m, sp)
  <2>1. /\ P = <<P[1], P[2]>> /\ P[1] \in Node /\ P[1] \notin sp
        /\ P[2] \in Nat /\ P[2] <= Units(d, l, P[1])
    BY PointIs
  <2>2. P[2] <= Units(d, m, P[1])
    BY <1>1, <2>1
  <2> QED
    BY <2>1, <2>2, PointIs
<1> QED
  BY <1>2 DEF Ranges
-----------------------------------------------------------------------------
(* splitText *)

LEMMA NextIs ==
  ASSUME NEW d \in Doms, Linked(d), NEW x \in Node, d.parent[x] # Nil
  PROVE  /\ NextOf(d, x) \in NodeOrNil
         /\ NextOf(d, x) # Nil => d.parent[NextOf(d, x)] = d.parent[x]
<1> DEFINE q == d.parent[x]
           s == d.kids[q]
           k == IndexOf(s, x)
<1>1. q \in Node /\ s \in Seq(Node) /\ Occurs(x, s)
  BY ChildIs
<1>2. k \in 1 .. Len(s)
  BY <1>1, WithoutLength
<1>3. NextOf(d, x) = IF k = Len(s) THEN Nil ELSE s[k + 1]
  BY DEF NextOf
<1> HIDE DEF k, q
<1>4. CASE k = Len(s)
  BY <1>3, <1>4 DEF NodeOrNil
<1>5. CASE k # Len(s)
  <2>1. k + 1 \in DOMAIN s /\ s[k + 1] \in Node
    BY <1>1, <1>2, <1>5
  <2>2. Occurs(s[k + 1], s)
    BY <2>1 DEF Occurs
  <2>3. d.parent[s[k + 1]] = q
    BY <1>1, <2>1, <2>2, LinkedIs
  <2> QED
    BY <1>3, <1>5, <2>1, <2>3 DEF NodeOrNil, q
<1> QED
  BY <1>4, <1>5

LEMMA NextIndex ==
  ASSUME NEW d \in Doms, Linked(d), NEW x \in Node, d.parent[x] # Nil
  PROVE  LET s == d.kids[d.parent[x]]
         IN  Index(d, x) + 1 = (IF NextOf(d, x) = Nil THEN Len(s) + 1 ELSE IndexOf(s, NextOf(d, x))) - 1
<1> DEFINE q == d.parent[x]
           s == d.kids[q]
           k == IndexOf(s, x)
<1>1. q \in Node /\ s \in Seq(Node) /\ Occurs(x, s) /\ Distinct(s)
  BY ChildIs, LinkedIs
<1>2. k \in 1 .. Len(s)
  BY <1>1, WithoutLength
<1>3. NextOf(d, x) = (IF k = Len(s) THEN Nil ELSE s[k + 1]) /\ Index(d, x) = k - 1
  BY DEF NextOf, Index
<1> HIDE DEF k, s
<1>4. CASE k = Len(s)
  BY <1>2, <1>3, <1>4 DEF s
<1>5. CASE k # Len(s)
  <2>1. k + 1 \in DOMAIN s /\ s[k + 1] \in Node
    BY <1>1, <1>2, <1>5
  <2>2. s[k + 1] # Nil /\ IndexOf(s, s[k + 1]) = k + 1
    BY <1>1, <2>1, IndexAt, NilAssumption
  <2> QED
    BY <1>2, <1>3, <1>5, <2>2 DEF s
<1> QED
  BY <1>4, <1>5

\* The new text is put behind the old one.
LEMMA SplitTreeIs ==
  ASSUME Sound(dom, len, range, spare), NEW x \in Node, IsChars(x),
         NEW new \in spare, Kind[new] = Kind[x], dom.parent[x] # Nil
  PROVE  LET u == SplitTree(x, new)
         IN  /\ Insertable(dom, dom.parent[x], new, NextOf(dom, x))
             /\ u \in Doms /\ Linked(u) /\ NoCycle(u)
             /\ u.parent = [dom.parent EXCEPT ![new] = dom.parent[x]]
             /\ OnInsertion(u, range, new) \in Ranges(Points(u, len, spare))
             /\ Joined(dom, u, dom.parent[x], new, NextOf(dom, x))
<1> DEFINE p == dom.parent[x]
           r == NextOf(dom, x)
           u == Inserted(dom, p, new, r)
<1>1. /\ dom \in Doms /\ Linked(dom) /\ NoCycle(dom) /\ Shaped(dom) /\ len \in [Node -> Nat]
      /\ new \in Node /\ IsChars(new) /\ dom.parent[new] = Nil
      /\ range \in Ranges(Points(dom, len, spare))
  BY DEF Sound
<1>2. /\ p \in Node /\ ~IsChars(p) /\ Kind[new] # "fragment"
      /\ r \in NodeOrNil /\ (r # Nil => dom.parent[r] = p) /\ p # Nil
  <2>1. p \in Node /\ p # Nil /\ ~IsChars(p)
    BY <1>1, ChildIs DEF Shaped
  <2>2. Kind[new] # "fragment"
    BY <1>1 DEF IsChars, CharKinds
  <2>3. r \in NodeOrNil /\ (r # Nil => dom.parent[r] = p)
    BY <1>1, NextIs
  <2> QED
    BY <2>1, <2>2, <2>3
<1>3. SplitTree(x, new) = u
  BY DEF SplitTree
<1> HIDE DEF p, r, u
<1>4. ~HasKids(dom, new)
  <2> SUFFICES ASSUME HasKids(dom, new) PROVE FALSE
    OBVIOUS
  <2>1. dom.kids[new] \in Seq(Node) /\ dom.kids[new] # <<>>
    BY <1>1 DEF HasKids, Doms
  <2>2. PICK y \in Node : Occurs(y, dom.kids[new])
    <3>1. 1 \in DOMAIN dom.kids[new] /\ dom.kids[new][1] \in Node
      BY <2>1
    <3> QED
      BY <3>1 DEF Occurs
  <2>3. dom.parent[y] = new
    BY <1>1, <2>2, LinkedIs
  <2> QED
    BY <1>1, <2>3, NilAssumption DEF Shaped
<1>5. \E C : Separates(C, dom, new, p)
  BY <1>1, <1>2, <1>4, CheckedSeparates
<1>6. Insertable(dom, p, new, r) /\ new # r
  BY <1>1, <1>2, <1>5, NilAssumption DEF Insertable
<1>7. /\ u \in Doms /\ Linked(u) /\ NoCycle(u)
      /\ u.parent = [dom.parent EXCEPT ![new] = p]
      /\ r = Nil \/ Occurs(r, Lifted(dom, new).kids[p])
      /\ u.kids = [Lifted(dom, new).kids EXCEPT ![p] = Before(@, new, r)]
  <2>1. /\ dom \in Doms /\ p \in Node /\ new \in Node /\ r \in NodeOrNil
        /\ Insertable(dom, p, new, r) /\ Linked(dom) /\ NoCycle(dom)
    BY <1>1, <1>2, <1>6
  <2> QED
    BY ONLY <2>1, PutIs, SMTT(40) DEF u
<1>8. Lifted(dom, new) = dom /\ u.parent[new] = p
  <2>1. dom.parent \in [Node -> NodeOrNil]
    BY <1>1 DEF Doms
  <2>2. u.parent[new] = p
    BY <1>1, <1>7, <2>1
  <2> QED
    BY <1>1, <2>2 DEF Lifted
<1>9. OnInsertion(u, range, new) \in Ranges(Points(u, len, spare))
  <2>1. /\ dom \in Doms /\ len \in [Node -> Nat] /\ p \in Node /\ ~IsChars(p) /\ new \in Node
        /\ r = Nil \/ Occurs(r, dom.kids[p])
        /\ u \in Doms /\ u.parent[new] = p
        /\ range \in Ranges(Points(dom, len, spare))
    BY <1>1, <1>2, <1>7, <1>8
  <2>2. u.kids = [dom.kids EXCEPT ![p] = Before(@, new, r)]
    BY <1>7, <1>8
  <2> QED
    BY ONLY <2>1, <2>2, InsertionKeepsPoints
<1>10. Joined(dom, u, p, new, r)
  BY <1>1, <1>2, <1>7, <1>8 DEF Joined
<1> QED
  BY <1>3, <1>6, <1>7, <1>9, <1>10 DEF p, r

\* updateSplitInfo
LEMMA SplitPoints ==
  ASSUME NEW d \in Doms, NEW l \in [Node -> Nat], NEW sp, NEW rg \in Ranges(Points(d, l, sp)),
         NEW x \in Node, IsChars(x), x \notin sp,
         NEW new \in Node, IsChars(new), new \in sp,
         NEW offset \in Nat, offset <= l[x]
  PROVE  LET m == [l EXCEPT ![x] = offset, ![new] = l[x] - offset]
         IN  /\ m \in [Node -> Nat]
             /\ OnSplit(rg, x, new, offset) \in Ranges(Points(d, m, sp \ {new}))
<1> DEFINE m == [l EXCEPT ![x] = offset, ![new] = l[x] - offset]
<1>1. l[x] - offset \in Nat /\ x # new
  OBVIOUS
<1>2. /\ m \in [Node -> Nat] /\ m[x] = offset /\ m[new] = l[x] - offset
      /\ \A y \in Node : y # x /\ y # new => m[y] = l[y]
  BY <1>1
<1> HIDE DEF m
<1>3. /\ Units(d, l, x) = l[x] /\ Units(d, m, x) = offset /\ Units(d, m, new) = l[x] - offset
      /\ \A y \in Node : y # x /\ y # new => Units(d, m, y) = Units(d, l, y)
  BY <1>2 DEF Units
<1>4. ASSUME NEW P \in Points(d, l, sp)
      PROVE  AfterSplit(P, x, new, offset) \in Points(d, m, sp \ {new})
  <2>1. /\ P = <<P[1], P[2]>> /\ P[1] \in Node /\ P[1] \notin sp
        /\ P[2] \in Nat /\ P[2] <= Units(d, l, P[1])
    BY PointIs
  <2>2. CASE P[1] # x
    BY <1>2, <1>3, <2>1, <2>2, PointIs DEF AfterSplit
  <2>3. CASE P[1] = x /\ P[2] > offset
    <3>1. P[2] - offset \in Nat /\ P[2] - offset <= Units(d, m, new)
      BY <1>3, <2>1, <2>3
    <3>2. <<new, P[2] - offset>> \in Points(d, m, sp \ {new})
      BY <1>2, <3>1, PointIs
    <3> QED
      BY <2>3, <3>2 DEF AfterSplit
  <2>4. CASE P[1] = x /\ ~(P[2] > offset)
    <3>1. P[2] <= Units(d, m, P[1])
      BY <1>3, <2>1, <2>4
    <3>2. P \in Points(d, m, sp \ {new})
      BY <1>2, <2>1, <3>1, PointIs
    <3> QED
      BY <2>4, <3>2 DEF AfterSplit
  <2> QED
    BY <2>2, <2>3, <2>4
<1>5. OnSplit(rg, x, new, offset) \in Ranges(Points(d, m, sp \ {new}))
  BY <1>4 DEF OnSplit, FixBoth, Ranges
<1> QED
  BY <1>2, <1>5 DEF m

\* The text new has come right behind x, and takes the points behind offset.
Halved(u, x, new) ==
  /\ u \in Doms /\ Linked(u) /\ NoCycle(u) /\ x \in Node /\ new \in Node /\ x # new
  /\ u.parent[x] # Nil /\ u.parent[new] = u.parent[x]
  /\ Index(u, new) = Index(u, x) + 1
  /\ \A c \in Node : u.parent[c] # x /\ u.parent[c] # new

LEMMA StandsHalved ==
  ASSUME NEW u, NEW x, NEW new, Halved(u, x, new), NEW offset \in Nat, NEW P, IsPoint(P), P[1] # new
  PROVE  LET Q == AfterSplit(P, x, new, offset)
             p == u.parent[x]
             k == Index(u, x)
         IN  /\ k \in Nat /\ p \in Node /\ p # x /\ p # new
             /\ \A a \in Node, t \in Nat : Stands(u, Q, a, t) =>
                  IF Q = P THEN a # new /\ Stands(u, P, a, t)
                  ELSE /\ P[1] = x /\ P[2] > offset /\ a # x
                       /\ a = new => t = 2 * (P[2] - offset)
                       /\ a = p => t = 2 * k + 3
                       /\ a # new /\ a # p => Stands(u, P, a, t)
             /\ P[1] = x => /\ \A t \in Nat : Stands(u, P, p, t) => t = 2 * k + 1
                            /\ Stands(u, P, p, 2 * k + 1)
             /\ IsPoint(Q) /\ (Q # P => P[1] = x /\ P[2] > offset /\ Q = <<new, P[2] - offset>>)
             /\ P[1] = x /\ Q = P => P[2] <= offset
             /\ \A t \in Nat : P[1] # x /\ Stands(u, P, p, t) => t # 2 * k + 1
<1> DEFINE Q == AfterSplit(P, x, new, offset)
           p == u.parent[x]
           k == Index(u, x)
<1>1. /\ u \in Doms /\ Linked(u) /\ NoCycle(u) /\ x \in Node /\ new \in Node /\ x # new
      /\ p # Nil /\ u.parent[new] = p /\ Index(u, new) = k + 1
      /\ \A c \in Node : u.parent[c] # x /\ u.parent[c] # new
  BY DEF Halved
<1>2. k \in Nat /\ p \in Node /\ p # x /\ p # new
  BY <1>1, ChildIs
<1>3. P[1] \in Node /\ P[2] \in Nat /\ P = <<P[1], P[2]>>
  BY DEF IsPoint
<1>4. \A y \in Node : Path(u, y) \in SUBSET Node /\ y \in Path(u, y)
  BY <1>1, PathIs
<1>5. Path(u, x) = {x} \cup Path(u, p) /\ Path(u, new) = {new} \cup Path(u, p)
  BY <1>1, PathStep
<1>6. Q = IF P[1] = x /\ P[2] > offset THEN <<new, P[2] - offset>> ELSE P
  BY DEF AfterSplit
<1> HIDE DEF Q, p, k
<1>7. IsPoint(Q) /\ (Q # P => P[1] = x /\ P[2] > offset /\ Q = <<new, P[2] - offset>>)
  BY <1>1, <1>3, <1>6 DEF IsPoint
<1>8. P[1] = x /\ Q = P => P[2] <= offset
  BY <1>1, <1>3, <1>6
<1>9. \A c \in Path(u, p) : u.parent[c] # p
  BY <1>1, <1>2, <1>4, NotAboveParent, OneChildOnPath DEF p
<1>10. P[1] = x => /\ \A t \in Nat : Stands(u, P, p, t) => t = 2 * k + 1
                   /\ Stands(u, P, p, 2 * k + 1)
  BY <1>1, <1>2, <1>4, <1>5, <1>9 DEF Stands, k, p
<1>11. ASSUME NEW a \in Node, NEW t \in Nat, Stands(u, Q, a, t)
       PROVE  IF Q = P THEN a # new /\ Stands(u, P, a, t)
              ELSE /\ P[1] = x /\ P[2] > offset /\ a # x
                   /\ a = new => t = 2 * (P[2] - offset)
                   /\ a = p => t = 2 * k + 3
                   /\ a # new /\ a # p => Stands(u, P, a, t)
  <2>1. CASE Q = P
    BY <1>1, <1>3, <1>4, <1>11, <2>1 DEF Stands
  <2>2. CASE Q # P
    <3>1. P[1] = x /\ P[2] > offset /\ Q[1] = new /\ Q[2] = P[2] - offset
      BY <1>7, <2>2
    <3>2. CASE a = new /\ t = 2 * (P[2] - offset)
      BY <1>1, <1>2, <2>2, <3>1, <3>2
    <3>3. ASSUME NEW c \in Path(u, new), u.parent[c] = a, t = 2 * Index(u, c) + 1
          PROVE  /\ a # x /\ a # new
                 /\ a = p => t = 2 * k + 3
                 /\ a # p => Stands(u, P, a, t)
      <4>1. a # x /\ a # new
        BY <1>1, <1>4, <3>3
      <4>2. CASE c = new
        <5>1. a = p /\ t = 2 * (k + 1) + 1
          BY <1>1, <3>3, <4>2
        <5> QED
          BY <1>2, <4>1, <5>1
      <4>3. CASE c # new
        <5>1. c \in Path(u, p) /\ c \in Path(u, P[1])
          BY <1>5, <3>1, <3>3, <4>3
        <5> QED
          BY <1>9, <3>3, <4>1, <5>1 DEF Stands
      <4> QED
        BY <4>2, <4>3
    <3> QED
      BY <1>11, <2>2, <3>1, <3>2, <3>3 DEF Stands
  <2> QED
    BY <2>1, <2>2
<1>12. \A t \in Nat : P[1] # x /\ Stands(u, P, p, t) => t # 2 * k + 1
  <2> SUFFICES ASSUME P[1] # x, Stands(u, P, p, 2 * k + 1) PROVE FALSE
    BY <1>2
  <2>1. PICK c \in Path(u, P[1]) : u.parent[c] = p /\ 2 * k + 1 = 2 * Index(u, c) + 1
    BY <1>2, <1>3 DEF Stands
  <2>2. c \in Node /\ c # x
    <3>1. \A y \in Node : x \in Path(u, y) => x = y
      BY <1>1, <1>4, ChildOnPath
    <3> QED
      BY <1>3, <1>4, <2>1, <3>1
  <2>3. Index(u, c) \in Nat /\ Index(u, c) = k
    BY <1>1, <1>2, <2>1, <2>2, ChildIs, NilAssumption
  <2>4. Occurs(c, u.kids[p]) /\ Occurs(x, u.kids[p])
    BY <1>1, <1>2, <2>1, <2>2, LinkedIs DEF p
  <2>5. /\ IndexOf(u.kids[p], c) \in DOMAIN u.kids[p] /\ u.kids[p][IndexOf(u.kids[p], c)] = c
        /\ IndexOf(u.kids[p], x) \in DOMAIN u.kids[p] /\ u.kids[p][IndexOf(u.kids[p], x)] = x
    BY <2>4, IndexOfOccurs
  <2>6. DOMAIN u.kids[p] \subseteq Nat
    BY <1>1, <1>2 DEF Doms
  <2>7. IndexOf(u.kids[p], c) = IndexOf(u.kids[p], x)
    <3>1. IndexOf(u.kids[p], c) \in Nat /\ IndexOf(u.kids[p], x) \in Nat
      BY <2>5, <2>6
    <3>2. Index(u, c) = IndexOf(u.kids[p], c) - 1
      BY <2>1 DEF Index
    <3>3. k = IndexOf(u.kids[p], x) - 1
      BY DEF Index, k, p
    <3> DEFINE i == IndexOf(u.kids[p], c)
               j == IndexOf(u.kids[p], x)
    <3>4. i \in Nat /\ j \in Nat /\ i - 1 = j - 1
      BY <2>3, <3>1, <3>2, <3>3
    <3> HIDE DEF i, j
    <3>5. i = j
      BY <3>4
    <3> QED
      BY <3>5 DEF i, j
  <2> QED
    BY <2>2, <2>5, <2>7
<1> QED
  BY <1>2, <1>7, <1>8, <1>10, <1>11, <1>12 DEF Q, p, k

LEMMA SplitKeepsOrder ==
  ASSUME NEW u, NEW x, NEW new, Halved(u, x, new), NEW offset \in Nat,
         NEW A, IsPoint(A), A[1] # new, NEW B, IsPoint(B), B[1] # new, NotAfter(u, A, B),
         ~ (A[1] = x /\ A[2] > offset /\ B = <<u.parent[x], Index(u, x) + 1>>)
  PROVE  NotAfter(u, AfterSplit(A, x, new, offset), AfterSplit(B, x, new, offset))
<1> DEFINE X == AfterSplit(A, x, new, offset)
           Y == AfterSplit(B, x, new, offset)
           p == u.parent[x]
           k == Index(u, x)
           Moved(P, Q) ==
             /\ \A a \in Node, t \in Nat : Stands(u, Q, a, t) =>
                  IF Q = P THEN a # new /\ Stands(u, P, a, t)
                  ELSE /\ P[1] = x /\ P[2] > offset /\ a # x
                       /\ a = new => t = 2 * (P[2] - offset)
                       /\ a = p => t = 2 * k + 3
                       /\ a # new /\ a # p => Stands(u, P, a, t)
             /\ P[1] = x => /\ \A t \in Nat : Stands(u, P, p, t) => t = 2 * k + 1
                            /\ Stands(u, P, p, 2 * k + 1)
             /\ IsPoint(Q) /\ (Q # P => P[1] = x /\ P[2] > offset /\ Q = <<new, P[2] - offset>>)
             /\ P[1] = x /\ Q = P => P[2] <= offset
             /\ \A t \in Nat : P[1] # x /\ Stands(u, P, p, t) => t # 2 * k + 1
<1>1. k \in Nat /\ p \in Node /\ p # x /\ p # new /\ Moved(A, X)
  BY StandsHalved
<1>2. Moved(B, Y)
  BY StandsHalved
<1>3. /\ u \in Doms /\ Linked(u) /\ NoCycle(u) /\ x \in Node /\ new \in Node /\ x # new
      /\ u.parent[new] = p /\ p # Nil /\ \A c \in Node : u.parent[c] # x /\ u.parent[c] # new
  BY DEF Halved
<1>4. A[1] \in Node /\ A[2] \in Nat /\ B[1] \in Node /\ B[2] \in Nat
      /\ A = <<A[1], A[2]>> /\ B = <<B[1], B[2]>>
  BY DEF IsPoint
<1> HIDE DEF X, Y, k
<1>5. Path(u, X[1]) \cap Path(u, Y[1]) # {}
  <2>1. Path(u, x) = {x} \cup Path(u, p) /\ Path(u, new) = {new} \cup Path(u, p)
    BY <1>3, PathStep
  <2>2. \A y \in Node : x \in Path(u, y) => p \in Path(u, y)
    BY <1>1, <1>3, PathIs
  <2>3. p \in Path(u, p)
    BY <1>1, <1>3, PathIs
  <2>4. PICK z : z \in Path(u, A[1]) \cap Path(u, B[1])
    BY DEF NotAfter
  <2>5. (X = A \/ (A[1] = x /\ X[1] = new)) /\ (Y = B \/ (B[1] = x /\ Y[1] = new))
    BY <1>1, <1>2
  <2> QED
    BY <1>4, <2>1, <2>2, <2>3, <2>4, <2>5
<1>6. ASSUME NEW a \in Node, NEW s \in Nat, NEW t \in Nat, Stands(u, X, a, s), Stands(u, Y, a, t)
      PROVE  s <= t
  <2>1. CASE X = A /\ Y = B
    BY <1>6, <2>1 DEF NotAfter
  <2>2. CASE X = A /\ Y # B
    <3>1. a # new /\ a # x /\ Stands(u, A, a, s)
      BY <1>1, <1>2, <1>6, <2>2
    <3>2. CASE a = p
      <4>1. t = 2 * k + 3 /\ B[1] = x /\ Stands(u, B, p, 2 * k + 1)
        BY <1>2, <1>6, <2>2, <3>2
      <4>2. 2 * k + 1 \in Nat
        BY <1>1
      <4>3. s <= 2 * k + 1
        BY <3>1, <3>2, <4>1, <4>2 DEF NotAfter
      <4> QED
        BY <1>1, <4>1, <4>3
    <3>3. CASE a # p
      <4>1. Stands(u, B, a, t)
        BY <1>2, <1>6, <2>2, <3>1, <3>3
      <4> QED
        BY <3>1, <4>1 DEF NotAfter
    <3> QED
      BY <3>2, <3>3
  <2>3. CASE X # A /\ Y = B
    <3>1. a # new /\ a # x /\ Stands(u, B, a, t)
      BY <1>1, <1>2, <1>6, <2>3
    <3>2. A[1] = x /\ A[2] > offset /\ Stands(u, A, p, 2 * k + 1) /\ 2 * k + 1 \in Nat
      BY <1>1, <2>3
    <3>3. B[1] # x
      <4> SUFFICES ASSUME B[1] = x PROVE FALSE
        OBVIOUS
      <4>1. Stands(u, A, x, 2 * A[2]) /\ Stands(u, B, x, 2 * B[2])
        BY <3>2 DEF Stands
      <4>2. 2 * A[2] <= 2 * B[2]
        BY <1>3, <1>4, <4>1 DEF NotAfter
      <4>3. B[2] <= offset
        BY <1>2, <2>3
      <4> QED
        BY <1>4, <3>2, <4>2, <4>3
    <3>4. CASE a = p
      <4>1. s = 2 * k + 3 /\ 2 * k + 1 <= t /\ t # 2 * k + 1
        BY <1>1, <1>2, <1>6, <2>3, <3>1, <3>2, <3>3, <3>4 DEF NotAfter
      <4>2. t # 2 * k + 2
        <5> SUFFICES ASSUME t = 2 * k + 2 PROVE FALSE
          OBVIOUS
        <5>1. CASE a = B[1] /\ t = 2 * B[2]
          <6>1. B[2] = k + 1
            BY <1>1, <1>4, <5>1
          <6> QED
            BY <1>4, <3>2, <3>4, <5>1, <6>1 DEF k
        <5>2. CASE \E c \in Path(u, B[1]) : u.parent[c] = a /\ t = 2 * Index(u, c) + 1
          <6>1. PICK c \in Path(u, B[1]) : u.parent[c] = a /\ t = 2 * Index(u, c) + 1
            BY <5>2
          <6>2. Index(u, c) \in Nat
            BY <1>3, <1>4, <6>1, PathIs, ChildIs, NilAssumption
          <6> QED
            BY <1>1, <6>1, <6>2
        <5> QED
          BY <3>1, <5>1, <5>2 DEF Stands
      <4> QED
        BY <1>1, <4>1, <4>2
    <3>5. CASE a # p
      <4>1. Stands(u, A, a, s)
        BY <1>1, <1>6, <2>3, <3>1, <3>5
      <4> QED
        BY <3>1, <4>1 DEF NotAfter
    <3> QED
      BY <3>4, <3>5
  <2>4. CASE X # A /\ Y # B
    <3>1. A[1] = x /\ B[1] = x /\ A[2] > offset /\ B[2] > offset
      BY <1>1, <1>2, <2>4
    <3>2. A[2] <= B[2]
      <4>1. Stands(u, A, x, 2 * A[2]) /\ Stands(u, B, x, 2 * B[2])
        BY <3>1 DEF Stands
      <4>2. 2 * A[2] <= 2 * B[2]
        BY <1>3, <1>4, <4>1 DEF NotAfter
      <4> QED
        BY <1>4, <4>2
    <3>3. CASE a = new
      <4>1. s = 2 * (A[2] - offset) /\ t = 2 * (B[2] - offset)
        BY <1>1, <1>2, <1>6, <2>4, <3>3
      <4> QED
        BY <1>4, <3>2, <4>1
    <3>4. CASE a = p
      BY <1>1, <1>2, <1>6, <2>4, <3>4
    <3>5. CASE a # new /\ a # p
      <4>1. Stands(u, A, a, s) /\ Stands(u, B, a, t)
        BY <1>1, <1>2, <1>6, <2>4, <3>5
      <4> QED
        BY <4>1 DEF NotAfter
    <3> QED
      BY <3>3, <3>4, <3>5
  <2> QED
    BY <2>1, <2>2, <2>3, <2>4
<1> QED
  BY <1>5, <1>6 DEF NotAfter, X, Y

\* splitText turns no range upside down, where it is harmless.
LEMMA SplitKeepsOrdered ==
  ASSUME Sound(dom, len, range, spare), Ordered(dom, range), NEW x \in Node, IsChars(x), x \notin spare,
         NEW new \in spare, Kind[new] = Kind[x], NEW offset \in Nat, SplitHarmless(x, offset)
  PROVE  Ordered(SplitTree(x, new), SplitRange(x, new, offset))
<1> DEFINE u == SplitTree(x, new)
           p == dom.parent[x]
           t == IF p = Nil THEN range ELSE OnInsertion(u, range, new)
           rh == SplitRange(x, new, offset)
<1>1. /\ dom \in Doms /\ Linked(dom) /\ NoCycle(dom) /\ Shaped(dom) /\ len \in [Node -> Nat]
      /\ spare \in SUBSET {y \in Node : IsChars(y)} /\ \A y \in spare : dom.parent[y] = Nil
      /\ range \in Ranges(Points(dom, len, spare))
  BY DEF Sound
<1>2. new \in Node /\ IsChars(new) /\ x # new
  BY <1>1
<1>3. \A i \in RangeId : rh[i] = IF t[i] = NotRegistered THEN t[i]
                                 ELSE [start |-> AfterSplit(t[i].start, x, new, offset),
                                       end   |-> AfterSplit(t[i].end, x, new, offset)]
  BY DEF SplitRange, OnSplit, FixBoth
<1> SUFFICES ASSUME NEW i \in Live(rh) PROVE NotAfter(u, rh[i].start, rh[i].end)
  BY DEF Ordered
<1> HIDE DEF rh
<1>4. i \in Live(t) /\ rh[i] = [start |-> AfterSplit(t[i].start, x, new, offset),
                                end   |-> AfterSplit(t[i].end, x, new, offset)]
  BY <1>3 DEF Live
<1>5. CASE p = Nil
  <2>1. u = dom /\ t = range
    BY <1>5 DEF SplitTree
  <2>2. i \in Live(range) /\ NotAfter(dom, range[i].start, range[i].end)
    BY <1>4, <2>1 DEF Ordered
  <2>3. range[i].start[1] # x /\ range[i].end[1] # x
    BY <1>5, <2>2 DEF SplitHarmless
  <2>4. rh[i].start = range[i].start /\ rh[i].end = range[i].end
    BY <1>4, <2>1, <2>3 DEF AfterSplit
  <2> QED
    BY <2>1, <2>2, <2>4
<1>6. CASE p # Nil
  <2>1. /\ Insertable(dom, p, new, NextOf(dom, x))
        /\ u \in Doms /\ Linked(u) /\ NoCycle(u)
        /\ u.parent = [dom.parent EXCEPT ![new] = p]
        /\ OnInsertion(u, range, new) \in Ranges(Points(u, len, spare))
        /\ Joined(dom, u, p, new, NextOf(dom, x))
    BY <1>1, <1>2, <1>6, SplitTreeIs
  <2>2. t = OnInsertion(u, range, new)
    BY <1>6
  <2> HIDE DEF u, t
  <2>3. Ordered(u, t)
    BY <1>1, <2>1, <2>2, InsertionKeepsOrdered
  <2>4. /\ Index(u, new) = Index(dom, x) + 1 /\ Index(dom, x) \in Nat /\ Index(u, x) = Index(dom, x)
        /\ u.parent[x] = p /\ u.parent[new] = p
    <3> DEFINE r == NextOf(dom, x)
               k == (IF r = Nil THEN Len(dom.kids[p]) + 1 ELSE IndexOf(dom.kids[p], r)) - 1
    <3>1. Index(dom, x) + 1 = k /\ Index(dom, x) \in Nat
      BY <1>1, <1>6, NextIndex, ChildIs
    <3>2. Joined(dom, u, p, new, r)
      BY <2>1
    <3> HIDE DEF r
    <3>3. /\ Index(u, new) \in Nat /\ u.parent[new] = p /\ Index(u, new) = k
          /\ \A c \in Node : c # new /\ dom.parent[c] # Nil =>
               LET j == Index(dom, c)
               IN  /\ j \in Nat /\ u.parent[c] = dom.parent[c]
                   /\ dom.parent[c] = p => Index(u, c) = IF j < Index(u, new) THEN j ELSE j + 1
                   /\ dom.parent[c] # p => Index(u, c) = j
      BY <3>2, JoinedIndex
    <3> HIDE DEF k
    <3>4. /\ u.parent[x] = p
          /\ Index(u, x) = IF Index(dom, x) < Index(u, new) THEN Index(dom, x) ELSE Index(dom, x) + 1
      BY <1>2, <1>6, <3>3
    <3> QED
      BY <3>1, <3>3, <3>4
  <2>5. ~IsChars(p) /\ p \in Node
    BY <1>1, <1>6, ChildIs DEF Shaped
  <2>6. Halved(u, x, new)
    <3>1. \A c \in Node : u.parent[c] # x /\ u.parent[c] # new
      BY <1>1, <1>2, <2>1, <2>5, NilAssumption DEF Shaped, Doms
    <3> QED
      BY <1>2, <1>6, <2>1, <2>4, <3>1 DEF Halved
  <2> DEFINE A == t[i].start
             B == t[i].end
  <2>7. NotAfter(u, A, B)
    BY <1>4, <2>3 DEF Ordered
  <2>8. IsPoint(A) /\ IsPoint(B) /\ A[1] # new /\ B[1] # new
    <3>1. A \in Points(u, len, spare) /\ B \in Points(u, len, spare)
      BY <1>4, <2>1, <2>2, LiveIs
    <3> QED
      BY <1>1, <2>1, <3>1, PointIs DEF IsPoint
  <2>9. /\ i \in Live(range)
        /\ A = AfterInsertion(u, range[i].start, new) /\ B = AfterInsertion(u, range[i].end, new)
    BY <1>4, <2>2 DEF OnInsertion, FixBoth, Live
  <2> HIDE DEF A, B
  <2>10. ~ (A[1] = x /\ A[2] > offset /\ B = <<u.parent[x], Index(u, x) + 1>>)
    <3> SUFFICES ASSUME A[1] = x, A[2] > offset, B = <<p, Index(dom, x) + 1>> PROVE FALSE
      BY <2>4
    <3>1. IsPoint(range[i].start) /\ IsPoint(range[i].end)
      BY <1>1, <2>9, RangePoints
    <3>2. A = range[i].start
      BY <1>6, <2>4, <2>5, <2>9, <3>1 DEF AfterInsertion, IsPoint
    <3>3. B = range[i].end
      <4> SUFFICES ASSUME p = range[i].end[1], Index(u, new) < range[i].end[2] PROVE FALSE
        BY <2>4, <2>9 DEF AfterInsertion
      <4>1. B = <<p, range[i].end[2] + 1>>
        BY <2>4, <2>9 DEF AfterInsertion
      <4>2. Index(dom, x) + 1 = range[i].end[2] + 1
        BY <4>1
      <4> QED
        BY <2>4, <3>1, <4>2 DEF IsPoint
    <3> QED
      BY <1>6, <2>9, <3>2, <3>3 DEF SplitHarmless
  <2>11. NotAfter(u, AfterSplit(A, x, new, offset), AfterSplit(B, x, new, offset))
    BY <2>6, <2>7, <2>8, <2>10, SplitKeepsOrder
  <2> QED
    BY <1>4, <2>11 DEF A, B
<1> QED
  BY <1>5, <1>6

LEMMA SplitKeeps ==
  ASSUME Sound(dom, len, range, spare), NEW x \in Node, IsChars(x), x \notin spare,
         NEW new \in spare, Kind[new] = Kind[x], NEW offset \in Nat, offset <= len[x],
         SplitHarmless(x, offset) \/ SplitFreely
  PROVE  Sound(SplitTree(x, new), SplitLen(x, new, offset), SplitRange(x, new, offset),
               spare \ {new})
<1> DEFINE u == SplitTree(x, new)
           t == IF dom.parent[x] = Nil THEN range ELSE OnInsertion(u, range, new)
<1>1. /\ dom \in Doms /\ Linked(dom) /\ NoCycle(dom) /\ Shaped(dom) /\ len \in [Node -> Nat]
      /\ spare \in SUBSET {y \in Node : IsChars(y)} /\ \A y \in spare : dom.parent[y] = Nil
      /\ range \in Ranges(Points(dom, len, spare))
  BY DEF Sound
<1>2. new \in Node /\ IsChars(new)
  BY <1>1
<1>3. /\ u \in Doms /\ Linked(u) /\ NoCycle(u) /\ Shaped(u)
      /\ \A y \in spare \ {new} : u.parent[y] = Nil
      /\ t \in Ranges(Points(u, len, spare))
  <2>1. CASE dom.parent[x] = Nil
    BY <1>1, <2>1 DEF SplitTree
  <2>2. CASE dom.parent[x] # Nil
    <3>1. /\ Insertable(dom, dom.parent[x], new, NextOf(dom, x))
          /\ u \in Doms /\ Linked(u) /\ NoCycle(u)
          /\ u.parent = [dom.parent EXCEPT ![new] = dom.parent[x]]
          /\ OnInsertion(u, range, new) \in Ranges(Points(u, len, spare))
      BY <1>1, <1>2, <2>2, SplitTreeIs
    <3> HIDE DEF u
    <3>2. ~IsChars(dom.parent[x]) /\ Kind[new] # "fragment"
      BY <3>1 DEF Insertable
    <3>3. Shaped(u) /\ \A y \in spare \ {new} : u.parent[y] = Nil
      BY <1>1, <3>1, <3>2 DEF Shaped, Doms
    <3> QED
      BY <2>2, <3>1, <3>3
  <2> QED
    BY <2>1, <2>2
<1>4. SplitRange(x, new, offset) = OnSplit(t, x, new, offset)
  BY DEF SplitRange
<1>7. SplitFreely \/ Ordered(u, SplitRange(x, new, offset))
  BY SplitKeepsOrdered DEF Sound
<1> HIDE DEF u, t
<1>5. /\ SplitLen(x, new, offset) \in [Node -> Nat]
      /\ OnSplit(t, x, new, offset) \in Ranges(Points(u, SplitLen(x, new, offset), spare \ {new}))
  BY <1>1, <1>2, <1>3, SplitPoints DEF SplitLen
<1>6. Sound(u, SplitLen(x, new, offset), SplitRange(x, new, offset), spare \ {new})
  BY <1>1, <1>3, <1>4, <1>5, <1>7 DEF Sound
<1> QED
  BY <1>6 DEF u
-----------------------------------------------------------------------------
(* normalize *)

\* One merge: there is a first pair of adjacent texts, its second is taken
\* out of the tree and its first has grown.
LEMMA MergeKeeps ==
  ASSUME NEW st, Sound(st.dom, st.len, st.range, spare), NEW p
  PROVE  LET u == MergeNext(st, p) IN Sound(u.dom, u.len, u.range, spare)
<1> DEFINE d == st.dom
           below == {q \in Node : \/ q = p
                                  \/ /\ p \in Path(d, q)
                                     /\ \A a \in Path(d, q) \ Path(d, p) : Kind[a] = "element"}
           pairs == {c \in Node \X Node :
                       /\ d.parent[c[1]] \in below
                       /\ Kind[c[1]] = "text" /\ Kind[c[2]] = "text"
                       /\ NextOf(d, c[1]) = c[2]}
           First(c) == \A b \in pairs : d.parent[b[1]] = d.parent[c[1]] =>
                                          Index(d, c[1]) <= Index(d, b[1])
           c == CHOOSE c \in pairs : First(c)
           u == [dom   |-> Removed(d, c[2]),
                 len   |-> [st.len EXCEPT ![c[1]] = @ + st.len[c[2]]],
                 range |-> OnRemoval(d, st.range, c[2])]
<1>1. MergeNext(st, p) = IF pairs = {} THEN st ELSE u
  BY DEF MergeNext
<1>2. /\ d \in Doms /\ Linked(d) /\ NoCycle(d) /\ Shaped(d) /\ st.len \in [Node -> Nat]
      /\ st.range \in Ranges(Points(d, st.len, spare))
  BY DEF Sound
<1>3. below \subseteq Node
  OBVIOUS
<1> HIDE DEF below
<1>4. \A b \in pairs : b[1] \in Node /\ b[2] \in Node /\ d.parent[b[1]] \in Node
                       /\ NextOf(d, b[1]) = b[2]
  BY <1>3
<1> HIDE DEF pairs
<1>5. \A b \in pairs : Index(d, b[1]) \in Nat
  BY <1>2, <1>4, ChildIs, NilAssumption
<1>6. CASE pairs # {}
  <2>1. \E a \in pairs : First(a)
    <3>1. PICK b \in pairs : TRUE
      BY <1>6
    <3> DEFINE twins == {a \in pairs : d.parent[a[1]] = d.parent[b[1]]}
               T == {Index(d, a[1]) : a \in twins}
    <3>2. T \in SUBSET Nat /\ T # {}
      BY <1>5, <3>1
    <3>3. PICK k \in T : \A j \in T : k <= j
      BY ONLY <3>2, LeastOf
    <3>4. PICK a \in twins : Index(d, a[1]) = k
      BY <3>3
    <3>5. First(a)
      BY <3>3, <3>4
    <3> QED
      BY <3>4, <3>5
  <2>2. c \in pairs
    <3> HIDE DEF First
    <3> QED
      BY <2>1
  <2> HIDE DEF c, First
  <2>3. /\ c[1] \in Node /\ c[2] \in Node /\ d.parent[c[2]] # Nil
    <3>1. d.parent[c[1]] \in Node /\ NextOf(d, c[1]) = c[2] /\ c[1] \in Node /\ c[2] \in Node
      BY <1>4, <2>2
    <3>2. d.parent[c[2]] = d.parent[c[1]]
      BY <1>2, <3>1, NextIs, NilAssumption
    <3> QED
      BY <3>1, <3>2, NilAssumption
  <2> DEFINE m == [st.len EXCEPT ![c[1]] = @ + st.len[c[2]]]
  <2>4. m \in [Node -> Nat] /\ \A y \in Node : st.len[y] <= m[y]
    BY <1>2, <2>3
  <2> HIDE DEF m
  <2>5. Sound(d, m, st.range, spare)
    <3>1. st.range \in Ranges(Points(d, m, spare))
      BY <1>2, <2>4, GrownText
    <3> QED
      BY <2>4, <3>1 DEF Sound
  <2>6. Sound(Removed(d, c[2]), m, OnRemoval(d, st.range, c[2]), spare)
    BY <2>3, <2>5, SoundRemoved
  <2>7. u.dom = Removed(d, c[2]) /\ u.len = m /\ u.range = OnRemoval(d, st.range, c[2])
    BY DEF m
  <2> QED
    BY <1>1, <1>6, <2>6, <2>7
<1> QED
  BY <1>1, <1>6

\* A function defined by a recursion over 0 .. n exists.
LEMMA MergesExist ==
  ASSUME NEW n \in Nat, NEW s0, NEW p
  PROVE  \E g : g = [k \in 0 .. n |-> IF k = 0 THEN s0 ELSE MergeNext(g[k - 1], p)]
<1> DEFINE Is(g, m) == g = [k \in 0 .. m |-> IF k = 0 THEN s0 ELSE MergeNext(g[k - 1], p)]
           T == {m \in 0 .. n : ~ \E g : Is(g, m)}
<1> HIDE DEF Is
<1>1. SUFFICES ASSUME T # {} PROVE FALSE
  <2>1. SUFFICES \E g : Is(g, n)
    BY DEF Is
  <2>2. n \in 0 .. n /\ n \notin T
    OBVIOUS
  <2> QED
    BY <2>2
<1>2. PICK m \in T : \A j \in T : m <= j
  <2>1. T \in SUBSET Nat
    OBVIOUS
  <2> HIDE DEF T
  <2> QED
    BY <1>1, <2>1, LeastOf
<1>3. m # 0
  <2>1. Is([k \in 0 .. 0 |-> s0], 0)
    BY DEF Is
  <2> QED
    BY <1>2, <2>1
<1>4. m \in 1 .. n /\ m - 1 \in 0 .. n /\ m - 1 \notin T
  <2>1. m \in 0 .. n
    OBVIOUS
  <2>2. m - 1 \in 0 .. n /\ m \in 1 .. n /\ ~(m <= m - 1)
    BY <1>3, <2>1
  <2> HIDE DEF T
  <2> QED
    BY <1>2, <2>2
<1>5. PICK g : Is(g, m - 1)
  BY <1>4
<1> USE DEF Is
<1> DEFINE h == [k \in 0 .. m |-> IF k = m THEN MergeNext(g[m - 1], p) ELSE g[k]]
<1>6. \A k \in 0 .. m - 1 : h[k] = g[k]
  BY <1>4
<1>7. ASSUME NEW k \in 0 .. m
      PROVE  h[k] = IF k = 0 THEN s0 ELSE MergeNext(h[k - 1], p)
  <2>1. CASE k = m
    <3>1. h[k] = MergeNext(g[m - 1], p) /\ h[m - 1] = g[m - 1]
      BY <1>4, <1>6, <2>1
    <3> QED
      BY <1>3, <2>1, <3>1
  <2>2. CASE k # m
    <3>1. k \in 0 .. m - 1 /\ h[k] = g[k] /\ (k # 0 => k - 1 \in 0 .. m - 1 /\ h[k - 1] = g[k - 1])
      BY <1>4, <1>6, <2>2
    <3>2. g[k] = IF k = 0 THEN s0 ELSE MergeNext(g[k - 1], p)
      BY <1>5, <3>1
    <3> QED
      BY <3>1, <3>2
  <2> QED
    BY <2>1, <2>2
<1>8. h = [k \in 0 .. m |-> h[k]]
  OBVIOUS
<1> HIDE DEF h
<1>9. Is(h, m)
  BY <1>7, <1>8
<1> QED
  BY <1>2, <1>9

\* Between two calls the state is sound if the tree, the texts and the ranges are.
LEMMA BetweenCalls ==
  ASSUME call' = Idle, Sound(dom', len', range', spare')
  PROVE  RangeInv'
<1>1. TypeOK' /\ ParentChildAgree' /\ Acyclic'
  BY DEF Sound, TypeOK, ParentChildAgree, Acyclic
<1>2. CallSound'
  BY DEF CallSound
<1> QED
  BY <1>1, <1>2 DEF RangeInv, TreeInv

\* normalize: as many merges as it takes, each of which keeps the points.
LEMMA NormalizeKeeps ==
  ASSUME RangeInv, NEW p \in Node, Normalize(p)
  PROVE  RangeInv'
<1> DEFINE N == Cardinality(Node)
           s0 == [dom |-> dom, len |-> len, range |-> range]
           Is(g) == g = [k \in 0 .. N |-> IF k = 0 THEN s0 ELSE MergeNext(g[k - 1], p)]
           merged == CHOOSE g : Is(g)
           Kept(st) == Sound(st.dom, st.len, st.range, spare)
<1>1. N \in Nat
  BY RangeAssumption, FS_CardinalityType
<1>2. /\ dom' = merged[N].dom /\ len' = merged[N].len /\ range' = merged[N].range
      /\ call' = Idle /\ spare' = spare
  BY DEF Normalize, Is, merged
<1>3. Kept(s0)
  BY DEF RangeInv
<1> HIDE DEF N, s0
<1>4. Is(merged)
  BY <1>1, MergesExist DEF Is
<1> HIDE DEF merged
<1>5. merged[0] = s0 /\ \A k \in 0 .. N : k # 0 => merged[k] = MergeNext(merged[k - 1], p)
  BY <1>1, <1>4
<1> HIDE DEF Is
<1>6. \A st : Kept(st) => Kept(MergeNext(st, p))
  BY MergeKeeps
<1> HIDE DEF Kept
<1> DEFINE T == {k \in 0 .. N : ~Kept(merged[k])}
<1>7. T = {}
  <2> SUFFICES ASSUME T # {} PROVE FALSE
    OBVIOUS
  <2>1. T \in SUBSET Nat
    OBVIOUS
  <2> HIDE DEF T
  <2>2. PICK k \in T : \A j \in T : k <= j
    BY <2>1, LeastOf
  <2>3. k \in 0 .. N /\ ~Kept(merged[k])
    BY DEF T
  <2>4. k # 0
    BY <1>3, <1>5, <2>3
  <2>5. k - 1 \in 0 .. N /\ ~(k <= k - 1)
    BY <1>1, <2>3, <2>4
  <2>6. Kept(merged[k - 1])
    BY <2>2, <2>5 DEF T
  <2> QED
    BY <1>5, <1>6, <2>3, <2>4, <2>6
<1>8. Kept(merged[N])
  <2>1. N \in 0 .. N
    BY <1>1
  <2> QED
    BY <1>7, <2>1
<1>9. Sound(dom', len', range', spare')
  BY <1>2, <1>8 DEF Kept
<1> QED
  BY <1>2, <1>9, BetweenCalls
-----------------------------------------------------------------------------
(* Children and their parents *)

\* A node that no container in the tree is above is not the container's parent.
LEMMA ParentIsAbove ==
  ASSUME NEW d \in Doms, NEW x \in Node, NEW n, ~IsAncestorOf(d, n, x)
  PROVE  n # x /\ (d.parent[x] # Nil => n # d.parent[x])
<1>1. x \in Path(d, x) /\ Path(d, d.parent[x]) \subseteq Path(d, x)
  BY PathStep
<1>2. d.parent[x] # Nil => d.parent[x] \in Path(d, d.parent[x])
  <2> SUFFICES ASSUME d.parent[x] # Nil PROVE d.parent[x] \in Path(d, d.parent[x])
    OBVIOUS
  <2> DEFINE q == d.parent[x]
  <2>1. q \in Node
    BY DEF Doms, NodeOrNil
  <2> HIDE DEF q
  <2>2. q \in Path(d, q)
    BY <2>1, PathStep
  <2> QED
    BY <2>2 DEF q
<1> QED
  BY <1>1, <1>2 DEF IsAncestorOf

\* The node setStartBefore is called with has a parent.
LEMMA ValidSiblingIsChild ==
  ASSUME NEW x \in Node, dom \in Doms, ValidSibling(x) PROVE dom.parent[x] # Nil
<1> SUFFICES ASSUME dom.parent[x] = Nil PROVE FALSE
  OBVIOUS
<1>1. Path(dom, x) = {x}
  BY PathStep
<1>2. Root(dom, x) = x
  BY <1>1 DEF Root
<1> QED
  BY <1>2 DEF ValidSibling
-----------------------------------------------------------------------------
(* The calls on character data *)

LEMMA EditableIs ==
  ASSUME RangeInv, NEW x \in Node, Editable(x)
  PROVE  /\ dom \in Doms /\ len \in [Node -> Nat] /\ IsChars(x) /\ x \notin spare
         /\ range \in Ranges(Points(dom, len, spare)) /\ call = Idle
BY DEF RangeInv, Sound, Editable

\* An edit of the texts alone.
LEMMA TextEdited ==
  ASSUME RangeInv, call' = Idle, dom' = dom, spare' = spare,
         len' \in [Node -> Nat], range' \in Ranges(Points(dom, len', spare)),
         SplitFreely \/ Ordered(dom, range')
  PROVE  RangeInv'
BY BetweenCalls DEF RangeInv, Sound

LEMMA DeletableIs ==
  ASSUME NEW x \in Node, len[x] \in Nat, NEW offset \in Nat, NEW count \in Nat, offset <= len[x]
  PROVE  Deletable(x, offset, count) \in Nat /\ offset + Deletable(x, offset, count) <= len[x]
BY DEF Deletable

LEMMA TextStepKeeps ==
  ASSUME RangeInv, TextStep
  PROVE  RangeInv'
<1>1. PICK x \in Node, j \in 0 .. MaxLen, k \in 0 .. MaxLen :
         \/ SetNodeValue(x, j)
         \/ AppendData(x, j)
         \/ DeleteData(x, j, k)
         \/ InsertData(x, j, k)
         \/ \E m \in 0 .. MaxLen : ReplaceData(x, j, k, m)
         \/ SplitText(x, j)
  BY DEF TextStep
<1>2. j \in Nat /\ k \in Nat
  BY RangeAssumption
<1>3. Editable(x)
  BY <1>1 DEF SetNodeValue, AppendData, DeleteData, InsertData, ReplaceData, SplitText, CanSplit
<1>4. /\ dom \in Doms /\ len \in [Node -> Nat] /\ IsChars(x) /\ x \notin spare
      /\ range \in Ranges(Points(dom, len, spare)) /\ call = Idle /\ len[x] \in Nat
      /\ Linked(dom) /\ NoCycle(dom) /\ Shaped(dom) /\ (SplitFreely \/ Ordered(dom, range))
  BY <1>3, EditableIs DEF RangeInv, Sound
<1>5. CASE SetNodeValue(x, j)
  <2>1. /\ len' = [len EXCEPT ![x] = j] /\ dom' = dom /\ call' = Idle /\ spare' = spare
        /\ range' = FixBoth(range, LAMBDA P : AfterReplacedText(P, x))
    BY <1>4, <1>5 DEF SetNodeValue
  <2>2. range' \in Ranges(Points(dom, len', spare))
    BY <1>2, <1>4, <2>1, ReplacedText
  <2>3. len' \in [Node -> Nat]
    BY <1>2, <1>4, <2>1
  <2>4. SplitFreely \/ Ordered(dom, range')
    BY <1>2, <1>4, <2>1, <2>2, <2>3, TextKeepsOrdered
  <2> QED
    BY <2>1, <2>2, <2>3, <2>4, TextEdited
<1>6. CASE AppendData(x, j)
  <2>1. /\ len' = [len EXCEPT ![x] = @ + j] /\ dom' = dom /\ call' = Idle /\ spare' = spare
        /\ range' = range
    BY <1>4, <1>6 DEF AppendData
  <2>2. len' \in [Node -> Nat] /\ \A y \in Node : len[y] <= len'[y]
    BY <1>2, <1>4, <2>1
  <2>3. range' \in Ranges(Points(dom, len', spare))
    <3>1. Ranges(Points(dom, len, spare)) \subseteq Ranges(Points(dom, len', spare))
      BY ONLY <1>4, <2>2, GrownText
    <3> QED
      BY <1>4, <2>1, <3>1
  <2> QED
    BY <1>4, <2>1, <2>2, <2>3, TextEdited
<1>7. CASE DeleteData(x, j, k)
  <2> DEFINE c == Deletable(x, j, k)
  <2>1. /\ len' = [len EXCEPT ![x] = @ - c] /\ dom' = dom /\ call' = Idle /\ spare' = spare
        /\ range' = OnDeletedText(range, x, j, c) /\ j <= len[x]
    BY <1>4, <1>7 DEF DeleteData
  <2>2. c \in Nat /\ j + c <= len[x]
    BY <1>2, <1>4, <2>1, DeletableIs
  <2> HIDE DEF c
  <2>3. len' \in [Node -> Nat] /\ range' \in Ranges(Points(dom, len', spare))
    BY <1>2, <1>4, <2>1, <2>2, DeletedText
  <2>4. SplitFreely \/ Ordered(dom, range')
    BY <1>2, <1>4, <2>1, <2>2, <2>3, DeletedKeepsOrdered
  <2> QED
    BY <2>1, <2>3, <2>4, TextEdited
<1>8. CASE InsertData(x, j, k)
  <2>1. /\ len' = [len EXCEPT ![x] = @ + k] /\ dom' = dom /\ call' = Idle /\ spare' = spare
        /\ range' = OnInsertedText(range, x, j, k) /\ j <= len[x]
    BY <1>4, <1>8 DEF InsertData
  <2>2. len' \in [Node -> Nat] /\ range' \in Ranges(Points(dom, len', spare))
    BY <1>2, <1>4, <2>1, InsertedText
  <2>3. SplitFreely \/ Ordered(dom, range')
    BY <1>2, <1>4, <2>1, <2>2, InsertedKeepsOrdered
  <2> QED
    BY <2>1, <2>2, <2>3, TextEdited
<1>9. ASSUME NEW m \in 0 .. MaxLen, ReplaceData(x, j, k, m) PROVE RangeInv'
  <2> DEFINE c == Deletable(x, j, k)
             l == [len EXCEPT ![x] = @ - c]
             t == OnDeletedText(range, x, j, c)
  <2>1. /\ len' = [len EXCEPT ![x] = @ - c + m] /\ dom' = dom /\ call' = Idle /\ spare' = spare
        /\ range' = OnInsertedText(t, x, j, m) /\ j <= len[x] /\ m \in Nat
    BY <1>4, <1>9, RangeAssumption DEF ReplaceData
  <2>2. c \in Nat /\ j + c <= len[x]
    BY <1>2, <1>4, <2>1, DeletableIs
  <2> HIDE DEF c
  <2>3. l \in [Node -> Nat] /\ t \in Ranges(Points(dom, l, spare))
    BY ONLY <1>2, <1>4, <2>2, DeletedText, x \in Node
  <2>10. SplitFreely \/ Ordered(dom, t)
    <3> HIDE DEF l
    <3>1. t = OnDeletedText(range, x, j, c)
      OBVIOUS
    <3> HIDE DEF t
    <3> QED
      BY <1>2, <1>4, <2>2, <2>3, <3>1, DeletedKeepsOrdered
  <2>4. l[x] = len[x] - c /\ len' = [l EXCEPT ![x] = @ + m] /\ j <= l[x]
    <3>1. l[x] = len[x] - c /\ j <= l[x]
      BY <1>2, <1>4, <2>2
    <3>2. len' = [len EXCEPT ![x] = l[x] + m] /\ [l EXCEPT ![x] = @ + m] = [len EXCEPT ![x] = l[x] + m]
      BY <2>1, <3>1
    <3> QED
      BY <3>1, <3>2
  <2> HIDE DEF l, t
  <2>5. len' \in [Node -> Nat] /\ range' \in Ranges(Points(dom, len', spare))
    <3>1. /\ dom \in Doms /\ l \in [Node -> Nat] /\ t \in Ranges(Points(dom, l, spare))
          /\ IsChars(x) /\ x \notin spare /\ j \in Nat /\ m \in Nat /\ j <= l[x]
      BY <1>2, <1>4, <2>1, <2>3, <2>4
    <3>2. LET e == [l EXCEPT ![x] = @ + m]
          IN  e \in [Node -> Nat] /\ OnInsertedText(t, x, j, m) \in Ranges(Points(dom, e, spare))
      BY ONLY <3>1, x \in Node, InsertedText
    <3> QED
      BY <2>1, <2>4, <3>2
  <2>6. SplitFreely \/ Ordered(dom, range')
    BY <1>2, <1>4, <2>1, <2>3, <2>5, <2>10, InsertedKeepsOrdered
  <2> QED
    BY <2>1, <2>5, <2>6, TextEdited
<1>10. CASE SplitText(x, j)
  <2>1. PICK new \in {s \in spare : Kind[s] = Kind[x]} :
          /\ dom' = SplitTree(x, new) /\ len' = SplitLen(x, new, j)
          /\ range' = SplitRange(x, new, j) /\ spare' = spare \ {new}
    BY <1>10 DEF SplitText
  <2>2. call' = Idle /\ j <= len[x] /\ (SplitHarmless(x, j) \/ SplitFreely)
    BY <1>4, <1>10 DEF SplitText, CanSplit
  <2>3. Sound(dom', len', range', spare')
    BY <1>2, <1>4, <2>1, <2>2, SplitKeeps DEF RangeInv
  <2> QED
    BY <2>2, <2>3, BetweenCalls
<1> QED
  BY <1>1, <1>5, <1>6, <1>7, <1>8, <1>9, <1>10
-----------------------------------------------------------------------------
(* The ranges' own operations *)

LEMMA ChangeKeeps ==
  ASSUME RangeInv, NEW i \in RangeId, NEW rg, Sets(i, rg),
         LET A == Points(dom, len, spare) IN rg \in [start : A, end : A] \cup {NotRegistered},
         rg = NotRegistered \/ SplitFreely \/ NotAfter(dom, rg.start, rg.end)
  PROVE  RangeInv'
<1> DEFINE A == Points(dom, len, spare)
<1>1. range \in Ranges(A) /\ len \in [Node -> Nat] /\ (SplitFreely \/ Ordered(dom, range))
  BY DEF RangeInv, Sound
<1>2. /\ range' = [range EXCEPT ![i] = rg] /\ dom' = dom /\ len' = len /\ spare' = spare
      /\ call' = Idle
  BY DEF Sets
<1> HIDE DEF A
<1>3. range' \in Ranges(A)
  BY <1>1, <1>2 DEF A, Ranges
<1>4. SplitFreely \/ Ordered(dom, range')
  <2> SUFFICES ASSUME ~SplitFreely, NEW j \in Live(range')
               PROVE  NotAfter(dom, range'[j].start, range'[j].end)
    BY DEF Ordered
  <2>1. range' = [k \in RangeId |-> IF k = i THEN rg ELSE range[k]]
    BY <1>1, <1>2 DEF Ranges
  <2>2. j \in RangeId /\ range'[j] # NotRegistered /\ range'[j] = IF j = i THEN rg ELSE range[j]
    BY <2>1 DEF Live
  <2> QED
    BY <1>1, <2>2 DEF Ordered, Live
<1> QED
  BY <1>1, <1>2, <1>3, <1>4, TextEdited DEF A

\* Both ends of what setStart and setEnd leave are where they were or at P.
LEMMA WithIs ==
  ASSUME NEW A, NEW P \in A, NEW rg \in [start : A, end : A]
  PROVE  WithStart(rg, P) \in [start : A, end : A] /\ WithEnd(rg, P) \in [start : A, end : A]
<1>1. [start |-> P, end |-> P] \in [start : A, end : A]
  OBVIOUS
<1>2. [rg EXCEPT !.start = P] \in [start : A, end : A]
      /\ [rg EXCEPT !.end = P] \in [start : A, end : A]
  OBVIOUS
<1> QED
  BY <1>1, <1>2 DEF WithStart, WithEnd

\* setStart and setEnd collapse a range that would start after its end.
LEMMA WithOrdered ==
  ASSUME dom \in Doms, Linked(dom), NoCycle(dom), NEW l \in [Node -> Nat], NEW sp,
         NEW P \in Points(dom, l, sp),
         NEW rg \in [start : Points(dom, l, sp), end : Points(dom, l, sp)],
         NotAfter(dom, rg.start, rg.end)
  PROVE  \A rh \in {WithStart(rg, P), WithEnd(rg, P),
                    [rg EXCEPT !.end = rg.start], [rg EXCEPT !.start = rg.end]} :
            NotAfter(dom, rh.start, rh.end)
<1>1. \A Q \in Points(dom, l, sp) : IsPoint(Q)
  BY PointIs DEF IsPoint
<1>2. IsPoint(P) /\ IsPoint(rg.start) /\ IsPoint(rg.end)
  BY <1>1
<1>3. \A Q : IsPoint(Q) => NotAfter(dom, Q, Q)
  <2> TAKE Q
  <2> HAVE IsPoint(Q)
  <2>1. Q[1] \in Node /\ Q[2] \in Nat /\ Q = <<Q[1], Q[2]>> /\ Q[2] <= Q[2]
    BY DEF IsPoint
  <2> QED
    BY <2>1, NotAfterWithin
<1>4. \A A, B : IsPoint(A) /\ IsPoint(B) /\ Root(dom, A[1]) = Root(dom, B[1])
                /\ Compared(dom, A, B) # 1 => NotAfter(dom, A, B)
  <2> TAKE A, B
  <2> HAVE IsPoint(A) /\ IsPoint(B) /\ Root(dom, A[1]) = Root(dom, B[1]) /\ Compared(dom, A, B) # 1
  <2>1. Path(dom, A[1]) \cap Path(dom, B[1]) # {}
    BY SameRoot DEF IsPoint
  <2> QED
    BY <2>1, ComparedOrders, RangeAssumption
<1>5. /\ [rg EXCEPT !.start = P] = [start |-> P, end |-> rg.end]
      /\ [rg EXCEPT !.end = P] = [start |-> rg.start, end |-> P]
      /\ [rg EXCEPT !.end = rg.start] = [start |-> rg.start, end |-> rg.start]
      /\ [rg EXCEPT !.start = rg.end] = [start |-> rg.end, end |-> rg.end]
  OBVIOUS
<1>6. NotAfter(dom, WithStart(rg, P).start, WithStart(rg, P).end)
  <2>1. CASE Root(dom, P[1]) # Root(dom, rg.end[1]) \/ Compared(dom, P, rg.end) = 1
    <3>1. WithStart(rg, P) = [start |-> P, end |-> P]
      BY <2>1 DEF WithStart
    <3> QED
      BY <1>2, <1>3, <3>1
  <2>2. CASE ~(Root(dom, P[1]) # Root(dom, rg.end[1]) \/ Compared(dom, P, rg.end) = 1)
    <3>1. WithStart(rg, P) = [start |-> P, end |-> rg.end]
      BY <1>5, <2>2 DEF WithStart
    <3> QED
      BY <1>2, <1>4, <2>2, <3>1
  <2> QED
    BY <2>1, <2>2
<1>7. NotAfter(dom, WithEnd(rg, P).start, WithEnd(rg, P).end)
  <2>1. CASE Root(dom, P[1]) # Root(dom, rg.start[1]) \/ Compared(dom, rg.start, P) = 1
    <3>1. WithEnd(rg, P) = [start |-> P, end |-> P]
      BY <2>1 DEF WithEnd
    <3> QED
      BY <1>2, <1>3, <3>1
  <2>2. CASE ~(Root(dom, P[1]) # Root(dom, rg.start[1]) \/ Compared(dom, rg.start, P) = 1)
    <3>1. WithEnd(rg, P) = [start |-> rg.start, end |-> P]
      BY <1>5, <2>2 DEF WithEnd
    <3> QED
      BY <1>2, <1>4, <2>2, <3>1
  <2> QED
    BY <2>1, <2>2
<1> QED
  BY <1>2, <1>3, <1>5, <1>6, <1>7

\* The points right in front of a child and right behind it.
LEMMA BesideIs ==
  ASSUME NEW d \in Doms, Linked(d), Shaped(d), NEW l \in [Node -> Nat],
         NEW sp, \A y \in sp : IsChars(y), NEW x \in Node, d.parent[x] # Nil
  PROVE  /\ <<d.parent[x], Index(d, x)>> \in Points(d, l, sp)
         /\ \A k \in {0, 1} : <<d.parent[x], Index(d, x) + k>> \in Points(d, l, sp)
<1> DEFINE q == d.parent[x]
           o == Index(d, x)
<1>1. q \in Node /\ ~IsChars(q) /\ q \notin sp /\ o \in Nat /\ o < Len(d.kids[q])
      /\ d.kids[q] \in Seq(Node)
  BY ChildIs DEF Shaped
<1> HIDE DEF q, o
<1>2. ASSUME NEW j \in Nat, j <= o + 1 PROVE <<q, j>> \in Points(d, l, sp)
  <2>1. j <= Units(d, l, q)
    BY <1>1, <1>2 DEF Units
  <2> QED
    BY <1>1, <2>1, PointIs
<1>3. <<q, o>> \in Points(d, l, sp) /\ \A k \in {0, 1} : <<q, o + k>> \in Points(d, l, sp)
  BY <1>1, <1>2
<1> QED
  BY <1>3 DEF q, o

LEMMA SetterKeeps ==
  ASSUME RangeInv, NEW i \in RangeId, NEW x \in Node,
         \/ \E offset \in 0 .. Units(dom, len, x) : SetStart(i, x, offset) \/ SetEnd(i, x, offset)
         \/ \E k \in {0, 1} : SetStartBeside(i, x, k) \/ SetEndBeside(i, x, k)
  PROVE  RangeInv'
<1> DEFINE A == Points(dom, len, spare)
<1>1. /\ dom \in Doms /\ Linked(dom) /\ NoCycle(dom) /\ Shaped(dom) /\ len \in [Node -> Nat]
      /\ spare \in SUBSET {y \in Node : IsChars(y)} /\ range \in Ranges(A)
      /\ SplitFreely \/ Ordered(dom, range)
  BY DEF RangeInv, Sound
<1>2. ASSUME NEW P \in A, i \in Live(range),
             \/ Sets(i, WithStart(range[i], P)) \/ Sets(i, WithEnd(range[i], P))
             \/ Sets(i, [range[i] EXCEPT !.end = range[i].start])
             \/ Sets(i, [range[i] EXCEPT !.start = range[i].end])
      PROVE  RangeInv'
  <2> HIDE DEF A
  <2>1. range[i] \in [start : A, end : A]
    BY <1>1, <1>2, LiveIs
  <2>2. /\ WithStart(range[i], P) \in [start : A, end : A]
        /\ WithEnd(range[i], P) \in [start : A, end : A]
    BY <2>1, WithIs
  <2>3. /\ [range[i] EXCEPT !.end = range[i].start] \in [start : A, end : A]
        /\ [range[i] EXCEPT !.start = range[i].end] \in [start : A, end : A]
    BY <2>1
  <2> DEFINE S == {WithStart(range[i], P), WithEnd(range[i], P),
                   [range[i] EXCEPT !.end = range[i].start], [range[i] EXCEPT !.start = range[i].end]}
  <2>4. ~SplitFreely => \A rg \in S : NotAfter(dom, rg.start, rg.end)
    <3> SUFFICES ASSUME ~SplitFreely PROVE \A rg \in S : NotAfter(dom, rg.start, rg.end)
      OBVIOUS
    <3>1. NotAfter(dom, range[i].start, range[i].end)
      BY <1>1, <1>2 DEF Ordered
    <3> QED
      BY <1>1, <2>1, <3>1, WithOrdered DEF A
  <2>5. S \subseteq [start : A, end : A]
    BY <2>2, <2>3
  <2>6. PICK rg \in S : Sets(i, rg)
    BY <1>2
  <2> HIDE DEF S
  <2>7. RangeInv'
    BY <2>4, <2>5, <2>6, ChangeKeeps DEF A
  <2> QED
    BY <2>7
<1>3. ASSUME NEW offset \in 0 .. Units(dom, len, x), SetStart(i, x, offset) \/ SetEnd(i, x, offset)
      PROVE  RangeInv'
  <2>1. x \notin spare /\ i \in Live(range)
    BY <1>3 DEF SetStart, SetEnd
  <2>2. <<x, offset>> \in A
    BY <1>1, <2>1, PointIs
  <2> HIDE DEF A
  <2>3. \/ Sets(i, WithStart(range[i], <<x, offset>>)) \/ Sets(i, WithEnd(range[i], <<x, offset>>))
        \/ Sets(i, [range[i] EXCEPT !.end = range[i].start])
        \/ Sets(i, [range[i] EXCEPT !.start = range[i].end])
    BY <1>3 DEF SetStart, SetEnd
  <2> QED
    BY <1>2, <2>1, <2>2, <2>3
<1>4. ASSUME NEW k \in {0, 1}, SetStartBeside(i, x, k) \/ SetEndBeside(i, x, k)
      PROVE  RangeInv'
  <2> DEFINE P == <<dom.parent[x], Index(dom, x) + k>>
  <2>1. i \in Live(range) /\ ValidSibling(x)
    BY <1>4 DEF SetStartBeside, SetEndBeside
  <2>2. dom.parent[x] # Nil
    BY <1>1, <2>1, ValidSiblingIsChild
  <2>3. P \in A
    BY <1>1, <2>2, BesideIs
  <2> HIDE DEF A
  <2>4. \/ Sets(i, WithStart(range[i], P)) \/ Sets(i, WithEnd(range[i], P))
        \/ Sets(i, [range[i] EXCEPT !.end = range[i].start])
        \/ Sets(i, [range[i] EXCEPT !.start = range[i].end])
    BY <1>4 DEF SetStartBeside, SetEndBeside
  <2> HIDE DEF P
  <2> QED
    BY <1>2, <2>1, <2>3, <2>4
<1> QED
  BY <1>3, <1>4

LEMMA SelectionKeeps ==
  ASSUME RangeInv, NEW i \in RangeId, NEW x \in Node,
         SelectNode(i, x) \/ SelectNodeContents(i, x)
  PROVE  RangeInv'
<1> DEFINE A == Points(dom, len, spare)
<1>1. /\ dom \in Doms /\ Linked(dom) /\ NoCycle(dom) /\ Shaped(dom) /\ len \in [Node -> Nat]
      /\ spare \in SUBSET {y \in Node : IsChars(y)} /\ range \in Ranges(A)
  BY DEF RangeInv, Sound
<1>2. ASSUME NEW y \in Node, NEW j \in Nat, NEW k \in Nat, j <= k, <<y, j>> \in A, <<y, k>> \in A,
             Sets(i, [start |-> <<y, j>>, end |-> <<y, k>>])
      PROVE  RangeInv'
  <2>1. NotAfter(dom, <<y, j>>, <<y, k>>)
    BY <1>1, <1>2, NotAfterWithin
  <2> QED
    BY <1>2, <2>1, ChangeKeeps
<1>3. x \notin spare
  BY DEF SelectNode, SelectNodeContents
<1>4. Units(dom, len, x) \in Nat /\ (IsChars(x) => Units(dom, len, x) = len[x])
  BY <1>1, PointIs DEF Units
<1>5. <<x, 0>> \in A /\ <<x, Units(dom, len, x)>> \in A
  BY <1>1, <1>3, <1>4, PointIs
<1>6. CASE SelectNodeContents(i, x)
  <2> DEFINE k == Units(dom, len, x)
  <2>1. k \in Nat /\ 0 <= k /\ 0 \in Nat
    BY <1>4
  <2>2. Sets(i, [start |-> <<x, 0>>, end |-> <<x, k>>])
    BY <1>6 DEF SelectNodeContents
  <2>3. <<x, 0>> \in A /\ <<x, k>> \in A
    BY <1>5
  <2> HIDE DEF A, k
  <2> QED
    BY <1>2, <2>1, <2>2, <2>3
<1>7. CASE SelectNode(i, x)
  <2>1. CASE IsChars(x)
    <3> HIDE DEF A
    <3> QED
      BY <1>2, <1>4, <1>5, <1>7, <2>1 DEF SelectNode
  <2>2. CASE ~IsChars(x)
    <3>1. dom.parent[x] # Nil
      BY <1>7, <2>2 DEF SelectNode
    <3>2. /\ <<dom.parent[x], Index(dom, x)>> \in A
          /\ <<dom.parent[x], Index(dom, x) + 1>> \in A
          /\ dom.parent[x] \in Node /\ Index(dom, x) \in Nat
      BY <1>1, <3>1, BesideIs, ChildIs
    <3> HIDE DEF A
    <3> QED
      BY <1>2, <1>7, <2>2, <3>2 DEF SelectNode
  <2> QED
    BY <2>1, <2>2
<1> QED
  BY <1>6, <1>7

LEMMA OwnStepKeeps ==
  ASSUME RangeInv, NEW i \in RangeId,
         CreateRange(i) \/ DetachRange(i) \/ Collapse(i, TRUE) \/ Collapse(i, FALSE)
  PROVE  RangeInv'
<1> DEFINE A == Points(dom, len, spare)
<1>1. /\ dom \in Doms /\ NoCycle(dom) /\ len \in [Node -> Nat] /\ range \in Ranges(A)
      /\ spare \in SUBSET {y \in Node : IsChars(y)}
  BY DEF RangeInv, Sound
<1>2. ASSUME NEW P \in A, Sets(i, [start |-> P, end |-> P]) PROVE RangeInv'
  <2>1. P[1] \in Node /\ P[2] \in Nat /\ P = <<P[1], P[2]>> /\ P[2] <= P[2]
    BY <1>1, PointIs
  <2>2. NotAfter(dom, P, P)
    BY <1>1, <2>1, NotAfterWithin
  <2> QED
    BY <1>2, <2>2, ChangeKeeps
<1>3. CASE CreateRange(i)
  <2>1. Document \in Node /\ Document \notin spare
    BY <1>1, TreeAssumption DEF IsChars, CharKinds
  <2>2. <<Document, 0>> \in A
    BY <1>1, <2>1, PointIs
  <2> HIDE DEF A
  <2> QED
    BY <1>2, <1>3, <2>2 DEF CreateRange, Sets
<1>4. CASE DetachRange(i)
  BY <1>4, ChangeKeeps DEF DetachRange, Sets
<1>5. ASSUME NEW b \in BOOLEAN, Collapse(i, b) PROVE RangeInv'
  <2> HIDE DEF A
  <2>1. range[i].start \in A /\ range[i].end \in A
    BY <1>1, <1>5, LiveIs DEF Collapse
  <2> DEFINE P == IF b THEN range[i].start ELSE range[i].end
  <2>2. P \in A
    BY <2>1
  <2>3. Sets(i, [start |-> P, end |-> P])
    BY <1>5 DEF Collapse
  <2> HIDE DEF P
  <2> QED
    BY <1>2, <2>2, <2>3
<1> QED
  BY <1>3, <1>4, <1>5

LEMMA InsertKeeps ==
  ASSUME "selfInsert" \notin Unguarded, RangeInv, NEW p \in Node, NEW n \in Node, n \notin spare,
         NEW r \in NodeOrNil, UNCHANGED <<len, spare>>,
         \/ InsertNode(p, n, r) /\ range' = OnMove(dom, dom', range, n, r)
         \/ InsertFragment(p, n, r) /\ UNCHANGED range
  PROVE  RangeInv'
<1>1. TreeInv'
  BY TreeInvStep DEF Next, RangeInv
<1>2. len' = len /\ spare' = spare /\ Sound(dom, len, range, spare)
  BY DEF RangeInv
<1>3. CASE InsertNode(p, n, r) /\ range' = OnMove(dom, dom', range, n, r)
  <2>1. /\ n # p /\ Kind[n] # "fragment" /\ InsertAllowed(dom, p, n, r)
        /\ dom' = Inserted(dom, p, n, r)
    BY <1>3 DEF InsertNode, CallExpected
  <2>2. Sound(dom', len, range', spare)
    BY <1>2, <1>3, <2>1, SoundInserted
  <2> QED
    BY <1>1, <1>2, <2>2 DEF RangeInv
<1>4. CASE InsertFragment(p, n, r) /\ UNCHANGED range
  <2>1. dom' = dom /\ range' = range
    BY <1>4 DEF InsertFragment, StartFragment
  <2> QED
    BY <1>1, <1>2, <2>1 DEF RangeInv
<1> QED
  BY <1>3, <1>4

\* insertNode splits the text before it can be refused.
LEMMA InsertInTextKeeps ==
  ASSUME RangeInv, NEW i \in RangeId, NEW n \in Node, n \notin spare, call = Idle,
         i \in Live(range), ~IsAncestorOf(dom, n, range[i].start[1]), InsertInText(i, n)
  PROVE  RangeInv'
<1> DEFINE x == range[i].start[1]
           o == range[i].start[2]
           p == dom.parent[x]
<1>1. /\ TypeOK /\ dom \in Doms /\ len \in [Node -> Nat] /\ Sound(dom, len, range, spare)
      /\ range \in Ranges(Points(dom, len, spare))
  BY DEF RangeInv, TreeInv, Sound
<1>2. x \in Node /\ x \notin spare /\ o \in Nat
  <2>1. range[i].start \in Points(dom, len, spare)
    BY <1>1, LiveIs
  <2> QED
    BY <1>1, <2>1, PointIs
<1>3. /\ IsChars(x) /\ o <= len[x] /\ (SplitHarmless(x, o) \/ SplitFreely)
  BY DEF InsertInText, CanSplit
<1>4. PICK new \in {s \in spare : Kind[s] = Kind[x]} :
        LET d == SplitTree(x, new)
            t == SplitRange(x, new, o)
        IN  /\ len' = SplitLen(x, new, o)
            /\ spare' = spare \ {new}
            /\ IF p # Nil /\ InsertAllowed(d, p, n, new)
               THEN IF Kind[n] = "fragment"
                    THEN StartFragment(d, p, n, new, Nil) /\ range' = t
                    ELSE /\ dom' = Inserted(d, p, n, new)
                         /\ range' = OnMove(d, dom', t, n, new)
                         /\ UNCHANGED call
               ELSE dom' = d /\ range' = t /\ UNCHANGED call
  BY DEF InsertInText
<1>5. p # Nil => p \in Node /\ n # p
  BY <1>1, <1>2, ParentIsAbove DEF Doms, NodeOrNil
<1> DEFINE d == SplitTree(x, new)
           t == SplitRange(x, new, o)
<1>6. Sound(d, len', t, spare')
  BY <1>1, <1>2, <1>3, <1>4, SplitKeeps
<1>7. new \in Node /\ n \notin spare'
  BY <1>1, <1>4 DEF Sound
<1>8. /\ p # Nil /\ InsertAllowed(d, p, n, new) /\ Kind[n] = "fragment" =>
           StartFragment(d, p, n, new, Nil) /\ range' = t
      /\ p # Nil /\ InsertAllowed(d, p, n, new) /\ Kind[n] # "fragment" =>
           dom' = Inserted(d, p, n, new) /\ range' = OnMove(d, dom', t, n, new) /\ call' = call
      /\ ~(p # Nil /\ InsertAllowed(d, p, n, new)) => dom' = d /\ range' = t /\ call' = call
  BY <1>4
<1> HIDE DEF x, o, p, d, t
<1>9. CASE p # Nil /\ InsertAllowed(d, p, n, new) /\ Kind[n] = "fragment"
  <2>1. StartFragment(d, p, n, new, Nil) /\ range' = t
    BY <1>8, <1>9
  <2>2. d \in Doms /\ Linked(d) /\ NoCycle(d)
    BY <1>6 DEF Sound
  <2>3. TreeInv'
    BY <1>1, <1>5, <1>7, <1>9, <2>1, <2>2, StartFragmentKeeps DEF NodeOrNil
  <2>4. dom' = d
    BY <2>1 DEF StartFragment
  <2> QED
    BY <1>6, <2>1, <2>3, <2>4 DEF RangeInv
<1>10. CASE p # Nil /\ InsertAllowed(d, p, n, new) /\ Kind[n] # "fragment"
  <2>1. dom' = Inserted(d, p, n, new) /\ range' = OnMove(d, dom', t, n, new) /\ call' = Idle
    BY <1>8, <1>10
  <2>2. Sound(dom', len', range', spare')
    BY <1>5, <1>6, <1>7, <1>10, <2>1, SoundInserted DEF NodeOrNil
  <2> QED
    BY <2>1, <2>2, BetweenCalls
<1>11. CASE ~(p # Nil /\ InsertAllowed(d, p, n, new))
  <2>1. dom' = d /\ range' = t /\ call' = Idle
    BY <1>8, <1>11
  <2> QED
    BY <1>6, <2>1, BetweenCalls
<1> QED
  BY <1>9, <1>10, <1>11

LEMMA RangeInsertKeeps ==
  ASSUME "selfInsert" \notin Unguarded, RangeInv, NEW i \in RangeId, NEW n \in Node,
         RangeInsertNode(i, n)
  PROVE  RangeInv'
<1> DEFINE P == range[i].start
<1>1. /\ call = Idle /\ i \in Live(range) /\ n \notin spare
      /\ ~IsAncestorOf(dom, n, range[i].start[1])
  BY DEF RangeInsertNode
<1>2. /\ dom \in Doms /\ len \in [Node -> Nat] /\ range \in Ranges(Points(dom, len, spare))
      /\ Linked(dom)
  BY DEF RangeInv, Sound
<1>3. P[1] \in Node /\ P[2] \in Nat
  <2>1. P \in Points(dom, len, spare)
    BY <1>1, <1>2, LiveIs
  <2> QED
    BY <1>2, <2>1, PointIs
<1>4. CASE InsertAtChildren(i, n)
  <2> DEFINE r == IF P[2] < Len(dom.kids[P[1]]) THEN dom.kids[P[1]][P[2] + 1] ELSE Nil
  <2>1. r \in NodeOrNil
    <3>1. dom.kids[P[1]] \in Seq(Node)
      BY <1>2, <1>3 DEF Doms
    <3> QED
      BY <1>3, <3>1 DEF NodeOrNil
  <2>2. /\ \/ InsertNode(P[1], n, r) /\ range' = OnMove(dom, dom', range, n, r)
           \/ InsertFragment(P[1], n, r) /\ UNCHANGED range
        /\ UNCHANGED <<len, spare>>
    BY <1>4 DEF InsertAtChildren
  <2> HIDE DEF P, r
  <2> QED
    BY <1>1, <1>3, <2>1, <2>2, InsertKeeps
<1>5. CASE InsertBeforeText(i, n)
  <2> DEFINE p == dom.parent[P[1]]
  <2>1. /\ p # Nil
        /\ \/ InsertNode(p, n, P[1]) /\ range' = OnMove(dom, dom', range, n, P[1])
           \/ InsertFragment(p, n, P[1]) /\ UNCHANGED range
        /\ UNCHANGED <<len, spare>>
    BY <1>5 DEF InsertBeforeText
  <2>2. p \in Node /\ P[1] \in NodeOrNil
    BY <1>2, <1>3, <2>1 DEF Doms, NodeOrNil
  <2> HIDE DEF P, p
  <2> QED
    BY <1>1, <2>1, <2>2, InsertKeeps
<1>6. CASE InsertInText(i, n)
  BY <1>1, <1>6, InsertInTextKeeps
<1> QED
  BY <1>4, <1>5, <1>6 DEF RangeInsertNode
-----------------------------------------------------------------------------
LEMMA RangeInvInit == RangeInit => RangeInv
<1> SUFFICES ASSUME RangeInit PROVE RangeInv
  OBVIOUS
<1>1. TreeInv
  BY TreeInvInit DEF RangeInit
<1>2. dom = InitialDom /\ len = InitialLen /\ spare = Spare
  BY DEF RangeInit, Init
<1>3. len \in [Node -> Nat]
  BY <1>2, RangeAssumption
<1>4. Shaped(dom)
  <2> SUFFICES ASSUME NEW x \in Node, dom.parent[x] # Nil
               PROVE  ~IsChars(dom.parent[x]) /\ Kind[x] # "fragment"
    BY DEF Shaped
  <2>1. KidOK(dom.parent[x], x)
    BY <1>2, KidsAssumption DEF AllowedKids
  <2> QED
    BY <2>1 DEF KidOK, IsChars, CharKinds, Content
<1>5. range \in Ranges(Points(dom, len, spare)) /\ Ordered(dom, range)
  BY DEF RangeInit, Ranges, Ordered, Live
<1> QED
  BY <1>1, <1>2, <1>3, <1>4, <1>5, RangeAssumption
     DEF RangeInv, Sound, TreeInv, TypeOK, ParentChildAgree, Acyclic

LEMMA RangeInvStep ==
  ASSUME "selfInsert" \notin Unguarded, RangeInv, [RangeNext]_rvars
  PROVE  RangeInv'
<1>1. CASE RangeStep
  <2>1. PICK i \in RangeId :
          \/ CreateRange(i) \/ DetachRange(i) \/ Collapse(i, TRUE) \/ Collapse(i, FALSE)
          \/ \E x \in Node :
               \/ \E offset \in 0 .. Units(dom, len, x) :
                     SetStart(i, x, offset) \/ SetEnd(i, x, offset)
               \/ \E k \in {0, 1} : SetStartBeside(i, x, k) \/ SetEndBeside(i, x, k)
               \/ SelectNode(i, x) \/ SelectNodeContents(i, x)
               \/ RangeInsertNode(i, x)
    BY <1>1 DEF RangeStep
  <2> QED
    BY <2>1, OwnStepKeeps, SetterKeeps, SelectionKeeps, RangeInsertKeeps
<1>2. CASE UNCHANGED rvars
  <2>1. dom' = dom /\ call' = call /\ len' = len /\ range' = range /\ spare' = spare
    BY <1>2 DEF rvars
  <2>2. TreeInv'
    BY <2>1, TreeInvStep DEF RangeInv, vars
  <2> QED
    BY <2>1, <2>2 DEF RangeInv
<1> QED
  BY <1>1, <1>2, TreeStepKeeps, TextStepKeeps, NormalizeKeeps DEF RangeNext

\* For every document and every sequence of mutations of its tree and its
\* texts, of splits, merges and settings of ranges, a range that has not been
\* detached has both its points at offsets its containers have: updateRangeFor...
\* is called in all the places where it must be, at the right moment.
THEOREM BoundariesAlwaysExist ==
  ASSUME "selfInsert" \notin Unguarded
  PROVE  RangeSpec => []BoundariesExist
<1>1. RangeInv /\ [RangeNext]_rvars => RangeInv'
  BY RangeInvStep
<1>2. RangeInv => BoundariesExist
  <2> SUFFICES ASSUME RangeInv, NEW i \in Live(range)
               PROVE  {range[i].start, range[i].end} \subseteq PointsOf(dom, len)
    BY DEF BoundariesExist
  <2>1. range \in Ranges(Points(dom, len, spare))
    BY DEF RangeInv, Sound
  <2>2. range[i].start \in Points(dom, len, spare) /\ range[i].end \in Points(dom, len, spare)
    BY <2>1, LiveIs
  <2> QED
    BY <2>2 DEF Points
<1> QED
  BY <1>1, <1>2, RangeInvInit, PTL DEF RangeSpec
-----------------------------------------------------------------------------
(* Document order: the recursive definitions of Place have a value *)

\* A property of sets of nodes that can be handed on to one more node.
LEMMA NodeByNode ==
  ASSUME IsFiniteSet(Node), NEW T \in SUBSET (SUBSET Node), {} \in T,
         \A D \in T : D # Node => \E x \in Node \ D : D \cup {x} \in T
  PROVE  Node \in T
<1> DEFINE Sizes == {k \in Nat : \E D \in T : Cardinality(Node \ D) = k}
<1>1. \A D \in SUBSET Node : IsFiniteSet(D) /\ Cardinality(D) \in Nat
  BY FS_Subset, FS_CardinalityType
<1>2. PICK k \in Sizes : \A j \in Sizes : k <= j
  <2>1. Cardinality(Node \ {}) \in Sizes
    BY <1>1
  <2> QED
    BY <2>1, LeastOf
<1>3. PICK D \in T : Cardinality(Node \ D) = k
  OBVIOUS
<1> SUFFICES ASSUME D # Node PROVE FALSE
  BY <1>3
<1>4. PICK x \in Node \ D : D \cup {x} \in T
  BY <1>3
<1>5. Cardinality(Node \ (D \cup {x})) = k - 1
  <2>1. Node \ (D \cup {x}) = (Node \ D) \ {x}
    OBVIOUS
  <2>2. IsFiniteSet(Node \ D) /\ x \in Node \ D
    BY <1>1, <1>4
  <2>3. Cardinality((Node \ D) \ {x}) = Cardinality(Node \ D) - 1
    BY ONLY <2>2, FS_RemoveElement
  <2> QED
    BY <1>3, <2>1, <2>3
<1>6. k \in Nat /\ k - 1 \in Sizes
  <2>1. k \in Nat /\ Cardinality(Node \ (D \cup {x})) \in Nat
    BY <1>1
  <2> QED
    BY <1>4, <1>5, <2>1
<1> HIDE DEF Sizes
<1>7. k <= k - 1
  BY <1>2, <1>6
<1> QED
  BY <1>6, <1>7

IsSum(b, s, h, n, g) == g = [j \in 0 .. n |-> IF j = 0 THEN b ELSE g[j - 1] + h[s[j]]]

\* b and the values of h for the first n members of s
Sum(b, s, h, n) == (CHOOSE g : IsSum(b, s, h, n, g))[n]

LEMMA SumExists ==
  ASSUME NEW b, NEW s, NEW h, NEW n \in Nat
  PROVE  \E g : IsSum(b, s, h, n, g)
<1> DEFINE T == {k \in Nat : \E g : IsSum(b, s, h, k, g)}
<1>1. 0 \in T
  <2> DEFINE g == [j \in 0 .. 0 |-> b]
  <2>1. g = [j \in 0 .. 0 |-> IF j = 0 THEN b ELSE g[j - 1] + h[s[j]]]
    OBVIOUS
  <2> HIDE DEF g
  <2>2. IsSum(b, s, h, 0, g)
    BY <2>1 DEF IsSum
  <2> QED
    BY <2>2
<1>2. ASSUME NEW k \in 1 .. n, k - 1 \in T PROVE k \in T
  <2>1. PICK g : IsSum(b, s, h, k - 1, g)
    BY <1>2
  <2> DEFINE t == [j \in 0 .. k |-> IF j = 0 THEN b ELSE g[j - 1] + h[s[j]]]
  <2>2. \A j \in 0 .. k - 1 : g[j] = IF j = 0 THEN b ELSE g[j - 1] + h[s[j]]
    BY <2>1 DEF IsSum
  <2>3. \A j \in 1 .. k : j - 1 \in 0 .. k - 1 /\ j - 1 \in 0 .. k
    OBVIOUS
  <2>4. \A j \in 1 .. k : t[j - 1] = g[j - 1]
    BY <2>2, <2>3
  <2>5. ASSUME NEW j \in 0 .. k PROVE t[j] = IF j = 0 THEN b ELSE t[j - 1] + h[s[j]]
    <3>1. t[j] = IF j = 0 THEN b ELSE g[j - 1] + h[s[j]]
      OBVIOUS
    <3>2. j # 0 => j \in 1 .. k
      OBVIOUS
    <3> HIDE DEF t
    <3> QED
      BY <2>4, <3>1, <3>2
  <2>6. t = [j \in 0 .. k |-> t[j]]
    OBVIOUS
  <2> HIDE DEF t
  <2>7. IsSum(b, s, h, k, t)
    BY <2>5, <2>6 DEF IsSum
  <2> QED
    BY <2>7
<1> HIDE DEF T
<1>3. \A j \in 0 .. n : j \in T
  BY <1>1, <1>2, UpTo
<1> QED
  BY <1>3 DEF T

LEMMA SumIs ==
  ASSUME NEW b, NEW s, NEW h, NEW k \in Nat
  PROVE  Sum(b, s, h, k) = IF k = 0 THEN b ELSE Sum(b, s, h, k - 1) + h[s[k]]
<1> DEFINE g(n) == CHOOSE g : IsSum(b, s, h, n, g)
<1>1. \A n \in Nat : IsSum(b, s, h, n, g(n)) /\ Sum(b, s, h, n) = g(n)[n]
  BY SumExists DEF Sum
<1> HIDE DEF g
<1>2. \A n \in Nat : \A j \in 0 .. n : g(n)[j] = IF j = 0 THEN b ELSE g(n)[j - 1] + h[s[j]]
  BY <1>1 DEF IsSum
<1>3. CASE k = 0
  BY <1>1, <1>2, <1>3
<1>4. ASSUME NEW i \in Nat PROVE g(i + 1)[i] = g(i)[i]
  <2> DEFINE T == {j \in Nat : j <= i => g(i + 1)[j] = g(i)[j]}
  <2>1. 0 \in T
    BY <1>2
  <2>2. ASSUME NEW j \in 1 .. i, j - 1 \in T PROVE j \in T
    <3>1. g(i + 1)[j] = g(i + 1)[j - 1] + h[s[j]] /\ g(i)[j] = g(i)[j - 1] + h[s[j]]
      <4>1. j \in 0 .. i + 1 /\ j \in 0 .. i /\ j # 0 /\ i + 1 \in Nat
        OBVIOUS
      <4> QED
        BY <1>2, <4>1
    <3>2. g(i + 1)[j - 1] = g(i)[j - 1]
      BY <2>2
    <3> QED
      BY <3>1, <3>2
  <2> HIDE DEF T
  <2>3. \A j \in 0 .. i : j \in T
    BY <2>1, <2>2, UpTo
  <2> QED
    BY <2>3 DEF T
<1>5. CASE k # 0
  <2>1. k - 1 \in Nat /\ k \in 0 .. k /\ (k - 1) + 1 = k
    BY <1>5
  <2>2. g(k)[k] = g(k)[k - 1] + h[s[k]]
    BY <1>2, <1>5, <2>1
  <2>3. g(k)[k - 1] = g(k - 1)[k - 1]
    BY <1>4, <2>1
  <2> QED
    BY <1>1, <1>5, <2>1, <2>2, <2>3
<1> QED
  BY <1>3, <1>5

\* The sum depends on the values of h for the members of s only.
LEMMA SumSame ==
  ASSUME NEW b, NEW s, NEW h, NEW e, NEW n \in Nat, \A j \in 1 .. n : e[s[j]] = h[s[j]]
  PROVE  Sum(b, s, e, n) = Sum(b, s, h, n)
<1> DEFINE T == {j \in Nat : Sum(b, s, e, j) = Sum(b, s, h, j)}
<1>1. 0 \in T
  BY SumIs
<1>2. ASSUME NEW j \in 1 .. n, j - 1 \in T PROVE j \in T
  <2>1. j \in Nat \ {0}
    OBVIOUS
  <2>2. /\ Sum(b, s, e, j) = Sum(b, s, e, j - 1) + e[s[j]]
        /\ Sum(b, s, h, j) = Sum(b, s, h, j - 1) + h[s[j]]
    BY <2>1, SumIs
  <2> QED
    BY <1>2, <2>2
<1> HIDE DEF T
<1>3. \A j \in 0 .. n : j \in T
  BY <1>1, <1>2, UpTo
<1> QED
  BY <1>3 DEF T

\* Sums of natural numbers grow.
Growing(b, s, h, n) ==
  /\ \A k \in 0 .. n : Sum(b, s, h, k) \in Nat /\ b <= Sum(b, s, h, k)
  /\ \A j, k \in 0 .. n : j <= k => Sum(b, s, h, j) <= Sum(b, s, h, k)
  /\ \A k \in 0 .. n - 1 : Sum(b, s, h, k + 1) = Sum(b, s, h, k) + h[s[k + 1]]
  /\ \A k \in 0 .. n : Sum(b + 1, s, h, k) = Sum(b, s, h, k) + 1

LEMMA SumGrows ==
  ASSUME NEW b \in Nat, NEW s, NEW h, NEW n \in Nat, \A j \in 1 .. n : h[s[j]] \in Nat
  PROVE  Growing(b, s, h, n)
<1> DEFINE f(k) == Sum(b, s, h, k)
           e(k) == Sum(b + 1, s, h, k)
           T == {k \in Nat : \A j \in 0 .. k : f(j) \in Nat /\ f(k) \in Nat /\ f(j) <= f(k)}
           U == {k \in Nat : e(k) = f(k) + 1}
<1>1. /\ f(0) = b /\ \A k \in Nat \ {0} : f(k) = f(k - 1) + h[s[k]]
      /\ e(0) = b + 1 /\ \A k \in Nat \ {0} : e(k) = e(k - 1) + h[s[k]]
  BY SumIs
<1> HIDE DEF f, e
<1>2. 0 \in T /\ 0 \in U
  BY <1>1
<1>3. ASSUME NEW j \in 1 .. n
      PROVE  f(j) = f(j - 1) + h[s[j]] /\ e(j) = e(j - 1) + h[s[j]]
  <2>1. j \in Nat \ {0}
    OBVIOUS
  <2> QED
    BY <1>1, <2>1
<1>4. ASSUME NEW j \in 1 .. n, j - 1 \in T PROVE j \in T
  <2>1. f(j - 1) \in Nat /\ h[s[j]] \in Nat /\ f(j) = f(j - 1) + h[s[j]]
    BY <1>3, <1>4
  <2>2. f(j) \in Nat /\ f(j - 1) <= f(j)
    BY <2>1
  <2>3. \A i \in 0 .. j : i = j \/ i \in 0 .. j - 1
    OBVIOUS
  <2>4. ASSUME NEW i \in 0 .. j - 1 PROVE f(i) \in Nat /\ f(i) <= f(j)
    <3>1. f(i) <= f(j - 1) /\ f(i) \in Nat
      BY <1>4
    <3> QED
      BY <2>1, <2>2, <3>1
  <2> QED
    BY <2>2, <2>3, <2>4
<1>5. \A k \in 0 .. n : k \in T
  <2> HIDE DEF T
  <2> QED
    BY <1>2, <1>4, UpTo
<1>6. ASSUME NEW j \in 1 .. n, j - 1 \in U PROVE j \in U
  <2>1. e(j - 1) = f(j - 1) + 1 /\ f(j - 1) \in Nat /\ h[s[j]] \in Nat
    <3>1. j - 1 \in 0 .. n
      OBVIOUS
    <3> QED
      BY <1>5, <1>6, <3>1
  <2> QED
    BY <1>3, <2>1
<1>7. \A k \in 0 .. n : k \in U
  <2> HIDE DEF U
  <2> QED
    BY <1>2, <1>6, UpTo
<1>8. ASSUME NEW k \in 0 .. n PROVE f(k) \in Nat /\ b <= f(k) /\ \A j \in 0 .. n : j <= k => f(j) <= f(k)
  <2>1. f(k) \in Nat /\ \A j \in 0 .. k : f(j) <= f(k)
    BY <1>5
  <2>2. 0 \in 0 .. k /\ \A j \in 0 .. n : j <= k => j \in 0 .. k
    OBVIOUS
  <2> QED
    BY <1>1, <2>1, <2>2
<1>9. ASSUME NEW k \in 0 .. n - 1 PROVE f(k + 1) = f(k) + h[s[k + 1]]
  <2>1. k + 1 \in 1 .. n /\ (k + 1) - 1 = k
    OBVIOUS
  <2> HIDE DEF T, U
  <2> DEFINE m == k + 1
  <2>2. f(m) = f(m - 1) + h[s[m]]
    <3> HIDE DEF m
    <3> QED
      BY <1>3, <2>1 DEF m
  <2> QED
    BY <2>1, <2>2
<1>10. \A k \in 0 .. n : e(k) = f(k) + 1
  BY <1>7
<1> QED
  BY <1>8, <1>9, <1>10 DEF f, e, Growing

\* What a tree of children, its text or its tags and children, adds to the order.
Extent(f, l, h, x) ==
  IF IsChars(x) THEN l[x] + 2 ELSE Sum(2, f.kids[x], h, Len(f.kids[x]))

Sizes(f, l, D, h) == h = [x \in D |-> Extent(f, l, h, x)]

\* The tags and characters from the start of q up to its child x.
UpToKid(f, h, q, k) == Sum(1, f.kids[q], h, k)

Fronts(f, h, D, g) ==
  g = [x \in D |-> IF f.parent[x] = Nil THEN 0
                   ELSE g[f.parent[x]] + UpToKid(f, h, f.parent[x], Index(f, x))]

Size(f, l) == CHOOSE h : Sizes(f, l, Node, h)

Front(f, l) == CHOOSE g : Fronts(f, Size(f, l), Node, g)

\* What Place adds to the front of the container.
Offset(f, l, P) == IF IsChars(P[1]) THEN 1 + P[2] ELSE UpToKid(f, Size(f, l), P[1], P[2])

LEMMA PlaceMeans ==
  ASSUME NEW f, NEW l, NEW P
  PROVE  Place(f, l, P) = Front(f, l)[P[1]] + Offset(f, l, P)
BY Zenon DEF Place, Front, Offset, UpToKid, Fronts, Size, Sizes, Extent, Sum, IsSum

\* The children of x are the nodes below it.
LEMMA KidsBelow ==
  ASSUME NEW f \in Doms, Linked(f), NEW x \in Node
  PROVE  /\ f.kids[x] \in Seq(Node) /\ Len(f.kids[x]) \in Nat
         /\ \A j \in 1 .. Len(f.kids[x]) : f.kids[x][j] \in Node /\ f.parent[f.kids[x][j]] = x
<1>1. f.kids[x] \in Seq(Node)
  BY DEF Doms
<1>2. ASSUME NEW j \in 1 .. Len(f.kids[x]) PROVE f.kids[x][j] \in Node /\ f.parent[f.kids[x][j]] = x
  <2>1. Occurs(f.kids[x][j], f.kids[x]) /\ f.kids[x][j] \in Node
    BY <1>1 DEF Occurs
  <2> QED
    BY <2>1, LinkedIs
<1> QED
  BY <1>1, <1>2

LEMMA SizeExists ==
  ASSUME NEW f \in Doms, Linked(f), NoCycle(f), NEW l
  PROVE  Sizes(f, l, Node, Size(f, l))
<1> DEFINE Closed(D) == \A x \in D : \A j \in 1 .. Len(f.kids[x]) : f.kids[x][j] \in D
           T == {D \in SUBSET Node : Closed(D) /\ \E h : Sizes(f, l, D, h)}
<1>1. {} \in T
  <2> DEFINE h == [x \in {} |-> 0]
  <2>1. h = [x \in {} |-> Extent(f, l, h, x)]
    OBVIOUS
  <2> HIDE DEF h
  <2>2. Sizes(f, l, {}, h)
    BY <2>1 DEF Sizes
  <2> QED
    BY <2>2
<1>2. ASSUME NEW D \in T, D # Node PROVE \E x \in Node \ D : D \cup {x} \in T
  <2>1. PICK h : Sizes(f, l, D, h)
    BY <1>2
  <2>2. D \in SUBSET Node /\ Closed(D)
    BY <1>2
  <2>3. PICK x \in Node \ D : \A y \in Node \ D : f.parent[y] # x
    <3>1. Node \ D # {} /\ Node \ D \in SUBSET Node
      BY <1>2, <2>2
    <3> QED
      BY <3>1, LeafOf, RangeAssumption
  <2> DEFINE E == D \cup {x}
             t == [y \in E |-> Extent(f, l, h, y)]
  <2>4. \A y \in E : \A j \in 1 .. Len(f.kids[y]) : f.kids[y][j] \in D
    <3>1. \A j \in 1 .. Len(f.kids[x]) : f.kids[x][j] \in D
      BY <2>3, KidsBelow
    <3> QED
      BY <2>2, <3>1
  <2>5. \A y \in D : t[y] = h[y]
    BY <2>1 DEF Sizes
  <2> HIDE DEF t
  <2>6. ASSUME NEW y \in E PROVE Extent(f, l, t, y) = Extent(f, l, h, y)
    <3>1. y \in Node
      BY <2>2, <2>3
    <3>2. Sum(2, f.kids[y], t, Len(f.kids[y])) = Sum(2, f.kids[y], h, Len(f.kids[y]))
      <4>1. Len(f.kids[y]) \in Nat
        BY <3>1, KidsBelow
      <4>2. \A j \in 1 .. Len(f.kids[y]) : t[f.kids[y][j]] = h[f.kids[y][j]]
        BY <2>4, <2>5
      <4> QED
        BY <4>1, <4>2, SumSame
    <3> QED
      BY <3>2 DEF Extent
  <2>7. Sizes(f, l, E, t)
    BY <2>6 DEF Sizes, t
  <2>8. E \in T
    BY <2>2, <2>4, <2>7
  <2> QED
    BY <2>8
<1>3. T \in SUBSET (SUBSET Node)
  OBVIOUS
<1> HIDE DEF T
<1>4. Node \in T
  BY <1>1, <1>2, <1>3, NodeByNode, RangeAssumption
<1> QED
  BY <1>4 DEF T, Size

LEMMA FrontExists ==
  ASSUME NEW f \in Doms, NoCycle(f), NEW l
  PROVE  Fronts(f, Size(f, l), Node, Front(f, l))
<1> DEFINE h == Size(f, l)
           v(g, x) == IF f.parent[x] = Nil THEN 0
                      ELSE g[f.parent[x]] + UpToKid(f, h, f.parent[x], Index(f, x))
           Rooted(D) == \A x \in D : f.parent[x] # Nil => f.parent[x] \in D
           T == {D \in SUBSET Node : Rooted(D) /\ \E g : Fronts(f, h, D, g)}
<1> HIDE DEF h
<1>1. {} \in T
  <2> DEFINE g == [x \in {} |-> 0]
  <2>1. g = [x \in {} |-> v(g, x)]
    OBVIOUS
  <2> HIDE DEF g
  <2>2. Fronts(f, h, {}, g)
    BY <2>1 DEF Fronts
  <2> QED
    BY <2>2
<1>2. ASSUME NEW D \in T, D # Node PROVE \E x \in Node \ D : D \cup {x} \in T
  <2>1. PICK g : Fronts(f, h, D, g)
    BY <1>2
  <2>2. D \in SUBSET Node /\ Rooted(D)
    BY <1>2
  <2>3. PICK x \in Node \ D : f.parent[x] \notin Node \ D
    <3>1. Node \ D # {} /\ Node \ D \in SUBSET Node
      BY <1>2, <2>2
    <3> QED
      BY <3>1 DEF NoCycle
  <2> DEFINE E == D \cup {x}
             t == [y \in E |-> v(g, y)]
  <2>4. \A y \in E : f.parent[y] # Nil => f.parent[y] \in D
    <3>1. f.parent[x] # Nil => f.parent[x] \in Node
      BY DEF Doms, NodeOrNil
    <3> QED
      BY <2>2, <2>3, <3>1
  <2>5. \A y \in D : t[y] = g[y]
    BY <2>1 DEF Fronts
  <2> HIDE DEF t
  <2>6. \A y \in E : v(t, y) = v(g, y)
    BY <2>4, <2>5
  <2>7. Fronts(f, h, E, t)
    BY <2>6 DEF Fronts, t
  <2>8. E \in T
    BY <2>2, <2>4, <2>7
  <2> QED
    BY <2>8
<1>3. T \in SUBSET (SUBSET Node)
  OBVIOUS
<1> HIDE DEF T
<1>4. Node \in T
  BY <1>1, <1>2, <1>3, NodeByNode, RangeAssumption
<1> QED
  BY <1>4 DEF T, Front, h

-----------------------------------------------------------------------------
(* Document order: where the points of a tree are *)

\* A tree of elements and texts.
TreeOfTexts(d, l) == d \in Doms /\ Linked(d) /\ NoCycle(d) /\ Shaped(d) /\ l \in [Node -> Nat]

LEMMA SizeIs ==
  ASSUME NEW d, NEW l, TreeOfTexts(d, l), NEW x \in Node
  PROVE  /\ Size(d, l)[x] \in Nat /\ Size(d, l)[x] >= 2
         /\ IsChars(x) => Size(d, l)[x] = l[x] + 2
         /\ ~IsChars(x) => Size(d, l)[x] = Sum(2, d.kids[x], Size(d, l), Len(d.kids[x]))
<1> DEFINE h == Size(d, l)
           Bad == {y \in Node : ~(h[y] \in Nat /\ h[y] >= 2)}
<1>1. d \in Doms /\ Linked(d) /\ NoCycle(d) /\ l \in [Node -> Nat]
  BY DEF TreeOfTexts
<1>2. \A y \in Node : h[y] = Extent(d, l, h, y)
  BY <1>1, SizeExists DEF Sizes
<1> HIDE DEF h
<1>3. Bad = {}
  <2> SUFFICES ASSUME Bad # {} PROVE FALSE
    OBVIOUS
  <2>1. PICK y \in Bad : \A z \in Bad : d.parent[z] # y
    <3>1. Bad \in SUBSET Node
      OBVIOUS
    <3> HIDE DEF Bad
    <3> QED
      BY <1>1, <3>1, LeafOf, RangeAssumption
  <2>2. y \in Node /\ \A j \in 1 .. Len(d.kids[y]) : h[d.kids[y][j]] \in Nat
    <3>1. \A j \in 1 .. Len(d.kids[y]) : d.kids[y][j] \in Node /\ d.parent[d.kids[y][j]] = y
      BY <1>1, KidsBelow
    <3> QED
      BY <2>1, <3>1
  <2>3. LET n == Len(d.kids[y])
        IN  Sum(2, d.kids[y], h, n) \in Nat /\ 2 <= Sum(2, d.kids[y], h, n)
    <3>1. Len(d.kids[y]) \in Nat /\ Len(d.kids[y]) \in 0 .. Len(d.kids[y])
      BY <1>1, <2>2, KidsBelow
    <3> HIDE DEF Bad
    <3>2. Growing(2, d.kids[y], h, Len(d.kids[y]))
      BY <2>2, <3>1, SumGrows
    <3> QED
      BY <3>1, <3>2 DEF Growing
  <2>4. IsChars(y) => l[y] + 2 \in Nat /\ l[y] + 2 >= 2
    BY <1>1, <2>2
  <2> QED
    BY <1>2, <2>2, <2>3, <2>4 DEF Extent
<1> QED
  BY <1>2, <1>3 DEF Extent, h

\* From child to child of a node that is no text.
LEMMA KidsAddUp ==
  ASSUME NEW d, NEW l, TreeOfTexts(d, l), NEW q \in Node, ~IsChars(q)
  PROVE  LET K(k) == UpToKid(d, Size(d, l), q, k)
             n == Len(d.kids[q])
         IN  /\ \A k \in 0 .. n : K(k) \in Nat /\ 1 <= K(k) /\ K(k) < Size(d, l)[q]
             /\ \A j, k \in 0 .. n : j <= k => K(j) <= K(k)
             /\ \A k \in 0 .. n - 1 : K(k + 1) = K(k) + Size(d, l)[d.kids[q][k + 1]]
<1> DEFINE h == Size(d, l)
           s == d.kids[q]
           n == Len(s)
           K(k) == UpToKid(d, h, q, k)
<1>1. n \in Nat /\ \A j \in 1 .. n : s[j] \in Node /\ d.parent[s[j]] = q
  BY KidsBelow DEF TreeOfTexts
<1>2. \A j \in 1 .. n : h[s[j]] \in Nat
  BY <1>1, SizeIs
<1>3. h[q] = Sum(2, s, h, n)
  BY SizeIs
<1> HIDE DEF h, s, n
<1>4. /\ \A k \in 0 .. n : Sum(1, s, h, k) \in Nat /\ 1 <= Sum(1, s, h, k)
      /\ \A j, k \in 0 .. n : j <= k => Sum(1, s, h, j) <= Sum(1, s, h, k)
      /\ \A k \in 0 .. n - 1 : Sum(1, s, h, k + 1) = Sum(1, s, h, k) + h[s[k + 1]]
      /\ \A k \in 0 .. n : Sum(1 + 1, s, h, k) = Sum(1, s, h, k) + 1
  <2>1. Growing(1, s, h, n)
    BY <1>1, <1>2, SumGrows
  <2> QED
    BY <2>1 DEF Growing
<1>5. h[q] = Sum(1, s, h, n) + 1
  <2>1. 1 + 1 = 2 /\ n \in 0 .. n
    BY <1>1
  <2> QED
    BY <1>3, <1>4, <2>1
<1>6. \A k \in 0 .. n : Sum(1, s, h, k) < h[q]
  <2> TAKE k \in 0 .. n
  <2>1. n \in 0 .. n /\ k <= n
    BY <1>1
  <2>2. Sum(1, s, h, k) <= Sum(1, s, h, n) /\ Sum(1, s, h, k) \in Nat /\ Sum(1, s, h, n) \in Nat
    BY <1>4, <2>1
  <2> QED
    BY <1>5, <2>2
<1>7. \A k : K(k) = Sum(1, s, h, k)
  BY DEF UpToKid, s
<1> QED
  BY <1>4, <1>6, <1>7 DEF h, s, n

LEMMA FrontIs ==
  ASSUME NEW d, NEW l, TreeOfTexts(d, l), NEW x \in Node
  PROVE  LET q == d.parent[x]
         IN  /\ Front(d, l)[x] \in Nat
             /\ q # Nil => /\ q \in Node /\ ~IsChars(q)
                           /\ Front(d, l)[x] = Front(d, l)[q] + UpToKid(d, Size(d, l), q, Index(d, x))
<1> DEFINE F == Front(d, l)
           Bad == {y \in Node : F[y] \notin Nat}
           K(y) == UpToKid(d, Size(d, l), d.parent[y], Index(d, y))
<1>1. d \in Doms /\ Linked(d) /\ NoCycle(d) /\ l \in [Node -> Nat] /\ Shaped(d)
  BY DEF TreeOfTexts
<1>2. \A y \in Node : F[y] = IF d.parent[y] = Nil THEN 0 ELSE F[d.parent[y]] + K(y)
  BY <1>1, FrontExists DEF Fronts
<1>3. \A y \in Node : d.parent[y] # Nil => d.parent[y] \in Node /\ ~IsChars(d.parent[y])
  BY <1>1 DEF Doms, NodeOrNil, Shaped
<1>4. \A y \in Node : d.parent[y] # Nil => K(y) \in Nat
  <2> TAKE y \in Node
  <2> HAVE d.parent[y] # Nil
  <2>1. Index(d, y) \in 0 .. Len(d.kids[d.parent[y]])
    BY <1>1, <1>3, ChildIs, KidsBelow
  <2> QED
    BY <1>3, <2>1, KidsAddUp
<1> HIDE DEF F, K
<1>5. Bad = {}
  <2> SUFFICES ASSUME Bad # {} PROVE FALSE
    OBVIOUS
  <2>1. PICK y \in Bad : d.parent[y] \notin Bad
    <3>1. Bad \in SUBSET Node
      OBVIOUS
    <3> QED
      BY <1>1, <3>1 DEF NoCycle
  <2> QED
    BY <1>2, <1>3, <1>4, <2>1
<1> QED
  BY <1>2, <1>3, <1>5 DEF F, K

LEMMA OffsetIs ==
  ASSUME NEW d, NEW l, TreeOfTexts(d, l), NEW P \in PointsOf(d, l)
  PROVE  /\ IsPoint(P)
         /\ Offset(d, l, P) \in Nat /\ 1 <= Offset(d, l, P) /\ Offset(d, l, P) < Size(d, l)[P[1]]
         /\ ~IsChars(P[1]) => P[2] \in 0 .. Len(d.kids[P[1]])
<1>1. d \in Doms /\ Linked(d) /\ l \in [Node -> Nat]
  BY DEF TreeOfTexts
<1>2. /\ P = <<P[1], P[2]>> /\ P[1] \in Node /\ P[2] \in Nat /\ P[2] <= Units(d, l, P[1])
  <2>1. P \in Points(d, l, {})
    BY DEF Points
  <2> QED
    BY <1>1, <2>1, PointIs
<1>3. CASE IsChars(P[1])
  <2>1. Size(d, l)[P[1]] = l[P[1]] + 2 /\ l[P[1]] \in Nat
    BY <1>1, <1>2, <1>3, SizeIs
  <2> QED
    BY <1>2, <1>3, <2>1 DEF Units, Offset, IsPoint
<1>4. CASE ~IsChars(P[1])
  <2>1. Len(d.kids[P[1]]) \in Nat
    BY <1>1, <1>2, KidsBelow
  <2>2. P[2] \in 0 .. Len(d.kids[P[1]])
    BY <1>2, <1>4, <2>1 DEF Units
  <2> QED
    BY <1>2, <1>4, <2>2, KidsAddUp DEF Offset, IsPoint
<1> QED
  BY <1>3, <1>4

\* A point in or below c lies between the tags of c.
LEMMA PlaceInside ==
  ASSUME NEW d, NEW l, TreeOfTexts(d, l), NEW P \in PointsOf(d, l), NEW c \in Path(d, P[1])
  PROVE  /\ Place(d, l, P) \in Nat /\ Front(d, l)[c] < Place(d, l, P)
         /\ Place(d, l, P) < Front(d, l)[c] + Size(d, l)[c]
<1> DEFINE F == Front(d, l)
           h == Size(d, l)
           p == Place(d, l, P)
           S == {y \in Path(d, P[1]) : F[y] < p /\ p < F[y] + h[y]}
<1>1. d \in Doms /\ Linked(d) /\ NoCycle(d)
  BY DEF TreeOfTexts
<1>2. IsPoint(P) /\ P[1] \in Node
  BY OffsetIs DEF IsPoint
<1>3. \A y \in Node : F[y] \in Nat /\ h[y] \in Nat
  BY FrontIs, SizeIs
<1>4. p \in Nat /\ F[P[1]] < p /\ p < F[P[1]] + h[P[1]]
  <2>1. p = F[P[1]] + Offset(d, l, P)
    BY PlaceMeans
  <2>2. Offset(d, l, P) \in Nat /\ 1 <= Offset(d, l, P) /\ Offset(d, l, P) < h[P[1]]
    BY OffsetIs
  <2> HIDE DEF F, h, p
  <2> QED
    BY <1>2, <1>3, <2>1, <2>2
<1>5. /\ Path(d, P[1]) \in SUBSET Node /\ P[1] \in Path(d, P[1])
      /\ \A y \in Path(d, P[1]) : d.parent[y] # Nil => d.parent[y] \in Path(d, P[1])
  BY <1>1, <1>2, PathIs
<1>6. ASSUME NEW y \in S, d.parent[y] # Nil PROVE d.parent[y] \in S
  <2> DEFINE q == d.parent[y]
             i == Index(d, y)
             K(k) == UpToKid(d, h, q, k)
  <2>1. y \in Node /\ q \in Path(d, P[1]) /\ F[y] < p /\ p < F[y] + h[y]
    BY <1>5, <1>6
  <2>2. q \in Node /\ ~IsChars(q) /\ F[y] = F[q] + K(i)
    BY <1>6, <2>1, FrontIs
  <2>3. /\ i \in Nat /\ i < Len(d.kids[q]) /\ Len(d.kids[q]) \in Nat
        /\ d.kids[q][i + 1] = y
    <3>1. Occurs(y, d.kids[q]) /\ i \in Nat /\ i < Len(d.kids[q]) /\ Len(d.kids[q]) \in Nat
      BY <1>1, <1>6, <2>1, <2>2, ChildIs, KidsBelow
    <3>2. IndexOf(d.kids[q], y) \in 1 .. Len(d.kids[q]) /\ d.kids[q][IndexOf(d.kids[q], y)] = y
      BY <1>1, <2>2, <3>1, IndexOfOccurs, KidsBelow
    <3>3. i + 1 = IndexOf(d.kids[q], y)
      BY <3>2 DEF Index
    <3> QED
      BY <3>1, <3>2, <3>3
  <2>4. i \in 0 .. Len(d.kids[q]) /\ i \in 0 .. Len(d.kids[q]) - 1 /\ i + 1 \in 0 .. Len(d.kids[q])
    BY <2>3
  <2>5. K(i + 1) = K(i) + h[y] /\ K(i) \in Nat /\ 1 <= K(i) /\ K(i + 1) < h[q]
    BY <2>2, <2>3, <2>4, KidsAddUp
  <2> HIDE DEF F, h, p, K
  <2>6. F[q] < p /\ p < F[q] + h[q]
    BY <1>3, <1>4, <2>1, <2>2, <2>5
  <2> QED
    BY <2>1, <2>6
<1>7. Path(d, P[1]) \subseteq S
  <2>1. P[1] \in S /\ S \in SUBSET Node
    BY <1>4, <1>5
  <2> HIDE DEF S
  <2> QED
    BY <1>1, <1>2, <1>6, <2>1, PathLeast
<1> QED
  BY <1>4, <1>7

\* Two points that stand apart at a node above them are in this order.
LEMMA PlacesApart ==
  ASSUME NEW d, NEW l, TreeOfTexts(d, l), NEW A \in PointsOf(d, l), NEW B \in PointsOf(d, l),
         NEW a \in Node, NEW s \in Nat, NEW t \in Nat, Stands(d, A, a, s), Stands(d, B, a, t), s < t
  PROVE  Place(d, l, A) < Place(d, l, B)
<1> DEFINE F == Front(d, l)
           h == Size(d, l)
           n == Len(d.kids[a])
           K(k) == UpToKid(d, h, a, k)
           p(P) == Place(d, l, P)
<1>1. d \in Doms /\ Linked(d) /\ NoCycle(d) /\ l \in [Node -> Nat]
  BY DEF TreeOfTexts
<1>2. IsPoint(A) /\ IsPoint(B) /\ p(A) \in Nat /\ p(B) \in Nat /\ F[a] \in Nat
  <2>1. IsPoint(A) /\ IsPoint(B)
    BY OffsetIs
  <2>2. A[1] \in Path(d, A[1]) /\ B[1] \in Path(d, B[1])
    BY <1>1, <2>1, PathIs DEF IsPoint
  <2> QED
    BY <2>1, <2>2, PlaceInside, FrontIs
\* Right at the k-th gap between children, or inside the k-th of them.
<1> DEFINE At(P, k)   == P[1] = a /\ P[2] = k
           Within(P, k) == \E c \in Path(d, P[1]) : d.parent[c] = a /\ k = Index(d, c)
<1>3. /\ \E i \in Nat : (s = 2 * i /\ At(A, i)) \/ (s = 2 * i + 1 /\ Within(A, i))
      /\ \E j \in Nat : (t = 2 * j /\ At(B, j)) \/ (t = 2 * j + 1 /\ Within(B, j))
  <2>1. ASSUME NEW P, IsPoint(P), NEW r \in Nat, Stands(d, P, a, r)
        PROVE  \E i \in Nat : (r = 2 * i /\ At(P, i)) \/ (r = 2 * i + 1 /\ Within(P, i))
    <3>1. CASE a = P[1] /\ r = 2 * P[2]
      BY <2>1, <3>1 DEF IsPoint
    <3>2. ASSUME NEW c \in Path(d, P[1]), d.parent[c] = a, r = 2 * Index(d, c) + 1
          PROVE  \E i \in Nat : r = 2 * i + 1 /\ Within(P, i)
      <4>1. c \in Node /\ d.parent[c] # Nil
        BY <1>1, <2>1, <3>2, PathIs, NilAssumption DEF IsPoint
      <4>2. Index(d, c) \in Nat
        BY <1>1, <4>1, ChildIs
      <4> QED
        BY <3>2, <4>2
    <3> QED
      BY <2>1, <3>1, <3>2 DEF Stands
  <2> HIDE DEF At, Within
  <2> QED
    BY <1>2, <2>1
<1>4. PICK i \in Nat, j \in Nat :
        /\ (s = 2 * i /\ At(A, i)) \/ (s = 2 * i + 1 /\ Within(A, i))
        /\ (t = 2 * j /\ At(B, j)) \/ (t = 2 * j + 1 /\ Within(B, j))
  <2> HIDE DEF At, Within
  <2> QED
    BY <1>3
<1>5. CASE IsChars(a)
  <2>1. \A P : \A k : IsPoint(P) => ~Within(P, k)
    <3> SUFFICES ASSUME NEW P, IsPoint(P), NEW c \in Path(d, P[1]), d.parent[c] = a PROVE FALSE
      OBVIOUS
    <3>1. c \in Node /\ d.parent[c] # Nil
      BY <1>1, PathIs, NilAssumption DEF IsPoint
    <3> QED
      BY <1>5, <3>1 DEF TreeOfTexts, Shaped
  <2>2. At(A, i) /\ At(B, j) /\ i < j
    <3> HIDE DEF At, Within
    <3> QED
      BY <1>2, <1>4, <2>1
  <2>3. p(A) = F[a] + (1 + i) /\ p(B) = F[a] + (1 + j)
    BY <1>5, <2>2, PlaceMeans DEF Offset
  <2>4. ASSUME NEW f \in Nat PROVE f + (1 + i) < f + (1 + j)
    BY <2>2
  <2> QED
    BY <1>2, <2>3, <2>4
<1>6. CASE ~IsChars(a)
  <2>1. /\ n \in Nat
        /\ \A k \in 0 .. n : K(k) \in Nat
        /\ \A k, m \in 0 .. n : k <= m => K(k) <= K(m)
        /\ \A k \in 0 .. n - 1 : K(k + 1) = K(k) + h[d.kids[a][k + 1]]
    BY <1>1, <1>6, KidsAddUp, KidsBelow
  <2>0. \A k \in 0 .. n - 1 : K(k) < K(k + 1)
    <3> TAKE k \in 0 .. n - 1
    <3>1. k + 1 \in 1 .. n /\ k \in 0 .. n
      BY <2>1
    <3>2. h[d.kids[a][k + 1]] \in Nat /\ h[d.kids[a][k + 1]] >= 2
      BY <1>1, <3>1, KidsBelow, SizeIs
    <3> HIDE DEF K, h, n
    <3> QED
      BY <2>1, <3>1, <3>2
  <2>2. ASSUME NEW P \in PointsOf(d, l), NEW k \in Nat, At(P, k)
        PROVE  k \in 0 .. n /\ p(P) = F[a] + K(k)
    <3>1. P[2] \in 0 .. n
      BY <1>6, <2>2, OffsetIs
    <3>2. p(P) = F[P[1]] + Offset(d, l, P)
      BY PlaceMeans
    <3> QED
      BY <1>6, <2>2, <3>1, <3>2 DEF Offset
  <2>3. ASSUME NEW P \in PointsOf(d, l), NEW k \in Nat, Within(P, k)
        PROVE  /\ k \in 0 .. n /\ k + 1 \in 0 .. n
               /\ F[a] + K(k) < p(P) /\ p(P) < F[a] + K(k + 1)
    <3>1. PICK c \in Path(d, P[1]) : d.parent[c] = a /\ k = Index(d, c)
      BY <2>3
    <3>2. c \in Node /\ d.parent[c] # Nil
      BY <1>1, <3>1, PathIs, NilAssumption, OffsetIs DEF IsPoint
    <3>3. /\ Occurs(c, d.kids[a]) /\ k < n
      BY <1>1, <3>1, <3>2, ChildIs
    <3>4. d.kids[a][k + 1] = c
      <4>1. IndexOf(d.kids[a], c) \in 1 .. n /\ d.kids[a][IndexOf(d.kids[a], c)] = c
        BY <1>1, <3>3, IndexOfOccurs, KidsBelow
      <4>2. k + 1 = IndexOf(d.kids[a], c)
        BY <3>1, <4>1 DEF Index
      <4> QED
        BY <4>1, <4>2
    <3>5. F[c] = F[a] + K(k) /\ F[c] < p(P) /\ p(P) < F[c] + h[c] /\ h[c] \in Nat /\ p(P) \in Nat
      BY <3>1, <3>2, FrontIs, PlaceInside, SizeIs
    <3>6. k \in 0 .. n /\ k \in 0 .. n - 1 /\ k + 1 \in 0 .. n
      BY <2>1, <3>3
    <3>7. K(k + 1) = K(k) + h[c] /\ K(k) \in Nat
      BY <2>1, <3>4, <3>6
    <3> HIDE DEF F, K, h, p, n
    <3> QED
      BY <1>2, <3>5, <3>6, <3>7
  <2> HIDE DEF F, K, h, n, At, Within
  <2>4. CASE At(A, i) /\ At(B, j) /\ i < j
    <3>1. /\ i \in 0 .. n /\ i + 1 \in 0 .. n /\ i \in 0 .. n - 1 /\ j \in 0 .. n /\ i + 1 <= j
          /\ p(A) = F[a] + K(i) /\ p(B) = F[a] + K(j)
      BY <2>1, <2>2, <2>4
    <3>2. K(i) < K(i + 1) /\ K(i + 1) <= K(j) /\ K(i) \in Nat /\ K(i + 1) \in Nat /\ K(j) \in Nat
      BY <2>0, <2>1, <3>1
    <3> QED
      BY <1>2, <3>1, <3>2
  <2>5. CASE At(A, i) /\ Within(B, j) /\ i <= j
    <3>1. i \in 0 .. n /\ j \in 0 .. n /\ p(A) = F[a] + K(i) /\ F[a] + K(j) < p(B)
      BY <2>2, <2>3, <2>5
    <3>2. K(i) <= K(j) /\ K(i) \in Nat /\ K(j) \in Nat
      BY <2>1, <2>5, <3>1
    <3> QED
      BY <1>2, <3>1, <3>2
  <2>6. CASE Within(A, i) /\ At(B, j) /\ i < j
    <3>1. /\ i + 1 \in 0 .. n /\ j \in 0 .. n /\ i + 1 <= j
          /\ p(A) < F[a] + K(i + 1) /\ p(B) = F[a] + K(j)
      BY <2>2, <2>3, <2>6
    <3>2. K(i + 1) <= K(j) /\ K(i + 1) \in Nat /\ K(j) \in Nat
      BY <2>1, <3>1
    <3> QED
      BY <1>2, <3>1, <3>2
  <2>7. CASE Within(A, i) /\ Within(B, j) /\ i < j
    <3>1. /\ i + 1 \in 0 .. n /\ j \in 0 .. n /\ i + 1 <= j
          /\ p(A) < F[a] + K(i + 1) /\ F[a] + K(j) < p(B)
      BY <2>3, <2>7
    <3>2. K(i + 1) <= K(j) /\ K(i + 1) \in Nat /\ K(j) \in Nat
      BY <2>1, <3>1
    <3> QED
      BY <1>2, <3>1, <3>2
  <2> QED
    BY <1>4, <2>4, <2>5, <2>6, <2>7
<1> QED
  BY <1>5, <1>6

\* compareBoundaryPoints and document order.
LEMMA ComparedInOrder ==
  ASSUME NEW d, NEW l, TreeOfTexts(d, l), NEW A \in PointsOf(d, l), NEW B \in PointsOf(d, l),
         Root(d, A[1]) = Root(d, B[1])
  PROVE  Compared(d, A, B) = Sign(Place(d, l, A), Place(d, l, B))
<1> DEFINE p == Place(d, l, A)
           q == Place(d, l, B)
<1>1. d \in Doms /\ Linked(d) /\ NoCycle(d) /\ IsPoint(A) /\ IsPoint(B)
  BY OffsetIs DEF TreeOfTexts
<1>2. Path(d, A[1]) \cap Path(d, B[1]) # {}
  BY <1>1, SameRoot DEF IsPoint
<1>3. PICK a : \E s, t \in Nat : /\ Meet(d, A, B, a, s, t) /\ Compared(d, A, B) = Sign(s, t)
                                 /\ s = t => A = B
  BY <1>1, <1>2, ComparedIs, RangeAssumption
<1>4. PICK s \in Nat, t \in Nat :
        Meet(d, A, B, a, s, t) /\ Compared(d, A, B) = Sign(s, t) /\ (s = t => A = B)
  BY <1>3
<1>5. a \in Node /\ Stands(d, A, a, s) /\ Stands(d, B, a, t)
  BY <1>4 DEF Meet
<1>6. p \in Nat /\ q \in Nat
  <2>1. A[1] \in Path(d, A[1]) /\ B[1] \in Path(d, B[1])
    BY <1>1, PathIs DEF IsPoint
  <2> QED
    BY <2>1, PlaceInside
<1>7. (s < t => p < q) /\ (t < s => q < p) /\ (s = t => p = q)
  BY <1>4, <1>5, PlacesApart
<1> HIDE DEF p, q
<1>8. Sign(s, t) = Sign(p, q)
  BY <1>6, <1>7 DEF Sign
<1> QED
  BY <1>4, <1>8 DEF p, q

LEMMA RangesInOrder ==
  ASSUME NEW d, NEW l, TreeOfTexts(d, l), NEW A \in PointsOf(d, l), NEW B \in PointsOf(d, l),
         NotAfter(d, A, B)
  PROVE  Root(d, A[1]) = Root(d, B[1]) /\ Place(d, l, A) <= Place(d, l, B)
<1> DEFINE p == Place(d, l, A)
           q == Place(d, l, B)
<1>1. d \in Doms /\ Linked(d) /\ NoCycle(d) /\ IsPoint(A) /\ IsPoint(B)
  BY OffsetIs DEF TreeOfTexts
<1>2. Path(d, A[1]) \cap Path(d, B[1]) # {}
  BY DEF NotAfter
<1>3. Root(d, A[1]) = Root(d, B[1])
  BY <1>1, <1>2, SameRoot DEF IsPoint
<1>4. Compared(d, A, B) # 1
  BY <1>1, <1>2, ComparedOrders, RangeAssumption
<1>5. Sign(p, q) # 1
  BY <1>3, <1>4, ComparedInOrder
<1>6. p \in Nat /\ q \in Nat
  <2>1. A[1] \in Path(d, A[1]) /\ B[1] \in Path(d, B[1])
    BY <1>1, PathIs DEF IsPoint
  <2> QED
    BY <2>1, PlaceInside
<1> HIDE DEF p, q
<1>7. p <= q
  BY <1>5, <1>6 DEF Sign
<1> QED
  BY <1>3, <1>7 DEF p, q

\* For every document, whatever was done to its tree, its texts and its ranges,
\* compareBoundaryPoints gives -1, 0 or 1 as the first of two boundary points of
\* a tree is before, equal to or after the second in document order: the cases
\* of the code, equal containers, the one container below the other and the walk
\* to the children of the deepest common ancestor, are exclusive, are all there
\* are and each decide as the serialized document would.
THEOREM ComparesInDocumentOrder ==
  ASSUME "selfInsert" \notin Unguarded
  PROVE  RangeSpec => []CompareIsDocumentOrder
<1>1. RangeInv /\ [RangeNext]_rvars => RangeInv'
  BY RangeInvStep
<1>2. RangeInv => CompareIsDocumentOrder
  <2> SUFFICES ASSUME RangeInv, NEW A \in PointsOf(dom, len), NEW B \in PointsOf(dom, len),
                      Root(dom, A[1]) = Root(dom, B[1])
               PROVE  LET a == Place(dom, len, A)
                          b == Place(dom, len, B)
                      IN  Compared(dom, A, B) = IF a < b THEN -1 ELSE IF a = b THEN 0 ELSE 1
    BY DEF CompareIsDocumentOrder
  <2>1. TreeOfTexts(dom, len)
    BY DEF RangeInv, Sound, TreeOfTexts
  <2> QED
    BY <2>1, ComparedInOrder DEF Sign
<1> QED
  BY <1>1, <1>2, RangeInvInit, PTL DEF RangeSpec

\* For every document and every sequence of mutations, the two ends of a range
\* that has not been detached are in one tree and it does not start after it
\* ends, provided splitText is not called where it misplaces a range: the fix-ups
\* of updateRangeFor..., one point at a time and without a comparison, never
\* carry one end past the other.
THEOREM RangesStayOrdered ==
  ASSUME "selfInsert" \notin Unguarded, ~SplitFreely
  PROVE  RangeSpec => []StartNotAfterEnd
<1>1. RangeInv /\ [RangeNext]_rvars => RangeInv'
  BY RangeInvStep
<1>2. RangeInv => StartNotAfterEnd
  <2> SUFFICES ASSUME RangeInv, NEW i \in Live(range)
               PROVE  /\ Root(dom, range[i].start[1]) = Root(dom, range[i].end[1])
                      /\ Place(dom, len, range[i].start) <= Place(dom, len, range[i].end)
    BY DEF StartNotAfterEnd
  <2>1. TreeOfTexts(dom, len) /\ range \in Ranges(Points(dom, len, spare)) /\ Ordered(dom, range)
    BY DEF RangeInv, Sound, TreeOfTexts
  <2>2. range[i].start \in PointsOf(dom, len) /\ range[i].end \in PointsOf(dom, len)
    BY <2>1, LiveIs DEF Points
  <2>3. NotAfter(dom, range[i].start, range[i].end)
    BY <2>1 DEF Ordered
  <2> QED
    BY <2>1, <2>2, <2>3, RangesInOrder
<1> QED
  BY <1>1, <1>2, RangeInvInit, PTL DEF RangeSpec
=============================================================================
