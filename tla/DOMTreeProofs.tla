---------------------------- MODULE DOMTreeProofs ----------------------------
(***************************************************************************)
(* Proofs about DOMTree for every document: any finite or infinite set of  *)
(* nodes, any well-formed initial tree.                                    *)
(***************************************************************************)
EXTENDS DOMTree, FiniteSetTheorems, SequenceTheorems, WellFoundedInduction, TLAPS

Distinct(s) == \A i, j \in DOMAIN s : s[i] = s[j] => i = j

Occurs(x, s) == \E i \in DOMAIN s : s[i] = x
-----------------------------------------------------------------------------
\* A non-empty set of natural numbers has a least element.
LEMMA LeastOf ==
  ASSUME NEW T \in SUBSET Nat, T # {}
  PROVE  \E k \in T : \A j \in T : k <= j
<1> DEFINE R == OpToRel(<, Nat)
<1>1. \A j, k \in Nat : <<j, k>> \in R <=> j < k
  BY DEF OpToRel
<1>2. IsWellFoundedOn(R, Nat)
  BY NatLessThanWellFounded
<1> HIDE DEF R
<1>3. PICK k \in T : \A j \in T : ~(<<j, k>> \in R)
  BY <1>2, WFMin
<1>4. k \in Nat /\ \A j \in T : j \in Nat /\ ~(j < k)
  BY <1>1, <1>3
<1>5. \A j \in T : k <= j
  BY <1>4
<1> QED
  BY <1>5

\* Induction up to n.
LEMMA UpTo ==
  ASSUME NEW n \in Nat, NEW T, 0 \in T, \A j \in 1 .. n : j - 1 \in T => j \in T
  PROVE  \A j \in 0 .. n : j \in T
<1> DEFINE Bad == {j \in 0 .. n : j \notin T}
<1> SUFFICES ASSUME Bad # {} PROVE FALSE
  OBVIOUS
<1>1. PICK k \in Bad : \A j \in Bad : k <= j
  <2>1. Bad \in SUBSET Nat
    OBVIOUS
  <2> QED
    BY <2>1, LeastOf
<1>2. k \in 1 .. n /\ k - 1 \in 0 .. n /\ ~(k <= k - 1)
  OBVIOUS
<1>3. k - 1 \notin Bad
  BY <1>1, <1>2
<1> QED
  BY <1>2, <1>3

\* A non-empty set of nodes has one without a child in the set.
LEMMA LeafOf ==
  ASSUME NEW f \in Doms, NoCycle(f), IsFiniteSet(Node), NEW S \in SUBSET Node, S # {}
  PROVE  \E x \in S : \A y \in S : f.parent[y] # x
<1> DEFINE Leafless(T) == T # {} /\ \A x \in T : \E y \in T : f.parent[y] = x
           Sizes == {k \in Nat : \E T \in SUBSET Node : Leafless(T) /\ Cardinality(T) = k}
<1> SUFFICES ASSUME Leafless(S) PROVE FALSE
  OBVIOUS
<1>1. \A T \in SUBSET Node : IsFiniteSet(T) /\ Cardinality(T) \in Nat
  BY FS_Subset, FS_CardinalityType
<1>2. PICK k \in Sizes : \A j \in Sizes : k <= j
  <2>1. Cardinality(S) \in Sizes
    BY <1>1
  <2> QED
    BY <2>1, LeastOf
<1>3. PICK T \in SUBSET Node : Leafless(T) /\ Cardinality(T) = k
  OBVIOUS
<1>4. PICK x \in T : f.parent[x] \notin T
  BY <1>3 DEF NoCycle
<1>5. Leafless(T \ {x})
  <2>1. PICK y \in T : f.parent[y] = x
    BY <1>3
  <2>2. y # x
    BY <1>4, <2>1
  <2>3. ASSUME NEW z \in T \ {x} PROVE \E w \in T \ {x} : f.parent[w] = z
    <3>1. PICK w \in T : f.parent[w] = z
      BY <1>3
    <3> QED
      BY <1>4, <3>1
  <2> QED
    BY <2>2, <2>3
<1>6. Cardinality(T \ {x}) = k - 1
  BY <1>1, <1>3, FS_RemoveElement
<1>7. k - 1 \in Sizes
  BY <1>1, <1>5, <1>6
<1> QED
  BY <1>2, <1>7
-----------------------------------------------------------------------------
(* The two edits of a child list. *)

LEMMA IndexOfOccurs ==
  ASSUME NEW s, NEW x, Occurs(x, s)
  PROVE  IndexOf(s, x) \in DOMAIN s /\ s[IndexOf(s, x)] = x
BY DEF IndexOf, Occurs

\* Without(s, x) holds what s holds except x, each once.
LEMMA WithoutIs ==
  ASSUME NEW S, NEW s \in Seq(S), Distinct(s), NEW x \in S, Occurs(x, s)
  PROVE  /\ Without(s, x) \in Seq(S)
         /\ Distinct(Without(s, x))
         /\ \A y : Occurs(y, Without(s, x)) <=> Occurs(y, s) /\ y # x
<1> DEFINE k == IndexOf(s, x)
           a == SubSeq(s, 1, k - 1)
           b == SubSeq(s, k + 1, Len(s))
           w == Without(s, x)
<1>1. k \in 1 .. Len(s) /\ s[k] = x
  BY IndexOfOccurs
<1> HIDE DEF k
<1>2. w = a \o b
  BY DEF Without, k
<1>3. a \in Seq(S) /\ Len(a) = k - 1 /\ \A i \in 1 .. k - 1 : a[i] = s[i]
  BY <1>1
<1>4. b \in Seq(S) /\ Len(b) = Len(s) - k /\ \A i \in 1 .. Len(s) - k : b[i] = s[k + i]
  BY <1>1
<1> HIDE DEF a, b, w
<1>5. w \in Seq(S) /\ Len(w) = Len(s) - 1
  BY <1>1, <1>2, <1>3, <1>4
<1>6. \A i \in 1 .. Len(s) - 1 : w[i] = IF i < k THEN s[i] ELSE s[i + 1]
  BY <1>1, <1>2, <1>3, <1>4
<1>7. Distinct(w)
  <2> SUFFICES ASSUME NEW i \in 1 .. Len(s) - 1, NEW j \in 1 .. Len(s) - 1, w[i] = w[j]
               PROVE  i = j
    BY <1>5 DEF Distinct
  <2> DEFINE old(m) == IF m < k THEN m ELSE m + 1
  <2>1. old(i) \in DOMAIN s /\ old(j) \in DOMAIN s
    BY <1>1
  <2>2. s[old(i)] = s[old(j)]
    BY <1>6
  <2>3. old(i) = old(j)
    BY <2>1, <2>2 DEF Distinct
  <2> QED
    BY <2>3, <1>1
<1>8. ASSUME NEW y, Occurs(y, w) PROVE Occurs(y, s) /\ y # x
  BY <1>1, <1>5, <1>6, <1>8, SMTT(40) DEF Distinct, Occurs
<1>9. ASSUME NEW y, Occurs(y, s), y # x PROVE Occurs(y, w)
  <2>1. PICK i \in 1 .. Len(s) : s[i] = y /\ i # k
    BY <1>1, <1>9 DEF Occurs
  <2>2. CASE i < k
    <3>1. i \in 1 .. Len(s) - 1 /\ w[i] = y
      BY <2>1, <2>2, <1>1, <1>6
    <3> QED
      BY <3>1, <1>5 DEF Occurs
  <2>3. CASE i > k
    <3>1. i - 1 \in 1 .. Len(s) - 1 /\ w[i - 1] = y
      BY <2>1, <2>3, <1>1, <1>6
    <3> QED
      BY <3>1, <1>5 DEF Occurs
  <2> QED
    BY <2>1, <2>2, <2>3, <1>1
<1> QED
  BY <1>5, <1>7, <1>8, <1>9 DEF w

\* Before(s, x, r) holds what s holds and the new x, each once.
LEMMA BeforeIs ==
  ASSUME NEW S, NEW s \in Seq(S), Distinct(s), NEW x \in S, ~Occurs(x, s),
         NEW r, r = Nil \/ Occurs(r, s)
  PROVE  /\ Before(s, x, r) \in Seq(S)
         /\ Distinct(Before(s, x, r))
         /\ \A y : Occurs(y, Before(s, x, r)) <=> Occurs(y, s) \/ y = x
<1> DEFINE k == IF r = Nil THEN Len(s) + 1 ELSE IndexOf(s, r)
           a == SubSeq(s, 1, k - 1)
           b == SubSeq(s, k, Len(s))
           w == Before(s, x, r)
<1>1. k \in 1 .. Len(s) + 1
  BY IndexOfOccurs
<1> HIDE DEF k
<1>2. w = a \o <<x>> \o b
  BY DEF Before, k
<1>3. a \in Seq(S) /\ Len(a) = k - 1 /\ \A i \in 1 .. k - 1 : a[i] = s[i]
  BY <1>1
<1>4. b \in Seq(S) /\ Len(b) = Len(s) + 1 - k
        /\ \A i \in 1 .. Len(s) + 1 - k : b[i] = s[k + i - 1]
  BY <1>1
<1> HIDE DEF a, b, w
<1> DEFINE c == a \o <<x>>
<1>5. c \in Seq(S) /\ Len(c) = k /\ \A i \in 1 .. k : c[i] = IF i < k THEN s[i] ELSE x
  BY <1>1, <1>3
<1>6. w = c \o b
  BY <1>2
<1> HIDE DEF c
<1>7. w \in Seq(S) /\ Len(w) = Len(s) + 1
  <2>1. w \in Seq(S) /\ Len(w) = Len(c) + Len(b)
    <3>1. c \in Seq(S) /\ b \in Seq(S)
      BY <1>4, <1>5
    <3> QED
      BY <1>6, <3>1
  <2>2. Len(c) + Len(b) = Len(s) + 1
    BY <1>1, <1>4, <1>5
  <2> QED
    BY <2>1, <2>2
<1>8. \A i \in 1 .. Len(s) + 1 :
         w[i] = IF i < k THEN s[i] ELSE IF i = k THEN x ELSE s[i - 1]
  <2> TAKE i \in 1 .. Len(s) + 1
  <2>1. CASE i <= k
    BY <2>1, <1>1, <1>6, <1>5, <1>4
  <2>2. CASE i > k
    <3>1. w[i] = b[i - k]
      BY <2>2, <1>1, <1>6, <1>5, <1>4
    <3>2. i - k \in 1 .. Len(s) + 1 - k /\ k + (i - k) - 1 = i - 1
      BY <2>2, <1>1
    <3>3. b[i - k] = s[i - 1]
      BY <3>2, <1>4
    <3> QED
      BY <3>1, <3>3, <2>2, <1>1
  <2> QED
    BY <2>1, <2>2, <1>1
<1>9. Distinct(w)
  <2> SUFFICES ASSUME NEW i \in 1 .. Len(s) + 1, NEW j \in 1 .. Len(s) + 1, w[i] = w[j]
               PROVE  i = j
    BY <1>7 DEF Distinct
  <2> DEFINE old(m) == IF m < k THEN m ELSE m - 1
  <2>1. CASE i # k /\ j # k
    <3>1. old(i) \in DOMAIN s /\ old(j) \in DOMAIN s
      BY <2>1, <1>1
    <3>2. s[old(i)] = s[old(j)]
      BY <2>1, <1>8
    <3>3. old(i) = old(j)
      BY <3>1, <3>2 DEF Distinct
    <3> QED
      BY <3>3, <2>1, <1>1
  <2>2. ASSUME NEW m \in 1 .. Len(s) + 1, m # k PROVE w[m] # x
    <3>1. old(m) \in DOMAIN s /\ w[m] = s[old(m)]
      BY <2>2, <1>1, <1>8
    <3> QED
      BY <3>1 DEF Occurs
  <2>3. w[k] = x
    BY <1>1, <1>8
  <2> QED
    BY <2>1, <2>2, <2>3, <1>1
<1>10. ASSUME NEW y, Occurs(y, w) PROVE Occurs(y, s) \/ y = x
  BY <1>1, <1>7, <1>8, <1>10 DEF Occurs
<1>11. Occurs(x, w)
  BY <1>1, <1>7, <1>8 DEF Occurs
<1>12. ASSUME NEW y, Occurs(y, s) PROVE Occurs(y, w)
  <2>1. PICK i \in 1 .. Len(s) : s[i] = y
    BY <1>12 DEF Occurs
  <2>2. CASE i < k
    <3>1. i \in 1 .. Len(s) + 1 /\ w[i] = y
      BY <2>1, <2>2, <1>1, <1>8
    <3> QED
      BY <3>1, <1>7 DEF Occurs
  <2>3. CASE i >= k
    <3>1. i + 1 \in 1 .. Len(s) + 1 /\ w[i + 1] = y
      BY <2>1, <2>3, <1>1, <1>8
    <3> QED
      BY <3>1, <1>7 DEF Occurs
  <2> QED
    BY <2>1, <2>2, <2>3, <1>1
<1> QED
  BY <1>7, <1>9, <1>10, <1>11, <1>12 DEF w
-----------------------------------------------------------------------------
(* The two edits of the tree. *)

LEMMA LinkedIs ==
  ASSUME NEW f
  PROVE  Linked(f) <=> /\ \A x \in Node, p \in Node : f.parent[x] = p <=> Occurs(x, f.kids[p])
                       /\ \A p \in Node : Distinct(f.kids[p])
BY DEF Linked, Occurs, Distinct

\* Unlinking a child keeps a tree well-formed and changes no other parent.
LEMMA UnlinkIs ==
  ASSUME NEW d \in Doms, NEW n \in Node, d.parent[n] # Nil, Linked(d), NoCycle(d)
  PROVE  LET u == Unlink(d, n)
         IN  /\ u \in Doms /\ Linked(u) /\ NoCycle(u)
             /\ u.parent = [d.parent EXCEPT ![n] = Nil]
             /\ u.fDocElement = d.fDocElement /\ u.fDocType = d.fDocType
<1> DEFINE u == Unlink(d, n)
           q == d.parent[n]
<1>1. q \in Node /\ d.kids[q] \in Seq(Node) /\ Distinct(d.kids[q]) /\ Occurs(n, d.kids[q])
  BY LinkedIs DEF Doms, NodeOrNil
<1>2. /\ Without(d.kids[q], n) \in Seq(Node)
      /\ Distinct(Without(d.kids[q], n))
      /\ \A y : Occurs(y, Without(d.kids[q], n)) <=> Occurs(y, d.kids[q]) /\ y # n
  BY <1>1, WithoutIs
<1>3. /\ u \in Doms
      /\ u.parent = [d.parent EXCEPT ![n] = Nil]
      /\ u.kids = [d.kids EXCEPT ![q] = Without(d.kids[q], n)]
      /\ u.fDocElement = d.fDocElement /\ u.fDocType = d.fDocType
  BY <1>1, <1>2 DEF Unlink, Doms, NodeOrNil
<1> HIDE DEF u
<1>4. ASSUME NEW x \in Node, NEW p \in Node
      PROVE  u.parent[x] = p <=> Occurs(x, u.kids[p])
  <2>1. d.parent[x] = p <=> Occurs(x, d.kids[p])
    BY LinkedIs
  <2>2. CASE p = q
    BY <2>1, <2>2, <1>2, <1>3, <1>1, NilAssumption DEF Doms
  <2>3. CASE p # q
    BY <2>1, <2>3, <1>3, <1>1, NilAssumption DEF Doms
  <2> QED
    BY <2>2, <2>3
<1>5. \A p \in Node : Distinct(u.kids[p])
  BY <1>2, <1>3, LinkedIs DEF Doms
<1>6. Linked(u)
  BY <1>4, <1>5, LinkedIs
<1>7. NoCycle(u)
  <2> SUFFICES ASSUME NEW S \in SUBSET Node, S # {}
               PROVE  \E x \in S : u.parent[x] \notin S
    BY DEF NoCycle
  <2>1. PICK x \in S : d.parent[x] \notin S
    BY DEF NoCycle
  <2> QED
    BY <2>1, <1>3, NilAssumption DEF Doms
<1> QED
  BY <1>3, <1>6, <1>7 DEF u

\* A set that is closed under parents, holds p's parent and not n: what the
\* loop of insertBefore establishes when n is not among p's ancestors.
Separates(C, d, n, p) ==
  /\ C \in SUBSET NodeOrNil /\ n \notin C
  /\ d.parent[p] \in C
  /\ \A x \in C \ {Nil} : d.parent[x] \in C

LEMMA NotAncestor ==
  ASSUME NEW d, NEW n \in Node, NEW p \in Node, n \notin Ancestors(d, p)
  PROVE  \E C : Separates(C, d, n, p)
BY DEF Ancestors, Separates

\* Linking a parentless node that is neither p nor above p keeps a tree
\* well-formed: the one step of the mutators that could close a cycle.
LEMMA LinkIs ==
  ASSUME NEW d \in Doms, NEW n \in Node, NEW p \in Node, NEW r \in NodeOrNil,
         d.parent[n] = Nil, n # p, r # Nil => d.parent[r] = p,
         NEW C, Separates(C, d, n, p), Linked(d), NoCycle(d)
  PROVE  LET u == Link(d, p, n, r)
         IN  /\ u \in Doms /\ Linked(u) /\ NoCycle(u)
             /\ u.parent = [d.parent EXCEPT ![n] = p]
             /\ u.fDocElement = d.fDocElement /\ u.fDocType = d.fDocType
<1> DEFINE u == Link(d, p, n, r)
<1>1. /\ d.kids[p] \in Seq(Node) /\ Distinct(d.kids[p]) /\ ~Occurs(n, d.kids[p])
      /\ r = Nil \/ Occurs(r, d.kids[p])
  BY LinkedIs, NilAssumption DEF Doms, NodeOrNil
<1>2. /\ Before(d.kids[p], n, r) \in Seq(Node)
      /\ Distinct(Before(d.kids[p], n, r))
      /\ \A y : Occurs(y, Before(d.kids[p], n, r)) <=> Occurs(y, d.kids[p]) \/ y = n
  BY <1>1, BeforeIs
<1>3. /\ u \in Doms
      /\ u.parent = [d.parent EXCEPT ![n] = p]
      /\ u.kids = [d.kids EXCEPT ![p] = Before(d.kids[p], n, r)]
      /\ u.fDocElement = d.fDocElement /\ u.fDocType = d.fDocType
  BY <1>1, <1>2 DEF Link, Doms, NodeOrNil
<1> HIDE DEF u
<1>4. ASSUME NEW x \in Node, NEW q \in Node
      PROVE  u.parent[x] = q <=> Occurs(x, u.kids[q])
  <2>1. d.parent[x] = q <=> Occurs(x, d.kids[q])
    BY LinkedIs
  <2>2. CASE q = p
    BY <2>1, <2>2, <1>2, <1>3 DEF Doms
  <2>3. CASE q # p
    BY <2>1, <2>3, <1>3, NilAssumption DEF Doms
  <2> QED
    BY <2>2, <2>3
<1>5. \A q \in Node : Distinct(u.kids[q])
  BY <1>2, <1>3, LinkedIs DEF Doms
<1>6. Linked(u)
  BY <1>4, <1>5, LinkedIs
<1>7. NoCycle(u)
  <2> SUFFICES ASSUME NEW S \in SUBSET Node, S # {}, \A x \in S : u.parent[x] \in S
               PROVE  FALSE
    BY DEF NoCycle
  <2>1. n \in S
    <3> SUFFICES ASSUME n \notin S PROVE FALSE
      OBVIOUS
    <3>1. \A x \in S : d.parent[x] \in S
      BY <1>3 DEF Doms
    <3> QED
      BY <3>1 DEF NoCycle
  <2>2. p \in S
    BY <2>1, <1>3 DEF Doms
  <2>3. \A x \in S : x # n => d.parent[x] \in S
    BY <1>3 DEF Doms
  <2>4. d.parent[p] \in S \cap C
    BY <2>2, <2>3 DEF Separates
  <2>5. \A x \in S \cap C : d.parent[x] \in S \cap C
    BY <2>3, NilAssumption DEF Separates
  <2> QED
    BY <2>4, <2>5 DEF NoCycle
<1> QED
  BY <1>3, <1>6, <1>7 DEF u
-----------------------------------------------------------------------------
(* The operations of the document built from the two edits. *)

\* The caches play no part in the shape of the tree.
LEMMA SameShape ==
  ASSUME NEW d, NEW e, e.parent = d.parent, e.kids = d.kids
  PROVE  (Linked(d) <=> Linked(e)) /\ (NoCycle(d) <=> NoCycle(e))
BY DEF Linked, NoCycle

LEMMA CachesIs ==
  ASSUME NEW d \in Doms, NEW p \in Node, NEW n \in Node
  PROVE  /\ Cached(d, p, n) \in Doms /\ Uncached(d, p, n) \in Doms
         /\ Cached(d, p, n).parent = d.parent /\ Cached(d, p, n).kids = d.kids
         /\ Uncached(d, p, n).parent = d.parent /\ Uncached(d, p, n).kids = d.kids
BY DEF Cached, Uncached, Doms, NodeOrNil

LEMMA RemovedIs ==
  ASSUME NEW d \in Doms, NEW n \in Node, d.parent[n] # Nil, Linked(d), NoCycle(d)
  PROVE  LET u == Removed(d, n)
         IN  /\ u \in Doms /\ Linked(u) /\ NoCycle(u)
             /\ u.parent = [d.parent EXCEPT ![n] = Nil]
<1> DEFINE u == Unlink(d, n)
           q == d.parent[n]
<1>1. q \in Node
  BY DEF Doms, NodeOrNil
<1>2. /\ u \in Doms /\ Linked(u) /\ NoCycle(u)
      /\ u.parent = [d.parent EXCEPT ![n] = Nil]
  BY UnlinkIs
<1>3. Removed(d, n) = Uncached(u, q, n)
  BY DEF Removed
<1> HIDE DEF u, q
<1>4. /\ Uncached(u, q, n) \in Doms
      /\ Uncached(u, q, n).parent = u.parent /\ Uncached(u, q, n).kids = u.kids
  BY <1>1, <1>2, CachesIs
<1>5. Linked(Uncached(u, q, n)) /\ NoCycle(Uncached(u, q, n))
  BY <1>2, <1>4, SameShape
<1> QED
  BY <1>2, <1>3, <1>4, <1>5

\* n out of its old parent
Lifted(d, n) == IF d.parent[n] = Nil THEN d ELSE Removed(d, n)

LEMMA LiftedIs ==
  ASSUME NEW d \in Doms, NEW n \in Node, Linked(d), NoCycle(d)
  PROVE  /\ Lifted(d, n) \in Doms /\ Linked(Lifted(d, n)) /\ NoCycle(Lifted(d, n))
         /\ Lifted(d, n).parent = [d.parent EXCEPT ![n] = Nil]
<1>1. CASE d.parent[n] = Nil
  BY <1>1 DEF Doms, Lifted
<1>2. CASE d.parent[n] # Nil
  BY <1>2, RemovedIs DEF Lifted
<1> QED
  BY <1>1, <1>2

LEMMA OldRemovedIs ==
  ASSUME NEW d \in Doms, NEW p \in Node, NEW o \in Node, d.parent[o] # Nil,
         Linked(d), NoCycle(d)
  PROVE  OldRemoved(d, p, o) \in Doms /\ Linked(OldRemoved(d, p, o))
           /\ NoCycle(OldRemoved(d, p, o))
BY UnlinkIs, RemovedIs DEF OldRemoved

\* What insertBefore's own test leaves to the shape of the tree: a node
\* without children is nobody's ancestor.
LEMMA CheckedSeparates ==
  ASSUME NEW d \in Doms, NEW n \in Node, NEW p \in Node, Linked(d),
         HasKids(d, n) => n \notin Ancestors(d, p)
  PROVE  \E C : Separates(C, d, n, p)
<1>1. CASE HasKids(d, n)
  BY <1>1, NotAncestor
<1>2. CASE ~HasKids(d, n)
  <2>1. \A x \in Node : d.parent[x] # n
    BY <1>2, LinkedIs DEF HasKids, Occurs, Doms
  <2>2. Separates(NodeOrNil \ {n}, d, n, p)
    BY <2>1 DEF Separates, Doms, NodeOrNil
  <2> QED
    BY <2>2
<1> QED
  BY <1>1, <1>2

\* A permitted insertion of one node that is not the parent itself.
LEMMA InsertedIs ==
  ASSUME NEW d \in Doms, NEW p \in Node, NEW n \in Node, NEW r \in NodeOrNil,
         InsertAllowed(d, p, n, r), n # p, Linked(d), NoCycle(d)
  PROVE  LET u == Inserted(d, p, n, r)
         IN  /\ u \in Doms /\ Linked(u) /\ NoCycle(u)
             /\ u.parent = IF n = r THEN d.parent ELSE [d.parent EXCEPT ![n] = p]
<1>1. CASE n = r
  <2>1. Inserted(d, p, n, r) = Cached(d, p, n)
    BY <1>1 DEF Inserted
  <2>2. /\ Cached(d, p, n) \in Doms
        /\ Cached(d, p, n).parent = d.parent /\ Cached(d, p, n).kids = d.kids
    BY CachesIs
  <2>3. Linked(Cached(d, p, n)) /\ NoCycle(Cached(d, p, n))
    BY <2>2, SameShape
  <2> QED
    BY <1>1, <2>1, <2>2, <2>3
<1>2. CASE n # r
  <2> DEFINE e == IF d.parent[n] = Nil THEN d ELSE Removed(d, n)
  <2>1. PICK C : Separates(C, d, n, p)
    BY CheckedSeparates DEF InsertAllowed
  <2>2. /\ e \in Doms /\ Linked(e) /\ NoCycle(e)
        /\ e.parent = [d.parent EXCEPT ![n] = Nil]
    <3>1. CASE d.parent[n] = Nil
      BY <3>1 DEF Doms
    <3>2. CASE d.parent[n] # Nil
      BY <3>2, RemovedIs
    <3> QED
      BY <3>1, <3>2
  <2>3. Inserted(d, p, n, r) = Cached(Link(e, p, n, r), p, n)
    BY <1>2 DEF Inserted
  <2> HIDE DEF e
  <2>4. Separates(C, e, n, p)
    BY <2>1, <2>2 DEF Separates, Doms, NodeOrNil
  <2>5. e.parent[n] = Nil /\ (r # Nil => e.parent[r] = p)
    BY <1>2, <2>2 DEF InsertAllowed, Doms, NodeOrNil
  <2> DEFINE l == Link(e, p, n, r)
             c == Cached(l, p, n)
  <2>6. /\ l \in Doms /\ Linked(l) /\ NoCycle(l)
        /\ l.parent = [e.parent EXCEPT ![n] = p]
    <3>1. /\ e \in Doms /\ e.parent[n] = Nil /\ n # p /\ (r # Nil => e.parent[r] = p)
          /\ Separates(C, e, n, p) /\ Linked(e) /\ NoCycle(e)
      BY <2>2, <2>4, <2>5
    <3> QED
      BY ONLY <3>1, LinkIs, n \in Node, p \in Node, r \in NodeOrNil
  <2> HIDE DEF l
  <2>7. c \in Doms /\ c.parent = l.parent /\ c.kids = l.kids
    BY <2>6, CachesIs
  <2> HIDE DEF c
  <2>8. Linked(c) /\ NoCycle(c)
    BY <2>6, <2>7, SameShape
  <2>9. c.parent = [d.parent EXCEPT ![n] = p]
    BY <2>2, <2>6, <2>7 DEF Doms
  <2>10. Inserted(d, p, n, r) = c
    BY <2>3 DEF c, l
  <2> QED
    BY <1>2, <2>7, <2>8, <2>9, <2>10
<1> QED
  BY <1>1, <1>2
-----------------------------------------------------------------------------
(***************************************************************************)
(* The inductive invariant.  Between two steps of a fragment insertion the *)
(* target is not among the kids still to be moved, and the reference child *)
(* is still the target's.                                                  *)
(***************************************************************************)
CallSound ==
  call # Idle =>
    /\ dom.parent[call.parent] # call.frag
    /\ call.frag # call.parent
    /\ call.old # Nil => call.old = call.ref
    /\ call.ref # Nil => dom.parent[call.ref] = call.parent

TreeInv == TypeOK /\ ParentChildAgree /\ Acyclic /\ CallSound

LEMMA IdleIsNoCall == Idle \notin Calls
BY NilAssumption DEF Idle, Calls

LEMMA TreeInvInit == Init => TreeInv
BY TreeAssumption DEF Init, TreeInv, TypeOK, ParentChildAgree, Acyclic, CallSound

\* Starting a fragment insertion that insertBefore's checks let through.
LEMMA StartFragmentKeeps ==
  ASSUME TypeOK, NEW d \in Doms, Linked(d), NoCycle(d),
         NEW p \in Node, NEW f \in Node, NEW r \in NodeOrNil, NEW o \in NodeOrNil,
         f # p, Kind[f] = "fragment", InsertAllowed(d, p, f, r), o # Nil => o = r,
         StartFragment(d, p, f, r, o)
  PROVE  TreeInv'
<1>1. dom' = d /\ call' \in Calls
  BY DEF StartFragment, Calls, TypeOK, Doms
<1>2. d.parent[p] # f
  <2> SUFFICES ASSUME d.parent[p] = f PROVE FALSE
    OBVIOUS
  <2>1. HasKids(d, f)
    BY LinkedIs DEF HasKids, Occurs, Doms
  <2>2. f \in Ancestors(d, p)
    BY DEF Ancestors
  <2> QED
    BY <2>1, <2>2 DEF InsertAllowed
<1>3. CallSound'
  BY <1>1, <1>2 DEF CallSound, StartFragment, InsertAllowed
<1> QED
  BY <1>1, <1>3 DEF TreeInv, TypeOK, ParentChildAgree, Acyclic

LEMMA TreeInvStep ==
  ASSUME "selfInsert" \notin Unguarded, TreeInv, [Next]_vars
  PROVE  TreeInv'
<1> USE DEF TreeInv, TypeOK, ParentChildAgree, Acyclic
<1>1. ASSUME NEW p \in Node, NEW n \in Node, NEW r \in NodeOrNil, InsertNode(p, n, r)
      PROVE  TreeInv'
  BY <1>1, InsertedIs DEF InsertNode, CallExpected, CallSound
<1>2. ASSUME NEW p \in Node, NEW f \in Node, NEW r \in NodeOrNil, InsertFragment(p, f, r)
      PROVE  TreeInv'
  <2>1. f # p
    BY <1>2 DEF InsertFragment, CallExpected
  <2> QED
    BY <1>2, <2>1, StartFragmentKeeps DEF InsertFragment, NodeOrNil
<1>3. CASE MoveKid
  <2> DEFINE n == Head(dom.kids[call.frag])
  <2>1. call \in Calls /\ call.parent \in Node /\ call.frag \in Node /\ call.ref \in NodeOrNil
    BY <1>3 DEF MoveKid, Calls
  <2>2. n \in Node /\ dom.parent[n] = call.frag
    <3>1. dom.kids[call.frag] \in Seq(Node) /\ dom.kids[call.frag] # <<>>
      BY <1>3, <2>1 DEF MoveKid, HasKids, Doms
    <3>2. n \in Node /\ Occurs(n, dom.kids[call.frag])
      BY <3>1 DEF Occurs
    <3> QED
      BY <2>1, <3>2, LinkedIs
  <2>3. n # call.parent /\ n # call.ref
    BY <1>3, <2>1, <2>2, NilAssumption DEF CallSound, MoveKid
  <2>4. InsertAllowed(dom, call.parent, n, call.ref)
        /\ dom' = Inserted(dom, call.parent, n, call.ref) /\ call' = call
    BY <1>3 DEF MoveKid
  <2> HIDE DEF n
  <2>5. /\ dom' \in Doms /\ Linked(dom') /\ NoCycle(dom')
        /\ dom'.parent = [dom.parent EXCEPT ![n] = call.parent]
    BY <2>1, <2>2, <2>3, <2>4, InsertedIs
  <2>6. CallSound'
    BY <2>1, <2>2, <2>3, <2>4, <2>5, <1>3 DEF CallSound, MoveKid, Doms, NodeOrNil
  <2> QED
    BY <2>1, <2>4, <2>5, <2>6
<1>4. CASE KidRefused
  <2>1. call \in Calls
    BY <1>4 DEF KidRefused
  <2>2. dom' \in Doms /\ dom'.parent = dom.parent /\ dom'.kids = dom.kids
    BY <1>4, <2>1 DEF KidRefused, Doms, Calls
  <2>3. Linked(dom') /\ NoCycle(dom')
    BY <2>2, SameShape
  <2> QED
    BY <1>4, <2>2, <2>3 DEF KidRefused, CallSound
<1>5. CASE FragmentDone
  <2>1. call \in Calls
    BY <1>5 DEF FragmentDone
  <2>2. CASE call.old = Nil
    BY <1>5, <2>2 DEF FragmentDone, CallSound
  <2>3. CASE call.old # Nil
    <3>1. call.old \in Node /\ call.parent \in Node /\ dom.parent[call.old] = call.parent
      BY <1>5, <2>1, <2>3 DEF FragmentDone, CallSound, Calls, NodeOrNil
    <3>2. dom' = OldRemoved(dom, call.parent, call.old) /\ call' = Idle
      BY <1>5, <2>3 DEF FragmentDone
    <3> QED
      BY <3>1, <3>2, OldRemovedIs, NilAssumption DEF CallSound
  <2> QED
    BY <2>2, <2>3
<1>6. ASSUME NEW n \in Node, RemoveChild(n)
      PROVE  TreeInv'
  BY <1>6, RemovedIs DEF RemoveChild, CallSound
<1>7. ASSUME NEW n \in Node, AdoptNode(n)
      PROVE  TreeInv'
  BY <1>7, <1>6 DEF AdoptNode
<1>8. ASSUME NEW p \in Node, NEW n \in Node, NEW o \in Node, ReplaceByNode(p, n, o)
      PROVE  TreeInv'
  <2> DEFINE d == ForReplace(dom, p, o)
             i == Inserted(d, p, n, o)
  <2>1. d \in Doms /\ d.parent = dom.parent /\ Linked(d) /\ NoCycle(d)
    BY CachesIs, SameShape DEF ForReplace
  <2>2. n # p /\ InsertAllowed(d, p, n, o) /\ dom' = OldRemoved(i, p, o)
        /\ call = Idle /\ call' = Idle
    BY <1>8 DEF ReplaceByNode, CallExpected
  <2> HIDE DEF d
  <2>3. d.parent[o] = p
    BY <2>2, NilAssumption DEF InsertAllowed
  <2>4. /\ i \in Doms /\ Linked(i) /\ NoCycle(i)
        /\ i.parent = IF n = o THEN d.parent ELSE [d.parent EXCEPT ![n] = p]
    BY <2>1, <2>2, InsertedIs DEF NodeOrNil
  <2>5. i.parent[o] # Nil
    BY <2>1, <2>3, <2>4, NilAssumption DEF Doms
  <2> HIDE DEF i
  <2>6. dom' \in Doms /\ Linked(dom') /\ NoCycle(dom')
    BY <2>2, <2>4, <2>5, OldRemovedIs
  <2> QED
    BY <2>2, <2>6 DEF CallSound
<1>9. ASSUME NEW p \in Node, NEW f \in Node, NEW o \in Node, ReplaceByFragment(p, f, o)
      PROVE  TreeInv'
  <2> DEFINE d == ForReplace(dom, p, o)
  <2>1. d \in Doms /\ Linked(d) /\ NoCycle(d)
    BY CachesIs, SameShape DEF ForReplace
  <2>2. f # p /\ InsertAllowed(d, p, f, o) /\ StartFragment(d, p, f, o, o) /\ Kind[f] = "fragment"
    BY <1>9 DEF ReplaceByFragment, CallExpected
  <2> HIDE DEF d
  <2> QED
    BY <2>1, <2>2, StartFragmentKeeps DEF NodeOrNil
<1>10. CASE UNCHANGED vars
  BY <1>10 DEF vars, CallSound
<1> QED
  BY <1>1, <1>2, <1>3, <1>4, <1>5, <1>6, <1>7, <1>8, <1>9, <1>10 DEF Next

\* For every document and every sequence of calls in which no node is inserted
\* into itself, dom and call stay well-typed, parent pointers and child lists
\* agree, and no node becomes its own ancestor.
THEOREM TreeInvariant ==
  ASSUME "selfInsert" \notin Unguarded
  PROVE  Spec => []TreeInv
<1>1. TreeInv /\ [Next]_vars => TreeInv'
  BY TreeInvStep
<1> QED
  BY <1>1, TreeInvInit, PTL DEF Spec

\* The node types and the pointers keep their types (DOMTree's TypeOK).
THEOREM TypeCorrect ==
  ASSUME "selfInsert" \notin Unguarded
  PROVE  Spec => []TypeOK
<1>1. TreeInv => TypeOK
  BY DEF TreeInv
<1> QED
  BY <1>1, TreeInvariant, PTL

\* isOwned/fOwnerNode and the sibling lists that insertBefore and removeChild
\* patch by hand always describe the same tree.
THEOREM ParentsAndKidsAgree ==
  ASSUME "selfInsert" \notin Unguarded
  PROVE  Spec => []ParentChildAgree
<1>1. TreeInv => ParentChildAgree
  BY DEF TreeInv
<1> QED
  BY <1>1, TreeInvariant, PTL

\* insertBefore's test of the target's ancestors, skipped for a node without
\* children, is enough to prevent every cycle but a node inserted into itself.
THEOREM NoCycles ==
  ASSUME "selfInsert" \notin Unguarded
  PROVE  Spec => []Acyclic
<1>1. TreeInv => Acyclic
  BY DEF TreeInv
<1> QED
  BY <1>1, TreeInvariant, PTL
-----------------------------------------------------------------------------
(***************************************************************************)
(* The caches of the document node.  They are to describe its element and  *)
(* its document type whenever no call runs; in between, replaceChild has   *)
(* cleared one of them although the old child is still there, and holds    *)
(* what it was in a local variable.                                        *)
(***************************************************************************)

\* The kinds of children that are cached, their caches, and the locals.
CacheKinds == {"element", "doctype"}

Cache(d, k) == IF k = "element" THEN d.fDocElement ELSE d.fDocType

Temp(k) == IF k = "element" THEN call.tempDocElement ELSE call.tempDocType

\* The cache and X account for the document's children of kind k.
Accounted(d, k, X) ==
  /\ KidsOfKind(d, Document, k) = ({Cache(d, k)} \ {Nil}) \cup X
  /\ Cache(d, k) \notin X

LEMMA CacheEdits ==
  ASSUME NEW d \in Doms, NEW p \in Node, NEW n \in Node, NEW k \in CacheKinds
  PROVE  /\ Cache(Cached(d, p, n), k) = IF p = Document /\ Kind[n] = k THEN n ELSE Cache(d, k)
         /\ Cache(Uncached(d, p, n), k) = IF p = Document /\ Kind[n] = k THEN Nil ELSE Cache(d, k)
         /\ Cache(d, k) \in NodeOrNil
BY DEF Cache, Cached, Uncached, Doms, CacheKinds

LEMMA AccurateIs ==
  ASSUME NEW d PROVE CachesAccurate(d) <=> \A k \in CacheKinds : Accounted(d, k, {})
BY DEF CachesAccurate, Accurate, Accounted, Cache, CacheKinds

LEMMA AdmitsIs ==
  ASSUME NEW d, NEW n, DocumentAdmits(d, n), NEW k \in CacheKinds, Kind[n] = k
  PROVE  Cache(d, k) = Nil
BY DEF DocumentAdmits, Cache, CacheKinds

\* What removeChild and insertBefore do to the caches.
LEMMA RemovedCache ==
  ASSUME NEW d \in Doms, NEW n \in Node, d.parent[n] # Nil, Linked(d), NoCycle(d),
         NEW k \in CacheKinds
  PROVE  Cache(Removed(d, n), k) =
           IF d.parent[n] = Document /\ Kind[n] = k THEN Nil ELSE Cache(d, k)
<1> DEFINE u == Unlink(d, n)
           q == d.parent[n]
<1>1. q \in Node /\ u \in Doms /\ u.fDocElement = d.fDocElement /\ u.fDocType = d.fDocType
  BY UnlinkIs DEF Doms, NodeOrNil
<1>2. Removed(d, n) = Uncached(u, q, n)
  BY DEF Removed
<1> HIDE DEF u, q
<1>3. Cache(Uncached(u, q, n), k) = IF q = Document /\ Kind[n] = k THEN Nil ELSE Cache(u, k)
  BY <1>1, CacheEdits
<1>4. Cache(u, k) = Cache(d, k)
  BY <1>1 DEF Cache
<1> QED
  BY <1>2, <1>3, <1>4 DEF q

LEMMA InsertedCache ==
  ASSUME NEW d \in Doms, NEW p \in Node, NEW n \in Node, NEW r \in NodeOrNil,
         InsertAllowed(d, p, n, r), n # p, n # r, Linked(d), NoCycle(d), NEW k \in CacheKinds
  PROVE  Cache(Inserted(d, p, n, r), k) =
           IF p = Document /\ Kind[n] = k THEN n
           ELSE IF d.parent[n] = Document /\ Kind[n] = k THEN Nil ELSE Cache(d, k)
<1> DEFINE e == IF d.parent[n] = Nil THEN d ELSE Removed(d, n)
           l == Link(e, p, n, r)
<1>1. e \in Doms
  BY RemovedIs
<1>2. Cache(e, k) = IF d.parent[n] = Document /\ Kind[n] = k THEN Nil ELSE Cache(d, k)
  BY RemovedCache, TreeAssumption, NilAssumption
<1>3. Inserted(d, p, n, r) = Cached(l, p, n)
  BY DEF Inserted
<1> HIDE DEF e
<1>4. Cached(l, p, n).fDocElement =
        (IF p = Document /\ Kind[n] = "element" THEN n ELSE e.fDocElement)
      /\ Cached(l, p, n).fDocType = (IF p = Document /\ Kind[n] = "doctype" THEN n ELSE e.fDocType)
  BY <1>1 DEF Cached, Link, Doms
<1> QED
  BY <1>2, <1>3, <1>4 DEF Cache, CacheKinds

LEMMA RemovedAccounted ==
  ASSUME NEW d \in Doms, NEW n \in Node, d.parent[n] # Nil, Linked(d), NoCycle(d),
         NEW k \in CacheKinds, Accounted(d, k, {})
  PROVE  Accounted(Removed(d, n), k, {})
<1> DEFINE u == Removed(d, n)
<1>1. u.parent = [d.parent EXCEPT ![n] = Nil] /\ d.parent \in [Node -> NodeOrNil]
  BY RemovedIs DEF Doms
<1>2. Cache(u, k) = IF d.parent[n] = Document /\ Kind[n] = k THEN Nil ELSE Cache(d, k)
  BY RemovedCache
<1> HIDE DEF u
<1>3. Document # Nil
  BY TreeAssumption, NilAssumption
<1> QED
  BY <1>1, <1>2, <1>3 DEF Accounted, KidsOfKind, u

LEMMA InsertedAccounted ==
  ASSUME NEW d \in Doms, NEW p \in Node, NEW n \in Node, NEW r \in NodeOrNil,
         InsertAllowed(d, p, n, r), n # p, Linked(d), NoCycle(d),
         NEW k \in CacheKinds, NEW X \in SUBSET Node, n \notin X, Accounted(d, k, X)
  PROVE  Accounted(Inserted(d, p, n, r), k, X)
<1> DEFINE u == Inserted(d, p, n, r)
<1> SUFFICES Accounted(u, k, X)
  OBVIOUS
<1>1. Document # Nil /\ n # Nil /\ Nil \notin X /\ d.parent \in [Node -> NodeOrNil]
  BY TreeAssumption, NilAssumption DEF Doms
<1>2. u.parent = IF n = r THEN d.parent ELSE [d.parent EXCEPT ![n] = p]
  BY InsertedIs
<1>3. p = Document /\ Kind[n] = k => Cache(d, k) = Nil
  BY AdmitsIs DEF InsertAllowed
<1>4. CASE n = r
  <2>1. d.parent[n] = p
    BY <1>1, <1>4 DEF InsertAllowed
  <2>2. ~(p = Document /\ Kind[n] = k)
    BY <1>1, <1>3, <2>1 DEF Accounted, KidsOfKind
  <2>3. Cache(u, k) = Cache(d, k)
    BY <1>4, <2>2, CacheEdits DEF Inserted
  <2> HIDE DEF u
  <2> QED
    BY <1>2, <1>4, <2>3 DEF Accounted, KidsOfKind
<1>5. CASE n # r
  <2>1. Cache(u, k) = IF p = Document /\ Kind[n] = k THEN n
                      ELSE IF d.parent[n] = Document /\ Kind[n] = k THEN Nil ELSE Cache(d, k)
    BY <1>5, InsertedCache
  <2> HIDE DEF u
  <2>2. CASE Kind[n] # k
    BY <1>1, <1>2, <1>5, <2>1, <2>2 DEF Accounted, KidsOfKind
  <2>3. CASE Kind[n] = k /\ p = Document
    BY <1>1, <1>2, <1>3, <1>5, <2>1, <2>3 DEF Accounted, KidsOfKind
  <2>4. CASE Kind[n] = k /\ p # Document
    BY <1>1, <1>2, <1>5, <2>1, <2>4 DEF Accounted, KidsOfKind
  <2> QED
    BY <2>2, <2>3, <2>4
<1> QED
  BY <1>4, <1>5

\* After the insertion the old child goes, and with it what it accounted for.
LEMMA OldRemovedAccounted ==
  ASSUME NEW d \in Doms, NEW p \in Node, NEW o \in Node, d.parent[o] = p, Linked(d), NoCycle(d),
         NEW k \in CacheKinds,
         Accounted(d, k, IF p = Document /\ Kind[o] = k THEN {o} ELSE {})
  PROVE  Accounted(OldRemoved(d, p, o), k, {})
<1> DEFINE u == OldRemoved(d, p, o)
<1>1. Document # Nil /\ d.parent[o] # Nil /\ d.parent \in [Node -> NodeOrNil]
  BY TreeAssumption, NilAssumption DEF Doms
<1>2. CASE p = Document /\ Kind[o] \in CacheKinds
  <2>1. u = Unlink(d, o)
    BY <1>2 DEF OldRemoved, CacheKinds
  <2>2. u.parent = [d.parent EXCEPT ![o] = Nil] /\ Cache(u, k) = Cache(d, k)
    BY <1>1, <2>1, UnlinkIs DEF Cache
  <2> HIDE DEF u
  <2> QED
    BY <1>1, <1>2, <2>2 DEF Accounted, KidsOfKind, u
<1>3. CASE ~(p = Document /\ Kind[o] \in CacheKinds)
  <2>1. u = Removed(d, o)
    BY <1>3 DEF OldRemoved, CacheKinds
  <2>2. Accounted(d, k, {})
    BY <1>3
  <2> QED
    BY <1>1, <2>1, <2>2, RemovedAccounted
<1> QED
  BY <1>2, <1>3

LEMMA AllowedAfter ==
  ASSUME NEW d \in Doms, NEW u, NEW n \in Node, NEW q \in NodeOrNil, AllowedKids(d),
         u.parent = [d.parent EXCEPT ![n] = q],
         q # Nil => KidOK(q, n) /\ n \notin Foreign
  PROVE  AllowedKids(u)
BY DEF AllowedKids, Doms

LEMMA InsertedAllowed ==
  ASSUME NEW d \in Doms, NEW p \in Node, NEW n \in Node, NEW r \in NodeOrNil,
         InsertAllowed(d, p, n, r), n # p, Linked(d), NoCycle(d), Kind[n] # "fragment",
         AllowedKids(d)
  PROVE  AllowedKids(Inserted(d, p, n, r))
<1>1. Inserted(d, p, n, r).parent = IF n = r THEN d.parent ELSE [d.parent EXCEPT ![n] = p]
  BY InsertedIs
<1>2. CASE n = r
  BY <1>1, <1>2 DEF AllowedKids
<1>3. CASE n # r
  BY <1>1, <1>3, AllowedAfter DEF InsertAllowed, NodeOrNil
<1> QED
  BY <1>2, <1>3
-----------------------------------------------------------------------------
(* The inductive invariant of the caches. *)

\* The child of kind k that replaceChild is about to take out.
Outgoing(k) == {o \in {call.old} : o # Nil /\ Kind[o] = k}

\* What the cache was when the loop began.
AtStart(k) == IF Outgoing(k) = {} THEN Temp(k) ELSE Nil

\* What insertBefore's prescan has found of the kids.
KidsFit ==
  call # Idle =>
    /\ Kind[call.frag] = "fragment" /\ call.frag \notin Foreign /\ call.parent \notin ReadOnly
    /\ \A x \in Node : dom.parent[x] = call.frag => KidOK(call.parent, x)

\* While a fragment goes into the document, an element may have come with it;
\* then no other kid can be refused.
CachesKept ==
  \A k \in CacheKinds :
    IF call = Idle \/ call.parent # Document THEN Accounted(dom, k, {})
    ELSE /\ \A x, y \in KidsOfKind(dom, call.frag, k) : x = y
         /\ Accounted(dom, k, Outgoing(k))
         /\ \A o \in Outgoing(k) : Temp(k) = o
         /\ \/ Cache(dom, k) = AtStart(k)
            \/ /\ k = "element" /\ KidsOfKind(dom, call.frag, k) = {}
               /\ call.frag \notin ReadOnly

DocInv == TreeInv /\ AllowedKids(dom) /\ KidsFit /\ CachesKept

LEMMA DocInvInit == Init => DocInv
<1> SUFFICES ASSUME Init PROVE DocInv
  OBVIOUS
<1>1. TreeInv
  BY TreeInvInit
<1>2. CachesAccurate(dom) /\ AllowedKids(dom)
  BY TreeAssumption, KidsAssumption DEF Init
<1>3. CachesKept
  BY <1>2, AccurateIs DEF CachesKept, Init
<1> QED
  BY <1>1, <1>2, <1>3 DEF DocInv, KidsFit, Init

\* A step after which no call runs.
LEMMA AtRest ==
  ASSUME TreeInv', call' = Idle, AllowedKids(dom'),
         \A k \in CacheKinds : Accounted(dom', k, {})
  PROVE  DocInv'
BY DEF DocInv, KidsFit, CachesKept, Accounted, Cache, KidsOfKind, AllowedKids

LEMMA ForReplaceIs ==
  ASSUME DocInv, call = Idle, NEW p \in Node, NEW o \in Node, dom.parent[o] = p,
         NEW k \in CacheKinds
  PROVE  LET d == ForReplace(dom, p, o)
             X == IF p = Document /\ Kind[o] = k THEN {o} ELSE {}
         IN  /\ Accounted(d, k, X)
             /\ X = {o} => Cache(dom, k) = o /\ Cache(d, k) = Nil
             /\ X = {} => Cache(d, k) = Cache(dom, k)
<1> DEFINE d == ForReplace(dom, p, o)
<1>1. dom \in Doms
  BY DEF DocInv, TreeInv, TypeOK
<1>2. /\ d.parent = dom.parent
      /\ Cache(d, k) = IF p = Document /\ Kind[o] = k THEN Nil ELSE Cache(dom, k)
  <2>1. d = Uncached(dom, p, o)
    BY DEF ForReplace
  <2> HIDE DEF d
  <2>2. Uncached(dom, p, o).parent = dom.parent
    BY <1>1, CachesIs
  <2>3. Cache(Uncached(dom, p, o), k) =
          IF p = Document /\ Kind[o] = k THEN Nil ELSE Cache(dom, k)
    BY <1>1, CacheEdits
  <2> QED
    BY <2>1, <2>2, <2>3
<1>3. Accounted(dom, k, {}) /\ o # Nil
  BY NilAssumption DEF DocInv, CachesKept
<1> HIDE DEF d
<1>4. CASE p = Document /\ Kind[o] = k
  <2>1. o \in KidsOfKind(dom, Document, k)
    BY <1>4 DEF KidsOfKind
  <2>2. Cache(dom, k) = o /\ Cache(d, k) = Nil
    BY <1>2, <1>3, <1>4, <2>1 DEF Accounted
  <2>3. Accounted(d, k, {o})
    BY <1>2, <1>3, <2>2 DEF Accounted, KidsOfKind
  <2> QED
    BY <1>4, <2>2, <2>3 DEF d
<1>5. CASE ~(p = Document /\ Kind[o] = k)
  <2>1. Accounted(d, k, {}) /\ Cache(d, k) = Cache(dom, k)
    BY <1>2, <1>3, <1>5 DEF Accounted, KidsOfKind
  <2> QED
    BY <1>5, <2>1 DEF d
<1> QED
  BY <1>4, <1>5

LEMMA InsertNodeCaches ==
  ASSUME Unguarded = {}, DocInv, TreeInv', NEW p \in Node, NEW n \in Node, NEW r \in NodeOrNil,
         InsertNode(p, n, r)
  PROVE  DocInv'
<1>1. /\ dom \in Doms /\ Linked(dom) /\ NoCycle(dom) /\ AllowedKids(dom)
      /\ \A k \in CacheKinds : Accounted(dom, k, {})
  BY DEF DocInv, TreeInv, TypeOK, ParentChildAgree, Acyclic, CachesKept, InsertNode
<1>2. /\ n # p /\ Kind[n] # "fragment" /\ InsertAllowed(dom, p, n, r) /\ call' = Idle
      /\ dom' = Inserted(dom, p, n, r)
  BY DEF InsertNode, CallExpected
<1>3. AllowedKids(dom')
  BY <1>1, <1>2, InsertedAllowed
<1>4. \A k \in CacheKinds : Accounted(dom', k, {})
  BY <1>1, <1>2, InsertedAccounted
<1> QED
  BY <1>2, <1>3, <1>4, AtRest

LEMMA RemoveChildCaches ==
  ASSUME DocInv, TreeInv', NEW n \in Node, RemoveChild(n) PROVE DocInv'
<1>1. /\ dom \in Doms /\ Linked(dom) /\ NoCycle(dom) /\ AllowedKids(dom)
      /\ \A k \in CacheKinds : Accounted(dom, k, {})
  BY DEF DocInv, TreeInv, TypeOK, ParentChildAgree, Acyclic, CachesKept, RemoveChild
<1>2. dom.parent[n] # Nil /\ dom' = Removed(dom, n) /\ call' = Idle
  BY DEF RemoveChild
<1>3. AllowedKids(dom')
  BY <1>1, <1>2, RemovedIs, AllowedAfter DEF NodeOrNil
<1>4. \A k \in CacheKinds : Accounted(dom', k, {})
  BY <1>1, <1>2, RemovedAccounted
<1> QED
  BY <1>2, <1>3, <1>4, AtRest

LEMMA OldRemovedAllowed ==
  ASSUME NEW d \in Doms, NEW p \in Node, NEW o \in Node, d.parent[o] # Nil,
         Linked(d), NoCycle(d), AllowedKids(d)
  PROVE  AllowedKids(OldRemoved(d, p, o))
<1>1. OldRemoved(d, p, o).parent = [d.parent EXCEPT ![o] = Nil]
  BY UnlinkIs, RemovedIs DEF OldRemoved
<1> QED
  BY <1>1, AllowedAfter DEF NodeOrNil

LEMMA ReplaceByNodeCaches ==
  ASSUME Unguarded = {}, DocInv, TreeInv', NEW p \in Node, NEW n \in Node, NEW o \in Node,
         ReplaceByNode(p, n, o)
  PROVE  DocInv'
<1> DEFINE d == ForReplace(dom, p, o)
           i == Inserted(d, p, n, o)
           X(k) == IF p = Document /\ Kind[o] = k THEN {o} ELSE {}
<1>1. dom \in Doms /\ Linked(dom) /\ NoCycle(dom) /\ AllowedKids(dom)
  BY DEF DocInv, TreeInv, TypeOK, ParentChildAgree, Acyclic
<1>2. /\ n # p /\ Kind[n] # "fragment" /\ InsertAllowed(d, p, n, o) /\ call = Idle
      /\ dom' = OldRemoved(i, p, o) /\ call' = Idle
      /\ \A k \in CacheKinds : n \notin X(k)
  BY DEF ReplaceByNode, CallExpected, CacheKinds
<1>3. d \in Doms /\ d.parent = dom.parent /\ Linked(d) /\ NoCycle(d)
  BY <1>1, CachesIs, SameShape DEF ForReplace
<1>4. d.parent[o] = p /\ AllowedKids(d)
  BY <1>1, <1>2, <1>3, NilAssumption DEF InsertAllowed, AllowedKids
<1>5. \A k \in CacheKinds : Accounted(d, k, X(k)) /\ X(k) \in SUBSET Node
  BY <1>2, <1>3, <1>4, ForReplaceIs
<1> HIDE DEF d, X
<1>6. /\ i \in Doms /\ Linked(i) /\ NoCycle(i)
      /\ i.parent = IF n = o THEN d.parent ELSE [d.parent EXCEPT ![n] = p]
  BY <1>2, <1>3, InsertedIs DEF NodeOrNil
<1>7. AllowedKids(i) /\ \A k \in CacheKinds : Accounted(i, k, X(k))
  BY <1>2, <1>3, <1>4, <1>5, InsertedAllowed, InsertedAccounted DEF NodeOrNil
<1> HIDE DEF i
<1>8. i.parent[o] = p /\ i.parent[o] # Nil
  BY <1>3, <1>4, <1>6, NilAssumption DEF Doms
<1>9. AllowedKids(dom')
  BY <1>2, <1>6, <1>7, <1>8, OldRemovedAllowed
<1>10. \A k \in CacheKinds : Accounted(dom', k, {})
  BY <1>2, <1>6, <1>7, <1>8, OldRemovedAccounted DEF X
<1> QED
  BY <1>2, <1>9, <1>10, AtRest

\* The loop begins: nothing has come yet.
LEMMA StartCaches ==
  ASSUME Unguarded = {}, DocInv, call = Idle, TreeInv', NEW d \in Doms,
         d.parent = dom.parent,
         NEW p \in Node, NEW f \in Node, NEW r \in NodeOrNil, NEW o \in NodeOrNil,
         Kind[f] = "fragment", f \notin Foreign, p \notin ReadOnly, CallExpected(dom, p, f, o),
         StartFragment(d, p, f, r, o),
         o = Nil => d = dom,
         o # Nil => dom.parent[o] = p /\ d = ForReplace(dom, p, o)
  PROVE  DocInv'
<1>1. /\ dom' = d /\ call'.parent = p /\ call'.frag = f /\ call'.old = o /\ call' # Idle
      /\ call'.tempDocElement = dom.fDocElement /\ call'.tempDocType = dom.fDocType
      /\ \A x \in Node : d.parent[x] = f => KidOK(p, x)
  <2>1. /\ call' = [parent |-> p, frag |-> f, ref |-> r, old |-> o, kids |-> d.kids[f],
                    tempDocElement |-> dom.fDocElement, tempDocType |-> dom.fDocType]
        /\ dom' = d /\ \A x \in Node : d.parent[x] = f => KidOK(p, x)
    BY DEF StartFragment
  <2>2. call'.parent # Nil
    BY <2>1, NilAssumption
  <2> QED
    BY <2>1, <2>2 DEF Idle
<1>2. AllowedKids(dom') /\ KidsFit'
  BY <1>1 DEF DocInv, AllowedKids, KidsFit
<1>3. ASSUME NEW k \in CacheKinds PROVE Temp(k)' = Cache(dom, k)
  BY <1>1 DEF Temp, Cache
<1>4. ASSUME p # Document, NEW k \in CacheKinds PROVE Accounted(dom', k, {})
  <2>1. CASE o = Nil
    BY <1>1, <2>1 DEF DocInv, CachesKept
  <2>2. CASE o # Nil
    <3>1. o \in Node /\ d = ForReplace(dom, p, o) /\ dom.parent[o] = p
      BY <2>2 DEF NodeOrNil
    <3>2. Accounted(d, k, IF p = Document /\ Kind[o] = k THEN {o} ELSE {})
      BY <3>1, ForReplaceIs
    <3> QED
      BY <1>1, <1>4, <3>2
  <2> QED
    BY <2>1, <2>2
<1>5. ASSUME p = Document, NEW k \in CacheKinds
      PROVE  /\ \A x, y \in KidsOfKind(dom', f, k) : x = y
             /\ Accounted(dom', k, Outgoing(k)')
             /\ \A x \in Outgoing(k)' : Temp(k)' = x
             /\ Cache(dom', k) = AtStart(k)'
  <2>1. \A x, y \in KidsOfKind(dom', f, k) : x = y
    BY <1>1, <1>5 DEF CallExpected, CacheKinds, KidsOfKind
  <2>2. CASE o = Nil
    <3>1. Outgoing(k)' = {}
      BY <1>1, <2>2 DEF Outgoing
    <3>2. Accounted(dom', k, {})
      BY <1>1, <2>2 DEF DocInv, CachesKept
    <3> QED
      BY <1>1, <1>3, <2>1, <2>2, <3>1, <3>2 DEF AtStart
  <2>3. CASE o # Nil
    <3> DEFINE X == IF p = Document /\ Kind[o] = k THEN {o} ELSE {}
    <3>1. Outgoing(k)' = X
      BY <1>1, <1>5, <2>3 DEF Outgoing
    <3>2. /\ Accounted(d, k, X)
          /\ X = {o} => Cache(dom, k) = o /\ Cache(d, k) = Nil
          /\ X = {} => Cache(d, k) = Cache(dom, k)
      BY <2>3, ForReplaceIs DEF NodeOrNil
    <3>3. X = {o} \/ X = {}
      OBVIOUS
    <3> HIDE DEF X
    <3> QED
      BY <1>1, <1>3, <2>1, <3>1, <3>2, <3>3 DEF AtStart
  <2> QED
    BY <2>2, <2>3
<1>6. CachesKept'
  <2> SUFFICES ASSUME NEW k \in CacheKinds
               PROVE  IF p # Document THEN Accounted(dom', k, {})
                      ELSE /\ \A x, y \in KidsOfKind(dom', f, k) : x = y
                           /\ Accounted(dom', k, Outgoing(k)')
                           /\ \A x \in Outgoing(k)' : Temp(k)' = x
                           /\ Cache(dom', k) = AtStart(k)'
    BY <1>1 DEF CachesKept, Accounted, KidsOfKind, Cache
  <2> QED
    BY <1>4, <1>5
<1> QED
  BY <1>2, <1>6 DEF DocInv, AllowedKids

\* The loop's next kid.
LEMMA KidIs ==
  ASSUME TreeInv, call # Idle, HasKids(dom, call.frag)
  PROVE  LET n == Head(dom.kids[call.frag])
         IN  /\ call \in Calls /\ call.parent \in Node /\ call.frag \in Node
             /\ call.ref \in NodeOrNil /\ call.old \in NodeOrNil
             /\ n \in Node /\ dom.parent[n] = call.frag
             /\ n # call.parent /\ n # call.ref /\ n # call.old
<1> DEFINE n == Head(dom.kids[call.frag])
<1>1. /\ call \in Calls /\ call.parent \in Node /\ call.frag \in Node
      /\ call.ref \in NodeOrNil /\ call.old \in NodeOrNil
  BY DEF TreeInv, TypeOK, Calls
<1>2. n \in Node /\ dom.parent[n] = call.frag
  <2>1. dom.kids[call.frag] \in Seq(Node) /\ dom.kids[call.frag] # <<>>
    BY <1>1 DEF TreeInv, TypeOK, HasKids, Doms
  <2>2. n \in Node /\ Occurs(n, dom.kids[call.frag])
    BY <2>1 DEF Occurs
  <2> QED
    BY <1>1, <2>2, LinkedIs DEF TreeInv, ParentChildAgree
<1> HIDE DEF n
<1>3. n # call.parent /\ n # call.ref /\ n # call.old
  BY <1>1, <1>2, NilAssumption DEF TreeInv, CallSound
<1> QED
  BY <1>1, <1>2, <1>3 DEF n

LEMMA MoveKidCaches ==
  ASSUME DocInv, TreeInv', MoveKid PROVE DocInv'
<1> DEFINE n == Head(dom.kids[call.frag])
           p == call.parent
           f == call.frag
<1>1. /\ dom \in Doms /\ Linked(dom) /\ NoCycle(dom) /\ AllowedKids(dom) /\ TreeInv
      /\ call # Idle /\ HasKids(dom, f) /\ call' = call /\ Document # Nil
      /\ InsertAllowed(dom, p, n, call.ref) /\ dom' = Inserted(dom, p, n, call.ref)
      /\ \A x \in Node : dom.parent[x] = f => KidOK(p, x)
      /\ Kind[f] = "fragment" /\ Kind[Document] = "document"
  BY TreeAssumption, NilAssumption
     DEF DocInv, TreeInv, TypeOK, ParentChildAgree, Acyclic, MoveKid, KidsFit
<1>2. /\ p \in Node /\ f \in Node /\ call.ref \in NodeOrNil /\ call.old \in NodeOrNil
      /\ n \in Node /\ dom.parent[n] = f /\ n # p /\ n # call.ref /\ n # call.old
  BY <1>1, KidIs
<1> HIDE DEF n
<1>3. f # Nil /\ f # Document /\ f # p
  BY <1>1, <1>2, NilAssumption DEF TreeInv, CallSound
<1>4. Kind[n] \in Content /\ Kind[n] # "fragment" /\ Kind[n] # "doctype" /\ f \notin ReadOnly
  BY <1>1, <1>2, <1>3 DEF AllowedKids, KidOK, Content, InsertAllowed
<1>5. AllowedKids(dom')
  BY <1>1, <1>2, <1>4, InsertedAllowed
<1>6. dom'.parent = [dom.parent EXCEPT ![n] = p] /\ dom.parent \in [Node -> NodeOrNil]
  <2>1. Inserted(dom, p, n, call.ref).parent = [dom.parent EXCEPT ![n] = p]
    BY <1>1, <1>2, InsertedIs, SMTT(40)
  <2> QED
    BY <1>1, <2>1 DEF Doms
<1>7. KidsFit'
  BY <1>1, <1>2, <1>3, <1>6 DEF DocInv, KidsFit
<1>8. ASSUME NEW k \in CacheKinds
      PROVE  Cache(dom', k) = IF p = Document /\ Kind[n] = k THEN n ELSE Cache(dom, k)
  BY <1>1, <1>2, <1>3, InsertedCache
<1>9. ASSUME NEW k \in CacheKinds, p # Document PROVE Accounted(dom', k, {})
  <2>1. Accounted(dom, k, {})
    BY <1>9 DEF DocInv, CachesKept
  <2> QED
    BY <1>1, <1>2, <2>1, InsertedAccounted
<1>10. ASSUME NEW k \in CacheKinds, p = Document
      PROVE  /\ \A x, y \in KidsOfKind(dom', f, k) : x = y
             /\ Accounted(dom', k, Outgoing(k))
             /\ \A o \in Outgoing(k) : Temp(k) = o
             /\ \/ Cache(dom', k) = AtStart(k)
                \/ k = "element" /\ KidsOfKind(dom', f, k) = {} /\ f \notin ReadOnly
  <2>1. /\ \A x, y \in KidsOfKind(dom, f, k) : x = y
        /\ Accounted(dom, k, Outgoing(k))
        /\ \A o \in Outgoing(k) : Temp(k) = o
        /\ \/ Cache(dom, k) = AtStart(k)
           \/ k = "element" /\ KidsOfKind(dom, f, k) = {} /\ f \notin ReadOnly
    BY <1>1, <1>10 DEF DocInv, CachesKept
  <2>2. Outgoing(k) \in SUBSET Node /\ n \notin Outgoing(k)
    BY <1>2 DEF Outgoing, NodeOrNil
  <2>3. Accounted(dom', k, Outgoing(k))
    BY <1>1, <1>2, <2>1, <2>2, InsertedAccounted
  <2>4. KidsOfKind(dom', f, k) = KidsOfKind(dom, f, k) \ {n}
    BY <1>2, <1>3, <1>6 DEF KidsOfKind
  <2>5. CASE Kind[n] = k
    <3>1. k = "element"
      BY <1>4, <2>5 DEF CacheKinds
    <3>2. n \in KidsOfKind(dom, f, k)
      BY <1>2, <2>5 DEF KidsOfKind
    <3> QED
      BY <1>4, <2>1, <2>3, <2>4, <3>1, <3>2
  <2>6. CASE Kind[n] # k
    BY <1>8, <2>1, <2>3, <2>4, <2>6
  <2> QED
    BY <2>5, <2>6
<1>11. CachesKept'
  <2> SUFFICES ASSUME NEW k \in CacheKinds
               PROVE  IF p # Document THEN Accounted(dom', k, {})
                      ELSE /\ \A x, y \in KidsOfKind(dom', f, k) : x = y
                           /\ Accounted(dom', k, Outgoing(k))
                           /\ \A o \in Outgoing(k) : Temp(k) = o
                           /\ \/ Cache(dom', k) = AtStart(k)
                              \/ k = "element" /\ KidsOfKind(dom', f, k) = {} /\ f \notin ReadOnly
    BY <1>1 DEF CachesKept, Accounted, KidsOfKind, Cache, Outgoing, Temp, AtStart
  <2> QED
    BY <1>9, <1>10
<1> QED
  BY <1>5, <1>7, <1>11 DEF DocInv, AllowedKids

\* A kid that the document refuses is an element: the only one there was.
LEMMA RefusedIs ==
  ASSUME DocInv, KidRefused, call.parent = Document, NEW k \in CacheKinds
  PROVE  Cache(dom, k) = AtStart(k)
<1> DEFINE n == Head(dom.kids[call.frag])
           f == call.frag
<1> SUFFICES ASSUME k = "element", KidsOfKind(dom, f, k) = {}, f \notin ReadOnly PROVE FALSE
  BY DEF DocInv, CachesKept, KidRefused
<1>1. /\ AllowedKids(dom) /\ TreeInv /\ call # Idle /\ HasKids(dom, f) /\ Document # Nil
      /\ ~InsertAllowed(dom, Document, n, call.ref) /\ Document \notin ReadOnly
      /\ \A x \in Node : dom.parent[x] = f => KidOK(Document, x)
      /\ Kind[f] = "fragment" /\ Kind[Document] = "document" /\ Document \in Node
      /\ f \notin Foreign
  BY TreeAssumption, NilAssumption DEF DocInv, KidRefused, KidsFit
<1>2. /\ f \in Node /\ n \in Node /\ dom.parent[n] = f /\ n # call.ref
      /\ call.ref # Nil => dom.parent[call.ref] = Document
  BY <1>1, KidIs DEF TreeInv, CallSound
<1> HIDE DEF n
<1>3. Kind[n] \in Content /\ Kind[n] # "element" /\ KidOK(Document, n) /\ n \notin Foreign
  BY <1>1, <1>2, NilAssumption DEF AllowedKids, KidOK, Content, KidsOfKind
<1>4. DocumentAdmits(dom, n)
  BY <1>3 DEF DocumentAdmits, Content
<1>5. n \notin Ancestors(dom, Document)
  <2>1. dom.parent[Document] = Nil
    BY <1>1 DEF AllowedKids, KidOK, Content
  <2>2. {Nil} \in SUBSET NodeOrNil /\ n \notin {Nil}
    BY <1>2, NilAssumption DEF NodeOrNil
  <2> QED
    BY <2>1, <2>2 DEF Ancestors
<1> QED
  BY <1>1, <1>2, <1>3, <1>4, <1>5 DEF InsertAllowed

LEMMA KidRefusedCaches ==
  ASSUME DocInv, TreeInv', KidRefused PROVE DocInv'
<1>1. /\ dom \in Doms /\ AllowedKids(dom) /\ TreeInv
      /\ call \in Calls /\ call # Idle /\ call' = Idle /\ call.old \in NodeOrNil
  BY DEF DocInv, TreeInv, TypeOK, KidRefused, Calls
<1>2. CASE call.parent = Document /\ call.old # Nil
  <2>1. dom' = [dom EXCEPT !.fDocElement = call.tempDocElement, !.fDocType = call.tempDocType]
    BY <1>2 DEF KidRefused
  <2>2. dom'.parent = dom.parent /\ \A k \in CacheKinds : Cache(dom', k) = Temp(k)
    BY <1>1, <2>1 DEF Doms, Cache, Temp, CacheKinds
  <2>3. ASSUME NEW k \in CacheKinds PROVE Accounted(dom', k, {})
    <3>1. Accounted(dom, k, Outgoing(k)) /\ \A o \in Outgoing(k) : Temp(k) = o
      BY <1>1, <1>2 DEF DocInv, CachesKept
    <3>2. Cache(dom, k) = AtStart(k)
      BY <1>2, RefusedIs
    <3>3. Outgoing(k) = {} \/ Outgoing(k) = {call.old}
      BY DEF Outgoing
    <3> QED
      BY <1>2, <2>2, <3>1, <3>2, <3>3 DEF Accounted, AtStart, KidsOfKind
  <2>4. AllowedKids(dom')
    BY <1>1, <2>2 DEF AllowedKids
  <2> QED
    BY <1>1, <2>3, <2>4, AtRest
<1>3. CASE ~(call.parent = Document /\ call.old # Nil)
  <2>1. dom' = dom
    BY <1>3 DEF KidRefused
  <2>2. ASSUME NEW k \in CacheKinds PROVE Accounted(dom', k, {})
    <3>1. call.old = Nil => Outgoing(k) = {}
      BY DEF Outgoing
    <3>2. Accounted(dom, k, IF call.parent = Document THEN Outgoing(k) ELSE {})
      BY <1>1 DEF DocInv, CachesKept
    <3> QED
      BY <1>3, <2>1, <3>1, <3>2
  <2> QED
    BY <1>1, <2>1, <2>2, AtRest
<1> QED
  BY <1>2, <1>3

LEMMA FragmentDoneCaches ==
  ASSUME DocInv, TreeInv', FragmentDone PROVE DocInv'
<1> DEFINE p == call.parent
           o == call.old
<1>1. /\ dom \in Doms /\ Linked(dom) /\ NoCycle(dom) /\ AllowedKids(dom)
      /\ p \in Node /\ o \in NodeOrNil /\ call # Idle /\ call' = Idle
      /\ o # Nil => dom.parent[o] = p
  BY DEF DocInv, TreeInv, TypeOK, ParentChildAgree, Acyclic, FragmentDone, Calls, CallSound
<1>2. ASSUME NEW k \in CacheKinds
      PROVE  Accounted(dom, k, IF p = Document THEN Outgoing(k) ELSE {})
  BY <1>1 DEF DocInv, CachesKept
<1>3. CASE o = Nil
  <2>1. \A k \in CacheKinds : Outgoing(k) = {}
    BY <1>3 DEF Outgoing
  <2>2. dom' = dom
    BY <1>3 DEF FragmentDone
  <2> QED
    BY <1>1, <1>2, <2>1, <2>2, AtRest
<1>4. CASE o # Nil
  <2>1. o \in Node /\ dom.parent[o] = p /\ dom.parent[o] # Nil
    BY <1>1, <1>4, NilAssumption DEF NodeOrNil
  <2>2. dom' = OldRemoved(dom, p, o)
    BY <1>4 DEF FragmentDone
  <2>3. AllowedKids(dom')
    BY <1>1, <2>1, <2>2, OldRemovedAllowed
  <2>4. ASSUME NEW k \in CacheKinds PROVE Accounted(dom', k, {})
    <3>1. Accounted(dom, k, IF p = Document /\ Kind[o] = k THEN {o} ELSE {})
      BY <1>2, <1>4 DEF Outgoing
    <3> QED
      BY <1>1, <2>1, <2>2, <3>1, OldRemovedAccounted
  <2> QED
    BY <1>1, <2>3, <2>4, AtRest
<1> QED
  BY <1>3, <1>4

LEMMA DocInvStep ==
  ASSUME Unguarded = {}, DocInv, [Next]_vars PROVE DocInv'
<1>1. TreeInv' /\ dom \in Doms
  BY TreeInvStep DEF DocInv, TreeInv, TypeOK
<1>2. ASSUME NEW p \in Node, NEW n \in Node, NEW r \in NodeOrNil, InsertNode(p, n, r)
      PROVE  DocInv'
  BY <1>1, <1>2, InsertNodeCaches
<1>3. ASSUME NEW p \in Node, NEW f \in Node, NEW r \in NodeOrNil, InsertFragment(p, f, r)
      PROVE  DocInv'
  <2>1. CallExpected(dom, p, f, Nil) /\ InsertAllowed(dom, p, f, r) /\ Kind[f] = "fragment"
        /\ StartFragment(dom, p, f, r, Nil) /\ call = Idle
    BY <1>3 DEF InsertFragment
  <2>2. f \notin Foreign /\ p \notin ReadOnly /\ Nil \in NodeOrNil
    BY <2>1 DEF InsertAllowed, NodeOrNil
  <2> QED
    BY <1>1, <2>1, <2>2, StartCaches
<1>4. ASSUME NEW n \in Node, RemoveChild(n) \/ AdoptNode(n) PROVE DocInv'
  BY <1>1, <1>4, RemoveChildCaches DEF AdoptNode
<1>5. ASSUME NEW p \in Node, NEW n \in Node, NEW o \in Node, ReplaceByNode(p, n, o)
      PROVE  DocInv'
  BY <1>1, <1>5, ReplaceByNodeCaches
<1>6. ASSUME NEW p \in Node, NEW f \in Node, NEW o \in Node, ReplaceByFragment(p, f, o)
      PROVE  DocInv'
  <2> DEFINE d == ForReplace(dom, p, o)
  <2>1. CallExpected(dom, p, f, o) /\ InsertAllowed(d, p, f, o) /\ Kind[f] = "fragment"
        /\ StartFragment(d, p, f, o, o) /\ call = Idle
    BY <1>6 DEF ReplaceByFragment
  <2>2. d \in Doms /\ d.parent = dom.parent
    BY <1>1, CachesIs DEF ForReplace
  <2>3. d = ForReplace(dom, p, o)
    OBVIOUS
  <2> HIDE DEF d
  <2>4. f \notin Foreign /\ p \notin ReadOnly /\ o \in NodeOrNil /\ o # Nil /\ dom.parent[o] = p
    BY <2>1, <2>2, NilAssumption DEF InsertAllowed, NodeOrNil
  <2> QED
    BY <1>1, <2>1, <2>2, <2>3, <2>4, StartCaches
<1>7. CASE UNCHANGED vars
  BY <1>1, <1>7 DEF vars, DocInv, AllowedKids, KidsFit, CachesKept, Accounted, Cache, KidsOfKind,
     Outgoing, Temp, AtStart
<1> QED
  BY <1>1, <1>2, <1>3, <1>4, <1>5, <1>6, <1>7, MoveKidCaches, KidRefusedCaches,
     FragmentDoneCaches DEF Next

\* Whenever no call is running fDocElement and fDocType are exactly the
\* document's element and document type, however replaceChild has juggled them
\* and whether or not an exception has ended it.
THEOREM DocumentCachesHold ==
  ASSUME Unguarded = {}
  PROVE  Spec => []DocumentCaches
<1>1. DocInv /\ [Next]_vars => DocInv'
  BY DocInvStep
<1>2. DocInv => DocumentCaches
  BY AccurateIs DEF DocInv, CachesKept, DocumentCaches
<1> QED
  BY <1>1, <1>2, DocInvInit, PTL DEF Spec
-----------------------------------------------------------------------------
(***************************************************************************)
(* The order of the kids while a fragment is inserted: each step takes the *)
(* head of what is left and puts it right before the reference child.      *)
(***************************************************************************)
LEMMA WithoutHead ==
  ASSUME NEW S, NEW s \in Seq(S), Distinct(s), s # <<>>
  PROVE  Without(s, Head(s)) = Tail(s)
<1>1. IndexOf(s, Head(s)) = 1
  <2>1. 1 \in DOMAIN s /\ s[1] = Head(s)
    OBVIOUS
  <2>2. Occurs(Head(s), s)
    BY <2>1 DEF Occurs
  <2>3. IndexOf(s, Head(s)) \in DOMAIN s /\ s[IndexOf(s, Head(s))] = Head(s)
    BY <2>2, IndexOfOccurs
  <2> QED
    BY <2>1, <2>3 DEF Distinct
<1>2. Without(s, Head(s)) = SubSeq(s, 1, 0) \o SubSeq(s, 2, Len(s))
  BY <1>1 DEF Without
<1>3. SubSeq(s, 1, 0) = <<>> /\ SubSeq(s, 2, Len(s)) \in Seq(S)
  OBVIOUS
<1>4. Tail(s) = SubSeq(s, 2, Len(s))
  OBVIOUS
<1> QED
  BY <1>2, <1>3, <1>4

\* Where the kids stand: m of them in front of the reference child, in front of
\* position end + 1, and the rest in the fragment.
Standing(all, kids, rest, ref, m) ==
  LET end == IF ref = Nil THEN Len(kids) ELSE IndexOf(kids, ref) - 1
  IN  /\ m \in 0 .. Len(all) /\ m <= end
      /\ Len(rest) = Len(all) - m
      /\ \A i \in 1 .. Len(all) - m : rest[i] = all[m + i]
      /\ \A i \in 1 .. m : kids[end - m + i] = all[i]

\* One kid more in front of the reference child.
LEMMA StandingNext ==
  ASSUME NEW S, NEW all \in Seq(S), NEW kids \in Seq(S), NEW rest \in Seq(S),
         NEW ref, ref = Nil \/ Occurs(ref, kids), NEW m, Standing(all, kids, rest, ref, m),
         rest # <<>>, Distinct(kids), ~Occurs(Head(rest), kids)
  PROVE  Standing(all, Before(kids, Head(rest), ref), Tail(rest), ref, m + 1)
<1> DEFINE x == Head(rest)
           w == Before(kids, x, ref)
           end == IF ref = Nil THEN Len(kids) ELSE IndexOf(kids, ref) - 1
           k == end + 1
<1>1. end \in 0 .. Len(kids) /\ (ref # Nil => kids[k] = ref /\ k <= Len(kids))
  <2>1. CASE ref = Nil
    BY <2>1
  <2>2. CASE ref # Nil
    <3>1. IndexOf(kids, ref) \in 1 .. Len(kids) /\ kids[IndexOf(kids, ref)] = ref
      BY <2>2, IndexOfOccurs
    <3>2. end = IndexOf(kids, ref) - 1 /\ k = IndexOf(kids, ref)
      BY <2>2, <3>1
    <3> HIDE DEF end, k
    <3> QED
      BY <3>1, <3>2
  <2> QED
    BY <2>1, <2>2
<1>2. /\ m \in 0 .. Len(all) /\ m <= end
      /\ Len(rest) = Len(all) - m
      /\ \A i \in 1 .. Len(all) - m : rest[i] = all[m + i]
      /\ \A i \in 1 .. m : kids[end - m + i] = all[i]
  BY DEF Standing
<1>3. x \in S /\ x = rest[1] /\ Len(rest) >= 1 /\ x = all[m + 1] /\ m + 1 <= Len(all)
  <2>1. Len(rest) >= 1 /\ x \in S /\ x = rest[1]
    OBVIOUS
  <2> QED
    BY <1>2, <2>1
<1>4. w = (SubSeq(kids, 1, k - 1) \o <<x>>) \o SubSeq(kids, k, Len(kids))
  <2>1. k = IF ref = Nil THEN Len(kids) + 1 ELSE IndexOf(kids, ref)
    <3>1. ref # Nil => IndexOf(kids, ref) \in 1 .. Len(kids)
      BY IndexOfOccurs
    <3> QED
      BY <3>1
  <2> HIDE DEF k, x
  <2> QED
    BY <2>1 DEF Before
<1> HIDE DEF x, end, w
<1>5. /\ w \in Seq(S) /\ Len(w) = Len(kids) + 1
      /\ \A i \in 1 .. Len(kids) + 1 :
           w[i] = IF i < k THEN kids[i] ELSE IF i = k THEN x ELSE kids[i - 1]
  <2> DEFINE a == SubSeq(kids, 1, k - 1)
             b == SubSeq(kids, k, Len(kids))
             c == a \o <<x>>
  <2>1. a \in Seq(S) /\ Len(a) = k - 1 /\ \A i \in 1 .. k - 1 : a[i] = kids[i]
    BY <1>1
  <2>2. b \in Seq(S) /\ Len(b) = Len(kids) + 1 - k
          /\ \A i \in 1 .. Len(kids) + 1 - k : b[i] = kids[k + i - 1]
    BY <1>1
  <2> HIDE DEF a, b
  <2>3. c \in Seq(S) /\ Len(c) = k /\ \A i \in 1 .. k : c[i] = IF i < k THEN kids[i] ELSE x
    BY <1>1, <1>3, <2>1
  <2>4. w = c \o b
    BY <1>4 DEF a, b
  <2> HIDE DEF c
  <2>5. w \in Seq(S) /\ Len(w) = Len(kids) + 1
    BY <1>1, <2>2, <2>3, <2>4
  <2>6. ASSUME NEW i \in 1 .. Len(kids) + 1
        PROVE  w[i] = IF i < k THEN kids[i] ELSE IF i = k THEN x ELSE kids[i - 1]
    <3>1. CASE i <= k
      BY <1>1, <2>2, <2>3, <2>4, <3>1
    <3>2. CASE i > k
      <4>1. w[i] = b[i - k]
        BY <1>1, <2>2, <2>3, <2>4, <3>2
      <4>2. i - k \in 1 .. Len(kids) + 1 - k /\ k + (i - k) - 1 = i - 1
        BY <1>1, <3>2
      <4>3. b[i - k] = kids[i - 1]
        BY <2>2, <4>2
      <4> QED
        BY <1>1, <3>2, <4>1, <4>3
    <3> QED
      BY <1>1, <3>1, <3>2
  <2> QED
    BY <2>5, <2>6
<1>6. (IF ref = Nil THEN Len(w) ELSE IndexOf(w, ref) - 1) = end + 1
  <2>1. CASE ref = Nil
    BY <1>5, <2>1 DEF end
  <2>2. CASE ref # Nil
    <3>1. k + 1 \in DOMAIN w /\ w[k + 1] = ref
      BY <1>1, <1>5, <2>2
    <3>2. Occurs(ref, w)
      BY <3>1 DEF Occurs
    <3>3. IndexOf(w, ref) \in DOMAIN w /\ w[IndexOf(w, ref)] = ref
      BY <3>2, IndexOfOccurs
    <3>4. Distinct(w)
      BY <1>3, BeforeIs DEF w, x
    <3>5. IndexOf(w, ref) = k + 1
      BY <3>1, <3>3, <3>4 DEF Distinct
    <3> QED
      BY <1>1, <2>2, <3>5
  <2> QED
    BY <2>1, <2>2
<1>7. /\ Len(Tail(rest)) = Len(all) - (m + 1)
      /\ \A i \in 1 .. Len(all) - (m + 1) : Tail(rest)[i] = all[(m + 1) + i]
  <2>1. /\ Len(Tail(rest)) = Len(rest) - 1
        /\ \A i \in 1 .. Len(Tail(rest)) : Tail(rest)[i] = rest[i + 1]
    BY HeadTailProperties
  <2>2. ASSUME NEW i \in 1 .. Len(all) - (m + 1) PROVE rest[i + 1] = all[(m + 1) + i]
    <3>1. i + 1 \in 1 .. Len(all) - m /\ m + (i + 1) = (m + 1) + i
      BY <1>2
    <3>2. rest[i + 1] = all[m + (i + 1)]
      BY <1>2, <3>1
    <3> QED
      BY <3>1, <3>2
  <2> QED
    BY <1>2, <2>1, <2>2
<1>8. ASSUME NEW i \in 1 .. m + 1 PROVE w[(end + 1) - (m + 1) + i] = all[i]
  <2>1. CASE i = m + 1
    <3>1. (end + 1) - (m + 1) + i = k /\ k \in 1 .. Len(kids) + 1
      BY <1>1, <1>2, <2>1
    <3>2. w[k] = x
      BY <1>5, <3>1
    <3> HIDE DEF k
    <3> QED
      BY <1>3, <2>1, <3>1, <3>2
  <2>2. CASE i # m + 1
    <3>1. /\ (end + 1) - (m + 1) + i = end - m + i /\ i \in 1 .. m
          /\ end - m + i \in 1 .. Len(kids) /\ end - m + i < k
      <4>1. m \in Nat /\ end \in Nat /\ m <= end /\ i \in 1 .. m /\ end <= Len(kids)
        BY <1>1, <1>2, <2>2
      <4> QED
        BY <4>1
    <3>2. kids[end - m + i] = all[i]
      BY <1>2, <3>1
    <3>3. w[end - m + i] = kids[end - m + i]
      BY <1>5, <3>1
    <3> QED
      BY <3>1, <3>2, <3>3
  <2> QED
    BY <2>1, <2>2
<1>9. m + 1 \in 0 .. Len(all) /\ m + 1 <= end + 1
  BY <1>1, <1>2, <1>3
<1> HIDE DEF k
<1>10. Standing(all, w, Tail(rest), ref, m + 1)
  BY <1>6, <1>7, <1>8, <1>9 DEF Standing
<1> QED
  BY <1>10 DEF w, x

\* What the two edits that make up an insertion leave of the child lists.
LEMMA InsertedKids ==
  ASSUME NEW d \in Doms, NEW p \in Node, NEW n \in Node, NEW r, NEW f \in Node,
         d.parent[n] = f, n # r, f # p, Linked(d), NoCycle(d)
  PROVE  /\ Inserted(d, p, n, r).kids[f] = Without(d.kids[f], n)
         /\ Inserted(d, p, n, r).kids[p] = Before(d.kids[p], n, r)
<1> DEFINE u == Unlink(d, n)
           e == Removed(d, n)
           l == Link(e, p, n, r)
<1>1. /\ u \in Doms /\ u.kids = [d.kids EXCEPT ![f] = Without(@, n)] /\ f # Nil
      /\ d.kids \in [Node -> Seq(Node)]
  BY UnlinkIs, NilAssumption DEF Unlink, Doms
<1>2. e = Uncached(u, f, n)
  BY DEF Removed
<1> HIDE DEF u, e
<1>3. e.kids = u.kids
  <2>1. u \in Doms
    BY <1>1
  <2>2. Uncached(u, f, n).kids = u.kids
    BY <2>1, CachesIs
  <2> QED
    BY <1>2, <2>2
<1>4. Inserted(d, p, n, r) = Cached(l, p, n)
  BY <1>1 DEF Inserted, e
<1>5. e \in Doms
  BY <1>1, <1>2, CachesIs
<1>6. l.kids = [e.kids EXCEPT ![p] = Before(@, n, r)]
  BY <1>5 DEF Link, Doms
<1> HIDE DEF l
<1>7. Cached(l, p, n).kids = l.kids
  BY DEF Cached
<1> QED
  BY <1>1, <1>3, <1>4, <1>6, <1>7

\* Some number of kids has been moved, and every kid stands where it should.
InOrder ==
  call # Idle =>
    \E m : Standing(call.kids, dom.kids[call.parent], dom.kids[call.frag], call.ref, m)

OrderInv == TreeInv /\ InOrder

LEMMA OrderStarts ==
  ASSUME TreeInv', NEW d, NEW p, NEW f, NEW r, NEW o, StartFragment(d, p, f, r, o)
  PROVE  OrderInv'
<1>1. /\ dom' = d /\ call'.parent = p /\ call'.frag = f /\ call'.ref = r
      /\ call'.kids = d.kids[f]
  BY DEF StartFragment
<1> SUFFICES ASSUME call' # Idle
             PROVE  Standing(d.kids[f], d.kids[p], d.kids[f], r, 0)
  BY <1>1 DEF OrderInv, InOrder
<1>2. /\ d \in Doms /\ p \in Node /\ f \in Node /\ r \in NodeOrNil /\ Linked(d)
      /\ r # Nil => d.parent[r] = p
  BY <1>1 DEF TreeInv, TypeOK, Calls, CallSound, ParentChildAgree
<1>3. d.kids[p] \in Seq(Node) /\ d.kids[f] \in Seq(Node)
  BY <1>2 DEF Doms
<1>4. r # Nil => IndexOf(d.kids[p], r) \in DOMAIN d.kids[p]
  BY <1>2, LinkedIs, IndexOfOccurs DEF NodeOrNil
<1>5. (IF r = Nil THEN Len(d.kids[p]) ELSE IndexOf(d.kids[p], r) - 1) \in Nat
  BY <1>3, <1>4
<1> QED
  BY <1>3, <1>5 DEF Standing

LEMMA OrderGoesOn == ASSUME OrderInv, TreeInv', MoveKid PROVE OrderInv'
<1> DEFINE f == call.frag
           p == call.parent
           r == call.ref
           rest == dom.kids[f]
           n == Head(rest)
           kids == dom.kids[p]
           all == call.kids
<1>1. /\ dom \in Doms /\ Linked(dom) /\ NoCycle(dom) /\ TreeInv /\ call # Idle
      /\ HasKids(dom, f) /\ call' = call /\ dom' = Inserted(dom, p, n, r) /\ f # p
  BY DEF OrderInv, TreeInv, TypeOK, ParentChildAgree, Acyclic, MoveKid, CallSound
<1>2. /\ p \in Node /\ f \in Node /\ r \in NodeOrNil /\ all \in Seq(Node)
      /\ n \in Node /\ dom.parent[n] = f /\ n # r
  BY <1>1, KidIs DEF Calls
<1>3. /\ rest \in Seq(Node) /\ rest # <<>> /\ Distinct(rest)
      /\ kids \in Seq(Node) /\ Distinct(kids) /\ ~Occurs(n, kids) /\ (r = Nil \/ Occurs(r, kids))
  BY <1>1, <1>2, LinkedIs DEF Doms, HasKids, TreeInv, CallSound, NodeOrNil
<1>4. PICK m : Standing(all, kids, rest, r, m)
  BY <1>1 DEF OrderInv, InOrder
<1>5. Standing(all, Before(kids, n, r), Tail(rest), r, m + 1)
  BY <1>2, <1>3, <1>4, StandingNext
<1>6. dom'.kids[f] = Without(rest, n) /\ dom'.kids[p] = Before(kids, n, r)
  BY <1>1, <1>2, InsertedKids
<1>7. Without(rest, n) = Tail(rest)
  BY <1>3, WithoutHead
<1>8. InOrder'
  BY <1>1, <1>5, <1>6, <1>7 DEF InOrder
<1> QED
  BY <1>8 DEF OrderInv

LEMMA OrderStep ==
  ASSUME "selfInsert" \notin Unguarded, OrderInv, [Next]_vars PROVE OrderInv'
<1>1. TreeInv'
  BY TreeInvStep DEF OrderInv
<1>2. ASSUME call' = Idle PROVE OrderInv'
  BY <1>1, <1>2 DEF OrderInv, InOrder
<1>3. ASSUME call = Idle, call' = call PROVE OrderInv'
  BY <1>2, <1>3
<1>4. ASSUME NEW p \in Node, NEW f \in Node, NEW r \in NodeOrNil, InsertFragment(p, f, r)
      PROVE  OrderInv'
  BY <1>1, <1>4, OrderStarts DEF InsertFragment
<1>5. ASSUME NEW p \in Node, NEW f \in Node, NEW o \in Node, ReplaceByFragment(p, f, o)
      PROVE  OrderInv'
  BY <1>1, <1>5, OrderStarts DEF ReplaceByFragment
<1>6. CASE MoveKid
  BY <1>1, <1>6, OrderGoesOn
<1>7. CASE KidRefused \/ FragmentDone
  BY <1>2, <1>7 DEF KidRefused, FragmentDone
<1>8. ASSUME NEW p \in Node, NEW n \in Node, NEW r \in NodeOrNil,
             InsertNode(p, n, r) \/ RemoveChild(n) \/ AdoptNode(n)
      PROVE  OrderInv'
  BY <1>3, <1>8 DEF InsertNode, RemoveChild, AdoptNode
<1>9. ASSUME NEW p \in Node, NEW n \in Node, NEW o \in Node, ReplaceByNode(p, n, o)
      PROVE  OrderInv'
  BY <1>3, <1>9 DEF ReplaceByNode
<1>10. CASE UNCHANGED vars
  BY <1>1, <1>10 DEF vars, OrderInv, InOrder
<1>11. Nil \in NodeOrNil
  BY DEF NodeOrNil
<1> QED
  BY <1>4, <1>5, <1>6, <1>7, <1>8, <1>9, <1>10, <1>11 DEF Next

LEMMA OrderShows == OrderInv => FragmentInOrder
<1> SUFFICES ASSUME OrderInv, call # Idle PROVE FragmentInOrder
  BY DEF FragmentInOrder
<1> DEFINE kids == dom.kids[call.parent]
           all == call.kids
           rest == dom.kids[call.frag]
           end == IF call.ref = Nil THEN Len(kids) ELSE IndexOf(kids, call.ref) - 1
<1>1. /\ dom \in Doms /\ Linked(dom) /\ call.parent \in Node /\ call.frag \in Node
      /\ call.ref \in NodeOrNil /\ all \in Seq(Node)
      /\ call.ref # Nil => dom.parent[call.ref] = call.parent
  BY DEF OrderInv, TreeInv, TypeOK, Calls, CallSound, ParentChildAgree
<1>2. kids \in Seq(Node) /\ rest \in Seq(Node)
  BY <1>1 DEF Doms
<1>3. end \in 0 .. Len(kids)
  <2>1. CASE call.ref = Nil
    BY <1>2, <2>1
  <2>2. CASE call.ref # Nil
    <3>1. IndexOf(kids, call.ref) \in DOMAIN kids
      BY <1>1, <2>2, LinkedIs, IndexOfOccurs DEF NodeOrNil
    <3>2. end = IndexOf(kids, call.ref) - 1
      BY <2>2
    <3> HIDE DEF end
    <3> QED
      BY <1>2, <3>1, <3>2
  <2> QED
    BY <2>1, <2>2
<1>4. PICK m : Standing(all, kids, rest, call.ref, m)
  BY DEF OrderInv, InOrder
<1>5. /\ m \in 0 .. Len(all) /\ m <= end /\ Len(rest) = Len(all) - m
      /\ \A i \in 1 .. Len(all) - m : rest[i] = all[m + i]
      /\ \A i \in 1 .. m : kids[end - m + i] = all[i]
  BY <1>4 DEF Standing
<1>6. FragmentInOrder <=>
        \E j \in 0 .. Len(all) : /\ rest = SubSeq(all, j + 1, Len(all))
                                 /\ j <= end
                                 /\ SubSeq(kids, end - j + 1, end) = SubSeq(all, 1, j)
  BY DEF FragmentInOrder
<1> HIDE DEF kids, all, rest, end
<1>7. rest = SubSeq(all, m + 1, Len(all))
  <2> DEFINE t == SubSeq(all, m + 1, Len(all))
  <2>1. /\ t \in Seq(Node) /\ Len(t) = Len(all) - m
        /\ \A i \in 1 .. Len(all) - m : t[i] = all[m + i]
    BY <1>1, <1>5
  <2> HIDE DEF t
  <2>2. rest = t
    BY <1>2, <1>5, <2>1, SeqEqual
  <2> QED
    BY <2>2 DEF t
<1>8. SubSeq(kids, end - m + 1, end) = SubSeq(all, 1, m)
  <2> DEFINE t == SubSeq(kids, end - m + 1, end)
             u == SubSeq(all, 1, m)
  <2>1. /\ t \in Seq(Node) /\ Len(t) = m
        /\ \A i \in 1 .. m : t[i] = kids[end - m + i]
    BY <1>2, <1>3, <1>5
  <2>2. u \in Seq(Node) /\ Len(u) = m /\ \A i \in 1 .. m : u[i] = all[i]
    BY <1>1, <1>5
  <2> HIDE DEF t, u
  <2>3. t = u
    BY <1>5, <2>1, <2>2, SeqEqual
  <2> QED
    BY <2>3 DEF t, u
<1> QED
  BY <1>5, <1>6, <1>7, <1>8

\* While a fragment is inserted its kids keep their order: those already moved
\* stand right before the reference child, the others wait in the fragment.
THEOREM KidsKeepTheirOrder ==
  ASSUME "selfInsert" \notin Unguarded
  PROVE  Spec => []FragmentInOrder
<1>1. Init => OrderInv
  BY TreeInvInit DEF OrderInv, InOrder, Init
<1>2. OrderInv /\ [Next]_vars => OrderInv'
  BY OrderStep
<1>3. OrderInv => FragmentInOrder
  BY OrderShows
<1> QED
  BY <1>1, <1>2, <1>3, PTL DEF Spec
=============================================================================
