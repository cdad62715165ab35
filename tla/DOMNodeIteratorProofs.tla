------------------------- MODULE DOMNodeIteratorProofs -------------------------
(***************************************************************************)
(* Proofs about DOMNodeIterator for every document, every set of shown     *)
(* nodes and any number of iterators: an iterator stays in its subtree and *)
(* steps to the next or the previous shown node in document order, and a   *)
(* removal keeps its place, whatever has been done to the tree.            *)
(***************************************************************************)
EXTENDS DOMNodeIterator, DOMTreeProofs

-----------------------------------------------------------------------------
(* Recursion along a function and down a tree *)

\* s goes on along g until it gets to T.
Follows(X, T, g, e, s) ==
  /\ s = [x \in X |-> s[x]]
  /\ \A x \in X : s[x] = IF x \in T THEN e[x] ELSE s[g[x]]

\* There is such a function: where it never gets to T it may have any value.
LEMMA Follow ==
  ASSUME NEW X, NEW T, NEW g \in [X -> X], NEW e
  PROVE  \E s : Follows(X, T, g, e, s)
<1> DEFINE Closed(C) == \A y \in C \ T : g[y] \in C
           reach(x) == {a \in X : \A C \in SUBSET X : x \in C /\ Closed(C) => a \in C}
           end(C) == IF C = {} THEN Nil ELSE e[CHOOSE y \in C : TRUE]
           s == [x \in X |-> end(reach(x) \cap T)]
<1>1. ASSUME NEW x \in X, x \in T PROVE reach(x) \cap T = {x}
  <2>1. {x} \in SUBSET X /\ Closed({x})
    BY <1>1
  <2>2. reach(x) \subseteq {x} /\ x \in reach(x)
    BY <2>1
  <2> QED
    BY <1>1, <2>2
<1>2. ASSUME NEW x \in X, x \notin T PROVE reach(x) \cap T = reach(g[x]) \cap T
  <2>1. g[x] \in X
    OBVIOUS
  <2>2. reach(g[x]) \subseteq reach(x)
    BY <1>2, <2>1
  <2>3. g[x] \in reach(g[x]) /\ Closed(reach(g[x]))
    BY <2>1
  <2>4. {x} \cup reach(g[x]) \in SUBSET X /\ Closed({x} \cup reach(g[x]))
    BY <2>3
  <2>5. reach(x) \subseteq {x} \cup reach(g[x])
    BY <2>4
  <2> QED
    BY <1>2, <2>2, <2>5
<1>3. ASSUME NEW x \in T PROVE end({x}) = e[x]
  <2>1. (CHOOSE y \in {x} : TRUE) = x
    OBVIOUS
  <2> QED
    BY <2>1
<1> HIDE DEF reach, end
<1>4. ASSUME NEW x \in X PROVE s[x] = IF x \in T THEN e[x] ELSE s[g[x]]
  <2>1. g[x] \in X
    OBVIOUS
  <2>2. s[x] = end(reach(x) \cap T) /\ s[g[x]] = end(reach(g[x]) \cap T)
    BY <2>1
  <2> HIDE DEF s
  <2>3. CASE x \in T
    BY <1>1, <1>3, <2>2, <2>3
  <2>4. CASE x \notin T
    BY <1>2, <2>2, <2>4
  <2> QED
    BY <2>3, <2>4
<1>5. s = [x \in X |-> s[x]]
  OBVIOUS
<1> HIDE DEF s
<1> QED
  BY <1>4, <1>5 DEF Follows

-----------------------------------------------------------------------------
(* A sequence of sequences in one *)

Chain(R, s) == s # <<>> /\ \A i \in 1 .. Len(s) - 1 : <<s[i], s[i + 1]>> \in R

\* The first n members of s in one.
Prefixes(S, s, n) ==
  {h \in [0 .. n -> Seq(S)] :
     h[0] = <<>> /\ \A j \in 1 .. n : h[j] = h[j - 1] \o s[j]}

LEMMA PrefixesExist ==
  ASSUME NEW S, NEW s \in Seq(Seq(S)), NEW n \in 0 .. Len(s)
  PROVE  \E h : h \in Prefixes(S, s, n)
<1> DEFINE Bad == {k \in 0 .. Len(s) : ~ \E h : h \in Prefixes(S, s, k)}
<1> SUFFICES ASSUME Bad # {} PROVE FALSE
  BY DEF Bad
<1>1. PICK k \in Bad : \A j \in Bad : k <= j
  <2>1. Bad \in SUBSET Nat
    OBVIOUS
  <2> QED
    BY <2>1, LeastOf
<1>2. k # 0
  <2>1. [i \in 0 .. 0 |-> <<>>] \in Prefixes(S, s, 0)
    BY DEF Prefixes
  <2> QED
    BY <1>1, <2>1
<1>3. k - 1 \in 0 .. Len(s) /\ k - 1 \notin Bad /\ k \in 1 .. Len(s)
  <2>1. k \in 0 .. Len(s) /\ Len(s) \in Nat
    BY <1>1
  <2>2. k - 1 \in 0 .. Len(s) /\ k \in 1 .. Len(s) /\ ~(k <= k - 1)
    BY <1>2, <2>1
  <2> HIDE DEF Bad
  <2> QED
    BY <1>1, <2>2
<1>4. PICK h : h \in Prefixes(S, s, k - 1)
  BY <1>3
<1> DEFINE t == [i \in 0 .. k |-> IF i = k THEN h[k - 1] \o s[k] ELSE h[i]]
<1>5. h \in [0 .. k - 1 -> Seq(S)] /\ h[k - 1] \in Seq(S) /\ s[k] \in Seq(S)
  BY <1>3, <1>4, SMTT(30) DEF Prefixes
<1>6. t \in [0 .. k -> Seq(S)]
  <2>1. h[k - 1] \o s[k] \in Seq(S)
    BY <1>5
  <2>2. \A i \in 0 .. k : i # k => h[i] \in Seq(S)
    BY <1>3, <1>5
  <2> QED
    BY <2>1, <2>2
<1>7. t[0] = <<>>
  BY <1>3, <1>4 DEF Prefixes
<1>8. ASSUME NEW j \in 1 .. k PROVE t[j] = t[j - 1] \o s[j]
  <2>1. t[j - 1] = h[j - 1]
    BY <1>3
  <2>2. j # k => t[j] = h[j] /\ j \in 1 .. k - 1
    <3>1. k \in Nat
      BY <1>3
    <3>2. j # k => j \in 1 .. k - 1 /\ j \in 0 .. k
      BY <3>1
    <3> QED
      BY <3>2
  <2>3. j = k => t[j] = h[k - 1] \o s[k]
    <3>1. j \in 0 .. k
      BY <1>3
    <3> QED
      BY <3>1
  <2> QED
    BY <1>4, <2>1, <2>2, <2>3 DEF Prefixes
<1> HIDE DEF t
<1>9. t \in Prefixes(S, s, k)
  BY <1>6, <1>7, <1>8 DEF Prefixes
<1> QED
  BY <1>1, <1>9

LEMMA FlattenIs ==
  ASSUME NEW S, NEW s \in Seq(Seq(S))
  PROVE  \E h \in Prefixes(S, s, Len(s)) : Ext!FlattenSeq(s) = h[Len(s)]
<1> DEFINE n == Len(s)
           Is(g) == g = [i \in 1 .. n |-> IF i = 1 THEN s[i] ELSE g[i - 1] \o s[i]]
           flatten == CHOOSE g : Is(g)
<1>1. PICK h : h \in Prefixes(S, s, n)
  BY PrefixesExist
<1>2. CASE n = 0
  BY <1>1, <1>2 DEF Prefixes, Ext!FlattenSeq
<1>3. CASE n # 0
  <2> DEFINE t == [i \in 1 .. n |-> h[i]]
  <2>1. ASSUME NEW i \in 1 .. n PROVE t[i] = IF i = 1 THEN s[i] ELSE t[i - 1] \o s[i]
    <3>1. t[i] = h[i - 1] \o s[i] /\ s[i] \in Seq(S)
      <4>1. t[i] = h[i] /\ s[i] \in Seq(S)
        OBVIOUS
      <4>2. h[i] = h[i - 1] \o s[i]
        BY <1>1 DEF Prefixes
      <4> QED
        BY <4>1, <4>2
    <3>2. CASE i = 1
      <4>1. h[0] = <<>>
        BY <1>1 DEF Prefixes
      <4>2. i - 1 = 0
        BY <3>2
      <4>3. t[i] = <<>> \o s[i]
        BY <3>1, <4>1, <4>2
      <4> QED
        BY <3>1, <3>2, <4>3
    <3>3. CASE i # 1
      <4>1. i - 1 \in 1 .. n /\ t[i - 1] = h[i - 1]
        BY <3>3
      <4> QED
        BY <3>1, <3>3, <4>1
    <3> QED
      BY <3>2, <3>3
  <2>2. t = [i \in 1 .. n |-> t[i]]
    OBVIOUS
  <2> HIDE DEF t
  <2>3. Is(t)
    BY <2>1, <2>2
  <2>4. Is(flatten)
    BY <2>3
  <2> HIDE DEF flatten
  <2>5. \A i \in 1 .. n : flatten[i] = IF i = 1 THEN s[i] ELSE flatten[i - 1] \o s[i]
    BY <2>4
  <2> DEFINE Bad == {i \in 1 .. n : flatten[i] # t[i]}
  <2>6. Bad = {}
    <3> SUFFICES ASSUME Bad # {} PROVE FALSE
      OBVIOUS
    <3>1. Bad \in SUBSET Nat
      OBVIOUS
    <3>2. PICK k \in Bad : \A j \in Bad : k <= j
      BY <3>1, LeastOf
    <3>3. k # 1 => k - 1 \in 1 .. n /\ k - 1 \notin Bad
      BY <3>2
    <3> QED
      BY <2>1, <2>5, <3>2, <3>3
  <2>7. flatten[n] = h[n]
    <3>1. n \in 1 .. n
      BY <1>3
    <3>2. flatten[n] = t[n]
      BY <2>6, <3>1
    <3> QED
      BY <3>1, <3>2 DEF t
  <2>8. Ext!FlattenSeq(s) = flatten[n]
    BY <1>3 DEF Ext!FlattenSeq, flatten, Is
  <2> QED
    BY <1>1, <2>7, <2>8
<1> QED
  BY <1>2, <1>3

LEMMA ConcatChain ==
  ASSUME NEW S, NEW R, NEW a \in Seq(S), NEW b \in Seq(S), Chain(R, a), Chain(R, b),
         <<a[Len(a)], b[1]>> \in R
  PROVE  /\ a \o b \in Seq(S) /\ Chain(R, a \o b)
         /\ (a \o b)[1] = a[1] /\ (a \o b)[Len(a \o b)] = b[Len(b)]
<1> DEFINE c == a \o b
<1>1. /\ Len(a) \in Nat /\ Len(b) \in Nat /\ Len(a) > 0 /\ Len(b) > 0
      /\ c \in Seq(S) /\ Len(c) = Len(a) + Len(b)
  BY DEF Chain
<1>2. /\ \A i \in 1 .. Len(a) : c[i] = a[i]
      /\ \A i \in 1 .. Len(b) : c[Len(a) + i] = b[i]
  OBVIOUS
<1> HIDE DEF c
<1>3. ASSUME NEW i \in 1 .. Len(c) - 1 PROVE <<c[i], c[i + 1]>> \in R
  <2>1. CASE i < Len(a)
    <3>1. i \in 1 .. Len(a) /\ i + 1 \in 1 .. Len(a) /\ i \in 1 .. Len(a) - 1
      BY <1>1, <2>1
    <3> QED
      BY <1>2, <3>1 DEF Chain
  <2>2. CASE i = Len(a)
    <3>1. i \in 1 .. Len(a) /\ 1 \in 1 .. Len(b)
      BY <1>1, <2>2
    <3>2. c[i] = a[Len(a)] /\ c[i + 1] = b[1]
      BY <1>2, <2>2, <3>1
    <3> QED
      BY <3>2
  <2>3. CASE i > Len(a)
    <3> DEFINE k == i - Len(a)
    <3>1. /\ k \in 1 .. Len(b) /\ k + 1 \in 1 .. Len(b) /\ k \in 1 .. Len(b) - 1
          /\ Len(a) + k = i /\ Len(a) + (k + 1) = i + 1
      BY <1>1, <2>3
    <3> HIDE DEF k
    <3>2. c[Len(a) + k] = b[k] /\ c[Len(a) + (k + 1)] = b[k + 1]
      BY <1>2, <3>1
    <3>3. c[i] = b[k] /\ c[i + 1] = b[k + 1]
      BY <3>1, <3>2
    <3> QED
      BY <3>1, <3>3 DEF Chain
  <2> QED
    BY <1>1, <2>1, <2>2, <2>3
<1>4. c # <<>>
  BY <1>1
<1>5. c[1] = a[1] /\ c[Len(c)] = b[Len(b)]
  BY <1>1, <1>2
<1> QED
  BY <1>1, <1>3, <1>4, <1>5 DEF Chain, c

\* Chains each of which leads to the next are a chain.
LEMMA FlattenChain ==
  ASSUME NEW S, NEW R, NEW s \in Seq(Seq(S)), s # <<>>, \A j \in 1 .. Len(s) : Chain(R, s[j]),
         \A j \in 1 .. Len(s) - 1 : <<s[j][Len(s[j])], s[j + 1][1]>> \in R
  PROVE  LET t == Ext!FlattenSeq(s)
         IN  /\ t \in Seq(S) /\ Chain(R, t) /\ t[1] = s[1][1]
             /\ t[Len(t)] = s[Len(s)][Len(s[Len(s)])]
<1>1. PICK h \in Prefixes(S, s, Len(s)) : Ext!FlattenSeq(s) = h[Len(s)]
  BY FlattenIs
<1>2. /\ Len(s) \in Nat /\ Len(s) > 0 /\ h \in [0 .. Len(s) -> Seq(S)] /\ h[0] = <<>>
      /\ \A j \in 1 .. Len(s) : h[j] = h[j - 1] \o s[j]
      /\ \A j \in 1 .. Len(s) : s[j] \in Seq(S)
      /\ \A j \in 0 .. Len(s) : h[j] \in Seq(S)
  <2>1. Len(s) \in Nat /\ Len(s) > 0 /\ \A j \in 1 .. Len(s) : s[j] \in Seq(S)
    OBVIOUS
  <2>2. /\ h \in [0 .. Len(s) -> Seq(S)] /\ h[0] = <<>>
        /\ \A j \in 1 .. Len(s) : h[j] = h[j - 1] \o s[j]
    BY <1>1 DEF Prefixes
  <2> QED
    BY <2>1, <2>2
<1> DEFINE T == {j \in Nat : j # 0 => /\ Chain(R, h[j]) /\ h[j][1] = s[1][1]
                                      /\ h[j][Len(h[j])] = s[j][Len(s[j])]}
<1>3. 0 \in T
  OBVIOUS
<1>4. ASSUME NEW j \in 1 .. Len(s), j - 1 \in T PROVE j \in T
  <2> DEFINE a == h[j - 1]
             b == s[j]
             c == h[j]
  <2>1. j \in Nat /\ j - 1 \in 0 .. Len(s)
    OBVIOUS
  <2>2. a \in Seq(S) /\ b \in Seq(S) /\ c = a \o b /\ Chain(R, b)
    BY <1>2, <2>1
  <2>3. j # 1 => /\ Chain(R, a) /\ a[1] = s[1][1]
                 /\ <<a[Len(a)], b[1]>> \in R
    <3> SUFFICES ASSUME j # 1 PROVE Chain(R, a) /\ a[1] = s[1][1] /\ <<a[Len(a)], b[1]>> \in R
      OBVIOUS
    <3>1. j - 1 # 0 /\ j - 1 \in 1 .. Len(s) - 1 /\ j - 1 + 1 = j
      BY <1>2
    <3>2. <<s[j - 1][Len(s[j - 1])], s[j - 1 + 1][1]>> \in R
      BY <3>1
    <3> QED
      BY <1>4, <3>1, <3>2
  <2>4. j = 1 => a = <<>> /\ b = s[1]
    <3>1. 1 - 1 = 0
      OBVIOUS
    <3> QED
      BY <1>2, <3>1
  <2> HIDE DEF a, b, c
  <2>5. Chain(R, c) /\ c[1] = s[1][1] /\ c[Len(c)] = b[Len(b)]
    <3>1. CASE j = 1
      <4>1. c = b
        BY <2>2, <2>4, <3>1
      <4> QED
        BY <2>2, <2>4, <3>1, <4>1
    <3>2. CASE j # 1
      <4>1. /\ a \in Seq(S) /\ b \in Seq(S) /\ Chain(R, a) /\ Chain(R, b)
            /\ <<a[Len(a)], b[1]>> \in R
        BY <2>2, <2>3, <3>2
      <4>2. /\ Chain(R, a \o b) /\ (a \o b)[1] = a[1]
            /\ (a \o b)[Len(a \o b)] = b[Len(b)]
        BY ONLY <4>1, ConcatChain, ZenonT(40)
      <4> QED
        BY <2>2, <2>3, <3>2, <4>2
    <3> QED
      BY <3>1, <3>2
  <2> QED
    BY <2>1, <2>5 DEF b, c
<1> HIDE DEF T
<1>5. Len(s) \in T
  <2>1. \A j \in 0 .. Len(s) : j \in T
    BY <1>2, <1>3, <1>4, UpTo
  <2> QED
    BY <1>2, <2>1
<1> QED
  BY <1>1, <1>2, <1>5 DEF T

LEMMA ConcatHas ==
  ASSUME NEW S, NEW a \in Seq(S), NEW b \in Seq(S)
  PROVE  /\ \A x : Occurs(x, a \o b) <=> Occurs(x, a) \/ Occurs(x, b)
         /\ (/\ Distinct(a) /\ Distinct(b)
             /\ \A x : ~(Occurs(x, a) /\ Occurs(x, b))) => Distinct(a \o b)
<1> DEFINE c == a \o b
           m == Len(a)
           n == Len(b)
<1>1. /\ m \in Nat /\ n \in Nat /\ DOMAIN a = 1 .. m /\ DOMAIN b = 1 .. n
      /\ c \in Seq(S) /\ Len(c) = m + n /\ DOMAIN c = 1 .. m + n
  OBVIOUS
<1>2. /\ \A i \in 1 .. m : c[i] = a[i]
      /\ \A i \in 1 .. n : c[m + i] = b[i]
  OBVIOUS
<1> HIDE DEF c, m, n
<1>3. \A i \in 1 .. m + n : i \in 1 .. m \/ \E k \in 1 .. n : i = m + k
  <2> SUFFICES ASSUME NEW i \in 1 .. m + n, i \notin 1 .. m PROVE \E k \in 1 .. n : i = m + k
    OBVIOUS
  <2>1. i - m \in 1 .. n /\ i = m + (i - m)
    BY <1>1
  <2> QED
    BY <2>1
<1>4. /\ \A i \in 1 .. m : i \in 1 .. m + n
      /\ \A i \in 1 .. n : m + i \in 1 .. m + n
  BY <1>1
<1>5. ASSUME NEW x PROVE Occurs(x, c) <=> Occurs(x, a) \/ Occurs(x, b)
  <2>1. ASSUME Occurs(x, c) PROVE Occurs(x, a) \/ Occurs(x, b)
    <3>1. PICK i \in 1 .. m + n : c[i] = x
      BY <1>1, <2>1 DEF Occurs
    <3>2. CASE i \in 1 .. m
      BY <1>1, <1>2, <3>1, <3>2 DEF Occurs
    <3>3. CASE i \notin 1 .. m
      <4>1. PICK k \in 1 .. n : i = m + k
        BY <1>3, <3>3
      <4> QED
        BY <1>1, <1>2, <3>1, <4>1 DEF Occurs
    <3> QED
      BY <3>2, <3>3
  <2>2. ASSUME Occurs(x, a) PROVE Occurs(x, c)
    BY <1>1, <1>2, <1>4, <2>2 DEF Occurs
  <2>3. ASSUME Occurs(x, b) PROVE Occurs(x, c)
    BY <1>1, <1>2, <1>4, <2>3 DEF Occurs
  <2> QED
    BY <2>1, <2>2, <2>3
<1>6. ASSUME Distinct(a), Distinct(b), \A x : ~(Occurs(x, a) /\ Occurs(x, b)),
             NEW i \in 1 .. m + n, NEW j \in 1 .. m + n, c[i] = c[j]
      PROVE  i = j
  <2>1. CASE i \in 1 .. m /\ j \in 1 .. m
    BY <1>1, <1>2, <1>6, <2>1 DEF Distinct
  <2>2. CASE i \in 1 .. m /\ j \notin 1 .. m
    <3>1. PICK k \in 1 .. n : j = m + k
      BY <1>3, <2>2
    <3>2. a[i] = b[k]
      BY <1>2, <1>6, <2>2, <3>1
    <3> QED
      BY <1>1, <1>6, <2>2, <3>2 DEF Occurs
  <2>3. CASE i \notin 1 .. m /\ j \in 1 .. m
    <3>1. PICK k \in 1 .. n : i = m + k
      BY <1>3, <2>3
    <3>2. a[j] = b[k]
      BY <1>2, <1>6, <2>3, <3>1
    <3> QED
      BY <1>1, <1>6, <2>3, <3>2 DEF Occurs
  <2>4. CASE i \notin 1 .. m /\ j \notin 1 .. m
    <3>1. PICK k \in 1 .. n : i = m + k
      BY <1>3, <2>4
    <3>2. PICK l \in 1 .. n : j = m + l
      BY <1>3, <2>4
    <3>3. b[k] = b[l]
      BY <1>2, <1>6, <3>1, <3>2
    <3> QED
      BY <1>1, <1>6, <3>1, <3>2, <3>3 DEF Distinct
  <2> QED
    BY <2>1, <2>2, <2>3, <2>4
<1> QED
  BY <1>1, <1>5, <1>6 DEF Distinct, c

LEMMA FlattenHas ==
  ASSUME NEW S, NEW s \in Seq(Seq(S))
  PROVE  LET t == Ext!FlattenSeq(s)
         IN  /\ t \in Seq(S)
             /\ \A x : Occurs(x, t) <=> \E i \in 1 .. Len(s) : Occurs(x, s[i])
             /\ (/\ \A i \in 1 .. Len(s) : Distinct(s[i])
                 /\ \A i, j \in 1 .. Len(s) : \A x :
                       Occurs(x, s[i]) /\ Occurs(x, s[j]) => i = j) => Distinct(t)
<1>1. PICK h \in Prefixes(S, s, Len(s)) : Ext!FlattenSeq(s) = h[Len(s)]
  BY FlattenIs
<1>2. /\ Len(s) \in Nat /\ h[0] = <<>>
      /\ \A j \in 1 .. Len(s) : h[j] = h[j - 1] \o s[j]
      /\ \A j \in 1 .. Len(s) : s[j] \in Seq(S)
      /\ \A j \in 0 .. Len(s) : h[j] \in Seq(S)
  <2>1. Len(s) \in Nat /\ \A j \in 1 .. Len(s) : s[j] \in Seq(S)
    OBVIOUS
  <2>2. /\ h \in [0 .. Len(s) -> Seq(S)] /\ h[0] = <<>>
        /\ \A j \in 1 .. Len(s) : h[j] = h[j - 1] \o s[j]
    BY <1>1 DEF Prefixes
  <2> QED
    BY <2>1, <2>2
<1> DEFINE Apart == /\ \A i \in 1 .. Len(s) : Distinct(s[i])
                    /\ \A i, j \in 1 .. Len(s) : \A x :
                          Occurs(x, s[i]) /\ Occurs(x, s[j]) => i = j
           Has(j) == \A x : Occurs(x, h[j]) <=> \E i \in 1 .. j : Occurs(x, s[i])
           T == {j \in Nat : Has(j) /\ (Apart => Distinct(h[j]))}
<1>3. 0 \in T
  <2>1. \A x : ~Occurs(x, h[0])
    BY <1>2 DEF Occurs
  <2>2. Distinct(h[0])
    BY <1>2 DEF Distinct
  <2> QED
    BY <2>1, <2>2
<1>4. ASSUME NEW j \in 1 .. Len(s), j - 1 \in T PROVE j \in T
  <2> DEFINE a == h[j - 1]
             b == s[j]
  <2>1. j \in Nat /\ j - 1 \in 0 .. Len(s)
    BY <1>2
  <2>2. a \in Seq(S) /\ b \in Seq(S) /\ h[j] = a \o b
    BY <1>2, <2>1
  <2>3. Has(j - 1) /\ (Apart => Distinct(a))
    BY <1>4
  <2>4. \A x : Occurs(x, h[j]) <=> Occurs(x, a) \/ Occurs(x, b)
    BY ONLY <2>2, ConcatHas
  <2>5. Has(j)
    <3>1. \A i : i \in 1 .. j <=> i \in 1 .. j - 1 \/ i = j
      BY <2>1
    <3> QED
      BY <2>3, <2>4, <3>1
  <2>6. ASSUME Apart PROVE Distinct(h[j])
    <3>1. Distinct(a) /\ Distinct(b)
      BY <2>3, <2>6
    <3>2. ASSUME NEW x, Occurs(x, a), Occurs(x, b) PROVE FALSE
      <4>1. PICK i \in 1 .. j - 1 : Occurs(x, s[i])
        BY <2>3, <3>2
      <4>2. i \in 1 .. Len(s) /\ i # j
        BY <1>2, <2>1
      <4> QED
        BY <2>6, <3>2, <4>1, <4>2
    <3> HIDE DEF a, b
    <3> QED
      BY ONLY <2>2, <3>1, <3>2, ConcatHas
  <2> QED
    BY <2>1, <2>5, <2>6
<1> HIDE DEF T
<1>5. Len(s) \in T
  <2>1. \A j \in 0 .. Len(s) : j \in T
    BY <1>2, <1>3, <1>4, UpTo
  <2> QED
    BY <1>2, <2>1
<1>6. h[Len(s)] \in Seq(S)
  BY <1>2
<1> QED
  BY <1>1, <1>5, <1>6 DEF T

-----------------------------------------------------------------------------
(* Document order *)

\* A tree with finitely many nodes.
Tree(f) == f \in Doms /\ Linked(f) /\ NoCycle(f)

Entered(x) == ExpandReferences \/ Kind[x] # "entityReference"

LEMMA VisibleIs ==
  ASSUME NEW f, Tree(f), NEW x \in Node
  PROVE  /\ Visible(f, x) \in Seq(Node) /\ Distinct(Visible(f, x))
         /\ \A y : Occurs(y, Visible(f, x)) <=> y \in Node /\ f.parent[y] = x /\ Entered(x)
<1>1. f.kids[x] \in Seq(Node) /\ Distinct(f.kids[x])
  BY LinkedIs DEF Tree, Doms
<1>2. \A y : Occurs(y, f.kids[x]) <=> y \in Node /\ f.parent[y] = x
  <2>1. \A y : Occurs(y, f.kids[x]) => y \in Node
    BY <1>1 DEF Occurs
  <2> QED
    BY <2>1, LinkedIs DEF Tree
<1>3. <<>> \in Seq(Node) /\ Distinct(<<>>) /\ \A y : ~Occurs(y, <<>>)
  BY DEF Distinct, Occurs
<1> QED
  BY <1>1, <1>2, <1>3 DEF Visible, Entered

\* The orders g gives to the children of x that are entered.
Parts(f, g, x) == [j \in DOMAIN Visible(f, x) |-> g[Visible(f, x)[j]]]

IsPre(f, D, g) == g = [x \in D |-> <<x>> \o Ext!FlattenSeq(Parts(f, g, x))]

\* pre on a set of nodes that has the children of its members.
Done(f, D) ==
  /\ D \in SUBSET Node
  /\ \A x \in D : \A j \in DOMAIN Visible(f, x) : Visible(f, x)[j] \in D
  /\ \E g : IsPre(f, D, g)

LEMMA DoneFurther ==
  ASSUME NEW f, Tree(f), NEW D, Done(f, D), NEW x \in Node \ D, \A y \in Node \ D : f.parent[y] # x
  PROVE  Done(f, D \cup {x})
<1> DEFINE E == D \cup {x}
<1>1. PICK g : IsPre(f, D, g)
  BY DEF Done
<1>2. \A y \in E : \A j \in DOMAIN Visible(f, y) : Visible(f, y)[j] \in D
  <2> SUFFICES ASSUME NEW j \in DOMAIN Visible(f, x) PROVE Visible(f, x)[j] \in D
    BY DEF Done
  <2> DEFINE y == Visible(f, x)[j]
  <2>1. Occurs(y, Visible(f, x))
    BY DEF Occurs
  <2>2. y \in Node /\ f.parent[y] = x
    BY <2>1, VisibleIs
  <2> QED
    BY <2>2
<1> DEFINE h == [y \in E |-> <<y>> \o Ext!FlattenSeq(Parts(f, g, y))]
<1>3. \A y \in D : h[y] = g[y]
  <2>1. \A y \in D : g[y] = <<y>> \o Ext!FlattenSeq(Parts(f, g, y))
    BY <1>1 DEF IsPre
  <2> QED
    BY <2>1
<1> HIDE DEF h
<1>4. \A y \in E : Parts(f, h, y) = Parts(f, g, y)
  BY <1>2, <1>3 DEF Parts
<1>5. IsPre(f, E, h)
  BY <1>4 DEF IsPre, h
<1> QED
  BY <1>2, <1>5 DEF Done

LEMMA PreExists ==
  ASSUME NEW f, Tree(f)
  PROVE  \E g : IsPre(f, Node, g)
<1> DEFINE Sizes == {k \in Nat : \E D : Done(f, D) /\ Cardinality(Node \ D) = k}
<1>1. \A D \in SUBSET Node : IsFiniteSet(D) /\ Cardinality(D) \in Nat
  BY IteratorAssumption, FS_Subset, FS_CardinalityType
<1>2. PICK k \in Sizes : \A j \in Sizes : k <= j
  <2>1. Done(f, {})
    <3> DEFINE g == [x \in {} |-> x]
    <3>1. g = [x \in {} |-> <<x>> \o Ext!FlattenSeq(Parts(f, g, x))]
      OBVIOUS
    <3> HIDE DEF g
    <3>2. IsPre(f, {}, g)
      BY <3>1 DEF IsPre
    <3> QED
      BY <3>2 DEF Done
  <2>2. Cardinality(Node \ {}) \in Sizes
    BY <1>1, <2>1
  <2> QED
    BY <2>2, LeastOf
<1>3. PICK D : Done(f, D) /\ Cardinality(Node \ D) = k
  OBVIOUS
<1>4. D \in SUBSET Node
  BY <1>3 DEF Done
<1>5. CASE Node \ D = {}
  <2>1. D = Node
    BY <1>4, <1>5
  <2> QED
    BY <1>3, <2>1 DEF Done
<1>6. CASE Node \ D # {}
  <2>1. PICK x \in Node \ D : \A y \in Node \ D : f.parent[y] # x
    BY <1>6, LeafOf, IteratorAssumption DEF Tree
  <2>2. Done(f, D \cup {x})
    BY <1>3, <2>1, DoneFurther
  <2>3. Cardinality(Node \ (D \cup {x})) = k - 1
    <3>1. Node \ (D \cup {x}) = (Node \ D) \ {x}
      OBVIOUS
    <3> QED
      <4>1. IsFiniteSet(Node \ D) /\ x \in Node \ D /\ Cardinality(Node \ D) = k
        BY <1>1, <1>3, <2>1
      <4>2. Cardinality((Node \ D) \ {x}) = Cardinality(Node \ D) - 1
        BY ONLY <4>1, FS_RemoveElement
      <4> QED
        BY <3>1, <4>1, <4>2
  <2>4. k \in Nat /\ k - 1 \in Sizes
    BY <1>1, <2>2, <2>3
  <2> HIDE DEF Sizes
  <2>5. k <= k - 1
    BY <1>2, <2>4
  <2>6. FALSE
    BY <2>4, <2>5
  <2> QED
    BY <2>6
<1> QED
  BY <1>5, <1>6

\* The order of the children of x that are entered, one by one.
Below(f, x) == [j \in DOMAIN Visible(f, x) |-> Order(f, Visible(f, x)[j])]

LEMMA OrderIs ==
  ASSUME NEW f, Tree(f), NEW x \in Node
  PROVE  /\ Order(f, x) = <<x>> \o Ext!FlattenSeq(Below(f, x))
         /\ Order(f, x) \in Seq(Node) /\ Below(f, x) \in Seq(Seq(Node))
         /\ Ext!FlattenSeq(Below(f, x)) \in Seq(Node)
<1> DEFINE pre == CHOOSE g : IsPre(f, Node, g)
<1>1. IsPre(f, Node, pre)
  BY PreExists
<1>2. \A y : Order(f, y) = pre[y]
  BY Zenon DEF Order, IsPre, Parts
<1> HIDE DEF pre
<1>3. ASSUME NEW y \in Node PROVE Order(f, y) = <<y>> \o Ext!FlattenSeq(Below(f, y))
  <2>1. pre[y] = <<y>> \o Ext!FlattenSeq(Parts(f, pre, y))
    BY <1>1 DEF IsPre
  <2>2. Parts(f, pre, y) = Below(f, y)
    BY <1>2 DEF Parts, Below
  <2> QED
    BY <1>2, <2>1, <2>2
<1>4. ASSUME NEW y \in Node, \A z \in Node : f.parent[z] = y => Order(f, z) \in Seq(Node)
      PROVE  /\ Below(f, y) \in Seq(Seq(Node)) /\ Ext!FlattenSeq(Below(f, y)) \in Seq(Node)
             /\ Order(f, y) \in Seq(Node)
  <2>1. \A j \in DOMAIN Visible(f, y) : Order(f, Visible(f, y)[j]) \in Seq(Node)
    <3> SUFFICES ASSUME NEW j \in DOMAIN Visible(f, y)
                 PROVE  Order(f, Visible(f, y)[j]) \in Seq(Node)
      OBVIOUS
    <3>1. Occurs(Visible(f, y)[j], Visible(f, y))
      BY DEF Occurs
    <3> QED
      BY <1>4, <3>1, VisibleIs
  <2>2. Visible(f, y) \in Seq(Node)
    BY VisibleIs
  <2>3. Below(f, y) \in Seq(Seq(Node))
    BY <2>1, <2>2 DEF Below
  <2>4. Ext!FlattenSeq(Below(f, y)) \in Seq(Node)
    BY <2>3, FlattenHas
  <2>5. <<y>> \o Ext!FlattenSeq(Below(f, y)) \in Seq(Node)
    <3>1. <<y>> \in Seq(Node)
      OBVIOUS
    <3> QED
      BY ONLY <2>4, <3>1, ConcatProperties
  <2> QED
    BY <1>3, <2>3, <2>4, <2>5
<1> DEFINE Bad == {y \in Node : Order(f, y) \notin Seq(Node)}
<1>5. Bad = {}
  <2> SUFFICES ASSUME Bad # {} PROVE FALSE
    OBVIOUS
  <2>1. PICK y \in Bad : \A z \in Bad : f.parent[z] # y
    BY LeafOf, IteratorAssumption DEF Tree
  <2> QED
    BY <1>4, <2>1
<1> QED
  BY <1>3, <1>4, <1>5

-----------------------------------------------------------------------------
(* The nodes an iterator with a given root presents *)

Under(f, x) == Members(Order(f, x))

LEMMA UnderIs ==
  ASSUME NEW f, Tree(f), NEW x \in Node
  PROVE  /\ Under(f, x) \in SUBSET Node /\ x \in Under(f, x)
         /\ \A y : y \in Under(f, x) <=> Occurs(y, Order(f, x))
         /\ \A y : y \in Under(f, x) <=>
                     \/ y = x
                     \/ \E k \in Node : /\ f.parent[k] = x /\ Entered(x)
                                        /\ y \in Under(f, k)
<1> DEFINE t == Ext!FlattenSeq(Below(f, x))
<1>1. /\ Order(f, x) = <<x>> \o t /\ Order(f, x) \in Seq(Node)
      /\ t \in Seq(Node) /\ Below(f, x) \in Seq(Seq(Node))
  BY OrderIs
<1>2. \A z \in Node : \A y : y \in Under(f, z) <=> Occurs(y, Order(f, z))
  BY DEF Under, Members, Occurs
<1>3. Under(f, x) \in SUBSET Node
  BY <1>1 DEF Under, Members
<1>4. \A y : Occurs(y, t) <=> \E i \in 1 .. Len(Below(f, x)) : Occurs(y, Below(f, x)[i])
  BY <1>1, FlattenHas
<1> HIDE DEF t
<1>5. \A y : Occurs(y, Order(f, x)) <=> y = x \/ Occurs(y, t)
  <2>1. \A y : Occurs(y, <<x>>) <=> y = x
    BY DEF Occurs
  <2>2. <<x>> \in Seq(Node) /\ t \in Seq(Node)
    BY <1>1
  <2>3. \A y : Occurs(y, <<x>> \o t) <=> Occurs(y, <<x>>) \/ Occurs(y, t)
    BY ONLY <2>2, ConcatHas
  <2> QED
    BY <1>1, <2>1, <2>3
<1>6. ASSUME NEW y
      PROVE  Occurs(y, t) <=> \E k \in Node : f.parent[k] = x /\ Entered(x) /\ y \in Under(f, k)
  <2>1. Visible(f, x) \in Seq(Node)
    BY VisibleIs
  <2>2. /\ 1 .. Len(Below(f, x)) = DOMAIN Visible(f, x)
        /\ \A i \in DOMAIN Visible(f, x) :
              Visible(f, x)[i] \in Node /\ Below(f, x)[i] = Order(f, Visible(f, x)[i])
    <3>1. DOMAIN Below(f, x) = DOMAIN Visible(f, x)
      BY DEF Below
    <3> QED
      BY <1>1, <2>1, <3>1 DEF Below
  <2>3. Occurs(y, t) <=> \E i \in DOMAIN Visible(f, x) : y \in Under(f, Visible(f, x)[i])
    BY <1>2, <1>4, <2>2
  <2>4. (\E i \in DOMAIN Visible(f, x) : y \in Under(f, Visible(f, x)[i]))
          <=> \E k : Occurs(k, Visible(f, x)) /\ y \in Under(f, k)
    BY DEF Occurs
  <2>5. \A k : Occurs(k, Visible(f, x)) <=> k \in Node /\ f.parent[k] = x /\ Entered(x)
    BY VisibleIs
  <2> QED
    BY <2>3, <2>4, <2>5
<1> QED
  BY <1>2, <1>3, <1>5, <1>6

\* Above a node in the subtree of x there are nodes of it that are entered, up
\* to x.
LEMMA UnderUp ==
  ASSUME NEW f, Tree(f), NEW x \in Node, NEW y \in Under(f, x), y # x
  PROVE  f.parent[y] \in Under(f, x) /\ Entered(f.parent[y])
<1> DEFINE Bad == {z \in Node : \E u \in Under(f, z) :
                     u # z /\ ~(f.parent[u] \in Under(f, z) /\ Entered(f.parent[u]))}
<1> SUFFICES ASSUME Bad # {} PROVE FALSE
  OBVIOUS
<1>1. PICK z \in Bad : \A u \in Bad : f.parent[u] # z
  BY LeafOf, IteratorAssumption DEF Tree
<1>2. PICK u \in Under(f, z) : u # z /\ ~(f.parent[u] \in Under(f, z) /\ Entered(f.parent[u]))
  OBVIOUS
<1>3. PICK k \in Node : f.parent[k] = z /\ Entered(z) /\ u \in Under(f, k)
  BY <1>2, UnderIs
<1>4. u # k
  BY <1>2, <1>3, UnderIs
<1>5. f.parent[u] \in Under(f, k) /\ Entered(f.parent[u])
  BY <1>1, <1>3, <1>4
<1> QED
  BY <1>2, <1>3, <1>5, UnderIs

LEMMA UnderDown ==
  ASSUME NEW f, Tree(f), NEW x \in Node, NEW y \in Under(f, x), Entered(y),
         NEW w \in Node, f.parent[w] = y
  PROVE  w \in Under(f, x)
<1> DEFINE Bad == {z \in Node : \E u \in Under(f, z), v \in Node :
                     Entered(u) /\ f.parent[v] = u /\ v \notin Under(f, z)}
<1> SUFFICES ASSUME Bad # {} PROVE FALSE
  OBVIOUS
<1>1. PICK z \in Bad : \A u \in Bad : f.parent[u] # z
  BY LeafOf, IteratorAssumption DEF Tree
<1>2. PICK u \in Under(f, z), v \in Node :
        Entered(u) /\ f.parent[v] = u /\ v \notin Under(f, z)
  OBVIOUS
<1>3. CASE u = z
  <2>1. v \in Under(f, v)
    BY UnderIs
  <2> QED
    BY <1>2, <1>3, <2>1, UnderIs
<1>4. CASE u # z
  <2>1. PICK k \in Node : f.parent[k] = z /\ Entered(z) /\ u \in Under(f, k)
    BY <1>2, <1>4, UnderIs
  <2>2. v \in Under(f, k)
    BY <1>1, <1>2, <2>1
  <2> QED
    BY <1>2, <2>1, <2>2, UnderIs
<1> QED
  BY <1>3, <1>4

\* The subtree of x is the least set that is closed downwards.
LEMMA UnderLeast ==
  ASSUME NEW f, Tree(f), NEW x \in Node, NEW T, x \in T,
         \A y \in Under(f, x) : y # x /\ f.parent[y] \in T => y \in T
  PROVE  Under(f, x) \subseteq T
<1> DEFINE S == Under(f, x) \ T
<1> SUFFICES ASSUME S # {} PROVE FALSE
  OBVIOUS
<1>1. PICK y \in S : f.parent[y] \notin S
  BY UnderIs DEF Tree, NoCycle
<1>2. y # x /\ f.parent[y] \in Under(f, x)
  BY UnderUp
<1> QED
  BY <1>1, <1>2

\* No subtree has its own parent, and those of two siblings are apart.
LEMMA NotUnderItself ==
  ASSUME NEW f, Tree(f), NEW x \in Node
  PROVE  f.parent[x] \notin Under(f, x)
<1> SUFFICES ASSUME f.parent[x] \in Under(f, x) PROVE FALSE
  OBVIOUS
<1>1. \A y \in Under(f, x) : f.parent[y] \in Under(f, x)
  BY UnderUp
<1> QED
  BY <1>1, UnderIs DEF Tree, NoCycle

LEMMA SiblingsApart ==
  ASSUME NEW f, Tree(f), NEW k \in Node, NEW l \in Node, k # l, f.parent[k] = f.parent[l]
  PROVE  Under(f, k) \cap Under(f, l) = {}
<1> DEFINE S == Under(f, k) \cap Under(f, l)
<1> SUFFICES ASSUME S # {} PROVE FALSE
  OBVIOUS
<1>1. PICK y \in S : f.parent[y] \notin S
  BY UnderIs DEF Tree, NoCycle
<1>2. y = k \/ y = l
  BY <1>1, UnderUp
<1>3. f.parent[k] \in Under(f, l) \/ f.parent[l] \in Under(f, k)
  BY <1>2, UnderUp
<1> QED
  BY <1>3, NotUnderItself

\* Document order lists no node twice.
LEMMA OrderDistinct ==
  ASSUME NEW f, Tree(f), NEW x \in Node
  PROVE  Distinct(Order(f, x))
<1>1. ASSUME NEW y \in Node, \A k \in Node : f.parent[k] = y => Distinct(Order(f, k))
      PROVE  Distinct(Order(f, y))
  <2> DEFINE b == Below(f, y)
             v == Visible(f, y)
             t == Ext!FlattenSeq(b)
  <2>1. Order(f, y) = <<y>> \o t /\ t \in Seq(Node) /\ b \in Seq(Seq(Node))
    BY OrderIs
  <2>2. /\ v \in Seq(Node) /\ Distinct(v)
        /\ \A k : Occurs(k, v) <=> k \in Node /\ f.parent[k] = y /\ Entered(y)
    BY VisibleIs
  <2>3. 1 .. Len(b) = DOMAIN v /\ \A i \in DOMAIN v : b[i] = Order(f, v[i])
    <3>1. DOMAIN b = DOMAIN v
      BY DEF Below
    <3> QED
      BY <2>1, <3>1 DEF Below
  <2>4. \A i \in DOMAIN v : v[i] \in Node /\ f.parent[v[i]] = y
    BY <2>2 DEF Occurs
  <2> HIDE DEF b, v
  <2>5. \A i \in 1 .. Len(b) : Distinct(b[i])
    BY <1>1, <2>3, <2>4
  <2>6. ASSUME NEW i \in 1 .. Len(b), NEW j \in 1 .. Len(b), NEW z,
               Occurs(z, b[i]), Occurs(z, b[j])
        PROVE  i = j
    <3>1. /\ v[i] \in Node /\ v[j] \in Node /\ f.parent[v[i]] = f.parent[v[j]]
          /\ z \in Under(f, v[i]) /\ z \in Under(f, v[j])
      BY <2>3, <2>4, <2>6, UnderIs
    <3>2. v[i] = v[j]
      BY <3>1, SiblingsApart
    <3> QED
      BY <2>2, <2>3, <3>2 DEF Distinct
  <2>7. Distinct(t)
    BY <2>1, <2>5, <2>6, FlattenHas
  <2>8. ~Occurs(y, t)
    <3> SUFFICES ASSUME Occurs(y, t) PROVE FALSE
      OBVIOUS
    <3>1. PICK i \in 1 .. Len(b) : Occurs(y, b[i])
      BY <2>1, FlattenHas
    <3>2. v[i] \in Node /\ f.parent[v[i]] = y /\ y \in Under(f, v[i])
      BY <2>3, <2>4, <3>1, UnderIs
    <3> QED
      BY <3>2, NotUnderItself
  <2> HIDE DEF t
  <2>9. <<y>> \in Seq(Node) /\ Distinct(<<y>>) /\ \A z : Occurs(z, <<y>>) => z = y
    BY DEF Distinct, Occurs
  <2> QED
    BY <2>1, <2>7, <2>8, <2>9, ConcatHas, ZenonT(60)
<1> DEFINE Bad == {y \in Node : ~Distinct(Order(f, y))}
<1>2. Bad = {}
  <2> SUFFICES ASSUME Bad # {} PROVE FALSE
    OBVIOUS
  <2>1. PICK y \in Bad : \A z \in Bad : f.parent[z] # y
    BY LeafOf, IteratorAssumption DEF Tree
  <2> QED
    BY <1>1, <2>1
<1> QED
  BY <1>2

-----------------------------------------------------------------------------
(* Stepping through the tree *)

LEMMA SiblingIs ==
  ASSUME NEW f, Tree(f), NEW x \in Node
  PROVE  /\ f.parent[x] = Nil => NextSibling(f, x) = Nil /\ PreviousSibling(f, x) = Nil
         /\ NextSibling(f, x) \in NodeOrNil /\ PreviousSibling(f, x) \in NodeOrNil
         /\ \A p \in Node : f.parent[x] = p => f.kids[p] \in Seq(Node)
         /\ \A p \in Node : \A i \in 1 .. Len(f.kids[p]) : f.kids[p][i] = x =>
              /\ f.parent[x] = p
              /\ NextSibling(f, x) = IF i = Len(f.kids[p]) THEN Nil ELSE f.kids[p][i + 1]
              /\ PreviousSibling(f, x) = IF i = 1 THEN Nil ELSE f.kids[p][i - 1]
<1>1. ASSUME f.parent[x] = Nil PROVE NextSibling(f, x) = Nil /\ PreviousSibling(f, x) = Nil
  <2> DEFINE s == <<x>>
  <2>1. Occurs(x, s) /\ DOMAIN s = 1 .. 1 /\ Len(s) = 1
    BY DEF Occurs
  <2>2. IndexOf(s, x) = 1
    BY <2>1, IndexOfOccurs
  <2> QED
    BY <1>1, <2>1, <2>2 DEF NextSibling, PreviousSibling
<1>2. ASSUME NEW p \in Node, NEW i \in 1 .. Len(f.kids[p]), f.kids[p][i] = x
      PROVE  /\ f.parent[x] = p /\ f.kids[p] \in Seq(Node) /\ IndexOf(f.kids[p], x) = i
  <2>1. f.kids[p] \in Seq(Node) /\ Distinct(f.kids[p]) /\ Occurs(x, f.kids[p])
    BY <1>2, LinkedIs DEF Tree, Doms, Occurs
  <2>2. IndexOf(f.kids[p], x) \in DOMAIN f.kids[p] /\ f.kids[p][IndexOf(f.kids[p], x)] = x
    BY <2>1, IndexOfOccurs
  <2>3. i \in DOMAIN f.kids[p]
    BY <2>1
  <2>4. IndexOf(f.kids[p], x) = i
    BY <1>2, <2>1, <2>2, <2>3 DEF Distinct
  <2> QED
    BY <2>1, <2>4, LinkedIs DEF Tree
<1>3. ASSUME NEW p \in Node, NEW i \in 1 .. Len(f.kids[p]), f.kids[p][i] = x
      PROVE  /\ f.parent[x] = p
             /\ NextSibling(f, x) = IF i = Len(f.kids[p]) THEN Nil ELSE f.kids[p][i + 1]
             /\ PreviousSibling(f, x) = IF i = 1 THEN Nil ELSE f.kids[p][i - 1]
  BY <1>2, <1>3, NilAssumption DEF NextSibling, PreviousSibling
<1>4. NextSibling(f, x) \in NodeOrNil /\ PreviousSibling(f, x) \in NodeOrNil
  <2>1. CASE f.parent[x] = Nil
    BY <1>1, <2>1 DEF NodeOrNil
  <2>2. CASE f.parent[x] # Nil
    <3> DEFINE p == f.parent[x]
    <3>1. p \in Node /\ f.kids[p] \in Seq(Node)
      BY <2>2 DEF Tree, Doms, NodeOrNil
    <3>2. PICK i \in DOMAIN f.kids[p] : f.kids[p][i] = x
      BY <3>1, LinkedIs DEF Tree, Occurs
    <3> HIDE DEF p
    <3>3. i \in 1 .. Len(f.kids[p]) /\ Len(f.kids[p]) \in Nat
      BY <3>1, <3>2
    <3>4. /\ i # Len(f.kids[p]) => f.kids[p][i + 1] \in Node
          /\ i # 1 => f.kids[p][i - 1] \in Node
      BY <3>1, <3>3
    <3> QED
      BY <1>3, <3>1, <3>2, <3>3, <3>4 DEF NodeOrNil
  <2> QED
    BY <2>1, <2>2
<1> QED
  BY <1>1, <1>3, <1>4 DEF Tree, Doms

LEMMA NextIs ==
  ASSUME NEW f, Tree(f), NEW root, NEW x \in Node
  PROVE  /\ NextInTree(f, root, x, TRUE) =
              IF Visible(f, x) # <<>> THEN Head(Visible(f, x))
              ELSE NextInTree(f, root, x, FALSE)
         /\ NextInTree(f, root, x, FALSE) =
              IF x = root THEN Nil
              ELSE IF NextSibling(f, x) # Nil THEN NextSibling(f, x)
              ELSE IF f.parent[x] = Nil THEN Nil
              ELSE NextInTree(f, root, f.parent[x], FALSE)
<1> DEFINE Is(c) == c = [p \in NodeOrNil |->
                           IF p = Nil \/ p = root THEN Nil
                           ELSE IF NextSibling(f, p) # Nil THEN NextSibling(f, p)
                           ELSE c[f.parent[p]]]
           climb == CHOOSE c : Is(c)
           T == {p \in NodeOrNil : p = Nil \/ p = root \/ NextSibling(f, p) # Nil}
           g == [p \in NodeOrNil |-> IF p = Nil THEN Nil ELSE f.parent[p]]
           e == [p \in NodeOrNil |-> IF p = Nil \/ p = root THEN Nil ELSE NextSibling(f, p)]
<1>1. g \in [NodeOrNil -> NodeOrNil]
  BY DEF Tree, Doms, NodeOrNil
<1>2. PICK s : Follows(NodeOrNil, T, g, e, s)
  <2> HIDE DEF T, g, e
  <2> QED
    BY <1>1, Follow
<1>3. Is(s)
  <2>1. ASSUME NEW p \in NodeOrNil
        PROVE  s[p] = IF p = Nil \/ p = root THEN Nil
                      ELSE IF NextSibling(f, p) # Nil THEN NextSibling(f, p)
                      ELSE s[f.parent[p]]
    <3>1. s[p] = IF p \in T THEN e[p] ELSE s[g[p]]
      BY <1>2 DEF Follows
    <3> QED
      BY <3>1
  <2>2. s = [p \in NodeOrNil |-> s[p]]
    BY <1>2 DEF Follows
  <2> HIDE DEF T, g, e
  <2> QED
    BY <2>1, <2>2
<1> HIDE DEF Is, T, g, e
<1>4. Is(climb)
  BY <1>3
<1>5. \A p \in Node : /\ p # Nil
                      /\ NextInTree(f, root, p, FALSE) = climb[p]
                      /\ NextInTree(f, root, p, TRUE) =
                           IF Visible(f, p) # <<>> THEN Head(Visible(f, p)) ELSE climb[p]
  BY NilAssumption DEF NextInTree, climb, Is
<1> HIDE DEF climb
<1>6. /\ climb[Nil] = Nil
      /\ climb[x] = IF x = root THEN Nil
                    ELSE IF NextSibling(f, x) # Nil THEN NextSibling(f, x)
                    ELSE climb[f.parent[x]]
  BY <1>4, NilAssumption DEF Is, NodeOrNil
<1>7. f.parent[x] = Nil \/ f.parent[x] \in Node
  BY DEF Tree, Doms, NodeOrNil
<1> QED
  BY <1>5, <1>6, <1>7

\* The last node of the subtree of p in document order.
Deepest(f, p) ==
  LET deepest[q \in Node] ==
        IF Visible(f, q) = <<>> THEN q ELSE deepest[Visible(f, q)[Len(Visible(f, q))]]
  IN  deepest[p]

LEMMA PreviousIs ==
  ASSUME NEW f, Tree(f), NEW root, NEW x \in Node
  PROVE  /\ PreviousInTree(f, root, x) =
              IF x = root THEN Nil
              ELSE IF PreviousSibling(f, x) # Nil THEN Deepest(f, PreviousSibling(f, x))
              ELSE f.parent[x]
         /\ Deepest(f, x) = IF Visible(f, x) = <<>> THEN x
                            ELSE Deepest(f, Visible(f, x)[Len(Visible(f, x))])
<1> DEFINE last(q) == Visible(f, q)[Len(Visible(f, q))]
           Is(c) == c = [q \in Node |-> IF Visible(f, q) = <<>> THEN q ELSE c[last(q)]]
           deepest == CHOOSE c : Is(c)
           T == {q \in Node : Visible(f, q) = <<>>}
           g == [q \in Node |-> IF Visible(f, q) = <<>> THEN q ELSE last(q)]
           e == [q \in Node |-> q]
<1>1. g \in [Node -> Node]
  <2> SUFFICES ASSUME NEW q \in Node, Visible(f, q) # <<>> PROVE last(q) \in Node
    OBVIOUS
  <2>1. Visible(f, q) \in Seq(Node)
    BY VisibleIs
  <2> QED
    BY <2>1
<1> HIDE DEF last
<1>2. PICK s : Follows(Node, T, g, e, s)
  <2> HIDE DEF T, g, e
  <2> QED
    BY <1>1, Follow
<1>3. Is(s)
  <2>1. ASSUME NEW q \in Node
        PROVE  s[q] = IF Visible(f, q) = <<>> THEN q ELSE s[last(q)]
    <3>1. s[q] = IF q \in T THEN e[q] ELSE s[g[q]]
      BY <1>2 DEF Follows
    <3> QED
      BY <3>1
  <2>2. s = [q \in Node |-> s[q]]
    BY <1>2 DEF Follows
  <2> HIDE DEF T, g, e
  <2> QED
    BY <2>1, <2>2
<1> HIDE DEF Is, T, g, e
<1>4. Is(deepest)
  BY <1>3
<1>5. \A q : Deepest(f, q) = deepest[q]
  BY Zenon DEF Deepest, deepest, Is, last
<1>6. PreviousInTree(f, root, x) =
        IF x = root THEN Nil
        ELSE IF PreviousSibling(f, x) # Nil THEN deepest[PreviousSibling(f, x)]
        ELSE f.parent[x]
  BY Zenon DEF PreviousInTree, deepest, Is, last
<1> HIDE DEF deepest
<1>7. deepest[x] = IF Visible(f, x) = <<>> THEN x ELSE deepest[last(x)]
  BY <1>4 DEF Is
<1> QED
  BY <1>5, <1>6, <1>7 DEF last

-----------------------------------------------------------------------------
(* The iterator's steps are the steps of document order *)

\* Pairs of nodes that nextNode and previousNode take to each other.
Steps(f, r) ==
  {s \in Node \X Node : /\ s[2] # r
                        /\ NextInTree(f, r, s[1], TRUE) = s[2]
                        /\ PreviousInTree(f, r, s[2]) = s[1]}

Walked(f, r, v) ==
  /\ Chain(Steps(f, r), Order(f, v))
  /\ Order(f, v)[1] = v /\ Order(f, v)[Len(Order(f, v))] = Deepest(f, v)
  /\ NextInTree(f, r, Deepest(f, v), TRUE) = NextInTree(f, r, v, FALSE)

LEMMA WalkedFurther ==
  ASSUME NEW f, Tree(f), NEW r \in Node, NEW v \in Node,
         \A k \in Node : f.parent[k] = v /\ Entered(v) => k # r /\ Walked(f, r, k)
  PROVE  Walked(f, r, v)
<1> DEFINE R == Steps(f, r)
           k == Visible(f, v)
           b == Below(f, v)
           t == Ext!FlattenSeq(b)
           n == Len(k)
<1>1. k \in Seq(Node) /\ n \in Nat /\ \A i \in 1 .. n : k[i] \in Node
  BY VisibleIs
<1>2. Order(f, v) = <<v>> \o t /\ t \in Seq(Node) /\ b \in Seq(Seq(Node))
  BY OrderIs
<1>3. Len(b) = n /\ \A i \in 1 .. n : b[i] = Order(f, k[i])
  <2>1. DOMAIN b = DOMAIN k
    BY DEF Below
  <2> QED
    BY <1>1, <1>2, <2>1 DEF Below
<1>4. \A i \in 1 .. n : f.parent[k[i]] = v /\ Entered(v) /\ k[i] # r /\ Walked(f, r, k[i])
  <2> SUFFICES ASSUME NEW i \in 1 .. n PROVE f.parent[k[i]] = v /\ Entered(v)
    BY <1>1
  <2>1. Occurs(k[i], k)
    BY <1>1 DEF Occurs
  <2> QED
    BY <2>1, VisibleIs
<1> HIDE DEF b
<1>5. CASE n = 0
  <2>1. k = <<>> /\ b = <<>>
    BY <1>1, <1>2, <1>3, <1>5
  <2>2. t = <<>>
    <3>1. \A x : ~Occurs(x, t)
      <4>1. \A x : Occurs(x, t) => \E i \in 1 .. Len(b) : Occurs(x, b[i])
        BY ONLY <1>2, FlattenHas
      <4> QED
        BY <1>3, <1>5, <4>1
    <3>2. t # <<>> => Occurs(t[1], t)
      BY <1>2, SMTT(30) DEF Occurs
    <3> QED
      BY <3>1, <3>2
  <2>3. Order(f, v) = <<v>>
    BY <1>2, <2>2
  <2>4. Deepest(f, v) = v /\ NextInTree(f, r, v, TRUE) = NextInTree(f, r, v, FALSE)
    BY <2>1, NextIs, PreviousIs
  <2>5. Len(Order(f, v)) = 1 /\ Order(f, v)[1] = v /\ Chain(R, Order(f, v))
    BY <2>3 DEF Chain
  <2> QED
    BY <2>4, <2>5 DEF Walked
<1>6. CASE n # 0
  <2>1. k = f.kids[v]
    BY <1>1, <1>6 DEF Visible
  <2>2. ASSUME NEW i \in 1 .. n
        PROVE  /\ NextSibling(f, k[i]) = IF i = n THEN Nil ELSE k[i + 1]
               /\ PreviousSibling(f, k[i]) = IF i = 1 THEN Nil ELSE k[i - 1]
    BY <1>1, <2>1, SiblingIs
  <2>3. ASSUME NEW i \in 1 .. n
        PROVE  /\ Chain(R, b[i]) /\ b[i][1] = k[i]
               /\ b[i][Len(b[i])] = Deepest(f, k[i])
    BY <1>3, <1>4 DEF Walked
  <2>4. ASSUME NEW i \in 1 .. n - 1
        PROVE  <<b[i][Len(b[i])], b[i + 1][1]>> \in R
    <3> DEFINE x == Deepest(f, k[i])
               y == k[i + 1]
    <3>1. i \in 1 .. n /\ i + 1 \in 1 .. n /\ i # n /\ i + 1 # 1 /\ i + 1 - 1 = i
      BY <1>1
    <3>2. b[i][Len(b[i])] = x /\ b[i + 1][1] = y
      BY <2>3, <3>1
    <3>3. y \in Node /\ y # r /\ y # Nil /\ k[i] \in Node /\ k[i] # Nil /\ k[i] # r
      BY <1>1, <1>4, <3>1, NilAssumption
    <3>4. NextInTree(f, r, x, TRUE) = y
      <4>1. NextInTree(f, r, x, TRUE) = NextInTree(f, r, k[i], FALSE)
        BY <1>4, <3>1 DEF Walked
      <4>2. NextSibling(f, k[i]) = y
        BY <2>2, <3>1
      <4> QED
        BY <3>3, <4>1, <4>2, NextIs
    <3>5. PreviousInTree(f, r, y) = x
      <4>1. PreviousSibling(f, y) = k[i]
        BY <2>2, <3>1
      <4> QED
        BY <3>3, <4>1, PreviousIs
    <3>6. x \in Node
      <4>1. x = Order(f, k[i])[Len(Order(f, k[i]))] /\ Order(f, k[i]) # <<>>
        BY <1>4, <3>1 DEF Walked, Chain
      <4>2. Order(f, k[i]) \in Seq(Node)
        BY <3>3, OrderIs
      <4> QED
        BY <4>1, <4>2
    <3> QED
      BY <3>2, <3>3, <3>4, <3>5, <3>6 DEF Steps
  <2>5. /\ Chain(R, t) /\ t[1] = b[1][1] /\ t[Len(t)] = b[n][Len(b[n])]
    <3>1. b # <<>>
      BY <1>3, <1>6
    <3>2. \A i \in 1 .. Len(b) : Chain(R, b[i])
      BY <1>3, <2>3
    <3>3. \A i \in 1 .. Len(b) - 1 : <<b[i][Len(b[i])], b[i + 1][1]>> \in R
      BY <1>3, <2>4
    <3> QED
      BY ONLY <1>2, <1>3, <3>1, <3>2, <3>3, FlattenChain
  <2>6. 1 \in 1 .. n /\ n \in 1 .. n
    BY <1>1, <1>6
  <2>7. t[1] = k[1] /\ t[Len(t)] = Deepest(f, k[n]) /\ t # <<>>
    BY <2>3, <2>5, <2>6 DEF Chain
  <2>8. <<v, t[1]>> \in R
    <3>1. k[1] \in Node /\ k[1] # r /\ PreviousSibling(f, k[1]) = Nil /\ f.parent[k[1]] = v
      BY <1>1, <1>4, <2>2, <2>6
    <3>2. PreviousInTree(f, r, k[1]) = v
      BY <3>1, PreviousIs
    <3>3. Visible(f, v) # <<>> /\ Head(Visible(f, v)) = k[1]
      BY <1>1, <1>6
    <3>4. NextInTree(f, r, v, TRUE) = k[1]
      BY <3>3, NextIs
    <3> QED
      BY <2>7, <3>1, <3>2, <3>4 DEF Steps
  <2>9. Chain(R, Order(f, v)) /\ Order(f, v)[1] = v
        /\ Order(f, v)[Len(Order(f, v))] = t[Len(t)]
    <3>1. <<v>> \in Seq(Node) /\ Chain(R, <<v>>) /\ <<v>>[Len(<<v>>)] = v /\ <<v>>[1] = v
      BY DEF Chain
    <3> HIDE DEF R, t
    <3>2. <<<<v>>[Len(<<v>>)], t[1]>> \in R
      BY <2>8, <3>1
    <3>3. /\ Chain(R, <<v>> \o t) /\ (<<v>> \o t)[1] = <<v>>[1]
          /\ (<<v>> \o t)[Len(<<v>> \o t)] = t[Len(t)]
      <4> DEFINE a == <<v>>
      <4>1. /\ a \in Seq(Node) /\ t \in Seq(Node) /\ Chain(R, a) /\ Chain(R, t)
            /\ <<a[Len(a)], t[1]>> \in R
        BY <1>2, <2>5, <3>1, <3>2
      <4> HIDE DEF a
      <4>2. /\ Chain(R, a \o t) /\ (a \o t)[1] = a[1]
            /\ (a \o t)[Len(a \o t)] = t[Len(t)]
        BY ONLY <4>1, ConcatChain, Zenon
      <4> QED
        BY <4>2 DEF a
    <3> QED
      BY <1>2, <3>1, <3>3
  <2>10. Deepest(f, v) = Deepest(f, k[n])
    <3>1. Visible(f, v) # <<>>
      BY <1>1, <1>6
    <3> QED
      BY <3>1, PreviousIs
  <2>11. NextInTree(f, r, Deepest(f, v), TRUE) = NextInTree(f, r, v, FALSE)
    <3>1. NextInTree(f, r, Deepest(f, k[n]), TRUE) = NextInTree(f, r, k[n], FALSE)
      BY <1>4, <2>6 DEF Walked
    <3>2. /\ k[n] \in Node /\ k[n] # r /\ NextSibling(f, k[n]) = Nil
          /\ f.parent[k[n]] = v /\ v # Nil
      BY <1>1, <1>4, <2>2, <2>6, NilAssumption
    <3>3. NextInTree(f, r, k[n], FALSE) = NextInTree(f, r, v, FALSE)
      <4> DEFINE l == k[n]
      <4>1. l \in Node /\ l # r /\ NextSibling(f, l) = Nil /\ f.parent[l] = v /\ v # Nil
        BY <3>2
      <4> HIDE DEF l
      <4>2. NextInTree(f, r, l, FALSE) = NextInTree(f, r, f.parent[l], FALSE)
        BY ONLY <4>1, Tree(f), NextIs
      <4> QED
        BY <4>1, <4>2 DEF l
    <3> QED
      BY <2>10, <3>1, <3>3
  <2> QED
    BY <2>7, <2>9, <2>10, <2>11 DEF Walked
<1> QED
  BY <1>5, <1>6

LEMMA OrderSteps ==
  ASSUME NEW f, Tree(f), NEW r \in Node, NEW v \in Node, r \in Under(f, v) => r = v
  PROVE  Walked(f, r, v)
<1> DEFINE Bad == {w \in Node : (r \in Under(f, w) => r = w) /\ ~Walked(f, r, w)}
<1> SUFFICES ASSUME Bad # {} PROVE FALSE
  OBVIOUS
<1>1. PICK w \in Bad : \A u \in Bad : f.parent[u] # w
  BY LeafOf, IteratorAssumption DEF Tree
<1>2. ASSUME NEW k \in Node, f.parent[k] = w, Entered(w)
      PROVE  k # r /\ r \notin Under(f, k)
  <2>1. r \in Under(f, k) => r \in Under(f, w)
    BY <1>2, UnderIs
  <2>2. w \notin Under(f, k)
    BY <1>2, NotUnderItself
  <2>3. k \in Under(f, k)
    BY UnderIs
  <2> QED
    BY <2>1, <2>2, <2>3
<1>3. Walked(f, r, w)
  BY <1>1, <1>2, WalkedFurther
<1> QED
  BY <1>3

\* s lists the subtree of r, and at every place of s nextNode and previousNode
\* take one step.
Lists(f, r, s) ==
  /\ s \in Seq(Node) /\ Len(s) \in Nat /\ Len(s) > 0 /\ s[1] = r
  /\ \A i \in 1 .. Len(s) :
       /\ s[i] \in Node /\ s[i] \in Under(f, r) /\ IndexOf(s, s[i]) = i
       /\ NextInTree(f, r, s[i], TRUE) = IF i = Len(s) THEN Nil ELSE s[i + 1]
       /\ PreviousInTree(f, r, s[i]) = IF i = 1 THEN Nil ELSE s[i - 1]
  /\ \A x \in Under(f, r) : \E i \in 1 .. Len(s) : x = s[i]

LEMMA PositionIs ==
  ASSUME NEW f, Tree(f), NEW r \in Node
  PROVE  Lists(f, r, Order(f, r))
<1> DEFINE s == Order(f, r)
<1>1. Walked(f, r, r)
  BY OrderSteps
<1>2. s \in Seq(Node) /\ Distinct(s)
  BY OrderIs, OrderDistinct
<1>3. /\ Chain(Steps(f, r), s) /\ s[1] = r /\ s[Len(s)] = Deepest(f, r)
      /\ NextInTree(f, r, Deepest(f, r), TRUE) = NextInTree(f, r, r, FALSE)
  BY <1>1 DEF Walked
<1>4. \A x : x \in Under(f, r) <=> Occurs(x, s)
  BY UnderIs
<1> HIDE DEF s
<1>5. Len(s) \in Nat /\ Len(s) > 0 /\ DOMAIN s = 1 .. Len(s)
  BY <1>2, <1>3 DEF Chain
<1>6. NextInTree(f, r, r, FALSE) = Nil /\ PreviousInTree(f, r, r) = Nil
  BY NextIs, PreviousIs
<1>7. ASSUME NEW i \in 1 .. Len(s)
      PROVE  /\ s[i] \in Node /\ s[i] \in Under(f, r) /\ IndexOf(s, s[i]) = i
             /\ NextInTree(f, r, s[i], TRUE) = IF i = Len(s) THEN Nil ELSE s[i + 1]
             /\ PreviousInTree(f, r, s[i]) = IF i = 1 THEN Nil ELSE s[i - 1]
  <2>1. s[i] \in Node /\ Occurs(s[i], s)
    BY <1>2, <1>5 DEF Occurs
  <2>2. IndexOf(s, s[i]) = i
    <3>1. IndexOf(s, s[i]) \in DOMAIN s /\ s[IndexOf(s, s[i])] = s[i]
      BY <2>1, IndexOfOccurs
    <3> QED
      BY <1>2, <1>5, <3>1 DEF Distinct
  <2>3. NextInTree(f, r, s[i], TRUE) = IF i = Len(s) THEN Nil ELSE s[i + 1]
    <3>1. CASE i = Len(s)
      BY <1>3, <1>6, <3>1
    <3>2. CASE i # Len(s)
      <4>1. i \in 1 .. Len(s) - 1
        <5>1. Len(s) \in Nat
          BY <1>5
        <5> QED
          BY <3>2, <5>1
      <4>2. <<s[i], s[i + 1]>> \in Steps(f, r)
        BY <1>3, <4>1 DEF Chain
      <4> QED
        BY <3>2, <4>2 DEF Steps
    <3> QED
      BY <3>1, <3>2
  <2>4. PreviousInTree(f, r, s[i]) = IF i = 1 THEN Nil ELSE s[i - 1]
    <3>1. CASE i = 1
      BY <1>3, <1>6, <3>1
    <3>2. CASE i # 1
      <4>1. i - 1 \in 1 .. Len(s) - 1 /\ (i - 1) + 1 = i
        BY <1>5, <3>2
      <4>2. <<s[i - 1], s[(i - 1) + 1]>> \in Steps(f, r)
        BY <1>3, <4>1 DEF Chain
      <4> QED
        BY <3>2, <4>1, <4>2 DEF Steps
    <3> QED
      BY <3>1, <3>2
  <2> QED
    BY <1>4, <2>1, <2>2, <2>3, <2>4
<1>8. \A x \in Under(f, r) : \E i \in 1 .. Len(s) : x = s[i]
  BY <1>4, <1>5 DEF Occurs
<1> QED
  BY <1>2, <1>3, <1>5, <1>7, <1>8 DEF s, Lists

LEMMA StepTypes ==
  ASSUME NEW f, Tree(f), NEW r, NEW x \in Node
  PROVE  /\ NextInTree(f, r, x, TRUE) \in NodeOrNil /\ NextInTree(f, r, x, FALSE) \in NodeOrNil
         /\ PreviousInTree(f, r, x) \in NodeOrNil /\ Deepest(f, x) \in Node
<1>1. \A y \in Node : NextInTree(f, r, y, FALSE) \in NodeOrNil
  <2> DEFINE Bad == {y \in Node : NextInTree(f, r, y, FALSE) \notin NodeOrNil}
  <2> SUFFICES ASSUME Bad # {} PROVE FALSE
    OBVIOUS
  <2>1. PICK y \in Bad : f.parent[y] \notin Bad
    BY DEF Tree, NoCycle
  <2>2. f.parent[y] \in NodeOrNil
    BY DEF Tree, Doms
  <2>3. NextSibling(f, y) \in NodeOrNil
    BY SiblingIs
  <2> QED
    BY <2>1, <2>2, <2>3, NextIs DEF NodeOrNil
<1>2. \A y \in Node : Deepest(f, y) \in Node
  <2> DEFINE Bad == {y \in Node : Deepest(f, y) \notin Node}
  <2> SUFFICES ASSUME Bad # {} PROVE FALSE
    OBVIOUS
  <2>1. PICK y \in Bad : \A u \in Bad : f.parent[u] # y
    BY LeafOf, IteratorAssumption DEF Tree
  <2>2. Visible(f, y) # <<>>
    BY PreviousIs
  <2> DEFINE l == Visible(f, y)[Len(Visible(f, y))]
  <2>3. Occurs(l, Visible(f, y))
    <3>1. Visible(f, y) \in Seq(Node)
      BY VisibleIs
    <3> QED
      BY <2>2, <3>1 DEF Occurs
  <2>4. l \in Node /\ f.parent[l] = y
    BY <2>3, VisibleIs
  <2>5. Deepest(f, y) = Deepest(f, l)
    BY <2>2, PreviousIs
  <2> QED
    BY <2>1, <2>4, <2>5
<1>3. NextInTree(f, r, x, TRUE) \in NodeOrNil
  <2>1. Visible(f, x) # <<>> => Head(Visible(f, x)) \in Node
    BY VisibleIs
  <2> QED
    BY <1>1, <2>1, NextIs DEF NodeOrNil
<1>4. PreviousInTree(f, r, x) \in NodeOrNil
  <2>1. PreviousSibling(f, x) \in NodeOrNil /\ f.parent[x] \in NodeOrNil
    BY SiblingIs DEF Tree, Doms
  <2> QED
    BY <1>2, <2>1, PreviousIs DEF NodeOrNil
<1> QED
  BY <1>1, <1>2, <1>3, <1>4

-----------------------------------------------------------------------------
(* Scanning for a shown node *)

\* A walk through w that stops at the first member of S.
Scans(l, w, S, c) ==
  l \in Nat /\ \A i \in 1 .. l : c[w[i]] = IF w[i] \in S THEN w[i] ELSE c[w[i + 1]]

Stops(l, w, S, c) ==
  \/ (\A i \in 1 .. l : w[i] \notin S) /\ c[w[1]] = c[w[l + 1]]
  \/ \E i \in 1 .. l : /\ w[i] \in S /\ c[w[1]] = w[i]
                       /\ \A j \in 1 .. l : w[j] \in S => i <= j

LEMMA ScanAlong ==
  ASSUME NEW l, NEW w, NEW S, NEW c, Scans(l, w, S, c)
  PROVE  Stops(l, w, S, c)
<1> USE DEF Scans, Stops
<1> DEFINE T == {i \in Nat : (\A j \in 1 .. i : w[j] \notin S) => c[w[1]] = c[w[i + 1]]}
<1>1. \A i \in 0 .. l : i \in T
  <2>1. 0 \in T
    OBVIOUS
  <2>2. ASSUME NEW j \in 1 .. l, j - 1 \in T PROVE j \in T
    <3>1. j \in Nat /\ j - 1 \in Nat /\ (j - 1) + 1 = j /\ 1 .. j - 1 \subseteq 1 .. j /\ j \in 1 .. j
      OBVIOUS
    <3>2. (\A k \in 1 .. j - 1 : w[k] \notin S) => c[w[1]] = c[w[j]]
      BY <2>2, <3>1
    <3> QED
      BY <3>1, <3>2
  <2> HIDE DEF T
  <2> QED
    BY <2>1, <2>2, UpTo
<1>2. CASE \A i \in 1 .. l : w[i] \notin S
  <2>1. l \in T
    BY <1>1
  <2> QED
    BY <1>2, <2>1
<1>3. CASE \E i \in 1 .. l : w[i] \in S
  <2> DEFINE U == {i \in 1 .. l : w[i] \in S}
  <2>1. PICK i \in U : \A j \in U : i <= j
    <3>1. U \in SUBSET Nat /\ U # {}
      BY <1>3
    <3> HIDE DEF U
    <3> QED
      BY <3>1, LeastOf
  <2>2. i \in 1 .. l /\ w[i] \in S /\ i - 1 \in 0 .. l /\ (i - 1) + 1 = i
    BY <2>1
  <2>3. \A j \in 1 .. i - 1 : w[j] \notin S
    <3> SUFFICES ASSUME NEW j \in 1 .. i - 1, w[j] \in S PROVE FALSE
      OBVIOUS
    <3>1. j \in 1 .. l /\ ~(i <= j)
      BY <2>2
    <3> QED
      BY <2>1, <3>1
  <2>4. c[w[1]] = c[w[i]]
    <3>1. i - 1 \in T
      BY <1>1, <2>2
    <3> QED
      BY <2>2, <2>3, <3>1
  <2> QED
    BY <2>1, <2>2, <2>4
<1> QED
  BY <1>2, <1>3

\* nextNode()'s loop.
LEMMA NextScan ==
  ASSUME NEW f, Tree(f), NEW it
  PROVE  \E c : /\ c[Nil] = Nil
                /\ \A x \in Node : c[x] = IF x \in Shown THEN x
                                          ELSE c[NextInTree(f, it.root, x, TRUE)]
                /\ NextResult(f, it) =
                     c[IF ~it.forward /\ it.current # Nil THEN it.current
                       ELSE NextInTree(f, it.root, it.current, TRUE)]
<1> DEFINE Is(c) == c = [x \in NodeOrNil |->
                           IF x = Nil \/ x \in Shown THEN x
                           ELSE c[NextInTree(f, it.root, x, TRUE)]]
           scan == CHOOSE c : Is(c)
           T == {x \in NodeOrNil : x = Nil \/ x \in Shown}
           g == [x \in NodeOrNil |-> IF x = Nil THEN Nil ELSE NextInTree(f, it.root, x, TRUE)]
           e == [x \in NodeOrNil |-> x]
<1>1. g \in [NodeOrNil -> NodeOrNil]
  BY StepTypes DEF NodeOrNil
<1>2. PICK s : Follows(NodeOrNil, T, g, e, s)
  <2> HIDE DEF T, g, e
  <2> QED
    BY <1>1, Follow
<1>3. Is(s)
  <2>1. ASSUME NEW x \in NodeOrNil
        PROVE  s[x] = IF x = Nil \/ x \in Shown THEN x
                      ELSE s[NextInTree(f, it.root, x, TRUE)]
    <3>1. s[x] = IF x \in T THEN e[x] ELSE s[g[x]]
      BY <1>2 DEF Follows
    <3> QED
      BY <3>1
  <2>2. s = [x \in NodeOrNil |-> s[x]]
    BY <1>2 DEF Follows
  <2> HIDE DEF T, g, e
  <2> QED
    BY <2>1, <2>2
<1> HIDE DEF Is, T, g, e
<1>4. Is(scan)
  BY <1>3
<1>5. NextResult(f, it) = scan[IF ~it.forward /\ it.current # Nil THEN it.current
                               ELSE NextInTree(f, it.root, it.current, TRUE)]
  BY Zenon DEF NextResult, scan, Is
<1> HIDE DEF scan
<1>6. /\ scan[Nil] = Nil
      /\ \A x \in Node : scan[x] = IF x \in Shown THEN x
                                   ELSE scan[NextInTree(f, it.root, x, TRUE)]
  BY <1>4, NilAssumption DEF Is, NodeOrNil
<1> QED
  BY <1>5, <1>6

\* previousNode()'s loop.
LEMMA PreviousScan ==
  ASSUME NEW f, Tree(f), NEW it
  PROVE  \E c : /\ c[Nil] = Nil
                /\ \A x \in Node : c[x] = IF x \in Shown THEN x
                                          ELSE c[PreviousInTree(f, it.root, x)]
                /\ PreviousResult(f, it) =
                     IF it.current = Nil THEN Nil
                     ELSE c[IF it.forward THEN it.current
                            ELSE PreviousInTree(f, it.root, it.current)]
<1> DEFINE Is(c) == c = [x \in NodeOrNil |->
                           IF x = Nil \/ x \in Shown THEN x
                           ELSE c[PreviousInTree(f, it.root, x)]]
           scan == CHOOSE c : Is(c)
           T == {x \in NodeOrNil : x = Nil \/ x \in Shown}
           g == [x \in NodeOrNil |-> IF x = Nil THEN Nil ELSE PreviousInTree(f, it.root, x)]
           e == [x \in NodeOrNil |-> x]
<1>1. g \in [NodeOrNil -> NodeOrNil]
  BY StepTypes DEF NodeOrNil
<1>2. PICK s : Follows(NodeOrNil, T, g, e, s)
  <2> HIDE DEF T, g, e
  <2> QED
    BY <1>1, Follow
<1>3. Is(s)
  <2>1. ASSUME NEW x \in NodeOrNil
        PROVE  s[x] = IF x = Nil \/ x \in Shown THEN x
                      ELSE s[PreviousInTree(f, it.root, x)]
    <3>1. s[x] = IF x \in T THEN e[x] ELSE s[g[x]]
      BY <1>2 DEF Follows
    <3> QED
      BY <3>1
  <2>2. s = [x \in NodeOrNil |-> s[x]]
    BY <1>2 DEF Follows
  <2> HIDE DEF T, g, e
  <2> QED
    BY <2>1, <2>2
<1> HIDE DEF Is, T, g, e
<1>4. Is(scan)
  BY <1>3
<1>5. PreviousResult(f, it) =
        IF it.current = Nil THEN Nil
        ELSE scan[IF it.forward THEN it.current ELSE PreviousInTree(f, it.root, it.current)]
  BY Zenon DEF PreviousResult, scan, Is
<1> HIDE DEF scan
<1>6. /\ scan[Nil] = Nil
      /\ \A x \in Node : scan[x] = IF x \in Shown THEN x
                                   ELSE scan[PreviousInTree(f, it.root, x)]
  BY <1>4, NilAssumption DEF Is, NodeOrNil
<1> QED
  BY <1>5, <1>6


\* The iterator it stands somewhere in the subtree of its root.
Placed(f, it) ==
  /\ it.root \in Node /\ it.current \in NodeOrNil /\ it.forward \in BOOLEAN
  /\ it.current = Nil => it.forward
  /\ it.current # Nil => it.current \in Under(f, it.root)

\* The number of nodes behind it.
Passed(f, it) ==
  LET k == IF it.current = Nil THEN 0 ELSE IndexOf(Order(f, it.root), it.current)
  IN  IF it.forward THEN k ELSE k - 1

Stands(f, it, s, a) ==
  /\ a \in 0 .. Len(s) /\ (it.current = Nil => a = 0)
  /\ Ahead(f, it) \in Seq(Node) /\ Len(Ahead(f, it)) = Len(s) - a
  /\ \A j \in 1 .. Len(s) - a : Ahead(f, it)[j] = s[a + j]
  /\ Behind(f, it) \in Seq(Node) /\ Len(Behind(f, it)) = a
  /\ \A j \in 1 .. a : Behind(f, it)[j] = s[j]
  /\ (IF ~it.forward /\ it.current # Nil THEN it.current
      ELSE NextInTree(f, it.root, it.current, TRUE)) = IF a = Len(s) THEN Nil ELSE s[a + 1]
  /\ it.current # Nil =>
       (IF it.forward THEN it.current ELSE PreviousInTree(f, it.root, it.current)) =
          IF a = 0 THEN Nil ELSE s[a]

LEMMA PlaceIs ==
  ASSUME NEW f, Tree(f), NEW it, Placed(f, it)
  PROVE  Stands(f, it, Order(f, it.root), Passed(f, it))
<1> DEFINE r == it.root
           x == it.current
           s == Order(f, r)
           k == IF x = Nil THEN 0 ELSE IndexOf(s, x)
           a == IF it.forward THEN k ELSE k - 1
           n == Len(s)
<1>1. /\ r \in Node /\ x \in NodeOrNil /\ it.forward \in BOOLEAN /\ (x = Nil => it.forward)
      /\ x # Nil => x \in Under(f, r)
  BY DEF Placed
<1> HIDE DEF r, x
<1>12. Lists(f, r, s)
  BY <1>1, PositionIs
<1> HIDE DEF s
<1>2. /\ s \in Seq(Node) /\ n \in Nat /\ n > 0 /\ s[1] = r
      /\ \A i \in 1 .. n :
           /\ IndexOf(s, s[i]) = i
           /\ NextInTree(f, r, s[i], TRUE) = IF i = n THEN Nil ELSE s[i + 1]
           /\ PreviousInTree(f, r, s[i]) = IF i = 1 THEN Nil ELSE s[i - 1]
  BY <1>12 DEF Lists
<1>3. x # Nil => k \in 1 .. n /\ s[k] = x
  <2>1. x # Nil => \E i \in 1 .. n : x = s[i]
    BY <1>1, <1>12 DEF Lists
  <2> QED
    BY <1>2, <2>1
<1>4. NextInTree(f, r, Nil, TRUE) = r
  BY DEF NextInTree
<1>5. Passed(f, it) = a /\ Ahead(f, it) = SubSeq(s, IF it.forward THEN k + 1 ELSE k, n)
      /\ Behind(f, it) = SubSeq(s, 1, n - Len(Ahead(f, it)))
  BY DEF Passed, Ahead, Behind, r, x, s
<1> HIDE DEF k, n
<1>6. /\ a \in 0 .. n /\ (x = Nil => a = 0)
      /\ a + 1 = IF it.forward THEN k + 1 ELSE k
  <2>1. CASE x = Nil
    BY <1>1, <1>2, <2>1 DEF k
  <2>2. CASE x # Nil
    BY <1>1, <1>2, <1>3, <2>2
  <2> QED
    BY <2>1, <2>2
<1> HIDE DEF a
<1>7. Ahead(f, it) = SubSeq(s, a + 1, n)
  BY <1>5, <1>6
<1>8. /\ Ahead(f, it) \in Seq(Node) /\ Len(Ahead(f, it)) = n - a
      /\ \A j \in 1 .. n - a : Ahead(f, it)[j] = s[a + j]
  <2> DEFINE b == SubSeq(s, a + 1, n)
  <2>1. \A j \in a + 1 .. n : s[j] \in Node
    BY <1>2, <1>6 DEF n
  <2>2. /\ b \in Seq(Node) /\ Len(b) = n - a
        /\ \A j \in 1 .. n - a : b[j] = s[a + j]
    BY <1>2, <1>6, <2>1
  <2> QED
    BY <1>7, <2>2
<1>9. /\ Behind(f, it) \in Seq(Node) /\ Len(Behind(f, it)) = a
      /\ \A j \in 1 .. a : Behind(f, it)[j] = s[j]
  <2> DEFINE b == SubSeq(s, 1, a)
  <2>1. Behind(f, it) = b
    <3>1. n - (n - a) = a
      BY <1>2, <1>6
    <3> QED
      BY <1>5, <1>8, <3>1
  <2>2. \A j \in 1 .. a : s[j] \in Node
    BY <1>2, <1>6 DEF n
  <2>3. b \in Seq(Node) /\ Len(b) = a /\ \A j \in 1 .. a : b[j] = s[j]
    BY <1>2, <1>6, <2>2
  <2> QED
    BY <2>1, <2>3
<1>10. (IF ~it.forward /\ x # Nil THEN x ELSE NextInTree(f, r, x, TRUE)) =
          IF a = n THEN Nil ELSE s[a + 1]
  <2>1. CASE x = Nil
    <3>1. a = 0 /\ a # n /\ a + 1 = 1
      BY <1>2, <1>6, <2>1
    <3> QED
      BY <1>2, <1>4, <2>1, <3>1
  <2>2. CASE x # Nil /\ it.forward
    <3>1. a = k
      BY <2>2 DEF a
    <3> QED
      BY <1>2, <1>3, <2>2, <3>1
  <2>3. CASE x # Nil /\ ~it.forward
    <3>1. a + 1 = k /\ a # n
      BY <1>2, <1>3, <1>6, <2>3
    <3> QED
      BY <1>3, <2>3, <3>1
  <2> QED
    BY <1>1, <2>1, <2>2, <2>3
<1>11. x # Nil => (IF it.forward THEN x ELSE PreviousInTree(f, r, x)) =
                     IF a = 0 THEN Nil ELSE s[a]
  <2>1. CASE x # Nil /\ it.forward
    <3>1. a = k /\ a # 0
      BY <1>2, <1>3, <2>1 DEF a
    <3> QED
      BY <1>3, <2>1, <3>1
  <2>2. CASE x # Nil /\ ~it.forward
    <3>1. a = k - 1 /\ (a = 0 <=> k = 1)
      BY <1>2, <1>3, <2>2 DEF a
    <3> QED
      BY <1>2, <1>3, <2>2, <3>1
  <2> QED
    BY <1>1, <2>1, <2>2
<1> QED
  BY <1>5, <1>6, <1>8, <1>9, <1>10, <1>11 DEF r, x, s, n, Stands

\* nextNode() and previousNode() return the neighbouring shown nodes.
LEMMA ResultIs ==
  ASSUME NEW f, Tree(f), NEW it, Placed(f, it)
  PROVE  LET shown(s) == {j \in DOMAIN s : s[j] \in Shown}
             ahead == Ahead(f, it)
             behind == Behind(f, it)
         IN  /\ NextResult(f, it) =
                  IF shown(ahead) = {} THEN Nil ELSE ahead[Ext!Min(shown(ahead))]
             /\ PreviousResult(f, it) =
                  IF shown(behind) = {} THEN Nil ELSE behind[Ext!Max(shown(behind))]
<1> DEFINE shown(s) == {j \in DOMAIN s : s[j] \in Shown}
           r == it.root
           x == it.current
           s == Order(f, r)
           n == Len(s)
           a == Passed(f, it)
           ahead == Ahead(f, it)
           behind == Behind(f, it)
<1>1. r \in Node
  BY DEF Placed
<1> HIDE DEF r
<1>12. Lists(f, r, s)
  BY <1>1, PositionIs
<1>2. /\ n \in Nat
      /\ \A i \in 1 .. n :
           /\ s[i] \in Node
           /\ NextInTree(f, r, s[i], TRUE) = IF i = n THEN Nil ELSE s[i + 1]
           /\ PreviousInTree(f, r, s[i]) = IF i = 1 THEN Nil ELSE s[i - 1]
  BY <1>12 DEF Lists
<1>3. /\ a \in 0 .. n /\ (x = Nil => a = 0)
      /\ ahead \in Seq(Node) /\ Len(ahead) = n - a
      /\ \A j \in 1 .. n - a : ahead[j] = s[a + j]
      /\ behind \in Seq(Node) /\ Len(behind) = a
      /\ \A j \in 1 .. a : behind[j] = s[j]
      /\ (IF ~it.forward /\ x # Nil THEN x ELSE NextInTree(f, r, x, TRUE)) =
           IF a = n THEN Nil ELSE s[a + 1]
      /\ x # Nil => (IF it.forward THEN x ELSE PreviousInTree(f, r, x)) =
                      IF a = 0 THEN Nil ELSE s[a]
  <2>1. Stands(f, it, s, a)
    BY PlaceIs DEF r
  <2> HIDE DEF s, a
  <2> QED
    BY <2>1 DEF Stands, r
<1> HIDE DEF x, s, n, a, ahead, behind
<1>4. NextResult(f, it) = IF shown(ahead) = {} THEN Nil ELSE ahead[Ext!Min(shown(ahead))]
  <2>1. PICK c : /\ c[Nil] = Nil
                 /\ \A y \in Node : c[y] = IF y \in Shown THEN y
                                           ELSE c[NextInTree(f, r, y, TRUE)]
                 /\ NextResult(f, it) = c[IF ~it.forward /\ x # Nil THEN x
                                          ELSE NextInTree(f, r, x, TRUE)]
    BY NextScan DEF r, x
  <2> DEFINE l == n - a
             w == [i \in 1 .. l + 1 |-> IF i = l + 1 THEN Nil ELSE s[a + i]]
  <2>2. l \in Nat /\ (a = n <=> l = 0)
    BY <1>2, <1>3
  <2>3. \A i \in 1 .. l : w[i] = s[a + i] /\ a + i \in 1 .. n
    BY <1>2, <1>3
  <2>4. w[l + 1] = Nil
    BY <2>2
  <2>11. w[1] = IF a = n THEN Nil ELSE s[a + 1]
    BY <2>2
  <2>12. \A i \in 1 .. l : /\ (a + i = n <=> i = l) /\ (a + i) + 1 = a + (i + 1)
                           /\ w[i + 1] = IF i = l THEN Nil ELSE s[(a + i) + 1]
    <3> SUFFICES ASSUME NEW i \in 1 .. l
                 PROVE  /\ (a + i = n <=> i = l) /\ (a + i) + 1 = a + (i + 1)
                        /\ w[i + 1] = IF i = l THEN Nil ELSE s[(a + i) + 1]
      OBVIOUS
    <3>1. (a + i = n <=> i = l) /\ (a + i) + 1 = a + (i + 1) /\ i + 1 \in 1 .. l + 1
          /\ (i + 1 = l + 1 <=> i = l)
      BY <1>2, <1>3
    <3> QED
      BY <3>1
  <2> HIDE DEF w
  <2>5. \A i \in 1 .. l : c[w[i]] = IF w[i] \in Shown THEN w[i] ELSE c[w[i + 1]]
    <3> SUFFICES ASSUME NEW i \in 1 .. l
                 PROVE  c[w[i]] = IF w[i] \in Shown THEN w[i] ELSE c[w[i + 1]]
      OBVIOUS
    <3>1. w[i] = s[a + i] /\ a + i \in 1 .. n
      BY <2>3
    <3>2. w[i] \in Node /\ NextInTree(f, r, w[i], TRUE) = IF a + i = n THEN Nil ELSE s[(a + i) + 1]
      BY <1>2, <3>1
    <3>3. NextInTree(f, r, w[i], TRUE) = w[i + 1]
      BY <2>12, <3>2
    <3> QED
      BY <2>1, <3>2, <3>3
  <2>6. NextResult(f, it) = c[w[1]]
    <3> DEFINE z == IF ~it.forward /\ x # Nil THEN x ELSE NextInTree(f, r, x, TRUE)
    <3>1. z = w[1]
      BY <1>3, <2>11
    <3>2. NextResult(f, it) = c[z]
      BY <2>1
    <3> HIDE DEF z
    <3> QED
      BY <3>1, <3>2
  <2>7. DOMAIN ahead = 1 .. l /\ \A i \in 1 .. l : ahead[i] = w[i]
    BY <1>3, <2>3
  <2> HIDE DEF l
  <2>13. Stops(l, w, Shown, c)
    BY <2>2, <2>5, ScanAlong DEF Scans
  <2>8. CASE (\A i \in 1 .. l : w[i] \notin Shown) /\ c[w[1]] = c[w[l + 1]]
    <3>1. shown(ahead) = {}
      BY <2>7, <2>8
    <3> QED
      BY <2>1, <2>4, <2>6, <2>8, <3>1
  <2>9. CASE \E i \in 1 .. l : /\ w[i] \in Shown /\ c[w[1]] = w[i]
                               /\ \A j \in 1 .. l : w[j] \in Shown => i <= j
    <3>1. PICK i \in 1 .. l : /\ w[i] \in Shown /\ c[w[1]] = w[i]
                              /\ \A j \in 1 .. l : w[j] \in Shown => i <= j
      BY <2>9
    <3> DEFINE S == shown(ahead)
    <3>2. i \in S /\ \A j \in S : i <= j /\ j \in Int
      BY <2>2, <2>7, <3>1
    <3> HIDE DEF S
    <3>3. Ext!Min(S) = i
      <4>1. Ext!Min(S) \in S /\ \A j \in S : Ext!Min(S) <= j
        BY <3>2 DEF Ext!Min
      <4>2. Ext!Min(S) \in Int /\ i \in Int /\ Ext!Min(S) <= i /\ i <= Ext!Min(S)
        BY <3>2, <4>1
      <4> QED
        BY <4>2
    <3>4. shown(ahead) # {} /\ ahead[Ext!Min(shown(ahead))] = w[i]
      BY <2>7, <3>2, <3>3 DEF S
    <3> QED
      BY <2>6, <3>1, <3>4
  <2> QED
    BY <2>8, <2>9, <2>13 DEF Stops
<1>5. PreviousResult(f, it) = IF shown(behind) = {} THEN Nil ELSE behind[Ext!Max(shown(behind))]
  <2>1. PICK c : /\ c[Nil] = Nil
                 /\ \A y \in Node : c[y] = IF y \in Shown THEN y
                                           ELSE c[PreviousInTree(f, r, y)]
                 /\ PreviousResult(f, it) =
                      IF x = Nil THEN Nil
                      ELSE c[IF it.forward THEN x ELSE PreviousInTree(f, r, x)]
    BY PreviousScan DEF r, x
  <2> DEFINE w == [i \in 1 .. a + 1 |-> IF i = a + 1 THEN Nil ELSE s[a + 1 - i]]
  <2>2. a \in Nat
    BY <1>2, <1>3
  <2>3. \A i \in 1 .. a : w[i] = s[a + 1 - i] /\ a + 1 - i \in 1 .. a /\ a + 1 - i \in 1 .. n
    BY <1>2, <1>3
  <2>4. w[a + 1] = Nil
    BY <2>2
  <2>11. w[1] = IF a = 0 THEN Nil ELSE s[a]
    BY <2>2
  <2>12. \A i \in 1 .. a : /\ (a + 1 - i = 1 <=> i = a)
                           /\ w[i + 1] = IF i = a THEN Nil ELSE s[(a + 1 - i) - 1]
    <3> SUFFICES ASSUME NEW i \in 1 .. a
                 PROVE  /\ (a + 1 - i = 1 <=> i = a)
                        /\ w[i + 1] = IF i = a THEN Nil ELSE s[(a + 1 - i) - 1]
      OBVIOUS
    <3>1. /\ (a + 1 - i = 1 <=> i = a) /\ (a + 1 - i) - 1 = a + 1 - (i + 1)
          /\ i + 1 \in 1 .. a + 1 /\ (i + 1 = a + 1 <=> i = a)
      BY <2>2
    <3> QED
      BY <3>1
  <2> HIDE DEF w
  <2>5. \A i \in 1 .. a : c[w[i]] = IF w[i] \in Shown THEN w[i] ELSE c[w[i + 1]]
    <3> SUFFICES ASSUME NEW i \in 1 .. a
                 PROVE  c[w[i]] = IF w[i] \in Shown THEN w[i] ELSE c[w[i + 1]]
      OBVIOUS
    <3> DEFINE m == a + 1 - i
    <3>1. w[i] = s[m] /\ m \in 1 .. n
      BY <2>3
    <3>2. w[i + 1] = IF m = 1 THEN Nil ELSE s[m - 1]
      BY <2>12
    <3> HIDE DEF m
    <3>3. w[i] \in Node /\ PreviousInTree(f, r, w[i]) = w[i + 1]
      BY <1>2, <3>1, <3>2
    <3> QED
      BY <2>1, <3>3
  <2>6. PreviousResult(f, it) = c[w[1]]
    <3>1. CASE x = Nil
      BY <1>3, <2>1, <2>11, <3>1
    <3>2. CASE x # Nil
      <4> DEFINE z == IF it.forward THEN x ELSE PreviousInTree(f, r, x)
      <4>1. z = w[1]
        BY <1>3, <2>11, <3>2
      <4>2. PreviousResult(f, it) = c[z]
        BY <2>1, <3>2
      <4> HIDE DEF z
      <4> QED
        BY <4>1, <4>2
    <3> QED
      BY <3>1, <3>2
  <2>7. DOMAIN behind = 1 .. a /\ \A i \in 1 .. a : behind[a + 1 - i] = w[i]
    BY <1>3, <2>3
  <2>8. \A j \in 1 .. a : a + 1 - j \in 1 .. a /\ behind[j] = w[a + 1 - j]
    <3> SUFFICES ASSUME NEW j \in 1 .. a
                 PROVE  a + 1 - j \in 1 .. a /\ behind[j] = w[a + 1 - j]
      OBVIOUS
    <3>1. a + 1 - j \in 1 .. a /\ a + 1 - (a + 1 - j) = j
      BY <2>2
    <3>2. behind[a + 1 - (a + 1 - j)] = w[a + 1 - j]
      BY ONLY <2>7, <3>1
    <3> QED
      BY <3>1, <3>2
  <2>13. Stops(a, w, Shown, c)
    BY <2>2, <2>5, ScanAlong DEF Scans
  <2>9. CASE (\A i \in 1 .. a : w[i] \notin Shown) /\ c[w[1]] = c[w[a + 1]]
    <3>1. shown(behind) = {}
      BY <2>7, <2>8, <2>9
    <3> QED
      BY <2>1, <2>4, <2>6, <2>9, <3>1
  <2>10. CASE \E i \in 1 .. a : /\ w[i] \in Shown /\ c[w[1]] = w[i]
                                /\ \A j \in 1 .. a : w[j] \in Shown => i <= j
    <3>1. PICK i \in 1 .. a : /\ w[i] \in Shown /\ c[w[1]] = w[i]
                              /\ \A j \in 1 .. a : w[j] \in Shown => i <= j
      BY <2>10
    <3> DEFINE S == shown(behind)
               m == a + 1 - i
    <3>2. m \in 1 .. a /\ behind[m] = w[i]
      BY <2>2, <2>3, <2>7
    <3>3. m \in S
      BY <2>7, <3>1, <3>2
    <3>4. \A j \in S : j \in Int /\ m >= j
      <4> SUFFICES ASSUME NEW j \in 1 .. a, behind[j] \in Shown PROVE j \in Int /\ m >= j
        BY <2>7
      <4>1. i <= a + 1 - j
        BY <2>8, <3>1
      <4> QED
        BY <2>2, <4>1
    <3> HIDE DEF S, m
    <3>5. Ext!Max(S) = m
      <4>1. Ext!Max(S) \in S /\ \A j \in S : Ext!Max(S) >= j
        BY <3>3, <3>4 DEF Ext!Max
      <4> QED
        BY <3>3, <3>4, <4>1
    <3>6. shown(behind) # {} /\ behind[Ext!Max(shown(behind))] = w[i]
      BY <3>2, <3>3, <3>5 DEF S
    <3> QED
      BY <2>6, <3>1, <3>6
  <2> QED
    BY <2>9, <2>10, <2>13 DEF Stops
<1> QED
  BY <1>4, <1>5 DEF ahead, behind

-----------------------------------------------------------------------------
(* What an edit of the tree does to a subtree *)

\* As long as the nodes below x keep their parents they stay below x.
LEMMA UnderGrows ==
  ASSUME NEW f, Tree(f), NEW u, Tree(u), NEW x \in Node,
         \A y \in Under(f, x) : y # x => u.parent[y] = f.parent[y]
  PROVE  Under(f, x) \subseteq Under(u, x)
<1> DEFINE T == Under(u, x)
<1>1. x \in T
  BY UnderIs
<1>2. ASSUME NEW y \in Under(f, x), y # x, f.parent[y] \in T PROVE y \in T
  <2>1. y \in Node /\ u.parent[y] = f.parent[y] /\ Entered(f.parent[y])
    BY <1>2, UnderIs, UnderUp
  <2> QED
    BY <1>2, <2>1, UnderDown
<1> HIDE DEF T
<1>3. Under(f, x) \subseteq T
  BY <1>1, <1>2, UnderLeast
<1> QED
  BY <1>3 DEF T

\* n taken out of its parent: what was below x is still there or was below n.
LEMMA UnderRest ==
  ASSUME NEW f, Tree(f), NEW u, Tree(u), NEW n \in Node, u.parent = [f.parent EXCEPT ![n] = Nil],
         NEW x \in Node
  PROVE  Under(f, x) \subseteq Under(u, x) \cup Under(f, n)
<1> DEFINE T == Under(u, x) \cup Under(f, n)
<1>1. x \in T
  BY UnderIs
<1>2. ASSUME NEW y \in Under(f, x), y # x, f.parent[y] \in T PROVE y \in T
  <2>1. y \in Node /\ Entered(f.parent[y])
    BY <1>2, UnderIs, UnderUp
  <2>2. CASE y = n
    BY <2>2, UnderIs
  <2>3. CASE y # n /\ f.parent[y] \in Under(f, n)
    BY <2>1, <2>3, UnderDown
  <2>4. CASE y # n /\ f.parent[y] \in Under(u, x)
    <3>1. u.parent[y] = f.parent[y]
      BY <2>1, <2>4 DEF Tree, Doms
    <3> QED
      BY <2>1, <2>4, <3>1, UnderDown
  <2> QED
    BY <1>2, <2>2, <2>3, <2>4
<1> HIDE DEF T
<1>3. Under(f, x) \subseteq T
  BY <1>1, <1>2, UnderLeast
<1> QED
  BY <1>3 DEF T

-----------------------------------------------------------------------------
(* Where an iterator is moved to *)

\* matchNodeOrParent: what it finds out about the path from current to root.
Leads(f, it, n, up) ==
  /\ up[Nil] = FALSE
  /\ \A x \in Node : up[x] <=> x # it.root /\ (x = n \/ up[f.parent[x]])
  /\ OnPath(f, it, n) <=> up[it.current]

LEMMA OnPathIs ==
  ASSUME NEW f, Tree(f), NEW it, NEW n \in Node
  PROVE  \E up : Leads(f, it, n, up)
<1> DEFINE Is(c) == c = [x \in NodeOrNil |->
                           x # Nil /\ x # it.root /\ (x = n \/ c[f.parent[x]])]
           up == CHOOSE c : Is(c)
           T == {x \in NodeOrNil : x = Nil \/ x = it.root \/ x = n}
           g == [x \in NodeOrNil |-> IF x = Nil THEN Nil ELSE f.parent[x]]
           e == [x \in NodeOrNil |-> x # Nil /\ x # it.root /\ x = n]
<1>1. g \in [NodeOrNil -> NodeOrNil]
  BY DEF Tree, Doms, NodeOrNil
<1>2. PICK s : Follows(NodeOrNil, T, g, e, s)
  <2> HIDE DEF T, g, e
  <2> QED
    BY <1>1, Follow
<1> DEFINE b == [x \in NodeOrNil |-> s[x] = TRUE]
<1>3. Is(b)
  <2>1. ASSUME NEW x \in NodeOrNil
        PROVE  b[x] = (x # Nil /\ x # it.root /\ (x = n \/ b[f.parent[x]]))
    <3>1. s[x] = IF x \in T THEN e[x] ELSE s[g[x]]
      BY <1>2 DEF Follows
    <3>2. CASE x \in T
      BY <3>1, <3>2
    <3>3. CASE x \notin T
      <4>1. s[x] = s[f.parent[x]] /\ f.parent[x] \in NodeOrNil
        BY <3>1, <3>3 DEF Tree, Doms, NodeOrNil
      <4> QED
        BY <3>3, <4>1
    <3> QED
      BY <3>2, <3>3
  <2>2. b = [x \in NodeOrNil |-> b[x]]
    OBVIOUS
  <2> HIDE DEF b, T, g, e
  <2> QED
    BY <2>1, <2>2
<1> HIDE DEF Is, T, g, e, b
<1>4. Is(up)
  BY <1>3
<1>5. OnPath(f, it, n) = up[it.current]
  BY Zenon DEF OnPath, up, Is
<1> HIDE DEF up
<1>6. /\ up[Nil] = FALSE
      /\ \A x \in Node : up[x] <=> x # it.root /\ (x = n \/ up[f.parent[x]])
  BY <1>4, NilAssumption DEF Is, NodeOrNil
<1> QED
  BY <1>5, <1>6 DEF Leads

LEMMA OnPathMeans ==
  ASSUME NEW f, Tree(f), NEW it, Placed(f, it), NEW n \in Node
  PROVE  /\ OnPath(f, it, n) => /\ n \in Under(f, it.root) /\ n # it.root
                                /\ it.current \in Under(f, n)
         /\ \A u : /\ Tree(u) /\ u.parent = [f.parent EXCEPT ![n] = Nil]
                   /\ ~OnPath(f, it, n) /\ it.current # Nil
                   => it.current \in Under(u, it.root)
<1> DEFINE r == it.root
<1>6. PICK up : Leads(f, it, n, up)
  BY OnPathIs
<1>1. /\ up[Nil] = FALSE
      /\ \A x \in Node : up[x] <=> x # r /\ (x = n \/ up[f.parent[x]])
      /\ OnPath(f, it, n) <=> up[it.current]
  BY <1>6 DEF Leads
<1>2. r \in Node /\ (it.current # Nil => it.current \in Under(f, r))
  BY DEF Placed
<1> HIDE DEF r
<1>3. \A x \in Under(f, r) : up[x] => n \in Under(f, r) /\ n # r /\ x \in Under(f, n)
  <2> DEFINE T == {x \in Node : up[x] => n \in Under(f, r) /\ n # r /\ x \in Under(f, n)}
  <2>1. r \in T
    BY <1>1, <1>2
  <2>2. ASSUME NEW y \in Under(f, r), y # r, f.parent[y] \in T PROVE y \in T
    <3>1. y \in Node /\ Entered(f.parent[y]) /\ n \in Under(f, n)
      BY <1>2, <2>2, UnderIs, UnderUp
    <3>2. CASE y = n
      BY <2>2, <3>1, <3>2
    <3>3. CASE y # n
      <4>1. up[y] => up[f.parent[y]]
        BY <1>1, <3>1, <3>3
      <4>2. up[y] => n \in Under(f, r) /\ n # r /\ f.parent[y] \in Under(f, n)
        BY <2>2, <4>1
      <4>3. f.parent[y] \in Under(f, n) => y \in Under(f, n)
        BY <3>1, UnderDown
      <4> QED
        BY <3>1, <4>2, <4>3
    <3> QED
      BY <3>2, <3>3
  <2> HIDE DEF T
  <2>3. Under(f, r) \subseteq T
    BY <1>2, <2>1, <2>2, UnderLeast
  <2> QED
    BY <2>3 DEF T
<1>4. ASSUME NEW u, Tree(u), u.parent = [f.parent EXCEPT ![n] = Nil]
      PROVE  \A x \in Under(f, r) : ~up[x] => x \in Under(u, r)
  <2> DEFINE T == {x \in Node : ~up[x] => x \in Under(u, r)}
  <2>1. r \in T
    BY <1>2, <1>4, UnderIs
  <2>2. ASSUME NEW y \in Under(f, r), y # r, f.parent[y] \in T PROVE y \in T
    <3>1. y \in Node /\ Entered(f.parent[y])
      BY <1>2, <2>2, UnderIs, UnderUp
    <3> SUFFICES ASSUME ~up[y] PROVE y \in Under(u, r)
      BY <3>1
    <3>2. y # n /\ ~up[f.parent[y]]
      BY <1>1, <2>2, <3>1
    <3>3. u.parent[y] = f.parent[y]
      BY <1>4, <3>1, <3>2 DEF Tree, Doms
    <3> QED
      BY <1>2, <1>4, <2>2, <3>1, <3>2, <3>3, UnderDown
  <2> HIDE DEF T
  <2>3. Under(f, r) \subseteq T
    BY <1>2, <2>1, <2>2, UnderLeast
  <2> QED
    BY <2>3 DEF T
<1>5. OnPath(f, it, n) => it.current # Nil
  BY <1>1
<1> QED
  BY <1>1, <1>2, <1>3, <1>4, <1>5 DEF r

\* The siblings next to n have n's parent and are not n.
LEMMA SiblingOther ==
  ASSUME NEW f, Tree(f), NEW n \in Node
  PROVE  /\ NextSibling(f, n) # Nil => /\ NextSibling(f, n) \in Node /\ NextSibling(f, n) # n
                                       /\ f.parent[NextSibling(f, n)] = f.parent[n]
         /\ PreviousSibling(f, n) # Nil => /\ PreviousSibling(f, n) \in Node
                                           /\ PreviousSibling(f, n) # n
                                           /\ f.parent[PreviousSibling(f, n)] = f.parent[n]
<1>1. CASE f.parent[n] = Nil
  BY <1>1, SiblingIs
<1>2. CASE f.parent[n] # Nil
  <2> DEFINE p == f.parent[n]
             s == f.kids[p]
  <2>1. p \in Node /\ s \in Seq(Node) /\ Distinct(s)
    BY <1>2, LinkedIs DEF Tree, Doms, NodeOrNil
  <2>2. \A i \in DOMAIN s : f.parent[s[i]] = p
    BY <2>1, LinkedIs DEF Tree, Occurs
  <2>3. PICK i \in DOMAIN s : s[i] = n
    BY <2>1, LinkedIs DEF Tree, Occurs
  <2>4. /\ NextSibling(f, n) = IF i = Len(s) THEN Nil ELSE s[i + 1]
        /\ PreviousSibling(f, n) = IF i = 1 THEN Nil ELSE s[i - 1]
    BY <2>1, <2>3, SiblingIs
  <2> HIDE DEF p, s
  <2>5. i # Len(s) => i + 1 \in DOMAIN s /\ s[i + 1] \in Node /\ s[i + 1] # n
    BY <2>1, <2>3 DEF Distinct
  <2>6. i # 1 => i - 1 \in DOMAIN s /\ s[i - 1] \in Node /\ s[i - 1] # n
    BY <2>1, <2>3 DEF Distinct
  <2> QED
    BY <2>2, <2>4, <2>5, <2>6 DEF p
<1> QED
  BY <1>1, <1>2

\* The node before n is not below n, nor is the node after n's subtree.
LEMMA PreviousOutside ==
  ASSUME NEW f, Tree(f), NEW r \in Node, NEW n \in Under(f, r), n # r
  PROVE  PreviousInTree(f, r, n) \in Under(f, r) \ Under(f, n)
<1>1. n \in Node
  BY UnderIs
<1>2. PreviousInTree(f, r, n) \in Under(f, r)
  <2> DEFINE s == Order(f, r)
  <2>1. Lists(f, r, s)
    BY PositionIs
  <2> HIDE DEF s
  <2>2. PICK i \in 1 .. Len(s) : n = s[i]
    BY <2>1 DEF Lists
  <2>3. i # 1 /\ i - 1 \in 1 .. Len(s)
    BY <2>1, <2>2 DEF Lists
  <2>4. PreviousInTree(f, r, n) = s[i - 1]
    BY <2>1, <2>2, <2>3 DEF Lists
  <2> QED
    BY <2>1, <2>3, <2>4 DEF Lists
<1>3. CASE PreviousSibling(f, n) = Nil
  BY <1>1, <1>2, <1>3, PreviousIs, NotUnderItself
<1>4. CASE PreviousSibling(f, n) # Nil
  <2> DEFINE v == PreviousSibling(f, n)
  <2>1. v \in Node /\ v # n /\ f.parent[v] = f.parent[n]
    BY <1>1, <1>4, SiblingOther
  <2>2. PreviousInTree(f, r, n) = Deepest(f, v)
    BY <1>1, <1>4, PreviousIs
  <2> HIDE DEF v
  <2>3. Walked(f, v, v)
    BY <2>1, OrderSteps
  <2>4. Deepest(f, v) \in Under(f, v)
    <3>1. /\ Order(f, v)[Len(Order(f, v))] = Deepest(f, v) /\ Order(f, v) # <<>>
          /\ Order(f, v) \in Seq(Node)
      BY <2>1, <2>3, OrderIs DEF Walked, Chain
    <3>2. Occurs(Deepest(f, v), Order(f, v))
      BY <3>1 DEF Occurs
    <3> QED
      BY <2>1, <3>2, UnderIs
  <2>5. Under(f, v) \cap Under(f, n) = {}
    BY <1>1, <2>1, SiblingsApart
  <2> QED
    BY <1>2, <2>2, <2>4, <2>5
<1> QED
  BY <1>3, <1>4

LEMMA NextOutside ==
  ASSUME NEW f, Tree(f), NEW r \in Node, NEW n \in Under(f, r), NextInTree(f, r, n, FALSE) # Nil
  PROVE  NextInTree(f, r, n, FALSE) \in Under(f, r) \ Under(f, n)
<1> DEFINE next(y) == NextInTree(f, r, y, FALSE)
           T == {y \in Node : next(y) # Nil => next(y) \in Under(f, r) \ Under(f, y)}
<1>1. r \in T
  BY NextIs
<1>2. ASSUME NEW y \in Under(f, r), y # r, f.parent[y] \in T PROVE y \in T
  <2>1. /\ y \in Node /\ f.parent[y] \in Under(f, r) /\ Entered(f.parent[y])
        /\ f.parent[y] \in Node /\ f.parent[y] # Nil
    BY <1>2, UnderIs, UnderUp, NilAssumption
  <2>2. CASE NextSibling(f, y) # Nil
    <3> DEFINE v == NextSibling(f, y)
    <3>1. v \in Node /\ v # y /\ f.parent[v] = f.parent[y]
      BY <2>1, <2>2, SiblingOther
    <3>2. next(y) = v
      BY <1>2, <2>1, <2>2, NextIs
    <3> HIDE DEF v, next
    <3>3. v \in Under(f, r)
      BY <2>1, <3>1, UnderDown
    <3>4. v \in Under(f, v) /\ Under(f, v) \cap Under(f, y) = {}
      BY <2>1, <3>1, UnderIs, SiblingsApart
    <3> QED
      BY <2>1, <3>2, <3>3, <3>4
  <2>3. CASE NextSibling(f, y) = Nil
    <3>1. next(y) = next(f.parent[y])
      BY <1>2, <2>1, <2>3, NextIs
    <3>2. Under(f, y) \subseteq Under(f, f.parent[y])
      <4>1. \A z \in Under(f, y) : z \in Under(f, f.parent[y])
        BY <2>1, UnderIs
      <4> QED
        BY <4>1
    <3> HIDE DEF next
    <3> QED
      BY <1>2, <2>1, <3>1, <3>2
  <2> QED
    BY <2>2, <2>3
<1> HIDE DEF T
<1>3. Under(f, r) \subseteq T
  BY <1>1, <1>2, UnderLeast
<1> QED
  BY <1>3 DEF T

\* removeNode(n) leaves the iterator in the subtree as it is without n.
LEMMA FixedUpPlaced ==
  ASSUME NEW f, Tree(f), NEW u, Tree(u), NEW n \in Node, u.parent = [f.parent EXCEPT ![n] = Nil],
         NEW it, it \in [root : Node, current : NodeOrNil, forward : BOOLEAN], Placed(f, it)
  PROVE  /\ FixedUp(f, it, n) \in [root : Node, current : NodeOrNil, forward : BOOLEAN]
         /\ Placed(u, FixedUp(f, it, n))
<1> DEFINE r == it.root
           its == [root : Node, current : NodeOrNil, forward : BOOLEAN]
           prev == PreviousInTree(f, r, n)
           next == NextInTree(f, r, n, FALSE)
<1>1. CASE ~OnPath(f, it, n)
  <2>1. FixedUp(f, it, n) = it
    BY <1>1 DEF FixedUp
  <2>2. it.current # Nil => it.current \in Under(u, r)
    BY <1>1, OnPathMeans
  <2> QED
    BY <2>1, <2>2 DEF Placed
<1>2. CASE OnPath(f, it, n)
  <2>1. r \in Node /\ n \in Under(f, r) /\ n # r
    BY <1>2, OnPathMeans DEF Placed
  <2>2. \A x \in Under(f, r) \ Under(f, n) : x \in Under(u, r) /\ x \in Node /\ x # Nil
    <3>1. Under(f, r) \subseteq Under(u, r) \cup Under(f, n)
      BY <2>1, UnderRest
    <3>2. Under(f, r) \subseteq Node
      BY <2>1, UnderIs
    <3> QED
      BY <3>1, <3>2, NilAssumption
  <2>3. prev \in Under(u, r) /\ prev \in Node /\ prev # Nil
    BY <2>1, <2>2, PreviousOutside
  <2>4. next # Nil => next \in Under(u, r) /\ next \in Node
    BY <2>1, <2>2, NextOutside
  <2>5. FixedUp(f, it, n) =
          IF it.forward THEN [it EXCEPT !.current = prev]
          ELSE IF next # Nil THEN [it EXCEPT !.current = next]
          ELSE [it EXCEPT !.current = prev, !.forward = TRUE]
    BY <1>2 DEF FixedUp
  <2> HIDE DEF prev, next
  <2>6. ASSUME NEW x \in Under(u, r), x \in Node, x # Nil, NEW j,
               \/ j = [it EXCEPT !.current = x]
               \/ j = [it EXCEPT !.current = x, !.forward = TRUE]
        PROVE  j \in its /\ Placed(u, j)
    <3>1. j \in its /\ j.root = r /\ j.current = x
      BY <2>6 DEF NodeOrNil
    <3> QED
      BY <2>6, <3>1 DEF Placed
  <2>7. FixedUp(f, it, n) \in its /\ Placed(u, FixedUp(f, it, n))
    <3> DEFINE j == FixedUp(f, it, n)
    <3>1. CASE it.forward \/ next = Nil
      <4>1. j = [it EXCEPT !.current = prev] \/ j = [it EXCEPT !.current = prev, !.forward = TRUE]
        BY <2>5, <3>1
      <4> HIDE DEF j
      <4>2. j \in its /\ Placed(u, j)
        BY <2>3, <2>6, <4>1
      <4> QED
        BY <4>2 DEF j
    <3>2. CASE ~it.forward /\ next # Nil
      <4>1. j = [it EXCEPT !.current = next]
        BY <2>5, <3>2
      <4> HIDE DEF j
      <4>2. j \in its /\ Placed(u, j)
        BY <2>4, <2>6, <3>2, <4>1
      <4> QED
        BY <4>2 DEF j
    <3> QED
      BY <3>1, <3>2
  <2> QED
    BY <2>7
<1> QED
  BY <1>1, <1>2

-----------------------------------------------------------------------------
(* The inductive invariant *)

Iterators == [root : Node, current : NodeOrNil, forward : BOOLEAN]

EachPlaced(f, its) ==
  /\ its \in [Iterator -> Iterators \cup {NotRegistered}]
  /\ \A i \in Live(its) : Placed(f, its[i])

IterInv == TreeInv /\ ~crashed /\ EachPlaced(dom, iter)

LEMMA LiveIs ==
  ASSUME NEW its \in [Iterator -> Iterators \cup {NotRegistered}], NEW i \in Iterator
  PROVE  i \in Live(its) <=> its[i] \in Iterators
<1>1. NotRegistered \notin Iterators
  BY NilAssumption DEF NotRegistered, Iterators
<1> QED
  BY <1>1 DEF Live

\* A child that keeps its parent stays where it is.
LEMMA EachStays ==
  ASSUME NEW f, Tree(f), NEW u, Tree(u), NEW its, EachPlaced(f, its),
         \A y \in Node : f.parent[y] # Nil => u.parent[y] = f.parent[y]
  PROVE  EachPlaced(u, its)
<1> SUFFICES ASSUME NEW i \in Live(its), its[i].current # Nil
             PROVE  its[i].current \in Under(u, its[i].root)
  BY DEF EachPlaced, Placed
<1> DEFINE r == its[i].root
<1>1. r \in Node /\ its[i].current \in Under(f, r)
  BY DEF EachPlaced, Placed
<1> HIDE DEF r
<1>2. \A y \in Under(f, r) : y # r => u.parent[y] = f.parent[y]
  <2> SUFFICES ASSUME NEW y \in Under(f, r), y # r PROVE u.parent[y] = f.parent[y]
    OBVIOUS
  <2>1. y \in Node /\ f.parent[y] \in Under(f, r)
    BY <1>1, UnderIs, UnderUp
  <2>2. f.parent[y] \in Node
    BY <1>1, <2>1, UnderIs
  <2> QED
    BY <2>1, <2>2, NilAssumption
<1>3. Under(f, r) \subseteq Under(u, r)
  BY <1>1, <1>2, UnderGrows
<1> QED
  BY <1>1, <1>3 DEF r

LEMMA AllFixedUpPlaced ==
  ASSUME NEW f, Tree(f), NEW u, Tree(u), NEW n \in Node, u.parent = [f.parent EXCEPT ![n] = Nil],
         NEW its, EachPlaced(f, its)
  PROVE  EachPlaced(u, AllFixedUp(f, its, n))
<1> DEFINE new == AllFixedUp(f, its, n)
<1>1. its \in [Iterator -> Iterators \cup {NotRegistered}]
  BY DEF EachPlaced
<1>2. \A i \in Iterator : /\ i \in Live(its) => new[i] = FixedUp(f, its[i], n)
                          /\ i \notin Live(its) => new[i] = NotRegistered
  BY DEF AllFixedUp, Live
<1>3. ASSUME NEW i \in Live(its) PROVE new[i] \in Iterators /\ Placed(u, new[i])
  <2>1. i \in Iterator /\ its[i] \in Iterators /\ Placed(f, its[i])
    BY <1>1, LiveIs DEF EachPlaced, Live
  <2>2. FixedUp(f, its[i], n) \in Iterators /\ Placed(u, FixedUp(f, its[i], n))
    BY <2>1, FixedUpPlaced DEF Iterators
  <2> QED
    BY <1>2, <2>1, <2>2
<1>4. new \in [Iterator -> Iterators \cup {NotRegistered}]
  <2>1. new = [i \in Iterator |-> new[i]]
    BY DEF AllFixedUp
  <2> HIDE DEF new
  <2> QED
    BY <1>2, <1>3, <2>1
<1>5. Live(new) \subseteq Live(its)
  BY <1>2 DEF Live
<1> HIDE DEF new
<1>6. EachPlaced(u, new)
  BY <1>3, <1>4, <1>5 DEF EachPlaced
<1> QED
  BY <1>6 DEF new

\* An insertion, which first takes the node out of its old parent.
LEMMA InsertedPlaced ==
  ASSUME NEW f, Tree(f), NEW d, Tree(d), d.parent = f.parent,
         NEW p \in Node, NEW n \in Node, NEW r \in NodeOrNil, InsertAllowed(d, p, n, r), n # p,
         NEW its, EachPlaced(f, its)
  PROVE  EachPlaced(Inserted(d, p, n, r), MovedFrom(f, its, n, r))
<1> DEFINE u == Inserted(d, p, n, r)
<1>1. Tree(u) /\ u.parent = IF n = r THEN d.parent ELSE [d.parent EXCEPT ![n] = p]
  BY InsertedIs DEF Tree
<1> HIDE DEF u
<1>2. CASE n = r \/ f.parent[n] = Nil
  <2>1. \A y \in Node : f.parent[y] # Nil => u.parent[y] = f.parent[y]
    BY <1>1, <1>2 DEF Tree, Doms
  <2>2. MovedFrom(f, its, n, r) = its
    BY <1>2 DEF MovedFrom
  <2> QED
    BY <1>1, <2>1, <2>2, EachStays DEF u
<1>3. CASE ~(n = r \/ f.parent[n] = Nil)
  <2> DEFINE e == Lifted(f, n)
             new == AllFixedUp(f, its, n)
  <2>1. Tree(e) /\ e.parent = [f.parent EXCEPT ![n] = Nil]
    BY LiftedIs DEF Tree
  <2> HIDE DEF e
  <2>2. EachPlaced(e, new)
    BY <2>1, AllFixedUpPlaced
  <2>3. \A y \in Node : e.parent[y] # Nil => u.parent[y] = e.parent[y]
    BY <1>1, <1>3, <2>1 DEF Tree, Doms
  <2>4. MovedFrom(f, its, n, r) = new
    BY <1>3 DEF MovedFrom
  <2> HIDE DEF new
  <2> QED
    BY <1>1, <2>1, <2>2, <2>3, <2>4, EachStays, ZenonT(60) DEF u
<1> QED
  BY <1>2, <1>3

\* The rest of replaceChild.
LEMMA OldRemovedPlaced ==
  ASSUME NEW f, Tree(f), NEW p \in Node, NEW o \in Node, f.parent[o] # Nil,
         NEW its, EachPlaced(f, its)
  PROVE  EachPlaced(OldRemoved(f, p, o), AllFixedUp(f, its, o))
<1> DEFINE u == OldRemoved(f, p, o)
<1>1. Tree(u)
  BY OldRemovedIs DEF Tree
<1>2. u.parent = [f.parent EXCEPT ![o] = Nil]
  BY UnlinkIs, RemovedIs DEF OldRemoved, Tree
<1> HIDE DEF u
<1>3. EachPlaced(u, AllFixedUp(f, its, o))
  BY <1>1, <1>2, AllFixedUpPlaced
<1> QED
  BY <1>3 DEF u

LEMMA RemovingIs ==
  ASSUME ~RemoveUnstarted
  PROVE  /\ \A its : Removing(its) => iter' = its /\ ~crashed'
         /\ \A n, r : ~crashed /\ WithRemoval(n, r)
                         => iter' = MovedFrom(dom, iter, n, r) /\ ~crashed'
<1>1. ASSUME NEW its, Removing(its) PROVE iter' = its /\ ~crashed'
  <2>1. ~Unstarted
    BY <1>1 DEF Removing, MayRemove
  <2> QED
    BY <1>1, <2>1 DEF Removing
<1>2. ASSUME NEW n, NEW r, ~crashed, WithRemoval(n, r)
      PROVE  iter' = MovedFrom(dom, iter, n, r) /\ ~crashed'
  <2>1. CASE n = r \/ dom.parent[n] = Nil
    BY <1>2, <2>1 DEF WithRemoval, KeepIterators, MovedFrom
  <2>2. CASE ~(n = r \/ dom.parent[n] = Nil)
    BY <1>1, <1>2, <2>2 DEF WithRemoval, MovedFrom
  <2> QED
    BY <2>1, <2>2
<1> QED
  BY <1>1, <1>2

LEMMA IterInvInit == IterInit => IterInv
<1> SUFFICES ASSUME IterInit PROVE IterInv
  OBVIOUS
<1>1. TreeInv /\ ~crashed
  BY TreeInvInit DEF IterInit
<1>2. iter \in [Iterator -> Iterators \cup {NotRegistered}] /\ Live(iter) = {}
  BY DEF IterInit, Live
<1> QED
  BY <1>1, <1>2 DEF IterInv, EachPlaced

\* The tree's steps.
LEMMA TreeStepPlaces ==
  ASSUME "selfInsert" \notin Unguarded, ~RemoveUnstarted, IterInv, TreeInv', TreeStep
  PROVE  EachPlaced(dom', iter') /\ ~crashed'
<1>1. Tree(dom) /\ Tree(dom') /\ dom \in Doms /\ ~crashed /\ EachPlaced(dom, iter) /\ TreeInv
  BY DEF IterInv, TreeInv, TypeOK, ParentChildAgree, Acyclic, Tree
<1>2. ASSUME KeepIterators, dom'.parent = dom.parent PROVE EachPlaced(dom', iter') /\ ~crashed'
  BY <1>1, <1>2, EachStays DEF KeepIterators
<1>3. ASSUME NEW p \in Node, NEW n \in Node, NEW r \in NodeOrNil,
             InsertNode(p, n, r), WithRemoval(n, r)
      PROVE  EachPlaced(dom', iter') /\ ~crashed'
  <2>1. n # p /\ InsertAllowed(dom, p, n, r) /\ dom' = Inserted(dom, p, n, r)
    BY <1>3 DEF InsertNode, CallExpected
  <2>2. iter' = MovedFrom(dom, iter, n, r) /\ ~crashed'
    BY <1>1, <1>3, RemovingIs
  <2> QED
    BY <1>1, <2>1, <2>2, InsertedPlaced
<1>4. ASSUME NEW p \in Node, NEW n \in Node, NEW r \in NodeOrNil,
             InsertFragment(p, n, r), KeepIterators
      PROVE  EachPlaced(dom', iter') /\ ~crashed'
  BY <1>2, <1>4 DEF InsertFragment, StartFragment
<1>5. CASE MoveKid /\ WithRemoval(Head(dom.kids[call.frag]), Nil)
  <2> DEFINE n == Head(dom.kids[call.frag])
  <2>1. call \in Calls /\ call.parent \in Node /\ call.frag \in Node /\ call.ref \in NodeOrNil
    BY <1>1, <1>5 DEF MoveKid, Calls, TreeInv, TypeOK
  <2>2. n \in Node /\ dom.parent[n] = call.frag
    <3>1. dom.kids[call.frag] \in Seq(Node) /\ dom.kids[call.frag] # <<>>
      BY <1>1, <1>5, <2>1 DEF MoveKid, HasKids, Doms
    <3>2. n \in Node /\ Occurs(n, dom.kids[call.frag])
      BY <3>1 DEF Occurs
    <3> QED
      BY <1>1, <2>1, <3>2, LinkedIs DEF Tree
  <2>3. n # call.parent /\ n # call.ref /\ n # Nil /\ dom.parent[n] # Nil
    BY <1>1, <1>5, <2>1, <2>2, NilAssumption DEF TreeInv, CallSound, MoveKid
  <2>4. InsertAllowed(dom, call.parent, n, call.ref)
        /\ dom' = Inserted(dom, call.parent, n, call.ref)
    BY <1>5 DEF MoveKid
  <2> HIDE DEF n
  <2>5. WithRemoval(n, Nil)
    BY <1>5 DEF n
  <2>6. iter' = MovedFrom(dom, iter, n, Nil) /\ ~crashed'
    BY <1>1, <2>5, RemovingIs
  <2>7. MovedFrom(dom, iter, n, Nil) = MovedFrom(dom, iter, n, call.ref)
    BY <2>3 DEF MovedFrom
  <2> QED
    BY <1>1, <2>1, <2>2, <2>3, <2>4, <2>6, <2>7, InsertedPlaced
<1>6. CASE KidRefused /\ KeepIterators
  <2>1. call \in Calls
    BY <1>1, <1>6 DEF KidRefused, TreeInv, TypeOK
  <2>2. dom'.parent = dom.parent
    BY <1>1, <1>6, <2>1 DEF KidRefused, Doms, Calls
  <2> QED
    BY <1>2, <1>6, <2>2
<1>7. CASE /\ FragmentDone
           /\ IF call.old = Nil THEN KeepIterators
              ELSE Removing(AllFixedUp(dom, iter, call.old))
  <2>1. call \in Calls /\ call.parent \in Node
    BY <1>1, <1>7 DEF FragmentDone, TreeInv, TypeOK, Calls
  <2>2. CASE call.old = Nil
    BY <1>2, <1>7, <2>2 DEF FragmentDone
  <2>3. CASE call.old # Nil
    <3>1. call.old \in Node /\ dom.parent[call.old] # Nil
      BY <1>1, <1>7, <2>1, <2>3, NilAssumption
      DEF FragmentDone, TreeInv, CallSound, Calls, NodeOrNil
    <3>2. dom' = OldRemoved(dom, call.parent, call.old)
      BY <1>7, <2>3 DEF FragmentDone
    <3>3. iter' = AllFixedUp(dom, iter, call.old) /\ ~crashed'
      BY <1>7, <2>3, RemovingIs
    <3> QED
      BY <1>1, <2>1, <3>1, <3>2, <3>3, OldRemovedPlaced
  <2> QED
    BY <2>2, <2>3
<1>8. ASSUME NEW n \in Node, RemoveChild(n), Removing(AllFixedUp(dom, iter, n))
      PROVE  EachPlaced(dom', iter') /\ ~crashed'
  <2>1. dom.parent[n] # Nil /\ dom' = Removed(dom, n)
    BY <1>8 DEF RemoveChild
  <2>2. dom'.parent = [dom.parent EXCEPT ![n] = Nil]
    BY <1>1, <2>1, RemovedIs DEF Tree
  <2>3. iter' = AllFixedUp(dom, iter, n) /\ ~crashed'
    BY <1>8, RemovingIs
  <2> QED
    BY <1>1, <2>2, <2>3, AllFixedUpPlaced
<1>9. ASSUME NEW p \in Node, NEW n \in Node, NEW o \in Node, ReplaceByNode(p, n, o),
             Removing(AllFixedUp(Inserted(ForReplace(dom, p, o), p, n, o),
                                 MovedFrom(dom, iter, n, o), o))
      PROVE  EachPlaced(dom', iter') /\ ~crashed'
  <2> DEFINE d == ForReplace(dom, p, o)
             i == Inserted(d, p, n, o)
             its == MovedFrom(dom, iter, n, o)
  <2>1. Tree(d) /\ d.parent = dom.parent
    BY <1>1, CachesIs, SameShape DEF ForReplace, Tree
  <2>2. n # p /\ InsertAllowed(d, p, n, o) /\ dom' = OldRemoved(i, p, o)
    BY <1>9 DEF ReplaceByNode, CallExpected
  <2>3. iter' = AllFixedUp(i, its, o) /\ ~crashed'
    BY <1>9, RemovingIs
  <2> HIDE DEF d, its
  <2>4. d.parent[o] = p
    BY <2>2, NilAssumption DEF InsertAllowed
  <2>5. /\ Tree(i)
        /\ i.parent = IF n = o THEN d.parent ELSE [d.parent EXCEPT ![n] = p]
    BY <2>1, <2>2, InsertedIs DEF NodeOrNil, Tree
  <2>6. i.parent[o] # Nil
    BY <2>1, <2>4, <2>5, NilAssumption DEF Doms, Tree
  <2>7. EachPlaced(i, its)
    BY <1>1, <2>1, <2>2, InsertedPlaced DEF NodeOrNil, its
  <2> HIDE DEF i
  <2> QED
    BY <2>2, <2>3, <2>5, <2>6, <2>7, OldRemovedPlaced
<1>10. ASSUME NEW p \in Node, NEW n \in Node, NEW o \in Node,
              ReplaceByFragment(p, n, o), KeepIterators
       PROVE  EachPlaced(dom', iter') /\ ~crashed'
  <2>1. dom' = ForReplace(dom, p, o)
    BY <1>10 DEF ReplaceByFragment, StartFragment
  <2>2. dom'.parent = dom.parent
    BY <1>1, <2>1, CachesIs DEF ForReplace
  <2> QED
    BY <1>2, <1>10, <2>2
<1> QED
  BY <1>3, <1>4, <1>5, <1>6, <1>7, <1>8, <1>9, <1>10 DEF TreeStep

\* The iterators' own steps.
LEMMA OwnStepPlaces ==
  ASSUME IterInv, UNCHANGED <<dom, call, crashed>>, NEW i \in Iterator, NEW it,
         iter' = [iter EXCEPT ![i] = it],
         it # NotRegistered => it \in Iterators /\ Placed(dom, it)
  PROVE  EachPlaced(dom', iter') /\ ~crashed'
<1>1. iter \in [Iterator -> Iterators \cup {NotRegistered}] /\ ~crashed /\ EachPlaced(dom, iter)
  BY DEF IterInv, EachPlaced
<1>2. iter' \in [Iterator -> Iterators \cup {NotRegistered}]
  BY <1>1
<1>3. ASSUME NEW j \in Live(iter') PROVE Placed(dom, iter'[j])
  <2>1. CASE j = i
    BY <1>1, <1>3, <2>1 DEF Live
  <2>2. CASE j # i
    BY <1>1, <1>3, <2>2 DEF Live, EachPlaced
  <2> QED
    BY <2>1, <2>2
<1> QED
  BY <1>1, <1>2, <1>3 DEF EachPlaced

LEMMA ResultPlaced ==
  ASSUME NEW f, Tree(f), NEW it, Placed(f, it)
  PROVE  /\ NextResult(f, it) # Nil => NextResult(f, it) \in Under(f, it.root)
         /\ PreviousResult(f, it) # Nil => PreviousResult(f, it) \in Under(f, it.root)
<1> DEFINE s == Order(f, it.root)
           a == Passed(f, it)
           ahead == Ahead(f, it)
           behind == Behind(f, it)
           shown(t) == {j \in DOMAIN t : t[j] \in Shown}
<1>1. it.root \in Node
  BY DEF Placed
<1>2. Lists(f, it.root, s)
  BY <1>1, PositionIs
<1>3. /\ a \in 0 .. Len(s)
      /\ ahead \in Seq(Node) /\ Len(ahead) = Len(s) - a
      /\ \A j \in 1 .. Len(s) - a : ahead[j] = s[a + j]
      /\ behind \in Seq(Node) /\ Len(behind) = a
      /\ \A j \in 1 .. a : behind[j] = s[j]
  <2>1. Stands(f, it, s, a)
    BY PlaceIs
  <2> HIDE DEF s, a
  <2> QED
    BY <2>1 DEF Stands
<1>4. /\ NextResult(f, it) = IF shown(ahead) = {} THEN Nil ELSE ahead[Ext!Min(shown(ahead))]
      /\ PreviousResult(f, it) =
           IF shown(behind) = {} THEN Nil ELSE behind[Ext!Max(shown(behind))]
  BY ResultIs
<1> HIDE DEF s, a, ahead, behind
<1>5. \A j \in DOMAIN ahead : ahead[j] \in Under(f, it.root)
  <2> SUFFICES ASSUME NEW j \in DOMAIN ahead PROVE ahead[j] \in Under(f, it.root)
    OBVIOUS
  <2>1. j \in 1 .. Len(s) - a /\ a + j \in 1 .. Len(s)
    BY <1>2, <1>3 DEF Lists
  <2> QED
    BY <1>2, <1>3, <2>1 DEF Lists
<1>6. \A j \in DOMAIN behind : behind[j] \in Under(f, it.root)
  <2> SUFFICES ASSUME NEW j \in DOMAIN behind PROVE behind[j] \in Under(f, it.root)
    OBVIOUS
  <2>1. j \in 1 .. a /\ j \in 1 .. Len(s)
    BY <1>2, <1>3 DEF Lists
  <2> QED
    BY <1>2, <1>3, <2>1 DEF Lists
<1>7. ASSUME NEW S \in SUBSET Nat, S # {}
      PROVE  Ext!Min(S) \in S
  <2>1. \E k \in S : \A j \in S : k <= j
    BY <1>7, LeastOf
  <2> QED
    BY <2>1 DEF Ext!Min
<1>8. shown(ahead) # {} => Ext!Min(shown(ahead)) \in DOMAIN ahead
  <2>1. shown(ahead) \in SUBSET Nat
    BY <1>3
  <2> QED
    BY <1>7, <2>1
<1>9. shown(behind) # {} => Ext!Max(shown(behind)) \in DOMAIN behind
  <2> DEFINE S == shown(behind)
             U == {j \in 1 .. a : a + 1 - j \in S}
  <2>1. a \in Nat /\ S \subseteq 1 .. a /\ S \subseteq DOMAIN behind
    BY <1>2, <1>3 DEF Lists
  <2> HIDE DEF S
  <2>2. ASSUME S # {} PROVE \E m \in S : \A j \in S : m >= j
    <3>1. U \in SUBSET Nat
      OBVIOUS
    <3>2. U # {}
      <4>1. PICK j \in S : TRUE
        BY <2>2
      <4>2. a + 1 - j \in 1 .. a /\ a + 1 - (a + 1 - j) = j
        BY <2>1
      <4> QED
        BY <4>1, <4>2
    <3>3. PICK k \in U : \A j \in U : k <= j
      <4> HIDE DEF U
      <4> QED
        BY <3>1, <3>2, LeastOf
    <3>4. a + 1 - k \in S
      BY <3>3
    <3>5. \A j \in S : a + 1 - k >= j
      <4> SUFFICES ASSUME NEW j \in S PROVE a + 1 - k >= j
        OBVIOUS
      <4>1. j \in 1 .. a /\ a + 1 - j \in 1 .. a /\ a + 1 - (a + 1 - j) = j
        BY <2>1
      <4>2. a + 1 - j \in U
        BY <4>1
      <4>3. k <= a + 1 - j /\ k \in 1 .. a
        BY <3>3, <4>2
      <4> QED
        BY <2>1, <4>1, <4>3
    <3> QED
      BY <3>4, <3>5
  <2>3. S # {} => Ext!Max(S) \in S
    BY <2>2 DEF Ext!Max
  <2> QED
    BY <2>1, <2>3 DEF S
<1> QED
  BY <1>4, <1>5, <1>6, <1>8, <1>9

LEMMA IterInvStep ==
  ASSUME "selfInsert" \notin Unguarded, ~RemoveUnstarted, IterInv, [IterNext]_ivars
  PROVE  IterInv'
<1>1. /\ Tree(dom) /\ ~crashed /\ EachPlaced(dom, iter) /\ TreeInv
      /\ iter \in [Iterator -> Iterators \cup {NotRegistered}]
  BY DEF IterInv, TreeInv, TypeOK, ParentChildAgree, Acyclic, Tree, EachPlaced
<1>2. CASE TreeStep
  <2>1. Next
    BY <1>2 DEF TreeStep, Next
  <2>2. TreeInv'
    BY <1>1, <2>1, TreeInvStep
  <2> QED
    BY <1>2, <2>2, TreeStepPlaces DEF IterInv
<1>3. ASSUME UNCHANGED <<dom, call>> PROVE TreeInv'
  BY <1>1, <1>3, TreeInvStep DEF vars
<1>4. ASSUME NEW i \in Iterator, NEW root \in Roots, CreateNodeIterator(i, root)
      PROVE  IterInv'
  <2> DEFINE it == [root |-> root, current |-> Nil, forward |-> TRUE]
  <2>1. it \in Iterators /\ Placed(dom, it)
    BY IteratorAssumption DEF Iterators, Placed, NodeOrNil
  <2>2. iter' = [iter EXCEPT ![i] = it] /\ UNCHANGED <<dom, call, crashed>>
    BY <1>4 DEF CreateNodeIterator
  <2> HIDE DEF it
  <2> QED
    BY <1>3, <2>1, <2>2, OwnStepPlaces DEF IterInv
<1>5. ASSUME NEW i \in Live(iter), NEW x \in NodeOrNil, NEW b \in BOOLEAN,
             x # Nil => x \in Under(dom, iter[i].root),
             iter[i].current # Nil \/ b,
             iter' = [iter EXCEPT ![i].forward = b,
                                  ![i].current = IF x = Nil THEN @ ELSE x],
             UNCHANGED <<dom, call, crashed>>
      PROVE  IterInv'
  <2> DEFINE y == IF x = Nil THEN iter[i].current ELSE x
             it == [root |-> iter[i].root, current |-> y, forward |-> b]
  <2>1. i \in Iterator /\ iter[i] \in Iterators /\ Placed(dom, iter[i])
    BY <1>1, LiveIs DEF EachPlaced, Live
  <2>2. it \in Iterators /\ Placed(dom, it)
    BY <1>5, <2>1 DEF Iterators, Placed
  <2>3. iter' = [iter EXCEPT ![i] = it]
    <3>1. iter[i] = [root |-> iter[i].root, current |-> iter[i].current, forward |-> iter[i].forward]
      BY <2>1 DEF Iterators
    <3>2. \A j \in Iterator : iter'[j] = IF j = i THEN it ELSE iter[j]
      <4>1. iter'[i] = [iter[i] EXCEPT !.forward = b, !.current = IF x = Nil THEN @ ELSE x]
        BY <1>1, <1>5, <2>1
      <4>2. iter'[i] = it
        BY <3>1, <4>1
      <4>3. \A j \in Iterator : j # i => iter'[j] = iter[j]
        BY <1>1, <1>5
      <4> QED
        BY <4>2, <4>3
    <3>3. iter' = [j \in Iterator |-> iter'[j]]
      BY <1>1, <1>5
    <3> HIDE DEF it
    <3> QED
      BY <1>1, <2>1, <3>2, <3>3
  <2> HIDE DEF it
  <2> QED
    BY <1>3, <1>5, <2>1, <2>2, <2>3, OwnStepPlaces DEF IterInv
<1>6. ASSUME NEW i \in Iterator, NextNode(i) PROVE IterInv'
  <2> DEFINE x == NextResult(dom, iter[i])
  <2>1. i \in Live(iter) /\ Placed(dom, iter[i])
    BY <1>1, <1>6 DEF NextNode, EachPlaced
  <2>2. x # Nil => x \in Under(dom, iter[i].root) /\ x \in Node
    <3>1. iter[i].root \in Node /\ Under(dom, iter[i].root) \subseteq Node
      BY <1>1, <2>1, UnderIs DEF Placed
    <3> QED
      BY <1>1, <2>1, <3>1, ResultPlaced
  <2>3. /\ iter' = [iter EXCEPT ![i].forward = TRUE,
                                ![i].current = IF x = Nil THEN @ ELSE x]
        /\ UNCHANGED <<dom, call, crashed>>
    BY <1>6 DEF NextNode
  <2>4. x \in NodeOrNil
    BY <2>2 DEF NodeOrNil
  <2> HIDE DEF x
  <2> QED
    BY <1>5, <2>1, <2>2, <2>3, <2>4
<1>7. ASSUME NEW i \in Iterator, PreviousNode(i) PROVE IterInv'
  <2> DEFINE x == PreviousResult(dom, iter[i])
  <2>1. i \in Live(iter) /\ Placed(dom, iter[i]) /\ iter[i].current # Nil
    BY <1>1, <1>7 DEF PreviousNode, EachPlaced
  <2>2. x # Nil => x \in Under(dom, iter[i].root) /\ x \in Node
    <3>1. iter[i].root \in Node /\ Under(dom, iter[i].root) \subseteq Node
      BY <1>1, <2>1, UnderIs DEF Placed
    <3> QED
      BY <1>1, <2>1, <3>1, ResultPlaced
  <2>3. /\ iter' = [iter EXCEPT ![i].forward = FALSE,
                                ![i].current = IF x = Nil THEN @ ELSE x]
        /\ UNCHANGED <<dom, call, crashed>>
    BY <1>7 DEF PreviousNode
  <2>4. x \in NodeOrNil
    BY <2>2 DEF NodeOrNil
  <2> HIDE DEF x
  <2> QED
    BY <1>5, <2>1, <2>2, <2>3, <2>4
<1>8. ASSUME NEW i \in Iterator, Detach(i) PROVE IterInv'
  <2>1. iter' = [iter EXCEPT ![i] = NotRegistered] /\ UNCHANGED <<dom, call, crashed>>
    BY <1>8 DEF Detach
  <2> QED
    BY <1>3, <2>1, OwnStepPlaces DEF IterInv
<1>9. CASE UNCHANGED ivars
  <2>1. UNCHANGED <<dom, call, iter, crashed>>
    BY <1>9 DEF ivars
  <2> QED
    BY <1>1, <1>3, <2>1 DEF IterInv
<1> QED
  BY <1>2, <1>4, <1>6, <1>7, <1>8, <1>9 DEF IterNext

\* What the model checker evaluates of the iterators follows.
LEMMA PlacedMeans ==
  ASSUME IterInv PROVE OnOwnSubtree /\ StepsAreNeighbours
<1>1. Tree(dom) /\ \A i \in Live(iter) : Placed(dom, iter[i])
  BY DEF IterInv, TreeInv, TypeOK, ParentChildAgree, Acyclic, Tree, EachPlaced
<1>2. OnOwnSubtree
  BY <1>1 DEF OnOwnSubtree, Placed, Under
<1>3. StepsAreNeighbours
  BY <1>1, ResultIs DEF StepsAreNeighbours
<1> QED
  BY <1>2, <1>3

\* For every document, and any number of iterators that have all returned a
\* node before nodes are removed: whatever is inserted, moved, replaced or
\* removed, an iterator rests on a node of its root's subtree (removeNode).
THEOREM IteratorsStayInTheirTrees ==
  ASSUME "selfInsert" \notin Unguarded, ~RemoveUnstarted
  PROVE  IterSpec => []OnOwnSubtree
<1>1. IterInv /\ [IterNext]_ivars => IterInv'
  BY IterInvStep
<1>2. IterInv => OnOwnSubtree
  BY PlacedMeans
<1> QED
  BY <1>1, <1>2, IterInvInit, PTL DEF IterSpec

\* Under the same conditions nextNode() returns the first shown node ahead of
\* the iterator's position in document order, previousNode() the last shown one
\* behind it, and null if there is none.
THEOREM IteratorsStepToNeighbours ==
  ASSUME "selfInsert" \notin Unguarded, ~RemoveUnstarted
  PROVE  IterSpec => []StepsAreNeighbours
<1>1. IterInv /\ [IterNext]_ivars => IterInv'
  BY IterInvStep
<1>2. IterInv => StepsAreNeighbours
  BY PlacedMeans
<1> QED
  BY <1>1, <1>2, IterInvInit, PTL DEF IterSpec

-----------------------------------------------------------------------------
(* A subtree is a block of document order *)

LEMMA UnderInside ==
  ASSUME NEW f, Tree(f), NEW x \in Node, NEW y \in Under(f, x)
  PROVE  Under(f, y) \subseteq Under(f, x)
<1> DEFINE T == Under(f, x)
<1>1. y \in Node
  BY UnderIs
<1>2. ASSUME NEW z \in Under(f, y), z # y, f.parent[z] \in T PROVE z \in T
  <2>1. z \in Node /\ Entered(f.parent[z])
    BY <1>1, <1>2, UnderIs, UnderUp
  <2> QED
    BY <1>2, <2>1, UnderDown
<1> HIDE DEF T
<1>3. Under(f, y) \subseteq T
  BY <1>1, <1>2, UnderLeast DEF T
<1> QED
  BY <1>3 DEF T

LEMMA UnderApart ==
  ASSUME NEW f, Tree(f), NEW r \in Node, NEW n \in Under(f, r), n # r
  PROVE  r \notin Under(f, n)
<1> SUFFICES ASSUME r \in Under(f, n) PROVE FALSE
  OBVIOUS
<1>1. n \in Node
  BY UnderIs
<1>2. f.parent[r] \in Under(f, n)
  BY <1>1, UnderUp
<1>3. f.parent[r] \in Under(f, r)
  BY <1>2, UnderInside
<1> QED
  BY <1>3, NotUnderItself

\* The subtree of n is what s lists from place i to place l.
Block(f, r, n, s, i, l) ==
  /\ i \in 2 .. Len(s) /\ l \in i .. Len(s) /\ s[i] = n
  /\ \A m \in 1 .. Len(s) : s[m] \in Under(f, n) <=> m \in i .. l
  /\ NextInTree(f, r, n, FALSE) = IF l = Len(s) THEN Nil ELSE s[l + 1]
  /\ PreviousInTree(f, r, n) = s[i - 1]

LEMMA BlockIs ==
  ASSUME NEW f, Tree(f), NEW r \in Node, NEW n \in Under(f, r), n # r
  PROVE  \E i, l : Block(f, r, n, Order(f, r), i, l)
<1> DEFINE s == Order(f, r)
           t == Order(f, n)
<1>1. n \in Node
  BY UnderIs
<1>2. Lists(f, r, s) /\ Lists(f, n, t)
  BY <1>1, PositionIs
<1>3. Walked(f, r, n)
  BY <1>1, UnderApart, OrderSteps
<1> HIDE DEF s
<1>4. PICK i \in 1 .. Len(s) : n = s[i]
  BY <1>2 DEF Lists
<1>5. i # 1 /\ Len(s) \in Nat
  BY <1>2, <1>4 DEF Lists
<1>6. /\ \A j \in 1 .. Len(t) - 1 : /\ t[j + 1] \in Node
                                    /\ NextInTree(f, r, t[j], TRUE) = t[j + 1]
      /\ t[Len(t)] = Deepest(f, n) /\ t[1] = n /\ t # <<>>
      /\ NextInTree(f, r, Deepest(f, n), TRUE) = NextInTree(f, r, n, FALSE)
  BY <1>3 DEF Walked, Chain, Steps
<1> HIDE DEF t
<1>7. Len(t) \in Nat /\ Len(t) > 0
  BY <1>2 DEF Lists
<1> DEFINE T == {j \in Nat : i + j \in 1 .. Len(s) /\ s[i + j] = t[j + 1]}
<1>8. \A j \in 0 .. Len(t) - 1 : j \in T
  <2>1. 0 \in T
    BY <1>4, <1>6
  <2>2. ASSUME NEW j \in 1 .. Len(t) - 1, j - 1 \in T PROVE j \in T
    <3>1. j \in Nat /\ (j - 1) + 1 = j /\ i + (j - 1) = i + j - 1
      OBVIOUS
    <3>2. i + j - 1 \in 1 .. Len(s) /\ s[i + j - 1] = t[j]
      BY <2>2, <3>1
    <3>3. t[j + 1] \in Node /\ NextInTree(f, r, t[j], TRUE) = t[j + 1]
      BY <1>6
    <3>4. NextInTree(f, r, s[i + j - 1], TRUE) =
            IF i + j - 1 = Len(s) THEN Nil ELSE s[(i + j - 1) + 1]
      BY <1>2, <3>2 DEF Lists
    <3>5. i + j - 1 # Len(s) /\ s[(i + j - 1) + 1] = t[j + 1]
      BY <3>2, <3>3, <3>4, NilAssumption
    <3>6. (i + j - 1) + 1 = i + j /\ i + j \in 1 .. Len(s)
      BY <1>5, <3>2, <3>5
    <3> QED
      BY <3>1, <3>5, <3>6
  <2>3. Len(t) - 1 \in Nat
    BY <1>7
  <2> HIDE DEF T
  <2> QED
    BY <2>1, <2>2, <2>3, UpTo
<1> DEFINE l == i + (Len(t) - 1)
<1>9. l \in i .. Len(s) /\ s[l] = Deepest(f, n)
  <2>1. Len(t) - 1 \in 0 .. Len(t) - 1 /\ (Len(t) - 1) + 1 = Len(t) /\ Len(t) - 1 >= 0
    BY <1>7
  <2> HIDE DEF T
  <2>2. Len(t) - 1 \in T
    BY <1>8, <2>1
  <2>3. l \in 1 .. Len(s) /\ s[l] = t[Len(t)]
    BY <2>1, <2>2 DEF T
  <2> QED
    BY <1>6, <2>1, <2>3
<1>10. \A m \in 1 .. Len(s) : s[m] \in Under(f, n) <=> m \in i .. l
  <2> SUFFICES ASSUME NEW m \in 1 .. Len(s) PROVE s[m] \in Under(f, n) <=> m \in i .. l
    OBVIOUS
  <2>1. ASSUME m \in i .. l PROVE s[m] \in Under(f, n)
    <3>1. m - i \in 0 .. Len(t) - 1 /\ i + (m - i) = m /\ (m - i) + 1 \in 1 .. Len(t)
      BY <1>7, <2>1
    <3>2. s[m] = t[(m - i) + 1]
      BY <1>8, <3>1
    <3> QED
      BY <1>2, <3>1, <3>2 DEF Lists
  <2>2. ASSUME s[m] \in Under(f, n) PROVE m \in i .. l
    <3>1. PICK j \in 1 .. Len(t) : s[m] = t[j]
      BY <1>2, <2>2 DEF Lists
    <3>2. j - 1 \in 0 .. Len(t) - 1 /\ (j - 1) + 1 = j
      BY <1>7
    <3>3. i + (j - 1) \in 1 .. Len(s) /\ s[i + (j - 1)] = s[m]
      BY <1>8, <3>1, <3>2
    <3>4. i + (j - 1) = m
      <4>1. IndexOf(s, s[i + (j - 1)]) = i + (j - 1) /\ IndexOf(s, s[m]) = m
        BY <1>2, <3>3 DEF Lists
      <4> QED
        BY <3>3, <4>1
    <3> QED
      BY <1>7, <3>2, <3>4
  <2> QED
    BY <2>1, <2>2
<1> HIDE DEF l
<1>11. NextInTree(f, r, n, FALSE) = IF l = Len(s) THEN Nil ELSE s[l + 1]
  <2>1. l \in 1 .. Len(s)
    BY <1>5, <1>9
  <2>2. NextInTree(f, r, s[l], TRUE) = IF l = Len(s) THEN Nil ELSE s[l + 1]
    BY <1>2, <2>1 DEF Lists
  <2> QED
    BY <1>6, <1>9, <2>2
<1>12. PreviousInTree(f, r, n) = s[i - 1]
  BY <1>2, <1>4, <1>5 DEF Lists
<1>13. i \in 2 .. Len(s)
  BY <1>5
<1>14. Block(f, r, n, s, i, l)
  BY <1>4, <1>9, <1>10, <1>11, <1>12, <1>13 DEF Block
<1> QED
  BY <1>14 DEF s
-----------------------------------------------------------------------------
(* Document order without n *)

\* w is s without n, which was at place k.
Gone(s, n, k, w) ==
  /\ s \in Seq(Node) /\ Len(s) \in Nat /\ k \in 1 .. Len(s)
  /\ \A j \in 1 .. Len(s) : s[j] \in Node /\ (s[j] = n <=> j = k)
  /\ w \in Seq(Node) /\ Len(w) = Len(s) - 1
  /\ \A j \in 1 .. Len(s) - 1 : w[j] = IF j < k THEN s[j] ELSE s[j + 1]

LEMMA GoneIs ==
  ASSUME NEW s \in Seq(Node), Distinct(s), NEW n, Occurs(n, s)
  PROVE  \E k : Gone(s, n, k, Without(s, n))
<1> DEFINE k == IndexOf(s, n)
           a == SubSeq(s, 1, k - 1)
           b == SubSeq(s, k + 1, Len(s))
           w == Without(s, n)
<1>1. k \in 1 .. Len(s) /\ s[k] = n
  BY IndexOfOccurs
<1>2. w = a \o b
  BY DEF Without
<1> HIDE DEF k
<1>3. a \in Seq(Node) /\ Len(a) = k - 1 /\ \A i \in 1 .. k - 1 : a[i] = s[i]
  BY <1>1
<1>4. /\ b \in Seq(Node) /\ Len(b) = Len(s) - k
      /\ \A i \in 1 .. Len(s) - k : b[i] = s[k + i]
  BY <1>1
<1> HIDE DEF a, b, w
<1>5. w \in Seq(Node) /\ Len(w) = Len(s) - 1
  BY <1>1, <1>2, <1>3, <1>4
<1>6. ASSUME NEW i \in 1 .. Len(s) - 1
      PROVE  w[i] = IF i < k THEN s[i] ELSE s[i + 1]
  <2>1. i \in 1 .. Len(a) => i < k /\ w[i] = a[i] /\ i \in 1 .. k - 1
    BY <1>1, <1>2, <1>3, <1>4
  <2> DEFINE j == i - (k - 1)
  <2>2. i \notin 1 .. Len(a) => ~(i < k) /\ w[i] = b[j] /\ j \in 1 .. Len(s) - k /\ k + j = i + 1
    BY <1>1, <1>2, <1>3, <1>4
  <2> HIDE DEF j
  <2>3. i \notin 1 .. Len(a) => b[j] = s[k + j]
    BY <1>4, <2>2
  <2>4. i \notin 1 .. Len(a) => w[i] = s[i + 1]
    BY ONLY <2>2, <2>3
  <2> QED
    BY <1>3, <2>1, <2>2, <2>4
<1>7. \A j \in 1 .. Len(s) : s[j] \in Node /\ (s[j] = n <=> j = k)
  BY <1>1 DEF Distinct
<1>8. Gone(s, n, k, w)
  BY <1>1, <1>5, <1>6, <1>7 DEF Gone
<1> QED
  BY <1>8 DEF w

\* The sibling that follows once n is gone.
LEMMA SiblingUnlinked ==
  ASSUME NEW f, Tree(f), NEW n \in Node, f.parent[n] # Nil, NEW y \in Node, y # n
  PROVE  /\ NextSibling(Unlink(f, n), y) =
              IF NextSibling(f, y) = n THEN NextSibling(f, n) ELSE NextSibling(f, y)
         /\ NextSibling(f, y) = n => f.parent[y] = f.parent[n]
<1> DEFINE u == Unlink(f, n)
           p == f.parent[n]
           s == f.kids[p]
           w == Without(s, n)
<1>1. p \in Node /\ s \in Seq(Node) /\ Distinct(s) /\ s = f.kids[p]
  BY LinkedIs DEF Tree, Doms, NodeOrNil
<1>2. \E k : Gone(s, n, k, w)
  <2>1. Occurs(n, s)
    BY <1>1, LinkedIs DEF Tree
  <2> QED
    BY <1>1, <2>1, GoneIs
<1>3. /\ Tree(u) /\ u.parent = [f.parent EXCEPT ![n] = Nil]
  BY UnlinkIs DEF Tree
<1>4. u.kids = [f.kids EXCEPT ![p] = w]
  BY DEF Unlink
<1>5. NextSibling(f, y) = n => f.parent[y] = p
  <2>1. NextSibling(f, y) # Nil => f.parent[NextSibling(f, y)] = f.parent[y]
    BY SiblingOther
  <2> QED
    BY <2>1, NilAssumption
<1> HIDE DEF u, s, w
<1>6. CASE f.parent[y] # p
  <2>1. u.parent[y] = f.parent[y]
    BY <1>3 DEF Tree, Doms
  <2>2. f.parent[y] # Nil => u.kids[f.parent[y]] = f.kids[f.parent[y]]
    BY <1>4, <1>6 DEF Tree, Doms, NodeOrNil
  <2>3. NextSibling(u, y) = NextSibling(f, y)
    BY <2>1, <2>2 DEF NextSibling
  <2> QED
    BY <1>5, <1>6, <2>3 DEF u
<1>7. CASE f.parent[y] = p
  <2>1. PICK i \in DOMAIN s : s[i] = y
    BY <1>1, <1>7, LinkedIs DEF Tree, Occurs
  <2>2. u.parent[y] = p /\ u.kids[p] = w
    BY <1>1, <1>3, <1>4, <1>7 DEF Tree, Doms
  <2>13. PICK k : Gone(s, n, k, w)
    BY <1>2
  <2>3. k \in 1 .. Len(s) /\ i \in 1 .. Len(s) /\ Len(s) \in Nat /\ s[k] = n
    BY <1>1, <2>1, <2>13 DEF Gone
  <2>4. /\ Len(w) = Len(s) - 1
        /\ \A j \in 1 .. Len(s) - 1 : w[j] = IF j < k THEN s[j] ELSE s[j + 1]
    BY <2>13 DEF Gone
  <2> HIDE DEF p
  <2>12. ASSUME NEW z \in Node, NEW j \in 1 .. Len(s), s[j] = z
         PROVE  NextSibling(f, z) = IF j = Len(s) THEN Nil ELSE s[j + 1]
    BY <1>1, <2>12, SiblingIs
  <2>5. NextSibling(f, y) = IF i = Len(s) THEN Nil ELSE s[i + 1]
    BY <2>1, <2>3, <2>12
  <2>6. NextSibling(f, n) = IF k = Len(s) THEN Nil ELSE s[k + 1]
    BY <2>3, <2>12
  <2>7. ASSUME NEW j \in 1 .. Len(w), w[j] = y
        PROVE  NextSibling(u, y) = IF j = Len(w) THEN Nil ELSE w[j + 1]
    BY <1>1, <1>3, <2>2, <2>7, SiblingIs
  <2>8. i # k
    BY <2>1, <2>3
  <2>9. s[i + 1] = n /\ i # Len(s) => i + 1 = k
    <3>1. i # Len(s) => i + 1 \in 1 .. Len(s)
      BY <2>3
    <3> QED
      BY <2>13, <3>1 DEF Gone
  <2>10. CASE i < k
    <3>1. i \in 1 .. Len(w) /\ w[i] = y /\ i # Len(s)
      BY <2>1, <2>3, <2>4, <2>10
    <3>2. NextSibling(u, y) = IF i = Len(w) THEN Nil ELSE w[i + 1]
      BY <2>7, <3>1
    <3>3. CASE i + 1 = k
      <4>1. NextSibling(f, y) = n
        BY <2>3, <2>5, <3>1, <3>3
      <4>2. i = Len(w) <=> k = Len(s)
        BY <2>3, <2>4, <3>3
      <4>3. i # Len(w) => w[i + 1] = s[k + 1]
        <5>1. i # Len(w) => k \in 1 .. Len(s) - 1 /\ ~(k < k)
          BY <2>3, <2>4, <3>3
        <5> QED
          BY <2>4, <3>3, <5>1
      <4> QED
        BY <1>7, <2>6, <3>2, <4>1, <4>2, <4>3 DEF u, p
    <3>4. CASE i + 1 # k
      <4>1. NextSibling(f, y) = s[i + 1] /\ s[i + 1] # n
        BY <2>5, <2>9, <3>1, <3>4
      <4>2. i + 1 \in 1 .. Len(s) - 1 /\ i + 1 < k /\ i # Len(w)
        BY <2>3, <2>4, <2>10, <3>4
      <4>3. w[i + 1] = s[i + 1]
        BY <2>4, <4>2
      <4> QED
        BY <3>2, <4>1, <4>2, <4>3 DEF u
    <3> QED
      BY <3>3, <3>4
  <2>11. CASE i > k
    <3>1. i - 1 \in 1 .. Len(s) - 1 /\ ~(i - 1 < k) /\ (i - 1) + 1 = i
      BY <2>3, <2>11
    <3>2. i - 1 \in 1 .. Len(w) /\ w[i - 1] = y
      BY <2>1, <2>4, <3>1
    <3>3. NextSibling(u, y) = IF i - 1 = Len(w) THEN Nil ELSE w[i]
      BY <2>7, <3>1, <3>2
    <3>4. i - 1 = Len(w) <=> i = Len(s)
      BY <2>3, <2>4
    <3>5. i # Len(s) => w[i] = s[i + 1]
      <4>1. i # Len(s) => i \in 1 .. Len(s) - 1 /\ ~(i < k)
        BY <2>3, <2>11
      <4> QED
        BY <2>4, <4>1
    <3>6. NextSibling(f, y) # n
      <4>1. i + 1 # k
        BY <2>3, <2>11
      <4> QED
        BY <2>5, <2>9, <4>1, NilAssumption
    <3> QED
      BY <2>5, <3>3, <3>4, <3>5, <3>6 DEF u
  <2> QED
    BY <1>5, <2>3, <2>8, <2>10, <2>11
<1> QED
  BY <1>5, <1>6, <1>7


\* nextNode's way past the place where n was.
Past(f, r, n, z) == IF z = n THEN NextInTree(f, r, n, FALSE) ELSE z

LEMMA NextUnlinked ==
  ASSUME NEW f, Tree(f), NEW n \in Node, f.parent[n] # Nil, NEW r \in Node, n # r
  PROVE  LET u == Unlink(f, n)
         IN  \A y \in Under(f, r) \ Under(f, n) :
                /\ NextInTree(u, r, y, FALSE) = Past(f, r, n, NextInTree(f, r, y, FALSE))
                /\ NextInTree(u, r, y, TRUE) = Past(f, r, n, NextInTree(f, r, y, TRUE))
<1> DEFINE u == Unlink(f, n)
           p == f.parent[n]
           s == f.kids[p]
           w == Without(s, n)
<1>1. /\ Tree(u) /\ u.parent = [f.parent EXCEPT ![n] = Nil] /\ u.kids = [f.kids EXCEPT ![p] = w]
      /\ f.parent \in [Node -> NodeOrNil] /\ f.kids \in [Node -> Seq(Node)]
  BY UnlinkIs DEF Tree, Doms, Unlink
<1>2. p \in Node /\ s \in Seq(Node) /\ Distinct(s) /\ Occurs(n, s) /\ s = f.kids[p]
  BY LinkedIs DEF Tree, Doms, NodeOrNil
<1>3. /\ \A y \in Under(f, r) : y \in Node /\ y # Nil
      /\ n \in Under(f, n)
  BY UnderIs, NilAssumption
<1>4. \A y \in Node : y # n =>
         /\ NextSibling(u, y) = IF NextSibling(f, y) = n THEN NextSibling(f, n)
                                ELSE NextSibling(f, y)
         /\ NextSibling(f, y) = n => f.parent[y] = p
  BY SiblingUnlinked
<1>5. ASSUME NEW y \in Under(f, r), Entered(y), y = p PROVE NextInTree(f, r, y, FALSE) # n
  <2>1. n \in Under(f, y) /\ (NextInTree(f, r, y, FALSE) # Nil => NextInTree(f, r, y, FALSE) \notin Under(f, y))
    <3>1. y \in Under(f, y) /\ y \in Node
      BY <1>3, UnderIs
    <3>2. n \in Under(f, y)
      BY <1>5, <3>1, UnderDown
    <3> QED
      BY <3>2, NextOutside
  <2> QED
    BY <2>1, NilAssumption
<1>11. \E k : Gone(s, n, k, w)
  BY <1>2, GoneIs
<1> HIDE DEF u, w, s
<1>6. ASSUME NEW y \in Under(f, r), y # r
      PROVE  /\ y \in Node /\ f.parent[y] \in Under(f, r) /\ f.parent[y] \in Node
             /\ Entered(f.parent[y])
             /\ f.parent[y] \in Under(f, n) => y \in Under(f, n)
  <2>1. y \in Node /\ f.parent[y] \in Under(f, r) /\ Entered(f.parent[y])
    BY <1>3, <1>6, UnderUp
  <2> QED
    BY <1>3, <2>1, UnderDown
<1> DEFINE nf(y) == NextInTree(f, r, y, FALSE)
           nu(y) == NextInTree(u, r, y, FALSE)
<1>7. \A y \in Node : y # Nil /\
        /\ nf(y) = IF y = r THEN Nil ELSE IF NextSibling(f, y) # Nil THEN NextSibling(f, y)
                   ELSE IF f.parent[y] = Nil THEN Nil ELSE nf(f.parent[y])
        /\ nu(y) = IF y = r THEN Nil ELSE IF NextSibling(u, y) # Nil THEN NextSibling(u, y)
                   ELSE IF u.parent[y] = Nil THEN Nil ELSE nu(u.parent[y])
  BY <1>1, NextIs, NilAssumption
<1>8. \A y : Past(f, r, n, y) = IF y = n THEN nf(n) ELSE y
  BY DEF Past
<1> HIDE DEF nf, nu
<1>9. \A y \in Under(f, r) : y \notin Under(f, n) => nu(y) = Past(f, r, n, nf(y))
  <2> DEFINE T == {y \in Node : y \notin Under(f, n) => nu(y) = Past(f, r, n, nf(y))}
  <2>1. r \in T
    BY <1>7, <1>8, NilAssumption
  <2>2. ASSUME NEW y \in Under(f, r), y # r, f.parent[y] \in T PROVE y \in T
    <3> SUFFICES ASSUME y \notin Under(f, n) PROVE nu(y) = Past(f, r, n, nf(y))
      BY <1>3
    <3> DEFINE q == f.parent[y]
    <3>1. /\ y \in Node /\ q \in Under(f, r) /\ q \in Node /\ Entered(q) /\ q # Nil
          /\ q \notin Under(f, n) /\ y # n /\ u.parent[y] = q
      BY <1>1, <1>3, <1>6, <2>2, NilAssumption
    <3>2. nu(q) = Past(f, r, n, nf(q)) /\ q = f.parent[y]
      BY <2>2, <3>1
    <3> HIDE DEF q
    <3>3. CASE NextSibling(f, y) # Nil /\ NextSibling(f, y) # n
      BY <1>4, <1>7, <1>8, <2>2, <3>1, <3>3
    <3>4. CASE NextSibling(f, y) = n
      <4>1. q = p /\ nf(y) = n /\ NextSibling(u, y) = NextSibling(f, n)
        BY <1>4, <1>7, <2>2, <3>1, <3>2, <3>4, NilAssumption
      <4>2. nf(q) # n
        BY <1>5, <3>1, <4>1 DEF nf
      <4>3. nf(n) = IF NextSibling(f, n) # Nil THEN NextSibling(f, n) ELSE nf(q)
        BY <1>2, <1>7, <3>1, <4>1
      <4>4. nu(y) = IF NextSibling(f, n) # Nil THEN NextSibling(f, n) ELSE nu(q)
        BY <1>7, <2>2, <3>1, <4>1
      <4> QED
        BY <1>8, <3>2, <4>1, <4>2, <4>3, <4>4
    <3>5. CASE NextSibling(f, y) = Nil
      <4>1. NextSibling(u, y) = Nil
        BY <1>4, <3>1, <3>5, NilAssumption
      <4>2. nf(y) = nf(q) /\ nu(y) = nu(q)
        BY <1>7, <2>2, <3>1, <3>2, <3>5, <4>1
      <4> QED
        BY <3>2, <4>2
    <3> QED
      BY <3>3, <3>4, <3>5
  <2> HIDE DEF T
  <2>3. Under(f, r) \subseteq T
    BY <2>1, <2>2, UnderLeast
  <2> QED
    BY <2>3 DEF T
<1>10. ASSUME NEW y \in Under(f, r), y \notin Under(f, n)
       PROVE  NextInTree(u, r, y, TRUE) = Past(f, r, n, NextInTree(f, r, y, TRUE))
  <2>1. y \in Node /\ y # n /\ nu(y) = Past(f, r, n, nf(y))
    BY <1>3, <1>9, <1>10
  <2>2. /\ NextInTree(f, r, y, TRUE) = IF Visible(f, y) # <<>> THEN Head(Visible(f, y)) ELSE nf(y)
        /\ NextInTree(u, r, y, TRUE) = IF Visible(u, y) # <<>> THEN Head(Visible(u, y)) ELSE nu(y)
    BY <1>1, <2>1, NextIs DEF nf, nu
  <2>3. CASE ~Entered(y)
    <3>1. Visible(f, y) = <<>> /\ Visible(u, y) = <<>>
      BY <2>3 DEF Visible, Entered
    <3> QED
      BY <2>1, <2>2, <3>1
  <2>4. CASE Entered(y) /\ y # p
    <3>1. Visible(f, y) = f.kids[y] /\ Visible(u, y) = f.kids[y]
      BY <1>1, <2>1, <2>4 DEF Visible, Entered
    <3>2. f.kids[y] # <<>> => Head(f.kids[y]) # n
      <4>1. f.kids[y] \in Seq(Node)
        BY <1>1, <2>1
      <4>2. f.kids[y] # <<>> => Occurs(Head(f.kids[y]), f.kids[y])
        BY <4>1 DEF Occurs
      <4>3. Occurs(n, f.kids[y]) => f.parent[n] = y
        BY <2>1, LinkedIs DEF Tree
      <4> QED
        BY <2>4, <4>2, <4>3
    <3> QED
      BY <1>8, <2>1, <2>2, <3>1, <3>2
  <2>5. CASE Entered(y) /\ y = p
    <3>1. Visible(f, y) = s /\ Visible(u, y) = w
      BY <1>1, <1>2, <2>1, <2>5 DEF Visible, Entered
    <3>2. PICK k : Gone(s, n, k, w)
      BY <1>11
    <3>3. /\ Len(w) = Len(s) - 1
          /\ \A j \in 1 .. Len(s) - 1 : w[j] = IF j < k THEN s[j] ELSE s[j + 1]
          /\ \A j \in 1 .. Len(s) : s[j] \in Node /\ (s[j] = n <=> j = k)
      BY <3>2 DEF Gone
    <3>4. /\ k \in 1 .. Len(s) /\ Len(s) \in Nat /\ Len(s) > 0
          /\ s \in Seq(Node) /\ w \in Seq(Node)
      BY <3>2 DEF Gone
    <3>5. NextInTree(f, r, y, TRUE) = s[1]
      <4>1. s # <<>> /\ Head(s) = s[1]
        BY <3>4
      <4> QED
        BY <2>2, <3>1, <4>1
    <3>6. NextInTree(u, r, y, TRUE) = IF Len(s) > 1 THEN w[1] ELSE nu(y)
      <4>1. w # <<>> <=> Len(s) > 1
        BY <3>3, <3>4
      <4>2. w # <<>> => Head(w) = w[1]
        BY <3>4
      <4> QED
        BY <2>2, <3>1, <4>1, <4>2
    <3>7. CASE k # 1
      <4>1. Len(s) > 1 /\ w[1] = s[1]
        BY <3>3, <3>4, <3>7
      <4>2. s[1] # n
        BY <3>3, <3>4, <3>7
      <4> QED
        BY <1>8, <3>5, <3>6, <4>1, <4>2
    <3>8. CASE k = 1
      <4>1. NextSibling(f, n) = IF Len(s) = 1 THEN Nil ELSE s[2]
        <5>1. f.kids[p] = s /\ p \in Node
          BY <1>2
        <5> HIDE DEF p
        <5>2. ASSUME NEW j \in 1 .. Len(s), s[j] = n
              PROVE  NextSibling(f, n) = IF j = Len(s) THEN Nil ELSE s[j + 1]
          BY <5>1, <5>2, SiblingIs
        <5>3. s[1] = n /\ 1 \in 1 .. Len(s) /\ 1 + 1 = 2
          BY <3>3, <3>4, <3>8
        <5> QED
          BY <5>2, <5>3
      <4>2. Len(s) > 1 => w[1] = s[2] /\ s[2] # Nil
        <5>1. Len(s) > 1 => 1 \in 1 .. Len(s) - 1 /\ 2 \in 1 .. Len(s)
          BY <3>4
        <5> QED
          BY <3>3, <3>8, <5>1, NilAssumption
      <4>3. nf(n) = IF Len(s) > 1 THEN s[2] ELSE nf(y)
        <5>1. nf(n) = IF NextSibling(f, n) # Nil THEN NextSibling(f, n) ELSE nf(y)
          BY <1>2, <1>7, <2>5, NilAssumption
        <5>2. Len(s) = 1 \/ Len(s) > 1
          <6>1. \A m \in Nat : m > 0 => m = 1 \/ m > 1
            OBVIOUS
          <6> QED
            BY <3>4, <6>1, Zenon
        <5> QED
          BY <4>1, <4>2, <5>1, <5>2
      <4>4. nu(y) = nf(y)
        BY <1>5, <1>8, <2>1, <2>5 DEF nf
      <4> QED
        BY <1>8, <3>3, <3>4, <3>5, <3>6, <3>8, <4>2, <4>3, <4>4
    <3> QED
      BY <3>7, <3>8
  <2> QED
    BY <2>3, <2>4, <2>5
<1> QED
  BY <1>9, <1>10 DEF u, nf, nu


\* The place in the old order of what is now at place j: c nodes from place i
\* on are gone.
Skip(i, c, j) == IF j < i THEN j ELSE j + c

\* Without n document order is what it was, less the block of n.
LEMMA OrderLess ==
  ASSUME NEW f, Tree(f), NEW n \in Node, f.parent[n] # Nil, NEW r \in Node, n # r,
         NEW i, NEW l, Block(f, r, n, Order(f, r), i, l)
  PROVE  LET s == Order(f, r)
             w == Order(Unlink(f, n), r)
         IN  \A j \in 1 .. Len(w) : /\ Skip(i, l - i + 1, j) \in 1 .. Len(s)
                                    /\ w[j] = s[Skip(i, l - i + 1, j)]
<1> DEFINE u == Unlink(f, n)
           s == Order(f, r)
           w == Order(u, r)
           at(j) == Skip(i, l - i + 1, j)
           T == {j \in Nat : j + 1 \in 1 .. Len(w) =>
                               at(j + 1) \in 1 .. Len(s) /\ w[j + 1] = s[at(j + 1)]}
<1>1. Tree(u)
  BY UnlinkIs DEF Tree
<1>2. Lists(f, r, s) /\ Lists(u, r, w)
  BY <1>1, PositionIs
<1>3. \A y \in Under(f, r) \ Under(f, n) :
         NextInTree(u, r, y, TRUE) = Past(f, r, n, NextInTree(f, r, y, TRUE))
  BY NextUnlinked
<1> HIDE DEF u, s, w
<1>4. Block(f, r, n, s, i, l)
  BY DEF s
<1>5. /\ Len(s) \in Nat /\ i \in 2 .. Len(s) /\ l \in i .. Len(s)
      /\ \A j : at(j) = IF j < i THEN j ELSE j + (l - i + 1)
  BY <1>2, <1>4 DEF Block, Lists, Skip
<1> HIDE DEF at
<1>6. 0 \in T
  <2>1. at(1) = 1 /\ 1 \in 1 .. Len(s)
    BY <1>5
  <2>2. w[1] = s[1]
    BY <1>2 DEF Lists
  <2> QED
    BY <2>1, <2>2
<1>7. ASSUME NEW j \in Nat, j # 0, j - 1 \in T PROVE j \in T
  <2> SUFFICES ASSUME j + 1 \in 1 .. Len(w)
               PROVE  at(j + 1) \in 1 .. Len(s) /\ w[j + 1] = s[at(j + 1)]
    OBVIOUS
  <2>1. j \in 1 .. Len(w) /\ j # Len(w) /\ (j - 1) + 1 = j
    <3>1. Len(w) \in Nat
      BY <1>2 DEF Lists
    <3> QED
      BY <1>7, <3>1
  <2>2. at(j) \in 1 .. Len(s) /\ w[j] = s[at(j)]
    BY <1>7, <2>1
  <2>3. /\ s[at(j)] \in Under(f, r)
        /\ NextInTree(f, r, s[at(j)], TRUE) = IF at(j) = Len(s) THEN Nil ELSE s[at(j) + 1]
    BY <1>2, <2>2 DEF Lists
  <2>4. s[at(j)] \notin Under(f, n)
    <3>1. at(j) \notin i .. l
      BY <1>5
    <3> QED
      BY <1>4, <2>2, <3>1 DEF Block
  <2>5. w[j + 1] = Past(f, r, n, NextInTree(f, r, s[at(j)], TRUE)) /\ w[j + 1] # Nil
    BY <1>2, <1>3, <2>1, <2>2, <2>3, <2>4, NilAssumption DEF Lists
  <2>6. at(j) # Len(s) /\ w[j + 1] = Past(f, r, n, s[at(j) + 1])
    BY <2>3, <2>5, NilAssumption DEF Past
  <2>7. at(j) + 1 \in 1 .. Len(s)
    BY <1>5, <2>2, <2>6
  <2>8. CASE j + 1 = i
    <3>1. at(j) + 1 = i /\ at(j + 1) = l + 1
      BY <1>5, <2>8
    <3>2. w[j + 1] = IF l = Len(s) THEN Nil ELSE s[l + 1]
      BY <1>4, <2>6, <3>1 DEF Past, Block
    <3>3. l # Len(s) /\ w[j + 1] = s[l + 1]
      BY <2>5, <3>2
    <3>4. l + 1 \in 1 .. Len(s)
      BY <1>5, <3>3
    <3> QED
      BY <3>1, <3>3, <3>4
  <2>9. CASE j + 1 # i
    <3>1. at(j + 1) = at(j) + 1 /\ at(j) + 1 # i
      BY <1>5, <2>9
    <3>2. s[at(j) + 1] # n
      <4>1. i \in 1 .. Len(s) /\ s[i] = n
        BY <1>4, <1>5 DEF Block
      <4>2. IndexOf(s, s[i]) = i /\ IndexOf(s, s[at(j) + 1]) = at(j) + 1
        BY <1>2, <2>7, <4>1 DEF Lists
      <4> QED
        BY <3>1, <4>1, <4>2
    <3> QED
      BY <2>6, <2>7, <3>1, <3>2 DEF Past
  <2> QED
    BY <2>8, <2>9
<1>8. ASSUME NEW j \in 1 .. Len(w) PROVE at(j) \in 1 .. Len(s) /\ w[j] = s[at(j)]
  <2>1. j \in Nat /\ j - 1 \in 0 .. j /\ (j - 1) + 1 = j
    OBVIOUS
  <2> HIDE DEF T
  <2>3. \A k \in 1 .. j : k - 1 \in T => k \in T
    BY <1>7
  <2>2. \A k \in 0 .. j : k \in T
    BY <1>6, <2>1, <2>3, UpTo
  <2> QED
    BY <2>1, <2>2 DEF T
<1> QED
  BY <1>8 DEF u, s, w, at

\* With n elsewhere nothing changes.
LEMMA OrderSame ==
  ASSUME NEW f, Tree(f), NEW n \in Node, f.parent[n] # Nil, NEW r \in Node, n # r,
         Under(f, r) \cap Under(f, n) = {}
  PROVE  LET s == Order(f, r)
             w == Order(Unlink(f, n), r)
         IN  \A j \in 1 .. Len(w) : j \in 1 .. Len(s) /\ w[j] = s[j]
<1> DEFINE u == Unlink(f, n)
           s == Order(f, r)
           w == Order(u, r)
           T == {j \in Nat : j + 1 \in 1 .. Len(w) => j + 1 \in 1 .. Len(s) /\ w[j + 1] = s[j + 1]}
<1>1. Tree(u)
  BY UnlinkIs DEF Tree
<1>2. Lists(f, r, s) /\ Lists(u, r, w)
  BY <1>1, PositionIs
<1>3. \A y \in Under(f, r) :
         NextInTree(u, r, y, TRUE) = Past(f, r, n, NextInTree(f, r, y, TRUE))
  BY NextUnlinked
<1>4. n \in Under(f, n)
  BY UnderIs
<1> HIDE DEF u, s, w
<1>5. 0 \in T
  <2>1. w[1] = s[1] /\ 1 \in 1 .. Len(s)
    BY <1>2 DEF Lists
  <2> QED
    BY <2>1
<1>6. ASSUME NEW j \in Nat, j # 0, j - 1 \in T PROVE j \in T
  <2> SUFFICES ASSUME j + 1 \in 1 .. Len(w)
               PROVE  j + 1 \in 1 .. Len(s) /\ w[j + 1] = s[j + 1]
    OBVIOUS
  <2>1. j \in 1 .. Len(w) /\ j # Len(w) /\ (j - 1) + 1 = j
    <3>1. Len(w) \in Nat
      BY <1>2 DEF Lists
    <3> QED
      BY <1>6, <3>1
  <2>2. j \in 1 .. Len(s) /\ w[j] = s[j]
    BY <1>6, <2>1
  <2>3. /\ s[j] \in Under(f, r)
        /\ NextInTree(f, r, s[j], TRUE) = IF j = Len(s) THEN Nil ELSE s[j + 1]
    BY <1>2, <2>2 DEF Lists
  <2>4. w[j + 1] = Past(f, r, n, NextInTree(f, r, s[j], TRUE)) /\ w[j + 1] # Nil
    BY <1>2, <1>3, <2>1, <2>2, <2>3, NilAssumption, ZenonT(60) DEF Lists
  <2>5. j # Len(s) /\ w[j + 1] = Past(f, r, n, s[j + 1])
    BY <2>3, <2>4, NilAssumption DEF Past
  <2>6. j + 1 \in 1 .. Len(s) /\ s[j + 1] \in Under(f, r)
    <3>1. Len(s) \in Nat
      BY <1>2 DEF Lists
    <3>2. j + 1 \in 1 .. Len(s)
      BY <2>2, <2>5, <3>1
    <3> QED
      BY <1>2, <3>2 DEF Lists
  <2> QED
    BY <1>4, <2>5, <2>6 DEF Past
<1>7. ASSUME NEW j \in 1 .. Len(w) PROVE j \in 1 .. Len(s) /\ w[j] = s[j]
  <2>1. j \in Nat /\ j - 1 \in 0 .. j /\ (j - 1) + 1 = j
    OBVIOUS
  <2> HIDE DEF T
  <2>3. \A k \in 1 .. j : k - 1 \in T => k \in T
    BY <1>6
  <2>2. \A k \in 0 .. j : k \in T
    BY <1>5, <2>1, <2>3, UpTo
  <2> QED
    BY <2>1, <2>2 DEF T
<1> QED
  BY <1>7 DEF u, s, w


\* What an iterator has ahead of it are the places after those it has passed.
LEMMA AheadMeans ==
  ASSUME NEW f, Tree(f), NEW it, Placed(f, it), NEW s, s = Order(f, it.root)
  PROVE  /\ \A m \in 1 .. Len(s) : s[m] \in Members(Ahead(f, it)) <=> m > Passed(f, it)
         /\ \A k \in 1 .. Len(s) : it.current = s[k] =>
               Passed(f, it) = IF it.forward THEN k ELSE k - 1
<1> DEFINE a == Passed(f, it)
           h == Ahead(f, it)
<1>1. Lists(f, it.root, s)
  BY PositionIs DEF Placed
<1>2. /\ a \in 0 .. Len(s) /\ h \in Seq(Node) /\ Len(h) = Len(s) - a
      /\ \A j \in 1 .. Len(s) - a : h[j] = s[a + j]
  <2>1. Stands(f, it, s, a)
    BY PlaceIs
  <2> HIDE DEF a
  <2> QED
    BY <2>1 DEF Stands
<1>3. /\ Len(s) \in Nat
      /\ \A k \in 1 .. Len(s) : IndexOf(s, s[k]) = k /\ s[k] # Nil
  BY <1>1, NilAssumption DEF Lists
<1>4. ASSUME NEW k \in 1 .. Len(s), it.current = s[k]
      PROVE  Passed(f, it) = IF it.forward THEN k ELSE k - 1
  BY <1>3, <1>4 DEF Passed
<1> HIDE DEF a, h
<1>5. ASSUME NEW m \in 1 .. Len(s) PROVE s[m] \in Members(h) <=> m > a
  <2>1. ASSUME m > a PROVE s[m] \in Members(h)
    <3>1. m - a \in 1 .. Len(s) - a /\ a + (m - a) = m
      BY <1>2, <1>3, <2>1
    <3>2. m - a \in DOMAIN h /\ h[m - a] = s[m]
      BY <1>2, <3>1
    <3> QED
      BY <3>2 DEF Members
  <2>2. ASSUME s[m] \in Members(h) PROVE m > a
    <3>1. PICK j \in 1 .. Len(s) - a : h[j] = s[m]
      BY <1>2, <2>2 DEF Members
    <3>2. a + j \in 1 .. Len(s) /\ s[a + j] = s[m]
      BY <1>2, <1>3, <3>1
    <3>3. a + j = m
      BY <1>3, <3>2
    <3> QED
      BY <1>2, <3>3
  <2> QED
    BY <2>1, <2>2
<1> QED
  BY <1>4, <1>5 DEF a, h

\* w is s but for c nodes from place i on.
Kept(s, w, i, c) ==
  /\ i \in Nat /\ c \in Nat
  /\ \A j \in 1 .. Len(w) : Skip(i, c, j) \in 1 .. Len(s) /\ w[j] = s[Skip(i, c, j)]

LEMMA OrderKept ==
  ASSUME NEW f, Tree(f), NEW n \in Node, f.parent[n] # Nil, NEW r \in Node,
         NEW x \in Under(f, r) \ Under(f, n), NEW s, s = Order(f, r)
  PROVE  /\ n # r
         /\ \E i, c : Kept(s, Order(Unlink(f, n), r), i, c)
         /\ n \in Under(f, r) =>
              \E i, l : /\ Block(f, r, n, s, i, l)
                        /\ Kept(s, Order(Unlink(f, n), r), i, l - i + 1)
<1> DEFINE w == Order(Unlink(f, n), r)
<1>1. n # r
  OBVIOUS
<1>2. r \notin Under(f, n)
  <2>1. r \in Under(f, n) => Under(f, r) \subseteq Under(f, n)
    BY UnderInside
  <2> QED
    BY <2>1
<1>3. CASE n \in Under(f, r)
  <2>1. PICK i, l : Block(f, r, n, s, i, l)
    BY <1>1, <1>3, BlockIs
  <2>2. \A j \in 1 .. Len(w) : /\ Skip(i, l - i + 1, j) \in 1 .. Len(s)
                               /\ w[j] = s[Skip(i, l - i + 1, j)]
    BY <1>1, <2>1, OrderLess
  <2>3. i \in Nat /\ l - i + 1 \in Nat
    BY <2>1 DEF Block
  <2>4. Kept(s, w, i, l - i + 1)
    BY <2>2, <2>3 DEF Kept
  <2> QED
    BY <1>1, <2>1, <2>4
<1>4. CASE n \notin Under(f, r)
  <2>1. Under(f, r) \cap Under(f, n) = {}
    <3> DEFINE S == Under(f, r) \cap Under(f, n)
    <3> SUFFICES ASSUME S # {} PROVE FALSE
      OBVIOUS
    <3>1. PICK y \in S : f.parent[y] \notin S
      BY UnderIs DEF Tree, NoCycle
    <3> QED
      BY <1>2, <1>4, <3>1, UnderUp
  <2>2. \A j \in 1 .. Len(w) : j \in 1 .. Len(s) /\ w[j] = s[j]
    BY <1>1, <2>1, OrderSame
  <2>3. \A j \in 1 .. Len(w) : Skip(1, 0, j) = j
    BY DEF Skip
  <2>4. Kept(s, w, 1, 0)
    BY <2>2, <2>3 DEF Kept
  <2> QED
    BY <1>1, <1>4, <2>4
<1> QED
  BY <1>3, <1>4


LEMMA SkipGrows ==
  ASSUME NEW i \in Nat, NEW c \in Nat, NEW j \in Nat, NEW k \in Nat
  PROVE  Skip(i, c, j) > Skip(i, c, k) <=> j > k
BY DEF Skip

\* removeNode(n) leaves every node that stays on its side of the position.
LEMMA SidesKept ==
  ASSUME NEW f, Tree(f), NEW n \in Node, f.parent[n] # Nil,
         NEW it, it \in [root : Node, current : NodeOrNil, forward : BOOLEAN],
         Placed(f, it), it.current # Nil, NEW x \in Under(f, it.root) \ Under(f, n)
  PROVE  x \in Members(Ahead(f, it))
           <=> x \in Members(Ahead(Unlink(f, n), FixedUp(f, it, n)))
<1> DEFINE r == it.root
           u == Unlink(f, n)
           s == Order(f, r)
           w == Order(u, r)
           jt == FixedUp(f, it, n)
           a == Passed(f, it)
           b == Passed(u, jt)
           next == NextInTree(f, r, n, FALSE)
           prev == PreviousInTree(f, r, n)
<1>1. /\ Tree(u) /\ u.parent = [f.parent EXCEPT ![n] = Nil] /\ r \in Node
      /\ it.forward \in BOOLEAN
  BY UnlinkIs DEF Tree, Placed
<1>2. /\ jt = IF ~OnPath(f, it, n) THEN it
              ELSE IF it.forward THEN [it EXCEPT !.current = prev]
              ELSE IF next # Nil THEN [it EXCEPT !.current = next]
              ELSE [it EXCEPT !.current = prev, !.forward = TRUE]
      /\ Placed(u, jt) /\ jt.root = r
  <2>1. Placed(u, jt)
    BY <1>1, FixedUpPlaced
  <2>2. jt = IF ~OnPath(f, it, n) THEN it
             ELSE IF it.forward THEN [it EXCEPT !.current = prev]
             ELSE IF next # Nil THEN [it EXCEPT !.current = next]
             ELSE [it EXCEPT !.current = prev, !.forward = TRUE]
    BY DEF FixedUp
  <2> HIDE DEF prev, next
  <2> QED
    BY <2>1, <2>2
<1>3. Lists(f, r, s) /\ Lists(u, r, w)
  BY <1>1, PositionIs
<1>4. /\ \A m \in 1 .. Len(s) : s[m] \in Members(Ahead(f, it)) <=> m > a
      /\ \A k \in 1 .. Len(s) : it.current = s[k] => a = IF it.forward THEN k ELSE k - 1
  BY AheadMeans
<1>5. /\ \A m \in 1 .. Len(w) : w[m] \in Members(Ahead(u, jt)) <=> m > b
      /\ \A k \in 1 .. Len(w) : jt.current = w[k] => b = IF jt.forward THEN k ELSE k - 1
  <2> HIDE DEF u, jt
  <2>1. w = Order(u, jt.root)
    BY <1>2
  <2>2. Tree(u) /\ Placed(u, jt)
    BY <1>1, <1>2
  <2> HIDE DEF w
  <2> QED
    BY ONLY <2>1, <2>2, AheadMeans
<1>6. Under(f, r) \ Under(f, n) \subseteq Under(u, r)
  <2>1. Under(f, r) \subseteq Under(u, r) \cup Under(f, n)
    BY <1>1, UnderRest
  <2> QED
    BY <2>1
<1>7. /\ n # r
      /\ \E i, c : Kept(s, w, i, c)
      /\ n \in Under(f, r) => \E i, l : Block(f, r, n, s, i, l) /\ Kept(s, w, i, l - i + 1)
  BY <1>1, OrderKept
<1>8. OnPath(f, it, n) => n \in Under(f, r) /\ it.current \in Under(f, n)
  BY OnPathMeans
<1>9. ~OnPath(f, it, n) => it.current \in Under(u, r)
  BY <1>1, OnPathMeans
<1> DEFINE p == it.current
           q == jt.current
<1> HIDE DEF u, s, w, a, b, r
<1>10. PICK j \in 1 .. Len(w) : x = w[j]
  <2>1. x \in Under(u, r)
    BY <1>6 DEF r
  <2> QED
    BY <1>3, <2>1 DEF Lists
<1>11. ASSUME NEW i, NEW c, Kept(s, w, i, c), Skip(i, c, j) > a <=> j > b
       PROVE  x \in Members(Ahead(f, it)) <=> x \in Members(Ahead(u, jt))
  <2>1. Skip(i, c, j) \in 1 .. Len(s) /\ x = s[Skip(i, c, j)]
    BY <1>10, <1>11 DEF Kept
  <2> QED
    BY <1>4, <1>5, <1>10, <1>11, <2>1
<1>12. Len(s) \in Nat /\ Len(w) \in Nat
  BY <1>3 DEF Lists
<1>13. CASE ~OnPath(f, it, n)
  <2>1. PICK i, c : Kept(s, w, i, c)
    BY <1>7
  <2>2. PICK k \in 1 .. Len(w) : p = w[k]
    BY <1>3, <1>9, <1>13 DEF Lists
  <2>3. Skip(i, c, k) \in 1 .. Len(s) /\ p = s[Skip(i, c, k)] /\ i \in Nat /\ c \in Nat
    BY <2>1, <2>2 DEF Kept
  <2>4. a = IF it.forward THEN Skip(i, c, k) ELSE Skip(i, c, k) - 1
    BY <1>4, <2>3
  <2>5. b = IF it.forward THEN k ELSE k - 1
    <3>1. jt = it
      BY <1>2, <1>13
    <3> HIDE DEF jt
    <3> QED
      BY <1>5, <2>2, <3>1
  <2>6. Skip(i, c, j) > a <=> j > b
    <3>1. j \in Nat /\ k \in Nat
      BY <1>10, <2>2
    <3>2. Skip(i, c, j) > Skip(i, c, k) <=> j > k
      BY <2>3, <3>1, SkipGrows
    <3>3. Skip(i, c, k) > Skip(i, c, j) <=> k > j
      BY <2>3, <3>1, SkipGrows
    <3>4. Skip(i, c, j) \in Nat
      BY <2>1, <1>10 DEF Kept
    <3> QED
      BY <2>3, <2>4, <2>5, <3>1, <3>2, <3>3, <3>4
  <2> QED
    BY <1>11, <2>1, <2>6 DEF u
<1>14. CASE OnPath(f, it, n)
  <2>1. PICK i, l : Block(f, r, n, s, i, l) /\ Kept(s, w, i, l - i + 1)
    BY <1>7, <1>8, <1>14 DEF r
  <2>2. /\ i \in 2 .. Len(s) /\ l \in i .. Len(s)
        /\ \A m \in 1 .. Len(s) : s[m] \in Under(f, n) <=> m \in i .. l
        /\ next = IF l = Len(s) THEN Nil ELSE s[l + 1]
        /\ prev = s[i - 1]
    BY <2>1 DEF Block
  <2> DEFINE at(m) == Skip(i, l - i + 1, m)
  <2>3. /\ \A m \in 1 .. Len(w) : at(m) \in 1 .. Len(s) /\ w[m] = s[at(m)]
        /\ \A m \in 1 .. Len(w) : at(m) = IF m < i THEN m ELSE m + (l - i + 1)
    BY <2>1 DEF Kept, Skip
  <2> HIDE DEF at, next, prev, jt
  <2>4. a \in i - 1 .. l
    <3>1. PICK k \in 1 .. Len(s) : p = s[k]
      BY <1>3 DEF Placed, Lists, r
    <3>2. k \in i .. l
      BY <1>8, <1>14, <2>2, <3>1
    <3>3. a = k \/ a = k - 1
      BY <1>4, <3>1
    <3> QED
      BY <2>2, <3>2, <3>3
  <2>5. ASSUME NEW m \in 1 .. Len(s), m \notin i .. l, q = s[m]
        PROVE  \E k \in 1 .. Len(w) : q = w[k] /\ at(k) = m
    <3>1. \E k \in 1 .. Len(w) : q = w[k]
      <4>1. s[m] \in Under(f, r) \ Under(f, n)
        BY <1>3, <2>2, <2>5 DEF Lists
      <4> QED
        BY <1>3, <1>6, <2>5, <4>1 DEF Lists
    <3>2. PICK k \in 1 .. Len(w) : q = w[k]
      BY <3>1
    <3>3. at(k) \in 1 .. Len(s) /\ s[at(k)] = s[m]
      BY <2>3, <2>5, <3>2
    <3>4. IndexOf(s, s[at(k)]) = at(k) /\ IndexOf(s, s[m]) = m
      BY <1>3, <3>3 DEF Lists
    <3> QED
      BY <3>2, <3>3, <3>4
  <2>6. b = i - 1
    <3>1. CASE it.forward \/ next = Nil
      <4>1. q = prev /\ jt.forward
        BY <1>2, <1>14, <3>1
      <4>2. i - 1 \in 1 .. Len(s) /\ i - 1 \notin i .. l
        BY <2>2
      <4>3. PICK k \in 1 .. Len(w) : q = w[k] /\ at(k) = i - 1
        BY <2>2, <2>5, <4>1, <4>2
      <4>4. k = i - 1
        BY <2>2, <2>3, <4>3
      <4> QED
        BY <1>5, <4>1, <4>3, <4>4
    <3>2. CASE ~it.forward /\ next # Nil
      <4>1. q = next /\ ~jt.forward
        BY <1>2, <1>14, <3>2
      <4>2. l # Len(s) /\ next = s[l + 1]
        BY <2>2, <3>2
      <4>3. l + 1 \in 1 .. Len(s) /\ l + 1 \notin i .. l
        BY <1>12, <2>2, <4>2
      <4>4. PICK k \in 1 .. Len(w) : q = w[k] /\ at(k) = l + 1
        BY <2>5, <4>1, <4>2, <4>3
      <4>5. k = i
        BY <2>2, <2>3, <4>4
      <4> QED
        BY <1>5, <4>1, <4>4, <4>5
    <3> QED
      BY <3>1, <3>2
  <2>7. at(j) > a <=> j > b
    <3>1. at(j) = IF j < i THEN j ELSE j + (l - i + 1)
      BY <1>10, <2>3
    <3> QED
      BY <1>10, <2>2, <2>4, <2>6, <3>1
  <2> QED
    BY <1>11, <2>1, <2>7 DEF at, u, jt
<1> QED
  BY <1>13, <1>14 DEF u


\* Under the same conditions removing a node makes no iterator skip or repeat a
\* node: what stays in the tree stays ahead of the position or behind it,
\* whatever node is removed from whatever state (removeNode).
THEOREM RemovalsKeepPositions ==
  ASSUME "selfInsert" \notin Unguarded, ~RemoveUnstarted
  PROVE  IterSpec => []RemovalKeepsPosition
<1>1. IterInv /\ [IterNext]_ivars => IterInv'
  BY IterInvStep
<1>2. IterInv => RemovalKeepsPosition
  <2> SUFFICES ASSUME IterInv, NEW i \in Live(iter), iter[i].current # Nil,
                      NEW n \in Node, dom.parent[n] # Nil,
                      NEW x \in Under(dom, iter[i].root) \ Under(dom, n)
               PROVE  x \in Members(Ahead(dom, iter[i]))
                        <=> x \in Members(Ahead(Unlink(dom, n), FixedUp(dom, iter[i], n)))
    BY DEF RemovalKeepsPosition, Under
  <2>1. Tree(dom) /\ EachPlaced(dom, iter)
    BY DEF IterInv, TreeInv, TypeOK, ParentChildAgree, Acyclic, Tree
  <2>2. /\ iter[i] \in [root : Node, current : NodeOrNil, forward : BOOLEAN]
        /\ Placed(dom, iter[i])
    BY <2>1, LiveIs DEF EachPlaced, Iterators, Live
  <2> QED
    BY <2>1, <2>2, SidesKept
<1> QED
  BY <1>1, <1>2, IterInvInit, PTL DEF IterSpec
=============================================================================
