------------------------ MODULE SchemaDocumentsProofs ------------------------
(***************************************************************************)
(* Proofs about SchemaDocuments for any documents, namespaces and links,   *)
(* any group declarations, with and without multiple imports: that the     *)
(* traverser's nesting ends, and that no scope is given twice.             *)
(***************************************************************************)
EXTENDS SchemaDocuments, FiniteSetTheorems, SequenceTheorems, WellFoundedInduction, TLAPS

(* What there is. *)

Infos == Docs \X Namespaces

InfoRecords == [root : BOOLEAN, includes : Infos, imports : Seq(Infos), fProcessed : BOOLEAN]

Entries == [scope : Nat, info : Infos]

IsGrammar(g) == g \in [groups : [DOMAIN g.groups -> Entries], scopeCount : Nat]

AreGrammars(gr) ==
  /\ DOMAIN gr \subseteq Namespaces /\ gr = [ns \in DOMAIN gr |-> gr[ns]]
  /\ \A ns \in DOMAIN gr : IsGrammar(gr[ns])

Nodes == DOMAIN traverser.fPreprocessedNodes

Child(node) == traverser.fPreprocessedNodes[node]

IsTraverser(t) ==
  t \in [fSchemaInfo : Infos \cup {NoInfo}, fSchemaGrammar : Namespaces \cup {NoNS},
         fScopeCount : Nat, fImportedNSList : SUBSET Namespaces,
         fGlobalDeclarations : SUBSET (Namespaces \X GroupNames),
         fCurrentGroupStack : Seq(Namespaces \X GroupNames),
         fPreprocessedNodes : [DOMAIN t.fPreprocessedNodes -> Infos]]

Rounds ==
  [phase : {"preprocess", "process"}, info : Infos, from : Infos \cup {NoInfo},
   type : {"root", "include", "import"}, at : Nat \ {0}]

GroupCalls ==
  [phase : {"group"}, info : Infos, from : Infos, type : {"declaration", "include", "import"},
   at : Nat \ {0}, group : GroupNames, scope : Nat]

Frames == Rounds \cup GroupCalls

FilesOK == DOMAIN files \subseteq Docs /\ files \in [DOMAIN files -> Seq(Links)]

TablesOK ==
  /\ DOMAIN fSchemaInfoList \subseteq Infos
  /\ fSchemaInfoList \in [DOMAIN fSchemaInfoList -> InfoRecords]
  /\ DOMAIN includeLists \subseteq Infos /\ includeLists \in [DOMAIN includeLists -> Seq(Infos)]

TypesOK ==
  FilesOK /\ TablesOK /\ AreGrammars(grammars) /\ IsTraverser(traverser) /\ stack \in Seq(Frames)

Listed == DOMAIN fSchemaInfoList
-----------------------------------------------------------------------------
(* The invariant. *)

\* What an info refers to is there, and its list is of its namespace.
InfosKnown ==
  \A i \in Listed :
    /\ DocOf(i) \in DOMAIN files /\ NSOf(i) \in DOMAIN grammars
    /\ Info(i).includes \in DOMAIN includeLists /\ NSOf(Info(i).includes) = NSOf(i)
    /\ \A k \in DOMAIN Info(i).imports : Info(i).imports[k] \in Listed

\* Documents share a list of includes within one namespace only.
ListsOfOneNamespace ==
  \A o \in DOMAIN includeLists : \A k \in DOMAIN includeLists[o] :
    includeLists[o][k] \in Listed /\ NSOf(includeLists[o][k]) = NSOf(o)

\* An include or import that was followed joins two infos that are listed, an
\* include two of one namespace.
NodesKnown ==
  \A node \in Nodes :
    /\ node[1] \in Listed /\ Child(node) \in Listed
    /\ files[DocOf(node[1])][node[2]].kind # "import" => NSOf(Child(node)) = NSOf(node[1])

\* The includes and imports that were followed make no circle: of any infos, one
\* was not opened from any of them.
NodesAcyclic ==
  \A S \in SUBSET Infos : S # {} =>
    \E x \in S : \A node \in Nodes : Child(node) = x => node[1] \notin S

\* The running calls: the root at the bottom, rounds of one phase above it, each
\* opened from the one before; the second round goes where the first has been.
Calls ==
  \A k \in DOMAIN stack :
    /\ stack[k].info \in Listed
    /\ stack[k].type = "root" <=> k = 1
    /\ stack[k].phase # "group" => stack[k].phase = stack[1].phase
    /\ k > 1 => /\ stack[k].from = stack[k - 1].info
                /\ stack[k].type # "import" => NSOf(stack[k].info) = NSOf(stack[k].from)
                /\ stack[k].phase = "process" =>
                     \E node \in Nodes : node[1] = stack[k].from /\ Child(node) = stack[k].info

\* The traverser carries the info and the grammar of the call at the top.
AtTop ==
  stack # <<>> => traverser.fSchemaInfo = Top.info /\ CurrentNS = NSOf(Top.info)

\* The groups on fCurrentGroupStack are those of the calls at the top, each of them
\* once.
GroupsOpen(st, open) ==
  LET rounds == Len(st) - Len(open)
  IN  /\ rounds \in Nat
      /\ \A k \in DOMAIN st : st[k].phase = "group" <=> k > rounds
      /\ \A j \in DOMAIN open : open[j] = <<NSOf(st[rounds + j].info), st[rounds + j].group>>
      /\ \A j, l \in DOMAIN open : open[j] = open[l] => j = l

OpenGroups == GroupsOpen(stack, traverser.fCurrentGroupStack)

\* No document is read inside itself.
ReadOnce ==
  \A p, q \in DOMAIN stack :
    stack[p].phase = "preprocess" /\ stack[q].phase = "preprocess" /\ p # q =>
      stack[p].info # stack[q].info

\* The scope count of a grammar is carried by the traverser while it is at it.
CountIn(t, gr, ns) == IF ns = t.fSchemaGrammar THEN t.fScopeCount ELSE gr[ns].scopeCount

Count(ns) == IF stack = <<>> THEN grammars[ns].scopeCount ELSE CountIn(traverser, grammars, ns)

\* The groups of a grammar that have a scope: those that are done, those under way.
Registered(ns) == {<<n, Registry(ns)[n].scope>> : n \in DOMAIN Registry(ns)}

Begun(ns) ==
  {<<stack[p].group, stack[p].scope>> :
     p \in {q \in DOMAIN stack : stack[q].phase = "group" /\ NSOf(stack[q].info) = ns}}

\* The count of a grammar is above all its scopes, and they differ.
ScopesCounted ==
  \A ns \in DOMAIN grammars :
    /\ \A x \in Registered(ns) \cup Begun(ns) : x[2] < Count(ns)
    /\ \A x, y \in Registered(ns) \cup Begun(ns) : x[2] = y[2] => x = y

\* The inductive invariant.
SchemaInv ==
  /\ TypesOK /\ InfosKnown /\ ListsOfOneNamespace /\ NodesKnown /\ NodesAcyclic
  /\ Calls /\ AtTop /\ OpenGroups /\ ReadOnce /\ ScopesCounted
-----------------------------------------------------------------------------
(* Tables and lists. *)

\* Every set of natural numbers has a least element.
LEMMA LeastNatural ==
  ASSUME NEW T \in SUBSET Nat, T # {}
  PROVE  \E x \in T : \A y \in T : x <= y
<1> DEFINE R == OpToRel(<, Nat)
<1>1. IsWellFoundedOn(R, Nat)
  BY NatLessThanWellFounded
<1>2. \A x, y \in Nat : <<x, y>> \in R <=> x < y
  BY DEF OpToRel
<1> HIDE DEF R
<1>3. PICK x \in T : \A y \in T : ~(<<y, x>> \in R)
  BY <1>1, WFMin
<1>4. x \in Nat /\ \A y \in T : y \in Nat /\ ~(y < x)
  BY <1>2, <1>3
<1>5. \A y \in T : x <= y
  BY <1>4
<1> QED
  BY <1>5

\* In a finite set of positions there is an n-th for every n up to their number.
LEMMA NthIs ==
  ASSUME NEW l \in Nat, NEW K, \A k \in K : k \in 1 .. l, NEW n \in 1 .. Cardinality(K)
  PROVE  \E k \in K : Cardinality({j \in K : j <= k}) = n
<1> DEFINE upTo(k) == {j \in K : j <= k}
           c(k) == Cardinality(upTo(k))
           T == {k \in 0 .. l : n <= c(k)}
<1>1. IsFiniteSet(K) /\ Cardinality(K) \in Nat
  <2>1. K \in SUBSET (1 .. l) /\ IsFiniteSet(1 .. l)
    BY FS_Interval
  <2> QED
    BY <2>1, FS_Subset, FS_CardinalityType
<1>2. ASSUME NEW k \in Nat PROVE IsFiniteSet(upTo(k)) /\ c(k) \in Nat
  BY <1>1, FS_Subset, FS_CardinalityType
<1>3. upTo(l) = K /\ upTo(0) = {}
  OBVIOUS
<1>4. c(l) = Cardinality(K) /\ c(0) = 0
  BY <1>3, FS_EmptySet
<1>5. ASSUME NEW k \in 1 .. l
      PROVE  c(k) = c(k - 1) + IF k \in K THEN 1 ELSE 0
  <2>1. k - 1 \in Nat /\ k \notin upTo(k - 1)
    BY <1>5
  <2>2. IsFiniteSet(upTo(k - 1)) /\ c(k - 1) \in Nat
    BY <1>2, <2>1
  <2>3. upTo(k) = upTo(k - 1) \cup (IF k \in K THEN {k} ELSE {})
    OBVIOUS
  <2> HIDE DEF upTo
  <2>4. CASE k \in K
    BY <2>1, <2>2, <2>3, <2>4, FS_AddElement
  <2>5. CASE k \notin K
    <3>1. upTo(k) = upTo(k - 1)
      BY <2>3, <2>5
    <3> QED
      BY <2>2, <2>5, <3>1
  <2> QED
    BY <2>4, <2>5
<1> HIDE DEF c
<1>6. PICK k \in T : \A j \in T : k <= j
  <2>1. l \in T /\ T \in SUBSET Nat
    BY <1>1, <1>4
  <2> HIDE DEF T
  <2> QED
    BY <2>1, LeastNatural
<1>7. k \in 0 .. l /\ n <= c(k) /\ c(k) \in Nat /\ n \in Nat /\ n >= 1
  <2>1. k \in 0 .. l /\ n <= c(k)
    OBVIOUS
  <2>2. k \in Nat
    BY <2>1
  <2>3. c(k) \in Nat
    BY <1>2, <2>2
  <2>4. n \in Nat /\ n >= 1
    BY <1>1
  <2> QED
    BY <2>1, <2>3, <2>4
<1>8. k # 0
  BY <1>4, <1>7
<1>9. k - 1 \in 0 .. l /\ ~(n <= c(k - 1)) /\ c(k - 1) \in Nat
  <2>1. k - 1 \in 0 .. l /\ k - 1 \in Nat /\ ~(k <= k - 1)
    BY <1>7, <1>8
  <2>2. k - 1 \notin T
    BY <1>6, <2>1
  <2> QED
    BY <1>2, <2>1, <2>2
<1>10. k \in K /\ c(k) = n
  BY <1>5, <1>7, <1>8, <1>9
<1> QED
  BY <1>10 DEF c

\* What t has and s has not is taken from t.
LEMMA MissingIs ==
  ASSUME NEW S, NEW s, NEW t \in Seq(S)
  PROVE  /\ Missing(s, t) \in Seq(S)
         /\ \A n \in DOMAIN Missing(s, t) : \E k \in DOMAIN t : Missing(s, t)[n] = t[k]
<1> DEFINE lacking == {k \in DOMAIN t : ~Contains(s, t[k])}
           nth(n) == CHOOSE k \in lacking : Cardinality({j \in lacking : j <= k}) = n
           m == Missing(s, t)
<1>1. \A k \in lacking : k \in 1 .. Len(t)
  OBVIOUS
<1>2. Len(t) \in Nat /\ DOMAIN t = 1 .. Len(t)
  OBVIOUS
<1>3. m = [n \in 1 .. Cardinality(lacking) |-> t[nth(n)]]
  BY DEF Missing
<1> HIDE DEF m, lacking
<1>4. Cardinality(lacking) \in Nat
  <2>1. lacking \in SUBSET (1 .. Len(t)) /\ IsFiniteSet(1 .. Len(t))
    BY <1>1, <1>2, FS_Interval
  <2> QED
    BY <2>1, FS_Subset, FS_CardinalityType
<1>5. ASSUME NEW n \in 1 .. Cardinality(lacking) PROVE nth(n) \in 1 .. Len(t)
  <2>1. \E k \in lacking : Cardinality({j \in lacking : j <= k}) = n
    BY <1>1, <1>2, NthIs
  <2>2. nth(n) \in lacking
    BY <2>1
  <2> HIDE DEF nth
  <2> QED
    BY <1>1, <2>2
<1> HIDE DEF nth
<1>6. m \in Seq(S) /\ DOMAIN m = 1 .. Cardinality(lacking)
  BY <1>2, <1>3, <1>4, <1>5
<1> QED
  BY <1>2, <1>3, <1>5, <1>6 DEF m
-----------------------------------------------------------------------------
(* What the searches find. *)

\* The infos of s are known, and all of namespace ns.
Fit(s, ns) == \A k \in DOMAIN s : s[k] \in Listed /\ NSOf(s[k]) = ns

LEMMA LinkIs ==
  ASSUME TypesOK, InfosKnown, Calls, NEW phase, AtLink(phase)
  PROVE  /\ NextLink \in Links
         /\ NextLink.kind = "include" => NextLink.doc \in Docs
         /\ NextLink.kind # "include" => /\ NextLink.kind = "import" /\ NextLink.ns \in Namespaces
                                         /\ NextLink.doc \in Docs \cup {NoSource}
<1>1. stack # <<>> /\ stack \in Seq(Frames) /\ Top.at <= Len(files[DocOf(Top.info)])
  BY DEF AtLink, Running, TypesOK, FilesOK, TablesOK, Frames
<1>2. Top \in Frames /\ Top = stack[Len(stack)] /\ Len(stack) \in DOMAIN stack
  BY <1>1 DEF Top
<1>3. Top.info \in Listed /\ Top.at \in Nat \ {0}
  BY <1>2 DEF Calls, Frames, Rounds, GroupCalls
<1>4. files[DocOf(Top.info)] \in Seq(Links)
  BY <1>3 DEF InfosKnown, TypesOK, FilesOK, TablesOK
<1>5. NextLink \in Links
  BY <1>1, <1>3, <1>4 DEF NextLink
<1>6. NextLink \in [kind : {"include"}, doc : Docs]
                   \cup [kind : {"import"}, ns : Namespaces, doc : Docs \cup {NoSource}]
  BY <1>5, SchemaDocumentsAssumption
<1> QED
  BY <1>5, <1>6

LEMMA DeclaringIs ==
  ASSUME TypesOK, InfosKnown, ListsOfOneNamespace, NEW i \in Listed, NEW name,
         NEW x \in Declaring(i, name)
  PROVE  x \in Listed /\ NSOf(x) = NSOf(i) /\ name \in GroupNames
<1> DEFINE s == <<i>> \o IncludesOf(i)
<1>1. IncludesOf(i) \in Seq(Infos) /\ Fit(IncludesOf(i), NSOf(i)) /\ i \in Infos
  BY DEF IncludesOf, InfosKnown, TypesOK, FilesOK, TablesOK, ListsOfOneNamespace, Fit, Listed
<1>2. PICK k \in DOMAIN s : x = s[k] /\ Contains(Declares[DocOf(x)], name)
  BY DEF Declaring, FirstOf, Declarers
<1>3. Fit(s, NSOf(i))
  <2>1. ASSUME NEW j \in DOMAIN s PROVE s[j] = i \/ \E n \in DOMAIN IncludesOf(i) : s[j] = IncludesOf(i)[n]
    BY <1>1
  <2> QED
    BY <1>1, <2>1 DEF Fit
<1> HIDE DEF s
<1>4. x \in Listed /\ NSOf(x) = NSOf(i)
  BY <1>2, <1>3 DEF Fit
<1>5. DocOf(x) \in Docs
  BY <1>4 DEF Listed, TypesOK, FilesOK, TablesOK, Infos, DocOf
<1>6. name \in ToSet(Declares[DocOf(x)])
  BY <1>2 DEF Contains, ToSet
<1> QED
  BY <1>4, <1>5, <1>6 DEF GroupNames

LEMMA ImportInfoIs ==
  ASSUME InfosKnown, traverser.fSchemaInfo \in Listed, NEW ns, NEW i \in ImportInfo(ns)
  PROVE  i \in Listed /\ NSOf(i) = ns
BY DEF InfosKnown, ImportInfo, FirstOf

\* An include of a document that is known joins two lists of one namespace.
LEMMA MergedIs ==
  ASSUME TypesOK, InfosKnown, ListsOfOneNamespace, NEW own \in DOMAIN includeLists,
         NEW i \in Listed, NSOf(i) = NSOf(own)
  PROVE  /\ Merged(own, i) \in [DOMAIN includeLists -> Seq(Infos)]
         /\ \A o \in DOMAIN includeLists : Fit(Merged(own, i)[o], NSOf(o))
<1> DEFINE theirs == Info(i).includes
           added == Append(includeLists[own], i)
           mine == added \o Missing(added, includeLists[theirs])
           more == includeLists[theirs] \o Missing(includeLists[theirs], mine)
<1>1. /\ theirs \in DOMAIN includeLists /\ NSOf(theirs) = NSOf(own) /\ i \in Infos
      /\ includeLists \in [DOMAIN includeLists -> Seq(Infos)]
      /\ \A o \in DOMAIN includeLists : Fit(includeLists[o], NSOf(o))
  BY DEF InfosKnown, TypesOK, FilesOK, TablesOK, Listed, ListsOfOneNamespace, Fit
<1>2. ASSUME NEW s \in Seq(Infos), NEW t \in Seq(Infos), NEW u, Fit(s, NSOf(own)), Fit(t, NSOf(own))
      PROVE  s \o Missing(u, t) \in Seq(Infos) /\ Fit(s \o Missing(u, t), NSOf(own))
  <2> DEFINE m == Missing(u, t)
  <2>1. m \in Seq(Infos) /\ \A n \in DOMAIN m : \E k \in DOMAIN t : m[n] = t[k]
    BY MissingIs
  <2> HIDE DEF m
  <2>2. Fit(m, NSOf(own))
    BY <1>2, <2>1 DEF Fit
  <2>3. \A k \in DOMAIN (s \o m) :
          \/ (s \o m)[k] = s[k] /\ k \in DOMAIN s
          \/ \E n \in DOMAIN m : (s \o m)[k] = m[n]
    BY <2>1
  <2>4. s \o m \in Seq(Infos) /\ Fit(s \o m, NSOf(own))
    BY <1>2, <2>1, <2>2, <2>3 DEF Fit
  <2> QED
    BY <2>4 DEF m
<1>3. added \in Seq(Infos) /\ Fit(added, NSOf(own))
  <2>1. /\ added \in Seq(Infos)
        /\ \A k \in DOMAIN added :
              \/ added[k] = i
              \/ k \in DOMAIN includeLists[own] /\ added[k] = includeLists[own][k]
    <3>1. includeLists[own] \in Seq(Infos)
      BY <1>1
    <3> QED
      BY <1>1, <3>1
  <2> HIDE DEF added
  <2> QED
    BY <1>1, <2>1 DEF Fit
<1> HIDE DEF added
<1>4. mine \in Seq(Infos) /\ Fit(mine, NSOf(own))
  BY <1>1, <1>2, <1>3
<1> HIDE DEF mine
<1>5. more \in Seq(Infos) /\ Fit(more, NSOf(own))
  BY <1>1, <1>2, <1>4
<1>6. Merged(own, i) = IF Contains(includeLists[own], i) THEN includeLists
                       ELSE IF theirs = own THEN [includeLists EXCEPT ![own] = added]
                       ELSE [includeLists EXCEPT ![own] = mine, ![theirs] = more]
  BY <1>1 DEF Merged, added, mine
<1> HIDE DEF theirs, more
<1> QED
  BY <1>1, <1>3, <1>4, <1>5, <1>6
-----------------------------------------------------------------------------
(* The calls. *)

\* A call that has gone on, but stands for the same document or group.
Like(f, g) ==
  /\ g.phase = f.phase /\ g.info = f.info /\ g.from = f.from /\ g.type = f.type
  /\ f.phase = "group" => g.group = f.group /\ g.scope = f.scope

\* The call at the top has gone on to n.
GoneOn(n) == Append(Below, [Top EXCEPT !.at = n])

LEMMA TopIs ==
  ASSUME TypesOK, stack # <<>>
  PROVE  /\ stack \in Seq(Frames) /\ Len(stack) \in Nat \ {0} /\ Len(stack) \in DOMAIN stack
         /\ Top = stack[Len(stack)] /\ Top \in Frames /\ Top.at \in Nat \ {0}
         /\ Top.info \in Infos
BY DEF TypesOK, FilesOK, TablesOK, Frames, Top, Rounds, GroupCalls

LEMMA PrefixIs ==
  ASSUME NEW S, NEW s \in Seq(S), NEW l \in 0 .. Len(s)
  PROVE  /\ SubSeq(s, 1, l) \in Seq(S) /\ Len(SubSeq(s, 1, l)) = l
         /\ \A k \in 1 .. l : SubSeq(s, 1, l)[k] = s[k]
OBVIOUS

LEMMA BelowIs ==
  ASSUME TypesOK, stack # <<>>
  PROVE  /\ Below \in Seq(Frames) /\ Len(Below) = Len(stack) - 1
         /\ \A k \in 1 .. Len(stack) - 1 : Below[k] = stack[k]
<1>1. stack \in Seq(Frames) /\ Len(stack) - 1 \in 0 .. Len(stack)
  BY TopIs
<1>2. Below = SubSeq(stack, 1, Len(stack) - 1)
  BY DEF Below, Front
<1> QED
  BY <1>1, <1>2, PrefixIs

LEMMA GoneOnIs ==
  ASSUME TypesOK, stack # <<>>, NEW n \in Nat \ {0}
  PROVE  /\ GoneOn(n) \in Seq(Frames) /\ Len(GoneOn(n)) = Len(stack)
         /\ \A k \in DOMAIN stack : Like(stack[k], GoneOn(n)[k])
<1> DEFINE f == [Top EXCEPT !.at = n]
<1>1. stack \in Seq(Frames) /\ Len(stack) \in Nat \ {0} /\ Top = stack[Len(stack)] /\ Top \in Frames
  BY TopIs
<1>2. f \in Frames /\ Like(Top, f)
  BY <1>1 DEF Frames, Rounds, GroupCalls, Like
<1>3. /\ Below \in Seq(Frames) /\ Len(Below) = Len(stack) - 1
      /\ \A k \in 1 .. Len(stack) - 1 : Below[k] = stack[k]
  BY BelowIs
<1>4. GoneOn(n) = Append(Below, f)
  BY DEF GoneOn
<1> HIDE DEF f
<1>5. GoneOn(n) \in Seq(Frames) /\ Len(GoneOn(n)) = Len(stack)
  BY <1>1, <1>2, <1>3, <1>4
<1>6. ASSUME NEW k \in DOMAIN stack PROVE Like(stack[k], GoneOn(n)[k])
  <2>1. CASE k = Len(stack)
    BY <1>1, <1>2, <1>3, <1>4, <2>1
  <2>2. CASE k # Len(stack)
    <3>1. GoneOn(n)[k] = stack[k]
      BY <1>1, <1>2, <1>3, <1>4, <2>2
    <3> QED
      BY <3>1 DEF Like
  <2> QED
    BY <2>1, <2>2
<1> QED
  BY <1>5, <1>6

LEMMA AdvancedIs == Advanced = GoneOn(Top.at + 1)
BY DEF Advanced, GoneOn
-----------------------------------------------------------------------------
(* What a turn of the calls keeps: one goes on, a round or a group is begun,   *)
(* one returns.                                                                *)

NodesKept == \A node \in Nodes : node \in Nodes' /\ Child(node)' = Child(node)

CallsSound == TypesOK /\ Calls /\ OpenGroups /\ ReadOnce

LEMMA PhaseIs ==
  ASSUME CallsSound, stack # <<>>
  PROVE  /\ Top.phase = "group" <=> traverser.fCurrentGroupStack # <<>>
         /\ Top.phase # "group" => /\ \A k \in DOMAIN stack : stack[k].phase = Top.phase
                                   /\ \A ns : Begun(ns) = {}
         /\ traverser.fCurrentGroupStack \in Seq(Namespaces \X GroupNames)
<1> DEFINE open == traverser.fCurrentGroupStack
           rounds == Len(stack) - Len(open)
<1>1. open \in Seq(Namespaces \X GroupNames)
  BY DEF CallsSound, TypesOK, FilesOK, TablesOK, IsTraverser
<1>2. rounds \in Nat /\ \A k \in DOMAIN stack : stack[k].phase = "group" <=> k > rounds
  BY DEF CallsSound, OpenGroups, GroupsOpen
<1>3. Len(stack) \in Nat \ {0} /\ Len(stack) \in DOMAIN stack /\ Top = stack[Len(stack)]
      /\ DOMAIN stack = 1 .. Len(stack)
  BY TopIs DEF CallsSound
<1>4. Top.phase = "group" <=> Len(open) > 0
  BY <1>1, <1>2, <1>3
<1>5. Len(open) > 0 <=> open # <<>>
  BY <1>1
<1>6. ASSUME Top.phase # "group", NEW k \in DOMAIN stack
      PROVE  stack[k].phase # "group" /\ stack[k].phase = Top.phase
  <2>1. ~(k > rounds)
    BY <1>1, <1>2, <1>3, <1>4, <1>6
  <2>2. stack[k].phase # "group"
    BY <1>2, <2>1
  <2> QED
    BY <1>3, <1>6, <2>2 DEF CallsSound, Calls
<1>7. Top.phase # "group" => \A ns : Begun(ns) = {}
  BY <1>6 DEF Begun
<1> QED
  BY <1>1, <1>4, <1>5, <1>6, <1>7

\* The calls there were, gone on or not, still stand right.
LEMMA CallsStand ==
  ASSUME CallsSound, stack' \in Seq(Frames),
         NEW l \in Nat, l <= Len(stack), l <= Len(stack'),
         \A k \in 1 .. l : Like(stack[k], stack'[k]),
         Listed \subseteq Listed',
         stack # <<>> => stack[1].phase = "preprocess" \/ NodesKept
  PROVE  \A k \in 1 .. l :
           /\ stack'[k].info \in Listed'
           /\ stack'[k].type = "root" <=> k = 1
           /\ stack'[k].phase # "group" => stack'[k].phase = stack'[1].phase
           /\ k > 1 => /\ stack'[k].from = stack'[k - 1].info
                       /\ stack'[k].type # "import" => NSOf(stack'[k].info) = NSOf(stack'[k].from)
                       /\ stack'[k].phase = "process" =>
                            \E node \in Nodes' : node[1] = stack'[k].from /\ Child(node)' = stack'[k].info
<1> TAKE k \in 1 .. l
<1>1. k \in DOMAIN stack /\ stack # <<>> /\ 1 \in 1 .. l /\ Len(stack) \in Nat
  BY DEF CallsSound, TypesOK, FilesOK, TablesOK
<1>2. Like(stack[k], stack'[k]) /\ Like(stack[1], stack'[1])
  BY <1>1
<1>3. /\ stack[k].info \in Listed
      /\ stack[k].type = "root" <=> k = 1
      /\ stack[k].phase # "group" => stack[k].phase = stack[1].phase
  BY <1>1 DEF CallsSound, Calls
<1>4. /\ stack'[k].info \in Listed'
      /\ stack'[k].type = "root" <=> k = 1
      /\ stack'[k].phase # "group" => stack'[k].phase = stack'[1].phase
  BY <1>2, <1>3 DEF Like
<1>5. ASSUME k > 1
      PROVE  /\ stack'[k].from = stack'[k - 1].info
             /\ stack'[k].type # "import" => NSOf(stack'[k].info) = NSOf(stack'[k].from)
             /\ stack'[k].phase = "process" =>
                  \E node \in Nodes' : node[1] = stack'[k].from /\ Child(node)' = stack'[k].info
  <2>1. k - 1 \in 1 .. l
    BY <1>5
  <2>2. Like(stack[k - 1], stack'[k - 1])
    BY <2>1
  <2>3. /\ stack[k].from = stack[k - 1].info
        /\ stack[k].type # "import" => NSOf(stack[k].info) = NSOf(stack[k].from)
        /\ stack[k].phase = "process" =>
             \E node \in Nodes : node[1] = stack[k].from /\ Child(node) = stack[k].info
    BY <1>1, <1>5 DEF CallsSound, Calls
  <2>4. ASSUME stack'[k].phase = "process"
        PROVE  \E node \in Nodes' : node[1] = stack'[k].from /\ Child(node)' = stack'[k].info
    <3>1. stack[k].phase = "process" /\ stack[1].phase # "preprocess"
      BY <1>2, <1>3, <2>4 DEF Like
    <3>2. PICK node \in Nodes : node[1] = stack[k].from /\ Child(node) = stack[k].info
      BY <2>3, <3>1
    <3>3. NodesKept
      BY <1>1, <3>1
    <3>4. node \in Nodes' /\ Child(node)' = Child(node)
      BY <3>3 DEF NodesKept
    <3> QED
      BY <1>2, <3>2, <3>4 DEF Like
  <2> QED
    BY <1>2, <2>2, <2>3, <2>4 DEF Like
<1> QED
  BY <1>4, <1>5

LEMMA GoesOn ==
  ASSUME CallsSound, stack # <<>>, NEW n \in Nat \ {0}, stack' = GoneOn(n),
         Listed \subseteq Listed', stack[1].phase = "preprocess" \/ NodesKept,
         traverser'.fCurrentGroupStack = traverser.fCurrentGroupStack
  PROVE  /\ stack' \in Seq(Frames) /\ stack' # <<>> /\ Top'.info = Top.info
         /\ Calls' /\ OpenGroups' /\ ReadOnce' /\ \A ns : Begun(ns)' = Begun(ns)
<1>1. /\ stack' \in Seq(Frames) /\ Len(stack') = Len(stack) /\ Len(stack) \in Nat \ {0}
      /\ DOMAIN stack = 1 .. Len(stack) /\ DOMAIN stack' = DOMAIN stack
      /\ \A k \in DOMAIN stack : Like(stack[k], stack'[k])
  BY GoneOnIs, TopIs DEF CallsSound
<1>2. stack' # <<>> /\ Top'.info = Top.info
  BY <1>1, TopIs DEF Top, Like
<1>3. Calls'
  <2>1. Len(stack) \in Nat /\ Len(stack) <= Len(stack') /\ Len(stack) <= Len(stack)
    BY <1>1
  <2> QED
    BY <1>1, <2>1, CallsStand DEF Calls
<1>4. OpenGroups'
  BY <1>1 DEF CallsSound, OpenGroups, GroupsOpen, Like
<1>5. ReadOnce'
  BY <1>1 DEF CallsSound, ReadOnce, Like
<1>6. \A ns : Begun(ns)' = Begun(ns)
  BY <1>1 DEF Begun, Like
<1> QED
  BY <1>1, <1>2, <1>3, <1>4, <1>5, <1>6

\* A call on top of the others.
LEMMA CallBegins ==
  ASSUME CallsSound, stack # <<>>, NEW n \in Nat \ {0}, NEW f \in Frames,
         stack' = Append(GoneOn(n), f), Listed \subseteq Listed',
         stack[1].phase = "preprocess" \/ NodesKept,
         f.info \in Listed', f.type # "root", f.from = Top.info,
         f.type # "import" => NSOf(f.info) = NSOf(f.from),
         f.phase # "group" => f.phase = Top.phase,
         f.phase = "process" =>
           \E node \in Nodes' : node[1] = f.from /\ Child(node)' = f.info
  PROVE  /\ stack' \in Seq(Frames) /\ stack' # <<>> /\ Top' = f /\ Calls'
         /\ Len(stack') = Len(stack) + 1 /\ stack'[Len(stack) + 1] = f
         /\ \A k \in DOMAIN stack : Like(stack[k], stack'[k])
<1>1. /\ GoneOn(n) \in Seq(Frames) /\ Len(GoneOn(n)) = Len(stack) /\ Len(stack) \in Nat \ {0}
      /\ \A k \in DOMAIN stack : Like(stack[k], GoneOn(n)[k])
      /\ Top = stack[Len(stack)] /\ DOMAIN stack = 1 .. Len(stack)
  BY GoneOnIs, TopIs DEF CallsSound
<1>2. /\ stack' \in Seq(Frames) /\ Len(stack') = Len(stack) + 1 /\ stack'[Len(stack) + 1] = f
      /\ \A k \in DOMAIN stack : stack'[k] = GoneOn(n)[k]
  BY <1>1
<1>3. \A k \in DOMAIN stack : Like(stack[k], stack'[k])
  BY <1>1, <1>2
<1>4. stack' # <<>> /\ Top' = f
  BY <1>1, <1>2 DEF Top
<1>5. \A k \in 1 .. Len(stack) :
        /\ stack'[k].info \in Listed'
        /\ stack'[k].type = "root" <=> k = 1
        /\ stack'[k].phase # "group" => stack'[k].phase = stack'[1].phase
        /\ k > 1 => /\ stack'[k].from = stack'[k - 1].info
                    /\ stack'[k].type # "import" => NSOf(stack'[k].info) = NSOf(stack'[k].from)
                    /\ stack'[k].phase = "process" =>
                         \E node \in Nodes' : node[1] = stack'[k].from /\ Child(node)' = stack'[k].info
  <2>1. Len(stack) \in Nat /\ Len(stack) <= Len(stack') /\ Len(stack) <= Len(stack)
    BY <1>1, <1>2
  <2>2. \A k \in 1 .. Len(stack) : Like(stack[k], stack'[k])
    BY <1>1, <1>3
  <2> QED
    BY <1>2, <2>1, <2>2, CallsStand
<1>6. stack'[Len(stack)].info = Top.info
  BY <1>1, <1>3 DEF Like
<1>7. f.phase # "group" => f.phase = stack'[1].phase
  <2> SUFFICES ASSUME f.phase # "group" PROVE f.phase = stack'[1].phase
    OBVIOUS
  <2>1. Top.phase = f.phase /\ Top.phase # "group"
    OBVIOUS
  <2>2. stack[Len(stack)].phase = stack[1].phase
    BY <1>1, <2>1 DEF CallsSound, Calls
  <2> QED
    BY <1>1, <1>3, <2>1, <2>2 DEF Like
<1>8. Calls'
  <2> SUFFICES ASSUME NEW k \in 1 .. Len(stack) + 1
               PROVE  /\ stack'[k].info \in Listed'
                      /\ stack'[k].type = "root" <=> k = 1
                      /\ stack'[k].phase # "group" => stack'[k].phase = stack'[1].phase
                      /\ k > 1 =>
                           /\ stack'[k].from = stack'[k - 1].info
                           /\ stack'[k].type # "import" => NSOf(stack'[k].info) = NSOf(stack'[k].from)
                           /\ stack'[k].phase = "process" =>
                                \E node \in Nodes' : node[1] = stack'[k].from
                                                     /\ Child(node)' = stack'[k].info
    BY <1>2 DEF Calls
  <2>1. CASE k = Len(stack) + 1
    <3>1. stack'[k] = f /\ k > 1 /\ k - 1 = Len(stack) /\ k # 1
      BY <1>1, <1>2, <2>1
    <3>2. stack'[k - 1].info = f.from
      BY <1>6, <3>1
    <3>3. stack'[k].phase # "group" => stack'[k].phase = stack'[1].phase
      BY <1>7, <3>1
    <3>4. stack'[k].info \in Listed' /\ stack'[k].type # "root"
      BY <3>1
    <3>5. stack'[k].phase = "process" =>
            \E node \in Nodes' : node[1] = stack'[k].from /\ Child(node)' = stack'[k].info
      BY <3>1
    <3>6. stack'[k].type # "import" => NSOf(stack'[k].info) = NSOf(stack'[k].from)
      BY <3>1
    <3>7. stack'[k].from = stack'[k - 1].info
      BY <3>1, <3>2
    <3> QED
      BY <3>1, <3>3, <3>4, <3>5, <3>6, <3>7
  <2>2. CASE k # Len(stack) + 1
    <3>1. k \in 1 .. Len(stack)
      BY <1>1, <2>2
    <3> QED
      BY <1>5, <3>1
  <2> QED
    BY <2>1, <2>2
<1> QED
  BY <1>2, <1>3, <1>4, <1>8

LEMMA RoundBegins ==
  ASSUME CallsSound, stack # <<>>, NEW n \in Nat \ {0}, NEW f \in Rounds,
         stack' = Append(GoneOn(n), f), Listed \subseteq Listed',
         stack[1].phase = "preprocess" \/ NodesKept,
         f.info \in Listed', f.type # "root", f.from = Top.info,
         f.type # "import" => NSOf(f.info) = NSOf(f.from), f.phase = Top.phase,
         f.phase = "process" =>
           \E node \in Nodes' : node[1] = f.from /\ Child(node)' = f.info,
         f.phase = "preprocess" => f.info \notin Listed,
         traverser'.fCurrentGroupStack = traverser.fCurrentGroupStack
  PROVE  /\ stack' \in Seq(Frames) /\ stack' # <<>> /\ Top' = f
         /\ Calls' /\ OpenGroups' /\ ReadOnce' /\ \A ns : Begun(ns)' = Begun(ns)
<1>1. f \in Frames /\ f.phase # "group" /\ Len(stack) \in Nat
  BY TopIs DEF Frames, Rounds, CallsSound
<1>2. /\ stack' \in Seq(Frames) /\ stack' # <<>> /\ Top' = f /\ Calls'
      /\ Len(stack') = Len(stack) + 1 /\ stack'[Len(stack) + 1] = f
      /\ \A k \in DOMAIN stack : Like(stack[k], stack'[k])
  BY <1>1, CallBegins
<1>3. /\ DOMAIN stack' = 1 .. Len(stack) + 1 /\ DOMAIN stack = 1 .. Len(stack)
      /\ \A k \in DOMAIN stack' : \/ k \in DOMAIN stack /\ Like(stack[k], stack'[k])
                                  \/ k = Len(stack) + 1 /\ k \notin DOMAIN stack /\ stack'[k] = f
  <2>1. DOMAIN stack' = 1 .. Len(stack) + 1 /\ DOMAIN stack = 1 .. Len(stack)
    BY <1>2 DEF CallsSound, TypesOK, FilesOK, TablesOK
  <2> QED
    BY <1>1, <1>2, <2>1
<1>4. /\ traverser.fCurrentGroupStack = <<>>
      /\ \A k \in DOMAIN stack : stack[k].phase # "group"
      /\ \A ns : Begun(ns) = {}
  BY <1>1, PhaseIs
<1>5. \A k \in DOMAIN stack' : stack'[k].phase # "group"
  BY <1>1, <1>3, <1>4 DEF Like
<1>6. OpenGroups'
  <2> DEFINE open2 == traverser'.fCurrentGroupStack
  <2>1. Len(open2) = 0 /\ DOMAIN open2 = {}
    BY <1>4
  <2> HIDE DEF open2
  <2>2. \A k \in DOMAIN stack' : ~(k > Len(stack'))
    BY <1>1, <1>2, <1>3
  <2>3. Len(stack') - Len(open2) = Len(stack') /\ Len(stack') \in Nat
    BY <1>1, <1>2, <2>1
  <2>4. GroupsOpen(stack', open2)
    BY <1>5, <2>1, <2>2, <2>3 DEF GroupsOpen
  <2> QED
    BY <2>4 DEF OpenGroups, open2
<1>7. \A ns : Begun(ns)' = {}
  BY <1>5 DEF Begun
<1>8. ReadOnce'
  <2> SUFFICES ASSUME NEW p \in DOMAIN stack', NEW q \in DOMAIN stack',
                      stack'[p].phase = "preprocess", stack'[q].phase = "preprocess",
                      p \in DOMAIN stack, p # q, stack'[p].info = stack'[q].info
               PROVE  FALSE
    BY <1>3 DEF ReadOnce
  <2>1. stack[p].phase = "preprocess" /\ stack[p].info = stack'[p].info
    BY <1>2 DEF Like
  <2>2. stack[p].info \in Listed
    BY DEF CallsSound, Calls
  <2>3. CASE q \in DOMAIN stack
    <3>1. stack[q].phase = "preprocess" /\ stack[q].info = stack'[q].info
      BY <1>2, <2>3 DEF Like
    <3> QED
      BY <2>1, <2>3, <3>1 DEF CallsSound, ReadOnce
  <2>4. CASE stack'[q] = f
    BY <2>1, <2>2, <2>4
  <2> QED
    BY <1>3, <2>3, <2>4
<1> QED
  BY <1>2, <1>4, <1>6, <1>7, <1>8

LEMMA AppendNew ==
  ASSUME NEW T, NEW s \in Seq(T), NEW e \in T, ~Contains(s, e),
         \A j, l \in DOMAIN s : s[j] = s[l] => j = l
  PROVE  \A j, l \in DOMAIN Append(s, e) : Append(s, e)[j] = Append(s, e)[l] => j = l
<1>1. \A j \in DOMAIN s : s[j] # e
  BY DEF Contains
<1> QED
  BY <1>1

\* A group is begun, or the last that was begun is done, however that comes about.
LEMMA OneMoreOpen ==
  ASSUME NEW S, NEW T, NEW st \in Seq(S), NEW st2 \in Seq(S), NEW open \in Seq(T), NEW f,
         NEW full \in T, GroupsOpen(st, open), Len(st2) = Len(st) + 1, st2[Len(st) + 1] = f,
         \A k \in DOMAIN st : Like(st[k], st2[k]), f.phase = "group",
         full = <<NSOf(f.info), f.group>>, ~Contains(open, full)
  PROVE  GroupsOpen(st2, Append(open, full))
<1> DEFINE rounds == Len(st) - Len(open)
           open2 == Append(open, full)
<1>1. /\ rounds \in Nat /\ Len(st) \in Nat /\ Len(open) \in Nat
      /\ DOMAIN st = 1 .. Len(st) /\ DOMAIN st2 = 1 .. Len(st) + 1 /\ DOMAIN open = 1 .. Len(open)
      /\ Len(open2) = Len(open) + 1 /\ DOMAIN open2 = 1 .. Len(open) + 1
      /\ \A j \in DOMAIN open : open2[j] = open[j]
      /\ open2[Len(open) + 1] = full
  BY DEF GroupsOpen
<1>2. /\ \A k \in DOMAIN st : st[k].phase = "group" <=> k > rounds
      /\ \A j \in DOMAIN open : open[j] = <<NSOf(st[rounds + j].info), st[rounds + j].group>>
      /\ \A j, l \in DOMAIN open : open[j] = open[l] => j = l
  BY DEF GroupsOpen
<1>3. \A j, l \in DOMAIN open2 : open2[j] = open2[l] => j = l
  BY <1>2, AppendNew
<1>4. Len(st2) - Len(open2) = rounds
  BY <1>1
<1>5. rounds + Len(open) = Len(st)
  BY <1>1
<1> HIDE DEF rounds, open2
<1>6. ASSUME NEW k \in DOMAIN st2 PROVE st2[k].phase = "group" <=> k > rounds
  <2>1. CASE k \in DOMAIN st
    BY <1>1, <1>2, <2>1 DEF Like
  <2>2. CASE k = Len(st) + 1
    BY <1>1, <1>5, <2>2
  <2> QED
    BY <1>1, <2>1, <2>2
<1>7. ASSUME NEW j \in DOMAIN open2
      PROVE  open2[j] = <<NSOf(st2[rounds + j].info), st2[rounds + j].group>>
  <2>1. CASE j = Len(open) + 1
    <3>1. rounds + j = Len(st) + 1
      BY <1>1, <1>5, <2>1
    <3> QED
      BY <1>1, <2>1, <3>1
  <2>2. CASE j # Len(open) + 1
    <3>1. j \in DOMAIN open /\ rounds + j \in DOMAIN st /\ rounds + j > rounds
      BY <1>1, <1>5, <2>2
    <3>2. Like(st[rounds + j], st2[rounds + j]) /\ st[rounds + j].phase = "group"
      BY <1>2, <3>1
    <3> QED
      BY <1>1, <1>2, <3>1, <3>2 DEF Like
  <2> QED
    BY <2>1, <2>2
<1> QED
  BY <1>1, <1>4, <1>6, <1>7, <1>3 DEF GroupsOpen, open2

LEMMA OneLessOpen ==
  ASSUME NEW S, NEW T, NEW st \in Seq(S), NEW st2 \in Seq(S), NEW open \in Seq(T), st # <<>>,
         GroupsOpen(st, open), Len(st2) = Len(st) - 1, \A k \in DOMAIN st2 : st2[k] = st[k],
         st[Len(st)].phase = "group"
  PROVE  GroupsOpen(st2, Front(open))
<1> DEFINE rounds == Len(st) - Len(open)
           open2 == Front(open)
<1>1. /\ rounds \in Nat /\ Len(st) \in Nat \ {0} /\ Len(open) \in Nat
      /\ DOMAIN st = 1 .. Len(st) /\ DOMAIN st2 = 1 .. Len(st) - 1 /\ DOMAIN open = 1 .. Len(open)
  BY DEF GroupsOpen
<1>2. /\ \A k \in DOMAIN st : st[k].phase = "group" <=> k > rounds
      /\ \A j \in DOMAIN open : open[j] = <<NSOf(st[rounds + j].info), st[rounds + j].group>>
      /\ \A j, l \in DOMAIN open : open[j] = open[l] => j = l
  BY DEF GroupsOpen
<1>3. Len(open) > 0
  BY <1>1, <1>2
<1>4. /\ Len(open2) = Len(open) - 1 /\ DOMAIN open2 = 1 .. Len(open) - 1
      /\ \A j \in DOMAIN open2 : open2[j] = open[j]
  <2>1. open2 = SubSeq(open, 1, Len(open) - 1)
    BY DEF Front
  <2>2. Len(open) - 1 \in 0 .. Len(open)
    BY <1>1, <1>3
  <2> HIDE DEF open2
  <2> QED
    BY <1>1, <2>1, <2>2, PrefixIs
<1>5. Len(st2) - Len(open2) = rounds /\ rounds + Len(open) = Len(st)
  BY <1>1, <1>4
<1> HIDE DEF rounds, open2
<1>6. \A k \in DOMAIN st2 : st2[k].phase = "group" <=> k > rounds
  BY <1>1, <1>2
<1>7. ASSUME NEW j \in DOMAIN open2
      PROVE  open2[j] = <<NSOf(st2[rounds + j].info), st2[rounds + j].group>>
  <2>1. j \in DOMAIN open /\ rounds + j \in DOMAIN st2
    BY <1>1, <1>4, <1>5
  <2> QED
    BY <1>2, <1>4, <2>1
<1>8. \A j, l \in DOMAIN open2 : open2[j] = open2[l] => j = l
  BY <1>1, <1>2, <1>4
<1> QED
  BY <1>1, <1>5, <1>6, <1>7, <1>8 DEF GroupsOpen, open2

LEMMA GroupBegins ==
  ASSUME CallsSound, stack # <<>>, NEW n \in Nat \ {0}, NEW f \in GroupCalls,
         stack' = Append(GoneOn(n), f), Listed \subseteq Listed', NodesKept,
         f.info \in Listed', f.from = Top.info,
         f.type # "import" => NSOf(f.info) = NSOf(f.from),
         traverser'.fCurrentGroupStack
           = Append(traverser.fCurrentGroupStack, <<NSOf(f.info), f.group>>),
         ~Contains(traverser.fCurrentGroupStack, <<NSOf(f.info), f.group>>)
  PROVE  /\ stack' \in Seq(Frames) /\ stack' # <<>> /\ Top' = f
         /\ Calls' /\ OpenGroups' /\ ReadOnce'
         /\ \A ns : Begun(ns)' \subseteq
              Begun(ns) \cup (IF NSOf(f.info) = ns THEN {<<f.group, f.scope>>} ELSE {})
<1> DEFINE open == traverser.fCurrentGroupStack
           full == <<NSOf(f.info), f.group>>
<1>1. f \in Frames /\ f.phase = "group" /\ f.type # "root" /\ Len(stack) \in Nat
  BY TopIs DEF Frames, GroupCalls, CallsSound
<1>2. /\ stack' \in Seq(Frames) /\ stack' # <<>> /\ Top' = f /\ Calls'
      /\ Len(stack') = Len(stack) + 1 /\ stack'[Len(stack) + 1] = f
      /\ \A k \in DOMAIN stack : Like(stack[k], stack'[k])
  BY <1>1, CallBegins
<1>3. /\ DOMAIN stack' = 1 .. Len(stack) + 1 /\ DOMAIN stack = 1 .. Len(stack)
      /\ \A k \in DOMAIN stack' : \/ k \in DOMAIN stack /\ Like(stack[k], stack'[k])
                                  \/ k = Len(stack) + 1 /\ k \notin DOMAIN stack /\ stack'[k] = f
  <2>1. DOMAIN stack' = 1 .. Len(stack) + 1 /\ DOMAIN stack = 1 .. Len(stack)
    BY <1>2 DEF CallsSound, TypesOK, FilesOK, TablesOK
  <2> QED
    BY <1>1, <1>2, <2>1
<1>4. OpenGroups'
  <2>1. open \in Seq(Namespaces \X GroupNames) /\ GroupsOpen(stack, open) /\ stack \in Seq(Frames)
    BY TopIs DEF CallsSound, TypesOK, FilesOK, TablesOK, IsTraverser, OpenGroups
  <2>2. full \in Namespaces \X GroupNames
    BY <1>1 DEF GroupCalls, Infos, NSOf
  <2>3. traverser'.fCurrentGroupStack = Append(open, full) /\ ~Contains(open, full)
        /\ full = <<NSOf(f.info), f.group>>
    OBVIOUS
  <2> HIDE DEF open, full
  <2>4. GroupsOpen(stack', Append(open, full))
    BY <1>1, <1>2, <2>1, <2>2, <2>3, OneMoreOpen
  <2> QED
    BY <2>3, <2>4 DEF OpenGroups
<1>5. ReadOnce'
  BY <1>1, <1>3, SMTT(40) DEF CallsSound, ReadOnce, Like
<1>6. ASSUME NEW ns
      PROVE  Begun(ns)' \subseteq
               Begun(ns) \cup (IF NSOf(f.info) = ns THEN {<<f.group, f.scope>>} ELSE {})
  <2> SUFFICES ASSUME NEW k \in DOMAIN stack', stack'[k].phase = "group", NSOf(stack'[k].info) = ns
               PROVE  <<stack'[k].group, stack'[k].scope>> \in
                        Begun(ns) \cup (IF NSOf(f.info) = ns THEN {<<f.group, f.scope>>} ELSE {})
    BY DEF Begun
  <2>1. CASE k \in DOMAIN stack
    <3>1. stack[k].phase = "group" /\ NSOf(stack[k].info) = ns
          /\ stack'[k].group = stack[k].group /\ stack'[k].scope = stack[k].scope
      BY <1>2, <2>1 DEF Like
    <3> QED
      BY <2>1, <3>1 DEF Begun
  <2>2. CASE stack'[k] = f
    BY <2>2
  <2> QED
    BY <1>3, <2>1, <2>2
<1> QED
  BY <1>2, <1>4, <1>5, <1>6

\* The call at the top is done.
LEMMA Returns ==
  ASSUME CallsSound, stack # <<>>, stack' = Below, Listed \subseteq Listed', NodesKept,
         traverser'.fCurrentGroupStack = IF Top.phase = "group"
                                         THEN Front(traverser.fCurrentGroupStack)
                                         ELSE traverser.fCurrentGroupStack
  PROVE  /\ stack' \in Seq(Frames) /\ Calls' /\ OpenGroups' /\ ReadOnce'
         /\ IF Top.type = "root" THEN stack' = <<>> ELSE stack' # <<>> /\ Top'.info = Top.from
         /\ \A ns : Begun(ns)' \subseteq Begun(ns)
         /\ Top.phase = "group" => <<Top.group, Top.scope>> \in Begun(NSOf(Top.info))
<1> DEFINE open == traverser.fCurrentGroupStack
           open2 == traverser'.fCurrentGroupStack
<1>1. /\ stack' \in Seq(Frames) /\ Len(stack') = Len(stack) - 1 /\ Len(stack) \in Nat \ {0}
      /\ \A k \in 1 .. Len(stack) - 1 : stack'[k] = stack[k]
      /\ DOMAIN stack' = 1 .. Len(stack) - 1 /\ DOMAIN stack = 1 .. Len(stack)
      /\ Top = stack[Len(stack)]
  BY BelowIs, TopIs DEF CallsSound
<1>2. \A k \in DOMAIN stack' : k \in DOMAIN stack /\ stack'[k] = stack[k]
  BY <1>1
<1>3. Calls'
  <2>1. \A k \in 1 .. Len(stack') : Like(stack[k], stack'[k])
    BY <1>1, <1>2 DEF Like
  <2>2. Len(stack') \in Nat /\ Len(stack') <= Len(stack) /\ Len(stack') <= Len(stack')
    BY <1>1
  <2> QED
    BY <1>1, <2>1, <2>2, CallsStand DEF Calls
<1>4. IF Top.type = "root" THEN stack' = <<>> ELSE stack' # <<>> /\ Top'.info = Top.from
  <2>1. Top.type = "root" <=> Len(stack) = 1
    BY <1>1 DEF CallsSound, Calls
  <2>2. CASE Len(stack) = 1
    BY <1>1, <2>1, <2>2
  <2>3. CASE Len(stack) # 1
    <3>1. Len(stack) > 1 /\ Len(stack) - 1 \in DOMAIN stack' /\ stack' # <<>>
      BY <1>1, <2>3
    <3>2. Top.from = stack[Len(stack) - 1].info
      BY <1>1, <3>1 DEF CallsSound, Calls
    <3>3. Top' = stack[Len(stack) - 1]
      BY <1>1, <3>1 DEF Top
    <3> QED
      BY <2>1, <2>3, <3>1, <3>2, <3>3
  <2> QED
    BY <2>2, <2>3
<1>5. OpenGroups'
  <2>1. open \in Seq(Namespaces \X GroupNames) /\ GroupsOpen(stack, open) /\ stack \in Seq(Frames)
    BY TopIs DEF CallsSound, TypesOK, FilesOK, TablesOK, IsTraverser, OpenGroups
  <2>2. CASE Top.phase = "group"
    <3>1. open2 = Front(open)
      BY <2>2
    <3> HIDE DEF open2, open
    <3>2. /\ stack \in Seq(Frames) /\ stack' \in Seq(Frames) /\ Len(stack') = Len(stack) - 1
          /\ stack[Len(stack)].phase = "group" /\ GroupsOpen(stack, open)
          /\ \A k \in DOMAIN stack' : stack'[k] = stack[k]
      BY <1>1, <1>2, <2>1, <2>2
    <3>3. open \in Seq(Namespaces \X GroupNames)
      BY <2>1
    <3>4. GroupsOpen(stack', Front(open))
      BY ONLY <3>2, <3>3, stack # <<>>, OneLessOpen, SMTT(40)
    <3> QED
      BY <3>1, <3>4 DEF OpenGroups, open2
  <2>3. CASE Top.phase # "group"
    <3>1. open = <<>> /\ open2 = open /\ \A k \in DOMAIN stack : stack[k].phase # "group"
      BY <2>3, PhaseIs
    <3>2. Len(open2) = 0 /\ DOMAIN open2 = {}
      BY <3>1
    <3>3. /\ Len(stack') - Len(open2) = Len(stack) - 1 /\ Len(stack) - 1 \in Nat
          /\ \A k \in DOMAIN stack' : stack'[k].phase # "group" /\ ~(k > Len(stack) - 1)
      BY <1>1, <1>2, <3>1, <3>2
    <3> HIDE DEF open2, open
    <3>4. GroupsOpen(stack', open2)
      BY <3>2, <3>3 DEF GroupsOpen
    <3> QED
      BY <3>4 DEF OpenGroups, open2
  <2> QED
    BY <2>2, <2>3
<1>6. ReadOnce'
  BY <1>2 DEF CallsSound, ReadOnce
<1>7. \A ns : Begun(ns)' \subseteq Begun(ns)
  BY <1>2 DEF Begun
<1>8. Top.phase = "group" => <<Top.group, Top.scope>> \in Begun(NSOf(Top.info))
  BY <1>1 DEF Begun
<1> QED
  BY <1>1, <1>3, <1>4, <1>5, <1>6, <1>7, <1>8
-----------------------------------------------------------------------------
(* Tables, documents, the nodes of includes and imports. *)

LEMMA WithTyped ==
  ASSUME NEW S, NEW table, table \in [DOMAIN table -> S], NEW key, NEW value \in S
  PROVE  With(table, key, value) \in [DOMAIN table \cup {key} -> S]
BY DEF With

\* The documents that have been read stay.
FilesStay == \A d \in DOMAIN files : d \in DOMAIN files' /\ files'[d] = files[d]

LEMMA ReadIs ==
  ASSUME FilesOK, NEW d \in Docs, Read(d)
  PROVE  FilesOK' /\ FilesStay /\ d \in DOMAIN files'
<1>1. CASE UNCHANGED files /\ d \in DOMAIN files
  BY <1>1 DEF FilesOK, FilesStay
<1>2. CASE ~(UNCHANGED files /\ d \in DOMAIN files)
  <2>1. PICK n \in 0 .. 2 : \E links \in [1 .. n -> Links] : files' = With(files, d, links)
    BY <1>2 DEF Read
  <2>2. PICK links \in Seq(Links) : files' = With(files, d, links)
    BY <2>1
  <2>3. DOMAIN files' = DOMAIN files \cup {d} /\ \A x \in DOMAIN files : x # d => files'[x] = files[x]
    BY <2>2 DEF With
  <2>4. files' \in [DOMAIN files \cup {d} -> Seq(Links)]
    BY <2>2, WithTyped DEF FilesOK
  <2>5. d \notin DOMAIN files
    BY <1>2 DEF Read
  <2> QED
    BY <2>3, <2>4, <2>5 DEF FilesOK, FilesStay
<1> QED
  BY <1>1, <1>2

LEMMA SameFiles ==
  ASSUME FilesOK, UNCHANGED files
  PROVE  FilesOK' /\ FilesStay
BY DEF FilesOK, FilesStay

NodesSound == InfosKnown /\ NodesKnown /\ NodesAcyclic

LEMMA NodesStay ==
  ASSUME NodesSound, FilesStay, Listed \subseteq Listed',
         traverser'.fPreprocessedNodes = traverser.fPreprocessedNodes
  PROVE  NodesKnown' /\ NodesAcyclic' /\ NodesKept
<1>1. Nodes' = Nodes /\ \A node \in Nodes : Child(node)' = Child(node)
  BY DEF Nodes, Child
<1>2. NodesKnown'
  BY <1>1 DEF NodesSound, NodesKnown, InfosKnown, FilesStay
<1>3. NodesAcyclic'
  BY <1>1 DEF NodesSound, NodesAcyclic
<1> QED
  BY <1>1, <1>2, <1>3 DEF NodesKept

\* What an include or import opens is new, so no chain of them leads back to it.
LEMMA NodeNoted ==
  ASSUME NodesSound, FilesStay, NEW i \in Infos, i \notin Listed,
         Listed \subseteq Listed', i \in Listed',
         NEW p \in Listed, NEW n, traverser'.fPreprocessedNodes = With(traverser.fPreprocessedNodes, <<p, n>>, i),
         files[DocOf(p)][n].kind # "import" => NSOf(i) = NSOf(p)
  PROVE  NodesKnown' /\ NodesAcyclic'
<1> DEFINE new == <<p, n>>
<1>1. Nodes' = Nodes \cup {new}
  BY DEF With, Nodes
<1>2. Child(new)' = i
  BY DEF With, Child
<1>3. \A node \in Nodes : node # new => Child(node)' = Child(node)
  BY DEF With, Child, Nodes
<1>4. new[1] = p /\ new[2] = n
  OBVIOUS
<1> HIDE DEF new
<1>5. NodesKnown'
  <2> SUFFICES ASSUME NEW node \in Nodes'
               PROVE  /\ node[1] \in Listed' /\ Child(node)' \in Listed'
                      /\ files'[DocOf(node[1])][node[2]].kind # "import" =>
                           NSOf(Child(node)') = NSOf(node[1])
    BY DEF NodesKnown
  <2>1. \A d \in Listed : files'[DocOf(d)] = files[DocOf(d)]
    BY DEF NodesSound, InfosKnown, FilesStay
  <2>2. CASE node = new
    BY <1>2, <1>4, <2>1, <2>2
  <2>3. CASE node # new
    BY <1>1, <1>3, <2>1, <2>3 DEF NodesSound, NodesKnown
  <2> QED
    BY <2>2, <2>3
<1>6. NodesAcyclic'
  <2> SUFFICES ASSUME NEW S \in SUBSET Infos, S # {}
               PROVE  \E x \in S : \A node \in Nodes' : Child(node)' = x => node[1] \notin S
    BY DEF NodesAcyclic
  <2>1. CASE S = {i}
    <3>1. ASSUME NEW node \in Nodes', Child(node)' = i PROVE node[1] \notin S
      BY <1>1, <1>3, <1>4, <2>1, <3>1 DEF NodesSound, NodesKnown
    <3> QED
      BY <2>1, <3>1
  <2>2. CASE S # {i}
    <3>1. S \ {i} # {} /\ S \ {i} \in SUBSET Infos
      BY <2>2
    <3>2. PICK x \in S \ {i} : \A node \in Nodes : Child(node) = x => node[1] \notin S \ {i}
      BY <3>1 DEF NodesSound, NodesAcyclic
    <3>3. ASSUME NEW node \in Nodes', Child(node)' = x PROVE node[1] \notin S
      <4>1. node # new /\ node \in Nodes /\ Child(node) = x
        BY <1>1, <1>2, <1>3, <3>2, <3>3
      <4>2. node[1] \in Listed
        BY <4>1 DEF NodesSound, NodesKnown
      <4> QED
        BY <3>2, <4>1, <4>2
    <3> QED
      BY <3>2, <3>3
  <2> QED
    BY <2>1, <2>2
<1> QED
  BY <1>5, <1>6
-----------------------------------------------------------------------------
(* The scopes that are in use. *)

\* A grammar of the parse before and the one after with the same count.
LEMMA ScopesStay ==
  ASSUME ScopesCounted,
         \A ns \in DOMAIN grammars' :
           \/ Registered(ns)' \cup Begun(ns)' = {}
           \/ /\ ns \in DOMAIN grammars /\ Count(ns)' = Count(ns)
              /\ Registered(ns)' \cup Begun(ns)' \subseteq Registered(ns) \cup Begun(ns)
  PROVE  ScopesCounted'
<1> SUFFICES ASSUME NEW ns \in DOMAIN grammars'
             PROVE  /\ \A x \in Registered(ns)' \cup Begun(ns)' : x[2] < Count(ns)'
                    /\ \A x, y \in Registered(ns)' \cup Begun(ns)' : x[2] = y[2] => x = y
  BY DEF ScopesCounted
<1>1. CASE Registered(ns)' \cup Begun(ns)' = {}
  BY <1>1
<1>2. CASE /\ ns \in DOMAIN grammars /\ Count(ns)' = Count(ns)
           /\ Registered(ns)' \cup Begun(ns)' \subseteq Registered(ns) \cup Begun(ns)
  <2>1. /\ \A x \in Registered(ns) \cup Begun(ns) : x[2] < Count(ns)
        /\ \A x, y \in Registered(ns) \cup Begun(ns) : x[2] = y[2] => x = y
    BY <1>2 DEF ScopesCounted
  <2> QED
    BY <1>2, <2>1
<1> QED
  BY <1>1, <1>2

\* A group that is begun gets the number that the count of its grammar stands at.
LEMMA ScopeTaken ==
  ASSUME ScopesCounted, DOMAIN grammars' = DOMAIN grammars, NEW home, NEW name,
         \A ns \in DOMAIN grammars :
           /\ Count(ns) \in Nat
           /\ Registered(ns)' = Registered(ns)
           /\ IF ns = home
              THEN /\ Count(ns)' = Count(ns) + 1
                   /\ Begun(ns)' \subseteq Begun(ns) \cup {<<name, Count(ns)>>}
              ELSE Count(ns)' = Count(ns) /\ Begun(ns)' \subseteq Begun(ns),
         \A ns \in DOMAIN grammars : \A x \in Registered(ns) \cup Begun(ns) : x[2] \in Nat
  PROVE  ScopesCounted'
<1> SUFFICES ASSUME NEW ns \in DOMAIN grammars
             PROVE  /\ \A x \in Registered(ns)' \cup Begun(ns)' : x[2] < Count(ns)'
                    /\ \A x, y \in Registered(ns)' \cup Begun(ns)' : x[2] = y[2] => x = y
  BY DEF ScopesCounted
<1> DEFINE new == <<name, Count(ns)>>
<1>1. new[2] = Count(ns) /\ Count(ns) \in Nat
  OBVIOUS
<1>2. /\ \A x \in Registered(ns) \cup Begun(ns) : x[2] < Count(ns) /\ x[2] \in Nat
      /\ \A x, y \in Registered(ns) \cup Begun(ns) : x[2] = y[2] => x = y
  BY DEF ScopesCounted
<1> HIDE DEF new
<1>3. CASE ns = home
  <2>1. Registered(ns)' \cup Begun(ns)' \subseteq Registered(ns) \cup Begun(ns) \cup {new}
    BY <1>3 DEF new
  <2>2. Count(ns)' = Count(ns) + 1
    BY <1>3
  <2> QED
    BY <1>1, <1>2, <2>1, <2>2
<1>4. CASE ns # home
  <2>1. /\ Registered(ns)' \cup Begun(ns)' \subseteq Registered(ns) \cup Begun(ns)
        /\ Count(ns)' = Count(ns)
    BY <1>4
  <2> QED
    BY <1>2, <2>1
<1> QED
  BY <1>3, <1>4

\* The grammars that the traverser may leave.
LEMMA SavedIs ==
  ASSUME NEW gr, NEW t, AreGrammars(gr), IsTraverser(t), t.fSchemaGrammar \in DOMAIN gr
  PROVE  /\ AreGrammars(Saved(gr, t)) /\ DOMAIN Saved(gr, t) = DOMAIN gr
         /\ \A ns \in DOMAIN gr : /\ Saved(gr, t)[ns].groups = gr[ns].groups
                                  /\ Saved(gr, t)[ns].scopeCount = CountIn(t, gr, ns)
<1> DEFINE c == t.fSchemaGrammar
           sv == Saved(gr, t)
<1>1. t.fScopeCount \in Nat
  BY DEF IsTraverser
<1>2. gr = [ns \in DOMAIN gr |-> gr[ns]] /\ DOMAIN gr \subseteq Namespaces
  BY DEF AreGrammars
<1>3. /\ DOMAIN sv = DOMAIN gr /\ sv = [ns \in DOMAIN sv |-> sv[ns]]
      /\ sv[c] = [gr[c] EXCEPT !.scopeCount = t.fScopeCount]
      /\ \A ns \in DOMAIN gr : ns # c => sv[ns] = gr[ns]
  BY <1>2 DEF Saved
<1>4. ASSUME NEW ns \in DOMAIN gr
      PROVE  /\ IsGrammar(sv[ns]) /\ sv[ns].groups = gr[ns].groups
             /\ sv[ns].scopeCount = CountIn(t, gr, ns)
  <2>1. gr[ns] \in [groups : [DOMAIN gr[ns].groups -> Entries], scopeCount : Nat]
    BY DEF AreGrammars, IsGrammar
  <2> HIDE DEF sv
  <2>2. CASE ns = c
    <3>1. sv[ns] = [gr[ns] EXCEPT !.scopeCount = t.fScopeCount]
      BY <1>3, <2>2
    <3> QED
      BY <1>1, <2>1, <2>2, <3>1 DEF IsGrammar, CountIn
  <2>3. CASE ns # c
    BY <1>3, <2>1, <2>3 DEF IsGrammar, CountIn
  <2> QED
    BY <2>2, <2>3
<1> HIDE DEF sv
<1> QED
  BY <1>2, <1>3, <1>4 DEF AreGrammars, sv

\* Turning to another document changes no count: the grammar that is left gets
\* its own, and that of the other is taken up.
LEMMA RestoreIs ==
  ASSUME NEW gr, NEW t, AreGrammars(gr), IsTraverser(t), t.fSchemaGrammar \in DOMAIN gr,
         NEW i \in Infos, NSOf(i) \in DOMAIN gr, NEW type, Restore(t, gr, i, type),
         type # "import" => NSOf(i) = t.fSchemaGrammar
  PROVE  /\ AreGrammars(grammars') /\ DOMAIN grammars' = DOMAIN gr
         /\ IsTraverser(traverser') /\ traverser'.fSchemaInfo = i
         /\ traverser'.fSchemaGrammar = NSOf(i)
         /\ traverser'.fPreprocessedNodes = t.fPreprocessedNodes
         /\ traverser'.fCurrentGroupStack = t.fCurrentGroupStack
         /\ \A ns \in DOMAIN gr : /\ grammars'[ns].groups = gr[ns].groups
                                  /\ CountIn(traverser', grammars', ns) = CountIn(t, gr, ns)
<1>1. t \in [fSchemaInfo : Infos \cup {NoInfo}, fSchemaGrammar : Namespaces \cup {NoNS},
         fScopeCount : Nat, fImportedNSList : SUBSET Namespaces,
         fGlobalDeclarations : SUBSET (Namespaces \X GroupNames),
         fCurrentGroupStack : Seq(Namespaces \X GroupNames),
         fPreprocessedNodes : [DOMAIN t.fPreprocessedNodes -> Infos]]
  BY DEF IsTraverser
<1>2. CASE type = "import"
  <2> DEFINE sv == Saved(gr, t)
  <2>1. /\ AreGrammars(sv) /\ DOMAIN sv = DOMAIN gr
        /\ \A ns \in DOMAIN gr : /\ sv[ns].groups = gr[ns].groups
                                 /\ sv[ns].scopeCount = CountIn(t, gr, ns)
    BY SavedIs
  <2>2. sv[NSOf(i)].scopeCount \in Nat /\ NSOf(i) \in Namespaces
    BY <2>1 DEF AreGrammars, IsGrammar
  <2>3. grammars' = sv /\ traverser' = [t EXCEPT !.fSchemaInfo = i, !.fSchemaGrammar = NSOf(i),
                                                 !.fScopeCount = sv[NSOf(i)].scopeCount]
    BY <1>2 DEF Restore, Restored
  <2> HIDE DEF sv
  <2>4. /\ IsTraverser(traverser') /\ traverser'.fSchemaInfo = i
        /\ traverser'.fSchemaGrammar = NSOf(i)
        /\ traverser'.fPreprocessedNodes = t.fPreprocessedNodes
        /\ traverser'.fCurrentGroupStack = t.fCurrentGroupStack
        /\ traverser'.fScopeCount = sv[NSOf(i)].scopeCount
    BY <1>1, <2>2, <2>3 DEF IsTraverser
  <2>5. \A ns \in DOMAIN gr : CountIn(traverser', grammars', ns) = CountIn(t, gr, ns)
    BY <2>1, <2>3, <2>4 DEF CountIn
  <2> QED
    BY <2>1, <2>3, <2>4, <2>5
<1>3. CASE type # "import"
  <2>1. grammars' = gr /\ traverser' = [t EXCEPT !.fSchemaInfo = i]
    BY <1>3 DEF Restore
  <2>2. /\ IsTraverser(traverser') /\ traverser'.fSchemaInfo = i
        /\ traverser'.fSchemaGrammar = NSOf(i)
        /\ traverser'.fPreprocessedNodes = t.fPreprocessedNodes
        /\ traverser'.fCurrentGroupStack = t.fCurrentGroupStack
        /\ traverser'.fScopeCount = t.fScopeCount
    BY <1>1, <1>3, <2>1 DEF IsTraverser
  <2>3. \A ns \in DOMAIN gr : CountIn(traverser', grammars', ns) = CountIn(t, gr, ns)
    BY <1>3, <2>1, <2>2 DEF CountIn
  <2> QED
    BY <2>1, <2>2, <2>3
<1> QED
  BY <1>2, <1>3

LEMMA ScopesGoOn ==
  ASSUME ScopesCounted, stack # <<>>, DOMAIN grammars' = DOMAIN grammars,
         \A ns \in DOMAIN grammars :
           /\ grammars'[ns].groups = grammars[ns].groups
           /\ Begun(ns)' \subseteq Begun(ns)
           /\ IF stack' = <<>>
              THEN grammars'[ns].scopeCount = CountIn(traverser, grammars, ns)
              ELSE CountIn(traverser', grammars', ns) = CountIn(traverser, grammars, ns)
  PROVE  ScopesCounted'
<1>1. ASSUME NEW ns \in DOMAIN grammars
      PROVE  /\ Count(ns)' = Count(ns)
             /\ Registered(ns)' \cup Begun(ns)' \subseteq Registered(ns) \cup Begun(ns)
  <2>1. Registered(ns)' = Registered(ns)
    BY DEF Registered, Registry
  <2>2. Count(ns)' = Count(ns)
    BY DEF Count
  <2> QED
    BY <2>1, <2>2
<1> QED
  BY <1>1, ScopesStay
-----------------------------------------------------------------------------
(* Where the traverser is. *)

LEMMA CurrentIs ==
  ASSUME SchemaInv, stack # <<>>
  PROVE  /\ Top.info \in Listed /\ Top.info \in Infos /\ traverser.fSchemaInfo = Top.info
         /\ CurrentNS = NSOf(Top.info) /\ CurrentNS \in DOMAIN grammars
         /\ traverser.fSchemaGrammar = NSOf(Top.info)
         /\ CurrentNS \in Namespaces
         /\ Listed \subseteq Infos /\ DocOf(Top.info) \in DOMAIN files
<1>1. Top.info \in Listed
  BY TopIs DEF SchemaInv, Calls
<1>2. Top.info \in Infos /\ Listed \subseteq Infos
  BY <1>1 DEF SchemaInv, TypesOK, TablesOK, Listed
<1>3. traverser.fSchemaInfo = Top.info /\ CurrentNS = NSOf(Top.info)
  BY DEF SchemaInv, AtTop
<1>4. NSOf(Top.info) \in DOMAIN grammars /\ DocOf(Top.info) \in DOMAIN files
  BY <1>1 DEF SchemaInv, InfosKnown
<1>5. NSOf(Top.info) \in Namespaces
  BY <1>4 DEF SchemaInv, TypesOK, AreGrammars
<1> QED
  BY <1>1, <1>2, <1>3, <1>4, <1>5 DEF CurrentNS

LEMMA FromIs ==
  ASSUME SchemaInv, stack # <<>>, Top.type # "root"
  PROVE  /\ Top.from \in Listed /\ Top.from \in Infos
         /\ Top.type # "import" => NSOf(Top.from) = NSOf(Top.info)
<1>1. /\ stack \in Seq(Frames) /\ Len(stack) \in Nat \ {0} /\ Len(stack) \in DOMAIN stack
      /\ Top = stack[Len(stack)]
  BY TopIs DEF SchemaInv
<1>2. Len(stack) > 1
  BY <1>1 DEF SchemaInv, Calls
<1>3. /\ Top.from = stack[Len(stack) - 1].info
      /\ Top.type # "import" => NSOf(Top.info) = NSOf(Top.from)
  BY <1>1, <1>2 DEF SchemaInv, Calls
<1>4. Len(stack) - 1 \in DOMAIN stack
  BY <1>1, <1>2
<1>5. stack[Len(stack) - 1].info \in Listed
  BY <1>4 DEF SchemaInv, Calls
<1> QED
  BY <1>3, <1>5 DEF SchemaInv, TypesOK, TablesOK, Listed

LEMMA SoundIs ==
  ASSUME SchemaInv
  PROVE  /\ CallsSound /\ NodesSound /\ FilesOK /\ TablesOK /\ AreGrammars(grammars)
         /\ IsTraverser(traverser) /\ ScopesCounted
BY DEF SchemaInv, CallsSound, NodesSound, TypesOK

\* The infos and their lists, when nothing is added to them.
LEMMA InfosStay ==
  ASSUME SchemaInv, FilesStay, UNCHANGED <<fSchemaInfoList, includeLists>>,
         DOMAIN grammars \subseteq DOMAIN grammars'
  PROVE  TablesOK' /\ InfosKnown' /\ ListsOfOneNamespace' /\ Listed' = Listed
<1>1. Listed' = Listed /\ TablesOK'
  BY DEF SchemaInv, TypesOK, TablesOK, Listed
<1>2. ListsOfOneNamespace'
  BY <1>1 DEF SchemaInv, ListsOfOneNamespace
<1>3. InfosKnown'
  BY <1>1 DEF SchemaInv, InfosKnown, Info, FilesStay
<1> QED
  BY <1>1, <1>2, <1>3

LEMMA OneRound ==
  ASSUME NEW f \in Rounds, stack' = <<f>>, f.type = "root", f.info \in Listed',
         traverser'.fCurrentGroupStack = <<>>
  PROVE  /\ stack' \in Seq(Frames) /\ stack' # <<>> /\ Top' = f
         /\ Calls' /\ OpenGroups' /\ ReadOnce' /\ \A ns : Begun(ns)' = {}
<1>1. f \in Frames /\ f.phase # "group"
  BY DEF Frames, Rounds
<1>2. stack' \in Seq(Frames) /\ Len(stack') = 1 /\ DOMAIN stack' = {1} /\ stack'[1] = f
  BY <1>1
<1>3. stack' # <<>> /\ Top' = f
  BY <1>2 DEF Top
<1>4. Calls' /\ ReadOnce'
  BY <1>1, <1>2 DEF Calls, ReadOnce
<1>5. \A ns : Begun(ns)' = {}
  BY <1>1, <1>2 DEF Begun
<1>6. OpenGroups'
  <2> DEFINE open2 == traverser'.fCurrentGroupStack
  <2>1. Len(open2) = 0 /\ DOMAIN open2 = {}
    OBVIOUS
  <2> HIDE DEF open2
  <2>2. GroupsOpen(stack', open2)
    BY <1>1, <1>2, <2>1 DEF GroupsOpen
  <2> QED
    BY <2>2 DEF OpenGroups, open2
<1> QED
  BY <1>2, <1>3, <1>4, <1>5, <1>6
-----------------------------------------------------------------------------
(* The steps. *)

LEMMA ImportingIs ==
  ASSUME NEW D, NEW list \in [D -> InfoRecords], NEW i \in D, NEW toAdd \in Infos
  PROVE  /\ Importing(list, i, toAdd) \in [D -> InfoRecords]
         /\ \A x \in D :
              /\ Importing(list, i, toAdd)[x].includes = list[x].includes
              /\ \A k \in DOMAIN Importing(list, i, toAdd)[x].imports :
                   \/ Importing(list, i, toAdd)[x].imports[k] = toAdd
                   \/ /\ k \in DOMAIN list[x].imports
                      /\ Importing(list, i, toAdd)[x].imports[k] = list[x].imports[k]
<1> DEFINE im == Importing(list, i, toAdd)
           s == list[i].imports
           s2 == IF Contains(s, toAdd) THEN s ELSE Append(s, toAdd)
<1>1. list[i] \in InfoRecords /\ s \in Seq(Infos)
  BY DEF InfoRecords
<1>2. im = [list EXCEPT ![i].imports = s2]
  BY DEF Importing
<1>3. /\ s2 \in Seq(Infos)
      /\ \A k \in DOMAIN s2 : s2[k] = toAdd \/ (k \in DOMAIN s /\ s2[k] = s[k])
  <2> HIDE DEF s
  <2> QED
    BY <1>1
<1> HIDE DEF s2
<1>4. im \in [D -> InfoRecords]
  BY <1>1, <1>2, <1>3 DEF InfoRecords
<1>5. im[i].imports = s2 /\ im[i].includes = list[i].includes
  BY <1>1, <1>2 DEF InfoRecords
<1>6. \A x \in D : x # i => im[x] = list[x]
  BY <1>2
<1> HIDE DEF im
<1> QED
  BY <1>3, <1>4, <1>5, <1>6 DEF im

\* A document that is opened is new, and so is its list.
LEMMA OpenedIs ==
  ASSUME SchemaInv, NEW i \in Infos, i \notin Listed, FilesStay, DocOf(i) \in DOMAIN files',
         NEW t, IsTraverser(t), t.fSchemaInfo \in Listed \cup {NoInfo},
         NEW gr, AreGrammars(gr), DOMAIN gr = DOMAIN grammars, Opened(i, t, gr)
  PROVE  /\ Listed' = Listed \cup {i} /\ TablesOK' /\ InfosKnown' /\ ListsOfOneNamespace'
         /\ AreGrammars(grammars') /\ DOMAIN grammars' = DOMAIN gr \cup {NSOf(i)}
         /\ \A ns \in DOMAIN gr : grammars'[ns] = gr[ns]
         /\ NSOf(i) \notin DOMAIN gr => grammars'[NSOf(i)].groups = EmptyTable
         /\ IsTraverser(traverser') /\ traverser'.fSchemaInfo = i
         /\ traverser'.fSchemaGrammar = NSOf(i)
         /\ traverser'.fScopeCount = grammars'[NSOf(i)].scopeCount
         /\ traverser'.fPreprocessedNodes = t.fPreprocessedNodes
         /\ traverser'.fCurrentGroupStack = t.fCurrentGroupStack
<1> DEFINE ns == NSOf(i)
           g == IF ns \in DOMAIN gr THEN gr[ns] ELSE NewGrammar
           known == With(fSchemaInfoList, i, NewInfo(i))
<1>1. /\ grammars' = With(gr, ns, g)
      /\ traverser' = [t EXCEPT !.fSchemaInfo = i, !.fSchemaGrammar = ns, !.fScopeCount = g.scopeCount,
                                !.fImportedNSList = @ \cup {ns}]
      /\ fSchemaInfoList' = IF t.fSchemaInfo = NoInfo THEN known ELSE Importing(known, t.fSchemaInfo, i)
      /\ includeLists' = With(includeLists, i, <<i>>)
  BY DEF Opened
<1>2. ns \in Namespaces /\ i = <<i[1], i[2]>> /\ <<i>> \in Seq(Infos)
  BY DEF Infos, NSOf
<1>3. IsGrammar(g) /\ (ns \notin DOMAIN gr => g.groups = EmptyTable)
  BY DEF AreGrammars, IsGrammar, NewGrammar, EmptyTable
<1>4. g.scopeCount \in Nat
  BY <1>3 DEF IsGrammar
<1> HIDE DEF g
<1>5. /\ AreGrammars(grammars') /\ DOMAIN grammars' = DOMAIN gr \cup {ns}
      /\ grammars'[ns] = g /\ \A x \in DOMAIN gr : x # ns => grammars'[x] = gr[x]
  BY <1>1, <1>2, <1>3 DEF AreGrammars, With
<1>6. \A x \in DOMAIN gr : grammars'[x] = gr[x]
  BY <1>5 DEF g
<1>7. /\ IsTraverser(traverser') /\ traverser'.fSchemaInfo = i
      /\ traverser'.fSchemaGrammar = ns
      /\ traverser'.fScopeCount = g.scopeCount
      /\ traverser'.fPreprocessedNodes = t.fPreprocessedNodes
      /\ traverser'.fCurrentGroupStack = t.fCurrentGroupStack
  BY <1>1, <1>2, <1>4 DEF IsTraverser
<1>8. known \in [Listed \cup {i} -> InfoRecords]
  <2>1. NewInfo(i) \in InfoRecords
    BY DEF NewInfo, InfoRecords
  <2>2. fSchemaInfoList \in [Listed -> InfoRecords]
    BY DEF SchemaInv, TypesOK, TablesOK, Listed
  <2> QED
    BY <2>1, <2>2, WithTyped DEF Listed
<1>9. /\ known[i] = NewInfo(i) /\ \A x \in Listed : known[x] = Info(x)
  BY DEF With, Listed, Info
<1> HIDE DEF known
<1>10. /\ fSchemaInfoList' \in [Listed \cup {i} -> InfoRecords]
       /\ \A x \in Listed \cup {i} :
            /\ fSchemaInfoList'[x].includes = known[x].includes
            /\ \A k \in DOMAIN fSchemaInfoList'[x].imports :
                 \/ fSchemaInfoList'[x].imports[k] = i
                 \/ k \in DOMAIN known[x].imports /\ fSchemaInfoList'[x].imports[k] = known[x].imports[k]
  <2>1. CASE t.fSchemaInfo = NoInfo
    BY <1>1, <1>8, <2>1
  <2>2. CASE t.fSchemaInfo # NoInfo
    <3>1. fSchemaInfoList' = Importing(known, t.fSchemaInfo, i) /\ t.fSchemaInfo \in Listed
      BY <1>1, <2>2
    <3> QED
      BY <1>8, <3>1, ImportingIs
  <2> QED
    BY <2>1, <2>2
<1>11. Listed' = Listed \cup {i}
  BY <1>10 DEF Listed
<1>12. includeLists' \in [DOMAIN includeLists \cup {i} -> Seq(Infos)]
  BY <1>1, <1>2, WithTyped DEF SchemaInv, TypesOK, TablesOK
<1>13. TablesOK'
  BY <1>10, <1>11, <1>12 DEF SchemaInv, TypesOK, TablesOK, Listed
<1>14. InfosKnown'
  <2> SUFFICES ASSUME NEW x \in Listed \cup {i}
               PROVE  /\ DocOf(x) \in DOMAIN files' /\ NSOf(x) \in DOMAIN grammars'
                      /\ fSchemaInfoList'[x].includes \in DOMAIN includeLists'
                      /\ NSOf(fSchemaInfoList'[x].includes) = NSOf(x)
                      /\ \A k \in DOMAIN fSchemaInfoList'[x].imports :
                           fSchemaInfoList'[x].imports[k] \in Listed'
    BY <1>11 DEF InfosKnown, Info
  <2>1. CASE x = i
    BY <1>5, <1>9, <1>10, <1>11, <1>12, <2>1 DEF NewInfo
  <2>2. CASE x \in Listed
    <3>1. /\ DocOf(x) \in DOMAIN files /\ NSOf(x) \in DOMAIN grammars
          /\ Info(x).includes \in DOMAIN includeLists /\ NSOf(Info(x).includes) = NSOf(x)
          /\ \A k \in DOMAIN Info(x).imports : Info(x).imports[k] \in Listed
      BY <2>2 DEF SchemaInv, InfosKnown
    <3>2. DocOf(x) \in DOMAIN files' /\ NSOf(x) \in DOMAIN grammars'
      BY <1>5, <3>1 DEF FilesStay
    <3>3. fSchemaInfoList'[x].includes = Info(x).includes
      BY <1>9, <1>10, <2>2
    <3>4. \A k \in DOMAIN fSchemaInfoList'[x].imports : fSchemaInfoList'[x].imports[k] \in Listed'
      BY <1>9, <1>10, <1>11, <2>2, <3>1
    <3> QED
      BY <1>12, <3>1, <3>2, <3>3, <3>4
  <2> QED
    BY <2>1, <2>2
<1>15. ListsOfOneNamespace'
  <2> SUFFICES ASSUME NEW o \in DOMAIN includeLists', NEW k \in DOMAIN includeLists'[o]
               PROVE  includeLists'[o][k] \in Listed' /\ NSOf(includeLists'[o][k]) = NSOf(o)
    BY DEF ListsOfOneNamespace
  <2>1. CASE o = i
    <3>1. includeLists'[o] = <<i>>
      BY <1>1, <2>1 DEF With
    <3> QED
      BY <1>11, <2>1, <3>1
  <2>2. CASE o # i
    <3>1. o \in DOMAIN includeLists /\ includeLists'[o] = includeLists[o]
      BY <1>1, <2>2 DEF With
    <3> QED
      BY <1>11, <3>1 DEF SchemaInv, ListsOfOneNamespace
  <2> QED
    BY <2>1, <2>2
<1> QED
  BY <1>3, <1>5, <1>6, <1>7, <1>11, <1>13, <1>14, <1>15

LEMMA TraverseSchemaKeeps ==
  ASSUME SchemaInv, NEW ns \in Namespaces, TraverseSchema(ns)
  PROVE  SchemaInv'
<1> DEFINE i == <<LocationOf[ns], ns>>
           f == Round("preprocess", i, NoInfo, "root")
           t == NewTraverser(ns)
<1>1. /\ stack = <<>> /\ ns \notin DOMAIN grammars /\ i \notin Listed
      /\ Read(DocOf(i)) /\ Opened(i, t, grammars) /\ stack' = <<f>>
  BY DEF TraverseSchema, Listed
<1>2. i \in Infos /\ DocOf(i) \in Docs /\ NSOf(i) = ns
  BY SchemaDocumentsAssumption DEF Infos, DocOf, NSOf
<1>3. f \in Rounds /\ f.info = i /\ f.type = "root"
  BY <1>2 DEF Round, Rounds
<1>4. IsTraverser(t) /\ t.fSchemaInfo = NoInfo /\ t.fCurrentGroupStack = <<>>
      /\ t.fPreprocessedNodes = EmptyTable
  BY DEF NewTraverser, IsTraverser, EmptyTable
<1> HIDE DEF i, f, t
<1>5. FilesOK' /\ FilesStay /\ DocOf(i) \in DOMAIN files'
  BY <1>1, <1>2, ReadIs, SoundIs
<1>6. /\ Listed' = Listed \cup {i} /\ TablesOK' /\ InfosKnown' /\ ListsOfOneNamespace'
      /\ AreGrammars(grammars') /\ DOMAIN grammars' = DOMAIN grammars \cup {ns}
      /\ \A x \in DOMAIN grammars : grammars'[x] = grammars[x]
      /\ grammars'[ns].groups = EmptyTable
      /\ IsTraverser(traverser') /\ traverser'.fSchemaInfo = i
      /\ traverser'.fSchemaGrammar = ns
      /\ traverser'.fPreprocessedNodes = EmptyTable
      /\ traverser'.fCurrentGroupStack = <<>>
  BY <1>1, <1>2, <1>4, <1>5, OpenedIs, SoundIs
<1>7. /\ stack' \in Seq(Frames) /\ stack' # <<>> /\ Top' = f
      /\ Calls' /\ OpenGroups' /\ ReadOnce' /\ \A x : Begun(x)' = {}
  BY <1>1, <1>3, <1>6, OneRound
<1>8. TypesOK'
  BY <1>5, <1>6, <1>7 DEF TypesOK
<1>9. NodesKnown' /\ NodesAcyclic'
  <2>1. Nodes' = {}
    BY <1>6 DEF Nodes, EmptyTable
  <2> QED
    BY <2>1 DEF NodesKnown, NodesAcyclic
<1>10. AtTop'
  BY <1>2, <1>3, <1>6, <1>7 DEF AtTop, CurrentNS
<1>11. ScopesCounted'
  <2>1. Registered(ns)' = {}
    BY <1>6 DEF Registered, Registry, EmptyTable
  <2>2. ASSUME NEW x \in DOMAIN grammars
        PROVE  Registered(x)' = Registered(x) /\ Count(x)' = Count(x)
    BY <1>1, <1>6, <1>7, <2>2 DEF Registered, Registry, Count, CountIn
  <2> QED
    BY <1>6, <1>7, <2>1, <2>2, ScopesStay, SoundIs
<1> QED
  BY <1>6, <1>7, <1>8, <1>9, <1>10, <1>11 DEF SchemaInv

LEMMA PassImportKeeps ==
  ASSUME SchemaInv, PassImport
  PROVE  SchemaInv'
<1> DEFINE ns == NextLink.ns
           d == NextLink.doc
           i == <<d, ns>>
<1>1. /\ AtLink("preprocess") /\ NextLink.kind = "import" /\ stack' = Advanced
      /\ UNCHANGED <<refs, includeLists, grammars>>
  BY DEF PassImport
<1>2. stack # <<>> /\ Top.phase = "preprocess"
  BY <1>1 DEF AtLink, Running
<1>3. NextLink.ns \in Namespaces /\ NextLink.doc \in Docs \cup {NoSource}
  BY <1>1, LinkIs DEF SchemaInv
<1>4. /\ UNCHANGED files \/ (d # NoSource /\ Read(d))
      /\ UNCHANGED fSchemaInfoList \/ (i \in Listed /\ fSchemaInfoList' = Importing(fSchemaInfoList, Top.info, i))
      /\ UNCHANGED traverser \/ traverser' = Imported(traverser, ns)
  BY DEF PassImport, Listed
<1> HIDE DEF i, d, ns
<1>5. FilesOK' /\ FilesStay
  BY <1>3, <1>4, ReadIs, SameFiles, SoundIs DEF d
<1>6. /\ Top.info \in Listed /\ traverser.fSchemaInfo = Top.info
      /\ CurrentNS = NSOf(Top.info) /\ Listed \subseteq Infos
  BY <1>2, CurrentIs
<1>7. /\ Listed' = Listed /\ fSchemaInfoList' \in [Listed -> InfoRecords]
      /\ \A x \in Listed :
           /\ fSchemaInfoList'[x].includes = Info(x).includes
           /\ \A k \in DOMAIN fSchemaInfoList'[x].imports : fSchemaInfoList'[x].imports[k] \in Listed
  <2>1. /\ fSchemaInfoList \in [Listed -> InfoRecords]
        /\ \A x \in Listed : \A k \in DOMAIN fSchemaInfoList[x].imports : fSchemaInfoList[x].imports[k] \in Listed
    BY DEF SchemaInv, TypesOK, TablesOK, InfosKnown, Info, Listed
  <2>2. CASE UNCHANGED fSchemaInfoList
    BY <2>1, <2>2 DEF Info, Listed
  <2>3. CASE i \in Listed /\ fSchemaInfoList' = Importing(fSchemaInfoList, Top.info, i)
    <3> DEFINE im == Importing(fSchemaInfoList, Top.info, i)
    <3>1. i \in Infos
      BY <1>6, <2>3
    <3>2. /\ im \in [Listed -> InfoRecords]
          /\ \A x \in Listed :
               /\ im[x].includes = fSchemaInfoList[x].includes
               /\ \A k \in DOMAIN im[x].imports :
                    \/ im[x].imports[k] = i
                    \/ k \in DOMAIN fSchemaInfoList[x].imports /\ im[x].imports[k] = fSchemaInfoList[x].imports[k]
      BY <1>6, <2>1, <3>1, ImportingIs
    <3>3. fSchemaInfoList' = im
      BY <2>3
    <3> HIDE DEF im
    <3> QED
      BY <2>1, <2>3, <3>2, <3>3 DEF Info, Listed
  <2> QED
    BY <1>4, <2>2, <2>3
<1>8. TablesOK'
  BY <1>1, <1>7 DEF SchemaInv, TypesOK, TablesOK, Listed
<1>9. InfosKnown'
  <2> SUFFICES ASSUME NEW x \in Listed
               PROVE  /\ DocOf(x) \in DOMAIN files' /\ NSOf(x) \in DOMAIN grammars
                      /\ fSchemaInfoList'[x].includes \in DOMAIN includeLists
                      /\ NSOf(fSchemaInfoList'[x].includes) = NSOf(x)
                      /\ \A k \in DOMAIN fSchemaInfoList'[x].imports :
                           fSchemaInfoList'[x].imports[k] \in Listed
    BY <1>1, <1>7 DEF InfosKnown, Info
  <2>1. DocOf(x) \in DOMAIN files /\ NSOf(x) \in DOMAIN grammars
        /\ Info(x).includes \in DOMAIN includeLists /\ NSOf(Info(x).includes) = NSOf(x)
    BY DEF SchemaInv, InfosKnown
  <2> QED
    BY <1>5, <1>7, <2>1 DEF FilesStay
<1>10. ListsOfOneNamespace'
  BY <1>1, <1>7 DEF SchemaInv, ListsOfOneNamespace
<1>11. /\ IsTraverser(traverser')
       /\ traverser'.fSchemaInfo = traverser.fSchemaInfo
       /\ traverser'.fSchemaGrammar = traverser.fSchemaGrammar
       /\ traverser'.fScopeCount = traverser.fScopeCount
       /\ traverser'.fPreprocessedNodes = traverser.fPreprocessedNodes
       /\ traverser'.fCurrentGroupStack = traverser.fCurrentGroupStack
  <2>1. IsTraverser(traverser) /\ ns \in Namespaces
    BY <1>3, SoundIs DEF ns
  <2>2. CASE UNCHANGED traverser
    BY <2>1, <2>2
  <2>3. CASE traverser' = Imported(traverser, ns)
    BY <2>1, <2>3 DEF Imported, IsTraverser
  <2> QED
    BY <1>4, <2>2, <2>3
<1>12. NodesKnown' /\ NodesAcyclic' /\ NodesKept
  BY <1>5, <1>7, <1>11, NodesStay, SoundIs
<1>13. /\ stack' \in Seq(Frames) /\ stack' # <<>> /\ Top'.info = Top.info
       /\ Calls' /\ OpenGroups' /\ ReadOnce' /\ \A x : Begun(x)' = Begun(x)
  <2>1. Top.at + 1 \in Nat \ {0} /\ stack' = GoneOn(Top.at + 1)
    BY <1>1, <1>2, TopIs, AdvancedIs DEF SchemaInv
  <2> QED
    BY <1>2, <1>7, <1>11, <1>12, <2>1, GoesOn, SoundIs
<1>14. TypesOK'
  BY <1>1, <1>5, <1>8, <1>11, <1>13 DEF SchemaInv, TypesOK
<1>15. AtTop'
  BY <1>6, <1>11, <1>13 DEF AtTop, CurrentNS
<1>16. ScopesCounted'
  BY <1>1, <1>2, <1>11, <1>13, ScopesGoOn, SoundIs DEF CountIn
<1> QED
  BY <1>9, <1>10, <1>12, <1>13, <1>14, <1>15, <1>16 DEF SchemaInv

LEMMA EndPreprocessKeeps ==
  ASSUME SchemaInv, EndPreprocess
  PROVE  SchemaInv'
<1>1. /\ stack # <<>> /\ Top.phase = "preprocess"
      /\ UNCHANGED <<files, refs, fSchemaInfoList, includeLists, errors>>
  BY DEF EndPreprocess, Running
<1>2. /\ Top.info \in Listed /\ Top.info \in Infos /\ traverser.fSchemaInfo = Top.info
      /\ CurrentNS = NSOf(Top.info) /\ traverser.fSchemaGrammar \in DOMAIN grammars
      /\ traverser.fSchemaGrammar = NSOf(Top.info)
  BY <1>1, CurrentIs DEF CurrentNS
<1>3. traverser.fCurrentGroupStack = <<>> /\ \A x : Begun(x) = {}
  BY <1>1, PhaseIs, SoundIs
<1>4. FilesOK' /\ FilesStay
  BY <1>1, SameFiles, SoundIs
<1>5. CASE Top.type = "root"
  <2> DEFINE f == Round("process", Top.info, NoInfo, "root")
  <2>1. stack' = <<f>> /\ UNCHANGED <<grammars, traverser>>
    BY <1>5 DEF EndPreprocess
  <2>2. f \in Rounds /\ f.info = Top.info /\ f.type = "root"
    BY <1>2 DEF Round, Rounds
  <2> HIDE DEF f
  <2>3. TablesOK' /\ InfosKnown' /\ ListsOfOneNamespace' /\ Listed' = Listed
    BY <1>1, <1>4, <2>1, InfosStay
  <2>4. NodesKnown' /\ NodesAcyclic' /\ NodesKept
    BY <1>4, <2>1, <2>3, NodesStay, SoundIs
  <2>5. /\ stack' \in Seq(Frames) /\ stack' # <<>> /\ Top' = f
        /\ Calls' /\ OpenGroups' /\ ReadOnce' /\ \A x : Begun(x)' = {}
    BY <1>2, <1>3, <2>1, <2>2, <2>3, OneRound
  <2>6. TypesOK'
    BY <1>4, <2>1, <2>3, <2>5 DEF SchemaInv, TypesOK
  <2>7. AtTop'
    BY <1>2, <2>1, <2>2, <2>5 DEF AtTop, CurrentNS
  <2>8. ScopesCounted'
    BY <1>1, <2>1, <2>5, ScopesGoOn, SoundIs DEF CountIn
  <2> QED
    BY <2>3, <2>4, <2>5, <2>6, <2>7, <2>8 DEF SchemaInv
<1>6. CASE Top.type # "root"
  <2>1. stack' = Below /\ Restore(traverser, grammars, Top.from, Top.type)
    BY <1>6 DEF EndPreprocess
  <2>2. Top.from \in Listed /\ Top.from \in Infos
        /\ (Top.type # "import" => NSOf(Top.from) = traverser.fSchemaGrammar)
    BY <1>1, <1>2, <1>6, FromIs
  <2>3. NSOf(Top.from) \in DOMAIN grammars
    BY <2>2 DEF SchemaInv, InfosKnown
  <2>4. /\ AreGrammars(grammars') /\ DOMAIN grammars' = DOMAIN grammars
        /\ IsTraverser(traverser') /\ traverser'.fSchemaInfo = Top.from
        /\ traverser'.fSchemaGrammar = NSOf(Top.from)
        /\ traverser'.fPreprocessedNodes = traverser.fPreprocessedNodes
        /\ traverser'.fCurrentGroupStack = traverser.fCurrentGroupStack
        /\ \A x \in DOMAIN grammars :
             /\ grammars'[x].groups = grammars[x].groups
             /\ CountIn(traverser', grammars', x) = CountIn(traverser, grammars, x)
    BY <1>2, <2>1, <2>2, <2>3, RestoreIs, SoundIs
  <2>5. TablesOK' /\ InfosKnown' /\ ListsOfOneNamespace' /\ Listed' = Listed
    BY <1>1, <1>4, <2>4, InfosStay
  <2>6. NodesKnown' /\ NodesAcyclic' /\ NodesKept
    BY <1>4, <2>4, <2>5, NodesStay, SoundIs
  <2>7. /\ stack' \in Seq(Frames) /\ Calls' /\ OpenGroups' /\ ReadOnce'
        /\ stack' # <<>> /\ Top'.info = Top.from
        /\ \A x : Begun(x)' \subseteq Begun(x)
    BY <1>1, <1>6, <2>1, <2>4, <2>5, <2>6, Returns, SoundIs
  <2>8. TypesOK'
    BY <1>4, <2>4, <2>5, <2>7 DEF SchemaInv, TypesOK
  <2>9. AtTop'
    BY <2>4, <2>7 DEF AtTop, CurrentNS
  <2>10. ScopesCounted'
    BY <1>1, <2>4, <2>7, ScopesGoOn, SoundIs
  <2> QED
    BY <2>5, <2>6, <2>7, <2>8, <2>9, <2>10 DEF SchemaInv
<1> QED
  BY <1>5, <1>6

LEMMA PreprocessImportKeeps ==
  ASSUME SchemaInv, PreprocessImport
  PROVE  SchemaInv'
<1> DEFINE ns == NextLink.ns
           d == NextLink.doc
           i == <<d, ns>>
           f == Round("preprocess", i, Top.info, "import")
           t == Noted(traverser, i)
           gr == Saved(grammars, traverser)
<1>1. /\ AtLink("preprocess") /\ NextLink.kind = "import" /\ ns # CurrentNS /\ d # NoSource
      /\ i \notin Listed /\ Read(d) /\ Opened(i, t, gr) /\ stack' = Append(Advanced, f)
      /\ NSOf(i) = ns /\ DocOf(i) = d
  BY DEF PreprocessImport, Call, Listed, NSOf, DocOf
<1>2. stack # <<>> /\ Top.phase = "preprocess"
  BY <1>1 DEF AtLink, Running
<1>3. ns \in Namespaces /\ d \in Docs /\ i \in Infos
  <2>1. NextLink.ns \in Namespaces /\ NextLink.doc \in Docs \cup {NoSource}
    BY <1>1, LinkIs DEF SchemaInv
  <2> QED
    BY <1>1, <2>1 DEF Infos
<1>4. /\ Top.info \in Listed /\ Top.info \in Infos /\ traverser.fSchemaInfo = Top.info
      /\ traverser.fSchemaGrammar \in DOMAIN grammars
      /\ traverser.fSchemaGrammar = NSOf(Top.info)
  BY <1>2, CurrentIs DEF CurrentNS
<1>5. f \in Rounds /\ f.info = i /\ f.type = "import" /\ f.from = Top.info /\ f.phase = "preprocess"
  BY <1>3, <1>4 DEF Round, Rounds
<1> HIDE DEF i, f
<1>6. /\ IsTraverser(t) /\ t.fSchemaInfo = traverser.fSchemaInfo
      /\ t.fPreprocessedNodes = With(traverser.fPreprocessedNodes, <<Top.info, Top.at>>, i)
      /\ t.fCurrentGroupStack = traverser.fCurrentGroupStack
  <2> DEFINE nodes == With(traverser.fPreprocessedNodes, <<Top.info, Top.at>>, i)
  <2>1. nodes \in [DOMAIN nodes -> Infos]
    BY <1>3, SoundIs DEF With, IsTraverser
  <2>2. t = [traverser EXCEPT !.fPreprocessedNodes = nodes]
    BY DEF Noted
  <2> HIDE DEF nodes
  <2>3. IsTraverser(t)
    BY <2>1, <2>2, SoundIs DEF IsTraverser
  <2>4. /\ t.fSchemaInfo = traverser.fSchemaInfo /\ t.fPreprocessedNodes = nodes
        /\ t.fCurrentGroupStack = traverser.fCurrentGroupStack
    BY <2>2, SoundIs DEF IsTraverser
  <2> QED
    BY <2>3, <2>4 DEF nodes
<1>7. /\ AreGrammars(gr) /\ DOMAIN gr = DOMAIN grammars
      /\ \A x \in DOMAIN grammars : /\ gr[x].groups = grammars[x].groups
                                    /\ gr[x].scopeCount = CountIn(traverser, grammars, x)
  BY <1>4, SavedIs, SoundIs
<1> HIDE DEF t, gr, d, ns
<1>8. FilesOK' /\ FilesStay /\ DocOf(i) \in DOMAIN files'
  BY <1>1, <1>3, ReadIs, SoundIs
<1>9. /\ Listed' = Listed \cup {i} /\ TablesOK' /\ InfosKnown' /\ ListsOfOneNamespace'
      /\ AreGrammars(grammars') /\ DOMAIN grammars' = DOMAIN grammars \cup {ns}
      /\ \A x \in DOMAIN grammars : grammars'[x] = gr[x]
      /\ ns \notin DOMAIN grammars => grammars'[ns].groups = EmptyTable
      /\ IsTraverser(traverser') /\ traverser'.fSchemaInfo = i
      /\ traverser'.fSchemaGrammar = ns
      /\ traverser'.fScopeCount = grammars'[ns].scopeCount
      /\ traverser'.fPreprocessedNodes = t.fPreprocessedNodes
      /\ traverser'.fCurrentGroupStack = t.fCurrentGroupStack
  <2>1. /\ i \in Infos /\ i \notin Listed /\ FilesStay /\ DocOf(i) \in DOMAIN files'
        /\ IsTraverser(t) /\ t.fSchemaInfo \in Listed \cup {NoInfo}
        /\ AreGrammars(gr) /\ DOMAIN gr = DOMAIN grammars /\ Opened(i, t, gr)
    BY <1>1, <1>3, <1>4, <1>6, <1>7, <1>8
  <2>2. /\ Listed' = Listed \cup {i} /\ TablesOK' /\ InfosKnown' /\ ListsOfOneNamespace'
        /\ AreGrammars(grammars') /\ DOMAIN grammars' = DOMAIN gr \cup {NSOf(i)}
        /\ \A x \in DOMAIN gr : grammars'[x] = gr[x]
        /\ NSOf(i) \notin DOMAIN gr => grammars'[NSOf(i)].groups = EmptyTable
        /\ IsTraverser(traverser') /\ traverser'.fSchemaInfo = i
        /\ traverser'.fSchemaGrammar = NSOf(i)
        /\ traverser'.fScopeCount = grammars'[NSOf(i)].scopeCount
        /\ traverser'.fPreprocessedNodes = t.fPreprocessedNodes
        /\ traverser'.fCurrentGroupStack = t.fCurrentGroupStack
    BY ONLY SchemaInv, <2>1, OpenedIs
  <2> QED
    BY <1>1, <1>7, <2>2
<1>10. NodesKnown' /\ NodesAcyclic'
  <2>1. files[DocOf(Top.info)][Top.at].kind = "import"
    BY <1>1 DEF NextLink
  <2> QED
    BY <1>1, <1>3, <1>4, <1>6, <1>8, <1>9, <2>1, NodeNoted, SoundIs
<1>11. /\ stack' \in Seq(Frames) /\ stack' # <<>> /\ Top' = f
       /\ Calls' /\ OpenGroups' /\ ReadOnce' /\ \A x : Begun(x)' = Begun(x)
  <2>1. Top.at + 1 \in Nat \ {0} /\ stack' = Append(GoneOn(Top.at + 1), f)
    BY <1>1, <1>2, TopIs, AdvancedIs DEF SchemaInv
  <2>2. stack[1].phase = "preprocess"
    <3>1. 1 \in DOMAIN stack /\ \A k \in DOMAIN stack : stack[k].phase = Top.phase
      BY <1>2, PhaseIs, TopIs, SoundIs DEF SchemaInv
    <3> QED
      BY <1>2, <3>1
  <2> QED
    BY <1>1, <1>2, <1>5, <1>6, <1>9, <2>1, <2>2, RoundBegins, SoundIs
<1>12. TypesOK'
  BY <1>8, <1>9, <1>11 DEF TypesOK
<1>13. AtTop'
  BY <1>1, <1>5, <1>9, <1>11 DEF AtTop, CurrentNS
<1>14. ScopesCounted'
  <2>1. \A x : Begun(x) = {}
    BY <1>2, PhaseIs, SoundIs
  <2>2. ASSUME NEW x \in DOMAIN grammars
        PROVE  Registered(x)' = Registered(x) /\ Count(x)' = Count(x)
    <3>1. grammars'[x].groups = grammars[x].groups
          /\ grammars'[x].scopeCount = CountIn(traverser, grammars, x)
      BY <1>7, <1>9
    <3>2. CountIn(traverser', grammars', x) = grammars'[x].scopeCount
      BY <1>9 DEF CountIn
    <3> QED
      BY <1>2, <1>11, <3>1, <3>2 DEF Registered, Registry, Count
  <2>3. ASSUME NEW x, x = ns, x \notin DOMAIN grammars
        PROVE  Registered(x)' = {}
    <3>1. grammars'[x].groups = EmptyTable
      BY <1>9, <2>3
    <3> QED
      BY <3>1 DEF Registered, Registry, EmptyTable
  <2>4. \A x \in DOMAIN grammars' : x \in DOMAIN grammars \/ x = ns
    BY <1>9
  <2> QED
    BY <1>11, <2>1, <2>2, <2>3, <2>4, ScopesStay, SoundIs
<1> QED
  BY <1>9, <1>10, <1>11, <1>12, <1>13, <1>14 DEF SchemaInv

LEMMA PreprocessIncludeKeeps ==
  ASSUME SchemaInv, PreprocessInclude
  PROVE  SchemaInv'
<1> DEFINE d == NextLink.doc
           i == <<d, CurrentNS>>
           own == Info(Top.info).includes
           f == Round("preprocess", i, Top.info, "include")
<1>1. /\ AtLink("preprocess") /\ NextLink.kind = "include" /\ UNCHANGED <<refs, grammars>>
      /\ stack # <<>> /\ Top.phase = "preprocess"
  BY DEF PreprocessInclude, AtLink, Running
<1>2. d \in Docs
  BY <1>1, LinkIs DEF SchemaInv
<1>3. /\ Top.info \in Listed /\ Top.info \in Infos /\ traverser.fSchemaInfo = Top.info
      /\ CurrentNS = NSOf(Top.info) /\ CurrentNS \in DOMAIN grammars /\ CurrentNS \in Namespaces
      /\ Listed \subseteq Infos
  BY <1>1, CurrentIs
<1>4. i \in Infos /\ NSOf(i) = CurrentNS /\ DocOf(i) = d
  BY <1>2, <1>3 DEF Infos, NSOf, DocOf
<1>5. own \in DOMAIN includeLists /\ NSOf(own) = CurrentNS
  BY <1>3 DEF SchemaInv, InfosKnown
<1>6. own \in Infos
  BY <1>5, SoundIs DEF TablesOK
<1>7. Top.at + 1 \in Nat \ {0} /\ Advanced = GoneOn(Top.at + 1)
  BY <1>1, TopIs, AdvancedIs DEF SchemaInv
<1>8. stack[1].phase = "preprocess"
  <2>1. 1 \in DOMAIN stack /\ \A k \in DOMAIN stack : stack[k].phase = Top.phase
    BY <1>1, PhaseIs, TopIs, SoundIs DEF SchemaInv
  <2> QED
    BY <1>1, <2>1
<1>9. f \in Rounds /\ f.info = i /\ f.type = "include" /\ f.from = Top.info /\ f.phase = "preprocess"
  BY <1>3, <1>4 DEF Round, Rounds
<1> HIDE DEF i, own, d, f
<1>10. CASE /\ i \in Listed /\ includeLists' = Merged(own, i) /\ stack' = Advanced
            /\ UNCHANGED <<files, fSchemaInfoList, traverser, errors>>
  <2>1. FilesOK' /\ FilesStay
    BY <1>10, SameFiles, SoundIs
  <2>2. /\ includeLists' \in [DOMAIN includeLists -> Seq(Infos)]
        /\ \A o \in DOMAIN includeLists : Fit(includeLists'[o], NSOf(o))
    BY <1>4, <1>5, <1>10, MergedIs DEF SchemaInv
  <2>3. Listed' = Listed /\ TablesOK'
    BY <1>10, <2>2, SoundIs DEF TablesOK, Listed
  <2>4. InfosKnown'
    BY <1>1, <1>10, <2>1, <2>2, <2>3 DEF SchemaInv, InfosKnown, Info, FilesStay
  <2>5. ListsOfOneNamespace'
    BY <2>2, <2>3 DEF ListsOfOneNamespace, Fit
  <2>6. NodesKnown' /\ NodesAcyclic' /\ NodesKept
    BY <1>10, <2>1, <2>3, NodesStay, SoundIs
  <2>7. /\ stack' \in Seq(Frames) /\ stack' # <<>> /\ Top'.info = Top.info
        /\ Calls' /\ OpenGroups' /\ ReadOnce' /\ \A x : Begun(x)' = Begun(x)
    BY <1>1, <1>7, <1>10, <2>3, <2>6, GoesOn, SoundIs
  <2>8. TypesOK'
    BY <1>1, <1>10, <2>1, <2>3, <2>7 DEF SchemaInv, TypesOK
  <2>9. AtTop'
    BY <1>3, <1>10, <2>7 DEF AtTop, CurrentNS
  <2>10. ScopesCounted'
    BY <1>1, <1>10, <2>7, ScopesGoOn, SoundIs DEF CountIn
  <2> QED
    BY <2>4, <2>5, <2>6, <2>7, <2>8, <2>9, <2>10 DEF SchemaInv
<1>11. CASE /\ i \notin Listed /\ Read(d) /\ stack' = Advanced
            /\ UNCHANGED <<fSchemaInfoList, includeLists, traverser>>
  <2>1. FilesOK' /\ FilesStay
    BY <1>2, <1>11, ReadIs, SoundIs
  <2>2. TablesOK' /\ InfosKnown' /\ ListsOfOneNamespace' /\ Listed' = Listed
    BY <1>1, <1>11, <2>1, InfosStay
  <2>3. NodesKnown' /\ NodesAcyclic' /\ NodesKept
    BY <1>11, <2>1, <2>2, NodesStay, SoundIs
  <2>4. /\ stack' \in Seq(Frames) /\ stack' # <<>> /\ Top'.info = Top.info
        /\ Calls' /\ OpenGroups' /\ ReadOnce' /\ \A x : Begun(x)' = Begun(x)
    BY <1>1, <1>7, <1>11, <2>2, <2>3, GoesOn, SoundIs
  <2>5. TypesOK'
    BY <1>1, <1>11, <2>1, <2>2, <2>4 DEF SchemaInv, TypesOK
  <2>6. AtTop'
    BY <1>3, <1>11, <2>4 DEF AtTop, CurrentNS
  <2>7. ScopesCounted'
    BY <1>1, <1>11, <2>4, ScopesGoOn, SoundIs DEF CountIn
  <2> QED
    BY <2>2, <2>3, <2>4, <2>5, <2>6, <2>7 DEF SchemaInv
<1>12. CASE /\ i \notin Listed /\ Read(d)
            /\ fSchemaInfoList' = With(fSchemaInfoList, i, NewInfo(own))
            /\ includeLists' = Shared(includeLists, own, i)
            /\ traverser' = [Noted(traverser, i) EXCEPT !.fSchemaInfo = i]
            /\ stack' = Append(Advanced, f)
  <2>1. FilesOK' /\ FilesStay /\ DocOf(i) \in DOMAIN files'
    BY <1>2, <1>4, <1>12, ReadIs, SoundIs
  <2>2. /\ IsTraverser(traverser') /\ traverser'.fSchemaInfo = i
        /\ traverser'.fSchemaGrammar = traverser.fSchemaGrammar
        /\ traverser'.fScopeCount = traverser.fScopeCount
        /\ traverser'.fPreprocessedNodes = With(traverser.fPreprocessedNodes, <<Top.info, Top.at>>, i)
        /\ traverser'.fCurrentGroupStack = traverser.fCurrentGroupStack
    <3> DEFINE nodes == With(traverser.fPreprocessedNodes, <<Top.info, Top.at>>, i)
    <3>1. nodes \in [DOMAIN nodes -> Infos]
      BY <1>4, SoundIs DEF With, IsTraverser
    <3>2. traverser' = [traverser EXCEPT !.fPreprocessedNodes = nodes, !.fSchemaInfo = i]
      BY <1>12 DEF Noted
    <3> HIDE DEF nodes
    <3>3. IsTraverser(traverser')
      BY <1>4, <3>1, <3>2, SoundIs DEF IsTraverser
    <3>4. /\ traverser'.fSchemaInfo = i
          /\ traverser'.fSchemaGrammar = traverser.fSchemaGrammar
          /\ traverser'.fScopeCount = traverser.fScopeCount
          /\ traverser'.fPreprocessedNodes = nodes
          /\ traverser'.fCurrentGroupStack = traverser.fCurrentGroupStack
      BY <3>2, SoundIs DEF IsTraverser
    <3> QED
      BY <3>3, <3>4 DEF nodes
  <2>3. /\ Listed' = Listed \cup {i} /\ fSchemaInfoList' \in [Listed \cup {i} -> InfoRecords]
        /\ fSchemaInfoList'[i] = NewInfo(own)
        /\ \A x \in Listed : fSchemaInfoList'[x] = Info(x)
    <3>1. NewInfo(own) \in InfoRecords
      BY <1>6 DEF NewInfo, InfoRecords
    <3> QED
      BY <1>12, <3>1, SoundIs DEF With, Listed, TablesOK, Info
  <2>4. /\ includeLists' \in [DOMAIN includeLists -> Seq(Infos)]
        /\ \A o \in DOMAIN includeLists : o # own => includeLists'[o] = includeLists[o]
        /\ includeLists'[own] = Append(includeLists[own], i) /\ includeLists[own] \in Seq(Infos)
    BY <1>4, <1>5, <1>12, SoundIs DEF Shared, TablesOK
  <2>5. TablesOK'
    BY <1>3, <1>4, <2>3, <2>4, SoundIs DEF TablesOK, Listed
  <2>6. InfosKnown'
    <3> SUFFICES ASSUME NEW x \in Listed \cup {i}
                 PROVE  /\ DocOf(x) \in DOMAIN files' /\ NSOf(x) \in DOMAIN grammars
                        /\ fSchemaInfoList'[x].includes \in DOMAIN includeLists
                        /\ NSOf(fSchemaInfoList'[x].includes) = NSOf(x)
                        /\ \A k \in DOMAIN fSchemaInfoList'[x].imports :
                             fSchemaInfoList'[x].imports[k] \in Listed'
      BY <1>1, <2>3, <2>4 DEF InfosKnown, Info
    <3>1. CASE x = i
      BY <1>3, <1>4, <1>5, <2>1, <2>3, <3>1 DEF NewInfo
    <3>2. CASE x \in Listed
      <4>1. /\ DocOf(x) \in DOMAIN files /\ NSOf(x) \in DOMAIN grammars
            /\ Info(x).includes \in DOMAIN includeLists /\ NSOf(Info(x).includes) = NSOf(x)
            /\ \A k \in DOMAIN Info(x).imports : Info(x).imports[k] \in Listed
        BY <3>2 DEF SchemaInv, InfosKnown
      <4>2. DocOf(x) \in DOMAIN files'
        BY <2>1, <4>1 DEF FilesStay
      <4>3. fSchemaInfoList'[x] = Info(x) /\ Listed \subseteq Listed'
        BY <2>3, <3>2
      <4> QED
        BY <4>1, <4>2, <4>3
    <3> QED
      BY <3>1, <3>2
  <2>7. ListsOfOneNamespace'
    <3> SUFFICES ASSUME NEW o \in DOMAIN includeLists, NEW k \in DOMAIN includeLists'[o]
                 PROVE  includeLists'[o][k] \in Listed' /\ NSOf(includeLists'[o][k]) = NSOf(o)
      BY <2>4 DEF ListsOfOneNamespace
    <3>1. CASE o = own
      <4>1. \/ includeLists'[own][k] = i
            \/ k \in DOMAIN includeLists[own] /\ includeLists'[own][k] = includeLists[own][k]
        BY <2>4, <3>1
      <4> QED
        BY <1>4, <1>5, <2>3, <3>1, <4>1 DEF SchemaInv, ListsOfOneNamespace
    <3>2. CASE o # own
      BY <2>3, <2>4, <3>2 DEF SchemaInv, ListsOfOneNamespace
    <3> QED
      BY <3>1, <3>2
  <2>8. NodesKnown' /\ NodesAcyclic'
    BY <1>3, <1>4, <1>12, <2>1, <2>2, <2>3, NodeNoted, SoundIs
  <2>9. /\ stack' \in Seq(Frames) /\ stack' # <<>> /\ Top' = f
        /\ Calls' /\ OpenGroups' /\ ReadOnce' /\ \A x : Begun(x)' = Begun(x)
    BY <1>1, <1>3, <1>4, <1>7, <1>8, <1>9, <1>12, <2>2, <2>3, RoundBegins, SoundIs
  <2>10. TypesOK'
    BY <1>1, <2>1, <2>2, <2>5, <2>9 DEF SchemaInv, TypesOK
  <2>11. AtTop'
    BY <1>3, <1>4, <1>9, <2>2, <2>9 DEF AtTop, CurrentNS
  <2>12. ScopesCounted'
    BY <1>1, <2>2, <2>9, ScopesGoOn, SoundIs DEF CountIn
  <2> QED
    BY <2>6, <2>7, <2>8, <2>9, <2>10, <2>11, <2>12 DEF SchemaInv
<1> QED
  BY <1>10, <1>11, <1>12 DEF PreprocessInclude, Call, Listed, d, i, own, f

LEMMA TraverseLinkKeeps ==
  ASSUME SchemaInv, TraverseLink
  PROVE  SchemaInv'
<1> DEFINE node == <<Top.info, Top.at>>
<1>1. /\ AtLink("process") /\ stack # <<>> /\ Top.phase = "process"
      /\ UNCHANGED <<files, refs, fSchemaInfoList, includeLists, errors>>
  BY DEF TraverseLink, AtLink, Running
<1>2. /\ Top.info \in Listed /\ Top.info \in Infos /\ traverser.fSchemaInfo = Top.info
      /\ traverser.fSchemaGrammar \in DOMAIN grammars /\ Listed \subseteq Infos
      /\ traverser.fSchemaGrammar = NSOf(Top.info)
  BY <1>1, CurrentIs DEF CurrentNS
<1>3. NextLink.kind \in {"include", "import"}
  BY <1>1, LinkIs DEF SchemaInv
<1>4. FilesOK' /\ FilesStay
  BY <1>1, SameFiles, SoundIs
<1>5. Top.at + 1 \in Nat \ {0} /\ Advanced = GoneOn(Top.at + 1)
  BY <1>1, TopIs, AdvancedIs DEF SchemaInv
<1>6. CASE node \notin Nodes
  <2>1. stack' = Advanced /\ UNCHANGED <<traverser, grammars>>
    BY <1>6 DEF TraverseLink, Nodes
  <2>2. TablesOK' /\ InfosKnown' /\ ListsOfOneNamespace' /\ Listed' = Listed
    BY <1>1, <1>4, <2>1, InfosStay
  <2>3. NodesKnown' /\ NodesAcyclic' /\ NodesKept
    BY <1>4, <2>1, <2>2, NodesStay, SoundIs
  <2>4. /\ stack' \in Seq(Frames) /\ stack' # <<>> /\ Top'.info = Top.info
        /\ Calls' /\ OpenGroups' /\ ReadOnce' /\ \A x : Begun(x)' = Begun(x)
    BY <1>1, <1>5, <2>1, <2>2, <2>3, GoesOn, SoundIs
  <2>5. TypesOK'
    BY <1>4, <2>1, <2>2, <2>4 DEF SchemaInv, TypesOK
  <2>6. AtTop'
    BY <1>2, <2>1, <2>4 DEF AtTop, CurrentNS
  <2>7. ScopesCounted'
    BY <1>1, <2>1, <2>4, ScopesGoOn, SoundIs DEF CountIn
  <2> QED
    BY <2>2, <2>3, <2>4, <2>5, <2>6, <2>7 DEF SchemaInv
<1>7. CASE node \in Nodes
  <2> DEFINE i == Child(node)
             f == Round("process", i, Top.info, NextLink.kind)
  <2>1. Restore(traverser, grammars, i, NextLink.kind) /\ stack' = Append(Advanced, f)
    BY <1>7 DEF TraverseLink, Nodes, Child, Call
  <2>2. node[1] = Top.info /\ node[2] = Top.at /\ NextLink = files[DocOf(Top.info)][Top.at]
    BY DEF NextLink
  <2> HIDE DEF node
  <2>3. i \in Listed /\ (NextLink.kind # "import" => NSOf(i) = NSOf(Top.info))
    BY <1>7, <2>2 DEF SchemaInv, NodesKnown
  <2>4. i \in Infos /\ NSOf(i) \in DOMAIN grammars
    BY <1>2, <2>3 DEF SchemaInv, InfosKnown
  <2>5. f \in Rounds /\ f.info = i /\ f.type = NextLink.kind /\ f.from = Top.info /\ f.phase = "process"
    BY <1>2, <1>3, <2>4 DEF Round, Rounds
  <2> HIDE DEF i, f
  <2>6. /\ AreGrammars(grammars') /\ DOMAIN grammars' = DOMAIN grammars
        /\ IsTraverser(traverser') /\ traverser'.fSchemaInfo = i
        /\ traverser'.fSchemaGrammar = NSOf(i)
        /\ traverser'.fPreprocessedNodes = traverser.fPreprocessedNodes
        /\ traverser'.fCurrentGroupStack = traverser.fCurrentGroupStack
        /\ \A x \in DOMAIN grammars :
             /\ grammars'[x].groups = grammars[x].groups
             /\ CountIn(traverser', grammars', x) = CountIn(traverser, grammars, x)
    BY <1>2, <2>1, <2>3, <2>4, RestoreIs, SoundIs
  <2>7. TablesOK' /\ InfosKnown' /\ ListsOfOneNamespace' /\ Listed' = Listed
    BY <1>1, <1>4, <2>6, InfosStay
  <2>8. NodesKnown' /\ NodesAcyclic' /\ NodesKept
    BY <1>4, <2>6, <2>7, NodesStay, SoundIs
  <2>9. \E n \in Nodes' : n[1] = f.from /\ Child(n)' = f.info
    <3>1. PICK n \in Nodes : n = node
      BY <1>7
    <3>2. n \in Nodes' /\ Child(n)' = Child(n)
      BY <2>8 DEF NodesKept
    <3>3. Child(n) = i /\ n[1] = Top.info
      BY <2>2, <3>1 DEF i
    <3> QED
      BY <2>5, <3>2, <3>3
  <2>10. /\ stack' \in Seq(Frames) /\ stack' # <<>> /\ Top' = f
         /\ Calls' /\ OpenGroups' /\ ReadOnce' /\ \A x : Begun(x)' = Begun(x)
    <3>1. f.type # "root" /\ (f.type # "import" => NSOf(f.info) = NSOf(f.from)) /\ f.info \in Listed'
      BY <1>3, <2>3, <2>5, <2>7
    <3> QED
      BY <1>1, <1>5, <2>1, <2>5, <2>6, <2>7, <2>8, <2>9, <3>1, RoundBegins, SoundIs
  <2>11. TypesOK'
    BY <1>4, <2>6, <2>7, <2>10 DEF SchemaInv, TypesOK
  <2>12. AtTop'
    BY <2>5, <2>6, <2>10 DEF AtTop, CurrentNS
  <2>13. ScopesCounted'
    BY <1>1, <2>6, <2>10, ScopesGoOn, SoundIs
  <2> QED
    BY <2>7, <2>8, <2>10, <2>11, <2>12, <2>13 DEF SchemaInv
<1> QED
  BY <1>6, <1>7

LEMMA EndProcessKeeps ==
  ASSUME SchemaInv, EndProcess
  PROVE  SchemaInv'
<1>1. /\ stack # <<>> /\ Top.phase = "process" /\ stack' = Below
      /\ UNCHANGED <<files, refs, includeLists, errors>>
  BY DEF EndProcess, Running
<1>2. /\ Top.info \in Listed /\ traverser.fSchemaGrammar \in DOMAIN grammars
      /\ traverser.fSchemaGrammar = NSOf(Top.info) /\ traverser.fSchemaInfo = Top.info
  BY <1>1, CurrentIs DEF CurrentNS
<1>3. FilesOK' /\ FilesStay
  BY <1>1, SameFiles, SoundIs
<1>4. /\ Listed' = Listed /\ fSchemaInfoList' \in [Listed -> InfoRecords]
      /\ \A x \in Listed : /\ fSchemaInfoList'[x].includes = Info(x).includes
                           /\ fSchemaInfoList'[x].imports = Info(x).imports
  <2> DEFINE done == IF Top.type = "include" THEN fSchemaInfoList
                     ELSE [fSchemaInfoList EXCEPT ![Top.info].fProcessed = TRUE]
  <2>1. fSchemaInfoList \in [Listed -> InfoRecords]
    BY SoundIs DEF TablesOK, Listed
  <2>2. /\ done \in [Listed -> InfoRecords]
        /\ \A x \in Listed : /\ done[x].includes = fSchemaInfoList[x].includes
                             /\ done[x].imports = fSchemaInfoList[x].imports
    BY <1>2, <2>1 DEF InfoRecords
  <2>3. \/ fSchemaInfoList' = done
        \/ fSchemaInfoList' = [x \in DOMAIN done |-> [done[x] EXCEPT !.root = FALSE]]
    BY DEF EndProcess
  <2> HIDE DEF done
  <2>4. CASE fSchemaInfoList' = done
    BY <2>2, <2>4 DEF Listed, Info
  <2>5. CASE fSchemaInfoList' = [x \in DOMAIN done |-> [done[x] EXCEPT !.root = FALSE]]
    <3>1. \A x \in Listed : fSchemaInfoList'[x] = [done[x] EXCEPT !.root = FALSE]
      BY <2>2, <2>5
    <3>2. DOMAIN fSchemaInfoList' = Listed /\ fSchemaInfoList' = [x \in Listed |-> fSchemaInfoList'[x]]
      BY <2>2, <2>5
    <3>3. ASSUME NEW x \in Listed
          PROVE  /\ fSchemaInfoList'[x] \in InfoRecords
                 /\ fSchemaInfoList'[x].includes = fSchemaInfoList[x].includes
                 /\ fSchemaInfoList'[x].imports = fSchemaInfoList[x].imports
      BY <2>2, <3>1 DEF InfoRecords
    <3> QED
      BY <3>2, <3>3 DEF Listed, Info
  <2> QED
    BY <2>3, <2>4, <2>5
<1>5. TablesOK'
  BY <1>1, <1>4, SoundIs DEF TablesOK, Listed
<1>6. ListsOfOneNamespace'
  BY <1>1, <1>4 DEF SchemaInv, ListsOfOneNamespace
<1>7. ASSUME DOMAIN grammars' = DOMAIN grammars PROVE InfosKnown'
  <2> SUFFICES ASSUME NEW x \in Listed
               PROVE  /\ DocOf(x) \in DOMAIN files' /\ NSOf(x) \in DOMAIN grammars'
                      /\ fSchemaInfoList'[x].includes \in DOMAIN includeLists
                      /\ NSOf(fSchemaInfoList'[x].includes) = NSOf(x)
                      /\ \A k \in DOMAIN fSchemaInfoList'[x].imports :
                           fSchemaInfoList'[x].imports[k] \in Listed
    BY <1>1, <1>4 DEF InfosKnown, Info
  <2>1. /\ DocOf(x) \in DOMAIN files /\ NSOf(x) \in DOMAIN grammars
        /\ Info(x).includes \in DOMAIN includeLists /\ NSOf(Info(x).includes) = NSOf(x)
        /\ \A k \in DOMAIN Info(x).imports : Info(x).imports[k] \in Listed
    BY DEF SchemaInv, InfosKnown
  <2> QED
    BY <1>3, <1>4, <1>7, <2>1 DEF FilesStay
<1>8. CASE Top.type = "root"
  <2>1. grammars' = Saved(grammars, traverser) /\ UNCHANGED traverser
    BY <1>8 DEF EndProcess
  <2>2. /\ AreGrammars(grammars') /\ DOMAIN grammars' = DOMAIN grammars
        /\ \A x \in DOMAIN grammars : /\ grammars'[x].groups = grammars[x].groups
                                      /\ grammars'[x].scopeCount = CountIn(traverser, grammars, x)
    BY <1>2, <2>1, SavedIs, SoundIs
  <2>3. NodesKnown' /\ NodesAcyclic' /\ NodesKept
    BY <1>3, <1>4, <2>1, NodesStay, SoundIs
  <2>4. /\ stack' \in Seq(Frames) /\ Calls' /\ OpenGroups' /\ ReadOnce' /\ stack' = <<>>
        /\ \A x : Begun(x)' \subseteq Begun(x)
    BY <1>1, <1>4, <1>8, <2>1, <2>3, Returns, SoundIs
  <2>5. TypesOK'
    BY <1>3, <1>5, <2>1, <2>2, <2>4 DEF SchemaInv, TypesOK
  <2>6. AtTop'
    BY <2>4 DEF AtTop
  <2>7. ScopesCounted'
    BY <1>1, <2>2, <2>4, ScopesGoOn, SoundIs
  <2> QED
    BY <1>6, <1>7, <2>2, <2>3, <2>4, <2>5, <2>6, <2>7 DEF SchemaInv
<1>9. CASE Top.type # "root"
  <2>1. Restore(traverser, grammars, Top.from, Top.type)
    BY <1>9 DEF EndProcess
  <2>2. Top.from \in Listed /\ Top.from \in Infos
        /\ (Top.type # "import" => NSOf(Top.from) = traverser.fSchemaGrammar)
    BY <1>1, <1>2, <1>9, FromIs
  <2>3. NSOf(Top.from) \in DOMAIN grammars
    BY <2>2 DEF SchemaInv, InfosKnown
  <2>4. /\ AreGrammars(grammars') /\ DOMAIN grammars' = DOMAIN grammars
        /\ IsTraverser(traverser') /\ traverser'.fSchemaInfo = Top.from
        /\ traverser'.fSchemaGrammar = NSOf(Top.from)
        /\ traverser'.fPreprocessedNodes = traverser.fPreprocessedNodes
        /\ traverser'.fCurrentGroupStack = traverser.fCurrentGroupStack
        /\ \A x \in DOMAIN grammars :
             /\ grammars'[x].groups = grammars[x].groups
             /\ CountIn(traverser', grammars', x) = CountIn(traverser, grammars, x)
    BY <1>2, <2>1, <2>2, <2>3, RestoreIs, SoundIs
  <2>5. NodesKnown' /\ NodesAcyclic' /\ NodesKept
    BY <1>3, <1>4, <2>4, NodesStay, SoundIs
  <2>6. /\ stack' \in Seq(Frames) /\ Calls' /\ OpenGroups' /\ ReadOnce'
        /\ stack' # <<>> /\ Top'.info = Top.from
        /\ \A x : Begun(x)' \subseteq Begun(x)
    BY <1>1, <1>4, <1>9, <2>4, <2>5, Returns, SoundIs
  <2>7. TypesOK'
    BY <1>3, <1>5, <2>4, <2>6 DEF SchemaInv, TypesOK
  <2>8. AtTop'
    BY <2>4, <2>6 DEF AtTop, CurrentNS
  <2>9. ScopesCounted'
    BY <1>1, <2>4, <2>6, ScopesGoOn, SoundIs
  <2> QED
    BY <1>6, <1>7, <2>4, <2>5, <2>6, <2>7, <2>8, <2>9 DEF SchemaInv
<1> QED
  BY <1>8, <1>9

\* What is begun and what is registered, in numbers.
LEMMA ScopesAreNumbers ==
  ASSUME SchemaInv, NEW ns \in DOMAIN grammars
  PROVE  /\ \A x \in Registered(ns) \cup Begun(ns) : x[2] \in Nat
         /\ CountIn(traverser, grammars, ns) \in Nat
<1>1. IsGrammar(grammars[ns])
  BY SoundIs DEF AreGrammars
<1>2. \A x \in Registered(ns) : x[2] \in Nat
  BY <1>1 DEF Registered, Registry, IsGrammar, Entries
<1>3. \A x \in Begun(ns) : x[2] \in Nat
  <2> SUFFICES ASSUME NEW p \in DOMAIN stack, stack[p].phase = "group"
               PROVE  stack[p].scope \in Nat
    BY DEF Begun
  <2>1. stack[p] \in Frames
    BY DEF SchemaInv, TypesOK
  <2> QED
    BY <2>1 DEF Frames, Rounds, GroupCalls
<1>4. CountIn(traverser, grammars, ns) \in Nat
  BY <1>1, SoundIs DEF CountIn, IsGrammar, IsTraverser
<1> QED
  BY <1>2, <1>3, <1>4

\* A group is begun in its document, with the traverser t and the grammars gr
\* that the search has left.
LEMMA GroupCallKeeps ==
  ASSUME SchemaInv, stack # <<>>, UNCHANGED <<files, fSchemaInfoList, includeLists>>,
         NEW t, IsTraverser(t), AreGrammars(grammars'), DOMAIN grammars' = DOMAIN grammars,
         t.fSchemaGrammar \in DOMAIN grammars,
         t.fPreprocessedNodes = traverser.fPreprocessedNodes,
         t.fCurrentGroupStack = traverser.fCurrentGroupStack,
         \A ns \in DOMAIN grammars :
           /\ grammars'[ns].groups = grammars[ns].groups
           /\ CountIn(t, grammars', ns) = CountIn(traverser, grammars, ns),
         NEW i \in Listed, NSOf(i) = t.fSchemaGrammar,
         NEW name \in GroupNames, NEW type \in {"declaration", "include", "import"},
         type # "import" => NSOf(i) = NSOf(Top.info),
         GroupCall(t, i, name, Top.info, type),
         ~Contains(traverser.fCurrentGroupStack, <<NSOf(i), name>>)
  PROVE  SchemaInv'
<1> DEFINE f == [phase |-> "group", info |-> i, from |-> Top.info, type |-> type, at |-> 1,
                 group |-> name, scope |-> t.fScopeCount]
           t2 == [t EXCEPT !.fSchemaInfo = i, !.fScopeCount = @ + 1,
                           !.fCurrentGroupStack = Append(@, <<NSOf(i), name>>)]
<1>1. traverser' = t2 /\ stack' = Append(Advanced, f)
  BY DEF GroupCall, Call
<1>2. /\ Top.info \in Listed /\ Top.info \in Infos /\ i \in Infos
      /\ NSOf(i) \in Namespaces
  <2>1. i \in Infos
    BY CurrentIs
  <2> QED
    BY <2>1, CurrentIs DEF Infos, NSOf
<1>3. t.fScopeCount \in Nat
  BY DEF IsTraverser
<1>4. f \in GroupCalls /\ f.info = i /\ f.from = Top.info /\ f.type = type /\ f.group = name
      /\ f.scope = t.fScopeCount
  BY <1>2, <1>3 DEF GroupCalls
<1>5. /\ IsTraverser(t2) /\ t2.fSchemaInfo = i /\ t2.fSchemaGrammar = t.fSchemaGrammar
      /\ t2.fScopeCount = t.fScopeCount + 1
      /\ t2.fPreprocessedNodes = t.fPreprocessedNodes
      /\ t2.fCurrentGroupStack = Append(t.fCurrentGroupStack, <<NSOf(i), name>>)
  <2> DEFINE full == <<NSOf(i), name>>
             open2 == Append(t.fCurrentGroupStack, full)
  <2>1. full \in Namespaces \X GroupNames
    BY <1>2
  <2> HIDE DEF full
  <2>2. open2 \in Seq(Namespaces \X GroupNames)
    BY <2>1 DEF IsTraverser
  <2>3. t2 = [t EXCEPT !.fSchemaInfo = i, !.fScopeCount = t.fScopeCount + 1, !.fCurrentGroupStack = open2]
    BY DEF IsTraverser, full
  <2> DEFINE count == t.fScopeCount + 1
  <2>4. count \in Nat /\ IsTraverser(t)
    BY <1>3
  <2> HIDE DEF open2, t2, count
  <2>5. t2 = [t EXCEPT !.fSchemaInfo = i, !.fScopeCount = count, !.fCurrentGroupStack = open2]
    BY <2>3 DEF count
  <2>6. IsTraverser(t2)
    BY <1>2, <2>2, <2>4, <2>5 DEF IsTraverser
  <2>7. /\ t2.fSchemaInfo = i /\ t2.fSchemaGrammar = t.fSchemaGrammar
        /\ t2.fScopeCount = count
        /\ t2.fPreprocessedNodes = t.fPreprocessedNodes
        /\ t2.fCurrentGroupStack = open2
    BY <2>4, <2>5 DEF IsTraverser
  <2> QED
    BY <2>6, <2>7 DEF open2, full, count
<1> HIDE DEF f, t2
<1>6. FilesOK' /\ FilesStay
  BY SameFiles, SoundIs
<1>7. TablesOK' /\ InfosKnown' /\ ListsOfOneNamespace' /\ Listed' = Listed
  BY <1>6, InfosStay
<1>8. NodesKnown' /\ NodesAcyclic' /\ NodesKept
  BY <1>1, <1>5, <1>6, <1>7, NodesStay, SoundIs
<1>9. /\ stack' \in Seq(Frames) /\ stack' # <<>> /\ Top' = f
      /\ Calls' /\ OpenGroups' /\ ReadOnce'
      /\ \A ns : Begun(ns)' \subseteq
           Begun(ns) \cup (IF NSOf(f.info) = ns THEN {<<f.group, f.scope>>} ELSE {})
  <2>1. Top.at + 1 \in Nat \ {0} /\ stack' = Append(GoneOn(Top.at + 1), f)
    BY <1>1, TopIs, AdvancedIs DEF SchemaInv
  <2>2. traverser'.fCurrentGroupStack
          = Append(traverser.fCurrentGroupStack, <<NSOf(f.info), f.group>>)
    BY <1>1, <1>4, <1>5
  <2>3. f.info \in Listed' /\ (f.type # "import" => NSOf(f.info) = NSOf(f.from))
        /\ ~Contains(traverser.fCurrentGroupStack, <<NSOf(f.info), f.group>>)
    BY <1>4, <1>7
  <2> QED
    BY <1>4, <1>7, <1>8, <2>1, <2>2, <2>3, GroupBegins, SoundIs
<1>10. TypesOK'
  BY <1>1, <1>5, <1>6, <1>7, <1>9 DEF TypesOK
<1>11. AtTop'
  BY <1>1, <1>4, <1>5, <1>9 DEF AtTop, CurrentNS
<1>12. ScopesCounted'
  <2>1. ASSUME NEW ns \in DOMAIN grammars
        PROVE  /\ Count(ns) \in Nat
               /\ Registered(ns)' = Registered(ns)
               /\ IF ns = NSOf(i)
                  THEN /\ Count(ns)' = Count(ns) + 1
                       /\ Begun(ns)' \subseteq Begun(ns) \cup {<<name, Count(ns)>>}
                  ELSE Count(ns)' = Count(ns) /\ Begun(ns)' \subseteq Begun(ns)
               /\ \A x \in Registered(ns) \cup Begun(ns) : x[2] \in Nat
    <3>1. CountIn(t, grammars', ns) = CountIn(traverser, grammars, ns)
          /\ grammars'[ns].groups = grammars[ns].groups
      OBVIOUS
    <3>2. Count(ns) = CountIn(t, grammars', ns) /\ Count(ns)' = CountIn(t2, grammars', ns)
      BY <1>1, <1>9, <3>1 DEF Count
    <3>3. Count(ns) \in Nat /\ \A x \in Registered(ns) \cup Begun(ns) : x[2] \in Nat
      BY ScopesAreNumbers DEF Count
    <3>4. Registered(ns)' = Registered(ns)
      BY <3>1 DEF Registered, Registry
    <3>5. CASE ns = NSOf(i)
      <4>1. Count(ns) = t.fScopeCount /\ Count(ns)' = t.fScopeCount + 1
        BY <1>5, <3>2, <3>5 DEF CountIn
      <4>2. Begun(ns)' \subseteq Begun(ns) \cup {<<name, t.fScopeCount>>}
        BY <1>4, <1>9, <3>5
      <4> QED
        BY <3>3, <3>4, <3>5, <4>1, <4>2
    <3>6. CASE ns # NSOf(i)
      <4>1. Count(ns)' = Count(ns)
        BY <1>5, <3>2, <3>6 DEF CountIn
      <4>2. Begun(ns)' \subseteq Begun(ns)
        BY <1>4, <1>9, <3>6
      <4> QED
        BY <3>3, <3>4, <3>6, <4>1, <4>2
    <3> QED
      BY <3>5, <3>6
  <2>2. ScopesCounted
    BY SoundIs
  <2> HIDE DEF SchemaInv
  <2>3. \A ns \in DOMAIN grammars :
          /\ Count(ns) \in Nat
          /\ Registered(ns)' = Registered(ns)
          /\ IF ns = NSOf(i)
             THEN /\ Count(ns)' = Count(ns) + 1
                  /\ Begun(ns)' \subseteq Begun(ns) \cup {<<name, Count(ns)>>}
             ELSE Count(ns)' = Count(ns) /\ Begun(ns)' \subseteq Begun(ns)
    BY <2>1
  <2>4. \A ns \in DOMAIN grammars : \A x \in Registered(ns) \cup Begun(ns) : x[2] \in Nat
    BY <2>1
  <2>5. DOMAIN grammars' = DOMAIN grammars
    OBVIOUS
  <2> QED
    BY ONLY <2>2, <2>3, <2>4, <2>5, ScopeTaken
<1> QED
  BY <1>7, <1>8, <1>9, <1>10, <1>11, <1>12 DEF SchemaInv

LEMMA TraverseGroupKeeps ==
  ASSUME SchemaInv, TraverseGroup
  PROVE  SchemaInv'
<1> DEFINE name == Groups(Top.info)[NextGroup]
           full == <<CurrentNS, name>>
           t == [traverser EXCEPT !.fGlobalDeclarations = @ \cup {full}]
<1>1. /\ stack # <<>> /\ Top.phase = "process" /\ NextGroup \in DOMAIN Groups(Top.info)
      /\ UNCHANGED <<files, refs, fSchemaInfoList, includeLists, grammars>>
  BY DEF TraverseGroup, Running
<1>2. /\ Top.info \in Listed /\ Top.info \in Infos /\ traverser.fSchemaInfo = Top.info
      /\ traverser.fSchemaGrammar \in DOMAIN grammars /\ CurrentNS \in Namespaces
      /\ traverser.fSchemaGrammar = NSOf(Top.info) /\ CurrentNS = NSOf(Top.info)
  BY <1>1, CurrentIs DEF CurrentNS
<1>3. name \in GroupNames
  <2>1. DocOf(Top.info) \in Docs
    BY <1>2 DEF Infos, DocOf
  <2>2. name \in ToSet(Declares[DocOf(Top.info)])
    BY <1>1 DEF ToSet, Groups
  <2> QED
    BY <2>1, <2>2 DEF GroupNames
<1> HIDE DEF name
<1>4. full \in Namespaces \X GroupNames
  BY <1>2, <1>3
<1>5. /\ IsTraverser(t) /\ t.fSchemaInfo = traverser.fSchemaInfo
      /\ t.fSchemaGrammar = traverser.fSchemaGrammar
      /\ t.fScopeCount = traverser.fScopeCount
      /\ t.fPreprocessedNodes = traverser.fPreprocessedNodes
      /\ t.fCurrentGroupStack = traverser.fCurrentGroupStack
  <2> HIDE DEF full
  <2> QED
    BY <1>4, SoundIs DEF IsTraverser
<1>6. \/ stack' = Advanced /\ (UNCHANGED traverser \/ traverser' = t)
      \/ GroupCall(t, Top.info, name, Top.info, "declaration")
  BY DEF TraverseGroup, name
<1> HIDE DEF t, full
<1>7. CASE stack' = Advanced /\ (UNCHANGED traverser \/ traverser' = t)
  <2>1. FilesOK' /\ FilesStay
    BY <1>1, SameFiles, SoundIs
  <2>2. TablesOK' /\ InfosKnown' /\ ListsOfOneNamespace' /\ Listed' = Listed
    BY <1>1, <2>1, InfosStay
  <2>3. /\ IsTraverser(traverser') /\ traverser'.fSchemaInfo = traverser.fSchemaInfo
        /\ traverser'.fSchemaGrammar = traverser.fSchemaGrammar
        /\ traverser'.fScopeCount = traverser.fScopeCount
        /\ traverser'.fPreprocessedNodes = traverser.fPreprocessedNodes
        /\ traverser'.fCurrentGroupStack = traverser.fCurrentGroupStack
    BY <1>5, <1>7, SoundIs
  <2>4. NodesKnown' /\ NodesAcyclic' /\ NodesKept
    BY <2>1, <2>2, <2>3, NodesStay, SoundIs
  <2>5. /\ stack' \in Seq(Frames) /\ stack' # <<>> /\ Top'.info = Top.info
        /\ Calls' /\ OpenGroups' /\ ReadOnce' /\ \A x : Begun(x)' = Begun(x)
    <3>1. Top.at + 1 \in Nat \ {0} /\ stack' = GoneOn(Top.at + 1)
      BY <1>1, <1>7, TopIs, AdvancedIs DEF SchemaInv
    <3> QED
      BY <1>1, <2>2, <2>3, <2>4, <3>1, GoesOn, SoundIs
  <2>6. TypesOK'
    BY <1>1, <2>1, <2>2, <2>3, <2>5 DEF SchemaInv, TypesOK
  <2>7. AtTop'
    BY <1>2, <2>3, <2>5 DEF AtTop, CurrentNS
  <2>8. ScopesCounted'
    BY <1>1, <2>3, <2>5, ScopesGoOn, SoundIs DEF CountIn
  <2> QED
    BY <2>2, <2>4, <2>5, <2>6, <2>7, <2>8 DEF SchemaInv
<1>8. CASE GroupCall(t, Top.info, name, Top.info, "declaration")
  <2>1. ~Contains(traverser.fCurrentGroupStack, <<NSOf(Top.info), name>>)
    <3>1. traverser.fCurrentGroupStack = <<>>
      BY <1>1, PhaseIs, SoundIs
    <3> QED
      BY <3>1 DEF Contains
  <2>2. AreGrammars(grammars') /\ DOMAIN grammars' = DOMAIN grammars
    BY <1>1, SoundIs
  <2>3. \A ns \in DOMAIN grammars :
           /\ grammars'[ns].groups = grammars[ns].groups
           /\ CountIn(t, grammars', ns) = CountIn(traverser, grammars, ns)
    BY <1>1, <1>5 DEF CountIn
  <2>4. UNCHANGED <<files, fSchemaInfoList, includeLists>>
    BY <1>1
  <2> QED
    BY <1>1, <1>2, <1>3, <1>5, <1>8, <2>1, <2>2, <2>3, <2>4, GroupCallKeeps
<1> QED
  BY <1>6, <1>7, <1>8

LEMMA EndGroupKeeps ==
  ASSUME SchemaInv, EndGroup
  PROVE  SchemaInv'
<1> DEFINE t == [traverser EXCEPT !.fCurrentGroupStack = Front(@)]
           entry == [scope |-> Top.scope, info |-> Top.info]
           table == With(Registry(CurrentNS), Top.group, entry)
           gr == [grammars EXCEPT ![CurrentNS].groups = table]
           open == traverser.fCurrentGroupStack
<1>1. /\ stack # <<>> /\ Top.phase = "group" /\ stack' = Below
      /\ Restore(t, gr, Top.from, Top.type)
      /\ UNCHANGED <<files, refs, fSchemaInfoList, includeLists, errors>>
  BY DEF EndGroup, Running, Registry
<1>2. /\ Top.info \in Listed /\ Top.info \in Infos
      /\ traverser.fSchemaGrammar \in DOMAIN grammars /\ CurrentNS \in DOMAIN grammars
      /\ traverser.fSchemaGrammar = NSOf(Top.info) /\ CurrentNS = NSOf(Top.info)
  BY <1>1, CurrentIs DEF CurrentNS
<1>3. Top \in GroupCalls
  BY <1>1, TopIs DEF SchemaInv, Frames, Rounds
<1>4. Top.group \in GroupNames /\ Top.scope \in Nat /\ Top.type # "root" /\ entry \in Entries
  BY <1>2, <1>3 DEF GroupCalls, Entries
<1>5. open \in Seq(Namespaces \X GroupNames) /\ open # <<>>
  BY <1>1, PhaseIs, SoundIs
<1>6. Front(open) \in Seq(Namespaces \X GroupNames)
  <2>1. Front(open) = SubSeq(open, 1, Len(open) - 1) /\ Len(open) - 1 \in 0 .. Len(open)
    BY <1>5 DEF Front
  <2> HIDE DEF open
  <2> QED
    BY <1>5, <2>1, PrefixIs
<1>7. /\ IsTraverser(t) /\ t.fSchemaGrammar = traverser.fSchemaGrammar
      /\ t.fScopeCount = traverser.fScopeCount
      /\ t.fPreprocessedNodes = traverser.fPreprocessedNodes
      /\ t.fCurrentGroupStack = Front(open)
  <2> DEFINE open2 == Front(open)
  <2>1. t = [traverser EXCEPT !.fCurrentGroupStack = open2]
    OBVIOUS
  <2>2. open2 \in Seq(Namespaces \X GroupNames)
    BY <1>6
  <2> HIDE DEF open2, t
  <2>3. /\ IsTraverser(t) /\ t.fSchemaGrammar = traverser.fSchemaGrammar
        /\ t.fScopeCount = traverser.fScopeCount
        /\ t.fPreprocessedNodes = traverser.fPreprocessedNodes
        /\ t.fCurrentGroupStack = open2
    BY <2>1, <2>2, SoundIs DEF IsTraverser
  <2> QED
    BY <2>3 DEF open2
<1> HIDE DEF entry
<1>8. /\ AreGrammars(gr) /\ DOMAIN gr = DOMAIN grammars
      /\ \A ns \in DOMAIN grammars : /\ gr[ns].scopeCount = grammars[ns].scopeCount
                                     /\ ns # CurrentNS => gr[ns] = grammars[ns]
      /\ gr[CurrentNS].groups = table
  <2>1. grammars[CurrentNS] \in [groups : [DOMAIN Registry(CurrentNS) -> Entries], scopeCount : Nat]
    BY <1>2, SoundIs DEF AreGrammars, IsGrammar, Registry
  <2>2. table \in [DOMAIN table -> Entries]
    BY <1>4, <2>1 DEF With, Registry
  <2> HIDE DEF table
  <2>3. DOMAIN gr = DOMAIN grammars /\ gr[CurrentNS] = [grammars[CurrentNS] EXCEPT !.groups = table]
        /\ \A ns \in DOMAIN grammars : ns # CurrentNS => gr[ns] = grammars[ns]
    BY <1>2, SoundIs DEF AreGrammars
  <2>4. gr = [ns \in DOMAIN gr |-> gr[ns]]
    OBVIOUS
  <2> HIDE DEF gr
  <2>5. /\ IsGrammar(gr[CurrentNS]) /\ gr[CurrentNS].scopeCount = grammars[CurrentNS].scopeCount
        /\ gr[CurrentNS].groups = table
    BY <2>1, <2>2, <2>3 DEF IsGrammar
  <2>6. AreGrammars(gr)
    BY <2>3, <2>4, <2>5, SoundIs DEF AreGrammars
  <2> QED
    BY <2>3, <2>5, <2>6
<1> HIDE DEF t, gr, table
<1>9. Top.from \in Listed /\ Top.from \in Infos
      /\ (Top.type # "import" => NSOf(Top.from) = t.fSchemaGrammar)
  BY <1>1, <1>2, <1>4, <1>7, FromIs
<1>10. NSOf(Top.from) \in DOMAIN gr
  BY <1>8, <1>9 DEF SchemaInv, InfosKnown
<1>11. /\ AreGrammars(grammars') /\ DOMAIN grammars' = DOMAIN grammars
       /\ IsTraverser(traverser') /\ traverser'.fSchemaInfo = Top.from
       /\ traverser'.fSchemaGrammar = NSOf(Top.from)
       /\ traverser'.fPreprocessedNodes = traverser.fPreprocessedNodes
       /\ traverser'.fCurrentGroupStack = Front(open)
       /\ \A ns \in DOMAIN grammars :
            /\ grammars'[ns].groups = gr[ns].groups
            /\ CountIn(traverser', grammars', ns) = CountIn(t, gr, ns)
  <2>1. t.fSchemaGrammar \in DOMAIN gr
    BY <1>2, <1>7, <1>8
  <2>2. /\ AreGrammars(grammars') /\ DOMAIN grammars' = DOMAIN gr
        /\ IsTraverser(traverser') /\ traverser'.fSchemaInfo = Top.from
        /\ traverser'.fSchemaGrammar = NSOf(Top.from)
        /\ traverser'.fPreprocessedNodes = t.fPreprocessedNodes
        /\ traverser'.fCurrentGroupStack = t.fCurrentGroupStack
        /\ \A ns \in DOMAIN gr :
             /\ grammars'[ns].groups = gr[ns].groups
             /\ CountIn(traverser', grammars', ns) = CountIn(t, gr, ns)
    BY <1>1, <1>7, <1>8, <1>9, <1>10, <2>1, RestoreIs
  <2> HIDE DEF open
  <2> QED
    BY <1>7, <1>8, <2>2
<1>12. FilesOK' /\ FilesStay
  BY <1>1, SameFiles, SoundIs
<1>13. TablesOK' /\ InfosKnown' /\ ListsOfOneNamespace' /\ Listed' = Listed
  BY <1>1, <1>11, <1>12, InfosStay
<1>14. NodesKnown' /\ NodesAcyclic' /\ NodesKept
  BY <1>11, <1>12, <1>13, NodesStay, SoundIs
<1>15. /\ stack' \in Seq(Frames) /\ Calls' /\ OpenGroups' /\ ReadOnce'
       /\ stack' # <<>> /\ Top'.info = Top.from
       /\ \A ns : Begun(ns)' \subseteq Begun(ns)
       /\ <<Top.group, Top.scope>> \in Begun(NSOf(Top.info))
  BY <1>1, <1>4, <1>11, <1>13, <1>14, Returns, SoundIs
<1>16. TypesOK'
  BY <1>11, <1>12, <1>13, <1>15 DEF TypesOK
<1>17. AtTop'
  BY <1>11, <1>15 DEF AtTop, CurrentNS
<1>18. ScopesCounted'
  <2>1. ASSUME NEW ns \in DOMAIN grammars
        PROVE  /\ Count(ns)' = Count(ns)
               /\ Registered(ns)' \cup Begun(ns)' \subseteq Registered(ns) \cup Begun(ns)
    <3>1. Count(ns)' = Count(ns)
      <4>1. CountIn(t, gr, ns) = CountIn(traverser, grammars, ns)
        BY <1>7, <1>8 DEF CountIn
      <4> QED
        BY <1>1, <1>11, <1>15, <4>1 DEF Count
    <3>2. CASE ns = CurrentNS
      <4>1. grammars'[ns].groups = With(Registry(ns), Top.group, entry)
        BY <1>8, <1>11, <3>2 DEF table
      <4>2. \A n \in DOMAIN With(Registry(ns), Top.group, entry) :
              \/ n = Top.group /\ With(Registry(ns), Top.group, entry)[n].scope = Top.scope
              \/ n \in DOMAIN Registry(ns) /\ With(Registry(ns), Top.group, entry)[n] = Registry(ns)[n]
        BY DEF With, entry
      <4>3. Registered(ns)' \subseteq Registered(ns) \cup {<<Top.group, Top.scope>>}
        BY <4>1, <4>2 DEF Registered, Registry
      <4> QED
        BY <1>2, <1>15, <3>1, <3>2, <4>3
    <3>3. CASE ns # CurrentNS
      <4>1. grammars'[ns].groups = grammars[ns].groups
        BY <1>8, <1>11, <3>3
      <4>2. Registered(ns)' = Registered(ns)
        BY <4>1 DEF Registered, Registry
      <4> QED
        BY <1>15, <3>1, <4>2
    <3> QED
      BY <3>2, <3>3
  <2> QED
    BY <1>11, <2>1, ScopesStay, SoundIs
<1> QED
  BY <1>13, <1>14, <1>15, <1>16, <1>17, <1>18 DEF SchemaInv

LEMMA ProcessGroupRefKeeps ==
  ASSUME SchemaInv, ProcessGroupRef
  PROVE  SchemaInv'
<1>1. /\ stack # <<>> /\ Top.phase = "group"
      /\ UNCHANGED <<files, fSchemaInfoList, includeLists>>
  BY DEF ProcessGroupRef, Running
<1>2. /\ Top.info \in Listed /\ Top.info \in Infos /\ traverser.fSchemaInfo = Top.info
      /\ traverser.fSchemaGrammar \in DOMAIN grammars /\ CurrentNS = traverser.fSchemaGrammar
      /\ traverser.fSchemaGrammar = NSOf(Top.info)
  BY <1>1, CurrentIs DEF CurrentNS
<1>3. /\ AreGrammars(Saved(grammars, traverser)) /\ DOMAIN Saved(grammars, traverser) = DOMAIN grammars
      /\ \A ns \in DOMAIN grammars :
           /\ Saved(grammars, traverser)[ns].groups = grammars[ns].groups
           /\ Saved(grammars, traverser)[ns].scopeCount = CountIn(traverser, grammars, ns)
  BY <1>2, SavedIs, SoundIs
<1>4. ASSUME stack' = GoneOn(2), UNCHANGED traverser,
             UNCHANGED grammars \/ grammars' = Saved(grammars, traverser)
      PROVE  SchemaInv'
  <2>1. /\ AreGrammars(grammars') /\ DOMAIN grammars' = DOMAIN grammars
        /\ \A ns \in DOMAIN grammars :
             /\ grammars'[ns].groups = grammars[ns].groups
             /\ CountIn(traverser, grammars', ns) = CountIn(traverser, grammars, ns)
    BY <1>3, <1>4, SoundIs DEF CountIn
  <2>2. FilesOK' /\ FilesStay
    BY <1>1, SameFiles, SoundIs
  <2>3. TablesOK' /\ InfosKnown' /\ ListsOfOneNamespace' /\ Listed' = Listed
    BY <1>1, <2>1, <2>2, InfosStay
  <2>4. NodesKnown' /\ NodesAcyclic' /\ NodesKept
    BY <1>4, <2>2, <2>3, NodesStay, SoundIs
  <2>5. /\ stack' \in Seq(Frames) /\ stack' # <<>> /\ Top'.info = Top.info
        /\ Calls' /\ OpenGroups' /\ ReadOnce' /\ \A ns : Begun(ns)' = Begun(ns)
    <3>1. 2 \in Nat \ {0}
      OBVIOUS
    <3> QED
      BY <1>1, <1>4, <2>3, <2>4, <3>1, GoesOn, SoundIs
  <2>6. TypesOK'
    BY <1>4, <2>1, <2>2, <2>3, <2>5 DEF SchemaInv, TypesOK
  <2>7. AtTop'
    BY <1>2, <1>4, <2>5 DEF AtTop, CurrentNS
  <2>8. ScopesCounted'
    BY <1>1, <1>4, <2>1, <2>5, ScopesGoOn, SoundIs
  <2> QED
    BY <2>3, <2>4, <2>5, <2>6, <2>7, <2>8 DEF SchemaInv
<1>5. ASSUME NEW full, full = <<full[1], full[2]>>, Followed(full)
      PROVE  SchemaInv'
  <2>1. PICK i \in SearchedFrom(full) : \E home \in Declaring(i, full[2]) :
          GroupCall(IF Foreign(full) THEN Restored(traverser, grammars, i) ELSE traverser,
                 home, full[2], traverser.fSchemaInfo,
                 IF Foreign(full) THEN "import" ELSE "include")
    BY <1>5 DEF Followed
  <2>2. PICK home \in Declaring(i, full[2]) :
          GroupCall(IF Foreign(full) THEN Restored(traverser, grammars, i) ELSE traverser,
                 home, full[2], Top.info,
                 IF Foreign(full) THEN "import" ELSE "include")
    BY <1>2, <2>1
  <2>3. ~Contains(traverser.fCurrentGroupStack, full)
    BY <1>5 DEF Followed, Refusal, Circular
  <2>4. i \in Listed /\ NSOf(i) = full[1]
    <3>1. CASE Foreign(full)
      BY <1>2, <3>1, ImportInfoIs DEF SearchedFrom, SchemaInv
    <3>2. CASE ~Foreign(full)
      BY <1>2, <3>2 DEF SearchedFrom, Foreign
    <3> QED
      BY <3>1, <3>2
  <2>5. home \in Listed /\ NSOf(home) = NSOf(i) /\ full[2] \in GroupNames
    BY <2>4, DeclaringIs DEF SchemaInv
  <2>6. i \in Infos /\ NSOf(i) \in DOMAIN grammars
    BY <2>4, SoundIs DEF SchemaInv, InfosKnown, TablesOK, Listed
  <2>7. <<NSOf(home), full[2]>> = full
    BY <1>5, <2>4, <2>5
  <2>8. UNCHANGED <<files, fSchemaInfoList, includeLists>>
    BY <1>1
  <2>9. CASE Foreign(full)
    <3> DEFINE sv == Saved(grammars, traverser)
               t == Restored(traverser, grammars, i)
    <3>1. grammars' = sv
      BY <1>5, <2>9 DEF Followed
    <3>2. sv[NSOf(i)].scopeCount \in Nat /\ NSOf(i) \in Namespaces
      BY <1>3, <2>6 DEF AreGrammars, IsGrammar
    <3>3. t = [traverser EXCEPT !.fSchemaInfo = i, !.fSchemaGrammar = NSOf(i),
                                !.fScopeCount = sv[NSOf(i)].scopeCount]
      BY DEF Restored
    <3>4. GroupCall(t, home, full[2], Top.info, "import")
      BY <2>2, <2>9
    <3>5. /\ AreGrammars(sv) /\ DOMAIN sv = DOMAIN grammars
          /\ \A ns \in DOMAIN grammars : /\ sv[ns].groups = grammars[ns].groups
                                         /\ sv[ns].scopeCount = CountIn(traverser, grammars, ns)
      BY <1>3
    <3> HIDE DEF sv, t
    <3>6. /\ IsTraverser(t) /\ t.fSchemaGrammar = NSOf(i)
          /\ t.fScopeCount = sv[NSOf(i)].scopeCount
          /\ t.fPreprocessedNodes = traverser.fPreprocessedNodes
          /\ t.fCurrentGroupStack = traverser.fCurrentGroupStack
      BY <2>6, <3>2, <3>3, SoundIs DEF IsTraverser
    <3>7. \A ns \in DOMAIN grammars :
            /\ grammars'[ns].groups = grammars[ns].groups
            /\ CountIn(t, grammars', ns) = CountIn(traverser, grammars, ns)
      BY <3>1, <3>5, <3>6 DEF CountIn
    <3>8. NSOf(home) = t.fSchemaGrammar /\ t.fSchemaGrammar \in DOMAIN grammars
      BY <2>5, <2>6, <3>6
    <3>9. ~Contains(traverser.fCurrentGroupStack, <<NSOf(home), full[2]>>)
      BY <2>3, <2>7
    <3>10. AreGrammars(grammars') /\ DOMAIN grammars' = DOMAIN grammars
      BY <3>1, <3>5
    <3> QED
      BY <1>1, <2>5, <2>8, <3>4, <3>6, <3>7, <3>8, <3>9, <3>10, GroupCallKeeps
  <2>10. CASE ~Foreign(full)
    <3>1. UNCHANGED grammars /\ GroupCall(traverser, home, full[2], Top.info, "include")
      BY <1>5, <2>2, <2>10 DEF Followed
    <3>2. NSOf(home) = traverser.fSchemaGrammar /\ NSOf(home) = NSOf(Top.info)
      BY <1>2, <2>4, <2>5, <2>10 DEF Foreign
    <3>3. ~Contains(traverser.fCurrentGroupStack, <<NSOf(home), full[2]>>)
      BY <2>3, <2>7
    <3>4. IsTraverser(traverser) /\ AreGrammars(grammars') /\ DOMAIN grammars' = DOMAIN grammars
      BY <3>1, SoundIs
    <3>5. \A ns \in DOMAIN grammars :
            /\ grammars'[ns].groups = grammars[ns].groups
            /\ CountIn(traverser, grammars', ns) = CountIn(traverser, grammars, ns)
      BY <3>1
    <3> QED
      BY <1>1, <1>2, <2>5, <2>8, <3>1, <3>2, <3>3, <3>4, <3>5, GroupCallKeeps
  <2> QED
    BY <2>9, <2>10
<1>6. CASE Looked /\ UNCHANGED <<grammars, traverser>>
  BY <1>4, <1>6 DEF Looked, GoneOn
<1>7. ASSUME NEW r, \E full \in {Resolved(Top.info, r)} :
               Refused(full) \/ Known(full) \/ NotDeclared(full) \/ Followed(full)
      PROVE  SchemaInv'
  <2>1. PICK full : /\ full = <<full[1], full[2]>>
                    /\ Refused(full) \/ Known(full) \/ NotDeclared(full) \/ Followed(full)
    BY <1>7 DEF Resolved
  <2>2. CASE Refused(full) \/ Known(full) \/ NotDeclared(full)
    <3>1. /\ stack' = GoneOn(2) /\ UNCHANGED traverser
          /\ UNCHANGED grammars \/ grammars' = Saved(grammars, traverser)
      BY <2>2 DEF Refused, Known, NotDeclared, Looked, GoneOn
    <3> QED
      BY <1>4, <3>1
  <2>3. CASE Followed(full)
    BY <1>5, <2>1, <2>3
  <2> QED
    BY <2>1, <2>2, <2>3
<1>8. \/ Looked /\ UNCHANGED <<grammars, traverser>>
      \/ \E r : \E full \in {Resolved(Top.info, r)} :
           Refused(full) \/ Known(full) \/ NotDeclared(full) \/ Followed(full)
  BY DEF ProcessGroupRef
<1> QED
  BY <1>6, <1>7, <1>8

LEMMA InitSchema == Init => SchemaInv
<1> SUFFICES ASSUME Init PROVE SchemaInv
  OBVIOUS
<1>1. /\ files = EmptyTable /\ fSchemaInfoList = EmptyTable /\ includeLists = EmptyTable
      /\ grammars = EmptyTable /\ stack = <<>> /\ traverser = NewTraverser(NoNS)
  BY DEF Init
<1>2. /\ DOMAIN files = {} /\ Listed = {} /\ DOMAIN includeLists = {} /\ DOMAIN grammars = {}
      /\ DOMAIN stack = {} /\ Len(stack) = 0
  BY <1>1 DEF EmptyTable, Listed
<1>3. /\ IsTraverser(traverser) /\ traverser.fCurrentGroupStack = <<>>
      /\ traverser.fPreprocessedNodes = EmptyTable
  BY <1>1 DEF NewTraverser, IsTraverser, EmptyTable
<1>4. Nodes = {}
  BY <1>3 DEF Nodes, EmptyTable
<1>5. FilesOK /\ TablesOK
  BY <1>1 DEF FilesOK, TablesOK, EmptyTable
<1>6. AreGrammars(grammars)
  BY <1>1 DEF AreGrammars, EmptyTable
<1>7. TypesOK
  BY <1>1, <1>3, <1>5, <1>6 DEF TypesOK
<1>8. InfosKnown /\ ListsOfOneNamespace /\ Calls /\ AtTop /\ ReadOnce /\ ScopesCounted
  BY <1>1, <1>2 DEF InfosKnown, ListsOfOneNamespace, Calls, AtTop, ReadOnce, ScopesCounted
<1>9. NodesKnown /\ NodesAcyclic
  BY <1>4 DEF NodesKnown, NodesAcyclic
<1>10. OpenGroups
  <2> DEFINE open == traverser.fCurrentGroupStack
  <2>1. DOMAIN open = {} /\ Len(open) = 0
    BY <1>3
  <2> HIDE DEF open
  <2>2. GroupsOpen(stack, open)
    BY <1>2, <2>1 DEF GroupsOpen
  <2> QED
    BY <2>2 DEF OpenGroups, open
<1> QED
  BY <1>7, <1>8, <1>9, <1>10 DEF SchemaInv

LEMMA SchemaInvStep ==
  ASSUME SchemaInv, [Next]_vars
  PROVE  SchemaInv'
<1>1. CASE \E ns \in Namespaces : TraverseSchema(ns)
  BY <1>1, TraverseSchemaKeeps
<1>2. CASE PreprocessInclude
  BY <1>2, PreprocessIncludeKeeps
<1>3. CASE PassImport
  BY <1>3, PassImportKeeps
<1>4. CASE PreprocessImport
  BY <1>4, PreprocessImportKeeps
<1>5. CASE EndPreprocess
  BY <1>5, EndPreprocessKeeps
<1>6. CASE TraverseLink
  BY <1>6, TraverseLinkKeeps
<1>7. CASE TraverseGroup
  BY <1>7, TraverseGroupKeeps
<1>8. CASE EndProcess
  BY <1>8, EndProcessKeeps
<1>9. CASE ProcessGroupRef
  BY <1>9, ProcessGroupRefKeeps
<1>10. CASE EndGroup
  BY <1>10, EndGroupKeeps
<1>11. CASE ScanReset
  <2>1. Init'
    BY <1>11 DEF ScanReset, Init
  <2> QED
    BY <2>1, InitSchema, PTL
<1>12. CASE UNCHANGED vars
  <2>1. UNCHANGED <<files, fSchemaInfoList, includeLists, grammars, traverser, stack>>
    BY <1>12 DEF vars
  <2>2. TypesOK' /\ InfosKnown' /\ ListsOfOneNamespace'
    <3>1. FilesOK' /\ FilesStay
      BY <2>1, SoundIs, SameFiles
    <3>2. TablesOK' /\ InfosKnown' /\ ListsOfOneNamespace'
      BY <2>1, <3>1, InfosStay
    <3>3. AreGrammars(grammars') /\ IsTraverser(traverser') /\ stack' \in Seq(Frames)
      BY <2>1 DEF SchemaInv, TypesOK
    <3> QED
      BY <3>1, <3>2, <3>3 DEF TypesOK
  <2>3. NodesKnown' /\ NodesAcyclic' /\ Calls'
    <3>1. FilesStay /\ Listed' = Listed /\ Nodes' = Nodes
      BY <2>1, SoundIs, SameFiles DEF Listed, Nodes
    <3>2. NodesKnown' /\ NodesAcyclic'
      BY <2>1, <3>1, NodesStay, SoundIs
    <3>3. \A node \in Nodes : Child(node)' = Child(node)
      BY <2>1 DEF Child
    <3>4. Calls'
      BY <2>1, <3>1, <3>3 DEF SchemaInv, Calls
    <3> QED
      BY <3>2, <3>4
  <2>4. AtTop' /\ OpenGroups' /\ ReadOnce'
    BY <2>1 DEF SchemaInv, AtTop, OpenGroups, ReadOnce, Top, CurrentNS
  <2>5. ScopesCounted'
    BY <2>1 DEF SchemaInv, ScopesCounted, Count, Registered, Registry, Begun
  <2> QED
    BY <2>2, <2>3, <2>4, <2>5 DEF SchemaInv
<1> QED
  BY <1>1, <1>2, <1>3, <1>4, <1>5, <1>6, <1>7, <1>8, <1>9, <1>10, <1>11, <1>12 DEF Next

\* The traverser always knows where it is.
THEOREM SchemaInvariant == SchemaDocumentsSpec => []SchemaInv
<1>1. Init => SchemaInv
  BY InitSchema
<1>2. SchemaInv /\ [Next]_vars => SchemaInv'
  BY SchemaInvStep
<1> QED
  BY <1>1, <1>2, PTL DEF SchemaDocumentsSpec

LEMMA ScopesFromInv == SchemaInv => ScopesAreUnique
BY DEF SchemaInv, ScopesCounted, ScopesAreUnique, Registered, Begun

\* Of two calls of the second round for documents, with only such calls between them,
\* the later is not for the document of the earlier: each is for a child of the one before.
LEMMA RoundsDiffer ==
  ASSUME SchemaInv, NEW p \in DOMAIN stack, NEW q \in DOMAIN stack, p < q,
         \A k \in p .. q : stack[k].phase = "process"
  PROVE  stack[p].info # stack[q].info
<1> SUFFICES ASSUME stack[p].info = stack[q].info PROVE FALSE
  OBVIOUS
<1> DEFINE S == {stack[k].info : k \in (p + 1) .. q}
<1>1. Len(stack) \in Nat /\ DOMAIN stack = 1 .. Len(stack)
  BY DEF SchemaInv, TypesOK
<1>2. \A k \in DOMAIN stack : stack[k].info \in Infos
  BY DEF SchemaInv, Calls, TypesOK, TablesOK, Listed
<1>3. S \in SUBSET Infos /\ stack[q].info \in S
  BY <1>1, <1>2
<1> HIDE DEF S
<1>4. PICK x \in S : \A node \in Nodes : Child(node) = x => node[1] \notin S
  BY <1>3 DEF SchemaInv, NodesAcyclic
<1>5. PICK k \in (p + 1) .. q : x = stack[k].info
  BY DEF S
<1>6. k \in DOMAIN stack /\ k > 1 /\ k \in p .. q
  BY <1>1
<1>7. PICK node \in Nodes : node[1] = stack[k - 1].info /\ Child(node) = x
  BY <1>5, <1>6 DEF SchemaInv, Calls
<1>8. stack[k - 1].info \in S
  <2>1. CASE k = p + 1
    <3>1. k - 1 = p
      BY <1>1, <2>1
    <3> QED
      BY <1>3, <3>1
  <2>2. CASE k # p + 1
    <3>1. k - 1 \in (p + 1) .. q
      BY <1>1, <2>2
    <3> QED
      BY <3>1 DEF S
  <2> QED
    BY <2>1, <2>2
<1> QED
  BY <1>4, <1>7, <1>8

LEMMA NestingFromInv == SchemaInv => NestingEnds
<1> SUFFICES ASSUME SchemaInv, NEW p \in DOMAIN stack, NEW q \in DOMAIN stack,
                    stack[p].phase = stack[q].phase, p < q
             PROVE  IF stack[p].phase = "group"
                    THEN <<NSOf(stack[p].info), stack[p].group>>
                           # <<NSOf(stack[q].info), stack[q].group>>
                    ELSE stack[p].info # stack[q].info
  <2>1. DOMAIN stack \subseteq Nat
    BY DEF SchemaInv, TypesOK
  <2> QED
    BY <2>1 DEF NestingEnds
<1> DEFINE open == traverser.fCurrentGroupStack
           rounds == Len(stack) - Len(open)
<1>1. /\ Len(stack) \in Nat /\ DOMAIN stack = 1 .. Len(stack)
      /\ open \in Seq(Namespaces \X GroupNames) /\ GroupsOpen(stack, open)
      /\ stack \in Seq(Frames)
  BY DEF SchemaInv, TypesOK, IsTraverser, OpenGroups
<1> HIDE DEF open, rounds
<1>2. /\ rounds \in Nat /\ Len(open) \in Nat /\ DOMAIN open = 1 .. Len(open)
      /\ \A k \in DOMAIN stack : stack[k].phase = "group" <=> k > rounds
      /\ \A j \in DOMAIN open : open[j] = <<NSOf(stack[rounds + j].info), stack[rounds + j].group>>
      /\ \A j, l \in DOMAIN open : open[j] = open[l] => j = l
  BY <1>1 DEF GroupsOpen, rounds
<1>3. rounds = Len(stack) - Len(open)
  BY DEF rounds
<1>4. CASE stack[p].phase = "group"
  <2>1. p - rounds \in DOMAIN open /\ q - rounds \in DOMAIN open /\ p - rounds # q - rounds
        /\ rounds + (p - rounds) = p /\ rounds + (q - rounds) = q
    BY <1>1, <1>2, <1>4, <1>3
  <2>2. open[p - rounds] = <<NSOf(stack[p].info), stack[p].group>>
        /\ open[q - rounds] = <<NSOf(stack[q].info), stack[q].group>>
    BY <1>2, <2>1
  <2>3. open[p - rounds] # open[q - rounds]
    BY <1>2, <2>1
  <2> QED
    BY <1>4, <2>2, <2>3
<1>5. CASE stack[p].phase = "preprocess"
  <2>1. p # q
    BY <1>1
  <2> QED
    BY <1>5, <2>1 DEF SchemaInv, ReadOnce
<1>6. CASE stack[p].phase = "process"
  <2>1. ASSUME NEW k \in p .. q PROVE stack[k].phase = "process"
    <3>1. k \in DOMAIN stack /\ k <= q /\ k \in Nat /\ q \in Nat
      BY <1>1
    <3>2. stack[q].phase = "process"
      BY <1>6
    <3>3. ~(q > rounds)
      BY <1>2, <3>2
    <3>4. ~(k > rounds)
      BY <1>2, <3>1, <3>3
    <3>5. stack[k].phase # "group"
      BY <1>2, <3>1, <3>4
    <3>6. stack[k].phase = stack[1].phase /\ stack[p].phase = stack[1].phase
      BY <1>6, <3>1, <3>5 DEF SchemaInv, Calls
    <3> QED
      BY <1>6, <3>6
  <2> QED
    BY <1>6, <2>1, RoundsDiffer
<1>7. stack[p].phase \in {"preprocess", "process", "group"}
  <2>1. stack[p] \in Frames
    BY <1>1
  <2> QED
    BY <2>1 DEF Frames, Rounds, GroupCalls
<1> QED
  BY <1>4, <1>5, <1>6, <1>7

\* No document is read inside itself, none is processed inside itself, and no group
\* is traversed inside itself, whatever the documents say: an include or import is
\* followed only to a document that is not listed yet, so the nodes the second round
\* follows make no circle, and a group that is open is refused.
THEOREM NestingAlwaysEnds == SchemaDocumentsSpec => []NestingEnds
<1>1. SchemaInv => NestingEnds
  BY NestingFromInv
<1> QED
  BY <1>1, SchemaInvariant, PTL

\* No two groups of a grammar ever have the same scope, wherever the traverser
\* breaks off and however often it leaves a grammar and comes back.
THEOREM ScopesStayUnique == SchemaDocumentsSpec => []ScopesAreUnique
<1>1. SchemaInv => ScopesAreUnique
  BY ScopesFromInv
<1> QED
  BY <1>1, SchemaInvariant, PTL
=============================================================================
