------------------------------- MODULE DOMRange -------------------------------
(***************************************************************************)
(* The document's live Ranges.  Every range is registered with the         *)
(* document until it is detached.  DOMParentNode tells each of them about  *)
(* a child before it is unlinked and after it was linked,                  *)
(* DOMCharacterDataImpl and DOMTextImpl about changed character data, so   *)
(* that the boundary points stay on legal positions of the tree.           *)
(* Character data is abstracted to its length.                             *)
(***************************************************************************)
EXTENDS DOMTree, FiniteSets

CONSTANTS RangeId,      \* the ranges the application creates
          Spare,        \* character data nodes splitText may still create
          InitialLen,   \* the lengths of the initial character data
          MaxLen,       \* bound: the longest character data
          SplitFreely   \* splitText is called also where it misplaces a range

VARIABLES len,     \* length of the data of every character data node
          range,   \* the state of each range
          spare    \* nodes that have not been created yet

rvars == <<dom, call, len, range, spare>>

CharKinds == {"text", "cdata", "comment", "pi"}

IsChars(x) == Kind[x] \in CharKinds

\* before createRange, and after detach()
NotRegistered == [start |-> Nil]

Live(rg) == {i \in RangeId : rg[i] # NotRegistered}

ASSUME RangeAssumption ==
  /\ IsFiniteSet(Node)
  /\ Spare \subseteq {x \in Node : IsChars(x)}
  /\ \A x \in Spare : InitialDom.parent[x] = Nil
  /\ MaxLen \in Nat
  /\ InitialLen \in [Node -> 0 .. MaxLen]
  /\ SplitFreely \in BOOLEAN
-----------------------------------------------------------------------------
(* Boundary points in a tree f whose character data has the lengths l *)

\* the number of child units checkIndex() admits as an offset
Units(f, l, x) == IF IsChars(x) THEN l[x] ELSE Len(f.kids[x])

\* indexOf(): the number of preceding siblings
Index(f, x) == IndexOf(f.kids[f.parent[x]], x) - 1

Root(f, x) == CHOOSE y \in Path(f, x) : f.parent[y] = Nil

\* isAncestorOf() holds of a node and itself
IsAncestorOf(f, a, x) == a \in Path(f, x)

\* mutant: a boundary point right in front of the child on B's path
ComparedLoosely(f, A, B) ==
  LET over  == {c \in Node : f.parent[c] = A[1] /\ IsAncestorOf(f, c, B[1])}
      under == {c \in Node : f.parent[c] = B[1] /\ IsAncestorOf(f, c, A[1])}
      fork  == {c \in Node \X Node :
                  /\ c[1] # c[2] /\ f.parent[c[1]] = f.parent[c[2]] /\ f.parent[c[1]] # Nil
                  /\ IsAncestorOf(f, c[1], A[1]) /\ IsAncestorOf(f, c[2], B[1])}
  IN  CASE A[1] = B[1]  -> IF A[2] < B[2] THEN -1 ELSE IF A[2] = B[2] THEN 0 ELSE 1
        [] over # {}    -> LET c == CHOOSE c \in over : TRUE
                           IN  IF A[2] < Index(f, c) THEN -1 ELSE 1
        [] under # {}   -> LET c == CHOOSE c \in under : TRUE
                           IN  IF Index(f, c) < B[2] THEN -1 ELSE 1
        [] fork # {}    -> LET c == CHOOSE c \in fork : TRUE
                           IN  IF Index(f, c[1]) < Index(f, c[2]) THEN -1 ELSE 1
        [] OTHER        -> -1

\* compareBoundaryPoints(): -1, 0 or 1 as A is before, equal to or after B; the
\* last two cases are the walk to the children of the deepest common ancestor
\* and, for two trees, its end at two null parents
Compared(f, A, B) ==
  LET over  == {c \in Node : f.parent[c] = A[1] /\ IsAncestorOf(f, c, B[1])}
      under == {c \in Node : f.parent[c] = B[1] /\ IsAncestorOf(f, c, A[1])}
      fork  == {c \in Node \X Node :
                  /\ c[1] # c[2] /\ f.parent[c[1]] = f.parent[c[2]] /\ f.parent[c[1]] # Nil
                  /\ IsAncestorOf(f, c[1], A[1]) /\ IsAncestorOf(f, c[2], B[1])}
  IN  CASE A[1] = B[1]  -> IF A[2] < B[2] THEN -1 ELSE IF A[2] = B[2] THEN 0 ELSE 1
        [] over # {}    -> LET c == CHOOSE c \in over : TRUE
                           IN  IF A[2] <= Index(f, c) THEN -1 ELSE 1
        [] under # {}   -> LET c == CHOOSE c \in under : TRUE
                           IN  IF Index(f, c) < B[2] THEN -1 ELSE 1
        [] fork # {}    -> LET c == CHOOSE c \in fork : TRUE
                           IN  IF Index(f, c[1]) < Index(f, c[2]) THEN -1 ELSE 1
        [] OTHER        -> -1
-----------------------------------------------------------------------------
(* The fix-ups of one boundary point P *)

\* updateRangeForDeletedNode(n), n still linked in f
AfterRemoval(f, P, n) ==
  IF f.parent[n] = P[1]
  THEN IF P[2] > Index(f, n) THEN <<P[1], P[2] - 1>> ELSE P
  ELSE IF IsAncestorOf(f, n, P[1]) THEN <<f.parent[n], Index(f, n)>> ELSE P

\* updateRangeForInsertedNode(n), n already linked in f
AfterInsertion(f, P, n) ==
  IF f.parent[n] = P[1] /\ Index(f, n) < P[2] THEN <<P[1], P[2] + 1>> ELSE P

\* receiveReplacedText(x)
AfterReplacedText(P, x) == IF P[1] = x THEN <<x, 0>> ELSE P

\* updateRangeForDeletedText(x, offset, count)
AfterDeletedText(P, x, offset, count) ==
  IF P[1] # x THEN P
  ELSE IF P[2] > offset + count THEN <<x, P[2] - count>>
  ELSE IF P[2] > offset THEN <<x, offset>> ELSE P

\* updateRangeForInsertedText(x, offset, count): the start falls back to the
\* offset, the end moves on
StartAfterInsertedText(P, x, offset) == IF P[1] = x /\ P[2] > offset THEN <<x, offset>> ELSE P

EndAfterInsertedText(P, x, offset, count) ==
  IF P[1] = x /\ P[2] > offset THEN <<x, P[2] + count>> ELSE P

\* updateSplitInfo(x, new, offset)
AfterSplit(P, x, new, offset) ==
  IF P[1] = x /\ P[2] > offset THEN <<new, P[2] - offset>> ELSE P

\* both points of every registered range
FixBoth(rg, Fix(_)) ==
  [i \in RangeId |-> IF rg[i] = NotRegistered THEN rg[i]
                     ELSE [start |-> Fix(rg[i].start), end |-> Fix(rg[i].end)]]

OnRemoval(f, rg, n) == FixBoth(rg, LAMBDA P : AfterRemoval(f, P, n))

OnInsertion(f, rg, n) == FixBoth(rg, LAMBDA P : AfterInsertion(f, P, n))

\* insertBefore(n, r), from f to g: n leaves its old parent, then arrives
OnMove(f, g, rg, n, r) ==
  IF n = r THEN rg
  ELSE OnInsertion(g, IF f.parent[n] = Nil THEN rg ELSE OnRemoval(f, rg, n), n)
-----------------------------------------------------------------------------
(* The tree mutators *)

RangeInit ==
  /\ Init
  /\ len = InitialLen
  /\ range = [i \in RangeId |-> NotRegistered]
  /\ spare = Spare

TreeStep ==
  /\ \/ \E p, n \in Node \ spare : \E r \in NodeOrNil :
           \/ InsertNode(p, n, r) /\ range' = OnMove(dom, dom', range, n, r)
           \/ InsertFragment(p, n, r) /\ UNCHANGED range
     \/ /\ MoveKid
        /\ range' = OnMove(dom, dom', range, Head(dom.kids[call.frag]), call.ref)
     \/ KidRefused /\ UNCHANGED range
     \/ /\ FragmentDone
        /\ range' = IF call.old = Nil THEN range ELSE OnRemoval(dom, range, call.old)
     \/ \E n \in Node : RemoveChild(n) /\ range' = OnRemoval(dom, range, n)
     \/ \E p, n, o \in Node \ spare :
           \/ /\ ReplaceByNode(p, n, o)
              /\ LET d == ForReplace(dom, p, o)
                     g == Inserted(d, p, n, o)
                 IN  range' = OnRemoval(g, OnMove(d, g, range, n, o), o)
           \/ ReplaceByFragment(p, n, o) /\ UNCHANGED range
  /\ UNCHANGED <<len, spare>>
-----------------------------------------------------------------------------
(* Character data *)

Editable(x) == call = Idle /\ IsChars(x) /\ x \notin ReadOnly /\ x \notin spare

SetNodeValue(x, k) ==
  /\ Editable(x)
  /\ len' = [len EXCEPT ![x] = k]
  /\ range' = FixBoth(range, LAMBDA P : AfterReplacedText(P, x))
  /\ UNCHANGED <<dom, call, spare>>

\* no range is told of appended data
AppendData(x, k) ==
  /\ Editable(x)
  /\ len[x] + k <= MaxLen
  /\ len' = [len EXCEPT ![x] = @ + k]
  /\ UNCHANGED <<dom, call, range, spare>>

\* what deleteData cuts the count back to
Deletable(x, offset, count) == IF offset + count >= len[x] THEN len[x] - offset ELSE count

OnDeletedText(rg, x, offset, count) ==
  FixBoth(rg, LAMBDA P : AfterDeletedText(P, x, offset, count))

OnInsertedText(rg, x, offset, count) ==
  [i \in RangeId |->
     IF rg[i] = NotRegistered THEN rg[i]
     ELSE [start |-> StartAfterInsertedText(rg[i].start, x, offset),
           end   |-> EndAfterInsertedText(rg[i].end, x, offset, count)]]

DeleteData(x, offset, count) ==
  /\ Editable(x)
  /\ offset <= len[x]
  /\ LET k == Deletable(x, offset, count)
     IN  /\ len' = [len EXCEPT ![x] = @ - k]
         /\ range' = OnDeletedText(range, x, offset, k)
  /\ UNCHANGED <<dom, call, spare>>

InsertData(x, offset, k) ==
  /\ Editable(x)
  /\ offset <= len[x] /\ len[x] + k <= MaxLen
  /\ len' = [len EXCEPT ![x] = @ + k]
  /\ range' = OnInsertedText(range, x, offset, k)
  /\ UNCHANGED <<dom, call, spare>>

ReplaceData(x, offset, count, k) ==
  /\ Editable(x)
  /\ offset <= len[x]
  /\ LET j == Deletable(x, offset, count)
     IN  /\ len[x] - j + k <= MaxLen
         /\ len' = [len EXCEPT ![x] = @ - j + k]
         /\ range' = OnInsertedText(OnDeletedText(range, x, offset, j), x, offset, k)
  /\ UNCHANGED <<dom, call, spare>>

\* mutant: the ranges are not told that the text was split
SplitRangesUninformed(rg, x, new, offset) == rg

\* updateSplitInfo on every range
OnSplit(rg, x, new, offset) == FixBoth(rg, LAMBDA P : AfterSplit(P, x, new, offset))

NextOf(f, x) ==
  LET s == f.kids[f.parent[x]]
      k == IndexOf(s, x)
  IN  IF k = Len(s) THEN Nil ELSE s[k + 1]

\* the tree, the lengths and the ranges after x.splitText(offset) made new
SplitTree(x, new) ==
  IF dom.parent[x] = Nil THEN dom ELSE Inserted(dom, dom.parent[x], new, NextOf(dom, x))

SplitLen(x, new, offset) == [len EXCEPT ![x] = offset, ![new] = len[x] - offset]

SplitRange(x, new, offset) ==
  OnSplit(IF dom.parent[x] = Nil THEN range ELSE OnInsertion(SplitTree(x, new), range, new),
          x, new, offset)

\* Two calls of splitText misplace a range: on a text without a parent, and
\* when a range ends between the text and its next sibling but starts in the
\* second half.
SplitHarmless(x, offset) ==
  \A i \in Live(range) :
     LET s == range[i].start
         e == range[i].end
     IN  IF dom.parent[x] = Nil THEN s[1] # x /\ e[1] # x
         ELSE ~ (s[1] = x /\ s[2] > offset /\ e = <<dom.parent[x], Index(dom, x) + 1>>)

CanSplit(x, offset) ==
  /\ Editable(x)
  /\ offset <= len[x]
  /\ dom.parent[x] # Nil => dom.parent[x] \notin ReadOnly
  /\ SplitHarmless(x, offset) \/ SplitFreely

SplitText(x, offset) ==
  /\ CanSplit(x, offset)
  /\ \E new \in {s \in spare : Kind[s] = Kind[x]} :
        /\ dom' = SplitTree(x, new)
        /\ len' = SplitLen(x, new, offset)
        /\ range' = SplitRange(x, new, offset)
        /\ spare' = spare \ {new}
  /\ UNCHANGED call

\* normalize() of p: adjacent texts below p, through elements, are merged; the
\* merged-away text keeps its data and is removed from the tree
MergeNext(st, p) ==
  LET below == {q \in Node : \/ q = p
                             \/ /\ p \in Path(st.dom, q)
                                /\ \A a \in Path(st.dom, q) \ Path(st.dom, p) : Kind[a] = "element"}
      pairs == {c \in Node \X Node :
                  /\ st.dom.parent[c[1]] \in below
                  /\ Kind[c[1]] = "text" /\ Kind[c[2]] = "text"
                  /\ NextOf(st.dom, c[1]) = c[2]}
      c == CHOOSE c \in pairs :
             \A b \in pairs : st.dom.parent[b[1]] = st.dom.parent[c[1]] =>
                                Index(st.dom, c[1]) <= Index(st.dom, b[1])
  IN  IF pairs = {} THEN st
      ELSE [dom   |-> Removed(st.dom, c[2]),
            len   |-> [st.len EXCEPT ![c[1]] = @ + st.len[c[2]]],
            range |-> OnRemoval(st.dom, st.range, c[2])]

Normalize(p) ==
  /\ call = Idle /\ p \notin spare /\ ReadOnly = {}
  /\ Kind[p] \in {"document", "element", "fragment"}
  /\ LET merged[k \in 0 .. Cardinality(Node)] ==
           IF k = 0 THEN [dom |-> dom, len |-> len, range |-> range]
           ELSE MergeNext(merged[k - 1], p)
         st == merged[Cardinality(Node)]
     IN  /\ \A x \in Node : st.len[x] <= MaxLen
         /\ dom' = st.dom /\ len' = st.len /\ range' = st.range
  /\ UNCHANGED <<call, spare>>
-----------------------------------------------------------------------------
(* The ranges' own operations *)

CreateRange(i) ==
  /\ call = Idle
  /\ range[i] = NotRegistered
  /\ range' = [range EXCEPT ![i] = [start |-> <<Document, 0>>, end |-> <<Document, 0>>]]
  /\ UNCHANGED <<dom, call, len, spare>>

DetachRange(i) ==
  /\ call = Idle
  /\ i \in Live(range)
  /\ range' = [range EXCEPT ![i] = NotRegistered]
  /\ UNCHANGED <<dom, call, len, spare>>

\* the end of setStart and setEnd: collapse if the containers have different
\* roots or the start is after the end
WithStart(rg, P) ==
  IF \/ Root(dom, P[1]) # Root(dom, rg.end[1])
     \/ Compared(dom, P, rg.end) = 1
  THEN [start |-> P, end |-> P] ELSE [rg EXCEPT !.start = P]

\* mutant: the two points are not compared
WithEndUnordered(rg, P) ==
  IF Root(dom, P[1]) # Root(dom, rg.start[1])
  THEN [start |-> P, end |-> P] ELSE [rg EXCEPT !.end = P]

WithEnd(rg, P) ==
  IF \/ Root(dom, P[1]) # Root(dom, rg.start[1])
     \/ Compared(dom, rg.start, P) = 1
  THEN [start |-> P, end |-> P] ELSE [rg EXCEPT !.end = P]

\* validateNode: no document type, entity or notation on the way up
ValidContainer(x) == \A a \in Path(dom, x) : Kind[a] # "doctype"

\* the nodes setStartBefore and its three sisters take
ValidSibling(x) ==
  /\ Kind[Root(dom, x)] \in {"attribute", "document", "fragment"}
  /\ Kind[x] \notin {"document", "fragment", "attribute"}

\* a change of range i by the application
Sets(i, rg) ==
  /\ call = Idle
  /\ range' = [range EXCEPT ![i] = rg]
  /\ UNCHANGED <<dom, call, len, spare>>

\* a container of another document: the range is collapsed, then the call fails
SetStart(i, x, offset) ==
  /\ i \in Live(range) /\ x \notin spare
  /\ ValidContainer(x) /\ offset <= Units(dom, len, x)
  /\ Sets(i, IF x \in Foreign \ {Document} THEN [range[i] EXCEPT !.end = range[i].start]
             ELSE WithStart(range[i], <<x, offset>>))

SetEnd(i, x, offset) ==
  /\ i \in Live(range) /\ x \notin spare
  /\ ValidContainer(x) /\ offset <= Units(dom, len, x)
  /\ Sets(i, IF x \in Foreign \ {Document} THEN [range[i] EXCEPT !.start = range[i].end]
             ELSE WithEnd(range[i], <<x, offset>>))

\* setStartBefore (k = 0) and setStartAfter (k = 1)
SetStartBeside(i, x, k) ==
  /\ i \in Live(range) /\ ValidSibling(x)
  /\ Sets(i, IF x \in Foreign THEN [range[i] EXCEPT !.end = range[i].start]
             ELSE WithStart(range[i], <<dom.parent[x], Index(dom, x) + k>>))

SetEndBeside(i, x, k) ==
  /\ i \in Live(range) /\ ValidSibling(x)
  /\ Sets(i, IF x \in Foreign THEN [range[i] EXCEPT !.start = range[i].end]
             ELSE WithEnd(range[i], <<dom.parent[x], Index(dom, x) + k>>))

Collapse(i, toStart) ==
  /\ i \in Live(range)
  /\ Sets(i, LET P == IF toStart THEN range[i].start ELSE range[i].end
             IN  [start |-> P, end |-> P])

SelectNodeContents(i, x) ==
  /\ i \in Live(range) /\ x \notin spare
  /\ ValidContainer(x)
  /\ Sets(i, [start |-> <<x, 0>>, end |-> <<x, Units(dom, len, x)>>])

SelectNode(i, x) ==
  /\ i \in Live(range) /\ x \notin spare
  /\ ValidContainer(x)
  /\ Kind[x] \notin {"document", "fragment", "attribute"}
  /\ IsChars(x) \/ dom.parent[x] # Nil
  /\ Sets(i, IF IsChars(x) THEN [start |-> <<x, 0>>, end |-> <<x, len[x]>>]
             ELSE [start |-> <<dom.parent[x], Index(dom, x)>>,
                   end   |-> <<dom.parent[x], Index(dom, x) + 1>>])

\* insertNode(n) at a start between two children of an element
InsertAtChildren(i, n) ==
  LET P == range[i].start
      r == IF P[2] < Len(dom.kids[P[1]]) THEN dom.kids[P[1]][P[2] + 1] ELSE Nil
  IN  /\ ~IsChars(P[1])
      /\ \/ InsertNode(P[1], n, r) /\ range' = OnMove(dom, dom', range, n, r)
         \/ InsertFragment(P[1], n, r) /\ UNCHANGED range
      /\ UNCHANGED <<len, spare>>

\* insertNode(n) in front of the text the range starts in
InsertBeforeText(i, n) ==
  LET P == range[i].start
      p == dom.parent[P[1]]
  IN  /\ IsChars(P[1]) /\ P[2] = 0 /\ p # Nil
      /\ \/ InsertNode(p, n, P[1]) /\ range' = OnMove(dom, dom', range, n, P[1])
         \/ InsertFragment(p, n, P[1]) /\ UNCHANGED range
      /\ UNCHANGED <<len, spare>>

\* insertNode(n) in the middle of a text: the text is split first, and stays
\* split when n is then refused
InsertInText(i, n) ==
  LET P == range[i].start
      p == dom.parent[P[1]]
  IN  /\ IsChars(P[1]) /\ P[2] > 0
      /\ CanSplit(P[1], P[2])
      /\ \E new \in {s \in spare : Kind[s] = Kind[P[1]]} :
           LET d == SplitTree(P[1], new)
               t == SplitRange(P[1], new, P[2])
           IN  /\ len' = SplitLen(P[1], new, P[2])
               /\ spare' = spare \ {new}
               /\ IF p # Nil /\ InsertAllowed(d, p, n, new)
                  THEN IF Kind[n] = "fragment"
                       THEN StartFragment(d, p, n, new, Nil) /\ range' = t
                       ELSE /\ dom' = Inserted(d, p, n, new)
                            /\ range' = OnMove(d, dom', t, n, new)
                            /\ UNCHANGED call
                  ELSE dom' = d /\ range' = t /\ UNCHANGED call

RangeInsertNode(i, n) ==
  /\ call = Idle
  /\ i \in Live(range) /\ n \notin spare
  /\ Kind[n] \notin {"attribute", "document"}
  /\ ~IsAncestorOf(dom, n, range[i].start[1])
  /\ n \notin ReadOnly /\ n \notin Foreign
  /\ InsertAtChildren(i, n) \/ InsertBeforeText(i, n) \/ InsertInText(i, n)

TextStep ==
  \E x \in Node : \E j, k \in 0 .. MaxLen :
     \/ k = 0 /\ SetNodeValue(x, j)
     \/ k = 0 /\ AppendData(x, j)
     \/ DeleteData(x, j, k)
     \/ InsertData(x, j, k)
     \/ \E m \in 0 .. MaxLen : ReplaceData(x, j, k, m)
     \/ k = 0 /\ SplitText(x, j)

RangeStep ==
  \E i \in RangeId :
     \/ CreateRange(i) \/ DetachRange(i) \/ Collapse(i, TRUE) \/ Collapse(i, FALSE)
     \/ \E x \in Node :
          \/ \E offset \in 0 .. Units(dom, len, x) :
                SetStart(i, x, offset) \/ SetEnd(i, x, offset)
          \/ \E k \in {0, 1} : SetStartBeside(i, x, k) \/ SetEndBeside(i, x, k)
          \/ SelectNode(i, x) \/ SelectNodeContents(i, x)
          \/ RangeInsertNode(i, x)

RangeNext == TreeStep \/ TextStep \/ RangeStep \/ \E p \in Node : Normalize(p)

RangeSpec == RangeInit /\ [][RangeNext]_rvars
-----------------------------------------------------------------------------
(* Document order, defined apart from the code: the number of tags and      *)
(* characters in front of a boundary point of a tree                        *)

Place(f, l, P) ==
  LET size[x \in Node] ==
        IF IsChars(x) THEN l[x] + 2
        ELSE LET upTo[j \in 0 .. Len(f.kids[x])] ==
                   IF j = 0 THEN 2 ELSE upTo[j - 1] + size[f.kids[x][j]]
             IN  upTo[Len(f.kids[x])]
      upToKid(x, k) ==
        LET sum[j \in 0 .. k] == IF j = 0 THEN 1 ELSE sum[j - 1] + size[f.kids[x][j]]
        IN  sum[k]
      inFront[x \in Node] ==
        IF f.parent[x] = Nil THEN 0
        ELSE inFront[f.parent[x]] + upToKid(f.parent[x], Index(f, x))
  IN  inFront[P[1]] + IF IsChars(P[1]) THEN 1 + P[2] ELSE upToKid(P[1], P[2])

PointsOf(f, l) == UNION {{<<x, o>> : o \in 0 .. Units(f, l, x)} : x \in Node}

\* No mutation leaves a range with an offset beyond its container's units.
BoundariesExist ==
  \A i \in Live(range) : {range[i].start, range[i].end} \subseteq PointsOf(dom, len)

\* `collapse if start point is after the end point': the two ends of a range
\* are in one tree, however nodes were moved about, and it never starts after
\* it ends, in document order, whatever is mutated around it.
StartNotAfterEnd ==
  \A i \in Live(range) :
     /\ Root(dom, range[i].start[1]) = Root(dom, range[i].end[1])
     /\ Place(dom, len, range[i].start) <= Place(dom, len, range[i].end)

\* compareBoundaryPoints agrees with document order on every two boundary
\* points of a tree.
CompareIsDocumentOrder ==
  call = Idle =>
    \A A, B \in PointsOf(dom, len) :
       Root(dom, A[1]) = Root(dom, B[1]) =>
         LET a == Place(dom, len, A)
             b == Place(dom, len, B)
         IN  Compared(dom, A, B) = IF a < b THEN -1 ELSE IF a = b THEN 0 ELSE 1
=============================================================================
