---------------------------- MODULE DOMParentNode ----------------------------
(***************************************************************************)
(* The child lists as DOMParentNode keeps them.  A parent knows its first  *)
(* child; the children are linked by nextSibling and previousSibling, and  *)
(* the first child's previousSibling is the last child.  Whether a         *)
(* previousSibling is meant that way is told by the flag isFirstChild, and *)
(* whether fOwnerNode is a parent (or the document) by the flag isOwned.   *)
(* One action is one call of insertBefore, removeChild, appendChildFast or *)
(* cloneNode; a fragment is inserted by several calls of insertBefore (see *)
(* DOMTree).  ChildLists says what the pointers stand for.                 *)
(***************************************************************************)
EXTENDS DOMForest, FiniteSets

CONSTANTS Document,      \* the document node
          Leaf,          \* nodes that cannot have children
          FlagsCopied,   \* nodes whose copy constructor copies fNode
          Fresh,         \* nodes only cloneNode may create
          CloneFirst     \* first children are cloned, too

VARIABLES ptr,     \* the pointers and flags of every node
          fresh    \* nodes that have not been created yet

pvars == <<ptr, fresh>>

Ptrs == [fFirstChild     : [Node -> NodeOrNil],
         nextSibling     : [Node -> NodeOrNil],
         previousSibling : [Node -> NodeOrNil],
         fOwnerNode      : [Node -> Node],
         isOwned         : SUBSET Node,    \* the nodes with the flag set
         isFirstChild    : SUBSET Node]

ASSUME ParentNodeAssumption ==
  /\ Document \in Node
  /\ Leaf \subseteq Node \ {Document}
  /\ FlagsCopied \subseteq Leaf
  /\ Fresh \subseteq Node \ {Document}
  /\ CloneFirst \in BOOLEAN
-----------------------------------------------------------------------------
(* What the getters of DOMNode return *)

getParentNode(q, x) == IF x \in q.isOwned THEN q.fOwnerNode[x] ELSE Nil

getPreviousSibling(q, x) == IF x \in q.isFirstChild THEN Nil ELSE q.previousSibling[x]

getLastChild(q, p) ==
  IF q.fFirstChild[p] = Nil THEN Nil ELSE q.previousSibling[q.fFirstChild[p]]

AncestorsOf(q, p) ==
  LET up[x \in NodeOrNil] == IF x = Nil THEN {} ELSE {x} \cup up[getParentNode(q, x)]
  IN  up[getParentNode(q, p)]
-----------------------------------------------------------------------------
(* removeChild: patch the list around n, then drop n's own pointers *)

PatchFirst(q, p, n) ==
  LET second == q.nextSibling[n]
  IN  IF second = Nil
      THEN [q EXCEPT !.isFirstChild = @ \ {n}, !.fFirstChild[p] = Nil]
      ELSE [q EXCEPT !.isFirstChild = (@ \ {n}) \cup {second},
                     !.fFirstChild[p] = second,
                     !.previousSibling[second] = q.previousSibling[n]]

\* mutant: the first child is not told of the new last child
PatchLaterForgetfully(q, p, n) ==
  LET prev == q.previousSibling[n]
      next == q.nextSibling[n]
  IN  IF next = Nil THEN [q EXCEPT !.nextSibling[prev] = next]
      ELSE [q EXCEPT !.nextSibling[prev] = next, !.previousSibling[next] = prev]

PatchLater(q, p, n) ==
  LET prev == q.previousSibling[n]
      next == q.nextSibling[n]
      succ == IF next = Nil THEN q.fFirstChild[p] ELSE next
  IN  [q EXCEPT !.nextSibling[prev] = next, !.previousSibling[succ] = prev]

Dropped(q, n) ==
  [q EXCEPT !.fOwnerNode[n] = Document, !.isOwned = @ \ {n},
            !.nextSibling[n] = Nil, !.previousSibling[n] = Nil]

PatchedOut(q, p, n) ==
  Dropped(IF n = q.fFirstChild[p] THEN PatchFirst(q, p, n) ELSE PatchLater(q, p, n), n)
-----------------------------------------------------------------------------
(* insertBefore: attach up, then before and after *)

Attached(q, p, n) == [q EXCEPT !.fOwnerNode[n] = p, !.isOwned = @ \cup {n}]

LinkOnly(q, p, n) ==
  [q EXCEPT !.fFirstChild[p] = n, !.isFirstChild = @ \cup {n}, !.previousSibling[n] = n]

LinkLast(q, p, n) ==
  LET first == q.fFirstChild[p]
      last  == q.previousSibling[first]
  IN  [q EXCEPT !.nextSibling[last] = n,
                !.previousSibling = [@ EXCEPT ![n] = last, ![first] = n]]

\* mutant: the old first child keeps its flag
LinkFirstKeepingFlag(q, p, n) ==
  LET first == q.fFirstChild[p]
  IN  [q EXCEPT !.isFirstChild = @ \cup {n},
                !.nextSibling[n] = first,
                !.previousSibling = [@ EXCEPT ![n] = q.previousSibling[first], ![first] = n],
                !.fFirstChild[p] = n]

\* mutant: the new child is not linked to the old first child
LinkFirstAlone(q, p, n) ==
  LET first == q.fFirstChild[p]
  IN  [q EXCEPT !.isFirstChild = (@ \ {first}) \cup {n},
                !.previousSibling = [@ EXCEPT ![n] = q.previousSibling[first], ![first] = n],
                !.fFirstChild[p] = n]

LinkFirst(q, p, n) ==
  LET first == q.fFirstChild[p]
  IN  [q EXCEPT !.isFirstChild = (@ \ {first}) \cup {n},
                !.nextSibling[n] = first,
                !.previousSibling = [@ EXCEPT ![n] = q.previousSibling[first], ![first] = n],
                !.fFirstChild[p] = n]

LinkMiddle(q, n, r) ==
  LET prev == q.previousSibling[r]
  IN  [q EXCEPT !.nextSibling = [@ EXCEPT ![n] = r, ![prev] = n],
                !.previousSibling = [@ EXCEPT ![r] = n, ![n] = prev]]

PatchedIn(q, p, n, r) ==
  LET a == Attached(q, p, n)
  IN  CASE q.fFirstChild[p] = Nil                        -> LinkOnly(a, p, n)
        [] q.fFirstChild[p] # Nil /\ r = Nil             -> LinkLast(a, p, n)
        [] q.fFirstChild[p] # Nil /\ r = q.fFirstChild[p] -> LinkFirst(a, p, n)
        [] OTHER                                         -> LinkMiddle(a, n, r)
-----------------------------------------------------------------------------
Created(x) == x \notin fresh

\* insertBefore(n, r) of p.  A node inserted into itself is left to DOMTree.
InsertBefore(p, n, r) ==
  /\ Created(p) /\ Created(n) /\ p \notin Leaf /\ n # Document
  /\ n # p /\ n \notin AncestorsOf(ptr, p)
  /\ r # Nil => getParentNode(ptr, r) = p
  /\ n # r
  /\ LET old == getParentNode(ptr, n)
         q   == IF old = Nil THEN ptr ELSE PatchedOut(ptr, old, n)
     IN  ptr' = PatchedIn(q, p, n, r)
  /\ UNCHANGED fresh

RemoveChild(n) ==
  /\ getParentNode(ptr, n) # Nil
  /\ ptr' = PatchedOut(ptr, getParentNode(ptr, n), n)
  /\ UNCHANGED fresh

\* appendChildFast, which the parser calls for nodes it has just created
AppendChildFast(p, n) ==
  /\ Created(p) /\ Created(n) /\ p \notin Leaf /\ n # Document
  /\ getParentNode(ptr, n) = Nil
  /\ n # p /\ n \notin AncestorsOf(ptr, p)
  /\ LET a == Attached(ptr, p, n)
     IN  ptr' = IF ptr.fFirstChild[p] # Nil THEN LinkLast(a, p, n) ELSE LinkOnly(a, p, n)
  /\ UNCHANGED fresh

\* the flags of a copy: DOMNodeImpl's copy constructor clears isOwned only
CloneFlags(x, c) ==
  [ptr EXCEPT !.fOwnerNode[c] = Document,
              !.isFirstChild = IF x \in FlagsCopied \cap ptr.isFirstChild THEN @ \cup {c} ELSE @]

\* cloneNode(false); the deep copy of a leaf is the same
CloneNode(x, c) ==
  /\ Created(x) /\ x # Document /\ c \in fresh
  /\ x \in Leaf <=> c \in Leaf
  /\ CloneFirst \/ x \notin FlagsCopied \cap ptr.isFirstChild
  /\ ptr' = CloneFlags(x, c)
  /\ fresh' = fresh \ {c}

NoPointers ==
  [fFirstChild     |-> [x \in Node |-> Nil],
   nextSibling     |-> [x \in Node |-> Nil],
   previousSibling |-> [x \in Node |-> Nil],
   fOwnerNode      |-> [x \in Node |-> Document],
   isOwned         |-> {},
   isFirstChild    |-> {}]

PointerInit == ptr = NoPointers /\ fresh = Fresh

PointerNext ==
  \E n \in Node :
     \/ RemoveChild(n)
     \/ \E p \in Node : \/ AppendChildFast(p, n)
                        \/ CloneNode(p, n)
                        \/ \E r \in NodeOrNil : InsertBefore(p, n, r)

PointerSpec == PointerInit /\ [][PointerNext]_pvars
-----------------------------------------------------------------------------
PointerTypeOK == ptr \in Ptrs /\ fresh \subseteq Fresh

\* getNextSibling and getPreviousSibling are each other's inverse on siblings:
\* the flag isFirstChild hides the last child from the first one, and from it
\* only.
SiblingsMirror ==
  \A x, y \in Node :
     ptr.nextSibling[x] = y <=> getPreviousSibling(ptr, y) = x

\* Every child is reachable both ways: a child without a successor is its
\* parent's getLastChild(), one without a predecessor its fFirstChild.
EndsKnown ==
  \A x \in Node :
     LET p == getParentNode(ptr, x)
     IN  /\ p # Nil => /\ ptr.nextSibling[x] = Nil <=> getLastChild(ptr, p) = x
                       /\ getPreviousSibling(ptr, x) = Nil <=> ptr.fFirstChild[p] = x
         /\ p = Nil => ptr.nextSibling[x] = Nil /\ ptr.previousSibling[x] = Nil

\* Siblings have one parent, and a parent's first child is its child.
SiblingsShareParent ==
  \A x \in Node :
     /\ ptr.nextSibling[x] # Nil =>
           getParentNode(ptr, ptr.nextSibling[x]) = getParentNode(ptr, x)
     /\ ptr.fFirstChild[x] # Nil => getParentNode(ptr, ptr.fFirstChild[x]) = x

\* the child lists the pointers stand for
Kids(p) ==
  LET from[x \in NodeOrNil] == IF x = Nil THEN <<>> ELSE <<x>> \o from[ptr.nextSibling[x]]
  IN  from[ptr.fFirstChild[p]]

Represented == [parent |-> [x \in Node |-> getParentNode(ptr, x)],
                kids   |-> [p \in Node |-> Kids(p)]]

Lists == INSTANCE ChildLists WITH
           forest <- Represented,
           InitialForest <- [parent |-> [x \in Node |-> Nil], kids |-> [x \in Node |-> <<>>]]

\* Every call changes the child lists as ChildLists says: the pointers are
\* patched right in every position, and nothing else moves.
ImplementsChildLists == Lists!ChildListsSpec
=============================================================================
