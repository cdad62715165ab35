--------------------------- MODULE DOMNodeIterator ---------------------------
(***************************************************************************)
(* The document's live NodeIterators.  Every iterator is registered with   *)
(* the document until it is detached; DOMParentNode::removeChild calls     *)
(* removeNode on each of them before it unlinks the child, so that an      *)
(* iterator never rests on a node that has left its subtree.               *)
(***************************************************************************)
EXTENDS DOMTree, FiniteSets

CONSTANTS Iterator,          \* the iterators the application creates
          Roots,             \* the nodes it creates them for
          Shown,             \* the nodes whatToShow and the filter accept
          ExpandReferences,  \* fExpandEntityReferences
          RemoveUnstarted    \* nodes are removed while an iterator is unstarted

Ext == INSTANCE SequencesExt

VARIABLES iter,     \* the state of each iterator
          crashed   \* a null pointer has been dereferenced

ivars == <<dom, call, iter, crashed>>

\* before createNodeIterator, and after detach()
NotRegistered == [root |-> Nil]

Live(its) == {i \in Iterator : its[i] # NotRegistered}

ASSUME IteratorAssumption ==
  /\ IsFiniteSet(Node) /\ Shown \subseteq Node /\ Roots \subseteq Node
  /\ ExpandReferences \in BOOLEAN /\ RemoveUnstarted \in BOOLEAN
-----------------------------------------------------------------------------
(* Moving about the tree *)

NextSibling(f, x) ==
  LET s == IF f.parent[x] = Nil THEN <<x>> ELSE f.kids[f.parent[x]]
      k == IndexOf(s, x)
  IN  IF k = Len(s) THEN Nil ELSE s[k + 1]

PreviousSibling(f, x) ==
  LET s == IF f.parent[x] = Nil THEN <<x>> ELSE f.kids[f.parent[x]]
      k == IndexOf(s, x)
  IN  IF k = 1 THEN Nil ELSE s[k - 1]

\* the children an iterator enters
Visible(f, x) ==
  IF ExpandReferences \/ Kind[x] # "entityReference" THEN f.kids[x] ELSE <<>>

\* nextNode(node, visitChildren): the node after x in the tree under root
NextInTree(f, root, x, visitChildren) ==
  LET climb[p \in NodeOrNil] ==
        IF p = Nil \/ p = root THEN Nil
        ELSE IF NextSibling(f, p) # Nil THEN NextSibling(f, p) ELSE climb[f.parent[p]]
  IN  IF x = Nil THEN root
      ELSE IF visitChildren /\ Visible(f, x) # <<>> THEN Head(Visible(f, x))
      ELSE climb[x]

\* previousNode(node): the node before x in the tree under root
PreviousInTree(f, root, x) ==
  LET deepest[p \in Node] ==
        IF Visible(f, p) = <<>> THEN p ELSE deepest[Visible(f, p)[Len(Visible(f, p))]]
  IN  IF x = root THEN Nil
      ELSE IF PreviousSibling(f, x) # Nil THEN deepest[PreviousSibling(f, x)]
      ELSE f.parent[x]

\* the node nextNode() returns
NextResult(f, it) ==
  LET scan[x \in NodeOrNil] ==
        IF x = Nil \/ x \in Shown THEN x ELSE scan[NextInTree(f, it.root, x, TRUE)]
  IN  scan[IF ~it.forward /\ it.current # Nil THEN it.current
           ELSE NextInTree(f, it.root, it.current, TRUE)]

\* mutant: the node last returned by nextNode() is not repeated
PreviousResultSkipping(f, it) ==
  LET scan[x \in NodeOrNil] ==
        IF x = Nil \/ x \in Shown THEN x ELSE scan[PreviousInTree(f, it.root, x)]
  IN  IF it.current = Nil THEN Nil
      ELSE scan[PreviousInTree(f, it.root, it.current)]

\* the node previousNode() returns
PreviousResult(f, it) ==
  LET scan[x \in NodeOrNil] ==
        IF x = Nil \/ x \in Shown THEN x ELSE scan[PreviousInTree(f, it.root, x)]
  IN  IF it.current = Nil THEN Nil
      ELSE scan[IF it.forward THEN it.current
                ELSE PreviousInTree(f, it.root, it.current)]
-----------------------------------------------------------------------------
(* The fix-up before a node is unlinked *)

\* matchNodeOrParent: the removed node lies on the way from current to root
OnPath(f, it, n) ==
  LET up[x \in NodeOrNil] == x # Nil /\ x # it.root /\ (x = n \/ up[f.parent[x]])
  IN  up[it.current]

\* mutant: only the current node itself is looked at
FixedUpExact(f, it, n) ==
  IF it.current # n \/ n = it.root THEN it
  ELSE IF it.forward THEN [it EXCEPT !.current = PreviousInTree(f, it.root, n)]
  ELSE LET next == NextInTree(f, it.root, n, FALSE)
       IN  IF next # Nil THEN [it EXCEPT !.current = next]
           ELSE [it EXCEPT !.current = PreviousInTree(f, it.root, n), !.forward = TRUE]

\* mutant: the direction is kept when the last node goes
FixedUpKeepingDirection(f, it, n) ==
  IF ~OnPath(f, it, n) THEN it
  ELSE LET next == NextInTree(f, it.root, n, FALSE)
       IN  IF ~it.forward /\ next # Nil THEN [it EXCEPT !.current = next]
           ELSE [it EXCEPT !.current = PreviousInTree(f, it.root, n)]

\* removeNode(n)
FixedUp(f, it, n) ==
  IF ~OnPath(f, it, n) THEN it
  ELSE IF it.forward THEN [it EXCEPT !.current = PreviousInTree(f, it.root, n)]
  ELSE LET next == NextInTree(f, it.root, n, FALSE)
       IN  IF next # Nil THEN [it EXCEPT !.current = next]
           ELSE [it EXCEPT !.current = PreviousInTree(f, it.root, n), !.forward = TRUE]

\* all registered iterators before n is unlinked from f
AllFixedUp(f, its, n) ==
  [i \in Iterator |-> IF i \in Live(its) THEN FixedUp(f, its[i], n) ELSE its[i]]

\* an insertion first removes the node from its old parent
MovedFrom(f, its, n, r) ==
  IF n = r \/ f.parent[n] = Nil THEN its ELSE AllFixedUp(f, its, n)

\* An iterator that has not returned a node yet has a null fCurrentNode, and
\* matchNodeOrParent calls getParentNode() on it, whatever node is removed.
Unstarted == \E i \in Live(iter) : iter[i].current = Nil
-----------------------------------------------------------------------------
IterInit == Init /\ iter = [i \in Iterator |-> NotRegistered] /\ crashed = FALSE

MayRemove == Unstarted => RemoveUnstarted

\* a step of the tree that removes nodes, and what it makes of the iterators
Removing(its) ==
  /\ MayRemove
  /\ iter' = IF Unstarted THEN iter ELSE its
  /\ crashed' = Unstarted

KeepIterators == UNCHANGED <<iter, crashed>>

WithRemoval(n, r) ==
  IF n = r \/ dom.parent[n] = Nil THEN KeepIterators
  ELSE Removing(AllFixedUp(dom, iter, n))

TreeStep ==
  \/ \E p, n \in Node : \E r \in NodeOrNil :
        \/ InsertNode(p, n, r) /\ WithRemoval(n, r)
        \/ InsertFragment(p, n, r) /\ MayRemove /\ KeepIterators
  \/ MoveKid /\ WithRemoval(Head(dom.kids[call.frag]), Nil)
  \/ KidRefused /\ KeepIterators
  \/ /\ FragmentDone
     /\ IF call.old = Nil THEN KeepIterators
        ELSE Removing(AllFixedUp(dom, iter, call.old))
  \/ \E n \in Node :
        RemoveChild(n) /\ Removing(AllFixedUp(dom, iter, n))
  \/ \E p, n, o \in Node :
        \/ /\ ReplaceByNode(p, n, o)
           /\ Removing(AllFixedUp(Inserted(ForReplace(dom, p, o), p, n, o),
                                  MovedFrom(dom, iter, n, o), o))
        \/ ReplaceByFragment(p, n, o) /\ MayRemove /\ KeepIterators

CreateNodeIterator(i, root) ==
  /\ call = Idle
  /\ iter[i] = NotRegistered
  /\ iter' = [iter EXCEPT ![i] = [root |-> root, current |-> Nil, forward |-> TRUE]]
  /\ UNCHANGED <<dom, call, crashed>>

NextNode(i) ==
  /\ call = Idle
  /\ i \in Live(iter)
  /\ LET x == NextResult(dom, iter[i])
     IN  iter' = [iter EXCEPT ![i].forward = TRUE,
                              ![i].current = IF x = Nil THEN @ ELSE x]
  /\ UNCHANGED <<dom, call, crashed>>

PreviousNode(i) ==
  /\ call = Idle
  /\ i \in Live(iter)
  /\ iter[i].current # Nil
  /\ LET x == PreviousResult(dom, iter[i])
     IN  iter' = [iter EXCEPT ![i].forward = FALSE,
                              ![i].current = IF x = Nil THEN @ ELSE x]
  /\ UNCHANGED <<dom, call, crashed>>

Detach(i) ==
  /\ call = Idle
  /\ i \in Live(iter)
  /\ iter' = [iter EXCEPT ![i] = NotRegistered]
  /\ UNCHANGED <<dom, call, crashed>>

IterNext ==
  /\ ~crashed
  /\ \/ TreeStep
     \/ \E i \in Iterator : \/ \E root \in Roots : CreateNodeIterator(i, root)
                            \/ NextNode(i)
                            \/ PreviousNode(i)
                            \/ Detach(i)

IterSpec == IterInit /\ [][IterNext]_ivars
-----------------------------------------------------------------------------
(* The nodes an iterator presents, in document order, and its position *)

Order(f, root) ==
  LET pre[x \in Node] ==
        <<x>> \o Ext!FlattenSeq([j \in DOMAIN Visible(f, x) |-> pre[Visible(f, x)[j]]])
  IN  pre[root]

\* the nodes the position of the iterator has in front of it
Ahead(f, it) ==
  LET s == Order(f, it.root)
      k == IF it.current = Nil THEN 0 ELSE IndexOf(s, it.current)
  IN  SubSeq(s, IF it.forward THEN k + 1 ELSE k, Len(s))

Behind(f, it) ==
  LET s == Order(f, it.root) IN SubSeq(s, 1, Len(s) - Len(Ahead(f, it)))

Members(s) == {s[j] : j \in DOMAIN s}

\* An iterator rests on a node of its root's subtree, whatever has been removed.
OnOwnSubtree ==
  \A i \in Live(iter) :
     iter[i].current # Nil => iter[i].current \in Members(Order(dom, iter[i].root))

\* In every state, whatever has been moved or removed, nextNode() returns the
\* first shown node ahead of the position in document order and previousNode()
\* the last one behind it, or null if there is none.
StepsAreNeighbours ==
  \A i \in Live(iter) :
     LET shown(s) == {j \in DOMAIN s : s[j] \in Shown}
         ahead == Ahead(dom, iter[i])
         behind == Behind(dom, iter[i])
     IN  /\ NextResult(dom, iter[i]) =
              IF shown(ahead) = {} THEN Nil ELSE ahead[Ext!Min(shown(ahead))]
         /\ PreviousResult(dom, iter[i]) =
              IF shown(behind) = {} THEN Nil ELSE behind[Ext!Max(shown(behind))]

\* Removing a node makes no iterator skip or repeat a node: whatever child is
\* removed next, every node outside its subtree stays on the side of the
\* position it was on.
RemovalKeepsPosition ==
  \A i \in Live(iter) : iter[i].current # Nil =>
     \A n \in {n \in Node : dom.parent[n] # Nil} :
        \A x \in Members(Order(dom, iter[i].root)) \ Members(Order(dom, n)) :
           x \in Members(Ahead(dom, iter[i]))
             <=> x \in Members(Ahead(Unlink(dom, n), FixedUp(dom, iter[i], n)))

\* Registered iterators can be fixed up at any removal: the first call to
\* nextNode() after createNodeIterator may come as late as the client likes.
NoNullDereference == ~crashed
=============================================================================
