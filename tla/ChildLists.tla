------------------------------ MODULE ChildLists ------------------------------
(***************************************************************************)
(* What DOMParentNode promises of the child lists of a document: a forest  *)
(* of nodes that changes by whole insertions and removals.  An insertion   *)
(* of a child that is in the tree takes it from its old place.             *)
(***************************************************************************)
EXTENDS DOMForest

CONSTANTS InitialForest

VARIABLES forest

ChildListsInit == forest = InitialForest

Insert(p, n, r) ==
  /\ n # r
  /\ LET f == forest
     IN  /\ r # Nil => f.parent[r] = p
         /\ n \notin Path(f, p)
         /\ forest' = Link(IF f.parent[n] = Nil THEN f ELSE Unlink(f, n), p, n, r)

Remove(n) ==
  /\ LET f == forest
     IN  f.parent[n] # Nil /\ forest' = Unlink(f, n)

ChildListsNext ==
  \E n \in Node : \/ Remove(n)
                  \/ \E p \in Node, r \in NodeOrNil : Insert(p, n, r)

ChildListsSpec == ChildListsInit /\ [][ChildListsNext]_forest
=============================================================================
