------------------------------ MODULE DOMForest ------------------------------
(***************************************************************************)
(* The nodes of one DOM document as a forest, and the two elementary edits *)
(* every mutator of dom/impl is made of: linking a parentless node into a  *)
(* child list and unlinking a child.  A forest is a record                 *)
(*   parent : node -> its parent, Nil for a node no parent owns            *)
(*            (DOMNodeImpl::isOwned and fOwnerNode)                        *)
(*   kids   : node -> its children in order (DOMParentNode::fFirstChild    *)
(*            and the circular sibling list; see DOMParentNode.tla)        *)
(* The operators also accept records with further fields.                  *)
(***************************************************************************)
EXTENDS Integers, Sequences

CONSTANTS Node,   \* the nodes the document has created
          Nil     \* the null pointer

ASSUME NilAssumption == Nil \notin Node

NodeOrNil == Node \cup {Nil}

Forests == [parent : [Node -> NodeOrNil], kids : [Node -> Seq(Node)]]

IndexOf(s, x) == CHOOSE i \in DOMAIN s : s[i] = x

Without(s, x) ==
  LET i == IndexOf(s, x) IN SubSeq(s, 1, i - 1) \o SubSeq(s, i + 1, Len(s))

\* x in front of r, at the end when there is no r
Before(s, x, r) ==
  LET i == IF r = Nil THEN Len(s) + 1 ELSE IndexOf(s, r)
  IN  SubSeq(s, 1, i - 1) \o <<x>> \o SubSeq(s, i, Len(s))

\* unlink n from the child list it is in
Unlink(f, n) ==
  [f EXCEPT !.parent[n] = Nil, !.kids[f.parent[n]] = Without(@, n)]

\* link the parentless n into p's child list
Link(f, p, n, r) ==
  [f EXCEPT !.parent[n] = p, !.kids[p] = Before(@, n, r)]

HasKids(f, n) == f.kids[n] # <<>>

\* the nodes met by following getParentNode() from p: the least set that
\* holds p's parent and the parent of each of its members
Ancestors(f, p) ==
  {a \in Node : \A C \in SUBSET NodeOrNil :
                   (/\ f.parent[p] \in C
                    /\ \A x \in C \ {Nil} : f.parent[x] \in C) => a \in C}

\* x and the nodes above it, in a forest without cycles
Path(f, x) ==
  LET up[y \in NodeOrNil] == IF y = Nil THEN {} ELSE {y} \cup up[f.parent[y]]
  IN  up[x]

(***************************************************************************)
(* What makes a forest one: parent and child lists tell the same story, no *)
(* node is listed twice, and no set of nodes is closed under parents.      *)
(***************************************************************************)
Linked(f) ==
  /\ \A x \in Node, p \in Node :
        f.parent[x] = p <=> \E i \in DOMAIN f.kids[p] : f.kids[p][i] = x
  /\ \A p \in Node : \A i, j \in DOMAIN f.kids[p] :
        f.kids[p][i] = f.kids[p][j] => i = j

NoCycle(f) ==
  \A S \in SUBSET Node : S # {} => \E x \in S : f.parent[x] \notin S
=============================================================================
