------------------------------- MODULE DOMTree -------------------------------
(***************************************************************************)
(* The tree mutators of one DOM document: insertBefore (and appendChild),  *)
(* removeChild, replaceChild and adoptNode, as DOMParentNode implements    *)
(* them and DOMDocumentImpl overrides them for the document node, which    *)
(* also caches its element child and its document type.                    *)
(*                                                                         *)
(* The DOM is single-threaded, so a call runs to its end before the next   *)
(* begins.  Inserting a DocumentFragment is a loop that calls the virtual  *)
(* insertBefore for one kid after another and that an exception can leave  *)
(* half-way: it is a sequence of steps here, during which `call' holds the *)
(* locals of the running call and every other operation is disabled.       *)
(* A call that raises an exception before it changed anything is a step    *)
(* that changes nothing, and is not written as an action.                  *)
(***************************************************************************)
EXTENDS DOMForest

CONSTANTS Kind,        \* the node type of every node
          Document,    \* the document node
          Foreign,     \* nodes whose getOwnerDocument() is not this document
          ReadOnly,    \* nodes whose isReadOnly() flag is set
          Blank,       \* text nodes that hold white space only
          InitialDom,  \* the tree a parser or the application has built
          Unguarded    \* the calls of UnguardedCalls the application makes

\* Calls the code carries out although its documentation says it refuses
\* them (or does not foresee them): a node inserted into itself, the document
\* element replaced by itself, a fragment with several elements (or document
\* types) inserted into the document.
UnguardedCalls == {"selfInsert", "selfReplace", "multiFragment"}

VARIABLES dom,   \* a forest with the caches fDocElement and fDocType
          call   \* the fragment insertion in progress, or Idle

vars == <<dom, call>>

Kinds == {"document", "doctype", "element", "fragment", "text", "cdata",
          "comment", "pi", "entityReference", "attribute"}

Doms == [parent      : [Node -> NodeOrNil],
         kids        : [Node -> Seq(Node)],
         fDocElement : NodeOrNil,
         fDocType    : NodeOrNil]

\* the locals of insertBefore and replaceChild; kids is what the prescan saw
Calls == [parent : Node, frag : Node, ref : NodeOrNil, old : NodeOrNil,
          kids : Seq(Node),
          tempDocElement : NodeOrNil, tempDocType : NodeOrNil]

Idle == [parent |-> Nil]

\* the children of p of kind k
KidsOfKind(f, p, k) == {x \in Node : f.parent[x] = p /\ Kind[x] = k}

\* v, the cache of the document's child of kind k, is accurate
Accurate(f, v, k) == KidsOfKind(f, Document, k) = {v} \ {Nil}

CachesAccurate(d) ==
  Accurate(d, d.fDocElement, "element") /\ Accurate(d, d.fDocType, "doctype")

ASSUME TreeAssumption ==
  /\ Kind \in [Node -> Kinds]
  /\ Document \in Node /\ Kind[Document] = "document" /\ Document \in Foreign
  /\ Foreign \subseteq Node /\ ReadOnly \subseteq Node /\ Blank \subseteq Node
  /\ InitialDom \in Doms
  /\ Linked(InitialDom) /\ NoCycle(InitialDom) /\ CachesAccurate(InitialDom)
  /\ Unguarded \subseteq UnguardedCalls
-----------------------------------------------------------------------------
(* DOMDocumentImpl::isKidOK *)
Content == {"element", "pi", "comment", "text", "cdata", "entityReference"}

KidOK(p, n) ==
  CASE Kind[p] = "document" -> \/ Kind[n] \in {"element", "pi", "comment", "doctype"}
                               \/ Kind[n] = "text" /\ n \in Blank
    [] Kind[p] \in {"element", "fragment", "entityReference"} -> Kind[n] \in Content
    [] Kind[p] = "attribute" -> Kind[n] \in {"text", "entityReference"}
    [] OTHER -> FALSE

\* every child is of a kind that its parent admits and, in this document, one
\* of its own nodes
AllowedKids(d) ==
  \A x \in Node : d.parent[x] # Nil =>
    /\ KidOK(d.parent[x], x)
    /\ x \in Foreign => d.parent[x] \in Foreign \ {Document}

ASSUME KidsAssumption == AllowedKids(InitialDom)

\* the document node admits one element and one document type
DocumentAdmits(d, n) ==
  /\ Kind[n] = "element" => d.fDocElement = Nil
  /\ Kind[n] = "doctype" => d.fDocType = Nil

\* mutant: the loop over the ancestors is left out
InsertUncheckedForCycles(d, p, n, r) ==
  /\ p = Document => DocumentAdmits(d, n)
  /\ p \notin ReadOnly
  /\ n \notin Foreign
  /\ r # Nil => d.parent[r] = p
  /\ n # r => /\ Kind[n] # "fragment" => KidOK(p, n)
              /\ d.parent[n] # Nil => d.parent[n] \notin ReadOnly

\* the checks of the virtual insertBefore that come before any change
InsertAllowed(d, p, n, r) ==
  /\ p = Document => DocumentAdmits(d, n)
  /\ p \notin ReadOnly
  /\ n \notin Foreign
  /\ HasKids(d, n) => n \notin Ancestors(d, p)
  /\ r # Nil => d.parent[r] = p
  /\ n # r => /\ Kind[n] # "fragment" => KidOK(p, n)
              /\ d.parent[n] # Nil => d.parent[n] \notin ReadOnly

\* DOMDocumentImpl's bookkeeping after DOMParentNode did the work
Cached(d, p, n) ==
  [d EXCEPT !.fDocElement = IF p = Document /\ Kind[n] = "element" THEN n ELSE @,
            !.fDocType    = IF p = Document /\ Kind[n] = "doctype" THEN n ELSE @]

Uncached(d, p, n) ==
  [d EXCEPT !.fDocElement = IF p = Document /\ Kind[n] = "element" THEN Nil ELSE @,
            !.fDocType    = IF p = Document /\ Kind[n] = "doctype" THEN Nil ELSE @]

\* the virtual removeChild of n's parent
Removed(d, n) == Uncached(Unlink(d, n), d.parent[n], n)

\* mutant: the node is not taken out of its old parent
InsertedTwice(d, p, n, r) ==
  IF n = r THEN Cached(d, p, n) ELSE Cached(Link(d, p, n, r), p, n)

\* the virtual insertBefore of one node that is not a fragment
Inserted(d, p, n, r) ==
  IF n = r THEN Cached(d, p, n)
  ELSE LET e == IF d.parent[n] = Nil THEN d ELSE Removed(d, n)
       IN  Cached(Link(e, p, n, r), p, n)

\* what the application does not ask for, unless Unguarded says so
CallExpected(d, p, n, o) ==
  /\ n = p => "selfInsert" \in Unguarded
  /\ (p = Document /\ o = n /\ Kind[n] \in {"element", "doctype"}) => "selfReplace" \in Unguarded
  /\ (p = Document /\ Kind[n] = "fragment") =>
        \/ "multiFragment" \in Unguarded
        \/ \A k \in {"element", "doctype"} :
              \A x, y \in KidsOfKind(d, n, k) : x = y
-----------------------------------------------------------------------------
Init == dom = InitialDom /\ call = Idle

InsertNode(p, n, r) ==
  /\ call = Idle
  /\ Kind[n] # "fragment"
  /\ CallExpected(dom, p, n, Nil)
  /\ InsertAllowed(dom, p, n, r)
  /\ dom' = Inserted(dom, p, n, r)
  /\ UNCHANGED call

\* the fragment's kids have been prescanned, the loop that moves them begins
StartFragment(d, p, f, r, o) ==
  /\ \A x \in Node : d.parent[x] = f => KidOK(p, x)
  /\ dom' = d
  /\ call' = [parent |-> p, frag |-> f, ref |-> r, old |-> o,
              kids |-> d.kids[f],
              tempDocElement |-> dom.fDocElement, tempDocType |-> dom.fDocType]

InsertFragment(p, f, r) ==
  /\ call = Idle
  /\ Kind[f] = "fragment"
  /\ CallExpected(dom, p, f, Nil)
  /\ InsertAllowed(dom, p, f, r)
  /\ StartFragment(dom, p, f, r, Nil)

\* mutant: the loop takes the fragment's last child
MoveLastKid ==
  /\ call # Idle
  /\ HasKids(dom, call.frag)
  /\ LET n == dom.kids[call.frag][Len(dom.kids[call.frag])]
     IN  /\ InsertAllowed(dom, call.parent, n, call.ref)
         /\ dom' = Inserted(dom, call.parent, n, call.ref)
  /\ UNCHANGED call

\* one turn of `while (newChild->hasChildNodes()) insertBefore(...)'
MoveKid ==
  /\ call # Idle
  /\ HasKids(dom, call.frag)
  /\ LET n == Head(dom.kids[call.frag])
     IN  /\ InsertAllowed(dom, call.parent, n, call.ref)
         /\ dom' = Inserted(dom, call.parent, n, call.ref)
  /\ UNCHANGED call

\* mutant: the exception is swallowed and the loop tries again
KidRefusedAgain ==
  /\ call # Idle
  /\ HasKids(dom, call.frag)
  /\ ~InsertAllowed(dom, call.parent, Head(dom.kids[call.frag]), call.ref)
  /\ UNCHANGED vars

\* a kid is refused: the exception leaves the loop, and DOMDocumentImpl's
\* replaceChild puts its caches back
KidRefused ==
  /\ call # Idle
  /\ HasKids(dom, call.frag)
  /\ ~InsertAllowed(dom, call.parent, Head(dom.kids[call.frag]), call.ref)
  /\ dom' = IF call.parent = Document /\ call.old # Nil
            THEN [dom EXCEPT !.fDocElement = call.tempDocElement,
                             !.fDocType    = call.tempDocType]
            ELSE dom
  /\ call' = Idle

\* mutant: always the virtual removeChild
OldRemovedVirtually(d, p, o) == Removed(d, o)

\* what remains of replaceChild(n, o) after the insertion: DOMDocumentImpl
\* calls DOMParentNode's removeChild for an element or a document type
\* (its caches already describe the new child), everything else the virtual one
OldRemoved(d, p, o) ==
  IF p = Document /\ Kind[o] \in {"element", "doctype"}
  THEN Unlink(d, o) ELSE Removed(d, o)

FragmentDone ==
  /\ call # Idle
  /\ ~HasKids(dom, call.frag)
  /\ dom' = IF call.old = Nil THEN dom ELSE OldRemoved(dom, call.parent, call.old)
  /\ call' = Idle

RemoveChild(n) ==
  /\ call = Idle
  /\ dom.parent[n] # Nil
  /\ dom.parent[n] \notin ReadOnly
  /\ dom' = Removed(dom, n)
  /\ UNCHANGED call

\* the caches as replaceChild clears them before it inserts
ForReplace(d, p, o) == Uncached(d, p, o)

ReplaceByNode(p, n, o) ==
  /\ call = Idle
  /\ Kind[n] # "fragment"
  /\ CallExpected(dom, p, n, o)
  /\ LET d == ForReplace(dom, p, o)
     IN  /\ InsertAllowed(d, p, n, o)
         /\ dom' = OldRemoved(Inserted(d, p, n, o), p, o)
  /\ UNCHANGED call

ReplaceByFragment(p, f, o) ==
  /\ call = Idle
  /\ Kind[f] = "fragment"
  /\ CallExpected(dom, p, f, o)
  /\ LET d == ForReplace(dom, p, o)
     IN  /\ InsertAllowed(d, p, f, o)
         /\ StartFragment(d, p, f, o, o)

\* adoptNode of a node of this document only takes it out of its parent
AdoptNode(n) ==
  /\ Kind[n] \notin {"document", "doctype", "attribute"}
  /\ n \notin Foreign
  /\ RemoveChild(n)

Next ==
  \/ \E p, n \in Node : \E r \in NodeOrNil :
        InsertNode(p, n, r) \/ InsertFragment(p, n, r)
  \/ MoveKid \/ KidRefused \/ FragmentDone
  \/ \E n \in Node : RemoveChild(n) \/ AdoptNode(n)
  \/ \E p, n, o \in Node : ReplaceByNode(p, n, o) \/ ReplaceByFragment(p, n, o)

\* a call that has begun is carried on
CallProceeds == WF_vars(MoveKid \/ KidRefused \/ FragmentDone)

Spec == Init /\ [][Next]_vars /\ CallProceeds
-----------------------------------------------------------------------------
TypeOK == dom \in Doms /\ call \in Calls \cup {Idle}

\* The parent pointers and the child lists agree and no child is listed twice,
\* between any two steps of any call (DOMParentNode keeps both by hand).
ParentChildAgree == Linked(dom)

\* No node is its own ancestor: what insertBefore's check `Prevent cycles in
\* the tree' is there for.
Acyclic == NoCycle(dom)

\* Whenever no call is running, fDocElement and fDocType are exactly the
\* document's element child and document type, so there is at most one of each.
DocumentCaches == call = Idle => CachesAccurate(dom)

\* While a fragment is inserted, the kids already moved stand in their order
\* right before the reference child and the others still wait, in order, in
\* the fragment: none is lost, doubled or overtaken.
FragmentInOrder ==
  call # Idle =>
    LET kids == dom.kids[call.parent]
        end  == IF call.ref = Nil THEN Len(kids) ELSE IndexOf(kids, call.ref) - 1
    IN  \E m \in 0 .. Len(call.kids) :
           /\ dom.kids[call.frag] = SubSeq(call.kids, m + 1, Len(call.kids))
           /\ m <= end
           /\ SubSeq(kids, end - m + 1, end) = SubSeq(call.kids, 1, m)

\* A fragment insertion that fails has moved no kid: insertBefore throws
\* `before _any_ of the children have been transferred'.
FragmentAllOrNothing ==
  [][(call # Idle /\ call' = Idle /\ HasKids(dom, call.frag)) =>
        dom.kids[call.frag] = call.kids]_vars

\* Every insertion of a fragment comes to an end.
FragmentInsertionEnds == call # Idle ~> call = Idle
=============================================================================
