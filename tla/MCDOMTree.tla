------------------------------ MODULE MCDOMTree ------------------------------
(***************************************************************************)
(* A small document: a document node that holds a document type and its    *)
(* element, two more elements, a comment and a fragment.                   *)
(***************************************************************************)
EXTENDS DOMTree

CONSTANTS doc, type, e1, e2, x1, frag

MCNode == {doc, type, e1, e2, x1, frag}

MCKind == [n \in MCNode |->
             CASE n = doc -> "document" [] n = frag -> "fragment"
               [] n = type -> "doctype" [] n = x1 -> "comment"
               [] OTHER -> "element"]

MCKids == [n \in MCNode |->
             CASE n = doc -> <<type, e1>> [] n = e1 -> <<x1>> [] OTHER -> <<>>]

MCInitialDom ==
  [parent      |-> [n \in MCNode |->
                      CASE n \in {type, e1} -> doc [] n = x1 -> e1 [] OTHER -> Nil],
   kids        |-> MCKids,
   fDocElement |-> e1,
   fDocType    |-> type]
=============================================================================
