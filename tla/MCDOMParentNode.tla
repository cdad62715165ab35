--------------------------- MODULE MCDOMParentNode ---------------------------
(***************************************************************************)
(* A document, two elements, three texts (one of them made by cloneNode).  *)
(***************************************************************************)
EXTENDS DOMParentNode

CONSTANTS doc, e1, e2, t1, t2, c1

MCNode == {doc, e1, e2, t1, t2, c1}
=============================================================================
