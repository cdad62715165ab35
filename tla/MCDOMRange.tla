------------------------------ MODULE MCDOMRange ------------------------------
(***************************************************************************)
(* A document whose element holds a text of two characters, a fragment and *)
(* one text that splitText may create; one range.                          *)
(***************************************************************************)
EXTENDS DOMRange

CONSTANTS doc, e1, t1, t2, frag, rg1

MCNode == {doc, e1, t1, t2, frag}

MCKind == [n \in MCNode |->
             CASE n = doc -> "document" [] n = frag -> "fragment"
               [] n \in {t1, t2} -> "text" [] OTHER -> "element"]

MCInitialDom ==
  [parent      |-> [n \in MCNode |-> CASE n = e1 -> doc [] n = t1 -> e1 [] OTHER -> Nil],
   kids        |-> [n \in MCNode |-> CASE n = doc -> <<e1>> [] n = e1 -> <<t1>> [] OTHER -> <<>>],
   fDocElement |-> e1,
   fDocType    |-> Nil]

MCInitialLen == [n \in MCNode |-> IF n = t1 THEN 2 ELSE 0]
=============================================================================
