-------------------------- MODULE MCDOMNodeIterator --------------------------
(***************************************************************************)
(* One element with an entity reference (read-only, as the parser leaves   *)
(* it) and a comment, a second element and a fragment; one iterator.       *)
(***************************************************************************)
EXTENDS DOMNodeIterator

CONSTANTS doc, e1, e2, x1, ref, t1, frag, it1

MCNode == {doc, e1, e2, x1, ref, t1, frag}

MCKind == [n \in MCNode |->
             CASE n = doc -> "document" [] n = frag -> "fragment"
               [] n = x1 -> "comment" [] n = ref -> "entityReference"
               [] n = t1 -> "text" [] OTHER -> "element"]

MCKids == [n \in MCNode |->
             CASE n = doc -> <<e1>> [] n = e1 -> <<ref, x1>> [] n = ref -> <<t1>>
               [] OTHER -> <<>>]

MCInitialDom ==
  [parent      |-> [n \in MCNode |->
                      CASE n = e1 -> doc [] n \in {ref, x1} -> e1 [] n = t1 -> ref
                        [] OTHER -> Nil],
   kids        |-> MCKids,
   fDocElement |-> e1,
   fDocType    |-> Nil]
=============================================================================
