------------------------------ MODULE MCXSModels ------------------------------
(***************************************************************************)
(* Two parsers on one pool, two namespaces with a few grammar objects each.*)
(***************************************************************************)
EXTENDS XSModels, TLC

CONSTANTS p1, p2, a1, a2, b1

MCParser == {p1, p2}
MCGrammar == {a1, a2, b1}
MCNamespaceOf == [g \in MCGrammar |-> IF g \in {a1, a2} THEN "a" ELSE "b"]

MCSymmetry == {f @@ g : f \in Permutations(MCParser), g \in Permutations({a1, a2})}
=============================================================================
