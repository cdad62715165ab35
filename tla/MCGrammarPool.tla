---------------------------- MODULE MCGrammarPool ----------------------------
(***************************************************************************)
(* Two parsers on one pool, one namespace and one system id.               *)
(***************************************************************************)
EXTENDS GrammarPool, TLC

CONSTANTS p1, p2, g1, g2, g3, g4

MCParser == {p1, p2}
MCGrammar == {g1, g2, g3, g4}

MCSymmetry == Permutations(MCParser) \cup Permutations(MCGrammar)
=============================================================================
