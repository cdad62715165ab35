-------------------------------- MODULE KeyTables --------------------------------
(***************************************************************************)
(* What XML Schema means by unique, key and keyref, defined on the whole   *)
(* tree of a document: a constraint holds of the element it is attached to *)
(* or not.  A document is a sequence of elements in document order, each   *)
(* with its parent, the value of its attribute x and its text; a path is a *)
(* sequence of steps; a constraint has its element, its selector and its   *)
(* fields, which are unions of paths.                                      *)
(***************************************************************************)
EXTENDS Integers, SequencesExt

Absent == ""      \* no attribute, no value

Step(axis, name) == [axis |-> axis, name |-> name]

Admits(step, name) == step.name \in {name, "*"}

\* the elements on the way from n up to the root
Upward(doc, n) ==
  LET up[k \in DOMAIN doc] == {k} \cup IF doc[k].parent = 0 THEN {} ELSE up[doc[k].parent]
  IN  up[n]

Inside(doc, m, n) == n \in Upward(doc, m)

(* A node of a path is <<element, "element">> or <<element, "attribute">> *)
OneStep(doc, nodes, step) ==
  LET from == {p[1] : p \in nodes}
      elements(S) == {<<m, "element">> : m \in S}
  IN  CASE step.axis = "self"       -> nodes
        [] step.axis = "child"      -> elements({m \in DOMAIN doc : doc[m].parent \in from /\ Admits(step, doc[m].name)})
        [] step.axis = "descendant" -> elements({m \in DOMAIN doc : \E n \in from : Inside(doc, m, n)})
        [] step.axis = "attribute"  -> {<<m, "attribute">> : m \in {n \in from : doc[n].x # Absent}}

Nodes(doc, path, n) ==
  FoldLeft(LAMBDA nodes, step : OneStep(doc, nodes, step), {<<n, "element">>}, path)

NodesOfUnion(doc, paths, n) == UNION {Nodes(doc, paths[i], n) : i \in DOMAIN paths}

ValueOf(doc, node) == IF node[2] = "attribute" THEN doc[node[1]].x ELSE doc[node[1]].text

-----------------------------------------------------------------------------
(* a constraint c of an element n *)

TargetNodes(doc, c, n) == {p[1] : p \in NodesOfUnion(doc, c.selector, n)}

FieldNodes(doc, c, t) == [i \in DOMAIN c.fields |-> NodesOfUnion(doc, c.fields[i], t)]

Qualified(doc, c, n) ==
  {t \in TargetNodes(doc, c, n) :
     \A i \in DOMAIN c.fields : Cardinality(FieldNodes(doc, c, t)[i]) = 1}

KeySequence(doc, c, t) ==
  [i \in DOMAIN c.fields |-> ValueOf(doc, CHOOSE p \in FieldNodes(doc, c, t)[i] : TRUE)]

KeySequences(doc, c, n) == {KeySequence(doc, c, t) : t \in Qualified(doc, c, n)}

MatchedTwice(doc, c, n) ==
  \E t \in TargetNodes(doc, c, n) : \E i \in DOMAIN c.fields : Cardinality(FieldNodes(doc, c, t)[i]) > 1

Duplicated(doc, c, n) ==
  Cardinality(KeySequences(doc, c, n)) < Cardinality(Qualified(doc, c, n))

\* the elements in the subtree of n that have the constraint c
Scopes(doc, c, n) == {m \in DOMAIN doc : doc[m].name = c.on /\ Inside(doc, m, n)}

\* the keys a keyref of n may refer to: those of n and of its descendants
Eligible(doc, key, n) == UNION {KeySequences(doc, key, m) : m \in Scopes(doc, key, n)}

\* is the constraint c of the element n violated?  key is what a keyref refers to
Violated(doc, c, key, n) ==
  \/ MatchedTwice(doc, c, n)
  \/ c.type \in {"unique", "key"} /\ Duplicated(doc, c, n)
  \/ c.type = "key" /\ Qualified(doc, c, n) # TargetNodes(doc, c, n)
  \/ c.type = "keyref" /\ ~(KeySequences(doc, c, n) \subseteq Eligible(doc, key, n))
=============================================================================
