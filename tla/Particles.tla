------------------------------- MODULE Particles -------------------------------
(***************************************************************************)
(* What a content model promises: the element sequences a particle allows. *)
(* A particle is the tree of ContentSpecNodes a schema or a DTD declares,  *)
(* each node with its occurrences.  The definitions here are the standard  *)
(* meaning of such a tree (what may follow what has been read), written    *)
(* without any automaton; ContentModels has the automata of the code.      *)
(***************************************************************************)
EXTENDS Integers, Sequences, FiniteSets

CONSTANTS Elements,    \* the names of child elements
          Members      \* [Elements -> SUBSET Elements]: the substitution group

Unbounded == -1        \* maxOccurs="unbounded" in ContentSpecNode

ASSUME MembersAssumption ==
  /\ Members \in [Elements -> SUBSET Elements]
  /\ \A e \in Elements : e \in Members[e]

(* The nodes.  id tells the particles of one tree apart. *)
Element(i, e, occurs) ==
  [type |-> "Leaf", id |-> i, wild |-> FALSE, names |-> {e}, min |-> occurs[1], max |-> occurs[2]]

Wildcard(i, es, occurs) ==
  [type |-> "Leaf", id |-> i, wild |-> TRUE, names |-> es, min |-> occurs[1], max |-> occurs[2]]

Group(t, ps, occurs) ==
  [type |-> t, kids |-> ps, min |-> occurs[1], max |-> occurs[2]]

\* the elements a leaf lets through: members stand in for the head
Admitted(leaf) ==
  IF leaf.wild THEN leaf.names ELSE UNION {Members[e] : e \in leaf.names}
-----------------------------------------------------------------------------
RECURSIVE NullableBody(_)

Nullable(p) == p.min = 0 \/ NullableBody(p)

NullableBody(p) ==
  CASE p.type = "Leaf" -> FALSE
    [] p.type = "Choice" -> \E i \in DOMAIN p.kids : Nullable(p.kids[i])
    [] OTHER -> \A i \in DOMAIN p.kids : Nullable(p.kids[i])

\* what is left of a particle after one of its occurrences
Rest(p) ==
  IF p.max = 1 THEN <<>>
  ELSE <<[p EXCEPT !.min = IF @ = 0 THEN 0 ELSE @ - 1,
                   !.max = IF @ = Unbounded THEN @ ELSE @ - 1]>>

Without(ps, i) == SubSeq(ps, 1, i - 1) \o SubSeq(ps, i + 1, Len(ps))

(* Next(ps): the leaves that can be read next where the sequence ps of     *)
(* particles is still due, each with what is due after it.                 *)
RECURSIVE Next(_), NextOf(_)

Next(ps) ==
  IF ps = <<>> THEN {}
  ELSE {[leaf |-> n.leaf, due |-> n.due \o Tail(ps)] : n \in NextOf(Head(ps))}
       \cup (IF Nullable(Head(ps)) THEN Next(Tail(ps)) ELSE {})

NextOf(p) ==
  LET first == CASE p.type = "Leaf" -> {[leaf |-> p, due |-> <<>>]}
                 [] p.type = "Sequence" -> Next(p.kids)
                 [] p.type = "Choice" -> UNION {NextOf(p.kids[i]) : i \in DOMAIN p.kids}
                 [] p.type = "All" ->
                      UNION {{[leaf |-> n.leaf,
                               due |-> n.due \o <<Group("All", Without(p.kids, i), <<1, 1>>)>>]
                              : n \in NextOf(p.kids[i])} : i \in DOMAIN p.kids}
  IN {[leaf |-> n.leaf, due |-> n.due \o Rest(p)] : n \in first}

\* what may be due after the elements w
RECURSIVE After(_, _)
After(dues, w) ==
  IF w = <<>> THEN dues
  ELSE After({n.due : n \in {m \in UNION {Next(ps) : ps \in dues} : Head(w) \in Admitted(m.leaf)}},
             Tail(w))

Prefix(p, w) == After({<<p>>}, w) # {}

Word(p, w) == \E ps \in After({<<p>>}, w) : \A i \in DOMAIN ps : Nullable(ps[i])
-----------------------------------------------------------------------------
(* Unique Particle Attribution: whatever was read, and read by known       *)
(* particles, the name of the next element alone tells its particle.       *)
Leaves(dues) == {n.leaf.id : n \in UNION {Next(ps) : ps \in dues}}

ReadBy(dues, i) == {n.due : n \in {m \in UNION {Next(ps) : ps \in dues} : m.leaf.id = i}}

RECURSIVE Reached(_, _)
Reached(seen, todo) ==
  IF todo = {} THEN seen
  ELSE LET new == UNION {{ReadBy(dues, i) : i \in Leaves(dues)} : dues \in todo} \ seen
       IN Reached(seen \cup new, new)

Unambiguous(p) ==
  \A dues \in Reached({{<<p>>}}, {{<<p>>}}) :
    LET next == {n.leaf : n \in UNION {Next(ps) : ps \in dues}}
    IN \A k, l \in next : k.id # l.id => Admitted(k) \cap Admitted(l) = {}
=============================================================================
