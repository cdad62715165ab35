---------------------------- MODULE MCContentModels ----------------------------
(***************************************************************************)
(* Elements a, b and s, a member of a's substitution group; every leaf and *)
(* every group of up to two leaves, groups of three and all-groups.        *)
(***************************************************************************)
EXTENDS ContentModels

CONSTANTS a, b, s

MCElements == {a, b, s}

MCMembers == [e \in MCElements |-> IF e = a THEN {a, s} ELSE {e}]

Occurs == {<<1, 1>>, <<0, 1>>, <<0, Unbounded>>, <<1, Unbounded>>, <<2, 2>>, <<2, 3>>}

Leafs(i, occurs) ==
  UNION {{Element(i, a, o), Element(i, b, o), Wildcard(i, {a, s}, o)} : o \in occurs}

Ops == {"Sequence", "Choice"}

Pairs(ks, ls, occurs) ==
  {Group(g.t, <<g.k, g.l>>, g.o) : g \in [t : Ops, k : ks, l : ls, o : occurs]}

Singles == Leafs(1, Occurs) \cup
           {Group(g.t, <<g.k>>, g.o) : g \in [t : Ops, k : Leafs(1, Occurs), o : Occurs]}

MCParticles ==
  Singles
  \cup Pairs(Leafs(1, Occurs), Leafs(2, Occurs), {<<1, 1>>, <<0, Unbounded>>, <<2, 2>>})

FewOccurs == {<<1, 1>>, <<0, Unbounded>>, <<2, 2>>}

FewLeafs(i) == {Element(i, e, o) : e \in {a, b}, o \in FewOccurs}

MCTriples ==
  Pairs(Pairs(FewLeafs(1), FewLeafs(2), {<<1, 1>>, <<0, 1>>}), FewLeafs(3), {<<1, 1>>})

MCAlls ==
  {Group("All", <<g.k, g.l>>, g.o) : g \in
     [k : {Element(1, e, o) : e \in {a, b}, o \in {<<1, 1>>, <<0, 1>>}},
      l : {Element(2, e, o) : e \in {a, b, s}, o \in {<<1, 1>>, <<0, 1>>}},
      o : {<<1, 1>>, <<0, 1>>}]}

RECURSIVE InDTD(_)
InDTD(p) ==   \* a DTD has ?, * and + and no groups of one
  /\ p.min \in {0, 1} /\ p.max \in {1, Unbounded}
  /\ IF p.type = "Leaf" THEN ~p.wild
     ELSE p.type # "All" /\ Len(p.kids) = 2 /\ \A i \in DOMAIN p.kids : InDTD(p.kids[i])

MCDeclared ==
  {[mode |-> m, particle |-> p] :
     m \in {"Schema", "FullChecking"}, p \in MCParticles \cup MCTriples \cup MCAlls}
  \cup {[mode |-> "SchemaMixed", particle |-> p] : p \in Singles \cup MCAlls}
  \cup {[mode |-> "DTD", particle |-> p] : p \in {q \in MCParticles \cup MCTriples : InDTD(q)}}
  \cup {[mode |-> "DTDMixed", particle |-> p] :
          p \in {Group("Choice", <<Element(1, a, <<1, 1>>), Element(2, b, <<1, 1>>)>>,
                       <<0, Unbounded>>)}}

\* A group that is repeated has lists that go twice around two leaves and one
\* child further.
Repeated(p) == p.max # 1

MCMaxChildren(d) ==
  CASE d.mode \in {"Schema", "DTD", "DTDMixed"} -> IF Repeated(d.particle) THEN 5 ELSE 4
    [] d.mode \in {"FullChecking", "SchemaMixed"} -> IF Repeated(d.particle) THEN 4 ELSE 3
=============================================================================
