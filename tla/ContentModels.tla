----------------------------- MODULE ContentModels -----------------------------
(***************************************************************************)
(* How the validators decide whether the children of an element are what   *)
(* was declared: the declared particle is rewritten (ComplexTypeInfo), one *)
(* of four content models is made from it (SimpleContentModel,             *)
(* MixedContentModel, AllContentModel, DFAContentModel) and asked at the   *)
(* end tag.  Occurrences are not always unrolled: a leaf may keep its      *)
(* bounds, and the automaton counts.                                       *)
(***************************************************************************)
EXTENDS Particles, SequencesExt

CONSTANTS Declared,      \* the declarations: [mode, particle]
          MaxChildren(_) \* bound: the longest list of children of a declaration

VARIABLES decl,          \* the element's declaration
          model,         \* fContentModel, made when it is first needed
          children       \* the child elements so far

vars == <<decl, model, children>>

\* what the declaration comes from, and whether it was fully checked
Modes == {"DTD", "DTDMixed", "Schema", "SchemaMixed", "FullChecking"}

NoModel == [kind |-> "None"]

ASSUME DeclaredAssumption ==
  \A d \in Declared : d.mode \in Modes /\ MaxChildren(d) \in Nat
-----------------------------------------------------------------------------
(* ComplexTypeInfo: the content spec tree the models are made from *)

Node(t, ns) == [type |-> t, kids |-> ns]

Plain(p) == p.type = "Leaf" /\ p.min = 1 /\ p.max = 1

\* mutant: a repeated group of one leaf passes whatever the leaf's bounds
RECURSIVE UseRepeatingLeafNodesOfOne(_)
UseRepeatingLeafNodesOfOne(p) ==
  p.type \in {"Choice", "Sequence"} =>
    IF p.min # 1 \/ p.max # 1
    THEN Len(p.kids) = 1 /\ p.kids[1].type = "Leaf"
    ELSE \A i \in DOMAIN p.kids : UseRepeatingLeafNodesOfOne(p.kids[i])

\* may the tree keep counted leaves?  Only where no group repeats them
RECURSIVE UseRepeatingLeafNodes(_)
UseRepeatingLeafNodes(p) ==
  p.type \in {"Choice", "Sequence"} =>
    IF p.min # 1 \/ p.max # 1
    THEN Len(p.kids) = 1 /\ Plain(p.kids[1])
    ELSE \A i \in DOMAIN p.kids : UseRepeatingLeafNodes(p.kids[i])

\* n copies of s after the node t
RECURSIVE Followed(_, _, _)
Followed(t, s, n) == IF n = 0 THEN t ELSE Followed(Node("Sequence", <<t, s>>), s, n - 1)

RECURSIVE Preceded(_, _, _)
Preceded(t, s, n) == IF n = 0 THEN t ELSE Preceded(Node("Sequence", <<s, t>>), s, n - 1)

ExpandContentModel(s, min, max, compact) ==
  LET optional == Node("ZeroOrOne", <<s>>)
      loop     == [type |-> "Loop", kids |-> <<s>>, min |-> min, max |-> max]
  IN CASE min = 1 /\ max = 1 -> s
       [] min = 0 /\ max = 1 -> optional
       [] min = 0 /\ max = Unbounded -> Node("ZeroOrMore", <<s>>)
       [] min = 1 /\ max = Unbounded -> Node("OneOrMore", <<s>>)
       [] OTHER ->
            IF compact /\ s.type = "Leaf"
            THEN Node(IF min = 0 THEN "ZeroOrMore" ELSE "OneOrMore", <<loop>>)
            ELSE IF max = Unbounded THEN Preceded(Node("OneOrMore", <<s>>), s, min - 1)
            ELSE IF min = 0 THEN Followed(optional, optional, max - 1)
            ELSE Followed(Followed(s, s, min - 1), optional, max - min)

RECURSIVE ConvertContentSpecTree(_, _)
ConvertContentSpecTree(p, compact) ==
  LET kids  == [i \in DOMAIN p.kids |-> ConvertContentSpecTree(p.kids[i], compact)]
      whole == CASE p.type = "Leaf" -> p
                 [] p.type # "Leaf" /\ Len(p.kids) = 1 -> kids[1]
                 [] OTHER -> [type |-> p.type, kids |-> kids, min |-> p.min, max |-> p.max]
  IN ExpandContentModel(whole, p.min, p.max, compact)
-----------------------------------------------------------------------------
(* DFAContentModel::buildDFA.  Positions are numbered in the order of the  *)
(* leaves; follow is a set of pairs of them.                               *)

\* CMLeaf, CMAny, CMRepeatingLeaf: a leaf at position i
Position(i, leaf, counted, min, max) ==
  [nullable |-> FALSE, first |-> {i}, last |-> {i}, follow |-> {},
   leaves |-> <<[leaf |-> leaf, counted |-> counted, min |-> min, max |-> max]>>]

UnaryOp(type, c) ==
  [c EXCEPT !.nullable = @ \/ type # "OneOrMore",
            !.follow = IF type = "ZeroOrOne" THEN @ ELSE @ \cup (c.last \X c.first)]

BinaryOp(type, l, r) ==
  LET seq == type = "Sequence"
  IN [nullable |-> IF seq THEN l.nullable /\ r.nullable ELSE l.nullable \/ r.nullable,
      first    |-> l.first \cup (IF seq /\ ~l.nullable THEN {} ELSE r.first),
      last     |-> r.last \cup (IF seq /\ ~r.nullable THEN {} ELSE l.last),
      follow   |-> l.follow \cup r.follow \cup (IF seq THEN l.last \X r.first ELSE {}),
      leaves   |-> l.leaves \o r.leaves]

RECURSIVE BuildSyntaxTree(_, _)
BuildSyntaxTree(n, at) ==   \* at: the positions used so far
  CASE n.type = "Leaf" -> Position(at + 1, n, FALSE, 1, 1)
    [] n.type = "Loop" -> Position(at + 1, n.kids[1], TRUE, n.min, n.max)
    [] n.type \in {"ZeroOrOne", "ZeroOrMore", "OneOrMore"} ->
         UnaryOp(n.type, BuildSyntaxTree(n.kids[1], at))
    [] n.type \in {"Sequence", "Choice"} ->
         LET l == BuildSyntaxTree(n.kids[1], at)
         IN BinaryOp(n.type, l, BuildSyntaxTree(n.kids[2], at + Len(l.leaves)))

\* an entry of fElemMap stands for all leaves with its type and name; while
\* the attribution is checked every particle has a name of its own
SameName(full, k, l) ==
  IF full THEN k.id = l.id ELSE k.wild = l.wild /\ k.names = l.names

RECURSIVE ElemMap(_, _)
ElemMap(full, leaves) ==
  IF leaves = <<>> THEN <<>>
  ELSE LET front == ElemMap(full, Front(leaves))
           l     == Last(leaves)
       IN IF \E i \in DOMAIN front : SameName(full, front[i].leaf, l.leaf)
          THEN front ELSE Append(front, l)

(* The subset construction.  State 1 is the start (0 in the code), 0 is    *)
(* gInvalidTrans.  The set of the start is not entered into stateTable.    *)
Invalid == 0

RECURSIVE Row(_, _, _, _)
Row(move, sets, e, last) ==   \* the row of one state, and the sets it adds
  IF e > last THEN [sets |-> sets, row |-> <<>>]
  ELSE LET to    == move[e]
           known == {k \in 2 .. Len(sets) : sets[k] = to}
           here  == CASE to = {} -> [sets |-> sets, to |-> Invalid]
                      [] to # {} /\ known # {} -> [sets |-> sets, to |-> CHOOSE k \in known : TRUE]
                      [] OTHER -> [sets |-> Append(sets, to), to |-> Len(sets) + 1]
           tail  == Row(move, here.sets, e + 1, last)
       IN [sets |-> tail.sets, row |-> <<here.to>> \o tail.row]

RECURSIVE Table(_, _, _)
Table(Move, sets, trans) ==   \* Move[e]: the pairs of positions entry e connects
  IF Len(trans) = Len(sets) THEN [sets |-> sets, trans |-> trans]
  ELSE LET from == sets[Len(trans) + 1]
           move == [e \in DOMAIN Move |-> {c[2] : c \in {d \in Move[e] : d[1] \in from}}]
           r    == Row(move, sets, 1, Len(Move))
       IN Table(Move, r.sets, Append(trans, r.row))

BuildDFA(n, full) ==
  LET t      == BuildSyntaxTree(n, 0)
      eoc    == Len(t.leaves) + 1
      follow == t.follow \cup (t.last \X {eoc})
      map    == ElemMap(full, t.leaves)
      Move   == [e \in DOMAIN map |->
                   {c \in follow : SameName(full, t.leaves[c[1]].leaf, map[e].leaf)}]
      start  == t.first \cup (IF t.nullable THEN {eoc} ELSE {})
      table  == Table(Move, <<start>>, <<>>)
      \* the entry that loops on state s
      Loops(s) == {e \in DOMAIN map : table.trans[s][e] = s}
      Counts(s) == IF Loops(s) = {} THEN 0
                   ELSE LET e == CHOOSE e \in Loops(s) : \A d \in Loops(s) : e <= d
                        IN IF map[e].counted THEN e ELSE 0
  IN [kind     |-> "DFA",
      map      |-> map,                                     \* fElemMap, fElemMapType
      trans    |-> table.trans,                             \* fTransTable
      final    |-> [s \in DOMAIN table.sets |-> eoc \in table.sets[s]],   \* fFinalStateFlags
      counting |-> [s \in DOMAIN table.sets |-> Counts(s)], \* fCountingStates: the entry
      emptyOk  |-> t.nullable]
-----------------------------------------------------------------------------
(* AllContentModel::buildChildList and the choice of a model *)

IsLeaf(n) == n.type = "Leaf"

RECURSIVE BuildChildList(_)
BuildChildList(n) ==
  CASE n.type = "Leaf"      -> <<[leaf |-> n, optional |-> FALSE]>>
    [] n.type = "ZeroOrOne" -> <<[leaf |-> n.kids[1], optional |-> TRUE]>>
    [] n.type = "All"       -> FlattenSeq([i \in DOMAIN n.kids |-> BuildChildList(n.kids[i])])

AllModel(n) == [kind |-> "All", list |-> BuildChildList(n), hasOptionalContent |-> n.min = 0]

SimpleModel(op, ns) == [kind |-> "Simple", op |-> op, list |-> [i \in DOMAIN ns |-> [leaf |-> ns[i]]]]

RECURSIVE LeavesOf(_)
LeavesOf(n) ==
  IF n.type = "Leaf" THEN <<[leaf |-> n]>>
  ELSE FlattenSeq([i \in DOMAIN n.kids |-> LeavesOf(n.kids[i])])

MakeContentModel(d) ==
  LET spec == ConvertContentSpecTree(d.particle, UseRepeatingLeafNodes(d.particle))
      full == d.mode = "FullChecking"
      element(n) == IsLeaf(n) /\ ~n.wild
      unary == {"ZeroOrOne", "ZeroOrMore", "OneOrMore"}
  IN CASE d.mode = "DTDMixed" -> [kind |-> "Mixed", list |-> LeavesOf(spec)]
       [] d.mode # "DTDMixed" /\ spec.type = "All" -> AllModel(spec)
       [] spec.type = "ZeroOrOne" /\ spec.kids[1].type = "All" -> AllModel(spec.kids[1])
       [] d.mode \notin {"DTDMixed", "SchemaMixed"} /\ element(spec) -> SimpleModel("Leaf", <<spec>>)
       [] /\ d.mode \notin {"DTDMixed", "SchemaMixed"}
          /\ \/ spec.type \in unary
             \/ spec.type \in {"Choice", "Sequence"}
          /\ \A i \in DOMAIN spec.kids : element(spec.kids[i]) -> SimpleModel(spec.type, spec.kids)
       [] OTHER -> BuildDFA(spec, full)
-----------------------------------------------------------------------------
(* validateContent (exact names) and validateContentSpecial (substitution  *)
(* groups).  The result: is the list valid, and indexFailingChild, counted *)
(* from 1 here.                                                            *)
Fits(leaf, child, special) ==
  IF special THEN child \in Admitted(leaf) ELSE child \in leaf.names

Valid == [valid |-> TRUE, index |-> 0]

Fails(i) == [valid |-> FALSE, index |-> i]

SimpleResult(m, w, special) ==
  LET n      == Len(w)
      fits(k, i) == Fits(m.list[k].leaf, w[i], special)
      misfit == {i \in 1 .. n : ~fits(1, i)}
      firstMisfit == CHOOSE i \in misfit : \A j \in misfit : i <= j
  IN CASE m.op = "Leaf" ->
            IF n = 0 \/ ~fits(1, 1) THEN Fails(1) ELSE IF n > 1 THEN Fails(2) ELSE Valid
       [] m.op = "ZeroOrOne" ->
            IF n = 1 /\ ~fits(1, 1) THEN Fails(1) ELSE IF n > 1 THEN Fails(2) ELSE Valid
       [] m.op = "ZeroOrMore" -> IF misfit = {} THEN Valid ELSE Fails(firstMisfit)
       [] m.op = "OneOrMore" ->
            IF n = 0 THEN Fails(1) ELSE IF misfit = {} THEN Valid ELSE Fails(firstMisfit)
       [] m.op = "Choice" ->
            IF n = 0 \/ ~(fits(1, 1) \/ fits(2, 1)) THEN Fails(1)
            ELSE IF n > 1 THEN Fails(2) ELSE Valid
       [] m.op = "Sequence" ->
            IF n = 0 \/ ~fits(1, 1) THEN Fails(1)
            ELSE IF n = 1 \/ ~fits(2, 2) THEN Fails(2)
            ELSE IF n > 2 THEN Fails(3) ELSE Valid

MixedResult(m, w) ==
  LET misfit == {i \in DOMAIN w : \A k \in DOMAIN m.list : w[i] \notin m.list[k].leaf.names}
  IN IF misfit = {} THEN Valid ELSE Fails(CHOOSE i \in misfit : \A j \in misfit : i <= j)

\* every child takes the first entry of the list that fits
AllResult(m, w, special) ==
  LET entry(i) == LET ks == {k \in DOMAIN m.list : Fits(m.list[k].leaf, w[i], special)}
                  IN IF ks = {} THEN 0 ELSE CHOOSE k \in ks : \A l \in ks : k <= l
      bad      == {i \in DOMAIN w : entry(i) = 0 \/ \E j \in 1 .. i - 1 : entry(j) = entry(i)}
      required == {k \in DOMAIN m.list : ~m.list[k].optional}
  IN CASE w = <<>> /\ (m.hasOptionalContent \/ required = {}) -> Valid
       [] bad # {} -> Fails(CHOOSE i \in bad : \A j \in bad : i <= j)
       [] OTHER -> IF required \subseteq {entry(i) : i \in DOMAIN w} THEN Valid
                   ELSE Fails(Len(w) + 1)

\* the first entry from e on that fits the child and has a transition, or 0
Entry(m, s, e, child, special) ==
  LET es == {k \in e .. Len(m.map) : Fits(m.map[k].leaf, child, special) /\ m.trans[s][k] # Invalid}
  IN IF es = {} THEN 0 ELSE CHOOSE k \in es : \A l \in es : k <= l

\* mutant: the child that enters a counting state is not counted
EnteredAtZero(m, s, e) == 0

\* loop count on entering state s by entry e
Entered(m, s, e) == IF m.counting[s] = e THEN 1 ELSE 0

Failed == [state |-> 0, loop |-> 0]

\* one child: look up a transition, then handleRepetitions
StepBy(m, at, child, special) ==
  LET e    == Entry(m, at.state, 1, child, special)
      to   == m.trans[at.state][e]
      c    == m.counting[at.state]
      later == Entry(m, at.state, e + 1, child, special)
      more == at.loop + 1
      leave(k) == [state |-> m.trans[at.state][k],
                   loop  |-> Entered(m, m.trans[at.state][k], k)]
  IN CASE e = 0 -> Failed
       [] e # 0 /\ c # 0 /\ to = at.state ->
            IF m.map[c].max = Unbounded \/ more <= m.map[c].max
            THEN [state |-> to, loop |-> more]
            ELSE IF later = 0 THEN Failed ELSE leave(later)
       [] e # 0 /\ c # 0 /\ to # at.state ->
            IF at.loop < m.map[c].min THEN Failed ELSE leave(e)
       [] OTHER -> leave(e)

\* the automaton at the end of the list
Ending(m, at, w) ==
  LET c == m.counting[at.state]
  IN IF m.final[at.state] /\ (c # 0 => at.loop >= m.map[c].min) THEN Valid ELSE Fails(Len(w) + 1)

RECURSIVE RunFrom(_, _, _, _, _)
RunFrom(m, at, w, i, special) ==   \* the children from the i-th on
  IF i > Len(w) THEN Ending(m, at, w)
  ELSE LET next == StepBy(m, at, w[i], special)
       IN IF next = Failed THEN Fails(i) ELSE RunFrom(m, next, w, i + 1, special)

DFAResult(m, w, special) ==
  IF w = <<>> THEN IF m.emptyOk THEN Valid ELSE Fails(1)
  ELSE RunFrom(m, [state |-> 1, loop |-> 0], w, 1, special)

ValidateContent(m, w, special) ==
  CASE m.kind = "Simple" -> SimpleResult(m, w, special)
    [] m.kind = "Mixed"  -> MixedResult(m, w)
    [] m.kind = "All"    -> AllResult(m, w, special)
    [] m.kind = "DFA"    -> DFAResult(m, w, special)

\* SchemaValidator asks a second time, DTDValidator does not
CheckContent(d, m, w) ==
  LET exact == ValidateContent(m, w, FALSE)
  IN IF exact.valid \/ d.mode \in {"DTD", "DTDMixed"} THEN exact ELSE ValidateContent(m, w, TRUE)
-----------------------------------------------------------------------------
(* checkUniqueParticleAttribution of the models: is an error reported? *)

Conflict(k, l) ==
  IF k.wild \/ l.wild THEN Admitted(k) \cap Admitted(l) # {}
  ELSE k.names \subseteq Admitted(l) \/ l.names \subseteq Admitted(k)

\* mutant: any counter is taken to keep them apart
ToldByAnyCount(m, s, j, k) ==
  m.counting[s] # 0 /\ (m.trans[s][j] = s) # (m.trans[s][k] = s)

\* does a counter keep the two transitions apart?
ToldByCount(m, s, j, k) ==
  LET c == m.counting[s]
  IN /\ c # 0
     /\ (m.trans[s][j] = s) # (m.trans[s][k] = s)
     /\ m.map[c].min = m.map[c].max

AttributionFails(m) ==
  CASE m.kind = "Simple" -> m.op = "Choice" /\ Conflict(m.list[1].leaf, m.list[2].leaf)
    [] m.kind = "All" -> \E i, j \in DOMAIN m.list : i < j /\ Conflict(m.list[i].leaf, m.list[j].leaf)
    [] m.kind = "DFA" ->
         \E j, k \in DOMAIN m.map :
           LET both == {s \in DOMAIN m.trans : m.trans[s][j] # Invalid /\ m.trans[s][k] # Invalid}
               \* conflictTable remembers the answer of the first such state
               first == CHOOSE s \in both : \A o \in both : s <= o
           IN /\ j < k
              /\ both # {}
              /\ Conflict(m.map[j].leaf, m.map[k].leaf)
              /\ ~ToldByCount(m, first, j, k)
-----------------------------------------------------------------------------
Init ==
  /\ decl \in Declared
  /\ model = NoModel
  /\ children = <<>>

\* getContentModel() of the declaration, or the full check of its schema
FaultIn ==
  /\ model = NoModel
  /\ model' = MakeContentModel(decl)
  /\ UNCHANGED <<decl, children>>

IsDTD == decl.mode \in {"DTD", "DTDMixed"}

\* the scanner adds every child to its element stack, whatever was there before
\* (the validator is asked at the end tag only); the members of substitution
\* groups are elements of schemas only
AddChild(e) ==
  /\ model # NoModel
  /\ Len(children) < MaxChildren(decl)
  /\ IsDTD => \A h \in Elements : e \in Members[h] => h = e
  /\ children' = Append(children, e)
  /\ UNCHANGED <<decl, model>>

ContentNext == FaultIn \/ \E e \in Elements : AddChild(e)

ContentSpec == Init /\ [][ContentNext]_vars
-----------------------------------------------------------------------------
(***************************************************************************)
(* Properties                                                              *)
(***************************************************************************)

\* does the rewritten tree keep counted leaves?
RECURSIVE HasLoop(_)
HasLoop(n) ==
  CASE n.type = "Loop" -> TRUE
    [] n.type = "Leaf" -> FALSE
    [] OTHER -> \E i \in DOMAIN n.kids : HasLoop(n.kids[i])

Counted(p) == HasLoop(ConvertContentSpecTree(p, UseRepeatingLeafNodes(p)))

LeavesApart(p) == \A k, l \in {m.leaf : m \in Range(LeavesOf(p))} : k.id # l.id => ~SameName(FALSE, k, l)

(* Declarations the code decides.  An ambiguous particle is still decided  *)
(* where the subset construction alone does it: no counted leaf, and no    *)
(* child that fits two different entries.  Without full checking a counted *)
(* leaf shares its entry with other leaves of its name (finding).          *)
Decided ==
  LET leaves == {m.leaf : m \in Range(LeavesOf(decl.particle))}
  IN /\ decl.mode # "FullChecking" => LeavesApart(decl.particle) \/ ~Counted(decl.particle)
     /\ \/ Unambiguous(decl.particle)
        \/ /\ decl.mode # "FullChecking" /\ ~Counted(decl.particle) /\ model.kind # "All"
           /\ \A k, l \in leaves : SameName(FALSE, k, l) \/ Admitted(k) \cap Admitted(l) = {}

(* The children are accepted exactly if the declaration allows them:       *)
(* unrolling, follow lists, subsets, merged entries, counters and the      *)
(* second pass for substitution groups lose or add no sequence.            *)
VerdictIsLanguage ==
  model # NoModel =>
    \/ CheckContent(decl, model, children).valid <=> Word(decl.particle, children)
    \/ ~Decided

(* What XMLValidator.hpp says of indexFailingChild, `the index of the      *)
(* children failing validation': everything before it can still be         *)
(* completed, and not with it; past the end, the list is incomplete.       *)
IndexIsOfFailingChild ==
  model # NoModel =>
    LET r   == CheckContent(decl, model, children)
        due == After({<<decl.particle>>}, SubSeq(children, 1, r.index - 1))
    IN \/ r.valid
       \/ due # {} /\ (r.index \in DOMAIN children => After(due, <<children[r.index]>>) = {})
       \/ ~Decided

(* SimpleContentModel does not look at the first child of an optional      *)
(* element if there are more, and blames the second.                       *)
BlamesTheSecond ==
  /\ model.kind = "Simple" /\ model.op = "ZeroOrOne" /\ Len(children) > 1
  /\ CheckContent(decl, model, children) = Fails(2)

(* The child reported is the first one that cannot be there, in all models *)
(* and however many children follow it, but for the case BlamesTheSecond   *)
(* of one optional element.                                                *)
FirstUnexpectedChild ==
  model # NoModel => BlamesTheSecond \/ IndexIsOfFailingChild

(* Full schema checking reports exactly the particles that are ambiguous.  *)
AttributionIsReported ==
  model # NoModel /\ decl.mode = "FullChecking" /\ children = <<>> =>
    (AttributionFails(model) <=> ~Unambiguous(decl.particle))

(* What the comment in handleRepetitions says: a counter that has run out  *)
(* lets a later particle of the same name take the child.                  *)
CounterTellsParticlesApart ==
  model # NoModel =>
    \/ CheckContent(decl, model, children).valid <=> Word(decl.particle, children)
    \/ ~Unambiguous(decl.particle)
=============================================================================
