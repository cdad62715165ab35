--------------------------- MODULE IdentityConstraints ---------------------------
(***************************************************************************)
(* How IdentityConstraintHandler checks unique, key and keyref while a     *)
(* document goes by: a stack of matchers follows the paths of selectors    *)
(* and fields, a ValueStore per constraint and depth collects the values,  *)
(* and ValueStoreCache hands the keys of closed elements up the tree for   *)
(* the keyrefs.  Stores are shared by reference: fGlobalICMap and the maps *)
(* on fGlobalMapStack name a store by its depth.                           *)
(***************************************************************************)
EXTENDS KeyTables

CONSTANTS Schemas,      \* the sequences of constraints a grammar may have
          Complex,      \* names of elements with children
          Attributed,   \* those of them with an attribute x
          Simple,       \* names of elements with text
          Root,         \* the name of the root element
          Values,       \* the values of attributes and texts
          MaxElements,  \* bound: elements of a document
          MaxDepth      \* bound: elements open at once

VARIABLES schema,       \* the constraints of the grammar
          doc,          \* the document read so far
          open,         \* the elements that are open
          handler       \* the IdentityConstraintHandler and all below it

vars == <<schema, doc, open, handler>>

ASSUME IdentityAssumption ==
  /\ Root \in Complex /\ Complex \cap Simple = {} /\ Attributed \subseteq Complex
  /\ Absent \notin Values
  /\ {MaxElements, MaxDepth} \subseteq Nat
  /\ \A s \in Schemas : \A i, j \in DOMAIN s : s[i].name = s[j].name => i = j

ConstraintsOf(name) == SelectSeq(schema, LAMBDA c : c.on = name)

Named(n) == CHOOSE c \in ToSet(schema) : c.name = n

ConstraintNames == {schema[i].name : i \in DOMAIN schema}

-----------------------------------------------------------------------------
(* XPathMatcher: one location path *)

M == "matched"
A == "matched on the attribute axis"
D == "matched on the descendant axis"
P == "matched by an ancestor on the descendant axis"
None == "no"

\* startDocumentFragment
FreshPath == [fCurrentStep |-> 0, fStepIndexes |-> <<>>, fNoMatchDepth |-> 0, fMatched |-> None]

\* the first step from k on that is not of an axis
Past(path, k, axis) ==
  CHOOSE j \in k..Len(path) :
    /\ \A i \in (k + 1)..j : path[i].axis = axis
    /\ j < Len(path) => path[j + 1].axis # axis

AtAxis(path, k, axis) == k < Len(path) /\ path[k + 1].axis = axis

\* startElement for one path
StartPath(path, p, e) ==
  LET n == Len(path)
      start == p.fCurrentStep
      saved == [p EXCEPT !.fStepIndexes = Append(@, start)]
      pushed == [saved EXCEPT !.fMatched = IF @ = D THEN P ELSE @]
      at(k) == [pushed EXCEPT !.fCurrentStep = k]
      lost(k) == [at(k) EXCEPT !.fNoMatchDepth = @ + 1]
      found(k, m) == [at(k) EXCEPT !.fMatched = m]
      self == Past(path, start, "self")
      next == Past(path, self, "descendant")
      child == (next = start \/ next > self) /\ AtAxis(path, next, "child")
      k == IF child THEN next + 1 ELSE next
  IN  IF p.fMatched \in {M, A} \/ p.fNoMatchDepth > 0 THEN [saved EXCEPT !.fNoMatchDepth = @ + 1]
      ELSE IF self = n THEN found(self, M)
      ELSE IF next = n THEN lost(next)
      ELSE IF child /\ ~Admits(path[k], e.name)
      THEN IF next > self THEN at(self) ELSE lost(next)
      ELSE IF k = n THEN IF next > self THEN found(self, D) ELSE found(k, M)
      ELSE IF ~AtAxis(path, k, "attribute") THEN at(k)
      ELSE IF e.x # Absent THEN IF k + 1 = n THEN found(k + 1, A) ELSE at(k + 1)
      ELSE IF pushed.fMatched # None THEN at(k)
      ELSE IF k > self THEN at(self) ELSE lost(k)

\* endElement for one path
EndPath(p) ==
  [p EXCEPT !.fCurrentStep = Last(p.fStepIndexes),
            !.fStepIndexes = Front(@),
            !.fNoMatchDepth = IF @ > 0 THEN @ - 1 ELSE 0,
            !.fMatched = IF p.fNoMatchDepth > 0 THEN @ ELSE None]

\* does the end of the element call matched() with its content?
MatchedAtEnd(p) == p.fNoMatchDepth = 0 /\ p.fMatched \notin {None, A}

-----------------------------------------------------------------------------
(* ValueStore *)

NewStore(c, e) ==    \* e is the element it is for
  [element |-> e, fValuesCount |-> 0, fValues |-> <<>>, fValueTuples |-> {}]

Reported(h, c, d, wrong) ==
  [h EXCEPT !.errors = IF wrong THEN @ \cup {<<h.stores[c.name][d].element, c.name>>} ELSE @]

\* mutant: fValuesCount is not reset
StartValueScopeCounting(h, c, d) ==
  [h EXCEPT !.stores[c.name][d].fValues = [i \in DOMAIN c.fields |-> Absent]]

StartValueScope(h, c, d) ==
  [h EXCEPT !.stores[c.name][d].fValuesCount = 0,
            !.stores[c.name][d].fValues = [i \in DOMAIN c.fields |-> Absent]]

EndValueScope(h, c, d) ==
  Reported(h, c, d, c.type = "key" /\ h.stores[c.name][d].fValuesCount # Len(c.fields))

\* FieldMatcher::matched and addValue
AddValue(h, c, i, d, value) ==
  LET s == h.stores[c.name][d]
      values == [s.fValues EXCEPT ![i] = value]
      count == s.fValuesCount + IF s.fValues[i] = Absent THEN 1 ELSE 0
      full == count = Len(c.fields)
      wrong == \/ <<c.name, i>> \notin h.mayMatch
               \/ full /\ values \in s.fValueTuples /\ c.type # "keyref"
      after == [s EXCEPT !.fValues = values, !.fValuesCount = count,
                         !.fValueTuples = IF full THEN @ \cup {values} ELSE @]
  IN  [Reported(h, c, d, wrong) EXCEPT !.stores[c.name][d] = after,
                                       !.mayMatch = @ \ {<<c.name, i>>}]

\* append: the tuples of the store at depth e are added to those at depth d
AppendStore(h, n, d, e) ==
  [h EXCEPT !.stores[n][d].fValueTuples = @ \cup h.stores[n][e].fValueTuples]

-----------------------------------------------------------------------------
(* SelectorMatcher and FieldMatcher *)

Paths(m) == IF m.field = 0 THEN m.ic.selector ELSE m.ic.fields[m.field]

NewMatcher(c, i, d) ==
  LET paths == IF i = 0 THEN c.selector ELSE c.fields[i]
  IN  [ic |-> c, field |-> i, depth |-> d, paths |-> [k \in DOMAIN paths |-> FreshPath],
       fElementDepth |-> 0, fMatchedDepth |-> [k \in DOMAIN paths |-> -1]]

StartPaths(m, e) ==
  [m EXCEPT !.paths = [k \in DOMAIN @ |-> StartPath(Paths(m)[k], @[k], e)]]

FieldStarts(h, j, e) ==
  LET m == h.matchers[j]
      after == StartPaths(m, e)
      hits == {k \in DOMAIN m.paths : after.paths[k].fMatched = A /\ m.paths[k].fMatched # A}
  IN  FoldSet(LAMBDA k, g : AddValue(g, m.ic, m.field, m.depth, e.x),
              [h EXCEPT !.matchers[j] = after], hits)

\* activateField
ActivateField(h, c, i, d, e) ==
  FieldStarts([h EXCEPT !.matchers = Append(@, NewMatcher(c, i, d)),
                        !.mayMatch = @ \cup {<<c.name, i>>}], Len(h.matchers) + 1, e)

\* does path k of the selector select the element that starts?
Selects(m, k) ==
  m.paths[k].fMatched = D \/ (m.fMatchedDepth[k] = -1 /\ m.paths[k].fMatched \in {M, A})

SelectorStarts(h, j, e) ==
  LET c == h.matchers[j].ic
      d == h.matchers[j].depth
      m == [StartPaths(h.matchers[j], e) EXCEPT !.fElementDepth = @ + 1]
      ks == {k \in DOMAIN m.paths : Selects(m, k)}
      g == [h EXCEPT !.matchers[j] = m]
  IN  IF ks = {} THEN g
      ELSE FoldLeft(LAMBDA s, i : ActivateField(s, c, i, d, e),
                    StartValueScope([g EXCEPT !.matchers[j].fMatchedDepth[Min(ks)] = m.fElementDepth], c, d),
                    [i \in DOMAIN c.fields |-> i])

MatcherStarts(h, j, e) ==
  IF h.matchers[j].field = 0 THEN SelectorStarts(h, j, e) ELSE FieldStarts(h, j, e)

MatcherEnds(h, j, text) ==
  LET m == h.matchers[j]
      hits == {k \in DOMAIN m.paths : MatchedAtEnd(m.paths[k])}
      ended == {k \in DOMAIN m.paths : m.fMatchedDepth[k] = m.fElementDepth}
      g == [h EXCEPT !.matchers[j].paths = [k \in DOMAIN @ |-> EndPath(@[k])]]
  IN  IF m.field # 0
      THEN FoldSet(LAMBDA k, s : AddValue(s, m.ic, m.field, m.depth, text), g, hits)
      ELSE LET closed == IF ended = {} THEN g
                         ELSE EndValueScope([g EXCEPT !.matchers[j].fMatchedDepth[Min(ended)] = -1], m.ic, m.depth)
           IN  [closed EXCEPT !.matchers[j].fElementDepth = @ - 1]

-----------------------------------------------------------------------------
(* ValueStoreCache *)

NoMap == [n \in ConstraintNames |-> 0]

\* initValueStoresFor: a store for the constraint at this depth is used again
InitValueStores(h, cs, d, e) ==
  [h EXCEPT !.stores = [n \in ConstraintNames |->
     IF \E i \in DOMAIN cs : cs[i].name = n THEN [@[n] EXCEPT ![d] = NewStore(n, e)] ELSE @[n]]]

Transplant(h, c, d) ==
  LET now == h.fGlobalICMap[c.name]
  IN  IF c.type = "keyref" THEN h
      ELSE IF now = 0 THEN [h EXCEPT !.fGlobalICMap[c.name] = d]
      ELSE AppendStore(h, c.name, now, d)

\* mutant: the keys of the siblings before are dropped
MergedAway(h, old, n) == IF h.fGlobalICMap[n] = 0 THEN [h EXCEPT !.fGlobalICMap[n] = old[n]] ELSE h

\* endElement for one constraint: the map of this element takes in the one below
Merged(h, old, n) ==
  IF h.fGlobalICMap[n] = 0 THEN [h EXCEPT !.fGlobalICMap[n] = old[n]]
  ELSE IF old[n] = 0 THEN h ELSE AppendStore(h, n, h.fGlobalICMap[n], old[n])

CacheEnds(h) ==
  LET old == Last(h.fGlobalMapStack)
  IN  FoldSet(LAMBDA n, g : Merged(g, old, n),
              [h EXCEPT !.fGlobalMapStack = Front(@)], ConstraintNames)

\* endDocumentFragment of the store of a keyref
KeyrefEnds(h, c, d) ==
  LET key == h.fGlobalICMap[c.refers]
  IN  Reported(h, c, d, \/ key = 0
                        \/ ~(h.stores[c.name][d].fValueTuples \subseteq h.stores[c.refers][key].fValueTuples))

-----------------------------------------------------------------------------
(* IdentityConstraintHandler *)

\* activateIdentityConstraint for element n that starts at depth d
Activated(h, n, e, d) ==
  LET cs == ConstraintsOf(e.name)
      began == InitValueStores([h EXCEPT !.fGlobalMapStack = Append(@, h.fGlobalICMap),
                                         !.fGlobalICMap = NoMap,
                                         !.fContextStack = Append(@, Len(h.matchers))], cs, d, n)
      all == [began EXCEPT !.matchers = @ \o [i \in DOMAIN cs |-> NewMatcher(cs[i], 0, d)]]
  IN  IF cs = <<>> /\ h.matchers = <<>> THEN h
      ELSE FoldLeft(LAMBDA g, j : MatcherStarts(g, j, e), all, [j \in DOMAIN all.matchers |-> j])

\* deactivateContext for an element that ends with a text
Deactivated(h, name, text) ==
  LET count == Len(h.matchers)
      ended == FoldRight(LAMBDA j, g : MatcherEnds(g, j, text), [j \in 1..count |-> j], h)
      kept == Last(h.fContextStack)
      gone == Reverse(SelectSeq(SubSeq(ended.matchers, kept + 1, count), LAMBDA m : m.field = 0))
      popped == [ended EXCEPT !.matchers = SubSeq(@, 1, kept), !.fContextStack = Front(@)]
      moved == FoldLeft(LAMBDA g, m : Transplant(g, m.ic, m.depth), popped, gone)
      keyrefs == SelectSeq(gone, LAMBDA m : m.ic.type = "keyref")
      checked == FoldLeft(LAMBDA g, m : KeyrefEnds(g, m.ic, m.depth), moved, keyrefs)
  IN  IF count = 0 /\ ConstraintsOf(name) = <<>> THEN h ELSE CacheEnds(checked)

Init ==
  /\ schema \in Schemas
  /\ doc = <<>> /\ open = <<>>
  /\ handler = [matchers |-> <<>>, fContextStack |-> <<>>,
                stores |-> [n \in ConstraintNames |-> [d \in 1..MaxDepth |-> NewStore(n, 0)]],
                fGlobalICMap |-> NoMap, fGlobalMapStack |-> <<>>,
                mayMatch |-> {}, errors |-> {}]

StartElement(name, x) ==
  /\ Len(doc) < MaxElements /\ Len(open) < MaxDepth
  /\ IF doc = <<>> THEN name = Root ELSE open # <<>> /\ name # Root
  /\ open # <<>> => doc[Last(open)].name \in Complex
  /\ LET e == [name |-> name, x |-> x, text |-> Absent,
               parent |-> IF open = <<>> THEN 0 ELSE Last(open)]
         n == Len(doc) + 1
     IN  /\ doc' = Append(doc, e)
         /\ open' = Append(open, n)
         /\ handler' = Activated(handler, n, e, Len(open) + 1)
  /\ UNCHANGED schema

EndElement(text) ==
  /\ open # <<>>
  /\ LET n == Last(open)
     IN  /\ (text = Absent) = (doc[n].name \in Complex)
         /\ doc' = [doc EXCEPT ![n].text = text]
         /\ handler' = Deactivated(handler, doc[n].name, text)
  /\ open' = Front(open)
  /\ UNCHANGED schema

Next ==
  \/ \E name \in Complex \cup Simple : StartElement(name, Absent)
  \/ \E name \in Attributed, x \in Values : StartElement(name, x)
  \/ \E text \in Values \cup {Absent} : EndElement(text)

IdentitySpec == Init /\ [][Next]_vars

-----------------------------------------------------------------------------
(* properties *)

Finished == doc # <<>> /\ open = <<>>

Depth(n) == Cardinality(Upward(doc, n))

\* the elements that have constraint c: its scopes
Owners(c) == {n \in DOMAIN doc : doc[n].name = c.on}

\* Selected elements of a constraint are not inside each other: the scopes of
\* two would share the fValues of one store and fMayMatch.
Apart(c) ==
  LET selected == UNION {TargetNodes(doc, c, n) : n \in Owners(c)}
  IN  \A s, t \in selected : Inside(doc, s, t) => s = t

Judged(c, n) ==
  <<n, c.name>> \in handler.errors <=> Violated(doc, c, Named(c.refers), n)

\* unique and key: at the end of the document exactly those elements have been
\* reported whose constraint is violated: duplicates, absent and ambiguous
\* fields (XPathMatcher, SelectorMatcher, ValueStore::addValue, endValueScope).
KeysAreJudged ==
  Finished => \A i \in DOMAIN schema :
    LET c == schema[i]
    IN  c.type # "keyref" /\ Apart(c) => \A n \in Owners(c) : Judged(c, n)

\* no two elements of a constraint at one depth: they would share a store
OncePerDepth(c) == \A m, n \in Owners(c) : Depth(m) = Depth(n) => m = n

\* keyref: a key is found exactly if the element or a descendant of it has it,
\* through all the merging of maps and stores on the way up
\* (ValueStoreCache::transplant, endElement).
KeyrefsAreJudged ==
  Finished => \A i \in DOMAIN schema :
    LET c == schema[i]
        key == Named(c.refers)
    IN  c.type = "keyref" /\ Apart(c) /\ Apart(key) /\ OncePerDepth(key) =>
          \A n \in Owners(c) : Scopes(doc, key, n) # {} => Judged(c, n)

\* ValueStoreCache.hpp: the global map contains descendants and self, also if a
\* constraint is met more than once at one depth.
KeyrefsMatchDescendants ==
  Finished => \A i \in DOMAIN schema :
    LET c == schema[i]
        key == Named(c.refers)
    IN  c.type = "keyref" /\ Apart(c) /\ Apart(key) =>
          \A n \in Owners(c) : Scopes(doc, key, n) # {} => Judged(c, n)
=============================================================================
