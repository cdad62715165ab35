---------------------------- MODULE XSModelsProofs ----------------------------
(***************************************************************************)
(* Proofs about XSModels for any parsers, grammars and namespaces: who     *)
(* deletes a model, that none is read after its deletion, that PSVI is     *)
(* reported from a complete one, and that no schema is passed over.        *)
(***************************************************************************)
EXTENDS XSModels, FiniteSetTheorems, TLAPS

(* Chains of models *)

\* Of any models, one does not have its parent among them.
Acyclic(ms) == \A S \in SUBSET Model : S # {} => \E x \in S : ms[x].fParent \notin S

Closed(ms, S) == \A x \in S : ms[x].fParent \in Model => ms[x].fParent \in S

LEMMA ChainStep ==
  ASSUME NEW ms, NEW m \in Model
  PROVE  Chain(ms, m) = {m} \cup Chain(ms, ms[m].fParent)
<1> DEFINE reach(n) == {k \in Model : \A S \in SUBSET Model : n \in S /\ Closed(ms, S) => k \in S}
           f == [n \in Model |-> reach(n)]
           Is(g) == g = [n \in Model |->
                           {n} \cup IF ms[n].fParent \in Model THEN g[ms[n].fParent] ELSE {}]
           chain == CHOOSE g : Is(g)
<1>1. ASSUME NEW n \in Model
      PROVE  reach(n) = {n} \cup IF ms[n].fParent \in Model THEN reach(ms[n].fParent) ELSE {}
  <2>1. n \in reach(n)
    OBVIOUS
  <2>2. ms[n].fParent \in Model => reach(ms[n].fParent) \subseteq reach(n)
    BY DEF Closed
  <2>3. CASE ms[n].fParent \in Model
    <3> DEFINE T == {n} \cup reach(ms[n].fParent)
    <3>1. ms[n].fParent \in reach(ms[n].fParent)
      BY <2>3
    <3>2. Closed(ms, reach(ms[n].fParent))
      BY DEF Closed
    <3>3. T \in SUBSET Model /\ n \in T /\ Closed(ms, T)
      BY <3>1, <3>2 DEF Closed
    <3> HIDE DEF T
    <3>4. reach(n) \subseteq T
      BY <3>3
    <3> QED
      BY <2>1, <2>2, <2>3, <3>4 DEF T
  <2>4. CASE ms[n].fParent \notin Model
    <3>1. Closed(ms, {n})
      BY <2>4 DEF Closed
    <3>2. reach(n) \subseteq {n}
      BY <3>1
    <3> QED
      BY <2>1, <2>4, <3>2
  <2> QED
    BY <2>3, <2>4
<1>2. Is(f)
  <2> HIDE DEF reach
  <2> QED
    BY <1>1
<1> HIDE DEF f, Is, reach
<1>3. Is(chain)
  BY <1>2
<1>4. \A n \in Model : Chain(ms, n) = chain[n]
  BY DEF Chain, chain, Is
<1>5. \A n : n \notin Model => Chain(ms, n) = {}
  BY DEF Chain
<1> HIDE DEF chain
<1> QED
  BY <1>3, <1>4, <1>5 DEF Is

LEMMA ChainOfNone ==
  ASSUME NEW ms, NEW m, m \notin Model
  PROVE  Chain(ms, m) = {}
BY DEF Chain

LEMMA ChainLeast ==
  ASSUME NEW ms, Acyclic(ms), NEW S \in SUBSET Model, Closed(ms, S), NEW m \in S
  PROVE  Chain(ms, m) \subseteq S
<1> DEFINE T == {x \in S : ~(Chain(ms, x) \subseteq S)}
<1>1. SUFFICES ASSUME T # {} PROVE FALSE
  OBVIOUS
<1>2. PICK x \in T : ms[x].fParent \notin T
  BY <1>1 DEF Acyclic
<1>3. Chain(ms, ms[x].fParent) \subseteq S
  BY <1>2, ChainOfNone DEF Closed
<1>4. Chain(ms, x) = {x} \cup Chain(ms, ms[x].fParent)
  BY ChainStep
<1> QED
  BY <1>2, <1>3, <1>4

\* A chain depends on the parents in it only.
LEMMA ChainSame ==
  ASSUME NEW ms, NEW nt, Acyclic(ms), NEW S \in SUBSET Model, Closed(ms, S),
         \A x \in S : nt[x].fParent = ms[x].fParent, NEW m \in S
  PROVE  Chain(nt, m) = Chain(ms, m)
<1> DEFINE T == {x \in S : Chain(nt, x) # Chain(ms, x)}
<1>1. SUFFICES ASSUME T # {} PROVE FALSE
  OBVIOUS
<1>2. PICK x \in T : ms[x].fParent \notin T
  BY <1>1 DEF Acyclic
<1>3. Chain(ms, ms[x].fParent) = Chain(nt, ms[x].fParent)
  BY <1>2, ChainOfNone DEF Closed
<1>4. /\ Chain(ms, x) = {x} \cup Chain(ms, ms[x].fParent)
      /\ Chain(nt, x) = {x} \cup Chain(nt, nt[x].fParent)
  BY ChainStep
<1> QED
  BY <1>2, <1>3, <1>4

LEMMA ChainClosed ==
  ASSUME NEW ms, Acyclic(ms), NEW m, NEW n \in Chain(ms, m), n \in Model, ms[n].fParent \in Model
  PROVE  ms[n].fParent \in Chain(ms, m)
<1> DEFINE T == {x \in Model : \E k \in Model : /\ k \in Chain(ms, x) /\ ms[k].fParent \in Model
                                             /\ ms[k].fParent \notin Chain(ms, x)}
<1>1. m \in Model
  BY ChainOfNone
<1>2. SUFFICES ASSUME T # {} PROVE FALSE
  BY <1>1
<1>3. PICK x \in T : ms[x].fParent \notin T
  BY <1>2 DEF Acyclic
<1>4. Chain(ms, x) = {x} \cup Chain(ms, ms[x].fParent)
  BY ChainStep
<1>5. ms[x].fParent \in Model => ms[x].fParent \in Chain(ms, ms[x].fParent)
  BY ChainStep
<1>6. ms[x].fParent \notin Model => Chain(ms, ms[x].fParent) = {}
  BY ChainOfNone
<1> QED
  BY <1>3, <1>4, <1>5, <1>6
-----------------------------------------------------------------------------
(* What there is *)

Pointers == Model \cup {Null, Freed}

ModelRecords ==
  [live : BOOLEAN, fParent : Pointers, fDeleteParent : BOOLEAN, grammars : SUBSET Grammar]

Pools ==
  [fGrammarRegistry : SUBSET Grammar, fLocked : BOOLEAN, fXSModel : Pointers,
   fXSModelIsValid : BOOLEAN]

Resolvers ==
  [fGrammarBucket : SUBSET Grammar, fGrammarsToAddToXSModel : SUBSET Grammar,
   fXSModel : Pointers, fGrammarPoolXSModel : Pointers, fModel : Pointers,
   fCacheGrammar : BOOLEAN, fUseCachedGrammar : BOOLEAN,
   fSchemaInfoList : SUBSET Namespaces, fCachedSchemaInfoList : SUBSET Namespaces,
   psvi : BOOLEAN, parsing : BOOLEAN, inSchema : BOOLEAN]

Heaps ==
  [models : [Model -> ModelRecords], pool : Pools, resolver : [Parser -> Resolvers],
   misread : BOOLEAN]

MadeBy(h, maker) == {n \in Model : n[1] = maker /\ h.models[n].live}

\* The grammars in the models of a parser.
Modelled(h, p) == UNION {h.models[n].grammars : n \in MadeBy(h, p)}

\* A parser's models are built on the pool's.
On(h, p) == h.pool.fXSModel \in Chain(h.models, h.resolver[p].fXSModel)

\* The pool has at most one model, and that is of its registry while it is valid.
PoolSound(h) ==
  /\ h.pool.fXSModel \in MadeBy(h, Pool) \cup {Null}
  /\ \A n \in MadeBy(h, Pool) :
       n = h.pool.fXSModel /\ h.models[n].fParent = Null /\ ~h.models[n].fDeleteParent
  /\ h.pool.fXSModelIsValid =>
       h.pool.fXSModel # Null /\ h.models[h.pool.fXSModel].grammars = h.pool.fGrammarRegistry

\* The models of a parser are all in the chain of its fXSModel, delete their parent,
\* and have together the grammars of the bucket that are not still to be added.
ParserSound(h, p) ==
  LET r == h.resolver[p]
  IN  /\ r.fXSModel \in MadeBy(h, p) \cup {Null}
      /\ r.fGrammarPoolXSModel \in {Null, Freed, h.pool.fXSModel}
      /\ MadeBy(h, p) \subseteq Chain(h.models, r.fXSModel)
      /\ \A n \in MadeBy(h, p) : /\ h.models[n].fDeleteParent
                                 /\ h.models[n].fParent \in MadeBy(h, p) \cup {Null, h.pool.fXSModel}
      /\ r.fGrammarBucket = Modelled(h, p) \cup r.fGrammarsToAddToXSModel

Sound(h) ==
  /\ h \in Heaps /\ ~h.misread
  /\ Acyclic(h.models)
  /\ \A n \in Model : h.models[n].live \/ h.models[n] = Gone
  /\ PoolSound(h)
  /\ \A p \in Parser : ParserSound(h, p)

LEMMA Pointer == Null \notin Model /\ Freed \notin Model /\ Null # Freed
BY DEF Null, Freed, Model

LEMMA Makers ==
  ASSUME NEW h, NEW p \in Parser, NEW q \in Parser, p # q
  PROVE  MadeBy(h, p) \cap MadeBy(h, q) = {} /\ MadeBy(h, p) \cap MadeBy(h, Pool) = {}
BY XSModelAssumption DEF MadeBy

LEMMA ChainIs ==
  ASSUME NEW h, Sound(h), NEW p \in Parser
  PROVE  /\ h.resolver[p].fXSModel = Null => MadeBy(h, p) = {} /\ ~On(h, p)
         /\ h.resolver[p].fXSModel # Null =>
              Chain(h.models, h.resolver[p].fXSModel)
                = MadeBy(h, p) \cup IF On(h, p) THEN {h.pool.fXSModel} ELSE {}
         /\ \A n \in MadeBy(h, p) : /\ h.models[n].fParent \in MadeBy(h, p) \cup {Null, h.pool.fXSModel}
                                    /\ h.models[n].fParent \in MadeBy(h, Pool) => On(h, p)
         /\ On(h, p) => h.pool.fXSModel \in MadeBy(h, Pool)
<1> DEFINE m == h.resolver[p].fXSModel
           S == MadeBy(h, p) \cup MadeBy(h, Pool)
<1>1. /\ m \in MadeBy(h, p) \cup {Null} /\ h.pool.fXSModel \in MadeBy(h, Pool) \cup {Null}
      /\ MadeBy(h, p) \subseteq Chain(h.models, m) /\ Acyclic(h.models)
      /\ \A n \in MadeBy(h, p) : h.models[n].fParent \in MadeBy(h, p) \cup {Null, h.pool.fXSModel}
      /\ \A n \in MadeBy(h, Pool) : n = h.pool.fXSModel /\ h.models[n].fParent = Null
  BY DEF Sound, PoolSound, ParserSound
<1>2. S \in SUBSET Model /\ MadeBy(h, p) \subseteq Model /\ MadeBy(h, Pool) \subseteq Model
  BY DEF MadeBy
<1>3. Closed(h.models, S)
  BY <1>1, <1>2, Pointer DEF Closed
<1>4. m = Null => Chain(h.models, m) = {}
  BY Pointer, ChainOfNone
<1>5. m # Null => Chain(h.models, m) \subseteq S
  <2> HIDE DEF m, S
  <2>1. m # Null => m \in S
    BY <1>1 DEF S
  <2> QED
    BY <1>1, <1>2, <1>3, <2>1, ChainLeast
<1>6. ASSUME NEW n \in MadeBy(h, p), h.models[n].fParent \in MadeBy(h, Pool) PROVE On(h, p)
  <2>1. h.models[n].fParent = h.pool.fXSModel /\ h.pool.fXSModel \in Model
    BY <1>1, <1>2, <1>6
  <2>2. n \in Chain(h.models, m) /\ n \in Model
    BY <1>1, <1>2
  <2> QED
    BY <1>1, <2>1, <2>2, ChainClosed DEF On
<1>7. On(h, p) <=> h.pool.fXSModel \in Chain(h.models, m)
  BY DEF On
<1> HIDE DEF m, S
<1>8. On(h, p) => h.pool.fXSModel \in MadeBy(h, Pool)
  BY <1>1, <1>2, <1>4, <1>5, <1>7, Pointer
<1>9. m # Null => Chain(h.models, m) = MadeBy(h, p) \cup IF On(h, p) THEN {h.pool.fXSModel} ELSE {}
  BY <1>1, <1>5, <1>7 DEF S
<1> QED
  BY <1>1, <1>4, <1>6, <1>7, <1>8, <1>9 DEF m

LEMMA AcyclicLess ==
  ASSUME NEW ms, NEW nt, Acyclic(ms),
         \A n \in Model : nt[n].fParent = ms[n].fParent \/ nt[n].fParent \notin Model
  PROVE  Acyclic(nt)
BY DEF Acyclic

LEMMA AcyclicMore ==
  ASSUME NEW ms, NEW nt, Acyclic(ms), NEW m \in Model,
         \A n \in Model : n # m => nt[n].fParent = ms[n].fParent,
         \A n \in Model : nt[n].fParent # m
  PROVE  Acyclic(nt)
<1> SUFFICES ASSUME NEW S \in SUBSET Model, S # {} PROVE \E x \in S : nt[x].fParent \notin S
  BY DEF Acyclic
<1> DEFINE T == S \ {m}
<1>1. CASE T = {}
  BY <1>1
<1>2. CASE T # {}
  <2>1. PICK x \in T : ms[x].fParent \notin T
    BY <1>2 DEF Acyclic
  <2> QED
    BY <2>1
<1> QED
  BY <1>1, <1>2

\* A parser is sound as long as its models are what they were, and the pool has
\* the same model or none of them is built on that.
LEMMA Untouched ==
  ASSUME NEW h, Sound(h), NEW e, Acyclic(e.models), PoolSound(e), NEW q \in Parser,
         MadeBy(e, q) = MadeBy(h, q),
         \A n \in MadeBy(h, q) : e.models[n] = h.models[n],
         e.pool.fXSModel = h.pool.fXSModel \/ ~On(h, q),
         e.resolver[q].fXSModel = h.resolver[q].fXSModel,
         e.resolver[q].fGrammarBucket = h.resolver[q].fGrammarBucket,
         e.resolver[q].fGrammarsToAddToXSModel = h.resolver[q].fGrammarsToAddToXSModel,
         e.resolver[q].fGrammarPoolXSModel \in {Null, Freed, e.pool.fXSModel}
  PROVE  ParserSound(e, q) /\ On(e, q) = On(h, q)
<1> DEFINE m == h.resolver[q].fXSModel
           S == MadeBy(h, q) \cup IF On(h, q) THEN {h.pool.fXSModel} ELSE {}
<1>1. /\ ParserSound(h, q) /\ PoolSound(h) /\ Acyclic(h.models)
      /\ m = Null => MadeBy(h, q) = {} /\ ~On(h, q)
      /\ m # Null => m \in MadeBy(h, q) /\ Chain(h.models, m) = S
      /\ On(h, q) => h.pool.fXSModel \in MadeBy(h, Pool)
  BY ChainIs DEF Sound, ParserSound
<1>2. MadeBy(h, q) \subseteq Model /\ MadeBy(h, Pool) \subseteq Model /\ MadeBy(e, Pool) \subseteq Model
  BY DEF MadeBy
<1>3. \A n \in MadeBy(h, q) : h.models[n].fParent \in Model => h.models[n].fParent \in S
  <2>1. ASSUME NEW n \in MadeBy(h, q), h.models[n].fParent \in Model PROVE h.models[n].fParent \in S
    <3>1. h.models[n].fParent \in MadeBy(h, q) \cup {Null, h.pool.fXSModel}
      BY <1>1 DEF ParserSound
    <3>2. h.pool.fXSModel \in MadeBy(h, Pool) \cup {Null}
      BY <1>1 DEF PoolSound
    <3> QED
      BY <2>1, <3>1, <3>2, ChainIs, Pointer
  <2> QED
    BY <2>1
<1>4. On(h, q) => /\ h.models[h.pool.fXSModel].fParent = Null
                  /\ e.models[h.pool.fXSModel].fParent = Null
  BY <1>1, <1>2, Pointer DEF PoolSound
<1>5. S \in SUBSET Model /\ Closed(h.models, S) /\ \A x \in S : e.models[x].fParent = h.models[x].fParent
  BY <1>1, <1>2, <1>3, <1>4, Pointer DEF Closed
<1>6. Chain(e.models, m) = Chain(h.models, m)
  <2>1. CASE m = Null
    BY <2>1, Pointer, ChainOfNone
  <2>2. CASE m # Null
    <3>1. m \in S
      BY <1>1, <2>2
    <3> HIDE DEF m, S
    <3> QED
      BY <1>1, <1>5, <3>1, ChainSame
  <2> QED
    BY <2>1, <2>2
<1>7. On(e, q) = On(h, q)
  <2>1. CASE e.pool.fXSModel = h.pool.fXSModel
    BY <1>6, <2>1 DEF On
  <2>2. CASE ~On(h, q)
    <3>1. Chain(h.models, m) = IF m = Null THEN {} ELSE MadeBy(h, q)
      BY <1>1, <2>2, ChainOfNone, Pointer
    <3>2. e.pool.fXSModel \in MadeBy(e, Pool) \cup {Null}
      BY DEF PoolSound
    <3>3. MadeBy(e, Pool) \cap MadeBy(e, q) = {}
      BY XSModelAssumption DEF MadeBy
    <3>4. e.pool.fXSModel \notin Chain(e.models, m)
      BY <1>2, <1>6, <3>1, <3>2, <3>3, Pointer
    <3> QED
      BY <2>2, <3>4 DEF On
  <2> QED
    BY <2>1, <2>2
<1>8. ASSUME NEW n \in MadeBy(h, q)
      PROVE  e.models[n].fDeleteParent /\ e.models[n].fParent \in MadeBy(h, q) \cup {Null, e.pool.fXSModel}
  <2>1. /\ h.models[n].fDeleteParent /\ e.models[n] = h.models[n]
        /\ h.models[n].fParent \in MadeBy(h, q) \cup {Null, h.pool.fXSModel}
    BY <1>1 DEF ParserSound
  <2>2. h.pool.fXSModel \in MadeBy(h, Pool) \cup {Null}
    BY <1>1 DEF PoolSound
  <2>3. h.models[n].fParent \in MadeBy(h, Pool) => On(h, q)
    BY ChainIs
  <2> QED
    BY <2>1, <2>2, <2>3
<1>9. Modelled(e, q) = Modelled(h, q)
  BY DEF Modelled
<1> HIDE DEF S
<1> QED
  BY <1>1, <1>6, <1>7, <1>8, <1>9 DEF ParserSound

Repointed(r, x, y) == [r EXCEPT !.fXSModel = x, !.fModel = y]

\* The destructor of a parser's model takes all models of that parser, and no other.
LEMMA DeleteOwn ==
  ASSUME NEW h, Sound(h), NEW p \in Parser,
         NEW d, d = Delete(h, h.resolver[p].fXSModel)
  PROVE  /\ d \in Heaps /\ ~d.misread /\ d.pool = h.pool
         /\ \A n \in Model : d.models[n] = IF n \in MadeBy(h, p) THEN Gone ELSE h.models[n]
         /\ \A q \in Parser : \E x, y \in Pointers :
              /\ d.resolver[q] = Repointed(h.resolver[q], x, y)
              /\ q # p => x = h.resolver[q].fXSModel
              /\ h.resolver[q].fModel \notin MadeBy(h, p) => y = h.resolver[q].fModel
<1> DEFINE m == h.resolver[p].fXSModel
           made == MadeBy(h, p)
<1>1. /\ h \in Heaps /\ ~h.misread /\ PoolSound(h) /\ \A q \in Parser : ParserSound(h, q)
      /\ \A n \in Model : h.models[n].live \/ h.models[n] = Gone
      /\ m \in made \cup {Null} /\ made \subseteq Model
  BY DEF Sound, ParserSound, MadeBy
<1>2. CASE m = Null
  <2>1. made = {}
    BY <1>2, ChainIs
  <2>2. d = [h EXCEPT !.misread = FALSE]
    BY <1>1, <1>2, Pointer DEF Delete, Misread, Heaps
  <2>3. /\ d \in Heaps /\ ~d.misread /\ d.pool = h.pool /\ d.models = h.models
        /\ d.resolver = h.resolver
    BY <1>1, <2>2 DEF Heaps
  <2>4. ASSUME NEW q \in Parser
        PROVE  LET r == h.resolver[q]
               IN  /\ d.resolver[q] = Repointed(r, r.fXSModel, r.fModel)
                   /\ r.fXSModel \in Pointers /\ r.fModel \in Pointers
    BY <1>1, <2>3 DEF Heaps, Resolvers, Repointed
  <2> QED
    BY <2>1, <2>3, <2>4
<1>3. CASE m # Null
  <2>1. m \in Model /\ Chain(h.models, m) = made \cup IF On(h, p) THEN {h.pool.fXSModel} ELSE {}
    BY <1>1, <1>3, ChainIs
  <2>2. /\ \A n \in made : h.models[n].fDeleteParent
        /\ On(h, p) => /\ h.pool.fXSModel \in MadeBy(h, Pool)
                       /\ ~h.models[h.pool.fXSModel].fDeleteParent
    BY <1>1, ChainIs DEF ParserSound, PoolSound
  <2>3. made \cap MadeBy(h, Pool) = {}
    BY XSModelAssumption DEF MadeBy
  <2>4. Deleted(h, m) = made
    BY <1>1, <1>3, <2>1, <2>2, <2>3 DEF Deleted
  <2>5. d = LeftBehind(h, made)
    BY <2>1, <2>4 DEF Delete
  <2>6. \A n \in made : h.models[n].fParent # Freed
    BY <1>1, Pointer DEF ParserSound, PoolSound, MadeBy
  <2>7. ASSUME NEW n \in Model, n \notin made PROVE h.models[n].fParent \notin made
    <3>1. CASE h.models[n] = Gone
      BY <1>1, <3>1, Pointer DEF Gone
    <3>2. ASSUME NEW q \in Parser, n \in MadeBy(h, q) PROVE h.models[n].fParent \notin made
      <4>1. q # p
        BY <2>7, <3>2
      <4>2. MadeBy(h, q) \cap made = {} /\ h.pool.fXSModel \notin made /\ Null \notin made
        BY <1>1, <2>3, <4>1, Makers, Pointer DEF PoolSound
      <4> QED
        BY <1>1, <3>2, <4>2 DEF ParserSound
    <3>3. CASE n \in MadeBy(h, Pool)
      BY <1>1, <3>3, Pointer DEF PoolSound
    <3> QED
      BY <1>1, <3>1, <3>2, <3>3 DEF MadeBy, Model
  <2>8. /\ d.models = ModelsLeft(h.models, made) /\ d.pool = PoolLeft(h.pool, made)
        /\ d.resolver = [q \in Parser |-> ResolverLeft(h.resolver[q], made)]
        /\ d.misread = (h.misread \/ \E n \in made : h.models[n].fParent = Freed)
        /\ d = [models |-> d.models, pool |-> d.pool, resolver |-> d.resolver, misread |-> d.misread]
    BY <2>5 DEF LeftBehind
  <2>9. ~d.misread
    BY <1>1, <2>6, <2>8
  <2>10. d.pool = h.pool
    <3>1. h.pool.fXSModel \notin made /\ h.pool \in Pools
      BY <1>1, <2>3, Pointer DEF PoolSound, Heaps
    <3> QED
      BY <2>8, <3>1 DEF PoolLeft, Left, Pools
  <2>11. ASSUME NEW n \in Model PROVE d.models[n] = IF n \in made THEN Gone ELSE h.models[n]
    <3>1. h.models[n] \in ModelRecords
      BY <1>1 DEF Heaps
    <3> QED
      BY <2>7, <2>8, <3>1 DEF ModelsLeft, Left, ModelRecords
  <2>12. ASSUME NEW q \in Parser
         PROVE  \E x, y \in Pointers :
              /\ d.resolver[q] = Repointed(h.resolver[q], x, y)
              /\ q # p => x = h.resolver[q].fXSModel
              /\ h.resolver[q].fModel \notin made => y = h.resolver[q].fModel
    <3> DEFINE r == h.resolver[q]
               x == Left(r.fXSModel, made)
               y == Left(r.fModel, made)
    <3>1. r \in Resolvers
      BY <1>1 DEF Heaps
    <3>2. x \in Pointers /\ y \in Pointers
      BY <3>1 DEF Resolvers, Pointers, Left
    <3>3. Left(r.fGrammarPoolXSModel, made) = r.fGrammarPoolXSModel
      BY <1>1, <2>3, Pointer DEF ParserSound, PoolSound, Left
    <3>4. q # p => x = r.fXSModel
      BY <1>1, Makers, Pointer DEF ParserSound, Left
    <3>5. r.fModel \notin made => y = r.fModel
      BY DEF Left
    <3>6. d.resolver[q] = ResolverLeft(r, made)
      BY <2>8
    <3> HIDE DEF x, y, r
    <3>7. d.resolver[q] = Repointed(r, x, y)
      BY <3>1, <3>3, <3>6 DEF ResolverLeft, Resolvers, Repointed, x, y
    <3> QED
      BY <3>2, <3>4, <3>5, <3>7 DEF r
  <2>13. d \in Heaps
    <3>1. Gone \in ModelRecords
      BY DEF Gone, ModelRecords, Pointers
    <3>2. d.models \in [Model -> ModelRecords]
      <4>1. d.models = [n \in Model |-> d.models[n]]
        BY <2>8 DEF ModelsLeft
      <4>2. ASSUME NEW n \in Model PROVE d.models[n] \in ModelRecords
        BY <1>1, <2>11, <3>1 DEF Heaps
      <4> QED
        BY <4>1, <4>2
    <3>3. d.resolver \in [Parser -> Resolvers]
      <4>1. d.resolver = [q \in Parser |-> d.resolver[q]]
        BY <2>8
      <4>2. ASSUME NEW q \in Parser PROVE d.resolver[q] \in Resolvers
        <5>1. h.resolver[q] \in Resolvers
          BY <1>1 DEF Heaps
        <5>2. PICK x, y \in Pointers : d.resolver[q] = Repointed(h.resolver[q], x, y)
          BY <2>12
        <5> QED
          BY <5>1, <5>2 DEF Resolvers, Repointed
      <4> QED
        BY <4>1, <4>2
    <3>4. d.pool \in Pools /\ d.misread \in BOOLEAN
      BY <1>1, <2>8, <2>10 DEF Heaps
    <3> QED
      BY <2>8, <3>2, <3>3, <3>4 DEF Heaps
  <2> QED
    BY <2>9, <2>10, <2>11, <2>12, <2>13
<1> QED
  BY <1>2, <1>3
-----------------------------------------------------------------------------
(* What a step of one parser does to the others *)

\* All of a resolver but the pointers to models that are not its own.
Alike(r, s) ==
  /\ s.fGrammarBucket = r.fGrammarBucket
  /\ s.fGrammarsToAddToXSModel = r.fGrammarsToAddToXSModel
  /\ s.fXSModel = r.fXSModel
  /\ s.fCacheGrammar = r.fCacheGrammar /\ s.fUseCachedGrammar = r.fUseCachedGrammar
  /\ s.fSchemaInfoList = r.fSchemaInfoList
  /\ s.fCachedSchemaInfoList = r.fCachedSchemaInfoList
  /\ s.psvi = r.psvi /\ s.parsing = r.parsing /\ s.inSchema = r.inSchema

\* The others keep their models.  While the pool is locked they keep what they know
\* of it, too.
Unmoved(h, g, q) ==
  /\ g.resolver[q].fGrammarPoolXSModel = h.resolver[q].fGrammarPoolXSModel
  /\ h.resolver[q].fModel \in MadeBy(h, q) \cup {Null, h.pool.fXSModel} =>
       g.resolver[q].fModel = h.resolver[q].fModel

Others(h, g, p) ==
  \A q \in Parser \ {p} :
    /\ MadeBy(g, q) = MadeBy(h, q) /\ On(g, q) = On(h, q)
    /\ Alike(h.resolver[q], g.resolver[q])
    /\ h.pool.fLocked => Unmoved(h, g, q)

Works(h, g, p) ==
  /\ Sound(g)
  /\ g.pool.fLocked = h.pool.fLocked /\ (h.pool.fLocked => g.pool = h.pool)
  /\ Others(h, g, p)

LEMMA WorksOn ==
  ASSUME NEW h, NEW e, NEW g, NEW p, Works(h, e, p), Works(e, g, p)
  PROVE  Works(h, g, p)
BY DEF Works, Others, Alike, Unmoved

\* Another resolver, and maybe another pool, and nothing else.
Changed(h, g, p, pl, r) ==
  /\ g \in Heaps /\ g.models = h.models /\ g.misread = h.misread /\ g.pool = pl
  /\ g.resolver[p] = r /\ \A q \in Parser \ {p} : g.resolver[q] = h.resolver[q]

LEMMA WithIs ==
  ASSUME NEW h \in Heaps, NEW p \in Parser, NEW r \in Resolvers, NEW pl \in Pools
  PROVE  /\ Changed(h, With(h, p, r), p, h.pool, r)
         /\ Changed(h, With([h EXCEPT !.pool = pl], p, r), p, pl, r)
BY DEF Changed, With, Heaps

\* Grammars go into the bucket or the registry, and what a parser knows changes.
LEMMA ParserChange ==
  ASSUME NEW h, Sound(h), NEW p \in Parser, NEW pl \in Pools, NEW r \in Resolvers,
         pl.fLocked = h.pool.fLocked, h.pool.fLocked => pl = h.pool,
         pl.fXSModel = h.pool.fXSModel,
         pl.fXSModelIsValid =>
           h.pool.fXSModelIsValid /\ pl.fGrammarRegistry = h.pool.fGrammarRegistry,
         r.fXSModel = h.resolver[p].fXSModel,
         r.fGrammarPoolXSModel \in {Null, Freed, h.pool.fXSModel},
         r.fGrammarBucket = Modelled(h, p) \cup r.fGrammarsToAddToXSModel,
         NEW g, Changed(h, g, p, pl, r)
  PROVE  Works(h, g, p) /\ MadeBy(g, p) = MadeBy(h, p) /\ On(g, p) = On(h, p)
<1>1. /\ h \in Heaps /\ g \in Heaps /\ g.models = h.models /\ g.pool = pl
      /\ g.misread = h.misread /\ g.resolver[p] = r
      /\ \A q \in Parser \ {p} : g.resolver[q] = h.resolver[q]
  BY DEF Sound, Changed
<1>2. \A q : MadeBy(g, q) = MadeBy(h, q)
  BY <1>1 DEF MadeBy
<1>3. PoolSound(g) /\ Acyclic(g.models)
  BY <1>1, <1>2 DEF Sound, PoolSound
<1>4. ASSUME NEW q \in Parser \ {p} PROVE ParserSound(g, q) /\ On(g, q) = On(h, q)
  <2>1. /\ q \in Parser /\ g.resolver[q] = h.resolver[q] /\ g.pool.fXSModel = h.pool.fXSModel
        /\ \A n \in MadeBy(h, q) : g.models[n] = h.models[n]
    BY <1>1
  <2>2. g.resolver[q].fGrammarPoolXSModel \in {Null, Freed, g.pool.fXSModel}
    BY <2>1 DEF Sound, ParserSound
  <2> QED
    BY ONLY Sound(h), <1>2, <1>3, <2>1, <2>2, Untouched
<1>5. ParserSound(g, p) /\ On(g, p) = On(h, p)
  <2>1. ParserSound(h, p) /\ Modelled(g, p) = Modelled(h, p)
    BY <1>1, <1>2 DEF Sound, Modelled
  <2>2. /\ r.fXSModel = h.resolver[p].fXSModel /\ pl.fXSModel = h.pool.fXSModel
        /\ r.fGrammarPoolXSModel \in {Null, Freed, h.pool.fXSModel}
        /\ r.fGrammarBucket = Modelled(h, p) \cup r.fGrammarsToAddToXSModel
    OBVIOUS
  <2> QED
    BY ONLY <1>1, <1>2, <2>1, <2>2 DEF ParserSound, On
<1> QED
  BY <1>1, <1>2, <1>3, <1>4, <1>5 DEF Works, Others, Alike, Unmoved, Sound

LEMMA UnmodelledWorks ==
  ASSUME NEW h, Sound(h), NEW p \in Parser, NEW gs \in SUBSET Grammar,
         NEW g, g = Unmodelled(h, p, gs)
  PROVE  /\ Works(h, g, p) /\ g.pool = h.pool /\ MadeBy(g, p) = {} /\ ~On(g, p)
         /\ \E y \in Pointers :
              /\ g.resolver[p] = Own(Repointed(h.resolver[p], Null, y), gs)
              /\ h.resolver[p].fModel \notin MadeBy(h, p) => y = h.resolver[p].fModel
         /\ \A q \in Parser \ {p} : Unmoved(h, g, q)
<1> DEFINE d == Delete(h, h.resolver[p].fXSModel)
<1>1. /\ d \in Heaps /\ ~d.misread /\ d.pool = h.pool
      /\ \A n \in Model : d.models[n] = IF n \in MadeBy(h, p) THEN Gone ELSE h.models[n]
  BY DeleteOwn
<1>a. \A q \in Parser : \E x, y \in Pointers :
        /\ d.resolver[q] = Repointed(h.resolver[q], x, y)
        /\ q # p => x = h.resolver[q].fXSModel
        /\ h.resolver[q].fModel \notin MadeBy(h, p) => y = h.resolver[q].fModel
  BY DeleteOwn
<1> PICK x, y \in Pointers : /\ d.resolver[p] = Repointed(h.resolver[p], x, y)
                             /\ h.resolver[p].fModel \notin MadeBy(h, p) => y = h.resolver[p].fModel
  BY <1>a
<1> DEFINE r == Own([d.resolver[p] EXCEPT !.fXSModel = Null], gs)
<1>g. g = With(d, p, r)
  BY DEF Unmodelled
<1> HIDE DEF d
<1>0. /\ h.resolver[p] \in Resolvers /\ d.resolver[p] \in Resolvers
      /\ r = Own(Repointed(h.resolver[p], Null, y), gs) /\ r \in Resolvers
      /\ r.fXSModel = Null /\ r.fGrammarPoolXSModel = h.resolver[p].fGrammarPoolXSModel
      /\ r.fGrammarBucket = gs /\ r.fGrammarsToAddToXSModel = gs
  <2>1. h.resolver[p] \in Resolvers /\ d.resolver[p] = Repointed(h.resolver[p], x, y)
        /\ y \in Pointers /\ x \in Pointers /\ Null \in Pointers
    BY DEF Sound, Heaps, Pointers
  <2>2. d.resolver[p] \in Resolvers
    BY <2>1 DEF Resolvers, Repointed
  <2>3. [d.resolver[p] EXCEPT !.fXSModel = Null] = Repointed(h.resolver[p], Null, y)
    BY <2>1 DEF Resolvers, Repointed
  <2>4. r = Own(Repointed(h.resolver[p], Null, y), gs)
    BY <2>3
  <2> HIDE DEF r
  <2> QED
    BY <2>1, <2>2, <2>4 DEF Resolvers, Repointed, Own
<1> HIDE DEF r
<1>2. ASSUME NEW q \in Parser \ {p}
      PROVE  /\ Alike(h.resolver[q], d.resolver[q])
             /\ d.resolver[q].fGrammarPoolXSModel = h.resolver[q].fGrammarPoolXSModel
             /\ h.resolver[q].fModel \notin MadeBy(h, p) => d.resolver[q].fModel = h.resolver[q].fModel
  <2>1. PICK u, v \in Pointers :
          /\ d.resolver[q] = Repointed(h.resolver[q], u, v)
          /\ q # p => u = h.resolver[q].fXSModel
          /\ h.resolver[q].fModel \notin MadeBy(h, p) => v = h.resolver[q].fModel
    BY <1>a
  <2>2. h.resolver[q] \in Resolvers
    BY DEF Sound, Heaps
  <2> QED
    BY <2>1, <2>2 DEF Alike, Repointed, Resolvers
<1>3. /\ g \in Heaps /\ g.models = d.models /\ g.pool = h.pool /\ ~g.misread
      /\ g.resolver[p] = r /\ \A q \in Parser \ {p} : g.resolver[q] = d.resolver[q]
  <2>1. d \in Heaps /\ r \in Resolvers /\ d.pool \in Pools
    BY <1>0, <1>1 DEF Heaps
  <2>2. Changed(d, g, p, d.pool, r)
    BY <1>g, <2>1, WithIs
  <2> QED
    BY <1>1, <2>2 DEF Changed
<1>4. /\ MadeBy(g, p) = {}
      /\ \A q \in (Parser \cup {Pool}) \ {p} :
           MadeBy(g, q) = MadeBy(h, q) /\ \A n \in MadeBy(h, q) : g.models[n] = h.models[n]
  BY <1>1, <1>3 DEF MadeBy, Gone
<1>5. PoolSound(g)
  <2>1. Pool \in (Parser \cup {Pool}) \ {p}
    BY XSModelAssumption
  <2>2. /\ MadeBy(g, Pool) = MadeBy(h, Pool)
        /\ \A n \in MadeBy(h, Pool) : g.models[n] = h.models[n]
    BY <1>4, <2>1
  <2>3. PoolSound(h)
    BY DEF Sound
  <2> QED
    <3>1. g.pool = h.pool
      BY <1>3
    <3> QED
      BY ONLY <3>1, <2>2, <2>3 DEF PoolSound
<1>6. Acyclic(g.models)
  BY <1>1, <1>3, Pointer, AcyclicLess DEF Sound, Gone
<1>7. ASSUME NEW q \in Parser \ {p} PROVE ParserSound(g, q) /\ On(g, q) = On(h, q)
  <2>1. /\ g.resolver[q].fXSModel = h.resolver[q].fXSModel
        /\ g.resolver[q].fGrammarBucket = h.resolver[q].fGrammarBucket
        /\ g.resolver[q].fGrammarsToAddToXSModel = h.resolver[q].fGrammarsToAddToXSModel
        /\ g.resolver[q].fGrammarPoolXSModel = h.resolver[q].fGrammarPoolXSModel
    BY <1>2, <1>3 DEF Alike
  <2>2. g.resolver[q].fGrammarPoolXSModel \in {Null, Freed, g.pool.fXSModel}
    BY <1>3, <2>1 DEF Sound, ParserSound
  <2>3. /\ q \in Parser /\ MadeBy(g, q) = MadeBy(h, q) /\ g.pool.fXSModel = h.pool.fXSModel
        /\ \A n \in MadeBy(h, q) : g.models[n] = h.models[n]
    BY <1>3, <1>4
  <2> QED
    BY ONLY Sound(h), <1>5, <1>6, <2>1, <2>2, <2>3, Untouched
<1>8. ParserSound(g, p)
  <2>1. r.fGrammarPoolXSModel \in {Null, Freed, g.pool.fXSModel}
    BY <1>0, <1>3 DEF ParserSound, Sound
  <2>2. Modelled(g, p) = {}
    BY <1>4 DEF Modelled
  <2>3. MadeBy(g, p) = {} /\ g.resolver[p] = r
    BY <1>3, <1>4
  <2>4. r.fXSModel = Null /\ r.fGrammarBucket = r.fGrammarsToAddToXSModel
    BY <1>0
  <2> QED
    BY ONLY <2>1, <2>2, <2>3, <2>4 DEF ParserSound
<1>9. \A n \in Model : g.models[n].live \/ g.models[n] = Gone
  BY <1>1, <1>3 DEF Sound
<1>11. ~On(g, p)
  BY <1>0, <1>3, <1>5, <1>6, Pointer, ChainOfNone DEF On
<1>10. ASSUME NEW q \in Parser \ {p}, h.resolver[q].fModel \in MadeBy(h, q) \cup {Null, h.pool.fXSModel}
       PROVE  h.resolver[q].fModel \notin MadeBy(h, p)
  BY <1>10, Makers, Pointer DEF Sound, PoolSound, MadeBy
<1>12. \A q \in Parser \ {p} : Unmoved(h, g, q)
  BY <1>2, <1>3, <1>10 DEF Unmoved
<1> QED
  BY <1>2, <1>3, <1>4, <1>5, <1>6, <1>7, <1>8, <1>9, <1>12, <1>0, <1>11 DEF Works, Others, Sound
-----------------------------------------------------------------------------
(* putGrammar and cacheGrammars *)

LEMMA AcceptedIs ==
  ASSUME NEW h, NEW gs
  PROVE  /\ Accepted(h, gs) \subseteq gs /\ Accepted(h, Accepted(h, gs)) = Accepted(h, gs)
         /\ h.pool.fLocked => Accepted(h, gs) = {}
         /\ Accepted(h, {}) = {}
BY DEF Accepted

LEMMA RegisteredIs ==
  ASSUME NEW pl \in Pools, NEW gs \in SUBSET Grammar, NEW new, new = Registered(pl, gs)
  PROVE  /\ new \in Pools /\ new.fLocked = pl.fLocked /\ new.fXSModel = pl.fXSModel
         /\ new.fGrammarRegistry = pl.fGrammarRegistry \cup gs
         /\ new.fXSModelIsValid = (pl.fXSModelIsValid /\ gs = {})
         /\ gs = {} => new = pl
BY DEF Registered, Pools

LEMMA PutWorks ==
  ASSUME NEW h, Sound(h), NEW p \in Parser, NEW gs \in SUBSET Grammar,
         NEW g, g = Put(h, p, gs)
  PROVE  /\ Works(h, g, p) /\ MadeBy(g, p) = MadeBy(h, p) /\ On(g, p) = On(h, p)
         /\ g.pool = Registered(h.pool, Taken(h, p, gs))
         /\ g.resolver[p] = More(h.resolver[p], gs \ Taken(h, p, gs))
<1> DEFINE taken == Taken(h, p, gs)
           pl == Registered(h.pool, taken)
           r == More(h.resolver[p], gs \ taken)
<1>1. /\ taken \in SUBSET Grammar /\ Accepted(h, taken) = taken
      /\ h.pool.fLocked => taken = {}
  BY AcceptedIs DEF Taken
<1>2. h \in Heaps /\ h.pool \in Pools /\ h.resolver[p] \in Resolvers /\ ParserSound(h, p)
  BY DEF Sound, Heaps
<1>3. g = With([h EXCEPT !.pool = pl], p, r)
  BY <1>1, <1>2 DEF Put, Cached, Heaps
<1>4. /\ r \in Resolvers /\ r.fXSModel = h.resolver[p].fXSModel
      /\ r.fGrammarPoolXSModel \in {Null, Freed, h.pool.fXSModel}
      /\ r.fGrammarBucket = Modelled(h, p) \cup r.fGrammarsToAddToXSModel
  <2> DEFINE own == gs \ taken
  <2>1. own \in SUBSET Grammar
    OBVIOUS
  <2> HIDE DEF own, taken
  <2>2. r = More(h.resolver[p], own)
    BY DEF own
  <2> QED
    BY <1>2, <2>1, <2>2 DEF Resolvers, ParserSound, More
<1> HIDE DEF r, taken
<1>5. /\ pl \in Pools /\ pl.fLocked = h.pool.fLocked /\ (h.pool.fLocked => pl = h.pool)
      /\ pl.fXSModel = h.pool.fXSModel
      /\ pl.fXSModelIsValid =>
           h.pool.fXSModelIsValid /\ pl.fGrammarRegistry = h.pool.fGrammarRegistry
  <2>1. taken \in SUBSET Grammar /\ h.pool \in Pools /\ pl = Registered(h.pool, taken)
    BY <1>1, <1>2
  <2> HIDE DEF pl
  <2>2. /\ pl \in Pools /\ pl.fLocked = h.pool.fLocked /\ pl.fXSModel = h.pool.fXSModel
        /\ pl.fGrammarRegistry = h.pool.fGrammarRegistry \cup taken
        /\ pl.fXSModelIsValid = (h.pool.fXSModelIsValid /\ taken = {})
        /\ taken = {} => pl = h.pool
    BY ONLY <2>1, RegisteredIs
  <2> QED
    BY <1>1, <2>2
<1> HIDE DEF pl
<1>6. Changed(h, g, p, pl, r)
  BY <1>2, <1>3, <1>4, <1>5, WithIs
<1>7. Works(h, g, p) /\ MadeBy(g, p) = MadeBy(h, p) /\ On(g, p) = On(h, p)
  BY <1>4, <1>5, <1>6, ParserChange
<1> QED
  BY <1>6, <1>7 DEF pl, r, taken, Changed

LEMMA HandOverWorks ==
  ASSUME NEW h, Sound(h), NEW p \in Parser, h.resolver[p].fXSModel = Null,
         NEW gs, gs = h.resolver[p].fGrammarBucket, NEW g, g = HandOver(h, p)
  PROVE  /\ Works(h, g, p) /\ On(g, p) = On(h, p) /\ MadeBy(g, p) = MadeBy(h, p)
         /\ g.pool = Registered(h.pool, Accepted(h, gs))
         /\ g.resolver[p] = Own(h.resolver[p], gs \ Accepted(h, gs))
<1> DEFINE acc == Accepted(h, gs)
           refused == gs \ acc
           pl == Registered(h.pool, acc)
           r == Own(h.resolver[p], refused)
<1>1. h \in Heaps /\ h.pool \in Pools /\ h.resolver[p] \in Resolvers /\ ParserSound(h, p)
  BY DEF Sound, Heaps
<1>2. /\ gs \in SUBSET Grammar /\ acc \in SUBSET Grammar /\ refused \in SUBSET Grammar
      /\ h.pool.fLocked => acc = {}
  BY <1>1, AcceptedIs DEF Resolvers
<1>3. g = With([h EXCEPT !.pool = pl], p, r)
  BY <1>1 DEF HandOver, Cached, Heaps
<1>4. Modelled(h, p) = {}
  BY ChainIs DEF Modelled
<1> HIDE DEF refused
<1>5. /\ r \in Resolvers /\ r.fXSModel = h.resolver[p].fXSModel
      /\ r.fGrammarPoolXSModel \in {Null, Freed, h.pool.fXSModel}
      /\ r.fGrammarBucket = Modelled(h, p) \cup r.fGrammarsToAddToXSModel
  BY <1>1, <1>2, <1>4 DEF Resolvers, ParserSound, Own
<1> HIDE DEF r, acc
<1>6. /\ pl \in Pools /\ pl.fLocked = h.pool.fLocked /\ (h.pool.fLocked => pl = h.pool)
      /\ pl.fXSModel = h.pool.fXSModel
      /\ pl.fXSModelIsValid =>
           h.pool.fXSModelIsValid /\ pl.fGrammarRegistry = h.pool.fGrammarRegistry
  <2>1. acc \in SUBSET Grammar /\ h.pool \in Pools /\ pl = Registered(h.pool, acc)
    BY <1>1, <1>2
  <2> HIDE DEF pl
  <2>2. /\ pl \in Pools /\ pl.fLocked = h.pool.fLocked /\ pl.fXSModel = h.pool.fXSModel
        /\ pl.fGrammarRegistry = h.pool.fGrammarRegistry \cup acc
        /\ pl.fXSModelIsValid = (h.pool.fXSModelIsValid /\ acc = {})
        /\ acc = {} => pl = h.pool
    BY ONLY <2>1, RegisteredIs
  <2> QED
    BY <1>2, <2>2
<1> HIDE DEF pl
<1>7. Changed(h, g, p, pl, r)
  BY <1>1, <1>3, <1>5, <1>6, WithIs
<1>8. Works(h, g, p) /\ MadeBy(g, p) = MadeBy(h, p) /\ On(g, p) = On(h, p)
  BY <1>5, <1>6, <1>7, ParserChange
<1> QED
  BY <1>7, <1>8 DEF pl, r, refused, acc, Changed
-----------------------------------------------------------------------------
(* A new model on top *)

HasRoom(h, p) == \E n \in 1..MaxModels : ~h.models[p, n].live

LEMMA FreshIs ==
  ASSUME NEW h, NEW maker \in Parser \cup {Pool}, HasRoom(h, maker)
  PROVE  Fresh(h, maker) \in Model /\ Fresh(h, maker)[1] = maker /\ ~h.models[Fresh(h, maker)].live
<1> DEFINE k == CHOOSE n \in 1..MaxModels : ~h.models[maker, n].live
<1>1. k \in 1..MaxModels /\ ~h.models[maker, k].live
  BY DEF HasRoom
<1>2. Fresh(h, maker) = <<maker, k>>
  BY DEF Fresh
<1> HIDE DEF k
<1>3. <<maker, k>> \in Model /\ <<maker, k>>[1] = maker
  BY <1>1 DEF Model
<1> QED
  BY <1>1, <1>2, <1>3

\* Every pointer to a model that counts is to one that there is.
LEMMA ParentsLive ==
  ASSUME NEW h, Sound(h), NEW m \in Model, ~h.models[m].live
  PROVE  /\ h.models[m] = Gone /\ h.pool.fXSModel # m
         /\ \A p \in Parser : h.resolver[p].fXSModel # m
         /\ \A n \in Model : h.models[n].fParent # m
<1>1. /\ \A n \in Model : h.models[n].live \/ h.models[n] = Gone
      /\ PoolSound(h) /\ \A p \in Parser : ParserSound(h, p)
  BY DEF Sound
<1>2. ASSUME NEW n \in Model PROVE h.models[n].fParent # m
  <2>1. CASE h.models[n] = Gone
    BY <2>1, Pointer DEF Gone
  <2>2. CASE n \in MadeBy(h, Pool)
    BY <1>1, <2>2, Pointer DEF PoolSound
  <2>3. ASSUME NEW q \in Parser, n \in MadeBy(h, q) PROVE h.models[n].fParent # m
    BY <1>1, <2>3, Pointer DEF PoolSound, ParserSound, MadeBy
  <2> QED
    BY <1>1, <2>1, <2>2, <2>3 DEF MadeBy, Model
<1> QED
  BY <1>1, <1>2, Pointer DEF PoolSound, ParserSound, MadeBy

LEMMA ExtendWorks ==
  ASSUME NEW h, Sound(h), NEW p \in Parser, HasRoom(h, p), NEW parent,
         h.resolver[p].fXSModel # Null => parent = h.resolver[p].fXSModel,
         h.resolver[p].fXSModel = Null => parent \in {Null, h.pool.fXSModel},
         NEW g, g = Extend(h, p, parent)
  PROVE  /\ Works(h, g, p) /\ g.pool = h.pool
         /\ On(g, p) = (On(h, p) \/ (h.resolver[p].fXSModel = Null /\ parent # Null))
         /\ \E m \in Model : g.resolver[p] = OnTop(h.resolver[p], m)
<1> DEFINE m == Fresh(h, p)
           r == h.resolver[p]
           model == ModelOn(parent, r.fGrammarsToAddToXSModel)
           e == Allocated(Misread(h, parent), m, model)
           s == OnTop(r, m)
<1>1. /\ h \in Heaps /\ ~h.misread /\ h.pool \in Pools /\ r \in Resolvers
      /\ PoolSound(h) /\ \A q \in Parser : ParserSound(h, q)
      /\ Acyclic(h.models) /\ \A n \in Model : h.models[n].live \/ h.models[n] = Gone
  BY DEF Sound, Heaps
<1>2. m \in Model /\ m[1] = p /\ ~h.models[m].live
  BY FreshIs
<1>3. g = With(e, p, s)
  BY DEF Extend
<1> HIDE DEF m
<1>4. /\ h.models[m] = Gone /\ h.pool.fXSModel # m /\ r.fXSModel # m
      /\ \A n \in Model : h.models[n].fParent # m
  BY <1>2, ParentsLive
<1>5. parent \in Pointers /\ parent # Freed /\ parent # m
  BY <1>1, <1>2, <1>4, Pointer DEF PoolSound, ParserSound, MadeBy, Pointers
<1>6. model \in ModelRecords /\ model.fParent = parent /\ model.fDeleteParent /\ model.live
      /\ model.grammars = r.fGrammarsToAddToXSModel
  BY <1>1, <1>5 DEF ModelOn, ModelRecords, Resolvers
<1> HIDE DEF model
<1>7. s \in Resolvers /\ s.fXSModel = m /\ s.fGrammarsToAddToXSModel = {}
      /\ s.fGrammarPoolXSModel = r.fGrammarPoolXSModel /\ s.fGrammarBucket = r.fGrammarBucket
  BY <1>1, <1>2 DEF OnTop, Resolvers, Pointers
<1> HIDE DEF s
<1>8. /\ e \in Heaps /\ e.models = [h.models EXCEPT ![m] = model]
      /\ e.pool = h.pool /\ e.resolver = h.resolver /\ ~e.misread
  BY <1>1, <1>2, <1>5, <1>6 DEF Allocated, Misread, Heaps
<1> HIDE DEF e
<1>9. /\ g \in Heaps /\ g.models = e.models /\ g.pool = h.pool /\ ~g.misread
      /\ g.resolver[p] = s /\ \A q \in Parser \ {p} : g.resolver[q] = h.resolver[q]
  <2>1. e \in Heaps /\ s \in Resolvers /\ e.pool \in Pools
    BY <1>1, <1>7, <1>8
  <2>2. Changed(e, g, p, e.pool, s)
    BY <1>3, <2>1, WithIs
  <2> QED
    BY <1>8, <2>2 DEF Changed
<1>10. /\ g.models[m] = model /\ \A n \in Model \ {m} : g.models[n] = h.models[n]
       /\ MadeBy(g, p) = MadeBy(h, p) \cup {m} /\ m \notin MadeBy(h, p)
       /\ \A q \in (Parser \cup {Pool}) \ {p} :
            MadeBy(g, q) = MadeBy(h, q) /\ \A n \in MadeBy(h, q) : g.models[n] = h.models[n]
  <2>1. h.models \in [Model -> ModelRecords]
    BY <1>1 DEF Heaps
  <2>2. g.models[m] = model /\ \A n \in Model \ {m} : g.models[n] = h.models[n]
    BY <1>2, <1>8, <1>9, <2>1
  <2> QED
    BY <1>2, <1>6, <2>2 DEF MadeBy
<1>11. Acyclic(g.models)
  <2>1. /\ \A n \in Model : n # m => g.models[n].fParent = h.models[n].fParent
        /\ \A n \in Model : g.models[n].fParent # m
    BY <1>2, <1>4, <1>5, <1>6, <1>10
  <2> QED
    BY ONLY <1>1, <1>2, <2>1, AcyclicMore
<1>12. PoolSound(g)
  <2>1. Pool \in (Parser \cup {Pool}) \ {p}
    BY XSModelAssumption
  <2>2. /\ MadeBy(g, Pool) = MadeBy(h, Pool) /\ \A n \in MadeBy(h, Pool) : g.models[n] = h.models[n]
    BY <1>10, <2>1
  <2> QED
    BY ONLY <1>1, <1>9, <2>2 DEF PoolSound
<1>13. ASSUME NEW q \in Parser \ {p} PROVE ParserSound(g, q) /\ On(g, q) = On(h, q)
  <2>1. /\ q \in Parser /\ g.resolver[q] = h.resolver[q] /\ MadeBy(g, q) = MadeBy(h, q)
        /\ g.pool.fXSModel = h.pool.fXSModel /\ \A n \in MadeBy(h, q) : g.models[n] = h.models[n]
    BY <1>9, <1>10
  <2>2. g.resolver[q].fGrammarPoolXSModel \in {Null, Freed, g.pool.fXSModel}
    BY <1>1, <2>1 DEF ParserSound
  <2> QED
    BY ONLY Sound(h), <1>11, <1>12, <2>1, <2>2, Untouched
<1>14. Chain(g.models, m) = {m} \cup Chain(h.models, parent)
  <2>1. Chain(g.models, m) = {m} \cup Chain(g.models, parent)
    BY <1>2, <1>6, <1>10, ChainStep
  <2>2. Chain(g.models, parent) = Chain(h.models, parent)
    <3>1. CASE parent = Null
      BY <3>1, Pointer, ChainOfNone
    <3>2. CASE parent # Null
      <4> DEFINE S == {n \in Model : n # m}
      <4>1. parent \in S
        BY <1>5, <3>2 DEF Pointers
      <4>2. S \in SUBSET Model /\ Closed(h.models, S)
        BY <1>4 DEF Closed
      <4>3. \A x \in S : g.models[x].fParent = h.models[x].fParent
        BY <1>10
      <4> HIDE DEF S
      <4> QED
        BY ONLY <1>1, <4>1, <4>2, <4>3, ChainSame
    <3> QED
      BY <3>1, <3>2
  <2> QED
    BY <2>1, <2>2
<1>15. MadeBy(h, p) \subseteq Chain(h.models, parent)
  <2>1. CASE r.fXSModel = Null
    BY <2>1, ChainIs
  <2>2. CASE r.fXSModel # Null
    BY <1>1, <2>2 DEF ParserSound
  <2> QED
    BY <2>1, <2>2
<1>16. ASSUME NEW n \in MadeBy(g, p)
       PROVE  /\ g.models[n].fDeleteParent
              /\ g.models[n].fParent \in MadeBy(g, p) \cup {Null, g.pool.fXSModel}
  <2>1. CASE n = m
    BY <1>1, <1>6, <1>9, <1>10, <2>1 DEF ParserSound
  <2>2. CASE n \in MadeBy(h, p)
    BY <1>1, <1>9, <1>10, <2>2 DEF ParserSound, MadeBy
  <2> QED
    BY <1>10, <2>1, <2>2
<1>17. Modelled(g, p) = Modelled(h, p) \cup r.fGrammarsToAddToXSModel
  BY <1>6, <1>10 DEF Modelled, MadeBy
<1>18. ParserSound(g, p)
  BY <1>1, <1>7, <1>9, <1>10, <1>14, <1>15, <1>16, <1>17 DEF ParserSound
<1>19. On(g, p) = (On(h, p) \/ (r.fXSModel = Null /\ parent # Null))
  <2>1. On(g, p) <=> h.pool.fXSModel \in Chain(h.models, parent)
    BY <1>4, <1>7, <1>9, <1>14 DEF On
  <2>2. CASE r.fXSModel # Null
    <3>1. parent = h.resolver[p].fXSModel
      BY <2>2
    <3>2. On(h, p) <=> h.pool.fXSModel \in Chain(h.models, parent)
      BY <3>1 DEF On
    <3> QED
      BY <2>1, <2>2, <3>2 DEF On
  <2>3. CASE r.fXSModel = Null /\ parent = Null
    <3>1. ~On(h, p) /\ Chain(h.models, parent) = {}
      BY <2>3, ChainIs, ChainOfNone, Pointer
    <3> QED
      BY <2>1, <2>3, <3>1 DEF On
  <2>4. CASE r.fXSModel = Null /\ parent # Null
    <3>1. parent = h.pool.fXSModel /\ parent \in Model
      BY <1>5, <2>4 DEF Pointers
    <3>2. parent \in Chain(h.models, parent)
      BY <3>1, ChainStep
    <3> QED
      BY <2>1, <2>4, <3>1, <3>2
  <2> QED
    BY <2>2, <2>3, <2>4 DEF On
<1>20. \A n \in Model : g.models[n].live \/ g.models[n] = Gone
  BY <1>1, <1>6, <1>10
<1>21. Sound(g)
  BY <1>9, <1>11, <1>12, <1>13, <1>18, <1>20 DEF Sound
<1>22. Others(h, g, p)
  BY <1>9, <1>10, <1>13 DEF Others, Alike, Unmoved
<1> QED
  BY <1>2, <1>9, <1>19, <1>21, <1>22 DEF Works, s
-----------------------------------------------------------------------------
(* The pool's model is deleted, and made anew *)

NoneOn(h) == \A q \in Parser : ~On(h, q)

Forgetful(r, x, y) == [r EXCEPT !.fGrammarPoolXSModel = x, !.fModel = y]

\* Under no parser's model, the pool's goes alone.
LEMMA DeletePools ==
  ASSUME NEW h, Sound(h), NoneOn(h), NEW d, d = Delete(h, h.pool.fXSModel)
  PROVE  /\ d \in Heaps /\ ~d.misread
         /\ \E x \in Pointers : d.pool = [h.pool EXCEPT !.fXSModel = x]
         /\ \A n \in Model : d.models[n] = IF n \in MadeBy(h, Pool) THEN Gone ELSE h.models[n]
         /\ \A q \in Parser : \E x \in {Null, Freed}, y \in Pointers :
              d.resolver[q] = Forgetful(h.resolver[q], x, y)
<1> DEFINE m == h.pool.fXSModel
           made == MadeBy(h, Pool)
<1>1. /\ h \in Heaps /\ ~h.misread /\ PoolSound(h) /\ \A q \in Parser : ParserSound(h, q)
      /\ h.pool \in Pools /\ \A q \in Parser : h.resolver[q] \in Resolvers
      /\ m \in made \cup {Null} /\ made \subseteq {m} /\ made \subseteq Model
  BY DEF Sound, PoolSound, MadeBy, Heaps
<1>2. CASE m = Null
  <2>1. made = {}
    BY <1>1, <1>2, Pointer
  <2>2. d = [h EXCEPT !.misread = FALSE]
    BY <1>1, <1>2, Pointer DEF Delete, Misread, Heaps
  <2>3. /\ d \in Heaps /\ ~d.misread /\ d.pool = h.pool /\ d.models = h.models
        /\ d.resolver = h.resolver
    BY <1>1, <2>2 DEF Heaps
  <2>4. ASSUME NEW q \in Parser
        PROVE  LET r == h.resolver[q]
               IN  /\ d.resolver[q] = Forgetful(r, r.fGrammarPoolXSModel, r.fModel)
                   /\ r.fGrammarPoolXSModel \in {Null, Freed} /\ r.fModel \in Pointers
    <3>1. h.resolver[q].fGrammarPoolXSModel \in {Null, Freed}
      BY <1>1, <1>2 DEF ParserSound
    <3> QED
      BY <1>1, <2>3, <3>1 DEF Heaps, Resolvers, Forgetful
  <2>5. d.pool = [h.pool EXCEPT !.fXSModel = Null] /\ Null \in Pointers
    BY <1>1, <1>2, <2>3 DEF Pools, Pointers
  <2> QED
    BY <2>1, <2>3, <2>4, <2>5
<1>3. CASE m # Null
  <2>1. m \in Model /\ made = {m} /\ h.models[m].fParent = Null
    BY <1>1, <1>3 DEF PoolSound
  <2>2. Chain(h.models, m) = {m}
    BY <2>1, ChainStep, ChainOfNone, Pointer
  <2>3. Deleted(h, m) = made
    BY <2>1, <2>2 DEF Deleted
  <2>4. d = LeftBehind(h, made)
    BY <2>1, <2>3 DEF Delete
  <2>5. /\ d.models = ModelsLeft(h.models, made) /\ d.pool = PoolLeft(h.pool, made)
        /\ d.resolver = [q \in Parser |-> ResolverLeft(h.resolver[q], made)]
        /\ d.misread = (h.misread \/ \E n \in made : h.models[n].fParent = Freed)
        /\ d = [models |-> d.models, pool |-> d.pool, resolver |-> d.resolver, misread |-> d.misread]
    BY <2>4 DEF LeftBehind
  <2>6. ~d.misread
    BY <1>1, <2>1, <2>5, Pointer
  <2>7. ASSUME NEW n \in Model, n \notin made PROVE h.models[n].fParent \notin made
    <3>1. CASE h.models[n] = Gone
      BY <1>1, <3>1, Pointer DEF Gone
    <3>2. ASSUME NEW q \in Parser, n \in MadeBy(h, q) PROVE h.models[n].fParent \notin made
      BY <3>2, ChainIs DEF NoneOn
    <3> QED
      BY <2>7, <3>1, <3>2 DEF MadeBy, Model, Sound
  <2>8. ASSUME NEW n \in Model PROVE d.models[n] = IF n \in made THEN Gone ELSE h.models[n]
    <3>1. h.models[n] \in ModelRecords
      BY <1>1 DEF Heaps
    <3> QED
      BY <2>5, <2>7, <3>1 DEF ModelsLeft, Left, ModelRecords
  <2>9. d.pool = [h.pool EXCEPT !.fXSModel = Freed] /\ Freed \in Pointers
    BY <1>1, <2>1, <2>5 DEF PoolLeft, Left, Pools, Pointers
  <2>10. ASSUME NEW q \in Parser
         PROVE  \E x \in {Null, Freed}, y \in Pointers : d.resolver[q] = Forgetful(h.resolver[q], x, y)
    <3> DEFINE r == h.resolver[q]
               x == Left(r.fGrammarPoolXSModel, made)
               y == Left(r.fModel, made)
    <3>1. r \in Resolvers /\ d.resolver[q] = ResolverLeft(r, made)
      BY <1>1, <2>5
    <3>2. x \in {Null, Freed} /\ y \in Pointers
      BY <1>1, <2>1, <3>1 DEF Resolvers, Pointers, Left, ParserSound
    <3>3. Left(r.fXSModel, made) = r.fXSModel
      BY <1>1, XSModelAssumption, Pointer DEF ParserSound, MadeBy, Left
    <3> HIDE DEF x, y, r
    <3>4. d.resolver[q] = Forgetful(r, x, y)
      BY <3>1, <3>3 DEF ResolverLeft, Resolvers, Forgetful, x, y
    <3> QED
      BY <3>2, <3>4 DEF r
  <2>11. d \in Heaps
    <3>1. Gone \in ModelRecords
      BY DEF Gone, ModelRecords, Pointers
    <3>2. d.models \in [Model -> ModelRecords]
      <4>1. d.models = [n \in Model |-> d.models[n]]
        BY <2>5 DEF ModelsLeft
      <4>2. ASSUME NEW n \in Model PROVE d.models[n] \in ModelRecords
        BY <1>1, <2>8, <3>1 DEF Heaps
      <4> QED
        BY <4>1, <4>2
    <3>3. d.resolver \in [Parser -> Resolvers]
      <4>1. d.resolver = [q \in Parser |-> d.resolver[q]]
        BY <2>5
      <4>2. ASSUME NEW q \in Parser PROVE d.resolver[q] \in Resolvers
        <5>1. PICK x \in {Null, Freed}, y \in Pointers : d.resolver[q] = Forgetful(h.resolver[q], x, y)
          BY <2>10
        <5> QED
          BY <1>1, <5>1 DEF Resolvers, Forgetful, Pointers
      <4> QED
        BY <4>1, <4>2
    <3>4. d.pool \in Pools /\ d.misread \in BOOLEAN
      BY <1>1, <2>5, <2>9 DEF Pools
    <3> QED
      BY <2>5, <3>2, <3>3, <3>4 DEF Heaps
  <2> QED
    BY <2>6, <2>8, <2>9, <2>10, <2>11
<1> QED
  BY <1>2, <1>3

\* The parsers keep their models, and none is built on the pool's.
Apart(h, g) ==
  NoneOn(g) /\ \A q \in Parser : /\ MadeBy(g, q) = MadeBy(h, q)
                                 /\ Alike(h.resolver[q], g.resolver[q])

LEMMA WithoutWorks ==
  ASSUME NEW h, Sound(h), NoneOn(h), NEW g, g = WithoutXSModel(h)
  PROVE  /\ Sound(g) /\ Apart(h, g) /\ g.pool = Outdated(h.pool) /\ MadeBy(g, Pool) = {}
         /\ \A q \in Parser : g.resolver[q].fGrammarPoolXSModel \in {Null, Freed}
<1> DEFINE d == Delete(h, h.pool.fXSModel)
<1>1. /\ d \in Heaps /\ ~d.misread
      /\ \E x \in Pointers : d.pool = [h.pool EXCEPT !.fXSModel = x]
      /\ \A n \in Model : d.models[n] = IF n \in MadeBy(h, Pool) THEN Gone ELSE h.models[n]
      /\ \A q \in Parser : \E x \in {Null, Freed}, y \in Pointers :
              d.resolver[q] = Forgetful(h.resolver[q], x, y)
  BY DeletePools
<1>2. h.pool \in Pools /\ \A q \in Parser : h.resolver[q] \in Resolvers
  BY DEF Sound, Heaps
<1>3. g = [d EXCEPT !.pool = Outdated(d.pool)]
  BY <1>1 DEF WithoutXSModel, Heaps
<1> HIDE DEF d
<1>4. Outdated(d.pool) = Outdated(h.pool) /\ Outdated(h.pool) \in Pools
  <2>1. PICK x \in Pointers : d.pool = [h.pool EXCEPT !.fXSModel = x]
    BY <1>1
  <2> QED
    BY <1>2, <2>1 DEF Outdated, Pools, Pointers
<1>5. /\ g \in Heaps /\ ~g.misread /\ g.models = d.models /\ g.resolver = d.resolver
      /\ g.pool = Outdated(h.pool)
  BY <1>1, <1>3, <1>4 DEF Heaps
<1>6. /\ MadeBy(g, Pool) = {}
      /\ \A q \in Parser : /\ MadeBy(g, q) = MadeBy(h, q)
                           /\ \A n \in MadeBy(h, q) : g.models[n] = h.models[n]
  BY <1>1, <1>5, XSModelAssumption DEF MadeBy, Gone
<1>7. PoolSound(g)
  <2>1. g.pool.fXSModel = Null /\ ~g.pool.fXSModelIsValid
    BY <1>2, <1>5 DEF Outdated, Pools
  <2> QED
    BY <1>6, <2>1 DEF PoolSound
<1>8. Acyclic(g.models)
  BY <1>1, <1>5, Pointer, AcyclicLess DEF Sound, Gone
<1>9. ASSUME NEW q \in Parser
      PROVE  /\ g.resolver[q].fGrammarPoolXSModel \in {Null, Freed}
             /\ Alike(h.resolver[q], g.resolver[q])
  <2>1. PICK x \in {Null, Freed}, y \in Pointers : d.resolver[q] = Forgetful(h.resolver[q], x, y)
    BY <1>1
  <2> QED
    BY <1>2, <1>5, <2>1 DEF Resolvers, Forgetful, Alike
<1>10. ASSUME NEW q \in Parser PROVE ParserSound(g, q) /\ ~On(g, q)
  <2>1. ~On(h, q) /\ MadeBy(g, q) = MadeBy(h, q) /\ \A n \in MadeBy(h, q) : g.models[n] = h.models[n]
    BY <1>6 DEF NoneOn
  <2>2. /\ g.resolver[q].fXSModel = h.resolver[q].fXSModel
        /\ g.resolver[q].fGrammarBucket = h.resolver[q].fGrammarBucket
        /\ g.resolver[q].fGrammarsToAddToXSModel = h.resolver[q].fGrammarsToAddToXSModel
        /\ g.resolver[q].fGrammarPoolXSModel \in {Null, Freed, g.pool.fXSModel}
    BY <1>9 DEF Alike
  <2> QED
    BY ONLY Sound(h), q \in Parser, <1>7, <1>8, <2>1, <2>2, Untouched
<1>11. \A n \in Model : g.models[n].live \/ g.models[n] = Gone
  BY <1>1, <1>5 DEF Sound
<1> QED
  BY <1>5, <1>6, <1>7, <1>8, <1>9, <1>10, <1>11 DEF Sound, Apart, NoneOn

LEMMA CreateWorks ==
  ASSUME NEW h, Sound(h), NoneOn(h), NEW g, g = CreateXSModel(h)
  PROVE  /\ Sound(g) /\ Apart(h, g)
         /\ \E m \in Model : g.pool = Current(h.pool, m)
         /\ \A q \in Parser : g.resolver[q].fGrammarPoolXSModel \in {Null, Freed}
<1> DEFINE d == Delete(h, h.pool.fXSModel)
           w == WithoutXSModel(h)
           m == Fresh(d, Pool)
           model == PoolModel(d)
<1>1. /\ Sound(w) /\ Apart(h, w) /\ w.pool = Outdated(h.pool) /\ MadeBy(w, Pool) = {}
      /\ \A q \in Parser : w.resolver[q].fGrammarPoolXSModel \in {Null, Freed}
  BY WithoutWorks
<1>2. d \in Heaps /\ ~d.misread /\ \E x \in Pointers : d.pool = [h.pool EXCEPT !.fXSModel = x]
  BY DeletePools
<1>3. /\ w.models = d.models /\ w.resolver = d.resolver
      /\ g = [Allocated(d, m, model) EXCEPT !.pool = Current(Allocated(d, m, model).pool, m)]
  BY <1>2 DEF WithoutXSModel, CreateXSModel, Heaps, Allocated
<1> HIDE DEF d, w
<1>4. m \in Model /\ m[1] = Pool /\ ~w.models[m].live
  <2>1. <<Pool, 1>> \in Model /\ <<Pool, 1>>[1] = Pool /\ 1 \in 1..MaxModels
    BY XSModelAssumption DEF Model
  <2>2. ~d.models[Pool, 1].live
    BY <1>1, <1>3, <2>1 DEF MadeBy
  <2>3. HasRoom(d, Pool)
    BY <2>1, <2>2 DEF HasRoom
  <2> QED
    BY <1>3, <2>3, FreshIs
<1> HIDE DEF m
<1>5. /\ w.models[m] = Gone /\ \A p \in Parser : w.resolver[p].fXSModel # m
      /\ \A n \in Model : w.models[n].fParent # m
  BY ONLY <1>1, <1>4, ParentsLive
<1>6. /\ h.pool \in Pools /\ d.pool.fGrammarRegistry = h.pool.fGrammarRegistry
      /\ Current(d.pool, m) = Current(h.pool, m) /\ Current(h.pool, m) \in Pools
  <2>1. PICK x \in Pointers : d.pool = [h.pool EXCEPT !.fXSModel = x]
    BY <1>2
  <2>2. h.pool \in Pools /\ m \in Pointers
    BY <1>4 DEF Sound, Heaps, Pointers
  <2> QED
    BY <2>1, <2>2 DEF Current, Pools
<1>7. /\ model \in ModelRecords /\ model.live /\ model.fParent = Null /\ ~model.fDeleteParent
      /\ model.grammars = h.pool.fGrammarRegistry
  BY <1>6 DEF PoolModel, ModelRecords, Pools, Pointers
<1> HIDE DEF model
<1>8. /\ g \in Heaps /\ ~g.misread /\ g.models = [w.models EXCEPT ![m] = model]
      /\ g.resolver = w.resolver /\ g.pool = Current(h.pool, m)
  <2> DEFINE e == Allocated(d, m, model)
  <2>1. /\ e \in Heaps /\ ~e.misread /\ e.models = [w.models EXCEPT ![m] = model]
        /\ e.resolver = w.resolver /\ e.pool = d.pool
    BY <1>2, <1>3, <1>4, <1>7 DEF Allocated, Heaps
  <2>2. g = [e EXCEPT !.pool = Current(e.pool, m)]
    BY <1>3
  <2> HIDE DEF e
  <2>3. g = [e EXCEPT !.pool = Current(h.pool, m)]
    BY <1>6, <2>1, <2>2
  <2> QED
    BY <1>6, <2>1, <2>3 DEF Heaps
<1>9. /\ g.pool.fXSModel = m /\ g.pool.fXSModelIsValid
      /\ g.pool.fGrammarRegistry = h.pool.fGrammarRegistry
  BY <1>6, <1>8 DEF Current, Pools
<1>10. g.models[m] = model /\ \A n \in Model \ {m} : g.models[n] = w.models[n]
  <2>1. w.models \in [Model -> ModelRecords]
    BY <1>1 DEF Sound, Heaps
  <2> QED
    BY <1>4, <1>8, <2>1
<1>11. /\ MadeBy(g, Pool) = {m}
       /\ \A q \in Parser : /\ MadeBy(g, q) = MadeBy(w, q)
                            /\ \A n \in MadeBy(w, q) : g.models[n] = w.models[n]
  BY <1>1, <1>4, <1>7, <1>10, XSModelAssumption DEF MadeBy
<1>12. PoolSound(g)
  BY <1>7, <1>9, <1>10, <1>11, Pointer, <1>4 DEF PoolSound
<1>13. Acyclic(g.models)
  <2>1. /\ \A n \in Model : n # m => g.models[n].fParent = w.models[n].fParent
        /\ \A n \in Model : g.models[n].fParent # m
    BY <1>4, <1>5, <1>7, <1>10, Pointer
  <2>2. Acyclic(w.models)
    BY <1>1 DEF Sound
  <2> QED
    BY ONLY <1>4, <2>1, <2>2, AcyclicMore
<1>14. ASSUME NEW q \in Parser PROVE ParserSound(g, q) /\ ~On(g, q)
  <2>1. /\ ~On(w, q) /\ MadeBy(g, q) = MadeBy(w, q) /\ g.resolver[q] = w.resolver[q]
        /\ \A n \in MadeBy(w, q) : g.models[n] = w.models[n]
    BY <1>1, <1>8, <1>11 DEF Apart, NoneOn
  <2>2. g.resolver[q].fGrammarPoolXSModel \in {Null, Freed, g.pool.fXSModel}
    BY <1>1, <2>1
  <2> QED
    BY ONLY <1>1, q \in Parser, <1>12, <1>13, <2>1, <2>2, Untouched
<1>15. \A n \in Model : g.models[n].live \/ g.models[n] = Gone
  BY <1>1, <1>7, <1>10 DEF Sound
<1> QED
  BY <1>1, <1>4, <1>8, <1>11, <1>12, <1>13, <1>14, <1>15 DEF Sound, Apart, NoneOn
-----------------------------------------------------------------------------
(* getXSModel *)

\* What the resolver keeps whatever becomes of its grammars, or of its models.
Settings(r, s) ==
  /\ s.fCacheGrammar = r.fCacheGrammar /\ s.fUseCachedGrammar = r.fUseCachedGrammar
  /\ s.fSchemaInfoList = r.fSchemaInfoList
  /\ s.fCachedSchemaInfoList = r.fCachedSchemaInfoList
  /\ s.psvi = r.psvi /\ s.parsing = r.parsing /\ s.inSchema = r.inSchema

Same(r, s) == s.fGrammarBucket = r.fGrammarBucket /\ Settings(r, s)

LEMMA OwnIs ==
  ASSUME NEW r \in Resolvers, NEW gs \in SUBSET Grammar, NEW s, s = Own(r, gs)
  PROVE  /\ s \in Resolvers /\ s.fGrammarBucket = gs /\ s.fGrammarsToAddToXSModel = gs
         /\ s.fXSModel = r.fXSModel /\ s.fModel = r.fModel
         /\ s.fGrammarPoolXSModel = r.fGrammarPoolXSModel /\ Settings(r, s)
BY DEF Own, Resolvers, Settings

LEMMA RepointedIs ==
  ASSUME NEW r \in Resolvers, NEW x \in Pointers, NEW y \in Pointers, NEW s, s = Repointed(r, x, y)
  PROVE  /\ s \in Resolvers /\ s.fXSModel = x /\ s.fModel = y
         /\ s.fGrammarPoolXSModel = r.fGrammarPoolXSModel /\ Same(r, s)
         /\ s.fGrammarsToAddToXSModel = r.fGrammarsToAddToXSModel
BY DEF Repointed, Resolvers, Same, Settings

\* The scanner's model is built of all grammars of the resolver and, if it is caching,
\* of those of the pool.
CurrentFor(h, p) ==
  LET r == h.resolver[p]
  IN  /\ r.fGrammarsToAddToXSModel = {}
      /\ IsCaching(r) => /\ h.pool.fXSModelIsValid /\ r.fGrammarPoolXSModel = h.pool.fXSModel
                         /\ r.fXSModel # Null => On(h, p)
      /\ ~IsCaching(r) => r.fXSModel # Null /\ ~On(h, p)
      /\ r.fModel = IF r.fXSModel # Null THEN r.fXSModel ELSE h.pool.fXSModel

\* What getXSModel relies on.
Answerable(h, p) ==
  LET r == h.resolver[p]
      current == h.pool.fLocked \/ h.pool.fXSModelIsValid
  IN  /\ HasRoom(h, p)
      /\ h.pool.fLocked => h.pool.fXSModelIsValid
      /\ IsCaching(r) /\ current =>
           r.fGrammarPoolXSModel = h.pool.fXSModel /\ (r.fXSModel # Null => On(h, p))
      /\ IsCaching(r) /\ ~current => r.fXSModel = Null /\ NoneOn(h)
      /\ ~IsCaching(r) => ~On(h, p)

LEMMA RoomAgain ==
  ASSUME NEW h, NEW p \in Parser, MadeBy(h, p) = {}
  PROVE  HasRoom(h, p)
<1>1. 1 \in 1..MaxModels /\ <<p, 1>> \in Model /\ <<p, 1>>[1] = p
  BY XSModelAssumption DEF Model
<1>2. ~h.models[p, 1].live
  BY <1>1 DEF MadeBy
<1> QED
  BY <1>1, <1>2 DEF HasRoom

LEMMA AnswerWorks ==
  ASSUME NEW h, Sound(h), NEW p \in Parser, NEW m \in Pointers, NEW g, g = Answer(h, p, m)
  PROVE  /\ Works(h, g, p) /\ g.pool = h.pool /\ On(g, p) = On(h, p)
         /\ g.resolver[p] = [h.resolver[p] EXCEPT !.fModel = m]
<1> DEFINE r == [h.resolver[p] EXCEPT !.fModel = m]
<1>1. h \in Heaps /\ h.pool \in Pools /\ h.resolver[p] \in Resolvers /\ ParserSound(h, p)
  BY DEF Sound, Heaps
<1>2. /\ r \in Resolvers /\ r.fXSModel = h.resolver[p].fXSModel
      /\ r.fGrammarPoolXSModel \in {Null, Freed, h.pool.fXSModel}
      /\ r.fGrammarBucket = Modelled(h, p) \cup r.fGrammarsToAddToXSModel
  BY <1>1 DEF Resolvers, ParserSound
<1>3. g = With(h, p, r)
  BY DEF Answer
<1> HIDE DEF r
<1>4. Changed(h, g, p, h.pool, r)
  BY <1>1, <1>2, <1>3, WithIs
<1>5. Works(h, g, p) /\ On(g, p) = On(h, p)
  BY <1>1, <1>2, <1>4, ParserChange
<1> QED
  BY <1>4, <1>5 DEF Changed, r

LEMMA OnTopIs ==
  ASSUME NEW r \in Resolvers, NEW m \in Model, NEW s, s = OnTop(r, m)
  PROVE  /\ s.fXSModel = m /\ s.fGrammarsToAddToXSModel = {} /\ s.fModel = m
         /\ s.fGrammarPoolXSModel = r.fGrammarPoolXSModel /\ Same(r, s)
BY DEF OnTop, Resolvers, Same, Settings

LEMMA OwnWorks ==
  ASSUME NEW h, Sound(h), NEW p \in Parser, Answerable(h, p), ~IsCaching(h.resolver[p]),
         NEW g, g = OfOwn(h, p)
  PROVE  Works(h, g, p) /\ g.pool = h.pool /\ CurrentFor(g, p) /\ Same(h.resolver[p], g.resolver[p])
<1> DEFINE r == h.resolver[p]
           s == g.resolver[p]
<1>1. r \in Resolvers /\ ~On(h, p) /\ HasRoom(h, p)
  BY DEF Sound, Heaps, Answerable
<1>2. CASE r.fGrammarsToAddToXSModel # {} \/ r.fXSModel = Null
  <2>1. g = Extend(h, p, r.fXSModel)
    BY <1>2 DEF OfOwn
  <2>2. /\ Works(h, g, p) /\ g.pool = h.pool /\ ~On(g, p)
        /\ \E m \in Model : s = OnTop(r, m)
    <3> DEFINE parent == h.resolver[p].fXSModel
    <3>1. /\ h.resolver[p].fXSModel # Null => parent = h.resolver[p].fXSModel
          /\ h.resolver[p].fXSModel = Null => parent \in {Null, h.pool.fXSModel}
          /\ ~(h.resolver[p].fXSModel = Null /\ parent # Null)
          /\ g = Extend(h, p, parent)
      BY <2>1
    <3> HIDE DEF parent
    <3>2. /\ Works(h, g, p) /\ g.pool = h.pool
          /\ On(g, p) = (On(h, p) \/ (h.resolver[p].fXSModel = Null /\ parent # Null))
          /\ \E m \in Model : g.resolver[p] = OnTop(h.resolver[p], m)
      BY ONLY Sound(h), p \in Parser, <1>1, <3>1, ExtendWorks
    <3> QED
      BY <1>1, <3>1, <3>2
  <2>3. PICK m \in Model : s = OnTop(r, m)
    BY <2>2
  <2> HIDE DEF r, s
  <2>4. /\ s.fXSModel = m /\ s.fGrammarsToAddToXSModel = {} /\ s.fModel = m /\ Same(r, s)
    BY <1>1, <2>3, OnTopIs
  <2> QED
    BY <2>2, <2>4, Pointer DEF CurrentFor, IsCaching, Same, Settings, r, s
<1>3. CASE ~(r.fGrammarsToAddToXSModel # {} \/ r.fXSModel = Null)
  <2>1. g = Answer(h, p, r.fXSModel) /\ r.fXSModel \in Pointers
    BY <1>1, <1>3 DEF OfOwn, Resolvers
  <2>2. Works(h, g, p) /\ g.pool = h.pool /\ ~On(g, p) /\ s = [r EXCEPT !.fModel = r.fXSModel]
    BY <1>1, <2>1, AnswerWorks
  <2>3. /\ s.fXSModel = r.fXSModel /\ s.fGrammarsToAddToXSModel = {} /\ s.fModel = r.fXSModel
        /\ Same(r, s)
    BY <1>1, <1>3, <2>2 DEF Resolvers, Same, Settings
  <2> QED
    BY <1>3, <2>2, <2>3 DEF CurrentFor, IsCaching, Same, Settings
<1> QED
  BY <1>2, <1>3

\* Without a grammar or a model of its own.
Bare(r) == r.fGrammarBucket = {} /\ r.fXSModel = Null

LEMMA ExtendedWorks ==
  ASSUME NEW h, Sound(h), NEW p \in Parser, Answerable(h, p), IsCaching(h.resolver[p]),
         h.pool.fXSModelIsValid, NEW g, g = Extended(h, p)
  PROVE  /\ Works(h, g, p) /\ g.pool = h.pool /\ CurrentFor(g, p) /\ Same(h.resolver[p], g.resolver[p])
         /\ Bare(h.resolver[p]) => g.resolver[p].fXSModel = Null
<1> DEFINE r == h.resolver[p]
           s == g.resolver[p]
<1>1. /\ r \in Resolvers /\ HasRoom(h, p) /\ r.fGrammarPoolXSModel = h.pool.fXSModel
      /\ r.fXSModel # Null => On(h, p)
      /\ h.pool.fXSModel # Null
  BY DEF Sound, Heaps, Answerable, PoolSound
<1>2. Base(r) # Null /\ Base(r) = IF r.fXSModel # Null THEN r.fXSModel ELSE h.pool.fXSModel
  BY <1>1 DEF Base
<1>3. CASE r.fGrammarsToAddToXSModel # {}
  <2>1. g = Extend(h, p, Base(r))
    BY <1>3 DEF Extended
  <2>2. /\ Works(h, g, p) /\ g.pool = h.pool
        /\ On(g, p) = (On(h, p) \/ (r.fXSModel = Null /\ Base(r) # Null))
        /\ \E m \in Model : s = OnTop(r, m)
    BY <1>1, <1>2, <2>1, ExtendWorks
  <2>3. PICK m \in Model : s = OnTop(r, m)
    BY <2>2
  <2> HIDE DEF r, s
  <2>4. /\ s.fXSModel = m /\ s.fGrammarsToAddToXSModel = {} /\ s.fModel = m /\ Same(r, s)
        /\ s.fGrammarPoolXSModel = r.fGrammarPoolXSModel
    BY <1>1, <2>3, OnTopIs
  <2>5. On(g, p)
    BY <1>1, <1>2, <2>2
  <2>6. ~Bare(r)
    BY <1>3 DEF Bare, Sound, ParserSound, r
  <2> QED
    BY <1>1, <2>2, <2>4, <2>5, <2>6, Pointer DEF CurrentFor, IsCaching, Same, Settings, r, s
<1>4. CASE r.fGrammarsToAddToXSModel = {}
  <2>1. g = Answer(h, p, Base(r)) /\ Base(r) \in Pointers
    BY <1>1, <1>2, <1>4 DEF Extended, Resolvers
  <2>2. /\ Works(h, g, p) /\ g.pool = h.pool /\ On(g, p) = On(h, p)
        /\ s = [r EXCEPT !.fModel = Base(r)]
    BY <1>1, <2>1, AnswerWorks
  <2>3. /\ s.fXSModel = r.fXSModel /\ s.fGrammarsToAddToXSModel = {} /\ s.fModel = Base(r)
        /\ Same(r, s) /\ s.fGrammarPoolXSModel = r.fGrammarPoolXSModel
    BY <1>1, <1>4, <2>2 DEF Resolvers, Same, Settings
  <2> HIDE DEF s
  <2> QED
    BY <1>1, <1>2, <1>4, <2>2, <2>3 DEF CurrentFor, IsCaching, Same, Settings, s, Bare
<1> QED
  BY <1>3, <1>4

LEMMA RegeneratedWorks ==
  ASSUME NEW h, Sound(h), NEW p \in Parser, IsCaching(h.resolver[p]),
         h.resolver[p].fXSModel = Null, h.pool.fXSModelIsValid,
         NEW g, g = Regenerated(h, p)
  PROVE  /\ Works(h, g, p) /\ g.pool = h.pool /\ CurrentFor(g, p) /\ Same(h.resolver[p], g.resolver[p])
         /\ Bare(h.resolver[p]) => g.resolver[p].fXSModel = Null
<1> DEFINE r == h.resolver[p]
           k == [r EXCEPT !.fGrammarPoolXSModel = h.pool.fXSModel]
           known == With(h, p, k)
           without == Unmodelled(known, p, r.fGrammarBucket)
           s == g.resolver[p]
<1>1. /\ h \in Heaps /\ h.pool \in Pools /\ r \in Resolvers /\ ParserSound(h, p)
      /\ h.pool.fXSModel # Null /\ h.pool.fXSModel \in Pointers /\ r.fGrammarBucket \in SUBSET Grammar
  BY DEF Sound, Heaps, PoolSound, Pools, Resolvers
<1>2. /\ k \in Resolvers /\ k.fXSModel = Null /\ k.fGrammarPoolXSModel = h.pool.fXSModel
      /\ k.fGrammarBucket = r.fGrammarBucket
      /\ k.fGrammarsToAddToXSModel = r.fGrammarsToAddToXSModel /\ Same(r, k)
      /\ k.fGrammarBucket = Modelled(h, p) \cup k.fGrammarsToAddToXSModel
  BY <1>1 DEF Resolvers, ParserSound, Same, Settings
<1> HIDE DEF k
<1>3. Changed(h, known, p, h.pool, k)
  BY <1>1, <1>2, WithIs
<1> HIDE DEF known
<1>4. Works(h, known, p)
  <2>1. /\ k.fXSModel = h.resolver[p].fXSModel
        /\ k.fGrammarPoolXSModel \in {Null, Freed, h.pool.fXSModel}
    BY <1>2
  <2> QED
    BY <1>1, <1>2, <1>3, <2>1, ParserChange
<1>5. Sound(known) /\ known.pool = h.pool /\ known.resolver[p] = k
  BY <1>3, <1>4 DEF Works, Changed
<1>6. CASE r.fGrammarPoolXSModel = Null /\ r.fGrammarsToAddToXSModel = {} /\ r.fXSModel = Null
  <2>1. g = Answer(known, p, h.pool.fXSModel)
    BY <1>6 DEF Regenerated, known, k
  <2>2. /\ Works(known, g, p) /\ g.pool = known.pool
        /\ s = [known.resolver[p] EXCEPT !.fModel = h.pool.fXSModel]
    BY ONLY p \in Parser, <1>1, <1>5, <2>1, AnswerWorks
  <2>3. /\ s.fXSModel = Null /\ s.fGrammarPoolXSModel = h.pool.fXSModel
        /\ s.fGrammarsToAddToXSModel = {} /\ s.fModel = h.pool.fXSModel /\ Same(k, s)
    BY <1>2, <1>5, <1>6, <2>2 DEF Resolvers, Same, Settings
  <2> HIDE DEF s, r
  <2>4. Works(h, g, p) /\ Same(r, s) /\ g.pool = h.pool
    BY <1>2, <1>4, <1>5, <2>2, <2>3, WorksOn DEF Same, Settings
  <2>5. IsCaching(s)
    BY <2>4 DEF IsCaching, Same, Settings, r
  <2> QED
    BY <2>3, <2>4, <2>5 DEF CurrentFor, s, r
<1>7. CASE ~(r.fGrammarPoolXSModel = Null /\ r.fGrammarsToAddToXSModel = {} /\ r.fXSModel = Null)
  <2>1. g = IF r.fGrammarBucket # {} THEN Extend(without, p, h.pool.fXSModel)
            ELSE Answer(without, p, h.pool.fXSModel)
    BY <1>7 DEF Regenerated, known, k
  <2>2. /\ Works(known, without, p) /\ without.pool = known.pool /\ MadeBy(without, p) = {}
        /\ \E y \in Pointers : without.resolver[p] = Own(Repointed(known.resolver[p], Null, y), r.fGrammarBucket)
    BY <1>1, <1>5, UnmodelledWorks
  <2> DEFINE t == without.resolver[p]
  <2>3. /\ t \in Resolvers /\ t.fXSModel = Null /\ t.fGrammarPoolXSModel = h.pool.fXSModel
        /\ t.fGrammarsToAddToXSModel = r.fGrammarBucket /\ Same(k, t)
    <3>1. PICK y \in Pointers : t = Own(Repointed(k, Null, y), r.fGrammarBucket)
      BY <1>5, <2>2
    <3> DEFINE v == Repointed(k, Null, y)
    <3>2. /\ v \in Resolvers /\ v.fXSModel = Null /\ v.fGrammarPoolXSModel = h.pool.fXSModel
          /\ Same(k, v)
      <4>1. k \in Resolvers /\ Null \in Pointers /\ y \in Pointers /\ v = Repointed(k, Null, y)
        BY <1>2 DEF Pointers
      <4> HIDE DEF v
      <4>2. /\ v \in Resolvers /\ v.fXSModel = Null /\ Same(k, v)
            /\ v.fGrammarPoolXSModel = k.fGrammarPoolXSModel
        BY ONLY <4>1, RepointedIs
      <4> QED
        BY <1>2, <4>2
    <3>3. t = Own(v, r.fGrammarBucket)
      BY <3>1
    <3> HIDE DEF v, t
    <3>4. /\ t \in Resolvers /\ t.fXSModel = Null /\ t.fGrammarPoolXSModel = h.pool.fXSModel
          /\ t.fGrammarsToAddToXSModel = r.fGrammarBucket /\ t.fGrammarBucket = r.fGrammarBucket
          /\ Settings(v, t)
      BY <1>1, <3>2, <3>3, OwnIs
    <3> QED
      BY <1>2, <3>2, <3>4 DEF Same, Settings
  <2>4. Sound(without) /\ without.pool = h.pool /\ HasRoom(without, p)
    BY <1>5, <2>2, RoomAgain DEF Works
  <2> HIDE DEF without
  <2>5. CASE r.fGrammarBucket # {}
    <3>1. g = Extend(without, p, h.pool.fXSModel)
      BY <2>1, <2>5
    <3>2. /\ Works(without, g, p) /\ g.pool = without.pool
          /\ On(g, p) = (On(without, p) \/ (without.resolver[p].fXSModel = Null /\ h.pool.fXSModel # Null))
          /\ \E m \in Model : g.resolver[p] = OnTop(without.resolver[p], m)
      <4>1. /\ without.resolver[p].fXSModel # Null => h.pool.fXSModel = without.resolver[p].fXSModel
            /\ without.resolver[p].fXSModel = Null => h.pool.fXSModel \in {Null, without.pool.fXSModel}
        BY <2>3, <2>4
      <4> QED
        BY ONLY p \in Parser, <2>4, <3>1, <4>1, ExtendWorks
    <3>3. PICK m \in Model : s = OnTop(t, m)
      BY <3>2
    <3> HIDE DEF s, r, t
    <3>4. /\ s.fXSModel = m /\ s.fGrammarsToAddToXSModel = {} /\ s.fModel = m /\ Same(t, s)
          /\ s.fGrammarPoolXSModel = h.pool.fXSModel
      BY <2>3, <3>3, OnTopIs
    <3>5. Works(h, g, p) /\ Same(r, s) /\ g.pool = h.pool
      BY <1>2, <1>4, <1>5, <2>2, <2>3, <2>4, <3>2, <3>4, WorksOn DEF Same, Settings
    <3>6. On(g, p)
      BY <1>1, <2>3, <3>2 DEF t
    <3>7. IsCaching(s)
      BY <3>5 DEF IsCaching, Same, Settings, r
    <3> QED
      BY <2>5, <3>4, <3>5, <3>6, <3>7, Pointer DEF CurrentFor, s, r, Bare
  <2>6. CASE r.fGrammarBucket = {}
    <3>1. g = Answer(without, p, h.pool.fXSModel)
      BY <2>1, <2>6
    <3>2. /\ Works(without, g, p) /\ g.pool = without.pool
          /\ g.resolver[p] = [without.resolver[p] EXCEPT !.fModel = h.pool.fXSModel]
      BY ONLY p \in Parser, <1>1, <2>4, <3>1, AnswerWorks
    <3>3. /\ s.fXSModel = Null /\ s.fGrammarPoolXSModel = h.pool.fXSModel
          /\ s.fGrammarsToAddToXSModel = {} /\ s.fModel = h.pool.fXSModel /\ Same(t, s)
      BY <2>3, <2>6, <3>2 DEF Resolvers, Same, Settings
    <3> HIDE DEF s, r, t
    <3>4. Works(h, g, p) /\ Same(r, s) /\ g.pool = h.pool
      BY <1>2, <1>4, <1>5, <2>2, <2>3, <2>4, <3>2, <3>3, WorksOn DEF Same, Settings
    <3>5. IsCaching(s)
      BY <3>4 DEF IsCaching, Same, Settings, r
    <3> QED
      BY <3>3, <3>4, <3>5 DEF CurrentFor, s, r
  <2> QED
    BY <2>5, <2>6
<1> QED
  BY <1>6, <1>7

LEMMA GetWorks ==
  ASSUME NEW h, Sound(h), NEW p \in Parser, Answerable(h, p), NEW g, g = GetXSModel(h, p)
  PROVE  /\ Works(h, g, p) /\ CurrentFor(g, p) /\ Same(h.resolver[p], g.resolver[p])
         /\ g.pool.fGrammarRegistry = h.pool.fGrammarRegistry
         /\ IsCaching(h.resolver[p]) /\ Bare(h.resolver[p]) => g.resolver[p].fXSModel = Null
<1> DEFINE r == h.resolver[p]
<1>1. CASE ~IsCaching(r)
  <2>1. g = OfOwn(h, p)
    BY <1>1 DEF GetXSModel
  <2> QED
    BY <1>1, <2>1, OwnWorks
<1>2. CASE IsCaching(r) /\ (h.pool.fLocked \/ h.pool.fXSModelIsValid)
  <2>1. g = Extended(h, p) /\ h.pool.fXSModelIsValid
    BY <1>2 DEF GetXSModel, Answerable
  <2> QED
    BY <1>2, <2>1, ExtendedWorks
<1>3. CASE IsCaching(r) /\ ~(h.pool.fLocked \/ h.pool.fXSModelIsValid)
  <2> DEFINE c == CreateXSModel(h)
  <2>1. g = Regenerated(c, p)
    BY <1>3 DEF GetXSModel
  <2>2. r.fXSModel = Null /\ NoneOn(h) /\ ~h.pool.fLocked /\ h.pool \in Pools
    BY <1>3 DEF Answerable, Sound, Heaps
  <2>3. /\ Sound(c) /\ Apart(h, c) /\ \E m \in Model : c.pool = Current(h.pool, m)
    BY <2>2, CreateWorks
  <2> HIDE DEF c
  <2>4. /\ c.pool.fLocked = h.pool.fLocked /\ c.pool.fXSModelIsValid
        /\ c.pool.fGrammarRegistry = h.pool.fGrammarRegistry
    BY <2>2, <2>3 DEF Current, Pools
  <2>5. Works(h, c, p)
    <3>1. \A q \in Parser : On(c, q) = On(h, q)
      BY <2>2, <2>3 DEF Apart, NoneOn, On
    <3> QED
      BY <2>2, <2>3, <2>4, <3>1 DEF Works, Others, Apart
  <2>6. IsCaching(c.resolver[p]) /\ c.resolver[p].fXSModel = Null /\ Same(r, c.resolver[p])
    BY <1>3, <2>2, <2>3 DEF Apart, Alike, IsCaching, Same, Settings
  <2>7. /\ Works(c, g, p) /\ g.pool = c.pool /\ CurrentFor(g, p)
        /\ Same(c.resolver[p], g.resolver[p])
        /\ Bare(c.resolver[p]) => g.resolver[p].fXSModel = Null
    BY ONLY p \in Parser, <2>1, <2>3, <2>4, <2>6, RegeneratedWorks
  <2> QED
    BY <2>4, <2>5, <2>6, <2>7, WorksOn DEF Same, Settings, Bare
<1> QED
  BY <1>1, <1>2, <1>3
-----------------------------------------------------------------------------
(* The invariant *)

\* The resolver of a parse can be asked for a model at any time: it knows the pool's
\* model, or the pool will make one on which nothing is built yet.
Ready(h, p) ==
  LET r == h.resolver[p]
      current == h.pool.fLocked \/ h.pool.fXSModelIsValid
  IN  /\ r.fCacheGrammar => r.fUseCachedGrammar /\ ~h.pool.fLocked /\ Bare(r)
      /\ r.fUseCachedGrammar /\ current =>
           r.fGrammarPoolXSModel = h.pool.fXSModel /\ (r.fXSModel # Null => On(h, p))
      /\ r.fUseCachedGrammar /\ ~current => r.fXSModel = Null
      /\ r.fUseCachedGrammar /\ ~h.pool.fLocked => \A q \in Parser \ {p} : ~On(h, q)
      /\ ~r.fUseCachedGrammar => ~On(h, p)

Resting(r) ==
  ~r.parsing => ~r.inSchema /\ ~r.psvi /\ ~r.fCacheGrammar /\ ~r.fUseCachedGrammar

Parsing(h, p) ==
  LET r == h.resolver[p]
  IN  r.parsing =>
        /\ Ready(h, p)
        /\ r.psvi /\ r.fModel # Null => CurrentFor(h, p)
        /\ r.psvi /\ r.inSchema => r.fModel # Null
        /\ ~r.fCacheGrammar => r.fSchemaInfoList \subseteq NamespacesOf(r.fGrammarBucket)

\* A schema that is listed as cached is in the pool.
ListTrue(h, p) ==
  h.resolver[p].fCachedSchemaInfoList \subseteq NamespacesOf(h.pool.fGrammarRegistry)

OneAtATime(h) ==
  h.pool.fLocked \/ \A p, q \in Parser : h.resolver[p].parsing /\ h.resolver[q].parsing => p = q

PoolReady(h) == h.pool.fLocked => h.pool.fXSModelIsValid

HeapInvariant(h) ==
  /\ Sound(h) /\ PoolReady(h) /\ OneAtATime(h)
  /\ \A p \in Parser : Resting(h.resolver[p]) /\ Parsing(h, p) /\ ListTrue(h, p)

ModelsInvariant == HeapInvariant(Heap) /\ ~unread
-----------------------------------------------------------------------------
(* What the invariant says: the properties *)

LEMMA ReadyAnswers ==
  ASSUME NEW h, Sound(h), PoolReady(h), NEW p \in Parser, Ready(h, p), HasRoom(h, p)
  PROVE  Answerable(h, p) /\ (IsCaching(h.resolver[p]) <=> h.resolver[p].fUseCachedGrammar)
<1>1. h.resolver[p].fXSModel = Null => ~On(h, p)
  BY ChainIs
<1>2. IsCaching(h.resolver[p]) <=> h.resolver[p].fUseCachedGrammar
  BY DEF Ready, IsCaching
<1> QED
  BY <1>1, <1>2 DEF Ready, Answerable, PoolReady, NoneOn

LEMMA CurrentModel ==
  ASSUME NEW h, Sound(h), NEW p \in Parser, CurrentFor(h, p)
  PROVE  LET r == h.resolver[p]
             chain == Chain(h.models, r.fModel)
         IN  /\ r.fModel \in Model
             /\ UNION {h.models[m].grammars : m \in chain}
                  = r.fGrammarBucket \cup IF IsCaching(r) THEN h.pool.fGrammarRegistry ELSE {}
<1> DEFINE r == h.resolver[p]
           chain == Chain(h.models, r.fModel)
           x == h.pool.fXSModel
<1>1. /\ PoolSound(h) /\ ParserSound(h, p) /\ r.fGrammarsToAddToXSModel = {}
      /\ r.fGrammarBucket = Modelled(h, p)
  BY DEF Sound, CurrentFor, ParserSound
<1>2. MadeBy(h, p) \subseteq Model /\ MadeBy(h, Pool) \subseteq Model
  BY DEF MadeBy
<1>3. IsCaching(r) => /\ x \in MadeBy(h, Pool) /\ h.models[x].fParent = Null
                      /\ h.models[x].grammars = h.pool.fGrammarRegistry
  BY <1>1 DEF CurrentFor, PoolSound
<1>4. CASE r.fXSModel # Null
  <2>1. /\ r.fModel = r.fXSModel /\ r.fModel \in Model
        /\ chain = MadeBy(h, p) \cup IF On(h, p) THEN {x} ELSE {}
    BY <1>1, <1>2, <1>4, ChainIs DEF CurrentFor, ParserSound
  <2>2. On(h, p) <=> IsCaching(r)
    BY <1>4 DEF CurrentFor
  <2>3. CASE IsCaching(r)
    <3>1. chain = MadeBy(h, p) \cup {x}
      BY <2>1, <2>2, <2>3
    <3>2. UNION {h.models[m].grammars : m \in chain} = Modelled(h, p) \cup h.models[x].grammars
      BY <3>1 DEF Modelled
    <3> QED
      BY <1>1, <1>3, <2>1, <2>3, <3>2
  <2>4. CASE ~IsCaching(r)
    <3>1. chain = MadeBy(h, p)
      BY <2>1, <2>2, <2>4
    <3> QED
      BY <1>1, <2>1, <2>4, <3>1 DEF Modelled
  <2> QED
    BY <2>3, <2>4
<1>5. CASE r.fXSModel = Null
  <2>1. IsCaching(r) /\ r.fModel = x /\ x \in Model
    BY <1>2, <1>3, <1>5 DEF CurrentFor
  <2>2. chain = {x}
    BY <1>3, <2>1, ChainStep, ChainOfNone, Pointer
  <2>3. MadeBy(h, p) = {} /\ r.fGrammarBucket = {}
    BY <1>1, <1>5, ChainIs DEF Modelled
  <2> QED
    BY <1>3, <2>1, <2>2, <2>3
<1> QED
  BY <1>4, <1>5

LEMMA OneOwner ==
  ASSUME NEW h, Sound(h), NEW m \in Model, h.models[m].live
  PROVE  Cardinality({p \in Parser : m \in Chain(h.models, h.resolver[p].fXSModel)
                                     /\ h.models[m].fDeleteParent}
                     \cup IF h.pool.fXSModel = m THEN {"pool"} ELSE {}) = 1
<1> DEFINE T == {p \in Parser : m \in Chain(h.models, h.resolver[p].fXSModel) /\ h.models[m].fDeleteParent}
           S == T \cup IF h.pool.fXSModel = m THEN {"pool"} ELSE {}
<1>1. SUFFICES \E x : S = {x}
  BY FS_Singleton
<1>2. PoolSound(h) /\ \A p \in Parser : ParserSound(h, p)
  BY DEF Sound
<1>3. CASE m \in MadeBy(h, Pool)
  BY <1>2, <1>3 DEF PoolSound
<1>4. ASSUME NEW p \in Parser, m \in MadeBy(h, p) PROVE \E x : S = {x}
  <2>1. m \notin MadeBy(h, Pool) /\ \A q \in Parser \ {p} : m \notin MadeBy(h, q)
    BY <1>4, Makers, XSModelAssumption DEF MadeBy
  <2>2. h.pool.fXSModel # m
    BY <1>2, <2>1, Pointer DEF PoolSound
  <2>3. m \in Chain(h.models, h.resolver[p].fXSModel) /\ h.models[m].fDeleteParent
    BY <1>2, <1>4 DEF ParserSound
  <2>4. ASSUME NEW q \in Parser \ {p} PROVE m \notin Chain(h.models, h.resolver[q].fXSModel)
    <3>1. m \notin MadeBy(h, q) /\ q \in Parser
      BY <2>1
    <3>2. h.resolver[q].fXSModel = Null => Chain(h.models, h.resolver[q].fXSModel) = {}
      BY ChainOfNone, Pointer
    <3> QED
      BY <2>2, <3>1, <3>2, ChainIs
  <2>5. S = {p}
    BY <2>2, <2>3, <2>4
  <2> QED
    BY <2>5
<1> QED
  BY <1>3, <1>4 DEF MadeBy, Model
-----------------------------------------------------------------------------
(* Steps of the resolver keep it ready *)

\* A resolver with other settings, with the same grammars and models.
Set(r, s) ==
  /\ s.fGrammarBucket = r.fGrammarBucket
  /\ s.fGrammarsToAddToXSModel = r.fGrammarsToAddToXSModel
  /\ s.fXSModel = r.fXSModel /\ s.fGrammarPoolXSModel = r.fGrammarPoolXSModel
  /\ s.fModel = r.fModel

LEMMA SettingWorks ==
  ASSUME NEW h, Sound(h), NEW p \in Parser, NEW s \in Resolvers, Set(h.resolver[p], s),
         NEW g, g = With(h, p, s)
  PROVE  /\ Works(h, g, p) /\ g.pool = h.pool /\ g.resolver[p] = s
         /\ MadeBy(g, p) = MadeBy(h, p) /\ \A q \in Parser : On(g, q) = On(h, q)
         /\ \A q \in Parser \ {p} : Unmoved(h, g, q)
<1>1. h \in Heaps /\ h.pool \in Pools /\ ParserSound(h, p)
  BY DEF Sound, Heaps
<1>2. Changed(h, g, p, h.pool, s)
  BY <1>1, WithIs
<1>3. /\ s.fXSModel = h.resolver[p].fXSModel
      /\ s.fGrammarPoolXSModel \in {Null, Freed, h.pool.fXSModel}
      /\ s.fGrammarBucket = Modelled(h, p) \cup s.fGrammarsToAddToXSModel
  BY <1>1 DEF Set, ParserSound
<1>4. Works(h, g, p) /\ MadeBy(g, p) = MadeBy(h, p) /\ On(g, p) = On(h, p)
  BY <1>1, <1>2, <1>3, ParserChange
<1> QED
  BY <1>2, <1>4 DEF Changed, Unmoved, Works, Others

LEMMA ReadyStill ==
  ASSUME NEW h, NEW g, NEW p \in Parser, g.pool = h.pool,
         \A q \in Parser : On(g, q) = On(h, q),
         Set(h.resolver[p], g.resolver[p]),
         g.resolver[p].fCacheGrammar = h.resolver[p].fCacheGrammar,
         g.resolver[p].fUseCachedGrammar = h.resolver[p].fUseCachedGrammar
  PROVE  /\ Ready(h, p) => Ready(g, p)
         /\ CurrentFor(h, p) => CurrentFor(g, p)
BY DEF Set, Ready, CurrentFor, IsCaching, Bare

LEMMA GetReady ==
  ASSUME NEW h, Sound(h), PoolReady(h), NEW p \in Parser, Ready(h, p), HasRoom(h, p),
         NEW g, g = GetXSModel(h, p)
  PROVE  /\ Works(h, g, p) /\ CurrentFor(g, p) /\ Same(h.resolver[p], g.resolver[p])
         /\ g.pool.fGrammarRegistry = h.pool.fGrammarRegistry
         /\ Ready(g, p) /\ g.resolver[p].fModel # Null
<1>1. Answerable(h, p) /\ (IsCaching(h.resolver[p]) <=> h.resolver[p].fUseCachedGrammar)
  BY ReadyAnswers
<1>2. /\ Works(h, g, p) /\ CurrentFor(g, p) /\ Same(h.resolver[p], g.resolver[p])
      /\ g.pool.fGrammarRegistry = h.pool.fGrammarRegistry
      /\ IsCaching(h.resolver[p]) /\ Bare(h.resolver[p]) => g.resolver[p].fXSModel = Null
  BY <1>1, GetWorks
<1>3. /\ IsCaching(g.resolver[p]) <=> g.resolver[p].fUseCachedGrammar
      /\ g.resolver[p].fCacheGrammar = h.resolver[p].fCacheGrammar
      /\ g.resolver[p].fUseCachedGrammar = h.resolver[p].fUseCachedGrammar
      /\ g.resolver[p].fGrammarBucket = h.resolver[p].fGrammarBucket
  BY <1>1, <1>2 DEF IsCaching, Same, Settings
<1>4. g.resolver[p].fModel # Null
  <2>1. g.resolver[p].fModel \in Model
    BY <1>2, CurrentModel DEF Works
  <2> QED
    BY <2>1, Pointer
<1>5. g.pool.fLocked = h.pool.fLocked /\ \A q \in Parser \ {p} : On(g, q) = On(h, q)
  BY <1>2 DEF Works, Others
<1>6. Ready(g, p)
  BY <1>1, <1>2, <1>3, <1>5 DEF Ready, CurrentFor, Bare
<1> QED
  BY <1>2, <1>4, <1>6

LEMMA PutReady ==
  ASSUME NEW h, Sound(h), NEW p \in Parser, Ready(h, p), NEW gs \in SUBSET Grammar,
         h.resolver[p].fCacheGrammar => Accepted(h, gs) = gs,
         NEW g, g = Put(h, p, gs)
  PROVE  /\ Works(h, g, p) /\ Ready(g, p) /\ MadeBy(g, p) = MadeBy(h, p)
         /\ g.pool.fGrammarRegistry =
              h.pool.fGrammarRegistry \cup IF h.resolver[p].fCacheGrammar THEN gs ELSE {}
         /\ g.resolver[p].fGrammarBucket =
              h.resolver[p].fGrammarBucket \cup IF h.resolver[p].fCacheGrammar THEN {} ELSE gs
         /\ Settings(h.resolver[p], g.resolver[p])
         /\ g.resolver[p].fXSModel = h.resolver[p].fXSModel
         /\ g.resolver[p] \in Resolvers
<1> DEFINE taken == Taken(h, p, gs)
           own == gs \ taken
           r == h.resolver[p]
           s == g.resolver[p]
<1>1. /\ Works(h, g, p) /\ MadeBy(g, p) = MadeBy(h, p) /\ On(g, p) = On(h, p)
      /\ g.pool = Registered(h.pool, taken) /\ s = More(r, own)
  BY PutWorks
<1>2. /\ taken = IF r.fCacheGrammar THEN gs ELSE {}
      /\ own = IF r.fCacheGrammar THEN {} ELSE gs
      /\ taken \in SUBSET Grammar /\ own \in SUBSET Grammar
  BY AcceptedIs DEF Taken
<1>3. h.pool \in Pools /\ r \in Resolvers
  BY DEF Sound, Heaps
<1> HIDE DEF taken, own
<1>4. /\ g.pool.fLocked = h.pool.fLocked /\ g.pool.fXSModel = h.pool.fXSModel
      /\ g.pool.fGrammarRegistry = h.pool.fGrammarRegistry \cup taken
      /\ g.pool.fXSModelIsValid = (h.pool.fXSModelIsValid /\ taken = {})
  BY <1>1, <1>2, <1>3, RegisteredIs
<1> HIDE DEF r, s
<1>5. /\ s \in Resolvers /\ s.fGrammarBucket = r.fGrammarBucket \cup own
      /\ s.fXSModel = r.fXSModel /\ s.fGrammarPoolXSModel = r.fGrammarPoolXSModel /\ Settings(r, s)
  BY <1>1, <1>2, <1>3 DEF More, Resolvers, Settings
<1>6. \A q \in Parser : On(g, q) = On(h, q)
  BY <1>1 DEF Works, Others
<1>7. s.fCacheGrammar = r.fCacheGrammar /\ s.fUseCachedGrammar = r.fUseCachedGrammar
  BY <1>5 DEF Settings
<1>8. Ready(g, p)
  BY <1>2, <1>4, <1>5, <1>6, <1>7 DEF Ready, Bare, r, s
<1> QED
  BY <1>1, <1>2, <1>4, <1>5, <1>8 DEF r, s
-----------------------------------------------------------------------------
(* Steps of a parser keep the invariant *)

Registers(h, g) ==
  NamespacesOf(h.pool.fGrammarRegistry) \subseteq NamespacesOf(g.pool.fGrammarRegistry)

\* The other parsers rest, or the pool is locked, or they are not reached at all.
LEMMA OthersKeep ==
  ASSUME NEW h, HeapInvariant(h), NEW p \in Parser, NEW g, Works(h, g, p), Registers(h, g),
         NEW q \in Parser \ {p},
         \/ h.pool.fLocked
         \/ ~h.resolver[q].parsing
         \/ /\ Unmoved(h, g, q) /\ g.pool = h.pool
            /\ On(g, p) => On(h, p)
  PROVE  Resting(g.resolver[q]) /\ Parsing(g, q) /\ ListTrue(g, q)
<1> DEFINE r == h.resolver[q]
           s == g.resolver[q]
<1>1. /\ Alike(r, s) /\ On(g, q) = On(h, q) /\ g.pool.fLocked = h.pool.fLocked
      /\ h.pool.fLocked => g.pool = h.pool /\ Unmoved(h, g, q)
      /\ \A x \in Parser \ {p} : On(g, x) = On(h, x)
  BY DEF Works, Others
<1>2. Resting(r) /\ Parsing(h, q) /\ ListTrue(h, q) /\ Sound(h) /\ PoolReady(h)
  BY DEF HeapInvariant
<1>3. Resting(s) /\ ListTrue(g, q)
  BY <1>1, <1>2 DEF Alike, Resting, ListTrue, Registers
<1>4. CASE ~r.parsing
  BY <1>1, <1>3, <1>4 DEF Alike, Parsing
<1>5. CASE r.parsing
  <2>1. g.pool = h.pool /\ Unmoved(h, g, q) /\ (h.pool.fLocked \/ (On(g, p) => On(h, p)))
    BY <1>1, <1>5
  <2>2. Ready(h, q) /\ Ready(g, q)
    <3>1. Ready(h, q)
      BY <1>2, <1>5 DEF Parsing
    <3>2. \A x \in Parser \ {q} : ~On(h, x) /\ ~h.pool.fLocked => ~On(g, x)
      BY <1>1, <2>1
    <3>3. g.pool = h.pool /\ On(g, q) = On(h, q)
      BY <1>1, <2>1
    <3>4. /\ s.fGrammarBucket = r.fGrammarBucket /\ s.fXSModel = r.fXSModel
          /\ s.fGrammarPoolXSModel = r.fGrammarPoolXSModel
          /\ s.fCacheGrammar = r.fCacheGrammar /\ s.fUseCachedGrammar = r.fUseCachedGrammar
      BY <1>1, <2>1 DEF Alike, Unmoved
    <3> QED
      BY <3>1, <3>2, <3>3, <3>4 DEF Ready, Bare
  <2>3. r.psvi /\ r.fModel # Null => s.fModel = r.fModel /\ CurrentFor(g, q)
    <3> SUFFICES ASSUME r.psvi, r.fModel # Null PROVE s.fModel = r.fModel /\ CurrentFor(g, q)
      OBVIOUS
    <3>1. CurrentFor(h, q)
      BY <1>2, <1>5 DEF Parsing
    <3>2. r.fModel \in MadeBy(h, q) \cup {Null, h.pool.fXSModel}
      BY <1>2, <3>1 DEF CurrentFor, Sound, ParserSound
    <3>3. s.fModel = r.fModel /\ s.fGrammarPoolXSModel = r.fGrammarPoolXSModel
      BY <2>1, <3>2 DEF Unmoved
    <3>4. On(g, q) = On(h, q) /\ g.pool = h.pool
      BY <1>1, <2>1
    <3> QED
      BY <1>1, <3>1, <3>3, <3>4 DEF CurrentFor, Alike, IsCaching
  <2>4. r.fModel = Null => s.fModel = Null
    BY <2>1 DEF Unmoved
  <2> QED
    BY <1>1, <1>2, <1>3, <1>5, <2>2, <2>3, <2>4 DEF Parsing, Alike
<1> QED
  BY <1>4, <1>5

LEMMA StepKeeps ==
  ASSUME NEW h, HeapInvariant(h), NEW p \in Parser, NEW g, Works(h, g, p), Registers(h, g),
         \A q \in Parser \ {p} : h.pool.fLocked \/ ~h.resolver[q].parsing,
         Resting(g.resolver[p]), Parsing(g, p), ListTrue(g, p)
  PROVE  HeapInvariant(g)
<1>1. \A q \in Parser \ {p} : Resting(g.resolver[q]) /\ Parsing(g, q) /\ ListTrue(g, q)
  BY OthersKeep
<1>2. Sound(g) /\ PoolReady(g)
  BY DEF Works, HeapInvariant, PoolReady
<1>3. OneAtATime(g)
  BY DEF OneAtATime, Works, Others, Alike
<1> QED
  BY <1>1, <1>2, <1>3 DEF HeapInvariant

\* The start of a parse or a load: a resolver without grammars or models, ready.
LEMMA ConfiguredWorks ==
  ASSUME NEW h, Sound(h), NEW p \in Parser,
         NEW cache \in BOOLEAN, NEW use \in BOOLEAN, NEW psvi \in BOOLEAN,
         NEW c, c = Configured(h, p, cache, use, psvi)
  PROVE  /\ Works(h, c, p) /\ c.pool = h.pool /\ MadeBy(c, p) = {} /\ ~On(c, p)
         /\ c.resolver[p] \in Resolvers /\ Bare(c.resolver[p])
         /\ c.resolver[p].fGrammarsToAddToXSModel = {}
         /\ c.resolver[p].fGrammarPoolXSModel = h.resolver[p].fGrammarPoolXSModel
         /\ c.resolver[p].fCacheGrammar = cache /\ c.resolver[p].fUseCachedGrammar = use
         /\ c.resolver[p].psvi = psvi
         /\ c.resolver[p].parsing = h.resolver[p].parsing
         /\ c.resolver[p].inSchema = h.resolver[p].inSchema
         /\ c.resolver[p].fSchemaInfoList = h.resolver[p].fSchemaInfoList
         /\ c.resolver[p].fCachedSchemaInfoList = h.resolver[p].fCachedSchemaInfoList
<1> DEFINE e == Unmodelled(h, p, {})
           r == h.resolver[p]
           t == e.resolver[p]
           s == Options(t, cache, use, psvi)
<1>1. /\ Works(h, e, p) /\ e.pool = h.pool /\ MadeBy(e, p) = {} /\ ~On(e, p)
      /\ \E y \in Pointers : t = Own(Repointed(r, Null, y), {})
  BY UnmodelledWorks
<1>2. c = With(e, p, s)
  BY DEF Configured, Reset
<1>3. r \in Resolvers
  BY DEF Sound, Heaps
<1> HIDE DEF e, r, t
<1>4. /\ t \in Resolvers /\ t.fGrammarBucket = {} /\ t.fGrammarsToAddToXSModel = {}
      /\ t.fXSModel = Null /\ t.fGrammarPoolXSModel = r.fGrammarPoolXSModel /\ Settings(r, t)
  <2>1. PICK y \in Pointers : t = Own(Repointed(r, Null, y), {})
    BY <1>1
  <2> DEFINE v == Repointed(r, Null, y)
  <2>2. v = Repointed(r, Null, y) /\ Null \in Pointers /\ t = Own(v, {})
    BY <2>1 DEF Pointers
  <2> HIDE DEF v
  <2>3. /\ v \in Resolvers /\ v.fXSModel = Null /\ Same(r, v)
        /\ v.fGrammarPoolXSModel = r.fGrammarPoolXSModel
    BY ONLY <1>3, y \in Pointers, <2>2, RepointedIs
  <2>4. /\ t \in Resolvers /\ t.fGrammarBucket = {} /\ t.fGrammarsToAddToXSModel = {}
        /\ t.fXSModel = v.fXSModel
        /\ t.fGrammarPoolXSModel = v.fGrammarPoolXSModel /\ Settings(v, t)
    BY <2>2, <2>3, OwnIs
  <2> QED
    BY <2>3, <2>4 DEF Same, Settings
<1>5. /\ s \in Resolvers /\ Set(t, s)
      /\ s.fCacheGrammar = cache /\ s.fUseCachedGrammar = use /\ s.psvi = psvi
      /\ s.parsing = t.parsing /\ s.inSchema = t.inSchema
      /\ s.fSchemaInfoList = t.fSchemaInfoList /\ s.fCachedSchemaInfoList = t.fCachedSchemaInfoList
  BY <1>4 DEF Options, Resolvers, Set
<1> HIDE DEF s
<1>6. /\ Works(e, c, p) /\ c.pool = e.pool /\ c.resolver[p] = s
      /\ MadeBy(c, p) = MadeBy(e, p) /\ On(c, p) = On(e, p)
  <2>1. Sound(e) /\ Set(e.resolver[p], s)
    BY <1>1, <1>5 DEF Works, t
  <2> QED
    BY <1>2, <1>5, <2>1, SettingWorks
<1>7. Works(h, c, p)
  BY <1>1, <1>6, WorksOn
<1> QED
  BY <1>1, <1>4, <1>5, <1>6, <1>7 DEF Bare, Set, Settings, r

LEMMA ConfiguredReady ==
  ASSUME NEW h, h = Heap, Sound(h), Unguarded = {}, NEW p \in Parser,
         NEW cache \in BOOLEAN, NEW use \in BOOLEAN, NEW psvi \in BOOLEAN,
         MayStart(p, use), cache => use /\ ~h.pool.fLocked,
         NEW c, c = Configured(h, p, cache, use, psvi)
  PROVE  Ready(c, p) /\ HasRoom(c, p)
<1>1. /\ Works(h, c, p) /\ c.pool = h.pool /\ MadeBy(c, p) = {} /\ ~On(c, p)
      /\ Bare(c.resolver[p])
      /\ c.resolver[p].fGrammarPoolXSModel = h.resolver[p].fGrammarPoolXSModel
      /\ c.resolver[p].fCacheGrammar = cache /\ c.resolver[p].fUseCachedGrammar = use
  BY ConfiguredWorks
<1>2. h.pool = pool /\ h.resolver = resolver /\ h.models = models
  BY DEF Heap
<1>3. use /\ (h.pool.fLocked \/ h.pool.fXSModelIsValid) =>
        h.resolver[p].fGrammarPoolXSModel = h.pool.fXSModel
  BY <1>2 DEF MayStart, Told
<1>4. use /\ ~h.pool.fLocked => \A q \in Parser \ {p} : ~On(h, q)
  BY <1>2 DEF MayStart, Replaceable, On
<1>5. \A q \in Parser \ {p} : On(c, q) = On(h, q)
  BY <1>1 DEF Works, Others
<1>6. HasRoom(c, p)
  BY <1>1, RoomAgain
<1> QED
  BY <1>1, <1>3, <1>4, <1>5, <1>6 DEF Ready, Bare
-----------------------------------------------------------------------------
(* The actions *)

LEMMA BecomesIs ==
  ASSUME NEW g \in Heaps, Becomes(g)
  PROVE  Heap' = g
BY DEF Becomes, Heap, Heaps

LEMMA Kept ==
  ASSUME NEW g, HeapInvariant(g), Becomes(g), ~unread'
  PROVE  ModelsInvariant'
<1>1. g \in Heaps
  BY DEF HeapInvariant, Sound
<1>2. Heap' = g
  BY <1>1, BecomesIs
<1>3. HeapInvariant(Heap')
  BY <1>2
<1> QED
  BY <1>3 DEF ModelsInvariant

LEMMA HeapIs ==
  /\ Heap.models = models /\ Heap.pool = pool /\ Heap.resolver = resolver /\ Heap.misread = misread
BY DEF Heap

\* A parse or a load ends, with or without an exception.
LEMMA EndKeeps ==
  ASSUME NEW h, HeapInvariant(h), NEW p \in Parser, NEW e, Works(h, e, p), Registers(h, e),
         \A q \in Parser \ {p} : h.pool.fLocked \/ ~h.resolver[q].parsing,
         ListTrue(e, p), NEW g, g = End(e, p)
  PROVE  HeapInvariant(g)
<1> DEFINE r == e.resolver[p]
           s == Ended(r)
<1>1. Sound(e) /\ r \in Resolvers /\ g = With(e, p, s)
  BY DEF Works, Sound, Heaps, End
<1> HIDE DEF r
<1>2. /\ s \in Resolvers /\ Set(r, s) /\ ~s.parsing /\ Resting(s)
      /\ s.fCachedSchemaInfoList = r.fCachedSchemaInfoList
  BY <1>1 DEF Ended, Resolvers, Set, Resting
<1> HIDE DEF s
<1>3. Works(e, g, p) /\ g.pool = e.pool /\ g.resolver[p] = s
  BY <1>1, <1>2, SettingWorks DEF r
<1>4. Works(h, g, p) /\ Registers(h, g)
  BY <1>3, WorksOn DEF Registers
<1>5. Resting(g.resolver[p]) /\ Parsing(g, p) /\ ListTrue(g, p)
  BY <1>2, <1>3 DEF Parsing, ListTrue, r
<1> QED
  BY <1>4, <1>5, StepKeeps

LEMMA MayStartAlone ==
  ASSUME NEW p \in Parser, NEW use, MayStart(p, use)
  PROVE  /\ ~Heap.resolver[p].parsing
         /\ \A q \in Parser \ {p} : Heap.pool.fLocked \/ ~Heap.resolver[q].parsing
BY HeapIs DEF MayStart, Idle

LEMMA ScanResetKeeps ==
  ASSUME ModelsInvariant, Unguarded = {}, NEW p \in Parser,
         NEW cache \in BOOLEAN, NEW use \in BOOLEAN, NEW psvi \in BOOLEAN,
         ScanReset(p, cache, use, psvi)
  PROVE  ModelsInvariant'
<1> DEFINE h == Heap
           c == Configured(h, p, cache, use, psvi)
           u == UpdateIfSet(c, p)
           r == u.resolver[p]
           s == Started(r)
           g == With(u, p, s)
<1>1. /\ HeapInvariant(h) /\ MayStart(p, use) /\ (cache => use /\ ~h.pool.fLocked)
      /\ Becomes(g) /\ ~unread'
  BY HeapIs DEF ModelsInvariant, ScanReset
<1> HIDE DEF h
<1>2. /\ ~h.resolver[p].parsing
      /\ \A q \in Parser \ {p} : h.pool.fLocked \/ ~h.resolver[q].parsing
  BY <1>1, MayStartAlone DEF h
<1>3. Sound(h) /\ PoolReady(h) /\ Resting(h.resolver[p]) /\ ListTrue(h, p)
  BY <1>1 DEF HeapInvariant
<1>4. /\ Works(h, c, p) /\ c.pool = h.pool /\ c.resolver[p] \in Resolvers
      /\ c.resolver[p].fCacheGrammar = cache /\ c.resolver[p].psvi = psvi
      /\ ~c.resolver[p].inSchema
      /\ c.resolver[p].fCachedSchemaInfoList = h.resolver[p].fCachedSchemaInfoList
  BY <1>2, <1>3, ConfiguredWorks DEF Resting
<1>5. Ready(c, p) /\ HasRoom(c, p)
  BY <1>1, <1>3, ConfiguredReady DEF h
<1> HIDE DEF c
<1>6. Sound(c) /\ PoolReady(c)
  BY <1>3, <1>4 DEF Works, PoolReady
<1>7. /\ Works(h, u, p) /\ Ready(u, p) /\ ~r.inSchema
      /\ r.fCachedSchemaInfoList = h.resolver[p].fCachedSchemaInfoList
      /\ u.pool.fGrammarRegistry = h.pool.fGrammarRegistry
      /\ r.psvi /\ r.fModel # Null => CurrentFor(u, p)
  <2>1. CASE c.resolver[p].fModel # Null /\ c.resolver[p].psvi
    <3>1. u = GetXSModel(c, p)
      BY <2>1 DEF UpdateIfSet, Update
    <3>2. /\ Works(c, u, p) /\ CurrentFor(u, p) /\ Same(c.resolver[p], r) /\ Ready(u, p)
          /\ u.pool.fGrammarRegistry = c.pool.fGrammarRegistry
      BY <1>5, <1>6, <3>1, GetReady
    <3> QED
      BY <1>4, <3>2, WorksOn DEF Same, Settings
  <2>2. CASE ~(c.resolver[p].fModel # Null /\ c.resolver[p].psvi)
    <3>1. u = c
      BY <2>2 DEF UpdateIfSet, Update
    <3> QED
      BY <1>4, <1>5, <2>2, <3>1
  <2> QED
    BY <2>1, <2>2
<1>8. Sound(u) /\ r \in Resolvers
  BY <1>7 DEF Works, Sound, Heaps
<1> HIDE DEF u, r
<1>9. /\ s \in Resolvers /\ Set(r, s) /\ s.parsing /\ s.inSchema = r.inSchema /\ s.psvi = r.psvi
      /\ s.fSchemaInfoList = {} /\ s.fCachedSchemaInfoList = r.fCachedSchemaInfoList
      /\ s.fCacheGrammar = r.fCacheGrammar /\ s.fUseCachedGrammar = r.fUseCachedGrammar
  BY <1>8 DEF Started, Resolvers, Set
<1> HIDE DEF s
<1>10. /\ Works(u, g, p) /\ g.pool = u.pool /\ g.resolver[p] = s
       /\ \A q \in Parser : On(g, q) = On(u, q)
  BY <1>8, <1>9, SettingWorks DEF r
<1> HIDE DEF g
<1>11. Ready(g, p) /\ (CurrentFor(u, p) => CurrentFor(g, p))
  BY <1>7, <1>9, <1>10, ReadyStill DEF r
<1>12. Works(h, g, p) /\ Registers(h, g) /\ ListTrue(g, p)
  BY <1>3, <1>7, <1>9, <1>10, WorksOn DEF Registers, ListTrue
<1>13. Resting(g.resolver[p]) /\ Parsing(g, p)
  BY <1>7, <1>9, <1>10, <1>11 DEF Resting, Parsing, Set
<1>14. HeapInvariant(g)
  BY <1>1, <1>2, <1>12, <1>13, StepKeeps
<1> QED
  BY <1>1, <1>14, Kept

LEMMA SwitchGrammarKeeps ==
  ASSUME ModelsInvariant, Unguarded = {}, NEW p \in Parser, NEW ns, SwitchGrammar(p, ns)
  PROVE  ModelsInvariant'
<1> DEFINE h == Heap
           r == h.resolver[p]
           s == [r EXCEPT !.inSchema = TRUE]
           g == With(h, p, s)
<1>1. /\ HeapInvariant(h) /\ r.parsing /\ r.fModel # Null /\ Becomes(g) /\ ~unread'
  BY HeapIs DEF ModelsInvariant, SwitchGrammar, InSchema, Idle
<1> HIDE DEF h
<1>2. Sound(h) /\ r \in Resolvers /\ Parsing(h, p) /\ ListTrue(h, p) /\ OneAtATime(h)
  BY <1>1 DEF HeapInvariant, Sound, Heaps
<1> HIDE DEF r
<1>3. /\ s \in Resolvers /\ Set(r, s) /\ s.parsing = r.parsing /\ s.psvi = r.psvi
      /\ s.fSchemaInfoList = r.fSchemaInfoList /\ s.fCachedSchemaInfoList = r.fCachedSchemaInfoList
      /\ s.fCacheGrammar = r.fCacheGrammar /\ s.fUseCachedGrammar = r.fUseCachedGrammar
  BY <1>2 DEF Resolvers, Set
<1> HIDE DEF s
<1>4. /\ Works(h, g, p) /\ g.pool = h.pool /\ g.resolver[p] = s
      /\ \A q \in Parser : On(g, q) = On(h, q)
  BY <1>2, <1>3, SettingWorks DEF r
<1> HIDE DEF g
<1>5. (Ready(h, p) => Ready(g, p)) /\ (CurrentFor(h, p) => CurrentFor(g, p))
  BY <1>3, <1>4, ReadyStill DEF r
<1>6. Resting(g.resolver[p]) /\ Parsing(g, p) /\ ListTrue(g, p) /\ Registers(h, g)
  BY <1>1, <1>2, <1>3, <1>4, <1>5 DEF Resting, Parsing, ListTrue, Registers, Set, r
<1>7. \A q \in Parser \ {p} : h.pool.fLocked \/ ~h.resolver[q].parsing
  BY <1>1, <1>2 DEF OneAtATime, r
<1>8. HeapInvariant(g)
  BY <1>1, <1>4, <1>6, <1>7, StepKeeps
<1> QED
  BY <1>1, <1>8, Kept

LEMMA EndParseKeeps ==
  ASSUME ModelsInvariant, NEW p \in Parser, EndParse(p)
  PROVE  ModelsInvariant'
<1> DEFINE h == Heap
           g == End(h, p)
<1>1. HeapInvariant(h) /\ h.resolver[p].parsing /\ Becomes(g) /\ ~unread'
  BY HeapIs DEF ModelsInvariant, EndParse, Idle
<1> HIDE DEF h
<1>2. Works(h, h, p) /\ Registers(h, h) /\ ListTrue(h, p)
  BY <1>1 DEF HeapInvariant, Works, Others, Alike, Unmoved, Registers
<1>3. \A q \in Parser \ {p} : h.pool.fLocked \/ ~h.resolver[q].parsing
  BY <1>1 DEF HeapInvariant, OneAtATime
<1>4. HeapInvariant(g)
  BY <1>1, <1>2, <1>3, EndKeeps
<1> QED
  BY <1>1, <1>4, Kept

\* A schema is put in and listed.
LEMMA PutListed ==
  ASSUME NEW h, Sound(h), NEW p \in Parser, Ready(h, p), NEW gs \in SUBSET Grammar,
         h.resolver[p].fCacheGrammar => Accepted(h, gs) = gs,
         NEW toCache \in BOOLEAN, NEW new, new = NamespacesOf(gs),
         NEW e, e = Listed(Put(h, p, gs), p, new, toCache)
  PROVE  /\ Works(h, e, p) /\ Ready(e, p) /\ MadeBy(e, p) = MadeBy(h, p)
         /\ e.pool.fGrammarRegistry =
              h.pool.fGrammarRegistry \cup IF h.resolver[p].fCacheGrammar THEN gs ELSE {}
         /\ e.resolver[p].fGrammarBucket =
              h.resolver[p].fGrammarBucket \cup IF h.resolver[p].fCacheGrammar THEN {} ELSE gs
         /\ e.resolver[p].fSchemaInfoList =
              h.resolver[p].fSchemaInfoList \cup IF toCache THEN {} ELSE new
         /\ e.resolver[p].fCachedSchemaInfoList =
              h.resolver[p].fCachedSchemaInfoList \cup IF toCache THEN new ELSE {}
         /\ e.resolver[p].fXSModel = h.resolver[p].fXSModel
         /\ e.resolver[p].fCacheGrammar = h.resolver[p].fCacheGrammar
         /\ e.resolver[p].fUseCachedGrammar = h.resolver[p].fUseCachedGrammar
         /\ e.resolver[p].psvi = h.resolver[p].psvi
         /\ e.resolver[p].parsing = h.resolver[p].parsing
<1> DEFINE g == Put(h, p, gs)
           r == g.resolver[p]
           s == Noted(r, new, toCache)
<1>1. /\ Works(h, g, p) /\ Ready(g, p) /\ MadeBy(g, p) = MadeBy(h, p)
      /\ g.pool.fGrammarRegistry =
              h.pool.fGrammarRegistry \cup IF h.resolver[p].fCacheGrammar THEN gs ELSE {}
      /\ r.fGrammarBucket =
              h.resolver[p].fGrammarBucket \cup IF h.resolver[p].fCacheGrammar THEN {} ELSE gs
      /\ Settings(h.resolver[p], r) /\ r.fXSModel = h.resolver[p].fXSModel /\ r \in Resolvers
  BY PutReady
<1>2. e = With(g, p, s)
  BY DEF Listed
<1>3. new \in SUBSET Namespaces
  BY DEF Namespaces, NamespacesOf
<1> HIDE DEF g, r
<1>4. /\ s \in Resolvers /\ Set(r, s) /\ s.parsing = r.parsing /\ s.psvi = r.psvi
      /\ s.fSchemaInfoList = r.fSchemaInfoList \cup IF toCache THEN {} ELSE new
      /\ s.fCachedSchemaInfoList = r.fCachedSchemaInfoList \cup IF toCache THEN new ELSE {}
      /\ s.fCacheGrammar = r.fCacheGrammar /\ s.fUseCachedGrammar = r.fUseCachedGrammar
  BY <1>1, <1>3 DEF Noted, Resolvers, Set
<1> HIDE DEF s
<1>5. /\ Works(g, e, p) /\ e.pool = g.pool /\ e.resolver[p] = s /\ MadeBy(e, p) = MadeBy(g, p)
      /\ \A q \in Parser : On(e, q) = On(g, q)
  <2>1. Sound(g) /\ Set(g.resolver[p], s)
    BY <1>1, <1>4 DEF Works, r
  <2> QED
    BY <1>2, <1>4, <2>1, SettingWorks
<1>6. Ready(e, p)
  BY <1>1, <1>4, <1>5, ReadyStill DEF r
<1>7. Works(h, e, p)
  BY <1>1, <1>5, WorksOn
<1> QED
  BY <1>1, <1>4, <1>5, <1>6, <1>7 DEF Settings, Set

LEMMA AllAccepted ==
  ASSUME NEW h, ~h.pool.fLocked, NEW gs \in SUBSET Grammar,
         NamespacesOf(gs) \cap NamespacesOf(h.pool.fGrammarRegistry) = {}
  PROVE  Accepted(h, gs) = gs
BY DEF Accepted, NamespacesOf

LEMMA NewGrammarsAre ==
  ASSUME NEW h, NEW namespaces, NEW gs \in NewGrammars(h, namespaces)
  PROVE  gs \in SUBSET Grammar /\ NamespacesOf(gs) = namespaces
BY DEF NewGrammars

LEMMA NamespacesMore ==
  ASSUME NEW A, NEW B
  PROVE  NamespacesOf(A \cup B) = NamespacesOf(A) \cup NamespacesOf(B)
BY DEF NamespacesOf

\* No schema counts as read whose grammar is not there.
LEMMA ReadIsKnown ==
  ASSUME HeapInvariant(Heap), NEW p \in Parser, resolver[p].parsing
  PROVE  AlreadyRead(resolver[p]) \subseteq Known(resolver[p])
<1>1. Parsing(Heap, p) /\ ListTrue(Heap, p) /\ Heap.resolver = resolver /\ Heap.pool = pool
  BY HeapIs DEF HeapInvariant
<1> QED
  BY <1>1, NamespacesMore DEF Parsing, ListTrue, AlreadyRead, Known, Visible

\* What resolveSchemaGrammar puts in, while parsing.
LEMMA ResolvedIs ==
  ASSUME NEW h, h = Heap, HeapInvariant(h), NEW p \in Parser, h.resolver[p].parsing,
         NEW new, new \cap Known(resolver[p]) = {}, NEW gs \in NewGrammars(h, new),
         NEW e, e = Listed(Put(h, p, gs), p, new, h.resolver[p].fCacheGrammar)
  PROVE  /\ Works(h, e, p) /\ Ready(e, p) /\ Registers(h, e) /\ ListTrue(e, p)
         /\ MadeBy(e, p) = MadeBy(h, p)
         /\ e.resolver[p].psvi = h.resolver[p].psvi /\ e.resolver[p].parsing
         /\ ~e.resolver[p].fCacheGrammar =>
              e.resolver[p].fSchemaInfoList \subseteq NamespacesOf(e.resolver[p].fGrammarBucket)
         /\ \A q \in Parser \ {p} : h.pool.fLocked \/ ~h.resolver[q].parsing
<1> DEFINE r == h.resolver[p]
<1>1. /\ Sound(h) /\ Ready(h, p) /\ Parsing(h, p) /\ ListTrue(h, p) /\ OneAtATime(h)
      /\ r \in Resolvers /\ h.pool = pool /\ h.resolver = resolver
  BY HeapIs DEF HeapInvariant, Parsing, Sound, Heaps
<1>2. gs \in SUBSET Grammar /\ NamespacesOf(gs) = new
  BY NewGrammarsAre
<1>3. r.fCacheGrammar => Accepted(h, gs) = gs
  <2>1. r.fCacheGrammar => r.fUseCachedGrammar /\ ~h.pool.fLocked
    BY <1>1 DEF Ready
  <2>2. r.fUseCachedGrammar => NamespacesOf(h.pool.fGrammarRegistry) \subseteq Known(r)
    BY <1>1, NamespacesMore DEF Known, Visible
  <2> QED
    BY <1>1, <1>2, <2>1, <2>2, AllAccepted
<1>4. r.fCacheGrammar \in BOOLEAN
  BY <1>1 DEF Resolvers
<1>5. /\ Works(h, e, p) /\ Ready(e, p) /\ MadeBy(e, p) = MadeBy(h, p)
      /\ e.pool.fGrammarRegistry = h.pool.fGrammarRegistry \cup IF r.fCacheGrammar THEN gs ELSE {}
      /\ e.resolver[p].fGrammarBucket = r.fGrammarBucket \cup IF r.fCacheGrammar THEN {} ELSE gs
      /\ e.resolver[p].fSchemaInfoList = r.fSchemaInfoList \cup IF r.fCacheGrammar THEN {} ELSE new
      /\ e.resolver[p].fCachedSchemaInfoList =
           r.fCachedSchemaInfoList \cup IF r.fCacheGrammar THEN new ELSE {}
      /\ e.resolver[p].fCacheGrammar = r.fCacheGrammar
      /\ e.resolver[p].psvi = r.psvi /\ e.resolver[p].parsing = r.parsing
  <2>1. /\ e = Listed(Put(h, p, gs), p, new, r.fCacheGrammar) /\ new = NamespacesOf(gs)
        /\ Sound(h) /\ p \in Parser /\ Ready(h, p) /\ gs \in SUBSET Grammar
    BY <1>1, <1>2
  <2> QED
    BY ONLY <1>3, <1>4, <2>1, PutListed, SMTT(30)
<1>6. Registers(h, e)
  BY <1>5 DEF Registers, NamespacesOf
<1>7. ListTrue(e, p)
  BY <1>1, <1>2, <1>5, NamespacesMore, SMTT(30) DEF ListTrue
<1>8. ~r.fCacheGrammar =>
        e.resolver[p].fSchemaInfoList \subseteq NamespacesOf(e.resolver[p].fGrammarBucket)
  BY <1>1, <1>2, <1>5, NamespacesMore, SMTT(30) DEF Parsing
<1>9. \A q \in Parser \ {p} : h.pool.fLocked \/ ~h.resolver[q].parsing
  BY <1>1 DEF OneAtATime
<1> QED
  BY <1>5, <1>6, <1>7, <1>8, <1>9

LEMMA SameRoom ==
  ASSUME NEW h, NEW e, NEW p \in Parser, MadeBy(e, p) = MadeBy(h, p), HasRoom(h, p)
  PROVE  HasRoom(e, p)
<1>1. PICK n \in 1..MaxModels : ~h.models[p, n].live
  BY DEF HasRoom
<1>2. <<p, n>> \in Model /\ <<p, n>>[1] = p
  BY <1>1 DEF Model
<1>3. ~e.models[p, n].live
  BY <1>1, <1>2 DEF MadeBy
<1> QED
  BY <1>3 DEF HasRoom

\* The schema is there, and the scanner asks for a model.
LEMMA ResolvedKeeps ==
  ASSUME NEW h, HeapInvariant(h), NEW p \in Parser, NEW e, Works(h, e, p), Ready(e, p),
         Registers(h, e), ListTrue(e, p), HasRoom(e, p), e.resolver[p].parsing,
         ~e.resolver[p].fCacheGrammar =>
           e.resolver[p].fSchemaInfoList \subseteq NamespacesOf(e.resolver[p].fGrammarBucket),
         \A q \in Parser \ {p} : h.pool.fLocked \/ ~h.resolver[q].parsing,
         NEW g, g = InSchema(Update(e, p), p)
  PROVE  HeapInvariant(g)
<1> DEFINE u == Update(e, p)
           r == u.resolver[p]
           s == [r EXCEPT !.inSchema = TRUE]
<1>1. Sound(e) /\ PoolReady(e) /\ g = With(u, p, s)
  BY DEF HeapInvariant, Works, PoolReady, InSchema
<1>2. /\ Works(h, u, p) /\ Ready(u, p) /\ Same(e.resolver[p], r)
      /\ u.pool.fGrammarRegistry = e.pool.fGrammarRegistry
      /\ r.psvi => CurrentFor(u, p) /\ r.fModel # Null
  <2>1. CASE e.resolver[p].psvi
    <3>1. u = GetXSModel(e, p)
      BY <2>1 DEF Update
    <3>2. /\ Works(e, u, p) /\ CurrentFor(u, p) /\ Same(e.resolver[p], r)
          /\ u.pool.fGrammarRegistry = e.pool.fGrammarRegistry
          /\ Ready(u, p) /\ r.fModel # Null
      BY <1>1, <3>1, GetReady
    <3> QED
      BY <3>2, WorksOn
  <2>2. CASE ~e.resolver[p].psvi
    <3>1. u = e
      BY <2>2 DEF Update
    <3> QED
      BY <2>2, <3>1 DEF Same, Settings
  <2> QED
    BY <2>1, <2>2
<1>3. Sound(u) /\ r \in Resolvers
  BY <1>2 DEF Works, Sound, Heaps
<1> HIDE DEF u, r
<1>4. /\ s \in Resolvers /\ Set(r, s) /\ s.parsing = r.parsing /\ s.psvi = r.psvi
      /\ s.fSchemaInfoList = r.fSchemaInfoList /\ s.fCachedSchemaInfoList = r.fCachedSchemaInfoList
      /\ s.fCacheGrammar = r.fCacheGrammar /\ s.fUseCachedGrammar = r.fUseCachedGrammar
  BY <1>3 DEF Resolvers, Set
<1> HIDE DEF s
<1>5. /\ Works(u, g, p) /\ g.pool = u.pool /\ g.resolver[p] = s
      /\ \A q \in Parser : On(g, q) = On(u, q)
  BY <1>1, <1>3, <1>4, SettingWorks DEF r
<1>6. Ready(g, p) /\ (CurrentFor(u, p) => CurrentFor(g, p))
  BY <1>2, <1>4, <1>5, ReadyStill DEF r
<1>7. Works(h, g, p) /\ Registers(h, g)
  BY <1>2, <1>5, WorksOn DEF Registers
<1>8. /\ r.parsing /\ r.fGrammarBucket = e.resolver[p].fGrammarBucket
      /\ r.fSchemaInfoList = e.resolver[p].fSchemaInfoList
      /\ r.fCachedSchemaInfoList = e.resolver[p].fCachedSchemaInfoList
      /\ r.fCacheGrammar = e.resolver[p].fCacheGrammar
  BY <1>2 DEF Same, Settings
<1>9. Resting(g.resolver[p]) /\ ListTrue(g, p)
  BY <1>2, <1>4, <1>5, <1>8 DEF Resting, ListTrue
<1>10. Parsing(g, p)
  BY <1>2, <1>4, <1>5, <1>6, <1>8 DEF Parsing, Set
<1> QED
  BY <1>7, <1>9, <1>10, StepKeeps

LEMMA ResolveNewSchemaKeeps ==
  ASSUME ModelsInvariant, NEW p \in Parser, NEW ns \in Namespaces, ResolveNewSchema(p, ns)
  PROVE  ModelsInvariant'
<1> DEFINE h == Heap
           r == h.resolver[p]
<1>1. HeapInvariant(h) /\ r.parsing /\ r = resolver[p] /\ HasRoom(h, p) /\ ~unread
  BY HeapIs DEF ModelsInvariant, ResolveNewSchema, Idle, Room, HasRoom
<1>2. PICK imports \in SUBSET (Namespaces \ ({ns} \cup Known(r))) :
        LET new == {ns} \cup (imports \ AlreadyRead(r))
        IN  \E gs \in NewGrammars(h, new) :
              LET put == Listed(Put(h, p, gs), p, new, r.fCacheGrammar)
              IN  /\ Becomes(InSchema(Update(put, p), p))
                  /\ unread' = (unread \/ imports \cap AlreadyRead(r) # {})
  BY HeapIs DEF ResolveNewSchema
<1> DEFINE new == {ns} \cup (imports \ AlreadyRead(r))
<1>3. PICK gs \in NewGrammars(h, new) :
        /\ Becomes(InSchema(Update(Listed(Put(h, p, gs), p, new, r.fCacheGrammar), p), p))
        /\ unread' = (unread \/ imports \cap AlreadyRead(r) # {})
  BY <1>2
<1>4. new \cap Known(r) = {}
  BY HeapIs DEF ResolveNewSchema
<1>5. AlreadyRead(r) \subseteq Known(r)
  BY <1>1, ReadIsKnown
<1>6. ~unread'
  BY <1>1, <1>3, <1>5
<1> DEFINE e == Listed(Put(h, p, gs), p, new, r.fCacheGrammar)
           g == InSchema(Update(e, p), p)
<1>7. Becomes(g)
  BY <1>3
<1>8. h = Heap /\ e = Listed(Put(h, p, gs), p, new, h.resolver[p].fCacheGrammar)
      /\ h.resolver[p].parsing /\ new \cap Known(resolver[p]) = {}
  BY <1>1, <1>4
<1> HIDE DEF h, r, e, new
<1>9. /\ Works(h, e, p) /\ Ready(e, p) /\ Registers(h, e) /\ ListTrue(e, p)
      /\ MadeBy(e, p) = MadeBy(h, p) /\ e.resolver[p].parsing
      /\ ~e.resolver[p].fCacheGrammar =>
           e.resolver[p].fSchemaInfoList \subseteq NamespacesOf(e.resolver[p].fGrammarBucket)
      /\ \A q \in Parser \ {p} : h.pool.fLocked \/ ~h.resolver[q].parsing
  BY ONLY <1>1, <1>8, p \in Parser, gs \in NewGrammars(h, new), ResolvedIs
<1>10. HasRoom(e, p)
  BY <1>1, <1>9, SameRoom
<1>11. HeapInvariant(g)
  BY <1>1, <1>9, <1>10, ResolvedKeeps
<1> HIDE DEF g
<1> QED
  BY <1>6, <1>7, <1>11, Kept

LEMMA ResolveFailsKeeps ==
  ASSUME ModelsInvariant, NEW p \in Parser, NEW ns \in Namespaces, ResolveFails(p, ns)
  PROVE  ModelsInvariant'
<1> DEFINE h == Heap
           r == h.resolver[p]
           new == {ns}
<1>1. HeapInvariant(h) /\ r.parsing /\ r = resolver[p] /\ ~unread'
  BY HeapIs DEF ModelsInvariant, ResolveFails, Idle
<1>2. PICK gs \in NewGrammars(h, new) :
        Becomes(End(Listed(Put(h, p, gs), p, new, r.fCacheGrammar), p))
  BY HeapIs DEF ResolveFails
<1> DEFINE e == Listed(Put(h, p, gs), p, new, r.fCacheGrammar)
           g == End(e, p)
<1>3. new \cap Known(resolver[p]) = {}
  BY DEF ResolveFails
<1>4. h = Heap /\ e = Listed(Put(h, p, gs), p, new, h.resolver[p].fCacheGrammar) /\ Becomes(g)
      /\ h.resolver[p].parsing
  BY <1>1, <1>2
<1> HIDE DEF h, r, e, new
<1>5. /\ Works(h, e, p) /\ Registers(h, e) /\ ListTrue(e, p)
      /\ \A q \in Parser \ {p} : h.pool.fLocked \/ ~h.resolver[q].parsing
  BY ONLY <1>1, <1>3, <1>4, p \in Parser, gs \in NewGrammars(h, new), ResolvedIs
<1>6. HeapInvariant(g)
  BY <1>1, <1>5, EndKeeps
<1> HIDE DEF g
<1> QED
  BY <1>1, <1>4, <1>6, Kept

LEMMA ResolveOldSchemaKeeps ==
  ASSUME ModelsInvariant, NEW p \in Parser, NEW ns, ResolveOldSchema(p, ns)
  PROVE  ModelsInvariant'
<1> DEFINE h == Heap
           g == InSchema(Update(h, p), p)
<1>1. /\ HeapInvariant(h) /\ resolver[p].parsing /\ HasRoom(h, p) /\ ~unread
      /\ h.resolver[p] = resolver[p]
  BY HeapIs DEF ModelsInvariant, ResolveOldSchema, Idle, Room, HasRoom
<1>2. AlreadyRead(resolver[p]) \subseteq Known(resolver[p])
  BY <1>1, ReadIsKnown
<1>3. Becomes(g) /\ ~unread'
  BY <1>1, <1>2 DEF ResolveOldSchema
<1> HIDE DEF h
<1>4. /\ Works(h, h, p) /\ Registers(h, h) /\ ListTrue(h, p)
      /\ Parsing(h, p) /\ OneAtATime(h)
  BY <1>1 DEF HeapInvariant, Works, Others, Alike, Unmoved, Registers
<1>5. /\ Ready(h, p)
      /\ ~h.resolver[p].fCacheGrammar =>
           h.resolver[p].fSchemaInfoList \subseteq NamespacesOf(h.resolver[p].fGrammarBucket)
      /\ \A q \in Parser \ {p} : h.pool.fLocked \/ ~h.resolver[q].parsing
  BY <1>1, <1>4 DEF Parsing, OneAtATime
<1>6. HeapInvariant(g)
  BY <1>1, <1>4, <1>5, ResolvedKeeps
<1> HIDE DEF g
<1> QED
  BY <1>3, <1>6, Kept

\* What was loaded to be cached is handed over to the pool.
LEMMA HandOverReady ==
  ASSUME NEW h, Sound(h), NEW p \in Parser, Ready(h, p), ~h.pool.fLocked,
         h.resolver[p].fXSModel = Null, ~h.resolver[p].fCacheGrammar,
         h.resolver[p].fUseCachedGrammar, NEW g, g = HandOver(h, p)
  PROVE  /\ Works(h, g, p) /\ Ready(g, p) /\ MadeBy(g, p) = MadeBy(h, p)
         /\ Settings(h.resolver[p], g.resolver[p])
         /\ NamespacesOf(h.pool.fGrammarRegistry) \cup NamespacesOf(h.resolver[p].fGrammarBucket)
              \subseteq NamespacesOf(g.pool.fGrammarRegistry)
<1> DEFINE r == h.resolver[p]
           gs == r.fGrammarBucket
           acc == Accepted(h, gs)
           refused == gs \ acc
           s == g.resolver[p]
<1>1. /\ Works(h, g, p) /\ On(g, p) = On(h, p) /\ MadeBy(g, p) = MadeBy(h, p)
      /\ g.pool = Registered(h.pool, acc) /\ s = Own(r, refused)
  BY HandOverWorks
<1>2. h.pool \in Pools /\ r \in Resolvers /\ gs \in SUBSET Grammar
  BY DEF Sound, Heaps, Resolvers
<1>3. acc \in SUBSET Grammar /\ refused \in SUBSET Grammar
  BY <1>2, AcceptedIs
<1>4. NamespacesOf(gs) \subseteq NamespacesOf(h.pool.fGrammarRegistry \cup acc)
  BY DEF NamespacesOf, Accepted
<1>5. NamespacesOf(h.pool.fGrammarRegistry) \subseteq NamespacesOf(h.pool.fGrammarRegistry \cup acc)
  BY DEF NamespacesOf
<1> HIDE DEF r, s, refused, acc, gs
<1>6. /\ s.fXSModel = r.fXSModel /\ s.fGrammarPoolXSModel = r.fGrammarPoolXSModel /\ Settings(r, s)
  BY <1>1, <1>2, <1>3, OwnIs
<1>7. /\ g.pool.fLocked = h.pool.fLocked /\ g.pool.fXSModel = h.pool.fXSModel
      /\ g.pool.fGrammarRegistry = h.pool.fGrammarRegistry \cup acc
      /\ g.pool.fXSModelIsValid = (h.pool.fXSModelIsValid /\ acc = {})
  BY <1>1, <1>2, <1>3, RegisteredIs
<1>8. \A q \in Parser : On(g, q) = On(h, q)
  BY <1>1 DEF Works, Others
<1>9. s.fCacheGrammar = r.fCacheGrammar /\ s.fUseCachedGrammar = r.fUseCachedGrammar
  BY <1>6 DEF Settings
<1>10. Ready(g, p)
  BY <1>6, <1>7, <1>8, <1>9 DEF Ready, Bare, r, s
<1> QED
  BY <1>1, <1>4, <1>5, <1>6, <1>7, <1>10 DEF r, s, gs

\* A load puts the grammars of the schema into a resolver without any.
LEMMA LoadIs ==
  ASSUME NEW h, h = Heap, HeapInvariant(h), Unguarded = {}, NEW p \in Parser,
         NEW toCache \in BOOLEAN, NEW psvi \in BOOLEAN, MayStart(p, toCache),
         NEW cache \in BOOLEAN, ~cache, NEW c, c = Configured(h, p, cache, toCache, psvi),
         NEW new, NEW gs, gs \in NewGrammars(c, new),
         NEW put, put = Listed(Put(c, p, gs), p, new, toCache)
  PROVE  /\ Works(h, c, p) /\ c.pool = h.pool /\ MadeBy(c, p) = {}
         /\ c.resolver[p].fSchemaInfoList = h.resolver[p].fSchemaInfoList
         /\ c.resolver[p].fCachedSchemaInfoList = h.resolver[p].fCachedSchemaInfoList
         /\ Works(c, put, p) /\ Ready(put, p) /\ MadeBy(put, p) = {}
         /\ put.pool.fGrammarRegistry = c.pool.fGrammarRegistry
         /\ put.resolver[p].fGrammarBucket = gs
         /\ put.resolver[p].fCachedSchemaInfoList =
              c.resolver[p].fCachedSchemaInfoList \cup IF toCache THEN new ELSE {}
         /\ put.resolver[p].fXSModel = Null
         /\ ~put.resolver[p].fCacheGrammar /\ put.resolver[p].fUseCachedGrammar = toCache
         /\ NamespacesOf(gs) = new
<1>1. Sound(h) /\ gs \in SUBSET Grammar /\ NamespacesOf(gs) = new
  BY NewGrammarsAre DEF HeapInvariant
<1>2. /\ Sound(h) /\ p \in Parser /\ cache \in BOOLEAN /\ toCache \in BOOLEAN
      /\ psvi \in BOOLEAN /\ c = Configured(h, p, cache, toCache, psvi)
      /\ MayStart(p, toCache) /\ (cache => toCache /\ ~h.pool.fLocked)
  BY <1>1
<1>3. /\ Works(h, c, p) /\ c.pool = h.pool /\ MadeBy(c, p) = {}
      /\ Bare(c.resolver[p]) /\ c.resolver[p].fCacheGrammar = cache
      /\ c.resolver[p].fUseCachedGrammar = toCache
      /\ c.resolver[p].fSchemaInfoList = h.resolver[p].fSchemaInfoList
      /\ c.resolver[p].fCachedSchemaInfoList = h.resolver[p].fCachedSchemaInfoList
  BY ONLY <1>2, ConfiguredWorks
<1>4. Ready(c, p)
  BY ONLY <1>2, h = Heap, Unguarded = {}, ConfiguredReady
<1>5. /\ Sound(c) /\ p \in Parser /\ Ready(c, p) /\ gs \in SUBSET Grammar /\ toCache \in BOOLEAN
      /\ (c.resolver[p].fCacheGrammar => Accepted(c, gs) = gs)
      /\ new = NamespacesOf(gs) /\ put = Listed(Put(c, p, gs), p, new, toCache)
  BY <1>1, <1>3, <1>4 DEF Works
<1>6. /\ Works(c, put, p) /\ Ready(put, p) /\ MadeBy(put, p) = MadeBy(c, p)
      /\ put.pool.fGrammarRegistry =
           c.pool.fGrammarRegistry \cup IF c.resolver[p].fCacheGrammar THEN gs ELSE {}
      /\ put.resolver[p].fGrammarBucket =
           c.resolver[p].fGrammarBucket \cup IF c.resolver[p].fCacheGrammar THEN {} ELSE gs
      /\ put.resolver[p].fCachedSchemaInfoList =
           c.resolver[p].fCachedSchemaInfoList \cup IF toCache THEN new ELSE {}
      /\ put.resolver[p].fXSModel = c.resolver[p].fXSModel
      /\ put.resolver[p].fCacheGrammar = c.resolver[p].fCacheGrammar
      /\ put.resolver[p].fUseCachedGrammar = c.resolver[p].fUseCachedGrammar
  BY ONLY <1>5, PutListed
<1> QED
  BY <1>1, <1>3, <1>6 DEF Bare

LEMMA LoadSchemaKeeps ==
  ASSUME ModelsInvariant, Unguarded = {}, NEW p \in Parser, NEW ns \in Namespaces,
         NEW toCache \in BOOLEAN, NEW psvi \in BOOLEAN, LoadSchema(p, ns, toCache, psvi)
  PROVE  ModelsInvariant'
<1> DEFINE h == Heap
           c == Configured(h, p, FALSE, toCache, psvi)
           known == IF toCache THEN NamespacesOf(h.pool.fGrammarRegistry) ELSE {}
           list == c.resolver[p].fCachedSchemaInfoList
                   \cup IF toCache THEN {} ELSE c.resolver[p].fSchemaInfoList
<1>1. /\ HeapInvariant(h) /\ ~unread /\ MayStart(p, toCache)
      /\ toCache => ~h.pool.fLocked
      /\ ~toCache => h.resolver[p].fSchemaInfoList \cup h.resolver[p].fCachedSchemaInfoList = {}
  BY HeapIs DEF ModelsInvariant, LoadSchema, MayLoad
<1>2. PICK imports \in SUBSET (Namespaces \ ({ns} \cup known)) :
        LET new == {ns} \cup (imports \ list)
        IN  \E gs \in NewGrammars(c, new) :
              LET put == Listed(Put(c, p, gs), p, new, toCache)
                  loaded == Update(IF toCache THEN HandOver(put, p) ELSE put, p)
              IN  Becomes(End(loaded, p)) /\ unread' = (unread \/ imports \cap list # {})
  BY HeapIs DEF LoadSchema
<1> DEFINE new == {ns} \cup (imports \ list)
<1>3. PICK gs \in NewGrammars(c, new) :
        /\ Becomes(End(Update(IF toCache THEN HandOver(Listed(Put(c, p, gs), p, new, toCache), p)
                              ELSE Listed(Put(c, p, gs), p, new, toCache), p), p))
        /\ unread' = (unread \/ imports \cap list # {})
  BY <1>2
<1> DEFINE put == Listed(Put(c, p, gs), p, new, toCache)
           given == IF toCache THEN HandOver(put, p) ELSE put
           loaded == Update(given, p)
           g == End(loaded, p)
<1>4. Becomes(g)
  BY <1>3
<1>5. /\ ~h.resolver[p].parsing
      /\ \A q \in Parser \ {p} : h.pool.fLocked \/ ~h.resolver[q].parsing
  BY <1>1, MayStartAlone
<1>6. Sound(h) /\ PoolReady(h) /\ ListTrue(h, p)
  BY <1>1 DEF HeapInvariant
<1>7. /\ Works(h, c, p) /\ c.pool = h.pool /\ MadeBy(c, p) = {}
      /\ c.resolver[p].fSchemaInfoList = h.resolver[p].fSchemaInfoList
      /\ c.resolver[p].fCachedSchemaInfoList = h.resolver[p].fCachedSchemaInfoList
      /\ Works(c, put, p) /\ Ready(put, p) /\ MadeBy(put, p) = {}
      /\ put.pool.fGrammarRegistry = c.pool.fGrammarRegistry
      /\ put.resolver[p].fGrammarBucket = gs
      /\ put.resolver[p].fCachedSchemaInfoList =
           c.resolver[p].fCachedSchemaInfoList \cup IF toCache THEN new ELSE {}
      /\ put.resolver[p].fXSModel = Null
      /\ ~put.resolver[p].fCacheGrammar /\ put.resolver[p].fUseCachedGrammar = toCache
      /\ NamespacesOf(gs) = new
  <2>1. h = Heap /\ gs \in NewGrammars(c, new) /\ HeapInvariant(h) /\ MayStart(p, toCache)
    BY <1>1, <1>3
  <2> DEFINE cache == FALSE
  <2>2. /\ c = Configured(h, p, cache, toCache, psvi) /\ put = Listed(Put(c, p, gs), p, new, toCache)
        /\ cache \in BOOLEAN /\ ~cache
    OBVIOUS
  <2> HIDE DEF h, c, new, put, cache
  <2> QED
    BY ONLY <2>1, <2>2, p \in Parser, toCache \in BOOLEAN, psvi \in BOOLEAN, Unguarded = {}, LoadIs
<1>8. ~unread'
  <2>1. imports \cap list = {}
    BY <1>1, <1>6, <1>7 DEF ListTrue
  <2> QED
    BY <1>1, <1>3, <2>1
<1> HIDE DEF h, c, put, new, list, known
<1>9. /\ Works(h, given, p) /\ Ready(given, p) /\ MadeBy(given, p) = {}
      /\ Registers(h, given) /\ ListTrue(given, p)
  <2>1. CASE toCache
    <3>1. given = HandOver(put, p) /\ Sound(put) /\ ~put.pool.fLocked
      BY <1>1, <1>7, <2>1 DEF Works
    <3> HIDE DEF given
    <3>2. /\ Works(put, given, p) /\ Ready(given, p) /\ MadeBy(given, p) = MadeBy(put, p)
          /\ Settings(put.resolver[p], given.resolver[p])
          /\ NamespacesOf(put.pool.fGrammarRegistry) \cup NamespacesOf(put.resolver[p].fGrammarBucket)
               \subseteq NamespacesOf(given.pool.fGrammarRegistry)
      BY <1>7, <2>1, <3>1, HandOverReady
    <3>3. Works(h, given, p)
      BY <1>7, <3>2, WorksOn
    <3>4. Registers(h, given)
      BY <1>7, <3>2 DEF Registers
    <3>5. ListTrue(given, p)
      BY <1>6, <1>7, <2>1, <3>2 DEF ListTrue, Settings
    <3> QED
      BY <1>7, <3>2, <3>3, <3>4, <3>5
  <2>2. CASE ~toCache
    <3>1. given = put
      BY <2>2
    <3> HIDE DEF given
    <3> QED
      BY <1>6, <1>7, <2>2, <3>1, WorksOn DEF Registers, ListTrue
  <2> QED
    BY <2>1, <2>2
<1> HIDE DEF given
<1>10. Works(h, loaded, p) /\ Registers(h, loaded) /\ ListTrue(loaded, p)
  <2>1. CASE given.resolver[p].psvi
    <3>1. loaded = GetXSModel(given, p) /\ HasRoom(given, p) /\ Sound(given) /\ PoolReady(given)
      BY <1>6, <1>9, <2>1, RoomAgain DEF Update, Works, PoolReady
    <3> HIDE DEF loaded
    <3>2. /\ Works(given, loaded, p) /\ Same(given.resolver[p], loaded.resolver[p])
          /\ loaded.pool.fGrammarRegistry = given.pool.fGrammarRegistry
      BY <1>9, <3>1, GetReady
    <3> QED
      BY <1>9, <3>2, WorksOn DEF Registers, ListTrue, Same, Settings
  <2>2. CASE ~given.resolver[p].psvi
    <3>1. loaded = given
      BY <2>2 DEF Update
    <3> QED
      BY <1>9, <3>1
  <2> QED
    BY <2>1, <2>2
<1> HIDE DEF loaded
<1>11. HeapInvariant(g)
  BY <1>1, <1>5, <1>10, EndKeeps DEF h
<1> HIDE DEF g
<1> QED
  BY <1>4, <1>8, <1>11, Kept

LEMMA LoadFailsKeeps ==
  ASSUME ModelsInvariant, Unguarded = {}, NEW p \in Parser, NEW ns \in Namespaces,
         NEW toCache \in BOOLEAN, LoadFails(p, ns, toCache)
  PROVE  ModelsInvariant'
<1> DEFINE h == Heap
           c == Configured(h, p, FALSE, toCache, FALSE)
           new == {ns}
<1>1. HeapInvariant(h) /\ ~unread' /\ MayStart(p, toCache) /\ ~toCache
  BY DEF ModelsInvariant, LoadFails, MayLoad
<1>2. PICK gs \in NewGrammars(c, new) : Becomes(End(Listed(Put(c, p, gs), p, new, toCache), p))
  BY DEF LoadFails
<1> DEFINE put == Listed(Put(c, p, gs), p, new, toCache)
           g == End(put, p)
<1>3. Becomes(g)
  BY <1>2
<1>4. \A q \in Parser \ {p} : h.pool.fLocked \/ ~h.resolver[q].parsing
  BY <1>1, MayStartAlone
<1>5. /\ Works(h, c, p) /\ c.pool = h.pool /\ Works(c, put, p)
      /\ c.resolver[p].fCachedSchemaInfoList = h.resolver[p].fCachedSchemaInfoList
      /\ put.pool.fGrammarRegistry = c.pool.fGrammarRegistry
      /\ put.resolver[p].fCachedSchemaInfoList =
           c.resolver[p].fCachedSchemaInfoList \cup IF toCache THEN new ELSE {}
  <2> DEFINE psvi == FALSE
             cache == FALSE
  <2>1. h = Heap /\ gs \in NewGrammars(c, new) /\ HeapInvariant(h) /\ MayStart(p, toCache)
    BY <1>1, <1>2
  <2>2. /\ c = Configured(h, p, cache, toCache, psvi) /\ put = Listed(Put(c, p, gs), p, new, toCache)
        /\ psvi \in BOOLEAN /\ cache \in BOOLEAN /\ ~cache
    OBVIOUS
  <2> HIDE DEF h, c, new, put, psvi, cache
  <2> QED
    BY ONLY <2>1, <2>2, p \in Parser, toCache \in BOOLEAN, Unguarded = {}, LoadIs
<1> HIDE DEF h, c, put, new
<1>6. ListTrue(h, p)
  BY <1>1 DEF HeapInvariant
<1>7. Works(h, put, p) /\ Registers(h, put) /\ ListTrue(put, p)
  BY <1>1, <1>5, <1>6, WorksOn DEF Registers, ListTrue
<1>8. HeapInvariant(g)
  BY <1>1, <1>4, <1>7, EndKeeps
<1> HIDE DEF g
<1> QED
  BY <1>1, <1>3, <1>8, Kept

\* A parser may be deleted while another one is parsing.
LEMMA DeleteParserKeeps ==
  ASSUME ModelsInvariant, Unguarded = {}, NEW p \in Parser, DeleteParser(p)
  PROVE  ModelsInvariant'
<1> DEFINE h == Heap
           e == Unmodelled(h, p, {})
           g == With(e, p, NewParser)
<1>1. HeapInvariant(h) /\ ~unread' /\ Becomes(g) /\ ~h.resolver[p].parsing
  BY HeapIs DEF ModelsInvariant, DeleteParser, OwnsPool, Reset, Idle
<1> HIDE DEF h
<1>2. Sound(h)
  BY <1>1 DEF HeapInvariant
<1>3. /\ Works(h, e, p) /\ e.pool = h.pool /\ MadeBy(e, p) = {} /\ ~On(e, p)
      /\ \E y \in Pointers : e.resolver[p] = Own(Repointed(h.resolver[p], Null, y), {})
      /\ \A q \in Parser \ {p} : Unmoved(h, e, q)
  BY <1>2, UnmodelledWorks
<1>4. e.resolver[p].fXSModel = Null
  <2>1. h.resolver[p] \in Resolvers
    BY <1>2 DEF Sound, Heaps
  <2> HIDE DEF e
  <2>2. PICK y \in Pointers : e.resolver[p] = Own(Repointed(h.resolver[p], Null, y), {})
    BY <1>3
  <2> QED
    BY <2>1, <2>2 DEF Own, Repointed, Resolvers
<1> HIDE DEF e
<1>5. Sound(e) /\ e \in Heaps /\ e.pool \in Pools
  BY <1>3 DEF Works, Sound, Heaps
<1>6. /\ NewParser \in Resolvers /\ NewParser.fXSModel = Null /\ NewParser.fGrammarBucket = {}
      /\ NewParser.fGrammarsToAddToXSModel = {} /\ NewParser.fGrammarPoolXSModel = Null
      /\ NewParser.fCachedSchemaInfoList = {} /\ ~NewParser.parsing /\ Resting(NewParser)
  BY DEF NewParser, Resolvers, Resting, Pointers
<1>7. Changed(e, g, p, e.pool, NewParser)
  BY <1>5, <1>6, WithIs
<1>8. Works(e, g, p) /\ On(g, p) = On(e, p)
  <2>1. Modelled(e, p) = {}
    BY <1>3 DEF Modelled
  <2> HIDE DEF g
  <2>2. /\ NewParser.fXSModel = e.resolver[p].fXSModel
        /\ NewParser.fGrammarPoolXSModel \in {Null, Freed, e.pool.fXSModel}
        /\ NewParser.fGrammarBucket = Modelled(e, p) \cup NewParser.fGrammarsToAddToXSModel
    BY <1>4, <1>6, <2>1
  <2> QED
    BY <1>5, <1>6, <1>7, <2>2, ParserChange
<1> HIDE DEF g
<1>9. /\ Works(h, g, p) /\ g.pool = h.pool /\ ~On(g, p) /\ g.resolver[p] = NewParser
      /\ \A q \in Parser \ {p} : Unmoved(h, g, q)
  BY <1>3, <1>7, <1>8, WorksOn DEF Changed, Unmoved, Works, Others
<1>10. Registers(h, g)
  BY <1>9 DEF Registers
<1>11. \A q \in Parser \ {p} : Resting(g.resolver[q]) /\ Parsing(g, q) /\ ListTrue(g, q)
  BY <1>1, <1>9, <1>10, OthersKeep
<1>12. Resting(g.resolver[p]) /\ Parsing(g, p) /\ ListTrue(g, p)
  BY <1>6, <1>9 DEF Parsing, ListTrue
<1>13. PoolReady(g) /\ OneAtATime(g) /\ Sound(g)
  BY <1>1, <1>6, <1>9 DEF HeapInvariant, PoolReady, OneAtATime, Works, Others, Alike
<1>14. HeapInvariant(g)
  BY <1>11, <1>12, <1>13 DEF HeapInvariant
<1> QED
  BY <1>1, <1>14, Kept
-----------------------------------------------------------------------------
(* Steps of the pool *)

\* While nothing is parsed, only the models and the lists count.
LEMMA IdleKeeps ==
  ASSUME NEW h, HeapInvariant(h), \A q \in Parser : ~h.resolver[q].parsing,
         NEW g, Sound(g), PoolReady(g),
         \A q \in Parser : /\ g.resolver[q].parsing = h.resolver[q].parsing
                           /\ Resting(g.resolver[q]) /\ ListTrue(g, q)
  PROVE  HeapInvariant(g)
BY DEF HeapInvariant, OneAtATime, Parsing

\* The registry and the lock change, under the same model.
LEMMA PoolChange ==
  ASSUME NEW h, Sound(h), NEW pl \in Pools, pl.fXSModel = h.pool.fXSModel,
         pl.fXSModelIsValid =>
           h.pool.fXSModelIsValid /\ pl.fGrammarRegistry = h.pool.fGrammarRegistry,
         NEW g, g = [h EXCEPT !.pool = pl]
  PROVE  Sound(g) /\ g.pool = pl /\ g.resolver = h.resolver
         /\ (NoneOn(h) => NoneOn(g))
<1>1. /\ g \in Heaps /\ g.models = h.models /\ g.pool = pl /\ g.resolver = h.resolver
      /\ g.misread = h.misread
  BY DEF Sound, Heaps
<1>2. \A q : MadeBy(g, q) = MadeBy(h, q) /\ On(g, q) = On(h, q)
  BY <1>1 DEF MadeBy, On
<1>3. PoolSound(g) /\ Acyclic(g.models)
  BY <1>1, <1>2 DEF Sound, PoolSound
<1>4. ASSUME NEW q \in Parser PROVE ParserSound(g, q)
  <2>1. ParserSound(h, q) /\ Modelled(g, q) = Modelled(h, q)
    BY <1>1, <1>2 DEF Sound, Modelled
  <2> QED
    BY ONLY <1>1, <1>2, <2>1, pl.fXSModel = h.pool.fXSModel DEF ParserSound
<1> QED
  BY <1>1, <1>2, <1>3, <1>4 DEF Sound, NoneOn

\* The pool deletes or makes its model, and its registry or its lock changes.
LEMMA PoolKeeps ==
  ASSUME NEW h, HeapInvariant(h), \A q \in Parser : ~h.resolver[q].parsing,
         NEW w, Sound(w), \A q \in Parser : Alike(h.resolver[q], w.resolver[q]),
         NEW pl \in Pools, pl.fXSModel = w.pool.fXSModel,
         pl.fXSModelIsValid =>
           w.pool.fXSModelIsValid /\ pl.fGrammarRegistry = w.pool.fGrammarRegistry,
         pl.fLocked => pl.fXSModelIsValid,
         \A q \in Parser :
           h.resolver[q].fCachedSchemaInfoList \subseteq NamespacesOf(pl.fGrammarRegistry),
         NEW g, g = [w EXCEPT !.pool = pl]
  PROVE  HeapInvariant(g)
<1>1. Sound(g) /\ g.pool = pl /\ g.resolver = w.resolver
  BY PoolChange
<1>2. PoolReady(g)
  BY <1>1 DEF PoolReady
<1>3. ASSUME NEW q \in Parser
      PROVE  /\ g.resolver[q].parsing = h.resolver[q].parsing
             /\ Resting(g.resolver[q]) /\ ListTrue(g, q)
  BY <1>1 DEF HeapInvariant, Resting, ListTrue, Alike
<1> QED
  BY <1>1, <1>2, <1>3, IdleKeeps

\* With a guarded application no model is on the pool's while it is replaced.
LEMMA ReplaceableIs ==
  ASSUME Unguarded = {}, Replaceable(Parser)
  PROVE  NoneOn(Heap)
BY HeapIs DEF Replaceable, NoneOn, On

LEMMA IdleIs ==
  ASSUME AllIdle
  PROVE  \A q \in Parser : ~Heap.resolver[q].parsing
BY HeapIs DEF AllIdle, Idle

LEMMA ClearedIs ==
  ASSUME NEW h, Sound(h), NoneOn(h), NEW v, v = Cleared(h)
  PROVE  /\ \E w, pl : /\ Sound(w) /\ \A q \in Parser : Alike(h.resolver[q], w.resolver[q])
                       /\ pl \in Pools /\ pl.fXSModel = w.pool.fXSModel
                       /\ ~pl.fXSModelIsValid /\ pl.fLocked = h.pool.fLocked
                       /\ pl.fGrammarRegistry = {} /\ v = [w EXCEPT !.pool = pl]
         /\ Sound(v) /\ \A q \in Parser : Alike(h.resolver[q], v.resolver[q])
         /\ v.pool.fLocked = h.pool.fLocked
<1> DEFINE w == WithoutXSModel(h)
           pl == [w.pool EXCEPT !.fGrammarRegistry = {}]
<1>1. Sound(w) /\ Apart(h, w) /\ w.pool = Outdated(h.pool)
  BY WithoutWorks
<1>2. v = [w EXCEPT !.pool = pl]
  BY DEF Cleared
<1> HIDE DEF w
<1>3. h.pool \in Pools
  BY DEF Sound, Heaps
<1>4. /\ pl \in Pools /\ pl.fXSModel = w.pool.fXSModel /\ pl.fGrammarRegistry = {}
      /\ ~pl.fXSModelIsValid /\ pl.fLocked = h.pool.fLocked
  BY <1>1, <1>3 DEF Outdated, Pools, Pointers
<1> HIDE DEF pl
<1>5. \A q \in Parser : Alike(h.resolver[q], w.resolver[q])
  BY <1>1 DEF Apart
<1>6. Sound(v) /\ v.pool = pl /\ v.resolver = w.resolver
  BY <1>1, <1>2, <1>4, PoolChange
<1> QED
  BY <1>1, <1>2, <1>4, <1>5, <1>6

LEMMA ClearKeeps ==
  ASSUME ModelsInvariant, Unguarded = {}, Clear
  PROVE  ModelsInvariant'
<1> DEFINE h == Heap
           v == Cleared(h)
<1>1. HeapInvariant(h) /\ ~unread' /\ Becomes(v) /\ ~h.pool.fLocked
  BY HeapIs DEF ModelsInvariant, Clear
<1>2. NoneOn(h) /\ \A q \in Parser : ~h.resolver[q].parsing
  BY ReplaceableIs, IdleIs DEF Clear
<1>3. \A q \in Parser : h.resolver[q].fCachedSchemaInfoList = {}
  <2>1. \A q \in Parser : resolver[q].fCachedSchemaInfoList \cap Namespaces = {}
    BY DEF Clear, Unlisted
  <2>2. \A q \in Parser : h.resolver[q].fCachedSchemaInfoList \subseteq Namespaces
    BY <1>1 DEF HeapInvariant, Sound, Heaps, Resolvers
  <2> QED
    BY <2>1, <2>2, HeapIs
<1>4. Sound(h)
  BY <1>1 DEF HeapInvariant
<1> HIDE DEF h, v
<1>5. PICK w, pl : /\ Sound(w) /\ \A q \in Parser : Alike(h.resolver[q], w.resolver[q])
                   /\ pl \in Pools /\ pl.fXSModel = w.pool.fXSModel
                   /\ ~pl.fXSModelIsValid /\ pl.fLocked = h.pool.fLocked
                   /\ pl.fGrammarRegistry = {} /\ v = [w EXCEPT !.pool = pl]
  BY <1>2, <1>4, ClearedIs DEF v
<1>6. HeapInvariant(v)
  BY <1>1, <1>2, <1>3, <1>5, PoolKeeps
<1> QED
  BY <1>1, <1>6, Kept

LEMMA OrphanGrammarKeeps ==
  ASSUME ModelsInvariant, Unguarded = {}, NEW g, OrphanGrammar(g)
  PROVE  ModelsInvariant'
<1> DEFINE h == Heap
           pl == [h.pool EXCEPT !.fGrammarRegistry = @ \ {g}, !.fXSModelIsValid = FALSE]
           v == [h EXCEPT !.pool = pl]
<1>1. HeapInvariant(h) /\ ~unread' /\ ~h.pool.fLocked /\ g \in h.pool.fGrammarRegistry
  BY HeapIs DEF ModelsInvariant, OrphanGrammar
<1>2. Becomes(v)
  BY HeapIs DEF OrphanGrammar, Becomes, Heap
<1>3. \A q \in Parser : ~h.resolver[q].parsing
  BY IdleIs DEF OrphanGrammar
<1>4. \A q \in Parser : NamespaceOf[g] \notin h.resolver[q].fCachedSchemaInfoList
  BY HeapIs DEF OrphanGrammar, Unlisted
<1> HIDE DEF h
<1>5. Sound(h) /\ h.pool \in Pools
  BY <1>1 DEF HeapInvariant, Sound, Heaps
<1>6. /\ pl \in Pools /\ pl.fXSModel = h.pool.fXSModel /\ ~pl.fXSModelIsValid /\ ~pl.fLocked
      /\ pl.fGrammarRegistry = h.pool.fGrammarRegistry \ {g}
  BY <1>1, <1>5 DEF Pools
<1> HIDE DEF pl
<1>7. \A q \in Parser :
        h.resolver[q].fCachedSchemaInfoList \subseteq NamespacesOf(pl.fGrammarRegistry)
  BY <1>1, <1>4, <1>6 DEF HeapInvariant, ListTrue, NamespacesOf
<1>8. \A q \in Parser : Alike(h.resolver[q], h.resolver[q])
  BY DEF Alike
<1>9. v = [h EXCEPT !.pool = pl]
  OBVIOUS
<1> HIDE DEF v
<1>10. HeapInvariant(v)
  BY <1>1, <1>3, <1>5, <1>6, <1>7, <1>8, <1>9, PoolKeeps
<1> QED
  BY <1>1, <1>2, <1>10, Kept

LEMMA UnlockPoolKeeps ==
  ASSUME ModelsInvariant, Unguarded = {}, UnlockPool
  PROVE  ModelsInvariant'
<1> DEFINE h == Heap
           w == WithoutXSModel(h)
           pl == [w.pool EXCEPT !.fLocked = FALSE]
           v == [w EXCEPT !.pool = pl]
<1>1. HeapInvariant(h) /\ ~unread' /\ Becomes(v)
  BY DEF ModelsInvariant, UnlockPool
<1>2. NoneOn(h) /\ \A q \in Parser : ~h.resolver[q].parsing
  BY ReplaceableIs, IdleIs DEF UnlockPool
<1>3. Sound(h) /\ h.pool \in Pools
  BY <1>1 DEF HeapInvariant, Sound, Heaps
<1>4. Sound(w) /\ Apart(h, w) /\ w.pool = Outdated(h.pool)
  BY <1>2, <1>3, WithoutWorks
<1> HIDE DEF h, w
<1>5. /\ pl \in Pools /\ pl.fXSModel = w.pool.fXSModel /\ ~pl.fXSModelIsValid /\ ~pl.fLocked
      /\ pl.fGrammarRegistry = h.pool.fGrammarRegistry
  BY <1>3, <1>4 DEF Outdated, Pools, Pointers
<1>6. v = [w EXCEPT !.pool = pl]
  OBVIOUS
<1> HIDE DEF pl, v
<1>7. /\ \A q \in Parser : Alike(h.resolver[q], w.resolver[q])
      /\ \A q \in Parser :
           h.resolver[q].fCachedSchemaInfoList \subseteq NamespacesOf(pl.fGrammarRegistry)
  BY <1>1, <1>4, <1>5 DEF Apart, HeapInvariant, ListTrue
<1>8. HeapInvariant(v)
  BY <1>1, <1>2, <1>4, <1>5, <1>6, <1>7, PoolKeeps
<1> QED
  BY <1>1, <1>8, Kept

LEMMA LockPoolKeeps ==
  ASSUME ModelsInvariant, Unguarded = {}, LockPool
  PROVE  ModelsInvariant'
<1> DEFINE h == Heap
           pl == [h.pool EXCEPT !.fLocked = TRUE]
           k == [h EXCEPT !.pool = pl]
           g == IF h.pool.fXSModelIsValid THEN k ELSE CreateXSModel(k)
<1>1. HeapInvariant(h) /\ ~unread' /\ Becomes(g)
  BY HeapIs DEF ModelsInvariant, LockPool
<1>2. /\ \A q \in Parser : ~h.resolver[q].parsing
      /\ h.pool.fXSModelIsValid \/ NoneOn(h)
  BY ReplaceableIs, IdleIs, HeapIs DEF LockPool
<1> HIDE DEF h
<1>3. Sound(h) /\ h.pool \in Pools
  BY <1>1 DEF HeapInvariant, Sound, Heaps
<1>4. /\ pl \in Pools /\ pl.fXSModel = h.pool.fXSModel
      /\ pl.fXSModelIsValid = h.pool.fXSModelIsValid
      /\ pl.fGrammarRegistry = h.pool.fGrammarRegistry
  BY <1>3 DEF Pools
<1>5. k = [h EXCEPT !.pool = pl]
  OBVIOUS
<1> HIDE DEF pl, k
<1>6. /\ \A q \in Parser : Alike(h.resolver[q], h.resolver[q])
      /\ \A q \in Parser :
           h.resolver[q].fCachedSchemaInfoList \subseteq NamespacesOf(pl.fGrammarRegistry)
  BY <1>1, <1>4 DEF Alike, HeapInvariant, ListTrue
<1>7. CASE h.pool.fXSModelIsValid
  <2>1. HeapInvariant(k)
    BY <1>1, <1>2, <1>3, <1>4, <1>5, <1>6, <1>7, PoolKeeps
  <2>2. g = k
    BY <1>7
  <2> HIDE DEF g
  <2> QED
    BY <1>1, <2>1, <2>2, Kept
<1>8. CASE ~h.pool.fXSModelIsValid
  <2>1. /\ Sound(k) /\ k.pool = pl /\ k.resolver = h.resolver /\ NoneOn(k)
    BY <1>2, <1>3, <1>4, <1>5, <1>8, PoolChange
  <2>2. g = CreateXSModel(k)
    BY <1>8
  <2> HIDE DEF g
  <2>3. /\ Sound(g) /\ Apart(k, g) /\ \E m \in Model : g.pool = Current(k.pool, m)
    BY <2>1, <2>2, CreateWorks
  <2>4. g.pool.fXSModelIsValid /\ g.pool.fGrammarRegistry = pl.fGrammarRegistry
    BY <1>4, <2>1, <2>3 DEF Current, Pools
  <2>5. ASSUME NEW q \in Parser
        PROVE  /\ g.resolver[q].parsing = h.resolver[q].parsing
               /\ Resting(g.resolver[q]) /\ ListTrue(g, q)
    <3>1. Alike(h.resolver[q], g.resolver[q])
      BY <2>1, <2>3 DEF Apart
    <3>2. Resting(h.resolver[q])
      BY <1>1 DEF HeapInvariant
    <3> QED
      BY <1>6, <2>4, <3>1, <3>2 DEF Alike, Resting, ListTrue
  <2>6. PoolReady(g)
    BY <2>4 DEF PoolReady
  <2>7. HeapInvariant(g)
    BY <1>1, <1>2, <2>3, <2>5, <2>6, IdleKeeps
  <2> QED
    BY <1>1, <2>7, Kept
<1> QED
  BY <1>7, <1>8

LEMMA ResetCachedGrammarKeeps ==
  ASSUME ModelsInvariant, Unguarded = {}, NEW p \in Parser, ResetCachedGrammar(p)
  PROVE  ModelsInvariant'
<1> DEFINE h == Heap
           v == IF h.pool.fLocked THEN h ELSE Cleared(h)
           r == v.resolver[p]
           s == [r EXCEPT !.fCachedSchemaInfoList = {}]
           g == With(v, p, s)
<1>1. HeapInvariant(h) /\ ~unread' /\ Becomes(g)
  BY HeapIs DEF ModelsInvariant, ResetCachedGrammar, WithoutList
<1>2. NoneOn(h) /\ \A q \in Parser : ~h.resolver[q].parsing
  BY ReplaceableIs, IdleIs DEF ResetCachedGrammar
<1>3. \A q \in Parser \ {p} : h.resolver[q].fCachedSchemaInfoList = {}
  <2>1. \A q \in Parser \ {p} : resolver[q].fCachedSchemaInfoList \cap Namespaces = {}
    BY DEF ResetCachedGrammar, Unlisted
  <2>2. \A q \in Parser : h.resolver[q].fCachedSchemaInfoList \subseteq Namespaces
    BY <1>1 DEF HeapInvariant, Sound, Heaps, Resolvers
  <2> QED
    BY <2>1, <2>2, HeapIs
<1> HIDE DEF h
<1>4. Sound(h) /\ PoolReady(h)
  BY <1>1 DEF HeapInvariant
<1>5. /\ Sound(v) /\ PoolReady(v) /\ \A q \in Parser : Alike(h.resolver[q], v.resolver[q])
  <2>1. CASE h.pool.fLocked
    BY <1>4, <2>1 DEF Alike
  <2>2. CASE ~h.pool.fLocked
    <3>1. v = Cleared(h)
      BY <2>2
    <3> HIDE DEF v
    <3> QED
      BY <1>2, <1>4, <2>2, <3>1, ClearedIs DEF PoolReady
  <2> QED
    BY <2>1, <2>2
<1> HIDE DEF v
<1>6. r \in Resolvers
  BY <1>5 DEF Sound, Heaps
<1> HIDE DEF r
<1>7. /\ s \in Resolvers /\ Set(r, s) /\ s.parsing = r.parsing /\ s.fCachedSchemaInfoList = {}
      /\ (Resting(r) => Resting(s))
  BY <1>6 DEF Resolvers, Set, Resting
<1> HIDE DEF s
<1>8. Works(v, g, p) /\ g.pool = v.pool /\ g.resolver[p] = s
  BY <1>5, <1>7, SettingWorks DEF r
<1> HIDE DEF g
<1>9. Sound(g) /\ PoolReady(g)
  BY <1>5, <1>8 DEF Works, PoolReady
<1>10. ASSUME NEW q \in Parser
       PROVE  /\ g.resolver[q].parsing = h.resolver[q].parsing
              /\ Resting(g.resolver[q]) /\ ListTrue(g, q)
  <2>1. Alike(h.resolver[q], v.resolver[q]) /\ Resting(h.resolver[q])
    BY <1>1, <1>5 DEF HeapInvariant
  <2>2. CASE q = p
    <3>1. Resting(r) /\ r.parsing = h.resolver[q].parsing
      BY <2>1, <2>2 DEF r, Alike, Resting
    <3> QED
      BY <1>7, <1>8, <2>2, <3>1 DEF ListTrue
  <2>3. CASE q # p
    <3>1. Alike(v.resolver[q], g.resolver[q])
      BY <1>8, <2>3 DEF Works, Others
    <3> QED
      BY <1>3, <2>1, <2>3, <3>1 DEF Alike, Resting, ListTrue
  <2> QED
    BY <2>2, <2>3
<1>11. HeapInvariant(g)
  BY <1>1, <1>2, <1>9, <1>10, IdleKeeps
<1> QED
  BY <1>1, <1>11, Kept
-----------------------------------------------------------------------------
(* The specification *)

LEMMA InitHolds ==
  Init => ModelsInvariant
<1> SUFFICES ASSUME Init PROVE ModelsInvariant
  OBVIOUS
<1> DEFINE h == Heap
<1>1. /\ h.models = [m \in Model |-> Gone] /\ h.pool = NewPool
      /\ h.resolver = [q \in Parser |-> NewParser] /\ ~h.misread /\ ~unread
      /\ h = [models |-> h.models, pool |-> h.pool, resolver |-> h.resolver, misread |-> h.misread]
      /\ h.misread \in BOOLEAN
  BY DEF Init, Heap
<1> HIDE DEF h
<1>2. Null \notin Model /\ Gone \in ModelRecords /\ NewPool \in Pools /\ NewParser \in Resolvers
  BY DEF Null, Model, Gone, ModelRecords, Pointers, NewPool, Pools, NewParser, Resolvers
<1>3. h \in Heaps
  BY <1>1, <1>2 DEF Heaps
<1>4. Acyclic(h.models)
  BY <1>1, <1>2 DEF Acyclic, Gone
<1>5. \A q : MadeBy(h, q) = {}
  BY <1>1 DEF MadeBy, Gone
<1>6. \A m : m \notin Model => Chain(h.models, m) = {}
  BY ChainOfNone
<1>7. PoolSound(h)
  BY <1>1, <1>5 DEF PoolSound, NewPool
<1>8. ASSUME NEW q \in Parser
      PROVE  ParserSound(h, q) /\ Resting(NewParser) /\ Parsing(h, q) /\ ListTrue(h, q)
  <2>1. h.resolver[q] = NewParser /\ Modelled(h, q) = {}
    BY <1>1, <1>5 DEF Modelled
  <2>2. ParserSound(h, q)
    <3>1. /\ NewParser.fXSModel = Null /\ NewParser.fGrammarPoolXSModel = Null
          /\ NewParser.fGrammarBucket = {} /\ NewParser.fGrammarsToAddToXSModel = {}
      BY DEF NewParser
    <3> QED
      BY ONLY <1>5, <2>1, <3>1 DEF ParserSound
  <2>3. Resting(NewParser) /\ Parsing(h, q) /\ ListTrue(h, q)
    BY <2>1 DEF Resting, Parsing, ListTrue, NewParser
  <2> QED
    BY <2>2, <2>3
<1>9. Sound(h) /\ PoolReady(h) /\ OneAtATime(h)
  BY <1>1, <1>3, <1>4, <1>7, <1>8 DEF Sound, PoolReady, OneAtATime, NewPool, NewParser
<1>10. HeapInvariant(h)
  BY <1>1, <1>8, <1>9 DEF HeapInvariant
<1> QED
  BY <1>1, <1>10 DEF h, ModelsInvariant

LEMMA NextKeeps ==
  ASSUME ModelsInvariant, Unguarded = {}, [XSModelsNext]_vars
  PROVE  ModelsInvariant'
<1>1. CASE UNCHANGED vars
  <2>1. Heap' = Heap /\ unread' = unread
    BY <1>1 DEF vars, Heap
  <2> QED
    BY <2>1 DEF ModelsInvariant
<1>2. CASE PoolStep
  <2>1. CASE Clear
    BY <2>1, ClearKeeps
  <2>2. CASE LockPool
    BY <2>2, LockPoolKeeps
  <2>3. CASE UnlockPool
    BY <2>3, UnlockPoolKeeps
  <2>4. ASSUME NEW g \in Grammar, OrphanGrammar(g) PROVE ModelsInvariant'
    BY <2>4, OrphanGrammarKeeps
  <2> QED
    BY <1>2, <2>1, <2>2, <2>3, <2>4 DEF PoolStep
<1>3. ASSUME NEW p \in Parser, ParserStep(p) PROVE ModelsInvariant'
  <2>1. ASSUME NEW cache \in BOOLEAN, NEW use \in BOOLEAN, NEW psvi \in BOOLEAN,
               ScanReset(p, cache, use, psvi)
        PROVE  ModelsInvariant'
    BY ONLY <2>1, ModelsInvariant, Unguarded = {}, ScanResetKeeps
  <2>2. ASSUME NEW ns \in Namespaces, ResolveNewSchema(p, ns) PROVE ModelsInvariant'
    BY <2>2, ResolveNewSchemaKeeps
  <2>3. ASSUME NEW ns \in Namespaces, ResolveOldSchema(p, ns) PROVE ModelsInvariant'
    BY <2>3, ResolveOldSchemaKeeps
  <2>4. ASSUME NEW ns \in Namespaces, ResolveFails(p, ns) PROVE ModelsInvariant'
    BY <2>4, ResolveFailsKeeps
  <2>5. ASSUME NEW ns \in Namespaces, SwitchGrammar(p, ns) PROVE ModelsInvariant'
    BY <2>5, SwitchGrammarKeeps
  <2>6. ASSUME NEW ns \in Namespaces, NEW toCache \in BOOLEAN, LoadFails(p, ns, toCache)
        PROVE  ModelsInvariant'
    BY ONLY <2>6, p \in Parser, ModelsInvariant, Unguarded = {}, LoadFailsKeeps
  <2>7. ASSUME NEW ns \in Namespaces, NEW toCache \in BOOLEAN, NEW psvi \in BOOLEAN,
               LoadSchema(p, ns, toCache, psvi)
        PROVE  ModelsInvariant'
    BY ONLY <2>7, p \in Parser, ModelsInvariant, Unguarded = {}, LoadSchemaKeeps
  <2>8. CASE EndParse(p)
    BY <2>8, EndParseKeeps
  <2>9. CASE ResetCachedGrammar(p)
    BY <2>9, ResetCachedGrammarKeeps
  <2>10. CASE DeleteParser(p)
    BY <2>10, DeleteParserKeeps
  <2> QED
    BY <1>3, <2>1, <2>2, <2>3, <2>4, <2>5, <2>6, <2>7, <2>8, <2>9, <2>10 DEF ParserStep
<1> QED
  BY <1>1, <1>2, <1>3 DEF XSModelsNext

\* The inductive invariant: the models of every parser and of the pool are
\* sound, a parse may use what it was told, and the lists of schemas are true.
THEOREM ModelsInvariantHolds ==
  ASSUME Unguarded = {}
  PROVE  XSModelsSpec => []ModelsInvariant
<1>1. ModelsInvariant /\ [XSModelsNext]_vars => ModelsInvariant'
  BY NextKeeps
<1> QED
  BY <1>1, InitHolds, PTL DEF XSModelsSpec

\* PSVI is reported from a model of exactly the grammars the scanner may
\* validate with (GrammarResolver::getXSModel and its callers), provided the
\* application makes no unguarded use of the interface.
THEOREM ModelIsCurrentHolds ==
  ASSUME Unguarded = {}
  PROVE  XSModelsSpec => []ModelIsCurrent
<1>1. ModelsInvariant => ModelIsCurrent
  <2> SUFFICES ASSUME ModelsInvariant, NEW p \in Parser,
                      resolver[p].parsing, resolver[p].psvi, resolver[p].inSchema
               PROVE  /\ resolver[p].fModel \in Model
                      /\ UNION {models[m].grammars : m \in Chain(models, resolver[p].fModel)}
                           = Visible(resolver[p])
    BY DEF ModelIsCurrent
  <2> DEFINE h == Heap
             r == h.resolver[p]
  <2>1. HeapInvariant(h) /\ r = resolver[p] /\ h.models = models /\ h.pool = pool
    BY HeapIs DEF ModelsInvariant
  <2> HIDE DEF h
  <2>2. Sound(h) /\ Ready(h, p) /\ CurrentFor(h, p)
    BY <2>1 DEF HeapInvariant, Parsing
  <2>3. IsCaching(r) <=> r.fUseCachedGrammar
    BY <2>2 DEF Ready, IsCaching
  <2>4. /\ r.fModel \in Model
        /\ UNION {h.models[m].grammars : m \in Chain(h.models, r.fModel)}
             = r.fGrammarBucket \cup IF IsCaching(r) THEN h.pool.fGrammarRegistry ELSE {}
    BY <2>2, CurrentModel
  <2> QED
    BY <2>1, <2>3, <2>4 DEF Visible
<1> QED
  BY <1>1, ModelsInvariantHolds, PTL

\* No XSModel is read or deleted after its deletion: a parent outlives the
\* models on top of it (~XSModel, XMLGrammarPoolImpl::createXSModel).
THEOREM NoFreedModelReadHolds ==
  ASSUME Unguarded = {}
  PROVE  XSModelsSpec => []NoFreedModelRead
<1>1. ModelsInvariant => NoFreedModelRead
  BY HeapIs DEF ModelsInvariant, HeapInvariant, Sound, NoFreedModelRead
<1> QED
  BY <1>1, ModelsInvariantHolds, PTL

\* A schema document that is not read because it is listed has its grammar
\* (resolveSchemaGrammar, fSchemaInfoList, fCachedSchemaInfoList).
THEOREM ReadSchemasAreThereHolds ==
  ASSUME Unguarded = {}
  PROVE  XSModelsSpec => []ReadSchemasAreThere
<1>1. ModelsInvariant => ReadSchemasAreThere
  BY DEF ModelsInvariant, ReadSchemasAreThere
<1> QED
  BY <1>1, ModelsInvariantHolds, PTL

\* Every model has one owner that will delete it: the pool, or the parser
\* whose chain of models it is in (fDeleteParent of ~XSModel).
THEOREM EveryModelOwnedHolds ==
  ASSUME Unguarded = {}
  PROVE  XSModelsSpec => []EveryModelOwned
<1>1. ModelsInvariant => EveryModelOwned
  <2>1. SUFFICES ASSUME HeapInvariant(Heap), NEW m \in Model, Heap.models[m].live
                 PROVE  Cardinality({p \in Parser : /\ m \in Chain(Heap.models, Heap.resolver[p].fXSModel)
                                                    /\ Heap.models[m].fDeleteParent}
                                    \cup IF Heap.pool.fXSModel = m THEN {"pool"} ELSE {}) = 1
    BY HeapIs DEF ModelsInvariant, EveryModelOwned
  <2>2. Sound(Heap)
    BY <2>1 DEF HeapInvariant
  <2> QED
    BY <2>1, <2>2, OneOwner
<1> QED
  BY <1>1, ModelsInvariantHolds, PTL
=============================================================================
