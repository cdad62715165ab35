------------------------------- MODULE XSModels -------------------------------
(***************************************************************************)
(* Lifetimes of the schema component models that PSVI is reported from.    *)
(* An XMLGrammarPoolImpl has an XSModel of its registry; a GrammarResolver *)
(* that has grammars of its own builds an XSModel on top of it, whose      *)
(* parent it is; every further schema of a document puts another model on  *)
(* top.  A scanner keeps the pointer getXSModel() gave it last.  Models    *)
(* and grammars are objects that are allocated and deleted; a pointer may  *)
(* be left behind.  A scanner also lists the schema documents it has read, *)
(* not to read them again: one list for each parse, and one for as long as *)
(* their grammars are cached.                                              *)
(***************************************************************************)
EXTENDS Integers, FiniteSets

CONSTANTS Parser,       \* parsers, each with a scanner and a resolver
          Grammar,      \* schema grammar objects
          NamespaceOf,  \* their target namespaces
          MaxModels,    \* bound: models at a time made by a parser, or by the pool
          Unguarded     \* what the application does out of UnguardedUses

\* Uses of the interface nothing in the code prevents:
\*   untold - a parser uses a pool whose model was made for another parser or
\*            by lockPool()
\*   change - the pool's model is replaced or deleted (clear, unlockPool, use
\*            of the pool by another parser) under the model of a parser
\*   unset  - a document is validated by cached grammars alone, without any
\*            schemaLocation, before the scanner ever got a model
\*   relist - a parser caches grammars while the pool is locked, grammars are
\*            taken from the pool or a load for caching fails although a scanner
\*            has listed their schemas, or a schema is loaded without caching
\*            after another one
\*   owner  - a parser is deleted that made its pool itself
UnguardedUses == {"untold", "change", "unset", "relist", "owner"}

Pool == "pool"      \* the maker of the pool's models

ASSUME XSModelAssumption ==
  /\ DOMAIN NamespaceOf = Grammar
  /\ Pool \notin Parser
  /\ MaxModels \in Nat \ {0}
  /\ Unguarded \subseteq UnguardedUses

Null == <<"null", 0>>
Freed == <<"freed", 0>>     \* a pointer to a model that has been deleted
Model == (Parser \cup {Pool}) \X (1..MaxModels)   \* by their maker

VARIABLES models,    \* the XSModel objects
          pool,      \* fGrammarRegistry, fLocked, fXSModel, fXSModelIsValid
          resolver,  \* per parser: its resolver, and the scanner's fModel
          misread,   \* an XSModel has been read or deleted after its deletion
          unread     \* a schema was not read although no grammar is there for it

vars == <<models, pool, resolver, misread, unread>>

\* what getXSModel and its callers work on
Heap == [models |-> models, pool |-> pool, resolver |-> resolver, misread |-> misread]

With(h, p, r) == [h EXCEPT !.resolver[p] = r]

Becomes(h) ==
  /\ models' = h.models /\ pool' = h.pool
  /\ resolver' = h.resolver /\ misread' = h.misread

NamespacesOf(gs) == {NamespaceOf[g] : g \in gs}

-----------------------------------------------------------------------------
(* XSModel: construction and destruction *)

Gone == [live |-> FALSE, fParent |-> Null, fDeleteParent |-> FALSE, grammars |-> {}]

Fresh(h, maker) == <<maker, CHOOSE n \in 1..MaxModels : ~h.models[maker, n].live>>

Allocated(h, m, model) == [h EXCEPT !.models[m] = model]

\* XSModel(grammarPool): a model of the registry, without a parent
PoolModel(h) ==
  [live |-> TRUE, fParent |-> Null, fDeleteParent |-> FALSE, grammars |-> h.pool.fGrammarRegistry]

\* XSModel(baseModel, resolver): the parent's components are copied
ModelOn(parent, gs) ==
  [live |-> TRUE, fParent |-> parent, fDeleteParent |-> TRUE, grammars |-> gs]

Misread(h, m) == [h EXCEPT !.misread = @ \/ m = Freed]

\* a model and those below it
Chain(ms, m) ==
  LET chain[n \in Model] ==
        {n} \cup IF ms[n].fParent \in Model THEN chain[ms[n].fParent] ELSE {}
  IN  IF m \in Model THEN chain[m] ELSE {}

\* mutant: the pool's model is deleted with the model on top of it
DeletedWithPools(h, m) == Chain(h.models, m)

\* "fDeleteParent && fParent && fParent->fDeleteParent": the models of a resolver
\* go together, the pool's below them stays
Deleted(h, m) == {n \in Chain(h.models, m) : n = m \/ h.models[n].fDeleteParent}

\* a pointer, after the models in gone have been deleted
Left(q, gone) == IF q \in gone THEN Freed ELSE q

ModelsLeft(ms, gone) ==
  [n \in Model |-> IF n \in gone THEN Gone ELSE [ms[n] EXCEPT !.fParent = Left(@, gone)]]

PoolLeft(pl, gone) == [pl EXCEPT !.fXSModel = Left(@, gone)]

ResolverLeft(r, gone) ==
  [r EXCEPT !.fXSModel = Left(@, gone), !.fGrammarPoolXSModel = Left(@, gone),
            !.fModel = Left(@, gone)]

LeftBehind(h, gone) ==
  [models |-> ModelsLeft(h.models, gone), pool |-> PoolLeft(h.pool, gone),
   resolver |-> [p \in Parser |-> ResolverLeft(h.resolver[p], gone)],
   misread |-> h.misread \/ \E n \in gone : h.models[n].fParent = Freed]

Delete(h, m) == IF m \in Model THEN LeftBehind(h, Deleted(h, m)) ELSE Misread(h, m)

-----------------------------------------------------------------------------
(* XMLGrammarPoolImpl *)

Current(pl, m) == [pl EXCEPT !.fXSModel = m, !.fXSModelIsValid = TRUE]

CreateXSModel(h) ==
  LET without == Delete(h, h.pool.fXSModel)
      m == Fresh(without, Pool)
  IN  [Allocated(without, m, PoolModel(without)) EXCEPT !.pool = Current(@, m)]

Outdated(pl) == [pl EXCEPT !.fXSModel = Null, !.fXSModelIsValid = FALSE]

WithoutXSModel(h) == [Delete(h, h.pool.fXSModel) EXCEPT !.pool = Outdated(@)]

\* cacheGrammar, of grammars with different target namespaces
Accepted(h, gs) ==
  IF h.pool.fLocked THEN {}
  ELSE {g \in gs : NamespaceOf[g] \notin NamespacesOf(h.pool.fGrammarRegistry)}

Registered(pl, gs) ==
  [pl EXCEPT !.fGrammarRegistry = @ \cup gs, !.fXSModelIsValid = @ /\ gs = {}]

Cached(h, gs) == [h EXCEPT !.pool = Registered(@, Accepted(h, gs))]

-----------------------------------------------------------------------------
(* GrammarResolver *)

IsCaching(r) == r.fCacheGrammar \/ r.fUseCachedGrammar

\* grammars of its own, of which there is no model yet
Own(r, gs) == [r EXCEPT !.fGrammarBucket = gs, !.fGrammarsToAddToXSModel = gs]

More(r, gs) ==
  [r EXCEPT !.fGrammarBucket = @ \cup gs, !.fGrammarsToAddToXSModel = @ \cup gs]

\* putGrammar, of the grammars of a schema and of those it imports: those that
\* the pool takes, and the others
Taken(h, p, gs) == IF h.resolver[p].fCacheGrammar THEN Accepted(h, gs) ELSE {}

Put(h, p, gs) ==
  With(Cached(h, Taken(h, p, gs)), p, More(h.resolver[p], gs \ Taken(h, p, gs)))

\* cacheGrammars: what the pool refuses stays in the bucket and is to be added
HandOver(h, p) ==
  LET bucket == h.resolver[p].fGrammarBucket
  IN  With(Cached(h, bucket), p, Own(h.resolver[p], bucket \ Accepted(h, bucket)))

\* mutant: the model of the last parse is forgotten
ResetForgetting(h, p) == With(h, p, Own([h.resolver[p] EXCEPT !.fXSModel = Null], {}))

\* fXSModel is deleted, and has to be made anew of these grammars
Unmodelled(h, p, gs) ==
  LET without == Delete(h, h.resolver[p].fXSModel)
  IN  With(without, p, Own([without.resolver[p] EXCEPT !.fXSModel = Null], gs))

\* reset
Reset(h, p) == Unmodelled(h, p, {})

\* a new fXSModel of the grammars to add, on top of parent
OnTop(r, m) == [r EXCEPT !.fXSModel = m, !.fGrammarsToAddToXSModel = {}, !.fModel = m]

Extend(h, p, parent) ==
  LET m == Fresh(h, p)
      model == ModelOn(parent, h.resolver[p].fGrammarsToAddToXSModel)
  IN  With(Allocated(Misread(h, parent), m, model), p, OnTop(h.resolver[p], m))

Answer(h, p, m) == With(h, p, [h.resolver[p] EXCEPT !.fModel = m])

\* the pool has a new model: fXSModel is made anew too, if it is needed
Regenerated(h, p) ==
  LET r == h.resolver[p]
      known == With(h, p, [r EXCEPT !.fGrammarPoolXSModel = h.pool.fXSModel])
      without == Unmodelled(known, p, r.fGrammarBucket)
  IN  IF r.fGrammarPoolXSModel = Null /\ r.fGrammarsToAddToXSModel = {} /\ r.fXSModel = Null
      THEN Answer(known, p, h.pool.fXSModel)
      ELSE IF r.fGrammarBucket # {} THEN Extend(without, p, h.pool.fXSModel)
      ELSE Answer(without, p, h.pool.fXSModel)

\* mutant: a new model is built on the resolver's own only
OwnBase(r) == r.fXSModel

\* what a new model is built upon, or given if there is nothing to add
Base(r) == IF r.fXSModel # Null THEN r.fXSModel ELSE r.fGrammarPoolXSModel

\* the pool's model is the one it was
Extended(h, p) ==
  LET r == h.resolver[p]
  IN  IF r.fGrammarsToAddToXSModel # {} \/ Base(r) = Null THEN Extend(h, p, Base(r))
      ELSE Answer(h, p, Base(r))

\* not caching: only the grammars of the resolver
OfOwn(h, p) ==
  LET r == h.resolver[p]
  IN  IF r.fGrammarsToAddToXSModel # {} \/ r.fXSModel = Null THEN Extend(h, p, r.fXSModel)
      ELSE Answer(h, p, r.fXSModel)

GetXSModel(h, p) ==
  IF ~IsCaching(h.resolver[p]) THEN OfOwn(h, p)
  ELSE IF h.pool.fLocked \/ h.pool.fXSModelIsValid THEN Extended(h, p)
  ELSE Regenerated(CreateXSModel(h), p)

\* callers ask only for a PSVI handler
Update(h, p) == IF h.resolver[p].psvi THEN GetXSModel(h, p) ELSE h

\* scanReset: "fModel may need updating"
UpdateIfSet(h, p) == IF h.resolver[p].fModel # Null THEN Update(h, p) ELSE h

-----------------------------------------------------------------------------
(* what the application may do *)

NewParser ==
  [fGrammarBucket |-> {}, fGrammarsToAddToXSModel |-> {},
   fXSModel |-> Null, fGrammarPoolXSModel |-> Null, fModel |-> Null,
   fCacheGrammar |-> FALSE, fUseCachedGrammar |-> FALSE,
   fSchemaInfoList |-> {}, fCachedSchemaInfoList |-> {},
   psvi |-> FALSE, parsing |-> FALSE, inSchema |-> FALSE]

NewPool == [fGrammarRegistry |-> {}, fLocked |-> FALSE, fXSModel |-> Null, fXSModelIsValid |-> FALSE]

Init ==
  /\ models = [m \in Model |-> Gone]
  /\ pool = NewPool
  /\ resolver = [p \in Parser |-> NewParser]
  /\ misread = FALSE /\ unread = FALSE

Idle(p) == ~resolver[p].parsing

\* a parser knows the pool's model, or will be told of a new one
Told(p) ==
  \/ "untold" \in Unguarded
  \/ resolver[p].fGrammarPoolXSModel = pool.fXSModel
  \/ ~pool.fLocked /\ ~pool.fXSModelIsValid

\* none of the parsers has a model on top of the pool's
Replaceable(ps) ==
  \/ "change" \in Unguarded
  \/ \A p \in ps : pool.fXSModel \notin Chain(models, resolver[p].fXSModel)

\* bound: the parser may have one more model
Room(p) == ~\A n \in 1..MaxModels : models[p, n].live

MayStart(p, use) ==
  /\ Idle(p)
  /\ pool.fLocked \/ \A q \in Parser : Idle(q)
  /\ use => /\ Told(p)
            /\ pool.fLocked \/ Replaceable(Parser \ {p})

AllGrammars(h) ==
  h.pool.fGrammarRegistry
  \cup (UNION {h.resolver[p].fGrammarBucket : p \in Parser})
  \cup (UNION {h.models[m].grammars : m \in Model})

\* new grammars, one for each of the namespaces
NewGrammars(h, namespaces) ==
  {gs \in SUBSET (Grammar \ AllGrammars(h)) :
     NamespacesOf(gs) = namespaces /\ Cardinality(gs) = Cardinality(namespaces)}

\* getGrammar: the namespaces it finds a grammar for, and the grammars
Visible(r) == r.fGrammarBucket \cup IF r.fUseCachedGrammar THEN pool.fGrammarRegistry ELSE {}

Known(r) == NamespacesOf(Visible(r))

Options(r, cache, use, psvi) ==
  [r EXCEPT !.fCacheGrammar = cache, !.fUseCachedGrammar = use, !.psvi = psvi]

Configured(h, p, cache, use, psvi) ==
  LET reset == Reset(h, p)
  IN  With(reset, p, Options(reset.resolver[p], cache, use, psvi))

\* the schemas of these namespaces have been read
Noted(r, namespaces, toCache) ==
  IF toCache THEN [r EXCEPT !.fCachedSchemaInfoList = @ \cup namespaces]
  ELSE [r EXCEPT !.fSchemaInfoList = @ \cup namespaces]

Listed(h, p, namespaces, toCache) ==
  With(h, p, Noted(h.resolver[p], namespaces, toCache))

-----------------------------------------------------------------------------
(* the scanner *)

Namespaces == NamespacesOf(Grammar)

\* resolveSchemaGrammar: the documents it finds in a list
AlreadyRead(r) ==
  (IF r.fUseCachedGrammar THEN r.fCachedSchemaInfoList ELSE {})
  \cup (IF r.fCacheGrammar THEN {} ELSE r.fSchemaInfoList)

Started(r) == [r EXCEPT !.parsing = TRUE, !.fSchemaInfoList = {}]

InSchema(h, p) == With(h, p, [h.resolver[p] EXCEPT !.inSchema = TRUE])

\* a parser whose cacheGrammarFromParse is set also uses cached grammars
ScanReset(p, cache, use, psvi) ==
  /\ MayStart(p, use) /\ (cache => use)
  /\ "relist" \in Unguarded \/ (cache => ~pool.fLocked)
  /\ LET h == UpdateIfSet(Configured(Heap, p, cache, use, psvi), p)
     IN  Becomes(With(h, p, Started(h.resolver[p])))
  /\ UNCHANGED unread

\* resolveSchemaGrammar, of a namespace whose schema is read, with the schemas
\* it imports for others ...
ResolveNewSchema(p, ns) ==
  /\ Room(p) /\ ~Idle(p) /\ ns \notin Known(resolver[p]) \cup AlreadyRead(resolver[p])
  /\ \E imports \in SUBSET (Namespaces \ ({ns} \cup Known(resolver[p]))) :
       LET new == {ns} \cup (imports \ AlreadyRead(resolver[p]))
       IN  \E gs \in NewGrammars(Heap, new) :
             LET put == Listed(Put(Heap, p, gs), p, new, resolver[p].fCacheGrammar)
             IN  /\ Becomes(InSchema(Update(put, p), p))
                 /\ unread' = (unread \/ imports \cap AlreadyRead(resolver[p]) # {})

\* ... or is known, or has been read already: "so it is safe to just return" ...
ResolveOldSchema(p, ns) ==
  /\ Room(p) /\ ~Idle(p) /\ ns \in Known(resolver[p]) \cup AlreadyRead(resolver[p])
  /\ Becomes(IF ns \in Known(resolver[p])
             THEN InSchema(Update(Heap, p), p) ELSE Heap)
  /\ unread' = (unread \/ ns \notin Known(resolver[p]))

\* the options are set anew before the next parse
Ended(r) ==
  [r EXCEPT !.parsing = FALSE, !.inSchema = FALSE, !.psvi = FALSE,
            !.fCacheGrammar = FALSE, !.fUseCachedGrammar = FALSE]

End(h, p) == With(h, p, Ended(h.resolver[p]))

\* ... or whose schema has a fatal error, after its grammar has been put in
ResolveFails(p, ns) ==
  /\ ~Idle(p) /\ ns \notin Known(resolver[p]) \cup AlreadyRead(resolver[p])
  /\ \E gs \in NewGrammars(Heap, {ns}) :
       LET put == Listed(Put(Heap, p, gs), p, {ns}, resolver[p].fCacheGrammar)
       IN  Becomes(End(put, p))
  /\ UNCHANGED unread

\* switchGrammar: an element of a known namespace, no model is asked for
SwitchGrammar(p, ns) ==
  /\ ~Idle(p) /\ ns \in Known(resolver[p])
  /\ "unset" \in Unguarded \/ resolver[p].fModel # Null
  /\ Becomes(InSchema(Heap, p))
  /\ UNCHANGED unread

EndParse(p) ==
  /\ ~Idle(p)
  /\ Becomes(End(Heap, p))
  /\ UNCHANGED unread

MayLoad(p, toCache) ==
  /\ MayStart(p, toCache)
  /\ \/ "relist" \in Unguarded
     \/ IF toCache THEN ~pool.fLocked
        ELSE resolver[p].fSchemaInfoList \cup resolver[p].fCachedSchemaInfoList = {}

\* loadXMLSchemaGrammar of a schema that is not listed with its grammar there:
\* a new grammar even if the namespace is known, by another document then
LoadSchema(p, ns, toCache, psvi) ==
  LET h == Configured(Heap, p, FALSE, toCache, psvi)
      known == IF toCache THEN NamespacesOf(pool.fGrammarRegistry) ELSE {}
      list == h.resolver[p].fCachedSchemaInfoList
              \cup IF toCache THEN {} ELSE h.resolver[p].fSchemaInfoList
  IN  /\ MayLoad(p, toCache)
      /\ \E imports \in SUBSET (Namespaces \ ({ns} \cup known)) :
           LET new == {ns} \cup (imports \ list)
           IN  \E gs \in NewGrammars(h, new) :
                 LET put == Listed(Put(h, p, gs), p, new, toCache)
                     loaded == Update(IF toCache THEN HandOver(put, p) ELSE put, p)
                 IN  /\ Becomes(End(loaded, p))
                     /\ unread' = (unread \/ imports \cap list # {})

\* an exception ends the load before cacheGrammars
LoadFails(p, ns, toCache) ==
  /\ MayLoad(p, toCache)
  /\ "relist" \in Unguarded \/ ~toCache
  /\ LET h == Configured(Heap, p, FALSE, toCache, FALSE)
     IN  \E gs \in NewGrammars(h, {ns}) :
           Becomes(End(Listed(Put(h, p, gs), p, {ns}, toCache), p))
  /\ UNCHANGED unread

-----------------------------------------------------------------------------
(* the pool's interface, and the end of a parser *)

AllIdle == \A p \in Parser : Idle(p)

\* no scanner but those of ps has listed a schema of the namespaces
Unlisted(namespaces, ps) ==
  \/ "relist" \in Unguarded
  \/ \A p \in Parser \ ps : resolver[p].fCachedSchemaInfoList \cap namespaces = {}

Cleared(h) == [WithoutXSModel(h) EXCEPT !.pool.fGrammarRegistry = {}]

Clear ==
  /\ AllIdle /\ ~pool.fLocked /\ Replaceable(Parser) /\ Unlisted(Namespaces, {})
  /\ Becomes(Cleared(Heap))
  /\ UNCHANGED unread

\* mutant: the scanner is not told
ListKept(h, p) == h

\* IGXMLScanner::resetCachedGrammar
WithoutList(h, p) == With(h, p, [h.resolver[p] EXCEPT !.fCachedSchemaInfoList = {}])

\* resetCachedGrammarPool of a parser; a locked pool keeps its grammars
ResetCachedGrammar(p) ==
  /\ AllIdle /\ Replaceable(Parser) /\ Unlisted(Namespaces, {p})
  /\ Becomes(WithoutList(IF pool.fLocked THEN Heap ELSE Cleared(Heap), p))
  /\ UNCHANGED unread

OrphanGrammar(g) ==
  /\ AllIdle /\ ~pool.fLocked /\ g \in pool.fGrammarRegistry
  /\ Unlisted({NamespaceOf[g]}, {})
  /\ pool' = [pool EXCEPT !.fGrammarRegistry = @ \ {g}, !.fXSModelIsValid = FALSE]
  /\ UNCHANGED <<models, resolver, misread, unread>>

LockPool ==
  /\ AllIdle /\ ~pool.fLocked /\ (pool.fXSModelIsValid \/ Replaceable(Parser))
  /\ LET h == [Heap EXCEPT !.pool.fLocked = TRUE]
     IN  Becomes(IF pool.fXSModelIsValid THEN h ELSE CreateXSModel(h))
  /\ UNCHANGED unread

UnlockPool ==
  /\ AllIdle /\ pool.fLocked /\ Replaceable(Parser)
  /\ Becomes([WithoutXSModel(Heap) EXCEPT !.pool.fLocked = FALSE])
  /\ UNCHANGED unread

\* the only parser made its pool itself
OwnsPool(p) == "owner" \in Unguarded /\ Parser = {p}

\* ~GrammarResolver: its pool, if it made that, goes first; another parser is made
DeleteParser(p) ==
  /\ Idle(p)
  /\ LET h == IF OwnsPool(p) THEN [WithoutXSModel(Heap) EXCEPT !.pool = NewPool] ELSE Heap
     IN  Becomes(With(Reset(h, p), p, NewParser))
  /\ UNCHANGED unread

-----------------------------------------------------------------------------
ParserStep(p) ==
  \/ \E cache, use, psvi \in BOOLEAN : ScanReset(p, cache, use, psvi)
  \/ \E ns \in Namespaces :
       \/ ResolveNewSchema(p, ns) \/ ResolveOldSchema(p, ns) \/ ResolveFails(p, ns)
       \/ SwitchGrammar(p, ns)
       \/ \E toCache \in BOOLEAN : LoadFails(p, ns, toCache)
       \/ \E toCache, psvi \in BOOLEAN : LoadSchema(p, ns, toCache, psvi)
  \/ EndParse(p)
  \/ ResetCachedGrammar(p)
  \/ DeleteParser(p)

PoolStep == Clear \/ LockPool \/ UnlockPool \/ \E g \in Grammar : OrphanGrammar(g)

XSModelsNext == PoolStep \/ \E p \in Parser : ParserStep(p)

XSModelsSpec == Init /\ [][XSModelsNext]_vars

-----------------------------------------------------------------------------
(* properties *)

\* The model PSVI is reported from has the components of exactly the grammars
\* the scanner may validate with: those of the resolver and, if it uses cached
\* grammars, those of the pool (getXSModel, over any mix of parses and loads).
ModelIsCurrent ==
  \A p \in Parser :
    LET r == resolver[p]
    IN  r.parsing /\ r.psvi /\ r.inSchema =>
          /\ r.fModel \in Model
          /\ UNION {models[m].grammars : m \in Chain(models, r.fModel)} = Visible(r)

\* No XSModel is read or deleted after its deletion: a parent outlives the
\* models on top of it, and no stale pointer to one is built upon (~XSModel).
NoFreedModelRead == ~misread

\* A schema that is not read because it has been read before still has its
\* grammar: the lists of documents never outlive the grammars they stand for
\* (fSchemaInfoList, fCachedSchemaInfoList).
ReadSchemasAreThere == ~unread

\* Every XSModel will be deleted, and by one owner only: it is the pool's, or a
\* resolver's, or below one of those that deletes its parent.
EveryModelOwned ==
  \A m \in {n \in Model : models[n].live} :
    Cardinality({p \in Parser : m \in Chain(models, resolver[p].fXSModel) /\ models[m].fDeleteParent}
                \cup IF pool.fXSModel = m THEN {"pool"} ELSE {}) = 1
=============================================================================
