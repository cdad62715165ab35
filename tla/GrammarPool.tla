----------------------------- MODULE GrammarPool -----------------------------
(***************************************************************************)
(* Who owns a grammar, and who still refers to it.  An XMLGrammarPoolImpl  *)
(* is shared by several parsers.  Each parser has a GrammarResolver that   *)
(* keeps its own grammars in fGrammarBucket, remembers in fGrammarFromPool *)
(* those it has found in the pool, and hands grammars over to the pool     *)
(* when caching.  The scanner's protocol is IGXMLScanner's: it resets the  *)
(* resolver, takes or makes the document's DTD grammar, puts schema        *)
(* grammars in as it meets them, and gives a DTD grammar the system id of  *)
(* its external subset as its key.                                         *)
(*                                                                         *)
(* Parsers run in threads of their own while the pool is locked, their     *)
(* steps interleave then; an unlocked pool is used by one at a time.  A    *)
(* grammar is an object: it is allocated, changes hands, is deleted.       *)
(***************************************************************************)
EXTENDS FiniteSets

CONSTANTS Parser,      \* parsers (scanner and resolver) created on the pool
          Grammar,     \* grammar objects
          Namespace,   \* target namespaces, the keys of schema grammars
          SystemId,    \* system ids, the keys of the DTD grammars that have one
          DtdKey,      \* XMLUni::fgDTDEntityString, the key of the others
          NoGrammar,   \* the null pointer
          Unguarded    \* what the application does out of UnguardedUses

\* Uses of the interface nothing in the code prevents:
\*   share        - another parser that has found grammars in the unlocked
\*                  pool goes on to use it
\*   clear        - the application empties the pool, or takes a grammar out,
\*                  although a parser has found grammars in it
\*   lockNameless - the pool is locked while it holds a DTD grammar that has
\*                  no system id
\*   loadNameless - a DTD is loaded for caching while it holds one
\*   orphanAbsent - a grammar is orphaned that the pool does not have
UnguardedUses == {"share", "clear", "lockNameless", "loadNameless", "orphanAbsent"}

Keys == Namespace \cup SystemId \cup {DtdKey}

ASSUME PoolAssumption ==
  /\ NoGrammar \notin Grammar
  /\ DtdKey \notin Namespace \cup SystemId
  /\ Namespace \cap SystemId = {}
  /\ Unguarded \subseteq UnguardedUses

VARIABLES gram,      \* the grammar objects
          pool,      \* fGrammarRegistry and fLocked
          resolver,  \* per parser: the resolver's tables and flags, the scanner
          orphans,   \* grammars the application has orphaned and owns
          thrown     \* orphanKey has thrown NoSuchElementException

gpVars == <<gram, pool, resolver, orphans, thrown>>
-----------------------------------------------------------------------------
(* RefHashTableOf *)
Tables == [Keys -> Grammar \cup {NoGrammar}]

Empty == [k \in Keys |-> NoGrammar]

Objects(table) == {table[k] : k \in Keys} \ {NoGrammar}

Unallocated == [type |-> "none", key |-> DtdKey, filled |-> FALSE]

\* What scanners and tables go by: kind, key, and whether declarations have
\* been read into it.  The declarations themselves, what they make on demand
\* and fValidated are left out.
Grammars == [type : {"none", "dtd", "schema"}, key : Keys, filled : BOOLEAN]

Free == {g \in Grammar : gram[g].type = "none"}

Deleted(gs) == [g \in Grammar |-> IF g \in gs THEN Unallocated ELSE gram[g]]

\* what a scanner is doing: a parse (prolog to content) or a loadGrammar
Tasks == {"idle", "prolog", "subset", "content", "loadDTD", "loadSchema"}

Resolvers == [fGrammarBucket    : Tables,
              fGrammarFromPool  : Tables,
              fCacheGrammar     : BOOLEAN,
              fUseCachedGrammar : BOOLEAN,
              fDTDGrammar       : Grammar \cup {NoGrammar},
              task              : Tasks]
-----------------------------------------------------------------------------
(* GrammarResolver and XMLGrammarPoolImpl, on a resolver r *)

\* getGrammar: the bucket, what was found before, the pool
Get(r, k) ==
  IF r.fGrammarBucket[k] # NoGrammar \/ ~r.fUseCachedGrammar THEN r.fGrammarBucket[k]
  ELSE IF r.fGrammarFromPool[k] # NoGrammar THEN r.fGrammarFromPool[k]
  ELSE pool.fGrammarRegistry[k]

\* getGrammar remembers what it finds in the pool
Noted(r, k) ==
  IF r.fGrammarBucket[k] = NoGrammar /\ r.fUseCachedGrammar
  THEN [r EXCEPT !.fGrammarFromPool[k] = Get(r, k)] ELSE r

\* mutant: the lock is not looked at
AcceptsWhenLocked(k) == pool.fGrammarRegistry[k] = NoGrammar

\* the pool's cacheGrammar
Accepts(k) == ~pool.fLocked /\ pool.fGrammarRegistry[k] = NoGrammar

\* putGrammar: either the pool or the bucket gets the grammar
Takes(r, k) == r.fCacheGrammar /\ Accepts(k)

Put(p, r, k, g) ==
  IF Takes(r, k)
  THEN /\ pool' = [pool EXCEPT !.fGrammarRegistry[k] = g]
       /\ resolver' = [resolver EXCEPT ![p] = r]
  ELSE /\ resolver' = [resolver EXCEPT ![p] = [r EXCEPT !.fGrammarBucket[k] = g]]
       /\ UNCHANGED pool

\* cacheGrammarFromParse and useCachedGrammarInParse, called in a row
Reset(r, cache, use) ==
  [r EXCEPT !.fGrammarBucket = Empty,
            !.fCacheGrammar = cache, !.fUseCachedGrammar = use]

Bucket(p) == Objects(resolver[p].fGrammarBucket)

\* mutant: the pool lets go of grammars although it is locked
GivesUpAlways == TRUE

\* the pool's orphanGrammar and clear do nothing while it is locked
GivesUp == ~pool.fLocked

\* the pool's DTD grammar that has no system id
Nameless == pool.fGrammarRegistry[DtdKey]

Init ==
  /\ gram = [g \in Grammar |-> Unallocated]
  /\ pool = [fGrammarRegistry |-> Empty, fLocked |-> FALSE]
  /\ resolver = [p \in Parser |->
       [fGrammarBucket |-> Empty, fGrammarFromPool |-> Empty,
        fCacheGrammar |-> FALSE, fUseCachedGrammar |-> FALSE,
        fDTDGrammar |-> NoGrammar, task |-> "idle"]]
  /\ orphans = {}
  /\ thrown = FALSE
-----------------------------------------------------------------------------
(* What the application may do *)
Idle(p) == resolver[p].task = "idle"

AllIdle == \A p \in Parser : Idle(p)

FoundNothing(p) == resolver[p].fGrammarFromPool = Empty

\* an unlocked pool serves one parser at a time
MayStart(p) ==
  /\ Idle(p)
  /\ \/ pool.fLocked
     \/ \A q \in Parser \ {p} :
          Idle(q) /\ ("share" \in Unguarded \/ FoundNothing(q))
-----------------------------------------------------------------------------
(* IGXMLScanner: parsing a document *)

WithDTD(r, g) == [r EXCEPT !.task = "prolog", !.fDTDGrammar = g]

\* scanReset, when getGrammar finds a DTD grammar without a system id
ScanResetFound(p, cache, use) ==
  /\ MayStart(p)
  /\ LET r == Reset(resolver[p], cache, use)
         g == Get(r, DtdKey)
     IN  /\ g # NoGrammar
         /\ gram' = [Deleted(Bucket(p)) EXCEPT ![g].filled = FALSE]
         /\ resolver' = [resolver EXCEPT ![p] = WithDTD(Noted(r, DtdKey), g)]
  /\ UNCHANGED <<pool, orphans, thrown>>

\* scanReset, when it has to make one
ScanResetNew(p, cache, use) ==
  /\ MayStart(p)
  /\ LET r == Reset(resolver[p], cache, use)
     IN  /\ Get(r, DtdKey) = NoGrammar
         /\ \E g \in Free :
              /\ gram' = [Deleted(Bucket(p)) EXCEPT
                            ![g] = [type |-> "dtd", key |-> DtdKey, filled |-> FALSE]]
              /\ Put(p, WithDTD(r, g), DtdKey, g)
  /\ UNCHANGED <<orphans, thrown>>

\* scanDocTypeDecl begins with switchGrammar to the DTD grammar
Switched(r) == Noted(r, DtdKey)

\* the document type has no external subset, or it is not loaded
NoExternalSubset(p) ==
  /\ resolver[p].task \in {"prolog", "subset"}
  /\ resolver' = [resolver EXCEPT ![p] = [Switched(resolver[p]) EXCEPT !.task = "content"]]
  /\ UNCHANGED <<gram, pool, orphans, thrown>>

\* the internal subset; checkInternalDTD refuses it when caching
InternalSubset(p) ==
  /\ resolver[p].task = "prolog"
  /\ ~resolver[p].fCacheGrammar
  /\ gram' = [gram EXCEPT ![resolver[p].fDTDGrammar].filled = TRUE]
  /\ resolver' = [resolver EXCEPT ![p] = [Switched(resolver[p]) EXCEPT !.task = "subset"]]
  /\ UNCHANGED <<pool, orphans, thrown>>

\* an external subset whose grammar has been cached
CachedSubset(p, k) ==
  LET r == Switched(resolver[p])
  IN  /\ r.task = "prolog" /\ r.fUseCachedGrammar /\ Get(r, k) # NoGrammar
      /\ resolver' = [resolver EXCEPT ![p] =
           [Noted(r, k) EXCEPT !.fDTDGrammar = Get(r, k), !.task = "content"]]
      /\ UNCHANGED <<gram, pool, orphans, thrown>>

\* an external subset is scanned: it is not cached, or the document has an
\* internal subset too and then the cache is not asked
ToScan(p, k) ==
  LET r == resolver[p]
  IN  \/ r.task = "prolog" /\ ~(r.fUseCachedGrammar /\ Get(r, k) # NoGrammar)
      \/ r.task = "subset"

ExternalSubset(p, k) ==
  /\ ToScan(p, k)
  /\ ~resolver[p].fCacheGrammar
  /\ gram' = [gram EXCEPT ![resolver[p].fDTDGrammar].filled = TRUE]
  /\ resolver' = [resolver EXCEPT ![p] = [Switched(resolver[p]) EXCEPT !.task = "content"]]
  /\ UNCHANGED <<pool, orphans, thrown>>

\* setSystemId and the scan of the external subset
Named(g, k) == [gram EXCEPT ![g].key = k, ![g].filled = TRUE]

\* when caching, the grammar is first given the system id as its key:
\* orphanGrammar, setSystemId, putGrammar.  The pool has it (or orphanKey
\* throws) ...
NameInPool(p, k) ==
  LET r == resolver[p]
      given == [pool.fGrammarRegistry EXCEPT ![DtdKey] = NoGrammar]
      after == [r EXCEPT !.fGrammarFromPool[DtdKey] = NoGrammar, !.task = "content"]
  IN  /\ ToScan(p, k) /\ r.fCacheGrammar /\ GivesUp
      /\ IF Nameless = NoGrammar
         THEN /\ thrown' = TRUE
              /\ resolver' = [resolver EXCEPT ![p] = [Switched(r) EXCEPT !.task = "idle"]]
              /\ UNCHANGED <<gram, pool>>
         ELSE /\ gram' = Named(r.fDTDGrammar, k)
              /\ pool' = [pool EXCEPT !.fGrammarRegistry =
                            IF Accepts(k) THEN [given EXCEPT ![k] = r.fDTDGrammar] ELSE given]
              /\ resolver' = [resolver EXCEPT ![p] =
                   IF Accepts(k) THEN after
                   ELSE [after EXCEPT !.fGrammarBucket[k] = r.fDTDGrammar]]
              /\ UNCHANGED thrown
      /\ UNCHANGED orphans

\* ... or is locked, and gives nothing away and takes nothing in
NameInBucket(p, k) ==
  LET r == resolver[p]
  IN  /\ ToScan(p, k) /\ r.fCacheGrammar /\ ~GivesUp
      /\ gram' = Named(r.fDTDGrammar, k)
      /\ Put(p, [Switched(r) EXCEPT !.fGrammarBucket[DtdKey] = NoGrammar, !.task = "content"],
             k, r.fDTDGrammar)
      /\ UNCHANGED <<orphans, thrown>>

\* schemas are met in the content of a document and in other schemas
MeetsSchemas(r) == r.task \notin {"idle", "loadDTD"}

PastDTD(r) ==
  [r EXCEPT !.task = IF r.task = "loadSchema" THEN "loadSchema" ELSE "content"]

\* resolveSchemaGrammar, and the imports of TraverseSchema: a namespace that
\* getGrammar finds ...
MeetKnownSchema(p, k) ==
  LET r == resolver[p]
  IN  /\ MeetsSchemas(r) /\ Get(r, k) # NoGrammar
      /\ resolver' = [resolver EXCEPT ![p] = Noted(PastDTD(r), k)]
      /\ UNCHANGED <<gram, pool, orphans, thrown>>

\* ... or whose schema is read
MeetNewSchema(p, k) ==
  LET r == resolver[p]
  IN  /\ MeetsSchemas(r) /\ Get(r, k) = NoGrammar
      /\ \E g \in Free :
           /\ gram' = [gram EXCEPT ![g] = [type |-> "schema", key |-> k, filled |-> TRUE]]
           /\ Put(p, PastDTD(r), k, g)
      /\ UNCHANGED <<orphans, thrown>>

\* the parse ends, at the end of the document or by an exception
EndParse(p) ==
  /\ resolver[p].task \in {"prolog", "subset", "content"}
  /\ resolver' = [resolver EXCEPT ![p].task = "idle"]
  /\ UNCHANGED <<gram, pool, orphans, thrown>>
-----------------------------------------------------------------------------
(* IGXMLScanner: loadGrammar *)
\* loadDTDGrammar: the grammar goes into the bucket; when it is to be cached
\* it has the system id as its key by the end of the call
LoadDTD(p, k, toCache) ==
  /\ MayStart(p)
  /\ LET r == Reset(resolver[p], FALSE, toCache)
         key == IF toCache THEN k ELSE DtdKey
     IN  /\ Get(r, DtdKey) = NoGrammar
         /\ \E g \in Free :
              /\ gram' = [Deleted(Bucket(p)) EXCEPT
                            ![g] = [type |-> "dtd", key |-> key, filled |-> TRUE]]
              /\ Put(p, [r EXCEPT !.fDTDGrammar = g, !.task = "loadDTD"], key, g)
  /\ UNCHANGED <<orphans, thrown>>

\* the grammar found is one of the pool's: it is reset, and orphanGrammar looks
\* for it in the bucket, where orphanKey throws; loadGrammar catches that
LoadDTDThrows(p, k) ==
  /\ MayStart(p)
  /\ "loadNameless" \in Unguarded \/ Nameless = NoGrammar
  /\ LET r == Reset(resolver[p], FALSE, TRUE)
         g == Get(r, DtdKey)
     IN  /\ g # NoGrammar
         /\ gram' = [Deleted(Bucket(p)) EXCEPT ![g].filled = FALSE]
         /\ resolver' = [resolver EXCEPT ![p] = Noted(r, DtdKey)]
  /\ thrown' = TRUE
  /\ UNCHANGED <<pool, orphans>>

\* loadXMLSchemaGrammar: a new grammar even if there is one of that namespace
LoadSchema(p, k, toCache) ==
  /\ MayStart(p)
  /\ LET r == Reset(resolver[p], FALSE, toCache)
     IN  \E g \in Free :
           /\ gram' = [Deleted(Bucket(p)) EXCEPT
                         ![g] = [type |-> "schema", key |-> k, filled |-> TRUE]]
           /\ Put(p, [Noted(r, k) EXCEPT !.task = "loadSchema"], k, g)
  /\ UNCHANGED <<orphans, thrown>>

\* the schema has been loaded before: it is not read again, its grammar is
\* returned; which documents fCachedSchemaInfoList lists is left open
LoadSeenSchema(p, k) ==
  /\ MayStart(p)
  /\ LET r == Reset(resolver[p], FALSE, TRUE)
     IN  /\ Get(r, k) # NoGrammar
         /\ resolver' = [resolver EXCEPT ![p] = [Noted(r, k) EXCEPT !.task = "loadSchema"]]
  /\ gram' = Deleted(Bucket(p))
  /\ UNCHANGED <<pool, orphans, thrown>>

\* mutant: a grammar the pool has accepted stays in the bucket too
StillInBucket(r) == r

\* cacheGrammars orphans from the bucket what the pool accepts
Handed(r) ==
  [r EXCEPT !.fGrammarBucket =
     [k \in Keys |-> IF Accepts(k) THEN NoGrammar ELSE r.fGrammarBucket[k]]]

\* the call returns, after cacheGrammars if the grammars are to be cached
EndLoad(p) ==
  LET r == resolver[p]
  IN  /\ r.task \in {"loadDTD", "loadSchema"}
      /\ IF r.fUseCachedGrammar
         THEN /\ pool' = [pool EXCEPT !.fGrammarRegistry =
                   [k \in Keys |-> IF Accepts(k) THEN r.fGrammarBucket[k]
                                   ELSE pool.fGrammarRegistry[k]]]
              /\ resolver' = [resolver EXCEPT ![p] = [Handed(r) EXCEPT !.task = "idle"]]
         ELSE /\ resolver' = [resolver EXCEPT ![p].task = "idle"]
              /\ UNCHANGED pool
      /\ UNCHANGED <<gram, orphans, thrown>>

\* an exception ends the call before cacheGrammars
AbandonLoad(p) ==
  /\ resolver[p].task \in {"loadDTD", "loadSchema"}
  /\ resolver' = [resolver EXCEPT ![p].task = "idle"]
  /\ UNCHANGED <<gram, pool, orphans, thrown>>
-----------------------------------------------------------------------------
(* the pool's own interface, and resetCachedGrammarPool of a parser *)

\* mutant: the grammars are deleted and remembered
Remembering(r) == r

Forgetting(r) == [r EXCEPT !.fGrammarFromPool = Empty]

Cleared ==
  IF GivesUp
  THEN /\ gram' = Deleted(Objects(pool.fGrammarRegistry))
       /\ pool' = [pool EXCEPT !.fGrammarRegistry = Empty]
  ELSE UNCHANGED <<gram, pool>>

ResetCachedGrammar(p) ==
  /\ MayStart(p)
  /\ Cleared
  /\ resolver' = [resolver EXCEPT ![p] = Forgetting(resolver[p])]
  /\ UNCHANGED <<orphans, thrown>>

\* the application takes grammars from the pool only if no parser knows them
Unreferenced(gs) ==
  \/ "clear" \in Unguarded
  \/ \A p \in Parser : Objects(resolver[p].fGrammarFromPool) \cap gs = {}

Clear ==
  /\ AllIdle
  /\ Unreferenced(Objects(pool.fGrammarRegistry))
  /\ Cleared
  /\ UNCHANGED <<resolver, orphans, thrown>>

OrphanGrammar(k) ==
  LET g == pool.fGrammarRegistry[k]
  IN  /\ AllIdle /\ GivesUp /\ g # NoGrammar /\ Unreferenced({g})
      /\ pool' = [pool EXCEPT !.fGrammarRegistry[k] = NoGrammar]
      /\ orphans' = orphans \cup {g}
      /\ UNCHANGED <<gram, resolver, thrown>>

\* orphanKey throws for a key it does not have
OrphanAbsentGrammar(k) ==
  /\ "orphanAbsent" \in Unguarded
  /\ AllIdle /\ GivesUp /\ pool.fGrammarRegistry[k] = NoGrammar
  /\ thrown' = TRUE
  /\ UNCHANGED <<gram, pool, resolver, orphans>>

DeleteOrphan(g) ==
  /\ g \in orphans
  /\ gram' = Deleted({g})
  /\ orphans' = orphans \ {g}
  /\ UNCHANGED <<pool, resolver, thrown>>

LockPool ==
  /\ AllIdle /\ ~pool.fLocked
  /\ "lockNameless" \in Unguarded \/ Nameless = NoGrammar
  /\ pool' = [pool EXCEPT !.fLocked = TRUE]
  /\ UNCHANGED <<gram, resolver, orphans, thrown>>

UnlockPool ==
  /\ AllIdle /\ pool.fLocked
  /\ pool' = [pool EXCEPT !.fLocked = FALSE]
  /\ UNCHANGED <<gram, resolver, orphans, thrown>>
-----------------------------------------------------------------------------
\* a parser whose cacheGrammarFromParse is set also uses cached grammars
ParseStep(p) ==
  \/ \E cache, use \in BOOLEAN :
       /\ cache => use
       /\ ScanResetFound(p, cache, use) \/ ScanResetNew(p, cache, use)
  \/ NoExternalSubset(p) \/ InternalSubset(p)
  \/ \E k \in SystemId : \/ CachedSubset(p, k) \/ ExternalSubset(p, k)
                         \/ NameInPool(p, k) \/ NameInBucket(p, k)
  \/ \E k \in Namespace : MeetKnownSchema(p, k) \/ MeetNewSchema(p, k)
  \/ EndParse(p)

LoadStep(p) ==
  \/ \E toCache \in BOOLEAN :
       \/ \E k \in SystemId : LoadDTD(p, k, toCache)
       \/ \E k \in Namespace : LoadSchema(p, k, toCache)
  \/ \E k \in SystemId : LoadDTDThrows(p, k)
  \/ \E k \in Namespace : LoadSeenSchema(p, k)
  \/ EndLoad(p)
  \/ AbandonLoad(p)

Next ==
  \/ \E p \in Parser : ParseStep(p) \/ LoadStep(p) \/ ResetCachedGrammar(p)
  \/ \E k \in Keys : OrphanGrammar(k) \/ OrphanAbsentGrammar(k)
  \/ \E g \in Grammar : DeleteOrphan(g)
  \/ Clear \/ LockPool \/ UnlockPool

Spec == Init /\ [][Next]_gpVars
-----------------------------------------------------------------------------
\* Every variable has its type, and a scanner in the prolog has a DTD grammar
\* to scan the subsets into.
PoolTypeOK ==
  /\ gram \in [Grammar -> Grammars]
  /\ pool \in [fGrammarRegistry : Tables, fLocked : BOOLEAN]
  /\ resolver \in [Parser -> Resolvers]
  /\ orphans \subseteq Grammar
  /\ thrown \in BOOLEAN
  /\ \A p \in Parser : resolver[p].task \in {"prolog", "subset"} =>
                         resolver[p].fDTDGrammar \in Grammar

\* the places that own g: an entry <<k>> of the registry or <<p, k>> of a
\* parser's bucket, or the application, <<>>
Owners(g) ==
  {<<k>> : k \in {x \in Keys : pool.fGrammarRegistry[x] = g}}
    \cup {<<>> : o \in orphans \cap {g}}
    \cup {w \in Parser \X Keys : resolver[w[1]].fGrammarBucket[w[2]] = g}

\* Every grammar that has been allocated is owned once: none is leaked, and
\* none is left to be deleted twice, when cacheGrammar, orphanGrammar and
\* putGrammar pass it on.
SoleOwner ==
  \A g \in Grammar :
    Cardinality(Owners(g)) = IF gram[g].type = "none" THEN 0 ELSE 1

\* A table holds a grammar under the grammar's own key: setSystemId, which
\* frees the string, is only called when no table has the grammar.  And what a
\* parser has found in the pool is still there, under the same key:
\* fGrammarFromPool never leads to a deleted grammar.
TablesAreTrue ==
  \A k \in Keys :
    /\ pool.fGrammarRegistry[k] # NoGrammar => gram[pool.fGrammarRegistry[k]].key = k
    /\ \A p \in Parser :
         /\ resolver[p].fGrammarBucket[k] # NoGrammar => gram[resolver[p].fGrammarBucket[k]].key = k
         /\ resolver[p].fGrammarFromPool[k] \in {NoGrammar, pool.fGrammarRegistry[k]}

\* No two scanners scan subsets into the same DTD grammar.
DTDNotShared ==
  \A p, q \in Parser :
    /\ p # q
    /\ {resolver[p].task, resolver[q].task} \subseteq {"prolog", "subset"}
    => resolver[p].fDTDGrammar # resolver[q].fDTDGrammar

\* No lookup the code takes for granted fails: orphanKey always has the key.
NothingThrown == ~thrown

\* While the pool is locked its registry does not change, and no scanner gives
\* one of the grammars in it another key or type, or scans a subset into it.
\* It is not said that nothing is written in these grammars: their declarations
\* make content models and texts on demand, in any thread and without a lock
\* (DTDElementDecl::getContentModel, ComplexTypeInfo::getContentModel).
LockedRegistryIsFrozen ==
  [][pool.fLocked /\ pool'.fLocked =>
       /\ pool' = pool
       /\ \A g \in Objects(pool.fGrammarRegistry) : gram'[g] = gram[g]]_gpVars
=============================================================================
