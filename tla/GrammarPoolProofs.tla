-------------------------- MODULE GrammarPoolProofs --------------------------
(***************************************************************************)
(* Proofs about GrammarPool for any parsers, grammars and keys: who owns a *)
(* grammar, what parsers remember of the pool, and that a locked pool does *)
(* not change.                                                             *)
(***************************************************************************)
EXTENDS GrammarPool, FiniteSetTheorems, TLAPS

\* The application may do what does not take a grammar away from a parser that
\* knows it, nor lock the pool while it holds a grammar that parsers reset.
Guarded == Unguarded \cap {"share", "clear", "lockNameless"} = {}
-----------------------------------------------------------------------------
(* Ownership, of any objects G, registry R, buckets B and orphans O *)

Typed(G, R, B, O) ==
  /\ G \in [Grammar -> Grammars]
  /\ R \in Tables
  /\ B \in [Parser -> Tables]
  /\ O \subseteq Grammar

\* A grammar is allocated if an orphan or in a table, then under its key; it is
\* at one place, and at some place if it is allocated.
OwnedIn(G, R, B, O) ==
  /\ Typed(G, R, B, O)
  /\ \A k \in Keys : R[k] # NoGrammar =>
       G[R[k]].type # "none" /\ G[R[k]].key = k /\ R[k] \notin O
  /\ \A p \in Parser, k \in Keys : B[p][k] # NoGrammar =>
       /\ G[B[p][k]].type # "none" /\ G[B[p][k]].key = k /\ B[p][k] \notin O
       /\ B[p][k] # R[k]
       /\ \A q \in Parser : B[q][k] = B[p][k] => p = q
  /\ \A g \in O : G[g].type # "none"
  /\ \A g \in Grammar : G[g].type # "none" /\ g \notin O =>
       \E k \in Keys : R[k] = g \/ \E p \in Parser : B[p][k] = g

Buckets == [p \in Parser |-> resolver[p].fGrammarBucket]

Owned == OwnedIn(gram, pool.fGrammarRegistry, Buckets, orphans)
-----------------------------------------------------------------------------
(* The protocol of the scanners *)

\* What a parser has found in the pool is there.
Remembers(r) ==
  \A k \in Keys : r.fGrammarFromPool[k] \in {NoGrammar, pool.fGrammarRegistry[k]}

FoundIsThere == \A p \in Parser : Remembers(resolver[p])

\* While one parser uses an unlocked pool the others neither run nor know
\* anything that is in it.
OneAtATime ==
  ~pool.fLocked =>
    \A p, q \in Parser : p # q /\ ~Idle(p) => Idle(q) /\ FoundNothing(q)

LockedIsNamed == pool.fLocked => Nameless = NoGrammar

\* Before the subsets are behind it a scanner has only the DTD grammar, in its
\* bucket or, if that is unlocked, in the pool; there if it is to be cached.
SubsetsOwned ==
  \A p \in Parser :
    LET r == resolver[p]
    IN  r.task \in {"prolog", "subset"} =>
          /\ \A k \in Keys \ {DtdKey} : r.fGrammarBucket[k] = NoGrammar
          /\ \/ r.fGrammarBucket[DtdKey] = r.fDTDGrammar /\ (pool.fLocked \/ ~r.fCacheGrammar)
             \/ ~pool.fLocked /\ Nameless = r.fDTDGrammar

\* The inductive invariant.
GrammarInv ==
  PoolTypeOK /\ Owned /\ FoundIsThere /\ OneAtATime /\ LockedIsNamed /\ SubsetsOwned
-----------------------------------------------------------------------------
(* How ownership changes.  A grammar on its way from one place to another is *)
(* taken for an orphan.                                                      *)

\* What a grammar contains does not matter, nor does the key of an orphan.
LEMMA OwnedAlike ==
  ASSUME NEW G, NEW R, NEW B, NEW O, OwnedIn(G, R, B, O), NEW H \in [Grammar -> Grammars],
         \A g \in Grammar : H[g].type = G[g].type /\ (g \notin O => H[g].key = G[g].key)
  PROVE  OwnedIn(H, R, B, O)
BY SMTT(40) DEF OwnedIn, Typed, Tables

LEMMA OwnedNew ==
  ASSUME NEW G, NEW R, NEW B, NEW O, OwnedIn(G, R, B, O),
         NEW g \in Grammar, G[g].type = "none", NEW n \in Grammars, n.type # "none"
  PROVE  OwnedIn([G EXCEPT ![g] = n], R, B, O \cup {g}) /\ g \notin O
BY PoolAssumption DEF OwnedIn, Typed, Tables

LEMMA TakenFromPool ==
  ASSUME NEW G, NEW R, NEW B, NEW O, OwnedIn(G, R, B, O), NEW k \in Keys, R[k] # NoGrammar
  PROVE  OwnedIn(G, [R EXCEPT ![k] = NoGrammar], B, O \cup {R[k]}) /\ R[k] \notin O
BY PoolAssumption DEF OwnedIn, Typed, Tables

LEMMA TakenFromBucket ==
  ASSUME NEW G, NEW R, NEW B, NEW O, OwnedIn(G, R, B, O),
         NEW p \in Parser, NEW k \in Keys, B[p][k] # NoGrammar
  PROVE  /\ OwnedIn(G, R, [B EXCEPT ![p] = [B[p] EXCEPT ![k] = NoGrammar]], O \cup {B[p][k]})
         /\ B[p][k] \notin O
BY PoolAssumption DEF OwnedIn, Typed, Tables

LEMMA GivenToPool ==
  ASSUME NEW G, NEW R, NEW B, NEW O, OwnedIn(G, R, B, O),
         NEW g \in O, NEW k \in Keys, G[g].key = k, R[k] = NoGrammar
  PROVE  OwnedIn(G, [R EXCEPT ![k] = g], B, O \ {g})
BY PoolAssumption DEF OwnedIn, Typed, Tables

LEMMA GivenToBucket ==
  ASSUME NEW G, NEW R, NEW B, NEW O, OwnedIn(G, R, B, O),
         NEW g \in O, NEW p \in Parser, NEW k \in Keys, G[g].key = k, B[p][k] = NoGrammar
  PROVE  OwnedIn(G, R, [B EXCEPT ![p] = [B[p] EXCEPT ![k] = g]], O \ {g})
BY PoolAssumption DEF OwnedIn, Typed, Tables

LEMMA EmptiedPool ==
  ASSUME NEW G, NEW R, NEW B, NEW O, OwnedIn(G, R, B, O)
  PROVE  OwnedIn(G, Empty, B, O \cup Objects(R)) /\ Objects(R) \cap O = {}
BY PoolAssumption DEF OwnedIn, Typed, Tables, Empty, Objects

LEMMA EmptiedBucket ==
  ASSUME NEW G, NEW R, NEW B, NEW O, OwnedIn(G, R, B, O), NEW p \in Parser
  PROVE  /\ OwnedIn(G, R, [B EXCEPT ![p] = Empty], O \cup Objects(B[p]))
         /\ Objects(B[p]) \cap O = {}
BY PoolAssumption DEF OwnedIn, Typed, Tables, Empty, Objects

LEMMA Freed ==
  ASSUME NEW G, NEW R, NEW B, NEW O, OwnedIn(G, R, B, O), NEW S \in SUBSET O
  PROVE  OwnedIn([g \in Grammar |-> IF g \in S THEN Unallocated ELSE G[g]], R, B, O \ S)
BY PoolAssumption DEF OwnedIn, Typed, Tables, Unallocated, Grammars, Keys

\* cacheGrammars: the registry takes what is under some keys it has nothing for.
LEMMA HandedOver ==
  ASSUME NEW G, NEW R, NEW B, NEW O, OwnedIn(G, R, B, O),
         NEW p \in Parser, NEW K \in SUBSET Keys, \A k \in K : R[k] = NoGrammar
  PROVE  OwnedIn(G, [k \in Keys |-> IF k \in K THEN B[p][k] ELSE R[k]],
                 [B EXCEPT ![p] = [k \in Keys |-> IF k \in K THEN NoGrammar ELSE B[p][k]]], O)
BY PoolAssumption DEF OwnedIn, Typed, Tables

\* The three that the parsers' steps are made of.
LEMMA ResetOwned ==
  ASSUME NEW G, NEW R, NEW B, NEW O, OwnedIn(G, R, B, O), NEW p \in Parser
  PROVE  OwnedIn([g \in Grammar |-> IF g \in Objects(B[p]) THEN Unallocated ELSE G[g]],
                 R, [B EXCEPT ![p] = Empty], O)
<1> DEFINE gone == Objects(B[p])
           P == O \cup gone
<1>1. OwnedIn(G, R, [B EXCEPT ![p] = Empty], P) /\ gone \cap O = {}
  BY EmptiedBucket
<1> HIDE DEF gone
<1>2. gone \in SUBSET P /\ P \ gone = O
  BY <1>1
<1> HIDE DEF P
<1>3. OwnedIn([g \in Grammar |-> IF g \in gone THEN Unallocated ELSE G[g]], R,
              [B EXCEPT ![p] = Empty], P \ gone)
  BY <1>1, <1>2, Freed
<1> QED
  BY <1>2, <1>3 DEF gone

LEMMA NewInPool ==
  ASSUME NEW G, NEW R, NEW B, NEW O, OwnedIn(G, R, B, O),
         NEW g \in Grammar, G[g].type = "none", NEW n \in Grammars, n.type # "none",
         R[n.key] = NoGrammar
  PROVE  OwnedIn([G EXCEPT ![g] = n], [R EXCEPT ![n.key] = g], B, O)
<1>1. OwnedIn([G EXCEPT ![g] = n], R, B, O \cup {g}) /\ g \notin O
  BY OwnedNew
<1>2. n.key \in Keys /\ [G EXCEPT ![g] = n][g].key = n.key /\ g \in O \cup {g}
  BY DEF Grammars, OwnedIn, Typed
<1>3. OwnedIn([G EXCEPT ![g] = n], [R EXCEPT ![n.key] = g], B, (O \cup {g}) \ {g})
  BY <1>1, <1>2, GivenToPool
<1>4. (O \cup {g}) \ {g} = O
  BY <1>1
<1> QED
  BY <1>3, <1>4

LEMMA NewInBucket ==
  ASSUME NEW G, NEW R, NEW B, NEW O, OwnedIn(G, R, B, O), NEW p \in Parser,
         NEW g \in Grammar, G[g].type = "none", NEW n \in Grammars, n.type # "none",
         B[p][n.key] = NoGrammar
  PROVE  OwnedIn([G EXCEPT ![g] = n], R, [B EXCEPT ![p] = [B[p] EXCEPT ![n.key] = g]], O)
<1>1. OwnedIn([G EXCEPT ![g] = n], R, B, O \cup {g}) /\ g \notin O
  BY OwnedNew
<1>2. n.key \in Keys /\ [G EXCEPT ![g] = n][g].key = n.key /\ g \in O \cup {g}
  BY DEF Grammars, OwnedIn, Typed
<1>3. OwnedIn([G EXCEPT ![g] = n], R, [B EXCEPT ![p] = [B[p] EXCEPT ![n.key] = g]],
              (O \cup {g}) \ {g})
  BY <1>1, <1>2, GivenToBucket
<1>4. (O \cup {g}) \ {g} = O
  BY <1>1
<1> QED
  BY <1>3, <1>4
-----------------------------------------------------------------------------
(* What ownership implies *)

LEMMA OwnedOnce == PoolTypeOK /\ Owned => SoleOwner
<1> SUFFICES ASSUME PoolTypeOK, Owned, NEW g \in Grammar
             PROVE  Cardinality(Owners(g)) = IF gram[g].type = "none" THEN 0 ELSE 1
  BY DEF SoleOwner
<1> DEFINE R == pool.fGrammarRegistry
           B(p) == resolver[p].fGrammarBucket
<1>1. \A w : w \in Owners(g) <=>
        \/ \E k \in Keys : R[k] = g /\ w = <<k>>
        \/ g \in orphans /\ w = <<>>
        \/ \E p \in Parser, k \in Keys : B(p)[k] = g /\ w = <<p, k>>
  BY DEF Owners
<1>2. /\ \A k \in Keys : R[k] = g => gram[g].type # "none" /\ gram[g].key = k /\ g \notin orphans
      /\ \A p \in Parser, k \in Keys : B(p)[k] = g =>
           /\ gram[g].type # "none" /\ gram[g].key = k /\ g \notin orphans /\ R[k] # g
           /\ \A q \in Parser : B(q)[k] = g => p = q
      /\ g \in orphans => gram[g].type # "none"
      /\ gram[g].type # "none" /\ g \notin orphans =>
           \E k \in Keys : R[k] = g \/ \E p \in Parser : B(p)[k] = g
  BY PoolAssumption DEF Owned, OwnedIn, Buckets
<1> HIDE DEF R, B
<1>3. CASE gram[g].type = "none"
  <2>1. Owners(g) = {}
    BY <1>1, <1>2, <1>3
  <2> QED
    BY <1>3, <2>1, FS_EmptySet
<1>4. CASE gram[g].type # "none"
  <2>1. \E w : Owners(g) = {w}
    <3>1. CASE g \in orphans
      <4>1. Owners(g) = {<<>>}
        BY <1>1, <1>2, <3>1
      <4> QED
        BY <4>1
    <3>2. ASSUME NEW k \in Keys, R[k] = g PROVE Owners(g) = {<<k>>}
      BY <1>1, <1>2, <3>2
    <3>3. ASSUME NEW p \in Parser, NEW k \in Keys, B(p)[k] = g PROVE Owners(g) = {<<p, k>>}
      BY <1>1, <1>2, <3>3
    <3> QED
      BY <1>2, <1>4, <3>1, <3>2, <3>3
  <2> QED
    BY <1>4, <2>1, FS_Singleton
<1> QED
  BY <1>3, <1>4

LEMMA OwnedByKey == Owned /\ FoundIsThere => TablesAreTrue
BY DEF Owned, OwnedIn, Buckets, FoundIsThere, Remembers, TablesAreTrue
-----------------------------------------------------------------------------
(* The steps of a parser: what each has to show *)

PoolType == [fGrammarRegistry : Tables, fLocked : BOOLEAN]

\* The parser is at work, or may begin.
Runs(p) == ~Idle(p) \/ MayStart(p)

\* SubsetsOwned, of one resolver.
SubsetsAreHeld(r) ==
  r.task \in {"prolog", "subset"} =>
    /\ r.fDTDGrammar \in Grammar
    /\ \A k \in Keys \ {DtdKey} : r.fGrammarBucket[k] = NoGrammar
    /\ \/ r.fGrammarBucket[DtdKey] = r.fDTDGrammar /\ (pool.fLocked \/ ~r.fCacheGrammar)
       \/ ~pool.fLocked /\ Nameless = r.fDTDGrammar

LEMMA Basics ==
  ASSUME GrammarInv
  PROVE  /\ gram \in [Grammar -> Grammars] /\ pool \in PoolType /\ orphans \subseteq Grammar
         /\ pool.fGrammarRegistry \in Tables /\ pool.fLocked \in BOOLEAN
         /\ thrown \in BOOLEAN
         /\ resolver \in [Parser -> Resolvers]
         /\ \A p \in Parser : resolver[p] \in Resolvers /\ SubsetsAreHeld(resolver[p])
         /\ DtdKey \in Keys /\ Empty \in Tables
BY DEF GrammarInv, PoolTypeOK, SubsetsOwned, SubsetsAreHeld, PoolType, Keys, Empty, Tables

\* An unlocked pool is used by one parser, and the others know nothing of it.
LEMMA OthersRest ==
  ASSUME Guarded, GrammarInv, NEW p \in Parser, Runs(p), ~pool.fLocked,
         NEW q \in Parser, q # p
  PROVE  Idle(q) /\ FoundNothing(q)
BY DEF Guarded, GrammarInv, Runs, MayStart, OneAtATime

LEMMA ParserStep ==
  ASSUME Guarded, GrammarInv, NEW p \in Parser, Runs(p), NEW r \in Resolvers,
         resolver' = [resolver EXCEPT ![p] = r], pool' \in PoolType, thrown' \in BOOLEAN,
         pool'.fLocked = pool.fLocked,
         pool.fLocked => pool'.fGrammarRegistry = pool.fGrammarRegistry,
         Owned',
         \A k \in Keys : r.fGrammarFromPool[k] \in {NoGrammar, pool'.fGrammarRegistry[k]},
         SubsetsAreHeld(resolver[p])'
  PROVE  GrammarInv'
<1>1. /\ resolver'[p] = r /\ \A q \in Parser : q # p => resolver'[q] = resolver[q]
      /\ resolver' \in [Parser -> Resolvers]
  BY Basics
<1>2. ASSUME NEW q \in Parser, q # p
      PROVE  /\ pool.fLocked \/ (Idle(q) /\ FoundNothing(q))
             /\ Idle(q)' = Idle(q) /\ FoundNothing(q)' = FoundNothing(q)
  BY <1>1, <1>2, OthersRest DEF Idle, FoundNothing
<1>3. ASSUME NEW q \in Parser PROVE SubsetsAreHeld(resolver[q])'
  <2>1. CASE q # p /\ pool.fLocked
    <3>1. SubsetsAreHeld(resolver[q])
      BY Basics
    <3> QED
      BY <1>1, <2>1, <3>1 DEF SubsetsAreHeld, Nameless
  <2>2. CASE q # p /\ ~pool.fLocked
    BY <1>1, <1>2, <2>2 DEF Idle, SubsetsAreHeld
  <2> QED
    BY <2>1, <2>2
<1>4. PoolTypeOK' /\ SubsetsOwned'
  BY <1>1, <1>3 DEF Owned, OwnedIn, Typed, PoolTypeOK, PoolType, SubsetsOwned, SubsetsAreHeld
<1>5. FoundIsThere'
  <2> SUFFICES ASSUME NEW q \in Parser, NEW k \in Keys
               PROVE  resolver'[q].fGrammarFromPool[k] \in {NoGrammar, pool'.fGrammarRegistry[k]}
    BY DEF FoundIsThere, Remembers
  <2>1. CASE q = p
    BY <1>1, <2>1
  <2>2. CASE q # p /\ pool.fLocked
    BY <1>1, <2>2 DEF GrammarInv, FoundIsThere, Remembers
  <2>3. CASE q # p /\ ~pool.fLocked
    BY <1>1, <1>2, <2>3 DEF FoundNothing, Empty
  <2> QED
    BY <2>1, <2>2, <2>3
<1>6. OneAtATime'
  BY <1>1, <1>2 DEF OneAtATime
<1>7. LockedIsNamed'
  BY DEF GrammarInv, LockedIsNamed, Nameless
<1> QED
  BY <1>4, <1>5, <1>6, <1>7 DEF GrammarInv
-----------------------------------------------------------------------------
(* Lookups *)

\* A parser's lookup answers from its bucket or from the pool.
LEMMA GetIs ==
  ASSUME GrammarInv, NEW r \in Resolvers, NEW k \in Keys, Remembers(r)
  PROVE  /\ Get(r, k) = IF r.fGrammarBucket[k] # NoGrammar THEN r.fGrammarBucket[k]
                        ELSE IF r.fUseCachedGrammar THEN pool.fGrammarRegistry[k] ELSE NoGrammar
         /\ Get(r, k) \in Grammar \cup {NoGrammar}
<1>1. r.fGrammarFromPool[k] \in {NoGrammar, pool.fGrammarRegistry[k]}
  BY DEF Remembers
<1>2. /\ pool.fGrammarRegistry[k] \in Grammar \cup {NoGrammar}
      /\ r.fGrammarBucket[k] \in Grammar \cup {NoGrammar}
      /\ r.fUseCachedGrammar \in BOOLEAN
  BY Basics DEF Tables, Resolvers
<1> QED
  BY <1>1, <1>2 DEF Get

\* And it remembers no more than the pool has.
LEMMA NotedIs ==
  ASSUME GrammarInv, NEW r \in Resolvers, NEW k \in Keys, Remembers(r)
  PROVE  /\ Noted(r, k) \in Resolvers /\ Remembers(Noted(r, k))
         /\ Noted(r, k).fGrammarBucket = r.fGrammarBucket
         /\ Noted(r, k).fCacheGrammar = r.fCacheGrammar
         /\ Noted(r, k).fUseCachedGrammar = r.fUseCachedGrammar
         /\ Noted(r, k).fDTDGrammar = r.fDTDGrammar
         /\ Noted(r, k).task = r.task
<1>1. CASE r.fGrammarBucket[k] = NoGrammar /\ r.fUseCachedGrammar
  <2>1. Get(r, k) = pool.fGrammarRegistry[k] /\ Get(r, k) \in Grammar \cup {NoGrammar}
    BY <1>1, GetIs
  <2>2. Noted(r, k) = [r EXCEPT !.fGrammarFromPool = [r.fGrammarFromPool EXCEPT ![k] = Get(r, k)]]
    BY <1>1 DEF Noted
  <2>3. r.fGrammarFromPool \in Tables
    BY DEF Resolvers
  <2>4. [r.fGrammarFromPool EXCEPT ![k] = Get(r, k)] \in Tables
    BY <2>1, <2>3 DEF Tables
  <2> QED
    BY <2>1, <2>2, <2>3, <2>4 DEF Resolvers, Tables, Remembers
<1>2. CASE ~(r.fGrammarBucket[k] = NoGrammar /\ r.fUseCachedGrammar)
  BY <1>2 DEF Noted
<1> QED
  BY <1>1, <1>2
-----------------------------------------------------------------------------
(* Steps that leave the registry and the buckets alone *)

\* What parsers scan into a grammar is neither its type nor its key.
LEMMA FilledOwned ==
  ASSUME GrammarInv, NEW g \in Grammar, NEW b \in BOOLEAN
  PROVE  /\ OwnedIn([gram EXCEPT ![g].filled = b], pool.fGrammarRegistry, Buckets, orphans)
         /\ [gram EXCEPT ![g].filled = b] \in [Grammar -> Grammars]
<1> DEFINE H == [gram EXCEPT ![g].filled = b]
<1>1. /\ H \in [Grammar -> Grammars]
      /\ \A x \in Grammar : H[x].type = gram[x].type /\ H[x].key = gram[x].key
  BY Basics DEF Grammars
<1> HIDE DEF H
<1>2. OwnedIn(H, pool.fGrammarRegistry, Buckets, orphans)
  BY <1>1, OwnedAlike DEF GrammarInv, Owned
<1> QED
  BY <1>1, <1>2 DEF H

LEMMA BucketsMove ==
  ASSUME NEW p \in Parser, NEW r, resolver'[p] = r,
         \A q \in Parser : q # p => resolver'[q] = resolver[q]
  PROVE  Buckets' = [Buckets EXCEPT ![p] = r.fGrammarBucket]
<1>1. \A q \in Parser : resolver'[q].fGrammarBucket =
                         IF q = p THEN r.fGrammarBucket ELSE resolver[q].fGrammarBucket
  OBVIOUS
<1>2. [q \in Parser |-> resolver'[q].fGrammarBucket] =
        [[q \in Parser |-> resolver[q].fGrammarBucket] EXCEPT ![p] = r.fGrammarBucket]
  BY <1>1
<1> QED
  BY <1>2 DEF Buckets

\* A step that leaves the registry alone.
LEMMA BucketStep ==
  ASSUME Guarded, GrammarInv, NEW p \in Parser, Runs(p), NEW r \in Resolvers,
         resolver' = [resolver EXCEPT ![p] = r],
         OwnedIn(gram', pool.fGrammarRegistry, [Buckets EXCEPT ![p] = r.fGrammarBucket], orphans),
         UNCHANGED <<pool, orphans>>, thrown' \in BOOLEAN,
         Remembers(r), SubsetsAreHeld(r)
  PROVE  GrammarInv'
<1>1. resolver'[p] = r /\ \A q \in Parser : q # p => resolver'[q] = resolver[q]
  BY Basics
<1>2. Buckets' = [Buckets EXCEPT ![p] = r.fGrammarBucket]
  BY <1>1, BucketsMove
<1>3. Owned'
  BY <1>2 DEF Owned
<1>4. SubsetsAreHeld(resolver[p])'
  BY <1>1 DEF SubsetsAreHeld, Nameless
<1> QED
  BY <1>1, <1>3, <1>4, ParserStep, Basics DEF PoolType, Remembers

\* A step that only moves the scanner, and fills its DTD grammar or not.
LEMMA QuietStep ==
  ASSUME Guarded, GrammarInv, NEW p \in Parser, Runs(p), NEW r \in Resolvers,
         resolver' = [resolver EXCEPT ![p] = r],
         r.fGrammarBucket = resolver[p].fGrammarBucket,
         OwnedIn(gram', pool.fGrammarRegistry, Buckets, orphans),
         UNCHANGED <<pool, orphans, thrown>>,
         Remembers(r), SubsetsAreHeld(r)
  PROVE  GrammarInv'
<1>1. [Buckets EXCEPT ![p] = r.fGrammarBucket] = Buckets
  BY DEF Buckets
<1>2. thrown' \in BOOLEAN
  BY Basics
<1> QED
  BY <1>1, <1>2, BucketStep

LEMMA SwitchedIs ==
  ASSUME GrammarInv, NEW p \in Parser
  PROVE  LET r == Switched(resolver[p])
         IN  /\ r \in Resolvers /\ r.fGrammarBucket = resolver[p].fGrammarBucket
             /\ r.fCacheGrammar = resolver[p].fCacheGrammar
             /\ r.fUseCachedGrammar = resolver[p].fUseCachedGrammar
             /\ r.fDTDGrammar = resolver[p].fDTDGrammar /\ r.task = resolver[p].task
             /\ Remembers(r)
BY Basics, NotedIs DEF Switched, GrammarInv, FoundIsThere

\* The task of a resolver that has been typed.
LEMMA TaskSet ==
  ASSUME NEW r \in Resolvers, NEW task \in Tasks
  PROVE  LET s == [r EXCEPT !.task = task]
         IN  /\ s \in Resolvers /\ s.task = task
             /\ s.fGrammarBucket = r.fGrammarBucket /\ s.fGrammarFromPool = r.fGrammarFromPool
             /\ s.fDTDGrammar = r.fDTDGrammar /\ s.fCacheGrammar = r.fCacheGrammar
             /\ s.fUseCachedGrammar = r.fUseCachedGrammar
BY DEF Resolvers

LEMMA NoExternalSubsetInv ==
  ASSUME Guarded, GrammarInv, NEW p \in Parser, NoExternalSubset(p) PROVE GrammarInv'
<1> DEFINE r == Switched(resolver[p])
           s == [r EXCEPT !.task = "content"]
<1>1. /\ r \in Resolvers /\ r.fGrammarBucket = resolver[p].fGrammarBucket
      /\ Remembers(r)
  BY SwitchedIs
<1>2. /\ s \in Resolvers /\ s.task = "content" /\ s.fGrammarBucket = resolver[p].fGrammarBucket
      /\ s.fGrammarFromPool = r.fGrammarFromPool
  BY <1>1, TaskSet DEF Tasks
<1>3. /\ resolver' = [resolver EXCEPT ![p] = s] /\ UNCHANGED <<gram, pool, orphans, thrown>>
      /\ Runs(p)
  BY DEF NoExternalSubset, Runs, Idle
<1>4. OwnedIn(gram', pool.fGrammarRegistry, Buckets, orphans)
  BY <1>3 DEF GrammarInv, Owned
<1> HIDE DEF r, s
<1> QED
  BY <1>1, <1>2, <1>3, <1>4, QuietStep DEF SubsetsAreHeld, Remembers

\* The internal and the external subset are scanned into the DTD grammar.
LEMMA SubsetInv ==
  ASSUME Guarded, GrammarInv, NEW p \in Parser, NEW task \in {"subset", "content"},
         resolver[p].task \in {"prolog", "subset"},
         gram' = [gram EXCEPT ![resolver[p].fDTDGrammar].filled = TRUE],
         resolver' = [resolver EXCEPT ![p] = [Switched(resolver[p]) EXCEPT !.task = task]],
         UNCHANGED <<pool, orphans, thrown>>
  PROVE  GrammarInv'
<1> DEFINE r == Switched(resolver[p])
           s == [r EXCEPT !.task = task]
<1>1. /\ r \in Resolvers /\ r.fGrammarBucket = resolver[p].fGrammarBucket
      /\ r.fCacheGrammar = resolver[p].fCacheGrammar
      /\ r.fDTDGrammar = resolver[p].fDTDGrammar
      /\ Remembers(r)
  BY SwitchedIs
<1> HIDE DEF r
<1>2. /\ s \in Resolvers /\ s.fGrammarBucket = resolver[p].fGrammarBucket
      /\ s.fGrammarFromPool = r.fGrammarFromPool /\ s.fDTDGrammar = resolver[p].fDTDGrammar
      /\ s.fCacheGrammar = resolver[p].fCacheGrammar
  <2>1. task \in Tasks
    BY DEF Tasks
  <2> QED
    BY <1>1, <2>1, TaskSet
<1>3. resolver' = [resolver EXCEPT ![p] = s]
  BY DEF r
<1>4. SubsetsAreHeld(resolver[p]) /\ resolver[p].fDTDGrammar \in Grammar
  BY Basics DEF SubsetsAreHeld
<1>5. OwnedIn(gram', pool.fGrammarRegistry, Buckets, orphans)
  BY <1>4, FilledOwned
<1> HIDE DEF s
<1>6. SubsetsAreHeld(s)
  BY <1>2, <1>4 DEF SubsetsAreHeld
<1>7. Runs(p)
  BY DEF Runs, Idle
<1> QED
  BY <1>1, <1>2, <1>3, <1>5, <1>6, <1>7, QuietStep DEF Remembers

\* The scanner turns to the grammar that has been cached for the system id.
LEMMA CachedSubsetInv ==
  ASSUME Guarded, GrammarInv, NEW p \in Parser, NEW k \in SystemId, CachedSubset(p, k)
  PROVE  GrammarInv'
<1> DEFINE r == Switched(resolver[p])
           n == Noted(r, k)
           s == [n EXCEPT !.fDTDGrammar = Get(r, k), !.task = "content"]
<1>0. k \in Keys
  BY DEF Keys
<1>1. /\ r \in Resolvers /\ r.fGrammarBucket = resolver[p].fGrammarBucket
      /\ r.fUseCachedGrammar /\ r.task = "prolog" /\ resolver[p].task = "prolog"
      /\ Remembers(r)
  BY SwitchedIs DEF CachedSubset
<1>2. resolver' = [resolver EXCEPT ![p] = s] /\ UNCHANGED <<gram, pool, orphans, thrown>>
  BY DEF CachedSubset
<1> HIDE DEF r
<1>3. Get(r, k) \in Grammar \cup {NoGrammar}
  BY <1>0, <1>1, GetIs
<1>4. n \in Resolvers /\ n.fGrammarBucket = resolver[p].fGrammarBucket /\ Remembers(n)
  BY <1>0, <1>1, NotedIs
<1> HIDE DEF n
<1>5. /\ s \in Resolvers /\ s.task = "content" /\ s.fGrammarBucket = resolver[p].fGrammarBucket
      /\ s.fGrammarFromPool = n.fGrammarFromPool
  BY <1>3, <1>4 DEF Resolvers, Tasks
<1>6. OwnedIn(gram', pool.fGrammarRegistry, Buckets, orphans) /\ Runs(p)
  BY <1>1, <1>2 DEF GrammarInv, Owned, Runs, Idle
<1> HIDE DEF s
<1> QED
  BY <1>2, <1>4, <1>5, <1>6, QuietStep DEF SubsetsAreHeld, Remembers

LEMMA MeetKnownSchemaInv ==
  ASSUME Guarded, GrammarInv, NEW p \in Parser, NEW k \in Namespace, MeetKnownSchema(p, k)
  PROVE  GrammarInv'
<1> DEFINE r == PastDTD(resolver[p])
           s == Noted(r, k)
<1>0. k \in Keys /\ resolver[p] \in Resolvers
  BY Basics DEF Keys
<1>1. /\ r \in Resolvers /\ r.fGrammarBucket = resolver[p].fGrammarBucket
      /\ r.fGrammarFromPool = resolver[p].fGrammarFromPool
      /\ r.task \in {"content", "loadSchema"}
  <2>1. PICK task \in {"content", "loadSchema"} : r = [resolver[p] EXCEPT !.task = task]
    BY DEF PastDTD
  <2>2. task \in Tasks
    BY DEF Tasks
  <2> HIDE DEF r
  <2> QED
    BY <1>0, <2>1, <2>2, TaskSet
<1>2. /\ resolver' = [resolver EXCEPT ![p] = s] /\ UNCHANGED <<gram, pool, orphans, thrown>>
      /\ Runs(p)
  BY DEF MeetKnownSchema, MeetsSchemas, Runs, Idle
<1> HIDE DEF r
<1>3. /\ s \in Resolvers /\ s.fGrammarBucket = resolver[p].fGrammarBucket /\ s.task = r.task
      /\ Remembers(s)
  <2>1. Remembers(r)
    BY <1>1 DEF GrammarInv, FoundIsThere, Remembers
  <2> QED
    BY <1>0, <1>1, <2>1, NotedIs
<1>4. OwnedIn(gram', pool.fGrammarRegistry, Buckets, orphans)
  BY <1>2 DEF GrammarInv, Owned
<1> HIDE DEF s
<1> QED
  BY <1>1, <1>2, <1>3, <1>4, QuietStep DEF SubsetsAreHeld, Remembers

\* EndParse, AbandonLoad, and EndLoad when nothing is to be cached.
LEMMA EndInv ==
  ASSUME Guarded, GrammarInv, NEW p \in Parser, ~Idle(p),
         resolver' = [resolver EXCEPT ![p].task = "idle"],
         UNCHANGED <<gram, pool, orphans, thrown>>
  PROVE  GrammarInv'
<1> DEFINE s == [resolver[p] EXCEPT !.task = "idle"]
<1>1. /\ s \in Resolvers /\ s.fGrammarBucket = resolver[p].fGrammarBucket /\ s.task = "idle"
      /\ s.fGrammarFromPool = resolver[p].fGrammarFromPool
  BY Basics, TaskSet DEF Tasks
<1>2. /\ resolver' = [resolver EXCEPT ![p] = s] /\ Runs(p)
      /\ OwnedIn(gram', pool.fGrammarRegistry, Buckets, orphans)
  BY DEF GrammarInv, Owned, Runs
<1>3. Remembers(s)
  BY <1>1 DEF GrammarInv, FoundIsThere, Remembers
<1> HIDE DEF s
<1> QED
  BY <1>1, <1>2, <1>3, QuietStep DEF SubsetsAreHeld, Remembers
-----------------------------------------------------------------------------
(* Steps that empty the bucket of a parser *)

\* cacheGrammarFromParse and useCachedGrammarInParse delete its grammars.
LEMMA ResetIs ==
  ASSUME GrammarInv, NEW p \in Parser, NEW cache \in BOOLEAN, NEW use \in BOOLEAN
  PROVE  LET r == Reset(resolver[p], cache, use)
         IN  /\ r \in Resolvers /\ Remembers(r) /\ r.fGrammarBucket = Empty
             /\ r.fCacheGrammar = cache /\ r.fUseCachedGrammar = use
             /\ r.task = resolver[p].task
             /\ OwnedIn(Deleted(Bucket(p)), pool.fGrammarRegistry, [Buckets EXCEPT ![p] = Empty],
                        orphans)
             /\ Deleted(Bucket(p)) \in [Grammar -> Grammars]
             /\ \A g \in Free : Deleted(Bucket(p))[g].type = "none"
<1>1. Buckets[p] = resolver[p].fGrammarBucket
  BY DEF Buckets
<1>2. OwnedIn(Deleted(Bucket(p)), pool.fGrammarRegistry, [Buckets EXCEPT ![p] = Empty], orphans)
  BY <1>1, ResetOwned DEF Deleted, Bucket, GrammarInv, Owned
<1>3. resolver[p] \in Resolvers /\ Empty \in Tables /\ Remembers(resolver[p])
  BY Basics DEF GrammarInv, FoundIsThere
<1>4. Deleted(Bucket(p)) \in [Grammar -> Grammars]
  BY <1>2 DEF OwnedIn, Typed
<1>5. \A g \in Free : Deleted(Bucket(p))[g].type = "none"
  BY DEF Deleted, Free, Unallocated
<1> QED
  BY <1>2, <1>3, <1>4, <1>5 DEF Reset, Resolvers, Remembers

\* A grammar that is found after that is one of the pool's, which is not locked
\* when it is the nameless one.
LEMMA ResetFinds ==
  ASSUME GrammarInv, NEW r \in Resolvers, Remembers(r), r.fGrammarBucket = Empty,
         Get(r, DtdKey) # NoGrammar
  PROVE  Get(r, DtdKey) \in Grammar /\ Get(r, DtdKey) = Nameless /\ ~pool.fLocked
<1>1. r.fGrammarBucket[DtdKey] = NoGrammar /\ DtdKey \in Keys
  BY Basics DEF Empty
<1>2. Get(r, DtdKey) = Nameless /\ Get(r, DtdKey) \in Grammar
  BY <1>1, GetIs DEF Nameless
<1> QED
  BY <1>2 DEF GrammarInv, LockedIsNamed

LEMMA ScanResetFoundInv ==
  ASSUME Guarded, GrammarInv, NEW p \in Parser, NEW cache \in BOOLEAN, NEW use \in BOOLEAN,
         ScanResetFound(p, cache, use)
  PROVE  GrammarInv'
<1> DEFINE r == Reset(resolver[p], cache, use)
           g == Get(r, DtdKey)
           n == Noted(r, DtdKey)
           s == WithDTD(n, g)
           G == Deleted(Bucket(p))
<1>1. /\ g # NoGrammar /\ gram' = [G EXCEPT ![g].filled = FALSE] /\ MayStart(p)
      /\ resolver' = [resolver EXCEPT ![p] = s] /\ UNCHANGED <<pool, orphans, thrown>>
  BY DEF ScanResetFound
<1>2. /\ r \in Resolvers /\ Remembers(r) /\ r.fGrammarBucket = Empty
      /\ OwnedIn(G, pool.fGrammarRegistry, [Buckets EXCEPT ![p] = Empty], orphans)
      /\ G \in [Grammar -> Grammars]
  BY ResetIs
<1> HIDE DEF r, G
<1>3. g \in Grammar /\ g = Nameless /\ ~pool.fLocked
  BY <1>1, <1>2, ResetFinds
<1>4. n \in Resolvers /\ Remembers(n) /\ n.fGrammarBucket = Empty
  BY <1>2, Basics, NotedIs
<1> HIDE DEF g, n
<1>5. /\ s \in Resolvers /\ Remembers(s) /\ s.fGrammarBucket = Empty
      /\ s.fDTDGrammar = g /\ s.task = "prolog"
  BY <1>3, <1>4 DEF WithDTD, Resolvers, Tasks, Remembers
<1> HIDE DEF s
<1>6. SubsetsAreHeld(s)
  BY <1>3, <1>5 DEF SubsetsAreHeld, Empty
<1>7. OwnedIn(gram', pool.fGrammarRegistry, [Buckets EXCEPT ![p] = s.fGrammarBucket], orphans)
  <2>1. /\ gram' \in [Grammar -> Grammars]
        /\ \A x \in Grammar : gram'[x].type = G[x].type /\ gram'[x].key = G[x].key
    BY <1>1, <1>2, <1>3 DEF Grammars
  <2> QED
    BY <1>2, <1>5, <2>1, OwnedAlike
<1>8. Runs(p) /\ thrown' \in BOOLEAN
  BY <1>1, Basics DEF Runs
<1> QED
  BY <1>1, <1>5, <1>6, <1>7, <1>8, BucketStep

LEMMA LoadDTDThrowsInv ==
  ASSUME Guarded, GrammarInv, NEW p \in Parser, NEW k \in SystemId, LoadDTDThrows(p, k)
  PROVE  GrammarInv'
<1> DEFINE r == Reset(resolver[p], FALSE, TRUE)
           g == Get(r, DtdKey)
           s == Noted(r, DtdKey)
           G == Deleted(Bucket(p))
<1>1. /\ g # NoGrammar /\ gram' = [G EXCEPT ![g].filled = FALSE] /\ MayStart(p)
      /\ resolver' = [resolver EXCEPT ![p] = s] /\ UNCHANGED <<pool, orphans>>
      /\ thrown' = TRUE
  BY DEF LoadDTDThrows
<1>2. /\ r \in Resolvers /\ Remembers(r) /\ r.fGrammarBucket = Empty
      /\ OwnedIn(G, pool.fGrammarRegistry, [Buckets EXCEPT ![p] = Empty], orphans)
      /\ G \in [Grammar -> Grammars] /\ r.task = resolver[p].task
  BY ResetIs
<1> HIDE DEF r, G
<1>3. g \in Grammar
  BY <1>1, <1>2, ResetFinds
<1>4. s \in Resolvers /\ Remembers(s) /\ s.fGrammarBucket = Empty /\ s.task = resolver[p].task
  BY <1>2, Basics, NotedIs
<1> HIDE DEF g, s
<1>5. SubsetsAreHeld(s)
  BY <1>1, <1>4 DEF SubsetsAreHeld, MayStart, Idle
<1>6. OwnedIn(gram', pool.fGrammarRegistry, [Buckets EXCEPT ![p] = s.fGrammarBucket], orphans)
  <2>1. /\ gram' \in [Grammar -> Grammars]
        /\ \A x \in Grammar : gram'[x].type = G[x].type /\ gram'[x].key = G[x].key
    BY <1>1, <1>2, <1>3 DEF Grammars
  <2> QED
    BY <1>2, <1>4, <2>1, OwnedAlike
<1>7. Runs(p)
  BY <1>1 DEF Runs
<1> QED
  BY <1>1, <1>4, <1>5, <1>6, <1>7, BucketStep

LEMMA LoadSeenSchemaInv ==
  ASSUME Guarded, GrammarInv, NEW p \in Parser, NEW k \in Namespace, LoadSeenSchema(p, k)
  PROVE  GrammarInv'
<1> DEFINE r == Reset(resolver[p], FALSE, TRUE)
           n == Noted(r, k)
           s == [n EXCEPT !.task = "loadSchema"]
<1>1. /\ gram' = Deleted(Bucket(p)) /\ MayStart(p) /\ resolver' = [resolver EXCEPT ![p] = s]
      /\ UNCHANGED <<pool, orphans, thrown>>
  BY DEF LoadSeenSchema
<1>2. /\ r \in Resolvers /\ Remembers(r) /\ r.fGrammarBucket = Empty
      /\ OwnedIn(gram', pool.fGrammarRegistry, [Buckets EXCEPT ![p] = Empty], orphans)
  BY <1>1, ResetIs
<1> HIDE DEF r
<1>3. k \in Keys
  BY DEF Keys
<1>4. n \in Resolvers /\ Remembers(n) /\ n.fGrammarBucket = Empty
  BY <1>2, <1>3, NotedIs
<1> HIDE DEF n
<1>5. s \in Resolvers /\ Remembers(s) /\ s.fGrammarBucket = Empty /\ s.task = "loadSchema"
  BY <1>4 DEF Resolvers, Tasks, Remembers
<1> HIDE DEF s
<1>6. SubsetsAreHeld(s) /\ Runs(p) /\ thrown' \in BOOLEAN
  BY <1>1, <1>5, Basics DEF SubsetsAreHeld, Runs
<1> QED
  BY <1>1, <1>2, <1>5, <1>6, BucketStep
-----------------------------------------------------------------------------
(* Steps that put a new grammar into the pool or into the bucket *)

LEMMA PutNew ==
  ASSUME Guarded, GrammarInv, NEW p \in Parser, Runs(p), NEW r \in Resolvers, Remembers(r),
         NEW G,
         OwnedIn(G, pool.fGrammarRegistry, [Buckets EXCEPT ![p] = r.fGrammarBucket], orphans),
         NEW g \in Grammar, G[g].type = "none", NEW n \in Grammars, n.type # "none",
         r.fGrammarBucket[n.key] = NoGrammar,
         gram' = [G EXCEPT ![g] = n], Put(p, r, n.key, g), UNCHANGED <<orphans, thrown>>,
         r.task \in {"prolog", "subset"} =>
           /\ n.key = DtdKey /\ r.fDTDGrammar = g
           /\ \A k \in Keys \ {DtdKey} : r.fGrammarBucket[k] = NoGrammar
           /\ r.fCacheGrammar => pool.fLocked \/ Nameless = NoGrammar
  PROVE  GrammarInv'
<1> DEFINE R == pool.fGrammarRegistry
           B == [Buckets EXCEPT ![p] = r.fGrammarBucket]
<1>0. /\ n.key \in Keys /\ R \in Tables /\ r.fGrammarBucket \in Tables
      /\ pool \in PoolType /\ thrown' \in BOOLEAN
      /\ B[p] = r.fGrammarBucket /\ OwnedIn(G, R, B, orphans)
      /\ R = pool.fGrammarRegistry
  BY Basics DEF Grammars, Resolvers, Buckets
<1> HIDE DEF R, B
<1>1. CASE Takes(r, n.key)
  <2>1. /\ pool' = [pool EXCEPT !.fGrammarRegistry = [R EXCEPT ![n.key] = g]]
        /\ resolver' = [resolver EXCEPT ![p] = r]
        /\ R[n.key] = NoGrammar /\ ~pool.fLocked
    BY <1>0, <1>1 DEF Put, Takes, Accepts
  <2>2. /\ pool'.fGrammarRegistry = [R EXCEPT ![n.key] = g] /\ pool'.fLocked = pool.fLocked
        /\ pool' \in PoolType
    BY <1>0, <2>1 DEF PoolType, Tables
  <2>3. resolver'[p] = r /\ \A q \in Parser : q # p => resolver'[q] = resolver[q]
    BY <2>1, Basics
  <2>4. Buckets' = B
    BY <2>3, BucketsMove DEF B
  <2>5. OwnedIn([G EXCEPT ![g] = n], [R EXCEPT ![n.key] = g], B, orphans)
    BY <1>0, <2>1, NewInPool
  <2>6. Owned'
    BY <2>2, <2>4, <2>5 DEF Owned
  <2>7. \A k \in Keys : r.fGrammarFromPool[k] \in {NoGrammar, pool'.fGrammarRegistry[k]}
    BY <1>0, <2>1, <2>2 DEF Remembers, Tables
  <2>8. SubsetsAreHeld(resolver[p])'
    BY <1>0, <2>1, <2>2, <2>3 DEF SubsetsAreHeld, Nameless, Tables
  <2> QED
    BY <1>0, <2>1, <2>2, <2>6, <2>7, <2>8, ParserStep
<1>2. CASE ~Takes(r, n.key)
  <2> DEFINE b == [r.fGrammarBucket EXCEPT ![n.key] = g]
             s == [r EXCEPT !.fGrammarBucket = b]
  <2>1. resolver' = [resolver EXCEPT ![p] = s] /\ UNCHANGED pool
    BY <1>2 DEF Put
  <2>2. b \in Tables /\ b[n.key] = g /\ \A k \in Keys : k # n.key => b[k] = r.fGrammarBucket[k]
    BY <1>0 DEF Tables
  <2> HIDE DEF b
  <2>3. /\ s \in Resolvers /\ s.fGrammarBucket = b /\ Remembers(s)
        /\ s.task = r.task /\ s.fDTDGrammar = r.fDTDGrammar
        /\ s.fCacheGrammar = r.fCacheGrammar
    BY <2>2 DEF Resolvers, Remembers
  <2> HIDE DEF s
  <2>4. [B EXCEPT ![p] = [B[p] EXCEPT ![n.key] = g]] = [Buckets EXCEPT ![p] = b]
    BY <1>0 DEF Buckets, B, b
  <2>5. OwnedIn([G EXCEPT ![g] = n], R, [B EXCEPT ![p] = [B[p] EXCEPT ![n.key] = g]], orphans)
    BY <1>0, NewInBucket
  <2>6. OwnedIn(gram', R, [Buckets EXCEPT ![p] = s.fGrammarBucket], orphans)
    BY <2>3, <2>4, <2>5
  <2>7. SubsetsAreHeld(s)
    BY <1>2, <2>2, <2>3 DEF SubsetsAreHeld, Takes, Accepts, Nameless
  <2> QED
    BY <1>0, <2>1, <2>3, <2>6, <2>7, BucketStep
<1> QED
  BY <1>1, <1>2

LEMMA ScanResetNewInv ==
  ASSUME Guarded, GrammarInv, NEW p \in Parser, NEW cache \in BOOLEAN, NEW use \in BOOLEAN,
         cache => use, ScanResetNew(p, cache, use)
  PROVE  GrammarInv'
<1> DEFINE r == Reset(resolver[p], cache, use)
           G == Deleted(Bucket(p))
           n == [type |-> "dtd", key |-> DtdKey, filled |-> FALSE]
<1>1. PICK g \in Free : gram' = [G EXCEPT ![g] = n] /\ Put(p, WithDTD(r, g), DtdKey, g)
  BY DEF ScanResetNew
<1>2. /\ Get(r, DtdKey) = NoGrammar /\ MayStart(p) /\ UNCHANGED <<orphans, thrown>>
      /\ g \in Grammar
  BY <1>1 DEF ScanResetNew, Free
<1>3. /\ r \in Resolvers /\ Remembers(r) /\ r.fGrammarBucket = Empty
      /\ r.fCacheGrammar = cache /\ r.fUseCachedGrammar = use
      /\ OwnedIn(G, pool.fGrammarRegistry, [Buckets EXCEPT ![p] = Empty], orphans)
      /\ G[g].type = "none"
  BY <1>1, ResetIs
<1>4. n \in Grammars /\ n.type = "dtd" /\ n.key = DtdKey /\ DtdKey \in Keys
  BY Basics DEF Grammars
<1> DEFINE s == WithDTD(r, g)
<1> HIDE DEF r, G, n
<1>5. cache => Nameless = NoGrammar
  BY <1>2, <1>3, <1>4, GetIs DEF Empty, Nameless
<1>6. /\ s \in Resolvers /\ Remembers(s) /\ s.fGrammarBucket = Empty
      /\ s.fCacheGrammar = cache /\ s.fDTDGrammar = g
  BY <1>2, <1>3 DEF WithDTD, Resolvers, Tasks, Remembers
<1>7. \A k \in Keys : s.fGrammarBucket[k] = NoGrammar
  BY <1>6 DEF Empty
<1>8. /\ Put(p, s, n.key, g) /\ Runs(p)
      /\ OwnedIn(G, pool.fGrammarRegistry, [Buckets EXCEPT ![p] = s.fGrammarBucket], orphans)
  BY <1>1, <1>2, <1>3, <1>4, <1>6 DEF Runs
<1> HIDE DEF s
<1> QED
  BY <1>1, <1>2, <1>3, <1>4, <1>5, <1>6, <1>7, <1>8, PutNew

LEMMA LoadDTDInv ==
  ASSUME Guarded, GrammarInv, NEW p \in Parser, NEW k \in SystemId, NEW toCache \in BOOLEAN,
         LoadDTD(p, k, toCache)
  PROVE  GrammarInv'
<1> DEFINE r == Reset(resolver[p], FALSE, toCache)
           G == Deleted(Bucket(p))
           key == IF toCache THEN k ELSE DtdKey
           n == [type |-> "dtd", key |-> key, filled |-> TRUE]
<1>0. key \in Keys
  BY DEF Keys
<1>1. PICK g \in Free :
        /\ gram' = [G EXCEPT ![g] = n]
        /\ Put(p, [r EXCEPT !.fDTDGrammar = g, !.task = "loadDTD"], key, g)
  BY DEF LoadDTD
<1>2. MayStart(p) /\ UNCHANGED <<orphans, thrown>> /\ g \in Grammar
  BY <1>1 DEF LoadDTD, Free
<1>3. /\ r \in Resolvers /\ Remembers(r) /\ r.fGrammarBucket = Empty
      /\ OwnedIn(G, pool.fGrammarRegistry, [Buckets EXCEPT ![p] = Empty], orphans)
      /\ G[g].type = "none"
  BY <1>1, ResetIs
<1> HIDE DEF key
<1>4. n \in Grammars /\ n.type = "dtd" /\ n.key = key
  BY <1>0 DEF Grammars
<1> DEFINE s == [r EXCEPT !.fDTDGrammar = g, !.task = "loadDTD"]
<1> HIDE DEF r, G, n
<1>5. /\ s \in Resolvers /\ Remembers(s) /\ s.fGrammarBucket = Empty /\ s.task = "loadDTD"
  BY <1>2, <1>3 DEF Resolvers, Tasks, Remembers
<1>6. s.fGrammarBucket[n.key] = NoGrammar
  BY <1>0, <1>4, <1>5 DEF Empty
<1>7. /\ Put(p, s, n.key, g) /\ Runs(p)
      /\ OwnedIn(G, pool.fGrammarRegistry, [Buckets EXCEPT ![p] = s.fGrammarBucket], orphans)
  BY <1>1, <1>2, <1>3, <1>4, <1>5 DEF Runs
<1> HIDE DEF s
<1> QED
  BY <1>1, <1>2, <1>3, <1>4, <1>5, <1>6, <1>7, PutNew

LEMMA LoadSchemaInv ==
  ASSUME Guarded, GrammarInv, NEW p \in Parser, NEW k \in Namespace, NEW toCache \in BOOLEAN,
         LoadSchema(p, k, toCache)
  PROVE  GrammarInv'
<1> DEFINE r == Reset(resolver[p], FALSE, toCache)
           m == Noted(r, k)
           s == [m EXCEPT !.task = "loadSchema"]
           G == Deleted(Bucket(p))
           n == [type |-> "schema", key |-> k, filled |-> TRUE]
<1>0. k \in Keys
  BY DEF Keys
<1>1. PICK g \in Free : gram' = [G EXCEPT ![g] = n] /\ Put(p, s, k, g)
  BY DEF LoadSchema
<1>2. MayStart(p) /\ UNCHANGED <<orphans, thrown>> /\ g \in Grammar
  BY <1>1 DEF LoadSchema, Free
<1>3. /\ r \in Resolvers /\ Remembers(r) /\ r.fGrammarBucket = Empty
      /\ OwnedIn(G, pool.fGrammarRegistry, [Buckets EXCEPT ![p] = Empty], orphans)
      /\ G[g].type = "none"
  BY <1>1, ResetIs
<1>4. n \in Grammars /\ n.type = "schema" /\ n.key = k
  BY <1>0 DEF Grammars
<1> HIDE DEF r, G, n
<1>5. m \in Resolvers /\ Remembers(m) /\ m.fGrammarBucket = Empty
  BY <1>0, <1>3, NotedIs
<1> HIDE DEF m
<1>6. /\ s \in Resolvers /\ Remembers(s) /\ s.fGrammarBucket = Empty /\ s.task = "loadSchema"
  BY <1>5 DEF Resolvers, Tasks, Remembers
<1>7. s.fGrammarBucket[n.key] = NoGrammar
  BY <1>0, <1>4, <1>6 DEF Empty
<1>8. /\ Put(p, s, n.key, g) /\ Runs(p)
      /\ OwnedIn(G, pool.fGrammarRegistry, [Buckets EXCEPT ![p] = s.fGrammarBucket], orphans)
  BY <1>1, <1>2, <1>3, <1>4, <1>6 DEF Runs
<1> HIDE DEF s
<1> QED
  BY <1>1, <1>2, <1>3, <1>4, <1>6, <1>7, <1>8, PutNew

LEMMA MeetNewSchemaInv ==
  ASSUME Guarded, GrammarInv, NEW p \in Parser, NEW k \in Namespace, MeetNewSchema(p, k)
  PROVE  GrammarInv'
<1> DEFINE r == resolver[p]
           s == PastDTD(r)
           n == [type |-> "schema", key |-> k, filled |-> TRUE]
<1>0. k \in Keys /\ r \in Resolvers /\ Remembers(r)
  BY Basics DEF Keys, GrammarInv, FoundIsThere
<1>1. PICK g \in Free : gram' = [gram EXCEPT ![g] = n] /\ Put(p, s, k, g)
  BY DEF MeetNewSchema
<1>2. /\ Get(r, k) = NoGrammar /\ UNCHANGED <<orphans, thrown>> /\ Runs(p)
      /\ g \in Grammar /\ gram[g].type = "none"
  BY <1>1 DEF MeetNewSchema, MeetsSchemas, Free, Runs, Idle
<1>3. n \in Grammars /\ n.type = "schema" /\ n.key = k
  BY <1>0 DEF Grammars
<1> HIDE DEF n
<1>4. /\ s \in Resolvers /\ Remembers(s) /\ s.fGrammarBucket = r.fGrammarBucket
      /\ s.task \in {"content", "loadSchema"}
  <2>1. PICK task \in {"content", "loadSchema"} : s = [r EXCEPT !.task = task]
    BY DEF PastDTD
  <2>2. task \in Tasks
    BY DEF Tasks
  <2> HIDE DEF s, r
  <2> QED
    BY <1>0, <2>1, <2>2, TaskSet DEF Remembers
<1>5. r.fGrammarBucket[k] = NoGrammar
  BY <1>0, <1>2, GetIs
<1>6. /\ Put(p, s, n.key, g) /\ s.fGrammarBucket[n.key] = NoGrammar
      /\ OwnedIn(gram, pool.fGrammarRegistry, [Buckets EXCEPT ![p] = s.fGrammarBucket], orphans)
  <2>1. [Buckets EXCEPT ![p] = s.fGrammarBucket] = Buckets
    BY <1>4 DEF Buckets
  <2> QED
    BY <1>1, <1>3, <1>4, <1>5, <2>1 DEF GrammarInv, Owned
<1> HIDE DEF s, r
<1> QED
  BY <1>1, <1>2, <1>3, <1>4, <1>6, PutNew
-----------------------------------------------------------------------------
(* Steps that hand grammars over *)

\* cacheGrammars: what the pool accepts leaves the bucket.
LEMMA EndLoadInv ==
  ASSUME Guarded, GrammarInv, NEW p \in Parser, EndLoad(p) PROVE GrammarInv'
<1> DEFINE r == resolver[p]
           R == pool.fGrammarRegistry
           K == {k \in Keys : Accepts(k)}
           after == [k \in Keys |-> IF k \in K THEN r.fGrammarBucket[k] ELSE R[k]]
           left == [k \in Keys |-> IF k \in K THEN NoGrammar ELSE r.fGrammarBucket[k]]
           s == [r EXCEPT !.fGrammarBucket = left, !.task = "idle"]
<1>0. /\ r \in Resolvers /\ Remembers(r) /\ R \in Tables /\ pool \in PoolType /\ Runs(p)
      /\ thrown' \in BOOLEAN /\ ~Idle(p) /\ Buckets[p] = r.fGrammarBucket
      /\ UNCHANGED <<gram, orphans, thrown>>
  BY Basics DEF GrammarInv, FoundIsThere, EndLoad, Runs, Idle, Buckets
<1>1. CASE ~r.fUseCachedGrammar
  BY <1>0, <1>1, EndInv DEF EndLoad
<1>2. CASE r.fUseCachedGrammar
  <2>1. /\ pool' = [pool EXCEPT !.fGrammarRegistry = after]
        /\ resolver' = [resolver EXCEPT ![p] = s]
    <3>1. pool' = [pool EXCEPT !.fGrammarRegistry =
                     [k \in Keys |-> IF Accepts(k) THEN r.fGrammarBucket[k] ELSE R[k]]]
      BY <1>2 DEF EndLoad
    <3>2. after = [k \in Keys |-> IF Accepts(k) THEN r.fGrammarBucket[k] ELSE R[k]]
      OBVIOUS
    <3>3. resolver' = [resolver EXCEPT ![p] =
             [[r EXCEPT !.fGrammarBucket = [k \in Keys |-> IF Accepts(k) THEN NoGrammar
                                                           ELSE r.fGrammarBucket[k]]]
                EXCEPT !.task = "idle"]]
      BY <1>2 DEF EndLoad, Handed
    <3>4. left = [k \in Keys |-> IF Accepts(k) THEN NoGrammar ELSE r.fGrammarBucket[k]]
      OBVIOUS
    <3> QED
      BY <3>1, <3>2, <3>3, <3>4
  <2>2. K \in SUBSET Keys /\ \A k \in K : R[k] = NoGrammar /\ ~pool.fLocked
    BY DEF Accepts
  <2>3. OwnedIn(gram, after, [Buckets EXCEPT ![p] = left], orphans)
    <3> HIDE DEF K, R
    <3>1. OwnedIn(gram, R, Buckets, orphans)
      BY DEF R, GrammarInv, Owned
    <3>2. OwnedIn(gram, [k \in Keys |-> IF k \in K THEN Buckets[p][k] ELSE R[k]],
                  [Buckets EXCEPT ![p] = [k \in Keys |-> IF k \in K THEN NoGrammar
                                                         ELSE Buckets[p][k]]], orphans)
      BY <2>2, <3>1, HandedOver
    <3> QED
      BY <1>0, <3>2
  <2>4. after \in Tables /\ left \in Tables
    BY <1>0 DEF Tables, Resolvers
  <2>5. pool.fLocked => after = R
    BY <1>0, <2>2 DEF Tables
  <2>6. \A k \in Keys : r.fGrammarFromPool[k] \in {NoGrammar, after[k]}
    BY <1>0, <2>2 DEF Remembers
  <2> HIDE DEF after, left, K
  <2>7. /\ s \in Resolvers /\ s.fGrammarBucket = left /\ s.task = "idle"
        /\ s.fGrammarFromPool = r.fGrammarFromPool
    BY <1>0, <2>4 DEF Resolvers, Tasks
  <2> HIDE DEF s
  <2>8. /\ pool' \in PoolType /\ pool'.fLocked = pool.fLocked /\ pool'.fGrammarRegistry = after
    BY <1>0, <2>1, <2>4 DEF PoolType
  <2>9. resolver'[p] = s /\ \A q \in Parser : q # p => resolver'[q] = resolver[q]
    BY <2>1, Basics
  <2>10. Buckets' = [Buckets EXCEPT ![p] = left]
    BY <2>7, <2>9, BucketsMove
  <2>11. Owned'
    BY <1>0, <2>3, <2>8, <2>10 DEF Owned
  <2>12. SubsetsAreHeld(resolver[p])'
    BY <2>7, <2>9 DEF SubsetsAreHeld
  <2>13. \A k \in Keys : s.fGrammarFromPool[k] \in {NoGrammar, pool'.fGrammarRegistry[k]}
    BY <2>6, <2>7, <2>8
  <2> QED
    BY <1>0, <2>1, <2>5, <2>7, <2>8, <2>11, <2>12, <2>13, ParserStep, ZenonT(60)
<1> QED
  BY <1>1, <1>2

\* What a DTD grammar's new name changes of who owns what, when nothing has it.
LEMMA NamedOwned ==
  ASSUME NEW R, NEW B, NEW O, OwnedIn(gram, R, B, O), NEW g \in O, NEW k \in Keys
  PROVE  OwnedIn(Named(g, k), R, B, O) /\ Named(g, k)[g].key = k
<1> DEFINE H == Named(g, k)
<1>1. gram \in [Grammar -> Grammars] /\ g \in Grammar
  BY DEF OwnedIn, Typed
<1> DEFINE n == [gram[g] EXCEPT !.key = k, !.filled = TRUE]
<1>2. H = [gram EXCEPT ![g] = n]
  BY <1>1 DEF Named, Grammars
<1>3. n \in Grammars /\ n.type = gram[g].type /\ n.key = k
  BY <1>1 DEF Grammars
<1> HIDE DEF H, n
<1>4. /\ H \in [Grammar -> Grammars] /\ H[g].key = k
      /\ \A x \in Grammar : H[x].type = gram[x].type /\ (x \notin O => H[x].key = gram[x].key)
  BY <1>1, <1>2, <1>3
<1>5. OwnedIn(H, R, B, O)
  BY <1>4, OwnedAlike
<1> QED
  BY <1>4, <1>5 DEF H

\* orphanGrammar, setSystemId, putGrammar: from the pool into the pool, or into
\* the bucket if the pool has a grammar of that name.
LEMMA NameInPoolInv ==
  ASSUME Guarded, GrammarInv, NEW p \in Parser, NEW k \in SystemId, NameInPool(p, k)
  PROVE  GrammarInv'
<1> DEFINE r == resolver[p]
           g == r.fDTDGrammar
           R == pool.fGrammarRegistry
           given == [R EXCEPT ![DtdKey] = NoGrammar]
           named == [given EXCEPT ![k] = g]
           found == [r.fGrammarFromPool EXCEPT ![DtdKey] = NoGrammar]
           bucket == [r.fGrammarBucket EXCEPT ![k] = g]
           P == orphans \cup {g}
           H == Named(g, k)
           after == [r EXCEPT !.fGrammarFromPool = found, !.task = "content"]
<1>0. /\ r \in Resolvers /\ Remembers(r) /\ R \in Tables /\ pool \in PoolType
      /\ thrown' \in BOOLEAN /\ k \in Keys /\ DtdKey \in Keys /\ k # DtdKey
      /\ resolver \in [Parser -> Resolvers] /\ Buckets[p] = r.fGrammarBucket
      /\ r.task \in {"prolog", "subset"} /\ ~pool.fLocked /\ r.fCacheGrammar
      /\ UNCHANGED orphans /\ r.fGrammarFromPool \in Tables /\ r.fGrammarBucket \in Tables
  BY Basics, PoolAssumption DEF GrammarInv, FoundIsThere, NameInPool, ToScan, GivesUp, Keys,
     Buckets, Resolvers
<1>1. g \in Grammar /\ Nameless = g /\ R[DtdKey] = g /\ R[DtdKey] # NoGrammar
      /\ r.fGrammarBucket[k] = NoGrammar
  BY <1>0, Basics, PoolAssumption DEF SubsetsAreHeld, Nameless
<1>2. Runs(p)
  BY <1>0 DEF Runs, Idle
<1>3. /\ gram' = H
      /\ pool' = [pool EXCEPT !.fGrammarRegistry = IF Accepts(k) THEN named ELSE given]
      /\ resolver' = [resolver EXCEPT ![p] =
           IF Accepts(k) THEN after ELSE [after EXCEPT !.fGrammarBucket = bucket]]
      /\ UNCHANGED thrown
  <2>1. after = [r EXCEPT !.fGrammarFromPool[DtdKey] = NoGrammar, !.task = "content"]
    BY <1>0 DEF Resolvers
  <2>2. [after EXCEPT !.fGrammarBucket = bucket] = [after EXCEPT !.fGrammarBucket[k] = g]
    BY <1>0 DEF Resolvers
  <2> HIDE DEF after
  <2>3. /\ gram' = H /\ UNCHANGED thrown
        /\ pool' = [pool EXCEPT !.fGrammarRegistry = IF Accepts(k) THEN named ELSE given]
        /\ resolver' = [resolver EXCEPT ![p] =
             IF Accepts(k) THEN after ELSE [after EXCEPT !.fGrammarBucket[k] = g]]
    BY <1>1, <2>1 DEF NameInPool
  <2> QED
    BY <2>2, <2>3
<1>4. OwnedIn(gram, R, Buckets, orphans)
  BY DEF GrammarInv, Owned
<1> HIDE DEF R
<1>5. OwnedIn(gram, given, Buckets, P) /\ g \notin orphans
  BY <1>0, <1>1, <1>4, TakenFromPool
<1>6. P \ {g} = orphans /\ g \in P
  BY <1>5
<1> HIDE DEF P
<1>7. OwnedIn(H, given, Buckets, P) /\ H[g].key = k
  BY <1>0, <1>5, <1>6, NamedOwned
<1>8. given \in Tables /\ named \in Tables /\ found \in Tables /\ bucket \in Tables
  BY <1>0, <1>1 DEF Tables
<1>9. /\ \A x \in Keys : found[x] \in {NoGrammar, given[x]}
      /\ R[k] = NoGrammar => \A x \in Keys : found[x] \in {NoGrammar, named[x]}
  <2>1. /\ found[DtdKey] = NoGrammar
        /\ \A x \in Keys : x # DtdKey =>
             /\ found[x] = r.fGrammarFromPool[x] /\ given[x] = R[x]
             /\ x # k => named[x] = R[x]
    BY <1>0 DEF Tables
  <2>2. \A x \in Keys : r.fGrammarFromPool[x] \in {NoGrammar, R[x]}
    BY <1>0 DEF Remembers, R
  <2> QED
    BY <2>1, <2>2
<1> HIDE DEF H
<1>10. CASE Accepts(k)
  <2> DEFINE s == after
  <2>1. R[k] = NoGrammar /\ given[k] = NoGrammar
    BY <1>0, <1>10 DEF Accepts, R
  <2>2. OwnedIn(H, named, Buckets, orphans)
    <3> HIDE DEF given
    <3>1. OwnedIn(H, named, Buckets, P \ {g})
      BY <1>0, <1>6, <1>7, <2>1, GivenToPool
    <3> QED
      BY <1>6, <3>1
  <2> HIDE DEF named, found, given
  <2>3. /\ s \in Resolvers /\ s.fGrammarBucket = r.fGrammarBucket /\ s.task = "content"
        /\ s.fGrammarFromPool = found
    BY <1>0, <1>8 DEF Resolvers, Tasks
  <2>4. resolver' = [resolver EXCEPT ![p] = s] /\ pool' = [pool EXCEPT !.fGrammarRegistry = named]
    BY <1>3, <1>10
  <2> HIDE DEF s
  <2>5. /\ pool' \in PoolType /\ pool'.fLocked = pool.fLocked /\ pool'.fGrammarRegistry = named
        /\ resolver'[p] = s /\ \A q \in Parser : q # p => resolver'[q] = resolver[q]
    BY <1>0, <1>8, <2>4 DEF PoolType
  <2>6. Buckets' = Buckets
    BY <1>0, <2>3, <2>5, BucketsMove DEF Buckets
  <2>7. Owned' /\ SubsetsAreHeld(resolver[p])'
    BY <1>0, <1>3, <2>2, <2>3, <2>5, <2>6 DEF Owned, SubsetsAreHeld
  <2> QED
    BY <1>0, <1>2, <1>9, <2>1, <2>3, <2>4, <2>5, <2>7, ParserStep
<1>11. CASE ~Accepts(k)
  <2> DEFINE s == [after EXCEPT !.fGrammarBucket = bucket]
  <2>1. OwnedIn(H, given, [Buckets EXCEPT ![p] = bucket], orphans)
    <3> HIDE DEF given
    <3>1. OwnedIn(H, given, [Buckets EXCEPT ![p] = [Buckets[p] EXCEPT ![k] = g]], P \ {g})
      BY <1>0, <1>1, <1>6, <1>7, GivenToBucket
    <3> QED
      BY <1>0, <1>6, <3>1
  <2> HIDE DEF bucket, found, given
  <2>2. /\ s \in Resolvers /\ s.fGrammarBucket = bucket /\ s.task = "content"
        /\ s.fGrammarFromPool = found
    BY <1>0, <1>8 DEF Resolvers, Tasks
  <2>3. resolver' = [resolver EXCEPT ![p] = s] /\ pool' = [pool EXCEPT !.fGrammarRegistry = given]
    BY <1>3, <1>11
  <2> HIDE DEF s
  <2>4. /\ pool' \in PoolType /\ pool'.fLocked = pool.fLocked /\ pool'.fGrammarRegistry = given
        /\ resolver'[p] = s /\ \A q \in Parser : q # p => resolver'[q] = resolver[q]
    BY <1>0, <1>8, <2>3 DEF PoolType
  <2>5. Buckets' = [Buckets EXCEPT ![p] = bucket]
    BY <2>2, <2>4, BucketsMove
  <2>6. Owned' /\ SubsetsAreHeld(resolver[p])'
    BY <1>0, <1>3, <2>1, <2>2, <2>4, <2>5 DEF Owned, SubsetsAreHeld
  <2> QED
    BY <1>0, <1>2, <1>9, <2>2, <2>3, <2>4, <2>6, ParserStep
<1> QED
  BY <1>10, <1>11

\* A locked pool gives nothing away: from the bucket into the bucket.
LEMMA NameInBucketInv ==
  ASSUME Guarded, GrammarInv, NEW p \in Parser, NEW k \in SystemId, NameInBucket(p, k)
  PROVE  GrammarInv'
<1> DEFINE n == Switched(resolver[p])
           g == resolver[p].fDTDGrammar
           taken == [n.fGrammarBucket EXCEPT ![DtdKey] = NoGrammar]
           bucket == [taken EXCEPT ![k] = g]
           s == [n EXCEPT !.fGrammarBucket = bucket, !.task = "content"]
           P == orphans \cup {g}
           H == Named(g, k)
<1>0. /\ resolver[p].task \in {"prolog", "subset"} /\ pool.fLocked
      /\ UNCHANGED <<orphans, thrown>> /\ thrown' \in BOOLEAN
      /\ k \in Keys /\ DtdKey \in Keys /\ k # DtdKey /\ gram' = H
  BY Basics, PoolAssumption DEF NameInBucket, ToScan, GivesUp, Keys
<1>1. /\ n \in Resolvers /\ Remembers(n) /\ n.fGrammarBucket = resolver[p].fGrammarBucket
      /\ n.fGrammarBucket = Buckets[p] /\ n.fGrammarBucket \in Tables
  BY SwitchedIs DEF Buckets, Resolvers
<1>2. resolver' = [resolver EXCEPT ![p] = s] /\ UNCHANGED pool
  BY <1>0 DEF NameInBucket, Put, Takes, Accepts
<1> HIDE DEF n
<1>3. /\ g \in Grammar /\ n.fGrammarBucket[DtdKey] = g /\ n.fGrammarBucket[k] = NoGrammar
      /\ g # NoGrammar
  <2>1. SubsetsAreHeld(resolver[p])
    BY Basics
  <2>2. g \in Grammar /\ n.fGrammarBucket[DtdKey] = g
    BY <1>0, <1>1, <2>1 DEF SubsetsAreHeld
  <2>3. n.fGrammarBucket[k] = NoGrammar
    BY <1>0, <1>1, <2>1 DEF SubsetsAreHeld
  <2> QED
    BY <2>2, <2>3, PoolAssumption
<1>4. OwnedIn(gram, pool.fGrammarRegistry, Buckets, orphans) /\ Buckets \in [Parser -> Tables]
  BY DEF GrammarInv, Owned, OwnedIn, Typed
<1>5. /\ OwnedIn(gram, pool.fGrammarRegistry, [Buckets EXCEPT ![p] = taken], P)
      /\ g \notin orphans
  <2>1. /\ OwnedIn(gram, pool.fGrammarRegistry,
                   [Buckets EXCEPT ![p] = [Buckets[p] EXCEPT ![DtdKey] = NoGrammar]],
                   orphans \cup {Buckets[p][DtdKey]})
        /\ Buckets[p][DtdKey] \notin orphans
    BY <1>0, <1>1, <1>3, <1>4, TakenFromBucket, ZenonT(60)
  <2> QED
    BY <1>1, <1>3, <2>1
<1>6. P \ {g} = orphans /\ g \in P
  BY <1>5
<1> HIDE DEF P
<1> DEFINE B == [Buckets EXCEPT ![p] = taken]
<1>7. OwnedIn(H, pool.fGrammarRegistry, B, P) /\ H[g].key = k
  BY <1>0, <1>5, <1>6, NamedOwned
<1> HIDE DEF H
<1>8. taken[k] = NoGrammar /\ taken \in Tables /\ bucket \in Tables
  BY <1>0, <1>1, <1>3 DEF Tables
<1> HIDE DEF taken
<1>9. B[p] = taken /\ [B EXCEPT ![p] = bucket] = [Buckets EXCEPT ![p] = bucket]
  BY <1>4
<1> HIDE DEF B
<1>10. OwnedIn(H, pool.fGrammarRegistry, [B EXCEPT ![p] = [B[p] EXCEPT ![k] = g]], P \ {g})
  BY <1>0, <1>3, <1>6, <1>7, <1>8, <1>9, GivenToBucket
<1>11. OwnedIn(gram', pool.fGrammarRegistry, [Buckets EXCEPT ![p] = bucket], orphans)
  BY <1>0, <1>6, <1>9, <1>10
<1> HIDE DEF bucket
<1>12. /\ s \in Resolvers /\ s.fGrammarBucket = bucket /\ s.task = "content"
       /\ s.fGrammarFromPool = n.fGrammarFromPool
  BY <1>1, <1>8 DEF Resolvers, Tasks
<1> HIDE DEF s
<1>13. Runs(p) /\ Remembers(s) /\ SubsetsAreHeld(s)
  BY <1>0, <1>1, <1>12 DEF Runs, Idle, Remembers, SubsetsAreHeld
<1> QED
  BY <1>0, <1>2, <1>11, <1>12, <1>13, BucketStep
-----------------------------------------------------------------------------
(* The application's steps *)

\* Clearing the pool deletes what it has, if it is not locked.
LEMMA ClearedOwned ==
  ASSUME GrammarInv, Cleared
  PROVE  /\ OwnedIn(gram', pool'.fGrammarRegistry, Buckets, orphans)
         /\ pool' \in PoolType /\ pool'.fLocked = pool.fLocked
         /\ pool'.fGrammarRegistry = IF pool.fLocked THEN pool.fGrammarRegistry ELSE Empty
<1> DEFINE R == pool.fGrammarRegistry
           gone == Objects(R)
           P == orphans \cup gone
<1>0. OwnedIn(gram, R, Buckets, orphans) /\ pool \in PoolType /\ Empty \in Tables
  BY Basics DEF GrammarInv, Owned
<1>1. CASE pool.fLocked
  BY <1>0, <1>1 DEF Cleared, GivesUp
<1>2. CASE ~pool.fLocked
  <2>1. gram' = Deleted(gone) /\ pool' = [pool EXCEPT !.fGrammarRegistry = Empty]
    BY <1>2 DEF Cleared, GivesUp
  <2>2. OwnedIn(gram, Empty, Buckets, P) /\ gone \cap orphans = {}
    <3> HIDE DEF R
    <3> QED
      BY <1>0, EmptiedPool
  <2> HIDE DEF gone
  <2>3. gone \in SUBSET P /\ P \ gone = orphans
    BY <2>2
  <2> HIDE DEF P
  <2>4. OwnedIn(Deleted(gone), Empty, Buckets, P \ gone)
    BY <2>2, <2>3, Freed DEF Deleted
  <2> QED
    BY <1>0, <1>2, <2>1, <2>3, <2>4 DEF PoolType
<1> QED
  BY <1>1, <1>2

\* The parser forgets what it has found, and so may lose it.
LEMMA ResetCachedGrammarInv ==
  ASSUME Guarded, GrammarInv, NEW p \in Parser, ResetCachedGrammar(p) PROVE GrammarInv'
<1> DEFINE s == Forgetting(resolver[p])
<1>0. /\ MayStart(p) /\ Cleared /\ resolver' = [resolver EXCEPT ![p] = s]
      /\ UNCHANGED <<orphans, thrown>>
  BY DEF ResetCachedGrammar
<1>1. /\ OwnedIn(gram', pool'.fGrammarRegistry, Buckets, orphans)
      /\ pool' \in PoolType /\ pool'.fLocked = pool.fLocked
      /\ pool.fLocked => pool'.fGrammarRegistry = pool.fGrammarRegistry
  BY <1>0, ClearedOwned
<1>2. /\ s \in Resolvers /\ s.fGrammarBucket = resolver[p].fGrammarBucket /\ s.task = "idle"
      /\ s.fGrammarFromPool = Empty
  BY <1>0, Basics DEF Forgetting, Resolvers, MayStart, Idle
<1> HIDE DEF s
<1>3. resolver'[p] = s /\ \A q \in Parser : q # p => resolver'[q] = resolver[q]
  BY <1>0, Basics
<1>4. Buckets' = Buckets
  BY <1>2, <1>3, BucketsMove DEF Buckets
<1>5. Owned' /\ SubsetsAreHeld(resolver[p])' /\ Runs(p)
  BY <1>0, <1>1, <1>2, <1>3, <1>4 DEF Owned, SubsetsAreHeld, Runs
<1>6. thrown' \in BOOLEAN /\ \A k \in Keys : s.fGrammarFromPool[k] = NoGrammar
  BY <1>0, <1>2, Basics DEF Empty
<1> QED
  BY <1>0, <1>1, <1>2, <1>5, <1>6, ParserStep

\* A step while no parser runs.
LEMMA RestStep ==
  ASSUME GrammarInv, AllIdle, UNCHANGED resolver, pool' \in PoolType, thrown' \in BOOLEAN,
         OwnedIn(gram', pool'.fGrammarRegistry, Buckets, orphans'),
         \A p \in Parser, k \in Keys :
           resolver[p].fGrammarFromPool[k] \in {NoGrammar, pool'.fGrammarRegistry[k]},
         pool'.fLocked => pool'.fGrammarRegistry[DtdKey] = NoGrammar
  PROVE  GrammarInv'
<1>1. Buckets' = Buckets
  BY DEF Buckets
<1>2. Owned'
  BY <1>1 DEF Owned
<1>3. \A p \in Parser : resolver[p].task = "idle"
  BY DEF AllIdle, Idle
<1>4. PoolTypeOK'
  BY <1>2, <1>3, Basics DEF PoolTypeOK, PoolType, Owned, OwnedIn, Typed
<1>5. FoundIsThere' /\ OneAtATime' /\ LockedIsNamed' /\ SubsetsOwned'
  BY <1>3 DEF FoundIsThere, Remembers, OneAtATime, Idle, LockedIsNamed, Nameless, SubsetsOwned
<1> QED
  BY <1>2, <1>4, <1>5 DEF GrammarInv

LEMMA ClearInv ==
  ASSUME Guarded, GrammarInv, Clear PROVE GrammarInv'
<1>1. /\ AllIdle /\ Cleared /\ UNCHANGED <<resolver, orphans, thrown>>
      /\ \A p \in Parser : Objects(resolver[p].fGrammarFromPool)
                             \cap Objects(pool.fGrammarRegistry) = {}
  BY DEF Clear, Guarded, Unreferenced
<1>2. /\ OwnedIn(gram', pool'.fGrammarRegistry, Buckets, orphans) /\ pool' \in PoolType
      /\ pool'.fLocked = pool.fLocked
      /\ pool'.fGrammarRegistry = IF pool.fLocked THEN pool.fGrammarRegistry ELSE Empty
  BY <1>1, ClearedOwned
<1>3. \A p \in Parser, k \in Keys : resolver[p].fGrammarFromPool[k] = NoGrammar
  BY <1>1 DEF GrammarInv, FoundIsThere, Remembers, Objects
<1>4. pool'.fLocked => pool'.fGrammarRegistry[DtdKey] = NoGrammar
  BY <1>2 DEF GrammarInv, LockedIsNamed, Nameless
<1> QED
  BY <1>1, <1>2, <1>3, <1>4, RestStep, Basics

LEMMA OrphanGrammarInv ==
  ASSUME Guarded, GrammarInv, NEW k \in Keys, OrphanGrammar(k) PROVE GrammarInv'
<1> DEFINE R == pool.fGrammarRegistry
           given == [R EXCEPT ![k] = NoGrammar]
<1>1. /\ AllIdle /\ ~pool.fLocked /\ R[k] # NoGrammar
      /\ \A p \in Parser : Objects(resolver[p].fGrammarFromPool) \cap {R[k]} = {}
      /\ pool' = [pool EXCEPT !.fGrammarRegistry = given] /\ orphans' = orphans \cup {R[k]}
      /\ UNCHANGED <<gram, resolver, thrown>>
  BY DEF OrphanGrammar, GivesUp, Guarded, Unreferenced
<1>2. OwnedIn(gram, R, Buckets, orphans) /\ R \in Tables
  BY Basics DEF GrammarInv, Owned
<1>3. \A p \in Parser, x \in Keys : resolver[p].fGrammarFromPool[x] \in {NoGrammar, given[x]}
  <2>1. \A p \in Parser, x \in Keys : resolver[p].fGrammarFromPool[x] \in {NoGrammar, R[x]}
    BY DEF GrammarInv, FoundIsThere, Remembers
  <2>2. \A p \in Parser : resolver[p].fGrammarFromPool[k] = NoGrammar
    BY <1>1, <2>1 DEF Objects
  <2>3. \A x \in Keys : x # k => given[x] = R[x]
    BY <1>2 DEF Tables
  <2> QED
    BY <2>1, <2>2, <2>3
<1>4. given \in Tables
  BY <1>2 DEF Tables
<1> HIDE DEF R
<1>5. OwnedIn(gram, given, Buckets, orphans \cup {R[k]})
  BY <1>1, <1>2, TakenFromPool
<1> HIDE DEF given
<1>6. pool' \in PoolType /\ pool'.fGrammarRegistry = given /\ ~pool'.fLocked
  BY <1>1, <1>4, Basics DEF PoolType
<1> QED
  BY <1>1, <1>3, <1>5, <1>6, RestStep, Basics

LEMMA OrphanAbsentGrammarInv ==
  ASSUME GrammarInv, NEW k \in Keys, OrphanAbsentGrammar(k) PROVE GrammarInv'
<1>1. AllIdle /\ UNCHANGED <<gram, pool, resolver, orphans>> /\ thrown' = TRUE
  BY DEF OrphanAbsentGrammar
<1> QED
  BY <1>1, RestStep, Basics
     DEF GrammarInv, Owned, FoundIsThere, Remembers, LockedIsNamed, Nameless

LEMMA LockPoolInv ==
  ASSUME Guarded, GrammarInv, LockPool \/ UnlockPool PROVE GrammarInv'
<1>1. /\ AllIdle /\ UNCHANGED <<gram, resolver, orphans, thrown>>
      /\ \E b \in BOOLEAN : /\ pool' = [pool EXCEPT !.fLocked = b]
                            /\ b => Nameless = NoGrammar
  BY DEF LockPool, UnlockPool, Guarded
<1>2. /\ pool' \in PoolType /\ pool'.fGrammarRegistry = pool.fGrammarRegistry
      /\ pool'.fLocked => Nameless = NoGrammar
  BY <1>1, Basics DEF PoolType
<1> QED
  BY <1>1, <1>2, RestStep, Basics DEF GrammarInv, Owned, FoundIsThere, Remembers, Nameless

\* It may happen at any time: no table has an orphan.
LEMMA DeleteOrphanInv ==
  ASSUME GrammarInv, NEW g \in Grammar, DeleteOrphan(g) PROVE GrammarInv'
<1>1. /\ {g} \in SUBSET orphans /\ gram' = Deleted({g}) /\ orphans' = orphans \ {g}
      /\ UNCHANGED <<pool, resolver, thrown>>
  BY DEF DeleteOrphan
<1>2. OwnedIn(gram, pool.fGrammarRegistry, Buckets, orphans)
  BY DEF GrammarInv, Owned
<1>3. OwnedIn(Deleted({g}), pool.fGrammarRegistry, Buckets, orphans \ {g})
  BY <1>1, <1>2, Freed DEF Deleted
<1>4. Buckets' = Buckets
  BY <1>1 DEF Buckets
<1>5. Owned'
  BY <1>1, <1>3, <1>4 DEF Owned
<1>6. PoolTypeOK'
  BY <1>1, <1>5, Basics DEF GrammarInv, PoolTypeOK, PoolType, Owned, OwnedIn, Typed
<1>7. FoundIsThere' /\ OneAtATime' /\ LockedIsNamed' /\ SubsetsOwned'
  BY <1>1 DEF GrammarInv, FoundIsThere, Remembers, OneAtATime, FoundNothing, Idle, LockedIsNamed,
     Nameless, SubsetsOwned
<1> QED
  BY <1>5, <1>6, <1>7 DEF GrammarInv
-----------------------------------------------------------------------------
LEMMA InitInv == Init => GrammarInv
<1> SUFFICES ASSUME Init PROVE GrammarInv
  OBVIOUS
<1>0. DtdKey \in Keys /\ Empty \in Tables /\ Unallocated \in Grammars /\ Unallocated.type = "none"
  BY DEF Keys, Empty, Tables, Unallocated, Grammars
<1>1. \A p \in Parser : /\ resolver[p].fGrammarBucket = Empty /\ resolver[p].task = "idle"
                        /\ resolver[p].fGrammarFromPool = Empty
  BY DEF Init
<1>2. PoolTypeOK
  <2>1. \A p \in Parser : resolver[p] \in Resolvers
    BY <1>0 DEF Init, Resolvers, Tasks
  <2>2. resolver \in [Parser -> Resolvers]
    BY <2>1 DEF Init
  <2> QED
    BY <1>0, <1>1, <2>2 DEF Init, PoolTypeOK
<1>3. Owned
  <2>1. Buckets \in [Parser -> Tables] /\ \A p \in Parser : Buckets[p] = Empty
    BY <1>0, <1>1 DEF Buckets
  <2>2. \A k \in Keys : Empty[k] = NoGrammar
    BY DEF Empty
  <2>3. /\ gram \in [Grammar -> Grammars] /\ \A g \in Grammar : gram[g].type = "none"
        /\ pool.fGrammarRegistry = Empty /\ orphans = {}
    BY <1>0 DEF Init
  <2> QED
    BY <1>0, <2>1, <2>2, <2>3 DEF Owned, OwnedIn, Typed
<1>4. FoundIsThere /\ OneAtATime /\ LockedIsNamed /\ SubsetsOwned
  <2>1. ~pool.fLocked /\ pool.fGrammarRegistry = Empty
    BY DEF Init
  <2> QED
    BY <1>1, <2>1 DEF FoundIsThere, Remembers, OneAtATime, FoundNothing, Idle, LockedIsNamed,
       SubsetsOwned, Empty
<1> QED
  BY <1>2, <1>3, <1>4 DEF GrammarInv

LEMMA StepInv ==
  ASSUME Guarded, GrammarInv, [Next]_gpVars PROVE GrammarInv'
<1>1. ASSUME NEW p \in Parser, ParseStep(p) PROVE GrammarInv'
  <2>1. ASSUME NEW cache \in BOOLEAN, NEW use \in BOOLEAN, cache => use,
               ScanResetFound(p, cache, use) \/ ScanResetNew(p, cache, use)
        PROVE  GrammarInv'
    BY <2>1, ScanResetFoundInv, ScanResetNewInv
  <2>2. ASSUME NoExternalSubset(p) PROVE GrammarInv'
    BY <2>2, NoExternalSubsetInv
  <2>3. ASSUME InternalSubset(p) PROVE GrammarInv'
    BY <2>3, SubsetInv DEF InternalSubset
  <2>4. ASSUME NEW k \in SystemId, CachedSubset(p, k) PROVE GrammarInv'
    BY <2>4, CachedSubsetInv
  <2>5. ASSUME NEW k \in SystemId, ExternalSubset(p, k) PROVE GrammarInv'
    BY <2>5, SubsetInv DEF ExternalSubset, ToScan
  <2>6. ASSUME NEW k \in SystemId, NameInPool(p, k) \/ NameInBucket(p, k) PROVE GrammarInv'
    BY <2>6, NameInPoolInv, NameInBucketInv
  <2>7. ASSUME NEW k \in Namespace, MeetKnownSchema(p, k) \/ MeetNewSchema(p, k)
        PROVE  GrammarInv'
    BY <2>7, MeetKnownSchemaInv, MeetNewSchemaInv
  <2>8. ASSUME EndParse(p) PROVE GrammarInv'
    BY <2>8, EndInv DEF EndParse, Idle
  <2> QED
    BY <1>1, <2>1, <2>2, <2>3, <2>4, <2>5, <2>6, <2>7, <2>8 DEF ParseStep
<1>2. ASSUME NEW p \in Parser, LoadStep(p) PROVE GrammarInv'
  <2>1. ASSUME NEW toCache \in BOOLEAN, NEW k \in SystemId, LoadDTD(p, k, toCache)
        PROVE  GrammarInv'
    BY <2>1, LoadDTDInv
  <2>2. ASSUME NEW toCache \in BOOLEAN, NEW k \in Namespace, LoadSchema(p, k, toCache)
        PROVE  GrammarInv'
    BY <2>2, LoadSchemaInv
  <2>3. ASSUME NEW k \in SystemId, LoadDTDThrows(p, k) PROVE GrammarInv'
    BY <2>3, LoadDTDThrowsInv
  <2>4. ASSUME NEW k \in Namespace, LoadSeenSchema(p, k) PROVE GrammarInv'
    BY <2>4, LoadSeenSchemaInv
  <2>5. ASSUME EndLoad(p) PROVE GrammarInv'
    BY <2>5, EndLoadInv
  <2>6. ASSUME AbandonLoad(p) PROVE GrammarInv'
    BY <2>6, EndInv DEF AbandonLoad, Idle
  <2> QED
    BY <1>2, <2>1, <2>2, <2>3, <2>4, <2>5, <2>6 DEF LoadStep
<1>3. ASSUME NEW p \in Parser, ResetCachedGrammar(p) PROVE GrammarInv'
  BY <1>3, ResetCachedGrammarInv
<1>4. ASSUME NEW k \in Keys, OrphanGrammar(k) \/ OrphanAbsentGrammar(k) PROVE GrammarInv'
  BY <1>4, OrphanGrammarInv, OrphanAbsentGrammarInv
<1>5. ASSUME NEW g \in Grammar, DeleteOrphan(g) PROVE GrammarInv'
  BY <1>5, DeleteOrphanInv
<1>6. ASSUME Clear PROVE GrammarInv'
  BY <1>6, ClearInv
<1>7. ASSUME LockPool \/ UnlockPool PROVE GrammarInv'
  BY <1>7, LockPoolInv
<1>8. ASSUME UNCHANGED gpVars PROVE GrammarInv'
  BY <1>8 DEF gpVars, GrammarInv, PoolTypeOK, Owned, Buckets, FoundIsThere, Remembers, OneAtATime,
     FoundNothing, Idle, LockedIsNamed, Nameless, SubsetsOwned
<1> QED
  BY <1>1, <1>2, <1>3, <1>4, <1>5, <1>6, <1>7, <1>8 DEF Next
-----------------------------------------------------------------------------
(* A locked pool *)

\* What the pool has is nowhere else.
LEMMA PoolsOwn ==
  ASSUME GrammarInv, NEW g \in Objects(pool.fGrammarRegistry)
  PROVE  g \in Grammar /\ g \notin Free /\ g \notin orphans /\ \A p \in Parser : g \notin Bucket(p)
<1>1. OwnedIn(gram, pool.fGrammarRegistry, Buckets, orphans)
  BY DEF GrammarInv, Owned
<1>2. PICK k \in Keys : g = pool.fGrammarRegistry[k] /\ g # NoGrammar
  BY DEF Objects
<1>3. g \in Grammar /\ gram[g].type # "none" /\ gram[g].key = k /\ g \notin orphans
  BY <1>1, <1>2 DEF OwnedIn, Typed, Tables
<1>4. ASSUME NEW p \in Parser, NEW x \in Keys, Buckets[p][x] = g PROVE FALSE
  BY <1>1, <1>2, <1>3, <1>4 DEF OwnedIn
<1>5. \A p \in Parser : g \notin Bucket(p)
  BY <1>4 DEF Bucket, Objects, Buckets
<1> QED
  BY <1>3, <1>5 DEF Free

\* A scanner that finds the pool locked has its DTD grammar in its bucket.
LEMMA LockedSubset ==
  ASSUME GrammarInv, NEW p \in Parser, pool.fLocked, resolver[p].task \in {"prolog", "subset"}
  PROVE  resolver[p].fDTDGrammar \in Bucket(p) /\ resolver[p].fDTDGrammar \in Grammar
<1>1. SubsetsAreHeld(resolver[p]) /\ DtdKey \in Keys
  BY Basics
<1>2. resolver[p].fGrammarBucket[DtdKey] = resolver[p].fDTDGrammar
      /\ resolver[p].fDTDGrammar \in Grammar
  BY <1>1 DEF SubsetsAreHeld
<1> QED
  BY <1>1, <1>2, PoolAssumption DEF Bucket, Objects

\* No DTD grammar is found, and so none is reset, while the pool is locked.
LEMMA LockedFindsNoDTD ==
  ASSUME GrammarInv, NEW p \in Parser, pool.fLocked, NEW cache \in BOOLEAN, NEW use \in BOOLEAN
  PROVE  Get(Reset(resolver[p], cache, use), DtdKey) = NoGrammar
<1> DEFINE r == Reset(resolver[p], cache, use)
<1>1. r \in Resolvers /\ Remembers(r) /\ r.fGrammarBucket = Empty
  BY ResetIs
<1> HIDE DEF r
<1>2. Get(r, DtdKey) = NoGrammar
  BY <1>1, ResetFinds
<1> QED
  BY <1>2 DEF r

Kept == pool' = pool /\ \A g \in Objects(pool.fGrammarRegistry) : gram'[g] = gram[g]

LEMMA LockedParse ==
  ASSUME Guarded, GrammarInv, pool.fLocked, NEW p \in Parser, ParseStep(p) PROVE Kept
<1>1. \A g \in Objects(pool.fGrammarRegistry) :
        g \in Grammar /\ g \notin Free /\ g \notin Bucket(p) /\ g \notin orphans
  BY PoolsOwn
<1>2. resolver[p].task \in {"prolog", "subset"} => resolver[p].fDTDGrammar \in Bucket(p)
  BY LockedSubset
<1>3. gram \in [Grammar -> Grammars]
  BY Basics
<1>4. ASSUME NEW cache \in BOOLEAN, NEW use \in BOOLEAN, ScanResetFound(p, cache, use)
      PROVE  Kept
  BY <1>4, LockedFindsNoDTD DEF ScanResetFound
<1>5. ASSUME NEW cache \in BOOLEAN, NEW use \in BOOLEAN, ScanResetNew(p, cache, use)
      PROVE  Kept
  <2>1. PICK g \in Free :
          gram' = [Deleted(Bucket(p)) EXCEPT
                     ![g] = [type |-> "dtd", key |-> DtdKey, filled |-> FALSE]]
    BY <1>5 DEF ScanResetNew
  <2>2. pool' = pool
    BY <1>5 DEF ScanResetNew, Put, Takes, Accepts
  <2> QED
    BY <1>1, <2>1, <2>2 DEF Deleted, Kept
<1>6. ASSUME \/ NoExternalSubset(p) \/ EndParse(p)
             \/ \E k \in SystemId : CachedSubset(p, k)
             \/ \E k \in Namespace : MeetKnownSchema(p, k)
      PROVE  Kept
  BY <1>6 DEF NoExternalSubset, EndParse, CachedSubset, MeetKnownSchema, Kept
<1>7. ASSUME InternalSubset(p) \/ \E k \in SystemId : ExternalSubset(p, k) PROVE Kept
  <2>1. /\ gram' = [gram EXCEPT ![resolver[p].fDTDGrammar].filled = TRUE] /\ pool' = pool
        /\ resolver[p].task \in {"prolog", "subset"}
    BY <1>7 DEF InternalSubset, ExternalSubset, ToScan
  <2> QED
    BY <1>1, <1>2, <1>3, <2>1 DEF Kept
<1>8. ASSUME NEW k \in SystemId, NameInPool(p, k) PROVE Kept
  BY <1>8 DEF NameInPool, GivesUp
<1>9. ASSUME NEW k \in SystemId, NameInBucket(p, k) PROVE Kept
  <2>1. /\ gram' = Named(resolver[p].fDTDGrammar, k) /\ pool' = pool
        /\ resolver[p].task \in {"prolog", "subset"}
    BY <1>9 DEF NameInBucket, ToScan, Put, Takes, Accepts
  <2> QED
    BY <1>1, <1>2, <1>3, <2>1 DEF Named, Kept
<1>10. ASSUME NEW k \in Namespace, MeetNewSchema(p, k) PROVE Kept
  <2>1. PICK g \in Free :
          gram' = [gram EXCEPT ![g] = [type |-> "schema", key |-> k, filled |-> TRUE]]
    BY <1>10 DEF MeetNewSchema
  <2>2. pool' = pool
    BY <1>10 DEF MeetNewSchema, Put, Takes, Accepts
  <2> QED
    BY <1>1, <1>3, <2>1, <2>2 DEF Kept
<1> QED
  BY <1>4, <1>5, <1>6, <1>7, <1>8, <1>9, <1>10 DEF ParseStep

LEMMA LockedLoad ==
  ASSUME Guarded, GrammarInv, pool.fLocked, NEW p \in Parser, LoadStep(p) PROVE Kept
<1>1. \A g \in Objects(pool.fGrammarRegistry) :
        g \in Grammar /\ g \notin Free /\ g \notin Bucket(p) /\ g \notin orphans
  BY PoolsOwn
<1>2. gram \in [Grammar -> Grammars]
  BY Basics
<1>3. ASSUME NEW toCache \in BOOLEAN, NEW k \in SystemId, LoadDTD(p, k, toCache) PROVE Kept
  <2>1. PICK g \in Free, n \in [type : {"dtd"}, key : {k, DtdKey}, filled : {TRUE}] :
          gram' = [Deleted(Bucket(p)) EXCEPT ![g] = n]
    BY <1>3 DEF LoadDTD
  <2>2. pool' = pool
    BY <1>3 DEF LoadDTD, Put, Takes, Accepts
  <2> QED
    BY <1>1, <2>1, <2>2 DEF Deleted, Kept
<1>4. ASSUME NEW toCache \in BOOLEAN, NEW k \in Namespace, LoadSchema(p, k, toCache) PROVE Kept
  <2>1. PICK g \in Free :
          gram' = [Deleted(Bucket(p)) EXCEPT
                     ![g] = [type |-> "schema", key |-> k, filled |-> TRUE]]
    BY <1>4 DEF LoadSchema
  <2>2. pool' = pool
    BY <1>4 DEF LoadSchema, Put, Takes, Accepts
  <2> QED
    BY <1>1, <2>1, <2>2 DEF Deleted, Kept
<1>5. ASSUME NEW k \in SystemId, LoadDTDThrows(p, k) PROVE Kept
  BY <1>5, LockedFindsNoDTD DEF LoadDTDThrows
<1>6. ASSUME NEW k \in Namespace, LoadSeenSchema(p, k) PROVE Kept
  BY <1>1, <1>6 DEF LoadSeenSchema, Deleted, Kept
<1>7. ASSUME EndLoad(p) PROVE Kept
  <2>1. pool.fGrammarRegistry \in Tables /\ pool \in PoolType
    BY Basics
  <2>2. [k \in Keys |-> IF Accepts(k) THEN resolver[p].fGrammarBucket[k]
                        ELSE pool.fGrammarRegistry[k]] = pool.fGrammarRegistry
    BY <2>1 DEF Accepts, Tables
  <2>3. [pool EXCEPT !.fGrammarRegistry = pool.fGrammarRegistry] = pool
    BY <2>1 DEF PoolType
  <2>4. pool' = pool /\ gram' = gram
    BY <1>7, <2>2, <2>3 DEF EndLoad
  <2> QED
    BY <2>4 DEF Kept
<1>8. ASSUME AbandonLoad(p) PROVE Kept
  BY <1>8 DEF AbandonLoad, Kept
<1> QED
  BY <1>3, <1>4, <1>5, <1>6, <1>7, <1>8 DEF LoadStep

LEMMA LockedStep ==
  ASSUME Guarded, GrammarInv, [Next]_gpVars, pool.fLocked, pool'.fLocked PROVE Kept
<1>1. ASSUME NEW p \in Parser, ResetCachedGrammar(p) PROVE Kept
  BY <1>1 DEF ResetCachedGrammar, Cleared, GivesUp, Kept
<1>2. ASSUME NEW k \in Keys, OrphanGrammar(k) \/ OrphanAbsentGrammar(k) PROVE Kept
  BY <1>2 DEF OrphanGrammar, OrphanAbsentGrammar, GivesUp
<1>3. ASSUME NEW g \in Grammar, DeleteOrphan(g) PROVE Kept
  <2>1. gram' = Deleted({g}) /\ g \in orphans /\ pool' = pool
    BY <1>3 DEF DeleteOrphan
  <2> QED
    BY <2>1, PoolsOwn DEF Deleted, Kept
<1>4. ASSUME Clear PROVE Kept
  BY <1>4 DEF Clear, Cleared, GivesUp, Kept
<1>5. ASSUME LockPool \/ UnlockPool PROVE Kept
  <2>1. LockPool => FALSE
    BY DEF LockPool
  <2>2. UnlockPool => ~pool'.fLocked
    BY Basics DEF UnlockPool, PoolType
  <2> QED
    BY <1>5, <2>1, <2>2
<1>6. ASSUME UNCHANGED gpVars PROVE Kept
  BY <1>6 DEF gpVars, Kept
<1> QED
  BY <1>1, <1>2, <1>3, <1>4, <1>5, <1>6, LockedParse, LockedLoad DEF Next
-----------------------------------------------------------------------------
(* The theorems *)

\* The inductive invariant: ownership, what parsers remember and the protocol of
\* the scanners, as long as the application does not share an unlocked pool
\* between parsers that know it, take known grammars out, or lock a nameless
\* DTD grammar in.
THEOREM GrammarInvariant == ASSUME Guarded PROVE Spec => []GrammarInv
<1>1. Init => GrammarInv
  BY InitInv
<1>2. GrammarInv /\ [Next]_gpVars => GrammarInv'
  BY StepInv
<1> QED
  BY <1>1, <1>2, PTL DEF Spec

\* Every variable keeps its type, and a scanner in the prolog has a DTD grammar
\* to scan the subsets into.
THEOREM PoolTyped == ASSUME Guarded PROVE Spec => []PoolTypeOK
<1>1. GrammarInv => PoolTypeOK
  BY DEF GrammarInv
<1> QED
  BY <1>1, GrammarInvariant, PTL

\* Every grammar that has been allocated is owned once, by the pool, by a bucket
\* or by the application: none is leaked or left to be deleted twice when
\* cacheGrammar, orphanGrammar, putGrammar and cacheGrammars pass it on.
THEOREM GrammarsHaveOneOwner == ASSUME Guarded PROVE Spec => []SoleOwner
<1>1. GrammarInv => SoleOwner
  BY OwnedOnce DEF GrammarInv
<1> QED
  BY <1>1, GrammarInvariant, PTL

\* Every table has a grammar under its own key, and fGrammarFromPool leads to no
\* grammar that the pool does not have.
THEOREM TablesStayTrue == ASSUME Guarded PROVE Spec => []TablesAreTrue
<1>1. GrammarInv => TablesAreTrue
  BY OwnedByKey DEF GrammarInv
<1> QED
  BY <1>1, GrammarInvariant, PTL

\* No two scanners are in the subsets of the same DTD grammar: two that run at
\* once find the pool locked, and have one each in their buckets.
THEOREM DTDGrammarsApart == ASSUME Guarded PROVE Spec => []DTDNotShared
<1>1. GrammarInv => DTDNotShared
  <2> SUFFICES ASSUME GrammarInv, NEW p \in Parser, NEW q \in Parser, p # q,
                      {resolver[p].task, resolver[q].task} \subseteq {"prolog", "subset"}
               PROVE  resolver[p].fDTDGrammar # resolver[q].fDTDGrammar
    BY DEF DTDNotShared
  <2>1. pool.fLocked
    BY DEF GrammarInv, OneAtATime, Idle
  <2>2. resolver[p].fDTDGrammar \in Bucket(p) /\ resolver[q].fDTDGrammar \in Bucket(q)
    BY <2>1, LockedSubset
  <2>3. Bucket(p) \cap Bucket(q) = {}
    <3>1. OwnedIn(gram, pool.fGrammarRegistry, Buckets, orphans)
      BY DEF GrammarInv, Owned
    <3>2. ASSUME NEW x \in Keys, NEW y \in Keys, Buckets[p][x] = Buckets[q][y],
                 Buckets[p][x] # NoGrammar
          PROVE  FALSE
      BY <3>1, <3>2 DEF OwnedIn
    <3> QED
      BY <3>2 DEF Bucket, Objects, Buckets
  <2> QED
    BY <2>2, <2>3
<1> QED
  BY <1>1, GrammarInvariant, PTL

\* While the pool is locked its registry does not change, nor the type and key of
\* a grammar in it, and no subset is scanned into one, whatever the parsers do in
\* their threads.  Content models made on demand inside of it are not covered.
THEOREM LockedRegistryFrozen == ASSUME Guarded PROVE Spec => LockedRegistryIsFrozen
<1>1. GrammarInv /\ [Next]_gpVars =>
        [pool.fLocked /\ pool'.fLocked =>
           /\ pool' = pool
           /\ \A g \in Objects(pool.fGrammarRegistry) : gram'[g] = gram[g]]_gpVars
  BY LockedStep DEF Kept
<1> QED
  BY <1>1, GrammarInvariant, PTL DEF Spec, LockedRegistryIsFrozen

\* orphanKey always has the key it is asked for, if the application neither
\* orphans absent grammars nor loads a DTD while the pool has a nameless one.
THEOREM NothingIsThrown ==
  ASSUME Guarded, Unguarded \cap {"loadNameless", "orphanAbsent"} = {}
  PROVE  Spec => []NothingThrown
<1>1. Init => NothingThrown
  BY DEF Init, NothingThrown
<1>2. GrammarInv /\ NothingThrown /\ [Next]_gpVars => NothingThrown'
  <2> SUFFICES ASSUME GrammarInv, ~thrown, [Next]_gpVars PROVE ~thrown'
    BY DEF NothingThrown
  <2>1. ASSUME NEW p \in Parser, NEW k \in SystemId, NameInPool(p, k) PROVE thrown' = thrown
    <3>1. SubsetsAreHeld(resolver[p])
      BY Basics
    <3>2. Nameless # NoGrammar
      BY <2>1, <3>1, PoolAssumption DEF NameInPool, ToScan, SubsetsAreHeld, GivesUp
    <3> QED
      BY <2>1, <3>2 DEF NameInPool
  <2>2. ASSUME NEW p \in Parser, NEW k \in SystemId, LoadDTDThrows(p, k) PROVE FALSE
    <3> DEFINE r == Reset(resolver[p], FALSE, TRUE)
    <3>1. r \in Resolvers /\ Remembers(r) /\ r.fGrammarBucket = Empty
      BY ResetIs
    <3>2. Nameless = NoGrammar /\ Get(r, DtdKey) # NoGrammar
      BY <2>2 DEF LoadDTDThrows
    <3> HIDE DEF r
    <3> QED
      BY <3>1, <3>2, ResetFinds
  <2>3. ASSUME NEW p \in Parser, ParseStep(p) PROVE thrown' = thrown
    BY <2>1, <2>3 DEF ParseStep, ScanResetFound, ScanResetNew, NoExternalSubset, InternalSubset,
       CachedSubset, ExternalSubset, NameInBucket, MeetKnownSchema, MeetNewSchema, EndParse
  <2>4. ASSUME NEW p \in Parser, LoadStep(p) PROVE thrown' = thrown
    BY <2>2, <2>4 DEF LoadStep, LoadDTD, LoadSchema, LoadSeenSchema, EndLoad, AbandonLoad
  <2>5. ASSUME NEW k \in Keys, OrphanAbsentGrammar(k) PROVE FALSE
    BY <2>5 DEF OrphanAbsentGrammar
  <2> QED
    BY <2>3, <2>4, <2>5 DEF Next, ResetCachedGrammar, OrphanGrammar, DeleteOrphan, Clear,
       LockPool, UnlockPool, gpVars
<1> QED
  BY <1>1, <1>2, GrammarInvariant, PTL DEF Spec
=============================================================================
