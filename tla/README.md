# Xerces-C++: a verification project

TLA+ models of the parts of Xerces-C++ whose correctness depends on the *order* of things: a
DOM tree edited under live iterators and ranges; grammars, models and strings shared by parsers in
several threads; documents cut into entities and schemas cut into documents; automata and value
tables fed one element at a time. TLC checks the models on small instances, TLAPS proves the most
important invariants for all instances. Paths below are relative to `src/src/xercesc/` unless they
begin with `src/`.

- `PROJECT.json` lists components, runs, mutants, the map from definitions to source lines,
  findings, hazards and theorems.
- To check a run: `tlc -config <run's cfg> <run's module>`; to check proofs: `tlapm <module>`.

## 1. Inventory

### 1.1 The DOM (`dom/impl`)

A document is single-threaded. Its hard part is that one edit has to keep many other pieces
of state in step: the sibling pointers, the caches of the document node, every live
`NodeIterator`, every live `Range`, the live node lists.

| component | state | operations | what makes it correct |
|---|---|---|---|
| tree mutators: `DOMParentNode`, `DOMDocumentImpl` | parent, children, `fDocElement`, `fDocType` | `insertBefore`, `appendChild`, `removeChild`, `replaceChild` (of nodes and fragments), `adoptNode`, `importNode`, `renameNode`, `release` | always a forest; caches accurate; a fragment arrives whole and in order, and the loop that moves it ends |
| sibling pointers: `DOMParentNode`, `DOMChildNode`, `DOMNodeImpl` | `fFirstChild`, `previousSibling`, `nextSibling`, `fOwnerNode`, flags `OWNED` and `FIRSTCHILD` | `insertBefore`, `removeChild`, `appendChildFast`, `cloneNode` | the ring *means* a child list; the two flags tell a list end from a link and a parent from a document |
| `DOMNodeIteratorImpl` | root, current node, direction, detached | `nextNode`, `previousNode`, `detach`; `removeNode`, called by `removeChild` | the iterator keeps its place in document order whatever is removed |
| `DOMRangeImpl`, `DOMCharacterDataImpl`, `DOMTextImpl` | two boundary points (container, offset) | setters, `compareBoundaryPoints`, `insertNode`, contents operations; `updateRangeFor...`, called by every mutator of trees and texts | the points exist, are in one tree, and are in order |
| `DOMTreeWalkerImpl` | root, current node | moves about the tree | stays under its root |
| live lists and ids: `DOMDeepNodeListImpl`, `DOMNodeListImpl`, `DOMNodeIDMap` | a cached position and the document's change counter; an open-addressing table | `item`, `getLength`; `add`, `remove`, `find` | never answers from a stale cache; a removed id does not hide a present one |
| attributes, namespaces, normalisation: `DOMAttrMapImpl`, `DOMElementNSImpl`, `DOMNormalizer` | attribute vectors, default attributes | lookups, `normalizeDocument` | sequential data handling |
| node heap and release: `DOMDocumentImpl`, `DOMNodeImpl` | recycled node memory, string pools, user data | `release`, `allocate` | no node is recycled while something refers to it |
| XPath, LS serializer and parser | none of its own | functions of a tree, I/O | |

Interactions: `DOMParentNode::removeChild` calls `removeNode` of every iterator and
`updateRangeForDeletedNode` of every range *before* it unlinks the child;
`DOMParentNode::insertBefore` removes the child from its old parent (a virtual call, which
updates that parent's caches and all the observers), links it, and *then* tells the ranges;
`DOMDocumentImpl` overrides the three mutators for the document node; the text classes tell
the ranges of every change of character data, `splitText` and `normalize` do both.

### 1.2 Grammars shared by parsers

| component | state | operations | what makes it correct |
|---|---|---|---|
| grammar pool: `XMLGrammarPoolImpl` | `fGrammarRegistry` (owns grammars by key), `fLocked`, the string pools, an `XSModel` | `cacheGrammar`, `retrieveGrammar`, `orphanGrammar`, `clear`, `lockPool`, `unlockPool`, `serializeGrammars` | one owner per grammar; the registry is frozen while locked |
| `GrammarResolver`, one per parser | `fGrammarBucket` (owns), `fGrammarFromPool` (borrows), `fCacheGrammar`, `fUseCachedGrammar` | `getGrammar`, `putGrammar`, `orphanGrammar`, `cacheGrammars`, `cacheGrammarFromParse`, `resetCachedGrammar` | what is borrowed exists; keys are true |
| scanners (`IGXMLScanner` and three more) | the DTD grammar of the document, validators, element stack, readers | `scanReset`, `scanDocTypeDecl`, `resolveSchemaGrammar`, `loadGrammar`, progressive scan with tokens | hand grammars over under the right key at the right time |
| declarations of a grammar: `DTDElementDecl`, `ComplexTypeInfo` | the content model and its text, made when first needed, also in a locked pool | `getContentModel`, `getFormattedContentModel` | threads that share them get one whole object |
| string pools: `XMLStringPool`, `XMLSynchronizedStringPool` | hash table, id map, counter; the pool frozen by `lockPool` | `addOrFind`, `getId`, `getValueForId`, `exists`, `getStringCount` | one table of ids that only grows, for all threads |
| PSVI (`XSModel`) | a parent model, the namespaces and grammars it stands for | made and deleted by pools and resolvers (`getXSModel`), remembered by scanners (`fModel`) | it is complete whenever PSVI is reported, and outlives the models built on it |
| serialization (`XSerializeEngine`) | buffers, object numbering | store and load of a pool | both sides number alike |

Interactions: a parser is created on a pool and asks it for the string pool it will use
(`GrammarResolver.cpp:67`); while the pool is unlocked one parser at a time uses it; once
locked, parsers in many threads use it at once, and the string pool is then an
`XMLSynchronizedStringPool` in front of the old, read-only one. The registry does not change any more then, but the grammars
in it do: validation makes content models and their texts inside of them, without a lock.

### 1.3 Scanning and validating

| component | state | operations | what makes it correct |
|---|---|---|---|
| content scanner: `IGXMLScanner`, `ReaderMgr`, `ElemStack` | a stack of readers, one per entity; a stack of open elements with their child lists and prefix maps | `scanDocument`; `scanFirst`, `scanNext` with a token; `scanReset(token)` | exactly the well-formed documents come to an end, and are reported as they are, wherever entities cut them |
| content models: `ComplexTypeInfo`, `SimpleContentModel`, `MixedContentModel`, `AllContentModel`, `DFAContentModel` | the model of an element declaration, made when first needed | `makeContentModel`, `validateContent`, `validateContentSpecial`, `checkUniqueParticleAttribution` | the language accepted is the one declared; ambiguity is reported |
| identity constraints: `XPathMatcher`, `FieldActivator`, `ValueStore`, `ValueStoreCache` | a stack of matchers, a value store per constraint and depth, maps of stores handed up the tree | start and end of elements, text and attributes | duplicates, missing keys and dangling references are reported on exactly the elements that have them |
| schema documents: `TraverseSchema`, `SchemaInfo` | the documents known, shared lists of includes, the grammar and scope counter in hand, the groups being defined | two rounds over the documents; a component is defined when it is first referred to | all documents are read once, references found wherever they lead, circles noticed |
| schema components, DTD scanner, datatypes, regular expressions | tables | translations and functions of single values | |

Interactions: `IGXMLScanner` pushes a reader for each entity reference and is thrown
`EndOfEntityException` out of the middle of a scan when it ends; at an end tag it hands the child list of the element
stack to the validator's content model; schema validation calls the identity constraint
handler for every element; `resolveSchemaGrammar` runs `TraverseSchema` in the middle of a start
tag, which puts grammars into the resolver and so makes the scanner's `XSModel` out of date.

### 1.4 The rest

Platform utilities (counted `Initialize`/`Terminate`), containers, transcoders, message loaders,
net accessors, SAX and DOM event adapters, XInclude. `PROJECT.json` "components" lists each with
its files, its status and, where it is not modelled, why; section 8 says which of them are planned.

### 1.5 Behaviours that are hard to test

`PROJECT.json` "hazards" lists them by line. The main ones:

- **stale state**: caches of the document node; iterator positions and range points after any
  removal; grammars and models remembered by a parser after someone else emptied the pool;
- **protocol sequences**: encodings (sibling ring and flags) that are wrong only after a
  particular series of edits; a tag that begins in one entity and ends in another; documents
  that include and import each other in circles;
- **numeric edges**: occurrences that are counted instead of unrolled;
- **partial failure**: fragments that are moved one child at a time; grammars that change
  hands in five functions, each of which may be refused or throw;
- **interleaving and atomicity**: lookups outside the mutex combined with answers from
  inside it; a hash table, an id map and a counter that are written one after another; fields of
  shared declarations that are tested and set without a mutex;
- **ordering**: `splitText` informs the ranges twice; a grammar's key may only change
  between `orphanGrammar` and `putGrammar`;
- **liveness**: the loop over a fragment; a mutex held while an exception is thrown.

## 2. The modules

| module | models | state |
|---|---|---|
| `DOMForest` | parents and child lists as data: link, unlink, ancestors, index | none (operators) |
| `DOMTree` | tree mutators, document caches, fragment insertion in steps | `dom` (parent, kids, `fDocElement`, `fDocType`), `call` (the locals of a running fragment insertion) |
| `DOMNodeIterator` | extends `DOMTree` by registered iterators | `iter`, `crashed` |
| `DOMRange` | extends `DOMTree` by ranges and character data (lengths only) | `range`, `len`, `spare` |
| `ChildLists` | abstract: what a child list promises (whole insertions and removals) | `forest` |
| `DOMParentNode` | sibling pointers and flags, refines `ChildLists` | `ptr`, `fresh` |
| `GrammarPool` | pool, resolvers, scanners' protocol, the application | `gram`, `pool`, `resolver`, `orphans`, `thrown` |
| `XSModels` | the models of pools and resolvers and the scanner's pointer to one | `models`, `pool`, `resolver`, `misread`, `unread` |
| `StringIds` | abstract: ids are given once, stay, and are told truthfully | `ids`, `next`, `told` |
| `SynchronizedStringPool` | the synchronized pool in steps of several threads, refines `StringIds` | `const`, `own`, `mutex`, `call` |
| `Markup` | reference: what a text with entities says and whether it is well-formed | none (operators) |
| `ElemStack` | the element stack | none (operators on the stack) |
| `ScanContent` | extends both by the readers and the scanner's steps over several parses | `text`, `readers`, `nextNum`, `elems`, `phase`, `events`, `outcome`, ... |
| `Particles` | reference: the language of a particle by derivatives, its ambiguities | none (operators) |
| `ContentModels` | how models are made from particles, and their verdicts | `decl`, `model`, `children` |
| `KeyTables` | reference: what a document's identity constraints demand | none (operators) |
| `IdentityConstraints` | extends it by matchers, stores and their cache | `schema`, `doc`, `open`, `handler` |
| `SchemaDocuments` | both rounds of `TraverseSchema` over documents and model groups | `files`, `refs`, `fSchemaInfoList`, `includeLists`, `grammars`, `traverser`, `stack`, `errors` |
| `DOMTreeProofs`, `DOMParentNodeProofs`, `DOMRangeProofs`, `DOMNodeIteratorProofs`, `SynchronizedStringPoolProofs`, `GrammarPoolProofs`, `SchemaDocumentsProofs`, `XSModelsProofs` | theorems | |
| `MC...` | instances for TLC | |

Definitions keep the names of the source (`fDocElement`, `AfterRemoval` for
`updateRangeForDeletedNode`, `Get` and `Put` for `getGrammar` and `putGrammar`). One action is one
call of the interface, except where something can happen in between: a fragment insertion
is `InsertFragment` or `ReplaceByFragment`, then `MoveKid` or `KidRefused` per child, then
`FragmentDone`; a parse is `ScanReset...`, the document type, schema lookups, `EndParse`; a
call of the synchronized pool is a lookup in the const pool, its count, `Lock`, the table,
`Unlock`, and `addNewEntry` is three steps of its own because it writes three fields. `ScanContent`
has a step per token, `IdentityConstraints` one per start tag, text and end tag, `SchemaDocuments` one per child of a
schema document, because the calls nest: its `stack` is the call stack of the recursion.

**Inputs chosen on the way.** The texts of `ScanContent`, the documents and references of
`SchemaDocuments` and the elements of `IdentityConstraints` are chosen when they are first read.
A file has the same content for a whole parse; the next parse may find another.

**Reference definitions.** `Markup`, `Particles` and `KeyTables` define what is right from the
XML and Schema recommendations' point of view and share no operator with the model of the code, which is
compared with them state by state.

**Calls that change nothing.** A call that throws before it changed anything is a step that
changes nothing and is not written as an action. A call that throws after it changed
something is an action (`KidRefused`, `NameInPool`, `LoadDTDThrows`) or an alternative of one
(`InsertInText` of a range leaves the text split when the node is then refused).

**Operators marked "mutant"** are changed forms of the definition that follows them, as a
plausible bug would change it. No specification uses them. `PROJECT.json` "mutants" pairs every
checked property with one that violates it, which shows that the property depends on the code.

**Constants that select what the application does.** The models found calls the code carries
out although they break what it promises (section 5). So that the other properties can be
checked beyond them, the specifications take a constant that says whether such calls are
made: `Unguarded` (`DOMTree`, `GrammarPool`, `XSModels`), `CloneFirst` (`DOMParentNode`),
`RemoveUnstarted` (`DOMNodeIterator`), `SplitFreely` (`DOMRange`), `AbandonFreely` (`ScanContent`); and `RawSpec`
beside `Spec` (`SynchronizedStringPool`). Passing runs are without these calls (except the two of
`GrammarPool` that only throw). The definitions `FragmentAllOrNothing`, `NoNullDereference`, `NothingThrown`,
`UnknownIsZero`, `IndexIsOfFailingChild`, `CounterTellsParticlesApart` and `KeyrefsMatchDescendants` are in no run: they say what documentation or
comments promise and the code does not keep, and are there to reproduce section 5; of `IndexIsOfFailingChild` a run checks all but one case (*FirstUnexpectedChild*).

## 3. What the runs check

All runs are exhaustive over the instance given. Deadlock is checked except where a document
ends: `content_models`, `scan_content` and `identity`. Type invariants are in no run: those that are proved
hold for all instances (section 6).

**`tree`** (`MCDOMTree`, 2 432 states). A document node, its document type and element, two more
elements, a comment, a fragment: enough for every row of `isKidOK` that the document node
treats specially, a second element to be refused, and moves between three parents.
*ParentChildAgree*: parents and child lists agree between any two steps of any call.
*Acyclic*. *DocumentCaches*: whenever no call runs, `fDocElement` and `fDocType` are exactly the
document's element and document type; `replaceChild` clears the cache, lets the virtual
`insertBefore` fill it and then removes the old child *without* the virtual `removeChild`, and
puts the caches back on an exception. *FragmentInOrder*: during the insertion of a fragment
the moved children stand right before the reference child, in order, and the others still wait.
*FragmentInsertionEnds*: liveness.

**`pointers`** (`MCDOMParentNode`, 2 441 states). A document, two elements, two texts and one that is
cloned: lists of up to five children and all positions, moves between and within parents.
*SiblingsMirror* and *EndsKnown* say what the flags and the ring must agree on; *ImplementsChildLists*
that the pointers refine `ChildLists`: reading the lists off the pointers, every call is one
insertion or removal of one child at the place asked for, and nothing else moves.

**`iterator`** (`MCDOMNodeIterator`, 39 029 states). One element with a read-only entity reference and
a comment, a second element, a fragment; one iterator on the document or on the element, all
mutations of `DOMTree`. *StepsAreNeighbours* compares the tree walk of `nextNode` and `previousNode` with
document order defined apart from it: no accepted node ahead or behind is skipped.
*OnOwnSubtree*: an iterator never rests on a node that has left its subtree.
*RemovalKeepsPosition*: what was ahead of (behind) the iterator before a removal and is still there,
is ahead of (behind) it afterwards, in both directions of travel. One iterator is enough:
iterators do not influence each other or the tree.

**`range`** (`MCDOMRange`, 43 361 states). An element with a text of two characters, one text that
`splitText` may create, a fragment; one range; tree mutations, `setNodeValue`, `appendData`,
`insertData`, `deleteData`, `replaceData`, `splitText`, `normalize`, `insertNode` and all setters.
*BoundariesExist*, *StartNotAfterEnd*: both points exist, in one tree and in order, whatever happens around them.
*CompareIsDocumentOrder*: `compareBoundaryPoints` agrees, on any two points of a tree, with
document order defined as the number of tags and characters in front of a point. `MaxLen = 2`
is the bound on character data: offsets 0, inside and at the end.

**`grammar_pool`** (`MCGrammarPool`, 484 065 states up to symmetry). Two parsers, four grammar objects, one
namespace, one system id and the key of nameless DTD grammars. Every parse with each setting of
the caching flags, loads of DTDs and schemas, cached or not, abandoned by exceptions;
clearing, orphaning, locking and unlocking; two parsers at once while locked. *SoleOwner*: every
allocated grammar is owned exactly once, by the pool, a bucket or the application, so none is
leaked and none deleted twice. *TablesAreTrue*: every table holds a grammar under its own key
(`setSystemId` frees the key string, so it must not be in a table meanwhile), and what a
parser remembers in `fGrammarFromPool` is still in the pool.
*DTDNotShared*: no two scanners scan into one DTD grammar. *LockedRegistryIsFrozen*: while the pool is locked, its registry does not
change, and nobody gives a grammar in it another key or type or scans a subset into it. It does not say that such a grammar is never
written to: a grammar is a kind, a key and a flag here, but validation does write inside of it, without a lock (sections 5 and 8). Four objects are one
more than any state without a refusal needs, so that a new grammar can always be met.

**`string_pool`** (`MCStringPool`, 42 144 states). Two threads, one string of the locked pool and two new
ones, an id map that must grow at the second entry (`InitialCap = 2`, 64 in the code); all six
operations, ids from 0 to one beyond the next. *MutexHeld*; *TablesAgree*: hash table and id
map are inverse through growth; *ValueHasId*: `getValueForId` answers with the string whose id
was asked for although id and count are read outside the mutex; *IdsAreForGood*; *ImplementsStringIds*:
refinement of `StringIds`, so all threads see one table; *CallsReturn*: liveness, also past the
exception thrown with the mutex held.

**`content_models`** (`MCContentModels`, 1 168 268 states). Leaves `a`, `b` and wildcards with six occurrence
ranges, all groups of up to two of them, groups of three, all-groups, with and without full checking, DTD and mixed
declarations; every list of up to five children if the particle as a whole is repeated, and four if not (one less under full checking and
for mixed declarations of schemas, to keep the run small), out of `a`, `b` and `s`, a member of `a`'s substitution group. Lists go on after a child that fails, as the scanner asks the validator at the end tag only. The numbers go one beyond every bound (`maxOccurs` 3), and five children are enough to
go twice around a loop of two and one further. *VerdictIsLanguage*: a list is accepted exactly if it is in the language of the
particle, through the rewriting of counted leaves, the follow lists, the subset construction and the second pass
for substitution groups. *FirstUnexpectedChild*: the child reported is the first that cannot be there, however many follow it,
but in the one case *BlamesTheSecond* of an optional element (section 5).
*AttributionIsReported*: full checking reports exactly the ambiguous particles. Where the particle is ambiguous and
unchecked, or two names of one automaton overlap under a counter, the code does not promise a verdict, and
`Decided` leaves the first two out.

**`scan_content`** (`MCScanContent`, 782 435 states). A document of a root and up to two pieces of markup, or
three with a reference between, in which tags and references may be torn apart; two entities, one
of which may refer to the other and to itself, with replacements of up to two pieces; two parses with one scanner,
each at once or progressive and given up at any token. *VerdictIsWellFormedness*: `endDocument` is reached exactly
by well-formed documents, though some ends of entities are signalled by an exception and
others skipped in silence. *EventsAreTheDocument*: the handler is told the document's elements, namespaces, children
and text, once and in order. *ReadersAreOpenReferences*: the readers are those of the references that the application knows
to be open. *RecursionIsStopped*. Assumed: namespaces on; a validating DTD scanner, so children
are collected; the default `ExitOnFirstFatal` (no recovery); attributes other than declarations of namespaces,
comments, processing instructions, CDATA and `]]>` are left out; internal and external entities behave alike; the
application resets the scanner with the token when it gives a progressive parse up, and does
not call `scanNext` after it returned false.

**`identity`** (`MCIdentityConstraints`, 381 540 states). Ten grammars with unique, key and keyref over children,
descendants, unions and nested owners; every document of up to five elements, four deep, with two values. *KeysAreJudged*
and *KeyrefsAreJudged*: at the end of the document exactly the elements that violate a constraint have been reported.
Five elements are a keyref, two keys and two elements around them, the least in which a key is handed up through a
sibling. Values are equal or not, keys are not nillable, validation is on throughout, and fields end at attributes or
simple elements. What the code does otherwise (section 5) is outside of `Apart` and `OncePerDepth`, or of the grammars.

**`xs_models`** (`MCXSModels`, 218 907 states up to symmetry). Two parsers on one pool, two namespaces, three
grammars; up to three models at a time of each maker, one more than a chain without leaks needs. *ModelIsCurrent*: the
model PSVI is reported from has exactly the grammars the scanner may validate with. *NoFreedModelRead*: no model is used or
deleted after its deletion. *ReadSchemasAreThere*: a schema that is not read again still has its grammar.
*EveryModelOwned*: each model has one that will delete it.

**`schema_documents`** (`MCSchemaDocuments`, 966 375 states). Two documents of namespaces `A` and `B` and a third without one;
up to three includes and imports, right, wrong or without location; three groups in two namespaces with up to two
references between them, some with names that two documents declare. *NestingEnds*: no document and no group is
entered again inside itself. *ScopesAreUnique*: the counter survives every change of grammar. *ReferencesAreJudged*: at the end all groups
are defined, references resolved if the group is there and reported if not, circles broken just once, second
declarations reported. Three links make circles of includes, of imports and of both together; two references make a circle
across documents. A reference to a namespace that its document does not import may be accepted or refused (section 5).

**`scan_content_abandoned`** is the violation run: section 5.

## 4. Fairness

- `DOMTree`: weak fairness of `MoveKid \/ KidRefused \/ FragmentDone`. The DOM runs in the caller's
  thread; a begun loop goes on by itself. Nothing is assumed of the caller.
- `SynchronizedStringPool`: weak fairness of every step of a begun call (threads run), strong
  fairness of `Lock` (a thread that waits for a mutex that is released again and again gets
  it in the end, as the platform's scheduler provides). Threads need not make calls.
- The other specifications are safety only. What could run forever in them is a safety property here:
  that expansion of entities and nesting of schema documents stop (*RecursionIsStopped*,
  *NestingEnds*), as both push on a stack that is bounded by them.

## 5. What the checks found

The run `scan_content_abandoned` (`AbandonFreely = TRUE`) checks *NextParseClosesOpenFiles*: a progressive parse that is given up
without `scanReset(token)` leaves its readers on the stack. `parsers/SAXParser.hpp` says that the
next parse closes them; `scanFirst` and `scanDocument` do not flush `ReaderMgr` first, and push the new document on top of them.

More of the same kind, which the models reproduce when a `.cfg` is changed as shown; the behaviours were followed in the source by hand:

| set | and check | what happens |
|---|---|---|
| `MCDOMTree`: `Unguarded = {"selfInsert"}` | `Acyclic` | `p.insertBefore(p, 0)` on an element without children makes `p` its own parent: the check begins at the parent of `p` and is skipped if the new child has no children (`DOMParentNode.cpp:151`; `DOMNode.hpp:373`) |
| `MCDOMTree`: `Unguarded = {"selfReplace"}` | `DocumentCaches` | `replaceChild(e, e)` of the document element removes it and leaves it in `fDocElement` (`DOMDocumentImpl.cpp:562`) |
| `MCDOMTree`: `Unguarded = {"multiFragment"}` | `DocumentCaches` | a fragment of two elements that replaces a child of the document: the caches are put back after the first element has been moved in (`DOMDocumentImpl.cpp:572`) |
| `MCDOMTree`: `Unguarded = {}` or `{"multiFragment"}` | `FragmentAllOrNothing` | children are moved before a later one is refused, though the comment at `DOMParentNode.cpp:182` promises an exception "before _any_ of the children have been transferred" |
| `MCDOMParentNode`: `CloneFirst = TRUE` | `SiblingsMirror` | the clone of a first child keeps the flag `FIRSTCHILD` (`DOMNodeImpl.cpp:90`), so behind another node it denies having a previous sibling |
| `MCDOMNodeIterator`: `RemoveUnstarted = TRUE` | `NoNullDereference` | a removal between `createNodeIterator` and the first `nextNode` calls `getParentNode` on a null pointer (`DOMNodeIteratorImpl.cpp:230`) |
| `MCDOMRange`: `SplitFreely = TRUE` | `StartNotAfterEnd` | `splitText` moves a start that lies in the second half into the new text, but leaves an end right behind the old text where it is (`DOMTextImpl.cpp:107`) |
| `MCGrammarPool`: `Unguarded = {"lockNameless"}` | `SoleOwner` | with caching on and a locked pool that holds a nameless DTD grammar, the grammar found in the pool is put into the bucket as well (`IGXMLScanner.cpp:1521`) |
| `MCGrammarPool`: `Unguarded = {"lockNameless"}` | `LockedRegistryIsFrozen` | `scanReset` resets the pool's nameless DTD grammar although the pool is locked (`IGXMLScanner2.cpp:1190`) |
| `MCGrammarPool`: `Unguarded = {"loadNameless"}` | `NothingThrown` | `loadDTDGrammar` takes the pool's grammar and orphans it from the bucket, where `orphanKey` throws (`IGXMLScanner.cpp:3061`) |
| `MCGrammarPool`: `Unguarded = {"orphanAbsent"}` | `NothingThrown` | `orphanGrammar` throws for an absent key; `XMLGrammarPool.hpp:94` says it returns 0 |
| `MCGrammarPool`: `Unguarded = {"clear"}` or `{"share"}` | `TablesAreTrue` | only the resolver that empties the pool forgets the deleted grammars (`XMLGrammarPoolImpl.cpp:133`) |
| `MCStringPool` | `UnknownIsZero` | `getId` of an unknown string answers the count of the const pool, the id of its last string (`SynchronizedStringPool.cpp:108`); 0 "is never a legal id" |
| `MCStringPool`: `SPECIFICATION RawSpec` | `IdsAreForGood` | a parser created before `lockPool` goes on adding to the pool that has become `fConstPool`; its *current* count is added to all ids of the synchronized pool, so they shift (`GrammarResolver.cpp:67`, `SynchronizedStringPool.cpp:60`) |
| `MCContentModels` | `IndexIsOfFailingChild` | for `(a?)` and the children `b`, `a` the index reported is that of the second child (`SimpleContentModel.cpp:95`), so the error names the `a`; `XMLValidator.hpp:98` says the index is of the child that fails, and the other models look at the first child first |
| `MCContentModels` | `CounterTellsParticlesApart` | unchecked, `(a*, b*) \| b{2,2}` takes a single `b`: the two `b` share a column of the transition table and a counter (`DFAContentModel.cpp:768`; comment at 472) |
| `MCIdentityConstraints` | `KeyrefsMatchDescendants` | elements with a key at one depth share a value store, and each clears it when it starts (`ValueStoreCache.cpp:157`): the keys of its earlier siblings are lost, and a keyref of an ancestor to one of them is reported although it is right (`ValueStoreCache.hpp:30`) |
| `MCXSModels`: `Unguarded = {"change"}` | `NoFreedModelRead` | `clear`, `unlockPool` or a reset of cached grammars delete the pool's model under a resolver's, whose destructor reads it (comment at `GrammarResolver.cpp:268`) |
| `MCXSModels`: `Unguarded = {"owner"}`, one parser | `NoFreedModelRead` | `~GrammarResolver` deletes its own pool, with the pool's model, before its own model (`GrammarResolver.cpp:82`) |
| `MCXSModels`: `Unguarded = {"untold"}` | `ModelIsCurrent`, `NoFreedModelRead` | `getXSModel` says a model has changed only to the parser that made it change; others keep a null or stale `fGrammarPoolXSModel` |
| `MCXSModels`: `Unguarded = {"unset"}` | `ModelIsCurrent` | validation by cached grammars alone, without any schema location, reports PSVI from a null `fModel` |
| `MCXSModels`: `Unguarded = {"relist"}` | `ReadSchemasAreThere` | the lists of read schemas outlive the grammars; "it is safe to just return" (`IGXMLScanner2.cpp:1882`) leaves the document without them |

Read in the source while modelling, outside of what the runs check:

- *Locked pools.* A locked pool is meant to be "sharable among parsers operating in different threads"
  (`XMLGrammarPool.hpp:119`). Its registry is (*LockedRegistryIsFrozen*), but the declarations in its grammars make their content model, and the text of it for
  error messages, when they are first needed, by `if (!fContentModel) fContentModel = makeContentModel(); return fContentModel;` without a
  lock (`DTDElementDecl.hpp:199`, `ComplexTypeInfo.hpp:348`; `DTDElementDecl.cpp:156`, `ComplexTypeInfo.cpp:213`). Two threads
  that validate the first element of a declaration at the same time both make a model; the second store overwrites the first, which is never deleted.
  The store is a plain one, so that on processors that do not order stores a third thread may use a model before it sees its
  contents. What was set before the pool was locked is safe: models made by full schema checking, and the mixed models of a validating DTD scan.
  `preContentValidation` sets `fValidated` of the grammar, always to true (`DTDValidator.cpp:412`).
- *Identity constraints.* A path `.//e/b` misses the `b` of an `e` inside an `e`; a selector `e|*` enters an element
  twice; a field `e/@x` also matches `e/e/@x`; a field union such as `b|*` reports a multiple match; self steps inside a path (`g/./e`) never match; nested
  selected elements share the values of one store; `KeyRefOutOfScope` is reported for a keyref without values too. The
  recommendation lets keys of siblings with equal values cancel out, the code does not.
- *Schema documents.* Whether a reference to a namespace imported without location is resolved depends on the order of
  the instance's schema locations; whether a namespace counts as imported is asked of the whole traversal and not of the document
  (`TraverseSchema.cpp:7195`), so it depends on the order too. In a circle of imports, a document of a namespace
  whose grammar has been begun is passed over (`TraverseSchema.cpp:840`), after which a group of it that has
  been read but not yet defined is reported as missing. With multiple imports, `getImportInfo` returns only the first document of
  a namespace; and with cached grammars `addSchemaInfo` puts infos of one parse into include lists that outlive it
  (`SchemaInfo.hpp:313`, `IGXMLScanner2.cpp:1173`).
- *Content.* `scanNext` after it has returned false uses a null `fCurReader`.

## 6. What is proved

The proofs hold for every set of nodes, threads, strings, grammars, documents and namespaces and for every initial tree that
the named assumptions admit. Each is an inductive invariant: `Init => Inv`, `Inv /\ [Next]_vars => Inv'`,
one lemma or step per action. Before it was proved each invariant was checked by TLC on the instance of section 3.

**`DOMTreeProofs`** (assumes `TreeAssumption` and `KidsAssumption`: the initial tree is a forest with accurate caches and
every child is of a kind its parent admits).

- `TypeCorrect`, `ParentsAndKidsAgree` and `NoCycles`, for an application that does not insert a node into itself
  (`"selfInsert" \notin Unguarded`). The inductive invariant is `TreeInv`: type, *ParentChildAgree*,
  *Acyclic*, and `CallSound`. The last is needed because a fragment is moved in several steps: in
  between, the target must still not be the fragment or one of the children that wait in it, and the
  reference child must still be the target's. The main lemmas say what removing
  from and inserting into a list do (`WithoutIs`, `BeforeIs`), and that `Unlink` and `Link` keep a
  forest a forest; absence of cycles is stated as the absence of a non-empty set of nodes
  closed under parent, which a link preserves if the child is not among the ancestors.
- `KidsKeepTheirOrder` (*FragmentInOrder*), under the same assumption. The property is not inductive: a child list has
  to be followed by positions. `InOrder` says that for some number `m` the first `m` children of the
  fragment stand at consecutive positions that end right before the reference child, and the rest are what the fragment
  still holds (`Standing`); `MoveKid` goes from `m` to `m + 1`.
- `DocumentCachesHold` (*DocumentCaches*), for an application without the calls of section 5 (`Unguarded = {}`). The invariant `DocInv` adds to
  `TreeInv` that children are of admitted kinds (`AllowedKids`, so that a fragment has no document type to bring), what
  the prescan of `insertBefore` has established of the children that wait (`KidsFit`), and what the caches are
  *during* a replacement (`CachesKept`): the node that is going out is still a child but no longer in the cache, what was
  cached is in `Temp`, and the cache is as at the start unless an element has come with the fragment, after
  which no further child can be refused. It is the last clause that makes putting the caches back on an exception right.

**`DOMRangeProofs`** (assumes `TreeAssumption`, `KidsAssumption`, `RangeAssumption` and `"selfInsert" \notin Unguarded`). `BoundariesAlwaysExist`
(*BoundariesExist*), `ComparesInDocumentOrder` (*CompareIsDocumentOrder*) and, with `~SplitFreely` (section 5 has the call of `splitText` it excludes),
`RangesStayOrdered` (*StartNotAfterEnd*): through all mutators, through fragments that move child by child, and through
`insertData`, `deleteData`, `replaceData`, `splitText`, `normalize`, the setters and the ranges' own `insertNode`. The inductive invariant
`RangeInv` is `TreeInv` with `Sound`, which adds that character data has no children and a fragment is no child
(`Shaped`), since otherwise a notification would count children in one place and characters in another, that no point lies in a text that
is still to be created (`Points`), since `splitText` gives that one a new length, and that ranges are `Ordered`. `Sound` is stated of any tree, lengths and
table of ranges, so the lemmas of the notifications (`RemovalKeepsPoints`, `InsertionKeepsPoints`, `MoveKeepsPoints`, and `...KeepsOrdered` for the order)
compose to the sequence of a whole call. Where the code informs the ranges before it changes the tree and where after is what these
lemmas turn on: a removal is told in the old tree, an insertion in the new one. `normalize` works on runs of
texts of any number, so `RangeAssumption` has that `Node` is finite.

*StartNotAfterEnd* is not inductive as it is stated: it compares the counts of tags and characters in front of two points, and every edit
changes those counts for points it does not touch. `NotAfter` says the same locally: the containers have a node above both of them, and at every such node
the one point stands at or before the other (`Stands`: between two children at an even number, inside one at an odd number).
An edit renumbers the children of one node and moves both points with a monotone map (`Pulled`, `Pushed`), whatever the two points are, so
`RemovalKeepsOrder` and `InsertionKeepsOrder` hold of any two points, and moves, `replaceChild` and `normalize` follow by composition;
`splitText`, which is both an insertion and a move of the points in the second half, needs the exclusion above (`SplitKeepsOrder`). Apart from the steps it is proved that
the four cases of `compareBoundaryPoints` are exclusive, exhaustive, and find the last node where the points stand apart (`CasesOfCompare`, `ComparedIs`),
that its answer is `NotAfter`, so a setter that does not collapse the range leaves it ordered (`ComparedOrders`, `WithOrdered`), and that `Place` agrees:
its three recursive definitions have values (`NodeByNode`: a set of nodes that a definition reaches grows until it has all of them), a point below
a node lies between its tags (`PlaceInside`), and two points that stand apart at a node are in that order (`PlacesApart`).

**`DOMNodeIteratorProofs`** (assumes `TreeAssumption`, `KidsAssumption`, `IteratorAssumption`, `"selfInsert" \notin Unguarded` and `~RemoveUnstarted`:
every iterator has returned a node before a node is removed; section 5 has what happens otherwise). `IteratorsStayInTheirTrees` (*OnOwnSubtree*),
`IteratorsStepToNeighbours` (*StepsAreNeighbours*) and `RemovalsKeepPositions` (*RemovalKeepsPosition*). The inductive invariant `IterInv` is
`TreeInv`, that no iterator has crashed, and `EachPlaced`: the current node of an iterator is its root or below it. Most of the proof is
about document order, which is defined by recursion: `Follow` gives what a recursion along a function is equal to, and with it
the order of a subtree is its root followed by the orders of its children (`Lists`, `Stands`), the nodes below a node are one block of the order (`BlockIs`),
and the next and the previous node of the code's walk by children, siblings and parents are the neighbours in that order.
*RemovalKeepsPosition* then compares the order of two trees: what is gone is one block (`GoneIs`), the rest keeps its order (`OrderLess`, `OrderKept`),
and what the fix-up chooses is the neighbour of the block on the side where the iterator stood (`SkipGrows`, `SidesKept`).

**`DOMParentNodeProofs`** (assumes `ParentNodeAssumption` and `~CloneFirst`). `PointersTyped`, `SiblingsAreMirrored`,
`EndsAreKnown`, `SiblingsHaveOneParent`. The invariant `PtrSound` says of every node what its head,
flag, previous, next and orphan state must be; the four properties follow from it. It needs more than they
say: that `isFirstChild` is set for heads only, that the ring closes at the head, and that an
orphan has no pointers left; each of the three unlink and four link cases uses and restores all of it.

`PointersImplementLists` is the refinement: `PointerSpec` implements `ChildLists` under the mapping that reads the lists off the
pointers (*ImplementsChildLists*). What is read off is a recursive definition (`Kids`), so the induction is not on it: the invariant
`ListInv` says that *some* forest is represented by the pointers (`Represents`: `Threads` compares a list with first child,
owner and `nextSibling`, position by position), which the empty lists are at the start and which each call hands on to the forest
that `Unlink` and `Link` make of it (`OutRepresents`, `InRepresents`; `OutIs` and `InIs` describe a whole patch, whichever of
its cases it takes). Separately, a represented forest is *the* one read off (`KidsAre`): its tails solve the recursive equation, so that a solution
exists, and every solution agrees with them from the last child backwards. In the same way the loop over ancestors of `insertBefore` is the
path of `ChildLists` (`AncestorsAre`, `PathStep`). Cloning changes no list.

**`SynchronizedStringPoolProofs`** (assumes `StringPoolAssumption`; `Spec`, that is, without additions to
the const pool). `TableTyped`, `MutexExcludes`, `TablesStayInverse` and `IdsNeverChange`. The invariant
`PoolInv` adds to the three invariants what a thread inside the mutex knows: that the string it is
adding is not in the table yet (`AdderSound`), that there is room for the entry when it is stored,
and that the hash table is ahead of the counter by exactly that entry until `Bump`.
`IdsNeverChange` follows from it step by step: only `Store` writes the hash table, and only an entry that was 0.

Its second half, under the same assumptions, is `ValuesHaveTheirIds` (*ValueHasId*) and `PoolGivesIds`, the refinement:
every behaviour of the pool is one of `StringIds`. `IdsInv` extends `PoolInv` by what makes answers right:
the two pools have no string in common (`PoolsApart`), the id map leads back from every hashed string
(`HashedIsMapped`), what a call has read of the const pool still holds when it uses it although it reads it outside the
mutex (`Knows`), and an answer stays right after the call has returned (`AnswersRight`). Under the mapping an id is given
when `Bump` raises the counter and told when `addOrFind` releases the mutex; every other step is a stutter.

**`GrammarPoolProofs`** (assumes `PoolAssumption` and `Guarded`: the application neither shares an unlocked pool between running parsers, nor
empties it under a parser that knows what is in it, nor locks it while it holds a nameless DTD grammar;
section 5 has what happens otherwise). `PoolTyped`, `GrammarsHaveOneOwner` (*SoleOwner*), `TablesStayTrue` (*TablesAreTrue*), `DTDGrammarsApart`
(*DTDNotShared*) and `LockedRegistryFrozen` (*LockedRegistryIsFrozen*: of the registry, and of type, key and subsets of the grammars in it; not of what their declarations make on demand); and `NothingIsThrown`, which no run checks because
`grammar_pool` includes the two calls that throw, for an application that neither
orphans absent grammars nor loads a DTD while the pool has a nameless one.
`GrammarInv` is: a grammar is allocated exactly if it is in one place, under its own key (`OwnedIn`); what a parser remembers
is what the pool has there (`FoundIsThere`); while the pool is unlocked only one parser runs and knows of its contents
(`OneAtATime`); and between `scanReset` and the end of the subsets, the DTD grammar is under the nameless key, in the bucket
or in the pool, and the bucket has nothing else (`SubsetsOwned`). The last is what makes `NameInPool` and
`NameInBucket` safe, which take the grammar out, change its key and put it back in five steps. `OwnedIn` is stated of any
four tables, so that the lemmas of ownership (`TakenFromPool`, `GivenToBucket`, ...) compose to the
sequence of an action, with the grammar an orphan in between.

**`SchemaDocumentsProofs`** (assumes `SchemaDocumentsAssumption` only; with and without multiple imports). `NestingAlwaysEnds` (*NestingEnds*) and
`ScopesStayUnique` (*ScopesAreUnique*). Neither is inductive. For the first round `ReadOnce` is enough: a document
being read is listed and a listed one is not opened. The second round follows the links the first has found, so it ends
because these make no circle (`NodesAcyclic`, stated as: every non-empty set of documents has one that was
not opened from any of them); with `Calls`, which says that the rounds on the stack are a path along them. Groups
end because the calls of groups and `fCurrentGroupStack` are in step (`OpenGroups`).
For the scopes, the count of a grammar is in one of two places, the grammar's record or the traverser's `fScopeCount` (`Count`); it stays
above every scope given, to groups that are done and to those under way (`ScopesCounted`). That needs `AtTop`: the
traverser always works on the grammar of the topmost call, so that every return restores the count it saved.

**`XSModelsProofs`** (assumes `XSModelAssumption` and an application that makes none of the uses that nothing in the interface
prevents, `Unguarded = {}`; section 5 has what each of them leads to). `ModelIsCurrentHolds`, `NoFreedModelReadHolds`,
`ReadSchemasAreThereHolds` and `EveryModelOwnedHolds`. The inductive invariant `ModelsInvariant` is in two layers. `Sound` says
of any heap of models what needs no protocol: parents make no circle, the pool has one model without a parent, the models a
parser has made are all in its chain, each has as parent another of these, or the pool's model, or none, and the grammars in the
bucket are those that are in the models and those still to be added. Everything that builds or deletes a model is an operator on
a heap, and for each there is a lemma that it keeps `Sound` and leaves the other parsers alone (`Works`: `UnmodelledWorks`,
`ExtendWorks`, `CreateWorks`, `GetWorks`, ...). The second layer is the protocol: a parser at work knows the pool's model if it uses
cached grammars and has nobody else on top of it (`Ready`), has a complete model from the moment it has any
(`Parsing`), an unlocked pool has one parser at work (`OneAtATime`), a locked one has a valid model (`PoolReady`), and lists name only
schemas whose grammars are there (`ListTrue`, and in `Parsing` for the list of one parse). `ModelIsCurrent` needs both: that a chain
has every grammar of the bucket comes from `Sound`, that it ends in the right model of the pool from `Ready`.
Chains are a recursive function over a finite set, and the parents change; what the proofs use of it is `ChainStep`, proved from the
definition by giving the set of models that are reached, and `ChainLeast`, which stands in for induction. `MaxModels` enters only as a guard of the two steps
that may ask for a further model (`Room`): everywhere else the bound is shown to suffice.

The proofs have changed the models in four places. In `GrammarPool`, `Get` was a `CASE` whose arms overlapped; TLC takes the first arm
that fits and the language does not say which, so the arms are now exclusive, in the order of `getGrammar`. In
`SchemaDocuments` the search for the first declaration of a name was a recursion over links; it is now the least position. In `XSModels`
the bound on models was a guard of more steps than need it, and is left where a parser may already have a model. In `DOMNodeIterator`
document order is a function folding the orders of the children instead of a recursive operator, and `IteratorAssumption` has that `Node` is finite.

## 7. Only model-checked

`ReferencesAreJudged` of `SchemaDocuments`, content scanning, content models and identity
constraints are checked by TLC on the instances above and not proved. Liveness under
fairness and what a function defined by recursion over data computes (the language of a particle, the text of a document, the groups that
`ReferencesAreJudged` expects) are beyond the proof system and stay with TLC, except where a value can be given for the definition and compared with it
along a list or over a finite set of nodes, as in `DOMParentNodeProofs`, `DOMNodeIteratorProofs` and `DOMRangeProofs`;
`Particles`, `Markup` and `ContentModels` use recursive operators and are for TLC only.

## 8. Not modelled, and the plan

Modelled so far: the tree, its pointers and observers; the grammar pool, its models and its strings; content
scanning; content models; identity constraints; schema documents. Next, in this order:

1. theorems: `ReferencesAreJudged`, in the manner of `DOMNodeIteratorProofs`;
2. `SchemaDocuments` with `redefine`, the other kinds of components (they follow the pattern of groups with a stack
   or list of their own) and the cached list of documents; `GrammarPool` with `setHandleMultipleImports`
   (`SchemaDocuments` has that switch for imports only, and its run is without it); the
   declarations that threads on a locked pool share, access by access (section 5);
3. `XSerializeEngine` (object numbering on both sides, abstract: the same graph);
4. `DOMDeepNodeList` (cache against the change counter, abstract: the list recomputed),
   `DOMNodeIDMap` (open addressing with tombstones, abstract: a set), `DOMNodeRelease`,
   the contents operations of `DOMRange`, `DOMTreeWalker`;
5. `PlatformUtils` (counted initialisation), `XInclude` (inclusion loops), recovery of the scanner
   after fatal errors, parameter entities in the DTD scanner.

Left out for good: lexing, decoding, datatypes, regular expressions and serializers (functions
of single values, with tests of their own), platform wrappers and network or file access
(I/O), abstract interfaces, samples and build files. They are most of the source lines.

Inside the modelled components: node data, names and namespaces of the DOM are left out; character
data is a length; `importNode`, `renameNode`, `release`, user data handlers and null arguments are
not modelled; filters of iterators do not modify the tree; a range's `fCollapsed` is not
modelled; the grammars of `GrammarPool` are a kind, a key and a flag; `fValidated`,
which validators set in shared grammars too (`DTDValidator.cpp:412`, always to true), and the attribute lists of
declarations are left out; the collapse of a range set to a point of another document is modelled but not reached, as the instance has one document; of the scanners only `IGXMLScanner` is modelled; `flushAll` and serialization of string
pools are left out; an orphaned grammar that the application deletes while an invalid model still names it; in
schema documents annotations, unreadable documents and `fCurrentScope`.
