--------------------------- MODULE SchemaDocuments ---------------------------
(***************************************************************************)
(* How TraverseSchema finds its way through schema documents that include  *)
(* and import each other.  One traverser serves all the documents in two   *)
(* rounds: it first follows every include and import (preprocess...), and  *)
(* then goes through the same documents again (process..., traverse...),   *)
(* building the components and, at a reference, breaking off to build the  *)
(* one referred to wherever it is.  On the way it carries the current      *)
(* SchemaInfo, grammar and scope counter along.  Of the components only    *)
(* model groups are modelled, each with at most one reference.             *)
(*                                                                         *)
(* A SchemaInfo is named by its key in fSchemaInfoList, the document and   *)
(* the namespace it is read for: a document without target namespace takes *)
(* that of the document that includes it.                                  *)
(***************************************************************************)
EXTENDS Integers, Sequences, FiniteSets, SequencesExt, Functions

CONSTANTS Docs,            \* the schema documents
          TargetNS,        \* their target namespaces, NoNS if there is none
          Namespaces,      \* the other namespaces
          Declares,        \* the names of the groups a document declares
          Links,           \* the includes and imports documents may have
          LocationOf,      \* what the instance document says of a namespace
          MultipleImports, \* the feature of that name
          MaxLinks,        \* bound: includes and imports in all documents
          MaxRefs          \* bound: references in all documents

VARIABLES files,           \* the includes and imports of the documents read
          refs,            \* the references in the groups traversed
          fSchemaInfoList, \* the documents known in this parse
          includeLists,    \* fIncludeInfoList, which several infos may share
          grammars,        \* GrammarResolver: the grammars of this parse
          traverser,       \* TraverseSchema
          stack,           \* the calls that are running
          errors           \* what has been reported

vars == <<files, refs, fSchemaInfoList, includeLists, grammars, traverser, stack, errors>>

NoNS == "no namespace"
NoSource == "no source"
Own == "own namespace"
NoRef == [ns |-> NoNS, name |-> "no reference"]

GroupNames == UNION {ToSet(Declares[d]) : d \in Docs}

ASSUME SchemaDocumentsAssumption ==
  /\ {NoNS, Own} \cap Namespaces = {} /\ NoSource \notin Docs
  /\ TargetNS \in [Docs -> Namespaces \cup {NoNS}]
  /\ \A d \in Docs : IsInjective(Declares[d])
  /\ Links \subseteq [kind : {"include"}, doc : Docs]
                \cup [kind : {"import"}, ns : Namespaces, doc : Docs \cup {NoSource}]
  /\ LocationOf \in [Namespaces -> Docs]
  /\ MultipleImports \in BOOLEAN /\ {MaxLinks, MaxRefs} \subseteq Nat

EmptyTable == [x \in {} |-> x]
With(table, key, value) == [x \in DOMAIN table \cup {key} |-> IF x = key THEN value ELSE table[x]]

DocOf(i) == i[1]
NSOf(i) == i[2]

-----------------------------------------------------------------------------
(* Documents: their text is chosen when it is looked at for the first time *)

LinksRead == FoldFunction(LAMBDA links, n : Len(links) + n, 0, files)

\* fParser->parse
Read(d) ==
  \/ d \in DOMAIN files /\ UNCHANGED files
  \/ /\ d \notin DOMAIN files
     /\ \E links \in UNION {[1..n -> Links] : n \in 0..2} :
          /\ LinksRead + Len(links) <= MaxLinks
          /\ files' = With(files, d, links)

RefsRead == {g \in DOMAIN refs : refs[g] # NoRef}

\* a prefix in a reference names a namespace; without prefix, in a document
\* without target namespace, it is that of the including document
Reference(d) ==
  {NoRef} \cup (IF Cardinality(RefsRead) < MaxRefs
                THEN [ns : Namespaces \cup (IF TargetNS[d] = NoNS THEN {Own} ELSE {}), name : GroupNames]
                ELSE {})

\* resolvePrefixToURI
Resolved(i, r) == <<IF r.ns = Own THEN NSOf(i) ELSE r.ns, r.name>>

-----------------------------------------------------------------------------
(* SchemaInfo *)

Info(i) == fSchemaInfoList[i]
IncludesOf(i) == includeLists[Info(i).includes]

\* addSchemaInfo(toAdd, INCLUDE), for an info of the list and one that is not
Shared(lists, own, toAdd) == [lists EXCEPT ![own] = Append(@, toAdd)]

\* what t has and s has not, in its order
Missing(s, t) ==
  LET lacking == {k \in DOMAIN t : ~Contains(s, t[k])}
      nth(n) == CHOOSE k \in lacking : Cardinality({j \in lacking : j <= k}) = n
  IN  [n \in 1..Cardinality(lacking) |-> t[nth(n)]]

\* addSchemaInfo(toAdd, INCLUDE), for two infos of the list
Merged(own, toAdd) ==
  LET theirs == Info(toAdd).includes
      added == Append(includeLists[own], toAdd)
      mine == added \o Missing(added, includeLists[theirs])
  IN  IF Contains(includeLists[own], toAdd) THEN includeLists
      ELSE IF theirs = own THEN [includeLists EXCEPT ![own] = added]
      ELSE [includeLists EXCEPT ![own] = mine, ![theirs] = @ \o Missing(@, mine)]

\* addSchemaInfo(toAdd, IMPORT)
Importing(list, i, toAdd) ==
  [list EXCEPT ![i].imports = IF Contains(@, toAdd) THEN @ ELSE Append(@, toAdd)]

\* the first of s that is in S, if there is one
FirstOf(s, S) ==
  {s[k] : k \in {k \in DOMAIN s : s[k] \in S /\ \A j \in 1..(k - 1) : s[j] \notin S}}

\* the infos whose documents declare a name
Declarers(name) ==
  {i \in DOMAIN fSchemaInfoList : Info(i).root /\ Contains(Declares[DocOf(i)], name)}

\* mutant: included documents are not searched
DeclaringAlone(i, name) ==
  FirstOf(<<i>>, Declarers(name))

\* getTopLevelComponent: the info whose document declares a name, if there is one
Declaring(i, name) ==
  {x \in FirstOf(<<i>> \o IncludesOf(i), Declarers(name)) : Info(i).root}

NewInfo(own) == [root |-> TRUE, includes |-> own, imports |-> <<>>, fProcessed |-> FALSE]

-----------------------------------------------------------------------------
(* TraverseSchema: the state it carries from document to document *)

NoInfo == <<NoSource, NoNS>>

\* constructor and init
NewTraverser(ns) ==
  [fSchemaInfo |-> NoInfo, fSchemaGrammar |-> ns, fScopeCount |-> 0, fImportedNSList |-> {},
   fGlobalDeclarations |-> {}, fCurrentGroupStack |-> <<>>, fPreprocessedNodes |-> EmptyTable]

CurrentNS == traverser.fSchemaGrammar

\* mutant: the grammar that is left does not get its count back
SavedNot(gr, t) == gr

\* setScopeCount of the grammar that is left
Saved(gr, t) == [gr EXCEPT ![t.fSchemaGrammar].scopeCount = t.fScopeCount]

\* restoreSchemaInfo(i, IMPORT): the traverser and the grammars it leaves
Restored(t, gr, i) ==
  [t EXCEPT !.fSchemaInfo = i, !.fSchemaGrammar = NSOf(i),
            !.fScopeCount = Saved(gr, t)[NSOf(i)].scopeCount]

\* restoreSchemaInfo(i, type)
Restore(t, gr, i, type) ==
  IF type = "import"
  THEN traverser' = Restored(t, gr, i) /\ grammars' = Saved(gr, t)
  ELSE traverser' = [t EXCEPT !.fSchemaInfo = i] /\ grammars' = gr

Top == stack[Len(stack)]
Below == Front(stack)
Advanced == Append(Below, [Top EXCEPT !.at = @ + 1])
Call(frame) == stack' = Append(Advanced, frame)
Running(phase) == stack # <<>> /\ Top.phase = phase

\* the errors of includes and imports, and of references
Report(kind) == errors' = errors \cup {[kind |-> kind, info |-> Top.info, link |-> Top.at]}
ReportGroup(kind, name) == errors' = errors \cup {[kind |-> kind, info |-> Top.info, group |-> name]}

-----------------------------------------------------------------------------
(* The first round: preprocessChildren of a document *)

AtLink(phase) == Running(phase) /\ Top.at <= Len(files[DocOf(Top.info)])
NextLink == files[DocOf(Top.info)][Top.at]

Round(phase, i, from, type) ==
  [phase |-> phase, info |-> i, from |-> from, type |-> type, at |-> 1]

NewGrammar == [groups |-> EmptyTable, scopeCount |-> 0]

\* preprocessSchema, up to preprocessChildren
Opened(i, t, gr) ==
  LET ns == NSOf(i)
      g == IF ns \in DOMAIN gr THEN gr[ns] ELSE NewGrammar
      known == With(fSchemaInfoList, i, NewInfo(i))
  IN  /\ grammars' = With(gr, ns, g)
      /\ traverser' = [t EXCEPT !.fSchemaInfo = i, !.fSchemaGrammar = ns, !.fScopeCount = g.scopeCount,
                                !.fImportedNSList = @ \cup {ns}]
      /\ fSchemaInfoList' = IF t.fSchemaInfo = NoInfo THEN known ELSE Importing(known, t.fSchemaInfo, i)
      /\ includeLists' = With(includeLists, i, <<i>>)

\* a schema location of the instance document, whose namespace has no grammar yet
TraverseSchema(ns) ==
  LET i == <<LocationOf[ns], ns>>
  IN  /\ stack = <<>> /\ ns \notin DOMAIN grammars /\ i \notin DOMAIN fSchemaInfoList
      /\ Read(DocOf(i))
      /\ Opened(i, NewTraverser(ns), grammars)
      /\ stack' = <<Round("preprocess", i, NoInfo, "root")>>
      /\ UNCHANGED <<refs, errors>>

\* fPreprocessedNodes->put; for an import the code does it after the call, but
\* reads it in the second round only
Noted(t, i) == [t EXCEPT !.fPreprocessedNodes = With(@, <<Top.info, Top.at>>, i)]

PreprocessInclude ==
  /\ AtLink("preprocess") /\ NextLink.kind = "include"
  /\ LET d == NextLink.doc
         i == <<d, CurrentNS>>
         own == Info(Top.info).includes
     IN  \/ /\ i \in DOMAIN fSchemaInfoList
            /\ includeLists' = Merged(own, i)
            /\ stack' = Advanced
            /\ UNCHANGED <<files, fSchemaInfoList, traverser, errors>>
         \/ /\ i \notin DOMAIN fSchemaInfoList
            /\ Read(d)
            /\ TargetNS[d] \notin {NoNS, CurrentNS}
            /\ Report("IncludeNamespaceDifference")
            /\ stack' = Advanced
            /\ UNCHANGED <<fSchemaInfoList, includeLists, traverser>>
         \/ /\ i \notin DOMAIN fSchemaInfoList
            /\ Read(d)
            /\ TargetNS[d] \in {NoNS, CurrentNS}
            /\ fSchemaInfoList' = With(fSchemaInfoList, i, NewInfo(own))
            /\ includeLists' = Shared(includeLists, own, i)
            /\ traverser' = [Noted(traverser, i) EXCEPT !.fSchemaInfo = i]
            /\ Call(Round("preprocess", i, Top.info, "include"))
            /\ UNCHANGED errors
  /\ UNCHANGED <<refs, grammars>>

Imported(t, ns) == [t EXCEPT !.fImportedNSList = @ \cup {ns}]

\* preprocessImport, when no document is opened
PassImport ==
  /\ AtLink("preprocess") /\ NextLink.kind = "import"
  /\ LET ns == NextLink.ns
         d == NextLink.doc
         i == <<d, ns>>
         found == ns \in DOMAIN grammars
     IN  \/ /\ ns = CurrentNS
            /\ Report("Import_1_1")
            /\ UNCHANGED <<files, fSchemaInfoList, traverser>>
         \/ /\ ns # CurrentNS
            /\ d = NoSource
            /\ traverser' = Imported(traverser, ns)
            /\ UNCHANGED <<files, fSchemaInfoList, errors>>
         \/ /\ ns # CurrentNS
            /\ i \in DOMAIN fSchemaInfoList
            /\ fSchemaInfoList' = Importing(fSchemaInfoList, Top.info, i)
            /\ traverser' = Imported(traverser, ns)
            /\ UNCHANGED <<files, errors>>
         \/ /\ ns # CurrentNS
            /\ d # NoSource /\ i \notin DOMAIN fSchemaInfoList
            /\ found /\ ~MultipleImports
            /\ traverser' = Imported(traverser, ns)
            /\ UNCHANGED <<files, fSchemaInfoList, errors>>
         \/ /\ ns # CurrentNS
            /\ d # NoSource /\ i \notin DOMAIN fSchemaInfoList
            /\ found => MultipleImports
            /\ Read(d)
            /\ TargetNS[d] # ns
            /\ Report("ImportNamespaceDifference")
            /\ traverser' = IF found THEN Imported(traverser, ns) ELSE traverser
            /\ UNCHANGED fSchemaInfoList
  /\ stack' = Advanced
  /\ UNCHANGED <<refs, includeLists, grammars>>

\* preprocessImport of a document that is new
PreprocessImport ==
  /\ AtLink("preprocess") /\ NextLink.kind = "import"
  /\ LET ns == NextLink.ns
         d == NextLink.doc
         i == <<d, ns>>
     IN  /\ ns # CurrentNS
         /\ d # NoSource /\ i \notin DOMAIN fSchemaInfoList
         /\ ns \in DOMAIN grammars => MultipleImports
         /\ Read(d)
         /\ TargetNS[d] = ns
         /\ Opened(i, Noted(traverser, i), Saved(grammars, traverser))
         /\ Call(Round("preprocess", i, Top.info, "import"))
  /\ UNCHANGED <<refs, errors>>

\* the end of preprocessChildren; the root goes on with doTraverseSchema
EndPreprocess ==
  /\ Running("preprocess") /\ ~AtLink("preprocess")
  /\ IF Top.type = "root"
     THEN /\ stack' = <<Round("process", Top.info, NoInfo, "root")>>
          /\ UNCHANGED <<grammars, traverser>>
     ELSE /\ stack' = Below
          /\ Restore(traverser, grammars, Top.from, Top.type)
  /\ UNCHANGED <<files, refs, fSchemaInfoList, includeLists, errors>>

-----------------------------------------------------------------------------
(* The second round: processChildren of a document *)

\* traverseInclude, traverseImport: what the first round has opened here, if anything
TraverseLink ==
  /\ AtLink("process")
  /\ LET node == <<Top.info, Top.at>>
     IN  IF node \in DOMAIN traverser.fPreprocessedNodes
         THEN LET i == traverser.fPreprocessedNodes[node]
              IN  /\ Restore(traverser, grammars, i, NextLink.kind)
                  /\ Call(Round("process", i, Top.info, NextLink.kind))
         ELSE stack' = Advanced /\ UNCHANGED <<traverser, grammars>>
  /\ UNCHANGED <<files, refs, fSchemaInfoList, includeLists, errors>>

\* the group that is next in processChildren
Groups(i) == Declares[DocOf(i)]
NextGroup == Top.at - Len(files[DocOf(Top.info)])

\* traverseGroupDecl, up to the reference in the group
GroupCall(t, i, name, from, type) ==
  /\ traverser' = [t EXCEPT !.fSchemaInfo = i, !.fScopeCount = @ + 1,
                            !.fCurrentGroupStack = Append(@, <<NSOf(i), name>>)]
  /\ Call([phase |-> "group", info |-> i, from |-> from, type |-> type, at |-> 1,
           group |-> name, scope |-> t.fScopeCount])

Registry(ns) == grammars[ns].groups

TraverseGroup ==
  /\ Running("process") /\ NextGroup \in DOMAIN Groups(Top.info)
  /\ LET name == Groups(Top.info)[NextGroup]
         full == <<CurrentNS, name>>
         t == [traverser EXCEPT !.fGlobalDeclarations = @ \cup {full}]
     IN  \/ /\ full \in traverser.fGlobalDeclarations
            /\ ReportGroup("DuplicateGlobalDeclaration", name)
            /\ stack' = Advanced
            /\ UNCHANGED traverser
         \/ /\ full \notin traverser.fGlobalDeclarations
            /\ name \in DOMAIN Registry(CurrentNS)
            /\ traverser' = t /\ stack' = Advanced
            /\ UNCHANGED errors
         \/ /\ full \notin traverser.fGlobalDeclarations
            /\ name \notin DOMAIN Registry(CurrentNS)
            /\ GroupCall(t, Top.info, name, Top.info, "declaration")
            /\ UNCHANGED errors
  /\ UNCHANGED <<files, refs, fSchemaInfoList, includeLists, grammars>>

\* doTraverseSchema is done for an import and for the root, after which the
\* scanner takes the documents away from all infos
EndProcess ==
  /\ Running("process") /\ NextGroup > Len(Groups(Top.info))
  /\ LET done == IF Top.type = "include" THEN fSchemaInfoList
                 ELSE [fSchemaInfoList EXCEPT ![Top.info].fProcessed = TRUE]
     IN  IF Top.type = "root"
         THEN /\ fSchemaInfoList' = [i \in DOMAIN done |-> [done[i] EXCEPT !.root = FALSE]]
              /\ grammars' = Saved(grammars, traverser)
              /\ UNCHANGED traverser
         ELSE /\ fSchemaInfoList' = done
              /\ Restore(traverser, grammars, Top.from, Top.type)
  /\ stack' = Below
  /\ UNCHANGED <<files, refs, includeLists, errors>>

-----------------------------------------------------------------------------
(* The reference in a group: processGroupRef *)

\* the references the group may have
InGroup ==
  LET g == <<DocOf(Top.info), Top.group>>
  IN  IF g \in DOMAIN refs THEN {refs[g]} ELSE Reference(DocOf(Top.info))

\* mutant: only the group at hand is looked at
CircularHere(full) == Last(traverser.fCurrentGroupStack) = full

Circular(full) == Contains(traverser.fCurrentGroupStack, full)
Foreign(full) == full[1] # CurrentNS
IsImportingNS(ns) == ns \in traverser.fImportedNSList
Found(full) == full[1] \in DOMAIN grammars /\ full[2] \in DOMAIN Registry(full[1])

\* getImportInfo: the first document imported for the namespace, if it is not done
ImportInfo(ns) ==
  {i \in FirstOf(Info(traverser.fSchemaInfo).imports,
                 {x \in DOMAIN fSchemaInfoList : NSOf(x) = ns}) :
     ~Info(i).fProcessed}

\* the document at which the search for a group begins
SearchedFrom(full) == IF Foreign(full) THEN ImportInfo(full[1]) ELSE {traverser.fSchemaInfo}

\* why a reference is refused, before a group is looked for
Refusal(full) ==
  IF Circular(full) THEN "NoCircularDefinition"
  ELSE IF Foreign(full) /\ ~IsImportingNS(full[1]) THEN "InvalidNSReference"
  ELSE IF Foreign(full) /\ full[1] \notin DOMAIN grammars THEN "GrammarNotFound"
  ELSE IF ~Found(full) /\ SearchedFrom(full) = {} THEN "DeclarationNotFound"
  ELSE "none"

Looked == stack' = Append(Below, [Top EXCEPT !.at = 2])

Refused(full) ==
  /\ Refusal(full) # "none"
  /\ ReportGroup(Refusal(full), Top.group)
  /\ Looked /\ UNCHANGED <<grammars, traverser>>

Known(full) ==
  /\ Refusal(full) = "none" /\ Found(full)
  /\ Looked /\ UNCHANGED <<grammars, traverser, errors>>

\* to the document searched and back
NotDeclared(full) ==
  /\ Refusal(full) = "none" /\ ~Found(full)
  /\ \E i \in SearchedFrom(full) : Declaring(i, full[2]) = {}
  /\ ReportGroup("DeclarationNotFound", Top.group)
  /\ grammars' = IF Foreign(full) THEN Saved(grammars, traverser) ELSE grammars
  /\ Looked /\ UNCHANGED traverser

\* traverseGroupDecl of the group referred to
Followed(full) ==
  /\ Refusal(full) = "none" /\ ~Found(full)
  /\ \E i \in SearchedFrom(full) : \E home \in Declaring(i, full[2]) :
       GroupCall(IF Foreign(full) THEN Restored(traverser, grammars, i) ELSE traverser,
                 home, full[2], traverser.fSchemaInfo,
                 IF Foreign(full) THEN "import" ELSE "include")
  /\ grammars' = IF Foreign(full) THEN Saved(grammars, traverser) ELSE grammars
  /\ UNCHANGED errors

ProcessGroupRef ==
  /\ Running("group") /\ Top.at = 1
  /\ \E r \in InGroup :
       /\ refs' = With(refs, <<DocOf(Top.info), Top.group>>, r)
       /\ \/ r = NoRef /\ Looked /\ UNCHANGED <<grammars, traverser, errors>>
          \/ /\ r # NoRef
             /\ \E full \in {Resolved(Top.info, r)} :
                  Refused(full) \/ Known(full) \/ NotDeclared(full) \/ Followed(full)
  /\ UNCHANGED <<files, fSchemaInfoList, includeLists>>

\* the end of traverseGroupDecl, and of the processGroupRef that called it
EndGroup ==
  /\ Running("group") /\ Top.at = 2
  /\ LET t == [traverser EXCEPT !.fCurrentGroupStack = Front(@)]
         entry == [scope |-> Top.scope, info |-> Top.info]
         gr == [grammars EXCEPT ![CurrentNS].groups = With(@, Top.group, entry)]
     IN  Restore(t, gr, Top.from, Top.type)
  /\ stack' = Below
  /\ UNCHANGED <<files, refs, fSchemaInfoList, includeLists, errors>>

-----------------------------------------------------------------------------

Init ==
  /\ files = EmptyTable /\ refs = EmptyTable
  /\ fSchemaInfoList = EmptyTable /\ includeLists = EmptyTable /\ grammars = EmptyTable
  /\ traverser = NewTraverser(NoNS)
  /\ stack = <<>> /\ errors = {}

\* the next parse: IGXMLScanner::scanReset, with files that may have changed
ScanReset ==
  /\ stack = <<>>
  /\ files' = EmptyTable /\ refs' = EmptyTable
  /\ fSchemaInfoList' = EmptyTable /\ includeLists' = EmptyTable /\ grammars' = EmptyTable
  /\ traverser' = NewTraverser(NoNS)
  /\ errors' = {} /\ UNCHANGED stack

Next ==
  \/ \E ns \in Namespaces : TraverseSchema(ns)
  \/ PreprocessInclude \/ PassImport \/ PreprocessImport \/ EndPreprocess
  \/ TraverseLink \/ TraverseGroup \/ EndProcess
  \/ ProcessGroupRef \/ EndGroup
  \/ ScanReset

SchemaDocumentsSpec == Init /\ [][Next]_vars

-----------------------------------------------------------------------------
(* Properties *)

\* No document is read, and none is processed, inside itself, and no group is
\* traversed inside itself, however documents include and import each other and
\* groups refer to each other: an info is listed before its includes and imports
\* are followed, and fCurrentGroupStack knows the groups that are not finished.
NestingEnds ==
  \A p, q \in DOMAIN stack :
    stack[p].phase = stack[q].phase /\ p # q =>
      IF stack[p].phase = "group"
      THEN <<NSOf(stack[p].info), stack[p].group>> # <<NSOf(stack[q].info), stack[q].group>>
      ELSE stack[p].info # stack[q].info

\* Every group of a grammar has a scope of its own, also while the traverser
\* leaves the grammar in the middle of a group and comes back to it: the local
\* elements of two groups with one scope would be taken for one another.
ScopesAreUnique ==
  \A ns \in DOMAIN grammars :
    LET registered == {<<n, Registry(ns)[n].scope>> : n \in DOMAIN Registry(ns)}
        begun == {<<stack[p].group, stack[p].scope>> :
                    p \in {q \in DOMAIN stack : stack[q].phase = "group" /\ NSOf(stack[q].info) = ns}}
    IN  \A x, y \in registered \cup begun : x[2] = y[2] => x = y

\* what the documents that have been read say
DeclaredBy(full) ==
  {i \in DOMAIN fSchemaInfoList : NSOf(i) = full[1] /\ full[2] \in ToSet(Declares[DocOf(i)])}
Imports(i, ns) == \E l \in ToSet(files[DocOf(i)]) : l.kind = "import" /\ l.ns = ns /\ l.doc = LocationOf[ns]

\* the groups traversed, and where the reference in each of them leads
Traversed == UNION {{<<ns, n>> : n \in DOMAIN Registry(ns)} : ns \in DOMAIN grammars}
HomeOf(g) == Registry(g[1])[g[2]].info
RefOf(g) == refs[<<DocOf(HomeOf(g)), g[2]>>]
Target(g) == Resolved(HomeOf(g), RefOf(g))
Referring == {g \in Traversed : RefOf(g) # NoRef}
ReportedOn(g) == {e.kind : e \in {x \in errors : "group" \in DOMAIN x /\ x.info = HomeOf(g) /\ x.group = g[2]}}
                 \ {"DuplicateGlobalDeclaration"}

\* the groups that the references of a group lead to, by up to n references
Reached(g) ==
  LET by[n \in 0..Cardinality(Traversed)] ==
        IF n = 0 THEN {Target(h) : h \in {g} \cap Referring}
        ELSE by[n - 1] \cup {Target(h) : h \in by[n - 1] \cap Referring}
  IN  by[Cardinality(Traversed)]

\* a circle of references is broken at one of them, for being circular just at one
Broken(g) ==
  /\ \E h \in Reached(g) : ReportedOn(h) # {}
  /\ \A h1, h2 \in Reached(g) :
       "NoCircularDefinition" \in ReportedOn(h1) \cap ReportedOn(h2) => h1 = h2

\* When a traversal is over, every group of the documents has been traversed, in
\* the namespace for which its document was read; a reference to another group of
\* the namespace, or of one that the document imports, has been resolved if the
\* group is declared in any of the documents, and reported if it is not; every
\* circle of references has been broken, and only references in a circle have been
\* reported as circular; and every second declaration of a group is reported.
ReferencesAreJudged ==
  stack = <<>> =>
    /\ \A i \in DOMAIN fSchemaInfoList : \A n \in ToSet(Groups(i)) : <<NSOf(i), n>> \in Traversed
    /\ \A g \in Referring :
         /\ DeclaredBy(Target(g)) = {} => ReportedOn(g) # {}
         /\ DeclaredBy(Target(g)) # {} /\ (Target(g)[1] = g[1] \/ Imports(HomeOf(g), Target(g)[1]))
              => ReportedOn(g) \subseteq {"NoCircularDefinition"}
         /\ "NoCircularDefinition" \in ReportedOn(g) => g \in Reached(g)
         /\ g \in Reached(g) => Broken(g)
    /\ \A ns \in DOMAIN grammars : \A n \in GroupNames :
         Cardinality({e \in errors : /\ e.kind = "DuplicateGlobalDeclaration"
                                     /\ NSOf(e.info) = ns /\ e.group = n})
           = IF DeclaredBy(<<ns, n>>) = {} THEN 0 ELSE Cardinality(DeclaredBy(<<ns, n>>)) - 1
=============================================================================
