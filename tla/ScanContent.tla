------------------------------- MODULE ScanContent -------------------------------
(***************************************************************************)
(* How IGXMLScanner reads the content of a document through a ReaderMgr    *)
(* and an ElemStack.  Every expanded entity is a reader on a stack; reading*)
(* past the end of one either throws EndOfEntityException or goes on       *)
(* silently in the reader below, and the scanner must notice when a tag, a *)
(* reference or an element begins in one entity and ends in another.       *)
(* Documents are scanned at once (scanDocument) or step by step (scanFirst *)
(* and scanNext), and a fatal error ends the parse (the default).          *)
(***************************************************************************)
EXTENDS Markup, ElemStack

CONSTANTS Documents,      \* parse number -> the texts its document may have
          Replacements,   \* entity -> the replacement texts it may have
          MaxParses,      \* bound: parses made with the scanner
          AbandonFreely   \* is a progressive parse given up without scanReset(token)?

VARIABLES text,       \* the document ("main") and the entities read so far
          readers,    \* fReaderStack and fCurReader with their entities
          nextNum,    \* fNextReaderNum
          elems,      \* fElemStack
          phase,      \* where the scanner is
          stepwise,   \* is it a progressive parse?
          parses,     \* parses begun
          events,     \* what the document handler was told
          outcome     \* what became of the parse

vars == <<text, readers, nextNum, elems, phase, stepwise, parses, events, outcome>>

Main == "main"      \* the document itself; readers of it have no entity
Unread == <<"unread">>
EOF == "EOF"

ASSUME ScanAssumption ==
  /\ Main \notin Entities
  /\ MaxParses \in Nat
  /\ AbandonFreely \in BOOLEAN

-----------------------------------------------------------------------------
(* ReaderMgr; fThrowEOE is off unless the operator is EndOfEntity *)

Top(rs) == Last(rs)

Exhausted(rs) == Top(rs).left = <<>>

\* popReader as often as the current reader is exhausted
Settled(rs) ==
  LET live == {i \in DOMAIN rs : rs[i].left # <<>>}
  IN  SubSeq(rs, 1, IF live = {} THEN 1 ELSE Max(live))

\* getNextCharIfNot looks at the current reader only
NextInReader(rs) == IF Exhausted(rs) THEN EOF ELSE Head(Top(rs).left)

PeekNextChar(rs) == NextInReader(Settled(rs))

\* n glyphs of the current reader taken
Taken(rs, n) == [rs EXCEPT ![Len(rs)].left = SubSeq(@, n + 1, Len(@))]

NextTaken(rs) == IF Exhausted(rs) THEN rs ELSE Taken(rs, 1)

GetNextChar(rs) == NextTaken(Settled(rs))

RECURSIVE SkipPastSpaces(_)
SkipPastSpaces(rs) ==
  IF PeekNextChar(rs) = " " THEN SkipPastSpaces(GetNextChar(rs)) ELSE Settled(rs)

\* how many glyphs at the head of the current reader are in a set
Run(rs, set) ==
  LET s == Top(rs).left
  IN  CHOOSE n \in 0..Len(s) : (\A i \in 1..n : s[i] \in set) /\ (n < Len(s) => s[n + 1] \notin set)

GetName(rs) == SubSeq(Top(rs).left, 1, Run(rs, Names))

\* peekNextChar with fThrowEOE on: does it throw at the end of an entity?
EndOfEntity(rs) == Exhausted(rs) /\ Len(rs) > 1 /\ Top(rs).entity # Main

\* mutant: recursion is looked for in the current entity only
RefusesCurrent(rs, e) == Top(rs).entity = e

\* pushReader: the entities below the current one are on fEntityStack
Refuses(rs, e) == \E i \in 1..(Len(rs) - 1) : rs[i].entity = e

NewReader(rs, e, t) == Append(rs, [entity |-> e, num |-> nextNum, left |-> t])

-----------------------------------------------------------------------------
(* the markup handlers: what is left of the readers and the element stack, *)
(* the events sent, and whether a fatal error was found                    *)

Result(rs, es, evs, ok) == [readers |-> rs, elems |-> es, events |-> evs, ok |-> ok]

Wrong(rs, es, evs) == Result(rs, es, evs, FALSE)

EndOfTag(rs, ds, isEmpty) ==
  [readers |-> GetNextChar(rs), decls |-> ds, isEmpty |-> isEmpty, ok |-> PeekNextChar(rs) = ">"]

RECURSIVE AttrsAt(_, _)
AttrsAt(rs, ds) ==   \* behind white space
  IF NextInReader(rs) \in Decls
  THEN AttrsAt(SkipPastSpaces(Taken(rs, 1)), Append(ds, NextInReader(rs)))
  ELSE IF NextInReader(rs) = "/" THEN EndOfTag(Taken(rs, 1), ds, TRUE)
  ELSE EndOfTag(rs, ds, FALSE)

RawAttrScan(rs) == AttrsAt(SkipPastSpaces(rs), <<>>)

AddPrefixes(es, ds) == FoldLeft(LAMBDA s, d : AddPrefix(s, Prefix[d], Namespace[d]), es, ds)

StartTag(name, attrs, es, isRoot) ==
  LET scope == AddPrefixes(AddLevel(es), attrs.decls)
      uri == MapPrefixToURI(scope, Prefix[name[1]])
      element == <<name, uri>>
      set == SetElement(scope, name, Top(attrs.readers).num, uri)
      open == IF isRoot THEN set ELSE AddChildToParent(set, element)
      start == <<"startElement", element>>
  IN  IF uri = UnknownURI \/ ~IsInjective([i \in DOMAIN attrs.decls |-> Prefix[attrs.decls[i]]])
      THEN Wrong(attrs.readers, es, <<>>)
      ELSE IF attrs.isEmpty
      THEN Result(attrs.readers, PopTop(open), <<start, <<"endElement", element, <<>>>>>>, TRUE)
      ELSE Result(attrs.readers, open, <<start>>, TRUE)

NamedStartTag(name, attrs, es) ==
  IF name = <<>> \/ ~attrs.ok THEN Wrong(attrs.readers, es, <<>>)
  ELSE StartTag(name, attrs, es, IsEmpty(es))

ScanStartTag(rs, es) ==
  NamedStartTag(GetName(rs), RawAttrScan(Taken(rs, Len(GetName(rs)))), es)

\* mutant: an element may end in another entity than it began in
BackOnReaderUnchecked(row, rs) == TRUE

\* "make sure we are back on the same reader as where we started"
BackOnReader(row, rs) == row.fReaderNum = Top(rs).num

\* behind the name of the open element
EndTag(rs, row, es) ==
  IF ~BackOnReader(row, rs) \/ PeekNextChar(SkipPastSpaces(rs)) # ">"
  THEN Wrong(rs, es, <<>>)
  ELSE Result(GetNextChar(SkipPastSpaces(rs)), PopTop(es),
              <<<<"endElement", <<row.fThisElement, row.fCurrentURI>>, Children(row)>>>>, TRUE)

ScanEndTag(rs, es) ==
  IF IsEmpty(es) THEN Wrong(rs, es, <<>>)
  ELSE IF ~IsPrefix(TopElement(es).fThisElement, Top(rs).left) THEN Wrong(rs, PopTop(es), <<>>)
  ELSE EndTag(Taken(rs, Len(TopElement(es).fThisElement)), TopElement(es), es)

\* mutant: the reader is asked for after the look at the next character
OrgReaderLate(rs) == Top(Settled(GetNextChar(rs))).num

\* senseNextToken: the reader that the < was read from
OrgReader(rs) == Top(GetNextChar(rs)).num

\* senseNextToken: a tag is sensed behind the <
ScanTag(rs, es) ==
  IF PeekNextChar(rs) = "/" THEN ScanEndTag(GetNextChar(rs), es) ELSE ScanStartTag(rs, es)

\* scanContent: "gCurPartialMarkupInEntity" if the reader is not the original one
InOneReader(result, num) == [result EXCEPT !.ok = @ /\ Top(result.readers).num = num]

ScanMarkup(rs, es) == InOneReader(ScanTag(Settled(GetNextChar(rs)), es), OrgReader(rs))

\* the ; behind the name of the entity, in the reader that the & was read from
RefEnds(rs, name, num) ==
  [readers |-> GetNextChar(rs), name |-> name,
   ok |-> /\ name # <<>> /\ PeekNextChar(rs) = ";"
          /\ Top(GetNextChar(rs)).num = num
          /\ Len(name) = 1 /\ name[1] \in Entities]

NameOfRef(rs, num) == RefEnds(Taken(rs, Len(GetName(rs))), GetName(rs), num)

\* scanEntityRef up to the lookup of the entity, behind the &; skippedChar(chPound)
EntityRef(rs) == NameOfRef(Settled(rs), Top(rs).num)

-----------------------------------------------------------------------------
(* the scanner *)

Init ==
  /\ text = [t \in {Main} \cup Entities |-> Unread]
  /\ readers = <<>> /\ nextNum = 1
  /\ elems = NewElemStack
  /\ phase = "idle" /\ stepwise = FALSE
  /\ parses = 0
  /\ events = <<>> /\ outcome = "none"

\* where a handler that went well returns to: the loop of scanContent, or the application
Ready == IF stepwise THEN "between" ELSE "content"

\* the first fatal error: the janitor resets the reader manager
Fail(evs) ==
  /\ phase' = "idle" /\ readers' = <<>> /\ outcome' = "fatal"
  /\ events' = events \o evs

\* scanReset, startDocument and scanProlog
BeginDocument ==
  /\ parses < MaxParses
  /\ phase = "idle" \/ (AbandonFreely /\ phase = "between")
  /\ parses' = parses + 1
  /\ \E t \in Documents[parses + 1] :
       LET num == IF readers = <<>> THEN 1 ELSE nextNum
           rs == SkipPastSpaces(Append(readers, [entity |-> Main, num |-> num, left |-> t]))
           begun == PeekNextChar(rs) = "<"
       IN  /\ text' = [[e \in {Main} \cup Entities |-> Unread] EXCEPT ![Main] = t]
           /\ readers' = IF begun THEN rs ELSE <<>>
           /\ phase' = IF begun THEN IF stepwise' THEN "between" ELSE "content" ELSE "idle"
           /\ outcome' = IF begun THEN "running" ELSE "fatal"
           /\ nextNum' = num + 1
  /\ elems' = ResetElemStack(elems)
  /\ events' = <<>>

ScanDocument == stepwise' = FALSE /\ BeginDocument
ScanFirst == stepwise' = TRUE /\ BeginDocument

ScanNext ==
  /\ phase = "between"
  /\ phase' = "content"
  /\ UNCHANGED <<text, readers, nextNum, elems, stepwise, parses, events, outcome>>

\* parseReset(token): the reader manager is reset, the element stack is not
ScanResetToken ==
  /\ phase = "between"
  /\ phase' = "idle" /\ readers' = <<>>
  /\ UNCHANGED <<text, nextNum, elems, stepwise, parses, events, outcome>>

\* a handler of the application throws: the parse is over and readers are reset
HandlerThrows ==
  /\ phase \in {"content", "chars", "misc"}
  /\ phase' = "idle" /\ readers' = <<>> /\ outcome' = "thrown"
  /\ UNCHANGED <<text, nextNum, elems, stepwise, parses, events>>

\* senseNextToken throws: the reader is popped and the end of the entity told
EntityEnds ==
  /\ phase = "content" /\ EndOfEntity(readers)
  /\ events' = Append(events, <<"endEntityReference", Top(readers).entity>>)
  /\ readers' = Front(readers)
  /\ UNCHANGED <<text, nextNum, elems, phase, stepwise, parses, outcome>>

MarkupHandled(result) ==
  /\ elems' = result.elems
  /\ IF result.ok
     THEN /\ readers' = result.readers
          /\ events' = events \o result.events
          /\ phase' = IF IsEmpty(result.elems) THEN "misc" ELSE Ready
          /\ UNCHANGED outcome
     ELSE Fail(result.events)

Markup ==
  /\ phase = "content" /\ ~EndOfEntity(readers) /\ PeekNextChar(readers) = "<"
  /\ MarkupHandled(ScanMarkup(readers, elems))
  /\ UNCHANGED <<text, nextNum, stepwise, parses>>

\* Token_EOF: an error if elements are open, else scanNext says there is no more
EndOfFile ==
  /\ phase = "content" /\ ~EndOfEntity(readers) /\ PeekNextChar(readers) = EOF
  /\ IF IsEmpty(elems)
     THEN phase' = "idle" /\ readers' = <<>> /\ UNCHANGED <<elems, events, outcome>>
     ELSE elems' = PopTop(elems) /\ Fail(<<>>)
  /\ UNCHANGED <<text, nextNum, stepwise, parses>>

CharDataBegins ==
  /\ phase = "content" /\ ~EndOfEntity(readers)
  /\ PeekNextChar(readers) \notin {"<", EOF}
  /\ phase' = "chars" /\ readers' = Settled(readers)
  /\ UNCHANGED <<text, nextNum, elems, stepwise, parses, events, outcome>>

\* scanCharData up to the next < or & or the end of the entity
PlainChars ==
  LET n == CHOOSE k \in 0..Len(Top(readers).left) :
             LET s == Top(readers).left
             IN  (\A i \in 1..k : s[i] \notin {"<", "&"}) /\
                 (k < Len(s) => s[k + 1] \in {"<", "&"})
  IN  SubSeq(Top(readers).left, 1, n)

CharEvents == [i \in DOMAIN PlainChars |-> <<"characters", PlainChars[i]>>]

AfterChars == Taken(readers, Len(PlainChars))

CharDataEnds ==
  /\ phase = "chars" /\ NextInReader(AfterChars) \in {"<", EOF}
  /\ phase' = Ready
  /\ readers' = AfterChars
  /\ events' = events \o CharEvents
  /\ UNCHANGED <<text, nextNum, elems, stepwise, parses, outcome>>

\* the rest of scanEntityRef: the entity is looked up and its reader pushed
RefHandled(ref, e) ==
  IF ~ref.ok
  THEN Fail(CharEvents) /\ UNCHANGED <<text, nextNum>>
  ELSE \E t \in IF text[e] = Unread THEN Replacements[e] ELSE {text[e]} :
         /\ text' = [text EXCEPT ![e] = t]
         /\ nextNum' = nextNum + 1
         /\ IF Refuses(ref.readers, e) THEN Fail(CharEvents)
            ELSE /\ readers' = NewReader(ref.readers, e, t)
                 /\ events' = events \o CharEvents \o <<<<"startEntityReference", e>>>>
                 /\ UNCHANGED <<phase, outcome>>

\* a reference in character data: scanEntityRef, then more character data
CharDataReference ==
  /\ phase = "chars" /\ NextInReader(AfterChars) = "&"
  /\ \E ref \in {EntityRef(Taken(AfterChars, 1))} : RefHandled(ref, ref.name[1])
  /\ UNCHANGED <<elems, stepwise, parses>>

\* scanMiscellaneous and endDocument: only white space may follow the root
Miscellaneous ==
  /\ phase = "misc"
  /\ IF PeekNextChar(SkipPastSpaces(readers)) = EOF
     THEN /\ outcome' = "endDocument"
          /\ phase' = IF stepwise THEN "between" ELSE "idle"
          /\ readers' = IF stepwise THEN SkipPastSpaces(readers) ELSE <<>>
          /\ UNCHANGED events
     ELSE Fail(<<>>)
  /\ UNCHANGED <<text, nextNum, elems, stepwise, parses>>

Scan ==
  EntityEnds \/ Markup \/ EndOfFile \/ CharDataBegins \/ CharDataEnds \/ CharDataReference
  \/ Miscellaneous

Call == ScanDocument \/ ScanFirst \/ ScanNext \/ ScanResetToken

Next == Call \/ Scan \/ HandlerThrows

ScanSpec == Init /\ [][Next]_vars

-----------------------------------------------------------------------------
(* properties *)

\* what the document says if entities that were not reached are empty
Texts == [t \in DOMAIN text |-> IF text[t] = Unread THEN <<>> ELSE text[t]]

\* A parse that comes to endDocument was of a well-formed document, and one
\* that reports a fatal error was not: a tag, reference or element that begins
\* in one entity and ends in another is always noticed, recursion too, and
\* nothing is left over from parses before (scanContent, scanNext, popReader).
VerdictIsWellFormedness ==
  /\ outcome = "endDocument" => WellFormed(Texts[Main], Texts)
  /\ outcome = "fatal" => ~WellFormed(Texts[Main], Texts)

\* The application is told exactly the document: all elements with their
\* namespace and their children in order, all text, and where entities begin
\* and end, whether it is scanned at once or step by step (ElemStack).
EventsAreTheDocument ==
  outcome = "endDocument" => events = Events(Texts[Main], Texts)

\* the references the application has been told of and not seen the end of
OpenReferences(evs) ==
  FoldLeft(LAMBDA open, e : IF e[1] = "startEntityReference" THEN Append(open, e[2])
                            ELSE IF e[1] = "endEntityReference" /\ open # <<>> THEN Front(open)
                            ELSE open, <<>>, evs)

\* No entity is left behind unnoticed: between two tokens the readers are the
\* document's and those of the references the application knows to be open
\* (popReader without fThrowEOE goes on silently).
ReadersAreOpenReferences ==
  phase # "idle" =>
    OpenReferences(events) = [i \in 1..(Len(readers) - 1) |-> readers[i + 1].entity]

\* SAXParser.hpp on a progressive parse that is given up: the next parse closes
\* what it left open.  Only the first reader is a document.
NextParseClosesOpenFiles == \A i \in DOMAIN readers : readers[i].entity = Main => i = 1

\* The expansion ends: an entity is open at most twice, the second time because
\* the current entity is not on fEntityStack yet (pushReader).
RecursionIsStopped ==
  \A e \in Entities : Cardinality({i \in DOMAIN readers : readers[i].entity = e}) <= 2
=============================================================================
