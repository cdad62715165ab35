-------------------------------- MODULE ElemStack --------------------------------
(***************************************************************************)
(* The element stack of the scanners: the open elements with the reader    *)
(* their tag was read from, their children so far and their namespace      *)
(* declarations.  Rows are never taken off the array: popTop lowers        *)
(* fStackTop and addLevel uses the row again, arrays and all.              *)
(***************************************************************************)
EXTENDS Integers, Sequences

NoElement == <<>>

UnknownURI == "unknown"
EmptyURI == ""

\* an element stack that has never been used
NewElemStack == [fStackTop |-> 0, fStack |-> <<>>]

IsEmpty(s) == s.fStackTop = 0

TopElement(s) == s.fStack[s.fStackTop]

\* array[n] = v, where n may be one beyond the array
Stored(array, n, v) ==
  IF n < Len(array) THEN [array EXCEPT ![n + 1] = v] ELSE Append(array, v)

\* mutant: the prefix map of the row's last element is not emptied
AddLevelKeepingMap(s) ==
  LET used == s.fStackTop < Len(s.fStack)
      old == s.fStack[s.fStackTop + 1]
      row == [fThisElement |-> NoElement, fReaderNum |-> 0, fCurrentURI |-> UnknownURI,
              fChildren |-> IF used THEN old.fChildren ELSE <<>>, fChildCount |-> 0,
              fMap |-> IF used THEN old.fMap ELSE <<>>,
              fMapCount |-> IF used THEN old.fMapCount ELSE 0]
  IN  [fStackTop |-> s.fStackTop + 1, fStack |-> Stored(s.fStack, s.fStackTop, row)]

AddLevel(s) ==
  LET used == s.fStackTop < Len(s.fStack)
      old == s.fStack[s.fStackTop + 1]
      row == [fThisElement |-> NoElement, fReaderNum |-> 0, fCurrentURI |-> UnknownURI,
              fChildren |-> IF used THEN old.fChildren ELSE <<>>, fChildCount |-> 0,
              fMap |-> IF used THEN old.fMap ELSE <<>>, fMapCount |-> 0]
  IN  [fStackTop |-> s.fStackTop + 1, fStack |-> Stored(s.fStack, s.fStackTop, row)]

SetElement(s, e, readerNum, uri) ==
  [s EXCEPT !.fStack[s.fStackTop].fThisElement = e,
            !.fStack[s.fStackTop].fReaderNum = readerNum,
            !.fStack[s.fStackTop].fCurrentURI = uri]

PopTop(s) == [s EXCEPT !.fStackTop = @ - 1]

\* addChild(child, toParent = true): a child of the row below the top
AddChildToParent(s, child) ==
  LET i == s.fStackTop - 1
  IN  [s EXCEPT !.fStack[i].fChildren = Stored(@, s.fStack[i].fChildCount, child),
                !.fStack[i].fChildCount = @ + 1]

AddPrefix(s, prefix, uri) ==
  LET i == s.fStackTop
  IN  [s EXCEPT !.fStack[i].fMap = Stored(@, s.fStack[i].fMapCount, [prefId |-> prefix, uriId |-> uri]),
                !.fStack[i].fMapCount = @ + 1]

Children(row) == SubSeq(row.fChildren, 1, row.fChildCount)

\* the entries for a prefix on the open elements: <<level, index in its map>>
Mappings(s, prefix) ==
  UNION {{<<i, n>> : n \in {m \in 1..s.fStack[i].fMapCount : s.fStack[i].fMap[m].prefId = prefix}} :
           i \in 1..s.fStackTop}

\* the innermost element that maps the prefix, and the first entry there
MapPrefixToURI(s, prefix) ==
  LET found == Mappings(s, prefix)
      best == CHOOSE p \in found :
                \A q \in found : q[1] < p[1] \/ (q[1] = p[1] /\ p[2] <= q[2])
  IN  IF found # {} THEN s.fStack[best[1]].fMap[best[2]].uriId
      ELSE IF prefix = "" THEN EmptyURI ELSE UnknownURI

\* reset() of a new document lets the rows stay
ResetElemStack(s) == [s EXCEPT !.fStackTop = 0]
=============================================================================
