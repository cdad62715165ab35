------------------------- MODULE DOMParentNodeProofs -------------------------
(***************************************************************************)
(* The sibling pointers of DOMParentNode are sound in every document, of   *)
(* any size, after any sequence of calls, provided that no first child is  *)
(* cloned (DOMParentNode, CloneFirst), and they implement ChildLists.      *)
(***************************************************************************)
EXTENDS DOMParentNode, SequenceTheorems, WellFoundedInduction, TLAPS

-----------------------------------------------------------------------------
(* The inductive invariant: what the pointers of one node and of its        *)
(* neighbours have to do with each other                                    *)

HeadSound(q, x) ==
  q.fFirstChild[x] # Nil =>
    /\ q.fFirstChild[x] \in q.isOwned
    /\ q.fOwnerNode[q.fFirstChild[x]] = x
    /\ q.fFirstChild[x] \in q.isFirstChild

FlagSound(q, x) ==
  x \in q.isOwned /\ x \in q.isFirstChild => q.fFirstChild[q.fOwnerNode[x]] = x

PreviousSound(q, x) ==
  x \in q.isOwned =>
    /\ q.previousSibling[x] # Nil
    /\ q.previousSibling[x] \in q.isOwned
    /\ q.fOwnerNode[q.previousSibling[x]] = q.fOwnerNode[x]
    /\ q.nextSibling[q.previousSibling[x]] = IF x \in q.isFirstChild THEN Nil ELSE x

NextSound(q, x) ==
  x \in q.isOwned =>
    IF q.nextSibling[x] = Nil
    THEN /\ q.fFirstChild[q.fOwnerNode[x]] # Nil
         /\ q.previousSibling[q.fFirstChild[q.fOwnerNode[x]]] = x
    ELSE /\ q.nextSibling[x] \in q.isOwned
         /\ q.fOwnerNode[q.nextSibling[x]] = q.fOwnerNode[x]
         /\ q.nextSibling[x] \notin q.isFirstChild
         /\ q.previousSibling[q.nextSibling[x]] = x

OrphanSound(q, x) ==
  x \notin q.isOwned =>
    q.nextSibling[x] = Nil /\ q.previousSibling[x] = Nil /\ x \notin q.isFirstChild

NodeSound(q, x) ==
  /\ HeadSound(q, x) /\ FlagSound(q, x) /\ PreviousSound(q, x)
  /\ NextSound(q, x) /\ OrphanSound(q, x)

PtrSound(q) == q \in Ptrs /\ \A x \in Node : NodeSound(q, x)

PtrInv == PtrSound(ptr) /\ fresh \subseteq Fresh /\ \A x \in fresh : x \notin ptr.isOwned
-----------------------------------------------------------------------------
\* The invariant is all the three properties need.
LEMMA SoundIsEnough ==
  ASSUME PtrInv
  PROVE  PointerTypeOK /\ SiblingsMirror /\ EndsKnown /\ SiblingsShareParent
<1> USE NilAssumption DEF NodeOrNil
<1>1. ptr \in Ptrs /\ \A x \in Node : NodeSound(ptr, x)
  BY DEF PtrInv, PtrSound
<1>2. PointerTypeOK
  BY <1>1 DEF PtrInv, PointerTypeOK
<1>3. SiblingsMirror
  <2> SUFFICES ASSUME NEW x \in Node, NEW y \in Node
               PROVE  ptr.nextSibling[x] = y <=> getPreviousSibling(ptr, y) = x
    BY DEF SiblingsMirror
  <2>1. NodeSound(ptr, x) /\ NodeSound(ptr, y)
    BY <1>1
  <2> QED
    BY <1>1, <2>1 DEF NodeSound, PreviousSound, NextSound, OrphanSound,
                      getPreviousSibling, Ptrs
<1>4. EndsKnown
  <2> SUFFICES ASSUME NEW x \in Node
               PROVE  LET p == getParentNode(ptr, x)
                      IN  /\ p # Nil => /\ ptr.nextSibling[x] = Nil <=> getLastChild(ptr, p) = x
                                        /\ getPreviousSibling(ptr, x) = Nil <=> ptr.fFirstChild[p] = x
                          /\ p = Nil => ptr.nextSibling[x] = Nil /\ ptr.previousSibling[x] = Nil
    BY DEF EndsKnown
  <2>1. NodeSound(ptr, x)
    BY <1>1
  <2>2. CASE x \notin ptr.isOwned
    BY <1>1, <2>1, <2>2 DEF NodeSound, OrphanSound, getParentNode, Ptrs
  <2>3. CASE x \in ptr.isOwned
    <3> DEFINE p == ptr.fOwnerNode[x]
               first == ptr.fFirstChild[p]
    <3>1. p \in Node /\ first \in NodeOrNil /\ getParentNode(ptr, x) = p
      BY <1>1, <2>1, <2>3 DEF getParentNode, Ptrs
    <3>2. first # Nil => /\ first \in ptr.isOwned /\ first \in ptr.isFirstChild
                         /\ ptr.nextSibling[ptr.previousSibling[first]] = Nil
      BY <1>1, <3>1 DEF NodeSound, HeadSound, PreviousSound
    <3>3. getLastChild(ptr, p) = IF first = Nil THEN Nil ELSE ptr.previousSibling[first]
      BY <3>1 DEF getLastChild
    <3>4. ptr.nextSibling[x] = Nil => first # Nil /\ ptr.previousSibling[first] = x
      BY <2>1, <2>3 DEF NodeSound, NextSound
    <3>5. ptr.nextSibling[x] = Nil <=> getLastChild(ptr, p) = x
      BY <3>2, <3>3, <3>4
    <3>6. getPreviousSibling(ptr, x) = Nil <=> ptr.fFirstChild[p] = x
      BY <1>1, <2>1, <2>3, <3>1, <3>2
         DEF NodeSound, FlagSound, PreviousSound, getPreviousSibling, Ptrs
    <3> QED
      BY <3>1, <3>5, <3>6
  <2> QED
    BY <2>2, <2>3
<1>5. SiblingsShareParent
  <2> SUFFICES ASSUME NEW x \in Node
               PROVE  /\ ptr.nextSibling[x] # Nil =>
                           getParentNode(ptr, ptr.nextSibling[x]) = getParentNode(ptr, x)
                      /\ ptr.fFirstChild[x] # Nil => getParentNode(ptr, ptr.fFirstChild[x]) = x
    BY DEF SiblingsShareParent
  <2> QED
    BY <1>1 DEF NodeSound, HeadSound, NextSound, OrphanSound, getParentNode, Ptrs
<1> QED
  BY <1>2, <1>3, <1>4, <1>5
-----------------------------------------------------------------------------
\* What each elementary patch makes of the six components.
LEMMA DroppedIs ==
  ASSUME NEW q \in Ptrs, NEW n \in Node
  PROVE  LET v == Dropped(q, n)
         IN  /\ v \in Ptrs
             /\ v.fFirstChild = q.fFirstChild
             /\ v.nextSibling = [q.nextSibling EXCEPT ![n] = Nil]
             /\ v.previousSibling = [q.previousSibling EXCEPT ![n] = Nil]
             /\ v.fOwnerNode = [q.fOwnerNode EXCEPT ![n] = Document]
             /\ v.isOwned = q.isOwned \ {n}
             /\ v.isFirstChild = q.isFirstChild
BY NilAssumption, ParentNodeAssumption DEF Dropped, Ptrs, NodeOrNil

LEMMA PatchOnlyIs ==
  ASSUME NEW q \in Ptrs, NEW p \in Node, NEW n \in Node, q.nextSibling[n] = Nil
  PROVE  LET v == PatchFirst(q, p, n)
         IN  /\ v \in Ptrs
             /\ v.fFirstChild = [q.fFirstChild EXCEPT ![p] = Nil]
             /\ v.nextSibling = q.nextSibling
             /\ v.previousSibling = q.previousSibling
             /\ v.fOwnerNode = q.fOwnerNode
             /\ v.isOwned = q.isOwned
             /\ v.isFirstChild = q.isFirstChild \ {n}
BY NilAssumption, ParentNodeAssumption DEF PatchFirst, Ptrs, NodeOrNil

LEMMA PatchFirstIs ==
  ASSUME NEW q \in Ptrs, NEW p \in Node, NEW n \in Node,
         NEW second \in Node, second = q.nextSibling[n]
  PROVE  LET v == PatchFirst(q, p, n)
         IN  /\ v \in Ptrs
             /\ v.fFirstChild = [q.fFirstChild EXCEPT ![p] = second]
             /\ v.nextSibling = q.nextSibling
             /\ v.previousSibling = [q.previousSibling EXCEPT ![second] = q.previousSibling[n]]
             /\ v.fOwnerNode = q.fOwnerNode
             /\ v.isOwned = q.isOwned
             /\ v.isFirstChild = (q.isFirstChild \ {n}) \cup {second}
BY NilAssumption, ParentNodeAssumption DEF PatchFirst, Ptrs, NodeOrNil

LEMMA PatchLaterIs ==
  ASSUME NEW q \in Ptrs, NEW p \in Node, NEW n \in Node,
         NEW prev \in Node, prev = q.previousSibling[n],
         NEW next, next = q.nextSibling[n],
         NEW succ \in Node, succ = IF next = Nil THEN q.fFirstChild[p] ELSE next
  PROVE  LET v == PatchLater(q, p, n)
         IN  /\ v \in Ptrs
             /\ v.fFirstChild = q.fFirstChild
             /\ v.nextSibling = [q.nextSibling EXCEPT ![prev] = next]
             /\ v.previousSibling = [q.previousSibling EXCEPT ![succ] = prev]
             /\ v.fOwnerNode = q.fOwnerNode
             /\ v.isOwned = q.isOwned
             /\ v.isFirstChild = q.isFirstChild
BY NilAssumption, ParentNodeAssumption DEF PatchLater, Ptrs, NodeOrNil

LEMMA AttachedIs ==
  ASSUME NEW q \in Ptrs, NEW p \in Node, NEW n \in Node
  PROVE  LET v == Attached(q, p, n)
         IN  /\ v \in Ptrs
             /\ v.fFirstChild = q.fFirstChild
             /\ v.nextSibling = q.nextSibling
             /\ v.previousSibling = q.previousSibling
             /\ v.fOwnerNode = [q.fOwnerNode EXCEPT ![n] = p]
             /\ v.isOwned = q.isOwned \cup {n}
             /\ v.isFirstChild = q.isFirstChild
BY NilAssumption, ParentNodeAssumption DEF Attached, Ptrs, NodeOrNil

LEMMA LinkOnlyIs ==
  ASSUME NEW q \in Ptrs, NEW p \in Node, NEW n \in Node
  PROVE  LET v == LinkOnly(q, p, n)
         IN  /\ v \in Ptrs
             /\ v.fFirstChild = [q.fFirstChild EXCEPT ![p] = n]
             /\ v.nextSibling = q.nextSibling
             /\ v.previousSibling = [q.previousSibling EXCEPT ![n] = n]
             /\ v.fOwnerNode = q.fOwnerNode
             /\ v.isOwned = q.isOwned
             /\ v.isFirstChild = q.isFirstChild \cup {n}
BY NilAssumption, ParentNodeAssumption DEF LinkOnly, Ptrs, NodeOrNil

LEMMA LinkLastIs ==
  ASSUME NEW q \in Ptrs, NEW p \in Node, NEW n \in Node,
         NEW first \in Node, first = q.fFirstChild[p],
         NEW last \in Node, last = q.previousSibling[first]
  PROVE  LET v == LinkLast(q, p, n)
         IN  /\ v \in Ptrs
             /\ v.fFirstChild = q.fFirstChild
             /\ v.nextSibling = [q.nextSibling EXCEPT ![last] = n]
             /\ v.previousSibling = [q.previousSibling EXCEPT ![n] = last, ![first] = n]
             /\ v.fOwnerNode = q.fOwnerNode
             /\ v.isOwned = q.isOwned
             /\ v.isFirstChild = q.isFirstChild
BY NilAssumption, ParentNodeAssumption DEF LinkLast, Ptrs, NodeOrNil

LEMMA LinkFirstIs ==
  ASSUME NEW q \in Ptrs, NEW p \in Node, NEW n \in Node,
         NEW first \in Node, first = q.fFirstChild[p]
  PROVE  LET v == LinkFirst(q, p, n)
         IN  /\ v \in Ptrs
             /\ v.fFirstChild = [q.fFirstChild EXCEPT ![p] = n]
             /\ v.nextSibling = [q.nextSibling EXCEPT ![n] = first]
             /\ v.previousSibling = [q.previousSibling EXCEPT ![n] = q.previousSibling[first], ![first] = n]
             /\ v.fOwnerNode = q.fOwnerNode
             /\ v.isOwned = q.isOwned
             /\ v.isFirstChild = (q.isFirstChild \ {first}) \cup {n}
BY NilAssumption, ParentNodeAssumption DEF LinkFirst, Ptrs, NodeOrNil

LEMMA LinkMiddleIs ==
  ASSUME NEW q \in Ptrs, NEW r \in Node, NEW n \in Node,
         NEW prev \in Node, prev = q.previousSibling[r]
  PROVE  LET v == LinkMiddle(q, n, r)
         IN  /\ v \in Ptrs
             /\ v.fFirstChild = q.fFirstChild
             /\ v.nextSibling = [q.nextSibling EXCEPT ![n] = r, ![prev] = n]
             /\ v.previousSibling = [q.previousSibling EXCEPT ![r] = n, ![n] = prev]
             /\ v.fOwnerNode = q.fOwnerNode
             /\ v.isOwned = q.isOwned
             /\ v.isFirstChild = q.isFirstChild
BY NilAssumption, ParentNodeAssumption DEF LinkMiddle, Ptrs, NodeOrNil
\* Taking a child out keeps the pointers of every node sound.
LEMMA OutKeeps ==
  ASSUME NEW q, PtrSound(q), NEW n \in q.isOwned
  PROVE  LET u == PatchedOut(q, q.fOwnerNode[n], n)
         IN  /\ PtrSound(u)
             /\ u.isOwned = q.isOwned \ {n}
             /\ u.fOwnerNode = [q.fOwnerNode EXCEPT ![n] = Document]
<1> USE NilAssumption, ParentNodeAssumption DEF NodeOrNil
<1>1. q \in Ptrs
  BY DEF PtrSound
<1>2. \A x \in Node : NodeSound(q, x)
  BY DEF PtrSound
<1>3. PICK p, next, prev, first, u :
        /\ p = q.fOwnerNode[n] /\ next = q.nextSibling[n] /\ prev = q.previousSibling[n]
        /\ first = q.fFirstChild[p] /\ u = PatchedOut(q, p, n)
  OBVIOUS
<1>4. n \in Node /\ p \in Node /\ prev \in Node /\ first \in NodeOrNil /\ next \in NodeOrNil
  BY <1>1, <1>2, <1>3 DEF NodeSound, PreviousSound, Ptrs
<1>5. /\ p = q.fOwnerNode[n] /\ first = q.fFirstChild[p]
      /\ next = q.nextSibling[n] /\ prev = q.previousSibling[n]
      /\ prev \in q.isOwned /\ q.fOwnerNode[prev] = p
      /\ q.nextSibling[prev] = IF n \in q.isFirstChild THEN Nil ELSE n
      /\ n \in q.isFirstChild <=> n = first
      /\ next = Nil => first # Nil /\ q.previousSibling[first] = n
      /\ next # Nil => /\ next \in q.isOwned /\ q.fOwnerNode[next] = p
                       /\ next \notin q.isFirstChild /\ q.previousSibling[next] = n
  BY <1>1, <1>2, <1>3, <1>4
     DEF NodeSound, HeadSound, FlagSound, PreviousSound, NextSound, Ptrs
<1>6. SUFFICES /\ u \in Ptrs /\ \A x \in Node : NodeSound(u, x)
               /\ u.isOwned = q.isOwned \ {n}
               /\ u.fOwnerNode = [q.fOwnerNode EXCEPT ![n] = Document]
  BY <1>3 DEF PtrSound
\* whose previousSibling n is, and whose nextSibling
<1>7. ASSUME NEW x \in q.isOwned, q.previousSibling[x] = n
      PROVE  \/ x \in q.isFirstChild /\ x = first /\ next = Nil
             \/ x \notin q.isFirstChild /\ x = next
  BY <1>1, <1>2, <1>3, <1>4, <1>7 DEF NodeSound, PreviousSound, FlagSound, Ptrs
<1>8. ASSUME NEW x \in q.isOwned, q.nextSibling[x] = n
      PROVE  x = prev /\ n \notin q.isFirstChild
  BY <1>1, <1>2, <1>3, <1>4, <1>8 DEF NodeSound, NextSound, Ptrs
<1>9. CASE n = first /\ next = Nil
  <2>1. PICK v : v = PatchFirst(q, p, n) /\ u = Dropped(v, n)
    BY <1>3, <1>9 DEF PatchedOut
  <2>2. /\ v \in Ptrs
        /\ v.fFirstChild = [q.fFirstChild EXCEPT ![p] = Nil]
        /\ v.nextSibling = q.nextSibling
        /\ v.previousSibling = q.previousSibling
        /\ v.fOwnerNode = q.fOwnerNode
        /\ v.isOwned = q.isOwned
        /\ v.isFirstChild = q.isFirstChild \ {n}
    <3>1. q.nextSibling[n] = Nil
      BY <1>3, <1>9
    <3> QED
      BY <1>1, <1>4, <2>1, <3>1, PatchOnlyIs
  <2>3. /\ u \in Ptrs
        /\ u.fFirstChild = v.fFirstChild
        /\ u.nextSibling = [v.nextSibling EXCEPT ![n] = Nil]
        /\ u.previousSibling = [v.previousSibling EXCEPT ![n] = Nil]
        /\ u.fOwnerNode = [v.fOwnerNode EXCEPT ![n] = Document]
        /\ u.isOwned = v.isOwned \ {n}
        /\ u.isFirstChild = v.isFirstChild
    BY <1>4, <2>1, <2>2, DroppedIs, ZenonT(60)
  <2>4. /\ u \in Ptrs
        /\ \A y \in Node : u.fFirstChild[y] = IF y = p THEN Nil ELSE q.fFirstChild[y]
        /\ \A y \in Node : u.nextSibling[y] = IF y = n THEN Nil ELSE q.nextSibling[y]
        /\ \A y \in Node : u.previousSibling[y] = IF y = n THEN Nil ELSE q.previousSibling[y]
        /\ \A y \in Node : u.fOwnerNode[y] = IF y = n THEN Document ELSE q.fOwnerNode[y]
        /\ \A y : y \in u.isOwned <=> y \in q.isOwned /\ y # n
        /\ \A y : y \in u.isFirstChild <=> y \in q.isFirstChild /\ y # n
        /\ u.isOwned = q.isOwned \ {n}
        /\ u.fOwnerNode = [q.fOwnerNode EXCEPT ![n] = Document]
    BY <1>1, <1>4, <2>2, <2>3 DEF Ptrs
  <2> SUFFICES ASSUME NEW x \in Node PROVE NodeSound(u, x)
    BY <2>4
  <2>5. /\ HeadSound(q, x) /\ FlagSound(q, x) /\ PreviousSound(q, x)
        /\ NextSound(q, x) /\ OrphanSound(q, x)
    BY <1>2 DEF NodeSound
  <2>6. /\ q.fFirstChild[x] \in NodeOrNil /\ q.fOwnerNode[x] \in Node
        /\ q.nextSibling[x] \in NodeOrNil /\ q.previousSibling[x] \in NodeOrNil
        /\ q.fFirstChild[q.fOwnerNode[x]] \in NodeOrNil
    BY <1>1 DEF Ptrs
  <2>7. x \in q.isOwned =>
          /\ q.previousSibling[x] = n => x = n
          /\ q.nextSibling[x] # n
    BY <1>7, <1>8, <1>5, <1>9
  <2>8. /\ q.fOwnerNode[n] = p /\ q.fFirstChild[p] = n
        /\ q.nextSibling[n] = Nil /\ q.previousSibling[n] = n /\ n \in q.isFirstChild
    BY <1>4, <1>5, <1>9
  <2>9. HeadSound(u, x)
    BY <1>4, <2>4, <2>5, <2>6, <2>7, <2>8 DEF HeadSound
  <2>10. FlagSound(u, x)
    BY <1>4, <2>4, <2>5, <2>6, <2>7, <2>8 DEF FlagSound
  <2>11. PreviousSound(u, x)
    BY <1>4, <2>4, <2>5, <2>6, <2>7, <2>8 DEF PreviousSound, FlagSound
  <2>12. NextSound(u, x)
    BY <1>4, <2>4, <2>5, <2>6, <2>7, <2>8 DEF NextSound, FlagSound, HeadSound
  <2>13. OrphanSound(u, x)
    BY <1>4, <2>4, <2>5, <2>6, <2>7, <2>8 DEF OrphanSound
  <2> QED
    BY <2>9, <2>10, <2>11, <2>12, <2>13 DEF NodeSound
<1>10. CASE n = first /\ next # Nil
  <2>1. PICK v : v = PatchFirst(q, p, n) /\ u = Dropped(v, n)
    BY <1>3, <1>10 DEF PatchedOut
  <2>2. /\ v \in Ptrs
        /\ v.fFirstChild = [q.fFirstChild EXCEPT ![p] = next]
        /\ v.nextSibling = q.nextSibling
        /\ v.previousSibling = [q.previousSibling EXCEPT ![next] = prev]
        /\ v.fOwnerNode = q.fOwnerNode
        /\ v.isOwned = q.isOwned
        /\ v.isFirstChild = (q.isFirstChild \ {n}) \cup {next}
    <3>1. next \in Node /\ next = q.nextSibling[n] /\ prev = q.previousSibling[n]
      BY <1>3, <1>4, <1>10
    <3> QED
      BY <1>1, <1>4, <2>1, <3>1, PatchFirstIs
  <2>3. /\ u \in Ptrs
        /\ u.fFirstChild = v.fFirstChild
        /\ u.nextSibling = [v.nextSibling EXCEPT ![n] = Nil]
        /\ u.previousSibling = [v.previousSibling EXCEPT ![n] = Nil]
        /\ u.fOwnerNode = [v.fOwnerNode EXCEPT ![n] = Document]
        /\ u.isOwned = v.isOwned \ {n}
        /\ u.isFirstChild = v.isFirstChild
    BY <1>4, <2>1, <2>2, DroppedIs, ZenonT(60)
  <2>4. next \in Node /\ next # n /\ prev # n
    BY <1>3, <1>4, <1>5, <1>10
  <2>5. /\ u \in Ptrs
        /\ \A y \in Node : u.fFirstChild[y] = IF y = p THEN next ELSE q.fFirstChild[y]
        /\ \A y \in Node : u.nextSibling[y] = IF y = n THEN Nil ELSE q.nextSibling[y]
        /\ \A y \in Node : u.previousSibling[y] = IF y = n THEN Nil ELSE IF y = next THEN prev ELSE q.previousSibling[y]
        /\ \A y \in Node : u.fOwnerNode[y] = IF y = n THEN Document ELSE q.fOwnerNode[y]
        /\ \A y : y \in u.isOwned <=> y \in q.isOwned /\ y # n
        /\ \A y : y \in u.isFirstChild <=> y = next \/ (y \in q.isFirstChild /\ y # n)
        /\ u.isOwned = q.isOwned \ {n}
        /\ u.fOwnerNode = [q.fOwnerNode EXCEPT ![n] = Document]
    BY <1>1, <1>4, <2>2, <2>3, <2>4 DEF Ptrs
  <2> SUFFICES ASSUME NEW x \in Node PROVE NodeSound(u, x)
    BY <2>5
  <2>6. /\ HeadSound(q, x) /\ FlagSound(q, x) /\ PreviousSound(q, x)
        /\ NextSound(q, x) /\ OrphanSound(q, x)
    BY <1>2 DEF NodeSound
  <2>7. /\ q.fFirstChild[x] \in NodeOrNil /\ q.fOwnerNode[x] \in Node
        /\ q.nextSibling[x] \in NodeOrNil /\ q.previousSibling[x] \in NodeOrNil
        /\ q.fFirstChild[q.fOwnerNode[x]] \in NodeOrNil
    BY <1>1 DEF Ptrs
  <2>8. x \in q.isOwned =>
          /\ q.previousSibling[x] = n => x = next
          /\ q.nextSibling[x] # n
    BY <1>7, <1>8, <1>10, <1>5
  <2>9. /\ q.fOwnerNode[n] = p /\ q.fFirstChild[p] = n
        /\ q.nextSibling[n] = next /\ q.previousSibling[n] = prev /\ n \in q.isFirstChild
        /\ prev \in q.isOwned /\ q.fOwnerNode[prev] = p /\ q.nextSibling[prev] = Nil
        /\ next \in q.isOwned /\ q.fOwnerNode[next] = p /\ next \notin q.isFirstChild
        /\ q.previousSibling[next] = n /\ next \in Node /\ next # n /\ prev # n
    BY <1>4, <1>5, <1>10, <2>4
  <2>10. HeadSound(u, x)
    BY <1>4, <2>5, <2>6, <2>7, <2>8, <2>9 DEF HeadSound
  <2>11. FlagSound(u, x)
    BY <1>4, <2>5, <2>6, <2>7, <2>8, <2>9 DEF FlagSound
  <2>12. PreviousSound(u, x)
    BY <1>4, <2>5, <2>6, <2>7, <2>8, <2>9 DEF PreviousSound, FlagSound
  <2>13. NextSound(u, x)
    BY <1>4, <2>5, <2>6, <2>7, <2>8, <2>9 DEF NextSound, FlagSound, HeadSound
  <2>14. OrphanSound(u, x)
    BY <1>4, <2>5, <2>6, <2>7, <2>8, <2>9 DEF OrphanSound
  <2> QED
    BY <2>10, <2>11, <2>12, <2>13, <2>14 DEF NodeSound
<1>11. CASE n # first /\ next = Nil
  <2>1. PICK v : v = PatchLater(q, p, n) /\ u = Dropped(v, n)
    BY <1>3, <1>11 DEF PatchedOut
  <2>2. PICK succ \in Node : succ = first
    BY <1>4, <1>5, <1>11
  <2>3. /\ v \in Ptrs
        /\ v.fFirstChild = q.fFirstChild
        /\ v.nextSibling = [q.nextSibling EXCEPT ![prev] = next]
        /\ v.previousSibling = [q.previousSibling EXCEPT ![succ] = prev]
        /\ v.fOwnerNode = q.fOwnerNode
        /\ v.isOwned = q.isOwned
        /\ v.isFirstChild = q.isFirstChild
    <3>1. /\ prev = q.previousSibling[n] /\ next = q.nextSibling[n]
          /\ succ = IF next = Nil THEN q.fFirstChild[p] ELSE next
      BY <1>3, <1>11, <2>2
    <3> QED
      BY <1>1, <1>4, <2>1, <3>1, PatchLaterIs
  <2>4. /\ u \in Ptrs
        /\ u.fFirstChild = v.fFirstChild
        /\ u.nextSibling = [v.nextSibling EXCEPT ![n] = Nil]
        /\ u.previousSibling = [v.previousSibling EXCEPT ![n] = Nil]
        /\ u.fOwnerNode = [v.fOwnerNode EXCEPT ![n] = Document]
        /\ u.isOwned = v.isOwned \ {n}
        /\ u.isFirstChild = v.isFirstChild
    BY <1>4, <2>1, <2>3, DroppedIs, ZenonT(60)
  <2>5. n \notin q.isFirstChild /\ q.nextSibling[prev] = n
    BY <1>5, <1>11
  <2>6. /\ u \in Ptrs
        /\ \A y \in Node : u.fFirstChild[y] = q.fFirstChild[y]
        /\ \A y \in Node : u.nextSibling[y] = IF y = n THEN Nil ELSE IF y = prev THEN Nil ELSE q.nextSibling[y]
        /\ \A y \in Node : u.previousSibling[y] = IF y = n THEN Nil ELSE IF y = succ THEN prev ELSE q.previousSibling[y]
        /\ \A y \in Node : u.fOwnerNode[y] = IF y = n THEN Document ELSE q.fOwnerNode[y]
        /\ \A y : y \in u.isOwned <=> y \in q.isOwned /\ y # n
        /\ \A y : y \in u.isFirstChild <=> y \in q.isFirstChild
        /\ u.isOwned = q.isOwned \ {n}
        /\ u.fOwnerNode = [q.fOwnerNode EXCEPT ![n] = Document]
    BY <1>1, <1>4, <1>11, <2>2, <2>3, <2>4 DEF Ptrs
  <2> SUFFICES ASSUME NEW x \in Node PROVE NodeSound(u, x)
    BY <2>6
  <2>7. /\ HeadSound(q, x) /\ FlagSound(q, x) /\ PreviousSound(q, x)
        /\ NextSound(q, x) /\ OrphanSound(q, x)
    BY <1>2 DEF NodeSound
  <2>8. /\ q.fFirstChild[x] \in NodeOrNil /\ q.fOwnerNode[x] \in Node
        /\ q.nextSibling[x] \in NodeOrNil /\ q.previousSibling[x] \in NodeOrNil
        /\ q.fFirstChild[q.fOwnerNode[x]] \in NodeOrNil
    BY <1>1 DEF Ptrs
  <2>9. x \in q.isOwned =>
          /\ q.previousSibling[x] = n => x = succ
          /\ q.nextSibling[x] = n => x = prev
    BY <1>7, <1>8, <1>5, <1>11, <2>2
  <2>10. /\ q.fOwnerNode[n] = p /\ q.fFirstChild[p] # n
         /\ q.previousSibling[n] = prev /\ n \notin q.isFirstChild
         /\ prev \in q.isOwned /\ q.fOwnerNode[prev] = p /\ q.nextSibling[prev] = n
         /\ succ \in q.isOwned /\ q.fOwnerNode[succ] = p /\ q.previousSibling[succ] = n
         /\ q.nextSibling[n] = Nil /\ q.fFirstChild[p] = succ /\ succ \in q.isFirstChild
    BY <1>4, <1>5, <1>2, <1>11, <2>2, <2>5 DEF NodeSound, HeadSound
  <2>11. HeadSound(u, x)
    BY <1>4, <2>6, <2>7, <2>8, <2>9, <2>10 DEF HeadSound
  <2>12. FlagSound(u, x)
    BY <1>4, <2>6, <2>7, <2>8, <2>9, <2>10 DEF FlagSound
  <2>13. PreviousSound(u, x)
    BY <1>4, <2>6, <2>7, <2>8, <2>9, <2>10 DEF PreviousSound, FlagSound
  <2>14. NextSound(u, x)
    BY <1>4, <2>6, <2>7, <2>8, <2>9, <2>10 DEF NextSound, FlagSound, HeadSound
  <2>15. OrphanSound(u, x)
    BY <1>4, <2>6, <2>7, <2>8, <2>9, <2>10 DEF OrphanSound
  <2> QED
    BY <2>11, <2>12, <2>13, <2>14, <2>15 DEF NodeSound
<1>12. CASE n # first /\ next # Nil
  <2>1. PICK v : v = PatchLater(q, p, n) /\ u = Dropped(v, n)
    BY <1>3, <1>12 DEF PatchedOut
  <2>2. PICK succ \in Node : succ = next
    BY <1>4, <1>5, <1>12
  <2>3. /\ v \in Ptrs
        /\ v.fFirstChild = q.fFirstChild
        /\ v.nextSibling = [q.nextSibling EXCEPT ![prev] = next]
        /\ v.previousSibling = [q.previousSibling EXCEPT ![succ] = prev]
        /\ v.fOwnerNode = q.fOwnerNode
        /\ v.isOwned = q.isOwned
        /\ v.isFirstChild = q.isFirstChild
    <3>1. /\ prev = q.previousSibling[n] /\ next = q.nextSibling[n]
          /\ succ = IF next = Nil THEN q.fFirstChild[p] ELSE next
      BY <1>3, <1>12, <2>2
    <3> QED
      BY <1>1, <1>4, <2>1, <3>1, PatchLaterIs
  <2>4. /\ u \in Ptrs
        /\ u.fFirstChild = v.fFirstChild
        /\ u.nextSibling = [v.nextSibling EXCEPT ![n] = Nil]
        /\ u.previousSibling = [v.previousSibling EXCEPT ![n] = Nil]
        /\ u.fOwnerNode = [v.fOwnerNode EXCEPT ![n] = Document]
        /\ u.isOwned = v.isOwned \ {n}
        /\ u.isFirstChild = v.isFirstChild
    BY <1>4, <2>1, <2>3, DroppedIs, ZenonT(60)
  <2>5. n \notin q.isFirstChild /\ q.nextSibling[prev] = n
    BY <1>5, <1>12
  <2>6. /\ u \in Ptrs
        /\ \A y \in Node : u.fFirstChild[y] = q.fFirstChild[y]
        /\ \A y \in Node : u.nextSibling[y] = IF y = n THEN Nil ELSE IF y = prev THEN succ ELSE q.nextSibling[y]
        /\ \A y \in Node : u.previousSibling[y] = IF y = n THEN Nil ELSE IF y = succ THEN prev ELSE q.previousSibling[y]
        /\ \A y \in Node : u.fOwnerNode[y] = IF y = n THEN Document ELSE q.fOwnerNode[y]
        /\ \A y : y \in u.isOwned <=> y \in q.isOwned /\ y # n
        /\ \A y : y \in u.isFirstChild <=> y \in q.isFirstChild
        /\ u.isOwned = q.isOwned \ {n}
        /\ u.fOwnerNode = [q.fOwnerNode EXCEPT ![n] = Document]
    BY <1>1, <1>4, <1>12, <2>2, <2>3, <2>4 DEF Ptrs
  <2> SUFFICES ASSUME NEW x \in Node PROVE NodeSound(u, x)
    BY <2>6
  <2>7. /\ HeadSound(q, x) /\ FlagSound(q, x) /\ PreviousSound(q, x)
        /\ NextSound(q, x) /\ OrphanSound(q, x)
    BY <1>2 DEF NodeSound
  <2>8. /\ q.fFirstChild[x] \in NodeOrNil /\ q.fOwnerNode[x] \in Node
        /\ q.nextSibling[x] \in NodeOrNil /\ q.previousSibling[x] \in NodeOrNil
        /\ q.fFirstChild[q.fOwnerNode[x]] \in NodeOrNil
    BY <1>1 DEF Ptrs
  <2>9. x \in q.isOwned =>
          /\ q.previousSibling[x] = n => x = succ
          /\ q.nextSibling[x] = n => x = prev
    BY <1>7, <1>8, <1>5, <1>12, <2>2
  <2>10. /\ q.fOwnerNode[n] = p /\ q.fFirstChild[p] # n
         /\ q.previousSibling[n] = prev /\ n \notin q.isFirstChild
         /\ prev \in q.isOwned /\ q.fOwnerNode[prev] = p /\ q.nextSibling[prev] = n
         /\ succ \in q.isOwned /\ q.fOwnerNode[succ] = p /\ q.previousSibling[succ] = n
         /\ q.nextSibling[n] = succ /\ succ \notin q.isFirstChild
    BY <1>4, <1>5, <1>2, <1>12, <2>2, <2>5 DEF NodeSound, HeadSound
  <2>11. HeadSound(u, x)
    BY <1>4, <2>6, <2>7, <2>8, <2>9, <2>10 DEF HeadSound
  <2>12. FlagSound(u, x)
    BY <1>4, <2>6, <2>7, <2>8, <2>9, <2>10 DEF FlagSound
  <2>13. PreviousSound(u, x)
    BY <1>4, <2>6, <2>7, <2>8, <2>9, <2>10 DEF PreviousSound, FlagSound
  <2>14. NextSound(u, x)
    BY <1>4, <2>6, <2>7, <2>8, <2>9, <2>10 DEF NextSound, FlagSound, HeadSound
  <2>15. OrphanSound(u, x)
    BY <1>4, <2>6, <2>7, <2>8, <2>9, <2>10 DEF OrphanSound
  <2> QED
    BY <2>11, <2>12, <2>13, <2>14, <2>15 DEF NodeSound
<1> QED
  BY <1>9, <1>10, <1>11, <1>12
\* Linking an orphan in, at any place, does so too.
LEMMA InKeeps ==
  ASSUME NEW q, PtrSound(q), NEW n \in Node, n \notin q.isOwned, NEW p \in Node,
         NEW r \in NodeOrNil, r # Nil => r \in q.isOwned /\ q.fOwnerNode[r] = p
  PROVE  LET u == PatchedIn(q, p, n, r)
         IN  PtrSound(u) /\ u.isOwned = q.isOwned \cup {n}
<1> USE NilAssumption, ParentNodeAssumption DEF NodeOrNil
<1>1. q \in Ptrs
  BY DEF PtrSound
<1>2. \A x \in Node : NodeSound(q, x)
  BY DEF PtrSound
<1>3. PICK u, a : u = PatchedIn(q, p, n, r) /\ a = Attached(q, p, n)
  OBVIOUS
<1>4. /\ a \in Ptrs /\ a.fFirstChild = q.fFirstChild
      /\ a.nextSibling = q.nextSibling /\ a.previousSibling = q.previousSibling
      /\ a.fOwnerNode = [q.fOwnerNode EXCEPT ![n] = p]
      /\ a.isOwned = q.isOwned \cup {n}
      /\ a.isFirstChild = q.isFirstChild
  BY <1>1, <1>3, AttachedIs
<1>5. SUFFICES /\ u \in Ptrs /\ \A x \in Node : NodeSound(u, x)
               /\ u.isOwned = q.isOwned \cup {n}
  BY <1>3 DEF PtrSound
<1>6. q.nextSibling[n] = Nil /\ q.previousSibling[n] = Nil /\ n \notin q.isFirstChild
  BY <1>2 DEF NodeSound, OrphanSound
\* no other node knows the orphan
<1>7. ASSUME NEW x \in Node
      PROVE  /\ q.fFirstChild[x] # n
             /\ x \in q.isOwned => q.nextSibling[x] # n /\ q.previousSibling[x] # n
  BY <1>2 DEF NodeSound, HeadSound, NextSound, PreviousSound
<1>8. CASE q.fFirstChild[p] = Nil
  <2>1. u = LinkOnly(a, p, n)
    BY <1>3, <1>8 DEF PatchedIn
  <2>2. /\ u \in Ptrs
        /\ u.fFirstChild = [a.fFirstChild EXCEPT ![p] = n]
        /\ u.nextSibling = a.nextSibling
        /\ u.previousSibling = [a.previousSibling EXCEPT ![n] = n]
        /\ u.fOwnerNode = a.fOwnerNode
        /\ u.isOwned = a.isOwned
        /\ u.isFirstChild = a.isFirstChild \cup {n}
    BY <1>4, <2>1, LinkOnlyIs
  <2>3. /\ u \in Ptrs
        /\ \A y \in Node : u.fFirstChild[y] = IF y = p THEN n ELSE q.fFirstChild[y]
        /\ \A y \in Node : u.nextSibling[y] = q.nextSibling[y]
        /\ \A y \in Node : u.previousSibling[y] = IF y = n THEN n ELSE q.previousSibling[y]
        /\ \A y \in Node : u.fOwnerNode[y] = IF y = n THEN p ELSE q.fOwnerNode[y]
        /\ \A y : y \in u.isOwned <=> y \in q.isOwned \/ y = n
        /\ \A y : y \in u.isFirstChild <=> y \in q.isFirstChild \/ y = n
        /\ u.isOwned = q.isOwned \cup {n}
    BY <1>1, <1>4, <2>2 DEF Ptrs
  <2> SUFFICES ASSUME NEW x \in Node PROVE NodeSound(u, x)
    BY <2>3
  <2>4. /\ HeadSound(q, x) /\ FlagSound(q, x) /\ PreviousSound(q, x)
        /\ NextSound(q, x) /\ OrphanSound(q, x)
    BY <1>2 DEF NodeSound
  <2>5. /\ q.fFirstChild[x] \in NodeOrNil /\ q.fOwnerNode[x] \in Node
        /\ q.nextSibling[x] \in NodeOrNil /\ q.previousSibling[x] \in NodeOrNil
        /\ q.fFirstChild[q.fOwnerNode[x]] \in NodeOrNil
    BY <1>1 DEF Ptrs
  <2>6. q.fFirstChild[p] = Nil
    BY <1>8
  <2>7. x \in q.isOwned =>
          (q.fOwnerNode[x] = p => q.nextSibling[x] # Nil /\ x \notin q.isFirstChild)
    BY <1>8, <2>4, <2>6 DEF NextSound, FlagSound
  <2>8. HeadSound(u, x)
    BY <2>3, <1>6, <1>7, <2>4, <2>5, <2>6, <2>7 DEF HeadSound
  <2>9. FlagSound(u, x)
    BY <2>3, <1>6, <1>7, <2>4, <2>5, <2>6, <2>7 DEF FlagSound
  <2>10. PreviousSound(u, x)
    BY <2>3, <1>6, <1>7, <2>4, <2>5, <2>6, <2>7 DEF PreviousSound, FlagSound
  <2>11. NextSound(u, x)
    BY <2>3, <1>6, <1>7, <2>4, <2>5, <2>6, <2>7 DEF NextSound, FlagSound, HeadSound
  <2>12. OrphanSound(u, x)
    BY <2>3, <1>6, <1>7, <2>4, <2>5, <2>6, <2>7 DEF OrphanSound
  <2> QED
    BY <2>8, <2>9, <2>10, <2>11, <2>12 DEF NodeSound
<1>9. CASE q.fFirstChild[p] # Nil /\ r = Nil
  <2>1. u = LinkLast(a, p, n)
    BY <1>3, <1>9 DEF PatchedIn
  <2>2. PICK first \in Node, last \in NodeOrNil : first = q.fFirstChild[p] /\ last = q.previousSibling[first]
    BY <1>1, <1>9 DEF Ptrs
  <2>3. /\ q.fFirstChild[p] = first /\ q.previousSibling[first] = last
        /\ first \in q.isOwned /\ q.fOwnerNode[first] = p /\ first \in q.isFirstChild
    BY <1>2, <1>9, <2>2 DEF NodeSound, HeadSound
  <2>4. /\ last \in q.isOwned /\ q.fOwnerNode[last] = p /\ q.nextSibling[last] = Nil
        /\ last \in Node /\ last # n /\ first # n
    BY <1>1, <1>2, <2>3 DEF NodeSound, PreviousSound, Ptrs
  <2>5. /\ u \in Ptrs
        /\ u.fFirstChild = a.fFirstChild
        /\ u.nextSibling = [a.nextSibling EXCEPT ![last] = n]
        /\ u.previousSibling = [a.previousSibling EXCEPT ![n] = last, ![first] = n]
        /\ u.fOwnerNode = a.fOwnerNode
        /\ u.isOwned = a.isOwned
        /\ u.isFirstChild = a.isFirstChild
    <3>1. first = a.fFirstChild[p] /\ last = a.previousSibling[first]
      BY <1>4, <2>2
    <3> QED
      BY <1>4, <2>1, <2>2, <2>4, <3>1, LinkLastIs
  <2>6. /\ u \in Ptrs
        /\ \A y \in Node : u.fFirstChild[y] = q.fFirstChild[y]
        /\ \A y \in Node : u.nextSibling[y] = IF y = last THEN n ELSE q.nextSibling[y]
        /\ \A y \in Node : u.previousSibling[y] = IF y = first THEN n ELSE IF y = n THEN last ELSE q.previousSibling[y]
        /\ \A y \in Node : u.fOwnerNode[y] = IF y = n THEN p ELSE q.fOwnerNode[y]
        /\ \A y : y \in u.isOwned <=> y \in q.isOwned \/ y = n
        /\ \A y : y \in u.isFirstChild <=> y \in q.isFirstChild
        /\ u.isOwned = q.isOwned \cup {n}
    BY <1>1, <1>4, <2>4, <2>5 DEF Ptrs
  <2> SUFFICES ASSUME NEW x \in Node PROVE NodeSound(u, x)
    BY <2>6
  <2>7. /\ HeadSound(q, x) /\ FlagSound(q, x) /\ PreviousSound(q, x)
        /\ NextSound(q, x) /\ OrphanSound(q, x)
    BY <1>2 DEF NodeSound
  <2>8. /\ q.fFirstChild[x] \in NodeOrNil /\ q.fOwnerNode[x] \in Node
        /\ q.nextSibling[x] \in NodeOrNil /\ q.previousSibling[x] \in NodeOrNil
        /\ q.fFirstChild[q.fOwnerNode[x]] \in NodeOrNil
    BY <1>1 DEF Ptrs
  <2>9. /\ q.fFirstChild[p] = first /\ q.previousSibling[first] = last
        /\ first \in q.isOwned /\ q.fOwnerNode[first] = p /\ first \in q.isFirstChild
        /\ last \in q.isOwned /\ q.fOwnerNode[last] = p /\ q.nextSibling[last] = Nil
        /\ first \in Node /\ last \in Node /\ last # n /\ first # n
    BY <2>3, <2>4
  <2>10. x \in q.isOwned => /\ q.previousSibling[x] = last => x = first
                            /\ q.fOwnerNode[x] = p /\ q.nextSibling[x] = Nil => x = last
                            /\ q.fOwnerNode[x] = p /\ x \in q.isFirstChild => x = first
                            /\ q.nextSibling[x] # first
    BY <2>7, <2>9 DEF PreviousSound, NextSound, FlagSound
  <2>11. HeadSound(u, x)
    BY <2>6, <1>6, <1>7, <2>7, <2>8, <2>9, <2>10 DEF HeadSound
  <2>12. FlagSound(u, x)
    BY <2>6, <1>6, <1>7, <2>7, <2>8, <2>9, <2>10 DEF FlagSound
  <2>13. PreviousSound(u, x)
    BY <2>6, <1>6, <1>7, <2>7, <2>8, <2>9, <2>10 DEF PreviousSound, FlagSound
  <2>14. NextSound(u, x)
    BY <2>6, <1>6, <1>7, <2>7, <2>8, <2>9, <2>10 DEF NextSound, FlagSound, HeadSound
  <2>15. OrphanSound(u, x)
    BY <2>6, <1>6, <1>7, <2>7, <2>8, <2>9, <2>10 DEF OrphanSound
  <2> QED
    BY <2>11, <2>12, <2>13, <2>14, <2>15 DEF NodeSound
<1>10. CASE q.fFirstChild[p] # Nil /\ r = q.fFirstChild[p]
  <2>1. u = LinkFirst(a, p, n)
    BY <1>3, <1>10 DEF PatchedIn
  <2>2. PICK first \in Node, last \in NodeOrNil : first = q.fFirstChild[p] /\ last = q.previousSibling[first]
    BY <1>1, <1>10 DEF Ptrs
  <2>3. /\ q.fFirstChild[p] = first /\ q.previousSibling[first] = last
        /\ first \in q.isOwned /\ q.fOwnerNode[first] = p /\ first \in q.isFirstChild
    BY <1>2, <1>10, <2>2 DEF NodeSound, HeadSound
  <2>4. /\ last \in q.isOwned /\ q.fOwnerNode[last] = p /\ q.nextSibling[last] = Nil
        /\ last \in Node /\ last # n /\ first # n
    BY <1>1, <1>2, <2>3 DEF NodeSound, PreviousSound, Ptrs
  <2>5. /\ u \in Ptrs
        /\ u.fFirstChild = [a.fFirstChild EXCEPT ![p] = n]
        /\ u.nextSibling = [a.nextSibling EXCEPT ![n] = first]
        /\ u.previousSibling = [a.previousSibling EXCEPT ![n] = last, ![first] = n]
        /\ u.fOwnerNode = a.fOwnerNode
        /\ u.isOwned = a.isOwned
        /\ u.isFirstChild = (a.isFirstChild \ {first}) \cup {n}
    <3>1. first = a.fFirstChild[p] /\ last = a.previousSibling[first]
      BY <1>4, <2>2
    <3> QED
      BY <1>4, <2>1, <2>2, <3>1, LinkFirstIs
  <2>6. /\ u \in Ptrs
        /\ \A y \in Node : u.fFirstChild[y] = IF y = p THEN n ELSE q.fFirstChild[y]
        /\ \A y \in Node : u.nextSibling[y] = IF y = n THEN first ELSE q.nextSibling[y]
        /\ \A y \in Node : u.previousSibling[y] = IF y = first THEN n ELSE IF y = n THEN last ELSE q.previousSibling[y]
        /\ \A y \in Node : u.fOwnerNode[y] = IF y = n THEN p ELSE q.fOwnerNode[y]
        /\ \A y : y \in u.isOwned <=> y \in q.isOwned \/ y = n
        /\ \A y : y \in u.isFirstChild <=> y = n \/ (y \in q.isFirstChild /\ y # first)
        /\ u.isOwned = q.isOwned \cup {n}
    BY <1>1, <1>4, <2>4, <2>5 DEF Ptrs
  <2> SUFFICES ASSUME NEW x \in Node PROVE NodeSound(u, x)
    BY <2>6
  <2>7. /\ HeadSound(q, x) /\ FlagSound(q, x) /\ PreviousSound(q, x)
        /\ NextSound(q, x) /\ OrphanSound(q, x)
    BY <1>2 DEF NodeSound
  <2>8. /\ q.fFirstChild[x] \in NodeOrNil /\ q.fOwnerNode[x] \in Node
        /\ q.nextSibling[x] \in NodeOrNil /\ q.previousSibling[x] \in NodeOrNil
        /\ q.fFirstChild[q.fOwnerNode[x]] \in NodeOrNil
    BY <1>1 DEF Ptrs
  <2>9. /\ q.fFirstChild[p] = first /\ q.previousSibling[first] = last
        /\ first \in q.isOwned /\ q.fOwnerNode[first] = p /\ first \in q.isFirstChild
        /\ last \in q.isOwned /\ q.fOwnerNode[last] = p /\ q.nextSibling[last] = Nil
        /\ first \in Node /\ last \in Node /\ last # n /\ first # n
    BY <2>3, <2>4
  <2>10. x \in q.isOwned => /\ q.previousSibling[x] = last => x = first
                            /\ q.fOwnerNode[x] = p /\ q.nextSibling[x] = Nil => x = last
                            /\ q.fOwnerNode[x] = p /\ x \in q.isFirstChild => x = first
                            /\ q.nextSibling[x] # first
    BY <2>7, <2>9 DEF PreviousSound, NextSound, FlagSound
  <2>11. HeadSound(u, x)
    BY <2>6, <1>6, <1>7, <2>7, <2>8, <2>9, <2>10 DEF HeadSound
  <2>12. FlagSound(u, x)
    BY <2>6, <1>6, <1>7, <2>7, <2>8, <2>9, <2>10 DEF FlagSound
  <2>13. PreviousSound(u, x)
    BY <2>6, <1>6, <1>7, <2>7, <2>8, <2>9, <2>10 DEF PreviousSound, FlagSound
  <2>14. NextSound(u, x)
    BY <2>6, <1>6, <1>7, <2>7, <2>8, <2>9, <2>10 DEF NextSound, FlagSound, HeadSound
  <2>15. OrphanSound(u, x)
    BY <2>6, <1>6, <1>7, <2>7, <2>8, <2>9, <2>10 DEF OrphanSound
  <2> QED
    BY <2>11, <2>12, <2>13, <2>14, <2>15 DEF NodeSound
<1>11. CASE q.fFirstChild[p] # Nil /\ r # Nil /\ r # q.fFirstChild[p]
  <2>1. u = LinkMiddle(a, n, r)
    BY <1>3, <1>11 DEF PatchedIn
  <2>2. PICK prev : prev = q.previousSibling[r]
    OBVIOUS
  <2>3. /\ r \in Node /\ r \in q.isOwned /\ q.fOwnerNode[r] = p /\ r \notin q.isFirstChild
    BY <1>1, <1>2, <1>11 DEF NodeSound, FlagSound, Ptrs
  <2>4. /\ q.previousSibling[r] = prev /\ q.nextSibling[prev] = r
        /\ prev \in q.isOwned /\ q.fOwnerNode[prev] = p
        /\ prev \in Node /\ prev # n /\ r # n
    BY <1>1, <1>2, <2>2, <2>3 DEF NodeSound, PreviousSound, Ptrs
  <2>5. /\ u \in Ptrs
        /\ u.fFirstChild = a.fFirstChild
        /\ u.nextSibling = [a.nextSibling EXCEPT ![n] = r, ![prev] = n]
        /\ u.previousSibling = [a.previousSibling EXCEPT ![r] = n, ![n] = prev]
        /\ u.fOwnerNode = a.fOwnerNode
        /\ u.isOwned = a.isOwned
        /\ u.isFirstChild = a.isFirstChild
    <3>1. prev = a.previousSibling[r]
      BY <1>4, <2>2
    <3> QED
      BY <1>4, <2>1, <2>3, <2>4, <3>1, LinkMiddleIs
  <2>6. /\ u \in Ptrs
        /\ \A y \in Node : u.fFirstChild[y] = q.fFirstChild[y]
        /\ \A y \in Node : u.nextSibling[y] = IF y = prev THEN n ELSE IF y = n THEN r ELSE q.nextSibling[y]
        /\ \A y \in Node : u.previousSibling[y] = IF y = n THEN prev ELSE IF y = r THEN n ELSE q.previousSibling[y]
        /\ \A y \in Node : u.fOwnerNode[y] = IF y = n THEN p ELSE q.fOwnerNode[y]
        /\ \A y : y \in u.isOwned <=> y \in q.isOwned \/ y = n
        /\ \A y : y \in u.isFirstChild <=> y \in q.isFirstChild
        /\ u.isOwned = q.isOwned \cup {n}
    BY <1>1, <1>4, <2>3, <2>4, <2>5 DEF Ptrs
  <2> SUFFICES ASSUME NEW x \in Node PROVE NodeSound(u, x)
    BY <2>6
  <2>7. /\ HeadSound(q, x) /\ FlagSound(q, x) /\ PreviousSound(q, x)
        /\ NextSound(q, x) /\ OrphanSound(q, x)
    BY <1>2 DEF NodeSound
  <2>8. /\ q.fFirstChild[x] \in NodeOrNil /\ q.fOwnerNode[x] \in Node
        /\ q.nextSibling[x] \in NodeOrNil /\ q.previousSibling[x] \in NodeOrNil
        /\ q.fFirstChild[q.fOwnerNode[x]] \in NodeOrNil
    BY <1>1 DEF Ptrs
  <2>9. /\ q.previousSibling[r] = prev /\ q.nextSibling[prev] = r
        /\ prev \in q.isOwned /\ q.fOwnerNode[prev] = p
        /\ r \in q.isOwned /\ q.fOwnerNode[r] = p /\ r \notin q.isFirstChild
        /\ r \in Node /\ prev \in Node /\ prev # n /\ r # n /\ q.fFirstChild[p] # r /\ q.fFirstChild[p] # Nil
    BY <1>11, <2>3, <2>4
  <2>10. x \in q.isOwned => /\ q.previousSibling[x] = prev => x = r
                            /\ q.nextSibling[x] = r => x = prev
    BY <2>7, <2>9 DEF PreviousSound, NextSound
  <2>11. HeadSound(u, x)
    BY <2>6, <1>6, <1>7, <2>7, <2>8, <2>9, <2>10 DEF HeadSound
  <2>12. FlagSound(u, x)
    BY <2>6, <1>6, <1>7, <2>7, <2>8, <2>9, <2>10 DEF FlagSound
  <2>13. PreviousSound(u, x)
    BY <2>6, <1>6, <1>7, <2>7, <2>8, <2>9, <2>10 DEF PreviousSound, FlagSound
  <2>14. NextSound(u, x)
    BY <2>6, <1>6, <1>7, <2>7, <2>8, <2>9, <2>10 DEF NextSound, FlagSound, HeadSound
  <2>15. OrphanSound(u, x)
    BY <2>6, <1>6, <1>7, <2>7, <2>8, <2>9, <2>10 DEF OrphanSound
  <2> QED
    BY <2>11, <2>12, <2>13, <2>14, <2>15 DEF NodeSound
<1> QED
  BY <1>8, <1>9, <1>10, <1>11
-----------------------------------------------------------------------------
LEMMA PtrInvInit == PointerInit => PtrInv
<1> SUFFICES ASSUME PointerInit PROVE PtrInv
  OBVIOUS
<1> USE NilAssumption, ParentNodeAssumption DEF NodeOrNil
<1>1. ptr = NoPointers /\ fresh = Fresh
  BY DEF PointerInit
<1>2. ptr \in Ptrs
  BY <1>1 DEF NoPointers, Ptrs
<1>3. ASSUME NEW x \in Node PROVE NodeSound(ptr, x)
  BY <1>1 DEF NoPointers, NodeSound, HeadSound, FlagSound, PreviousSound, NextSound, OrphanSound
<1>4. ptr.isOwned = {}
  BY <1>1 DEF NoPointers
<1> QED
  BY <1>1, <1>2, <1>3, <1>4 DEF PtrInv, PtrSound

\* Every call keeps the invariant, one step for each.
LEMMA PtrInvStep ==
  ASSUME ~ CloneFirst, PtrInv, [PointerNext]_pvars
  PROVE  PtrInv'
<1> USE NilAssumption, ParentNodeAssumption DEF NodeOrNil
<1>1. PtrSound(ptr) /\ ptr \in Ptrs /\ fresh \subseteq Fresh /\ \A x \in fresh : x \notin ptr.isOwned
  BY DEF PtrInv, PtrSound
<1>2. \A x \in Node : getParentNode(ptr, x) # Nil =>
         x \in ptr.isOwned /\ ptr.fOwnerNode[x] = getParentNode(ptr, x)
  BY DEF getParentNode
<1>3. \A x \in Node : getParentNode(ptr, x) = Nil => x \notin ptr.isOwned
  BY <1>1 DEF getParentNode, Ptrs
<1>4. ASSUME NEW n \in Node, RemoveChild(n) PROVE PtrInv'
  <2>1. n \in ptr.isOwned /\ ptr' = PatchedOut(ptr, ptr.fOwnerNode[n], n) /\ fresh' = fresh
    BY <1>2, <1>4 DEF RemoveChild
  <2>2. PtrSound(ptr') /\ ptr'.isOwned = ptr.isOwned \ {n}
    BY <1>1, <2>1, OutKeeps
  <2> QED
    BY <1>1, <2>1, <2>2 DEF PtrInv, PtrSound, NodeSound, HeadSound, FlagSound,
                            PreviousSound, NextSound, OrphanSound
<1>5. ASSUME NEW p \in Node, NEW n \in Node, AppendChildFast(p, n) PROVE PtrInv'
  <2>1. n \notin ptr.isOwned /\ n \notin fresh /\ fresh' = fresh
    BY <1>3, <1>5 DEF AppendChildFast, Created
  <2>2. ptr' = PatchedIn(ptr, p, n, Nil)
    BY <1>1, <1>5 DEF AppendChildFast, PatchedIn
  <2>3. PtrSound(ptr') /\ ptr'.isOwned = ptr.isOwned \cup {n}
    BY <1>1, <2>1, <2>2, InKeeps
  <2> QED
    BY <1>1, <2>1, <2>3 DEF PtrInv, PtrSound, NodeSound, HeadSound, FlagSound,
                            PreviousSound, NextSound, OrphanSound
<1>6. ASSUME NEW p \in Node, NEW n \in Node, NEW r \in NodeOrNil, InsertBefore(p, n, r)
      PROVE  PtrInv'
  <2>1. PICK q : /\ q = IF getParentNode(ptr, n) = Nil THEN ptr
                        ELSE PatchedOut(ptr, getParentNode(ptr, n), n)
                 /\ ptr' = PatchedIn(q, p, n, r)
    BY <1>6 DEF InsertBefore
  <2>2. /\ n \notin fresh /\ fresh' = fresh /\ n # r
        /\ r # Nil => r \in ptr.isOwned /\ ptr.fOwnerNode[r] = p
    BY <1>2, <1>6 DEF InsertBefore, Created
  <2>3. /\ PtrSound(q) /\ q.isOwned = ptr.isOwned \ {n}
        /\ r # Nil => r \in q.isOwned /\ q.fOwnerNode[r] = p
    <3>1. CASE getParentNode(ptr, n) = Nil
      BY <1>1, <1>3, <2>1, <2>2, <3>1
    <3>2. CASE getParentNode(ptr, n) # Nil
      <4>1. n \in ptr.isOwned /\ q = PatchedOut(ptr, ptr.fOwnerNode[n], n)
        BY <1>2, <2>1, <3>2
      <4>2. /\ PtrSound(q) /\ q.isOwned = ptr.isOwned \ {n}
            /\ q.fOwnerNode = [ptr.fOwnerNode EXCEPT ![n] = Document]
        BY <1>1, <4>1, OutKeeps
      <4> QED
        BY <1>1, <2>2, <4>2 DEF Ptrs
    <3> QED
      BY <3>1, <3>2
  <2>4. PtrSound(ptr') /\ ptr'.isOwned = q.isOwned \cup {n}
    BY <2>1, <2>3, InKeeps
  <2> QED
    BY <1>1, <2>2, <2>3, <2>4 DEF PtrInv, PtrSound, NodeSound, HeadSound, FlagSound,
                                  PreviousSound, NextSound, OrphanSound
<1>7. ASSUME NEW x \in Node, NEW c \in Node, CloneNode(x, c) PROVE PtrInv'
  <2>1. /\ c \in fresh /\ c \notin ptr.isOwned /\ fresh' = fresh \ {c}
        /\ ptr' = CloneFlags(x, c) /\ x \notin FlagsCopied \cap ptr.isFirstChild
    BY <1>1, <1>7 DEF CloneNode
  <2>2. /\ ptr' \in Ptrs
        /\ ptr'.fFirstChild = ptr.fFirstChild /\ ptr'.nextSibling = ptr.nextSibling
        /\ ptr'.previousSibling = ptr.previousSibling
        /\ ptr'.fOwnerNode = [ptr.fOwnerNode EXCEPT ![c] = Document]
        /\ ptr'.isOwned = ptr.isOwned /\ ptr'.isFirstChild = ptr.isFirstChild
    BY <1>1, <2>1 DEF CloneFlags, Ptrs
  <2>3. \A y \in Node : y # c => ptr'.fOwnerNode[y] = ptr.fOwnerNode[y]
    BY <1>1, <2>2 DEF Ptrs
  <2>4. ASSUME NEW y \in Node PROVE NodeSound(ptr, y)'
    <3>1. NodeSound(ptr, y)
      BY <1>1 DEF PtrSound
    <3>2. y \in ptr.isOwned => /\ y # c
                               /\ ptr.nextSibling[y] # c /\ ptr.previousSibling[y] # c
      BY <2>1, <3>1 DEF NodeSound, NextSound, PreviousSound
    <3>3. ptr.fFirstChild[y] # c
      BY <2>1, <3>1 DEF NodeSound, HeadSound
    <3>4. /\ ptr.nextSibling[y] \in NodeOrNil /\ ptr.previousSibling[y] \in NodeOrNil
          /\ ptr.fFirstChild[y] \in NodeOrNil
      BY <1>1 DEF Ptrs
    <3> QED
      BY <2>1, <2>2, <2>3, <3>1, <3>2, <3>3, <3>4
         DEF NodeSound, HeadSound, FlagSound, PreviousSound, NextSound, OrphanSound
  <2> QED
    BY <1>1, <2>1, <2>2, <2>4 DEF PtrInv, PtrSound
<1>8. CASE UNCHANGED pvars
  BY <1>1, <1>8 DEF pvars, PtrInv, PtrSound, NodeSound, HeadSound, FlagSound,
                    PreviousSound, NextSound, OrphanSound
<1> QED
  BY <1>4, <1>5, <1>6, <1>7, <1>8 DEF PointerNext

\* The invariant holds of every document whose first children are not cloned.
THEOREM PointerInvariant ==
  ASSUME ~ CloneFirst PROVE PointerSpec => []PtrInv
<1>1. PtrInv /\ [PointerNext]_pvars => PtrInv'
  BY PtrInvStep
<1> QED
  BY <1>1, PtrInvInit, PTL DEF PointerSpec

\* The pointers and flags keep their types, whatever calls insertBefore,
\* removeChild and appendChildFast get.
THEOREM PointersTyped ==
  ASSUME ~ CloneFirst PROVE PointerSpec => []PointerTypeOK
BY PointerInvariant, SoundIsEnough, PTL

\* getPreviousSibling inverts getNextSibling in every child list (the flag
\* isFirstChild and the circular list never disagree).
THEOREM SiblingsAreMirrored ==
  ASSUME ~ CloneFirst PROVE PointerSpec => []SiblingsMirror
BY PointerInvariant, SoundIsEnough, PTL

\* getLastChild and getFirstChild are the ends of the list, and an orphan has
\* no siblings.
THEOREM EndsAreKnown ==
  ASSUME ~ CloneFirst PROVE PointerSpec => []EndsKnown
BY PointerInvariant, SoundIsEnough, PTL

\* A child's sibling is a child of the same parent.
THEOREM SiblingsHaveOneParent ==
  ASSUME ~ CloneFirst PROVE PointerSpec => []SiblingsShareParent
BY PointerInvariant, SoundIsEnough, PTL
-----------------------------------------------------------------------------
(* The lists the pointers stand for.                                        *)

\* s is the child list of p
Threads(q, p, s) ==
  /\ s \in Seq(Node)
  /\ \A i, j \in 1 .. Len(s) : s[i] = s[j] => i = j
  /\ q.fFirstChild[p] = IF Len(s) = 0 THEN Nil ELSE s[1]
  /\ \A i \in 1 .. Len(s) :
        /\ s[i] \in q.isOwned /\ q.fOwnerNode[s[i]] = p
        /\ q.nextSibling[s[i]] = IF i = Len(s) THEN Nil ELSE s[i + 1]
  /\ \A x \in q.isOwned : q.fOwnerNode[x] = p => \E i \in 1 .. Len(s) : s[i] = x

Represents(q, f) ==
  /\ f \in Forests
  /\ \A x \in Node : f.parent[x] = getParentNode(q, x)
  /\ \A p \in Node : Threads(q, p, f.kids[p])

\* The pointers describe some lists of children: what Represented stands for
\* is defined in every state.
ListInv == PtrInv /\ \E f : Represents(ptr, f)
-----------------------------------------------------------------------------
(* What the two edits do to the pointers a list is read from                *)

LEMMA OutIs ==
  ASSUME NEW q, PtrSound(q), NEW n \in q.isOwned
  PROVE  LET u == PatchedOut(q, q.fOwnerNode[n], n)
         IN  /\ \A y \in Node : u.fFirstChild[y] =
                  IF q.fFirstChild[y] = n THEN q.nextSibling[n] ELSE q.fFirstChild[y]
             /\ \A y \in Node : u.nextSibling[y] =
                  IF y = n THEN Nil
                  ELSE IF q.nextSibling[y] = n THEN q.nextSibling[n] ELSE q.nextSibling[y]
<1> USE NilAssumption, ParentNodeAssumption DEF NodeOrNil
<1>1. q \in Ptrs /\ \A x \in Node : NodeSound(q, x)
  BY DEF PtrSound
<1>2. PICK p, next, prev, first, u :
        /\ p = q.fOwnerNode[n] /\ next = q.nextSibling[n] /\ prev = q.previousSibling[n]
        /\ first = q.fFirstChild[p] /\ u = PatchedOut(q, p, n)
  OBVIOUS
<1>3. n \in Node /\ p \in Node /\ prev \in Node /\ first \in NodeOrNil /\ next \in NodeOrNil
  BY <1>1, <1>2 DEF NodeSound, PreviousSound, Ptrs
<1>4. /\ \A y \in Node : q.fFirstChild[y] = n => y = p
      /\ \A y \in Node : q.nextSibling[y] = n => y = prev /\ n \notin q.isFirstChild
      /\ n \in q.isFirstChild <=> n = first
      /\ n \notin q.isFirstChild => q.nextSibling[prev] = n
      /\ next = Nil => first # Nil
  BY <1>1, <1>2, <1>3
     DEF NodeSound, HeadSound, FlagSound, PreviousSound, NextSound, OrphanSound, Ptrs
<1>5. SUFFICES /\ \A y \in Node : u.fFirstChild[y] =
                    IF q.fFirstChild[y] = n THEN next ELSE q.fFirstChild[y]
               /\ \A y \in Node : u.nextSibling[y] =
                    IF y = n THEN Nil
                    ELSE IF q.nextSibling[y] = n THEN next ELSE q.nextSibling[y]
  BY <1>2
<1>6. CASE n = first
  <2>1. PICK v : v = PatchFirst(q, p, n) /\ u = Dropped(v, n)
    BY <1>2, <1>6 DEF PatchedOut
  <2>2. /\ v \in Ptrs
        /\ v.fFirstChild = [q.fFirstChild EXCEPT ![p] = next]
        /\ v.nextSibling = q.nextSibling
    <3>1. CASE next = Nil
      <4>1. q.nextSibling[n] = Nil
        BY <1>2, <3>1
      <4>2. /\ v \in Ptrs
            /\ v.fFirstChild = [q.fFirstChild EXCEPT ![p] = Nil]
            /\ v.nextSibling = q.nextSibling
            /\ v.previousSibling = q.previousSibling
            /\ v.fOwnerNode = q.fOwnerNode
            /\ v.isOwned = q.isOwned
            /\ v.isFirstChild = q.isFirstChild \ {n}
        BY <1>1, <1>3, <2>1, <4>1, PatchOnlyIs
      <4> QED
        BY <3>1, <4>2
    <3>2. CASE next # Nil
      <4>1. next \in Node /\ next = q.nextSibling[n]
        BY <1>2, <1>3, <3>2
      <4>2. /\ v \in Ptrs
            /\ v.fFirstChild = [q.fFirstChild EXCEPT ![p] = next]
            /\ v.nextSibling = q.nextSibling
            /\ v.previousSibling = [q.previousSibling EXCEPT ![next] = q.previousSibling[n]]
            /\ v.fOwnerNode = q.fOwnerNode
            /\ v.isOwned = q.isOwned
            /\ v.isFirstChild = (q.isFirstChild \ {n}) \cup {next}
        BY <1>1, <1>3, <2>1, <4>1, PatchFirstIs
      <4> QED
        BY <4>2
    <3> QED
      BY <3>1, <3>2
  <2>3. /\ u \in Ptrs
        /\ u.fFirstChild = v.fFirstChild
        /\ u.nextSibling = [v.nextSibling EXCEPT ![n] = Nil]
        /\ u.previousSibling = [v.previousSibling EXCEPT ![n] = Nil]
        /\ u.fOwnerNode = [v.fOwnerNode EXCEPT ![n] = Document]
        /\ u.isOwned = v.isOwned \ {n}
        /\ u.isFirstChild = v.isFirstChild
    <3>1. v \in Ptrs /\ u = Dropped(v, n)
      BY <2>1, <2>2
    <3> QED
      BY <1>3, <3>1, DroppedIs, ZenonT(60)
  <2>4. /\ q.fFirstChild[p] = n /\ \A y \in Node : q.nextSibling[y] # n
        /\ \A y \in Node : q.fFirstChild[y] = n => y = p
    BY <1>2, <1>4, <1>6
  <2>5. \A y \in Node : u.fFirstChild[y] = IF q.fFirstChild[y] = n THEN next ELSE q.fFirstChild[y]
    <3>1. u.fFirstChild = [q.fFirstChild EXCEPT ![p] = next] /\ q.fFirstChild \in [Node -> NodeOrNil]
      BY <1>1, <2>2, <2>3 DEF Ptrs
    <3> QED
      BY <2>4, <3>1
  <2>6. \A y \in Node : u.nextSibling[y] = IF y = n THEN Nil ELSE q.nextSibling[y]
    BY <1>1, <1>3, <2>2, <2>3 DEF Ptrs
  <2> QED
    BY <2>4, <2>5, <2>6
<1>7. CASE n # first
  <2>1. PICK v : v = PatchLater(q, p, n) /\ u = Dropped(v, n)
    BY <1>2, <1>7 DEF PatchedOut
  <2>2. PICK succ \in Node : succ = IF next = Nil THEN q.fFirstChild[p] ELSE next
    BY <1>2, <1>3, <1>4
  <2>3. /\ v \in Ptrs
        /\ v.fFirstChild = q.fFirstChild
        /\ v.nextSibling = [q.nextSibling EXCEPT ![prev] = next]
        /\ v.previousSibling = [q.previousSibling EXCEPT ![succ] = prev]
        /\ v.fOwnerNode = q.fOwnerNode
        /\ v.isOwned = q.isOwned
        /\ v.isFirstChild = q.isFirstChild
    <3>1. prev = q.previousSibling[n] /\ next = q.nextSibling[n]
      BY <1>2
    <3> QED
      BY <1>1, <1>3, <2>1, <2>2, <3>1, PatchLaterIs
  <2>4. /\ u \in Ptrs
        /\ u.fFirstChild = v.fFirstChild
        /\ u.nextSibling = [v.nextSibling EXCEPT ![n] = Nil]
        /\ u.previousSibling = [v.previousSibling EXCEPT ![n] = Nil]
        /\ u.fOwnerNode = [v.fOwnerNode EXCEPT ![n] = Document]
        /\ u.isOwned = v.isOwned \ {n}
        /\ u.isFirstChild = v.isFirstChild
    BY <1>3, <2>1, <2>3, DroppedIs, ZenonT(60)
  <2> QED
    BY <1>1, <1>2, <1>3, <1>4, <1>7, <2>3, <2>4 DEF Ptrs
<1> QED
  BY <1>6, <1>7

LEMMA InIs ==
  ASSUME NEW q, PtrSound(q), NEW p \in Node, NEW n \in Node, n \notin q.isOwned,
         NEW r \in NodeOrNil,
         r # Nil => r \in q.isOwned /\ q.fOwnerNode[r] = p /\ q.fFirstChild[p] # Nil
  PROVE  LET u == PatchedIn(q, p, n, r)
         IN  /\ \A y \in Node : u.fFirstChild[y] =
                  IF y = p /\ q.fFirstChild[p] = r THEN n ELSE q.fFirstChild[y]
             /\ \A y \in Node : u.nextSibling[y] =
                  IF y = n THEN r
                  ELSE IF y \in q.isOwned /\ q.fOwnerNode[y] = p /\ q.nextSibling[y] = r
                       THEN n ELSE q.nextSibling[y]
             /\ u.isOwned = q.isOwned \cup {n}
             /\ u.fOwnerNode = [q.fOwnerNode EXCEPT ![n] = p]
<1> USE NilAssumption, ParentNodeAssumption DEF NodeOrNil
<1>1. q \in Ptrs /\ \A x \in Node : NodeSound(q, x)
  BY DEF PtrSound
<1>2. PICK a, u, first : /\ a = Attached(q, p, n) /\ u = PatchedIn(q, p, n, r)
                         /\ first = q.fFirstChild[p]
  OBVIOUS
<1>3. /\ a \in Ptrs
      /\ a.fFirstChild = q.fFirstChild /\ a.nextSibling = q.nextSibling
      /\ a.previousSibling = q.previousSibling
      /\ a.fOwnerNode = [q.fOwnerNode EXCEPT ![n] = p]
      /\ a.isOwned = q.isOwned \cup {n}
      /\ a.isFirstChild = q.isFirstChild
  <2>1. q \in Ptrs /\ a = Attached(q, p, n)
    BY <1>1, <1>2
  <2> QED
    BY <2>1 DEF Attached, Ptrs
<1>4. first \in NodeOrNil /\ q.nextSibling[n] = Nil /\ q.isOwned \subseteq Node
  BY <1>1, <1>2 DEF NodeSound, OrphanSound, Ptrs
<1>5. SUFFICES /\ \A y \in Node : u.fFirstChild[y] =
                    IF y = p /\ first = r THEN n ELSE q.fFirstChild[y]
               /\ \A y \in Node : u.nextSibling[y] =
                    IF y = n THEN r
                    ELSE IF y \in q.isOwned /\ q.fOwnerNode[y] = p /\ q.nextSibling[y] = r
                         THEN n ELSE q.nextSibling[y]
               /\ u.isOwned = a.isOwned /\ u.fOwnerNode = a.fOwnerNode
  BY <1>2, <1>3
<1>6. CASE first = Nil
  <2>1. u = LinkOnly(a, p, n) /\ r = Nil
    BY <1>2, <1>6 DEF PatchedIn
  <2>2. /\ u \in Ptrs
        /\ u.fFirstChild = [a.fFirstChild EXCEPT ![p] = n]
        /\ u.nextSibling = a.nextSibling
        /\ u.previousSibling = [a.previousSibling EXCEPT ![n] = n]
        /\ u.fOwnerNode = a.fOwnerNode
        /\ u.isOwned = a.isOwned
        /\ u.isFirstChild = a.isFirstChild \cup {n}
    BY <1>3, <2>1, LinkOnlyIs
  <2>3. \A y \in Node : ~(y \in q.isOwned /\ q.fOwnerNode[y] = p /\ q.nextSibling[y] = Nil)
    BY <1>1, <1>2, <1>6 DEF NodeSound, NextSound
  <2> QED
    BY <1>1, <1>2, <1>3, <1>4, <1>6, <2>1, <2>2, <2>3 DEF Ptrs
<1>7. CASE first # Nil
  <2>1. /\ first \in Node /\ first \in q.isOwned /\ q.fOwnerNode[first] = p /\ first \in q.isFirstChild
        /\ \A y \in q.isOwned : q.nextSibling[y] # first
    BY <1>1, <1>2, <1>4, <1>7 DEF NodeSound, HeadSound, NextSound
  <2>2. PICK last : last = q.previousSibling[first]
    OBVIOUS
  <2>3. /\ last \in q.isOwned /\ last \in Node /\ q.fOwnerNode[last] = p /\ q.nextSibling[last] = Nil
        /\ \A y \in q.isOwned : q.fOwnerNode[y] = p /\ q.nextSibling[y] = Nil => y = last
    BY <1>1, <1>2, <1>4, <1>7, <2>1, <2>2 DEF NodeSound, PreviousSound, NextSound
  <2>4. CASE r = Nil
    <3>1. u = LinkLast(a, p, n)
      BY <1>2, <1>7, <2>4 DEF PatchedIn
    <3>2. first = a.fFirstChild[p] /\ last = a.previousSibling[first]
      BY <1>2, <1>3, <2>2
    <3>3. /\ u \in Ptrs
          /\ u.fFirstChild = a.fFirstChild
          /\ u.nextSibling = [a.nextSibling EXCEPT ![last] = n]
          /\ u.previousSibling = [a.previousSibling EXCEPT ![n] = last, ![first] = n]
          /\ u.fOwnerNode = a.fOwnerNode
          /\ u.isOwned = a.isOwned
          /\ u.isFirstChild = a.isFirstChild
      BY <1>3, <2>1, <2>3, <3>1, <3>2, LinkLastIs
    <3> QED
      BY <1>1, <1>2, <1>3, <1>4, <1>7, <2>3, <2>4, <3>3 DEF Ptrs
  <2>5. CASE r = first
    <3>1. u = LinkFirst(a, p, n)
      BY <1>2, <1>7, <2>5 DEF PatchedIn
    <3>2. first = a.fFirstChild[p]
      BY <1>2, <1>3
    <3>3. /\ u \in Ptrs
          /\ u.fFirstChild = [a.fFirstChild EXCEPT ![p] = n]
          /\ u.nextSibling = [a.nextSibling EXCEPT ![n] = first]
          /\ u.previousSibling = [a.previousSibling EXCEPT ![n] = a.previousSibling[first], ![first] = n]
          /\ u.fOwnerNode = a.fOwnerNode
          /\ u.isOwned = a.isOwned
          /\ u.isFirstChild = (a.isFirstChild \ {first}) \cup {n}
      BY <1>3, <2>1, <3>1, <3>2, LinkFirstIs
    <3> QED
      BY <1>1, <1>2, <1>3, <1>4, <1>7, <2>1, <2>5, <3>3 DEF Ptrs
  <2>6. CASE r # Nil /\ r # first
    <3>1. u = LinkMiddle(a, n, r)
      BY <1>2, <1>7, <2>6 DEF PatchedIn
    <3>2. PICK prev : prev = q.previousSibling[r]
      OBVIOUS
    <3>3. /\ r \notin q.isFirstChild
          /\ prev \in q.isOwned /\ prev \in Node /\ q.fOwnerNode[prev] = p /\ q.nextSibling[prev] = r
      BY <1>1, <1>2, <1>4, <2>6, <3>2 DEF NodeSound, PreviousSound, FlagSound
    <3>4. \A y \in q.isOwned : q.nextSibling[y] = r => y = prev
      BY <1>1, <1>4, <2>6, <3>2 DEF NodeSound, NextSound
    <3>5. prev = a.previousSibling[r] /\ r \in Node
      BY <1>3, <2>6, <3>2
    <3>6. /\ u \in Ptrs
          /\ u.fFirstChild = a.fFirstChild
          /\ u.nextSibling = [a.nextSibling EXCEPT ![n] = r, ![prev] = n]
          /\ u.previousSibling = [a.previousSibling EXCEPT ![r] = n, ![n] = prev]
          /\ u.fOwnerNode = a.fOwnerNode
          /\ u.isOwned = a.isOwned
          /\ u.isFirstChild = a.isFirstChild
      BY <1>3, <3>1, <3>3, <3>5, LinkMiddleIs
    <3> QED
      BY <1>1, <1>2, <1>3, <1>4, <2>6, <3>3, <3>4, <3>6 DEF Ptrs
  <2> QED
    BY <2>4, <2>5, <2>6
<1> QED
  BY <1>6, <1>7
-----------------------------------------------------------------------------
(* What the two edits do to the lists                                       *)

\* Without drops the one position that holds x.
LEMMA WithoutAt ==
  ASSUME NEW s \in Seq(Node), NEW x, \E i \in 1 .. Len(s) : s[i] = x
  PROVE  \E k \in 1 .. Len(s) :
            /\ s[k] = x
            /\ Without(s, x) \in Seq(Node) /\ Len(Without(s, x)) = Len(s) - 1
            /\ \A i \in 1 .. Len(s) - 1 : Without(s, x)[i] = IF i < k THEN s[i] ELSE s[i + 1]
<1>1. PICK k : k = IndexOf(s, x)
  OBVIOUS
<1>2. k \in 1 .. Len(s) /\ s[k] = x
  BY <1>1 DEF IndexOf
<1>3. PICK a, b : a = SubSeq(s, 1, k - 1) /\ b = SubSeq(s, k + 1, Len(s))
  OBVIOUS
<1>4. Without(s, x) = a \o b
  BY <1>1, <1>3 DEF Without
<1>5. a \in Seq(Node) /\ Len(a) = k - 1 /\ \A i \in 1 .. k - 1 : a[i] = s[i]
  BY <1>2, <1>3
<1>6. b \in Seq(Node) /\ Len(b) = Len(s) - k /\ \A i \in 1 .. Len(s) - k : b[i] = s[k + i]
  BY <1>2, <1>3
<1>7. a \o b \in Seq(Node) /\ Len(a \o b) = Len(s) - 1
  <2>1. a \o b \in Seq(Node) /\ Len(a \o b) = Len(a) + Len(b)
    <3>1. a \in Seq(Node) /\ b \in Seq(Node)
      BY <1>5, <1>6
    <3> QED
      BY <3>1
  <2>2. Len(a) + Len(b) = Len(s) - 1
    BY <1>2, <1>5, <1>6
  <2> QED
    BY <2>1, <2>2
<1>8. \A i \in 1 .. Len(s) - 1 : (a \o b)[i] = IF i < k THEN s[i] ELSE s[i + 1]
  BY <1>2, <1>5, <1>6
<1> QED
  BY <1>2, <1>4, <1>7, <1>8

\* Before gives x the place of r, or the one behind the last.
LEMMA BeforeAt ==
  ASSUME NEW s \in Seq(Node), NEW x \in Node, NEW r,
         r # Nil => \E i \in 1 .. Len(s) : s[i] = r
  PROVE  \E k \in 1 .. Len(s) + 1 :
            /\ IF r = Nil THEN k = Len(s) + 1 ELSE k \in 1 .. Len(s) /\ s[k] = r
            /\ Before(s, x, r) \in Seq(Node) /\ Len(Before(s, x, r)) = Len(s) + 1
            /\ \A i \in 1 .. Len(s) + 1 : Before(s, x, r)[i] =
                  IF i < k THEN s[i] ELSE IF i = k THEN x ELSE s[i - 1]
<1>1. PICK k : k = IF r = Nil THEN Len(s) + 1 ELSE IndexOf(s, r)
  OBVIOUS
<1>2. /\ k \in 1 .. Len(s) + 1
      /\ IF r = Nil THEN k = Len(s) + 1 ELSE k \in 1 .. Len(s) /\ s[k] = r
  BY <1>1 DEF IndexOf
<1>3. PICK a, b, c : a = SubSeq(s, 1, k - 1) /\ b = SubSeq(s, k, Len(s)) /\ c = a \o <<x>>
  OBVIOUS
<1>4. Before(s, x, r) = c \o b
  BY <1>1, <1>3 DEF Before
<1>5. a \in Seq(Node) /\ Len(a) = k - 1 /\ \A i \in 1 .. k - 1 : a[i] = s[i]
  BY <1>2, <1>3
<1>6. b \in Seq(Node) /\ Len(b) = Len(s) + 1 - k
        /\ \A i \in 1 .. Len(s) + 1 - k : b[i] = s[k + i - 1]
  BY <1>2, <1>3
<1>7. c \in Seq(Node) /\ Len(c) = k /\ \A i \in 1 .. k : c[i] = IF i < k THEN s[i] ELSE x
  <2>1. c = a \o <<x>> /\ k \in Nat
    BY <1>2, <1>3
  <2>2. c \in Seq(Node) /\ Len(c) = k
    BY <1>5, <2>1
  <2>3. \A i \in 1 .. k : c[i] = IF i < k THEN s[i] ELSE x
    BY <1>5, <2>1
  <2> QED
    BY <2>2, <2>3
<1>8. c \o b \in Seq(Node) /\ Len(c \o b) = Len(s) + 1
  <2>1. c \o b \in Seq(Node) /\ Len(c \o b) = Len(c) + Len(b)
    BY <1>6, <1>7
  <2>2. Len(c) + Len(b) = Len(s) + 1
    BY <1>2, <1>6, <1>7
  <2> QED
    BY <2>1, <2>2
<1>9. ASSUME NEW i \in 1 .. Len(s) + 1
      PROVE  (c \o b)[i] = IF i < k THEN s[i] ELSE IF i = k THEN x ELSE s[i - 1]
  <2>1. CASE i <= k
    BY <2>1, <1>2, <1>6, <1>7
  <2>2. CASE i > k
    <3>1. (c \o b)[i] = b[i - k]
      BY <2>2, <1>2, <1>6, <1>7
    <3>2. i - k \in 1 .. Len(s) + 1 - k /\ k + (i - k) - 1 = i - 1
      BY <2>2, <1>2
    <3>3. b[i - k] = s[i - 1]
      BY <3>2, <1>6
    <3> QED
      BY <3>1, <3>3, <2>2, <1>2
  <2>3. i <= k \/ i > k
    BY <1>2
  <2> QED
    BY <2>1, <2>2, <2>3
<1> QED
  BY <1>2, <1>4, <1>8, <1>9

\* removeChild takes n out of its parent's list and leaves the other lists.
LEMMA OutThreads ==
  ASSUME NEW q, PtrSound(q), NEW n \in q.isOwned, NEW p \in Node, NEW s, Threads(q, p, s)
  PROVE  Threads(PatchedOut(q, q.fOwnerNode[n], n), p,
                 IF p = q.fOwnerNode[n] THEN Without(s, n) ELSE s)
<1> USE NilAssumption DEF NodeOrNil
<1>1. PICK u : u = PatchedOut(q, q.fOwnerNode[n], n)
  OBVIOUS
<1>2. /\ \A y \in Node : u.fFirstChild[y] =
            IF q.fFirstChild[y] = n THEN q.nextSibling[n] ELSE q.fFirstChild[y]
      /\ \A y \in Node : u.nextSibling[y] =
            IF y = n THEN Nil
            ELSE IF q.nextSibling[y] = n THEN q.nextSibling[n] ELSE q.nextSibling[y]
  BY <1>1, OutIs
<1>3. /\ u.isOwned = q.isOwned \ {n}
      /\ u.fOwnerNode = [q.fOwnerNode EXCEPT ![n] = Document]
  BY <1>1, OutKeeps
<1>4. q.isOwned \subseteq Node /\ q.fOwnerNode \in [Node -> Node] /\ n \in Node
  BY DEF PtrSound, Ptrs
<1>5. \A y \in Node : y # n => u.fOwnerNode[y] = q.fOwnerNode[y]
  BY <1>3, <1>4
<1>6. /\ s \in Seq(Node)
      /\ \A i, j \in 1 .. Len(s) : s[i] = s[j] => i = j
      /\ q.fFirstChild[p] = IF Len(s) = 0 THEN Nil ELSE s[1]
      /\ \A i \in 1 .. Len(s) :
            /\ s[i] \in q.isOwned /\ q.fOwnerNode[s[i]] = p
            /\ q.nextSibling[s[i]] = IF i = Len(s) THEN Nil ELSE s[i + 1]
      /\ \A x \in q.isOwned : q.fOwnerNode[x] = p => \E i \in 1 .. Len(s) : s[i] = x
  BY DEF Threads
<1>7. \A i \in 1 .. Len(s) : s[i] \in Node
  BY <1>6
<1>8. CASE p # q.fOwnerNode[n]
  <2>1. \A i \in 1 .. Len(s) : s[i] # n
    BY <1>6, <1>8
  <2>2. u.fFirstChild[p] = q.fFirstChild[p]
    <3>1. Len(s) # 0 => 1 \in 1 .. Len(s)
      BY <1>6
    <3> QED
      BY <1>2, <1>4, <1>6, <2>1, <3>1
  <2>3. ASSUME NEW i \in 1 .. Len(s)
        PROVE  /\ s[i] \in u.isOwned /\ u.fOwnerNode[s[i]] = p
               /\ u.nextSibling[s[i]] = q.nextSibling[s[i]]
    <3>1. q.nextSibling[s[i]] # n
      <4>1. i # Len(s) => i + 1 \in 1 .. Len(s)
        BY <1>6
      <4> QED
        BY <1>4, <1>6, <2>1, <4>1
    <3> QED
      BY <1>2, <1>3, <1>5, <1>6, <1>7, <2>1, <3>1
  <2>4. Threads(u, p, s)
    BY <1>3, <1>4, <1>5, <1>6, <1>8, <2>2, <2>3 DEF Threads
  <2> QED
    BY <1>1, <1>8, <2>4
<1>9. CASE p = q.fOwnerNode[n]
  <2>1. PICK k \in 1 .. Len(s) :
            /\ s[k] = n
            /\ Without(s, n) \in Seq(Node) /\ Len(Without(s, n)) = Len(s) - 1
            /\ \A i \in 1 .. Len(s) - 1 : Without(s, n)[i] = IF i < k THEN s[i] ELSE s[i + 1]
    BY <1>6, <1>9, WithoutAt
  <2>2. PICK w : w = Without(s, n)
    OBVIOUS
  <2>3. Len(s) \in Nat /\ w \in Seq(Node) /\ Len(w) = Len(s) - 1
    BY <1>6, <2>1, <2>2
  <2>4. \A i \in 1 .. Len(w) : w[i] = IF i < k THEN s[i] ELSE s[i + 1]
    BY <2>1, <2>2, <2>3
  <2>5. q.nextSibling[n] = IF k = Len(s) THEN Nil ELSE s[k + 1]
    BY <1>6, <2>1
  <2>6. \A i, j \in 1 .. Len(w) : w[i] = w[j] => i = j
    <3> SUFFICES ASSUME NEW i \in 1 .. Len(w), NEW j \in 1 .. Len(w), w[i] = w[j] PROVE i = j
      OBVIOUS
    <3> DEFINE old(m) == IF m < k THEN m ELSE m + 1
    <3>1. old(i) \in 1 .. Len(s) /\ old(j) \in 1 .. Len(s) /\ s[old(i)] = s[old(j)]
      BY <2>3, <2>4
    <3>2. old(i) = old(j)
      BY <3>1, <1>6
    <3> QED
      BY <3>2, <2>3
  <2>7. u.fFirstChild[p] = IF Len(w) = 0 THEN Nil ELSE w[1]
    <3>1. q.fFirstChild[p] = s[1] /\ 1 \in 1 .. Len(s)
      BY <1>6, <2>3
    <3>2. CASE k = 1
      <4>1. u.fFirstChild[p] = q.nextSibling[n]
        BY <1>2, <2>1, <3>1, <3>2
      <4> QED
        BY <4>1, <2>3, <2>4, <2>5, <3>2
    <3>3. CASE k # 1
      <4>1. s[1] # n
        BY <1>6, <2>1, <3>1, <3>3
      <4>2. u.fFirstChild[p] = s[1]
        BY <1>2, <3>1, <4>1
      <4>3. Len(w) # 0 /\ w[1] = s[1]
        BY <2>3, <2>4, <3>3
      <4> QED
        BY <4>2, <4>3
    <3> QED
      BY <3>2, <3>3
  <2>8. ASSUME NEW i \in 1 .. Len(w)
        PROVE  /\ w[i] \in u.isOwned /\ u.fOwnerNode[w[i]] = p
               /\ u.nextSibling[w[i]] = IF i = Len(w) THEN Nil ELSE w[i + 1]
    <3> DEFINE m == IF i < k THEN i ELSE i + 1
    <3>1. m \in 1 .. Len(s) /\ m # k /\ w[i] = s[m]
      BY <2>3, <2>4
    <3> HIDE DEF m
    <3>2. s[m] # n
      BY <3>1, <1>6, <2>1
    <3>3. w[i] \in u.isOwned /\ u.fOwnerNode[w[i]] = p
      BY <1>3, <1>5, <1>6, <1>7, <3>1, <3>2
    <3>4. q.nextSibling[s[m]] = IF m = Len(s) THEN Nil ELSE s[m + 1]
      BY <1>6, <3>1
    <3>5. u.nextSibling[s[m]] = IF q.nextSibling[s[m]] = n THEN q.nextSibling[n] ELSE q.nextSibling[s[m]]
      BY <1>2, <1>7, <3>1, <3>2
    <3>6. CASE m + 1 = k
      <4>1. q.nextSibling[s[m]] = n
        BY <2>1, <2>3, <3>1, <3>4, <3>6
      <4>2. u.nextSibling[w[i]] = IF k = Len(s) THEN Nil ELSE s[k + 1]
        BY <2>5, <3>1, <3>5, <4>1
      <4>3. i + 1 = k
        BY <3>6, <2>3 DEF m
      <4>4. k # Len(s) => i # Len(w) /\ i + 1 \in 1 .. Len(w) /\ w[i + 1] = s[k + 1]
        BY <4>3, <2>3, <2>4
      <4>5. k = Len(s) => i = Len(w)
        BY <4>3, <2>3
      <4> QED
        BY <3>3, <4>2, <4>4, <4>5
    <3>7. CASE m + 1 # k
      <4>1. q.nextSibling[s[m]] # n
        <5>1. m # Len(s) => m + 1 \in 1 .. Len(s)
          BY <3>1, <2>3
        <5>2. m # Len(s) => s[m + 1] # n
          BY <5>1, <1>6, <2>1, <3>7
        <5> QED
          BY <3>4, <5>2, <1>4
      <4>2. u.nextSibling[w[i]] = IF m = Len(s) THEN Nil ELSE s[m + 1]
        BY <3>1, <3>4, <3>5, <4>1
      <4>3. m # Len(s) => i # Len(w) /\ i + 1 \in 1 .. Len(w) /\ w[i + 1] = s[m + 1]
        BY <2>3, <2>4, <3>7 DEF m
      <4>4. m = Len(s) => i = Len(w)
        BY <2>3, <3>7 DEF m
      <4> QED
        BY <3>3, <4>2, <4>3, <4>4
    <3> QED
      BY <3>3, <3>6, <3>7
  <2>9. ASSUME NEW x \in u.isOwned, u.fOwnerNode[x] = p PROVE \E i \in 1 .. Len(w) : w[i] = x
    <3>1. PICK j \in 1 .. Len(s) : s[j] = x
      BY <1>3, <1>4, <1>5, <1>6, <2>9
    <3>2. j # k
      BY <1>3, <2>1, <2>9, <3>1
    <3>3. CASE j < k
      <4>1. j \in 1 .. Len(w) /\ w[j] = x
        BY <2>3, <2>4, <3>1, <3>3
      <4> QED
        BY <4>1
    <3>4. CASE j > k
      <4>1. j - 1 \in 1 .. Len(w) /\ w[j - 1] = x
        BY <2>3, <2>4, <3>1, <3>4
      <4> QED
        BY <4>1
    <3> QED
      BY <3>2, <3>3, <3>4
  <2>10. Threads(u, p, w)
    BY <2>3, <2>6, <2>7, <2>8, <2>9 DEF Threads
  <2> QED
    BY <1>1, <1>9, <2>2, <2>10
<1> QED
  BY <1>8, <1>9

\* insertBefore puts an orphan into one list, in front of r, and leaves the
\* other lists.
LEMMA InThreads ==
  ASSUME NEW q, PtrSound(q), NEW o \in Node, NEW n \in Node, n \notin q.isOwned,
         NEW r \in NodeOrNil,
         r # Nil => r \in q.isOwned /\ q.fOwnerNode[r] = o /\ q.fFirstChild[o] # Nil,
         NEW p \in Node, NEW s, Threads(q, p, s)
  PROVE  Threads(PatchedIn(q, o, n, r), p, IF p = o THEN Before(s, n, r) ELSE s)
<1>1. PICK u : u = PatchedIn(q, o, n, r)
  OBVIOUS
<1>2. /\ \A y \in Node : u.fFirstChild[y] =
            IF y = o /\ q.fFirstChild[o] = r THEN n ELSE q.fFirstChild[y]
      /\ \A y \in Node : u.nextSibling[y] =
            IF y = n THEN r
            ELSE IF y \in q.isOwned /\ q.fOwnerNode[y] = o /\ q.nextSibling[y] = r
                 THEN n ELSE q.nextSibling[y]
      /\ u.isOwned = q.isOwned \cup {n}
      /\ u.fOwnerNode = [q.fOwnerNode EXCEPT ![n] = o]
  <2>1. LET v == PatchedIn(q, o, n, r)
        IN  /\ \A y \in Node : v.fFirstChild[y] =
                 IF y = o /\ q.fFirstChild[o] = r THEN n ELSE q.fFirstChild[y]
            /\ \A y \in Node : v.nextSibling[y] =
                 IF y = n THEN r
                 ELSE IF y \in q.isOwned /\ q.fOwnerNode[y] = o /\ q.nextSibling[y] = r
                      THEN n ELSE q.nextSibling[y]
            /\ v.isOwned = q.isOwned \cup {n}
            /\ v.fOwnerNode = [q.fOwnerNode EXCEPT ![n] = o]
    BY InIs
  <2> QED
    BY <1>1, <2>1
<1> USE NilAssumption DEF NodeOrNil
<1>3. q.isOwned \subseteq Node /\ q.fOwnerNode \in [Node -> Node]
  BY DEF PtrSound, Ptrs
<1>4. u.fOwnerNode[n] = o /\ \A y \in Node : y # n => u.fOwnerNode[y] = q.fOwnerNode[y]
  BY <1>2, <1>3
<1>5. /\ s \in Seq(Node)
      /\ \A i, j \in 1 .. Len(s) : s[i] = s[j] => i = j
      /\ q.fFirstChild[p] = IF Len(s) = 0 THEN Nil ELSE s[1]
      /\ \A i \in 1 .. Len(s) :
            /\ s[i] \in q.isOwned /\ q.fOwnerNode[s[i]] = p
            /\ q.nextSibling[s[i]] = IF i = Len(s) THEN Nil ELSE s[i + 1]
      /\ \A x \in q.isOwned : q.fOwnerNode[x] = p => \E i \in 1 .. Len(s) : s[i] = x
  BY DEF Threads
<1>6. \A i \in 1 .. Len(s) : s[i] \in Node /\ s[i] # n
  BY <1>5
<1>7. CASE p # o
  <2>1. ASSUME NEW i \in 1 .. Len(s)
        PROVE  /\ s[i] \in u.isOwned /\ u.fOwnerNode[s[i]] = p
               /\ u.nextSibling[s[i]] = q.nextSibling[s[i]]
    BY <1>2, <1>4, <1>5, <1>6, <1>7
  <2>2. u.fFirstChild[p] = q.fFirstChild[p]
    BY <1>2, <1>7
  <2>3. \A x \in u.isOwned : u.fOwnerNode[x] = p => \E i \in 1 .. Len(s) : s[i] = x
    BY <1>2, <1>3, <1>4, <1>5, <1>7
  <2>4. Threads(u, p, s)
    BY <1>5, <2>1, <2>2, <2>3 DEF Threads
  <2> QED
    BY <1>1, <1>7, <2>4
<1>8. CASE p = o
  <2>1. r # Nil => \E i \in 1 .. Len(s) : s[i] = r
    BY <1>5, <1>8
  <2>2. PICK k \in 1 .. Len(s) + 1 :
            /\ IF r = Nil THEN k = Len(s) + 1 ELSE k \in 1 .. Len(s) /\ s[k] = r
            /\ Before(s, n, r) \in Seq(Node) /\ Len(Before(s, n, r)) = Len(s) + 1
            /\ \A i \in 1 .. Len(s) + 1 : Before(s, n, r)[i] =
                  IF i < k THEN s[i] ELSE IF i = k THEN n ELSE s[i - 1]
    BY <1>5, <2>1, BeforeAt
  <2>3. PICK w : w = Before(s, n, r)
    OBVIOUS
  <2>4. Len(s) \in Nat /\ w \in Seq(Node) /\ Len(w) = Len(s) + 1
    BY <1>5, <2>2, <2>3
  <2>5. \A i \in 1 .. Len(w) : w[i] = IF i < k THEN s[i] ELSE IF i = k THEN n ELSE s[i - 1]
    BY <2>2, <2>3, <2>4
  <2>6. IF r = Nil THEN k = Len(s) + 1 ELSE k \in 1 .. Len(s) /\ s[k] = r
    BY <2>2
  <2>7. \A i, j \in 1 .. Len(w) : w[i] = w[j] => i = j
    <3> SUFFICES ASSUME NEW i \in 1 .. Len(w), NEW j \in 1 .. Len(w), w[i] = w[j] PROVE i = j
      OBVIOUS
    <3> DEFINE old(m) == IF m < k THEN m ELSE m - 1
    <3>1. CASE i # k /\ j # k
      <4>1. old(i) \in 1 .. Len(s) /\ old(j) \in 1 .. Len(s) /\ s[old(i)] = s[old(j)]
        BY <2>4, <2>5, <3>1
      <4>2. old(i) = old(j)
        BY <4>1, <1>5
      <4> QED
        BY <4>2, <2>4, <3>1
    <3>2. ASSUME NEW m \in 1 .. Len(w), m # k PROVE w[m] # n
      <4>1. old(m) \in 1 .. Len(s) /\ w[m] = s[old(m)]
        BY <2>4, <2>5, <3>2
      <4> QED
        BY <4>1, <1>6
    <3>3. w[k] = n
      BY <2>4, <2>5
    <3> QED
      BY <3>1, <3>2, <3>3
  <2>8. u.fFirstChild[p] = IF Len(w) = 0 THEN Nil ELSE w[1]
    <3>1. Len(w) # 0 /\ w[1] = IF 1 < k THEN s[1] ELSE n
      BY <2>4, <2>5
    <3>2. CASE k = 1
      <4>1. q.fFirstChild[o] = r
        BY <1>5, <1>8, <2>4, <2>6, <3>2
      <4> QED
        BY <1>2, <1>8, <3>1, <3>2, <4>1
    <3>3. CASE k # 1
      <4>1. 1 \in 1 .. Len(s) /\ q.fFirstChild[p] = s[1]
        BY <1>5, <2>4, <3>3
      <4>2. s[1] # r
        BY <1>5, <1>6, <2>4, <2>6, <3>3, <4>1
      <4> QED
        BY <1>2, <1>8, <3>1, <3>3, <4>1, <4>2
    <3> QED
      BY <3>2, <3>3
  <2>9. ASSUME NEW i \in 1 .. Len(w)
        PROVE  /\ w[i] \in u.isOwned /\ u.fOwnerNode[w[i]] = p
               /\ u.nextSibling[w[i]] = IF i = Len(w) THEN Nil ELSE w[i + 1]
    <3>1. CASE i = k
      <4>1. w[i] = n
        BY <2>5, <3>1
      <4>2. u.nextSibling[w[i]] = r
        BY <1>2, <4>1
      <4>3. r = Nil => i = Len(w)
        BY <2>4, <2>6, <3>1
      <4>4. r # Nil => i # Len(w) /\ w[i + 1] = r
        <5>1. r # Nil => i # Len(w) /\ i + 1 \in 1 .. Len(w) /\ w[i + 1] = s[i]
          BY <2>4, <2>5, <2>6, <3>1
        <5> QED
          BY <2>6, <3>1, <5>1
      <4> QED
        BY <1>2, <1>4, <1>8, <4>1, <4>2, <4>3, <4>4
    <3>2. CASE i # k
      <4> DEFINE m == IF i < k THEN i ELSE i - 1
      <4>1. m \in 1 .. Len(s) /\ w[i] = s[m]
        BY <2>4, <2>5, <3>2
      <4> HIDE DEF m
      <4>2. w[i] \in u.isOwned /\ u.fOwnerNode[w[i]] = p
        BY <1>2, <1>4, <1>5, <1>6, <4>1
      <4>3. q.nextSibling[s[m]] = IF m = Len(s) THEN Nil ELSE s[m + 1]
        BY <1>5, <4>1
      <4>4. u.nextSibling[s[m]] = IF q.nextSibling[s[m]] = r THEN n ELSE q.nextSibling[s[m]]
        BY <1>2, <1>5, <1>6, <1>8, <4>1
      <4>5. CASE m + 1 = k
        <5>1. q.nextSibling[s[m]] = r
          BY <2>4, <2>6, <4>1, <4>3, <4>5
        <5>2. i + 1 = k
          BY <3>2, <4>5, <2>4 DEF m
        <5>3. i # Len(w) /\ w[i + 1] = n
          BY <5>2, <2>4, <2>5
        <5> QED
          BY <4>1, <4>2, <4>4, <5>1, <5>3
      <4>6. CASE m + 1 # k
        <5>1. q.nextSibling[s[m]] # r
          <6>1. m # Len(s) => m + 1 \in 1 .. Len(s)
            BY <4>1, <2>4
          <6>2. m = Len(s) => r # Nil
            BY <2>4, <2>6, <4>6
          <6>3. m # Len(s) => s[m + 1] # r
            BY <6>1, <1>5, <1>6, <2>6, <4>6
          <6> QED
            BY <4>3, <6>2, <6>3
        <5>2. m # Len(s) => i # Len(w) /\ i + 1 \in 1 .. Len(w) /\ w[i + 1] = s[m + 1]
          BY <2>4, <2>5, <3>2, <4>6 DEF m
        <5>3. m = Len(s) => i = Len(w)
          BY <2>4, <3>2, <4>6 DEF m
        <5> QED
          BY <4>1, <4>2, <4>3, <4>4, <5>1, <5>2, <5>3
      <4> QED
        BY <4>5, <4>6
    <3> QED
      BY <3>1, <3>2
  <2>10. ASSUME NEW x \in u.isOwned, u.fOwnerNode[x] = p PROVE \E i \in 1 .. Len(w) : w[i] = x
    <3>1. CASE x = n
      <4>1. k \in 1 .. Len(w) /\ w[k] = x
        BY <2>4, <2>5, <3>1
      <4> QED
        BY <4>1
    <3>2. CASE x # n
      <4>1. PICK j \in 1 .. Len(s) : s[j] = x
        BY <1>2, <1>3, <1>4, <1>5, <2>10, <3>2
      <4>2. CASE j < k
        <5>1. j \in 1 .. Len(w) /\ w[j] = x
          BY <2>4, <2>5, <4>1, <4>2
        <5> QED
          BY <5>1
      <4>3. CASE j >= k
        <5>1. j + 1 \in 1 .. Len(w) /\ w[j + 1] = x
          BY <2>4, <2>5, <4>1, <4>3
        <5> QED
          BY <5>1
      <4>4. j < k \/ j >= k
        BY <2>4
      <4> QED
        BY <4>2, <4>3, <4>4
    <3> QED
      BY <3>1, <3>2
  <2>11. Threads(u, p, w)
    BY <2>4, <2>7, <2>8, <2>9, <2>10 DEF Threads
  <2> QED
    BY <1>1, <1>8, <2>3, <2>11
<1> QED
  BY <1>7, <1>8
-----------------------------------------------------------------------------
(* The lists read off the pointers                                          *)

\* A non-empty set of natural numbers has a least element.
LEMMA LeastOf ==
  ASSUME NEW T \in SUBSET Nat, T # {}
  PROVE  \E k \in T : \A j \in T : k <= j
<1> DEFINE R == OpToRel(<, Nat)
<1>1. \A j, k \in Nat : <<j, k>> \in R <=> j < k
  BY DEF OpToRel
<1>2. IsWellFoundedOn(R, Nat)
  BY NatLessThanWellFounded
<1> HIDE DEF R
<1>3. PICK k \in T : \A j \in T : ~(<<j, k>> \in R)
  BY <1>2, WFMin
<1>4. k \in Nat /\ \A j \in T : j \in Nat /\ ~(j < k)
  BY <1>1, <1>3
<1>5. \A j \in T : k <= j
  BY <1>4
<1> QED
  BY <1>5

\* Induction from the last position of a list to the first.
LEMMA Downward ==
  ASSUME NEW n \in Nat, NEW T, n + 1 \in T, \A i \in 1 .. n : i + 1 \in T => i \in T
  PROVE  1 \in T
<1> DEFINE Bad == {j \in 0 .. n : n + 1 - j \notin T}
<1> SUFFICES ASSUME 1 \notin T PROVE FALSE
  OBVIOUS
<1>0. n \in Bad
  <2>1. n \in 0 .. n /\ n + 1 - n = 1
    OBVIOUS
  <2> QED
    BY <2>1
<1>1. PICK k \in Bad : \A j \in Bad : k <= j
  <2>1. Bad \in SUBSET Nat
    OBVIOUS
  <2> QED
    BY <1>0, <2>1, LeastOf
<1>2. k \in 1 .. n /\ k - 1 \in 0 .. n /\ ~(k <= k - 1)
  OBVIOUS
<1>3. n + 1 - (k - 1) \in T
  BY <1>1, <1>2
<1>4. n + 1 - k \in 1 .. n /\ (n + 1 - k) + 1 = n + 1 - (k - 1)
  BY <1>2
<1> QED
  BY <1>3, <1>4

LEMMA TailIs ==
  ASSUME NEW s \in Seq(Node), NEW i \in 1 .. Len(s)
  PROVE  SubSeq(s, i, Len(s)) = <<s[i]>> \o SubSeq(s, i + 1, Len(s))
<1>1. PICK a, b : a = SubSeq(s, i, Len(s)) /\ b = SubSeq(s, i + 1, Len(s))
  OBVIOUS
<1>2. /\ a \in Seq(Node) /\ Len(a) = Len(s) - i + 1
      /\ \A j \in 1 .. Len(s) - i + 1 : a[j] = s[i + j - 1]
  BY <1>1
<1>3. /\ b \in Seq(Node) /\ Len(b) = Len(s) - i
      /\ \A j \in 1 .. Len(s) - i : b[j] = s[i + j]
  BY <1>1
<1>4. PICK c : c = <<s[i]>> \o b
  OBVIOUS
<1>5. /\ c \in Seq(Node) /\ Len(c) = Len(s) - i + 1
      /\ \A j \in 1 .. Len(c) : c[j] = IF j = 1 THEN s[i] ELSE b[j - 1]
  BY <1>3, <1>4
<1>6. ASSUME NEW j \in 1 .. Len(c) PROVE a[j] = c[j]
  <2>1. CASE j = 1
    BY <1>2, <1>5, <2>1
  <2>2. CASE j # 1
    <3>1. j - 1 \in 1 .. Len(s) - i /\ i + (j - 1) = i + j - 1
      BY <1>5, <2>2
    <3>2. c[j] = s[i + j - 1]
      BY <1>3, <1>5, <2>2, <3>1
    <3> QED
      BY <1>2, <1>5, <3>2
  <2> QED
    BY <2>1, <2>2
<1>7. a = c
  BY <1>2, <1>5, <1>6, SeqEqual
<1> QED
  BY <1>1, <1>4, <1>7

\* Kids and Represented of any pointers
KidsOf(q, p) ==
  LET from[x \in NodeOrNil] == IF x = Nil THEN <<>> ELSE <<x>> \o from[q.nextSibling[x]]
  IN  from[q.fFirstChild[p]]

Reading(q) == [parent |-> [x \in Node |-> getParentNode(q, x)],
               kids   |-> [p \in Node |-> KidsOf(q, p)]]

LEMMA RepresentedIs ==
  Represented = Reading(ptr) /\ Represented' = Reading(ptr')
BY DEF Represented, Reading, Kids, KidsOf, getParentNode

\* Following nextSibling from the first child yields the list.
LEMMA KidsAre ==
  ASSUME NEW q, PtrSound(q), NEW f, Represents(q, f), NEW p \in Node
  PROVE  KidsOf(q, p) = f.kids[p]
<1> USE NilAssumption DEF NodeOrNil
<1> DEFINE K(x) == f.kids[q.fOwnerNode[x]]
           At(x) == CHOOSE i \in 1 .. Len(K(x)) : K(x)[i] = x
           Follows(g) == g = [x \in NodeOrNil |->
                                IF x = Nil THEN <<>> ELSE <<x>> \o g[q.nextSibling[x]]]
           first == [x \in NodeOrNil |-> IF x = Nil THEN <<>>
                                         ELSE IF x \in q.isOwned THEN SubSeq(K(x), At(x), Len(K(x)))
                                         ELSE <<x>>]
<1>1. \A c \in Node : Threads(q, c, f.kids[c])
  BY DEF Represents
<1>2. q.isOwned \subseteq Node /\ q.fOwnerNode \in [Node -> Node] /\ q.nextSibling \in [Node -> NodeOrNil]
  BY DEF PtrSound, Ptrs
<1>3. Follows(first)
  <2>1. ASSUME NEW x \in Node
        PROVE  first[x] = <<x>> \o first[q.nextSibling[x]]
    <3>1. CASE x \notin q.isOwned
      <4>1. q.nextSibling[x] = Nil
        BY <3>1 DEF PtrSound, NodeSound, OrphanSound
      <4>2. first[x] = <<x>> /\ first[Nil] = <<>>
        BY <3>1
      <4>3. <<x>> \o <<>> = <<x>>
        OBVIOUS
      <4> QED
        BY <4>1, <4>2, <4>3
    <3>2. CASE x \in q.isOwned
      <4>1. PICK s : s = K(x)
        OBVIOUS
      <4>2. /\ s \in Seq(Node)
            /\ \A i, j \in 1 .. Len(s) : s[i] = s[j] => i = j
            /\ \A i \in 1 .. Len(s) :
                  /\ s[i] \in q.isOwned /\ q.fOwnerNode[s[i]] = q.fOwnerNode[x]
                  /\ q.nextSibling[s[i]] = IF i = Len(s) THEN Nil ELSE s[i + 1]
            /\ \E i \in 1 .. Len(s) : s[i] = x
        <5>1. q.fOwnerNode[x] \in Node /\ Threads(q, q.fOwnerNode[x], s)
          BY <1>1, <1>2, <4>1
        <5> QED
          BY <3>2, <5>1 DEF Threads
      <4>3. PICK i \in 1 .. Len(s) : i = At(x) /\ s[i] = x
        BY <4>1, <4>2
      <4>4. first[x] = SubSeq(s, i, Len(s))
        BY <3>2, <4>1, <4>3
      <4>5. SubSeq(s, i, Len(s)) = <<x>> \o SubSeq(s, i + 1, Len(s))
        BY <4>2, <4>3, TailIs
      <4>6. first[q.nextSibling[x]] = SubSeq(s, i + 1, Len(s))
        <5>1. CASE i = Len(s)
          <6>1. q.nextSibling[x] = Nil /\ first[Nil] = <<>>
            BY <4>2, <4>3, <5>1
          <6>2. SubSeq(s, i + 1, Len(s)) = <<>>
            BY <4>2, <5>1
          <6> QED
            BY <6>1, <6>2
        <5>2. CASE i # Len(s)
          <6>1. PICK y : y = q.nextSibling[x]
            OBVIOUS
          <6>2. i + 1 \in 1 .. Len(s) /\ y = s[i + 1] /\ y \in q.isOwned /\ K(y) = s
            <7>1. i + 1 \in 1 .. Len(s)
              BY <4>2, <5>2
            <7>2. y = s[i + 1]
              BY <4>2, <4>3, <5>2, <6>1
            <7>3. y \in q.isOwned /\ q.fOwnerNode[y] = q.fOwnerNode[x]
              BY <4>2, <7>1, <7>2
            <7> QED
              BY <4>1, <7>1, <7>2, <7>3
          <6>3. At(y) = i + 1
            BY <4>2, <6>2
          <6>4. y \in Node /\ y # Nil
            BY <1>2, <6>2
          <6>5. first[y] = SubSeq(s, i + 1, Len(s))
            BY <6>2, <6>3, <6>4
          <6> QED
            BY <6>1, <6>5
        <5> QED
          BY <5>1, <5>2
      <4> QED
        BY <4>4, <4>5, <4>6
    <3> QED
      BY <3>1, <3>2
  <2>2. first[Nil] = <<>>
    OBVIOUS
  <2>3. first = [x \in NodeOrNil |-> first[x]]
    OBVIOUS
  <2> HIDE DEF first
  <2> QED
    BY <2>1, <2>2, <2>3
<1> HIDE DEF first
<1>4. PICK from : from = CHOOSE g : Follows(g)
  OBVIOUS
<1>5. Follows(from)
  BY <1>3, <1>4
<1>6. KidsOf(q, p) = from[q.fFirstChild[p]]
  BY <1>4 DEF KidsOf
<1>7. from[Nil] = <<>> /\ \A x \in Node : from[x] = <<x>> \o from[q.nextSibling[x]]
  BY <1>5
<1>8. PICK s : s = f.kids[p]
  OBVIOUS
<1>9. /\ s \in Seq(Node) /\ Len(s) \in Nat
      /\ q.fFirstChild[p] = IF Len(s) = 0 THEN Nil ELSE s[1]
      /\ \A i \in 1 .. Len(s) : q.nextSibling[s[i]] = IF i = Len(s) THEN Nil ELSE s[i + 1]
  BY <1>1, <1>8 DEF Threads
<1> DEFINE Here(i) == IF i = Len(s) + 1 THEN Nil ELSE s[i]
           T == {i \in 1 .. Len(s) + 1 : from[Here(i)] = SubSeq(s, i, Len(s))}
<1>10. Len(s) + 1 \in T
  <2>1. SubSeq(s, Len(s) + 1, Len(s)) = <<>>
    BY <1>9
  <2>2. Len(s) + 1 \in 1 .. Len(s) + 1
    BY <1>9
  <2> QED
    BY <1>7, <2>1, <2>2
<1>11. ASSUME NEW i \in 1 .. Len(s), i + 1 \in T PROVE i \in T
  <2>1. Here(i) = s[i] /\ s[i] \in Node /\ q.nextSibling[s[i]] = Here(i + 1) /\ i \in 1 .. Len(s) + 1
    BY <1>9
  <2>2. from[s[i]] = <<s[i]>> \o SubSeq(s, i + 1, Len(s))
    BY <1>7, <1>11, <2>1
  <2>3. SubSeq(s, i, Len(s)) = <<s[i]>> \o SubSeq(s, i + 1, Len(s))
    BY <1>9, TailIs
  <2> QED
    BY <2>1, <2>2, <2>3
<1>12. 1 \in T
  <2> HIDE DEF T
  <2> QED
    BY <1>9, <1>10, <1>11, Downward
<1>13. from[Here(1)] = SubSeq(s, 1, Len(s)) /\ Here(1) = q.fFirstChild[p]
  BY <1>9, <1>12
<1>14. SubSeq(s, 1, Len(s)) = s
  BY <1>9
<1> QED
  BY <1>6, <1>8, <1>13, <1>14

\* What the pointers represent is what is read off them.
LEMMA ReadingIs ==
  ASSUME NEW q, PtrSound(q), NEW f, Represents(q, f)
  PROVE  Reading(q) = f
<1>1. f \in Forests /\ \A x \in Node : f.parent[x] = getParentNode(q, x)
  BY DEF Represents
<1>2. \A p \in Node : f.kids[p] = KidsOf(q, p)
  BY KidsAre
<1>3. f.parent = [x \in Node |-> getParentNode(q, x)] /\ f.kids = [p \in Node |-> KidsOf(q, p)]
  BY <1>1, <1>2 DEF Forests
<1>4. f = [parent |-> f.parent, kids |-> f.kids]
  BY <1>1 DEF Forests
<1> QED
  BY <1>3, <1>4 DEF Reading

LEMMA OutRepresents ==
  ASSUME NEW q, PtrSound(q), NEW f, Represents(q, f), NEW n \in q.isOwned
  PROVE  Represents(PatchedOut(q, q.fOwnerNode[n], n), Unlink(f, n))
<1> USE NilAssumption DEF NodeOrNil
<1>1. PICK o, u, g : o = q.fOwnerNode[n] /\ u = PatchedOut(q, o, n) /\ g = Unlink(f, n)
  OBVIOUS
<1>2. /\ f \in Forests /\ \A x \in Node : f.parent[x] = getParentNode(q, x)
      /\ \A p \in Node : Threads(q, p, f.kids[p])
  BY DEF Represents
<1>3. n \in Node /\ o \in Node /\ f.parent[n] = o
  BY <1>1, <1>2 DEF PtrSound, Ptrs, getParentNode
<1>4. u.isOwned = q.isOwned \ {n} /\ u.fOwnerNode = [q.fOwnerNode EXCEPT ![n] = Document]
  BY <1>1, OutKeeps
<1>5. Threads(q, o, f.kids[o]) /\ Without(f.kids[o], n) \in Seq(Node)
  <2>1. Threads(q, o, f.kids[o])
    BY <1>2, <1>3
  <2>2. f.kids[o] \in Seq(Node) /\ \E i \in 1 .. Len(f.kids[o]) : f.kids[o][i] = n
    BY <1>1, <2>1 DEF Threads
  <2> QED
    BY <2>1, <2>2, WithoutAt
<1>6. /\ g \in Forests
      /\ g.parent = [f.parent EXCEPT ![n] = Nil]
      /\ g.kids = [f.kids EXCEPT ![o] = Without(f.kids[o], n)]
  BY <1>1, <1>2, <1>3, <1>5 DEF Unlink, Forests
<1>7. ASSUME NEW x \in Node PROVE g.parent[x] = getParentNode(u, x)
  BY <1>2, <1>3, <1>4, <1>6, <1>7 DEF getParentNode, Forests, PtrSound, Ptrs
<1>8. ASSUME NEW p \in Node PROVE Threads(u, p, g.kids[p])
  <2>1. g.kids[p] = IF p = o THEN Without(f.kids[p], n) ELSE f.kids[p]
    BY <1>2, <1>6, <1>8 DEF Forests
  <2>2. PICK s : s = f.kids[p]
    OBVIOUS
  <2>3. Threads(q, p, s)
    BY <1>2, <1>8, <2>2
  <2>4. Threads(PatchedOut(q, q.fOwnerNode[n], n), p,
                IF p = q.fOwnerNode[n] THEN Without(s, n) ELSE s)
    BY <1>8, <2>3, OutThreads
  <2> QED
    BY <1>1, <2>1, <2>2, <2>4
<1> QED
  BY <1>1, <1>6, <1>7, <1>8 DEF Represents

LEMMA InRepresents ==
  ASSUME NEW q, PtrSound(q), NEW f, Represents(q, f),
         NEW o \in Node, NEW n \in Node, n \notin q.isOwned,
         NEW r \in NodeOrNil, r # Nil => r \in q.isOwned /\ q.fOwnerNode[r] = o
  PROVE  Represents(PatchedIn(q, o, n, r), Link(f, o, n, r))
<1>1. PICK u, g : u = PatchedIn(q, o, n, r) /\ g = Link(f, o, n, r)
  OBVIOUS
<1>2. /\ f \in Forests /\ \A x \in Node : f.parent[x] = getParentNode(q, x)
      /\ \A p \in Node : Threads(q, p, f.kids[p])
  BY DEF Represents
<1>3. r # Nil => /\ r \in q.isOwned /\ q.fOwnerNode[r] = o /\ q.fFirstChild[o] # Nil
                 /\ \E i \in 1 .. Len(f.kids[o]) : f.kids[o][i] = r
  <2> SUFFICES ASSUME r # Nil
               PROVE  /\ q.fFirstChild[o] # Nil
                      /\ \E i \in 1 .. Len(f.kids[o]) : f.kids[o][i] = r
    OBVIOUS
  <2>1. PICK s : s = f.kids[o]
    OBVIOUS
  <2>2. /\ s \in Seq(Node) /\ q.fFirstChild[o] = IF Len(s) = 0 THEN Nil ELSE s[1]
        /\ \E i \in 1 .. Len(s) : s[i] = r
    BY <1>2, <2>1 DEF Threads
  <2>3. Len(s) # 0 /\ 1 \in 1 .. Len(s)
    BY <2>2
  <2> QED
    BY <2>1, <2>2, <2>3, NilAssumption
<1>4. /\ u.isOwned = q.isOwned \cup {n}
      /\ u.fOwnerNode = [q.fOwnerNode EXCEPT ![n] = o]
  <2>1. LET v == PatchedIn(q, o, n, r)
        IN  /\ \A y \in Node : v.fFirstChild[y] =
                 IF y = o /\ q.fFirstChild[o] = r THEN n ELSE q.fFirstChild[y]
            /\ \A y \in Node : v.nextSibling[y] =
                 IF y = n THEN r
                 ELSE IF y \in q.isOwned /\ q.fOwnerNode[y] = o /\ q.nextSibling[y] = r
                      THEN n ELSE q.nextSibling[y]
            /\ v.isOwned = q.isOwned \cup {n}
            /\ v.fOwnerNode = [q.fOwnerNode EXCEPT ![n] = o]
    BY <1>3, InIs
  <2> QED
    BY <1>1, <2>1
<1>5. ASSUME NEW p \in Node
      PROVE  Threads(u, p, IF p = o THEN Before(f.kids[p], n, r) ELSE f.kids[p])
  <2>1. PICK s : s = f.kids[p]
    OBVIOUS
  <2>2. Threads(q, p, s)
    BY <1>2, <2>1
  <2>3. Threads(PatchedIn(q, o, n, r), p, IF p = o THEN Before(s, n, r) ELSE s)
    BY <1>3, <2>2, InThreads
  <2> QED
    BY <1>1, <2>1, <2>3
<1> USE NilAssumption DEF NodeOrNil
<1>6. Before(f.kids[o], n, r) \in Seq(Node)
  BY <1>5 DEF Threads
<1>7. /\ g \in Forests
      /\ g.parent = [f.parent EXCEPT ![n] = o]
      /\ g.kids = [f.kids EXCEPT ![o] = Before(f.kids[o], n, r)]
  BY <1>1, <1>2, <1>6 DEF Link, Forests
<1>8. ASSUME NEW x \in Node PROVE g.parent[x] = getParentNode(u, x)
  BY <1>2, <1>4, <1>7, <1>8 DEF getParentNode, Forests, PtrSound, Ptrs
<1>9. ASSUME NEW p \in Node PROVE Threads(u, p, g.kids[p])
  <2>1. g.kids[p] = IF p = o THEN Before(f.kids[p], n, r) ELSE f.kids[p]
    BY <1>2, <1>7, <1>9 DEF Forests
  <2> QED
    BY <1>5, <2>1
<1> QED
  BY <1>1, <1>7, <1>8, <1>9 DEF Represents

\* Path(f, p) has the recursive equation it is defined by, in every forest: the
\* nodes above a node (Ancestors) satisfy it, cycles or not.
LEMMA PathStep ==
  ASSUME NEW f, f.parent \in [Node -> NodeOrNil], NEW p \in Node
  PROVE  Path(f, p) = {p} \cup Path(f, f.parent[p])
<1> USE NilAssumption DEF NodeOrNil
<1> DEFINE Climbs(g) == g = [y \in NodeOrNil |-> IF y = Nil THEN {} ELSE {y} \cup g[f.parent[y]]]
           above == [y \in NodeOrNil |-> IF y = Nil THEN {} ELSE {y} \cup Ancestors(f, y)]
<1>1. ASSUME NEW y \in Node, f.parent[y] = Nil PROVE Ancestors(f, y) = {}
  <2>1. /\ {Nil} \in SUBSET NodeOrNil /\ f.parent[y] \in {Nil}
        /\ \A x \in {Nil} \ {Nil} : f.parent[x] \in {Nil}
    BY <1>1
  <2>2. \A a \in Ancestors(f, y) : a \in Node /\ a \in {Nil}
    BY <2>1 DEF Ancestors
  <2> QED
    BY <2>2
<1>2. ASSUME NEW y \in Node, NEW x \in Node, f.parent[y] = x
      PROVE  Ancestors(f, y) = {x} \cup Ancestors(f, x)
  <2>1. ASSUME NEW a \in Ancestors(f, y), a # x PROVE a \in Ancestors(f, x)
    <3> SUFFICES ASSUME NEW C \in SUBSET NodeOrNil, f.parent[x] \in C,
                        \A z \in C \ {Nil} : f.parent[z] \in C
                 PROVE  a \in C
      BY <2>1 DEF Ancestors
    <3>1. /\ C \cup {x} \in SUBSET NodeOrNil /\ f.parent[y] \in C \cup {x}
          /\ \A z \in (C \cup {x}) \ {Nil} : f.parent[z] \in C \cup {x}
      BY <1>2
    <3>2. a \in C \cup {x}
      BY <2>1, <3>1 DEF Ancestors
    <3> QED
      BY <2>1, <3>2
  <2>2. ASSUME NEW a \in {x} \cup Ancestors(f, x) PROVE a \in Ancestors(f, y)
    <3> SUFFICES ASSUME NEW C \in SUBSET NodeOrNil, f.parent[y] \in C,
                        \A z \in C \ {Nil} : f.parent[z] \in C
                 PROVE  a \in C
      BY <2>2 DEF Ancestors
    <3>1. x \in C /\ f.parent[x] \in C
      BY <1>2
    <3> QED
      BY <2>2, <3>1 DEF Ancestors
  <2> QED
    BY <2>1, <2>2
<1>3. Climbs(above)
  <2>1. ASSUME NEW y \in Node PROVE above[y] = {y} \cup above[f.parent[y]]
    <3>1. CASE f.parent[y] = Nil
      BY <1>1, <3>1
    <3>2. CASE f.parent[y] # Nil
      <4>1. f.parent[y] \in Node
        BY <3>2
      <4>2. Ancestors(f, y) = {f.parent[y]} \cup Ancestors(f, f.parent[y])
        BY <1>2, <4>1
      <4> QED
        BY <4>1, <4>2
    <3> QED
      BY <3>1, <3>2
  <2>2. above[Nil] = {} /\ above = [y \in NodeOrNil |-> above[y]]
    OBVIOUS
  <2> HIDE DEF above
  <2> QED
    BY <2>1, <2>2
<1> HIDE DEF above
<1>4. PICK up : up = CHOOSE g : Climbs(g)
  OBVIOUS
<1>5. Climbs(up)
  BY <1>3, <1>4
<1>6. Path(f, p) = up[p] /\ Path(f, f.parent[p]) = up[f.parent[p]]
  BY <1>4 DEF Path
<1>7. up[p] = {p} \cup up[f.parent[p]]
  BY <1>5
<1> QED
  BY <1>6, <1>7

\* The nodes insertBefore's loop meets are the nodes above p.
LEMMA AncestorsAre ==
  ASSUME NEW q, NEW f, Represents(q, f), NEW p \in Node
  PROVE  AncestorsOf(q, p) = Path(f, f.parent[p])
<1>1. \A x \in Node : f.parent[x] = getParentNode(q, x)
  BY DEF Represents
<1> DEFINE Climbs(g) == g = [x \in NodeOrNil |->
                               IF x = Nil THEN {} ELSE {x} \cup g[getParentNode(q, x)]]
           Rises(g)  == g = [x \in NodeOrNil |-> IF x = Nil THEN {} ELSE {x} \cup g[f.parent[x]]]
<1>2. \A g : Climbs(g) <=> Rises(g)
  <2> TAKE g
  <2>1. [x \in NodeOrNil |-> IF x = Nil THEN {} ELSE {x} \cup g[getParentNode(q, x)]]
          = [x \in NodeOrNil |-> IF x = Nil THEN {} ELSE {x} \cup g[f.parent[x]]]
    BY <1>1 DEF NodeOrNil
  <2> QED
    BY <2>1
<1>3. (CHOOSE g : Climbs(g)) = (CHOOSE g : Rises(g))
  <2> HIDE DEF Climbs, Rises
  <2> QED
    BY <1>2
<1>4. AncestorsOf(q, p) = (CHOOSE g : Climbs(g))[getParentNode(q, p)]
  BY DEF AncestorsOf
<1>5. Path(f, f.parent[p]) = (CHOOSE g : Rises(g))[f.parent[p]]
  BY DEF Path
<1> QED
  BY <1>1, <1>3, <1>4, <1>5
-----------------------------------------------------------------------------
(* Every call is an insertion, a removal or nothing at all in the lists.    *)

LEMMA ListInvInit == PointerInit => ListInv /\ Lists!ChildListsInit
<1> SUFFICES ASSUME PointerInit PROVE ListInv /\ Lists!ChildListsInit
  OBVIOUS
<1> USE NilAssumption DEF NodeOrNil
<1>1. PICK f : f = [parent |-> [x \in Node |-> Nil], kids |-> [x \in Node |-> <<>>]]
  OBVIOUS
<1>2. ptr = NoPointers /\ PtrInv
  BY PtrInvInit DEF PointerInit
<1>3. Represents(ptr, f)
  <2>1. f \in Forests
    BY <1>1 DEF Forests
  <2>2. \A x \in Node : f.parent[x] = getParentNode(ptr, x)
    BY <1>1, <1>2 DEF NoPointers, getParentNode
  <2>3. ASSUME NEW p \in Node PROVE Threads(ptr, p, f.kids[p])
    <3>1. f.kids[p] = <<>> /\ ptr.fFirstChild[p] = Nil /\ ptr.isOwned = {}
      BY <1>1, <1>2 DEF NoPointers
    <3>2. Threads(ptr, p, <<>>)
      BY <3>1 DEF Threads
    <3> QED
      BY <3>1, <3>2
  <2> QED
    BY <2>1, <2>2, <2>3 DEF Represents
<1>4. Represented = f
  <2>1. PtrSound(ptr)
    BY <1>2 DEF PtrInv
  <2> QED
    BY <1>3, <2>1, ReadingIs, RepresentedIs
<1> QED
  BY <1>1, <1>2, <1>3, <1>4 DEF ListInv, Lists!ChildListsInit

\* The edits of ChildLists are those of DOMForest.
LEMMA SameEdits ==
  ASSUME NEW f, NEW n, NEW p, NEW r
  PROVE  /\ Lists!Unlink(f, n) = Unlink(f, n)
         /\ Lists!Link(f, p, n, r) = Link(f, p, n, r)
         /\ Lists!Path(f, p) = Path(f, p)
         /\ Lists!NodeOrNil = NodeOrNil
BY DEF Lists!Unlink, Unlink, Lists!Without, Without, Lists!IndexOf, IndexOf,
       Lists!Link, Link, Lists!Before, Before, Lists!Path, Path,
       Lists!NodeOrNil, NodeOrNil

LEMMA ListInvStep ==
  ASSUME ~ CloneFirst, ListInv, [PointerNext]_pvars
  PROVE  ListInv' /\ [Lists!ChildListsNext]_Represented
<1>1. PtrInv /\ PtrInv'
  BY PtrInvStep DEF ListInv
<1>2. PtrSound(ptr) /\ PtrSound(ptr')
  BY <1>1 DEF PtrInv, PtrSound, NodeSound, HeadSound, FlagSound, PreviousSound, NextSound, OrphanSound
<1>3. PICK f : Represents(ptr, f)
  BY DEF ListInv
<1>4. Represented = f
  BY <1>2, <1>3, ReadingIs, RepresentedIs
<1>5. ASSUME NEW g, Represents(ptr', g) PROVE ListInv' /\ Represented' = g
  <2>1. Represented' = g
    BY <1>2, <1>5, ReadingIs, RepresentedIs
  <2>2. (\E h : Represents(ptr, h))'
    BY <1>5 DEF Represents, Threads, getParentNode
  <2> QED
    BY <1>1, <2>1, <2>2 DEF ListInv
<1>6. /\ f \in Forests /\ \A x \in Node : f.parent[x] = getParentNode(ptr, x)
      /\ ptr.isOwned \subseteq Node /\ ptr.fOwnerNode \in [Node -> Node]
  BY <1>2, <1>3 DEF Represents, PtrSound, Ptrs
<1>7. \A x \in Node : /\ f.parent[x] # Nil => x \in ptr.isOwned /\ ptr.fOwnerNode[x] = f.parent[x]
                      /\ f.parent[x] = Nil => x \notin ptr.isOwned
  BY <1>6, NilAssumption DEF getParentNode
<1>8. ASSUME NEW n \in Node, RemoveChild(n)
      PROVE  ListInv' /\ [Lists!ChildListsNext]_Represented
  <2>1. f.parent[n] # Nil /\ n \in ptr.isOwned /\ ptr' = PatchedOut(ptr, ptr.fOwnerNode[n], n)
    BY <1>6, <1>7, <1>8 DEF RemoveChild
  <2>2. Represents(ptr', Unlink(f, n))
    BY <1>2, <1>3, <2>1, OutRepresents
  <2>3. ListInv' /\ Represented' = Unlink(f, n)
    BY <1>5, <2>2
  <2>4. Lists!Remove(n)
    BY <1>4, <2>1, <2>3, SameEdits DEF Lists!Remove
  <2> QED
    BY <2>3, <2>4 DEF Lists!ChildListsNext
\* an insertion, once the nodes' pointers are what it patches in
<1>9. ASSUME NEW p \in Node, NEW n \in Node, NEW r \in NodeOrNil,
             n # r, n # p, n \notin AncestorsOf(ptr, p), r # Nil => f.parent[r] = p,
             NEW g, g = IF f.parent[n] = Nil THEN f ELSE Unlink(f, n),
             Represents(ptr', Link(g, p, n, r))
      PROVE  ListInv' /\ [Lists!ChildListsNext]_Represented
  <2>1. ListInv' /\ Represented' = Link(g, p, n, r)
    BY <1>5, <1>9
  <2>2. n \notin Path(f, p)
    <3>1. Path(f, p) = {p} \cup Path(f, f.parent[p])
      BY <1>6, PathStep DEF Forests
    <3>2. AncestorsOf(ptr, p) = Path(f, f.parent[p])
      BY <1>3, AncestorsAre
    <3> QED
      BY <1>9, <3>1, <3>2
  <2>3. Lists!Insert(p, n, r)
    BY <1>4, <1>9, <2>1, <2>2, SameEdits DEF Lists!Insert
  <2>4. Lists!ChildListsNext
    BY <2>3, SameEdits DEF Lists!ChildListsNext
  <2> QED
    BY <2>1, <2>4
<1>10. ASSUME NEW p \in Node, NEW n \in Node, AppendChildFast(p, n)
       PROVE  ListInv' /\ [Lists!ChildListsNext]_Represented
  <2>1. /\ f.parent[n] = Nil /\ n \notin ptr.isOwned
        /\ n # p /\ n \notin AncestorsOf(ptr, p) /\ ptr' = PatchedIn(ptr, p, n, Nil)
    BY <1>6, <1>7, <1>10 DEF AppendChildFast, PatchedIn
  <2>2. Represents(ptr', Link(f, p, n, Nil))
    BY <1>2, <1>3, <2>1, InRepresents DEF NodeOrNil
  <2>3. Nil \in NodeOrNil /\ n # Nil /\ f = IF f.parent[n] = Nil THEN f ELSE Unlink(f, n)
    BY <2>1, NilAssumption DEF NodeOrNil
  <2> QED
    BY <1>9, <2>1, <2>2, <2>3
<1>11. ASSUME NEW p \in Node, NEW n \in Node, NEW r \in NodeOrNil, InsertBefore(p, n, r)
       PROVE  ListInv' /\ [Lists!ChildListsNext]_Represented
  <2>1. PICK q, g : /\ q = IF getParentNode(ptr, n) = Nil THEN ptr
                           ELSE PatchedOut(ptr, getParentNode(ptr, n), n)
                    /\ g = IF f.parent[n] = Nil THEN f ELSE Unlink(f, n)
    OBVIOUS
  <2>2. /\ n # r /\ n # p /\ n \notin AncestorsOf(ptr, p)
        /\ r # Nil => getParentNode(ptr, r) = p
        /\ ptr' = PatchedIn(q, p, n, r)
    BY <1>11, <2>1 DEF InsertBefore
  <2>3. r # Nil => f.parent[r] = p /\ r \in ptr.isOwned /\ ptr.fOwnerNode[r] = p
    BY <1>6, <1>7, <2>2, NilAssumption DEF NodeOrNil
  <2>4. /\ PtrSound(q) /\ Represents(q, g) /\ n \notin q.isOwned
        /\ r # Nil => r \in q.isOwned /\ q.fOwnerNode[r] = p
    <3>1. CASE f.parent[n] = Nil
      BY <1>2, <1>3, <1>6, <1>7, <2>1, <2>3, <3>1
    <3>2. CASE f.parent[n] # Nil
      <4>1. n \in ptr.isOwned /\ q = PatchedOut(ptr, ptr.fOwnerNode[n], n) /\ g = Unlink(f, n)
        BY <1>6, <1>7, <2>1, <3>2
      <4>2. /\ PtrSound(q) /\ q.isOwned = ptr.isOwned \ {n}
            /\ q.fOwnerNode = [ptr.fOwnerNode EXCEPT ![n] = Document]
        BY <1>2, <4>1, OutKeeps
      <4>3. Represents(q, g)
        BY <1>2, <1>3, <4>1, OutRepresents
      <4> QED
        BY <1>6, <2>2, <2>3, <4>2, <4>3
    <3> QED
      BY <3>1, <3>2
  <2>5. Represents(ptr', Link(g, p, n, r))
    BY <2>2, <2>4, InRepresents
  <2> QED
    BY <1>9, <2>1, <2>2, <2>3, <2>5
<1>12. ASSUME NEW x \in Node, NEW c \in Node, CloneNode(x, c)
       PROVE  ListInv' /\ [Lists!ChildListsNext]_Represented
  <2>1. c \notin ptr.isOwned /\ ptr' = CloneFlags(x, c)
    BY <1>1, <1>12 DEF PtrInv, CloneNode
  <2>2. /\ ptr'.fFirstChild = ptr.fFirstChild /\ ptr'.nextSibling = ptr.nextSibling
        /\ ptr'.isOwned = ptr.isOwned /\ ptr'.fOwnerNode = [ptr.fOwnerNode EXCEPT ![c] = Document]
    BY <1>2, <2>1 DEF CloneFlags, PtrSound, Ptrs
  <2>3. \A y \in ptr.isOwned : ptr'.fOwnerNode[y] = ptr.fOwnerNode[y]
    BY <1>6, <2>1, <2>2
  <2>4. \A y \in Node : getParentNode(ptr', y) = getParentNode(ptr, y)
    BY <2>2, <2>3 DEF getParentNode
  <2>5. ASSUME NEW p \in Node PROVE Threads(ptr', p, f.kids[p])
    <3>1. Threads(ptr, p, f.kids[p])
      BY <1>3, <2>5 DEF Represents
    <3> QED
      BY <2>2, <2>3, <3>1 DEF Threads
  <2>6. Represents(ptr', f)
    BY <1>6, <2>4, <2>5 DEF Represents
  <2> QED
    BY <1>4, <1>5, <2>6
<1>13. CASE UNCHANGED pvars
  <2>1. ptr' = ptr
    BY <1>13 DEF pvars
  <2> QED
    BY <1>3, <1>4, <1>5, <2>1
<1> QED
  BY <1>8, <1>10, <1>11, <1>12, <1>13 DEF PointerNext

\* The ring of siblings with its flags stands for lists of children that change
\* by whole insertions and removals only, for every document and every sequence
\* of calls of insertBefore, removeChild, appendChildFast and cloneNode: each
\* patch of the pointers is the edit of one list, in its place, or of two when
\* the child is taken from its old parent.
THEOREM PointersImplementLists ==
  ASSUME ~ CloneFirst PROVE PointerSpec => ImplementsChildLists
<1>1. PointerInit => ListInv /\ Lists!ChildListsInit
  BY ListInvInit
<1>2. ListInv /\ [PointerNext]_pvars => ListInv' /\ [Lists!ChildListsNext]_Represented
  BY ListInvStep
<1> QED
  BY <1>1, <1>2, PTL DEF PointerSpec, ImplementsChildLists, Lists!ChildListsSpec
=============================================================================
