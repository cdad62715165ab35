--------------------- MODULE SynchronizedStringPoolProofs ---------------------
(***************************************************************************)
(* Proofs about SynchronizedStringPool for any threads, any strings, any   *)
(* const pool and any initial capacity of the id map, as long as nobody    *)
(* adds to the const pool (RawNext): what the mutex and the tables keep,   *)
(* and what the threads are told, with addOrFind giving ids the way        *)
(* StringIds promises.                                                     *)
(***************************************************************************)
EXTENDS SynchronizedStringPool, TLAPS

\* A call that is about a string has one.
StringGiven == \A t \in Thread : call[t].op \in StringOps => call[t].str \in String

\* A thread that adds a string has not got it in the table before it stores
\* it, and there is room for the new entry when it does.
AdderSound ==
  \A t \in Thread :
    LET c == call[t]
    IN  /\ c.at \in {"grow", "store", "bump"} => c.op = "addOrFind"
        /\ c.at \in {"grow", "store"} => own.fHashTable[c.str] = 0
        /\ c.at \in {"store", "bump"} => own.fCurId < own.fMapCapacity
        /\ c.at = "grow" => own.fCurId = own.fMapCapacity
        /\ c.at = "bump" => /\ own.fHashTable[c.str] = own.fCurId
                            /\ own.fIdMap[own.fCurId] = c.str

\* The inductive invariant.
PoolInv ==
  /\ StringPoolTypeOK /\ own.fMapCapacity > 1
  /\ MutexHeld /\ TablesAgree
  /\ StringGiven /\ AdderSound
-----------------------------------------------------------------------------
LEMMA InitInv == Init => PoolInv
<1> SUFFICES ASSUME Init PROVE PoolInv
  OBVIOUS
<1> USE StringPoolAssumption
<1>1. StringPoolTypeOK
  BY DEF Init, StringPoolTypeOK, Calls, Ops, Places, StringOrNull
<1>2. own.fMapCapacity > 1 /\ TablesAgree
  BY DEF Init, TablesAgree
<1>3. MutexHeld
  BY DEF Init, MutexHeld, Locked
<1>4. StringGiven /\ AdderSound
  BY DEF Init, StringGiven, AdderSound, StringOps
<1> QED
  BY <1>1, <1>2, <1>3, <1>4 DEF PoolInv

\* A step outside the mutex only moves the call of one thread.
LEMMA OutsideStep ==
  ASSUME PoolInv, NEW t \in Thread, NEW c \in Calls,
         call' = [call EXCEPT ![t] = c], UNCHANGED <<const, own, mutex>>,
         call[t].at \notin Locked, c.at \notin Locked,
         c.op \in StringOps => c.str \in String
  PROVE  PoolInv'
<1>1. call \in [Thread -> Calls]
  BY DEF PoolInv, StringPoolTypeOK
<1>2. StringPoolTypeOK'
  BY DEF PoolInv, StringPoolTypeOK
<1>3. MutexHeld'
  BY <1>1 DEF PoolInv, MutexHeld
<1>4. StringGiven'
  BY <1>1 DEF PoolInv, StringGiven
<1>5. AdderSound'
  BY <1>1 DEF PoolInv, AdderSound, Locked
<1>6. TablesAgree' /\ (own.fMapCapacity > 1)'
  BY DEF PoolInv, TablesAgree
<1> QED
  BY <1>2, <1>3, <1>4, <1>5, <1>6 DEF PoolInv

\* Inside, a thread moves on to a place inside and leaves the others' calls.
LEMMA InsideCalls ==
  ASSUME PoolInv, NEW t \in Thread, NEW c \in Calls,
         call' = [call EXCEPT ![t] = c], UNCHANGED mutex,
         call[t].at \in Locked, c.at \in Locked,
         c.op = call[t].op, c.str = call[t].str
  PROVE  /\ call' \in [Thread -> Calls]
         /\ MutexHeld' /\ StringGiven'
         /\ \A s \in Thread : s # t => call'[s] = call[s] /\ call[s].at \notin Locked
         /\ call'[t] = c
<1>1. call \in [Thread -> Calls]
  BY DEF PoolInv, StringPoolTypeOK
<1>2. mutex = t /\ \A s \in Thread : s # t => call[s].at \notin Locked
  BY DEF PoolInv, MutexHeld
<1>3. call'[t] = c /\ \A s \in Thread : s # t => call'[s] = call[s]
  BY <1>1
<1>4. MutexHeld'
  BY <1>1, <1>2, <1>3 DEF MutexHeld
<1>5. StringGiven'
  BY <1>1, <1>3 DEF PoolInv, StringGiven
<1> QED
  BY <1>1, <1>2, <1>3, <1>4, <1>5

\* A step inside that leaves the table alone and only has an answer.
LEMMA AnswerStep ==
  ASSUME PoolInv, NEW t \in Thread, NEW c \in Calls,
         call' = [call EXCEPT ![t] = c], UNCHANGED <<const, own, mutex>>,
         call[t].at \in Locked, c.at = "unlock",
         c.op = call[t].op, c.str = call[t].str
  PROVE  PoolInv'
<1>1. c.at \in Locked
  BY DEF Locked
<1>2. /\ call' \in [Thread -> Calls]
      /\ MutexHeld' /\ StringGiven'
      /\ \A s \in Thread : s # t => call'[s] = call[s] /\ call[s].at \notin Locked
      /\ call'[t] = c
  BY <1>1, InsideCalls
<1>3. StringPoolTypeOK' /\ TablesAgree' /\ (own.fMapCapacity > 1)'
  BY <1>2 DEF PoolInv, StringPoolTypeOK, TablesAgree
<1>4. AdderSound'
  BY <1>2 DEF AdderSound, PoolInv
<1> QED
  BY <1>2, <1>3, <1>4 DEF PoolInv
-----------------------------------------------------------------------------
LEMMA BeginInv == ASSUME PoolInv, NEW t \in Thread, Begin(t) PROVE PoolInv'
<1>1. PICK op \in Ops, s \in StringOrNull, n \in Nat :
        Call(t, op, s, n) /\ (op \in StringOps => s \in String)
  <2>1. \A m \in Ids : m \in Nat
    BY DEF Ids
  <2>2. CASE \E op \in StringOps, s \in String : Call(t, op, s, 0)
    BY <2>2 DEF Ops, StringOrNull
  <2>3. CASE \E op \in IdOps, n \in Ids : Call(t, op, NoString, n)
    BY <2>1, <2>3 DEF Ops, StringOrNull, IdOps, StringOps
  <2>4. CASE Call(t, "getStringCount", NoString, 0)
    BY <2>4 DEF Ops, StringOrNull, StringOps
  <2> QED
    BY <2>2, <2>3, <2>4 DEF Begin
<1> DEFINE c == [op |-> op, str |-> s, id |-> n, count |-> 0, thrown |-> FALSE,
                 result |-> 0, value |-> NoString,
                 at |-> IF op = "getStringCount" THEN "count" ELSE "look"]
<1>2. c \in Calls /\ c.at \notin Locked /\ c.op = op /\ c.str = s
  BY DEF Calls, Places, StringOrNull, Locked
<1>3. call' = [call EXCEPT ![t] = c] /\ call[t].at = "idle" /\ UNCHANGED <<const, own, mutex>>
  BY <1>1 DEF Call, At
<1>4. call[t].at \notin Locked
  BY <1>3 DEF Locked
<1> HIDE DEF c
<1> QED
  BY <1>1, <1>2, <1>3, <1>4, OutsideStep

LEMMA LookInv ==
  ASSUME PoolInv, NEW t \in Thread,
         LookForString(t) \/ LookForValue(t) \/ LookForId(t) \/ Count(t)
  PROVE  PoolInv'
<1>1. /\ call \in [Thread -> Calls] /\ call[t] \in Calls
      /\ const \in Seq(String) /\ Len(const) \in Nat
      /\ call[t].op \in StringOps => call[t].str \in String
      /\ call[t].id \in Nat
  BY DEF PoolInv, StringPoolTypeOK, StringGiven, Calls
<1>2. \A s : ConstId(s) \in Nat
  BY <1>1 DEF ConstId
<1> DEFINE Outside(c) ==
      /\ c \in Calls /\ call' = [call EXCEPT ![t] = c]
      /\ c.at \in {"idle", "lock", "count"} /\ c.op = call[t].op /\ c.str = call[t].str
      Moved(p)         == [call[t] EXCEPT !.at = p]
      Answering(n)     == [call[t] EXCEPT !.at = "idle", !.result = n]
      Valued(v)        == [call[t] EXCEPT !.at = "idle", !.value = v]
      Counted          == [call[t] EXCEPT !.at = "lock", !.count = Len(const)]
      Refused          == [call[t] EXCEPT !.at = "idle", !.thrown = TRUE]
<1>3. ASSUME NEW p \in {"lock", "count"}, call' = [call EXCEPT ![t].at = p]
      PROVE  Outside(Moved(p))
  BY <1>1, <1>3 DEF Calls, Places
<1>4. ASSUME NEW n \in Nat, call' = [call EXCEPT ![t].at = "idle", ![t].result = n]
      PROVE  Outside(Answering(n))
  BY <1>1, <1>4 DEF Calls, Places
<1>5. ASSUME NEW v \in StringOrNull, call' = [call EXCEPT ![t].at = "idle", ![t].value = v]
      PROVE  Outside(Valued(v))
  BY <1>1, <1>5 DEF Calls, Places
<1>6. ASSUME call' = [call EXCEPT ![t].at = "lock", ![t].count = Len(const)]
      PROVE  Outside(Counted)
  BY <1>1, <1>6 DEF Calls, Places
<1>7. ASSUME call' = [call EXCEPT ![t].at = "idle", ![t].thrown = TRUE]
      PROVE  Outside(Refused)
  BY <1>1, <1>7 DEF Calls, Places
<1> HIDE DEF Outside, Moved, Answering, Valued, Counted, Refused
<1>8. \E c : Outside(c)
  <2>1. CASE LookForString(t)
    <3>1. CASE ConstId(call[t].str) # 0
      <4>1. PICK n \in Nat : call' = [call EXCEPT ![t].at = "idle", ![t].result = n]
        BY <2>1, <3>1, <1>2 DEF LookForString, Answer
      <4> QED
        BY <4>1, <1>4
    <3>2. CASE ConstId(call[t].str) = 0
      <4>1. PICK p \in {"lock", "count"} : call' = [call EXCEPT ![t].at = p]
        BY <2>1, <3>2 DEF LookForString, Goto
      <4> QED
        BY <4>1, <1>3
    <3> QED
      BY <3>1, <3>2
  <2>2. CASE LookForValue(t)
    <3>1. CASE call[t].id > Len(const)
      <4>1. call' = [call EXCEPT ![t].at = "count"]
        BY <2>2, <3>1 DEF LookForValue, Goto
      <4> QED
        BY <4>1, <1>3
    <3>2. CASE ~(call[t].id > Len(const)) /\ call[t].id = 0
      <4>1. call' = [call EXCEPT ![t].at = "idle", ![t].thrown = TRUE]
        BY <2>2, <3>2 DEF LookForValue
      <4> QED
        BY <4>1, <1>7
    <3>3. CASE ~(call[t].id > Len(const)) /\ call[t].id # 0
      <4>1. call' = [call EXCEPT ![t].at = "idle", ![t].value = const[call[t].id]]
        BY <2>2, <3>3 DEF LookForValue
      <4>2. call[t].id \in 1..Len(const)
        BY <3>3, <1>1
      <4>3. const[call[t].id] \in StringOrNull
        BY <4>2, <1>1 DEF StringOrNull
      <4> QED
        BY <4>1, <4>3, <1>5
    <3> QED
      BY <3>1, <3>2, <3>3
  <2>3. CASE LookForId(t)
    <3>1. CASE call[t].id = 0 \/ call[t].id <= Len(const)
      <4>1. PICK n \in Nat : call' = [call EXCEPT ![t].at = "idle", ![t].result = n]
        BY <2>3, <3>1 DEF LookForId, Answer
      <4> QED
        BY <4>1, <1>4
    <3>2. CASE ~(call[t].id = 0 \/ call[t].id <= Len(const))
      <4>1. call' = [call EXCEPT ![t].at = "lock", ![t].count = Len(const)]
        BY <2>3, <3>2 DEF LookForId
      <4> QED
        BY <4>1, <1>6
    <3> QED
      BY <3>1, <3>2
  <2>4. CASE Count(t)
    <3>1. call' = [call EXCEPT ![t].at = "lock", ![t].count = Len(const)]
      BY <2>4 DEF Count
    <3> QED
      BY <3>1, <1>6
  <2> QED
    BY <2>1, <2>2, <2>3, <2>4
<1>9. PICK c : Outside(c)
  BY <1>8
<1>10. call[t].at \in {"look", "count"} /\ UNCHANGED <<const, own, mutex>>
  BY DEF LookForString, LookForValue, LookForId, Count, At
<1>11. call[t].at \notin Locked /\ c.at \notin Locked
  BY <1>9, <1>10 DEF Locked, Outside
<1>12. /\ c \in Calls /\ call' = [call EXCEPT ![t] = c]
       /\ c.op \in StringOps => c.str \in String
  BY <1>1, <1>9 DEF Outside
<1> QED
  BY <1>10, <1>11, <1>12, OutsideStep

LEMMA LockInv == ASSUME PoolInv, NEW t \in Thread, Lock(t) PROVE PoolInv'
<1>1. call \in [Thread -> Calls] /\ call[t] \in Calls
  BY DEF PoolInv, StringPoolTypeOK
<1>2. /\ mutex = NoThread /\ mutex' = t /\ UNCHANGED <<const, own>>
      /\ call' = [call EXCEPT ![t] = [call[t] EXCEPT !.at = "own"]]
  BY DEF Lock, Obtains, Goto
<1>3. /\ call' \in [Thread -> Calls] /\ call'[t] = [call[t] EXCEPT !.at = "own"]
      /\ \A s \in Thread : s # t => call'[s] = call[s]
  BY <1>1, <1>2 DEF Calls, Places, Locked
<1>4. \A s \in Thread : call[s].at \notin Locked
  BY <1>2, StringPoolAssumption DEF PoolInv, MutexHeld
<1>5. StringPoolTypeOK' /\ TablesAgree' /\ (own.fMapCapacity > 1)'
  BY <1>2, <1>3 DEF PoolInv, StringPoolTypeOK, TablesAgree
<1>6. call'[t].at = "own" /\ call'[t].op = call[t].op /\ call'[t].str = call[t].str
  BY <1>1, <1>3 DEF Calls
<1>7. MutexHeld'
  BY <1>2, <1>3, <1>4, <1>6 DEF MutexHeld, Locked
<1>8. StringGiven'
  BY <1>3, <1>6 DEF PoolInv, StringGiven
<1>9. AdderSound'
  BY <1>3, <1>4, <1>6 DEF AdderSound, Locked
<1> QED
  BY <1>5, <1>7, <1>8, <1>9 DEF PoolInv

LEMMA UnlockInv == ASSUME PoolInv, NEW t \in Thread, Unlock(t) PROVE PoolInv'
<1>1. call \in [Thread -> Calls] /\ call[t] \in Calls
  BY DEF PoolInv, StringPoolTypeOK
<1>2. /\ call[t].at = "unlock" /\ mutex' = NoThread /\ UNCHANGED <<const, own>>
      /\ call' = [call EXCEPT ![t] = [call[t] EXCEPT !.at = "idle"]]
  BY DEF Unlock, Releases, Goto, At
<1>3. /\ call' \in [Thread -> Calls] /\ call'[t] = [call[t] EXCEPT !.at = "idle"]
      /\ \A s \in Thread : s # t => call'[s] = call[s]
  BY <1>1, <1>2 DEF Calls, Places, Locked
<1>4. \A s \in Thread : s # t => call[s].at \notin Locked
  BY <1>2 DEF PoolInv, MutexHeld, Locked
<1>5. StringPoolTypeOK' /\ TablesAgree' /\ (own.fMapCapacity > 1)'
  BY <1>2, <1>3 DEF PoolInv, StringPoolTypeOK, TablesAgree
<1>6. call'[t].at = "idle" /\ call'[t].op = call[t].op /\ call'[t].str = call[t].str
  BY <1>1, <1>3 DEF Calls
<1>7. \A s \in Thread : call'[s].at \notin Locked
  BY <1>3, <1>4, <1>6 DEF Locked
<1>8. MutexHeld'
  BY <1>2, <1>7, StringPoolAssumption DEF MutexHeld
<1>9. StringGiven'
  BY <1>3, <1>6 DEF PoolInv, StringGiven
<1>10. AdderSound'
  BY <1>7 DEF AdderSound, Locked
<1> QED
  BY <1>5, <1>8, <1>9, <1>10 DEF PoolInv

LEMMA FindOwnInv == ASSUME PoolInv, NEW t \in Thread, FindOwn(t) PROVE PoolInv'
<1>1. /\ call \in [Thread -> Calls] /\ call[t] \in Calls
      /\ call[t].at = "own" /\ call[t].op = "addOrFind" /\ call[t].str \in String
      /\ own.fHashTable[call[t].str] \in Nat /\ call[t].count \in Nat
      /\ UNCHANGED <<const, own, mutex>>
  BY DEF PoolInv, StringPoolTypeOK, StringGiven, StringOps, FindOwn, At, Calls
<1>2. CASE own.fHashTable[call[t].str] # 0
  <2> DEFINE n == call[t].count + own.fHashTable[call[t].str]
             c == [call[t] EXCEPT !.at = "unlock", !.result = n]
  <2>1. n \in Nat
    BY <1>1
  <2>2. call' = [call EXCEPT ![t] = c]
    BY <1>2, <1>1 DEF FindOwn, Answered
  <2> HIDE DEF n
  <2>3. c \in Calls /\ c.at = "unlock" /\ c.op = call[t].op /\ c.str = call[t].str
    BY <1>1, <2>1 DEF Calls, Places, Locked
  <2>4. call[t].at \in Locked
    BY <1>1 DEF Locked
  <2> QED
    BY <1>1, <2>2, <2>3, <2>4, AnswerStep
<1>3. CASE own.fHashTable[call[t].str] = 0
  <2> DEFINE c == [call[t] EXCEPT !.at = IF Full THEN "grow" ELSE "store"]
  <2>1. call' = [call EXCEPT ![t] = c]
    BY <1>3, <1>1 DEF FindOwn, Goto
  <2>2. /\ c \in Calls /\ c.at \in Locked /\ c.op = call[t].op /\ c.str = call[t].str
        /\ c.at = IF Full THEN "grow" ELSE "store"
    BY <1>1 DEF Calls, Places, Locked
  <2> HIDE DEF c
  <2>3. call[t].at \in Locked
    BY <1>1 DEF Locked
  <2>4. /\ call' \in [Thread -> Calls]
        /\ MutexHeld' /\ StringGiven'
        /\ \A s \in Thread : s # t => call'[s] = call[s] /\ call[s].at \notin Locked
        /\ call'[t] = c
    BY <1>1, <2>1, <2>2, <2>3, InsideCalls
  <2>5. StringPoolTypeOK' /\ TablesAgree' /\ (own.fMapCapacity > 1)'
    BY <1>1, <2>4 DEF PoolInv, StringPoolTypeOK, TablesAgree
  <2>6. own.fCurId <= own.fMapCapacity /\ own.fCurId \in Nat /\ own.fMapCapacity \in Nat
    BY DEF PoolInv, StringPoolTypeOK
  <2>7. AdderSound'
    BY <1>1, <1>3, <2>2, <2>4, <2>6 DEF AdderSound, Locked, Full
  <2> QED
    BY <2>4, <2>5, <2>7 DEF PoolInv
<1> QED
  BY <1>2, <1>3
-----------------------------------------------------------------------------
LEMMA GrowInv == ASSUME PoolInv, NEW t \in Thread, Grow(t) PROVE PoolInv'
<1> DEFINE cap == own.fMapCapacity
           new == (cap * 3) \div 2
           c   == [call[t] EXCEPT !.at = "store"]
<1>1. /\ call \in [Thread -> Calls] /\ call[t] \in Calls
      /\ call[t].at = "grow" /\ UNCHANGED <<const, mutex>>
      /\ call' = [call EXCEPT ![t] = c]
      /\ cap \in Nat /\ cap > 1 /\ own.fCurId \in Nat /\ own.fCurId = cap
      /\ own.fIdMap \in [0..(cap - 1) -> StringOrNull]
      /\ own.fHashTable \in [String -> Nat]
      /\ own \in [fHashTable : [String -> Nat], fCurId : Nat \ {0}, fMapCapacity : Nat,
                  fIdMap : [0..(cap - 1) -> StringOrNull]]
  BY DEF PoolInv, StringPoolTypeOK, Grow, At, Goto, AdderSound
<1>2. new \in Nat /\ new > cap
  BY <1>1
<1>3. own' = [own EXCEPT !.fMapCapacity = new, !.fIdMap =
               [i \in 0..(new - 1) |-> IF i < cap THEN own.fIdMap[i] ELSE NoString]]
  BY DEF Grow
<1> HIDE DEF new
<1>4. /\ own'.fMapCapacity = new /\ own'.fHashTable = own.fHashTable
      /\ own'.fCurId = own.fCurId
      /\ own'.fIdMap = [i \in 0..(new - 1) |-> IF i < cap THEN own.fIdMap[i] ELSE NoString]
  BY <1>1, <1>3
<1>5. /\ c \in Calls /\ c.at = "store" /\ c.op = call[t].op /\ c.str = call[t].str
  BY <1>1 DEF Calls, Places, Locked
<1> HIDE DEF c
<1>6. call[t].at \in Locked /\ c.at \in Locked
  BY <1>1, <1>5 DEF Locked
<1>7. /\ call' \in [Thread -> Calls]
      /\ MutexHeld' /\ StringGiven'
      /\ \A s \in Thread : s # t => call'[s] = call[s] /\ call[s].at \notin Locked
      /\ call'[t] = c
  BY <1>1, <1>5, <1>6, InsideCalls
<1>8. own'.fIdMap \in [0..(new - 1) -> StringOrNull]
  BY <1>1, <1>2, <1>4 DEF StringOrNull
<1>9. StringPoolTypeOK'
  <2>1. own' \in [fHashTable : [String -> Nat], fCurId : Nat \ {0}, fMapCapacity : Nat,
                  fIdMap : [0..(new - 1) -> StringOrNull]]
    BY <1>1, <1>2, <1>3, <1>8, <1>4
  <2>2. own'.fCurId <= own'.fMapCapacity
    BY <1>1, <1>2, <1>4
  <2> QED
    BY <1>1, <1>4, <1>7, <2>1, <2>2 DEF PoolInv, StringPoolTypeOK
<1>10. TablesAgree'
  <2> SUFFICES ASSUME NEW i \in 1..(own.fCurId - 1)
               PROVE  /\ i \in DOMAIN own'.fIdMap
                      /\ own'.fIdMap[i] # NoString
                      /\ own'.fHashTable[own'.fIdMap[i]] = i
    BY <1>4 DEF TablesAgree
  <2>1. own.fIdMap[i] # NoString /\ own.fHashTable[own.fIdMap[i]] = i
    BY DEF PoolInv, TablesAgree
  <2>2. i \in 0..(new - 1) /\ i < cap
    BY <1>1, <1>2
  <2> QED
    BY <1>4, <2>1, <2>2
<1>11. AdderSound'
  <2>1. call[t].op = "addOrFind" /\ own.fHashTable[call[t].str] = 0
    BY <1>1 DEF PoolInv, AdderSound
  <2> QED
    BY <2>1, <1>1, <1>2, <1>4, <1>5, <1>7 DEF AdderSound, Locked
<1> QED
  BY <1>1, <1>2, <1>4, <1>7, <1>9, <1>10, <1>11 DEF PoolInv

LEMMA StoreInv == ASSUME PoolInv, NEW t \in Thread, Store(t) PROVE PoolInv'
<1> DEFINE s == call[t].str
           c == [call[t] EXCEPT !.at = "bump"]
<1>1. /\ call \in [Thread -> Calls] /\ call[t] \in Calls
      /\ call[t].at = "store" /\ call[t].op = "addOrFind" /\ UNCHANGED <<const, mutex>>
      /\ call' = [call EXCEPT ![t] = c]
      /\ own.fMapCapacity \in Nat /\ own.fCurId \in Nat \ {0} /\ own.fCurId < own.fMapCapacity
      /\ own.fIdMap \in [0..(own.fMapCapacity - 1) -> StringOrNull]
      /\ own.fHashTable \in [String -> Nat] /\ own.fHashTable[s] = 0 /\ s \in String
      /\ own \in [fHashTable : [String -> Nat], fCurId : Nat \ {0}, fMapCapacity : Nat,
                  fIdMap : [0..(own.fMapCapacity - 1) -> StringOrNull]]
  BY DEF PoolInv, StringPoolTypeOK, Store, At, Goto, AdderSound, StringGiven, StringOps
<1>2. own' = [own EXCEPT !.fHashTable = [own.fHashTable EXCEPT ![s] = own.fCurId],
                         !.fIdMap = [own.fIdMap EXCEPT ![own.fCurId] = s]]
  BY <1>1 DEF Store
<1>3. /\ own'.fMapCapacity = own.fMapCapacity /\ own'.fCurId = own.fCurId
      /\ own'.fHashTable = [own.fHashTable EXCEPT ![s] = own.fCurId]
      /\ own'.fIdMap = [own.fIdMap EXCEPT ![own.fCurId] = s]
  BY <1>1, <1>2
<1>4. /\ c \in Calls /\ c.at = "bump" /\ c.op = call[t].op /\ c.str = s
  BY <1>1 DEF Calls, Places, Locked
<1> HIDE DEF c
<1>5. call[t].at \in Locked /\ c.at \in Locked
  BY <1>1, <1>4 DEF Locked
<1>6. /\ call' \in [Thread -> Calls]
      /\ MutexHeld' /\ StringGiven'
      /\ \A q \in Thread : q # t => call'[q] = call[q] /\ call[q].at \notin Locked
      /\ call'[t] = c
  BY <1>1, <1>4, <1>5, InsideCalls
<1>7. /\ own'.fHashTable \in [String -> Nat]
      /\ own'.fIdMap \in [0..(own.fMapCapacity - 1) -> StringOrNull]
      /\ own'.fHashTable[s] = own.fCurId /\ own'.fIdMap[own.fCurId] = s
  BY <1>1, <1>3 DEF StringOrNull
<1>8. StringPoolTypeOK'
  <2>1. own' \in [fHashTable : [String -> Nat], fCurId : Nat \ {0}, fMapCapacity : Nat,
                  fIdMap : [0..(own.fMapCapacity - 1) -> StringOrNull]]
    BY <1>1, <1>2, <1>3, <1>7
  <2>2. own'.fCurId <= own'.fMapCapacity
    BY <1>1, <1>3
  <2> QED
    BY <1>1, <1>3, <1>6, <2>1, <2>2 DEF PoolInv, StringPoolTypeOK
<1>9. TablesAgree'
  <2> SUFFICES ASSUME NEW i \in 1..(own.fCurId - 1)
               PROVE  /\ i \in DOMAIN own'.fIdMap
                      /\ own'.fIdMap[i] # NoString
                      /\ own'.fHashTable[own'.fIdMap[i]] = i
    BY <1>3 DEF TablesAgree
  <2>1. own.fIdMap[i] # NoString /\ own.fHashTable[own.fIdMap[i]] = i
    BY DEF PoolInv, TablesAgree
  <2>2. i \in 0..(own.fMapCapacity - 1) /\ i # own.fCurId /\ i # 0
    BY <1>1
  <2>3. own'.fIdMap[i] = own.fIdMap[i] /\ i \in DOMAIN own'.fIdMap
    BY <1>1, <1>3, <2>2
  <2>4. own.fIdMap[i] # s /\ own.fIdMap[i] \in String
    BY <1>1, <2>1, <2>2 DEF StringOrNull
  <2> QED
    BY <1>1, <1>3, <2>1, <2>3, <2>4
<1>10. AdderSound'
  BY <1>1, <1>3, <1>4, <1>6, <1>7 DEF AdderSound, Locked
<1> QED
  BY <1>1, <1>3, <1>6, <1>8, <1>9, <1>10 DEF PoolInv

LEMMA BumpInv == ASSUME PoolInv, NEW t \in Thread, Bump(t) PROVE PoolInv'
<1> DEFINE n == call[t].count + own.fCurId
           c == [call[t] EXCEPT !.at = "unlock", !.result = n]
<1>1. /\ call \in [Thread -> Calls] /\ call[t] \in Calls
      /\ call[t].at = "bump" /\ call[t].op = "addOrFind" /\ UNCHANGED <<const, mutex>>
      /\ own.fMapCapacity \in Nat /\ own.fCurId \in Nat \ {0} /\ own.fCurId < own.fMapCapacity
      /\ own.fHashTable[call[t].str] = own.fCurId /\ own.fIdMap[own.fCurId] = call[t].str
      /\ own.fIdMap \in [0..(own.fMapCapacity - 1) -> StringOrNull]
      /\ call[t].str \in String /\ call[t].count \in Nat
      /\ own \in [fHashTable : [String -> Nat], fCurId : Nat \ {0}, fMapCapacity : Nat,
                  fIdMap : [0..(own.fMapCapacity - 1) -> StringOrNull]]
  BY DEF PoolInv, StringPoolTypeOK, Bump, At, AdderSound, StringGiven, StringOps, Calls
<1>2. own' = [own EXCEPT !.fCurId = own.fCurId + 1] /\ call' = [call EXCEPT ![t] = c]
  BY <1>1 DEF Bump, Answered, NewId
<1>3. /\ own'.fMapCapacity = own.fMapCapacity /\ own'.fCurId = own.fCurId + 1
      /\ own'.fHashTable = own.fHashTable /\ own'.fIdMap = own.fIdMap
  BY <1>1, <1>2
<1>4. n \in Nat
  BY <1>1
<1> HIDE DEF n
<1>5. /\ c \in Calls /\ c.at = "unlock" /\ c.op = call[t].op /\ c.str = call[t].str
  BY <1>1, <1>4 DEF Calls, Places, Locked
<1> HIDE DEF c
<1>6. call[t].at \in Locked /\ c.at \in Locked
  BY <1>1, <1>5 DEF Locked
<1>7. /\ call' \in [Thread -> Calls]
      /\ MutexHeld' /\ StringGiven'
      /\ \A q \in Thread : q # t => call'[q] = call[q] /\ call[q].at \notin Locked
      /\ call'[t] = c
  BY <1>1, <1>2, <1>5, <1>6, InsideCalls
<1>8. StringPoolTypeOK'
  <2>1. own' \in [fHashTable : [String -> Nat], fCurId : Nat \ {0}, fMapCapacity : Nat,
                  fIdMap : [0..(own.fMapCapacity - 1) -> StringOrNull]]
    BY <1>1, <1>2, SMTT(40)
  <2>2. own'.fCurId <= own'.fMapCapacity
    BY <1>1, <1>3
  <2> QED
    BY <1>1, <1>3, <1>7, <2>1, <2>2 DEF PoolInv, StringPoolTypeOK
<1>9. TablesAgree'
  <2> SUFFICES ASSUME NEW i \in 1..own.fCurId
               PROVE  /\ i \in DOMAIN own.fIdMap
                      /\ own.fIdMap[i] # NoString
                      /\ own.fHashTable[own.fIdMap[i]] = i
    BY <1>1, <1>3 DEF TablesAgree
  <2>1. CASE i = own.fCurId
    BY <2>1, <1>1, StringPoolAssumption
  <2>2. CASE i # own.fCurId
    <3>1. i \in 1..(own.fCurId - 1)
      BY <2>2, <1>1
    <3> QED
      BY <3>1 DEF PoolInv, TablesAgree
  <2> QED
    BY <2>1, <2>2
<1>10. AdderSound'
  BY <1>5, <1>7 DEF AdderSound, Locked
<1> QED
  BY <1>1, <1>3, <1>7, <1>8, <1>9, <1>10 DEF PoolInv

LEMMA QueryInv == ASSUME PoolInv, NEW t \in Thread, QueryOwn(t) PROVE PoolInv'
<1>1. /\ call \in [Thread -> Calls] /\ call[t] \in Calls
      /\ call[t].at = "own" /\ UNCHANGED <<const, own, mutex>>
      /\ call[t].op \in StringOps => call[t].str \in String
      /\ call[t].count \in Nat /\ call[t].id \in Nat
      /\ own.fMapCapacity \in Nat /\ own.fCurId \in Nat \ {0} /\ own.fCurId <= own.fMapCapacity
      /\ own.fIdMap \in [0..(own.fMapCapacity - 1) -> StringOrNull]
      /\ own.fHashTable \in [String -> Nat]
  BY DEF PoolInv, StringPoolTypeOK, QueryOwn, At, StringGiven, Calls
<1> DEFINE Inside(c) ==
      /\ c \in Calls /\ call' = [call EXCEPT ![t] = c]
      /\ c.at = "unlock" /\ c.op = call[t].op /\ c.str = call[t].str
      Answering(n) == [call[t] EXCEPT !.at = "unlock", !.result = n]
      Valued(v)    == [call[t] EXCEPT !.at = "unlock", !.value = v]
      Refused      == [call[t] EXCEPT !.at = "unlock", !.thrown = TRUE]
<1>2. ASSUME NEW n \in Nat, Answered(t, n) PROVE Inside(Answering(n))
  BY <1>1, <1>2 DEF Answered, Calls, Places, Locked
<1>3. ASSUME NEW v \in StringOrNull, call' = [call EXCEPT ![t] = Valued(v)]
      PROVE  Inside(Valued(v))
  BY <1>1, <1>3 DEF Calls, Places, Locked
<1>4. ASSUME call' = [call EXCEPT ![t] = Refused] PROVE Inside(Refused)
  BY <1>1, <1>4 DEF Calls, Places, Locked
<1> HIDE DEF Inside, Answering
<1>5. \E c : Inside(c)
  <2>1. CASE call[t].op = "getId" /\ Answered(t, own.fHashTable[call[t].str] + call[t].count)
    <3>1. own.fHashTable[call[t].str] + call[t].count \in Nat
      BY <2>1, <1>1 DEF StringOps
    <3> QED
      BY <2>1, <3>1, <1>2
  <2>2. CASE Answered(t, IF own.fHashTable[call[t].str] # 0 THEN 1 ELSE 0)
    BY <2>2, <1>2
  <2>3. CASE Answered(t, IF call[t].id < own.fCurId + call[t].count THEN 1 ELSE 0)
    BY <2>3, <1>2
  <2>4. CASE Answered(t, own.fCurId + call[t].count - 1)
    <3>1. own.fCurId + call[t].count - 1 \in Nat
      BY <1>1
    <3> QED
      BY <2>4, <3>1, <1>2
  <2>5. CASE call' = [call EXCEPT ![t] =
                        IF Legal(call[t]) THEN Valued(own.fIdMap[call[t].id - call[t].count])
                        ELSE Refused]
    <3>1. CASE Legal(call[t])
      <4>1. call[t].id - call[t].count \in 0..(own.fMapCapacity - 1)
        BY <3>1, <1>1 DEF Legal
      <4>2. own.fIdMap[call[t].id - call[t].count] \in StringOrNull
        BY <4>1, <1>1
      <4>3. call' = [call EXCEPT ![t] = Valued(own.fIdMap[call[t].id - call[t].count])]
        BY <2>5, <3>1
      <4> QED
        BY <4>2, <4>3, <1>3
    <3>2. CASE ~Legal(call[t])
      BY <2>5, <3>2, <1>4
    <3> QED
      BY <3>1, <3>2
  <2> QED
    BY <2>1, <2>2, <2>3, <2>4, <2>5 DEF QueryOwn
<1>6. PICK c : Inside(c)
  BY <1>5
<1>7. call[t].at \in Locked
  BY <1>1 DEF Locked
<1> QED
  BY <1>1, <1>6, <1>7, AnswerStep DEF Inside
-----------------------------------------------------------------------------
LEMMA StepInv == PoolInv /\ [Next]_spVars => PoolInv'
<1> SUFFICES ASSUME PoolInv, [Next]_spVars PROVE PoolInv'
  OBVIOUS
<1>1. CASE UNCHANGED spVars
  BY <1>1 DEF spVars, PoolInv, StringPoolTypeOK, MutexHeld, TablesAgree, StringGiven, AdderSound
<1>2. ASSUME NEW t \in Thread, Begin(t) \/ CallStep(t) PROVE PoolInv'
  BY <1>2, BeginInv, LookInv, LockInv, FindOwnInv, GrowInv, StoreInv, BumpInv, QueryInv,
     UnlockInv DEF CallStep
<1> QED
  BY <1>1, <1>2 DEF Next

\* The invariant of every behaviour without additions to the const pool.
THEOREM PoolInvariant == Spec => []PoolInv
BY InitInv, StepInv, PTL DEF Spec

\* The table is well typed: the id map always has room for what it is asked.
THEOREM TableTyped == Spec => []StringPoolTypeOK
<1>1. PoolInv => StringPoolTypeOK
  BY DEF PoolInv
<1> QED
  BY <1>1, PoolInvariant, PTL

\* XMLMutexLock excludes: only the thread that holds fMutex works on the
\* table, and every way out of a call, exceptions included, gives it back.
THEOREM MutexExcludes == Spec => []MutexHeld
<1>1. PoolInv => MutexHeld
  BY DEF PoolInv
<1> QED
  BY <1>1, PoolInvariant, PTL

\* fHashTable and fIdMap agree on all ids given, through every growth.
THEOREM TablesStayInverse == Spec => []TablesAgree
<1>1. PoolInv => TablesAgree
  BY DEF PoolInv
<1> QED
  BY <1>1, PoolInvariant, PTL

\* A step of any thread leaves the id of a string that has one.
LEMMA IdsKept ==
  ASSUME PoolInv, [Next]_spVars, NEW s \in String, IdOf(s) # 0
  PROVE  IdOf(s)' = IdOf(s)
<1>1. CASE UNCHANGED spVars
  BY <1>1 DEF spVars, IdOf, ConstId, OwnId
<1>2. ASSUME NEW t \in Thread, Begin(t) \/ CallStep(t) PROVE IdOf(s)' = IdOf(s)
  <2>1. /\ own.fCurId \in Nat /\ own.fHashTable \in [String -> Nat]
        /\ own \in [fHashTable : [String -> Nat], fCurId : Nat \ {0}, fMapCapacity : Nat,
                    fIdMap : [0..(own.fMapCapacity - 1) -> StringOrNull]]
    BY DEF PoolInv, StringPoolTypeOK
  <2>2. const' = const /\ own'.fCurId >= own.fCurId
          /\ (own.fHashTable[s] # 0 => own'.fHashTable[s] = own.fHashTable[s])
    <3>1. CASE Store(t)
      <4>1. call[t].at = "store" /\ own.fHashTable[call[t].str] = 0
        BY <3>1 DEF PoolInv, AdderSound, Store, At
      <4>2. /\ own'.fHashTable = [own.fHashTable EXCEPT ![call[t].str] = own.fCurId]
            /\ own'.fCurId = own.fCurId /\ const' = const
        BY <3>1, <2>1 DEF Store
      <4> QED
        BY <4>1, <4>2, <2>1
    <3>2. CASE Bump(t)
      <4>1. own'.fHashTable = own.fHashTable /\ own'.fCurId = own.fCurId + 1 /\ const' = const
        BY <3>2, <2>1 DEF Bump
      <4> QED
        BY <4>1, <2>1
    <3>3. CASE Grow(t)
      <4>1. own'.fHashTable = own.fHashTable /\ own'.fCurId = own.fCurId /\ const' = const
        BY <3>3, <2>1 DEF Grow
      <4> QED
        BY <4>1, <2>1
    <3>4. CASE own' = own /\ const' = const
      BY <3>4, <2>1
    <3> QED
      BY <1>2, <3>1, <3>2, <3>3, <3>4
         DEF CallStep, Begin, Call, LookForString, LookForValue, LookForId, Count, Lock,
             FindOwn, QueryOwn, Unlock
  <2>3. ConstId(s)' = ConstId(s) /\ Len(const') = Len(const)
    BY <2>2 DEF ConstId
  <2>4. CASE ConstId(s) # 0
    BY <2>3, <2>4 DEF IdOf
  <2>5. CASE ConstId(s) = 0
    <3>1. OwnId(s) # 0 /\ IdOf(s) = Len(const) + OwnId(s)
      BY <2>5 DEF IdOf
    <3>2. own.fHashTable[s] < own.fCurId /\ OwnId(s) = own.fHashTable[s]
      BY <3>1 DEF OwnId
    <3>3. own'.fHashTable[s] = own.fHashTable[s]
      BY <2>2, <3>1, <3>2
    <3>4. own'.fCurId \in Nat
      BY StepInv DEF PoolInv, StringPoolTypeOK
    <3>5. OwnId(s)' = OwnId(s)
      BY <3>2, <3>3, <3>4, <2>1, <2>2 DEF OwnId
    <3> QED
      BY <2>3, <2>5, <3>1, <3>5 DEF IdOf
  <2> QED
    BY <2>4, <2>5
<1> QED
  BY <1>1, <1>2 DEF Next

\* No call of any thread changes the id of a string that has one.
THEOREM IdsNeverChange == Spec => IdsAreForGood
<1>1. PoolInv /\ [Next]_spVars => [\A s \in String : IdOf(s) # 0 => IdOf(s)' = IdOf(s)]_spVars
  BY IdsKept
<1> QED
  BY <1>1, PoolInvariant, PTL DEF Spec, IdsAreForGood
-----------------------------------------------------------------------------
(* What the threads are told *)

\* No string has two ids: the const pool has each of its strings once, and the
\* table of this pool has none of them.
PoolsApart ==
  /\ \A i, j \in 1..Len(const) : const[i] = const[j] => i = j
  /\ \A s \in String : own.fHashTable[s] # 0 => ConstId(s) = 0

\* The id map leads back to every string of the hash table, the one that is
\* being added included: it has the id fCurId until fCurId is bumped.
HashedIsMapped ==
  \A s \in String :
    LET i == own.fHashTable[s]
    IN  i # 0 => /\ i <= own.fCurId
                 /\ own.fIdMap[i] = s
                 /\ i = own.fCurId => \E t \in Thread : call[t].at = "bump"

\* What a call has found out of the const pool still holds when it uses it.
Knows(c) ==
  /\ c.op \in StringOps /\ c.at \notin {"idle", "look"} => ConstId(c.str) = 0
  /\ c.op # "existsString" /\ c.at \in {"lock"} \cup Locked => c.count = Len(const)
  /\ c.op = "getValueForId" /\ c.at \notin {"idle", "look"} => c.id > Len(const)

\* The answer of a call is right, and stays so after it has returned.
AnswersRight(c) ==
  c.at \in {"unlock", "idle"} =>
    /\ c.op = "getValueForId" /\ ~c.thrown
         => c.value \in String /\ c.id # 0 /\ IdOf(c.value) = c.id
    /\ c.op = "addOrFind" => c.result # 0 /\ c.result = IdOf(c.str)

CallsKnow == \A t \in Thread : Knows(call[t])

AnswersAreRight == \A t \in Thread : AnswersRight(call[t])

\* The inductive invariant, on top of PoolInv.
IdsInv == PoolInv /\ PoolsApart /\ HashedIsMapped /\ CallsKnow /\ AnswersAreRight
-----------------------------------------------------------------------------
\* ConstId is 0 or the place of the string.
LEMMA ConstIdIs ==
  ASSUME PoolInv, NEW s
  PROVE  /\ ConstId(s) \in Nat
         /\ ConstId(s) # 0 => ConstId(s) \in 1..Len(const) /\ const[ConstId(s)] = s
         /\ (\E i \in 1..Len(const) : const[i] = s) => ConstId(s) # 0
BY SMTT(40) DEF ConstId, PoolInv, StringPoolTypeOK

\* In a const pool without doubles a string has the id of its place.
LEMMA ValueOfConst ==
  ASSUME PoolInv, PoolsApart, NEW i \in 1..Len(const)
  PROVE  const[i] \in String /\ IdOf(const[i]) = i
<1>1. const[i] \in String
  BY DEF PoolInv, StringPoolTypeOK
<1>2. ConstId(const[i]) \in 1..Len(const) /\ const[ConstId(const[i])] = const[i]
  BY ConstIdIs
<1>3. ConstId(const[i]) = i
  BY <1>2 DEF PoolsApart
<1> QED
  BY <1>1, <1>3 DEF IdOf

\* A string of the table has the id of its entry, once that has been passed.
LEMMA ValueOfOwn ==
  ASSUME PoolInv, PoolsApart, NEW s \in String, own.fHashTable[s] # 0,
         own.fHashTable[s] < own.fCurId
  PROVE  IdOf(s) = Len(const) + own.fHashTable[s] /\ IdOf(s) # 0
<1>1. ConstId(s) = 0
  BY DEF PoolsApart
<1>2. own.fHashTable[s] \in Nat /\ Len(const) \in Nat
  BY DEF PoolInv, StringPoolTypeOK
<1> QED
  BY <1>1, <1>2 DEF IdOf, OwnId

\* While a thread looks into the table nobody is adding to it.
LEMMA NobodyAdds ==
  ASSUME PoolInv, HashedIsMapped, NEW t \in Thread,
         call[t].at \in Locked \ {"bump"}, NEW s \in String, own.fHashTable[s] # 0
  PROVE  own.fHashTable[s] < own.fCurId
<1>1. \A q \in Thread : call[q].at = "bump" => q = t
  BY DEF PoolInv, MutexHeld, Locked
<1>2. own.fHashTable[s] <= own.fCurId /\ own.fHashTable[s] # own.fCurId
  BY <1>1 DEF HashedIsMapped
<1>3. own.fHashTable[s] \in Nat /\ own.fCurId \in Nat
  BY DEF PoolInv, StringPoolTypeOK
<1> QED
  BY <1>2, <1>3

LEMMA IdsInit == Init => IdsInv
<1> SUFFICES ASSUME Init PROVE IdsInv
  OBVIOUS
<1>1. PoolsApart /\ HashedIsMapped
  BY StringPoolAssumption DEF Init, PoolsApart, HashedIsMapped
<1>2. CallsKnow /\ AnswersAreRight
  BY DEF Init, CallsKnow, AnswersAreRight, Knows, AnswersRight, StringOps, Locked
<1> QED
  BY <1>1, <1>2, InitInv DEF IdsInv

\* A step that leaves both pools alone and moves one call on.
LEMMA QuietStep ==
  ASSUME IdsInv, PoolInv', NEW t \in Thread, NEW c, call' = [call EXCEPT ![t] = c],
         UNCHANGED <<const, own>>, call[t].at # "bump", Knows(c), AnswersRight(c)
  PROVE  IdsInv'
<1>1. /\ call'[t] = c
      /\ \A q \in Thread : q # t => call'[q] = call[q]
  BY DEF IdsInv, PoolInv, StringPoolTypeOK
<1>2. PoolsApart'
  BY DEF IdsInv, PoolsApart, ConstId
<1>3. HashedIsMapped'
  BY <1>1 DEF IdsInv, HashedIsMapped
<1>4. CallsKnow'
  BY <1>1 DEF IdsInv, CallsKnow, Knows, ConstId
<1>5. AnswersAreRight'
  <2>1. \A s : IdOf(s)' = IdOf(s)
    BY DEF IdOf, ConstId, OwnId
  <2>2. ASSUME NEW q \in Thread PROVE AnswersRight(call[q])'
    <3>1. AnswersRight(call'[q])
      BY <1>1 DEF IdsInv, AnswersAreRight
    <3> QED
      BY <2>1, <3>1 DEF AnswersRight
  <2> QED
    BY <2>2 DEF AnswersAreRight
<1> QED
  BY <1>2, <1>3, <1>4, <1>5 DEF IdsInv

\* A step that changes the table: the others' calls are not disturbed.
LEMMA TableStep ==
  ASSUME IdsInv, PoolInv', NEW t \in Thread, CallStep(t), NEW c \in Calls,
         call' = [call EXCEPT ![t] = c], UNCHANGED const,
         Knows(c), AnswersRight(call[t])'
  PROVE  CallsKnow' /\ AnswersAreRight'
<1>1. /\ call'[t] = c
      /\ \A q \in Thread : q # t => call'[q] = call[q]
  BY DEF IdsInv, PoolInv, StringPoolTypeOK
<1>2. CallsKnow'
  BY <1>1 DEF IdsInv, CallsKnow, Knows, ConstId
<1>3. [Next]_spVars
  BY DEF Next
<1>4. \A s \in String : IdOf(s) # 0 => IdOf(s)' = IdOf(s)
  BY <1>3, IdsKept DEF IdsInv
<1>5. ASSUME NEW q \in Thread PROVE AnswersRight(call[q])'
  <2>1. CASE q = t
    BY <2>1, <1>1 DEF AnswersRight
  <2>2. CASE q # t
    <3>1. AnswersRight(call[q]) /\ call'[q] = call[q]
      BY <2>2, <1>1 DEF IdsInv, AnswersAreRight
    <3>2. call[q].op = "addOrFind" => call[q].str \in String
      BY DEF IdsInv, PoolInv, StringGiven, StringOps
    <3> QED
      BY <3>1, <3>2, <1>4 DEF AnswersRight
  <2> QED
    BY <2>1, <2>2
<1> QED
  BY <1>2, <1>5 DEF AnswersAreRight
-----------------------------------------------------------------------------
LEMMA BeginIds == ASSUME IdsInv, PoolInv', NEW t \in Thread, Begin(t) PROVE IdsInv'
<1>1. PICK op, s, n :
        /\ Call(t, op, s, n)
        /\ op \in StringOps \/ op \in IdOps \/ op = "getStringCount"
  BY DEF Begin
<1> DEFINE c == [op |-> op, str |-> s, id |-> n, count |-> 0, thrown |-> FALSE,
                 result |-> 0, value |-> NoString,
                 at |-> IF op = "getStringCount" THEN "count" ELSE "look"]
<1>2. call' = [call EXCEPT ![t] = c] /\ call[t].at = "idle" /\ UNCHANGED <<const, own>>
  BY <1>1 DEF Call, At
<1>3. /\ c.op = op /\ c.at \in {"look", "count"}
      /\ c.at = "count" => op = "getStringCount"
  OBVIOUS
<1> HIDE DEF c
<1>4. Knows(c) /\ AnswersRight(c)
  BY <1>3 DEF Knows, AnswersRight, StringOps, Locked
<1> QED
  BY <1>2, <1>4, QuietStep

LEMMA LookForStringIds ==
  ASSUME IdsInv, PoolInv', NEW t \in Thread, LookForString(t) PROVE IdsInv'
<1>1. /\ call[t] \in Calls /\ call[t].op \in StringOps /\ call[t].at = "look"
      /\ UNCHANGED <<const, own>>
  BY DEF IdsInv, PoolInv, StringPoolTypeOK, LookForString, At
<1>2. CASE ConstId(call[t].str) # 0
  <2> DEFINE n == IF call[t].op = "existsString" THEN 1 ELSE ConstId(call[t].str)
             c == [call[t] EXCEPT !.at = "idle", !.result = n]
  <2>1. call' = [call EXCEPT ![t] = c]
    BY <1>2 DEF LookForString, Answer
  <2>2. /\ c.at = "idle" /\ c.op = call[t].op /\ c.str = call[t].str
        /\ c.op = "addOrFind" => c.result = ConstId(call[t].str)
    BY <1>1 DEF Calls
  <2> HIDE DEF c, n
  <2>3. Knows(c) /\ AnswersRight(c)
    BY <1>1, <1>2, <2>2 DEF Knows, AnswersRight, IdOf, Locked, StringOps
  <2> QED
    BY <1>1, <2>1, <2>3, QuietStep
<1>3. CASE ConstId(call[t].str) = 0
  <2> DEFINE c == [call[t] EXCEPT !.at = IF call[t].op = "existsString" THEN "lock" ELSE "count"]
  <2>1. call' = [call EXCEPT ![t] = c]
    BY <1>3 DEF LookForString, Goto
  <2>2. /\ c.at = IF call[t].op = "existsString" THEN "lock" ELSE "count"
        /\ c.op = call[t].op /\ c.str = call[t].str
    BY <1>1 DEF Calls
  <2> HIDE DEF c
  <2>3. Knows(c) /\ AnswersRight(c)
    BY <1>1, <1>3, <2>2 DEF Knows, AnswersRight, Locked, StringOps
  <2> QED
    BY <1>1, <2>1, <2>3, QuietStep
<1> QED
  BY <1>2, <1>3

LEMMA LookForValueIds ==
  ASSUME IdsInv, PoolInv', NEW t \in Thread, LookForValue(t) PROVE IdsInv'
<1>1. /\ call[t] \in Calls /\ call[t].op = "getValueForId" /\ call[t].at = "look"
      /\ UNCHANGED <<const, own>> /\ call[t].id \in Nat /\ Len(const) \in Nat
  BY DEF IdsInv, PoolInv, StringPoolTypeOK, LookForValue, At, Calls
<1>2. CASE call[t].id > Len(const)
  <2> DEFINE c == [call[t] EXCEPT !.at = "count"]
  <2>1. call' = [call EXCEPT ![t] = c]
    BY <1>2 DEF LookForValue, Goto
  <2>2. c.at = "count" /\ c.op = call[t].op /\ c.id = call[t].id
    BY <1>1 DEF Calls
  <2> HIDE DEF c
  <2>3. Knows(c) /\ AnswersRight(c)
    BY <1>1, <1>2, <2>2 DEF Knows, AnswersRight, Locked, StringOps
  <2> QED
    BY <1>1, <2>1, <2>3, QuietStep
<1>3. CASE ~(call[t].id > Len(const)) /\ call[t].id = 0
  <2> DEFINE c == [call[t] EXCEPT !.at = "idle", !.thrown = TRUE]
  <2>1. call' = [call EXCEPT ![t] = c]
    BY <1>3 DEF LookForValue
  <2>2. c.at = "idle" /\ c.op = call[t].op /\ c.thrown
    BY <1>1 DEF Calls
  <2> HIDE DEF c
  <2>3. Knows(c) /\ AnswersRight(c)
    BY <1>1, <2>2 DEF Knows, AnswersRight, Locked
  <2> QED
    BY <1>1, <2>1, <2>3, QuietStep
<1>4. CASE ~(call[t].id > Len(const)) /\ call[t].id # 0
  <2> DEFINE c == [call[t] EXCEPT !.at = "idle", !.value = const[call[t].id]]
  <2>1. call' = [call EXCEPT ![t] = c]
    BY <1>4 DEF LookForValue
  <2>2. c.at = "idle" /\ c.op = call[t].op /\ c.id = call[t].id /\ c.value = const[c.id]
    BY <1>1 DEF Calls
  <2> HIDE DEF c
  <2>3. c.id \in 1..Len(const)
    BY <1>1, <1>4, <2>2
  <2>4. const[c.id] \in String /\ IdOf(const[c.id]) = c.id
    BY <2>3, ValueOfConst DEF IdsInv
  <2>5. Knows(c) /\ AnswersRight(c)
    BY <1>1, <1>4, <2>2, <2>4 DEF Knows, AnswersRight, Locked
  <2> QED
    BY <1>1, <2>1, <2>5, QuietStep
<1> QED
  BY <1>2, <1>3, <1>4

LEMMA LookForIdIds ==
  ASSUME IdsInv, PoolInv', NEW t \in Thread, LookForId(t) PROVE IdsInv'
<1>1. /\ call[t] \in Calls /\ call[t].op = "existsId" /\ call[t].at = "look"
      /\ UNCHANGED <<const, own>>
  BY DEF IdsInv, PoolInv, StringPoolTypeOK, LookForId, At
<1>2. CASE call[t].id = 0 \/ call[t].id <= Len(const)
  <2> DEFINE c == [call[t] EXCEPT !.at = "idle", !.result = IF call[t].id = 0 THEN 0 ELSE 1]
  <2>1. call' = [call EXCEPT ![t] = c]
    BY <1>2 DEF LookForId, Answer
  <2>2. c.at = "idle" /\ c.op = "existsId"
    BY <1>1 DEF Calls
  <2> HIDE DEF c
  <2>3. Knows(c) /\ AnswersRight(c)
    BY <2>2 DEF Knows, AnswersRight, Locked
  <2> QED
    BY <1>1, <2>1, <2>3, QuietStep
<1>3. CASE ~(call[t].id = 0 \/ call[t].id <= Len(const))
  <2> DEFINE c == [call[t] EXCEPT !.at = "lock", !.count = Len(const)]
  <2>1. call' = [call EXCEPT ![t] = c]
    BY <1>3 DEF LookForId
  <2>2. c.at = "lock" /\ c.op = "existsId" /\ c.count = Len(const)
    BY <1>1 DEF Calls
  <2> HIDE DEF c
  <2>3. Knows(c) /\ AnswersRight(c)
    BY <2>2 DEF Knows, AnswersRight, StringOps
  <2> QED
    BY <1>1, <2>1, <2>3, QuietStep
<1> QED
  BY <1>2, <1>3

LEMMA CountIds == ASSUME IdsInv, PoolInv', NEW t \in Thread, Count(t) PROVE IdsInv'
<1> DEFINE c == [call[t] EXCEPT !.at = "lock", !.count = Len(const)]
<1>1. /\ call[t] \in Calls /\ call[t].at = "count" /\ UNCHANGED <<const, own>>
      /\ call' = [call EXCEPT ![t] = c] /\ Knows(call[t])
  BY DEF IdsInv, PoolInv, StringPoolTypeOK, Count, At, CallsKnow
<1>2. /\ c.at = "lock" /\ c.op = call[t].op /\ c.count = Len(const)
      /\ c.str = call[t].str /\ c.id = call[t].id
  BY <1>1 DEF Calls
<1> HIDE DEF c
<1>3. Knows(c) /\ AnswersRight(c)
  BY <1>1, <1>2 DEF Knows, AnswersRight, StringOps
<1> QED
  BY <1>1, <1>3, QuietStep

LEMMA LockIds == ASSUME IdsInv, PoolInv', NEW t \in Thread, Lock(t) PROVE IdsInv'
<1> DEFINE c == [call[t] EXCEPT !.at = "own"]
<1>1. /\ call[t] \in Calls /\ call[t].at = "lock" /\ UNCHANGED <<const, own>>
      /\ call' = [call EXCEPT ![t] = c] /\ Knows(call[t])
  BY DEF IdsInv, PoolInv, StringPoolTypeOK, Lock, Goto, At, CallsKnow
<1>2. /\ c.at = "own" /\ c.op = call[t].op /\ c.count = call[t].count
      /\ c.str = call[t].str /\ c.id = call[t].id
  BY <1>1 DEF Calls
<1> HIDE DEF c
<1>3. Knows(c) /\ AnswersRight(c)
  BY <1>1, <1>2 DEF Knows, AnswersRight, Locked
<1> QED
  BY <1>1, <1>3, QuietStep

LEMMA UnlockIds == ASSUME IdsInv, PoolInv', NEW t \in Thread, Unlock(t) PROVE IdsInv'
<1> DEFINE c == [call[t] EXCEPT !.at = "idle"]
<1>1. /\ call[t] \in Calls /\ call[t].at = "unlock" /\ UNCHANGED <<const, own>>
      /\ call' = [call EXCEPT ![t] = c] /\ AnswersRight(call[t])
  BY DEF IdsInv, PoolInv, StringPoolTypeOK, Unlock, Goto, At, AnswersAreRight
<1>2. /\ c.at = "idle" /\ c.op = call[t].op /\ c.thrown = call[t].thrown
      /\ c.str = call[t].str /\ c.id = call[t].id
      /\ c.result = call[t].result /\ c.value = call[t].value
  BY <1>1 DEF Calls
<1> HIDE DEF c
<1>3. Knows(c) /\ AnswersRight(c)
  BY <1>1, <1>2 DEF Knows, AnswersRight, Locked
<1> QED
  BY <1>1, <1>3, QuietStep

LEMMA FindOwnIds == ASSUME IdsInv, PoolInv', NEW t \in Thread, FindOwn(t) PROVE IdsInv'
<1>1. /\ call[t] \in Calls /\ call[t].at = "own" /\ call[t].op = "addOrFind"
      /\ call[t].str \in String /\ Knows(call[t]) /\ UNCHANGED <<const, own>>
  BY DEF IdsInv, PoolInv, StringPoolTypeOK, StringGiven, StringOps, FindOwn, At, CallsKnow
<1>2. CASE own.fHashTable[call[t].str] # 0
  <2> DEFINE n == call[t].count + own.fHashTable[call[t].str]
             c == [call[t] EXCEPT !.at = "unlock", !.result = n]
  <2>1. call' = [call EXCEPT ![t] = c]
    BY <1>2 DEF FindOwn, Answered
  <2>2. /\ c.at = "unlock" /\ c.op = "addOrFind" /\ c.str = call[t].str
        /\ c.count = call[t].count /\ c.id = call[t].id /\ c.result = n
    BY <1>1 DEF Calls
  <2> HIDE DEF c
  <2>3. own.fHashTable[call[t].str] < own.fCurId
    BY <1>1, <1>2, NobodyAdds DEF IdsInv, Locked
  <2>4. IdOf(call[t].str) = Len(const) + own.fHashTable[call[t].str] /\ IdOf(call[t].str) # 0
    BY <1>1, <1>2, <2>3, ValueOfOwn DEF IdsInv
  <2>5. call[t].count = Len(const)
    BY <1>1 DEF Knows, Locked
  <2>6. Knows(c) /\ AnswersRight(c)
    BY <1>1, <2>2, <2>4, <2>5 DEF Knows, AnswersRight, Locked
  <2> QED
    BY <1>1, <2>1, <2>6, QuietStep
<1>3. CASE own.fHashTable[call[t].str] = 0
  <2> DEFINE c == [call[t] EXCEPT !.at = IF Full THEN "grow" ELSE "store"]
  <2>1. call' = [call EXCEPT ![t] = c]
    BY <1>3 DEF FindOwn, Goto
  <2>2. /\ c.at \in {"grow", "store"} /\ c.op = "addOrFind" /\ c.str = call[t].str
        /\ c.count = call[t].count /\ c.id = call[t].id
    BY <1>1 DEF Calls
  <2> HIDE DEF c
  <2>3. Knows(c) /\ AnswersRight(c)
    BY <1>1, <2>2 DEF Knows, AnswersRight, Locked
  <2> QED
    BY <1>1, <2>1, <2>3, QuietStep
<1> QED
  BY <1>2, <1>3

LEMMA QueryIds == ASSUME IdsInv, PoolInv', NEW t \in Thread, QueryOwn(t) PROVE IdsInv'
<1>1. /\ call[t] \in Calls /\ call[t].at = "own" /\ call[t].id \in Nat
      /\ Knows(call[t]) /\ UNCHANGED <<const, own>> /\ own.fCurId \in Nat
      /\ Len(const) \in Nat
  BY DEF IdsInv, PoolInv, StringPoolTypeOK, QueryOwn, At, CallsKnow, Calls
<1>2. CASE call[t].op = "getValueForId"
  <2>1. call' = [call EXCEPT ![t] =
          IF Legal(call[t])
          THEN [call[t] EXCEPT !.at = "unlock", !.value = own.fIdMap[call[t].id - call[t].count]]
          ELSE [call[t] EXCEPT !.at = "unlock", !.thrown = TRUE]]
    BY <1>2 DEF QueryOwn
  <2>2. CASE Legal(call[t])
    <3> DEFINE i == call[t].id - call[t].count
               c == [call[t] EXCEPT !.at = "unlock", !.value = own.fIdMap[i]]
    <3>1. call' = [call EXCEPT ![t] = c]
      BY <2>1, <2>2
    <3>2. /\ c.at = "unlock" /\ c.op = "getValueForId" /\ c.value = own.fIdMap[i]
          /\ c.count = call[t].count /\ c.id = call[t].id
      BY <1>1, <1>2 DEF Calls
    <3> HIDE DEF c
    <3>3. call[t].count = Len(const) /\ call[t].id > Len(const)
      BY <1>1, <1>2 DEF Knows, Locked
    <3>4. i \in 1..(own.fCurId - 1)
      BY <1>1, <2>2, <3>3 DEF Legal
    <3>5. /\ own.fIdMap[i] # NoString /\ own.fHashTable[own.fIdMap[i]] = i
          /\ i \in DOMAIN own.fIdMap
      BY <3>4 DEF IdsInv, PoolInv, TablesAgree
    <3>6. own.fIdMap[i] \in String
      BY <3>5 DEF IdsInv, PoolInv, StringPoolTypeOK, StringOrNull
    <3>7. own.fHashTable[own.fIdMap[i]] # 0 /\ own.fHashTable[own.fIdMap[i]] < own.fCurId
      BY <1>1, <3>4, <3>5
    <3>8. IdOf(own.fIdMap[i]) = Len(const) + own.fHashTable[own.fIdMap[i]]
      BY <3>6, <3>7, ValueOfOwn DEF IdsInv
    <3>9. IdOf(own.fIdMap[i]) = call[t].id /\ call[t].id # 0
      BY <1>1, <3>3, <3>5, <3>8
    <3>10. Knows(c) /\ AnswersRight(c)
      BY <1>1, <1>2, <3>2, <3>3, <3>6, <3>9 DEF Knows, AnswersRight, StringOps, Locked
    <3> QED
      BY <1>1, <3>1, <3>10, QuietStep
  <2>3. CASE ~Legal(call[t])
    <3> DEFINE c == [call[t] EXCEPT !.at = "unlock", !.thrown = TRUE]
    <3>1. call' = [call EXCEPT ![t] = c]
      BY <2>1, <2>3
    <3>2. /\ c.at = "unlock" /\ c.op = "getValueForId" /\ c.thrown
          /\ c.count = call[t].count /\ c.id = call[t].id
      BY <1>1, <1>2 DEF Calls
    <3> HIDE DEF c
    <3>3. Knows(c) /\ AnswersRight(c)
      BY <1>1, <1>2, <3>2 DEF Knows, AnswersRight, StringOps, Locked
    <3> QED
      BY <1>1, <3>1, <3>3, QuietStep
  <2> QED
    BY <2>2, <2>3
<1>3. CASE call[t].op # "getValueForId"
  <2>1. PICK n : Answered(t, n)
    BY <1>3 DEF QueryOwn
  <2> DEFINE c == [call[t] EXCEPT !.at = "unlock", !.result = n]
  <2>2. call' = [call EXCEPT ![t] = c]
    BY <2>1 DEF Answered
  <2>3. call[t].op \notin {"getValueForId", "addOrFind"}
    BY <1>3 DEF QueryOwn
  <2>4. /\ c.at = "unlock" /\ c.op = call[t].op /\ c.str = call[t].str
        /\ c.count = call[t].count
    BY <1>1 DEF Calls
  <2> HIDE DEF c
  <2>5. Knows(c) /\ AnswersRight(c)
    BY <1>1, <2>3, <2>4 DEF Knows, AnswersRight, Locked
  <2> QED
    BY <1>1, <2>2, <2>5, QuietStep
<1> QED
  BY <1>2, <1>3
-----------------------------------------------------------------------------
\* The table's entries keep their place when the id map grows.
LEMMA GrowIds == ASSUME IdsInv, PoolInv', NEW t \in Thread, Grow(t) PROVE IdsInv'
<1> DEFINE cap == own.fMapCapacity
           c   == [call[t] EXCEPT !.at = "store"]
           new == (cap * 3) \div 2
<1>1. /\ call[t] \in Calls /\ call[t].at = "grow" /\ UNCHANGED const
      /\ call' = [call EXCEPT ![t] = c] /\ Knows(call[t])
      /\ own \in [fHashTable : [String -> Nat], fCurId : Nat \ {0}, fMapCapacity : Nat,
                  fIdMap : [0..(cap - 1) -> StringOrNull]]
      /\ own.fCurId = cap /\ cap \in Nat /\ cap > 1
      /\ call \in [Thread -> Calls]
  BY DEF IdsInv, PoolInv, StringPoolTypeOK, Grow, Goto, At, CallsKnow, AdderSound
<1>2. /\ c \in Calls /\ c.at = "store" /\ c.op = call[t].op /\ c.str = call[t].str
      /\ c.count = call[t].count /\ c.id = call[t].id
  BY <1>1 DEF Calls, Places, Locked
<1> HIDE DEF c
<1>3. new \in Nat /\ new > cap
  BY <1>1
<1>4. own' = [own EXCEPT !.fMapCapacity = new, !.fIdMap =
               [i \in 0..(new - 1) |-> IF i < cap THEN own.fIdMap[i] ELSE NoString]]
  BY DEF Grow
<1> HIDE DEF new
<1>5. /\ own'.fHashTable = own.fHashTable /\ own'.fCurId = own.fCurId
      /\ own'.fIdMap = [i \in 0..(new - 1) |-> IF i < cap THEN own.fIdMap[i] ELSE NoString]
  BY <1>1, <1>4
<1>6. PoolsApart'
  BY <1>1, <1>5 DEF IdsInv, PoolsApart, ConstId
<1>7. HashedIsMapped'
  <2> SUFFICES ASSUME NEW s \in String, own.fHashTable[s] # 0
               PROVE  /\ own.fHashTable[s] < own.fCurId
                      /\ own'.fIdMap[own.fHashTable[s]] = s
    BY <1>1, <1>5 DEF HashedIsMapped
  <2>1. own.fHashTable[s] < own.fCurId
    BY <1>1, NobodyAdds DEF IdsInv, Locked
  <2>2. own.fIdMap[own.fHashTable[s]] = s
    BY DEF IdsInv, HashedIsMapped
  <2>3. own.fHashTable[s] \in 0..(new - 1) /\ own.fHashTable[s] < cap
    BY <1>1, <1>3, <2>1
  <2> QED
    BY <1>5, <2>1, <2>2, <2>3
<1>8. Knows(c) /\ AnswersRight(call[t])'
  BY <1>1, <1>2 DEF Knows, AnswersRight, Locked
<1>9. CallsKnow' /\ AnswersAreRight'
  BY <1>1, <1>2, <1>8, TableStep DEF CallStep
<1> QED
  BY <1>6, <1>7, <1>9 DEF IdsInv

\* A new element is in the table before it has an id.
LEMMA StoreIds == ASSUME IdsInv, PoolInv', NEW t \in Thread, Store(t) PROVE IdsInv'
<1> DEFINE s == call[t].str
           c == [call[t] EXCEPT !.at = "bump"]
<1>1. /\ call[t] \in Calls /\ call[t].at = "store" /\ call[t].op = "addOrFind"
      /\ UNCHANGED const /\ call' = [call EXCEPT ![t] = c] /\ Knows(call[t])
      /\ s \in String /\ own.fHashTable[s] = 0
      /\ own \in [fHashTable : [String -> Nat], fCurId : Nat \ {0}, fMapCapacity : Nat,
                  fIdMap : [0..(own.fMapCapacity - 1) -> StringOrNull]]
      /\ own.fMapCapacity \in Nat /\ own.fCurId < own.fMapCapacity
      /\ call \in [Thread -> Calls]
  BY DEF IdsInv, PoolInv, StringPoolTypeOK, Store, Goto, At, CallsKnow, AdderSound,
         StringGiven, StringOps
<1>2. /\ c \in Calls /\ c.at = "bump" /\ c.op = call[t].op /\ c.str = s
      /\ c.count = call[t].count /\ c.id = call[t].id
  BY <1>1 DEF Calls, Places, Locked
<1> HIDE DEF c
<1>3. /\ own'.fHashTable = [own.fHashTable EXCEPT ![s] = own.fCurId]
      /\ own'.fIdMap = [own.fIdMap EXCEPT ![own.fCurId] = s]
      /\ own'.fCurId = own.fCurId
  BY <1>1 DEF Store
<1>4. ConstId(s) = 0
  BY <1>1 DEF Knows, StringOps
<1>5. PoolsApart'
  <2>1. \A r \in String : r # s => own'.fHashTable[r] = own.fHashTable[r]
    BY <1>1, <1>3
  <2>2. \A r \in String : own'.fHashTable[r] # 0 => ConstId(r) = 0
    BY <1>4, <2>1 DEF IdsInv, PoolsApart
  <2> QED
    BY <1>1, <2>2 DEF IdsInv, PoolsApart, ConstId
<1>6. HashedIsMapped'
  <2>1. call'[t].at = "bump"
    BY <1>1, <1>2
  <2>2. own.fCurId \in 0..(own.fMapCapacity - 1) /\ own.fCurId # 0
    BY <1>1
  <2>3. own'.fIdMap[own.fCurId] = s /\ own'.fHashTable[s] = own.fCurId
    BY <1>1, <1>3, <2>2
  <2>4. ASSUME NEW r \in String, r # s, own'.fHashTable[r] # 0
        PROVE  own'.fHashTable[r] < own.fCurId /\ own'.fIdMap[own'.fHashTable[r]] = r
    <3>1. own'.fHashTable[r] = own.fHashTable[r]
      BY <1>1, <1>3, <2>4
    <3>2. own.fHashTable[r] < own.fCurId
      BY <1>1, <2>4, <3>1, NobodyAdds DEF IdsInv, Locked
    <3>3. own.fIdMap[own.fHashTable[r]] = r
      BY <2>4, <3>1 DEF IdsInv, HashedIsMapped
    <3>4. own.fHashTable[r] \in 0..(own.fMapCapacity - 1) /\ own.fHashTable[r] # own.fCurId
      BY <1>1, <3>2
    <3> QED
      BY <1>1, <1>3, <3>1, <3>2, <3>3, <3>4
  <2> QED
    BY <1>1, <1>3, <2>1, <2>3, <2>4 DEF HashedIsMapped
<1>7. Knows(c) /\ AnswersRight(call[t])'
  BY <1>1, <1>2 DEF Knows, AnswersRight, Locked
<1>8. CallsKnow' /\ AnswersAreRight'
  BY <1>1, <1>2, <1>7, TableStep DEF CallStep
<1> QED
  BY <1>5, <1>6, <1>8 DEF IdsInv

\* The id that is answered is the one the new string has from now on.
LEMMA BumpIds == ASSUME IdsInv, PoolInv', NEW t \in Thread, Bump(t) PROVE IdsInv'
<1>1. PICK s : s = call[t].str
  OBVIOUS
<1> DEFINE n == call[t].count + own.fCurId
           c == [call[t] EXCEPT !.at = "unlock", !.result = n]
<1>2. /\ call[t] \in Calls /\ call[t].at = "bump" /\ call[t].op = "addOrFind"
      /\ UNCHANGED const /\ call' = [call EXCEPT ![t] = c] /\ Knows(call[t])
      /\ s \in String /\ own.fHashTable[s] = own.fCurId
      /\ own \in [fHashTable : [String -> Nat], fCurId : Nat \ {0}, fMapCapacity : Nat,
                  fIdMap : [0..(own.fMapCapacity - 1) -> StringOrNull]]
      /\ call[t].count \in Nat /\ call \in [Thread -> Calls]
  BY <1>1 DEF IdsInv, PoolInv, StringPoolTypeOK, Bump, Answered, NewId, At, CallsKnow, AdderSound,
         StringGiven, StringOps, Calls
<1>3. n \in Nat
  BY <1>2
<1>4. /\ c \in Calls /\ c.at = "unlock" /\ c.op = call[t].op /\ c.str = s
      /\ c.count = call[t].count /\ c.id = call[t].id /\ c.result = n
  BY <1>1, <1>2, <1>3 DEF Calls, Places, Locked
<1> HIDE DEF c
<1>5. /\ own'.fHashTable = own.fHashTable /\ own'.fIdMap = own.fIdMap
      /\ own'.fCurId = own.fCurId + 1
  BY <1>2 DEF Bump
<1>6. PoolsApart'
  BY <1>2, <1>5 DEF IdsInv, PoolsApart, ConstId
<1>7. HashedIsMapped'
  <2> SUFFICES ASSUME NEW r \in String, own.fHashTable[r] # 0
               PROVE  /\ own.fHashTable[r] < own.fCurId + 1
                      /\ own.fIdMap[own.fHashTable[r]] = r
    BY <1>2, <1>5 DEF HashedIsMapped
  <2> QED
    BY <1>2 DEF IdsInv, HashedIsMapped
<1>8. call[t].count = Len(const)
  BY <1>2 DEF Knows, Locked
<1>9. call'[t] = c
  BY <1>2
<1>10. IdOf(call[t].str)' = n /\ n # 0
  <2>1. ConstId(call[t].str)' = 0
    BY <1>1, <1>2, <1>4, <1>9 DEF Knows, StringOps, ConstId
  <2>2. OwnId(call[t].str)' = own.fCurId /\ own.fCurId # 0
    BY <1>2, <1>4, <1>5, <1>9 DEF OwnId
  <2> QED
    BY <1>2, <1>8, <2>1, <2>2 DEF IdOf
<1>11. Knows(c) /\ AnswersRight(call[t])'
  <2>1. Knows(c)
    BY <1>1, <1>2, <1>4 DEF Knows, Locked
  <2>2. call'[t].op = "addOrFind" /\ call'[t].result = n
    BY <1>2, <1>4, <1>9
  <2> QED
    BY <1>10, <2>1, <2>2 DEF AnswersRight
<1>12. CallsKnow' /\ AnswersAreRight'
  BY <1>2, <1>4, <1>11, TableStep DEF CallStep
<1> QED
  BY <1>6, <1>7, <1>12 DEF IdsInv

LEMMA IdsStep == IdsInv /\ [Next]_spVars => IdsInv'
<1> SUFFICES ASSUME IdsInv, [Next]_spVars PROVE IdsInv'
  OBVIOUS
<1>1. PoolInv'
  BY StepInv DEF IdsInv
<1>2. CASE UNCHANGED spVars
  <2>1. /\ \A s : ConstId(s)' = ConstId(s) /\ IdOf(s)' = IdOf(s)
        /\ UNCHANGED <<const, own, call>>
    BY <1>2 DEF spVars, ConstId, IdOf, OwnId
  <2>2. PoolsApart' /\ HashedIsMapped' /\ CallsKnow'
    BY <2>1 DEF IdsInv, PoolsApart, HashedIsMapped, CallsKnow, Knows
  <2>3. AnswersAreRight'
    <3>1. \A t \in Thread : AnswersRight(call[t])
      BY DEF IdsInv, AnswersAreRight
    <3> QED
      BY <3>1, <2>1 DEF AnswersAreRight, AnswersRight
  <2> QED
    BY <1>1, <2>2, <2>3 DEF IdsInv
<1>3. ASSUME NEW t \in Thread, Begin(t) \/ CallStep(t) PROVE IdsInv'
  BY <1>1, <1>3, BeginIds, LookForStringIds, LookForValueIds, LookForIdIds, CountIds, LockIds,
     FindOwnIds, GrowIds, StoreIds, BumpIds, QueryIds, UnlockIds DEF CallStep
<1> QED
  BY <1>2, <1>3 DEF Next

\* The invariant of every behaviour without additions to the const pool.
THEOREM IdsInvariant == Spec => []IdsInv
BY IdsInit, IdsStep, PTL DEF Spec

\* getValueForId answers with the string that has the id it was asked for,
\* whatever the other threads have added since the const pool was counted.
THEOREM ValuesHaveTheirIds == Spec => []ValueHasId
<1>1. IdsInv => ValueHasId
  <2> SUFFICES ASSUME IdsInv, NEW t \in Thread,
                      call[t].op = "getValueForId", call[t].at = "idle", ~call[t].thrown
               PROVE  call[t].value # NoString /\ IdOf(call[t].value) = call[t].id
    BY DEF ValueHasId
  <2>1. AnswersRight(call[t])
    BY DEF IdsInv, AnswersAreRight
  <2> QED
    BY <2>1, StringPoolAssumption DEF AnswersRight
<1> QED
  BY <1>1, IdsInvariant, PTL
-----------------------------------------------------------------------------
(* What the steps do to the ids, the next id and what the threads are told. *)

\* A string the table has not passed yet has no entry there to speak of.
LEMMA IdOfIs ==
  ASSUME IdsInv, NEW s \in String
  PROVE  /\ ConstId(s) # 0 => IdOf(s) = ConstId(s)
         /\ ConstId(s) = 0 /\ own.fHashTable[s] \in 1..(own.fCurId - 1)
              => IdOf(s) = Len(const) + own.fHashTable[s]
         /\ ConstId(s) = 0 /\ own.fHashTable[s] \notin 1..(own.fCurId - 1) => IdOf(s) = 0
         /\ IdOf(s) \in Nat
<1>1. /\ own.fHashTable[s] \in Nat /\ own.fCurId \in Nat /\ Len(const) \in Nat
      /\ ConstId(s) \in Nat
  BY ConstIdIs DEF IdsInv, PoolInv, StringPoolTypeOK
<1> QED
  BY <1>1 DEF IdOf, OwnId

\* The abstract state.
MappedIds == [s \in String |-> IdOf(s)]
MappedTold == [t \in Thread |-> Told(t)]

LEMMA InitGivesIds == Init => Promise!IdsInit
<1> SUFFICES ASSUME Init PROVE Promise!IdsInit
  OBVIOUS
<1>1. IdsInv
  BY IdsInit
<1>2. /\ const = ConstStrings /\ own.fCurId = 1 /\ Len(const) \in Nat
      /\ own.fHashTable = [s \in String |-> 0]
  BY StringPoolAssumption DEF Init
<1>3. ASSUME NEW s \in String
      PROVE  /\ IdOf(s) = ConstId(s) /\ IdOf(s) \in Nat /\ IdOf(s) <= Len(const)
             /\ IdOf(s) # 0 => const[IdOf(s)] = s
  <2>1. own.fHashTable[s] = 0
    BY <1>2
  <2>2. /\ ConstId(s) \in Nat
        /\ ConstId(s) # 0 => ConstId(s) \in 1..Len(const) /\ const[ConstId(s)] = s
    BY <1>1, ConstIdIs DEF IdsInv
  <2> QED
    BY <1>1, <1>2, <2>1, <2>2, IdOfIs
<1>4. NextId = Len(const) + 1
  BY <1>2 DEF NextId
<1>5. MappedIds \in [String -> Nat] /\ NextId \in Nat \ {0}
  BY <1>2, <1>3, <1>4 DEF MappedIds
<1>6. ASSUME NEW s \in String, NEW r \in String
      PROVE  /\ MappedIds[s] < NextId
             /\ MappedIds[s] = MappedIds[r] /\ s # r => MappedIds[s] = 0
  BY <1>2, <1>3, <1>4 DEF MappedIds
<1>7. [t \in Thread |-> Told(t)] = [u \in Thread |-> <<>>]
  BY DEF Init, Told
<1> DEFINE ids == [s \in String |-> IdOf(s)]
<1>8. /\ ids \in [String -> Nat]
      /\ \A s, r \in String : ids[s] < NextId /\ (ids[s] = ids[r] /\ s # r => ids[s] = 0)
  BY <1>5, <1>6 DEF MappedIds
<1> QED
  BY <1>5, <1>7, <1>8, Zenon DEF Promise!IdsInit, Promise!Nothing

\* What counts as a step of StringIds.
LEMMA Gives ==
  ASSUME NEW s \in String, MappedIds[s] = 0, MappedIds' = [MappedIds EXCEPT ![s] = NextId],
         NextId' = NextId + 1, UNCHANGED MappedTold
  PROVE  [Promise!IdsNext]_Promise!idVars
<1>1. Promise!Give(s)
  BY DEF Promise!Give, MappedIds, MappedTold
<1> QED
  BY <1>1 DEF Promise!IdsNext

LEMMA Tells ==
  ASSUME NEW t \in Thread, NEW s \in String, MappedIds[s] # 0, UNCHANGED <<MappedIds, NextId>>,
         MappedTold' = [MappedTold EXCEPT ![t] = <<s, MappedIds[s]>>]
  PROVE  [Promise!IdsNext]_Promise!idVars
<1>1. Promise!Tell(t, s)
  BY DEF Promise!Tell, MappedIds, MappedTold
<1> QED
  BY <1>1 DEF Promise!IdsNext

LEMMA Forgets ==
  ASSUME NEW t \in Thread, UNCHANGED <<MappedIds, NextId>>,
         MappedTold' = [MappedTold EXCEPT ![t] = <<>>]
  PROVE  [Promise!IdsNext]_Promise!idVars
<1>1. Promise!Forget(t)
  BY DEF Promise!Forget, Promise!Nothing, MappedIds, MappedTold
<1> QED
  BY <1>1 DEF Promise!IdsNext

LEMMA Stutters ==
  ASSUME UNCHANGED <<MappedIds, NextId, MappedTold>>
  PROVE  [Promise!IdsNext]_Promise!idVars
BY DEF Promise!idVars, MappedIds, MappedTold

LEMMA PoolsKept ==
  ASSUME UNCHANGED <<const, own>> PROVE UNCHANGED <<MappedIds, NextId>>
BY DEF MappedIds, NextId, IdOf, ConstId, OwnId

LEMMA ToldIs ==
  ASSUME IdsInv, NEW t \in Thread, NEW c, call' = [call EXCEPT ![t] = c]
  PROVE  MappedTold' =
           [MappedTold EXCEPT ![t] = IF c.op = "addOrFind" /\ c.at = "idle"
                                     THEN <<c.str, c.result>> ELSE <<>>]
<1>1. call'[t] = c /\ \A q \in Thread : q # t => call'[q] = call[q]
  BY DEF IdsInv, PoolInv, StringPoolTypeOK
<1>2. ASSUME NEW q \in Thread
      PROVE  Told(q)' = IF q # t THEN Told(q)
                        ELSE IF c.op = "addOrFind" /\ c.at = "idle"
                        THEN <<c.str, c.result>> ELSE <<>>
  BY <1>1 DEF Told
<1> QED
  BY <1>2 DEF MappedTold

\* Nobody is told anything by a step on the way to an answer.
LEMMA ToldKept ==
  ASSUME NEW t \in Thread, \A q \in Thread \ {t} : call'[q] = call[q],
         call[t].at # "idle", call'[t].op # "addOrFind" \/ call'[t].at # "idle"
  PROVE  MappedTold' = MappedTold
<1>1. ASSUME NEW q \in Thread PROVE Told(q)' = Told(q)
  BY DEF Told
<1> QED
  BY <1>1 DEF MappedTold
-----------------------------------------------------------------------------
LEMMA BeginForgets ==
  ASSUME IdsInv, NEW t \in Thread, Begin(t) PROVE [Promise!IdsNext]_Promise!idVars
<1>1. PICK op, s, n : Call(t, op, s, n)
  BY DEF Begin
<1> DEFINE c == [op |-> op, str |-> s, id |-> n, count |-> 0, thrown |-> FALSE,
                 result |-> 0, value |-> NoString,
                 at |-> IF op = "getStringCount" THEN "count" ELSE "look"]
<1>2. call' = [call EXCEPT ![t] = c] /\ UNCHANGED <<const, own>>
  BY <1>1 DEF Call
<1>3. c.at # "idle"
  OBVIOUS
<1> HIDE DEF c
<1>4. MappedTold' = [MappedTold EXCEPT ![t] = <<>>]
  BY <1>2, <1>3, ToldIs
<1> QED
  BY <1>2, <1>4, PoolsKept, Forgets

LEMMA LookTells ==
  ASSUME IdsInv, NEW t \in Thread, LookForString(t)
  PROVE  [Promise!IdsNext]_Promise!idVars
<1>1. /\ call[t] \in Calls /\ call[t].at = "look" /\ UNCHANGED <<const, own>>
      /\ call[t].op = "addOrFind" => call[t].str \in String
  BY DEF IdsInv, PoolInv, StringPoolTypeOK, LookForString, At, StringGiven, StringOps
<1>2. CASE ConstId(call[t].str) # 0 /\ call[t].op = "addOrFind"
  <2> DEFINE c == [call[t] EXCEPT !.at = "idle", !.result = ConstId(call[t].str)]
  <2>1. call' = [call EXCEPT ![t] = c]
    BY <1>2 DEF LookForString, Answer
  <2>2. c.op = "addOrFind" /\ c.at = "idle" /\ c.str = call[t].str /\ c.result = ConstId(c.str)
    BY <1>1, <1>2 DEF Calls
  <2> HIDE DEF c
  <2>3. MappedIds[c.str] = c.result /\ c.result # 0 /\ c.str \in String
    BY <1>1, <1>2, <2>2 DEF MappedIds, IdOf
  <2>4. MappedTold' = [MappedTold EXCEPT ![t] = <<c.str, MappedIds[c.str]>>]
    BY <2>1, <2>2, <2>3, ToldIs
  <2> QED
    BY <1>1, <2>3, <2>4, PoolsKept, Tells
<1>3. CASE ~(ConstId(call[t].str) # 0 /\ call[t].op = "addOrFind")
  <2>1. PICK c : /\ call' = [call EXCEPT ![t] = c]
                 /\ c.op # "addOrFind" \/ c.at # "idle"
    <3>1. CASE ConstId(call[t].str) # 0
      <4> DEFINE n == IF call[t].op = "existsString" THEN 1 ELSE ConstId(call[t].str)
                 c == [call[t] EXCEPT !.at = "idle", !.result = n]
      <4>1. call' = [call EXCEPT ![t] = c]
        BY <3>1 DEF LookForString, Answer
      <4>2. c.op # "addOrFind"
        BY <1>1, <1>3, <3>1 DEF Calls
      <4> QED
        BY <4>1, <4>2
    <3>2. CASE ConstId(call[t].str) = 0
      <4> DEFINE c == [call[t] EXCEPT !.at = IF call[t].op = "existsString"
                                             THEN "lock" ELSE "count"]
      <4>1. call' = [call EXCEPT ![t] = c]
        BY <3>2 DEF LookForString, Goto
      <4>2. c.at # "idle"
        BY <1>1 DEF Calls
      <4> QED
        BY <4>1, <4>2
    <3> QED
      BY <3>1, <3>2
  <2>2. call'[t] = c /\ \A q \in Thread \ {t} : call'[q] = call[q]
    BY <2>1 DEF IdsInv, PoolInv, StringPoolTypeOK
  <2>3. MappedTold' = MappedTold
    BY <1>1, <2>1, <2>2, ToldKept
  <2> QED
    BY <1>1, <2>3, PoolsKept, Stutters
<1> QED
  BY <1>2, <1>3

LEMMA UnlockTells ==
  ASSUME IdsInv, NEW t \in Thread, Unlock(t) PROVE [Promise!IdsNext]_Promise!idVars
<1> DEFINE c == [call[t] EXCEPT !.at = "idle"]
<1>1. /\ call[t] \in Calls /\ call[t].at = "unlock" /\ UNCHANGED <<const, own>>
      /\ call' = [call EXCEPT ![t] = c] /\ AnswersRight(call[t])
      /\ call[t].op = "addOrFind" => call[t].str \in String
  BY DEF IdsInv, PoolInv, StringPoolTypeOK, Unlock, Goto, At, AnswersAreRight, StringGiven,
         StringOps
<1>2. /\ c.at = "idle" /\ c.op = call[t].op
      /\ c.str = call[t].str /\ c.result = call[t].result
  BY <1>1 DEF Calls
<1> HIDE DEF c
<1>3. CASE call[t].op = "addOrFind"
  <2>1. MappedIds[c.str] = c.result /\ c.result # 0 /\ c.str \in String
    BY <1>1, <1>2, <1>3 DEF MappedIds, AnswersRight
  <2>2. MappedTold' = [MappedTold EXCEPT ![t] = <<c.str, MappedIds[c.str]>>]
    BY <1>1, <1>2, <1>3, <2>1, ToldIs, ZenonT(60)
  <2> QED
    BY <1>1, <2>1, <2>2, PoolsKept, Tells
<1>4. CASE call[t].op # "addOrFind"
  <2>1. call'[t] = c /\ \A q \in Thread \ {t} : call'[q] = call[q]
    BY <1>1 DEF IdsInv, PoolInv, StringPoolTypeOK
  <2>2. MappedTold' = MappedTold
    BY <1>1, <1>2, <1>4, <2>1, ToldKept
  <2> QED
    BY <1>1, <2>2, PoolsKept, Stutters
<1> QED
  BY <1>3, <1>4

\* The other steps that leave the pools alone.
LEMMA OthersAreSilent ==
  ASSUME IdsInv, NEW t \in Thread,
         LookForValue(t) \/ LookForId(t) \/ Count(t) \/ Lock(t) \/ FindOwn(t) \/ QueryOwn(t)
  PROVE  [Promise!IdsNext]_Promise!idVars
<1> DEFINE Moves ==
      /\ \A q \in Thread \ {t} : call'[q] = call[q]
      /\ call'[t].op # "addOrFind" \/ call'[t].at # "idle"
<1>1. /\ call \in [Thread -> Calls] /\ call[t] \in Calls /\ call[t].at # "idle"
      /\ UNCHANGED <<const, own>>
  BY DEF IdsInv, PoolInv, StringPoolTypeOK, LookForValue, LookForId, Count, Lock, FindOwn,
         QueryOwn, At
<1>2. ASSUME LookForValue(t) PROVE Moves
  BY <1>1, <1>2 DEF LookForValue, Goto, Calls
<1>3. ASSUME LookForId(t) PROVE Moves
  BY <1>1, <1>3 DEF LookForId, Answer, Calls
<1>4. ASSUME Count(t) PROVE Moves
  BY <1>1, <1>4 DEF Count, Calls
<1>5. ASSUME Lock(t) PROVE Moves
  BY <1>1, <1>5 DEF Lock, Goto, Calls
<1>6. ASSUME FindOwn(t) PROVE Moves
  <2>1. PICK p \in {"unlock", "grow", "store"} :
          Goto(t, p) \/ \E n : call' = [call EXCEPT ![t].at = p, ![t].result = n]
    BY <1>6 DEF FindOwn, Answered, Goto
  <2> QED
    BY <1>1, <2>1 DEF Goto, Calls
<1>7. ASSUME QueryOwn(t) PROVE Moves
  <2>1. call[t].op # "addOrFind"
    BY <1>7 DEF QueryOwn
  <2>2. ASSUME NEW n, Answered(t, n) PROVE Moves
    BY <1>1, <2>1, <2>2 DEF Answered, Calls
  <2>3. ASSUME NEW v, call' = [call EXCEPT ![t] = [call[t] EXCEPT !.at = "unlock", !.value = v]]
        PROVE  Moves
    BY <1>1, <2>1, <2>3 DEF Calls
  <2>4. ASSUME call' = [call EXCEPT ![t] = [call[t] EXCEPT !.at = "unlock", !.thrown = TRUE]]
        PROVE  Moves
    BY <1>1, <2>1, <2>4 DEF Calls
  <2>5. \/ \E n : Answered(t, n)
        \/ \E v : call' = [call EXCEPT ![t] = [call[t] EXCEPT !.at = "unlock", !.value = v]]
        \/ call' = [call EXCEPT ![t] = [call[t] EXCEPT !.at = "unlock", !.thrown = TRUE]]
    BY <1>7 DEF QueryOwn
  <2> QED
    BY <2>2, <2>3, <2>4, <2>5
<1>8. MappedTold' = MappedTold
  BY <1>1, <1>2, <1>3, <1>4, <1>5, <1>6, <1>7, ToldKept
<1> QED
  BY <1>1, <1>8, PoolsKept, Stutters

\* Neither growing the id map nor storing a new element gives an id.
LEMMA GrowIsSilent ==
  ASSUME IdsInv, NEW t \in Thread, Grow(t) \/ Store(t)
  PROVE  [Promise!IdsNext]_Promise!idVars
<1>1. /\ call \in [Thread -> Calls] /\ call[t] \in Calls /\ call[t].at # "idle"
      /\ UNCHANGED const /\ own.fCurId \in Nat \ {0}
      /\ own \in [fHashTable : [String -> Nat], fCurId : Nat \ {0}, fMapCapacity : Nat,
                  fIdMap : [0..(own.fMapCapacity - 1) -> StringOrNull]]
  BY DEF IdsInv, PoolInv, StringPoolTypeOK, Grow, Store, At
<1>2. /\ \A q \in Thread \ {t} : call'[q] = call[q]
      /\ call'[t].at # "idle"
  BY <1>1 DEF Grow, Store, Goto, Calls
<1>3. MappedTold' = MappedTold
  BY <1>1, <1>2, ToldKept
<1>4. own'.fCurId = own.fCurId
  BY <1>1 DEF Grow, Store
<1>5. ASSUME NEW s \in String PROVE IdOf(s)' = IdOf(s)
  <2>1. \/ own'.fHashTable[s] = own.fHashTable[s]
        \/ own.fHashTable[s] = 0 /\ own'.fHashTable[s] = own.fCurId
    <3>1. CASE Grow(t)
      <4>1. own'.fHashTable = own.fHashTable
        BY <1>1, <3>1 DEF Grow
      <4> QED
        BY <4>1
    <3>2. CASE Store(t)
      <4>1. own'.fHashTable = [own.fHashTable EXCEPT ![call[t].str] = own.fCurId]
        BY <1>1, <3>2 DEF Store
      <4>2. own.fHashTable[call[t].str] = 0
        BY <3>2 DEF IdsInv, PoolInv, AdderSound, Store, At
      <4> QED
        BY <1>1, <4>1, <4>2
    <3> QED
      BY <3>1, <3>2
  <2>2. OwnId(s)' = OwnId(s)
    BY <1>1, <1>4, <2>1 DEF OwnId
  <2> QED
    BY <1>1, <2>2 DEF IdOf, ConstId
<1>6. UNCHANGED <<MappedIds, NextId>>
  BY <1>1, <1>4, <1>5 DEF MappedIds, NextId
<1> QED
  BY <1>3, <1>6, Stutters

\* The new string gets the next id when fCurId is bumped, and only it.
LEMMA BumpGives ==
  ASSUME IdsInv, NEW t \in Thread, Bump(t) PROVE [Promise!IdsNext]_Promise!idVars
<1>1. /\ call \in [Thread -> Calls] /\ call[t] \in Calls /\ call[t].at = "bump"
      /\ call[t].op = "addOrFind" /\ call[t].str \in String /\ Knows(call[t])
      /\ UNCHANGED const /\ own.fCurId \in Nat \ {0} /\ Len(const) \in Nat
      /\ own \in [fHashTable : [String -> Nat], fCurId : Nat \ {0}, fMapCapacity : Nat,
                  fIdMap : [0..(own.fMapCapacity - 1) -> StringOrNull]]
      /\ own.fHashTable[call[t].str] = own.fCurId /\ own.fIdMap[own.fCurId] = call[t].str
  BY DEF IdsInv, PoolInv, StringPoolTypeOK, Bump, At, AdderSound, CallsKnow, StringGiven,
         StringOps
<1>2. PICK s \in String : s = call[t].str
  BY <1>1
<1>3. /\ own'.fCurId = own.fCurId + 1 /\ own'.fHashTable = own.fHashTable
  BY <1>1 DEF Bump
<1>4. /\ \A q \in Thread \ {t} : call'[q] = call[q]
      /\ call'[t].at # "idle"
  BY <1>1 DEF Bump, Answered, Calls
<1>5. UNCHANGED MappedTold
  BY <1>1, <1>4, ToldKept
<1>6. ConstId(s) = 0
  BY <1>1, <1>2 DEF Knows, StringOps
<1>7. IdOf(s) = 0 /\ IdOf(s)' = NextId
  <2>1. OwnId(s) = 0 /\ OwnId(s)' = own.fCurId /\ ConstId(s)' = ConstId(s)
    BY <1>1, <1>3, <1>2 DEF OwnId, ConstId
  <2> QED
    BY <1>1, <1>6, <2>1 DEF IdOf, NextId
<1>8. ASSUME NEW r \in String, r # s PROVE IdOf(r)' = IdOf(r)
  <2>1. own.fHashTable[r] # own.fCurId
    BY <1>1, <1>2, <1>8 DEF IdsInv, HashedIsMapped
  <2>2. OwnId(r)' = OwnId(r) /\ ConstId(r)' = ConstId(r)
    BY <1>1, <1>3, <2>1 DEF OwnId, ConstId
  <2> QED
    BY <1>1, <2>2 DEF IdOf
<1>9. MappedIds[s] = 0 /\ MappedIds' = [MappedIds EXCEPT ![s] = NextId]
  BY <1>7, <1>8 DEF MappedIds
<1>10. NextId' = NextId + 1
  BY <1>1, <1>3 DEF NextId
<1> QED
  BY <1>5, <1>9, <1>10, Gives

LEMMA StepGivesIds == IdsInv /\ [Next]_spVars => [Promise!IdsNext]_Promise!idVars
<1> SUFFICES ASSUME IdsInv, [Next]_spVars PROVE [Promise!IdsNext]_Promise!idVars
  OBVIOUS
<1>1. CASE UNCHANGED spVars
  <2>1. UNCHANGED <<const, own, call>>
    BY <1>1 DEF spVars
  <2>2. UNCHANGED MappedTold
    BY <2>1 DEF MappedTold, Told
  <2> QED
    BY <2>1, <2>2, PoolsKept, Stutters
<1>2. ASSUME NEW t \in Thread, Begin(t) \/ CallStep(t)
      PROVE  [Promise!IdsNext]_Promise!idVars
  BY <1>2, BeginForgets, LookTells, OthersAreSilent, GrowIsSilent, BumpGives, UnlockTells
     DEF CallStep
<1> QED
  BY <1>1, <1>2 DEF Next

\* The class keeps the promise of StringIds to all threads together, though
\* each of their calls is many steps and only some of those hold the mutex:
\* an id is given when fCurId is bumped and told when addOrFind returns.
THEOREM PoolGivesIds == Spec => ImplementsStringIds
<1>1. Spec => Promise!IdsInit
  BY InitGivesIds DEF Spec
<1> QED
  BY <1>1, StepGivesIds, IdsInvariant, PTL DEF Spec, ImplementsStringIds, Promise!IdsSpec
=============================================================================
