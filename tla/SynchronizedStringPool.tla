----------------------- MODULE SynchronizedStringPool -----------------------
(***************************************************************************)
(* The URI string pool of a locked grammar pool, shared by the threads     *)
(* that parse with it.  XMLSynchronizedStringPool first asks the pool it   *)
(* was made with, fConstPool, without a lock, and keeps strings that are   *)
(* not there in a table of its own (XMLStringPool) under fMutex.  A call   *)
(* is a sequence of steps here, as every read of fConstPool, the lock, and *)
(* every write to the table can be overtaken by another thread.            *)
(*                                                                         *)
(* Spec is what the class is made for: fConstPool does not change.  It is  *)
(* const for this class only, though: a parser that was created before the *)
(* grammar pool was locked still adds to it, and RawSpec has that too.     *)
(***************************************************************************)
EXTENDS Naturals, Sequences

CONSTANTS Thread,        \* threads that call the synchronized pool
          String,        \* the strings (URIs) they may ask for
          ConstStrings,  \* the strings of fConstPool when it is locked, by id
          InitialCap,    \* the initial fMapCapacity (64 in the code)
          NoThread,      \* no thread holds the mutex
          NoString       \* the null pointer

ASSUME StringPoolAssumption ==
  /\ ConstStrings \in Seq(String)
  /\ \A i, j \in 1..Len(ConstStrings) : ConstStrings[i] = ConstStrings[j] => i = j
  /\ InitialCap \in Nat /\ InitialCap > 1
  /\ NoThread \notin Thread /\ NoString \notin String

VARIABLES const,   \* fConstPool: its strings by id
          own,     \* fHashTable, fIdMap, fMapCapacity, fCurId of this pool
          mutex,   \* fMutex: who holds it
          call     \* per thread: the call in progress, or the last one's result

spVars == <<const, own, mutex, call>>
-----------------------------------------------------------------------------
(* XMLStringPool; an id of 0 is no id *)
ConstId(s) ==
  IF \E i \in 1..Len(const) : const[i] = s
  THEN CHOOSE i \in 1..Len(const) : const[i] = s ELSE 0

StringOrNull == String \cup {NoString}

StringOps == {"addOrFind", "getId", "existsString"}
IdOps == {"getValueForId", "existsId"}
Ops == StringOps \cup IdOps \cup {"getStringCount", "none"}

\* where a call stands: own to bump are executed with the mutex held
Locked == {"own", "grow", "store", "bump", "unlock"}
Places == {"idle", "look", "count", "lock"} \cup Locked

\* what a call may ask for and answer; 0 is false, 1 is true
Calls == [op : Ops, str : StringOrNull, id : Nat, count : Nat, at : Places,
          thrown : BOOLEAN, result : Nat, value : StringOrNull]

Init ==
  /\ const = ConstStrings
  /\ own = [fHashTable |-> [s \in String |-> 0],
            fIdMap |-> [i \in 0..(InitialCap - 1) |-> NoString],
            fMapCapacity |-> InitialCap, fCurId |-> 1]
  /\ mutex = NoThread
  /\ call = [t \in Thread |->
       [op |-> "none", str |-> NoString, id |-> 0, count |-> 0, at |-> "idle",
        thrown |-> FALSE, result |-> 0, value |-> NoString]]
-----------------------------------------------------------------------------
(* what the strings' ids are *)
\* a string is in the table once fCurId has passed it
OwnId(s) == IF own.fHashTable[s] < own.fCurId THEN own.fHashTable[s] ELSE 0

IdOf(s) ==
  IF ConstId(s) # 0 THEN ConstId(s)
  ELSE IF OwnId(s) # 0 THEN Len(const) + OwnId(s) ELSE 0

NextId == Len(const) + own.fCurId
-----------------------------------------------------------------------------
(* the steps of a call *)
At(t, place) == call[t].at = place

Goto(t, place) == call' = [call EXCEPT ![t].at = place]

\* the answer goes to the caller
Answer(t, n) == call' = [call EXCEPT ![t].at = "idle", ![t].result = n]

\* the answer is ready and the mutex is still held
Answered(t, n) == call' = [call EXCEPT ![t].at = "unlock", ![t].result = n]

Call(t, op, s, n) ==
  /\ At(t, "idle")
  /\ call' = [call EXCEPT ![t] =
       [op |-> op, str |-> s, id |-> n, count |-> 0, thrown |-> FALSE,
        result |-> 0, value |-> NoString,
        at |-> IF op = "getStringCount" THEN "count" ELSE "look"]]
  /\ UNCHANGED <<const, own, mutex>>

\* is the string in the const pool?
LookForString(t) ==
  LET c == call[t] id == ConstId(c.str)
  IN  /\ At(t, "look") /\ c.op \in StringOps
      /\ IF id # 0 THEN Answer(t, IF c.op = "existsString" THEN 1 ELSE id)
         ELSE Goto(t, IF c.op = "existsString" THEN "lock" ELSE "count")
      /\ UNCHANGED <<const, own, mutex>>

\* is the id one of the const pool's?  getValueForId(0) throws there
LookForValue(t) ==
  LET c == call[t]
  IN  /\ At(t, "look") /\ c.op = "getValueForId"
      /\ IF c.id > Len(const) THEN Goto(t, "count")
         ELSE IF c.id = 0
         THEN call' = [call EXCEPT ![t].at = "idle", ![t].thrown = TRUE]
         ELSE call' = [call EXCEPT ![t].at = "idle", ![t].value = const[c.id]]
      /\ UNCHANGED <<const, own, mutex>>

\* exists(id) reads the count once
LookForId(t) ==
  LET c == call[t]
  IN  /\ At(t, "look") /\ c.op = "existsId"
      /\ IF c.id = 0 \/ c.id <= Len(const)
         THEN Answer(t, IF c.id = 0 THEN 0 ELSE 1)
         ELSE call' = [call EXCEPT ![t].at = "lock", ![t].count = Len(const)]
      /\ UNCHANGED <<const, own, mutex>>

Count(t) ==
  /\ At(t, "count")
  /\ call' = [call EXCEPT ![t].at = "lock", ![t].count = Len(const)]
  /\ UNCHANGED <<const, own, mutex>>

\* mutant: the constructor of XMLMutexLock does not wait
Overtakes(t) == TRUE

Obtains(t) == mutex = NoThread

Lock(t) ==
  /\ At(t, "lock") /\ Obtains(t)
  /\ mutex' = t
  /\ Goto(t, "own")
  /\ UNCHANGED <<const, own>>

\* mutant: the id map is grown when it has overflown
FullBeyond == own.fCurId > own.fMapCapacity

Full == own.fCurId = own.fMapCapacity

\* addOrFind of the table; a new string needs an entry
FindOwn(t) ==
  LET id == own.fHashTable[call[t].str]
  IN  /\ At(t, "own") /\ call[t].op = "addOrFind"
      /\ IF id # 0 THEN Answered(t, call[t].count + id)
         ELSE Goto(t, IF Full THEN "grow" ELSE "store")
      /\ UNCHANGED <<const, own, mutex>>

\* addNewEntry: the id map is grown by half,
Grow(t) ==
  /\ At(t, "grow")
  /\ LET newCap == (own.fMapCapacity * 3) \div 2
     IN  own' = [own EXCEPT !.fMapCapacity = newCap, !.fIdMap =
                       [i \in 0..(newCap - 1) |-> IF i < own.fMapCapacity THEN @[i] ELSE NoString]]
  /\ Goto(t, "store")
  /\ UNCHANGED <<const, mutex>>

\* the new element is put into the hash table and the id map
Store(t) ==
  LET s == call[t].str
  IN  /\ At(t, "store")
      /\ own' = [own EXCEPT !.fHashTable[s] = own.fCurId, !.fIdMap[own.fCurId] = s]
      /\ Goto(t, "bump")
      /\ UNCHANGED <<const, mutex>>

\* mutant: the id is read after fCurId has been bumped
BumpedId == own.fCurId + 1

NewId == own.fCurId

\* and fCurId is bumped
Bump(t) ==
  /\ At(t, "bump")
  /\ own' = [own EXCEPT !.fCurId = @ + 1]
  /\ Answered(t, call[t].count + NewId)
  /\ UNCHANGED <<const, mutex>>

\* mutant: the id that comes next is taken for one that has been given
LegalUpToNext(c) == c.id > c.count /\ c.id - c.count <= own.fCurId

Legal(c) == c.id > c.count /\ c.id - c.count < own.fCurId

\* the queries of the table; getValueForId throws with the mutex held
QueryOwn(t) ==
  LET c == call[t]
  IN  /\ At(t, "own")
      /\ \/ c.op = "getId" /\ Answered(t, own.fHashTable[c.str] + c.count)
         \/ /\ c.op = "existsString"
            /\ Answered(t, IF own.fHashTable[c.str] # 0 THEN 1 ELSE 0)
         \/ c.op = "existsId" /\ Answered(t, IF c.id < own.fCurId + c.count THEN 1 ELSE 0)
         \/ c.op = "getStringCount" /\ Answered(t, own.fCurId + c.count - 1)
         \/ /\ c.op = "getValueForId"
            /\ call' = [call EXCEPT ![t] =
                 IF Legal(c)
                 THEN [c EXCEPT !.at = "unlock", !.value = own.fIdMap[c.id - c.count]]
                 ELSE [c EXCEPT !.at = "unlock", !.thrown = TRUE]]
      /\ UNCHANGED <<const, own, mutex>>

\* mutant: an exception leaves the mutex locked
ReleasesUnlessThrown(t) == IF call[t].thrown THEN t ELSE NoThread

Releases(t) == NoThread

\* the destructor of XMLMutexLock, on a return and on an exception
Unlock(t) ==
  /\ At(t, "unlock")
  /\ mutex' = Releases(t)
  /\ Goto(t, "idle")
  /\ UNCHANGED <<const, own>>

\* a parser created before the pool was locked calls fConstPool->addOrFind
RawAdd(s) ==
  /\ ConstId(s) = 0
  /\ const' = Append(const, s)
  /\ UNCHANGED <<own, mutex, call>>
-----------------------------------------------------------------------------
\* ids a caller may ask for: any it can have seen, 0, and one too many
Ids == 0..(NextId + 1)

CallStep(t) ==
  \/ LookForString(t) \/ LookForValue(t) \/ LookForId(t) \/ Count(t) \/ Lock(t)
  \/ FindOwn(t) \/ Grow(t) \/ Store(t) \/ Bump(t) \/ QueryOwn(t) \/ Unlock(t)

Begin(t) ==
  \/ \E op \in StringOps, s \in String : Call(t, op, s, 0)
  \/ \E op \in IdOps, n \in Ids : Call(t, op, NoString, n)
  \/ Call(t, "getStringCount", NoString, 0)

Next == \E t \in Thread : Begin(t) \/ CallStep(t)

RawNext == Next \/ \E s \in String : RawAdd(s)

\* threads run, and a thread that waits for the mutex gets it in the end
Fairness == \A t \in Thread : WF_spVars(CallStep(t)) /\ SF_spVars(Lock(t))

Spec == Init /\ [][Next]_spVars

FairSpec == Spec /\ Fairness

RawSpec == Init /\ [][RawNext]_spVars /\ Fairness
-----------------------------------------------------------------------------
\* Every variable has its type, and the id map has room for an entry fCurId
\* unless it is to be grown.
StringPoolTypeOK ==
  /\ const \in Seq(String)
  /\ own \in [fHashTable : [String -> Nat], fCurId : Nat \ {0}, fMapCapacity : Nat,
              fIdMap : [0..(own.fMapCapacity - 1) -> StringOrNull]]
  /\ own.fCurId <= own.fMapCapacity
  /\ mutex \in Thread \cup {NoThread}
  /\ call \in [Thread -> Calls]

\* Whoever works on the table holds the mutex, so at most one thread does.
MutexHeld == \A t \in Thread : call[t].at \in Locked <=> mutex = t

\* The hash table and the id map are inverse to each other below fCurId.
TablesAgree ==
  \A i \in 1..(own.fCurId - 1) :
    /\ i \in DOMAIN own.fIdMap
    /\ own.fIdMap[i] # NoString
    /\ own.fHashTable[own.fIdMap[i]] = i

\* getValueForId answers with the string whose id was asked for.
ValueHasId ==
  \A t \in Thread :
    call[t].op = "getValueForId" /\ call[t].at = "idle" /\ ~call[t].thrown
      => call[t].value # NoString /\ IdOf(call[t].value) = call[t].id

\* A string that has an id keeps it, whatever other threads add and however the
\* tables grow (addNewEntry): strings are never removed.  That no two strings
\* get the same id is for ImplementsStringIds.
IdsAreForGood ==
  [][\A s \in String : IdOf(s) # 0 => IdOf(s)' = IdOf(s)]_spVars

\* getId of a string the pool has not got answers 0, `which is never a legal
\* id', as XMLStringPool's does.
UnknownIsZero ==
  [][\A t \in Thread :
       call[t].op = "getId" /\ At(t, "own") /\ call'[t].at = "unlock"
         /\ IdOf(call[t].str) = 0 => call'[t].result = 0]_spVars

\* Every call returns.
CallsReturn == \A t \in Thread : call[t].at # "idle" ~> call[t].at = "idle"

\* The threads see one table of ids: addOrFind tells each the id of the string.
Told(t) ==
  IF call[t].op = "addOrFind" /\ call[t].at = "idle"
  THEN <<call[t].str, call[t].result>> ELSE <<>>

Promise == INSTANCE StringIds WITH
  User <- Thread,
  ids <- [s \in String |-> IdOf(s)], next <- NextId,
  told <- [t \in Thread |-> Told(t)]

ImplementsStringIds == Promise!IdsSpec
=============================================================================
