------------------------------ MODULE StringIds ------------------------------
(***************************************************************************)
(* What a string pool promises its users, whoever they are: strings are    *)
(* given ids one after another, an id once given stays, and a user who     *)
(* asks for a string is told its id.                                       *)
(***************************************************************************)
EXTENDS Naturals

CONSTANTS User, String

VARIABLES ids,     \* the id of every string, 0 if it has none
          next,    \* the id the next new string will get
          told     \* what addOrFind has told each user last, Nothing if anything

idVars == <<ids, next, told>>

Nothing == <<>>

IdsInit ==
  /\ ids \in [String -> Nat]
  /\ next \in Nat \ {0}
  /\ \A s, r \in String : ids[s] < next /\ (ids[s] = ids[r] /\ s # r => ids[s] = 0)
  /\ told = [u \in User |-> Nothing]

Give(s) ==
  /\ ids[s] = 0
  /\ ids' = [ids EXCEPT ![s] = next]
  /\ next' = next + 1
  /\ UNCHANGED told

Tell(u, s) ==
  /\ ids[s] # 0
  /\ told' = [told EXCEPT ![u] = <<s, ids[s]>>]
  /\ UNCHANGED <<ids, next>>

Forget(u) ==
  /\ told' = [told EXCEPT ![u] = Nothing]
  /\ UNCHANGED <<ids, next>>

IdsNext ==
  \/ \E s \in String : Give(s)
  \/ \E u \in User : Forget(u) \/ \E s \in String : Tell(u, s)

IdsSpec == IdsInit /\ [][IdsNext]_idVars
=============================================================================
