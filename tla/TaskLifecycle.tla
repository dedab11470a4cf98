--------------------------- MODULE TaskLifecycle ----------------------------
(***************************************************************************)
(* What the Task Engine promises of a Task to everybody else: it appears   *)
(* in a state a decision gives it, at version 1, and from then on changes  *)
(* only along the state machine, one version per change.  Terminal states  *)
(* have no way out.  Several Tasks may change in one step, since a list    *)
(* expires every due Task it reads.                                        *)
(***************************************************************************)
EXTENDS Naturals, TaskStateMachine

CONSTANT TaskIds

VARIABLE life   \* [TaskIds -> [status, version]]

Unborn == [status |-> "NONE", version |-> 0]

Init == life = [t \in TaskIds |-> Unborn]

Appear(t) ==
  /\ life[t] = Unborn
  /\ \E s \in CreatedStates :
       life' = [life EXCEPT ![t] = [status |-> s, version |-> 1]]

Change(ts) ==
  \E to \in [ts -> TaskStatus] :
    /\ \A t \in ts : to[t] \in AllowedTransitions(life[t].status)
    /\ life' = [t \in TaskIds |->
                 IF t \in ts
                 THEN [status |-> to[t], version |-> life[t].version + 1]
                 ELSE life[t]]

Next ==
  \/ \E t \in TaskIds : Appear(t)
  \/ \E ts \in SUBSET TaskIds : Change(ts)

Spec == Init /\ [][Next]_life
=============================================================================
