-------------------------- MODULE CoroutineChain --------------------------
(*************************************************************************)
(* What coroutines promise: one runs, those that wait for it are in the  *)
(* order in which they have resumed each other, and each comes back to   *)
(* the one that has resumed it.                                          *)
(*************************************************************************)
EXTENDS Sequences, Integers

CONSTANTS Routine, Main

VARIABLES
  chain, \* the main routine, those resumed, the one that runs; empty at rest
  state  \* "absent", "suspended", "active" or "dead"

vars == <<chain, state>>

Begin == chain = <<>> /\ chain' = <<Main>> /\ UNCHANGED state
End   == chain = <<Main>> /\ chain' = <<>> /\ UNCHANGED state

Create(r) ==
  /\ state[r] = "absent" /\ state' = [state EXCEPT ![r] = "suspended"]
  /\ UNCHANGED chain

Resume(r) ==
  /\ chain # <<>> /\ state[r] = "suspended"
  /\ state' = [state EXCEPT ![r] = "active"]
  /\ chain' = Append(chain, r)

\* It yields, or returns or ends with an error.
Leave(r) ==
  /\ Len(chain) > 1 /\ r = chain[Len(chain)]
  /\ \E s \in {"suspended", "dead"} : state' = [state EXCEPT ![r] = s]
  /\ chain' = SubSeq(chain, 1, Len(chain) - 1)

Collect ==
  /\ \A r \in Routine : state'[r] \in {state[r], "absent"}
  /\ \A r \in Routine : state[r] = "active" => state'[r] = "active"
  /\ state' = [r \in Routine |-> state'[r]]
  /\ UNCHANGED chain

Init == chain = <<>> /\ state = [r \in Routine |-> "absent"]

Next == \/ Begin \/ End \/ Collect
        \/ \E r \in Routine : Create(r) \/ Resume(r) \/ Leave(r)

Spec == Init /\ [][Next]_vars
=============================================================================
