----------------------------- MODULE Reclaim -----------------------------
(*************************************************************************)
(* What a garbage collector with weak tables and finalizers promises: it *)
(* frees nothing the program, or a finalizer that is to come, can reach. *)
(*************************************************************************)
CONSTANT Address

VARIABLES
  memory,  \* the objects that exist
  values,  \* those the program names by their contents or place: strings, and
           \* the upvalues of its locals
  reach,   \* what the program can get at, through weak references too
  firm,    \* and through strong references only, that do not hang on an object
           \* whose finalizer is to come
  saved,   \* what a finalizer to come can get at
  pending, \* the objects whose finalizer is to come
  done     \* the objects whose finalizer has been called

vars == <<memory, values, reach, firm, saved, pending, done>>

\* What goes is nothing that anyone can get at.
FreesGarbage == \A o \in memory \ memory' : o \notin reach \union saved

\* The program makes new objects, and keeps, loses or deletes others: but for
\* values, it never gets at one it could not reach.
Work ==
  /\ UNCHANGED <<pending, done>>
  /\ FreesGarbage
  /\ reach' \subseteq reach \union values \union (memory' \ memory)
  /\ \A o \in saved' : o \in saved \/ o \in reach'

Free ==
  /\ memory' \subseteq memory /\ FreesGarbage
  /\ done' = done \intersect memory'
  /\ UNCHANGED <<reach, firm, saved, pending>>

\* Finalizers are arranged for objects with no strong reference left, and once
\* for each.
Arrange ==
  /\ pending \subseteq pending'
  /\ (pending' \ pending) \intersect (firm \union done) = {}
  /\ saved \subseteq saved' /\ saved' \subseteq memory
  /\ UNCHANGED <<memory, reach, firm, done>>

\* Weak references go, and with an entry its other end.
Clear ==
  /\ reach' \subseteq reach /\ firm' \subseteq firm /\ saved' \subseteq saved
  /\ UNCHANGED <<memory, pending, done>>

\* A finalizer is called, unless there is none any more; its argument may come
\* back to life.
Call(u) ==
  /\ u \in pending /\ u \notin done
  /\ pending' = pending \ {u}
  /\ done' \in {done, done \union {u}}
  /\ reach' \subseteq reach \union saved /\ saved' \subseteq saved
  /\ UNCHANGED memory

Init == /\ reach \subseteq memory /\ memory \subseteq Address
        /\ firm \subseteq reach /\ saved = {} /\ pending = {} /\ done = {}

Next == Work \/ Free \/ Arrange \/ Clear \/ \E u \in pending : Call(u)

Spec == Init /\ [][Next]_vars
=============================================================================
