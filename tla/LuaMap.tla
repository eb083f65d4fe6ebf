------------------------------ MODULE LuaMap ------------------------------
(*************************************************************************)
(* What a table of Lua promises: a map, which may be traversed while     *)
(* elements are changed or removed. Each call of next gives a key that   *)
(* was not given before, or says that there is none left.                *)
(*************************************************************************)
EXTENDS Sequences

CONSTANTS Key, Int, Value, Nil, Done

VARIABLES
  content, \* what each key is mapped to
  at,      \* the key a traversal has come to; Nil if there is none; Done when
           \* next has said that there is no key left
  given,   \* the keys the traversal has given, in order
  lost     \* has an error of memory taken integer keys with it?

vars == <<content, at, given, lost>>

Given == {given[i] : i \in DOMAIN given}

\* A store by the program, or the collector clearing an entry.
Store(k) ==
  /\ UNCHANGED <<at, given, lost>>
  /\ at \in Key => content[k] # Nil
  /\ content'[k] \in Value \union {Nil}
  /\ \A j \in Key \ {k} : content'[j] = content[j]

\* next gives an element that it has not given yet,
Visit(k) ==
  /\ at # Done /\ at' = k
  /\ content[k] # Nil /\ k \notin Given
  /\ given' = Append(given, k)
  /\ UNCHANGED <<content, lost>>

\* or there is none, and the program is told.
End ==
  /\ at # Done /\ at' = Done
  /\ \A k \in Key : content[k] # Nil => k \in Given
  /\ given' = <<>>
  /\ UNCHANGED <<content, lost>>

\* The program goes on.
Resume ==
  /\ at = Done /\ at' = Nil
  /\ UNCHANGED <<content, given, lost>>

\* The program leaves a traversal at a key.
Leave ==
  /\ at \in Key /\ at' = Nil
  /\ given' = <<>>
  /\ UNCHANGED <<content, lost>>

\* An error of memory when the array part grows.
Damage ==
  /\ ~lost /\ lost' = TRUE /\ at = Nil
  /\ content' \in [Key -> Value \union {Nil}]
  /\ \A k \in Key : content'[k] = content[k] \/ (k \in Int /\ content'[k] = Nil)
  /\ UNCHANGED <<at, given>>

Init == content = [k \in Key |-> Nil] /\ at = Nil /\ given = <<>> /\ lost = FALSE

Next == \/ \E k \in Key : Store(k)
        \/ \E k \in Key : Visit(k)
        \/ End \/ Resume \/ Leave \/ Damage

Spec == Init /\ [][Next]_vars
===========================================================================
