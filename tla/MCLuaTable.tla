---------------------------- MODULE MCLuaTable ----------------------------
(* A table of few keys, most of which collide. *)
EXTENDS LuaTable, TLC
CONSTANTS s, o, x, nil, invalid, done

OneValue == {x}

\* All in one chain.
OneChain == [k \in {1, 2, s, o} |-> 0]
\* Chains that meet, and elements that move.
Meeting == [k \in {1, 2, s, o} |-> CASE k = 1 -> 1 [] k \in {2, o} -> 2 [] OTHER -> 0]
\* Integers for either part, and one for the hash part only.
Integers4 == [k \in {1, 2, 4, 5} |-> k % 2]

SomeTables == {<<OneChain, 0, 0>>, <<Meeting, 0, 4>>, <<Integers4, 3, 1>>}
===========================================================================
