----------------------------- MODULE MCCalls -----------------------------
(* Programs of four kinds, by the operations they use. *)
EXTENDS Calls, TLC
CONSTANTS main, a, b, c, nil

\* Protected calls and handlers, to the limits of both stacks.
Protected == [ops |-> {"lua", "C", "meta", "call", "pcall", "xpcall", "error"}, made |-> {}]
\* Errors in and below a coroutine.
Switching == [ops |-> {"C", "pcall", "error", "create", "forget"}, made |-> {a}]
\* Coroutines that resume coroutines.
Nested == [ops |-> {"C", "create", "forget"}, made |-> {a, b, c}]

\* Errors in coroutines of coroutines.
Failing == [ops |-> {"C", "error", "create"}, made |-> {a, b}]

AllPrograms == {Protected, Switching, Failing, Nested}
===========================================================================
