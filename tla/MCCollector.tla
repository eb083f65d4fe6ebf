--------------------------- MODULE MCCollector ---------------------------
(* Programs for the collector: each uses few objects, in one way. *)
EXTENDS Collector, TLC
CONSTANTS a, b, c, d, Main, Reg, nil

FiveObjects == {a, b, c, Main, Reg}
SixObjects  == {a, b, c, d, Main, Reg}
OneSlot  == {0}

A == <<nil, a>>
B == <<nil, b>>
C == <<nil, c>>

Nothing == [o \in Obj |-> {}]
Program0 == [kinds |-> Nothing, stores |-> Nothing, metas |-> {}, modes |-> {},
             collect |-> FALSE, debug |-> FALSE]

\* Two tables stored into each other, and collectgarbage().
Tables2 == [Program0 EXCEPT !.kinds[a] = {"table"}, !.kinds[b] = {"table"},
  !.stores[a] = {A, B}, !.stores[b] = {A, B}, !.stores[Reg] = {A, B},
  !.collect = TRUE]

\* A userdata with a finalizer, as key and value of a table with weak keys.
Finalizers == [Program0 EXCEPT !.kinds[a] = {"table"}, !.kinds[b] = {"udata"},
  !.stores[a] = {B, <<b, b>>}, !.stores[Reg] = {A},
  !.metas = {Reg}, !.modes = {{"k", "gc"}}]

\* A metatable that may itself go.
Metatables == [Program0 EXCEPT !.kinds[a] = {"table"}, !.kinds[b] = {"udata"},
  !.stores[Reg] = {B}, !.metas = {a}, !.modes = {{"gc"}}]

\* A string in a weak table.
Strings == [Program0 EXCEPT !.kinds[a] = {"table"}, !.kinds[b] = {"string"},
  !.stores[a] = {B, <<b, a>>}, !.stores[Reg] = {A},
  !.metas = {Reg}, !.modes = {{"k", "v"}}]

\* A closure over a local of the main thread or of a coroutine.
Coroutines == [Program0 EXCEPT !.kinds[a] = {"function"}, !.kinds[b] = {"upval"},
  !.kinds[c] = {"thread"},  !.stores[Reg] = {A, C}]

\* A closure over a table, and debug.setupvalue().
Closures == [Program0 EXCEPT !.kinds[a] = {"function"}, !.kinds[b] = {"upval"},
  !.kinds[c] = {"table"},  !.stores[c] = {C}, !.stores[Reg] = {A, C}, !.debug = TRUE, !.collect = TRUE]

AllPrograms == {Tables2, Finalizers, Metatables, Strings, Coroutines, Closures}

\* Two closures that share an upvalue.
SharedUpvalue == [Program0 EXCEPT !.kinds[a] = {"function"}, !.kinds[b] = {"function"},
  !.kinds[c] = {"upval"}, !.kinds[d] = {"table"}, !.stores[Reg] = {A}, !.debug = TRUE]
Sharing == {SharedUpvalue}
==========================================================================
