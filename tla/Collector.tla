---------------------------- MODULE Collector ----------------------------
(*************************************************************************)
(* Lua's incremental garbage collector (lua/lgc.c) together with what a  *)
(* program does to the objects between two of its steps: the stores with *)
(* their write barriers (lua/lapi.c, lua/lvm.c), the upvalues            *)
(* (lua/lfunc.c) and the string table (lua/lstring.c).                   *)
(*                                                                       *)
(* A step of this module is one call of singlestep(), except that the    *)
(* function atomic() is cut where it calls propagateall(): the phases    *)
(* AtomicPhases lie inside it and no program step is enabled in them.    *)
(*                                                                       *)
(* Abstractions: an address is reused only after it is freed; a closure  *)
(* and its prototype are one "function"; the metatable and the           *)
(* environment of a userdata are one field; a non-collectable key, and   *)
(* the index into an array part, is None; the lists gray, grayagain and  *)
(* weak are sets, as each step may take any member.                      *)
(*************************************************************************)
EXTENDS Integers, FiniteSets

CONSTANTS Obj,        \* the addresses of objects
          MainThread, \* g->mainthread
          Registry,   \* the registry, with the globals in it
          None,       \* nil, NULL, or a value that is not collectable
          Slots,      \* the live slots of a stack, from its base
          MaxEntries, \* bound: the entries of a table
          Programs    \* what the programs do, each a record:
                      \*   kinds   the types of object it creates at an address
                      \*   stores  the entries <<key, value>> it puts into a table
                      \*   metas   its metatables and environments
                      \*   modes   the fields these may define
                      \*   collect does it call collectgarbage()?
                      \*   debug   does it call debug.setupvalue()?

ObjectKinds == {"string", "udata", "table", "function", "thread"}

ASSUME ObjectsAssumption ==
  /\ {MainThread, Registry} \subseteq Obj /\ MainThread # Registry
  /\ None \notin Obj \union (Obj \X Slots) /\ Slots \subseteq Nat /\ MaxEntries \in Nat
ASSUME ProgramsAssumption ==
  Programs \subseteq [kinds : [Obj -> SUBSET (ObjectKinds \union {"upval"})],
                     stores : [Obj -> SUBSET ((Obj \union {None}) \X Obj)],
                     metas : SUBSET Obj, modes : SUBSET SUBSET {"k", "v", "gc"},
                     collect : BOOLEAN, debug : BOOLEAN]

\* The slot above a stack's live ones, where GCTM() pushes its argument.
Top == -1

VARIABLES
  prog,                   \* the program that runs
  kind, held, meta, mode, \* per object: type, contents, metatable or env, and
                          \* the fields __mode, __gc of a metatable
  stack, open,            \* of threads; the slot an open upvalue points to
  L, basemt,              \* the running thread; a metatable of a basic type
  color, current,         \* marks; g->currentwhite
  gray, grayagain, weak,  \* the collector's lists
  tmudata, finalized,     \* userdata to finalize; with FINALIZEDBIT
  calls,                  \* how often an object's finalizer was called
  phase, full, tosweep    \* g->gcstate; inside luaC_fullgc(); still to sweep

heap  == <<kind, held, meta, mode, stack, open>>
lists == <<gray, grayagain, weak>>
ends  == <<tmudata, finalized, calls>>
vars  == <<prog, heap, L, basemt, color, current, lists, ends, phase, full, tosweep>>

AtomicPhases == {"upvals", "weak", "again", "tmu"}
Steady == {"pause", "propagate", "sweepstring", "sweep", "finalize"}
Places == Slots \union {Top}

Allocated == {o \in Obj : kind[o] # "free"}
Other     == IF current = "white0" THEN "white1" ELSE "white0"
White     == {o \in Obj : color[o] \in {"white0", "white1"}}
Dead      == {o \in Allocated : color[o] = Other}
Of(k)     == {o \in Obj : kind[o] = k}
Things(S) == S \ {None}

OpenUpvals(th) == {u \in Of("upval") : open[u] # None /\ open[u][1] = th}
ValueOf(u) == Things(IF open[u] = None THEN {e[2] : e \in held[u]}
                     ELSE {stack[open[u][1]][open[u][2]]})
IsWeak(t, m) == kind[t] = "table" /\ meta[t] # None /\ m \in mode[meta[t]]

-----------------------------------------------------------------------------
(* What the program can get at. *)

Refs(o) ==
  LET own == CASE kind[o] = "thread" -> {stack[o][s] : s \in Places}
               [] kind[o] = "upval"  -> ValueOf(o)
               [] OTHER -> UNION {{e[1], e[2]} : e \in held[o]}
  IN  Things(own \union {meta[o]})

\* The references traversing o marks: not the weak ones of a weak table.
StrongRefs(o) ==
  IF kind[o] # "table" THEN Refs(o)
  ELSE Things({meta[o]} \union
              {e[1] : e \in {f \in held[o] : ~IsWeak(o, "k")}} \union
              {e[2] : e \in {f \in held[o] : ~IsWeak(o, "v")}})

\* S and what arrows lead to from it: the least set that has S in it and, with
\* the source of an arrow, its target.
Along(arrows, S) ==
  LET others == {a[2] : a \in arrows} \ S
      closed == {D \in SUBSET others :
                   \A a \in arrows : a[1] \in S \/ a[1] \in D => a[2] \in S \/ a[2] \in D}
  IN  S \union {o \in others : \A D \in closed : o \in D}

\* With what S refers to at once taken as reached, few arrows are left.
Closure(S, R(_)) ==
  LET first == S \union UNION {R(o) : o \in S \intersect Allocated}
  IN  Along(UNION {{<<o, x>> : x \in R(o) \ first} : o \in Allocated \ S}, first)

Roots == Things({MainThread, Registry, L, basemt})
Reach == Closure(Roots, Refs)          \* weak references included
Firm  == Closure(Roots, StrongRefs)
\* Through userdata whose finalizer is to come, nothing is held for certain.
Certain == Closure(Roots, LAMBDA o : IF o \in tmudata THEN {} ELSE StrongRefs(o))
Saved == IF tmudata = {} THEN {} ELSE Closure(tmudata, Refs)        \* what a pending finalizer may use

-----------------------------------------------------------------------------
(* Marking. *)

\* The white objects that reallymarkobject() of each of S reaches: a closed or
\* open upvalue passes the mark to its value, a userdata to its metatable.
Marked(S) ==
  LET direct == White \intersect S
      values == White \intersect (direct \union
                  UNION {ValueOf(u) : u \in direct \intersect Of("upval")})
  IN  White \intersect (values \union
        Things({meta[u] : u \in values \intersect Of("udata")}))

ColorMarked(o) ==
  IF kind[o] = "udata" \/ (kind[o] = "upval" /\ open[o] = None)
  THEN "black" ELSE "gray"

Paint(c, S) == [o \in Obj |-> IF o \in S THEN ColorMarked(o) ELSE c[o]]
Whiten(c, S) == [o \in Obj |-> IF o \in S THEN current ELSE c[o]]

Freed(c, S) == [o \in Obj |-> IF o \in S THEN "white0" ELSE c[o]]

\* Only these kinds are traversed later.
Listed(S) == {o \in S : kind[o] \in {"table", "function", "thread"}}

\* markvalue() and markobject() of each of S.
Mark(S) == /\ color' = Paint(color, Marked(S))
           /\ gray' = gray \union Listed(Marked(S))

MarkRoot ==
  LET m == Marked(Things({MainThread, meta[MainThread], Registry, basemt}))
  IN  /\ color' = Paint(color, m)
      /\ gray' = Listed(m) /\ grayagain' = {} /\ weak' = {}
      /\ phase' = "propagate"

\* propagatemark(): a thread and a weak table stay gray.
Propagate(o) ==
  LET m == Marked(StrongRefs(o))
      isweak == IsWeak(o, "k") \/ IsWeak(o, "v")
      isthread == kind[o] = "thread"
      turned == IF isweak \/ isthread THEN "gray" ELSE "black"
  IN  /\ phase \in {"propagate"} \union AtomicPhases /\ o \in gray
      /\ color' = [Paint(color, m) EXCEPT ![o] = turned]
      /\ gray' = (gray \ {o}) \union Listed(m)
      /\ grayagain' = IF isthread THEN grayagain \union {o} ELSE grayagain
      /\ weak' = IF isweak THEN weak \union {o} ELSE weak
      /\ UNCHANGED <<prog, heap, L, basemt, current, ends, phase, full, tosweep>>

Start ==
  /\ phase = "pause" /\ MarkRoot
  /\ UNCHANGED <<prog, heap, L, basemt, current, ends, full, tosweep>>

-----------------------------------------------------------------------------
(* atomic(). *)

\* remarkupvals(): the thread of a gray open upvalue may be dead, and then
\* nobody else marks the value.
RemarkUpvals ==
  /\ phase = "propagate" /\ gray = {}
  /\ Mark(UNION {ValueOf(u) : u \in {v \in Of("upval") :
                                       open[v] # None /\ color[v] = "gray"}})
  /\ phase' = "upvals"
  /\ UNCHANGED <<prog, heap, L, basemt, current, grayagain, weak, ends, full, tosweep>>

RemarkWeak ==
  LET m == Marked(Things({L, basemt}))
  IN  /\ phase = "upvals" /\ gray = {}
      /\ color' = Paint(color, m)
      /\ gray' = weak \union Listed(m) /\ weak' = {}
      /\ phase' = "weak"
      /\ UNCHANGED <<prog, heap, L, basemt, current, grayagain, ends, full, tosweep>>

RemarkAgain ==
  /\ phase = "weak" /\ gray = {}
  /\ gray' = grayagain /\ grayagain' = {}
  /\ phase' = "again"
  /\ UNCHANGED <<prog, heap, L, basemt, color, current, weak, ends, full, tosweep>>

\* MUTANT: FINALIZEDBIT is not looked at.
SeparateAgain ==
  LET due == {u \in Of("udata") \intersect White : meta[u] # None /\ "gc" \in mode[meta[u]]}
      all == tmudata \union due
      m   == (Marked(Things({meta[u] : u \in all})) \ all) \union all
  IN  /\ phase = "again" /\ gray = {}
      /\ finalized' = finalized \union due
      /\ tmudata' = all
      /\ color' = Paint(color, m)
      /\ gray' = Listed(m)
      /\ phase' = "tmu"
      /\ UNCHANGED <<prog, heap, L, basemt, current, grayagain, weak, calls, full, tosweep>>

\* luaC_separateudata(L, 0), then marktmu(): userdata left over from an
\* earlier cycle are marked again.
Separate ==
  LET dead == {u \in Of("udata") \ (finalized \union tmudata) : u \in White}
      due  == {u \in dead : meta[u] # None /\ "gc" \in mode[meta[u]]}
      all  == tmudata \union due
      m    == (Marked(Things({meta[u] : u \in all})) \ all) \union all
  IN  /\ phase = "again" /\ gray = {}
      /\ finalized' = finalized \union dead
      /\ tmudata' = all
      /\ color' = Paint(color, m)
      /\ gray' = Listed(m)
      /\ phase' = "tmu"
      /\ UNCHANGED <<prog, heap, L, basemt, current, grayagain, weak, calls, full, tosweep>>

\* MUTANT: gray objects, such as weak tables, taken for dead ones.
ClearedGray(x, iskey) ==
  /\ x \in Obj /\ kind[x] # "string"
  /\ color[x] # "black" \/ (kind[x] = "udata" /\ ~iskey /\ x \in finalized)

\* iscleared()
Cleared(x, iskey) ==
  /\ x \in Obj /\ kind[x] # "string"
  /\ x \in White \/ (kind[x] = "udata" /\ ~iskey /\ x \in finalized)

\* The entries of a table in the list weak that cleartable() removes; only a
\* weak-valued table has its array part searched.
ClearedEntries(t) ==
  {e \in held[t] :
     IF e[1] = None THEN IsWeak(t, "v") /\ Cleared(e[2], FALSE)
     ELSE Cleared(e[1], TRUE) \/ Cleared(e[2], FALSE)}

\* The strings iscleared() marks on its way; the value is looked at only when
\* the key stays.
StringsSeen(t) ==
  {x \in UNION {{e[1]} \union (IF Cleared(e[1], TRUE) THEN {} ELSE {e[2]}) :
                  e \in {f \in held[t] : f[1] # None \/ IsWeak(t, "v")}} :
     x \in Of("string")}

\* Objects of rootgc and of the string table; an open upvalue is swept with its
\* thread and the userdata in tmudata are on no list that is swept.
Swept == {o \in Allocated \ tmudata : kind[o] # "upval" \/ open[o] = None}

ClearTables ==
  /\ phase = "tmu" /\ gray = {}
  /\ held' = [o \in Obj |-> IF o \in weak THEN held[o] \ ClearedEntries(o)
                            ELSE held[o]]
  /\ color' = Paint(color, UNION {StringsSeen(t) : t \in weak})
  /\ current' = Other
  /\ tosweep' = Swept
  /\ phase' = "sweepstring"
  /\ UNCHANGED <<prog, kind, meta, mode, stack, open, L, basemt, lists, ends, full>>

-----------------------------------------------------------------------------
(* Sweeping. *)

\* What is left of the objects once those of gone are freed and the upvalues
\* of closing have got their value out of the stack.
Release(gone, closing) ==
  /\ kind' = [o \in Obj |-> IF o \in gone THEN "free" ELSE kind[o]]
  /\ held' = [o \in Obj |-> IF o \in gone THEN {}
                            ELSE IF o \in closing THEN {<<None, v>> : v \in ValueOf(o)}
                            ELSE held[o]]
  /\ open' = [o \in Obj |-> IF o \in gone \union closing THEN None ELSE open[o]]
  /\ meta' = [o \in Obj |-> IF o \in gone THEN None ELSE meta[o]]
  /\ mode' = [o \in Obj |-> IF o \in gone THEN {} ELSE mode[o]]
  /\ stack' = [o \in Obj |-> IF o \in gone THEN [s \in Places |-> None] ELSE stack[o]]
  /\ finalized' = finalized \ gone
  /\ calls' = [o \in Obj |-> IF o \in gone THEN 0 ELSE calls[o]]

\* MUTANT: the open upvalues of a thread are not swept.
SweepOneAlone(o) ==
  LET gone == Dead \intersect {o}
  IN  /\ Release(gone, IF o \in Dead THEN OpenUpvals(o) ELSE {})
      /\ color' = Freed(Whiten(color, {o}), gone)
      /\ tosweep' = tosweep \ {o}
      /\ UNCHANGED <<prog, L, basemt, current, lists, tmudata>>

\* sweeplist() of one element: with a thread go its open upvalues; freeing a
\* dead one closes those that are left (luaE_freethread).
SweepOne(o) ==
  LET ups  == OpenUpvals(o)
      gone == Dead \intersect ({o} \union ups)
  IN  /\ Release(gone, IF o \in Dead THEN ups \ gone ELSE {})
      /\ color' = Freed(Whiten(color, {o} \union ups), gone)
      /\ tosweep' = tosweep \ {o}
      /\ UNCHANGED <<prog, L, basemt, current, lists, tmudata>>

\* One list of the string table.
SweepString(o) ==
  /\ phase = "sweepstring" /\ o \in tosweep \intersect Of("string")
  /\ SweepOne(o)
  /\ UNCHANGED <<phase, full>>

EndSweepString ==
  /\ phase = "sweepstring" /\ tosweep \intersect Of("string") = {}
  /\ phase' = "sweep"
  /\ UNCHANGED <<prog, heap, L, basemt, color, current, lists, ends, full, tosweep>>

\* rootgc ends with the registry and the main thread, made first, and after
\* them the userdata.
Rank(o) == IF kind[o] = "udata" THEN 3 ELSE IF o = MainThread THEN 2
           ELSE IF o = Registry THEN 1 ELSE 0

Sweep(o) ==
  /\ phase = "sweep" /\ o \in tosweep
  /\ \A p \in tosweep : Rank(o) <= Rank(p)
  /\ SweepOne(o)
  /\ UNCHANGED <<phase, full>>

\* luaC_fullgc() lets finalizers run once its own cycle has been swept.
EndSweep ==
  /\ phase = "sweep" /\ tosweep = {}
  /\ phase' = "finalize"
  /\ full' = IF full = "mark" THEN "no" ELSE full
  /\ UNCHANGED <<prog, heap, L, basemt, color, current, lists, ends, tosweep>>

-----------------------------------------------------------------------------
(* Finalizers, and a forced collection. *)

Program == phase \in Steady /\ full = "no"
Calling == \E th \in Obj : stack[th][Top] # None

\* GCTM(): the userdata goes back to the root list, and onto the stack of the
\* running thread if it still has a finalizer.
GCTM(u) ==
  LET has == meta[u] # None /\ "gc" \in mode[meta[u]]
  IN  /\ phase = "finalize" /\ full = "no" /\ ~Calling /\ u \in tmudata
      /\ tmudata' = tmudata \ {u}
      /\ color' = Whiten(color, {u})
      /\ stack' = IF has THEN [stack EXCEPT ![L][Top] = u] ELSE stack
      /\ calls' = IF has THEN [calls EXCEPT ![u] = @ + 1] ELSE calls
      /\ UNCHANGED <<prog, kind, held, meta, mode, open, L, basemt, current, lists,
                     finalized, phase, full, tosweep>>

FinalizerReturns ==
  /\ stack[L][Top] # None
  /\ stack' = [stack EXCEPT ![L][Top] = None]
  /\ UNCHANGED <<prog, kind, held, meta, mode, open, L, basemt, color, current, lists,
                 ends, phase, full, tosweep>>

EndCycle ==
  /\ phase = "finalize" /\ full = "no" /\ ~Calling /\ tmudata = {}
  /\ phase' = "pause"
  /\ UNCHANGED <<prog, heap, L, basemt, color, current, lists, ends, full, tosweep>>

\* luaC_fullgc(): a cycle that has not reached its sweep is given up, all
\* objects being swept to white; one that has is swept to its end.
FullGC ==
  /\ prog.collect /\ ~Calling
  /\ full' = "sweep"
  /\ IF phase \in {"pause", "propagate"}
     THEN /\ gray' = {} /\ grayagain' = {} /\ weak' = {}
          /\ tosweep' = Swept /\ phase' = "sweepstring"
     ELSE UNCHANGED <<lists, tosweep, phase>>
  /\ UNCHANGED <<prog, heap, L, basemt, color, current, ends>>

FullMark ==
  /\ full = "sweep" /\ phase = "finalize"
  /\ full' = "mark" /\ MarkRoot
  /\ UNCHANGED <<prog, heap, L, basemt, current, ends, tosweep>>

-----------------------------------------------------------------------------
(* The program. It works with what it can reach, and leaves what it gets in *)
(* a slot of the running thread.                                            *)

\* MUTANT: o made white even while marking goes on.
BarrierForwardWhitens(o, v) ==
  /\ color' = IF color[o] = "black" /\ v \in White THEN Whiten(color, {o}) ELSE color
  /\ UNCHANGED gray

\* luaC_barrierf(): mark v while marking goes on, else make o white.
BarrierForward(o, v) ==
  IF ~(color[o] = "black" /\ v \in White) THEN UNCHANGED <<color, gray>>
  ELSE IF phase = "propagate" THEN Mark({v})
  ELSE color' = Whiten(color, {o}) /\ UNCHANGED gray

\* MUTANT: no barrier at all.
BarrierBackNever(t, S) == UNCHANGED <<color, grayagain>>

\* MUTANT: the table is listed and stays black.
BarrierBackBlack(t, S) ==
  /\ grayagain' = IF color[t] = "black" /\ S \intersect White # {}
                  THEN grayagain \union {t} ELSE grayagain
  /\ UNCHANGED color

\* luaC_barrierback(): the table is traversed again, by atomic().
BarrierBack(t, S) ==
  IF ~(color[t] = "black" /\ S \intersect White # {}) THEN UNCHANGED <<color, grayagain>>
  ELSE /\ color' = [color EXCEPT ![t] = "gray"]
       /\ grayagain' = grayagain \union {t}

\* A value comes into a slot of the running stack, or leaves it: no barrier.
SetStack(s, v) ==
  /\ v # stack[L][s]
  /\ stack' = [stack EXCEPT ![L][s] = v]
  /\ UNCHANGED <<prog, kind, held, meta, mode, open, L, basemt, color, current, lists,
                 ends, phase, full, tosweep>>

\* t[k] = v: lua_rawset(), lua_rawseti(), luaV_settable(); newkey() has a
\* barrier for a new key.
Store(t, k, v) ==
  /\ LET rest == {e \in held[t] : e[1] # k \/ k = None}
     IN  /\ Cardinality(rest) < MaxEntries
         /\ held' = [held EXCEPT ![t] = rest \union {<<k, v>>}]
  /\ BarrierBack(t, IF \E e \in held[t] : e[1] = k THEN {v} ELSE {k, v})
  /\ UNCHANGED <<prog, kind, meta, mode, stack, open, L, basemt, current, gray, weak,
                 ends, phase, full, tosweep>>

\* t[k] = nil
Drop(t, e) ==
  /\ e \in held[t]
  /\ held' = [held EXCEPT ![t] = @ \ {e}]
  /\ UNCHANGED <<prog, kind, meta, mode, stack, open, L, basemt, color, current, lists,
                 ends, phase, full, tosweep>>

\* lua_setmetatable(); for functions and threads, lua_setfenv().
SetMeta(o, t) ==
  /\ t # meta[o]
  /\ (t = None => kind[o] \in {"table", "udata"})
  /\ kind[o] \in {"table", "udata", "function", "thread"}
  /\ meta' = [meta EXCEPT ![o] = t]
  /\ IF kind[o] = "table" THEN BarrierBack(o, {t}) /\ UNCHANGED gray
     ELSE BarrierForward(o, t) /\ UNCHANGED grayagain
  /\ UNCHANGED <<prog, kind, held, mode, stack, open, L, basemt, current, weak, ends,
                 phase, full, tosweep>>

\* lua_setmetatable() of a number, say: g->mt[] is a root without a barrier.
SetBaseMeta(t) ==
  /\ t # basemt
  /\ basemt' = t
  /\ UNCHANGED <<prog, heap, L, color, current, lists, ends, phase, full, tosweep>>

\* Assignments to the fields __mode and __gc of a table.
SetMode(t, m) ==
  /\ m # mode[t]
  /\ mode' = [mode EXCEPT ![t] = m]
  /\ UNCHANGED <<prog, kind, held, meta, stack, open, L, basemt, color, current, lists,
                 ends, phase, full, tosweep>>

\* luaC_link(), luaS_newudata(), luaE_newthread(), newlstr(): born white, and
\* left in a slot. A thread shares its maker's table of globals.
Create(o, k, s) ==
  /\ kind[o] = "free" /\ k \in prog.kinds[o]
  /\ kind' = [kind EXCEPT ![o] = k]
  /\ color' = [color EXCEPT ![o] = current]
  /\ meta' = [meta EXCEPT ![o] = IF k = "thread" THEN meta[L] ELSE None]
  /\ stack' = [stack EXCEPT ![L][s] = o]
  /\ UNCHANGED <<prog, held, mode, open, L, basemt, current, lists, ends, phase, full, tosweep>>

\* MUTANT: a dead string is handed out as it is.
InternDead(o, s) ==
  /\ kind[o] = "string" /\ o # stack[L][s]
  /\ stack' = [stack EXCEPT ![L][s] = o]
  /\ UNCHANGED <<prog, kind, held, meta, mode, open, L, basemt, color, current, lists,
                 ends, phase, full, tosweep>>

\* luaS_newlstr() finds the string: it may be dead, and not yet swept.
Intern(o, s) ==
  /\ kind[o] = "string" /\ o # stack[L][s]
  /\ color' = IF o \in Dead THEN Whiten(color, {o}) ELSE color
  /\ stack' = [stack EXCEPT ![L][s] = o]
  /\ UNCHANGED <<prog, kind, held, meta, mode, open, L, basemt, current, lists, ends,
                 phase, full, tosweep>>

\* OP_CLOSURE over local s: luaF_findupval() makes the upvalue u, or finds it,
\* perhaps dead.
Capture(f, u, s, into) ==
  /\ "function" \in prog.kinds[f] /\ "upval" \in prog.kinds[u]
  /\ kind[f] = "free" /\ f # u
  /\ \/ u \in OpenUpvals(L) /\ open[u] = <<L, s>>
     \/ kind[u] = "free" /\ \A v \in OpenUpvals(L) : open[v] # <<L, s>>
  /\ kind' = [kind EXCEPT ![f] = "function", ![u] = "upval"]
  /\ open' = [open EXCEPT ![u] = <<L, s>>]
  /\ held' = [held EXCEPT ![f] = {<<None, u>>}]
  /\ meta' = [meta EXCEPT ![f] = meta[L]]
  /\ color' = Whiten(color, {f} \union (IF kind[u] = "free" \/ u \in Dead THEN {u} ELSE {}))
  /\ stack' = [stack EXCEPT ![L][into] = f]
  /\ UNCHANGED <<prog, mode, L, basemt, current, lists, ends, phase, full, tosweep>>

\* luaF_close(L, level): a dead upvalue is freed; for the others luaC_linkupval()
\* turns a gray one black, marking the value, or white when sweeping.
Close(level) ==
  LET ups  == {u \in OpenUpvals(L) : open[u][2] >= level}
      gone == ups \intersect Dead
      rest == ups \ gone
      grays == {u \in rest : color[u] = "gray"}
      m    == Marked(UNION {ValueOf(u) : u \in grays})
  IN  /\ ups # {}
      /\ Release(gone, rest)
      /\ IF phase = "propagate"
         THEN /\ color' = [o \in Obj |-> IF o \in grays THEN "black"
                                         ELSE Paint(color, m)[o]]
              /\ gray' = gray \union Listed(m)
         ELSE color' = Freed(Whiten(color, grays), gone) /\ UNCHANGED gray
      /\ UNCHANGED <<prog, L, basemt, current, grayagain, weak, tmudata, phase, full, tosweep>>

\* MUTANT: nil kept as if it were an object.
WriteUpvalNil(u, v) ==
  IF open[u] = None
  THEN held' = [held EXCEPT ![u] = {<<None, v>>}] /\ UNCHANGED stack
  ELSE stack' = [stack EXCEPT ![open[u][1]][open[u][2]] = v] /\ UNCHANGED held

WriteUpval(u, v) ==
  IF open[u] = None
  THEN held' = [held EXCEPT ![u] = {<<None, x>> : x \in Things({v})}] /\ UNCHANGED stack
  ELSE stack' = [stack EXCEPT ![open[u][1]][open[u][2]] = v] /\ UNCHANGED held

\* OP_SETUPVAL: the barrier is the upvalue's.
SetUpval(u, v) ==
  /\ kind[u] = "upval" /\ ValueOf(u) # Things({v})
  /\ WriteUpval(u, v)
  /\ BarrierForward(u, v)
  /\ UNCHANGED <<prog, kind, meta, mode, open, L, basemt, current, grayagain, weak,
                 ends, phase, full, tosweep>>

\* debug.setupvalue(): lua_setupvalue() has the barrier of the closure f.
DebugSetUpvalue(f, u, v) ==
  /\ prog.debug /\ kind[f] = "function" /\ <<None, u>> \in held[f]
  /\ ValueOf(u) # Things({v})
  /\ WriteUpval(u, v)
  /\ BarrierForward(f, v)
  /\ UNCHANGED <<prog, kind, meta, mode, open, L, basemt, current, grayagain, weak,
                 ends, phase, full, tosweep>>

\* lua_resume() from the main thread, and the coroutine's lua_yield().
Resume(th) ==
  /\ ~Calling /\ L = MainThread /\ kind[th] = "thread" /\ th # L
  /\ L' = th
  /\ UNCHANGED <<prog, heap, basemt, color, current, lists, ends, phase, full, tosweep>>

Yield ==
  /\ ~Calling /\ L # MainThread
  /\ L' = MainThread
  /\ UNCHANGED <<prog, heap, basemt, color, current, lists, ends, phase, full, tosweep>>

-----------------------------------------------------------------------------
\* lua_newstate() and f_luaopen(): the state's own thread and registry.
Init ==
  /\ prog \in Programs
  /\ kind = [o \in Obj |-> IF o = MainThread THEN "thread"
                           ELSE IF o = Registry THEN "table" ELSE "free"]
  /\ held = [o \in Obj |-> {}] /\ mode = [o \in Obj |-> {}]
  /\ meta = [o \in Obj |-> IF o = MainThread THEN Registry ELSE None]
  /\ stack = [o \in Obj |-> [s \in Places |-> None]]
  /\ open = [o \in Obj |-> None]
  /\ L = MainThread /\ basemt = None
  /\ color = [o \in Obj |-> "white0"] /\ current = "white0"
  /\ gray = {} /\ grayagain = {} /\ weak = {}
  /\ tmudata = {} /\ finalized = {} /\ calls = [o \in Obj |-> 0]
  /\ phase = "pause" /\ full = "no" /\ tosweep = {}

\* singlestep()
Collect ==
  \/ Start \/ RemarkUpvals \/ RemarkWeak \/ RemarkAgain \/ Separate \/ ClearTables
  \/ EndSweepString \/ EndSweep \/ EndCycle \/ FullMark
  \/ \E o \in Obj : Propagate(o) \/ SweepString(o) \/ Sweep(o) \/ GCTM(o)

\* What the program does, with what it can reach.
Mutate ==
  LET reach == Reach
      usable == {v \in reach : prog.kinds[v] # {} /\ kind[v] # "upval"} \union {None}
      tables == reach \intersect Of("table")
      metas  == tables \intersect prog.metas
  IN  /\ Program
      /\ \/ \E s \in Slots, v \in usable : SetStack(s, v)
         \/ \E s \in Slots, o \in Obj, k \in ObjectKinds : Create(o, k, s)
         \/ \E s \in Slots, o \in Obj : Intern(o, s)
         \/ \E t \in tables : \E e \in prog.stores[t] \intersect (usable \X usable) : Store(t, e[1], e[2])
         \/ \E t \in tables : \E e \in held[t] : Drop(t, e)
         \/ \E o \in usable \ {None}, t \in metas \union {None} : SetMeta(o, t)
         \/ \E t \in metas \union {None} : SetBaseMeta(t)
         \/ \E t \in metas, m \in prog.modes : SetMode(t, m)
         \/ \E f, u \in Obj, s, into \in Slots : Capture(f, u, s, into)
         \/ \E s \in Slots : Close(s)
         \/ \E u \in reach, v \in usable : SetUpval(u, v)
         \/ \E f, u \in reach, v \in usable : DebugSetUpvalue(f, u, v)
         \/ \E th \in reach : Resume(th)
         \/ Yield \/ FinalizerReturns \/ FullGC

Next == Collect \/ Mutate

\* A program that goes on allocating reaches g->GCthreshold again and again,
\* and then luaC_step() takes steps; finalizers return.
Fairness == WF_vars(Collect) /\ WF_vars(FinalizerReturns)

Spec == Init /\ [][Next]_vars /\ Fairness

-----------------------------------------------------------------------------
(* Properties. *)

Marking == phase \in {"propagate"} \union AtomicPhases

TypeOK ==
  /\ kind \in [Obj -> {"free", "string", "udata", "upval", "table", "function", "thread"}]
  /\ held \in [Obj -> SUBSET ((Obj \union {None}) \X Obj)]
  /\ meta \in [Obj -> Obj \union {None}]
  /\ mode \in [Obj -> SUBSET {"k", "v", "gc"}]
  /\ stack \in [Obj -> [Places -> Obj \union {None}]]
  /\ open \in [Obj -> (Obj \X Slots) \union {None}]
  /\ L \in Obj /\ basemt \in Obj \union {None}
  /\ color \in [Obj -> {"white0", "white1", "gray", "black"}]
  /\ current \in {"white0", "white1"}
  /\ gray \subseteq Obj /\ grayagain \subseteq Obj /\ weak \subseteq Obj
  /\ tmudata \subseteq Obj /\ finalized \subseteq Obj /\ calls \in [Obj -> Nat]
  /\ phase \in Steady \union AtomicPhases /\ full \in {"no", "sweep", "mark"}
  /\ tosweep \subseteq Obj

\* Nothing the program, or a finalizer to come, can get at has been freed, or
\* is what the sweep will free (lobject.h: checkliveness).
NoDeadInUse == Reach \union Saved \subseteq Allocated \ Dead

\* The three lists share the field gclist: while marking, an object is on one
\* of them at most, and gray.
OneList ==
  Marking => /\ \A o \in gray \union grayagain \union weak : color[o] = "gray"
             /\ gray \intersect grayagain = {} /\ gray \intersect weak = {}
             /\ grayagain \intersect weak = {}

\* The barriers' invariant: a black object refers to no white one.
NoBlackToWhite ==
  Marking => \A o \in Allocated \ tmudata :
    color[o] = "black" => StrongRefs(o) \intersect White = {}

\* Once a forced collection has swept, what is left can be got at; the other
\* ends of the entries that weak tables lose may be a cycle late.
CollectsAll ==
  full = "mark" /\ phase = "sweep" /\ tosweep = {}
    /\ (\A t \in Of("table") : ~IsWeak(t, "k") /\ ~IsWeak(t, "v"))
  => Allocated \subseteq Reach \union Saved

\* A finalizer is called once in the life of its userdata.
FinalizedOnce == \A u \in Obj : calls[u] <= 1

\* Only an entry with an end that is not strongly reachable, or is a userdata
\* already finalized, is cleared from a weak table.
ClearsOnlyWeak ==
  [][\A t \in Obj : \A e \in held[t] \ held'[t] :
       phase = "tmu" => \/ ~({e[1], e[2]} \subseteq Firm \union {None})
                        \/ e[2] \in finalized]_vars

Heap == INSTANCE Reclaim WITH
  Address <- Obj, memory <- Allocated, values <- Of("string") \union {u \in Of("upval") : open[u] # None},
  reach <- Reach, firm <- Certain, saved <- Saved, pending <- tmudata, done <- {u \in Obj : calls[u] > 0}
Implements == Heap!Spec
=============================================================================
