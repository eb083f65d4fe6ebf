------------------------------ MODULE Calls ------------------------------
(*************************************************************************)
(* Calls, errors and coroutines of Lua (lua/ldo.c, and the functions     *)
(* pcall, xpcall and coroutine.* of lua/libs/lbaselib.c).                *)
(*                                                                       *)
(* The threads of a state share one C stack. cstack holds what is on it: *)
(* an activation of luaD_call() for each call from C, perhaps within     *)
(* luaD_pcall(), and one of lua_resume() for each coroutine that runs,   *)
(* each with the luaV_execute() it has started. A thread has a stack of  *)
(* its own, of CallInfo records: ci.                                     *)
(*                                                                       *)
(* Abstractions: of the values on the stack only the coroutine a C       *)
(* function was called with is kept; hooks are left out, and the names    *)
(* that a tail call takes from tracebacks.                               *)
(*************************************************************************)
EXTENDS Integers, FiniteSets, Sequences

CONSTANTS Threads, Main,    \* lua_State records, and the main thread
          None,             \* nil
          LUAI_MAXCCALLS,   \* where "C stack overflow" is raised
          ExtraCCalls,      \* LUAI_MAXCCALLS >> 3: for handling it
          LUAI_MAXCALLS,    \* where "stack overflow" is raised
          BASIC_CI_SIZE,    \* the first size of a stack of CallInfo
          Programs          \* of programs: the operations and coroutines one uses

Coroutines == Threads \ {Main}
Operations == {"lua", "C", "meta", "call", "pcall", "xpcall", "error", "create", "forget"}

ASSUME CallsAssumption ==
  /\ Main \in Threads /\ None \notin Threads
  /\ Programs \subseteq [ops : SUBSET Operations, made : SUBSET (Threads \ {Main})]
  /\ LUAI_MAXCCALLS \in Nat \ {0} /\ ExtraCCalls \in Nat \ {0}
  /\ BASIC_CI_SIZE \in Nat \ {0, 1} /\ LUAI_MAXCALLS \in Nat /\ BASIC_CI_SIZE <= LUAI_MAXCALLS

VARIABLES
  prog,     \* the program
  threads,  \* the threads there are
  cstack,   \* the C stack
  raising,  \* "no"; "run" in luaG_errormsg(); "err" for LUA_ERRERR
  globals,  \* the coroutines that variables refer to
  exited    \* has an error without a handler ended the program?

vars == <<prog, threads, cstack, raising, globals, exited>>

Absent == [status |-> "free", body |-> FALSE, ci |-> <<>>, nCcalls |-> 0, errfunc |-> FALSE,
           jmp |-> 0, size_ci |-> BASIC_CI_SIZE]
New == [Absent EXCEPT !.status = "ok", !.body = TRUE]

Top(q) == q[Len(q)]
Pop(q) == SubSeq(q, 1, Len(q) - 1)
L  == IF cstack = <<>> THEN Main ELSE Top(cstack).th
Th == threads[L]

Running == cstack # <<>> /\ raising = "no" /\ ~exited
InLua == Running /\ Top(Th.ci).fn = "lua"
InC   == Running /\ Top(Th.ci).fn = "C"

Lua   == [fn |-> "lua", arg |-> None]
C(co) == [fn |-> "C", arg |-> co]

\* What a call of luaD_call(), luaD_pcall() or lua_resume() saves in the C stack,
\* and nexec, the functions luaV_execute() is to return from.
Activation(k, th, n) ==
  [kind |-> k, th |-> th, nexec |-> n, level |-> Len(threads[th].ci),
   nCcalls |-> threads[th].nCcalls, errfunc |-> threads[th].errfunc, jmp |-> threads[th].jmp]

-----------------------------------------------------------------------------
(* Frames. *)

\* inc_ci() finds room, makes room, or is the error "stack overflow"; growCI()
\* while that is handled is LUA_ERRERR.
Full(th) == Len(th.ci) = th.size_ci - 1

\* MUTANT: an overflow while one is handled is let pass.
GrowErrorOnce(th) == IF ~Full(th) \/ 2 * th.size_ci <= LUAI_MAXCALLS \/ th.size_ci > LUAI_MAXCALLS
                     THEN "no" ELSE "run"

GrowError(th) == IF ~Full(th) \/ 2 * th.size_ci <= LUAI_MAXCALLS THEN "no"
                 ELSE IF th.size_ci > LUAI_MAXCALLS THEN "err" ELSE "run"
Grown(th) == IF Full(th) /\ th.size_ci <= LUAI_MAXCALLS
             THEN [th EXCEPT !.size_ci = 2 * @] ELSE th
Pushed(th, f) == IF GrowError(th) = "no" THEN [Grown(th) EXCEPT !.ci = Append(@, f)]
                 ELSE Grown(th)

\* OP_CALL: a Lua function goes on in the same luaV_execute(). New threads of
\* made are what coroutine.create() has returned.
OpCall(f, made) ==
  /\ InLua
  /\ threads' = [th \in Threads |-> IF th = L THEN Pushed(Th, f)
                                    ELSE IF th \in made THEN New ELSE threads[th]]
  /\ cstack' = IF GrowError(Th) = "no" /\ f.fn = "lua"
               THEN [cstack EXCEPT ![Len(cstack)].nexec = @ + 1] ELSE cstack
  /\ raising' = GrowError(Th)
  /\ UNCHANGED <<prog, globals, exited>>

\* OP_TAILCALL of a Lua function: its frame takes the place of the caller's, but
\* there has to be room for both. That of a C function is as OP_CALL.
TailCall ==
  /\ InLua
  /\ threads' = [threads EXCEPT ![L] = Grown(@)]
  /\ raising' = GrowError(Th)
  /\ UNCHANGED <<prog, cstack, globals, exited>>

\* luaD_call() of f, perhaps inside luaD_pcall(): another level of C calls, the
\* last of which are left to the handling of errors.
luaD_call(k, f, handler) ==
  LET n == Th.nCcalls + 1
      deep == IF n = LUAI_MAXCCALLS THEN "run"
              ELSE IF n >= LUAI_MAXCCALLS + ExtraCCalls THEN "err" ELSE "no"
      error == IF deep = "no" THEN GrowError(Th) ELSE deep
      counted == IF k = "pcall"
                 THEN [Th EXCEPT !.nCcalls = n, !.errfunc = handler, !.jmp = Len(cstack) + 1]
                 ELSE [Th EXCEPT !.nCcalls = n]
      nexec == IF f.fn = "lua" /\ error = "no" THEN 1 ELSE 0
  IN  /\ raising' = error
      /\ cstack' = Append(cstack, Activation(k, L, nexec))
      /\ threads' = [threads EXCEPT ![L] = IF deep = "no" THEN Pushed(counted, f) ELSE counted]
      /\ UNCHANGED <<prog, globals, exited>>

-----------------------------------------------------------------------------
(* Errors. *)

\* restore_stack_limit()
Restored(size, inuse) ==
  IF size > LUAI_MAXCALLS /\ inuse + 1 < LUAI_MAXCALLS THEN LUAI_MAXCALLS ELSE size

\* MUTANT: the calls of C are left counted.
RestoreCounted(th, act) ==
  [th EXCEPT !.ci = SubSeq(@, 1, act.level), !.errfunc = act.errfunc, !.jmp = act.jmp,
             !.size_ci = Restored(@, act.level)]

\* MUTANT: errorJmp is left as it is.
RestoreJmp(th, act) ==
  [th EXCEPT !.ci = SubSeq(@, 1, act.level), !.nCcalls = act.nCcalls,
             !.errfunc = act.errfunc, !.size_ci = Restored(@, act.level)]

\* What luaD_pcall() puts back.
Restore(th, act) ==
  [th EXCEPT !.ci = SubSeq(@, 1, act.level), !.nCcalls = act.nCcalls,
             !.errfunc = act.errfunc, !.jmp = act.jmp, !.size_ci = Restored(@, act.level)]

\* luaD_throw() to the last luaD_rawrunprotected() of the thread: luaD_pcall()
\* puts things back, lua_resume() leaves a dead coroutine. With none, the
\* program ends.
luaD_throw ==
  LET act == cstack[Th.jmp]
  IN  /\ raising' = "no" /\ UNCHANGED <<prog, globals>>
      /\ IF Th.jmp = 0 THEN exited' = TRUE /\ UNCHANGED <<threads, cstack>>
         ELSE /\ cstack' = SubSeq(cstack, 1, Th.jmp - 1)
              /\ threads' = [threads EXCEPT ![L] =
                   IF act.kind = "resume" THEN [@ EXCEPT !.status = "error", !.jmp = act.jmp]
                   ELSE Restore(@, act)]
              /\ UNCHANGED exited

\* luaG_errormsg(): a handler is called first; an error in it comes here again.
luaG_errormsg ==
  /\ raising = "run" /\ ~exited
  /\ IF Th.errfunc THEN \E f \in {Lua, C(None)} : luaD_call("handler", f, FALSE)
     ELSE luaD_throw

Throw == raising = "err" /\ ~exited /\ luaD_throw

Error ==
  /\ Running /\ "error" \in prog.ops
  /\ raising' = "run"
  /\ UNCHANGED <<prog, threads, cstack, globals, exited>>

-----------------------------------------------------------------------------
(* Returns. *)

\* MUTANT: the end of a coroutine counted as one of a luaD_call().
UncountedAll(act, n) == n - 1

Uncounted(act, n) == IF act.kind = "resume" THEN n ELSE n - 1

\* luaD_poscall(); the last function of a luaV_execute() ends the activation.
Return ==
  LET act  == Top(cstack)
      left == IF Top(Th.ci).fn = "lua" THEN act.nexec - 1 ELSE act.nexec
      less == [Th EXCEPT !.ci = Pop(@)]
  IN  /\ Running
      /\ IF left = 0 /\ act.kind = "handler" THEN luaD_throw
         ELSE /\ IF left > 0
                 THEN /\ cstack' = [cstack EXCEPT ![Len(cstack)].nexec = left]
                      /\ threads' = [threads EXCEPT ![L] = less]
                 ELSE /\ cstack' = Pop(cstack)
                      /\ threads' = [threads EXCEPT ![L] =
                           [less EXCEPT !.jmp = act.jmp, !.errfunc = act.errfunc,
                              !.nCcalls = Uncounted(act, @)]]
              /\ UNCHANGED <<prog, raising, globals, exited>>

-----------------------------------------------------------------------------
(* Coroutines. *)

Exists(th) == threads[th].status # "free"

\* coroutine.create(), kept in a variable.
Create(co) ==
  /\ InLua /\ "create" \in prog.ops /\ ~Exists(co)
  /\ threads' = [threads EXCEPT ![co] = New]
  /\ globals' = globals \union {co}
  /\ UNCHANGED <<prog, cstack, raising, exited>>

Forget(co) ==
  /\ InLua /\ "forget" \in prog.ops /\ co \in globals
  /\ globals' = globals \ {co}
  /\ UNCHANGED <<prog, threads, cstack, raising, exited>>

\* lua_gettop(): the function of a new coroutine, or the arguments of the C
\* function it is in.
NothingOn(th) == IF th.ci = <<>> THEN ~th.body ELSE Top(th.ci) = C(None)

\* auxresume() and lua_resume() refuse a coroutine that has returned, one that
\* an error has ended, and one that runs or has resumed another: what that one
\* had on its stack is then gone (resume_error).
Refuse(co) ==
  LET th == threads[co]
  IN  /\ InC /\ Top(Th.ci).arg = co /\ Exists(co)
      /\ th.status = "ok" /\ th.ci # <<>> /\ ~NothingOn(th)
      /\ threads' = [threads EXCEPT ![co].ci[Len(th.ci)].arg = None]
      /\ UNCHANGED <<prog, cstack, raising, globals, exited>>

\* MUTANT: a coroutine that has resumed another may be resumed.
ResumableNormal(th) == th.status \in {"ok", "yield"}

Resumable(th) == th.status = "yield" \/ (th.status = "ok" /\ th.ci = <<>> /\ th.body)

\* lua_resume() of a new coroutine, or of one that has yielded: lua_yield()'s
\* function returns, and luaV_execute() goes on with all those below it.
Resume(co) ==
  LET th == threads[co]
      ci == IF th.status = "ok" THEN <<Lua>> ELSE Pop(th.ci)
  IN  /\ InC /\ Top(Th.ci).arg = co /\ Exists(co)
      /\ Resumable(th)
      /\ threads' = [threads EXCEPT ![co] = [th EXCEPT !.status = "ok", !.body = FALSE,
                                               !.ci = ci, !.jmp = Len(cstack) + 1]]
      /\ cstack' = Append(cstack, Activation("resume", co, Len(ci)))
      /\ UNCHANGED <<prog, raising, globals, exited>>

\* MUTANT: calls of C are not looked at.
BoundaryNever == FALSE

Boundary == Th.nCcalls > 0

\* lua_yield(): luaD_precall() and luaV_execute() return to lua_resume().
Yield ==
  /\ InC
  /\ IF Boundary THEN raising' = "run" /\ UNCHANGED <<threads, cstack>>
     ELSE /\ threads' = [threads EXCEPT ![L].status = "yield", ![L].jmp = Top(cstack).jmp]
          /\ cstack' = Pop(cstack)
          /\ UNCHANGED raising
  /\ UNCHANGED <<prog, globals, exited>>

-----------------------------------------------------------------------------
(* The collector. *)

\* MUTANT: the function that runs is left out.
ArgsBelow(th) == {threads[th].ci[i].arg : i \in 1..(Len(threads[th].ci) - 1)} \ {None}

\* traversestack()
Args(th) == {threads[th].ci[i].arg : i \in DOMAIN threads[th].ci} \ {None}

\* What markroot() and atomic() mark, from the main and the running thread: the
\* least set with these in it that has what its threads refer to.
Closed(S) == {Main, L} \union globals \subseteq S /\ \A th \in S : Args(th) \subseteq S
Reach == {th \in Threads : \A S \in SUBSET Threads : Closed(S) => th \in S}

Garbage == {th \in Threads : Exists(th)} \ Reach

Collect ==
  /\ Running /\ Garbage # {}
  /\ threads' = [th \in Threads |-> IF th \in Garbage THEN Absent ELSE threads[th]]
  /\ UNCHANGED <<prog, cstack, raising, globals, exited>>

\* The host calls Lua.
HostCall(k) ==
  /\ cstack = <<>> /\ ~exited
  /\ luaD_call(k, Lua, FALSE)

-----------------------------------------------------------------------------
Init ==
  /\ prog \in Programs
  /\ threads = [th \in Threads |-> IF th = Main THEN [Absent EXCEPT !.status = "ok"] ELSE Absent]
  /\ cstack = <<>> /\ raising = "no" /\ globals = {} /\ exited = FALSE

Functions == {Lua, C(None)} \union {C(co) : co \in globals}

\* A coroutine that runs has been freed: the model goes no further.
Broken == \E i \in DOMAIN cstack : ~Exists(cstack[i].th)

Next ==
  /\ ~Broken
  /\ \/ \E k \in {"call", "pcall"} : HostCall(k)
     \/ "lua" \in prog.ops /\ (OpCall(Lua, {}) \/ TailCall)
     \/ "C" \in prog.ops /\ \E f \in Functions \ {Lua} : OpCall(f, {})
     \/ \E co \in prog.made : "create" \in prog.ops /\ ~Exists(co) /\ OpCall(C(co), {co})
     \/ "meta" \in prog.ops /\ InLua /\ luaD_call("call", Lua, FALSE)
     \/ "call" \in prog.ops /\ InC /\ \E f \in Functions : luaD_call("call", f, FALSE)
     \/ "pcall" \in prog.ops /\ InC /\ \E f \in Functions : luaD_call("pcall", f, FALSE)
     \/ "xpcall" \in prog.ops /\ InC /\ \E f \in Functions : luaD_call("pcall", f, TRUE)
     \/ Error \/ luaG_errormsg \/ Throw \/ Return \/ Yield \/ Collect
     \/ \E co \in prog.made : Create(co) \/ Forget(co) \/ Refuse(co) \/ Resume(co)

Spec == Init /\ [][Next]_vars

-----------------------------------------------------------------------------
(* Properties. *)

Frame == [fn : {"lua", "C"}, arg : Coroutines \union {None}]
Thread == [status : {"free", "ok", "yield", "error"}, body : BOOLEAN, ci : Seq(Frame),
           nCcalls : Nat, errfunc : BOOLEAN, jmp : Nat, size_ci : Nat]
Activations == [kind : {"call", "pcall", "handler", "resume"}, th : Threads, nexec : Nat,
                level : Nat, nCcalls : Nat, errfunc : BOOLEAN, jmp : Nat]

TypeOK ==
  /\ threads \in [Threads -> Thread] /\ cstack \in Seq(Activations)
  /\ raising \in {"no", "run", "err"} /\ globals \subseteq Coroutines /\ exited \in BOOLEAN

Of(th, kinds) == {i \in DOMAIN cstack : cstack[i].th = th /\ cstack[i].kind \in kinds}

\* After any mix of returns, errors, handlers and yields, nCcalls is the number
\* of C calls of the thread, and never more than what is left for errors. So
\* nothing is pending when a coroutine is resumed (ldo.c:427).
CallsCounted ==
  \A th \in Threads : threads[th].status \in {"ok", "yield"} =>
    /\ threads[th].nCcalls = Cardinality(Of(th, {"call", "pcall", "handler"}))
    /\ threads[th].nCcalls <= LUAI_MAXCCALLS + ExtraCCalls
    /\ L # th /\ (threads[th].status = "yield" \/ threads[th].ci = <<>>) => ~threads[th].errfunc

\* errorJmp is the last protected activation of the thread, and it is still on
\* the C stack: a throw unwinds no other thread.
JmpSound ==
  \A th \in Threads : Exists(th) =>
    LET own == Of(th, {"pcall", "resume"})
    IN  /\ threads[th].jmp = IF own = {} THEN 0 ELSE CHOOSE i \in own : \A j \in own : j <= i
        /\ th = L => \A i \in DOMAIN cstack : i > threads[th].jmp => cstack[i].th = th

\* luaV_execute() returns from as many functions as it was entered for: each
\* Lua function on the stack of a thread belongs to one activation, and a
\* coroutine that has yielded is in Lua functions only, but for the last.
ExecSound ==
  \A th \in Threads : Exists(th) /\ threads[th].status # "error" =>
    LET ci == threads[th].ci
        luas == {i \in DOMAIN ci : ci[i].fn = "lua"}
        runs == UNION {{<<i, n>> : n \in 1..cstack[i].nexec} : i \in Of(th, {"call", "pcall", "handler", "resume"})}
    IN  IF threads[th].status = "yield" THEN luas = 1..(Len(ci) - 1)
        ELSE Cardinality(luas) = Cardinality(runs)

\* The stack of CallInfo never overruns its size, which grows past its limit
\* once, and not while an overflow is handled.
CallsBounded ==
  \A th \in Threads : /\ Len(threads[th].ci) < threads[th].size_ci
                      /\ threads[th].size_ci <= 2 * LUAI_MAXCALLS

\* A coroutine that runs, or has resumed one that does, is not collected, but
\* where its resumer was itself resumed meanwhile, and with those it has resumed.
KeptAlive ==
  \A i \in DOMAIN cstack :
    cstack[i].kind = "resume" /\ ~Exists(cstack[i].th) /\ Exists(cstack[i - 1].th)
      => Top(threads[cstack[i - 1].th].ci).arg = None

\* What coroutine.status() says.
costatus(co) ==
  LET th == threads[co]
  IN  CASE co = L -> "running"
        [] co # L /\ th.status = "yield" -> "suspended"
        [] co # L /\ th.status = "ok" /\ th.ci # <<>> -> "normal"
        [] co # L /\ th.status = "ok" /\ th.ci = <<>> /\ th.body -> "suspended"
        [] OTHER -> "dead"

\* The coroutines that have been resumed, each after those below it.
Resumed == {i \in DOMAIN cstack : cstack[i].kind = "resume"}
Nth(n)  == CHOOSE co \in Coroutines :
             \E i \in Resumed : cstack[i].th = co /\ Cardinality({j \in Resumed : j <= i}) = n
Chained == IF cstack = <<>> THEN <<>>
           ELSE <<Main>> \o [n \in 1..Cardinality(Resumed) |-> Nth(n)]
State(co) ==
  IF \E i \in DOMAIN cstack : cstack[i].th = co /\ ~Exists(co) THEN "active"
  ELSE IF ~Exists(co) THEN "absent"
  ELSE IF costatus(co) \in {"running", "normal"} THEN "active" ELSE costatus(co)

Chain == INSTANCE CoroutineChain WITH
  Routine <- Coroutines, chain <- Chained, state <- [co \in Coroutines |-> State(co)]

\* pcall, errors, handlers and the collector leave the order in which coroutines
\* have resumed each other alone: each comes back to its resumer, once, and an
\* error ends the coroutine it is in and no other.
Implements == Chain!Spec
=============================================================================
