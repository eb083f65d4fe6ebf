# Project XANA in TLA+

Project XANA is a small i386 kernel in D (NUCLEUS), with a run-time library
(KLIB, XULIB, std) and a hypertext interface (AILETA) on top of it. Its tree
carries Lua 5.1, which the kernel does not link yet. This directory holds TLA+
modules for the core of both, TLC configurations that check them, and proofs that
TLAPS checks. Source paths are relative to the repository.

Run from this directory:

    tlc -workers 2 -config Keyboard.cfg MCKeyboard
    tlapm CollectorProofs.tla

`PROJECT.json` lists the runs, the mutants, which lines of code each definition
translates, the hazards and the theorems.

## 1. The system

One processor. After the boot there are two activities: the main program
(`kmain`, then AILETA) and the keyboard interrupt handler, which runs with
interrupts off and so never interrupts itself. They share the keyboard buffer,
`key_waiting`, and the console, and there is no lock anywhere: `cli` appears
only in the entry code. That is where most of what can go wrong comes from.

| Part | State | Operations | Talks to | Must hold |
|---|---|---|---|---|
| Keyboard buffer (`klib/Stdin.d`, `nucleus/i386/irq.asm`, `std/stdio.d`) | `KB_BUFFER`, `KB_BUFFLEN`, `key_waiting` | `KB_handle` (ISR), `KB_read`, `getc`, `gets` | console (echo), pic (EOI) | order; never copies from an empty buffer; a poller drains it (but see below: a backspace and a stranded key) |
| Scan codes (`klib/Stdin.d`) | `KB_KEYMAP` | `scan2char`, `read_KB` | called by the ISR | flags follow the keys held |
| Console (`klib/Stdout.d`, `putc`) | `index`, `cursor`, CRT controller | `putChar`, `newLine`, `scrollDown`, `gotoPosition`, `clearScreen` | called by main and by the ISR; a backspace changes `KB_BUFFLEN` | the cursors agree; output stays near the page; calls return |
| Interrupt set-up (`klib/pic.d`, `klib/idt.d`, `klib/Multithread.d`) | two 8259s, the descriptor table, IF | `remap`, `enable`, `disable`, `EOI`, `set`, `clear` | hardware | no interrupt without a handler; keys are heard |
| Boot (`nucleus/nucleus.d`) | program counter | `kmain`, the `getc`/`hlt` prompt | all of the above | a key starts AILETA |
| AILETA (`aileta/aileta.d`) | `current`, `filesystem` | `process_z2_key`, `draw_z2` | keyboard, console, Enfs | cursor on an existing document; `Q` quits |
| Memory (`klib/Memory.d`) | `Heap.index` | `allocate`, `memcpy`, `memset`, `memcmp` | everything | blocks disjoint; all bytes copied |
| XuHeap, XuMem, XuGC (`xulib/`) | reference table | `malloc`, `free`, `addRoot` | Memory | counts go with their blocks |
| Array run time (`xulib/gc2.d`, `gcstub.d`) | capacity | `_d_array*` | memory | growth keeps contents |
| Enfilades, documents, Enfs (`xulib/estage/`) | table of contents, document list | `get`, `set`, `add`, `format`, `setup` | arrays | get after set |
| Disk (`klib/estage/mmdisk.d`) | none | LBA/CHS conversion, sector access | ports | conversions inverse |
| std (`std/string.d`, `std/format.d`) | none | string functions | all | reference definitions |
| Lua collector (`lua/lgc.c`, `lfunc.c`, `lstring.c`) | colours, gray lists, `currentwhite`, `gcstate`, string table, open upvalues | `singlestep`, `luaC_fullgc`, the barriers | every store of the interpreter and the API | nothing in use is freed; garbage is; finalizers once |
| Lua tables (`lua/ltable.c`) | array part, nodes, `lastfree` | `luaH_get`, `luaH_set`, `luaH_next`, `luaH_getn`, `luaH_resizearray` | collector (dead keys, weak entries), allocator (errors) | a map; traversals complete; borders |
| Lua calls (`lua/ldo.c`, `libs/lbaselib.c`) | `CallInfo` stacks, `nCcalls`, `errorJmp`, `status`, the C stack | `luaD_call`, `luaD_pcall`, `luaD_throw`, `lua_resume`, `lua_yield` | collector (what a thread keeps alive) | errors restore all; coroutines nest |

Not the project's own logic: the rest of `lua/`, `libm/`, `internal/`, `std/typeinfo`,
`std/stage2`, `klib/lstage` (third party), `branches/c` (given up), graphics,
logo, single-instruction wrappers (paging, unreal mode, ports).

What is hard here: the handler against `KB_read()` (a byte-wise copy with a
stale length), `getc()` against `hlt` (lost wake-up), three copies of one cursor
that are allowed to part, unsigned fields that wrap, an endless loop in
`scrollDown()` that may be entered inside the handler, and interrupts that may
arrive at any point of a set-up that takes some thirty port accesses. In Lua:
a collector that stops anywhere while the program rewires the heap, tables that
are searched and traversed while their keys die, and errors that jump over frames
of several coroutines on one C stack.
`PROJECT.json` lists each of these at its line under "hazards".

## 2. Modules

    ScanCode ── Term ── Keyboard ── BootWait        KeyStream (abstract)
       │         └───── Console                        ▲
       └── Keymap                          Keyboard implements it
    Interrupts (by itself)

    Collector ─implements→ Reclaim      LuaTable ─implements→ LuaMap
    Calls ─implements→ CoroutineChain

`MC*` modules give the constants of a run. The theorems are in `TermProofs`,
`ConsoleProofs`, `KeyboardProofs`, `InterruptsProofs`, `KeymapProofs`, `CallsProofs`,
`LuaTableProofs` and `CollectorProofs`; section 4 says what they prove. There is no RECURSIVE operator: sets closed under references (`Along` of
Collector, `Reach` of Calls) are written as least closed sets.

**ScanCode** — `scan2char()` and its tables as an operator from `KB_KEYMAP` and a
scan code to a SET of outcomes. The kernel is built with `-frelease`, so tables
are read without a bounds check; a read behind a table gives any member of
`Garbage`. Characters are their codes, `KB_KEYMAP` is the set of its flags.
The `Ctrl` test (`scan & 29 == 29`) is kept as it is: scan codes such as 31 (`s`)
pass it too.

**Term** — `struct Term` as functions from a console to a console: `index`,
`cursor.x/y`, and the position last given to the CRT controller. All are numbers
modulo `Word` (2^32), so a backspace at column 0 wraps. `hung` stands for a
`scrollDown(lines)` with `lines # 0`; its loop never changes `lines`. Colours and
glyphs are left out.

**Keyboard** — `KB_handle()` in one step (the gate clears IF) against
`KB_read()` in a step for each access to shared memory: `Enter`
(`if (key_waiting)`), `Load` (`temp = KB_BUFFER[0]`), `Count` (the length of the
slices is taken), `Copy` (a byte), `Dec`, `Compare`, `Clear`. This granularity
was read off the compiled kernel in `src/fd0.img` (`DNUCLEUS.ELF`): the slice
copy is an inline `rep movsb`, which may be interrupted between two bytes, with a
count computed from `KB_BUFFLEN` before, and `KB_BUFFLEN-=1` is one `dec`. A slot
holds the number of the interrupt that wrote it, so that order and repetition
can be stated; `typed` gives the character of each number. `fault` ends a
behaviour where the code destroys memory: the handler's store into slot
`BufSize`, or the copy of length 0 - 1. The history variables are `typed`, `late`
(the last interrupt that came between `Compare` and `Clear`) and `last`; no step
depends on `late` or `last`, and `typed` only gives
the characters and bounds the number of interrupts. `Halt` is any `hlt` of the main program;
`FairSpec` adds that a program in `getc()` goes on, and
`PollSpec` is the program of `gets()`, which polls and never halts.

Two things the code cannot keep are named where a property has to except them.
`Erasing`: the last key was a backspace, which the handler stores, takes off the
buffer again in its echo, and announces with `key_waiting` all the same; a read
then copies 2^32-1 bytes. `Stranded`: the last key came between `Compare` and
`Clear`, which takes its `key_waiting` away; it stays in the buffer until
another key comes.

**KeyStream** — what the keyboard promises: characters come in the order they
were typed, some lost, some twice. `ReadsInOrder` is `Keyboard` under the mapping
that keeps `typed` and `last`.

**BootWait** — `while(getc()=='\0') { asm{hlt;} }`: `Poll`, the steps of the read,
`Sleep`. `hlt` is a step of its own, and a key handled before it does not end it.
The keys are a letter, Shift, Ctrl, Enter and Backspace: `KeyStarts` says that a key
in time starts AILETA or breaks the kernel, and `Broken` names the three ways (the
echo hangs, a Backspace underruns, a full buffer overruns). Each of them is
reached in the run.

**Console** — any sequence of `putc`, `gotoPosition` and `clearScreen`, the last
with a step per turn of its loop, interrupts off.

**Keymap** — a person at a keyboard. Make and break codes, and 0xE0 before the
codes of keys the original layout lacked, go over a wire to `read_KB`. The wire
and the keys are hardware, hence external; the flags are `scan2char`'s.

**Interrupts** — the main program is the sequence of port and table accesses that
`kmain` executes (`remap`, `disableAll`, `clear`, `registerAllExceptions`,
`init_threading`, `init_KB`, `sti`), one per step, against devices that request
at any step. The 8259s and the keyboard port are external: a controller's mask,
base vector and initialisation state, `irr`, `isr`, and the priority rules as far
as the code depends on them. `Descriptor.clear()` passes its arguments to
`memcpy()` in the wrong order with the size of a pointer, so it leaves a present
descriptor to low memory; `enable(n)` shifts by n (mod 32) and so does nothing for
IRQ8 and up (`shl eax,cl` in the binary); `disable(n)` masks all lines but its
own. The handler is four steps: it reads the port, echoes, ends the interrupt, and
returns. `Echo` may never return (`scrollDown()` at the foot of the page): the handler
is `hung` then, its interrupt is not ended and IF stays down. Whether it does is a
choice here, as the page is Term's. After `sti`, `Drive` executes the calls a driver may make: `IDT.set`,
`disable`, `disableAll`. Stray vectors (a gate nobody set, or `irq0_handler`,
whose `iret` finds EBP on the stack) end the behaviour. Spurious interrupts and
exceptions are not raised.

**Collector** — `singlestep()` of `lgc.c`, one call per step (`Propagate` one gray
object, `SweepOne` one object, `GCTM` one finalizer), against what programs do
between two steps: stores with their barriers, locals (no barrier), metatables,
new objects, interned strings, closures over locals (`Capture`, `Close`),
coroutines, `collectgarbage()`. `atomic()` runs with no program step inside but is
cut at its `propagateall()` calls, so that each phase is a state one can look at.
The heap is `kind`, `held` (entries of a table, upvalues of a closure, the value of
a closed upvalue), `meta`, `mode`, `stack` and `open` (the stack slot an open
upvalue points to). `color` is one of two whites, gray, black. Lists are sets. A
program uses what it can reach (`Mutate`), as an interpreter without raw pointers
does. Finalizers do not nest and do not themselves force a collection.

**Reclaim** — what a collector promises: frees only what nobody, nor a finalizer to
come, can get at; a finalizer is arranged for what has no strong reference, and
called once; weak references go by themselves. `Collector` implements it with
reachability computed from its heap. `firm`, what no finalizer is arranged for,
leaves out what hangs on userdata whose own finalizer is to come (`Certain`): of
these the code does not promise more (see below).

**LuaTable** — `ltable.c` with nodes, `next` chains and `lastfree` as they are. The
hash is a constant of the program (`Tables`), chosen so that keys collide, meet
in each other's main positions and move between the parts; the keys that a program
uses are those it is defined for. Powers of two, chains, `resize()`, `computesizes()`
and the bisection are recursive functions, one step of the code's loop each. `SetFails` and
`ResizeFails` are the errors of memory inside `rehash()`; `RemoveEntries` and
`ClearEntry` are what the collector does to a table.

`luaH_next()` with no element left is a result the program sees (`Done`); `Leave` is the
program that breaks off a traversal at a key, of its own accord.

**LuaMap** — a map from keys to values with one traversal, during which entries are
changed and removed but not added. `Visit` gives a key not given before, and `End`
says that there is none left only when each key with a value has been given: so
every entry that stays is given once, unless the program leaves first. `given` is
the keys in order, so that a step of `luaH_next()` that gives a key, one that says there
is none, and the program's `Leave` are three things that no mapping can confuse.

**Calls** — the threads (`lua_State`) with their `CallInfo` stacks, and the one C
stack they share: an activation for each `luaD_call()`, `luaD_pcall()`, error handler
and `lua_resume()` on it, with what the C locals of these functions save
(`oldnCcalls`, `old_ci`, `old_errfunc`, `errorJmp`) and the `nexeccalls` of the
`luaV_execute()` it started. Of the values on a stack, the coroutine that a C
function was called with is kept, as the collector finds it there.

**CoroutineChain** — one routine runs, those before it wait in the order in which
they have resumed each other, and each comes back to the one that resumed it.

## 3. Runs

Bounds are named in the modules: `MaxKeys` (interrupts in a behaviour),
`WireSize` (bytes on the wire), `BufSize`, `Width`, `Height`, `Word`.

| Run | Question | Bounds, and why they are enough |
|---|---|---|
| Keyboard | Whatever the program and the keys, backspaces too: is the buffer always in order, do reads implement KeyStream, is `key_waiting` a sign of a key and the copy never empty (unless the last key was a backspace), does a reader that goes on empty the buffer but for what is stranded? | 4 slots, 4 keys of make, break, Enter, Backspace, console 3x3: the buffer overruns and underruns, a handler can come at every point of a copy of two bytes, a key is stranded, and the echo hangs |
| KeyboardStrands | (finding) does a program that polls read all there is in the buffer? | 3 keys of a letter; one is enough after the first read |
| KeyboardTakesOff | (finding) does `KB_read()` return the next character? | 3 keys; the first read is enough |
| BootWait | Does a key that is in time start AILETA, whatever key it is, or break the kernel in a way that is named? | 4 events of a, Shift, Ctrl, Enter and Backspace, 4 slots, all states of the loop; hang, underrun and overrun are reached |
| BootAnyKey | (finding) does any key start AILETA? | a press and its release |
| Console | Do the cursors agree, is output bounded, does `clearScreen()` clear the page and return? | 5x4 and Word 256: column wrap at both ends, rows to one below the page, wrap of the word |
| Keymap | Do flags follow the keys, does a lone key type itself? | 6 keys, one of each kind, 3 bytes on the wire: every order of presses and releases, prefixes split from their codes |
| Interrupts | Is no interrupt taken without a handler, is a key heard, and read unless a driver masks it or an echo hangs? | timer, serial port, clock and keyboard: lines above and below the keyboard's, one of the slave's |
| Collector | Whatever a program does between two steps of the collector: is nothing in use freed, all garbage after a forced cycle, each finalizer called once, each weak entry kept that should be; does it implement Reclaim? | six programs (`MCCollector`): two tables stored in each other; a userdata with a finalizer in a weak table; a metatable that dies before its userdata; a string in a weak table; a closure over a local of a coroutine; a closure, its upvalue and `debug.setupvalue()`. Two or three objects besides the main thread and the registry, one entry per table, one slot per stack: enough for a black object, a white one and the one that hides it |
| CollectorDebug | (finding) does `debug.setupvalue()` keep the barriers' promise? | two closures, their upvalue, a table |
| LuaTable | Are chains sound, does a rehash fit, is the length a border, is the array of the size promised; does the table implement LuaMap? | three tables of four keys with colliding hashes, `MAXBITS` 2, `MAX_INT` 7: moves, reuse of emptied nodes, both parts growing and shrinking, the linear search at `MAX_INT` |
| Calls | Does an error restore what it should, from any depth of handlers and coroutines; do the limits hold; do coroutines implement CoroutineChain? | four programs (`MCCalls`); 4 (+2) C calls, `CallInfo` from 4 to a limit of 6: both overflows, and an overflow while one is handled; one, two and three coroutines |

Passing runs check one type invariant each; the other properties are those that
take several steps to violate. Every property of a passing run has a mutant in
`PROJECT.json`, a small bug in a modelled definition that violates it.

`CHECK_DEADLOCK FALSE` where the system may stop: the processor sleeps, the
console hangs, an error without a handler ends a Lua program, or the model has
ended at a fault or a loss. Keymap, Interrupts and Collector never stop, and
deadlock is checked there.

Refinement. `ReadsInOrder`, and `Implements` of Collector, LuaTable and Calls, are
abstract specifications under `INSTANCE ... WITH`, checked as properties.

Fairness. One processor executes the program whenever it is not in the handler
or asleep, hence weak fairness of the program's own steps: `KB_read` in
`FairSpec` and `PollSpec` (`Drains` allows that the program sleeps for ever), `Main` in `BootSpec`, the turns of `clearScreen()` in `Console`,
`Execute` and `Handle` in `Interrupts`; there also of `Interrupted`, as the
processor looks for a request after every instruction. `Handle` may be hung after its echo,
and fairness then asks nothing of it. Nothing is assumed of
keys, devices or drivers. `Collector` states weak fairness of the collector (a
program that goes on allocating reaches the threshold again) and of the return of
finalizers; no property of its run needs it, as `CollectsAll` states what is left
when a forced cycle has swept and not that one ends.

### What the code does that its documents do not say

Shown by a run:

* `KeyboardTakesOff`: `Stdin.d.txt` says `KB_read()` "reads 1 char from the
  KB_BUFFER, takes it off, and returns it". The handler fills from slot 1
  (`++KB_BUFFLEN`), the reader takes slot 0 and moves one byte too few.
* `KeyboardStrands`: `getc()` is to "Read one char from the keyboard buffer and return it"
  (`documentation/src/std/stdio.d.txt`). A key that comes between the test of `KB_BUFFLEN` (`Stdin.d:284`) and
  `key_waiting=0` (285) is in the buffer, and each `getc()` after that returns NUL
  until another key comes.
* `BootAnyKey`: "Press any key to start the AILETA interface" (`nucleus.d`). A
  key between `getc()` and `hlt` does not; the next one does (run BootWait).
* `CollectorDebug`: `lobject.h:111` asserts of every value that it is not dead.
  `lua_setupvalue()` (`lapi.c:1075`) applies the barrier to the closure, though what it
  has stored into is the upvalue. When two closures share it and the other one has
  had it marked, the new value stays white and is freed while the upvalue holds it.

Seen in the text and in the models, with no run of their own: `disable(n)`
"disables IRQ n" (`pic.d.txt`); "mask all IRQs" over a `disableAll()` that masks the
master only; "register all exceptions. Period." without 1 and 15; a
backspace typed into an empty buffer raises `key_waiting`, and the next read copies
2^32-1 bytes (`underrun` in Keyboard, `Erasing` in its properties); a key byte in the port before `remap()` keeps the keyboard silent, since
`init_KB()` does not drain the port (`early` in Interrupts); `newLine()` "handles \n"
(`Stdout.d.txt`) but the second one below the last row enters `scrollDown()`, whose
`while(lines)` never ends (`hung` in Term, Keyboard and Interrupts).

In Lua, reached by the models:

* An error of memory in `resize()` after the array has grown and before there is a
  new node vector (`ltable.c:303-305`) leaves integer keys in nodes that no search
  visits: `t[k]` is nil, and `next` gives other keys twice or loops. `LuaMap` allows
  the loss as `Damage`, and the model ends there.
* "at least half the slots" are in use (`ltable.c:12`): the code asks for more than
  half (198); `ArrayOptimal` states the code's.
* `resume_error()` (`ldo.c:409`) on a coroutine that has itself resumed another cuts
  the stack of the C function that waits in it. If its argument was the only
  reference to the other one (`coroutine.resume(coroutine.create(f))`), the collector
  frees that one, once it waits for a third. `KeptAlive` says that this is the only
  way.
* `LUAI_MAXCCALLS` is "the maximum depth for nested C calls" (`luaconf.h:464`), but
  each coroutine counts its own.
* A userdata whose finalizer is due stays black from one cycle into the next until
  the finalizer runs. When it is strongly reachable again by then, marking stops at
  it (`reallymarkobject()` passes over black objects), and another userdata that only its
  metatable or environment leads to is still white when `luaC_separateudata()` looks: its
  finalizer is arranged although it is in use. The interpreter built from these
  sources does this. Nothing is freed too early: `marktmu()` marks again from both.

Outside the models, found while reading for them: `lua_close()` moves userdata with
finalizers into the circular list `tmudata` whatever the collector is doing
(`luaC_separateudata(L, 1)`). If a sweep has stopped at one of them, `sweepgc` points
into the circle, and a finalizer that calls `collectgarbage()` before that userdata's
turn sweeps for ever: `*g->sweepgc == NULL` (`lgc.c:587`) never holds. The
interpreter built from these sources does hang so; it also shows the two uses
of freed objects above (`CollectorDebug`, `resume_error()`) under an address
sanitizer.

## 4. Proofs

All obligations of eight modules are proved with Z3, Zenon and LS4, for every
value of the constants that satisfies the named assumptions
(`TermAssumption`: a page that fits into a word with nine columns and three
rows to spare; `KeyboardAssumption`, `ConsoleAssumption`, `GarbageAssumption`, and
those of Keymap, Interrupts, Calls, Collector and LuaTable, which give the constants
their types; LuaTable's also say that the largest array is below `INT_MAX`, and that
a string or another object is not a number). The bounds of the runs (numbers of keys, objects, threads, calls) are
constants there, so the theorems hold whatever they are. A theorem that needs more
has it as its own hypothesis, named below.

**TermProofs**: lemmas about the operators: every operation of a console gives a
console; `scan2char` gives a byte and a set of flags; column and row wrap stay in
the word.

**KeyboardProofs**. `Inv` is `TypeOK`, `CopyFits`, `Sorted`, `ReadOrder`.
`Sorted` is not inductive by itself: `Copy` moves slot di + 1 to di, and to know
that both lie in the sorted part one needs `CopyFits` (the copy's end is below
`KB_BUFFLEN`: nothing lowers it during a copy except a backspace, whose handler
raises it first, so that it never goes below what the reader has seen).
`ReadOrder` ties what was returned last, what a read holds and what the
next one will find. From `Invariance`:

* `TypeCorrect`, `BufferSorted`: `Spec => []TypeOK`, `Spec => []Sorted`;
* `Implementation`: `Spec => ReadsInOrder`, the refinement of KeyStream. The
  handler is `Type`, the return of a read is `Read`, everything else stutters;
* `NeverUnderruns`, `WaitingMeansKey`: `NoUnderrun` and `WaitingHasKey`, for any keys: that
  the last key was a backspace is the only way to an empty copy or to a `key_waiting`
  with nothing behind it. The strengthening adds `ReadHasKey`. It is inductive because
  any other key puts something into the buffer, which nothing takes out before the read
  does.

**ConsoleProofs**. The invariant relates row and index: on the page the
three cursors agree; on the row below it `index` is within that row; and in
`clearScreen()` the blanks written are exactly the cells before `i`, which is
where `index` is. From it `TypeCorrect`, `CursorsAgreeAlways`,
`IndexStaysBounded`, `ClearsThePage`, and `ClearNeverHangs` (the safety half of
`ClearReturns`).

**KeymapProofs**. A flag that is up, and each make code still on the wire, belongs
to a key that is down or whose break byte follows on the wire (`Belongs`); from it
`NeverStuck` (`NoStuckFlag`) for any keys held together. `TypesItself` (an action
property) needs besides that with one key down nothing but its own bytes is on the
wire.

**InterruptsProofs**. `kmain` runs with interrupts off until its last instruction, so
until then the controllers and the gates are what the instruction reached has made
of them (`Starting(n)`, one predicate for each of the seventeen), and devices change
requests only. Afterwards (`Up`) a line of the master is open only if its gate has a
handler. From it `TypeCorrect`; `NeverStray`, if drivers leave line 2 alone or no
device is behind the slave: `remap()` leaves the slave's lines and line 2's gate as they
are, so a driver that set a gate for line 2 and unmasked it would let them through;
`AlwaysHeard`, if no driver takes line 1 from the keyboard. `MCInterrupts` has
drivers and devices within both hypotheses.

**CallsProofs**. What an activation of the C stack has saved is true of the
activations below it. The parts of `IInv`: `Sizes` (`CallInfo` within its array);
`Shape` (the activations of a thread follow each other, a coroutine's begin with
its `lua_resume()`); `Saved` (`oldnCcalls` is the number of C calls of the thread below,
`errorJmp` its last protected one, `errfunc` set only under one); `Levels`
(`old_ci` never above what is above it); `CurrentOf` and `StatusOf` (the same for
the thread's fields now); `Frames` (each activation runs an interval of the
frames, `nexec` Lua functions and at most one C function); `Waiting` (what a
`lua_resume()` waits for). An error then restores what is true because it was saved.
From it `CallsCorrect`, `JumpsCorrect`, `StacksBounded`, `RunningKept`, and `ExecsCorrect`, where
the number of `luaV_execute()`s and of Lua functions agree by a bijection between
activations' functions and frames. The model stops at `Broken` (the case of
`resume_error()` above), and the theorems are about it up to there.

`CoroutinesChained`, in the same module: Calls implements CoroutineChain. The chain is
the order of the `lua_resume()`s on the C stack, counted by their rank; every
operation leaves them as they were (a stutter), starts or ends the program, adds one, or takes
the last one away.

**LuaTableProofs**. `IInv` has three parts. `Good` is the order of the table: `Typed` (its
fields; dummynode is empty, and what is in the array belongs to a key in use); `Kept` (a
node without a key is as new, one with a value is not dead, none without a key lies
behind `lastfree`); `Joined` (`next` fields lead to nodes with keys, no two to the same
one, and they end: some rank falls along them); `Placed` (a node is in the chain of its
key's main position, whose own key has its main position there; of several nodes with
the same key, one of which may be dead, that which is not dead comes first). The second
part is that no rehash ran out of room. The third, `Trav`, says that a traversal is
at a key that `findindex()` finds, and has given the elements up to there and no others: so
what `luaH_next()` finds behind that place has not been given (`Visit`), and when it
finds nothing, all has (`End`).
`MainInvariant` is weaker than `Placed`: it says nothing of a main position that has lost its
value, and such a node is reused where it is. The argument goes from the bottom up:

* a recursive function is used through its equation. That the equation has a
  solution is an induction of its own for each of them; for `Chain` and `First` it is along
  the rank, which is why `Joined` has it, and not on a number;
* the three ways of `newkey()` (reuse the main position, move the colliding node, chain
  behind it) each keep `Good` and store the key without touching another (`Reuses`, `Moves`,
  `Chains`);
* `resize()` is followed table by table: what is in the new one is what has been taken
  from the old one, each key once. As the keys still to come are counted in its size,
  `Room` finds a free node for each, by counting the nodes with a key;
* `computesizes()` is followed slice by slice (`Scanned`): after each, the best size so
  far and what it holds. The hash part gets as many nodes as keys are left, the new
  key included, so `RehashFits` follows and the key that asked for the rehash finds a place;
* `luaH_getn()` ends at a border in each of its three ways, the linear search where `j`
  would overflow among them;
* every step leaves all elements as they were, changes one, or (an error of memory) loses integer
  keys; and it takes elements away only while there is a traversal (`Fewer`).

From it `TableTyped`, `ChainsCorrect`, `RehashesFit`, `BordersFound`, `ArraysOptimal`;
`TraversalsValid` (never "invalid key to next"); and `MapImplemented`, the refinement of
LuaMap: a store or a cleared entry is a `Store`, `luaH_next()` a `Visit` or the `End`,
`Resume` and `Leave` what the program does after and instead, an error a `Damage` if it has lost anything, everything else a stutter. As in the run,
the table stops where keys are lost (`Shadowed`), and the theorems are about it up to
there.

**CollectorProofs**. `IInv` says what lists and colours mean in each phase, so that
`Sure`, what the sweep that goes on will leave, is closed under references (`Sound`) and
has the roots in it (`RootsSound`); `NoDeadInUse` follows as what can be got at is the
least such set. Sweeping keeps `Sure`. That `Sure` is closed when the
white changes, at the end of `atomic()`, needs `Barriers`: black objects refer to nothing
white, and in `atomic()` one kind of gray object after the other does not either (open
upvalues after `remarkupvals()`, weak tables strongly, threads of `grayagain`, at last
userdata). That needs `Lists` (what is gray is on a list to be traversed, or a string,
or an open upvalue) and `Colors` (threads and open upvalues are never black; between
sweeps everything has the current white). `Blank` and `Shapes` say what
an object of each type may hold, `Finalizing` relates `tmudata`, FINALIZEDBIT and colours,
`Phases` the phase and what is still to be swept. Hypothesis `NoDebug`: no program calls
`debug.setupvalue()`, whose barrier is wrong (`CollectorDebug`). From it:

* `TypeCorrect` (without the hypothesis), `NothingFreedInUse`, `ListsSound`, `BarriersSound`,
  `FinalizersOnce`;
* `ClearsWeak`: what is strongly reachable is not white when weak tables are cleared;
* `Collects`: with the invariant `Exact` added (in a forced cycle, what is marked, and
  then what is left, can be got at, unless a weak table is among it);
* `Reclaims`: the refinement of Reclaim. `Reach`, `Saved` and `Certain` are used through
  three laws each (the roots are in it, it is closed, it is the least such set): each
  step of a program adds references only from what it can reach to what it can reach
  or has made; separation is an `Arrange`, clearing a `Clear`, sweeping an object a `Free`,
  `GCTM` a `Call`, everything else a stutter.

Only model-checked: liveness (`Drains`, `KeyStarts`, the return in `ClearReturns`,
`KeyServed`) is out of the prover's reach, and so is the progress of the collector. Every
other property that a run checks is stated by a theorem.

## 5. Not modelled, and the plan

Modelled: keyboard, console, key map, boot prompt, interrupt set-up; and of Lua the
parts whose state outlives a call and where the order of events matters:
collector, tables, calls.

Left out of what is modelled:

* Console and Keyboard are not composed at the granularity of single fields: the
  main program's `putChar()` with the handler's echo between two of its stores, and
  `aileta`'s `putc('\b')` from outside the handler. `KB_read(int)` is not called by a
  program that is linked but `std.stdio.read()`.
* Collector: `lua_close()`, the resizing of the string table and of stacks, the pace
  (`estimate`, `gcpause`, `gcstepmul`: when steps come is left open), fixed strings,
  prototypes apart from their closures. An entry with a key that is not collectable is one
with a slot of the array: only its value can go.
* LuaTable: what the hashes of floats compute; "table overflow", which four keys do not
  reach and whose effect on the table is that of `SetFails`.
* Calls: hooks, the stack of values and its growth, `lua_load`, `lua_cpcall`, the
  shrinking of `CallInfo` by the collector, `coroutine.wrap` (a resume that raises); errors
of memory, which would raise the error at more places; a handler that is not a
function (`ldebug.c:603`); what is wiped on the stack of a coroutine that is dead already.

Not modelled at all: the rest of Lua (a one-pass compiler, an interpreter of
instructions, a C API over a stack, string, number and file functions), `libm`, the
C branch (`branches/c`, whose `lua/` and `libm/` are copies of those of `src/`), and of
the kernel AILETA, the bump allocator and XuMem, Enfs, the disk, `std.string`. The
sequential ones have little that interleaves or fails between steps; the
allocator and Enfs are listed as hazards in `PROJECT.json`, at their lines, with no
property yet. The kernel itself is in D and assembler; of the C in the tree, the
map covers what is named above, and by far the most of the rest is the compiler,
the libraries, the numerical functions and the second copy of all of them.

What is left: a composition of Console and Keyboard at single fields; the allocator and
XuMem, whose hazards are listed without a property; and of Lua, `lua_close()` in the
middle of a sweep.
