------------------------- MODULE CollectorProofs -------------------------
(*************************************************************************)
(* Proofs about the garbage collector.                                   *)
(*                                                                       *)
(* The invariant IInv says what the lists and the colors mean in every   *)
(* phase, so that what the sweep will leave (Sure) has in it the roots   *)
(* and whatever its objects refer to.  It holds for every set of objects *)
(* and of programs, as long as none calls debug.setupvalue(), whose      *)
(* barrier is that of the wrong object: the run CollectorDebug shows     *)
(* what it does.                                                         *)
(*                                                                       *)
(* The sets of what can be got at are used through three laws only: they *)
(* have their roots in them, and what is referred to from them, and they *)
(* are the least such sets.  From these it follows, for each step, that  *)
(* the collector implements Reclaim.                                     *)
(*************************************************************************)
EXTENDS Collector, TLAPS

(*************************************************************************)
(* What refers to what, said of two objects: x is in Refs(o), StrongRefs(o), *)
(* or ValueOf(u).                                                        *)
(*************************************************************************)
Value(u, x) ==
  /\ x # None
  /\ IF open[u] = None THEN \E e \in held[u] : x = e[2]
     ELSE x = stack[open[u][1]][open[u][2]]

Arrow(o, x) ==
  /\ x # None
  /\ \/ x = meta[o]
     \/ kind[o] = "thread" /\ \E s \in Places : x = stack[o][s]
     \/ kind[o] = "upval" /\ Value(o, x)
     \/ kind[o] \notin {"thread", "upval"} /\ \E e \in held[o] : x = e[1] \/ x = e[2]

StrongArrow(o, x) ==
  IF kind[o] # "table" THEN Arrow(o, x)
  ELSE /\ x # None
       /\ \/ x = meta[o]
          \/ ~IsWeak(o, "k") /\ \E e \in held[o] : x = e[1]
          \/ ~IsWeak(o, "v") /\ \E e \in held[o] : x = e[2]

IsWhite(o) == color[o] \in {"white0", "white1"}

\* The operators of the module agree with these.
ArrowsAgree ==
  \A o \in Obj : \A x : /\ x \in ValueOf(o) <=> Value(o, x)
                        /\ x \in Refs(o) <=> Arrow(o, x)
                        /\ x \in StrongRefs(o) <=> StrongArrow(o, x)

LEMMA Agreement == ArrowsAgree
<1> SUFFICES ASSUME NEW o \in Obj, NEW x
             PROVE  /\ x \in ValueOf(o) <=> Value(o, x)
                    /\ x \in Refs(o) <=> Arrow(o, x)
                    /\ x \in StrongRefs(o) <=> StrongArrow(o, x)
  BY DEF ArrowsAgree
<1>1. x \in ValueOf(o) <=> Value(o, x)
  BY DEF ValueOf, Value, Things
<1>2. x \in Refs(o) <=> Arrow(o, x)
  <2>1. CASE kind[o] = "thread"
    BY <2>1 DEF Refs, Arrow, Things
  <2>2. CASE kind[o] = "upval"
    BY <2>2, <1>1 DEF Refs, Arrow, Things, Value
  <2>3. CASE kind[o] \notin {"thread", "upval"}
    BY <2>3 DEF Refs, Arrow, Things
  <2> QED BY <2>1, <2>2, <2>3
<1>3. x \in StrongRefs(o) <=> StrongArrow(o, x)
  <2>1. CASE kind[o] # "table"
    BY <1>2, <2>1 DEF StrongRefs, StrongArrow
  <2>2. CASE kind[o] = "table"
    <3> DEFINE keys   == {e[1] : e \in {f \in held[o] : ~IsWeak(o, "k")}}
               values == {e[2] : e \in {f \in held[o] : ~IsWeak(o, "v")}}
    <3>1. StrongRefs(o) = ({meta[o]} \union keys \union values) \ {None}
      BY <2>2 DEF StrongRefs, Things
    <3>2. x \in keys <=> ~IsWeak(o, "k") /\ \E e \in held[o] : x = e[1]
      OBVIOUS
    <3>3. x \in values <=> ~IsWeak(o, "v") /\ \E e \in held[o] : x = e[2]
      OBVIOUS
    <3> HIDE DEF keys, values
    <3> QED BY <2>2, <3>1, <3>2, <3>3 DEF StrongArrow
  <2> QED BY <2>1, <2>2
<1> QED BY <1>1, <1>2, <1>3

LEMMA AgreementNext == ArrowsAgree'
BY Agreement, PTL

\* What a set of arrows leads to: every set with S that the arrows do not leave
\* has it in it, and the arrows do not leave it.
LEMMA AlongLeast ==
  ASSUME NEW arrows, NEW S, NEW C, S \subseteq C,
         \A a \in arrows : a[1] \in C => a[2] \in C
  PROVE  Along(arrows, S) \subseteq C
<1> DEFINE others == {a[2] : a \in arrows} \ S
           D == C \intersect others
<1>1. D \in SUBSET others /\ (\A a \in arrows : a[1] \in S \/ a[1] \in D => a[2] \in S \/ a[2] \in D)
  OBVIOUS
<1>2. ASSUME NEW o \in Along(arrows, S), o \notin S
      PROVE  o \in D
  BY <1>1, <1>2 DEF Along
<1> QED BY <1>2

LEMMA AlongClosed ==
  ASSUME NEW arrows, NEW S
  PROVE  /\ S \subseteq Along(arrows, S)
         /\ \A a \in arrows : a[1] \in Along(arrows, S) => a[2] \in Along(arrows, S)
BY DEF Along

-----------------------------------------------------------------------------
(* The invariant. *)

Types == TypeOK /\ prog \in Programs

\* What the sweep that goes on, if one does, will leave.
Sure == Allocated \ Dead

\* Nothing is left in a freed object, a string has nothing in it, and an open
\* upvalue is one, of a thread.
Blank ==
  /\ \A o \in Obj : kind[o] \in {"free", "string"} =>
       held[o] = {} /\ open[o] = None /\ \A s \in Places : stack[o][s] = None
  /\ \A o \in Obj : kind[o] \in {"free", "string", "upval"} => meta[o] = None
  /\ \A u \in Obj : open[u] # None => kind[u] = "upval" /\ kind[open[u][1]] = "thread"

\* Userdata refer to a metatable only, metatables are tables, and only functions
\* refer to upvalues.
Shapes ==
  \A o \in Sure :
    /\ kind[o] = "udata" => held[o] = {}
    /\ meta[o] # None => kind[meta[o]] = "table"
    /\ kind[o] # "function" => \A x \in Obj : Arrow(o, x) => kind[x] # "upval"

\* What is left refers to what is left.
Sound == \A o \in Sure : \A x \in Obj : Arrow(o, x) => x \in Sure

RootsSound ==
  /\ Roots \subseteq Sure
  /\ kind[MainThread] = "thread" /\ kind[Registry] = "table" /\ kind[L] = "thread"
  /\ basemt # None => kind[basemt] = "table"

Finalizing ==
  /\ \A u \in tmudata : u \in finalized /\ calls[u] = 0 /\ color[u] \notin {Other, "gray"}
  /\ \A u \in finalized : kind[u] = "udata"
  /\ \A u \in Obj : calls[u] <= 1 /\ (calls[u] # 0 => u \in finalized)

Phases ==
  /\ phase \notin {"sweepstring", "sweep"} => tosweep = {}
  /\ \A o \in tosweep : kind[o] # "free" /\ open[o] = None /\ o \notin tmudata
  /\ full = "sweep" => phase \in {"sweepstring", "sweep", "finalize"}
  /\ full = "mark" => phase \in {"propagate", "sweepstring", "sweep"} \union AtomicPhases
  /\ phase = "pause" => tmudata = {}

\* Still to be swept, by itself or with its thread.
Unswept(o) == o \in tosweep \/ (open[o] # None /\ open[o][1] \in tosweep)

\* Threads and open upvalues are never black. While marking, nothing is dead;
\* else what is not of the current white is still to be swept or finalized.
Colors ==
  /\ \A o \in Allocated : color[o] = "black" => kind[o] # "thread" /\ open[o] = None
  /\ \A o \in Allocated :
       IF Marking THEN color[o] # Other
       ELSE color[o] = current \/ Unswept(o) \/ o \in tmudata

\* The lists have what is to be traversed, and nothing twice.
Lists ==
  Marking =>
    /\ \A o \in gray \union grayagain \union weak :
         color[o] = "gray" /\ kind[o] \in {"table", "function", "thread"}
    /\ gray \intersect grayagain = {} /\ gray \intersect weak = {}
    /\ grayagain \intersect weak = {}
    /\ \A t \in weak : kind[t] = "table"
    /\ \A o \in Allocated : color[o] = "gray" =>
         kind[o] = "string" \/ open[o] # None \/ o \in gray \union grayagain \union weak

\* What refers to no white object: the black ones, and in atomic() one kind
\* of gray ones after the other. Userdata that wait for their finalizer may be
\* black from the cycle before.
Barriers ==
  Marking =>
    /\ ~IsWhite(MainThread) /\ ~IsWhite(Registry)
    /\ \A o \in Allocated : color[o] = "black" /\ (o \in tmudata => phase = "tmu") =>
         \A x \in Obj : Arrow(o, x) => ~IsWhite(x)
    /\ phase # "propagate" => \A u \in Allocated : open[u] # None /\ color[u] = "gray" =>
         \A x \in Obj : Value(u, x) => ~IsWhite(x)
    /\ phase \in {"weak", "again", "tmu"} =>
         /\ ~IsWhite(L) /\ (basemt # None => ~IsWhite(basemt))
         /\ \A t \in weak : \A x \in Obj : StrongArrow(t, x) => ~IsWhite(x)
    /\ phase \in {"again", "tmu"} => \A o \in grayagain :
         kind[o] = "thread" /\ \A x \in Obj : Arrow(o, x) => ~IsWhite(x)
    /\ phase = "tmu" => \A u \in tmudata : color[u] = "black"

IInv == /\ Types /\ Blank /\ Shapes /\ Sound /\ RootsSound
        /\ Finalizing /\ Phases /\ Colors /\ Lists /\ Barriers

-----------------------------------------------------------------------------
(* What can be got at is sure to be left. *)

LEMMA ArrowTypes ==
  ASSUME TypeOK, NEW o \in Obj, NEW x
  PROVE  /\ Value(o, x) => x \in Obj
         /\ Arrow(o, x) => x \in Obj
         /\ StrongArrow(o, x) => x \in Obj
<1> USE ObjectsAssumption
<1>1. Value(o, x) => x \in Obj
  BY DEF TypeOK, Value, Places
<1>2. Arrow(o, x) => x \in Obj
  BY <1>1 DEF TypeOK, Arrow
<1>3. StrongArrow(o, x) => x \in Obj
  BY <1>2 DEF TypeOK, StrongArrow
<1> QED BY <1>1, <1>2, <1>3

LEMMA RootsTyped == TypeOK => Roots \subseteq Obj
BY ObjectsAssumption DEF TypeOK, Roots, Things

\* A set with the roots in it, and with an object all it refers to.
LEMMA ReachLeast ==
  ASSUME TypeOK, NEW C \in SUBSET Obj, Roots \subseteq C,
         \A o \in C : \A x \in Obj : Arrow(o, x) => x \in C
  PROVE  Reach \subseteq C
<1> DEFINE first == Roots \union UNION {Refs(o) : o \in Roots \intersect Allocated}
           arrows == UNION {{<<o, x>> : x \in Refs(o) \ first} : o \in Allocated \ Roots}
<1>0. first \subseteq C
  <2> SUFFICES ASSUME NEW o \in Roots \intersect Allocated, NEW x \in Refs(o)
               PROVE  x \in C
    OBVIOUS
  <2>1. o \in Obj /\ o \in C
    BY DEF Allocated
  <2>2. Arrow(o, x) /\ x \in Obj
    BY <2>1, Agreement, ArrowTypes DEF ArrowsAgree
  <2> QED BY <2>1, <2>2
<1>1. ASSUME NEW a \in arrows, a[1] \in C
      PROVE  a[2] \in C
  <2>0. PICK o \in Allocated \ Roots : \E x \in Refs(o) : a = <<o, x>>
    OBVIOUS
  <2>1. PICK x \in Refs(o) : a = <<o, x>>
    BY <2>0
  <2>2. o \in Obj /\ o \in C
    BY <1>1, <2>1 DEF Allocated
  <2>3. Arrow(o, x) /\ x \in Obj
    BY <2>1, <2>2, Agreement, ArrowTypes DEF ArrowsAgree
  <2> QED BY <2>1, <2>2, <2>3
<1>2. Along(arrows, first) \subseteq C
  <2> HIDE DEF first, arrows
  <2> QED BY <1>0, <1>1, AlongLeast
<1> QED BY <1>2 DEF Reach, Closure

LEMMA ReachClosed ==
  ASSUME TypeOK
  PROVE  /\ Roots \subseteq Reach
         /\ \A o \in Reach \intersect Allocated : \A x \in Obj : Arrow(o, x) => x \in Reach
<1> DEFINE first == Roots \union UNION {Refs(o) : o \in Roots \intersect Allocated}
           arrows == UNION {{<<o, x>> : x \in Refs(o) \ first} : o \in Allocated \ Roots}
<1>1. Reach = Along(arrows, first)
  BY DEF Reach, Closure
<1>2. first \subseteq Reach /\ \A a \in arrows : a[1] \in Reach => a[2] \in Reach
  <2> HIDE DEF first, arrows
  <2> QED BY <1>1, AlongClosed
<1>3. ASSUME NEW o \in Reach \intersect Allocated, NEW x \in Obj, Arrow(o, x), x \notin first
      PROVE  x \in Reach
  <2>1. x \in Refs(o) \ first /\ o \in Allocated \ Roots
    BY <1>3, Agreement DEF ArrowsAgree, Allocated
  <2>2. <<o, x>> \in arrows
    BY <2>1
  <2>3. <<o, x>>[1] \in Reach => <<o, x>>[2] \in Reach
    <3> HIDE DEF first, arrows
    <3> QED BY <1>2, <2>2
  <2> QED BY <2>3
<1> QED BY <1>2, <1>3

LEMMA SavedLeast ==
  ASSUME TypeOK, NEW C \in SUBSET Obj, tmudata \subseteq C,
         \A o \in C : \A x \in Obj : Arrow(o, x) => x \in C
  PROVE  Saved \subseteq C
<1> DEFINE first == tmudata \union UNION {Refs(o) : o \in tmudata \intersect Allocated}
           arrows == UNION {{<<o, x>> : x \in Refs(o) \ first} : o \in Allocated \ tmudata}
<1>0. first \subseteq C
  <2> SUFFICES ASSUME NEW o \in tmudata \intersect Allocated, NEW x \in Refs(o)
               PROVE  x \in C
    OBVIOUS
  <2>1. o \in Obj /\ o \in C
    BY DEF Allocated
  <2>2. Arrow(o, x) /\ x \in Obj
    BY <2>1, Agreement, ArrowTypes DEF ArrowsAgree
  <2> QED BY <2>1, <2>2
<1>1. ASSUME NEW a \in arrows, a[1] \in C
      PROVE  a[2] \in C
  <2>0. PICK o \in Allocated \ tmudata : \E x \in Refs(o) : a = <<o, x>>
    OBVIOUS
  <2>1. PICK x \in Refs(o) : a = <<o, x>>
    BY <2>0
  <2>2. o \in Obj /\ o \in C
    BY <1>1, <2>1 DEF Allocated
  <2>3. Arrow(o, x) /\ x \in Obj
    BY <2>1, <2>2, Agreement, ArrowTypes DEF ArrowsAgree
  <2> QED BY <2>1, <2>2, <2>3
<1>2. Along(arrows, first) \subseteq C
  <2> HIDE DEF first, arrows
  <2> QED BY <1>0, <1>1, AlongLeast
<1> QED BY <1>2 DEF Saved, Closure

LEMMA SavedClosed ==
  ASSUME TypeOK
  PROVE  /\ tmudata \subseteq Saved
         /\ \A o \in Saved \intersect Allocated : \A x \in Obj : Arrow(o, x) => x \in Saved
<1>1. CASE tmudata = {}
  BY <1>1 DEF Saved
<1>2. CASE tmudata # {}
  <2> DEFINE first == tmudata \union UNION {Refs(o) : o \in tmudata \intersect Allocated}
             arrows == UNION {{<<o, x>> : x \in Refs(o) \ first} : o \in Allocated \ tmudata}
  <2>1. Saved = Along(arrows, first)
    BY <1>2 DEF Saved, Closure
  <2>2. first \subseteq Saved /\ \A a \in arrows : a[1] \in Saved => a[2] \in Saved
    <3> HIDE DEF first, arrows
    <3> QED BY <2>1, AlongClosed
  <2>3. ASSUME NEW o \in Saved \intersect Allocated, NEW x \in Obj, Arrow(o, x), x \notin first
        PROVE  x \in Saved
    <3>1. x \in Refs(o) \ first /\ o \in Allocated \ tmudata
      BY <2>3, Agreement DEF ArrowsAgree, Allocated
    <3>2. <<o, x>> \in arrows
      BY <3>1
    <3>3. <<o, x>>[1] \in Saved => <<o, x>>[2] \in Saved
      <4> HIDE DEF first, arrows
      <4> QED BY <2>2, <3>2
    <3> QED BY <3>3
  <2> QED BY <2>2, <2>3
<1> QED BY <1>1, <1>2

\* All the program can get at, and what a finalizer to come can.
LEMMA InUse ==
  ASSUME Types, Sound, RootsSound, Finalizing
  PROVE  Reach \subseteq Sure /\ Saved \subseteq Sure
<1>1. Sure \in SUBSET Obj
  BY DEF Sure, Allocated
<1>2. tmudata \subseteq Sure
  BY DEF Types, TypeOK, Finalizing, Sure, Allocated, Dead
<1>3. Reach \subseteq Sure
  BY <1>1, ReachLeast DEF Types, RootsSound, Sound
<1>4. Saved \subseteq Sure
  BY <1>1, <1>2, SavedLeast DEF Types, Sound
<1> QED BY <1>3, <1>4

-----------------------------------------------------------------------------
(* Marking. *)

\* reallymarkobject() marks what it is given, and what the upvalues and the
\* userdata it marks refer to.
LEMMA MarkedFacts ==
  ASSUME Types, Blank, Shapes, Sound, Sure = Allocated, NEW S \in SUBSET Allocated
  PROVE  /\ Marked(S) \subseteq Allocated /\ \A o \in Marked(S) : IsWhite(o)
         /\ \A o \in S : IsWhite(o) => o \in Marked(S)
         /\ \A o \in Marked(S) : kind[o] \in {"string", "udata", "upval"} =>
              \A x \in Obj : Arrow(o, x) /\ IsWhite(x) => x \in Marked(S)
         /\ (\A o \in S : kind[o] # "upval") => \A o \in Marked(S) : kind[o] # "upval"
<1> USE ObjectsAssumption
<1> DEFINE direct == White \intersect S
           values == White \intersect (direct \union
                       UNION {ValueOf(u) : u \in direct \intersect Of("upval")})
           metas  == Things({meta[u] : u \in values \intersect Of("udata")})
<1>1. Marked(S) = White \intersect (values \union metas)
  BY DEF Marked
<1>2. \A o \in Obj : o \in White <=> IsWhite(o)
  BY DEF White, IsWhite
<1>3. S \subseteq Obj /\ direct \subseteq Allocated /\ White \subseteq Obj
  BY DEF Allocated, White
<1>4. ASSUME NEW x \in values, x \notin direct
      PROVE  \E u \in direct : kind[u] = "upval" /\ Value(u, x)
  BY <1>3, <1>4, Agreement DEF ArrowsAgree, Of
<1>5. ASSUME NEW u \in direct, kind[u] = "upval", NEW x \in Obj, Value(u, x)
      PROVE  /\ x \in Allocated /\ kind[x] # "upval"
             /\ IsWhite(x) => x \in values
  <2>1. u \in Sure /\ u \in Obj /\ Arrow(u, x)
    BY <1>3, <1>5 DEF Arrow, Value
  <2>2. x \in Allocated /\ kind[x] # "upval"
    BY <1>5, <2>1 DEF Sound, Shapes
  <2>3. x \in ValueOf(u) /\ u \in Of("upval")
    BY <1>5, <2>1, Agreement DEF ArrowsAgree, Of
  <2> QED BY <1>2, <2>2, <2>3
<1>6. values \subseteq Allocated
  <2>1. \A x \in values : x \in Obj
    BY <1>3
  <2> QED BY <1>3, <1>4, <1>5, <2>1
<1>7. ASSUME NEW x \in metas
      PROVE  x \in Allocated /\ kind[x] = "table"
  <2>1. PICK u \in values \intersect Of("udata") : x = meta[u] /\ x # None
    BY DEF Things
  <2>2. u \in Sure /\ u \in Obj /\ Arrow(u, x)
    BY <1>6, <2>1 DEF Arrow, Allocated
  <2> QED BY <2>1, <2>2, ArrowTypes DEF Sound, Shapes, Types
<1>8. ASSUME NEW o \in Marked(S), kind[o] \in {"string", "udata", "upval"},
             NEW x \in Obj, Arrow(o, x), IsWhite(x)
      PROVE  x \in Marked(S)
  <2>0. o \in Allocated /\ o \in Obj /\ o \in Sure /\ x \in White /\ o \in White
    BY <1>1, <1>2, <1>6, <1>7, <1>8 DEF Allocated
  <2>1. kind[o] # "string"
    BY <1>8, <2>0 DEF Blank, Arrow
  <2>2. CASE kind[o] = "udata"
    <3>1. o \in values /\ x = meta[o] /\ x # None
      BY <1>1, <1>7, <1>8, <2>0, <2>2 DEF Shapes, Arrow
    <3> QED BY <1>1, <2>0, <2>2, <3>1 DEF Things, Of
  <2>3. CASE kind[o] = "upval"
    <3>1. Value(o, x)
      BY <1>8, <2>0, <2>3 DEF Blank, Arrow
    <3>2. o \in values
      BY <1>1, <1>7, <2>3
    <3>3. o \in direct
      <4> SUFFICES ASSUME o \notin direct PROVE FALSE
        OBVIOUS
      <4>1. PICK u \in direct : kind[u] = "upval" /\ Value(u, o)
        BY <1>4, <3>2
      <4> QED BY <1>5, <2>0, <2>3, <4>1
    <3> QED BY <1>1, <1>5, <1>8, <2>0, <2>3, <3>1, <3>3
  <2> QED BY <1>8, <2>1, <2>2, <2>3
<1>9. ASSUME \A o \in S : kind[o] # "upval", NEW o \in Marked(S)
      PROVE  kind[o] # "upval"
  BY <1>1, <1>4, <1>7, <1>9
<1> QED BY <1>1, <1>2, <1>3, <1>6, <1>7, <1>8, <1>9

-----------------------------------------------------------------------------
(* Types. *)

\* The operands of the program's steps.
Usable == {v \in Reach : prog.kinds[v] # {} /\ kind[v] # "upval"} \union {None}

LEMMA MutateCases ==
  ASSUME Mutate
  PROVE  /\ Program
         /\ \/ \E s \in Slots, v \in Usable : SetStack(s, v)
            \/ \E s \in Slots, o \in Obj, k \in ObjectKinds : Create(o, k, s)
            \/ \E s \in Slots, o \in Obj : Intern(o, s)
            \/ \E t \in Reach, k \in Usable, v \in Usable :
                 kind[t] = "table" /\ <<k, v>> \in prog.stores[t] /\ Store(t, k, v)
            \/ \E t \in Reach : kind[t] = "table" /\ \E e \in held[t] : Drop(t, e)
            \/ \E o \in Usable \ {None}, t \in Reach \union {None} :
                 (t # None => kind[t] = "table") /\ SetMeta(o, t)
            \/ \E t \in Reach \union {None} : (t # None => kind[t] = "table") /\ SetBaseMeta(t)
            \/ \E t \in Reach, m \in prog.modes : kind[t] = "table" /\ SetMode(t, m)
            \/ \E f, u \in Obj, s, into \in Slots : Capture(f, u, s, into)
            \/ \E s \in Slots : Close(s)
            \/ \E u \in Reach, v \in Usable : SetUpval(u, v)
            \/ \E f, u \in Reach, v \in Usable : DebugSetUpvalue(f, u, v)
            \/ \E th \in Reach : Resume(th)
            \/ Yield \/ FinalizerReturns \/ FullGC
<1>1. Program
  BY DEF Mutate
<1>2. ASSUME NEW t \in Reach \intersect Of("table"),
             NEW e \in prog.stores[t] \intersect (Usable \X Usable), Store(t, e[1], e[2])
      PROVE  \E s \in Reach, k \in Usable, v \in Usable :
               kind[s] = "table" /\ <<k, v>> \in prog.stores[s] /\ Store(s, k, v)
  BY <1>2 DEF Of
<1>3. \A t : t \in Reach \intersect Of("table") => t \in Reach /\ kind[t] = "table"
  BY DEF Of
<1> QED BY <1>1, <1>2, <1>3 DEF Mutate, Usable

LEMMA ProgramTypes ==
  ASSUME Types
  PROVE  /\ prog.kinds \in [Obj -> SUBSET (ObjectKinds \union {"upval"})]
         /\ prog.stores \in [Obj -> SUBSET ((Obj \union {None}) \X Obj)]
         /\ prog.metas \subseteq Obj /\ prog.modes \subseteq SUBSET {"k", "v", "gc"}
BY ProgramsAssumption DEF Types

LEMMA ReachTyped == ASSUME Types PROVE Reach \subseteq Obj /\ Usable \subseteq Obj \union {None}
<1>1. Roots \subseteq Obj
  BY RootsTyped DEF Types
<1>2. Reach \subseteq Obj
  BY <1>1, ReachLeast DEF Types
<1> QED BY <1>2 DEF Usable

LEMMA MarkedTyped == ASSUME NEW S PROVE Marked(S) \subseteq Obj /\ Listed(Marked(S)) \subseteq Obj
BY DEF Marked, Listed, White

LEMMA PaintTyped ==
  ASSUME TypeOK, NEW S
  PROVE  /\ Paint(color, S) \in [Obj -> {"white0", "white1", "gray", "black"}]
         /\ Whiten(color, S) \in [Obj -> {"white0", "white1", "gray", "black"}]
         /\ \A o \in Obj : Paint(color, S)[o] = IF o \in S THEN ColorMarked(o) ELSE color[o]
         /\ \A o \in Obj : Whiten(color, S)[o] = IF o \in S THEN current ELSE color[o]
         /\ \A o \in Obj : ColorMarked(o) \in {"gray", "black"}
BY DEF TypeOK, Paint, Whiten, ColorMarked

\* A store into the running stack.
LEMMA SlotWritten ==
  ASSUME TypeOK, NEW th \in Obj, NEW s \in Places, NEW v \in Obj \union {None},
         stack' = [stack EXCEPT ![th][s] = v]
  PROVE  /\ stack' \in [Obj -> [Places -> Obj \union {None}]]
         /\ \A o \in Obj, p \in Places :
              stack'[o][p] = IF o = th /\ p = s THEN v ELSE stack[o][p]
BY DEF TypeOK

\* The barriers.
LEMMA BarrierBackFacts ==
  ASSUME TypeOK, NEW t \in Obj, NEW S, BarrierBack(t, S)
  PROVE  /\ color' \in [Obj -> {"white0", "white1", "gray", "black"}]
         /\ grayagain \subseteq grayagain' /\ grayagain' \subseteq grayagain \union {t}
         /\ \A o \in Obj \ {t} : color'[o] = color[o]
         /\ IF color[t] = "black" /\ \E x \in S : x \in White
            THEN color'[t] = "gray" /\ t \in grayagain'
            ELSE color'[t] = color[t] /\ grayagain' = grayagain
<1>1. (S \intersect White # {}) <=> (\E x \in S : x \in White)
  OBVIOUS
<1>2. CASE color[t] = "black" /\ S \intersect White # {}
  <2>1. color' = [color EXCEPT ![t] = "gray"] /\ grayagain' = grayagain \union {t}
    BY <1>2 DEF BarrierBack
  <2> QED BY <1>1, <1>2, <2>1 DEF TypeOK
<1>3. CASE ~(color[t] = "black" /\ S \intersect White # {})
  <2>1. color' = color /\ grayagain' = grayagain
    BY <1>3 DEF BarrierBack
  <2> QED BY <1>1, <1>3, <2>1 DEF TypeOK
<1> QED BY <1>2, <1>3

LEMMA BarrierForwardFacts ==
  ASSUME TypeOK, NEW o \in Obj, NEW v, BarrierForward(o, v)
  PROVE  /\ color' \in [Obj -> {"white0", "white1", "gray", "black"}] /\ gray' \subseteq Obj
         /\ \/ ~(color[o] = "black" /\ v \in White) /\ color' = color /\ gray' = gray
            \/ color[o] = "black" /\ v \in White /\ phase = "propagate" /\ Mark({v})
            \/ /\ color[o] = "black" /\ v \in White /\ phase # "propagate"
               /\ color' = Whiten(color, {o}) /\ gray' = gray
<1>1. CASE ~(color[o] = "black" /\ v \in White)
  BY <1>1 DEF BarrierForward, TypeOK
<1>2. CASE color[o] = "black" /\ v \in White /\ phase = "propagate"
  <2>1. Mark({v})
    BY <1>2 DEF BarrierForward
  <2>2. color' = Paint(color, Marked({v})) /\ gray' = gray \union Listed(Marked({v}))
    BY <2>1 DEF Mark
  <2>3. gray' \subseteq Obj
    BY <2>2, MarkedTyped DEF TypeOK
  <2> QED BY <1>2, <2>1, <2>2, <2>3, PaintTyped
<1>3. CASE color[o] = "black" /\ v \in White /\ phase # "propagate"
  BY <1>3, PaintTyped DEF BarrierForward, TypeOK
<1> QED BY <1>1, <1>2, <1>3

LEMMA CollectTypes ==
  ASSUME Types, Start \/ RemarkUpvals \/ RemarkWeak \/ RemarkAgain \/ Separate
                \/ EndSweepString \/ EndSweep \/ EndCycle \/ FullMark
  PROVE  Types'
<1> USE PaintTyped, MarkedTyped DEF Types, TypeOK, Steady, AtomicPhases
<1>1. CASE Start
  BY <1>1 DEF Start, MarkRoot, heap, ends
<1>2. CASE RemarkUpvals
  BY <1>2 DEF RemarkUpvals, Mark, heap, ends
<1>3. CASE RemarkWeak
  BY <1>3 DEF RemarkWeak, heap, ends
<1>4. CASE RemarkAgain
  BY <1>4 DEF RemarkAgain, heap, ends
<1>5. CASE Separate
  <2>1. \A c, S : S \subseteq Obj => Listed(S) \subseteq Obj
    BY DEF Listed
  <2> DEFINE dead == {u \in Of("udata") \ (finalized \union tmudata) : u \in White}
             due  == {u \in dead : meta[u] # None /\ "gc" \in mode[meta[u]]}
             all  == tmudata \union due
             m    == (Marked(Things({meta[u] : u \in all})) \ all) \union all
  <2>2. finalized' = finalized \union dead /\ tmudata' = all /\ color' = Paint(color, m)
        /\ gray' = Listed(m)
    BY <1>5 DEF Separate
  <2>3. dead \subseteq Obj /\ all \subseteq Obj /\ m \subseteq Obj
    BY MarkedTyped DEF Of
  <2>4. gray' \subseteq Obj /\ tmudata' \subseteq Obj /\ finalized' \subseteq Obj
    <3> HIDE DEF dead, all, m
    <3> QED BY <2>1, <2>2, <2>3
  <2>5. color' \in [Obj -> {"white0", "white1", "gray", "black"}]
    <3> HIDE DEF m
    <3> QED BY <2>2
  <2> QED BY <1>5, <2>4, <2>5 DEF Separate, heap
<1>6. CASE EndSweepString
  BY <1>6 DEF EndSweepString, heap, ends, lists
<1>7. CASE EndSweep
  BY <1>7 DEF EndSweep, heap, ends, lists
<1>8. CASE EndCycle
  BY <1>8 DEF EndCycle, heap, ends, lists
<1>9. CASE FullMark
  BY <1>9 DEF FullMark, MarkRoot, heap, ends
<1> QED BY <1>1, <1>2, <1>3, <1>4, <1>5, <1>6, <1>7, <1>8, <1>9

LEMMA PropagateTypes == ASSUME Types, NEW o \in Obj, Propagate(o) PROVE Types'
<1> USE DEF Types, TypeOK, Steady, AtomicPhases
<1>1. color' \in [Obj -> {"white0", "white1", "gray", "black"}]
  <2>1. PICK c \in {"gray", "black"} : color' = [Paint(color, Marked(StrongRefs(o))) EXCEPT ![o] = c]
    BY DEF Propagate
  <2> QED BY <2>1, PaintTyped
<1>2. gray' \subseteq Obj /\ grayagain' \subseteq Obj /\ weak' \subseteq Obj
  BY MarkedTyped DEF Propagate
<1> QED BY <1>1, <1>2 DEF Propagate, heap, ends

\* Release() frees objects, and moves values out of the stack.
LEMMA ReleaseTypes ==
  ASSUME TypeOK, NEW gone, NEW closing, Release(gone, closing)
  PROVE  /\ kind' \in [Obj -> {"free", "string", "udata", "upval", "table", "function", "thread"}]
         /\ held' \in [Obj -> SUBSET ((Obj \union {None}) \X Obj)]
         /\ meta' \in [Obj -> Obj \union {None}] /\ mode' \in [Obj -> SUBSET {"k", "v", "gc"}]
         /\ stack' \in [Obj -> [Places -> Obj \union {None}]]
         /\ open' \in [Obj -> (Obj \X Slots) \union {None}]
         /\ finalized' \subseteq Obj /\ calls' \in [Obj -> Nat]
<1>1. \A o \in Obj : ValueOf(o) \subseteq Obj
  BY Agreement, ArrowTypes DEF ArrowsAgree
<1>2. held' \in [Obj -> SUBSET ((Obj \union {None}) \X Obj)]
  <2>1. \A o \in Obj : {<<None, v>> : v \in ValueOf(o)} \subseteq (Obj \union {None}) \X Obj
    BY <1>1
  <2> QED BY <2>1 DEF Release, TypeOK
<1> QED BY <1>2 DEF Release, TypeOK, Places

LEMMA SweepTypes == ASSUME Types, NEW o \in Obj, SweepString(o) \/ Sweep(o) PROVE Types'
<1>1. SweepOne(o) /\ UNCHANGED <<phase, full>>
  BY DEF SweepString, Sweep
<1>2. PICK gone, closing, S : /\ Release(gone, closing)
                              /\ color' = Freed(Whiten(color, S), gone)
  BY <1>1 DEF SweepOne
<1>3. color' \in [Obj -> {"white0", "white1", "gray", "black"}]
  BY <1>2, PaintTyped DEF Freed, Types
<1> QED BY <1>1, <1>2, <1>3, ReleaseTypes DEF SweepOne, lists, Types, TypeOK

LEMMA ClearTypes == ASSUME Types, ClearTables PROVE Types'
<1>1. color' \in [Obj -> {"white0", "white1", "gray", "black"}]
  BY PaintTyped DEF ClearTables, Types
<1>2. held' \in [Obj -> SUBSET ((Obj \union {None}) \X Obj)]
  BY DEF ClearTables, Types, TypeOK
<1>3. current' \in {"white0", "white1"} /\ tosweep' \subseteq Obj
  BY DEF ClearTables, Other, Swept, Allocated
<1> QED BY <1>1, <1>2, <1>3 DEF ClearTables, Types, TypeOK, lists, ends, Steady

LEMMA FinalizeTypes == ASSUME Types, NEW u \in Obj, GCTM(u) PROVE Types'
<1>1. stack' \in [Obj -> [Places -> Obj \union {None}]]
  <2>1. L \in Obj /\ Top \in Places /\ u \in Obj \union {None} /\ TypeOK
    BY DEF Types, TypeOK, Places
  <2>2. CASE stack' = stack
    BY <2>2 DEF Types, TypeOK
  <2>3. CASE stack' = [stack EXCEPT ![L][Top] = u]
    BY <2>1, <2>3, SlotWritten, Zenon
  <2> QED BY <2>2, <2>3 DEF GCTM
<1>2. calls' \in [Obj -> Nat]
  BY DEF GCTM, Types, TypeOK
<1> QED BY <1>1, <1>2, PaintTyped DEF GCTM, Types, TypeOK, lists

LEMMA MutateTypes == ASSUME Types, Mutate PROVE Types'
<1> USE ObjectsAssumption, ReachTyped, ProgramTypes
<1>0. Slots \subseteq Places /\ Top \in Places
  BY DEF Places
<1>1. ASSUME NEW s \in Slots, NEW v \in Usable, SetStack(s, v)
      PROVE  Types'
  BY <1>0, <1>1 DEF SetStack, Types, TypeOK, lists, ends
<1>2. ASSUME NEW s \in Slots, NEW o \in Obj, NEW k \in ObjectKinds, Create(o, k, s)
      PROVE  Types'
  BY <1>0, <1>2 DEF Create, Types, TypeOK, lists, ends, ObjectKinds
<1>3. ASSUME NEW s \in Slots, NEW o \in Obj, Intern(o, s)
      PROVE  Types'
  BY <1>0, <1>3, PaintTyped DEF Intern, Types, TypeOK, lists, ends
<1>4. ASSUME NEW t \in Reach, NEW k \in Usable, NEW v \in Usable,
             <<k, v>> \in prog.stores[t], Store(t, k, v)
      PROVE  Types'
  <2>1. held' \in [Obj -> SUBSET ((Obj \union {None}) \X Obj)]
    BY <1>4 DEF Store, Types, TypeOK
  <2>2. t \in Obj
    OBVIOUS
  <2>3. color' \in [Obj -> {"white0", "white1", "gray", "black"}] /\ grayagain' \subseteq Obj
    <3>1. PICK S : BarrierBack(t, S)
      BY <1>4 DEF Store
    <3> QED BY <2>2, <3>1, BarrierBackFacts DEF Types, TypeOK
  <2> QED BY <1>4, <2>1, <2>3 DEF Store, Types, TypeOK, ends
<1>5. ASSUME NEW t \in Reach, NEW e \in held[t], Drop(t, e)
      PROVE  Types'
  BY <1>5 DEF Drop, Types, TypeOK, lists, ends
<1>6. ASSUME NEW o \in Usable \ {None}, NEW t \in Reach \union {None}, SetMeta(o, t)
      PROVE  Types'
  <2>1. /\ color' \in [Obj -> {"white0", "white1", "gray", "black"}]
        /\ gray' \subseteq Obj /\ grayagain' \subseteq Obj
    <3>1. CASE kind[o] = "table"
      <4>1. BarrierBack(o, {t}) /\ gray' = gray /\ o \in Obj
        BY <1>6, <3>1 DEF SetMeta
      <4> QED BY <4>1, BarrierBackFacts DEF Types, TypeOK
    <3>2. CASE kind[o] # "table"
      <4>1. BarrierForward(o, t) /\ grayagain' = grayagain /\ o \in Obj
        BY <1>6, <3>2 DEF SetMeta
      <4> QED BY <4>1, BarrierForwardFacts DEF Types, TypeOK
    <3> QED BY <3>1, <3>2
  <2> QED BY <1>6, <2>1 DEF SetMeta, Types, TypeOK, ends
<1>7. ASSUME NEW t \in Reach \union {None}, SetBaseMeta(t)
      PROVE  Types'
  BY <1>7 DEF SetBaseMeta, Types, TypeOK, lists, ends, heap
<1>8. ASSUME NEW t \in Reach, NEW m \in prog.modes, SetMode(t, m)
      PROVE  Types'
  BY <1>8 DEF SetMode, Types, TypeOK, lists, ends
<1>9. ASSUME NEW f \in Obj, NEW u \in Obj, NEW s \in Slots, NEW into \in Slots, Capture(f, u, s, into)
      PROVE  Types'
  <2>1. color' \in [Obj -> {"white0", "white1", "gray", "black"}]
    BY <1>9, PaintTyped DEF Capture, Types
  <2>2. stack' \in [Obj -> [Places -> Obj \union {None}]]
    <3>1. L \in Obj /\ into \in Places /\ f \in Obj \union {None} /\ TypeOK
      BY <1>0 DEF Types, TypeOK
    <3>2. stack' = [stack EXCEPT ![L][into] = f]
      BY <1>9 DEF Capture
    <3> QED BY <3>1, <3>2, SlotWritten, Zenon
  <2>3. /\ kind' = [kind EXCEPT ![f] = "function", ![u] = "upval"] /\ open' = [open EXCEPT ![u] = <<L, s>>]
        /\ held' = [held EXCEPT ![f] = {<<None, u>>}] /\ meta' = [meta EXCEPT ![f] = meta[L]]
    BY <1>9 DEF Capture
  <2>4. /\ kind' \in [Obj -> {"free", "string", "udata", "upval", "table", "function", "thread"}]
        /\ meta' \in [Obj -> Obj \union {None}]
    BY <2>3 DEF Types, TypeOK
  <2>5. open' \in [Obj -> (Obj \X Slots) \union {None}]
    BY <2>3 DEF Types, TypeOK
  <2>6. held' \in [Obj -> SUBSET ((Obj \union {None}) \X Obj)]
    BY <2>3 DEF Types, TypeOK
  <2> QED BY <1>9, <2>1, <2>2, <2>4, <2>5, <2>6 DEF Capture, Types, TypeOK, lists, ends
<1>10. ASSUME NEW s \in Slots, Close(s)
       PROVE  Types'
  <2>1. PICK gone, closing : Release(gone, closing)
    BY <1>10 DEF Close
  <2>2. color' \in [Obj -> {"white0", "white1", "gray", "black"}] /\ gray' \subseteq Obj
    <3>1. CASE phase = "propagate"
      <4> DEFINE grays == {u \in {v \in OpenUpvals(L) : open[v][2] >= s} \ ({v \in OpenUpvals(L) : open[v][2] >= s} \intersect Dead) : color[u] = "gray"}
                 m == Marked(UNION {ValueOf(u) : u \in grays})
      <4>1. color' = [o \in Obj |-> IF o \in grays THEN "black" ELSE Paint(color, m)[o]]
            /\ gray' = gray \union Listed(m)
        BY <1>10, <3>1 DEF Close
      <4>2. Listed(m) \subseteq Obj
        BY MarkedTyped
      <4> HIDE DEF grays, m
      <4> QED BY <4>1, <4>2, PaintTyped DEF Types, TypeOK
    <3>2. CASE phase # "propagate"
      <4>1. PICK S, free : color' = Freed(Whiten(color, S), free) /\ gray' = gray
        BY <1>10, <3>2 DEF Close
      <4> QED BY <4>1, PaintTyped DEF Freed, Types, TypeOK
    <3> QED BY <3>1, <3>2
  <2> QED BY <1>10, <2>1, <2>2, ReleaseTypes DEF Close, Types, TypeOK
<1>11. ASSUME NEW u \in Reach, NEW v \in Usable, WriteUpval(u, v)
       PROVE  /\ held' \in [Obj -> SUBSET ((Obj \union {None}) \X Obj)]
              /\ stack' \in [Obj -> [Places -> Obj \union {None}]]
  <2>1. CASE open[u] = None
    <3>1. {<<None, x>> : x \in Things({v})} \subseteq (Obj \union {None}) \X Obj
      BY DEF Things
    <3>2. PICK h : h \subseteq (Obj \union {None}) \X Obj /\ held' = [held EXCEPT ![u] = h] /\ stack' = stack
      BY <1>11, <2>1, <3>1 DEF WriteUpval
    <3> QED BY <3>2 DEF Types, TypeOK
  <2>2. CASE open[u] # None
    <3>1. u \in Obj /\ open \in [Obj -> (Obj \X Slots) \union {None}] /\ TypeOK
      BY DEF Types, TypeOK
    <3>2. PICK th \in Obj, p \in Places : th = open[u][1] /\ p = open[u][2]
      BY <1>0, <2>2, <3>1
    <3>3. stack' = [stack EXCEPT ![th][p] = v] /\ held' = held
      BY <1>11, <2>2, <3>2 DEF WriteUpval
    <3>4. v \in Obj \union {None}
      OBVIOUS
    <3>5. stack' \in [Obj -> [Places -> Obj \union {None}]]
      BY <3>1, <3>3, <3>4, SlotWritten, Zenon
    <3> QED BY <3>3, <3>5 DEF Types, TypeOK
  <2> QED BY <2>1, <2>2
<1>12. ASSUME NEW o \in Reach, NEW v \in Usable, BarrierForward(o, v)
       PROVE  color' \in [Obj -> {"white0", "white1", "gray", "black"}] /\ gray' \subseteq Obj
  BY <1>12, BarrierForwardFacts DEF Types
<1>13. ASSUME NEW u \in Reach, NEW v \in Usable, SetUpval(u, v)
       PROVE  Types'
  BY <1>11, <1>12, <1>13 DEF SetUpval, Types, TypeOK, ends
<1>14. ASSUME NEW f \in Reach, NEW u \in Reach, NEW v \in Usable, DebugSetUpvalue(f, u, v)
       PROVE  Types'
  BY <1>11, <1>12, <1>14 DEF DebugSetUpvalue, Types, TypeOK, ends
<1>15. ASSUME NEW th \in Reach, Resume(th)
       PROVE  Types'
  BY <1>15 DEF Resume, Types, TypeOK, lists, ends, heap
<1>16. CASE Yield
  BY <1>16 DEF Yield, Types, TypeOK, lists, ends, heap
<1>17. CASE FinalizerReturns
  BY <1>0, <1>17 DEF FinalizerReturns, Types, TypeOK, lists, ends
<1>18. CASE FullGC
  BY <1>18 DEF FullGC, Types, TypeOK, lists, ends, heap, Swept, Allocated, Steady
<1> QED BY <1>1, <1>2, <1>3, <1>4, <1>5, <1>6, <1>7, <1>8, <1>9, <1>10, <1>13,
           <1>14, <1>15, <1>16, <1>17, <1>18, MutateCases

LEMMA TypesKept == Types /\ [Next]_vars => Types'
<1> SUFFICES ASSUME Types, Next PROVE Types'
  BY DEF vars, heap, lists, ends, Types, TypeOK
<1> QED BY CollectTypes, PropagateTypes, SweepTypes, ClearTypes, FinalizeTypes, MutateTypes
        DEF Next, Collect

-----------------------------------------------------------------------------
(* Steps that leave the heap as it is. *)

LEMMA SameHeap ==
  ASSUME UNCHANGED heap
  PROVE  \A o, x : /\ Value(o, x)' <=> Value(o, x)
                   /\ Arrow(o, x)' <=> Arrow(o, x)
                   /\ StrongArrow(o, x)' <=> StrongArrow(o, x)
<1>1. \A o, x : Value(o, x)' <=> Value(o, x)
  BY DEF heap, Value
<1>2. \A o, x : Arrow(o, x)' <=> Arrow(o, x)
  BY <1>1 DEF heap, Arrow
<1>3. \A o, x : StrongArrow(o, x)' <=> StrongArrow(o, x)
  BY <1>2 DEF heap, StrongArrow, IsWeak
<1> QED BY <1>1, <1>2, <1>3

\* While marking nothing is dead.
AllSure == Types /\ Colors /\ Marking => Sure = Allocated
LEMMA MarkingSure == AllSure
BY DEF AllSure, Colors, Sure, Dead
LEMMA MarkingSureNext == AllSure'
BY MarkingSure, PTL

Static == Blank /\ Shapes /\ Sound /\ RootsSound
Dynamic == Finalizing /\ Phases /\ Colors /\ Lists /\ Barriers

LEMMA Parts == IInv <=> Types /\ Static /\ Dynamic
BY DEF IInv, Static, Dynamic

LEMMA StaticKept ==
  ASSUME Static, UNCHANGED heap, Sure' = Sure, UNCHANGED <<L, basemt>>
  PROVE  Static'
<1>1. Blank'
  BY DEF Static, Blank, heap
<1>2. Shapes'
  BY SameHeap DEF Static, Shapes, heap
<1>3. Sound'
  BY SameHeap DEF Static, Sound
<1>4. RootsSound'
  BY DEF Static, RootsSound, Roots, Things, heap
<1> QED BY <1>1, <1>2, <1>3, <1>4 DEF Static

\* The colors after the objects of m have been marked.
LEMMA Painted ==
  ASSUME TypeOK, NEW m, color' = Paint(color, m)
  PROVE  \A o \in Obj :
           /\ IsWhite(o)' <=> IsWhite(o) /\ o \notin m
           /\ o \notin m => color'[o] = color[o]
           /\ o \in m => color'[o] = IF kind[o] = "udata" \/ (kind[o] = "upval" /\ open[o] = None)
                                     THEN "black" ELSE "gray"
BY PaintTyped DEF IsWhite, ColorMarked

LEMMA WhiteColor == ASSUME TypeOK, NEW o \in Obj
  PROVE /\ IsWhite(o) <=> color[o] = current \/ color[o] = Other
        /\ Other # current
        /\ color[o] \in {"gray", "black"} => color[o] # Other /\ color[o] # current
BY DEF TypeOK, IsWhite, Other

LEMMA MarkRootKeeps ==
  ASSUME IInv, MarkRoot, Types', UNCHANGED <<heap, L, basemt, current, ends, tosweep>>,
         \/ phase = "pause" /\ full' = full
         \/ phase = "finalize" /\ full' = "mark"
  PROVE  IInv'
<1> USE ObjectsAssumption
<1> DEFINE S == Things({MainThread, meta[MainThread], Registry, basemt})
           m == Marked(S)
<1>0. /\ Types /\ TypeOK /\ Static /\ Blank /\ Shapes /\ Sound /\ Dynamic
      /\ phase' = "propagate" /\ Marking' /\ ~Marking
  BY DEF IInv, Types, Static, Dynamic, MarkRoot, Marking, AtomicPhases
<1>1. /\ color' = Paint(color, m) /\ gray' = Listed(m) /\ grayagain' = {} /\ weak' = {}
  BY DEF MarkRoot
<1>2. tosweep = {} /\ \A o \in Allocated : color[o] = current \/ o \in tmudata
  BY <1>0 DEF Dynamic, Phases, Colors, Unswept
<1>3. Sure = Allocated
  BY <1>0, <1>2, WhiteColor DEF Sure, Dead, Dynamic, Finalizing, Allocated
<1>4. S \in SUBSET Allocated /\ MainThread \in S /\ Registry \in S
  <2>1. MainThread \in Sure /\ Registry \in Sure /\ (basemt # None => basemt \in Sure)
    BY <1>0 DEF Static, RootsSound, Roots, Things
  <2>2. meta[MainThread] # None => meta[MainThread] \in Sure
    BY <1>0, <2>1 DEF Sound, Arrow, TypeOK
  <2> QED BY <1>3, <2>1, <2>2 DEF Things
<1> HIDE DEF S
<1>5. /\ m \subseteq Allocated /\ m \subseteq Obj /\ \A o \in m : IsWhite(o)
      /\ \A o \in S : IsWhite(o) => o \in m
      /\ \A o \in m : kind[o] \in {"string", "udata", "upval"} =>
              \A x \in Obj : Arrow(o, x) /\ IsWhite(x) => x \in m
  <2>1. m \subseteq Obj
    BY MarkedTyped
  <2> QED BY <1>0, <1>3, <1>4, <2>1, MarkedFacts
<1> HIDE DEF m
<1>6. Allocated' = Allocated
  BY DEF Allocated, heap
<1>7. Colors'
  <2>1. ASSUME NEW o \in Allocated
        PROVE  /\ color'[o] = "black" => kind[o] # "thread" /\ open[o] = None
               /\ color'[o] # Other
    <3>1. o \in Obj /\ (open[o] # None => kind[o] = "upval") /\ color[o] # Other
          /\ (color[o] = "black" => kind[o] # "thread" /\ open[o] = None)
      BY <1>0, <1>2, WhiteColor DEF Dynamic, Colors, Finalizing, Allocated, Static, Blank
    <3>2. CASE o \in m
      BY <1>0, <1>1, <2>1, <3>1, <3>2, Painted DEF Other
    <3>3. CASE o \notin m
      BY <1>0, <1>1, <2>1, <3>1, <3>3, Painted
    <3> QED BY <3>2, <3>3
  <2> QED BY <1>0, <1>6, <2>1 DEF Colors, Other, heap
<1>8. Static'
  BY <1>0, <1>3, <1>6, <1>7, MarkingSureNext, StaticKept DEF AllSure
<1>9. Finalizing'
  BY <1>0, <1>1, <1>5, Painted, WhiteColor DEF Dynamic, Finalizing, ends, heap, Other, TypeOK
<1>10. Phases'
  BY <1>0, <1>2 DEF Dynamic, Phases, AtomicPhases
<1>11. Lists'
  <2>1. \A o \in Allocated : color'[o] = "gray" => o \in m
    BY <1>0, <1>1, <1>2, <1>5, Painted, WhiteColor DEF Allocated, Dynamic, Finalizing
  <2>2. \A o \in Listed(m) : o \in m /\ kind[o] \in {"table", "function", "thread"} /\ color'[o] = "gray"
    BY <1>0, <1>1, <1>5, Painted DEF Listed
  <2>3. \A o \in m : o \in Listed(m) \/ kind[o] = "string" \/ open[o] # None \/ color'[o] = "black"
    BY <1>0, <1>1, <1>5, Painted DEF Listed, Allocated, TypeOK
  <2> QED BY <1>1, <1>6, <2>1, <2>2, <2>3 DEF Lists, heap
<1>12. Barriers'
  <2>1. ~IsWhite(MainThread)' /\ ~IsWhite(Registry)'
    BY <1>0, <1>1, <1>4, <1>5, Painted
  <2>2. ASSUME NEW o \in Allocated, color'[o] = "black", o \notin tmudata, NEW x \in Obj, Arrow(o, x)
        PROVE  ~IsWhite(x)'
    <3>1. o \in m /\ kind[o] \in {"udata", "upval"}
      BY <1>0, <1>1, <1>2, <2>2, Painted, WhiteColor DEF Allocated
    <3> QED BY <1>0, <1>1, <1>5, <2>2, <3>1, Painted
  <2> QED BY <1>0, <1>1, <1>6, <2>1, <2>2, SameHeap DEF Barriers, ends
<1> QED BY <1>7, <1>8, <1>9, <1>10, <1>11, <1>12, Parts DEF IInv, Static

-----------------------------------------------------------------------------
(* Marking steps. *)

\* A set of objects that may be marked at once.
MarkSet(m) ==
  /\ m \subseteq Allocated
  /\ \A o \in m : IsWhite(o)
  /\ \A o \in m : kind[o] \in {"string", "udata", "upval"} =>
       \A x \in Obj : Arrow(o, x) /\ IsWhite(x) => x \in m

\* What is so after they have been, c being the new colors.
LEMMA MarkMore ==
  ASSUME Types, Static, Dynamic, Marking, NEW m, MarkSet(m), NEW c, c = Paint(color, m)
  PROVE  /\ c \in [Obj -> {"white0", "white1", "gray", "black"}]
         /\ \A x \in Obj : ~IsWhite(x) => c[x] = color[x]
         /\ \A x \in Obj : c[x] \in {"white0", "white1"} <=> IsWhite(x) /\ x \notin m
         /\ \A o \in Allocated : c[o] # Other
         /\ \A o \in Allocated : c[o] = "black" => kind[o] # "thread" /\ open[o] = None
         /\ \A o \in Allocated : c[o] = "black" /\ (o \in tmudata => phase = "tmu" \/ o \in m) =>
              \A x \in Obj : Arrow(o, x) => c[x] \notin {"white0", "white1"}
         /\ \A u \in Allocated : open[u] # None /\ c[u] = "gray" /\ (phase = "propagate" => u \in m) =>
              \A x \in Obj : Value(u, x) => c[x] \notin {"white0", "white1"}
         /\ \A u \in tmudata : c[u] # "gray" /\ (color[u] = "black" => c[u] = "black")
         /\ \A o \in Listed(m) : c[o] = "gray" /\ kind[o] \in {"table", "function", "thread"} /\ IsWhite(o)
         /\ \A o \in Allocated : c[o] = "gray" =>
              \/ kind[o] = "string" \/ open[o] # None
              \/ o \in gray \union grayagain \union weak \union Listed(m)
<1> USE DEF Types
<1>1. /\ c \in [Obj -> {"white0", "white1", "gray", "black"}]
      /\ \A o \in Obj : c[o] = IF o \in m THEN ColorMarked(o) ELSE color[o]
  BY PaintTyped
<1>2. m \subseteq Obj /\ Allocated \subseteq Obj
  BY DEF MarkSet, Allocated
<1>3. \A o \in Obj : ColorMarked(o) = IF kind[o] = "udata" \/ (kind[o] = "upval" /\ open[o] = None)
                                      THEN "black" ELSE "gray"
  BY DEF ColorMarked
<1>4. \A x \in Obj : ~IsWhite(x) => c[x] = color[x]
  BY <1>1, <1>2 DEF MarkSet
<1>5. \A x \in Obj : c[x] \in {"white0", "white1"} <=> IsWhite(x) /\ x \notin m
  BY <1>1, <1>3 DEF IsWhite
<1>6. \A o \in Allocated : color[o] # Other
  BY DEF Dynamic, Colors
<1>7. \A o \in Allocated : c[o] # Other
  BY <1>1, <1>2, <1>3, <1>6 DEF Other
<1>8. \A o \in Allocated : (open[o] # None => kind[o] = "upval") /\ (color[o] = "black" => kind[o] # "thread" /\ open[o] = None)
  BY <1>2 DEF Static, Blank, Dynamic, Colors
<1>9. \A o \in Allocated : c[o] = "black" => kind[o] # "thread" /\ open[o] = None
  BY <1>1, <1>2, <1>3, <1>8
<1>10. ASSUME NEW o \in Allocated, c[o] = "black", o \in tmudata => phase = "tmu" \/ o \in m,
              NEW x \in Obj, Arrow(o, x)
       PROVE  c[x] \notin {"white0", "white1"}
  <2>1. CASE o \in m
    <3>1. kind[o] \in {"udata", "upval"}
      BY <1>1, <1>2, <1>3, <1>10, <2>1
    <3> QED BY <1>5, <1>10, <2>1, <3>1 DEF MarkSet
  <2>2. CASE o \notin m
    <3>1. color[o] = "black" /\ ~IsWhite(x)
      BY <1>1, <1>2, <1>10, <2>2 DEF Dynamic, Barriers
    <3> QED BY <1>5, <3>1
  <2> QED BY <2>1, <2>2
<1>11. ASSUME NEW u \in Allocated, open[u] # None, c[u] = "gray", phase = "propagate" => u \in m,
              NEW x \in Obj, Value(u, x)
       PROVE  c[x] \notin {"white0", "white1"}
  <2>1. CASE u \in m
    <3>1. kind[u] = "upval" /\ Arrow(u, x)
      BY <1>8, <1>11 DEF Arrow, Value
    <3> QED BY <1>5, <1>11, <2>1, <3>1 DEF MarkSet
  <2>2. CASE u \notin m
    <3>1. color[u] = "gray" /\ ~IsWhite(x)
      BY <1>1, <1>2, <1>11, <2>2 DEF Dynamic, Barriers
    <3> QED BY <1>5, <3>1
  <2> QED BY <2>1, <2>2
<1>12. \A u \in tmudata : c[u] # "gray" /\ (color[u] = "black" => c[u] = "black")
  <2>1. \A u \in tmudata : u \in Obj /\ kind[u] = "udata" /\ color[u] # "gray"
    BY DEF Dynamic, Finalizing, TypeOK
  <2> QED BY <1>1, <1>3, <2>1
<1>13. \A o \in Listed(m) : c[o] = "gray" /\ kind[o] \in {"table", "function", "thread"} /\ IsWhite(o)
  BY <1>1, <1>2, <1>3 DEF Listed, MarkSet
<1>14. ASSUME NEW o \in Allocated, c[o] = "gray"
       PROVE  \/ kind[o] = "string" \/ open[o] # None
              \/ o \in gray \union grayagain \union weak \union Listed(m)
  <2>1. CASE o \in m
    BY <1>1, <1>2, <1>3, <1>14, <2>1 DEF Listed, Allocated, TypeOK
  <2>2. CASE o \notin m
    BY <1>1, <1>2, <1>14, <2>2 DEF Dynamic, Lists
  <2> QED BY <2>1, <2>2
<1> QED BY <1>1, <1>4, <1>5, <1>7, <1>9, <1>10, <1>11, <1>12, <1>13, <1>14

LEMMA MarkedSet ==
  ASSUME Types, Static, Dynamic, Marking, NEW S \in SUBSET Allocated
  PROVE  /\ MarkSet(Marked(S)) /\ \A o \in S : IsWhite(o) => o \in Marked(S)
         /\ (\A o \in S : kind[o] # "upval") => \A o \in Marked(S) : kind[o] # "upval"
<1>1. Sure = Allocated
  BY MarkingSure DEF AllSure, Dynamic
<1> QED BY <1>1, MarkedFacts DEF MarkSet, Static

\* The parts of the invariant that such a step cannot disturb.
LEMMA MarkKeeps ==
  ASSUME Types, Static, Dynamic, Marking, NEW m, MarkSet(m), color' = Paint(color, m),
         UNCHANGED <<heap, L, basemt, current, ends, full, tosweep>>,
         Types', phase' \in AtomicPhases \/ phase' = phase
  PROVE  Static' /\ Finalizing' /\ Phases' /\ Colors'
<1>1. Marking' /\ phase \notin {"pause", "sweepstring", "sweep"} /\ phase' \notin {"pause", "sweepstring", "sweep"}
  BY DEF Marking, AtomicPhases
<1>2. /\ \A o \in Allocated : color'[o] # Other
      /\ \A o \in Allocated : color'[o] = "black" => kind[o] # "thread" /\ open[o] = None
  <2> DEFINE c == color'
  <2>1. c = Paint(color, m)
    OBVIOUS
  <2> HIDE DEF c
  <2>2. /\ \A o \in Allocated : c[o] # Other
        /\ \A o \in Allocated : c[o] = "black" => kind[o] # "thread" /\ open[o] = None
    BY <2>1, MarkMore
  <2> QED BY <2>2 DEF c
<1>3. Allocated' = Allocated /\ Other' = Other
  BY DEF Allocated, heap, Other
<1>4. Colors'
  BY <1>1, <1>2, <1>3 DEF Colors, heap
<1>5. Static'
  BY <1>1, <1>3, <1>4, MarkingSure, MarkingSureNext, StaticKept DEF AllSure, Dynamic
<1>6. \A u \in tmudata : color'[u] \notin {Other, "gray"}
  <2>1. \A u \in tmudata : u \in Obj /\ kind[u] = "udata" /\ color[u] \notin {Other, "gray"}
    BY DEF Dynamic, Finalizing, Types, TypeOK
  <2> QED BY <2>1, Painted DEF Types, Other
<1>7. Finalizing'
  BY <1>3, <1>6 DEF Dynamic, Finalizing, ends, heap
<1>8. Phases'
  BY <1>1 DEF Dynamic, Phases, AtomicPhases, heap, ends, Marking
<1> QED BY <1>4, <1>5, <1>7, <1>8

LEMMA RemarkUpvalsKeeps == ASSUME IInv, RemarkUpvals, Types' PROVE IInv'
<1> DEFINE S == UNION {ValueOf(u) : u \in {v \in Of("upval") : open[v] # None /\ color[v] = "gray"}}
           m == Marked(S)
<1>0. Types /\ Static /\ Dynamic /\ Marking /\ phase = "propagate" /\ phase' = "upvals" /\ gray = {}
  BY Parts DEF RemarkUpvals, Marking
<1>1. color' = Paint(color, m) /\ gray' = gray \union Listed(m) /\ grayagain' = grayagain /\ weak' = weak
  BY DEF RemarkUpvals, Mark
<1>2. \A u \in Allocated, x \in Obj : open[u] # None /\ color[u] = "gray" /\ Value(u, x) => x \in S
  BY <1>0, Agreement DEF ArrowsAgree, Static, Blank, Of, Allocated
<1>3. S \subseteq Allocated
  <2>1. ASSUME NEW u \in Of("upval"), NEW x \in ValueOf(u)
        PROVE  x \in Allocated
    <3>1. u \in Obj /\ kind[u] = "upval" /\ Value(u, x)
      BY Agreement DEF ArrowsAgree, Of
    <3>2. Arrow(u, x) /\ x \in Obj
      BY <1>0, <3>1, ArrowTypes DEF Arrow, Value, Types
    <3>3. u \in Sure
      BY <1>0, <3>1, MarkingSure DEF AllSure, Dynamic, Allocated
    <3> QED BY <1>0, <3>2, <3>3 DEF Static, Sound, Sure
  <2> QED BY <2>1
<1> HIDE DEF S
<1>4. MarkSet(m) /\ \A o \in S : IsWhite(o) => o \in m
  BY <1>0, <1>3, MarkedSet
<1> HIDE DEF m
<1>5. Static' /\ Finalizing' /\ Phases' /\ Colors'
  BY <1>0, <1>1, <1>4, MarkKeeps DEF RemarkUpvals, AtomicPhases, ends
<1> DEFINE c == color'
<1>6. c = Paint(color, m)
  BY <1>1
<1> HIDE DEF c
<1>7. Allocated' = Allocated /\ m \subseteq Obj /\ Allocated \subseteq Obj
  BY <1>4 DEF RemarkUpvals, Allocated, heap, MarkSet
<1>8. Lists'
  <2>1. \A o \in gray \union grayagain \union weak : c[o] = "gray" /\ kind[o] \in {"table", "function", "thread"} /\ ~IsWhite(o)
    BY <1>0, <1>4, <1>6, MarkMore DEF Dynamic, Lists, IsWhite, Types, TypeOK
  <2>2. \A o \in Listed(m) : c[o] = "gray" /\ kind[o] \in {"table", "function", "thread"} /\ IsWhite(o)
    BY <1>0, <1>4, <1>6, MarkMore
  <2>3. \A o \in Allocated : c[o] = "gray" =>
              \/ kind[o] = "string" \/ open[o] # None
              \/ o \in gray \union grayagain \union weak \union Listed(m)
    BY <1>0, <1>4, <1>6, MarkMore
  <2>4. heap' = heap
    BY DEF RemarkUpvals
  <2> QED BY <1>0, <1>1, <1>7, <2>1, <2>2, <2>3, <2>4 DEF Lists, Dynamic, heap, c
<1>9. Barriers'
  <2>1. heap' = heap /\ tmudata' = tmudata
    BY DEF RemarkUpvals, ends
  <2>2. \A x \in Obj : IsWhite(x)' <=> IsWhite(x) /\ x \notin m
    BY <1>0, <1>1, Painted DEF Types
  <2>3. \A o \in Allocated : color'[o] = "black" /\ (o \in tmudata => phase' = "tmu") =>
              \A x \in Obj : Arrow(o, x) => ~IsWhite(x)'
    BY <1>0, <1>4, <1>6, MarkMore DEF IsWhite, c
  <2>4. ASSUME NEW u \in Allocated, open[u] # None, color'[u] = "gray", NEW x \in Obj, Value(u, x)
        PROVE  ~IsWhite(x)'
    <3>1. CASE u \in m
      BY <1>0, <1>4, <1>6, <2>4, <3>1, MarkMore DEF IsWhite, c
    <3>2. CASE u \notin m
      <4>1. color[u] = "gray"
        BY <1>0, <1>1, <1>7, <2>4, <3>2, Painted DEF Types
      <4> QED BY <1>2, <1>4, <2>2, <2>4, <4>1
    <3> QED BY <3>1, <3>2
  <2>5. ~IsWhite(MainThread)' /\ ~IsWhite(Registry)'
    BY <1>0, <2>2, ObjectsAssumption DEF Dynamic, Barriers
  <2> QED BY <1>0, <1>7, <2>1, <2>3, <2>4, <2>5, SameHeap DEF Barriers, heap
<1> QED BY <1>5, <1>8, <1>9, Parts DEF IInv, Static

LEMMA RemarkWeakKeeps == ASSUME IInv, RemarkWeak, Types' PROVE IInv'
<1> DEFINE S == Things({L, basemt})
           m == Marked(S)
<1>0. Types /\ Static /\ Dynamic /\ Marking /\ phase = "upvals" /\ phase' = "weak" /\ gray = {}
  BY Parts DEF RemarkWeak, Marking, AtomicPhases
<1>1. color' = Paint(color, m) /\ gray' = weak \union Listed(m) /\ grayagain' = grayagain /\ weak' = {}
  BY DEF RemarkWeak
<1>2. L \in S /\ (basemt # None => basemt \in S)
  BY <1>0, ObjectsAssumption DEF Things, Types, TypeOK
<1>3. S \subseteq Allocated
  BY <1>0 DEF Static, RootsSound, Roots, Things, Sure
<1> HIDE DEF S
<1>4. MarkSet(m) /\ \A o \in S : IsWhite(o) => o \in m
  BY <1>0, <1>3, MarkedSet
<1> HIDE DEF m
<1>5. Static' /\ Finalizing' /\ Phases' /\ Colors'
  BY <1>0, <1>1, <1>4, MarkKeeps DEF RemarkWeak, AtomicPhases, ends
<1> DEFINE c == color'
<1>6. c = Paint(color, m)
  BY <1>1
<1> HIDE DEF c
<1>7. Allocated' = Allocated /\ m \subseteq Obj /\ Allocated \subseteq Obj
  BY <1>4 DEF RemarkWeak, Allocated, heap, MarkSet
<1>8. Lists'
  <2>1. \A o \in gray \union grayagain \union weak : c[o] = "gray" /\ kind[o] \in {"table", "function", "thread"} /\ ~IsWhite(o)
    BY <1>0, <1>4, <1>6, MarkMore DEF Dynamic, Lists, IsWhite, Types, TypeOK
  <2>2. \A o \in Listed(m) : c[o] = "gray" /\ kind[o] \in {"table", "function", "thread"} /\ IsWhite(o)
    BY <1>0, <1>4, <1>6, MarkMore
  <2>3. \A o \in Allocated : c[o] = "gray" =>
              \/ kind[o] = "string" \/ open[o] # None
              \/ o \in gray \union grayagain \union weak \union Listed(m)
    BY <1>0, <1>4, <1>6, MarkMore
  <2>4. heap' = heap
    BY DEF RemarkWeak
  <2> QED BY <1>0, <1>1, <1>7, <2>1, <2>2, <2>3, <2>4 DEF Lists, Dynamic, heap, c
<1>9. Barriers'
  <2>1. heap' = heap /\ tmudata' = tmudata /\ L' = L /\ basemt' = basemt
    BY DEF RemarkWeak, ends
  <2>2. \A x \in Obj : IsWhite(x)' <=> IsWhite(x) /\ x \notin m
    BY <1>0, <1>1, Painted DEF Types
  <2>3. \A o \in Allocated : color'[o] = "black" /\ (o \in tmudata => phase' = "tmu") =>
              \A x \in Obj : Arrow(o, x) => ~IsWhite(x)'
    BY <1>0, <1>4, <1>6, MarkMore DEF IsWhite, c
  <2>4. \A u \in Allocated : open[u] # None /\ color'[u] = "gray" => \A x \in Obj : Value(u, x) => ~IsWhite(x)'
    BY <1>0, <1>4, <1>6, MarkMore DEF IsWhite, c
  <2>5. ~IsWhite(MainThread)' /\ ~IsWhite(Registry)'
    BY <1>0, <2>2, ObjectsAssumption DEF Dynamic, Barriers
  <2>6. ~IsWhite(L)' /\ (basemt # None => ~IsWhite(basemt)')
    BY <1>0, <1>2, <1>4, <2>1, <2>2 DEF Types, TypeOK
  <2> QED BY <1>0, <1>1, <1>7, <2>1, <2>3, <2>4, <2>5, <2>6, SameHeap DEF Barriers, heap
<1> QED BY <1>5, <1>8, <1>9, Parts DEF IInv, Static

LEMMA RemarkAgainKeeps == ASSUME IInv, RemarkAgain, Types' PROVE IInv'
<1>0. Types /\ Static /\ Dynamic /\ Marking /\ phase = "weak" /\ phase' = "again" /\ gray = {}
      /\ Marking' /\ color' = color /\ current' = current /\ heap' = heap /\ tmudata' = tmudata
      /\ gray' = grayagain /\ grayagain' = {} /\ weak' = weak /\ L' = L /\ basemt' = basemt
      /\ full' = full /\ tosweep' = tosweep /\ ends' = ends
  BY Parts DEF RemarkAgain, Marking, AtomicPhases, ends
<1>1. Allocated' = Allocated /\ Sure' = Sure /\ Other' = Other
  BY <1>0 DEF Allocated, heap, Sure, Dead, Other
<1>2. Static'
  BY <1>0, <1>1, StaticKept
<1>3. Finalizing'
  BY <1>0, <1>1 DEF Dynamic, Finalizing, heap, ends
<1>4. Phases'
  BY <1>0 DEF Dynamic, Phases, AtomicPhases, heap
<1>5. Colors'
  BY <1>0, <1>1 DEF Dynamic, Colors, heap
<1>6. Lists'
  BY <1>0, <1>1 DEF Dynamic, Lists, heap
<1>7. Barriers'
  <2>1. \A x : IsWhite(x)' <=> IsWhite(x)
    BY <1>0 DEF IsWhite
  <2> QED BY <1>0, <1>1, <2>1, SameHeap DEF Dynamic, Barriers, heap
<1> QED BY <1>2, <1>3, <1>4, <1>5, <1>6, <1>7, Parts DEF IInv, Static

LEMMA PropagateKeeps == ASSUME IInv, NEW o \in Obj, Propagate(o), Types' PROVE IInv'
<1> DEFINE S == StrongRefs(o)
           m == Marked(S)
           isweak == IsWeak(o, "k") \/ IsWeak(o, "v")
           isthread == kind[o] = "thread"
           turned == IF isweak \/ isthread THEN "gray" ELSE "black"
           c == Paint(color, m)
<1>0. /\ Types /\ Static /\ Dynamic /\ Marking /\ Marking' /\ phase' = phase /\ heap' = heap
      /\ L' = L /\ basemt' = basemt /\ current' = current /\ ends' = ends /\ tmudata' = tmudata
      /\ full' = full /\ tosweep' = tosweep
  BY Parts DEF Propagate, Marking, AtomicPhases, ends
<1>1. /\ color' = [c EXCEPT ![o] = turned] /\ gray' = (gray \ {o}) \union Listed(m)
      /\ grayagain' = (IF isthread THEN grayagain \union {o} ELSE grayagain)
      /\ weak' = (IF isweak THEN weak \union {o} ELSE weak)
  BY DEF Propagate
<1>2. /\ o \in gray /\ color[o] = "gray" /\ kind[o] \in {"table", "function", "thread"}
      /\ o \in Allocated /\ open[o] = None /\ ~IsWhite(o) /\ (isweak => kind[o] = "table")
      /\ o \notin grayagain /\ o \notin weak
  BY <1>0 DEF Propagate, Dynamic, Lists, Static, Blank, Allocated, IsWhite, IsWeak
<1>3. /\ S \subseteq Allocated
      /\ \A x \in Obj : StrongArrow(o, x) => x \in S
      /\ turned = "black" => \A x \in Obj : Arrow(o, x) => x \in S
      /\ isthread => \A x \in Obj : Arrow(o, x) => x \in S
  <2>1. \A x : x \in S <=> StrongArrow(o, x)
    BY Agreement DEF ArrowsAgree
  <2>2. \A x : StrongArrow(o, x) => Arrow(o, x) /\ x \in Obj
    BY <1>0, <1>2, ArrowTypes DEF StrongArrow, Arrow, Types
  <2>3. o \in Sure /\ Sure = Allocated
    BY <1>0, <1>2, MarkingSure DEF AllSure, Dynamic
  <2>4. ~isweak => \A x : Arrow(o, x) => StrongArrow(o, x)
    BY <1>2 DEF StrongArrow, Arrow
  <2> QED BY <1>0, <2>1, <2>2, <2>3, <2>4, <1>2 DEF Static, Sound
<1> HIDE DEF S
<1>4. MarkSet(m) /\ \A x \in S : IsWhite(x) => x \in m
  BY <1>0, <1>3, MarkedSet
<1> HIDE DEF m
<1>5. c = Paint(color, m) /\ c \in [Obj -> {"white0", "white1", "gray", "black"}]
  BY <1>0, <1>4, MarkMore
<1> HIDE DEF c
<1>6. /\ color'[o] = turned /\ \A x \in Obj \ {o} : color'[x] = c[x]
      /\ c[o] = "gray" /\ turned \in {"gray", "black"}
  BY <1>0, <1>1, <1>2, <1>4, <1>5, MarkMore
<1> HIDE DEF turned, isweak, isthread
<1>7. Allocated' = Allocated /\ Other' = Other /\ m \subseteq Obj /\ Allocated \subseteq Obj
  BY <1>0, <1>4 DEF Allocated, heap, MarkSet, Other
<1>8. \A x \in Obj : IsWhite(x)' <=> IsWhite(x) /\ x \notin m
  BY <1>0, <1>2, <1>4, <1>5, <1>6, MarkMore DEF IsWhite
<1>9. Colors'
  <2>1. \A x \in Allocated : c[x] # Other /\ (c[x] = "black" => kind[x] # "thread" /\ open[x] = None)
    BY <1>0, <1>4, <1>5, MarkMore
  <2>2. turned = "black" => kind[o] # "thread"
    BY DEF turned, isthread
  <2>3. turned # Other
    BY <1>6 DEF Other
  <2> QED BY <1>0, <1>2, <1>6, <1>7, <2>1, <2>2, <2>3 DEF Colors, heap
<1>10. Static'
  BY <1>0, <1>7, <1>9, MarkingSure, MarkingSureNext, StaticKept DEF AllSure, Dynamic, IInv
<1>11. Finalizing'
  <2>1. \A u \in tmudata : u \in Obj /\ kind[u] = "udata" /\ color[u] \notin {Other, "gray"}
    BY <1>0 DEF Dynamic, Finalizing, Types, TypeOK
  <2>2. \A u \in tmudata : u # o /\ u \in Allocated
    BY <1>2, <2>1 DEF Allocated
  <2>3. \A u \in tmudata : c[u] \notin {Other, "gray"}
    BY <1>0, <1>4, <1>5, <2>2, MarkMore
  <2>4. \A u \in tmudata : color'[u] \notin {Other', "gray"}
    BY <1>6, <1>7, <2>1, <2>2, <2>3
  <2> QED BY <1>0, <2>4 DEF Dynamic, Finalizing, ends, heap
<1>12. Phases'
  BY <1>0 DEF Dynamic, Phases, AtomicPhases, heap, ends
<1>13. Lists'
  <2>1. \A x \in (gray \union grayagain \union weak) : c[x] = "gray" /\ kind[x] \in {"table", "function", "thread"} /\ ~IsWhite(x)
    BY <1>0, <1>4, <1>5, MarkMore DEF Dynamic, Lists, IsWhite, Types, TypeOK
  <2>2. \A x \in Listed(m) : c[x] = "gray" /\ kind[x] \in {"table", "function", "thread"} /\ IsWhite(x) /\ x # o
    BY <1>0, <1>2, <1>4, <1>5, MarkMore
  <2>3. \A x \in Allocated : c[x] = "gray" =>
              \/ kind[x] = "string" \/ open[x] # None
              \/ x \in gray \union grayagain \union weak \union Listed(m)
    BY <1>0, <1>4, <1>5, MarkMore
  <2>4. turned = "gray" <=> isweak \/ isthread
    BY DEF turned
  <2>5. ~(isweak /\ isthread) /\ (isweak => kind[o] = "table") /\ (isthread => kind[o] = "thread")
    BY <1>2 DEF isthread
  <2>6. /\ \A x \in gray' \union grayagain' \union weak' : color'[x] = "gray" /\ kind[x] \in {"table", "function", "thread"}
        /\ gray' \intersect grayagain' = {} /\ gray' \intersect weak' = {} /\ grayagain' \intersect weak' = {}
    <3>1. gray \union grayagain \union weak \subseteq Obj /\ Listed(m) \subseteq Obj
      BY <1>0, <1>7 DEF Types, TypeOK, Listed
    <3>2. gray \intersect grayagain = {} /\ gray \intersect weak = {} /\ grayagain \intersect weak = {}
      BY <1>0 DEF Dynamic, Lists
    <3>3. gray' \union grayagain' \union weak' \subseteq gray \union grayagain \union weak \union Listed(m)
      BY <1>1, <1>2
    <3>4. o \in gray' \union grayagain' \union weak' => isweak \/ isthread
      BY <1>1, <1>2, <2>2
    <3>5. \A x \in Listed(m) : x \notin gray \union grayagain \union weak
      BY <2>1, <2>2
    <3>6. \A x \in gray' \union grayagain' \union weak' : color'[x] = "gray" /\ kind[x] \in {"table", "function", "thread"}
      BY <1>2, <1>6, <2>1, <2>2, <2>4, <3>1, <3>3, <3>4
    <3>7. gray' \intersect grayagain' = {} /\ gray' \intersect weak' = {} /\ grayagain' \intersect weak' = {}
      BY <1>1, <1>2, <2>2, <2>5, <3>2, <3>5
    <3> QED BY <3>6, <3>7
  <2>7. \A t \in weak' : kind[t] = "table"
    BY <1>0, <1>1, <2>5 DEF Dynamic, Lists
  <2>8. ASSUME NEW x \in Allocated, color'[x] = "gray"
        PROVE  kind[x] = "string" \/ open[x] # None \/ x \in gray' \union grayagain' \union weak'
    BY <1>1, <1>2, <1>6, <1>7, <2>3, <2>4, <2>8
  <2> QED BY <1>0, <1>7, <2>6, <2>7, <2>8 DEF Lists, heap
<1>14. Barriers'
  <2>1. \A p \in Allocated : c[p] = "black" /\ (p \in tmudata => phase = "tmu") =>
              \A x \in Obj : Arrow(p, x) => ~IsWhite(x)'
    BY <1>0, <1>4, <1>5, <1>8, MarkMore
  <2>2. \A x \in S : x \in Obj /\ ~IsWhite(x)'
    BY <1>3, <1>4, <1>7, <1>8
  <2>3. \A p \in Allocated : color'[p] = "black" /\ (p \in tmudata => phase' = "tmu") =>
              \A x \in Obj : Arrow(p, x) => ~IsWhite(x)'
    BY <1>0, <1>3, <1>6, <1>7, <2>1, <2>2
  <2>4. phase # "propagate" => \A u \in Allocated : open[u] # None /\ color'[u] = "gray" =>
           \A x \in Obj : Value(u, x) => ~IsWhite(x)'
    BY <1>0, <1>2, <1>4, <1>5, <1>6, <1>7, <1>8, MarkMore
  <2>5. ~IsWhite(MainThread)' /\ ~IsWhite(Registry)'
    BY <1>0, <1>8, ObjectsAssumption DEF Dynamic, Barriers
  <2>6. phase \in {"weak", "again", "tmu"} =>
         /\ ~IsWhite(L)' /\ (basemt # None => ~IsWhite(basemt)')
         /\ \A t \in weak' : \A x \in Obj : StrongArrow(t, x) => ~IsWhite(x)'
    BY <1>0, <1>1, <1>3, <1>8, <2>2 DEF Dynamic, Barriers, Types, TypeOK
  <2>7. phase \in {"again", "tmu"} => \A p \in grayagain' :
         kind[p] = "thread" /\ \A x \in Obj : Arrow(p, x) => ~IsWhite(x)'
    BY <1>0, <1>1, <1>3, <1>8, <2>2 DEF Dynamic, Barriers, isthread
  <2>8. phase = "tmu" => \A u \in tmudata : color'[u] = "black"
    <3>1. \A u \in tmudata : u \in Obj /\ u # o
      BY <1>0, <1>2 DEF Dynamic, Finalizing, Types, TypeOK
    <3>2. phase = "tmu" => \A u \in tmudata : c[u] = "black"
      BY <1>0, <1>4, <1>5, MarkMore DEF Dynamic, Barriers
    <3> QED BY <1>6, <3>1, <3>2
  <2> QED BY <1>0, <1>7, <2>3, <2>4, <2>5, <2>6, <2>7, <2>8, SameHeap DEF Barriers, heap
<1> QED BY <1>9, <1>10, <1>11, <1>12, <1>13, <1>14, Parts DEF IInv, Static

LEMMA SeparateKeeps == ASSUME IInv, Separate, Types' PROVE IInv'
<1> DEFINE dead == {u \in Of("udata") \ (finalized \union tmudata) : u \in White}
           due  == {u \in dead : meta[u] # None /\ "gc" \in mode[meta[u]]}
           all  == tmudata \union due
           S    == Things({meta[u] : u \in all})
           seen == Marked(S)
           m    == (seen \ all) \union all
           new  == {o \in m : IsWhite(o)}
           c    == Paint(color, new)
<1>0. /\ Types /\ Static /\ Dynamic /\ Marking /\ Marking' /\ phase = "again" /\ phase' = "tmu"
      /\ gray = {} /\ heap' = heap /\ L' = L /\ basemt' = basemt /\ current' = current
      /\ full' = full /\ tosweep' = tosweep /\ grayagain' = grayagain /\ weak' = weak /\ calls' = calls
  BY Parts DEF Separate, Marking, AtomicPhases
<1>1. /\ finalized' = finalized \union dead /\ tmudata' = all
      /\ color' = Paint(color, m) /\ gray' = Listed(m)
  BY DEF Separate
<1>2. /\ \A u \in dead : u \in Obj /\ kind[u] = "udata" /\ u \notin finalized /\ u \notin tmudata /\ IsWhite(u)
      /\ \A u \in due : u \in dead
  BY DEF Of, White, IsWhite
<1>3. \A u \in tmudata : u \in Obj /\ kind[u] = "udata" /\ color[u] \notin {Other, "gray"} /\ u \in finalized /\ calls[u] = 0
  BY <1>0 DEF Dynamic, Finalizing, Types, TypeOK
<1>4. \A u \in all : u \in Allocated /\ u \in Obj /\ kind[u] = "udata" /\ calls[u] = 0
  BY <1>0, <1>2, <1>3 DEF Dynamic, Finalizing, Allocated
<1>5. Sure = Allocated /\ Allocated \subseteq Obj
  BY <1>0, MarkingSure DEF AllSure, Dynamic, Allocated
<1>6. \A u \in all, x \in Obj : Arrow(u, x) => x \in S /\ kind[x] = "table"
  <2> SUFFICES ASSUME NEW u \in all, NEW x \in Obj, Arrow(u, x) PROVE x \in S /\ kind[x] = "table"
    OBVIOUS
  <2>1. x = meta[u] /\ x # None /\ kind[x] = "table"
    BY <1>0, <1>4, <1>5 DEF Static, Shapes, Arrow
  <2> QED BY <2>1 DEF Things
<1>7. S \subseteq Allocated
  <2> SUFFICES ASSUME NEW x \in S PROVE x \in Allocated
    OBVIOUS
  <2>1. PICK u \in all : x = meta[u] /\ x # None
    BY DEF Things
  <2>2. Arrow(u, x) /\ x \in Obj /\ u \in Sure
    BY <1>0, <1>4, <1>5, <2>1, ArrowTypes DEF Arrow, Types
  <2> QED BY <1>0, <1>5, <2>2 DEF Static, Sound
<1> HIDE DEF S, dead, due
<1>8. MarkSet(seen) /\ \A x \in S : IsWhite(x) => x \in seen
  BY <1>0, <1>7, MarkedSet
<1> HIDE DEF seen
<1> HIDE DEF all
<1>9. MarkSet(new)
  <2>1. new \subseteq Allocated /\ \A o \in new : IsWhite(o)
    BY <1>4, <1>8 DEF MarkSet
  <2>2. ASSUME NEW o \in new, kind[o] \in {"string", "udata", "upval"}, NEW x \in Obj, Arrow(o, x), IsWhite(x)
        PROVE  x \in new
    <3>1. CASE o \in all
      BY <1>6, <1>8, <2>2, <3>1
    <3>2. CASE o \notin all
      BY <1>8, <2>2, <3>2 DEF MarkSet
    <3> QED BY <3>1, <3>2
  <2> QED BY <2>1, <2>2 DEF MarkSet
<1>10. /\ \A o \in m : o \in all \/ IsWhite(o)
       /\ \A o \in all : o \in m
       /\ \A x \in S : IsWhite(x) => x \in m
       /\ m \subseteq Obj
  BY <1>4, <1>5, <1>8 DEF MarkSet
<1>11. \A o \in all : color[o] = "black" \/ IsWhite(o)
  BY <1>0, <1>1, <1>2, <1>3 DEF Types, TypeOK, IsWhite, all
<1> HIDE DEF m
<1>12. \A o \in Obj : o \in new <=> o \in m /\ IsWhite(o)
  BY <1>10
<1>13. c = Paint(color, new)
  OBVIOUS
<1> HIDE DEF new, c
<1>14. color' = c
  <2>1. ASSUME NEW o \in m, ~IsWhite(o)
        PROVE  color[o] = ColorMarked(o)
    BY <1>4, <1>10, <1>11, <2>1 DEF ColorMarked
  <2>2. \A o \in Obj : (IF o \in m THEN ColorMarked(o) ELSE color[o]) = (IF o \in new THEN ColorMarked(o) ELSE color[o])
    BY <1>12, <2>1
  <2> QED BY <1>1, <1>13, <2>2 DEF Paint
<1>15. Listed(new) = Listed(m)
  BY <1>4, <1>5, <1>9, <1>10, <1>12 DEF Listed, MarkSet
<1>16. \A x \in Obj : IsWhite(x)' <=> IsWhite(x) /\ x \notin new
  BY <1>0, <1>9, <1>13, <1>14, MarkMore DEF IsWhite
<1>17. Allocated' = Allocated /\ Other' = Other
  BY <1>0 DEF Allocated, heap, Other
<1>18. Colors'
  BY <1>0, <1>9, <1>13, <1>14, <1>17, MarkMore DEF Colors, heap
<1>19. Static'
  BY <1>0, <1>5, <1>17, <1>18, MarkingSureNext, StaticKept DEF AllSure
<1>20. \A u \in all : color'[u] = "black"
  <2>1. \A u \in all : c[u] = IF u \in new THEN ColorMarked(u) ELSE color[u]
    BY <1>0, <1>4, <1>13, PaintTyped DEF Types
  <2> QED BY <1>4, <1>10, <1>11, <1>12, <1>14, <2>1 DEF ColorMarked
<1>21. Finalizing'
  <2>1. \A u \in all : u \in finalized' /\ calls'[u] = 0 /\ color'[u] \notin {Other', "gray"}
    BY <1>0, <1>1, <1>2, <1>3, <1>4, <1>17, <1>20 DEF all, Other
  <2>2. \A u \in finalized' : kind'[u] = "udata"
    BY <1>0, <1>1, <1>2 DEF Dynamic, Finalizing, heap
  <2>3. \A u \in Obj : calls'[u] <= 1 /\ (calls'[u] # 0 => u \in finalized')
    BY <1>0, <1>1 DEF Dynamic, Finalizing
  <2> QED BY <1>1, <2>1, <2>2, <2>3 DEF Finalizing
<1>22. Phases'
  BY <1>0 DEF Dynamic, Phases, AtomicPhases, heap
<1>23. Lists'
  <2>1. \A o \in grayagain \union weak : c[o] = "gray" /\ kind[o] \in {"table", "function", "thread"} /\ ~IsWhite(o)
    BY <1>0, <1>9, <1>13, MarkMore DEF Dynamic, Lists, IsWhite, Types, TypeOK
  <2>2. \A o \in Listed(new) : c[o] = "gray" /\ kind[o] \in {"table", "function", "thread"} /\ IsWhite(o)
    BY <1>0, <1>9, <1>13, MarkMore
  <2>3. \A o \in Allocated : c[o] = "gray" =>
              \/ kind[o] = "string" \/ open[o] # None
              \/ o \in gray \union grayagain \union weak \union Listed(new)
    BY <1>0, <1>9, <1>13, MarkMore
  <2> QED BY <1>0, <1>1, <1>14, <1>15, <1>17, <2>1, <2>2, <2>3 DEF Lists, Dynamic, heap
<1>24. Barriers'
  <2>1. ~IsWhite(MainThread)' /\ ~IsWhite(Registry)'
    BY <1>0, <1>16, ObjectsAssumption DEF Dynamic, Barriers
  <2>2. ASSUME NEW o \in Allocated, color'[o] = "black", NEW x \in Obj, Arrow(o, x)
        PROVE  ~IsWhite(x)'
    <3>1. CASE o \in all
      <4>1. x \in S
        BY <1>6, <2>2, <3>1
      <4> QED BY <1>10, <1>12, <1>16, <4>1
    <3>2. CASE o \notin all
      <4>1. o \notin tmudata
        BY <3>2 DEF all
      <4> QED BY <1>0, <1>9, <1>13, <1>14, <2>2, <4>1, MarkMore DEF IsWhite
    <3> QED BY <3>1, <3>2
  <2>3. \A u \in Allocated : open[u] # None /\ color'[u] = "gray" => \A x \in Obj : Value(u, x) => ~IsWhite(x)'
    BY <1>0, <1>9, <1>13, <1>14, MarkMore DEF IsWhite
  <2>4. /\ ~IsWhite(L)' /\ (basemt # None => ~IsWhite(basemt)')
        /\ \A t \in weak : \A x \in Obj : StrongArrow(t, x) => ~IsWhite(x)'
        /\ \A o \in grayagain : kind[o] = "thread" /\ \A x \in Obj : Arrow(o, x) => ~IsWhite(x)'
    BY <1>0, <1>16 DEF Dynamic, Barriers, Types, TypeOK
  <2> QED BY <1>0, <1>1, <1>17, <1>20, <2>1, <2>2, <2>3, <2>4, SameHeap DEF Barriers, heap
<1> QED BY <1>18, <1>19, <1>21, <1>22, <1>23, <1>24, Parts DEF IInv, Static

-----------------------------------------------------------------------------
(* The end of atomic(). *)

\* With nothing left to traverse, marked objects refer strongly to marked ones,
\* and only weak tables to others at all.
LEMMA AllTraversed ==
  ASSUME IInv, phase \in {"again", "tmu"}, gray = {}, NEW o \in Allocated, ~IsWhite(o),
         o \in tmudata => phase = "tmu", NEW x \in Obj
  PROVE  /\ StrongArrow(o, x) => ~IsWhite(x)
         /\ o \notin weak /\ Arrow(o, x) => ~IsWhite(x)
<1>0. Types /\ Static /\ Dynamic /\ Marking /\ o \in Obj
  BY Parts DEF Marking, AtomicPhases, Allocated
<1>1. StrongArrow(o, x) => Arrow(o, x)
  BY DEF StrongArrow, Arrow
<1>2. CASE o \in weak
  BY <1>0, <1>2 DEF Dynamic, Barriers
<1>3. ASSUME o \notin weak, Arrow(o, x)
      PROVE  ~IsWhite(x)
  <2>1. kind[o] # "string"
    BY <1>0, <1>3 DEF Static, Blank, Arrow
  <2>2. color[o] \in {"gray", "black"}
    BY <1>0 DEF IsWhite, Types, TypeOK
  <2>3. CASE color[o] = "black"
    BY <1>0, <1>3, <2>3 DEF Dynamic, Barriers
  <2>4. CASE color[o] = "gray" /\ open[o] # None
    <3>1. kind[o] = "upval" /\ meta[o] = None
      BY <1>0, <2>4 DEF Static, Blank
    <3>2. Value(o, x)
      BY <1>3, <3>1 DEF Arrow
    <3> QED BY <1>0, <2>4, <3>2 DEF Dynamic, Barriers
  <2>5. CASE color[o] = "gray" /\ open[o] = None
    <3>1. o \in grayagain
      BY <1>0, <1>3, <2>1, <2>5 DEF Dynamic, Lists
    <3> QED BY <1>0, <1>3, <3>1 DEF Dynamic, Barriers
  <2> QED BY <2>2, <2>3, <2>4, <2>5
<1> QED BY <1>1, <1>2, <1>3

LEMMA ClearTablesKeeps == ASSUME IInv, ClearTables, Types' PROVE IInv'
<1> DEFINE seen == UNION {StringsSeen(t) : t \in weak}
<1> USE ObjectsAssumption
<1>0. /\ Types /\ Static /\ Dynamic /\ Marking /\ ~Marking' /\ phase = "tmu" /\ phase' = "sweepstring"
      /\ gray = {} /\ L' = L /\ basemt' = basemt /\ full' = full /\ kind' = kind /\ meta' = meta
      /\ mode' = mode /\ stack' = stack /\ open' = open /\ tmudata' = tmudata
      /\ finalized' = finalized /\ calls' = calls
  BY Parts DEF ClearTables, Marking, AtomicPhases, ends
<1>1. /\ color' = Paint(color, seen) /\ current' = Other /\ tosweep' = Swept
      /\ \A o \in Obj : held'[o] = IF o \in weak THEN held[o] \ ClearedEntries(o) ELSE held[o]
  BY DEF ClearTables
<1>2. /\ \A x \in seen : x \in Obj /\ kind[x] = "string"
      /\ \A t \in weak : StringsSeen(t) \subseteq seen
  BY DEF StringsSeen, Of
<1> HIDE DEF seen
<1>3. Sure = Allocated /\ Allocated' = Allocated /\ Allocated \subseteq Obj
  BY <1>0, MarkingSure DEF AllSure, Dynamic, Allocated
<1>4. Other' = current /\ \A o \in Allocated : IsWhite(o) => color[o] = current
  BY <1>0, <1>1, WhiteColor DEF Other, Dynamic, Colors, Types, TypeOK, Allocated
<1>5. \A o \in Obj : /\ IsWhite(o)' <=> IsWhite(o) /\ o \notin seen
                     /\ o \notin seen => color'[o] = color[o]
                     /\ o \in seen => color'[o] = "gray"
  BY <1>0, <1>1, <1>2, Painted DEF Types
<1>6. \A o \in Obj : o \in Sure' <=> o \in Allocated /\ ~IsWhite(o)'
  <2>1. ASSUME NEW o \in Obj PROVE o \in Allocated => (color'[o] = current <=> IsWhite(o)')
    BY <1>0, <1>3, <1>4, <1>5 DEF IsWhite, Types, TypeOK
  <2> QED BY <1>3, <1>4, <2>1 DEF Sure, Dead
<1>7. ASSUME NEW o \in Allocated, NEW x \in Obj, Arrow(o, x)' PROVE Arrow(o, x)
  BY <1>0, <1>1, <1>3, <1>7 DEF Arrow, Value
<1>8. ASSUME NEW t \in weak, NEW x \in Obj, Arrow(t, x)'
      PROVE  ~IsWhite(x)'
  <2>1. kind[t] = "table" /\ t \in Obj /\ \A y \in Obj : StrongArrow(t, y) => ~IsWhite(y)
    BY <1>0 DEF Dynamic, Lists, Barriers, Types, TypeOK
  <2>2. CASE x = meta[t]
    BY <1>5, <2>1, <2>2 DEF StrongArrow
  <2>3. CASE x # meta[t]
    <3>1. PICK e \in held[t] : e \notin ClearedEntries(t) /\ (x = e[1] \/ x = e[2]) /\ x # None
      BY <1>0, <1>1, <1>8, <2>1, <2>3 DEF Arrow
    <3>2. CASE (~IsWeak(t, "k") /\ x = e[1]) \/ (~IsWeak(t, "v") /\ x = e[2])
      BY <1>5, <2>1, <3>1, <3>2 DEF StrongArrow
    <3>3. CASE e[1] = None /\ IsWeak(t, "v") /\ x = e[2]
      <4>1. ~Cleared(x, FALSE)
        BY <3>1, <3>3 DEF ClearedEntries
      <4>2. CASE kind[x] = "string"
        <5>1. x \in StringsSeen(t)
          BY <3>1, <3>3, <4>2 DEF StringsSeen, Of, Cleared
        <5> QED BY <1>2, <1>5, <5>1
      <4>3. CASE kind[x] # "string"
        BY <1>5, <4>1, <4>3 DEF Cleared, White, IsWhite
      <4> QED BY <4>2, <4>3
    <3>4. CASE e[1] # None
      <4>1. ~Cleared(e[1], TRUE) /\ ~Cleared(e[2], FALSE)
        BY <3>1, <3>4 DEF ClearedEntries
      <4>2. CASE kind[x] = "string"
        <5> DEFINE looked(f) == {f[1]} \union (IF Cleared(f[1], TRUE) THEN {} ELSE {f[2]})
        <5>0. x \in looked(e)
          BY <3>1, <4>1
        <5>1. x \in StringsSeen(t)
          <6>1. e \in {f \in held[t] : f[1] # None \/ IsWeak(t, "v")} /\ x \in Of("string")
            BY <3>1, <3>4, <4>2 DEF Of
          <6>2. StringsSeen(t) = {y \in UNION {looked(f) : f \in {g \in held[t] : g[1] # None \/ IsWeak(t, "v")}} :
                                   y \in Of("string")}
            BY DEF StringsSeen
          <6> HIDE DEF looked
          <6> QED BY <5>0, <6>1, <6>2
        <5> QED BY <1>2, <1>5, <5>1
      <4>3. CASE kind[x] # "string"
        BY <1>5, <3>1, <4>1, <4>3 DEF Cleared, White, IsWhite
      <4> QED BY <4>2, <4>3
    <3> QED BY <3>1, <3>2, <3>3, <3>4
  <2> QED BY <2>2, <2>3
<1>9. ASSUME NEW o \in Sure', NEW x \in Obj, Arrow(o, x)'
      PROVE  x \in Sure'
  <2>0. o \in Allocated /\ ~IsWhite(o)' /\ Arrow(o, x) /\ x \in Allocated
    BY <1>0, <1>3, <1>6, <1>7, <1>9 DEF Sure, Static, Sound
  <2>1. CASE o \in weak
    BY <1>6, <1>8, <1>9, <2>0, <2>1
  <2>2. CASE o \notin weak
    <3>1. CASE o \in seen
      BY <1>0, <1>2, <2>0, <3>1 DEF Static, Blank, Arrow
    <3>2. CASE o \notin seen
      BY <1>0, <1>3, <1>5, <1>6, <2>0, <2>2, <3>2, AllTraversed
    <3> QED BY <3>1, <3>2
  <2> QED BY <2>1, <2>2
<1>10. Blank'
  BY <1>0, <1>1 DEF Static, Blank, Dynamic, Lists
<1>11. Shapes'
  <2>1. Sure' \subseteq Sure
    BY <1>3, <1>6 DEF Sure
  <2>2. \A o \in Sure' : o \in Allocated /\ o \in Sure /\ (kind[o] = "udata" => held'[o] = {})
    BY <1>0, <1>1, <1>3, <2>1 DEF Static, Shapes
  <2> QED BY <1>0, <1>7, <2>2 DEF Static, Shapes
<1>12. Sound'
  BY <1>9 DEF Sound
<1>13. RootsSound'
  <2>1. Roots' = Roots
    BY <1>0 DEF Roots, Things
  <2>2. \A r \in Roots : r \in Allocated /\ ~IsWhite(r)
    BY <1>0, <1>3 DEF Dynamic, Barriers, Static, RootsSound, Roots, Things
  <2> QED BY <1>0, <1>3, <1>5, <1>6, <2>1, <2>2 DEF Static, RootsSound
<1>14. Finalizing'
  <2>1. \A u \in tmudata : u \in Obj /\ kind[u] = "udata" /\ color[u] = "black"
    BY <1>0 DEF Dynamic, Finalizing, Barriers, Types, TypeOK
  <2>2. \A u \in tmudata : color'[u] \notin {Other', "gray"}
    BY <1>0, <1>2, <1>4, <1>5, <2>1 DEF Types, TypeOK
  <2> QED BY <1>0, <2>2 DEF Dynamic, Finalizing
<1>15. \A o \in Swept : o \in Allocated /\ o \notin tmudata /\ open[o] = None
  BY <1>0, <1>3 DEF Swept, Static, Blank
<1>16. Phases'
  BY <1>0, <1>1, <1>15 DEF Dynamic, Phases, Allocated
<1>17. Colors'
  <2>1. ASSUME NEW o \in Allocated
        PROVE  color'[o] = "black" => kind[o] # "thread" /\ open[o] = None
    BY <1>0, <1>3, <1>5, <2>1 DEF Dynamic, Colors
  <2>2. ASSUME NEW o \in Allocated, o \notin tmudata
        PROVE  o \in Swept \/ (open[o] # None /\ open[o][1] \in Swept)
    <3>1. CASE open[o] = None
      BY <2>2, <3>1 DEF Swept
    <3>2. CASE open[o] # None
      <4>1. kind[open[o][1]] = "thread" /\ open[o][1] \in Obj
        BY <1>0, <1>3, <3>2 DEF Static, Blank, Types, TypeOK
      <4>2. open[o][1] \notin tmudata
        BY <1>0, <4>1 DEF Dynamic, Finalizing
      <4> QED BY <3>2, <4>1, <4>2 DEF Swept, Allocated
    <3> QED BY <3>1, <3>2
  <2> QED BY <1>0, <1>1, <1>3, <2>1, <2>2 DEF Colors, Unswept
<1>18. Lists' /\ Barriers'
  BY <1>0 DEF Lists, Barriers
<1> QED BY <1>10, <1>11, <1>12, <1>13, <1>14, <1>16, <1>17, <1>18, Parts DEF IInv, Static

-----------------------------------------------------------------------------
(* Sweeping and finalizing. *)

LEMMA PhaseEndsKeeps ==
  ASSUME IInv, EndSweepString \/ EndSweep \/ EndCycle, Types'
  PROVE  IInv'
<1>0. /\ Types /\ Static /\ Dynamic /\ ~Marking /\ ~Marking' /\ heap' = heap /\ L' = L
      /\ basemt' = basemt /\ color' = color /\ current' = current /\ ends' = ends /\ tosweep' = tosweep
  BY Parts DEF EndSweepString, EndSweep, EndCycle, Marking, AtomicPhases, ends
<1>1. Allocated' = Allocated /\ Sure' = Sure /\ Other' = Other
  BY <1>0 DEF Allocated, heap, Sure, Dead, Other
<1>2. Static'
  BY <1>0, <1>1, StaticKept
<1>3. Finalizing'
  BY <1>0, <1>1 DEF Dynamic, Finalizing, heap, ends
<1>4. Phases'
  BY <1>0 DEF Dynamic, Phases, AtomicPhases, heap, ends, EndSweepString, EndSweep, EndCycle
<1>5. Colors'
  BY <1>0, <1>1 DEF Dynamic, Colors, heap, Unswept, ends
<1>6. Lists' /\ Barriers'
  BY <1>0 DEF Lists, Barriers
<1> QED BY <1>2, <1>3, <1>4, <1>5, <1>6, Parts DEF IInv, Static

\* What freeing some of the dead objects and closing others does.
LEMMA ReleaseFacts ==
  ASSUME Types, Blank, NEW gone, gone \subseteq Obj, NEW closing, closing \subseteq Of("upval"),
         Release(gone, closing), gone \intersect closing = {},
         \A u \in Obj : open[u] # None /\ open[u][1] \in gone => u \in gone \union closing
  PROVE  /\ \A o \in Obj : kind'[o] = IF o \in gone THEN "free" ELSE kind[o]
         /\ \A o \in Obj : open'[o] = IF o \in gone \union closing THEN None ELSE open[o]
         /\ \A o \in Obj \ gone, x \in Obj : Value(o, x)' <=> Value(o, x)
         /\ \A o \in Obj \ gone, x \in Obj : Arrow(o, x)' <=> Arrow(o, x)
         /\ \A o \in Obj \ gone : held'[o] = held[o] \/ kind[o] = "upval"
         /\ \A o \in Obj \ gone : meta'[o] = meta[o]
         /\ Blank'
<1>0. /\ \A o \in Obj : kind'[o] = IF o \in gone THEN "free" ELSE kind[o]
      /\ \A o \in Obj : open'[o] = IF o \in gone \union closing THEN None ELSE open[o]
      /\ \A o \in Obj : meta'[o] = IF o \in gone THEN None ELSE meta[o]
      /\ \A o \in Obj : stack'[o] = IF o \in gone THEN [s \in Places |-> None] ELSE stack[o]
      /\ \A o \in Obj : held'[o] = IF o \in gone THEN {}
                            ELSE IF o \in closing THEN {<<None, v>> : v \in ValueOf(o)}
                            ELSE held[o]
      /\ closing \subseteq Obj /\ \A u \in closing : kind[u] = "upval"
  BY DEF Release, Of
<1>1. ASSUME NEW o \in Obj \ gone, NEW x \in Obj PROVE Value(o, x)' <=> Value(o, x)
  <2>1. CASE o \in closing
    <3>1. open'[o] = None /\ held'[o] = {<<None, v>> : v \in ValueOf(o)}
      BY <1>0, <1>1, <2>1
    <3>2. (\E e \in held'[o] : x = e[2]) <=> x \in ValueOf(o)
      <4>1. \A v \in ValueOf(o) : <<None, v>> \in held'[o] /\ <<None, v>>[2] = v
        BY <3>1
      <4>2. ASSUME NEW e \in held'[o] PROVE e[2] \in ValueOf(o)
        <5>1. PICK v \in ValueOf(o) : e = <<None, v>>
          BY <3>1
        <5> QED BY <5>1
      <4>3. x \in ValueOf(o) => \E e \in held'[o] : x = e[2]
        BY <4>1
      <4> QED BY <4>2, <4>3
    <3>3. x \in ValueOf(o) <=> Value(o, x)
      BY Agreement DEF ArrowsAgree
    <3>4. Value(o, x) => x # None
      BY DEF Value
    <3>5. Value(o, x)' <=> x # None /\ \E e \in held'[o] : x = e[2]
      BY <3>1 DEF Value
    <3> QED BY <3>2, <3>3, <3>4, <3>5
  <2>2. CASE o \notin closing /\ open[o] = None
    BY <1>0, <1>1, <2>2 DEF Value
  <2>3. CASE o \notin closing /\ open[o] # None
    <3>1. open[o][1] \in Obj \ gone
      BY <2>3 DEF Types, TypeOK
    <3> QED BY <1>0, <1>1, <2>3, <3>1 DEF Value
  <2> QED BY <2>1, <2>2, <2>3
<1>2. ASSUME NEW o \in Obj \ gone, NEW x \in Obj PROVE Arrow(o, x)' <=> Arrow(o, x)
  <2>1. /\ kind'[o] = kind[o] /\ meta'[o] = meta[o] /\ stack'[o] = stack[o]
        /\ kind[o] # "upval" => held'[o] = held[o]
    BY <1>0
  <2> QED BY <1>1, <2>1 DEF Arrow
<1>3. Blank'
  <2>1. ASSUME NEW o \in Obj, kind'[o] \in {"free", "string", "upval"}
        PROVE  /\ kind'[o] # "upval" => held'[o] = {} /\ open'[o] = None /\ \A s \in Places : stack'[o][s] = None
               /\ meta'[o] = None
    <3>1. CASE o \in gone
      BY <1>0, <2>1, <3>1
    <3>2. CASE o \notin gone
      <4>1. kind[o] = kind'[o] /\ (kind[o] # "upval" => o \notin closing)
        BY <1>0, <3>2
      <4>2. (kind[o] # "upval" => held'[o] = held[o] /\ open'[o] = open[o]) /\ meta'[o] = meta[o] /\ stack'[o] = stack[o]
        BY <1>0, <3>2, <4>1
      <4> QED BY <2>1, <4>1, <4>2 DEF Blank
    <3> QED BY <3>1, <3>2
  <2>2. ASSUME NEW u \in Obj, open'[u] # None
        PROVE  kind'[u] = "upval" /\ kind'[open'[u][1]] = "thread"
    <3>1. open[u] # None /\ u \notin gone /\ u \notin closing /\ open'[u] = open[u]
      BY <1>0, <2>2
    <3>2. open[u][1] \in Obj /\ open[u][1] \notin gone
      BY <3>1 DEF Types, TypeOK
    <3> QED BY <1>0, <3>1, <3>2 DEF Blank
  <2> QED BY <2>1, <2>2 DEF Blank
<1> QED BY <1>0, <1>1, <1>2, <1>3

\* What is left then is as sound as it was.
LEMMA ReleaseStatic ==
  ASSUME Types, Static, NEW gone, NEW closing, Sure' = Sure, UNCHANGED <<L, basemt>>, Blank',
         \A o \in Sure : o \notin gone,
         \A o \in Obj : kind'[o] = IF o \in gone THEN "free" ELSE kind[o],
         \A o \in Obj \ gone, x \in Obj : Arrow(o, x)' <=> Arrow(o, x),
         \A o \in Obj \ gone : held'[o] = held[o] \/ kind[o] = "upval",
         \A o \in Obj \ gone : meta'[o] = meta[o]
  PROVE  Static'
<1>1. Sure \subseteq Obj /\ \A x \in Sure : x \in Obj \ gone /\ kind'[x] = kind[x]
  BY DEF Sure, Allocated
<1>2. Sound'
  BY <1>1 DEF Static, Sound
<1>3. Shapes'
  <2> SUFFICES ASSUME NEW p \in Sure
               PROVE  /\ kind'[p] = "udata" => held'[p] = {}
                      /\ meta'[p] # None => kind'[meta'[p]] = "table"
                      /\ kind'[p] # "function" => \A x \in Obj : Arrow(p, x)' => kind'[x] # "upval"
    BY DEF Shapes
  <2>1. p \in Obj \ gone /\ kind'[p] = kind[p] /\ meta'[p] = meta[p]
    BY <1>1
  <2>2. meta[p] # None => kind'[meta[p]] = "table"
    <3>1. meta[p] # None => Arrow(p, meta[p]) /\ meta[p] \in Obj
      BY <2>1 DEF Arrow, Types, TypeOK
    <3> QED BY <1>1, <3>1 DEF Static, Sound, Shapes
  <2>3. kind[p] # "function" => \A x \in Obj : Arrow(p, x)' => kind'[x] # "upval"
    BY <2>1 DEF Static, Shapes
  <2> QED BY <2>1, <2>2, <2>3 DEF Static, Shapes
<1>4. RootsSound'
  <2>1. Roots' = Roots
    BY DEF Roots, Things
  <2>2. /\ MainThread \in Sure /\ Registry \in Sure /\ L \in Sure /\ (basemt # None => basemt \in Sure)
    BY ObjectsAssumption DEF Static, RootsSound, Roots, Things, Types, TypeOK
  <2> QED BY <1>1, <2>1, <2>2 DEF Static, RootsSound
<1> QED BY <1>2, <1>3, <1>4 DEF Static

\* What the sweep of o frees, closes, and leaves.
SweptAway(o, gone, closing) ==
  /\ Release(gone, closing) /\ gone \subseteq Obj /\ gone \subseteq {o} \union OpenUpvals(o)
  /\ closing \subseteq OpenUpvals(o)
  /\ \A x \in Obj : kind'[x] = IF x \in gone THEN "free" ELSE kind[x]
  /\ \A x \in Obj : open'[x] = IF x \in gone \union closing THEN None ELSE open[x]
  /\ \A p \in Obj \ gone, x \in Obj : Arrow(p, x)' <=> Arrow(p, x)
  /\ \A p \in Obj \ gone : held'[p] = held[p] \/ kind[p] = "upval"
  /\ \A p \in Obj \ gone : meta'[p] = meta[p]
  /\ Blank'
  /\ \A x \in Obj : color'[x] = IF x \in gone THEN "white0"
                                ELSE IF x \in {o} \union OpenUpvals(o) THEN current ELSE color[x]
  /\ tosweep' = tosweep \ {o}
  /\ Allocated' = Allocated \ gone /\ Sure' = Sure /\ Sure \subseteq Obj
  /\ \A x \in Sure : x \in Obj \ gone /\ kind'[x] = kind[x]

LEMMA SweepReleases ==
  ASSUME IInv, NEW o \in Obj, SweepString(o) \/ Sweep(o)
  PROVE  \E gone, closing : SweptAway(o, gone, closing)
<1> DEFINE ups  == OpenUpvals(o)
           gone == Dead \intersect ({o} \union ups)
           closing == IF o \in Dead THEN ups \ gone ELSE {}
<1>0. /\ Types /\ Static /\ Dynamic /\ ~Marking /\ ~Marking' /\ phase \in {"sweepstring", "sweep"}
      /\ L' = L /\ basemt' = basemt /\ current' = current /\ full' = full /\ phase' = phase
      /\ tmudata' = tmudata /\ o \in tosweep /\ SweepOne(o)
  BY Parts DEF SweepString, Sweep, SweepOne, Marking, AtomicPhases
<1>1. /\ Release(gone, closing)
      /\ color' = Freed(Whiten(color, {o} \union ups), gone)
      /\ tosweep' = tosweep \ {o}
  BY <1>0 DEF SweepOne
<1>2. /\ \A u \in ups : u \in Obj /\ kind[u] = "upval" /\ open[u] # None /\ open[u][1] = o
      /\ \A u \in Obj : open[u] # None /\ open[u][1] = o => u \in ups
  BY <1>0 DEF OpenUpvals, Of, Static, Blank
<1>3. /\ gone \subseteq Allocated /\ gone \subseteq Obj /\ gone \subseteq {o} \union ups
      /\ closing \subseteq ups /\ gone \intersect closing = {}
      /\ \A x \in gone : x \notin Sure
      /\ o \in Dead => ups \subseteq gone \union closing /\ o \in gone
      /\ \A x \in Obj : x \in Dead /\ x \in {o} \union ups => x \in gone
  BY DEF Dead, Sure, Allocated
<1> HIDE DEF ups, gone, closing
<1>4. \A u \in Obj : open[u] # None /\ open[u][1] \in gone => u \in gone \union closing
  <2> SUFFICES ASSUME NEW u \in Obj, open[u] # None, open[u][1] \in gone
               PROVE  u \in gone \union closing
    OBVIOUS
  <2>1. kind[open[u][1]] = "thread"
    BY <1>0 DEF Static, Blank
  <2>2. open[u][1] = o
    BY <1>2, <1>3, <2>1
  <2>3. o \in Dead
    BY <1>3, <2>2 DEF Sure, Allocated
  <2> QED BY <1>2, <1>3, <2>2, <2>3
<1>5. /\ \A x \in Obj : kind'[x] = IF x \in gone THEN "free" ELSE kind[x]
      /\ \A x \in Obj : open'[x] = IF x \in gone \union closing THEN None ELSE open[x]
      /\ \A p \in Obj \ gone, x \in Obj : Arrow(p, x)' <=> Arrow(p, x)
      /\ \A p \in Obj \ gone : held'[p] = held[p] \/ kind[p] = "upval"
      /\ \A p \in Obj \ gone : meta'[p] = meta[p]
      /\ Blank'
  <2>1. closing \subseteq Of("upval")
    BY <1>2, <1>3 DEF Of
  <2>2. Types /\ Blank /\ gone \subseteq Obj /\ Release(gone, closing) /\ gone \intersect closing = {}
    BY <1>0, <1>1, <1>3 DEF Static
  <2> QED BY <1>4, <2>1, <2>2, ReleaseFacts, Zenon
<1>6. \A x \in Obj : color'[x] = IF x \in gone THEN "white0"
                                 ELSE IF x \in {o} \union ups THEN current ELSE color[x]
  BY <1>1 DEF Freed, Whiten
<1>7. Other' = Other /\ Other # current
  BY <1>0 DEF Other
<1>8. Allocated' = Allocated \ gone /\ Sure' = Sure /\ Sure \subseteq Obj
  <2>1. Allocated' = Allocated \ gone
    BY <1>5 DEF Allocated
  <2>2. ASSUME NEW x \in Obj PROVE x \in Sure' <=> x \in Sure
    BY <1>3, <1>6, <1>7, <2>1 DEF Sure, Dead
  <2>3. Sure \subseteq Obj /\ Sure' \subseteq Obj
    BY DEF Sure, Allocated
  <2> QED BY <2>1, <2>2, <2>3
<1>9. \A x \in Sure : x \in Obj \ gone /\ kind'[x] = kind[x]
  BY <1>3, <1>5, <1>8
<1>10. SweptAway(o, gone, closing)
  <2>1. gone \subseteq Obj /\ gone \subseteq {o} \union OpenUpvals(o) /\ closing \subseteq OpenUpvals(o)
    BY <1>3 DEF ups
  <2>2. \A x \in Obj : color'[x] = IF x \in gone THEN "white0"
                                  ELSE IF x \in {o} \union OpenUpvals(o) THEN current ELSE color[x]
    BY <1>6 DEF ups
  <2> QED BY <1>1, <1>5, <1>8, <1>9, <2>1, <2>2 DEF SweptAway
<1> QED BY <1>10

LEMMA SweepKeeps == ASSUME IInv, NEW o \in Obj, SweepString(o) \/ Sweep(o), Types' PROVE IInv'
<1> DEFINE ups == OpenUpvals(o)
<1>0. /\ Types /\ Static /\ Dynamic /\ ~Marking /\ ~Marking' /\ phase \in {"sweepstring", "sweep"}
      /\ L' = L /\ basemt' = basemt /\ current' = current /\ full' = full /\ phase' = phase
      /\ tmudata' = tmudata /\ o \in tosweep
  BY Parts DEF SweepString, Sweep, SweepOne, Marking, AtomicPhases
<1>1. PICK gone, closing : SweptAway(o, gone, closing)
  BY SweepReleases
<1>2. /\ \A u \in ups : u \in Obj /\ kind[u] = "upval" /\ open[u] # None /\ open[u][1] = o
      /\ \A u \in Obj : open[u] # None /\ open[u][1] = o => u \in ups
  BY <1>0 DEF OpenUpvals, Of, Static, Blank
<1>3. gone \subseteq Obj /\ gone \subseteq {o} \union ups /\ closing \subseteq ups
  BY <1>1 DEF SweptAway
<1>5. /\ \A x \in Obj : kind'[x] = IF x \in gone THEN "free" ELSE kind[x]
      /\ \A x \in Obj : open'[x] = IF x \in gone \union closing THEN None ELSE open[x]
      /\ \A p \in Obj \ gone, x \in Obj : Arrow(p, x)' <=> Arrow(p, x)
      /\ \A p \in Obj \ gone : held'[p] = held[p] \/ kind[p] = "upval"
      /\ \A p \in Obj \ gone : meta'[p] = meta[p]
      /\ Blank' /\ Release(gone, closing) /\ tosweep' = tosweep \ {o}
  BY <1>1 DEF SweptAway
<1>6. \A x \in Obj : color'[x] = IF x \in gone THEN "white0"
                                 ELSE IF x \in {o} \union ups THEN current ELSE color[x]
  BY <1>1 DEF SweptAway
<1> HIDE DEF ups
<1>7. Other' = Other /\ Other # current
  BY <1>0 DEF Other
<1>8. Allocated' = Allocated \ gone /\ Sure' = Sure /\ Sure \subseteq Obj
      /\ \A x \in Sure : x \in Obj \ gone /\ kind'[x] = kind[x]
  BY <1>1 DEF SweptAway
<1>10. Static'
  <2>1. Types /\ Static /\ Sure' = Sure /\ UNCHANGED <<L, basemt>> /\ Blank' /\ \A x \in Sure : x \notin gone
    BY <1>0, <1>5, <1>8
  <2> QED BY <1>5, <2>1, ReleaseStatic, Zenon
<1>14. \A u \in tmudata : u \in Obj /\ u # o /\ u \notin ups /\ u \notin gone
  BY <1>0, <1>2, <1>3 DEF Dynamic, Phases, Finalizing, Types, TypeOK
<1>15. Finalizing'
  <2>1. finalized' = finalized \ gone /\ \A u \in Obj : calls'[u] = IF u \in gone THEN 0 ELSE calls[u]
    BY <1>5 DEF Release
  <2>2. \A u \in tmudata : u \in finalized' /\ calls'[u] = 0 /\ color'[u] \notin {Other', "gray"}
    BY <1>0, <1>6, <1>7, <1>14, <2>1 DEF Dynamic, Finalizing
  <2>3. \A u \in finalized' : kind'[u] = "udata"
    BY <1>0, <1>5, <2>1 DEF Dynamic, Finalizing, Types, TypeOK
  <2>4. \A u \in Obj : calls'[u] <= 1 /\ (calls'[u] # 0 => u \in finalized')
    BY <1>0, <2>1 DEF Dynamic, Finalizing
  <2> QED BY <1>0, <2>2, <2>3, <2>4 DEF Finalizing
<1>16. Phases'
  <2>1. \A p \in tosweep' : p \in Obj /\ p # o /\ p \notin ups /\ p \notin gone /\ kind[p] # "free" /\ open[p] = None /\ p \notin tmudata
    BY <1>0, <1>2, <1>3, <1>5 DEF Dynamic, Phases, Types, TypeOK
  <2>2. \A p \in tosweep' : kind'[p] # "free" /\ open'[p] = None /\ p \notin tmudata'
    BY <1>0, <1>5, <2>1
  <2> QED BY <1>0, <2>2 DEF Dynamic, Phases
<1>17. Colors'
  <2>1. ASSUME NEW p \in Allocated \ gone, color'[p] = "black" PROVE kind'[p] # "thread" /\ open'[p] = None
    <3>1. p \in Obj /\ current # "black"
      BY <1>0 DEF Types, TypeOK, Allocated
    <3> QED BY <1>0, <1>5, <1>6, <2>1, <3>1 DEF Dynamic, Colors
  <2>2. ASSUME NEW p \in Allocated \ gone PROVE color'[p] = current \/ Unswept(p)' \/ p \in tmudata
    <3>1. CASE p \in {o} \union ups
      BY <1>2, <1>6, <2>2, <3>1 DEF Allocated
    <3>2. CASE p \notin {o} \union ups
      <4>1. p \in Obj /\ color'[p] = color[p] /\ open'[p] = open[p]
        BY <1>3, <1>5, <1>6, <2>2, <3>2 DEF Allocated
      <4>2. Unswept(p) => Unswept(p)'
        BY <1>2, <1>5, <3>2, <4>1 DEF Unswept
      <4> QED BY <1>0, <2>2, <4>1, <4>2 DEF Dynamic, Colors
    <3> QED BY <3>1, <3>2
  <2> QED BY <1>0, <1>8, <2>1, <2>2 DEF Colors
<1>18. Lists' /\ Barriers'
  BY <1>0 DEF Lists, Barriers
<1> QED BY <1>10, <1>15, <1>16, <1>17, <1>18, Parts DEF IInv, Static

\* A finalizer is called once the sweep is over: then all but the userdata that
\* wait for theirs are of the current white.
LEMMA GCTMKeeps == ASSUME IInv, NEW u \in Obj, GCTM(u), Types' PROVE IInv'
<1> DEFINE has == meta[u] # None /\ "gc" \in mode[meta[u]]
<1>0. /\ Types /\ Static /\ Dynamic /\ ~Marking /\ ~Marking' /\ phase = "finalize" /\ phase' = phase
      /\ full' = full /\ L' = L /\ basemt' = basemt /\ current' = current /\ tosweep' = tosweep /\ kind' = kind
      /\ held' = held /\ meta' = meta /\ mode' = mode /\ open' = open /\ finalized' = finalized
      /\ u \in tmudata /\ tmudata' = tmudata \ {u} /\ full = "no"
  BY Parts DEF GCTM, Marking, AtomicPhases
<1>1. /\ color' = Whiten(color, {u})
      /\ stack' = IF has THEN [stack EXCEPT ![L][Top] = u] ELSE stack
      /\ calls' = IF has THEN [calls EXCEPT ![u] = @ + 1] ELSE calls
  BY DEF GCTM
<1>2. /\ kind[u] = "udata" /\ u \in Sure /\ calls[u] = 0 /\ u \in finalized
      /\ L \in Obj /\ kind[L] = "thread" /\ L \in Sure
  BY <1>0, ObjectsAssumption DEF Dynamic, Finalizing, Sure, Allocated, Dead, Static, RootsSound, Roots, Things, Types, TypeOK
<1>3. \A o \in Obj : color'[o] = IF o = u THEN current ELSE color[o]
  BY <1>1 DEF Whiten
<1>4. Allocated' = Allocated /\ Other' = Other /\ Other # current
  BY <1>0 DEF Allocated, Other
<1>5. Sure' = Sure /\ Sure \subseteq Obj
  BY <1>2, <1>3, <1>4 DEF Sure, Dead, Allocated
<1>6. \A o \in Obj, s \in Places :
        stack'[o][s] = stack[o][s] \/ (o = L /\ s = Top /\ stack'[o][s] = u)
  <2>1. TypeOK /\ Top \in Places /\ u \in Obj \union {None}
    BY <1>0 DEF Types, Places
  <2>2. CASE ~has
    BY <1>1, <2>2
  <2>3. CASE has
    <3>1. stack' = [stack EXCEPT ![L][Top] = u]
      BY <1>1, <2>3
    <3> HIDE DEF has
    <3>2. \A o \in Obj, p \in Places : stack'[o][p] = IF o = L /\ p = Top THEN u ELSE stack[o][p]
      BY <1>2, <2>1, <3>1, SlotWritten, Zenon
    <3> QED BY <3>2
  <2> QED BY <2>2, <2>3
<1> HIDE DEF has
<1>7. ASSUME NEW o \in Obj, NEW x \in Obj, Arrow(o, x)'
      PROVE  Arrow(o, x) \/ (o = L /\ x = u)
  <2>1. Value(o, x)' => Value(o, x)
    <3>1. CASE open[o] = None
      BY <1>0, <3>1 DEF Value
    <3>2. CASE open[o] # None
      <4>1. open[o][1] \in Obj /\ open[o][2] \in Places /\ open[o][2] # Top
        BY <1>0, <3>2, ObjectsAssumption DEF Types, TypeOK, Places, Top
      <4> QED BY <1>0, <1>6, <3>2, <4>1 DEF Value
    <3> QED BY <3>1, <3>2
  <2>2. CASE kind[o] = "thread" /\ \E s \in Places : x = stack'[o][s]
    BY <1>6, <2>2, <1>7 DEF Arrow
  <2> QED BY <1>0, <1>7, <2>1, <2>2 DEF Arrow
<1>8. Blank'
  <2>1. ASSUME NEW o \in Obj, kind[o] \in {"free", "string"} PROVE \A s \in Places : stack'[o][s] = None
    BY <1>0, <1>2, <1>6, <2>1 DEF Static, Blank
  <2> QED BY <1>0, <2>1 DEF Static, Blank
<1>9. Sound'
  BY <1>0, <1>2, <1>5, <1>7 DEF Static, Sound
<1>10. Shapes'
  BY <1>0, <1>2, <1>5, <1>7 DEF Static, Shapes
<1>11. RootsSound'
  BY <1>0, <1>5 DEF Static, RootsSound, Roots, Things
<1>12. Finalizing'
  <2>1. \A x \in Obj : calls'[x] = calls[x] \/ (x = u /\ calls'[x] = 1)
    BY <1>0, <1>1, <1>2 DEF Types, TypeOK
  <2>2. \A x \in tmudata : x \in Obj
    BY <1>0 DEF Types, TypeOK
  <2> QED BY <1>0, <1>2, <1>3, <1>4, <2>1, <2>2 DEF Dynamic, Finalizing
<1>13. Phases'
  BY <1>0 DEF Dynamic, Phases
<1>14. Colors'
  <2>1. ASSUME NEW o \in Allocated PROVE /\ color'[o] = "black" => kind[o] # "thread" /\ open[o] = None
                                         /\ color'[o] = current \/ Unswept(o) \/ o \in tmudata'
    <3>1. o \in Obj /\ current # "black"
      BY <1>0 DEF Types, TypeOK, Allocated
    <3> QED BY <1>0, <1>3, <2>1, <3>1 DEF Dynamic, Colors
  <2> QED BY <1>0, <1>4, <2>1 DEF Colors, Unswept
<1>15. Lists' /\ Barriers'
  BY <1>0 DEF Lists, Barriers
<1> QED BY <1>8, <1>9, <1>10, <1>11, <1>12, <1>13, <1>14, <1>15, Parts DEF IInv, Static

-----------------------------------------------------------------------------
(* Steps of the program. *)

\* What a step does to the colors, N being the objects it makes or takes back
\* from the dead: nothing, one of the two barriers, or those of N made white.
Recolored(N) ==
  \/ /\ N = {} /\ color' = color /\ gray' = gray /\ grayagain' = grayagain
  \/ /\ N = {} /\ gray' = gray
     /\ \E t \in Allocated : /\ kind[t] = "table" /\ color[t] = "black"
                             /\ color' = [color EXCEPT ![t] = "gray"]
                             /\ grayagain' = grayagain \union {t}
  \/ /\ N = {} /\ phase = "propagate" /\ grayagain' = grayagain
     /\ \E v \in Sure : Mark({v})
  \/ /\ N = {} /\ phase # "propagate" /\ gray' = gray /\ grayagain' = grayagain
     /\ \E o \in Sure : color' = Whiten(color, {o})
  \/ color' = Whiten(color, N) /\ gray' = gray /\ grayagain' = grayagain

Made(N) ==
  /\ N \subseteq Obj
  /\ \A o \in N : (kind[o] = "free" \/ o \in Dead) /\ kind'[o] # "free"
  /\ \A o \in Obj : kind[o] # "free" \/ o \notin N => kind'[o] = kind[o] /\ open'[o] = open[o]

\* What the step leaves of the invariant, whatever it writes.
RecolorFacts(N) ==
  /\ Sure' = Sure \union N
  /\ Finalizing' /\ Phases' /\ Colors' /\ Lists'
  /\ \A x \in Obj \ N : phase = "propagate" /\ ~IsWhite(x) => ~IsWhite(x)'
  /\ \A o \in Sure : phase = "propagate" /\ o \notin tmudata /\ color'[o] = "black" =>
       \A x \in Obj : Arrow(o, x) => ~IsWhite(x)'
  /\ \A o \in N : color'[o] = current

LEMMA RecolorKeeps ==
  ASSUME IInv, Program, Types', NEW N, Made(N), Recolored(N),
         UNCHANGED <<current, weak, ends, phase, full, tosweep>>
  PROVE  RecolorFacts(N)
<1>0. /\ Types /\ Static /\ Dynamic /\ (Marking <=> phase = "propagate")
      /\ (Marking' <=> Marking) /\ current' = current /\ weak' = weak /\ tmudata' = tmudata
      /\ finalized' = finalized /\ calls' = calls /\ phase' = phase /\ full' = full /\ tosweep' = tosweep
  BY Parts DEF Program, Marking, AtomicPhases, Steady, ends
<1>1. /\ N \subseteq Obj
      /\ \A o \in N : (kind[o] = "free" \/ o \in Dead) /\ kind'[o] # "free"
      /\ \A o \in Obj : kind[o] # "free" \/ o \notin N => kind'[o] = kind[o] /\ open'[o] = open[o]
  BY DEF Made
<1>2. Allocated' = Allocated \union N /\ Allocated \subseteq Obj /\ Sure \subseteq Allocated
  BY <1>1 DEF Allocated, Sure
<1>3. Other' = Other /\ Other # current /\ current \in {"white0", "white1"} /\ Other \in {"white0", "white1"}
  BY <1>0 DEF Other, Types, TypeOK
<1>4. \A o \in Obj : o \in Dead <=> o \in Allocated /\ color[o] = Other
  BY <1>2 DEF Dead
<1>5. Marking => Sure = Allocated
  BY <1>0, MarkingSure DEF AllSure, Dynamic
<1>6. \A u \in tmudata : u \in Obj /\ kind[u] = "udata" /\ color[u] \notin {Other, "gray"} /\ u \notin N
  BY <1>0, <1>1, <1>4 DEF Dynamic, Finalizing, Types, TypeOK
\* It is enough to know of the new colors and of the lists.
<1>7. ASSUME \A o \in Obj : (color'[o] = Other <=> color[o] = Other /\ o \notin N)
                            \/ (o \notin Allocated /\ o \notin N),
             \A o \in N : color'[o] = current,
             \A u \in tmudata : color'[u] \notin {Other, "gray"},
             \A o \in Allocated \ N : /\ color'[o] = "black" => kind[o] # "thread" /\ open[o] = None
                                      /\ \/ Marking \/ color'[o] = current \/ Unswept(o) \/ o \in tmudata,
             Lists',
             \A x \in Obj \ N : phase = "propagate" /\ ~IsWhite(x) => ~IsWhite(x)',
             \A o \in Sure : phase = "propagate" /\ o \notin tmudata /\ color'[o] = "black" =>
                     \A x \in Obj : Arrow(o, x) => ~IsWhite(x)'
      PROVE  RecolorFacts(N)
  <2>1. Sure' = Sure \union N
    <3>1. ASSUME NEW o \in Obj PROVE o \in Sure' <=> o \in Sure \union N
      BY <1>1, <1>2, <1>3, <1>7, <3>1 DEF Sure, Dead
    <3>2. Sure' \subseteq Obj /\ Sure \union N \subseteq Obj
      BY <1>1, <1>2 DEF Sure
    <3> QED BY <3>1, <3>2
  <2>2. Finalizing'
    <3>1. \A u \in finalized : kind'[u] = "udata"
      BY <1>0, <1>1 DEF Dynamic, Finalizing, Types, TypeOK
    <3> QED BY <1>0, <1>3, <1>7, <3>1 DEF Dynamic, Finalizing
  <2>3. Phases'
    <3>1. \A o \in tosweep : o \in Obj /\ kind[o] # "free" /\ kind'[o] = kind[o] /\ open'[o] = open[o]
      BY <1>0, <1>1 DEF Dynamic, Phases, Types, TypeOK
    <3> QED BY <1>0, <3>1 DEF Dynamic, Phases
  <2>4. Colors'
    <3>1. ASSUME NEW o \in Allocated, o \notin N
          PROVE  /\ color'[o] = "black" => kind'[o] # "thread" /\ open'[o] = None
                 /\ color'[o] = current' \/ Unswept(o)' \/ o \in tmudata' \/ Marking'
                 /\ Marking' => color'[o] # Other'
      BY <1>0, <1>1, <1>2, <1>3, <1>7, <3>1 DEF Dynamic, Colors, Unswept
    <3> QED BY <1>0, <1>1, <1>2, <1>3, <1>7, <3>1 DEF Colors
  <2> QED BY <1>7, <2>1, <2>2, <2>3, <2>4 DEF RecolorFacts
<1>8. /\ \A u \in tmudata : color[u] \notin {Other, "gray"}
      /\ \A o \in Allocated : /\ color[o] = "black" => kind[o] # "thread" /\ open[o] = None
                              /\ \/ Marking \/ color[o] = current \/ Unswept(o) \/ o \in tmudata
      /\ \A o \in Sure : phase = "propagate" /\ o \notin tmudata /\ color[o] = "black" =>
                     \A x \in Obj : Arrow(o, x) => ~IsWhite(x) /\ x \notin N
  <2>1. \A o \in Sure, x \in Obj : Arrow(o, x) => x \notin N
    BY <1>0, <1>1, <1>2 DEF Static, Sound, Sure, Allocated
  <2> QED BY <1>0, <1>2, <1>5, <1>6, <2>1 DEF Dynamic, Colors, Barriers
<1>9. Marking => /\ \A o \in gray \union grayagain \union weak : o \in Obj /\ o \notin N /\ kind'[o] = kind[o] /\ open'[o] = open[o]
                 /\ \A o \in N : kind[o] = "free"
  <2>1. Marking => \A o \in N : kind[o] = "free"
    BY <1>1, <1>4, <1>5 DEF Sure
  <2> QED BY <1>0, <1>1, <2>1 DEF Dynamic, Lists, Types, TypeOK
<1>10. ASSUME N = {}, color' = color, gray' = gray, grayagain' = grayagain
       PROVE  RecolorFacts(N)
  <2>1. Lists'
    BY <1>0, <1>1, <1>2, <1>10 DEF Dynamic, Lists, Types, TypeOK
  <2>2. \A x : IsWhite(x)' <=> IsWhite(x)
    BY <1>10 DEF IsWhite
  <2> QED BY <1>7, <1>8, <1>10, <2>1, <2>2, <1>0, <1>2
<1>11. ASSUME N = {}, NEW t \in Allocated, kind[t] = "table", color[t] = "black", gray' = gray,
              color' = [color EXCEPT ![t] = "gray"], grayagain' = grayagain \union {t}
       PROVE  RecolorFacts(N)
  <2>1. /\ color'[t] = "gray" /\ \A o \in Obj \ {t} : color'[o] = color[o]
    BY <1>0, <1>2, <1>11 DEF Types, TypeOK
  <2>2. Lists'
    <3>1. Marking => t \notin gray \union grayagain \union weak
      BY <1>0, <1>11 DEF Dynamic, Lists
    <3> QED BY <1>0, <1>1, <1>2, <1>9, <1>11, <2>1, <3>1 DEF Dynamic, Lists
  <2>3. \A x \in Obj : ~IsWhite(x) => ~IsWhite(x)'
    BY <2>1 DEF IsWhite
  <2>4. \A u \in tmudata : u # t
    BY <1>6, <1>11
  <2>5. color[t] # Other /\ color[t] # current /\ "gray" # Other
    BY <1>3, <1>11
  <2> QED BY <1>2, <1>6, <1>7, <1>8, <1>11, <2>1, <2>2, <2>3, <2>4, <2>5
<1>12. ASSUME N = {}, phase = "propagate", NEW v \in Sure, Mark({v}), grayagain' = grayagain
       PROVE  RecolorFacts(N)
  <2> DEFINE m == Marked({v})
  <2>1. color' = Paint(color, m) /\ gray' = gray \union Listed(m)
    BY <1>12 DEF Mark
  <2>2. MarkSet(m) /\ Marking
    BY <1>0, <1>5, <1>12, MarkedSet
  <2> HIDE DEF m
  <2> DEFINE c == color'
  <2>3. c = Paint(color, m)
    BY <2>1
  <2> HIDE DEF c
  <2>4. /\ \A x \in Obj : ~IsWhite(x) => c[x] = color[x]
        /\ \A o \in Allocated : c[o] # Other
        /\ \A o \in Allocated : c[o] = "black" => kind[o] # "thread" /\ open[o] = None
        /\ \A o \in Allocated : c[o] = "black" /\ (o \in tmudata => phase = "tmu" \/ o \in m) =>
              \A x \in Obj : Arrow(o, x) => c[x] \notin {"white0", "white1"}
        /\ \A u \in tmudata : c[u] # "gray"
        /\ \A o \in Listed(m) : c[o] = "gray" /\ kind[o] \in {"table", "function", "thread"} /\ IsWhite(o)
        /\ \A o \in Allocated : c[o] = "gray" =>
              \/ kind[o] = "string" \/ open[o] # None
              \/ o \in gray \union grayagain \union weak \union Listed(m)
    BY <1>0, <2>2, <2>3, MarkMore
  <2>5. Lists'
    <3>1. \A o \in gray \union grayagain \union weak : o \in Obj /\ ~IsWhite(o) /\ c[o] = "gray"
      BY <1>0, <1>9, <2>2, <2>4 DEF Dynamic, Lists, IsWhite
    <3>2. Listed(m) \subseteq Obj
      BY <2>2, <1>2 DEF MarkSet, Listed
    <3>3. \A o \in gray' \union grayagain \union weak : c[o] = "gray" /\ kind'[o] \in {"table", "function", "thread"}
      BY <1>0, <1>1, <1>9, <1>12, <2>1, <2>2, <2>4, <3>1, <3>2 DEF Dynamic, Lists
    <3>4. gray' \intersect grayagain = {} /\ gray' \intersect weak = {}
          /\ grayagain \intersect weak = {}
      BY <1>0, <2>1, <2>2, <2>4, <3>1 DEF Dynamic, Lists
    <3>5. \A t \in weak : kind'[t] = "table"
      BY <1>0, <1>9, <2>2 DEF Dynamic, Lists
    <3>6. \A o \in Allocated : c[o] = "gray" =>
             kind'[o] = "string" \/ open'[o] # None \/ o \in gray' \union grayagain \union weak
      BY <1>1, <1>2, <1>12, <2>1, <2>4
    <3> QED BY <1>0, <1>2, <1>12, <3>3, <3>4, <3>5, <3>6 DEF Lists, c
  <2>6. \A x \in Obj : ~IsWhite(x) => ~IsWhite(x)'
    BY <2>4 DEF IsWhite, c
  <2>7. \A o \in Sure : o \notin tmudata /\ c[o] = "black" => \A x \in Obj : Arrow(o, x) => ~IsWhite(x)'
    BY <1>2, <2>4 DEF IsWhite, c
  <2>8. \A o \in Allocated : c[o] # Other /\ color[o] # Other
    BY <1>0, <2>2, <2>4 DEF Dynamic, Colors
  <2>9. \A u \in tmudata : u \in Allocated /\ c[u] \notin {Other, "gray"}
    BY <1>6, <2>4 DEF Allocated
  <2>10. \A o \in Obj : (c[o] = Other <=> color[o] = Other /\ o \notin N) \/ (o \notin Allocated /\ o \notin N)
    BY <1>12, <2>8
  <2> QED BY <1>7, <1>12, <2>2, <2>4, <2>5, <2>6, <2>7, <2>9, <2>10 DEF c
<1>13. ASSUME N = {}, phase # "propagate", NEW p \in Sure, color' = Whiten(color, {p}),
              gray' = gray, grayagain' = grayagain
       PROVE  RecolorFacts(N)
  <2>1. color'[p] = current /\ \A o \in Obj \ {p} : color'[o] = color[o]
    BY <1>2, <1>13 DEF Whiten
  <2>2. Lists'
    BY <1>0, <1>13 DEF Lists
  <2>3. color[p] # Other
    BY <1>2, <1>4, <1>13 DEF Sure
  <2>4. current # "black" /\ current # "gray"
    BY <1>3
  <2> QED BY <1>2, <1>3, <1>6, <1>7, <1>8, <1>13, <2>1, <2>2, <2>3, <2>4
<1>14. ASSUME color' = Whiten(color, N), gray' = gray, grayagain' = grayagain
       PROVE  RecolorFacts(N)
  <2>1. \A o \in Obj : color'[o] = IF o \in N THEN current ELSE color[o]
    BY <1>14 DEF Whiten
  <2>2. Lists'
    <3>1. Marking => \A o \in gray \union grayagain \union weak : color'[o] = "gray" /\ kind'[o] \in {"table", "function", "thread"}
      BY <1>0, <1>9, <2>1 DEF Dynamic, Lists
    <3>2. Marking => \A o \in Allocated \union N : color'[o] = "gray" =>
            kind'[o] = "string" \/ open'[o] # None \/ o \in gray \union grayagain \union weak
      BY <1>0, <1>1, <1>2, <1>3, <2>1 DEF Dynamic, Lists
    <3>3. Marking => \A t \in weak : kind'[t] = "table"
      BY <1>0, <1>9 DEF Dynamic, Lists
    <3> QED BY <1>0, <1>2, <1>14, <3>1, <3>2, <3>3 DEF Dynamic, Lists
  <2>3. \A x \in Obj \ N : ~IsWhite(x) => ~IsWhite(x)'
    BY <2>1 DEF IsWhite
  <2>4. \A o \in Sure : phase = "propagate" /\ o \notin tmudata /\ color'[o] = "black" =>
            \A x \in Obj : Arrow(o, x) => ~IsWhite(x)'
    BY <1>1, <1>2, <1>3, <1>8, <2>1, <2>3
  <2>5. \A u \in tmudata : color'[u] \notin {Other, "gray"}
    BY <1>6, <2>1
  <2>6. \A o \in Obj : color'[o] = Other <=> color[o] = Other /\ o \notin N
    BY <1>3, <2>1
  <2> QED BY <1>1, <1>2, <1>7, <1>8, <2>1, <2>2, <2>3, <2>4, <2>5, <2>6
<1> QED BY <1>10, <1>11, <1>12, <1>13, <1>14 DEF Recolored

\* The rest of the invariant, from what the step writes: what an object refers
\* to afterwards it referred to before, or it is Given.
Given(N, o, x) ==
  /\ x \in Sure \union N
  /\ kind'[x] = "upval" => kind'[o] = "function"
  /\ phase = "propagate" /\ color'[o] = "black" => ~IsWhite(x)'

Written(N) ==
  /\ Blank'
  /\ \A o \in Sure \union N :
       /\ kind'[o] = "udata" => held'[o] = {}
       /\ meta'[o] # None => kind'[meta'[o]] = "table"
       /\ \A x \in Obj : Arrow(o, x)' => (o \in Sure /\ Arrow(o, x)) \/ Given(N, o, x)
  /\ L' \in Sure /\ kind[L'] = "thread"
  /\ basemt' # None => basemt' \in Sure /\ kind[basemt'] = "table"

LEMMA StepKeeps ==
  ASSUME IInv, Program, Types', NEW N, Made(N), Recolored(N), Written(N),
         UNCHANGED <<current, weak, ends, phase, full, tosweep>>
  PROVE  IInv'
<1>0. /\ Types /\ Static /\ Dynamic /\ phase' = phase /\ tmudata' = tmudata
      /\ (Marking' => phase = "propagate") /\ Marking' = Marking
  BY Parts DEF Program, Marking, AtomicPhases, Steady, ends
<1>1. RecolorFacts(N)
  BY RecolorKeeps
<1>2. /\ Sure' = Sure \union N /\ \A o \in N : color'[o] = current
      /\ Sure \subseteq Allocated /\ Allocated \subseteq Obj /\ N \subseteq Obj
      /\ \A x \in Sure : x \notin N /\ kind'[x] = kind[x]
  <2>1. \A x \in Sure : x \in Obj /\ kind[x] # "free" /\ x \notin Dead
    BY DEF Sure, Allocated
  <2> QED BY <1>1, <2>1 DEF RecolorFacts, Made, Sure, Allocated
<1>3. \A o \in Sure, x \in Obj : Arrow(o, x) => x \in Sure
  BY <1>0 DEF Static, Sound
<1>4. Sound'
  BY <1>2, <1>3 DEF Sound, Written, Given
<1>5. Shapes'
  <2> SUFFICES ASSUME NEW o \in Sure \union N, kind'[o] # "function", NEW x \in Obj, Arrow(o, x)'
               PROVE  kind'[x] # "upval"
    BY <1>2 DEF Shapes, Written
  <2>1. CASE Given(N, o, x)
    BY <2>1 DEF Given
  <2>2. CASE o \in Sure /\ Arrow(o, x)
    BY <1>0, <1>2, <1>3, <2>2 DEF Static, Shapes
  <2> QED BY <2>1, <2>2 DEF Written
<1>6. RootsSound'
  <2>1. MainThread \in Sure /\ Registry \in Sure /\ kind[MainThread] = "thread" /\ kind[Registry] = "table"
    BY <1>0, ObjectsAssumption DEF Static, RootsSound, Roots, Things
  <2>2. Roots' \subseteq Sure'
    BY <1>2, <2>1 DEF Written, Roots, Things
  <2> QED BY <1>2, <2>1, <2>2 DEF Written, RootsSound
<1>7. Barriers'
  <2> SUFFICES ASSUME Marking' PROVE Barriers'
    BY DEF Barriers
  <2>0. phase = "propagate" /\ Marking /\ Marking'
    BY <1>0
  <2>1. Sure = Allocated /\ Allocated' = Sure \union N
    <3>1. Allocated' = Allocated \union N
      BY DEF Made, Allocated
    <3> QED BY <1>0, <2>0, <3>1, MarkingSure DEF AllSure, Dynamic
  <2>2. ~IsWhite(MainThread)' /\ ~IsWhite(Registry)'
    <3>1. MainThread \in Sure /\ Registry \in Sure
      BY <1>0, ObjectsAssumption DEF Static, RootsSound, Roots, Things
    <3> QED BY <1>0, <1>1, <1>2, <2>0, <3>1 DEF Dynamic, Barriers, RecolorFacts
  <2>3. ASSUME NEW o \in Sure \union N, color'[o] = "black", o \notin tmudata, NEW x \in Obj, Arrow(o, x)'
        PROVE  ~IsWhite(x)'
    <3>1. CASE Given(N, o, x)
      BY <2>0, <2>3, <3>1 DEF Given
    <3>2. CASE o \in Sure /\ Arrow(o, x)
      BY <1>1, <2>0, <2>3, <3>2 DEF RecolorFacts
    <3> QED BY <2>3, <3>1, <3>2 DEF Written
  <2> QED BY <1>0, <2>0, <2>1, <2>2, <2>3 DEF Barriers
<1>8. Blank' /\ Finalizing' /\ Phases' /\ Colors' /\ Lists'
  BY <1>1 DEF RecolorFacts, Written
<1> QED BY <1>4, <1>5, <1>6, <1>7, <1>8 DEF IInv

LEMMA Operands ==
  ASSUME IInv
  PROVE  /\ Types /\ TypeOK /\ Blank /\ Sure \subseteq Obj /\ None \notin Sure
         /\ \A o \in Sure : kind[o] # "free"
         /\ Reach \subseteq Sure
         /\ \A v \in Usable : v = None \/ (v \in Sure /\ kind[v] # "upval")
         /\ L \in Sure /\ kind[L] = "thread"
         /\ basemt # None => basemt \in Sure /\ kind[basemt] = "table"
         /\ \A o \in Sure, x \in Obj : Arrow(o, x) =>
              x \in Sure /\ (kind[o] # "function" => kind[x] # "upval")
         /\ \A o \in Sure : /\ kind[o] = "udata" => held[o] = {}
                            /\ meta[o] # None => kind[meta[o]] = "table" /\ meta[o] \in Sure
                            /\ color[o] = "black" => kind[o] # "thread" /\ open[o] = None
<1>1. Types /\ Static /\ Dynamic
  BY Parts
<1>2. Sure \subseteq Obj /\ None \notin Sure /\ \A o \in Sure : kind[o] # "free" /\ o \in Allocated
  BY ObjectsAssumption DEF Sure, Allocated
<1>3. Reach \subseteq Sure
  BY <1>1, InUse DEF Static, Dynamic
<1>4. L \in Sure /\ (basemt # None => basemt \in Sure)
  BY <1>1, ObjectsAssumption DEF Static, RootsSound, Roots, Things, Types, TypeOK
<1>5. \A o \in Sure : meta[o] # None => Arrow(o, meta[o]) /\ meta[o] \in Obj
  BY <1>1, <1>2 DEF Arrow, Types, TypeOK
<1> QED BY <1>1, <1>2, <1>3, <1>4, <1>5 DEF Static, Sound, Shapes, RootsSound, Dynamic, Colors, Usable, Types

\* A value written into a slot of a stack.
LEMMA SlotArrows ==
  ASSUME TypeOK, NEW th \in Obj, NEW s \in Places, NEW v \in Obj \union {None},
         stack' = [stack EXCEPT ![th][s] = v],
         NEW o \in Obj, kind'[o] = kind[o], held'[o] = held[o], meta'[o] = meta[o], open'[o] = open[o],
         NEW x \in Obj, Arrow(o, x)'
  PROVE  Arrow(o, x) \/ (x = v /\ (o = th \/ open[o] # None) /\ kind[o] \in {"thread", "upval"})
<1>1. \A p \in Obj, q \in Places : stack'[p][q] = IF p = th /\ q = s THEN v ELSE stack[p][q]
  BY SlotWritten, Zenon
<1>2. CASE kind[o] = "upval" /\ Value(o, x)'
  <2>1. CASE open[o] = None
    BY <1>2, <2>1 DEF Value, Arrow
  <2>2. CASE open[o] # None
    <3>1. open[o][1] \in Obj /\ open[o][2] \in Places
      BY <2>2 DEF TypeOK, Places
    <3> QED BY <1>1, <1>2, <2>2, <3>1 DEF Value, Arrow
  <2> QED BY <2>1, <2>2
<1>3. CASE kind[o] = "thread" /\ \E q \in Places : x = stack'[o][q]
  BY <1>1, <1>3 DEF Arrow
<1> QED BY <1>2, <1>3 DEF Arrow

\* A step that writes v into a slot of a stack and nothing else.
LEMMA StackKeeps ==
  ASSUME IInv, Program, Types', NEW th \in Obj, kind[th] = "thread", NEW s \in Places,
         NEW v, v = None \/ (v \in Sure /\ kind[v] # "upval"),
         stack' = [stack EXCEPT ![th][s] = v],
         UNCHANGED <<kind, held, meta, open, L, basemt, color, current, lists, ends, phase, full, tosweep>>
  PROVE  IInv'
<1>1. Made({}) /\ Recolored({})
  BY DEF Made, Recolored, lists
<1>2. v \in Obj \union {None} /\ TypeOK
  BY Operands
<1>3. Blank'
  <2>1. \A p \in Obj, q \in Places : stack'[p][q] = IF p = th /\ q = s THEN v ELSE stack[p][q]
    BY <1>2, SlotWritten, Zenon
  <2> QED BY <2>1, Operands DEF Blank
<1>4. ASSUME NEW o \in Sure, NEW x \in Obj, Arrow(o, x)'
      PROVE  Arrow(o, x) \/ Given({}, o, x)
  <2>1. o \in Obj /\ kind'[o] = kind[o] /\ held'[o] = held[o] /\ meta'[o] = meta[o] /\ open'[o] = open[o]
    BY Operands
  <2>2. Arrow(o, x) \/ (x = v /\ (o = th \/ open[o] # None) /\ kind[o] \in {"thread", "upval"})
    BY <1>2, <1>4, <2>1, SlotArrows, Zenon
  <2>3. CASE x = v /\ (o = th \/ open[o] # None)
    BY <2>3, ObjectsAssumption, Operands DEF Given
  <2> QED BY <2>2, <2>3
<1>5. Written({})
  BY <1>3, <1>4, Operands DEF Written
<1> QED BY <1>1, <1>5, StepKeeps DEF lists

LEMMA SetStackKeeps ==
  ASSUME IInv, Program, Types', NEW s \in Slots, NEW v \in Usable, SetStack(s, v)
  PROVE  IInv'
<1>1. L \in Obj /\ kind[L] = "thread" /\ s \in Places /\ (v = None \/ (v \in Sure /\ kind[v] # "upval"))
  BY Operands DEF Places
<1>2. stack' = [stack EXCEPT ![L][s] = v]
  BY DEF SetStack
<1>3. UNCHANGED <<kind, held, meta, open, L, basemt, color, current, lists, ends, phase, full, tosweep>>
  BY DEF SetStack
<1> QED BY <1>1, <1>2, <1>3, StackKeeps, Zenon

LEMMA FinalizerReturnsKeeps ==
  ASSUME IInv, Program, Types', FinalizerReturns
  PROVE  IInv'
<1>1. L \in Obj /\ kind[L] = "thread" /\ Top \in Places
  BY Operands DEF Places
<1>2. stack' = [stack EXCEPT ![L][Top] = None]
  BY DEF FinalizerReturns
<1>3. UNCHANGED <<kind, held, meta, open, L, basemt, color, current, lists, ends, phase, full, tosweep>>
  BY DEF FinalizerReturns
<1>4. None = None \/ (None \in Sure /\ kind[None] # "upval")
  OBVIOUS
<1> QED BY <1>1, <1>2, <1>3, <1>4, StackKeeps, Zenon

LEMMA CreateKeeps ==
  ASSUME IInv, Program, Types', NEW s \in Slots, NEW o \in Obj, NEW k \in ObjectKinds, Create(o, k, s)
  PROVE  IInv'
<1>0. /\ kind[o] = "free" /\ k \in {"string", "udata", "table", "function", "thread"}
      /\ kind'[o] = k /\ \A p \in Obj \ {o} : kind'[p] = kind[p] /\ meta'[p] = meta[p]
      /\ meta'[o] = IF k = "thread" THEN meta[L] ELSE None
      /\ color' = [color EXCEPT ![o] = current] /\ stack' = [stack EXCEPT ![L][s] = o]
      /\ held' = held /\ open' = open /\ gray' = gray /\ grayagain' = grayagain /\ L' = L /\ basemt' = basemt
  BY Operands DEF Create, ObjectKinds, lists, TypeOK
<1>1. /\ L \in Obj /\ L # o /\ s \in Places /\ TypeOK /\ o \in Obj \union {None}
      /\ held[o] = {} /\ open[o] = None /\ \A q \in Places : stack[o][q] = None
  BY <1>0, Operands DEF Places, Blank
<1>2. Made({o})
  BY <1>0 DEF Made
<1>3. color' = Whiten(color, {o}) /\ color'[o] = current /\ \A p \in Obj \ {o} : color'[p] = color[p]
  BY <1>0, <1>1 DEF Whiten, TypeOK
<1>4. Recolored({o})
  BY <1>0, <1>3 DEF Recolored
<1>5. \A p \in Obj, q \in Places : stack'[p][q] = IF p = L /\ q = s THEN o ELSE stack[p][q]
  BY <1>0, <1>1, SlotWritten, Zenon
<1>6. Blank'
  <2>1. \A p \in Obj : kind'[p] \in {"free", "string"} => p # L
    BY <1>0, <1>1, Operands
  <2>2. \A p \in Obj : open[p] # None => kind[p] = "upval" /\ open[p][1] \in Obj /\ kind[open[p][1]] = "thread"
    BY <1>1, Operands DEF Blank, TypeOK
  <2> QED BY <1>0, <1>1, <1>5, <2>1, <2>2, Operands DEF Blank
<1>7. ASSUME NEW p \in Sure, NEW x \in Obj, Arrow(p, x)'
      PROVE  Arrow(p, x) \/ Given({o}, p, x)
  <2>1. p \in Obj /\ p # o /\ kind'[p] = kind[p] /\ held'[p] = held[p] /\ meta'[p] = meta[p] /\ open'[p] = open[p]
    BY <1>0, Operands
  <2>2. Arrow(p, x) \/ (x = o /\ (p = L \/ open[p] # None) /\ kind[p] \in {"thread", "upval"})
    BY <1>0, <1>1, <1>7, <2>1, SlotArrows, Zenon
  <2>3. CASE x = o /\ (p = L \/ open[p] # None)
    <3>1. color'[p] # "black"
      BY <1>3, <2>1, <2>3, Operands
    <3> QED BY <1>0, <2>3, <3>1 DEF Given
  <2> QED BY <2>2, <2>3
<1>8. ASSUME NEW x \in Obj, Arrow(o, x)'
      PROVE  Given({o}, o, x)
  <2>1. x = meta'[o] /\ x # None
    BY <1>0, <1>1, <1>5, <1>8 DEF Arrow, Value
  <2>2. x \in Sure /\ kind[x] = "table"
    BY <1>0, <2>1, Operands
  <2>3. color'[o] # "black" /\ kind'[x] = "table"
    BY <1>0, <1>1, <1>3, <2>2 DEF TypeOK
  <2> QED BY <2>2, <2>3 DEF Given
<1>9. \A p \in Sure \union {o} : meta'[p] # None => kind'[meta'[p]] = "table"
  BY <1>0, Operands
<1>10. Written({o})
  <2>1. \A p \in Sure \union {o} : kind'[p] = "udata" => held'[p] = {}
    BY <1>0, <1>1, Operands
  <2>2. L' \in Sure /\ kind[L'] = "thread" /\ (basemt' # None => basemt' \in Sure /\ kind[basemt'] = "table")
    BY <1>0, Operands
  <2> QED BY <1>6, <1>7, <1>8, <1>9, <2>1, <2>2 DEF Written
<1> QED BY <1>2, <1>4, <1>10, StepKeeps DEF Create, lists

LEMMA InternKeeps ==
  ASSUME IInv, Program, Types', NEW s \in Slots, NEW o \in Obj, Intern(o, s)
  PROVE  IInv'
<1> DEFINE N == IF o \in Dead THEN {o} ELSE {}
<1>0. /\ kind[o] = "string" /\ kind' = kind /\ held' = held /\ meta' = meta /\ open' = open
      /\ stack' = [stack EXCEPT ![L][s] = o] /\ gray' = gray /\ grayagain' = grayagain
      /\ color' = (IF o \in Dead THEN Whiten(color, {o}) ELSE color) /\ L' = L /\ basemt' = basemt
  BY DEF Intern, lists
<1>1. /\ L \in Obj /\ L # o /\ s \in Places /\ TypeOK /\ o \in Obj \union {None}
      /\ held[o] = {} /\ open[o] = None /\ meta[o] = None
  BY <1>0, Operands DEF Places, Blank
<1>2. Made(N) /\ Recolored(N)
  BY <1>0 DEF Made, Recolored
<1>3. o \in Sure \union N /\ \A p \in Sure : p \notin N /\ p \in Obj
  BY <1>0 DEF Sure, Allocated
<1>4. \A p \in Sure : color'[p] = color[p]
  BY <1>0, <1>3 DEF Whiten, Sure
<1>5. N \subseteq {o}
  OBVIOUS
<1> HIDE DEF N
<1>6. Blank'
  <2>1. \A p \in Obj, q \in Places : stack'[p][q] = IF p = L /\ q = s THEN o ELSE stack[p][q]
    BY <1>0, <1>1, SlotWritten, Zenon
  <2> QED BY <1>0, <2>1, Operands DEF Blank
<1>7. ASSUME NEW p \in Sure, NEW x \in Obj, Arrow(p, x)'
      PROVE  Arrow(p, x) \/ Given(N, p, x)
  <2>1. p \in Obj /\ kind'[p] = kind[p] /\ held'[p] = held[p] /\ meta'[p] = meta[p] /\ open'[p] = open[p]
    BY <1>0, Operands
  <2>2. Arrow(p, x) \/ (x = o /\ (p = L \/ open[p] # None) /\ kind[p] \in {"thread", "upval"})
    BY <1>0, <1>1, <1>7, <2>1, SlotArrows, Zenon
  <2>3. CASE x = o /\ (p = L \/ open[p] # None)
    <3>1. color'[p] # "black"
      BY <1>4, <2>3, Operands
    <3> QED BY <1>0, <1>3, <2>3, <3>1 DEF Given
  <2> QED BY <2>2, <2>3
<1>8. \A x \in Obj : ~Arrow(o, x)'
  BY <1>0, <1>1 DEF Arrow
<1>9. Written(N)
  BY <1>0, <1>1, <1>5, <1>6, <1>7, <1>8, Operands DEF Written
<1> QED BY <1>2, <1>9, StepKeeps DEF Intern, lists

LEMMA StoreKeeps ==
  ASSUME IInv, Program, Types', NEW t \in Reach, kind[t] = "table",
         NEW k \in Usable, NEW v \in Usable, Store(t, k, v), v # None
  PROVE  IInv'
<1> DEFINE S == IF \E e \in held[t] : e[1] = k THEN {v} ELSE {k, v}
<1>0. /\ kind' = kind /\ meta' = meta /\ open' = open /\ stack' = stack /\ gray' = gray
      /\ L' = L /\ basemt' = basemt /\ BarrierBack(t, S)
      /\ \A o \in Obj \ {t} : held'[o] = held[o]
      /\ \A e \in held'[t] : e \in held[t] \/ e = <<k, v>>
  BY Operands DEF Store, TypeOK
<1>1. t \in Sure /\ t \in Obj /\ TypeOK /\ t \in Allocated
  BY Operands DEF Allocated
<1>2. Made({}) /\ Recolored({})
  <2>1. Made({})
    BY <1>0 DEF Made
  <2>2. CASE color[t] = "black" /\ S \intersect White # {}
    <3>1. color' = [color EXCEPT ![t] = "gray"] /\ grayagain' = grayagain \union {t}
      BY <1>0, <2>2 DEF BarrierBack
    <3> QED BY <1>0, <1>1, <2>1, <2>2, <3>1 DEF Recolored
  <2>3. CASE ~(color[t] = "black" /\ S \intersect White # {})
    <3>1. color' = color /\ grayagain' = grayagain
      BY <1>0, <2>3 DEF BarrierBack
    <3> QED BY <1>0, <2>1, <3>1 DEF Recolored
  <2> QED BY <2>2, <2>3
<1>3. color'[t] = "black" => \A x \in S : x \in Obj => ~IsWhite(x)'
  <2>1. /\ \A o \in Obj \ {t} : color'[o] = color[o]
        /\ IF color[t] = "black" /\ \E x \in S : x \in White THEN color'[t] = "gray" ELSE color'[t] = color[t]
    BY <1>0, <1>1, BarrierBackFacts, Zenon
  <2>2. \A x \in Obj : x \in White <=> IsWhite(x)
    BY DEF White, IsWhite
  <2> QED BY <2>1, <2>2 DEF IsWhite
<1>4. v \in S /\ (k \in S \/ \E e \in held[t] : e[1] = k)
  OBVIOUS
<1> HIDE DEF S
<1>5. ASSUME NEW o \in Sure, NEW x \in Obj, Arrow(o, x)'
      PROVE  Arrow(o, x) \/ Given({}, o, x)
  <2>1. CASE o # t
    BY <1>0, <1>5, <2>1, Operands DEF Arrow, Value
  <2>2. CASE o = t /\ ~Arrow(t, x)
    <3>1. PICK e \in held'[t] : x = e[1] \/ x = e[2]
      BY <1>0, <1>1, <1>5, <2>2 DEF Arrow
    <3>2. x = k \/ x = v
      BY <1>0, <1>1, <1>5, <2>2, <3>1, ObjectsAssumption DEF Arrow
    <3>3. x \in S
      BY <1>1, <1>4, <2>2, <3>2, ObjectsAssumption DEF Arrow
    <3>4. x \in Sure /\ kind[x] # "upval"
      BY <3>2, ObjectsAssumption, Operands
    <3> QED BY <1>0, <1>3, <2>2, <3>3, <3>4 DEF Given
  <2> QED BY <2>1, <2>2
<1>6. Written({})
  <2>1. Blank'
    BY <1>0, <1>1, Operands DEF Blank
  <2>2. \A o \in Sure : kind[o] = "udata" => held'[o] = {}
    BY <1>0, <1>1, Operands
  <2> QED BY <1>0, <1>5, <2>1, <2>2, Operands DEF Written
<1> QED BY <1>2, <1>6, StepKeeps DEF Store, lists

\* Steps that leave the colors as they are and add no reference.
LEMMA QuietKeeps ==
  ASSUME IInv, Program, Types', UNCHANGED <<kind, meta, stack, open, color, lists, current, ends, phase, full, tosweep>>,
         \A o \in Obj : held'[o] \subseteq held[o],
         L' \in Sure, kind[L'] = "thread", basemt' # None => basemt' \in Sure /\ kind[basemt'] = "table"
  PROVE  IInv'
<1>1. Made({}) /\ Recolored({})
  BY DEF Made, Recolored, lists
<1>2. \A o \in Sure, x \in Obj : Arrow(o, x)' => Arrow(o, x)
  BY Operands DEF Arrow, Value
<1>3. Blank'
  BY Operands DEF Blank
<1>4. \A o \in Sure : kind[o] = "udata" => held'[o] = {}
  BY Operands
<1>5. Written({})
  BY <1>2, <1>3, <1>4, Operands DEF Written
<1> QED BY <1>1, <1>5, StepKeeps DEF lists

LEMMA QuietStepsKeep ==
  ASSUME IInv, Program, Types',
         \/ \E t \in Reach : kind[t] = "table" /\ \E e \in held[t] : Drop(t, e)
         \/ \E t \in Reach \union {None} : (t # None => kind[t] = "table") /\ SetBaseMeta(t)
         \/ \E t \in Reach, m \in prog.modes : kind[t] = "table" /\ SetMode(t, m)
         \/ \E th \in Reach : Resume(th)
         \/ Yield
  PROVE  IInv'
<1>1. ASSUME NEW t \in Reach, NEW e \in held[t], Drop(t, e)
      PROVE  IInv'
  <2>1. \A o \in Obj : held'[o] \subseteq held[o]
    BY <1>1, Operands DEF Drop, TypeOK
  <2> QED BY <1>1, <2>1, QuietKeeps, Operands DEF Drop
<1>2. ASSUME NEW t \in Reach \union {None}, t # None => kind[t] = "table", SetBaseMeta(t)
      PROVE  IInv'
  BY <1>2, QuietKeeps, Operands DEF SetBaseMeta, heap
<1>3. ASSUME NEW t \in Reach, NEW m \in prog.modes, SetMode(t, m)
      PROVE  IInv'
  BY <1>3, QuietKeeps, Operands DEF SetMode
<1>4. ASSUME NEW th \in Reach, Resume(th)
      PROVE  IInv'
  BY <1>4, QuietKeeps, Operands DEF Resume, heap
<1>5. CASE Yield
  <2>1. MainThread \in Sure /\ kind[MainThread] = "thread"
    BY ObjectsAssumption DEF IInv, RootsSound, Roots, Things
  <2> QED BY <1>5, <2>1, QuietKeeps, Operands DEF Yield, heap
<1> QED BY <1>1, <1>2, <1>3, <1>4, <1>5

\* The barrier for one value.
LEMMA ForwardRecolors ==
  ASSUME IInv, NEW o \in Sure, NEW v, v = None \/ v \in Sure, BarrierForward(o, v), grayagain' = grayagain
  PROVE  /\ Recolored({})
         /\ v # None /\ phase = "propagate" /\ color'[o] = "black" => ~IsWhite(v)'
<1>0. o \in Obj /\ TypeOK /\ \A x \in Obj : x \in White <=> IsWhite(x)
  BY Operands DEF White, IsWhite
<1>1. v # None => v \in Obj /\ (v \in White <=> IsWhite(v))
  BY <1>0, Operands
<1>2. CASE ~(color[o] = "black" /\ v \in White) /\ color' = color /\ gray' = gray
  BY <1>1, <1>2 DEF Recolored, IsWhite
<1>3. CASE color[o] = "black" /\ v \in White /\ phase = "propagate" /\ Mark({v})
  <2>1. v \in Sure /\ IsWhite(v)
    BY <1>1, <1>3, ObjectsAssumption DEF White
  <2>2. color' = Paint(color, Marked({v}))
    BY <1>3 DEF Mark
  <2>3. v \in Marked({v})
    BY <1>3 DEF Marked
  <2>4. ~IsWhite(v)'
    BY <1>0, <1>1, <2>1, <2>2, <2>3, PaintTyped, ObjectsAssumption, Operands DEF IsWhite
  <2> QED BY <1>3, <2>1, <2>4 DEF Recolored
<1>4. CASE color[o] = "black" /\ v \in White /\ phase # "propagate" /\ color' = Whiten(color, {o}) /\ gray' = gray
  BY <1>4 DEF Recolored
<1> QED BY <1>0, <1>2, <1>3, <1>4, BarrierForwardFacts

LEMMA SetMetaKeeps ==
  ASSUME IInv, Program, Types', NEW o \in Usable \ {None}, NEW t \in Reach \union {None},
         t # None => kind[t] = "table", SetMeta(o, t)
  PROVE  IInv'
<1>0. /\ kind' = kind /\ held' = held /\ open' = open /\ stack' = stack
      /\ L' = L /\ basemt' = basemt /\ meta' = [meta EXCEPT ![o] = t]
      /\ kind[o] \in {"table", "udata", "function", "thread"}
  BY DEF SetMeta
<1>1. o \in Sure /\ o \in Obj /\ TypeOK /\ (t = None \/ t \in Sure) /\ o \in Allocated
  BY Operands DEF Allocated
<1>2. Recolored({}) /\ (t # None /\ phase = "propagate" /\ color'[o] = "black" => ~IsWhite(t)')
  <2>1. CASE kind[o] # "table"
    <3>1. BarrierForward(o, t) /\ grayagain' = grayagain
      BY <2>1 DEF SetMeta
    <3> QED BY <1>1, <3>1, ForwardRecolors
  <2>2. CASE kind[o] = "table"
    <3>1. BarrierBack(o, {t}) /\ gray' = gray
      BY <2>2 DEF SetMeta
    <3>2. CASE color[o] = "black" /\ {t} \intersect White # {}
      <4>1. color' = [color EXCEPT ![o] = "gray"] /\ grayagain' = grayagain \union {o}
        BY <3>1, <3>2 DEF BarrierBack
      <4>2. color'[o] = "gray"
        BY <1>1, <4>1 DEF TypeOK
      <4> QED BY <1>1, <2>2, <3>1, <3>2, <4>1, <4>2 DEF Recolored
    <3>3. CASE ~(color[o] = "black" /\ {t} \intersect White # {})
      <4>1. color' = color /\ grayagain' = grayagain
        BY <3>1, <3>3 DEF BarrierBack
      <4>2. t # None /\ color[o] = "black" => ~IsWhite(t)
        BY <1>1, <3>3, Operands DEF White, IsWhite
      <4> QED BY <3>1, <4>1, <4>2 DEF Recolored, IsWhite
    <3> QED BY <3>2, <3>3
  <2> QED BY <2>1, <2>2
<1>3. Made({})
  BY <1>0 DEF Made
<1>4. meta'[o] = t /\ \A p \in Obj \ {o} : meta'[p] = meta[p]
  BY <1>0, <1>1 DEF TypeOK
<1>5. ASSUME NEW p \in Sure, NEW x \in Obj, Arrow(p, x)'
      PROVE  Arrow(p, x) \/ Given({}, p, x)
  <2>1. Arrow(p, x) \/ (p = o /\ x = t)
    BY <1>0, <1>4, <1>5, Operands DEF Arrow, Value
  <2>2. CASE p = o /\ x = t
    BY <1>0, <1>1, <1>2, <2>2, ObjectsAssumption DEF Given
  <2> QED BY <2>1, <2>2
<1>6. Written({})
  <2>1. Blank'
    BY <1>0, <1>4, Operands DEF Blank
  <2>2. \A p \in Sure : meta'[p] # None => kind[meta'[p]] = "table"
    BY <1>4, Operands
  <2> QED BY <1>0, <1>5, <2>1, <2>2, Operands DEF Written
<1> QED BY <1>2, <1>3, <1>6, StepKeeps DEF SetMeta

LEMMA SetUpvalKeeps ==
  ASSUME IInv, Program, Types', NEW u \in Reach, NEW v \in Usable, SetUpval(u, v)
  PROVE  IInv'
<1>0. /\ kind' = kind /\ meta' = meta /\ open' = open /\ L' = L /\ basemt' = basemt
      /\ kind[u] = "upval" /\ WriteUpval(u, v) /\ BarrierForward(u, v) /\ grayagain' = grayagain
  BY DEF SetUpval
<1>1. u \in Sure /\ u \in Obj /\ TypeOK /\ v \in Obj \union {None} /\ (v = None \/ (v \in Sure /\ kind[v] # "upval"))
  BY Operands
<1>2. Made({}) /\ Recolored({}) /\ (v # None /\ phase = "propagate" /\ color'[u] = "black" => ~IsWhite(v)')
  BY <1>0, <1>1, ForwardRecolors DEF Made
<1>3. CASE open[u] = None
  <2>1. stack' = stack /\ held' = [held EXCEPT ![u] = {<<None, x>> : x \in Things({v})}]
    BY <1>0, <1>3 DEF WriteUpval
  <2>2. /\ \A o \in Obj \ {u} : held'[o] = held[o]
        /\ \A e \in held'[u] : e[2] = v
    BY <1>1, <2>1 DEF TypeOK, Things
  <2>3. ASSUME NEW o \in Sure, NEW x \in Obj, Arrow(o, x)'
        PROVE  Arrow(o, x) \/ Given({}, o, x)
    <3>1. Arrow(o, x) \/ (o = u /\ x = v)
      BY <1>0, <1>3, <2>1, <2>2, <2>3, Operands DEF Arrow, Value
    <3>2. CASE o = u /\ x = v
      BY <1>0, <1>1, <1>2, <3>2, ObjectsAssumption DEF Given
    <3> QED BY <3>1, <3>2
  <2>4. Blank'
    BY <1>0, <1>1, <2>1, <2>2, Operands DEF Blank
  <2>5. \A o \in Sure : kind[o] = "udata" => held'[o] = {}
    BY <1>0, <2>2, Operands
  <2>6. Written({})
    BY <1>0, <2>3, <2>4, <2>5, Operands DEF Written
  <2> QED BY <1>2, <2>6, StepKeeps DEF SetUpval
<1>4. CASE open[u] # None
  <2>1. PICK th \in Obj, s \in Places : th = open[u][1] /\ s = open[u][2]
    BY <1>1, <1>4 DEF TypeOK, Places
  <2>2. stack' = [stack EXCEPT ![th][s] = v] /\ held' = held
    BY <1>0, <1>4, <2>1 DEF WriteUpval
  <2>3. kind[th] = "thread"
    BY <1>1, <1>4, <2>1, Operands DEF Blank
  <2>4. color[u] # "black"
    BY <1>1, <1>4, Operands
  <2>5. color' = color /\ gray' = gray
    BY <1>0, <2>4 DEF BarrierForward
  <2>6. UNCHANGED <<kind, held, meta, open, L, basemt, color, current, lists, ends, phase, full, tosweep>>
    BY <2>2, <2>5 DEF SetUpval, lists
  <2> QED BY <1>1, <2>2, <2>3, <2>6, StackKeeps, Zenon
<1> QED BY <1>3, <1>4

LEMMA CaptureKeeps ==
  ASSUME IInv, Program, Types', NEW f \in Obj, NEW u \in Obj, NEW s \in Slots, NEW into \in Slots,
         Capture(f, u, s, into)
  PROVE  IInv'
<1> DEFINE N == {f} \union (IF kind[u] = "free" \/ u \in Dead THEN {u} ELSE {})
<1>0. /\ kind[f] = "free" /\ f # u /\ (kind[u] = "free" \/ (kind[u] = "upval" /\ open[u] = <<L, s>>))
      /\ color' = Whiten(color, N) /\ stack' = [stack EXCEPT ![L][into] = f]
      /\ gray' = gray /\ grayagain' = grayagain /\ L' = L /\ basemt' = basemt
  BY DEF Capture, OpenUpvals, Of, lists
<1>1. /\ L \in Obj /\ kind[L] = "thread" /\ L # f /\ L # u /\ into \in Places /\ s \in Places
      /\ TypeOK /\ f \in Obj \union {None} /\ s # Top /\ <<L, s>> # None
  BY <1>0, ObjectsAssumption, Operands DEF Places, Top
<1>2. /\ kind'[f] = "function" /\ kind'[u] = "upval" /\ \A o \in Obj \ {f, u} : kind'[o] = kind[o]
      /\ open'[u] = <<L, s>> /\ \A o \in Obj \ {u} : open'[o] = open[o]
      /\ held'[f] = {<<None, u>>} /\ \A o \in Obj \ {f} : held'[o] = held[o]
      /\ meta'[f] = meta[L] /\ \A o \in Obj \ {f} : meta'[o] = meta[o]
  BY <1>0, <1>1 DEF Capture, TypeOK
<1>3. \A p \in Obj, q \in Places : stack'[p][q] = IF p = L /\ q = into THEN f ELSE stack[p][q]
  BY <1>0, <1>1, SlotWritten, Zenon
<1>4. /\ N \subseteq {f, u} /\ f \in N /\ (u \in N <=> kind[u] = "free" \/ u \in Dead)
      /\ \A p \in Sure : p \notin N /\ p \in Obj
      /\ u \in Sure \union N /\ (u \notin N => kind[u] = "upval")
  BY <1>0 DEF Sure, Allocated, Dead
<1>5. Recolored(N)
  BY <1>0 DEF Recolored
<1> HIDE DEF N
<1>6. \A o \in Obj : color'[o] = IF o \in N THEN current ELSE color[o]
  BY <1>0 DEF Whiten
<1>7. current # "black"
  BY <1>1 DEF TypeOK
<1>8. Made(N)
  <2>1. \A o \in N : (kind[o] = "free" \/ o \in Dead) /\ kind'[o] # "free"
    BY <1>0, <1>2, <1>4
  <2>2. \A o \in Obj : kind[o] # "free" \/ o \notin N => kind'[o] = kind[o] /\ open'[o] = open[o]
    BY <1>0, <1>2, <1>4
  <2> QED BY <1>4, <2>1, <2>2 DEF Made
<1>9. Blank'
  <2>1. \A o \in Obj : kind'[o] \in {"free", "string"} => o # L /\ o # f /\ o # u
    BY <1>0, <1>1, <1>2
  <2>2. \A o \in Obj : open[o] # None => kind[o] = "upval" /\ open[o][1] \in Obj /\ kind[open[o][1]] = "thread"
    BY <1>1, Operands DEF Blank, TypeOK
  <2>3. meta[u] = None
    BY <1>0, Operands DEF Blank
  <2>4. \A o \in Obj : kind'[o] \in {"free", "string"} =>
          held'[o] = {} /\ open'[o] = None /\ \A q \in Places : stack'[o][q] = None
    BY <1>2, <1>3, <2>1, Operands DEF Blank
  <2>5. \A o \in Obj : kind'[o] \in {"free", "string", "upval"} => meta'[o] = None
    <3>1. ASSUME NEW o \in Obj, kind'[o] \in {"free", "string", "upval"} PROVE meta'[o] = None
      <4>1. o # f
        BY <1>2, <3>1
      <4>2. CASE o = u
        BY <1>2, <2>3, <4>1, <4>2
      <4>3. CASE o # u
        BY <1>2, <3>1, <4>1, <4>3, Operands DEF Blank
      <4> QED BY <4>2, <4>3
    <3> QED BY <3>1
  <2>6. \A o \in Obj : open'[o] # None => kind'[o] = "upval" /\ kind'[open'[o][1]] = "thread"
    <3>1. ASSUME NEW o \in Obj, open'[o] # None, o # u
          PROVE  kind'[o] = "upval" /\ kind'[open'[o][1]] = "thread"
      <4>1. kind[o] = "upval" /\ o # f /\ open'[o] = open[o] /\ open[o][1] \in Obj /\ kind[open[o][1]] = "thread"
        BY <1>0, <1>2, <2>2, <3>1
      <4>2. open[o][1] # f /\ open[o][1] # u
        BY <1>0, <4>1
      <4> QED BY <1>2, <3>1, <4>1, <4>2
    <3> QED BY <1>1, <1>2, <3>1
  <2> QED BY <2>4, <2>5, <2>6 DEF Blank
<1>10. f \in Sure \union N /\ kind'[f] # "upval"
  BY <1>2, <1>4
<1>11. ASSUME NEW p \in Sure, p # u, NEW x \in Obj, Arrow(p, x)'
       PROVE  Arrow(p, x) \/ Given(N, p, x)
  <2>1. p \in Obj /\ p # f /\ kind'[p] = kind[p] /\ held'[p] = held[p] /\ meta'[p] = meta[p] /\ open'[p] = open[p]
    BY <1>2, <1>4, <1>11
  <2>2. Arrow(p, x) \/ (x = f /\ (p = L \/ open[p] # None) /\ kind[p] \in {"thread", "upval"})
    BY <1>0, <1>1, <1>11, <2>1, SlotArrows, Zenon
  <2>3. CASE x = f /\ (p = L \/ open[p] # None)
    <3>1. color'[p] # "black"
      BY <1>4, <1>6, <2>1, <2>3, Operands
    <3> QED BY <1>10, <2>3, <3>1 DEF Given
  <2> QED BY <2>2, <2>3
<1>12. ASSUME NEW x \in Obj, Arrow(f, x)'
       PROVE  Given(N, f, x)
  <2>1. color'[f] # "black"
    BY <1>4, <1>6, <1>7
  <2>2. x = u \/ (x = meta[L] /\ x # None)
    BY <1>2, <1>12 DEF Arrow
  <2>3. x \in Sure \union N
    BY <1>1, <1>4, <2>2, Operands
  <2> QED BY <1>2, <2>1, <2>3 DEF Given
<1>13. ASSUME NEW x \in Obj, Arrow(u, x)'
       PROVE  Given(N, u, x)
  <2>1. x = stack'[L][s] /\ x # None
    <3>1. meta'[u] = None
      BY <1>2, <1>9 DEF Blank
    <3> QED BY <1>1, <1>2, <1>13, <3>1 DEF Arrow, Value
  <2>2. x = f \/ (x \in Sure /\ kind[x] # "upval")
    <3>1. x = f \/ Arrow(L, x)
      BY <1>1, <1>3, <2>1 DEF Arrow
    <3> QED BY <1>1, <3>1, Operands
  <2>3. color'[u] # "black"
    <3>1. u \notin N => open[u] # None /\ u \in Sure
      BY <1>0, <1>1, <1>4
    <3> QED BY <1>6, <1>7, <3>1, Operands
  <2>4. x \in Sure \union N /\ kind'[x] # "upval"
    BY <1>2, <1>4, <1>10, <2>2, Operands
  <2> QED BY <2>3, <2>4 DEF Given
<1>14. Written(N)
  <2>1. ASSUME NEW p \in Sure \union N
        PROVE  /\ kind'[p] = "udata" => held'[p] = {}
               /\ meta'[p] # None => kind'[meta'[p]] = "table"
               /\ \A x \in Obj : Arrow(p, x)' => (p \in Sure /\ Arrow(p, x)) \/ Given(N, p, x)
    <3>1. CASE p = f
      <4>1. meta[L] # None => kind[meta[L]] = "table" /\ meta[L] \in Sure
        BY Operands
      <4> QED BY <1>0, <1>2, <1>4, <1>12, <3>1, <4>1, Operands
    <3>2. CASE p = u
      <4>1. meta'[u] = None
        BY <1>2, <1>9 DEF Blank
      <4> QED BY <1>2, <1>13, <3>2, <4>1
    <3>3. CASE p \notin {f, u}
      <4>1. p \in Sure /\ p \in Obj
        BY <1>4, <3>3
      <4>2. kind'[p] = kind[p] /\ held'[p] = held[p] /\ meta'[p] = meta[p]
        BY <1>2, <3>3, <4>1
      <4>3. meta[p] # None => meta[p] \in Obj \ {f, u} /\ kind[meta[p]] = "table"
        BY <1>0, <4>1, Operands
      <4> QED BY <1>2, <1>11, <3>3, <4>1, <4>2, <4>3, Operands
    <3> QED BY <3>1, <3>2, <3>3
  <2>2. L' \in Sure /\ kind[L'] = "thread" /\ (basemt' # None => basemt' \in Sure /\ kind[basemt'] = "table")
    BY <1>0, Operands
  <2> QED BY <1>9, <2>1, <2>2 DEF Written
<1> QED BY <1>5, <1>8, <1>14, StepKeeps DEF Capture, lists

LEMMA CloseKeeps ==
  ASSUME IInv, Program, Types', NEW s \in Slots, Close(s)
  PROVE  IInv'
<1> DEFINE ups   == {u \in OpenUpvals(L) : open[u][2] >= s}
           gone  == ups \intersect Dead
           rest  == ups \ gone
           grays == {u \in rest : color[u] = "gray"}
           S     == UNION {ValueOf(u) : u \in grays}
           m     == Marked(S)
           c     == Paint(color, m)
<1>0. /\ Types /\ Static /\ Dynamic /\ TypeOK /\ phase' = phase /\ full' = full /\ L' = L /\ basemt' = basemt
      /\ current' = current /\ grayagain' = grayagain /\ weak' = weak /\ tmudata' = tmudata
      /\ tosweep' = tosweep /\ Release(gone, rest)
      /\ (Marking <=> phase = "propagate") /\ (Marking' <=> Marking)
  BY Parts DEF Close, Program, Marking, AtomicPhases, Steady, Types
<1>1. IF phase = "propagate"
      THEN /\ color' = [o \in Obj |-> IF o \in grays THEN "black" ELSE c[o]]
           /\ gray' = gray \union Listed(m)
      ELSE color' = Freed(Whiten(color, grays), gone) /\ gray' = gray
  BY DEF Close
<1>2. /\ \A u \in ups : u \in Obj /\ kind[u] = "upval" /\ open[u] # None /\ open[u][1] = L /\ meta[u] = None
      /\ gone \intersect rest = {} /\ gone \subseteq ups /\ rest \subseteq ups /\ ups = gone \union rest
      /\ \A u \in rest : u \in Sure /\ u \in Allocated
      /\ \A u \in gone : u \in Dead /\ u \notin Sure /\ u \in Allocated /\ color[u] = Other
      /\ \A u \in grays : u \in rest /\ color[u] = "gray"
      /\ \A u \in rest : color[u] = "gray" => u \in grays
  BY <1>0 DEF OpenUpvals, Of, Sure, Dead, Allocated, Static, Blank
<1>3. \A u \in grays, x \in Obj : Value(u, x) => x \in S
  BY <1>2, Agreement DEF ArrowsAgree
<1>4. \A x \in S : x \in Sure /\ kind[x] # "upval"
  <2>1. ASSUME NEW u \in grays, NEW x \in ValueOf(u)
        PROVE  x \in Sure /\ kind[x] # "upval"
    <3>1. Value(u, x) /\ u \in Sure /\ kind[u] = "upval" /\ u \in Obj
      BY <1>2, Agreement DEF ArrowsAgree
    <3>2. Arrow(u, x) /\ x \in Obj
      BY <1>0, <3>1, ArrowTypes DEF Arrow, Value
    <3> QED BY <3>1, <3>2, Operands
  <2> QED BY <2>1
<1> HIDE DEF ups, gone, rest, grays, S
<1>5. \A u \in Obj : open[u] # None /\ open[u][1] \in gone => u \in gone \union rest
  BY <1>0, <1>2 DEF Static, Blank
<1>6. /\ \A o \in Obj : kind'[o] = IF o \in gone THEN "free" ELSE kind[o]
      /\ \A o \in Obj : open'[o] = IF o \in gone \union rest THEN None ELSE open[o]
      /\ \A o \in Obj \ gone, x \in Obj : Arrow(o, x)' <=> Arrow(o, x)
      /\ \A o \in Obj \ gone : held'[o] = held[o] \/ kind[o] = "upval"
      /\ \A o \in Obj \ gone : meta'[o] = meta[o]
      /\ Blank'
  <2>1. /\ Types /\ Blank /\ gone \subseteq Obj /\ rest \subseteq Of("upval")
        /\ Release(gone, rest) /\ gone \intersect rest = {}
    BY <1>0, <1>2 DEF Static, Of
  <2> QED BY <1>5, <2>1, ReleaseFacts, Zenon
<1>7. Allocated' = Allocated \ gone /\ Other' = Other /\ Other # current /\ Allocated \subseteq Obj /\ Sure \subseteq Allocated
      /\ current \in {"white0", "white1"} /\ Other \in {"white0", "white1"}
  BY <1>0, <1>6 DEF Allocated, Other, Sure, TypeOK
<1>8. Marking => /\ MarkSet(m) /\ (\A x \in S : IsWhite(x) => x \in m)
                 /\ \A x \in m : kind[x] # "upval"
                 /\ Sure = Allocated /\ gone = {}
  <2>1. Marking => Sure = Allocated /\ gone = {}
    BY <1>0, <1>2, MarkingSure DEF AllSure, Dynamic
  <2>2. S \subseteq Allocated
    BY <1>4, <1>7
  <2> QED BY <1>0, <1>4, <2>1, <2>2, MarkedSet
<1> HIDE DEF m
<1>9. c = Paint(color, m)
  OBVIOUS
<1> HIDE DEF c
<1>10. Marking =>
         /\ \A x \in Obj : ~IsWhite(x) => c[x] = color[x]
         /\ \A x \in Obj : c[x] \in {"white0", "white1"} <=> IsWhite(x) /\ x \notin m
         /\ \A o \in Allocated : c[o] # Other
         /\ \A o \in Allocated : c[o] = "black" => kind[o] # "thread" /\ open[o] = None
         /\ \A o \in Allocated : c[o] = "black" /\ (o \in tmudata => phase = "tmu" \/ o \in m) =>
              \A x \in Obj : Arrow(o, x) => c[x] \notin {"white0", "white1"}
         /\ \A u \in tmudata : c[u] # "gray"
         /\ \A o \in Listed(m) : c[o] = "gray" /\ kind[o] \in {"table", "function", "thread"} /\ IsWhite(o)
         /\ \A o \in Allocated : c[o] = "gray" =>
              \/ kind[o] = "string" \/ open[o] # None
              \/ o \in gray \union grayagain \union weak \union Listed(m)
  BY <1>0, <1>8, <1>9, MarkMore
<1>11. Marking => \A o \in Obj : color'[o] = IF o \in grays THEN "black" ELSE c[o]
  BY <1>0, <1>1
<1>12. ~Marking => \A o \in Obj : color'[o] = IF o \in gone THEN "white0"
                                              ELSE IF o \in grays THEN current ELSE color[o]
  BY <1>0, <1>1 DEF Freed, Whiten
<1>13. Sure' = Sure
  <2>1. ASSUME NEW o \in Obj PROVE o \in Sure' <=> o \in Sure
    <3>1. CASE Marking
      BY <1>2, <1>7, <1>8, <1>10, <1>11, <3>1 DEF Sure, Dead
    <3>2. CASE ~Marking
      BY <1>2, <1>7, <1>12, <3>2 DEF Sure, Dead
    <3> QED BY <3>1, <3>2
  <2>2. Sure \subseteq Obj /\ Sure' \subseteq Obj
    BY <1>7 DEF Sure
  <2> QED BY <2>1, <2>2
<1>14. Static'
  <2>1. Types /\ Static /\ Sure' = Sure /\ UNCHANGED <<L, basemt>> /\ Blank' /\ \A x \in Sure : x \notin gone
    BY <1>0, <1>2, <1>6, <1>13
  <2> QED BY <1>6, <2>1, ReleaseStatic, Zenon
<1>15. \A u \in tmudata : u \in Obj /\ u \in Allocated /\ kind[u] = "udata" /\ u \notin ups /\ u \notin gone /\ u \notin grays
  BY <1>0, <1>2 DEF Dynamic, Finalizing, Allocated, TypeOK
<1>16. Finalizing'
  <2>1. finalized' = finalized \ gone /\ \A u \in Obj : calls'[u] = IF u \in gone THEN 0 ELSE calls[u]
    BY <1>0 DEF Release
  <2>2. \A u \in tmudata : color'[u] \notin {Other, "gray"}
    <3>1. CASE Marking
      BY <1>10, <1>11, <1>15, <3>1
    <3>2. CASE ~Marking
      BY <1>0, <1>12, <1>15, <3>2 DEF Dynamic, Finalizing
    <3> QED BY <3>1, <3>2
  <2>3. \A u \in finalized' : kind'[u] = "udata"
    BY <1>0, <1>6, <2>1 DEF Dynamic, Finalizing, TypeOK
  <2> QED BY <1>0, <1>7, <1>15, <2>1, <2>2, <2>3 DEF Dynamic, Finalizing
<1>17. Phases'
  <2>1. \A o \in tosweep : o \in Obj /\ o \notin ups /\ kind[o] # "free" /\ open[o] = None /\ o \notin tmudata
    BY <1>0, <1>2 DEF Dynamic, Phases, TypeOK
  <2>2. \A o \in tosweep : kind'[o] # "free" /\ open'[o] = None
    BY <1>2, <1>6, <2>1
  <2> QED BY <1>0, <2>1, <2>2 DEF Dynamic, Phases
<1>18. Colors'
  <2>1. ASSUME NEW o \in Allocated \ gone
        PROVE  color'[o] = "black" => kind'[o] # "thread" /\ open'[o] = None
    <3>1. o \in Obj /\ kind'[o] = kind[o] /\ (o \in rest => kind[o] = "upval" /\ open'[o] = None)
          /\ (open[o] = None => open'[o] = None)
      BY <1>2, <1>6, <1>7, <2>1
    <3>2. CASE Marking
      BY <1>2, <1>7, <1>10, <1>11, <2>1, <3>1, <3>2
    <3>3. CASE ~Marking
      BY <1>0, <1>2, <1>7, <1>12, <2>1, <3>1, <3>3 DEF Dynamic, Colors
    <3> QED BY <3>2, <3>3
  <2>2. ASSUME NEW o \in Allocated \ gone, ~Marking
        PROVE  color'[o] = current \/ Unswept(o)' \/ o \in tmudata
    <3>1. o \in Obj /\ color'[o] = IF o \in grays THEN current ELSE color[o]
      BY <1>7, <1>12, <2>2
    <3>2. CASE o \in rest
      <4>1. color[o] # "black" /\ color[o] # Other
        BY <1>0, <1>2, <3>2 DEF Dynamic, Colors, Sure, Dead
      <4>2. color[o] = "gray" \/ color[o] = current
        BY <1>0, <3>1, <4>1 DEF TypeOK, Other
      <4> QED BY <1>2, <3>1, <3>2, <4>2
    <3>3. CASE o \notin rest
      <4>1. open'[o] = open[o] /\ color'[o] = color[o]
        BY <1>2, <1>6, <2>2, <3>1, <3>3
      <4> QED BY <1>0, <2>2, <4>1 DEF Dynamic, Colors, Unswept
    <3> QED BY <3>2, <3>3
  <2>3. ASSUME NEW o \in Allocated, Marking PROVE color'[o] # Other
    BY <1>7, <1>10, <1>11, <2>3
  <2> QED BY <1>0, <1>7, <2>1, <2>2, <2>3 DEF Colors
<1>19. ASSUME Marking PROVE Lists'
  <2>1. \A o \in gray \union grayagain \union weak : /\ o \in Obj /\ ~IsWhite(o) /\ c[o] = "gray" /\ o \notin grays
                                                    /\ kind[o] \in {"table", "function", "thread"}
    BY <1>0, <1>2, <1>10, <1>19 DEF Dynamic, Lists, IsWhite, TypeOK
  <2>2. \A o \in Listed(m) : /\ o \in Obj /\ IsWhite(o) /\ c[o] = "gray" /\ o \notin grays
                             /\ kind[o] \in {"table", "function", "thread"}
    BY <1>2, <1>7, <1>8, <1>10, <1>19 DEF MarkSet, Listed
  <2>3. gray' = gray \union Listed(m) /\ kind' = kind
    <3>1. kind' = [o \in Obj |-> IF o \in gone THEN "free" ELSE kind[o]]
      BY <1>0 DEF Release
    <3> QED BY <1>0, <1>1, <1>8, <1>19, <3>1 DEF TypeOK
  <2>4. \A o \in gray' \union grayagain \union weak : color'[o] = "gray" /\ kind[o] \in {"table", "function", "thread"}
    BY <1>11, <1>19, <2>1, <2>2, <2>3
  <2>5. gray' \intersect grayagain = {} /\ gray' \intersect weak = {} /\ grayagain \intersect weak = {}
    BY <1>0, <1>19, <2>1, <2>2, <2>3 DEF Dynamic, Lists
  <2>6. ASSUME NEW o \in Allocated, color'[o] = "gray"
        PROVE  kind[o] = "string" \/ open'[o] # None \/ o \in gray' \union grayagain \union weak
    <3>1. o \in Obj /\ o \notin grays /\ c[o] = "gray"
      BY <1>7, <1>11, <1>19, <2>6
    <3>2. o \notin rest
      <4>1. CASE o \in rest /\ color[o] = "gray"
        BY <1>2, <3>1, <4>1
      <4>2. CASE o \in rest /\ color[o] # "gray"
        <5>1. o \in m
          BY <1>0, <1>9, <3>1, <4>2, PaintTyped
        <5> QED BY <1>2, <1>8, <1>19, <4>2, <5>1
      <4> QED BY <4>1, <4>2
    <3> QED BY <1>6, <1>8, <1>10, <1>19, <2>3, <3>1, <3>2
  <2>7. \A t \in weak : kind[t] = "table"
    BY <1>0, <1>19 DEF Dynamic, Lists
  <2> QED BY <1>0, <1>7, <1>8, <1>19, <2>3, <2>4, <2>5, <2>6, <2>7 DEF Lists
<1>20. ASSUME Marking PROVE Barriers'
  <2>0. phase = "propagate" /\ Allocated' = Allocated /\ gone = {} /\ tmudata' = tmudata /\ phase' = phase
    BY <1>0, <1>7, <1>8, <1>20
  <2>1. \A x \in Obj : c[x] \notin {"white0", "white1"} => ~IsWhite(x)'
    BY <1>11, <1>20 DEF IsWhite
  <2>2. ~IsWhite(MainThread)' /\ ~IsWhite(Registry)'
    BY <1>0, <1>10, <1>20, <2>1, ObjectsAssumption DEF Dynamic, Barriers
  <2>3. ASSUME NEW o \in Allocated, color'[o] = "black", o \notin tmudata, NEW x \in Obj, Arrow(o, x)'
        PROVE  ~IsWhite(x)'
    <3>1. Arrow(o, x) /\ o \in Obj
      BY <1>6, <1>7, <2>0, <2>3
    <3>2. CASE o \in grays
      <4>1. Value(o, x)
        BY <1>2, <3>1, <3>2 DEF Arrow
      <4> QED BY <1>3, <1>8, <1>10, <1>20, <2>1, <3>2, <4>1
    <3>3. CASE o \notin grays
      BY <1>10, <1>11, <1>20, <2>1, <2>3, <3>1, <3>3
    <3> QED BY <3>2, <3>3
  <2> QED BY <2>0, <2>2, <2>3 DEF Barriers
<1> QED BY <1>0, <1>14, <1>16, <1>17, <1>18, <1>19, <1>20, Parts DEF IInv, Static, Lists, Barriers

\* What a sweep that begins will come to.
LEMMA AllToSweep ==
  ASSUME Types, Blank, Finalizing, NEW o \in Allocated, o \notin tmudata
  PROVE  o \in Swept \/ (open[o] # None /\ open[o][1] \in Swept)
<1>1. CASE open[o] = None
  BY <1>1 DEF Swept
<1>2. CASE open[o] # None
  <2>1. kind[open[o][1]] = "thread" /\ open[o][1] \in Obj
    BY <1>2 DEF Blank, Types, TypeOK, Allocated
  <2>2. open[o][1] \notin tmudata
    BY <2>1 DEF Finalizing
  <2> QED BY <1>2, <2>1, <2>2 DEF Swept, Allocated
<1> QED BY <1>1, <1>2

LEMMA FullGCKeeps == ASSUME IInv, Program, Types', FullGC PROVE IInv'
<1>0. /\ Types /\ Static /\ Dynamic /\ full' = "sweep" /\ heap' = heap /\ L' = L /\ basemt' = basemt
      /\ color' = color /\ current' = current /\ ends' = ends /\ ~Marking'
      /\ phase' \in {"sweepstring", "sweep", "finalize"}
      /\ \/ phase' = "sweepstring" /\ tosweep' = Swept
         \/ phase' = phase /\ tosweep' = tosweep /\ ~Marking
  BY Parts DEF FullGC, Program, Steady, Marking, AtomicPhases, ends
<1>1. Allocated' = Allocated /\ Sure' = Sure /\ Other' = Other
  BY <1>0 DEF Allocated, heap, Sure, Dead, Other
<1>2. Static'
  BY <1>0, <1>1, StaticKept
<1>3. Finalizing'
  BY <1>0, <1>1 DEF Dynamic, Finalizing, heap, ends
<1>4. Phases'
  <2>1. \A o \in Swept : o \in Allocated /\ o \notin tmudata /\ open[o] = None
    BY <1>0 DEF Swept, Static, Blank, Allocated
  <2> QED BY <1>0, <2>1 DEF Dynamic, Phases, heap, ends, Allocated
<1>5. Colors'
  <2>1. CASE tosweep' = Swept
    <3>1. \A o \in Allocated : o \in tmudata \/ Unswept(o)'
      BY <1>0, <2>1, AllToSweep DEF Static, Dynamic, Unswept, heap
    <3> QED BY <1>0, <1>1, <3>1 DEF Dynamic, Colors, heap, ends
  <2>2. CASE tosweep' = tosweep /\ ~Marking
    BY <1>0, <1>1, <2>2 DEF Dynamic, Colors, Unswept, heap, ends
  <2> QED BY <1>0, <2>1, <2>2
<1>6. Lists' /\ Barriers'
  BY <1>0 DEF Lists, Barriers
<1> QED BY <1>2, <1>3, <1>4, <1>5, <1>6, Parts DEF IInv, Static

-----------------------------------------------------------------------------
(* The invariant holds; debug.setupvalue() breaks it. *)

NoDebug == \A p \in Programs : ~p.debug

LEMMA MutateKeeps == ASSUME NoDebug, IInv, Mutate, Types' PROVE IInv'
<1>1. ASSUME NEW t \in Reach, NEW k \in Usable, NEW v \in Usable,
             kind[t] = "table", <<k, v>> \in prog.stores[t], Store(t, k, v)
      PROVE  Program => IInv'
  <2>1. v # None
    BY <1>1, Operands, ProgramTypes, ObjectsAssumption
  <2> QED BY <1>1, <2>1, StoreKeeps
<1>2. ~prog.debug
  BY Operands DEF NoDebug, Types
<1>3. ASSUME NEW f \in Reach, NEW u \in Reach, NEW v \in Usable, DebugSetUpvalue(f, u, v)
      PROVE  FALSE
  BY <1>2, <1>3 DEF DebugSetUpvalue
<1> QED BY <1>1, <1>3, MutateCases, SetStackKeeps, CreateKeeps, InternKeeps, QuietStepsKeep, SetMetaKeeps,
           CaptureKeeps, CloseKeeps, SetUpvalKeeps, FinalizerReturnsKeeps, FullGCKeeps

LEMMA CollectKeeps == ASSUME IInv, Collect, Types' PROVE IInv'
<1>1. CASE Start
  <2>1. MarkRoot /\ UNCHANGED <<heap, L, basemt, current, ends, tosweep>> /\ phase = "pause" /\ full' = full
    BY <1>1 DEF Start
  <2> QED BY <2>1, MarkRootKeeps
<1>2. CASE FullMark
  <2>1. MarkRoot /\ UNCHANGED <<heap, L, basemt, current, ends, tosweep>> /\ phase = "finalize" /\ full' = "mark"
    BY <1>2 DEF FullMark
  <2> QED BY <2>1, MarkRootKeeps
<1> QED BY <1>1, <1>2, RemarkUpvalsKeeps, RemarkWeakKeeps, RemarkAgainKeeps, SeparateKeeps, ClearTablesKeeps,
           PhaseEndsKeeps, PropagateKeeps, SweepKeeps, GCTMKeeps DEF Collect

LEMMA InvariantInit == Init => IInv
<1> SUFFICES ASSUME Init PROVE IInv
  OBVIOUS
<1> USE ObjectsAssumption
<1>1. Types
  BY DEF Init, Types, TypeOK, Steady, AtomicPhases, Places
<1>2. /\ kind[MainThread] = "thread" /\ kind[Registry] = "table" /\ MainThread \in Obj /\ Registry \in Obj
      /\ \A o \in Obj : held[o] = {} /\ open[o] = None /\ \A s \in Places : stack[o][s] = None
      /\ \A o \in Obj : meta[o] = IF o = MainThread THEN Registry ELSE None
      /\ \A o \in Obj : kind[o] = IF o = MainThread THEN "thread" ELSE IF o = Registry THEN "table" ELSE "free"
  BY DEF Init
<1>3. Sure = {MainThread, Registry}
  <2>1. Dead = {}
    BY DEF Init, Dead, Other, Allocated
  <2> QED BY <1>2, <2>1 DEF Sure, Allocated
<1>4. \A o \in Obj, x \in Obj : Arrow(o, x) => o = MainThread /\ x = Registry
  BY <1>2 DEF Arrow, Value
<1>5. Blank /\ Shapes /\ Sound
  BY <1>2, <1>3, <1>4 DEF Blank, Shapes, Sound
<1>6. RootsSound
  BY <1>2, <1>3 DEF Init, RootsSound, Roots, Things
<1>7. Finalizing /\ Phases /\ Colors /\ Lists /\ Barriers
  BY DEF Init, Finalizing, Phases, Colors, Lists, Barriers, Marking, AtomicPhases, Allocated
<1> QED BY <1>1, <1>5, <1>6, <1>7 DEF IInv

LEMMA InvariantStep == ASSUME NoDebug, IInv, [Next]_vars PROVE IInv'
<1>1. Types'
  BY TypesKept DEF IInv
<1>2. CASE Next
  BY <1>1, <1>2, CollectKeeps, MutateKeeps DEF Next
<1>3. CASE UNCHANGED vars
  <2>0. Types /\ Static /\ Dynamic /\ UNCHANGED <<heap, L, basemt, color, current, lists, ends, phase, full, tosweep>>
    BY <1>3, Parts DEF vars
  <2>1. Allocated' = Allocated /\ Sure' = Sure /\ Other' = Other /\ Marking' = Marking
    BY <2>0 DEF Allocated, heap, Sure, Dead, Other, Marking
  <2>2. Static'
    BY <2>0, <2>1, StaticKept
  <2>3. Finalizing' /\ Phases' /\ Lists'
    BY <2>0, <2>1 DEF Dynamic, Finalizing, Phases, Lists, heap, ends, lists
  <2>4. Colors'
    BY <2>0, <2>1 DEF Dynamic, Colors, Unswept, heap, ends
  <2>5. Barriers'
    <3>1. \A x : IsWhite(x)' <=> IsWhite(x)
      BY <2>0 DEF IsWhite
    <3> QED BY <2>0, <2>1, <3>1, SameHeap DEF Dynamic, Barriers, heap, ends, lists
  <2> QED BY <1>1, <2>2, <2>3, <2>4, <2>5, Parts DEF IInv, Static
<1> QED BY <1>2, <1>3

\* For every set of objects and of programs that do not call debug.setupvalue(),
\* the invariant above holds (lgc.c with its barriers in lapi.c and lvm.c).
THEOREM Invariance == ASSUME NoDebug PROVE Spec => []IInv
<1>1. IInv /\ [Next]_vars => IInv'
  BY InvariantStep
<1> QED BY <1>1, InvariantInit, PTL DEF Spec

\* The types of the variables (lobject.h, lstate.h); this needs no hypothesis.
THEOREM TypeCorrect == Spec => []TypeOK
<1>1. Init => Types
  BY InvariantInit DEF IInv
<1>2. Types /\ [Next]_vars => Types'
  BY TypesKept
<1>3. Types => TypeOK
  BY DEF Types
<1> QED BY <1>1, <1>2, <1>3, PTL DEF Spec

\* Nothing that the program, or a finalizer to come, can get at is freed, or
\* is what the sweep will free (lobject.h: checkliveness).
THEOREM NothingFreedInUse == ASSUME NoDebug PROVE Spec => []NoDeadInUse
<1>1. IInv => NoDeadInUse
  BY InUse DEF IInv, NoDeadInUse, Sure
<1> QED BY <1>1, Invariance, PTL

\* While marking, an object is on one of the lists linked by gclist at most, and
\* is gray (propagatemark(), luaC_barrierback()).
THEOREM ListsSound == ASSUME NoDebug PROVE Spec => []OneList
<1>1. IInv => OneList
  BY DEF IInv, Lists, OneList
<1> QED BY <1>1, Invariance, PTL

\* While marking, no black object refers to a white one (luaC_barrierf(),
\* luaC_barrierback(), luaC_linkupval()).
THEOREM BarriersSound == ASSUME NoDebug PROVE Spec => []NoBlackToWhite
<1>1. ASSUME IInv, Marking, NEW o \in Allocated \ tmudata, color[o] = "black", NEW x \in StrongRefs(o)
      PROVE  x \notin White
  <2>1. StrongArrow(o, x) /\ o \in Obj
    BY Agreement DEF ArrowsAgree, Allocated
  <2>2. Arrow(o, x)
    BY <2>1 DEF StrongArrow, Arrow
  <2>3. x \in Obj => ~IsWhite(x)
    BY <1>1, <2>2 DEF IInv, Barriers
  <2> QED BY <2>3 DEF White, IsWhite
<1>2. IInv => NoBlackToWhite
  BY <1>1 DEF NoBlackToWhite
<1> QED BY <1>2, Invariance, PTL

\* No finalizer is called twice for one userdata (luaC_separateudata(), GCTM()).
THEOREM FinalizersOnce == ASSUME NoDebug PROVE Spec => []FinalizedOnce
<1>1. IInv => FinalizedOnce
  BY DEF IInv, Finalizing, FinalizedOnce
<1> QED BY <1>1, Invariance, PTL

-----------------------------------------------------------------------------
(* What is cleared from weak tables. *)

\* What is held strongly.
LEMMA FirmLeast ==
  ASSUME TypeOK, NEW C \in SUBSET Obj, Roots \subseteq C,
         \A o \in C \intersect Allocated : \A x \in Obj : StrongArrow(o, x) => x \in C
  PROVE  Firm \subseteq C
<1> DEFINE first == Roots \union UNION {StrongRefs(o) : o \in Roots \intersect Allocated}
           arrows == UNION {{<<o, x>> : x \in StrongRefs(o) \ first} : o \in Allocated \ Roots}
<1>0. first \subseteq C
  <2> SUFFICES ASSUME NEW o \in Roots \intersect Allocated, NEW x \in StrongRefs(o)
               PROVE  x \in C
    OBVIOUS
  <2>1. o \in Obj /\ o \in C
    BY DEF Allocated
  <2>2. StrongArrow(o, x) /\ x \in Obj
    BY <2>1, Agreement, ArrowTypes DEF ArrowsAgree
  <2> QED BY <2>1, <2>2
<1>1. ASSUME NEW a \in arrows, a[1] \in C
      PROVE  a[2] \in C
  <2>0. PICK o \in Allocated \ Roots : \E x \in StrongRefs(o) : a = <<o, x>>
    OBVIOUS
  <2>1. PICK x \in StrongRefs(o) : a = <<o, x>>
    BY <2>0
  <2>2. o \in Obj /\ o \in C
    BY <1>1, <2>1 DEF Allocated
  <2>3. StrongArrow(o, x) /\ x \in Obj
    BY <2>1, <2>2, Agreement, ArrowTypes DEF ArrowsAgree
  <2> QED BY <2>1, <2>2, <2>3
<1>2. Along(arrows, first) \subseteq C
  <2> HIDE DEF first, arrows
  <2> QED BY <1>0, <1>1, AlongLeast
<1> QED BY <1>2 DEF Firm, Closure

\* Before weak tables are cleared, all that is held strongly has been marked.
LEMMA FirmMarked ==
  ASSUME IInv, phase = "tmu", gray = {}
  PROVE  \A o \in Firm : o \in Obj /\ ~IsWhite(o)
<1> DEFINE C == {o \in Obj : ~IsWhite(o)}
<1>0. Types /\ TypeOK /\ Static /\ Dynamic /\ Marking
  BY Parts DEF Marking, AtomicPhases, Types
<1>1. Roots \subseteq C
  BY <1>0, RootsTyped DEF Dynamic, Barriers, Roots, Things
<1>2. \A o \in C \intersect Allocated : \A x \in Obj : StrongArrow(o, x) => x \in C
  BY AllTraversed
<1>3. Firm \subseteq C
  <2> HIDE DEF C
  <2>1. C \in SUBSET Obj
    BY DEF C
  <2> QED BY <1>0, <1>1, <1>2, <2>1, FirmLeast
<1> QED BY <1>3

\* An entry goes from a weak table only when one of its ends is not held
\* strongly, or is userdata already finalized (cleartable(), iscleared()).
THEOREM ClearsWeak == ASSUME NoDebug PROVE Spec => ClearsOnlyWeak
<1>1. ASSUME IInv, Next, phase = "tmu", NEW t \in Obj, NEW e \in held[t] \ held'[t]
      PROVE  ~({e[1], e[2]} \subseteq Firm \union {None}) \/ e[2] \in finalized
  <2>0. Types /\ TypeOK /\ phase \notin Steady
    BY <1>1 DEF IInv, Types, Steady
  <2>1. ClearTables
    <3>1. ~Mutate
      BY <2>0 DEF Mutate, Program
    <3>2. Collect
      BY <1>1, <3>1 DEF Next
    <3>3. \A o \in Obj : ~SweepString(o) /\ ~Sweep(o) /\ ~GCTM(o) /\ (Propagate(o) => held' = held)
      BY <1>1 DEF SweepString, Sweep, GCTM, Propagate, heap
    <3>4. ~Start /\ ~RemarkUpvals /\ ~RemarkWeak /\ ~RemarkAgain /\ ~Separate /\ ~EndSweepString /\ ~EndSweep /\ ~EndCycle
      BY <1>1 DEF Start, RemarkUpvals, RemarkWeak, RemarkAgain, Separate, EndSweepString, EndSweep, EndCycle
    <3>5. ~FullMark
      BY <1>1 DEF FullMark
    <3> QED BY <1>1, <3>2, <3>3, <3>4, <3>5 DEF Collect
  <2>2. e \in ClearedEntries(t) /\ gray = {}
    BY <1>1, <2>1 DEF ClearTables
  <2>3. \A x : x \in Firm => x \in Obj /\ x \notin White
    BY <1>1, <2>2, FirmMarked DEF White, IsWhite
  <2>4. \/ e[1] # None /\ Cleared(e[1], TRUE)
        \/ Cleared(e[2], FALSE)
    BY <2>2 DEF ClearedEntries
  <2>5. CASE Cleared(e[1], TRUE)
    BY <2>3, <2>5, ObjectsAssumption DEF Cleared
  <2>6. CASE Cleared(e[2], FALSE)
    BY <2>3, <2>6, ObjectsAssumption DEF Cleared
  <2> QED BY <2>4, <2>5, <2>6
<1>2. IInv /\ [Next]_vars =>
        [\A t \in Obj : \A e \in held[t] \ held'[t] :
           phase = "tmu" => \/ ~({e[1], e[2]} \subseteq Firm \union {None})
                            \/ e[2] \in finalized]_vars
  BY <1>1
<1> QED BY <1>2, Invariance, PTL DEF Spec, ClearsOnlyWeak

-----------------------------------------------------------------------------
(* What a forced collection leaves. *)

\* What can be got at, and what a pending finalizer may use.
UseLaws == IInv =>
  /\ Reach \subseteq Sure /\ Saved \subseteq Sure /\ Sure \subseteq Obj
  /\ Roots \subseteq Reach /\ tmudata \subseteq Saved
  /\ \A o \in Reach, x \in Obj : Arrow(o, x) => x \in Reach
  /\ \A o \in Saved, x \in Obj : Arrow(o, x) => x \in Saved
  /\ \A C \in SUBSET Obj : Roots \subseteq C /\ (\A o \in C, x \in Obj : Arrow(o, x) => x \in C)
       => Reach \subseteq C
  /\ \A C \in SUBSET Obj : tmudata \subseteq C /\ (\A o \in C, x \in Obj : Arrow(o, x) => x \in C)
       => Saved \subseteq C

LEMMA UseLawsHold == UseLaws
<1> SUFFICES ASSUME IInv
             PROVE  /\ Reach \subseteq Sure /\ Saved \subseteq Sure /\ Sure \subseteq Obj
                    /\ Roots \subseteq Reach /\ tmudata \subseteq Saved
                    /\ \A o \in Reach, x \in Obj : Arrow(o, x) => x \in Reach
                    /\ \A o \in Saved, x \in Obj : Arrow(o, x) => x \in Saved
                    /\ \A C \in SUBSET Obj : Roots \subseteq C /\ (\A o \in C, x \in Obj : Arrow(o, x) => x \in C)
                         => Reach \subseteq C
                    /\ \A C \in SUBSET Obj : tmudata \subseteq C /\ (\A o \in C, x \in Obj : Arrow(o, x) => x \in C)
                         => Saved \subseteq C
  BY DEF UseLaws
<1>1. TypeOK
  BY DEF IInv, Types
<1>2. Reach \subseteq Sure /\ Saved \subseteq Sure /\ Sure \subseteq Allocated /\ Allocated \subseteq Obj
  BY InUse DEF IInv, Sure, Allocated
<1>3. ASSUME NEW C \in SUBSET Obj, Roots \subseteq C, \A o \in C, x \in Obj : Arrow(o, x) => x \in C
      PROVE  Reach \subseteq C
  BY <1>1, <1>3, ReachLeast
<1>4. ASSUME NEW C \in SUBSET Obj, tmudata \subseteq C, \A o \in C, x \in Obj : Arrow(o, x) => x \in C
      PROVE  Saved \subseteq C
  BY <1>1, <1>4, SavedLeast
<1>5. Roots \subseteq Reach /\ \A o \in Reach, x \in Obj : Arrow(o, x) => x \in Reach
  BY <1>1, <1>2, ReachClosed
<1>6. tmudata \subseteq Saved /\ \A o \in Saved, x \in Obj : Arrow(o, x) => x \in Saved
  BY <1>1, <1>2, SavedClosed
<1> QED BY <1>2, <1>3, <1>4, <1>5, <1>6

LEMMA UseLawsNext == UseLaws'
BY UseLawsHold, PTL

\* Reach and Saved are determined by these.
LEMMA SameUse ==
  ASSUME IInv, IInv', UNCHANGED <<heap, L, basemt>>, tmudata \subseteq tmudata'
  PROVE  Reach' = Reach /\ Saved \subseteq Saved'
<1>1. Roots' = Roots /\ \A o, x : Arrow(o, x)' <=> Arrow(o, x)
  BY SameHeap DEF Roots, Things
<1>2. Reach \subseteq Obj /\ Reach' \subseteq Obj /\ Saved' \subseteq Obj
  BY UseLawsHold, UseLawsNext DEF UseLaws
<1>3. Reach \subseteq Reach'
  BY <1>1, <1>2, UseLawsHold, UseLawsNext DEF UseLaws
<1>4. Reach' \subseteq Reach
  BY <1>1, <1>2, UseLawsHold, UseLawsNext DEF UseLaws
<1>5. Saved \subseteq Saved'
  BY <1>1, <1>2, UseLawsHold, UseLawsNext DEF UseLaws
<1> QED BY <1>3, <1>4, <1>5

\* A release leaves as it was what can be got at.
LEMMA ReleaseUse ==
  ASSUME IInv, IInv', UNCHANGED <<L, basemt, tmudata>>, NEW gone, Sure' = Sure,
         \A x \in Sure : x \notin gone,
         \A p \in Obj \ gone, x \in Obj : Arrow(p, x)' <=> Arrow(p, x)
  PROVE  Reach' = Reach /\ Saved' = Saved
<1>1. Roots' = Roots
  BY DEF Roots, Things
<1>2. /\ Reach \subseteq Sure /\ Saved \subseteq Sure /\ Sure \subseteq Obj
      /\ Reach' \subseteq Sure /\ Saved' \subseteq Sure
  BY UseLawsHold, UseLawsNext DEF UseLaws
<1>3. \A p \in Sure, x \in Obj : Arrow(p, x)' <=> Arrow(p, x)
  BY <1>2
<1>4. Reach \subseteq Reach'
  BY <1>1, <1>2, <1>3, UseLawsHold, UseLawsNext DEF UseLaws
<1>5. Reach' \subseteq Reach
  BY <1>1, <1>2, <1>3, UseLawsHold, UseLawsNext DEF UseLaws
<1>6. Saved \subseteq Saved'
  BY <1>1, <1>2, <1>3, UseLawsHold, UseLawsNext DEF UseLaws
<1>7. Saved' \subseteq Saved
  BY <1>1, <1>2, <1>3, UseLawsHold, UseLawsNext DEF UseLaws
<1> QED BY <1>4, <1>5, <1>6, <1>7

\* Marking does not leave a set that no reference leaves.
LEMMA MarkedWithin ==
  ASSUME TypeOK, NEW R, \A o \in R \intersect Obj, x \in Obj : Arrow(o, x) => x \in R,
         NEW S, S \subseteq R
  PROVE  Marked(S) \subseteq R
<1> DEFINE direct == White \intersect S
           values == White \intersect (direct \union
                       UNION {ValueOf(u) : u \in direct \intersect Of("upval")})
<1>1. Marked(S) = White \intersect (values \union Things({meta[u] : u \in values \intersect Of("udata")}))
  BY DEF Marked
<1>2. values \subseteq R
  <2>1. ASSUME NEW u \in direct \intersect Of("upval"), NEW x \in ValueOf(u)
        PROVE  x \in R
    <3>1. u \in R \intersect Obj /\ kind[u] = "upval" /\ Value(u, x)
      BY Agreement DEF ArrowsAgree, Of
    <3> QED BY <3>1, ArrowTypes DEF Arrow, Value
  <2> QED BY <2>1
<1>3. ASSUME NEW u \in values \intersect Of("udata"), meta[u] # None
      PROVE  meta[u] \in R
  <2>1. u \in R \intersect Obj /\ Arrow(u, meta[u])
    BY <1>2, <1>3 DEF Arrow, Of
  <2>2. meta[u] \in Obj
    BY <1>3, <2>1 DEF TypeOK
  <2> QED BY <2>1, <2>2
<1> HIDE DEF values
<1> QED BY <1>1, <1>2, <1>3 DEF Things

WeakTable(t) == kind[t] = "table" /\ (IsWeak(t, "k") \/ IsWeak(t, "v"))

\* What is marked, and then what is left, can be got at, unless a weak table is
\* among it, whose entries lead to things that were marked only for a while.
Exact == full = "mark" =>
  /\ Marking => /\ \A t \in weak : WeakTable(t)
                /\ (\A t \in Allocated : ~IsWhite(t) => ~WeakTable(t)) =>
                     \A o \in Allocated : ~IsWhite(o) => o \in Reach \union Saved
  /\ ~Marking => ((\A t \in Sure : ~WeakTable(t)) => Sure \subseteq Reach \union Saved)

LEMMA ExactMarks ==
  ASSUME IInv, IInv', Exact, full = "mark", Marking, Marking', UNCHANGED <<heap, L, basemt>>,
         tmudata \subseteq tmudata', NEW m,
         \A o \in Obj : IsWhite(o)' <=> IsWhite(o) /\ o \notin m,
         (\A o \in Allocated : ~IsWhite(o) => o \in Reach \union Saved) => m \subseteq Reach' \union Saved',
         \A t \in weak' : t \in weak \/ WeakTable(t)
  PROVE  Exact'
<1>1. Allocated' = Allocated /\ Allocated \subseteq Obj /\ \A t : WeakTable(t)' <=> WeakTable(t)
  BY DEF Allocated, heap, WeakTable, IsWeak
<1>2. Reach' = Reach /\ Saved \subseteq Saved'
  BY SameUse
<1>3. \A t \in weak' : WeakTable(t)
  BY DEF Exact
<1>4. ASSUME \A t \in Allocated : ~IsWhite(t)' => ~WeakTable(t), NEW o \in Allocated, ~IsWhite(o)'
      PROVE  o \in Reach' \union Saved'
  <2>1. \A t \in Allocated : ~IsWhite(t) => ~WeakTable(t)
    BY <1>1, <1>4
  <2>2. \A p \in Allocated : ~IsWhite(p) => p \in Reach \union Saved
    BY <2>1 DEF Exact
  <2> QED BY <1>1, <1>2, <1>4, <2>2
<1> QED BY <1>1, <1>3, <1>4 DEF Exact

LEMMA ExactKeeps == ASSUME IInv, IInv', Exact, Next, full' = "mark" PROVE Exact'
<1> USE DEF Steady, AtomicPhases
<1>0. Types /\ TypeOK /\ Static /\ Dynamic /\ Sure \subseteq Allocated /\ Allocated \subseteq Obj
  BY Parts DEF Types, Sure, Allocated
<1>1. \A o \in Reach \union Saved, x \in Obj : Arrow(o, x) => x \in Reach \union Saved
  BY UseLawsHold DEF UseLaws
<1>2. CASE FullMark
  <2> DEFINE S == Things({MainThread, meta[MainThread], Registry, basemt})
             m == Marked(S)
  <2>1. /\ color' = Paint(color, m) /\ weak' = {} /\ Marking' /\ ~Marking /\ tmudata' = tmudata
        /\ heap' = heap /\ L' = L /\ basemt' = basemt /\ tosweep = {}
    BY <1>0, <1>2 DEF FullMark, MarkRoot, Marking, ends, Dynamic, Phases
  <2>2. S \subseteq Reach
    <3>1. {MainThread, Registry} \subseteq Reach /\ (basemt # None => basemt \in Reach)
      BY ObjectsAssumption, UseLawsHold DEF UseLaws, Roots, Things
    <3>2. meta[MainThread] # None => Arrow(MainThread, meta[MainThread]) /\ meta[MainThread] \in Obj
      BY <1>0, ObjectsAssumption DEF Arrow, TypeOK
    <3>3. meta[MainThread] # None => meta[MainThread] \in Reach
      BY <3>1, <3>2, UseLawsHold DEF UseLaws
    <3> QED BY <3>1, <3>3 DEF Things
  <2> HIDE DEF S
  <2>3. m \subseteq Reach
    <3>1. \A o \in Reach \intersect Obj, x \in Obj : Arrow(o, x) => x \in Reach
      BY UseLawsHold DEF UseLaws
    <3> QED BY <1>0, <2>2, <3>1, MarkedWithin
  <2> HIDE DEF m
  <2>4. \A o \in Allocated : ~IsWhite(o) => o \in Saved
    <3>1. \A o \in Allocated : color[o] = current \/ o \in tmudata
      BY <1>0, <2>1 DEF Dynamic, Colors, Unswept
    <3> QED BY <1>0, <3>1, WhiteColor, UseLawsHold DEF UseLaws
  <2>5. \A o \in Obj : IsWhite(o)' <=> IsWhite(o) /\ o \notin m
    BY <1>0, <2>1, Painted
  <2>6. Reach' = Reach /\ Saved \subseteq Saved'
    BY <2>1, SameUse
  <2>7. Allocated' = Allocated
    BY <2>1 DEF Allocated, heap
  <2> QED BY <1>0, <2>1, <2>3, <2>4, <2>5, <2>6, <2>7 DEF Exact
<1>3. full = "mark" \/ FullMark
  <2>1. ASSUME Collect PROVE full = "mark" \/ FullMark
    BY <2>1 DEF Collect, Start, RemarkUpvals, RemarkWeak, RemarkAgain, Separate, ClearTables,
            EndSweepString, EndSweep, EndCycle, Propagate, SweepString, Sweep, GCTM
  <2>2. Mutate => full = "no"
    BY DEF Mutate, Program
  <2>3. Mutate => full' # "mark"
    BY <2>2, MutateCases DEF SetStack, Create, Intern, Store, Drop, SetMeta, SetBaseMeta, SetMode, Capture,
                        Close, SetUpval, DebugSetUpvalue, Resume, Yield, FinalizerReturns, FullGC
  <2> QED BY <2>1, <2>3 DEF Next
<1>4. ASSUME full = "mark", RemarkUpvals \/ RemarkWeak \/ RemarkAgain \/ \E o \in Obj : Propagate(o)
      PROVE  Exact'
  <2>0. /\ Marking /\ Marking' /\ heap' = heap /\ L' = L /\ basemt' = basemt /\ tmudata' = tmudata
    BY <1>4 DEF RemarkUpvals, RemarkWeak, RemarkAgain, Propagate, Marking, ends
  <2>1. Reach' = Reach /\ Saved \subseteq Saved'
    BY <2>0, SameUse
  \* What is marked is referred to by what has been.
  <2>2. ASSUME NEW S, S \subseteq Reach \union Saved PROVE Marked(S) \subseteq Reach' \union Saved'
    <3>1. \A o \in (Reach \union Saved) \intersect Obj, x \in Obj : Arrow(o, x) => x \in Reach \union Saved
      BY <1>1
    <3>2. Marked(S) \subseteq Reach \union Saved
      <4> DEFINE R == Reach \union Saved
      <4>1. S \subseteq R /\ \A o \in R \intersect Obj, x \in Obj : Arrow(o, x) => x \in R
        BY <2>2, <3>1
      <4> HIDE DEF R
      <4>2. Marked(S) \subseteq R
        BY <1>0, <4>1, MarkedWithin
      <4> QED BY <4>2 DEF R
    <3> QED BY <2>1, <3>2
  <2>3. CASE RemarkUpvals
    <3> DEFINE S == UNION {ValueOf(u) : u \in {v \in Of("upval") : open[v] # None /\ color[v] = "gray"}}
               m == Marked(S)
    <3>1. color' = Paint(color, m) /\ weak' = weak
      BY <2>3 DEF RemarkUpvals, Mark
    <3>2. ASSUME \A o \in Allocated : ~IsWhite(o) => o \in Reach \union Saved
          PROVE  S \subseteq Reach \union Saved
      <4>1. ASSUME NEW u \in Of("upval"), color[u] = "gray", NEW x \in ValueOf(u)
            PROVE  x \in Reach \union Saved
        <5>1. u \in Allocated /\ u \in Obj /\ kind[u] = "upval" /\ Value(u, x)
          BY <4>1, Agreement DEF ArrowsAgree, Of, Allocated
        <5>2. x \in Obj /\ Arrow(u, x) /\ ~IsWhite(u)
          BY <1>0, <4>1, <5>1, ArrowTypes DEF Arrow, Value, IsWhite
        <5> QED BY <1>1, <3>2, <5>1, <5>2
      <4> QED BY <4>1
    <3> HIDE DEF S
    <3>3. (\A o \in Allocated : ~IsWhite(o) => o \in Reach \union Saved) => m \subseteq Reach' \union Saved'
      BY <2>2, <3>2
    <3> HIDE DEF m
    <3>4. \A o \in Obj : IsWhite(o)' <=> IsWhite(o) /\ o \notin m
      BY <1>0, <3>1, Painted
    <3> QED BY <1>4, <2>0, <3>1, <3>3, <3>4, ExactMarks
  <2>4. CASE RemarkWeak
    <3> DEFINE S == Things({L, basemt})
               m == Marked(S)
    <3>1. color' = Paint(color, m) /\ weak' = {}
      BY <2>4 DEF RemarkWeak
    <3>2. S \subseteq Reach
      BY UseLawsHold DEF UseLaws, Roots, Things
    <3> HIDE DEF S
    <3>3. m \subseteq Reach' \union Saved'
      BY <2>2, <3>2
    <3> HIDE DEF m
    <3>4. \A o \in Obj : IsWhite(o)' <=> IsWhite(o) /\ o \notin m
      BY <1>0, <3>1, Painted
    <3> QED BY <1>4, <2>0, <3>1, <3>3, <3>4, ExactMarks
  <2>5. CASE RemarkAgain
    <3>1. color' = color /\ weak' = weak
      BY <2>5 DEF RemarkAgain
    <3>2. \A o \in Obj : IsWhite(o)' <=> IsWhite(o) /\ o \notin {}
      BY <3>1 DEF IsWhite
    <3> DEFINE m == {}
    <3>3. m \subseteq Reach' \union Saved' /\ \A o \in Obj : IsWhite(o)' <=> IsWhite(o) /\ o \notin m
      BY <3>2
    <3> HIDE DEF m
    <3> QED BY <1>4, <2>0, <3>1, <3>3, ExactMarks
  <2>6. ASSUME NEW o \in Obj, Propagate(o)
        PROVE  Exact'
    <3> DEFINE S == StrongRefs(o)
               m == Marked(S)
               c == Paint(color, m)
    <3>1. PICK turned \in {"gray", "black"} : color' = [c EXCEPT ![o] = turned]
      BY <2>6 DEF Propagate
    <3>2. /\ o \in gray /\ ~IsWhite(o) /\ o \in Allocated
          /\ \A t \in weak' : t \in weak \/ WeakTable(t)
      BY <1>0, <2>0, <2>6 DEF Propagate, Dynamic, Lists, IsWhite, Allocated, WeakTable, IsWeak
    <3>3. ASSUME \A p \in Allocated : ~IsWhite(p) => p \in Reach \union Saved
          PROVE  S \subseteq Reach \union Saved
      <4>1. ASSUME NEW x \in S PROVE x \in Reach \union Saved
        <5>1. StrongArrow(o, x)
          BY <4>1, Agreement DEF ArrowsAgree
        <5>2. Arrow(o, x) /\ x \in Obj
          BY <1>0, <5>1, ArrowTypes DEF StrongArrow, Arrow
        <5> QED BY <1>1, <3>2, <3>3, <5>2
      <4> QED BY <4>1
    <3> HIDE DEF S
    <3>4. (\A p \in Allocated : ~IsWhite(p) => p \in Reach \union Saved) => m \subseteq Reach' \union Saved'
      BY <2>2, <3>3
    <3>5. \A x \in m : IsWhite(x)
      BY DEF Marked, White, IsWhite
    <3> HIDE DEF m
    <3>6. \A x \in Obj : c[x] \in {"white0", "white1"} <=> IsWhite(x) /\ x \notin m
      BY <1>0, PaintTyped DEF IsWhite
    <3>7. c \in [Obj -> {"white0", "white1", "gray", "black"}]
      BY <1>0, PaintTyped
    <3> HIDE DEF c
    <3>8. \A x \in Obj : IsWhite(x)' <=> IsWhite(x) /\ x \notin m
      BY <3>1, <3>2, <3>6, <3>7 DEF IsWhite
    <3> QED BY <1>4, <2>0, <3>2, <3>4, <3>8, ExactMarks
  <2> QED BY <1>4, <2>3, <2>4, <2>5, <2>6
<1>5. ASSUME full = "mark", Separate
      PROVE  Exact'
  <2> DEFINE dead == {u \in Of("udata") \ (finalized \union tmudata) : u \in White}
             due  == {u \in dead : meta[u] # None /\ "gc" \in mode[meta[u]]}
             all  == tmudata \union due
             S    == Things({meta[u] : u \in all})
             m    == (Marked(S) \ all) \union all
  <2>0. /\ Marking /\ Marking' /\ heap' = heap /\ L' = L /\ basemt' = basemt /\ tmudata' = all
        /\ color' = Paint(color, m) /\ weak' = weak
    BY <1>5 DEF Separate, Marking
  <2>1. tmudata \subseteq tmudata' /\ all \subseteq Saved'
    BY <2>0, UseLawsNext DEF UseLaws
  <2>2. all \subseteq Obj
    BY <1>0 DEF TypeOK, Of
  <2> HIDE DEF all
  <2>3. \A o \in Saved' \intersect Obj, x \in Obj : Arrow(o, x) => x \in Saved'
    BY <2>0, UseLawsNext, SameHeap DEF UseLaws
  <2>4. S \subseteq Saved'
    <3>1. ASSUME NEW u \in all, meta[u] # None PROVE meta[u] \in Saved'
      BY <1>0, <2>1, <2>2, <2>3, <3>1 DEF Arrow, TypeOK
    <3> QED BY <3>1 DEF Things
  <2> HIDE DEF S
  <2>5. m \subseteq Saved'
    <3> DEFINE R == Saved'
    <3>1. S \subseteq R /\ \A o \in R \intersect Obj, x \in Obj : Arrow(o, x) => x \in R
      BY <2>3, <2>4
    <3> HIDE DEF R
    <3>2. Marked(S) \subseteq R
      BY <1>0, <3>1, MarkedWithin
    <3> QED BY <2>1, <3>2 DEF R
  <2> HIDE DEF m
  <2>6. \A o \in Obj : IsWhite(o)' <=> IsWhite(o) /\ o \notin m
    BY <1>0, <2>0, Painted
  <2> QED BY <1>5, <2>0, <2>1, <2>5, <2>6, ExactMarks
<1>6. ASSUME full = "mark", ClearTables
      PROVE  Exact'
  <2> DEFINE seen == UNION {StringsSeen(t) : t \in weak}
  <2>0. /\ Marking /\ ~Marking' /\ L' = L /\ basemt' = basemt /\ tmudata' = tmudata
        /\ kind' = kind /\ meta' = meta /\ mode' = mode /\ stack' = stack /\ open' = open
        /\ color' = Paint(color, seen) /\ current' = Other
        /\ held' = [o \in Obj |-> IF o \in weak THEN held[o] \ ClearedEntries(o) ELSE held[o]]
    BY <1>6 DEF ClearTables, Marking, ends
  <2>1. Other' = current /\ \A o \in Allocated : IsWhite(o) => color[o] = current
    BY <1>0, <2>0, WhiteColor DEF Other, Dynamic, Colors, TypeOK
  <2>2. Allocated' = Allocated /\ \A t \in Obj : WeakTable(t)' <=> WeakTable(t)
    BY <2>0 DEF Allocated, WeakTable, IsWeak
  <2>3. \A o \in Obj : IsWhite(o)' <=> IsWhite(o) /\ o \notin seen
    BY <1>0, <2>0, Painted
  <2> HIDE DEF seen
  <2>4. \A o \in Allocated : ~IsWhite(o) => o \in Sure'
    BY <1>0, <2>1, <2>2, <2>3 DEF Sure, Dead, IsWhite, TypeOK
  <2>5. ASSUME \A t \in Sure' : ~WeakTable(t)
        PROVE  Sure' \subseteq Reach' \union Saved'
    <3>1. \A t \in Allocated : ~IsWhite(t) => ~WeakTable(t)
      BY <1>0, <2>4, <2>5
    <3>2. weak = {}
      <4>1. \A t \in weak : t \in Allocated /\ ~IsWhite(t) /\ WeakTable(t)
        BY <1>0, <1>6, <2>0 DEF Exact, Dynamic, Lists, IsWhite, Allocated, TypeOK
      <4> QED BY <3>1, <4>1
    <3>3. heap' = heap /\ \A o \in Obj : IsWhite(o)' <=> IsWhite(o)
      <4>1. held' = held
        BY <1>0, <2>0, <3>2 DEF TypeOK
      <4> QED BY <2>0, <2>3, <3>2, <4>1 DEF heap, seen
    <3>4. Reach' = Reach /\ Saved \subseteq Saved'
      BY <2>0, <3>3, SameUse
    <3>5. \A o \in Sure' : o \in Allocated /\ ~IsWhite(o)
      <4>1. \A o \in Allocated : IsWhite(o)' /\ IsWhite(o) => color'[o] = current
        BY <1>0, <2>0, <2>1, <3>2, PaintTyped DEF seen
      <4> QED BY <1>0, <2>1, <2>2, <3>3, <4>1 DEF Sure, Dead
    <3> QED BY <1>6, <2>0, <3>1, <3>4, <3>5 DEF Exact
  <2>6. Sure' \subseteq Obj
    BY DEF Sure, Allocated
  <2> QED BY <2>0, <2>2, <2>5, <2>6 DEF Exact
<1>7. ASSUME full = "mark", NEW o \in Obj, SweepString(o) \/ Sweep(o)
      PROVE  Exact'
  <2>0. PICK gone, closing : SweptAway(o, gone, closing)
    BY <1>7, SweepReleases
  <2>1. /\ \A p \in Obj : kind'[p] = IF p \in gone THEN "free" ELSE kind[p]
        /\ \A p \in Obj \ gone : meta'[p] = meta[p]
        /\ Release(gone, closing) /\ Sure' = Sure /\ \A x \in Sure : x \in Obj \ gone
    BY <2>0 DEF SweptAway
  <2>2. L' = L /\ basemt' = basemt /\ tmudata' = tmudata /\ ~Marking /\ ~Marking'
    BY <1>7 DEF SweepString, Sweep, SweepOne, Marking
  <2>3. Reach \subseteq Reach' /\ Saved \subseteq Saved'
    BY <2>0, <2>2, ReleaseUse DEF SweptAway
  <2>4. \A t \in Sure : WeakTable(t) => WeakTable(t)'
    <3> SUFFICES ASSUME NEW t \in Sure, WeakTable(t) PROVE WeakTable(t)'
      OBVIOUS
    <3>1. t \in Obj \ gone /\ meta[t] \in Obj \ gone /\ meta'[t] = meta[t] /\ kind'[t] = kind[t]
      BY <1>0, <2>1, Operands DEF WeakTable, IsWeak
    <3>2. mode'[meta[t]] = mode[meta[t]]
      BY <2>1, <3>1 DEF Release
    <3> QED BY <3>1, <3>2 DEF WeakTable, IsWeak
  <2>5. (\A t \in Sure : ~WeakTable(t)) => Sure \subseteq Reach \union Saved
    BY <1>7, <2>2 DEF Exact
  <2> QED BY <2>1, <2>2, <2>3, <2>4, <2>5 DEF Exact
<1>8. ASSUME full = "mark", EndSweepString
      PROVE  Exact'
  <2>1. /\ heap' = heap /\ L' = L /\ basemt' = basemt /\ tmudata' = tmudata /\ color' = color /\ current' = current
        /\ ~Marking /\ ~Marking'
    BY <1>8 DEF EndSweepString, ends, Marking
  <2>2. Sure' = Sure /\ \A t : WeakTable(t)' <=> WeakTable(t)
    BY <2>1 DEF Sure, Dead, Allocated, Other, heap, WeakTable, IsWeak
  <2>3. Reach' = Reach /\ Saved \subseteq Saved'
    BY <2>1, SameUse
  <2> QED BY <1>8, <2>1, <2>2, <2>3 DEF Exact
<1>9. full = "mark" => ~Mutate /\ ~Start /\ ~EndSweep /\ ~EndCycle /\ (\A u \in Obj : ~GCTM(u))
  <2>1. full = "mark" => ~Mutate /\ ~EndCycle /\ (\A u \in Obj : ~GCTM(u))
    BY DEF Mutate, Program, EndCycle, GCTM
  <2>2. full = "mark" => ~EndSweep
    BY DEF EndSweep
  <2>3. full = "mark" => ~Start
    BY <1>0 DEF Start, Dynamic, Phases
  <2> QED BY <2>1, <2>2, <2>3
<1> QED BY <1>2, <1>3, <1>4, <1>5, <1>6, <1>7, <1>8, <1>9 DEF Next, Collect

\* While a forced collection marks, then sweeps, only what is in use is left.
LEMMA ExactStep == ASSUME NoDebug, IInv, Exact, [Next]_vars PROVE Exact'
<1>1. IInv'
  BY InvariantStep
<1>2. CASE full' # "mark"
  BY <1>2 DEF Exact
<1>3. CASE full' = "mark" /\ Next
  BY <1>1, <1>3, ExactKeeps
<1>4. CASE UNCHANGED vars
  <2>1. heap' = heap /\ L' = L /\ basemt' = basemt /\ tmudata' = tmudata /\ full' = full /\ phase' = phase
        /\ color' = color /\ current' = current /\ weak' = weak
    BY <1>4 DEF vars, lists, ends
  <2>2. Reach' = Reach /\ Saved \subseteq Saved'
    BY <1>1, <2>1, SameUse
  <2>3. /\ \A t : WeakTable(t)' <=> WeakTable(t)
        /\ Sure' = Sure /\ Allocated' = Allocated /\ Marking' = Marking
        /\ \A o : IsWhite(o)' <=> IsWhite(o)
    BY <2>1 DEF Sure, Dead, Allocated, Other, heap, WeakTable, IsWeak, IsWhite, Marking
  <2> QED BY <2>1, <2>2, <2>3 DEF Exact
<1> QED BY <1>2, <1>3, <1>4

\* Once a forced collection has swept, nothing is left that cannot be got at
\* (luaC_fullgc()), if no table that is left is weak.
THEOREM Collects == ASSUME NoDebug PROVE Spec => []CollectsAll
<1>1. Init => Exact
  BY DEF Init, Exact
<1>2. IInv /\ Exact /\ [Next]_vars => Exact'
  BY ExactStep
<1>3. ASSUME IInv, Exact, full = "mark", phase = "sweep", tosweep = {},
             \A t \in Of("table") : ~IsWeak(t, "k") /\ ~IsWeak(t, "v"), NEW o \in Allocated
      PROVE  o \in Reach \union Saved
  <2>1. ~Marking
    BY <1>3 DEF Marking, AtomicPhases
  <2>2. o \in Sure \/ o \in Saved
    <3>1. CASE o \in tmudata
      BY <1>3, <3>1, UseLawsHold DEF UseLaws
    <3>2. CASE o \notin tmudata
      <4>1. color[o] = current /\ current # Other
        BY <1>3, <2>1, <3>2 DEF IInv, Colors, Unswept, Other
      <4> QED BY <4>1 DEF Sure, Dead
    <3> QED BY <3>1, <3>2
  <2>3. \A t \in Sure : ~WeakTable(t)
    BY <1>3 DEF WeakTable, Sure, Allocated, Of
  <2> QED BY <1>3, <2>1, <2>2, <2>3 DEF Exact
<1>4. IInv /\ Exact => CollectsAll
  BY <1>3 DEF CollectsAll
<1> QED BY <1>1, <1>2, <1>4, Invariance, PTL DEF Spec

-----------------------------------------------------------------------------
(* The collector implements Reclaim. *)

\* What is held whatever the finalizers to come may do.
CertainArrow(o, x) == o \notin tmudata /\ StrongArrow(o, x)

LEMMA CertainLeast ==
  ASSUME TypeOK, NEW C \in SUBSET Obj, Roots \subseteq C,
         \A o \in C, x \in Obj : CertainArrow(o, x) => x \in C
  PROVE  Certain \subseteq C
<1> DEFINE R(o) == IF o \in tmudata THEN {} ELSE StrongRefs(o)
           first == Roots \union UNION {R(o) : o \in Roots \intersect Allocated}
           arrows == UNION {{<<o, x>> : x \in R(o) \ first} : o \in Allocated \ Roots}
<1>0. first \subseteq C
  <2> SUFFICES ASSUME NEW o \in Roots \intersect Allocated, NEW x \in R(o)
               PROVE  x \in C
    OBVIOUS
  <2>1. o \in Obj /\ o \in C
    BY DEF Allocated
  <2>2. CertainArrow(o, x) /\ x \in Obj
    BY <2>1, Agreement, ArrowTypes DEF ArrowsAgree, CertainArrow
  <2> QED BY <2>1, <2>2
<1>1. ASSUME NEW a \in arrows, a[1] \in C
      PROVE  a[2] \in C
  <2>0. PICK o \in Allocated \ Roots : \E x \in R(o) : a = <<o, x>>
    OBVIOUS
  <2>1. PICK x \in R(o) : a = <<o, x>>
    BY <2>0
  <2>2. o \in Obj /\ o \in C
    BY <1>1, <2>1 DEF Allocated
  <2>3. CertainArrow(o, x) /\ x \in Obj
    BY <2>1, <2>2, Agreement, ArrowTypes DEF ArrowsAgree, CertainArrow
  <2> QED BY <2>1, <2>2, <2>3
<1>2. Along(arrows, first) \subseteq C
  <2> HIDE DEF first, arrows
  <2> QED BY <1>0, <1>1, AlongLeast
<1> QED BY <1>2 DEF Certain, Closure

LEMMA CertainClosed ==
  ASSUME TypeOK
  PROVE  /\ Roots \subseteq Certain
         /\ \A o \in Certain \intersect Allocated, x \in Obj : CertainArrow(o, x) => x \in Certain
<1> DEFINE R(o) == IF o \in tmudata THEN {} ELSE StrongRefs(o)
           first == Roots \union UNION {R(o) : o \in Roots \intersect Allocated}
           arrows == UNION {{<<o, x>> : x \in R(o) \ first} : o \in Allocated \ Roots}
<1>1. Certain = Along(arrows, first)
  BY DEF Certain, Closure
<1>2. first \subseteq Certain /\ \A a \in arrows : a[1] \in Certain => a[2] \in Certain
  <2> HIDE DEF first, arrows
  <2> QED BY <1>1, AlongClosed
<1>3. ASSUME NEW o \in Certain \intersect Allocated, NEW x \in Obj, CertainArrow(o, x), x \notin first
      PROVE  x \in Certain
  <2>1. x \in R(o) \ first /\ o \in Allocated \ Roots
    BY <1>3, Agreement DEF ArrowsAgree, Allocated, CertainArrow
  <2>2. <<o, x>> \in arrows
    BY <2>1
  <2>3. <<o, x>>[1] \in Certain => <<o, x>>[2] \in Certain
    <3> HIDE DEF first, arrows
    <3> QED BY <1>2, <2>2
  <2> QED BY <2>3
<1> QED BY <1>2, <1>3

CertainLaws == IInv =>
  /\ Certain \subseteq Reach /\ Roots \subseteq Certain
  /\ \A o \in Certain, x \in Obj : CertainArrow(o, x) => x \in Certain
  /\ \A C \in SUBSET Obj : Roots \subseteq C /\ (\A o \in C, x \in Obj : CertainArrow(o, x) => x \in C)
       => Certain \subseteq C

LEMMA CertainLawsHold == CertainLaws
<1> SUFFICES ASSUME IInv
             PROVE  /\ Certain \subseteq Reach /\ Roots \subseteq Certain
                    /\ \A o \in Certain, x \in Obj : CertainArrow(o, x) => x \in Certain
                    /\ \A C \in SUBSET Obj : Roots \subseteq C /\ (\A o \in C, x \in Obj : CertainArrow(o, x) => x \in C)
                         => Certain \subseteq C
  BY DEF CertainLaws
<1>1. TypeOK /\ Reach \in SUBSET Obj /\ Reach \subseteq Allocated
  BY UseLawsHold DEF UseLaws, IInv, Types, Sure
<1>2. ASSUME NEW C \in SUBSET Obj, Roots \subseteq C, \A o \in C, x \in Obj : CertainArrow(o, x) => x \in C
      PROVE  Certain \subseteq C
  BY <1>1, <1>2, CertainLeast
<1>3. \A o \in Reach, x \in Obj : CertainArrow(o, x) => x \in Reach
  <2>1. \A o, x : CertainArrow(o, x) => Arrow(o, x)
    BY DEF CertainArrow, StrongArrow, Arrow
  <2> QED BY <2>1, UseLawsHold DEF UseLaws
<1>4. Certain \subseteq Reach
  BY <1>1, <1>2, <1>3, UseLawsHold DEF UseLaws
<1>5. Roots \subseteq Certain /\ \A o \in Certain, x \in Obj : CertainArrow(o, x) => x \in Certain
  BY <1>1, <1>4, CertainClosed
<1> QED BY <1>2, <1>4, <1>5

LEMMA CertainLawsNext == CertainLaws'
BY CertainLawsHold, PTL

\* These sets are determined by what the objects of a set T that has them in it
\* refer to.
LEMMA SameSets ==
  ASSUME IInv, IInv', UNCHANGED <<L, basemt, tmudata>>, NEW T \in SUBSET Obj,
         Sure \subseteq T, Sure' \subseteq T,
         \A p \in T, x \in Obj : /\ Arrow(p, x)' <=> Arrow(p, x)
                                 /\ StrongArrow(p, x)' <=> StrongArrow(p, x)
  PROVE  Reach' = Reach /\ Saved' = Saved /\ Certain' = Certain
<1>1. Roots' = Roots /\ \A p \in T, x \in Obj : CertainArrow(p, x)' <=> CertainArrow(p, x)
  BY DEF Roots, Things, CertainArrow
<1>2. /\ Reach \subseteq T /\ Saved \subseteq T /\ Certain \subseteq T
      /\ Reach' \subseteq T /\ Saved' \subseteq T /\ Certain' \subseteq T
  BY UseLawsHold, UseLawsNext, CertainLawsHold, CertainLawsNext DEF UseLaws, CertainLaws
<1>3. Reach \subseteq Reach'
  BY <1>1, <1>2, UseLawsHold, UseLawsNext DEF UseLaws
<1>4. Reach' \subseteq Reach
  BY <1>1, <1>2, UseLawsHold, UseLawsNext DEF UseLaws
<1>5. Saved \subseteq Saved'
  BY <1>1, <1>2, UseLawsHold, UseLawsNext DEF UseLaws
<1>6. Saved' \subseteq Saved
  BY <1>1, <1>2, UseLawsHold, UseLawsNext DEF UseLaws
<1>7. Certain \subseteq Certain'
  BY <1>1, <1>2, CertainLawsHold, CertainLawsNext DEF CertainLaws
<1>8. Certain' \subseteq Certain
  BY <1>1, <1>2, CertainLawsHold, CertainLawsNext DEF CertainLaws
<1> QED BY <1>3, <1>4, <1>5, <1>6, <1>7, <1>8

\* The values of the program, and the userdata whose finalizer was called.
Values == Of("string") \union {u \in Of("upval") : open[u] # None}
Called == {u \in Obj : calls[u] > 0}

\* Steps of the collector that the program does not see.
LEMMA Unseen ==
  ASSUME IInv, IInv', UNCHANGED <<heap, L, basemt, ends>>
  PROVE  UNCHANGED Heap!vars
<1>1. \A p \in Obj, x \in Obj : (Arrow(p, x)' <=> Arrow(p, x)) /\ (StrongArrow(p, x)' <=> StrongArrow(p, x))
  BY SameHeap
<1>2. Obj \in SUBSET Obj /\ Sure \subseteq Obj /\ Sure' \subseteq Obj /\ UNCHANGED <<L, basemt, tmudata>>
  BY DEF Sure, Allocated, ends
<1>3. Reach' = Reach /\ Saved' = Saved /\ Certain' = Certain
  BY <1>1, <1>2, SameSets, Zenon
<1>4. Allocated' = Allocated /\ Values' = Values /\ Called' = Called /\ tmudata' = tmudata
  BY DEF Allocated, heap, ends, Values, Of, Called
<1> QED BY <1>3, <1>4 DEF Heap!vars, Values, Called

\* Only userdata in use have a finalizer called.
LEMMA CalledAllocated ==
  ASSUME IInv
  PROVE  Called \subseteq finalized /\ \A u \in Called : kind[u] = "udata" /\ u \in Allocated
BY DEF IInv, Types, TypeOK, Finalizing, Called, Allocated

LEMMA SweepFrees ==
  ASSUME IInv, IInv', NEW o \in Obj, SweepString(o) \/ Sweep(o)
  PROVE  Heap!Free
<1>1. PICK gone, closing : SweptAway(o, gone, closing)
  BY SweepReleases
<1>2. /\ Allocated' = Allocated \ gone /\ Sure' = Sure /\ Sure \subseteq Obj /\ \A x \in Sure : x \in Obj \ gone
      /\ \A x \in Obj : kind'[x] = IF x \in gone THEN "free" ELSE kind[x]
      /\ \A p \in Obj \ gone, x \in Obj : Arrow(p, x)' <=> Arrow(p, x)
      /\ \A p \in Obj \ gone : held'[p] = held[p] \/ kind[p] = "upval"
      /\ \A p \in Obj \ gone : meta'[p] = meta[p]
      /\ Release(gone, closing)
  BY <1>1 DEF SweptAway
<1>3. UNCHANGED <<L, basemt, tmudata>>
  BY DEF SweepString, Sweep, SweepOne
<1>4. ASSUME NEW p \in Sure, NEW x \in Obj PROVE StrongArrow(p, x)' <=> StrongArrow(p, x)
  <2>1. CASE kind[p] # "table"
    BY <1>2, <2>1 DEF StrongArrow
  <2>2. CASE kind[p] = "table"
    <3>1. kind'[p] = "table" /\ held'[p] = held[p] /\ meta'[p] = meta[p]
      BY <1>2, <2>2
    <3>2. meta[p] # None => meta[p] \in Obj \ gone
      BY <1>2, Operands
    <3>3. meta[p] # None => mode'[meta[p]] = mode[meta[p]]
      BY <1>2, <3>2 DEF Release
    <3>4. \A m : IsWeak(p, m)' <=> IsWeak(p, m)
      BY <2>2, <3>1, <3>3 DEF IsWeak
    <3> QED BY <2>2, <3>1, <3>4 DEF StrongArrow
  <2> QED BY <2>1, <2>2
<1>5. Reach' = Reach /\ Saved' = Saved /\ Certain' = Certain
  <2>1. /\ Sure \in SUBSET Obj /\ Sure \subseteq Sure /\ Sure' \subseteq Sure
        /\ \A p \in Sure, x \in Obj : (Arrow(p, x)' <=> Arrow(p, x)) /\ (StrongArrow(p, x)' <=> StrongArrow(p, x))
    BY <1>2, <1>4
  <2> QED BY <1>3, <2>1, SameSets, Zenon
<1>6. Called' = Called \intersect Allocated'
  <2>1. \A u \in Obj : calls'[u] = IF u \in gone THEN 0 ELSE calls[u]
    BY <1>2 DEF Release
  <2>2. \A u \in Obj : u \in Called' <=> u \in Called /\ u \notin gone
    BY <2>1 DEF Called
  <2>3. Called \subseteq Obj /\ Called' \subseteq Obj
    BY DEF Called
  <2> QED BY <1>2, <2>2, <2>3, CalledAllocated
<1>7. \A x \in Reach \union Saved : x \notin gone
  BY <1>2, UseLawsHold DEF UseLaws
<1> QED BY <1>2, <1>3, <1>5, <1>6, <1>7 DEF Heap!Free, Heap!FreesGarbage, Called

LEMMA SeparateArranges == ASSUME IInv, IInv', Separate PROVE Heap!Arrange
<1> DEFINE dead == {u \in Of("udata") \ (finalized \union tmudata) : u \in White}
           due  == {u \in dead : meta[u] # None /\ "gc" \in mode[meta[u]]}
<1>0. /\ phase = "again" /\ gray = {} /\ heap' = heap /\ L' = L /\ basemt' = basemt
      /\ tmudata' = tmudata \union due /\ calls' = calls
  BY DEF Separate
<1>1. \A u \in due : u \in Obj /\ IsWhite(u) /\ u \notin finalized
  BY DEF Of, White, IsWhite
<1> HIDE DEF due
\* All that is held strongly, but for what hangs on a pending finalizer only,
\* has been marked.
<1>2. \A x \in Certain : ~IsWhite(x)
  <2> DEFINE C == {x \in Sure : ~IsWhite(x)}
  <2>0. /\ Types /\ Static /\ Dynamic /\ Marking
    BY <1>0, Parts DEF Marking, AtomicPhases
  <2>1. C \in SUBSET Obj /\ Roots \subseteq C
    BY <1>0, <2>0, Operands DEF Dynamic, Barriers, Static, RootsSound, Roots, Things
  <2>2. ASSUME NEW o \in C, NEW x \in Obj, CertainArrow(o, x) PROVE x \in C
    <3>1. o \in Allocated /\ o \in Sure /\ ~IsWhite(o) /\ o \notin tmudata /\ StrongArrow(o, x)
      BY <2>2 DEF CertainArrow, Sure
    <3>2. ~IsWhite(x)
      BY <1>0, <3>1, AllTraversed
    <3>3. Arrow(o, x)
      BY <3>1 DEF StrongArrow, Arrow
    <3> QED BY <3>1, <3>2, <3>3, Operands
  <2>3. Certain \subseteq C
    <3> HIDE DEF C
    <3> QED BY <2>1, <2>2, CertainLawsHold DEF CertainLaws
  <2> QED BY <2>3
<1>3. Reach' = Reach /\ Saved \subseteq Saved'
  BY <1>0, SameUse
<1>4. Roots' = Roots /\ \A o, x : StrongArrow(o, x)' <=> StrongArrow(o, x)
  BY <1>0, SameHeap DEF Roots, Things
<1>5. Certain' = Certain
  <2>0. Certain \subseteq Obj /\ Certain' \subseteq Obj
    BY UseLawsHold, UseLawsNext, CertainLawsHold, CertainLawsNext DEF UseLaws, CertainLaws
  <2>1. Certain' \subseteq Certain
    <3>1. \A o \in Certain, x \in Obj : CertainArrow(o, x)' => x \in Certain
      BY <1>0, <1>4, CertainLawsHold DEF CertainLaws, CertainArrow
    <3> QED BY <1>4, <2>0, <3>1, CertainLawsHold, CertainLawsNext DEF CertainLaws
  <2>2. \A o \in Certain', x \in Obj : CertainArrow(o, x) => x \in Certain'
    <3>1. \A o \in Certain' : o \notin due
      BY <1>1, <1>2, <2>1
    <3>2. \A o \in Certain', x \in Obj : CertainArrow(o, x) => CertainArrow(o, x)'
      BY <1>0, <1>4, <3>1 DEF CertainArrow
    <3> QED BY <3>2, CertainLawsNext DEF CertainLaws
  <2>3. Certain \subseteq Certain'
    BY <1>4, <2>0, <2>2, CertainLawsHold, CertainLawsNext DEF CertainLaws
  <2> QED BY <2>1, <2>3
<1>6. Allocated' = Allocated /\ Saved' \subseteq Allocated /\ Called' = Called
  <2>1. Allocated' = Allocated /\ Called' = Called
    BY <1>0 DEF Allocated, heap, Called
  <2> QED BY <2>1, UseLawsNext DEF UseLaws, Sure
<1>7. (tmudata' \ tmudata) \intersect (Certain \union Called) = {}
  BY <1>0, <1>1, <1>2, CalledAllocated
<1> QED BY <1>0, <1>3, <1>5, <1>6, <1>7 DEF Heap!Arrange, Called

LEMMA ClearTablesClears == ASSUME IInv, IInv', ClearTables PROVE Heap!Clear
<1>0. /\ kind' = kind /\ meta' = meta /\ mode' = mode /\ stack' = stack /\ open' = open
      /\ L' = L /\ basemt' = basemt /\ tmudata' = tmudata /\ calls' = calls
      /\ \A o \in Obj : held'[o] \subseteq held[o]
  BY DEF ClearTables, ends
<1>1. \A o, m : IsWeak(o, m)' <=> IsWeak(o, m)
  BY <1>0 DEF IsWeak
<1>2. Roots' = Roots /\ \A o \in Obj, x \in Obj : Arrow(o, x)' => Arrow(o, x)
  BY <1>0 DEF Roots, Things, Arrow, Value
<1>3. \A o \in Obj, x \in Obj : CertainArrow(o, x)' => CertainArrow(o, x)
  BY <1>0, <1>1, <1>2 DEF CertainArrow, StrongArrow
<1>4. Reach \subseteq Obj /\ Saved \subseteq Obj /\ Certain \subseteq Obj
  BY UseLawsHold, CertainLawsHold DEF UseLaws, CertainLaws
<1>5. Reach' \subseteq Reach
  BY <1>2, <1>4, UseLawsHold, UseLawsNext DEF UseLaws
<1>6. Saved' \subseteq Saved
  BY <1>0, <1>2, <1>4, UseLawsHold, UseLawsNext DEF UseLaws
<1>7. Certain' \subseteq Certain
  BY <1>2, <1>3, <1>4, CertainLawsHold, CertainLawsNext DEF CertainLaws
<1>8. Allocated' = Allocated /\ Called' = Called
  BY <1>0 DEF Allocated, Called
<1> QED BY <1>0, <1>5, <1>6, <1>7, <1>8 DEF Heap!Clear, Called

LEMMA GCTMCalls == ASSUME IInv, IInv', NEW u \in Obj, GCTM(u) PROVE Heap!Call(u)
<1> DEFINE has == meta[u] # None /\ "gc" \in mode[meta[u]]
<1>0. /\ u \in tmudata /\ tmudata' = tmudata \ {u} /\ kind' = kind /\ held' = held /\ meta' = meta
      /\ open' = open /\ L' = L /\ basemt' = basemt
      /\ stack' = IF has THEN [stack EXCEPT ![L][Top] = u] ELSE stack
      /\ calls' = IF has THEN [calls EXCEPT ![u] = @ + 1] ELSE calls
  BY DEF GCTM
<1>1. TypeOK /\ L \in Obj /\ Top \in Places /\ u \in Obj \union {None} /\ calls[u] = 0
  BY <1>0, Operands DEF Places, IInv, Finalizing
<1> HIDE DEF has
<1>2. ASSUME NEW o \in Obj, NEW x \in Obj, Arrow(o, x)'
      PROVE  Arrow(o, x) \/ x = u
  <2>1. CASE ~has
    BY <1>0, <1>2, <2>1 DEF Arrow, Value
  <2>2. CASE has
    <3>1. /\ stack' = [stack EXCEPT ![L][Top] = u] /\ kind'[o] = kind[o] /\ held'[o] = held[o]
          /\ meta'[o] = meta[o] /\ open'[o] = open[o]
      BY <1>0, <2>2
    <3>2. Arrow(o, x) \/ (x = u /\ (o = L \/ open[o] # None) /\ kind[o] \in {"thread", "upval"})
      BY <1>1, <1>2, <3>1, SlotArrows, Zenon
    <3> QED BY <3>2
  <2> QED BY <2>1, <2>2
<1>3. /\ Roots' = Roots /\ u \in Saved /\ Reach \subseteq Obj /\ Saved \subseteq Obj
      /\ Roots \subseteq Reach /\ tmudata \subseteq Saved
  BY <1>0, UseLawsHold DEF Roots, Things, UseLaws
<1>4. Reach' \subseteq Reach \union Saved
  <2> DEFINE C == Reach \union Saved
  <2>1. \A o \in C, x \in Obj : Arrow(o, x)' => x \in C
    BY <1>2, <1>3, UseLawsHold DEF UseLaws
  <2>2. C \in SUBSET Obj /\ Roots' \subseteq C
    BY <1>3
  <2> HIDE DEF C
  <2>3. Reach' \subseteq C
    BY <2>1, <2>2, UseLawsNext DEF UseLaws
  <2> QED BY <2>3 DEF C
<1>5. Saved' \subseteq Saved
  <2>1. \A o \in Saved, x \in Obj : Arrow(o, x)' => x \in Saved
    BY <1>2, <1>3, UseLawsHold DEF UseLaws
  <2> QED BY <1>0, <1>3, <2>1, UseLawsNext DEF UseLaws
<1>6. Called' \in {Called, Called \union {u}}
  <2>1. CASE ~has
    BY <1>0, <2>1 DEF Called
  <2>2. CASE has
    <3>1. \A o \in Obj : calls'[o] = IF o = u THEN 1 ELSE calls[o]
      BY <1>0, <1>1, <2>2 DEF TypeOK
    <3>2. \A o : o \in Called' <=> o \in Called \union {u}
      BY <3>1 DEF Called
    <3> QED BY <3>2
  <2> QED BY <2>1, <2>2
<1>7. u \notin Called /\ Allocated' = Allocated
  BY <1>0, <1>1 DEF Called, Allocated
<1> QED BY <1>0, <1>4, <1>5, <1>6, <1>7 DEF Heap!Call, Called

\* A step of the program, K being the objects it makes or knows by name.
LEMMA WorkFrom ==
  ASSUME IInv, IInv', NEW K \in SUBSET Obj, tmudata' = tmudata, Called' = Called,
         K \subseteq Values \union (Allocated' \ Allocated),
         \A o \in Sure : kind'[o] # "free",
         Roots' \subseteq Reach,
         \A o \in Sure, x \in Obj : Arrow(o, x)' => Arrow(o, x) \/ (x \in Reach' /\ x \in Reach \union K),
         \A o \in K, x \in Obj : Arrow(o, x)' => x \in Reach \union K
  PROVE  Heap!Work
<1>1. /\ Reach \subseteq Sure /\ Saved \subseteq Sure /\ Sure \subseteq Obj /\ Roots \subseteq Reach
      /\ tmudata \subseteq Saved /\ Reach' \subseteq Obj
      /\ \A o \in Reach, x \in Obj : Arrow(o, x) => x \in Reach
      /\ \A o \in Saved, x \in Obj : Arrow(o, x) => x \in Saved
      /\ \A o \in Reach', x \in Obj : Arrow(o, x)' => x \in Reach'
  BY UseLawsHold, UseLawsNext DEF UseLaws
<1>2. Reach' \subseteq Reach \union K
  <2> DEFINE C == Reach \union K
  <2>1. \A o \in C, x \in Obj : Arrow(o, x)' => x \in C
    BY <1>1
  <2>2. C \in SUBSET Obj /\ Roots' \subseteq C
    BY <1>1
  <2> HIDE DEF C
  <2>3. Reach' \subseteq C
    BY <2>1, <2>2, UseLawsNext DEF UseLaws
  <2> QED BY <2>3 DEF C
<1>3. Saved' \subseteq Saved \union Reach'
  <2> DEFINE C == Saved \union Reach'
  <2>1. \A o \in C, x \in Obj : Arrow(o, x)' => x \in C
    BY <1>1
  <2>2. C \in SUBSET Obj /\ tmudata' \subseteq C
    BY <1>1
  <2> HIDE DEF C
  <2>3. Saved' \subseteq C
    BY <2>1, <2>2, UseLawsNext DEF UseLaws
  <2> QED BY <2>3 DEF C
<1>4. \A o \in Allocated \ Allocated' : o \notin Reach \union Saved
  BY <1>1 DEF Sure, Allocated
<1>5. Reach' \subseteq Reach \union Values \union (Allocated' \ Allocated)
  BY <1>2
<1> QED BY <1>3, <1>4, <1>5 DEF Heap!Work, Heap!FreesGarbage, Values, Called

\* What the running thread has in a slot it can get at.
LEMMA OnStack ==
  ASSUME IInv', NEW s \in Places, NEW v \in Obj, stack'[L'][s] = v
  PROVE  v \in Reach'
<1>1. L' \in Reach' /\ kind'[L'] = "thread" /\ v # None
  <2>1. L' \in Roots' /\ kind'[L'] = "thread"
    BY ObjectsAssumption DEF IInv, Types, TypeOK, RootsSound, Roots, Things
  <2> QED BY <2>1, UseLawsNext, ObjectsAssumption DEF UseLaws
<1>2. Arrow(L, v)'
  BY <1>1 DEF Arrow
<1> QED BY <1>1, <1>2, UseLawsNext DEF UseLaws

\* When the program writes to what it can reach, it can still reach something
\* that it has written to.
LEMMA StillReached ==
  ASSUME IInv, IInv', UNCHANGED <<L, basemt>>, NEW W,
         \A o \in Obj, x \in Obj : o \notin W => (Arrow(o, x) => Arrow(o, x)'),
         \E w \in W : w \in Reach
  PROVE  \E w \in W : w \in Reach'
<1> SUFFICES ASSUME \A w \in W : w \notin Reach' PROVE FALSE
  OBVIOUS
<1>1. Roots' = Roots /\ Reach' \in SUBSET Obj
  BY UseLawsNext DEF Roots, Things, UseLaws
<1>2. \A o \in Reach', x \in Obj : Arrow(o, x) => x \in Reach'
  BY <1>1, UseLawsNext DEF UseLaws
<1>3. Reach \subseteq Reach'
  BY <1>1, <1>2, UseLawsHold, UseLawsNext DEF UseLaws
<1> QED BY <1>3

LEMMA SetStackWorks ==
  ASSUME IInv, IInv', NEW s \in Slots, NEW v \in Usable, SetStack(s, v)
  PROVE  Heap!Work
<1>0. /\ stack' = [stack EXCEPT ![L][s] = v] /\ kind' = kind /\ held' = held /\ meta' = meta /\ open' = open
      /\ L' = L /\ basemt' = basemt /\ tmudata' = tmudata /\ calls' = calls
  BY DEF SetStack, ends
<1>1. /\ L \in Obj /\ s \in Places /\ TypeOK /\ v \in Obj \union {None} /\ (v # None => v \in Reach)
      /\ Sure \subseteq Obj /\ \A o \in Sure : kind'[o] # "free"
  BY <1>0, Operands DEF Places, Usable
<1>2. v # None => v \in Reach'
  <2>1. \A p \in Obj, q \in Places : stack'[p][q] = IF p = L /\ q = s THEN v ELSE stack[p][q]
    BY <1>0, <1>1, SlotWritten, Zenon
  <2> QED BY <1>0, <1>1, <2>1, OnStack
<1>3. ASSUME NEW o \in Sure, NEW x \in Obj, Arrow(o, x)'
      PROVE  Arrow(o, x) \/ (x \in Reach' /\ x \in Reach \union {})
  <2>1. o \in Obj /\ kind'[o] = kind[o] /\ held'[o] = held[o] /\ meta'[o] = meta[o] /\ open'[o] = open[o]
    BY <1>0, <1>1
  <2>2. Arrow(o, x) \/ (x = v /\ (o = L \/ open[o] # None) /\ kind[o] \in {"thread", "upval"})
    BY <1>0, <1>1, <1>3, <2>1, SlotArrows, Zenon
  <2> QED BY <1>1, <1>2, <2>2, ObjectsAssumption
<1>4. Roots' \subseteq Reach /\ Called' = Called
  BY <1>0, UseLawsHold DEF Roots, Things, UseLaws, Called
<1> QED BY <1>0, <1>1, <1>3, <1>4, WorkFrom

LEMMA CreateWorks ==
  ASSUME IInv, IInv', NEW s \in Slots, NEW o \in Obj, NEW k \in ObjectKinds, Create(o, k, s)
  PROVE  Heap!Work
<1>0. /\ kind[o] = "free" /\ k # "free" /\ k # "upval" /\ kind'[o] = k
      /\ \A p \in Obj \ {o} : kind'[p] = kind[p] /\ meta'[p] = meta[p]
      /\ meta'[o] = IF k = "thread" THEN meta[L] ELSE None
      /\ stack' = [stack EXCEPT ![L][s] = o]
      /\ held' = held /\ open' = open /\ L' = L /\ basemt' = basemt /\ tmudata' = tmudata /\ calls' = calls
  BY Operands DEF Create, ObjectKinds, ends, TypeOK
<1>1. /\ L \in Obj /\ L # o /\ s \in Places /\ TypeOK /\ o \in Obj \union {None}
      /\ held[o] = {} /\ open[o] = None /\ \A q \in Places : stack[o][q] = None
  BY <1>0, Operands DEF Places, Blank
<1>2. \A p \in Obj, q \in Places : stack'[p][q] = IF p = L /\ q = s THEN o ELSE stack[p][q]
  BY <1>0, <1>1, SlotWritten, Zenon
<1>3. o \in Reach'
  BY <1>0, <1>1, <1>2, OnStack
<1>4. ASSUME NEW p \in Sure, NEW x \in Obj, Arrow(p, x)'
      PROVE  Arrow(p, x) \/ (x \in Reach' /\ x \in Reach \union {o})
  <2>1. p \in Obj /\ kind'[p] = kind[p] /\ held'[p] = held[p] /\ meta'[p] = meta[p] /\ open'[p] = open[p]
    BY <1>0, Operands
  <2>2. Arrow(p, x) \/ (x = o /\ (p = L \/ open[p] # None) /\ kind[p] \in {"thread", "upval"})
    BY <1>0, <1>1, <1>4, <2>1, SlotArrows, Zenon
  <2> QED BY <1>3, <2>2
<1>5. ASSUME NEW x \in Obj, Arrow(o, x)'
      PROVE  x \in Reach
  <2>1. x = meta[L] /\ x # None
    BY <1>0, <1>1, <1>2, <1>5 DEF Arrow, Value
  <2>2. Arrow(L, x) /\ L \in Reach
    BY <1>1, <2>1, UseLawsHold, ObjectsAssumption DEF Arrow, UseLaws, Roots, Things
  <2> QED BY <2>2, UseLawsHold DEF UseLaws
<1>6. /\ Roots' \subseteq Reach /\ Called' = Called /\ o \in Allocated' \ Allocated
      /\ \A p \in Sure : kind'[p] # "free"
  BY <1>0, Operands, UseLawsHold DEF Roots, Things, UseLaws, Called, Allocated
<1>7. {o} \in SUBSET Obj /\ {o} \subseteq Values \union (Allocated' \ Allocated)
      /\ \A p \in {o}, x \in Obj : Arrow(p, x)' => x \in Reach \union {o}
  BY <1>5, <1>6
<1> QED BY <1>0, <1>4, <1>6, <1>7, WorkFrom

LEMMA InternWorks ==
  ASSUME IInv, IInv', NEW s \in Slots, NEW o \in Obj, Intern(o, s)
  PROVE  Heap!Work
<1>0. /\ kind[o] = "string" /\ kind' = kind /\ held' = held /\ meta' = meta /\ open' = open
      /\ stack' = [stack EXCEPT ![L][s] = o] /\ L' = L /\ basemt' = basemt /\ tmudata' = tmudata /\ calls' = calls
  BY DEF Intern, ends
<1>1. L \in Obj /\ s \in Places /\ TypeOK /\ o \in Obj \union {None} /\ held[o] = {} /\ open[o] = None /\ meta[o] = None
  BY <1>0, Operands DEF Places, Blank
<1>2. o \in Reach'
  <2>1. \A p \in Obj, q \in Places : stack'[p][q] = IF p = L /\ q = s THEN o ELSE stack[p][q]
    BY <1>0, <1>1, SlotWritten, Zenon
  <2> QED BY <1>0, <1>1, <2>1, OnStack
<1>3. ASSUME NEW p \in Sure, NEW x \in Obj, Arrow(p, x)'
      PROVE  Arrow(p, x) \/ (x \in Reach' /\ x \in Reach \union {o})
  <2>1. p \in Obj /\ kind'[p] = kind[p] /\ held'[p] = held[p] /\ meta'[p] = meta[p] /\ open'[p] = open[p]
    BY <1>0, Operands
  <2>2. Arrow(p, x) \/ (x = o /\ (p = L \/ open[p] # None) /\ kind[p] \in {"thread", "upval"})
    BY <1>0, <1>1, <1>3, <2>1, SlotArrows, Zenon
  <2> QED BY <1>2, <2>2
<1>4. \A x \in Obj : ~Arrow(o, x)'
  BY <1>0, <1>1 DEF Arrow
<1>5. Roots' \subseteq Reach /\ Called' = Called /\ o \in Values /\ \A p \in Sure : kind'[p] # "free"
  BY <1>0, Operands, UseLawsHold DEF Roots, Things, UseLaws, Called, Values, Of
<1>6. {o} \in SUBSET Obj /\ {o} \subseteq Values \union (Allocated' \ Allocated)
      /\ \A p \in {o}, x \in Obj : Arrow(p, x)' => x \in Reach \union {o}
  BY <1>4, <1>5
<1> QED BY <1>0, <1>3, <1>5, <1>6, WorkFrom

LEMMA CaptureWorks ==
  ASSUME IInv, IInv', NEW f \in Obj, NEW u \in Obj, NEW s \in Slots, NEW into \in Slots,
         Capture(f, u, s, into)
  PROVE  Heap!Work
<1>0. /\ kind[f] = "free" /\ f # u /\ (kind[u] = "free" \/ (kind[u] = "upval" /\ open[u] = <<L, s>>))
      /\ stack' = [stack EXCEPT ![L][into] = f] /\ L' = L /\ basemt' = basemt /\ tmudata' = tmudata /\ calls' = calls
  BY DEF Capture, OpenUpvals, Of, ends
<1>1. /\ L \in Obj /\ kind[L] = "thread" /\ L # f /\ L # u /\ into \in Places /\ s \in Places
      /\ TypeOK /\ f \in Obj \union {None} /\ <<L, s>> # None
  BY <1>0, ObjectsAssumption, Operands DEF Places, Top
<1>2. /\ kind'[f] = "function" /\ kind'[u] = "upval" /\ \A o \in Obj \ {f, u} : kind'[o] = kind[o]
      /\ open'[u] = <<L, s>> /\ \A o \in Obj \ {u} : open'[o] = open[o]
      /\ held'[f] = {<<None, u>>} /\ \A o \in Obj \ {f} : held'[o] = held[o]
      /\ meta'[f] = meta[L] /\ \A o \in Obj \ {f} : meta'[o] = meta[o]
  BY <1>0, <1>1 DEF Capture, TypeOK
<1>3. \A p \in Obj, q \in Places : stack'[p][q] = IF p = L /\ q = into THEN f ELSE stack[p][q]
  BY <1>0, <1>1, SlotWritten, Zenon
<1>4. f \in Reach' /\ L \in Reach
  <2>1. f \in Reach'
    BY <1>0, <1>1, <1>3, OnStack
  <2>2. L \in Reach
    BY <1>1, UseLawsHold, ObjectsAssumption DEF UseLaws, Roots, Things
  <2> QED BY <2>1, <2>2
<1>5. ASSUME NEW q \in Places, stack[L][q] \in Obj
      PROVE  stack[L][q] \in Reach
  <2>1. Arrow(L, stack[L][q])
    BY <1>1, <1>5, ObjectsAssumption DEF Arrow
  <2> QED BY <1>4, <1>5, <2>1, UseLawsHold DEF UseLaws
<1>6. ASSUME NEW x \in Obj, Arrow(f, x)'
      PROVE  x \in Reach \union {f, u}
  <2>1. x = u \/ (x = meta[L] /\ x # None)
    BY <1>2, <1>6 DEF Arrow
  <2>2. CASE x = meta[L] /\ x # None
    <3>1. Arrow(L, x)
      BY <2>2 DEF Arrow
    <3> QED BY <1>4, <3>1, UseLawsHold DEF UseLaws
  <2> QED BY <2>1, <2>2
<1>7. ASSUME NEW x \in Obj, Arrow(u, x)'
      PROVE  x = stack'[L][s] /\ x \in Reach \union {f}
  <2>1. meta'[u] = None
    BY <1>2 DEF IInv, Blank
  <2>2. x = stack'[L][s]
    BY <1>1, <1>2, <1>7, <2>1 DEF Arrow, Value
  <2> QED BY <1>1, <1>3, <1>5, <2>2
<1>8. ASSUME NEW p \in Sure, NEW x \in Obj, Arrow(p, x)'
      PROVE  Arrow(p, x) \/ (x \in Reach' /\ x \in Reach \union {f, u})
  <2>1. CASE p # u
    <3>1. p \in Obj /\ kind'[p] = kind[p] /\ held'[p] = held[p] /\ meta'[p] = meta[p] /\ open'[p] = open[p]
      BY <1>0, <1>2, <2>1, Operands
    <3>2. Arrow(p, x) \/ (x = f /\ (p = L \/ open[p] # None) /\ kind[p] \in {"thread", "upval"})
      BY <1>0, <1>1, <1>8, <3>1, SlotArrows, Zenon
    <3> QED BY <1>4, <3>2
  <2>2. CASE p = u
    <3>1. Arrow(u, x)'
      BY <1>8, <2>2
    <3>2. x = stack'[L][s] /\ x \in Reach \union {f}
      BY <1>7, <3>1
    <3>3. x \in Reach'
      BY <1>0, <1>1, <3>2, OnStack
    <3> QED BY <3>2, <3>3
  <2> QED BY <2>1, <2>2
<1>9. Roots' \subseteq Reach /\ Called' = Called /\ \A p \in Sure : kind'[p] # "free"
  BY <1>0, <1>2, Operands, UseLawsHold DEF Roots, Things, UseLaws, Called
<1>10. {f, u} \in SUBSET Obj /\ {f, u} \subseteq Values \union (Allocated' \ Allocated)
       /\ \A p \in {f, u}, x \in Obj : Arrow(p, x)' => x \in Reach \union {f, u}
  <2>1. f \in Allocated' \ Allocated /\ (u \in Allocated' \ Allocated \/ u \in Values)
    BY <1>0, <1>1, <1>2 DEF Allocated, Values, Of
  <2> QED BY <1>6, <1>7, <2>1
<1> QED BY <1>0, <1>8, <1>9, <1>10, WorkFrom

\* A write to the objects of W, some of which the program can reach: each gets
\* references to those of V, which it can reach too, and no others.
LEMMA WriteWorks ==
  ASSUME IInv, IInv', UNCHANGED <<kind, L, basemt, tmudata, calls>>,
         NEW W, NEW V \in SUBSET Reach, \E w \in W : w \in Reach,
         \A o \in Obj, x \in Obj : o \notin W => (Arrow(o, x)' <=> Arrow(o, x)),
         \A o \in Obj, x \in Obj : o \in W /\ Arrow(o, x)' => Arrow(o, x) \/ x \in V,
         \A o \in Obj, x \in V : o \in W => Arrow(o, x)'
  PROVE  Heap!Work
<1>1. PICK w \in W : w \in Reach'
  BY StillReached
<1>2. Reach \subseteq Obj /\ Reach' \subseteq Obj /\ Sure \subseteq Obj
  BY UseLawsHold, UseLawsNext DEF UseLaws
<1>3. \A x \in V : x \in Reach'
  BY <1>1, <1>2, UseLawsNext DEF UseLaws
<1> DEFINE K == {}
<1>4. \A o \in Sure, x \in Obj : Arrow(o, x)' => Arrow(o, x) \/ (x \in Reach' /\ x \in Reach \union K)
  BY <1>2, <1>3
<1>5. /\ Roots' \subseteq Reach /\ Called' = Called /\ \A o \in Sure : kind'[o] # "free"
      /\ tmudata' = tmudata
  BY Operands, UseLawsHold DEF Roots, Things, UseLaws, Called
<1>6. /\ K \in SUBSET Obj /\ K \subseteq Values \union (Allocated' \ Allocated)
      /\ \A o \in K, x \in Obj : Arrow(o, x)' => x \in Reach \union K
  OBVIOUS
<1> HIDE DEF K
<1> QED BY <1>4, <1>5, <1>6, WorkFrom, Zenon

LEMMA StoreWorks ==
  ASSUME IInv, IInv', NEW t \in Reach, kind[t] = "table",
         NEW k \in Usable, NEW v \in Usable, Store(t, k, v)
  PROVE  Heap!Work
<1> DEFINE V == Things({k, v})
           W == {t}
<1>0. /\ kind' = kind /\ meta' = meta /\ open' = open /\ stack' = stack
      /\ L' = L /\ basemt' = basemt /\ tmudata' = tmudata /\ calls' = calls
      /\ \A o \in Obj \ {t} : held'[o] = held[o]
      /\ \A e \in held'[t] : e \in held[t] \/ e = <<k, v>>
      /\ <<k, v>> \in held'[t]
  BY Operands DEF Store, TypeOK, ends
<1>1. V \in SUBSET Reach /\ t \in Obj /\ \A x \in V : x # None /\ (x = k \/ x = v)
  BY Operands DEF Things, Usable
<1>2. \A o \in Obj, x \in Obj : o # t => (Arrow(o, x)' <=> Arrow(o, x))
  BY <1>0 DEF Arrow, Value
<1>3. ASSUME NEW x \in Obj, Arrow(t, x)'
      PROVE  Arrow(t, x) \/ x \in V
  <2>1. CASE x = meta[t]
    BY <1>0, <1>3, <2>1 DEF Arrow
  <2>2. CASE x # meta[t]
    <3>1. PICK e \in held'[t] : x = e[1] \/ x = e[2]
      BY <1>0, <1>3, <2>2 DEF Arrow
    <3>2. CASE e \in held[t]
      BY <1>3, <3>1, <3>2 DEF Arrow
    <3>3. CASE e = <<k, v>>
      BY <3>1, <3>3, ObjectsAssumption DEF Things
    <3> QED BY <1>0, <3>2, <3>3
  <2> QED BY <2>1, <2>2
<1>4. ASSUME NEW x \in V
      PROVE  Arrow(t, x)'
  <2>1. x = <<k, v>>[1] \/ x = <<k, v>>[2]
    BY <1>1
  <2>2. \E e \in held'[t] : x = e[1] \/ x = e[2]
    BY <1>0, <2>1
  <2> QED BY <1>0, <1>1, <2>2 DEF Arrow
<1>5. (\E w \in W : w \in Reach) /\ \A o : o \in W <=> o = t
  OBVIOUS
<1> HIDE DEF V, W
<1>6. /\ UNCHANGED <<kind, L, basemt, tmudata, calls>> /\ V \in SUBSET Reach
      /\ \E w \in W : w \in Reach
      /\ \A p \in Obj, x \in Obj : p \notin W => (Arrow(p, x)' <=> Arrow(p, x))
      /\ \A p \in Obj, x \in Obj : p \in W /\ Arrow(p, x)' => Arrow(p, x) \/ x \in V
      /\ \A p \in Obj, x \in V : p \in W => Arrow(p, x)'
  BY <1>0, <1>1, <1>2, <1>3, <1>4, <1>5
<1> QED BY <1>6, WriteWorks, Zenon

LEMMA SetMetaWorks ==
  ASSUME IInv, IInv', NEW o \in Usable \ {None}, NEW t \in Reach \union {None}, SetMeta(o, t)
  PROVE  Heap!Work
<1> DEFINE V == Things({t})
           W == {o}
<1>0. /\ kind' = kind /\ held' = held /\ open' = open /\ stack' = stack
      /\ L' = L /\ basemt' = basemt /\ tmudata' = tmudata /\ calls' = calls
      /\ meta' = [meta EXCEPT ![o] = t]
  BY DEF SetMeta, ends
<1>1. V \in SUBSET Reach /\ o \in Obj /\ o \in Reach /\ TypeOK /\ \A x \in V : x # None /\ x = t
  BY Operands DEF Things, Usable
<1>2. meta'[o] = t /\ \A p \in Obj \ {o} : meta'[p] = meta[p]
  BY <1>0, <1>1 DEF TypeOK
<1>3. \A p \in Obj, x \in Obj : p # o => (Arrow(p, x)' <=> Arrow(p, x))
  BY <1>0, <1>2 DEF Arrow, Value
<1>4. \A x \in Obj : Arrow(o, x)' => Arrow(o, x) \/ x \in V
  BY <1>0, <1>2, ObjectsAssumption DEF Arrow, Value, Things
<1>5. \A x \in V : Arrow(o, x)'
  BY <1>1, <1>2 DEF Arrow
<1>6. (\E w \in W : w \in Reach) /\ \A p : p \in W <=> p = o
  BY <1>1
<1> HIDE DEF V, W
<1>7. /\ UNCHANGED <<kind, L, basemt, tmudata, calls>> /\ V \in SUBSET Reach
      /\ \E w \in W : w \in Reach
      /\ \A p \in Obj, x \in Obj : p \notin W => (Arrow(p, x)' <=> Arrow(p, x))
      /\ \A p \in Obj, x \in Obj : p \in W /\ Arrow(p, x)' => Arrow(p, x) \/ x \in V
      /\ \A p \in Obj, x \in V : p \in W => Arrow(p, x)'
  BY <1>0, <1>1, <1>3, <1>4, <1>5, <1>6
<1> QED BY <1>7, WriteWorks, Zenon

LEMMA SetUpvalWorks ==
  ASSUME IInv, IInv', NEW u \in Reach, NEW v \in Usable, SetUpval(u, v)
  PROVE  Heap!Work
<1> DEFINE V == Things({v})
<1>0. /\ kind' = kind /\ meta' = meta /\ open' = open /\ L' = L /\ basemt' = basemt
      /\ tmudata' = tmudata /\ calls' = calls /\ kind[u] = "upval" /\ WriteUpval(u, v)
  BY DEF SetUpval, ends
<1>1. /\ V \in SUBSET Reach /\ u \in Obj /\ TypeOK /\ v \in Obj \union {None}
      /\ \A x : x \in V <=> x # None /\ x = v
  BY Operands DEF Things, Usable
<1>2. CASE open[u] = None
  <2> DEFINE W == {u}
  <2>1. stack' = stack /\ held' = [held EXCEPT ![u] = {<<None, x>> : x \in Things({v})}]
    BY <1>0, <1>2 DEF WriteUpval
  <2> HIDE DEF V
  <2>2. /\ \A o \in Obj \ {u} : held'[o] = held[o]
        /\ \A e \in held'[u] : e[2] \in V
        /\ \A x \in V : <<None, x>> \in held'[u]
    <3>1. held'[u] = {<<None, x>> : x \in V} /\ \A o \in Obj \ {u} : held'[o] = held[o]
      BY <1>1, <2>1 DEF TypeOK, V
    <3>2. ASSUME NEW e \in held'[u] PROVE e[2] \in V
      <4>1. PICK x \in V : e = <<None, x>>
        BY <3>1
      <4> QED BY <4>1
    <3> QED BY <3>1, <3>2
  <2>3. \A o \in Obj, x \in Obj : o # u => (Arrow(o, x)' <=> Arrow(o, x))
    BY <1>0, <2>1, <2>2 DEF Arrow, Value
  <2>4. meta'[u] = None
    BY <1>0, <1>1 DEF IInv, Blank
  <2>5. \A x \in Obj : Arrow(u, x)' => x \in V
    BY <1>0, <1>2, <2>2, <2>4 DEF Arrow, Value
  <2>6. ASSUME NEW x \in V PROVE Arrow(u, x)'
    <3>1. x = <<None, x>>[2] /\ <<None, x>> \in held'[u] /\ x # None
      BY <1>1, <2>2
    <3>2. \E e \in held'[u] : x = e[2]
      BY <3>1
    <3> QED BY <1>0, <1>2, <3>1, <3>2 DEF Arrow, Value
  <2>7. (\E w \in W : w \in Reach) /\ \A p : p \in W <=> p = u
    OBVIOUS
  <2> HIDE DEF W
  <2>8. /\ UNCHANGED <<kind, L, basemt, tmudata, calls>> /\ V \in SUBSET Reach
        /\ \E w \in W : w \in Reach
        /\ \A p \in Obj, x \in Obj : p \notin W => (Arrow(p, x)' <=> Arrow(p, x))
        /\ \A p \in Obj, x \in Obj : p \in W /\ Arrow(p, x)' => Arrow(p, x) \/ x \in V
        /\ \A p \in Obj, x \in V : p \in W => Arrow(p, x)'
    BY <1>0, <1>1, <2>3, <2>5, <2>6, <2>7
  <2> QED BY <2>8, WriteWorks, Zenon
<1>3. CASE open[u] # None
  <2> HIDE DEF V
  <2>1. PICK th \in Obj, s \in Slots : open[u] = <<th, s>>
    BY <1>1, <1>3 DEF TypeOK
  <2> DEFINE W == {th} \union {p \in Obj : kind[p] = "upval" /\ open[p] = <<th, s>>}
  <2>2. stack' = [stack EXCEPT ![th][s] = v] /\ held' = held /\ s \in Places
    <3>1. open[u][1] = th /\ open[u][2] = s
      BY <2>1
    <3> QED BY <1>0, <1>3, <3>1 DEF WriteUpval, Places
  <2>3. kind[th] = "thread"
    BY <1>1, <1>3, <2>1, Operands DEF Blank
  <2>4. \A p \in Obj, q \in Places : stack'[p][q] = IF p = th /\ q = s THEN v ELSE stack[p][q]
    BY <1>1, <2>2, SlotWritten, Zenon
  <2>5. /\ \A p \in Obj : p \in W <=> p = th \/ (kind[p] = "upval" /\ open[p] = <<th, s>>)
        /\ u \in W
    BY <1>0, <1>1, <2>1
  <2> HIDE DEF W
  <2>6. ASSUME NEW p \in Obj, NEW x \in Obj, p \notin W
        PROVE  Arrow(p, x)' <=> Arrow(p, x)
    <3>1. p # th /\ (kind[p] = "upval" => open[p] # <<th, s>>)
      BY <2>5, <2>6
    <3>2. kind[p] = "upval" => (Value(p, x)' <=> Value(p, x))
      <4>1. CASE open[p] = None
        BY <1>0, <2>2, <4>1 DEF Value
      <4>2. CASE open[p] # None /\ kind[p] = "upval"
        <5>1. PICK a \in Obj, b \in Slots : open[p] = <<a, b>>
          BY <1>1, <4>2 DEF TypeOK
        <5>2. stack'[a][b] = stack[a][b]
          BY <2>4, <3>1, <4>2, <5>1 DEF Places
        <5> QED BY <1>0, <4>2, <5>1, <5>2 DEF Value
      <4> QED BY <4>1, <4>2
    <3>3. \A q \in Places : stack'[p][q] = stack[p][q]
      BY <2>4, <3>1
    <3> QED BY <1>0, <2>2, <3>2, <3>3 DEF Arrow
  <2>7. ASSUME NEW p \in Obj, NEW x \in Obj, Arrow(p, x)'
        PROVE  Arrow(p, x) \/ x \in V
    <3>1. kind'[p] = kind[p] /\ held'[p] = held[p] /\ meta'[p] = meta[p] /\ open'[p] = open[p]
      BY <1>0, <2>2
    <3>2. Arrow(p, x) \/ (x = v /\ (p = th \/ open[p] # None) /\ kind[p] \in {"thread", "upval"})
      BY <1>1, <2>2, <2>7, <3>1, SlotArrows, Zenon
    <3> QED BY <1>1, <3>2, ObjectsAssumption
  <2>8. ASSUME NEW p \in Obj, NEW x \in V, p \in W
        PROVE  Arrow(p, x)'
    <3>1. x = v /\ x # None
      BY <1>1
    <3>2. CASE p = th
      BY <1>0, <2>2, <2>3, <2>4, <3>1, <3>2 DEF Arrow
    <3>3. CASE kind[p] = "upval" /\ open[p] = <<th, s>>
      <4>1. open'[p] # None /\ open'[p][1] = th /\ open'[p][2] = s /\ kind'[p] = "upval"
        BY <1>0, <2>1, <1>3, <3>3
      <4>2. stack'[th][s] = v
        BY <2>2, <2>4
      <4> QED BY <3>1, <4>1, <4>2 DEF Arrow, Value
    <3> QED BY <2>5, <2>8, <3>2, <3>3
  <2>9. /\ UNCHANGED <<kind, L, basemt, tmudata, calls>> /\ V \in SUBSET Reach
        /\ \E w \in W : w \in Reach
        /\ \A p \in Obj, x \in Obj : p \notin W => (Arrow(p, x)' <=> Arrow(p, x))
        /\ \A p \in Obj, x \in Obj : p \in W /\ Arrow(p, x)' => Arrow(p, x) \/ x \in V
        /\ \A p \in Obj, x \in V : p \in W => Arrow(p, x)'
    BY <1>0, <1>1, <2>5, <2>6, <2>7, <2>8
  <2> QED BY <2>9, WriteWorks, Zenon
<1> QED BY <1>2, <1>3

\* Steps that add no reference.
LEMMA QuietWorks ==
  ASSUME IInv, IInv', UNCHANGED <<kind, tmudata, calls>>, Roots' \subseteq Reach,
         \A o \in Obj, x \in Obj : Arrow(o, x)' => Arrow(o, x)
  PROVE  Heap!Work
<1>1. Called' = Called /\ \A o \in Sure : kind'[o] # "free" /\ o \in Obj
  BY Operands DEF Called
<1>2. \A o \in Sure, x \in Obj : Arrow(o, x)' => Arrow(o, x) \/ (x \in Reach' /\ x \in Reach \union {})
  BY <1>1
<1> QED BY <1>1, <1>2, WorkFrom

LEMMA QuietStepsWork ==
  ASSUME IInv, IInv',
         \/ \E t \in Reach : kind[t] = "table" /\ \E e \in held[t] : Drop(t, e)
         \/ \E t \in Reach \union {None} : (t # None => kind[t] = "table") /\ SetBaseMeta(t)
         \/ \E t \in Reach, m \in prog.modes : kind[t] = "table" /\ SetMode(t, m)
         \/ \E th \in Reach : Resume(th)
         \/ Yield \/ FinalizerReturns
  PROVE  Heap!Work
<1>0. Roots \subseteq Reach /\ TypeOK /\ L \in Obj /\ Top \in Places /\ MainThread \in Roots
  BY UseLawsHold, Operands, ObjectsAssumption DEF UseLaws, Places, Roots, Things
<1>1. ASSUME NEW t \in Reach, NEW e \in held[t], Drop(t, e)
      PROVE  Heap!Work
  <2>1. /\ kind' = kind /\ meta' = meta /\ open' = open /\ stack' = stack
        /\ \A o \in Obj : held'[o] \subseteq held[o]
    BY <1>1, <1>0 DEF Drop, TypeOK
  <2>2. \A o \in Obj, x \in Obj : Arrow(o, x)' => Arrow(o, x)
    BY <2>1 DEF Arrow, Value
  <2>3. UNCHANGED <<kind, tmudata, calls>> /\ Roots' = Roots
    BY <1>1 DEF Drop, Roots, Things, ends
  <2> QED BY <1>0, <2>2, <2>3, QuietWorks
<1>2. ASSUME NEW t \in Reach \union {None}, SetBaseMeta(t)
      PROVE  Heap!Work
  <2>1. heap' = heap /\ UNCHANGED <<kind, tmudata, calls>> /\ Roots' \subseteq Roots \union Things({t})
    BY <1>2 DEF SetBaseMeta, heap, ends, Roots, Things
  <2> QED BY <1>0, <2>1, SameHeap, QuietWorks DEF Things
<1>3. ASSUME NEW t \in Reach, NEW m \in prog.modes, SetMode(t, m)
      PROVE  Heap!Work
  <2>1. UNCHANGED <<kind, tmudata, calls>> /\ Roots' = Roots
    BY <1>3 DEF SetMode, ends, Roots, Things
  <2>2. \A o \in Obj, x \in Obj : Arrow(o, x)' => Arrow(o, x)
    BY <1>3 DEF SetMode, Arrow, Value
  <2> QED BY <1>0, <2>1, <2>2, QuietWorks
<1>4. ASSUME NEW th \in Reach, L' = th, UNCHANGED <<heap, basemt, ends>>
      PROVE  Heap!Work
  <2>1. UNCHANGED <<kind, tmudata, calls>> /\ Roots' \subseteq Roots \union {th}
    BY <1>4 DEF heap, ends, Roots, Things
  <2>2. \A o \in Obj, x \in Obj : Arrow(o, x)' => Arrow(o, x)
    BY <1>4, SameHeap
  <2> QED BY <1>0, <2>1, <2>2, QuietWorks
<1>5. ASSUME FinalizerReturns
      PROVE  Heap!Work
  <2>1. /\ kind' = kind /\ held' = held /\ meta' = meta /\ open' = open
        /\ stack' = [stack EXCEPT ![L][Top] = None]
        /\ UNCHANGED <<kind, tmudata, calls>> /\ Roots' = Roots
    BY <1>5 DEF FinalizerReturns, ends, Roots, Things
  <2>2. ASSUME NEW o \in Obj, NEW x \in Obj, Arrow(o, x)' PROVE Arrow(o, x)
    <3>1. /\ kind'[o] = kind[o] /\ held'[o] = held[o] /\ meta'[o] = meta[o] /\ open'[o] = open[o]
          /\ None \in Obj \union {None}
      BY <2>1
    <3>2. Arrow(o, x) \/ (x = None /\ (o = L \/ open[o] # None) /\ kind[o] \in {"thread", "upval"})
      BY <1>0, <2>1, <2>2, <3>1, SlotArrows, Zenon
    <3> QED BY <3>2, ObjectsAssumption
  <2> QED BY <1>0, <2>1, <2>2, QuietWorks
<1>6. ASSUME NEW th \in Reach, Resume(th)
      PROVE  Heap!Work
  BY <1>4, <1>6 DEF Resume
<1>7. CASE Yield
  BY <1>0, <1>4, <1>7 DEF Yield
<1> QED BY <1>1, <1>2, <1>3, <1>5, <1>6, <1>7

LEMMA CloseWorks == ASSUME IInv, IInv', NEW s \in Slots, Close(s) PROVE Heap!Work
<1> DEFINE ups  == {u \in OpenUpvals(L) : open[u][2] >= s}
           gone == ups \intersect Dead
           rest == ups \ gone
<1>0. /\ Types /\ Blank /\ L' = L /\ basemt' = basemt /\ tmudata' = tmudata /\ Release(gone, rest)
  BY Operands DEF Close
<1>1. /\ \A u \in ups : u \in Obj /\ kind[u] = "upval" /\ open[u][1] = L
      /\ gone \intersect rest = {} /\ ups = gone \union rest
      /\ \A u \in gone : u \notin Sure
      /\ kind[L] = "thread"
  BY Operands DEF OpenUpvals, Of, Sure, Dead
<1> HIDE DEF ups, gone, rest
<1>2. /\ gone \subseteq Obj /\ rest \subseteq Of("upval")
      /\ \A u \in Obj : open[u] # None /\ open[u][1] \in gone => u \in gone \union rest
  BY <1>0, <1>1 DEF Blank, Of
<1>3. /\ \A o \in Obj : kind'[o] = IF o \in gone THEN "free" ELSE kind[o]
      /\ \A o \in Obj \ gone, x \in Obj : Arrow(o, x)' <=> Arrow(o, x)
  BY <1>0, <1>1, <1>2, ReleaseFacts, Zenon
<1>4. Called' = Called
  <2>1. \A u \in Obj : calls'[u] = IF u \in gone THEN 0 ELSE calls[u]
    BY <1>0 DEF Release
  <2>2. \A u \in Called : u \notin gone
    BY <1>1, CalledAllocated
  <2>3. \A u \in Obj : u \in Called' <=> u \in Called
    BY <2>1, <2>2 DEF Called
  <2> QED BY <2>3 DEF Called
<1>5. \A o \in Sure : o \in Obj \ gone /\ kind'[o] # "free"
  BY <1>1, <1>3, Operands
<1>6. \A o \in Sure, x \in Obj : Arrow(o, x)' => Arrow(o, x) \/ (x \in Reach' /\ x \in Reach \union {})
  BY <1>3, <1>5
<1>7. Roots' \subseteq Reach
  BY <1>0, UseLawsHold DEF Roots, Things, UseLaws
<1> QED BY <1>0, <1>4, <1>5, <1>6, <1>7, WorkFrom

LEMMA MutateWorks ==
  ASSUME NoDebug, IInv, IInv', Mutate
  PROVE  Heap!Work \/ UNCHANGED Heap!vars
<1>1. ~prog.debug
  BY Operands DEF NoDebug, Types
<1>2. ASSUME NEW f \in Reach, NEW u \in Reach, NEW v \in Usable, DebugSetUpvalue(f, u, v)
      PROVE  FALSE
  BY <1>1, <1>2 DEF DebugSetUpvalue
<1>3. CASE FullGC
  BY <1>3, Unseen DEF FullGC
<1> QED BY <1>2, <1>3, MutateCases, SetStackWorks, CreateWorks, InternWorks, QuietStepsWork, SetMetaWorks,
           CaptureWorks, CloseWorks, SetUpvalWorks, StoreWorks

LEMMA CollectReclaims == ASSUME IInv, IInv', Collect PROVE [Heap!Next]_(Heap!vars)
<1>1. CASE Start \/ FullMark \/ RemarkUpvals \/ RemarkWeak \/ RemarkAgain \/ EndSweepString \/ EndSweep \/ EndCycle
  BY <1>1, Unseen DEF Start, FullMark, RemarkUpvals, RemarkWeak, RemarkAgain, EndSweepString, EndSweep, EndCycle
<1>2. ASSUME NEW o \in Obj, Propagate(o) PROVE UNCHANGED Heap!vars
  BY <1>2, Unseen DEF Propagate
<1>3. ASSUME NEW o \in Obj, SweepString(o) \/ Sweep(o) PROVE Heap!Next
  BY <1>3, SweepFrees DEF Heap!Next
<1>4. ASSUME NEW o \in Obj, GCTM(o) PROVE Heap!Next
  <2>1. Heap!Call(o) /\ o \in tmudata
    BY <1>4, GCTMCalls DEF GCTM
  <2> QED BY <2>1 DEF Heap!Next
<1>5. CASE Separate
  BY <1>5, SeparateArranges DEF Heap!Next
<1>6. CASE ClearTables
  BY <1>6, ClearTablesClears DEF Heap!Next
<1> QED BY <1>1, <1>2, <1>3, <1>4, <1>5, <1>6 DEF Collect

\* For every set of objects and of programs that do not call debug.setupvalue(),
\* the collector and the program together implement Reclaim: what the program,
\* or a finalizer to come, can get at is never freed, however lgc.c and the
\* barriers work.
THEOREM Reclaims == ASSUME NoDebug PROVE Spec => Implements
<1>1. Init /\ IInv => Heap!Init
  <2> SUFFICES ASSUME Init, IInv PROVE Heap!Init
    OBVIOUS
  <2>1. Reach \subseteq Allocated /\ Allocated \subseteq Obj /\ Certain \subseteq Reach
    BY UseLawsHold, CertainLawsHold DEF UseLaws, CertainLaws, Sure, Allocated
  <2>2. Saved = {} /\ tmudata = {} /\ {u \in Obj : calls[u] > 0} = {}
    BY DEF Init, Saved
  <2> QED BY <2>1, <2>2 DEF Heap!Init
<1>2. IInv /\ IInv' /\ [Next]_vars => [Heap!Next]_(Heap!vars)
  <2> SUFFICES ASSUME IInv, IInv', [Next]_vars PROVE [Heap!Next]_(Heap!vars)
    OBVIOUS
  <2>1. CASE Collect
    BY <2>1, CollectReclaims
  <2>2. CASE Mutate
    BY <2>2, MutateWorks DEF Heap!Next
  <2>3. CASE UNCHANGED vars
    BY <2>3, Unseen DEF vars
  <2> QED BY <2>1, <2>2, <2>3 DEF Next
<1>3. Spec => []IInv
  BY Invariance
<1> QED BY <1>1, <1>2, <1>3, PTL DEF Spec, Implements, Heap!Spec
=============================================================================
