--------------------------- MODULE CallsProofs ---------------------------
(*************************************************************************)
(* Proofs about Calls, for any threads, limits and programs: what        *)
(* luaD_call(), luaD_pcall() and lua_resume() have saved on the C stack  *)
(* is true of the stack below, so that it is right to put it back.       *)
(*************************************************************************)
EXTENDS Calls, FunctionTheorems, FiniteSetTheorems, SequenceTheorems,
        WellFoundedInduction, TLAPS

Calling == {"call", "pcall", "handler"}
Guards  == {"pcall", "resume"}
Most    == LUAI_MAXCCALLS + ExtraCCalls

\* The activations of th of those kinds, below the n-th.
Below(s, th, n, kinds) == {i \in 1..(n - 1) : s[i].th = th /\ s[i].kind \in kinds}

\* j is the last protected activation of th below the n-th.
Jump(s, th, n, j) ==
  IF Below(s, th, n, Guards) = {} THEN j = 0
  ELSE j \in Below(s, th, n, Guards) /\ \A i \in Below(s, th, n, Guards) : i <= j

\* nCcalls, errorJmp and errfunc of th when the C stack ends below the n-th.
Kept(s, th, n, calls, jmp, errfunc) ==
  /\ calls = Cardinality(Below(s, th, n, Calling))
  /\ Jump(s, th, n, jmp)
  /\ errfunc => Below(s, th, n, {"pcall"}) # {}

\* Each thread's activations follow each other: the first of a coroutine is its
\* lua_resume(), and the host has called Main.
Shape(s) ==
  /\ \A i \in 1..Len(s) :
       IF i = 1 THEN s[i].kind # "resume" /\ s[i].th = Main
       ELSE IF s[i].kind = "resume" THEN \A j \in 1..(i - 1) : s[j].th # s[i].th
       ELSE s[i].th = s[i - 1].th
  /\ \A i \in 1..Len(s), j \in 1..Len(s), k \in 1..Len(s) :
       i < j /\ j < k /\ s[i].th = s[k].th => s[j].th = s[k].th
  /\ \A i \in 1..Len(s) : s[i].th # Main =>
       \E j \in 1..i : s[j].th = s[i].th /\ s[j].kind = "resume"

\* What an activation has saved is true of those below it.
Saved(s) ==
  \A i \in 1..Len(s) : /\ Kept(s, s[i].th, i, s[i].nCcalls, s[i].jmp, s[i].errfunc)
                       /\ s[i].nCcalls < Most

\* The first activation of Main is at the bottom of its frames, and the others of
\* a thread are above those before them.
Levels(s) ==
  /\ \A i \in 1..Len(s) : i = 1 => s[i].level = 0
  /\ \A i \in 1..Len(s), j \in 1..Len(s) :
       i < j /\ s[i].th = s[j].th /\ s[i].kind # "resume" => s[i].level <= s[j].level

On(th) == \E i \in 1..Len(cstack) : cstack[i].th = th

\* nCcalls, errorJmp and errfunc of a thread now.
CurrentOf(th) ==
  /\ Exists(th) => Jump(cstack, th, Len(cstack) + 1, threads[th].jmp)
  /\ threads[th].status \in {"ok", "yield"} =>
       /\ Kept(cstack, th, Len(cstack) + 1, threads[th].nCcalls, threads[th].jmp, threads[th].errfunc)
       /\ threads[th].nCcalls <= Most
       /\ threads[th].nCcalls = Most => th = L /\ (raising = "err" \/ exited)

\* The frames of a coroutine that has yielded: Lua functions below the C function.
Suspended(ci) ==
  /\ Len(ci) > 1
  /\ \A f \in 1..Len(ci) : ci[f].fn = "lua" <=> f < Len(ci)

StatusOf(th) ==
  /\ th = Main \/ (On(th) /\ Exists(th)) => threads[th].status = "ok" /\ ~threads[th].body
  /\ ~On(th) /\ threads[th].status = "ok" => threads[th].ci = <<>>
  /\ threads[th].status = "yield" => Suspended(threads[th].ci)

\* The frames of an activation: n Lua functions above the first b frames, and
\* perhaps a C function, which is then the e-th.
Run(ci, b, n, e) ==
  /\ b + n <= e /\ e <= b + n + 1 /\ e <= Len(ci)
  /\ \A f \in (b + 1)..e : ci[f].fn = "lua" <=> f <= b + n

Base(a) == IF a.kind = "resume" THEN 0 ELSE a.level
End(s, ths, i) == IF i < Len(s) /\ s[i + 1].kind # "resume" THEN s[i + 1].level
                  ELSE Len(ths[s[i].th].ci)

\* An activation without a frame is one whose function found no room: an error is
\* raised in it.
FrameOK(s, ths, i, error) ==
  /\ Run(ths[s[i].th].ci, Base(s[i]), s[i].nexec, End(s, ths, i))
  /\ s[i].kind = "resume" => s[i].nexec > 0
  /\ \/ Base(s[i]) < End(s, ths, i)
     \/ i < Len(s) /\ s[i + 1].kind = "handler"
     \/ i = Len(s) /\ error

Frames == \A i \in 1..Len(cstack) :
  Exists(cstack[i].th) => FrameOK(cstack, threads, i, raising # "no" \/ exited)

\* A thread that has resumed another is in the C function that was called with it.
Waits(s, ths, i) ==
  LET ci == ths[s[i - 1].th].ci
  IN  s[i].kind = "resume" /\ ths[s[i - 1].th].status # "free" =>
        /\ ci # <<>> /\ Top(ci).fn = "C" /\ Top(ci).arg \in {s[i].th, None}
        /\ ths[s[i].th].status # "free" \/ Top(ci).arg = None

Waiting == \A i \in 2..Len(cstack) : Waits(cstack, threads, i)

Sizes ==
  \A th \in Threads : /\ Len(threads[th].ci) < threads[th].size_ci
                      /\ 1 < threads[th].size_ci /\ threads[th].size_ci <= 2 * LUAI_MAXCALLS

Types == /\ TypeOK /\ prog \in Programs
         /\ cstack = <<>> => raising = "no"

IInv ==
  /\ Types /\ Sizes
  /\ Shape(cstack) /\ Saved(cstack) /\ Levels(cstack)
  /\ \A th \in Threads : CurrentOf(th) /\ StatusOf(th)
  /\ Frames /\ Waiting

-----------------------------------------------------------------------------
(* The C stack. *)

Same(a, b) == /\ a.kind = b.kind /\ a.th = b.th /\ a.level = b.level
              /\ a.nCcalls = b.nCcalls /\ a.errfunc = b.errfunc /\ a.jmp = b.jmp

\* t is s, cut or not, and perhaps with other nexec.
Like(s, t) == Len(t) <= Len(s) /\ \A i \in 1..Len(t) : Same(s[i], t[i])

LEMMA BelowFinite ==
  ASSUME NEW s, NEW th, NEW n \in Nat, NEW kinds
  PROVE  /\ IsFiniteSet(Below(s, th, n, kinds))
         /\ Cardinality(Below(s, th, n, kinds)) \in Nat
<1>1. Below(s, th, n, kinds) \subseteq 1..(n - 1) BY DEF Below
<1>2. IsFiniteSet(1..(n - 1)) BY FS_Interval
<1> QED BY <1>1, <1>2, FS_Subset, FS_CardinalityType

LEMMA BelowLike ==
  ASSUME NEW s \in Seq(Activations), NEW t \in Seq(Activations), Like(s, t),
         NEW th, NEW n \in 1..(Len(t) + 1), NEW kinds
  PROVE  Below(t, th, n, kinds) = Below(s, th, n, kinds)
<1>1. \A i \in 1..(n - 1) : i \in 1..Len(t)
  OBVIOUS
<1> QED BY <1>1 DEF Below, Like, Same

LEMMA KeptLike ==
  ASSUME NEW s \in Seq(Activations), NEW t \in Seq(Activations), Like(s, t),
         NEW th, NEW n \in 1..(Len(t) + 1), NEW c, NEW j, NEW e
  PROVE  /\ Kept(s, th, n, c, j, e) <=> Kept(t, th, n, c, j, e)
         /\ Jump(s, th, n, j) <=> Jump(t, th, n, j)
<1>1. /\ Below(t, th, n, Calling) = Below(s, th, n, Calling)
      /\ Below(t, th, n, Guards) = Below(s, th, n, Guards)
      /\ Below(t, th, n, {"pcall"}) = Below(s, th, n, {"pcall"})
  <2>1. ASSUME NEW kinds PROVE Below(t, th, n, kinds) = Below(s, th, n, kinds)
    BY BelowLike
  <2> QED BY <2>1, Zenon
<1> QED BY <1>1, Zenon DEF Kept, Jump

\* Activations of other threads do not count.
LEMMA KeptSkip ==
  ASSUME NEW s \in Seq(Activations), NEW th, NEW m \in 1..(Len(s) + 1),
         \A i \in m..Len(s) : s[i].th # th,
         NEW c, NEW j, NEW e
  PROVE  /\ Kept(s, th, m, c, j, e) <=> Kept(s, th, Len(s) + 1, c, j, e)
         /\ Jump(s, th, m, j) <=> Jump(s, th, Len(s) + 1, j)
<1>1. ASSUME NEW kinds
      PROVE  Below(s, th, m, kinds) = Below(s, th, Len(s) + 1, kinds)
  <2>1. \A i \in 1..((Len(s) + 1) - 1) : i \in 1..(m - 1) \/ i \in m..Len(s)
    OBVIOUS
  <2>2. 1..(m - 1) \subseteq 1..((Len(s) + 1) - 1)
    OBVIOUS
  <2> QED BY <2>1, <2>2 DEF Below
<1>2. /\ Below(s, th, m, Calling) = Below(s, th, Len(s) + 1, Calling)
      /\ Below(s, th, m, Guards) = Below(s, th, Len(s) + 1, Guards)
      /\ Below(s, th, m, {"pcall"}) = Below(s, th, Len(s) + 1, {"pcall"})
  BY <1>1, Zenon
<1> QED BY <1>2, Zenon DEF Kept, Jump

\* One more activation of the thread.
LEMMA BelowNext ==
  ASSUME NEW s \in Seq(Activations), NEW n \in 1..Len(s), NEW kinds
  PROVE  Below(s, s[n].th, n + 1, kinds) =
           IF s[n].kind \in kinds THEN Below(s, s[n].th, n, kinds) \union {n}
           ELSE Below(s, s[n].th, n, kinds)
<1>1. 1..((n + 1) - 1) = 1..(n - 1) \union {n}
  OBVIOUS
<1> QED BY <1>1 DEF Below

LEMMA CountNext ==
  ASSUME NEW s \in Seq(Activations), NEW n \in 1..Len(s)
  PROVE  Cardinality(Below(s, s[n].th, n + 1, Calling)) =
           IF s[n].kind = "resume" THEN Cardinality(Below(s, s[n].th, n, Calling))
           ELSE Cardinality(Below(s, s[n].th, n, Calling)) + 1
<1>0. s[n] \in Activations
  BY ElementOfSeq
<1>1. s[n].kind \in Calling <=> s[n].kind # "resume"
  BY <1>0 DEF Activations, Calling
<1>2. n \notin Below(s, s[n].th, n, Calling)
  BY DEF Below
<1>3. IsFiniteSet(Below(s, s[n].th, n, Calling)) /\ n \in Nat
  BY BelowFinite
<1>4. Cardinality(Below(s, s[n].th, n, Calling) \union {n}) = Cardinality(Below(s, s[n].th, n, Calling)) + 1
  BY <1>2, <1>3, FS_AddElement
<1> QED BY <1>1, <1>4, BelowNext

LEMMA JumpNext ==
  ASSUME NEW s \in Seq(Activations), NEW n \in 1..Len(s), NEW j
  PROVE  /\ s[n].kind \in Guards => Jump(s, s[n].th, n + 1, n)
         /\ s[n].kind \notin Guards /\ Jump(s, s[n].th, n, j) => Jump(s, s[n].th, n + 1, j)
<1>1. Below(s, s[n].th, n, Guards) \subseteq 1..(n - 1)
  BY DEF Below
<1>2. \A i \in Below(s, s[n].th, n, Guards) : i <= n
  BY <1>1
<1>3. Below(s, s[n].th, n + 1, Guards) = IF s[n].kind \in Guards THEN Below(s, s[n].th, n, Guards) \union {n}
                                        ELSE Below(s, s[n].th, n, Guards)
  BY BelowNext
<1>4. CASE s[n].kind \in Guards
  <2>1. Below(s, s[n].th, n + 1, Guards) = Below(s, s[n].th, n, Guards) \union {n}
    BY <1>3, <1>4
  <2>2. \A i \in Below(s, s[n].th, n + 1, Guards) : i <= n
    BY <1>2, <2>1
  <2> QED BY <1>4, <2>1, <2>2 DEF Jump
<1>5. CASE s[n].kind \notin Guards
  <2>1. Below(s, s[n].th, n + 1, Guards) = Below(s, s[n].th, n, Guards)
    BY <1>3, <1>5
  <2> QED BY <1>5, <2>1 DEF Jump
<1> QED BY <1>4, <1>5

LEMMA KeptNext ==
  ASSUME NEW s \in Seq(Activations), NEW n \in 1..Len(s), NEW c \in Nat, NEW j, NEW e,
         Kept(s, s[n].th, n, c, j, e)
  PROVE  /\ s[n].kind \in {"call", "handler"} => Kept(s, s[n].th, n + 1, c + 1, j, e)
         /\ s[n].kind = "pcall" => \A h \in BOOLEAN : Kept(s, s[n].th, n + 1, c + 1, n, h)
         /\ s[n].kind = "resume" => Kept(s, s[n].th, n + 1, c, n, e)
<1>1. CASE s[n].kind \in {"call", "handler"}
  <2>1. Jump(s, s[n].th, n + 1, j)
    BY <1>1, JumpNext DEF Guards, Kept
  <2>2. Below(s, s[n].th, n + 1, {"pcall"}) = Below(s, s[n].th, n, {"pcall"})
    BY <1>1, BelowNext
  <2> QED BY <1>1, <2>1, <2>2, CountNext DEF Kept
<1>2. CASE s[n].kind = "pcall"
  <2>1. Jump(s, s[n].th, n + 1, n)
    BY <1>2, JumpNext DEF Guards, Kept
  <2>2. n \in Below(s, s[n].th, n + 1, {"pcall"})
    <3>1. Below(s, s[n].th, n + 1, {"pcall"}) = Below(s, s[n].th, n, {"pcall"}) \union {n}
      <4>1. ASSUME NEW kinds, s[n].kind \in kinds
            PROVE  Below(s, s[n].th, n + 1, kinds) = Below(s, s[n].th, n, kinds) \union {n}
        BY <4>1, BelowNext
      <4>2. s[n].kind \in {"pcall"}
        BY <1>2
      <4> QED BY <4>1, <4>2, Zenon
    <3> QED BY <3>1, Zenon
  <2> QED BY <1>2, <2>1, <2>2, CountNext DEF Kept
<1>3. CASE s[n].kind = "resume"
  <2>1. Jump(s, s[n].th, n + 1, n)
    BY <1>3, JumpNext DEF Guards, Kept
  <2>2. Below(s, s[n].th, n + 1, {"pcall"}) = Below(s, s[n].th, n, {"pcall"})
    BY <1>3, BelowNext
  <2> QED BY <1>3, <2>1, <2>2, CountNext DEF Kept
<1> QED BY <1>1, <1>2, <1>3

LEMMA ShapeLike ==
  ASSUME NEW s \in Seq(Activations), NEW t \in Seq(Activations), Like(s, t)
  PROVE  /\ Shape(s) => Shape(t)
         /\ Saved(s) => Saved(t)
         /\ Levels(s) => Levels(t)
<1>1. \A i \in 1..Len(t) : i \in 1..Len(s)
  BY DEF Like
<1>2. ASSUME Shape(s) PROVE Shape(t)
  <2>1. ASSUME NEW i \in 1..Len(t)
        PROVE  IF i = 1 THEN t[i].kind # "resume" /\ t[i].th = Main
               ELSE IF t[i].kind = "resume" THEN \A j \in 1..(i - 1) : t[j].th # t[i].th
               ELSE t[i].th = t[i - 1].th
    <3>1. /\ i \in 1..Len(s) /\ Same(s[i], t[i])
          /\ \A j \in 1..(i - 1) : j \in 1..Len(s) /\ Same(s[j], t[j])
          /\ i # 1 => i - 1 \in 1..(i - 1)
      BY <1>1 DEF Like
    <3>2. IF i = 1 THEN s[i].kind # "resume" /\ s[i].th = Main
          ELSE IF s[i].kind = "resume" THEN \A j \in 1..(i - 1) : s[j].th # s[i].th
          ELSE s[i].th = s[i - 1].th
      BY <3>1, <1>2, Zenon DEF Shape
    <3> QED BY <3>1, <3>2 DEF Same
  <2>2. ASSUME NEW i \in 1..Len(t), NEW j \in 1..Len(t), NEW k \in 1..Len(t),
               i < j, j < k, t[i].th = t[k].th
        PROVE  t[j].th = t[k].th
    <3>1. s[j].th = s[k].th
      BY <1>1, <1>2, <2>2 DEF Shape, Like, Same
    <3> QED BY <3>1 DEF Like, Same
  <2>3. ASSUME NEW i \in 1..Len(t), t[i].th # Main
        PROVE  \E j \in 1..i : t[j].th = t[i].th /\ t[j].kind = "resume"
    <3>1. i \in 1..Len(s) /\ s[i].th # Main
      BY <1>1, <2>3 DEF Like, Same
    <3>2. PICK j \in 1..i : s[j].th = s[i].th /\ s[j].kind = "resume"
      BY <1>2, <3>1 DEF Shape
    <3>3. j \in 1..Len(t)
      OBVIOUS
    <3> QED BY <3>2, <3>3 DEF Like, Same
  <2> QED BY <2>1, <2>2, <2>3, Zenon DEF Shape
<1>3. ASSUME Saved(s) PROVE Saved(t)
  <2>1. ASSUME NEW i \in 1..Len(t)
        PROVE  /\ Kept(t, t[i].th, i, t[i].nCcalls, t[i].jmp, t[i].errfunc)
               /\ t[i].nCcalls < Most
    <3>1. Kept(s, s[i].th, i, s[i].nCcalls, s[i].jmp, s[i].errfunc) /\ s[i].nCcalls < Most
      BY <1>1, <1>3, Zenon DEF Saved
    <3>2. Same(s[i], t[i])
      BY DEF Like
    <3>3. i \in 1..(Len(t) + 1)
      OBVIOUS
    <3>4. Kept(t, s[i].th, i, s[i].nCcalls, s[i].jmp, s[i].errfunc)
      BY <3>1, <3>3, KeptLike, Zenon
    <3> QED BY <3>1, <3>2, <3>4 DEF Same
  <2> QED BY <2>1, Zenon DEF Saved
<1>4. ASSUME Levels(s) PROVE Levels(t)
  BY <1>1, <1>4 DEF Levels, Like, Same
<1> QED BY <1>2, <1>3, <1>4

LEMMA ActType ==
  ASSUME NEW s \in Seq(Activations), NEW i \in 1..Len(s)
  PROVE  /\ s[i].kind \in {"call", "pcall", "handler", "resume"} /\ s[i].th \in Threads
         /\ s[i].nexec \in Nat /\ s[i].level \in Nat /\ s[i].nCcalls \in Nat
         /\ s[i].errfunc \in BOOLEAN /\ s[i].jmp \in Nat
<1>1. s[i] \in Activations
  BY ElementOfSeq
<1> QED BY <1>1 DEF Activations

LEMMA ThreadType ==
  ASSUME NEW ths \in [Threads -> Thread], NEW th \in Threads
  PROVE  /\ ths[th].status \in {"free", "ok", "yield", "error"} /\ ths[th].body \in BOOLEAN
         /\ ths[th].ci \in Seq(Frame) /\ Len(ths[th].ci) \in Nat
         /\ ths[th].nCcalls \in Nat /\ ths[th].errfunc \in BOOLEAN
         /\ ths[th].jmp \in Nat /\ ths[th].size_ci \in Nat
<1>1. ths[th] \in Thread
  OBVIOUS
<1>2. ths[th].ci \in Seq(Frame)
  BY <1>1 DEF Thread
<1> QED BY <1>1, <1>2 DEF Thread

LEMMA FrameType ==
  ASSUME NEW ci \in Seq(Frame), NEW f \in 1..Len(ci)
  PROVE  ci[f].fn \in {"lua", "C"} /\ ci[f].arg \in Coroutines \union {None}
<1>1. ci[f] \in Frame
  BY ElementOfSeq
<1> QED BY <1>1 DEF Frame

LEMMA Pushing ==
  ASSUME NEW s \in Seq(Activations), NEW a \in Activations
  PROVE  /\ Append(s, a) \in Seq(Activations) /\ Len(Append(s, a)) = Len(s) + 1
         /\ Append(s, a)[Len(s) + 1] = a /\ \A i \in 1..Len(s) : Append(s, a)[i] = s[i]
         /\ Like(Append(s, a), s)
<1>1. /\ Append(s, a) \in Seq(Activations) /\ Len(Append(s, a)) = Len(s) + 1
      /\ Append(s, a)[Len(s) + 1] = a /\ \A i \in 1..Len(s) : Append(s, a)[i] = s[i]
  BY AppendProperties
<1> QED BY <1>1 DEF Like, Same

LEMMA Cutting ==
  ASSUME NEW s \in Seq(Activations), NEW m \in 0..Len(s)
  PROVE  /\ SubSeq(s, 1, m) \in Seq(Activations) /\ Len(SubSeq(s, 1, m)) = m
         /\ \A i \in 1..m : SubSeq(s, 1, m)[i] = s[i]
         /\ Like(s, SubSeq(s, 1, m))
<1>1. \A i \in 1..m : i \in 1..Len(s)
  OBVIOUS
<1>2. \A i \in 1..m : s[i] \in Activations
  BY <1>1, ElementOfSeq
<1>3. SubSeq(s, 1, m) \in Seq(Activations) /\ Len(SubSeq(s, 1, m)) = m
  BY <1>2
<1>4. \A i \in 1..m : SubSeq(s, 1, m)[i] = s[i]
  OBVIOUS
<1> QED BY <1>3, <1>4 DEF Like, Same

LEMMA ShapePush ==
  ASSUME NEW s \in Seq(Activations), NEW a \in Activations, Shape(s),
         IF s = <<>> THEN a.kind # "resume" /\ a.th = Main
         ELSE IF a.kind = "resume" THEN \A j \in 1..Len(s) : s[j].th # a.th
         ELSE a.th = s[Len(s)].th
  PROVE  Shape(Append(s, a))
<1> DEFINE t == Append(s, a)
           n == Len(s) + 1
<1>1. /\ t \in Seq(Activations) /\ Len(t) = n /\ t[n] = a /\ Len(s) \in Nat
      /\ \A i \in 1..Len(s) : t[i] = s[i]
  BY Pushing
<1>2. s = <<>> <=> Len(s) = 0
  BY EmptySeq
<1>3. \A i \in 1..n : i \in 1..Len(s) \/ i = n
  BY <1>1
<1> HIDE DEF t
<1>4. ASSUME NEW i \in 1..Len(t)
      PROVE  IF i = 1 THEN t[i].kind # "resume" /\ t[i].th = Main
             ELSE IF t[i].kind = "resume" THEN \A j \in 1..(i - 1) : t[j].th # t[i].th
             ELSE t[i].th = t[i - 1].th
  <2>1. CASE i \in 1..Len(s)
    <3>1. /\ t[i] = s[i] /\ \A j \in 1..(i - 1) : t[j] = s[j]
          /\ i # 1 => i - 1 \in 1..(i - 1)
      BY <1>1, <2>1
    <3>2. IF i = 1 THEN s[i].kind # "resume" /\ s[i].th = Main
          ELSE IF s[i].kind = "resume" THEN \A j \in 1..(i - 1) : s[j].th # s[i].th
          ELSE s[i].th = s[i - 1].th
      BY <2>1, Zenon DEF Shape
    <3> QED BY <3>1, <3>2
  <2>2. CASE i = n
    <3>1. i = 1 <=> s = <<>>
      BY <1>1, <1>2, <2>2
    <3>2. t[i] = a /\ i - 1 = Len(s)
      BY <1>1, <2>2
    <3>3. i # 1 => t[i - 1] = s[Len(s)]
      BY <1>1, <2>2, <3>2
    <3>4. CASE i = 1
      BY <3>1, <3>2, <3>4
    <3>5. CASE i # 1 /\ a.kind = "resume"
      <4>1. \A j \in 1..(i - 1) : t[j].th # a.th
        BY <1>1, <3>1, <3>2, <3>5
      <4> QED BY <3>2, <3>5, <4>1
    <3>6. CASE i # 1 /\ a.kind # "resume"
      BY <3>1, <3>2, <3>3, <3>6
    <3> QED BY <3>4, <3>5, <3>6
  <2> QED BY <1>1, <1>3, <2>1, <2>2
<1>5. ASSUME NEW i \in 1..Len(t), NEW j \in 1..Len(t), NEW k \in 1..Len(t),
             i < j, j < k, t[i].th = t[k].th
      PROVE  t[j].th = t[k].th
  <2>1. i \in 1..Len(s) /\ j \in 1..Len(s) /\ t[i] = s[i] /\ t[j] = s[j]
    BY <1>1, <1>5
  <2>2. CASE k \in 1..Len(s)
    BY <1>1, <1>5, <2>1, <2>2 DEF Shape
  <2>3. CASE k = n
    <3>1. s # <<>> /\ s[i].th = a.th /\ t[k] = a
      BY <1>1, <1>2, <1>5, <2>1, <2>3
    <3>2. a.th = s[Len(s)].th
      BY <2>1, <3>1
    <3>3. CASE j = Len(s)
      BY <2>1, <3>1, <3>2, <3>3
    <3>4. CASE j < Len(s)
      <4>1. Len(s) \in 1..Len(s)
        BY <2>1
      <4>2. s[j].th = s[Len(s)].th
        BY <1>5, <2>1, <3>1, <3>2, <3>4, <4>1 DEF Shape
      <4> QED BY <2>1, <3>1, <3>2, <4>2
    <3> QED BY <2>1, <3>3, <3>4
  <2> QED BY <1>1, <1>3, <2>2, <2>3
<1>6. ASSUME NEW i \in 1..Len(t), t[i].th # Main
      PROVE  \E j \in 1..i : t[j].th = t[i].th /\ t[j].kind = "resume"
  <2>1. ASSUME NEW h \in 1..Len(s), s[h].th # Main, h <= i, t[i].th = s[h].th
        PROVE  \E j \in 1..i : t[j].th = t[i].th /\ t[j].kind = "resume"
    <3>1. PICK j \in 1..h : s[j].th = s[h].th /\ s[j].kind = "resume"
      BY <2>1 DEF Shape
    <3>2. j \in 1..i /\ j \in 1..Len(s)
      BY <2>1
    <3> QED BY <1>1, <2>1, <3>1, <3>2
  <2>2. CASE i \in 1..Len(s)
    BY <1>1, <1>6, <2>1, <2>2
  <2>3. CASE i = n
    <3>1. t[i] = a /\ s # <<>> /\ i \in 1..i
      BY <1>1, <1>2, <1>6, <2>3
    <3>2. CASE a.kind = "resume"
      BY <3>1, <3>2
    <3>3. CASE a.kind # "resume"
      <4>1. Len(s) \in 1..Len(s) /\ Len(s) <= i /\ t[i].th = s[Len(s)].th
        BY <1>1, <1>2, <2>3, <3>1, <3>3
      <4> QED BY <1>6, <2>1, <4>1
    <3> QED BY <3>2, <3>3
  <2> QED BY <1>1, <1>3, <2>2, <2>3
<1>7. Shape(t)
  BY <1>4, <1>5, <1>6, Zenon DEF Shape
<1> QED BY <1>7 DEF t

LEMMA SavedPush ==
  ASSUME NEW s \in Seq(Activations), NEW a \in Activations, Saved(s),
         Kept(s, a.th, Len(s) + 1, a.nCcalls, a.jmp, a.errfunc), a.nCcalls < Most
  PROVE  Saved(Append(s, a))
<1> DEFINE t == Append(s, a)
           n == Len(s) + 1
<1>1. /\ t \in Seq(Activations) /\ Len(t) = n /\ t[n] = a /\ Len(s) \in Nat
      /\ \A i \in 1..Len(s) : t[i] = s[i]
      /\ Like(t, s)
  BY Pushing
<1> HIDE DEF t
<1>2. ASSUME NEW i \in 1..Len(t)
      PROVE  /\ Kept(t, t[i].th, i, t[i].nCcalls, t[i].jmp, t[i].errfunc)
             /\ t[i].nCcalls < Most
  <2>1. i \in 1..(Len(s) + 1)
    BY <1>1
  <2>2. Kept(s, t[i].th, i, t[i].nCcalls, t[i].jmp, t[i].errfunc) /\ t[i].nCcalls < Most
    <3>1. CASE i \in 1..Len(s)
      BY <1>1, <3>1, Zenon DEF Saved
    <3>2. CASE i = n
      BY <1>1, <3>2, Zenon
    <3> QED BY <2>1, <3>1, <3>2
  <2> QED BY <1>1, <2>1, <2>2, KeptLike, Zenon
<1>3. Saved(t)
  BY <1>2, Zenon DEF Saved
<1> QED BY <1>3 DEF t

LEMMA LevelsPush ==
  ASSUME NEW s \in Seq(Activations), NEW a \in Activations, Levels(s),
         s = <<>> => a.level = 0,
         \A i \in 1..Len(s) : s[i].th = a.th /\ s[i].kind # "resume" => s[i].level <= a.level
  PROVE  Levels(Append(s, a))
<1> DEFINE t == Append(s, a)
           n == Len(s) + 1
<1>1. /\ t \in Seq(Activations) /\ Len(t) = n /\ t[n] = a /\ Len(s) \in Nat
      /\ \A i \in 1..Len(s) : t[i] = s[i]
  BY Pushing
<1>2. s = <<>> <=> Len(s) = 0
  BY EmptySeq
<1> HIDE DEF t
<1>3. ASSUME NEW i \in 1..Len(t), i = 1 PROVE t[i].level = 0
  BY <1>1, <1>2, <1>3 DEF Levels
<1>4. ASSUME NEW i \in 1..Len(t), NEW j \in 1..Len(t), i < j, t[i].th = t[j].th, t[i].kind # "resume"
      PROVE  t[i].level <= t[j].level
  <2>1. i \in 1..Len(s) /\ t[i] = s[i]
    BY <1>1, <1>4
  <2>2. CASE j \in 1..Len(s)
    BY <1>1, <1>4, <2>1, <2>2 DEF Levels
  <2>3. CASE j = n
    BY <1>1, <1>4, <2>1, <2>3
  <2> QED BY <1>1, <2>2, <2>3
<1>5. Levels(t)
  BY <1>3, <1>4, Zenon DEF Levels
<1> QED BY <1>5 DEF t

\* errorJmp is in the thread that runs, and so are all those above it.
LEMMA Unwinds ==
  ASSUME NEW s \in Seq(Activations), Shape(s), s # <<>>, NEW j,
         Jump(s, s[Len(s)].th, Len(s) + 1, j)
  PROVE  /\ j \in 0..Len(s)
         /\ \A i \in 1..Len(s) : i > j => s[i].th = s[Len(s)].th
         /\ j # 0 => s[j].th = s[Len(s)].th /\ s[j].kind \in Guards
         /\ j = 0 => s[Len(s)].th = Main
<1> DEFINE n == Len(s)
<1>1. n \in Nat /\ n > 0 /\ n \in 1..n /\ 1 \in 1..n
  BY EmptySeq
<1>2. 1..((n + 1) - 1) = 1..n
  BY <1>1
<1>3. CASE Below(s, s[n].th, n + 1, Guards) = {}
  <2>1. j = 0
    BY <1>3 DEF Jump
  <2>2. s[n].th = Main
    <3>1. SUFFICES ASSUME s[n].th # Main PROVE FALSE
      OBVIOUS
    <3>2. PICK k \in 1..n : s[k].th = s[n].th /\ s[k].kind = "resume"
      BY <1>1, <3>1 DEF Shape
    <3>3. k \in Below(s, s[n].th, n + 1, Guards)
      BY <1>2, <3>2 DEF Below, Guards
    <3> QED BY <1>3, <3>3
  <2>3. s[1].th = Main
    BY <1>1 DEF Shape
  <2>4. ASSUME NEW i \in 1..n PROVE s[i].th = s[n].th
    <3>1. i = 1 \/ i = n \/ (1 < i /\ i < n)
      BY <1>1
    <3> QED BY <1>1, <2>2, <2>3, <3>1 DEF Shape
  <2> QED BY <1>1, <2>1, <2>2, <2>4
<1>4. CASE Below(s, s[n].th, n + 1, Guards) # {}
  <2>1. j \in Below(s, s[n].th, n + 1, Guards)
    BY <1>4 DEF Jump
  <2>2. j \in 1..n /\ s[j].th = s[n].th /\ s[j].kind \in Guards
    BY <1>2, <2>1 DEF Below
  <2>3. ASSUME NEW i \in 1..n, i > j PROVE s[i].th = s[n].th
    <3>1. i = n \/ i < n
      BY <1>1
    <3> QED BY <1>1, <2>2, <2>3, <3>1 DEF Shape
  <2> QED BY <1>1, <2>2, <2>3
<1> QED BY <1>3, <1>4

-----------------------------------------------------------------------------
(* What a step leaves alone. *)

\* Nothing of th is changed, but perhaps what its C functions were called with.
Still(ths, ths2, th) ==
  /\ ths2[th].status = ths[th].status /\ ths2[th].body = ths[th].body
  /\ ths2[th].nCcalls = ths[th].nCcalls /\ ths2[th].errfunc = ths[th].errfunc
  /\ ths2[th].jmp = ths[th].jmp
  /\ Len(ths2[th].ci) = Len(ths[th].ci)
  /\ \A f \in 1..Len(ths[th].ci) :
       /\ ths2[th].ci[f].fn = ths[th].ci[f].fn
       /\ ths2[th].ci[f].arg \in {ths[th].ci[f].arg, None}

LEMMA NonEmpty ==
  ASSUME NEW S, NEW q \in Seq(S)
  PROVE  q # <<>> <=> Len(q) \in 1..Len(q)
BY EmptySeq

LEMMA Unchanged ==
  ASSUME NEW ths, NEW ths2, NEW th, ths2[th] = ths[th]
  PROVE  Still(ths, ths2, th)
BY DEF Still

LEMMA KeptOff ==
  ASSUME NEW s \in Seq(Activations), NEW th, \A i \in 1..Len(s) : s[i].th # th
  PROVE  Kept(s, th, Len(s) + 1, 0, 0, FALSE) /\ Jump(s, th, Len(s) + 1, 0)
<1>1. ASSUME NEW kinds PROVE Below(s, th, Len(s) + 1, kinds) = {}
  <2>1. 1..((Len(s) + 1) - 1) = 1..Len(s)
    OBVIOUS
  <2> QED BY <2>1 DEF Below
<1>2. /\ Below(s, th, Len(s) + 1, Calling) = {} /\ Below(s, th, Len(s) + 1, Guards) = {}
  BY <1>1, Zenon
<1>3. Cardinality({}) = 0
  BY FS_EmptySet
<1> QED BY <1>2, <1>3, Zenon DEF Kept, Jump

LEMMA KeptApart ==
  ASSUME NEW s \in Seq(Activations), NEW t \in Seq(Activations), NEW u \in Seq(Activations),
         Like(s, u), Like(t, u), NEW th,
         \A i \in (Len(u) + 1)..Len(s) : s[i].th # th,
         \A i \in (Len(u) + 1)..Len(t) : t[i].th # th,
         NEW c, NEW j, NEW e
  PROVE  /\ Kept(s, th, Len(s) + 1, c, j, e) => Kept(t, th, Len(t) + 1, c, j, e)
         /\ Jump(s, th, Len(s) + 1, j) => Jump(t, th, Len(t) + 1, j)
<1> DEFINE n == Len(u) + 1
<1>1. n \in 1..(Len(s) + 1) /\ n \in 1..(Len(t) + 1) /\ n \in 1..(Len(u) + 1)
  BY DEF Like
<1>2. /\ Kept(s, th, n, c, j, e) <=> Kept(s, th, Len(s) + 1, c, j, e)
      /\ Jump(s, th, n, j) <=> Jump(s, th, Len(s) + 1, j)
  BY <1>1, KeptSkip
<1>3. /\ Kept(t, th, n, c, j, e) <=> Kept(t, th, Len(t) + 1, c, j, e)
      /\ Jump(t, th, n, j) <=> Jump(t, th, Len(t) + 1, j)
  BY <1>1, KeptSkip
<1>4. /\ Kept(s, th, n, c, j, e) <=> Kept(u, th, n, c, j, e)
      /\ Jump(s, th, n, j) <=> Jump(u, th, n, j)
  BY <1>1, KeptLike
<1>5. /\ Kept(t, th, n, c, j, e) <=> Kept(u, th, n, c, j, e)
      /\ Jump(t, th, n, j) <=> Jump(u, th, n, j)
  BY <1>1, KeptLike
<1> QED BY <1>2, <1>3, <1>4, <1>5

\* An activation of the thread that runs, below another of it.
LEMMA Above ==
  ASSUME NEW s \in Seq(Activations), Shape(s), NEW i \in 1..Len(s), i < Len(s)
  PROVE  /\ s[i + 1].th # s[i].th => s[i + 1].kind = "resume"
         /\ s[i + 1].kind = "resume" => s[i].th # s[Len(s)].th /\ s[i].th # s[i + 1].th
         /\ s[i].th = s[Len(s)].th =>
              s[i + 1].th = s[Len(s)].th /\ s[Len(s)].kind # "resume"
<1>1. i + 1 \in 1..Len(s) /\ i + 1 # 1 /\ (i + 1) - 1 = i /\ Len(s) \in 1..Len(s)
  OBVIOUS
<1>2. s[i + 1].kind # "resume" => s[i + 1].th = s[i].th
  BY <1>1 DEF Shape
<1>3. s[i + 1].kind = "resume" => s[i].th # s[i + 1].th
  <2>1. i \in 1..((i + 1) - 1)
    BY <1>1
  <2> QED BY <1>1, <2>1 DEF Shape
<1>4. s[i].th = s[Len(s)].th => s[i + 1].th = s[Len(s)].th
  <2>1. i + 1 = Len(s) \/ i + 1 < Len(s)
    BY <1>1
  <2> QED BY <1>1, <2>1 DEF Shape
<1>5. s[i].th = s[Len(s)].th => s[Len(s)].kind # "resume"
  <2>1. i \in 1..(Len(s) - 1) /\ Len(s) # 1
    BY <1>1
  <2> QED BY <1>1, <2>1 DEF Shape
<1> QED BY <1>2, <1>3, <1>4, <1>5

\* A function keeps the frames of its activation when those above are popped or
\* others are pushed, and when the activation above it goes with its frames.
LEMMA FrameStays ==
  ASSUME NEW s \in Seq(Activations), NEW t \in Seq(Activations), Shape(s),
         NEW ths \in [Threads -> Thread], NEW ths2 \in [Threads -> Thread],
         NEW i \in 1..Len(t), i < Len(s), NEW x, NEW y,
         Same(s[i], t[i]), s[i].nexec = t[i].nexec,
         i < Len(t) => Same(s[i + 1], t[i + 1]),
         i = Len(t) => s[i + 1].th = s[Len(s)].th /\ s[i + 1].kind # "handler",
         FrameOK(s, ths, i, x),
         s[i].th # s[Len(s)].th => Still(ths, ths2, s[i].th),
         s[i].th = s[Len(s)].th =>
           /\ s[i + 1].level <= Len(ths2[s[i].th].ci)
           /\ \A f \in 1..s[i + 1].level : ths2[s[i].th].ci[f].fn = ths[s[i].th].ci[f].fn
           /\ i = Len(t) => Len(ths2[s[i].th].ci) = s[i + 1].level
  PROVE  FrameOK(t, ths2, i, y)
<1> DEFINE ci == ths[s[i].th].ci
           ci2 == ths2[s[i].th].ci
           e == End(s, ths, i)
           b == Base(s[i])
           n == s[i].nexec
<1>0. i \in 1..Len(s) /\ i + 1 \in 1..Len(s)
  OBVIOUS
<1>1. /\ s[i + 1].th # s[i].th => s[i + 1].kind = "resume"
      /\ s[i + 1].kind = "resume" => s[i].th # s[Len(s)].th /\ s[i].th # s[i + 1].th
  BY Above, <1>0
<1>2. /\ s[i].kind = t[i].kind /\ s[i].th = t[i].th /\ Base(t[i]) = b
      /\ i < Len(t) => s[i + 1].kind = t[i + 1].kind /\ s[i + 1].level = t[i + 1].level
  BY DEF Same, Base
<1>3. Run(ci, b, n, e)
  BY DEF FrameOK
<1>4. /\ n \in Nat /\ b \in Nat /\ Len(ci) \in Nat /\ Len(ci2) \in Nat /\ s[i + 1].level \in Nat
      /\ s[i].th \in Threads
  <2>1. /\ s[i].nexec \in Nat /\ s[i].level \in Nat /\ s[i].th \in Threads /\ s[i + 1].level \in Nat
    BY <1>0, ActType
  <2> QED BY <2>1, ThreadType DEF Base
<1>5. e = IF s[i + 1].kind # "resume" THEN s[i + 1].level ELSE Len(ci)
  BY DEF End
<1>6. /\ End(t, ths2, i) = e /\ e <= Len(ci2) /\ e <= Len(ci)
      /\ \A f \in 1..e : ci2[f].fn = ci[f].fn
  <2>1. CASE s[i].th = s[Len(s)].th
    <3>1. s[i + 1].kind # "resume" /\ e = s[i + 1].level
      BY <1>1, <1>5, <2>1
    <3>2. End(t, ths2, i) = e
      BY <1>2, <2>1, <3>1 DEF End
    <3> QED BY <2>1, <3>1, <3>2, <1>3 DEF Run
  <2>2. CASE s[i].th # s[Len(s)].th
    <3>1. Len(ci2) = Len(ci) /\ \A f \in 1..Len(ci) : ci2[f].fn = ci[f].fn
      BY <2>2 DEF Still
    <3>2. CASE s[i + 1].kind = "resume"
      <4>1. End(t, ths2, i) = e
        BY <1>2, <1>5, <3>1, <3>2 DEF End
      <4> QED BY <3>1, <3>2, <1>5, <4>1, <1>4
    <3>3. CASE s[i + 1].kind # "resume"
      <4>1. i < Len(t)
        BY <1>1, <2>2, <3>3
      <4>2. End(t, ths2, i) = e
        BY <1>2, <1>5, <3>3, <4>1 DEF End
      <4>3. e <= Len(ci)
        BY <1>3 DEF Run
      <4> QED BY <1>4, <1>5, <3>1, <3>3, <4>2, <4>3
    <3> QED BY <3>2, <3>3
  <2> QED BY <2>1, <2>2
<1>7. e \in Nat
  BY <1>4, <1>5
<1> HIDE DEF ci, ci2, e, b, n
<1>8. Run(ci2, b, n, e)
  <2>1. \A f \in (b + 1)..e : f \in 1..e
    BY <1>4, <1>7
  <2> QED BY <1>3, <1>4, <1>6, <1>7, <2>1 DEF Run
<1>9. \/ b < e
      \/ i < Len(t) /\ t[i + 1].kind = "handler"
  BY <1>2 DEF FrameOK, b, e
<1> QED BY <1>2, <1>6, <1>8, <1>9 DEF FrameOK, ci2, b, n

LEMMA WaitStays ==
  ASSUME NEW s \in Seq(Activations), NEW t \in Seq(Activations), Shape(s),
         NEW ths \in [Threads -> Thread], NEW ths2 \in [Threads -> Thread],
         NEW i \in 2..Len(t), i <= Len(s),
         Same(s[i], t[i]), Same(s[i - 1], t[i - 1]),
         Waits(s, ths, i),
         ths[s[i - 1].th].status # "free", ths2[s[i].th].status # "free",
         s[i - 1].th # s[Len(s)].th => Still(ths, ths2, s[i - 1].th)
  PROVE  Waits(t, ths2, i)
<1> DEFINE ci == ths[s[i - 1].th].ci
           ci2 == ths2[s[i - 1].th].ci
<1>1. i - 1 \in 1..Len(s) /\ i - 1 < Len(s) /\ (i - 1) + 1 = i
  OBVIOUS
<1>2. s[i].kind = "resume" => s[i - 1].th # s[Len(s)].th
  BY Above, <1>1
<1>3. s[i].kind = t[i].kind /\ s[i].th = t[i].th /\ s[i - 1].th = t[i - 1].th
  BY DEF Same
<1>4. ASSUME s[i].kind = "resume"
      PROVE  ci2 # <<>> /\ Top(ci2).fn = "C" /\ Top(ci2).arg \in {s[i].th, None}
  <2>1. ci # <<>> /\ Top(ci).fn = "C" /\ Top(ci).arg \in {s[i].th, None}
    BY <1>4 DEF Waits
  <2>2. s[i - 1].th \in Threads
    BY ActType, <1>1
  <2>3. ci \in Seq(Frame) /\ ci2 \in Seq(Frame)
    BY <2>2, ThreadType
  <2>4. /\ Len(ci2) = Len(ci)
        /\ \A f \in 1..Len(ci) : ci2[f].fn = ci[f].fn /\ ci2[f].arg \in {ci[f].arg, None}
    BY <1>2, <1>4 DEF Still
  <2>5. Len(ci) \in 1..Len(ci) /\ ci2 # <<>>
    <3>1. ci # <<>> /\ ci \in Seq(Frame) => Len(ci) \in 1..Len(ci)
      BY NonEmpty, Zenon
    <3>2. ci2 \in Seq(Frame) /\ Len(ci2) \in 1..Len(ci2) => ci2 # <<>>
      BY NonEmpty, Zenon
    <3> QED BY <2>1, <2>3, <2>4, <3>1, <3>2
  <2> QED BY <2>1, <2>4, <2>5 DEF Top
<1> QED BY <1>3, <1>4 DEF Waits

-----------------------------------------------------------------------------
(* The thread that runs. *)

LEMMA Now ==
  ASSUME IInv, ~Broken, cstack # <<>>
  PROVE  /\ Len(cstack) \in 1..Len(cstack) /\ L = cstack[Len(cstack)].th
         /\ Top(cstack) = cstack[Len(cstack)]
         /\ L \in Threads /\ On(L) /\ Exists(L)
         /\ Th.status = "ok" /\ ~Th.body
         /\ \A i \in 1..Len(cstack) :
              /\ cstack[i].th \in Threads /\ Exists(cstack[i].th) /\ On(cstack[i].th)
              /\ FrameOK(cstack, threads, i, raising # "no" \/ exited)
<1>1. cstack \in Seq(Activations)
  BY DEF IInv, Types, TypeOK
<1>2. Len(cstack) \in 1..Len(cstack)
  BY <1>1, NonEmpty
<1>3. Top(cstack) = cstack[Len(cstack)] /\ L = cstack[Len(cstack)].th
  BY DEF Top, L
<1>4. ASSUME NEW i \in 1..Len(cstack)
      PROVE  cstack[i].th \in Threads /\ Exists(cstack[i].th) /\ On(cstack[i].th)
  <2>1. cstack[i].th \in Threads
    BY <1>1, ActType
  <2>2. i \in DOMAIN cstack
    BY <1>1
  <2> QED BY <2>1, <2>2 DEF Broken, On
<1>5. ASSUME NEW i \in 1..Len(cstack)
      PROVE  FrameOK(cstack, threads, i, raising # "no" \/ exited)
  BY <1>4, Zenon DEF IInv, Frames
<1>6. Th.status = "ok" /\ ~Th.body
  BY <1>2, <1>3, <1>4 DEF IInv, StatusOf, Th
<1> QED BY <1>2, <1>3, <1>4, <1>5, <1>6

LEMMA Runner ==
  ASSUME IInv, ~Broken
  PROVE  /\ L \in Threads /\ Exists(L) /\ Th.status = "ok" /\ ~Th.body
         /\ CurrentOf(L) /\ StatusOf(L) /\ Th \in Thread
         /\ Th.nCcalls \in Nat
         /\ raising # "err" /\ ~exited => Th.nCcalls < Most
<1>1. /\ L \in Threads /\ Exists(L) /\ Th.status = "ok" /\ ~Th.body
      /\ CurrentOf(L) /\ StatusOf(L)
  <2>1. CASE cstack = <<>>
    <3>1. L = Main /\ Main \in Threads
      BY <2>1, CallsAssumption DEF L
    <3>2. StatusOf(Main) /\ CurrentOf(Main)
      BY <3>1 DEF IInv
    <3> QED BY <3>1, <3>2 DEF StatusOf, Exists, Th
  <2>2. CASE cstack # <<>>
    BY <2>2, Now DEF IInv
  <2> QED BY <2>1, <2>2
<1>2. threads \in [Threads -> Thread]
  BY DEF IInv, Types, TypeOK
<1>3. Th \in Thread /\ Th.nCcalls \in Nat
  BY <1>1, <1>2, ThreadType DEF Th
<1>4. Th.nCcalls <= Most /\ (Th.nCcalls = Most => raising = "err" \/ exited)
  BY <1>1 DEF CurrentOf, Th
<1>5. Most \in Nat
  BY CallsAssumption DEF Most
<1>6. raising # "err" /\ ~exited => Th.nCcalls < Most
  BY <1>3, <1>4, <1>5
<1> QED BY <1>1, <1>3, <1>6

\* Its last activation has the frames at the top of its stack.
LEMMA TopRun ==
  ASSUME IInv, ~Broken, cstack # <<>>
  PROVE  LET a == Top(cstack)
             b == Base(a)
         IN  /\ a.th = L /\ a \in Activations /\ a.nexec \in Nat /\ b \in Nat /\ Len(Th.ci) \in Nat
             /\ b + a.nexec <= Len(Th.ci) /\ Len(Th.ci) <= b + a.nexec + 1
             /\ \A f \in (b + 1)..Len(Th.ci) : Th.ci[f].fn = "lua" <=> f <= b + a.nexec
             /\ a.kind = "resume" => a.nexec > 0
             /\ b < Len(Th.ci) \/ raising # "no" \/ exited
<1> DEFINE n == Len(cstack)
<1>1. cstack \in Seq(Activations) /\ threads \in [Threads -> Thread]
  BY DEF IInv, Types, TypeOK
<1>2. /\ n \in 1..n /\ L = cstack[n].th /\ Top(cstack) = cstack[n] /\ L \in Threads
      /\ FrameOK(cstack, threads, n, raising # "no" \/ exited)
  BY Now
<1>3. /\ cstack[n] \in Activations /\ cstack[n].nexec \in Nat /\ Base(cstack[n]) \in Nat
  BY <1>1, <1>2, ActType, ElementOfSeq DEF Base
<1>4. Len(Th.ci) \in Nat /\ End(cstack, threads, n) = Len(Th.ci)
  BY <1>1, <1>2, ThreadType DEF End, Th
<1>5. ~(n < n)
  BY <1>2
<1>6. Run(Th.ci, Base(cstack[n]), cstack[n].nexec, Len(Th.ci))
  BY <1>2, <1>4 DEF FrameOK, Th
<1> QED BY <1>2, <1>3, <1>4, <1>5, <1>6 DEF FrameOK, Run

\* The frames of its activations are below those of the last.
LEMMA OwnLevels ==
  ASSUME IInv, ~Broken, cstack # <<>>, NEW i \in 1..Len(cstack), i < Len(cstack), cstack[i].th = L
  PROVE  /\ cstack[i + 1].th = L /\ cstack[i + 1].kind # "resume" /\ cstack[Len(cstack)].kind # "resume"
         /\ cstack[i + 1].level <= Base(Top(cstack))
         /\ cstack[i].kind # "resume" => cstack[i].level <= Base(Top(cstack))
         /\ \A m \in (i + 1)..Len(cstack) : cstack[i + 1].level <= cstack[m].level /\ cstack[m].th = L
<1> DEFINE n == Len(cstack)
<1>1. cstack \in Seq(Activations) /\ Shape(cstack) /\ Levels(cstack)
  BY DEF IInv, Types, TypeOK
<1>2. /\ n \in 1..n /\ L = cstack[n].th /\ Top(cstack) = cstack[n]
  BY Now
<1>3. cstack[i + 1].th = L /\ cstack[i + 1].kind # "resume" /\ cstack[n].kind # "resume"
  BY <1>1, <1>2, Above
<1>4. Base(Top(cstack)) = cstack[n].level
  BY <1>2, <1>3 DEF Base
<1>5. i + 1 \in 1..n /\ n \in 1..n
  BY <1>2
<1>6. cstack[i + 1].level \in Nat /\ cstack[n].level \in Nat
  BY <1>1, <1>5, ActType
<1>7. ASSUME NEW m \in (i + 1)..n
      PROVE  cstack[i + 1].level <= cstack[m].level /\ cstack[m].th = L
  <2>1. m \in 1..n /\ i < m
    BY <1>5
  <2>2. cstack[m].th = L
    <3>1. m = n \/ m < n
      BY <2>1
    <3> QED BY <1>1, <1>2, <2>1, <3>1 DEF Shape
  <2>3. m = i + 1 \/ i + 1 < m
    BY <2>1
  <2> QED BY <1>1, <1>3, <1>5, <1>6, <2>1, <2>2, <2>3 DEF Levels
<1>8. n \in (i + 1)..n
  BY <1>5
<1>9. cstack[i].kind # "resume" => cstack[i].level <= cstack[n].level
  BY <1>1, <1>2 DEF Levels
<1> QED BY <1>3, <1>4, <1>7, <1>8, <1>9

LEMMA OtherThread ==
  ASSUME cstack \in Seq(Activations), cstack' \in Seq(Activations),
         threads \in [Threads -> Thread], threads' \in [Threads -> Thread],
         NEW th \in Threads, th # L \/ threads[th].nCcalls # Most,
         Still(threads, threads', th), CurrentOf(th), StatusOf(th),
         NEW u \in Seq(Activations), Like(cstack, u), Like(cstack', u),
         \A i \in (Len(u) + 1)..Len(cstack) : cstack[i].th # th,
         \A i \in (Len(u) + 1)..Len(cstack') : cstack'[i].th # th
  PROVE  CurrentOf(th)' /\ StatusOf(th)'
<1>1. ASSUME NEW c, NEW j, NEW e
      PROVE  /\ Kept(cstack, th, Len(cstack) + 1, c, j, e) => Kept(cstack', th, Len(cstack') + 1, c, j, e)
             /\ Jump(cstack, th, Len(cstack) + 1, j) => Jump(cstack', th, Len(cstack') + 1, j)
  BY KeptApart
<1>2. /\ threads'[th].status = threads[th].status /\ threads'[th].body = threads[th].body
      /\ threads'[th].nCcalls = threads[th].nCcalls /\ threads'[th].errfunc = threads[th].errfunc
      /\ threads'[th].jmp = threads[th].jmp /\ Len(threads'[th].ci) = Len(threads[th].ci)
      /\ \A f \in 1..Len(threads[th].ci) : threads'[th].ci[f].fn = threads[th].ci[f].fn
  BY DEF Still
<1>3. CurrentOf(th)'
  <2>1. Exists(th)' => Jump(cstack', th, Len(cstack') + 1, threads'[th].jmp)
    BY <1>1, <1>2 DEF CurrentOf, Exists
  <2>2. ASSUME threads'[th].status \in {"ok", "yield"}
        PROVE  /\ Kept(cstack', th, Len(cstack') + 1, threads'[th].nCcalls, threads'[th].jmp, threads'[th].errfunc)
               /\ threads'[th].nCcalls <= Most
               /\ threads'[th].nCcalls # Most
    BY <1>1, <1>2, <2>2, Zenon DEF CurrentOf
  <2> QED BY <2>1, <2>2, Zenon DEF CurrentOf, Exists
<1>4. On(th)' <=> On(th)
  <2>1. \A i \in 1..Len(cstack) : cstack[i].th = th => i \in 1..Len(u) /\ u[i].th = th
    BY DEF Like, Same
  <2>2. \A i \in 1..Len(cstack') : cstack'[i].th = th => i \in 1..Len(u) /\ u[i].th = th
    BY DEF Like, Same
  <2>3. \A i \in 1..Len(u) : u[i].th = th =>
          /\ i \in 1..Len(cstack) /\ cstack[i].th = th
          /\ i \in 1..Len(cstack') /\ cstack'[i].th = th
    BY DEF Like, Same
  <2> QED BY <2>1, <2>2, <2>3 DEF On
<1>5. StatusOf(th)'
  <2>1. Exists(th)' <=> Exists(th)
    BY <1>2 DEF Exists
  <2>2. threads[th].ci = <<>> => threads'[th].ci = <<>>
    BY <1>2, ThreadType, EmptySeq
  <2>3. Suspended(threads[th].ci) => Suspended(threads'[th].ci)
    BY <1>2 DEF Suspended
  <2>4. /\ threads'[th].status = threads[th].status
        /\ threads'[th].body = threads[th].body
    BY <1>2
  <2> QED BY <2>1, <2>2, <2>3, <2>4, <1>4, Zenon DEF StatusOf
<1> QED BY <1>3, <1>5

LEMMA NewThread ==
  ASSUME cstack' \in Seq(Activations), NEW th \in Threads, th # Main, threads'[th] = New,
         \A i \in 1..Len(cstack') : cstack'[i].th # th
  PROVE  CurrentOf(th)' /\ StatusOf(th)'
<1>1. /\ threads'[th].status = "ok" /\ threads'[th].nCcalls = 0 /\ threads'[th].errfunc = FALSE
      /\ threads'[th].jmp = 0 /\ threads'[th].ci = <<>>
  BY DEF New, Absent
<1>2. Kept(cstack', th, Len(cstack') + 1, 0, 0, FALSE) /\ Jump(cstack', th, Len(cstack') + 1, 0)
  BY KeptOff
<1>3. 0 < Most /\ 0 # Most /\ 0 <= Most
  BY CallsAssumption DEF Most
<1>4. CurrentOf(th)'
  BY <1>1, <1>2, <1>3, Zenon DEF CurrentOf
<1>5. ~On(th)'
  BY DEF On
<1> QED BY <1>1, <1>4, <1>5, Zenon DEF StatusOf

-----------------------------------------------------------------------------
(* The steps, by what they do to the C stack. *)

\* The C stack stays as it is, but for what the last luaV_execute() runs.
LEMMA SameStep ==
  ASSUME IInv, ~Broken, cstack # <<>>, Types', Sizes',
         Len(cstack') = Len(cstack), Like(cstack, cstack'),
         \A i \in 1..Len(cstack) : i < Len(cstack) => cstack'[i].nexec = cstack[i].nexec,
         \A th \in Threads :
           th # L => Still(threads, threads', th) \/ (~Exists(th) /\ threads'[th] = New),
         /\ threads'[L].status = Th.status /\ threads'[L].body = Th.body
         /\ threads'[L].nCcalls = Th.nCcalls /\ threads'[L].errfunc = Th.errfunc
         /\ threads'[L].jmp = Th.jmp,
         Th.nCcalls = Most => raising' = "err" \/ exited',
         Base(Top(cstack)) <= Len(threads'[L].ci),
         \A f \in 1..Base(Top(cstack)) : threads'[L].ci[f].fn = Th.ci[f].fn,
         FrameOK(cstack', threads', Len(cstack), raising' # "no" \/ exited')
  PROVE  IInv'
<1> DEFINE n == Len(cstack)
<1>1. /\ cstack \in Seq(Activations) /\ cstack' \in Seq(Activations)
      /\ threads \in [Threads -> Thread] /\ threads' \in [Threads -> Thread]
      /\ Shape(cstack) /\ Saved(cstack) /\ Levels(cstack)
  BY DEF IInv, Types, TypeOK
<1>2. /\ n \in 1..n /\ L = cstack[n].th /\ L \in Threads /\ On(L) /\ Exists(L)
      /\ Th.status = "ok" /\ ~Th.body
      /\ \A i \in 1..n :
           /\ cstack[i].th \in Threads /\ Exists(cstack[i].th) /\ On(cstack[i].th)
           /\ FrameOK(cstack, threads, i, raising # "no" \/ exited)
  BY Now
<1>3. Shape(cstack') /\ Saved(cstack') /\ Levels(cstack')
  BY <1>1, ShapeLike
<1>4. \A i \in 1..n : Same(cstack[i], cstack'[i])
  BY DEF Like
<1>5. L' = L /\ cstack' # <<>>
  <2>1. cstack' # <<>>
    BY <1>1, <1>2, EmptySeq
  <2>2. L' = cstack'[n].th
    BY <2>1 DEF L, Top
  <2> QED BY <1>2, <1>4, <2>1, <2>2 DEF Same
<1>6. \A th \in Threads : (\E i \in 1..n : cstack'[i].th = th) => Exists(th)
  BY <1>2, <1>4 DEF Same
<1>7. ASSUME NEW i \in 1..n
      PROVE  cstack[i].th # L => Still(threads, threads', cstack[i].th)
  BY <1>2
<1>8. ASSUME NEW th \in Threads, th # L
      PROVE  CurrentOf(th)' /\ StatusOf(th)'
  <2>1. CurrentOf(th) /\ StatusOf(th)
    BY DEF IInv
  <2>2. CASE Still(threads, threads', th)
    <3>1. /\ Like(cstack', cstack')
          /\ \A i \in (Len(cstack') + 1)..Len(cstack) : cstack[i].th # th
          /\ \A i \in (Len(cstack') + 1)..Len(cstack') : cstack'[i].th # th
      BY <1>1 DEF Like, Same
    <3> QED BY <1>1, <1>8, <2>1, <2>2, <3>1, OtherThread
  <2>3. CASE ~Exists(th) /\ threads'[th] = New
    <3>1. th # Main
      BY <2>1, <2>3 DEF StatusOf, Exists
    <3>2. \A i \in 1..Len(cstack') : cstack'[i].th # th
      BY <1>6, <2>3
    <3> QED BY <1>1, <2>3, <3>1, <3>2, NewThread
  <2> QED BY <1>8, <2>2, <2>3
<1>9. CurrentOf(L)'
  <2>1. ASSUME NEW c, NEW j, NEW e
        PROVE  /\ Kept(cstack, L, n + 1, c, j, e) <=> Kept(cstack', L, n + 1, c, j, e)
               /\ Jump(cstack, L, n + 1, j) <=> Jump(cstack', L, n + 1, j)
    <3>1. n + 1 \in 1..(Len(cstack') + 1)
      BY <1>2
    <3> QED BY <1>1, <3>1, KeptLike
  <2>2. CurrentOf(L)
    BY <1>2 DEF IInv
  <2>3. /\ Kept(cstack, L, n + 1, Th.nCcalls, Th.jmp, Th.errfunc) /\ Th.nCcalls <= Most
        /\ Jump(cstack, L, n + 1, Th.jmp)
    BY <1>2, <2>2 DEF CurrentOf, Th
  <2>4. /\ Kept(cstack', L, Len(cstack') + 1, threads'[L].nCcalls, threads'[L].jmp, threads'[L].errfunc)
        /\ threads'[L].nCcalls <= Most
        /\ threads'[L].nCcalls = Most => raising' = "err" \/ exited'
        /\ Jump(cstack', L, Len(cstack') + 1, threads'[L].jmp)
    BY <2>1, <2>3
  <2>5. ASSUME NEW th, th = L PROVE CurrentOf(th)'
    BY <1>5, <2>4, <2>5 DEF CurrentOf
  <2>6. L' = L => (CurrentOf(L)' <=> \A th \in {L} : CurrentOf(th)')
    BY <1>5 DEF CurrentOf
  <2> QED BY <1>5, <2>5, <2>6
<1>10. StatusOf(L)'
  BY <1>2, <1>4, <1>5 DEF StatusOf, On, Same, Th, Exists
<1>11. \A th \in Threads : CurrentOf(th)' /\ StatusOf(th)'
  <2>1. ASSUME NEW th \in Threads, th = L PROVE CurrentOf(th)' /\ StatusOf(th)'
    BY <1>5, <1>9, <1>10, <2>1
  <2> QED BY <1>8, <2>1
<1>12. Frames'
  <2>1. ASSUME NEW i \in 1..n
        PROVE  FrameOK(cstack', threads', i, raising' # "no" \/ exited')
    <3>1. CASE i = n
      BY <3>1
    <3>2. CASE i < n
      <4>1. cstack[i].th = L =>
              /\ cstack[i + 1].level <= Len(threads'[cstack[i].th].ci)
              /\ \A f \in 1..cstack[i + 1].level : threads'[cstack[i].th].ci[f].fn = threads[cstack[i].th].ci[f].fn
        <5>1. SUFFICES ASSUME cstack[i].th = L
                       PROVE  /\ cstack[i + 1].level <= Len(threads'[L].ci)
                              /\ \A f \in 1..cstack[i + 1].level : threads'[L].ci[f].fn = threads[L].ci[f].fn
          OBVIOUS
        <5>2. cstack[i + 1].level <= Base(Top(cstack))
          BY <3>2, <5>1, OwnLevels
        <5>3. cstack[i + 1].level \in Nat /\ Base(Top(cstack)) \in Nat /\ Len(threads'[L].ci) \in Nat
          <6>1. i + 1 \in 1..Len(cstack)
            BY <3>2
          <6> QED BY <1>1, <1>2, <6>1, ActType, TopRun, ThreadType
        <5> QED BY <5>2, <5>3 DEF Th
      <4>2. Same(cstack[i], cstack'[i]) /\ cstack'[i].nexec = cstack[i].nexec
        BY <1>4, <3>2
      <4>3. Same(cstack[i + 1], cstack'[i + 1])
        BY <1>4, <3>2
      <4>4. i \in 1..Len(cstack') /\ i # Len(cstack')
        BY <3>2
      <4>5. FrameOK(cstack, threads, i, raising # "no" \/ exited)
        BY <1>2
      <4> QED BY <1>1, <1>2, <1>7, <3>2, <4>1, <4>2, <4>3, <4>4, <4>5, FrameStays
    <3> QED BY <3>1, <3>2
  <2> QED BY <2>1, Zenon DEF Frames
<1>13. Waiting'
  <2>1. ASSUME NEW i \in 2..n PROVE Waits(cstack', threads', i)
    <3>1. i - 1 \in 1..n /\ i \in 1..n
      OBVIOUS
    <3>2. Same(cstack[i], cstack'[i]) /\ Same(cstack[i - 1], cstack'[i - 1])
      BY <1>4, <3>1
    <3>3. threads[cstack[i - 1].th].status # "free" /\ threads'[cstack[i].th].status # "free"
      <4>1. Exists(cstack[i - 1].th) /\ Exists(cstack[i].th)
        BY <1>2, <3>1
      <4>2. threads'[cstack[i].th].status = threads[cstack[i].th].status
        BY <1>2, <3>1, <4>1, <1>7 DEF Still, Th
      <4> QED BY <4>1, <4>2 DEF Exists
    <3>4. Waits(cstack, threads, i)
      BY DEF IInv, Waiting
    <3>5. i \in 2..Len(cstack') /\ i <= Len(cstack)
      OBVIOUS
    <3>6. cstack[i - 1].th # cstack[Len(cstack)].th => Still(threads, threads', cstack[i - 1].th)
      BY <1>2, <1>7, <3>1
    <3> QED BY <1>1, <3>2, <3>3, <3>4, <3>5, <3>6, WaitStays
  <2> QED BY <2>1, Zenon DEF Waiting
<1> QED BY <1>3, <1>11, <1>12, <1>13, Zenon DEF IInv

\* luaD_call() and luaD_pcall(): another activation of the thread that runs.
LEMMA PushStep ==
  ASSUME IInv, ~Broken, Types', Sizes',
         NEW a \in Activations, cstack' = Append(cstack, a),
         a.th = L, a.kind # "resume", a.level = Len(Th.ci),
         a.nCcalls = Th.nCcalls, a.errfunc = Th.errfunc, a.jmp = Th.jmp,
         cstack = <<>> \/ a.kind = "handler" \/ (raising = "no" /\ ~exited),
         Th.nCcalls < Most,
         \A th \in Threads : th # L => threads'[th] = threads[th],
         threads'[L].status = Th.status /\ threads'[L].body = Th.body,
         Kept(cstack', L, Len(cstack) + 2, threads'[L].nCcalls, threads'[L].jmp, threads'[L].errfunc),
         threads'[L].nCcalls <= Most,
         threads'[L].nCcalls = Most => raising' = "err" \/ exited',
         Len(Th.ci) <= Len(threads'[L].ci),
         \A f \in 1..Len(Th.ci) : threads'[L].ci[f].fn = Th.ci[f].fn,
         FrameOK(cstack', threads', Len(cstack) + 1, raising' # "no" \/ exited')
  PROVE  IInv'
<1> DEFINE n == Len(cstack)
<1>1. /\ cstack \in Seq(Activations)
      /\ threads \in [Threads -> Thread] /\ threads' \in [Threads -> Thread]
      /\ Shape(cstack) /\ Saved(cstack) /\ Levels(cstack)
  BY DEF IInv, Types, TypeOK
<1>2. /\ cstack' \in Seq(Activations) /\ Len(cstack') = n + 1 /\ cstack'[n + 1] = a
      /\ Like(cstack', cstack) /\ n \in Nat
      /\ \A i \in 1..n : cstack'[i] = cstack[i]
  BY <1>1, Pushing
<1>3. cstack = <<>> <=> n = 0
  BY <1>1, EmptySeq
<1>4. /\ L \in Threads /\ Exists(L) /\ Th.status = "ok" /\ ~Th.body
      /\ CurrentOf(L) /\ StatusOf(L)
  BY Runner
<1>5. \A i \in 1..n : cstack[i].th \in Threads /\ Exists(cstack[i].th)
  BY Now, <1>3
<1>6. L' = L
  BY <1>2, <1>3 DEF L, Top
<1>7. IF n = 0 THEN L = Main /\ Len(Th.ci) = 0
      ELSE L = cstack[n].th /\ Top(cstack) = cstack[n]
  <2>1. CASE n = 0
    <3>1. L = Main /\ ~On(L)
      BY <1>3, <2>1 DEF L, On
    <3>2. Th.ci = <<>>
      BY <1>4, <3>1 DEF StatusOf, Th
    <3> QED BY <2>1, <3>1, <3>2
  <2>2. CASE n # 0
    BY <1>3, <2>2, Now
  <2> QED BY <2>1, <2>2
<1>8. n # 0 => Base(Top(cstack)) \in Nat /\ Base(Top(cstack)) <= Len(Th.ci) /\ Len(Th.ci) \in Nat
  BY <1>3, TopRun
<1>9. \A i \in 1..n : cstack[i].th = L /\ cstack[i].kind # "resume" => cstack[i].level <= Len(Th.ci)
  <2>1. SUFFICES ASSUME NEW i \in 1..n, cstack[i].th = L, cstack[i].kind # "resume"
                 PROVE  cstack[i].level <= Len(Th.ci)
    BY Zenon
  <2>2. cstack # <<>> /\ n # 0 /\ cstack[i].level \in Nat
    BY <1>1, <1>3, ActType
  <2>3. cstack[i].level <= Base(Top(cstack))
    <3>1. CASE i < n
      BY <2>1, <2>2, <3>1, OwnLevels
    <3>2. CASE i = n
      BY <1>7, <2>1, <2>2, <3>2 DEF Base
    <3> QED BY <3>1, <3>2
  <2> QED BY <1>8, <2>2, <2>3
<1>10. Shape(cstack')
  <2>1. IF cstack = <<>> THEN a.kind # "resume" /\ a.th = Main
        ELSE a.th = cstack[n].th
    BY <1>3, <1>7
  <2>2. Shape(Append(cstack, a))
    BY <1>1, <2>1, ShapePush
  <2> QED BY <2>2
<1>11. Saved(cstack')
  <2>1. Kept(cstack, a.th, n + 1, a.nCcalls, a.jmp, a.errfunc)
    BY <1>4 DEF CurrentOf, Th
  <2>2. Saved(Append(cstack, a))
    BY <1>1, <2>1, SavedPush
  <2> QED BY <2>2
<1>12. Levels(cstack')
  <2>1. cstack = <<>> => a.level = 0
    BY <1>3, <1>7
  <2>2. Levels(Append(cstack, a))
    BY <1>1, <1>9, <2>1, LevelsPush
  <2> QED BY <2>2
<1>13. ASSUME NEW th \in Threads, th # L PROVE CurrentOf(th)' /\ StatusOf(th)'
  <2>1. Still(threads, threads', th)
    BY <1>13, Unchanged
  <2>2. Like(cstack, cstack)
    BY <1>1 DEF Like, Same
  <2>3. /\ \A i \in (n + 1)..Len(cstack) : cstack[i].th # th
        /\ \A i \in (n + 1)..Len(cstack') : cstack'[i].th # th
    BY <1>2, <1>13
  <2>4. CurrentOf(th) /\ StatusOf(th)
    BY DEF IInv
  <2> QED BY <1>1, <1>2, <1>13, <2>1, <2>2, <2>3, <2>4, OtherThread
<1>14. ASSUME NEW th \in Threads, th = L PROVE CurrentOf(th)' /\ StatusOf(th)'
  <2>1. Len(cstack') + 1 = n + 2
    BY <1>2
  <2>2. On(th)'
    BY <1>2, <1>14 DEF On
  <2>3. threads'[th].status = "ok" /\ ~threads'[th].body
    BY <1>4, <1>14 DEF Th
  <2>4. CurrentOf(th)'
    BY <1>6, <1>14, <2>1, <2>3, Zenon DEF CurrentOf, Kept
  <2>5. StatusOf(th)'
    BY <2>2, <2>3 DEF StatusOf
  <2> QED BY <2>4, <2>5
<1>15. Frames'
  <2>1. ASSUME NEW i \in 1..(n + 1)
        PROVE  FrameOK(cstack', threads', i, raising' # "no" \/ exited')
    <3>1. CASE i = n + 1
      BY <3>1
    <3>2. CASE i = n
      <4>1. i = n /\ n # 0 /\ n \in 1..n /\ n < n + 1
        BY <3>2
      <4>2. /\ FrameOK(cstack, threads, n, raising # "no" \/ exited)
            /\ L = cstack[n].th /\ Top(cstack) = cstack[n]
        BY <1>3, <4>1, Now
      <4>3. End(cstack, threads, n) = Len(Th.ci) /\ End(cstack', threads', n) = Len(Th.ci)
        <5>1. ~(n < n) /\ n < Len(cstack') /\ cstack'[n + 1].kind # "resume" /\ cstack'[n + 1].level = Len(Th.ci)
          BY <1>2, <4>1
        <5>2. End(cstack, threads, n) = Len(Th.ci)
          BY <4>2, <5>1 DEF End, Th
        <5>3. End(cstack', threads', n) = Len(Th.ci)
          BY <5>1, Zenon DEF End
        <5> QED BY <5>2, <5>3
      <4>4. /\ Run(Th.ci, Base(cstack[n]), cstack[n].nexec, Len(Th.ci))
            /\ cstack[n].kind = "resume" => cstack[n].nexec > 0
            /\ Base(cstack[n]) < Len(Th.ci) \/ raising # "no" \/ exited
        <5>1. ~(n < n)
          BY <4>1
        <5> QED BY <4>2, <4>3, <5>1 DEF FrameOK, Th
      <4>5. Run(threads'[L].ci, Base(cstack[n]), cstack[n].nexec, Len(Th.ci))
        <5>1. \A f \in (Base(cstack[n]) + 1)..Len(Th.ci) : f \in 1..Len(Th.ci)
          BY <1>8, <4>1, <4>2
        <5>2. Len(threads'[L].ci) \in Nat
          BY <1>1, <1>4, ThreadType
        <5> QED BY <4>4, <5>1, <5>2 DEF Run
      <4>6. cstack'[n] = cstack[n] /\ cstack'[n + 1] = a
        BY <1>2, <4>1
      <4>7. Base(cstack'[n]) < Len(Th.ci) \/ cstack'[n + 1].kind = "handler"
        BY <1>3, <4>1, <4>4, <4>6
      <4>8. n < Len(cstack')
        BY <1>2, <4>1
      <4> QED BY <4>1, <4>2, <4>3, <4>4, <4>5, <4>6, <4>7, <4>8 DEF FrameOK
    <3>3. CASE i < n
      <4>1. i \in 1..n /\ cstack # <<>>
        BY <1>3, <3>3
      <4>2. FrameOK(cstack, threads, i, raising # "no" \/ exited) /\ cstack[i].th \in Threads
        BY <4>1, Now
      <4>3. L = cstack[n].th
        BY <4>1, Now
      <4>4. cstack[i].th = L => cstack[i + 1].level <= Base(Top(cstack))
        BY <3>3, <4>1, OwnLevels
      <4>5. cstack[i + 1].level \in Nat /\ Len(threads'[L].ci) \in Nat
        BY <1>1, <1>4, <3>3, ActType, ThreadType
      <4>6. cstack[i].th = L =>
              /\ cstack[i + 1].level <= Len(threads'[cstack[i].th].ci)
              /\ \A f \in 1..cstack[i + 1].level : threads'[cstack[i].th].ci[f].fn = threads[cstack[i].th].ci[f].fn
        <5>1. cstack[i].th = L => cstack[i + 1].level <= Len(Th.ci) /\ Len(Th.ci) \in Nat
          BY <1>8, <4>1, <4>4, <4>5
        <5> QED BY <4>5, <5>1 DEF Th
      <4>7. Same(cstack[i], cstack'[i]) /\ Same(cstack[i + 1], cstack'[i + 1]) /\ cstack[i].nexec = cstack'[i].nexec
        BY <1>2, <3>3 DEF Same
      <4>8. i \in 1..Len(cstack') /\ i # Len(cstack')
        BY <1>2, <3>3
      <4>9. cstack[i].th # L => Still(threads, threads', cstack[i].th)
        BY <4>2, Unchanged
      <4> QED BY <1>1, <1>2, <3>3, <4>2, <4>3, <4>6, <4>7, <4>8, <4>9, FrameStays
    <3> QED BY <3>1, <3>2, <3>3
  <2> QED BY <1>2, <2>1, Zenon DEF Frames
<1>16. Waiting'
  <2>1. ASSUME NEW i \in 2..(n + 1) PROVE Waits(cstack', threads', i)
    <3>1. CASE i = n + 1
      <4>1. cstack'[i] = a
        BY <1>2, <3>1
      <4> QED BY <4>1 DEF Waits
    <3>2. CASE i # n + 1
      <4>1. i \in 2..n /\ i - 1 \in 1..n /\ i \in 1..n /\ cstack # <<>>
        BY <1>3, <3>2
      <4>2. Same(cstack[i], cstack'[i]) /\ Same(cstack[i - 1], cstack'[i - 1])
        BY <1>2, <4>1 DEF Same
      <4>3. threads[cstack[i - 1].th].status # "free" /\ threads'[cstack[i].th].status # "free"
        <5>1. Exists(cstack[i - 1].th) /\ Exists(cstack[i].th) /\ cstack[i].th \in Threads
          BY <1>5, <4>1
        <5> QED BY <1>4, <5>1 DEF Exists, Th
      <4>4. Waits(cstack, threads, i)
        BY <4>1 DEF IInv, Waiting
      <4>5. i \in 2..Len(cstack') /\ i <= Len(cstack)
        BY <1>2, <4>1
      <4>6. cstack[i - 1].th # cstack[n].th => Still(threads, threads', cstack[i - 1].th)
        BY <1>5, <1>7, <4>1, Unchanged
      <4> QED BY <1>1, <1>2, <4>2, <4>3, <4>4, <4>5, <4>6, WaitStays
    <3> QED BY <3>1, <3>2
  <2> QED BY <1>2, <2>1, Zenon DEF Waiting
<1> QED BY <1>10, <1>11, <1>12, <1>13, <1>14, <1>15, <1>16, Zenon DEF IInv

\* A return, an error or a yield: the last activations, which are all of the thread
\* that runs, go.
LEMMA CutStep ==
  ASSUME IInv, ~Broken, cstack # <<>>, Types', Sizes',
         NEW m \in 0..(Len(cstack) - 1), cstack' = SubSeq(cstack, 1, m),
         \A i \in (m + 1)..Len(cstack) : cstack[i].th = L,
         cstack[m + 1].kind # "handler",
         \A th \in Threads : th # L => threads'[th] = threads[th],
         threads'[L].status # "free",
         Jump(cstack', L, m + 1, threads'[L].jmp),
         threads'[L].status \in {"ok", "yield"} =>
           /\ Kept(cstack', L, m + 1, threads'[L].nCcalls, threads'[L].jmp, threads'[L].errfunc)
           /\ threads'[L].nCcalls < Most,
         cstack[m + 1].kind # "resume" =>
           /\ threads'[L].status = "ok" /\ ~threads'[L].body
           /\ Len(threads'[L].ci) = cstack[m + 1].level
           /\ \A f \in 1..cstack[m + 1].level : threads'[L].ci[f].fn = Th.ci[f].fn,
         cstack[m + 1].kind = "resume" =>
           /\ threads'[L].status = "ok" => threads'[L].ci = <<>>
           /\ threads'[L].status = "yield" => Suspended(threads'[L].ci)
  PROVE  IInv'
<1> DEFINE n == Len(cstack)
<1>1. /\ cstack \in Seq(Activations)
      /\ threads \in [Threads -> Thread] /\ threads' \in [Threads -> Thread]
      /\ Shape(cstack) /\ Saved(cstack) /\ Levels(cstack)
  BY DEF IInv, Types, TypeOK
<1>2. /\ n \in 1..n /\ L = cstack[n].th /\ L \in Threads /\ Exists(L)
      /\ \A i \in 1..n :
           /\ cstack[i].th \in Threads /\ Exists(cstack[i].th)
           /\ FrameOK(cstack, threads, i, raising # "no" \/ exited)
  BY Now
<1>3. /\ cstack' \in Seq(Activations) /\ Len(cstack') = m /\ Like(cstack, cstack')
      /\ \A i \in 1..m : cstack'[i] = cstack[i]
  <2>1. m \in 0..Len(cstack)
    BY <1>2
  <2> QED BY <1>1, <2>1, Cutting
<1>4. Shape(cstack') /\ Saved(cstack') /\ Levels(cstack')
  BY <1>1, <1>3, ShapeLike
<1>5. m + 1 \in 1..n /\ cstack[m + 1].th = L /\ m \in Nat /\ m < n /\ \A i \in 1..m : i \in 1..n /\ i < n
  BY <1>2
<1>6. cstack[m + 1].kind = "resume" =>
        m + 1 # 1 /\ L # Main /\ \A i \in 1..m : cstack[i].th # L
  <2>1. SUFFICES ASSUME cstack[m + 1].kind = "resume"
                 PROVE  m + 1 # 1 /\ L # Main /\ \A i \in 1..m : cstack[i].th # L
    OBVIOUS
  <2>2. m + 1 # 1
    BY <1>1, <1>5, <2>1 DEF Shape
  <2>3. \A i \in 1..((m + 1) - 1) : cstack[i].th # cstack[m + 1].th
    BY <1>1, <1>5, <2>1, <2>2 DEF Shape
  <2>4. 1 \in 1..n /\ 1 \in 1..m
    BY <1>5, <2>2
  <2>5. cstack[1].th = Main
    BY <1>1, <2>4 DEF Shape
  <2> QED BY <1>5, <2>2, <2>3, <2>4, <2>5
<1>7. cstack[m + 1].kind # "resume" /\ m # 0 => cstack[m].th = L
  <2>1. m # 0 => m \in 1..n /\ m < n
    BY <1>5
  <2> QED BY <1>1, <1>5, <2>1, Above
<1>8. ASSUME NEW th \in Threads, th # L PROVE CurrentOf(th)' /\ StatusOf(th)'
  <2>1. Still(threads, threads', th)
    BY <1>8, Unchanged
  <2>2. Like(cstack', cstack')
    BY <1>3 DEF Like, Same
  <2>3. /\ \A i \in (Len(cstack') + 1)..Len(cstack) : cstack[i].th # th
        /\ \A i \in (Len(cstack') + 1)..Len(cstack') : cstack'[i].th # th
    BY <1>3, <1>5, <1>8
  <2>4. CurrentOf(th) /\ StatusOf(th)
    BY DEF IInv
  <2> QED BY <1>1, <1>3, <1>8, <2>1, <2>2, <2>3, <2>4, OtherThread
<1>9. ASSUME NEW th \in Threads, th = L PROVE CurrentOf(th)' /\ StatusOf(th)'
  <2>1. Len(cstack') + 1 = m + 1
    BY <1>3
  <2>2. CurrentOf(th)'
    <3>1. ASSUME threads'[th].status \in {"ok", "yield"}
          PROVE  /\ Kept(cstack', th, m + 1, threads'[th].nCcalls, threads'[th].jmp, threads'[th].errfunc)
                 /\ threads'[th].nCcalls <= Most /\ threads'[th].nCcalls # Most
      <4>1. threads'[th].nCcalls \in Nat /\ Most \in Nat
        BY <1>1, ThreadType, CallsAssumption DEF Most
      <4> QED BY <1>9, <3>1, <4>1
    <3> QED BY <1>9, <2>1, <3>1, Zenon DEF CurrentOf
  <2>3. CASE cstack[m + 1].kind = "resume"
    <3>1. ~On(th)' /\ th # Main
      BY <1>3, <1>6, <1>9, <2>3 DEF On
    <3>2. StatusOf(th)'
      BY <1>9, <2>3, <3>1 DEF StatusOf
    <3> QED BY <2>2, <3>2
  <2>4. CASE cstack[m + 1].kind # "resume"
    <3>1. threads'[th].status = "ok" /\ ~threads'[th].body
      BY <1>9, <2>4
    <3>2. ~On(th)' => threads'[th].ci = <<>>
      <4>1. SUFFICES ASSUME ~On(th)' PROVE threads'[th].ci = <<>>
        OBVIOUS
      <4>2. m = 0
        <5>1. m # 0 => m \in 1..Len(cstack') /\ cstack'[m].th = th
          BY <1>3, <1>5, <1>7, <1>9, <2>4
        <5> QED BY <4>1, <5>1 DEF On
      <4>3. cstack[m + 1].level = 0
        BY <1>1, <1>5, <4>2 DEF Levels
      <4>4. Len(threads'[th].ci) = 0 /\ threads'[th].ci \in Seq(Frame)
        BY <1>1, <1>9, <2>4, <4>3, ThreadType
      <4> QED BY <4>4, EmptySeq
    <3>3. StatusOf(th)'
      BY <3>1, <3>2 DEF StatusOf
    <3> QED BY <2>2, <3>3
  <2> QED BY <2>3, <2>4
<1>10. Frames'
  <2>1. ASSUME NEW i \in 1..m
        PROVE  FrameOK(cstack', threads', i, raising' # "no" \/ exited')
    <3>1. i \in 1..n /\ i < n /\ i + 1 \in 1..n /\ i + 1 \in 1..(m + 1)
      BY <1>5
    <3>2. FrameOK(cstack, threads, i, raising # "no" \/ exited) /\ cstack[i].th \in Threads
      BY <1>2, <3>1
    <3>3. cstack[i].th = L =>
            /\ cstack[i + 1].level <= Len(threads'[cstack[i].th].ci)
            /\ \A f \in 1..cstack[i + 1].level : threads'[cstack[i].th].ci[f].fn = threads[cstack[i].th].ci[f].fn
            /\ i = Len(cstack') => Len(threads'[cstack[i].th].ci) = cstack[i + 1].level
      <4>1. SUFFICES ASSUME cstack[i].th = L
                     PROVE  /\ cstack[i + 1].level <= Len(threads'[L].ci)
                            /\ \A f \in 1..cstack[i + 1].level : threads'[L].ci[f].fn = threads[L].ci[f].fn
                            /\ i = m => Len(threads'[L].ci) = cstack[i + 1].level
        BY <1>3
      <4>2. cstack[m + 1].kind # "resume"
        BY <1>6, <4>1
      <4>3. m + 1 \in (i + 1)..Len(cstack)
        BY <1>5, <3>1
      <4>4. cstack[i + 1].level <= cstack[m + 1].level
        BY <3>1, <4>1, <4>3, OwnLevels
      <4>5. cstack[i + 1].level \in Nat /\ cstack[m + 1].level \in Nat
        BY <1>1, <1>5, <3>1, ActType
      <4>6. /\ Len(threads'[L].ci) = cstack[m + 1].level
            /\ \A f \in 1..cstack[m + 1].level : threads'[L].ci[f].fn = threads[L].ci[f].fn
        BY <4>2 DEF Th
      <4>7. \A f \in 1..cstack[i + 1].level : f \in 1..cstack[m + 1].level
        BY <4>4, <4>5
      <4> QED BY <4>4, <4>6, <4>7
    <3>4. /\ Same(cstack[i], cstack'[i]) /\ cstack[i].nexec = cstack'[i].nexec
          /\ i < Len(cstack') => Same(cstack[i + 1], cstack'[i + 1])
      <4>1. i < Len(cstack') => i + 1 \in 1..m
        BY <1>3, <3>1
      <4> QED BY <1>3, <4>1 DEF Same
    <3>5. i \in 1..Len(cstack')
      BY <1>3
    <3>6. cstack[i].th # cstack[n].th => Still(threads, threads', cstack[i].th)
      BY <1>2, <3>2, Unchanged
    <3>7. i = Len(cstack') => cstack[i + 1].th = cstack[n].th /\ cstack[i + 1].kind # "handler"
      BY <1>2, <1>3, <1>5
    <3> QED BY <1>1, <1>2, <1>3, <3>1, <3>2, <3>3, <3>4, <3>5, <3>6, <3>7, FrameStays
  <2> QED BY <1>3, <2>1, Zenon DEF Frames
<1>11. Waiting'
  <2>1. ASSUME NEW i \in 2..m PROVE Waits(cstack', threads', i)
    <3>1. i - 1 \in 1..m /\ i \in 1..m /\ i \in 2..n /\ i - 1 \in 1..n /\ i \in 1..n
      BY <1>5
    <3>2. Same(cstack[i], cstack'[i]) /\ Same(cstack[i - 1], cstack'[i - 1])
      BY <1>3, <3>1 DEF Same
    <3>3. threads[cstack[i - 1].th].status # "free" /\ threads'[cstack[i].th].status # "free"
      <4>1. Exists(cstack[i - 1].th) /\ Exists(cstack[i].th) /\ cstack[i].th \in Threads
        BY <1>2, <3>1
      <4> QED BY <4>1 DEF Exists
    <3>4. Waits(cstack, threads, i)
      BY <3>1 DEF IInv, Waiting
    <3>5. i \in 2..Len(cstack') /\ i <= Len(cstack)
      BY <1>3, <3>1
    <3>6. cstack[i - 1].th # cstack[n].th => Still(threads, threads', cstack[i - 1].th)
      BY <1>2, <3>1, Unchanged
    <3> QED BY <1>1, <1>3, <3>2, <3>3, <3>4, <3>5, <3>6, WaitStays
  <2> QED BY <1>3, <2>1, Zenon DEF Waiting
<1> QED BY <1>4, <1>8, <1>9, <1>10, <1>11, Zenon DEF IInv

-----------------------------------------------------------------------------
(* Frames. *)

LEMMA NexecSet ==
  ASSUME NEW s \in Seq(Activations), s # <<>>, NEW k \in Nat, NEW t,
         t = [s EXCEPT ![Len(s)].nexec = k]
  PROVE  /\ t \in Seq(Activations) /\ Len(t) = Len(s) /\ Like(s, t)
         /\ Same(s[Len(s)], t[Len(s)]) /\ t[Len(s)].nexec = k
         /\ \A i \in 1..Len(s) : i < Len(s) => t[i] = s[i]
<1> DEFINE n == Len(s)
           e == [s[n] EXCEPT !.nexec = k]
<1>1. n \in 1..n
  BY NonEmpty
<1>2. s[n] \in Activations
  BY <1>1, ElementOfSeq
<1>3. e \in Activations /\ Same(s[n], e) /\ e.nexec = k
  BY <1>2 DEF Activations, Same
<1>4. t = [s EXCEPT ![n] = e]
  OBVIOUS
<1> HIDE DEF e
<1>5. /\ t \in Seq(Activations) /\ Len(t) = n
      /\ \A j \in 1..n : t[j] = IF j = n THEN e ELSE s[j]
  BY <1>1, <1>3, <1>4, ExceptSeq
<1>6. Like(s, t)
  BY <1>1, <1>3, <1>5 DEF Like, Same
<1> QED BY <1>1, <1>3, <1>5, <1>6

\* The same of the C stack itself.
LEMMA NexecChanged ==
  ASSUME cstack \in Seq(Activations), cstack # <<>>, NEW k \in Nat,
         cstack' = [cstack EXCEPT ![Len(cstack)].nexec = k]
  PROVE  /\ cstack' \in Seq(Activations) /\ Len(cstack') = Len(cstack) /\ Like(cstack, cstack')
         /\ Same(cstack[Len(cstack)], cstack'[Len(cstack)]) /\ cstack'[Len(cstack)].nexec = k
         /\ \A i \in 1..Len(cstack) : i < Len(cstack) => cstack'[i] = cstack[i]
<1>1. cstack' \in Seq(Activations) /\ Len(cstack') = Len(cstack)
  BY NexecSet
<1>2. Like(cstack, cstack')
  BY NexecSet
<1>3. Same(cstack[Len(cstack)], cstack'[Len(cstack)])
  BY NexecSet
<1>4. cstack'[Len(cstack)].nexec = k
  BY NexecSet
<1>5. \A i \in 1..Len(cstack) : i < Len(cstack) => cstack'[i] = cstack[i]
  BY NexecSet
<1> QED BY <1>1, <1>2, <1>3, <1>4, <1>5

LEMMA TopFrame ==
  ASSUME NEW t \in Seq(Activations), NEW ths, NEW n, n = Len(t), NEW y,
         Run(ths[t[n].th].ci, Base(t[n]), t[n].nexec, Len(ths[t[n].th].ci)),
         t[n].kind = "resume" => t[n].nexec > 0,
         Base(t[n]) < Len(ths[t[n].th].ci) \/ y
  PROVE  FrameOK(t, ths, n, y)
<1>1. ~(n < n)
  OBVIOUS
<1>2. End(t, ths, n) = Len(ths[t[n].th].ci)
  BY <1>1 DEF End
<1> QED BY <1>2 DEF FrameOK

LEMMA RunSame ==
  ASSUME NEW ci \in Seq(Frame), NEW ci2 \in Seq(Frame), NEW b \in Nat, NEW n \in Nat,
         Run(ci, b, n, Len(ci)), Len(ci2) = Len(ci), \A g \in 1..Len(ci) : ci2[g].fn = ci[g].fn
  PROVE  Run(ci2, b, n, Len(ci2))
<1>1. \A g \in (b + 1)..Len(ci) : g \in 1..Len(ci)
  OBVIOUS
<1> QED BY <1>1 DEF Run

LEMMA RunPush ==
  ASSUME NEW ci \in Seq(Frame), NEW ci2 \in Seq(Frame), NEW b \in Nat, NEW n \in Nat, NEW m \in Nat,
         Run(ci, b, n, Len(ci)), b + n = Len(ci),
         Len(ci2) = Len(ci) + 1, \A g \in 1..Len(ci) : ci2[g].fn = ci[g].fn,
         m = IF ci2[Len(ci) + 1].fn = "lua" THEN n + 1 ELSE n
  PROVE  Run(ci2, b, m, Len(ci2))
<1>1. ASSUME NEW g \in (b + 1)..Len(ci2) PROVE ci2[g].fn = "lua" <=> g <= b + m
  <2>1. CASE g = Len(ci) + 1
    BY <2>1
  <2>2. CASE g # Len(ci) + 1
    <3>1. g \in (b + 1)..Len(ci) /\ g \in 1..Len(ci)
      BY <2>2
    <3> QED BY <3>1 DEF Run
  <2> QED BY <2>1, <2>2
<1> QED BY <1>1 DEF Run

LEMMA GrownThread ==
  ASSUME NEW th \in Thread, NEW f \in Frame,
         Len(th.ci) < th.size_ci, 1 < th.size_ci, th.size_ci <= 2 * LUAI_MAXCALLS
  PROVE  /\ GrowError(th) \in {"no", "run", "err"}
         /\ \A p \in {Grown(th), Pushed(th, f)} :
              /\ p \in Thread /\ p.status = th.status /\ p.body = th.body /\ p.nCcalls = th.nCcalls
              /\ p.errfunc = th.errfunc /\ p.jmp = th.jmp
              /\ Len(p.ci) < p.size_ci /\ 1 < p.size_ci /\ p.size_ci <= 2 * LUAI_MAXCALLS
         /\ Grown(th).ci = th.ci
         /\ Pushed(th, f).ci = IF GrowError(th) = "no" THEN Append(th.ci, f) ELSE th.ci
<1>1. /\ th.ci \in Seq(Frame) /\ Len(th.ci) \in Nat /\ th.size_ci \in Nat /\ LUAI_MAXCALLS \in Nat
  BY CallsAssumption DEF Thread
<1>2. Append(th.ci, f) \in Seq(Frame) /\ Len(Append(th.ci, f)) = Len(th.ci) + 1
  BY <1>1, AppendProperties
<1>3. /\ Grown(th) \in Thread /\ Grown(th).status = th.status /\ Grown(th).body = th.body
      /\ Grown(th).nCcalls = th.nCcalls /\ Grown(th).errfunc = th.errfunc
      /\ Grown(th).jmp = th.jmp /\ Grown(th).ci = th.ci
      /\ Grown(th).size_ci = IF Full(th) /\ th.size_ci <= LUAI_MAXCALLS THEN 2 * th.size_ci ELSE th.size_ci
  BY <1>1 DEF Grown, Thread
<1>4. Len(th.ci) < Grown(th).size_ci /\ 1 < Grown(th).size_ci /\ Grown(th).size_ci <= 2 * LUAI_MAXCALLS
  BY <1>1, <1>3
<1>5. GrowError(th) = "no" => Len(th.ci) + 1 < Grown(th).size_ci
  BY <1>1, <1>3 DEF GrowError, Full
<1>6. GrowError(th) \in {"no", "run", "err"}
  BY DEF GrowError
<1>7. CASE GrowError(th) = "no"
  <2>1. /\ Pushed(th, f) \in Thread /\ Pushed(th, f).status = th.status /\ Pushed(th, f).body = th.body
        /\ Pushed(th, f).nCcalls = th.nCcalls /\ Pushed(th, f).errfunc = th.errfunc
        /\ Pushed(th, f).jmp = th.jmp /\ Pushed(th, f).ci = Append(th.ci, f)
        /\ Pushed(th, f).size_ci = Grown(th).size_ci
    BY <1>2, <1>3, <1>7 DEF Pushed, Thread
  <2> QED BY <1>2, <1>3, <1>4, <1>5, <1>6, <1>7, <2>1
<1>8. CASE GrowError(th) # "no"
  <2>1. Pushed(th, f) = Grown(th)
    BY <1>8 DEF Pushed
  <2> QED BY <1>3, <1>4, <1>6, <1>8, <2>1
<1> QED BY <1>7, <1>8

\* Which of the functions on top of the stack runs.
LEMMA Runs ==
  ASSUME IInv, ~Broken, Running
  PROVE  LET a == Top(cstack)
             n == Len(Th.ci)
         IN  /\ n \in 1..n /\ Top(Th.ci) \in Frame /\ Base(a) < n
             /\ Top(Th.ci).fn = "lua" => n = Base(a) + a.nexec
             /\ Top(Th.ci).fn = "C" => n = Base(a) + a.nexec + 1
<1> DEFINE n == Len(Th.ci)
           a == Top(cstack)
<1>1. /\ Base(a) \in Nat /\ a.nexec \in Nat /\ n \in Nat
      /\ Base(a) + a.nexec <= n /\ n <= Base(a) + a.nexec + 1
      /\ \A f \in (Base(a) + 1)..n : Th.ci[f].fn = "lua" <=> f <= Base(a) + a.nexec
      /\ Base(a) < n
  BY TopRun DEF Running
<1>2. n \in 1..n /\ n \in (Base(a) + 1)..n
  BY <1>1
<1>3. Top(Th.ci) = Th.ci[n]
  BY DEF Top
<1>4. threads \in [Threads -> Thread] /\ L \in Threads
  BY Now DEF IInv, Types, TypeOK, Running
<1>5. Th.ci \in Seq(Frame)
  BY <1>4, ThreadType DEF Th
<1>6. Th.ci[n] \in Frame
  BY <1>2, <1>5, ElementOfSeq
<1>7. Th.ci[n].fn = "lua" => n <= Base(a) + a.nexec
  BY <1>1, <1>2
<1>8. Th.ci[n].fn = "C" => ~(n <= Base(a) + a.nexec)
  <2>1. "C" # "lua"
    OBVIOUS
  <2> QED BY <1>1, <1>2, <2>1
<1>9. /\ Top(Th.ci).fn = "lua" => n = Base(a) + a.nexec
      /\ Top(Th.ci).fn = "C" => n = Base(a) + a.nexec + 1
  BY <1>1, <1>3, <1>7, <1>8
<1> QED BY <1>1, <1>2, <1>3, <1>6, <1>9, Zenon

-----------------------------------------------------------------------------
(* The operations that leave the C stack as it is. *)

LEMMA Fresh ==
  /\ Absent \in Thread /\ New \in Thread
  /\ \A th \in {Absent, New} :
       Len(th.ci) < th.size_ci /\ 1 < th.size_ci /\ th.size_ci <= 2 * LUAI_MAXCALLS
<1>1. BASIC_CI_SIZE \in Nat /\ BASIC_CI_SIZE > 1 /\ BASIC_CI_SIZE <= 2 * LUAI_MAXCALLS
  BY CallsAssumption
<1>2. <<>> \in Seq(Frame) /\ Len(<<>>) = 0
  OBVIOUS
<1>3. /\ Absent \in Thread /\ Absent.ci = <<>> /\ Absent.size_ci = BASIC_CI_SIZE
  BY <1>1, <1>2 DEF Absent, Thread
<1>4. /\ New \in Thread /\ New.ci = Absent.ci /\ New.size_ci = Absent.size_ci
  BY <1>3 DEF New, Thread
<1> QED BY <1>1, <1>2, <1>3, <1>4

LEMMA OpCallStep ==
  ASSUME IInv, ~Broken, NEW f \in Frame, NEW made, \A th \in made : ~Exists(th), OpCall(f, made)
  PROVE  IInv'
<1> DEFINE n == Len(cstack)
           a == Top(cstack)
           len == Len(Th.ci)
           k == IF GrowError(Th) = "no" /\ f.fn = "lua" THEN a.nexec + 1 ELSE a.nexec
<1>1. /\ InLua /\ Running /\ cstack # <<>> /\ raising = "no" /\ ~exited
      /\ prog' = prog /\ globals' = globals /\ exited' = exited /\ raising' = GrowError(Th)
      /\ threads' = [th \in Threads |-> IF th = L THEN Pushed(Th, f)
                                        ELSE IF th \in made THEN New ELSE threads[th]]
  BY DEF OpCall, InLua, Running
<1>2. /\ TypeOK /\ prog \in Programs /\ Sizes /\ cstack \in Seq(Activations) /\ threads \in [Threads -> Thread]
  BY DEF IInv, Types, TypeOK
<1>3. /\ n \in 1..n /\ L = cstack[n].th /\ a = cstack[n] /\ L \in Threads /\ a.nexec \in Nat
      /\ Base(a) \in Nat /\ Th \in Thread /\ Th.nCcalls < Most
  <2>1. n \in 1..n /\ L = cstack[n].th /\ a = cstack[n] /\ L \in Threads
    BY <1>1, Now
  <2>2. Th \in Thread /\ Th.nCcalls < Most
    BY <1>1, Runner
  <2>3. a.nexec \in Nat /\ Base(a) \in Nat
    BY <1>1, TopRun
  <2> QED BY <2>1, <2>2, <2>3
<1>4. /\ len \in Nat /\ len = Base(a) + a.nexec /\ Base(a) < len
      /\ \A g \in (Base(a) + 1)..len : Th.ci[g].fn = "lua" <=> g <= Base(a) + a.nexec
  BY <1>1, Runs, TopRun DEF InLua
<1>5. a.kind = "resume" => a.nexec > 0
  BY <1>1, TopRun
<1>6. /\ cstack' \in Seq(Activations) /\ Len(cstack') = n /\ Like(cstack, cstack')
      /\ Same(a, cstack'[n]) /\ cstack'[n].nexec = k
      /\ \A i \in 1..n : i < n => cstack'[i].nexec = cstack[i].nexec
  <2>1. CASE GrowError(Th) = "no" /\ f.fn = "lua"
    <3>1. cstack' = [cstack EXCEPT ![Len(cstack)].nexec = a.nexec + 1]
      BY <1>3, <2>1 DEF OpCall
    <3>2. a.nexec + 1 \in Nat
      BY <1>3
    <3>3. /\ cstack' \in Seq(Activations) /\ Len(cstack') = n /\ Like(cstack, cstack')
          /\ Same(cstack[n], cstack'[n]) /\ cstack'[n].nexec = a.nexec + 1
          /\ \A i \in 1..n : i < n => cstack'[i] = cstack[i]
      BY <1>1, <1>2, <3>1, <3>2, NexecChanged
    <3> QED BY <1>3, <2>1, <3>3
  <2>2. CASE ~(GrowError(Th) = "no" /\ f.fn = "lua")
    <3>1. cstack' = cstack
      BY <2>2 DEF OpCall
    <3> QED BY <1>2, <1>3, <2>2, <3>1 DEF Like, Same
  <2> QED BY <2>1, <2>2
<1>7. /\ GrowError(Th) \in {"no", "run", "err"}
      /\ LET p == Pushed(Th, f)
         IN  /\ p \in Thread /\ p.status = Th.status /\ p.body = Th.body /\ p.nCcalls = Th.nCcalls
             /\ p.errfunc = Th.errfunc /\ p.jmp = Th.jmp
             /\ Len(p.ci) < p.size_ci /\ 1 < p.size_ci /\ p.size_ci <= 2 * LUAI_MAXCALLS
             /\ p.ci = IF GrowError(Th) = "no" THEN Append(Th.ci, f) ELSE Th.ci
  <2>1. Len(Th.ci) < Th.size_ci /\ 1 < Th.size_ci /\ Th.size_ci <= 2 * LUAI_MAXCALLS
    BY <1>2, <1>3 DEF Sizes, Th
  <2> QED BY <1>3, <2>1, GrownThread
<1>8. threads'[L] = Pushed(Th, f)
  BY <1>1, <1>3
<1>9. threads' \in [Threads -> Thread]
  BY <1>1, <1>2, <1>7, Fresh, Zenon
<1>10. Types'
  <2>1. cstack' # <<>>
    BY <1>3, <1>6, EmptySeq
  <2> QED BY <1>1, <1>2, <1>6, <1>7, <1>9, <2>1 DEF Types, TypeOK
<1>11. Sizes'
  <2>1. \A th \in Threads : threads'[th] \in {Pushed(Th, f), New, threads[th]}
    BY <1>1
  <2>2. \A th \in Threads : /\ Len(threads'[th].ci) < threads'[th].size_ci /\ 1 < threads'[th].size_ci
                            /\ threads'[th].size_ci <= 2 * LUAI_MAXCALLS
    BY <1>2, <1>7, <2>1, Fresh, Zenon DEF Sizes
  <2> QED BY <2>2, Zenon DEF Sizes
<1>12. ASSUME NEW th \in Threads, th # L
       PROVE  Still(threads, threads', th) \/ (~Exists(th) /\ threads'[th] = New)
  <2>1. CASE th \in made
    BY <1>1, <1>12, <2>1
  <2>2. CASE th \notin made
    <3>1. threads'[th] = threads[th]
      BY <1>1, <1>12, <2>2
    <3> QED BY <3>1, Unchanged
  <2> QED BY <2>1, <2>2
<1>13. LET ci2 == threads'[L].ci
       IN  /\ Len(ci2) \in Nat /\ len <= Len(ci2)
           /\ \A g \in 1..len : ci2[g].fn = Th.ci[g].fn
           /\ GrowError(Th) = "no" => Len(ci2) = len + 1 /\ ci2[len + 1] = f
           /\ GrowError(Th) # "no" => Len(ci2) = len
  <2>1. Th.ci \in Seq(Frame)
    BY <1>3 DEF Thread
  <2>2. CASE GrowError(Th) = "no"
    BY <1>7, <1>8, <2>1, <2>2, AppendProperties
  <2>3. CASE GrowError(Th) # "no"
    BY <1>4, <1>7, <1>8, <2>1, <2>3
  <2> QED BY <2>2, <2>3
<1>14. Run(threads'[L].ci, Base(a), k, Len(threads'[L].ci))
  <2>1. Run(Th.ci, Base(a), a.nexec, len) /\ k \in Nat
    BY <1>3, <1>4 DEF Run
  <2>2. Th.ci \in Seq(Frame) /\ threads'[L].ci \in Seq(Frame)
    BY <1>3, <1>9, ThreadType DEF Thread
  <2>3. CASE GrowError(Th) = "no"
    <3>1. k = IF threads'[L].ci[len + 1].fn = "lua" THEN a.nexec + 1 ELSE a.nexec
      BY <1>13, <2>3
    <3> QED BY <1>3, <1>4, <1>13, <2>1, <2>2, <2>3, <3>1, RunPush
  <2>4. CASE GrowError(Th) # "no"
    <3>1. k = a.nexec
      BY <2>4
    <3> QED BY <1>3, <1>13, <2>1, <2>2, <2>4, <3>1, RunSame
  <2> QED BY <2>3, <2>4
<1> HIDE DEF k
<1>15. FrameOK(cstack', threads', n, raising' # "no" \/ exited')
  <2>1. cstack'[n].th = L /\ Base(cstack'[n]) = Base(a) /\ cstack'[n].kind = a.kind
    BY <1>3, <1>6 DEF Same, Base
  <2>2. a.kind = "resume" => k > 0
    BY <1>3, <1>5 DEF k
  <2>3. Base(a) < Len(threads'[L].ci)
    BY <1>3, <1>4, <1>13
  <2> QED BY <1>6, <1>14, <2>1, <2>2, <2>3, TopFrame
<1>16. /\ Base(a) <= Len(threads'[L].ci)
       /\ \A g \in 1..Base(a) : threads'[L].ci[g].fn = Th.ci[g].fn
  BY <1>3, <1>4, <1>13
<1>17. Th.nCcalls # Most
  BY <1>3, Runner, CallsAssumption DEF Most
<1> QED BY <1>1, <1>6, <1>7, <1>8, <1>10, <1>11, <1>12, <1>15, <1>16, <1>17, SameStep

LEMMA QuietStep ==
  ASSUME IInv, ~Broken, cstack # <<>>, (raising = "no" /\ ~exited) \/ exited',
         Types', Sizes', cstack' = cstack,
         \A th \in Threads : Still(threads, threads', th) \/ (~Exists(th) /\ threads'[th] = New)
  PROVE  IInv'
<1> DEFINE n == Len(cstack)
           a == Top(cstack)
<1>1. cstack \in Seq(Activations) /\ threads \in [Threads -> Thread] /\ threads' \in [Threads -> Thread]
  BY DEF IInv, Types, TypeOK
<1>2. n \in 1..n /\ L = cstack[n].th /\ a = cstack[n] /\ L \in Threads /\ Exists(L)
  BY Now
<1>3. /\ a.nexec \in Nat /\ Base(a) \in Nat /\ Len(Th.ci) \in Nat
      /\ Base(a) + a.nexec <= Len(Th.ci) /\ Len(Th.ci) <= Base(a) + a.nexec + 1
      /\ \A f \in (Base(a) + 1)..Len(Th.ci) : Th.ci[f].fn = "lua" <=> f <= Base(a) + a.nexec
      /\ a.kind = "resume" => a.nexec > 0
      /\ Base(a) < Len(Th.ci) \/ raising # "no" \/ exited
  BY TopRun
<1>4. Still(threads, threads', L)
  BY <1>2
<1>5. /\ threads'[L].status = Th.status /\ threads'[L].body = Th.body
      /\ threads'[L].nCcalls = Th.nCcalls /\ threads'[L].errfunc = Th.errfunc
      /\ threads'[L].jmp = Th.jmp
      /\ Len(threads'[L].ci) = Len(Th.ci) /\ \A f \in 1..Len(Th.ci) : threads'[L].ci[f].fn = Th.ci[f].fn
  BY <1>4 DEF Still, Th
<1>6. Base(a) <= Len(threads'[L].ci) /\ \A f \in 1..Base(a) : threads'[L].ci[f].fn = Th.ci[f].fn
  <2>1. Base(a) <= Len(Th.ci)
    BY <1>3
  <2>2. \A f \in 1..Base(a) : f \in 1..Len(Th.ci)
    BY <1>3, <2>1
  <2> QED BY <1>5, <2>1, <2>2
<1>7. Run(threads'[L].ci, Base(a), a.nexec, Len(threads'[L].ci))
  <2>1. Run(Th.ci, Base(a), a.nexec, Len(Th.ci))
    BY <1>3 DEF Run
  <2>2. Th.ci \in Seq(Frame) /\ threads'[L].ci \in Seq(Frame)
    BY <1>1, <1>2, ThreadType DEF Th
  <2> QED BY <1>3, <1>5, <2>1, <2>2, RunSame
<1>8. FrameOK(cstack', threads', n, raising' # "no" \/ exited')
  BY <1>1, <1>2, <1>3, <1>5, <1>7, TopFrame
<1>9. Th.nCcalls = Most => exited'
  <2>1. Th.nCcalls \in Nat /\ (raising # "err" /\ ~exited => Th.nCcalls < Most) /\ Most \in Nat
    BY Runner, CallsAssumption DEF Most
  <2> QED BY <2>1
<1>10. Like(cstack, cstack')
  BY DEF Like, Same
<1>11. \A th \in Threads : th # L => Still(threads, threads', th) \/ (~Exists(th) /\ threads'[th] = New)
  OBVIOUS
<1>12. /\ Len(cstack') = Len(cstack)
       /\ \A i \in 1..Len(cstack) : i < Len(cstack) => cstack'[i].nexec = cstack[i].nexec
  OBVIOUS
<1> QED BY <1>5, <1>6, <1>8, <1>9, <1>10, <1>11, <1>12, SameStep

LEMMA TailCallStep == ASSUME IInv, ~Broken, TailCall PROVE IInv'
<1>1. /\ Running /\ cstack # <<>> /\ raising = "no" /\ ~exited
      /\ threads' = [threads EXCEPT ![L] = Grown(@)] /\ raising' = GrowError(Th)
      /\ prog' = prog /\ cstack' = cstack /\ globals' = globals /\ exited' = exited
  BY DEF TailCall, InLua, Running
<1>2. /\ TypeOK /\ prog \in Programs /\ Sizes /\ threads \in [Threads -> Thread]
      /\ L \in Threads /\ Th \in Thread
  BY Runner DEF IInv, Types, TypeOK
<1>3. /\ GrowError(Th) \in {"no", "run", "err"}
      /\ LET p == Grown(Th)
         IN  /\ p \in Thread /\ p.status = Th.status /\ p.body = Th.body /\ p.nCcalls = Th.nCcalls
             /\ p.errfunc = Th.errfunc /\ p.jmp = Th.jmp /\ p.ci = Th.ci
             /\ Len(p.ci) < p.size_ci /\ 1 < p.size_ci /\ p.size_ci <= 2 * LUAI_MAXCALLS
  <2>1. Len(Th.ci) < Th.size_ci /\ 1 < Th.size_ci /\ Th.size_ci <= 2 * LUAI_MAXCALLS
    BY <1>2 DEF Sizes, Th
  <2>2. Lua \in Frame
    BY DEF Lua, Frame
  <2> QED BY <1>2, <2>1, <2>2, GrownThread
<1>4. threads'[L] = Grown(Th) /\ \A th \in Threads : th # L => threads'[th] = threads[th]
  BY <1>1, <1>2 DEF Th
<1>5. threads' \in [Threads -> Thread]
  BY <1>1, <1>2, <1>3 DEF Th
<1>6. Types'
  BY <1>1, <1>2, <1>3, <1>5 DEF Types, TypeOK
<1>7. Sizes'
  <2>1. \A th \in Threads : /\ Len(threads'[th].ci) < threads'[th].size_ci /\ 1 < threads'[th].size_ci
                            /\ threads'[th].size_ci <= 2 * LUAI_MAXCALLS
    BY <1>2, <1>3, <1>4, Zenon DEF Sizes
  <2> QED BY <2>1, Zenon DEF Sizes
<1>8. \A th \in Threads : Still(threads, threads', th)
  <2>1. Still(threads, threads', L)
    BY <1>3, <1>4 DEF Still, Th
  <2> QED BY <1>4, <2>1, Unchanged
<1> QED BY <1>1, <1>6, <1>7, <1>8, QuietStep

LEMMA ErrorStep == ASSUME IInv, ~Broken, Error PROVE IInv'
<1>1. /\ cstack # <<>> /\ raising = "no" /\ ~exited /\ raising' = "run"
      /\ threads' = threads /\ prog' = prog /\ cstack' = cstack /\ globals' = globals /\ exited' = exited
  BY DEF Error, Running
<1>2. Types'
  BY <1>1 DEF IInv, Types, TypeOK
<1>3. Sizes'
  BY <1>1 DEF IInv, Sizes
<1>4. \A th \in Threads : Still(threads, threads', th)
  BY <1>1, Unchanged
<1> QED BY <1>1, <1>2, <1>3, <1>4, QuietStep

LEMMA ForgetStep == ASSUME IInv, ~Broken, NEW co, Forget(co) PROVE IInv'
<1>1. /\ cstack # <<>> /\ raising = "no" /\ ~exited /\ raising' = raising
      /\ threads' = threads /\ prog' = prog /\ cstack' = cstack /\ globals' \subseteq globals /\ exited' = exited
  BY DEF Forget, InLua, Running
<1>2. Types'
  BY <1>1 DEF IInv, Types, TypeOK
<1>3. Sizes'
  BY <1>1 DEF IInv, Sizes
<1>4. \A th \in Threads : Still(threads, threads', th)
  BY <1>1, Unchanged
<1> QED BY <1>1, <1>2, <1>3, <1>4, QuietStep

LEMMA CreateStep == ASSUME IInv, ~Broken, NEW co \in Coroutines, Create(co) PROVE IInv'
<1>1. /\ cstack # <<>> /\ raising = "no" /\ ~exited /\ raising' = raising /\ ~Exists(co)
      /\ threads' = [threads EXCEPT ![co] = New] /\ globals' = globals \union {co}
      /\ prog' = prog /\ cstack' = cstack /\ exited' = exited
  BY DEF Create, InLua, Running
<1>2. /\ TypeOK /\ prog \in Programs /\ Sizes /\ threads \in [Threads -> Thread] /\ co \in Threads
  BY DEF IInv, Types, TypeOK, Coroutines
<1>3. threads'[co] = New /\ \A th \in Threads : th # co => threads'[th] = threads[th]
  BY <1>1, <1>2
<1>4. threads' \in [Threads -> Thread]
  BY <1>1, <1>2, Fresh
<1>5. Types'
  BY <1>1, <1>2, <1>4 DEF Types, TypeOK, IInv
<1>6. Sizes'
  <2>1. \A th \in Threads : /\ Len(threads'[th].ci) < threads'[th].size_ci /\ 1 < threads'[th].size_ci
                            /\ threads'[th].size_ci <= 2 * LUAI_MAXCALLS
    BY <1>2, <1>3, Fresh, Zenon DEF Sizes
  <2> QED BY <2>1, Zenon DEF Sizes
<1>7. \A th \in Threads : Still(threads, threads', th) \/ (~Exists(th) /\ threads'[th] = New)
  BY <1>1, <1>3, Unchanged
<1> QED BY <1>1, <1>5, <1>6, <1>7, QuietStep

LEMMA RefuseStep == ASSUME IInv, ~Broken, NEW co \in Coroutines, Refuse(co) PROVE IInv'
<1> DEFINE m == Len(threads[co].ci)
           e == [threads[co].ci[m] EXCEPT !.arg = None]
           ci2 == [threads[co].ci EXCEPT ![m] = e]
<1>1. /\ cstack # <<>> /\ raising = "no" /\ ~exited /\ raising' = raising
      /\ threads[co].ci # <<>>
      /\ threads' = [threads EXCEPT ![co].ci[Len(threads[co].ci)].arg = None] /\ globals' = globals
      /\ prog' = prog /\ cstack' = cstack /\ exited' = exited
  BY DEF Refuse, InC, Running
<1>2. /\ TypeOK /\ prog \in Programs /\ Sizes /\ threads \in [Threads -> Thread] /\ co \in Threads
  BY DEF IInv, Types, TypeOK, Coroutines
<1>3. threads[co] \in Thread /\ threads[co].ci \in Seq(Frame)
  BY <1>2, ThreadType
<1>4. m \in 1..m
  BY <1>1, <1>3, NonEmpty
<1>5. threads[co].ci[m] \in Frame
  BY <1>3, <1>4, ElementOfSeq
<1>6. e \in Frame /\ e.fn = threads[co].ci[m].fn /\ e.arg = None
  BY <1>5 DEF Frame
<1>7. threads' = [threads EXCEPT ![co].ci = ci2]
  BY <1>1, <1>2
<1> HIDE DEF e
<1>8. /\ ci2 \in Seq(Frame) /\ Len(ci2) = m
      /\ \A f \in 1..m : ci2[f] = IF f = m THEN e ELSE threads[co].ci[f]
  BY <1>3, <1>4, <1>6, ExceptSeq
<1> HIDE DEF ci2
<1>9. /\ threads'[co].ci = ci2 /\ threads'[co] \in Thread
      /\ threads'[co].status = threads[co].status /\ threads'[co].body = threads[co].body
      /\ threads'[co].nCcalls = threads[co].nCcalls /\ threads'[co].errfunc = threads[co].errfunc
      /\ threads'[co].jmp = threads[co].jmp /\ threads'[co].size_ci = threads[co].size_ci
      /\ \A th \in Threads : th # co => threads'[th] = threads[th]
  BY <1>2, <1>3, <1>7, <1>8 DEF Thread
<1>10. threads' \in [Threads -> Thread]
  <2>1. DOMAIN threads' = Threads /\ threads' = [th \in Threads |-> threads'[th]]
    BY <1>2, <1>7
  <2>2. \A th \in Threads : threads'[th] \in Thread
    BY <1>2, <1>9
  <2> QED BY <2>1, <2>2
<1>11. Types'
  BY <1>1, <1>2, <1>10 DEF Types, TypeOK
<1>12. Sizes'
  <2>1. \A th \in Threads : /\ Len(threads'[th].ci) < threads'[th].size_ci /\ 1 < threads'[th].size_ci
                            /\ threads'[th].size_ci <= 2 * LUAI_MAXCALLS
    BY <1>2, <1>8, <1>9, Zenon DEF Sizes
  <2> QED BY <2>1, Zenon DEF Sizes
<1>13. \A th \in Threads : Still(threads, threads', th)
  <2>1. Still(threads, threads', co)
    <3>1. \A f \in 1..Len(threads[co].ci) :
            /\ threads'[co].ci[f].fn = threads[co].ci[f].fn
            /\ threads'[co].ci[f].arg \in {threads[co].ci[f].arg, None}
      BY <1>6, <1>8, <1>9
    <3>2. Len(threads'[co].ci) = Len(threads[co].ci)
      BY <1>8, <1>9
    <3> QED BY <1>9, <3>1, <3>2, Zenon DEF Still
  <2> QED BY <1>9, <2>1, Unchanged
<1> QED BY <1>1, <1>11, <1>12, <1>13, QuietStep

-----------------------------------------------------------------------------
(* The operations that push and pop activations. *)

LEMMA CallStep ==
  ASSUME IInv, ~Broken, NEW k \in Calling, NEW f \in Frame, NEW handler \in BOOLEAN,
         raising # "err", ~exited, cstack = <<>> \/ k = "handler" \/ raising = "no",
         luaD_call(k, f, handler)
  PROVE  IInv'
<1> DEFINE n == Len(cstack)
           c == Th.nCcalls + 1
           deep == IF c = LUAI_MAXCCALLS THEN "run"
                   ELSE IF c >= LUAI_MAXCCALLS + ExtraCCalls THEN "err" ELSE "no"
           error == IF deep = "no" THEN GrowError(Th) ELSE deep
           counted == IF k = "pcall"
                      THEN [Th EXCEPT !.nCcalls = c, !.errfunc = handler, !.jmp = Len(cstack) + 1]
                      ELSE [Th EXCEPT !.nCcalls = c]
           nexec == IF f.fn = "lua" /\ error = "no" THEN 1 ELSE 0
           a == Activation(k, L, nexec)
           p == IF deep = "no" THEN Pushed(counted, f) ELSE counted
           len == Len(Th.ci)
<1>1. /\ raising' = error /\ cstack' = Append(cstack, a)
      /\ threads' = [threads EXCEPT ![L] = p]
      /\ prog' = prog /\ globals' = globals /\ exited' = exited
  BY DEF luaD_call
<1>2. /\ TypeOK /\ prog \in Programs /\ Sizes /\ threads \in [Threads -> Thread] /\ cstack \in Seq(Activations)
      /\ L \in Threads /\ Th \in Thread /\ Exists(L) /\ Th.status = "ok" /\ Th.nCcalls \in Nat /\ Th.nCcalls < Most
      /\ CurrentOf(L)
  BY Runner DEF IInv, Types, TypeOK
<1>3. /\ Th.ci \in Seq(Frame) /\ len \in Nat /\ c \in Nat /\ n \in Nat /\ n + 1 \in Nat
      /\ Th.errfunc \in BOOLEAN /\ Th.jmp \in Nat
  BY <1>2 DEF Thread
<1>4. /\ counted \in Thread /\ counted.status = Th.status /\ counted.body = Th.body
      /\ counted.ci = Th.ci /\ counted.size_ci = Th.size_ci /\ counted.nCcalls = c
      /\ k = "pcall" => counted.errfunc = handler /\ counted.jmp = n + 1
      /\ k # "pcall" => counted.errfunc = Th.errfunc /\ counted.jmp = Th.jmp
  <2>1. CASE k = "pcall"
    BY <1>2, <1>3, <2>1 DEF Thread
  <2>2. CASE k # "pcall"
    BY <1>2, <1>3, <2>2 DEF Thread
  <2> QED BY <2>1, <2>2
<1> HIDE DEF counted, c
<1>5. GrowError(counted) = GrowError(Th) /\ GrowError(Th) \in {"no", "run", "err"}
  BY <1>4 DEF GrowError, Full
<1>6. /\ p \in Thread /\ p.status = Th.status /\ p.body = Th.body /\ p.nCcalls = c
      /\ p.errfunc = counted.errfunc /\ p.jmp = counted.jmp
      /\ Len(p.ci) < p.size_ci /\ 1 < p.size_ci /\ p.size_ci <= 2 * LUAI_MAXCALLS
      /\ p.ci = IF error = "no" THEN Append(Th.ci, f) ELSE Th.ci
  <2>1. Len(counted.ci) < counted.size_ci /\ 1 < counted.size_ci /\ counted.size_ci <= 2 * LUAI_MAXCALLS
    BY <1>2, <1>4 DEF Sizes, Th
  <2>2. CASE deep = "no"
    <3>1. LET q == Pushed(counted, f)
          IN  /\ q \in Thread /\ q.status = counted.status /\ q.body = counted.body /\ q.nCcalls = counted.nCcalls
              /\ q.errfunc = counted.errfunc /\ q.jmp = counted.jmp
              /\ Len(q.ci) < q.size_ci /\ 1 < q.size_ci /\ q.size_ci <= 2 * LUAI_MAXCALLS
              /\ q.ci = IF GrowError(counted) = "no" THEN Append(counted.ci, f) ELSE counted.ci
      BY <1>4, <2>1, GrownThread
    <3>2. p = Pushed(counted, f) /\ error = GrowError(counted)
      BY <1>5, <2>2
    <3> QED BY <1>4, <3>1, <3>2
  <2>3. CASE deep # "no"
    <3>1. p = counted /\ error # "no"
      BY <2>3
    <3> QED BY <1>4, <2>1, <3>1
  <2> QED BY <2>2, <2>3
<1>7. error \in {"no", "run", "err"} /\ (c = Most => error = "err") /\ c <= Most
  <2>1. /\ LUAI_MAXCCALLS \in Nat /\ ExtraCCalls \in Nat /\ ExtraCCalls > 0
    BY CallsAssumption
  <2>2. c <= Most
    BY <1>2, <2>1 DEF c, Most
  <2>3. c = Most => deep = "err"
    BY <2>1 DEF Most
  <2>4. deep \in {"no", "run", "err"}
    OBVIOUS
  <2> QED BY <1>5, <2>2, <2>3, <2>4
<1> HIDE DEF deep, error, p
<1>8. /\ a \in Activations /\ a.kind = k /\ a.th = L /\ a.level = len /\ a.nexec = nexec
      /\ a.nCcalls = Th.nCcalls /\ a.errfunc = Th.errfunc /\ a.jmp = Th.jmp /\ nexec \in Nat
  BY <1>2, <1>3 DEF Activation, Activations, Th, Calling
<1> HIDE DEF a
<1>9. /\ cstack' \in Seq(Activations) /\ Len(cstack') = n + 1 /\ cstack'[n + 1] = a /\ Like(cstack', cstack)
  BY <1>1, <1>2, <1>8, Pushing
<1>10. threads'[L] = p /\ \A th \in Threads : th # L => threads'[th] = threads[th]
  BY <1>1, <1>2
<1>11. threads' \in [Threads -> Thread]
  BY <1>1, <1>2, <1>6
<1>12. Types'
  <2>1. cstack' # <<>>
    BY <1>3, <1>9, EmptySeq
  <2> QED BY <1>1, <1>2, <1>7, <1>9, <1>11, <2>1 DEF Types, TypeOK
<1>13. Sizes'
  <2>1. \A th \in Threads : /\ Len(threads'[th].ci) < threads'[th].size_ci /\ 1 < threads'[th].size_ci
                            /\ threads'[th].size_ci <= 2 * LUAI_MAXCALLS
    BY <1>2, <1>6, <1>10, Zenon DEF Sizes
  <2> QED BY <2>1, Zenon DEF Sizes
<1>14. Kept(cstack', L, n + 2, p.nCcalls, p.jmp, p.errfunc)
  <2>1. Kept(cstack, L, n + 1, Th.nCcalls, Th.jmp, Th.errfunc)
    BY <1>2 DEF CurrentOf, Th
  <2>2. Kept(cstack', L, n + 1, Th.nCcalls, Th.jmp, Th.errfunc)
    <3>1. n + 1 \in 1..(Len(cstack) + 1)
      BY <1>3
    <3> QED BY <1>2, <1>9, <2>1, <3>1, KeptLike
  <2>3. n + 1 \in 1..Len(cstack') /\ cstack'[n + 1].th = L /\ cstack'[n + 1].kind = k /\ (n + 1) + 1 = n + 2
    BY <1>3, <1>8, <1>9
  <2>4. /\ k \in {"call", "handler"} => Kept(cstack', L, (n + 1) + 1, Th.nCcalls + 1, Th.jmp, Th.errfunc)
        /\ k = "pcall" => \A h \in BOOLEAN : Kept(cstack', L, (n + 1) + 1, Th.nCcalls + 1, n + 1, h)
    BY <1>2, <1>9, <2>2, <2>3, KeptNext
  <2>5. k \in {"call", "handler"} \/ k = "pcall"
    BY DEF Calling
  <2> QED BY <1>4, <1>6, <2>3, <2>4, <2>5 DEF c
<1>15. /\ len <= Len(p.ci) /\ \A g \in 1..len : p.ci[g].fn = Th.ci[g].fn
       /\ Run(p.ci, len, nexec, Len(p.ci))
       /\ len < Len(p.ci) \/ error # "no"
  <2>1. Run(Th.ci, len, 0, len)
    <3>1. (len + 1)..len = {}
      BY <1>3
    <3> QED BY <1>3, <3>1 DEF Run
  <2>2. p.ci \in Seq(Frame)
    BY <1>6 DEF Thread
  <2>3. CASE error = "no"
    <3>1. Len(p.ci) = len + 1 /\ p.ci[len + 1] = f /\ \A g \in 1..len : p.ci[g] = Th.ci[g]
      BY <1>3, <1>6, <2>3, AppendProperties
    <3>2. nexec = IF p.ci[len + 1].fn = "lua" THEN 0 + 1 ELSE 0
      BY <2>3, <3>1
    <3>3. Run(p.ci, len, nexec, Len(p.ci))
      BY <1>3, <1>8, <2>1, <2>2, <3>1, <3>2, RunPush
    <3> QED BY <1>3, <3>1, <3>3
  <2>4. CASE error # "no"
    BY <1>3, <1>6, <2>1, <2>4
  <2> QED BY <2>3, <2>4
<1>16. k # "resume"
  BY DEF Calling
<1> HIDE DEF nexec
<1>17. FrameOK(cstack', threads', n + 1, raising' # "no" \/ exited')
  <2>1. Base(cstack'[n + 1]) = len /\ cstack'[n + 1].th = L /\ cstack'[n + 1].nexec = nexec /\ cstack'[n + 1].kind # "resume"
    BY <1>8, <1>9, <1>16 DEF Base
  <2>2. len < Len(threads'[L].ci) \/ raising' # "no" \/ exited'
    BY <1>1, <1>10, <1>15
  <2> QED BY <1>9, <1>10, <1>15, <2>1, <2>2, TopFrame
<1>18. /\ threads'[L].nCcalls = Most => raising' = "err" \/ exited'
       /\ threads'[L].nCcalls <= Most
       /\ threads'[L].status = Th.status /\ threads'[L].body = Th.body
       /\ Kept(cstack', L, Len(cstack) + 2, threads'[L].nCcalls, threads'[L].jmp, threads'[L].errfunc)
       /\ Len(Th.ci) <= Len(threads'[L].ci)
       /\ \A g \in 1..Len(Th.ci) : threads'[L].ci[g].fn = Th.ci[g].fn
  BY <1>1, <1>6, <1>7, <1>10, <1>14, <1>15
<1>19. cstack = <<>> \/ a.kind = "handler" \/ (raising = "no" /\ ~exited)
  BY <1>8
<1> QED BY <1>1, <1>2, <1>8, <1>10, <1>12, <1>13, <1>16, <1>17, <1>18, <1>19, PushStep

LEMMA LevelIn ==
  ASSUME IInv, ~Broken, cstack # <<>>, NEW i \in 1..Len(cstack),
         cstack[i].th = L, cstack[i].kind # "resume"
  PROVE  cstack[i].level \in Nat /\ cstack[i].level <= Len(Th.ci)
<1> DEFINE n == Len(cstack)
<1>1. cstack \in Seq(Activations)
  BY DEF IInv, Types, TypeOK
<1>2. n \in 1..n /\ Top(cstack) = cstack[n]
  BY Now
<1>3. cstack[i].level \in Nat
  BY <1>1, ActType
<1>4. cstack[i].level <= Base(Top(cstack))
  <2>1. CASE i < n
    BY <2>1, OwnLevels
  <2>2. CASE i = n
    BY <1>2, <1>3, <2>2 DEF Base
  <2> QED BY <1>2, <2>1, <2>2
<1>5. Base(Top(cstack)) \in Nat /\ Base(Top(cstack)) <= Len(Th.ci) /\ Len(Th.ci) \in Nat
  <2>1. LET a == Top(cstack)
        IN  a.nexec \in Nat /\ Base(a) \in Nat /\ Len(Th.ci) \in Nat /\ Base(a) + a.nexec <= Len(Th.ci)
    BY TopRun
  <2> QED BY <2>1
<1> QED BY <1>3, <1>4, <1>5

LEMMA ThrowStep ==
  ASSUME IInv, ~Broken, cstack # <<>>, ~exited, luaD_throw
  PROVE  IInv'
<1> DEFINE n == Len(cstack)
           j == Th.jmp
           act == cstack[j]
<1>1. /\ TypeOK /\ prog \in Programs /\ Sizes /\ threads \in [Threads -> Thread] /\ cstack \in Seq(Activations)
      /\ L \in Threads /\ Th \in Thread /\ Exists(L) /\ Th.status = "ok" /\ ~Th.body /\ CurrentOf(L)
      /\ Shape(cstack) /\ Saved(cstack)
  BY Runner DEF IInv, Types, TypeOK
<1>2. n \in 1..n /\ L = cstack[n].th
  BY Now
<1>3. raising' = "no" /\ prog' = prog /\ globals' = globals
  BY DEF luaD_throw
<1>4. Jump(cstack, L, n + 1, j)
  BY <1>1 DEF CurrentOf, Th
<1>5. /\ j \in 0..n /\ \A i \in 1..n : i > j => cstack[i].th = L
      /\ j # 0 => cstack[j].th = L /\ cstack[j].kind \in Guards
  BY <1>1, <1>2, <1>4, Unwinds
<1>6. CASE j = 0
  <2>1. exited' = TRUE /\ threads' = threads /\ cstack' = cstack
    BY <1>6 DEF luaD_throw
  <2>2. Types'
    BY <1>1, <1>3, <2>1 DEF Types, TypeOK
  <2>3. Sizes'
    BY <1>1, <2>1 DEF Sizes
  <2>4. \A th \in Threads : Still(threads, threads', th)
    BY <2>1, Unchanged
  <2> QED BY <2>1, <2>2, <2>3, <2>4, QuietStep
<1>7. CASE j # 0
  <2> DEFINE m == j - 1
             x == IF act.kind = "resume" THEN [Th EXCEPT !.status = "error", !.jmp = act.jmp]
                  ELSE Restore(Th, act)
  <2>1. /\ exited' = exited /\ cstack' = SubSeq(cstack, 1, m)
        /\ threads' = [threads EXCEPT ![L] = x]
    BY <1>7 DEF luaD_throw, Th
  <2>2. m \in 0..(n - 1) /\ m \in 0..n /\ m + 1 = j /\ j \in 1..n /\ j \in 1..(m + 1)
    BY <1>2, <1>5, <1>7
  <2>3. act.kind \in {"pcall", "resume"} /\ act.th = L
    BY <1>5, <1>7 DEF Guards
  <2>4. act.nCcalls \in Nat /\ act.errfunc \in BOOLEAN /\ act.jmp \in Nat /\ act.level \in Nat
    BY <1>1, <2>2, ActType
  <2>5. cstack' \in Seq(Activations) /\ Len(cstack') = m /\ Like(cstack, cstack')
    BY <1>1, <2>1, <2>2, Cutting
  <2>6. Kept(cstack', L, m + 1, act.nCcalls, act.jmp, act.errfunc) /\ act.nCcalls < Most
    <3>1. Kept(cstack, L, j, act.nCcalls, act.jmp, act.errfunc) /\ act.nCcalls < Most
      BY <1>1, <2>2, <2>3 DEF Saved
    <3>2. j \in 1..(Len(cstack') + 1)
      BY <2>2, <2>5
    <3>3. Kept(cstack', L, j, act.nCcalls, act.jmp, act.errfunc)
      BY <1>1, <2>5, <3>1, <3>2, KeptLike
    <3> QED BY <2>2, <3>1, <3>3
  <2>7. /\ Th.ci \in Seq(Frame) /\ Len(Th.ci) \in Nat /\ Th.size_ci \in Nat
        /\ Len(Th.ci) < Th.size_ci /\ 1 < Th.size_ci /\ Th.size_ci <= 2 * LUAI_MAXCALLS
    BY <1>1 DEF Thread, Sizes, Th
  <2>8. /\ x \in Thread
        /\ Len(x.ci) < x.size_ci /\ 1 < x.size_ci /\ x.size_ci <= 2 * LUAI_MAXCALLS
        /\ x.jmp = act.jmp
        /\ act.kind = "resume" => x.status = "error"
        /\ act.kind # "resume" =>
             /\ x.status = "ok" /\ ~x.body /\ x.nCcalls = act.nCcalls /\ x.errfunc = act.errfunc
             /\ Len(x.ci) = act.level /\ \A g \in 1..act.level : x.ci[g].fn = Th.ci[g].fn
    <3>1. CASE act.kind = "resume"
      <4>1. x = [Th EXCEPT !.status = "error", !.jmp = act.jmp]
        BY <3>1
      <4>2. /\ x \in Thread /\ x.ci = Th.ci /\ x.size_ci = Th.size_ci /\ x.jmp = act.jmp /\ x.status = "error"
        BY <1>1, <2>4, <4>1 DEF Thread
      <4> QED BY <2>7, <3>1, <4>2
    <3>2. CASE act.kind # "resume"
      <4> DEFINE ci2 == SubSeq(Th.ci, 1, act.level)
                 size == Restored(Th.size_ci, act.level)
      <4>1. act.level <= Len(Th.ci)
        BY <2>2, <2>3, <3>2, LevelIn
      <4>2. ci2 \in Seq(Frame) /\ Len(ci2) = act.level /\ \A g \in 1..act.level : ci2[g] = Th.ci[g]
        <5>1. \A g \in 1..act.level : g \in 1..Len(Th.ci)
          BY <2>4, <2>7, <4>1
        <5>2. \A g \in 1..act.level : Th.ci[g] \in Frame
          BY <2>7, <5>1, ElementOfSeq
        <5> QED BY <2>4, <2>7, <4>1, <5>2
      <4>3. size \in Nat /\ act.level < size /\ 1 < size /\ size <= 2 * LUAI_MAXCALLS
        <5>1. LUAI_MAXCALLS \in Nat /\ LUAI_MAXCALLS > 1
          BY CallsAssumption
        <5> QED BY <2>4, <2>7, <4>1, <5>1 DEF Restored
      <4> HIDE DEF ci2, size
      <4>4. x = [Th EXCEPT !.ci = ci2, !.nCcalls = act.nCcalls, !.errfunc = act.errfunc,
                           !.jmp = act.jmp, !.size_ci = size]
        BY <3>2 DEF Restore, ci2, size
      <4>5. /\ x \in Thread /\ x.ci = ci2 /\ x.size_ci = size /\ x.jmp = act.jmp /\ x.status = Th.status
            /\ x.body = Th.body /\ x.nCcalls = act.nCcalls /\ x.errfunc = act.errfunc
        BY <1>1, <2>4, <4>2, <4>3, <4>4 DEF Thread
      <4> QED BY <1>1, <3>2, <4>2, <4>3, <4>5
    <3> QED BY <3>1, <3>2
  <2> HIDE DEF x
  <2>9. threads'[L] = x /\ \A th \in Threads : th # L => threads'[th] = threads[th]
    BY <1>1, <2>1
  <2>10. threads' \in [Threads -> Thread]
    BY <1>1, <2>1, <2>8
  <2>11. Types'
    BY <1>1, <1>3, <2>1, <2>5, <2>10 DEF Types, TypeOK
  <2>12. Sizes'
    <3>1. \A th \in Threads : /\ Len(threads'[th].ci) < threads'[th].size_ci /\ 1 < threads'[th].size_ci
                              /\ threads'[th].size_ci <= 2 * LUAI_MAXCALLS
      BY <1>1, <2>8, <2>9, Zenon DEF Sizes
    <3> QED BY <3>1, Zenon DEF Sizes
  <2>13. \A i \in (m + 1)..Len(cstack) : cstack[i].th = L
    <3>1. \A i \in j..n : i = j \/ (i \in 1..n /\ i > j)
      BY <2>2
    <3> QED BY <1>5, <1>7, <2>2, <3>1
  <2>14. Jump(cstack', L, m + 1, threads'[L].jmp)
    BY <2>6, <2>8, <2>9 DEF Kept
  <2>15. /\ threads'[L].status # "free"
         /\ cstack[m + 1].kind # "handler"
    BY <2>2, <2>3, <2>8, <2>9
  <2>16. threads'[L].status \in {"ok", "yield"} =>
           /\ Kept(cstack', L, m + 1, threads'[L].nCcalls, threads'[L].jmp, threads'[L].errfunc)
           /\ threads'[L].nCcalls < Most
    BY <2>6, <2>8, <2>9
  <2>17. cstack[m + 1].kind # "resume" =>
           /\ threads'[L].status = "ok" /\ ~threads'[L].body
           /\ Len(threads'[L].ci) = cstack[m + 1].level
           /\ \A f \in 1..cstack[m + 1].level : threads'[L].ci[f].fn = Th.ci[f].fn
    BY <2>2, <2>8, <2>9
  <2>18. cstack[m + 1].kind = "resume" =>
           /\ threads'[L].status = "ok" => threads'[L].ci = <<>>
           /\ threads'[L].status = "yield" => Suspended(threads'[L].ci)
    BY <2>2, <2>8, <2>9
  <2> HIDE DEF m
  <2> QED BY <2>1, <2>2, <2>9, <2>11, <2>12, <2>13, <2>14, <2>15, <2>16, <2>17, <2>18, CutStep
<1> QED BY <1>6, <1>7

LEMMA Popping ==
  ASSUME NEW ci \in Seq(Frame), ci # <<>>
  PROVE  /\ Pop(ci) \in Seq(Frame) /\ Len(Pop(ci)) = Len(ci) - 1
         /\ \A f \in 1..(Len(ci) - 1) : Pop(ci)[f] = ci[f]
<1>1. Len(ci) \in 1..Len(ci)
  BY NonEmpty
<1>2. \A f \in 1..(Len(ci) - 1) : f \in 1..Len(ci)
  OBVIOUS
<1>3. \A f \in 1..(Len(ci) - 1) : ci[f] \in Frame
  BY <1>2, ElementOfSeq
<1> DEFINE m == Len(ci) - 1
<1>4. m \in 0..Len(ci) /\ \A f \in 1..m : ci[f] \in Frame
  BY <1>1, <1>3
<1> HIDE DEF m
<1>5. SubSeq(ci, 1, m) \in Seq(Frame) /\ Len(SubSeq(ci, 1, m)) = m
  BY <1>4
<1>6. \A f \in 1..m : SubSeq(ci, 1, m)[f] = ci[f]
  BY <1>4
<1> QED BY <1>5, <1>6 DEF Pop, m

LEMMA ReturnStep ==
  ASSUME IInv, ~Broken, Return
  PROVE  IInv'
<1> DEFINE n == Len(cstack)
           act == Top(cstack)
           left == IF Top(Th.ci).fn = "lua" THEN act.nexec - 1 ELSE act.nexec
           less == [Th EXCEPT !.ci = Pop(@)]
           len == Len(Th.ci)
           b == Base(act)
<1>1. /\ Running /\ cstack # <<>> /\ raising = "no" /\ ~exited
  BY DEF Return, Running
<1>2. /\ TypeOK /\ prog \in Programs /\ Sizes /\ threads \in [Threads -> Thread] /\ cstack \in Seq(Activations)
      /\ L \in Threads /\ Th \in Thread /\ Th.status = "ok" /\ ~Th.body /\ CurrentOf(L)
      /\ Saved(cstack) /\ Th.nCcalls < Most
  BY <1>1, Runner DEF IInv, Types, TypeOK
<1>3. n \in 1..n /\ L = cstack[n].th /\ act = cstack[n]
  BY <1>1, Now
<1>4. /\ act.nexec \in Nat /\ b \in Nat /\ len \in Nat
      /\ b + act.nexec <= len /\ len <= b + act.nexec + 1
      /\ \A f \in (b + 1)..len : Th.ci[f].fn = "lua" <=> f <= b + act.nexec
      /\ act.kind = "resume" => act.nexec > 0
  BY <1>1, TopRun
<1>5. /\ len \in 1..len /\ b < len
      /\ Top(Th.ci).fn = "lua" => len = b + act.nexec
      /\ Top(Th.ci).fn = "C" => len = b + act.nexec + 1
      /\ Top(Th.ci).fn \in {"lua", "C"}
  <2>1. LET a == Top(cstack)
            q == Len(Th.ci)
        IN  /\ q \in 1..q /\ Top(Th.ci) \in Frame /\ Base(a) < q
            /\ Top(Th.ci).fn = "lua" => q = Base(a) + a.nexec
            /\ Top(Th.ci).fn = "C" => q = Base(a) + a.nexec + 1
    BY <1>1, Runs
  <2> QED BY <2>1 DEF Frame
<1>6. left \in Nat /\ len = b + left + 1
  BY <1>4, <1>5
<1>7. /\ act.kind \in {"call", "pcall", "handler", "resume"} /\ act.nCcalls \in Nat
      /\ act.errfunc \in BOOLEAN /\ act.jmp \in Nat /\ act.level \in Nat
  BY <1>2, <1>3, ActType
<1>8. Th.ci \in Seq(Frame) /\ Th.size_ci \in Nat
  BY <1>2 DEF Thread
<1>9. /\ Pop(Th.ci) \in Seq(Frame) /\ Len(Pop(Th.ci)) = len - 1
      /\ \A f \in 1..(len - 1) : Pop(Th.ci)[f] = Th.ci[f]
  <2>1. Th.ci # <<>>
    BY <1>5, <1>8, NonEmpty
  <2> QED BY <1>8, <2>1, Popping
<1>10. /\ less \in Thread /\ less.ci = Pop(Th.ci) /\ less.size_ci = Th.size_ci /\ less.status = Th.status
       /\ less.body = Th.body /\ less.nCcalls = Th.nCcalls /\ less.errfunc = Th.errfunc /\ less.jmp = Th.jmp
  BY <1>2, <1>9 DEF Thread
<1>11. len < Th.size_ci /\ 1 < Th.size_ci /\ Th.size_ci <= 2 * LUAI_MAXCALLS
  BY <1>2 DEF Sizes, Th
<1>12. CASE left = 0 /\ act.kind = "handler"
  <2>1. luaD_throw
    BY <1>12 DEF Return
  <2> QED BY <1>1, <2>1, ThrowStep
<1> HIDE DEF less
<1>13. CASE left > 0
  <2>1. /\ cstack' = [cstack EXCEPT ![Len(cstack)].nexec = left]
        /\ threads' = [threads EXCEPT ![L] = less]
        /\ prog' = prog /\ raising' = raising /\ globals' = globals /\ exited' = exited
    BY <1>13 DEF Return, less
  <2>2. /\ cstack' \in Seq(Activations) /\ Len(cstack') = n /\ Like(cstack, cstack')
        /\ Same(cstack[n], cstack'[n]) /\ cstack'[n].nexec = left
        /\ \A i \in 1..n : i < n => cstack'[i] = cstack[i]
    <3>1. \A k \in Nat : cstack' = [cstack EXCEPT ![Len(cstack)].nexec = k] =>
            /\ cstack' \in Seq(Activations) /\ Len(cstack') = n /\ Like(cstack, cstack')
            /\ Same(cstack[n], cstack'[n]) /\ cstack'[n].nexec = k
            /\ \A i \in 1..n : i < n => cstack'[i] = cstack[i]
      BY <1>1, <1>2, NexecChanged
    <3> HIDE DEF left
    <3> QED BY <1>6, <2>1, <3>1, Zenon
  <2>3. threads'[L] = less /\ \A th \in Threads : th # L => threads'[th] = threads[th]
    BY <1>2, <2>1
  <2>4. threads' \in [Threads -> Thread]
    BY <1>2, <1>10, <2>1
  <2>5. Types'
    <3>1. cstack' # <<>>
      BY <1>3, <2>2, EmptySeq
    <3> QED BY <1>1, <1>2, <2>1, <2>2, <2>4, <3>1 DEF Types, TypeOK
  <2>6. Sizes'
    <3>1. Len(less.ci) < less.size_ci
      BY <1>4, <1>8, <1>9, <1>10, <1>11
    <3>2. \A th \in Threads : /\ Len(threads'[th].ci) < threads'[th].size_ci /\ 1 < threads'[th].size_ci
                              /\ threads'[th].size_ci <= 2 * LUAI_MAXCALLS
      BY <1>2, <1>10, <1>11, <2>3, <3>1, Zenon DEF Sizes
    <3> QED BY <3>2, Zenon DEF Sizes
  <2>7. Run(less.ci, b, left, Len(less.ci))
    <3>1. Len(less.ci) = b + left
      <4>1. Len(less.ci) = len - 1
        BY <1>9, <1>10
      <4> HIDE DEF len, b, left
      <4> QED BY <1>4, <1>6, <4>1
    <3>2. ASSUME NEW f \in (b + 1)..(b + left) PROVE less.ci[f].fn = "lua"
      <4>1. f \in 1..(len - 1) /\ f \in (b + 1)..len
        BY <1>4, <1>6
      <4>2. f <= b + act.nexec
        BY <1>4, <1>6
      <4>3. Th.ci[f].fn = "lua"
        BY <1>4, <4>1, <4>2
      <4> QED BY <1>9, <1>10, <4>1, <4>3
    <3> HIDE DEF left, b
    <3> QED BY <1>4, <1>6, <3>1, <3>2 DEF Run
  <2>8. b < Len(less.ci) /\ b <= Len(less.ci) /\ \A f \in 1..b : less.ci[f].fn = Th.ci[f].fn
    <3>1. Len(less.ci) = b + left /\ \A f \in 1..b : f \in 1..(len - 1)
      <4>1. Len(less.ci) = len - 1
        BY <1>9, <1>10
      <4> HIDE DEF len, b, left
      <4> QED BY <1>4, <1>6, <4>1
    <3>2. \A f \in 1..b : less.ci[f].fn = Th.ci[f].fn
      BY <1>9, <1>10, <3>1
    <3>3. b < b + left /\ b <= b + left
      BY <1>4, <1>6, <1>13
    <3> QED BY <3>1, <3>2, <3>3
  <2>9. FrameOK(cstack', threads', n, raising' # "no" \/ exited')
    <3>1. cstack'[n].th = L /\ Base(cstack'[n]) = b /\ cstack'[n].kind = act.kind
      BY <1>3, <2>2 DEF Same, Base
    <3> QED BY <1>13, <2>2, <2>3, <2>7, <2>8, <3>1, TopFrame
  <2>10. /\ threads'[L].status = Th.status /\ threads'[L].body = Th.body
         /\ threads'[L].nCcalls = Th.nCcalls /\ threads'[L].errfunc = Th.errfunc
         /\ threads'[L].jmp = Th.jmp
         /\ b <= Len(threads'[L].ci) /\ \A f \in 1..b : threads'[L].ci[f].fn = Th.ci[f].fn
    BY <1>10, <2>3, <2>8
  <2>11. Th.nCcalls # Most
    BY <1>2, Runner, CallsAssumption DEF Most
  <2>12. \A th \in Threads : th # L => Still(threads, threads', th)
    BY <2>3, Unchanged
  <2>13. \A i \in 1..n : i < n => cstack'[i].nexec = cstack[i].nexec
    BY <2>2
  <2> HIDE DEF left
  <2> QED BY <1>1, <2>2, <2>5, <2>6, <2>9, <2>10, <2>11, <2>12, <2>13, SameStep
<1>14. CASE left = 0 /\ act.kind # "handler"
  <2> DEFINE m == n - 1
             x == [less EXCEPT !.jmp = act.jmp, !.errfunc = act.errfunc, !.nCcalls = Uncounted(act, @)]
  <2>1. /\ cstack' = SubSeq(cstack, 1, m) /\ threads' = [threads EXCEPT ![L] = x]
        /\ prog' = prog /\ raising' = raising /\ globals' = globals /\ exited' = exited
    BY <1>14 DEF Return, Pop, less
  <2>2. m \in 0..n /\ m + 1 = n /\ m \in 0..(n - 1) /\ n \in 1..(m + 1)
    BY <1>3
  <2>3. cstack' \in Seq(Activations) /\ Len(cstack') = m /\ Like(cstack, cstack')
    BY <1>2, <2>1, <2>2, Cutting
  <2>4. Kept(cstack, L, n, act.nCcalls, act.jmp, act.errfunc) /\ act.nCcalls < Most
    BY <1>2, <1>3 DEF Saved
  <2>5. Kept(cstack', L, n, act.nCcalls, act.jmp, act.errfunc)
    <3>1. n \in 1..(Len(cstack') + 1)
      BY <2>2, <2>3
    <3> QED BY <1>2, <2>3, <2>4, <3>1, KeptLike
  <2>6. Uncounted(act, Th.nCcalls) = act.nCcalls
    <3>1. Th.nCcalls = Cardinality(Below(cstack, L, n + 1, Calling))
      BY <1>2 DEF CurrentOf, Kept, Th
    <3>2. act.nCcalls = Cardinality(Below(cstack, L, n, Calling))
      BY <2>4 DEF Kept
    <3>3. Cardinality(Below(cstack, L, n + 1, Calling)) =
            IF act.kind = "resume" THEN Cardinality(Below(cstack, L, n, Calling))
            ELSE Cardinality(Below(cstack, L, n, Calling)) + 1
      BY <1>2, <1>3, CountNext
    <3> QED BY <1>7, <3>1, <3>2, <3>3 DEF Uncounted
  <2>7. x = [less EXCEPT !.jmp = act.jmp, !.errfunc = act.errfunc, !.nCcalls = act.nCcalls]
    BY <1>10, <2>6
  <2> HIDE DEF x
  <2>8. /\ x \in Thread /\ x.ci = Pop(Th.ci) /\ x.size_ci = Th.size_ci /\ x.status = "ok" /\ ~x.body
        /\ x.jmp = act.jmp /\ x.errfunc = act.errfunc /\ x.nCcalls = act.nCcalls
    BY <1>2, <1>7, <1>10, <2>7 DEF Thread
  <2>9. threads'[L] = x /\ \A th \in Threads : th # L => threads'[th] = threads[th]
    BY <1>2, <2>1
  <2>10. threads' \in [Threads -> Thread]
    BY <1>2, <2>1, <2>8
  <2>11. Types'
    BY <1>1, <1>2, <2>1, <2>3, <2>10 DEF Types, TypeOK
  <2>12. Sizes'
    <3>1. Len(x.ci) < x.size_ci
      BY <1>4, <1>8, <1>9, <1>11, <2>8
    <3>2. \A th \in Threads : /\ Len(threads'[th].ci) < threads'[th].size_ci /\ 1 < threads'[th].size_ci
                              /\ threads'[th].size_ci <= 2 * LUAI_MAXCALLS
      BY <1>2, <1>11, <2>8, <2>9, <3>1, Zenon DEF Sizes
    <3> QED BY <3>2, Zenon DEF Sizes
  <2>13. Len(x.ci) = b
    BY <1>4, <1>6, <1>9, <1>14, <2>8
  <2>14. \A i \in (m + 1)..Len(cstack) : cstack[i].th = L
    BY <1>3, <2>2
  <2>15. act.kind # "resume" =>
           Len(x.ci) = act.level /\ \A f \in 1..act.level : x.ci[f].fn = Th.ci[f].fn
    <3>1. SUFFICES ASSUME act.kind # "resume"
                   PROVE  Len(x.ci) = act.level /\ \A f \in 1..act.level : x.ci[f].fn = Th.ci[f].fn
      OBVIOUS
    <3>2. b = act.level
      BY <3>1 DEF Base
    <3>3. act.level = len - 1
      BY <1>4, <1>6, <1>14, <3>2
    <3> QED BY <1>9, <2>8, <2>13, <3>2, <3>3
  <2>16. act.kind = "resume" => x.ci = <<>>
    <3>1. act.kind = "resume" => b = 0
      BY DEF Base
    <3> QED BY <1>9, <2>8, <2>13, <3>1, EmptySeq
  <2>17. /\ threads'[L].status # "free" /\ cstack[m + 1].kind # "handler"
         /\ Jump(cstack', L, m + 1, threads'[L].jmp)
    BY <1>3, <1>14, <2>2, <2>5, <2>8, <2>9 DEF Kept
  <2>18. threads'[L].status \in {"ok", "yield"} =>
           /\ Kept(cstack', L, m + 1, threads'[L].nCcalls, threads'[L].jmp, threads'[L].errfunc)
           /\ threads'[L].nCcalls < Most
    BY <2>2, <2>4, <2>5, <2>8, <2>9
  <2>19. cstack[m + 1].kind # "resume" =>
           /\ threads'[L].status = "ok" /\ ~threads'[L].body
           /\ Len(threads'[L].ci) = cstack[m + 1].level
           /\ \A f \in 1..cstack[m + 1].level : threads'[L].ci[f].fn = Th.ci[f].fn
    BY <1>3, <2>2, <2>8, <2>9, <2>15
  <2>20. cstack[m + 1].kind = "resume" =>
           /\ threads'[L].status = "ok" => threads'[L].ci = <<>>
           /\ threads'[L].status = "yield" => Suspended(threads'[L].ci)
    BY <1>3, <2>2, <2>8, <2>9, <2>16
  <2> HIDE DEF m
  <2> QED BY <1>1, <2>1, <2>2, <2>9, <2>11, <2>12, <2>14, <2>17, <2>18, <2>19, <2>20, CutStep
<1> HIDE DEF left, b, len
<1>15. left = 0 \/ left > 0
  BY <1>6
<1> QED BY <1>12, <1>13, <1>14, <1>15, Zenon

LEMMA YieldStep ==
  ASSUME IInv, ~Broken, Yield
  PROVE  IInv'
<1> DEFINE n == Len(cstack)
           act == Top(cstack)
           len == Len(Th.ci)
<1>1. /\ Running /\ cstack # <<>> /\ raising = "no" /\ ~exited /\ Top(Th.ci).fn = "C"
      /\ prog' = prog /\ globals' = globals /\ exited' = exited
  BY DEF Yield, InC, Running
<1>2. /\ TypeOK /\ prog \in Programs /\ Sizes /\ threads \in [Threads -> Thread] /\ cstack \in Seq(Activations)
      /\ L \in Threads /\ Th \in Thread /\ Th.status = "ok" /\ CurrentOf(L) /\ Saved(cstack) /\ Shape(cstack)
      /\ Th.nCcalls \in Nat /\ Th.nCcalls < Most
  BY <1>1, Runner DEF IInv, Types, TypeOK
<1>3. n \in 1..n /\ L = cstack[n].th /\ act = cstack[n]
  BY <1>1, Now
<1>4. CASE Boundary
  <2>1. raising' = "run" /\ threads' = threads /\ cstack' = cstack
    BY <1>4 DEF Yield
  <2>2. Types'
    BY <1>1, <1>2, <2>1 DEF Types, TypeOK
  <2>3. Sizes'
    BY <1>2, <2>1 DEF Sizes
  <2>4. \A th \in Threads : Still(threads, threads', th)
    BY <2>1, Unchanged
  <2> QED BY <1>1, <2>1, <2>2, <2>3, <2>4, QuietStep
<1>5. CASE ~Boundary
  <2> DEFINE m == n - 1
             x == [Th EXCEPT !.status = "yield", !.jmp = act.jmp]
  <2>1. /\ cstack' = SubSeq(cstack, 1, m) /\ threads' = [threads EXCEPT ![L] = x] /\ raising' = raising
    BY <1>2, <1>5 DEF Yield, Pop, Th
  <2>2. m \in 0..n /\ m + 1 = n /\ m \in 0..(n - 1) /\ n \in 1..(m + 1)
    BY <1>3
  <2>3. cstack' \in Seq(Activations) /\ Len(cstack') = m /\ Like(cstack, cstack')
    BY <1>2, <2>1, <2>2, Cutting
  <2>4. Kept(cstack, L, n, act.nCcalls, act.jmp, act.errfunc) /\ act.jmp \in Nat
    BY <1>2, <1>3, ActType DEF Saved
  <2>5. Kept(cstack, L, n + 1, Th.nCcalls, Th.jmp, Th.errfunc)
    BY <1>2 DEF CurrentOf, Th
  <2>6. /\ act.kind = "resume"
        /\ Th.nCcalls = Cardinality(Below(cstack, L, n, Calling))
    <3>1. Cardinality(Below(cstack, L, n + 1, Calling)) =
            IF act.kind = "resume" THEN Cardinality(Below(cstack, L, n, Calling))
            ELSE Cardinality(Below(cstack, L, n, Calling)) + 1
      BY <1>2, <1>3, CountNext
    <3>2. Th.nCcalls = 0
      BY <1>2, <1>5 DEF Boundary
    <3>3. Cardinality(Below(cstack, L, n, Calling)) \in Nat
      BY <1>3, BelowFinite
    <3> QED BY <2>5, <3>1, <3>2, <3>3 DEF Kept
  <2>7. Th.errfunc => Below(cstack, L, n, {"pcall"}) # {}
    <3>1. ASSUME NEW kinds, act.kind \notin kinds
          PROVE  Below(cstack, L, n + 1, kinds) = Below(cstack, L, n, kinds)
      BY <1>2, <1>3, <3>1, BelowNext
    <3>2. act.kind \notin {"pcall"}
      BY <2>6
    <3>3. Below(cstack, L, n + 1, {"pcall"}) = Below(cstack, L, n, {"pcall"})
      BY <3>1, <3>2, Zenon
    <3> QED BY <2>5, <3>3 DEF Kept
  <2>8. Kept(cstack', L, n, Th.nCcalls, act.jmp, Th.errfunc)
    <3>1. n \in 1..(Len(cstack') + 1)
      BY <2>2, <2>3
    <3>2. Kept(cstack, L, n, Th.nCcalls, act.jmp, Th.errfunc)
      BY <2>4, <2>6, <2>7 DEF Kept
    <3> QED BY <1>2, <2>3, <3>1, <3>2, KeptLike
  <2>9. /\ x \in Thread /\ x.ci = Th.ci /\ x.size_ci = Th.size_ci /\ x.status = "yield"
        /\ x.jmp = act.jmp /\ x.errfunc = Th.errfunc /\ x.nCcalls = Th.nCcalls
    BY <1>2, <2>4 DEF Thread
  <2> HIDE DEF x
  <2>10. threads'[L] = x /\ \A th \in Threads : th # L => threads'[th] = threads[th]
    BY <1>2, <2>1
  <2>11. threads' \in [Threads -> Thread]
    BY <1>2, <2>1, <2>9
  <2>12. Types'
    BY <1>1, <1>2, <2>1, <2>3, <2>11 DEF Types, TypeOK
  <2>13. Sizes'
    <3>1. \A th \in Threads : /\ Len(threads'[th].ci) < threads'[th].size_ci /\ 1 < threads'[th].size_ci
                              /\ threads'[th].size_ci <= 2 * LUAI_MAXCALLS
      BY <1>2, <2>9, <2>10, Zenon DEF Sizes, Th
    <3> QED BY <3>1, Zenon DEF Sizes
  <2>14. \A i \in (m + 1)..Len(cstack) : cstack[i].th = L
    BY <1>3, <2>2
  <2>15. Suspended(Th.ci)
    <3>1. /\ act.nexec \in Nat /\ len \in Nat /\ act.nexec > 0
          /\ \A f \in 1..len : Th.ci[f].fn = "lua" <=> f <= act.nexec
      <4>1. Base(act) = 0
        BY <2>6 DEF Base
      <4>2. /\ act.nexec \in Nat /\ len \in Nat /\ act.nexec > 0
            /\ \A f \in (Base(act) + 1)..len : Th.ci[f].fn = "lua" <=> f <= Base(act) + act.nexec
        BY <1>1, <2>6, TopRun
      <4> QED BY <4>1, <4>2
    <3>2. len = act.nexec + 1
      <4>1. Base(act) = 0
        BY <2>6 DEF Base
      <4>2. len = Base(act) + act.nexec + 1
        BY <1>1, Runs
      <4> QED BY <3>1, <4>1, <4>2
    <3> QED BY <3>1, <3>2 DEF Suspended
  <2>16. /\ threads'[L].status = "yield" /\ cstack[m + 1].kind = "resume"
         /\ Jump(cstack', L, m + 1, threads'[L].jmp)
         /\ Kept(cstack', L, m + 1, threads'[L].nCcalls, threads'[L].jmp, threads'[L].errfunc)
         /\ threads'[L].nCcalls < Most
         /\ Suspended(threads'[L].ci)
    BY <1>2, <1>3, <2>2, <2>6, <2>8, <2>9, <2>10, <2>15 DEF Kept
  <2> HIDE DEF m
  <2> QED BY <1>1, <2>1, <2>2, <2>10, <2>12, <2>13, <2>14, <2>16, CutStep
<1> QED BY <1>4, <1>5

LEMMA ResumeStep ==
  ASSUME IInv, ~Broken, NEW co \in Coroutines, Resume(co)
  PROVE  IInv'
<1> DEFINE n == Len(cstack)
           th0 == threads[co]
           ci == IF th0.status = "ok" THEN <<Lua>> ELSE Pop(th0.ci)
           x == [th0 EXCEPT !.status = "ok", !.body = FALSE, !.ci = ci, !.jmp = Len(cstack) + 1]
           a == Activation("resume", co, Len(ci))
<1>1. /\ Running /\ cstack # <<>> /\ raising = "no" /\ ~exited
      /\ Top(Th.ci).fn = "C" /\ Top(Th.ci).arg = co
      /\ Exists(co) /\ Resumable(th0)
      /\ threads' = [threads EXCEPT ![co] = x] /\ cstack' = Append(cstack, a)
      /\ prog' = prog /\ raising' = raising /\ globals' = globals /\ exited' = exited
  BY DEF Resume, InC, Running
<1>2. /\ TypeOK /\ prog \in Programs /\ Sizes /\ threads \in [Threads -> Thread] /\ cstack \in Seq(Activations)
      /\ L \in Threads /\ Th.nCcalls \in Nat /\ Th.nCcalls < Most
      /\ Shape(cstack) /\ Saved(cstack) /\ Levels(cstack)
  BY <1>1, Runner DEF IInv, Types, TypeOK
<1>3. co \in Threads /\ CurrentOf(co) /\ StatusOf(co)
  BY DEF IInv, Coroutines
<1>4. /\ n \in 1..n /\ n \in Nat /\ L = cstack[n].th
      /\ \A i \in 1..n :
           /\ cstack[i].th \in Threads /\ Exists(cstack[i].th)
           /\ FrameOK(cstack, threads, i, raising # "no" \/ exited)
  BY <1>1, Now
<1>5. /\ th0 \in Thread /\ th0.ci \in Seq(Frame) /\ th0.nCcalls \in Nat /\ th0.errfunc \in BOOLEAN
      /\ th0.jmp \in Nat /\ Len(th0.ci) \in Nat /\ th0.size_ci \in Nat
  BY <1>2, <1>3, ThreadType
<1>6. th0.status \in {"ok", "yield"} /\ (th0.status = "ok" => th0.ci = <<>> /\ th0.body)
  BY <1>1 DEF Resumable
<1>7. ~On(co)
  BY <1>1, <1>3, <1>6 DEF StatusOf
<1>8. \A i \in 1..n : cstack[i].th # co
  BY <1>7 DEF On
<1>9. L # co
  BY <1>4, <1>8
<1>10. /\ Kept(cstack, co, n + 1, th0.nCcalls, th0.jmp, th0.errfunc)
       /\ th0.nCcalls < Most
  <2>1. Most \in Nat
    BY CallsAssumption DEF Most
  <2> QED BY <1>1, <1>3, <1>5, <1>6, <1>9, <2>1 DEF CurrentOf
<1>11. /\ ci \in Seq(Frame) /\ Len(ci) \in Nat /\ Len(ci) > 0 /\ Len(ci) < th0.size_ci
       /\ \A f \in 1..Len(ci) : ci[f].fn = "lua"
  <2>1. Len(th0.ci) < th0.size_ci /\ 1 < th0.size_ci
    BY <1>2, <1>3 DEF Sizes
  <2>2. CASE th0.status = "ok"
    <3>1. ci = <<Lua>> /\ Lua \in Frame /\ Lua.fn = "lua"
      BY <2>2 DEF Lua, Frame
    <3>2. ASSUME NEW f \in Frame
          PROVE  /\ <<f>> \in Seq(Frame) /\ Len(<<f>>) = 1 /\ <<f>>[1] = f
      OBVIOUS
    <3>3. Len(ci) = 1 /\ ci \in Seq(Frame) /\ ci[1] = Lua
      BY <3>1, <3>2, Zenon
    <3> HIDE DEF ci
    <3>4. 1 < th0.size_ci
      BY <2>1
    <3> QED BY <3>1, <3>3, <3>4
  <2>3. CASE th0.status # "ok"
    <3>1. ci = Pop(th0.ci) /\ Suspended(th0.ci)
      BY <1>3, <1>6, <2>3 DEF StatusOf
    <3>2. th0.ci # <<>>
      BY <1>5, <3>1, EmptySeq DEF Suspended
    <3>3. /\ ci \in Seq(Frame) /\ Len(ci) = Len(th0.ci) - 1
          /\ \A f \in 1..(Len(th0.ci) - 1) : ci[f] = th0.ci[f]
      BY <1>5, <3>1, <3>2, Popping
    <3>4. Len(ci) \in Nat /\ Len(ci) > 0 /\ Len(ci) < th0.size_ci
      BY <1>5, <2>1, <3>1, <3>3 DEF Suspended
    <3>5. ASSUME NEW f \in 1..Len(ci) PROVE ci[f].fn = "lua"
      <4>1. f \in 1..Len(th0.ci) /\ f < Len(th0.ci) /\ f \in 1..(Len(th0.ci) - 1)
        BY <1>5, <3>3
      <4> QED BY <3>1, <3>3, <4>1 DEF Suspended
    <3> HIDE DEF ci
    <3> QED BY <3>3, <3>4, <3>5
  <2> QED BY <2>2, <2>3
<1> HIDE DEF ci
<1>12. /\ x \in Thread /\ x.status = "ok" /\ ~x.body /\ x.ci = ci /\ x.jmp = n + 1
       /\ x.nCcalls = th0.nCcalls /\ x.errfunc = th0.errfunc /\ x.size_ci = th0.size_ci
  <2>1. n + 1 \in Nat
    BY <1>4
  <2>2. x = [th0 EXCEPT !.status = "ok", !.body = FALSE, !.ci = ci, !.jmp = n + 1]
    OBVIOUS
  <2>3. th0 \in Thread /\ ci \in Seq(Frame)
    BY <1>5, <1>11
  <2> HIDE DEF x, n, th0
  <2> QED BY <2>1, <2>2, <2>3 DEF Thread
<1>13. /\ a \in Activations /\ a.kind = "resume" /\ a.th = co /\ a.nexec = Len(ci)
       /\ a.nCcalls = th0.nCcalls /\ a.errfunc = th0.errfunc /\ a.jmp = th0.jmp
  BY <1>3, <1>5, <1>11 DEF Activation, Activations
<1> HIDE DEF x, a
<1>14. /\ cstack' \in Seq(Activations) /\ Len(cstack') = n + 1 /\ cstack'[n + 1] = a /\ Like(cstack', cstack)
       /\ \A i \in 1..n : cstack'[i] = cstack[i]
  BY <1>1, <1>2, <1>13, Pushing
<1>15. threads'[co] = x /\ \A th \in Threads : th # co => threads'[th] = threads[th]
  BY <1>1, <1>2, <1>3
<1>16. threads' \in [Threads -> Thread]
  BY <1>1, <1>2, <1>12
<1>17. Types'
  <2>1. cstack' # <<>>
    BY <1>4, <1>14, EmptySeq
  <2> QED BY <1>1, <1>2, <1>14, <1>16, <2>1 DEF Types, TypeOK
<1>18. Sizes'
  <2>1. Len(x.ci) < x.size_ci /\ x.size_ci = threads[co].size_ci
    BY <1>11, <1>12
  <2>2. \A th \in Threads : /\ Len(threads'[th].ci) < threads'[th].size_ci /\ 1 < threads'[th].size_ci
                            /\ threads'[th].size_ci <= 2 * LUAI_MAXCALLS
    BY <1>2, <1>15, <2>1, Zenon DEF Sizes
  <2> QED BY <2>2, Zenon DEF Sizes
<1>19. Shape(cstack') /\ Saved(cstack') /\ Levels(cstack')
  <2>1. Shape(Append(cstack, a))
    BY <1>1, <1>2, <1>8, <1>13, ShapePush
  <2>2. Saved(Append(cstack, a))
    BY <1>2, <1>10, <1>13, SavedPush
  <2>3. Levels(Append(cstack, a))
    BY <1>1, <1>2, <1>8, <1>13, LevelsPush
  <2> QED BY <1>1, <2>1, <2>2, <2>3
<1>20. L' = co
  <2>1. cstack' # <<>>
    BY <1>4, <1>14, EmptySeq
  <2> QED BY <1>13, <1>14, <2>1 DEF L, Top
<1>21. ASSUME NEW th \in Threads PROVE CurrentOf(th)' /\ StatusOf(th)'
  <2>1. CASE th # co
    <3>1. Still(threads, threads', th)
      BY <1>15, <2>1, Unchanged
    <3>2. Like(cstack, cstack)
      BY DEF Like, Same
    <3>3. /\ \A i \in (n + 1)..Len(cstack) : cstack[i].th # th
          /\ \A i \in (n + 1)..Len(cstack') : cstack'[i].th # th
      BY <1>4, <1>13, <1>14, <2>1
    <3>4. CurrentOf(th) /\ StatusOf(th)
      BY DEF IInv
    <3>5. th # L \/ threads[th].nCcalls # Most
      BY <1>2, CallsAssumption DEF Th, Most
    <3> QED BY <1>2, <1>14, <1>16, <3>1, <3>2, <3>3, <3>4, <3>5, OtherThread
  <2>2. CASE th = co
    <3>1. On(th)'
      BY <1>4, <1>13, <1>14, <2>2 DEF On
    <3>2. StatusOf(th)'
      BY <1>12, <1>15, <2>2, <3>1 DEF StatusOf
    <3>3. Kept(cstack', co, n + 2, th0.nCcalls, n + 1, th0.errfunc)
      <4>1. n + 1 \in 1..(Len(cstack) + 1) /\ n + 1 \in 1..Len(cstack') /\ (n + 1) + 1 = n + 2
        BY <1>4, <1>14
      <4>2. Kept(cstack', co, n + 1, th0.nCcalls, th0.jmp, th0.errfunc)
        BY <1>2, <1>10, <1>14, <4>1, KeptLike
      <4>3. Kept(cstack', co, (n + 1) + 1, th0.nCcalls, n + 1, th0.errfunc)
        BY <1>5, <1>13, <1>14, <4>1, <4>2, KeptNext
      <4> QED BY <4>1, <4>3
    <3>4. Len(cstack') + 1 = n + 2
      BY <1>4, <1>14
    <3>5. /\ Kept(cstack', th, Len(cstack') + 1, threads'[th].nCcalls, threads'[th].jmp, threads'[th].errfunc)
          /\ threads'[th].nCcalls <= Most /\ threads'[th].nCcalls # Most
      BY <1>5, <1>10, <1>12, <1>15, <2>2, <3>3, <3>4, CallsAssumption DEF Most
    <3>6. CurrentOf(th)'
      BY <3>5, Zenon DEF CurrentOf, Kept
    <3> QED BY <3>2, <3>6
  <2> QED BY <2>1, <2>2
<1>22. Frames'
  <2>1. ASSUME NEW i \in 1..(n + 1)
        PROVE  FrameOK(cstack', threads', i, raising' # "no" \/ exited')
    <3>1. CASE i = n + 1
      <4>1. /\ Base(cstack'[n + 1]) = 0 /\ cstack'[n + 1].th = co /\ cstack'[n + 1].nexec = Len(ci)
            /\ threads'[co].ci = ci
        BY <1>12, <1>13, <1>14, <1>15 DEF Base
      <4>2. Run(ci, 0, Len(ci), Len(ci))
        BY <1>11 DEF Run
      <4> QED BY <1>11, <1>14, <3>1, <4>1, <4>2, TopFrame
    <3>2. CASE i = n
      <4>1. i = n /\ n \in 1..n /\ n < n + 1 /\ ~(n < n) /\ n < Len(cstack')
        BY <1>4, <1>14, <3>2
      <4>2. FrameOK(cstack, threads, n, raising # "no" \/ exited)
        BY <1>4
      <4>3. threads'[L] = threads[L] /\ cstack'[n] = cstack[n] /\ cstack'[n + 1].kind = "resume"
        BY <1>2, <1>4, <1>9, <1>13, <1>14, <1>15
      <4>4. End(cstack, threads, n) = Len(threads[L].ci)
        BY <1>4, <4>1 DEF End
      <4>5. End(cstack', threads', n) = Len(threads[L].ci)
        BY <1>4, <4>1, <4>3 DEF End
      <4>6. /\ Run(threads[L].ci, Base(cstack[n]), cstack[n].nexec, Len(threads[L].ci))
            /\ cstack[n].kind = "resume" => cstack[n].nexec > 0
            /\ Base(cstack[n]) < Len(threads[L].ci)
        BY <1>1, <1>4, <4>1, <4>2, <4>4 DEF FrameOK
      <4> QED BY <1>4, <4>1, <4>3, <4>5, <4>6 DEF FrameOK
    <3>3. CASE i < n
      <4>1. i \in 1..n /\ i + 1 \in 1..n
        BY <1>4, <3>3
      <4>2. FrameOK(cstack, threads, i, raising # "no" \/ exited) /\ cstack[i].th \in Threads
        BY <1>4, <4>1
      <4>3. threads'[cstack[i].th] = threads[cstack[i].th]
        BY <1>8, <1>15, <4>1, <4>2
      <4>4. Still(threads, threads', cstack[i].th)
        BY <4>3, Unchanged
      <4>5. cstack[i].th = L =>
              /\ cstack[i + 1].level <= Len(threads'[cstack[i].th].ci)
              /\ \A f \in 1..cstack[i + 1].level : threads'[cstack[i].th].ci[f].fn = threads[cstack[i].th].ci[f].fn
        <5>1. cstack[i].th = L => cstack[i + 1].th = L /\ cstack[i + 1].kind # "resume"
          BY <1>1, <3>3, <4>1, OwnLevels
        <5>2. cstack[i].th = L => cstack[i + 1].level <= Len(Th.ci)
          BY <1>1, <4>1, <5>1, LevelIn
        <5> QED BY <4>3, <5>2 DEF Th
      <4>6. Same(cstack[i], cstack'[i]) /\ Same(cstack[i + 1], cstack'[i + 1]) /\ cstack[i].nexec = cstack'[i].nexec
        BY <1>14, <4>1 DEF Same
      <4>7. i \in 1..Len(cstack') /\ i # Len(cstack')
        BY <1>14, <3>3
      <4> QED BY <1>2, <1>4, <1>14, <1>16, <3>3, <4>2, <4>4, <4>5, <4>6, <4>7, FrameStays
    <3> QED BY <1>4, <3>1, <3>2, <3>3
  <2> QED BY <1>14, <2>1, Zenon DEF Frames
<1>23. Waiting'
  <2>1. ASSUME NEW i \in 2..(n + 1) PROVE Waits(cstack', threads', i)
    <3>1. CASE i = n + 1
      <4>1. /\ cstack'[i].th = co /\ cstack'[i - 1] = cstack[n] /\ threads'[L] = threads[L]
            /\ threads'[co].status # "free"
        BY <1>2, <1>4, <1>9, <1>12, <1>13, <1>14, <1>15, <3>1
      <4>2. Th.ci # <<>>
        <5>1. Th.ci \in Seq(Frame)
          BY <1>2, ThreadType DEF Th
        <5>2. Len(Th.ci) \in 1..Len(Th.ci)
          BY <1>1, Runs
        <5> QED BY <5>1, <5>2, NonEmpty
      <4> QED BY <1>1, <1>4, <4>1, <4>2 DEF Waits, Th
    <3>2. CASE i # n + 1
      <4>1. i \in 2..n /\ i - 1 \in 1..n /\ i \in 1..n
        BY <1>4, <3>2
      <4>2. Same(cstack[i], cstack'[i]) /\ Same(cstack[i - 1], cstack'[i - 1])
        BY <1>14, <4>1 DEF Same
      <4>3. threads[cstack[i - 1].th].status # "free" /\ threads'[cstack[i].th].status # "free"
        <5>1. Exists(cstack[i - 1].th) /\ Exists(cstack[i].th) /\ cstack[i].th \in Threads
          BY <1>4, <4>1
        <5> QED BY <1>8, <1>15, <4>1, <5>1 DEF Exists
      <4>4. Waits(cstack, threads, i)
        BY <4>1 DEF IInv, Waiting
      <4>5. i \in 2..Len(cstack') /\ i <= Len(cstack)
        BY <1>14, <4>1
      <4>6. Still(threads, threads', cstack[i - 1].th)
        BY <1>4, <1>8, <1>15, <4>1, Unchanged
      <4> QED BY <1>2, <1>14, <1>16, <4>2, <4>3, <4>4, <4>5, <4>6, WaitStays
    <3> QED BY <3>1, <3>2
  <2> QED BY <1>14, <2>1, Zenon DEF Waiting
<1> QED BY <1>17, <1>18, <1>19, <1>21, <1>22, <1>23, Zenon DEF IInv

\* What a thread that is not collected refers to is not collected.
LEMMA ReachClosed ==
  /\ {Main, L} \subseteq Threads => {Main, L} \subseteq Reach
  /\ \A th \in Reach : Args(th) \intersect Threads \subseteq Reach
<1>1. {Main, L} \subseteq Threads => {Main, L} \subseteq Reach
  BY DEF Reach, Closed
<1>2. ASSUME NEW th \in Reach, NEW x \in Args(th) \intersect Threads
      PROVE  x \in Reach
  <2>1. ASSUME NEW S \in SUBSET Threads, Closed(S) PROVE x \in S
    <3>1. th \in S
      BY <2>1 DEF Reach
    <3> QED BY <2>1, <3>1 DEF Closed
  <2> QED BY <2>1 DEF Reach
<1> QED BY <1>1, <1>2

LEMMA CollectStep ==
  ASSUME IInv, ~Broken, Collect
  PROVE  IInv'
<1> DEFINE n == Len(cstack)
<1>1. /\ Running /\ cstack # <<>>
      /\ threads' = [th \in Threads |-> IF th \in Garbage THEN Absent ELSE threads[th]]
      /\ prog' = prog /\ cstack' = cstack /\ raising' = raising /\ globals' = globals /\ exited' = exited
  BY DEF Collect, Running
<1>2. /\ TypeOK /\ prog \in Programs /\ Sizes /\ threads \in [Threads -> Thread] /\ cstack \in Seq(Activations)
      /\ L \in Threads /\ Main \in Threads
  BY Runner, CallsAssumption DEF IInv, Types, TypeOK
<1>3. /\ \A th \in Garbage : threads'[th] = Absent
      /\ \A th \in Threads : th \notin Garbage => threads'[th] = threads[th]
      /\ \A th \in Threads : th \notin Garbage /\ Exists(th) => th \in Reach
  BY <1>1, <1>2 DEF Garbage
<1>4. Main \notin Garbage
  BY <1>2, ReachClosed DEF Garbage
<1>5. Absent.status = "free"
  BY DEF Absent
<1>6. threads' \in [Threads -> Thread]
  BY <1>1, <1>2, Fresh, Zenon
<1>7. Types'
  BY <1>1, <1>2, <1>6 DEF Types, TypeOK
<1>8. Sizes'
  <2>1. \A th \in Threads : threads'[th] \in {Absent, threads[th]}
    BY <1>1
  <2>2. \A th \in Threads : /\ Len(threads'[th].ci) < threads'[th].size_ci /\ 1 < threads'[th].size_ci
                            /\ threads'[th].size_ci <= 2 * LUAI_MAXCALLS
    BY <1>2, <2>1, Fresh, Zenon DEF Sizes
  <2> QED BY <2>2, Zenon DEF Sizes
<1>9. L' = L
  BY <1>1 DEF L
<1>10. ASSUME NEW th \in Threads PROVE CurrentOf(th)' /\ StatusOf(th)'
  <2>1. CurrentOf(th) /\ StatusOf(th)
    BY DEF IInv
  <2>2. CASE th \in Garbage
    <3>1. threads'[th].status = "free" /\ th # Main
      BY <1>3, <1>4, <1>5, <2>2
    <3> QED BY <3>1, Zenon DEF CurrentOf, StatusOf, Exists
  <2>3. CASE th \notin Garbage
    <3>1. threads'[th] = threads[th]
      BY <1>3, <2>3
    <3>2. CurrentOf(th)'
      BY <1>1, <1>9, <2>1, <3>1 DEF CurrentOf, Exists
    <3>3. StatusOf(th)'
      BY <1>1, <2>1, <3>1 DEF StatusOf, Exists, On
    <3> QED BY <3>2, <3>3
  <2> QED BY <2>2, <2>3
<1>11. \A th \in Threads : threads'[th].status # "free" => threads'[th] = threads[th]
  BY <1>3, <1>5
<1>12. \A i \in 1..n : cstack[i].th \in Threads /\ Exists(cstack[i].th)
  BY <1>1, Now
<1>13. Frames'
  <2>1. ASSUME NEW i \in 1..n, threads'[cstack[i].th].status # "free"
        PROVE  FrameOK(cstack', threads', i, raising' # "no" \/ exited')
    <3>1. FrameOK(cstack, threads, i, raising # "no" \/ exited)
      BY <1>1, Now
    <3>2. threads'[cstack[i].th] = threads[cstack[i].th]
      BY <1>11, <1>12, <2>1
    <3> QED BY <1>1, <3>1, <3>2 DEF FrameOK, End
  <2> QED BY <1>1, <2>1, Zenon DEF Frames, Exists
<1>14. Waiting'
  <2>1. ASSUME NEW i \in 2..n PROVE Waits(cstack', threads', i)
    <3> DEFINE r == cstack[i - 1].th
               ci == threads[r].ci
    <3>1. i - 1 \in 1..n /\ i \in 1..n
      OBVIOUS
    <3>2. SUFFICES ASSUME cstack[i].kind = "resume", threads'[r].status # "free"
                   PROVE  /\ threads'[r].ci # <<>> /\ Top(threads'[r].ci).fn = "C"
                          /\ Top(threads'[r].ci).arg \in {cstack[i].th, None}
                          /\ threads'[cstack[i].th].status # "free" \/ Top(threads'[r].ci).arg = None
      BY <1>1 DEF Waits
    <3>3. /\ threads'[r] = threads[r] /\ r \in Threads /\ Exists(r) /\ r \notin Garbage
          /\ cstack[i].th \in Threads /\ Exists(cstack[i].th)
      BY <1>3, <1>5, <1>11, <1>12, <3>1, <3>2
    <3>4. ci # <<>> /\ Top(ci).fn = "C" /\ Top(ci).arg \in {cstack[i].th, None}
      BY <3>2, <3>3 DEF IInv, Waiting, Waits, Exists
    <3>5. ASSUME Top(ci).arg # None PROVE cstack[i].th \notin Garbage
      <4>1. Top(ci).arg = cstack[i].th
        BY <3>4, <3>5
      <4>2. ci \in Seq(Frame)
        BY <1>2, <3>3, ThreadType
      <4>3. Len(ci) \in DOMAIN ci /\ Top(ci) = ci[Len(ci)]
        <5>1. Len(ci) \in 1..Len(ci)
          BY <3>4, <4>2, NonEmpty
        <5> QED BY <4>2, <5>1 DEF Top
      <4>4. cstack[i].th \in Args(r)
        BY <3>5, <4>1, <4>3 DEF Args
      <4>5. r \in Reach
        BY <1>3, <3>3
      <4>6. cstack[i].th \in Reach
        BY <3>3, <4>4, <4>5, ReachClosed
      <4> QED BY <4>6 DEF Garbage
    <3> QED BY <1>3, <3>3, <3>4, <3>5 DEF Exists
  <2> QED BY <1>1, <2>1, Zenon DEF Waiting
<1> QED BY <1>1, <1>2, <1>7, <1>8, <1>10, <1>13, <1>14, Zenon DEF IInv

-----------------------------------------------------------------------------
(* The invariant. *)

\* It is true at the start.
LEMMA Initially == Init => IInv
<1> SUFFICES ASSUME Init PROVE IInv
  OBVIOUS
<1>1. /\ prog \in Programs /\ cstack = <<>> /\ raising = "no" /\ globals = {} /\ exited = FALSE
      /\ threads = [th \in Threads |-> IF th = Main THEN [Absent EXCEPT !.status = "ok"] ELSE Absent]
  BY DEF Init
<1>2. Len(cstack) = 0 /\ cstack \in Seq(Activations) /\ Main \in Threads
  BY <1>1, CallsAssumption
<1> DEFINE m == [Absent EXCEPT !.status = "ok"]
<1>3. /\ Absent.status = "free" /\ Absent.ci = <<>> /\ Absent.body = FALSE
      /\ m \in Thread /\ m.status = "ok" /\ m.ci = <<>> /\ m.body = FALSE /\ m.nCcalls = 0
      /\ m.errfunc = FALSE /\ m.jmp = 0 /\ m.size_ci = Absent.size_ci
  BY Fresh DEF Absent, Thread
<1> HIDE DEF m
<1>4. threads \in [Threads -> Thread] /\ \A th \in Threads : threads[th] = IF th = Main THEN m ELSE Absent
  BY <1>1, <1>3, Fresh DEF m
<1>5. Types
  BY <1>1, <1>2, <1>4 DEF Types, TypeOK
<1>6. Sizes
  <2>1. Len(m.ci) < m.size_ci /\ 1 < m.size_ci /\ m.size_ci <= 2 * LUAI_MAXCALLS
    BY <1>3, Fresh
  <2> QED BY <1>4, <2>1, Fresh DEF Sizes
<1>7. Shape(cstack) /\ Saved(cstack) /\ Levels(cstack) /\ Frames /\ Waiting
  BY <1>2 DEF Shape, Saved, Levels, Frames, Waiting
<1>8. ASSUME NEW th \in Threads PROVE CurrentOf(th) /\ StatusOf(th)
  <2>1. Kept(cstack, th, Len(cstack) + 1, 0, 0, FALSE)
    <3>1. \A i \in 1..Len(cstack) : cstack[i].th # th
      BY <1>2
    <3> QED BY <1>2, <3>1, KeptOff
  <2>2. 0 < Most /\ 0 # Most /\ 0 <= Most
    BY CallsAssumption DEF Most
  <2>3. CASE th = Main
    <3>1. threads[th] = m
      BY <1>4, <2>3
    <3>2. CurrentOf(th)
      BY <1>3, <2>1, <2>2, <3>1, Zenon DEF CurrentOf, Kept
    <3>3. StatusOf(th)
      BY <1>3, <3>1 DEF StatusOf
    <3> QED BY <3>2, <3>3
  <2>4. CASE th # Main
    <3>1. threads[th].status = "free"
      BY <1>3, <1>4, <2>4
    <3> QED BY <2>4, <3>1 DEF CurrentOf, StatusOf, Exists
  <2> QED BY <2>3, <2>4
<1> QED BY <1>5, <1>6, <1>7, <1>8 DEF IInv

LEMMA Arguments ==
  ASSUME TypeOK
  PROVE  Lua \in Frame /\ C(None) \in Frame /\ Functions \subseteq Frame
         /\ \A co \in Coroutines : C(co) \in Frame
<1>1. Lua \in Frame /\ C(None) \in Frame /\ \A co \in Coroutines : C(co) \in Frame
  BY DEF Lua, C, Frame
<1> QED BY <1>1 DEF Functions, TypeOK

\* Each operation keeps it.
LEMMA Step == IInv /\ [Next]_vars => IInv'
<1> SUFFICES ASSUME IInv, [Next]_vars PROVE IInv'
  OBVIOUS
<1>1. CASE UNCHANGED vars
  BY <1>1 DEF vars, IInv, Types, TypeOK, Sizes, CurrentOf, StatusOf, Frames, Waiting, On, Exists, L
<1>2. CASE Next
  <2>1. ~Broken
    BY <1>2 DEF Next
  <2>2. TypeOK /\ prog.made \subseteq Coroutines /\ (cstack = <<>> => raising = "no")
    BY CallsAssumption DEF IInv, Types, Coroutines
  <2>3. /\ Lua \in Frame /\ C(None) \in Frame /\ Functions \subseteq Frame
        /\ \A co \in Coroutines : C(co) \in Frame
    BY <2>2, Arguments
  <2>4. TRUE \in BOOLEAN /\ FALSE \in BOOLEAN /\ "call" \in Calling /\ "pcall" \in Calling /\ "handler" \in Calling
    BY DEF Calling
  <2>5. ASSUME NEW k \in {"call", "pcall"}, HostCall(k) PROVE IInv'
    <3>1. cstack = <<>> /\ ~exited /\ luaD_call(k, Lua, FALSE) /\ raising # "err" /\ k \in Calling
      BY <2>2, <2>5 DEF HostCall, Calling
    <3> QED BY <2>1, <2>3, <2>4, <3>1, CallStep
  <2>6. ASSUME OpCall(Lua, {}) PROVE IInv'
    BY <2>1, <2>3, <2>6, OpCallStep
  <2>7. ASSUME TailCall PROVE IInv'
    BY <2>1, <2>7, TailCallStep
  <2>8. ASSUME NEW f \in Functions \ {Lua}, OpCall(f, {}) PROVE IInv'
    BY <2>1, <2>3, <2>8, OpCallStep
  <2>9. ASSUME NEW co \in prog.made, ~Exists(co), OpCall(C(co), {co}) PROVE IInv'
    BY <2>1, <2>2, <2>3, <2>9, OpCallStep
  <2>10. ASSUME NEW k \in {"call", "pcall"}, NEW f \in Frame, NEW h \in BOOLEAN, Running, luaD_call(k, f, h)
         PROVE  IInv'
    <3>1. ~exited /\ raising = "no" /\ raising # "err" /\ k \in Calling
      BY <2>10 DEF Running, Calling
    <3> QED BY <2>1, <2>10, <3>1, CallStep
  <2>11. ASSUME InLua, luaD_call("call", Lua, FALSE) PROVE IInv'
    BY <2>3, <2>10, <2>11 DEF InLua
  <2>12. ASSUME InC, NEW f \in Functions, luaD_call("call", f, FALSE) PROVE IInv'
    BY <2>3, <2>10, <2>12 DEF InC
  <2>13. ASSUME InC, NEW f \in Functions, NEW h \in BOOLEAN, luaD_call("pcall", f, h) PROVE IInv'
    BY <2>3, <2>10, <2>13 DEF InC
  <2>14. ASSUME Error PROVE IInv'
    BY <2>1, <2>14, ErrorStep
  <2>15. ASSUME luaG_errormsg PROVE IInv'
    <3>1. raising = "run" /\ ~exited /\ cstack # <<>> /\ raising # "err"
      BY <2>2, <2>15 DEF luaG_errormsg
    <3>2. ASSUME NEW f \in {Lua, C(None)}, luaD_call("handler", f, FALSE) PROVE IInv'
      BY <2>1, <2>3, <2>4, <3>1, <3>2, CallStep
    <3>3. ASSUME luaD_throw PROVE IInv'
      BY <2>1, <3>1, <3>3, ThrowStep
    <3> QED BY <2>15, <3>2, <3>3 DEF luaG_errormsg
  <2>16. ASSUME Throw PROVE IInv'
    <3>1. ~exited /\ cstack # <<>> /\ luaD_throw
      BY <2>2, <2>16 DEF Throw
    <3> QED BY <2>1, <3>1, ThrowStep
  <2>17. ASSUME Return PROVE IInv'
    BY <2>1, <2>17, ReturnStep
  <2>18. ASSUME Yield PROVE IInv'
    BY <2>1, <2>18, YieldStep
  <2>19. ASSUME Collect PROVE IInv'
    BY <2>1, <2>19, CollectStep
  <2>20. ASSUME NEW co \in prog.made, Create(co) \/ Forget(co) \/ Refuse(co) \/ Resume(co) PROVE IInv'
    <3>1. co \in Coroutines
      BY <2>2
    <3> QED BY <2>1, <2>20, <3>1, CreateStep, ForgetStep, RefuseStep, ResumeStep
  <2> QED BY <1>2, <2>4, <2>5, <2>6, <2>7, <2>8, <2>9, <2>11, <2>12, <2>13, <2>14, <2>15, <2>16, <2>17,
             <2>18, <2>19, <2>20, Zenon DEF Next
<1> QED BY <1>1, <1>2

LEMMA Invariant == Spec => []IInv
BY Initially, Step, PTL DEF Spec


-----------------------------------------------------------------------------
(* The properties. *)

LEMMA OfBelow ==
  ASSUME TypeOK, NEW th, NEW kinds
  PROVE  Of(th, kinds) = Below(cstack, th, Len(cstack) + 1, kinds)
<1>1. DOMAIN cstack = 1..Len(cstack) /\ Len(cstack) \in Nat
  BY DEF TypeOK
<1>2. 1..((Len(cstack) + 1) - 1) = 1..Len(cstack)
  BY <1>1
<1> QED BY <1>1, <1>2 DEF Of, Below

\* A thread with an activation has a last one.
LEMMA LastOwn ==
  ASSUME NEW n \in Nat, NEW S \in SUBSET (1..n), S # {}
  PROVE  \E j \in S : \A k \in S : k <= j
<1> DEFINE from(j) == {k \in S : j <= k}
           T == {from(j) : j \in S}
<1>1. IsFiniteSet(S)
  <2>1. IsFiniteSet(1..n)
    BY FS_Interval
  <2> QED BY <2>1, FS_Subset
<1>2. T \subseteq FiniteSubsetsOf(S) /\ T # {}
  <2>1. \A j \in S : from(j) \in SUBSET S /\ IsFiniteSet(from(j))
    BY <1>1, FS_Subset
  <2> QED BY <2>1 DEF FiniteSubsetsOf
<1>3. PICK x \in T : \A y \in T : ~ (<<y, x>> \in StrictSubsetOrdering(S))
  <2> HIDE DEF T
  <2> QED BY <1>2, FS_StrictSubsetOrderingWellFounded, WFMin
<1>4. PICK j \in S : x = from(j)
  OBVIOUS
<1>5. ASSUME NEW k \in S, j < k PROVE FALSE
  <2>1. from(k) \in T /\ from(k) \in SUBSET S /\ x \in SUBSET S
    BY <1>4
  <2>2. from(k) \subseteq x /\ from(k) # x
    <3>1. j \notin from(k) /\ j \in from(j)
      BY <1>5
    <3>2. ASSUME NEW m \in S, k <= m PROVE j <= m
      <4>1. m \in Nat /\ k \in Nat /\ j \in Nat
        OBVIOUS
      <4> QED BY <1>5, <3>2, <4>1
    <3>3. from(k) \subseteq from(j)
      BY <3>2
    <3> QED BY <1>4, <3>1, <3>3
  <2> QED BY <1>3, <2>1, <2>2 DEF StrictSubsetOrdering
<1> QED BY <1>5

\* A thread that has resumed another is in a C function.
LEMMA InFunction ==
  ASSUME IInv, NEW th \in Threads, th # L, Exists(th), On(th)
  PROVE  threads[th].ci # <<>>
<1> DEFINE n == Len(cstack)
           S == {i \in 1..n : cstack[i].th = th}
<1>1. cstack \in Seq(Activations) /\ n \in Nat /\ Shape(cstack)
  BY DEF IInv, Types, TypeOK
<1>2. S \in SUBSET (1..n) /\ S # {}
  BY DEF On
<1>3. PICK j \in S : \A k \in S : k <= j
  <2> HIDE DEF S
  <2> QED BY <1>1, <1>2, LastOwn
<1>4. j < n
  <2>1. cstack # <<>> => L = cstack[n].th
    BY <1>1 DEF L, Top
  <2>2. cstack # <<>>
    BY <1>1, <1>2, EmptySeq
  <2>3. j # n
    BY <2>1, <2>2
  <2> QED BY <1>1, <2>3
<1>5. j + 1 \in 2..n /\ (j + 1) - 1 = j /\ j + 1 \notin S /\ cstack[j + 1].th # th
  <2>1. j + 1 \in 1..n /\ j + 1 \in 2..n
    BY <1>1, <1>4
  <2>2. j + 1 \notin S
    BY <1>1, <1>3
  <2> QED BY <2>1, <2>2
<1>6. cstack[j + 1].kind = "resume"
  BY <1>1, <1>4, <1>5, Above
<1>7. Waits(cstack, threads, j + 1)
  BY <1>5 DEF IInv, Waiting
<1> QED BY <1>5, <1>6, <1>7 DEF Waits, Exists

LEMMA Counts == IInv => CallsCounted
<1> SUFFICES ASSUME IInv, NEW th \in Threads, threads[th].status \in {"ok", "yield"}
             PROVE  /\ threads[th].nCcalls = Cardinality(Of(th, {"call", "pcall", "handler"}))
                    /\ threads[th].nCcalls <= LUAI_MAXCCALLS + ExtraCCalls
                    /\ L # th /\ (threads[th].status = "yield" \/ threads[th].ci = <<>>) => ~threads[th].errfunc
  BY DEF CallsCounted
<1>1. /\ TypeOK /\ CurrentOf(th) /\ StatusOf(th) /\ Len(cstack) \in Nat
      /\ threads[th].errfunc \in BOOLEAN
  BY ThreadType DEF IInv, Types, TypeOK
<1>2. /\ Kept(cstack, th, Len(cstack) + 1, threads[th].nCcalls, threads[th].jmp, threads[th].errfunc)
      /\ threads[th].nCcalls <= Most
  BY <1>1 DEF CurrentOf
<1>3. Of(th, Calling) = Below(cstack, th, Len(cstack) + 1, Calling)
  BY <1>1, OfBelow
<1>4. ASSUME L # th, threads[th].status = "yield" \/ threads[th].ci = <<>>, threads[th].errfunc
      PROVE  FALSE
  <2>1. PICK i \in Below(cstack, th, Len(cstack) + 1, {"pcall"}) : TRUE
    BY <1>2, <1>4 DEF Kept
  <2>2. On(th)
    <3>1. i \in 1..Len(cstack) /\ cstack[i].th = th
      BY <1>1, <2>1 DEF Below
    <3> QED BY <3>1 DEF On
  <2>3. Exists(th)
    BY DEF Exists
  <2>4. threads[th].status = "ok"
    BY <1>1, <2>2, <2>3 DEF StatusOf
  <2> QED BY <1>4, <2>2, <2>3, <2>4, InFunction
<1> QED BY <1>2, <1>3, <1>4 DEF Kept, Calling, Most

LEMMA Jumps == IInv => JmpSound
<1> SUFFICES ASSUME IInv, NEW th \in Threads, Exists(th)
             PROVE  LET own == Of(th, {"pcall", "resume"})
                    IN  /\ threads[th].jmp = IF own = {} THEN 0 ELSE CHOOSE i \in own : \A j \in own : j <= i
                        /\ th = L => \A i \in DOMAIN cstack : i > threads[th].jmp => cstack[i].th = th
  BY DEF JmpSound
<1> DEFINE own == Of(th, {"pcall", "resume"})
           j == threads[th].jmp
<1>1. TypeOK /\ CurrentOf(th) /\ Shape(cstack) /\ cstack \in Seq(Activations) /\ DOMAIN cstack = 1..Len(cstack)
  BY DEF IInv, Types, TypeOK
<1>2. Jump(cstack, th, Len(cstack) + 1, j)
  BY <1>1 DEF CurrentOf
<1>3. own = Below(cstack, th, Len(cstack) + 1, Guards)
  BY <1>1, OfBelow DEF Guards
<1>4. own \subseteq Nat
  BY <1>1 DEF Of
<1>5. j = IF own = {} THEN 0 ELSE CHOOSE i \in own : \A k \in own : k <= i
  <2>1. CASE own = {}
    BY <1>2, <1>3, <2>1 DEF Jump
  <2>2. CASE own # {}
    <3>1. j \in own /\ \A i \in own : i <= j
      BY <1>2, <1>3, <2>2 DEF Jump
    <3> DEFINE c == CHOOSE i \in own : \A k \in own : k <= i
    <3>2. c \in own /\ \A k \in own : k <= c
      BY <3>1
    <3> HIDE DEF c, own
    <3>3. c <= j /\ j <= c /\ c \in Nat /\ j \in Nat
      BY <1>4, <3>1, <3>2
    <3>4. c = j
      BY <3>3
    <3> QED BY <2>2, <3>4 DEF c
  <2> QED BY <2>1, <2>2
<1>6. ASSUME th = L, NEW i \in DOMAIN cstack, i > j PROVE cstack[i].th = th
  <2>1. cstack # <<>>
    BY <1>1, <1>6, EmptySeq
  <2>2. L = cstack[Len(cstack)].th
    BY <2>1 DEF L, Top
  <2> QED BY <1>1, <1>2, <1>6, <2>1, <2>2, Unwinds
<1> QED BY <1>5, <1>6

\* The state keeps the form of its variables.
THEOREM TypeCorrect == Spec => []TypeOK
<1>1. IInv => TypeOK
  BY DEF IInv, Types
<1> QED BY <1>1, Invariant, PTL

\* After any mix of returns, errors, handlers and yields, nCcalls is the number
\* of C calls of the thread, and within what is left for errors: what pcall and
\* lua_call() put back from the C stack is what was true there.
THEOREM CallsCorrect == Spec => []CallsCounted
BY Counts, Invariant, PTL

\* errorJmp is the last protected activation of the thread, so that longjmp()
\* goes to a frame that is still on the C stack, and passes no other thread's.
THEOREM JumpsCorrect == Spec => []JmpSound
BY Jumps, Invariant, PTL

\* inc_ci() and growCI() leave room for the next CallInfo, in a stack that is
\* never above twice LUAI_MAXCALLS.
THEOREM StacksBounded == Spec => []CallsBounded
<1>1. IInv => CallsBounded
  BY DEF IInv, Sizes, CallsBounded
<1> QED BY <1>1, Invariant, PTL

\* The collector frees no coroutine that runs, or has resumed one, but for those
\* above one that coroutine.resume() has emptied by trying to resume it.
THEOREM RunningKept == Spec => []KeptAlive
<1>1. ASSUME IInv, NEW i \in DOMAIN cstack, cstack[i].kind = "resume",
             ~Exists(cstack[i].th), Exists(cstack[i - 1].th)
      PROVE  Top(threads[cstack[i - 1].th].ci).arg = None
  <2>1. cstack \in Seq(Activations) /\ Shape(cstack) /\ DOMAIN cstack = 1..Len(cstack) /\ i \in 1..Len(cstack)
    BY <1>1 DEF IInv, Types, TypeOK
  <2>2. i # 1
    BY <1>1, <2>1 DEF Shape
  <2>3. i \in 2..Len(cstack)
    BY <2>1, <2>2
  <2> QED BY <1>1, <2>3 DEF IInv, Waiting, Waits, Exists
<1>2. IInv => KeptAlive
  BY <1>1 DEF KeptAlive
<1> QED BY <1>2, Invariant, PTL

\* The Lua functions of a thread with activations are those they are to return
\* from: each is above the bottom of the last activation it is not below.
LEMMA RunsMatch ==
  ASSUME IInv, NEW th \in Threads, On(th), Exists(th)
  PROVE  LET ci == threads[th].ci
             luas == {i \in DOMAIN ci : ci[i].fn = "lua"}
             runs == UNION {{<<i, n>> : n \in 1..cstack[i].nexec} : i \in Of(th, {"call", "pcall", "handler", "resume"})}
         IN  Cardinality(luas) = Cardinality(runs)
<1> DEFINE s == cstack
           ci == threads[th].ci
           luas == {i \in DOMAIN ci : ci[i].fn = "lua"}
           own == Of(th, {"call", "pcall", "handler", "resume"})
           runs == UNION {{<<i, n>> : n \in 1..cstack[i].nexec} : i \in own}
           base(i) == Base(s[i])
           end(i) == End(s, threads, i)
<1>1. /\ TypeOK /\ s \in Seq(Activations) /\ DOMAIN s = 1..Len(s) /\ Len(s) \in Nat
      /\ Shape(s) /\ Levels(s) /\ threads \in [Threads -> Thread]
  BY DEF IInv, Types, TypeOK
<1>2. ci \in Seq(Frame) /\ Len(ci) \in Nat /\ DOMAIN ci = 1..Len(ci)
  BY <1>1, ThreadType
<1>3. \A i \in 1..Len(s) : /\ s[i].kind \in {"call", "pcall", "handler", "resume"} /\ s[i].nexec \in Nat
                           /\ s[i].level \in Nat /\ base(i) \in Nat
  BY <1>1, ActType DEF Base
<1>4. own = {i \in 1..Len(s) : s[i].th = th}
  BY <1>1, <1>3 DEF Of
<1>5. \A i \in own : /\ Run(ci, base(i), s[i].nexec, end(i)) /\ end(i) \in Nat
                     /\ i < Len(s) /\ s[i + 1].kind # "resume" => end(i) = base(i + 1)
                     /\ ~(i < Len(s) /\ s[i + 1].kind # "resume") => end(i) = Len(ci)
  <2> SUFFICES ASSUME NEW i \in own
               PROVE  /\ Run(ci, base(i), s[i].nexec, end(i)) /\ end(i) \in Nat
                      /\ i < Len(s) /\ s[i + 1].kind # "resume" => end(i) = base(i + 1)
                      /\ ~(i < Len(s) /\ s[i + 1].kind # "resume") => end(i) = Len(ci)
    OBVIOUS
  <2>1. i \in 1..Len(s) /\ s[i].th = th
    BY <1>4
  <2>2. Run(ci, base(i), s[i].nexec, end(i))
    BY <2>1 DEF IInv, Frames, FrameOK
  <2>3. i < Len(s) /\ s[i + 1].kind # "resume" => i + 1 \in 1..Len(s) /\ end(i) = base(i + 1)
    BY <1>1, <2>1 DEF End, Base
  <2>4. ~(i < Len(s) /\ s[i + 1].kind # "resume") => end(i) = Len(ci)
    BY <2>1 DEF End
  <2> QED BY <1>2, <1>3, <2>2, <2>3, <2>4
<1>6. ASSUME NEW i \in own, NEW k \in own, i < k PROVE end(i) <= base(k)
  <2>1. i \in 1..Len(s) /\ k \in 1..Len(s) /\ s[i].th = th /\ s[k].th = th
    BY <1>4
  <2>2. i + 1 \in 1..Len(s) /\ i + 1 <= k /\ i < Len(s) /\ k # 1
    BY <1>1, <1>6, <2>1
  <2>3. s[i + 1].th = th
    BY <1>1, <1>6, <2>1, <2>2 DEF Shape
  <2>4. s[k].kind # "resume" /\ s[i + 1].kind # "resume"
    <3>1. i \in 1..(k - 1) /\ i \in 1..((i + 1) - 1) /\ i + 1 # 1
      BY <1>6, <2>1
    <3>2. ASSUME NEW m \in 1..Len(s), m # 1, i \in 1..(m - 1), s[m].th = th PROVE s[m].kind # "resume"
      BY <1>1, <2>1, <3>2 DEF Shape
    <3> QED BY <2>1, <2>2, <2>3, <3>1, <3>2
  <2>5. base(i + 1) = s[i + 1].level /\ base(k) = s[k].level
    BY <2>4 DEF Base
  <2>6. s[i + 1].level <= s[k].level
    <3>1. CASE i + 1 = k
      BY <1>3, <2>1, <3>1
    <3>2. CASE i + 1 < k
      BY <1>1, <2>1, <2>2, <2>3, <2>4, <3>2 DEF Levels
    <3> QED BY <2>1, <2>2, <3>1, <3>2
  <2>7. end(i) = base(i + 1)
    BY <1>5, <2>2, <2>4
  <2> HIDE DEF base, end
  <2> QED BY <2>5, <2>6, <2>7
<1>7. \E i \in own : base(i) = 0
  <2>1. PICK i \in 1..Len(s) : s[i].th = th
    BY DEF On
  <2>2. CASE th # Main
    <3>1. PICK j \in 1..i : s[j].th = s[i].th /\ s[j].kind = "resume"
      BY <1>1, <2>1, <2>2 DEF Shape
    <3>2. j \in own
      BY <1>1, <1>4, <2>1, <3>1
    <3> QED BY <3>1, <3>2 DEF Base
  <2>3. CASE th = Main
    <3>1. 1 \in 1..Len(s)
      BY <1>1, <2>1
    <3>2. s[1].kind # "resume" /\ s[1].th = Main /\ s[1].level = 0
      BY <1>1, <3>1 DEF Shape, Levels
    <3> QED BY <1>4, <2>3, <3>1, <3>2 DEF Base
  <2> QED BY <2>2, <2>3
<1> HIDE DEF s, ci, own, base, end
<1>8. \A p \in runs : p[1] \in own /\ p[2] \in 1..s[p[1]].nexec /\ p = <<p[1], p[2]>>
  BY DEF s
<1>9. \A i \in own : \A n \in 1..s[i].nexec : <<i, n>> \in runs
  BY DEF s
<1>10. own \subseteq 1..Len(s)
  BY <1>4
<1> HIDE DEF runs
<1> DEFINE g == [p \in runs |-> base(p[1]) + p[2]]
<1>11. ASSUME NEW i \in own, NEW n \in 1..s[i].nexec
       PROVE  base(i) + n \in luas /\ base(i) < base(i) + n /\ base(i) + n <= end(i)
  <2>1. i \in 1..Len(s) /\ s[i].nexec \in Nat /\ base(i) \in Nat /\ end(i) \in Nat
    BY <1>3, <1>5, <1>10
  <2>2. Run(ci, base(i), s[i].nexec, end(i))
    BY <1>5
  <2>3. base(i) + s[i].nexec <= end(i) /\ end(i) <= Len(ci)
    BY <2>2 DEF Run
  <2>4. /\ base(i) + n \in (base(i) + 1)..end(i) /\ base(i) + n <= base(i) + s[i].nexec
        /\ base(i) + n \in 1..Len(ci) /\ base(i) < base(i) + n /\ base(i) + n <= end(i)
    BY <1>2, <2>1, <2>3
  <2>5. ci[base(i) + n].fn = "lua"
    BY <2>2, <2>4 DEF Run
  <2> QED BY <1>2, <2>4, <2>5 DEF ci
<1>12. g \in [runs -> luas]
  <2>1. \A p \in runs : base(p[1]) + p[2] \in luas
    BY <1>8, <1>11
  <2> HIDE DEF luas
  <2> QED BY <2>1
<1>13. ASSUME NEW p \in runs, NEW q \in runs, g[p] = g[q] PROVE p = q
  <2>1. p[1] \in own /\ p[2] \in 1..s[p[1]].nexec /\ q[1] \in own /\ q[2] \in 1..s[q[1]].nexec
    BY <1>8
  <2>2. /\ p[1] \in Nat /\ q[1] \in Nat
        /\ base(p[1]) \in Nat /\ base(q[1]) \in Nat /\ end(p[1]) \in Nat /\ end(q[1]) \in Nat
        /\ p[2] \in Nat /\ q[2] \in Nat
    <3>1. ASSUME NEW i \in own, NEW m \in 1..s[i].nexec
          PROVE  i \in Nat /\ base(i) \in Nat /\ end(i) \in Nat /\ m \in Nat
      <4>1. i \in 1..Len(s)
        BY <1>10
      <4>2. i \in Nat /\ s[i].nexec \in Nat
        BY <1>1, <1>3, <4>1
      <4> QED BY <1>3, <1>5, <4>1, <4>2
    <3> QED BY <2>1, <3>1
  <2>3. base(p[1]) + p[2] = base(q[1]) + q[2]
    BY <1>13
  <2>4. /\ base(p[1]) < base(p[1]) + p[2] /\ base(p[1]) + p[2] <= end(p[1])
        /\ base(q[1]) < base(q[1]) + q[2] /\ base(q[1]) + q[2] <= end(q[1])
    BY <1>11, <2>1
  <2>5. ~(p[1] < q[1])
    <3>1. p[1] < q[1] => end(p[1]) <= base(q[1])
      BY <1>6, <2>1
    <3> QED BY <2>2, <2>3, <2>4, <3>1
  <2>6. ~(q[1] < p[1])
    <3>1. q[1] < p[1] => end(q[1]) <= base(p[1])
      BY <1>6, <2>1
    <3> QED BY <2>2, <2>3, <2>4, <3>1
  <2>7. p[1] = q[1]
    BY <2>2, <2>5, <2>6
  <2>8. p[2] = q[2]
    BY <2>2, <2>3, <2>7
  <2> QED BY <1>8, <2>7, <2>8
<1>14. ASSUME NEW f \in luas PROVE \E p \in runs : g[p] = f
  <2> DEFINE S == {i \in own : base(i) < f}
  <2>1. f \in 1..Len(ci) /\ f \in Nat /\ ci[f].fn = "lua"
    BY <1>2 DEF ci
  <2>2. S \in SUBSET (1..Len(s)) /\ S # {}
    <3>1. 0 < f
      BY <1>2, <2>1
    <3> QED BY <1>7, <1>10, <3>1
  <2>3. PICK i \in S : \A k \in S : k <= i
    <3> HIDE DEF S
    <3> QED BY <1>1, <2>2, LastOwn
  <2>4. i \in own /\ base(i) < f /\ i \in 1..Len(s) /\ i \in Nat /\ base(i) \in Nat /\ end(i) \in Nat /\ s[i].nexec \in Nat
    BY <1>1, <1>3, <1>5, <1>10, <2>3
  <2>5. f <= end(i)
    <3>1. CASE i < Len(s) /\ s[i + 1].kind # "resume"
      <4>1. i + 1 \in 1..Len(s) /\ i + 1 # 1 /\ (i + 1) - 1 = i /\ ~(i + 1 <= i)
        BY <1>1, <2>4, <3>1
      <4>2. s[i + 1].th = s[i].th
        BY <1>1, <3>1, <4>1 DEF Shape
      <4>3. i + 1 \in own
        BY <1>4, <2>4, <4>1, <4>2
      <4>4. ~(base(i + 1) < f)
        BY <2>3, <4>1, <4>3
      <4> QED BY <1>3, <1>5, <2>1, <2>4, <3>1, <4>1, <4>4
    <3>2. CASE ~(i < Len(s) /\ s[i + 1].kind # "resume")
      <4>1. end(i) = Len(ci)
        BY <1>5, <2>4, <3>2
      <4> QED BY <2>1, <4>1
    <3> QED BY <3>1, <3>2
  <2>6. Run(ci, base(i), s[i].nexec, end(i))
    BY <1>5, <2>4
  <2>7. f \in (base(i) + 1)..end(i)
    BY <2>1, <2>4, <2>5
  <2>8. f <= base(i) + s[i].nexec
    BY <2>1, <2>6, <2>7 DEF Run
  <2>9. f - base(i) \in 1..s[i].nexec /\ base(i) + (f - base(i)) = f
    BY <2>1, <2>4, <2>8
  <2>10. <<i, f - base(i)>> \in runs
    BY <1>9, <2>4, <2>9
  <2> QED BY <2>9, <2>10
<1>15. Cardinality(luas) = Cardinality(runs)
  <2>1. IsFiniteSet(luas)
    <3>1. luas \in SUBSET (1..Len(ci)) /\ IsFiniteSet(1..Len(ci))
      BY <1>2, FS_Interval DEF ci
    <3> HIDE DEF luas
    <3> QED BY <3>1, FS_Subset
  <2> HIDE DEF luas, g
  <2>2. g \in Bijection(runs, luas)
    BY <1>12, <1>13, <1>14, Fun_IsBij
  <2>3. ExistsBijection(luas, runs)
    BY <2>2, Fun_ExistsBij, Fun_ExistsBijSymmetric
  <2> QED BY <2>1, <2>3, FS_Bijection
<1> QED BY <1>15 DEF runs, own, ci

LEMMA Execs == IInv => ExecSound
<1> SUFFICES ASSUME IInv, NEW th \in Threads, Exists(th), threads[th].status # "error"
             PROVE  LET ci == threads[th].ci
                        luas == {i \in DOMAIN ci : ci[i].fn = "lua"}
                        runs == UNION {{<<i, n>> : n \in 1..cstack[i].nexec} : i \in Of(th, {"call", "pcall", "handler", "resume"})}
                    IN  IF threads[th].status = "yield" THEN luas = 1..(Len(ci) - 1)
                        ELSE Cardinality(luas) = Cardinality(runs)
  BY DEF ExecSound
<1> DEFINE ci == threads[th].ci
           luas == {i \in DOMAIN ci : ci[i].fn = "lua"}
           own == Of(th, {"call", "pcall", "handler", "resume"})
           runs == UNION {{<<i, n>> : n \in 1..cstack[i].nexec} : i \in own}
<1>1. TypeOK /\ StatusOf(th) /\ ci \in Seq(Frame) /\ Len(ci) \in Nat /\ DOMAIN ci = 1..Len(ci)
  BY ThreadType DEF IInv, Types, TypeOK
<1>2. CASE threads[th].status = "yield"
  <2>1. Suspended(ci)
    BY <1>1, <1>2 DEF StatusOf
  <2>2. luas = 1..(Len(ci) - 1)
    <3> HIDE DEF ci
    <3>1. \A f \in 1..Len(ci) : ci[f].fn = "lua" <=> f \in 1..(Len(ci) - 1)
      BY <1>1, <2>1 DEF Suspended
    <3> QED BY <1>1, <3>1
  <2> QED BY <1>2, <2>2
<1>3. CASE threads[th].status # "yield" /\ On(th)
  BY <1>3, RunsMatch
<1>4. CASE threads[th].status # "yield" /\ ~On(th)
  <2>1. threads[th].status = "ok"
    BY <1>4, ThreadType DEF IInv, Types, TypeOK, Exists
  <2>2. ci = <<>>
    BY <1>1, <1>4, <2>1 DEF StatusOf
  <2>3. luas = {}
    BY <2>2
  <2>4. own = {}
    <3>1. DOMAIN cstack = 1..Len(cstack)
      BY <1>1 DEF TypeOK
    <3> QED BY <1>4, <3>1 DEF On, Of
  <2>5. runs = {}
    BY <2>4
  <2> QED BY <1>4, <2>3, <2>5
<1> QED BY <1>2, <1>3, <1>4

\* Every Lua function on the stack of a thread is one that a luaV_execute() of it
\* is to return from, after errors, yields and resumptions too; and a thread that
\* has yielded is in Lua functions only, below the function that yielded, so that
\* lua_resume() may go on with all of them in one luaV_execute().
THEOREM ExecsCorrect == Spec => []ExecSound
BY Execs, Invariant, PTL

-----------------------------------------------------------------------------
(*************************************************************************)
(* Calls implements CoroutineChain. A coroutine is in the chain while it *)
(* has an activation on the C stack; an operation that leaves the        *)
(* lua_resume()s there as they were is a stutter, and a return, an error *)
(* or a yield takes the last one away.                                   *)
(*************************************************************************)
\* The chain of any C stack.
ResumedOf(s)  == {i \in DOMAIN s : s[i].kind = "resume"}
UpTo(s, i)    == {j \in ResumedOf(s) : j <= i}
NthOf(s, n)   == CHOOSE co \in Coroutines :
                   \E i \in ResumedOf(s) : s[i].th = co /\ Cardinality(UpTo(s, i)) = n
OrderOf(s)    == [n \in 1..Cardinality(ResumedOf(s)) |-> NthOf(s, n)]
ChainOf(s)    == IF s = <<>> THEN <<>> ELSE <<Main>> \o OrderOf(s)

LEMMA ChainIs == Chained = ChainOf(cstack) /\ Chained' = ChainOf(cstack')
<1>1. Resumed = ResumedOf(cstack) /\ Resumed' = ResumedOf(cstack')
  BY DEF Resumed, ResumedOf
<1>2. \A n : Nth(n) = NthOf(cstack, n) /\ Nth(n)' = NthOf(cstack', n)
  BY <1>1 DEF Nth, NthOf, UpTo
<1> QED BY <1>1, <1>2 DEF Chained, ChainOf, OrderOf

-----------------------------------------------------------------------------
(* Stacks. *)

LEMMA ResumedFinite ==
  ASSUME NEW s \in Seq(Activations)
  PROVE  /\ ResumedOf(s) = {i \in 1..Len(s) : s[i].kind = "resume"}
         /\ ResumedOf(s) \subseteq Nat
         /\ IsFiniteSet(ResumedOf(s)) /\ Cardinality(ResumedOf(s)) \in Nat
         /\ \A i : /\ IsFiniteSet(UpTo(s, i)) /\ Cardinality(UpTo(s, i)) \in Nat
                   /\ Cardinality(UpTo(s, i)) <= Cardinality(ResumedOf(s))
<1>1. ResumedOf(s) = {i \in 1..Len(s) : s[i].kind = "resume"}
  BY DEF ResumedOf
<1>2. ResumedOf(s) \in SUBSET (1..Len(s)) /\ IsFiniteSet(1..Len(s))
  BY <1>1, FS_Interval
<1>3. IsFiniteSet(ResumedOf(s))
  BY <1>2, FS_Subset
<1>4. \A i : UpTo(s, i) \in SUBSET ResumedOf(s)
  BY DEF UpTo
<1>5. \A i : IsFiniteSet(UpTo(s, i)) /\ Cardinality(UpTo(s, i)) <= Cardinality(ResumedOf(s))
  BY <1>3, <1>4, FS_Subset
<1> QED BY <1>1, <1>2, <1>3, <1>5, FS_CardinalityType

\* Only the lua_resume()s matter.
LEMMA SameOrder ==
  ASSUME NEW s, NEW t, ResumedOf(t) = ResumedOf(s), \A i \in ResumedOf(s) : t[i].th = s[i].th
  PROVE  OrderOf(t) = OrderOf(s)
<1>1. \A i : UpTo(t, i) = UpTo(s, i)
  BY DEF UpTo
<1>2. ASSUME NEW n PROVE NthOf(t, n) = NthOf(s, n)
  <2>1. \A co : (\E i \in ResumedOf(t) : t[i].th = co /\ Cardinality(UpTo(t, i)) = n)
            <=> (\E i \in ResumedOf(s) : s[i].th = co /\ Cardinality(UpTo(s, i)) = n)
    BY <1>1
  <2> QED BY <2>1 DEF NthOf
<1> QED BY <1>2 DEF OrderOf

\* One more at the end.
LEMMA NextOrder ==
  ASSUME NEW s \in Seq(Activations), NEW t \in Seq(Activations), NEW k \in Nat,
         NEW co \in Coroutines,
         ResumedOf(t) = ResumedOf(s) \union {k}, t[k].th = co,
         \A i \in ResumedOf(s) : i < k /\ t[i].th = s[i].th
  PROVE  OrderOf(t) = Append(OrderOf(s), co)
<1> DEFINE c == Cardinality(ResumedOf(s))
<1>1. c \in Nat /\ ResumedOf(s) \subseteq Nat /\ k \notin ResumedOf(s)
  BY ResumedFinite
<1>2. Cardinality(ResumedOf(t)) = c + 1
  BY <1>1, ResumedFinite, FS_AddElement
<1>3. ASSUME NEW i \in ResumedOf(s) PROVE UpTo(t, i) = UpTo(s, i)
  <2>1. i < k /\ i \in Nat /\ ~(k <= i)
    BY <1>1, <1>3
  <2> QED BY <2>1 DEF UpTo
<1>4. UpTo(t, k) = ResumedOf(t)
  BY <1>1 DEF UpTo
<1>5. ASSUME NEW n \in 1..c PROVE NthOf(t, n) = NthOf(s, n)
  <2>1. n # c + 1
    BY <1>1
  <2>2. \A x : (\E i \in ResumedOf(t) : t[i].th = x /\ Cardinality(UpTo(t, i)) = n)
           <=> (\E i \in ResumedOf(s) : s[i].th = x /\ Cardinality(UpTo(s, i)) = n)
    BY <1>2, <1>3, <1>4, <2>1
  <2> QED BY <2>2 DEF NthOf
<1>6. NthOf(t, c + 1) = co
  <2>1. \A i \in ResumedOf(s) : Cardinality(UpTo(t, i)) # c + 1
    <3>1. ASSUME NEW i \in ResumedOf(s) PROVE Cardinality(UpTo(t, i)) # c + 1
      <4>1. Cardinality(UpTo(s, i)) <= c /\ Cardinality(UpTo(s, i)) \in Nat
        BY ResumedFinite
      <4> QED BY <1>1, <1>3, <4>1
    <3> QED BY <3>1
  <2>2. \A x : (\E i \in ResumedOf(t) : t[i].th = x /\ Cardinality(UpTo(t, i)) = c + 1) <=> x = co
    BY <1>2, <1>4, <2>1
  <2> HIDE DEF c
  <2> QED BY <2>2 DEF NthOf
<1> HIDE DEF c
<1>7. OrderOf(s) = [n \in 1..c |-> NthOf(s, n)] /\ OrderOf(t) = [n \in 1..(c + 1) |-> NthOf(t, n)]
  BY <1>2 DEF OrderOf, c
<1>8. Len(OrderOf(s)) = c
  BY <1>1, <1>7
<1>9. Append(OrderOf(s), co) = [n \in 1..(c + 1) |-> IF n = c + 1 THEN co ELSE NthOf(s, n)]
  <2> DEFINE S == {NthOf(s, n) : n \in 1..c} \union {co}
             a == Append(OrderOf(s), co)
  <2>1. OrderOf(s) \in Seq(S) /\ co \in S
    BY <1>1, <1>7
  <2>2. /\ a \in Seq(S) /\ Len(a) = c + 1 /\ a[c + 1] = co
        /\ \A n \in 1..c : a[n] = OrderOf(s)[n]
    <3> HIDE DEF S
    <3> QED BY <1>8, <2>1, AppendProperties
  <2>3. \A n \in 1..c : a[n] = NthOf(s, n)
    BY <1>7, <2>2
  <2>4. a = [n \in 1..(c + 1) |-> a[n]]
    <3> HIDE DEF a, S
    <3>1. a \in [1..(c + 1) -> S]
      BY <2>2, LenProperties
    <3> QED BY <3>1
  <2>5. \A n \in 1..(c + 1) : a[n] = IF n = c + 1 THEN co ELSE NthOf(s, n)
    <3> HIDE DEF a
    <3>1. \A n \in 1..(c + 1) : n = c + 1 \/ (n \in 1..c /\ n # c + 1)
      BY <1>1
    <3> QED BY <2>2, <2>3, <3>1
  <2> HIDE DEF a
  <2> QED BY <2>4, <2>5 DEF a
<1>10. \A n \in 1..(c + 1) : NthOf(t, n) = IF n = c + 1 THEN co ELSE NthOf(s, n)
  <2>1. \A n \in 1..(c + 1) : n = c + 1 \/ (n \in 1..c /\ n # c + 1)
    BY <1>1
  <2> QED BY <1>5, <1>6, <2>1
<1> QED BY <1>7, <1>9, <1>10

LEMMA Extended ==
  ASSUME NEW s \in Seq(Activations), NEW t \in Seq(Activations), Like(t, s), s # <<>>,
         \A i \in (Len(s) + 1)..Len(t) : t[i].kind # "resume"
  PROVE  ChainOf(t) = ChainOf(s)
<1>1. ResumedOf(t) = ResumedOf(s) /\ \A i \in ResumedOf(s) : t[i].th = s[i].th
  <2>1. \A i \in 1..Len(s) : i \in 1..Len(t) /\ t[i].kind = s[i].kind /\ t[i].th = s[i].th
    BY DEF Like, Same
  <2>2. ResumedOf(s) = {i \in 1..Len(s) : s[i].kind = "resume"} /\ ResumedOf(t) = {i \in 1..Len(t) : t[i].kind = "resume"}
    BY ResumedFinite
  <2>3. \A i \in 1..Len(t) : i \in 1..Len(s) \/ i \in (Len(s) + 1)..Len(t)
    OBVIOUS
  <2> QED BY <2>1, <2>2, <2>3
<1>2. t # <<>>
  BY EmptySeq DEF Like
<1> QED BY <1>1, <1>2, SameOrder DEF ChainOf

LEMMA ExtendedBy ==
  ASSUME NEW s \in Seq(Activations), NEW t \in Seq(Activations), Like(t, s), s # <<>>,
         Len(s) < Len(t), NEW co \in Coroutines,
         t[Len(s) + 1].kind = "resume", t[Len(s) + 1].th = co,
         \A i \in (Len(s) + 2)..Len(t) : t[i].kind # "resume"
  PROVE  /\ ChainOf(t) = Append(ChainOf(s), co) /\ ChainOf(s) # <<>>
         /\ Len(ChainOf(t)) > 1 /\ ChainOf(t)[Len(ChainOf(t))] = co
         /\ SubSeq(ChainOf(t), 1, Len(ChainOf(t)) - 1) = ChainOf(s)
<1> DEFINE k == Len(s) + 1
           S == {NthOf(s, n) : n \in 1..Cardinality(ResumedOf(s))} \union {Main, co}
           q == OrderOf(s)
           c == ChainOf(s)
<1>1. k \in Nat /\ k \in 1..Len(t) /\ \A i \in 1..Len(t) : i \in 1..Len(s) \/ i = k \/ i \in (Len(s) + 2)..Len(t)
  OBVIOUS
<1>2. /\ ResumedOf(t) = ResumedOf(s) \union {k} /\ t[k].th = co
      /\ \A i \in ResumedOf(s) : i < k /\ t[i].th = s[i].th
  <2>1. \A i \in 1..Len(s) : i \in 1..Len(t) /\ t[i].kind = s[i].kind /\ t[i].th = s[i].th /\ i < k
    BY DEF Like, Same
  <2>2. ResumedOf(s) = {i \in 1..Len(s) : s[i].kind = "resume"} /\ ResumedOf(t) = {i \in 1..Len(t) : t[i].kind = "resume"}
    BY ResumedFinite
  <2> QED BY <1>1, <2>1, <2>2
<1>3. OrderOf(t) = Append(q, co)
  <2> HIDE DEF k
  <2> QED BY <1>1, <1>2, NextOrder
<1>4. q \in Seq(S) /\ Main \in S /\ co \in S
  <2>1. Cardinality(ResumedOf(s)) \in Nat
    BY ResumedFinite
  <2> QED BY <2>1 DEF OrderOf
<1>5. c = <<Main>> \o q /\ ChainOf(t) = <<Main>> \o Append(q, co)
  <2>1. t # <<>>
    BY EmptySeq DEF Like
  <2> QED BY <1>3, <2>1 DEF ChainOf
<1> HIDE DEF S, q
<1>6. <<Main>> \in Seq(S) /\ Len(<<Main>>) = 1 /\ <<co>> \in Seq(S)
  BY <1>4
<1>7. ChainOf(t) = Append(c, co) /\ c \in Seq(S) /\ Len(c) = 1 + Len(q) /\ Len(q) \in Nat
  <2>1. c \in Seq(S) /\ Len(c) = 1 + Len(q) /\ Len(q) \in Nat
    BY <1>4, <1>5, <1>6, ConcatProperties
  <2>2. Append(q, co) = q \o <<co>> /\ Append(c, co) = c \o <<co>>
    <3> HIDE DEF c
    <3> QED BY <1>4, <2>1, AppendIsConcat
  <2>3. <<Main>> \o (q \o <<co>>) = (<<Main>> \o q) \o <<co>>
    BY <1>4, <1>6, ConcatAssociative
  <2> QED BY <1>5, <2>1, <2>2, <2>3
<1> HIDE DEF c
<1>8. /\ ChainOf(t) \in Seq(S) /\ Len(ChainOf(t)) = Len(c) + 1 /\ ChainOf(t)[Len(c) + 1] = co
      /\ \A i \in 1..Len(c) : ChainOf(t)[i] = c[i]
  BY <1>4, <1>7, AppendProperties
<1>9. SubSeq(ChainOf(t), 1, Len(c)) = c
  <2> DEFINE d == ChainOf(t)
             e == SubSeq(d, 1, Len(c))
  <2>1. Len(c) \in Nat /\ c \in [1..Len(c) -> S]
    BY <1>7, LenProperties
  <2>2. e = [i \in 1..Len(c) |-> d[i]]
    <3> HIDE DEF d
    <3>1. \A i \in 1..Len(c) : 1 + i - 1 = i
      BY <2>1
    <3> QED BY <1>8, <2>1, <3>1
  <2>3. \A i \in 1..Len(c) : d[i] = c[i]
    BY <1>8
  <2>4. e = [i \in 1..Len(c) |-> c[i]]
    <3> HIDE DEF d
    <3> QED BY <2>2, <2>3
  <2> HIDE DEF e
  <2>5. e = c
    BY <2>1, <2>4
  <2> QED BY <2>5 DEF e
<1>10. c # <<>>
  BY <1>7, EmptySeq
<1>11. Len(ChainOf(t)) > 1 /\ Len(ChainOf(t)) - 1 = Len(c)
  BY <1>7, <1>8
<1> QED BY <1>7, <1>8, <1>9, <1>10, <1>11 DEF c

-----------------------------------------------------------------------------
(* States. *)

\* What a coroutine is by its activations, and where it has none by itself.
StateOf(co) ==
  IF On(co) THEN "active"
  ELSE IF threads[co].status = "free" THEN "absent"
  ELSE IF threads[co].status = "yield" \/ (threads[co].status = "ok" /\ threads[co].body)
       THEN "suspended" ELSE "dead"

StatesOK == \A co \in Coroutines : State(co) = StateOf(co)

LEMMA StatesAre == IInv => StatesOK
<1> SUFFICES ASSUME IInv, NEW co \in Coroutines PROVE State(co) = StateOf(co)
  BY DEF StatesOK
<1>1. co \in Threads /\ co # Main /\ StatusOf(co) /\ DOMAIN cstack = 1..Len(cstack) /\ cstack \in Seq(Activations)
  BY DEF Coroutines, IInv, Types, TypeOK
<1>2. CASE On(co) /\ ~Exists(co)
  BY <1>1, <1>2 DEF State, StateOf, On
<1>3. CASE On(co) /\ Exists(co)
  <2>1. threads[co].status = "ok"
    BY <1>1, <1>3 DEF StatusOf
  <2>2. co # L => threads[co].ci # <<>>
    BY <1>1, <1>3, InFunction
  <2>3. costatus(co) \in {"running", "normal"}
    BY <2>1, <2>2 DEF costatus
  <2> QED BY <1>3, <2>3 DEF State, StateOf
<1>4. CASE ~On(co)
  <2>1. co # L
    <3>1. cstack # <<>> => L = cstack[Len(cstack)].th /\ Len(cstack) \in 1..Len(cstack)
      BY <1>1, EmptySeq DEF L, Top
    <3>2. cstack = <<>> => L = Main
      BY DEF L
    <3> QED BY <1>1, <1>4, <3>1, <3>2 DEF On
  <2>2. ~(\E i \in DOMAIN cstack : cstack[i].th = co /\ ~Exists(co))
    BY <1>1, <1>4 DEF On
  <2>3. threads[co].status = "ok" => threads[co].ci = <<>>
    BY <1>1, <1>4 DEF StatusOf
  <2>4. threads[co].status \in {"free", "ok", "yield", "error"}
    BY <1>1, ThreadType DEF IInv, Types, TypeOK
  <2>5. costatus(co) = IF threads[co].status = "yield" \/ (threads[co].status = "ok" /\ threads[co].body)
                       THEN "suspended" ELSE "dead"
    BY <2>1, <2>3, <2>4 DEF costatus
  <2> QED BY <1>4, <2>2, <2>5 DEF State, StateOf, Exists
<1> QED BY <1>2, <1>3, <1>4

LEMMA StatesBecome == IInv' => StatesOK'
BY StatesAre, PTL

states == [co \in Coroutines |-> State(co)]

\* An operation that leaves co as it is.
Stays(co) ==
  /\ On(co)' <=> On(co)
  /\ On(co) \/ (threads'[co].status = threads[co].status /\ threads'[co].body = threads[co].body)

LEMMA StaySame ==
  ASSUME IInv, IInv', NEW co \in Coroutines, Stays(co)
  PROVE  State(co)' = State(co)
<1>1. State(co) = StateOf(co) /\ State(co)' = StateOf(co)'
  BY StatesAre, StatesBecome DEF StatesOK
<1>2. StateOf(co)' = StateOf(co)
  BY DEF StateOf, Stays
<1> QED BY <1>1, <1>2

LEMMA AllStay ==
  ASSUME IInv, IInv', \A co \in Coroutines : Stays(co)
  PROVE  states' = states
BY StaySame DEF states

LEMMA OneChanges ==
  ASSUME IInv, IInv', NEW co \in Coroutines, NEW v, StateOf(co)' = v,
         \A c \in Coroutines : c # co => Stays(c)
  PROVE  states' = [states EXCEPT ![co] = v] /\ states[co] = StateOf(co)
<1>1. State(co) = StateOf(co) /\ State(co)' = v
  BY StatesAre, StatesBecome DEF StatesOK
<1>2. \A c \in Coroutines : c # co => State(c)' = State(c)
  BY StaySame
<1> QED BY <1>1, <1>2 DEF states

-----------------------------------------------------------------------------
(* Steps. *)

\* Others than x have no activation that comes or goes.
LEMMA OnOthers ==
  ASSUME NEW s, NEW t, NEW x, Len(s) \in Nat, Len(t) \in Nat, Like(t, s),
         \A i \in (Len(s) + 1)..Len(t) : t[i].th = x
  PROVE  /\ \A c : c # x => ((\E i \in 1..Len(t) : t[i].th = c) <=> (\E i \in 1..Len(s) : s[i].th = c))
         /\ (\E i \in 1..Len(s) : s[i].th = x) => \E i \in 1..Len(t) : t[i].th = x
<1>1. \A i \in 1..Len(s) : i \in 1..Len(t) /\ t[i].th = s[i].th
  BY DEF Like, Same
<1>2. \A i \in 1..Len(t) : i \in 1..Len(s) \/ i \in (Len(s) + 1)..Len(t)
  OBVIOUS
<1> QED BY <1>1, <1>2

\* The same activations, with other nexec.
LEMMA QuietMaps ==
  ASSUME IInv, IInv', ~Broken, Len(cstack') = Len(cstack), Like(cstack', cstack),
         \A co \in Coroutines : On(co) \/ (threads'[co].status = threads[co].status /\ threads'[co].body = threads[co].body)
  PROVE  UNCHANGED Chain!vars
<1>1. cstack \in Seq(Activations) /\ cstack' \in Seq(Activations) /\ Len(cstack) \in Nat
  BY DEF IInv, Types, TypeOK
<1>2. ChainOf(cstack') = ChainOf(cstack)
  <2>1. CASE cstack = <<>>
    BY <1>1, <2>1, EmptySeq DEF ChainOf
  <2>2. CASE cstack # <<>>
    <3>1. \A i \in (Len(cstack) + 1)..Len(cstack') : cstack'[i].kind # "resume"
      BY <1>1
    <3> QED BY <1>1, <2>2, <3>1, Extended
  <2> QED BY <2>1, <2>2
<1>3. \A co \in Coroutines : On(co)' <=> On(co)
  BY <1>1 DEF On, Like, Same
<1>4. states' = states
  BY <1>3, AllStay DEF Stays
<1> QED BY <1>2, <1>4, ChainIs DEF Chain!vars, states

\* The activations above the m-th, of the thread that runs, are gone, and the
\* first of them was not its lua_resume().
LEMMA CutMaps ==
  ASSUME IInv, IInv', ~Broken, NEW m \in Nat, m < Len(cstack),
         Len(cstack') = m, Like(cstack, cstack'),
         \A i \in (m + 1)..Len(cstack) : cstack[i].th = L,
         cstack[m + 1].kind # "resume",
         \A th \in Threads : th # L => threads'[th] = threads[th]
  PROVE  Chain!End \/ UNCHANGED Chain!vars
<1> DEFINE n == Len(cstack)
<1>1. /\ cstack \in Seq(Activations) /\ cstack' \in Seq(Activations) /\ n \in Nat
      /\ Shape(cstack) /\ Main \in Threads
  BY CallsAssumption DEF IInv, Types, TypeOK
<1>2. \A i \in (m + 1)..n : i \in 1..n /\ cstack[i].kind # "resume"
  <2>1. ASSUME NEW i \in (m + 1)..n PROVE i \in 1..n /\ cstack[i].kind # "resume"
    <3>1. CASE i = m + 1
      BY <1>1, <3>1
    <3>2. CASE i # m + 1
      <4>1. i \in 1..n /\ i # 1 /\ m + 1 \in 1..(i - 1) /\ m + 1 \in (m + 1)..n
        BY <1>1, <3>2
      <4>2. cstack[m + 1].th = cstack[i].th
        BY <4>1
      <4> QED BY <1>1, <4>1, <4>2 DEF Shape
    <3> QED BY <3>1, <3>2
  <2> QED BY <2>1
<1>3. CASE m = 0
  <2>1. cstack' = <<>> /\ cstack # <<>>
    BY <1>1, <1>3, EmptySeq
  <2>2. 1 \in 1..n /\ 1 \in (m + 1)..n
    BY <1>1, <1>3
  <2>3. L = Main
    BY <1>1, <2>2 DEF Shape
  <2>4. ResumedOf(cstack) = {}
    BY <1>1, <1>2, <1>3, ResumedFinite
  <2>5. OrderOf(cstack) = <<>>
    BY <2>4, FS_EmptySet DEF OrderOf
  <2>6. ChainOf(cstack) = <<Main>> /\ ChainOf(cstack') = <<>>
    BY <2>1, <2>5 DEF ChainOf
  <2>7. \A co \in Coroutines : Stays(co)
    <3>1. ASSUME NEW co \in Coroutines PROVE Stays(co)
      <4>1. co \in Threads /\ co # L
        BY <2>3 DEF Coroutines
      <4>2. ~On(co) /\ ~On(co)'
        BY <1>1, <1>3, <4>1 DEF On
      <4> QED BY <4>1, <4>2 DEF Stays
    <3> QED BY <3>1
  <2>8. states' = states
    BY <2>7, AllStay
  <2> QED BY <2>6, <2>8, ChainIs DEF Chain!End, states
<1>4. CASE m # 0
  <2>1. cstack' # <<>>
    BY <1>1, <1>4, EmptySeq
  <2>2. ChainOf(cstack) = ChainOf(cstack')
    BY <1>1, <1>2, <2>1, Extended
  <2>3. m \in 1..n /\ m + 1 \in 1..n /\ m + 1 # 1 /\ (m + 1) - 1 = m /\ m + 1 \in (m + 1)..n
    BY <1>1, <1>4
  <2>4. cstack[m].th = L /\ cstack'[m].th = L
    <3>1. cstack[m + 1].th = cstack[m].th
      BY <1>1, <2>3 DEF Shape
    <3> QED BY <2>3, <3>1 DEF Like, Same
  <2>5. \A c : c # L => ((\E i \in 1..n : cstack[i].th = c) <=> (\E i \in 1..m : cstack'[i].th = c))
    <3>1. \A i \in 1..m : i \in 1..n /\ cstack'[i].th = cstack[i].th
      BY <1>1 DEF Like, Same
    <3>2. \A i \in 1..n : i \in 1..m \/ i \in (m + 1)..n
      BY <1>1
    <3> QED BY <3>1, <3>2
  <2>6. \A co \in Coroutines : Stays(co)
    <3>1. ASSUME NEW co \in Coroutines PROVE Stays(co)
      <4>1. co \in Threads
        BY DEF Coroutines
      <4>2. CASE co = L
        <5>1. On(co) /\ On(co)'
          BY <2>3, <2>4, <4>2 DEF On
        <5> QED BY <5>1 DEF Stays
      <4>3. CASE co # L
        <5>1. On(co)' <=> On(co)
          BY <2>5, <4>3 DEF On
        <5> QED BY <4>1, <4>3, <5>1 DEF Stays
      <4> QED BY <4>2, <4>3
    <3> QED BY <3>1
  <2>7. states' = states
    BY <2>6, AllStay
  <2> QED BY <2>2, <2>7, ChainIs DEF Chain!vars, states
<1> QED BY <1>3, <1>4

\* The first of them was its lua_resume().
LEMMA LeaveMaps ==
  ASSUME IInv, IInv', ~Broken, NEW m \in Nat, m < Len(cstack),
         Len(cstack') = m, Like(cstack, cstack'),
         \A i \in (m + 1)..Len(cstack) : cstack[i].th = L,
         cstack[m + 1].kind = "resume",
         \A th \in Threads : th # L => threads'[th] = threads[th],
         threads'[L].status \in {"ok", "yield", "error"}, threads'[L].status = "ok" => ~threads'[L].body
  PROVE  \E co \in Coroutines : Chain!Leave(co)
<1> DEFINE n == Len(cstack)
<1>1. /\ cstack \in Seq(Activations) /\ cstack' \in Seq(Activations) /\ n \in Nat
      /\ Shape(cstack) /\ Main \in Threads /\ m + 1 \in 1..n /\ m + 1 \in (m + 1)..n
  BY CallsAssumption DEF IInv, Types, TypeOK
<1>2. m # 0 /\ 1 \in 1..n
  BY <1>1 DEF Shape
<1>3. \A i \in 1..m : cstack[i].th # L
  <2>1. \A i \in 1..((m + 1) - 1) : cstack[i].th # cstack[m + 1].th
    BY <1>1, <1>2 DEF Shape
  <2>2. 1..((m + 1) - 1) = 1..m /\ cstack[m + 1].th = L
    BY <1>1
  <2> QED BY <2>1, <2>2
<1>4. L \in Coroutines
  <2>1. cstack[1].th = Main /\ 1 \in 1..m
    BY <1>1, <1>2 DEF Shape
  <2>2. L # Main
    BY <1>3, <2>1
  <2>3. L \in Threads
    BY <1>1, ActType
  <2> QED BY <2>2, <2>3 DEF Coroutines
<1>5. \A i \in (m + 2)..n : cstack[i].kind # "resume"
  <2>1. ASSUME NEW i \in (m + 2)..n PROVE cstack[i].kind # "resume"
    <3>1. i \in 1..n /\ i # 1 /\ m + 1 \in 1..(i - 1) /\ i \in (m + 1)..n
      BY <1>1
    <3>2. cstack[m + 1].th = cstack[i].th
      BY <1>1, <3>1
    <3> QED BY <1>1, <3>1, <3>2 DEF Shape
  <2> QED BY <2>1
<1>6. cstack' # <<>>
  BY <1>1, <1>2, EmptySeq
<1>7. /\ Len(ChainOf(cstack)) > 1 /\ ChainOf(cstack)[Len(ChainOf(cstack))] = L
      /\ SubSeq(ChainOf(cstack), 1, Len(ChainOf(cstack)) - 1) = ChainOf(cstack')
  BY <1>1, <1>4, <1>5, <1>6, ExtendedBy
<1>8. \A c : c # L => ((\E i \in 1..n : cstack[i].th = c) <=> (\E i \in 1..m : cstack'[i].th = c))
  <2>1. \A i \in 1..m : i \in 1..n /\ cstack'[i].th = cstack[i].th
    BY <1>1 DEF Like, Same
  <2>2. \A i \in 1..n : i \in 1..m \/ i \in (m + 1)..n
    BY <1>1
  <2> QED BY <2>1, <2>2
<1>9. \A c \in Coroutines : c # L => Stays(c)
  BY <1>8 DEF Stays, On, Coroutines
<1>10. PICK co \in Coroutines : co = L
  BY <1>4
<1>11. ~(On(co)') /\ co \in Threads
  <2>1. ASSUME NEW i \in 1..m PROVE cstack'[i].th # co
    BY <1>3, <1>10 DEF Like, Same
  <2> QED BY <2>1 DEF On, Coroutines
<1>12. StateOf(co)' \in {"suspended", "dead"}
  <2>1. threads'[co].status \in {"ok", "yield", "error"}
    BY <1>10
  <2> QED BY <1>11, <2>1 DEF StateOf
<1>13. PICK v \in {"suspended", "dead"} : StateOf(co)' = v
  BY <1>12
<1>14. states' = [states EXCEPT ![co] = v]
  BY <1>9, <1>10, <1>13, OneChanges
<1>15. Chain!Leave(co)
  BY <1>7, <1>10, <1>14, ChainIs DEF Chain!Leave, states
<1> QED BY <1>15

\* luaD_call() with another activation.
LEMMA CallMaps ==
  ASSUME IInv, IInv', ~Broken, NEW k \in Calling, NEW f, NEW h, luaD_call(k, f, h)
  PROVE  Chain!Begin \/ UNCHANGED Chain!vars
<1> DEFINE n == Len(cstack)
<1>1. /\ cstack \in Seq(Activations) /\ cstack' \in Seq(Activations) /\ n \in Nat
      /\ threads \in [Threads -> Thread] /\ L \in Threads
  BY Runner DEF IInv, Types, TypeOK
<1>2. PICK a : cstack' = Append(cstack, a) /\ a.th = L /\ a.kind = k
  BY DEF luaD_call, Activation
<1>3. \A th \in Threads : th # L => threads'[th] = threads[th]
  <2>1. PICK x : threads' = [threads EXCEPT ![L] = x]
    BY DEF luaD_call
  <2> QED BY <1>1, <2>1
<1>4. /\ Len(cstack') = n + 1 /\ cstack'[n + 1] = a /\ \A i \in 1..n : cstack'[i] = cstack[i]
      /\ Like(cstack', cstack)
  <2>1. Len(cstack') = n + 1 /\ cstack'[n + 1] = a /\ \A i \in 1..n : cstack'[i] = cstack[i]
    BY <1>1, <1>2
  <2> QED BY <1>1, <2>1 DEF Like, Same
<1>5. a.kind # "resume"
  BY <1>2 DEF Calling
<1>6. \A i \in (n + 1)..Len(cstack') : cstack'[i].th = L /\ cstack'[i].kind # "resume"
  <2>1. \A i \in (n + 1)..Len(cstack') : i = n + 1
    BY <1>1, <1>4
  <2> QED BY <1>2, <1>4, <1>5, <2>1
<1>7. cstack' # <<>>
  BY <1>1, <1>4, EmptySeq
<1>8. \A c : c # L => ((\E i \in 1..Len(cstack') : cstack'[i].th = c) <=> (\E i \in 1..n : cstack[i].th = c))
  BY <1>1, <1>4, <1>6, OnOthers
<1>9. \A co \in Coroutines : co # L => Stays(co)
  BY <1>3, <1>8 DEF Stays, On, Coroutines
<1>10. CASE cstack = <<>>
  <2>1. L = Main /\ n = 0
    BY <1>10, EmptySeq DEF L
  <2>2. states' = states
    BY <1>9, <2>1, AllStay DEF Coroutines
  <2>3. ResumedOf(cstack') = {}
    BY <1>1, <1>6, <2>1, ResumedFinite
  <2>4. OrderOf(cstack') = <<>>
    BY <2>3, FS_EmptySet DEF OrderOf
  <2>5. ChainOf(cstack') = <<Main>> /\ ChainOf(cstack) = <<>>
    BY <1>7, <1>10, <2>4 DEF ChainOf
  <2> QED BY <2>2, <2>5, ChainIs DEF Chain!Begin, states
<1>11. CASE cstack # <<>>
  <2>1. ChainOf(cstack') = ChainOf(cstack)
    BY <1>1, <1>4, <1>6, <1>11, Extended
  <2>2. ASSUME NEW co \in Coroutines, co = L PROVE Stays(co)
    <3>1. On(co)
      BY <1>11, <2>2, Now
    <3>2. On(co)'
      BY <1>2, <1>4, <1>1, <2>2 DEF On
    <3> QED BY <3>1, <3>2 DEF Stays
  <2>3. states' = states
    BY <1>9, <2>2, AllStay
  <2> QED BY <2>1, <2>3, ChainIs DEF Chain!vars, states
<1> QED BY <1>10, <1>11

\* An error is caught, ends a coroutine, or ends the program.
LEMMA ThrowMaps ==
  ASSUME IInv, IInv', ~Broken, cstack # <<>>, luaD_throw
  PROVE  Chain!Next \/ UNCHANGED Chain!vars
<1> DEFINE n == Len(cstack)
           j == Th.jmp
           m == j - 1
<1>1. /\ TypeOK /\ cstack \in Seq(Activations) /\ n \in Nat /\ threads \in [Threads -> Thread]
      /\ L \in Threads /\ Th \in Thread /\ Exists(L) /\ CurrentOf(L) /\ Shape(cstack)
  BY Runner DEF IInv, Types, TypeOK
<1>2. L = cstack[n].th
  BY Now
<1>3. Jump(cstack, L, n + 1, j)
  BY <1>1 DEF CurrentOf, Th
<1>4. /\ j \in 0..n /\ \A i \in 1..n : i > j => cstack[i].th = L
      /\ j # 0 => cstack[j].th = L /\ cstack[j].kind \in Guards
  BY <1>1, <1>2, <1>3, Unwinds
<1>5. CASE j = 0
  <2>1. cstack' = cstack /\ threads' = threads
    BY <1>5 DEF luaD_throw
  <2> QED BY <2>1, QuietMaps DEF Like, Same
<1>6. CASE j # 0
  <2>1. m \in Nat /\ m < n /\ m + 1 = j /\ m \in 0..n
    BY <1>1, <1>4, <1>6
  <2>2. cstack' = SubSeq(cstack, 1, m)
    BY <1>6 DEF luaD_throw
  <2>3. Len(cstack') = m /\ Like(cstack, cstack')
    BY <1>1, <2>1, <2>2, Cutting
  <2>4. \A i \in (m + 1)..n : cstack[i].th = L
    BY <1>1, <1>4, <1>6, <2>1
  <2>5. PICK x : threads' = [threads EXCEPT ![L] = x]
                 /\ (cstack[j].kind = "resume" => x = [Th EXCEPT !.status = "error", !.jmp = cstack[j].jmp])
    BY <1>6 DEF luaD_throw, Th
  <2>6. threads'[L] = x /\ \A th \in Threads : th # L => threads'[th] = threads[th]
    BY <1>1, <2>5
  <2>7. CASE cstack[j].kind = "resume"
    <3>1. x.status = "error"
      BY <1>1, <2>5, <2>7 DEF Thread
    <3>2. /\ threads'[L].status \in {"ok", "yield", "error"}
          /\ threads'[L].status = "ok" => ~threads'[L].body
      BY <2>6, <3>1
    <3> HIDE DEF m, j
    <3>3. \E co \in Coroutines : Chain!Leave(co)
      BY <2>1, <2>3, <2>4, <2>6, <2>7, <3>2, LeaveMaps
    <3> QED BY <3>3 DEF Chain!Next
  <2>8. CASE cstack[j].kind # "resume"
    <3> HIDE DEF m, j
    <3> QED BY <2>1, <2>3, <2>4, <2>6, <2>8, CutMaps DEF Chain!Next
  <2> QED BY <2>7, <2>8
<1> QED BY <1>5, <1>6

LEMMA NexecLike ==
  ASSUME cstack \in Seq(Activations), cstack # <<>>, NEW k \in Nat,
         cstack' = [cstack EXCEPT ![Len(cstack)].nexec = k]
  PROVE  Len(cstack') = Len(cstack) /\ Like(cstack', cstack)
<1>1. Len(cstack') = Len(cstack) /\ Like(cstack, cstack')
  BY NexecChanged
<1> QED BY <1>1 DEF Like, Same

LEMMA OpCallLike ==
  ASSUME IInv, ~Broken, NEW f, NEW made, OpCall(f, made)
  PROVE  Len(cstack') = Len(cstack) /\ Like(cstack', cstack)
<1>1. cstack # <<>> /\ cstack \in Seq(Activations) /\ Len(cstack) \in 1..Len(cstack)
  BY Now DEF OpCall, InLua, Running, IInv, Types, TypeOK
<1>2. CASE cstack' = cstack
  BY <1>1, <1>2 DEF Like, Same
<1>3. CASE cstack' = [cstack EXCEPT ![Len(cstack)].nexec = @ + 1]
  <2> DEFINE k == cstack[Len(cstack)].nexec + 1
  <2>1. k \in Nat
    BY <1>1, ActType
  <2>2. cstack' = [cstack EXCEPT ![Len(cstack)].nexec = k]
    BY <1>3
  <2> HIDE DEF k
  <2> QED BY <1>1, <2>1, <2>2, NexecLike
<1> QED BY <1>2, <1>3 DEF OpCall

LEMMA OpCallMaps ==
  ASSUME IInv, IInv', ~Broken, NEW f, OpCall(f, {})
  PROVE  UNCHANGED Chain!vars
<1>1. /\ cstack # <<>> /\ cstack \in Seq(Activations) /\ L \in Threads /\ Len(cstack) \in 1..Len(cstack) /\ On(L)
      /\ threads \in [Threads -> Thread]
  BY Now DEF OpCall, InLua, Running, IInv, Types, TypeOK
<1>2. Len(cstack') = Len(cstack) /\ Like(cstack', cstack)
  BY OpCallLike
<1>3. \A th \in Threads : th # L => threads'[th] = threads[th]
  BY DEF OpCall
<1>4. \A co \in Coroutines : On(co) \/ (threads'[co].status = threads[co].status /\ threads'[co].body = threads[co].body)
  <2>1. \A co \in Coroutines : co \in Threads /\ (co = L => On(co))
    BY <1>1 DEF Coroutines
  <2> QED BY <1>3, <2>1
<1> QED BY <1>2, <1>4, QuietMaps

\* A new coroutine, and nothing else of the kind.
LEMMA NewMaps ==
  ASSUME IInv, IInv', ~Broken, NEW co \in Coroutines, ~Exists(co), cstack # <<>>,
         Len(cstack') = Len(cstack), Like(cstack', cstack), threads'[co] = New,
         \A th \in Threads : th # L /\ th # co => threads'[th] = threads[th]
  PROVE  Chain!Create(co)
<1>1. /\ cstack \in Seq(Activations) /\ cstack' \in Seq(Activations) /\ Len(cstack) \in Nat /\ On(L)
  BY Now DEF IInv, Types, TypeOK
<1>2. ChainOf(cstack') = ChainOf(cstack)
  <2>1. \A i \in (Len(cstack) + 1)..Len(cstack') : cstack'[i].kind # "resume"
    BY <1>1
  <2> QED BY <1>1, <2>1, Extended
<1>3. \A c \in Coroutines : On(c)' <=> On(c)
  BY <1>1 DEF On, Like, Same
<1>4. ~On(co)
  BY <1>1 DEF Broken, On
<1>5. New.status = "ok" /\ New.body
  BY DEF New, Absent
<1>6. StateOf(co)' = "suspended" /\ StateOf(co) = "absent"
  BY <1>3, <1>4, <1>5 DEF StateOf, Exists
<1>7. \A c \in Coroutines : c # co => Stays(c)
  <2>1. \A c \in Coroutines : c \in Threads /\ (c = L => On(c))
    BY <1>1 DEF Coroutines
  <2> QED BY <1>3, <2>1 DEF Stays
<1>8. states' = [states EXCEPT ![co] = "suspended"] /\ states[co] = "absent"
  BY <1>6, <1>7, OneChanges
<1> QED BY <1>2, <1>8, ChainIs DEF Chain!Create, states

LEMMA OpCallNewMaps ==
  ASSUME IInv, IInv', ~Broken, NEW co \in Coroutines, ~Exists(co), OpCall(C(co), {co})
  PROVE  Chain!Create(co)
<1>1. /\ cstack # <<>> /\ cstack \in Seq(Activations) /\ L \in Threads /\ Exists(L) /\ Len(cstack) \in 1..Len(cstack)
      /\ threads \in [Threads -> Thread] /\ co \in Threads
  BY Now DEF OpCall, InLua, Running, IInv, Types, TypeOK, Coroutines
<1>2. Len(cstack') = Len(cstack) /\ Like(cstack', cstack)
  BY OpCallLike
<1>3. threads'[co] = New /\ \A th \in Threads : th # L /\ th # co => threads'[th] = threads[th]
  BY <1>1 DEF OpCall
<1> QED BY <1>1, <1>2, <1>3, NewMaps

LEMMA CreateMaps ==
  ASSUME IInv, IInv', ~Broken, NEW co \in Coroutines, Create(co)
  PROVE  Chain!Create(co)
<1>1. /\ cstack # <<>> /\ cstack' = cstack /\ threads' = [threads EXCEPT ![co] = New] /\ ~Exists(co)
      /\ threads \in [Threads -> Thread] /\ co \in Threads /\ Len(cstack) \in Nat
  BY DEF Create, InLua, Running, IInv, Types, TypeOK, Coroutines
<1>2. threads'[co] = New /\ \A th \in Threads : th # co => threads'[th] = threads[th]
  BY <1>1
<1>3. Like(cstack', cstack) /\ Len(cstack') = Len(cstack)
  BY <1>1 DEF Like, Same
<1> QED BY <1>1, <1>2, <1>3, NewMaps

\* Operations that leave the C stack alone, and no coroutine without an
\* activation there.
LEMMA IdleMaps ==
  ASSUME IInv, IInv', ~Broken, cstack # <<>>, cstack' = cstack, NEW th \in Threads, On(th),
         NEW x, threads' = [threads EXCEPT ![th] = x]
  PROVE  UNCHANGED Chain!vars
<1>1. Like(cstack', cstack) /\ Len(cstack') = Len(cstack)
  BY DEF IInv, Types, TypeOK, Like, Same
<1>2. \A co \in Coroutines : On(co) \/ (threads'[co].status = threads[co].status /\ threads'[co].body = threads[co].body)
  <2>1. \A co \in Coroutines : co \in Threads
    BY DEF Coroutines
  <2>2. threads \in [Threads -> Thread]
    BY DEF IInv, Types, TypeOK
  <2> QED BY <2>1, <2>2
<1> QED BY <1>1, <1>2, QuietMaps

LEMMA ReturnMaps ==
  ASSUME IInv, IInv', ~Broken, Return
  PROVE  Chain!Next \/ UNCHANGED Chain!vars
<1> DEFINE n == Len(cstack)
           act == Top(cstack)
           left == IF Top(Th.ci).fn = "lua" THEN act.nexec - 1 ELSE act.nexec
           less == [Th EXCEPT !.ci = Pop(@)]
<1>1. /\ cstack # <<>> /\ cstack \in Seq(Activations) /\ L \in Threads /\ n \in 1..n /\ On(L)
      /\ threads \in [Threads -> Thread] /\ L = cstack[n].th /\ act = cstack[n]
      /\ Th.status = "ok" /\ ~Th.body /\ Th \in Thread
  BY Now, Runner DEF Return, Running, IInv, Types, TypeOK
<1>2. CASE left = 0 /\ act.kind = "handler"
  <2>1. luaD_throw
    BY <1>2 DEF Return
  <2> QED BY <1>1, <2>1, ThrowMaps
<1>3. CASE left > 0
  <2>1. /\ cstack' = [cstack EXCEPT ![Len(cstack)].nexec = left]
        /\ threads' = [threads EXCEPT ![L] = less]
    BY <1>3 DEF Return
  <2>2. Len(cstack') = Len(cstack) /\ Like(cstack', cstack)
    <3>1. left \in Nat
      BY <1>1, <1>3, ActType
    <3> HIDE DEF left
    <3> QED BY <1>1, <2>1, <3>1, NexecLike
  <2>3. \A th \in Threads : th # L => threads'[th] = threads[th]
    BY <1>1, <2>1
  <2>4. \A co \in Coroutines : co \in Threads /\ (co = L => On(co))
    BY <1>1 DEF Coroutines
  <2> QED BY <2>2, <2>3, <2>4, QuietMaps
<1>4. CASE ~(left > 0) /\ ~(left = 0 /\ act.kind = "handler")
  <2> DEFINE m == n - 1
             x == [less EXCEPT !.jmp = act.jmp, !.errfunc = act.errfunc, !.nCcalls = Uncounted(act, @)]
  <2>1. cstack' = SubSeq(cstack, 1, m) /\ threads' = [threads EXCEPT ![L] = x]
    BY <1>4 DEF Return, Pop
  <2>2. m \in Nat /\ m < n /\ m + 1 = n /\ m \in 0..n
    BY <1>1
  <2>3. Len(cstack') = m /\ Like(cstack, cstack')
    BY <1>1, <2>1, <2>2, Cutting
  <2>4. \A i \in (m + 1)..n : cstack[i].th = L
    BY <1>1
  <2>5. threads'[L] = x /\ \A th \in Threads : th # L => threads'[th] = threads[th]
    BY <1>1, <2>1
  <2>6. x.status = "ok" /\ ~x.body
    <3>1. less.status = "ok" /\ less.body = FALSE
      BY <1>1 DEF Thread
    <3> QED BY <3>1
  <2> HIDE DEF x, m
  <2>7. CASE act.kind = "resume"
    <3>1. \E co \in Coroutines : Chain!Leave(co)
      BY <1>1, <2>2, <2>3, <2>4, <2>5, <2>6, <2>7, LeaveMaps
    <3> QED BY <3>1 DEF Chain!Next
  <2>8. CASE act.kind # "resume"
    <3>1. Chain!End \/ UNCHANGED Chain!vars
      BY <1>1, <2>2, <2>3, <2>4, <2>5, <2>8, CutMaps
    <3> QED BY <3>1 DEF Chain!Next
  <2> QED BY <2>7, <2>8
<1> QED BY <1>2, <1>3, <1>4

LEMMA YieldMaps ==
  ASSUME IInv, IInv', ~Broken, Yield
  PROVE  Chain!Next \/ UNCHANGED Chain!vars
<1> DEFINE n == Len(cstack)
           act == Top(cstack)
<1>1. /\ cstack # <<>> /\ cstack \in Seq(Activations) /\ L \in Threads /\ n \in 1..n /\ On(L)
      /\ threads \in [Threads -> Thread] /\ L = cstack[n].th /\ act = cstack[n]
      /\ Th \in Thread /\ CurrentOf(L) /\ Th.nCcalls \in Nat /\ Th.status = "ok"
  BY Now, Runner DEF Yield, InC, Running, IInv, Types, TypeOK
<1>2. CASE Boundary
  <2>1. cstack' = cstack /\ threads' = threads
    BY <1>2 DEF Yield
  <2> QED BY <2>1, QuietMaps DEF Like, Same
<1>3. CASE ~Boundary
  <2> DEFINE m == n - 1
             x == [Th EXCEPT !.status = "yield", !.jmp = act.jmp]
  <2>1. cstack' = SubSeq(cstack, 1, m) /\ threads' = [threads EXCEPT ![L] = x]
    BY <1>1, <1>3 DEF Yield, Pop, Th
  <2>2. m \in Nat /\ m < n /\ m + 1 = n /\ m \in 0..n
    BY <1>1
  <2>3. Len(cstack') = m /\ Like(cstack, cstack')
    BY <1>1, <2>1, <2>2, Cutting
  <2>4. \A i \in (m + 1)..n : cstack[i].th = L
    BY <1>1
  <2>5. threads'[L] = x /\ \A th \in Threads : th # L => threads'[th] = threads[th]
    BY <1>1, <2>1
  <2>6. x.status = "yield"
    BY <1>1 DEF Thread
  <2>7. act.kind = "resume"
    <3>1. Cardinality(Below(cstack, L, n + 1, Calling)) =
            IF act.kind = "resume" THEN Cardinality(Below(cstack, L, n, Calling))
            ELSE Cardinality(Below(cstack, L, n, Calling)) + 1
      BY <1>1, CountNext
    <3>2. Th.nCcalls = 0
      BY <1>1, <1>3 DEF Boundary
    <3>3. Cardinality(Below(cstack, L, n, Calling)) \in Nat
      BY <1>1, BelowFinite
    <3>4. Th.nCcalls = Cardinality(Below(cstack, L, n + 1, Calling))
      BY <1>1 DEF CurrentOf, Kept, Th
    <3> QED BY <3>1, <3>2, <3>3, <3>4
  <2> HIDE DEF x, m
  <2>8. \E co \in Coroutines : Chain!Leave(co)
    BY <1>1, <2>2, <2>3, <2>4, <2>5, <2>6, <2>7, LeaveMaps
  <2> QED BY <2>8 DEF Chain!Next
<1> QED BY <1>2, <1>3

LEMMA RefuseMaps ==
  ASSUME IInv, IInv', ~Broken, NEW co \in Coroutines, Refuse(co)
  PROVE  UNCHANGED Chain!vars
<1>1. cstack # <<>> /\ cstack' = cstack /\ co \in Threads /\ StatusOf(co)
  BY DEF Refuse, InC, Running, Coroutines, IInv
<1>2. On(co)
  BY <1>1 DEF Refuse, StatusOf
<1>3. PICK x : threads' = [threads EXCEPT ![co] = x]
  BY DEF Refuse
<1> QED BY <1>1, <1>2, <1>3, IdleMaps

LEMMA ResumeMaps ==
  ASSUME IInv, IInv', ~Broken, NEW co \in Coroutines, Resume(co)
  PROVE  Chain!Resume(co)
<1> DEFINE n == Len(cstack)
<1>1. /\ cstack # <<>> /\ cstack \in Seq(Activations) /\ cstack' \in Seq(Activations) /\ n \in Nat
      /\ threads \in [Threads -> Thread] /\ co \in Threads /\ StatusOf(co) /\ Exists(co)
  BY DEF Resume, InC, Running, IInv, Types, TypeOK, Coroutines
<1>2. PICK a : cstack' = Append(cstack, a) /\ a.th = co /\ a.kind = "resume"
  BY DEF Resume, Activation
<1>3. \A th \in Threads : th # co => threads'[th] = threads[th]
  <2>1. PICK x : threads' = [threads EXCEPT ![co] = x]
    BY DEF Resume
  <2> QED BY <1>1, <2>1
<1>4. /\ Len(cstack') = n + 1 /\ cstack'[n + 1] = a /\ \A i \in 1..n : cstack'[i] = cstack[i]
      /\ Like(cstack', cstack)
  <2>1. Len(cstack') = n + 1 /\ cstack'[n + 1] = a /\ \A i \in 1..n : cstack'[i] = cstack[i]
    BY <1>1, <1>2
  <2> QED BY <1>1, <2>1 DEF Like, Same
<1>5. Resumable(threads[co]) /\ threads[co].status \in {"ok", "yield"}
      /\ (threads[co].status = "ok" => threads[co].body)
  BY DEF Resume, Resumable
<1>6. ~On(co)
  BY <1>1, <1>5 DEF StatusOf, Resumable
<1>7. ChainOf(cstack') = Append(ChainOf(cstack), co) /\ ChainOf(cstack) # <<>>
  <2>1. /\ Len(cstack) < Len(cstack') /\ cstack'[Len(cstack) + 1].kind = "resume"
        /\ cstack'[Len(cstack) + 1].th = co /\ Like(cstack', cstack)
    BY <1>1, <1>2, <1>4
  <2>2. \A i \in (Len(cstack) + 2)..Len(cstack') : cstack'[i].kind # "resume"
    BY <1>1, <1>4
  <2> QED BY <1>1, <2>1, <2>2, ExtendedBy
<1>8. \A c : c # co => ((\E i \in 1..Len(cstack') : cstack'[i].th = c) <=> (\E i \in 1..n : cstack[i].th = c))
  <2>1. \A i \in (n + 1)..Len(cstack') : cstack'[i].th = co
    <3>1. \A i \in (n + 1)..Len(cstack') : i = n + 1
      BY <1>1, <1>4
    <3> QED BY <1>2, <1>4, <3>1
  <2> QED BY <1>1, <1>4, <2>1, OnOthers
<1>9. \A c \in Coroutines : c # co => Stays(c)
  BY <1>3, <1>8 DEF Stays, On, Coroutines
<1>10. On(co)'
  BY <1>1, <1>2, <1>4 DEF On
<1>11. StateOf(co)' = "active" /\ StateOf(co) = "suspended"
  BY <1>5, <1>6, <1>10 DEF StateOf
<1>12. states' = [states EXCEPT ![co] = "active"] /\ states[co] = "suspended"
  BY <1>9, <1>11, OneChanges
<1> QED BY <1>7, <1>12, ChainIs DEF Chain!Resume, states

LEMMA CollectMaps ==
  ASSUME IInv, IInv', ~Broken, Collect
  PROVE  Chain!Collect
<1>1. cstack' = cstack
  BY DEF Collect
<1>2. \A th \in Threads : threads'[th] = threads[th] \/ threads'[th].status = "free"
  BY DEF Collect, Absent
<1>3. \A co \in Coroutines : On(co)' <=> On(co)
  BY <1>1 DEF On
<1>4. ASSUME NEW co \in Coroutines
      PROVE  /\ State(co)' \in {State(co), "absent"}
             /\ State(co) = "active" => State(co)' = "active"
  <2>1. State(co) = StateOf(co) /\ State(co)' = StateOf(co)'
    BY StatesAre, StatesBecome DEF StatesOK
  <2>2. co \in Threads
    BY DEF Coroutines
  <2>3. CASE On(co)
    BY <1>3, <2>1, <2>3 DEF StateOf
  <2>4. CASE ~On(co)
    <3>1. State(co) # "active"
      BY <2>1, <2>4 DEF StateOf
    <3>2. CASE threads'[co] = threads[co]
      BY <1>3, <2>1, <2>4, <3>1, <3>2 DEF StateOf
    <3>3. CASE threads'[co].status = "free"
      BY <1>3, <2>1, <2>4, <3>1, <3>3 DEF StateOf
    <3> QED BY <1>2, <2>2, <3>2, <3>3
  <2> QED BY <2>3, <2>4
<1> QED BY <1>1, <1>4, ChainIs DEF Chain!Collect

-----------------------------------------------------------------------------
(* The refinement. *)

LEMMA StartMaps == Init => Chain!Init
<1> SUFFICES ASSUME Init PROVE Chain!Init
  OBVIOUS
<1>1. cstack = <<>> /\ Chained = <<>>
  BY DEF Init, Chained
<1>2. ASSUME NEW co \in Coroutines PROVE State(co) = "absent"
  <2>1. co \in Threads /\ co # Main
    BY DEF Coroutines
  <2>2. threads[co].status = "free"
    BY <2>1 DEF Init, Absent
  <2>3. DOMAIN cstack = {}
    BY <1>1
  <2> QED BY <2>2, <2>3 DEF State, Exists
<1> QED BY <1>1, <1>2 DEF Chain!Init

LEMMA StepMaps == IInv /\ [Next]_vars => [Chain!Next]_(Chain!vars)
<1> SUFFICES ASSUME IInv, [Next]_vars PROVE Chain!Next \/ UNCHANGED Chain!vars
  OBVIOUS
<1>1. IInv'
  BY Step
<1>2. CASE UNCHANGED vars
  BY <1>2 DEF vars, Chain!vars, Chained, Resumed, Nth, State, costatus, Exists, L
<1>3. CASE Next
  <2>1. ~Broken
    BY <1>3 DEF Next
  <2>2. prog.made \subseteq Coroutines /\ (cstack = <<>> => raising = "no")
    BY CallsAssumption DEF IInv, Types, Coroutines
  <2>3. ASSUME NEW k \in Calling, NEW f, NEW h, luaD_call(k, f, h) PROVE Chain!Next \/ UNCHANGED Chain!vars
    BY <1>1, <2>1, <2>3, CallMaps DEF Chain!Next
  <2>4. "call" \in Calling /\ "pcall" \in Calling /\ "handler" \in Calling
    BY DEF Calling
  <2>5. ASSUME NEW k \in {"call", "pcall"}, HostCall(k) PROVE Chain!Next \/ UNCHANGED Chain!vars
    BY <2>3, <2>4, <2>5 DEF HostCall
  <2>6. ASSUME NEW f, OpCall(f, {}) PROVE UNCHANGED Chain!vars
    BY <1>1, <2>1, <2>6, OpCallMaps
  <2>7. ASSUME TailCall \/ Error PROVE UNCHANGED Chain!vars
    <3>1. cstack # <<>> /\ cstack' = cstack
      BY <2>7 DEF TailCall, InLua, Error, Running
    <3>2. L \in Threads /\ On(L)
      BY <2>1, <3>1, Now
    <3>3. \E x : threads' = [threads EXCEPT ![L] = x]
      <4>1. CASE TailCall
        BY <4>1 DEF TailCall
      <4>2. CASE Error
        <5>1. threads' = threads /\ threads \in [Threads -> Thread]
          BY <4>2 DEF Error, IInv, Types, TypeOK
        <5>2. threads' = [threads EXCEPT ![L] = threads[L]]
          BY <3>2, <5>1
        <5> QED BY <5>2
      <4> QED BY <2>7, <4>1, <4>2
    <3> QED BY <1>1, <2>1, <3>1, <3>2, <3>3, IdleMaps
  <2>8. ASSUME NEW co \in prog.made, ~Exists(co), OpCall(C(co), {co}) PROVE Chain!Next
    BY <1>1, <2>1, <2>2, <2>8, OpCallNewMaps DEF Chain!Next
  <2>9. ASSUME luaG_errormsg \/ Throw PROVE Chain!Next \/ UNCHANGED Chain!vars
    <3>1. cstack # <<>>
      BY <2>2, <2>9 DEF luaG_errormsg, Throw
    <3>2. luaD_throw \/ \E f : luaD_call("handler", f, FALSE)
      BY <2>9 DEF luaG_errormsg, Throw
    <3> QED BY <1>1, <2>1, <2>3, <2>4, <3>1, <3>2, ThrowMaps
  <2>10. ASSUME Return PROVE Chain!Next \/ UNCHANGED Chain!vars
    BY <1>1, <2>1, <2>10, ReturnMaps
  <2>11. ASSUME Yield PROVE Chain!Next \/ UNCHANGED Chain!vars
    BY <1>1, <2>1, <2>11, YieldMaps
  <2>12. ASSUME Collect PROVE Chain!Next
    BY <1>1, <2>1, <2>12, CollectMaps DEF Chain!Next
  <2>13. ASSUME NEW co \in prog.made, Create(co) \/ Refuse(co) \/ Resume(co)
         PROVE  Chain!Next \/ UNCHANGED Chain!vars
    <3>1. co \in Coroutines
      BY <2>2
    <3> QED BY <1>1, <2>1, <2>13, <3>1, CreateMaps, RefuseMaps, ResumeMaps DEF Chain!Next
  <2>14. ASSUME NEW co \in prog.made, Forget(co) PROVE UNCHANGED Chain!vars
    <3>1. cstack' = cstack /\ threads' = threads
      BY <2>14 DEF Forget
    <3> QED BY <3>1 DEF Chain!vars, Chained, Resumed, Nth, State, costatus, Exists, L
  <2> QED BY <1>3, <2>3, <2>4, <2>5, <2>6, <2>7, <2>8, <2>9, <2>10, <2>11, <2>12, <2>13, <2>14 DEF Next
<1> QED BY <1>2, <1>3

\* The coroutines that are running, and the order in which they have resumed
\* each other, are as CoroutineChain says: each comes back to its resumer, once,
\* by a yield, a return or an error, and nothing else changes the order.
THEOREM CoroutinesChained == Spec => Implements
BY StartMaps, StepMaps, Invariant, PTL DEF Spec, Implements, Chain!Spec
=============================================================================
