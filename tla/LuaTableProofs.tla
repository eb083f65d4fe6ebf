-------------------------- MODULE LuaTableProofs --------------------------
(*************************************************************************)
(* Proofs about tables, for every set of keys, what they hash to, and    *)
(* every size.                                                           *)
(*                                                                       *)
(* The invariant IInv is that the table is in order (Good), that no      *)
(* rehash ran out of room, and that a traversal has given the elements   *)
(* up to where findindex() finds its key (Trav).  Good has four parts:   *)
(* Typed, what the fields are; Kept, what a node without a key or with a *)
(* value is; Joined, that the next fields lead to nodes with keys, no    *)
(* two to one, and end, which a rank that falls along them says; and     *)
(* Placed, that a node is in the chain of its key, and that of several   *)
(* nodes with one key that which is not dead comes first.                *)
(*                                                                       *)
(* The lemmas go upwards: numbers and powers of two; the recursive       *)
(* functions of LuaTable, which have solutions; chains; lookup; the      *)
(* three ways newkey() goes; a store; resize(), by the tables it goes    *)
(* through; computesizes(), by its slices, and rehash(); luaH_getn();    *)
(* and then the steps, each with what it does to the elements.           *)
(*************************************************************************)
EXTENDS LuaTable, FiniteSetTheorems, WellFoundedInduction, TLAPS

(*************************************************************************)
(* Numbers.                                                              *)
(*************************************************************************)

\* Every set of numbers has a least one.
LEMMA Least ==
  ASSUME NEW S \in SUBSET Nat, S # {}
  PROVE  \E x \in S : \A y \in S : x <= y
<1> DEFINE R == OpToRel(<, Nat)
<1>1. IsWellFoundedOn(R, Nat)
  BY NatLessThanWellFounded
<1>2. PICK x \in S : \A y \in S : ~(<<y, x>> \in R)
  <2> HIDE DEF R
  <2> QED BY <1>1, WFMin
<1>3. \A y \in S : ~(y < x)
  BY <1>2 DEF OpToRel
<1> QED BY <1>3

LEMMA MinIs ==
  ASSUME NEW S \in SUBSET Nat, S # {}
  PROVE  Min(S) \in S /\ \A y \in S : Min(S) <= y
BY Least DEF Min

\* Induction, over a set of numbers.
LEMMA AllNat ==
  ASSUME NEW S, 0 \in S, \A n \in Nat : n \in S => n + 1 \in S
  PROVE  \A n \in Nat : n \in S
<1> SUFFICES ASSUME Nat \ S # {}
             PROVE  FALSE
  OBVIOUS
<1>1. PICK n \in Nat \ S : \A m \in Nat \ S : n <= m
  BY Least
<1>2. n # 0 /\ n - 1 \in Nat /\ n - 1 \in S /\ n = (n - 1) + 1
  BY <1>1
<1> QED BY <1>1, <1>2

\* The same up to a bound, and the largest of a bounded set.
LEMMA AllUpTo ==
  ASSUME NEW N \in Nat, NEW S, 0 \in S, \A n \in 0..(N - 1) : n \in S => n + 1 \in S
  PROVE  \A n \in 0..N : n \in S
<1> DEFINE C == {n \in Nat : n \in 0..N => n \in S}
<1>1. \A n \in Nat : n \in C
  <2>1. 0 \in C
    OBVIOUS
  <2>2. \A n \in Nat : n \in C => n + 1 \in C
    OBVIOUS
  <2> HIDE DEF C
  <2> QED BY <2>1, <2>2, AllNat
<1> QED BY <1>1

LEMMA Largest ==
  ASSUME NEW N \in Nat, NEW S \in SUBSET (0..N), S # {}
  PROVE  \E x \in S : \A y \in S : x >= y
<1> DEFINE C == {N - x : x \in S}
<1>1. \A x \in S : x \in Nat /\ N - x \in Nat
  OBVIOUS
<1>2. C \in SUBSET Nat
  BY <1>1
<1>3. C # {}
  OBVIOUS
<1>4. PICK c \in C : \A d \in C : c <= d
  <2> HIDE DEF C
  <2> QED BY <1>2, <1>3, Least
<1>5. PICK x \in S : c = N - x
  BY <1>4
<1>6. ASSUME NEW y \in S
      PROVE  x >= y
  <2>1. N - y \in C
    OBVIOUS
  <2>2. N - x <= N - y
    <3> HIDE DEF C
    <3> QED BY <2>1, <1>4, <1>5
  <2> QED BY <2>2, <1>1
<1> QED BY <1>6

LEMMA MaxIs ==
  ASSUME NEW N \in Nat, NEW S \in SUBSET (0..N), S # {}
  PROVE  Max(S) \in S /\ \A y \in S : Max(S) >= y
BY Largest DEF Max


\* What a function that is defined from its last value is: it exists.
LEMMA Recursion ==
  ASSUME NEW S, NEW f0 \in S, NEW step \in [S -> S]
  PROVE  \E f \in [Nat -> S] : f[0] = f0 /\ \A n \in Nat : f[n + 1] = step[f[n]]
<1> DEFINE Starts(f, n) == f[0] = f0 /\ \A i \in 0..(n - 1) : f[i + 1] = step[f[i]]
           C == {n \in Nat : \E f \in [0..n -> S] : Starts(f, n)}
           D == {m \in Nat : \A n \in Nat : \A f \in [0..n -> S], g \in [0..m -> S] :
                   m <= n /\ Starts(f, n) /\ Starts(g, m) => f[m] = g[m]}
<1>1. \A n \in Nat : n \in C
  <2>1. 0 \in C
    <3>1. [i \in 0..0 |-> f0] \in [0..0 -> S] /\ Starts([i \in 0..0 |-> f0], 0)
      OBVIOUS
    <3> QED BY <3>1
  <2>2. ASSUME NEW n \in Nat, n \in C
        PROVE  n + 1 \in C
    <3>1. PICK f \in [0..n -> S] : Starts(f, n)
      BY <2>2
    <3> DEFINE g == [i \in 0..(n + 1) |-> IF i <= n THEN f[i] ELSE step[f[n]]]
    <3>2. g \in [0..(n + 1) -> S]
      <4>1. f[n] \in S /\ step[f[n]] \in S
        OBVIOUS
      <4>2. \A i \in 0..(n + 1) : i <= n => f[i] \in S
        OBVIOUS
      <4> QED BY <4>1, <4>2
    <3>3. g[0] = f0
      BY <3>1
    <3>4. \A i \in 0..n : g[i + 1] = step[g[i]]
      BY <3>1
    <3>5. Starts(g, n + 1)
      <4>1. (n + 1) - 1 = n
        OBVIOUS
      <4> QED BY <3>3, <3>4, <4>1
    <3> HIDE DEF g, Starts
    <3> QED BY <3>2, <3>5
  <2> HIDE DEF C
  <2> QED BY <2>1, <2>2, AllNat
<1>2. \A m \in Nat : m \in D
  <2>1. 0 \in D
    OBVIOUS
  <2>2. ASSUME NEW m \in Nat, m \in D
        PROVE  m + 1 \in D
    <3> SUFFICES ASSUME NEW n \in Nat, NEW f \in [0..n -> S], NEW g \in [0..(m + 1) -> S],
                        m + 1 <= n, Starts(f, n), Starts(g, m + 1)
                 PROVE  f[m + 1] = g[m + 1]
      <4> HIDE DEF Starts
      <4> QED BY <2>2
    <3> DEFINE h == [i \in 0..m |-> g[i]]
    <3>1. h \in [0..m -> S] /\ Starts(h, m) /\ h[m] = g[m]
      OBVIOUS
    <3>2. f[m] = h[m]
      <4> HIDE DEF h, Starts
      <4> QED BY <3>1, <2>2
    <3>3. f[m + 1] = step[f[m]] /\ g[m + 1] = step[g[m]]
      OBVIOUS
    <3> QED BY <3>1, <3>2, <3>3
  <2> HIDE DEF D
  <2> QED BY <2>1, <2>2, AllNat
<1> DEFINE F(n) == CHOOSE f \in [0..n -> S] : Starts(f, n)
           h == [n \in Nat |-> F(n)[n]]
<1>3. \A n \in Nat : F(n) \in [0..n -> S] /\ Starts(F(n), n)
  BY <1>1
<1>4. h \in [Nat -> S]
  <2>1. \A n \in Nat : F(n)[n] \in S
    <3> HIDE DEF F, Starts
    <3> QED BY <1>3
  <2> HIDE DEF F
  <2> QED BY <2>1
<1>5. h[0] = f0
  BY <1>3
<1>6. ASSUME NEW n \in Nat
      PROVE  h[n + 1] = step[h[n]]
  <2>1. F(n + 1) \in [0..(n + 1) -> S] /\ Starts(F(n + 1), n + 1)
    <3> HIDE DEF F, Starts
    <3> QED BY <1>3
  <2>2. F(n) \in [0..n -> S] /\ Starts(F(n), n)
    <3> HIDE DEF F, Starts
    <3> QED BY <1>3
  <2>3. F(n + 1)[n] = F(n)[n]
    <3> HIDE DEF F, Starts
    <3>1. n \in D
      BY <1>2
    <3> QED BY <3>1, <2>1, <2>2
  <2>4. F(n + 1)[n + 1] = step[F(n + 1)[n]]
    <3> HIDE DEF F
    <3> QED BY <2>1
  <2> HIDE DEF F, Starts
  <2> QED BY <2>3, <2>4
<1> HIDE DEF h
<1> QED BY <1>4, <1>5, <1>6

\* Powers of two.
LEMMA Twoto ==
  /\ twoto \in [Nat -> Nat] /\ twoto[0] = 1
  /\ \A b \in Nat : twoto[b + 1] = 2 * twoto[b] /\ twoto[b] >= 1
<1> DEFINE step == [x \in Nat |-> 2 * x]
           body(f) == [b \in Nat |-> IF b = 0 THEN 1 ELSE 2 * f[b - 1]]
<1>1. step \in [Nat -> Nat]
  OBVIOUS
<1>2. PICK f \in [Nat -> Nat] : f[0] = 1 /\ \A n \in Nat : f[n + 1] = step[f[n]]
  <2> DEFINE one == 1  S == Nat
  <2>1. one \in S /\ step \in [S -> S]
    BY <1>1
  <2>2. \E f \in [Nat -> S] : f[0] = one /\ \A n \in Nat : f[n + 1] = step[f[n]]
    <3> HIDE DEF step, one, S
    <3> QED BY <2>1, Recursion
  <2> HIDE DEF step
  <2> QED BY <2>2
<1>3. \A b \in Nat : f[b] = body(f)[b]
  <2> TAKE b \in Nat
  <2>1. CASE b = 0
    BY <2>1, <1>2
  <2>2. CASE b # 0
    <3>1. b - 1 \in Nat /\ (b - 1) + 1 = b
      BY <2>2
    <3>2. f[(b - 1) + 1] = 2 * f[b - 1]
      BY <3>1, <1>2
    <3> QED BY <3>1, <3>2, <2>2
  <2> QED BY <2>1, <2>2
<1>4. f = body(f)
  BY <1>3
<1>5. twoto = body(twoto)
  <2>1. twoto = CHOOSE g : g = body(g)
    BY DEF twoto
  <2> HIDE DEF body
  <2> QED BY <2>1, <1>4
<1>6. twoto[0] = 1
  BY <1>5
<1>7. ASSUME NEW b \in Nat
      PROVE  twoto[b + 1] = 2 * twoto[b]
  <2>1. twoto[b + 1] = body(twoto)[b + 1]
    BY <1>5
  <2> QED BY <2>1
<1> DEFINE C == {b \in Nat : twoto[b] \in Nat /\ twoto[b] >= 1}
<1>8. \A b \in Nat : b \in C
  <2>1. 0 \in C
    BY <1>6
  <2>2. \A b \in Nat : b \in C => b + 1 \in C
    BY <1>7
  <2> HIDE DEF C
  <2> QED BY <2>1, <2>2, AllNat
<1>9. twoto \in [Nat -> Nat]
  <2>1. DOMAIN twoto = Nat /\ twoto = [b \in Nat |-> twoto[b]]
    BY <1>5
  <2> QED BY <2>1, <1>8
<1> QED BY <1>6, <1>7, <1>8, <1>9

LEMMA TwotoGrows ==
  /\ \A b \in Nat : b < twoto[b]
  /\ \A a, b \in Nat : a <= b => twoto[a] <= twoto[b]
<1> DEFINE C == {b \in Nat : b < twoto[b]}
           D == {b \in Nat : \A a \in 0..b : twoto[a] <= twoto[b]}
<1>1. \A b \in Nat : b \in C
  <2>1. 0 \in C
    BY Twoto
  <2>2. \A b \in Nat : b \in C => b + 1 \in C
    BY Twoto
  <2> HIDE DEF C
  <2> QED BY <2>1, <2>2, AllNat
<1>2. \A b \in Nat : b \in D
  <2>1. 0 \in D
    BY Twoto
  <2>2. ASSUME NEW b \in Nat, b \in D
        PROVE  b + 1 \in D
    <3>1. twoto[b + 1] = 2 * twoto[b] /\ twoto[b] \in Nat
      BY Twoto
    <3>2. \A a \in 0..(b + 1) : a = b + 1 \/ (a \in 0..b /\ twoto[a] \in Nat)
      BY Twoto
    <3>3. ASSUME NEW a \in 0..(b + 1)
          PROVE  twoto[a] <= twoto[b + 1]
      <4>1. CASE a = b + 1
        BY <4>1, <3>1
      <4>2. CASE a \in 0..b /\ twoto[a] \in Nat
        <5>1. twoto[a] <= twoto[b]
          BY <4>2, <2>2
        <5> QED BY <5>1, <4>2, <3>1
      <4> QED BY <4>1, <4>2, <3>2
    <3> QED BY <3>3
  <2> HIDE DEF D
  <2> QED BY <2>1, <2>2, AllNat
<1>3. \A a, b \in Nat : a <= b => a \in 0..b
  OBVIOUS
<1> QED BY <1>1, <1>2, <1>3

\* ceillog2() rounds up.
LEMMA Ceillog2 ==
  ASSUME NEW n \in Nat
  PROVE  /\ ceillog2(n) \in Nat /\ n <= twoto[ceillog2(n)]
         /\ \A b \in Nat : n <= twoto[b] => ceillog2(n) <= b
<1> DEFINE S == {b \in 0..n : n <= twoto[b]}
<1>1. S \in SUBSET Nat
  OBVIOUS
<1>2. n \in S
  BY TwotoGrows, Twoto
<1>3. Min(S) \in S /\ \A y \in S : Min(S) <= y
  <2> HIDE DEF S
  <2> QED BY <1>1, <1>2, MinIs
<1>4. ceillog2(n) = Min(S)
  BY DEF ceillog2
<1>5. ASSUME NEW b \in Nat, n <= twoto[b]
      PROVE  Min(S) <= b
  <2>1. CASE b <= n
    BY <2>1, <1>5, <1>3
  <2>2. CASE ~(b <= n)
    BY <2>2, <1>3
  <2> QED BY <2>1, <2>2
<1> QED BY <1>3, <1>4, <1>5

-----------------------------------------------------------------------------
(*************************************************************************)
(* Chains.  The next fields lead from node to node, down to an end.      *)
(*************************************************************************)
N(T) == 0..(sizenode(T) - 1)

Shaped(T) ==
  /\ DOMAIN T.node = N(T) /\ N(T) \subseteq Nat
  /\ \A i \in N(T) : T.node[i].next # Nil => T.node[i].next \in N(T)

Ranks(T, r) ==
  /\ r \in [N(T) -> Nat]
  /\ \A i \in N(T) : T.node[i].next # Nil => r[T.node[i].next] < r[i]

Sound(T) == Shaped(T) /\ \E r : Ranks(T, r)

\* No node is the end of a chain.
LEMMA NilIsNoNumber == Nil \notin Nat /\ Nil \notin Keys /\ Nil \notin Values
BY KeysAssumption

\* The equation that defines a chain has a solution.
LEMMA ChainIs ==
  ASSUME NEW T, Shaped(T)
  PROVE  /\ Chain(T, Nil) = {}
         /\ \A n \in N(T) :
              Chain(T, n) = {n} \union
                (IF T.node[n].next = Nil THEN {} ELSE Chain(T, T.node[n].next))
<1> DEFINE next(i) == T.node[i].next
           Closed(C) == \A i \in C : next(i) # Nil => next(i) \in C
           R(m) == {x \in N(T) : \A C \in SUBSET N(T) : m \in C /\ Closed(C) => x \in C}
           body(f) == [m \in DOMAIN T.node \union {Nil} |->
                         IF m = Nil THEN {} ELSE {m} \union f[next(m)]]
           g == [m \in DOMAIN T.node \union {Nil} |-> IF m = Nil THEN {} ELSE R(m)]
<1>1. DOMAIN T.node = N(T) /\ Nil \notin N(T)
  BY NilIsNoNumber DEF Shaped
<1>2. \A i \in N(T) : next(i) # Nil => next(i) \in N(T)
  BY DEF Shaped
<1>3. ASSUME NEW m \in N(T)
      PROVE  R(m) = {m} \union (IF next(m) = Nil THEN {} ELSE R(next(m)))
  <2> DEFINE D == {m} \union (IF next(m) = Nil THEN {} ELSE R(next(m)))
  <2>1. D \subseteq R(m)
    <3>1. m \in R(m)
      OBVIOUS
    <3>2. ASSUME next(m) # Nil, NEW x \in R(next(m))
          PROVE  x \in R(m)
      <4> SUFFICES ASSUME NEW C \in SUBSET N(T), m \in C, Closed(C)
                   PROVE  x \in C
        BY <3>2
      <4>1. next(m) \in C
        BY <3>2
      <4> QED BY <4>1, <3>2
    <3> HIDE DEF R
    <3> QED BY <3>1, <3>2
  <2>2. D \in SUBSET N(T)
    BY <1>2
  <2>3. Closed(D)
    <3> SUFFICES ASSUME NEW i \in D, next(i) # Nil
                 PROVE  next(i) \in D
      BY DEF Closed
    <3>1. CASE i = m
      <4>1. next(m) \in R(next(m))
        BY <3>1, <1>2
      <4> QED BY <4>1, <3>1
    <3>2. CASE i # m
      <4>1. next(m) # Nil /\ i \in R(next(m))
        BY <3>2
      <4>2. next(i) \in N(T)
        BY <4>1, <1>2
      <4>3. next(i) \in R(next(m))
        BY <4>1, <4>2
      <4> HIDE DEF R
      <4> QED BY <4>1, <4>3
    <3> QED BY <3>1, <3>2
  <2>4. R(m) \subseteq D
    <3>1. m \in D
      OBVIOUS
    <3> HIDE DEF D
    <3> QED BY <2>2, <2>3, <3>1
  <2> QED BY <2>1, <2>4
<1>4. g = body(g)
  <2> HIDE DEF R
  <2>1. ASSUME NEW m \in DOMAIN T.node \union {Nil}
        PROVE  g[m] = body(g)[m]
    <3>1. CASE m = Nil
      BY <3>1
    <3>2. CASE m # Nil
      <4>1. m \in N(T) /\ g[m] = R(m) /\ body(g)[m] = {m} \union g[next(m)]
        BY <3>2, <1>1
      <4>2. g[next(m)] = IF next(m) = Nil THEN {} ELSE R(next(m))
        BY <4>1, <1>1, <1>2
      <4> QED BY <4>1, <4>2, <1>3
    <3> QED BY <3>1, <3>2
  <2> HIDE DEF R
  <2> QED BY <2>1
<1> DEFINE from == CHOOSE f : f = body(f)
<1>5. from = body(from)
  <2> HIDE DEF body, g
  <2> QED BY <1>4
<1>6. \A n : Chain(T, n) = from[n]
  BY DEF Chain
<1>7. Chain(T, Nil) = {}
  <2> HIDE DEF from
  <2> QED BY <1>5, <1>6
<1>8. ASSUME NEW n \in N(T)
      PROVE  Chain(T, n) = {n} \union (IF next(n) = Nil THEN {} ELSE Chain(T, next(n)))
  <2> HIDE DEF from
  <2>1. Chain(T, n) = {n} \union from[next(n)]
    BY <1>5, <1>6, <1>1
  <2> QED BY <2>1, <1>6, <1>7
<1> QED BY <1>7, <1>8

\* Induction along the chains.
LEMMA Along ==
  ASSUME NEW T, Sound(T), NEW C,
         \A n \in N(T) : T.node[n].next = Nil \/ T.node[n].next \in C => n \in C
  PROVE  \A n \in N(T) : n \in C
<1>1. PICK r : Ranks(T, r)
  BY DEF Sound
<1> DEFINE S == {r[n] : n \in N(T) \ C}
<1> SUFFICES ASSUME N(T) \ C # {}
             PROVE  FALSE
  OBVIOUS
<1>2. S \in SUBSET Nat /\ S # {}
  BY <1>1 DEF Ranks
<1>3. PICK a \in S : \A b \in S : a <= b
  <2> HIDE DEF S
  <2> QED BY <1>2, Least
<1>4. PICK n \in N(T) \ C : a = r[n]
  BY <1>3
<1>5. T.node[n].next # Nil /\ T.node[n].next \notin C /\ T.node[n].next \in N(T)
  BY <1>4 DEF Sound, Shaped
<1>6. r[T.node[n].next] < r[n] /\ r[T.node[n].next] \in S
  BY <1>5, <1>1 DEF Ranks
<1>7. r[n] <= r[T.node[n].next]
  <2> HIDE DEF S
  <2> QED BY <1>6, <1>3, <1>4
<1> QED BY <1>1, <1>5, <1>6, <1>7 DEF Ranks

\* What a chain consists of.
LEMMA InChain ==
  ASSUME NEW T, Sound(T)
  PROVE  \A x \in N(T) :
           /\ Chain(T, x) \subseteq N(T) /\ x \in Chain(T, x)
           /\ \A y \in Chain(T, x) :
                /\ Chain(T, y) \subseteq Chain(T, x)
                /\ T.node[y].next # Nil => T.node[y].next \in Chain(T, x)
<1> DEFINE next(i) == T.node[i].next
           C == {x \in N(T) : Chain(T, x) \subseteq N(T)}
           D == {x \in N(T) : \A y \in Chain(T, x) : Chain(T, y) \subseteq Chain(T, x)}
<1>0. Shaped(T)
  BY DEF Sound
<1>1. \A n \in N(T) : Chain(T, n) = {n} \union (IF next(n) = Nil THEN {} ELSE Chain(T, next(n)))
  BY <1>0, ChainIs
<1>2. \A n \in N(T) : n \in C
  <2>1. \A n \in N(T) : next(n) = Nil \/ next(n) \in C => n \in C
    BY <1>1
  <2> HIDE DEF C
  <2> QED BY <2>1, Along
<1>3. \A n \in N(T) : n \in D
  <2>1. \A n \in N(T) : next(n) = Nil \/ next(n) \in D => n \in D
    BY <1>1
  <2> HIDE DEF D
  <2> QED BY <2>1, Along
<1>4. ASSUME NEW x \in N(T), NEW y \in Chain(T, x), next(y) # Nil
      PROVE  next(y) \in Chain(T, x)
  <2>1. y \in N(T) /\ next(y) \in N(T)
    BY <1>2, <1>4 DEF Sound, Shaped
  <2>2. next(y) \in Chain(T, y)
    BY <2>1, <1>1, <1>4
  <2> QED BY <2>2, <1>3
<1> QED BY <1>1, <1>2, <1>3, <1>4

\* A chain is a line.
LEMMA ChainOrder ==
  ASSUME NEW T, Sound(T), NEW x \in N(T), NEW y \in Chain(T, x)
  PROVE  /\ x \in Chain(T, y) => x = y
         /\ \A z \in Chain(T, x) : y \in Chain(T, z) \/ z \in Chain(T, y)
         /\ y # x => \E p \in Chain(T, x) : T.node[p].next = y
<1> DEFINE next(i) == T.node[i].next
<1>0. Shaped(T)
  BY DEF Sound
<1>1. \A n \in N(T) : Chain(T, n) = {n} \union (IF next(n) = Nil THEN {} ELSE Chain(T, next(n)))
  BY <1>0, ChainIs
<1>2. y \in N(T)
  BY InChain
<1>3. x \in Chain(T, y) => x = y
  <2>1. PICK r : Ranks(T, r)
    BY DEF Sound
  <2> DEFINE C == {n \in N(T) : \A m \in Chain(T, n) : m \in N(T) /\ (m = n \/ r[m] < r[n])}
  <2>2. \A n \in N(T) : n \in C
    <3>1. ASSUME NEW n \in N(T), next(n) = Nil \/ next(n) \in C
          PROVE  n \in C
      <4>1. CASE next(n) = Nil
        BY <4>1, <1>1
      <4>2. CASE next(n) # Nil
        <5>1. next(n) \in C /\ r[next(n)] < r[n] /\ next(n) \in N(T)
          BY <4>2, <3>1, <2>1, <1>0 DEF Ranks, Shaped
        <5>2. \A m \in Chain(T, n) : m = n \/ m \in Chain(T, next(n))
          BY <1>1, <4>2
        <5>3. \A m \in N(T) : r[m] \in Nat
          BY <2>1 DEF Ranks
        <5>4. ASSUME NEW m \in Chain(T, next(n))
              PROVE  m \in N(T) /\ r[m] < r[n]
          <6>1. m \in N(T) /\ (m = next(n) \/ r[m] < r[next(n)])
            BY <5>1, <5>4
          <6> QED BY <6>1, <5>1, <5>3
        <5> QED BY <5>2, <5>4
      <4> QED BY <4>1, <4>2
    <3> HIDE DEF C
    <3> QED BY <3>1, Along
  <2>3. \A n \in N(T) : r[n] \in Nat
    BY <2>1 DEF Ranks
  <2> QED BY <2>2, <2>3, <1>2
<1>4. \A z \in Chain(T, x) : y \in Chain(T, z) \/ z \in Chain(T, y)
  <2> DEFINE C == {n \in N(T) : \A a, b \in Chain(T, n) : a \in Chain(T, b) \/ b \in Chain(T, a)}
  <2>1. \A n \in N(T) : n \in C
    <3>1. ASSUME NEW n \in N(T), next(n) = Nil \/ next(n) \in C
          PROVE  n \in C
      BY <3>1, <1>1
    <3> HIDE DEF C
    <3> QED BY <3>1, Along
  <2> QED BY <2>1
<1>5. y # x => \E p \in Chain(T, x) : next(p) = y
  <2> DEFINE C == {n \in N(T) : \A a \in Chain(T, n) \ {n} : \E p \in Chain(T, n) : next(p) = a}
  <2>1. \A n \in N(T) : n \in C
    <3>1. ASSUME NEW n \in N(T), next(n) = Nil \/ next(n) \in C
          PROVE  n \in C
      <4>1. CASE next(n) = Nil
        BY <4>1, <1>1
      <4>2. CASE next(n) # Nil
        <5>1. next(n) \in C
          BY <3>1, <4>2
        <5>2. Chain(T, n) = {n} \union Chain(T, next(n))
          BY <1>1, <4>2
        <5> SUFFICES ASSUME NEW a \in Chain(T, n) \ {n}
                     PROVE  \E p \in Chain(T, n) : next(p) = a
          OBVIOUS
        <5>3. CASE a = next(n)
          BY <5>2, <5>3
        <5>4. CASE a # next(n)
          BY <5>1, <5>2, <5>4
        <5> QED BY <5>3, <5>4
      <4> QED BY <4>1, <4>2
    <3> HIDE DEF C
    <3> QED BY <3>1, Along
  <2> QED BY <2>1
<1> QED BY <1>3, <1>4, <1>5

\* A chain is the least set that is closed under next.
LEMMA ChainLeast ==
  ASSUME NEW T, Sound(T), NEW D, NEW x \in N(T), x \in D,
         \A i \in N(T) : i \in D /\ T.node[i].next # Nil => T.node[i].next \in D
  PROVE  Chain(T, x) \subseteq D
<1> DEFINE next(i) == T.node[i].next
           C == {n \in N(T) : n \in D => Chain(T, n) \subseteq D}
<1>1. \A n \in N(T) : Chain(T, n) = {n} \union (IF next(n) = Nil THEN {} ELSE Chain(T, next(n)))
  BY ChainIs DEF Sound
<1>2. \A n \in N(T) : n \in C
  <2>1. \A n \in N(T) : next(n) = Nil \/ next(n) \in C => n \in C
    BY <1>1
  <2> HIDE DEF C
  <2> QED BY <2>1, Along
<1> QED BY <1>2

\* The first of some nodes in a chain: the others are in the chain from it on.
Leads(T, nodes, m, x) ==
  /\ x \in Chain(T, m) \intersect nodes
  /\ \A y \in Chain(T, m) \intersect nodes : y \in Chain(T, x)

LEMMA FirstIs ==
  ASSUME NEW T, Sound(T), NEW nodes, NEW k, mainposition(T, k) \in N(T), Nil \notin nodes
  PROVE  IF Chain(T, mainposition(T, k)) \intersect nodes = {}
         THEN First(T, k, nodes) = Nil
         ELSE Leads(T, nodes, mainposition(T, k), First(T, k, nodes))
<1> DEFINE next(i) == T.node[i].next
           Is(m, x) == IF Chain(T, m) \intersect nodes = {} THEN x = Nil
                       ELSE Leads(T, nodes, m, x)
           body(f) == [m \in DOMAIN T.node \union {Nil} |->
                         IF m \in nodes \union {Nil} THEN m ELSE f[next(m)]]
           g == [m \in DOMAIN T.node \union {Nil} |-> CHOOSE x : Is(m, x)]
<1>1. DOMAIN T.node = N(T) /\ Nil \notin N(T)
  BY NilIsNoNumber DEF Sound, Shaped
<1>2. /\ Chain(T, Nil) = {}
      /\ \A n \in N(T) :
           Chain(T, n) = {n} \union (IF next(n) = Nil THEN {} ELSE Chain(T, next(n)))
  BY ChainIs DEF Sound
<1>3. \A n \in N(T) : next(n) # Nil => next(n) \in N(T)
  BY DEF Sound, Shaped
<1>4. ASSUME NEW m \in N(T), NEW x, NEW y, Is(m, x), Is(m, y)
      PROVE  x = y
  <2>1. CASE Chain(T, m) \intersect nodes = {}
    BY <2>1, <1>4
  <2>2. CASE Chain(T, m) \intersect nodes # {}
    <3>1. x \in Chain(T, m) /\ y \in Chain(T, m) /\ y \in Chain(T, x) /\ x \in Chain(T, y)
      BY <2>2, <1>4 DEF Leads
    <3>2. x \in N(T)
      BY <3>1, InChain
    <3> QED BY <3>1, <3>2, ChainOrder
  <2> QED BY <2>1, <2>2
<1>5. Is(Nil, Nil) /\ \A x : Is(Nil, x) => x = Nil
  BY <1>2
<1>6. ASSUME NEW m \in N(T)
      PROVE  IF m \in nodes THEN Is(m, m) ELSE \A x : Is(next(m), x) => Is(m, x)
  <2>1. CASE m \in nodes
    BY <2>1, <1>2 DEF Leads
  <2>2. CASE m \notin nodes
    <3>1. CASE next(m) = Nil
      BY <2>2, <3>1, <1>2, <1>5
    <3>2. CASE next(m) # Nil
      <4>1. Chain(T, m) \intersect nodes = Chain(T, next(m)) \intersect nodes
        BY <2>2, <3>2, <1>2
      <4> QED BY <4>1, <2>2 DEF Leads
    <3> QED BY <3>1, <3>2
  <2> QED BY <2>1, <2>2
<1>7. \A m \in N(T) : \E x : Is(m, x)
  <2> DEFINE C == {m \in N(T) : \E x : Is(m, x)}
  <2>1. ASSUME NEW m \in N(T), next(m) = Nil \/ next(m) \in C
        PROVE  m \in C
    <3>1. \E x : Is(next(m), x)
      <4> HIDE DEF Is
      <4> QED BY <2>1, <1>5
    <3> HIDE DEF Is
    <3> QED BY <3>1, <1>6
  <2>2. \A m \in N(T) : m \in C
    <3> HIDE DEF C
    <3> QED BY <2>1, Along
  <2> QED BY <2>2
<1>8. \A m \in N(T) : g[m] = (CHOOSE x : Is(m, x)) /\ Is(m, g[m])
  <2> HIDE DEF Is
  <2> QED BY <1>1, <1>7
<1>9. g[Nil] = Nil
  <2>1. Is(Nil, g[Nil])
    <3> HIDE DEF Is
    <3> QED BY <1>5
  <2> HIDE DEF Is, g
  <2> QED BY <2>1, <1>5
<1>10. g = body(g)
  <2>0. g = [m \in DOMAIN T.node \union {Nil} |-> g[m]]
    <3> HIDE DEF Is
    <3> QED OBVIOUS
  <2> SUFFICES ASSUME NEW m \in DOMAIN T.node \union {Nil}
               PROVE  g[m] = IF m \in nodes \union {Nil} THEN m ELSE g[next(m)]
    <3> HIDE DEF g
    <3> QED BY <2>0
  <2>1. CASE m = Nil
    BY <2>1, <1>9
  <2>2. CASE m # Nil /\ m \in nodes
    <3> HIDE DEF Is, g
    <3> QED BY <2>2, <1>1, <1>4, <1>6, <1>8
  <2>3. CASE m # Nil /\ m \notin nodes
    <3>1. m \in N(T) /\ Is(next(m), g[next(m)])
      <4> HIDE DEF Is, g
      <4> QED BY <2>3, <1>1, <1>3, <1>5, <1>8, <1>9
    <3> HIDE DEF Is, g
    <3> QED BY <3>1, <2>3, <1>4, <1>6, <1>8
  <2> HIDE DEF g
  <2> QED BY <2>1, <2>2, <2>3
<1> DEFINE from == CHOOSE f : f = body(f)
<1>11. from = body(from)
  <2> HIDE DEF body, g
  <2> QED BY <1>10
<1>12. First(T, k, nodes) = from[mainposition(T, k)]
  BY DEF First
<1>13. \A m \in N(T) \union {Nil} : from[m] = IF m \in nodes \union {Nil} THEN m ELSE from[next(m)]
  <2> HIDE DEF from
  <2> QED BY <1>11, <1>1
<1> DEFINE C == {m \in N(T) : Is(m, from[m])}
<1>14. ASSUME NEW m \in N(T), next(m) = Nil \/ next(m) \in C
       PROVE  m \in C
  <2> HIDE DEF from
  <2>1. CASE m \in nodes
    <3>1. from[m] = m
      BY <2>1, <1>13
    <3> HIDE DEF Is
    <3> QED BY <3>1, <2>1, <1>6
  <2>2. CASE m \notin nodes
    <3>1. from[m] = from[next(m)] /\ from[Nil] = Nil
      BY <2>2, <1>13, <1>1
    <3>2. Is(next(m), from[next(m)])
      <4> HIDE DEF Is
      <4> QED BY <3>1, <1>14, <1>5
    <3> HIDE DEF Is
    <3> QED BY <3>1, <3>2, <2>2, <1>6
  <2> QED BY <2>1, <2>2
<1>15. \A m \in N(T) : m \in C
  <2> HIDE DEF C
  <2> QED BY <1>14, Along
<1>16. Is(mainposition(T, k), from[mainposition(T, k)])
  <2> HIDE DEF Is, from
  <2> QED BY <1>15
<1> HIDE DEF from
<1> QED BY <1>16, <1>12

-----------------------------------------------------------------------------
(*************************************************************************)
(* Tables that are in order.                                             *)
(*************************************************************************)
Table == [hash : UNION {[K -> Nat] : K \in SUBSET Keys}, array : Seq(Values \union {Nil}),
          lsizenode : Nat, node : UNION {[0..n -> Node] : n \in Nat}, dummy : BOOLEAN,
          lastfree : Int, again : BOOLEAN]

\* The parts have their sizes, and dummynode stays empty.
Typed(T) ==
  /\ T \in Table
  /\ T.node \in [N(T) -> Node] /\ T.lastfree \in -1..sizenode(T)
  /\ T.dummy => T.lsizenode = 0 /\ T.node[0] = Empty /\ T.lastfree <= 0
  /\ Len(T.array) <= MAXASIZE
  /\ \A i \in 1..Len(T.array) : T.array[i] # Nil => i \in DOMAIN T.hash

\* A node without a key is as new, one with a value is not dead, and no node
\* without a key is behind lastfree.
Kept(T) ==
  /\ \A i \in N(T) : T.node[i].key = Nil => T.node[i] = Empty
  /\ \A i \in N(T) : T.node[i].val # Nil => ~T.node[i].dead
  /\ \A i \in N(T) : T.node[i].key # Nil => T.node[i].key \in DOMAIN T.hash
  /\ ~T.dummy /\ T.lastfree >= 0 => \A i \in N(T) : i >= T.lastfree => T.node[i].key # Nil

\* The next fields lead to nodes with keys, no two to the same one, and end.
Joined(T) ==
  /\ \A i \in N(T) : T.node[i].next # Nil =>
       T.node[i].next \in N(T) /\ T.node[T.node[i].next].key # Nil
  /\ \A i, j \in N(T) : T.node[i].next # Nil /\ T.node[i].next = T.node[j].next => i = j
  /\ \E r : Ranks(T, r)

\* A key is in the chain of its main position, which belongs to a key there.
\* Of the nodes with the same key the one that is not dead is the first.
Placed(T) ==
  /\ \A i \in N(T) : T.node[i].key # Nil =>
       /\ i \in Chain(T, mainposition(T, T.node[i].key))
       /\ T.node[mainposition(T, T.node[i].key)].key # Nil
       /\ mainposition(T, T.node[mainposition(T, T.node[i].key)].key)
            = mainposition(T, T.node[i].key)
  /\ \A i, j \in N(T) : /\ T.node[i].key # Nil /\ T.node[i].key = T.node[j].key
                        /\ ~T.node[i].dead
                        => j \in Chain(T, i)

Good(T) == Typed(T) /\ Kept(T) /\ Joined(T) /\ Placed(T)

\* The sizes of the parts, and what is in them.
LEMMA Sizes ==
  ASSUME NEW T, T.lsizenode \in Nat
  PROVE  /\ sizenode(T) \in Nat /\ sizenode(T) >= 1 /\ N(T) \subseteq Nat /\ 0 \in N(T)
         /\ T.lsizenode = 0 => sizenode(T) = 1
         /\ \A k \in DOMAIN T.hash : T.hash[k] \in Nat => mainposition(T, k) \in N(T)
<1>1. sizenode(T) \in Nat /\ sizenode(T) >= 1 /\ (T.lsizenode = 0 => sizenode(T) = 1)
  BY Twoto DEF sizenode
<1>2. N(T) \subseteq Nat /\ 0 \in N(T)
  BY <1>1 DEF N
<1>3. ASSUME NEW k \in DOMAIN T.hash, T.hash[k] \in Nat
      PROVE  mainposition(T, k) \in N(T)
  <2> DEFINE d == IF k \in Strings \/ sizenode(T) = 1 THEN sizenode(T) ELSE sizenode(T) - 1
  <2>1. d \in Nat /\ d >= 1 /\ d <= sizenode(T)
    BY <1>1
  <2>2. mainposition(T, k) = T.hash[k] % d
    BY DEF mainposition
  <2>3. T.hash[k] % d \in 0..(d - 1)
    <3> HIDE DEF d
    <3> QED BY <2>1, <1>3
  <2> HIDE DEF d
  <2> QED BY <2>1, <2>2, <2>3, <1>1 DEF N
<1> QED BY <1>1, <1>2, <1>3

LEMMA Fields ==
  ASSUME NEW T, Typed(T)
  PROVE  /\ sizenode(T) \in Nat /\ sizenode(T) >= 1 /\ N(T) \subseteq Nat /\ 0 \in N(T)
         /\ DOMAIN T.node = N(T) /\ Nil \notin N(T)
         /\ DOMAIN T.hash \subseteq Keys /\ T.hash \in [DOMAIN T.hash -> Nat]
         /\ \A k \in DOMAIN T.hash : mainposition(T, k) \in N(T) /\ k # Nil
         /\ \A i \in N(T) : T.node[i] \in Node
         /\ sizearray(T) \in Nat /\ DOMAIN T.array = 1..sizearray(T) /\ sizearray(T) <= MAXASIZE
         /\ \A i \in 1..sizearray(T) : T.array[i] \in Values \union {Nil}
         /\ \A i \in 1..sizearray(T) : T.array[i] # Nil => i \in DOMAIN T.hash
<1>1. T.lsizenode \in Nat /\ T.array \in Seq(Values \union {Nil}) /\ T.node \in [N(T) -> Node]
  BY DEF Typed, Table
<1>2. DOMAIN T.hash \subseteq Keys /\ T.hash \in [DOMAIN T.hash -> Nat]
  BY DEF Typed, Table
<1>3. \A k \in DOMAIN T.hash : mainposition(T, k) \in N(T) /\ k # Nil
  BY <1>1, <1>2, Sizes, NilIsNoNumber
<1>4. sizearray(T) \in Nat /\ DOMAIN T.array = 1..sizearray(T)
  BY <1>1 DEF sizearray
<1>5. \A i \in 1..sizearray(T) : T.array[i] \in Values \union {Nil}
  BY <1>1 DEF sizearray
<1>6. /\ sizearray(T) <= MAXASIZE
      /\ \A i \in 1..sizearray(T) : T.array[i] # Nil => i \in DOMAIN T.hash
  BY DEF Typed, sizearray
<1>7. sizenode(T) \in Nat /\ sizenode(T) >= 1 /\ N(T) \subseteq Nat /\ 0 \in N(T)
  BY <1>1, Sizes
<1>8. Nil \notin N(T)
  BY <1>7, NilIsNoNumber
<1>9. DOMAIN T.node = N(T) /\ \A i \in N(T) : T.node[i] \in Node
  BY <1>1
<1> QED BY <1>2, <1>3, <1>4, <1>5, <1>6, <1>7, <1>8, <1>9

LEMMA GoodIsSound ==
  ASSUME NEW T, Typed(T), Joined(T)
  PROVE  Sound(T)
BY Fields DEF Sound, Shaped, Joined

\* findindex() finds a node with the key if there is one, and the one that is
\* not dead if there is one; luaH_get() finds that one only.
LEMMA FindIs ==
  ASSUME NEW T, Good(T), NEW k \in DOMAIN T.hash
  PROVE  LET f == First(T, k, Holding(T, k))
         IN  /\ f = Nil => \A i \in N(T) : T.node[i].key # k
             /\ f # Nil => f \in N(T) /\ T.node[f].key = k
             /\ \A i \in N(T) : T.node[i].key = k /\ ~T.node[i].dead => f = i
<1> DEFINE m == mainposition(T, k)
           f == First(T, k, Holding(T, k))
<1>1. Sound(T) /\ m \in N(T) /\ Nil \notin N(T) /\ k # Nil /\ DOMAIN T.node = N(T)
  BY GoodIsSound, Fields DEF Good
<1>2. Holding(T, k) \subseteq N(T) /\ \A i \in N(T) : i \in Holding(T, k) <=> T.node[i].key = k
  BY <1>1 DEF Holding
<1>3. Holding(T, k) \subseteq Chain(T, m)
  BY <1>1, <1>2 DEF Good, Placed
<1>4. Nil \notin Holding(T, k)
  BY <1>1, <1>2
<1>5. IF Holding(T, k) = {} THEN f = Nil ELSE Leads(T, Holding(T, k), m, f)
  <2>1. Chain(T, m) \intersect Holding(T, k) = Holding(T, k)
    BY <1>3
  <2> QED BY <2>1, <1>1, <1>4, FirstIs
<1>6. ASSUME NEW i \in N(T), T.node[i].key = k, ~T.node[i].dead
      PROVE  f = i
  <2>1. i \in Holding(T, k) /\ Leads(T, Holding(T, k), m, f)
    BY <1>2, <1>5, <1>6
  <2>2. f \in Holding(T, k) /\ f \in N(T) /\ i \in Chain(T, f)
    BY <2>1, <1>3, <1>2 DEF Leads
  <2>3. f \in Chain(T, i)
    BY <2>2, <1>1, <1>2, <1>6 DEF Good, Placed
  <2> QED BY <2>2, <2>3, <1>1, ChainOrder
<1>7. f # Nil => f \in Holding(T, k)
  BY <1>5 DEF Leads
<1>8. f = Nil => Holding(T, k) = {}
  BY <1>4, <1>5 DEF Leads
<1> QED BY <1>2, <1>6, <1>7, <1>8

LEMMA SearchIs ==
  ASSUME NEW T, Good(T), NEW k \in DOMAIN T.hash
  PROVE  /\ Search(T, k) = Nil => \A i \in N(T) : T.node[i].key = k => T.node[i].dead
         /\ Search(T, k) # Nil => /\ Search(T, k) \in N(T) /\ T.node[Search(T, k)].key = k
                                  /\ ~T.node[Search(T, k)].dead
         /\ \A i \in N(T) : T.node[i].key = k /\ ~T.node[i].dead => Search(T, k) = i
<1> DEFINE m == mainposition(T, k)
           H == {i \in Holding(T, k) : ~T.node[i].dead}
           f == Search(T, k)
<1>1. Sound(T) /\ m \in N(T) /\ Nil \notin N(T) /\ k # Nil /\ DOMAIN T.node = N(T)
  BY GoodIsSound, Fields DEF Good
<1>2. \A i \in H : i \in N(T) /\ T.node[i].key = k /\ ~T.node[i].dead
  BY <1>1 DEF Holding
<1>3. \A i \in N(T) : T.node[i].key = k /\ ~T.node[i].dead => i \in H
  BY <1>1 DEF Holding
<1>4. f = First(T, k, H)
  BY DEF Search
<1> HIDE DEF H, f
<1>5. H \subseteq Chain(T, m) /\ Nil \notin H
  BY <1>1, <1>2 DEF Good, Placed
<1>6. IF H = {} THEN f = Nil ELSE Leads(T, H, m, f)
  <2>1. Chain(T, m) \intersect H = H
    BY <1>5
  <2> QED BY <2>1, <1>1, <1>4, <1>5, FirstIs
<1>7. ASSUME NEW i \in H
      PROVE  f = i
  <2>1. f \in H /\ f \in N(T) /\ i \in N(T) /\ i \in Chain(T, f)
    BY <1>7, <1>6, <1>2, <1>5 DEF Leads
  <2>2. f \in Chain(T, i)
    BY <2>1, <1>1, <1>2, <1>7 DEF Good, Placed
  <2> QED BY <2>1, <2>2, <1>1, ChainOrder
<1>8. f # Nil => f \in H
  BY <1>6 DEF Leads
<1>9. f = Nil => H = {}
  BY <1>5, <1>7
<1> USE DEF f
<1> QED BY <1>2, <1>3, <1>7, <1>8, <1>9

\* A value for a key outside the array part is in one node.
Holds(T, k, v) == \E i \in N(T) : T.node[i].key = k /\ T.node[i].val = v

LEMMA GetIs ==
  ASSUME NEW T, Good(T), NEW k \in DOMAIN T.hash
  PROVE  /\ luaH_get(T, k) \in Values \union {Nil}
         /\ InArray(T, k) => luaH_get(T, k) = T.array[k] /\ k \in 1..sizearray(T)
         /\ ~InArray(T, k) => \A v : v # Nil => (luaH_get(T, k) = v <=> Holds(T, k, v))
<1> DEFINE n == Search(T, k)
<1>1. /\ Nil \notin N(T) /\ \A i \in N(T) : T.node[i] \in Node
      /\ \A i \in 1..sizearray(T) : T.array[i] \in Values \union {Nil}
  BY Fields DEF Good
<1>2. CASE InArray(T, k)
  <2>1. luaH_get(T, k) = T.array[k] /\ k \in 1..sizearray(T)
    BY <1>2 DEF luaH_get, InArray
  <2> QED BY <2>1, <1>1, <1>2
<1>3. CASE ~InArray(T, k)
  <2>1. luaH_get(T, k) = IF n = Nil THEN Nil ELSE T.node[n].val
    BY <1>3 DEF luaH_get
  <2>2. /\ n = Nil => \A i \in N(T) : T.node[i].key = k => T.node[i].dead
        /\ n # Nil => n \in N(T) /\ T.node[n].key = k /\ ~T.node[n].dead
        /\ \A i \in N(T) : T.node[i].key = k /\ ~T.node[i].dead => n = i
    BY SearchIs
  <2> HIDE DEF n
  <2>3. \A i \in N(T) : T.node[i].val # Nil => ~T.node[i].dead
    BY DEF Good, Kept
  <2>4. luaH_get(T, k) \in Values \union {Nil}
    BY <2>1, <2>2, <1>1 DEF Node
  <2>5. \A v : v # Nil => (luaH_get(T, k) = v <=> Holds(T, k, v))
    BY <2>1, <2>2, <2>3 DEF Holds
  <2> QED BY <2>4, <2>5, <1>3
<1> QED BY <1>2, <1>3

\* Two tables that hold the same values give the same.
LEMMA SameGet ==
  ASSUME NEW T, NEW U, Good(T), Good(U), NEW k \in DOMAIN T.hash, k \in DOMAIN U.hash,
         ~InArray(T, k), ~InArray(U, k),
         \A v : v # Nil => (Holds(T, k, v) <=> Holds(U, k, v))
  PROVE  luaH_get(T, k) = luaH_get(U, k)
BY GetIs

-----------------------------------------------------------------------------
(*************************************************************************)
(* newkey().                                                             *)
(*************************************************************************)
\* A store changes nodes only, and lastfree.
SameFrame(T, U) ==
  /\ U \in Table /\ U.node \in [N(T) -> Node]
  /\ U.hash = T.hash /\ U.array = T.array /\ U.lsizenode = T.lsizenode
  /\ U.dummy = T.dummy /\ U.again = T.again

LEMMA SamePlaces ==
  ASSUME NEW T, NEW U, SameFrame(T, U)
  PROVE  /\ sizenode(U) = sizenode(T) /\ N(U) = N(T) /\ sizearray(U) = sizearray(T)
         /\ \A k : mainposition(U, k) = mainposition(T, k)
         /\ \A k : InArray(U, k) <=> InArray(T, k)
BY DEF SameFrame, sizenode, sizearray, N, mainposition, InArray

\* What a new key must find: a place to go.
New(T, k) ==
  /\ k \in DOMAIN T.hash /\ ~InArray(T, k) /\ Search(T, k) = Nil
  /\ ~(Collides(T, k) /\ FreeNodes(T) = {})

LEMMA FreePosition ==
  ASSUME NEW T, Good(T), FreeNodes(T) # {}
  PROVE  LET n == getfreepos(T)
         IN  /\ n \in N(T) /\ T.node[n].key = Nil /\ T.node[n] = Empty /\ ~T.dummy
             /\ n \in -1..sizenode(T) /\ T.lastfree >= 0
             /\ \A i \in N(T) : i > n => T.node[i].key # Nil
<1> DEFINE n == getfreepos(T)
           F == FreeNodes(T)
<1>1. T.lastfree \in -1..sizenode(T) /\ sizenode(T) \in Nat
  BY Fields DEF Good, Typed
<1>2. \A i : i \in F <=> i \in 0..(T.lastfree - 1) /\ T.node[i].key = Nil
  BY DEF FreeNodes
<1>3. F \in SUBSET (0..sizenode(T)) /\ F \subseteq N(T) /\ T.lastfree >= 1
  BY <1>1, <1>2 DEF N
<1>4. n = Max(F)
  BY DEF getfreepos
<1> HIDE DEF F, n
<1>5. n \in F /\ \A i \in F : n >= i
  BY <1>1, <1>3, <1>4, MaxIs DEF F
<1>6. ~T.dummy
  BY <1>3 DEF Good, Typed
<1>7. ASSUME NEW i \in N(T), i > n
      PROVE  T.node[i].key # Nil
  <2>1. n \in Int /\ i \in Nat
    BY <1>1, <1>3, <1>5 DEF N
  <2>2. i \notin F
    BY <1>5, <1>7, <2>1, <1>3
  <2>3. CASE i < T.lastfree
    BY <2>1, <2>2, <2>3, <1>1, <1>2
  <2>4. CASE ~(i < T.lastfree)
    BY <2>1, <2>4, <1>1, <1>3, <1>6 DEF Good, Kept
  <2> QED BY <2>3, <2>4
<1>8. n \in N(T) /\ T.node[n].key = Nil /\ T.node[n] = Empty
  BY <1>2, <1>3, <1>5 DEF Good, Kept
<1>9. n \in -1..sizenode(T) /\ T.lastfree >= 0
  BY <1>1, <1>3, <1>5
<1> USE DEF n
<1> QED BY <1>6, <1>7, <1>8, <1>9

\* What newkey() does to the nodes: it stores into a main position without a
\* value, ...
Reuses(T, U, k, v) ==
  LET mp == mainposition(T, k)
  IN  /\ ~T.dummy /\ T.node[mp].val = Nil /\ U.lastfree = T.lastfree
      /\ U.node[mp] = Entry(k, v, T.node[mp].next)
      /\ \A i \in N(T) \ {mp} : U.node[i] = T.node[i]

\* ... or moves what is not in its main position to a free node, ...
Moves(T, U, k, v, n, p) ==
  LET mp == mainposition(T, k)
  IN  /\ n \in N(T) /\ T.node[n] = Empty /\ \A i \in N(T) : i > n => T.node[i].key # Nil
      /\ ~T.dummy /\ T.node[mp].val # Nil /\ U.lastfree = n
      /\ mainposition(T, T.node[mp].key) # mp
      /\ p \in N(T) /\ T.node[p].next = mp /\ p # mp /\ p # n
      /\ U.node[mp] = Entry(k, v, Nil) /\ U.node[n] = T.node[mp]
      /\ U.node[p] = [T.node[p] EXCEPT !.next = n]
      /\ \A i \in N(T) \ {mp, n, p} : U.node[i] = T.node[i]

\* ... or takes a free node and puts it behind the main position.
Chains(T, U, k, v, n) ==
  LET mp == mainposition(T, k)
  IN  /\ n \in N(T) /\ T.node[n] = Empty /\ \A i \in N(T) : i > n => T.node[i].key # Nil
      /\ ~T.dummy /\ T.node[mp].val # Nil /\ U.lastfree = n
      /\ mainposition(T, T.node[mp].key) = mp
      /\ U.node[mp] = [T.node[mp] EXCEPT !.next = n]
      /\ U.node[n] = Entry(k, v, T.node[mp].next)
      /\ \A i \in N(T) \ {mp, n} : U.node[i] = T.node[i]

\* The table is in order after it, holds v for k and the same for other keys.
Stored(T, U, k, v) ==
  /\ Good(U)
  /\ \A w : w # Nil => /\ Holds(U, k, w) <=> w = v
                       /\ \A j : j # k => (Holds(U, j, w) <=> Holds(T, j, w))
  /\ \A i \in N(T) : \/ U.node[i].key = k /\ ~U.node[i].dead
                     \/ \E j \in N(T) : /\ U.node[i].key = T.node[j].key
                                        /\ U.node[i].dead = T.node[j].dead

LEMMA newkeyIs ==
  ASSUME NEW T, Good(T), NEW k, New(T, k), NEW v \in Values \union {Nil}
  PROVE  LET U == newkey(T, k, v)
         IN  /\ SameFrame(T, U)
             /\ \/ Reuses(T, U, k, v)
                \/ \E n, p \in N(T) : Moves(T, U, k, v, n, p)
                \/ \E n \in N(T) : Chains(T, U, k, v, n)
<1> DEFINE mp == mainposition(T, k)
           n  == getfreepos(T)
           othern == mainposition(T, T.node[mp].key)
           before == CHOOSE p \in Chain(T, othern) : T.node[p].next = mp
           U == newkey(T, k, v)
           D == {"hash", "array", "lsizenode", "node", "dummy", "lastfree", "again"}
<1>1. /\ k \in DOMAIN T.hash /\ k \in Keys /\ mp \in N(T) /\ N(T) \subseteq Nat
      /\ T \in Table /\ T.node \in [N(T) -> Node] /\ T.lastfree \in Int
      /\ sizenode(T) \in Nat /\ sizenode(T) >= 1
  BY Fields DEF New, Good, Typed, Table
<1>2. \A x \in Node : x.next \in Nat \union {Nil}
  BY DEF Node
<1>3. \A x \in Nat \union {Nil} : Entry(k, v, x) \in Node
  BY <1>1 DEF Entry, Node
<1>4. \A f \in [N(T) -> Node], l \in Int :
        [T EXCEPT !.lastfree = l, !.node = f] \in Table
  <2>1. ASSUME NEW f \in [N(T) -> Node]
        PROVE  f \in UNION {[0..m -> Node] : m \in Nat}
    <3>1. sizenode(T) - 1 \in Nat
      BY <1>1
    <3> QED BY <3>1, <2>1 DEF N
  <2> QED BY <2>1, <1>1 DEF Table
<1>5. CASE ~Collides(T, k)
  <2> DEFINE f == [T.node EXCEPT ![mp] = Entry(k, v, T.node[mp].next)]
  <2>1. U = [T EXCEPT !.lastfree = T.lastfree, !.node = f]
    BY <1>1, <1>5 DEF newkey, Table
  <2>2. f \in [N(T) -> Node]
    BY <1>1, <1>2, <1>3
  <2>3. U \in Table /\ U.node = f /\ U.lastfree = T.lastfree
    <3> HIDE DEF f, U
    <3> QED BY <2>1, <2>2, <1>4, <1>1 DEF Table
  <2>4. U.hash = T.hash /\ U.array = T.array /\ U.lsizenode = T.lsizenode
        /\ U.dummy = T.dummy /\ U.again = T.again
    <3> HIDE DEF f, U
    <3> QED BY <2>1, <1>1 DEF Table
  <2>5. /\ f[mp] = Entry(k, v, T.node[mp].next)
        /\ \A i \in N(T) \ {mp} : f[i] = T.node[i]
    BY <1>1
  <2>6. ~T.dummy /\ T.node[mp].val = Nil
    BY <1>5 DEF Collides
  <2> HIDE DEF f, U
  <2>7. SameFrame(T, U)
    BY <2>2, <2>3, <2>4 DEF SameFrame
  <2>8. Reuses(T, U, k, v)
    BY <2>3, <2>5, <2>6 DEF Reuses
  <2> USE DEF U
  <2> QED BY <2>7, <2>8
<1>6. ASSUME Collides(T, k)
      PROVE  /\ n \in N(T) /\ n \in Int /\ T.node[n].key = Nil /\ T.node[n] = Empty /\ ~T.dummy
             /\ \A i \in N(T) : i > n => T.node[i].key # Nil
             /\ T.node[mp].val # Nil /\ mp # n
  <2>1. FreeNodes(T) # {}
    BY <1>6 DEF New
  <2>2. n \in N(T) /\ T.node[n].key = Nil /\ T.node[n] = Empty /\ ~T.dummy
        /\ \A i \in N(T) : i > n => T.node[i].key # Nil
    BY <2>1, FreePosition
  <2>3. T.node[mp].val # Nil
    BY <1>6, <2>2 DEF Collides
  <2>4. n \in Int
    BY <2>2, <1>1
  <2>5. mp # n
    BY <2>2, <2>3 DEF Empty
  <2> HIDE DEF n
  <2> QED BY <2>2, <2>3, <2>4, <2>5
<1>7. CASE Collides(T, k) /\ othern # mp
  <2>1. Sound(T) /\ T.node[mp].key # Nil /\ mp \in Chain(T, othern) /\ othern \in N(T)
    <3>1. T.node[mp].key # Nil
      BY <1>1, <1>6, <1>7 DEF Good, Kept, Empty
    <3>2. othern \in N(T)
      BY <3>1, <1>1, Fields DEF Good, Kept
    <3>3. Sound(T) /\ mp \in Chain(T, othern)
      BY <3>1, <1>1, GoodIsSound DEF Good, Placed
    <3> QED BY <3>1, <3>2, <3>3
  <2>2. \E p \in Chain(T, othern) : T.node[p].next = mp
    BY <2>1, <1>7, ChainOrder
  <2>3. before \in N(T) /\ T.node[before].next = mp
    BY <2>1, <2>2, InChain
  <2>4. before # n
    <3> HIDE DEF n, before, othern, mp
    <3> QED BY <2>3, <1>6, <1>7, <1>1, NilIsNoNumber DEF Empty
  <2>5. before # mp
    <3>1. PICK r : Ranks(T, r)
      BY <2>1 DEF Sound
    <3>2. mp # Nil /\ r[mp] \in Nat /\ (T.node[mp].next # Nil => r[T.node[mp].next] < r[mp])
      BY <3>1, <1>1, NilIsNoNumber DEF Ranks
    <3> HIDE DEF before, mp
    <3> QED BY <2>3, <3>2
  <2> DEFINE f == [T.node EXCEPT ![before].next = n, ![n] = T.node[mp],
                                 ![mp] = Entry(k, v, Nil)]
  <2>6. U = [T EXCEPT !.lastfree = n, !.node = f]
    <3>1. U = [T EXCEPT !.lastfree = n, !.node[before].next = n,
                        !.node[n] = T.node[mp], !.node[mp] = Entry(k, v, Nil)]
      BY <1>7, Zenon DEF newkey
    <3> HIDE DEF n, before, mp, U
    <3> QED BY <3>1, <1>1 DEF Table
  <2> HIDE DEF n, before
  <2>7. f \in [N(T) -> Node]
    <3>1. [T.node[before] EXCEPT !.next = n] \in Node
      BY <2>3, <1>1, <1>6, <1>7 DEF Node
    <3>2. Entry(k, v, Nil) \in Node /\ T.node[mp] \in Node
      BY <1>1, <1>3
    <3> QED BY <3>1, <3>2, <2>3, <1>1, <1>6, <1>7
  <2>8. U \in Table /\ U.node = f /\ U.lastfree = n
    <3> HIDE DEF f, U
    <3> QED BY <2>6, <2>7, <1>4, <1>1, <1>6, <1>7 DEF Table
  <2>9. U.hash = T.hash /\ U.array = T.array /\ U.lsizenode = T.lsizenode
        /\ U.dummy = T.dummy /\ U.again = T.again
    <3> HIDE DEF f, U
    <3> QED BY <2>6, <1>1 DEF Table
  <2>10. /\ f[mp] = Entry(k, v, Nil) /\ f[n] = T.node[mp]
         /\ f[before] = [T.node[before] EXCEPT !.next = n]
         /\ \A i \in N(T) \ {mp, n, before} : f[i] = T.node[i]
    BY <1>1, <1>6, <1>7, <2>3, <2>4, <2>5
  <2> HIDE DEF f, U
  <2>11. SameFrame(T, U)
    BY <2>7, <2>8, <2>9 DEF SameFrame
  <2>12. Moves(T, U, k, v, n, before)
    BY <2>3, <2>4, <2>5, <2>8, <2>10, <1>6, <1>7 DEF Moves
  <2> USE DEF U
  <2> QED BY <2>3, <2>11, <2>12, <1>6, <1>7
<1>8. CASE Collides(T, k) /\ othern = mp
  <2> DEFINE f == [T.node EXCEPT ![n] = Entry(k, v, T.node[mp].next), ![mp].next = n]
  <2>1. U = [T EXCEPT !.lastfree = n, !.node = f]
    BY <1>1, <1>8 DEF newkey, Table
  <2> HIDE DEF n
  <2>2. f \in [N(T) -> Node]
    <3>1. [T.node[mp] EXCEPT !.next = n] \in Node
      BY <1>1, <1>6, <1>8 DEF Node
    <3>2. Entry(k, v, T.node[mp].next) \in Node
      BY <1>1, <1>2, <1>3
    <3> QED BY <3>1, <3>2, <1>1, <1>6, <1>8
  <2>3. U \in Table /\ U.node = f /\ U.lastfree = n
    <3> HIDE DEF f, U
    <3> QED BY <2>1, <2>2, <1>4, <1>1, <1>6, <1>8 DEF Table
  <2>4. U.hash = T.hash /\ U.array = T.array /\ U.lsizenode = T.lsizenode
        /\ U.dummy = T.dummy /\ U.again = T.again
    <3> HIDE DEF f, U
    <3> QED BY <2>1, <1>1 DEF Table
  <2>5. /\ f[n] = Entry(k, v, T.node[mp].next)
        /\ f[mp] = [T.node[mp] EXCEPT !.next = n]
        /\ \A i \in N(T) \ {mp, n} : f[i] = T.node[i]
    BY <1>1, <1>6, <1>8
  <2> HIDE DEF f, U
  <2>6. SameFrame(T, U)
    BY <2>2, <2>3, <2>4 DEF SameFrame
  <2>7. Chains(T, U, k, v, n)
    BY <2>3, <2>5, <1>6, <1>8 DEF Chains
  <2> USE DEF U
  <2> QED BY <2>6, <2>7, <1>6, <1>8
<1> QED BY <1>5, <1>7, <1>8

LEMMA FrameTyped ==
  ASSUME NEW T, NEW U, Good(T), SameFrame(T, U), ~T.dummy, U.lastfree \in -1..sizenode(T)
  PROVE  Typed(U)
BY SamePlaces DEF SameFrame, Good, Typed

LEMMA ReusesStores ==
  ASSUME NEW T, Good(T), NEW k, New(T, k), NEW v \in Values \union {Nil},
         NEW U, SameFrame(T, U), Reuses(T, U, k, v)
  PROVE  Stored(T, U, k, v)
<1> DEFINE mp == mainposition(T, k)
<1>1. /\ k \in DOMAIN T.hash /\ k # Nil /\ mp \in N(T) /\ Nil \notin N(T)
      /\ N(U) = N(T) /\ \A j : mainposition(U, j) = mainposition(T, j)
      /\ \A i \in N(T) : T.node[i] \in Node /\ U.node[i] \in Node
      /\ U.hash = T.hash
  BY Fields, SamePlaces DEF New, Good, SameFrame
<1>2. /\ U.node[mp] = [key |-> k, dead |-> FALSE, val |-> v, next |-> T.node[mp].next]
      /\ \A i \in N(T) \ {mp} : U.node[i] = T.node[i]
      /\ T.node[mp].val = Nil /\ ~T.dummy /\ U.lastfree = T.lastfree
  BY DEF Reuses, Entry
<1>3. \A i \in N(T) : U.node[i].next = T.node[i].next
  BY <1>1, <1>2
<1>4. \A i \in N(T) : T.node[i].key # Nil => U.node[i].key # Nil
  BY <1>1, <1>2
<1>5. Sound(T)
  BY GoodIsSound DEF Good
<1>6. \A i \in N(T) : T.node[i].key = k => T.node[i].dead
  BY SearchIs DEF New
<1>7. Typed(U)
  BY <1>2, FrameTyped DEF Good, Typed
<1>8. Kept(U)
  <2>1. \A i \in N(U) : U.node[i].key = Nil => U.node[i] = Empty
    BY <1>1, <1>2 DEF Good, Kept
  <2>2. \A i \in N(U) : U.node[i].val # Nil => ~U.node[i].dead
    BY <1>1, <1>2 DEF Good, Kept
  <2>3. \A i \in N(U) : U.node[i].key # Nil => U.node[i].key \in DOMAIN U.hash
    BY <1>1, <1>2 DEF Good, Kept
  <2>4. ~U.dummy /\ U.lastfree >= 0 => \A i \in N(U) : i >= U.lastfree => U.node[i].key # Nil
    BY <1>1, <1>2, <1>4 DEF Good, Kept
  <2> QED BY <2>1, <2>2, <2>3, <2>4 DEF Kept
<1>9. Joined(U)
  <2>1. \A i \in N(U) : U.node[i].next # Nil =>
          U.node[i].next \in N(U) /\ U.node[U.node[i].next].key # Nil
    BY <1>1, <1>3, <1>4 DEF Good, Joined
  <2>2. \A i, j \in N(U) : U.node[i].next # Nil /\ U.node[i].next = U.node[j].next => i = j
    BY <1>1, <1>3 DEF Good, Joined
  <2>3. \E r : Ranks(U, r)
    BY <1>1, <1>3 DEF Good, Joined, Ranks
  <2> QED BY <2>1, <2>2, <2>3 DEF Joined
<1>10. Sound(U)
  BY <1>7, <1>9, GoodIsSound
<1>11. \A i \in N(T) : Chain(T, i) \subseteq Chain(U, i)
  <2> TAKE i \in N(T)
  <2>1. i \in Chain(U, i) /\ \A j \in Chain(U, i) : U.node[j].next # Nil => U.node[j].next \in Chain(U, i)
    BY <1>1, <1>10, InChain
  <2> QED BY <2>1, <1>3, <1>5, ChainLeast
<1>12. Placed(U)
  <2>1. ASSUME NEW i \in N(U), U.node[i].key # Nil
        PROVE  /\ i \in Chain(U, mainposition(U, U.node[i].key))
               /\ U.node[mainposition(U, U.node[i].key)].key # Nil
               /\ mainposition(U, U.node[mainposition(U, U.node[i].key)].key)
                    = mainposition(U, U.node[i].key)
    <3>1. CASE i = mp
      <4>1. U.node[i].key = k /\ mainposition(U, U.node[i].key) = mp
        BY <3>1, <1>1, <1>2
      <4>2. mp \in Chain(U, mp)
        BY <1>1, <1>10, InChain
      <4> QED BY <3>1, <4>1, <4>2, <1>1
    <3>2. CASE i # mp
      <4> DEFINE m == mainposition(T, T.node[i].key)
      <4>1. U.node[i] = T.node[i] /\ mainposition(U, U.node[i].key) = m
        BY <3>2, <1>1, <1>2
      <4>2. /\ i \in Chain(T, m) /\ T.node[m].key # Nil /\ m \in N(T)
            /\ mainposition(T, T.node[m].key) = m
        BY <4>1, <2>1, <1>1, Fields DEF Good, Placed, Kept
      <4>3. i \in Chain(U, m) /\ U.node[m].key # Nil
        BY <4>2, <1>4, <1>11
      <4>4. mainposition(U, U.node[m].key) = m
        BY <4>2, <1>1, <1>2
      <4> QED BY <4>1, <4>3, <4>4
    <3> QED BY <3>1, <3>2
  <2>2. ASSUME NEW i \in N(U), NEW j \in N(U), U.node[i].key # Nil,
               U.node[i].key = U.node[j].key, ~U.node[i].dead
        PROVE  j \in Chain(U, i)
    <3>1. CASE i = mp
      <4>1. mainposition(U, U.node[j].key) = mp
        BY <3>1, <2>2, <1>1, <1>2
      <4> QED BY <4>1, <3>1, <2>1, <2>2
    <3>2. CASE i # mp
      <4>1. U.node[i] = T.node[i] /\ T.node[i].key # k
        BY <3>2, <1>1, <1>2, <1>6, <2>2
      <4>2. j # mp
        BY <4>1, <2>2, <1>2
      <4>3. j \in Chain(T, i)
        BY <4>1, <4>2, <2>2, <1>1, <1>2 DEF Good, Placed
      <4> QED BY <4>3, <1>1, <1>11
    <3> QED BY <3>1, <3>2
  <2> QED BY <2>1, <2>2 DEF Placed
<1>13. ASSUME NEW w, w # Nil
       PROVE  /\ Holds(U, k, w) <=> w = v
              /\ \A j : j # k => (Holds(U, j, w) <=> Holds(T, j, w))
  <2>1. ~Holds(T, k, w)
    BY <1>1, <1>6, <1>13 DEF Good, Kept, Holds
  <2> QED BY <2>1, <1>1, <1>2, <1>13 DEF Holds
<1>14. ASSUME NEW i \in N(T)
       PROVE  \/ U.node[i].key = k /\ ~U.node[i].dead
              \/ \E j \in N(T) : /\ U.node[i].key = T.node[j].key
                                 /\ U.node[i].dead = T.node[j].dead
  BY <1>2
<1> QED BY <1>7, <1>8, <1>9, <1>12, <1>13, <1>14 DEF Stored, Good

LEMMA ChainsStores ==
  ASSUME NEW T, Good(T), NEW k, New(T, k), NEW v \in Values \union {Nil},
         NEW U, SameFrame(T, U), NEW n \in N(T), Chains(T, U, k, v, n)
  PROVE  Stored(T, U, k, v)
<1> DEFINE mp == mainposition(T, k)
<1>1. /\ k \in DOMAIN T.hash /\ k # Nil /\ mp \in N(T) /\ Nil \notin N(T)
      /\ N(U) = N(T) /\ \A j : mainposition(U, j) = mainposition(T, j)
      /\ \A i \in N(T) : T.node[i] \in Node /\ U.node[i] \in Node
      /\ U.hash = T.hash /\ N(T) \subseteq Nat /\ sizenode(T) \in Nat
  BY Fields, SamePlaces DEF New, Good, SameFrame
<1>2. /\ U.node[n] = [key |-> k, dead |-> FALSE, val |-> v, next |-> T.node[mp].next]
      /\ U.node[mp] = [T.node[mp] EXCEPT !.next = n]
      /\ \A i \in N(T) \ {mp, n} : U.node[i] = T.node[i]
      /\ T.node[mp].val # Nil /\ ~T.dummy /\ U.lastfree = n
      /\ T.node[n].key = Nil /\ T.node[n].val = Nil /\ T.node[n].next = Nil
      /\ \A i \in N(T) : i > n => T.node[i].key # Nil
      /\ mainposition(T, T.node[mp].key) = mp
  BY DEF Chains, Entry, Empty
<1>3. /\ T.node[mp].key # Nil /\ ~T.node[mp].dead /\ mp # n
      /\ U.node[mp].key = T.node[mp].key /\ U.node[mp].val = T.node[mp].val
      /\ U.node[mp].dead = T.node[mp].dead /\ U.node[mp].next = n
  <2>1. T.node[mp].key # Nil /\ ~T.node[mp].dead /\ mp # n
    BY <1>1, <1>2 DEF Good, Kept, Empty
  <2>2. T.node[mp] \in Node
    BY <1>1
  <2> QED BY <2>1, <2>2, <1>2 DEF Node
<1>4. \A i \in N(T) \ {n} : /\ U.node[i].key = T.node[i].key /\ U.node[i].val = T.node[i].val
                            /\ U.node[i].dead = T.node[i].dead
  BY <1>1, <1>2, <1>3
<1>5. \A i \in N(T) : U.node[i].next = IF i = mp THEN n ELSE IF i = n THEN T.node[mp].next
                                       ELSE T.node[i].next
  <2>1. U.node[n].next = T.node[mp].next
    BY <1>2
  <2>2. \A i \in N(T) \ {mp, n} : U.node[i].next = T.node[i].next
    BY <1>2
  <2> QED BY <2>1, <2>2, <1>3
<1>6. \A i \in N(T) : T.node[i].key = k => T.node[i].dead
  BY SearchIs DEF New
<1>7. Sound(T)
  BY GoodIsSound DEF Good
<1>8. T.node[mp].key # k
  BY <1>1, <1>3, <1>6
<1>9. Typed(U)
  <2>1. n \in -1..sizenode(T)
    BY <1>1 DEF N
  <2> QED BY <2>1, <1>2, FrameTyped
<1>10. Kept(U)
  <2>0. U.node[n].key = k /\ U.node[n].dead = FALSE /\ U.node[n].val = v
    BY <1>2
  <2>1. \A i \in N(U) : U.node[i].key = Nil => U.node[i] = Empty
    <3>1. \A i \in N(T) \ {mp, n} : U.node[i] = T.node[i]
      BY <1>2
    <3> QED BY <2>0, <3>1, <1>1, <1>3 DEF Good, Kept
  <2>2. \A i \in N(U) : U.node[i].val # Nil => ~U.node[i].dead
    BY <2>0, <1>1, <1>4 DEF Good, Kept
  <2>3. \A i \in N(U) : U.node[i].key # Nil => U.node[i].key \in DOMAIN U.hash
    BY <2>0, <1>1, <1>4 DEF Good, Kept
  <2>4. ASSUME NEW i \in N(U), i >= U.lastfree
        PROVE  U.node[i].key # Nil
    <3>1. CASE i = n
      BY <3>1, <1>1, <1>2
    <3>2. CASE i # n
      <4>1. i > n /\ i \in N(T)
        BY <3>2, <2>4, <1>1, <1>2
      <4> QED BY <3>2, <4>1, <1>2, <1>4
    <3> QED BY <3>1, <3>2
  <2> QED BY <2>1, <2>2, <2>3, <2>4 DEF Kept
<1>11. \A i \in N(T) : T.node[i].next # n
  BY <1>1, <1>2 DEF Good, Joined
<1>12. Joined(U)
  <2>1. \A i \in N(U) : U.node[i].next # Nil =>
          U.node[i].next \in N(U) /\ U.node[U.node[i].next].key # Nil
    <3>1. \A i \in N(T) : T.node[i].next # Nil => /\ T.node[i].next \in N(T) \ {n}
                                                  /\ T.node[T.node[i].next].key # Nil
      BY <1>1, <1>11 DEF Good, Joined
    <3>2. U.node[n].key # Nil
      BY <1>1, <1>2
    <3> QED BY <3>1, <3>2, <1>1, <1>4, <1>5
  <2>2. \A i, j \in N(U) : U.node[i].next # Nil /\ U.node[i].next = U.node[j].next => i = j
    <3>1. \A i, j \in N(T) : T.node[i].next # Nil /\ T.node[i].next = T.node[j].next => i = j
      BY DEF Good, Joined
    <3> QED BY <3>1, <1>1, <1>5, <1>11
  <2>3. \E r : Ranks(U, r)
    <3>1. PICK r : Ranks(T, r)
      BY DEF Good, Joined
    <3> DEFINE q == [i \in N(T) |-> IF i = n THEN 2 * r[mp] ELSE 2 * r[i] + 1]
    <3>2. \A i \in N(T) : r[i] \in Nat
      BY <3>1 DEF Ranks
    <3>3. q \in [N(T) -> Nat]
      BY <3>2, <1>1
    <3>4. ASSUME NEW i \in N(T), U.node[i].next # Nil
          PROVE  q[U.node[i].next] < q[i]
      <4>1. \A j \in N(T) : T.node[j].next # Nil =>
              T.node[j].next \in N(T) \ {n} /\ r[T.node[j].next] < r[j]
        BY <3>1, <1>11 DEF Ranks, Good, Joined
      <4>2. CASE i = mp
        BY <4>2, <1>1, <1>3, <1>5, <3>2
      <4>3. CASE i = n
        <5> DEFINE y == T.node[mp].next
        <5>1. U.node[i].next = y /\ y \in N(T) \ {n} /\ r[y] < r[mp] /\ r[y] \in Nat /\ r[mp] \in Nat
          BY <4>1, <4>3, <3>2, <3>4, <1>1, <1>3, <1>5
        <5>2. q[y] = 2 * r[y] + 1 /\ q[i] = 2 * r[mp]
          BY <5>1, <4>3
        <5> QED BY <5>1, <5>2
      <4>4. CASE i # mp /\ i # n
        <5> DEFINE y == T.node[i].next
        <5>1. U.node[i].next = y /\ y \in N(T) \ {n} /\ r[y] < r[i] /\ r[y] \in Nat /\ r[i] \in Nat
          BY <4>1, <4>4, <3>2, <3>4, <1>5
        <5>2. q[y] = 2 * r[y] + 1 /\ q[i] = 2 * r[i] + 1
          BY <5>1, <4>4
        <5> QED BY <5>1, <5>2
      <4> QED BY <4>2, <4>3, <4>4
    <3> HIDE DEF q
    <3> QED BY <3>3, <3>4, <1>1 DEF Ranks
  <2> QED BY <2>1, <2>2, <2>3 DEF Joined
<1>13. Sound(U)
  BY <1>9, <1>12, GoodIsSound
<1>14. \A i \in N(T) : Chain(T, i) \subseteq Chain(U, i)
  <2> TAKE i \in N(T)
  <2>1. i \in Chain(U, i) /\ \A j \in Chain(U, i) : U.node[j].next # Nil => U.node[j].next \in Chain(U, i)
    BY <1>1, <1>13, InChain
  <2>2. \A j \in N(T) : j \in Chain(U, i) /\ T.node[j].next # Nil => T.node[j].next \in Chain(U, i)
    <3> TAKE j \in N(T)
    <3>1. CASE j = mp
      BY <3>1, <2>1, <1>1, <1>2, <1>3, <1>5
    <3>2. CASE j # mp
      BY <3>2, <2>1, <1>2, <1>5
    <3> QED BY <3>1, <3>2
  <2> QED BY <2>1, <2>2, <1>7, ChainLeast
<1>15. n \in Chain(U, mp)
  BY <1>1, <1>3, <1>13, InChain
<1>16. Placed(U)
  <2>1. ASSUME NEW i \in N(U), U.node[i].key # Nil
        PROVE  /\ i \in Chain(U, mainposition(U, U.node[i].key))
               /\ U.node[mainposition(U, U.node[i].key)].key # Nil
               /\ mainposition(U, U.node[mainposition(U, U.node[i].key)].key)
                    = mainposition(U, U.node[i].key)
    <3>1. CASE i = n
      <4>1. U.node[i].key = k /\ mainposition(U, U.node[i].key) = mp
        BY <3>1, <1>1, <1>2
      <4> QED BY <3>1, <4>1, <1>15, <1>1, <1>2, <1>3
    <3>2. CASE i # n
      <4> DEFINE m == mainposition(T, T.node[i].key)
      <4>1. U.node[i].key = T.node[i].key /\ mainposition(U, U.node[i].key) = m
        BY <3>2, <1>1, <1>4
      <4>2. /\ i \in Chain(T, m) /\ T.node[m].key # Nil /\ m \in N(T)
            /\ mainposition(T, T.node[m].key) = m
        BY <4>1, <2>1, <1>1, Fields DEF Good, Placed, Kept
      <4>3. i \in Chain(U, m) /\ U.node[m].key = T.node[m].key
        BY <4>2, <1>2, <1>4, <1>14
      <4>4. mainposition(U, U.node[m].key) = m
        BY <4>2, <4>3, <1>1
      <4> QED BY <4>1, <4>2, <4>3, <4>4
    <3> QED BY <3>1, <3>2
  <2>2. ASSUME NEW i \in N(U), NEW j \in N(U), U.node[i].key # Nil,
               U.node[i].key = U.node[j].key, ~U.node[i].dead
        PROVE  j \in Chain(U, i)
    <3>1. CASE i = n /\ j = n
      BY <3>1, <1>1, <1>13, InChain
    <3>2. CASE i = n /\ j # n
      <4>1. T.node[j].key = k /\ mainposition(T, T.node[j].key) = mp /\ j \in N(T)
        BY <3>2, <2>2, <1>1, <1>2, <1>4
      <4>2. j \in Chain(T, mp) /\ j # mp
        BY <4>1, <1>1, <1>8 DEF Good, Placed
      <4>3. T.node[mp].next # Nil /\ j \in Chain(T, T.node[mp].next) /\ T.node[mp].next \in N(T)
        BY <4>2, <1>1, <1>7, ChainIs DEF Sound, Shaped
      <4>4. U.node[n].next = T.node[mp].next
        BY <1>2
      <4>5. Chain(U, T.node[mp].next) \subseteq Chain(U, n)
        BY <4>3, <4>4, <1>1, <1>13, InChain
      <4> QED BY <3>2, <4>3, <4>5, <1>14
    <3>3. CASE i # n /\ j = n
      BY <3>3, <2>2, <1>1, <1>2, <1>4, <1>6
    <3>4. CASE i # n /\ j # n
      <4>1. j \in Chain(T, i)
        BY <3>4, <2>2, <1>1, <1>4 DEF Good, Placed
      <4> QED BY <4>1, <1>1, <1>14
    <3> QED BY <3>1, <3>2, <3>3, <3>4
  <2> QED BY <2>1, <2>2 DEF Placed
<1>17. ASSUME NEW w, w # Nil
       PROVE  /\ Holds(U, k, w) <=> w = v
              /\ \A j : j # k => (Holds(U, j, w) <=> Holds(T, j, w))
  <2>1. ~Holds(T, k, w)
    BY <1>1, <1>6, <1>17 DEF Good, Kept, Holds
  <2> QED BY <2>1, <1>1, <1>2, <1>4, <1>17 DEF Holds
<1>18. ASSUME NEW i \in N(T)
       PROVE  \/ U.node[i].key = k /\ ~U.node[i].dead
              \/ \E j \in N(T) : /\ U.node[i].key = T.node[j].key
                                 /\ U.node[i].dead = T.node[j].dead
  BY <1>2, <1>4
<1> QED BY <1>9, <1>10, <1>12, <1>16, <1>17, <1>18 DEF Stored, Good

LEMMA MovesStores ==
  ASSUME NEW T, Good(T), NEW k, New(T, k), NEW v \in Values \union {Nil},
         NEW U, SameFrame(T, U), NEW n \in N(T), NEW p \in N(T), Moves(T, U, k, v, n, p)
  PROVE  Stored(T, U, k, v)
<1> DEFINE mp == mainposition(T, k)
           othern == mainposition(T, T.node[mp].key)
           was(i) == IF i = n THEN mp ELSE i
<1>1. /\ k \in DOMAIN T.hash /\ k # Nil /\ mp \in N(T) /\ Nil \notin N(T)
      /\ N(U) = N(T) /\ \A j : mainposition(U, j) = mainposition(T, j)
      /\ \A i \in N(T) : T.node[i] \in Node /\ U.node[i] \in Node
      /\ U.hash = T.hash /\ N(T) \subseteq Nat /\ sizenode(T) \in Nat
  BY Fields, SamePlaces DEF New, Good, SameFrame
<1>2. /\ U.node[mp] = [key |-> k, dead |-> FALSE, val |-> v, next |-> Nil]
      /\ U.node[n] = T.node[mp] /\ U.node[p] = [T.node[p] EXCEPT !.next = n]
      /\ \A i \in N(T) \ {mp, n, p} : U.node[i] = T.node[i]
      /\ T.node[mp].val # Nil /\ ~T.dummy /\ U.lastfree = n
      /\ T.node[n].key = Nil /\ T.node[n].val = Nil /\ T.node[n].next = Nil
      /\ \A i \in N(T) : i > n => T.node[i].key # Nil
      /\ othern # mp /\ T.node[p].next = mp /\ p # mp /\ p # n
  BY DEF Moves, Entry, Empty
<1>3. T.node[mp].key # Nil /\ ~T.node[mp].dead /\ mp # n /\ T.node[p].key # Nil
  BY <1>1, <1>2 DEF Good, Kept, Empty
<1>4. \A i \in N(T) \ {mp} : /\ was(i) \in N(T) /\ U.node[i].key = T.node[was(i)].key
                             /\ U.node[i].val = T.node[was(i)].val
                             /\ U.node[i].dead = T.node[was(i)].dead
  <2>1. /\ U.node[p].key = T.node[p].key /\ U.node[p].val = T.node[p].val
        /\ U.node[p].dead = T.node[p].dead
    <3>1. T.node[p] \in Node
      BY <1>1
    <3> QED BY <3>1, <1>2 DEF Node
  <2> QED BY <2>1, <1>1, <1>2, <1>3
<1>5. /\ U.node[mp].key = k /\ U.node[mp].dead = FALSE /\ U.node[mp].val = v
      /\ U.node[mp].next = Nil /\ U.node[n].next = T.node[mp].next /\ U.node[p].next = n
      /\ \A i \in N(T) \ {mp, n, p} : U.node[i].next = T.node[i].next
  <2>1. U.node[p].next = n
    <3>1. T.node[p] \in Node
      BY <1>1
    <3> QED BY <3>1, <1>2 DEF Node
  <2>2. \A i \in N(T) \ {mp, n, p} : U.node[i].next = T.node[i].next
    BY <1>2
  <2>3. U.node[mp].key = k /\ U.node[mp].dead = FALSE /\ U.node[mp].val = v
        /\ U.node[mp].next = Nil
    BY <1>2
  <2>4. U.node[n].next = T.node[mp].next
    BY <1>2
  <2> QED BY <2>1, <2>2, <2>3, <2>4
<1>6. \A i \in N(T) : T.node[i].key = k => T.node[i].dead
  BY SearchIs DEF New
<1>7. Sound(T)
  BY GoodIsSound DEF Good
<1>8. \A i \in N(T) : T.node[i].key # k
  <2>1. \A i \in N(T) : T.node[i].key = k => mainposition(T, T.node[mp].key) = mp
    BY <1>1 DEF Good, Placed
  <2> QED BY <2>1, <1>2
<1>9. Typed(U)
  <2>1. n \in -1..sizenode(T)
    BY <1>1 DEF N
  <2> QED BY <2>1, <1>2, FrameTyped
<1>10. Kept(U)
  <2>1. \A i \in N(U) : U.node[i].key = Nil => U.node[i] = Empty
    <3>1. \A i \in N(T) \ {mp, n, p} : U.node[i].key = Nil => U.node[i] = Empty
      BY <1>2 DEF Good, Kept
    <3>2. U.node[mp].key # Nil /\ U.node[n].key # Nil /\ U.node[p].key # Nil
      BY <1>1, <1>2, <1>3, <1>4, <1>5
    <3> QED BY <3>1, <3>2, <1>1
  <2>2. \A i \in N(U) : U.node[i].val # Nil => ~U.node[i].dead
    BY <1>1, <1>4, <1>5 DEF Good, Kept
  <2>3. \A i \in N(U) : U.node[i].key # Nil => U.node[i].key \in DOMAIN U.hash
    BY <1>1, <1>4, <1>5 DEF Good, Kept
  <2>4. ASSUME NEW i \in N(U), i >= U.lastfree
        PROVE  U.node[i].key # Nil
    <3>1. CASE i = n
      BY <3>1, <1>3, <1>4
    <3>2. CASE i = mp
      BY <3>2, <1>1, <1>5
    <3>3. CASE i # n /\ i # mp
      <4>1. i > n /\ i \in N(T)
        BY <3>3, <2>4, <1>1, <1>2
      <4> QED BY <3>3, <4>1, <1>2, <1>4
    <3> QED BY <3>1, <3>2, <3>3
  <2> QED BY <2>1, <2>2, <2>3, <2>4 DEF Kept
<1>11. \A i \in N(T) : /\ T.node[i].next # n
                       /\ i # p => T.node[i].next # mp
                       /\ T.node[i].next # Nil => /\ T.node[i].next \in N(T)
                                                  /\ T.node[T.node[i].next].key # Nil
  BY <1>1, <1>2 DEF Good, Joined
<1>12. Joined(U)
  <2>1. \A i \in N(U) : U.node[i].next # Nil =>
          U.node[i].next \in N(U) /\ U.node[U.node[i].next].key # Nil
    <3>1. \A i \in N(T) \ {n} : T.node[i].key # Nil => U.node[i].key # Nil
      BY <1>1, <1>4, <1>5
    <3>2. U.node[n].key # Nil
      BY <1>2, <1>3
    <3> QED BY <3>1, <3>2, <1>1, <1>5, <1>11
  <2>2. \A i, j \in N(U) : U.node[i].next # Nil /\ U.node[i].next = U.node[j].next => i = j
    <3>1. \A i, j \in N(T) : T.node[i].next # Nil /\ T.node[i].next = T.node[j].next => i = j
      BY DEF Good, Joined
    <3>2. \A i \in N(T) : \/ U.node[i].next = Nil
                          \/ i = p /\ U.node[i].next = n
                          \/ i # p /\ i # mp /\ U.node[i].next = T.node[was(i)].next
                               /\ was(i) \in N(T) /\ U.node[i].next # n
      BY <1>1, <1>5, <1>11
    <3>3. \A i, j \in N(T) \ {mp} : was(i) = was(j) => i = j
      BY <1>3
    <3> HIDE DEF was
    <3> QED BY <3>1, <3>2, <3>3, <1>1, <1>5
  <2>3. \E r : Ranks(U, r)
    <3>1. PICK r : Ranks(T, r)
      BY DEF Good, Joined
    <3> DEFINE q == [i \in N(T) |-> IF i = n THEN r[mp] ELSE r[i]]
    <3>2. \A i \in N(T) : r[i] \in Nat /\ (T.node[i].next # Nil => r[T.node[i].next] < r[i])
      BY <3>1 DEF Ranks
    <3>3. q \in [N(T) -> Nat]
      BY <3>2, <1>1
    <3>4. ASSUME NEW i \in N(T), U.node[i].next # Nil
          PROVE  q[U.node[i].next] < q[i]
      <4>1. CASE i = p
        <5>1. r[mp] < r[p]
          BY <3>2, <1>1, <1>2
        <5> QED BY <5>1, <4>1, <1>2, <1>5
      <4>2. CASE i = n
        BY <4>2, <3>2, <3>4, <1>1, <1>5, <1>11
      <4>3. CASE i # mp /\ i # n /\ i # p
        BY <4>3, <3>2, <3>4, <1>1, <1>5, <1>11
      <4> QED BY <4>1, <4>2, <4>3, <3>4, <1>5
    <3> HIDE DEF q
    <3> QED BY <3>3, <3>4, <1>1 DEF Ranks
  <2> QED BY <2>1, <2>2, <2>3 DEF Joined
<1>13. Sound(U)
  BY <1>9, <1>12, GoodIsSound
<1>14. ASSUME NEW i \in N(T) \ {mp}, NEW x \in Chain(T, was(i))
       PROVE  IF x = mp THEN n \in Chain(U, i) ELSE x \in Chain(U, i)
  <2> DEFINE D == {y \in N(T) : IF y = mp THEN n \in Chain(U, i) ELSE y \in Chain(U, i)}
  <2>1. i \in Chain(U, i) /\ \A j \in Chain(U, i) : U.node[j].next # Nil => U.node[j].next \in Chain(U, i)
    BY <1>1, <1>13, InChain
  <2>2. was(i) \in N(T) /\ was(i) \in D
    BY <2>1, <1>1
  <2>3. ASSUME NEW j \in N(T), j \in D, T.node[j].next # Nil
        PROVE  T.node[j].next \in D
    <3>1. T.node[j].next \in N(T)
      BY <2>3, <1>11
    <3>2. CASE j = mp
      <4>1. n \in Chain(U, i) /\ U.node[n].next = T.node[j].next /\ T.node[j].next # mp
        BY <3>2, <2>3, <1>2, <1>5, <1>11
      <4> QED BY <4>1, <3>1, <2>1, <2>3
    <3>3. CASE j = p
      <4>1. n \in Chain(U, i)
        BY <3>3, <2>1, <2>3, <1>1, <1>2, <1>5
      <4> QED BY <4>1, <3>3, <1>1, <1>2
    <3>4. CASE j = n
      BY <3>4, <2>3, <1>2
    <3>5. CASE j \notin {mp, n, p}
      <4>1. j \in Chain(U, i) /\ U.node[j].next = T.node[j].next /\ T.node[j].next # mp
        BY <3>5, <2>3, <1>5, <1>11
      <4> QED BY <4>1, <3>1, <2>1, <2>3
    <3> QED BY <3>2, <3>3, <3>4, <3>5
  <2>4. Chain(T, was(i)) \subseteq D
    <3> HIDE DEF D, was
    <3> QED BY <2>2, <2>3, <1>7, ChainLeast
  <2> QED BY <2>4
<1>15. Placed(U)
  <2>1. ASSUME NEW i \in N(U), U.node[i].key # Nil
        PROVE  /\ i \in Chain(U, mainposition(U, U.node[i].key))
               /\ U.node[mainposition(U, U.node[i].key)].key # Nil
               /\ mainposition(U, U.node[mainposition(U, U.node[i].key)].key)
                    = mainposition(U, U.node[i].key)
    <3>1. CASE i = mp
      <4>1. U.node[i].key = k /\ mainposition(U, U.node[i].key) = mp
        BY <3>1, <1>1, <1>5
      <4>2. mp \in Chain(U, mp)
        BY <1>1, <1>13, InChain
      <4> QED BY <3>1, <4>1, <4>2, <1>1
    <3>2. CASE i # mp
      <4> DEFINE m == mainposition(T, T.node[was(i)].key)
      <4>1. /\ U.node[i].key = T.node[was(i)].key /\ mainposition(U, U.node[i].key) = m
            /\ was(i) \in N(T)
        BY <3>2, <1>1, <1>4
      <4> HIDE DEF was
      <4>2. /\ was(i) \in Chain(T, m) /\ T.node[m].key # Nil /\ m \in N(T)
            /\ mainposition(T, T.node[m].key) = m
        BY <4>1, <2>1, <1>1, Fields DEF Good, Placed, Kept
      <4>3. m # mp /\ m # n
        BY <4>2, <1>2
      <4>4. was(m) = m /\ (i = n => was(i) = mp) /\ (i # n => was(i) = i)
        BY <4>3 DEF was
      <4>5. i \in Chain(U, m)
        <5>1. IF was(i) = mp THEN n \in Chain(U, m) ELSE was(i) \in Chain(U, m)
          BY <4>2, <4>3, <4>4, <1>14
        <5> QED BY <5>1, <4>4, <3>2
      <4>6. U.node[m].key = T.node[m].key
        BY <4>2, <4>3, <4>4, <1>4
      <4> QED BY <4>1, <4>2, <4>5, <4>6, <1>1
    <3> QED BY <3>1, <3>2
  <2>2. ASSUME NEW i \in N(U), NEW j \in N(U), U.node[i].key # Nil,
               U.node[i].key = U.node[j].key, ~U.node[i].dead
        PROVE  j \in Chain(U, i)
    <3>1. CASE i = mp /\ j = mp
      BY <3>1, <1>1, <1>13, InChain
    <3>2. CASE (i = mp /\ j # mp) \/ (i # mp /\ j = mp)
      BY <3>2, <2>2, <1>1, <1>4, <1>5, <1>8
    <3>3. CASE i # mp /\ j # mp
      <4>1. was(j) \in Chain(T, was(i))
        <5> HIDE DEF was
        <5> QED BY <3>3, <2>2, <1>1, <1>4 DEF Good, Placed
      <4>2. IF was(j) = mp THEN n \in Chain(U, i) ELSE was(j) \in Chain(U, i)
        <5> HIDE DEF was
        <5> QED BY <4>1, <3>3, <1>1, <1>14
      <4> QED BY <4>2, <3>3
    <3> QED BY <3>1, <3>2, <3>3
  <2> QED BY <2>1, <2>2 DEF Placed
<1>16. ASSUME NEW w, w # Nil
       PROVE  /\ Holds(U, k, w) <=> w = v
              /\ \A j : j # k => (Holds(U, j, w) <=> Holds(T, j, w))
  <2>1. Holds(U, k, w) <=> w = v
    BY <1>1, <1>4, <1>5, <1>8, <1>16 DEF Holds
  <2>2. ASSUME NEW j, j # k
        PROVE  Holds(U, j, w) <=> Holds(T, j, w)
    <3>1. ASSUME NEW i \in N(U), U.node[i].key = j, U.node[i].val = w
          PROVE  Holds(T, j, w)
      <4>1. i # mp /\ i \in N(T)
        BY <3>1, <2>2, <1>1, <1>5
      <4> HIDE DEF was
      <4> QED BY <4>1, <3>1, <1>4 DEF Holds
    <3>2. ASSUME NEW i \in N(T), T.node[i].key = j, T.node[i].val = w
          PROVE  Holds(U, j, w)
      <4>1. CASE i = mp
        BY <4>1, <3>2, <1>1, <1>2 DEF Holds
      <4>2. CASE i # mp
        <5>1. i # n /\ was(i) = i
          BY <3>2, <1>2, <1>16
        <5> HIDE DEF was
        <5> QED BY <5>1, <4>2, <3>2, <1>1, <1>4 DEF Holds
      <4> QED BY <4>1, <4>2
    <3> QED BY <3>1, <3>2 DEF Holds
  <2> QED BY <2>1, <2>2
<1>17. ASSUME NEW i \in N(T)
       PROVE  \/ U.node[i].key = k /\ ~U.node[i].dead
              \/ \E j \in N(T) : /\ U.node[i].key = T.node[j].key
                                 /\ U.node[i].dead = T.node[j].dead
  <2>1. CASE i = mp
    BY <2>1, <1>5
  <2>2. CASE i # mp
    <3> HIDE DEF was
    <3> QED BY <2>2, <1>4
  <2> QED BY <2>1, <2>2
<1> QED BY <1>9, <1>10, <1>12, <1>15, <1>16, <1>17 DEF Stored, Good

\* newkey() stores.
LEMMA newkeyStores ==
  ASSUME NEW T, Good(T), NEW k, New(T, k), NEW v \in Values \union {Nil}
  PROVE  /\ SameFrame(T, newkey(T, k, v)) /\ Stored(T, newkey(T, k, v), k, v)
         /\ T.lastfree >= 0 => newkey(T, k, v).lastfree >= 0
<1> DEFINE U == newkey(T, k, v)
<1>1. /\ SameFrame(T, U)
      /\ \/ Reuses(T, U, k, v)
         \/ \E n, p \in N(T) : Moves(T, U, k, v, n, p)
         \/ \E n \in N(T) : Chains(T, U, k, v, n)
  BY newkeyIs
<1> HIDE DEF U
<1>2. Stored(T, U, k, v)
  BY <1>1, ReusesStores, MovesStores, ChainsStores
<1>3. T.lastfree >= 0 => U.lastfree >= 0
  <2>1. N(T) \subseteq Nat
    BY Fields DEF Good
  <2>2. CASE Reuses(T, U, k, v)
    BY <2>2 DEF Reuses
  <2>3. ASSUME NEW n \in N(T), NEW p \in N(T), Moves(T, U, k, v, n, p)
        PROVE  U.lastfree >= 0
    <3>1. U.lastfree = n
      BY <2>3 DEF Moves
    <3> QED BY <3>1, <2>1
  <2>4. ASSUME NEW n \in N(T), Chains(T, U, k, v, n)
        PROVE  U.lastfree >= 0
    <3>1. U.lastfree = n
      BY <2>4 DEF Chains
    <3> QED BY <3>1, <2>1
  <2> QED BY <2>2, <2>3, <2>4, <1>1
<1> USE DEF U
<1> QED BY <1>1, <1>2, <1>3

-----------------------------------------------------------------------------
(*************************************************************************)
(* Stores.                                                               *)
(*************************************************************************)
\* The same keys and links: what is changed are values, and keys may die.
SameLinks(T, U) ==
  /\ U.hash = T.hash /\ U.lsizenode = T.lsizenode /\ U.dummy = T.dummy
  /\ U.lastfree = T.lastfree \/ U.lastfree = -1
  /\ \A i \in N(T) : /\ U.node[i].key = T.node[i].key /\ U.node[i].next = T.node[i].next
                     /\ T.node[i].dead => U.node[i].dead
                     /\ U.node[i].val # Nil => ~U.node[i].dead
                     /\ T.node[i].key = Nil => U.node[i] = Empty

LEMMA SameLinksGood ==
  ASSUME NEW T, NEW U, Good(T), Typed(U), SameLinks(T, U)
  PROVE  /\ Good(U) /\ N(U) = N(T)
         /\ \A k : mainposition(U, k) = mainposition(T, k)
         /\ \A k \in DOMAIN T.hash : First(U, k, Holding(U, k)) = First(T, k, Holding(T, k))
<1>1. /\ N(U) = N(T) /\ \A k : mainposition(U, k) = mainposition(T, k)
  BY DEF SameLinks, N, sizenode, mainposition
<1>2. /\ DOMAIN T.node = N(T) /\ DOMAIN U.node = N(T) /\ Nil \notin N(T)
      /\ \A k \in DOMAIN T.hash : mainposition(T, k) \in N(T)
  BY Fields, <1>1 DEF Good
<1>3. Kept(U)
  <2>1. \A i \in N(U) : U.node[i].key = Nil => U.node[i] = Empty
    BY <1>1 DEF SameLinks
  <2>2. \A i \in N(U) : U.node[i].val # Nil => ~U.node[i].dead
    BY <1>1 DEF SameLinks
  <2>3. \A i \in N(U) : U.node[i].key # Nil => U.node[i].key \in DOMAIN U.hash
    BY <1>1 DEF SameLinks, Good, Kept
  <2>4. ~U.dummy /\ U.lastfree >= 0 => \A i \in N(U) : i >= U.lastfree => U.node[i].key # Nil
    BY <1>1 DEF SameLinks, Good, Kept
  <2> QED BY <2>1, <2>2, <2>3, <2>4 DEF Kept
<1>4. \A i \in N(T) : U.node[i].key = T.node[i].key /\ U.node[i].next = T.node[i].next
  BY DEF SameLinks
<1>5. Joined(U)
  <2>1. \A i \in N(U) : U.node[i].next # Nil =>
          U.node[i].next \in N(U) /\ U.node[U.node[i].next].key # Nil
    BY <1>1, <1>4 DEF Good, Joined
  <2>2. \A i, j \in N(U) : U.node[i].next # Nil /\ U.node[i].next = U.node[j].next => i = j
    BY <1>1, <1>4 DEF Good, Joined
  <2>3. \E r : Ranks(U, r)
    BY <1>1, <1>4 DEF Good, Joined, Ranks
  <2> QED BY <2>1, <2>2, <2>3 DEF Joined
<1>6. Sound(T) /\ Sound(U)
  BY <1>5, GoodIsSound DEF Good
<1>7. \A i \in N(T) : Chain(T, i) = Chain(U, i)
  <2> TAKE i \in N(T)
  <2>1. /\ i \in Chain(U, i) /\ i \in Chain(T, i)
        /\ \A j \in Chain(U, i) : U.node[j].next # Nil => U.node[j].next \in Chain(U, i)
        /\ \A j \in Chain(T, i) : T.node[j].next # Nil => T.node[j].next \in Chain(T, i)
    BY <1>1, <1>6, InChain
  <2>2. Chain(T, i) \subseteq Chain(U, i)
    BY <2>1, <1>4, <1>6, ChainLeast
  <2>3. Chain(U, i) \subseteq Chain(T, i)
    BY <2>1, <1>1, <1>4, <1>6, ChainLeast
  <2> QED BY <2>2, <2>3
<1>8. Placed(U)
  <2>1. ASSUME NEW i \in N(U), U.node[i].key # Nil
        PROVE  /\ i \in Chain(U, mainposition(U, U.node[i].key))
               /\ U.node[mainposition(U, U.node[i].key)].key # Nil
               /\ mainposition(U, U.node[mainposition(U, U.node[i].key)].key)
                    = mainposition(U, U.node[i].key)
    <3> DEFINE m == mainposition(T, T.node[i].key)
    <3>1. /\ i \in N(T) /\ T.node[i].key \in DOMAIN T.hash /\ U.node[i].key = T.node[i].key
          /\ T.node[i].key # Nil
      BY <2>1, <1>1, <1>4 DEF Good, Kept
    <3>2. m \in N(T) /\ mainposition(U, U.node[i].key) = m
      BY <3>1, <1>1, <1>2
    <3>3. i \in Chain(T, m) /\ T.node[m].key # Nil /\ mainposition(T, T.node[m].key) = m
      BY <3>1 DEF Good, Placed
    <3> HIDE DEF m
    <3> QED BY <3>2, <3>3, <1>1, <1>4, <1>7
  <2>2. ASSUME NEW i \in N(U), NEW j \in N(U), U.node[i].key # Nil,
               U.node[i].key = U.node[j].key, ~U.node[i].dead
        PROVE  j \in Chain(U, i)
    <3>1. /\ i \in N(T) /\ j \in N(T) /\ T.node[i].key # Nil /\ T.node[i].key = T.node[j].key
          /\ ~T.node[i].dead
      BY <2>2, <1>1, <1>4 DEF SameLinks
    <3> QED BY <3>1, <1>7 DEF Good, Placed
  <2> QED BY <2>1, <2>2 DEF Placed
<1>9. ASSUME NEW k \in DOMAIN T.hash
      PROVE  First(U, k, Holding(U, k)) = First(T, k, Holding(T, k))
  <2> DEFINE m == mainposition(T, k)
             H == Holding(T, k)
             x == First(T, k, H)
             y == First(U, k, H)
  <2>1. Holding(U, k) = H /\ H \subseteq N(T) /\ Nil \notin H /\ m \in N(T)
    BY <1>1, <1>2, <1>4 DEF Holding
  <2>2. mainposition(U, k) = m /\ Chain(U, m) = Chain(T, m)
    BY <2>1, <1>1, <1>7
  <2> HIDE DEF H
  <2>3. IF Chain(T, m) \intersect H = {} THEN x = Nil ELSE Leads(T, H, m, x)
    BY <2>1, <1>6, FirstIs
  <2>4. IF Chain(T, m) \intersect H = {} THEN y = Nil ELSE Leads(U, H, m, y)
    <3>1. mainposition(U, k) \in N(U)
      BY <2>1, <2>2, <1>1
    <3>2. IF Chain(U, mainposition(U, k)) \intersect H = {} THEN y = Nil
          ELSE Leads(U, H, mainposition(U, k), y)
      BY <3>1, <2>1, <1>6, FirstIs
    <3> QED BY <3>2, <2>2
  <2>5. CASE Chain(T, m) \intersect H # {}
    <3>1. /\ x \in Chain(T, m) /\ y \in Chain(T, m) /\ y \in Chain(T, x) /\ x \in N(T) /\ y \in N(T)
          /\ x \in Chain(U, y)
      BY <2>1, <2>2, <2>3, <2>4, <2>5, <1>6, InChain DEF Leads
    <3>2. x \in Chain(T, y)
      BY <3>1, <1>7
    <3>3. x = y
      BY <3>1, <3>2, <1>6, ChainOrder
    <3> QED BY <3>3, <2>1 DEF H
  <2> QED BY <2>1, <2>3, <2>4, <2>5 DEF H
<1> QED BY <1>1, <1>3, <1>5, <1>8, <1>9 DEF Good

\* A store to a key that is there changes one value.
Overwrites(T, U, k, v) ==
  /\ Typed(U) /\ SameLinks(T, U)
  /\ sizearray(U) = sizearray(T) /\ U.again = T.again /\ U.lastfree = T.lastfree
  /\ \/ /\ InArray(T, k) /\ U.node = T.node /\ U.array[k] = v
        /\ \A i \in 1..sizearray(T) : i # k => U.array[i] = T.array[i]
     \/ /\ ~InArray(T, k) /\ U.array = T.array
        /\ Search(T, k) \in N(T)
        /\ \A i \in N(T) : U.node[i] = IF i = Search(T, k) THEN [T.node[i] EXCEPT !.val = v]
                                       ELSE T.node[i]

LEMMA PutOverwrites ==
  ASSUME NEW T, Good(T), NEW k \in DOMAIN T.hash, NEW v \in Values \union {Nil},
         InArray(T, k) \/ Search(T, k) # Nil
  PROVE  Overwrites(T, Put(T, k, v), k, v)
<1> DEFINE n == Search(T, k)
           U == Put(T, k, v)
<1>1. /\ T \in Table /\ T.array \in Seq(Values \union {Nil}) /\ T.node \in [N(T) -> Node]
      /\ sizenode(T) \in Nat /\ sizenode(T) >= 1
  BY Fields DEF Good, Typed, Table
<1>2. CASE InArray(T, k)
  <2> DEFINE a == [T.array EXCEPT ![k] = v]
  <2>1. U = [T EXCEPT !.array = a]
    BY <1>1, <1>2 DEF Put, Table
  <2>2. /\ a \in Seq(Values \union {Nil}) /\ Len(a) = Len(T.array) /\ a[k] = v
        /\ \A i \in 1..Len(T.array) : i # k => a[i] = T.array[i]
    <3>1. k \in 1..Len(T.array)
      BY <1>2 DEF InArray, sizearray
    <3> QED BY <3>1, <1>1
  <2> HIDE DEF a, U
  <2>3. /\ U \in Table /\ U.array = a /\ U.node = T.node /\ U.hash = T.hash /\ U.dummy = T.dummy
        /\ U.lsizenode = T.lsizenode /\ U.again = T.again /\ U.lastfree = T.lastfree
    BY <2>1, <2>2, <1>1 DEF Table
  <2>4. N(U) = N(T) /\ sizenode(U) = sizenode(T) /\ sizearray(U) = sizearray(T)
    BY <2>2, <2>3 DEF N, sizenode, sizearray
  <2>5. Typed(U)
    BY <2>2, <2>3, <2>4 DEF Good, Typed
  <2>6. SameLinks(T, U)
    BY <2>3 DEF SameLinks, Good, Kept
  <2>7. \A i \in 1..sizearray(T) : i # k => U.array[i] = T.array[i]
    BY <2>2, <2>3 DEF sizearray
  <2>8. Overwrites(T, U, k, v)
    BY <2>2, <2>3, <2>4, <2>5, <2>6, <2>7, <1>2 DEF Overwrites
  <2> USE DEF U
  <2> QED BY <2>8
<1>3. CASE ~InArray(T, k)
  <2> DEFINE f == [T.node EXCEPT ![n].val = v]
  <2>0. /\ n # Nil /\ n \in N(T) /\ T.node[n].key = k /\ ~T.node[n].dead /\ k # Nil
        /\ T.node[n] \in Node
    BY <1>1, <1>3, SearchIs, Fields DEF Good
  <2>1. U = [T EXCEPT !.node = f]
    BY <1>1, <1>3, <2>0 DEF Put, Table
  <2> HIDE DEF n
  <2>2. /\ \A i \in N(T) : f[i] = IF i = n THEN [T.node[i] EXCEPT !.val = v] ELSE T.node[i]
        /\ f \in [N(T) -> Node]
    <3>1. [T.node[n] EXCEPT !.val = v] \in Node
      BY <2>0 DEF Node
    <3> QED BY <3>1, <2>0, <1>1
  <2>3. f \in UNION {[0..m -> Node] : m \in Nat}
    <3>1. sizenode(T) - 1 \in Nat
      BY <1>1
    <3> HIDE DEF f
    <3> QED BY <3>1, <2>2 DEF N
  <2> HIDE DEF f, U
  <2>4. /\ U \in Table /\ U.node = f /\ U.array = T.array /\ U.hash = T.hash /\ U.dummy = T.dummy
        /\ U.lsizenode = T.lsizenode /\ U.again = T.again /\ U.lastfree = T.lastfree
    BY <2>1, <2>3, <1>1 DEF Table
  <2>5. N(U) = N(T) /\ sizenode(U) = sizenode(T) /\ sizearray(U) = sizearray(T)
    BY <2>4 DEF N, sizenode, sizearray
  <2>6. ASSUME NEW i \in N(T)
        PROVE  /\ f[i].key = T.node[i].key /\ f[i].next = T.node[i].next
               /\ f[i].dead = T.node[i].dead /\ (i # n => f[i] = T.node[i])
               /\ i = n => f[i].val = v
    <3>1. T.node[i] \in Node
      BY <1>1
    <3> QED BY <3>1, <2>2 DEF Node
  <2>7. Typed(U)
    <3>1. U.dummy => U.node[0] = Empty
      <4>1. T.dummy => T.node[0] = Empty /\ N(T) = {0}
        BY Sizes DEF Good, Typed, N
      <4> QED BY <4>1, <2>0, <2>4 DEF Empty
    <3> QED BY <3>1, <2>2, <2>4, <2>5 DEF Good, Typed
  <2>8. SameLinks(T, U)
    <3>1. \A i \in N(T) : T.node[i].key = Nil => f[i] = Empty
      BY <2>0, <2>6 DEF Good, Kept
    <3>2. \A i \in N(T) : f[i].val # Nil => ~f[i].dead
      BY <2>0, <2>6 DEF Good, Kept
    <3> QED BY <3>1, <3>2, <2>4, <2>6 DEF SameLinks
  <2>9. Overwrites(T, U, k, v)
    <3> USE DEF n
    <3> QED BY <2>0, <2>2, <2>4, <2>5, <2>7, <2>8, <1>3 DEF Overwrites
  <2> USE DEF U
  <2> QED BY <2>9
<1> QED BY <1>2, <1>3

\* A store of v for k, and nothing else.
Puts(T, U, k, v) ==
  /\ Good(U) /\ U.hash = T.hash /\ U.lsizenode = T.lsizenode /\ U.dummy = T.dummy
  /\ U.again = T.again /\ sizearray(U) = sizearray(T) /\ (T.lastfree >= 0 => U.lastfree >= 0)
  /\ luaH_get(U, k) = v
  /\ \A j \in DOMAIN T.hash : j # k => luaH_get(U, j) = luaH_get(T, j)
  /\ \A i \in N(T) : \/ U.node[i].key = k /\ ~U.node[i].dead /\ ~InArray(T, k)
                     \/ \E j \in N(T) : /\ U.node[i].key = T.node[j].key
                                        /\ U.node[i].dead = T.node[j].dead

LEMMA OverwritesPuts ==
  ASSUME NEW T, Good(T), NEW k \in DOMAIN T.hash, NEW v \in Values \union {Nil},
         NEW U, Overwrites(T, U, k, v)
  PROVE  Puts(T, U, k, v)
<1>1. Good(U) /\ N(U) = N(T)
  BY SameLinksGood DEF Overwrites
<1>2. U.hash = T.hash /\ \A j : InArray(U, j) <=> InArray(T, j)
  BY DEF Overwrites, SameLinks, InArray
<1>3. CASE InArray(T, k)
  <2>1. /\ U.node = T.node /\ U.array[k] = v
        /\ \A i \in 1..sizearray(T) : i # k => U.array[i] = T.array[i]
    BY <1>3 DEF Overwrites
  <2>2. luaH_get(U, k) = v
    BY <2>1, <1>1, <1>2, <1>3, GetIs
  <2>3. ASSUME NEW j \in DOMAIN T.hash, j # k
        PROVE  luaH_get(U, j) = luaH_get(T, j)
    <3>1. CASE InArray(T, j)
      BY <3>1, <2>1, <2>3, <1>1, <1>2, GetIs
    <3>2. CASE ~InArray(T, j)
      <4>1. \A w : Holds(T, j, w) <=> Holds(U, j, w)
        BY <2>1, <1>1 DEF Holds
      <4> QED BY <4>1, <3>2, <1>1, <1>2, SameGet
    <3> QED BY <3>1, <3>2
  <2>4. ASSUME NEW i \in N(T)
        PROVE  \E j \in N(T) : U.node[i].key = T.node[j].key /\ U.node[i].dead = T.node[j].dead
    BY <2>1
  <2> QED BY <2>2, <2>3, <2>4, <1>1, <1>2 DEF Puts, Overwrites, SameLinks
<1>4. CASE ~InArray(T, k)
  <2> DEFINE n == Search(T, k)
  <2>1. /\ U.array = T.array /\ n \in N(T)
        /\ \A i \in N(T) : U.node[i] = IF i = n THEN [T.node[i] EXCEPT !.val = v] ELSE T.node[i]
    BY <1>4 DEF Overwrites
  <2>2. T.node[n].key = k /\ ~T.node[n].dead /\ \A i \in N(T) : T.node[i] \in Node /\ Nil \notin N(T)
    BY <2>1, SearchIs, Fields DEF Good
  <2>3. \A i \in N(T) : T.node[i].key = k /\ ~T.node[i].dead => i = n
    BY SearchIs
  <2> HIDE DEF n
  <2>4. ASSUME NEW i \in N(T)
        PROVE  /\ U.node[i].key = T.node[i].key /\ U.node[i].dead = T.node[i].dead
               /\ U.node[i].val = IF i = n THEN v ELSE T.node[i].val
    <3>1. T.node[i] \in Node
      BY <2>2
    <3> QED BY <3>1, <2>1 DEF Node
  <2>5. luaH_get(U, k) = v
    <3>1. \A w : w # Nil => (Holds(U, k, w) <=> w = v)
      BY <2>1, <2>2, <2>3, <2>4, <1>1 DEF Holds, Good, Kept
    <3> QED BY <3>1, <1>1, <1>2, <1>4, GetIs
  <2>6. ASSUME NEW j \in DOMAIN T.hash, j # k
        PROVE  luaH_get(U, j) = luaH_get(T, j)
    <3>1. CASE InArray(T, j)
      BY <3>1, <2>1, <1>1, <1>2, GetIs
    <3>2. CASE ~InArray(T, j)
      <4>1. \A w : Holds(T, j, w) <=> Holds(U, j, w)
        BY <2>2, <2>4, <2>6, <1>1 DEF Holds
      <4> QED BY <4>1, <3>2, <1>1, <1>2, SameGet
    <3> QED BY <3>1, <3>2
  <2>7. ASSUME NEW i \in N(T)
        PROVE  \E j \in N(T) : U.node[i].key = T.node[j].key /\ U.node[i].dead = T.node[j].dead
    BY <2>4
  <2> QED BY <2>5, <2>6, <2>7, <1>1, <1>2 DEF Puts, Overwrites, SameLinks
<1> QED BY <1>3, <1>4

\* A store that finds a place puts.
LEMMA PutPuts ==
  ASSUME NEW T, Good(T), NEW k \in DOMAIN T.hash, NEW v \in Values \union {Nil},
         \/ InArray(T, k) \/ Search(T, k) # Nil
         \/ ~(Collides(T, k) /\ FreeNodes(T) = {})
  PROVE  Puts(T, Put(T, k, v), k, v)
<1> DEFINE U == Put(T, k, v)
<1>1. CASE InArray(T, k) \/ Search(T, k) # Nil
  BY <1>1, PutOverwrites, OverwritesPuts
<1>2. CASE ~InArray(T, k) /\ Search(T, k) = Nil
  <2>1. New(T, k) /\ U = newkey(T, k, v)
    BY <1>2 DEF New, Put
  <2> HIDE DEF U
  <2>2. /\ SameFrame(T, U) /\ Stored(T, U, k, v) /\ (T.lastfree >= 0 => U.lastfree >= 0)
    BY <2>1, newkeyStores
  <2>3. Good(U) /\ U.hash = T.hash /\ U.array = T.array /\ N(U) = N(T)
        /\ \A j : InArray(U, j) <=> InArray(T, j)
    BY <2>2, SamePlaces DEF Stored, SameFrame
  <2>4. luaH_get(U, k) = v
    BY <2>2, <2>3, <1>2, GetIs DEF Stored
  <2>5. ASSUME NEW j \in DOMAIN T.hash, j # k
        PROVE  luaH_get(U, j) = luaH_get(T, j)
    <3>1. CASE InArray(T, j)
      BY <3>1, <2>3, GetIs
    <3>2. CASE ~InArray(T, j)
      <4>1. \A w : w # Nil => (Holds(T, j, w) <=> Holds(U, j, w))
        BY <2>2, <2>5 DEF Stored
      <4> QED BY <4>1, <3>2, <2>3, SameGet
    <3> QED BY <3>1, <3>2
  <2>6. Puts(T, U, k, v)
    BY <2>2, <2>3, <2>4, <2>5, <1>2 DEF Puts, Stored, SameFrame, sizearray
  <2> USE DEF U
  <2> QED BY <2>6
<1> QED BY <1>1, <1>2

-----------------------------------------------------------------------------
(*************************************************************************)
(* resize().                                                             *)
(*************************************************************************)
LEMMA GrownIs ==
  ASSUME NEW S, NEW a \in Seq(S \union {Nil}), NEW n \in Nat
  PROVE  /\ Grown(a, n) \in Seq(S \union {Nil}) /\ Len(Grown(a, n)) = n
         /\ \A i \in 1..n : Grown(a, n)[i] = IF i <= Len(a) THEN a[i] ELSE Nil
<1>1. Len(a) \in Nat /\ \A i \in 1..Len(a) : a[i] \in S \union {Nil}
  OBVIOUS
<1>2. \A i \in 1..n : (IF i <= Len(a) THEN a[i] ELSE Nil) \in S \union {Nil}
  BY <1>1
<1>3. Grown(a, n) \in [1..n -> S \union {Nil}]
  BY <1>2 DEF Grown
<1>4. Grown(a, n) \in Seq(S \union {Nil})
  BY <1>3
<1>5. Len(Grown(a, n)) = n
  BY <1>3, <1>4
<1> QED BY <1>4, <1>5 DEF Grown

\* A new table is in order, and has what its array has.
Fits(hash, array) ==
  /\ DOMAIN hash \subseteq Keys /\ hash \in [DOMAIN hash -> Nat]
  /\ array \in Seq(Values \union {Nil}) /\ Len(array) <= MAXASIZE
  /\ \A i \in 1..Len(array) : array[i] # Nil => i \in DOMAIN hash

LEMMA FreshIs ==
  ASSUME NEW hash, NEW array, Fits(hash, array), NEW nhash \in Nat
  PROVE  LET U == Fresh(hash, array, nhash)
         IN  /\ Good(U) /\ U.hash = hash /\ U.array = array /\ ~U.again /\ U.lastfree >= 0
             /\ U.dummy <=> nhash = 0
             /\ nhash <= sizenode(U)
             /\ \A i \in N(U) : U.node[i] = Empty
             /\ \A k \in DOMAIN hash : ~InArray(U, k) => luaH_get(U, k) = Nil
<1> DEFINE K == DOMAIN hash
           U == Fresh(hash, array, nhash)
           lsize == IF nhash = 0 THEN 0 ELSE ceillog2(nhash)
           f == [i \in 0..(twoto[lsize] - 1) |-> Empty]
           free == IF nhash = 0 THEN 0 ELSE twoto[lsize]
<1>0. /\ K \in SUBSET Keys /\ hash \in [K -> Nat]
      /\ array \in Seq(Values \union {Nil}) /\ Len(array) <= MAXASIZE
      /\ \A i \in 1..Len(array) : array[i] # Nil => i \in K
  BY DEF Fits
<1>1. lsize \in Nat /\ nhash <= twoto[lsize] /\ twoto[lsize] \in Nat /\ twoto[lsize] >= 1
      /\ (nhash = 0 => lsize = 0)
  <2>1. CASE nhash = 0
    BY <2>1, Twoto
  <2>2. CASE nhash # 0
    <3>1. lsize = ceillog2(nhash)
      BY <2>2
    <3>2. lsize \in Nat /\ nhash <= twoto[lsize]
      <4> HIDE DEF lsize
      <4> QED BY <3>1, Ceillog2
    <3> HIDE DEF lsize
    <3> QED BY <3>2, <2>2, Twoto
  <2> QED BY <2>1, <2>2
<1> HIDE DEF lsize
<1>2. U = [hash |-> hash, array |-> array, lsizenode |-> lsize, node |-> f, dummy |-> nhash = 0,
           lastfree |-> free, again |-> FALSE]
  BY DEF Fresh, lsize
<1> HIDE DEF f, free
<1>3. /\ U.hash = hash /\ U.array = array /\ U.lsizenode = lsize /\ U.node = f
      /\ U.dummy = (nhash = 0) /\ U.lastfree = free /\ U.again = FALSE
  BY <1>2
<1>4. N(U) = 0..(twoto[lsize] - 1) /\ sizenode(U) = twoto[lsize] /\ N(U) \subseteq Nat
  BY <1>3, <1>1 DEF N, sizenode
<1>5. Empty \in Node /\ Empty.key = Nil /\ Empty.val = Nil /\ Empty.next = Nil /\ Empty.dead = FALSE
  BY DEF Empty, Node
<1>6. f \in [N(U) -> Node] /\ \A i \in N(U) : f[i] = Empty
  BY <1>4, <1>5 DEF f
<1>7. U \in Table
  <2>1. hash \in UNION {[S -> Nat] : S \in SUBSET Keys}
    BY <1>0
  <2>2. f \in UNION {[0..m -> Node] : m \in Nat}
    <3>1. twoto[lsize] - 1 \in Nat
      BY <1>1
    <3> QED BY <3>1, <1>4, <1>6
  <2>3. free \in Int
    BY <1>1 DEF free
  <2> QED BY <2>1, <2>2, <2>3, <1>0, <1>1, <1>2 DEF Table
<1>8. Typed(U)
  <2>1. U.lastfree \in -1..sizenode(U) /\ U.lastfree >= 0
    BY <1>1, <1>3, <1>4 DEF free
  <2>2. U.dummy => U.lsizenode = 0 /\ U.node[0] = Empty /\ U.lastfree <= 0
    <3>1. 0 \in N(U)
      BY <1>1, <1>4
    <3>2. U.dummy => nhash = 0
      BY <1>3
    <3>3. nhash = 0 => free = 0 /\ lsize = 0
      BY <1>1 DEF free
    <3>4. U.lsizenode = lsize /\ U.node[0] = Empty /\ U.lastfree = free
      <4> HIDE DEF U
      <4> QED BY <3>1, <1>3, <1>6
    <3> HIDE DEF U
    <3> QED BY <3>2, <3>3, <3>4
  <2>3. U.node \in [N(U) -> Node]
    BY <1>3, <1>6
  <2>4. DOMAIN U.hash = K
    BY <1>3
  <2> QED BY <2>1, <2>2, <2>3, <2>4, <1>0, <1>3, <1>7 DEF Typed
<1>9. Kept(U)
  <2>1. ~U.dummy => U.lastfree = sizenode(U)
    BY <1>3, <1>4 DEF free
  <2>2. \A i \in N(U) : ~(i >= sizenode(U))
    BY <1>1, <1>4
  <2> QED BY <2>1, <2>2, <1>3, <1>5, <1>6 DEF Kept
<1>10. Joined(U)
  <2>1. Ranks(U, [i \in N(U) |-> 0])
    BY <1>3, <1>5, <1>6 DEF Ranks
  <2>2. \E r : Ranks(U, r)
    BY <2>1
  <2> QED BY <2>2, <1>3, <1>5, <1>6 DEF Joined
<1>11. Placed(U)
  BY <1>3, <1>5, <1>6 DEF Placed
<1>12. Good(U)
  BY <1>8, <1>9, <1>10, <1>11 DEF Good
<1>13. \A k \in DOMAIN hash : ~InArray(U, k) => luaH_get(U, k) = Nil
  <2> TAKE k \in DOMAIN hash
  <2>1. \A v : v # Nil => ~Holds(U, k, v)
    BY <1>3, <1>5, <1>6 DEF Holds
  <2>2. k \in DOMAIN U.hash
    BY <1>3
  <2> HIDE DEF U
  <2> QED BY <2>1, <2>2, <1>12, GetIs
<1>14. U.lastfree >= 0
  BY <1>1, <1>3 DEF free
<1>15. U.dummy <=> nhash = 0
  BY <1>3
<1>16. nhash <= sizenode(U) /\ \A i \in N(U) : U.node[i] = Empty
  BY <1>1, <1>3, <1>4, <1>6
<1> HIDE DEF U
<1> QED BY <1>3, <1>12, <1>13, <1>14, <1>15, <1>16 DEF U

LEMMA NumberKeys == \A k \in Keys : k \in Nat => k \in Ints
BY KeysAssumption DEF Keys

\* An element is at one position, and findindex() finds it there.
LEMMA Positions ==
  ASSUME NEW T, Good(T)
  PROVE  /\ Filled(T, 0) \subseteq 1..(sizearray(T) + sizenode(T))
         /\ \A p \in Filled(T, 0) :
              /\ KeyAt(T, p) \in DOMAIN T.hash /\ ValueAt(T, p) \in Values /\ ValueAt(T, p) # Nil
              /\ p <= sizearray(T) => KeyAt(T, p) = p /\ InArray(T, p)
              /\ p > sizearray(T) => /\ p - sizearray(T) - 1 \in N(T)
                                     /\ T.node[p - sizearray(T) - 1].key = KeyAt(T, p)
                                     /\ T.node[p - sizearray(T) - 1].val = ValueAt(T, p)
              /\ Shadowed(T) = {} =>
                   /\ luaH_get(T, KeyAt(T, p)) = ValueAt(T, p)
                   /\ findindex(T, KeyAt(T, p)) = p
                   /\ InArray(T, KeyAt(T, p)) <=> p <= sizearray(T)
         /\ \A k \in DOMAIN T.hash : luaH_get(T, k) # Nil =>
              \E p \in Filled(T, 0) : KeyAt(T, p) = k
<1>1. /\ sizenode(T) \in Nat /\ sizenode(T) >= 1 /\ N(T) \subseteq Nat
      /\ DOMAIN T.node = N(T) /\ Nil \notin N(T) /\ DOMAIN T.hash \subseteq Keys
      /\ \A k \in DOMAIN T.hash : k # Nil
      /\ \A i \in N(T) : T.node[i] \in Node
      /\ sizearray(T) \in Nat
      /\ \A i \in 1..sizearray(T) : T.array[i] \in Values \union {Nil}
      /\ \A i \in 1..sizearray(T) : T.array[i] # Nil => i \in DOMAIN T.hash
  BY Fields DEF Good
<1>2. \A i \in N(T) : T.node[i].val # Nil => T.node[i].key \in DOMAIN T.hash /\ ~T.node[i].dead
  BY DEF Good, Kept, Empty
<1>3. \A i : i \in N(T) <=> i \in 0..(sizenode(T) - 1)
  BY DEF N
<1>4. ASSUME NEW p \in Filled(T, 0)
      PROVE  /\ KeyAt(T, p) \in DOMAIN T.hash /\ ValueAt(T, p) \in Values /\ ValueAt(T, p) # Nil
             /\ p <= sizearray(T) => KeyAt(T, p) = p /\ InArray(T, p)
             /\ p > sizearray(T) => /\ p - sizearray(T) - 1 \in N(T)
                                    /\ T.node[p - sizearray(T) - 1].key = KeyAt(T, p)
                                    /\ T.node[p - sizearray(T) - 1].val = ValueAt(T, p)
             /\ Shadowed(T) = {} =>
                  /\ luaH_get(T, KeyAt(T, p)) = ValueAt(T, p)
                  /\ findindex(T, KeyAt(T, p)) = p
                  /\ InArray(T, KeyAt(T, p)) <=> p <= sizearray(T)
  <2>1. p \in 1..(sizearray(T) + sizenode(T)) /\ ValueAt(T, p) # Nil
    BY DEF Filled
  <2>2. CASE p <= sizearray(T)
    <3>1. p \in 1..sizearray(T) /\ KeyAt(T, p) = p /\ ValueAt(T, p) = T.array[p]
      BY <2>1, <2>2, <1>1 DEF KeyAt, ValueAt
    <3>2. p \in DOMAIN T.hash /\ p \in Ints /\ ValueAt(T, p) \in Values
      BY <3>1, <2>1, <1>1, NumberKeys
    <3>3. InArray(T, p)
      BY <3>1, <3>2 DEF InArray
    <3>4. findindex(T, p) = p /\ luaH_get(T, p) = T.array[p]
      BY <3>2, <3>3, <1>1 DEF findindex, luaH_get
    <3> QED BY <3>1, <3>2, <3>3, <3>4, <2>1, <2>2, <1>1
  <2>3. CASE p > sizearray(T)
    <3> DEFINE i == p - sizearray(T) - 1
               k == KeyAt(T, p)
    <3>1. i \in N(T) /\ k = T.node[i].key /\ ValueAt(T, p) = T.node[i].val
      BY <2>1, <2>3, <1>1, <1>3 DEF KeyAt, ValueAt
    <3>2. k \in DOMAIN T.hash /\ ~T.node[i].dead /\ ValueAt(T, p) \in Values
      BY <3>1, <2>1, <1>1, <1>2 DEF Node
    <3>3. ASSUME Shadowed(T) = {}
          PROVE  luaH_get(T, k) = ValueAt(T, p) /\ findindex(T, k) = p /\ ~InArray(T, k)
      <4> HIDE DEF i, k
      <4>1. i \in LiveNodes(T)
        BY <3>1, <2>1, <1>1 DEF LiveNodes
      <4>2. ~InArray(T, k)
        BY <4>1, <3>1, <3>3 DEF Shadowed, InArray
      <4>3. luaH_get(T, k) = ValueAt(T, p)
        <5>1. Holds(T, k, ValueAt(T, p))
          BY <3>1 DEF Holds
        <5> QED BY <5>1, <4>2, <3>2, <2>1, GetIs
      <4>4. First(T, k, Holding(T, k)) = i
        BY <3>1, <3>2, FindIs
      <4>5. findindex(T, k) = sizearray(T) + i + 1
        BY <4>2, <4>4, <3>1, <3>2, <1>1 DEF findindex
      <4>6. findindex(T, k) = p
        BY <4>5, <2>1, <1>1 DEF i
      <4> QED BY <4>2, <4>3, <4>6
    <3> QED BY <3>1, <3>2, <3>3, <2>1, <2>3, <1>1
  <2> QED BY <2>1, <2>2, <2>3, <1>1
<1>5. ASSUME NEW k \in DOMAIN T.hash, luaH_get(T, k) # Nil
      PROVE  \E p \in Filled(T, 0) : KeyAt(T, p) = k
  <2>1. CASE InArray(T, k)
    <3>1. k \in 1..sizearray(T) /\ T.array[k] # Nil
      BY <2>1, <1>5, GetIs
    <3>2. KeyAt(T, k) = k /\ k \in Filled(T, 0)
      BY <3>1, <1>1 DEF KeyAt, ValueAt, Filled
    <3> QED BY <3>2
  <2>2. CASE ~InArray(T, k)
    <3>1. PICK i \in N(T) : T.node[i].key = k /\ T.node[i].val = luaH_get(T, k)
      BY <2>2, <1>5, GetIs DEF Holds
    <3> DEFINE p == sizearray(T) + i + 1
    <3>2. p > sizearray(T) /\ p \in 1..(sizearray(T) + sizenode(T)) /\ p - sizearray(T) - 1 = i
      BY <3>1, <1>1, <1>3
    <3>3. KeyAt(T, p) = k /\ p \in Filled(T, 0)
      <4> HIDE DEF p
      <4> QED BY <3>1, <3>2, <1>1, <1>5 DEF KeyAt, ValueAt, Filled
    <3> QED BY <3>3
  <2> QED BY <2>1, <2>2
<1>6. Filled(T, 0) \subseteq 1..(sizearray(T) + sizenode(T))
  BY DEF Filled
<1> QED BY <1>4, <1>5, <1>6

\* The keys that have values, when none is shadowed.
LiveKeys(T) == {k \in DOMAIN T.hash : luaH_get(T, k) # Nil}

LEMMA KeysCounted ==
  ASSUME NEW T, Good(T), Shadowed(T) = {}
  PROVE  /\ IsFiniteSet(LiveKeys(T)) /\ Cardinality(LiveKeys(T)) = Cardinality(Filled(T, 0))
         /\ LiveKeys(T) = {KeyAt(T, p) : p \in Filled(T, 0)}
<1> DEFINE f == [p \in Filled(T, 0) |-> KeyAt(T, p)]
<1>1. IsFiniteSet(Filled(T, 0))
  <2>1. sizearray(T) + sizenode(T) \in Int
    BY Fields DEF Good
  <2>2. IsFiniteSet(1..(sizearray(T) + sizenode(T)))
    BY <2>1, FS_Interval
  <2> QED BY <2>2, Positions, FS_Subset
<1>2. \A p \in Filled(T, 0) : KeyAt(T, p) \in LiveKeys(T)
  BY Positions DEF LiveKeys
<1>3. \A k \in LiveKeys(T) : \E p \in Filled(T, 0) : KeyAt(T, p) = k
  BY Positions DEF LiveKeys
<1>4. \A p, q \in Filled(T, 0) : KeyAt(T, p) = KeyAt(T, q) => p = q
  <2>1. \A p \in Filled(T, 0) : findindex(T, KeyAt(T, p)) = p
    BY Positions
  <2> QED BY <2>1
<1>5. f \in Bijection(Filled(T, 0), LiveKeys(T))
  <2>1. f \in [Filled(T, 0) -> LiveKeys(T)]
    BY <1>2
  <2>2. f \in Injection(Filled(T, 0), LiveKeys(T))
    BY <2>1, <1>4 DEF Injection, IsInjective
  <2>3. f \in Surjection(Filled(T, 0), LiveKeys(T))
    BY <2>1, <1>3 DEF Surjection
  <2> QED BY <2>2, <2>3 DEF Bijection
<1>6. IsFiniteSet(LiveKeys(T)) /\ Cardinality(LiveKeys(T)) = Cardinality(Filled(T, 0))
  BY <1>1, <1>5, FS_Bijection DEF ExistsBijection
<1> QED BY <1>2, <1>3, <1>6

\* A hash part with as many nodes as keys to come has one free for the last.
LEMMA Room ==
  ASSUME NEW S, Good(S), ~S.dummy, S.lastfree >= 0,
         NEW K, IsFiniteSet(K), Cardinality(K) <= sizenode(S), NEW k \in K,
         \A i \in N(S) : S.node[i].key # Nil => S.node[i].key \in K \ {k} /\ ~S.node[i].dead
  PROVE  FreeNodes(S) # {}
<1> SUFFICES ASSUME FreeNodes(S) = {}
             PROVE  FALSE
  OBVIOUS
<1> DEFINE f == [i \in N(S) |-> S.node[i].key]
<1>1. sizenode(S) \in Nat /\ sizenode(S) >= 1 /\ N(S) \subseteq Nat /\ N(S) = 0..(sizenode(S) - 1)
  BY Fields DEF Good, N
<1>2. Sound(S)
  BY GoodIsSound DEF Good
<1>3. ASSUME NEW i \in N(S)
      PROVE  S.node[i].key # Nil
  <2>1. S.lastfree \in Int /\ i \in Nat
    BY <1>1 DEF Good, Typed
  <2>2. CASE i >= S.lastfree
    BY <2>2 DEF Good, Kept
  <2>3. CASE ~(i >= S.lastfree)
    <3>1. i \in 0..(S.lastfree - 1)
      BY <2>1, <2>3
    <3> QED BY <3>1 DEF FreeNodes
  <2> QED BY <2>2, <2>3
<1>4. ASSUME NEW i \in N(S), NEW j \in N(S), S.node[i].key = S.node[j].key
      PROVE  i = j
  <2>1. j \in Chain(S, i) /\ i \in Chain(S, j)
    BY <1>3, <1>4 DEF Good, Placed
  <2> QED BY <2>1, <1>2, ChainOrder
<1>5. f \in Injection(N(S), K \ {k})
  <2>1. f \in [N(S) -> K \ {k}]
    BY <1>3
  <2> QED BY <2>1, <1>4 DEF Injection, IsInjective
<1>6. IsFiniteSet(K \ {k}) /\ Cardinality(K \ {k}) = Cardinality(K) - 1 /\ Cardinality(K) \in Nat
  BY FS_RemoveElement, FS_CardinalityType
<1>7. Cardinality(N(S)) <= Cardinality(K \ {k})
  BY <1>5, <1>6, FS_Injection
<1>8. Cardinality(N(S)) = sizenode(S)
  <2>1. Cardinality(0..(sizenode(S) - 1)) = IF 0 > sizenode(S) - 1 THEN 0 ELSE (sizenode(S) - 1) - 0 + 1
    BY <1>1, FS_Interval
  <2> QED BY <2>1, <1>1
<1> QED BY <1>1, <1>6, <1>7, <1>8

\* The positions resize() takes elements from, one after the other.
Slice(T, na) == IF na < sizearray(T) THEN sizearray(T) - na ELSE 0
Place(T, na, i) ==
  IF i <= Slice(T, na) THEN na + i ELSE sizearray(T) + sizenode(T) + Slice(T, na) + 1 - i
Moved(T, na, S, i) ==
  IF ValueAt(T, Place(T, na, i)) = Nil THEN S
  ELSE Put(S, KeyAt(T, Place(T, na, i)), ValueAt(T, Place(T, na, i)))

LEMMA PlaceIs ==
  ASSUME NEW T, Good(T), NEW na \in Nat
  PROVE  /\ Slice(T, na) + sizenode(T) \in Nat
         /\ \A i \in 1..(Slice(T, na) + sizenode(T)) :
              /\ Place(T, na, i) > na \/ Place(T, na, i) > sizearray(T)
              /\ Place(T, na, i) \in 1..(sizearray(T) + sizenode(T))
              /\ \A j \in 1..(Slice(T, na) + sizenode(T)) : Place(T, na, i) = Place(T, na, j) => i = j
         /\ \A p \in 1..(sizearray(T) + sizenode(T)) : p > na \/ p > sizearray(T) =>
              \E i \in 1..(Slice(T, na) + sizenode(T)) : Place(T, na, i) = p
<1>1. sizearray(T) \in Nat /\ sizenode(T) \in Nat /\ Slice(T, na) \in Nat
  BY Fields DEF Good, Slice
<1>2. ASSUME NEW i \in 1..(Slice(T, na) + sizenode(T))
      PROVE  /\ Place(T, na, i) \in 1..(sizearray(T) + sizenode(T))
             /\ i <= Slice(T, na) => Place(T, na, i) = na + i /\ na + i <= sizearray(T)
             /\ i > Slice(T, na) => /\ Place(T, na, i) > sizearray(T)
                                    /\ Place(T, na, i) = sizearray(T) + sizenode(T) + Slice(T, na) + 1 - i
  BY <1>1 DEF Place, Slice
<1>3. ASSUME NEW i \in 1..(Slice(T, na) + sizenode(T)), NEW j \in 1..(Slice(T, na) + sizenode(T)),
             Place(T, na, i) = Place(T, na, j)
      PROVE  i = j
  BY <1>1, <1>2, <1>3
<1>4. ASSUME NEW p \in 1..(sizearray(T) + sizenode(T)), p > na \/ p > sizearray(T)
      PROVE  \E i \in 1..(Slice(T, na) + sizenode(T)) : Place(T, na, i) = p
  <2>1. CASE p > sizearray(T)
    <3> DEFINE i == sizearray(T) + sizenode(T) + Slice(T, na) + 1 - p
    <3>1. i \in 1..(Slice(T, na) + sizenode(T)) /\ Place(T, na, i) = p
      BY <2>1, <1>1 DEF Place
    <3> QED BY <3>1
  <2>2. CASE ~(p > sizearray(T))
    <3>1. p - na \in 1..(Slice(T, na) + sizenode(T)) /\ Place(T, na, p - na) = p
      BY <2>2, <1>1, <1>4 DEF Place, Slice
    <3> QED BY <3>1
  <2> QED BY <2>1, <2>2
<1>5. Slice(T, na) + sizenode(T) \in Nat
  BY <1>1
<1>6. \A i \in 1..(Slice(T, na) + sizenode(T)) : Place(T, na, i) > na \/ Place(T, na, i) > sizearray(T)
  BY <1>1, <1>2
<1> QED BY <1>2, <1>3, <1>4, <1>5, <1>6

\* resize() is a sequence of stores.
LEMMA ResizeSteps ==
  ASSUME NEW T, NEW na, NEW nh, Slice(T, na) + sizenode(T) \in Nat
  PROVE  \E table : /\ table[0] = Fresh(T.hash, Grown(T.array, na), nh)
                    /\ \A i \in 1..(Slice(T, na) + sizenode(T)) :
                         table[i] = Moved(T, na, table[i - 1], i)
                    /\ resize(T, na, nh) = table[Slice(T, na) + sizenode(T)]
<1> DEFINE M == Slice(T, na) + sizenode(T)
           S0 == Fresh(T.hash, Grown(T.array, na), nh)
           body(f, i) == IF i = 0 THEN S0 ELSE Moved(T, na, f[i - 1], i)
           C == {n \in Nat : \E f : f = [i \in 0..n |-> body(f, i)]}
<1>1. \A n \in 0..M : n \in C
  <2>1. 0 \in C
    <3> DEFINE f == [i \in 0..0 |-> S0]
    <3>1. f = [i \in 0..0 |-> body(f, i)]
      <4> HIDE DEF S0
      <4> QED OBVIOUS
    <3> QED BY <3>1
  <2>2. ASSUME NEW n \in 0..(M - 1), n \in C
        PROVE  n + 1 \in C
    <3>1. PICK f : f = [i \in 0..n |-> body(f, i)]
      BY <2>2
    <3> DEFINE g == [i \in 0..(n + 1) |-> IF i <= n THEN f[i] ELSE body(f, n + 1)]
    <3>2. ASSUME NEW i \in 0..(n + 1)
          PROVE  g[i] = body(g, i)
      <4> HIDE DEF S0
      <4>1. CASE i = 0
        <5>1. f[0] = body(f, 0)
          <6> HIDE DEF body
          <6> QED BY <3>1
        <5> QED BY <4>1, <5>1
      <4>2. CASE i # 0
        <5>1. g[i - 1] = f[i - 1]
          <6> HIDE DEF body
          <6> QED BY <4>2
        <5>2. body(g, i) = body(f, i)
          <6> HIDE DEF g
          <6> QED BY <5>1, <4>2
        <5>3. i <= n => f[i] = body(f, i)
          <6> HIDE DEF body
          <6> QED BY <3>1
        <5>4. g[i] = IF i <= n THEN f[i] ELSE body(f, n + 1)
          <6> HIDE DEF body
          <6> QED OBVIOUS
        <5>5. ~(i <= n) => i = n + 1
          OBVIOUS
        <5> HIDE DEF body, g
        <5> QED BY <5>2, <5>3, <5>4, <5>5
      <4> QED BY <4>1, <4>2
    <3>3. g = [i \in 0..(n + 1) |-> g[i]]
      <4> HIDE DEF body
      <4> QED OBVIOUS
    <3>4. g = [i \in 0..(n + 1) |-> body(g, i)]
      <4> HIDE DEF body, g
      <4> QED BY <3>2, <3>3
    <3> HIDE DEF g, body
    <3> QED BY <3>4
  <2> HIDE DEF C
  <2> QED BY <2>1, <2>2, AllUpTo
<1> DEFINE table == CHOOSE f : f = [i \in 0..M |-> body(f, i)]
<1>2. table = [i \in 0..M |-> body(table, i)]
  <2> HIDE DEF body
  <2>1. \E f : f = [i \in 0..M |-> body(f, i)]
    BY <1>1
  <2> HIDE DEF M
  <2> QED BY <2>1
<1>3. resize(T, na, nh) = table[M]
  BY DEF resize, Moved, Place, Slice
<1> HIDE DEF table
<1>4. table[0] = S0
  <2> HIDE DEF S0
  <2> QED BY <1>2
<1>5. ASSUME NEW i \in 1..M
      PROVE  table[i] = Moved(T, na, table[i - 1], i)
  <2>1. table[i] = body(table, i) /\ i # 0
    <3> HIDE DEF body
    <3> QED BY <1>2
  <2> HIDE DEF S0
  <2> QED BY <2>1
<1> WITNESS table
<1> QED BY <1>3, <1>4, <1>5

\* resize() keeps the elements, and is in no want of a node if there are as
\* many as keys that do not go to the array.
LEMMA ResizeIs ==
  ASSUME NEW T, Good(T), Shadowed(T) = {}, NEW na \in 0..MAXASIZE, NEW nh \in Nat,
         NEW K, IsFiniteSet(K), Cardinality(K) <= nh, LiveKeys(T) \ (1..na) \subseteq K
  PROVE  LET R == resize(T, na, nh)
         IN  /\ Good(R) /\ R.hash = T.hash /\ sizearray(R) = na /\ ~R.again /\ R.lastfree >= 0
             /\ R.dummy <=> nh = 0
             /\ nh <= sizenode(R) /\ Shadowed(R) = {}
             /\ \A k \in DOMAIN T.hash : luaH_get(R, k) = luaH_get(T, k)
             /\ \A i \in N(R) : R.node[i].key # Nil =>
                  R.node[i].key \in LiveKeys(T) \ (1..na) /\ ~R.node[i].dead
<1> DEFINE M == Slice(T, na) + sizenode(T)
           S0 == Fresh(T.hash, Grown(T.array, na), nh)
           At(x, k) == Place(T, na, x) \in Filled(T, 0) /\ KeyAt(T, Place(T, na, x)) = k
           Landed(i, k) == (k \in 1..na /\ k \in 1..sizearray(T)) \/ \E x \in 1..i : At(x, k)
           Frame(S) == /\ Good(S) /\ S.hash = T.hash /\ sizearray(S) = na /\ ~S.again
                       /\ S.lastfree >= 0 /\ (S.dummy <=> nh = 0) /\ nh <= sizenode(S)
                       /\ S.lsizenode = S0.lsizenode
           Contents(i, S) == \A k \in DOMAIN T.hash :
                               luaH_get(S, k) = IF Landed(i, k) THEN luaH_get(T, k) ELSE Nil
           Nodes(i, S) == \A j \in N(S) : S.node[j].key # Nil =>
                            /\ ~S.node[j].dead /\ S.node[j].key \notin 1..na
                            /\ \E x \in 1..i : At(x, S.node[j].key)
<1>1. /\ MAXASIZE \in Nat /\ na \in Nat /\ na <= MAXASIZE /\ M \in Nat
      /\ DOMAIN T.hash \subseteq Keys /\ T.hash \in [DOMAIN T.hash -> Nat]
      /\ sizearray(T) \in Nat /\ sizenode(T) \in Nat
  <2>1. MAXASIZE \in Nat
    BY Twoto, TablesAssumption DEF MAXASIZE
  <2>2. na \in Nat /\ na <= MAXASIZE
    BY <2>1
  <2> QED BY <2>1, <2>2, PlaceIs, Fields DEF Good
<1>2. PICK table : /\ table[0] = S0
                   /\ \A i \in 1..M : table[i] = Moved(T, na, table[i - 1], i)
                   /\ resize(T, na, nh) = table[M]
  BY <1>1, ResizeSteps
<1>3. Frame(S0) /\ Contents(0, S0) /\ Nodes(0, S0)
  <2> DEFINE a == Grown(T.array, na)
  <2>1. T.array \in Seq(Values \union {Nil}) /\ Len(T.array) = sizearray(T)
    BY DEF Good, Typed, Table, sizearray
  <2>2. /\ a \in Seq(Values \union {Nil}) /\ Len(a) = na
        /\ \A i \in 1..na : a[i] = IF i <= sizearray(T) THEN T.array[i] ELSE Nil
    <3>1. na \in Nat
      BY <1>1
    <3>2. /\ a \in Seq(Values \union {Nil}) /\ Len(a) = na
          /\ \A i \in 1..na : a[i] = IF i <= Len(T.array) THEN T.array[i] ELSE Nil
      BY <2>1, <3>1, GrownIs, Zenon
    <3> HIDE DEF a
    <3> QED BY <3>2, <2>1
  <2>3. \A i \in 1..Len(a) : a[i] # Nil => i \in DOMAIN T.hash
    <3>1. \A i \in 1..sizearray(T) : T.array[i] # Nil => i \in DOMAIN T.hash
      BY Fields DEF Good
    <3> HIDE DEF a
    <3> QED BY <3>1, <2>2, <1>1
  <2> HIDE DEF a
  <2>4. /\ Good(S0) /\ S0.hash = T.hash /\ S0.array = a /\ ~S0.again /\ S0.lastfree >= 0
        /\ S0.dummy <=> nh = 0
        /\ nh <= sizenode(S0)
        /\ \A i \in N(S0) : S0.node[i] = Empty
        /\ \A k \in DOMAIN T.hash : ~InArray(S0, k) => luaH_get(S0, k) = Nil
    <3>1. S0 = Fresh(T.hash, a, nh)
      BY DEF a
    <3>2. Fits(T.hash, a)
      BY <2>2, <2>3, <1>1 DEF Fits
    <3> QED BY <3>1, <3>2, FreshIs
  <2> HIDE DEF S0
  <2>5. sizearray(S0) = na
    BY <2>2, <2>4 DEF sizearray
  <2>6. ASSUME NEW k \in DOMAIN T.hash
        PROVE  luaH_get(S0, k) = IF Landed(0, k) THEN luaH_get(T, k) ELSE Nil
    <3>1. Landed(0, k) <=> k \in 1..na /\ k \in 1..sizearray(T)
      OBVIOUS
    <3>2. CASE k \in 1..na
      <4>1. k \in Ints
        BY <3>2, <1>1, NumberKeys
      <4>2. InArray(S0, k) /\ (k \in 1..sizearray(T) => InArray(T, k))
        BY <3>2, <4>1, <2>5 DEF InArray
      <4>3. luaH_get(S0, k) = a[k]
        BY <4>2, <2>4, GetIs
      <4>4. k \in 1..sizearray(T) => luaH_get(T, k) = T.array[k]
        BY <4>2, GetIs
      <4>5. k \in 1..sizearray(T) <=> k <= sizearray(T)
        BY <3>2, <1>1
      <4> HIDE DEF Landed
      <4> QED BY <3>1, <3>2, <4>3, <4>4, <4>5, <2>2
    <3>3. CASE k \notin 1..na
      <4>1. ~InArray(S0, k)
        BY <3>3, <2>5 DEF InArray
      <4> HIDE DEF Landed
      <4> QED BY <4>1, <3>1, <3>3, <2>4
    <3> QED BY <3>2, <3>3
  <2>7. Nodes(0, S0)
    BY <2>4 DEF Empty
  <2> HIDE DEF Landed
  <2> QED BY <2>4, <2>5, <2>6, <2>7
<1>4. ASSUME NEW i \in 1..M, NEW S, Frame(S), Contents(i - 1, S), Nodes(i - 1, S)
      PROVE  LET U == Moved(T, na, S, i) IN Frame(U) /\ Contents(i, U) /\ Nodes(i, U)
  <2> DEFINE p == Place(T, na, i)
             k == KeyAt(T, p)
             v == ValueAt(T, p)
             U == Moved(T, na, S, i)
  <2>1. p \in 1..(sizearray(T) + sizenode(T)) /\ \A j \in 1..M : p = Place(T, na, j) => i = j
    BY <1>1, PlaceIs
  <2>2. \A j : (\E x \in 1..i : At(x, j)) <=> (\E x \in 1..(i - 1) : At(x, j)) \/ At(i, j)
    <3>1. 1..i = 1..(i - 1) \union {i}
      BY <1>1
    <3> HIDE DEF At
    <3> QED BY <3>1
  <2> HIDE DEF S0
  <2>3. CASE v = Nil
    <3>1. U = S /\ \A j : ~At(i, j)
      BY <2>3 DEF Moved, Filled
    <3>2. \A j : Landed(i, j) <=> Landed(i - 1, j)
      <4> HIDE DEF At, U
      <4> QED BY <3>1, <2>2
    <3> HIDE DEF At, U, Landed
    <3>3. Frame(U) /\ Contents(i, U)
      BY <3>1, <3>2, <1>4
    <3>4. Nodes(i, U)
      BY <3>1, <2>2, <1>4
    <3> USE DEF U
    <3> QED BY <3>3, <3>4
  <2>4. CASE v # Nil
    <3>1. U = Put(S, k, v) /\ p \in Filled(T, 0) /\ \A j : At(i, j) <=> j = k
      BY <2>1, <2>4, <1>1 DEF Moved, Filled
    <3>2. k \in DOMAIN T.hash /\ v \in Values /\ luaH_get(T, k) = v /\ k \in LiveKeys(T)
      BY <3>1, <2>4, Positions DEF LiveKeys
    <3> HIDE DEF U, k, v
    <3>3. InArray(S, k) \/ Search(S, k) # Nil \/ ~(Collides(S, k) /\ FreeNodes(S) = {})
      <4> SUFFICES ASSUME ~InArray(S, k)
                   PROVE  FreeNodes(S) # {}
        OBVIOUS
      <4>1. k \notin 1..na
        <5>1. k \in 1..na => k \in Ints
          BY <3>2, <1>1, NumberKeys
        <5> QED BY <5>1, <1>4 DEF InArray
      <4>2. k \in K
        BY <4>1, <3>2
      <4>3. nh # 0
        <5>1. Cardinality(K) # 0 /\ Cardinality(K) \in Nat
          BY <4>2, FS_EmptySet, FS_CardinalityType
        <5> QED BY <5>1
      <4>4. Cardinality(K) <= sizenode(S)
        <5>1. Cardinality(K) \in Nat /\ sizenode(S) \in Nat
          BY FS_CardinalityType, <1>4, Fields DEF Good
        <5> QED BY <5>1, <1>4
      <4>5. ASSUME NEW j \in N(S), S.node[j].key # Nil
            PROVE  S.node[j].key \in K \ {k} /\ ~S.node[j].dead
        <5>1. PICK x \in 1..(i - 1) : At(x, S.node[j].key)
          BY <4>5, <1>4
        <5>2. S.node[j].key \in LiveKeys(T) /\ S.node[j].key \notin 1..na /\ ~S.node[j].dead
          <6>1. luaH_get(T, S.node[j].key) # Nil /\ S.node[j].key \in DOMAIN T.hash
            BY <5>1, Positions
          <6> QED BY <6>1, <4>5, <1>4 DEF LiveKeys
        <5>3. S.node[j].key # k
          <6> SUFFICES ASSUME S.node[j].key = k
                       PROVE  FALSE
            OBVIOUS
          <6>1. findindex(T, k) = p
            BY <3>1, Positions DEF k
          <6>2. findindex(T, k) = Place(T, na, x)
            BY <5>1, Positions
          <6>3. x \in 1..M /\ x # i
            BY <1>1
          <6> QED BY <6>1, <6>2, <6>3, <2>1
        <5> QED BY <5>2, <5>3
      <4>6. Good(S) /\ ~S.dummy /\ S.lastfree >= 0
        BY <4>3, <1>4
      <4> HIDE DEF Frame, Contents, Nodes
      <4> QED BY <4>2, <4>4, <4>5, <4>6, Room
    <3>4. Puts(S, U, k, v)
      <4>1. k \in DOMAIN S.hash /\ v \in Values \union {Nil} /\ Good(S)
        BY <3>2, <1>4
      <4> HIDE DEF Frame, Contents, Nodes
      <4> QED BY <4>1, <3>1, <3>3, PutPuts
    <3>5. N(U) = N(S) /\ sizenode(U) = sizenode(S) /\ U.hash = T.hash
      BY <3>4, <1>4 DEF Puts, N, sizenode
    <3>6. Frame(U)
      BY <3>4, <3>5, <1>4 DEF Puts
    <3>7. ASSUME NEW j \in DOMAIN T.hash
          PROVE  luaH_get(U, j) = IF Landed(i, j) THEN luaH_get(T, j) ELSE Nil
      <4>1. CASE j = k
        <5>1. Landed(i, k)
          BY <2>2, <3>1
        <5>2. luaH_get(U, k) = v
          BY <3>4 DEF Puts
        <5> QED BY <4>1, <5>1, <5>2, <3>2
      <4>2. CASE j # k
        <5>1. Landed(i, j) <=> Landed(i - 1, j)
          <6> HIDE DEF At
          <6> QED BY <4>2, <2>2, <3>1
        <5>2. luaH_get(U, j) = luaH_get(S, j)
          BY <4>2, <3>4, <1>4 DEF Puts
        <5> HIDE DEF Landed
        <5> QED BY <5>1, <5>2, <1>4
      <4> QED BY <4>1, <4>2
    <3>8. ASSUME NEW j \in N(U), U.node[j].key # Nil
          PROVE  /\ ~U.node[j].dead /\ U.node[j].key \notin 1..na
                 /\ \E x \in 1..i : At(x, U.node[j].key)
      <4>1. CASE U.node[j].key = k /\ ~U.node[j].dead /\ ~InArray(S, k)
        <5>1. k \in 1..na => k \in Ints
          BY <3>2, <1>1, NumberKeys
        <5>2. k \notin 1..na
          BY <5>1, <4>1, <1>4 DEF InArray
        <5> QED BY <4>1, <5>2, <2>2, <3>1
      <4>2. CASE \E l \in N(S) : U.node[j].key = S.node[l].key /\ U.node[j].dead = S.node[l].dead
        <5>1. PICK l \in N(S) : U.node[j].key = S.node[l].key /\ U.node[j].dead = S.node[l].dead
          BY <4>2
        <5> HIDE DEF At
        <5> QED BY <5>1, <3>8, <2>2, <1>4
      <4>3. \/ U.node[j].key = k /\ ~U.node[j].dead /\ ~InArray(S, k)
            \/ \E l \in N(S) : U.node[j].key = S.node[l].key /\ U.node[j].dead = S.node[l].dead
        BY <3>4, <3>5 DEF Puts
      <4> QED BY <4>1, <4>2, <4>3
    <3> HIDE DEF Frame, Landed, At
    <3> USE DEF U
    <3> QED BY <3>6, <3>7, <3>8
  <2> QED BY <2>3, <2>4
<1> HIDE DEF Frame, Contents, Nodes
<1> DEFINE C == {i \in Nat : Frame(table[i]) /\ Contents(i, table[i]) /\ Nodes(i, table[i])}
<1>5. \A i \in 0..M : i \in C
  <2>1. 0 \in C
    <3> HIDE DEF S0
    <3> QED BY <1>2, <1>3
  <2>2. ASSUME NEW i \in 0..(M - 1), i \in C
        PROVE  i + 1 \in C
    <3>1. i + 1 \in 1..M /\ (i + 1) - 1 = i /\ i \in Nat
      BY <1>1
    <3> DEFINE S == table[i]
               U == Moved(T, na, S, i + 1)
    <3>2. Frame(S) /\ Contents((i + 1) - 1, S) /\ Nodes((i + 1) - 1, S)
      BY <2>2, <3>1
    <3>3. Frame(U) /\ Contents(i + 1, U) /\ Nodes(i + 1, U)
      <4> HIDE DEF S, M
      <4> QED BY <3>1, <3>2, <1>4
    <3>4. table[i + 1] = U
      <4> HIDE DEF S0, M
      <4> QED BY <3>1, <1>2
    <3> HIDE DEF U
    <3> QED BY <3>3, <3>4
  <2> HIDE DEF C, M
  <2> QED BY <2>1, <2>2, <1>1, AllUpTo
<1> DEFINE R == table[M]
<1>6. Frame(R) /\ Contents(M, R) /\ Nodes(M, R)
  BY <1>1, <1>5
<1>7. R = resize(T, na, nh)
  BY <1>2
<1> HIDE DEF R, M, S0
<1>8. \A k \in DOMAIN T.hash : luaH_get(R, k) = luaH_get(T, k)
  <2> TAKE k \in DOMAIN T.hash
  <2>1. luaH_get(R, k) = IF Landed(M, k) THEN luaH_get(T, k) ELSE Nil
    BY <1>6 DEF Contents
  <2>2. CASE luaH_get(T, k) = Nil
    BY <2>1, <2>2
  <2>3. CASE luaH_get(T, k) # Nil
    <3>1. PICK p \in Filled(T, 0) : KeyAt(T, p) = k
      BY <2>3, Positions
    <3>2. p \in 1..(sizearray(T) + sizenode(T)) /\ (p <= sizearray(T) => k = p)
      BY <3>1, Positions
    <3>3. CASE p > na \/ p > sizearray(T)
      <4>1. PICK x \in 1..M : Place(T, na, x) = p
        BY <3>2, <3>3, <1>1, PlaceIs DEF M
      <4>2. At(x, k)
        BY <4>1, <3>1
      <4>3. Landed(M, k)
        BY <4>1, <4>2
      <4> QED BY <4>3, <2>1
    <3>4. CASE ~(p > na \/ p > sizearray(T))
      <4>1. k \in 1..na /\ k \in 1..sizearray(T)
        BY <3>2, <3>4, <1>1
      <4>2. Landed(M, k)
        BY <4>1
      <4> QED BY <4>2, <2>1
    <3> QED BY <3>3, <3>4
  <2> QED BY <2>2, <2>3
<1>9. \A j \in N(R) : R.node[j].key # Nil =>
        R.node[j].key \in LiveKeys(T) \ (1..na) /\ ~R.node[j].dead
  <2> SUFFICES ASSUME NEW j \in N(R), R.node[j].key # Nil
               PROVE  R.node[j].key \in LiveKeys(T) \ (1..na) /\ ~R.node[j].dead
    OBVIOUS
  <2>1. PICK x \in 1..M : At(x, R.node[j].key)
    BY <1>6 DEF Nodes
  <2>2. luaH_get(T, R.node[j].key) # Nil /\ R.node[j].key \in DOMAIN T.hash
    BY <2>1, Positions
  <2> QED BY <2>2, <1>6 DEF Nodes, LiveKeys
<1>10. Shadowed(R) = {}
  <2>1. ASSUME NEW i \in LiveNodes(R)
        PROVE  R.node[i].key \notin 1..na
    <3>1. i \in N(R) /\ R.node[i].val # Nil
      BY <1>6, Fields DEF LiveNodes, Good, Frame
    <3>2. R.node[i].key # Nil
      BY <3>1, <1>6 DEF Frame, Good, Kept, Empty
    <3> QED BY <3>1, <3>2, <1>9
  <2>2. sizearray(R) = na
    BY <1>6 DEF Frame
  <2> QED BY <2>1, <2>2 DEF Shadowed
<1> QED BY <1>6, <1>7, <1>8, <1>9, <1>10 DEF Frame

-----------------------------------------------------------------------------
(*************************************************************************)
(* computesizes() and rehash().                                          *)
(*************************************************************************)
\* How many of the counted keys an array of 2^b has slots for, and whether that
\* is more than half of it.
Below(count, b) == Cardinality(count \intersect 1..twoto[b])
Worth(count, b) == 2 * Below(count, b) > twoto[b]

LEMMA BelowIs ==
  ASSUME NEW count, count \subseteq 1..MAXASIZE, NEW b \in Nat
  PROVE  /\ IsFiniteSet(count) /\ Cardinality(count) \in Nat
         /\ Below(count, b) \in Nat /\ Below(count, b) <= Cardinality(count)
         /\ Below(count, b) <= twoto[b]
         /\ Cardinality({c \in count : ceillog2(c) = b})
              = IF b = 0 THEN Below(count, b) ELSE Below(count, b) - Below(count, b - 1)
<1>1. MAXASIZE \in Nat /\ twoto[b] \in Nat /\ (b # 0 => b - 1 \in Nat /\ twoto[b - 1] \in Nat)
  BY Twoto, TablesAssumption DEF MAXASIZE
<1>2. IsFiniteSet(count) /\ Cardinality(count) \in Nat
  <2>1. IsFiniteSet(1..MAXASIZE)
    BY <1>1, FS_Interval
  <2> QED BY <2>1, FS_Subset, FS_CardinalityType
<1>3. \A x : /\ IsFiniteSet(count \intersect x) /\ Cardinality(count \intersect x) \in Nat
             /\ Cardinality(count \intersect x) <= Cardinality(count)
  <2> TAKE x
  <2>1. count \intersect x \in SUBSET count
    OBVIOUS
  <2> QED BY <2>1, <1>2, FS_Subset, FS_CardinalityType
<1>4. Below(count, b) <= twoto[b]
  <2>1. IsFiniteSet(1..twoto[b]) /\ Cardinality(1..twoto[b]) = twoto[b]
    <3> DEFINE x == twoto[b]
    <3>0. x \in Int /\ 1 \in Int /\ x >= 1
      BY <1>1, Twoto
    <3> HIDE DEF x
    <3>1. IsFiniteSet(1..x) /\ Cardinality(1..x) = IF 1 > x THEN 0 ELSE (x - 1) + 1
      BY ONLY <3>0, FS_Interval
    <3>2. IsFiniteSet(1..x) /\ Cardinality(1..x) = x
      BY <3>0, <3>1
    <3> USE DEF x
    <3> QED BY <3>2
  <2>2. count \intersect 1..twoto[b] \in SUBSET (1..twoto[b])
    OBVIOUS
  <2> QED BY <2>1, <2>2, FS_Subset DEF Below
<1>5. \A c \in count : c \in Nat /\ c >= 1
  BY <1>1
<1>6. \A c \in count : ceillog2(c) \in Nat /\ c <= twoto[ceillog2(c)]
                       /\ \A x \in Nat : c <= twoto[x] => ceillog2(c) <= x
  BY <1>5, Ceillog2
<1>7. CASE b = 0
  <2>1. \A c \in count : ceillog2(c) = 0 <=> c \in 1..twoto[0]
    BY <1>5, <1>6, Twoto
  <2>2. {c \in count : ceillog2(c) = b} = count \intersect 1..twoto[b]
    BY <2>1, <1>7
  <2> QED BY <2>2, <1>2, <1>3, <1>4, <1>7 DEF Below
<1>8. CASE b # 0
  <2> DEFINE S == count \intersect 1..twoto[b]
             V == 1..twoto[b - 1]
  <2>1. b - 1 \in Nat /\ twoto[b - 1] <= twoto[b] /\ twoto[b - 1] \in Nat
    BY <1>1, <1>8, TwotoGrows
  <2>2. ASSUME NEW c \in count
        PROVE  ceillog2(c) = b <=> c \in S \ V
    <3> DEFINE l == ceillog2(c)
    <3>1. l \in Nat /\ c <= twoto[l] /\ c \in Nat /\ c >= 1
      BY <1>5, <1>6
    <3>2. (c <= twoto[b] => l <= b) /\ (c <= twoto[b - 1] => l <= b - 1)
      BY <2>1, <1>6
    <3>3. l <= b - 1 => twoto[l] <= twoto[b - 1] /\ twoto[l] \in Nat
      BY <2>1, <3>1, TwotoGrows, Twoto
    <3> HIDE DEF l
    <3>4. c \in S \ V <=> c <= twoto[b] /\ ~(c <= twoto[b - 1])
      BY <3>1, <2>1, <1>1
    <3>5. ASSUME l = b
          PROVE  c \in S \ V
      BY <3>1, <3>2, <3>4, <3>5
    <3>6. ASSUME c \in S \ V
          PROVE  l = b
      BY <3>1, <3>2, <3>3, <3>4, <3>6, <2>1, <1>1
    <3> USE DEF l
    <3> QED BY <3>5, <3>6
  <2>3. {c \in count : ceillog2(c) = b} = S \ V
    BY <2>2
  <2>4. IsFiniteSet(S) /\ S \intersect V = count \intersect V
    <3>1. \A c \in V : c \in 1..twoto[b]
      BY <2>1, <1>1
    <3> QED BY <3>1, <1>3
  <2>5. Cardinality(S \ V) = Cardinality(S) - Cardinality(S \intersect V)
    <3> HIDE DEF S, V
    <3> QED BY <2>4, FS_Difference
  <2>6. Cardinality(S \ V) = Below(count, b) - Below(count, b - 1)
    BY <2>4, <2>5 DEF Below
  <2> QED BY <2>3, <2>6, <1>2, <1>3, <1>4, <1>8 DEF Below
<1> QED BY <1>7, <1>8

\* One slice of the count.
Slot(count, last, b) ==
  LET nums == Cardinality({c \in count : ceillog2(c) = b})
      a == last.a + nums
  IN  IF twoto[b] \div 2 >= Cardinality(count) \/ nums = 0 THEN last
      ELSE IF a > twoto[b] \div 2 THEN [a |-> a, n |-> twoto[b], na |-> a]
      ELSE [last EXCEPT !.a = a]

LEMMA SlotSteps ==
  ASSUME NEW count
  PROVE  \E loop : /\ loop[0] = [a |-> 0, n |-> 0, na |-> 0]
                   /\ \A i \in 1..(MAXBITS + 1) : loop[i] = Slot(count, loop[i - 1], i - 1)
                   /\ computesizes(count) = loop[MAXBITS + 1]
<1> DEFINE M == MAXBITS + 1
           z == [a |-> 0, n |-> 0, na |-> 0]
           body(f, i) == IF i = 0 THEN z ELSE Slot(count, f[i - 1], i - 1)
           C == {n \in Nat : \E f : f = [i \in 0..n |-> body(f, i)]}
<1>0. M \in Nat /\ \A i \in 1..M : i - 1 \in 0..MAXBITS
  BY TablesAssumption
<1>1. \A n \in 0..M : n \in C
  <2>1. 0 \in C
    <3> DEFINE f == [i \in 0..0 |-> z]
    <3>1. f = [i \in 0..0 |-> body(f, i)]
      OBVIOUS
    <3> QED BY <3>1
  <2>2. ASSUME NEW n \in 0..(M - 1), n \in C
        PROVE  n + 1 \in C
    <3>1. PICK f : f = [i \in 0..n |-> body(f, i)]
      BY <2>2
    <3> DEFINE g == [i \in 0..(n + 1) |-> IF i <= n THEN f[i] ELSE body(f, n + 1)]
    <3>2. ASSUME NEW i \in 0..(n + 1)
          PROVE  g[i] = body(g, i)
      <4> HIDE DEF z
      <4>0. n \in Nat
        BY <1>0
      <4>1. CASE i = 0
        <5>1. f[0] = body(f, 0)
          <6> HIDE DEF body
          <6> QED BY <3>1, <4>0
        <5> QED BY <4>0, <4>1, <5>1
      <4>2. CASE i # 0
        <5>1. g[i - 1] = f[i - 1]
          <6> HIDE DEF body
          <6> QED BY <4>0, <4>2
        <5>2. body(g, i) = body(f, i)
          <6> HIDE DEF g
          <6> QED BY <5>1, <4>2
        <5>3. i <= n => f[i] = body(f, i)
          <6> HIDE DEF body
          <6> QED BY <3>1, <4>0
        <5>4. g[i] = IF i <= n THEN f[i] ELSE body(f, n + 1)
          <6> HIDE DEF body
          <6> QED OBVIOUS
        <5>5. ~(i <= n) => i = n + 1
          BY <4>0
        <5> HIDE DEF body, g
        <5> QED BY <5>2, <5>3, <5>4, <5>5
      <4> QED BY <4>1, <4>2
    <3>3. g = [i \in 0..(n + 1) |-> g[i]]
      <4> HIDE DEF body
      <4> QED OBVIOUS
    <3>4. g = [i \in 0..(n + 1) |-> body(g, i)]
      <4> HIDE DEF body, g
      <4> QED BY <3>2, <3>3
    <3>5. n + 1 \in Nat
      BY <1>0
    <3> HIDE DEF g, body
    <3> QED BY <3>4, <3>5
  <2> HIDE DEF C, M
  <2> QED BY <2>1, <2>2, <1>0, AllUpTo
<1> DEFINE loop == CHOOSE f : f = [i \in 0..M |-> body(f, i)]
<1>2. loop = [i \in 0..M |-> body(loop, i)]
  <2> HIDE DEF body
  <2>1. \E f : f = [i \in 0..M |-> body(f, i)]
    BY <1>0, <1>1
  <2> HIDE DEF M
  <2> QED BY <2>1
<1> DEFINE nums == [b \in 0..MAXBITS |-> Cardinality({c \in count : ceillog2(c) = b})]
           body2(f, i) == IF i = 0 THEN z
                          ELSE LET last == f[i - 1]
                                   twotoi == twoto[i - 1]
                                   a == last.a + nums[i - 1]
                               IN  IF twotoi \div 2 >= Cardinality(count) \/ nums[i - 1] = 0 THEN last
                                   ELSE IF a > twotoi \div 2 THEN [a |-> a, n |-> twotoi, na |-> a]
                                   ELSE [last EXCEPT !.a = a]
           loop2 == CHOOSE f : f = [i \in 0..(MAXBITS + 1) |-> body2(f, i)]
<1>3. computesizes(count) = loop2[MAXBITS + 1]
  BY DEF computesizes
<1>4. \A f : \A i \in 0..(MAXBITS + 1) : body2(f, i) = body(f, i)
  <2> TAKE f
  <2> TAKE i \in 0..(MAXBITS + 1)
  <2>1. CASE i = 0
    BY <2>1
  <2>2. CASE i # 0
    <3>1. i - 1 \in 0..MAXBITS
      BY <2>2, <1>0
    <3>2. nums[i - 1] = Cardinality({c \in count : ceillog2(c) = i - 1})
      BY <3>1
    <3> HIDE DEF nums
    <3> QED BY <2>2, <3>2 DEF Slot
  <2> QED BY <2>1, <2>2
<1>5. \A f : [i \in 0..(MAXBITS + 1) |-> body2(f, i)] = [i \in 0..(MAXBITS + 1) |-> body(f, i)]
  <2> HIDE DEF body, body2
  <2> QED BY <1>4
<1>6. loop2 = [i \in 0..M |-> body(loop2, i)]
  <2> HIDE DEF body, body2
  <2>1. \E f : f = [i \in 0..(MAXBITS + 1) |-> body2(f, i)]
    BY <1>2, <1>5
  <2>2. loop2 = [i \in 0..(MAXBITS + 1) |-> body2(loop2, i)]
    BY <2>1
  <2> HIDE DEF loop2
  <2> QED BY <2>2, <1>5
<1> HIDE DEF loop2, body2
<1>7. loop2[0] = z
  <2> HIDE DEF z
  <2> QED BY <1>6, <1>0
<1>8. ASSUME NEW i \in 1..M
      PROVE  loop2[i] = Slot(count, loop2[i - 1], i - 1)
  <2>1. loop2[i] = body(loop2, i) /\ i # 0
    <3> HIDE DEF body
    <3> QED BY <1>6, <1>0
  <2> HIDE DEF z
  <2> QED BY <2>1
<1> WITNESS loop2
<1> QED BY <1>3, <1>7, <1>8

\* After i slices: the largest worthwhile size so far, and the count of what it
\* has slots for; and the count of all, unless no later size is worthwhile.
Scanned(count, s, i) ==
  /\ s \in [a : Nat, n : Nat, na : Nat]
  /\ \/ s.n = 0 /\ s.na = 0
     \/ \E b \in 0..(i - 1) : Worth(count, b) /\ s.n = twoto[b] /\ s.na = Below(count, b)
  /\ \A b \in 0..(i - 1) : Worth(count, b) => twoto[b] <= s.n
  /\ \/ i = 0 /\ s.a = 0
     \/ i >= 1 /\ s.a = Below(count, i - 1)
     \/ i >= 1 /\ twoto[i - 1] \div 2 >= Cardinality(count)

LEMMA SlotScans ==
  ASSUME NEW count, count \subseteq 1..MAXASIZE, NEW b \in Nat, NEW s, Scanned(count, s, b)
  PROVE  Scanned(count, Slot(count, s, b), b + 1)
<1> DEFINE B == Below(count, b)
           C == Cardinality(count)
           P == IF b = 0 THEN 0 ELSE Below(count, b - 1)
           two == twoto[b]
           half == two \div 2
           nums == Cardinality({c \in count : ceillog2(c) = b})
           u == Slot(count, s, b)
<1>1. C \in Nat /\ B \in Nat /\ B <= C /\ B <= two /\ nums = B - P /\ two \in Nat /\ P \in Nat
  <2>1. b # 0 => b - 1 \in Nat
    OBVIOUS
  <2>2. \A m \in Nat : Below(count, m) \in Nat
    BY BelowIs
  <2>3. C \in Nat /\ B \in Nat /\ B <= C /\ B <= two
    BY BelowIs
  <2>4. nums = IF b = 0 THEN B ELSE B - Below(count, b - 1)
    BY BelowIs
  <2>5. two \in Nat
    BY Twoto
  <2> HIDE DEF nums, two, C
  <2> QED BY <2>1, <2>2, <2>3, <2>4, <2>5
<1>2. b # 0 => /\ b - 1 \in Nat /\ P <= twoto[b - 1] /\ twoto[b - 1] \in Nat
               /\ two = 2 * twoto[b - 1]
  <2>1. b # 0 => b - 1 \in Nat /\ (b - 1) + 1 = b
    OBVIOUS
  <2>2. b # 0 => two = 2 * twoto[b - 1] /\ twoto[b - 1] \in Nat
    <3> DEFINE m == b - 1
    <3>1. m \in Nat => twoto[m + 1] = 2 * twoto[m] /\ twoto[m] \in Nat
      BY Twoto
    <3> QED BY <3>1, <2>1
  <2>3. b # 0 => P <= twoto[b - 1]
    BY <2>1, BelowIs
  <2> QED BY <2>1, <2>2, <2>3
<1>3. b = 0 => two = 1 /\ half = 0 /\ P = 0
  BY Twoto
<1>4. b # 0 => half = twoto[b - 1]
  <2> DEFINE h == twoto[b - 1]
  <2>1. b # 0 => h \in Nat /\ two = 2 * h
    BY <1>2
  <2> HIDE DEF h
  <2>2. h \in Nat => (2 * h) \div 2 = h
    OBVIOUS
  <2>3. b # 0 => half = h
    BY <2>1, <2>2
  <2> USE DEF h
  <2> QED BY <2>3
<1>5. half \in Nat /\ 2 * half <= two
  BY <1>1, <1>2, <1>3, <1>4
<1>6. ASSUME ~(half >= C)
      PROVE  s.a = P
  <2>1. b # 0 => ~(twoto[b - 1] \div 2 >= C)
    <3> DEFINE h == twoto[b - 1]
    <3>1. b # 0 => h \in Nat /\ h < C
      BY <1>1, <1>2, <1>4, <1>5, <1>6
    <3> HIDE DEF h, C
    <3>2. b # 0 => ~(h \div 2 >= C)
      BY <3>1, <1>1
    <3> USE DEF h, C
    <3> QED BY <3>2
  <2> QED BY <2>1 DEF Scanned
<1>7. Worth(count, b) <=> 2 * B > two
  BY DEF Worth
<1>8. \A x \in 0..((b + 1) - 1) : x \in 0..(b - 1) \/ x = b
  OBVIOUS
<1>9. s \in [a : Nat, n : Nat, na : Nat] /\ (b + 1) - 1 = b /\ b + 1 >= 1 /\ b \in 0..b
      /\ \A x \in 0..(b - 1) : x \in 0..b
  BY DEF Scanned
<1>10. u = IF half >= C \/ nums = 0 THEN s
           ELSE IF s.a + nums > half THEN [a |-> s.a + nums, n |-> two, na |-> s.a + nums]
           ELSE [s EXCEPT !.a = s.a + nums]
  BY DEF Slot
<1> SUFFICES Scanned(count, u, b + 1)
  OBVIOUS
<1> HIDE DEF u
\* No size is worthwhile that is not taken.
<1>11. ASSUME u \in [a : Nat, n : Nat, na : Nat], u.n = s.n, u.na = s.na, ~Worth(count, b),
              u.a = B \/ half >= C
       PROVE  Scanned(count, u, b + 1)
  <2>1. \/ u.n = 0 /\ u.na = 0
        \/ \E x \in 0..((b + 1) - 1) : Worth(count, x) /\ u.n = twoto[x] /\ u.na = Below(count, x)
    <3> HIDE DEF B, C, P, two, half, nums
    <3> QED BY <1>9, <1>11 DEF Scanned
  <2>2. \A x \in 0..((b + 1) - 1) : Worth(count, x) => twoto[x] <= u.n
    <3> HIDE DEF B, C, P, two, half, nums
    <3> QED BY <1>8, <1>11 DEF Scanned
  <2> QED BY <2>1, <2>2, <1>9, <1>11 DEF Scanned
<1>12. CASE half >= C
  <2>1. ~Worth(count, b)
    <3> HIDE DEF B, C, P, two, half, nums
    <3> QED BY <1>1, <1>5, <1>7, <1>12
  <2> QED BY <2>1, <1>9, <1>10, <1>11, <1>12
<1>13. CASE ~(half >= C) /\ nums = 0
  <2>1. s.a = P /\ B = P
    <3> HIDE DEF B, C, P, two, half, nums
    <3> QED BY <1>1, <1>6, <1>13
  <2>2. ~Worth(count, b)
    <3> HIDE DEF B, C, P, nums
    <3> QED BY <1>1, <1>2, <1>3, <1>7, <2>1
  <2> QED BY <2>1, <2>2, <1>9, <1>10, <1>11, <1>13
<1>14. CASE ~(half >= C) /\ nums # 0
  <2>1. s.a + nums = B
    <3> HIDE DEF B, C, P, two, half, nums
    <3> QED BY <1>1, <1>6, <1>14
  <2>2. Worth(count, b) <=> B > half
    <3>1. CASE b = 0
      <4> HIDE DEF B, C, P, two, half, nums
      <4> QED BY <1>1, <1>3, <1>7, <3>1
    <3>2. CASE b # 0
      <4> DEFINE h == twoto[b - 1]
      <4>1. h \in Nat /\ two = 2 * h /\ half = h
        BY <1>2, <1>4, <3>2
      <4> HIDE DEF B, C, P, two, half, nums, h
      <4> QED BY <1>1, <1>7, <4>1
    <3> QED BY <3>1, <3>2
  <2>3. CASE B > half
    <3>1. u = [a |-> B, n |-> two, na |-> B] /\ u \in [a : Nat, n : Nat, na : Nat]
      <4> HIDE DEF B, C, P, two, half, nums
      <4> QED BY <1>1, <1>10, <1>14, <2>1, <2>3
    <3>2. \A x \in 0..((b + 1) - 1) : Worth(count, x) => twoto[x] <= u.n
      <4>1. \A x \in 0..b : twoto[x] <= two
        BY TwotoGrows
      <4> HIDE DEF B, C, P, two, half, nums
      <4> QED BY <3>1, <4>1, <1>9
    <3>3. \E x \in 0..((b + 1) - 1) : Worth(count, x) /\ u.n = twoto[x] /\ u.na = Below(count, x)
      BY <3>1, <2>2, <2>3, <1>9
    <3>4. u.a = Below(count, (b + 1) - 1)
      BY <3>1, <1>9
    <3> HIDE DEF B, C, P, two, half, nums
    <3> QED BY <3>1, <3>2, <3>3, <3>4, <1>9 DEF Scanned
  <2>4. CASE ~(B > half)
    <3>1. u = [s EXCEPT !.a = B]
      <4> HIDE DEF B, C, P, two, half, nums
      <4> QED BY <1>10, <1>14, <2>1, <2>4
    <3>2. u \in [a : Nat, n : Nat, na : Nat] /\ u.n = s.n /\ u.na = s.na /\ u.a = B
      <4> HIDE DEF B, C, P, two, half, nums
      <4> QED BY <3>1, <1>1, <1>9
    <3> QED BY <3>2, <2>2, <2>4, <1>11
  <2> QED BY <2>3, <2>4
<1> HIDE DEF B, C, P, two, half, nums
<1> QED BY <1>12, <1>13, <1>14

\* computesizes() finds the largest worthwhile size.
LEMMA SizesIs ==
  ASSUME NEW count, count \subseteq 1..MAXASIZE
  PROVE  LET c == computesizes(count)
         IN  /\ c.n \in 0..MAXASIZE /\ c.na = Cardinality(count \intersect 1..c.n)
             /\ c.n = Max({0} \union {twoto[b] : b \in {x \in 0..MAXBITS : Worth(count, x)}})
<1> DEFINE c == computesizes(count)
           M == MAXBITS + 1
<1>1. PICK loop : /\ loop[0] = [a |-> 0, n |-> 0, na |-> 0]
                  /\ \A i \in 1..(MAXBITS + 1) : loop[i] = Slot(count, loop[i - 1], i - 1)
                  /\ c = loop[MAXBITS + 1]
  BY SlotSteps
<1>2. M \in Nat /\ MAXBITS \in Nat /\ M - 1 = MAXBITS
  BY TablesAssumption
<1> DEFINE S == {i \in Nat : Scanned(count, loop[i], i)}
<1>3. 0 \in S
  <2>1. Scanned(count, loop[0], 0)
    BY <1>1 DEF Scanned
  <2> QED BY <2>1
<1>4. ASSUME NEW i \in 0..(M - 1), i \in S
      PROVE  i + 1 \in S
  <2>1. i \in Nat /\ i + 1 \in 1..M /\ (i + 1) - 1 = i
    BY <1>2
  <2>2. loop[i + 1] = Slot(count, loop[i], i)
    <3> DEFINE j == i + 1
    <3>1. j \in 1..(MAXBITS + 1) /\ j - 1 = i
      BY <2>1
    <3> HIDE DEF j
    <3>2. loop[j] = Slot(count, loop[i], i)
      BY <1>1, <3>1
    <3> USE DEF j
    <3> QED BY <3>2
  <2>3. Scanned(count, loop[i], i)
    BY <1>4
  <2>4. Scanned(count, Slot(count, loop[i], i), i + 1)
    BY <2>1, <2>3, SlotScans
  <2> QED BY <2>1, <2>2, <2>4
<1>5. Scanned(count, c, M)
  <2>1. \A i \in 0..M : i \in S
    <3> HIDE DEF S, M
    <3> QED BY <1>2, <1>3, <1>4, AllUpTo
  <2>2. M \in S
    <3> HIDE DEF S
    <3> QED BY <2>1, <1>2
  <2> QED BY <2>2, <1>1
<1> DEFINE W == {0} \union {twoto[b] : b \in {x \in 0..MAXBITS : Worth(count, x)}}
<1>6. \A b \in 0..MAXBITS : twoto[b] \in 0..MAXASIZE
  BY <1>2, TwotoGrows, Twoto DEF MAXASIZE
<1>7. MAXASIZE \in Nat
  BY <1>2, Twoto DEF MAXASIZE
<1> HIDE DEF c
<1>8. c.n \in W /\ \A y \in W : y <= c.n
  <2>1. c.n = 0 \/ \E b \in 0..MAXBITS : Worth(count, b) /\ c.n = twoto[b]
    BY <1>2, <1>5 DEF Scanned
  <2>2. \A b \in 0..MAXBITS : Worth(count, b) => twoto[b] <= c.n
    BY <1>2, <1>5 DEF Scanned
  <2>3. c.n \in Nat
    BY <1>5 DEF Scanned
  <2> QED BY <2>1, <2>2, <2>3
<1>9. W \in SUBSET (0..MAXASIZE) /\ W # {}
  BY <1>6, <1>7
<1>10. c.n = Max(W)
  <2>1. Max(W) \in W /\ \A y \in W : Max(W) >= y
    <3> HIDE DEF W
    <3> QED BY <1>7, <1>9, MaxIs
  <2>2. c.n \in Nat /\ Max(W) \in Nat
    <3>1. \A y \in W : y \in Nat
      BY <1>7, <1>9
    <3> HIDE DEF W
    <3> QED BY <1>8, <2>1, <3>1
  <2>3. c.n <= Max(W) /\ Max(W) <= c.n
    <3> HIDE DEF W
    <3> QED BY <1>8, <2>1, <2>2
  <2> HIDE DEF W
  <2> QED BY <2>2, <2>3
<1>11. c.na = Cardinality(count \intersect 1..c.n)
  <2>1. CASE c.n = 0 /\ c.na = 0
    <3>1. count \intersect 1..c.n = {}
      BY <2>1
    <3> QED BY <3>1, <2>1, FS_EmptySet
  <2>2. CASE \E b \in 0..(M - 1) : c.n = twoto[b] /\ c.na = Below(count, b)
    BY <2>2 DEF Below
  <2> QED BY <2>1, <2>2, <1>5 DEF Scanned
<1>12. c.n \in 0..MAXASIZE
  <2> HIDE DEF W
  <2> QED BY <1>8, <1>9
<1> USE DEF c
<1> QED BY <1>10, <1>11, <1>12

\* No element of the hash part has a key that the array has a slot for.
LEMMA NoShadow ==
  ASSUME NEW T, Good(T)
  PROVE  Shadowed(T) = {} <=> \A i \in N(T) : T.node[i].val # Nil => ~InArray(T, T.node[i].key)
<1>1. DOMAIN T.node = N(T)
  BY Fields DEF Good
<1> QED BY <1>1 DEF Shadowed, LiveNodes, InArray

\* A store leaves no element behind the array.
LEMMA PutShadows ==
  ASSUME NEW T, Good(T), Shadowed(T) = {}, NEW k \in DOMAIN T.hash, NEW v \in Values \union {Nil},
         \/ InArray(T, k) \/ Search(T, k) # Nil
         \/ ~(Collides(T, k) /\ FreeNodes(T) = {})
  PROVE  Shadowed(Put(T, k, v)) = {}
<1> DEFINE U == Put(T, k, v)
<1>1. Good(U)
  BY PutPuts DEF Puts
<1>2. \A i \in N(T) : T.node[i].val # Nil => ~InArray(T, T.node[i].key)
  BY NoShadow
<1>3. CASE InArray(T, k) \/ Search(T, k) # Nil
  <2>1. Overwrites(T, U, k, v)
    BY <1>3, PutOverwrites
  <2>2. /\ \A i \in N(T) : T.node[i] \in Node
        /\ Search(T, k) # Nil => T.node[Search(T, k)].key = k
    BY Fields, SearchIs DEF Good
  <2> HIDE DEF U
  <2>3. N(U) = N(T) /\ \A j : InArray(U, j) <=> InArray(T, j)
    BY <2>1 DEF Overwrites, SameLinks, N, sizenode, InArray
  <2>4. \A i \in N(T) : U.node[i].val # Nil => ~InArray(U, U.node[i].key)
    <3>1. CASE U.node = T.node
      BY <3>1, <2>3, <1>2
    <3>2. CASE /\ ~InArray(T, k) /\ Search(T, k) \in N(T)
               /\ \A i \in N(T) : U.node[i] = IF i = Search(T, k) THEN [T.node[i] EXCEPT !.val = v]
                                              ELSE T.node[i]
      <4>1. Search(T, k) # Nil
        BY <3>2, Fields DEF Good
      <4>2. U.node[Search(T, k)].key = k
        BY <4>1, <3>2, <2>2 DEF Node
      <4> QED BY <4>2, <3>2, <2>3, <1>2
    <3> QED BY <2>1, <3>1, <3>2 DEF Overwrites
  <2>5. Shadowed(U) = {}
    BY <2>3, <2>4, <1>1, NoShadow DEF U
  <2> USE DEF U
  <2> QED BY <2>5
<1>4. CASE ~InArray(T, k) /\ Search(T, k) = Nil
  <2>1. New(T, k) /\ U = newkey(T, k, v)
    BY <1>4 DEF New, Put
  <2>2. SameFrame(T, U) /\ Stored(T, U, k, v)
    BY <2>1, newkeyStores
  <2>3. N(U) = N(T) /\ \A j : InArray(U, j) <=> InArray(T, j)
    BY <2>2, SamePlaces
  <2> HIDE DEF U
  <2>4. ASSUME NEW i \in N(T), U.node[i].val # Nil
        PROVE  ~InArray(U, U.node[i].key)
    <3> DEFINE j == U.node[i].key
               w == U.node[i].val
    <3>1. Holds(U, j, w)
      BY <2>3 DEF Holds
    <3>2. j = k \/ Holds(T, j, w)
      <4> HIDE DEF j, w
      <4>1. w # Nil
        BY <2>4 DEF w
      <4> QED BY <3>1, <4>1, <2>2 DEF Stored
    <3> HIDE DEF j, w
    <3>3. Holds(T, j, w) => ~InArray(T, j)
      BY <1>2, <2>4 DEF Holds, w
    <3>4. ~InArray(U, j)
      BY <3>2, <3>3, <2>3, <1>4
    <3> QED BY <3>4 DEF j
  <2>5. Shadowed(U) = {}
    BY <2>3, <2>4, <1>1, NoShadow
  <2> USE DEF U
  <2> QED BY <2>5
<1> QED BY <1>3, <1>4

\* A rehash keeps every element, and has room for the key it is for.
LEMMA RehashIs ==
  ASSUME NEW T, Good(T), Shadowed(T) = {}, NEW k \in DOMAIN T.hash, NeedsRehash(T, k)
  PROVE  LET R == rehash(T, k)
         IN  /\ luaH_get(T, k) = Nil
             /\ NewSizes(T, k).array \in 0..MAXASIZE /\ NewSizes(T, k).hash \in Nat
             /\ Counted(T, k) = (LiveKeys(T) \union {k}) \intersect Ints \intersect 1..MAXASIZE
             /\ Good(R) /\ R.hash = T.hash /\ ~R.again /\ Shadowed(R) = {}
             /\ \A j \in DOMAIN T.hash : luaH_get(R, j) = luaH_get(T, j)
             /\ \/ InArray(R, k) \/ Search(R, k) # Nil
                \/ ~(Collides(R, k) /\ FreeNodes(R) = {})
<1> DEFINE L == LiveKeys(T)
           count == Counted(T, k)
           c == computesizes(count)
           n == NewSizes(T, k).array
           h == NewSizes(T, k).hash
           K == (L \union {k}) \ (1..n)
           R == rehash(T, k)
<1>1. ~InArray(T, k) /\ luaH_get(T, k) = Nil
  BY DEF NeedsRehash, luaH_get
<1>2. IsFiniteSet(L) /\ Cardinality(L) = Cardinality(Filled(T, 0)) /\ L = {KeyAt(T, p) : p \in Filled(T, 0)}
      /\ k \notin L /\ L \subseteq Keys /\ k \in Keys
  <2>1. DOMAIN T.hash \subseteq Keys
    BY Fields DEF Good
  <2> QED BY <1>1, <2>1, KeysCounted DEF LiveKeys
<1>3. count = (L \union {k}) \intersect Ints \intersect 1..MAXASIZE
  BY <1>2 DEF Counted
<1>4. n = c.n /\ h = TotalUse(T) - c.na
  BY DEF NewSizes
<1>5. c.n \in 0..MAXASIZE /\ c.na = Cardinality(count \intersect 1..c.n)
  <2>1. count \subseteq 1..MAXASIZE
    BY <1>3
  <2> HIDE DEF count
  <2> QED BY <2>1, SizesIs
<1>6. MAXASIZE \in Nat
  BY Twoto, TablesAssumption DEF MAXASIZE
<1> HIDE DEF L, n, h, c, count, R
<1>7. n \in 0..MAXASIZE /\ n \in Nat
  BY <1>4, <1>5, <1>6
<1>8. count \intersect 1..n = (L \union {k}) \intersect 1..n
  <2>1. \A x \in 1..n : x \in Nat /\ x \in 1..MAXASIZE
    BY <1>6, <1>7
  <2>2. \A x \in L \union {k} : x \in 1..n => x \in Ints
    BY <2>1, <1>2, NumberKeys
  <2> QED BY <2>1, <2>2, <1>3
<1>9. IsFiniteSet(L \union {k}) /\ Cardinality(L \union {k}) = Cardinality(L) + 1
      /\ Cardinality(L) \in Nat
  BY <1>2, FS_AddElement, FS_CardinalityType
<1>10. IsFiniteSet(K) /\ Cardinality(K) = h /\ h \in Nat
  <2> DEFINE Lk == L \union {k}
             V == 1..n
  <2>1. IsFiniteSet(Lk \ V) /\ Cardinality(Lk \ V) = Cardinality(Lk) - Cardinality(Lk \cap V)
    <3> HIDE DEF Lk, V
    <3>1. IsFiniteSet(Lk)
      BY <1>9 DEF Lk
    <3> QED BY <3>1, FS_Difference
  <2>2. Cardinality(Lk \cap V) = c.na
    BY <1>4, <1>5, <1>8
  <2>3. Cardinality(Lk) = TotalUse(T)
    BY <1>2, <1>9 DEF TotalUse
  <2>4. Cardinality(K) \in Nat
    BY <2>1, FS_CardinalityType
  <2> QED BY <2>1, <2>2, <2>3, <2>4, <1>4
<1>11. /\ Good(R) /\ R.hash = T.hash /\ sizearray(R) = n /\ ~R.again /\ R.lastfree >= 0
       /\ R.dummy <=> h = 0
       /\ h <= sizenode(R) /\ Shadowed(R) = {}
       /\ \A j \in DOMAIN T.hash : luaH_get(R, j) = luaH_get(T, j)
       /\ \A i \in N(R) : R.node[i].key # Nil =>
                  R.node[i].key \in LiveKeys(T) \ (1..n) /\ ~R.node[i].dead
  <2>1. R = resize(T, n, h)
    BY DEF R, rehash, n, h
  <2>2. LiveKeys(T) \ (1..n) \subseteq K /\ Cardinality(K) <= h
    BY <1>10 DEF L
  <2> HIDE DEF K
  <2> QED BY <2>1, <2>2, <1>7, <1>10, ResizeIs
<1>12. ~InArray(R, k) => ~(Collides(R, k) /\ FreeNodes(R) = {})
  <2> SUFFICES ASSUME ~InArray(R, k)
               PROVE  FreeNodes(R) # {}
    OBVIOUS
  <2>1. k \notin 1..n
    <3>1. k \in 1..n => k \in Nat
      BY <1>7
    <3>2. k \in 1..n => k \in Ints
      BY <3>1, <1>2, NumberKeys
    <3> QED BY <3>2, <1>11 DEF InArray
  <2>2. k \in K /\ L \ (1..n) \subseteq K \ {k}
    BY <2>1, <1>2
  <2>3. h # 0
    <3>1. K # {}
      BY <2>2
    <3> HIDE DEF K
    <3> QED BY <3>1, <1>10, FS_EmptySet
  <2>4. Cardinality(K) <= sizenode(R)
    BY <1>10, <1>11
  <2>5. \A i \in N(R) : R.node[i].key # Nil => R.node[i].key \in K \ {k} /\ ~R.node[i].dead
    BY <2>2, <1>11 DEF L
  <2> HIDE DEF K
  <2> QED BY <2>2, <2>3, <2>4, <2>5, <1>10, <1>11, Room
<1> USE DEF n, h, L, R
<1> HIDE DEF K
<1>13. Counted(T, k) = (LiveKeys(T) \union {k}) \intersect Ints \intersect 1..MAXASIZE
  BY <1>3 DEF count
<1>14. InArray(R, k) \/ ~(Collides(R, k) /\ FreeNodes(R) = {})
  BY <1>12
<1> QED BY <1>1, <1>7, <1>10, <1>11, <1>13, <1>14

\* luaH_set() stores, and keeps the rest.
LEMMA SetIs ==
  ASSUME NEW T, Good(T), ~T.again, Shadowed(T) = {}, NEW k \in DOMAIN T.hash,
         NEW v \in Values \union {Nil}
  PROVE  LET U == luaH_set(T, k, v)
         IN  /\ Good(U) /\ U.hash = T.hash /\ ~U.again /\ Shadowed(U) = {}
             /\ luaH_get(U, k) = v
             /\ \A j \in DOMAIN T.hash : j # k => luaH_get(U, j) = luaH_get(T, j)
<1>1. CASE NeedsRehash(T, k)
  <2> DEFINE R == rehash(T, k)
             U == Put(R, k, v)
  <2>1. /\ Good(R) /\ R.hash = T.hash /\ ~R.again /\ Shadowed(R) = {}
        /\ \A j \in DOMAIN T.hash : luaH_get(R, j) = luaH_get(T, j)
        /\ InArray(R, k) \/ Search(R, k) # Nil \/ ~(Collides(R, k) /\ FreeNodes(R) = {})
    BY <1>1, RehashIs
  <2>2. luaH_set(T, k, v) = U
    BY <1>1 DEF luaH_set
  <2> HIDE DEF R
  <2>3. Puts(R, U, k, v)
    BY <2>1, PutPuts
  <2>4. Shadowed(U) = {}
    BY <2>1, PutShadows
  <2> HIDE DEF U
  <2> QED BY <2>1, <2>2, <2>3, <2>4 DEF Puts
<1>2. CASE ~NeedsRehash(T, k)
  <2> DEFINE U == Put(T, k, v)
  <2>1. InArray(T, k) \/ Search(T, k) # Nil \/ ~(Collides(T, k) /\ FreeNodes(T) = {})
    BY <1>2 DEF NeedsRehash
  <2>2. luaH_set(T, k, v) = U
    BY <1>2 DEF luaH_set
  <2>3. Puts(T, U, k, v)
    BY <2>1, PutPuts
  <2>4. Shadowed(U) = {}
    BY <2>1, PutShadows
  <2> HIDE DEF U
  <2> QED BY <2>2, <2>3, <2>4 DEF Puts
<1> QED BY <1>1, <1>2

-----------------------------------------------------------------------------
(*************************************************************************)
(* luaH_getn().                                                          *)
(*************************************************************************)
Halve(present, p) ==
  LET m == (p[1] + p[2]) \div 2
  IN  IF p[2] - p[1] <= 1 THEN p ELSE IF m \in present THEN <<m, p[2]>> ELSE <<p[1], m>>

LEMMA BisectSteps ==
  ASSUME NEW present, NEW i \in Nat, NEW j \in Nat
  PROVE  \E go : /\ go[0] = <<i, j>> /\ \A n \in Nat : go[n + 1] = Halve(present, go[n])
                 /\ Bisect(present, i, j) = go[j][1]
<1> DEFINE S == Nat \X Nat
           start == <<i, j>>
           step == [p \in S |-> Halve(present, p)]
           body(f) == [n \in Nat |->
             IF n = 0 THEN start
             ELSE LET p == f[n - 1]
                      m == (p[1] + p[2]) \div 2
                  IN  IF p[2] - p[1] <= 1 THEN p
                      ELSE IF m \in present THEN <<m, p[2]>> ELSE <<p[1], m>>]
           go == CHOOSE f : f = body(f)
<1>1. start \in S /\ step \in [S -> S]
  <2>1. ASSUME NEW a \in Nat, NEW b \in Nat
        PROVE  (a + b) \div 2 \in Nat
    <3> DEFINE c == a + b
    <3>1. c \in Nat
      OBVIOUS
    <3> HIDE DEF c
    <3>2. c \div 2 \in Nat
      BY <3>1
    <3> USE DEF c
    <3> QED BY <3>2
  <2>2. ASSUME NEW p \in S
        PROVE  Halve(present, p) \in S
    <3>1. p[1] \in Nat /\ p[2] \in Nat
      OBVIOUS
    <3>2. (p[1] + p[2]) \div 2 \in Nat
      BY <3>1, <2>1
    <3> DEFINE m == (p[1] + p[2]) \div 2
    <3>3. <<m, p[2]>> \in S /\ <<p[1], m>> \in S
      BY <3>1, <3>2
    <3> HIDE DEF m, S
    <3> QED BY <3>3 DEF Halve, m
  <2> QED BY <2>2
<1>2. PICK f \in [Nat -> S] : f[0] = start /\ \A n \in Nat : f[n + 1] = step[f[n]]
  <2> HIDE DEF step, start, S
  <2> QED BY <1>1, Recursion
<1>3. ASSUME NEW n \in Nat
      PROVE  f[n] = body(f)[n]
  <2>1. CASE n = 0
    BY <2>1, <1>2
  <2>2. CASE n # 0
    <3> DEFINE m == n - 1
    <3>1. m \in Nat /\ m + 1 = n
      BY <2>2
    <3>2. f[m + 1] = Halve(present, f[m])
      <4> HIDE DEF m
      <4>1. f[m] \in S
        BY <3>1, <1>2
      <4> QED BY <3>1, <4>1, <1>2
    <3>3. f[n] = Halve(present, f[n - 1])
      BY <3>1, <3>2
    <3> HIDE DEF S, start, m
    <3> QED BY <3>3, <2>2 DEF Halve
  <2> QED BY <2>1, <2>2
<1>4. f = body(f)
  <2>1. f = [n \in Nat |-> f[n]] /\ body(f) = [n \in Nat |-> body(f)[n]]
    <3> HIDE DEF S
    <3> QED BY <1>2
  <2> HIDE DEF body
  <2> QED BY <1>3, <2>1
<1>5. go = body(go)
  <2> HIDE DEF body
  <2> QED BY <1>4
<1>6. Bisect(present, i, j) = go[j][1]
  BY DEF Bisect
<1> HIDE DEF go
<1>7. go[0] = <<i, j>>
  BY <1>5
<1>8. ASSUME NEW n \in Nat
      PROVE  go[n + 1] = Halve(present, go[n])
  <2>1. go[n + 1] = body(go)[n + 1]
    BY <1>5
  <2> DEFINE m == n + 1
  <2>2. m \in Nat /\ m # 0 /\ m - 1 = n
    OBVIOUS
  <2> HIDE DEF m
  <2>3. body(go)[m] = Halve(present, go[n])
    <3> HIDE DEF start
    <3> QED BY <2>2 DEF Halve
  <2> USE DEF m
  <2> QED BY <2>1, <2>3
<1> WITNESS go
<1> QED BY <1>6, <1>7, <1>8

\* Bisection ends at a border.
LEMMA BisectIs ==
  ASSUME NEW present, NEW i \in Nat, NEW j \in Nat, i < j, j \notin present
  PROVE  LET b == Bisect(present, i, j)
         IN  /\ b \in Nat /\ i <= b /\ b < j
             /\ b = i \/ b \in present
             /\ b + 1 \notin present
<1>1. PICK go : /\ go[0] = <<i, j>> /\ \A n \in Nat : go[n + 1] = Halve(present, go[n])
                /\ Bisect(present, i, j) = go[j][1]
  BY BisectSteps
<1> DEFINE Between(p, n) == \E a, b \in Nat :
             /\ p = <<a, b>> /\ i <= a /\ a < b /\ b <= j
             /\ a = i \/ a \in present
             /\ b \notin present
             /\ b - a <= 1 \/ (b - a) + n <= j - i
           C == {n \in Nat : Between(go[n], n)}
<1>2. 0 \in C
  <2>1. Between(<<i, j>>, 0)
    OBVIOUS
  <2> QED BY <2>1, <1>1
<1>3. ASSUME NEW n \in Nat, n \in C
      PROVE  n + 1 \in C
  <2>1. PICK a, b \in Nat : /\ go[n] = <<a, b>> /\ i <= a /\ a < b /\ b <= j
                            /\ a = i \/ a \in present
                            /\ b \notin present
                            /\ b - a <= 1 \/ (b - a) + n <= j - i
    BY <1>3
  <2> DEFINE m == (a + b) \div 2
  <2>2. go[n + 1] = IF b - a <= 1 THEN <<a, b>> ELSE IF m \in present THEN <<m, b>> ELSE <<a, m>>
    <3>1. Halve(present, <<a, b>>)
            = IF b - a <= 1 THEN <<a, b>> ELSE IF m \in present THEN <<m, b>> ELSE <<a, m>>
      BY DEF Halve
    <3> HIDE DEF m
    <3> QED BY <1>1, <2>1, <3>1
  <2>3. ~(b - a <= 1) => m \in Nat /\ a < m /\ m < b
    <3> DEFINE c == a + b
    <3>1. c \in Nat
      OBVIOUS
    <3>2. m = c \div 2
      OBVIOUS
    <3> HIDE DEF c, m
    <3>3. m \in Nat /\ 2 * m <= c /\ c <= 2 * m + 1
      BY <3>1, <3>2
    <3> QED BY <3>3, <2>1 DEF c
  <2> HIDE DEF m
  <2>4. Between(go[n + 1], n + 1)
    <3>1. CASE b - a <= 1
      BY <3>1, <2>1, <2>2
    <3>2. CASE ~(b - a <= 1) /\ m \in present
      BY <3>2, <2>1, <2>2, <2>3
    <3>3. CASE ~(b - a <= 1) /\ m \notin present
      BY <3>3, <2>1, <2>2, <2>3
    <3> QED BY <3>1, <3>2, <3>3
  <2> QED BY <2>4
<1>4. j \in C
  <2> HIDE DEF C
  <2> QED BY <1>2, <1>3, AllNat
<1>5. PICK a, b \in Nat : /\ go[j] = <<a, b>> /\ i <= a /\ a < b /\ b <= j
                          /\ a = i \/ a \in present
                          /\ b \notin present
                          /\ b - a <= 1 \/ (b - a) + j <= j - i
  BY <1>4
<1>6. b = a + 1
  BY <1>5
<1>7. Bisect(present, i, j) = a
  BY <1>1, <1>5
<1> QED BY <1>5, <1>6, <1>7

\* A border: n is present, if it is not 0, and n + 1 is not.
Border(T, n) == (n > 0 => getnum(T, n) # Nil) /\ getnum(T, n + 1) = Nil

\* What is at an integer key: in the array, beyond it, and beyond all integers.
LEMMA getnumIs ==
  ASSUME NEW T, Good(T), NEW n \in Nat
  PROVE  /\ n \in 1..sizearray(T) => getnum(T, n) = T.array[n]
         /\ n \notin 1..sizearray(T) /\ T.dummy => getnum(T, n) = Nil
         /\ n > MAX_INT => getnum(T, n) = Nil
<1>1. /\ DOMAIN T.hash \subseteq Keys /\ N(T) = 0..(sizenode(T) - 1) /\ sizearray(T) \in Nat
      /\ \A i \in 1..sizearray(T) : T.array[i] # Nil => i \in DOMAIN T.hash
      /\ T.dummy => T.lsizenode = 0 /\ T.node[0] = Empty
      /\ T.lsizenode = 0 => sizenode(T) = 1
      /\ T.lsizenode \in Nat
  <2>1. T.lsizenode \in Nat /\ (T.dummy => T.lsizenode = 0 /\ T.node[0] = Empty)
    BY DEF Good, Typed, Table
  <2> QED BY <2>1, Fields, Sizes DEF Good, N
<1>2. ASSUME n \in 1..sizearray(T)
      PROVE  getnum(T, n) = T.array[n]
  <2>1. CASE n \in DOMAIN T.hash
    <3>1. InArray(T, n)
      BY <1>1, <1>2, <2>1, NumberKeys DEF InArray
    <3> QED BY <3>1, <2>1 DEF getnum, luaH_get
  <2>2. CASE n \notin DOMAIN T.hash
    BY <1>1, <1>2, <2>2 DEF getnum
  <2> QED BY <2>1, <2>2
<1>3. ASSUME n \notin 1..sizearray(T), T.dummy
      PROVE  getnum(T, n) = Nil
  <2>1. CASE n \in DOMAIN T.hash
    <3>1. ~InArray(T, n)
      BY <1>3 DEF InArray
    <3>2. \A v : ~(v # Nil /\ Holds(T, n, v))
      <4>1. \A i \in N(T) : i = 0
        BY <1>1, <1>3
      <4>2. T.node[0].val = Nil
        BY <1>1, <1>3 DEF Empty
      <4> QED BY <4>1, <4>2 DEF Holds
    <3>3. luaH_get(T, n) = Nil
      BY <2>1, <3>1, <3>2, GetIs
    <3> QED BY <3>3 DEF getnum
  <2>2. CASE n \notin DOMAIN T.hash
    BY <2>2 DEF getnum
  <2> QED BY <2>1, <2>2
<1>4. ASSUME n > MAX_INT
      PROVE  getnum(T, n) = Nil
  <2>1. n \notin Ints
    BY <1>4, KeysAssumption, TablesAssumption
  <2>2. n \notin DOMAIN T.hash
    BY <2>1, <1>1, NumberKeys
  <2> QED BY <2>2 DEF getnum
<1> QED BY <1>2, <1>3, <1>4

\* unbound_search() finds a border from a start that is one or the end of the
\* array.
LEMMA UnboundIs ==
  ASSUME NEW T, Good(T), NEW start \in 0..MAXASIZE, start > 0 => getnum(T, start) # Nil
  PROVE  unbound_search(T, start) \in Nat /\ Border(T, unbound_search(T, start))
<1> DEFINE present == {n \in 1..MAX_INT : getnum(T, n) # Nil}
           j(d) == (start + 1) * twoto[d]
           D == {d \in 0..MAX_INT : j(d) \notin present \/ 2 * j(d) > MAX_INT}
           stop == Min(D)
           i == IF stop = 0 THEN start ELSE j(stop - 1)
<1>1. unbound_search(T, start)
        = IF j(stop) \in present THEN Min((1..(MAX_INT + 1)) \ present) - 1
          ELSE Bisect(present, i, j(stop))
  BY DEF unbound_search
<1>2. MAXASIZE \in Nat /\ MAX_INT \in Nat /\ MAXASIZE < MAX_INT /\ start \in Nat /\ start + 1 <= MAX_INT
  BY Twoto, TablesAssumption DEF MAXASIZE
<1>3. \A d \in Nat : j(d) \in Nat /\ j(d) >= twoto[d] /\ j(d + 1) = 2 * j(d) /\ j(d) >= 1
  <2> TAKE d \in Nat
  <2>1. twoto[d] \in Nat /\ twoto[d] >= 1 /\ twoto[d + 1] = 2 * twoto[d]
    BY Twoto
  <2> DEFINE x == twoto[d]
             s == start + 1
  <2>2. s \in Nat /\ s >= 1 /\ x \in Nat /\ x >= 1
    BY <1>2, <2>1
  <2> HIDE DEF x, s
  <2>3. s * x \in Nat /\ s * x >= x /\ s * (2 * x) = 2 * (s * x)
    BY <2>2
  <2> USE DEF x, s
  <2> QED BY <2>1, <2>2, <2>3
<1>4. j(0) = start + 1
  BY Twoto, <1>2
<1>5. \A n \in Nat : n \in present => n >= 1 /\ n <= MAX_INT /\ getnum(T, n) # Nil
  BY <1>2
<1>6. \A n \in Nat : n >= 1 /\ n \notin present => getnum(T, n) = Nil
  <2> TAKE n \in Nat
  <2>1. n > MAX_INT => getnum(T, n) = Nil
    BY getnumIs
  <2> QED BY <2>1, <1>2
<1>7. /\ stop \in Nat
      /\ j(stop) \notin present \/ 2 * j(stop) > MAX_INT
      /\ \A d \in Nat : d < stop => j(d) \in present /\ 2 * j(d) <= MAX_INT
  <2>1. MAX_INT \in D
    <3>1. MAX_INT < twoto[MAX_INT] /\ twoto[MAX_INT] <= j(MAX_INT) /\ j(MAX_INT) \in Nat
          /\ twoto[MAX_INT] \in Nat
      <4> HIDE DEF j
      <4> QED BY <1>2, <1>3, TwotoGrows, Twoto
    <3>2. j(MAX_INT) \notin present
      <4> HIDE DEF j, present
      <4> QED BY <1>2, <1>5, <3>1
    <3> HIDE DEF j, present
    <3> QED BY <3>2, <1>2
  <2>2. D \in SUBSET Nat /\ \A d \in D : d <= MAX_INT
    BY <1>2
  <2>3. stop \in D /\ \A d \in D : stop <= d
    <3> HIDE DEF D
    <3> QED BY <2>1, <2>2, MinIs
  <2> HIDE DEF stop
  <2>4. \A d \in Nat : d < stop => d \in 0..MAX_INT /\ d \notin D
    <3> HIDE DEF D
    <3> QED BY <2>2, <2>3, <1>2
  <2>5. stop \in Nat /\ (j(stop) \notin present \/ 2 * j(stop) > MAX_INT)
    <3> HIDE DEF j, present
    <3> QED BY <2>2, <2>3
  <2>6. \A d \in Nat : d < stop => j(d) \in present /\ ~(2 * j(d) > MAX_INT)
    <3> HIDE DEF j, present
    <3> QED BY <2>4
  <2>7. \A d \in Nat : ~(2 * j(d) > MAX_INT) => 2 * j(d) <= MAX_INT
    <3> HIDE DEF j
    <3> QED BY <1>2, <1>3
  <2> HIDE DEF j, present, D
  <2> QED BY <2>5, <2>6, <2>7
<1> HIDE DEF stop
<1>8. CASE j(stop) \in present
  <2> DEFINE A == (1..(MAX_INT + 1)) \ present
             m == Min(A)
  <2>1. A \in SUBSET Nat /\ A # {}
    <3>1. MAX_INT + 1 \in A
      BY <1>2
    <3> QED BY <3>1, <1>2
  <2>2. m \in A /\ \A x \in A : m <= x
    <3> HIDE DEF A
    <3> QED BY <2>1, MinIs
  <2> HIDE DEF m
  <2>3. m \in Nat /\ m >= 1 /\ m <= MAX_INT + 1 /\ m \notin present
    BY <2>2, <1>2
  <2>4. m > 1 => m - 1 \in present
    <3>1. m > 1 => m - 1 \in 1..(MAX_INT + 1) /\ m - 1 \notin A
      <4> HIDE DEF A
      <4> QED BY <2>2, <2>3, <1>2
    <3> HIDE DEF present
    <3> QED BY <3>1
  <2>5. m - 1 \in Nat /\ (m - 1) + 1 = m
    BY <2>3
  <2>6. Border(T, m - 1)
    <3>1. m - 1 > 0 => getnum(T, m - 1) # Nil
      <4> HIDE DEF present
      <4> QED BY <2>3, <2>4, <2>5, <1>5
    <3>2. getnum(T, (m - 1) + 1) = Nil
      <4> HIDE DEF present
      <4> QED BY <2>3, <2>5, <1>6
    <3> QED BY <3>1, <3>2 DEF Border
  <2>7. unbound_search(T, start) = m - 1
    <3> HIDE DEF j
    <3> QED BY <1>1, <1>8 DEF m
  <2> QED BY <2>5, <2>6, <2>7
<1>9. CASE j(stop) \notin present
  <2> DEFINE e == j(stop)
             b == Bisect(present, i, e)
  <2>1. e \in Nat /\ i \in Nat /\ i < e /\ e <= MAX_INT /\ (i > 0 => getnum(T, i) # Nil)
    <3>1. CASE stop = 0
      BY <3>1, <1>2, <1>4
    <3>2. CASE stop # 0
      <4> DEFINE d == stop - 1
      <4>1. d \in Nat /\ d + 1 = stop /\ d < stop
        BY <3>2, <1>7
      <4> HIDE DEF d
      <4>2. j(d) \in present /\ 2 * j(d) <= MAX_INT /\ j(d) \in Nat /\ j(d) >= 1 /\ e = 2 * j(d)
        <5>1. j(d + 1) = 2 * j(d)
          BY <4>1, <1>3
        <5> HIDE DEF j
        <5> QED BY <4>1, <5>1, <1>3, <1>7
      <4>3. i = j(d)
        BY <3>2 DEF d
      <4>4. getnum(T, i) # Nil
        <5> HIDE DEF j, present, i, e
        <5> QED BY <4>2, <4>3, <1>5
      <4> HIDE DEF j, present, i, e
      <4> QED BY <4>2, <4>3, <4>4
    <3> QED BY <3>1, <3>2
  <2>2. e \notin present
    BY <1>9
  <2> HIDE DEF e, i
  <2>3. b \in Nat /\ i <= b /\ b < e /\ (b = i \/ b \in present) /\ b + 1 \notin present
    <3> HIDE DEF present
    <3> QED BY <2>1, <2>2, BisectIs
  <2>4. unbound_search(T, start) = b
    BY <1>1, <1>9 DEF e
  <2> HIDE DEF b, present
  <2>5. getnum(T, b + 1) = Nil
    BY <2>3, <1>6
  <2>6. b > 0 => getnum(T, b) # Nil
    BY <2>1, <2>3, <1>5
  <2> QED BY <2>3, <2>4, <2>5, <2>6 DEF Border
<1> QED BY <1>8, <1>9

\* luaH_getn() finds a border.
LEMMA getnIs ==
  ASSUME NEW T, Good(T)
  PROVE  luaH_getn(T) \in Nat /\ Border(T, luaH_getn(T))
<1> DEFINE j == sizearray(T)
<1>1. j \in Nat /\ j <= MAXASIZE /\ MAXASIZE \in Nat
  BY Fields, Twoto, TablesAssumption DEF Good, MAXASIZE
<1>2. CASE j > 0 /\ T.array[j] = Nil
  <2> DEFINE present == {m \in 1..j : T.array[m] # Nil}
             b == Bisect(present, 0, j)
  <2>1. j \notin present /\ 0 \in Nat /\ 0 < j
    BY <1>2
  <2>2. b \in Nat /\ 0 <= b /\ b < j /\ (b = 0 \/ b \in present) /\ b + 1 \notin present
    <3> DEFINE z == 0
    <3> HIDE DEF present, j, z
    <3>1. z \in Nat /\ z < j
      BY <2>1 DEF z
    <3>2. LET x == Bisect(present, z, j)
          IN  /\ x \in Nat /\ z <= x /\ x < j
              /\ x = z \/ x \in present
              /\ x + 1 \notin present
      BY <1>1, <2>1, <3>1, BisectIs
    <3> USE DEF z
    <3> QED BY <3>2
  <2>3. luaH_getn(T) = b
    BY <1>2 DEF luaH_getn
  <2> HIDE DEF b
  <2>4. b + 1 \in 1..j /\ b + 1 \in Nat /\ (b > 0 => b \in 1..j)
    BY <2>2, <1>1
  <2>5. getnum(T, b + 1) = Nil
    BY <2>2, <2>4, getnumIs
  <2>6. b > 0 => getnum(T, b) # Nil
    BY <2>2, <2>4, getnumIs
  <2> QED BY <2>2, <2>3, <2>5, <2>6 DEF Border
<1>3. CASE ~(j > 0 /\ T.array[j] = Nil)
  <2>1. j > 0 => getnum(T, j) # Nil
    <3>1. j > 0 => j \in 1..sizearray(T)
      BY <1>1
    <3> QED BY <3>1, <1>1, <1>3, getnumIs
  <2>2. CASE T.dummy
    <3>1. j + 1 \in Nat /\ j + 1 \notin 1..sizearray(T)
      BY <1>1
    <3>2. getnum(T, j + 1) = Nil
      BY <3>1, <2>2, getnumIs
    <3>3. luaH_getn(T) = j
      BY <1>3, <2>2 DEF luaH_getn
    <3> QED BY <3>2, <3>3, <2>1, <1>1 DEF Border
  <2>3. CASE ~T.dummy
    <3>1. luaH_getn(T) = unbound_search(T, j)
      BY <1>3, <2>3 DEF luaH_getn
    <3> QED BY <3>1, <1>1, <2>1, UnboundIs
  <2> QED BY <2>2, <2>3
<1> QED BY <1>2, <1>3

-----------------------------------------------------------------------------
(*************************************************************************)
(* What each step does to the table.                                     *)
(*************************************************************************)
\* The same elements.
Same(T, U) ==
  /\ Good(U) /\ U.hash = T.hash /\ ~U.again /\ Shadowed(U) = {}
  /\ \A j \in DOMAIN T.hash : luaH_get(U, j) = luaH_get(T, j)

\* The same elements, but for that of k.
Changes(T, U, k) ==
  /\ Good(U) /\ U.hash = T.hash /\ ~U.again /\ Shadowed(U) = {}
  /\ luaH_get(U, k) \in Values \union {Nil}
  /\ \A j \in DOMAIN T.hash : j # k => luaH_get(U, j) = luaH_get(T, j)

\* The array has grown; elements behind it are lost.
Damages(T, U) ==
  /\ Good(U) /\ U.hash = T.hash /\ ~U.again
  /\ \A j \in DOMAIN T.hash :
       \/ luaH_get(U, j) = luaH_get(T, j)
       \/ j \in Ints /\ luaH_get(U, j) = Nil /\ Shadowed(U) # {}

\* Nodes with the same keys and values.
LEMMA SameElements ==
  ASSUME NEW T, NEW U, Good(T), Good(U), U.hash = T.hash, N(U) = N(T),
         \A i \in N(T) : U.node[i].key = T.node[i].key /\ U.node[i].val = T.node[i].val,
         \A i \in 1..sizearray(T) : i \in 1..sizearray(U) /\ U.array[i] = T.array[i],
         NEW k \in DOMAIN T.hash
  PROVE  \/ luaH_get(U, k) = luaH_get(T, k)
         \/ ~InArray(T, k) /\ InArray(U, k) /\ luaH_get(U, k) = U.array[k]
<1>1. CASE InArray(T, k)
  <2>1. k \in 1..sizearray(T) /\ k \in Ints
    BY <1>1 DEF InArray
  <2>2. InArray(U, k)
    BY <2>1 DEF InArray
  <2> QED BY <1>1, <2>1, <2>2, GetIs
<1>2. CASE ~InArray(T, k) /\ ~InArray(U, k)
  <2>1. \A v : v # Nil => (Holds(T, k, v) <=> Holds(U, k, v))
    BY DEF Holds
  <2> QED BY <1>2, <2>1, SameGet
<1>3. CASE ~InArray(T, k) /\ InArray(U, k)
  BY <1>3, GetIs
<1> QED BY <1>1, <1>2, <1>3

\* The array grows, and nothing is moved.
LEMMA GrowthDamages ==
  ASSUME NEW T, Good(T), ~T.again, Shadowed(T) = {}, NEW n \in 0..MAXASIZE, n >= sizearray(T),
         NEW l, l = T.lastfree \/ l = -1
  PROVE  Damages(T, [T EXCEPT !.array = Grown(T.array, n), !.lastfree = l])
<1> DEFINE U == [T EXCEPT !.array = Grown(T.array, n), !.lastfree = l]
<1>1. /\ T \in Table /\ sizearray(T) \in Nat /\ MAXASIZE \in Nat /\ n \in Nat
      /\ \A i \in 1..sizearray(T) : T.array[i] # Nil => i \in DOMAIN T.hash
      /\ T.array \in Seq(Values \union {Nil}) /\ Len(T.array) = sizearray(T)
      /\ sizenode(T) \in Nat /\ T.lastfree \in -1..sizenode(T) /\ (T.dummy => T.lastfree <= 0)
  <2>1. MAXASIZE \in Nat
    BY Twoto, TablesAssumption DEF MAXASIZE
  <2>2. T \in Table /\ T.array \in Seq(Values \union {Nil}) /\ Len(T.array) = sizearray(T)
        /\ T.lastfree \in -1..sizenode(T) /\ (T.dummy => T.lastfree <= 0)
    BY DEF Good, Typed, Table, sizearray
  <2>3. sizearray(T) \in Nat /\ sizenode(T) \in Nat
        /\ \A i \in 1..sizearray(T) : T.array[i] # Nil => i \in DOMAIN T.hash
    BY Fields DEF Good
  <2> QED BY <2>1, <2>2, <2>3
<1>2. /\ U.hash = T.hash /\ U.array = Grown(T.array, n) /\ U.lsizenode = T.lsizenode
      /\ U.node = T.node /\ U.dummy = T.dummy /\ U.again = T.again /\ U.lastfree = l
  BY <1>1 DEF Table
<1>3. /\ Grown(T.array, n) \in Seq(Values \union {Nil}) /\ Len(Grown(T.array, n)) = n
      /\ \A i \in 1..n : Grown(T.array, n)[i] = IF i <= Len(T.array) THEN T.array[i] ELSE Nil
  BY <1>1, GrownIs
<1>4. U \in Table
  <2>1. l \in Int
    BY <1>1
  <2> QED BY <1>1, <1>3, <2>1 DEF Table
<1>5. N(U) = N(T) /\ sizenode(U) = sizenode(T) /\ sizearray(U) = n
  BY <1>2, <1>3 DEF N, sizenode, sizearray
<1> HIDE DEF U
<1>6. Typed(U)
  <2>1. l \in -1..sizenode(T) /\ (T.dummy => l <= 0)
    BY <1>1
  <2>2. \A i \in 1..Len(U.array) : U.array[i] # Nil => i \in DOMAIN U.hash
    BY <1>1, <1>2, <1>3
  <2>3. Len(U.array) <= MAXASIZE
    BY <1>2, <1>3
  <2>4. U.node \in [N(U) -> Node] /\ (U.dummy => U.lsizenode = 0 /\ U.node[0] = Empty)
    BY <1>2, <1>5 DEF Good, Typed
  <2> QED BY <2>1, <2>2, <2>3, <2>4, <1>2, <1>4, <1>5 DEF Typed
<1>7. SameLinks(T, U)
  BY <1>2 DEF SameLinks, Good, Kept
<1>8. Good(U)
  BY <1>6, <1>7, SameLinksGood
<1>9. ASSUME NEW j \in DOMAIN T.hash
      PROVE  \/ luaH_get(U, j) = luaH_get(T, j)
             \/ j \in Ints /\ luaH_get(U, j) = Nil /\ Shadowed(U) # {}
  <2>1. \A i \in 1..sizearray(T) : i \in 1..sizearray(U) /\ U.array[i] = T.array[i]
    BY <1>1, <1>2, <1>3, <1>5
  <2>2. \A i \in N(T) : U.node[i].key = T.node[i].key /\ U.node[i].val = T.node[i].val
    BY <1>2
  <2>3. \/ luaH_get(U, j) = luaH_get(T, j)
        \/ ~InArray(T, j) /\ InArray(U, j) /\ luaH_get(U, j) = U.array[j]
    BY <2>1, <2>2, <1>2, <1>5, <1>8, SameElements
  <2>4. ASSUME ~InArray(T, j), InArray(U, j), luaH_get(U, j) = U.array[j],
               luaH_get(U, j) # luaH_get(T, j)
        PROVE  j \in Ints /\ luaH_get(U, j) = Nil /\ Shadowed(U) # {}
    <3>1. j \in Ints /\ j \in 1..n /\ ~(j \in 1..sizearray(T))
      BY <2>4, <1>5 DEF InArray
    <3>2. U.array[j] = Nil
      BY <3>1, <1>1, <1>2, <1>3
    <3>3. luaH_get(T, j) # Nil
      BY <2>4, <3>2
    <3>4. Holds(T, j, luaH_get(T, j))
      BY <2>4, <3>3, GetIs
    <3>5. PICK i \in N(T) : T.node[i].key = j /\ T.node[i].val # Nil
      BY <3>3, <3>4 DEF Holds
    <3>6. ~(Shadowed(U) = {})
      BY <3>5, <2>2, <2>4, <1>5, <1>8, NoShadow
    <3> QED BY <3>1, <3>2, <3>6, <2>4
  <2> QED BY <2>3, <2>4
<1>10. Damages(T, U)
  BY <1>2, <1>8, <1>9 DEF Damages
<1> QED BY <1>10 DEF U

\* A rehash that fails.
LEMMA FailsDamage ==
  ASSUME NEW T, Good(T), ~T.again, Shadowed(T) = {}, NEW k \in DOMAIN T.hash, NeedsRehash(T, k)
  PROVE  /\ Damages(T, [T EXCEPT !.lastfree = -1])
         /\ Damages(T, Interrupted(T, k))
<1>1. /\ T \in Table /\ sizearray(T) \in Nat /\ sizearray(T) <= MAXASIZE /\ MAXASIZE \in Nat
      /\ T.array \in Seq(Values \union {Nil}) /\ Len(T.array) = sizearray(T)
  <2>1. MAXASIZE \in Nat
    BY Twoto, TablesAssumption DEF MAXASIZE
  <2> QED BY <2>1, Fields DEF Good, Typed, Table, sizearray
<1>2. Damages(T, [T EXCEPT !.lastfree = -1])
  <2> DEFINE n == sizearray(T)
             l == -1
  <2>1. Grown(T.array, n) = T.array
    <3>1. Grown(T.array, n) = [i \in 1..n |-> T.array[i]]
      BY <1>1 DEF Grown
    <3> QED BY <3>1, <1>1
  <2>2. [T EXCEPT !.array = Grown(T.array, n), !.lastfree = -1] = [T EXCEPT !.lastfree = -1]
    <3> DEFINE A == Grown(T.array, n)
    <3>1. A = T.array
      BY <2>1
    <3> HIDE DEF A
    <3>2. [T EXCEPT !.array = A, !.lastfree = -1] = [T EXCEPT !.lastfree = -1]
      BY <3>1, <1>1 DEF Table
    <3> USE DEF A
    <3> QED BY <3>2
  <2>3. Damages(T, [T EXCEPT !.array = Grown(T.array, n), !.lastfree = l])
    <3>1. n \in 0..MAXASIZE /\ n >= sizearray(T) /\ (l = T.lastfree \/ l = -1)
      BY <1>1
    <3> HIDE DEF n, l
    <3> QED BY <3>1, GrowthDamages
  <2> QED BY <2>2, <2>3
<1>3. Damages(T, Interrupted(T, k))
  <2> DEFINE n == NewSizes(T, k).array
             S == {n, sizearray(T)}
             m == Max(S)
             l == -1
  <2>1. n \in 0..MAXASIZE
    BY RehashIs
  <2>2. S \in SUBSET (0..MAXASIZE) /\ S # {}
    BY <2>1, <1>1
  <2>3. m \in S /\ \A y \in S : m >= y
    <3> HIDE DEF S
    <3> QED BY <2>2, <1>1, MaxIs
  <2>4. m \in 0..MAXASIZE /\ m >= sizearray(T) /\ (l = T.lastfree \/ l = -1)
    BY <2>2, <2>3
  <2>5. Interrupted(T, k) = [T EXCEPT !.array = Grown(T.array, m), !.lastfree = l]
    BY DEF Interrupted
  <2> HIDE DEF m, l
  <2>6. Damages(T, [T EXCEPT !.array = Grown(T.array, m), !.lastfree = l])
    BY <2>4, GrowthDamages
  <2> QED BY <2>5, <2>6
<1> QED BY <1>2, <1>3

\* luaH_resizearray()
LEMMA ResizeArrayIs ==
  ASSUME NEW T, Good(T), Shadowed(T) = {}, NEW n \in 1..MAXASIZE, n > sizearray(T)
  PROVE  Same(T, resize(T, n, IF T.dummy THEN 0 ELSE sizenode(T)))
<1> DEFINE nh == IF T.dummy THEN 0 ELSE sizenode(T)
           K == LiveKeys(T) \ (1..n)
<1>1. /\ sizearray(T) \in Nat /\ sizenode(T) \in Nat /\ MAXASIZE \in Nat /\ n \in Nat
      /\ n \in 0..MAXASIZE
      /\ N(T) = 0..(sizenode(T) - 1)
      /\ T.dummy => T.lsizenode = 0 /\ T.node[0] = Empty
      /\ T.lsizenode = 0 => sizenode(T) = 1
  <2>1. MAXASIZE \in Nat
    BY Twoto, TablesAssumption DEF MAXASIZE
  <2>2. T.lsizenode \in Nat /\ (T.dummy => T.lsizenode = 0 /\ T.node[0] = Empty)
    BY DEF Good, Typed, Table
  <2> QED BY <2>1, <2>2, Fields, Sizes DEF Good, N
<1>2. ASSUME NEW k \in K
      PROVE  \E i \in N(T) : T.node[i].key = k /\ T.node[i].val # Nil
  <2>1. k \in DOMAIN T.hash /\ luaH_get(T, k) # Nil /\ ~InArray(T, k)
    BY <1>1 DEF LiveKeys, InArray
  <2>2. Holds(T, k, luaH_get(T, k))
    BY <2>1, GetIs
  <2> QED BY <2>1, <2>2 DEF Holds
<1>3. IsFiniteSet(K)
  <2>1. IsFiniteSet(LiveKeys(T)) /\ K \in SUBSET LiveKeys(T)
    BY KeysCounted
  <2> QED BY <2>1, FS_Subset
<1>4. Cardinality(K) <= nh /\ nh \in Nat
  <2>1. CASE T.dummy
    <3>1. \A i \in N(T) : T.node[i].val = Nil
      BY <2>1, <1>1 DEF Empty
    <3>2. K = {}
      BY <3>1, <1>2
    <3> HIDE DEF K
    <3> QED BY <3>2, <2>1, FS_EmptySet
  <2>2. CASE ~T.dummy
    <3> DEFINE f == [k \in K |-> CHOOSE i \in N(T) : T.node[i].key = k /\ T.node[i].val # Nil]
    <3>1. \A k \in K : f[k] \in N(T) /\ T.node[f[k]].key = k
      <4> HIDE DEF K
      <4> QED BY <1>2
    <3>2. f \in Injection(K, N(T))
      <4>1. f \in [K -> N(T)] /\ \A x, y \in K : f[x] = f[y] => x = y
        <5>1. f = [k \in K |-> f[k]]
          OBVIOUS
        <5> HIDE DEF f, K
        <5> QED BY <3>1, <5>1
      <4> HIDE DEF f, K
      <4> QED BY <4>1 DEF Injection, IsInjective
    <3>3. IsFiniteSet(N(T)) /\ Cardinality(N(T)) = sizenode(T)
      <4> DEFINE z == 0
                 y == sizenode(T) - 1
      <4>1. z \in Int /\ y \in Int /\ N(T) = z..y /\ z = 0 /\ y = sizenode(T) - 1
        BY <1>1
      <4> HIDE DEF z, y
      <4>2. IsFiniteSet(z..y) /\ Cardinality(z..y) = IF z > y THEN 0 ELSE (y - z) + 1
        BY ONLY <4>1, FS_Interval
      <4> QED BY <4>1, <4>2, <1>1
    <3> HIDE DEF f, K
    <3>4. Cardinality(K) <= Cardinality(N(T))
      BY <3>2, <3>3, FS_Injection
    <3> QED BY <3>3, <3>4, <2>2, <1>1
  <2> QED BY <2>1, <2>2
<1> DEFINE R == resize(T, n, nh)
<1>5. /\ Good(R) /\ R.hash = T.hash /\ ~R.again /\ Shadowed(R) = {}
      /\ \A k \in DOMAIN T.hash : luaH_get(R, k) = luaH_get(T, k)
  <2>1. LiveKeys(T) \ (1..n) \subseteq K
    OBVIOUS
  <2> HIDE DEF K, nh
  <2> QED BY <2>1, <1>1, <1>3, <1>4, ResizeIs
<1> QED BY <1>5 DEF Same

\* Fewer elements, in the same places.
Fewer(T, U) ==
  /\ Typed(U) /\ SameLinks(T, U) /\ sizearray(U) = sizearray(T)
  /\ \A i \in 1..sizearray(T) : U.array[i] # Nil => T.array[i] # Nil
  /\ \A i \in N(T) : U.node[i].val # Nil => T.node[i].val # Nil

LEMMA FewerFilled ==
  ASSUME NEW T, Good(T), NEW U, Fewer(T, U)
  PROVE  /\ Good(U) /\ U.hash = T.hash /\ N(U) = N(T) /\ (Shadowed(T) = {} => Shadowed(U) = {})
         /\ Filled(U, 0) \subseteq Filled(T, 0)
         /\ \A p \in Filled(T, 0) : KeyAt(U, p) = KeyAt(T, p)
         /\ \A k \in DOMAIN T.hash : findindex(U, k) = findindex(T, k)
<1>1. /\ Good(U) /\ N(U) = N(T) /\ sizenode(U) = sizenode(T) /\ U.hash = T.hash
      /\ \A k \in DOMAIN T.hash : First(U, k, Holding(U, k)) = First(T, k, Holding(T, k))
      /\ \A i \in N(T) : U.node[i].key = T.node[i].key
      /\ sizearray(U) = sizearray(T)
  BY SameLinksGood DEF Fewer, SameLinks, sizenode
<1>2. \A k : InArray(U, k) <=> InArray(T, k)
  BY <1>1 DEF InArray
<1>3. Shadowed(T) = {} => Shadowed(U) = {}
  <2> SUFFICES ASSUME Shadowed(T) = {}
               PROVE  Shadowed(U) = {}
    OBVIOUS
  <2>1. \A i \in N(T) : T.node[i].val # Nil => ~InArray(T, T.node[i].key)
    BY NoShadow
  <2>2. \A i \in N(U) : U.node[i].val # Nil => ~InArray(U, U.node[i].key)
    BY <2>1, <1>1, <1>2 DEF Fewer
  <2> QED BY <2>2, <1>1, NoShadow
<1>4. sizearray(T) \in Nat /\ sizenode(T) \in Nat /\ N(T) = 0..(sizenode(T) - 1)
  BY Fields DEF Good, N
<1>5. ASSUME NEW p \in Filled(U, 0)
      PROVE  p \in Filled(T, 0)
  <2>1. p \in 1..(sizearray(T) + sizenode(T)) /\ ValueAt(U, p) # Nil
    BY <1>1 DEF Filled
  <2>2. p > sizearray(T) => (p - sizearray(T)) - 1 \in N(T)
    BY <2>1, <1>4
  <2>3. p <= sizearray(T) => p \in 1..sizearray(T)
    BY <2>1, <1>4
  <2>4. ValueAt(T, p) # Nil
    <3>1. CASE p <= sizearray(T)
      BY <3>1, <2>1, <2>3, <1>1 DEF ValueAt, Fewer
    <3>2. CASE ~(p <= sizearray(T))
      <4> DEFINE q == (p - sizearray(T)) - 1
      <4>1. q \in N(T)
        BY <2>1, <2>2, <3>2, <1>4
      <4>2. ValueAt(U, p) = U.node[q].val /\ ValueAt(T, p) = T.node[q].val
        BY <3>2, <1>1 DEF ValueAt
      <4> HIDE DEF q
      <4> QED BY <4>1, <4>2, <2>1 DEF Fewer
    <3> QED BY <3>1, <3>2
  <2> QED BY <2>1, <2>4 DEF Filled
<1>6. ASSUME NEW p \in Filled(T, 0)
      PROVE  KeyAt(U, p) = KeyAt(T, p)
  <2>1. p > sizearray(T) => (p - sizearray(T)) - 1 \in N(T)
    BY Positions
  <2>2. p \in Int
    BY Positions, <1>4
  <2>3. CASE p <= sizearray(T)
    BY <2>3, <1>1 DEF KeyAt
  <2>4. CASE ~(p <= sizearray(T))
    <3>1. (p - sizearray(T)) - 1 \in N(T)
      BY <2>1, <2>2, <2>4, <1>4
    <3> QED BY <2>4, <3>1, <1>1 DEF KeyAt
  <2> QED BY <2>3, <2>4
<1>7. ASSUME NEW k \in DOMAIN T.hash
      PROVE  findindex(U, k) = findindex(T, k)
  BY <1>1, <1>2 DEF findindex
<1> QED BY <1>1, <1>3, <1>5, <1>6, <1>7

\* The collector kills the keys of removed entries.
LEMMA RemoveIs ==
  ASSUME NEW T, Good(T), ~T.again, Shadowed(T) = {}
  PROVE  LET U == [T EXCEPT !.node = [i \in DOMAIN T.node |->
                    IF T.node[i].val = Nil THEN Removed(T.node[i]) ELSE T.node[i]]]
         IN  Fewer(T, U) /\ Same(T, U)
<1> DEFINE node == [i \in DOMAIN T.node |->
                      IF T.node[i].val = Nil THEN Removed(T.node[i]) ELSE T.node[i]]
           U == [T EXCEPT !.node = node]
<1>1. DOMAIN T.node = N(T) /\ N(T) = 0..(sizenode(T) - 1) /\ sizenode(T) \in Nat /\ sizenode(T) >= 1
      /\ \A i \in N(T) : T.node[i] \in Node
  BY Fields DEF Good, N
<1>2. ASSUME NEW n \in Node
      PROVE  /\ Removed(n) \in Node /\ Removed(n).val = Nil
             /\ Removed(n).key = n.key /\ Removed(n).next = n.next
             /\ n.dead => Removed(n).dead
             /\ n = Empty => Removed(n) = Empty
  <2> DEFINE o == n.key \in Strings \union Objects
             d == n.dead \/ o
  <2>1. Removed(n) = [n EXCEPT !.val = Nil, !.dead = d]
    BY DEF Removed, Node
  <2>2. d \in BOOLEAN /\ (n.dead => d)
    BY DEF Node
  <2>3. n.key = Nil => ~o
    BY NilIsNoNumber DEF Keys
  <2>4. n = Empty => d = FALSE
    BY <2>3 DEF Empty
  <2> HIDE DEF d
  <2>5. Removed(n) \in Node /\ Removed(n).val = Nil
        /\ Removed(n).key = n.key /\ Removed(n).next = n.next /\ Removed(n).dead = d
    BY <2>1, <2>2 DEF Node
  <2>6. n = Empty => Removed(n) = Empty
    <3>1. Removed(n) = [key |-> n.key, dead |-> d, val |-> Nil, next |-> n.next]
      BY <2>1 DEF Node
    <3>2. n = Empty => n.key = Nil /\ n.next = Nil
      BY DEF Empty
    <3> QED BY <2>4, <3>1, <3>2 DEF Empty
  <2> QED BY <2>2, <2>5, <2>6
<1>3. \A i \in N(T) : /\ node[i] \in Node /\ node[i].key = T.node[i].key
                      /\ node[i].next = T.node[i].next /\ node[i].val = T.node[i].val
                      /\ T.node[i].dead => node[i].dead
                      /\ node[i].val # Nil => node[i] = T.node[i]
                      /\ T.node[i] = Empty => node[i] = Empty
  <2> TAKE i \in N(T)
  <2>1. node[i] = IF T.node[i].val = Nil THEN Removed(T.node[i]) ELSE T.node[i]
    BY <1>1
  <2> HIDE DEF node
  <2>2. T.node[i] = Empty => T.node[i].val = Nil
    BY DEF Empty
  <2> DEFINE n == T.node[i]
  <2>3. n \in Node
    BY <1>1
  <2>4. CASE n.val = Nil
    BY <2>1, <2>3, <2>4, <1>2
  <2>5. CASE n.val # Nil
    BY <2>1, <2>2, <2>3, <2>5
  <2> QED BY <2>4, <2>5
<1>4. node \in [N(T) -> Node]
  <2>1. node = [i \in N(T) |-> node[i]]
    BY <1>1
  <2> HIDE DEF node
  <2> QED BY <2>1, <1>3
<1> HIDE DEF node
<1>5. T \in Table
  BY DEF Good, Typed
<1>6. U \in Table
  <2>1. node \in UNION {[0..n -> Node] : n \in Nat}
    <3>1. sizenode(T) - 1 \in Nat
      BY <1>1
    <3> QED BY <3>1, <1>1, <1>4
  <2> HIDE DEF Node
  <2> QED BY <2>1, <1>5 DEF Table
<1>7. /\ U.hash = T.hash /\ U.array = T.array /\ U.lsizenode = T.lsizenode /\ U.node = node
      /\ U.dummy = T.dummy /\ U.again = T.again /\ U.lastfree = T.lastfree
  BY <1>5 DEF Table
<1>8. N(U) = N(T) /\ sizenode(U) = sizenode(T) /\ sizearray(U) = sizearray(T)
  BY <1>7 DEF N, sizenode, sizearray
<1> HIDE DEF U
<1>9. Typed(U)
  <2>1. U.dummy => U.node[0] = Empty
    <3>1. 0 \in N(T)
      BY <1>1
    <3> QED BY <3>1, <1>3, <1>7 DEF Good, Typed
  <2> QED BY <2>1, <1>4, <1>6, <1>7, <1>8 DEF Good, Typed
<1>10. SameLinks(T, U)
  BY <1>3, <1>7 DEF SameLinks, Good, Kept
<1>11. Fewer(T, U)
  BY <1>3, <1>7, <1>8, <1>9, <1>10 DEF Fewer
<1>12. Good(U) /\ Shadowed(U) = {}
  BY <1>11, FewerFilled
<1>13. ASSUME NEW j \in DOMAIN T.hash
       PROVE  luaH_get(U, j) = luaH_get(T, j)
  <2>1. InArray(U, j) <=> InArray(T, j)
    BY <1>8 DEF InArray
  <2>2. \A i \in 1..sizearray(T) : i \in 1..sizearray(U) /\ U.array[i] = T.array[i]
    BY <1>7, <1>8
  <2>3. \A i \in N(T) : U.node[i].key = T.node[i].key /\ U.node[i].val = T.node[i].val
    BY <1>3, <1>7
  <2> QED BY <2>1, <2>2, <2>3, <1>7, <1>8, <1>12, SameElements
<1>14. Same(T, U)
  BY <1>7, <1>12, <1>13 DEF Same
<1> QED BY <1>11, <1>14 DEF U, node

\* ... and clears an entry.
LEMMA ClearIs ==
  ASSUME NEW T, Good(T), ~T.again, Shadowed(T) = {}, NEW p \in Filled(T, 0)
  PROVE  LET U == IF p <= sizearray(T) THEN [T EXCEPT !.array[p] = Nil]
                  ELSE [T EXCEPT !.node[p - sizearray(T) - 1] = Removed(@)]
         IN  Fewer(T, U) /\ Changes(T, U, KeyAt(T, p))
<1>1. /\ sizearray(T) \in Nat /\ N(T) = 0..(sizenode(T) - 1) /\ sizenode(T) \in Nat
      /\ \A i \in N(T) : T.node[i] \in Node
      /\ T \in Table /\ DOMAIN T.array = 1..sizearray(T) /\ DOMAIN T.node = N(T)
      /\ p \in Int /\ p >= 1 /\ sizenode(T) >= 1
  BY Fields, Positions DEF Good, Typed, N
<1>2. CASE p <= sizearray(T)
  <2> DEFINE U == [T EXCEPT !.array[p] = Nil]
  <2>1. KeyAt(T, p) = p /\ InArray(T, p) /\ p \in DOMAIN T.hash
    BY <1>2, Positions
  <2>2. Put(T, p, Nil) = U
    BY <2>1 DEF Put
  <2>3. Overwrites(T, U, p, Nil)
    <3> DEFINE v == Nil
    <3>1. v \in Values \union {Nil} /\ Overwrites(T, Put(T, p, v), p, v)
      <4>1. v \in Values \union {Nil}
        OBVIOUS
      <4> HIDE DEF v
      <4> QED BY <2>1, <4>1, PutOverwrites
    <3> QED BY <3>1, <2>2
  <2>4. Puts(T, U, p, Nil)
    <3> DEFINE v == Nil
    <3>1. v \in Values \union {Nil} /\ Overwrites(T, U, p, v)
      BY <2>3
    <3> HIDE DEF U, v
    <3>2. Puts(T, U, p, v)
      BY <2>1, <3>1, OverwritesPuts
    <3> USE DEF v
    <3> QED BY <3>2
  <2> HIDE DEF U
  <2>5. Fewer(T, U)
    <3>1. /\ \A i \in 1..sizearray(T) : U.array[i] # Nil => T.array[i] # Nil
          /\ U.node = T.node
      BY <2>1, <2>3 DEF Overwrites
    <3> QED BY <3>1, <2>3 DEF Fewer, Overwrites
  <2>6. Shadowed(U) = {}
    BY <2>5, FewerFilled
  <2>7. Changes(T, U, p)
    BY <2>4, <2>6 DEF Changes, Puts
  <2> USE DEF U
  <2> QED BY <2>1, <2>5, <2>7, <1>2
<1>3. CASE ~(p <= sizearray(T))
  <2> DEFINE q == p - sizearray(T) - 1
             k == KeyAt(T, p)
             U == [T EXCEPT !.node[q] = Removed(@)]
  <2>1. /\ q \in N(T) /\ T.node[q].key = k /\ k \in DOMAIN T.hash /\ k # Nil
        /\ T.node[q].val # Nil /\ ~InArray(T, k) /\ ~T.node[q].dead
    <3>1. p > sizearray(T)
      BY <1>1, <1>3
    <3>2. /\ q \in N(T) /\ T.node[q].key = k /\ k \in DOMAIN T.hash
          /\ T.node[q].val # Nil /\ ~InArray(T, k)
      BY <3>1, <1>3, Positions
    <3> QED BY <3>2, Fields DEF Good, Kept
  <2> DEFINE n == T.node[q]
             o == n.key \in Strings \union Objects
             d == n.dead \/ o
             m == [n EXCEPT !.val = Nil, !.dead = d]
  <2>2. n \in Node /\ d \in BOOLEAN /\ Removed(n) = m
    BY <2>1, <1>1 DEF Removed, Node
  <2>3. m \in Node /\ m.key = k /\ m.next = n.next /\ m.val = Nil
    <3> HIDE DEF d
    <3> QED BY <2>1, <2>2 DEF Node
  <2>4. U = [T EXCEPT !.node = [T.node EXCEPT ![q] = m]]
    <3> HIDE DEF q, m
    <3> QED BY <2>2, <1>1 DEF Table
  <2> HIDE DEF q, k, m
  <2> DEFINE node == [T.node EXCEPT ![q] = m]
  <2>5. node \in [N(T) -> Node] /\ node[q] = m /\ \A i \in N(T) : i # q => node[i] = T.node[i]
    <3>1. T.node \in [N(T) -> Node]
      BY DEF Good, Typed
    <3> HIDE DEF Node
    <3> QED BY <3>1, <2>1, <2>3
  <2> HIDE DEF node
  <2>6. U \in Table
    <3>1. node \in UNION {[0..x -> Node] : x \in Nat}
      <4>1. sizenode(T) - 1 \in Nat
        BY <1>1
      <4> QED BY <4>1, <1>1, <2>5
    <3> HIDE DEF Node
    <3> QED BY <3>1, <2>4, <1>1 DEF Table, node
  <2>7. /\ U.hash = T.hash /\ U.array = T.array /\ U.lsizenode = T.lsizenode /\ U.node = node
        /\ U.dummy = T.dummy /\ U.again = T.again /\ U.lastfree = T.lastfree
    <3>1. U = [T EXCEPT !.node = node]
      BY <2>4 DEF node
    <3> HIDE DEF U
    <3> QED BY <3>1, <1>1 DEF Table
  <2>8. N(U) = N(T) /\ sizenode(U) = sizenode(T) /\ sizearray(U) = sizearray(T)
    BY <2>7 DEF N, sizenode, sizearray
  <2> HIDE DEF U
  <2>9. Typed(U)
    <3>1. U.dummy => U.node[0] = Empty
      <4>1. T.dummy => T.node[0] = Empty
        BY DEF Good, Typed
      <4>2. T.dummy => q # 0
        BY <4>1, <2>1 DEF Empty
      <4>3. 0 \in N(T)
        BY <1>1
      <4> QED BY <4>1, <4>2, <4>3, <2>5, <2>7
    <3> QED BY <3>1, <2>5, <2>6, <2>7, <2>8 DEF Good, Typed
  <2>10. SameLinks(T, U)
    <3> SUFFICES ASSUME NEW i \in N(T)
                 PROVE  /\ U.node[i].key = T.node[i].key /\ U.node[i].next = T.node[i].next
                        /\ T.node[i].dead => U.node[i].dead
                        /\ U.node[i].val # Nil => ~U.node[i].dead
                        /\ T.node[i].key = Nil => U.node[i] = Empty
      BY <2>7 DEF SameLinks
    <3>1. CASE i = q
      <4>1. U.node[i] = m
        BY <3>1, <2>5, <2>7
      <4> QED BY <3>1, <4>1, <2>1, <2>3 DEF n
    <3>2. CASE i # q
      <4>1. U.node[i] = T.node[i]
        BY <3>2, <2>5, <2>7
      <4> QED BY <4>1 DEF Good, Kept
    <3> QED BY <3>1, <3>2
  <2>11. Fewer(T, U)
    <3>1. \A i \in N(T) : U.node[i].val # Nil => T.node[i].val # Nil
      BY <2>1, <2>5, <2>7
    <3> QED BY <3>1, <2>7, <2>8, <2>9, <2>10 DEF Fewer
  <2>12. Good(U) /\ Shadowed(U) = {}
    BY <2>11, FewerFilled
  <2>13. \A j : InArray(U, j) <=> InArray(T, j)
    BY <2>8 DEF InArray
  <2>14. luaH_get(U, k) \in Values \union {Nil}
    BY <2>1, <2>7, <2>12, GetIs
  <2>15. ASSUME NEW j \in DOMAIN T.hash, j # k
         PROVE  luaH_get(U, j) = luaH_get(T, j)
    <3>1. CASE InArray(T, j)
      BY <3>1, <2>7, <2>12, <2>13, GetIs
    <3>2. CASE ~InArray(T, j)
      <4>1. \A v : v # Nil => (Holds(T, j, v) <=> Holds(U, j, v))
        BY <2>1, <2>3, <2>5, <2>7, <2>8, <2>15 DEF Holds
      <4> QED BY <4>1, <3>2, <2>7, <2>12, <2>13, SameGet
    <3> QED BY <3>1, <3>2
  <2>16. Changes(T, U, k)
    BY <2>7, <2>12, <2>14, <2>15 DEF Changes
  <2> USE DEF U, q, k
  <2> QED BY <2>11, <2>16, <1>3
<1> QED BY <1>2, <1>3

-----------------------------------------------------------------------------
(*************************************************************************)
(* Traversal.                                                            *)
(*************************************************************************)
\* The traversal is at a key that findindex() still finds, and has given just
\* the elements up to there.
Trav(T, a, s) ==
  /\ a \in Keys \union {Nil} /\ s \subseteq Keys
  /\ a = Nil => s = {}
  /\ a # Nil => /\ a \in DOMAIN T.hash
                /\ findindex(T, a) \in Nat /\ findindex(T, a) >= 1
                /\ \A p \in Filled(T, 0) : KeyAt(T, p) \in s <=> p <= findindex(T, a)

\* It goes on in a table with fewer elements.
LEMMA FewerTrav ==
  ASSUME NEW T, Good(T), NEW U, Fewer(T, U), NEW a, NEW s, Trav(T, a, s)
  PROVE  Trav(U, a, s)
<1>1. /\ U.hash = T.hash
      /\ Filled(U, 0) \subseteq Filled(T, 0)
      /\ \A p \in Filled(T, 0) : KeyAt(U, p) = KeyAt(T, p)
      /\ \A k \in DOMAIN T.hash : findindex(U, k) = findindex(T, k)
  BY FewerFilled
<1> QED BY <1>1 DEF Trav

\* A store to an existing field leaves it where it is.
LEMMA SetFewer ==
  ASSUME NEW T, Good(T), NEW k \in DOMAIN T.hash, luaH_get(T, k) # Nil,
         NEW v \in Values \union {Nil}
  PROVE  Fewer(T, luaH_set(T, k, v))
<1> DEFINE U == Put(T, k, v)
<1>1. InArray(T, k) \/ Search(T, k) # Nil
  BY DEF luaH_get
<1>2. luaH_set(T, k, v) = U
  BY <1>1 DEF luaH_set, NeedsRehash
<1>3. Overwrites(T, U, k, v)
  BY <1>1, PutOverwrites
<1> HIDE DEF U
<1>4. CASE InArray(T, k)
  <2>1. T.array[k] # Nil
    BY <1>4, GetIs
  <2>2. /\ \A i \in 1..sizearray(T) : U.array[i] # Nil => T.array[i] # Nil
        /\ U.node = T.node
    BY <2>1, <1>3, <1>4 DEF Overwrites
  <2> QED BY <2>2, <1>2, <1>3 DEF Fewer, Overwrites
<1>5. CASE ~InArray(T, k)
  <2>1. T.node[Search(T, k)].val # Nil
    BY <1>1, <1>5 DEF luaH_get
  <2>2. \A i \in N(T) : U.node[i].val # Nil => T.node[i].val # Nil
    BY <2>1, <1>3, <1>5 DEF Overwrites
  <2>3. \A i \in 1..sizearray(T) : U.array[i] # Nil => T.array[i] # Nil
    BY <1>3, <1>5 DEF Overwrites
  <2> QED BY <2>2, <2>3, <1>2, <1>3 DEF Fewer, Overwrites
<1> QED BY <1>4, <1>5

\* luaH_next() ends when all elements have been given, or gives one that has not.
LEMMA TraverseIs ==
  ASSUME NEW T, Good(T), Shadowed(T) = {}, NEW a, NEW s, Trav(T, a, s)
  PROVE  LET from == findindex(T, a)
             rest == Filled(T, from)
             k == KeyAt(T, Min(rest))
         IN  /\ from # -1
             /\ rest = {} => \A j \in DOMAIN T.hash : luaH_get(T, j) # Nil => j \in s
             /\ rest # {} => /\ k \in DOMAIN T.hash /\ luaH_get(T, k) # Nil /\ k \notin s
                             /\ Trav(T, k, s \union {k})
<1> DEFINE from == findindex(T, a)
           rest == Filled(T, from)
           m == Min(rest)
           k == KeyAt(T, m)
<1>1. from \in Nat /\ (a = Nil => from = 0 /\ s = {}) /\ (a # Nil => from >= 1)
  BY DEF findindex, Trav
<1>2. \A p \in Filled(T, 0) : p \in Nat /\ p >= 1
  <2>1. \A p \in Filled(T, 0) : p \in 1..(sizearray(T) + sizenode(T))
    BY Positions
  <2>2. sizearray(T) + sizenode(T) \in Int
    BY Fields DEF Good
  <2> QED BY <2>1, <2>2
<1> HIDE DEF from
<1>3. \A p \in Filled(T, 0) : KeyAt(T, p) \in s <=> p <= from
  <2>1. CASE a = Nil
    BY <2>1, <1>1, <1>2
  <2>2. CASE a # Nil
    BY <2>2 DEF Trav, from
  <2> QED BY <2>1, <2>2
<1>4. \A p : p \in rest <=> p \in Filled(T, 0) /\ p > from
  <2>1. sizearray(T) + sizenode(T) \in Nat
    BY Fields DEF Good
  <2> QED BY <2>1, <1>1 DEF Filled
<1>5. ASSUME rest = {}, NEW j \in DOMAIN T.hash, luaH_get(T, j) # Nil
      PROVE  j \in s
  <2>1. PICK p \in Filled(T, 0) : KeyAt(T, p) = j
    BY <1>5, Positions
  <2>2. p <= from
    <3>1. ~(p > from)
      BY <1>4, <1>5
    <3> QED BY <3>1, <1>1, <1>2
  <2> QED BY <2>1, <2>2, <1>3
<1>6. ASSUME rest # {}
      PROVE  /\ k \in DOMAIN T.hash /\ luaH_get(T, k) # Nil /\ k \notin s
             /\ Trav(T, k, s \union {k})
  <2>1. m \in rest /\ \A p \in rest : m <= p
    <3>1. rest \in SUBSET Nat
      BY <1>2, <1>4
    <3> HIDE DEF rest
    <3> QED BY <3>1, <1>6, MinIs
  <2>2. m \in Filled(T, 0) /\ m > from /\ \A p \in Filled(T, 0) : p > from => m <= p
    <3> HIDE DEF rest, m
    <3> QED BY <2>1, <1>4
  <2> HIDE DEF rest, m
  <2>3. \A p \in Filled(T, 0) :
          /\ KeyAt(T, p) \in DOMAIN T.hash /\ ValueAt(T, p) # Nil
          /\ luaH_get(T, KeyAt(T, p)) = ValueAt(T, p)
          /\ findindex(T, KeyAt(T, p)) = p
    BY Positions
  <2>4. k \in DOMAIN T.hash /\ luaH_get(T, k) # Nil /\ findindex(T, k) = m
    BY <2>2, <2>3
  <2>5. k \notin s
    <3>1. ~(m <= from)
      BY <2>2, <1>1, <1>2
    <3> QED BY <3>1, <2>2, <1>3
  <2>6. \A p \in Filled(T, 0) : KeyAt(T, p) = k <=> p = m
    BY <2>2, <2>3
  <2> HIDE DEF k
  <2>7. ASSUME NEW p \in Filled(T, 0)
        PROVE  KeyAt(T, p) \in s \union {k} <=> p <= m
    <3>1. p \in Nat /\ m \in Nat
      BY <2>2, <1>2
    <3>2. p <= m <=> p <= from \/ p = m
      BY <3>1, <2>2, <1>1
    <3> QED BY <3>2, <2>6, <1>3
  <2>8. k \in Keys /\ k # Nil
    BY <2>4, Fields DEF Good
  <2>9. s \union {k} \subseteq Keys /\ m \in Nat /\ m >= 1
    BY <2>2, <2>8, <1>2 DEF Trav
  <2> QED BY <2>4, <2>5, <2>7, <2>8, <2>9 DEF Trav
<1>7. from # -1
  BY <1>1
<1> HIDE DEF rest, m
<1> USE DEF k
<1>8. /\ from # -1
      /\ rest = {} => \A j \in DOMAIN T.hash : luaH_get(T, j) # Nil => j \in s
      /\ rest # {} => /\ k \in DOMAIN T.hash /\ luaH_get(T, k) # Nil /\ k \notin s
                      /\ Trav(T, k, s \union {k})
  BY <1>5, <1>6, <1>7
<1> QED BY <1>8 DEF from, rest, m

-----------------------------------------------------------------------------
(*************************************************************************)
(* The inductive invariant, and the map that the table implements.       *)
(*************************************************************************)
\* Where the next luaH_next() goes on from, and the keys given before.
Cursor == IF at = Done THEN Nil ELSE at
Seen  == Map!Given

IInv == Good(t) /\ ~t.again /\ given \in Seq(Keys) /\ Trav(t, Cursor, Seen)

\* What each key is mapped to.
Content(T) == [k \in Keys |-> IF k \in DOMAIN T.hash THEN luaH_get(T, k) ELSE Nil]

\* A step of the table, for the map.
MapStep == Map!Next \/ UNCHANGED Map!vars

LEMMA SameContent ==
  ASSUME NEW T, NEW U, U.hash = T.hash,
         \A j \in DOMAIN T.hash : luaH_get(U, j) = luaH_get(T, j)
  PROVE  Content(U) = Content(T)
BY DEF Content

\* The keys given when there are none, when there is one more, and when they
\* stay the same.
LEMMA GivenNone == given = <<>> => Seen = {} /\ given \in Seq(Keys)
BY DEF Seen, Map!Given

LEMMA GivenEmpty == given' = <<>> => Seen' = {} /\ given' \in Seq(Keys)
BY DEF Seen, Map!Given

LEMMA GivenSame == UNCHANGED given => UNCHANGED Seen
BY DEF Seen, Map!Given

LEMMA GivenMore ==
  ASSUME given \in Seq(Keys), NEW k \in Keys, given' = Append(given, k)
  PROVE  given' \in Seq(Keys) /\ Seen' = Seen \union {k}
<1>1. /\ given' \in Seq(Keys) /\ Len(given) \in Nat
      /\ DOMAIN given = 1..Len(given) /\ DOMAIN given' = 1..(Len(given) + 1)
      /\ given'[Len(given) + 1] = k
      /\ \A i \in 1..Len(given) : given'[i] = given[i]
  OBVIOUS
<1>2. Seen' = {given'[i] : i \in DOMAIN given'} /\ Seen = {given[i] : i \in DOMAIN given}
  BY DEF Seen, Map!Given
<1>3. ASSUME NEW x \in Seen'
      PROVE  x \in Seen \union {k}
  <2>1. PICK i \in 1..(Len(given) + 1) : x = given'[i]
    BY <1>1, <1>2
  <2>2. i \in 1..Len(given) \/ i = Len(given) + 1
    BY <1>1
  <2> QED BY <1>1, <1>2, <2>1, <2>2
<1>4. ASSUME NEW x \in Seen \union {k}
      PROVE  x \in Seen'
  <2>1. CASE x = k
    <3>1. Len(given) + 1 \in DOMAIN given'
      BY <1>1
    <3> QED BY <1>1, <1>2, <2>1, <3>1
  <2>2. CASE x \in Seen
    <3>1. PICK i \in 1..Len(given) : x = given[i]
      BY <1>1, <1>2, <2>2
    <3>2. i \in DOMAIN given'
      BY <1>1
    <3> QED BY <1>1, <1>2, <3>1, <3>2
  <2> QED BY <2>1, <2>2
<1> QED BY <1>1, <1>3, <1>4

LEMMA ContentIs ==
  ASSUME NEW T, Good(T)
  PROVE  /\ Content(T) \in [Keys -> Values \union {Nil}] /\ DOMAIN T.hash \subseteq Keys
         /\ \A k \in Keys : Content(T)[k] = IF k \in DOMAIN T.hash THEN luaH_get(T, k) ELSE Nil
<1>1. \A k \in DOMAIN T.hash : luaH_get(T, k) \in Values \union {Nil}
  BY GetIs
<1>2. DOMAIN T.hash \subseteq Keys
  BY Fields DEF Good
<1> QED BY <1>1, <1>2 DEF Content

\* A step that changes nothing of the map.
LEMMA MapSame ==
  ASSUME Content(t') = Content(t), (Shadowed(t') = {}) <=> (Shadowed(t) = {}), UNCHANGED <<at, given>>
  PROVE  MapStep
<1>1. UNCHANGED [k \in Keys |-> IF k \in Used THEN luaH_get(t, k) ELSE Nil]
  BY DEF Content, Used
<1>2. UNCHANGED (Shadowed(t) # {})
  OBVIOUS
<1> QED BY <1>1, <1>2 DEF MapStep, Map!vars

\* A step that stores something for the key k.
LEMMA MapStores ==
  ASSUME Good(t), Shadowed(t) = {}, NEW k \in DOMAIN t.hash, Changes(t, t', k),
         at \in Keys => luaH_get(t, k) # Nil, UNCHANGED <<at, given>>
  PROVE  MapStep
<1> DEFINE content == [j \in Keys |-> IF j \in Used THEN luaH_get(t, j) ELSE Nil]
<1>1. content = Content(t) /\ content' = Content(t')
  BY DEF Content, Used
<1>2. Shadowed(t') = {} /\ Good(t') /\ t'.hash = t.hash /\ k \in Keys
  BY ContentIs DEF Changes
<1>3. Content(t)[k] = luaH_get(t, k) /\ Content(t')[k] = luaH_get(t', k)
  BY <1>2, ContentIs
<1>4. ASSUME NEW j \in Keys \ {k}
      PROVE  Content(t')[j] = Content(t)[j]
  BY <1>2, <1>4, ContentIs DEF Changes
<1>5. Content(t')[k] \in Values \union {Nil}
  BY <1>3 DEF Changes
<1> HIDE DEF content
<1>6. UNCHANGED <<at, given>> /\ (at \in Keys => content[k] # Nil)
      /\ content'[k] \in Values \union {Nil}
      /\ \A j \in Keys \ {k} : content'[j] = content[j]
  BY <1>1, <1>3, <1>4, <1>5
<1> USE DEF content
<1>7. Map!Store(k)
  <2>1. UNCHANGED (Shadowed(t) # {})
    BY <1>2
  <2> QED BY <1>6, <2>1 DEF Map!Store
<1> QED BY <1>2, <1>7 DEF MapStep, Map!Next

\* A step that may lose integer keys.
LEMMA MapDamage ==
  ASSUME Good(t), Shadowed(t) = {}, Damages(t, t'), at = Nil, UNCHANGED <<at, given>>
  PROVE  MapStep
<1> DEFINE content == [j \in Keys |-> IF j \in Used THEN luaH_get(t, j) ELSE Nil]
<1>1. content = Content(t) /\ content' = Content(t')
  BY DEF Content, Used
<1>2. Good(t') /\ t'.hash = t.hash
  BY DEF Damages
<1>3. CASE Shadowed(t') = {}
  <2>1. Content(t') = Content(t)
    BY <1>2, <1>3, SameContent DEF Damages
  <2> QED BY <2>1, <1>3, MapSame
<1>4. CASE Shadowed(t') # {}
  <2>1. Content(t') \in [Keys -> Values \union {Nil}]
    BY <1>2, ContentIs
  <2>2. ASSUME NEW k \in Keys
        PROVE  Content(t')[k] = Content(t)[k] \/ (k \in Ints /\ Content(t')[k] = Nil)
    BY <1>2, ContentIs DEF Damages
  <2> HIDE DEF content
  <2>3. /\ content' \in [Keys -> Values \union {Nil}]
        /\ \A k \in Keys : content'[k] = content[k] \/ (k \in Ints /\ content'[k] = Nil)
    BY <1>1, <2>1, <2>2
  <2>4. /\ ~(Shadowed(t) # {}) /\ (Shadowed(t) # {})' = TRUE
    BY <1>4
  <2> USE DEF content
  <2>5. Map!Damage
    BY <2>3, <2>4 DEF Map!Damage
  <2> QED BY <2>5 DEF MapStep, Map!Next
<1> QED BY <1>3, <1>4

-----------------------------------------------------------------------------
(* The initial states. *)

LEMMA FirstTable ==
  ASSUME NEW T \in Tables
  PROVE  LET U == Fresh(T[1], Grown(<<>>, T[2]), T[3])
         IN  /\ Good(U) /\ ~U.again /\ Shadowed(U) = {}
             /\ \A k \in DOMAIN U.hash : luaH_get(U, k) = Nil
<1> DEFINE h == T[1]
           n == T[2]
           m == T[3]
           a == Grown(<<>>, n)
           U == Fresh(h, a, m)
<1>1. /\ DOMAIN h \subseteq Keys /\ h \in [DOMAIN h -> Nat] /\ n \in 0..MAXASIZE /\ m \in 0..MAXASIZE
      /\ MAXASIZE \in Nat
  BY TablesAssumption, Twoto DEF MAXASIZE
<1>2. n \in Nat /\ m \in Nat /\ n <= MAXASIZE
  BY <1>1
<1> HIDE DEF h, n, m
<1>3. a \in Seq(Values \union {Nil}) /\ Len(a) = n /\ \A i \in 1..n : a[i] = Nil
  <2> DEFINE e == <<>>
  <2>1. e \in Seq(Values \union {Nil}) /\ Len(e) = 0
    OBVIOUS
  <2> HIDE DEF e
  <2>2. /\ Grown(e, n) \in Seq(Values \union {Nil}) /\ Len(Grown(e, n)) = n
        /\ \A i \in 1..n : Grown(e, n)[i] = IF i <= Len(e) THEN e[i] ELSE Nil
    BY <1>2, <2>1, GrownIs
  <2>3. \A i \in 1..n : ~(i <= Len(e))
    BY <1>2, <2>1
  <2> USE DEF e
  <2> QED BY <2>2, <2>3
<1> HIDE DEF a
<1>4. Fits(h, a)
  BY <1>1, <1>2, <1>3 DEF Fits
<1>5. /\ Good(U) /\ U.hash = h /\ U.array = a /\ ~U.again
      /\ \A i \in N(U) : U.node[i] = Empty
      /\ \A k \in DOMAIN h : ~InArray(U, k) => luaH_get(U, k) = Nil
  BY <1>2, <1>4, FreshIs
<1> HIDE DEF U
<1>6. Shadowed(U) = {}
  <2>1. \A i \in N(U) : U.node[i].val = Nil
    BY <1>5 DEF Empty
  <2> QED BY <2>1, <1>5, NoShadow
<1>7. ASSUME NEW k \in DOMAIN U.hash
      PROVE  luaH_get(U, k) = Nil
  <2>1. CASE InArray(U, k)
    BY <2>1, <1>3, <1>5, GetIs DEF sizearray
  <2>2. CASE ~InArray(U, k)
    BY <2>2, <1>5
  <2> QED BY <2>1, <2>2
<1>8. Good(U) /\ ~U.again /\ Shadowed(U) = {} /\ \A k \in DOMAIN U.hash : luaH_get(U, k) = Nil
  BY <1>5, <1>6, <1>7
<1> QED BY <1>8 DEF U, a, h, n, m

LEMMA Starts == Init => IInv /\ Map!Init
<1> SUFFICES ASSUME Init
             PROVE  IInv /\ Map!Init
  OBVIOUS
<1>1. PICK T \in Tables : t = Fresh(T[1], Grown(<<>>, T[2]), T[3])
  BY DEF Init
<1>2. /\ Good(t) /\ ~t.again /\ Shadowed(t) = {}
      /\ \A k \in DOMAIN t.hash : luaH_get(t, k) = Nil
  BY <1>1, FirstTable
<1>3. at = Nil /\ given = <<>> /\ Seen = {} /\ given \in Seq(Keys) /\ Cursor = Nil
  BY GivenNone DEF Init, Cursor
<1>4. Trav(t, Cursor, Seen)
  BY <1>3 DEF Trav
<1>5. [k \in Keys |-> IF k \in Used THEN luaH_get(t, k) ELSE Nil] = [k \in Keys |-> Nil]
  BY <1>2 DEF Used
<1>6. Map!Init
  BY <1>2, <1>3, <1>5 DEF Map!Init
<1> QED BY <1>2, <1>3, <1>4, <1>6 DEF IInv

-----------------------------------------------------------------------------
(* The steps: the invariant stays, and the map takes a step or none. *)

\* The invariant where the traversal is left alone.
LEMMA KeptInv ==
  ASSUME IInv, at # Done, Good(t'), ~t'.again, Trav(t', at, Seen), UNCHANGED <<at, given>>
  PROVE  IInv'
<1>1. at' = at /\ given' = given /\ Seen' = Seen /\ Cursor' = at /\ given \in Seq(Keys)
  BY GivenSame DEF IInv, Cursor
<1> QED BY <1>1 DEF IInv

\* The invariant where there is no traversal.
LEMMA NoTraversal ==
  ASSUME at \in {Nil, Done}, IInv
  PROVE  Cursor = Nil /\ Seen = {} /\ \A T : Trav(T, Nil, Seen)
BY DEF IInv, Cursor, Trav

LEMMA SetSteps ==
  ASSUME IInv, Shadowed(t) = {}, at # Done, NEW k \in Used, NEW v \in Values \union {Nil},
         Set(k, v)
  PROVE  IInv' /\ MapStep
<1>1. /\ Good(t) /\ ~t.again /\ Trav(t, at, Seen) /\ k \in DOMAIN t.hash
      /\ t' = luaH_set(t, k, v) /\ UNCHANGED <<at, given>> /\ (at # Nil => luaH_get(t, k) # Nil)
  BY DEF IInv, Set, Used, Present, Cursor
<1>2. /\ Good(t') /\ t'.hash = t.hash /\ ~t'.again /\ Shadowed(t') = {}
      /\ luaH_get(t', k) = v
      /\ \A j \in DOMAIN t.hash : j # k => luaH_get(t', j) = luaH_get(t, j)
  BY <1>1, SetIs
<1>3. Trav(t', at, Seen)
  <2>1. CASE at = Nil
    BY <1>1, <2>1 DEF Trav
  <2>2. CASE at # Nil
    <3>1. Fewer(t, luaH_set(t, k, v))
      BY <1>1, <2>2, SetFewer
    <3> QED BY <1>1, <3>1, FewerTrav
  <2> QED BY <2>1, <2>2
<1>4. IInv'
  BY <1>1, <1>2, <1>3, KeptInv
<1>5. Changes(t, t', k)
  BY <1>2 DEF Changes
<1>6. MapStep
  BY <1>1, <1>5, MapStores, KeysAssumption
<1> QED BY <1>4, <1>6

LEMMA DamageSteps ==
  ASSUME IInv, Shadowed(t) = {}, at = Nil, Damages(t, t'), UNCHANGED <<at, given>>
  PROVE  IInv' /\ MapStep
<1>1. Good(t) /\ Good(t') /\ ~t'.again /\ at # Done
  BY KeysAssumption DEF IInv, Damages
<1>2. Trav(t', at, Seen)
  BY NoTraversal
<1>3. IInv'
  BY <1>1, <1>2, KeptInv
<1> QED BY <1>1, <1>3, MapDamage

LEMMA SameSteps ==
  ASSUME IInv, Shadowed(t) = {}, at # Done, Same(t, t'), Trav(t', at, Seen),
         UNCHANGED <<at, given>>
  PROVE  IInv' /\ MapStep
<1>1. Good(t') /\ ~t'.again /\ Shadowed(t') = {} /\ Content(t') = Content(t)
  BY SameContent DEF Same
<1>2. IInv'
  BY <1>1, KeptInv
<1> QED BY <1>1, <1>2, MapSame

LEMMA ResizeArraySteps ==
  ASSUME IInv, Shadowed(t) = {}, NEW n \in 1..MAXASIZE, ResizeArray(n)
  PROVE  IInv' /\ MapStep
<1>1. /\ Good(t) /\ at = Nil /\ at # Done /\ n > sizearray(t) /\ UNCHANGED <<at, given>>
      /\ t' = resize(t, n, IF t.dummy THEN 0 ELSE sizenode(t))
  BY KeysAssumption DEF IInv, ResizeArray
<1>2. Same(t, t')
  BY <1>1, ResizeArrayIs
<1>3. Trav(t', at, Seen)
  BY <1>1, NoTraversal
<1> QED BY <1>1, <1>2, <1>3, SameSteps

LEMMA FailSteps ==
  ASSUME IInv, Shadowed(t) = {}, NEW k \in Used, SetFails(k)
  PROVE  IInv' /\ MapStep
<1>1. /\ Good(t) /\ ~t.again /\ at = Nil /\ NeedsRehash(t, k) /\ k \in DOMAIN t.hash
      /\ UNCHANGED <<at, given>>
      /\ t' = [t EXCEPT !.lastfree = -1] \/ t' = Interrupted(t, k)
  BY DEF IInv, SetFails, Used
<1>2. Damages(t, [t EXCEPT !.lastfree = -1]) /\ Damages(t, Interrupted(t, k))
  BY <1>1, FailsDamage
<1>3. Damages(t, t')
  BY <1>1, <1>2
<1> QED BY <1>1, <1>3, DamageSteps

LEMMA ResizeFailSteps ==
  ASSUME IInv, Shadowed(t) = {}, NEW n \in 1..MAXASIZE, ResizeFails(n)
  PROVE  IInv' /\ MapStep
<1>1. /\ Good(t) /\ ~t.again /\ at = Nil /\ n > sizearray(t) /\ UNCHANGED <<at, given>>
      /\ t' = [t EXCEPT !.array = Grown(t.array, n)]
  BY DEF IInv, ResizeFails
<1>2. n \in 0..MAXASIZE /\ n >= sizearray(t)
  <2>1. MAXASIZE \in Nat /\ sizearray(t) \in Nat
    BY <1>1, Fields, Twoto, TablesAssumption DEF Good, MAXASIZE
  <2> QED BY <2>1, <1>1
<1> DEFINE l == t.lastfree
<1>3. t' = [t EXCEPT !.array = Grown(t.array, n), !.lastfree = l]
  <2> DEFINE A == Grown(t.array, n)
  <2>1. t \in Table
    BY <1>1 DEF Good, Typed
  <2> HIDE DEF A
  <2>2. [t EXCEPT !.array = A, !.lastfree = t.lastfree] = [t EXCEPT !.array = A]
    BY <2>1 DEF Table
  <2> USE DEF A
  <2> QED BY <1>1, <2>2
<1>4. Damages(t, t')
  <2>1. l = t.lastfree \/ l = -1
    OBVIOUS
  <2> HIDE DEF l
  <2>2. Good(t) /\ ~t.again /\ Shadowed(t) = {} /\ n \in 0..MAXASIZE /\ n >= sizearray(t)
    BY <1>1, <1>2
  <2>3. Damages(t, [t EXCEPT !.array = Grown(t.array, n), !.lastfree = l])
    BY <2>1, <2>2, GrowthDamages, ZenonT(30)
  <2> QED BY <2>3, <1>3
<1> QED BY <1>1, <1>4, DamageSteps

LEMMA TraverseSteps ==
  ASSUME IInv, Shadowed(t) = {}, at # Done, Traverse
  PROVE  IInv' /\ MapStep
<1> DEFINE from == findindex(t, at)
           rest == Filled(t, from)
           k == KeyAt(t, Min(rest))
           content == [j \in Keys |-> IF j \in Used THEN luaH_get(t, j) ELSE Nil]
<1>1. Good(t) /\ ~t.again /\ Trav(t, at, Seen) /\ t' = t /\ given \in Seq(Keys)
  BY DEF IInv, Traverse, Cursor
<1>2. /\ from # -1
      /\ rest = {} => \A j \in DOMAIN t.hash : luaH_get(t, j) # Nil => j \in Seen
      /\ rest # {} => /\ k \in DOMAIN t.hash /\ luaH_get(t, k) # Nil /\ k \notin Seen
                      /\ Trav(t, k, Seen \union {k})
  BY <1>1, TraverseIs
<1>3. IF rest = {} THEN at' = Done /\ given' = <<>> ELSE at' = k /\ given' = Append(given, at')
  BY <1>2 DEF Traverse
<1>4. content' = content /\ UNCHANGED (Shadowed(t) # {})
  BY <1>1 DEF Used
<1>5. content = Content(t)
  BY DEF Content, Used
<1>6. /\ DOMAIN t.hash \subseteq Keys
      /\ \A j \in Keys : Content(t)[j] = IF j \in DOMAIN t.hash THEN luaH_get(t, j) ELSE Nil
  BY <1>1, ContentIs
<1> HIDE DEF from, rest, k
<1>7. CASE rest = {}
  <2>1. Cursor' = Nil /\ Seen' = {} /\ given' \in Seq(Keys)
    BY <1>3, <1>7, GivenEmpty DEF Cursor
  <2>2. IInv'
    BY <1>1, <2>1 DEF IInv, Trav
  <2>3. \A j \in Keys : content[j] # Nil => j \in Seen
    <3> HIDE DEF content
    <3> QED BY <1>2, <1>5, <1>6, <1>7
  <2>4. Map!End
    BY <1>3, <1>4, <1>7, <2>3 DEF Map!End, Seen
  <2> QED BY <2>2, <2>4 DEF MapStep, Map!Next
<1>8. CASE rest # {}
  <2>1. content[k] # Nil /\ k \in Keys
    <3> HIDE DEF content
    <3> QED BY <1>2, <1>5, <1>6, <1>8
  <2>2. /\ Cursor' = k /\ Seen' = Seen \union {k} /\ given' \in Seq(Keys)
        /\ at' = k /\ given' = Append(given, k)
    <3>1. k # Done
      BY <2>1, KeysAssumption
    <3>2. at' = k /\ given' = Append(given, k)
      BY <1>3, <1>8
    <3> QED BY <1>1, <2>1, <3>1, <3>2, GivenMore DEF Cursor
  <2>3. IInv'
    BY <1>1, <1>2, <1>8, <2>2 DEF IInv
  <2>4. Map!Visit(k)
    BY <1>2, <1>4, <1>8, <2>1, <2>2 DEF Map!Visit, Seen
  <2> QED BY <2>1, <2>3, <2>4 DEF MapStep, Map!Next
<1> QED BY <1>7, <1>8

LEMMA LeaveSteps ==
  ASSUME IInv, Shadowed(t) = {}, at # Done, at # Invalid, Leave
  PROVE  IInv' /\ MapStep
<1>1. Good(t) /\ ~t.again /\ at # Nil /\ at' = Nil /\ given' = <<>> /\ t' = t
  BY DEF IInv, Leave
<1>2. Cursor' = Nil /\ Seen' = {} /\ given' \in Seq(Keys)
  BY <1>1, GivenEmpty DEF Cursor
<1>3. IInv'
  BY <1>1, <1>2 DEF IInv, Trav
<1>4. /\ UNCHANGED [j \in Keys |-> IF j \in Used THEN luaH_get(t, j) ELSE Nil]
      /\ UNCHANGED (Shadowed(t) # {})
  BY <1>1 DEF Used
<1>5. at \in Keys
  BY <1>1 DEF IInv, Trav, Cursor
<1>6. Map!Leave
  BY <1>1, <1>4, <1>5 DEF Map!Leave
<1> QED BY <1>3, <1>6 DEF MapStep, Map!Next

LEMMA ResumeSteps ==
  ASSUME IInv, Resume
  PROVE  IInv' /\ MapStep
<1>1. Good(t) /\ ~t.again /\ at = Done /\ at' = Nil /\ given' = given /\ t' = t
  BY DEF IInv, Resume
<1>2. Cursor' = Nil /\ Cursor = Nil /\ Seen' = Seen
  BY <1>1, GivenSame DEF Cursor
<1>3. IInv'
  BY <1>1, <1>2 DEF IInv
<1>4. /\ UNCHANGED [j \in Keys |-> IF j \in Used THEN luaH_get(t, j) ELSE Nil]
      /\ UNCHANGED (Shadowed(t) # {})
  BY <1>1 DEF Used
<1>5. Map!Resume
  BY <1>1, <1>4 DEF Map!Resume
<1> QED BY <1>3, <1>5 DEF MapStep, Map!Next

LEMMA RemoveSteps ==
  ASSUME IInv, Shadowed(t) = {}, at # Done, RemoveEntries
  PROVE  IInv' /\ MapStep
<1>1. Good(t) /\ ~t.again /\ Trav(t, at, Seen) /\ UNCHANGED <<at, given>>
  BY DEF IInv, RemoveEntries, Cursor
<1>2. Fewer(t, t') /\ Same(t, t')
  <2>1. t' = [t EXCEPT !.node = [i \in DOMAIN t.node |->
               IF t.node[i].val = Nil THEN Removed(t.node[i]) ELSE t.node[i]]]
    BY DEF RemoveEntries
  <2> QED BY <1>1, <2>1, RemoveIs
<1>3. Trav(t', at, Seen)
  BY <1>1, <1>2, FewerTrav
<1> QED BY <1>1, <1>2, <1>3, SameSteps

LEMMA ClearSteps ==
  ASSUME IInv, Shadowed(t) = {}, at # Done, NEW p \in 1..(sizearray(t) + sizenode(t)),
         ClearEntry(p)
  PROVE  IInv' /\ MapStep
<1>1. Good(t) /\ ~t.again /\ Trav(t, at, Seen) /\ UNCHANGED <<at, given>> /\ ValueAt(t, p) # Nil
  BY DEF IInv, ClearEntry, Cursor
<1>2. p \in Filled(t, 0)
  BY <1>1 DEF Filled
<1>3. Fewer(t, t') /\ Changes(t, t', KeyAt(t, p))
  <2>1. t' = IF p <= sizearray(t) THEN [t EXCEPT !.array[p] = Nil]
             ELSE [t EXCEPT !.node[p - sizearray(t) - 1] = Removed(@)]
    BY DEF ClearEntry
  <2> QED BY <1>1, <1>2, <2>1, ClearIs
<1>4. Trav(t', at, Seen)
  BY <1>1, <1>3, FewerTrav
<1>5. IInv'
  BY <1>1, <1>3, <1>4, KeptInv DEF Changes
<1>6. KeyAt(t, p) \in DOMAIN t.hash /\ luaH_get(t, KeyAt(t, p)) # Nil
  BY <1>1, <1>2, Positions
<1>7. MapStep
  BY <1>1, <1>3, <1>6, MapStores
<1> QED BY <1>5, <1>7

LEMMA Steps == IInv /\ [Next]_vars => IInv' /\ MapStep
<1> SUFFICES ASSUME IInv, [Next]_vars
             PROVE  IInv' /\ MapStep
  OBVIOUS
<1>1. CASE UNCHANGED vars
  <2>1. t' = t /\ at' = at /\ given' = given
    BY <1>1 DEF vars
  <2>2. Cursor' = Cursor /\ Seen' = Seen
    BY <2>1, GivenSame DEF Cursor
  <2>3. IInv'
    BY <2>1, <2>2 DEF IInv
  <2>4. MapStep
    BY <2>1, MapSame
  <2> QED BY <2>3, <2>4
<1>2. CASE Next
  <2>1. Shadowed(t) = {} /\ at # Invalid
    BY <1>2 DEF Next
  <2>2. CASE Resume
    BY <2>2, ResumeSteps
  <2>3. CASE at # Done /\ Step
    <3>1. at # Done
      BY <2>3
    <3>2. CASE \E k \in Used, v \in Values \union {Nil} : Set(k, v)
      BY <2>1, <3>1, <3>2, SetSteps
    <3>3. CASE \E k \in Used : SetFails(k)
      BY <2>1, <3>3, FailSteps
    <3>4. CASE \E n \in 1..MAXASIZE : ResizeArray(n) \/ ResizeFails(n)
      BY <2>1, <3>4, ResizeArraySteps, ResizeFailSteps
    <3>5. CASE Traverse
      BY <2>1, <3>1, <3>5, TraverseSteps
    <3>6. CASE Leave
      BY <2>1, <3>1, <3>6, LeaveSteps
    <3>7. CASE RemoveEntries
      BY <2>1, <3>1, <3>7, RemoveSteps
    <3>8. CASE \E p \in 1..(sizearray(t) + sizenode(t)) : ClearEntry(p)
      BY <2>1, <3>1, <3>8, ClearSteps
    <3> QED BY <2>3, <3>2, <3>3, <3>4, <3>5, <3>6, <3>7, <3>8 DEF Step
  <2> QED BY <1>2, <2>2, <2>3 DEF Next
<1> QED BY <1>1, <1>2

-----------------------------------------------------------------------------
(*************************************************************************)
(* The theorems.                                                         *)
(*************************************************************************)
LEMMA Invariant == Spec => []IInv
<1>1. Init => IInv
  BY Starts
<1>2. IInv /\ [Next]_vars => IInv'
  BY Steps
<1> QED BY <1>1, <1>2, PTL DEF Spec

\* The fields of the table keep their types and dummynode stays empty
\* (lobject.h:332-348, ltable.c:75-78).
THEOREM TableTyped == Spec => []TypeOK
<1>1. IInv => TypeOK
  <2> SUFFICES ASSUME IInv
               PROVE  TypeOK
    OBVIOUS
  <2>1. t \in Table /\ Typed(t)
    BY DEF IInv, Good, Typed
  <2>2. at \in Keys \union {Nil, Done, Invalid} /\ given \in Seq(Keys)
    BY DEF IInv, Trav, Cursor
  <2>3. t.array \in Seq(Values \union {Nil}) /\ t.lsizenode \in Nat
    BY <2>1 DEF Table
  <2>4. /\ t.node \in [0..(sizenode(t) - 1) -> Node] /\ t.lastfree \in -1..sizenode(t)
        /\ t.dummy => t.node[0] = Empty
    BY <2>1 DEF Typed, N
  <2> QED BY <2>2, <2>3, <2>4 DEF TypeOK
<1> QED BY <1>1, Invariant, PTL

\* No element is out of reach of its main position, and newkey() finds free
\* nodes only (ltable.c:11-18, getfreepos(), newkey()).
THEOREM ChainsCorrect == Spec => []ChainsSound
<1>1. IInv => ChainsSound
  <2> SUFFICES ASSUME IInv
               PROVE  ChainsSound
    OBVIOUS
  <2>1. /\ Kept(t) /\ Joined(t) /\ Placed(t) /\ DOMAIN t.node = N(t) /\ N(t) \subseteq Nat
        /\ t.lastfree \in Int
    BY Fields DEF IInv, Good, Typed, Table
  <2>2. MainInvariant
    <3> SUFFICES ASSUME NEW i \in LiveNodes(t)
                 PROVE  LET m == mainposition(t, t.node[i].key)
                        IN  /\ i \in Chain(t, m)
                            /\ i # m /\ t.node[m].val # Nil => mainposition(t, t.node[m].key) = m
      BY DEF MainInvariant
    <3>1. i \in N(t) /\ t.node[i].val # Nil
      BY <2>1 DEF LiveNodes
    <3>2. t.node[i].key # Nil
      BY <2>1, <3>1 DEF Kept, Empty
    <3> QED BY <2>1, <3>1, <3>2 DEF Placed
  <2>3. \A i \in DOMAIN t.node : t.node[i].key = Nil => t.node[i].next = Nil
    BY <2>1 DEF Kept, Empty
  <2>4. ~t.dummy => \A i \in DOMAIN t.node : t.lastfree >= 0 /\ i >= t.lastfree => t.node[i].key # Nil
    BY <2>1 DEF Kept
  <2>5. \A i, j \in DOMAIN t.node :
          t.node[i].next # Nil => /\ t.node[t.node[i].next].key # Nil
                                  /\ t.node[i].next = t.node[j].next => i = j
    BY <2>1 DEF Joined
  <2> QED BY <2>2, <2>3, <2>4, <2>5 DEF ChainsSound, FreeListSound
<1> QED BY <1>1, Invariant, PTL

\* A rehash never comes to another one while it puts the elements back, and the
\* new key has a place after it (rehash(), newkey()).
THEOREM RehashesFit == Spec => []RehashFits
<1>1. IInv => RehashFits
  BY DEF IInv, RehashFits
<1> QED BY <1>1, Invariant, PTL

\* luaH_getn() returns a border (ltable.c:556-575).
THEOREM BordersFound == Spec => []GetnBorder
<1>1. IInv => GetnBorder
  <2> SUFFICES ASSUME IInv
               PROVE  GetnBorder
    OBVIOUS
  <2>1. Good(t)
    BY DEF IInv
  <2>2. Border(t, luaH_getn(t))
    BY <2>1, getnIs
  <2> QED BY <2>2 DEF GetnBorder, Border
<1> QED BY <1>1, Invariant, PTL

\* A rehash gives the array its best size (computesizes(), rehash()).
THEOREM ArraysOptimal == Spec => []ArrayOptimal
<1>1. IInv => ArrayOptimal
  <2> SUFFICES ASSUME IInv, NEW k \in Used, NeedsRehash(t, k), Shadowed(t) = {}
               PROVE  LET used == (Present \union {k}) \intersect Ints
                          Worthy(b) == 2 * Cardinality(used \intersect 1..twoto[b]) > twoto[b]
                      IN  NewSizes(t, k).array
                            = Max({0} \union {twoto[b] : b \in {c \in 0..MAXBITS : Worthy(c)}})
    BY DEF ArrayOptimal
  <2> DEFINE count == Counted(t, k)
             used == (Present \union {k}) \intersect Ints
             Worthy(b) == 2 * Cardinality(used \intersect 1..twoto[b]) > twoto[b]
  <2>1. Good(t) /\ k \in DOMAIN t.hash
    BY DEF IInv, Used
  <2>2. count = (LiveKeys(t) \union {k}) \intersect Ints \intersect 1..MAXASIZE
    BY <2>1, RehashIs
  <2>3. count = used \intersect 1..MAXASIZE
    BY <2>2 DEF LiveKeys, Present, Used
  <2> HIDE DEF count, used
  <2>4. count \subseteq 1..MAXASIZE
    BY <2>3
  <2>5. ASSUME NEW b \in 0..MAXBITS
        PROVE  Worth(count, b) <=> Worthy(b)
    <3>1. twoto[b] <= MAXASIZE /\ twoto[b] \in Nat /\ MAXASIZE \in Nat
      <4>1. MAXBITS \in Nat /\ b \in Nat /\ b <= MAXBITS
        BY TablesAssumption
      <4> QED BY <4>1, Twoto, TwotoGrows DEF MAXASIZE
    <3>2. \A x \in 1..twoto[b] : x \in 1..MAXASIZE
      BY <3>1
    <3>3. count \intersect 1..twoto[b] = used \intersect 1..twoto[b]
      BY <2>3, <3>2
    <3> QED BY <3>3 DEF Worth, Below
  <2>6. {c \in 0..MAXBITS : Worth(count, c)} = {c \in 0..MAXBITS : Worthy(c)}
    BY <2>5
  <2>7. NewSizes(t, k).array
          = Max({0} \union {twoto[b] : b \in {c \in 0..MAXBITS : Worth(count, c)}})
    <3>1. NewSizes(t, k).array = computesizes(count).n
      BY DEF NewSizes, count
    <3> QED BY <2>4, <3>1, SizesIs
  <2> HIDE DEF Worthy
  <2>8. NewSizes(t, k).array
          = Max({0} \union {twoto[b] : b \in {c \in 0..MAXBITS : Worthy(c)}})
    BY <2>6, <2>7
  <2> USE DEF Worthy, used
  <2> QED BY <2>8
<1> QED BY <1>1, Invariant, PTL

\* A traversal never comes to "invalid key to next" (findindex()).
THEOREM TraversalsValid == Spec => [](at # Invalid)
<1>1. IInv => at # Invalid
  BY KeysAssumption DEF IInv, Trav, Cursor
<1> QED BY <1>1, Invariant, PTL

\* The table implements a map that can be traversed while elements are changed
\* or removed: luaH_next() gives no element twice, and ends the traversal only
\* when each element that is there has been given (luaH_get(), luaH_set(),
\* luaH_next(), luaH_resizearray()).
THEOREM MapImplemented == Spec => Implements
<1>1. Init => Map!Init
  BY Starts
<1>2. IInv /\ [Next]_vars => [Map!Next]_(Map!vars)
  BY Steps DEF MapStep
<1> QED BY <1>1, <1>2, Invariant, PTL DEF Spec, Implements, Map!Spec
===========================================================================
