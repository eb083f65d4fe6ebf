----------------------------- MODULE LuaTable -----------------------------
(*************************************************************************)
(* A table of Lua (lua/ltable.c): an array part, a hash part whose nodes *)
(* are chained by their next fields, the rehash that moves elements from *)
(* one to the other, traversal with next, the border luaH_getn() finds,  *)
(* and what the collector does to the keys of removed entries.           *)
(*                                                                       *)
(* A step is one call of luaH_set() with the store that follows it, of   *)
(* luaH_next(), luaH_resizearray(), or of the collector for one table.   *)
(*                                                                       *)
(* Abstractions: a key is a model value with a hash; two objects that    *)
(* have the same address one after the other are the same key; floating  *)
(* point keys and booleans behave as the other keys that are never dead. *)
(*************************************************************************)
EXTENDS Integers, Sequences, FiniteSetsExt

CONSTANTS Ints,     \* the integer keys
          Strings,  \* string keys: collectable, hashed by a power of two
          Objects,  \* other collectable keys, by address
          Values,   \* values other than nil
          Nil,      \* nil, NULL, the end of a chain
          Invalid,  \* the error "invalid key to next"
          Done,     \* the result of luaH_next() when no element is left
          Tables,   \* <<hash, narray, nhash>>: what the keys of a program hash
                    \* to, and the sizes its table is made with
          MAXBITS,  \* log2 of the largest size of a part
          MAX_INT   \* the largest integer of C

Keys == Ints \union Strings \union Objects

\* Powers of two, by shifts.
twoto[b \in Nat] == IF b = 0 THEN 1 ELSE 2 * twoto[b - 1]

MAXASIZE == twoto[MAXBITS]

ASSUME KeysAssumption ==
  /\ Ints \subseteq -MAX_INT..MAX_INT /\ Ints \intersect (Strings \union Objects) = {}
  /\ Strings \intersect Objects = {} /\ \A k \in Strings \union Objects : k \notin Nat
  /\ Nil \notin Keys \union Values \union Nat
  /\ Invalid \notin Keys \union {Nil} /\ Done \notin Keys \union {Nil, Invalid}
ASSUME TablesAssumption ==
  /\ MAXBITS \in Nat /\ MAX_INT \in Nat /\ MAXASIZE < MAX_INT
  /\ \A T \in Tables : /\ DOMAIN T[1] \subseteq Keys /\ T[1] \in [DOMAIN T[1] -> Nat]
                       /\ T[2] \in 0..MAXASIZE /\ T[3] \in 0..MAXASIZE

VARIABLES
  t,      \* the table: array, lsizenode, node, lastfree; is node the dummynode?;
          \* had a rehash no room for what it counted?; and what the keys that
          \* the program uses hash to
  at,     \* the control variable of a traversal, Nil when there is none; or
          \* the result that ends or breaks it, Done or Invalid
  given   \* the keys the traversal has given, in order

vars == <<t, at, given>>

-----------------------------------------------------------------------------
(* Places. *)

Empty == [key |-> Nil, dead |-> FALSE, val |-> Nil, next |-> Nil]

ceillog2(n) == Min({b \in 0..n : n <= twoto[b]})
sizearray(T) == Len(T.array)
sizenode(T)  == twoto[T.lsizenode]

\* luaH_new(), and the vectors of resize(): an empty hash part is dummynode.
Fresh(hash, array, nhash) ==
  LET lsize == IF nhash = 0 THEN 0 ELSE ceillog2(nhash)
  IN  [hash |-> hash, array |-> array, lsizenode |-> lsize,
       node |-> [i \in 0..(twoto[lsize] - 1) |-> Empty], dummy |-> nhash = 0,
       lastfree |-> IF nhash = 0 THEN 0 ELSE twoto[lsize], again |-> FALSE]

\* hashstr() masks; hashnum() and hashpointer() take the rest modulo
\* (sizenode - 1) | 1.
mainposition(T, k) ==
  T.hash[k] % (IF k \in Strings \/ sizenode(T) = 1 THEN sizenode(T) ELSE sizenode(T) - 1)

\* The node n and those its next fields lead to.
Chain(T, n) ==
  LET from[m \in DOMAIN T.node \union {Nil}] ==
        IF m = Nil THEN {} ELSE {m} \union from[T.node[m].next]
  IN  from[n]

\* The nodes with the key k, dead or not; and the first of some nodes in the
\* chain of k, Nil if there is none.
Holding(T, k) == {i \in DOMAIN T.node : T.node[i].key = k}
First(T, k, nodes) ==
  LET from[m \in DOMAIN T.node \union {Nil}] ==
        IF m \in nodes \union {Nil} THEN m ELSE from[T.node[m].next]
  IN  from[mainposition(T, k)]

Search(T, k) == First(T, k, {i \in Holding(T, k) : ~T.node[i].dead})

InArray(T, k) == k \in Ints /\ k \in 1..sizearray(T)

luaH_get(T, k) ==
  IF InArray(T, k) THEN T.array[k]
  ELSE LET n == Search(T, k) IN IF n = Nil THEN Nil ELSE T.node[n].val

\* Positions are numbered from 1, the array part first.
ValueAt(T, p) == IF p <= sizearray(T) THEN T.array[p] ELSE T.node[p - sizearray(T) - 1].val
KeyAt(T, p)   == IF p <= sizearray(T) THEN p ELSE T.node[p - sizearray(T) - 1].key

Filled(T, from) == {p \in (from + 1)..(sizearray(T) + sizenode(T)) : ValueAt(T, p) # Nil}

-----------------------------------------------------------------------------
(* luaH_set() and the store of v that follows it. *)

\* MUTANT: dummynode taken for a node.
CollidesNode(T, k) == T.node[mainposition(T, k)].val # Nil

Collides(T, k) == T.dummy \/ T.node[mainposition(T, k)].val # Nil
FreeNodes(T) == {i \in 0..(T.lastfree - 1) : T.node[i].key = Nil}

\* getfreepos(): lastfree only moves down.
getfreepos(T) == IF FreeNodes(T) = {} THEN -1 ELSE Max(FreeNodes(T))

Entry(k, v, next) == [key |-> k, dead |-> FALSE, val |-> v, next |-> next]

\* MUTANT: the new key always goes to the free node.
newkeyBehind(T, k, v) ==
  LET mp == mainposition(T, k)
      n  == getfreepos(T)
  IN  IF ~Collides(T, k)
      THEN [T EXCEPT !.node[mp] = Entry(k, v, T.node[mp].next)]
      ELSE [T EXCEPT !.lastfree = n, !.node[n] = Entry(k, v, T.node[mp].next),
                     !.node[mp].next = n]

\* newkey(), where no rehash is needed. A main position whose value is nil is
\* reused, in the chain it is in. A colliding node out of its main position
\* moves to the free node.
newkey(T, k, v) ==
  LET mp == mainposition(T, k)
      n  == getfreepos(T)
      othern == mainposition(T, T.node[mp].key)
      before == CHOOSE p \in Chain(T, othern) : T.node[p].next = mp
  IN  IF ~Collides(T, k)
      THEN [T EXCEPT !.node[mp] = Entry(k, v, T.node[mp].next)]
      ELSE IF othern # mp
      THEN [T EXCEPT !.lastfree = n, !.node[before].next = n,
                     !.node[n] = T.node[mp], !.node[mp] = Entry(k, v, Nil)]
      ELSE [T EXCEPT !.lastfree = n, !.node[n] = Entry(k, v, T.node[mp].next),
                     !.node[mp].next = n]

\* Is k a new key, and no node free for it?
NeedsRehash(T, k) ==
  /\ ~InArray(T, k) /\ Collides(T, k) /\ FreeNodes(T) = {}
  /\ Search(T, k) = Nil

\* A store that finds a place; within a rehash there has to be one.
Put(T, k, v) ==
  IF InArray(T, k) THEN [T EXCEPT !.array[k] = v]
  ELSE LET n == Search(T, k)
       IN  IF n # Nil THEN [T EXCEPT !.node[n].val = v]
           ELSE IF Collides(T, k) /\ FreeNodes(T) = {} THEN [T EXCEPT !.again = TRUE]
           ELSE newkey(T, k, v)

Grown(array, n) == [i \in 1..n |-> IF i <= Len(array) THEN array[i] ELSE Nil]

\* resize(): the vanishing slice of the array first, then the nodes from last
\* to first.
resize(T, nasize, nhsize) ==
  LET slice == IF nasize < sizearray(T) THEN sizearray(T) - nasize ELSE 0
      place(i) == IF i <= slice THEN nasize + i
                  ELSE sizearray(T) + sizenode(T) + slice + 1 - i
      table[i \in 0..(slice + sizenode(T))] ==
        IF i = 0 THEN Fresh(T.hash, Grown(T.array, nasize), nhsize)
        ELSE LET S == table[i - 1]
                 v == ValueAt(T, place(i))
             IN  IF v = Nil THEN S ELSE Put(S, KeyAt(T, place(i)), v)
  IN  table[slice + sizenode(T)]

\* numusearray(), numusehash() and countint() of the extra key ek.
LiveNodes(T) == {i \in DOMAIN T.node : T.node[i].val # Nil}
Counted(T, ek) ==
  ({KeyAt(T, p) : p \in Filled(T, 0)} \union {ek}) \intersect Ints \intersect 1..MAXASIZE

\* MUTANT: the extra key is not counted.
TotalUseNow(T) == Cardinality(Filled(T, 0))

TotalUse(T) == 1 + Cardinality(Filled(T, 0))

\* MUTANT: elements are counted for the size before the slice is.
computesizesLate(count) ==
  LET nums == [b \in 0..MAXBITS |-> Cardinality({c \in count : ceillog2(c) = b})]
      loop[i \in 0..(MAXBITS + 1)] ==
        IF i = 0 THEN [a |-> 0, n |-> 0, na |-> 0]
        ELSE LET last == loop[i - 1]
                 twotoi == twoto[i - 1]
                 a == last.a + nums[i - 1]
             IN  IF twotoi \div 2 >= Cardinality(count) \/ nums[i - 1] = 0 THEN last
                 ELSE IF last.a > twotoi \div 2 THEN [a |-> a, n |-> twotoi, na |-> a]
                 ELSE [last EXCEPT !.a = a]
  IN  loop[MAXBITS + 1]

\* computesizes(): slice by slice, the size n of the array and the number na of
\* elements that go to it. (a = narray ends the loop: no slice left has any.)
computesizes(count) ==
  LET nums == [b \in 0..MAXBITS |-> Cardinality({c \in count : ceillog2(c) = b})]
      loop[i \in 0..(MAXBITS + 1)] ==
        IF i = 0 THEN [a |-> 0, n |-> 0, na |-> 0]
        ELSE LET last == loop[i - 1]
                 twotoi == twoto[i - 1]
                 a == last.a + nums[i - 1]
             IN  IF twotoi \div 2 >= Cardinality(count) \/ nums[i - 1] = 0 THEN last
                 ELSE IF a > twotoi \div 2 THEN [a |-> a, n |-> twotoi, na |-> a]
                 ELSE [last EXCEPT !.a = a]
  IN  loop[MAXBITS + 1]

NewSizes(T, ek) ==
  LET c == computesizes(Counted(T, ek))
  IN  [array |-> c.n, hash |-> TotalUse(T) - c.na]

\* setnodevector(): "table overflow".
Overflows(T, ek) ==
  NewSizes(T, ek).hash > 0 /\ ceillog2(NewSizes(T, ek).hash) > MAXBITS

rehash(T, ek) == resize(T, NewSizes(T, ek).array, NewSizes(T, ek).hash)

luaH_set(T, k, v) ==
  IF NeedsRehash(T, k) THEN Put(rehash(T, k), k, v) ELSE Put(T, k, v)

\* An error after the array has grown and before there is a new node vector.
Interrupted(T, ek) ==
  [T EXCEPT !.array = Grown(T.array, Max({NewSizes(T, ek).array, sizearray(T)})),
            !.lastfree = -1]

-----------------------------------------------------------------------------
(* Traversal, and the border. *)

\* MUTANT: the index after that of a node.
findindexPast(T, k) ==
  IF k = Nil THEN 0
  ELSE IF InArray(T, k) THEN k
  ELSE LET n == First(T, k, Holding(T, k))
       IN  IF n = Nil THEN -1 ELSE sizearray(T) + n + 2

\* findindex(): 0 to begin; a dead key is good enough; -1 is the error "invalid
\* key to next".
findindex(T, k) ==
  IF k = Nil THEN 0
  ELSE IF InArray(T, k) THEN k
  ELSE LET n == First(T, k, Holding(T, k))
       IN  IF n = Nil THEN -1 ELSE sizearray(T) + n + 1

\* Between i, which is present or the first, and j, which is not.
Bisect(present, i, j) ==
  LET go[n \in Nat] ==
        IF n = 0 THEN <<i, j>>
        ELSE LET p == go[n - 1]
                 m == (p[1] + p[2]) \div 2
             IN  IF p[2] - p[1] <= 1 THEN p
                 ELSE IF m \in present THEN <<m, p[2]>> ELSE <<p[1], m>>
  IN  go[j][1]

getnum(T, n) == IF n \in DOMAIN T.hash THEN luaH_get(T, n) ELSE Nil

\* MUTANT: the overflow of j is not looked at in time.
unbound_searchWide(T, start) ==
  LET present == {n \in 1..MAX_INT : getnum(T, n) # Nil}
      j(d) == (start + 1) * twoto[d]
      stop == Min({d \in 0..MAX_INT : j(d) \notin present \/ 2 * j(d) > MAX_INT})
  IN  IF j(stop) \in present THEN j(stop)
      ELSE Bisect(present, IF stop = 0 THEN 0 ELSE j(stop - 1), j(stop))

\* unbound_search(): doubles j until t[j] is nil; when that overflows, counts.
unbound_search(T, start) ==
  LET present == {n \in 1..MAX_INT : getnum(T, n) # Nil}
      j(d) == (start + 1) * twoto[d]
      stop == Min({d \in 0..MAX_INT : j(d) \notin present \/ 2 * j(d) > MAX_INT})
  IN  IF j(stop) \in present THEN Min((1..(MAX_INT + 1)) \ present) - 1
      ELSE Bisect(present, IF stop = 0 THEN start ELSE j(stop - 1), j(stop))

luaH_getn(T) ==
  LET j == sizearray(T)
  IN  IF j > 0 /\ T.array[j] = Nil THEN Bisect({m \in 1..j : T.array[m] # Nil}, 0, j)
      ELSE IF T.dummy THEN j
      ELSE unbound_search(T, j)

-----------------------------------------------------------------------------
(* The steps. *)

\* Integer keys left in the hash part when the array grew over them: they are
\* lost. The model goes no further.
Shadowed(T) == {T.node[i].key : i \in LiveNodes(T)} \intersect Ints \intersect 1..sizearray(T)

Used    == DOMAIN t.hash
Present == {k \in Used : luaH_get(t, k) # Nil}

\* lua_rawset(), luaV_settable() and the like, for nil too. In a traversal only
\* existing fields may be assigned to.
Set(k, v) ==
  /\ at # Nil => k \in Present
  /\ ~(NeedsRehash(t, k) /\ Overflows(t, k))
  /\ t' = luaH_set(t, k, v)
  /\ UNCHANGED <<at, given>>

\* No memory for the array, or none for the nodes, or too many of them; the
\* program goes on, having caught the error.
SetFails(k) ==
  /\ at = Nil /\ NeedsRehash(t, k)
  /\ \/ t' = [t EXCEPT !.lastfree = -1]
     \/ t' = Interrupted(t, k)
  /\ UNCHANGED <<at, given>>

\* luaH_resizearray(), for a constructor with more items than the array holds.
ResizeArray(n) ==
  /\ at = Nil /\ n > sizearray(t)
  /\ t' = resize(t, n, IF t.dummy THEN 0 ELSE sizenode(t))
  /\ UNCHANGED <<at, given>>

\* The same, without memory for the nodes.
ResizeFails(n) ==
  /\ at = Nil /\ n > sizearray(t)
  /\ t' = [t EXCEPT !.array = Grown(t.array, n)]
  /\ UNCHANGED <<at, given>>

\* luaH_next()
Traverse ==
  LET from == findindex(t, at)
      rest == Filled(t, from)
  IN  /\ IF from = -1 THEN at' = Invalid /\ UNCHANGED given
         ELSE IF rest = {} THEN at' = Done /\ given' = <<>>
         ELSE at' = KeyAt(t, Min(rest)) /\ given' = Append(given, at')
      /\ UNCHANGED t

\* The program goes on when luaH_next() has told it that no element is left.
Resume ==
  /\ at = Done /\ at' = Nil
  /\ UNCHANGED <<t, given>>

\* The program leaves a traversal at a key.
Leave ==
  /\ at # Nil /\ at' = Nil /\ given' = <<>>
  /\ UNCHANGED t

Removed(n) == [n EXCEPT !.val = Nil, !.dead = @ \/ n.key \in Strings \union Objects]

\* traversetable(): the keys of removed entries die, whether their objects are
\* still there or not.
RemoveEntries ==
  /\ t' = [t EXCEPT !.node = [i \in DOMAIN t.node |->
             IF t.node[i].val = Nil THEN Removed(t.node[i]) ELSE t.node[i]]]
  /\ UNCHANGED <<at, given>>

\* cleartable() of a weak table, of one entry.
ClearEntry(p) ==
  /\ ValueAt(t, p) # Nil
  /\ t' = IF p <= sizearray(t) THEN [t EXCEPT !.array[p] = Nil]
          ELSE [t EXCEPT !.node[p - sizearray(t) - 1] = Removed(@)]
  /\ UNCHANGED <<at, given>>

Init ==
  /\ \E T \in Tables : t = Fresh(T[1], Grown(<<>>, T[2]), T[3])
  /\ at = Nil /\ given = <<>>

\* A call of the interface, or a step of the collector.
Step ==
  \/ \E k \in Used, v \in Values \union {Nil} : Set(k, v)
  \/ \E k \in Used : SetFails(k)
  \/ \E n \in 1..MAXASIZE : ResizeArray(n) \/ ResizeFails(n)
  \/ Traverse \/ Leave \/ RemoveEntries
  \/ \E p \in 1..(sizearray(t) + sizenode(t)) : ClearEntry(p)

Next ==
  /\ Shadowed(t) = {} /\ at # Invalid
  /\ Resume \/ (at # Done /\ Step)

Spec == Init /\ [][Next]_vars

-----------------------------------------------------------------------------
(* Properties. *)

Node == [key : Keys \union {Nil}, dead : BOOLEAN, val : Values \union {Nil},
         next : Nat \union {Nil}]

TypeOK ==
  /\ at \in Keys \union {Nil, Done, Invalid} /\ given \in Seq(Keys)
  /\ t.array \in Seq(Values \union {Nil}) /\ t.lsizenode \in Nat
  /\ t.node \in [0..(sizenode(t) - 1) -> Node] /\ t.lastfree \in -1..sizenode(t)
  /\ t.dummy => t.node[0] = Empty

\* The main invariant of ltable.c:15-17: an element that is not in its main
\* position is chained behind one that is in its own, or was before it was
\* removed. No element is unreachable from its main position.
MainInvariant ==
  \A i \in LiveNodes(t) :
    LET m == mainposition(t, t.node[i].key)
    IN  /\ i \in Chain(t, m)
        /\ i # m /\ t.node[m].val # Nil => mainposition(t, t.node[m].key) = m

\* The way newkey() finds a free node: nodes from lastfree on have a key, no
\* node without one is in a chain, and no node is in two.
FreeListSound ==
  /\ \A i \in DOMAIN t.node : t.node[i].key = Nil => t.node[i].next = Nil
  /\ ~t.dummy => \A i \in DOMAIN t.node : t.lastfree >= 0 /\ i >= t.lastfree => t.node[i].key # Nil
  /\ \A i, j \in DOMAIN t.node :
       t.node[i].next # Nil => /\ t.node[t.node[i].next].key # Nil
                               /\ t.node[i].next = t.node[j].next => i = j

ChainsSound == MainInvariant /\ FreeListSound

\* A rehash makes room for all it counted and the new key: it never comes to
\* another rehash while it puts the elements back.
RehashFits == ~t.again

\* luaH_getn() returns a border whatever part the elements are in
\* (ltable.c:556-559).
GetnBorder ==
  LET n == luaH_getn(t)
  IN  Shadowed(t) = {} => /\ n > 0 => getnum(t, n) # Nil
                          /\ getnum(t, n + 1) = Nil

\* A rehash for the key k gives the array the largest power of two of which more
\* than half the slots are in use, k included (ltable.c:12-13, but for "at least").
ArrayOptimal ==
  \A k \in Used : NeedsRehash(t, k) /\ Shadowed(t) = {} =>
    LET used == (Present \union {k}) \intersect Ints
        Worth(b) == 2 * Cardinality(used \intersect 1..twoto[b]) > twoto[b]
    IN  NewSizes(t, k).array = Max({0} \union {twoto[b] : b \in {c \in 0..MAXBITS : Worth(c)}})

\* The table is a map from keys to values; and each luaH_next() of a traversal
\* gives an element not given before, and ends the traversal when no element is
\* left, while others are changed or removed or their keys die: every element
\* that stays is given exactly once, unless the program leaves before the end.
Map == INSTANCE LuaMap WITH
  Key <- Keys, Int <- Ints, Value <- Values,
  content <- [k \in Keys |-> IF k \in Used THEN luaH_get(t, k) ELSE Nil], lost <- Shadowed(t) # {}
Implements == Map!Spec
=============================================================================
