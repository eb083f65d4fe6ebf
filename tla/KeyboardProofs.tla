--------------------------- MODULE KeyboardProofs ---------------------------
(***************************************************************************)
(* Keyboard proved, for a buffer of any size, any keys and any console.    *)
(*                                                                         *)
(* Inv is inductive: the buffer is sorted up to KB_BUFFLEN (Sorted), which *)
(* the copy preserves only because it stays below KB_BUFFLEN (CopyFits),   *)
(* and slot 0 is a bound for what was read (ReadOrder), which holds after  *)
(* a copy because the buffer is sorted.                                    *)
(***************************************************************************)
EXTENDS Keyboard, TermProofs

Inv == TypeOK /\ CopyFits /\ Sorted /\ ReadOrder

ConsoleStart == {gotoPosition(InitialConsole, 0, y) : y \in 0 .. Height - 1}

LEMMA ConsoleStartType == ConsoleStart \subseteq Consoles
<1>1. InitialConsole \in Consoles
  BY TermAssumption DEF InitialConsole, Consoles
<1>2. \A y \in 0 .. Height - 1 : y \in Nat
  BY TermAssumption
<1> QED  BY <1>1, <1>2, GotoType DEF ConsoleStart

LEMMA InitInv == Init => Inv
<1> SUFFICES ASSUME Init PROVE Inv
  OBVIOUS
<1> USE KeyboardAssumption DEF Init, Slots
<1>1. typed \in Seq(0 .. 255) /\ Len(typed) = 0
  BY typed = << >>
<1>2. Stdout \in Consoles
  BY ConsoleStartType DEF ConsoleStart
<1>3. TypeOK
  <2>1. KB_BUFFER \in [Slots -> 0 .. Len(typed)] /\ 0 \in Slots
    BY <1>1
  <2>2. KB_KEYMAP \subseteq Flags /\ pc \in Labels
    BY DEF Labels
  <2> QED  BY <1>1, <1>2, <2>1, <2>2 DEF TypeOK, Fresh
<1>4. CopyFits /\ Sorted /\ ReadOrder
  BY DEF CopyFits, Sorted, ReadOrder
<1> QED  BY <1>3, <1>4 DEF Inv

(* What the handler does to the variables it shares with the reader. *)
HandlerEffect ==
  /\ \E c \in 0 .. 255 : typed' = Append(typed, c)
  /\ late' \in {late, Len(typed) + 1}
  /\ KB_KEYMAP' \in SUBSET Flags
  /\ Stdout' \in Consoles
  /\ \/ /\ KB_BUFFLEN + 1 \notin Slots
        /\ UNCHANGED << KB_BUFFER, KB_BUFFLEN, key_waiting >>
     \/ /\ KB_BUFFLEN + 1 \in Slots
        /\ KB_BUFFER' = [KB_BUFFER EXCEPT ![KB_BUFFLEN + 1] = Len(typed) + 1]
        /\ KB_BUFFLEN' \in {KB_BUFFLEN, KB_BUFFLEN + 1}
        /\ KB_BUFFLEN' = KB_BUFFLEN + 1 \/ typed' = Append(typed, BS)
        /\ key_waiting' \in BOOLEAN
  /\ fault' \in {"none", "overrun"}
  /\ \/ UNCHANGED << pc, ret >>
     \/ pc = "hlt" /\ pc' = "main" /\ ret' = Fresh
  /\ UNCHANGED << temp, di, cx, last >>

LEMMA HandlerLemma ==
  ASSUME TypeOK, KB_handle
  PROVE  HandlerEffect
<1>1. PICK scan \in Scans :
        \E key \in scan2char(KB_KEYMAP, scan) : Received(key)
  BY DEF KB_handle
<1>2. PICK key \in scan2char(KB_KEYMAP, scan) : Received(key)
  BY <1>1
<1>3. scan \in 0 .. 255 /\ KB_KEYMAP \in SUBSET Flags
  BY KeyboardAssumption DEF TypeOK
<1>4. key.keymap \in SUBSET Flags /\ key.char \in 0 .. 255
  BY <1>3, Scan2CharType
<1>6. putChar(Stdout, key.char) \in Consoles
  BY PutCharType DEF TypeOK
<1>5. late' \in {late, Len(typed) + 1}
  BY <1>2 DEF Received
<1>7. /\ typed' = Append(typed, key.char)
      /\ KB_KEYMAP' = key.keymap
      /\ UNCHANGED << temp, di, cx, last >>
      /\ \/ UNCHANGED << pc, ret >>
         \/ pc = "hlt" /\ pc' = "main" /\ ret' = Fresh
  BY <1>2 DEF Received
<1>8. KB_BUFFLEN \in Nat /\ Stdout \in Consoles /\ fault = "none"
  BY DEF TypeOK, Slots, KB_handle, Running
<1>9. CASE KB_BUFFLEN + 1 \notin Slots
  <2>1. fault' = "overrun" /\ UNCHANGED << shared, Stdout >>
    BY <1>2, <1>9 DEF Received
  <2> QED  BY <1>4, <1>5, <1>7, <1>8, <1>9, <2>1 DEF HandlerEffect, shared
<1>10. CASE KB_BUFFLEN + 1 \in Slots
  <2> DEFINE slot == KB_BUFFLEN + 1
             echo == putChar(Stdout, key.char)
  <2>1. /\ KB_BUFFER' = [KB_BUFFER EXCEPT ![slot] = Len(typed) + 1]
        /\ KB_BUFFLEN' = slot - LenChange(key.char)
        /\ Stdout' = echo
        /\ key_waiting' = (key_waiting \/ ~echo.hung)
        /\ UNCHANGED fault
    <3> HIDE DEF echo
    <3>1. slot \in Slots
      BY <1>10
    <3>2. IF slot \notin Slots
          THEN /\ fault' = "overrun"
               /\ UNCHANGED << shared, Stdout >>
          ELSE /\ KB_BUFFER' = [KB_BUFFER EXCEPT ![slot] = Len(typed) + 1]
               /\ KB_BUFFLEN' = slot - LenChange(key.char)
               /\ Stdout' = echo
               /\ key_waiting' = (key_waiting \/ ~echo.hung)
               /\ UNCHANGED fault
      BY <1>2, Zenon DEF Received, echo
    <3> QED  BY <3>1, <3>2, Zenon
  <2>2. /\ KB_BUFFLEN' \in {KB_BUFFLEN, KB_BUFFLEN + 1}
        /\ KB_BUFFLEN' = KB_BUFFLEN + 1 \/ typed' = Append(typed, BS)
    BY <1>7, <1>8, <2>1 DEF LenChange
  <2>3. key_waiting' \in BOOLEAN
    BY <2>1, Zenon
  <2>4. fault' \in {"none", "overrun"} /\ Stdout' \in Consoles
    BY <1>6, <1>8, <2>1
  <2> HIDE DEF echo
  <2>5. /\ \E c \in 0 .. 255 : typed' = Append(typed, c)
        /\ KB_KEYMAP' \in SUBSET Flags
    BY <1>4, <1>7
  <2> QED  BY <1>5, <1>7, <1>10, <2>1, <2>2, <2>3, <2>4, <2>5, Zenon DEF HandlerEffect
<1> QED  BY <1>9, <1>10

(* The handler preserves the invariant wherever it comes. *)
LEMMA HandlerInv ==
  ASSUME Inv, HandlerEffect
  PROVE  Inv'
<1> USE KeyboardAssumption DEF Slots
<1>1. /\ TypeOK /\ CopyFits /\ Sorted /\ ReadOrder
      /\ KB_BUFFER \in [Slots -> 0 .. Len(typed)]
      /\ KB_BUFFLEN \in Slots
  BY DEF Inv, TypeOK
<1>2. typed' \in Seq(0 .. 255) /\ Len(typed') = Len(typed) + 1 /\ Len(typed) \in Nat
  <2>1. typed \in Seq(0 .. 255)
    BY <1>1 DEF TypeOK
  <2>2. PICK c \in 0 .. 255 : typed' = Append(typed, c)
    BY DEF HandlerEffect
  <2> QED  BY <2>1, <2>2
<1>3. /\ KB_BUFFLEN' \in Slots
      /\ KB_BUFFLEN <= KB_BUFFLEN'
      /\ KB_BUFFER' \in [Slots -> 0 .. Len(typed')]
      /\ KB_BUFFER'[0] = KB_BUFFER[0]
  <2>1. CASE UNCHANGED << KB_BUFFER, KB_BUFFLEN >>
    BY <1>1, <1>2, <2>1
  <2>2. CASE /\ KB_BUFFLEN + 1 \in Slots
             /\ KB_BUFFER' = [KB_BUFFER EXCEPT ![KB_BUFFLEN + 1] = Len(typed) + 1]
             /\ KB_BUFFLEN' \in {KB_BUFFLEN, KB_BUFFLEN + 1}
    BY <1>1, <1>2, <2>2
  <2> QED  BY <2>1, <2>2 DEF HandlerEffect
<1>4. TypeOK'
  <2>1. /\ temp' \in 0 .. Len(typed') /\ last' \in 0 .. Len(typed')
        /\ ret' \in {Nothing, Fresh} \cup 0 .. Len(typed')
    BY <1>1, <1>2 DEF HandlerEffect, TypeOK
  <2>3. late' \in 0 .. Len(typed')
    <3>1. late \in 0 .. Len(typed) /\ late' \in {late, Len(typed) + 1}
      BY <1>1 DEF HandlerEffect, TypeOK
    <3> QED  BY <1>2, <3>1
  <2>2. pc' \in Labels
    BY <1>1 DEF HandlerEffect, TypeOK, Labels
  <2> QED  BY <1>1, <1>2, <1>3, <2>1, <2>2, <2>3 DEF HandlerEffect, TypeOK
<1>5. CopyFits'
  BY <1>1, <1>3 DEF HandlerEffect, CopyFits, TypeOK
<1>6. Sorted'
  <2>1. CASE UNCHANGED << KB_BUFFER, KB_BUFFLEN >>
    BY <1>1, <2>1 DEF Sorted
  <2>2. CASE /\ KB_BUFFLEN + 1 \in Slots
             /\ KB_BUFFER' = [KB_BUFFER EXCEPT ![KB_BUFFLEN + 1] = Len(typed) + 1]
             /\ KB_BUFFLEN' \in {KB_BUFFLEN, KB_BUFFLEN + 1}
    <3> SUFFICES ASSUME NEW i \in 0 .. KB_BUFFLEN', NEW j \in 0 .. KB_BUFFLEN',
                        i <= j
                 PROVE  KB_BUFFER'[i] <= KB_BUFFER'[j]
      BY DEF Sorted
    <3>1. CASE j <= KB_BUFFLEN
      BY <1>1, <2>2, <3>1 DEF Sorted
    <3>2. CASE j = KB_BUFFLEN + 1
      BY <1>1, <1>2, <1>3, <2>2, <3>2
    <3> QED  BY <1>1, <2>2, <3>1, <3>2
  <2> QED  BY <2>1, <2>2 DEF HandlerEffect
<1>7. ReadOrder'
  BY <1>1, <1>3 DEF HandlerEffect, ReadOrder
<1> QED  BY <1>4, <1>5, <1>6, <1>7 DEF Inv

(* Every step of the main program preserves it. *)
LEMMA ReaderInv ==
  ASSUME Inv, KB_read \/ Halt
  PROVE  Inv'
<1> USE KeyboardAssumption DEF Slots, shared, device
<1>1. /\ TypeOK /\ CopyFits /\ Sorted /\ ReadOrder
      /\ KB_BUFFER \in [Slots -> 0 .. Len(typed)]
      /\ KB_BUFFLEN \in Slots /\ Len(typed) \in Nat
      /\ temp \in 0 .. Len(typed) /\ last \in 0 .. Len(typed)
      /\ di \in Slots /\ cx \in Slots
  BY DEF Inv, TypeOK
<1>2. CASE Enter
  BY <1>1, <1>2 DEF Enter, Inv, TypeOK, CopyFits, Sorted, ReadOrder, Labels
<1>3. CASE Load
  <2>1. KB_BUFFER[0] \in 0 .. Len(typed)
    BY <1>1
  <2> QED  BY <1>1, <1>3, <2>1
           DEF Load, Inv, TypeOK, CopyFits, Sorted, ReadOrder, Labels
<1>4. CASE Count
  <2>1. pc = "count" /\ UNCHANGED << KB_BUFFER, KB_BUFFLEN, temp, last, typed >>
    BY <1>4 DEF Count, At
  <2>2. \/ UNCHANGED << pc, di, cx >> /\ fault' = "underrun"
        \/ /\ di' = 0 /\ cx' = KB_BUFFLEN - 1 /\ pc' = "copy" /\ KB_BUFFLEN # 0
           /\ UNCHANGED fault
    BY <1>4 DEF Count
  <2>3. TypeOK'
    <3>1. /\ di' \in Slots /\ cx' \in Slots
          /\ pc' \in Labels /\ fault' \in {"none", "overrun", "underrun"}
      <4>1. /\ pc \in Labels /\ fault \in {"none", "overrun", "underrun"}
            /\ KB_BUFFLEN \in Slots /\ di \in Slots /\ cx \in Slots
        BY <1>1 DEF TypeOK
      <4>2. CASE UNCHANGED << pc, di, cx >> /\ fault' = "underrun"
        BY <4>1, <4>2
      <4>3. CASE /\ di' = 0 /\ cx' = KB_BUFFLEN - 1 /\ pc' = "copy"
                 /\ KB_BUFFLEN # 0 /\ UNCHANGED fault
        <5>1. 0 \in Slots /\ KB_BUFFLEN - 1 \in Slots
          BY <4>1, <4>3
        <5> QED  BY <4>1, <4>3, <5>1 DEF Labels
      <4> QED  BY <2>2, <4>2, <4>3
    <3>2. UNCHANGED << shared, device, temp, ret, last >>
      BY <1>4 DEF Count
    <3>3. /\ UNCHANGED << KB_BUFFER, KB_BUFFLEN, key_waiting >>
          /\ UNCHANGED << KB_KEYMAP, Stdout, typed, late >>
          /\ UNCHANGED << temp, ret, last >>
      BY <3>2
    <3> QED  BY <1>1, <3>1, <3>3, Zenon DEF TypeOK
  <2>4. CopyFits' /\ Sorted' /\ ReadOrder'
    BY <1>1, <2>1, <2>2 DEF CopyFits, Sorted, ReadOrder
  <2> QED  BY <2>3, <2>4 DEF Inv
<1>5. CASE Copy
  <2>1. CASE cx = 0
    BY <1>1, <1>5, <2>1
    DEF Copy, At, Inv, TypeOK, CopyFits, Sorted, ReadOrder, Labels
  <2>2. CASE cx # 0
    <3>1. /\ pc = "copy" /\ pc' = "copy"
          /\ KB_BUFFER' = [KB_BUFFER EXCEPT ![di] = KB_BUFFER[di + 1]]
          /\ di' = di + 1 /\ cx' = cx - 1
          /\ UNCHANGED << KB_BUFFLEN, temp, last, typed >>
      BY <1>5, <2>2 DEF Copy, At
    <3>2. di + cx < KB_BUFFLEN /\ di + 1 \in Slots /\ cx >= 1
      BY <1>1, <2>2, <3>1 DEF CopyFits
    <3>3. /\ KB_BUFFER' \in [Slots -> 0 .. Len(typed)]
          /\ \A s \in Slots : KB_BUFFER'[s] = IF s = di THEN KB_BUFFER[di + 1]
                                                        ELSE KB_BUFFER[s]
      BY <1>1, <3>1, <3>2
    <3>4. TypeOK'
      BY <1>1, <1>5, <3>1, <3>2, <3>3 DEF Copy, TypeOK
    <3>5. CopyFits'
      BY <1>1, <3>1, <3>2 DEF CopyFits
    <3>6. Sorted'
      <4> SUFFICES ASSUME NEW i \in 0 .. KB_BUFFLEN, NEW j \in 0 .. KB_BUFFLEN,
                          i <= j
                   PROVE  KB_BUFFER'[i] <= KB_BUFFER'[j]
        BY <3>1 DEF Sorted
      <4>1. i \in Slots /\ j \in Slots /\ di + 1 \in 0 .. KB_BUFFLEN
        BY <1>1, <3>2
      <4>2. \A k \in 0 .. KB_BUFFLEN : KB_BUFFER[k] \in Nat
        BY <1>1
      <4>3. \A a, b \in 0 .. KB_BUFFLEN : a <= b => KB_BUFFER[a] <= KB_BUFFER[b]
        BY <1>1 DEF Sorted
      <4>4. CASE i = di /\ j = di
        BY <3>3, <4>1, <4>2, <4>4
      <4>5. CASE i = di /\ j # di
        <5>1. KB_BUFFER'[i] = KB_BUFFER[di + 1] /\ KB_BUFFER'[j] = KB_BUFFER[j]
          BY <3>3, <4>1, <4>5
        <5>2. di + 1 <= j
          BY <1>1, <3>2, <4>5
        <5>3. KB_BUFFER[di + 1] <= KB_BUFFER[j]
          BY <4>1, <4>3, <5>2
        <5> QED BY <5>1, <5>3
      <4>6. CASE i # di /\ j = di
        <5>1. KB_BUFFER'[i] = KB_BUFFER[i] /\ KB_BUFFER'[j] = KB_BUFFER[di + 1]
          BY <3>3, <4>1, <4>6
        <5>2. i <= di + 1
          BY <1>1, <3>2, <4>6
        <5>3. KB_BUFFER[i] <= KB_BUFFER[di + 1]
          BY <4>1, <4>3, <5>2
        <5> QED BY <5>1, <5>3
      <4>7. CASE i # di /\ j # di
        BY <3>3, <4>1, <4>3, <4>7
      <4> QED  BY <4>4, <4>5, <4>6, <4>7
    <3>7. ReadOrder'
      <4>1. KB_BUFFER[0] <= KB_BUFFER'[0]
        <5>1. KB_BUFFER[0] <= KB_BUFFER[1]
          BY <1>1, <3>2 DEF Sorted
        <5> QED  BY <1>1, <3>3, <5>1
      <4>2. KB_BUFFER[0] \in Nat /\ KB_BUFFER'[0] \in Nat
        BY <1>1, <3>3
      <4> QED  BY <1>1, <3>1, <4>1, <4>2 DEF ReadOrder
    <3> QED  BY <3>4, <3>5, <3>6, <3>7 DEF Inv
  <2> QED  BY <2>1, <2>2
<1>6. CASE Dec
  BY <1>1, <1>6 DEF Dec, At, Inv, TypeOK, CopyFits, Sorted, ReadOrder, Labels
<1>7. CASE Compare
  BY <1>1, <1>7
  DEF Compare, Return, At, Inv, TypeOK, CopyFits, Sorted, ReadOrder, Labels
<1>8. CASE Clear
  BY <1>1, <1>8
  DEF Clear, Return, At, Inv, TypeOK, CopyFits, Sorted, ReadOrder, Labels
<1>9. CASE Halt
  BY <1>1, <1>9 DEF Halt, At, Inv, TypeOK, CopyFits, Sorted, ReadOrder, Labels
<1> QED  BY <1>2, <1>3, <1>4, <1>5, <1>6, <1>7, <1>8, <1>9 DEF KB_read

LEMMA StutterInv ==
  ASSUME Inv, UNCHANGED vars
  PROVE  Inv'
BY DEF Inv, TypeOK, CopyFits, Sorted, ReadOrder, vars, shared, device, local

LEMMA NextInv ==
  ASSUME Inv, [Next]_vars
  PROVE  Inv'
<1>1. CASE KB_handle
  BY <1>1, HandlerLemma, HandlerInv DEF Inv
<1>2. CASE KB_read \/ Halt
  BY <1>2, ReaderInv
<1>3. CASE UNCHANGED vars
  BY <1>3, StutterInv
<1> QED  BY <1>1, <1>2, <1>3 DEF Next

THEOREM Invariance == Spec => []Inv
<1>1. Init => Inv
  BY InitInv
<1>2. Inv /\ [Next]_vars => Inv'
  BY NextInv
<1> QED  BY <1>1, <1>2, PTL DEF Spec

(* Type correctness, for every buffer size, keyboard and console. *)
THEOREM TypeCorrect == Spec => []TypeOK
<1>1. Inv => TypeOK
  BY DEF Inv
<1> QED  BY <1>1, Invariance, PTL

(* The buffer is sorted at every instruction, so that nothing the reader   *)
(* and the handler do to each other reorders what was typed.               *)
THEOREM BufferSorted == Spec => []Sorted
<1>1. Inv => Sorted
  BY DEF Inv
<1> QED  BY <1>1, Invariance, PTL

-----------------------------------------------------------------------------
(* The reader gets an ordered stream of what was typed: Keyboard implements*)
(* KeyStream.                                                              *)
THEOREM Implementation == Spec => ReadsInOrder
<1>1. Init => Stream!Init
  BY DEF Init, Stream!Init
<1>2. ASSUME Inv, [Next]_vars
      PROVE  [Stream!Next]_<< typed, last >>
  <2>1. CASE KB_handle
    <3>1. HandlerEffect
      BY <1>2, <2>1, HandlerLemma DEF Inv
    <3> QED  BY <3>1 DEF HandlerEffect, Stream!Next, Stream!Type
  <2>2. CASE Compare \/ Clear
    <3>1. /\ UNCHANGED typed
          /\ last' \in {last, temp}
          /\ pc \in {"cmp", "clear"}
      BY <2>2 DEF Compare, Clear, Return, At, device
    <3>2. /\ last \in 0 .. Len(typed) /\ temp \in 0 .. Len(typed)
          /\ last <= temp /\ Len(typed) \in Nat
      BY <1>2, <3>1 DEF Inv, TypeOK, ReadOrder
    <3>3. last' \in last .. Len(typed)
      BY <3>1, <3>2
    <3> QED  BY <3>1, <3>3 DEF Stream!Next, Stream!Read
  <2>3. CASE Enter \/ Load \/ Count \/ Copy \/ Dec \/ Halt
    <3>1. UNCHANGED << typed, last >>
      BY <2>3 DEF Enter, Load, Count, Copy, Dec, Halt, device
    <3> QED  BY <3>1
  <2>4. CASE UNCHANGED vars
    BY <2>4 DEF vars, device, local
  <2> QED  BY <1>2, <2>1, <2>2, <2>3, <2>4 DEF Next, KB_read
<1> QED  BY <1>1, <1>2, Invariance, PTL DEF Spec, ReadsInOrder, Stream!Spec

-----------------------------------------------------------------------------
(* key_waiting is a promise that the buffer is not empty, except while the *)
(* reader that emptied it has not withdrawn it, and except that a          *)
(* backspace gives it for nothing, until another key is in the buffer.     *)
KeyInv == Inv /\ WaitingHasKey /\ ReadHasKey /\ NoUnderrun

LEMMA NextKeyInv ==
  ASSUME KeyInv, [Next]_vars
  PROVE  KeyInv'
<1> USE KeyboardAssumption DEF shared, device
<1>0. Inv /\ Inv'
  BY NextInv DEF KeyInv
<1>13. TypeOK /\ CopyFits /\ KB_BUFFLEN \in Nat
  <2>1. Inv
    BY <1>0
  <2> QED  BY <2>1 DEF Inv, TypeOK, Slots
<1>1. Inv /\ Inv' /\ TypeOK /\ KB_BUFFLEN \in Nat /\ CopyFits
  BY <1>0, <1>13
<1>2. WaitingHasKey /\ ReadHasKey /\ NoUnderrun
  BY DEF KeyInv
<1>3. CASE KB_handle
  <2>1. HandlerEffect /\ typed \in Seq(0 .. 255) /\ KB_BUFFLEN \in Slots
    BY <1>1, <1>3, HandlerLemma DEF TypeOK
  <2>2. /\ pc' = pc \/ (pc' = "main" /\ pc = "hlt")
        /\ fault' # "underrun"
    BY <2>1, Zenon DEF HandlerEffect
  <2>3. KB_BUFFLEN' > 0 \/ Erasing'
    <3>1. CASE typed' = Append(typed, BS)
      BY <2>1, <3>1 DEF Erasing, BS
    <3>2. CASE KB_BUFFLEN + 1 \notin Slots
      BY <1>1, <2>1, <3>2 DEF HandlerEffect, Slots
    <3>3. CASE KB_BUFFLEN' = KB_BUFFLEN + 1
      BY <1>1, <3>3
    <3> QED  BY <2>1, <3>1, <3>2, <3>3 DEF HandlerEffect
  <2>4. WaitingHasKey' /\ ReadHasKey' /\ NoUnderrun'
    BY <2>2, <2>3 DEF WaitingHasKey, ReadHasKey, NoUnderrun
  <2> QED  BY <1>1, <2>4 DEF KeyInv
<1>4. CASE Enter
  BY <1>1, <1>2, <1>4
  DEF Enter, At, KeyInv, WaitingHasKey, ReadHasKey, NoUnderrun, Erasing
<1>5. CASE Load
  BY <1>1, <1>2, <1>5
  DEF Load, At, KeyInv, WaitingHasKey, ReadHasKey, NoUnderrun, Erasing
<1>6. CASE Count
  BY <1>1, <1>2, <1>6
  DEF Count, At, KeyInv, WaitingHasKey, ReadHasKey, NoUnderrun, Erasing
<1>7. CASE Copy
  BY <1>1, <1>2, <1>7
  DEF Copy, At, KeyInv, WaitingHasKey, ReadHasKey, NoUnderrun, Erasing
<1>8. CASE Dec
  BY <1>1, <1>2, <1>8
  DEF Dec, At, KeyInv, WaitingHasKey, ReadHasKey, NoUnderrun, Erasing, CopyFits
<1>9. CASE Compare
  BY <1>1, <1>2, <1>9
  DEF Compare, Return, At, KeyInv, WaitingHasKey, ReadHasKey, NoUnderrun, Erasing
<1>10. CASE Clear
  BY <1>1, <1>2, <1>10
  DEF Clear, Return, At, KeyInv, WaitingHasKey, ReadHasKey, NoUnderrun, Erasing
<1>11. CASE Halt
  BY <1>1, <1>2, <1>11
  DEF Halt, At, KeyInv, WaitingHasKey, ReadHasKey, NoUnderrun, Erasing
<1>12. CASE UNCHANGED vars
  BY <1>1, <1>2, <1>12
  DEF vars, local, KeyInv, WaitingHasKey, ReadHasKey, NoUnderrun, Erasing
<1> QED  BY <1>3, <1>4, <1>5, <1>6, <1>7, <1>8, <1>9, <1>10, <1>11, <1>12
         DEF Next, KB_read

(* KB_read() copies from an empty buffer only if the last key was a        *)
(* backspace, however the handler interrupts it, whatever is typed.        *)
THEOREM NeverUnderruns == Spec => [](NoUnderrun /\ WaitingHasKey)
<1>1. Init => KeyInv
  BY InitInv DEF Init, KeyInv, WaitingHasKey, ReadHasKey, NoUnderrun
<1>2. KeyInv /\ [Next]_vars => KeyInv'
  BY NextKeyInv
<1>3. KeyInv => NoUnderrun /\ WaitingHasKey
  BY DEF KeyInv
<1> QED  BY <1>1, <1>2, <1>3, PTL DEF Spec

(* key_waiting, which alone lets KB_read() copy, means that there is a     *)
(* character, or that the last key took one off.                           *)
THEOREM WaitingMeansKey == Spec => []WaitingHasKey
BY NeverUnderruns, PTL
=============================================================================
