-------------------------- MODULE InterruptsProofs ---------------------------
(***************************************************************************)
(* Interrupts proved for every set of devices and of drivers.              *)
(*                                                                         *)
(* The argument: kmain() runs with IF down until its last instruction, so  *)
(* what has been set by then depends on the instruction reached alone      *)
(* (Starting).  From then on (Up) the controllers keep their vectors, and  *)
(* a line of the master is open only if its gate has a handler (Open).     *)
(***************************************************************************)
EXTENDS Interrupts, SequenceTheorems, TLAPS

(* kmain, its calls expanded. *)
Instructions ==
  << Command("master", 17), Command("slave", 17),
     Data("master", 32), Data("master", 4), Data("master", 1),
     Command("slave", 17),
     Data("slave", 40), Data("slave", 2), Data("slave", 1),
     Data("master", 255), Data("master", 255),
     [op |-> "clear"], [op |-> "registerAllExceptions"],
     Gate(32, "irq0_handler"), Gate(33, "IRQ1"), Call("enable", 33),
     [op |-> "sti"] >>

From(n) == [i \in 1 .. 18 - n |-> Instructions[n + i - 1]]

Handled == {"IRQ1", "driver"}

Controllers == [mask : SUBSET (0 .. 7), base : 0 .. 255, icw : 0 .. 4]

(* What the controllers and the gates are when instruction n is next. *)
MasterAt(n) ==
  /\ n \in {2, 3} => chip["master"].icw = 2
  /\ n \in {4, 5} => chip["master"].icw = n - 1
  /\ n >= 6 => chip["master"].icw = 0
  /\ n >= 4 => chip["master"].base = 32
  /\ n >= 11 => 0 .. 7 \ chip["master"].mask \subseteq {1}
  /\ n \in 11 .. 16 => chip["master"].mask = 0 .. 7

SlaveAt(n) ==
  /\ n \in 3 .. 7 => chip["slave"].icw = 2
  /\ n \in {8, 9} => chip["slave"].icw = n - 5
  /\ n >= 10 => chip["slave"].icw = 0
  /\ n >= 8 => chip["slave"].base = 40

Starting(n) ==
  /\ code = From(n)
  /\ ~IFlag /\ handler = "none" /\ ~stray
  /\ MasterAt(n) /\ SlaveAt(n)
  /\ n >= 16 => gates[33] = "IRQ1"

Calling ==
  \/ code \in {<< >>, disableAll}
  \/ \E line \in Drivers :
       \/ code = set(IRQ(line), "driver")
       \/ code = << Call("disable", IRQ(line)) >>
       \/ code = << Call("enable", IRQ(line)) >>
          /\ line \in 1 .. 14 /\ gates[IRQ(line)] \in Handled

Open ==
  /\ \A line \in 0 .. 7 \ chip["master"].mask : gates[IRQ(line)] \in Handled
  /\ 2 \notin Drivers => 2 \in chip["master"].mask
  /\ gates[33] \in Handled
  /\ 1 \notin Drivers => gates[33] = "IRQ1"

Up ==
  /\ Calling
  /\ chip["master"].base = 32 /\ chip["master"].icw = 0
  /\ chip["slave"].base = 40 /\ chip["slave"].icw = 0
  /\ Open
  /\ stray => 2 \in Drivers /\ \E line \in Devices : line >= 8

IInv ==
  /\ TypeOK
  /\ irr \subseteq Devices \cup {1}
  /\ (\E n \in 1 .. 17 : Starting(n)) \/ Up
  /\ 1 \notin Drivers => Heard

-----------------------------------------------------------------------------
(* What the main program has left to do. *)

LEMMA Expanded == kmain = Instructions
<1> DEFINE a == << Command("master", 17), Command("slave", 17),
                   Data("master", 32), Data("master", 4), Data("master", 1),
                   Command("slave", 17),
                   Data("slave", 40), Data("slave", 2), Data("slave", 1) >>
           b == << Data("master", 255) >>
           c == << [op |-> "clear"], [op |-> "registerAllExceptions"] >>
           d == << Gate(32, "irq0_handler") >> \o << >>
           e == << Gate(33, "IRQ1") >> \o << Call("enable", 33) >>
           f == << [op |-> "sti"] >>
           I == Instructions
<1>1. kmain = (((((a \o b) \o b) \o c) \o d) \o e) \o f
  BY DEF kmain, Idt, remap, disableAll, set, IRQ
<1>2. kmain = [i \in 1 .. 17 |-> kmain[i]]
  BY <1>1
<1>3. /\ kmain[1] = I[1] /\ kmain[2] = I[2] /\ kmain[3] = I[3]
      /\ kmain[4] = I[4] /\ kmain[5] = I[5] /\ kmain[6] = I[6]
      /\ kmain[7] = I[7] /\ kmain[8] = I[8] /\ kmain[9] = I[9]
      /\ kmain[10] = I[10] /\ kmain[11] = I[11] /\ kmain[12] = I[12]
      /\ kmain[13] = I[13] /\ kmain[14] = I[14] /\ kmain[15] = I[15]
      /\ kmain[16] = I[16] /\ kmain[17] = I[17]
  BY <1>1 DEF Instructions
<1>4. I = [i \in 1 .. 17 |-> I[i]]
  BY DEF Instructions
<1> HIDE DEF a, b, c, d, e, f, I
<1>5. \A i \in 1 .. 17 : kmain[i] = I[i]
  BY <1>3
<1> QED
  BY <1>2, <1>4, <1>5 DEF I

LEMMA Next17 ==
  ASSUME NEW n \in 1 .. 17
  PROVE  /\ From(n) # << >>
         /\ Head(From(n)) = Instructions[n]
         /\ Tail(From(n)) = From(n + 1)
         /\ From(18) = << >>
<1>1. From(n) \in Seq({Instructions[i] : i \in 1 .. 17})
      /\ From(n + 1) \in Seq({Instructions[i] : i \in 1 .. 17})
      /\ From(18) \in Seq({Instructions[i] : i \in 1 .. 17})
  BY DEF From
<1>2. Len(From(n)) = 18 - n /\ From(n)[1] = Instructions[n]
      /\ Len(From(n + 1)) = 17 - n /\ Len(From(18)) = 0
  <2>1. Len(From(n)) = 18 - n
    BY DEF From
  <2>2. From(n)[1] = Instructions[n]
    BY DEF From
  <2>3. Len(From(n + 1)) = 17 - n
    BY DEF From
  <2>4. Len(From(18)) = 0
    BY DEF From
  <2> QED  BY <2>1, <2>2, <2>3, <2>4
<1>3. \A i \in 1 .. 17 - n : Tail(From(n))[i] = From(n + 1)[i]
  <2> TAKE i \in 1 .. 17 - n
  <2>1. Tail(From(n))[i] = From(n)[i + 1]
    BY <1>1, <1>2
  <2>2. From(n)[i + 1] = Instructions[n + (i + 1) - 1]
    BY DEF From
  <2>3. From(n + 1)[i] = Instructions[(n + 1) + i - 1]
    BY DEF From
  <2>4. n + (i + 1) - 1 = (n + 1) + i - 1
    OBVIOUS
  <2> QED  BY <2>1, <2>2, <2>3, <2>4
<1>4. /\ Tail(From(n)) \in Seq({Instructions[i] : i \in 1 .. 17})
      /\ Len(Tail(From(n))) = 17 - n
  BY <1>1, <1>2
<1>5. Tail(From(n)) = From(n + 1)
  BY <1>1, <1>2, <1>3, <1>4, SeqEqual
<1> QED
  BY <1>1, <1>2, <1>5

LEMMA AllLines == Bits(255) = 0 .. 7
<1> DEFINE P(b) == (255 \div 2^b) % 2 = 1
<1>1. P(0) /\ P(1) /\ P(2) /\ P(3) /\ P(4) /\ P(5) /\ P(6) /\ P(7)
  OBVIOUS
<1>2. \A b \in 0 .. 7 :
        \/ b = 0 \/ b = 1 \/ b = 2 \/ b = 3 \/ b = 4 \/ b = 5 \/ b = 6 \/ b = 7
  OBVIOUS
<1>3. \A b \in 0 .. 7 : P(b)
  <2> HIDE DEF P
  <2> QED  BY <1>1, <1>2, Zenon
<1> QED  BY <1>3 DEF Bits

LEMMA Pair ==
  ASSUME NEW a, NEW b
  PROVE  Head(<< a >> \o << b >>) = a /\ Tail(<< a >> \o << b >>) = << b >>
<1> DEFINE t == Tail(<< a >> \o << b >>)
<1>1. /\ << a >> \o << b >> \in Seq({a, b}) /\ Len(<< a >> \o << b >>) = 2
      /\ (<< a >> \o << b >>)[1] = a /\ (<< a >> \o << b >>)[2] = b
  OBVIOUS
<1>2. /\ t \in Seq({a, b}) /\ << b >> \in Seq({a, b})
      /\ Len(t) = 1 /\ Len(<< b >>) = 1 /\ t[1] = b /\ << b >>[1] = b
  BY <1>1
<1>3. t = << b >>
  <2> HIDE DEF t
  <2> QED  BY <1>2, SeqEqual
<1> QED  BY <1>1, <1>3

LEMMA CallingHead ==
  ASSUME Calling, code # << >>
  PROVE  \/ Head(code) = Data("master", 255) /\ Tail(code) = << >>
         \/ \E line \in Drivers :
              \/ /\ Head(code) = Gate(IRQ(line), "driver")
                 /\ \/ Tail(code) = << >>
                    \/ /\ line \in 1 .. 14
                       /\ Tail(code) = << Call("enable", IRQ(line)) >>
              \/ /\ Head(code) = Call("disable", IRQ(line))
                 /\ Tail(code) = << >>
              \/ /\ Head(code) = Call("enable", IRQ(line))
                 /\ line \in 1 .. 14 /\ gates[IRQ(line)] \in Handled
                 /\ Tail(code) = << >>
<1>1. CASE code = disableAll
  BY <1>1 DEF disableAll
<1>2. ASSUME NEW line \in Drivers, code = set(IRQ(line), "driver")
      PROVE  /\ Head(code) = Gate(IRQ(line), "driver")
             /\ \/ Tail(code) = << >>
                \/ /\ line \in 1 .. 14
                   /\ Tail(code) = << Call("enable", IRQ(line)) >>
  <2>1. CASE IRQ(line) > IRQ(0) /\ IRQ(line) < IRQ(15)
    <3>1. line \in 1 .. 14
      BY <2>1, InterruptsAssumption DEF IRQ
    <3>2. code = << Gate(IRQ(line), "driver") >>
                 \o << Call("enable", IRQ(line)) >>
      BY <1>2, <2>1 DEF set
    <3> QED  BY <3>1, <3>2, Pair
  <2>2. CASE ~(IRQ(line) > IRQ(0) /\ IRQ(line) < IRQ(15))
    <3>1. code = << Gate(IRQ(line), "driver") >> \o << >>
      BY <1>2, <2>2 DEF set
    <3> QED  BY <3>1
  <2> QED  BY <2>1, <2>2
<1>3. ASSUME NEW c, code = << c >>
      PROVE  Head(code) = c /\ Tail(code) = << >>
  BY <1>3
<1> QED  BY <1>1, <1>2, <1>3 DEF Calling

-----------------------------------------------------------------------------
(* An instruction has operands, and keeps the state in its type. *)

Sound(x) ==
  /\ x.op \in {"command", "data"} => x.chip \in Chips /\ x.byte \in 0 .. 255
  /\ x.op = "gate" =>
       x.vector \in Vectors /\ x.isr \in {"irq0_handler", "IRQ1", "driver"}
  /\ x.op \in {"enable", "disable"} => x.vector \in 32 .. 47

LEMMA KernelSound == \A n \in 1 .. 17 : Sound(Instructions[n])
<1>1. /\ \A c \in Chips, b \in 0 .. 255 : Sound(Command(c, b)) /\ Sound(Data(c, b))
      /\ \A v \in Vectors : \A h \in {"irq0_handler", "IRQ1"} : Sound(Gate(v, h))
      /\ \A v \in 32 .. 47 : Sound(Call("enable", v))
      /\ Sound([op |-> "clear"]) /\ Sound([op |-> "registerAllExceptions"])
      /\ Sound([op |-> "sti"])
  BY DEF Sound, Command, Data, Gate, Call
<1>2. "master" \in Chips /\ "slave" \in Chips /\ 32 \in Vectors /\ 33 \in Vectors
  BY DEF Chips, Vectors
<1> DEFINE P(n) == Sound(Instructions[n])
<1>3. /\ P(1) /\ P(2) /\ P(3) /\ P(4) /\ P(5) /\ P(6) /\ P(7) /\ P(8) /\ P(9)
      /\ P(10) /\ P(11) /\ P(12) /\ P(13) /\ P(14) /\ P(15) /\ P(16) /\ P(17)
  BY <1>1, <1>2 DEF Instructions
<1> QED  BY <1>3

LEMMA DriverSound ==
  ASSUME Calling, code # << >>
  PROVE  Sound(Head(code))
<1>1. 255 \in 0 .. 255 /\ "master" \in Chips
  BY DEF Chips
<1>2. \A line \in Drivers : IRQ(line) \in 32 .. 47 /\ IRQ(line) \in Vectors
  BY InterruptsAssumption DEF IRQ, Vectors
<1>3. /\ Sound(Data("master", 255))
      /\ \A v \in Vectors : Sound(Gate(v, "driver"))
      /\ \A v \in 32 .. 47 : Sound(Call("enable", v)) /\ Sound(Call("disable", v))
  BY <1>1 DEF Sound, Data, Gate, Call
<1> QED
  BY <1>2, <1>3, CallingHead

LEMMA Small ==
  {} \in SUBSET (0 .. 7) /\ 0 \in 0 .. 4 /\ 2 \in 0 .. 4 /\ 3 \in 0 .. 4 /\ 4 \in 0 .. 4
OBVIOUS

LEMMA UpdateMask ==
  ASSUME NEW k \in Controllers, NEW m \in SUBSET (0 .. 7)
  PROVE  [k EXCEPT !.mask = m] \in Controllers
BY DEF Controllers

LEMMA UpdateICW ==
  ASSUME NEW k \in Controllers, NEW i \in 0 .. 4
  PROVE  [k EXCEPT !.icw = i] \in Controllers
BY DEF Controllers

LEMMA UpdateBase ==
  ASSUME NEW k \in Controllers, NEW b \in 0 .. 255
  PROVE  [k EXCEPT !.base = b] \in Controllers
BY DEF Controllers

LEMMA ResetType ==
  ASSUME TypeOK, NEW c \in Chips, Reset(c)
  PROVE  /\ chip' \in [Chips -> Controllers]
         /\ irr' \subseteq irr /\ isr' \subseteq isr /\ early' \in BOOLEAN
         /\ chip'[c].icw = 2 /\ chip'[c].mask = {} /\ chip'[c].base = chip[c].base
         /\ \A d \in Chips : d # c => chip'[d] = chip[d]
<1>1. chip[c] \in Controllers /\ chip \in [Chips -> Controllers]
  BY DEF TypeOK, Controllers
<1>2. chip' = [chip EXCEPT ![c] = [chip[c] EXCEPT !.mask = {}, !.icw = 2]]
  BY DEF Reset
<1>3. [chip[c] EXCEPT !.mask = {}, !.icw = 2] \in Controllers
  <2>1. [chip[c] EXCEPT !.mask = {}] \in Controllers
    BY <1>1, UpdateMask, Small, Zenon
  <2>2. [[chip[c] EXCEPT !.mask = {}] EXCEPT !.icw = 2] \in Controllers
    BY <2>1, UpdateICW, Small, Zenon
  <2> QED  BY <2>2
<1>4. chip'[c] = [chip[c] EXCEPT !.mask = {}, !.icw = 2]
  BY <1>1, <1>2
<1>5. irr' \subseteq irr /\ isr' \subseteq isr /\ early' \in BOOLEAN
  BY DEF TypeOK, Reset
<1> QED  BY <1>1, <1>2, <1>3, <1>4, <1>5 DEF Controllers

LEMMA ReceivedType ==
  ASSUME TypeOK, NEW c \in Chips, NEW byte \in 0 .. 255,
         chip' = Received(c, byte)
  PROVE  /\ chip' \in [Chips -> Controllers]
         /\ \A d \in Chips : d # c => chip'[d] = chip[d]
         /\ chip[c].icw = 2 => chip'[c].base = byte /\ chip'[c].icw = 3
         /\ chip[c].icw = 3 => chip'[c].base = chip[c].base /\ chip'[c].icw = 4
         /\ chip[c].icw = 4 => chip'[c].base = chip[c].base /\ chip'[c].icw = 0
         /\ chip[c].icw = 0 => /\ chip'[c].base = chip[c].base /\ chip'[c].icw = 0
                               /\ chip'[c].mask = Bits(byte)
<1>1. chip[c] \in Controllers /\ chip \in [Chips -> Controllers]
  BY DEF TypeOK, Controllers
<1>2. Bits(byte) \subseteq 0 .. 7
  BY DEF Bits
<1> DEFINE r == Takes(chip[c], byte)
<1>3. chip' = [chip EXCEPT ![c] = r]
  BY DEF Received
<1>4. r \in Controllers
  <2>1. [[chip[c] EXCEPT !.base = byte] EXCEPT !.icw = 3] \in Controllers
    BY <1>1, UpdateBase, UpdateICW, Small, Zenon
  <2>2. /\ [chip[c] EXCEPT !.icw = 4] \in Controllers
        /\ [chip[c] EXCEPT !.icw = 0] \in Controllers
    BY <1>1, UpdateICW, Small, Zenon
  <2>3. [chip[c] EXCEPT !.mask = Bits(byte)] \in Controllers
    BY <1>1, <1>2, UpdateMask
  <2> QED  BY <2>1, <2>2, <2>3 DEF Takes
<1>5. chip'[c] = r
  BY <1>1, <1>3
<1>6. chip' \in [Chips -> Controllers] /\ \A d \in Chips : d # c => chip'[d] = chip[d]
  <2> HIDE DEF r
  <2> QED  BY <1>1, <1>3, <1>4
<1> QED  BY <1>1, <1>5, <1>6 DEF Controllers, Takes

LEMMA ChipType == TypeOK => chip \in [Chips -> Controllers]
BY DEF TypeOK, Controllers

LEMMA ExecuteType ==
  ASSUME TypeOK, Sound(Head(code)), Execute
  PROVE  /\ TypeOK' /\ irr' \subseteq irr
         /\ UNCHANGED << handler, stray, full >>
         /\ code # << >> /\ code' = Tail(code)
<1> DEFINE x == Head(code)
<1>1. CASE SendCommand
  <2>1. x.chip \in Chips /\ Reset(x.chip)
    BY <1>1 DEF SendCommand, Doing, Sound
  <2> QED
    BY <1>1, <2>1, ResetType DEF SendCommand, Doing, Main, TypeOK, Controllers
<1>2. CASE SendData
  <2>1. x.chip \in Chips /\ x.byte \in 0 .. 255 /\ chip' = Received(x.chip, x.byte)
    BY <1>2 DEF SendData, Doing, Sound
  <2> QED
    BY <1>2, <2>1, ReceivedType DEF SendData, Doing, Main, TypeOK, Controllers, hardware
<1>3. CASE enable
  <2> DEFINE c == ChipFor(x.vector)
             k == [chip[c] EXCEPT !.mask = @ \ Bit(x.vector)]
  <2>1. c \in Chips /\ chip' = [chip EXCEPT ![c] = k]
    BY <1>3 DEF enable, ChipFor, Chips
  <2>2. k \in Controllers
    <3>1. chip[c] \in Controllers
      BY <2>1, ChipType
    <3>2. chip[c].mask \ Bit(x.vector) \in SUBSET (0 .. 7)
      BY <3>1 DEF Controllers
    <3> HIDE DEF c
    <3> QED  BY <3>1, <3>2, UpdateMask, Zenon
  <2>3. chip' \in [Chips -> Controllers]
    <3> HIDE DEF c, k
    <3> QED  BY <2>1, <2>2, ChipType
  <2> QED
    BY <1>3, <2>3 DEF enable, Doing, Main, TypeOK, Controllers, hardware
<1>4. CASE disable
  <2> DEFINE c == ChipFor(x.vector)
             k == [chip[c] EXCEPT !.mask = @ \cup (0 .. 7 \ Bit(x.vector))]
  <2>1. c \in Chips /\ chip' = [chip EXCEPT ![c] = k]
    BY <1>4 DEF disable, ChipFor, Chips
  <2>2. k \in Controllers
    <3>1. chip[c] \in Controllers
      BY <2>1, ChipType
    <3>2. chip[c].mask \cup (0 .. 7 \ Bit(x.vector)) \in SUBSET (0 .. 7)
      BY <3>1 DEF Controllers
    <3> HIDE DEF c
    <3> QED  BY <3>1, <3>2, UpdateMask, Zenon
  <2>3. chip' \in [Chips -> Controllers]
    <3> HIDE DEF c, k
    <3> QED  BY <2>1, <2>2, ChipType
  <2> QED
    BY <1>4, <2>3 DEF disable, Doing, Main, TypeOK, Controllers, hardware
<1>5. CASE clear
  BY <1>5 DEF clear, Doing, Main, TypeOK, hardware
<1>6. CASE registerAllExceptions
  BY <1>6 DEF registerAllExceptions, Doing, Main, TypeOK, hardware
<1>7. CASE SetGate
  <2>1. x.vector \in Vectors /\ x.isr \in {"irq0_handler", "IRQ1", "driver"}
    BY <1>7 DEF SetGate, Doing, Sound
  <2> QED
    BY <1>7, <2>1 DEF SetGate, Doing, Main, TypeOK, hardware
<1>8. CASE sti
  BY <1>8 DEF sti, Doing, Main, TypeOK, hardware
<1> QED
  BY <1>1, <1>2, <1>3, <1>4, <1>5, <1>6, <1>7, <1>8 DEF Execute

-----------------------------------------------------------------------------
(* The boot, an instruction at a time. *)

LEMMA Dispatch ==
  ASSUME Execute
  PROVE  LET op == Head(code).op
         IN  /\ op = "command" => SendCommand
             /\ op = "data" => SendData
             /\ op = "gate" => SetGate
             /\ op = "enable" => enable
             /\ op = "disable" => disable
             /\ op = "clear" => clear
             /\ op = "registerAllExceptions" => registerAllExceptions
             /\ op = "sti" => sti
BY DEF Execute, SendCommand, SendData, enable, disable, clear, registerAllExceptions,
       SetGate, sti, Doing

LEMMA OfController ==
  ASSUME Execute, NEW c \in Chips, NEW b \in 0 .. 255
  PROVE  /\ Head(code) = Command(c, b) =>
              Reset(c) /\ UNCHANGED << gates, IFlag >>
         /\ Head(code) = Data(c, b) =>
              chip' = Received(c, b) /\ UNCHANGED << gates, IFlag, irr, full, early >>
<1>1. CASE Head(code) = Command(c, b)
  <2>1. Head(code).op = "command" /\ Head(code).chip = c /\ Head(code).op # "data"
    BY <1>1 DEF Command
  <2> QED  BY <1>1, <2>1, Dispatch DEF SendCommand, Command, Data
<1>2. CASE Head(code) = Data(c, b)
  <2>1. /\ Head(code).op = "data" /\ Head(code).chip = c /\ Head(code).byte = b
        /\ Head(code).op # "command"
    BY <1>2 DEF Data
  <2> QED  BY <1>2, <2>1, Dispatch DEF SendData, Command, Data, hardware
<1> QED  BY <1>1, <1>2

LEMMA OfGate ==
  ASSUME Execute, NEW v, NEW h, Head(code) = Gate(v, h)
  PROVE  /\ gates' = [gates EXCEPT ![v] = h]
         /\ UNCHANGED << chip, IFlag, irr, full, early >>
BY Dispatch DEF SetGate, Gate, hardware

LEMMA OfMask ==
  ASSUME TypeOK, Execute, NEW v, ChipFor(v) \in Chips,
         Head(code) \in {Call("enable", v), Call("disable", v)}
  PROVE  /\ chip' = [chip EXCEPT ![ChipFor(v)].mask =
                       IF Head(code) = Call("enable", v)
                         THEN @ \ Bit(v) ELSE @ \cup (0 .. 7 \ Bit(v))]
         /\ UNCHANGED << gates, IFlag, irr, full, early >>
BY Dispatch DEF enable, disable, Call, hardware

LEMMA StartStep ==
  ASSUME TypeOK, NEW n \in 1 .. 17, Starting(n), Execute
  PROVE  IF n = 17 THEN Up' ELSE Starting(n + 1)'
<1>1. /\ Head(code) = Instructions[n] /\ code' = From(n + 1)
      /\ UNCHANGED << handler, stray >> /\ stray' = FALSE
  BY Next17, KernelSound, ExecuteType DEF Starting, TypeOK
<1>2. chip \in [Chips -> Controllers] /\ "master" \in Chips /\ "slave" \in Chips
  BY ChipType DEF Chips
<1>3. CASE n = 1
  <2>1. Instructions[n] = Command("master", 17)
    BY <1>3 DEF Instructions
  <2>2. Reset("master") /\ UNCHANGED << gates, IFlag >>
    BY <1>1, <1>2, <2>1, OfController
  <2>3. chip'["master"].icw = 2
    BY <1>2, <2>2, ResetType
  <2> QED  BY <1>1, <1>3, <2>2, <2>3 DEF Starting, MasterAt, SlaveAt
<1>4. CASE n \in {2, 6}
  <2>1. Instructions[n] = Command("slave", 17)
    BY <1>4 DEF Instructions
  <2>2. Reset("slave") /\ UNCHANGED << gates, IFlag >>
    BY <1>1, <1>2, <2>1, OfController
  <2>3. chip'["slave"].icw = 2 /\ chip'["master"] = chip["master"]
    BY <1>2, <2>2, ResetType
  <2> QED  BY <1>1, <1>4, <2>2, <2>3 DEF Starting, MasterAt, SlaveAt
<1>5. CASE n = 3
  <2>1. Instructions[n] = Data("master", 32) /\ 32 \in 0 .. 255
    BY <1>5 DEF Instructions
  <2>2. chip' = Received("master", 32) /\ UNCHANGED << gates, IFlag >>
    BY <1>1, <1>2, <2>1, OfController
  <2>3. chip["master"].icw = 2
    BY <1>5 DEF Starting, MasterAt
  <2>4. /\ chip'["master"].icw = 3 /\ chip'["master"].base = 32
        /\ chip'["slave"] = chip["slave"]
    BY <1>2, <2>1, <2>2, <2>3, ReceivedType
  <2> QED  BY <1>1, <1>5, <2>2, <2>4 DEF Starting, MasterAt, SlaveAt
<1>6. CASE n = 4
  <2>1. Instructions[n] = Data("master", 4) /\ 4 \in 0 .. 255
    BY <1>6 DEF Instructions
  <2>2. chip' = Received("master", 4) /\ UNCHANGED << gates, IFlag >>
    BY <1>1, <1>2, <2>1, OfController
  <2>3. chip["master"].icw = 3
    BY <1>6 DEF Starting, MasterAt, SlaveAt
  <2>4. /\ chip'["master"].icw = 4 /\ chip'["master"].base = chip["master"].base
        /\ chip'["slave"] = chip["slave"]
    BY <1>2, <2>1, <2>2, <2>3, ReceivedType
  <2> QED  BY <1>1, <1>6, <2>2, <2>4 DEF Starting, MasterAt, SlaveAt
<1>7. CASE n = 5
  <2>1. Instructions[n] = Data("master", 1) /\ 1 \in 0 .. 255
    BY <1>7 DEF Instructions
  <2>2. chip' = Received("master", 1) /\ UNCHANGED << gates, IFlag >>
    BY <1>1, <1>2, <2>1, OfController
  <2>3. chip["master"].icw = 4
    BY <1>7 DEF Starting, MasterAt, SlaveAt
  <2>4. /\ chip'["master"].icw = 0 /\ chip'["master"].base = chip["master"].base
        /\ chip'["slave"] = chip["slave"]
    BY <1>2, <2>1, <2>2, <2>3, ReceivedType
  <2> QED  BY <1>1, <1>7, <2>2, <2>4 DEF Starting, MasterAt, SlaveAt
<1>8. CASE n = 7
  <2>1. Instructions[n] = Data("slave", 40) /\ 40 \in 0 .. 255
    BY <1>8 DEF Instructions
  <2>2. chip' = Received("slave", 40) /\ UNCHANGED << gates, IFlag >>
    BY <1>1, <1>2, <2>1, OfController
  <2>3. chip["slave"].icw = 2
    BY <1>8 DEF Starting, MasterAt, SlaveAt
  <2>4. /\ chip'["slave"].icw = 3 /\ chip'["slave"].base = 40
        /\ chip'["master"] = chip["master"]
    BY <1>2, <2>1, <2>2, <2>3, ReceivedType
  <2> QED  BY <1>1, <1>8, <2>2, <2>4 DEF Starting, MasterAt, SlaveAt
<1>9. CASE n = 8
  <2>1. Instructions[n] = Data("slave", 2) /\ 2 \in 0 .. 255
    BY <1>9 DEF Instructions
  <2>2. chip' = Received("slave", 2) /\ UNCHANGED << gates, IFlag >>
    BY <1>1, <1>2, <2>1, OfController
  <2>3. chip["slave"].icw = 3
    BY <1>9 DEF Starting, MasterAt, SlaveAt
  <2>4. /\ chip'["slave"].icw = 4 /\ chip'["slave"].base = chip["slave"].base
        /\ chip'["master"] = chip["master"]
    BY <1>2, <2>1, <2>2, <2>3, ReceivedType
  <2> QED  BY <1>1, <1>9, <2>2, <2>4 DEF Starting, MasterAt, SlaveAt
<1>10. CASE n = 9
  <2>1. Instructions[n] = Data("slave", 1) /\ 1 \in 0 .. 255
    BY <1>10 DEF Instructions
  <2>2. chip' = Received("slave", 1) /\ UNCHANGED << gates, IFlag >>
    BY <1>1, <1>2, <2>1, OfController
  <2>3. chip["slave"].icw = 4
    BY <1>10 DEF Starting, MasterAt, SlaveAt
  <2>4. /\ chip'["slave"].icw = 0 /\ chip'["slave"].base = chip["slave"].base
        /\ chip'["master"] = chip["master"]
    BY <1>2, <2>1, <2>2, <2>3, ReceivedType
  <2> QED  BY <1>1, <1>10, <2>2, <2>4 DEF Starting, MasterAt, SlaveAt
<1>11. CASE n \in {10, 11}
  <2> DEFINE all == 255
  <2>1. Instructions[n] = Data("master", all) /\ all \in 0 .. 255
    BY <1>11 DEF Instructions
  <2>2. Bits(all) = 0 .. 7
    BY AllLines
  <2> HIDE DEF all
  <2>3. chip' = Received("master", all) /\ UNCHANGED << gates, IFlag >>
    BY <1>1, <1>2, <2>1, OfController
  <2>4. chip["master"].icw = 0
    BY <1>11 DEF Starting, MasterAt, SlaveAt
  <2>5. /\ chip'["master"].icw = 0 /\ chip'["master"].base = chip["master"].base
        /\ chip'["master"].mask = 0 .. 7
        /\ chip'["slave"] = chip["slave"]
    BY <1>2, <2>1, <2>2, <2>3, <2>4, ReceivedType
  <2> QED  BY <1>1, <1>11, <2>3, <2>5 DEF Starting, MasterAt, SlaveAt
<1>12. CASE n \in {12, 13}
  <2>1. Head(code).op = "clear" \/ Head(code).op = "registerAllExceptions"
    BY <1>1, <1>12 DEF Instructions
  <2>2. UNCHANGED << chip, IFlag >>
    BY <2>1, Dispatch DEF clear, registerAllExceptions
  <2> QED  BY <1>1, <1>12, <2>2 DEF Starting, MasterAt, SlaveAt
<1>13. CASE n = 14
  <2>1. Head(code) = Gate(32, "irq0_handler")
    BY <1>1, <1>13 DEF Instructions
  <2>2. UNCHANGED << chip, IFlag >>
    BY <2>1, OfGate
  <2> QED  BY <1>1, <1>13, <2>2 DEF Starting, MasterAt, SlaveAt
<1>14. CASE n = 15
  <2>1. Head(code) = Gate(33, "IRQ1")
    BY <1>1, <1>14 DEF Instructions
  <2>2. UNCHANGED << chip, IFlag >> /\ gates' = [gates EXCEPT ![33] = "IRQ1"]
    BY <2>1, OfGate
  <2>3. gates'[33] = "IRQ1"
    <3>1. gates \in [Vectors -> {"init", "low memory", "exception",
                                 "irq0_handler", "IRQ1", "driver"}]
      BY DEF TypeOK
    <3>2. 33 \in Vectors
      BY DEF Vectors
    <3> QED  BY <2>2, <3>1, <3>2
  <2> QED  BY <1>1, <1>14, <2>2, <2>3 DEF Starting, MasterAt, SlaveAt
<1>15. CASE n = 16
  <2>1. Head(code) = Call("enable", 33) /\ ChipFor(33) = "master" /\ Bit(33) = {1}
    BY <1>1, <1>15 DEF Instructions, ChipFor, Bit, IRQ
  <2>2. /\ chip' = [chip EXCEPT !["master"].mask = @ \ {1}]
        /\ UNCHANGED << gates, IFlag >>
    BY <1>2, <2>1, OfMask
  <2>3. /\ chip'["master"].icw = chip["master"].icw
        /\ chip'["master"].base = chip["master"].base
        /\ chip'["master"].mask = chip["master"].mask \ {1}
        /\ chip'["slave"] = chip["slave"]
    BY <1>2, <2>2 DEF Controllers
  <2> QED  BY <1>1, <1>15, <2>2, <2>3 DEF Starting, MasterAt, SlaveAt
<1>16. CASE n = 17
  <2>1. Head(code).op = "sti" /\ code' = << >>
    <3>1. Instructions[17].op = "sti"
      BY DEF Instructions
    <3>2. code' = From(18)
      BY <1>1, <1>16
    <3> QED  BY <1>1, <1>16, <3>1, <3>2, Next17
  <2>2. UNCHANGED << chip, gates >>
    BY <2>1, Dispatch DEF sti
  <2>3. /\ chip["master"].base = 32 /\ chip["master"].icw = 0
        /\ chip["slave"].base = 40 /\ chip["slave"].icw = 0
        /\ 0 .. 7 \ chip["master"].mask \subseteq {1}
        /\ gates[33] = "IRQ1"
    BY <1>16 DEF Starting, MasterAt, SlaveAt
  <2>4. Open'
    BY <2>2, <2>3 DEF Open, Handled, IRQ
  <2> QED  BY <1>1, <1>16, <2>1, <2>2, <2>3, <2>4 DEF Up, Calling
<1> QED
  BY <1>3, <1>4, <1>5, <1>6, <1>7, <1>8, <1>9, <1>10, <1>11, <1>12, <1>13,
     <1>14, <1>15, <1>16

-----------------------------------------------------------------------------
(* The drivers' calls. *)

LEMMA MaskStep ==
  ASSUME TypeOK, Execute, NEW l \in Drivers,
         Head(code) \in {Call("enable", IRQ(l)), Call("disable", IRQ(l))}
  PROVE  /\ \A c \in Chips : /\ chip'[c].base = chip[c].base
                             /\ chip'[c].icw = chip[c].icw
         /\ chip["master"].mask \ {l} \subseteq chip'["master"].mask
         /\ Head(code) = Call("disable", IRQ(l)) =>
              chip["master"].mask \subseteq chip'["master"].mask
         /\ UNCHANGED gates
<1> DEFINE v == IRQ(l)
           c == ChipFor(v)
           m == IF Head(code) = Call("enable", v)
                  THEN chip[c].mask \ Bit(v) ELSE chip[c].mask \cup (0 .. 7 \ Bit(v))
<1>1. c \in Chips /\ chip \in [Chips -> Controllers]
  BY ChipType DEF ChipFor, Chips
<1>2. chip' = [chip EXCEPT ![c].mask = m] /\ UNCHANGED gates
  BY <1>1, OfMask
<1>3. /\ \A d \in Chips : d # c => chip'[d] = chip[d]
      /\ chip'[c].base = chip[c].base /\ chip'[c].icw = chip[c].icw
      /\ chip'[c].mask = m
  <2> HIDE DEF c, m
  <2> QED  BY <1>1, <1>2 DEF Controllers
<1>4. c = "master" => Bit(v) \subseteq {l}
  <2>1. l \in 0 .. 15
    BY InterruptsAssumption
  <2>2. c = "master" => l \in 0 .. 7
    BY <2>1 DEF ChipFor, IRQ
  <2>3. l \in 0 .. 7 => (32 + l) % 32 = l
    BY <2>1
  <2> QED  BY <2>2, <2>3 DEF Bit, IRQ
<1>5. Call("enable", v) # Call("disable", v)
  BY DEF Call
<1>6. /\ c = "master" => chip["master"].mask \ {l} \subseteq m
      /\ Head(code) = Call("disable", v) => chip[c].mask \subseteq m
  BY <1>4, <1>5
<1>7. "master" \in Chips
  BY DEF Chips
<1> HIDE DEF c, m
<1>8. CASE c = "master"
  BY <1>2, <1>3, <1>6, <1>8
<1>9. CASE c # "master"
  BY <1>2, <1>3, <1>7, <1>9
<1> QED  BY <1>8, <1>9

LEMMA UpExecute ==
  ASSUME TypeOK, Up, Execute
  PROVE  Up'
<1>1. /\ Calling /\ Sound(Head(code)) /\ code # << >> /\ code' = Tail(code)
      /\ UNCHANGED stray
  BY DriverSound, ExecuteType DEF Up, Execute, SendCommand, SendData, enable, disable,
       clear, registerAllExceptions, SetGate, sti, Doing, Main
<1>2. chip \in [Chips -> Controllers] /\ "master" \in Chips /\ "slave" \in Chips
  BY ChipType DEF Chips
<1>3. CASE Head(code) = Data("master", 255) /\ code' = << >>
  <2> DEFINE all == 255
  <2>1. Head(code) = Data("master", all) /\ all \in 0 .. 255 /\ Bits(all) = 0 .. 7
    BY <1>3, AllLines
  <2> HIDE DEF all
  <2>2. chip' = Received("master", all) /\ UNCHANGED gates
    BY <1>1, <1>2, <2>1, OfController
  <2>3. chip["master"].icw = 0
    BY DEF Up
  <2>4. /\ chip'["master"].icw = 0 /\ chip'["master"].base = chip["master"].base
        /\ chip'["master"].mask = 0 .. 7
        /\ chip'["slave"] = chip["slave"]
    BY <1>2, <2>1, <2>2, <2>3, ReceivedType
  <2>5. Open'
    BY <2>2, <2>4 DEF Up, Open
  <2>6. Calling'
    BY <1>3 DEF Calling
  <2> QED  BY <1>1, <2>4, <2>5, <2>6 DEF Up
<1>4. ASSUME NEW l \in Drivers, Head(code) = Gate(IRQ(l), "driver"),
             \/ code' = << >>
             \/ l \in 1 .. 14 /\ code' = << Call("enable", IRQ(l)) >>
      PROVE  Up'
  <2>1. gates' = [gates EXCEPT ![IRQ(l)] = "driver"] /\ UNCHANGED chip
    BY <1>4, OfGate
  <2>2. IRQ(l) \in Vectors /\ (IRQ(l) = 33 => l = 1)
    BY InterruptsAssumption DEF IRQ, Vectors
  <2>3. gates'[IRQ(l)] = "driver" /\ \A v \in Vectors : v # IRQ(l) => gates'[v] = gates[v]
    BY <2>1, <2>2 DEF TypeOK
  <2>4. \A k \in 0 .. 7 : IRQ(k) \in Vectors
    BY DEF IRQ, Vectors
  <2>5. \A v \in Vectors : gates[v] \in Handled => gates'[v] \in Handled
    BY <2>3 DEF Handled
  <2>6. 33 \in Vectors
    BY DEF Vectors
  <2>7. Open'
    BY <2>1, <2>2, <2>3, <2>4, <2>5, <2>6 DEF Up, Open
  <2>8. Calling'
    BY <1>4, <2>3 DEF Calling, Handled
  <2> QED  BY <1>1, <2>1, <2>7, <2>8 DEF Up
<1>5. ASSUME NEW l \in Drivers, Head(code) = Call("disable", IRQ(l)), code' = << >>
      PROVE  Up'
  <2>1. /\ \A c \in Chips : chip'[c].base = chip[c].base /\ chip'[c].icw = chip[c].icw
        /\ chip["master"].mask \subseteq chip'["master"].mask /\ UNCHANGED gates
    BY <1>5, MaskStep
  <2>2. Open'
    BY <2>1 DEF Up, Open
  <2>3. Calling'
    BY <1>5 DEF Calling
  <2> QED  BY <1>1, <1>2, <2>1, <2>2, <2>3 DEF Up
<1>6. ASSUME NEW l \in Drivers, Head(code) = Call("enable", IRQ(l)), code' = << >>,
             gates[IRQ(l)] \in Handled
      PROVE  Up'
  <2>1. /\ \A c \in Chips : chip'[c].base = chip[c].base /\ chip'[c].icw = chip[c].icw
        /\ chip["master"].mask \ {l} \subseteq chip'["master"].mask /\ UNCHANGED gates
    BY <1>6, MaskStep
  <2>2. Open'
    BY <1>6, <2>1 DEF Up, Open
  <2>3. Calling'
    BY <1>6 DEF Calling
  <2> QED  BY <1>1, <1>2, <2>1, <2>2, <2>3 DEF Up
<1> QED
  BY <1>1, <1>3, <1>4, <1>5, <1>6, CallingHead

-----------------------------------------------------------------------------
(* The invariant. *)

LEMMA Initially == Init => IInv
<1> SUFFICES ASSUME Init PROVE IInv
  OBVIOUS
<1>1. TypeOK
  <2>1. chip \in [Chips -> [mask : SUBSET (0 .. 7), base : 0 .. 255, icw : 0 .. 4]]
    BY DEF Init, Chips
  <2>2. irr \subseteq 0 .. 15 /\ isr \subseteq 0 .. 15
    BY DEF Init
  <2>3. gates \in [Vectors -> {"init", "low memory", "exception", "irq0_handler",
                               "IRQ1", "driver"}]
    BY DEF Init
  <2> QED  BY <2>1, <2>2, <2>3 DEF Init, TypeOK
<1>2. From(1) = kmain
  BY Expanded DEF From, Instructions
<1>3. Starting(1)
  BY <1>2 DEF Init, Starting, MasterAt, SlaveAt
<1> QED  BY <1>1, <1>3 DEF IInv, Init, Heard

LEMMA ExecuteHeard ==
  ASSUME TypeOK, Sound(Head(code)), Execute, Heard
  PROVE  Heard'
<1>1. UNCHANGED << full, handler >>
  BY ExecuteType
<1>2. ASSUME NEW c \in Chips, Reset(c)
      PROVE  Heard'
  <2>1. c = "master" \/ 1 \notin LinesOf(c)
    BY <1>2 DEF LinesOf
  <2> QED  BY <1>1, <1>2, <2>1 DEF Heard, Reset, TypeOK
<1>3. CASE SendCommand
  <2>1. Head(code).chip \in Chips /\ Reset(Head(code).chip)
    BY <1>3 DEF SendCommand, Doing, Sound
  <2> QED  BY <1>2, <2>1
<1>4. CASE ~SendCommand
  <2>1. UNCHANGED << irr, early >>
    <3>1. CASE SendData \/ enable \/ disable
      BY <3>1 DEF SendData, enable, disable, hardware
    <3>2. CASE clear \/ registerAllExceptions \/ SetGate \/ sti
      BY <3>2 DEF clear, registerAllExceptions, SetGate, sti, hardware
    <3> QED  BY <1>4, <3>1, <3>2 DEF Execute
  <2> QED  BY <1>1, <2>1 DEF Heard
<1> QED  BY <1>3, <1>4

LEMMA ExecuteStep ==
  ASSUME IInv, Execute
  PROVE  IInv'
<1>1. CASE Up
  <2>1. Sound(Head(code))
    BY <1>1, DriverSound DEF Up, Execute, SendCommand, SendData, enable, disable,
       clear, registerAllExceptions, SetGate, sti, Doing, Main
  <2> QED  BY <1>1, <2>1, ExecuteType, UpExecute, ExecuteHeard DEF IInv
<1>2. ASSUME NEW n \in 1 .. 17, Starting(n)
      PROVE  IInv'
  <2>1. Sound(Head(code))
    BY <1>2, KernelSound, Next17 DEF Starting
  <2>2. (\E k \in 1 .. 17 : Starting(k)') \/ Up'
    BY <1>2, StartStep DEF IInv
  <2> QED  BY <2>1, <2>2, ExecuteType, ExecuteHeard DEF IInv
<1> QED  BY <1>1, <1>2 DEF IInv

(* What interrupts while the kernel is up. *)
LEMMA InterruptStep ==
  ASSUME IInv, NEW line \in 0 .. 15, Interrupt(line)
  PROVE  IInv'
<1>1. Up
  BY DEF IInv, Starting, Interrupt
<1>2. /\ irr' = irr \ {line} /\ irr' \subseteq irr /\ stray = FALSE
      /\ isr' = isr \cup {line, Cascade(line)} /\ line \in irr /\ ~Masked(line)
      /\ IFlag' = FALSE /\ handler = "none"
      /\ UNCHANGED << code, chip, gates, full, early >>
  BY DEF Interrupt, Requests, Live, IInv, TypeOK
<1>3. /\ handler' = CASE gates[VectorOf(line)] = "IRQ1"   -> "read"
                      [] gates[VectorOf(line)] = "driver" -> "EOI"
                      [] OTHER                            -> "none"
      /\ stray' = (gates[VectorOf(line)] \notin Handled)
  BY DEF Interrupt, Handled
<1>4. handler' \in {"none", "read", "echo", "hung", "EOI", "iret"} /\ stray' \in BOOLEAN
  BY <1>3
<1>5. Cascade(line) \in 0 .. 15
  BY DEF Cascade
<1>6. TypeOK'
  BY <1>2, <1>4, <1>5 DEF IInv, TypeOK
<1>7. CASE line < 8
  <2>1. line % 8 = line /\ ChipOf(line) = "master" /\ line \in 0 .. 7
    BY <1>7 DEF ChipOf
  <2>2. VectorOf(line) = IRQ(line)
    BY <1>1, <2>1 DEF VectorOf, Up, IRQ
  <2>3. line \notin chip["master"].mask
    BY <1>2, <2>1 DEF Masked
  <2>4. ~stray'
    BY <1>1, <1>3, <2>1, <2>2, <2>3 DEF Up, Open
  <2>5. Up'
    BY <1>1, <1>2, <2>4 DEF Up, Calling, Open
  <2>6. 1 \notin Drivers => Heard'
    <3>1. CASE line = 1
      <4>1. 1 \notin Drivers => gates[VectorOf(line)] = "IRQ1"
        BY <1>1, <2>2, <3>1 DEF Up, Open, IRQ
      <4> QED  BY <1>3, <4>1 DEF Heard
    <3>2. CASE line # 1
      BY <1>2, <3>2 DEF IInv, Heard
    <3> QED  BY <3>1, <3>2
  <2> QED  BY <1>2, <1>6, <2>5, <2>6 DEF IInv
<1>8. CASE ~(line < 8)
  <2>1. line >= 8 /\ line # 1
    BY <1>8
  <2>2. 2 \notin chip["master"].mask
    BY <1>2, <2>1 DEF Masked
  <2>3. 2 \in Drivers /\ line \in Devices
    BY <1>1, <1>2, <2>1, <2>2 DEF Up, Open, IInv
  <2>4. Up'
    BY <1>1, <1>2, <2>1, <2>3 DEF Up, Calling, Open
  <2>5. 1 \notin Drivers => Heard'
    BY <1>2, <2>1 DEF IInv, Heard
  <2> QED  BY <1>2, <1>6, <2>4, <2>5 DEF IInv
<1> QED  BY <1>7, <1>8

LEMMA HandleStep ==
  ASSUME IInv, Handle
  PROVE  IInv'
<1>1. Up /\ handler # "none"
  BY DEF IInv, Starting, Handle, ReadPort, Echo, EOI, iret
<1>2. /\ UNCHANGED << code, chip, gates, stray, irr >>
      /\ TypeOK' /\ (Heard => Heard')
  <2>1. CASE ReadPort
    BY <2>1 DEF ReadPort, IInv, TypeOK, Heard
  <2>2. CASE Echo
    BY <2>2 DEF Echo, IInv, TypeOK, Heard
  <2>3. CASE EOI
    BY <2>3 DEF EOI, IInv, TypeOK, Heard
  <2>4. CASE iret
    BY <2>4 DEF iret, IInv, TypeOK, Heard
  <2> QED  BY <2>1, <2>2, <2>3, <2>4 DEF Handle
<1>3. Up'
  BY <1>1, <1>2 DEF Up, Calling, Open
<1> QED  BY <1>2, <1>3 DEF IInv

LEMMA DeviceStep ==
  ASSUME IInv, Key \/ \E line \in Devices : Request(line)
  PROVE  IInv'
<1>1. /\ UNCHANGED << code, chip, gates, IFlag, handler, stray >>
      /\ irr' \subseteq Devices \cup {1}
      /\ Heard => Heard'
  BY DEF Key, Request, IInv, Heard
<1>2. TypeOK'
  <2>1. CASE Key
    <3>1. irr' = irr \cup {1} /\ full' \in BOOLEAN
      BY <2>1 DEF Key
    <3>2. irr \subseteq 0 .. 15
      BY DEF IInv, TypeOK
    <3>3. irr' \subseteq 0 .. 15
      BY <3>1, <3>2
    <3> QED  BY <2>1, <3>1, <3>3 DEF Key, IInv, TypeOK
  <2>2. ASSUME NEW line \in Devices, Request(line)
        PROVE  TypeOK'
    BY <2>2, InterruptsAssumption DEF Request, IInv, TypeOK
  <2> QED  BY <2>1, <2>2
<1>3. Up => Up'
  BY <1>1 DEF Up, Calling, Open
<1>4. \A n \in 1 .. 17 : Starting(n) => Starting(n)'
  BY <1>1 DEF Starting, MasterAt, SlaveAt
<1> QED  BY <1>1, <1>2, <1>3, <1>4 DEF IInv

LEMMA DriveStep ==
  ASSUME IInv, NEW line \in Drivers, Drive(line)
  PROVE  IInv'
<1>1. Up
  BY DEF IInv, Starting, Drive
<1>2. /\ UNCHANGED << chip, hardware, gates, IFlag, handler, stray >>
      /\ Calling'
  BY DEF Drive, Calling
<1>3. Up'
  BY <1>1, <1>2 DEF Up, Open
<1>4. TypeOK' /\ (Heard => Heard')
  BY <1>2 DEF IInv, TypeOK, Heard, hardware
<1> QED  BY <1>2, <1>3, <1>4 DEF IInv, hardware

LEMMA Inductive == IInv /\ [Next]_vars => IInv'
<1> SUFFICES ASSUME IInv, [Next]_vars PROVE IInv'
  OBVIOUS
<1>1. CASE Execute
  BY <1>1, ExecuteStep
<1>2. CASE Handle
  BY <1>2, HandleStep
<1>3. CASE Interrupted
  BY <1>3, InterruptStep DEF Interrupted
<1>4. CASE Key \/ \E line \in Devices : Request(line)
  BY <1>4, DeviceStep
<1>5. CASE \E line \in Drivers : Drive(line)
  BY <1>5, DriveStep
<1>6. CASE UNCHANGED vars
  <2>1. TypeOK' /\ (Heard => Heard') /\ irr' \subseteq Devices \cup {1}
    BY <1>6 DEF vars, IInv, TypeOK, Heard
  <2>2. Up => Up'
    BY <1>6 DEF vars, Up, Calling, Open
  <2>3. \A n \in 1 .. 17 : Starting(n) => Starting(n)'
    BY <1>6 DEF vars, Starting, MasterAt, SlaveAt
  <2> QED  BY <2>1, <2>2, <2>3 DEF IInv
<1> QED
  BY <1>1, <1>2, <1>3, <1>4, <1>5, <1>6 DEF Next

THEOREM Invariant == Spec => []IInv
BY Initially, Inductive, PTL DEF Spec

-----------------------------------------------------------------------------
(* Nothing written to a controller or to the table leaves its type, and    *)
(* every interrupt and handler keeps to the sixteen lines.                 *)
THEOREM TypeCorrect == Spec => []TypeOK
BY Invariant, PTL DEF IInv

(* Nothing is taken that no handler returns from: while kmain() sets the   *)
(* controllers and the table up, nor afterwards, whatever drivers of       *)
(* whatever lines do; except through line 2, the slave's, which remap()    *)
(* leaves unmasked, if a driver sets a gate for it and the slave has       *)
(* devices.                                                                *)
THEOREM NeverStray ==
  ASSUME 2 \in Drivers => Devices \subseteq 0 .. 7
  PROVE  Spec => []NoStray
<1>1. IInv => NoStray
  BY DEF IInv, Starting, Up, NoStray
<1> QED  BY <1>1, Invariant, PTL

(* A byte the keyboard holds out after the controllers were initialised is *)
(* on its way to the processor, as long as no driver takes line 1 over.    *)
THEOREM AlwaysHeard ==
  ASSUME 1 \notin Drivers
  PROVE  Spec => []Heard
<1>1. IInv => Heard
  BY DEF IInv
<1> QED  BY <1>1, Invariant, PTL
=============================================================================
