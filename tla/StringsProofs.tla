--------------------------- MODULE StringsProofs ----------------------------
(* string_run_impl with its faults and restarts implements the loop of      *)
(* whole elements, for every set of instructions, addresses and pages; its  *)
(* registers are always where the completed elements put them, and its      *)
(* stores are announced.                                                    *)
EXTENDS Strings, TLAPS

(* Quotients and remainders.                                               *)
LEMMA Division ==
  ASSUME NEW a \in Int, NEW d \in Nat \ {0}
  PROVE  /\ a \div d \in Int /\ a % d \in 0 .. d - 1
         /\ d * (a \div d) \in Int /\ a = d * (a \div d) + (a % d)
<1>1. a \div d \in Int /\ a % d \in 0 .. d - 1
  BY SMT
<1>2. d * (a \div d) \in Int
  BY <1>1, SMT
<1>3. a = d * (a \div d) + (a % d)
  BY SMT
<1> QED
  BY <1>1, <1>2, <1>3

(* A remainder is the only one.                                             *)
LEMMA RemainderIsUnique ==
  ASSUME NEW a \in Int, NEW d \in Nat \ {0}, NEW q \in Int, NEW r \in 0 .. d - 1,
         a = d * q + r
  PROVE  a % d = r
<1> DEFINE p == a \div d
<1>1. p \in Int /\ d * p \in Int /\ a % d \in 0 .. d - 1 /\ a = d * p + (a % d)
  BY Division
<1>2. d * q \in Int
  BY SMT
<1> HIDE DEF p
<1>3. CASE p < q
  <2>1. d * (p + 1) <= d * q /\ d * (p + 1) = d * p + d
    BY <1>1, <1>3, SMT
  <2> QED
    BY <1>1, <1>2, <2>1, SMT
<1>4. CASE q < p
  <2>1. d * (q + 1) <= d * p /\ d * (q + 1) = d * q + d
    BY <1>1, <1>4, SMT
  <2> QED
    BY <1>1, <1>2, <2>1, SMT
<1>5. CASE p = q
  BY <1>1, <1>2, <1>5, SMT
<1> QED
  BY <1>1, <1>3, <1>4, <1>5, SMT

(* Going on from a remainder, by whatever number.                           *)
LEMMA RemainderGoesOn ==
  ASSUME NEW a \in Int, NEW d \in Nat \ {0}, NEW m \in Int
  PROVE  ((a % d) + m) % d = (a + m) % d
<1> DEFINE p == a \div d
           x == (a % d) + m
           q == x \div d
           r == x % d
<1>1. p \in Int /\ d * p \in Int /\ a % d \in 0 .. d - 1 /\ a = d * p + (a % d)
  BY Division
<1>2. x \in Int
  BY <1>1
<1>3. q \in Int /\ d * q \in Int /\ r \in 0 .. d - 1 /\ x = d * q + r
  BY <1>2, Division
<1>4. a + m = d * (p + q) + r /\ p + q \in Int /\ a + m \in Int
  <2>1. d * (p + q) = d * p + d * q
    BY <1>1, <1>3, SMT
  <2>2. a + m = d * p + x
    BY <1>1
  <2> HIDE DEF p, x, q, r
  <2> QED
    BY <1>1, <1>3, <2>1, <2>2, SMT
<1> HIDE DEF p, q, r
<1> QED
  BY <1>3, <1>4, RemainderIsUnique DEF r
-----------------------------------------------------------------------------
(* What an interrupted loop may rely on: registers are numbers, a fault is  *)
(* recorded exactly from the trap to the next call, and the element loaded  *)
(* first is still the one in memory.                                        *)
Inv ==
  /\ insn \in Insns
  /\ rsi \in Nat /\ rdi \in Nat /\ rcx \in Nat
  /\ pc \in {"enter", "top", "second", "leave", "exit", "done", "stopped"}
  /\ pc \in {"top", "second", "done"} => fault = None
  /\ pc = "exit" => fault # None
  /\ pc = "second" => tmp = mem[From] /\ TwoAccesses /\ ~Exhausted(insn, rcx)

(* Offsets and the registers written back are numbers.                      *)
LEMMA RegistersStayNumbers ==
  ASSUME NEW i \in Insns, NEW reg \in Nat
  PROVE  /\ advance(i, reg) \in Nat
         /\ dec(i, reg) \in Nat
<1>1. Modulus(i) \in Nat \ {0}
  BY InsnsAssumption, SizeAssumption DEF Modulus
<1>2. Offset(i, reg) \in Nat /\ Offset(i, reg) <= reg
  BY <1>1 DEF Offset
<1>3. ASSUME NEW x \in Int
      PROVE  WriteBack(i, reg, x % Modulus(i)) \in Nat
  <2>1. x % Modulus(i) \in Nat
    BY <1>1
  <2> QED
    BY <1>2, <2>1 DEF WriteBack
<1> QED
  BY <1>2, <1>3 DEF advance, dec

(* The addresses of an element are numbers, so none of them is None.        *)
LEMMA AddressesAreNumbers ==
  ASSUME NEW i \in Insns, NEW reg \in Nat
  PROVE  src_lin(i, reg) \in Nat /\ dst_lin(i, reg) \in Nat
<1>1. Modulus(i) \in Nat \ {0}
  BY InsnsAssumption, SizeAssumption DEF Modulus
<1>2. Offset(i, reg) \in Nat
  BY <1>1 DEF Offset
<1>3. i.src \in Nat /\ i.dst \in Nat /\ Size \in Nat \ {0}
  BY InsnsAssumption, SizeAssumption
<1> QED
  BY <1>2, <1>3 DEF src_lin, dst_lin

LEMMA InvInitially == Init => Inv
  BY StartAssumption DEF Init, Inv, None

LEMMA InvIsKept == Inv /\ [Next]_vars => Inv'
<1> SUFFICES ASSUME Inv, [Next]_vars PROVE Inv'
  OBVIOUS
<1> USE DEF Inv
<1>a. /\ NextRsi(insn, rsi) \in Nat
      /\ NextRdi(insn, rdi) \in Nat
      /\ NextRcx(insn, rcx) \in Nat
  BY RegistersStayNumbers DEF NextRsi, NextRdi, NextRcx
<1>b. From \in Nat /\ To \in Nat
  BY AddressesAreNumbers DEF From, To
<1>c. ASSUME Completed, fault = None PROVE Inv'
  BY <1>a, <1>c DEF Completed
<1>d. ASSUME NEW a \in Nat, Trap(a) PROVE Inv'
  BY <1>d DEF Trap, regs, history
<1>1. CASE Enter
  BY <1>1 DEF Enter, regs, history
<1>2. CASE Finish
  BY <1>2 DEF Finish, regs, history
<1>3. CASE LoadFirst
  BY <1>3 DEF LoadFirst, Running, From, TwoAccesses, regs, history
<1>4. CASE FaultFirst
  BY <1>4, <1>b, <1>d DEF FaultFirst
<1>5. CASE Movs
  BY <1>5, <1>c DEF Movs
<1>6. CASE Stos
  BY <1>6, <1>c DEF Stos, Running
<1>7. CASE Lods
  BY <1>7, <1>c DEF Lods, Running
<1>8. CASE Scas
  BY <1>8, <1>c DEF Scas, Running
<1>9. CASE Cmps
  BY <1>9, <1>c DEF Cmps
<1>10. CASE FaultSecond
  BY <1>10, <1>b, <1>d DEF FaultSecond
<1>11. CASE Leave
  BY <1>11 DEF Leave, regs, history
<1>12. CASE MapPage
  BY <1>12 DEF MapPage, regs, history
<1>13. CASE GiveUp
  BY <1>13 DEF GiveUp, regs, history
<1>14. CASE UNCHANGED vars
  BY <1>14 DEF vars, regs, history, From, TwoAccesses, Exhausted
<1> QED
  BY <1>1, <1>2, <1>3, <1>4, <1>5, <1>6, <1>7, <1>8, <1>9, <1>10, <1>11, <1>12, <1>13, <1>14
  DEF Next, Stutter

(* The promise is about the same registers and addresses.                   *)
LEMMA SameRegisters ==
  ASSUME NEW i, NEW reg, NEW f
  PROVE  /\ Promise!src_lin(i, reg) = src_lin(i, reg)
         /\ Promise!dst_lin(i, reg) = dst_lin(i, reg)
         /\ Promise!NextRsi(i, reg) = NextRsi(i, reg)
         /\ Promise!NextRdi(i, reg) = NextRdi(i, reg)
         /\ Promise!NextRcx(i, reg) = NextRcx(i, reg)
         /\ Promise!Exhausted(i, reg) <=> Exhausted(i, reg)
         /\ Promise!Last(i, f) <=> Last(i, f)
         /\ Promise!Stores(i) <=> Stores(i)
         /\ Promise!Compares(i) <=> Compares(i)
<1>1. /\ Promise!Modulus(i) = Modulus(i)
      /\ Promise!Offset(i, reg) = Offset(i, reg)
  BY DEF Promise!Modulus, Modulus, Promise!Offset, Offset
<1>2. ASSUME NEW x PROVE Promise!WriteBack(i, reg, x) = WriteBack(i, reg, x)
  BY <1>1 DEF Promise!WriteBack, WriteBack
<1>3. Promise!advance(i, reg) = advance(i, reg) /\ Promise!dec(i, reg) = dec(i, reg)
  BY <1>1, <1>2 DEF Promise!advance, advance, Promise!dec, dec
<1>4. (Promise!UsesSrc(i) <=> UsesSrc(i)) /\ (Promise!UsesDst(i) <=> UsesDst(i))
  BY DEF Promise!UsesSrc, UsesSrc, Promise!UsesDst, UsesDst
<1>5. /\ Promise!src_lin(i, reg) = src_lin(i, reg)
      /\ Promise!dst_lin(i, reg) = dst_lin(i, reg)
  BY <1>1 DEF Promise!src_lin, src_lin, Promise!dst_lin, dst_lin
<1>6. /\ Promise!NextRsi(i, reg) = NextRsi(i, reg)
      /\ Promise!NextRdi(i, reg) = NextRdi(i, reg)
      /\ Promise!NextRcx(i, reg) = NextRcx(i, reg)
  BY <1>3, <1>4
  DEF Promise!NextRsi, NextRsi, Promise!NextRdi, NextRdi, Promise!NextRcx, NextRcx
<1>7. /\ Promise!Exhausted(i, reg) <=> Exhausted(i, reg)
      /\ Promise!Last(i, f) <=> Last(i, f)
  BY <1>1 DEF Promise!Exhausted, Exhausted, Promise!Last, Last
<1>8. (Promise!Stores(i) <=> Stores(i)) /\ (Promise!Compares(i) <=> Compares(i))
  BY DEF Promise!Stores, Stores, Promise!Compares, Compares
<1> QED
  BY <1>5, <1>6, <1>7, <1>8

(* Completing an element, from a state in which the loop runs, is a step of *)
(* the promise once memory, rax and the flags change as it says.            *)
LEMMA ElementIsPromised ==
  ASSUME Inv, Completed, pc \in {"top", "second"}, ~Exhausted(insn, rcx),
         mem' = IF Stores(insn)
                THEN [mem EXCEPT ![To] = IF insn.op = "Movs" THEN mem[From] ELSE rax]
                ELSE mem,
         rax' = IF insn.op = "Lods" THEN mem[From] ELSE rax,
         fl' = IF Compares(insn)
               THEN <<IF insn.op = "Cmps" THEN mem[From] ELSE rax, mem[To]>> ELSE fl
  PROVE  Promise!Element
<1>1. Over = "running"
  BY DEF Over, Inv
<1>2. Over' = IF Last(insn, fl') THEN "done" ELSE "running"
  BY DEF Over, Completed, Inv
<1> QED
  BY <1>1, <1>2, SameRegisters
  DEF Promise!Element, Promise!Src, Promise!Dst, From, To, Completed

LEMMA StepsArePromised == Inv /\ [Next]_vars => [Promise!Next]_(Promise!vars)
<1> SUFFICES ASSUME Inv, [Next]_vars
             PROVE  Promise!Next \/ UNCHANGED Promise!vars
  OBVIOUS
<1> USE DEF Inv
<1>b. From \in Nat /\ To \in Nat
  BY AddressesAreNumbers DEF From, To
<1>d. ASSUME NEW a \in Nat, Trap(a), pc \in {"top", "second"}
      PROVE  UNCHANGED Promise!vars
  BY <1>d DEF Trap, regs, Over, None, Promise!vars
<1>1. CASE Enter
  BY <1>1 DEF Enter, regs, Over, Promise!vars
<1>2. CASE Finish
  BY <1>2, SameRegisters DEF Finish, regs, Over, Promise!Next, Promise!End
<1>3. CASE LoadFirst
  BY <1>3 DEF LoadFirst, Running, regs, Over, Promise!vars
<1>4. CASE FaultFirst
  BY <1>4, <1>b, <1>d DEF FaultFirst, Running
<1>5. CASE Movs
  BY <1>5, ElementIsPromised DEF Movs, Store, Stores, Compares, Promise!Next
<1>6. CASE Stos
  BY <1>6, ElementIsPromised DEF Stos, Store, Running, Stores, Compares, Promise!Next
<1>7. CASE Lods
  BY <1>7, ElementIsPromised DEF Lods, Running, Stores, Compares, Promise!Next
<1>8. CASE Scas
  BY <1>8, ElementIsPromised DEF Scas, Compare, Running, Stores, Compares, Promise!Next
<1>9. CASE Cmps
  BY <1>9, ElementIsPromised DEF Cmps, Compare, Stores, Compares, Promise!Next
<1>10. CASE FaultSecond
  BY <1>10, <1>b, <1>d DEF FaultSecond, Running
<1>11. CASE Leave
  BY <1>11 DEF Leave, regs, Over, Promise!vars
<1>12. CASE MapPage
  BY <1>12 DEF MapPage, regs, Over, Promise!vars
<1>13. CASE GiveUp
  BY <1>13 DEF GiveUp, regs, Over, Promise!Next, Promise!Abandon
<1>14. CASE UNCHANGED vars
  BY <1>14 DEF vars, regs, Over, Promise!vars
<1> QED
  BY <1>1, <1>2, <1>3, <1>4, <1>5, <1>6, <1>7, <1>8, <1>9, <1>10, <1>11, <1>12, <1>13, <1>14
  DEF Next, Stutter

(* Faults and restarts of string_run are invisible to the guest: each step  *)
(* of the loop is a step of RepLoop or changes nothing that RepLoop sees.   *)
THEOREM StringsKeepTheirPromise == SafeSpec => Promise!SafeSpec
<1>1. Init => Promise!Init
  BY DEF Init, Promise!Init, Over
<1> QED
  BY <1>1, InvInitially, InvIsKept, StepsArePromised, PTL DEF SafeSpec, Promise!SafeSpec

-----------------------------------------------------------------------------
(* Where the registers are after n elements, and what has been announced.   *)
Progress ==
  /\ start = [rsi |-> start.rsi, rdi |-> start.rdi, rcx |-> start.rcx]
  /\ start.rsi \in Nat /\ start.rdi \in Nat /\ start.rcx \in Nat /\ n \in Nat
  /\ ProgressIsExact

(* The interpreter notes as it stores.  Compiled code enters the loop once: *)
(* what fails there is beyond guest memory, and is given up.                *)
Bookkeeping ==
  /\ ~Stores(insn) => written = {}
  /\ insn.eng = "interp" => written \subseteq noted
  /\ insn.eng = "jit" =>
       /\ rdi0 = start.rdi
       /\ pc = "enter" => rdi = start.rdi
       /\ fault # None => ~(fault < Top)
       /\ Stores(insn) /\ pc \in {"exit", "done", "stopped"} => Span \subseteq noted

(* A pointer is its upper part and an offset; writing an offset back        *)
(* changes no other, and at 32 bits clears the upper part.                  *)
LEMMA OffsetFacts ==
  ASSUME NEW i \in Insns, NEW reg \in Nat, NEW lo \in 0 .. Modulus(i) - 1
  PROVE  /\ Modulus(i) \in Nat \ {0} /\ Offset(i, reg) \in 0 .. Modulus(i) - 1
         /\ (lo % Modulus(i)) = lo
         /\ (((reg - Offset(i, reg)) + lo) % Modulus(i)) = lo
         /\ (reg - Offset(i, reg)) + lo \in Nat
<1>1. Modulus(i) \in Nat \ {0}
  BY InsnsAssumption, SizeAssumption DEF Modulus
<1> DEFINE d == Modulus(i)
           q == reg \div d
           o == reg % d
<1>2. q \in Int /\ o \in 0 .. d - 1 /\ d * q \in Int /\ reg = d * q + o
  <2>1. reg \in Int
    OBVIOUS
  <2> QED
    BY <1>1, <2>1, Division, Zenon
<1>3. lo % d = lo
  <2>1. lo \in Int /\ 0 \in Int /\ lo = d * 0 + lo
    BY <1>1
  <2> HIDE DEF d
  <2> QED
    BY <1>1, <2>1, RemainderIsUnique DEF d
<1>4. Offset(i, reg) = o
  BY DEF Offset
<1>5. (reg - o) + lo = d * q + lo /\ (reg - o) + lo \in Int
  <2> HIDE DEF q, o, d
  <2> QED
    BY <1>1, <1>2 DEF d
<1>6. (((reg - o) + lo) % d) = lo
  <2> HIDE DEF q, o, d
  <2> QED
    BY <1>1, <1>2, <1>5, RemainderIsUnique DEF d
<1>7. (reg - o) + lo \in Nat
  <2>1. o <= reg
    BY <1>1, SMT
  <2> HIDE DEF q, o, d
  <2> QED
    BY <1>1, <1>2, <2>1 DEF d
<1> QED
  BY <1>1, <1>2, <1>3, <1>4, <1>6, <1>7

(* The offset k elements after a pointer, and k + 1 elements after it.      *)
LEMMA MovedFacts ==
  ASSUME Inv, NEW reg \in Nat, NEW k \in Nat
  PROVE  /\ Moved(reg, k) \in Nat
         /\ Offset(insn, Moved(reg, k)) = (reg + (IF insn.df THEN -k ELSE k)) % Modulus(insn)
         /\ advance(insn, Moved(reg, k)) = Moved(reg, k + 1)
<1> DEFINE d == Modulus(insn)
           to == reg + (IF insn.df THEN -k ELSE k)
           lo == to % d
           s == IF insn.df THEN -1 ELSE 1
           next == reg + (IF insn.df THEN -(k + 1) ELSE k + 1)
<1>1. insn \in Insns /\ d \in Nat \ {0}
  BY OffsetFacts, InsnsAssumption, SizeAssumption DEF Inv, Modulus
<1>2. to \in Int /\ s \in Int /\ next = to + s /\ next \in Int
  OBVIOUS
<1>3. lo \in 0 .. d - 1 /\ next % d \in 0 .. d - 1
  <2> HIDE DEF to, next, d
  <2> QED
    BY <1>1, <1>2, Division
<1>4. ((lo + s) % d) = (next % d)
  <2> HIDE DEF to, next, d, s
  <2> QED
    BY <1>1, <1>2, RemainderGoesOn
<1> DEFINE m == Moved(reg, k)
<1>5. m = IF insn.bits = 32 /\ k > 0 THEN lo ELSE (reg - Offset(insn, reg)) + lo
  BY DEF Moved
<1>6. Moved(reg, k + 1) = IF insn.bits = 32 THEN next % d ELSE (reg - Offset(insn, reg)) + (next % d)
  BY DEF Moved
<1>7. /\ (lo % d) = lo /\ (((reg - Offset(insn, reg)) + lo) % d) = lo
      /\ (reg - Offset(insn, reg)) + lo \in Nat /\ Offset(insn, reg) \in 0 .. d - 1
  <2> HIDE DEF lo
  <2> QED
    BY <1>1, <1>3, OffsetFacts, Zenon
<1>8. m \in Nat /\ Offset(insn, m) = lo
  <2> HIDE DEF lo, d
  <2> QED
    BY <1>3, <1>5, <1>7 DEF Offset, d
<1>9. advance(insn, m) = WriteBack(insn, m, next % d)
  BY <1>4, <1>8 DEF advance
<1>10. insn.bits # 32 => m - lo = reg - Offset(insn, reg)
  <2> HIDE DEF lo
  <2> QED
    BY <1>3, <1>5, <1>7
<1>11. advance(insn, m) = Moved(reg, k + 1)
  <2> HIDE DEF lo, next, d, m
  <2> QED
    BY <1>6, <1>8, <1>9, <1>10 DEF WriteBack
<1> QED
  BY <1>8, <1>11

(* The counter falls by one, unless it is zero already.                     *)
LEMMA CounterFalls ==
  ASSUME NEW i \in Insns, NEW reg \in Nat, Offset(i, reg) # 0
  PROVE  Offset(i, dec(i, reg)) = Offset(i, reg) - 1
<1> DEFINE d == Modulus(i)
           o == Offset(i, reg)
<1>1. d \in Nat \ {0}
  BY InsnsAssumption, SizeAssumption DEF Modulus
<1>2. o \in 0 .. d - 1
  <2>1. reg \in Int
    OBVIOUS
  <2> QED
    BY <1>1, <2>1, Division, Zenon DEF Offset
<1>3. o - 1 \in 0 .. d - 1
  BY <1>1, <1>2
<1>4. /\ ((o - 1) % d) = o - 1
      /\ (((reg - o) + (o - 1)) % d) = o - 1
  <2>1. PICK lo \in 0 .. d - 1 : lo = o - 1
    BY <1>3
  <2> QED
    BY <2>1, OffsetFacts
<1>5. dec(i, reg) = IF i.bits = 32 THEN o - 1 ELSE (reg - o) + (o - 1)
  BY <1>4 DEF dec, WriteBack
<1> QED
  BY <1>4, <1>5 DEF Offset

LEMMA ElementProgresses ==
  ASSUME Inv, Progress, Completed, ~Exhausted(insn, rcx),
         Stores(insn) => written' = written \cup {To}
  PROVE  Progress'
<1>1. /\ UNCHANGED <<insn, start>> /\ n' = n + 1
      /\ rsi' = NextRsi(insn, rsi) /\ rdi' = NextRdi(insn, rdi) /\ rcx' = NextRcx(insn, rcx)
  BY DEF Completed
<1>2. /\ insn \in Insns /\ rcx \in Nat /\ n \in Nat
      /\ start.rsi \in Nat /\ start.rdi \in Nat /\ start.rcx \in Nat
  BY DEF Inv, Progress
<1>4. Moved(start.rsi, n)' = Moved(start.rsi, n + 1) /\ Moved(start.rdi, n)' = Moved(start.rdi, n + 1)
  BY <1>1 DEF Moved, Offset, Modulus
<1>5. rsi' = IF UsesSrc(insn) THEN Moved(start.rsi, n + 1) ELSE start.rsi
  BY <1>1, <1>2, MovedFacts DEF Progress, ProgressIsExact, NextRsi
<1>6. rdi' = IF UsesDst(insn) THEN Moved(start.rdi, n + 1) ELSE start.rdi
  BY <1>1, <1>2, MovedFacts DEF Progress, ProgressIsExact, NextRdi
<1>7. insn.rep # "None" => Offset(insn, rcx') = Offset(insn, start.rcx) - (n + 1)
  <2>1. SUFFICES ASSUME insn.rep # "None"
                 PROVE  Offset(insn, rcx') = Offset(insn, start.rcx) - (n + 1)
    OBVIOUS
  <2>2. rcx' = dec(insn, rcx) /\ Offset(insn, rcx) # 0
        /\ Offset(insn, rcx) = Offset(insn, start.rcx) - n
    BY <1>1, <2>1 DEF NextRcx, Exhausted, Progress, ProgressIsExact
  <2>3. Offset(insn, rcx') = Offset(insn, rcx) - 1
    BY <1>2, <2>2, CounterFalls
  <2>4. Offset(insn, start.rcx) \in Int
    BY <1>2, InsnsAssumption, SizeAssumption DEF Offset, Modulus
  <2> QED
    BY <1>2, <2>2, <2>3, <2>4
<1>8. Stores(insn) => written' = {dst_lin(insn, Moved(start.rdi, k)) : k \in 0 .. (n + 1) - 1}
  <2>1. SUFFICES ASSUME Stores(insn)
                 PROVE  written' = {dst_lin(insn, Moved(start.rdi, k)) : k \in 0 .. (n + 1) - 1}
    OBVIOUS
  <2>2. To = dst_lin(insn, Moved(start.rdi, n))
    BY <2>1 DEF To, Progress, ProgressIsExact, Stores, UsesDst
  <2>3. written = {dst_lin(insn, Moved(start.rdi, k)) : k \in 0 .. n - 1}
    BY <2>1 DEF Progress, ProgressIsExact
  <2>4. 0 .. (n + 1) - 1 = (0 .. n - 1) \cup {n}
    BY <1>2
  <2> QED
    BY <2>1, <2>2, <2>3, <2>4, Zenon
<1>9. {dst_lin(insn, Moved(start.rdi, k)) : k \in 0 .. n - 1}'
        = {dst_lin(insn, Moved(start.rdi, k)) : k \in 0 .. (n + 1) - 1}
  <2>1. ASSUME NEW k PROVE dst_lin(insn, Moved(start.rdi, k))' = dst_lin(insn, Moved(start.rdi, k))
    BY <1>1 DEF dst_lin, Moved, Offset, Modulus
  <2> QED
    BY <1>1, <2>1, Zenon
<1>10. ProgressIsExact'
  BY <1>1, <1>4, <1>5, <1>6, <1>7, <1>8, <1>9
  DEF ProgressIsExact, UsesSrc, UsesDst, Stores, Offset, Modulus
<1> QED
  BY <1>1, <1>2, <1>10 DEF Progress

LEMMA ProgressInitially == Init => Progress
<1> SUFFICES ASSUME Init PROVE Progress
  OBVIOUS
<1>1. /\ insn \in Insns /\ rsi \in Nat /\ rdi \in Nat /\ rcx \in Nat /\ n = 0 /\ written = {}
      /\ start = [rsi |-> rsi, rdi |-> rdi, rcx |-> rcx]
  BY StartAssumption DEF Init
<1>2. ASSUME NEW reg \in Nat PROVE Moved(reg, 0) = reg
  <2>1. Moved(reg, 0) = (reg - Offset(insn, reg)) + (reg % Modulus(insn))
    BY DEF Moved
  <2>2. reg % Modulus(insn) \in Int
    BY <1>1, InsnsAssumption, SizeAssumption DEF Modulus
  <2> QED
    BY <2>1, <2>2 DEF Offset
<1>3. Offset(insn, rcx) \in Int
  BY <1>1, InsnsAssumption, SizeAssumption DEF Modulus, Offset
<1>4. start.rsi = rsi /\ start.rdi = rdi /\ start.rcx = rcx
  BY <1>1
<1>5. {dst_lin(insn, Moved(start.rdi, k)) : k \in 0 .. n - 1} = {}
  BY <1>1
<1> QED
  BY <1>1, <1>2, <1>3, <1>4, <1>5 DEF Progress, ProgressIsExact

LEMMA ProgressIsKept == Inv /\ Progress /\ [Next]_vars => Progress'
<1> SUFFICES ASSUME Inv, Progress, [Next]_vars PROVE Progress'
  OBVIOUS
<1>1. ASSUME UNCHANGED <<insn, rsi, rdi, rcx, start, n, written>> PROVE Progress'
  BY <1>1
  DEF Progress, ProgressIsExact, Moved, dst_lin, UsesSrc, UsesDst, Stores, Offset, Modulus
<1>2. CASE Movs
  BY <1>2, ElementProgresses DEF Movs, Store, Inv
<1>3. CASE Stos
  BY <1>3, ElementProgresses DEF Stos, Store, Running
<1>4. CASE Lods
  BY <1>4, ElementProgresses DEF Lods, Running, Stores
<1>5. CASE Scas
  BY <1>5, ElementProgresses DEF Scas, Running, Stores
<1>6. CASE Cmps
  BY <1>6, ElementProgresses DEF Cmps, Stores, Inv
<1>7. CASE Enter \/ Finish \/ LoadFirst \/ FaultFirst \/ FaultSecond \/ Leave \/ MapPage
           \/ GiveUp \/ UNCHANGED vars
  BY <1>1, <1>7 DEF Enter, Finish, LoadFirst, FaultFirst, FaultSecond, Leave, MapPage, GiveUp,
                    Trap, vars, regs, history
<1> QED
  BY <1>2, <1>3, <1>4, <1>5, <1>6, <1>7 DEF Next, Stutter

(* What string_run leaves in RSI, RDI and RCX at every exit and at the end  *)
(* is exactly the n elements it completed, and it stored nowhere else.      *)
THEOREM StringsProgressExactly == SafeSpec => []ProgressIsExact
<1>1. Progress => ProgressIsExact
  BY DEF Progress
<1> QED
  BY <1>1, InvInitially, InvIsKept, ProgressInitially, ProgressIsKept, PTL DEF SafeSpec

LEMMA BookkeepingInitially == Init => Bookkeeping
<1> SUFFICES ASSUME Init PROVE Bookkeeping
  OBVIOUS
<1>1. start.rdi = rdi /\ rdi0 = rdi /\ written = {} /\ fault = None /\ pc = "enter"
  BY DEF Init
<1> QED
  BY <1>1 DEF Bookkeeping

LEMMA BookkeepingIsKept == Inv /\ Bookkeeping /\ [Next]_vars => Bookkeeping'
<1> SUFFICES ASSUME Inv, Bookkeeping, [Next]_vars PROVE Bookkeeping'
  OBVIOUS
<1>0. insn' = insn /\ start' = start
  BY DEF Next, Enter, Finish, LoadFirst, FaultFirst, Movs, Stos, Lods, Scas, Cmps, FaultSecond,
         Leave, MapPage, GiveUp, Stutter, Completed, Trap, vars, history
<1>1. ASSUME UNCHANGED <<written, noted, rdi0, fault>>, pc' \in {"top", "second", "leave"}
      PROVE  Bookkeeping'
  BY <1>0, <1>1 DEF Bookkeeping, Stores
<1>2. ASSUME NEW v, Store(v), Completed, Stores(insn) PROVE Bookkeeping'
  BY <1>0, <1>2 DEF Store, Completed, Bookkeeping, Stores, Inv
<1>3. ASSUME UNCHANGED <<written, noted>>, Completed PROVE Bookkeeping'
  BY <1>1, <1>3 DEF Completed
<1>4. ASSUME NEW a, Trap(a) PROVE Bookkeeping'
  BY <1>0, <1>4 DEF Trap, Backed, Bookkeeping, Stores, history
<1>5. CASE Enter
  BY <1>0, <1>5 DEF Enter, Bookkeeping, Stores, history
<1>6. CASE Finish \/ LoadFirst
  BY <1>1, <1>6 DEF Finish, LoadFirst, history
<1>7. CASE FaultFirst \/ FaultSecond
  BY <1>4, <1>7 DEF FaultFirst, FaultSecond
<1>8. CASE Movs
  BY <1>2, <1>8 DEF Movs, Stores
<1>9. CASE Stos
  BY <1>2, <1>9 DEF Stos, Stores
<1>10. CASE Lods \/ Scas \/ Cmps
  BY <1>3, <1>10 DEF Lods, Scas, Cmps, Compare
<1>11. CASE Leave
  <2>1. UNCHANGED <<rdi, rdi0, fault, written>> /\ pc' \in {"exit", "done"}
        /\ noted' = IF insn.eng = "jit" /\ Stores(insn) THEN noted \cup Span ELSE noted
    BY <1>11 DEF Leave, regs, history
  <2>2. Span' = Span
    BY <2>1 DEF Span
  <2> QED
    BY <1>0, <2>1, <2>2 DEF Bookkeeping, Stores
<1>12. CASE MapPage
  <2>1. insn.eng # "jit"
    BY <1>12 DEF MapPage, Bookkeeping, Inv
  <2> QED
    BY <1>0, <1>12, <2>1 DEF MapPage, Bookkeeping, Stores, history
<1>13. CASE GiveUp \/ UNCHANGED vars
  <2>1. /\ UNCHANGED <<rdi, rdi0, fault, written, noted>>
        /\ pc' = pc \/ (pc = "exit" /\ pc' = "stopped")
    BY <1>13 DEF GiveUp, vars, regs, history
  <2>2. Span' = Span
    BY <2>1 DEF Span
  <2> QED
    BY <1>0, <2>1, <2>2 DEF Bookkeeping, Stores
<1> QED
  BY <1>5, <1>6, <1>7, <1>8, <1>9, <1>10, <1>11, <1>12, <1>13 DEF Next, Stutter

(* As long as rdi neither wraps around nor has upper bits, the addresses of *)
(* the elements lie between its values around the call.                     *)
LEMMA StraightIsSpanned ==
  ASSUME Inv, Progress, Bookkeeping, Straight, insn.eng = "jit", Stores(insn)
  PROVE  written \subseteq Span
<1> DEFINE d == Modulus(insn)
           lin(k) == start.rdi + (IF insn.df THEN -k ELSE k)
<1>1. /\ insn \in Insns /\ insn.dst = 0 /\ d \in Nat \ {0} /\ d <= Size /\ Size \in Nat \ {0}
      /\ start.rdi \in Nat /\ n \in Nat
  BY InsnsAssumption, SizeAssumption DEF Inv, Progress, Modulus
<1>2. start.rdi \in 0 .. d - 1
  BY <1>1 DEF Straight
<1>3. ASSUME NEW k \in 0 .. n PROVE lin(k) \in 0 .. d - 1
  BY <1>1 DEF Straight
<1>4. ASSUME NEW x \in 0 .. d - 1 PROVE (x % d) = x /\ (x % Size) = x
  <2>1. (x % d) = x
    BY <1>1, OffsetFacts
  <2>2. x \in 0 .. Size - 1 /\ x \in Int /\ 0 \in Int /\ x = Size * 0 + x
    BY <1>1
  <2>3. (x % Size) = x
    BY <1>1, <2>2, RemainderIsUnique
  <2> QED
    BY <2>1, <2>3
<1>5. ASSUME NEW k \in 0 .. n PROVE Moved(start.rdi, k) = lin(k)
  <2>1. (lin(k) % d) = lin(k) /\ Offset(insn, start.rdi) = start.rdi
    BY <1>2, <1>3, <1>4, Zenon DEF Offset
  <2>2. Moved(start.rdi, k) = IF insn.bits = 32 /\ k > 0 THEN lin(k) % d
                              ELSE (start.rdi - Offset(insn, start.rdi)) + (lin(k) % d)
    BY DEF Moved
  <2>3. lin(k) \in Int
    BY <1>3
  <2> HIDE DEF lin, d
  <2> QED
    BY <1>1, <2>1, <2>2, <2>3
<1>6. ASSUME NEW k \in 0 .. n PROVE dst_lin(insn, Moved(start.rdi, k)) = lin(k)
  <2>1. (lin(k) % d) = lin(k) /\ (lin(k) % Size) = lin(k) /\ lin(k) \in Int
    BY <1>3, <1>4
  <2> HIDE DEF lin
  <2> QED
    BY <1>1, <1>5, <2>1 DEF dst_lin, Offset
<1>7. rdi0 = start.rdi /\ rdi = lin(n)
  <2>1. n \in 0 .. n
    BY <1>1
  <2> QED
    BY <1>5, <2>1 DEF Bookkeeping, Progress, ProgressIsExact, Stores, UsesDst
<1>8. ASSUME NEW a \in written PROVE a \in Span
  <2>1. PICK k \in 0 .. n - 1 : a = dst_lin(insn, Moved(start.rdi, k))
    BY DEF Progress, ProgressIsExact
  <2>2. k \in 0 .. n /\ k < n
    BY <1>1
  <2>3. a = lin(k)
    BY <1>6, <2>1, <2>2
  <2> QED
    BY <1>1, <1>7, <2>2, <2>3 DEF Span
<1> QED
  BY <1>8

(* The interpreter reports each store as it makes it; compiled code reports *)
(* what lies between the values of RDI around the call, even when the call  *)
(* ends with a fault.  That covers every store if RDI runs straight.        *)
THEOREM StringStoresAreNoted == ASSUME RawSpan PROVE SafeSpec => []StoresAreNoted
<1>1. Inv /\ Progress /\ Bookkeeping => StoresAreNoted
  <2>1. SUFFICES ASSUME Inv, Progress, Bookkeeping, pc \in {"exit", "done", "stopped"},
                        ~(insn.eng = "jit" /\ ~Straight)
                 PROVE  written \subseteq noted
    BY DEF StoresAreNoted
  <2>2. CASE insn.eng = "interp"
    BY <2>1, <2>2 DEF Bookkeeping
  <2>3. CASE insn.eng = "jit" /\ ~Stores(insn)
    <3>1. written = {}
      BY <2>1, <2>3, Zenon DEF Bookkeeping
    <3> QED
      BY <3>1
  <2>4. CASE insn.eng = "jit" /\ Stores(insn)
    <3>1. Span \subseteq noted
      BY <2>1, <2>4, Zenon DEF Bookkeeping
    <3>2. written \subseteq Span
      BY <2>1, <2>4, StraightIsSpanned
    <3> QED
      BY <3>1, <3>2
  <2> QED
    <3>1. insn.eng \in {"interp", "jit"}
      BY <2>1, InsnsAssumption DEF Inv
    <3> QED
      BY <2>2, <2>3, <2>4, <3>1, Zenon
<1> QED
  BY <1>1, InvInitially, InvIsKept, ProgressInitially, ProgressIsKept, BookkeepingInitially,
     BookkeepingIsKept, PTL DEF SafeSpec
=============================================================================
