------------------------------ MODULE Strings -------------------------------
(* string_run_impl as both backends call it: the loop, one step per memory  *)
(* access, with the accesses that fail, the exit, the embedder that maps    *)
(* the page and resumes, and the notes of what was stored.                  *)
EXTENDS StringRegs

CONSTANTS Insns,      \* the instructions
          Memories,   \* initial contents of memory
          Pointers,   \* initial values of rsi and rdi
          Counts,     \* initial values of rcx
          PageSize,   \* cells of a page
          Top,        \* guest memory ends here
          RawSpan     \* spans string_helper notes wrongly are set aside

(* Only what is not real mode is compiled, and there ES has no base.        *)
ASSUME InsnsAssumption ==
  \A i \in Insns :
    /\ i.bits \in {16, 32, 64} /\ i.src \in Nat /\ i.dst \in Nat
    /\ i.eng \in {"interp", "jit"} /\ (i.eng = "jit" => i.dst = 0)
ASSUME StartAssumption == Pointers \subseteq Nat /\ Counts \subseteq Nat

VARIABLES insn, mem, rsi, rdi, rcx, rax, fl,
          pc,       \* place in string_run_impl, its caller or the embedder
          tmp,      \* the element loaded first
          fault,    \* the address that failed, or None
          rdi0,     \* string_helper's copy of rdi
          mapped,   \* mapped pages
          noted,    \* addresses passed to note_write
          start,    \* history: the registers at the start
          n,        \* history: elements completed
          written   \* history: addresses stored to

regs == <<rsi, rdi, rcx, rax, fl>>
history == <<start, n, written>>
vars == <<insn, mem, regs, pc, tmp, fault, rdi0, mapped, noted, history>>

None == -1
Pages == {a \div PageSize : a \in 0 .. Top - 1}

(* Compiled code takes an unmapped page as a host fault, which is not       *)
(* modelled: its pages are mapped.                                          *)
Init ==
  /\ insn \in Insns
  /\ mem \in Memories
  /\ rsi \in Pointers
  /\ rdi \in Pointers
  /\ rcx \in Counts
  /\ rax = 1
  /\ fl = <<0, 1>>
  /\ mapped \in IF insn.eng = "jit" THEN {Pages} ELSE {Pages, {}}
  /\ start = [rsi |-> rsi, rdi |-> rdi, rcx |-> rcx]
  /\ pc = "enter" /\ tmp = 0 /\ fault = None /\ rdi0 = rdi
  /\ noted = {} /\ n = 0 /\ written = {}

(* Memory::read and write find a region, RawStrMem::off a bound.            *)
Backed(a) == a < Top /\ (insn.eng = "interp" => a \div PageSize \in mapped)

Enter ==
  /\ pc = "enter"
  /\ rdi0' = rdi
  /\ fault' = None
  /\ pc' = "top"
  /\ UNCHANGED <<insn, mem, regs, tmp, mapped, noted, history>>

Finish ==
  /\ pc = "top"
  /\ Exhausted(insn, rcx)
  /\ pc' = "leave"
  /\ UNCHANGED <<insn, mem, regs, tmp, fault, rdi0, mapped, noted, history>>

From == src_lin(insn, rsi)
To == dst_lin(insn, rdi)
Running == pc = "top" /\ ~Exhausted(insn, rcx)
TwoAccesses == insn.op \in {"Movs", "Cmps"}

(* Mutant: a trap with the source pointer already moved.                    *)
TrapAdvances(a) ==
  /\ ~Backed(a)
  /\ fault' = a
  /\ pc' = "leave"
  /\ rsi' = NextRsi(insn, rsi)
  /\ UNCHANGED <<insn, mem, rdi, rcx, rax, fl, tmp, rdi0, mapped, noted, history>>

(* trap: RIP stays on the instruction and the loop returns.                 *)
Trap(a) ==
  /\ ~Backed(a)
  /\ fault' = a
  /\ pc' = "leave"
  /\ UNCHANGED <<insn, mem, regs, tmp, rdi0, mapped, noted, history>>

(* The pointers and the counter move once the element is complete.          *)
Completed ==
  /\ rsi' = NextRsi(insn, rsi)
  /\ rdi' = NextRdi(insn, rdi)
  /\ rcx' = NextRcx(insn, rcx)
  /\ n' = n + 1
  /\ pc' = IF Last(insn, fl') THEN "leave" ELSE "top"
  /\ UNCHANGED <<insn, tmp, fault, rdi0, mapped, start>>

LoadFirst ==
  /\ Running
  /\ TwoAccesses
  /\ Backed(From)
  /\ tmp' = mem[From]
  /\ pc' = "second"
  /\ UNCHANGED <<insn, mem, regs, fault, rdi0, mapped, noted, history>>
FaultFirst == Running /\ UsesSrc(insn) /\ Trap(From)

Store(v) ==
  /\ Backed(To)
  /\ mem' = [mem EXCEPT ![To] = v]
  /\ noted' = IF insn.eng = "interp" THEN noted \cup {To} ELSE noted
  /\ written' = written \cup {To}

Movs == pc = "second" /\ insn.op = "Movs" /\ Store(tmp) /\ UNCHANGED <<rax, fl>> /\ Completed
Stos == Running /\ insn.op = "Stos" /\ Store(rax) /\ UNCHANGED <<rax, fl>> /\ Completed
Lods ==
  /\ Running
  /\ insn.op = "Lods"
  /\ Backed(From)
  /\ rax' = mem[From]
  /\ UNCHANGED <<fl, mem, noted, written>>
  /\ Completed
Compare(a) ==
  /\ Backed(To)
  /\ fl' = <<a, mem[To]>>
  /\ UNCHANGED <<rax, mem, noted, written>>
Scas == Running /\ insn.op = "Scas" /\ Compare(rax) /\ Completed
Cmps == pc = "second" /\ insn.op = "Cmps" /\ Compare(tmp) /\ Completed

FaultSecond ==
  /\ pc = "second" \/ (Running /\ ~UsesSrc(insn))
  /\ Trap(To)

(* Mutant: only a call that ran to its end notes its stores.                *)
SpanOnSuccess ==
  IF fault # None \/ rdi = rdi0 THEN {}
  ELSE IF rdi0 < rdi THEN rdi0 .. rdi ELSE rdi .. rdi0

(* string_helper notes what lies between the values of rdi around the call. *)
Span ==
  IF rdi = rdi0 THEN {}
  ELSE IF rdi0 < rdi THEN rdi0 .. rdi ELSE rdi .. rdi0

Leave ==
  /\ pc = "leave"
  /\ noted' = IF insn.eng = "jit" /\ Stores(insn) THEN noted \cup Span ELSE noted
  /\ pc' = IF fault = None THEN "done" ELSE "exit"
  /\ UNCHANGED <<insn, mem, regs, tmp, fault, rdi0, mapped, history>>

(* The embedder maps the page the exit names, if there can be one there.    *)
MapPage ==
  /\ pc = "exit"
  /\ fault < Top
  /\ mapped' = mapped \cup {fault \div PageSize}
  /\ pc' = "enter"
  /\ UNCHANGED <<insn, mem, regs, tmp, fault, rdi0, noted, history>>
GiveUp ==
  /\ pc = "exit"
  /\ fault >= Top
  /\ pc' = "stopped"
  /\ UNCHANGED <<insn, mem, regs, tmp, fault, rdi0, mapped, noted, history>>

Stutter == pc \in {"done", "stopped"} /\ UNCHANGED vars

Next ==
  \/ Enter \/ Finish \/ LoadFirst \/ FaultFirst
  \/ Movs \/ Stos \/ Lods \/ Scas \/ Cmps \/ FaultSecond
  \/ Leave \/ MapPage \/ GiveUp \/ Stutter

SafeSpec == Init /\ [][Next]_vars
Spec == SafeSpec /\ WF_vars(Next)

-----------------------------------------------------------------------------

(* The loop is over once it has returned without a fault.                   *)
Over ==
  IF pc = "stopped" THEN "abandoned"
  ELSE IF pc \in {"leave", "done"} /\ fault = None THEN "done" ELSE "running"

Promise == INSTANCE RepLoop WITH over <- Over

(* However often string_run faults, between two elements or inside one, and *)
(* is started over, the guest sees each element processed once and whole,   *)
(* and the instruction ends.                                                *)
KeepsPromise == Promise!Spec

(* A register after k elements, without the loop.                           *)
Moved(reg, k) ==
  LET lo == (reg + (IF insn.df THEN -k ELSE k)) % Modulus(insn)
  IN IF insn.bits = 32 /\ k > 0 THEN lo ELSE (reg - Offset(insn, reg)) + lo

(* The pointers that string_run leaves at an exit or at the end are where n *)
(* elements put them, the counter has fallen by n, and each address stored  *)
(* to belongs to one of these elements.                                     *)
ProgressIsExact ==
  /\ rsi = IF UsesSrc(insn) THEN Moved(start.rsi, n) ELSE start.rsi
  /\ rdi = IF UsesDst(insn) THEN Moved(start.rdi, n) ELSE start.rdi
  /\ insn.rep # "None" => Offset(insn, rcx) = Offset(insn, start.rcx) - n
  /\ Stores(insn) => written = {dst_lin(insn, Moved(start.rdi, k)) : k \in 0 .. n - 1}

(* rdi stays within the address width, without upper bits and without       *)
(* wrapping around.                                                         *)
Straight ==
  /\ start.rdi < Modulus(insn)
  /\ IF insn.df THEN start.rdi - n >= 0 ELSE start.rdi + n < Modulus(insn)

(* When string_run has returned to the dispatcher, by a fault or at the     *)
(* end, every store it made was reported to note_write.                     *)
StoresAreNoted ==
  pc \in {"exit", "done", "stopped"} =>
    \/ written \subseteq noted
    \/ RawSpan /\ insn.eng = "jit" /\ ~Straight
=============================================================================
