------------------------------ MODULE RepLoop -------------------------------
(* What a string instruction promises: it processes its elements one at a   *)
(* time, each of them entirely, and ends after the last, or is given up     *)
(* between two of them.  There are no faults and no restarts here.          *)
EXTENDS StringRegs

VARIABLES insn, mem, rsi, rdi, rcx, rax, fl,
          over    \* "running", "done" or "abandoned"

vars == <<insn, mem, rsi, rdi, rcx, rax, fl, over>>

Src == mem[src_lin(insn, rsi)]
Dst == mem[dst_lin(insn, rdi)]

Init == over = "running"

Element ==
  /\ over = "running"
  /\ ~Exhausted(insn, rcx)
  /\ mem' = IF Stores(insn)
            THEN [mem EXCEPT ![dst_lin(insn, rdi)] = IF insn.op = "Movs" THEN Src ELSE rax]
            ELSE mem
  /\ rax' = IF insn.op = "Lods" THEN Src ELSE rax
  /\ fl' = IF Compares(insn) THEN <<IF insn.op = "Cmps" THEN Src ELSE rax, Dst>> ELSE fl
  /\ rsi' = NextRsi(insn, rsi)
  /\ rdi' = NextRdi(insn, rdi)
  /\ rcx' = NextRcx(insn, rcx)
  /\ over' = IF Last(insn, fl') THEN "done" ELSE "running"
  /\ UNCHANGED insn

End ==
  /\ over = "running"
  /\ Exhausted(insn, rcx)
  /\ over' = "done"
  /\ UNCHANGED <<insn, mem, rsi, rdi, rcx, rax, fl>>

Abandon ==
  /\ over = "running"
  /\ over' = "abandoned"
  /\ UNCHANGED <<insn, mem, rsi, rdi, rcx, rax, fl>>

Next == Element \/ End \/ Abandon

SafeSpec == Init /\ [][Next]_vars
Spec == SafeSpec /\ WF_vars(Next)
=============================================================================
