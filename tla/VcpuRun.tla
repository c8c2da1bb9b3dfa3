------------------------------ MODULE VcpuRun ------------------------------
(***************************************************************************)
(* Vcpu::run and its embedder: the block budget, exits, the completion of  *)
(* MMIO and port accesses by re-execution, hardware interrupts, and the    *)
(* retired-instruction counter (vm.rs run_inner, inject_irq, complete_*;   *)
(* interp: step_one, interpret_block, exec_load, exec_store, vpart,        *)
(* deliver_interrupt).  What happens to translations is in Smc and TierUp; *)
(* here a dispatched block is interpreted or compiled, as it comes.        *)
(*                                                                         *)
(* The guest program is a sequence of instructions.  An instruction makes  *)
(* its memory transfers in order, then does what its kind says.  A device  *)
(* (Trap region) answers a read with a value that names the transfer.      *)
(***************************************************************************)
EXTENDS Integers, Sequences, FiniteSets

CONSTANTS
  Guests,    \* what the embedder may run: see Guest
  Dev,       \* addresses in Trap regions
  Window,    \* addresses in trap_window, the hull of the Trap regions
  Unmapped,  \* addresses no region holds until the embedder maps them
  Budgets,   \* the budgets run() is called with; None is no budget
  Wrap,      \* bound: instruction counters count modulo Wrap
  None

Kinds == {"plain", "jmp", "in", "out", "hlt", "sti", "cli", "div", "iret"}
Ops == {"load", "store", "vload", "vstore", "rmw"}

(* A guest: its program, instruction number -> [ops, kind, end, to]; its   *)
(* mode (Real16 is interpreted only and takes interrupts); the instruction *)
(* the IVT leads to; the words its stack takes before it leaves its region. *)
Guest(g) ==
  /\ DOMAIN g.prog \subseteq Nat
  /\ \A i \in DOMAIN g.prog :
       /\ g.prog[i].kind \in Kinds /\ g.prog[i].end \in BOOLEAN
       /\ g.prog[i].to \subseteq DOMAIN g.prog
       /\ Len(g.prog[i].ops) \in Nat /\ DOMAIN g.prog[i].ops = 1 .. Len(g.prog[i].ops)
       /\ \A j \in DOMAIN g.prog[i].ops : g.prog[i].ops[j].op \in Ops
  /\ g.handler \in DOMAIN g.prog /\ g.real16 \in BOOLEAN /\ g.stack \in Nat

(* The addresses the guests name, the values a transfer gets, the exits.   *)
GuestAddrs ==
  UNION {UNION {{g.prog[i].ops[j].at : j \in DOMAIN g.prog[i].ops} : i \in DOMAIN g.prog} :
         g \in Guests}
Values == [at : GuestAddrs \cup {None}, inst : 0 .. Wrap - 1]
Exits == {"MmioRead", "MmioWrite", "UnmappedMemory", "In", "Out", "Hlt", "Exception",
          "BudgetExhausted"}

ASSUME GuestsAssumption == \A g \in Guests : Guest(g)
ASSUME BoundsAssumption == Wrap \in Nat \ {0} /\ Budgets \subseteq Nat \cup {None}
ASSUME RegionsAssumption ==
  Dev \subseteq Window /\ Dev \cap Unmapped = {} /\ "stack" \notin Dev

ASSUME NoneAssumption ==
  None \notin Values /\ None \notin [why : Exits, at : GuestAddrs \cup {None, "stack"}]

VARIABLES
  guest,               \* the guest this Vm runs
  rip, if_,            \* CpuState: the instruction to run, flags.if_
  stk,                 \* words on the real-mode stack
  pending_mmio,        \* value complete_mmio_read left, or None
  pending_mmio_write,  \* complete_mmio_write was called
  pending_port_in,     \* an `in` awaits its value
  parts,               \* mmio_parts: [rip, val], val: address -> answer or None
  pending_irq,         \* a vector is queued
  sti_shadow,          \* the STI-shadow latch
  retired,             \* Vcpu::retired
  left,                \* budget less blocks_run, None in a run() without budget
  at,                  \* "out", "top", or how instructions run: see Walks
  k,                   \* the transfer of the instruction that comes next
  info,                \* RetireInfo::retired of this walk, last instruction aside
  exit,                \* the Exit run() returned, until the embedder serves it
  holes,               \* addresses of Unmapped not mapped yet, "stack" included
  inst,                \* history: number of the instruction under way
  completed,           \* history: of those, on the interpreter
  got,                 \* history: what each transfer of the instruction got
  asked,               \* history: address -> exits answered for it, capped at 2
  last                 \* history: the instruction completed last: see Completed

completion == <<pending_mmio, pending_mmio_write, pending_port_in, parts>>
cpu == <<rip, if_, stk>>
history == <<inst, completed, got, asked, last>>
space == <<guest, holes>>
vars == <<cpu, completion, pending_irq, sti_shadow, retired, left, at, k, info, exit,
          space, history>>

Prog == guest.prog
Real16 == guest.real16
Handler == guest.handler
Stack == guest.stack
Insns == DOMAIN Prog
Addrs == UNION {{Prog[i].ops[j].at : j \in DOMAIN Prog[i].ops} : i \in Insns}

(* step_one for a completion, step_one for a deferred access, an           *)
(* interpreted block, a compiled block.                                    *)
Walks == {"retry", "defer", "interp", "comp"}

Interpreting == at \in {"retry", "defer", "interp"}

NoParts == [rip |-> 0, val |-> [a \in Addrs |-> None]]
Op == Prog[rip].ops[k]

(* The instruction at rip has a transfer to make.                          *)
Walking == at \in Walks /\ rip \in Insns /\ k <= Len(Prog[rip].ops)

(* What the device answers to the transfer under way; what memory, or an   *)
(* acknowledged write, leaves in its place.                                *)
Answer(a) == [at |-> a, inst |-> inst]
Plain == [at |-> None, inst |-> 0]
-----------------------------------------------------------------------------
Init ==
  /\ guest \in Guests
  /\ rip = 1 /\ if_ = FALSE /\ stk = <<>>
  /\ pending_mmio = None /\ pending_mmio_write = FALSE /\ pending_port_in = FALSE
  /\ parts = NoParts /\ pending_irq = FALSE /\ sti_shadow = FALSE /\ retired = 0
  /\ left = None /\ at = "out" /\ k = 1 /\ info = 0 /\ exit = None
  /\ holes = Unmapped \cup {"stack"}
  /\ inst = 0 /\ completed = 0 /\ got = <<>> /\ asked = [a \in Addrs |-> 0]
  /\ last = [kind |-> "plain", got |-> <<>>, asked |-> {}]
-----------------------------------------------------------------------------
(* The embedder serves the exit: complete_mmio_read, complete_mmio_write,  *)
(* complete_port_in, mapping what was missing, or nothing.                 *)
Serve ==
  /\ at = "out" /\ exit # None
  /\ exit' = None
  /\ pending_mmio' = IF exit.why = "MmioRead" THEN Answer(exit.at) ELSE pending_mmio
  /\ pending_mmio_write' = (exit.why = "MmioWrite" \/ pending_mmio_write)
  /\ pending_port_in' = (exit.why # "In" /\ pending_port_in)
  /\ holes' = IF exit.why = "UnmappedMemory" THEN holes \ {exit.at} ELSE holes
  /\ asked' = IF exit.why \in {"MmioRead", "MmioWrite"}
              THEN [asked EXCEPT ![exit.at] = IF @ = 2 THEN 2 ELSE @ + 1] ELSE asked
  /\ UNCHANGED <<guest, cpu, parts, pending_irq, sti_shadow, retired, left, at, k, info,
                 inst, completed, got, last>>

(* inject_irq: one vector is queued at a time.                             *)
InjectIrq ==
  /\ at = "out" /\ Real16 /\ ~pending_irq
  /\ pending_irq' = TRUE
  /\ UNCHANGED <<cpu, completion, sti_shadow, retired, left, at, k, info, exit,
                 space, history>>

(* run() is called again.                                                  *)
Enter ==
  /\ at = "out" /\ exit = None
  /\ at' = "top" /\ left' \in Budgets
  /\ UNCHANGED <<cpu, completion, pending_irq, sti_shadow, retired, k, info, exit, space,
                 history>>

(* run() returns.                                                          *)
Leave(why, a) == at' = "out" /\ exit' = [why |-> why, at |-> a]
-----------------------------------------------------------------------------
OutOfBudget == left = 0

(* blocks_run += 1.                                                        *)
Spend == left' = IF left = None THEN None ELSE left - 1

TopBudget ==
  /\ at = "top" /\ OutOfBudget
  /\ Leave("BudgetExhausted", None)
  /\ UNCHANGED <<cpu, completion, pending_irq, sti_shadow, retired, left, k, info,
                 space, history>>

(* A walk over instructions begins at rip.                                 *)
Begin(how) ==
  /\ at' = how /\ k' = 1 /\ info' = 0 /\ got' = <<>>
  /\ UNCHANGED <<cpu, completion, pending_irq, retired, exit, space, inst, completed,
                 asked, last>>

Completion == pending_mmio # None \/ pending_mmio_write

(* run_inner: a completion is consumed by single-stepping the instruction  *)
(* that waits for it.                                                      *)
TopRetry ==
  /\ at = "top" /\ ~OutOfBudget /\ Completion
  /\ Begin("retry")
  /\ UNCHANGED <<sti_shadow, left>>

Deliverable == pending_irq /\ if_ /\ ~pending_port_in /\ ~sti_shadow

(* The words deliver_interrupt pushes: FLAGS, CS, IP.                      *)
Frame(saved) == <<[if_ |-> if_], "cs", [ip |-> saved]>>

StackFits == "stack" \notin holes \/ Len(stk) + 3 <= Stack

(* deliver_interrupt: push the frame, clear IF, go through the IVT.        *)
Vector(saved) ==
  /\ StackFits
  /\ stk' = stk \o Frame(saved) /\ if_' = FALSE /\ rip' = Handler

(* deliver_interrupt, a push leaves the mapped stack: the words pushed     *)
(* before stay, rip is left at cur_addr.                                   *)
VectorFaults(saved) ==
  /\ ~StackFits
  /\ stk' = stk \o SubSeq(Frame(saved), 1, Stack - Len(stk))
  /\ Leave("UnmappedMemory", "stack")
  /\ UNCHANGED <<rip, if_>>

(* Mutant: the shadow does not hold an interrupt back.                     *)
TopIrqInShadow ==
  /\ at = "top" /\ ~OutOfBudget /\ ~Completion
  /\ pending_irq /\ if_ /\ ~pending_port_in
  /\ Vector(rip)
  /\ pending_irq' = FALSE /\ sti_shadow' = FALSE /\ Spend
  /\ UNCHANGED <<completion, retired, at, k, info, exit, space, history>>

(* Mutant: an interrupt does not wait for a completion.                    *)
TopIrqEarly ==
  /\ at = "top" /\ ~OutOfBudget /\ Deliverable
  /\ Vector(rip)
  /\ pending_irq' = FALSE /\ sti_shadow' = FALSE /\ Spend
  /\ UNCHANGED <<completion, retired, at, k, info, exit, space, history>>

(* run_inner: a queued interrupt is delivered at a block boundary.         *)
TopIrq ==
  /\ at = "top" /\ ~OutOfBudget /\ ~Completion /\ Deliverable
  /\ Vector(rip)
  /\ pending_irq' = FALSE /\ sti_shadow' = FALSE /\ Spend
  /\ UNCHANGED <<completion, retired, at, k, info, exit, space, history>>

(* run_inner: the vector is taken off the queue before the pushes.         *)
TopIrqFaults ==
  /\ at = "top" /\ ~OutOfBudget /\ ~Completion /\ Deliverable
  /\ VectorFaults(rip)
  /\ pending_irq' = FALSE
  /\ UNCHANGED <<completion, sti_shadow, retired, left, k, info, space, history>>

(* run_inner: the block at rip, interpreted or compiled.                   *)
TopDispatch(how) ==
  /\ at = "top" /\ ~OutOfBudget /\ ~Completion /\ ~Deliverable
  /\ how \in {"interp", "comp"} /\ (Real16 => how = "interp")
  /\ Begin(how)
  /\ UNCHANGED <<sti_shadow, left>>
-----------------------------------------------------------------------------
(* Mutant: the shadow is not lifted by the next instruction.               *)
RetireKeepsShadow(moved) ==
  /\ retired' = IF Interpreting THEN (retired + info + (IF moved THEN 1 ELSE 0)) % Wrap
                ELSE retired
  /\ sti_shadow' = (sti_shadow \/ (moved /\ Prog[rip].kind = "sti"))

(* interpret_block returns to its caller with rip moved or not: the last   *)
(* instruction is retired if rip moved off it.  A deferred access leaves   *)
(* the shadow latch alone.                                                 *)
Retire(moved) ==
  /\ retired' = IF Interpreting THEN (retired + info + (IF moved THEN 1 ELSE 0)) % Wrap
                ELSE retired
  /\ sti_shadow' = IF at \in {"retry", "interp"} THEN moved /\ Prog[rip].kind = "sti"
                   ELSE sti_shadow

(* Mutant: an interpreted block is not charged to the budget.              *)
ChargeCompiled(continues) ==
  IF at = "comp" \/ (at = "retry" /\ continues) THEN Spend ELSE UNCHANGED left

(* Blocks charged when the walk ends: a compiled one always, before its    *)
(* exit is looked at; an interpreted one only if run() goes on.            *)
Charge(continues) ==
  IF at = "comp" \/ (at # "defer" /\ continues) THEN Spend ELSE UNCHANGED left

(* A transfer is served; the walk goes on with the next one.               *)
Transferred(v) ==
  /\ k' = k + 1 /\ got' = Append(got, v)
  /\ UNCHANGED <<cpu, pending_port_in, pending_irq, sti_shadow, retired, left, at,
                 info, exit, space, inst, completed, asked, last>>

(* trap_out: rip stays on the instruction, run() returns.                  *)
TrapOut(why) ==
  /\ Leave(why, Op.at)
  /\ Retire(FALSE) /\ Charge(FALSE)
  /\ UNCHANGED <<cpu, completion, pending_irq, k, info, space, history>>

(* An access to plain memory; a scalar load would take a completion first. *)
Ram ==
  /\ Walking /\ Op.at \notin Dev \cup holes
  /\ at = "comp" => Op.at \notin Window
  /\ Interpreting /\ Op.op = "load" => pending_mmio = None
  /\ Transferred(Plain)
  /\ UNCHANGED <<pending_mmio, pending_mmio_write, parts>>

(* Compiled code hands an access in the trap window to the interpreter     *)
(* (RET_MMIO_DEFER); instructions before it have been run.                 *)
Defer ==
  /\ Walking /\ at = "comp" /\ Op.at \in Window
  /\ at' = "defer" /\ k' = 1 /\ info' = 0 /\ got' = <<>>
  /\ Charge(TRUE)
  /\ UNCHANGED <<cpu, completion, pending_irq, sti_shadow, retired, exit, space, inst,
                 completed, asked, last>>

(* No region holds the address.                                            *)
Miss ==
  /\ Walking /\ Op.at \in holes
  /\ at = "comp" => Op.at \notin Window
  /\ Interpreting /\ Op.op = "load" => pending_mmio = None
  /\ TrapOut("UnmappedMemory")

(* Mutant: the value stays for the next load.                              *)
LoadKeeps ==
  /\ Walking /\ Interpreting /\ Op.op = "load" /\ pending_mmio # None
  /\ Transferred(pending_mmio)
  /\ UNCHANGED <<pending_mmio, pending_mmio_write, parts>>

(* exec_load: the first load takes the completion, whatever its address.   *)
LoadTakes ==
  /\ Walking /\ Interpreting /\ Op.op = "load" /\ pending_mmio # None
  /\ Transferred(pending_mmio)
  /\ pending_mmio' = None
  /\ UNCHANGED <<pending_mmio_write, parts>>

(* Mutant: the acknowledgement is not looked at.                           *)
StoreNotAcked ==
  /\ Walking /\ Interpreting /\ Op.op = "store" /\ Op.at \in Dev /\ pending_mmio_write
  /\ TrapOut("MmioWrite")

(* exec_store: an acknowledged device write is skipped.                    *)
StoreAcked ==
  /\ Walking /\ Interpreting /\ Op.op = "store" /\ Op.at \in Dev /\ pending_mmio_write
  /\ Transferred(Plain)
  /\ pending_mmio_write' = FALSE
  /\ UNCHANGED <<pending_mmio, parts>>

Part(a) == IF parts.rip = rip THEN parts.val[a] ELSE None

(* record_mmio_part: entries of another instruction are discarded.         *)
Recorded(a, v) ==
  [rip |-> rip,
   val |-> [IF parts.rip = rip THEN parts.val ELSE NoParts.val EXCEPT ![a] = v]]

(* vpart, vpart_store: a transfer answered in an earlier attempt.          *)
PartKnown ==
  /\ Walking /\ Interpreting /\ Op.op \in {"vload", "vstore"} /\ Part(Op.at) # None
  /\ Transferred(Part(Op.at))
  /\ UNCHANGED <<pending_mmio, pending_mmio_write, parts>>

(* Mutant: the answer is used and not recorded.                            *)
PartForgotten ==
  /\ Walking /\ Interpreting /\ Op.op = "vload" /\ Op.at \in Dev
  /\ Part(Op.at) = None /\ pending_mmio # None
  /\ Transferred(pending_mmio)
  /\ pending_mmio' = None
  /\ UNCHANGED <<pending_mmio_write, parts>>

(* vpart: a device transfer takes the answer and records it.               *)
PartLoad ==
  /\ Walking /\ Interpreting /\ Op.op = "vload" /\ Op.at \in Dev
  /\ Part(Op.at) = None /\ pending_mmio # None
  /\ Transferred(pending_mmio)
  /\ parts' = Recorded(Op.at, pending_mmio) /\ pending_mmio' = None
  /\ UNCHANGED pending_mmio_write

(* vpart_store: likewise, with a value nobody reads.                       *)
PartStore ==
  /\ Walking /\ Interpreting /\ Op.op = "vstore" /\ Op.at \in Dev
  /\ Part(Op.at) = None /\ pending_mmio_write
  /\ Transferred(Plain)
  /\ parts' = Recorded(Op.at, Plain) /\ pending_mmio_write' = FALSE
  /\ UNCHANGED pending_mmio

(* A device access with nothing to consume: run() returns MmioRead or      *)
(* MmioWrite.  A locked operation never consumes anything.                 *)
Trap ==
  /\ Walking /\ Interpreting /\ Op.at \in Dev
  /\ Op.op = "load" => pending_mmio = None
  /\ Op.op = "store" => ~pending_mmio_write
  /\ Op.op = "vload" => Part(Op.at) = None /\ pending_mmio = None
  /\ Op.op = "vstore" => Part(Op.at) = None /\ ~pending_mmio_write
  /\ TrapOut(IF Op.op \in {"load", "vload"} THEN "MmioRead" ELSE "MmioWrite")
-----------------------------------------------------------------------------
(* All transfers of the instruction have been made.                        *)
Done(kinds) ==
  at \in Walks /\ rip \in Insns /\ k > Len(Prog[rip].ops) /\ Prog[rip].kind \in kinds

(* History of a completed instruction: what its transfers got, and which   *)
(* addresses the embedder was asked for, how often.                        *)
Completed ==
  /\ inst' = (inst + 1) % Wrap
  /\ completed' = IF Interpreting THEN (completed + 1) % Wrap ELSE completed
  /\ asked' = [a \in Addrs |-> 0]
  /\ last' = [kind |-> Prog[rip].kind, got |-> got,
              asked |-> {<<a, asked[a]>> : a \in {b \in Addrs : asked[b] # 0}}]

(* The walk ends and run() goes on at the top of its loop.                 *)
BackToTop ==
  /\ at' = "top"
  /\ parts' = IF at = "retry" THEN NoParts ELSE parts
  /\ Retire(TRUE) /\ Charge(TRUE)
  /\ UNCHANGED <<pending_mmio, pending_mmio_write, pending_port_in, pending_irq, k, info,
                 exit, space, got>>

(* IF after the instruction.                                               *)
NewIf == IF Prog[rip].kind \in {"sti", "cli"} THEN Prog[rip].kind = "sti" ELSE if_

(* Mutant: the instruction that follows is counted as well.                *)
NextInsnTwice ==
  /\ Done({"plain", "sti", "cli", "div"}) /\ at \in {"interp", "comp"} /\ ~Prog[rip].end
  /\ rip' = rip + 1 /\ k' = 1 /\ info' = info + 2 /\ got' = <<>>
  /\ if_' = NewIf
  /\ Completed
  /\ UNCHANGED <<stk, completion, pending_irq, sti_shadow, retired, left, at, exit,
                 space>>

(* The block goes on with its next instruction.                            *)
NextInsn ==
  /\ Done({"plain", "sti", "cli", "div"}) /\ at \in {"interp", "comp"} /\ ~Prog[rip].end
  /\ rip' = rip + 1 /\ k' = 1 /\ info' = info + 1 /\ got' = <<>>
  /\ if_' = NewIf
  /\ Completed
  /\ UNCHANGED <<stk, completion, pending_irq, sti_shadow, retired, left, at, exit,
                 space>>

(* The last instruction of a block or of a single step.                    *)
EndWalk ==
  /\ Done({"plain", "sti", "cli", "div", "jmp"})
  /\ at \in {"interp", "comp"} => Prog[rip].end
  /\ rip' \in IF Prog[rip].kind = "jmp" THEN Prog[rip].to ELSE {rip + 1}
  /\ if_' = NewIf
  /\ Completed /\ BackToTop
  /\ UNCHANGED stk

(* exec_iret_real: pop IP, CS and FLAGS.                                   *)
Iret ==
  /\ Done({"iret"}) /\ Len(stk) >= 3
  /\ rip' = stk[Len(stk)].ip /\ if_' = stk[Len(stk) - 2].if_
  /\ stk' = SubSeq(stk, 1, Len(stk) - 3)
  /\ Completed /\ BackToTop

(* exec_hlt, exec_port_io: rip past the instruction, run() returns.  A     *)
(* compiled block defers port I/O to a single step.                        *)
ExitInsn ==
  /\ Done({"hlt", "in", "out"})
  /\ at = "comp" => Prog[rip].kind = "hlt"
  /\ rip' = rip + 1
  /\ Leave([hlt |-> "Hlt", in |-> "In", out |-> "Out"][Prog[rip].kind], None)
  /\ pending_port_in' = (Prog[rip].kind = "in" \/ pending_port_in)
  /\ Retire(TRUE) /\ Charge(FALSE) /\ Completed
  /\ UNCHANGED <<if_, stk, pending_mmio, pending_mmio_write, parts, pending_irq, k, info,
                 space, got>>

(* RET_PORTIO_DEFER.                                                       *)
PortDefer ==
  /\ Done({"in", "out"}) /\ at = "comp"
  /\ at' = "defer" /\ k' = 1 /\ info' = 0 /\ got' = <<>>
  /\ Charge(TRUE)
  /\ UNCHANGED <<cpu, completion, pending_irq, sti_shadow, retired, exit, space, inst,
                 completed, asked, last>>

(* exec_div with divisor zero: rip on the instruction, Exit::Exception.    *)
(* run_inner keeps it inside the guest in real mode, for a block.          *)
DivExits ==
  /\ Done({"div"}) /\ ~(Real16 /\ at = "interp")
  /\ Leave("Exception", None)
  /\ Retire(FALSE) /\ Charge(FALSE)
  /\ UNCHANGED <<cpu, completion, pending_irq, k, info, space, history>>

DivVectors ==
  /\ Done({"div"}) /\ Real16 /\ at = "interp"
  /\ Vector(rip)
  /\ at' = "top" /\ Retire(FALSE) /\ Charge(TRUE)
  /\ UNCHANGED <<completion, pending_irq, k, info, exit, space, history>>

DivFaults ==
  /\ Done({"div"}) /\ Real16 /\ at = "interp"
  /\ VectorFaults(rip)
  /\ Retire(FALSE) /\ Charge(FALSE)
  /\ UNCHANGED <<completion, pending_irq, k, info, space, history>>
-----------------------------------------------------------------------------
Embedder == Serve \/ Enter

Top ==
  \/ TopBudget \/ TopRetry \/ TopIrq \/ TopIrqFaults
  \/ \E how \in {"interp", "comp"} : TopDispatch(how)

Transfer ==
  \/ Ram \/ Defer \/ Miss \/ LoadTakes \/ StoreAcked \/ PartKnown \/ PartLoad \/ PartStore
  \/ Trap

Finish ==
  \/ NextInsn \/ EndWalk \/ Iret \/ ExitInsn \/ PortDefer
  \/ DivExits \/ DivVectors \/ DivFaults

Next == Embedder \/ InjectIrq \/ Top \/ Transfer \/ Finish

Spec == Init /\ [][Next]_vars

(* run() runs, and the embedder serves every exit and calls run() again.   *)
FairSpec == Spec /\ WF_vars(Embedder \/ Top \/ Transfer \/ Finish)
-----------------------------------------------------------------------------
(* Types; rip is always on an instruction, a run stays in its budget (the  *)
(* fuel passed to a block, budget - blocks_run, does not underflow).       *)
TypeOK ==
  /\ rip \in Insns /\ if_ \in BOOLEAN /\ at \in Walks \cup {"out", "top"}
  /\ pending_mmio_write \in BOOLEAN /\ pending_port_in \in BOOLEAN
  /\ pending_irq \in BOOLEAN /\ sti_shadow \in BOOLEAN
  /\ retired \in 0 .. Wrap - 1 /\ k \in Nat /\ info \in Nat
  /\ exit # None => exit.why \in Exits /\ at = "out"
  /\ left # None => left \in Nat

(* What an instruction may do for completion by re-execution to be sound:  *)
(* no locked access to a device; a scalar access to a device is the only   *)
(* device access, vector ones at an address are of one kind; no load of    *)
(* memory comes before a device read, since it would take the answer; past *)
(* a device access nothing can fail.                                       *)
Restartable(insn) ==
  LET ops == insn.ops
      D == {j \in DOMAIN ops : ops[j].at \in Dev}
  IN  /\ D # {} => insn.kind \notin {"hlt", "in", "out", "div"}
      /\ \A j \in D :
           /\ ops[j].op # "rmw"
           /\ ops[j].op \in {"load", "store"} => D = {j}
           /\ ops[j].op \in {"load", "vload"} => \A i \in 1 .. j - 1 : ops[i].op # "load"
           /\ \A i \in DOMAIN ops : i > j => ops[i].at \notin Unmapped \cup {"stack"}
           /\ \A i \in D : ops[i].at = ops[j].at => ops[i].op = ops[j].op

RestartableGuest(g) == \A i \in DOMAIN g.prog : Restartable(g.prog[i])

AllRestartable == \A g \in Guests : RestartableGuest(g)

(* The instruction behind a sti of a real-mode guest cannot leave its      *)
(* attempt unfinished: it cannot trap.                                     *)
NoTrapBehindSti(g) ==
  \A i \in DOMAIN g.prog :
    g.real16 /\ i - 1 \in DOMAIN g.prog /\ g.prog[i - 1].kind = "sti" =>
      /\ g.prog[i].kind # "div"
      /\ \A j \in DOMAIN g.prog[i].ops :
           g.prog[i].ops[j].at \notin Dev \cup Unmapped \cup {"stack"}

NoTrapAfterSti == \A g \in Guests : NoTrapBehindSti(g)

(* Completion by re-execution: when an instruction has made its transfers, *)
(* each got what it asked for, memory its contents and a device the answer *)
(* to this very transfer, not to another one or to an earlier execution.   *)
ValuesAreRight ==
  Interpreting => \A j \in DOMAIN got :
    LET o == Prog[rip].ops[j]
    IN  got[j] = IF o.at \in Dev /\ o.op \in {"load", "vload"} THEN Answer(o.at) ELSE Plain

(* "Its effects commit exactly once" (complete_mmio_write): the embedder   *)
(* performs a device access once for an execution of the instruction,      *)
(* however often the instruction is started over.                          *)
AskedOnce == \A a \in Addrs : asked[a] <= 1

(* interpret_block's rule for the last instruction: across traps, retries  *)
(* and single steps the counter counts every instruction the interpreter   *)
(* completes once.                                                         *)
RetiredIsExact == at \in {"out", "top"} => retired = completed

(* A guest whose embedder serves its exits gets on: no instruction is      *)
(* started over for ever, unless it raises an exception each time.         *)
InstructionCompletes ==
  \A n \in 0 .. Wrap - 1 :
    inst = n ~> (inst # n \/ (exit # None /\ exit.why = "Exception"))

(* Preemption: run() with a budget returns, even if the guest loops.       *)
RunReturns == (left # None /\ at # "out") ~> at = "out"

(* An interrupt is taken by this step.                                     *)
Delivery == pending_irq /\ ~pending_irq' /\ rip' = Handler /\ Len(stk') = Len(stk) + 3

(* "sti masks interrupt delivery for the duration of the following         *)
(* instruction" (sti_shadow).                                              *)
ShadowHolds == [][Delivery => last.kind # "sti"]_vars

(* "A partially-serviced MMIO/in must finish first" (run_inner): no        *)
(* interrupt comes between the embedder's answer and the end of the        *)
(* instruction.                                                            *)
NothingHalfDone ==
  [][Delivery => ~pending_port_in /\ \A a \in Addrs : asked[a] = 0]_vars

(* A queued interrupt is delivered, in a guest that keeps enabling IF.     *)
IrqIsDelivered == pending_irq ~> ~pending_irq

(* "Never silently dropped" (inject_irq): a vector leaves the queue only   *)
(* into its handler.                                                       *)
IrqNotDropped == [][pending_irq /\ ~pending_irq' => Delivery]_vars

(* "In real mode a CPU exception is delivered in-guest through the IVT,    *)
(* not surfaced to the embedder" (run_inner).                              *)
ExceptionsStayInGuest == Real16 /\ exit # None => exit.why # "Exception"

Cpu == INSTANCE GuestCpu

(* What the embedder of a guest of restartable instructions sees is a CPU  *)
(* that executes whole instructions.                                       *)
ExecutesWhole == Cpu!Spec
=============================================================================
