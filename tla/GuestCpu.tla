------------------------------ MODULE GuestCpu ------------------------------
(***************************************************************************)
(* The CPU that run(), inject_irq and complete_* show their embedder: it   *)
(* executes whole instructions one after the other, each with the right    *)
(* value for every transfer and one device access for every device address *)
(* it names, and vectors only between instructions.  Exits, budgets, block *)
(* boundaries, deferrals and attempts that are started over do not exist   *)
(* here.                                                                   *)
(***************************************************************************)
EXTENDS Integers, Sequences

CONSTANTS Guests, Dev, Wrap, None

VARIABLES guest, rip, if_, stk,  \* as in VcpuRun
          inst,                  \* number of instructions executed, modulo Wrap
          last                   \* the instruction executed last

state == <<guest, rip, if_, stk, inst, last>>

Insn == guest.prog[rip]

Init ==
  /\ guest \in Guests /\ rip = 1 /\ if_ = FALSE /\ stk = <<>> /\ inst = 0
  /\ last = [kind |-> "plain", got |-> <<>>, asked |-> {}]

(* A device read gets the device's answer to this instruction, any other   *)
(* transfer what memory holds.                                             *)
Value(o) ==
  IF o.at \in Dev /\ o.op \in {"load", "vload"} THEN [at |-> o.at, inst |-> inst]
  ELSE [at |-> None, inst |-> 0]

DeviceAddrs == {Insn.ops[j].at : j \in DOMAIN Insn.ops} \cap Dev

Goes ==
  CASE Insn.kind = "jmp" -> rip' \in Insn.to /\ UNCHANGED <<if_, stk>>
    [] Insn.kind = "iret" ->
         /\ Len(stk) >= 3
         /\ rip' = stk[Len(stk)].ip /\ if_' = stk[Len(stk) - 2].if_
         /\ stk' = SubSeq(stk, 1, Len(stk) - 3)
    [] OTHER ->
         /\ rip' = rip + 1 /\ stk' = stk
         /\ if_' = IF Insn.kind \in {"sti", "cli"} THEN Insn.kind = "sti" ELSE if_

Execute ==
  /\ rip \in DOMAIN guest.prog
  /\ Goes
  /\ last' = [kind |-> Insn.kind, got |-> [j \in DOMAIN Insn.ops |-> Value(Insn.ops[j])],
              asked |-> {<<a, 1>> : a \in DeviceAddrs}]
  /\ inst' = (inst + 1) % Wrap
  /\ guest' = guest

(* An interrupt with IF set, or the exception of a division.               *)
Raised == guest.real16 /\ (if_ \/ (rip \in DOMAIN guest.prog /\ Insn.kind = "div"))

Frame == <<[if_ |-> if_], "cs", [ip |-> rip]>>

Deliver ==
  /\ Raised
  /\ stk' = stk \o Frame /\ if_' = FALSE /\ rip' = guest.handler
  /\ UNCHANGED <<guest, inst, last>>

(* The frame does not fit: its first words are pushed, nothing else.       *)
Overflow ==
  /\ Raised /\ ~(Len(stk) + 3 <= guest.stack)
  /\ stk' = stk \o SubSeq(Frame, 1, guest.stack - Len(stk))
  /\ UNCHANGED <<guest, rip, if_, inst, last>>

Next == Execute \/ Deliver \/ Overflow

Spec == Init /\ [][Next]_state
=============================================================================
