----------------------------- MODULE MCVcpuRun -----------------------------
(* Guest programs for VcpuRun.  d1 and d2 are device registers, w is plain *)
(* memory between them (inside trap_window), r plain memory elsewhere, h   *)
(* an address the embedder maps when the guest first touches it.           *)
EXTENDS VcpuRun

I(kind, ops) == [ops |-> ops, kind |-> kind, end |-> FALSE, to |-> {}]
EndOf(i) == [i EXCEPT !.end = TRUE]
Jmp(to) == [ops |-> <<>>, kind |-> "jmp", end |-> TRUE, to |-> to]
X(op, a) == [op |-> op, at |-> a]

Devices == {"d1", "d2"}
TrapWindow == {"d1", "w", "d2"}
Holes == {"h"}
RunBudgets == {1, 3, None}

GuestOf(prog, real16, handler, stack) ==
  [prog |-> prog, real16 |-> real16, handler |-> handler, stack |-> stack]

(* Loads, stores, two-part vector transfers, ports; a loop at the end that *)
(* may run for ever.                                                       *)
ProgMmio == <<
  I("plain", <<X("load", "d1")>>),
  I("plain", <<X("vload", "d1"), X("vload", "d2")>>),
  EndOf(I("plain", <<X("load", "h"), X("store", "d1")>>)),
  I("in", <<>>),
  I("plain", <<X("vstore", "d1"), X("vstore", "d2")>>),
  EndOf(I("div", <<X("load", "w")>>)),
  I("plain", <<X("rmw", "r")>>),
  Jmp({1, 7}),
  I("hlt", <<>>)>>

(* An interrupt-driven guest: waits with sti; hlt, reads a device and a    *)
(* port with interrupts on, divides; the handler writes a port.            *)
ProgIrq == <<
  EndOf(I("sti", <<>>)),
  I("hlt", <<>>),
  I("plain", <<X("load", "d1")>>),
  I("in", <<>>),
  EndOf(I("div", <<>>)),
  I("cli", <<>>),
  EndOf(I("plain", <<X("load", "r")>>)),
  Jmp({1}),
  I("out", <<>>),
  I("iret", <<>>)>>

(* A guest whose instruction after sti touches the unmapped address.       *)
ProgShadow == <<
  EndOf(I("sti", <<>>)),
  I("plain", <<X("load", "h")>>),
  EndOf(I("cli", <<>>)),
  Jmp({1}),
  I("iret", <<>>)>>

(* div with a device operand.                                              *)
ProgDiv == << EndOf(I("div", <<X("load", "d1")>>)), Jmp({1}), I("iret", <<>>) >>

(* A vector load that crosses from a device into unmapped memory.          *)
ProgStraddle == << I("plain", <<X("vload", "d1"), X("vload", "h")>>), Jmp({1}) >>

(* A far pointer read from two device registers (les, lds).                *)
ProgLes == << I("plain", <<X("load", "d1"), X("load", "d2")>>), Jmp({1}) >>

Mmio == {GuestOf(ProgMmio, FALSE, 1, 6)}
Irq == {GuestOf(ProgIrq, TRUE, 9, 2)}
MmioAndIrq == Mmio \cup Irq
Shadow == {GuestOf(ProgShadow, TRUE, 5, 6)}
RealDiv == {GuestOf(ProgDiv, TRUE, 3, 6)}
Straddle == {GuestOf(ProgStraddle, FALSE, 1, 6)}
Les == {GuestOf(ProgLes, TRUE, 1, 6)}

(* The theorems' conditions on guests: MmioAndIrq meets both; each of the  *)
(* others, whose runs break the rule, fails one.                           *)
ASSUME GuestsOfTheProofs ==
  /\ \A g \in MmioAndIrq : RestartableGuest(g) /\ NoTrapBehindSti(g)
  /\ \A g \in Shadow : RestartableGuest(g) /\ ~NoTrapBehindSti(g)
  /\ \A g \in RealDiv \cup Straddle \cup Les : ~RestartableGuest(g) /\ NoTrapBehindSti(g)
=============================================================================
