----------------------------- MODULE VecMachine -----------------------------
(* One vector instruction from decode to retirement: lifted by VecLift, run *)
(* op by op by the interpreter (VecInterp) or as compiled code (VecJit), its *)
(* memory operand running into an unmapped page, the end of guest memory or *)
(* a Trap region, and the embedder repairing what an exit names and         *)
(* resuming.                                                                *)
EXTENDS VecLift, VecJit

CONSTANT Programs,  \* the instructions
         Places,    \* where the memory operand lies, see Start
         Known      \* the classes of known defects the properties set aside

VARIABLES insn,     \* the instruction record
          place,    \* the place chosen for its memory operand
          eng,      \* "interp" or "jit"
          pre,      \* the state the instruction starts in
          st,       \* the state now (VecRegs)
          pc,       \* the next op; Len(ops) + 2 once retired
          asked     \* how often the device was asked for each chunk (2: again)

(* The horizontal dot product and psign have no 512-bit encoding.           *)
ASSUME ProgramsAssumption ==
  /\ Programs \subseteq Instructions
  /\ \A i \in Programs : i.l \in {"Dpps", "Vdpps", "Psignb", "Vpsignb"} => i.w # 64
ASSUME PlacesAssumption == \A p \in Places : p[2] \in Nat

vars == <<insn, place, eng, pre, st, pc, asked>>

Ops == lift_insn(insn)
Touches(i) == i.b = Mem \/ i.dm

(* A place is <<kind, lim>>: "ram"; "page", where the bytes from lim on are  *)
(* on a page not mapped yet; "edge", where guest memory ends at lim; "trap", *)
(* an operand inside a Trap region.                                         *)
Start(p) ==
  [r |-> [q \in Regs |-> [i \in 1 .. 4 |-> <<"r", q, i>>]],
   k |-> [q \in 0 .. 4 |-> <<"k", q>>],
   m |-> [c \in 0 .. 7 |-> <<"c", c>>],
   x |-> None, rip |-> "entry", noted |-> {}, lim |-> p[2], trap |-> p[1] = "trap",
   parts |-> {}, pend |-> FALSE, fl |-> <<"fl">>, g |-> [q \in 0 .. 2 |-> <<"g", q>>],
   t |-> Zero]

Run(e, o, s) == IF e = "interp" THEN walk_ops(o, s) ELSE op_of(o, s)

(* Compiled code takes an unmapped page as a host fault, which is not       *)
(* modelled: the page places are the interpreter's.                         *)
Init ==
  /\ insn \in Programs
  /\ Ops # Unsupported
  /\ place \in Places
  /\ place[1] # "ram" => Touches(insn)
  /\ eng \in {"interp", "jit"}
  /\ place[1] = "page" => eng = "interp"
  /\ pre = Start(place)
  /\ st = pre
  /\ pc = 1
  /\ asked = [c \in 0 .. 7 |-> 0]

(* One op of the block.                                                     *)
Step ==
  /\ st.x = None
  /\ pc <= Len(Ops)
  /\ st' = Run(eng, Ops[pc], st)
  /\ pc' = pc + 1
  /\ UNCHANGED <<insn, place, eng, pre, asked>>

(* The instruction completes; a single-stepped retry drops the parts that    *)
(* were answered for it.                                                    *)
Retire ==
  /\ st.x = None
  /\ pc = Len(Ops) + 1
  /\ st' = [st EXCEPT !.parts = {}, !.rip = "next"]
  /\ pc' = pc + 1
  /\ UNCHANGED <<insn, place, eng, pre, asked>>

Again(s) == [s EXCEPT !.x = None, !.rip = "entry", !.t = Zero]

(* The embedder maps the page the exit names and runs the vcpu again.       *)
MapPage ==
  /\ st.x[1] = "Unmapped"
  /\ place[1] = "page"
  /\ st' = [Again(st) EXCEPT !.lim = IF st.x[2] >= @ THEN 64 ELSE @]
  /\ pc' = 1
  /\ UNCHANGED <<insn, place, eng, pre, asked>>

(* The embedder serves the device access the exit describes.                *)
Answer ==
  /\ st.x[1] = "Mmio"
  /\ st' = [Again(st) EXCEPT !.pend = TRUE]
  /\ asked' = [asked EXCEPT ![st.x[2] \div 8] = IF @ = 2 THEN 2 ELSE @ + 1]
  /\ pc' = 1
  /\ UNCHANGED <<insn, place, eng, pre>>

(* Compiled code leaves the instruction to the interpreter.                 *)
Defer ==
  /\ st.x[1] = "Defer"
  /\ st' = Again(st)
  /\ pc' = 1
  /\ eng' = "interp"
  /\ UNCHANGED <<insn, place, pre, asked>>

Retired == pc = Len(Ops) + 2
Stopped == st.x[1] = "Unmapped" /\ place[1] = "edge"

Done == (Retired \/ Stopped) /\ UNCHANGED vars

Next == Step \/ Retire \/ MapPage \/ Answer \/ Defer \/ Done

(* Until it is over, the run goes on: WF_vars(Next), spelled out without     *)
(* ENABLED because a step is possible in every state.                       *)
Fairness == []<>(Retired \/ Stopped) \/ []<><<TRUE>>_vars

Spec == Init /\ [][Next]_vars /\ Fairness

-----------------------------------------------------------------------------

Has(ops) == \E j \in DOMAIN Ops : Ops[j].op \in ops

(* --------------------------- Known defects ------------------------------ *)

(* Ops that go through StrMem, and vpbroadcast from memory: they keep no   *)
(* record of answered parts, and compiled code runs them over RawStrMem.   *)
NoParts == {"VMaskLoadMem", "VMaskStoreMem", "VVecMaskLoadMem", "VVecMaskStoreMem", "VPermT2M",
            "VPerm1M", "VGf2p8M", "VFmaM", "VBroadcastLaneM", "VPmovNarrowMem", "VBroadcastM"}
TrapKnown == "trap" \in Known /\ place[1] = "trap" /\ Has(NoParts)
(* The copy of the first source into the destination, a commit of its own. *)
PreCopied == "precopy" \in Known /\ Has({"VMov", "VMov256"})
(* Lane 0 written before lane 1 is loaded.                                 *)
LaneByLane == "lanes" \in Known /\ insn.w = 32 /\ Has(LaneOps)
(* gf2p8_mem_run leaves RIP alone.                                         *)
RipKnown == "rip" \in Known /\ Has({"VGf2p8M"})
(* probe_write names the lane, not the byte.                               *)
ProbeKnown == "probe" \in Known /\ Has({"VExtractLaneWideM"})
(* The masked stores of compiled code do not reach note_store.             *)
NoteKnown ==
  /\ "note" \in Known
  /\ eng = "jit"
  /\ Has(Unnoted)
(* 256-bit results that leave bits 511:256 alone.                          *)
UpperKnown == "upper" \in Known /\ (insn.w = 32 \/ Has({"VBroadcast", "VBroadcastM"}))
BackendsKnown ==
  /\ "backends" \in Known
  /\ insn.w = 32
  /\ Has({"VBlendI", "VByteShift", "VShuffle32", "VBlendW", "VShuffle16"})

(* The state apart from the destination, and apart from its bits 511:256.  *)
Besides(s) == Arch([s EXCEPT !.r[insn.d] = <<>>])
UpTo256(s) == [s EXCEPT !.r[insn.d] = SubSeq(@, 1, 2)]

(* ------------------------------ References ------------------------------ *)

RunAll(e, ops, s) ==
  LET upto[n \in 0 .. Len(ops)] ==
        IF n = 0 THEN s ELSE Then(upto[n - 1], LAMBDA t : Run(e, ops[n], t))
  IN upto[Len(ops)]
Outcome(e, lim, trap) == RunAll(e, Ops, [pre EXCEPT !.lim = lim, !.trap = trap])
Unhindered(e) == Outcome(e, 64, FALSE)

(* The instruction with distinct registers holding the values its own      *)
(* registers have, run without hindrance: what aliasing must not change.   *)
Apart(e) ==
  LET i == [insn EXCEPT !.d = 1, !.a = 2, !.b = IF @ = Mem THEN Mem ELSE 3, !.c = 0,
                        !.k = IF @ = 0 THEN 0 ELSE 4]
      b == IF insn.b = Mem THEN 0 ELSE insn.b
      r == [pre.r EXCEPT ![0] = pre.r[insn.c], ![1] = pre.r[insn.d], ![2] = pre.r[insn.a],
                         ![3] = pre.r[b]]
      k == [pre.k EXCEPT ![1] = pre.k[insn.d], ![2] = pre.k[insn.a], ![3] = pre.k[b],
                         ![4] = pre.k[insn.k]]
  IN RunAll(e, lift_insn(i), [pre EXCEPT !.r = r, !.k = k, !.lim = 64, !.trap = FALSE])
(* pcmpistrm writes xmm0, every other instruction its destination.         *)
Target == IF insn.l = "Pcmpistrm" THEN <<0, 0>> ELSE <<insn.d, 1>>
Everywhere == insn.l \in {"Vzeroupper", "Vzeroall"}

(* Memory ending below chunk c makes the instruction fault.                *)
Accesses(c) == Outcome("interp", 8 * c, FALSE).x # None

(* ------------------------------ Properties ------------------------------ *)

(* Fault atomicity: whatever ends an attempt, no register, mask or flag has *)
(* changed since the instruction started.  Of the known defects, the copy   *)
(* of the first source may have been made, and nothing else; the lane-by-   *)
(* lane ops may have changed the destination, and nothing else.             *)
FaultLeavesNoTrace ==
  st.x # None =>
    \/ Arch(st) = Arch(pre)
    \/ PreCopied /\ Arch(st) = Arch(Run(eng, Ops[1], pre))
    \/ LaneByLane /\ Besides(st) = Besides(pre)

(* The reported address is one of the bytes that are not backed, in a chunk *)
(* the instruction accesses, and RIP is the instruction's.                 *)
FaultIsExact ==
  st.x[1] = "Unmapped" =>
    /\ st.rip = "insn" \/ RipKnown
    /\ st.x[2] >= st.lim \/ ProbeKnown
    /\ Has(Selective) => st.x[2] \div 8 \in insn.act

(* However often it was interrupted and whichever of its registers          *)
(* coincide, a retired instruction has the effect of the instruction on     *)
(* distinct registers that nothing interrupted, and no other effect.        *)
FinishesRight ==
  Retired => TrapKnown \/
    LET ref == Apart(eng)
    IN /\ IF Everywhere THEN st.r = Unhindered(eng).r
          ELSE \/ st.r = [pre.r EXCEPT ![Target[1]] = ref.r[Target[2]]]
               \/ LaneByLane /\ Besides(st) = Besides(pre)
       /\ st.k = [pre.k EXCEPT ![insn.d] = ref.k[1]]
       /\ st.g = ref.g
       /\ st.fl = ref.fl
       /\ st.m = IF st.trap THEN pre.m ELSE ref.m

(* The interpreter and compiled code leave the same registers and memory,   *)
(* and report the same fault: kind, address and access.  Memory is not      *)
(* compared at a fault: the interpreter stores the parts before it.         *)
BackendsAgree ==
  place[1] \in {"ram", "edge"} /\ (Retired \/ Stopped) =>
    LET other == Outcome(IF eng = "jit" THEN "interp" ELSE "jit", pre.lim, pre.trap)
    IN /\ st.x = other.x \/ (ProbeKnown /\ st.x[1] = other.x[1])
       /\ \/ Arch(st) = Arch(other)
          \/ BackendsKnown /\ Arch(UpTo256(st)) = Arch(UpTo256(other))
          \/ Stopped
       /\ Retired => st.m = other.m

(* A legacy instruction leaves the lanes above the first alone; a VEX or    *)
(* EVEX one clears the lanes above its width.  The known 256-bit forms may  *)
(* keep what those lanes held, and put nothing else there.                  *)
UpperIsRight ==
  Retired /\ st.r[insn.d] # pre.r[insn.d] =>
    \A i \in 2 .. 4 :
      LET now == st.r[insn.d][i]
          before == pre.r[insn.d][i]
      IN IF insn.e = "sse" THEN now = before
         ELSE 16 * (i - 1) >= insn.w => now = Zero \/ (UpperKnown /\ now = before)

(* A store that changed memory has reported the chunk to the code-page      *)
(* watch, also when a later part of it faults.                              *)
StoresAreNoted == NoteKnown \/ {c \in 0 .. 7 : st.m[c] # pre.m[c]} \subseteq st.noted

(* The device is asked once for each part the instruction accesses, and the *)
(* instruction does not retire before it has answered them all.             *)
DeviceAskedOnce ==
  place[1] = "trap" => TrapKnown \/
    /\ \A c \in 0 .. 7 : asked[c] <= 1
    /\ Retired => \A c \in 0 .. 7 : asked[c] = 1 <=> Accesses(c)

(* An embedder that repairs what the exit names sees the instruction        *)
(* retire, or the fault the end of guest memory makes unavoidable.          *)
Completes == <>(Retired \/ Stopped \/ TrapKnown \/ ProbeKnown)
=============================================================================
