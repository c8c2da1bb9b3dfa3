------------------------------ MODULE VecRegs ------------------------------
(* The vector side of one vcpu as an instruction sees it: four 128-bit     *)
(* lanes per register, opmasks, flags, the eight 8-byte chunks of its      *)
(* memory operand, and how accesses to that operand succeed or trap.       *)
(*                                                                         *)
(* A lane is an uninterpreted term <<kernel, arguments...>>: what a kernel *)
(* computes is abstracted, which registers, lanes and bytes it is given,   *)
(* where the result goes and in which order is kept.                       *)
EXTENDS Integers, Sequences, FiniteSets

Regs == 0 .. 3
Mem == 9
Zero == <<"zero">>
None == <<"none">>

(* o.f names the kernel an operation applies.                              *)
K(o, args) == <<o.f>> \o args

(* An exit ends the attempt: nothing after it runs.                        *)
Then(s, F(_)) == IF s.x = None THEN F(s) ELSE s
Exit(s, kind, off, acc) == [s EXCEPT !.x = <<kind, off, acc>>, !.rip = "insn"]

(* for i in 0 .. n: one turn for each 16 bytes of an operand of n = 16, 32 *)
(* or 64 bytes.                                                            *)
ForLanes(n, s, F(_, _)) ==
  LET one == F(s, 1)
      two == IF n > 16 THEN F(one, 2) ELSE one
      three == IF n > 32 THEN F(two, 3) ELSE two
  IN IF n > 32 THEN F(three, 4) ELSE three

vec_lanes(s, reg) == s.r[reg]

set_vec(s, d, v, n) ==
  [s EXCEPT !.r[d] = [i \in 1 .. 4 |-> IF i <= n \div 16 THEN v[i] ELSE Zero]]

set_vec_low(s, d, v, n) ==
  [s EXCEPT !.r[d] = [i \in 1 .. 4 |-> IF i <= n \div 16 THEN v[i] ELSE @[i]]]

write_masked(s, d, v, o, n) ==
  LET old == IF o.z THEN [i \in 1 .. 4 |-> Zero] ELSE vec_lanes(s, d)
  IN set_vec(s, d, [i \in 1 .. n \div 16 |-> <<"mk", s.k[o.k], v[i], old[i]>>], n)

(* "if masked { write_masked } else { set_vec }"; o.k = 0 is no mask.       *)
Commit(s, o, v, n) == IF o.k = 0 THEN set_vec(s, o.d, v, n) ELSE write_masked(s, o.d, v, o, n)

(* xmm[d] = v, ymm_hi[d] = v: one lane, the others untouched.              *)
SetLane(s, d, i, v) == [s EXCEPT !.r[d][i] = v]
Xmm(s, a) == s.r[a][1]

SetMask(s, d, v) == [s EXCEPT !.k[d] = v]
SetFlags(s, v) == [s EXCEPT !.fl = v]
SetTemp(s, v) == [s EXCEPT !.t = v]

(* What the guest sees of the state: registers, masks and flags.           *)
Arch(s) == <<s.r, s.k, s.g, s.fl>>

(* --------------------------- The interpreter's accesses --------------- *)

(* Mutant: a table two entries short.                                     *)
PartsShort == 6
Parts == 8
mmio_part(s, off) == off \in s.parts
(* Mutant: the answered part is not remembered.                           *)
RecordForgets(s, off) == s
record_mmio_part(s, off) ==
  IF mmio_part(s, off) \/ Cardinality(s.parts) = Parts THEN s
  ELSE [s EXCEPT !.parts = @ \cup {off}]

(* Memory::read and Memory::write of n bytes at off: one region holds them *)
(* all, or the access traps.                                               *)
RegionAt(s, off, n) == IF s.trap THEN "Mmio" ELSE IF off + n > s.lim THEN "Unmapped" ELSE "Ram"

read(s, off, n) ==
  LET at == RegionAt(s, off, n) IN IF at = "Ram" THEN s ELSE Exit(s, at, off, "Read")

Put(s, off, n, v) ==
  [s EXCEPT !.m[off \div 8] = IF n = 8 THEN v ELSE <<"part", v, @>>]

write(s, off, n, v) ==
  LET at == RegionAt(s, off, n)
  IN IF at = "Ram" THEN [Put(s, off, n, v) EXCEPT !.noted = @ \cup {off \div 8}]
     ELSE Exit(s, at, off, "Write")

vpart(s, off, n) ==
  IF mmio_part(s, off) THEN s
  ELSE IF RegionAt(s, off, n) = "Mmio" /\ s.pend
  THEN record_mmio_part([s EXCEPT !.pend = FALSE], off)
  ELSE read(s, off, n)

vpart_store(s, off, n, v) ==
  IF mmio_part(s, off) THEN s
  ELSE IF RegionAt(s, off, n) = "Mmio" /\ s.pend
  THEN record_mmio_part([s EXCEPT !.pend = FALSE], off)
  ELSE write(s, off, n, v)

(* Mutant: a fault in the second half is reported at the operand's base.   *)
VloadNamesBase(s, off, n) ==
  IF n = 16 THEN Then(vpart(s, off, 8), LAMBDA t :
                      LET u == vpart(t, off + 8, 8)
                      IN IF u.x = None THEN u ELSE Exit(t, u.x[1], off, "Read"))
  ELSE vpart(s, off, IF n = 8 THEN 8 ELSE 4)
vload(s, off, n) ==
  IF n = 16 THEN Then(vpart(s, off, 8), LAMBDA t : vpart(t, off + 8, 8))
  ELSE vpart(s, off, IF n = 8 THEN 8 ELSE 4)

vload_lane(s, i) == Then(s, LAMBDA t : vload(t, 16 * (i - 1), 16))
vload_lanes(s, n) == ForLanes(n, s, vload_lane)

Lo(v) == <<"lo", v>>
Hi(v) == <<"hi", v>>

vstore(s, off, v, n) ==
  IF n = 16 THEN Then(vpart_store(s, off, 8, Lo(v)),
                      LAMBDA t : vpart_store(t, off + 8, 8, Hi(v)))
  ELSE vpart_store(s, off, IF n = 8 THEN 8 ELSE 4, Lo(v))

vstore_lane(s, i, v) == Then(s, LAMBDA t : vstore(t, 16 * (i - 1), v, 16))

probe_write(s, off, n) ==
  IF RegionAt(s, off, n) = "Unmapped" THEN Exit(s, "Unmapped", off, "Write") ELSE s

(* The value a completed load of the operand has.                          *)
MemLane(s, i) == <<"m", s.m[2 * i - 2], s.m[2 * i - 1]>>
Loaded(s, n) == IF n >= 16 THEN MemLane(s, 1) ELSE <<"mw", n, s.m[0]>>

(* ------------------------ Compiled code's accesses -------------------- *)

(* One check covers the operand.  An operand that crosses the end of the   *)
(* guest space is reported at its first unbacked byte; one that starts in  *)
(* the Trap window is left to the interpreter.                             *)
checked_addr(s, n, acc) ==
  IF n > s.lim THEN Exit(s, "Unmapped", s.lim, acc)
  ELSE IF s.trap THEN Exit(s, "Defer", 0, acc)
  ELSE s

(* StrMem: Memory itself for the interpreter; RawStrMem, which knows the   *)
(* bounds and nothing else, for the helpers of compiled code.              *)
sload(s, raw, off, n) ==
  IF ~raw THEN read(s, off, n)
  ELSE IF off + n > s.lim THEN Exit(s, "Unmapped", off, "Read") ELSE s

sstore(s, raw, off, n, v) ==
  IF ~raw THEN write(s, off, n, v)
  ELSE IF off + n > s.lim THEN Exit(s, "Unmapped", off, "Write") ELSE Put(s, off, n, v)

gstore(s, i, v) == [s EXCEPT !.m[2 * i - 2] = Lo(v), !.m[2 * i - 1] = Hi(v)]
note_store(s, n) == [s EXCEPT !.noted = @ \cup {c \in 0 .. 7 : 8 * c < n}]

(* ------------------------------ Operands ------------------------------ *)

A(o, s, i) == s.r[o.a][i]
B(o, s, i) == IF o.b = Mem THEN MemLane(s, i) ELSE s.r[o.b][i]
AllB(o, s, n) == [i \in 1 .. n \div 16 |-> B(o, s, i)]
All(s, reg, n) == SubSeq(s.r[reg], 1, n \div 16)

(* Lane i of the result of an operation with two sources, of one that picks *)
(* by register o.c, and of one that also reads its destination.            *)
Both(o, s, i) == K(o, <<A(o, s, i), B(o, s, i)>>)
Picked(o, s, i) == K(o, <<A(o, s, i), B(o, s, i), s.r[o.c][i]>>)
Ternary(o, s, i) == K(o, <<s.r[o.d][i], A(o, s, i), B(o, s, i)>>)

(* store_lane(d, i, F) for each lane in turn, each reading what the lanes  *)
(* before it left behind.                                                  *)
EachLane(s, n, d, F(_, _)) ==
  ForLanes(n, s, LAMBDA t, i : SetLane(t, d, i, F(t, i)))
LaneLoop(o, s, n) == EachLane(s, n, o.d, LAMBDA t, i : Both(o, t, i))
LaneLoopUnary(o, s, n) == EachLane(s, n, o.d, LAMBDA t, i : K(o, <<A(o, t, i)>>))
LaneLoopB(o, s, n) == EachLane(s, n, o.d, LAMBDA t, i : K(o, <<B(o, t, i)>>))

(* ------------------------------ Ops by name ----------------------------- *)

(* The vector ops the lifters emit, and those that move general operands.  *)
AllOps == {"VMov", "VZeroUpper", "VLoadWide", "VLoad", "Load", "ReadReg", "Store", "WriteReg",
          "VToGpr", "VStore", "VFromGpr", "VBroadcastGpr", "VBroadcastM", "VBroadcast",
          "VBroadcastLaneM", "VBroadcastLane", "VMaskStoreMem", "VMaskLoadMem", "VMaskMov",
          "VStoreWide", "VMovWide", "VVecMaskStoreMem", "VVecMaskLoadMem",
          "VExtractLaneWideM", "VExtractLaneWide", "VInsertLaneWide", "VAlign", "VShiftReg",
          "VMaskedShift", "VPackedShift256", "VPackedShift", "VShiftVar", "VByteShift",
          "VLogicM", "VLogic", "VLogic256M", "VLogic256", "VMaskedLogic", "VLogicWide",
          "VPackedBin", "VMaskedPacked", "VPackedWide", "VPackedBin256", "VPBlendVM",
          "VPBlendV", "VPBlendVX", "VBlendI", "VPRoundM", "VPRound", "VPcmpStr",
          "VPcmpStrMask", "VInsertPs", "VInsertPs3", "VDppsM", "VDpps", "VDppd", "VDp3",
          "VMov256", "VPMovExtend", "VPMovExtendWide", "VPAbs", "VpUnaryLane", "VpBlendm",
          "VShuffLane", "VpMultishift", "VPopcnt", "VPermT2M", "VPermT2", "VPmovNarrowMem",
          "VPmovNarrow", "VPerm1M", "VPerm1", "VPTernlog", "VKUnpack", "VKBinOp", "VKNot",
          "VKShift", "VKMovKK", "VKFromGpr", "VKToGpr", "VKOrTest", "VPTestToMask",
          "VPCmpToMask", "VShuffle32", "VShuffle32Wide", "VPackWideM", "VPackWide", "VBlendW",
          "VBlendD", "VShufps", "VShufps256", "VPermilVar", "VShuffle16", "VUnpackLow",
          "VUnpack256", "VAes", "VAesImc", "VAesKeygen", "VPclmul", "VSha", "VGfni",
          "VGf2p8M", "VGf2p8", "VPsignM", "VPsign", "VPackUsWB", "VPMAddWd", "VPMadd",
          "VPMaddM", "VInsertW", "VInsertLane", "VExtractW", "VExtractLane", "VMoveHalf",
          "VStoreHalf", "VLoadHalf", "VFloatMov", "VFloatBin", "VFloatBin256", "VHFloat",
          "VHInt", "VFloatCmp", "VFloatCmpMask", "VFloatCmpMask256", "VCvtFromInt",
          "VCvtToInt", "VFloatUnary", "VFmaM", "VFma", "VFloatUnary256", "VCvtFloat",
          "VPackedCvtWide256", "VPackedCvt256", "VPackedCvt", "VCvtPh2Ps", "VCvtPs2Ph",
          "VPhMinPosUw", "VMpsadbw", "VPshufb", "VAlignr", "VMoveMaskB", "VMoveMaskFp",
          "VMoveMaskB256", "VPshufbWide", "VPshufb256", "VZeroUpperAll", "VInsert128",
          "VExtract128", "VPermq", "VPermd", "VPerm2i128", "VPtest", "VTestFp", "VPalignr256"}

(* Ops whose inactive elements are not accessed.                           *)
Selective == {"VMaskLoadMem", "VMaskStoreMem", "VVecMaskLoadMem", "VVecMaskStoreMem"}
(* Ops of the interpreter that load and write lane by lane.                *)
LaneOps == {"VDppsM", "VPsignM"}
(* Ops whose stores do not reach note_store in compiled code.              *)
Unnoted == {"VMaskStoreMem", "VVecMaskStoreMem", "VPmovNarrowMem"}
(* Ops that only fill a temporary.                                         *)
TempOps == {"ReadReg", "Load", "VToGpr", "VKToGpr", "VExtractW", "VExtractLane", "VMoveMaskB",
            "VMoveMaskB256", "VMoveMaskFp", "VCvtToInt"}
(* Ops that a lifter puts behind another one and that access no memory.    *)
PlainOps == {"VZeroUpper", "WriteReg", "VMaskedShift", "VPackedShift256", "VPackedShift", "VpBlendm",
             "VShuffle32", "VBlendW", "VPackedCvtWide256", "VPackedCvt", "VCvtPh2Ps", "VPhMinPosUw",
             "VMpsadbw", "VPermq", "VBroadcastGpr", "VKFromGpr", "VInsertW", "VInsertLane",
             "VCvtFromInt", "VFloatCmp", "VCvtToInt", "VCvtFloat", "VMov", "VMov256", "VFromGpr"}
Never(o) == o.op \in PlainOps \/ (o.op = "VShufps256" /\ o.b # Mem)

(* What the lifters put into the fields an op needs.                       *)
Widths == {16, 32, 64}
Fits(o) ==
  /\ o.op \in AllOps
  /\ o.op = "VStore" => o.n \in {8, 16}
  /\ o.op = "VStoreWide" => o.w \in Widths
  /\ o.op = "VExtractLaneWideM" => o.n \in {1, 2}
  /\ o.op \in {"Load", "Store"} => o.n = 8
=============================================================================
