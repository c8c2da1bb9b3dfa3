----------------------------- MODULE VecShared ------------------------------
(* The functions of interp/mod.rs that the interpreter's handlers share     *)
(* with the helpers of compiled code.  o is the IrOp: o.d the destination,   *)
(* o.a and o.b the sources (o.b = Mem for a memory form), o.w the width in   *)
(* bytes, o.k and o.z the mask, o.f the kernel; raw tells the view of        *)
(* compiled code, RawStrMem, from Memory.                                    *)
EXTENDS VecRegs

Lanewise(o, s, n) == [i \in 1 .. n \div 16 |-> Both(o, s, i)]

exec_valign(o, s) ==
  set_vec(s, o.d, [i \in 1 .. 4 |-> K(o, <<i, All(s, o.a, o.w), All(s, o.b, o.w)>>)], o.w)

load_lane16(s, raw, off) ==
  Then(sload(s, raw, off, 8), LAMBDA t : sload(t, raw, off + 8, 8))

RunLane(s, raw, i) == Then(s, LAMBDA t : load_lane16(t, raw, 16 * (i - 1)))
RunLanes(s, raw, n) == ForLanes(n, s, LAMBDA t, i : RunLane(t, raw, i))

permute2(o, s, tbl1) ==
  LET index == IF o.i THEN o.d ELSE o.a
      tbl0  == IF o.i THEN o.a ELSE o.d
  IN Commit(s, o, [i \in 1 .. 4 |-> K(o, <<i, All(s, index, o.w), All(s, tbl0, o.w), tbl1>>)], o.w)
exec_vpermt2(o, s) == permute2(o, s, AllB(o, s, o.w))
permute2_run(o, s, raw) ==
  Then(RunLanes(s, raw, o.w), LAMBDA t : permute2(o, t, AllB(o, t, o.w)))

exec_vperm1(o, s) ==
  Commit(s, o, [i \in 1 .. 4 |-> K(o, <<i, All(s, o.a, o.w), AllB(o, s, o.w)>>)], o.w)
vperm1_run(o, s, raw) == Then(RunLanes(s, raw, o.w), LAMBDA t : exec_vperm1(o, t))

apply_masked_logic(o, s) == write_masked(s, o.d, Lanewise(o, s, o.w), o, o.w)
apply_masked_packed(o, s) == write_masked(s, o.d, Lanewise(o, s, o.w), o, o.w)
exec_vpshufb_wide(o, s) == Commit(s, o, Lanewise(o, s, o.w), o.w)
exec_vshuffle32_wide(o, s) ==
  Commit(s, o, [i \in 1 .. o.w \div 16 |-> K(o, <<A(o, s, i)>>)], o.w)
apply_masked_shift(o, s, args) ==
  Commit(s, o, [i \in 1 .. o.w \div 16 |-> K(o, <<A(o, s, i), args>>)], o.w)

exec_shift_reg(o, s) ==
  IF o.k = 0 /\ o.w = 16 THEN SetLane(s, o.d, 1, K(o, <<Xmm(s, o.a), Xmm(s, o.b)>>))
  ELSE apply_masked_shift(o, s, Xmm(s, o.b))

exec_var_shift(o, s) == Commit(s, o, Lanewise(o, s, o.w), o.w)
exec_gf2p8(o, s) == Commit(s, o, Lanewise(o, s, o.w), o.w)

(* The one *_run function that leaves RIP alone when it faults.            *)
gf2p8_mem_run(o, s, raw) ==
  LET t == RunLanes(s, raw, o.w)
  IN IF t.x = None THEN exec_gf2p8(o, t) ELSE [t EXCEPT !.rip = s.rip]

exec_vpmov_narrow(o, s) ==
  LET half == o.w \div 2
      v(i) == K(o, <<i, All(s, o.a, o.w)>>)
      old(i) == IF o.z THEN Zero ELSE s.r[o.d][i]
  IN set_vec(s, o.d, [i \in 1 .. 4 |-> IF i > 1 /\ 16 * i > half THEN Zero
                                       ELSE IF o.k = 0 THEN v(i)
                                       ELSE <<"mk", s.k[o.k], v(i), old(i)>>], 64)

exec_vpmov_extend_wide(o, s) ==
  Commit(s, o, [i \in 1 .. 4 |-> K(o, <<i, All(s, o.a, o.w)>>)], o.w)
exec_vpabs(o, s) == Commit(s, o, [i \in 1 .. o.w \div 16 |-> K(o, <<A(o, s, i)>>)], o.w)
exec_vp_unary_lane(o, s) ==
  Commit(s, o, [i \in 1 .. 4 |-> K(o, <<i, All(s, o.a, o.w)>>)], o.w)
exec_vp_blendm(o, s) ==
  set_vec(s, o.d, [i \in 1 .. 4 |->
    <<"mk", s.k[o.k], B(o, s, i), IF o.z THEN Zero ELSE A(o, s, i)>>], o.w)

(* vshufi32x4: the low half of the result takes lanes of a, the high half  *)
(* lanes of b, by fields of the immediate o.imm.                           *)
exec_vshuf_lane(o, s) ==
  LET n == o.w \div 16
      field(i) == ((o.imm \div (n ^ (i - 1))) % n) + 1
  IN Commit(s, o, [i \in 1 .. n |-> IF i <= n \div 2 THEN s.r[o.a][field(i)]
                                    ELSE s.r[o.b][field(i)]], o.w)
exec_vp_multishift(o, s) == Commit(s, o, Lanewise(o, s, o.w), o.w)

(* Element by element, an inactive element touching nothing; o.act is the  *)
(* set of 8-byte chunks with an active element.                            *)
LoadChunk(o, s, raw, c) == IF s.x = None /\ c \in o.act THEN sload(s, raw, 8 * c, 8) ELSE s
StoreChunk(o, s, raw, c, v) == IF s.x = None /\ c \in o.act THEN sstore(s, raw, 8 * c, 8, v) ELSE s

LoadActive(o, s, raw) ==
  ForLanes(o.w, s, LAMBDA t, i : LoadChunk(o, LoadChunk(o, t, raw, 2 * i - 2), raw, 2 * i - 1))
masked_load_run(o, s, raw, z) ==
  Then(LoadActive(o, s, raw), LAMBDA t : set_vec(t, o.d, [i \in 1 .. 4 |->
         <<"ml", o.act, MemLane(t, i), IF z THEN Zero ELSE s.r[o.d][i]>>], o.w))

StoreLane(o, s, raw, i, v) ==
  StoreChunk(o, StoreChunk(o, s, raw, 2 * i - 2, Lo(v)), raw, 2 * i - 1, Hi(v))
masked_store_run(o, s, raw) ==
  ForLanes(o.w, s, LAMBDA t, i : StoreLane(o, t, raw, i, s.r[o.a][i]))

StoreNarrow(s, raw, i, v) == Then(s, LAMBDA t : sstore(t, raw, 8 * (i - 1), 8, v))
narrow_store_run(o, s, raw) ==
  ForLanes(o.w, s, LAMBDA t, i : StoreNarrow(t, raw, i, K(o, <<i - 1, All(s, o.a, o.w)>>)))

(* Three-operand kernels: the memory operand may take any of the roles.    *)
Opd(s, reg, i) == IF reg = Mem THEN MemLane(s, i) ELSE s.r[reg][i]
fma_lanes(o, s) ==
  IF o.sc THEN [i \in 1 .. 4 |-> IF i = 1
           THEN K(o, <<Opd(s, o.a, 1), Opd(s, o.b, 1), Opd(s, o.c, 1), Xmm(s, o.d)>>)
           ELSE s.r[o.d][i]]
  ELSE [i \in 1 .. o.w \div 16 |->
           K(o, <<Opd(s, o.a, i), Opd(s, o.b, i), Opd(s, o.c, i), Zero>>)]
exec_fma(o, s) == Commit(s, o, fma_lanes(o, s), o.w)
fma_mem_run(o, s, raw) ==
  Then(IF o.sc THEN sload(s, raw, 0, 8) ELSE RunLanes(s, raw, o.w), LAMBDA t : exec_fma(o, t))

(* The first o.n bytes of the source, repeated.                            *)
exec_broadcast_lane(o, s) ==
  Commit(s, o, [i \in 1 .. o.w \div 16 |->
    K(o, <<i, IF o.b = Mem THEN [j \in 1 .. o.n \div 8 |-> s.m[j - 1]]
              ELSE All(s, o.b, IF o.n < 16 THEN 16 ELSE o.n)>>)], o.w)
broadcast_lane_mem_run(o, s, raw) ==
  Then(RunLanes(s, raw, o.n), LAMBDA t : exec_broadcast_lane(o, t))

(* aes, sha, gfni, pclmul: xmm[d] from xmm[a] and the second source.       *)
CryptoXmm(o, s, v) ==
  SetLane(s, o.d, 1, K(o, IF o.imp THEN <<Xmm(s, o.a), v, Xmm(s, 0)>> ELSE <<Xmm(s, o.a), v>>))
exec_vpack(o, s) == set_vec_low(s, o.d, Lanewise(o, s, o.w), o.w)
pack_wide_mem_from(o, s) == SetLane(s, o.d, 1, K(o, <<Xmm(s, o.a), MemLane(s, 1)>>))
exec_v_pmadd(o, s) == LaneLoop(o, s, o.w)
exec_v_pmadd_mem_lane(o, s, i) == SetLane(s, o.d, i, K(o, <<A(o, s, i), MemLane(s, i)>>))
=============================================================================
