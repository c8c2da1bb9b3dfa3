----------------------------- MODULE VecInterp -----------------------------
(* interp/vector.rs, one definition per handler of a vector IrOp (its      *)
(* register and memory form together), and walk_ops.  See VecShared for o. *)
EXTENDS VecShared

(* The second source, when it is in memory, is loaded before anything else *)
(* happens; a trap ends the handler there.                                 *)
Loading(o, s, n) == IF o.b = Mem THEN vload_lanes(s, n) ELSE s
Src(o, s, n, F(_)) == Then(Loading(o, s, n), F)

(* -------------------- Moves, masked and masked-in-memory --------------- *)

exec_v_load(o, s) ==
  Then(vload(s, 0, o.n), LAMBDA t : SetLane(t, o.d, 1, Loaded(t, o.n)))
exec_v_store(o, s) == vstore(s, 0, Xmm(s, o.a), o.n)
exec_v_mov(o, s) == SetLane(s, o.d, 1, Xmm(s, o.a))
(* Mutant: each lane is written as it is loaded.                           *)
LoadWideEager(o, s) ==
  ForLanes(o.w, s, LAMBDA t, i :
    Then(vload_lane(t, i), LAMBDA u : SetLane(u, o.d, i, MemLane(u, i))))
exec_v_load_wide(o, s) ==
  Then(vload_lanes(s, o.w), LAMBDA t : set_vec(t, o.d, [i \in 1 .. 4 |-> MemLane(t, i)], o.w))
exec_v_store_wide(o, s) ==
  ForLanes(o.w, s, LAMBDA t, i : vstore_lane(t, i, s.r[o.a][i]))
exec_v_mov_wide(o, s) == set_vec(s, o.d, vec_lanes(s, o.a), o.w)
exec_v_mask_mov(o, s) == write_masked(s, o.d, vec_lanes(s, o.a), o, o.w)
exec_v_mask_load_mem(o, s) == masked_load_run(o, s, FALSE, o.z)
exec_v_mask_store_mem(o, s) == masked_store_run(o, s, FALSE)
exec_v_vecmask_load_mem(o, s) == masked_load_run(o, s, FALSE, TRUE)
exec_v_vecmask_store_mem(o, s) == masked_store_run(o, s, FALSE)

(* --------------------- Logic, blends, rounding, lanes ------------------ *)

exec_v_logic256(o, s) == LaneLoop(o, s, 32)
exec_v_logic_wide(o, s) == Src(o, s, o.w, LAMBDA t : set_vec(t, o.d, Lanewise(o, t, o.w), o.w))
exec_v_popcnt(o, s) ==
  Src(o, s, o.w, LAMBDA t : set_vec(t, o.d, [i \in 1 .. 4 |-> K(o, <<B(o, t, i)>>)], o.w))
exec_v_p_mov_extend(o, s) ==
  IF o.b # Mem THEN SetLane(s, o.d, 1, K(o, <<Xmm(s, o.b)>>))
  ELSE Then(vload(s, 0, o.n), LAMBDA t : SetLane(t, o.d, 1, K(o, <<Loaded(t, o.n)>>)))
exec_v_p_mov_extend_wide(o, s) == exec_vpmov_extend_wide(o, s)
exec_v_p_abs(o, s) == exec_vpabs(o, s)
exec_v_p_unary_lane(o, s) == exec_vp_unary_lane(o, s)
exec_v_p_blendm(o, s) == exec_vp_blendm(o, s)
exec_v_shuf_lane(o, s) == exec_vshuf_lane(o, s)
exec_v_p_multishift(o, s) == exec_vp_multishift(o, s)

(* blendv picks by the sign bits of xmm0 (legacy) or of register o.c.      *)
exec_v_p_blend_v(o, s) ==
  SetLane(s, o.d, 1, K(o, <<Xmm(s, o.d), Xmm(s, o.b), Xmm(s, 0)>>))
exec_v_p_blend_v_m(o, s) ==
  Then(vload(s, 0, 16), LAMBDA t :
       SetLane(t, o.d, 1, K(o, <<Xmm(t, o.d), MemLane(t, 1), Xmm(t, 0)>>)))
exec_v_p_blend_v_x(o, s) ==
  Src(o, s, o.w, LAMBDA t : set_vec(t, o.d, [i \in 1 .. o.w \div 16 |-> Picked(o, t, i)], o.w))
exec_v_blend_i(o, s) == Src(o, s, o.w, LAMBDA t : set_vec_low(t, o.d, Lanewise(o, t, o.w), o.w))

(* A scalar rounds one element of the source into lane 0 of a.             *)
exec_v_p_round(o, s) == LaneLoop(o, s, o.w)
exec_v_p_round_m(o, s) ==
  IF o.sc THEN Then(vload(s, 0, 8), LAMBDA t :
                 SetLane(t, o.d, 1, K(o, <<Xmm(t, o.d), Loaded(t, 8)>>)))
  ELSE Then(vload_lanes(s, o.w), LAMBDA t :
         set_vec_low(t, o.d, [i \in 1 .. 4 |-> K(o, <<t.r[o.d][i], MemLane(t, i)>>)], o.w))
exec_v_masked_logic(o, s) == apply_masked_logic(o, s)
exec_v_masked_packed(o, s) == apply_masked_packed(o, s)

(* vinserti32x4, vextracti32x4: o.n lanes at position o.imm.               *)
exec_v_insert_lane_wide(o, s) ==
  LET base == o.imm * o.n
  IN set_vec(s, o.d, [i \in 1 .. 4 |-> IF i \in base + 1 .. base + o.n THEN s.r[o.b][i - base]
                                       ELSE s.r[o.a][i]], o.w)
exec_v_extract_lane_wide(o, s) ==
  set_vec(s, o.d, [i \in 1 .. 4 |-> IF i <= o.n THEN s.r[o.a][i + o.imm * o.n] ELSE Zero],
          16 * o.n)
probe_lane(s, i) == Then(s, LAMBDA t : probe_write(t, 16 * (i - 1), 16))
exec_v_extract_lane_wide_m(o, s) ==
  LET probed == ForLanes(16 * o.n, s, probe_lane)
  IN ForLanes(16 * o.n, probed, LAMBDA t, i : vstore_lane(t, i, s.r[o.a][i + o.imm * o.n]))

(* ----------------- Strings, dot products, packed integers --------------- *)

(* pcmpestri/pcmpestrm take the lengths from EAX and EDX (o.imp).          *)
PcmpArgs(o, s) == <<Xmm(s, o.a), B(o, s, 1), IF o.imp THEN <<s.g[0], s.g[2]>> ELSE <<Zero, Zero>>>>
exec_v_pcmp_str(o, s) ==
  Src(o, s, 16, LAMBDA t :
      [t EXCEPT !.g[1] = K(o, PcmpArgs(o, t)), !.fl = K(o, PcmpArgs(o, t))])
exec_v_pcmp_str_mask(o, s) ==
  Src(o, s, 16, LAMBDA t :
      [t EXCEPT !.r[0][1] = K(o, PcmpArgs(o, t)), !.fl = K(o, PcmpArgs(o, t))])

(* insertps: four bytes of a register lane, or of memory.                  *)
exec_v_insert_ps(o, s) ==
  IF o.b # Mem THEN SetLane(s, o.d, 1, K(o, <<Xmm(s, o.d), Xmm(s, o.b)>>))
  ELSE Then(vload(s, 0, 4), LAMBDA t : SetLane(t, o.d, 1, K(o, <<Xmm(t, o.d), Loaded(t, 4)>>)))
exec_v_insert_ps3(o, s) ==
  IF o.b # Mem THEN SetLane(s, o.d, 1, K(o, <<Xmm(s, o.a), Xmm(s, o.b)>>))
  ELSE Then(vload(s, 0, 4), LAMBDA t : SetLane(t, o.d, 1, K(o, <<Xmm(s, o.a), Loaded(t, 4)>>)))

exec_v_dpps(o, s) == LaneLoop(o, s, o.w)
(* Each lane is loaded, combined and written before the next is loaded.    *)
dpps_lane(o, s, i) ==
  Then(vload_lane(s, i), LAMBDA t : SetLane(t, o.d, i, K(o, <<t.r[o.d][i], MemLane(t, i)>>)))
exec_v_dpps_m(o, s) == ForLanes(o.w, s, LAMBDA t, i : dpps_lane(o, t, i))
exec_v_dppd(o, s) ==
  Src(o, s, 16, LAMBDA t : SetLane(t, o.d, 1, K(o, <<Xmm(t, o.d), B(o, t, 1)>>)))
exec_v_dp3(o, s) == Src(o, s, 16, LAMBDA t : SetLane(t, o.d, 1, Both(o, t, 1)))
exec_v_align(o, s) == exec_valign(o, s)
exec_v_p_ternlog(o, s) ==
  Src(o, s, o.w, LAMBDA t : set_vec(t, o.d, [i \in 1 .. o.w \div 16 |-> Ternary(o, t, i)], o.w))

exec_v_logic256_m(o, s) == Src(o, s, 32, LAMBDA t : set_vec_low(t, o.d, Lanewise(o, t, 32), 32))
exec_v_packed_bin256(o, s) ==
  IF o.b = Mem THEN Src(o, s, 32, LAMBDA t : set_vec_low(t, o.d, Lanewise(o, t, 32), 32))
  ELSE LaneLoop(o, s, 32)
exec_v_pmadd_m(o, s) == Src(o, s, o.w, LAMBDA t : set_vec_low(t, o.d, Lanewise(o, t, o.w), o.w))
exec_v_packed_wide(o, s) == Src(o, s, o.w, LAMBDA t : set_vec(t, o.d, Lanewise(o, t, o.w), o.w))

(* Temporaries carry values between vector and general registers.          *)
exec_v_move_mask_b256(o, s) == SetTemp(s, K(o, <<s.r[o.a][1], s.r[o.a][2]>>))
exec_v_from_gpr(o, s) == SetLane(s, o.d, 1, K(o, <<s.t>>))
exec_v_to_gpr(o, s) == SetTemp(s, K(o, <<Xmm(s, o.a)>>))
exec_v_logic(o, s) == SetLane(s, o.d, 1, K(o, <<Xmm(s, o.a), Xmm(s, o.b)>>))
exec_v_packed_bin(o, s) ==
  IF o.b # Mem THEN SetLane(s, o.d, 1, K(o, <<Xmm(s, o.a), Xmm(s, o.b)>>))
  ELSE Then(vload(s, 0, 16), LAMBDA t : SetLane(t, o.d, 1, K(o, <<Xmm(t, o.d), MemLane(t, 1)>>)))
exec_v_logic_m(o, s) ==
  Then(vload(s, 0, 16), LAMBDA t : SetLane(t, o.d, 1, K(o, <<Xmm(t, o.d), MemLane(t, 1)>>)))

(* ----------------------------- Shifts and blends ------------------------ *)

Lanewise1(o, s, n) == [i \in 1 .. n \div 16 |-> K(o, <<A(o, s, i)>>)]
exec_v_packed_shift(o, s) == SetLane(s, o.d, 1, K(o, <<Xmm(s, o.a)>>))
exec_v_masked_shift(o, s) == apply_masked_shift(o, s, Zero)
exec_v_byte_shift(o, s) == set_vec_low(s, o.d, Lanewise1(o, s, o.w), o.w)
exec_v_shuffle32(o, s) == set_vec_low(s, o.d, Lanewise1(o, s, o.w), o.w)
exec_v_blend_w(o, s) == set_vec_low(s, o.d, Lanewise(o, s, o.w), o.w)
exec_v_blend_d(o, s) == set_vec(s, o.d, Lanewise(o, s, o.w), o.w)

(* ---------------- Fused multiply, broadcasts, packs, halves ------------- *)

exec_v_fma(o, s) == exec_fma(o, s)
exec_v_fma_m(o, s) == fma_mem_run(o, s, FALSE)
exec_v_broadcast_lane(o, s) == exec_broadcast_lane(o, s)
exec_v_broadcast_lane_m(o, s) == broadcast_lane_mem_run(o, s, FALSE)
exec_v_pack_wide(o, s) == exec_vpack(o, s)
exec_v_pack_wide_m(o, s) == Then(vload(s, 0, 16), LAMBDA t : pack_wide_mem_from(o, t))
exec_v_shuffle32_wide(o, s) == exec_vshuffle32_wide(o, s)

(* Half of lane 0 is replaced: movhlps, movlhps, movlps, movhps.           *)
exec_v_move_half(o, s) == SetLane(s, o.d, 1, K(o, <<Xmm(s, o.d), Xmm(s, o.a)>>))
exec_v_load_half(o, s) ==
  Then(vload(s, 0, 8), LAMBDA t : SetLane(t, o.d, 1, K(o, <<Xmm(t, o.d), Loaded(t, 8)>>)))
exec_v_store_half(o, s) == vstore(s, 0, K(o, <<Xmm(s, o.a)>>), 8)

exec_v_extract_w(o, s) == SetTemp(s, K(o, <<Xmm(s, o.a)>>))
exec_v_extract_lane(o, s) == SetTemp(s, K(o, <<Xmm(s, o.a)>>))
exec_v_move_mask_b(o, s) == SetTemp(s, K(o, <<Xmm(s, o.a)>>))
exec_v_move_mask_fp(o, s) == SetTemp(s, K(o, All(s, o.a, o.w)))

(* vpbroadcast: ymm_hi is written, zmm_hi is not.                          *)
exec_v_broadcast(o, s) ==
  set_vec_low(s, o.d, <<K(o, <<Xmm(s, o.a)>>), IF o.w = 32 THEN K(o, <<Xmm(s, o.a)>>) ELSE Zero>>, 32)
exec_v_broadcast_m(o, s) ==
  LET v(t) == K(o, <<Loaded(t, 8)>>)
  IN Then(read(s, 0, 8), LAMBDA t :
          set_vec_low(t, o.d, <<v(t), IF o.w = 32 THEN v(t) ELSE Zero>>, 32))
exec_v_broadcast_gpr(o, s) == set_vec(s, o.d, [i \in 1 .. 4 |-> K(o, <<s.t>>)], o.w)

(* ------------------------------- Opmasks -------------------------------- *)

Gate(o, s, v) == IF o.k = 0 THEN v ELSE <<"and", s.k[o.k], v>>
MaskOf(o, s) == Gate(o, s, K(o, <<All(s, o.a, o.w), AllB(o, s, o.w)>>))
exec_v_p_cmp_to_mask(o, s) == Src(o, s, o.w, LAMBDA t : SetMask(t, o.d, MaskOf(o, t)))
exec_v_p_test_to_mask(o, s) == Src(o, s, o.w, LAMBDA t : SetMask(t, o.d, MaskOf(o, t)))
exec_v_k_or_test(o, s) == SetFlags(s, K(o, <<s.k[o.a], s.k[o.b]>>))
exec_v_k_from_gpr(o, s) == SetMask(s, o.d, K(o, <<s.t>>))
exec_v_k_to_gpr(o, s) == SetTemp(s, K(o, <<s.k[o.a]>>))
exec_v_k_mov_k_k(o, s) == SetMask(s, o.d, K(o, <<s.k[o.a]>>))
exec_v_k_unpack(o, s) == SetMask(s, o.d, K(o, <<s.k[o.a], s.k[o.b]>>))
exec_v_k_bin_op(o, s) == SetMask(s, o.d, K(o, <<s.k[o.a], s.k[o.b]>>))
exec_v_k_not(o, s) == SetMask(s, o.d, K(o, <<s.k[o.a]>>))
exec_v_k_shift(o, s) == SetMask(s, o.d, K(o, <<s.k[o.a]>>))

(* --------------------- Narrowing, permutes, lane moves ------------------ *)

exec_v_pmov_narrow(o, s) == exec_vpmov_narrow(o, s)
exec_v_pmov_narrow_mem(o, s) == narrow_store_run(o, s, FALSE)
exec_v_perm_t2(o, s) == exec_vpermt2(o, s)
exec_v_perm_t2_m(o, s) == permute2_run(o, s, FALSE)
exec_v_perm1(o, s) == exec_vperm1(o, s)
exec_v_perm1_m(o, s) == vperm1_run(o, s, FALSE)

(* vinserti128: o.imm is the half that is replaced.                        *)
exec_v_insert128(o, s) ==
  Src(o, s, 16, LAMBDA t : set_vec_low(t, o.d,
        IF o.imm = 1 THEN <<A(o, t, 1), B(o, t, 1)>> ELSE <<B(o, t, 1), A(o, t, 2)>>, 32))
exec_v_extract128(o, s) == set_vec_low(s, o.d, <<A(o, s, o.imm + 1), Zero>>, 32)

(* Two lanes, both read and combined before either is written.             *)
exec_v_pshufb256(o, s) == Src(o, s, 32, LAMBDA t : set_vec_low(t, o.d, Lanewise(o, t, 32), 32))
exec_v_pshufb_wide(o, s) == exec_vpshufb_wide(o, s)
exec_v_packed_shift256(o, s) == LaneLoopUnary(o, s, 32)
exec_v_permq(o, s) ==
  set_vec_low(s, o.d, [i \in 1 .. 2 |-> K(o, <<i, All(s, o.a, 32)>>)], 32)
exec_v_permd(o, s) ==
  set_vec_low(s, o.d, [i \in 1 .. 2 |-> K(o, <<i, All(s, o.a, 32), All(s, o.b, 32)>>)], 32)
exec_v_permil_var(o, s) == set_vec(s, o.d, Lanewise(o, s, o.w), o.w)
exec_v_perm2i128(o, s) ==
  set_vec_low(s, o.d, [i \in 1 .. 2 |-> K(o, <<i, All(s, o.a, 32), All(s, o.b, 32)>>)], 32)
exec_v_palignr256(o, s) == LaneLoop(o, s, 32)
exec_v_ptest(o, s) == SetFlags(s, K(o, <<All(s, o.a, o.w), All(s, o.b, o.w)>>))
exec_v_test_fp(o, s) == SetFlags(s, K(o, <<All(s, o.a, o.w), All(s, o.b, o.w)>>))
exec_v_zero_upper(o, s) == [s EXCEPT !.r[o.d] = <<@[1], Zero, Zero, Zero>>]
exec_v_zero_upper_all(o, s) ==
  [s EXCEPT !.r = [q \in Regs |-> <<IF o.z THEN Zero ELSE @[q][1], Zero, Zero, Zero>>]]

(* ------------------- Lane 0 only: the 128-bit operations ---------------- *)

(* The memory form combines with o.a, or, for some, with the destination.  *)
Lane0(o, s) == Src(o, s, 16, LAMBDA t : SetLane(t, o.d, 1, K(o, <<Xmm(t, o.a), B(o, t, 1)>>)))
Lane0Dst(o, s) == Lane0(IF o.b = Mem THEN [o EXCEPT !.a = o.d] ELSE o, s)
exec_v_pshufb(o, s) == Lane0Dst(o, s)
exec_v_alignr(o, s) == Lane0Dst(o, s)
exec_v_aes(o, s) == Src(o, s, 16, LAMBDA t : CryptoXmm(o, t, B(o, t, 1)))
exec_v_aes_imc(o, s) == Src(o, s, 16, LAMBDA t : SetLane(t, o.d, 1, K(o, <<B(o, t, 1)>>)))
exec_v_aes_keygen(o, s) == Src(o, s, 16, LAMBDA t : SetLane(t, o.d, 1, K(o, <<B(o, t, 1)>>)))
exec_v_sha(o, s) == Src(o, s, 16, LAMBDA t : CryptoXmm(o, t, B(o, t, 1)))
exec_v_gfni(o, s) == Src(o, s, 16, LAMBDA t : CryptoXmm(o, t, B(o, t, 1)))
exec_v_gf2p8_m(o, s) == gf2p8_mem_run(o, s, FALSE)
exec_v_pclmul(o, s) == Src(o, s, 16, LAMBDA t : CryptoXmm(o, t, B(o, t, 1)))
exec_v_psign(o, s) == LaneLoop(o, s, o.w)
(* As in exec_v_dpps_m, lane 0 is written before lane 1 is loaded.         *)
psign_lane(o, s, i) ==
  Then(vload_lane(s, i), LAMBDA t : SetLane(t, o.d, i, K(o, <<A(o, t, i), MemLane(t, i)>>)))
exec_v_psign_m(o, s) == ForLanes(o.w, s, LAMBDA t, i : psign_lane(o, t, i))
exec_v_shufps(o, s) == Lane0(o, s)
exec_v_shuffle16(o, s) == set_vec_low(s, o.d, Lanewise1(o, s, o.w), o.w)
exec_v_unpack_low(o, s) == Lane0(o, s)
exec_v_pack_us_w_b(o, s) == SetLane(s, o.d, 1, K(o, <<Xmm(s, o.a), Xmm(s, o.b)>>))
exec_v_insert_w(o, s) == SetLane(s, o.d, 1, K(o, <<Xmm(s, o.d), s.t>>))
exec_v_insert_lane(o, s) == SetLane(s, o.d, 1, K(o, <<Xmm(s, o.a), s.t>>))

(* ---------------------------- Floating point ---------------------------- *)

(* A scalar memory operand is o.n bytes, a packed one sixteen.             *)
FSrc(o, s, F(_, _)) ==
  IF o.b # Mem THEN F(s, Xmm(s, o.b))
  ELSE Then(vload(s, 0, o.n), LAMBDA t : F(t, Loaded(t, o.n)))
exec_v_float_mov(o, s) == SetLane(s, o.d, 1, K(o, <<Xmm(s, o.a), Xmm(s, o.b)>>))
exec_v_float_bin(o, s) ==
  LET base == IF o.b = Mem THEN o.d ELSE o.a
  IN FSrc(o, s, LAMBDA t, v : SetLane(t, o.d, 1, K(o, <<Xmm(t, base), v>>)))
Low256(o, s) == Src(o, s, 32, LAMBDA t : set_vec_low(t, o.d, Lanewise(o, t, 32), 32))
Low256Unary(o, s) ==
  Src(o, s, 32, LAMBDA t : set_vec_low(t, o.d, [i \in 1 .. 2 |-> K(o, <<B(o, t, i)>>)], 32))
exec_v_float_bin256(o, s) == Low256(o, s)
exec_v_float_unary256(o, s) == Low256Unary(o, s)
exec_v_packed_cvt256(o, s) == Low256Unary(o, s)
exec_v_shufps256(o, s) == Low256(o, s)
exec_v_unpack256(o, s) == Low256(o, s)
hfloat_reg(o, s) == set_vec_low(s, o.d, Lanewise(o, s, o.w), o.w)
hfloat_mem(o, s) == set_vec_low(s, o.d, Lanewise(o, s, o.w), o.w)
exec_v_h_float(o, s) == Src(o, s, o.w, LAMBDA t : IF o.b = Mem THEN hfloat_mem(o, t) ELSE hfloat_reg(o, t))
hint_reg(o, s) == LaneLoop(o, s, o.w)
hint_mem(o, s) == set_vec_low(s, o.d, Lanewise(o, s, o.w), o.w)
exec_v_h_int(o, s) == Src(o, s, o.w, LAMBDA t : IF o.b = Mem THEN hint_mem(o, t) ELSE hint_reg(o, t))
exec_v_float_cmp_mask(o, s) == exec_v_float_bin(o, s)
exec_v_float_cmp_mask256(o, s) == Low256(o, s)
(* comisd and the conversions take a temporary the lift has loaded.        *)
exec_v_float_cmp(o, s) == SetFlags(s, K(o, <<Xmm(s, o.a), s.t>>))
exec_v_cvt_from_int(o, s) == SetLane(s, o.d, 1, K(o, <<Xmm(s, o.d), s.t>>))
exec_v_cvt_to_int(o, s) == SetTemp(s, K(o, <<s.t>>))
exec_v_cvt_float(o, s) == SetLane(s, o.d, 1, K(o, <<Xmm(s, o.d), s.t>>))
exec_v_packed_cvt(o, s) == SetLane(s, o.d, 1, K(o, <<Xmm(s, o.a)>>))
(* The widening kinds (o.i) fill both lanes from one, the narrowing kinds  *)
(* one from both and clear the other.                                      *)
exec_v_packed_cvt_wide256(o, s) ==
  set_vec_low(s, o.d, IF o.i THEN [i \in 1 .. 2 |-> K(o, <<i, <<Xmm(s, o.a)>>>>)]
                      ELSE <<K(o, <<1, All(s, o.a, 32)>>), Zero>>, 32)
exec_v_float_unary(o, s) ==
  FSrc(o, s, LAMBDA t, v : SetLane(t, o.d, 1, K(o, <<Xmm(s, o.a), v>>)))

(* Arms of walk_ops itself.                                                *)
VCvtPh2Ps(o, s) ==
  set_vec_low(s, o.d, <<K(o, <<1, Xmm(s, o.a)>>),
                        IF o.w = 32 THEN K(o, <<2, Xmm(s, o.a)>>) ELSE Zero>>, 32)
VCvtPs2Ph(o, s) == set_vec_low(s, o.d, <<K(o, All(s, o.a, o.w)), Zero>>, 32)
VPhMinPosUw(o, s) == SetLane(s, o.d, 1, K(o, <<Xmm(s, o.a)>>))
VMpsadbw(o, s) == LaneLoop(o, s, o.w)

VMov256(o, s) == set_vec_low(s, o.d, vec_lanes(s, o.a), 32)
exec_pmaddwd(o, s) == SetLane(s, o.d, 1, K(o, <<Xmm(s, o.a), Xmm(s, o.b)>>))

(* --------------- General operands of vector instructions ---------------- *)

(* A pending MMIO answer is taken by the next load, whatever its address.  *)
exec_load(o, s) ==
  LET v(t) == SetTemp(t, Loaded(t, o.n))
  IN IF s.pend THEN v([s EXCEPT !.pend = FALSE]) ELSE Then(read(s, 0, o.n), v)
exec_store(o, s) ==
  IF RegionAt(s, 0, o.n) = "Mmio" /\ s.pend THEN [s EXCEPT !.pend = FALSE]
  ELSE write(s, 0, o.n, s.t)
exec_read_reg(o, s) == SetTemp(s, s.g[0])
exec_write_reg(o, s) == [s EXCEPT !.g[1] = s.t]

(* walk_ops: the handler of an op, by groups of arms in the order of the   *)
(* code, and the general ops a vector instruction is mixed with.            *)
walk_shuffle256(o, s) ==
  CASE o.op = "VUnpack256" -> exec_v_unpack256(o, s)
    [] o.op = "VCvtPh2Ps" -> VCvtPh2Ps(o, s)
    [] o.op = "VCvtPs2Ph" -> VCvtPs2Ph(o, s)
    [] o.op = "VPhMinPosUw" -> VPhMinPosUw(o, s)
    [] o.op = "VMpsadbw" -> VMpsadbw(o, s)
    [] o.op = "VFloatUnary" -> exec_v_float_unary(o, s)

walk_compare_convert(o, s) ==
  CASE o.op = "VFloatCmpMask256" -> exec_v_float_cmp_mask256(o, s)
    [] o.op = "VFloatCmp" -> exec_v_float_cmp(o, s)
    [] o.op = "VCvtFromInt" -> exec_v_cvt_from_int(o, s)
    [] o.op = "VCvtToInt" -> exec_v_cvt_to_int(o, s)
    [] o.op = "VCvtFloat" -> exec_v_cvt_float(o, s)
    [] o.op = "VPackedCvt" -> exec_v_packed_cvt(o, s)
    [] o.op = "VFloatBin256" -> exec_v_float_bin256(o, s)
    [] o.op = "VFloatUnary256" -> exec_v_float_unary256(o, s)
    [] o.op = "VPackedCvt256" -> exec_v_packed_cvt256(o, s)
    [] o.op = "VPackedCvtWide256" -> exec_v_packed_cvt_wide256(o, s)
    [] o.op = "VShufps256" -> exec_v_shufps256(o, s)
    [] OTHER -> walk_shuffle256(o, s)

walk_float(o, s) ==
  CASE o.op = "VPMaddM" -> exec_v_pmadd_m(o, s)
    [] o.op = "VInsertW" -> exec_v_insert_w(o, s)
    [] o.op = "VInsertLane" -> exec_v_insert_lane(o, s)
    [] o.op = "VFloatMov" -> exec_v_float_mov(o, s)
    [] o.op = "VFloatBin" -> exec_v_float_bin(o, s)
    [] o.op = "VHFloat" -> exec_v_h_float(o, s)
    [] o.op = "VHInt" -> exec_v_h_int(o, s)
    [] o.op = "VFloatCmpMask" -> exec_v_float_cmp_mask(o, s)
    [] OTHER -> walk_compare_convert(o, s)

walk_crypto(o, s) ==
  CASE o.op = "VAesImc" -> exec_v_aes_imc(o, s)
    [] o.op = "VAesKeygen" -> exec_v_aes_keygen(o, s)
    [] o.op = "VSha" -> exec_v_sha(o, s)
    [] o.op = "VGfni" -> exec_v_gfni(o, s)
    [] o.op = "VPclmul" -> exec_v_pclmul(o, s)
    [] o.op = "VPsign" -> exec_v_psign(o, s)
    [] o.op = "VPsignM" -> exec_v_psign_m(o, s)
    [] o.op = "VShufps" -> exec_v_shufps(o, s)
    [] o.op = "VShuffle16" -> exec_v_shuffle16(o, s)
    [] o.op = "VUnpackLow" -> exec_v_unpack_low(o, s)
    [] o.op = "VPackUsWB" -> exec_v_pack_us_w_b(o, s)
    [] o.op = "VPMAddWd" -> exec_pmaddwd(o, s)
    [] o.op = "VPMadd" -> exec_v_pmadd(o, s)
    [] OTHER -> walk_float(o, s)

walk_lanes(o, s) ==
  CASE o.op = "VPerm1M" -> exec_v_perm1_m(o, s)
    [] o.op = "VInsert128" -> exec_v_insert128(o, s)
    [] o.op = "VExtract128" -> exec_v_extract128(o, s)
    [] o.op = "VPshufb256" -> exec_v_pshufb256(o, s)
    [] o.op = "VPshufbWide" -> exec_v_pshufb_wide(o, s)
    [] o.op = "VPackedShift256" -> exec_v_packed_shift256(o, s)
    [] o.op = "VPermq" -> exec_v_permq(o, s)
    [] o.op = "VPermd" -> exec_v_permd(o, s)
    [] o.op = "VPermilVar" -> exec_v_permil_var(o, s)
    [] o.op = "VPerm2i128" -> exec_v_perm2i128(o, s)
    [] o.op = "VPalignr256" -> exec_v_palignr256(o, s)
    [] o.op = "VPtest" -> exec_v_ptest(o, s)
    [] o.op = "VTestFp" -> exec_v_test_fp(o, s)
    [] o.op = "VZeroUpper" -> exec_v_zero_upper(o, s)
    [] o.op = "VZeroUpperAll" -> exec_v_zero_upper_all(o, s)
    [] o.op = "VPshufb" -> exec_v_pshufb(o, s)
    [] o.op = "VAlignr" -> exec_v_alignr(o, s)
    [] o.op = "VAes" -> exec_v_aes(o, s)
    [] OTHER -> walk_crypto(o, s)

walk_opmask_narrow(o, s) ==
  CASE o.op = "VKOrTest" -> exec_v_k_or_test(o, s)
    [] o.op = "VKFromGpr" -> exec_v_k_from_gpr(o, s)
    [] o.op = "VKToGpr" -> exec_v_k_to_gpr(o, s)
    [] o.op = "VKMovKK" -> exec_v_k_mov_k_k(o, s)
    [] o.op = "VKUnpack" -> exec_v_k_unpack(o, s)
    [] o.op = "VKBinOp" -> exec_v_k_bin_op(o, s)
    [] o.op = "VKNot" -> exec_v_k_not(o, s)
    [] o.op = "VKShift" -> exec_v_k_shift(o, s)
    [] o.op = "VPmovNarrow" -> exec_v_pmov_narrow(o, s)
    [] o.op = "VPmovNarrowMem" -> exec_v_pmov_narrow_mem(o, s)
    [] o.op = "VPermT2" -> exec_v_perm_t2(o, s)
    [] o.op = "VPermT2M" -> exec_v_perm_t2_m(o, s)
    [] o.op = "VPerm1" -> exec_v_perm1(o, s)
    [] OTHER -> walk_lanes(o, s)

walk_half_broadcast(o, s) ==
  CASE o.op = "VLoadHalf" -> exec_v_load_half(o, s)
    [] o.op = "VStoreHalf" -> exec_v_store_half(o, s)
    [] o.op = "VExtractW" -> exec_v_extract_w(o, s)
    [] o.op = "VExtractLane" -> exec_v_extract_lane(o, s)
    [] o.op = "VMoveMaskB" -> exec_v_move_mask_b(o, s)
    [] o.op = "VMoveMaskFp" -> exec_v_move_mask_fp(o, s)
    [] o.op = "VBroadcast" -> exec_v_broadcast(o, s)
    [] o.op = "VBroadcastM" -> exec_v_broadcast_m(o, s)
    [] o.op = "VBroadcastGpr" -> exec_v_broadcast_gpr(o, s)
    [] o.op = "VBroadcastLane" -> exec_v_broadcast_lane(o, s)
    [] o.op = "VBroadcastLaneM" -> exec_v_broadcast_lane_m(o, s)
    [] o.op = "VPCmpToMask" -> exec_v_p_cmp_to_mask(o, s)
    [] o.op = "VPTestToMask" -> exec_v_p_test_to_mask(o, s)
    [] OTHER -> walk_opmask_narrow(o, s)

walk_shift_fma(o, s) ==
  CASE o.op = "VGf2p8M" -> exec_v_gf2p8_m(o, s)
    [] o.op = "VByteShift" -> exec_v_byte_shift(o, s)
    [] o.op = "VShuffle32" -> exec_v_shuffle32(o, s)
    [] o.op = "VBlendW" -> exec_v_blend_w(o, s)
    [] o.op = "VBlendD" -> exec_v_blend_d(o, s)
    [] o.op = "VFma" -> exec_v_fma(o, s)
    [] o.op = "VFmaM" -> exec_v_fma_m(o, s)
    [] o.op = "VPackWide" -> exec_v_pack_wide(o, s)
    [] o.op = "VPackWideM" -> exec_v_pack_wide_m(o, s)
    [] o.op = "VShuffle32Wide" -> exec_v_shuffle32_wide(o, s)
    [] o.op = "VMoveHalf" -> exec_v_move_half(o, s)
    [] OTHER -> walk_half_broadcast(o, s)

walk_wide(o, s) ==
  CASE o.op = "VPackedWide" -> exec_v_packed_wide(o, s)
    [] o.op = "VMoveMaskB256" -> exec_v_move_mask_b256(o, s)
    [] o.op = "VFromGpr" -> exec_v_from_gpr(o, s)
    [] o.op = "VToGpr" -> exec_v_to_gpr(o, s)
    [] o.op = "VLogic" -> exec_v_logic(o, s)
    [] o.op = "VPackedBin" -> exec_v_packed_bin(o, s)
    [] o.op = "VLogicM" -> exec_v_logic_m(o, s)
    [] o.op = "VPackedShift" -> exec_v_packed_shift(o, s)
    [] o.op = "VMaskedShift" -> exec_v_masked_shift(o, s)
    [] o.op = "VShiftReg" -> exec_shift_reg(o, s)
    [] o.op = "VShiftVar" -> exec_var_shift(o, s)
    [] o.op = "VGf2p8" -> exec_gf2p8(o, s)
    [] OTHER -> walk_shift_fma(o, s)

walk_dot(o, s) ==
  CASE o.op = "VInsertPs" -> exec_v_insert_ps(o, s)
    [] o.op = "VInsertPs3" -> exec_v_insert_ps3(o, s)
    [] o.op = "VDpps" -> exec_v_dpps(o, s)
    [] o.op = "VDppsM" -> exec_v_dpps_m(o, s)
    [] o.op = "VDppd" -> exec_v_dppd(o, s)
    [] o.op = "VDp3" -> exec_v_dp3(o, s)
    [] o.op = "VAlign" -> exec_v_align(o, s)
    [] o.op = "VPTernlog" -> exec_v_p_ternlog(o, s)
    [] o.op = "VLogic256M" -> exec_v_logic256_m(o, s)
    [] o.op = "VPackedBin256" -> exec_v_packed_bin256(o, s)
    [] OTHER -> walk_wide(o, s)

walk_round_insert(o, s) ==
  CASE o.op = "VBlendI" -> exec_v_blend_i(o, s)
    [] o.op = "VPRound" -> exec_v_p_round(o, s)
    [] o.op = "VPRoundM" -> exec_v_p_round_m(o, s)
    [] o.op = "VMaskedLogic" -> exec_v_masked_logic(o, s)
    [] o.op = "VMaskedPacked" -> exec_v_masked_packed(o, s)
    [] o.op = "VInsertLaneWide" -> exec_v_insert_lane_wide(o, s)
    [] o.op = "VExtractLaneWide" -> exec_v_extract_lane_wide(o, s)
    [] o.op = "VExtractLaneWideM" -> exec_v_extract_lane_wide_m(o, s)
    [] o.op = "VPcmpStr" -> exec_v_pcmp_str(o, s)
    [] o.op = "VPcmpStrMask" -> exec_v_pcmp_str_mask(o, s)
    [] OTHER -> walk_dot(o, s)

walk_extend_blend(o, s) ==
  CASE o.op = "VPMovExtend" -> exec_v_p_mov_extend(o, s)
    [] o.op = "VPMovExtendWide" -> exec_v_p_mov_extend_wide(o, s)
    [] o.op = "VPAbs" -> exec_v_p_abs(o, s)
    [] o.op = "VpUnaryLane" -> exec_v_p_unary_lane(o, s)
    [] o.op = "VpBlendm" -> exec_v_p_blendm(o, s)
    [] o.op = "VShuffLane" -> exec_v_shuf_lane(o, s)
    [] o.op = "VpMultishift" -> exec_v_p_multishift(o, s)
    [] o.op = "VPBlendV" -> exec_v_p_blend_v(o, s)
    [] o.op = "VPBlendVM" -> exec_v_p_blend_v_m(o, s)
    [] o.op = "VPBlendVX" -> exec_v_p_blend_v_x(o, s)
    [] OTHER -> walk_round_insert(o, s)

walk_moves(o, s) ==
  CASE o.op = "VLoad" -> exec_v_load(o, s)
    [] o.op = "VStore" -> exec_v_store(o, s)
    [] o.op = "VMov" -> exec_v_mov(o, s)
    [] o.op = "VMov256" -> VMov256(o, s)
    [] o.op = "VLoadWide" -> exec_v_load_wide(o, s)
    [] o.op = "VStoreWide" -> exec_v_store_wide(o, s)
    [] o.op = "VMovWide" -> exec_v_mov_wide(o, s)
    [] o.op = "VMaskMov" -> exec_v_mask_mov(o, s)
    [] o.op = "VMaskLoadMem" -> exec_v_mask_load_mem(o, s)
    [] o.op = "VMaskStoreMem" -> exec_v_mask_store_mem(o, s)
    [] o.op = "VVecMaskLoadMem" -> exec_v_vecmask_load_mem(o, s)
    [] o.op = "VVecMaskStoreMem" -> exec_v_vecmask_store_mem(o, s)
    [] o.op = "VLogic256" -> exec_v_logic256(o, s)
    [] o.op = "VLogicWide" -> exec_v_logic_wide(o, s)
    [] o.op = "VPopcnt" -> exec_v_popcnt(o, s)
    [] OTHER -> walk_extend_blend(o, s)

walk_ops(o, s) ==
  CASE o.op = "ReadReg" -> exec_read_reg(o, s)
    [] o.op = "WriteReg" -> exec_write_reg(o, s)
    [] o.op = "Load" -> exec_load(o, s)
    [] o.op = "Store" -> exec_store(o, s)
    [] OTHER -> walk_moves(o, s)
=============================================================================
