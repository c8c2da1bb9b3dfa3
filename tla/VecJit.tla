------------------------------- MODULE VecJit -------------------------------
(* codegen/vector.rs, one definition per emitter of a vector IrOp (its     *)
(* register and memory form together): what the compiled instruction does  *)
(* to the state.  Emitters that call a helper reach the same function of   *)
(* interp/mod.rs the interpreter uses; the memory helpers run it over      *)
(* RawStrMem (raw = TRUE).                                                 *)
EXTENDS VecHelpers

(* The memory operand is checked once, whole, before anything is written.  *)
Checking(o, s, n) == IF o.b = Mem THEN checked_addr(s, n, "Read") ELSE s
Checked(o, s, n, F(_)) == Then(Checking(o, s, n), F)

store_lanes_zeroed_above(s, d, n) ==
  [s EXCEPT !.r[d] = [i \in 1 .. 4 |-> IF i <= n \div 16 THEN @[i] ELSE Zero]]

(* "if n > 1 { store_lanes_zeroed_above }"                                 *)
ZeroedIfWide(o, s) == IF o.w > 16 THEN store_lanes_zeroed_above(s, o.d, o.w) ELSE s
store_xmm(s, d, v) == SetLane(s, d, 1, v)
(* The second source of a scalar operation: n bytes of memory or a register. *)
Elem(o, s, n) == IF o.b = Mem THEN Loaded(s, n) ELSE Xmm(s, o.b)

(* ------------------------------- Moves --------------------------------- *)

emit_v_load(o, s) ==
  Then(checked_addr(s, o.n, "Read"), LAMBDA t : store_xmm(t, o.d, Loaded(t, o.n)))
(* Mutant: the store is not reported.                                      *)
StoreUnnoted(o, s) ==
  Then(checked_addr(s, o.n, "Write"), LAMBDA t :
       IF o.n = 16 THEN gstore(t, 1, Xmm(t, o.a)) ELSE Put(t, 0, o.n, Lo(Xmm(t, o.a))))
emit_v_store(o, s) ==
  Then(checked_addr(s, o.n, "Write"), LAMBDA t :
       note_store(IF o.n = 16 THEN gstore(t, 1, Xmm(t, o.a)) ELSE Put(t, 0, o.n, Lo(Xmm(t, o.a))), o.n))
emit_v_mov(o, s) == store_xmm(s, o.d, Xmm(s, o.a))
emit_v_load_wide(o, s) ==
  Then(checked_addr(s, o.w, "Read"), LAMBDA t :
       store_lanes_zeroed_above(EachLane(t, o.w, o.d, LAMBDA u, i : MemLane(u, i)), o.d, o.w))
emit_v_store_wide(o, s) ==
  Then(checked_addr(s, o.w, "Write"), LAMBDA t :
       note_store(ForLanes(o.w, t, LAMBDA u, i : gstore(u, i, A(o, u, i))), o.w))
emit_v_mov_wide(o, s) ==
  store_lanes_zeroed_above(EachLane(s, o.w, o.d, LAMBDA t, i : A(o, t, i)), o.d, o.w)
emit_v_mask_mov(o, s) == vmaskmov_helper(o, s)
emit_v_mask_load_mem(o, s) == vmaskmov_mem_helper(o, s, FALSE)
emit_v_mask_store_mem(o, s) == vmaskmov_mem_helper(o, s, TRUE)
emit_v_vecmask_load_mem(o, s) == vec_maskmov_mem_helper(o, s, FALSE)
emit_v_vecmask_store_mem(o, s) == vec_maskmov_mem_helper(o, s, TRUE)
(* Mutant: the inserted lanes are read after the copy.                     *)
InsertLate(o, s) ==
  LET base == o.imm * o.n
      copied == EachLane(s, o.w, o.d, LAMBDA t, i : A(o, t, i))
      put == ForLanes(16 * o.n, copied, LAMBDA t, j : SetLane(t, o.d, base + j, copied.r[o.b][j]))
  IN store_lanes_zeroed_above(put, o.d, o.w)
(* The inserted lanes are loaded first, so that dst may be their source.   *)
emit_v_insert_lane_wide(o, s) ==
  LET base == o.imm * o.n
      copied == EachLane(s, o.w, o.d, LAMBDA t, i : A(o, t, i))
      put == ForLanes(16 * o.n, copied, LAMBDA t, j : SetLane(t, o.d, base + j, s.r[o.b][j]))
  IN store_lanes_zeroed_above(put, o.d, o.w)
emit_v_extract_lane_wide(o, s) ==
  store_lanes_zeroed_above(EachLane(s, 16 * o.n, o.d, LAMBDA t, j : s.r[o.a][o.imm * o.n + j]),
                           o.d, 16 * o.n)
emit_v_extract_lane_wide_m(o, s) ==
  Then(checked_addr(s, 16 * o.n, "Write"), LAMBDA t :
       note_store(ForLanes(16 * o.n, t, LAMBDA u, j : gstore(u, j, s.r[o.a][o.imm * o.n + j])),
                  16 * o.n))

(* --------------------- Strings, insertps, dot products ------------------ *)

emit_v_pcmp_str(o, s) ==
  Checked(o, s, 16, LAMBDA t :
    LET v == IF o.b = Mem THEN pcmpstr_mem_helper(o, t) ELSE pcmpstr_helper(o, t)
    IN [t EXCEPT !.g[1] = v, !.fl = v])
(* The flags travel in a stack slot the helper fills.                      *)
store_pcmpstrm_flags(s, slot) == SetFlags(s, slot)
emit_v_pcmp_str_mask(o, s) ==
  Checked(o, s, 16, LAMBDA t :
    store_pcmpstrm_flags(IF o.b = Mem THEN pcmpstrm_mem_helper(o, t) ELSE pcmpstrm_helper(o, t),
                         K(o, PcmpArgs(o, t))))
emit_v_insert_ps(o, s) ==
  Checked(o, s, 4, LAMBDA t : store_xmm(t, o.d, K(o, <<Xmm(t, o.d), Elem(o, t, 4)>>)))
emit_v_insert_ps3(o, s) ==
  Checked(o, s, 4, LAMBDA t : store_xmm(t, o.d, K(o, <<Xmm(t, o.a), Elem(o, t, 4)>>)))
emit_v_dpps(o, s) == LaneLoop(o, s, o.w)
emit_v_dpps_m(o, s) == Checked(o, s, o.w, LAMBDA t : LaneLoop([o EXCEPT !.a = o.d], t, o.w))
emit_v_dppd(o, s) ==
  Checked(o, s, 16, LAMBDA t : store_xmm(t, o.d, K(o, <<Xmm(t, o.d), B(o, t, 1)>>)))
emit_v_dp3(o, s) ==
  Checked(o, s, 16, LAMBDA t : store_xmm(t, o.d, K(o, <<Xmm(t, o.a), B(o, t, 1)>>)))

(* ------------------ Calls of the shared functions ----------------------- *)

emit_v_align(o, s) == valign_helper(o, s)
emit_v_perm_t2(o, s) == vpermt2_helper(o, s)
emit_v_perm_t2_m(o, s) == vpermt2_mem_helper(o, s)
emit_v_perm1(o, s) == vperm1_helper(o, s)
emit_v_perm1_m(o, s) == vperm1_mem_helper(o, s)
emit_v_masked_logic(o, s) == vmasked_logic_helper(o, s)
emit_v_masked_packed(o, s) == vmasked_packed_helper(o, s)
emit_v_masked_shift(o, s) == vmasked_shift_helper(o, s)
emit_v_shift_var(o, s) == var_shift_helper(o, s)
emit_v_shift_reg(o, s) ==
  IF o.k = 0 /\ ~o.z /\ o.w = 16 THEN store_xmm(s, o.d, K(o, <<Xmm(s, o.a), Xmm(s, o.b)>>))
  ELSE shift_reg_helper(o, s)
emit_v_gf2p8(o, s) == gf2p8_helper(o, s)
emit_v_gf2p8_m(o, s) == gf2p8_mem_helper(o, s)

(* --------------------- Logic, extension, blends, rounding --------------- *)

emit_v_logic256(o, s) == LaneLoop(o, s, o.w)
emit_v_logic_wide(o, s) ==
  Checked(o, s, o.w, LAMBDA t : store_lanes_zeroed_above(LaneLoop(o, t, o.w), o.d, o.w))
emit_v_popcnt(o, s) ==
  Checked(o, s, o.w, LAMBDA t :
    store_lanes_zeroed_above(LaneLoopB(o, t, o.w), o.d, o.w))
emit_v_p_mov_extend(o, s) ==
  Checked(o, s, o.n, LAMBDA t : store_xmm(t, o.d, K(o, <<Elem(o, t, o.n)>>)))
emit_v_p_mov_extend_wide(o, s) == vpmov_extend_wide_helper(o, s)
emit_v_p_abs(o, s) == vpabs_helper(o, s)
emit_v_p_unary_lane(o, s) == vp_unary_lane_helper(o, s)
emit_v_p_blendm(o, s) == vp_blendm_helper(o, s)
emit_v_shuf_lane(o, s) == vshuf_lane_helper(o, s)
emit_v_p_multishift(o, s) == vp_multishift_helper(o, s)
emit_v_p_blend_v(o, s) ==
  Checked(o, s, 16, LAMBDA t : store_xmm(t, o.d, K(o, <<Xmm(t, o.d), B(o, t, 1), Xmm(t, 0)>>)))
emit_v_p_blend_v_x(o, s) ==
  Checked(o, s, o.w, LAMBDA t : store_lanes_zeroed_above(
    EachLane(t, o.w, o.d, LAMBDA u, i : Picked(o, u, i)), o.d, o.w))
emit_v_blend_i(o, s) == Checked(o, s, o.w, LAMBDA t : ZeroedIfWide(o, LaneLoop(o, t, o.w)))
emit_v_p_round(o, s) == LaneLoop(o, s, o.w)
emit_v_p_round_m(o, s) ==
  IF o.sc THEN Checked(o, s, 8, LAMBDA t : store_xmm(t, o.d, K(o, <<Xmm(t, o.d), Loaded(t, 8)>>)))
  ELSE Checked(o, s, o.w, LAMBDA t : LaneLoop([o EXCEPT !.a = o.d], t, o.w))
emit_v_p_ternlog(o, s) ==
  Checked(o, s, o.w, LAMBDA t : store_lanes_zeroed_above(
    EachLane(t, o.w, o.d, LAMBDA u, i : Ternary(o, u, i)), o.d, o.w))
emit_v_logic256_m(o, s) == Checked(o, s, 32, LAMBDA t : LaneLoop(o, t, o.w))
emit_v_packed_bin256(o, s) == Checked(o, s, 32, LAMBDA t : LaneLoop(o, t, o.w))
emit_v_packed_wide(o, s) ==
  Checked(o, s, o.w, LAMBDA t : store_lanes_zeroed_above(LaneLoop(o, t, o.w), o.d, o.w))
emit_v_move_mask_b256(o, s) == SetTemp(s, K(o, All(s, o.a, 32)))

(* xmm, then ymm_hi and both halves of zmm_hi by the width.                *)
emit_v_broadcast_gpr(o, s) ==
  LET v == K(o, <<s.t>>) IN
  [s EXCEPT !.r[o.d] = <<v, IF o.w >= 32 THEN v ELSE Zero, IF o.w >= 64 THEN v ELSE Zero,
                         IF o.w >= 64 THEN v ELSE Zero>>]

(* ------------------------------- Opmasks -------------------------------- *)

emit_vpcmp_to_mask(o, s) == SetMask(s, o.d, MaskOf(o, s))
emit_vptest_to_mask(o, s) == SetMask(s, o.d, MaskOf(o, s))
emit_v_p_cmp_to_mask(o, s) == Checked(o, s, o.w, LAMBDA t : emit_vpcmp_to_mask(o, t))
emit_v_p_test_to_mask(o, s) == Checked(o, s, o.w, LAMBDA t : emit_vptest_to_mask(o, t))
emit_v_k_or_test(o, s) == SetFlags(s, K(o, <<s.k[o.a], s.k[o.b]>>))
emit_v_k_from_gpr(o, s) == SetMask(s, o.d, K(o, <<s.t>>))
emit_v_k_to_gpr(o, s) == SetTemp(s, K(o, <<s.k[o.a]>>))
emit_v_k_mov_k_k(o, s) == SetMask(s, o.d, K(o, <<s.k[o.a]>>))
emit_v_k_unpack(o, s) == SetMask(s, o.d, K(o, <<s.k[o.a], s.k[o.b]>>))
emit_v_k_bin_op(o, s) == SetMask(s, o.d, K(o, <<s.k[o.a], s.k[o.b]>>))
emit_v_k_not(o, s) == SetMask(s, o.d, K(o, <<s.k[o.a]>>))
emit_v_k_shift(o, s) == SetMask(s, o.d, K(o, <<s.k[o.a]>>))

(* -------------------- Narrowing, broadcasts, lane moves ------------------ *)

emit_v_pmov_narrow(o, s) == vpmov_narrow_helper(o, s)
emit_v_pmov_narrow_mem(o, s) == vpmov_narrow_mem_helper(o, s)
store_ymm_hi(s, d, v) == SetLane(s, d, 2, v)
Broadcast(o, s, v) == store_ymm_hi(store_xmm(s, o.d, v), o.d, IF o.w = 32 THEN v ELSE Zero)
emit_v_broadcast(o, s) == Broadcast(o, s, K(o, <<Xmm(s, o.a)>>))
emit_v_broadcast_m(o, s) ==
  Then(checked_addr(s, 8, "Read"), LAMBDA t : Broadcast(o, t, K(o, <<Loaded(t, 8)>>)))
emit_v_insert128(o, s) ==
  Checked(o, s, 16, LAMBDA t :
    IF o.imm = 1 THEN store_ymm_hi(store_xmm(t, o.d, A(o, t, 1)), o.d, B(o, t, 1))
    ELSE store_ymm_hi(store_xmm(t, o.d, B(o, t, 1)), o.d, A(o, t, 2)))
emit_v_extract128(o, s) == store_ymm_hi(store_xmm(s, o.d, A(o, s, o.imm + 1)), o.d, Zero)
emit_v_from_gpr(o, s) == store_xmm(s, o.d, K(o, <<s.t>>))
emit_v_to_gpr(o, s) == SetTemp(s, K(o, <<Xmm(s, o.a)>>))
emit_v_logic(o, s) == store_xmm(s, o.d, K(o, <<Xmm(s, o.a), Xmm(s, o.b)>>))

(* A 128-bit operation: the memory forms of some take the destination as   *)
(* their first source.                                                     *)
Into0(o, s) == Checked(o, s, 16, LAMBDA t : store_xmm(t, o.d, K(o, <<Xmm(t, o.a), B(o, t, 1)>>)))
Into0Dst(o, s) == Into0(IF o.b = Mem THEN [o EXCEPT !.a = o.d] ELSE o, s)
emit_v_packed_bin(o, s) == Into0Dst(o, s)
emit_v_logic_m(o, s) == Into0Dst(o, s)
emit_v_packed_shift(o, s) == store_xmm(s, o.d, K(o, <<Xmm(s, o.a)>>))
emit_v_packed_shift256(o, s) == LaneLoopUnary(o, s, 32)

(* Both halves are loaded before either is stored.                         *)
AcrossLanes(o, s, args) ==
  store_ymm_hi(store_xmm(s, o.d, K(o, <<1>> \o args)), o.d, K(o, <<2>> \o args))
emit_v_permq(o, s) == AcrossLanes(o, s, <<All(s, o.a, 32)>>)
emit_v_permd(o, s) == AcrossLanes(o, s, <<All(s, o.a, 32), All(s, o.b, 32)>>)
emit_v_permil_var(o, s) == store_lanes_zeroed_above(LaneLoop(o, s, o.w), o.d, o.w)
emit_v_perm2i128(o, s) == AcrossLanes(o, s, <<All(s, o.a, 32), All(s, o.b, 32)>>)
emit_v_palignr256(o, s) == LaneLoop(o, s, 32)
emit_v_ptest(o, s) == SetFlags(s, K(o, <<All(s, o.a, o.w), All(s, o.b, o.w)>>))
emit_v_test_fp(o, s) == SetFlags(s, K(o, <<All(s, o.a, o.w), All(s, o.b, o.w)>>))
emit_v_pshufb256(o, s) == Checked(o, s, 32, LAMBDA t : LaneLoop(o, t, o.w))
emit_v_pshufb_wide(o, s) == vpshufb_wide_helper(o, s)
emit_v_byte_shift(o, s) == ZeroedIfWide(o, LaneLoopUnary(o, s, o.w))
emit_v_shuffle32(o, s) == ZeroedIfWide(o, LaneLoopUnary(o, s, o.w))
emit_v_blend_w(o, s) == ZeroedIfWide(o, LaneLoop(o, s, o.w))
(* Mutant: the lanes above the result keep their value.                    *)
BlendKeepsUpper(o, s) == LaneLoop(o, s, o.w)
emit_v_blend_d(o, s) == store_lanes_zeroed_above(LaneLoop(o, s, o.w), o.d, o.w)

(* ------------- Fused multiply, cryptography, packs (helpers) ------------- *)

emit_v_fma(o, s) == fma_helper(o, s)
emit_v_fma_m(o, s) == fma_mem_helper(o, s)
emit_v_broadcast_lane(o, s) == broadcast_lane_helper(o, s)
emit_v_broadcast_lane_m(o, s) == broadcast_lane_mem_helper(o, s)
emit_v_aes(o, s) ==
  Checked(o, s, 16, LAMBDA t : IF o.b = Mem THEN aes_mem_helper(o, t) ELSE aes_helper(o, t))
emit_v_aes_imc(o, s) == Checked(o, s, 16, LAMBDA t : store_xmm(t, o.d, K(o, <<B(o, t, 1)>>)))
emit_v_aes_keygen(o, s) == Checked(o, s, 16, LAMBDA t : store_xmm(t, o.d, K(o, <<B(o, t, 1)>>)))
emit_v_sha(o, s) ==
  Checked(o, s, 16, LAMBDA t : IF o.b = Mem THEN sha_mem_helper(o, t) ELSE sha_helper(o, t))
emit_v_gfni(o, s) ==
  Checked(o, s, 16, LAMBDA t : IF o.b = Mem THEN gfni_mem_helper(o, t) ELSE gfni_helper(o, t))
emit_v_pclmul(o, s) ==
  Checked(o, s, 16, LAMBDA t : IF o.b = Mem THEN pclmul_mem_helper(o, t) ELSE pclmul_helper(o, t))
emit_v_psign(o, s) == Checked(o, s, o.w, LAMBDA t : LaneLoop(o, t, o.w))
emit_v_pack_wide(o, s) == vpack_helper(o, s)
emit_v_pack_wide_m(o, s) == Checked(o, s, 16, LAMBDA t : vpack_mem_helper(o, t))
emit_v_pmadd(o, s) == vpmadd_helper(o, s)
emit_v_pmadd_m(o, s) ==
  Checked(o, s, o.w, LAMBDA t : ForLanes(o.w, t, LAMBDA u, i : vpmadd_mem_helper(o, u, i)))
emit_v_shuffle32_wide(o, s) == vshuffle32_wide_helper(o, s)

(* ------------------------- Halves, masks, uppers ------------------------- *)

emit_v_move_half(o, s) == store_xmm(s, o.d, K(o, <<Xmm(s, o.d), Xmm(s, o.a)>>))
emit_v_load_half(o, s) ==
  Then(checked_addr(s, 8, "Read"), LAMBDA t : store_xmm(t, o.d, K(o, <<Xmm(t, o.d), Loaded(t, 8)>>)))
emit_v_store_half(o, s) ==
  Then(checked_addr(s, 8, "Write"), LAMBDA t : note_store(Put(t, 0, 8, Lo(K(o, <<Xmm(t, o.a)>>))), 8))
emit_v_extract_w(o, s) == SetTemp(s, K(o, <<Xmm(s, o.a)>>))
emit_v_extract_lane(o, s) == SetTemp(s, K(o, <<Xmm(s, o.a)>>))
emit_v_move_mask_b(o, s) == SetTemp(s, K(o, <<Xmm(s, o.a)>>))
emit_v_move_mask_fp(o, s) == SetTemp(s, K(o, All(s, o.a, o.w)))
emit_v_zero_upper(o, s) == [s EXCEPT !.r[o.d] = <<@[1], Zero, Zero, Zero>>]
emit_v_zero_upper_all(o, s) ==
  [s EXCEPT !.r = [q \in Regs |-> <<IF o.z THEN Zero ELSE @[q][1], Zero, Zero, Zero>>]]
emit_v_pshufb(o, s) == Into0Dst(o, s)
emit_v_alignr(o, s) == Into0Dst(o, s)
emit_v_shufps(o, s) == Into0(o, s)
emit_v_shuffle16(o, s) == ZeroedIfWide(o, LaneLoopUnary(o, s, o.w))
emit_v_unpack_low(o, s) == Into0(o, s)
emit_v_pack_us_w_b(o, s) == Into0(o, s)
emit_v_insert_w(o, s) == store_xmm(s, o.d, K(o, <<Xmm(s, o.d), s.t>>))
emit_v_insert_lane(o, s) == store_xmm(s, o.d, K(o, <<Xmm(s, o.a), s.t>>))

(* ----------------------------- Floating point ---------------------------- *)

FInto0(o, s, base) ==
  Checked(o, s, o.n, LAMBDA t : store_xmm(t, o.d, K(o, <<Xmm(t, base), Elem(o, t, o.n)>>)))
emit_v_float_mov(o, s) == store_xmm(s, o.d, K(o, <<Xmm(s, o.a), Xmm(s, o.b)>>))
emit_v_float_bin(o, s) == FInto0(o, s, IF o.b = Mem THEN o.d ELSE o.a)
Halves(o, s) == Checked(o, s, 32, LAMBDA t : LaneLoop(o, t, o.w))
HalvesUnary(o, s) ==
  Checked(o, s, 32, LAMBDA t : LaneLoopB(o, t, 32))
emit_v_float_bin256(o, s) == Halves(o, s)
emit_v_float_unary256(o, s) == HalvesUnary(o, s)
emit_v_packed_cvt256(o, s) == HalvesUnary(o, s)
emit_v_shufps256(o, s) == Halves(o, s)
emit_v_unpack256(o, s) == Halves(o, s)
emit_v_h_float(o, s) == Checked(o, s, o.w, LAMBDA t : IF o.b = Mem THEN vhfloat_mem_helper(o, t) ELSE vhfloat_helper(o, t))
emit_v_h_int(o, s) == Checked(o, s, o.w, LAMBDA t : IF o.b = Mem THEN vhint_mem_helper(o, t) ELSE vhint_helper(o, t))
emit_v_float_cmp(o, s) == SetFlags(s, K(o, <<Xmm(s, o.a), s.t>>))
emit_v_float_cmp_mask(o, s) == FInto0(o, s, IF o.b = Mem THEN o.d ELSE o.a)
emit_v_float_cmp_mask256(o, s) == Halves(o, s)
emit_v_cvt_from_int(o, s) == store_xmm(s, o.d, K(o, <<Xmm(s, o.d), s.t>>))
emit_v_cvt_to_int(o, s) == SetTemp(s, K(o, <<s.t>>))
emit_v_cvt_float(o, s) == store_xmm(s, o.d, K(o, <<Xmm(s, o.d), s.t>>))
emit_v_packed_cvt(o, s) == store_xmm(s, o.d, K(o, <<Xmm(s, o.a)>>))
emit_v_packed_cvt_wide256(o, s) ==
  IF o.i THEN AcrossLanes(o, s, <<All(s, o.a, 16)>>)
  ELSE store_ymm_hi(store_xmm(s, o.d, K(o, <<1, All(s, o.a, 32)>>)), o.d, Zero)
emit_v_phminposuw(o, s) == phminposuw_helper(o, s)
emit_v_mpsadbw(o, s) == mpsadbw_helper(o, s)
emit_v_cvt_ph2ps(o, s) == cvtph2ps_helper(o, s)
emit_v_cvt_ps2ph(o, s) == cvtps2ph_helper(o, s)
emit_v_float_unary(o, s) == FInto0(o, s, o.a)

emit_v_mov256(o, s) ==
  LET lo == A(o, s, 1)
      hi == A(o, s, 2)
  IN store_ymm_hi(store_xmm(s, o.d, lo), o.d, hi)
emit_v_pmaddwd(o, s) == pmaddwd_helper(o, s)

(* --------------- General operands of vector instructions ---------------- *)

emit_load(o, s) == Then(checked_addr(s, o.n, "Read"), LAMBDA t : SetTemp(t, Loaded(t, o.n)))
emit_store(o, s) ==
  Then(checked_addr(s, o.n, "Write"), LAMBDA t : note_store(Put(t, 0, o.n, t.t), o.n))
emit_read_reg(o, s) == SetTemp(s, s.g[0])
emit_write_reg(o, s) == [s EXCEPT !.g[1] = s.t]

(* Translator::op: the emitter of an op.                                   *)
op_convert256(o, s) ==
  CASE o.op = "VFloatUnary256" -> emit_v_float_unary256(o, s)
    [] o.op = "VPackedCvt256" -> emit_v_packed_cvt256(o, s)
    [] o.op = "VPackedCvtWide256" -> emit_v_packed_cvt_wide256(o, s)
    [] o.op = "VShufps256" -> emit_v_shufps256(o, s)
    [] o.op = "VUnpack256" -> emit_v_unpack256(o, s)
    [] o.op = "VCvtPh2Ps" -> emit_v_cvt_ph2ps(o, s)
    [] o.op = "VCvtPs2Ph" -> emit_v_cvt_ps2ph(o, s)
    [] o.op = "VPhMinPosUw" -> emit_v_phminposuw(o, s)
    [] o.op = "VMpsadbw" -> emit_v_mpsadbw(o, s)
    [] o.op = "VFloatUnary" -> emit_v_float_unary(o, s)

op_pack_float(o, s) ==
  CASE o.op = "VPackUsWB" -> emit_v_pack_us_w_b(o, s)
    [] o.op = "VPMAddWd" -> emit_v_pmaddwd(o, s)
    [] o.op = "VPMadd" -> emit_v_pmadd(o, s)
    [] o.op = "VPMaddM" -> emit_v_pmadd_m(o, s)
    [] o.op = "VInsertW" -> emit_v_insert_w(o, s)
    [] o.op = "VInsertLane" -> emit_v_insert_lane(o, s)
    [] o.op = "VFloatMov" -> emit_v_float_mov(o, s)
    [] o.op = "VFloatBin" -> emit_v_float_bin(o, s)
    [] o.op = "VHFloat" -> emit_v_h_float(o, s)
    [] o.op = "VHInt" -> emit_v_h_int(o, s)
    [] o.op = "VFloatCmp" -> emit_v_float_cmp(o, s)
    [] o.op = "VFloatCmpMask" -> emit_v_float_cmp_mask(o, s)
    [] o.op = "VFloatCmpMask256" -> emit_v_float_cmp_mask256(o, s)
    [] o.op = "VCvtFromInt" -> emit_v_cvt_from_int(o, s)
    [] o.op = "VCvtToInt" -> emit_v_cvt_to_int(o, s)
    [] o.op = "VCvtFloat" -> emit_v_cvt_float(o, s)
    [] o.op = "VPackedCvt" -> emit_v_packed_cvt(o, s)
    [] o.op = "VFloatBin256" -> emit_v_float_bin256(o, s)
    [] OTHER -> op_convert256(o, s)

op_fma_half_crypto(o, s) ==
  CASE o.op = "VFmaM" -> emit_v_fma_m(o, s)
    [] o.op = "VPackWide" -> emit_v_pack_wide(o, s)
    [] o.op = "VPackWideM" -> emit_v_pack_wide_m(o, s)
    [] o.op = "VShuffle32Wide" -> emit_v_shuffle32_wide(o, s)
    [] o.op = "VMoveHalf" -> emit_v_move_half(o, s)
    [] o.op = "VLoadHalf" -> emit_v_load_half(o, s)
    [] o.op = "VStoreHalf" -> emit_v_store_half(o, s)
    [] o.op = "VExtractW" -> emit_v_extract_w(o, s)
    [] o.op = "VExtractLane" -> emit_v_extract_lane(o, s)
    [] o.op = "VMoveMaskB" -> emit_v_move_mask_b(o, s)
    [] o.op = "VMoveMaskFp" -> emit_v_move_mask_fp(o, s)
    [] o.op = "VZeroUpper" -> emit_v_zero_upper(o, s)
    [] o.op = "VZeroUpperAll" -> emit_v_zero_upper_all(o, s)
    [] o.op = "VPshufb" -> emit_v_pshufb(o, s)
    [] o.op = "VAlignr" -> emit_v_alignr(o, s)
    [] o.op = "VAes" -> emit_v_aes(o, s)
    [] o.op = "VAesImc" -> emit_v_aes_imc(o, s)
    [] o.op = "VAesKeygen" -> emit_v_aes_keygen(o, s)
    [] o.op = "VSha" -> emit_v_sha(o, s)
    [] o.op = "VPclmul" -> emit_v_pclmul(o, s)
    [] o.op = "VGfni" -> emit_v_gfni(o, s)
    [] o.op = "VPsign" -> emit_v_psign(o, s)
    [] o.op = "VPsignM" -> emit_v_psign(o, s)
    [] o.op = "VShufps" -> emit_v_shufps(o, s)
    [] o.op = "VShuffle16" -> emit_v_shuffle16(o, s)
    [] o.op = "VUnpackLow" -> emit_v_unpack_low(o, s)
    [] OTHER -> op_pack_float(o, s)

op_narrow_shift(o, s) ==
  CASE o.op = "VPmovNarrow" -> emit_v_pmov_narrow(o, s)
    [] o.op = "VPmovNarrowMem" -> emit_v_pmov_narrow_mem(o, s)
    [] o.op = "VBroadcast" -> emit_v_broadcast(o, s)
    [] o.op = "VBroadcastM" -> emit_v_broadcast_m(o, s)
    [] o.op = "VInsert128" -> emit_v_insert128(o, s)
    [] o.op = "VExtract128" -> emit_v_extract128(o, s)
    [] o.op = "VFromGpr" -> emit_v_from_gpr(o, s)
    [] o.op = "VToGpr" -> emit_v_to_gpr(o, s)
    [] o.op = "VLogic" -> emit_v_logic(o, s)
    [] o.op = "VPackedBin" -> emit_v_packed_bin(o, s)
    [] o.op = "VLogicM" -> emit_v_logic_m(o, s)
    [] o.op = "VPackedShift" -> emit_v_packed_shift(o, s)
    [] o.op = "VPackedShift256" -> emit_v_packed_shift256(o, s)
    [] o.op = "VPermq" -> emit_v_permq(o, s)
    [] o.op = "VPermd" -> emit_v_permd(o, s)
    [] o.op = "VPermilVar" -> emit_v_permil_var(o, s)
    [] o.op = "VPerm2i128" -> emit_v_perm2i128(o, s)
    [] o.op = "VPalignr256" -> emit_v_palignr256(o, s)
    [] o.op = "VPtest" -> emit_v_ptest(o, s)
    [] o.op = "VTestFp" -> emit_v_test_fp(o, s)
    [] o.op = "VPshufb256" -> emit_v_pshufb256(o, s)
    [] o.op = "VPshufbWide" -> emit_v_pshufb_wide(o, s)
    [] o.op = "VByteShift" -> emit_v_byte_shift(o, s)
    [] o.op = "VShuffle32" -> emit_v_shuffle32(o, s)
    [] o.op = "VBlendW" -> emit_v_blend_w(o, s)
    [] o.op = "VBlendD" -> emit_v_blend_d(o, s)
    [] o.op = "VFma" -> emit_v_fma(o, s)
    [] OTHER -> op_fma_half_crypto(o, s)

op_wide_broadcast(o, s) ==
  CASE o.op = "VLogic256M" -> emit_v_logic256_m(o, s)
    [] o.op = "VPackedBin256" -> emit_v_packed_bin256(o, s)
    [] o.op = "VPackedWide" -> emit_v_packed_wide(o, s)
    [] o.op = "VMoveMaskB256" -> emit_v_move_mask_b256(o, s)
    [] o.op = "VBroadcastGpr" -> emit_v_broadcast_gpr(o, s)
    [] o.op = "VBroadcastLane" -> emit_v_broadcast_lane(o, s)
    [] o.op = "VBroadcastLaneM" -> emit_v_broadcast_lane_m(o, s)
    [] o.op = "VPCmpToMask" -> emit_v_p_cmp_to_mask(o, s)
    [] o.op = "VPTestToMask" -> emit_v_p_test_to_mask(o, s)
    [] o.op = "VKOrTest" -> emit_v_k_or_test(o, s)
    [] o.op = "VKFromGpr" -> emit_v_k_from_gpr(o, s)
    [] o.op = "VKToGpr" -> emit_v_k_to_gpr(o, s)
    [] o.op = "VKMovKK" -> emit_v_k_mov_k_k(o, s)
    [] o.op = "VKUnpack" -> emit_v_k_unpack(o, s)
    [] o.op = "VKBinOp" -> emit_v_k_bin_op(o, s)
    [] o.op = "VKNot" -> emit_v_k_not(o, s)
    [] o.op = "VKShift" -> emit_v_k_shift(o, s)
    [] OTHER -> op_narrow_shift(o, s)

op_extend_blend(o, s) ==
  CASE o.op = "VPopcnt" -> emit_v_popcnt(o, s)
    [] o.op = "VPMovExtend" -> emit_v_p_mov_extend(o, s)
    [] o.op = "VPMovExtendWide" -> emit_v_p_mov_extend_wide(o, s)
    [] o.op = "VPAbs" -> emit_v_p_abs(o, s)
    [] o.op = "VpUnaryLane" -> emit_v_p_unary_lane(o, s)
    [] o.op = "VpBlendm" -> emit_v_p_blendm(o, s)
    [] o.op = "VShuffLane" -> emit_v_shuf_lane(o, s)
    [] o.op = "VpMultishift" -> emit_v_p_multishift(o, s)
    [] o.op = "VPBlendV" -> emit_v_p_blend_v(o, s)
    [] o.op = "VPBlendVM" -> emit_v_p_blend_v(o, s)
    [] o.op = "VPBlendVX" -> emit_v_p_blend_v_x(o, s)
    [] o.op = "VBlendI" -> emit_v_blend_i(o, s)
    [] o.op = "VPRound" -> emit_v_p_round(o, s)
    [] o.op = "VPRoundM" -> emit_v_p_round_m(o, s)
    [] o.op = "VPTernlog" -> emit_v_p_ternlog(o, s)
    [] OTHER -> op_wide_broadcast(o, s)

op_permute_masked(o, s) ==
  CASE o.op = "VAlign" -> emit_v_align(o, s)
    [] o.op = "VPermT2" -> emit_v_perm_t2(o, s)
    [] o.op = "VPermT2M" -> emit_v_perm_t2_m(o, s)
    [] o.op = "VPerm1" -> emit_v_perm1(o, s)
    [] o.op = "VPerm1M" -> emit_v_perm1_m(o, s)
    [] o.op = "VMaskedLogic" -> emit_v_masked_logic(o, s)
    [] o.op = "VMaskedPacked" -> emit_v_masked_packed(o, s)
    [] o.op = "VMaskedShift" -> emit_v_masked_shift(o, s)
    [] o.op = "VShiftVar" -> emit_v_shift_var(o, s)
    [] o.op = "VShiftReg" -> emit_v_shift_reg(o, s)
    [] o.op = "VGf2p8" -> emit_v_gf2p8(o, s)
    [] o.op = "VGf2p8M" -> emit_v_gf2p8_m(o, s)
    [] o.op = "VLogic256" -> emit_v_logic256(o, s)
    [] o.op = "VLogicWide" -> emit_v_logic_wide(o, s)
    [] OTHER -> op_extend_blend(o, s)

op_moves(o, s) ==
  CASE o.op = "VLoad" -> emit_v_load(o, s)
    [] o.op = "VStore" -> emit_v_store(o, s)
    [] o.op = "VMov" -> emit_v_mov(o, s)
    [] o.op = "VMov256" -> emit_v_mov256(o, s)
    [] o.op = "VLoadWide" -> emit_v_load_wide(o, s)
    [] o.op = "VStoreWide" -> emit_v_store_wide(o, s)
    [] o.op = "VMovWide" -> emit_v_mov_wide(o, s)
    [] o.op = "VMaskMov" -> emit_v_mask_mov(o, s)
    [] o.op = "VMaskLoadMem" -> emit_v_mask_load_mem(o, s)
    [] o.op = "VMaskStoreMem" -> emit_v_mask_store_mem(o, s)
    [] o.op = "VVecMaskLoadMem" -> emit_v_vecmask_load_mem(o, s)
    [] o.op = "VVecMaskStoreMem" -> emit_v_vecmask_store_mem(o, s)
    [] o.op = "VInsertLaneWide" -> emit_v_insert_lane_wide(o, s)
    [] o.op = "VExtractLaneWide" -> emit_v_extract_lane_wide(o, s)
    [] o.op = "VExtractLaneWideM" -> emit_v_extract_lane_wide_m(o, s)
    [] o.op = "VPcmpStr" -> emit_v_pcmp_str(o, s)
    [] o.op = "VPcmpStrMask" -> emit_v_pcmp_str_mask(o, s)
    [] o.op = "VInsertPs" -> emit_v_insert_ps(o, s)
    [] o.op = "VInsertPs3" -> emit_v_insert_ps3(o, s)
    [] o.op = "VDpps" -> emit_v_dpps(o, s)
    [] o.op = "VDppsM" -> emit_v_dpps_m(o, s)
    [] o.op = "VDppd" -> emit_v_dppd(o, s)
    [] o.op = "VDp3" -> emit_v_dp3(o, s)
    [] OTHER -> op_permute_masked(o, s)

op_of(o, s) ==
  CASE o.op = "ReadReg" -> emit_read_reg(o, s)
    [] o.op = "WriteReg" -> emit_write_reg(o, s)
    [] o.op = "Load" -> emit_load(o, s)
    [] o.op = "Store" -> emit_store(o, s)
    [] OTHER -> op_moves(o, s)
=============================================================================
