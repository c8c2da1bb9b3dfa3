----------------------------- MODULE VecHelpers -----------------------------
(* The extern "C" functions of x86jit-cranelift/src/lib.rs that compiled    *)
(* vector code calls.  Each reaches the function of interp/mod.rs that the  *)
(* interpreter uses; the *_mem_ ones that load or store run it over         *)
(* RawStrMem and return RET_UNMAPPED with the address they failed at.       *)
(* The aes, sha, gfni, pclmul, pack, horizontal and multiply-add memory     *)
(* helpers are given an operand the emitter has checked and loaded.         *)
EXTENDS VecInterp

vmaskmov_helper(o, s) == write_masked(s, o.d, vec_lanes(s, o.a), o, o.w)
vmaskmov_mem_helper(o, s, is_store) ==
  IF is_store THEN masked_store_run(o, s, TRUE) ELSE masked_load_run(o, s, TRUE, o.z)
vec_maskmov_mem_helper(o, s, is_store) ==
  IF is_store THEN masked_store_run(o, s, TRUE) ELSE masked_load_run(o, s, TRUE, TRUE)

vmasked_logic_helper(o, s) == apply_masked_logic(o, s)
vmasked_packed_helper(o, s) == apply_masked_packed(o, s)
vmasked_shift_helper(o, s) == apply_masked_shift(o, s, Zero)
var_shift_helper(o, s) == exec_var_shift(o, s)
shift_reg_helper(o, s) == exec_shift_reg(o, s)
gf2p8_helper(o, s) == exec_gf2p8(o, s)
gf2p8_mem_helper(o, s) == gf2p8_mem_run(o, s, TRUE)

(* The string compares return their index and flags, or their mask, packed  *)
(* into one word that the emitter takes apart.                              *)
pcmpstr_helper(o, s) == K(o, PcmpArgs(o, s))
pcmpstr_mem_helper(o, s) == K(o, PcmpArgs(o, s))
pcmpstrm_helper(o, s) == SetLane(s, 0, 1, K(o, PcmpArgs(o, s)))
pcmpstrm_mem_helper(o, s) == SetLane(s, 0, 1, K(o, PcmpArgs(o, s)))

valign_helper(o, s) == exec_valign(o, s)
vpermt2_helper(o, s) == exec_vpermt2(o, s)
vpermt2_mem_helper(o, s) == permute2_run(o, s, TRUE)
vperm1_helper(o, s) == exec_vperm1(o, s)
vperm1_mem_helper(o, s) == vperm1_run(o, s, TRUE)
vpmov_narrow_helper(o, s) == exec_vpmov_narrow(o, s)
vpmov_narrow_mem_helper(o, s) == narrow_store_run(o, s, TRUE)
vpmov_extend_wide_helper(o, s) == exec_vpmov_extend_wide(o, s)
vpabs_helper(o, s) == exec_vpabs(o, s)
vp_unary_lane_helper(o, s) == exec_vp_unary_lane(o, s)
vp_blendm_helper(o, s) == exec_vp_blendm(o, s)
vshuf_lane_helper(o, s) == exec_vshuf_lane(o, s)
vp_multishift_helper(o, s) == exec_vp_multishift(o, s)
vpshufb_wide_helper(o, s) == exec_vpshufb_wide(o, s)
vshuffle32_wide_helper(o, s) == exec_vshuffle32_wide(o, s)

vpack_helper(o, s) == exec_vpack(o, s)
vpack_mem_helper(o, s) == pack_wide_mem_from(o, s)
vhfloat_helper(o, s) == hfloat_reg(o, s)
vhfloat_mem_helper(o, s) == hfloat_mem(o, s)
vhint_helper(o, s) == hint_reg(o, s)
vhint_mem_helper(o, s) == hint_mem(o, s)
cvtph2ps_helper(o, s) == VCvtPh2Ps(o, s)
cvtps2ph_helper(o, s) == VCvtPs2Ph(o, s)
phminposuw_helper(o, s) == VPhMinPosUw(o, s)
mpsadbw_helper(o, s) == VMpsadbw(o, s)
pmaddwd_helper(o, s) == exec_pmaddwd(o, s)
vpmadd_helper(o, s) == exec_v_pmadd(o, s)
(* One lane of the operand, already loaded.                                *)
vpmadd_mem_helper(o, s, i) == exec_v_pmadd_mem_lane(o, s, i)

broadcast_lane_helper(o, s) == exec_broadcast_lane(o, s)
broadcast_lane_mem_helper(o, s) == broadcast_lane_mem_run(o, s, TRUE)
fma_helper(o, s) == exec_fma(o, s)
fma_mem_helper(o, s) == fma_mem_run(o, s, TRUE)
aes_helper(o, s) == CryptoXmm(o, s, Xmm(s, o.b))
aes_mem_helper(o, s) == CryptoXmm(o, s, MemLane(s, 1))
sha_helper(o, s) == CryptoXmm(o, s, Xmm(s, o.b))
sha_mem_helper(o, s) == CryptoXmm(o, s, MemLane(s, 1))
gfni_helper(o, s) == CryptoXmm(o, s, Xmm(s, o.b))
gfni_mem_helper(o, s) == CryptoXmm(o, s, MemLane(s, 1))
pclmul_helper(o, s) == CryptoXmm(o, s, Xmm(s, o.b))
pclmul_mem_helper(o, s) == CryptoXmm(o, s, MemLane(s, 1))
=============================================================================
