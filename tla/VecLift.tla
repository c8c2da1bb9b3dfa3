------------------------------- MODULE VecLift ------------------------------
(* lift/vector.rs, one definition per lifter: the IrOps an instruction is  *)
(* translated to, in order.  i is the decoded instruction: its encoding    *)
(* i.e, operand width i.w, destination i.d, sources i.a, i.b and i.c (Mem  *)
(* is a memory operand), i.dm when the destination is memory, mask i.k and *)
(* i.z, and i.v for what the lifter is told besides (scalar, precision,    *)
(* explicit lengths, operand order...).  The empty sequence is             *)
(* LiftError::UnsupportedInsn.                                             *)
EXTENDS VecRegs

(* A decoded instruction.                                                  *)
Instructions ==
  [l : STRING, e : {"sse", "vex", "evex"}, w : {16, 32, 64}, d : Regs, a : Regs,
   b : Regs \cup {Mem}, c : Regs, dm : BOOLEAN, k : 0 .. 4, z : BOOLEAN, v : Nat,
   act : SUBSET (0 .. 7)]

Unsupported == <<>>
P(i, name) ==
  [op |-> name, f |-> name, d |-> i.d, a |-> i.a, b |-> i.b, c |-> i.c, w |-> i.w, n |-> 16,
   k |-> i.k, z |-> i.z, i |-> FALSE, sc |-> FALSE, imm |-> 0, imp |-> FALSE, act |-> i.act]
(* The legacy encodings name the destination as the first source.          *)
Legacy(i, name) == [P(i, name) EXCEPT !.a = i.d]
Unary(i, name) == [P(i, name) EXCEPT !.a = i.b]
Sized(o, n) == [o EXCEPT !.n = n]
VMov(i) == P(i, "VMov")
VZeroUpper(i) == P(i, "VZeroUpper")
evex_is_masked(i) == i.k # 0
IsMem(i) == i.b = Mem

(* "if d != a { VMov d, a }": a copy of the first source into the          *)
(* destination before the memory form, which combines with it.             *)
PreCopy(i) == IF i.d # i.a THEN <<VMov(i)>> ELSE <<>>
VexUpper(i) == IF i.w = 16 THEN <<VZeroUpper(i)>> ELSE <<>>
(* Memory source loaded into the destination register first.               *)
LoadInto(i, n) == IF i.w > 16 THEN P(i, "VLoadWide") ELSE Sized(P(i, "VLoad"), n)

(* lower_read, lower_write_target and emit_write of a general operand.     *)
lower_read(i) == IF IsMem(i) THEN <<Sized(P(i, "Load"), 8)>> ELSE <<P(i, "ReadReg")>>
emit_write(i) == IF i.dm THEN <<Sized(P(i, "Store"), 8)>> ELSE <<P(i, "WriteReg")>>

(* --------------------------- Moves and broadcasts ----------------------- *)

(* i.v: 1 is a general source register, 2 a general destination.           *)
lift_vmov(i, size) ==
  IF i.v = 2 THEN <<Sized(P(i, "VToGpr"), size), P(i, "WriteReg")>>
  ELSE IF i.dm THEN <<Sized(P(i, "VStore"), size)>>
  ELSE IF IsMem(i) THEN <<Sized(P(i, "VLoad"), size)>>
  ELSE IF i.v = 1 THEN <<P(i, "ReadReg"), P(i, "VFromGpr")>>
  ELSE IF size = 16 THEN <<Unary(i, "VMov")>>
  ELSE <<Unary(i, "VToGpr"), P(i, "VFromGpr")>>
lift_vmov_vex(i, size) ==
  lift_vmov(i, size) \o IF i.dm \/ i.v = 2 THEN <<>> ELSE <<VZeroUpper(i)>>

lift_broadcast(i) ==
  IF i.v = 1 THEN IF evex_is_masked(i) THEN Unsupported ELSE <<P(i, "ReadReg"), P(i, "VBroadcastGpr")>>
  ELSE IF evex_is_masked(i) THEN Unsupported
  ELSE IF i.w = 64 /\ IsMem(i) THEN <<Sized(P(i, "Load"), 8), P(i, "VBroadcastGpr")>>
  ELSE IF i.w = 64 THEN <<Unary(i, "VToGpr"), P(i, "VBroadcastGpr")>>
  ELSE IF IsMem(i) THEN <<P(i, "VBroadcastM")>> ELSE <<Unary(i, "VBroadcast")>>
lift_broadcast_lane(i) ==
  <<Sized(P(i, IF IsMem(i) THEN "VBroadcastLaneM" ELSE "VBroadcastLane"), 16 * (i.v + 1))>>

lift_vmov_avx(i) ==
  IF evex_is_masked(i) THEN
     IF i.dm THEN <<P(i, "VMaskStoreMem")>>
     ELSE IF IsMem(i) THEN <<P(i, "VMaskLoadMem")>> ELSE <<Unary(i, "VMaskMov")>>
  ELSE IF i.w = 16 THEN lift_vmov_vex(i, 16)
  ELSE IF i.dm THEN <<P(i, "VStoreWide")>>
  ELSE IF IsMem(i) THEN <<P(i, "VLoadWide")>> ELSE <<Unary(i, "VMovWide")>>

lift_vmaskmov(i) == <<P(i, IF i.dm THEN "VVecMaskStoreMem" ELSE "VVecMaskLoadMem")>>

lift_vextract_wide(i, lanes) ==
  LET o == [Sized(P(i, IF i.dm THEN "VExtractLaneWideM" ELSE "VExtractLaneWide"), lanes)
              EXCEPT !.imm = i.v % ((i.w \div 16) \div lanes)]
  IN IF evex_is_masked(i) THEN Unsupported ELSE <<o>>
lift_vinsert_wide(i, lanes) ==
  LET o == [Sized(P(i, "VInsertLaneWide"), lanes) EXCEPT !.imm = i.v % ((i.w \div 16) \div lanes)]
  IN IF evex_is_masked(i) \/ IsMem(i) THEN Unsupported ELSE <<o>>
lift_valign(i) == IF evex_is_masked(i) \/ IsMem(i) THEN Unsupported ELSE <<P(i, "VAlign")>>

(* -------------------------------- Shifts -------------------------------- *)

(* i.v: 0 shifts register or memory by an immediate, 1 by a register.      *)
lift_vpacked_shift_avx(i) ==
  LET masked == evex_is_masked(i)
      a == IF IsMem(i) THEN i.d ELSE i.b
      load == IF IsMem(i) THEN <<P(i, "VLoadWide")>> ELSE <<>>
  IN IF i.v = 1 THEN IF IsMem(i) THEN Unsupported ELSE <<P(i, "VShiftReg")>> \o VexUpper(i)
     ELSE IF IsMem(i) /\ masked THEN Unsupported
     ELSE load \o
          IF i.w = 64 \/ masked THEN <<[P(i, "VMaskedShift") EXCEPT !.a = a]>>
          ELSE IF i.w = 32 THEN <<[P(i, "VPackedShift256") EXCEPT !.a = a]>>
          ELSE <<[P(i, "VPackedShift") EXCEPT !.a = a], VZeroUpper(i)>>
lift_vshift_var(i) == IF IsMem(i) THEN Unsupported ELSE <<P(i, "VShiftVar")>>
lift_vpacked_shift(i) ==
  IF IsMem(i) THEN Unsupported
  ELSE IF i.v = 1 THEN <<Legacy(i, "VShiftReg")>> ELSE <<Legacy(i, "VPackedShift")>>
lift_byteshift(i) == <<Legacy(i, "VByteShift")>>
lift_byteshift_avx(i) == IF IsMem(i) THEN Unsupported ELSE <<Unary(i, "VByteShift")>> \o VexUpper(i)

(* --------------------- Logic and packed integers ------------------------ *)

lift_vlogic(i) == <<Legacy(i, IF IsMem(i) THEN "VLogicM" ELSE "VLogic")>>
(* Mutant: no VZeroUpper after the 128-bit form.                           *)
LogicKeepsUpper(i) ==
  IF IsMem(i) THEN PreCopy(i) \o <<P(i, "VLogicM")>> ELSE <<P(i, "VLogic")>>
lift_vlogic_vex(i) ==
  (IF IsMem(i) THEN PreCopy(i) \o <<P(i, "VLogicM")>> ELSE <<P(i, "VLogic")>>) \o <<VZeroUpper(i)>>
lift_vlogic_avx(i) ==
  IF i.w = 16 THEN lift_vlogic_vex(i)
  ELSE <<P(i, IF IsMem(i) THEN "VLogic256M" ELSE "VLogic256")>>
lift_evex_vlogic(i) ==
  IF evex_is_masked(i) THEN IF IsMem(i) THEN Unsupported ELSE <<P(i, "VMaskedLogic")>>
  ELSE <<P(i, "VLogicWide")>>

lift_vpacked_bin(i) == <<Legacy(i, "VPackedBin")>>
lift_vpacked_bin_vex(i) ==
  (IF IsMem(i) THEN PreCopy(i) \o <<P(i, "VPackedBin")>> ELSE <<P(i, "VPackedBin")>>)
    \o <<VZeroUpper(i)>>
lift_vpacked_bin_avx(i) ==
  IF evex_is_masked(i) THEN IF IsMem(i) THEN Unsupported ELSE <<P(i, "VMaskedPacked")>>
  ELSE IF i.w = 64 THEN <<P(i, "VPackedWide")>>
  ELSE IF i.w = 32 THEN <<P(i, "VPackedBin256")>>
  ELSE lift_vpacked_bin_vex(i)
lift_evex_packed_bin_128(i) ==
  IF evex_is_masked(i) \/ i.w # 16 THEN Unsupported ELSE lift_vpacked_bin_vex(i)

(* ----------------- Blends, rounding, strings, dot products -------------- *)

lift_blendv(i) == <<P(i, IF IsMem(i) THEN "VPBlendVM" ELSE "VPBlendV")>>
lift_vblendv(i) == <<P(i, "VPBlendVX")>>
lift_blendi(i) == <<Legacy(i, "VBlendI")>>
lift_vblendi(i) == <<P(i, "VBlendI")>> \o VexUpper(i)
Rounded(i, a, scalar) ==
  [P(i, IF IsMem(i) THEN "VPRoundM" ELSE "VPRound") EXCEPT !.a = a, !.sc = scalar]
lift_round(i) == <<Rounded(i, i.d, i.v = 1)>>
lift_vround(i) == <<Rounded(i, i.d, FALSE)>> \o VexUpper(i)
lift_vround_scalar(i) ==
  (IF IsMem(i) THEN PreCopy(i) ELSE <<>>) \o <<Rounded(i, i.a, TRUE), VZeroUpper(i)>>
(* A scale factor in the immediate (i.v = 1) is not lifted.                *)
lift_vrndscale(i) ==
  IF evex_is_masked(i) \/ i.v = 1 THEN Unsupported
  ELSE (IF IsMem(i) THEN PreCopy(i) ELSE <<>>) \o <<Rounded(i, i.a, TRUE), VZeroUpper(i)>>
lift_pcmpstr_idx(i) == <<[Legacy(i, "VPcmpStr") EXCEPT !.imp = i.v = 1]>>
lift_pcmpstr_mask(i) == <<[Legacy(i, "VPcmpStrMask") EXCEPT !.imp = i.v = 1]>>
lift_insertps(i) == <<P(i, "VInsertPs")>>
lift_vinsertps(i) == <<P(i, "VInsertPs3"), VZeroUpper(i)>>
DotM(i) == [P(i, "VDppsM") EXCEPT !.f = "VDpps"]
lift_dpps(i) == IF IsMem(i) THEN <<DotM(i)>> ELSE <<Legacy(i, "VDpps")>>
lift_dppd(i) == <<P(i, "VDppd")>>
lift_vdp(i) == <<P(i, "VDp3"), VZeroUpper(i)>>
(* The 256-bit pre-copy is VMov256, whose arms write xmm and ymm_hi.        *)
lift_vdpps(i) ==
  (IF ~IsMem(i) THEN <<P(i, "VDpps")>>
   ELSE IF i.d = i.a THEN <<DotM(i)>>
   ELSE <<P(i, IF i.w = 32 THEN "VMov256" ELSE "VMov"), DotM(i)>>) \o VexUpper(i)

(* -------------- Extension, lane-wise unary, permutes, narrowing ---------- *)

(* i.v is the number of source bytes of the 128-bit form.                  *)
lift_pmovx(i) == <<Sized(P(i, "VPMovExtend"), i.v)>>
lift_vpmovx(i) ==
  IF i.w > 16 \/ evex_is_masked(i)
  THEN IF IsMem(i) THEN Unsupported ELSE <<Unary(i, "VPMovExtendWide")>>
  ELSE lift_pmovx(i) \o <<VZeroUpper(i)>>
lift_vpabs(i) == IF IsMem(i) THEN Unsupported ELSE <<Unary(i, "VPAbs")>>
lift_vp_unary_lane(i) == IF IsMem(i) THEN Unsupported ELSE <<Unary(i, "VpUnaryLane")>>
lift_vp_blendm(i) ==
  IF ~IsMem(i) THEN <<P(i, "VpBlendm")>>
  ELSE IF i.d = i.a THEN Unsupported
  ELSE <<P(i, "VLoadWide"), [P(i, "VpBlendm") EXCEPT !.b = i.d]>>
lift_vshuf_lane(i) ==
  IF IsMem(i) THEN Unsupported ELSE <<[P(i, "VShuffLane") EXCEPT !.imm = i.v]>>
lift_vp_multishift(i) == IF IsMem(i) THEN Unsupported ELSE <<P(i, "VpMultishift")>>
lift_vpopcnt(i) == IF evex_is_masked(i) THEN Unsupported ELSE <<P(i, "VPopcnt")>>
lift_vperm2(i, imode) ==
  <<[P(i, IF IsMem(i) THEN "VPermT2M" ELSE "VPermT2") EXCEPT !.i = imode]>>
lift_vpermt2(i) == lift_vperm2(i, FALSE)
lift_vpermi2(i) == lift_vperm2(i, TRUE)
lift_vpmov_narrow(i) ==
  IF i.dm THEN IF evex_is_masked(i) THEN Unsupported ELSE <<P(i, "VPmovNarrowMem")>>
  ELSE <<P(i, "VPmovNarrow")>>
lift_vperm1(i) == <<P(i, IF IsMem(i) THEN "VPerm1M" ELSE "VPerm1")>>
lift_vpternlog(i) == IF evex_is_masked(i) THEN Unsupported ELSE <<P(i, "VPTernlog")>>

(* -------------------------------- Opmasks -------------------------------- *)

lift_kunpck(i) == <<P(i, "VKUnpack")>>
lift_kbinop(i) == <<P(i, "VKBinOp")>>
lift_knot(i) == <<P(i, "VKNot")>>
lift_kshift(i) == <<P(i, "VKShift")>>
(* i.v: 0 mask to mask, 1 from a general operand, 2 to one.                *)
lift_kmov(i) ==
  IF i.v = 0 THEN <<P(i, "VKMovKK")>>
  ELSE IF i.v = 1 THEN lower_read(i) \o <<P(i, "VKFromGpr")>>
  ELSE <<P(i, "VKToGpr")>> \o emit_write(i)
lift_kortest(i) == <<P(i, "VKOrTest")>>
lift_vptest(i) == <<P(i, "VPTestToMask")>>
lift_vpcmp(i) == <<P(i, "VPCmpToMask")>>
(* i.v = 1: the destination is a vector register.                          *)
lift_vpcmp_fixed_or_packed(i) ==
  IF i.v = 1 THEN lift_vpacked_bin_avx(i) ELSE <<P(i, "VPCmpToMask")>>

(* ------------------------ Shuffles, packs, unpacks ----------------------- *)

lift_pshufd(i) ==
  IF IsMem(i) THEN <<P(i, "VLoad"), [P(i, "VShuffle32") EXCEPT !.a = i.d, !.w = 16]>>
  ELSE <<[Unary(i, "VShuffle32") EXCEPT !.w = 16]>>
lift_vpshufd(i) ==
  IF i.w > 16 \/ evex_is_masked(i)
  THEN IF IsMem(i) THEN Unsupported ELSE <<Unary(i, "VShuffle32Wide")>>
  ELSE lift_pshufd(i) \o <<VZeroUpper(i)>>
lift_vpack(i) ==
  IF IsMem(i) THEN IF i.w = 16 THEN <<P(i, "VPackWideM"), VZeroUpper(i)>> ELSE Unsupported
  ELSE <<P(i, "VPackWide")>> \o VexUpper(i)
lift_vpblendw(i) ==
  IF ~IsMem(i) THEN <<P(i, "VBlendW")>> \o VexUpper(i)
  ELSE IF i.d = i.a THEN Unsupported
  ELSE <<LoadInto(i, 16), [P(i, "VBlendW") EXCEPT !.b = i.d]>> \o VexUpper(i)
lift_vpblendd(i) == IF IsMem(i) THEN Unsupported ELSE <<P(i, "VBlendD")>>
(* i.v = 1 is movddup, which loads eight bytes.                            *)
lift_movdup(i) ==
  IF IsMem(i) THEN <<LoadInto(i, IF i.v = 1 THEN 8 ELSE 16), Legacy(i, "VShuffle32")>>
  ELSE <<Unary(i, "VShuffle32")>>
lift_vmovdup(i) == lift_movdup(i) \o VexUpper(i)
lift_shufps(i) == <<Legacy(i, "VShufps")>>
lift_vshufps(i) == IF i.w = 32 THEN <<P(i, "VShufps256")>> ELSE <<P(i, "VShufps"), VZeroUpper(i)>>
(* i.v = 1 is vpermilpd, whose halves have selectors of their own.         *)
lift_vpermil_imm(i) ==
  LET a == IF IsMem(i) THEN i.d ELSE i.b
  IN (IF IsMem(i) THEN <<LoadInto(i, 16)>> ELSE <<>>) \o
     IF i.v = 1 /\ i.w > 16 THEN <<[P(i, "VShufps256") EXCEPT !.a = a, !.b = a]>>
     ELSE <<[P(i, "VShuffle32") EXCEPT !.a = a]>> \o VexUpper(i)
lift_vpermil_var(i) == IF IsMem(i) THEN Unsupported ELSE <<P(i, "VPermilVar")>>
lift_pshufw(i) ==
  IF IsMem(i) THEN Unsupported
  ELSE <<Unary(i, "VShuffle16")>> \o IF i.e # "sse" THEN VexUpper(i) ELSE <<>>
lift_vunpack(i) == <<Legacy(i, "VUnpackLow")>>
lift_vunpack_avx(i) ==
  IF i.w = 32 THEN <<P(i, "VUnpack256")>> ELSE <<P(i, "VUnpackLow"), VZeroUpper(i)>>

(* --------------------- Cryptography, packs, multiply-add ----------------- *)

lift_aes(i) == <<Legacy(i, "VAes")>>
lift_vaes(i) == <<P(i, "VAes"), VZeroUpper(i)>>
IfVex(i) == IF i.e = "sse" THEN <<>> ELSE <<VZeroUpper(i)>>
lift_aes_imc(i) == <<P(i, "VAesImc")>> \o IfVex(i)
lift_aes_keygen(i) == <<P(i, "VAesKeygen")>> \o IfVex(i)
lift_pclmul(i) == <<Legacy(i, "VPclmul")>>
lift_vpclmul(i) == <<P(i, "VPclmul"), VZeroUpper(i)>>
lift_sha(i) == <<[Legacy(i, "VSha") EXCEPT !.imp = TRUE]>>
lift_gfni(i) == <<Legacy(i, "VGfni")>>
lift_vgfni_wide(i) == <<P(i, IF IsMem(i) THEN "VGf2p8M" ELSE "VGf2p8")>>
lift_vgfni(i) ==
  IF i.w > 16 \/ evex_is_masked(i) THEN lift_vgfni_wide(i)
  ELSE <<P(i, "VGfni"), VZeroUpper(i)>>
lift_psign(i) == <<Legacy(i, IF IsMem(i) THEN "VPsignM" ELSE "VPsign")>>
lift_vpsign(i) == <<P(i, IF IsMem(i) THEN "VPsignM" ELSE "VPsign")>> \o VexUpper(i)
lift_packuswb(i) == IF IsMem(i) THEN Unsupported ELSE <<Legacy(i, "VPackUsWB")>>
lift_pack_signed(i) == <<Legacy(i, IF IsMem(i) THEN "VPackWideM" ELSE "VPackWide")>>
lift_pmaddwd(i) == IF IsMem(i) THEN Unsupported ELSE <<Legacy(i, "VPMAddWd")>>
lift_pmaddubsw(i) == IF IsMem(i) THEN Unsupported ELSE <<Legacy(i, "VPMadd")>>
lift_vpmadd(i) ==
  IF i.w > 32 \/ evex_is_masked(i) THEN Unsupported
  ELSE <<P(i, IF IsMem(i) THEN "VPMaddM" ELSE "VPMadd")>> \o VexUpper(i)

(* ------------------- Elements to and from general operands --------------- *)

lift_pinsrw(i) == lower_read(i) \o <<P(i, "VInsertW")>>
lift_pinsr(i) ==
  lower_read(i) \o (IF i.e = "sse" THEN <<Legacy(i, "VInsertLane")>>
                    ELSE <<P(i, "VInsertLane"), VZeroUpper(i)>>)
lift_pextrw(i) == <<P(i, "VExtractW")>> \o emit_write(i)
lift_pextr(i) == <<P(i, "VExtractLane")>> \o emit_write(i)
lift_move_half(i) == IF IsMem(i) THEN Unsupported ELSE <<Unary(i, "VMoveHalf")>>
lift_vmov_packed_half(i) ==
  IF IsMem(i) THEN Unsupported
  ELSE <<IF i.v = 1 THEN [P(i, "VUnpackLow") EXCEPT !.a = i.b, !.b = i.a] ELSE P(i, "VUnpackLow"),
         VZeroUpper(i)>>
lift_half_mem(i) ==
  IF i.dm THEN <<P(i, "VStoreHalf")>>
  ELSE IF IsMem(i) THEN <<P(i, "VLoadHalf")>> ELSE Unsupported
lift_vhalf_mem(i) ==
  IF i.dm THEN lift_half_mem(i)
  ELSE IF ~IsMem(i) THEN Unsupported
  ELSE PreCopy(i) \o <<P(i, "VLoadHalf"), VZeroUpper(i)>>

(* ------------------------------ Floating point --------------------------- *)

read_scalar_float(i) == <<IF IsMem(i) THEN Sized(P(i, "Load"), 8) ELSE Unary(i, "VToGpr")>>
(* i.v = 1: scalar, whose memory operand is one element.                   *)
Float(i, name) == Sized(P(i, name), IF i.v = 1 THEN 8 ELSE 16)
FloatLegacy(i, name) == [Float(i, name) EXCEPT !.a = i.d]

lift_scalar_fmove(i) ==
  IF i.dm THEN <<Sized(P(i, "VStore"), 8)>>
  ELSE IF IsMem(i) THEN <<Sized(P(i, "VLoad"), 8)>> ELSE <<Legacy(i, "VFloatMov")>>
lift_vscalar_fmove(i) ==
  IF evex_is_masked(i) THEN Unsupported
  ELSE IF i.dm THEN <<Sized(P(i, "VStore"), 8)>>
  ELSE <<IF IsMem(i) THEN Sized(P(i, "VLoad"), 8) ELSE P(i, "VFloatMov"), VZeroUpper(i)>>
lift_float_bin(i) == <<FloatLegacy(i, "VFloatBin")>>
lift_vfloat_bin(i) ==
  IF i.v = 0 /\ i.w = 32 THEN <<P(i, "VFloatBin256")>>
  ELSE (IF IsMem(i) THEN PreCopy(i) ELSE <<>>) \o <<Float(i, "VFloatBin"), VZeroUpper(i)>>
lift_hfloat(i) == <<Legacy(i, "VHFloat")>>
lift_vhfloat(i) == <<P(i, "VHFloat")>> \o VexUpper(i)
lift_hint(i) == <<Legacy(i, "VHInt")>>
lift_vhint(i) == <<P(i, "VHInt")>> \o VexUpper(i)
lift_float_cmp(i) == read_scalar_float(i) \o <<Legacy(i, "VFloatCmp")>>
lift_float_cmp_mask(i) == <<FloatLegacy(i, "VFloatCmpMask")>>
lift_vfloat_cmp_mask(i) ==
  IF i.v = 0 /\ i.w = 32 THEN <<P(i, "VFloatCmpMask256")>>
  ELSE (IF IsMem(i) THEN PreCopy(i) ELSE <<>>) \o <<Float(i, "VFloatCmpMask"), VZeroUpper(i)>>
lift_cvt_from_int(i) == lower_read(i) \o <<P(i, "VCvtFromInt")>>
lift_vcvt_from_int(i) ==
  lower_read(i) \o PreCopy(i) \o <<P(i, "VCvtFromInt"), VZeroUpper(i)>>
lift_cvt_to_int_signed(i) == read_scalar_float(i) \o <<P(i, "VCvtToInt")>> \o emit_write(i)
lift_cvt_to_int(i) == lift_cvt_to_int_signed(i)
lift_float_unary(i) == IF IsMem(i) THEN Unsupported ELSE <<FloatLegacy(i, "VFloatUnary")>>

(* The operand orders 132, 213 and 231 (i.v % 3); i.v > 2 is scalar.       *)
lift_fma(i) ==
  LET o == P(i, IF IsMem(i) THEN "VFmaM" ELSE "VFma")
      xyz == CASE i.v % 3 = 0 -> <<i.d, i.b, i.a>>
               [] i.v % 3 = 1 -> <<i.a, i.d, i.b>>
               [] OTHER -> <<i.a, i.b, i.d>>
  IN IF i.v > 2 /\ evex_is_masked(i) THEN Unsupported
     ELSE <<[o EXCEPT !.a = xyz[1], !.b = xyz[2], !.c = xyz[3], !.sc = i.v > 2]>>
lift_vfloat_unary_scalar(i) == <<Sized(P(i, "VFloatUnary"), 8), VZeroUpper(i)>>
lift_vfloat_unary_packed(i) ==
  IF i.w = 32 THEN <<P(i, "VFloatUnary256")>>
  ELSE <<FloatLegacy(i, "VFloatUnary"), VZeroUpper(i)>>
lift_cvt_float(i) == read_scalar_float(i) \o <<P(i, "VCvtFloat")>>
(* The source is read before the destination is overwritten by op1.        *)
lift_vcvt_scalar(i) ==
  read_scalar_float(i) \o PreCopy(i) \o <<P(i, "VCvtFloat"), VZeroUpper(i)>>

(* i.v: 0 keeps the element width, 1 widens, 2 narrows.                    *)
lift_packed_cvt256(i) ==
  LET load == IF i.v = 1 THEN P(i, "VLoad") ELSE [P(i, "VLoadWide") EXCEPT !.w = 32]
      o == [P(i, "VPackedCvtWide256") EXCEPT !.i = i.v = 1]
  IN IF IsMem(i) THEN <<load, [o EXCEPT !.a = i.d]>> ELSE <<[o EXCEPT !.a = i.b]>>
lift_packed_cvt(i) ==
  IF i.w = 32 THEN IF i.v = 0 THEN <<P(i, "VPackedCvt256")>> ELSE lift_packed_cvt256(i)
  ELSE (IF IsMem(i) THEN <<Sized(P(i, "VLoad"), IF i.v = 1 THEN 8 ELSE 16), Legacy(i, "VPackedCvt")>>
        ELSE <<Unary(i, "VPackedCvt")>>) \o IfVex(i)
lift_vcvtph2ps(i) ==
  (IF IsMem(i) THEN <<Sized(P(i, "VLoad"), i.w \div 2), Legacy(i, "VCvtPh2Ps")>>
   ELSE <<Unary(i, "VCvtPh2Ps")>>) \o VexUpper(i)
lift_vcvtps2ph(i) == IF IsMem(i) THEN Unsupported ELSE <<Unary(i, "VCvtPs2Ph"), VZeroUpper(i)>>
lift_phminposuw(i) ==
  (IF IsMem(i) THEN <<P(i, "VLoad"), Legacy(i, "VPhMinPosUw")>>
   ELSE <<Unary(i, "VPhMinPosUw")>>) \o IfVex(i)
lift_mpsadbw(i) ==
  IF i.e = "sse" THEN IF IsMem(i) THEN Unsupported ELSE <<Legacy(i, "VMpsadbw")>>
  ELSE IF ~IsMem(i) THEN <<P(i, "VMpsadbw")>> \o VexUpper(i)
  ELSE IF i.d = i.a THEN Unsupported
  ELSE <<LoadInto(i, 16), [P(i, "VMpsadbw") EXCEPT !.b = i.d]>> \o VexUpper(i)

(* --------------- Instructions lift_insn translates itself ---------------- *)

Pshufb(i) == <<Legacy(i, "VPshufb")>>
Palignr(i) == <<Legacy(i, "VAlignr")>>
Pblendw(i) == IF IsMem(i) THEN Unsupported ELSE <<[Legacy(i, "VBlendW") EXCEPT !.w = 16]>>
Pmovmskb(i) == <<P(i, "VMoveMaskB"), P(i, "WriteReg")>>
Movmskps(i) == <<P(i, "VMoveMaskFp"), P(i, "WriteReg")>>
Vpmovmskb(i) == <<P(i, IF i.w = 32 THEN "VMoveMaskB256" ELSE "VMoveMaskB"), P(i, "WriteReg")>>
Vpshufb(i) ==
  IF i.w = 64 \/ evex_is_masked(i)
  THEN IF IsMem(i) THEN Unsupported ELSE <<P(i, "VPshufbWide")>>
  ELSE IF i.w = 32 THEN <<P(i, "VPshufb256")>>
  ELSE (IF IsMem(i) THEN PreCopy(i) ELSE <<>>) \o <<P(i, "VPshufb"), VZeroUpper(i)>>
Vzeroupper(i) == <<[P(i, "VZeroUpperAll") EXCEPT !.z = i.v = 1]>>
Vinserti128(i) == <<[P(i, "VInsert128") EXCEPT !.imm = i.v]>>
Vextracti128(i) ==
  IF i.dm THEN lift_vextract_wide(i, 1) ELSE <<[P(i, "VExtract128") EXCEPT !.imm = i.v]>>
Vpermq(i) ==
  IF IsMem(i) THEN <<P(i, "VLoadWide"), Legacy(i, "VPermq")>> ELSE <<Unary(i, "VPermq")>>
Vpermd(i) ==
  IF i.w = 64 \/ evex_is_masked(i) THEN lift_vperm1(i)
  ELSE IF IsMem(i) THEN Unsupported ELSE <<P(i, "VPermd")>>
Vperm2i128(i) == IF IsMem(i) THEN Unsupported ELSE <<P(i, "VPerm2i128")>>
Ptest(i) == IF IsMem(i) THEN Unsupported ELSE <<P(i, "VPtest")>>
Vtestps(i) == IF IsMem(i) THEN Unsupported ELSE <<P(i, "VTestFp")>>
Vpalignr(i) ==
  IF IsMem(i) THEN Unsupported
  ELSE IF i.w = 32 THEN <<P(i, "VPalignr256")>> ELSE <<P(i, "VAlignr"), VZeroUpper(i)>>

(* ------------------------------- lift_insn ------------------------------- *)

(* The lifter of a mnemonic, one mnemonic per family (paddb stands for the *)
(* packed binary operations, addss for the scalar ones...), in groups of   *)
(* arms in the order of the code.                                          *)
V(i, v) == [i EXCEPT !.v = v]

lift_sse_moves(i) ==
  CASE i.l = "Movdqa" -> lift_vmov(i, 16)
    [] i.l = "Movq" -> lift_vmov(i, 8)
    [] i.l = "Movhlps" -> lift_move_half(i)
    [] i.l = "Vmovlhps" -> lift_vmov_packed_half(V(i, 0))
    [] i.l = "Vmovhlps" -> lift_vmov_packed_half(V(i, 1))
    [] i.l = "Movhps" -> lift_half_mem(i)
    [] i.l = "Vmovhps" -> lift_vhalf_mem(i)
    [] i.l = "Pxor" -> lift_vlogic(i)
    [] i.l = "Paddb" -> lift_vpacked_bin(i)
    [] i.l = "Psllw" -> lift_vpacked_shift(i)
    [] i.l = "Psrldq" -> lift_byteshift(i)
    [] i.l = "Vpsrldq" -> lift_byteshift_avx(i)
    [] i.l = "Pshufd" -> lift_pshufd(i)
    [] i.l = "Vpshufd" -> lift_vpshufd(i)
    [] i.l = "Movsldup" -> lift_movdup(V(i, 0))
    [] i.l = "Movddup" -> lift_movdup(V(i, 1))
    [] i.l = "Vmovsldup" -> lift_vmovdup(V(i, 0))
    [] i.l = "Vmovddup" -> lift_vmovdup(V(i, 1))
    [] i.l \in {"Pshuflw", "Vpshuflw"} -> lift_pshufw(i)
    [] i.l = "Shufps" -> lift_shufps(i)
    [] i.l = "Vshufps" -> lift_vshufps(i)
    [] i.l = "VpermilpsImm" -> lift_vpermil_imm(V(i, 0))
    [] i.l = "VpermilpdImm" -> lift_vpermil_imm(V(i, 1))
    [] i.l = "Vpermilps" -> lift_vpermil_var(i)
    [] i.l = "Pshufb" -> Pshufb(i)
    [] i.l = "Palignr" -> Palignr(i)
    [] OTHER -> Unsupported

lift_crypto_pack(i) ==
  CASE i.l = "Aesenc" -> lift_aes(i)
    [] i.l = "Vaesenc" -> lift_vaes(i)
    [] i.l \in {"Aesimc", "Vaesimc"} -> lift_aes_imc(i)
    [] i.l \in {"Aeskeygenassist", "Vaeskeygenassist"} -> lift_aes_keygen(i)
    [] i.l = "Pclmulqdq" -> lift_pclmul(i)
    [] i.l = "Vpclmulqdq" -> lift_vpclmul(i)
    [] i.l = "Sha256rnds2" -> lift_sha(i)
    [] i.l = "Gf2p8mulb" -> lift_gfni(i)
    [] i.l = "Vgf2p8mulb" -> lift_vgfni(i)
    [] i.l = "Psignb" -> lift_psign(i)
    [] i.l = "Vpsignb" -> lift_vpsign(i)
    [] i.l = "Punpcklbw" -> lift_vunpack(i)
    [] i.l = "Vpunpcklbw" -> lift_vunpack_avx(i)
    [] i.l = "Packuswb" -> lift_packuswb(i)
    [] i.l = "Packsswb" -> lift_pack_signed(i)
    [] i.l = "Pmaddwd" -> lift_pmaddwd(i)
    [] i.l = "Vpacksswb" -> lift_vpack(i)
    [] i.l = "Pinsrw" -> lift_pinsrw(i)
    [] i.l = "Pextrw" -> lift_pextrw(i)
    [] i.l = "Pextrb" -> lift_pextr(i)
    [] i.l \in {"Pinsrb", "Vpinsrb"} -> lift_pinsr(i)
    [] i.l = "Pmovmskb" -> Pmovmskb(i)
    [] i.l = "Movmskps" -> Movmskps(i)
    [] OTHER -> lift_sse_moves(i)

lift_avx_moves(i) ==
  CASE i.l \in {"Vmovdqa", "Vmovdqu8"} -> lift_vmov_avx(i)
    [] i.l = "Vmovq" -> lift_vmov_vex(i, 8)
    [] i.l = "Vpxor" -> lift_vlogic_avx(i)
    [] i.l = "Vpxord" -> lift_evex_vlogic(i)
    [] i.l = "Vpternlogd" -> lift_vpternlog(i)
    [] i.l = "Vpopcntd" -> lift_vpopcnt(i)
    [] i.l = "Kunpckbw" -> lift_kunpck(i)
    [] i.l = "Korb" -> lift_kbinop(i)
    [] i.l = "Knotb" -> lift_knot(i)
    [] i.l = "Kshiftlb" -> lift_kshift(i)
    [] i.l = "Vpermt2b" -> lift_vpermt2(i)
    [] i.l = "Vpermi2b" -> lift_vpermi2(i)
    [] i.l = "Pmovzxbw" -> lift_pmovx(V(i, 8))
    [] i.l = "Pmovzxbd" -> lift_pmovx(V(i, 4))
    [] i.l = "Pmovzxbq" -> lift_pmovx(V(i, 2))
    [] i.l = "Vpmovzxbw" -> lift_vpmovx(V(i, 8))
    [] i.l = "Vpmovqd" -> lift_vpmov_narrow(i)
    [] i.l = "Blendvps" -> lift_blendv(i)
    [] i.l = "Vblendvps" -> lift_vblendv(i)
    [] i.l = "Vmaskmovps" -> lift_vmaskmov(i)
    [] OTHER -> lift_crypto_pack(i)

lift_blend_round(i) ==
  CASE i.l = "Blendps" -> lift_blendi(i)
    [] i.l = "Vblendps" -> lift_vblendi(i)
    [] i.l = "Pblendw" -> Pblendw(i)
    [] i.l = "Vpblendw" -> lift_vpblendw(i)
    [] i.l = "Vpblendd" -> lift_vpblendd(i)
    [] i.l = "Roundps" -> lift_round(V(i, 0))
    [] i.l = "Roundss" -> lift_round(V(i, 1))
    [] i.l = "Vroundps" -> lift_vround(i)
    [] i.l = "Vroundss" -> lift_vround_scalar(i)
    [] i.l = "Vrndscaless" -> lift_vrndscale(i)
    [] i.l = "Pcmpistri" -> lift_pcmpstr_idx(V(i, 0))
    [] i.l = "Pcmpestri" -> lift_pcmpstr_idx(V(i, 1))
    [] i.l = "Pcmpistrm" -> lift_pcmpstr_mask(V(i, 0))
    [] i.l = "Insertps" -> lift_insertps(i)
    [] i.l = "Vinsertps" -> lift_vinsertps(i)
    [] i.l = "Dpps" -> lift_dpps(i)
    [] i.l = "Dppd" -> lift_dppd(i)
    [] i.l = "Vdppd" -> lift_vdp(i)
    [] i.l = "Vdpps" -> lift_vdpps(i)
    [] i.l \in {"Phminposuw", "Vphminposuw"} -> lift_phminposuw(i)
    [] i.l \in {"Mpsadbw", "Vmpsadbw"} -> lift_mpsadbw(i)
    [] i.l = "Vpaddb" -> lift_vpacked_bin_avx(i)
    [] i.l = "Vpcmpeqb" -> lift_vpcmp_fixed_or_packed(i)
    [] i.l = "Vpmaddwd" -> lift_vpmadd(i)
    [] i.l = "Pmaddubsw" -> lift_pmaddubsw(i)
    [] OTHER -> lift_avx_moves(i)

lift_evex(i) ==
  CASE i.l = "Vpabsb" -> lift_vpabs(i)
    [] i.l = "Vplzcntd" -> lift_vp_unary_lane(i)
    [] i.l = "Vpblendmd" -> lift_vp_blendm(i)
    [] i.l = "Vshuff32x4" -> lift_vshuf_lane(i)
    [] i.l = "Vpmultishiftqb" -> lift_vp_multishift(i)
    [] i.l = "Vpmaxuq" -> lift_evex_packed_bin_128(i)
    [] i.l = "Vptestmb" -> lift_vptest(i)
    [] i.l = "Vpcmpb" -> lift_vpcmp(i)
    [] i.l = "Kortestb" -> lift_kortest(i)
    [] i.l = "Kmovb" -> lift_kmov(i)
    [] i.l = "Vpmovmskb" -> Vpmovmskb(i)
    [] i.l = "Vpshufb" -> Vpshufb(i)
    [] i.l = "Vzeroupper" -> Vzeroupper(V(i, 0))
    [] i.l = "Vzeroall" -> Vzeroupper(V(i, 1))
    [] i.l = "Vpbroadcastb" -> lift_broadcast(i)
    [] i.l \in {"Vbroadcastf32x4", "Vbroadcasti128"} -> lift_broadcast_lane(V(i, 0))
    [] i.l = "Vbroadcastf32x8" -> lift_broadcast_lane(V(i, 1))
    [] OTHER -> lift_blend_round(i)

lift_lanes(i) ==
  CASE i.l = "Vinserti128" -> Vinserti128(i)
    [] i.l = "Vextracti128" -> Vextracti128(i)
    [] i.l = "Vinserti32x4" -> lift_vinsert_wide(i, 1)
    [] i.l = "Vinserti64x4" -> lift_vinsert_wide(i, 2)
    [] i.l = "Vextracti32x4" -> lift_vextract_wide(i, 1)
    [] i.l = "Vextracti64x4" -> lift_vextract_wide(i, 2)
    [] i.l = "Valignd" -> lift_valign(i)
    [] i.l = "Vpsllw" -> lift_vpacked_shift_avx(i)
    [] i.l = "Vpsllvw" -> lift_vshift_var(i)
    [] i.l = "VpermqImm" -> Vpermq(i)
    [] i.l = "Vpermq" -> lift_vperm1(i)
    [] i.l = "Vpermd" -> Vpermd(i)
    [] i.l = "Vperm2i128" -> Vperm2i128(i)
    [] i.l \in {"Ptest", "Vptest"} -> Ptest(i)
    [] i.l = "Vtestps" -> Vtestps(i)
    [] i.l = "Vpalignr" -> Vpalignr(i)
    [] OTHER -> lift_evex(i)

lift_float_moves(i) ==
  CASE i.l = "Movss" -> lift_scalar_fmove(i)
    [] i.l = "Vmovss" -> lift_vscalar_fmove(i)
    [] i.l = "Addss" -> lift_float_bin(V(i, 1))
    [] i.l = "Addps" -> lift_float_bin(V(i, 0))
    [] i.l = "Ucomiss" -> lift_float_cmp(i)
    [] i.l = "Cmpss" -> lift_float_cmp_mask(V(i, 1))
    [] i.l = "Cmpps" -> lift_float_cmp_mask(V(i, 0))
    [] i.l = "Vcmpss" -> lift_vfloat_cmp_mask(V(i, 1))
    [] i.l = "Vcmpps" -> lift_vfloat_cmp_mask(V(i, 0))
    [] i.l = "Cvtsi2ss" -> lift_cvt_from_int(i)
    [] i.l = "Vcvtsi2ss" -> lift_vcvt_from_int(i)
    [] i.l = "Cvttss2si" -> lift_cvt_to_int(i)
    [] i.l = "Vcvttss2usi" -> lift_cvt_to_int_signed(i)
    [] i.l = "Cvtss2sd" -> lift_cvt_float(i)
    [] i.l \in {"Cvtdq2ps", "Vcvtdq2ps"} -> lift_packed_cvt(V(i, 0))
    [] i.l \in {"Cvtdq2pd", "Vcvtdq2pd"} -> lift_packed_cvt(V(i, 1))
    [] i.l \in {"Cvtpd2ps", "Vcvtpd2ps"} -> lift_packed_cvt(V(i, 2))
    [] i.l = "Vcvtph2ps" -> lift_vcvtph2ps(i)
    [] i.l = "Vcvtps2ph" -> lift_vcvtps2ph(i)
    [] i.l = "Vcvtss2sd" -> lift_vcvt_scalar(i)
    [] OTHER -> lift_lanes(i)

lift_insn(i) ==
  CASE i.l = "Vaddss" -> lift_vfloat_bin(V(i, 1))
    [] i.l = "Vaddps" -> lift_vfloat_bin(V(i, 0))
    [] i.l = "Haddps" -> lift_hfloat(i)
    [] i.l = "Vhaddps" -> lift_vhfloat(i)
    [] i.l = "Phaddw" -> lift_hint(i)
    [] i.l = "Vphaddw" -> lift_vhint(i)
    [] i.l = "Sqrtss" -> lift_float_unary(V(i, 1))
    [] i.l = "Sqrtps" -> lift_float_unary(V(i, 0))
    [] i.l = "Vsqrtss" -> lift_vfloat_unary_scalar(i)
    [] i.l = "Vsqrtps" -> lift_vfloat_unary_packed(V(i, 0))
    [] i.l = "Vfmadd" -> lift_fma(i)
    [] OTHER -> lift_float_moves(i)
=============================================================================
