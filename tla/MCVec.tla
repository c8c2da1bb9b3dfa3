------------------------------- MODULE MCVec --------------------------------
(* The instructions VecMachine is checked on: every lifter of lift/vector.rs *)
(* and every vector arm of lift_insn, with the register patterns in which    *)
(* operands coincide, the widths and masks the encoding has, and memory.     *)
EXTENDS VecMachine

(* Operand patterns <<d, a, b, c, dm>>: two and three registers, memory as   *)
(* the last source, stores, a fourth register and the implicit xmm0.         *)
Two == {<<1, 1, 2, 0, FALSE>>, <<1, 1, 1, 0, FALSE>>}
TwoMem == {<<1, 1, Mem, 0, FALSE>>}
Three == {<<1, 2, 3, 0, FALSE>>, <<1, 1, 3, 0, FALSE>>, <<1, 2, 1, 0, FALSE>>,
          <<1, 2, 2, 0, FALSE>>, <<1, 1, 1, 0, FALSE>>}
ThreeMem == {<<1, 2, Mem, 0, FALSE>>, <<1, 1, Mem, 0, FALSE>>}
Stores == {<<2, 2, 0, 0, TRUE>>}
Four == {<<1, 2, 3, 0, FALSE>>, <<1, 1, 3, 0, FALSE>>, <<1, 2, 1, 0, FALSE>>,
         <<1, 2, 3, 1, FALSE>>, <<1, 2, Mem, 0, FALSE>>, <<1, 1, Mem, 0, FALSE>>,
         <<1, 2, Mem, 1, FALSE>>}
Xmm0 == {<<1, 1, 2, 0, FALSE>>, <<0, 0, 2, 0, FALSE>>, <<1, 1, 0, 0, FALSE>>,
         <<1, 1, Mem, 0, FALSE>>, <<0, 0, Mem, 0, FALSE>>}
ToGpr == {<<2, 2, 2, 0, FALSE>>}

Sse(l, pats) == [l |-> l, e |-> "sse", ws |-> {16}, pats |-> pats, vs |-> {0}, masks |-> FALSE]
Vex(l, ws, pats) == [l |-> l, e |-> "vex", ws |-> ws, pats |-> pats, vs |-> {0}, masks |-> FALSE]
Evex(l, ws, pats) == [l |-> l, e |-> "evex", ws |-> ws, pats |-> pats, vs |-> {0}, masks |-> TRUE]
Variants(f, vs) == [f EXCEPT !.vs = vs]

W1 == {16}
W2 == {16, 32}
W3 == {16, 32, 64}

Moves == <<
  Sse("Movdqa", Two \cup TwoMem \cup Stores), Sse("Movq", Two \cup TwoMem \cup Stores),
  Variants(Sse("Movq", {<<1, 1, 1, 0, FALSE>>}), {1}), Variants(Sse("Movq", ToGpr), {2}),
  Sse("Movhlps", Two), Sse("Movhps", TwoMem \cup Stores), Vex("Vmovlhps", W1, Three),
  Vex("Vmovhlps", W1, Three), Vex("Vmovhps", W1, ThreeMem \cup Stores),
  Vex("Vmovdqa", W2, Two \cup TwoMem \cup Stores), Evex("Vmovdqu8", W3, Two \cup TwoMem \cup Stores),
  Vex("Vmovq", W1, Two \cup TwoMem \cup Stores), Variants(Vex("Vmovq", W1, {<<1, 1, 1, 0, FALSE>>}), {1}),
  Vex("Vmaskmovps", W2, ThreeMem \cup Stores), Sse("Movss", Two \cup TwoMem \cup Stores),
  Vex("Vmovss", W1, Three \cup ThreeMem \cup Stores),
  Sse("Movsldup", Two \cup TwoMem), Sse("Movddup", Two \cup TwoMem),
  Vex("Vmovsldup", W2, Two \cup TwoMem), Vex("Vmovddup", W2, Two \cup TwoMem),
  Variants(Evex("Vpbroadcastb", W3, Two \cup TwoMem), {0, 1}),
  Evex("Vbroadcastf32x4", {32, 64}, Two \cup TwoMem), Evex("Vbroadcastf32x8", {64}, TwoMem),
  Vex("Vbroadcasti128", {32}, TwoMem), Vex("Vzeroupper", W1, ToGpr), Vex("Vzeroall", W1, ToGpr)>>

Integers128 == <<
  Sse("Pxor", Two \cup TwoMem), Sse("Paddb", Two \cup TwoMem), Variants(Sse("Psllw", Two), {0, 1}),
  Sse("Psrldq", {<<1, 1, 1, 0, FALSE>>}), Sse("Pshufd", Two \cup TwoMem), Sse("Pshuflw", Two),
  Sse("Pshufb", Two \cup TwoMem), Sse("Palignr", Two \cup TwoMem), Sse("Psignb", Two \cup TwoMem),
  Sse("Punpcklbw", Two \cup TwoMem), Sse("Packuswb", Two), Sse("Packsswb", Two \cup TwoMem),
  Sse("Pmaddwd", Two), Sse("Pmaddubsw", Two), Sse("Pblendw", Two), Sse("Blendvps", Xmm0),
  Sse("Blendps", Two \cup TwoMem), Sse("Phminposuw", Two \cup TwoMem), Sse("Mpsadbw", Two),
  Sse("Phaddw", Two \cup TwoMem), Sse("Pmovzxbw", Two \cup TwoMem), Sse("Pmovzxbd", Two \cup TwoMem),
  Sse("Pcmpistri", Two \cup TwoMem), Sse("Pcmpestri", Two \cup TwoMem),
  Sse("Pcmpistrm", Xmm0), Sse("Ptest", Two), Sse("Pmovmskb", ToGpr), Sse("Movmskps", ToGpr),
  Sse("Pinsrw", Two \cup TwoMem), Sse("Pinsrb", Two \cup TwoMem), Sse("Pextrw", ToGpr \cup Stores),
  Sse("Pextrb", ToGpr \cup Stores), Sse("Aesenc", Two \cup TwoMem), Sse("Aesimc", Two \cup TwoMem),
  Sse("Aeskeygenassist", Two \cup TwoMem), Sse("Pclmulqdq", Two \cup TwoMem),
  Sse("Sha256rnds2", Xmm0), Sse("Gf2p8mulb", Two \cup TwoMem)>>

IntegersAvx == <<
  Vex("Vpxor", W2, Three \cup ThreeMem), Evex("Vpxord", W3, Three \cup ThreeMem),
  Evex("Vpternlogd", W3, Three \cup ThreeMem), Evex("Vpopcntd", W3, Two \cup TwoMem),
  Evex("Vpaddb", W3, Three \cup ThreeMem), Vex("Vpaddb", W2, Three \cup ThreeMem),
  Evex("Vpmaxuq", W1, Three \cup ThreeMem), Variants(Vex("Vpcmpeqb", W2, Three \cup ThreeMem), {1}),
  Evex("Vpcmpeqb", W3, Three \cup ThreeMem), Evex("Vptestmb", W3, Three \cup ThreeMem),
  Evex("Vpcmpb", W3, Three \cup ThreeMem), Variants(Evex("Vpsllw", W3, Two \cup TwoMem), {0}),
  Variants(Evex("Vpsllw", W3, Three), {1}), Evex("Vpsllvw", W3, Three), Vex("Vpsrldq", W2, Two),
  Vex("Vpshufd", W2, Two \cup TwoMem), Evex("Vpshufd", W3, Two), Vex("Vpshuflw", W2, Two),
  Vex("Vpshufb", W2, Three \cup ThreeMem), Evex("Vpshufb", W3, Three),
  Vex("Vpalignr", W2, Three), Vex("Vpsignb", W2, Three \cup ThreeMem),
  Vex("Vpunpcklbw", W2, Three \cup ThreeMem), Vex("Vpacksswb", W2, Three \cup ThreeMem),
  Vex("Vpmaddwd", W2, Three \cup ThreeMem), Vex("Vpblendw", W2, Three \cup ThreeMem),
  Vex("Vpblendd", W2, Three), Vex("Vblendvps", W2, Four), Vex("Vblendps", W2, Three \cup ThreeMem),
  Vex("Vphminposuw", W1, Two \cup TwoMem), Vex("Vmpsadbw", W2, Three \cup ThreeMem),
  Vex("Vphaddw", W2, Three \cup ThreeMem), Evex("Vpmovzxbw", W3, Two \cup TwoMem),
  Vex("Vptest", W2, Two), Vex("Vtestps", W2, Two), Vex("Vpmovmskb", W2, ToGpr),
  Vex("Vpinsrb", W1, Three \cup ThreeMem), Vex("Vaesenc", W1, Three \cup ThreeMem),
  Vex("Vaesimc", W1, Two \cup TwoMem), Vex("Vaeskeygenassist", W1, Two \cup TwoMem),
  Vex("Vpclmulqdq", W1, Three \cup ThreeMem), Evex("Vgf2p8mulb", W3, Three \cup ThreeMem),
  Evex("Vpabsb", W3, Two), Evex("Vplzcntd", W3, Two), Evex("Vpblendmd", W3, Three \cup ThreeMem),
  Evex("Vpmultishiftqb", W3, Three)>>

Permutes == <<
  Variants(Evex("Vshuff32x4", {32, 64}, Three), {0, 27}), Evex("Vpermt2b", W3, Three \cup ThreeMem),
  Evex("Vpermi2b", W3, Three \cup ThreeMem), Evex("Vpmovqd", W3, {<<1, 2, 2, 0, FALSE>>,
       <<1, 1, 1, 0, FALSE>>} \cup Stores), Evex("Vpermq", {32, 64}, Three \cup ThreeMem),
  Vex("VpermqImm", {32}, Two \cup TwoMem), Vex("Vpermd", {32}, Three),
  Evex("Vpermd", {32, 64}, Three \cup ThreeMem), Vex("Vperm2i128", {32}, Three),
  Vex("VpermilpsImm", W2, Two \cup TwoMem), Vex("VpermilpdImm", W2, Two \cup TwoMem),
  Vex("Vpermilps", W2, Three), Variants(Vex("Vinserti128", {32}, Three \cup ThreeMem), {0, 1}),
  Variants(Vex("Vextracti128", {32}, {<<1, 2, 0, 0, FALSE>>, <<1, 1, 0, 0, FALSE>>} \cup Stores), {0, 1}),
  Variants(Evex("Vinserti32x4", {32, 64}, Three), {0, 1}), Variants(Evex("Vinserti64x4", {64}, Three), {0, 1}),
  Variants(Evex("Vextracti32x4", {32, 64}, {<<1, 2, 0, 0, FALSE>>, <<1, 1, 0, 0, FALSE>>} \cup Stores), {0, 1}),
  Variants(Evex("Vextracti64x4", {64}, {<<1, 2, 0, 0, FALSE>>, <<1, 1, 0, 0, FALSE>>} \cup Stores), {0, 1}),
  Evex("Valignd", W3, Three), Vex("Kunpckbw", W1, Three), Vex("Korb", W1, Three), Vex("Knotb", W1, Three),
  Vex("Kshiftlb", W1, Three), Vex("Kortestb", W1, Three), Vex("Kmovb", W1, Three),
  Variants(Vex("Kmovb", W1, Two \cup TwoMem), {1}), Variants(Vex("Kmovb", W1, ToGpr \cup Stores), {2})>>

Floats == <<
  Sse("Addss", Two \cup TwoMem), Sse("Addps", Two \cup TwoMem), Sse("Ucomiss", Two \cup TwoMem),
  Sse("Cmpss", Two \cup TwoMem), Sse("Cmpps", Two \cup TwoMem), Sse("Cvtsi2ss", Two \cup TwoMem),
  Sse("Cvttss2si", {<<2, 2, 2, 0, FALSE>>, <<2, 2, Mem, 0, FALSE>>}), Sse("Cvtss2sd", Two \cup TwoMem),
  Evex("Vcvttss2usi", W1, {<<2, 2, 2, 0, FALSE>>, <<2, 2, Mem, 0, FALSE>>}),
  Sse("Cvtdq2ps", Two \cup TwoMem), Sse("Cvtdq2pd", Two \cup TwoMem), Sse("Cvtpd2ps", Two \cup TwoMem),
  Sse("Sqrtss", Two), Sse("Sqrtps", Two), Sse("Haddps", Two \cup TwoMem), Sse("Shufps", Two \cup TwoMem),
  Sse("Roundps", Two \cup TwoMem), Sse("Roundss", Two \cup TwoMem), Sse("Insertps", Two \cup TwoMem),
  Sse("Dpps", Two \cup TwoMem), Sse("Dppd", Two \cup TwoMem),
  Vex("Vaddss", W1, Three \cup ThreeMem), Vex("Vaddps", W2, Three \cup ThreeMem),
  Vex("Vcmpss", W1, Three \cup ThreeMem), Vex("Vcmpps", W2, Three \cup ThreeMem),
  Vex("Vcvtsi2ss", W1, Three \cup ThreeMem), Vex("Vcvtss2sd", W1, Three \cup ThreeMem),
  Vex("Vcvtdq2ps", W2, Two \cup TwoMem), Vex("Vcvtdq2pd", W2, Two \cup TwoMem),
  Vex("Vcvtpd2ps", W2, Two \cup TwoMem), Vex("Vcvtph2ps", W2, Two \cup TwoMem), Vex("Vcvtps2ph", W2, Two),
  Vex("Vsqrtss", W1, Three \cup ThreeMem), Vex("Vsqrtps", W2, Two \cup TwoMem),
  Vex("Vhaddps", W2, Three \cup ThreeMem), Vex("Vshufps", W2, Three \cup ThreeMem),
  Vex("Vroundps", W2, Two \cup TwoMem), Vex("Vroundss", W1, Three \cup ThreeMem),
  Variants(Evex("Vrndscaless", W1, Three \cup ThreeMem), {0, 1}), Vex("Vinsertps", W1, Three \cup ThreeMem),
  Vex("Vdppd", W1, Three \cup ThreeMem), Vex("Vdpps", W2, Three \cup ThreeMem),
  Variants(Evex("Vfmadd", W3, Three \cup ThreeMem), 0 .. 2),
  Variants(Evex("Vfmadd", W1, Three \cup ThreeMem), 3 .. 5)>>

(* pmovzxbq has a memory operand of two bytes.                               *)
Narrow == <<Sse("Pmovzxbq", Two \cup TwoMem)>>
Families == Moves \o Integers128 \o IntegersAvx \o Permutes \o Floats \o Narrow

(* No mask, merging and zeroing; a masked memory operand has every chunk     *)
(* active, or one.                                                           *)
Masks(f) == IF f.masks THEN {<<0, FALSE>>, <<1, FALSE>>, <<1, TRUE>>} ELSE {<<0, FALSE>>}
MaskedMem(f, p, m) == (p[3] = Mem \/ p[5]) /\ (m[1] # 0 \/ f.l = "Vmaskmovps")
Acts(f, p, m, w) == IF MaskedMem(f, p, m) THEN {0 .. w \div 8 - 1, {w \div 8 - 1}, {0}} ELSE {{}}

Insns(fs) ==
  UNION {UNION {UNION {UNION {
    {[l |-> f.l, e |-> f.e, w |-> w, d |-> p[1], a |-> p[2], b |-> p[3], c |-> p[4], dm |-> p[5],
      k |-> m[1], z |-> m[2], v |-> v, act |-> x] : x \in Acts(f, p, m, w), v \in f.vs}
    : m \in Masks(f)} : p \in f.pats} : w \in f.ws} : f \in {fs[j] : j \in DOMAIN fs}}

AllInsns == Insns(Families)
NarrowInsns == Insns(Narrow)

(* Lim is every chunk boundary that separates two parts of some operand.     *)
AllPlaces ==
  {<<"ram", 64>>, <<"trap", 64>>}
    \cup {<<kind, lim>> : kind \in {"page", "edge"}, lim \in {0, 8, 16, 24, 40, 56}}
(* Guest memory ends right behind an operand of two bytes.                   *)
NarrowPlaces == {<<"edge", 2>>}
=============================================================================
