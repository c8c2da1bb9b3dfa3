--------------------------- MODULE VecLiftProofs ----------------------------
(***************************************************************************)
(* What the vector lifters emit: for every decoded instruction, ops with   *)
(* the fields the backends rely on, in an order in which a fault leaves    *)
(* nothing behind but the copy of the first source (Good).                 *)
(***************************************************************************)
EXTENDS VecLift, TLAPS

(* ------------------------------ The lifters ----------------------------- *)

(* The copy of the first source into the destination.                      *)
Copies(i, o) == o.op \in {"VMov", "VMov256"} /\ o.a = i.a
(* Ops that are the whole of their instruction.                            *)
Alone == Selective \cup Unnoted

OpOk(i, o) ==
  /\ Fits(o)
  /\ o.d = i.d /\ o.act = i.act
  /\ o.op \in LaneOps => o.w = i.w /\ i.w # 64

(* An op that may exit comes first, or behind ops that write a temporary   *)
(* only, or right behind the copy of the first source.                     *)
Good(i, q) ==
  /\ Len(q) \in Nat /\ DOMAIN q = 1 .. Len(q)
  /\ \A j \in 1 .. Len(q) :
       /\ OpOk(i, q[j])
       /\ \/ Never(q[j])
          \/ \A h \in 1 .. j - 1 : q[h].op \in TempOps
          \/ j = 2 /\ Copies(i, q[1])
       /\ q[j].op \in Alone => Len(q) = 1

(* An op that may have others beside it, and one that may follow a.        *)
Part(i, o) == OpOk(i, o) /\ o.op \notin Alone
Behind(i, a, b) == Never(b) \/ a.op \in TempOps \/ Copies(i, a)

LEMMA Tuple0 == \A i : Good(i, <<>>)
BY DEF Good

LEMMA Tuple1 ==
  ASSUME NEW i, NEW a, OpOk(i, a)
  PROVE  Good(i, <<a>>)
BY DEF Good

LEMMA Tuple2 ==
  ASSUME NEW i, NEW a, NEW b, Part(i, a), Part(i, b), Behind(i, a, b)
  PROVE  Good(i, <<a, b>>)
BY DEF Good, Part, Behind

LEMMA Tuple3 ==
  ASSUME NEW i, NEW a, NEW b, NEW c, Part(i, a), Part(i, b), Part(i, c), Behind(i, a, b),
         Never(c) \/ (a.op \in TempOps /\ b.op \in TempOps)
  PROVE  Good(i, <<a, b, c>>)
BY DEF Good, Part, Behind

LEMMA Tuple4 ==
  ASSUME NEW i, NEW a, NEW b, NEW c, NEW e, Part(i, a), Part(i, b), Part(i, c), Part(i, e),
         Never(b), Never(c), Never(e)
  PROVE  Good(i, <<a, b, c, e>>)
BY DEF Good, Part

LEMMA ElementIn == \A S : \A s \in Seq(S) : \A k \in 1 .. Len(s) : s[k] \in S
OBVIOUS

LEMMA Elements1 ==
  ASSUME NEW S, NEW s \in Seq(S), Len(s) = 1
  PROVE  s = <<s[1]>>
<1>1. \A k \in 1 .. Len(s) : s[k] \in S
  BY ElementIn, Zenon
<1>2. <<s[1]>> \in Seq(S)
  BY <1>1
<1> QED
  BY <1>2

LEMMA Elements2 ==
  ASSUME NEW S, NEW s \in Seq(S), Len(s) = 2
  PROVE  s = <<s[1], s[2]>>
<1>1. \A k \in 1 .. Len(s) : s[k] \in S
  BY ElementIn, Zenon
<1>2. <<s[1], s[2]>> \in Seq(S)
  BY <1>1
<1> QED
  BY <1>2

LEMMA Elements3 ==
  ASSUME NEW S, NEW s \in Seq(S), Len(s) = 3
  PROVE  s = <<s[1], s[2], s[3]>>
<1>1. \A k \in 1 .. Len(s) : s[k] \in S
  BY ElementIn, Zenon
<1>2. <<s[1], s[2], s[3]>> \in Seq(S)
  BY <1>1
<1> QED
  BY <1>2

LEMMA Elements4 ==
  ASSUME NEW S, NEW s \in Seq(S), Len(s) = 4
  PROVE  s = <<s[1], s[2], s[3], s[4]>>
<1>1. \A k \in 1 .. Len(s) : s[k] \in S
  BY ElementIn, Zenon
<1>2. <<s[1], s[2], s[3], s[4]>> \in Seq(S)
  BY <1>1
<1> QED
  BY <1>2

LEMMA Join01 ==
  ASSUME NEW a
  PROVE  <<>> \o <<a>> = <<a>>
<1>1. PICK s : s = <<>> \o <<a>>
  BY Zenon
<1>2. <<>> \in Seq({a}) /\ <<a>> \in Seq({a})
  OBVIOUS
<1>3. s \in Seq({a}) /\ Len(s) = 1 /\ s[1] = a
  BY <1>1, <1>2
<1> QED
  BY <1>1, <1>3, Elements1, Zenon

LEMMA Join10 ==
  ASSUME NEW a
  PROVE  <<a>> \o <<>> = <<a>>
<1>1. PICK s : s = <<a>> \o <<>>
  BY Zenon
<1>2. <<a>> \in Seq({a}) /\ <<>> \in Seq({a})
  OBVIOUS
<1>3. s \in Seq({a}) /\ Len(s) = 1 /\ s[1] = a
  BY <1>1, <1>2
<1> QED
  BY <1>1, <1>3, Elements1, Zenon

LEMMA Join11 ==
  ASSUME NEW a, NEW b
  PROVE  <<a>> \o <<b>> = <<a, b>>
<1>1. PICK s : s = <<a>> \o <<b>>
  BY Zenon
<1>2. <<a>> \in Seq({a, b}) /\ <<b>> \in Seq({a, b})
  OBVIOUS
<1>3. s \in Seq({a, b}) /\ Len(s) = 2 /\ s[1] = a /\ s[2] = b
  BY <1>1, <1>2
<1> QED
  BY <1>1, <1>3, Elements2, Zenon

LEMMA Join02 ==
  ASSUME NEW a, NEW b
  PROVE  <<>> \o <<a, b>> = <<a, b>>
<1>1. PICK s : s = <<>> \o <<a, b>>
  BY Zenon
<1>2. <<>> \in Seq({a, b}) /\ <<a, b>> \in Seq({a, b})
  OBVIOUS
<1>3. s \in Seq({a, b}) /\ Len(s) = 2 /\ s[1] = a /\ s[2] = b
  BY <1>1, <1>2
<1> QED
  BY <1>1, <1>3, Elements2, Zenon

LEMMA Join20 ==
  ASSUME NEW a, NEW b
  PROVE  <<a, b>> \o <<>> = <<a, b>>
<1>1. PICK s : s = <<a, b>> \o <<>>
  BY Zenon
<1>2. <<a, b>> \in Seq({a, b}) /\ <<>> \in Seq({a, b})
  OBVIOUS
<1>3. s \in Seq({a, b}) /\ Len(s) = 2 /\ s[1] = a /\ s[2] = b
  BY <1>1, <1>2
<1> QED
  BY <1>1, <1>3, Elements2, Zenon

LEMMA Join12 ==
  ASSUME NEW a, NEW b, NEW c
  PROVE  <<a>> \o <<b, c>> = <<a, b, c>>
<1>1. PICK s : s = <<a>> \o <<b, c>>
  BY Zenon
<1>2. <<a>> \in Seq({a, b, c}) /\ <<b, c>> \in Seq({a, b, c})
  OBVIOUS
<1>3. s \in Seq({a, b, c}) /\ Len(s) = 3 /\ s[1] = a /\ s[2] = b /\ s[3] = c
  BY <1>1, <1>2
<1> QED
  BY <1>1, <1>3, Elements3, Zenon

LEMMA Join21 ==
  ASSUME NEW a, NEW b, NEW c
  PROVE  <<a, b>> \o <<c>> = <<a, b, c>>
<1>1. PICK s : s = <<a, b>> \o <<c>>
  BY Zenon
<1>2. <<a, b>> \in Seq({a, b, c}) /\ <<c>> \in Seq({a, b, c})
  OBVIOUS
<1>3. s \in Seq({a, b, c}) /\ Len(s) = 3 /\ s[1] = a /\ s[2] = b /\ s[3] = c
  BY <1>1, <1>2
<1> QED
  BY <1>1, <1>3, Elements3, Zenon

LEMMA Join22 ==
  ASSUME NEW a, NEW b, NEW c, NEW e
  PROVE  <<a, b>> \o <<c, e>> = <<a, b, c, e>>
<1>1. PICK s : s = <<a, b>> \o <<c, e>>
  BY Zenon
<1>2. <<a, b>> \in Seq({a, b, c, e}) /\ <<c, e>> \in Seq({a, b, c, e})
  OBVIOUS
<1>3. s \in Seq({a, b, c, e}) /\ Len(s) = 4 /\ s[1] = a /\ s[2] = b /\ s[3] = c /\ s[4] = e
  BY <1>1, <1>2
<1> QED
  BY <1>1, <1>3, Elements4, Zenon

LEMMA Join13 ==
  ASSUME NEW a, NEW b, NEW c, NEW e
  PROVE  <<a>> \o <<b, c, e>> = <<a, b, c, e>>
<1>1. PICK s : s = <<a>> \o <<b, c, e>>
  BY Zenon
<1>2. <<a>> \in Seq({a, b, c, e}) /\ <<b, c, e>> \in Seq({a, b, c, e})
  OBVIOUS
<1>3. s \in Seq({a, b, c, e}) /\ Len(s) = 4 /\ s[1] = a /\ s[2] = b /\ s[3] = c /\ s[4] = e
  BY <1>1, <1>2
<1> QED
  BY <1>1, <1>3, Elements4, Zenon

(* Ops of which no field but op, d and act matters.                        *)
Usual == {"VMov", "VZeroUpper", "VLoadWide", "VLoad", "ReadReg", "WriteReg", "VToGpr",
          "VFromGpr", "VBroadcastGpr", "VBroadcastM", "VBroadcast", "VBroadcastLaneM",
          "VBroadcastLane", "VMaskMov", "VMovWide", "VExtractLaneWide", "VInsertLaneWide",
          "VAlign", "VShiftReg", "VMaskedShift", "VPackedShift256", "VPackedShift",
          "VShiftVar", "VByteShift", "VLogicM", "VLogic", "VLogic256M", "VLogic256",
          "VMaskedLogic", "VLogicWide", "VPackedBin", "VMaskedPacked", "VPackedWide",
          "VPackedBin256", "VPBlendVM", "VPBlendV", "VPBlendVX", "VBlendI", "VPRoundM",
          "VPRound", "VPcmpStr", "VPcmpStrMask", "VInsertPs", "VInsertPs3", "VDpps", "VDppd",
          "VDp3", "VMov256", "VPMovExtend", "VPMovExtendWide", "VPAbs", "VpUnaryLane",
          "VpBlendm", "VShuffLane", "VpMultishift", "VPopcnt", "VPermT2M", "VPermT2",
          "VPmovNarrow", "VPerm1M", "VPerm1", "VPTernlog", "VKUnpack", "VKBinOp", "VKNot",
          "VKShift", "VKMovKK", "VKFromGpr", "VKToGpr", "VKOrTest", "VPTestToMask",
          "VPCmpToMask", "VShuffle32", "VShuffle32Wide", "VPackWideM", "VPackWide", "VBlendW",
          "VBlendD", "VShufps", "VShufps256", "VPermilVar", "VShuffle16", "VUnpackLow",
          "VUnpack256", "VAes", "VAesImc", "VAesKeygen", "VPclmul", "VSha", "VGfni",
          "VGf2p8M", "VGf2p8", "VPsign", "VPackUsWB", "VPMAddWd", "VPMadd", "VPMaddM",
          "VInsertW", "VInsertLane", "VExtractW", "VExtractLane", "VMoveHalf", "VStoreHalf",
          "VLoadHalf", "VFloatMov", "VFloatBin", "VFloatBin256", "VHFloat", "VHInt",
          "VFloatCmp", "VFloatCmpMask", "VFloatCmpMask256", "VCvtFromInt", "VCvtToInt",
          "VFloatUnary", "VFmaM", "VFma", "VFloatUnary256", "VCvtFloat", "VPackedCvtWide256",
          "VPackedCvt256", "VPackedCvt", "VCvtPh2Ps", "VCvtPs2Ph", "VPhMinPosUw", "VMpsadbw",
          "VPshufb", "VAlignr", "VMoveMaskB", "VMoveMaskFp", "VMoveMaskB256", "VPshufbWide",
          "VPshufb256", "VZeroUpperAll", "VInsert128", "VExtract128", "VPermq", "VPermd",
          "VPerm2i128", "VPtest", "VTestFp", "VPalignr256"}

LEMMA UsualPart ==
  ASSUME NEW i, NEW o, o.op \in Usual, o.d = i.d, o.act = i.act
  PROVE  Part(i, o)
<1>1. /\ o.op \in AllOps /\ o.op \notin Alone \cup LaneOps
      /\ o.op \notin {"VStore", "VStoreWide", "VExtractLaneWideM", "Load", "Store"}
  BY DEF Usual, AllOps, Alone, Selective, Unnoted, LaneOps
<1> QED
  BY <1>1 DEF Part, OpOk, Fits

LEMMA Built ==
  ASSUME NEW i, NEW name \in Usual, NEW x
  PROVE  /\ Part(i, P(i, name)) /\ Part(i, Legacy(i, name)) /\ Part(i, Unary(i, name))
         /\ Part(i, Sized(P(i, name), x))
         /\ Part(i, Float(i, name)) /\ Part(i, FloatLegacy(i, name))
<1> DEFINE Same(o) == o.op = name /\ o.d = i.d /\ o.act = i.act
<1>1. ASSUME NEW o, Same(o) PROVE Part(i, o)
  BY <1>1, UsualPart
<1>2. /\ Same(P(i, name)) /\ Same(Legacy(i, name)) /\ Same(Unary(i, name))
      /\ Same(Sized(P(i, name), x))
      /\ Same(Float(i, name)) /\ Same(FloatLegacy(i, name))
  BY DEF P, Legacy, Unary, Sized, Float, FloatLegacy
<1> HIDE DEF Same
<1> QED
  BY <1>1, <1>2, Zenon

LEMMA BuiltWith ==
  ASSUME NEW i, NEW name \in Usual, NEW x, NEW y
  PROVE  /\ Part(i, [P(i, name) EXCEPT !.a = x]) /\ Part(i, [P(i, name) EXCEPT !.b = x])
         /\ Part(i, [P(i, name) EXCEPT !.imm = x]) /\ Part(i, [P(i, name) EXCEPT !.i = x])
         /\ Part(i, [P(i, name) EXCEPT !.w = x]) /\ Part(i, [P(i, name) EXCEPT !.z = x])
         /\ Part(i, [P(i, name) EXCEPT !.a = x, !.w = y])
         /\ Part(i, [P(i, name) EXCEPT !.a = x, !.b = y])
         /\ Part(i, [P(i, name) EXCEPT !.a = x, !.sc = y])
         /\ Part(i, [Legacy(i, name) EXCEPT !.imp = x]) /\ Part(i, [Legacy(i, name) EXCEPT !.w = x])
         /\ Part(i, [Unary(i, name) EXCEPT !.w = x])
         /\ Part(i, [Sized(P(i, name), x) EXCEPT !.imm = y])
         /\ Part(i, [[P(i, name) EXCEPT !.i = x] EXCEPT !.a = y])
<1> DEFINE Same(o) == o.op = name /\ o.d = i.d /\ o.act = i.act
<1>1. ASSUME NEW o, Same(o) PROVE Part(i, o)
  BY <1>1, UsualPart
<1>2. /\ Same([P(i, name) EXCEPT !.a = x]) /\ Same([P(i, name) EXCEPT !.b = x])
      /\ Same([P(i, name) EXCEPT !.imm = x]) /\ Same([P(i, name) EXCEPT !.i = x])
      /\ Same([P(i, name) EXCEPT !.w = x]) /\ Same([P(i, name) EXCEPT !.z = x])
      /\ Same([P(i, name) EXCEPT !.a = x, !.w = y]) /\ Same([P(i, name) EXCEPT !.a = x, !.b = y])
      /\ Same([P(i, name) EXCEPT !.a = x, !.sc = y])
      /\ Same([[P(i, name) EXCEPT !.i = x] EXCEPT !.a = y])
  BY DEF P
<1>3. /\ Same([Legacy(i, name) EXCEPT !.imp = x]) /\ Same([Legacy(i, name) EXCEPT !.w = x])
      /\ Same([Unary(i, name) EXCEPT !.w = x]) /\ Same([Sized(P(i, name), x) EXCEPT !.imm = y])
  BY DEF P, Legacy, Unary, Sized
<1> HIDE DEF Same
<1> QED
  BY <1>1, <1>2, <1>3, Zenon

LEMMA BuiltRound ==
  ASSUME NEW i, NEW a, NEW scalar
  PROVE  Part(i, Rounded(i, a, scalar))
<1>1. "VPRoundM" \in Usual /\ "VPRound" \in Usual
  BY DEF Usual
<1> QED
  BY <1>1, BuiltWith, Zenon DEF Rounded

LEMMA BuiltNever ==
  ASSUME NEW i, NEW name \in PlainOps, NEW x, NEW y
  PROVE  /\ Never(P(i, name)) /\ Never(Legacy(i, name)) /\ Never(Unary(i, name))
         /\ Never([P(i, name) EXCEPT !.a = x]) /\ Never([P(i, name) EXCEPT !.b = x])
         /\ Never([P(i, name) EXCEPT !.a = x, !.w = y])
         /\ Never([[P(i, name) EXCEPT !.i = x] EXCEPT !.a = y])
<1>1. /\ P(i, name).op = name /\ Legacy(i, name).op = name /\ Unary(i, name).op = name
      /\ [P(i, name) EXCEPT !.a = x].op = name /\ [P(i, name) EXCEPT !.b = x].op = name
      /\ [P(i, name) EXCEPT !.a = x, !.w = y].op = name
      /\ [[P(i, name) EXCEPT !.i = x] EXCEPT !.a = y].op = name
  BY DEF P, Legacy, Unary
<1> QED
  BY <1>1, Zenon DEF Never

LEMMA BuiltTemp ==
  ASSUME NEW i, NEW name \in TempOps, NEW n
  PROVE  /\ P(i, name).op \in TempOps /\ Unary(i, name).op \in TempOps
         /\ Sized(P(i, name), n).op \in TempOps
BY DEF P, Unary, Sized

LEMMA BuiltLoad ==
  ASSUME NEW i
  PROVE  Part(i, Sized(P(i, "Load"), 8)) /\ Part(i, Sized(P(i, "Store"), 8))
<1>1. ASSUME NEW o, o.op \in {"Load", "Store"}, o.n = 8, o.d = i.d, o.act = i.act
      PROVE  Part(i, o)
  BY <1>1 DEF Part, OpOk, Fits, AllOps, Alone, Selective, Unnoted, LaneOps
<1>2. ASSUME NEW name \in {"Load", "Store"}
      PROVE  /\ Sized(P(i, name), 8).op \in {"Load", "Store"}
             /\ Sized(P(i, name), 8).n = 8 /\ Sized(P(i, name), 8).d = i.d
             /\ Sized(P(i, name), 8).act = i.act
  BY DEF Sized, P
<1>3. ASSUME NEW name \in {"Load", "Store"} PROVE Part(i, Sized(P(i, name), 8))
  BY <1>1, <1>2, SMT
<1> QED
  BY <1>3

LEMMA BuiltOther ==
  ASSUME NEW i \in Instructions, NEW x
  PROVE  /\ Part(i, Sized(P(i, "VStore"), 8)) /\ Part(i, Sized(P(i, "VStore"), 16))
         /\ Part(i, P(i, "VStoreWide"))
         /\ Part(i, [Sized(P(i, "VExtractLaneWideM"), 1) EXCEPT !.imm = x])
         /\ Part(i, [Sized(P(i, "VExtractLaneWideM"), 2) EXCEPT !.imm = x])
         /\ i.w # 64 => Part(i, DotM(i)) /\ Part(i, P(i, "VPsignM")) /\ Part(i, Legacy(i, "VPsignM"))
         /\ \A name \in Alone : OpOk(i, P(i, name))
<1> DEFINE Same(o, name) == o.op = name /\ o.d = i.d /\ o.act = i.act
<1>1. ASSUME NEW o, \/ Same(o, "VStore") /\ o.n \in {8, 16}
                    \/ Same(o, "VStoreWide") /\ o.w \in {16, 32, 64}
                    \/ Same(o, "VExtractLaneWideM") /\ o.n \in {1, 2}
                    \/ (Same(o, "VDppsM") \/ Same(o, "VPsignM")) /\ o.w = i.w /\ i.w # 64
      PROVE  Part(i, o)
  BY <1>1 DEF Part, OpOk, Fits, AllOps, Alone, Selective, Unnoted, LaneOps, Widths
<1>2. ASSUME NEW name \in Alone PROVE OpOk(i, P(i, name))
  BY <1>2 DEF OpOk, Fits, AllOps, Alone, Selective, Unnoted, LaneOps, P
<1>3. i.w \in {16, 32, 64}
  BY DEF Instructions
<1>4. /\ Same(Sized(P(i, "VStore"), 8), "VStore") /\ Sized(P(i, "VStore"), 8).n = 8
      /\ Same(Sized(P(i, "VStore"), 16), "VStore") /\ Sized(P(i, "VStore"), 16).n = 16
      /\ Same([Sized(P(i, "VExtractLaneWideM"), 1) EXCEPT !.imm = x], "VExtractLaneWideM")
      /\ [Sized(P(i, "VExtractLaneWideM"), 1) EXCEPT !.imm = x].n = 1
      /\ Same([Sized(P(i, "VExtractLaneWideM"), 2) EXCEPT !.imm = x], "VExtractLaneWideM")
      /\ [Sized(P(i, "VExtractLaneWideM"), 2) EXCEPT !.imm = x].n = 2
  BY DEF Sized, P
<1>5. /\ Same(P(i, "VStoreWide"), "VStoreWide") /\ P(i, "VStoreWide").w = i.w
      /\ Same(DotM(i), "VDppsM") /\ DotM(i).w = i.w
      /\ Same(P(i, "VPsignM"), "VPsignM") /\ P(i, "VPsignM").w = i.w
      /\ Same(Legacy(i, "VPsignM"), "VPsignM") /\ Legacy(i, "VPsignM").w = i.w
  BY DEF DotM, Legacy, P
<1> HIDE DEF Same
<1>6. Part(i, Sized(P(i, "VStore"), 8)) /\ Part(i, Sized(P(i, "VStore"), 16))
  BY <1>1, <1>4
<1>7. /\ Part(i, [Sized(P(i, "VExtractLaneWideM"), 1) EXCEPT !.imm = x])
      /\ Part(i, [Sized(P(i, "VExtractLaneWideM"), 2) EXCEPT !.imm = x])
  BY <1>1, <1>4, Zenon
<1>8. Part(i, P(i, "VStoreWide"))
  BY <1>1, <1>3, <1>5
<1>9. i.w # 64 => Part(i, DotM(i)) /\ Part(i, P(i, "VPsignM")) /\ Part(i, Legacy(i, "VPsignM"))
  BY <1>1, <1>5
<1> QED
  BY <1>2, <1>6, <1>7, <1>8, <1>9, Zenon

(* ------------------------- What follows an op --------------------------- *)

LEMMA Upper ==
  ASSUME NEW i
  PROVE  /\ Part(i, VZeroUpper(i)) /\ Never(VZeroUpper(i))
         /\ Part(i, VMov(i)) /\ Never(VMov(i)) /\ Copies(i, VMov(i))
         /\ Part(i, P(i, "WriteReg")) /\ Never(P(i, "WriteReg"))
<1>1. "VZeroUpper" \in Usual /\ "VMov" \in Usual /\ "WriteReg" \in Usual
  BY DEF Usual
<1>2. VZeroUpper(i).op = "VZeroUpper" /\ VMov(i).op = "VMov" /\ P(i, "WriteReg").op = "WriteReg"
      /\ VMov(i).a = i.a
  BY DEF VZeroUpper, VMov, P
<1>3. Never(VZeroUpper(i)) /\ Never(VMov(i)) /\ Never(P(i, "WriteReg")) /\ Copies(i, VMov(i))
  BY <1>2 DEF Never, PlainOps, Copies
<1> QED
  BY <1>1, <1>3, Built, Zenon DEF VZeroUpper, VMov

LEMMA Tails ==
  ASSUME NEW i, NEW a, Part(i, a)
  PROVE  /\ Good(i, <<a>>) /\ Good(i, <<a, VZeroUpper(i)>>)
         /\ Good(i, <<a>> \o <<VZeroUpper(i)>>)
         /\ Good(i, <<a>> \o VexUpper(i)) /\ Good(i, <<a>> \o IfVex(i)) /\ Good(i, <<a>> \o <<>>)
         /\ Good(i, <<>> \o <<a, VZeroUpper(i)>>)
         /\ Good(i, PreCopy(i) \o <<a, VZeroUpper(i)>>)
         /\ Good(i, (PreCopy(i) \o <<a>>) \o <<VZeroUpper(i)>>)
<1>1. PICK z : z = VZeroUpper(i)
  BY Zenon
<1>2. PICK m : m = VMov(i)
  BY Zenon
<1>3. Part(i, z) /\ Never(z) /\ Part(i, m) /\ Copies(i, m)
  BY <1>1, <1>2, Upper, Zenon
<1>4. Good(i, <<a>>) /\ Good(i, <<a, z>>) /\ Good(i, <<m, a, z>>)
  BY <1>3, Tuple1, Tuple2, Tuple3, Zenon DEF Part, Behind
<1>5. /\ <<a>> \o <<z>> = <<a, z>> /\ <<m>> \o <<a>> = <<m, a>>
      /\ <<m>> \o <<a, z>> = <<m, a, z>> /\ <<m, a>> \o <<z>> = <<m, a, z>>
  BY Join11, Join12, Join21, Zenon
<1>6. <<a>> \o <<>> = <<a>> /\ <<>> \o <<a, z>> = <<a, z>> /\ <<>> \o <<a>> = <<a>>
  BY Join01, Join10, Join02, Zenon
<1> QED
  BY <1>1, <1>2, <1>4, <1>5, <1>6, Zenon DEF VexUpper, IfVex, PreCopy

LEMMA Pairs ==
  ASSUME NEW i, NEW a, NEW b, Part(i, a), Part(i, b), Never(b)
  PROVE  /\ Good(i, <<a, b>>) /\ Good(i, <<a, b>> \o <<VZeroUpper(i)>>)
         /\ Good(i, <<a, b>> \o VexUpper(i)) /\ Good(i, <<a, b>> \o IfVex(i))
         /\ Good(i, <<a, b>> \o <<>>)
<1>1. PICK z : z = VZeroUpper(i)
  BY Zenon
<1>2. Part(i, z) /\ Never(z)
  BY <1>1, Upper, Zenon
<1>3. Good(i, <<a, b>>) /\ Good(i, <<a, b, z>>)
  BY <1>2, Tuple2, Tuple3, Zenon DEF Behind
<1>4. <<a, b>> \o <<z>> = <<a, b, z>> /\ <<a, b>> \o <<>> = <<a, b>>
  BY Join21, Join20, Zenon
<1> QED
  BY <1>1, <1>3, <1>4, Zenon DEF VexUpper, IfVex

LEMMA Reads ==
  ASSUME NEW i
  PROVE  /\ \E t : Part(i, t) /\ t.op \in TempOps /\ lower_read(i) = <<t>>
         /\ \E t : Part(i, t) /\ t.op \in TempOps /\ read_scalar_float(i) = <<t>>
<1>1. "ReadReg" \in Usual /\ "VToGpr" \in Usual /\ {"Load", "ReadReg", "VToGpr"} \subseteq TempOps
  BY DEF Usual, TempOps
<1>2. Part(i, P(i, "ReadReg")) /\ P(i, "ReadReg").op \in TempOps
  BY <1>1, Built, BuiltTemp, Zenon
<1>3. Part(i, Unary(i, "VToGpr")) /\ Unary(i, "VToGpr").op \in TempOps
  BY <1>1, Built, BuiltTemp, Zenon
<1>4. Part(i, Sized(P(i, "Load"), 8)) /\ Sized(P(i, "Load"), 8).op \in TempOps
  BY <1>1, BuiltLoad, BuiltTemp, Zenon
<1> QED
  BY <1>2, <1>3, <1>4, Zenon DEF lower_read, read_scalar_float

LEMMA Reading ==
  ASSUME NEW i, NEW a, Part(i, a), Never(a)
  PROVE  /\ Good(i, lower_read(i) \o <<a>>) /\ Good(i, read_scalar_float(i) \o <<a>>)
         /\ Good(i, lower_read(i) \o <<a, VZeroUpper(i)>>)
         /\ Good(i, lower_read(i) \o PreCopy(i) \o <<a, VZeroUpper(i)>>)
         /\ Good(i, read_scalar_float(i) \o PreCopy(i) \o <<a, VZeroUpper(i)>>)
<1>1. ASSUME NEW t, Part(i, t)
      PROVE  /\ Good(i, <<t>> \o <<a>>) /\ Good(i, <<t>> \o <<a, VZeroUpper(i)>>)
             /\ Good(i, <<t>> \o PreCopy(i) \o <<a, VZeroUpper(i)>>)
  <2>1. PICK z : z = VZeroUpper(i)
    BY Zenon
  <2>2. PICK m : m = VMov(i)
    BY Zenon
  <2>3. Part(i, z) /\ Never(z) /\ Part(i, m) /\ Never(m)
    BY <2>1, <2>2, Upper, Zenon
  <2>4. Good(i, <<t, a>>) /\ Good(i, <<t, a, z>>) /\ Good(i, <<t, m, a, z>>)
    BY <1>1, <2>3, Tuple2, Tuple3, Tuple4, Zenon DEF Behind
  <2>5. <<t>> \o <<a>> = <<t, a>> /\ <<t>> \o <<a, z>> = <<t, a, z>> /\ <<t>> \o <<m>> = <<t, m>>
    BY Join11, Join12, Zenon
  <2>6. <<t, m>> \o <<a, z>> = <<t, m, a, z>> /\ <<t>> \o <<>> = <<t>>
    BY Join22, Join10, Zenon
  <2> QED
    BY <2>1, <2>2, <2>4, <2>5, <2>6, Zenon DEF PreCopy
<1> QED
  BY <1>1, Reads, Zenon

LEMMA Writing ==
  ASSUME NEW i, NEW a, Part(i, a)
  PROVE  /\ Good(i, <<a, P(i, "WriteReg")>>)
         /\ a.op \in TempOps => Good(i, <<a>> \o emit_write(i))
         /\ a.op \in TempOps => Good(i, read_scalar_float(i) \o <<a>> \o emit_write(i))
<1>1. PICK w : Part(i, w) /\ emit_write(i) = <<w>>
  BY BuiltLoad, Upper, Zenon DEF emit_write
<1>2. PICK t : Part(i, t) /\ t.op \in TempOps /\ read_scalar_float(i) = <<t>>
  BY Reads, Zenon
<1>3. a.op \in TempOps => Good(i, <<a, w>>) /\ Good(i, <<t, a, w>>)
  BY <1>1, <1>2, Tuple2, Tuple3, Zenon DEF Behind
<1>4. <<a>> \o <<w>> = <<a, w>> /\ <<t>> \o <<a>> = <<t, a>> /\ <<t, a>> \o <<w>> = <<t, a, w>>
  BY Join11, Join21, Zenon
<1>5. Good(i, <<a, P(i, "WriteReg")>>)
  BY Upper, Tuple2, Zenon DEF Behind
<1> QED
  BY <1>1, <1>2, <1>3, <1>4, <1>5, Zenon

LEMMA MovesGood ==
  ASSUME NEW i \in Instructions
  PROVE  /\ \A n \in {8, 16} : Good(i, lift_vmov(i, n)) /\ Good(i, lift_vmov_vex(i, n))
         /\ Good(i, lift_vmov_avx(i)) /\ Good(i, lift_vmaskmov(i))
<1> DEFINE Fine(q) == Good(i, q) /\ Good(i, q \o <<>>) /\ Good(i, q \o <<VZeroUpper(i)>>)
<1>1. /\ "VToGpr" \in Usual /\ "VLoad" \in Usual /\ "ReadReg" \in Usual /\ "VFromGpr" \in Usual
      /\ "VMov" \in Usual /\ "WriteReg" \in Usual /\ "VLoadWide" \in Usual /\ "VMovWide" \in Usual
      /\ "VMaskMov" \in Usual /\ "VFromGpr" \in PlainOps /\ "WriteReg" \in PlainOps
      /\ "VMaskStoreMem" \in Alone /\ "VMaskLoadMem" \in Alone
      /\ "VVecMaskStoreMem" \in Alone /\ "VVecMaskLoadMem" \in Alone
  BY DEF Usual, PlainOps, Alone, Selective
<1>2. ASSUME NEW a, Part(i, a) PROVE Fine(<<a>>)
  BY <1>2, Tails, Zenon
<1>3. ASSUME NEW a, NEW b, Part(i, a), Part(i, b), Never(b) PROVE Fine(<<a, b>>)
  BY <1>3, Pairs, Zenon
<1> HIDE DEF Fine
<1>4. ASSUME NEW n
      PROVE  /\ Fine(<<Sized(P(i, "VToGpr"), n), P(i, "WriteReg")>>)
             /\ Fine(<<Sized(P(i, "VLoad"), n)>>)
             /\ Fine(<<P(i, "ReadReg"), P(i, "VFromGpr")>>) /\ Fine(<<Unary(i, "VMov")>>)
             /\ Fine(<<Unary(i, "VToGpr"), P(i, "VFromGpr")>>)
  BY <1>1, <1>2, <1>3, Built, BuiltNever, Zenon
<1>5. ASSUME NEW n \in {8, 16} PROVE Fine(<<Sized(P(i, "VStore"), n)>>)
  BY <1>2, BuiltOther, Zenon
<1>6. ASSUME NEW n \in {8, 16} PROVE Fine(lift_vmov(i, n))
  BY <1>4, <1>5, Zenon DEF lift_vmov
<1>7. ASSUME NEW n \in {8, 16} PROVE Good(i, lift_vmov(i, n)) /\ Good(i, lift_vmov_vex(i, n))
  BY <1>6, Zenon DEF Fine, lift_vmov_vex
<1>8. Good(i, lift_vmaskmov(i))
  BY <1>1, BuiltOther, Tuple1, Zenon DEF lift_vmaskmov
<1>9. Good(i, lift_vmov_avx(i))
  <2>1. /\ Good(i, <<P(i, "VMaskStoreMem")>>) /\ Good(i, <<P(i, "VMaskLoadMem")>>)
        /\ Good(i, <<Unary(i, "VMaskMov")>>)
    BY <1>1, BuiltOther, Built, Tuple1, Zenon DEF Part
  <2>2. /\ Good(i, <<P(i, "VStoreWide")>>) /\ Good(i, <<P(i, "VLoadWide")>>)
        /\ Good(i, <<Unary(i, "VMovWide")>>)
    BY <1>1, BuiltOther, Built, Tuple1, Zenon DEF Part
  <2>3. Good(i, lift_vmov_vex(i, 16))
    BY <1>7
  <2> QED
    BY <2>1, <2>2, <2>3, Zenon DEF lift_vmov_avx
<1> QED
  BY <1>7, <1>8, <1>9, Zenon

LEMMA BroadcastsGood ==
  ASSUME NEW i \in Instructions
  PROVE  Good(i, lift_broadcast(i)) /\ Good(i, lift_broadcast_lane(i))
<1>1. /\ "ReadReg" \in Usual /\ "VBroadcastGpr" \in Usual /\ "VToGpr" \in Usual
      /\ "VBroadcastM" \in Usual /\ "VBroadcast" \in Usual /\ "VBroadcastLaneM" \in Usual
      /\ "VBroadcastLane" \in Usual /\ "VBroadcastGpr" \in PlainOps
  BY DEF Usual, PlainOps
<1>2. /\ Good(i, <<P(i, "ReadReg"), P(i, "VBroadcastGpr")>>)
      /\ Good(i, <<Sized(P(i, "Load"), 8), P(i, "VBroadcastGpr")>>)
      /\ Good(i, <<Unary(i, "VToGpr"), P(i, "VBroadcastGpr")>>)
  BY <1>1, Built, BuiltLoad, BuiltNever, Pairs, Zenon
<1>3. Good(i, <<P(i, "VBroadcastM")>>) /\ Good(i, <<Unary(i, "VBroadcast")>>)
      /\ Good(i, Unsupported)
  BY <1>1, Built, Tails, Tuple0, Zenon DEF Unsupported
<1>4. Good(i, lift_broadcast(i))
  BY <1>2, <1>3, Zenon DEF lift_broadcast
<1>5. Good(i, lift_broadcast_lane(i))
  BY <1>1, Built, Tails, Zenon DEF lift_broadcast_lane
<1> QED
  BY <1>4, <1>5

LEMMA LanesGood ==
  ASSUME NEW i \in Instructions
  PROVE  /\ \A n \in {1, 2} : Good(i, lift_vextract_wide(i, n)) /\ Good(i, lift_vinsert_wide(i, n))
         /\ Good(i, lift_vpermt2(i)) /\ Good(i, lift_vpermi2(i)) /\ Good(i, lift_fma(i))
         /\ Good(i, lift_valign(i))
<1>1. /\ "VExtractLaneWide" \in Usual /\ "VInsertLaneWide" \in Usual /\ "VPermT2M" \in Usual
      /\ "VPermT2" \in Usual /\ "VFmaM" \in Usual /\ "VFma" \in Usual /\ "VAlign" \in Usual
  BY DEF Usual
<1>2. ASSUME NEW n \in {1, 2}
      PROVE  Good(i, lift_vextract_wide(i, n)) /\ Good(i, lift_vinsert_wide(i, n))
  <2>1. ASSUME NEW x PROVE Good(i, <<[Sized(P(i, "VExtractLaneWideM"), n) EXCEPT !.imm = x]>>)
    BY BuiltOther, Tails, Zenon
  <2>2. ASSUME NEW x
        PROVE  /\ Good(i, <<[Sized(P(i, "VExtractLaneWide"), n) EXCEPT !.imm = x]>>)
               /\ Good(i, <<[Sized(P(i, "VInsertLaneWide"), n) EXCEPT !.imm = x]>>)
    BY <1>1, BuiltWith, Tails, Zenon
  <2> QED
    BY <2>1, <2>2, Tuple0, Zenon DEF lift_vextract_wide, lift_vinsert_wide, Unsupported
<1>3. Good(i, lift_vpermt2(i)) /\ Good(i, lift_vpermi2(i))
  BY <1>1, BuiltWith, Tails, Zenon DEF lift_vpermt2, lift_vpermi2, lift_vperm2
<1>4. ASSUME NEW name \in {"VFmaM", "VFma"}, NEW x, NEW y, NEW z, NEW w
      PROVE  Part(i, [P(i, name) EXCEPT !.a = x, !.b = y, !.c = z, !.sc = w])
  <2>1. PICK o : o = [P(i, name) EXCEPT !.a = x, !.b = y, !.c = z, !.sc = w]
    BY Zenon
  <2>2. o.op = name /\ o.d = i.d /\ o.act = i.act
    BY <2>1 DEF P
  <2>3. Part(i, o)
    BY <1>1, <1>4, <2>2, UsualPart
  <2> QED
    BY <2>1, <2>3
<1>5. Good(i, lift_fma(i))
  BY <1>4, Tails, Tuple0, Zenon DEF lift_fma, Unsupported
<1>6. Good(i, lift_valign(i))
  BY <1>1, Built, Tails, Tuple0, Zenon DEF lift_valign, Unsupported
<1> QED
  BY <1>2, <1>3, <1>5, <1>6, Zenon

LEMMA AfterLoad ==
  ASSUME NEW i, NEW a, NEW b, Part(i, a), Part(i, b), Never(b)
  PROVE  /\ Good(i, <<a>> \o <<b>>) /\ Good(i, <<a>> \o <<b, VZeroUpper(i)>>)
         /\ Good(i, <<a>> \o (<<b>> \o VexUpper(i)))
         /\ Good(i, <<>> \o <<b>>) /\ Good(i, <<>> \o <<b, VZeroUpper(i)>>)
         /\ Good(i, <<>> \o (<<b>> \o VexUpper(i)))
<1>1. PICK z : z = VZeroUpper(i)
  BY Zenon
<1>2. Part(i, z) /\ Never(z)
  BY <1>1, Upper, Zenon
<1>3. Good(i, <<a, b>>) /\ Good(i, <<a, b, z>>) /\ Good(i, <<b>>) /\ Good(i, <<b, z>>)
  BY <1>2, Tuple1, Tuple2, Tuple3, Zenon DEF Part, Behind
<1>4. <<a>> \o <<b>> = <<a, b>> /\ <<a>> \o <<b, z>> = <<a, b, z>> /\ <<b>> \o <<z>> = <<b, z>>
  BY Join11, Join12, Zenon
<1>5. <<b>> \o <<>> = <<b>> /\ <<>> \o <<b>> = <<b>> /\ <<>> \o <<b, z>> = <<b, z>>
  BY Join10, Join01, Join02, Zenon
<1> QED
  BY <1>1, <1>3, <1>4, <1>5, Zenon DEF VexUpper

LEMMA LoadsGood ==
  ASSUME NEW i \in Instructions
  PROVE  Good(i, lift_vpacked_shift_avx(i)) /\ Good(i, lift_vpermil_imm(i))
<1>1. /\ "VLoadWide" \in Usual /\ "VLoad" \in Usual /\ "VShiftReg" \in Usual
      /\ "VMaskedShift" \in Usual
      /\ "VPackedShift256" \in Usual /\ "VPackedShift" \in Usual /\ "VShuffle32" \in Usual
      /\ "VShufps256" \in Usual /\ "VMaskedShift" \in PlainOps /\ "VPackedShift256" \in PlainOps
      /\ "VPackedShift" \in PlainOps /\ "VShuffle32" \in PlainOps
  BY DEF Usual, PlainOps
<1>2. Part(i, P(i, "VLoadWide")) /\ Part(i, LoadInto(i, 16))
  BY <1>1, Built, Zenon DEF LoadInto
<1>3. ASSUME NEW x
      PROVE  /\ Part(i, [P(i, "VMaskedShift") EXCEPT !.a = x])
             /\ Never([P(i, "VMaskedShift") EXCEPT !.a = x])
             /\ Part(i, [P(i, "VPackedShift256") EXCEPT !.a = x])
             /\ Never([P(i, "VPackedShift256") EXCEPT !.a = x])
             /\ Part(i, [P(i, "VPackedShift") EXCEPT !.a = x])
             /\ Never([P(i, "VPackedShift") EXCEPT !.a = x])
             /\ Part(i, [P(i, "VShuffle32") EXCEPT !.a = x])
             /\ Never([P(i, "VShuffle32") EXCEPT !.a = x])
  BY <1>1, BuiltWith, BuiltNever, Zenon
<1>4. Good(i, lift_vpacked_shift_avx(i))
  <2>1. PICK a : a = IF IsMem(i) THEN i.d ELSE i.b
    BY Zenon
  <2>2. PICK m : m = [P(i, "VMaskedShift") EXCEPT !.a = a]
    BY Zenon
  <2>3. PICK y : y = [P(i, "VPackedShift256") EXCEPT !.a = a]
    BY Zenon
  <2>4. PICK x : x = [P(i, "VPackedShift") EXCEPT !.a = a]
    BY Zenon
  <2>5. Part(i, m) /\ Never(m) /\ Part(i, y) /\ Never(y) /\ Part(i, x) /\ Never(x)
    BY <1>3, <2>2, <2>3, <2>4, Zenon
  <2>6. \/ lift_vpacked_shift_avx(i) \in {<<>>, <<P(i, "VShiftReg")>> \o VexUpper(i)}
        \/ lift_vpacked_shift_avx(i) = <<P(i, "VLoadWide")>> \o <<m>>
        \/ lift_vpacked_shift_avx(i) = <<P(i, "VLoadWide")>> \o <<y>>
        \/ lift_vpacked_shift_avx(i) = <<P(i, "VLoadWide")>> \o <<x, VZeroUpper(i)>>
        \/ lift_vpacked_shift_avx(i) \in {<<>> \o <<m>>, <<>> \o <<y>>, <<>> \o <<x, VZeroUpper(i)>>}
    BY <2>1, <2>2, <2>3, <2>4, Zenon DEF lift_vpacked_shift_avx, Unsupported
  <2>7. Good(i, <<P(i, "VShiftReg")>> \o VexUpper(i)) /\ Good(i, <<>>)
    BY <1>1, Built, Tails, Tuple0, Zenon
  <2>8. /\ Good(i, <<P(i, "VLoadWide")>> \o <<m>>) /\ Good(i, <<P(i, "VLoadWide")>> \o <<y>>)
        /\ Good(i, <<P(i, "VLoadWide")>> \o <<x, VZeroUpper(i)>>)
    BY <1>2, <2>5, AfterLoad, Zenon
  <2>9. Good(i, <<>> \o <<m>>) /\ Good(i, <<>> \o <<y>>) /\ Good(i, <<>> \o <<x, VZeroUpper(i)>>)
    BY <1>2, <2>5, AfterLoad, Zenon
  <2> QED
    BY <2>6, <2>7, <2>8, <2>9, Zenon
<1>5. Good(i, lift_vpermil_imm(i))
  <2>1. PICK a : a = IF IsMem(i) THEN i.d ELSE i.b
    BY Zenon
  <2>2. a # Mem
    BY <2>1 DEF IsMem, Instructions, Regs, Mem
  <2>3. PICK y : y = [P(i, "VShufps256") EXCEPT !.a = a, !.b = a]
    BY Zenon
  <2>4. PICK x : x = [P(i, "VShuffle32") EXCEPT !.a = a]
    BY Zenon
  <2>5. y.op = "VShufps256" /\ y.b = a
    BY <2>3 DEF P
  <2>6. Part(i, y) /\ Never(y) /\ Part(i, x) /\ Never(x)
    BY <1>1, <1>3, <2>2, <2>3, <2>4, <2>5, BuiltWith, Zenon DEF Never
  <2>7. lift_vpermil_imm(i) =
          (IF IsMem(i) THEN <<LoadInto(i, 16)>> ELSE <<>>) \o
            (IF i.v = 1 /\ i.w > 16 THEN <<y>> ELSE <<x>> \o VexUpper(i))
    BY <2>1, <2>3, <2>4 DEF lift_vpermil_imm
  <2> QED
    BY <1>2, <2>6, <2>7, AfterLoad, Zenon
<1> QED
  BY <1>4, <1>5

LEMMA CvtGood ==
  ASSUME NEW i \in Instructions
  PROVE  Good(i, lift_packed_cvt256(i)) /\ Good(i, lift_packed_cvt(i))
<1>1. /\ "VLoad" \in Usual /\ "VLoadWide" \in Usual /\ "VPackedCvtWide256" \in Usual
      /\ "VPackedCvt256" \in Usual /\ "VPackedCvt" \in Usual
      /\ "VPackedCvtWide256" \in PlainOps /\ "VPackedCvt" \in PlainOps
  BY DEF Usual, PlainOps
<1>2. ASSUME NEW x, NEW y
      PROVE  /\ Part(i, [[P(i, "VPackedCvtWide256") EXCEPT !.i = x] EXCEPT !.a = y])
             /\ Never([[P(i, "VPackedCvtWide256") EXCEPT !.i = x] EXCEPT !.a = y])
  BY <1>1, BuiltWith, BuiltNever, Zenon
<1>3. PICK l : l = IF i.v = 1 THEN P(i, "VLoad") ELSE [P(i, "VLoadWide") EXCEPT !.w = 32]
  BY Zenon
<1>4. Part(i, l)
  BY <1>1, <1>3, Built, BuiltWith, Zenon
<1>5. Good(i, lift_packed_cvt256(i))
  BY <1>2, <1>3, <1>4, Pairs, Tails, Zenon DEF lift_packed_cvt256
<1>6. PICK n : n = IF i.v = 1 THEN 8 ELSE 16
  BY Zenon
<1>7. /\ Good(i, <<Sized(P(i, "VLoad"), n), Legacy(i, "VPackedCvt")>> \o IfVex(i))
      /\ Good(i, <<Unary(i, "VPackedCvt")>> \o IfVex(i)) /\ Good(i, <<P(i, "VPackedCvt256")>>)
  BY <1>1, Built, BuiltNever, Pairs, Tails, Zenon
<1>8. Good(i, lift_packed_cvt(i))
  BY <1>5, <1>6, <1>7, Zenon DEF lift_packed_cvt
<1> QED
  BY <1>5, <1>8

LEMMA DotGood ==
  ASSUME NEW i \in Instructions, i.w # 64
  PROVE  Good(i, lift_vdpps(i))
<1>1. "VDpps" \in Usual /\ "VMov256" \in Usual /\ "VMov" \in Usual
  BY DEF Usual
<1>2. PICK z : z = VZeroUpper(i)
  BY Zenon
<1>3. PICK d : d = DotM(i)
  BY Zenon
<1>4. PICK m : m = P(i, IF i.w = 32 THEN "VMov256" ELSE "VMov")
  BY Zenon
<1>5. Part(i, z) /\ Never(z) /\ Part(i, d)
  BY <1>2, <1>3, Upper, BuiltOther, Zenon
<1>6. Part(i, m)
  BY <1>1, <1>4, Built, Zenon
<1>7. Copies(i, m)
  BY <1>4 DEF P, Copies
<1>8. Good(i, <<m, d, z>>) /\ Good(i, <<m, d>>)
  BY <1>5, <1>6, <1>7, Tuple2, Tuple3, Zenon DEF Behind
<1>9. <<m, d>> \o <<z>> = <<m, d, z>> /\ <<m, d>> \o <<>> = <<m, d>>
  BY Join21, Join20, Zenon
<1>10. Good(i, <<m, d>> \o VexUpper(i))
  BY <1>2, <1>8, <1>9, Zenon DEF VexUpper
<1>11. Good(i, <<d>> \o VexUpper(i)) /\ Good(i, <<P(i, "VDpps")>> \o VexUpper(i))
  BY <1>1, <1>5, Built, Tails, Zenon
<1> QED
  BY <1>3, <1>4, <1>10, <1>11, Zenon DEF lift_vdpps


(* Every lifter is good.                                                   *)

LEMMA ShiftsGood ==
  ASSUME NEW i \in Instructions
  PROVE  /\ Good(i, lift_vshift_var(i)) /\ Good(i, lift_vpacked_shift(i))
         /\ Good(i, lift_byteshift(i)) /\ Good(i, lift_byteshift_avx(i))
<1>1. /\ "VShiftVar" \in Usual /\ "VShiftReg" \in Usual /\ "VPackedShift" \in Usual
      /\ "VByteShift" \in Usual
  BY DEF Usual
<1>2. /\ Good(i, lift_vshift_var(i)) /\ Good(i, lift_vpacked_shift(i))
      /\ Good(i, lift_byteshift(i)) /\ Good(i, lift_byteshift_avx(i))
  BY <1>1, Built, Tails, Tuple0, Zenon DEF lift_vshift_var, IsMem, Unsupported,
     lift_vpacked_shift, lift_byteshift, lift_byteshift_avx
<1> QED
  BY <1>2, Zenon

LEMMA LogicPackedIntegersGood ==
  ASSUME NEW i \in Instructions
  PROVE  /\ Good(i, lift_vlogic(i)) /\ Good(i, lift_vlogic_vex(i)) /\ Good(i, lift_vlogic_avx(i))
         /\ Good(i, lift_evex_vlogic(i)) /\ Good(i, lift_vpacked_bin(i))
         /\ Good(i, lift_vpacked_bin_vex(i)) /\ Good(i, lift_vpacked_bin_avx(i))
         /\ Good(i, lift_evex_packed_bin_128(i))
<1>1. /\ "VLogicM" \in Usual /\ "VLogic" \in Usual /\ "VLogic256M" \in Usual
      /\ "VLogic256" \in Usual /\ "VMaskedLogic" \in Usual /\ "VLogicWide" \in Usual
      /\ "VPackedBin" \in Usual /\ "VMaskedPacked" \in Usual /\ "VPackedWide" \in Usual
      /\ "VPackedBin256" \in Usual
  BY DEF Usual
<1>2. /\ Good(i, lift_vlogic(i)) /\ Good(i, lift_vlogic_vex(i)) /\ Good(i, lift_vlogic_avx(i))
      /\ Good(i, lift_evex_vlogic(i))
  BY <1>1, Built, Tails, Tuple0, Zenon DEF lift_vlogic, IsMem, lift_vlogic_vex,
     lift_vlogic_avx, lift_evex_vlogic, evex_is_masked, Unsupported
<1>3. /\ Good(i, lift_vpacked_bin(i)) /\ Good(i, lift_vpacked_bin_vex(i))
      /\ Good(i, lift_vpacked_bin_avx(i)) /\ Good(i, lift_evex_packed_bin_128(i))
  BY <1>1, Built, Tails, Tuple0, Zenon DEF lift_vpacked_bin, lift_vpacked_bin_vex, IsMem,
     lift_vpacked_bin_avx, evex_is_masked, Unsupported, lift_evex_packed_bin_128
<1> QED
  BY <1>2, <1>3, Zenon

LEMMA BlendsRoundingStringsDotGood ==
  ASSUME NEW i \in Instructions
  PROVE  /\ Good(i, lift_blendv(i)) /\ Good(i, lift_vblendv(i)) /\ Good(i, lift_blendi(i))
         /\ Good(i, lift_vblendi(i)) /\ Good(i, lift_round(i)) /\ Good(i, lift_vround(i))
         /\ Good(i, lift_vround_scalar(i)) /\ Good(i, lift_vrndscale(i))
         /\ Good(i, lift_pcmpstr_idx(i)) /\ Good(i, lift_pcmpstr_mask(i))
         /\ Good(i, lift_insertps(i)) /\ Good(i, lift_vinsertps(i))
         /\ i.w # 64 => Good(i, lift_dpps(i))
         /\ Good(i, lift_dppd(i)) /\ Good(i, lift_vdp(i))
<1>1. /\ "VPBlendVM" \in Usual /\ "VPBlendV" \in Usual /\ "VPBlendVX" \in Usual
      /\ "VBlendI" \in Usual /\ "VPRoundM" \in Usual /\ "VPRound" \in Usual
      /\ "VPcmpStr" \in Usual /\ "VPcmpStrMask" \in Usual /\ "VInsertPs" \in Usual
      /\ "VInsertPs3" \in Usual /\ "VDpps" \in Usual /\ "VDppd" \in Usual /\ "VDp3" \in Usual
  BY DEF Usual
<1>2. /\ Good(i, lift_blendv(i)) /\ Good(i, lift_vblendv(i)) /\ Good(i, lift_blendi(i))
      /\ Good(i, lift_vblendi(i))
  BY <1>1, Built, Tails, Zenon DEF lift_blendv, IsMem, lift_vblendv, lift_blendi, lift_vblendi
<1>3. /\ Good(i, lift_round(i)) /\ Good(i, lift_vround(i)) /\ Good(i, lift_vround_scalar(i))
      /\ Good(i, lift_vrndscale(i))
  BY <1>1, Built, Tails, BuiltRound, Tuple0, Zenon
     DEF lift_round, IsMem, lift_vround, lift_vround_scalar, lift_vrndscale, evex_is_masked,
     Unsupported
<1>4. /\ Good(i, lift_pcmpstr_idx(i)) /\ Good(i, lift_pcmpstr_mask(i))
      /\ Good(i, lift_insertps(i)) /\ Good(i, lift_vinsertps(i))
  BY <1>1, Built, Tails, BuiltWith, Zenon DEF lift_pcmpstr_idx, lift_pcmpstr_mask,
     lift_insertps, lift_vinsertps
<1>5. /\ i.w # 64 => Good(i, lift_dpps(i))
      /\ Good(i, lift_dppd(i)) /\ Good(i, lift_vdp(i))
  BY <1>1, Built, Tails, BuiltOther, Zenon DEF lift_dpps, IsMem, lift_dppd, lift_vdp
<1> QED
  BY <1>2, <1>3, <1>4, <1>5, Zenon

LEMMA ExtensionLaneWiseUnaryPeGood ==
  ASSUME NEW i \in Instructions
  PROVE  /\ Good(i, lift_pmovx(i)) /\ Good(i, lift_vpmovx(i)) /\ Good(i, lift_vpabs(i))
         /\ Good(i, lift_vp_unary_lane(i)) /\ Good(i, lift_vp_blendm(i))
         /\ Good(i, lift_vshuf_lane(i)) /\ Good(i, lift_vp_multishift(i))
         /\ Good(i, lift_vpopcnt(i)) /\ Good(i, lift_vpermt2(i)) /\ Good(i, lift_vpermi2(i))
         /\ Good(i, lift_vpmov_narrow(i)) /\ Good(i, lift_vperm1(i)) /\ Good(i, lift_vpternlog(i))
<1>1. /\ "VPMovExtend" \in Usual /\ "VPMovExtendWide" \in Usual /\ "VPAbs" \in Usual
      /\ "VpUnaryLane" \in Usual /\ "VpBlendm" \in Usual /\ "VLoadWide" \in Usual
      /\ "VShuffLane" \in Usual /\ "VpMultishift" \in Usual /\ "VPopcnt" \in Usual
      /\ "VPermT2M" \in Usual /\ "VPermT2" \in Usual /\ "VPmovNarrow" \in Usual
      /\ "VPerm1M" \in Usual /\ "VPerm1" \in Usual /\ "VPTernlog" \in Usual
      /\ "VpBlendm" \in PlainOps /\ "VPmovNarrowMem" \in Alone
  BY DEF Usual, PlainOps, Alone, Selective, Unnoted
<1>2. /\ Good(i, lift_pmovx(i)) /\ Good(i, lift_vpmovx(i)) /\ Good(i, lift_vpabs(i))
      /\ Good(i, lift_vp_unary_lane(i))
  BY <1>1, Built, Tails, Tuple0, Zenon DEF lift_pmovx, lift_vpmovx, evex_is_masked, IsMem,
     Unsupported, lift_vpabs, lift_vp_unary_lane
<1>3. /\ Good(i, lift_vp_blendm(i)) /\ Good(i, lift_vshuf_lane(i))
      /\ Good(i, lift_vp_multishift(i)) /\ Good(i, lift_vpopcnt(i))
  BY <1>1, Built, Tails, BuiltWith, Tuple0, Pairs, BuiltNever, Zenon
     DEF lift_vp_blendm, IsMem, Unsupported, lift_vshuf_lane, lift_vp_multishift, lift_vpopcnt,
     evex_is_masked
<1>4. /\ Good(i, lift_vpermt2(i)) /\ Good(i, lift_vpermi2(i)) /\ Good(i, lift_vpmov_narrow(i))
      /\ Good(i, lift_vperm1(i))
  BY <1>1, Built, Tails, BuiltWith, Tuple0, BuiltOther, Tuple1, Zenon
     DEF lift_vpermt2, lift_vperm2, IsMem, lift_vpermi2, lift_vpmov_narrow, evex_is_masked,
     Unsupported, lift_vperm1
<1>5. Good(i, lift_vpternlog(i))
  BY <1>1, Built, Tails, Tuple0, Zenon DEF lift_vpternlog, evex_is_masked, Unsupported
<1> QED
  BY <1>2, <1>3, <1>4, <1>5, Zenon

LEMMA OpmasksGood ==
  ASSUME NEW i \in Instructions
  PROVE  /\ Good(i, lift_kunpck(i)) /\ Good(i, lift_kbinop(i)) /\ Good(i, lift_knot(i))
         /\ Good(i, lift_kshift(i)) /\ Good(i, lift_kmov(i)) /\ Good(i, lift_kortest(i))
         /\ Good(i, lift_vptest(i)) /\ Good(i, lift_vpcmp(i))
         /\ Good(i, lift_vpcmp_fixed_or_packed(i))
<1>1. /\ "VKUnpack" \in Usual /\ "VKBinOp" \in Usual /\ "VKNot" \in Usual /\ "VKShift" \in Usual
      /\ "VKMovKK" \in Usual /\ "VKFromGpr" \in Usual /\ "VKToGpr" \in Usual
      /\ "VKOrTest" \in Usual /\ "VPTestToMask" \in Usual /\ "VPCmpToMask" \in Usual
      /\ "VMaskedPacked" \in Usual /\ "VPackedWide" \in Usual /\ "VPackedBin256" \in Usual
      /\ "VPackedBin" \in Usual /\ "VKFromGpr" \in PlainOps /\ "VKToGpr" \in TempOps
  BY DEF Usual, PlainOps, TempOps
<1>2. /\ Good(i, lift_kunpck(i)) /\ Good(i, lift_kbinop(i)) /\ Good(i, lift_knot(i))
      /\ Good(i, lift_kshift(i))
  BY <1>1, Built, Tails, Zenon DEF lift_kunpck, lift_kbinop, lift_knot, lift_kshift
<1>3. /\ Good(i, lift_kmov(i)) /\ Good(i, lift_kortest(i)) /\ Good(i, lift_vptest(i))
      /\ Good(i, lift_vpcmp(i))
  BY <1>1, Built, Tails, Reading, BuiltNever, Writing, BuiltTemp, Zenon
     DEF lift_kmov, lift_kortest, lift_vptest, lift_vpcmp
<1>4. Good(i, lift_vpcmp_fixed_or_packed(i))
  BY <1>1, Built, Tails, Tuple0, Zenon DEF lift_vpcmp_fixed_or_packed, lift_vpacked_bin_avx,
     evex_is_masked, IsMem, lift_vpacked_bin_vex, Unsupported
<1> QED
  BY <1>2, <1>3, <1>4, Zenon

LEMMA ShufflesPacksUnpacksGood ==
  ASSUME NEW i \in Instructions
  PROVE  /\ Good(i, lift_pshufd(i)) /\ Good(i, lift_vpshufd(i)) /\ Good(i, lift_vpack(i))
         /\ Good(i, lift_vpblendw(i)) /\ Good(i, lift_vpblendd(i)) /\ Good(i, lift_movdup(i))
         /\ Good(i, lift_vmovdup(i)) /\ Good(i, lift_shufps(i)) /\ Good(i, lift_vshufps(i))
         /\ Good(i, lift_vpermil_var(i)) /\ Good(i, lift_pshufw(i)) /\ Good(i, lift_vunpack(i))
         /\ Good(i, lift_vunpack_avx(i))
<1>1. /\ "VLoad" \in Usual /\ "VShuffle32" \in Usual /\ "VShuffle32Wide" \in Usual
      /\ "VPackWideM" \in Usual /\ "VPackWide" \in Usual /\ "VBlendW" \in Usual
      /\ "VLoadWide" \in Usual /\ "VBlendD" \in Usual /\ "VShufps" \in Usual
      /\ "VShufps256" \in Usual /\ "VPermilVar" \in Usual /\ "VShuffle16" \in Usual
      /\ "VUnpackLow" \in Usual /\ "VUnpack256" \in Usual /\ "VShuffle32" \in PlainOps
      /\ "VBlendW" \in PlainOps
  BY DEF Usual, PlainOps
<1>2. /\ Good(i, lift_pshufd(i)) /\ Good(i, lift_vpshufd(i)) /\ Good(i, lift_vpack(i))
      /\ Good(i, lift_vpblendw(i))
  BY <1>1, Built, Tails, BuiltWith, Pairs, BuiltNever, Tuple0, Zenon
     DEF lift_pshufd, IsMem, lift_vpshufd, evex_is_masked, Unsupported, lift_vpack,
     lift_vpblendw, LoadInto
<1>3. /\ Good(i, lift_vpblendd(i)) /\ Good(i, lift_movdup(i)) /\ Good(i, lift_vmovdup(i))
      /\ Good(i, lift_shufps(i))
  BY <1>1, Built, Tails, Tuple0, Pairs, BuiltNever, Zenon
     DEF lift_vpblendd, IsMem, Unsupported, lift_movdup, LoadInto, lift_vmovdup, lift_shufps
<1>4. /\ Good(i, lift_vshufps(i)) /\ Good(i, lift_vpermil_var(i)) /\ Good(i, lift_pshufw(i))
      /\ Good(i, lift_vunpack(i))
  BY <1>1, Built, Tails, Tuple0, Zenon DEF lift_vshufps, lift_vpermil_var, IsMem, Unsupported,
     lift_pshufw, lift_vunpack
<1>5. Good(i, lift_vunpack_avx(i))
  BY <1>1, Built, Tails, Zenon DEF lift_vunpack_avx
<1> QED
  BY <1>2, <1>3, <1>4, <1>5, Zenon

LEMMA CryptographyPacksMultiplGood ==
  ASSUME NEW i \in Instructions
  PROVE  /\ Good(i, lift_aes(i)) /\ Good(i, lift_vaes(i)) /\ Good(i, lift_aes_imc(i))
         /\ Good(i, lift_aes_keygen(i)) /\ Good(i, lift_pclmul(i)) /\ Good(i, lift_vpclmul(i))
         /\ Good(i, lift_sha(i)) /\ Good(i, lift_gfni(i)) /\ Good(i, lift_vgfni_wide(i))
         /\ Good(i, lift_vgfni(i))
         /\ i.w # 64 => Good(i, lift_psign(i))
         /\ i.w # 64 => Good(i, lift_vpsign(i))
         /\ Good(i, lift_packuswb(i)) /\ Good(i, lift_pack_signed(i)) /\ Good(i, lift_pmaddwd(i))
         /\ Good(i, lift_pmaddubsw(i)) /\ Good(i, lift_vpmadd(i))
<1>1. /\ "VAes" \in Usual /\ "VAesImc" \in Usual /\ "VAesKeygen" \in Usual /\ "VPclmul" \in Usual
      /\ "VSha" \in Usual /\ "VGfni" \in Usual /\ "VGf2p8M" \in Usual /\ "VGf2p8" \in Usual
      /\ "VPsign" \in Usual /\ "VPackUsWB" \in Usual /\ "VPackWideM" \in Usual
      /\ "VPackWide" \in Usual /\ "VPMAddWd" \in Usual /\ "VPMadd" \in Usual
      /\ "VPMaddM" \in Usual
  BY DEF Usual
<1>2. /\ Good(i, lift_aes(i)) /\ Good(i, lift_vaes(i)) /\ Good(i, lift_aes_imc(i))
      /\ Good(i, lift_aes_keygen(i))
  BY <1>1, Built, Tails, Zenon DEF lift_aes, lift_vaes, lift_aes_imc, lift_aes_keygen
<1>3. /\ Good(i, lift_pclmul(i)) /\ Good(i, lift_vpclmul(i)) /\ Good(i, lift_sha(i))
      /\ Good(i, lift_gfni(i))
  BY <1>1, Built, Tails, BuiltWith, Zenon DEF lift_pclmul, lift_vpclmul, lift_sha, lift_gfni
<1>4. /\ Good(i, lift_vgfni_wide(i)) /\ Good(i, lift_vgfni(i))
      /\ i.w # 64 => Good(i, lift_psign(i))
      /\ i.w # 64 => Good(i, lift_vpsign(i))
  BY <1>1, Built, Tails, BuiltOther, Zenon
     DEF lift_vgfni_wide, IsMem, lift_vgfni, evex_is_masked, lift_psign, lift_vpsign
<1>5. /\ Good(i, lift_packuswb(i)) /\ Good(i, lift_pack_signed(i)) /\ Good(i, lift_pmaddwd(i))
      /\ Good(i, lift_pmaddubsw(i))
  BY <1>1, Built, Tails, Tuple0, Zenon DEF lift_packuswb, IsMem, Unsupported, lift_pack_signed,
     lift_pmaddwd, lift_pmaddubsw
<1>6. Good(i, lift_vpmadd(i))
  BY <1>1, Built, Tails, Tuple0, Zenon DEF lift_vpmadd, evex_is_masked, IsMem, Unsupported
<1> QED
  BY <1>2, <1>3, <1>4, <1>5, <1>6, Zenon

LEMMA ElementsGeneralOperandsGood ==
  ASSUME NEW i \in Instructions
  PROVE  /\ Good(i, lift_pinsrw(i)) /\ Good(i, lift_pinsr(i)) /\ Good(i, lift_pextrw(i))
         /\ Good(i, lift_pextr(i)) /\ Good(i, lift_move_half(i))
         /\ Good(i, lift_vmov_packed_half(i)) /\ Good(i, lift_half_mem(i))
         /\ Good(i, lift_vhalf_mem(i))
<1>1. /\ "VInsertW" \in Usual /\ "VInsertLane" \in Usual /\ "VExtractW" \in Usual
      /\ "VExtractLane" \in Usual /\ "VMoveHalf" \in Usual /\ "VUnpackLow" \in Usual
      /\ "VStoreHalf" \in Usual /\ "VLoadHalf" \in Usual /\ "VInsertW" \in PlainOps
      /\ "VInsertLane" \in PlainOps /\ "VExtractW" \in TempOps /\ "VExtractLane" \in TempOps
  BY DEF Usual, PlainOps, TempOps
<1>2. /\ Good(i, lift_pinsrw(i)) /\ Good(i, lift_pinsr(i)) /\ Good(i, lift_pextrw(i))
      /\ Good(i, lift_pextr(i))
  BY <1>1, Built, Tails, Reading, BuiltNever, Writing, BuiltTemp, Zenon
     DEF lift_pinsrw, lift_pinsr, lift_pextrw, lift_pextr
<1>3. /\ Good(i, lift_move_half(i)) /\ Good(i, lift_vmov_packed_half(i))
      /\ Good(i, lift_half_mem(i)) /\ Good(i, lift_vhalf_mem(i))
  BY <1>1, Built, Tails, Tuple0, BuiltWith, Zenon
     DEF lift_move_half, IsMem, Unsupported, lift_vmov_packed_half, lift_half_mem,
     lift_vhalf_mem
<1> QED
  BY <1>2, <1>3, Zenon

LEMMA FloatingPointGood ==
  ASSUME NEW i \in Instructions
  PROVE  /\ Good(i, lift_scalar_fmove(i)) /\ Good(i, lift_vscalar_fmove(i))
         /\ Good(i, lift_float_bin(i)) /\ Good(i, lift_vfloat_bin(i)) /\ Good(i, lift_hfloat(i))
         /\ Good(i, lift_vhfloat(i)) /\ Good(i, lift_hint(i)) /\ Good(i, lift_vhint(i))
         /\ Good(i, lift_float_cmp(i)) /\ Good(i, lift_float_cmp_mask(i))
         /\ Good(i, lift_vfloat_cmp_mask(i)) /\ Good(i, lift_cvt_from_int(i))
         /\ Good(i, lift_vcvt_from_int(i)) /\ Good(i, lift_cvt_to_int_signed(i))
         /\ Good(i, lift_cvt_to_int(i)) /\ Good(i, lift_float_unary(i))
         /\ Good(i, lift_vfloat_unary_scalar(i)) /\ Good(i, lift_vfloat_unary_packed(i))
         /\ Good(i, lift_cvt_float(i)) /\ Good(i, lift_vcvt_scalar(i)) /\ Good(i, lift_vcvtph2ps(i))
         /\ Good(i, lift_vcvtps2ph(i)) /\ Good(i, lift_phminposuw(i)) /\ Good(i, lift_mpsadbw(i))
<1>1. /\ "VLoad" \in Usual /\ "VFloatMov" \in Usual /\ "VFloatBin" \in Usual
      /\ "VFloatBin256" \in Usual /\ "VHFloat" \in Usual /\ "VHInt" \in Usual
      /\ "VFloatCmp" \in Usual /\ "VFloatCmpMask" \in Usual /\ "VFloatCmpMask256" \in Usual
      /\ "VCvtFromInt" \in Usual /\ "VCvtToInt" \in Usual /\ "VFloatUnary" \in Usual
      /\ "VFloatUnary256" \in Usual /\ "VCvtFloat" \in Usual /\ "VCvtPh2Ps" \in Usual
      /\ "VCvtPs2Ph" \in Usual /\ "VPhMinPosUw" \in Usual /\ "VMpsadbw" \in Usual
      /\ "VLoadWide" \in Usual /\ "VFloatCmp" \in PlainOps /\ "VCvtFromInt" \in PlainOps
      /\ "VCvtToInt" \in PlainOps /\ "VCvtFloat" \in PlainOps /\ "VCvtPh2Ps" \in PlainOps
      /\ "VPhMinPosUw" \in PlainOps /\ "VMpsadbw" \in PlainOps /\ "VCvtToInt" \in TempOps
  BY DEF Usual, PlainOps, TempOps
<1>2. /\ Good(i, lift_scalar_fmove(i)) /\ Good(i, lift_vscalar_fmove(i))
      /\ Good(i, lift_float_bin(i)) /\ Good(i, lift_vfloat_bin(i))
  BY <1>1, Built, Tails, Pairs, BuiltNever, BuiltOther, Tuple0, Zenon
     DEF lift_scalar_fmove, IsMem, lift_vscalar_fmove, evex_is_masked, Unsupported,
     lift_float_bin, lift_vfloat_bin
<1>3. /\ Good(i, lift_hfloat(i)) /\ Good(i, lift_vhfloat(i)) /\ Good(i, lift_hint(i))
      /\ Good(i, lift_vhint(i))
  BY <1>1, Built, Tails, Zenon DEF lift_hfloat, lift_vhfloat, lift_hint, lift_vhint
<1>4. /\ Good(i, lift_float_cmp(i)) /\ Good(i, lift_float_cmp_mask(i))
      /\ Good(i, lift_vfloat_cmp_mask(i)) /\ Good(i, lift_cvt_from_int(i))
  BY <1>1, Built, Tails, Reading, BuiltNever, Zenon DEF lift_float_cmp, lift_float_cmp_mask,
     lift_vfloat_cmp_mask, IsMem, lift_cvt_from_int
<1>5. /\ Good(i, lift_vcvt_from_int(i)) /\ Good(i, lift_cvt_to_int_signed(i))
      /\ Good(i, lift_cvt_to_int(i)) /\ Good(i, lift_float_unary(i))
  BY <1>1, Built, Tails, Reading, BuiltNever, Writing, BuiltTemp, Tuple0, Zenon
     DEF lift_vcvt_from_int, lift_cvt_to_int_signed, lift_cvt_to_int, lift_float_unary, IsMem,
     Unsupported
<1>6. /\ Good(i, lift_vfloat_unary_scalar(i)) /\ Good(i, lift_vfloat_unary_packed(i))
      /\ Good(i, lift_cvt_float(i)) /\ Good(i, lift_vcvt_scalar(i))
  BY <1>1, Built, Tails, Reading, BuiltNever, Zenon
     DEF lift_vfloat_unary_scalar, lift_vfloat_unary_packed, lift_cvt_float, lift_vcvt_scalar
<1>7. /\ Good(i, lift_vcvtph2ps(i)) /\ Good(i, lift_vcvtps2ph(i)) /\ Good(i, lift_phminposuw(i))
      /\ Good(i, lift_mpsadbw(i))
  BY <1>1, Built, Tails, Pairs, BuiltNever, Tuple0, BuiltWith, Zenon
     DEF lift_vcvtph2ps, IsMem, lift_vcvtps2ph, Unsupported, lift_phminposuw, lift_mpsadbw,
     LoadInto
<1> QED
  BY <1>2, <1>3, <1>4, <1>5, <1>6, <1>7, Zenon

LEMMA InstructionsLiftInsnTranGood ==
  ASSUME NEW i \in Instructions
  PROVE  /\ Good(i, Pshufb(i)) /\ Good(i, Palignr(i)) /\ Good(i, Pblendw(i)) /\ Good(i, Pmovmskb(i))
         /\ Good(i, Movmskps(i)) /\ Good(i, Vpmovmskb(i)) /\ Good(i, Vpshufb(i))
         /\ Good(i, Vzeroupper(i)) /\ Good(i, Vinserti128(i)) /\ Good(i, Vextracti128(i))
         /\ Good(i, Vpermq(i)) /\ Good(i, Vpermd(i)) /\ Good(i, Vperm2i128(i)) /\ Good(i, Ptest(i))
         /\ Good(i, Vtestps(i)) /\ Good(i, Vpalignr(i))
<1>1. /\ "VPshufb" \in Usual /\ "VAlignr" \in Usual /\ "VBlendW" \in Usual
      /\ "VMoveMaskB" \in Usual /\ "WriteReg" \in Usual /\ "VMoveMaskFp" \in Usual
      /\ "VMoveMaskB256" \in Usual /\ "VPshufbWide" \in Usual /\ "VPshufb256" \in Usual
      /\ "VZeroUpperAll" \in Usual /\ "VInsert128" \in Usual /\ "VExtract128" \in Usual
      /\ "VExtractLaneWide" \in Usual /\ "VLoadWide" \in Usual /\ "VPermq" \in Usual
      /\ "VPermd" \in Usual /\ "VPerm1M" \in Usual /\ "VPerm1" \in Usual
      /\ "VPerm2i128" \in Usual /\ "VPtest" \in Usual /\ "VTestFp" \in Usual
      /\ "VPalignr256" \in Usual /\ "VBlendW" \in PlainOps /\ "WriteReg" \in PlainOps
      /\ "VPermq" \in PlainOps /\ "VMoveMaskB" \in TempOps /\ "VMoveMaskFp" \in TempOps
      /\ "VMoveMaskB256" \in TempOps
  BY DEF Usual, PlainOps, TempOps
<1>2. /\ Good(i, Pshufb(i)) /\ Good(i, Palignr(i)) /\ Good(i, Pblendw(i)) /\ Good(i, Pmovmskb(i))
  BY <1>1, Built, Tails, BuiltWith, Tuple0, Writing, BuiltTemp, Zenon
     DEF Pshufb, Palignr, Pblendw, IsMem, Unsupported, Pmovmskb
<1>3. /\ Good(i, Movmskps(i)) /\ Good(i, Vpmovmskb(i)) /\ Good(i, Vpshufb(i))
      /\ Good(i, Vzeroupper(i))
  BY <1>1, Built, Tails, Writing, BuiltTemp, Tuple0, BuiltWith, Zenon
     DEF Movmskps, Vpmovmskb, Vpshufb, evex_is_masked, IsMem, Unsupported, Vzeroupper
<1>4. /\ Good(i, Vinserti128(i)) /\ Good(i, Vextracti128(i)) /\ Good(i, Vpermq(i))
      /\ Good(i, Vpermd(i))
  BY <1>1, Built, Tails, BuiltWith, Tuple0, BuiltOther, Pairs, BuiltNever, Zenon
     DEF Vinserti128, Vextracti128, lift_vextract_wide, evex_is_masked, Unsupported, Vpermq,
     IsMem, Vpermd, lift_vperm1
<1>5. /\ Good(i, Vperm2i128(i)) /\ Good(i, Ptest(i)) /\ Good(i, Vtestps(i))
      /\ Good(i, Vpalignr(i))
  BY <1>1, Built, Tails, Tuple0, Zenon DEF Vperm2i128, IsMem, Unsupported, Ptest, Vtestps,
     Vpalignr
<1> QED
  BY <1>2, <1>3, <1>4, <1>5, Zenon

(* ------------------------------ lift_insn ------------------------------- *)

LEMMA VIn ==
  ASSUME NEW i \in Instructions, NEW v \in Nat
  PROVE  V(i, v) \in Instructions
BY DEF V, Instructions

LEMMA VGood ==
  ASSUME NEW i \in Instructions, NEW v, NEW q, Good(V(i, v), q)
  PROVE  Good(i, q)
<1>1. V(i, v).d = i.d /\ V(i, v).act = i.act /\ V(i, v).w = i.w /\ V(i, v).a = i.a
  BY DEF V, Instructions
<1>2. ASSUME NEW o, OpOk(V(i, v), o) PROVE OpOk(i, o)
  BY <1>1, <1>2, Zenon DEF OpOk
<1> QED
  BY <1>1, <1>2, Zenon DEF Good, Copies

LEMMA lift_sse_movesGood ==
  ASSUME NEW i \in Instructions, i.l \in {"Dpps", "Vdpps", "Psignb", "Vpsignb"} => i.w # 64
  PROVE  Good(i, lift_sse_moves(i))
<1>1. /\ V(i, 0) \in Instructions /\ V(i, 1) \in Instructions
  BY VIn
<1>2. /\ Good(i, lift_vmov_packed_half(V(i, 0))) /\ Good(i, lift_vmov_packed_half(V(i, 1)))
      /\ Good(i, lift_movdup(V(i, 0))) /\ Good(i, lift_movdup(V(i, 1)))
      /\ Good(i, lift_vmovdup(V(i, 0))) /\ Good(i, lift_vmovdup(V(i, 1)))
  BY <1>1, VGood, ElementsGeneralOperandsGood, ShufflesPacksUnpacksGood, Zenon
<1>3. /\ Good(i, lift_vpermil_imm(V(i, 0))) /\ Good(i, lift_vpermil_imm(V(i, 1)))
  BY <1>1, VGood, LoadsGood, Zenon
<1>4. /\ Good(i, lift_vmov(i, 16)) /\ Good(i, lift_vmov(i, 8)) /\ Good(i, lift_move_half(i))
      /\ Good(i, lift_half_mem(i)) /\ Good(i, lift_vhalf_mem(i)) /\ Good(i, lift_vlogic(i))
      /\ Good(i, lift_vpacked_bin(i)) /\ Good(i, lift_vpacked_shift(i))
      /\ Good(i, lift_byteshift(i)) /\ Good(i, lift_byteshift_avx(i)) /\ Good(i, lift_pshufd(i))
      /\ Good(i, lift_vpshufd(i))
  BY MovesGood, ElementsGeneralOperandsGood, LogicPackedIntegersGood, ShiftsGood,
     ShufflesPacksUnpacksGood, Zenon
<1>5. /\ Good(i, lift_pshufw(i)) /\ Good(i, lift_shufps(i)) /\ Good(i, lift_vshufps(i))
      /\ Good(i, lift_vpermil_var(i)) /\ Good(i, Pshufb(i)) /\ Good(i, Palignr(i))
  BY ShufflesPacksUnpacksGood, InstructionsLiftInsnTranGood, Zenon
<1> QED
  BY <1>2, <1>3, <1>4, <1>5, Tuple0, Zenon DEF lift_sse_moves, Unsupported

LEMMA lift_crypto_packGood ==
  ASSUME NEW i \in Instructions, i.l \in {"Dpps", "Vdpps", "Psignb", "Vpsignb"} => i.w # 64
  PROVE  Good(i, lift_crypto_pack(i))
<1>1. /\ Good(i, lift_aes(i)) /\ Good(i, lift_vaes(i)) /\ Good(i, lift_aes_imc(i))
      /\ Good(i, lift_aes_keygen(i)) /\ Good(i, lift_pclmul(i)) /\ Good(i, lift_vpclmul(i))
      /\ Good(i, lift_sha(i)) /\ Good(i, lift_gfni(i)) /\ Good(i, lift_vgfni(i))
      /\ Good(i, lift_vunpack(i)) /\ Good(i, lift_vunpack_avx(i)) /\ Good(i, lift_packuswb(i))
  BY CryptographyPacksMultiplGood, ShufflesPacksUnpacksGood, Zenon
<1>2. /\ Good(i, lift_pack_signed(i)) /\ Good(i, lift_pmaddwd(i)) /\ Good(i, lift_vpack(i))
      /\ Good(i, lift_pinsrw(i)) /\ Good(i, lift_pextrw(i)) /\ Good(i, lift_pextr(i))
      /\ Good(i, lift_pinsr(i)) /\ Good(i, Pmovmskb(i)) /\ Good(i, Movmskps(i))
  BY CryptographyPacksMultiplGood, ShufflesPacksUnpacksGood, ElementsGeneralOperandsGood,
     InstructionsLiftInsnTranGood, Zenon
<1>3. i.w # 64 => Good(i, lift_psign(i)) /\ Good(i, lift_vpsign(i))
  BY CryptographyPacksMultiplGood, Zenon
<1>4. /\ i.l = "Psignb" => i.l \in {"Dpps", "Vdpps", "Psignb", "Vpsignb"}
      /\ i.l = "Vpsignb" => i.l \in {"Dpps", "Vdpps", "Psignb", "Vpsignb"}
  OBVIOUS
<1> QED
  BY <1>1, <1>2, <1>3, <1>4, lift_sse_movesGood, Zenon DEF lift_crypto_pack

LEMMA lift_avx_movesGood ==
  ASSUME NEW i \in Instructions, i.l \in {"Dpps", "Vdpps", "Psignb", "Vpsignb"} => i.w # 64
  PROVE  Good(i, lift_avx_moves(i))
<1>1. /\ V(i, 2) \in Instructions /\ V(i, 4) \in Instructions /\ V(i, 8) \in Instructions
  BY VIn
<1>2. /\ Good(i, lift_pmovx(V(i, 8))) /\ Good(i, lift_pmovx(V(i, 4)))
      /\ Good(i, lift_pmovx(V(i, 2))) /\ Good(i, lift_vpmovx(V(i, 8)))
  BY <1>1, VGood, ExtensionLaneWiseUnaryPeGood, Zenon
<1>3. /\ Good(i, lift_vmov_avx(i)) /\ Good(i, lift_vmov_vex(i, 8)) /\ Good(i, lift_vlogic_avx(i))
      /\ Good(i, lift_evex_vlogic(i)) /\ Good(i, lift_vpternlog(i)) /\ Good(i, lift_vpopcnt(i))
      /\ Good(i, lift_kunpck(i)) /\ Good(i, lift_kbinop(i)) /\ Good(i, lift_knot(i))
      /\ Good(i, lift_kshift(i)) /\ Good(i, lift_vpermt2(i)) /\ Good(i, lift_vpermi2(i))
  BY MovesGood, LogicPackedIntegersGood, ExtensionLaneWiseUnaryPeGood, OpmasksGood, LanesGood,
     Zenon
<1>4. /\ Good(i, lift_vpmov_narrow(i)) /\ Good(i, lift_blendv(i)) /\ Good(i, lift_vblendv(i))
      /\ Good(i, lift_vmaskmov(i))
  BY ExtensionLaneWiseUnaryPeGood, BlendsRoundingStringsDotGood, MovesGood, Zenon
<1> QED
  BY <1>2, <1>3, <1>4, lift_crypto_packGood, Zenon DEF lift_avx_moves

LEMMA lift_blend_roundGood ==
  ASSUME NEW i \in Instructions, i.l \in {"Dpps", "Vdpps", "Psignb", "Vpsignb"} => i.w # 64
  PROVE  Good(i, lift_blend_round(i))
<1>1. /\ V(i, 0) \in Instructions /\ V(i, 1) \in Instructions
  BY VIn
<1>2. /\ Good(i, lift_round(V(i, 0))) /\ Good(i, lift_round(V(i, 1)))
      /\ Good(i, lift_pcmpstr_idx(V(i, 0))) /\ Good(i, lift_pcmpstr_idx(V(i, 1)))
      /\ Good(i, lift_pcmpstr_mask(V(i, 0)))
  BY <1>1, VGood, BlendsRoundingStringsDotGood, Zenon
<1>3. /\ Good(i, lift_blendi(i)) /\ Good(i, lift_vblendi(i)) /\ Good(i, Pblendw(i))
      /\ Good(i, lift_vpblendw(i)) /\ Good(i, lift_vpblendd(i)) /\ Good(i, lift_vround(i))
      /\ Good(i, lift_vround_scalar(i)) /\ Good(i, lift_vrndscale(i))
      /\ Good(i, lift_insertps(i)) /\ Good(i, lift_vinsertps(i)) /\ Good(i, lift_dppd(i))
      /\ Good(i, lift_vdp(i))
  BY BlendsRoundingStringsDotGood, InstructionsLiftInsnTranGood, ShufflesPacksUnpacksGood,
     Zenon
<1>4. /\ Good(i, lift_phminposuw(i)) /\ Good(i, lift_mpsadbw(i))
      /\ Good(i, lift_vpacked_bin_avx(i)) /\ Good(i, lift_vpcmp_fixed_or_packed(i))
      /\ Good(i, lift_vpmadd(i)) /\ Good(i, lift_pmaddubsw(i))
  BY FloatingPointGood, LogicPackedIntegersGood, OpmasksGood, CryptographyPacksMultiplGood,
     Zenon
<1>5. i.w # 64 => Good(i, lift_dpps(i)) /\ Good(i, lift_vdpps(i))
  BY BlendsRoundingStringsDotGood, DotGood, Zenon
<1>6. /\ i.l = "Dpps" => i.l \in {"Dpps", "Vdpps", "Psignb", "Vpsignb"}
      /\ i.l = "Vdpps" => i.l \in {"Dpps", "Vdpps", "Psignb", "Vpsignb"}
  OBVIOUS
<1> QED
  BY <1>2, <1>3, <1>4, <1>5, <1>6, lift_avx_movesGood, Zenon DEF lift_blend_round

LEMMA lift_evexGood ==
  ASSUME NEW i \in Instructions, i.l \in {"Dpps", "Vdpps", "Psignb", "Vpsignb"} => i.w # 64
  PROVE  Good(i, lift_evex(i))
<1>1. /\ V(i, 0) \in Instructions /\ V(i, 1) \in Instructions
  BY VIn
<1>2. /\ Good(i, Vzeroupper(V(i, 0))) /\ Good(i, Vzeroupper(V(i, 1)))
      /\ Good(i, lift_broadcast_lane(V(i, 0))) /\ Good(i, lift_broadcast_lane(V(i, 1)))
  BY <1>1, VGood, InstructionsLiftInsnTranGood, BroadcastsGood, Zenon
<1>3. /\ Good(i, lift_vpabs(i)) /\ Good(i, lift_vp_unary_lane(i)) /\ Good(i, lift_vp_blendm(i))
      /\ Good(i, lift_vshuf_lane(i)) /\ Good(i, lift_vp_multishift(i))
      /\ Good(i, lift_evex_packed_bin_128(i)) /\ Good(i, lift_vptest(i))
      /\ Good(i, lift_vpcmp(i)) /\ Good(i, lift_kortest(i)) /\ Good(i, lift_kmov(i))
      /\ Good(i, Vpmovmskb(i)) /\ Good(i, Vpshufb(i))
  BY ExtensionLaneWiseUnaryPeGood, LogicPackedIntegersGood, OpmasksGood,
     InstructionsLiftInsnTranGood, Zenon
<1>4. Good(i, lift_broadcast(i))
  BY BroadcastsGood, Zenon
<1> QED
  BY <1>2, <1>3, <1>4, lift_blend_roundGood, Zenon DEF lift_evex

LEMMA lift_lanesGood ==
  ASSUME NEW i \in Instructions, i.l \in {"Dpps", "Vdpps", "Psignb", "Vpsignb"} => i.w # 64
  PROVE  Good(i, lift_lanes(i))
<1>1. /\ Good(i, Vinserti128(i)) /\ Good(i, Vextracti128(i)) /\ Good(i, lift_vinsert_wide(i, 1))
      /\ Good(i, lift_vinsert_wide(i, 2)) /\ Good(i, lift_vextract_wide(i, 1))
      /\ Good(i, lift_vextract_wide(i, 2)) /\ Good(i, lift_valign(i))
      /\ Good(i, lift_vpacked_shift_avx(i)) /\ Good(i, lift_vshift_var(i)) /\ Good(i, Vpermq(i))
      /\ Good(i, lift_vperm1(i)) /\ Good(i, Vpermd(i))
  BY InstructionsLiftInsnTranGood, LanesGood, LoadsGood, ShiftsGood,
     ExtensionLaneWiseUnaryPeGood, Zenon
<1>2. /\ Good(i, Vperm2i128(i)) /\ Good(i, Ptest(i)) /\ Good(i, Vtestps(i))
      /\ Good(i, Vpalignr(i))
  BY InstructionsLiftInsnTranGood, Zenon
<1> QED
  BY <1>1, <1>2, lift_evexGood, Zenon DEF lift_lanes

LEMMA lift_float_movesGood ==
  ASSUME NEW i \in Instructions, i.l \in {"Dpps", "Vdpps", "Psignb", "Vpsignb"} => i.w # 64
  PROVE  Good(i, lift_float_moves(i))
<1>1. /\ V(i, 0) \in Instructions /\ V(i, 1) \in Instructions /\ V(i, 2) \in Instructions
  BY VIn
<1>2. /\ Good(i, lift_float_bin(V(i, 1))) /\ Good(i, lift_float_bin(V(i, 0)))
      /\ Good(i, lift_float_cmp_mask(V(i, 1))) /\ Good(i, lift_float_cmp_mask(V(i, 0)))
      /\ Good(i, lift_vfloat_cmp_mask(V(i, 1))) /\ Good(i, lift_vfloat_cmp_mask(V(i, 0)))
  BY <1>1, VGood, FloatingPointGood, Zenon
<1>3. /\ Good(i, lift_packed_cvt(V(i, 0))) /\ Good(i, lift_packed_cvt(V(i, 1)))
      /\ Good(i, lift_packed_cvt(V(i, 2)))
  BY <1>1, VGood, CvtGood, Zenon
<1>4. /\ Good(i, lift_scalar_fmove(i)) /\ Good(i, lift_vscalar_fmove(i))
      /\ Good(i, lift_float_cmp(i)) /\ Good(i, lift_cvt_from_int(i))
      /\ Good(i, lift_vcvt_from_int(i)) /\ Good(i, lift_cvt_to_int(i))
      /\ Good(i, lift_cvt_to_int_signed(i)) /\ Good(i, lift_cvt_float(i))
      /\ Good(i, lift_vcvtph2ps(i)) /\ Good(i, lift_vcvtps2ph(i)) /\ Good(i, lift_vcvt_scalar(i))
  BY FloatingPointGood, Zenon
<1> QED
  BY <1>2, <1>3, <1>4, lift_lanesGood, Zenon DEF lift_float_moves

LEMMA lift_insnGood ==
  ASSUME NEW i \in Instructions, i.l \in {"Dpps", "Vdpps", "Psignb", "Vpsignb"} => i.w # 64
  PROVE  Good(i, lift_insn(i))
<1>1. /\ V(i, 0) \in Instructions /\ V(i, 1) \in Instructions
  BY VIn
<1>2. /\ Good(i, lift_vfloat_bin(V(i, 1))) /\ Good(i, lift_vfloat_bin(V(i, 0)))
      /\ Good(i, lift_float_unary(V(i, 1))) /\ Good(i, lift_float_unary(V(i, 0)))
      /\ Good(i, lift_vfloat_unary_packed(V(i, 0)))
  BY <1>1, VGood, FloatingPointGood, Zenon
<1>3. /\ Good(i, lift_hfloat(i)) /\ Good(i, lift_vhfloat(i)) /\ Good(i, lift_hint(i))
      /\ Good(i, lift_vhint(i)) /\ Good(i, lift_vfloat_unary_scalar(i)) /\ Good(i, lift_fma(i))
  BY FloatingPointGood, LanesGood, Zenon
<1> QED
  BY <1>2, <1>3, lift_float_movesGood, Zenon DEF lift_insn
=============================================================================
