----------------------------- MODULE VecProofs ------------------------------
(***************************************************************************)
(* Faults and stores of vector instructions, for every set of instructions *)
(* and places: from what an op does (VecOpProofs) and what the lifters     *)
(* emit (VecLiftProofs) to the machine, with three inductive invariants.   *)
(***************************************************************************)
EXTENDS VecMachine, VecOpProofs, VecLiftProofs, TLAPS

LEMMA RunDoes ==
  ASSUME NEW s, State(s), s.x = None, NEW o, Fits(o), NEW e \in {"interp", "jit"}
  PROVE  Does(e, o, s, Run(e, o, s))
BY InterpDoes, JitDoes, Zenon DEF Run

(* ------------------------------ The machine ----------------------------- *)

LEMMA OpsGood ==
  ASSUME insn \in Programs
  PROVE  insn \in Instructions /\ Good(insn, Ops)
<1>1. insn \in Instructions /\ (insn.l \in {"Dpps", "Vdpps", "Psignb", "Vpsignb"} => insn.w # 64)
  BY ProgramsAssumption, Zenon
<1> QED
  BY <1>1, lift_insnGood, Zenon DEF Ops

(* What the steps keep besides the properties.                             *)
Typed ==
  /\ insn \in Programs
  /\ place \in Places
  /\ eng \in {"interp", "jit"}
  /\ place[1] = "page" => eng = "interp"
  /\ pre = Start(place)
  /\ State(st)
  /\ pc \in Nat /\ pc > 0

LEMMA TypedInit == Init => Typed
<1> SUFFICES ASSUME Init PROVE Typed
  OBVIOUS
<1>1. place[2] \in Nat
  BY PlacesAssumption DEF Init
<1>2. State(Start(place))
  BY <1>1 DEF State, Fields, Start
<1> QED
  BY <1>2 DEF Init, Typed

LEMMA StepDoes ==
  ASSUME Typed, Step
  PROVE  /\ pc \in 1 .. Len(Ops) /\ OpOk(insn, Ops[pc])
         /\ Does(eng, Ops[pc], st, st')
<1>1. Good(insn, Ops)
  BY OpsGood DEF Typed
<1>2. pc \in 1 .. Len(Ops) /\ OpOk(insn, Ops[pc])
  BY <1>1 DEF Good, Typed, Step
<1>3. Fits(Ops[pc])
  BY <1>2 DEF OpOk
<1> QED
  BY <1>2, <1>3, RunDoes, Zenon DEF Typed, Step

(* The instruction starts over with the registers and the memory it had.   *)
Resumed(s, t) ==
  /\ State(t) /\ Arch(t) = Arch(s)
  /\ t.m = s.m /\ t.noted = s.noted /\ t.x = None
  /\ t.lim = s.lim \/ t.lim = 64

LEMMA AgainSame ==
  ASSUME NEW s, State(s)
  PROVE  Resumed(s, Again(s))
BY DEF State, Fields, Again, Arch, Resumed

LEMMA AgainAnswered ==
  ASSUME NEW s, State(s)
  PROVE  Resumed(s, [Again(s) EXCEPT !.pend = TRUE])
BY DEF State, Fields, Again, Arch, Resumed

LEMMA AgainMapped ==
  ASSUME NEW s, State(s), NEW n \in Nat, n = s.lim \/ n = 64
  PROVE  Resumed(s, [Again(s) EXCEPT !.lim = n])
BY DEF State, Fields, Again, Arch, Resumed

LEMMA Resumes ==
  ASSUME Typed, MapPage \/ Answer \/ Defer
  PROVE  /\ Resumed(st, st')
         /\ pc' = 1 /\ UNCHANGED <<insn, place, pre>>
         /\ eng' = eng \/ (eng' = "interp" /\ st.x[1] = "Defer")
<1>1. State(st) /\ st.lim \in Nat /\ 64 \in Nat
  BY DEF Typed, State
<1>2. CASE MapPage
  <2>1. PICK n : n = IF st.x[2] >= st.lim THEN 64 ELSE st.lim
    BY Zenon
  <2>2. n \in Nat /\ (n = 64 \/ n = st.lim)
    BY <1>1, <2>1
  <2>3. st' = [Again(st) EXCEPT !.lim = n]
    BY <1>1, <1>2, <2>1 DEF MapPage, Again, State, Fields
  <2>4. Resumed(st, st')
    BY <1>1, <2>2, <2>3, AgainMapped, Zenon
  <2> QED
    BY <1>2, <2>4 DEF MapPage
<1>3. CASE Answer
  <2>1. Resumed(st, st')
    BY <1>1, <1>3, AgainAnswered, Zenon DEF Answer
  <2> QED
    BY <1>3, <2>1 DEF Answer
<1>4. CASE Defer
  <2>1. Resumed(st, st')
    BY <1>1, <1>4, AgainSame, Zenon DEF Defer
  <2> QED
    BY <1>4, <2>1 DEF Defer
<1> QED
  BY <1>2, <1>3, <1>4

LEMMA Retires ==
  ASSUME Typed, Retire
  PROVE  /\ State(st') /\ Arch(st') = Arch(st)
         /\ st'.m = st.m /\ st'.noted = st.noted /\ st'.x = None /\ st'.lim = st.lim
         /\ pc' = pc + 1 /\ UNCHANGED <<insn, place, eng, pre>>
BY DEF Typed, Retire, State, Fields, Arch

LEMMA TypedNext ==
  ASSUME Typed, [Next]_vars
  PROVE  Typed'
<1>1. ASSUME UNCHANGED <<insn, place, pre>>, eng' = eng \/ eng' = "interp", State(st'),
             pc' \in Nat, pc' > 0
      PROVE  Typed'
  BY <1>1, Zenon DEF Typed
<1>2. State(st) /\ st.lim \in Nat /\ pc \in Nat /\ pc > 0
  BY DEF Typed, State
<1>3. CASE Step
  <2>1. State(st')
    BY <1>3, StepDoes, Zenon DEF Does
  <2> QED
    BY <1>1, <1>2, <1>3, <2>1 DEF Step
<1>4. CASE Retire
  BY <1>1, <1>2, <1>4, Retires
<1>5. CASE MapPage \/ Answer \/ Defer
  BY <1>1, <1>5, Resumes DEF Resumed
<1>6. CASE UNCHANGED vars
  BY <1>6, Zenon DEF Typed, vars
<1> QED
  BY <1>3, <1>4, <1>5, <1>6, Zenon DEF Next, Done

(* ------------------------------ The notes ------------------------------- *)

(* The stores made so far are noted, or compiled code runs one of the      *)
(* masked stores and has not left it but for the end of guest memory.      *)
Notes ==
  \/ \A c \in 0 .. 7 : st.m[c] = pre.m[c] \/ c \in st.noted
  \/ eng = "jit" /\ Has(Unnoted) /\ (st.x = None \/ st.x[1] = "Unmapped")

LEMMA NotesStep ==
  ASSUME Typed, Notes, Step
  PROVE  Notes'
<1>1. /\ pc \in 1 .. Len(Ops) /\ OpOk(insn, Ops[pc]) /\ Does(eng, Ops[pc], st, st')
      /\ Good(insn, Ops) /\ DOMAIN Ops = 1 .. Len(Ops)
  BY StepDoes, OpsGood DEF Typed, Good
<1>2. eng' = eng /\ pre' = pre /\ Ops' = Ops /\ Has(Unnoted)' = Has(Unnoted)
  BY DEF Step, Ops, Has
<1>3. CASE eng = "jit" /\ Ops[pc].op \in Unnoted
  <2>1. Has(Unnoted)
    BY <1>1, <1>3 DEF Has
  <2>2. st'.x = None \/ st'.x[1] = "Unmapped"
    BY <1>1, <1>3, Zenon DEF Does
  <2> QED
    BY <1>2, <1>3, <2>1, <2>2 DEF Notes
<1>4. CASE ~(eng = "jit" /\ Ops[pc].op \in Unnoted)
  <2>1. Reports(st, st')
    BY <1>1, <1>4, Zenon DEF Does
  <2>2. ~(eng = "jit" /\ Has(Unnoted))
    BY <1>1, <1>4 DEF Has, Good, Alone
  <2>3. \A c \in 0 .. 7 : st.m[c] = pre.m[c] \/ c \in st.noted
    BY <2>2 DEF Notes
  <2> QED
    BY <1>2, <2>1, <2>3 DEF Notes, Reports
<1> QED
  BY <1>3, <1>4

LEMMA NotesNext ==
  ASSUME Typed, Notes, [Next]_vars
  PROVE  Notes'
<1>1. CASE Step
  BY <1>1, NotesStep, Zenon
<1>2. CASE Retire
  <2>1. Has(Unnoted)' = Has(Unnoted)
    BY <1>2, Retires DEF Has, Ops
  <2> QED
    BY <1>2, <2>1, Retires DEF Notes
<1>3. CASE MapPage \/ Answer \/ Defer
  <2>1. eng = "jit" => st.x[1] # "Unmapped" /\ st.x # None
    BY <1>3 DEF MapPage, Answer, Defer, Typed, None
  <2>2. \A c \in 0 .. 7 : st.m[c] = pre.m[c] \/ c \in st.noted
    BY <2>1 DEF Notes
  <2> QED
    BY <1>3, <2>2, Resumes, Zenon DEF Notes, Resumed
<1>4. CASE UNCHANGED vars
  BY <1>4 DEF Notes, Has, Ops, vars
<1> QED
  BY <1>1, <1>2, <1>3, <1>4, Zenon DEF Next, Done

(* Every store of the instruction that changed memory has been reported to *)
(* the code-page watch, also when a later part of it faults, for any       *)
(* program, place and number of retries; set aside are the masked stores   *)
(* of compiled code, which do not reach note_store.                        *)
THEOREM StoresNoted == "note" \in Known => (Spec => []StoresAreNoted)
<1> SUFFICES ASSUME "note" \in Known PROVE Spec => []StoresAreNoted
  OBVIOUS
<1>1. Init => Typed /\ Notes
  BY TypedInit DEF Init, Notes
<1>2. Typed /\ Notes /\ [Next]_vars => (Typed /\ Notes)'
  BY TypedNext, NotesNext
<1>3. Typed /\ Notes => StoresAreNoted
  BY DEF Notes, StoresAreNoted, NoteKnown, Unnoted
<1> QED
  BY <1>1, <1>2, <1>3, PTL DEF Spec

(* ------------------------------ The faults ------------------------------ *)

(* Memory ends, and pages begin, between two chunks of the operand, and an *)
(* exit names what FaultIsExact says it does.                              *)
Pinned ==
  /\ st.lim % 8 = 0
  /\ st.x[1] = "Unmapped" =>
       /\ st.rip = "insn" \/ Has({"VGf2p8M"})
       /\ st.x[2] >= st.lim \/ Has({"VExtractLaneWideM"})
       /\ Has(Selective) => st.x[2] \div 8 \in insn.act

LEMMA PinnedStep ==
  ASSUME Typed, Pinned, Step
  PROVE  Pinned'
<1>1. /\ pc \in 1 .. Len(Ops) /\ OpOk(insn, Ops[pc]) /\ Does(eng, Ops[pc], st, st')
      /\ Good(insn, Ops) /\ DOMAIN Ops = 1 .. Len(Ops)
  BY StepDoes, OpsGood DEF Typed, Good
<1>2. insn' = insn /\ Ops' = Ops
  BY DEF Step, Ops
<1>3. st'.lim % 8 = 0 /\ st.lim % 8 = 0 /\ st'.lim = st.lim
  BY <1>1 DEF Does, Pinned
<1>4. ASSUME st'.x[1] = "Unmapped"
      PROVE  /\ st'.rip = "insn" \/ Ops[pc].op = "VGf2p8M"
             /\ st'.x[2] >= st'.lim \/ Ops[pc].op = "VExtractLaneWideM"
             /\ Ops[pc].op \in Selective => st'.x[2] \div 8 \in insn.act
  <2>1. st'.x # None
    BY <1>4 DEF None
  <2> QED
    BY <1>1, <1>3, <1>4, <2>1, Zenon DEF Does, OpOk
<1>5. Has(Selective) => Ops[pc].op \in Selective
  BY <1>1 DEF Has, Good, Alone
<1>6. \A S : Ops[pc].op \in S => Has(S)
  BY <1>1 DEF Has
<1>7. \A S : Has(S)' = Has(S)
  BY <1>2 DEF Has
<1> QED
  BY <1>2, <1>3, <1>4, <1>5, <1>6, <1>7 DEF Pinned

LEMMA PinnedNext ==
  ASSUME Typed, Pinned, [Next]_vars
  PROVE  Pinned'
<1>1. CASE Step
  BY <1>1, PinnedStep, Zenon
<1>2. ASSUME st'.x = None, st'.lim = st.lim \/ st'.lim = 64 PROVE Pinned'
  <2>1. st'.x[1] # "Unmapped"
    BY <1>2 DEF None
  <2>2. st'.lim % 8 = 0
    BY <1>2 DEF Pinned
  <2> QED
    BY <2>1, <2>2 DEF Pinned
<1>3. CASE Retire
  BY <1>2, <1>3, Retires, Zenon
<1>4. CASE MapPage \/ Answer \/ Defer
  BY <1>2, <1>4, Resumes, Zenon DEF Resumed
<1>5. CASE UNCHANGED vars
  BY <1>5 DEF Pinned, Has, Ops, vars
<1> QED
  BY <1>1, <1>3, <1>4, <1>5, Zenon DEF Next, Done

(* The address an exit reports is not backed and lies in a chunk the       *)
(* instruction accesses, and RIP is the instruction's: for any program, in *)
(* both engines, when memory ends and pages begin at a multiple of eight   *)
(* bytes from the operand.  Set aside: gf2p8_mem_run leaves RIP alone, and *)
(* probe_write names the lane.                                             *)
THEOREM FaultsExact ==
  {"rip", "probe"} \subseteq Known /\ (\A p \in Places : p[2] % 8 = 0) => (Spec => []FaultIsExact)
<1> SUFFICES ASSUME {"rip", "probe"} \subseteq Known, \A p \in Places : p[2] % 8 = 0
             PROVE  Spec => []FaultIsExact
  OBVIOUS
<1>1. Init => Typed /\ Pinned
  <2> SUFFICES ASSUME Init PROVE Pinned
    BY TypedInit
  <2>1. st.lim % 8 = 0 /\ st.x = None
    BY DEF Init, Start
  <2> QED
    BY <2>1 DEF Pinned, None
<1>2. Typed /\ Pinned /\ [Next]_vars => (Typed /\ Pinned)'
  BY TypedNext, PinnedNext
<1>3. Typed /\ Pinned => FaultIsExact
  BY DEF Pinned, FaultIsExact, RipKnown, ProbeKnown
<1> QED
  BY <1>1, <1>2, <1>3, PTL DEF Spec

(* ------------------------- The registers at a fault --------------------- *)

(* What the copy of o.a into o.d leaves in the registers.                  *)
Copy(o, r) ==
  [r EXCEPT ![o.d] = [j \in 1 .. 4 |->
     IF j <= IF o.op = "VMov256" THEN 2 ELSE 1 THEN r[o.a][j] ELSE r[o.d][j]]]
Lanes(S) == [Regs -> [1 .. 4 -> S]]

LEMMA CopyTwice ==
  ASSUME NEW o, o.d \in Regs, o.a \in Regs, NEW S, NEW r \in Lanes(S)
  PROVE  Copy(o, r) \in Lanes(S) /\ Copy(o, Copy(o, r)) = Copy(o, r)
BY Zenon DEF Copy, Lanes

LEMMA CopyRuns ==
  ASSUME NEW e \in {"interp", "jit"}, NEW o, o.op \in {"VMov", "VMov256"}, NEW s
  PROVE  Run(e, o, s) =
           IF o.op = "VMov" THEN SetLane(s, o.d, 1, s.r[o.a][1])
           ELSE IF e = "interp" THEN set_vec_low(s, o.d, s.r[o.a], 32)
           ELSE SetLane(SetLane(s, o.d, 1, s.r[o.a][1]), o.d, 2, s.r[o.a][2])
BY Zenon DEF Run, walk_ops, walk_moves, exec_v_mov, VMov256, op_of, op_moves, emit_v_mov,
   emit_v_mov256, store_xmm, store_ymm_hi, Xmm, A, vec_lanes

LEMMA CopyBeside ==
  ASSUME NEW e \in {"interp", "jit"}, NEW o, o.op \in {"VMov", "VMov256"}, NEW s, State(s)
  PROVE  Beside(o.d, s, Run(e, o, s))
<1>1. ASSUME NEW v, NEW j
      PROVE  Beside(o.d, s, SetLane(s, o.d, j, v)) /\ State(SetLane(s, o.d, j, v))
  BY DEF Beside, SetLane, State, Fields
<1>2. ASSUME NEW v, NEW w
      PROVE  Beside(o.d, s, SetLane(SetLane(s, o.d, 1, v), o.d, 2, w))
  BY DEF Beside, SetLane, State, Fields
<1>3. ASSUME NEW v PROVE Beside(o.d, s, set_vec_low(s, o.d, v, 32))
  BY DEF Beside, set_vec_low, State, Fields
<1> QED
  BY <1>1, <1>2, <1>3, CopyRuns

LEMMA CopyLanes ==
  ASSUME NEW e \in {"interp", "jit"}, NEW o, o.op \in {"VMov", "VMov256"}, o.d \in Regs, o.a \in Regs,
         NEW s, State(s), NEW S, s.r \in Lanes(S)
  PROVE  Run(e, o, s).r = Copy(o, s.r)
<1>1. CASE o.op = "VMov"
  <2>1. SetLane(s, o.d, 1, s.r[o.a][1]).r = Copy(o, s.r)
    BY <1>1 DEF SetLane, Copy, Lanes, State, Fields
  <2> QED
    BY <1>1, <2>1, CopyRuns
<1>2. CASE o.op = "VMov256" /\ e = "interp"
  <2>1. set_vec_low(s, o.d, s.r[o.a], 32).r = Copy(o, s.r)
    BY <1>2 DEF set_vec_low, Copy, Lanes, State, Fields
  <2> QED
    BY <1>2, <2>1, CopyRuns
<1>3. CASE o.op = "VMov256" /\ e = "jit"
  <2>1. SetLane(SetLane(s, o.d, 1, s.r[o.a][1]), o.d, 2, s.r[o.a][2]).r = Copy(o, s.r)
    BY <1>3 DEF SetLane, Copy, Lanes, State, Fields
  <2> QED
    BY <1>3, <2>1, CopyRuns
<1> QED
  BY <1>1, <1>2, <1>3

Copied == 1 \in DOMAIN Ops /\ Copies(insn, Ops[1])
AfterCopy == <<Copy(Ops[1], pre.r), pre.k, pre.g, pre.fl>>
(* What the registers may be at an exit.                                   *)
Spared ==
  \/ Arch(st) = Arch(pre)
  \/ Copied /\ Arch(st) = AfterCopy
  \/ insn.w = 32 /\ Has(LaneOps) /\ Beside(insn.d, pre, st)

(* They are so at an exit, and before an op that may exit.                 *)
Clean ==
  /\ st.x # None => Spared
  /\ pc \in 1 .. Len(Ops) /\ (\A h \in 1 .. pc - 1 : Ops[h].op \in TempOps) => Spared
  /\ pc = 2 /\ pc <= Len(Ops) /\ Copied => Spared

LEMMA PreLanes == Typed => State(pre) /\ \E S : pre.r \in Lanes(S)
<1> SUFFICES ASSUME Typed PROVE State(pre) /\ \E S : pre.r \in Lanes(S)
  OBVIOUS
<1>1. place[2] \in Nat
  BY PlacesAssumption DEF Typed
<1>2. State(pre) /\ pre.r = [q \in Regs |-> [i \in 1 .. 4 |-> <<"r", q, i>>]]
  BY <1>1 DEF Typed, Start, State, Fields
<1> DEFINE S == {<<"r", q, i>> : q \in Regs, i \in 1 .. 4}
<1>3. pre.r \in Lanes(S)
  BY <1>2 DEF Lanes
<1> HIDE DEF S
<1> QED
  BY <1>2, <1>3, Zenon

LEMMA CopiedOp ==
  ASSUME Typed, Copied
  PROVE  /\ Ops[1].op \in {"VMov", "VMov256"} /\ Ops[1].a \in Regs
         /\ Ops[1].d = insn.d /\ insn.d \in Regs
<1>1. Good(insn, Ops) /\ insn \in Instructions
  BY OpsGood, ProgramsAssumption DEF Typed
<1>2. insn.d \in Regs /\ insn.a \in Regs
  BY <1>1 DEF Instructions
<1>3. OpOk(insn, Ops[1])
  BY <1>1 DEF Good, Copied
<1> QED
  BY <1>2, <1>3 DEF Copied, Copies, OpOk

LEMMA CopyArch ==
  ASSUME Typed, Copied, NEW e \in {"interp", "jit"}, NEW s, State(s), NEW S, s.r \in Lanes(S)
  PROVE  Arch(Run(e, Ops[1], s)) = <<Copy(Ops[1], s.r), s.k, s.g, s.fl>>
<1>1. Run(e, Ops[1], s).r = Copy(Ops[1], s.r)
  BY CopiedOp, CopyLanes
<1>2. Beside(insn.d, s, Run(e, Ops[1], s))
  BY CopiedOp, CopyBeside
<1> QED
  BY <1>1, <1>2 DEF Arch, Beside

LEMMA CopyElse ==
  ASSUME NEW o, NEW s, NEW t, t.r = Copy(o, s.r), t.k = s.k, t.g = s.g, t.fl = s.fl
  PROVE  Beside(o.d, s, t)
<1>1. ASSUME NEW r PROVE [Copy(o, r) EXCEPT ![o.d] = <<>>] = [r EXCEPT ![o.d] = <<>>]
  BY Zenon DEF Copy
<1> QED
  BY <1>1 DEF Beside

LEMMA SparedBeside ==
  ASSUME Typed, Spared
  PROVE  Beside(insn.d, pre, st)
<1>1. CASE Arch(st) = Arch(pre)
  BY <1>1 DEF Arch, Beside
<1>2. CASE Copied /\ Arch(st) = AfterCopy
  <2>1. st.r = Copy(Ops[1], pre.r) /\ st.k = pre.k /\ st.g = pre.g /\ st.fl = pre.fl
    BY <1>2 DEF Arch, AfterCopy
  <2>2. Ops[1].d = insn.d
    BY <1>2, CopiedOp
  <2>3. Beside(Ops[1].d, pre, st)
    BY <2>1, CopyElse
  <2> QED
    BY <2>2, <2>3
<1> QED
  BY <1>1, <1>2 DEF Spared

(* The copy, made once or again.                                           *)
LEMMA SparedCopy ==
  ASSUME Typed, Spared, Copied, UNCHANGED <<insn, pre>>, st' = Run(eng, Ops[1], st)
  PROVE  Spared'
<1>1. PICK S : pre.r \in Lanes(S)
  BY PreLanes
<1>2. eng \in {"interp", "jit"} /\ State(st)
  BY DEF Typed
<1>3. Ops' = Ops /\ Copied' = Copied /\ AfterCopy' = AfterCopy /\ Has(LaneOps)' = Has(LaneOps)
  BY DEF Ops, Copied, AfterCopy, Has
<1>4. CASE Arch(st) = Arch(pre)
  <2>1. st.r = pre.r /\ st.k = pre.k /\ st.g = pre.g /\ st.fl = pre.fl
    BY <1>4 DEF Arch
  <2>2. Arch(st') = AfterCopy
    BY <1>1, <1>2, <2>1, CopyArch DEF AfterCopy
  <2> QED
    BY <1>3, <2>2 DEF Spared
<1>5. CASE Arch(st) = AfterCopy
  <2>1. st.r = Copy(Ops[1], pre.r) /\ st.k = pre.k /\ st.g = pre.g /\ st.fl = pre.fl
    BY <1>5 DEF Arch, AfterCopy
  <2>2. st.r \in Lanes(S) /\ Copy(Ops[1], st.r) = Copy(Ops[1], pre.r)
    BY <1>1, <2>1, CopiedOp, CopyTwice
  <2>3. Arch(st') = AfterCopy
    BY <1>2, <2>1, <2>2, CopyArch DEF AfterCopy
  <2> QED
    BY <1>3, <2>3 DEF Spared
<1>6. CASE insn.w = 32 /\ Has(LaneOps) /\ Beside(insn.d, pre, st)
  <2>1. Beside(insn.d, st, st')
    BY <1>2, CopiedOp, CopyBeside
  <2>2. Beside(insn.d, pre, st')
    BY <1>6, <2>1 DEF Beside
  <2> QED
    BY <1>3, <1>6, <2>2 DEF Spared
<1> QED
  BY <1>4, <1>5, <1>6 DEF Spared

LEMMA CleanStep ==
  ASSUME Typed, Clean, Step
  PROVE  Clean'
<1>1. /\ pc \in 1 .. Len(Ops) /\ OpOk(insn, Ops[pc]) /\ Does(eng, Ops[pc], st, st')
      /\ Good(insn, Ops) /\ DOMAIN Ops = 1 .. Len(Ops) /\ Len(Ops) \in Nat
  BY StepDoes, OpsGood DEF Typed, Good
<1>2. /\ UNCHANGED <<insn, eng, pre>> /\ pc' = pc + 1 /\ st' = Run(eng, Ops[pc], st)
      /\ Ops' = Ops /\ Copied' = Copied /\ AfterCopy' = AfterCopy /\ Has(LaneOps)' = Has(LaneOps)
  BY DEF Step, Ops, Copied, AfterCopy, Has
<1>3. ASSUME Spared, Arch(st') = Arch(st) PROVE Spared'
  <2>1. Beside(insn.d, pre, st) => Beside(insn.d, pre, st')
    BY <1>3 DEF Arch, Beside
  <2> QED
    BY <1>2, <1>3, <2>1 DEF Spared
<1>4. ASSUME st'.x # None PROVE Spared'
  <2>1. ~Never(Ops[pc])
    BY <1>1, <1>4, Zenon DEF Does
  <2>2. Spared
    BY <1>1, <2>1 DEF Good, Clean, Copied
  <2>3. CASE Arch(st') = Arch(st)
    BY <1>3, <2>2, <2>3
  <2>4. CASE eng = "interp" /\ Ops[pc].op \in LaneOps /\ Ops[pc].w # 16
    <3>1. Beside(insn.d, st, st')
      BY <1>1, <2>4, Zenon DEF Does, OpOk
    <3>2. Beside(insn.d, pre, st')
      BY <2>2, <3>1, SparedBeside DEF Beside
    <3>3. insn.w \in {16, 32, 64}
      BY ProgramsAssumption DEF Typed, Instructions
    <3>4. insn.w = 32 /\ Has(LaneOps)
      BY <1>1, <2>4, <3>3 DEF OpOk, Has
    <3> QED
      BY <1>2, <3>2, <3>4 DEF Spared
  <2> QED
    BY <1>1, <1>4, <2>3, <2>4, Zenon DEF Does
<1>5. ASSUME pc' \in 1 .. Len(Ops), \A h \in 1 .. pc' - 1 : Ops[h].op \in TempOps
      PROVE  Spared'
  <2>1. Ops[pc].op \in TempOps /\ \A h \in 1 .. pc - 1 : Ops[h].op \in TempOps
    BY <1>1, <1>2, <1>5
  <2>2. Arch(st') = Arch(st)
    BY <1>1, <2>1, Zenon DEF Does
  <2>3. Spared
    BY <1>1, <2>1 DEF Clean
  <2> QED
    BY <1>3, <2>2, <2>3
<1>6. ASSUME pc' = 2, Copied PROVE Spared'
  <2>1. pc = 1
    BY <1>1, <1>2, <1>6
  <2>2. Spared
    BY <1>1, <2>1 DEF Clean
  <2> QED
    BY <1>2, <1>6, <2>1, <2>2, SparedCopy
<1> QED
  BY <1>2, <1>4, <1>5, <1>6 DEF Clean

LEMMA CleanNext ==
  ASSUME Typed, Clean, [Next]_vars
  PROVE  Clean'
<1>1. CASE Step
  BY <1>1, CleanStep, Zenon
<1>2. CASE Retire
  <2>1. Ops' = Ops /\ pc' = Len(Ops) + 2 /\ Len(Ops) \in Nat
    BY <1>2, Retires, OpsGood DEF Ops, Retire, Typed, Good
  <2>2. st'.x = None
    BY <1>2, Retires
  <2> QED
    BY <2>1, <2>2 DEF Clean
<1>3. CASE MapPage \/ Answer \/ Defer
  <2>1. Arch(st') = Arch(st) /\ pc' = 1 /\ UNCHANGED <<insn, pre>>
    BY <1>3, Resumes, Zenon DEF Resumed
  <2>2. Ops' = Ops /\ Copied' = Copied /\ AfterCopy' = AfterCopy /\ Has(LaneOps)' = Has(LaneOps)
    BY <2>1 DEF Ops, Copied, AfterCopy, Has
  <2>3. st.x # None
    BY <1>3 DEF MapPage, Answer, Defer, None
  <2>4. Beside(insn.d, pre, st) => Beside(insn.d, pre, st')
    BY <2>1 DEF Arch, Beside
  <2>5. Spared'
    BY <2>1, <2>2, <2>3, <2>4 DEF Clean, Spared
  <2> QED
    BY <2>5 DEF Clean
<1>4. CASE UNCHANGED vars
  BY <1>4 DEF Clean, Spared, Copied, AfterCopy, Has, Ops, vars
<1> QED
  BY <1>1, <1>2, <1>3, <1>4, Zenon DEF Next, Done

(* Fault atomicity: whatever ends an attempt, after any number of retries  *)
(* and a change of engine, the registers, masks and flags are those the    *)
(* instruction started with.  Set aside: the copy of the first source into *)
(* the destination may have been made, and the two lane-by-lane ops may    *)
(* have written the destination.                                           *)
THEOREM FaultsAtomic ==
  {"precopy", "lanes"} \subseteq Known => (Spec => []FaultLeavesNoTrace)
<1> SUFFICES ASSUME {"precopy", "lanes"} \subseteq Known
             PROVE  Spec => []FaultLeavesNoTrace
  OBVIOUS
<1>1. Init => Typed /\ Clean
  BY TypedInit DEF Init, Clean, Spared
<1>2. Typed /\ Clean /\ [Next]_vars => (Typed /\ Clean)'
  BY TypedNext, CleanNext
<1>3. Typed /\ Clean => FaultLeavesNoTrace
  <2> SUFFICES ASSUME Typed, Clean, st.x # None PROVE FaultLeavesNoTrace
    BY DEF FaultLeavesNoTrace
  <2>1. CASE Arch(st) = Arch(pre)
    BY <2>1 DEF FaultLeavesNoTrace
  <2>2. CASE Copied /\ Arch(st) = AfterCopy
    <3>1. Arch(Run(eng, Ops[1], pre)) = AfterCopy
      BY <2>2, PreLanes, CopyArch DEF AfterCopy, Typed
    <3>2. Has({"VMov", "VMov256"})
      BY <2>2 DEF Has, Copied, Copies
    <3> QED
      BY <2>2, <3>1, <3>2 DEF FaultLeavesNoTrace, PreCopied
  <2>3. CASE insn.w = 32 /\ Has(LaneOps) /\ Beside(insn.d, pre, st)
    <3>1. State(st) /\ State(pre)
      BY PreLanes DEF Typed
    <3>2. Besides(st) = Besides(pre)
      BY <2>3, <3>1 DEF Besides, Beside, Arch, State, Fields
    <3> QED
      BY <2>3, <3>2 DEF FaultLeavesNoTrace, LaneByLane, LaneOps
  <2> QED
    BY <2>1, <2>2, <2>3 DEF Clean, Spared
<1> QED
  BY <1>1, <1>2, <1>3, PTL DEF Spec
=============================================================================
