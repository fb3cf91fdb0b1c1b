---------------------------- MODULE ThumbWriter ----------------------------
(***************************************************************************)
(* The GumThumbWriter of gum/arch-arm/gumthumbwriter.c: a cursor writing    *)
(* Thumb halfwords into a caller buffer, a label table with pending branch *)
(* references, and a literal table whose pool is placed after the code by  *)
(* gum_thumb_writer_flush.                                                  *)
(*                                                                         *)
(* Memory is a function from byte address to the 16-bit halfword stored   *)
(* there; only halfwords the writer itself stored are in its domain.       *)
(* Registers are their ARM indices (0..15: 13 = SP, 14 = LR, 15 = PC).     *)
(* The history variables record what each call meant to emit and what    *)
(* each flush patched, so that properties can decode memory against it.   *)
(***************************************************************************)
EXTENDS ThumbEncoder, Integers, Sequences, FiniteSets, TLC

CONSTANTS
  Bases,              (* code addresses the writer may be reset to          *)
  NativeOs,           (* gum_process_get_native_os () of the host           *)
  Oses,               (* GumOS values set_target_os may be given            *)
  LabelIds,           (* opaque label identities (model values)             *)
  CondCodes,          (* arm_cc values given to b<cond> (1..14)             *)
  LowRegs,            (* low registers given to cbz/cbnz                    *)
  LdrRegs,            (* registers given to ldr reg, =value                 *)
  Values,             (* 32-bit literal values                              *)
  RawInsns,           (* halfwords given to put_instruction                 *)
  FillSizes,          (* byte counts given to put_bytes                     *)
  SkipSizes,          (* byte counts given to skip                          *)
  Regs,               (* registers given where the encoders take any one    *)
  LowOperandRegs,     (* registers given to the low-register-only forms     *)
  ImmDstRegs,         (* destinations given to add/sub reg, #imm            *)
  AddLeftRegs,        (* left operands given to add/sub reg, reg, #imm      *)
  Imms,               (* gssize immediates given to add/sub                 *)
  U8s,                (* guint8 immediates given to cmp, mov and bkpt       *)
  Offsets,            (* gsize offsets given to ldr/str reg, [reg, #off]    *)
  PushRegLists,       (* register sets given to push                        *)
  PopRegLists,        (* register sets given to pop                         *)
  BranchOffsets,      (* target - pc given to b imm and bl imm              *)
  BlxOffsets,         (* target - pc given to blx imm                       *)
  MaxLabelCount,      (* GUM_MAX_LABEL_COUNT                                *)
  MaxLiteralRefCount  (* GUM_MAX_LITERAL_REF_COUNT                          *)

ASSUME Bases \subseteq Nat \ {0} /\ \A b \in Bases : b % 2 = 0
ASSUME NativeOs \in Oses
ASSUME CondCodes \subseteq 1..14
ASSUME LowRegs \subseteq 0..7 /\ LdrRegs \subseteq 0..15
ASSUME \A v \in Values : v >= 0 /\ v \div 2^16 < 2^16
ASSUME RawInsns \subseteq 0..(2^16 - 1)
ASSUME (Regs \cup LowOperandRegs \cup ImmDstRegs \cup AddLeftRegs) \subseteq 0..15
ASSUME Imms \subseteq Int /\ U8s \subseteq 0..255 /\ Offsets \subseteq Nat
ASSUME (PushRegLists \cup PopRegLists) \subseteq SUBSET (0..15)
ASSUME (BranchOffsets \cup BlxOffsets) \subseteq Int
ASSUME MaxLabelCount \in Nat \ {0} /\ MaxLiteralRefCount \in Nat \ {0}

(* GUM_MAX_LREF_COUNT *)
MaxLrefCount == 3 * MaxLabelCount

VARIABLES
  base, code, pc,     (* start of the region, cursor, address of cursor     *)
  targetOs,
  mem,                (* byte address -> halfword                           *)
  idToAddress,        (* Seq of [id, address]                               *)
  labelRefs,          (* Seq of [id, insn, pc]                              *)
  literalRefs,        (* Seq of [val, insn, pc]                             *)
  pendingBranches,    (* history: [kind, insn, id] of unflushed label refs  *)
  pendingLoads,       (* history: [insn, reg, val] of unflushed ldr =val    *)
  branches,           (* history: [kind, insn, target] patched by a flush   *)
  loads,              (* history: [insn, reg, val] patched by a flush       *)
  pool,               (* history: extent and values of the last pool        *)
  emitted,            (* history: [addr, size, meaning] of encoder calls    *)
  calls               (* history: call sequences emitted (ThumbCalls)       *)

history == <<pendingBranches, pendingLoads, branches, loads, pool, emitted,
             calls>>
vars == <<base, code, pc, targetOs, mem, idToAddress, labelRefs, literalRefs,
          history>>

NoPool == [first |-> 0, last |-> 0, values |-> {}]

-----------------------------------------------------------------------------
(* Bit-level helpers.                                                      *)

(* The 32-bit little-endian word stored at a, or -1 where unwritten. *)
Word(m, a) ==
  IF {a, a + 2} \subseteq DOMAIN m THEN m[a] + 2^16 * m[a + 2] ELSE -1

(* GUM_IS_WITHIN_INT8_RANGE, GUM_IS_WITHIN_INT11_RANGE, GUM_IS_WITHIN_UINT7_RANGE *)
IsWithinInt8Range(d)  == d \in -128..127
IsWithinInt11Range(d) == d \in -1024..1023
IsWithinUint7Range(d) == d \in 0..127

(* gum_instruction_is_t1_load *)
IsT1Load(insn) == (insn & \hF800) = \h4800

-----------------------------------------------------------------------------
(* Emitting halfwords.                                                     *)

(* m with the halfwords insns stored from address at on. *)
Stored(m, at, insns) ==
  [a \in {at + 2 * (i - 1) : i \in 1..Len(insns)} |-> insns[(a - at) \div 2 + 1]] @@ m

(* gum_thumb_writer_put_instruction, applied to a sequence of halfwords. *)
Emit(insns) ==
  /\ mem' = Stored(mem, code, insns)
  /\ code' = code + 2 * Len(insns)
  /\ pc' = pc + 2 * Len(insns)

(* gum_thumb_writer_lookup_address_for_label_id: 0 when undefined. *)
LookupAddressForLabelId(id) ==
  IF \E i \in 1..Len(idToAddress) : idToAddress[i].id = id
  THEN idToAddress[CHOOSE i \in 1..Len(idToAddress) : idToAddress[i].id = id].address
  ELSE 0

-----------------------------------------------------------------------------
(* Lifecycle.                                                              *)

(* gum_thumb_writer_reset. The buffer is not touched; what it held is
   logically undefined from here on (the writer only reads halfwords it
   stored after the reset), so the model forgets it. *)
Reset(address) ==
  /\ targetOs' = NativeOs
  /\ base' = address
  /\ code' = address
  /\ pc' = address
  /\ idToAddress' = << >>
  /\ labelRefs' = << >>
  /\ literalRefs' = << >>
  /\ pendingBranches' = {} /\ pendingLoads' = {}
  /\ branches' = {} /\ loads' = {} /\ pool' = NoPool /\ emitted' = {}
  /\ calls' = {}
  /\ mem' = << >>

(* gum_thumb_writer_set_target_os *)
SetTargetOs(os) ==
  /\ targetOs' = os
  /\ UNCHANGED <<base, code, pc, mem, idToAddress, labelRefs, literalRefs,
                 history>>

(* gum_thumb_writer_skip *)
Skip(n) ==
  /\ code' = code + n
  /\ pc' = pc + n
  /\ UNCHANGED <<base, targetOs, mem, idToAddress, labelRefs, literalRefs,
                 history>>

-----------------------------------------------------------------------------
(* Labels and label references.                                            *)

(* Mutant: add_address_for_label_id without its capacity check. *)
AddAddressForLabelIdUnbounded(id, address) ==
  idToAddress' = Append(idToAddress, [id |-> id, address |-> address])

(* gum_thumb_writer_add_address_for_label_id: fails on a full table. *)
AddAddressForLabelId(id, address) ==
  /\ Len(idToAddress) # MaxLabelCount
  /\ idToAddress' = Append(idToAddress, [id |-> id, address |-> address])

(* gum_thumb_writer_put_label: fails on an id already defined. A failing
   call changes nothing, so it is a stuttering step and not an action. *)
PutLabel(id) ==
  /\ LookupAddressForLabelId(id) = 0
  /\ AddAddressForLabelId(id, pc)
  /\ UNCHANGED <<base, code, pc, targetOs, mem, labelRefs, literalRefs,
                 history>>

(* Mutant: a reference whose PC is taken 2 bytes ahead instead of 4. *)
AddLabelReferenceHereAheadBy2(id) ==
  /\ Len(labelRefs) # MaxLrefCount
  /\ labelRefs' = Append(labelRefs, [id |-> id, insn |-> code, pc |-> pc + 2])

(* gum_thumb_writer_add_label_reference_here: fails on a full table. *)
AddLabelReferenceHere(id) ==
  /\ Len(labelRefs) # MaxLrefCount
  /\ labelRefs' = Append(labelRefs, [id |-> id, insn |-> code, pc |-> pc + 4])

(* The put_*_label operations: the reference is recorded, then the branch
   opcode with a zero displacement is emitted; when the table is full the
   call returns FALSE having emitted nothing. *)
PutLabelRef(id, opcode, kind) ==
  /\ AddLabelReferenceHere(id)
  /\ pendingBranches' = pendingBranches \cup {[kind |-> kind, insn |-> code, id |-> id]}
  /\ Emit(<<opcode>>)
  /\ UNCHANGED <<base, targetOs, idToAddress, literalRefs, pendingLoads,
                 branches, loads, pool, emitted, calls>>

(* gum_thumb_writer_put_b_label *)
PutBLabel(id) == PutLabelRef(id, \hE000, "branch")

(* gum_thumb_writer_put_b_cond_label (and its beq/bne wrappers) *)
PutBCondLabel(cc, id) == PutLabelRef(id, \hD000 | ((cc - 1) * 2^8), "branch")

(* gum_thumb_writer_put_cbz_reg_label *)
PutCbzRegLabel(reg, id) == PutLabelRef(id, \hB100 | reg, "cbz")

(* gum_thumb_writer_put_cbnz_reg_label *)
PutCbnzRegLabel(reg, id) == PutLabelRef(id, \hB900 | reg, "cbz")

-----------------------------------------------------------------------------
(* Literal loads.                                                          *)

(* gum_thumb_writer_add_literal_reference_here: fails on a full table. *)
AddLiteralReferenceHere(val) ==
  /\ Len(literalRefs) # MaxLiteralRefCount
  /\ literalRefs' = Append(literalRefs, [val |-> val, insn |-> code, pc |-> pc + 4])

(* gum_thumb_writer_put_ldr_reg_u32 (put_ldr_reg_address casts its address
   to 32 bits and calls it): the reference is recorded, then a T1 ldr for a
   low register, or a T2 ldr.w with U = 1 for any other, is emitted with a
   zero offset; when the table is full nothing is emitted. *)
PutLdrRegU32(reg, val) ==
  /\ AddLiteralReferenceHere(val)
  /\ pendingLoads' = pendingLoads \cup {[insn |-> code, reg |-> reg, val |-> val]}
  /\ Emit(LdrRegLiteral(reg))
  /\ UNCHANGED <<base, targetOs, idToAddress, labelRefs, pendingBranches,
                 branches, loads, pool, emitted, calls>>

-----------------------------------------------------------------------------
(* Raw emission.                                                           *)

(* gum_thumb_writer_put_instruction *)
PutInstruction(insn) ==
  /\ Emit(<<insn>>)
  /\ UNCHANGED <<base, targetOs, idToAddress, labelRefs, literalRefs,
                 history>>

(* gum_thumb_writer_put_nop *)
PutNop == PutInstruction(\h46C0)

(* gum_thumb_writer_put_breakpoint, with put_bkpt_imm (0) and put_bx_reg (LR)
   on targets other than Linux and Android. *)
PutBreakpoint ==
  /\ IF targetOs \in {"linux", "android"}
       THEN Emit(<<\hDE01>>)
       ELSE Emit(BkptImm(0) \o BxReg(LR))
  /\ UNCHANGED <<base, targetOs, idToAddress, labelRefs, literalRefs,
                 history>>

(* gum_thumb_writer_put_bytes: an odd length is refused; the bytes are the
   caller's, so the halfwords they cover are no longer known. *)
PutBytes(n) ==
  /\ n % 2 = 0
  /\ mem' = [a \in {x \in DOMAIN mem : x < code \/ x >= code + n} |-> mem[a]]
  /\ code' = code + n
  /\ pc' = pc + n
  /\ UNCHANGED <<base, targetOs, idToAddress, labelRefs, literalRefs,
                 history>>

-----------------------------------------------------------------------------
(* The encoder operations. Each emits what its ThumbEncoder operator gives *)
(* and records the meaning it was asked for; a call that returns FALSE has *)
(* emitted nothing and changed nothing, so it is a stuttering step.        *)

PutEncoded(insns, meaning) ==
  /\ insns # << >>
  /\ Emit(insns)
  /\ emitted' = emitted \cup {[addr |-> code, size |-> Len(insns), meaning |-> meaning]}
  /\ UNCHANGED <<base, targetOs, idToAddress, labelRefs, literalRefs,
                 pendingBranches, pendingLoads, branches, loads, pool, calls>>

(* gum_thumb_writer_put_b_imm, put_bl_imm, put_blx_imm: a branch to target
   with bit 0 cleared (for b and bl, bit 0 is the Thumb bit). *)
PutBImm(target)   == PutEncoded(BranchImm(pc, target, 0, 1), BranchImmOp("b", target - (target % 2)))
PutBlImm(target)  == PutEncoded(BranchImm(pc, target, 1, 1), BranchImmOp("bl", target - (target % 2)))
PutBlxImm(target) == PutEncoded(BranchImm(pc, target, 1, 0), BranchImmOp("blx", target - (target % 2)))

(* gum_thumb_writer_put_bx_reg, put_blx_reg *)
PutBxReg(reg)  == PutEncoded(BxReg(reg), BranchRegOp("bx", reg))
PutBlxReg(reg) == PutEncoded(BlxReg(reg), BranchRegOp("blx", reg))

(* gum_thumb_writer_put_cmp_reg_imm, put_mov_reg_u8, put_bkpt_imm *)
PutCmpRegImm(reg, imm) == PutEncoded(CmpRegImm(reg, imm), CmpImmOp(reg, imm))
PutMovRegU8(dst, imm)  == PutEncoded(MovRegU8(dst, imm), MovImmOp(dst, imm))
PutBkptImm(imm)        == PutEncoded(BkptImm(imm), BkptOp(imm))

(* gum_thumb_writer_put_push_regs / _array, put_pop_regs / _array *)
PutPushRegs(regs) == PutEncoded(PushOrPopRegs(\hB400, \hE92D, LR, regs), StackOp("push", regs))
PutPopRegs(regs)  == PutEncoded(PushOrPopRegs(\hBC00, \hE8BD, PC, regs), StackOp("pop", regs))

(* gum_thumb_writer_put_ldr_reg_reg_offset and put_str_reg_reg_offset (and
   put_ldr_reg_reg / put_str_reg_reg, their offset 0 cases) *)
PutLdrRegRegOffset(dst, src, off) ==
  PutEncoded(TransferRegRegOffset(TRUE, dst, src, off), TransferOp(TRUE, dst, src, off))
PutStrRegRegOffset(src, dst, off) ==
  PutEncoded(TransferRegRegOffset(FALSE, src, dst, off), TransferOp(FALSE, src, dst, off))

(* gum_thumb_writer_put_mov_reg_reg: dst := src *)
PutMovRegReg(dst, src) == PutEncoded(MovRegReg(dst, src), AddImmOp(dst, src, 0))

(* gum_thumb_writer_put_add_reg_imm, and put_sub_reg_imm as add of -imm *)
PutAddRegImm(dst, imm) == PutEncoded(AddRegImm(dst, imm), AddImmOp(dst, dst, imm))
PutSubRegImm(dst, imm) == PutEncoded(AddRegImm(dst, -imm), AddImmOp(dst, dst, -imm))

(* gum_thumb_writer_put_add_reg_reg_reg, and put_add_reg_reg as dst, dst *)
PutAddRegRegReg(dst, left, right) ==
  PutEncoded(AddRegRegReg(dst, left, right), AddRegOp(dst, left, right))
PutAddRegReg(dst, src) == PutAddRegRegReg(dst, dst, src)

(* gum_thumb_writer_put_add_reg_reg_imm, put_sub_reg_reg_imm (add of -imm) *)
PutAddRegRegImm(dst, left, imm) ==
  PutEncoded(AddRegRegImm(dst, left, imm), AddImmOp(dst, left, imm))
PutSubRegRegImm(dst, left, imm) ==
  PutEncoded(AddRegRegImm(dst, left, -imm), AddImmOp(dst, left, -imm))

(* gum_thumb_writer_put_sub_reg_reg_reg, and put_sub_reg_reg as dst, dst *)
PutSubRegRegReg(dst, left, right) ==
  PutEncoded(SubRegRegReg(dst, left, right), SubRegOp(dst, left, right))
PutSubRegReg(dst, src) == PutSubRegRegReg(dst, dst, src)

-----------------------------------------------------------------------------
(* gum_thumb_writer_flush                                                  *)

(* The label loop's distance: (gint32) target - (gint32) r->pc, halved. *)
LabelDistance(target, refPc) == CDiv(target - refPc, 2)

(* Mutant: cbz/cbnz with imm5 left at bit 0 instead of bits 3..7. *)
PatchedBranchImm5Unshifted(insn, distance) ==
  CASE (insn & \hF000) = \hD000 ->
         IF IsWithinInt8Range(distance)
         THEN insn | LowBits(distance, 8) ELSE -1
    [] (insn & \hF800) = \hE000 ->
         IF IsWithinInt11Range(distance)
         THEN insn | LowBits(distance, 11) ELSE -1
    [] OTHER ->
         IF IsWithinUint7Range(distance)
         THEN insn | (Field(distance, 5, 1) * 2^9) | LowBits(distance, 5)
         ELSE -1

(* Mutant: b<cond> range-checked with the 11-bit check of b. *)
PatchedBranchCondInt11Check(insn, distance) ==
  CASE (insn & \hF000) = \hD000 ->
         IF IsWithinInt11Range(distance)
         THEN insn | LowBits(distance, 8) ELSE -1
    [] (insn & \hF800) = \hE000 ->
         IF IsWithinInt11Range(distance)
         THEN insn | LowBits(distance, 11) ELSE -1
    [] OTHER ->
         IF IsWithinUint7Range(distance)
         THEN insn | (Field(distance, 5, 1) * 2^9) | (LowBits(distance, 5) * 2^3)
         ELSE -1

(* The branch halfword insn with its displacement field filled in, chosen
   by the opcode's high bits, or -1 when distance does not fit the check. *)
PatchedBranch(insn, distance) ==
  CASE (insn & \hF000) = \hD000 ->
         IF IsWithinInt8Range(distance)
         THEN insn | LowBits(distance, 8) ELSE -1
    [] (insn & \hF800) = \hE000 ->
         IF IsWithinInt11Range(distance)
         THEN insn | LowBits(distance, 11) ELSE -1
    [] OTHER ->
         IF IsWithinUint7Range(distance)
         THEN insn | (Field(distance, 5, 1) * 2^9) | (LowBits(distance, 5) * 2^3)
         ELSE -1

(* The label loop over refs in insertion order: [ok, mem]. It stops at the
   first reference whose label is undefined or whose distance is out of
   range; the references before that one stay patched. *)
RECURSIVE ResolveLabelRefs(_, _)
ResolveLabelRefs(m, refs) ==
  IF refs = << >> THEN [ok |-> TRUE, mem |-> m]
  ELSE
    LET r      == Head(refs)
        target == LookupAddressForLabelId(r.id)
        insn   == PatchedBranch(m[r.insn], LabelDistance(target, r.pc))
    IN  IF target = 0 \/ insn = -1
        THEN [ok |-> FALSE, mem |-> m]
        ELSE ResolveLabelRefs((r.insn :> insn) @@ m, Tail(refs))

(* The 32-bit slots first_slot .. last_slot - 1 of a pool. *)
Slots(first, last) == {first + 4 * k : k \in 0..((last - first) \div 4 - 1)}

(* Mutant: a pool that never reuses a slot. *)
SlotForNoReuse(m, first, last, val) == last

(* The linear scan of the allocated slots for val: the first slot holding
   it, or last_slot when none does. *)
SlotFor(m, first, last, val) ==
  LET holding == {s \in Slots(first, last) : Word(m, s) = val}
  IN  IF holding = {} THEN last
      ELSE CHOOSE s \in holding : \A t \in holding : s <= t

(* Mutant: ldr.w patched in its first halfword instead of its second. *)
PatchedLoadFirstHalfword(m, insn, distance) ==
  IF IsT1Load(m[insn])
  THEN (insn :> (m[insn] | LowBits(distance \div 4, 16))) @@ m
  ELSE (insn :> (m[insn] | LowBits(distance, 16))) @@ m

(* m with the load at insn patched by distance_in_bytes: /4 into the T1
   halfword, as is into the second halfword of ldr.w. *)
PatchedLoad(m, insn, distance) ==
  IF IsT1Load(m[insn])
  THEN (insn :> (m[insn] | LowBits(distance \div 4, 16))) @@ m
  ELSE (insn + 2 :> (m[insn + 2] | LowBits(distance, 16))) @@ m

(* The pool loop over refs in insertion order, from st = [mem, code, pc,
   last]: each value gets a slot (a new one at last_slot, stored little-
   endian, when no allocated slot holds it) and its load is patched with
   distance_in_bytes = slot_pc - (r->pc & ~3): /4 into the T1 halfword, as
   is into the second halfword of ldr.w. distance_in_bytes is a gsize, so a
   negative one wraps; only its low 16 bits (after /4 for T1) reach the
   halfword, and those are the same for a 32- and a 64-bit gsize. *)
RECURSIVE EmitLiteralPool(_, _, _)
EmitLiteralPool(st, first, refs) ==
  IF refs = << >> THEN st
  ELSE
    LET r      == Head(refs)
        slot   == SlotFor(st.mem, first, st.last, r.val)
        fresh  == slot = st.last
        m1     == IF fresh
                  THEN (slot :> LowBits(r.val, 16)) @@
                       (slot + 2 :> Field(r.val, 16, 16)) @@ st.mem
                  ELSE st.mem
        step   == IF fresh THEN 4 ELSE 0
        last1  == st.last + step
        pc1    == st.pc + step
        slotPc == pc1 - (last1 - first) + (slot - first)
        distance == slotPc - AlignDown4(r.pc)
        m2     == PatchedLoad(m1, r.insn, distance)
    IN  EmitLiteralPool([mem |-> m2, code |-> st.code + step, pc |-> pc1,
                         last |-> last1], first, Tail(refs))

(* Mutant: a pool that is never aligned. *)
PoolAlignmentOmitted(m) == 0

(* The bytes of the alignment nop: 2 when some literal load is a T1 ldr and
   pc is not word-aligned, else 0. *)
PoolAlignment(m) ==
  LET needAlignedSlots ==
        \E i \in 1..Len(literalRefs) : IsT1Load(m[literalRefs[i].insn])
  IN  IF needAlignedSlots /\ pc % 4 # 0 THEN 2 ELSE 0

(* Mutant: an error path that forgets the literal references. *)
FlushErrorKeepingLiterals(m) ==
  /\ mem' = m
  /\ labelRefs' = << >>
  /\ UNCHANGED <<literalRefs, code, pc, branches, loads, pool>>

(* flush's error path: both reference tables are emptied; the label
   patches already made stay, and nothing else is undone. *)
FlushError(m) ==
  /\ mem' = m
  /\ labelRefs' = << >> /\ literalRefs' = << >>
  /\ UNCHANGED <<code, pc, branches, loads, pool>>

(* flush: the label loop, then, when it succeeded, the alignment nop (only
   when some literal load is a T1 ldr and pc is not word-aligned) and the
   pool. On failure both reference tables are cleared and nothing else is
   undone. *)
Flush ==
  LET labels  == ResolveLabelRefs(mem, labelRefs)
      m1      == labels.mem
      pad     == PoolAlignment(m1)
      m2      == IF pad = 2 THEN (code :> \h46C0) @@ m1 ELSE m1
      first   == code + pad
      st      == EmitLiteralPool([mem |-> m2, code |-> first, pc |-> pc + pad,
                                  last |-> first], first, literalRefs)
  IN  /\ pendingBranches' = {}
      /\ pendingLoads' = {}
      /\ UNCHANGED <<base, targetOs, idToAddress, emitted, calls>>
      /\ \/ /\ ~labels.ok
            /\ FlushError(m1)
         \/ /\ labels.ok
            /\ labelRefs' = << >>
            /\ literalRefs' = << >>
            /\ mem' = st.mem
            /\ code' = st.code
            /\ pc' = st.pc
            /\ branches' = branches \cup
                 {[kind |-> b.kind, insn |-> b.insn,
                   target |-> LookupAddressForLabelId(b.id)] : b \in pendingBranches}
            /\ loads' = loads \cup pendingLoads
            /\ pool' = IF literalRefs = << >> THEN pool
                       ELSE [first |-> first, last |-> st.last,
                             values |-> {literalRefs[i].val : i \in 1..Len(literalRefs)}]

-----------------------------------------------------------------------------
(* The specification.                                                      *)

(* gum_thumb_writer_init: the tables start empty through reset. *)
Init ==
  /\ mem = << >>
  /\ \E address \in Bases :
       /\ targetOs = NativeOs
       /\ base = address /\ code = address /\ pc = address
       /\ idToAddress = << >> /\ labelRefs = << >> /\ literalRefs = << >>
       /\ pendingBranches = {} /\ pendingLoads = {}
       /\ branches = {} /\ loads = {} /\ pool = NoPool /\ emitted = {}
       /\ calls = {}

Next ==
  \/ \E address \in Bases : Reset(address)
  \/ \E os \in Oses : SetTargetOs(os)
  \/ \E n \in SkipSizes : Skip(n)
  \/ \E id \in LabelIds : PutLabel(id)
  \/ \E id \in LabelIds : PutBLabel(id)
  \/ \E cc \in CondCodes, id \in LabelIds : PutBCondLabel(cc, id)
  \/ \E reg \in LowRegs, id \in LabelIds : PutCbzRegLabel(reg, id)
  \/ \E reg \in LowRegs, id \in LabelIds : PutCbnzRegLabel(reg, id)
  \/ \E reg \in LdrRegs, val \in Values : PutLdrRegU32(reg, val)
  \/ \E insn \in RawInsns : PutInstruction(insn)
  \/ PutNop
  \/ PutBreakpoint
  \/ \E n \in FillSizes : PutBytes(n)
  \/ Flush
  \/ \E off \in BranchOffsets : PutBImm(pc + off)
  \/ \E off \in BranchOffsets : PutBlImm(pc + off)
  \/ \E off \in BlxOffsets : PutBlxImm(pc + off)
  \/ \E reg \in Regs : PutBxReg(reg)
  \/ \E reg \in Regs : PutBlxReg(reg)
  \/ \E reg \in LowOperandRegs, imm \in U8s : PutCmpRegImm(reg, imm)
  \/ \E dst \in LowOperandRegs, imm \in U8s : PutMovRegU8(dst, imm)
  \/ \E imm \in U8s : PutBkptImm(imm)
  \/ \E regs \in PushRegLists : PutPushRegs(regs)
  \/ \E regs \in PopRegLists : PutPopRegs(regs)
  \/ \E dst, src \in Regs, off \in Offsets : PutLdrRegRegOffset(dst, src, off)
  \/ \E src, dst \in Regs, off \in Offsets : PutStrRegRegOffset(src, dst, off)
  \/ \E dst, src \in Regs : PutMovRegReg(dst, src)
  \/ \E dst \in ImmDstRegs, imm \in Imms : PutAddRegImm(dst, imm)
  \/ \E dst \in ImmDstRegs, imm \in Imms : PutSubRegImm(dst, imm)
  \/ \E dst, src \in Regs : PutAddRegReg(dst, src)
  \/ \E dst, left, right \in LowOperandRegs : PutAddRegRegReg(dst, left, right)
  \/ \E dst \in LowOperandRegs, left \in AddLeftRegs, imm \in Imms :
        PutAddRegRegImm(dst, left, imm)
  \/ \E dst \in LowOperandRegs, left \in AddLeftRegs, imm \in Imms :
        PutSubRegRegImm(dst, left, imm)
  \/ \E dst, src \in LowOperandRegs : PutSubRegReg(dst, src)
  \/ \E dst, left, right \in LowOperandRegs : PutSubRegRegReg(dst, left, right)

Spec == Init /\ [][Next]_vars

-----------------------------------------------------------------------------
(* Reference decoders, after the ARM Architecture Reference Manual.        *)

(* The target of the branch at a: B T1 (1101 cond imm8), B T2 (11100
   imm11) or CBZ/CBNZ (1011 op0i1 imm5 Rn); -1 when there is none. *)
BranchTarget(m, a) ==
  LET hw == m[a] IN
  CASE Field(hw, 12, 4) = \hD ->
         a + 4 + 2 * SignExtend(Field(hw, 0, 8), 8)
    [] Field(hw, 11, 5) = \h1C ->
         a + 4 + 2 * SignExtend(Field(hw, 0, 11), 11)
    [] Field(hw, 12, 4) = \hB /\ Field(hw, 10, 1) = 0 /\ Field(hw, 8, 1) = 1 ->
         a + 4 + 2 * (32 * Field(hw, 9, 1) + Field(hw, 3, 5))
    [] OTHER -> -1

(* The register and address of the literal load at a: LDR (literal) T1
   (01001 Rt imm8) or T2 (11111000 U1011111, Rt imm12), both relative to
   Align(PC, 4); rt = -1 when there is none. *)
LiteralLoad(m, a) ==
  LET hw1  == m[a]
      hw2  == IF a + 2 \in DOMAIN m THEN m[a + 2] ELSE 0
      base4 == AlignDown4(a + 4)
  IN  CASE Field(hw1, 11, 5) = \h09 ->
             [rt |-> Field(hw1, 8, 3), address |-> base4 + 4 * Field(hw1, 0, 8)]
        [] Field(hw1, 8, 8) = \hF8 /\ Field(hw1, 0, 7) = \h5F ->
             [rt |-> Field(hw2, 12, 4),
              address |-> base4 + (2 * Field(hw1, 7, 1) - 1) * Field(hw2, 0, 12)]
        [] OTHER -> [rt |-> -1, address |-> -1]

-----------------------------------------------------------------------------
(* Refinement of CodeBuffer: the cursor is code, the stream is mem, and    *)
(* the holes are the halfwords flush will patch for the pending label and  *)
(* literal references (the second halfword of an ldr.w).                  *)

PendingHoles ==
  {labelRefs[i].insn : i \in 1..Len(labelRefs)} \cup
  {IF IsT1Load(mem[literalRefs[i].insn]) THEN literalRefs[i].insn
   ELSE literalRefs[i].insn + 2 : i \in 1..Len(literalRefs)}

Buffer == INSTANCE CodeBuffer
            WITH Starts <- Bases, cursor <- code, stream <- mem, holes <- PendingHoles

-----------------------------------------------------------------------------
(* Invariants.                                                             *)

TypeOK ==
  /\ {base, code, pc} \subseteq Nat
  /\ base <= code
  /\ targetOs \in Oses
  /\ \A a \in DOMAIN mem : mem[a] \in 0..(2^16 - 1)
  /\ idToAddress \in Seq([id : LabelIds, address : Nat])
  /\ labelRefs \in Seq([id : LabelIds, insn : Nat, pc : Nat])
  /\ literalRefs \in Seq([val : Values, insn : Nat, pc : Nat])
  /\ Len(idToAddress) <= MaxLabelCount
  /\ Len(labelRefs) <= MaxLrefCount
  /\ Len(literalRefs) <= MaxLiteralRefCount
  /\ \A e \in emitted : e.addr \in Nat /\ e.size \in {1, 2}

(* Every encoder call that returned TRUE, decoded from memory now by the
   ARM reference decoder, is one instruction of the size it was emitted
   with that does what the call asked for: register fields, immediate
   scaling and sign, the narrow/wide choice and the branch offset bits all
   agree with the architecture, and nothing emitted or patched later
   (labels, pools, put_bytes) has overwritten it. *)
EncodingsSound ==
  \A e \in emitted :
    /\ e.addr \in DOMAIN mem
    /\ (IF Wide(mem[e.addr]) THEN 2 ELSE 1) = e.size
    /\ (e.size = 2 => e.addr + 2 \in DOMAIN mem)
    /\ Decode(e.addr, mem[e.addr],
              IF e.size = 2 THEN mem[e.addr + 2] ELSE 0) = e.meaning

(* Every b and b<cond> a successful flush patched, decoded from memory now,
   branches to the address its label had: the label loop's distance, its
   rounding, its range check and its masking agree with the ARM decoding,
   and no later emission, pool or flush has overwritten the patched code. *)
BranchFixupsSound ==
  \A b \in branches : b.kind = "branch" => BranchTarget(mem, b.insn) = b.target

(* The same for cbz/cbnz: the flush accepts the distance only if the
   instruction, decoded, reaches the label. *)
CbzFixupsSound ==
  \A b \in branches : b.kind = "cbz" => BranchTarget(mem, b.insn) = b.target

(* Every ldr reg, =val a successful flush patched, decoded from memory now,
   still names its register and loads, from a pool slot, the value asked
   for: the alignment nop, the slot search, slot_pc and the T1/T2 patching
   agree with PC-relative addressing. *)
LiteralLoadsSound ==
  \A l \in loads :
    LET d == LiteralLoad(mem, l.insn)
    IN  d.rt = l.reg /\ Word(mem, d.address) = l.val

(* The last pool holds each value of its flush's literal references in
   exactly one slot (spec: the number of pool slots equals the number of
   distinct values). *)
PoolDeduplicated ==
  LET slots == Slots(pool.first, pool.last)
  IN  /\ Cardinality(slots) = Cardinality(pool.values)
      /\ {Word(mem, s) : s \in slots} = pool.values

(* The writer implements CodeBuffer: every put_* and call sequence only
   appends at code, a flush changes earlier code only by OR-ing
   displacements into the placeholders of the references pending since the
   last flush (the ldr.w in its second halfword) before appending its pool,
   and a reset starts a new buffer. *)
WriterRefinesBuffer == Buffer!Spec

=============================================================================
