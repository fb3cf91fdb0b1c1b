---------------------------- MODULE ThumbEncoder ----------------------------
(***************************************************************************)
(* The instruction encoders of gum/arch-arm/gumthumbwriter.c, as pure      *)
(* operators from a call's operands to the halfwords the call emits (the   *)
(* empty sequence when it returns FALSE having emitted nothing), and a     *)
(* reference decoder written from the ARM Architecture Reference Manual    *)
(* (ARMv7-A/R, Thumb encodings) that gives each emitted instruction the    *)
(* meaning a call asks for, so the two can be compared.                    *)
(*                                                                         *)
(* Registers are their ARM indices 0..15; gum_arm_reg_describe gives a     *)
(* register its index and a meta class numbered the same way, so the      *)
(* code's meta comparisons are comparisons of indices here.                *)
(***************************************************************************)
EXTENDS Integers, Sequences, Bitwise
LOCAL INSTANCE FiniteSetsExt

SP == 13
LR == 14
PC == 15

(* bits lo .. lo+width-1 of x *)
Field(x, lo, width) == (x \div 2^lo) % 2^width

(* x & mask for a mask of the low `width` bits, on two's complement x *)
LowBits(x, width) == x % 2^width

(* C's / on signed integers, which rounds toward zero *)
CDiv(a, b) == IF a >= 0 THEN a \div b ELSE -((-a) \div b)

(* ABS () *)
Abs(x) == IF x < 0 THEN -x ELSE x

SignExtend(x, width) == IF x >= 2^(width - 1) THEN x - 2^width ELSE x

AlignDown4(a) == a - (a % 4)

(* gum_arm_reg_describe: meta <= GUM_ARM_MREG_R7 *)
IsLowReg(r) == r <= 7

(* The mask with one bit per register of regs. *)
RegMask(regs) == MapThenSumSet(LAMBDA r : 2^r, regs)

-----------------------------------------------------------------------------
(* The encoders. link and thumb are 0 or 1, as the gboolean shifted in.    *)

(* Mutant: J1 and J2 taken from each other's distance bit. *)
BranchImmJSwapped(pc, target, link, thumb) ==
  LET d  == CDiv((target - (target % 2)) - (pc + 4), 2)
      u  == d % 2^23
      s  == IF d < 0 THEN 1 ELSE 0
      j1 == 1 - (Field(u, 21, 1) ^^ s)
      j2 == 1 - (Field(u, 22, 1) ^^ s)
  IN  << \hF000 | (s * 2^10) | Field(u, 11, 10),
         \h8000 | (link * 2^14) | (j1 * 2^13) | (thumb * 2^12) | (j2 * 2^11)
           | Field(u, 0, 11) >>

(* gum_thumb_writer_put_branch_imm: B.W / BL / BLX (immediate), T4/T1/T2.
   The halfword distance from pc + 4 to target with bit 0 cleared goes into
   S:J1:J2:imm10:imm11 with J = NOT (I XOR S); nothing checks its range.
   The (gint32) casts are the identity on the addresses modelled (all below
   2^31); of distance.u only bit 31 (the sign) and bits 0..22 (the low bits
   of the two's complement, d % 2^23) are used. *)
BranchImm(pc, target, link, thumb) ==
  LET d  == CDiv((target - (target % 2)) - (pc + 4), 2)
      u  == d % 2^23
      s  == IF d < 0 THEN 1 ELSE 0
      j1 == 1 - (Field(u, 22, 1) ^^ s)
      j2 == 1 - (Field(u, 21, 1) ^^ s)
  IN  << \hF000 | (s * 2^10) | Field(u, 11, 10),
         \h8000 | (link * 2^14) | (j1 * 2^13) | (thumb * 2^12) | (j2 * 2^11)
           | Field(u, 0, 11) >>

(* The load gum_thumb_writer_put_ldr_reg_u32 emits before its pool slot is
   known: LDR (literal) T1 for a low register, else T2 ldr.w with U = 1;
   both with a zero offset. *)
LdrRegLiteral(reg) ==
  IF IsLowReg(reg) THEN << \h4800 | (reg * 2^8) >>
  ELSE << \hF85F | (1 * 2^7), reg * 2^12 >>

(* gum_thumb_writer_put_bx_reg, gum_thumb_writer_put_blx_reg *)
BxReg(reg)  == << \h4700 | (reg * 2^3) >>
BlxReg(reg) == << \h4780 | (reg * 2^3) >>

(* gum_thumb_writer_put_cmp_reg_imm *)
CmpRegImm(reg, imm) == << \h2800 | (reg * 2^8) | imm >>

(* gum_thumb_writer_put_bkpt_imm *)
BkptImm(imm) == << \hBE00 | imm >>

(* gum_thumb_writer_put_push_or_pop_regs: nothing for an empty list; the
   16-bit form when every register is low or the special one (LR for push,
   PC for pop, as bit 8); otherwise the wide opcode and a 16-bit mask. *)
PushOrPopRegs(narrowOpcode, wideOpcode, specialReg, regs) ==
  CASE regs = {} -> << >>
    [] \E r \in regs : ~IsLowReg(r) /\ r # specialReg ->
         << wideOpcode, RegMask(regs) >>
    [] OTHER ->
         << narrowOpcode | (IF specialReg \in regs THEN \h0100 ELSE 0)
              | RegMask(regs \ {specialReg}) >>

(* gum_thumb_writer_put_transfer_reg_reg_offset: the 16-bit [Rn, #imm5*4]
   or [SP, #imm8*4] form when it can hold the operands, else the 32-bit
   imm12 form, which fails beyond 4095. load sets bit 11 (bit 4 of hw1). *)
TransferRegRegOffset(load, left, right, offset) ==
  IF /\ IsLowReg(left)
     /\ IsLowReg(right) \/ right = SP
     /\ \/ right = SP /\ offset <= 1020
        \/ right # SP /\ offset <= 124
     /\ offset % 4 = 0
  THEN << (IF right = SP
           THEN \h9000 | (left * 2^8) | (offset \div 4)
           ELSE \h6000 | ((offset \div 4) * 2^6) | (right * 2^3) | left)
          | (IF load THEN \h0800 ELSE 0) >>
  ELSE IF offset > 4095 THEN << >>
  ELSE << \hF8C0 | (IF load THEN \h0010 ELSE 0) | right,
          (left * 2^12) | offset >>

(* gum_thumb_writer_put_mov_reg_reg: ADDS Rd, Rn, #0 for two low registers,
   else MOV (register) T1 with D:Rd, GUM_ARM_MREG_R8 subtracted from a high
   destination's index. *)
MovRegReg(dst, src) ==
  IF IsLowReg(dst) /\ IsLowReg(src)
  THEN << \h1C00 | (src * 2^3) | dst >>
  ELSE << \h4600 | ((IF IsLowReg(dst) THEN 0 ELSE 1) * 2^7) | (src * 2^3)
            | (IF IsLowReg(dst) THEN dst ELSE dst - 8) >>

(* gum_thumb_writer_put_mov_reg_u8 *)
MovRegU8(dst, imm) == << \h2000 | (dst * 2^8) | imm >>

(* gum_thumb_writer_put_add_reg_imm: for SP, a multiple of 4 as ADD/SUB
   (SP plus immediate) T2 with imm7 = |imm / 4|; for any other register,
   ADDS/SUBS T2 with imm8 = |imm|. Neither magnitude is checked; the result
   is truncated to the guint16 insn. *)
AddRegImm(dst, imm) ==
  IF dst = SP
  THEN IF imm % 4 # 0 THEN << >>
       ELSE << LowBits(\hB000 | (IF imm < 0 THEN \h0080 ELSE 0)
                         | Abs(CDiv(imm, 4)), 16) >>
  ELSE << LowBits(\h3000 | (IF imm < 0 THEN \h0800 ELSE 0) | (dst * 2^8)
                    | Abs(imm), 16) >>

(* gum_thumb_writer_put_add_reg_reg_reg: ADD (register) T2 when left is the
   destination, else ADDS (register) T1. *)
AddRegRegReg(dst, left, right) ==
  IF left = dst
  THEN << \h4400 | (IF IsLowReg(dst) THEN dst ELSE \h0080 | (dst - 8))
            | (right * 2^3) >>
  ELSE << \h1800 | (right * 2^6) | (left * 2^3) | dst >>

(* Mutant: the ADR / ADD SP form given the byte offset, not imm / 4. *)
AddRegRegImmUnscaled(dst, left, imm) ==
  CASE left = dst -> AddRegImm(dst, imm)
    [] left \in {SP, PC} ->
         IF imm < 0 \/ imm % 4 # 0 THEN << >>
         ELSE << LowBits(\hA000 | (IF left = SP THEN \h0800 ELSE 0)
                           | (dst * 2^8) | imm, 16) >>
    [] OTHER ->
         IF Abs(imm) > 7 THEN << >>
         ELSE << \h1C00 | (IF imm < 0 THEN \h0200 ELSE 0) | (Abs(imm) * 2^6)
                   | (left * 2^3) | dst >>

(* gum_thumb_writer_put_add_reg_reg_imm: add_reg_imm when left is the
   destination; ADR / ADD (SP plus immediate) T1 for an SP or PC left and a
   non-negative multiple of 4 (imm / 4 unchecked); else ADDS/SUBS imm3,
   failing beyond 7. *)
AddRegRegImm(dst, left, imm) ==
  CASE left = dst -> AddRegImm(dst, imm)
    [] left \in {SP, PC} ->
         IF imm < 0 \/ imm % 4 # 0 THEN << >>
         ELSE << LowBits(\hA000 | (IF left = SP THEN \h0800 ELSE 0)
                           | (dst * 2^8) | (imm \div 4), 16) >>
    [] OTHER ->
         IF Abs(imm) > 7 THEN << >>
         ELSE << \h1C00 | (IF imm < 0 THEN \h0200 ELSE 0) | (Abs(imm) * 2^6)
                   | (left * 2^3) | dst >>

(* gum_thumb_writer_put_sub_reg_reg_reg: SUBS (register) T1 *)
SubRegRegReg(dst, left, right) ==
  << \h1A00 | (right * 2^6) | (left * 2^3) | dst >>

-----------------------------------------------------------------------------
(* What a call asks for. A register copy is "rd := rm + 0"; flags are not  *)
(* part of a meaning.                                                      *)

AddImmOp(rd, rn, imm)   == [op |-> "add_imm", rd |-> rd, rn |-> rn, imm |-> imm]
AddRegOp(rd, rn, rm)    == [op |-> "add_reg", rd |-> rd, rn |-> rn, rm |-> rm]
SubRegOp(rd, rn, rm)    == [op |-> "sub_reg", rd |-> rd, rn |-> rn, rm |-> rm]
MovImmOp(rd, imm)       == [op |-> "mov_imm", rd |-> rd, imm |-> imm]
CmpImmOp(rn, imm)       == [op |-> "cmp_imm", rn |-> rn, imm |-> imm]
TransferOp(load, rt, rn, imm) ==
  [op |-> IF load THEN "ldr" ELSE "str", rt |-> rt, rn |-> rn, imm |-> imm]
StackOp(op, regs)       == [op |-> op, regs |-> regs]
BranchRegOp(op, rm)     == [op |-> op, rm |-> rm]
BranchImmOp(op, target) == [op |-> op, target |-> target]
BkptOp(imm)             == [op |-> "bkpt", imm |-> imm]
Unpredictable           == [op |-> "unpredictable"]

-----------------------------------------------------------------------------
(* The reference decoder. Wide(hw1) tells a 32-bit encoding by its first   *)
(* halfword; Decode(a, hw1, hw2) is the meaning of the instruction at a.   *)

Wide(hw1) == Field(hw1, 11, 5) \in {\h1D, \h1E, \h1F}

(* PUSH.W / POP.W (STMDB / LDMIA SP! T2): SP never in the list, PC never in
   a push, not both LR and PC in a pop, and at least two registers (a
   single register needs the STR / LDR T4 form). *)
WideStackOp(op, list) ==
  LET regs == {r \in 0..15 : Field(list, r, 1) = 1}
  IN  IF \/ SP \in regs
         \/ Cardinality(regs) < 2
         \/ op = "push" /\ PC \in regs
         \/ op = "pop" /\ {LR, PC} \subseteq regs
      THEN Unpredictable
      ELSE StackOp(op, regs)

(* B.W T4, BL T1 and BLX T2: imm32 = S:I1:I2:imm10:imm11:0 with
   I = NOT (J XOR S); BLX is relative to Align(PC, 4) and is undefined when
   its H bit (bit 0 of imm11) is set. *)
BranchImmDecode(a, hw1, hw2) ==
  LET s   == Field(hw1, 10, 1)
      i1  == 1 - (Field(hw2, 13, 1) ^^ s)
      i2  == 1 - (Field(hw2, 11, 1) ^^ s)
      off == SignExtend(s * 2^24 + i1 * 2^23 + i2 * 2^22
                          + Field(hw1, 0, 10) * 2^12 + Field(hw2, 0, 11) * 2, 25)
  IN  CASE Field(hw2, 12, 1) = 1 ->
             BranchImmOp(IF Field(hw2, 14, 1) = 1 THEN "bl" ELSE "b", a + 4 + off)
        [] Field(hw2, 0, 1) = 0 ->
             BranchImmOp("blx", AlignDown4(a + 4) + off)
        [] OTHER -> Unpredictable

Decode(a, hw1, hw2) ==
  LET rd == Field(hw1, 0, 3)
      rn == Field(hw1, 3, 3)
      r8 == Field(hw1, 8, 3)
      imm8 == Field(hw1, 0, 8)
  IN
  CASE Field(hw1, 9, 7) = \h0C -> AddRegOp(rd, rn, Field(hw1, 6, 3))
    [] Field(hw1, 9, 7) = \h0D -> SubRegOp(rd, rn, Field(hw1, 6, 3))
    [] Field(hw1, 9, 7) = \h0E -> AddImmOp(rd, rn, Field(hw1, 6, 3))
    [] Field(hw1, 9, 7) = \h0F -> AddImmOp(rd, rn, -Field(hw1, 6, 3))
    [] Field(hw1, 11, 5) = \h04 -> MovImmOp(r8, imm8)
    [] Field(hw1, 11, 5) = \h05 -> CmpImmOp(r8, imm8)
    [] Field(hw1, 11, 5) = \h06 -> AddImmOp(r8, r8, imm8)
    [] Field(hw1, 11, 5) = \h07 -> AddImmOp(r8, r8, -imm8)
    [] Field(hw1, 8, 8) = \h44 ->
         LET dn == Field(hw1, 7, 1) * 8 + rd
         IN  AddRegOp(dn, dn, Field(hw1, 3, 4))
    [] Field(hw1, 8, 8) = \h46 ->
         AddImmOp(Field(hw1, 7, 1) * 8 + rd, Field(hw1, 3, 4), 0)
    [] Field(hw1, 7, 9) = \h8E /\ rd = 0 -> BranchRegOp("bx", Field(hw1, 3, 4))
    [] Field(hw1, 7, 9) = \h8F /\ rd = 0 /\ Field(hw1, 3, 4) # PC ->
         BranchRegOp("blx", Field(hw1, 3, 4))
    [] Field(hw1, 12, 4) = \h6 ->
         TransferOp(Field(hw1, 11, 1) = 1, rd, rn, 4 * Field(hw1, 6, 5))
    [] Field(hw1, 12, 4) = \h9 ->
         TransferOp(Field(hw1, 11, 1) = 1, r8, SP, 4 * imm8)
    [] Field(hw1, 11, 5) = \h14 -> AddImmOp(r8, PC, 4 * imm8)
    [] Field(hw1, 11, 5) = \h15 -> AddImmOp(r8, SP, 4 * imm8)
    [] Field(hw1, 7, 9) = \h160 -> AddImmOp(SP, SP, 4 * Field(hw1, 0, 7))
    [] Field(hw1, 7, 9) = \h161 -> AddImmOp(SP, SP, -4 * Field(hw1, 0, 7))
    [] Field(hw1, 9, 7) = \h5A /\ Field(hw1, 0, 9) # 0 ->
         StackOp("push", {r \in 0..7 : Field(hw1, r, 1) = 1}
                           \cup (IF Field(hw1, 8, 1) = 1 THEN {LR} ELSE {}))
    [] Field(hw1, 9, 7) = \h5E /\ Field(hw1, 0, 9) # 0 ->
         StackOp("pop", {r \in 0..7 : Field(hw1, r, 1) = 1}
                          \cup (IF Field(hw1, 8, 1) = 1 THEN {PC} ELSE {}))
    [] Field(hw1, 8, 8) = \hBE -> BkptOp(imm8)
    [] Field(hw1, 4, 12) = \hF8C /\ Field(hw1, 0, 4) # PC /\ Field(hw2, 12, 4) # PC ->
         TransferOp(FALSE, Field(hw2, 12, 4), Field(hw1, 0, 4), Field(hw2, 0, 12))
    [] Field(hw1, 4, 12) = \hF8D ->
         TransferOp(TRUE, Field(hw2, 12, 4), Field(hw1, 0, 4), Field(hw2, 0, 12))
    [] hw1 = \hE92D /\ Field(hw2, 13, 1) = 0 /\ Field(hw2, 15, 1) = 0 ->
         WideStackOp("push", hw2)
    [] hw1 = \hE8BD /\ Field(hw2, 13, 1) = 0 -> WideStackOp("pop", hw2)
    [] Field(hw1, 11, 5) = \h1E /\ Field(hw2, 15, 1) = 1
         /\ (Field(hw2, 12, 1) = 1 \/ Field(hw2, 14, 1) = 1) ->
         BranchImmDecode(a, hw1, hw2)
    [] OTHER -> Unpredictable

=============================================================================
