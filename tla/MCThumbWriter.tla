--------------------------- MODULE MCThumbWriter ---------------------------
(***************************************************************************)
(* Model-checking instances of ThumbWriter. Each .cfg picks the constant   *)
(* definitions below and bounds the code region with CodeBound.            *)
(***************************************************************************)
EXTENDS ThumbWriter

CONSTANTS
  MaxCodeBytes,   (* bound on pc - base explored by TLC                   *)
  MaxHalfwords    (* bound on the halfwords the writer itself has stored  *)

(* A halfword-aligned and a word-aligned region start. *)
MCBases == {\h1000, \h1002}

(* A value whose high halfword is zero and one whose high halfword is not. *)
MCValues == {\h5, \h10005}

(* ldr to a low register (T1) and to LR (T2 ldr.w). *)
MCLdrRegs == {0, 14}

(* beq *)
MCCondCodes == {1}

(* A fill that puts a label at the edge of the b<cond> range (-128..127
   halfwords from the branch's PC) within a few halfwords. *)
MCCondFills == {250}

(* A fill that does the same for the b range (-1024..1023 halfwords). *)
MCUncondFills == {2040}

(* Both, for one run over the edges of both branch fields. *)
MCBranchFills == MCCondFills \cup MCUncondFills

(* A fill that puts a cbz target 63 to 65 halfwords past the branch's PC. *)
MCCbzFills == {126}

(* A fill that puts a T1 ldr 1020 to 1028 bytes before its pool slot. *)
MCLiteralFills == {1020, 1024}

(* Encoder operands: a low register, r8, SP and LR where any register is
   taken; two low registers for the low-only forms; a low register and SP
   as the destination of add/sub #imm. *)
MCRegs == {0, 8, 13, 14}
MCLowOperandRegs == {0, 7}
MCImmDstRegs == {0, 13}
MCAddLeftRegs == {0, 7, 13, 15}

(* Immediates that take every add/sub path both ways: -8 and 7 at the
   edge of the imm3 form, 252 a multiple of 4 for SP and the ADR/ADD SP
   forms, 255 the largest imm8 and not a multiple of 4. *)
MCImms == {-8, 7, 252, 255}

MCU8s == {0, 255}

(* Offsets at the edges of the narrow [Rn, #imm5*4] (124) and [SP,
   #imm8*4] (1020) forms and of the imm12 form (4095), one past each, and
   an unaligned one. *)
MCOffsets == {0, 2, 124, 128, 1020, 1024, 4095, 4096}

(* Lists for the narrow form with and without the special register, and
   for the wide form with two registers. *)
MCPushRegLists == {{0}, {0, 7, 14}, {8, 14}}
MCPopRegLists == {{0}, {7, 15}, {8, 15}}

(* A branch back to the previous halfword and a bl to an odd (Thumb)
   address. *)
MCBranchOffsets == {-2, 5}

(* b, bl and blx at both ends of the +-16 MiB range of BL/BLX/B.W from a
   word-aligned pc: the halfword distance -2^23 and 2^23 - 1 (2^23 - 2 for
   blx, which needs a word-aligned target); and the distances 2^21 and
   -2^22, whose bits 21 and 22 (I2 and I1) differ. *)
MCFarBases == {2^24 + \h1000}
MCFarOffsets == {4 - 2^24, 2^24 + 2, 4 + 2^22, 4 - 2^23}
MCFarBlxOffsets == {4 - 2^24, 2^24, 4 + 2^22, 4 - 2^23}

(* put_blx_imm is only right from a word-aligned pc (see the blx run). *)
WordAlignedPc == pc % 4 = 0

(* Label identities are interchangeable. *)
LabelSymmetry == Permutations(LabelIds)

(* At most one fill since the last reset: the bytes not stored by the
   writer are none or exactly one fill. *)
OneFill == pc - base - 2 * Cardinality(DOMAIN mem) \in {0} \cup FillSizes

CodeBound ==
  /\ pc - base <= MaxCodeBytes
  /\ Cardinality(DOMAIN mem) <= MaxHalfwords

=============================================================================
