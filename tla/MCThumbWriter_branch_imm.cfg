\* b, bl and blx imm at both ends of the +-16 MiB range, from a word-aligned
\* pc (every instruction here is 32-bit, so pc stays word-aligned).
CONSTANTS
  Bases <- MCFarBases
  NativeOs = "linux"
  Oses = {"linux"}
  LabelIds = {}
  CondCodes = {}
  LowRegs = {}
  LdrRegs = {}
  Values = {}
  RawInsns = {}
  FillSizes = {}
  Regs = {}
  LowOperandRegs = {}
  AddLeftRegs = {}
  ImmDstRegs = {}
  Imms = {}
  U8s = {}
  Offsets = {}
  PushRegLists = {}
  PopRegLists = {}
  BranchOffsets <- MCFarOffsets
  BlxOffsets <- MCFarBlxOffsets
  SkipSizes = {}
  MaxLabelCount = 1
  MaxLiteralRefCount = 1
  MaxCodeBytes = 12
  MaxHalfwords = 100
SPECIFICATION Spec
CONSTRAINT CodeBound
CONSTRAINT WordAlignedPc
INVARIANT EncodingsSound
