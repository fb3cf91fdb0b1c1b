\* beq and b whose labels lie at and just beyond the edges of the signed
\* 8-bit b<cond> (-128..127 halfwords) and 11-bit b (-1024..1023)
\* displacement fields, in both directions: one 250- or 2040-byte fill
\* plus a few halfwords.
CONSTANTS
  Bases = {4096}
  NativeOs = "linux"
  Oses = {"linux"}
  LabelIds = {L1}
  LowRegs = {}
  LdrRegs = {}
  Values = {}
  RawInsns = {}
  FillSizes <- MCBranchFills
  CondCodes <- MCCondCodes
  Regs = {}
  LowOperandRegs = {}
  AddLeftRegs = {}
  ImmDstRegs = {}
  Imms = {}
  U8s = {}
  Offsets = {}
  PushRegLists = {}
  PopRegLists = {}
  BranchOffsets = {}
  BlxOffsets = {}
  SkipSizes = {}
  MaxLabelCount = 1
  MaxLiteralRefCount = 1
  MaxCodeBytes = 2054
  MaxHalfwords = 5
SPECIFICATION Spec
CONSTRAINT CodeBound
CONSTRAINT OneFill
INVARIANT BranchFixupsSound
