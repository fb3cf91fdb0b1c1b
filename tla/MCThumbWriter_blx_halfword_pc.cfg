\* blx imm to a word-aligned ARM target from a halfword-aligned pc.
CONSTANTS
  Bases = {4098}
  NativeOs = "linux"
  Oses = {"linux"}
  LabelIds = {}
  CondCodes = {}
  LowRegs = {}
  LdrRegs = {}
  Values = {}
  RawInsns = {}
  FillSizes = {}
  Regs = {}
  LowOperandRegs = {}
  AddLeftRegs = {}
  ImmDstRegs = {}
  Imms = {}
  U8s = {}
  Offsets = {}
  PushRegLists = {}
  PopRegLists = {}
  BranchOffsets = {}
  BlxOffsets = {6}
  SkipSizes = {}
  MaxLabelCount = 1
  MaxLiteralRefCount = 1
  MaxCodeBytes = 4
  MaxHalfwords = 100
SPECIFICATION Spec
CONSTRAINT CodeBound
INVARIANT EncodingsSound
