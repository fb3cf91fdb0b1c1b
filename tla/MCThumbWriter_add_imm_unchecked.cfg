\* add r0, #256: an immediate beyond the 8 bits of ADDS T2.
CONSTANTS
  Bases = {4096}
  NativeOs = "linux"
  Oses = {"linux"}
  LabelIds = {}
  CondCodes = {}
  LowRegs = {}
  LdrRegs = {}
  Values = {}
  RawInsns = {}
  FillSizes = {}
  Regs = {}
  LowOperandRegs = {}
  AddLeftRegs = {}
  ImmDstRegs = {0}
  Imms = {256}
  U8s = {}
  Offsets = {}
  PushRegLists = {}
  PopRegLists = {}
  BranchOffsets = {}
  BlxOffsets = {}
  SkipSizes = {}
  MaxLabelCount = 1
  MaxLiteralRefCount = 1
  MaxCodeBytes = 4
  MaxHalfwords = 100
SPECIFICATION Spec
CONSTRAINT CodeBound
INVARIANT EncodingsSound
