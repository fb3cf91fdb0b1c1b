\* Every encoder operation over operands at the edges of its forms, one or
\* two instructions from a word-aligned base, against the ARM decoder.
CONSTANTS
  Bases = {4096}
  NativeOs = "linux"
  Oses = {"linux"}
  LabelIds = {}
  CondCodes = {}
  LowRegs = {}
  LdrRegs = {}
  Values = {}
  RawInsns = {}
  FillSizes = {}
  Regs <- MCRegs
  LowOperandRegs <- MCLowOperandRegs
  AddLeftRegs <- MCAddLeftRegs
  ImmDstRegs <- MCImmDstRegs
  Imms <- MCImms
  U8s <- MCU8s
  Offsets <- MCOffsets
  PushRegLists <- MCPushRegLists
  PopRegLists <- MCPopRegLists
  BranchOffsets <- MCBranchOffsets
  BlxOffsets = {}
  SkipSizes = {}
  MaxLabelCount = 1
  MaxLiteralRefCount = 1
  MaxCodeBytes = 4
  MaxHalfwords = 100
SPECIFICATION Spec
CONSTRAINT CodeBound
INVARIANT EncodingsSound
