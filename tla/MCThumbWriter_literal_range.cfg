\* A T1 ldr followed by about 1 KiB of code before flush: the pool slot
\* ends up more than 1020 bytes past the load's aligned PC.
CONSTANTS
  Bases = {4096}
  NativeOs = "linux"
  Oses = {"linux"}
  LabelIds = {}
  CondCodes = {}
  LowRegs = {}
  LdrRegs = {0}
  Values = {5}
  RawInsns = {}
  FillSizes <- MCLiteralFills
  Regs = {}
  LowOperandRegs = {}
  AddLeftRegs = {}
  ImmDstRegs = {}
  Imms = {}
  U8s = {}
  Offsets = {}
  PushRegLists = {}
  PopRegLists = {}
  BranchOffsets = {}
  BlxOffsets = {}
  SkipSizes = {}
  MaxLabelCount = 1
  MaxLiteralRefCount = 1
  MaxCodeBytes = 1040
  MaxHalfwords = 5
SPECIFICATION Spec
CONSTRAINT CodeBound
INVARIANT LiteralLoadsSound
