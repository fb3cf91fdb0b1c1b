\* ldr reg, =value into low (T1) and high (T2 ldr.w) registers from both a
\* word-aligned and a halfword-aligned start, with repeated values, raw
\* instructions and breakpoints in between, and flushes that emit pools.
CONSTANTS
  Bases <- MCBases
  NativeOs = "linux"
  Oses = {"linux", "windows"}
  LabelIds = {}
  CondCodes = {}
  LowRegs = {}
  LdrRegs <- MCLdrRegs
  Values <- MCValues
  RawInsns = {48896}
  FillSizes = {}
  Regs = {}
  LowOperandRegs = {}
  AddLeftRegs = {}
  ImmDstRegs = {}
  Imms = {}
  U8s = {}
  Offsets = {}
  PushRegLists = {}
  PopRegLists = {}
  BranchOffsets = {}
  BlxOffsets = {}
  SkipSizes = {2}
  MaxLabelCount = 1
  MaxLiteralRefCount = 2
  MaxCodeBytes = 12
  MaxHalfwords = 100
SPECIFICATION Spec
CONSTRAINT CodeBound
INVARIANT LiteralLoadsSound
INVARIANT PoolDeduplicated
