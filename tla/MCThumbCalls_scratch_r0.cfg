\* A call whose second argument is r0 and whose fifth is an address: the
\* setup loads the fifth into r0 to push it before it copies r0 to r1.
CONSTANTS
  Bases = {4096}
  NativeOs = "linux"
  Oses = {"linux"}
  LabelIds = {}
  CondCodes = {}
  LowRegs = {}
  LdrRegs = {}
  Values = {5, 65541}
  RawInsns = {}
  FillSizes = {}
  Regs = {}
  LowOperandRegs = {}
  AddLeftRegs = {}
  ImmDstRegs = {}
  Imms = {}
  U8s = {}
  Offsets = {}
  PushRegLists = {}
  PopRegLists = {}
  BranchOffsets = {}
  BlxOffsets = {}
  SkipSizes = {}
  MaxLabelCount = 1
  MaxLiteralRefCount = 8
  CallFuncs = {5}
  CallRegs = {4}
  CallArgLists <- MCClobberArgLists
  MaxCalls = 1
  MaxCodeBytes = 4
  MaxHalfwords = 100
SPECIFICATION CallsSpec
CONSTRAINT CallBound
INVARIANT CallArgumentsPassed
