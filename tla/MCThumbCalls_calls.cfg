\* Call sequences with argument lists the setup passes correctly, two calls
\* per reset, flushed from a word- and a halfword-aligned start.
CONSTANTS
  Bases = {4096, 4098}
  NativeOs = "linux"
  Oses = {"linux"}
  LabelIds = {}
  CondCodes = {}
  LowRegs = {}
  LdrRegs = {}
  Values = {5, 65541}
  RawInsns = {}
  FillSizes = {}
  Regs = {}
  LowOperandRegs = {}
  AddLeftRegs = {}
  ImmDstRegs = {}
  Imms = {}
  U8s = {}
  Offsets = {}
  PushRegLists = {}
  PopRegLists = {}
  BranchOffsets = {}
  BlxOffsets = {}
  SkipSizes = {}
  MaxLabelCount = 1
  MaxLiteralRefCount = 8
  CallFuncs = {5}
  CallRegs = {4}
  CallArgLists <- MCCallArgLists
  MaxCalls = 2
  MaxCodeBytes = 4
  MaxHalfwords = 100
SPECIFICATION CallsSpec
CONSTRAINT CallBound
INVARIANT CallArgumentsPassed
PROPERTY WriterRefinesBuffer
