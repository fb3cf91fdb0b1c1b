\* cbz/cbnz whose label lies 126 bytes and more past the branch's PC: the
\* flush accepts distances up to 127 halfwords, the instruction holds 63.
CONSTANTS
  Bases = {4096}
  NativeOs = "linux"
  Oses = {"linux"}
  LabelIds = {L1}
  CondCodes = {}
  LowRegs = {0}
  LdrRegs = {}
  Values = {}
  RawInsns = {}
  FillSizes <- MCCbzFills
  Regs = {}
  LowOperandRegs = {}
  AddLeftRegs = {}
  ImmDstRegs = {}
  Imms = {}
  U8s = {}
  Offsets = {}
  PushRegLists = {}
  PopRegLists = {}
  BranchOffsets = {}
  BlxOffsets = {}
  SkipSizes = {}
  MaxLabelCount = 1
  MaxLiteralRefCount = 1
  MaxCodeBytes = 134
  MaxHalfwords = 4
SPECIFICATION Spec
CONSTRAINT CodeBound
INVARIANT CbzFixupsSound
