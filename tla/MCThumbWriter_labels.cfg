\* Label definitions and b / beq / cbz / cbnz references at short distances,
\* with one literal load so that flush also emits a pool after patching.
CONSTANTS
  Bases = {4098}
  NativeOs = "linux"
  Oses = {"linux"}
  LabelIds = {L1, L2}
  CondCodes <- MCCondCodes
  LowRegs = {0}
  LdrRegs = {0}
  Values = {5}
  RawInsns = {}
  FillSizes = {}
  Regs = {}
  LowOperandRegs = {}
  AddLeftRegs = {}
  ImmDstRegs = {}
  Imms = {}
  U8s = {}
  Offsets = {}
  PushRegLists = {}
  PopRegLists = {}
  BranchOffsets = {}
  BlxOffsets = {}
  SkipSizes = {2}
  MaxLabelCount = 1
  MaxLiteralRefCount = 1
  MaxCodeBytes = 8
  MaxHalfwords = 100
SPECIFICATION Spec
SYMMETRY LabelSymmetry
CONSTRAINT CodeBound
INVARIANT TypeOK
INVARIANT BranchFixupsSound
INVARIANT CbzFixupsSound
