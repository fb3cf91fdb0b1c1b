\* Three threads sharing one writer: the creator hands references out,
\* every holder may emit a branch to a label, a literal load or a nop,
\* define the label, flush or reset, and drops its reference. A freed
\* writer takes no more calls, so the run stops there.
CONSTANTS
  Threads = {T1, T2, T3}
  Bases = {4098}
  NativeOs = "linux"
  Oses = {"linux"}
  LabelIds = {L1}
  CondCodes = {}
  LowRegs = {}
  LdrRegs = {0}
  Values = {5}
  RawInsns = {}
  FillSizes = {}
  Regs = {}
  LowOperandRegs = {}
  AddLeftRegs = {}
  ImmDstRegs = {}
  Imms = {}
  U8s = {}
  Offsets = {}
  PushRegLists = {}
  PopRegLists = {}
  BranchOffsets = {}
  BlxOffsets = {}
  SkipSizes = {}
  MaxLabelCount = 1
  MaxLiteralRefCount = 1
  MaxCodeBytes = 4
  MaxHalfwords = 100
SPECIFICATION LifetimeSpec
CONSTRAINT LifetimeBound
CHECK_DEADLOCK FALSE
PROPERTY LifetimeRefinesHandle
PROPERTY PendingReferencesFlushed
PROPERTY WriterRefinesBuffer
