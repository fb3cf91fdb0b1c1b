# TLA+ model of the Thumb writer (`src/gum/arch-arm/gumthumbwriter.c`)

This directory holds TLA+ models of frida-gum's `GumThumbWriter`, the
configurations that check them with TLC, and `PROJECT.json`, which maps every
definition to the source lines it models.

## 1. The system

`GumThumbWriter` writes ARM Thumb/Thumb-2 instructions into a caller-owned
buffer. It is one object used by one thread. Nothing in it blocks, and it
exchanges no messages. The difficulty is **deferred state**: a branch to a
label, or a load of a 32-bit constant, is emitted with an empty offset
field. It is recorded in a table, and `gum_thumb_writer_flush` patches it
later. Between recording and patching, the caller may emit more code, define
labels, skip bytes, flush and reset. Each patch is written into a halfword the
writer emitted earlier. The literal pool is written after whatever the cursor
has reached by then.

### Components, their state and operations

| Component | Source | State | Operations |
|---|---|---|---|
| Lifecycle and cursor | `init`, `reset`, `clear`, `ref`/`unref`, `set_target_os`, `cur`, `offset`, `skip` (70–164) | `base`, `code`, `pc`, `target_os`, `ref_count` | new, ref, unref, clear, reset, set_target_os, skip; cur/offset are reads |
| Raw emission | `put_instruction`, `put_bytes`, `put_nop`, `put_bkpt_imm`, `put_breakpoint` (1135–1185) | cursor, buffer | each writes 1–2 halfwords or a byte run |
| Label table and branch fixups | `put_label`, `add_address_for_label_id`, `lookup_address_for_label_id`, `add_label_reference_here`, `put_b_label`, `put_b_cond_label`, `put_beq/bne_label`, `put_cbz/cbnz_reg_label`, flush's label loop (169–216, 292–350, 589–660) | `id_to_address[100]`, `label_refs[300]` | define a label; reference one; resolve all on flush |
| Literal pool | `add_literal_reference_here`, `put_ldr_reg_u32`, `put_ldr_reg_address`, flush's pool loop, `gum_instruction_is_t1_load` (218–279, 352–367, 803–836, 1187–1191) | `literal_refs[100]` | enrol a constant; emit the deduplicated pool and patch the loads on flush |
| Encoder | `put_branch_imm`, `put_b/bl/blx_imm`, `put_bx/blx_reg`, `put_cmp_reg_imm`, `put_push/pop_regs*`, `put_ldr/str_reg_reg[_offset]`, `put_mov_reg_reg`, `put_mov_reg_u8`, `put_add/sub_*` (506–587, 662–801, 838–1133) | none (pure encodings written through `put_instruction`) | one per mnemonic; some reject operands |
| Call sequences | `put_call_address_with_arguments[_array]`, `put_call_reg_with_arguments[_array]`, `put_argument_list_setup[_va]`, `_teardown` (369–504) | none of their own | compose ldr (literal), mov, push and blx |

### How the components interact

Every emitting operation goes through `put_instruction`. This advances `code`
and `pc` together. The label and literal operations first append to their
table a reference that holds the address of the halfword about to be written
(`insn`) and `pc + 4`. `flush` then runs in two phases:

1. It walks `label_refs` in order. For each one it looks up the label, takes
   the distance in halfwords, range-checks it for the field selected by the
   halfword's opcode bits, and ORs the distance into that field. The first
   failure clears both tables and returns FALSE. The references already
   patched stay patched, and the literal pool is not emitted.
2. If any literal load is a T1 `ldr` and `pc` is not word-aligned, it emits a
   `nop`. It then writes the pool at the cursor, reusing a slot when an
   allocated one already holds the value. Each load is patched with
   `slot - Align(ref.pc, 4)`.

Label definitions survive a flush, because only `reset` clears them. A later
branch can therefore reach back to a label defined before the flush. The call
helpers put literal loads and pushes through the same paths.

### What is hard here

Concurrency is limited to the handle's lifetime: `ref`/`unref` are atomic so
that several threads can share a writer, and the last `unref` flushes and frees
it. Emission itself is not thread-safe. What is hard is **order and
arithmetic across distant steps**:

- a displacement is computed at flush from two addresses recorded at
  different times, then range-checked and masked into a field whose width
  depends on the opcode;
- whether the pool needs a `nop` depends on all the pending loads and on `pc`
  after the label phase;
- the slot a load reads depends on the values enrolled before it in the same
  flush;
- code emitted between a reference and its flush can push a target or a pool
  out of range;
- a failing flush stops halfway;
- labels outlive the flush that resolved them.

A unit test covers the few sequences someone wrote down. The model checker
covers every sequence of these calls within the bounds below.

### Properties that make it correct

- **Encodings sound**: every encoder call that returned TRUE, decoded from
  memory with the ARM ARM rules, is one instruction of the size it was
  emitted with, and it does what the call asked for.
- **Branch fixups sound**: every `b`/`b<cond>` patched by a successful flush,
  decoded, branches to its label. **CBZ fixups sound**: the same for
  `cbz`/`cbnz`.
- **Literal loads sound**: every `ldr reg, =v` patched by a successful flush,
  decoded, still names `reg` and reads `v` from the pool.
- **Pool deduplicated**: a pool holds each distinct value once (spec §8).
- **Call arguments passed**: a call sequence, executed from its start after
  its pool is flushed, leaves arguments 1–4 in r0–r3 and the rest on the
  stack (the fifth on top), and its `blx` goes to the function asked for.
- **The writer refines `CodeBuffer`**: code is only appended at the cursor.
  A flush changes earlier code only by filling in the placeholders of the
  references pending since the last flush, and only then appends its pool.
- Capacity: the tables never exceed their bounds (checked by the type
  invariant).

## 2. Modules

| Module | Models |
|---|---|
| `ThumbEncoder.tla` | The encoders as pure operators, each returning the halfwords the C function emits, or `<< >>` where it returns FALSE. Also an independent ARM ARM reference decoder (`Decode`) for every form they produce. |
| `ThumbWriter.tla` | Lifecycle, raw emission, label table with fixups, literal pool and flush. Every encoder is an emitting action (`PutEncoded`). The refinement mapping to `CodeBuffer` is here too. |
| `ThumbCalls.tla` | Argument-list setup and the call helpers, composed from the writer's ldr, mov, push and blx. Also a reference interpreter of the emitted sequence. |
| `SharedHandle.tla` | The abstract contract of reference counting: the set of holders, `Acquire`, `Release`, and freeing exactly when the last holder lets go. |
| `CodeBuffer.tla` | The abstract contract of the buffer: cursor, stream and pending holes, with the actions `Restart`, `Append` and `Fixup`. |
| `ThumbLifetime.tla` | `new`, `ref`, `unref` and `clear` over a writer shared by `Threads`. Each thread holding a reference may call any writer operation. |
| `MCThumbWriter.tla`, `MCThumbCalls.tla`, `MCThumbLifetime.tla` | Constant definitions, symmetry and state bounds for TLC. |

### How `ThumbWriter` corresponds to the code

- **State.** `base`, `code`, `pc` and `targetOs` are the struct fields. `mem`
  is the buffer, as byte address → halfword. Only halfwords the writer stored
  since the last reset are kept: the writer never reads anything else, and
  `put_bytes` data belongs to the caller. `idToAddress`, `labelRefs` and
  `literalRefs` are the three arrays; their `_len` is `Len`.
- **Actions.** There is one action per public operation:
  - lifecycle: `Reset`, `SetTargetOs`, `Skip`;
  - labels and literals: `PutLabel`, `PutBLabel`, `PutBCondLabel` (which
    covers beq/bne), `PutCbzRegLabel`, `PutCbnzRegLabel`, `PutLdrRegU32`;
  - raw emission: `PutInstruction`, `PutNop`, `PutBreakpoint`, `PutBytes`;
  - `Flush`;
  - one action per encoder: `PutBImm`, `PutBlImm`, `PutBlxImm`, `PutBxReg`,
    `PutBlxReg`, `PutCmpRegImm`, `PutMovRegU8`, `PutBkptImm`, `PutPushRegs`,
    `PutPopRegs`, `PutLdrRegRegOffset`, `PutStrRegRegOffset`,
    `PutMovRegReg`, `PutAddRegImm`, `PutSubRegImm`, `PutAddRegReg`,
    `PutAddRegRegReg`, `PutAddRegRegImm`, `PutSubRegRegImm`, `PutSubRegReg`,
    `PutSubRegRegReg`.
- **Failure paths.** A call that fails (a duplicate label, a full table, or
  an encoder that rejects its operands) changes nothing, so it is a
  stuttering step.
- **Flush.** `Flush` is the whole function. It is one atomic step, written as
  the recursive `ResolveLabelRefs` and `EmitLiteralPool` over the tables in
  insertion order, with `PatchedBranch`, `SlotFor`, `PatchedLoad` and
  `PoolAlignment` as the pieces a plausible bug would touch.
- **History variables** (not in the code):
  - `pendingBranches` and `pendingLoads` record what each call asked for;
  - `branches` and `loads` record what a successful flush resolved;
  - `pool` records the extent and the values of the last pool;
  - `emitted` records `[addr, size, meaning]` for each encoder call;
  - `calls` records each call sequence.
- **Reference decoders.** `BranchTarget`, `LiteralLoad` and `Decode` decode
  memory the way the ARM Architecture Reference Manual defines each form.
  They are independent of the encoders, so the properties compare the code's
  bit layouts with the architecture and not with themselves.
  - A meaning ignores the flags: `movs`/`adds` and `mov`/`add` are the same.
  - A register copy is `rd := rm + 0`.
  - The UNPREDICTABLE and UNDEFINED cases that matter here decode to
    `Unpredictable`: PUSH.W/POP.W with fewer than two registers (or SP in
    the list, or PC in a push, or LR and PC in a pop), and BLX with H = 1.
- **Arithmetic.** C's truncating `/` is `CDiv`. Masks are `% 2^w`. The 16-bit
  halfword truncation of the pool patch is kept. `gsize` wrap-around reaches
  the halfword only through its low 16 bits, and those are the same for 32-
  and 64-bit hosts. `put_branch_imm`'s `(guint32)` distance is kept through
  its low 23 bits and its sign, which is all the T4 fields take, since TLC
  integers stop at 2^31.

### How `ThumbCalls` corresponds to the code

- **One step per call.** Each of `PutCallAddressWithArguments` and
  `PutCallRegWithArguments` is one step. It models the `_array` form, and the
  `_va` form, which only collects the same `GumArgument` records (`Args`).
- **Threaded state.** `SetupArgs` is the setup loop, right to left. It
  threads a writer state (`mem`, `code`, `pc`, literal table) through
  `LdrIn`, `EmitIn` (mov) and `PushIn`, exactly as the C calls follow one
  another.
- **Ignored failures.** `LdrIn` returns the state unchanged when the table
  is full: the C ignores that FALSE and emits the rest.
- **Teardown.** Teardown emits nothing.
- **Reference semantics.** `Run` executes a call sequence by ARM semantics:
  literal loads, register copies and single pushes. An UNPREDICTABLE encoding
  stops it.

### The refinement

`ThumbWriter` defines `Buffer == INSTANCE CodeBuffer WITH Starts <- Bases,
cursor <- code, stream <- mem, holes <- PendingHoles`. `PendingHoles` is the
set of halfwords flush will patch for the pending references. For a label
reference or a T1 `ldr` that is the instruction's own halfword; for an
`ldr.w` it is the second halfword. `WriterRefinesBuffer == Buffer!Spec` is
checked as a PROPERTY in the `calls` run, under `CallsSpec`, which includes
every writer action. It is also checked in the `lifetime` run, where a flush
fails on an undefined label. There it says what a caller may rely on after a
failed flush: only placeholder fields were changed, and no reference is left
pending.

### How `ThumbLifetime` corresponds to the code

- **State.** `refCount` is `ref_count`, and `alive` is false once
  `g_slice_free` has run. `phase[t]` is whether thread `t` believes it holds
  a reference.
- **Actions.**
  - `New` is `gum_thumb_writer_new`, which runs `init` (70–110).
  - `Ref(t, u)` is `ref`, called by holder `t` on behalf of thread `u`.
  - `Unref(t)` is `unref`. The atomic decrement-and-test is a single step.
    When it reaches zero, the step also runs `Clear`, which is
    `gum_thumb_writer_clear`'s flush, and the free.
  - `Use` is any `ThumbWriter` action, taken by a thread that holds a
    reference.
- **Refinement.** `Handle == INSTANCE SharedHandle WITH holders <- {t \in
  Threads : phase[t] = "holding"}, freed <- ~alive`. The run checks
  `LifetimeRefinesHandle == Handle!Spec`, so the counter stands for the set
  of holders. It catches a `ref` that does not count, which frees the writer
  under a live holder. It also catches an `unref` that tests the value
  before the decrement (`g_atomic_int_add (&ref_count, -1) == 0`), which
  never frees the writer.

## 3. Runs

The writer runs use `MCThumbWriter.tla`. `CodeBound` is a state constraint.
It bounds `pc - base` by `MaxCodeBytes` and the number of halfwords the writer
stored by `MaxHalfwords`. The capacity constants are scaled down from
100/300/100 to 1/3/1–2, so that "table full" is reachable.

The call runs use `MCThumbCalls.tla`. `CallBound` allows `MaxCalls` call
sequences per reset. It bounds the code other than the call sequences and the
last pool by `MaxCodeBytes`, so that a flush is never cut off by the bound.

| Run | Expect | Properties | What it shows |
|---|---|---|---|
| `labels` | pass | TypeOK, BranchFixupsSound, CbzFixupsSound | Every interleaving of ≤4 halfwords of b/beq/cbz/cbnz/ldr/nop/skip, two labels defined before or after their references, duplicate and over-capacity definitions, failing and repeated flushes, and resets. Every branch that a successful flush patched reaches its label, including after later flushes. |
| `literals` | pass | LiteralLoadsSound, PoolDeduplicated | T1 and T2 loads of two values (one with a nonzero high half), from word- and halfword-aligned starts, mixed with raw instructions, breakpoints on both OS kinds and skips, over two flushes. Every load reads its value, and the pool holds each value once. |
| `branch_range` | pass | BranchFixupsSound | One fill of 250 or 2040 bytes (constraint `OneFill`) puts `beq`/`b` labels at −129…+128 halfwords, or at the ±1024 edges of `b`, in both directions. The extremes are patched correctly, and one beyond fails the flush. |
| `cbz_range` | violation | CbzFixupsSound | `cbz` 64 halfwords short of its label passes flush's UINT7 check, but the 6-bit `i:imm5` field drops bit 6, so the branch lands at its own PC, `insn + 4`, instead of the label. |
| `literal_range` | violation | LiteralLoadsSound | A T1 `ldr` 1024 bytes before its pool gets offset/4 = 256 ORed into the halfword. That sets an Rt bit: `ldr r0, =5` becomes `ldr r1, [pc, #0]`. |
| `encoder` | pass | EncodingsSound | Every encoder, with operands at the edges of each narrow/wide and immediate form, from a word-aligned start, one or two instructions deep. Each call that returns TRUE decodes to what it was asked. |
| `branch_imm` | pass | EncodingsSound | `b`, `bl` and `blx` at both ends of the ±16 MiB range, and at distances whose I1 and I2 bits differ, from a word-aligned pc. |
| `add_imm_unchecked` | violation | EncodingsSound | `add r0, #256` returns TRUE and emits `0x3100`, which is `adds r1, #0`. |
| `blx_halfword_pc` | violation | EncodingsSound | `blx` from a pc that is 2 mod 4 to a word-aligned target sets H = 1, which is UNDEFINED. |
| `calls` | pass | CallArgumentsPassed, WriterRefinesBuffer | Five argument lists are used: 1, 2, 5 and 6 arguments, addresses and registers, and r0–r3 already in place or copied from low and high registers. Up to two calls per reset run through `ldr lr`/`blx lr` or `blx r4`, with nops, breakpoints, flushes and resets between them, from both start alignments. Every sequence passes its arguments, and the writer stays within the `CodeBuffer` contract. |
| `lifetime` | pass | LifetimeRefinesHandle, PendingReferencesFlushed, WriterRefinesBuffer | Three threads share one writer through `ref`/`unref` while it emits a branch to a label that is never defined, and a literal load. `ref_count` implements `SharedHandle`: the writer is freed by the `unref` that drops the last reference held, and by no other. The final `unref`'s `clear` eventually flushes what was left pending, and the writer keeps the `CodeBuffer` contract, including the flush that fails on the undefined label. |
| `scratch_r0` | violation | CallArgumentsPassed | `(addr A, r0, r2, r3, addr B)` emits `ldr r0,=B; push {r0}; …; movs r1, r0`, so the callee receives B, not the caller's r0, as its second argument. |

Each property of a passing run has a mutant in `PROJECT.json`: a plausible
coding fault that TLC must catch under that run's configuration. For
example, the setup loop running left to right, or `ldr.w` patched in its
first halfword.

**Why the bounds are enough.**

- *Fixups.* The fields under test are the 8-bit and 11-bit displacement
  fields, the 6-bit CBZ field, the 8-bit T1 offset and the word alignment of
  the pool. Each one is reached at its edge and one step beyond by combining
  one fill (`MCBranchFills`, `MCCbzFills`, `MCLiteralFills`)
  with a few halfwords. The dedup and alignment logic depends only on the
  pending loads' kinds and values and on `pc mod 4`. Two values, two register
  classes and two start alignments cover every case of it. Two label
  identities cover a definition before or after its reference, a duplicate
  definition, an undefined label and a full table. Label identities are a
  symmetry set.
- *Encoders.* The operand sets are chosen to take every branch of every
  encoder on both sides of each limit:
  - registers: r0, r7, r8, SP, LR and PC;
  - immediates: −8, 7, 252, 255;
  - offsets: 0, 2, 124, 128, 1020, 1024, 4095, 4096;
  - register lists: with and without LR/PC, low and high.
- *Branches.* `branch_imm` starts from a word-aligned pc (constraint
  `WordAlignedPc`). This is because `blx` from any other pc is the
  `blx_halfword_pc` finding.
- *Calls.* The argument lists cover each arm of the setup loop, and stack
  order with two stack arguments. The literal table (8) holds the loads of
  two calls; with 6 it overflows (see the hazards). The interleaving of two
  calls with one pool, and of one call, flush, call, flush, is explored up to
  the second flush.

**Fairness and liveness.** The writer runs assume no fairness. Every
operation is the caller's synchronous choice, including flush, and deadlock is
checked there, because a writer can always emit.

The `lifetime` run assumes weak fairness on each thread dropping its
reference (`DropReference(t)`). This stands for gum's ownership rule that
every reference is eventually released by an `unref`, under a scheduler that
runs every thread. Emission, `ref` and explicit flushes get no fairness.
`DropReference(t)` is the change to `phase` that only `Unref(t)` makes, so it
is enabled exactly when `Unref(t)` is. Stating fairness on it spares TLC from
evaluating `ENABLED` through the flush.

Under this fairness, `PendingReferencesFlushed` states that references left
pending are eventually dealt with. The run has `CHECK_DEADLOCK FALSE`,
because a freed writer takes no more calls. Its constraint `LifetimeBound`
stops growth only while the writer is alive, so the final flush is never
cut off.

## 4. Findings

See `PROJECT.json` "findings". In short:

- **cbz range (src:204).** The cbz range check is one bit wider than its
  field.
- **T1 ldr range (src:270).** The T1 `ldr` patch has no range check.
- **`add reg, #imm` (src:994).** It never checks the immediate's magnitude.
- **`blx` alignment (src:562).** `blx` is encoded relative to `pc + 4`, not
  `Align(pc, 4)`.
- **Argument setup (src:459).** The setup overwrites r0 and r1–r3 before it
  reads the register arguments that name them.

Other hazards are confirmed by TLC with the inputs named in their notes. They
have no run of their own, because the project keeps at most one run per
question:

- `push {r8}` encodes as an UNPREDICTABLE one-register PUSH.W (src:747);
- `add sp, #imm` with an unaligned immediate, and `add rd, sp/pc, #imm` out
  of range, return TRUE with a wrong encoding (src:987, src:1070);
- a full literal table silently drops a call's loads (src:448);
- `blx r0` after a setup that writes r0 (src:427).

## 5. Not modelled, and why

Every operation of the writer that changes state is an action of some
module. What is left out:

- **Odd `skip` counts.** `SkipSizes` is even. The spec makes odd counts the
  caller's responsibility, and they make `code` misaligned. `offset()` is
  then a pointer difference of a non-whole number of halfwords, which is
  undefined behaviour (hazard listed).
- **Labels at address 0.** `Bases` excludes 0. `lookup` returns 0 for
  "absent", so a label at 0 looks undefined. It can be defined again, which
  breaks the spec's "each id appears at most once", and a flush fails on
  it. Only a buffer at address 0 can reach this, which no caller of gum
  sets up, so it is not listed as a hazard.
- **A label at the end of the code before a flush.** Such a label denotes
  the address where the flush then places the nop and the pool. The
  `labels` run reaches this, and `BranchFixupsSound` holds there: the
  branch reaches the label's address. Neither the code nor the spec says
  whether that address is meant, so there is no property for it to break
  (hazard listed).
- **`ldr.w` beyond 4 KiB (src:274).** The patch is missing the same range
  check as the T1 `ldr` in the `literal_range` finding. No run reaches a
  4 KiB distance, because every run slot is spent on a distinct question.
- **Concurrent emission.** Threads are assumed to serialise their calls
  into the writer, as the spec requires (section 5). A data race on the
  writer's fields is not modelled.
- **`cur`/`offset`.** These are pure reads of `code` and `base`.
- **Host byte order.** The model assumes a little-endian host, where
  `GUINT16_TO_LE` is the identity and `*slot = val` stores the low half first.
- **Register description.** `gum_arm_reg_describe` is outside `src/`. Only
  its low/high class test is used, modelled from the spec.
