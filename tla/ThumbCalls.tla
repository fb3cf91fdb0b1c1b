----------------------------- MODULE ThumbCalls -----------------------------
(***************************************************************************)
(* The call helpers of gum/arch-arm/gumthumbwriter.c: put_call_address_    *)
(* with_arguments(_array) and put_call_reg_with_arguments(_array), built   *)
(* on gum_thumb_writer_put_argument_list_setup. Each is one step of the     *)
(* writer: the setup's loads, movs and pushes, then the call, are applied *)
(* in order to a writer state threaded through them, with every ignored    *)
(* FALSE of put_ldr_reg_address (a full literal table) kept.               *)
(*                                                                         *)
(* An argument is [type |-> "address", value |-> a] or [type |->           *)
(* "register", value |-> r]; the _va variants only collect these records   *)
(* before the same setup. What a callee sees in a register or stack slot   *)
(* is <<"imm", a>> for a constant and <<"reg", r>> for the value register  *)
(* r had before the call sequence.                                         *)
(***************************************************************************)
EXTENDS ThumbWriter

CONSTANTS
  CallFuncs,          (* addresses given to put_call_address_with_arguments *)
  CallRegs,           (* registers given to put_call_reg_with_arguments     *)
  CallArgLists        (* argument sequences given to either                 *)

Args == [type : {"address"}, value : Values] \cup [type : {"register"}, value : 0..15]

ASSUME CallFuncs \subseteq Values /\ CallRegs \subseteq 0..15
ASSUME CallArgLists \subseteq Seq(Args)

-----------------------------------------------------------------------------
(* The writer state a call sequence threads through its steps.             *)

WriterState ==
  [mem |-> mem, code |-> code, pc |-> pc, lits |-> literalRefs, loads |-> pendingLoads]

(* gum_thumb_writer_put_instruction on a threaded state. *)
EmitIn(st, insns) ==
  [st EXCEPT !.mem = Stored(st.mem, st.code, insns),
             !.code = st.code + 2 * Len(insns),
             !.pc = st.pc + 2 * Len(insns)]

(* gum_thumb_writer_put_ldr_reg_address / _u32 on a threaded state: when
   add_literal_reference_here finds the table full it returns FALSE having
   changed nothing, and the call helpers go on regardless. *)
LdrIn(st, reg, val) ==
  IF Len(st.lits) = MaxLiteralRefCount THEN st
  ELSE EmitIn([st EXCEPT
                 !.lits = Append(@, [val |-> val, insn |-> st.code, pc |-> st.pc + 4]),
                 !.loads = @ \cup {[insn |-> st.code, reg |-> reg, val |-> val]}],
              LdrRegLiteral(reg))

(* gum_thumb_writer_put_push_regs (self, 1, reg) *)
PushIn(st, reg) == EmitIn(st, PushOrPopRegs(\hB400, \hE92D, LR, {reg}))

(* One iteration of the setup loop, for argument arg at arg_index r: the
   first four go to r0..r3 (a register already in place is left alone),
   the rest are pushed, an address through r0. *)
SetupArg(st, r, arg) ==
  CASE r < 4 /\ arg.type = "address" -> LdrIn(st, r, arg.value)
    [] r < 4 /\ arg.value # r        -> EmitIn(st, MovRegReg(r, arg.value))
    [] r < 4                         -> st
    [] arg.type = "address"          -> PushIn(LdrIn(st, 0, arg.value), 0)
    [] OTHER                         -> PushIn(st, arg.value)

(* Mutant: the loop running left to right. *)
RECURSIVE SetupArgsAscending(_, _, _)
SetupArgsAscending(st, args, i) ==
  IF i = 0 THEN st
  ELSE SetupArg(SetupArgsAscending(st, args, i - 1), i - 1, args[i])

(* gum_thumb_writer_put_argument_list_setup: arguments from the last
   (arg_index = i - 1 for i = Len(args)) down to the first. *)
RECURSIVE SetupArgs(_, _, _)
SetupArgs(st, args, i) ==
  IF i = 0 THEN st
  ELSE SetupArgs(SetupArg(st, i - 1, args[i]), args, i - 1)

(* The writer takes the state the call sequence ended in; calls records
   where the sequence starts, where its blx is and what it was asked. *)
ApplyCall(st, args, target) ==
  /\ mem' = st.mem /\ code' = st.code /\ pc' = st.pc
  /\ literalRefs' = st.lits /\ pendingLoads' = st.loads
  /\ calls' = calls \cup {[start |-> code, blx |-> st.code - 2,
                           target |-> target, args |-> args]}
  /\ UNCHANGED <<base, targetOs, idToAddress, labelRefs, pendingBranches,
                 branches, loads, pool, emitted>>

(* gum_thumb_writer_put_call_address_with_arguments(_array): setup, then
   ldr lr, =func and blx lr (teardown emits nothing). *)
PutCallAddressWithArguments(func, args) ==
  ApplyCall(EmitIn(LdrIn(SetupArgs(WriterState, args, Len(args)), LR, func),
                   BlxReg(LR)),
            args, <<"imm", func>>)

(* gum_thumb_writer_put_call_reg_with_arguments(_array): setup, then
   blx reg. *)
PutCallRegWithArguments(reg, args) ==
  ApplyCall(EmitIn(SetupArgs(WriterState, args, Len(args)), BlxReg(reg)),
            args, <<"reg", reg>>)

CallsNext ==
  \/ Next
  \/ \E func \in CallFuncs, args \in CallArgLists : PutCallAddressWithArguments(func, args)
  \/ \E reg \in CallRegs, args \in CallArgLists : PutCallRegWithArguments(reg, args)

CallsSpec == Init /\ [][CallsNext]_vars

-----------------------------------------------------------------------------
(* The ARM meaning of a call sequence, by a reference interpreter of the   *)
(* instructions it may contain: literal loads, register copies and single  *)
(* pushes. Anything else, or an UNPREDICTABLE encoding, stops it.          *)

InitialRegs == [r \in 0..15 |-> <<"reg", r>>]

(* What the callee must see for argument arg. *)
Seen(arg) == IF arg.type = "address" THEN <<"imm", arg.value>> ELSE <<"reg", arg.value>>

(* Execute the code of m from a up to (not including) end. *)
RECURSIVE Run(_, _, _, _)
Run(m, a, end, st) ==
  IF a >= end \/ ~st.ok THEN st
  ELSE IF a \notin DOMAIN m THEN [st EXCEPT !.ok = FALSE]
  ELSE
    LET size == IF Wide(m[a]) THEN 4 ELSE 2
        lit  == LiteralLoad(m, a)
        d    == Decode(a, m[a], IF size = 4 /\ a + 2 \in DOMAIN m THEN m[a + 2] ELSE 0)
    IN  CASE lit.rt # -1 ->
               Run(m, a + size, end, [st EXCEPT !.regs[lit.rt] = <<"imm", Word(m, lit.address)>>])
          [] d.op = "add_imm" /\ d.imm = 0 /\ d.rd # PC ->
               Run(m, a + size, end, [st EXCEPT !.regs[d.rd] = st.regs[d.rn]])
          [] d.op = "push" /\ Cardinality(d.regs) = 1 ->
               Run(m, a + size, end,
                   [st EXCEPT !.stack = <<st.regs[CHOOSE r \in d.regs : TRUE]>> \o @])
          [] OTHER -> [st EXCEPT !.ok = FALSE]

(* Once no literal load waits for a pool (after a flush), every call
   sequence, executed from its start, leaves argument i in r(i-1) for the
   first four and the rest on the stack with the fifth on top, and its blx
   branches to the function asked for: the setup's order of loads, movs
   and pushes, its use of r0 as scratch, the narrow/wide encodings and the
   literal pool together pass every argument. *)
CallArgumentsPassed ==
  literalRefs = << >> =>
    \A c \in calls :
      LET st == Run(mem, c.start, c.blx, [regs |-> InitialRegs, stack |-> << >>, ok |-> TRUE])
          n  == Len(c.args)
          d  == Decode(c.blx, mem[c.blx], 0)
      IN  /\ st.ok
          /\ \A i \in 1..n : i <= 4 => st.regs[i - 1] = Seen(c.args[i])
          /\ st.stack = [j \in 1..(IF n > 4 THEN n - 4 ELSE 0) |-> Seen(c.args[4 + j])]
          /\ d.op = "blx" /\ st.regs[d.rm] = c.target

=============================================================================
