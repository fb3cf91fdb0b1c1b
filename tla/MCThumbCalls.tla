---------------------------- MODULE MCThumbCalls ----------------------------
(***************************************************************************)
(* Model-checking instances of ThumbCalls: call sequences, flushes of      *)
(* their literal pools, and the rest of the writer's bookkeeping.          *)
(***************************************************************************)
EXTENDS ThumbCalls, MCThumbWriter
LOCAL INSTANCE FiniteSetsExt

CONSTANT MaxCalls   (* bound on the calls made since the last reset         *)

(* Argument lists whose register arguments come from registers the setup  *)
(* has not written yet: an address in r0; a register already in place; a *)
(* copy from a high register; two copies; five arguments with the fifth   *)
(* pushed from a low register; six with addresses pushed through r0.     *)
A == \h5
B == \h10005
Addr(v) == [type |-> "address", value |-> v]
Reg(r)  == [type |-> "register", value |-> r]
MCCallArgLists ==
  { << Addr(A) >>,
    << Reg(0) >>,
    << Reg(8), Reg(5) >>,
    << Addr(B), Reg(1), Reg(6), Reg(3), Reg(7) >>,
    << Addr(A), Reg(5), Reg(2), Reg(4), Addr(B), Addr(A) >> }

(* An argument list that reads r0 after an address at index 4 has been
   loaded into it as scratch. *)
MCClobberArgLists == { << Addr(A), Reg(0), Reg(2), Reg(3), Addr(B) >> }

(* Bounds the calls made since the last reset, and the code other than
   call sequences and the last pool's slots (nops, breakpoints, earlier
   pools) by MaxCodeBytes, so that every flush stays inside the bound. *)
CallBound ==
  /\ Cardinality(calls) <= MaxCalls
  /\ pc - base - MapThenSumSet(LAMBDA c : c.blx + 2 - c.start, calls)
       - (pool.last - pool.first) <= MaxCodeBytes

=============================================================================
