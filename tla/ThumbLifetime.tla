---------------------------- MODULE ThumbLifetime ----------------------------
(***************************************************************************)
(* The lifetime of a GumThumbWriter shared between threads:                *)
(* gum_thumb_writer_new, _ref, _unref and _clear. ref_count is changed     *)
(* atomically (g_atomic_int_inc, g_atomic_int_dec_and_test); the unref    *)
(* that takes it to zero clears the writer, which flushes it, and frees    *)
(* it. Emission is not thread-safe: a thread holding a reference calls    *)
(* the writer's operations (ThumbWriter's Next) one at a time.             *)
(*                                                                         *)
(* Each thread holds at most one reference of its own: it is handed one    *)
(* by a holder (which calls ref for it), uses it, and drops it with unref. *)
(* phase is what the thread believes; only the invariant says whether the  *)
(* writer is still there.                                                  *)
(***************************************************************************)
EXTENDS ThumbWriter

CONSTANT Threads

VARIABLES
  refCount,   (* writer->ref_count                                          *)
  alive,      (* the writer has not been g_slice_free'd                     *)
  phase       (* thread -> "idle", "holding" or "done"                      *)

lifetimeVars == <<refCount, alive, phase>>
allVars == <<vars, lifetimeVars>>

(* gum_thumb_writer_new by a creator thread: g_slice_new, then init sets
   ref_count to 1 and resets the writer (ThumbWriter's Init). *)
New ==
  /\ Init
  /\ refCount = 1 /\ alive = TRUE
  /\ \E creator \in Threads :
       phase = [t \in Threads |-> IF t = creator THEN "holding" ELSE "idle"]

(* A writer operation, called by a thread that holds a reference. *)
Use ==
  /\ \E t \in Threads : phase[t] = "holding"
  /\ Next
  /\ UNCHANGED lifetimeVars

(* gum_thumb_writer_ref, called by holder t for thread u. *)
Ref(t, u) ==
  /\ phase[t] = "holding" /\ phase[u] = "idle"
  /\ refCount' = refCount + 1
  /\ phase' = [phase EXCEPT ![u] = "holding"]
  /\ UNCHANGED <<alive, vars>>

(* Mutant: clear that frees the tables without flushing. *)
ClearWithoutFlush == UNCHANGED vars

(* gum_thumb_writer_clear: flush, then free the three tables. *)
Clear == Flush

(* Mutant: g_atomic_int_add (&ref_count, -1) == 0, which tests the value
   before the decrement and so never frees the writer. *)
UnrefTestingOldValue(t) ==
  /\ phase[t] = "holding"
  /\ refCount' = refCount - 1
  /\ phase' = [phase EXCEPT ![t] = "done"]
  /\ IF refCount = 0 THEN Clear /\ alive' = FALSE
                     ELSE UNCHANGED <<vars, alive>>

(* gum_thumb_writer_unref: the thread drops its reference; when the atomic
   decrement reaches zero, the writer is cleared and freed. *)
Unref(t) ==
  /\ phase[t] = "holding"
  /\ refCount' = refCount - 1
  /\ phase' = [phase EXCEPT ![t] = "done"]
  /\ IF refCount = 1 THEN Clear /\ alive' = FALSE
                     ELSE UNCHANGED <<vars, alive>>

LifetimeNext ==
  \/ Use
  \/ \E t, u \in Threads : Ref(t, u)
  \/ \E t \in Threads : Unref(t)

(* Thread t's part of Unref(t): its reference goes from held to dropped.
   Only Unref(t) takes this step, so fairness on it is fairness on unref,
   without asking TLC whether the flush inside unref is enabled. *)
DropReference(t) ==
  /\ phase[t] = "holding"
  /\ phase' = [phase EXCEPT ![t] = "done"]

(* Every thread drops the reference it holds: gum's ownership rule that a
   ref is paired with an unref, under a scheduler that runs every thread. *)
Fairness == \A t \in Threads : WF_phase(DropReference(t))

LifetimeSpec == New /\ [][LifetimeNext]_allVars /\ Fairness

-----------------------------------------------------------------------------
(* Properties.                                                             *)

(* ref_count implements the set of threads holding the writer: the
   writer is freed by the unref that drops the last reference held, and by
   no other. ref's increment and unref's atomic decrement-and-test must
   keep ref_count equal to the references held, or a thread goes on using
   a freed writer, or the last one leaks it. *)
Handle == INSTANCE SharedHandle WITH
            holders <- {t \in Threads : phase[t] = "holding"},
            freed <- ~alive

LifetimeRefinesHandle == Handle!Spec

(* Every branch or literal load emitted and still waiting for its label or
   pool is eventually dealt with by a flush, even if no caller flushes:
   the last unref's clear flushes what the threads left pending. *)
PendingReferencesFlushed ==
  (labelRefs # << >> \/ literalRefs # << >>) ~> (labelRefs = << >> /\ literalRefs = << >>)


=============================================================================
