---------------------------- MODULE SharedHandle ----------------------------
(***************************************************************************)
(* What reference counting promises of an object shared between threads,  *)
(* with the counter abstracted away: the object is held by a set of       *)
(* threads; a holder may hand it to another thread; a holder lets go of   *)
(* it; and the object is freed exactly when the last holder lets go, never *)
(* while some thread still holds it.                                       *)
(***************************************************************************)
CONSTANT Threads

VARIABLES holders, freed

vars == <<holders, freed>>

Init == \E creator \in Threads : holders = {creator} /\ freed = FALSE

(* Holder t hands the object to thread u. *)
Acquire(t, u) ==
  /\ t \in holders /\ u \notin holders
  /\ holders' = holders \cup {u}
  /\ UNCHANGED freed

(* Holder t lets go; the object is freed if no holder remains. *)
Release(t) ==
  /\ t \in holders
  /\ holders' = holders \ {t}
  /\ freed' = (holders' = {})

Next == \E t \in Threads : Release(t) \/ \E u \in Threads : Acquire(t, u)

Spec == Init /\ [][Next]_vars

=============================================================================
