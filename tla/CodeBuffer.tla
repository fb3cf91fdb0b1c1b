----------------------------- MODULE CodeBuffer -----------------------------
(***************************************************************************)
(* What a GumThumbWriter promises about the code buffer it writes, with    *)
(* the instructions abstracted away: code is appended at a cursor that     *)
(* only moves forward; code before the cursor is never changed again,      *)
(* except that a flush fills in the zero fields of the placeholders        *)
(* (holes) emitted since the last flush, and then no hole is pending; a    *)
(* reset starts a new buffer at one of Starts.                             *)
(*                                                                         *)
(* stream maps an address to the halfword stored there; addresses the      *)
(* writer skipped or filled with caller bytes are not in its domain.       *)
(***************************************************************************)
EXTENDS Integers, Bitwise

CONSTANT Starts

VARIABLES cursor, stream, holes

vars == <<cursor, stream, holes>>

Init == cursor \in Starts /\ stream = << >> /\ holes = {}

(* The halfword at a is still there, unchanged. *)
Kept(a) == a \in DOMAIN stream' /\ stream'[a] = stream[a]

(* The halfword at a is still there, with bits only added to it. *)
Filled(a) == a \in DOMAIN stream' /\ (stream'[a] & stream[a]) = stream[a]

(* The cursor moves forward, and new halfwords appear only between the old
   and the new cursor. *)
GrowsAtCursor ==
  /\ cursor' >= cursor
  /\ \A a \in (DOMAIN stream') \ (DOMAIN stream) : cursor <= a /\ a < cursor'

Restart == \E s \in Starts : cursor' = s /\ stream' = << >> /\ holes' = {}

(* Emission: everything before the cursor kept; new holes only in the code
   just appended. *)
Append ==
  /\ GrowsAtCursor
  /\ \A a \in DOMAIN stream : a < cursor => Kept(a)
  /\ holes \subseteq holes'
  /\ \A h \in holes' \ holes : cursor <= h /\ h < cursor'

(* Flush: holes may be filled in (all, some or none of them), everything
   else before the cursor is kept, and afterwards no hole is pending. *)
Fixup ==
  /\ GrowsAtCursor
  /\ \A a \in DOMAIN stream :
       a < cursor => IF a \in holes THEN Filled(a) ELSE Kept(a)
  /\ holes' = {}

Next == Restart \/ Append \/ Fixup

Spec == Init /\ [][Next]_vars

=============================================================================
