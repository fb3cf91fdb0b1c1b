--------------------------- MODULE MCThumbLifetime ---------------------------
(***************************************************************************)
(* Model-checking instance of ThumbLifetime.                               *)
(***************************************************************************)
EXTENDS ThumbLifetime, MCThumbWriter

(* The writer's code is bounded while it is alive; the state a final
   unref leaves (cleared, flushed and freed) is always explored. *)
LifetimeBound == ~alive \/ CodeBound

=============================================================================
