--------------------------- MODULE FrameDelivery ----------------------------
(***************************************************************************)
(* What receiving promises, whatever cuts the stream into pieces and       *)
(* whichever threads they pass: of the frames that have arrived whole a    *)
(* model each, in their order.                                             *)
(***************************************************************************)
EXTENDS Naturals, Sequences

VARIABLES
  frames,         \* the models of the frames the peer sends
  whole,          \* frames that have arrived whole
  models          \* models handed over

Init == whole = 0 /\ models = <<>>

Arrive ==
  /\ whole' \in (whole + 1)..Len(frames)
  /\ UNCHANGED models

HandOver ==
  /\ Len(models) < whole
  /\ models' = Append(models, frames[Len(models) + 1])
  /\ UNCHANGED whole

Next == Arrive \/ HandOver
Spec == Init /\ [][Next /\ UNCHANGED frames]_<<frames, whole, models>>
=============================================================================
