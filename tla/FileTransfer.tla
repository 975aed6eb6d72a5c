---------------------------- MODULE FileTransfer ----------------------------
(***************************************************************************)
(* What a file transfer promises, whatever the protocol: the receiver only *)
(* ever holds a beginning of the file, and a side that says it is done     *)
(* says so of a receiver that holds the whole of it.  Either side may fail *)
(* at any time, and may be started again afterwards.                       *)
(***************************************************************************)
EXTENDS Integers, Sequences

CONSTANT FileSize

VARIABLES sender, receiver, saved

File == [i \in 1..FileSize |-> i]
Beginnings == {SubSeq(File, 1, n) : n \in 0..FileSize}

Idle == {"idle", "done", "failed"}

Init == sender = "idle" /\ receiver = "idle" /\ saved = <<>>

SenderStart   == sender \in Idle   /\ sender' = "running"   /\ UNCHANGED <<receiver, saved>>
ReceiverStart == receiver \in Idle /\ receiver' = "running" /\ UNCHANGED <<sender, saved>>

\* The file is created, or emptied.
Open == receiver = "running" /\ saved' = <<>> /\ UNCHANGED <<sender, receiver>>

Save ==
  /\ sender # "idle" /\ receiver = "running"
  /\ saved' \in Beginnings
  /\ Len(saved') > Len(saved)
  /\ UNCHANGED <<sender, receiver>>

SenderDone   == sender = "running"   /\ saved = File /\ sender' = "done"   /\ UNCHANGED <<receiver, saved>>
ReceiverDone == receiver = "running" /\ saved = File /\ receiver' = "done" /\ UNCHANGED <<sender, saved>>

SenderFail   == sender = "running"   /\ sender' = "failed"   /\ UNCHANGED <<receiver, saved>>
ReceiverFail == receiver = "running" /\ receiver' = "failed" /\ UNCHANGED <<sender, saved>>

Next ==
  \/ SenderStart \/ ReceiverStart \/ Open \/ Save
  \/ SenderDone \/ ReceiverDone \/ SenderFail \/ ReceiverFail

Spec == Init /\ [][Next]_<<sender, receiver, saved>>
=============================================================================
