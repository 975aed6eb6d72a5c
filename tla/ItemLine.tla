------------------------------ MODULE ItemLine ------------------------------
(***************************************************************************)
(* What a YModem side takes its line for: items, read whole, once and in   *)
(* the order in which they were written.  Once a byte is missing, items    *)
(* may be skipped and others read that nobody wrote, but none twice and    *)
(* none before another.                                                    *)
(***************************************************************************)
EXTENDS Naturals, Sequences, Functions

VARIABLES
  written,   \* items written
  read,      \* the items read, by their numbers, and 0 for one that nobody wrote
  torn       \* a byte is missing

Init == written = 0 /\ read = <<>> /\ torn = FALSE

Write == written' = written + 1 /\ UNCHANGED <<read, torn>>
Tear  == torn' = TRUE /\ UNCHANGED <<written, read>>

Read ==
  /\ Len(read) < written /\ ~torn
  /\ read' = Append(read, Len(read) + 1) /\ UNCHANGED <<written, torn>>

ReadTorn ==
  /\ torn /\ UNCHANGED <<written, torn>>
  /\ \E n \in 0..written :
       /\ n > 0 => \A m \in Range(read) : m < n
       /\ read' = Append(read, n)

Next == Write \/ Tear \/ Read \/ ReadTorn
Spec == Init /\ [][Next]_<<written, read, torn>>
=============================================================================
