------------------------------ MODULE SerialLine ------------------------------
(***************************************************************************)
(* What a board's driver expects of TimeoutSerial::readStringUntil: every  *)
(* string it returns is the next message of the device, whole, none twice  *)
(* and none skipped.  A read that times out takes nothing.  The promise    *)
(* ends when two reads are under way at once: from there on a read may     *)
(* return anything.                                                        *)
(***************************************************************************)
EXTENDS Naturals, Sequences

VARIABLES
  written,   \* how many messages the device has completed
  returned,  \* the strings the reads have returned
  overlap    \* whether two reads have been under way at once

lineVars == <<written, returned, overlap>>

Init == written = 0 /\ returned = <<>> /\ overlap = FALSE

DeviceWrites == written' = written + 1 /\ UNCHANGED <<returned, overlap>>

Read ==
  /\ ~ overlap
  /\ Len(returned) < written
  /\ returned' = Append(returned, Len(returned) + 1)
  /\ UNCHANGED <<written, overlap>>

Overlap == overlap' = TRUE /\ UNCHANGED <<written, returned>>

ReadGarbage ==
  /\ overlap
  /\ Len(returned') = Len(returned) + 1
  /\ UNCHANGED <<written, overlap>>

Next == DeviceWrites \/ Read \/ Overlap \/ ReadGarbage

Spec == Init /\ [][Next]_lineVars
=============================================================================
