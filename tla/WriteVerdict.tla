---------------------------- MODULE WriteVerdict ----------------------------
(***************************************************************************)
(* What the installer promises the owner of the machine's disks: from one  *)
(* start of the machine to its end, operations follow one another; each    *)
(* writes to at most one disk; a refused operation has written to none; a  *)
(* completed one has written to one; and once an operation was refused or  *)
(* has failed, or the machine is on its way down, nothing is written until *)
(* it is started again.  Installer.tla is shown to implement it.           *)
(***************************************************************************)
CONSTANT Disks

VARIABLES
  verdict,  \* what became of the current operation
  written   \* the disks it has written to

vars == <<verdict, written>>

Init == verdict = "down" /\ written = {}

Write(d) ==
  /\ verdict = "open" /\ written \in {{}, {d}}
  /\ written' = {d}
  \* The write that fails is told of in the same step.
  /\ verdict' \in {"open", "failed"}

Refuse ==
  /\ verdict = "open" /\ written = {}
  /\ verdict' = "refused" /\ UNCHANGED written

Fail == verdict = "open" /\ verdict' = "failed" /\ UNCHANGED written

Complete ==
  /\ verdict = "open" /\ written # {}
  /\ verdict' = "complete" /\ UNCHANGED written

\* The operator goes on to another operation.
Continue ==
  /\ verdict = "complete"
  /\ verdict' = "open" /\ written' = {}

\* A poweroff, a reboot or a power cut: at any moment.
GoDown == verdict' = "down" /\ UNCHANGED written

Start ==
  /\ verdict = "down"
  /\ verdict' = "open" /\ written' = {}

Next ==
  \/ \E d \in Disks : Write(d)
  \/ Refuse \/ Fail \/ Complete \/ Continue \/ GoDown \/ Start

Spec == Init /\ [][Next]_vars

=============================================================================
