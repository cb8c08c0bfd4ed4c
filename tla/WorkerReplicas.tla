--------------------------- MODULE WorkerReplicas ---------------------------
(***************************************************************************)
(* The replicas of the worker beside each other, and what each does that   *)
(* nothing keeps the others from doing too: it comes up and goes down      *)
(* (Deployment), it ticks for the schedules (Schedules), it mails reports  *)
(* (Outbox).  They share no variable, so the whole is the conjunction of   *)
(* the three: any step of the one may come with any step of another.       *)
(***************************************************************************)
EXTENDS Schedules, Outbox, Deployment

RpSpec == ScSpec /\ ObSpec /\ DpSpec

\* However many replicas there are, and whenever they start and stop: a schedule
\* fires a slot once and a report is mailed once, but for a fault, and none of them
\* works before all it needs is there, or after.
ReplicasInStep == FiresASlotOnce /\ EmailedOnce /\ ProcessesInOrder
=============================================================================
