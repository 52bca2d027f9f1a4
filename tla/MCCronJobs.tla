----------------------------- MODULE MCCronJobs -----------------------------
(* One job, under two names, with a schedule that parses and one that does *)
(* not; its scheduler thread and one "Run now" button tick it.             *)
EXTENDS CronJobs, TLC
=============================================================================
