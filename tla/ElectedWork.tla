----------------------------- MODULE ElectedWork -----------------------------
(***************************************************************************)
(* What the elected process does: controller-manager/src/main.rs           *)
(* (spawn_controller!) and scheduler/src/main.rs poll is_leader() beside   *)
(* the elector's task and start their loops when it is true.  The loops    *)
(* run under supervise_controller, or inside Scheduler::run, and end with  *)
(* the process.                                                            *)
(***************************************************************************)
EXTENDS LeaderElection

VARIABLE running      \* the processes whose controllers or scheduler run

workVars == <<vars, running>>

WorkInit == Init /\ running = {}

(* is_leader() is seen to be true: the observed record names this process. *)
StartWork(n) ==
    /\ phase[n] # "exited" /\ n \notin running
    /\ IsLeader(n)
    /\ running' = running \cup {n}
    /\ UNCHANGED vars

(* A step of the electors; std::process::exit ends the work too.  The        *)
(* controller-manager's context is never cancelled, the scheduler's only     *)
(* when it is asked to terminate, which is left out here.                    *)
ElectorStep ==
    /\ \/ \E n \in Nodes :
            \/ Attempt(n) \/ StartRenewing(n) \/ RenewTimeout(n) \/ StoppedEvent(n)
            \/ ReleaseGet(n) \/ ReleaseUpdate(n) \/ ReleaseEnd(n)
            \/ Crash(n) \/ Restart(n)
       \/ \E rec \in late : LateWrite(rec)
       \/ Tick
    /\ running' = {n \in running : phase'[n] # "exited"}

WorkNext == ElectorStep \/ \E n \in Nodes : StartWork(n)

WorkSpec == WorkInit /\ [][WorkNext]_workVars

(* "One instance becomes leader, others standby", "Leader runs all           *)
(* controllers", "Only the leader schedules pods"                            *)
(* (docs/HIGH_AVAILABILITY.md): while one elector leads, no other process    *)
(* has its controllers or its scheduler running.                             *)
OnlyTheLeaderWorks ==
    LongestTerm < LeaseDuration =>
        \A m, n \in Nodes : Leading(m) /\ n \in running => m = n
=============================================================================
