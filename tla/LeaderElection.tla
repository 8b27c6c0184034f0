--------------------------- MODULE LeaderElection ---------------------------
(***************************************************************************)
(* Lease-based leader election: the elector of                             *)
(* common/src/leaderelection.rs over the Lease of                          *)
(* storage/src/lease_lock.rs, run by the controller-manager and scheduler  *)
(* processes, whose on_stopped_leading exits the process.                  *)
(*                                                                         *)
(* Every store call takes effect at some moment after it was issued, and   *)
(* its reply arrives later still; either can fail, and a call given up by  *)
(* a timeout may take effect all the same.  Only freshness of the cached   *)
(* resourceVersion and of the observed record matters to the elector, so   *)
(* the model keeps these two facts instead of version numbers and          *)
(* timestamps.  Timers hold the ticks left, ages the ticks gone by (they   *)
(* stop at LeaseDuration).                                                 *)
(***************************************************************************)
EXTENDS Integers

CONSTANTS
    Nodes,            \* the candidates, one identity each
    LeaseDuration,    \* ElectionConfig.lease_duration
    RenewDeadline,    \* ElectionConfig.renew_deadline
    RetryPeriod,      \* ElectionConfig.retry_period
    ReleaseOnCancel,  \* ElectionConfig.release_on_cancel
    MaxReply,         \* a write's reply arrives within this many ticks of it
    MaxEvent,         \* record_event() returns within this many ticks
    Restarts          \* an exited process may come back under its identity

(* The checks of LeaderElector::new (the jitter factor is 1.2). *)
ASSUME ConfigAssumption ==
    /\ LeaseDuration \in Nat /\ RenewDeadline \in Nat
    /\ RetryPeriod \in Nat \ {0}
    /\ LeaseDuration > RenewDeadline
    /\ 10 * RenewDeadline > 12 * RetryPeriod

ASSUME EnvironmentAssumption ==
    /\ MaxReply \in Nat /\ MaxEvent \in Nat
    /\ ReleaseOnCancel \in BOOLEAN /\ Restarts \in BOOLEAN

VARIABLES
    lease,       \* the Lease in the store: [holder, dur], or NoLease
    late,        \* records of abandoned writes that would still succeed
    fresh,       \* nodes whose cached Lease (LeaseLock.lease) is current
    phase,       \* acquire() / renew() / end of renew() / lease given up / process gone
    stage,       \* where the node is in try_acquire_or_renew() or release()
    timer,       \* ticks left of the sleep, the reply or record_event
    poll,        \* ticks left of the RenewDeadline timeout, NoTimer outside
    observed,    \* Observed.record: [holder, dur]
    current,     \* nodes whose observed record is the one in the store
    age,         \* ticks since Observed.time
    expired,     \* nodes for which is_lease_valid(now) failed when the attempt began
    read         \* the record get() returned: [holder, dur, same]

vars == <<lease, late, fresh, phase, stage, timer, poll, observed, current,
          age, expired, read>>

Nobody == "nobody"
NoLease == [holder |-> Nobody, dur |-> -1]
NoTimer == -1

ASSUME NodeAssumption == Nobody \notin Nodes

(* The record try_acquire_or_renew() writes, and the one release() writes. *)
Held(n) == [holder |-> n, dur |-> LeaseDuration]
Released == [holder |-> Nobody, dur |-> 1]
Records == {Held(n) : n \in Nodes} \cup {Released}
Unobserved == [holder |-> Nobody, dur |-> 0]
NoRead == [holder |-> Nobody, dur |-> 0, same |-> FALSE]

Calls == {"fast", "fastReply", "get", "got", "create", "write", "reply"}
Stages == Calls \cup {"sleep", "event", "relGet", "relWrite", "relReply", "none"}
Phases == {"follower", "leader", "stopping", "released", "exited"}

IsLeader(n) == observed[n].holder = n

-----------------------------------------------------------------------------
(* Effects shared by the actions. *)

(* A write by n reaches the store: every other cached or observed version    *)
(* and every other abandoned write is out of date.                           *)
Store(n, rec) ==
    /\ lease' = rec
    /\ fresh' = {n}
    /\ current' = {}
    /\ late' = {}

(* The call fails or is given up, the cached Lease stays.  A write that was  *)
(* on its way with a current resourceVersion, or a create on its way while   *)
(* there is no Lease, may still arrive.                                      *)
Abandon(n) ==
    \/ late' = late
    \/ /\ \/ stage[n] \in {"fast", "write", "relWrite"} /\ n \in fresh
          \/ stage[n] = "create" /\ lease = NoLease
       /\ late' = late \cup {IF stage[n] = "relWrite" THEN Released ELSE Held(n)}

SetStage(n, s) == stage' = [stage EXCEPT ![n] = s]
SetTimer(n, t) == timer' = [timer EXCEPT ![n] = t]

(* Mutant of Fail: renew() sleeps as acquire() does, with the jitter. *)
FailJittered(n) ==
    /\ SetStage(n, "sleep")
    /\ SetTimer(n, IF phase[n] = "leader" THEN 2 * RetryPeriod ELSE NoTimer)
    /\ expired' = expired \ {n}

(* try_acquire_or_renew() returns false: retry after RetryPeriod, in         *)
(* acquire() with a jitter that the model leaves open.                       *)
Fail(n) ==
    /\ SetStage(n, "sleep")
    /\ SetTimer(n, IF phase[n] = "leader" THEN RetryPeriod ELSE NoTimer)
    /\ expired' = expired \ {n}

(* std::process::exit in on_stopped_leading: the elector's memory is gone. *)
Exit(n) ==
    /\ phase' = [phase EXCEPT ![n] = "exited"]
    /\ SetStage(n, "none") /\ SetTimer(n, NoTimer)
    /\ poll' = [poll EXCEPT ![n] = NoTimer]
    /\ observed' = [observed EXCEPT ![n] = Unobserved]
    /\ age' = [age EXCEPT ![n] = LeaseDuration]
    /\ read' = [read EXCEPT ![n] = NoRead]
    /\ fresh' = fresh \ {n}
    /\ current' = current \ {n}
    /\ expired' = expired \ {n}

-----------------------------------------------------------------------------
Init ==
    /\ lease = NoLease
    /\ late = {} /\ fresh = {} /\ current = {} /\ expired = {}
    /\ phase = [n \in Nodes |-> "follower"]
    /\ stage = [n \in Nodes |-> "sleep"]
    /\ timer = [n \in Nodes |-> NoTimer]
    /\ poll = [n \in Nodes |-> NoTimer]
    /\ observed = [n \in Nodes |-> Unobserved]
    /\ age = [n \in Nodes |-> LeaseDuration]
    /\ read = [n \in Nodes |-> NoRead]

(* A follower tries when its jittered sleep ends, a leader when its sleep    *)
(* ends; the first attempt after a renewal starts the RenewDeadline timeout. *)
(* The fast path is for a leader whose own lease looks valid.                *)
Begin(n) ==
    /\ phase[n] \in {"follower", "leader"} /\ stage[n] = "sleep"
    /\ phase[n] = "leader" => timer[n] = 0
    /\ LET valid == age[n] < observed[n].dur
       IN  /\ SetStage(n, IF IsLeader(n) /\ valid THEN "fast" ELSE "get")
           /\ expired' = IF valid THEN expired \ {n} ELSE expired \cup {n}
    /\ SetTimer(n, NoTimer)
    /\ poll' = [poll EXCEPT ![n] =
                    IF phase[n] = "leader" /\ poll[n] = NoTimer
                    THEN RenewDeadline ELSE poll[n]]
    /\ UNCHANGED <<lease, late, fresh, phase, observed, current, age, read>>

(* update() of the fast path: applied if the cached version is current,      *)
(* otherwise, or on any error, the slow path follows.                        *)
FastUpdate(n) ==
    /\ stage[n] = "fast"
    /\ IF n \in fresh
       THEN /\ Store(n, Held(n))
            /\ SetStage(n, "fastReply") /\ SetTimer(n, MaxReply)
       ELSE /\ SetStage(n, "get")
            /\ UNCHANGED <<lease, fresh, current, late, timer>>
    /\ UNCHANGED <<phase, poll, observed, age, expired, read>>

FastFail(n) ==
    /\ stage[n] \in {"fast", "fastReply"}
    /\ Abandon(n)
    /\ fresh' = IF stage[n] = "fastReply" THEN fresh \ {n} ELSE fresh
    /\ SetStage(n, "get") /\ SetTimer(n, NoTimer)
    /\ UNCHANGED <<lease, phase, poll, observed, current, age, expired, read>>

(* get(): the store reads the Lease; the reply is handled in GetReply. *)
GetRead(n) ==
    /\ stage[n] = "get"
    /\ IF lease = NoLease
       THEN /\ SetStage(n, "create")
            /\ UNCHANGED <<fresh, read>>
       ELSE /\ SetStage(n, "got")
            /\ fresh' = fresh \cup {n}
            /\ read' = [read EXCEPT ![n] =
                    [holder |-> lease.holder, dur |-> lease.dur, same |-> n \in current]]
    /\ UNCHANGED <<lease, late, phase, timer, poll, observed, current, age,
                   expired>>

GetFail(n) ==
    /\ stage[n] = "get"
    /\ Fail(n)
    /\ UNCHANGED <<lease, late, fresh, phase, poll, observed, current, age, read>>

(* Mutant of GetReply: a changed record does not restart observed.time. *)
GetReplyUnstamped(n) ==
    /\ stage[n] = "got"
    /\ LET old == [holder |-> read[n].holder, dur |-> read[n].dur]
           same == read[n].same
           valid == n \notin expired
       IN  /\ observed' = [observed EXCEPT ![n] = IF same THEN @ ELSE old]
           /\ age' = [age EXCEPT ![n] = @]
           /\ current' = IF n \in fresh THEN current \cup {n} ELSE current
           /\ IF old.holder # Nobody /\ valid /\ old.holder # n
              THEN Fail(n)
              ELSE /\ SetStage(n, "write") /\ timer' = timer
                   /\ expired' = expired \ {n}
    /\ read' = [read EXCEPT ![n] = NoRead]
    /\ UNCHANGED <<lease, late, fresh, phase, poll>>

(* Mutant of GetReply: the last test is inverted, is_leader() for              *)
(* !is_leader(): somebody else's valid lease does not hold the attempt back.  *)
GetReplyNoCheck(n) ==
    /\ stage[n] = "got"
    /\ LET old == [holder |-> read[n].holder, dur |-> read[n].dur]
           same == read[n].same
           valid == IF same THEN n \notin expired ELSE old.dur > 0
       IN  /\ observed' = [observed EXCEPT ![n] = IF same THEN @ ELSE old]
           /\ age' = [age EXCEPT ![n] = IF same THEN @ ELSE 0]
           /\ current' = IF n \in fresh THEN current \cup {n} ELSE current
           /\ IF old.holder # Nobody /\ valid /\ old.holder = n
              THEN Fail(n)
              ELSE /\ SetStage(n, "write") /\ timer' = timer
                   /\ expired' = expired \ {n}
    /\ read' = [read EXCEPT ![n] = NoRead]
    /\ UNCHANGED <<lease, late, fresh, phase, poll>>

(* Mutant of GetReply: an observed lease never expires. *)
GetReplyNeverExpires(n) ==
    /\ stage[n] = "got"
    /\ LET old == [holder |-> read[n].holder, dur |-> read[n].dur]
           same == read[n].same
           valid == TRUE
       IN  /\ observed' = [observed EXCEPT ![n] = IF same THEN @ ELSE old]
           /\ age' = [age EXCEPT ![n] = IF same THEN @ ELSE 0]
           /\ current' = IF n \in fresh THEN current \cup {n} ELSE current
           /\ IF old.holder # Nobody /\ valid /\ old.holder # n
              THEN Fail(n)
              ELSE /\ SetStage(n, "write") /\ timer' = timer
                   /\ expired' = expired \ {n}
    /\ read' = [read EXCEPT ![n] = NoRead]
    /\ UNCHANGED <<lease, late, fresh, phase, poll>>

(* Step 3 and 4 of try_acquire_or_renew(): adopt a record that differs from  *)
(* the observed one, give up if somebody else's lease is valid, else write.  *)
(* Validity is judged at the `now` taken when the attempt began.             *)
GetReply(n) ==
    /\ stage[n] = "got"
    /\ LET old == [holder |-> read[n].holder, dur |-> read[n].dur]
           same == read[n].same
           valid == IF same THEN n \notin expired ELSE old.dur > 0
       IN  /\ observed' = [observed EXCEPT ![n] = IF same THEN @ ELSE old]
           /\ age' = [age EXCEPT ![n] = IF same THEN @ ELSE 0]
           /\ current' = IF n \in fresh THEN current \cup {n} ELSE current
           /\ IF old.holder # Nobody /\ valid /\ old.holder # n
              THEN Fail(n)
              ELSE /\ SetStage(n, "write") /\ timer' = timer
                   /\ expired' = expired \ {n}
    /\ read' = [read EXCEPT ![n] = NoRead]
    /\ UNCHANGED <<lease, late, fresh, phase, poll>>

(* create() or update() takes effect, or is refused. *)
Create(n) ==
    /\ stage[n] = "create"
    /\ IF lease = NoLease
       THEN /\ Store(n, Held(n))
            /\ SetStage(n, "reply") /\ SetTimer(n, MaxReply)
            /\ expired' = expired \ {n}
       ELSE /\ Fail(n)
            /\ UNCHANGED <<lease, fresh, current, late>>
    /\ UNCHANGED <<phase, poll, observed, age, read>>

(* Mutant of Update: the write does not carry the cached resourceVersion. *)
UpdateUnconditional(n) ==
    /\ stage[n] = "write"
    /\ Store(n, Held(n))
    /\ SetStage(n, "reply") /\ SetTimer(n, MaxReply)
    /\ expired' = expired \ {n}
    /\ UNCHANGED <<phase, poll, observed, age, read>>

Update(n) ==
    /\ stage[n] = "write"
    /\ IF n \in fresh
       THEN /\ Store(n, Held(n))
            /\ SetStage(n, "reply") /\ SetTimer(n, MaxReply)
            /\ expired' = expired \ {n}
       ELSE /\ Fail(n)
            /\ UNCHANGED <<lease, fresh, current, late>>
    /\ UNCHANGED <<phase, poll, observed, age, read>>

WriteFail(n) ==
    /\ stage[n] \in {"create", "write", "reply"}
    /\ Abandon(n)
    /\ fresh' = IF stage[n] = "reply" THEN fresh \ {n} ELSE fresh
    /\ Fail(n)
    /\ UNCHANGED <<lease, phase, poll, observed, current, age, read>>

(* set_observed() and `return true`: acquire() goes on to record_event(),    *)
(* renew() to the sleep of RetryPeriod.  The record observed has the clock's *)
(* nanoseconds, the stored one MicroTime's microseconds, so a later get()    *)
(* may or may not find them equal.                                           *)
Success(n) ==
    /\ stage[n] \in {"fastReply", "reply"}
    /\ observed' = [observed EXCEPT ![n] = Held(n)]
    /\ age' = [age EXCEPT ![n] = 0]
    /\ \/ current' = current
       \/ n \in fresh /\ current' = current \cup {n}
    /\ phase' = [phase EXCEPT ![n] = "leader"]
    /\ poll' = [poll EXCEPT ![n] = NoTimer]
    /\ IF phase[n] = "follower"
       THEN SetStage(n, "event") /\ SetTimer(n, MaxEvent)
       ELSE SetStage(n, "sleep") /\ SetTimer(n, RetryPeriod)
    /\ expired' = expired \ {n}
    /\ UNCHANGED <<lease, late, fresh, read>>

(* record_event("became leader") returns and renew() starts its first poll. *)
StartRenewing(n) ==
    /\ phase[n] = "leader" /\ stage[n] = "event"
    /\ SetStage(n, "sleep") /\ SetTimer(n, 0)
    /\ UNCHANGED <<lease, late, fresh, phase, poll, observed, current, age,
                   expired, read>>

(* renew() ends: the RenewDeadline timeout or a cancelled context drops the  *)
(* attempt, then record_event("stopped leading") runs.                       *)
EndRenew(n) ==
    /\ Abandon(n)
    /\ fresh' = fresh \ {n}
    /\ phase' = [phase EXCEPT ![n] = "stopping"]
    /\ SetStage(n, "event") /\ SetTimer(n, MaxEvent)
    /\ poll' = [poll EXCEPT ![n] = NoTimer]
    /\ read' = [read EXCEPT ![n] = NoRead]
    /\ expired' = expired \ {n}
    /\ UNCHANGED <<lease, observed, current, age>>

RenewTimeout(n) ==
    /\ phase[n] = "leader" /\ poll[n] = 0
    /\ EndRenew(n)

CancelLeader(n) ==
    /\ phase[n] = "leader" /\ stage[n] # "event"
    /\ EndRenew(n)

(* acquire() looks at the context between two attempts. *)
CancelFollower(n) ==
    /\ phase[n] = "follower" /\ stage[n] = "sleep"
    /\ Exit(n)
    /\ UNCHANGED <<lease, late>>

(* record_event("stopped leading") returns: release() if configured. *)
StoppedEvent(n) ==
    /\ phase[n] = "stopping" /\ stage[n] = "event"
    /\ IF ReleaseOnCancel
       THEN /\ SetStage(n, "relGet") /\ SetTimer(n, NoTimer)
            /\ poll' = [poll EXCEPT ![n] = RenewDeadline]
            /\ UNCHANGED <<phase, fresh, observed, current, age, expired, read>>
       ELSE Exit(n)
    /\ UNCHANGED <<lease, late>>

(* release(): get() refreshes the cached Lease, then is_leader() looks at    *)
(* the record observed before.                                               *)
ReleaseGet(n) ==
    /\ stage[n] = "relGet"
    /\ IF IsLeader(n)
       THEN /\ SetStage(n, "relWrite")
            /\ fresh' = fresh \cup {n}
            /\ UNCHANGED <<phase, timer, poll, observed, current, age, expired, read>>
       ELSE Exit(n)
    /\ UNCHANGED <<lease, late>>

ReleaseUpdate(n) ==
    /\ stage[n] = "relWrite"
    /\ IF n \in fresh
       THEN /\ Store(n, Released)
            /\ phase' = [phase EXCEPT ![n] = "released"]
            /\ SetStage(n, "relReply") /\ SetTimer(n, MaxReply)
            /\ UNCHANGED <<poll, observed, age, expired, read>>
       ELSE /\ Exit(n)
            /\ UNCHANGED <<lease, late>>

(* The reply arrives, an error or the RenewDeadline timeout ends release().  *)
ReleaseEnd(n) ==
    /\ stage[n] \in {"relGet", "relWrite", "relReply"}
    /\ Abandon(n)
    /\ Exit(n)
    /\ UNCHANGED lease

(* A write given up before reaches the store: nobody's cached version knows  *)
(* of it.                                                                    *)
LateWrite(rec) ==
    /\ rec \in late
    /\ lease' = rec
    /\ fresh' = {} /\ current' = {} /\ late' = {}
    /\ UNCHANGED <<phase, stage, timer, poll, observed, age, expired, read>>

(* The process dies at any moment, and may be started again. *)
Crash(n) ==
    /\ phase[n] # "exited"
    /\ Abandon(n)
    /\ Exit(n)
    /\ UNCHANGED lease

Restart(n) ==
    /\ Restarts /\ phase[n] = "exited"
    /\ phase' = [phase EXCEPT ![n] = "follower"]
    /\ SetStage(n, "sleep")
    /\ UNCHANGED <<lease, late, fresh, timer, poll, observed, current, age,
                   expired, read>>

(* Time passes unless somebody's timer has run out and is about to fire. *)
Tick ==
    /\ \A n \in Nodes : timer[n] # 0 /\ poll[n] # 0
    /\ timer' = [n \in Nodes |-> IF timer[n] > 0 THEN timer[n] - 1 ELSE timer[n]]
    /\ poll' = [n \in Nodes |-> IF poll[n] > 0 THEN poll[n] - 1 ELSE poll[n]]
    /\ age' = [n \in Nodes |-> IF age[n] < LeaseDuration THEN age[n] + 1 ELSE age[n]]
    /\ UNCHANGED <<lease, late, fresh, phase, stage, observed, current, expired,
                   read>>

-----------------------------------------------------------------------------
Attempt(n) ==
    \/ Begin(n) \/ FastUpdate(n) \/ FastFail(n)
    \/ GetRead(n) \/ GetFail(n) \/ GetReply(n)
    \/ Create(n) \/ Update(n) \/ WriteFail(n) \/ Success(n)

Stop(n) ==
    \/ RenewTimeout(n) \/ CancelLeader(n) \/ CancelFollower(n)
    \/ StoppedEvent(n) \/ ReleaseGet(n) \/ ReleaseUpdate(n) \/ ReleaseEnd(n)

Next ==
    \/ \E n \in Nodes :
        \/ Attempt(n) \/ StartRenewing(n) \/ Stop(n)
        \/ Crash(n) \/ Restart(n)
    \/ \E rec \in late : LateWrite(rec)
    \/ Tick

Spec == Init /\ [][Next]_vars

(* The elector's task is scheduled and time passes; the store answers again  *)
(* and again: a candidate that keeps asking is not refused for ever.  Nobody *)
(* is obliged to crash, to be cancelled or to come back.                     *)
Fairness ==
    /\ WF_vars(Tick)
    /\ \A n \in Nodes :
        /\ WF_vars(Attempt(n) \/ StartRenewing(n) \/ RenewTimeout(n)
                    \/ StoppedEvent(n) \/ ReleaseEnd(n))
        /\ SF_vars(GetRead(n))
        /\ SF_vars(lease = NoLease /\ Create(n))
        /\ SF_vars(n \in fresh /\ Update(n))
        /\ SF_vars(Success(n))

FairSpec == Spec /\ Fairness

-----------------------------------------------------------------------------
(* Properties. *)

Reads == {[holder |-> r.holder, dur |-> r.dur, same |-> b] :
              r \in Records \cup {Unobserved}, b \in BOOLEAN}

TypeOK ==
    /\ lease \in Records \cup {NoLease}
    /\ late \subseteq Records
    /\ fresh \subseteq Nodes /\ current \subseteq Nodes
    /\ expired \subseteq Nodes
    /\ phase \in [Nodes -> Phases]
    /\ stage \in [Nodes -> Stages]
    /\ timer \in [Nodes -> {NoTimer} \cup 0..MaxReply \cup 0..MaxEvent \cup 0..RetryPeriod]
    /\ poll \in [Nodes -> {NoTimer} \cup 0..RenewDeadline]
    /\ observed \in [Nodes -> Records \cup {Unobserved}]
    /\ age \in [Nodes -> 0..LeaseDuration]
    /\ read \in [Nodes -> Reads]

Leading(n) == phase[n] \in {"leader", "stopping"}

(* How long a leader may go on after its last write reached the store.       *)
LongestTerm ==
    MaxReply + (IF RetryPeriod > MaxEvent THEN RetryPeriod ELSE MaxEvent)
    + RenewDeadline + MaxEvent + (IF ReleaseOnCancel THEN RenewDeadline ELSE 0)

(* At most one elector leads, from its successful acquire until it has       *)
(* exited or released the lease, when the lease outlives LongestTerm.        *)
OneLeader ==
    LongestTerm < LeaseDuration =>
        \A m, n \in Nodes : Leading(m) /\ Leading(n) => m = n

(* While it leads, an elector has its name in the store: no candidate judges *)
(* the lease expired too early, no abandoned write of another candidate and  *)
(* no release erases it.                                                     *)
LeaderHoldsLease ==
    LongestTerm < LeaseDuration =>
        \A n \in Nodes : Leading(n) => lease.holder = n

(* release() gives up the elector's own lease, never that of a successor.    *)
ReleaseOnlyOwn ==
    [][\A n \in Nodes : ReleaseUpdate(n) /\ lease' # lease => lease.holder = n]_vars

(* A group with a live candidate does not stay without a leader: an expired, *)
(* abandoned or released lease is taken over, whatever was lost on the way.  *)
Failover ==
    []<>((\E n \in Nodes : phase[n] = "leader") \/ \A n \in Nodes : phase[n] = "exited")
=============================================================================
