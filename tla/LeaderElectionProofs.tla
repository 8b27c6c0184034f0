------------------------ MODULE LeaderElectionProofs ------------------------
(***************************************************************************)
(* Proofs about LeaderElection, for every set of candidates and every      *)
(* configuration that LeaderElector::new accepts.                          *)
(***************************************************************************)
EXTENDS LeaderElection, TLAPS

-----------------------------------------------------------------------------
(* The inductive invariant.  First the part that needs no bound on time.     *)

InReply(n) == stage[n] \in {"fastReply", "reply"}

(* Where a process can be in each phase of the elector. *)
StageOK ==
    \A n \in Nodes :
        /\ phase[n] = "follower" => stage[n] \in Calls \cup {"sleep"}
        /\ phase[n] = "leader" => stage[n] \in Calls \cup {"sleep", "event"}
        /\ phase[n] = "stopping" => stage[n] \in {"event", "relGet", "relWrite"}
        /\ phase[n] = "released" => stage[n] = "relReply"
        /\ phase[n] = "exited" => stage[n] = "none"

(* Which timer runs where. *)
TimerOK ==
    \A n \in Nodes :
        /\ InReply(n) => timer[n] \in 0..MaxReply
        /\ phase[n] = "leader" /\ stage[n] \in Calls => poll[n] # NoTimer
        /\ phase[n] = "leader" /\ stage[n] = "sleep" => timer[n] \in 0..RetryPeriod
        /\ phase[n] = "leader" /\ stage[n] = "event" => poll[n] = NoTimer
        /\ stage[n] = "event" => timer[n] \in 0..MaxEvent
        /\ stage[n] \in {"relGet", "relWrite"} => poll[n] # NoTimer /\ ReleaseOnCancel

(* What a candidate knows of the Lease: an observed record that is current,  *)
(* a reply under way to a node whose version is current, and the record      *)
(* behind a current cached version are the stored one.                       *)
View(n) ==
    /\ n \in current => observed[n] = lease
    /\ stage[n] = "got" /\ n \in fresh =>
          /\ [holder |-> read[n].holder, dur |-> read[n].dur] = lease
          /\ read[n].same => n \in current
    /\ stage[n] = "got" /\ n \in current => read[n].same
    /\ InReply(n) => n \notin current
    /\ n \in fresh /\ InReply(n) => lease = Held(n)
    /\ n \in fresh /\ stage[n] \notin {"got", "reply", "fastReply", "relWrite", "relReply"}
          => observed[n] = lease
    /\ stage[n] = "fast" => IsLeader(n)

ViewOK == \A n \in Nodes : View(n)

Basic == TypeOK /\ StageOK /\ TimerOK /\ ViewOK

(* The part that depends on time.  A node is in office from the moment its   *)
(* write reached the store: nobody else may write before it has left.        *)
InOffice(n) == Leading(n) \/ InReply(n)

LongestPause == IF RetryPeriod > MaxEvent THEN RetryPeriod ELSE MaxEvent
ReleaseTime == IF ReleaseOnCancel THEN RenewDeadline ELSE 0

(* A bound on the ticks a node in office can stay there without a new write. *)
Left(n) ==
    IF InReply(n) THEN timer[n] + LongestPause + RenewDeadline + MaxEvent + ReleaseTime
    ELSE IF phase[n] = "leader"
    THEN (IF poll[n] = NoTimer THEN timer[n] + RenewDeadline ELSE poll[n])
         + MaxEvent + ReleaseTime
    ELSE IF stage[n] = "event" THEN timer[n] + ReleaseTime ELSE poll[n]

(* The node in office is named in the store, and so is it in every abandoned *)
(* write that could still arrive; no other candidate with a current version  *)
(* is about to write; and one that has observed the record has observed it   *)
(* for no longer than the term has lasted, so it does not judge it expired.  *)
Secure(n) ==
    /\ lease = Held(n)
    /\ late \subseteq {Held(n)}
    /\ \A m \in Nodes \ {n} :
        /\ m \in fresh => stage[m] # "write"
        /\ m \in current => m \notin expired /\ age[m] + Left(n) <= LongestTerm

OfficeOK == \A n \in Nodes : InOffice(n) => Secure(n)

IInv == Basic /\ (LongestTerm < LeaseDuration => OfficeOK)

-----------------------------------------------------------------------------
(* The records of the lease. *)

(* A record names its holder, a released one nobody. *)
LEMMA RecordFacts ==
    /\ Released \in Records /\ Released.holder = Nobody
    /\ \A n \in Nodes : Held(n) \in Records /\ Held(n).holder = n /\ Held(n).dur = LeaseDuration
    /\ \A r \in Records \cup {Unobserved} :
          /\ [holder |-> r.holder, dur |-> r.dur] = r
          /\ \A n \in Nodes : r.holder = n => r = Held(n)
    /\ NoLease \notin Records /\ NoLease # Unobserved /\ Unobserved \notin Records
    /\ NoLease.holder = Nobody
<1>1. Released \in Records /\ Released.holder = Nobody
  BY DEF Records, Released
<1>2. ASSUME NEW n \in Nodes
      PROVE  Held(n) \in Records /\ Held(n).holder = n /\ Held(n).dur = LeaseDuration
  BY DEF Records, Held
<1>3. ASSUME NEW r \in Records \cup {Unobserved}
      PROVE  /\ [holder |-> r.holder, dur |-> r.dur] = r
             /\ \A n \in Nodes : r.holder = n => r = Held(n)
  <2>1. CASE r \in {Released, Unobserved}
    BY <2>1, NodeAssumption DEF Released, Unobserved
  <2>2. CASE \E m \in Nodes : r = Held(m)
    BY <2>2 DEF Held
  <2> QED BY <2>1, <2>2 DEF Records
<1>4. NoLease \notin Records /\ NoLease # Unobserved
  <2>1. NoLease.dur = -1 /\ Released.dur = 1 /\ Unobserved.dur = 0
    BY DEF NoLease, Released, Unobserved
  <2> QED BY <2>1, <1>2, ConfigAssumption DEF Records
<1>5. Unobserved \notin Records
  <2>1. Unobserved.dur = 0 /\ Released.dur = 1
    BY DEF Unobserved, Released
  <2> QED BY <2>1, <1>2, ConfigAssumption DEF Records
<1> QED BY <1>1, <1>2, <1>3, <1>4, <1>5 DEF NoLease

(* get() returns a record and whether it is the one observed. *)
LEMMA ReadFacts ==
    /\ NoRead \in Reads
    /\ \A r \in Records, b \in BOOLEAN :
          [holder |-> r.holder, dur |-> r.dur, same |-> b] \in Reads
    /\ \A r \in Reads : /\ [holder |-> r.holder, dur |-> r.dur] \in Records \cup {Unobserved}
                        /\ r.same \in BOOLEAN
<1>1. NoRead \in Reads
  <2>1. NoRead = [holder |-> Unobserved.holder, dur |-> Unobserved.dur, same |-> FALSE]
    BY DEF NoRead, Unobserved
  <2>2. \A r \in Records \cup {Unobserved}, b \in BOOLEAN :
            [holder |-> r.holder, dur |-> r.dur, same |-> b] \in Reads
    BY DEF Reads
  <2> QED BY <2>1, <2>2
<1>2. ASSUME NEW r \in Reads
      PROVE  /\ [holder |-> r.holder, dur |-> r.dur] \in Records \cup {Unobserved}
             /\ r.same \in BOOLEAN
  <2>1. PICK q \in Records \cup {Unobserved}, b \in BOOLEAN :
            r = [holder |-> q.holder, dur |-> q.dur, same |-> b]
    BY DEF Reads
  <2> QED BY <2>1, RecordFacts
<1> QED BY <1>1, <1>2 DEF Reads

(* An abandoned call leaves a record behind or nothing. *)
LEMMA AbandonFacts ==
    ASSUME NEW n \in Nodes, late \subseteq Records, Abandon(n)
    PROVE  late' \subseteq Records
BY RecordFacts DEF Abandon

-----------------------------------------------------------------------------
(* The first part of the invariant: one lemma per step of the elector. *)

(* A process that exits forgets everything. *)
LEMMA ExitBasic ==
    ASSUME Basic, NEW n \in Nodes, Exit(n), late' \subseteq Records, UNCHANGED lease
    PROVE  Basic'
<1> USE ConfigAssumption DEF Basic, Exit, SetStage, SetTimer
<1>1. TypeOK'
  BY ReadFacts DEF TypeOK, NoTimer, Stages, Phases
<1>2. StageOK'
  BY DEF TypeOK, StageOK
<1>3. TimerOK'
  BY DEF TypeOK, TimerOK, Calls, InReply, NoTimer
<1>4. ViewOK'
  BY DEF TypeOK, ViewOK, View, InReply, IsLeader
<1> QED BY <1>1, <1>2, <1>3, <1>4

(* An attempt begins. *)
LEMMA BeginBasic ==
    ASSUME Basic, NEW n \in Nodes, Begin(n)
    PROVE  Basic'
<1> USE ConfigAssumption, EnvironmentAssumption DEF Basic
<1>1. TypeOK'
  BY RecordFacts, ReadFacts DEF TypeOK, Begin, SetStage, SetTimer, NoTimer, Stages, Phases, Calls
<1>2. StageOK'
  BY DEF TypeOK, Begin, SetStage, SetTimer, StageOK, Calls
<1>3. TimerOK'
  BY DEF TypeOK, Begin, SetStage, SetTimer, StageOK, TimerOK, Calls, InReply, NoTimer
<1>4. ViewOK'
  BY RecordFacts, ReadFacts DEF TypeOK, Begin, SetStage, SetTimer, StageOK, ViewOK, View, Calls, InReply, IsLeader
<1> QED BY <1>1, <1>2, <1>3, <1>4

(* The fast path writes, or goes on to the slow one. *)
LEMMA FastUpdateBasic ==
    ASSUME Basic, NEW n \in Nodes, FastUpdate(n)
    PROVE  Basic'
<1> USE ConfigAssumption, EnvironmentAssumption DEF Basic
<1>1. TypeOK'
  BY RecordFacts, ReadFacts DEF TypeOK, FastUpdate, Store, SetStage, SetTimer, NoTimer, Stages, Phases, Calls
<1>2. StageOK'
  BY DEF TypeOK, FastUpdate, Store, SetStage, SetTimer, StageOK, Calls
<1>3. TimerOK'
  BY DEF TypeOK, FastUpdate, Store, SetStage, SetTimer, StageOK, TimerOK, Calls, InReply, NoTimer
<1>4. ViewOK'
  BY RecordFacts, ReadFacts DEF TypeOK, FastUpdate, Store, SetStage, SetTimer, StageOK, ViewOK, View, Calls, InReply, IsLeader
<1> QED BY <1>1, <1>2, <1>3, <1>4

(* The fast path fails. *)
LEMMA FastFailBasic ==
    ASSUME Basic, NEW n \in Nodes, FastFail(n)
    PROVE  Basic'
<1> USE ConfigAssumption, EnvironmentAssumption DEF Basic
<1>1. TypeOK'
  BY AbandonFacts, RecordFacts, ReadFacts DEF TypeOK, FastFail, SetStage, SetTimer, NoTimer, Stages, Phases, Calls
<1>2. StageOK'
  BY DEF TypeOK, FastFail, SetStage, SetTimer, StageOK, Calls
<1>3. TimerOK'
  BY DEF TypeOK, FastFail, SetStage, SetTimer, StageOK, TimerOK, Calls, InReply, NoTimer
<1>4. ViewOK'
  BY RecordFacts, ReadFacts DEF TypeOK, FastFail, SetStage, SetTimer, StageOK, ViewOK, View, Calls, InReply, IsLeader
<1> QED BY <1>1, <1>2, <1>3, <1>4

(* get() fails. *)
LEMMA GetFailBasic ==
    ASSUME Basic, NEW n \in Nodes, GetFail(n)
    PROVE  Basic'
<1> USE ConfigAssumption, EnvironmentAssumption DEF Basic
<1>1. TypeOK'
  BY RecordFacts, ReadFacts DEF TypeOK, GetFail, Fail, SetStage, SetTimer, NoTimer, Stages, Phases, Calls
<1>2. StageOK'
  BY DEF TypeOK, GetFail, Fail, SetStage, SetTimer, StageOK, Calls
<1>3. TimerOK'
  BY DEF TypeOK, GetFail, Fail, SetStage, SetTimer, StageOK, TimerOK, Calls, InReply, NoTimer
<1>4. ViewOK'
  BY RecordFacts, ReadFacts DEF TypeOK, GetFail, Fail, SetStage, SetTimer, StageOK, ViewOK, View, Calls, InReply, IsLeader
<1> QED BY <1>1, <1>2, <1>3, <1>4

(* The write fails or its reply is lost. *)
LEMMA WriteFailBasic ==
    ASSUME Basic, NEW n \in Nodes, WriteFail(n)
    PROVE  Basic'
<1> USE ConfigAssumption, EnvironmentAssumption DEF Basic
<1>1. TypeOK'
  BY AbandonFacts, RecordFacts, ReadFacts DEF TypeOK, WriteFail, Fail, SetStage, SetTimer, NoTimer, Stages, Phases, Calls
<1>2. StageOK'
  BY DEF TypeOK, WriteFail, Fail, SetStage, SetTimer, StageOK, Calls
<1>3. TimerOK'
  BY DEF TypeOK, WriteFail, Fail, SetStage, SetTimer, StageOK, TimerOK, Calls, InReply, NoTimer
<1>4. ViewOK'
  BY RecordFacts, ReadFacts DEF TypeOK, WriteFail, Fail, SetStage, SetTimer, StageOK, ViewOK, View, Calls, InReply, IsLeader
<1> QED BY <1>1, <1>2, <1>3, <1>4

(* renew() starts. *)
LEMMA StartRenewingBasic ==
    ASSUME Basic, NEW n \in Nodes, StartRenewing(n)
    PROVE  Basic'
<1> USE ConfigAssumption, EnvironmentAssumption DEF Basic
<1>1. TypeOK'
  BY RecordFacts, ReadFacts DEF TypeOK, StartRenewing, SetStage, SetTimer, NoTimer, Stages, Phases, Calls
<1>2. StageOK'
  BY DEF TypeOK, StartRenewing, SetStage, SetTimer, StageOK, Calls
<1>3. TimerOK'
  BY DEF TypeOK, StartRenewing, SetStage, SetTimer, StageOK, TimerOK, Calls, InReply, NoTimer
<1>4. ViewOK'
  BY RecordFacts, ReadFacts DEF TypeOK, StartRenewing, SetStage, SetTimer, StageOK, ViewOK, View, Calls, InReply, IsLeader
<1> QED BY <1>1, <1>2, <1>3, <1>4

(* renew() ends. *)
LEMMA EndRenewBasic ==
    ASSUME Basic, NEW n \in Nodes, phase[n] = "leader", EndRenew(n)
    PROVE  Basic'
<1> USE ConfigAssumption, EnvironmentAssumption DEF Basic
<1>1. TypeOK'
  BY AbandonFacts, RecordFacts, ReadFacts DEF TypeOK, EndRenew, SetStage, SetTimer, NoTimer, Stages, Phases, Calls
<1>2. StageOK'
  BY DEF TypeOK, EndRenew, SetStage, SetTimer, StageOK, Calls
<1>3. TimerOK'
  BY DEF TypeOK, EndRenew, SetStage, SetTimer, StageOK, TimerOK, Calls, InReply, NoTimer
<1>4. ViewOK'
  BY RecordFacts, ReadFacts DEF TypeOK, EndRenew, SetStage, SetTimer, StageOK, ViewOK, View, Calls, InReply, IsLeader
<1> QED BY <1>1, <1>2, <1>3, <1>4

(* The process comes back. *)
LEMMA RestartBasic ==
    ASSUME Basic, NEW n \in Nodes, Restart(n)
    PROVE  Basic'
<1> USE ConfigAssumption, EnvironmentAssumption DEF Basic
<1>1. TypeOK'
  BY RecordFacts, ReadFacts DEF TypeOK, Restart, SetStage, NoTimer, Stages, Phases, Calls
<1>2. StageOK'
  BY DEF TypeOK, Restart, SetStage, StageOK, Calls
<1>3. TimerOK'
  BY DEF TypeOK, Restart, SetStage, StageOK, TimerOK, Calls, InReply, NoTimer
<1>4. ViewOK'
  BY RecordFacts, ReadFacts DEF TypeOK, Restart, SetStage, StageOK, ViewOK, View, Calls, InReply, IsLeader
<1> QED BY <1>1, <1>2, <1>3, <1>4

(* get() reads the Lease. *)
LEMMA GetReadBasic ==
    ASSUME Basic, NEW n \in Nodes, GetRead(n)
    PROVE  Basic'
<1> USE ConfigAssumption, EnvironmentAssumption DEF Basic, GetRead, SetStage
<1>0. TypeOK /\ StageOK /\ TimerOK /\ ViewOK
  OBVIOUS
<1>1. CASE lease = NoLease
  <2>1. TypeOK' /\ StageOK' /\ TimerOK'
    BY <1>0, <1>1 DEF TypeOK, StageOK, TimerOK, Stages, Calls, InReply
  <2>2. ViewOK'
    BY <1>0, <1>1 DEF TypeOK, ViewOK, View, InReply, IsLeader
  <2> QED BY <2>1, <2>2
<1>2. CASE lease # NoLease
  <2> DEFINE r == [holder |-> lease.holder, dur |-> lease.dur, same |-> n \in current]
  <2>1. /\ read' = [read EXCEPT ![n] = r] /\ fresh' = fresh \cup {n}
        /\ stage' = [stage EXCEPT ![n] = "got"] /\ stage[n] = "get"
        /\ UNCHANGED <<lease, late, phase, timer, poll, observed, current, age, expired>>
    BY <1>2
  <2>2. lease \in Records
    BY <1>0, <1>2 DEF TypeOK
  <2>3. r \in Reads
    <3>1. (n \in current) \in BOOLEAN
      OBVIOUS
    <3> QED BY <2>2, <3>1, ReadFacts, Zenon
  <2>4. r.same <=> n \in current
    OBVIOUS
  <2>5. [holder |-> r.holder, dur |-> r.dur] = lease
    BY <2>2, RecordFacts
  <2> HIDE DEF r, GetRead
  <2>6. TypeOK' /\ StageOK' /\ TimerOK'
    BY <1>0, <2>1, <2>3 DEF TypeOK, StageOK, TimerOK, Stages, Calls, InReply
  <2>7. ViewOK'
    BY <1>0, <1>2, <2>1, <2>4, <2>5 DEF TypeOK, ViewOK, View, InReply, IsLeader
  <2> QED BY <2>6, <2>7
<1> QED BY <1>1, <1>2

(* The reply of get() is handled. *)
LEMMA GetReplyBasic ==
    ASSUME Basic, NEW n \in Nodes, GetReply(n)
    PROVE  Basic'
<1> USE ConfigAssumption, EnvironmentAssumption DEF Basic
<1>0. TypeOK /\ StageOK /\ TimerOK /\ ViewOK
  OBVIOUS
<1> DEFINE old == [holder |-> read[n].holder, dur |-> read[n].dur]
           same == read[n].same
<1>1. /\ stage[n] = "got" /\ read' = [read EXCEPT ![n] = NoRead]
      /\ observed' = [observed EXCEPT ![n] = IF same THEN @ ELSE old]
      /\ age' = [age EXCEPT ![n] = IF same THEN @ ELSE 0]
      /\ current' = IF n \in fresh THEN current \cup {n} ELSE current
      /\ UNCHANGED <<lease, late, fresh, phase, poll>>
  BY DEF GetReply
<1>2. \/ /\ stage' = [stage EXCEPT ![n] = "sleep"]
         /\ timer' = [timer EXCEPT ![n] = IF phase[n] = "leader" THEN RetryPeriod ELSE NoTimer]
      \/ /\ stage' = [stage EXCEPT ![n] = "write"] /\ timer' = timer
  BY DEF GetReply, Fail, SetStage, SetTimer
<1>3. expired' = expired \ {n}
  BY DEF GetReply, Fail
<1>4. old \in Records \cup {Unobserved} /\ same \in BOOLEAN
  BY <1>0, ReadFacts DEF TypeOK
<1>5. (n \in current => same) /\ (n \in fresh => old = lease /\ (same => n \in current))
  BY <1>0, <1>1 DEF ViewOK, View
<1> HIDE DEF old, same
<1>6. TypeOK'
  BY <1>0, <1>1, <1>2, <1>3, <1>4, ReadFacts DEF TypeOK, Stages, Calls, NoTimer
<1>7. StageOK'
  BY <1>0, <1>1, <1>2 DEF TypeOK, StageOK, Calls
<1>8. TimerOK'
  BY <1>0, <1>1, <1>2 DEF TypeOK, StageOK, TimerOK, Calls, InReply, NoTimer
<1>9. ASSUME NEW m \in Nodes
      PROVE  View(m)'
  <2>1. View(m)
    BY <1>0 DEF ViewOK
  <2>2. CASE m = n
    <3>1. stage'[n] \in {"sleep", "write"} /\ observed'[n] = IF same THEN observed[n] ELSE old
      BY <1>0, <1>1, <1>2 DEF TypeOK
    <3>2. n \in current' => observed'[n] = lease'
      BY <1>1, <1>5, <2>1, <2>2, <3>1 DEF View
    <3>3. n \in fresh' => n \in current'
      BY <1>1
    <3> QED BY <2>2, <3>1, <3>2, <3>3 DEF View, InReply
  <2>3. CASE m # n
    <3>1. /\ stage'[m] = stage[m] /\ observed'[m] = observed[m] /\ read'[m] = read[m]
          /\ m \in current' <=> m \in current
      BY <1>0, <1>1, <1>2, <2>3 DEF TypeOK
    <3> QED BY <1>1, <2>1, <3>1 DEF View, InReply, IsLeader
  <2> QED BY <2>2, <2>3
<1> QED BY <1>6, <1>7, <1>8, <1>9 DEF ViewOK

(* create() or update() takes effect, or is refused. *)
LEMMA WriteBasic ==
    ASSUME Basic, NEW n \in Nodes, Create(n) \/ Update(n)
    PROVE  Basic'
<1> USE ConfigAssumption, EnvironmentAssumption DEF Basic
<1>0. TypeOK /\ StageOK /\ TimerOK /\ ViewOK
  OBVIOUS
<1>1. stage[n] \in {"create", "write"} /\ expired' = expired \ {n}
      /\ UNCHANGED <<phase, poll, observed, age, read>>
  BY DEF Create, Update, Fail
<1>2. \/ /\ Store(n, Held(n)) /\ stage' = [stage EXCEPT ![n] = "reply"]
         /\ timer' = [timer EXCEPT ![n] = MaxReply]
      \/ /\ UNCHANGED <<lease, fresh, current, late>>
         /\ stage' = [stage EXCEPT ![n] = "sleep"]
         /\ timer' = [timer EXCEPT ![n] = IF phase[n] = "leader" THEN RetryPeriod ELSE NoTimer]
  BY DEF Create, Update, Fail, SetStage, SetTimer
<1>3. TypeOK'
  BY <1>0, <1>1, <1>2, RecordFacts DEF TypeOK, Store, Stages, Calls, NoTimer
<1>4. StageOK'
  BY <1>0, <1>1, <1>2 DEF TypeOK, StageOK, Calls
<1>5. TimerOK'
  BY <1>0, <1>1, <1>2 DEF TypeOK, StageOK, TimerOK, Calls, InReply, NoTimer
<1>6. ViewOK'
  BY <1>0, <1>1, <1>2, RecordFacts DEF TypeOK, ViewOK, View, Store, InReply, IsLeader
<1> QED BY <1>3, <1>4, <1>5, <1>6

(* The attempt succeeds. *)
LEMMA SuccessBasic ==
    ASSUME Basic, NEW n \in Nodes, Success(n)
    PROVE  Basic'
<1> USE ConfigAssumption, EnvironmentAssumption DEF Basic, Success, SetStage, SetTimer
<1>1. TypeOK'
  <2>1. /\ observed' = [observed EXCEPT ![n] = Held(n)] /\ age' = [age EXCEPT ![n] = 0]
        /\ current' \in {current, current \cup {n}} /\ expired' = expired \ {n}
        /\ UNCHANGED <<lease, late, fresh, read>>
    OBVIOUS
  <2>2. Held(n) \in Records
    BY RecordFacts
  <2>3. stage' \in [Nodes -> Stages] /\ phase' \in [Nodes -> Phases]
    BY DEF TypeOK, Stages, Phases
  <2>4. /\ timer' \in [Nodes -> {NoTimer} \cup 0..MaxReply \cup 0..MaxEvent \cup 0..RetryPeriod]
        /\ poll' \in [Nodes -> {NoTimer} \cup 0..RenewDeadline]
    BY DEF TypeOK, NoTimer
  <2> HIDE DEF Success
  <2>5. observed' \in [Nodes -> Records \cup {Unobserved}] /\ age' \in [Nodes -> 0..LeaseDuration]
    BY <2>1, <2>2 DEF TypeOK
  <2>6. current' \subseteq Nodes /\ expired' \subseteq Nodes
    BY <2>1 DEF TypeOK
  <2> QED BY <2>1, <2>3, <2>4, <2>5, <2>6 DEF TypeOK
<1>2. StageOK'
  BY DEF TypeOK, StageOK, Calls
<1>3. TimerOK'
  BY DEF TypeOK, StageOK, TimerOK, Calls, InReply, NoTimer
<1>4. ViewOK'
  <2>1. n \in fresh => lease = Held(n)
    BY DEF ViewOK, View, InReply
  <2>2. /\ observed' = [observed EXCEPT ![n] = Held(n)]
        /\ current' = current \/ (n \in fresh /\ current' = current \cup {n})
        /\ stage' = [stage EXCEPT ![n] = "event"] \/ stage' = [stage EXCEPT ![n] = "sleep"]
        /\ UNCHANGED <<lease, fresh, read>>
    OBVIOUS
  <2> SUFFICES ASSUME NEW m \in Nodes PROVE View(m)'
    BY DEF ViewOK
  <2>3. View(m) /\ Held(n).holder = n
    BY RecordFacts DEF ViewOK
  <2> HIDE DEF Success
  <2>4. CASE m = n
    <3>1. stage'[n] \in {"event", "sleep"} /\ observed'[n] = Held(n)
      BY <2>2 DEF TypeOK
    <3>3. n \in current' => observed'[n] = lease'
      BY <2>1, <2>2, <2>3, <2>4, <3>1 DEF View, InReply, Success
    <3> QED BY <2>1, <2>2, <2>4, <3>1, <3>3 DEF View, InReply
  <2>5. CASE m # n
    <3>1. /\ stage'[m] = stage[m] /\ observed'[m] = observed[m]
          /\ m \in current' <=> m \in current
      BY <2>2, <2>5 DEF TypeOK
    <3> QED BY <2>2, <2>3, <3>1 DEF View, InReply, IsLeader
  <2> QED BY <2>4, <2>5
<1> QED BY <1>1, <1>2, <1>3, <1>4

(* record_event("stopped leading") returns. *)
LEMMA StoppedEventBasic ==
    ASSUME Basic, NEW n \in Nodes, StoppedEvent(n)
    PROVE  Basic'
<1>0. TypeOK /\ StageOK /\ TimerOK /\ ViewOK
  BY DEF Basic
<1>1. CASE ReleaseOnCancel
  <2>1. /\ phase[n] = "stopping" /\ stage[n] = "event"
        /\ stage' = [stage EXCEPT ![n] = "relGet"]
        /\ timer' = [timer EXCEPT ![n] = NoTimer]
        /\ poll' = [poll EXCEPT ![n] = RenewDeadline]
        /\ UNCHANGED <<lease, late, phase, fresh, observed, current, age, expired, read>>
    BY <1>1 DEF StoppedEvent, SetStage, SetTimer
  <2>2. TypeOK' /\ StageOK'
    BY <1>0, <2>1, ConfigAssumption DEF TypeOK, StageOK, Stages, NoTimer
  <2>3. TimerOK'
    BY <1>0, <1>1, <2>1, ConfigAssumption DEF TypeOK, TimerOK, Calls, InReply, NoTimer
  <2>4. ViewOK'
    BY <1>0, <2>1 DEF TypeOK, ViewOK, View, InReply, IsLeader
  <2> QED BY <2>2, <2>3, <2>4 DEF Basic
<1>2. CASE ~ReleaseOnCancel
  BY <1>0, <1>2, ExitBasic DEF StoppedEvent, TypeOK
<1> QED BY <1>1, <1>2

(* release() has read the Lease. *)
LEMMA ReleaseGetBasic ==
    ASSUME Basic, NEW n \in Nodes, ReleaseGet(n)
    PROVE  Basic'
<1>0. TypeOK /\ StageOK /\ TimerOK /\ ViewOK
  BY DEF Basic
<1>1. CASE IsLeader(n)
  <2>1. /\ stage[n] = "relGet" /\ stage' = [stage EXCEPT ![n] = "relWrite"]
        /\ fresh' = fresh \cup {n}
        /\ UNCHANGED <<lease, late, phase, timer, poll, observed, current, age, expired, read>>
    BY <1>1 DEF ReleaseGet, SetStage
  <2>2. TypeOK' /\ StageOK' /\ TimerOK'
    BY <1>0, <2>1 DEF TypeOK, StageOK, TimerOK, Stages, Calls, InReply
  <2>3. ViewOK'
    BY <1>0, <1>1, <2>1, RecordFacts DEF TypeOK, ViewOK, View, InReply, IsLeader
  <2> QED BY <2>2, <2>3 DEF Basic
<1>2. CASE ~IsLeader(n)
  BY <1>0, <1>2, ExitBasic DEF ReleaseGet, TypeOK
<1> QED BY <1>1, <1>2

(* release() writes. *)
LEMMA ReleaseUpdateBasic ==
    ASSUME Basic, NEW n \in Nodes, ReleaseUpdate(n)
    PROVE  Basic'
<1>0. TypeOK /\ StageOK /\ TimerOK /\ ViewOK
  BY DEF Basic
<1>1. CASE n \in fresh
  <2>1. /\ stage[n] = "relWrite" /\ stage' = [stage EXCEPT ![n] = "relReply"]
        /\ phase' = [phase EXCEPT ![n] = "released"]
        /\ timer' = [timer EXCEPT ![n] = MaxReply]
        /\ lease' = Released /\ fresh' = {n} /\ current' = {} /\ late' = {}
        /\ UNCHANGED <<poll, observed, age, expired, read>>
    BY <1>1 DEF ReleaseUpdate, SetStage, SetTimer, Store
  <2>2. TypeOK'
    BY <1>0, <2>1, EnvironmentAssumption, RecordFacts DEF TypeOK, Stages, Phases
  <2>3. StageOK' /\ TimerOK'
    BY <1>0, <2>1 DEF TypeOK, StageOK, TimerOK, Calls, InReply
  <2>4. ViewOK'
    BY <1>0, <2>1, RecordFacts DEF TypeOK, ViewOK, View, InReply, IsLeader
  <2> QED BY <2>2, <2>3, <2>4 DEF Basic
<1>2. CASE n \notin fresh
  BY <1>0, <1>2, ExitBasic DEF ReleaseUpdate, TypeOK
<1> QED BY <1>1, <1>2

(* A late write reaches the store. *)
LEMMA LateWriteBasic ==
    ASSUME Basic, NEW rec \in late, LateWrite(rec)
    PROVE  Basic'
<1> USE DEF Basic, LateWrite
<1>1. TypeOK'
  BY DEF TypeOK
<1>2. StageOK' /\ TimerOK'
  BY DEF StageOK, TimerOK, InReply
<1>3. ViewOK'
  BY RecordFacts DEF TypeOK, ViewOK, View, InReply, IsLeader
<1> QED BY <1>1, <1>2, <1>3

(* Time passes. *)
LEMMA TickBasic ==
    ASSUME Basic, Tick
    PROVE  Basic'
<1> USE ConfigAssumption, EnvironmentAssumption DEF Basic, Tick
<1>1. TypeOK'
  BY DEF TypeOK, NoTimer
<1>2. StageOK' /\ ViewOK'
  BY DEF StageOK, ViewOK, View, InReply, IsLeader
<1>3. TimerOK'
  BY DEF TypeOK, TimerOK, InReply, NoTimer
<1> QED BY <1>1, <1>2, <1>3

(* No step breaks the first part. *)
LEMMA NextBasic == Basic /\ [Next]_vars => Basic'
<1> SUFFICES ASSUME Basic, [Next]_vars PROVE Basic'
  OBVIOUS
<1>1. ASSUME NEW n \in Nodes, Attempt(n) \/ StartRenewing(n)
      PROVE  Basic'
  BY <1>1, BeginBasic, FastUpdateBasic, FastFailBasic, GetReadBasic, GetFailBasic,
     GetReplyBasic, WriteBasic, WriteFailBasic, SuccessBasic, StartRenewingBasic
     DEF Attempt
<1>2. ASSUME NEW n \in Nodes, Stop(n)
      PROVE  Basic'
  <2>1. CASE RenewTimeout(n) \/ CancelLeader(n)
    BY <2>1, EndRenewBasic DEF RenewTimeout, CancelLeader
  <2>2. CASE CancelFollower(n)
    BY <2>2, ExitBasic DEF CancelFollower, Basic, TypeOK
  <2>3. CASE ReleaseEnd(n)
    BY <2>3, ExitBasic, AbandonFacts DEF ReleaseEnd, Basic, TypeOK
  <2> QED BY <1>2, <2>1, <2>2, <2>3, StoppedEventBasic, ReleaseGetBasic,
             ReleaseUpdateBasic DEF Stop
<1>3. ASSUME NEW n \in Nodes, Crash(n) \/ Restart(n)
      PROVE  Basic'
  <2>1. CASE Crash(n)
    BY <2>1, ExitBasic, AbandonFacts DEF Crash, Basic, TypeOK
  <2> QED BY <1>3, <2>1, RestartBasic
<1>4. CASE UNCHANGED vars
  BY <1>4 DEF vars, Basic, TypeOK, StageOK, TimerOK, ViewOK, View, InReply, IsLeader
<1> QED BY <1>1, <1>2, <1>3, <1>4, LateWriteBasic, TickBasic DEF Next

-----------------------------------------------------------------------------
(* The second part: the time a node stays in office. *)

(* A step of n leaves the other nodes alone. *)
Frame(n) ==
    \A m \in Nodes \ {n} :
        /\ phase'[m] = phase[m] /\ stage'[m] = stage[m]
        /\ timer'[m] = timer[m] /\ poll'[m] = poll[m] /\ age'[m] = age[m]
        /\ (m \in expired') = (m \in expired)
        /\ m \in fresh' => m \in fresh
        /\ m \in current' => m \in current

(* The bounds are numbers and add up to the longest term. *)
LEMMA BoundFacts ==
    /\ LongestPause \in Nat /\ ReleaseTime \in Nat /\ LongestTerm \in Nat
    /\ MaxEvent <= LongestPause /\ RetryPeriod <= LongestPause
    /\ LongestTerm = MaxReply + LongestPause + RenewDeadline + MaxEvent + ReleaseTime
BY ConfigAssumption, EnvironmentAssumption DEF LongestPause, ReleaseTime, LongestTerm

(* Nobody in office has more than the longest term left. *)
LEMMA LeftFacts ==
    ASSUME Basic, NEW n \in Nodes, InOffice(n)
    PROVE  Left(n) \in Nat /\ Left(n) <= LongestTerm
<1>1. TypeOK /\ StageOK /\ TimerOK
  BY DEF Basic
<1>2. timer[n] \in {NoTimer} \cup Nat /\ poll[n] \in {NoTimer} \cup 0..RenewDeadline
  BY <1>1, ConfigAssumption, EnvironmentAssumption DEF TypeOK
<1> USE BoundFacts, ConfigAssumption, EnvironmentAssumption
<1>3. CASE InReply(n)
  BY <1>1, <1>3 DEF TimerOK, Left
<1>4. CASE ~InReply(n) /\ phase[n] = "leader"
  <2>1. poll[n] = NoTimer => timer[n] \in 0..LongestPause
    BY <1>1, <1>4 DEF StageOK, TimerOK
  <2> QED BY <1>2, <1>4, <2>1 DEF Left
<1>5. CASE ~InReply(n) /\ phase[n] = "stopping"
  <2>1. stage[n] = "event" => timer[n] \in 0..MaxEvent
    BY <1>1 DEF TimerOK
  <2>2. stage[n] # "event" => poll[n] \in 0..RenewDeadline /\ ReleaseTime = RenewDeadline
    BY <1>1, <1>2, <1>5 DEF StageOK, TimerOK, ReleaseTime
  <2> QED BY <1>5, <2>1, <2>2 DEF Left
<1> QED BY <1>3, <1>4, <1>5 DEF InOffice, Leading

(* At most one node is in office. *)
LEMMA OneInOffice ==
    ASSUME OfficeOK, NEW m \in Nodes, NEW n \in Nodes, InOffice(m), InOffice(n)
    PROVE  m = n
<1>1. Held(m) = Held(n)
  BY DEF OfficeOK, Secure
<1> QED BY <1>1, RecordFacts

(* A call that somebody else gives up leaves no write behind that could take *)
(* the lease from the node in office.                                        *)
LEMMA AbandonOther ==
    ASSUME Basic, OfficeOK, NEW k \in Nodes, InOffice(k),
           NEW n \in Nodes \ {k}, Abandon(n)
    PROVE  late' = late
<1>1. Secure(k)
  BY DEF OfficeOK
<1>2. ~InOffice(n)
  BY OneInOffice
<1>3. stage[n] # "relWrite"
  BY <1>2 DEF Basic, StageOK, TypeOK, InOffice, Leading, Calls, Phases
<1>4. ~(stage[n] = "write" /\ n \in fresh)
  BY <1>1 DEF Secure
<1>5. ~(stage[n] = "fast" /\ n \in fresh)
  <2> SUFFICES ASSUME stage[n] = "fast", n \in fresh PROVE FALSE
    OBVIOUS
  <2>1. observed[n] = lease /\ IsLeader(n)
    BY DEF Basic, ViewOK, View
  <2> QED BY <1>1, <2>1, RecordFacts DEF Secure, IsLeader
<1>6. lease # NoLease
  BY <1>1, RecordFacts DEF Secure
<1> QED BY <1>3, <1>4, <1>5, <1>6 DEF Abandon

(* What the node in office gives up itself carries its own name. *)
LEMMA AbandonSelf ==
    ASSUME OfficeOK, NEW n \in Nodes, InOffice(n), Abandon(n), stage[n] # "relWrite"
    PROVE  late' \subseteq {Held(n)}
BY DEF OfficeOK, Secure, Abandon

(* A node in office stays secure while another takes a step that writes      *)
(* nothing and does not end with it about to write.                          *)
LEMMA OtherStep ==
    ASSUME Basic, OfficeOK, NEW n \in Nodes, Frame(n),
           NEW k \in Nodes \ {n}, InOffice(k)', lease' = lease,
           Abandon(n) \/ late' = late,
           n \in fresh' => stage'[n] # "write",
           InOffice(k) /\ n \in current' =>
               n \notin expired' /\ age'[n] + Left(k) <= LongestTerm
    PROVE  Secure(k)'
<1>1. InOffice(k) /\ Left(k)' = Left(k)
  BY DEF InOffice, Leading, InReply, Left, Frame
<1>2. Secure(k)
  BY <1>1 DEF OfficeOK
<1>3. late' = late
  BY <1>1, AbandonOther
<1>4. ASSUME NEW m \in Nodes \ {k}
      PROVE  /\ m \in fresh' => stage'[m] # "write"
             /\ m \in current' => m \notin expired' /\ age'[m] + Left(k)' <= LongestTerm
  <2>1. CASE m = n
    BY <1>1, <2>1
  <2>2. CASE m # n
    BY <1>1, <1>2, <2>2 DEF Frame, Secure
  <2> QED BY <2>1, <2>2
<1> QED BY <1>2, <1>3, <1>4 DEF Secure

(* A node in office stays secure in a step of its own that does not extend   *)
(* its time.                                                                 *)
LEMMA OwnStep ==
    ASSUME Basic, OfficeOK, NEW n \in Nodes, Frame(n), InOffice(n), lease' = lease,
           (Abandon(n) /\ stage[n] # "relWrite") \/ late' = late,
           Left(n)' \in Int, Left(n)' <= Left(n)
    PROVE  Secure(n)'
<1>1. Secure(n) /\ Left(n) \in Nat
  BY LeftFacts DEF OfficeOK
<1>2. late' \subseteq {Held(n)}
  BY <1>1, AbandonSelf DEF Secure
<1>3. ASSUME NEW m \in Nodes \ {n}
      PROVE  /\ m \in fresh' => stage'[m] # "write"
             /\ m \in current' => m \notin expired' /\ age'[m] + Left(n)' <= LongestTerm
  <2>1. age[m] \in Nat /\ LongestTerm \in Nat
    BY BoundFacts, ConfigAssumption DEF Basic, TypeOK
  <2> QED BY <1>1, <2>1 DEF Frame, Secure
<1> QED BY <1>1, <1>2, <1>3 DEF Secure

(* A write by n makes it the one in office: nobody else was. *)
LEMMA WriteStep ==
    ASSUME Basic, NEW n \in Nodes, Frame(n), Store(n, Held(n)),
           \A k \in Nodes \ {n} : ~InOffice(k)
    PROVE  OfficeOK'
<1>1. ASSUME NEW k \in Nodes \ {n} PROVE ~InOffice(k)'
  BY <1>1 DEF Frame, InOffice, Leading, InReply
<1>2. Secure(n)'
  BY DEF Secure, Store
<1> QED BY <1>1, <1>2 DEF OfficeOK

(* An attempt begins: the observed record is not judged expired. *)
LEMMA BeginOffice ==
    ASSUME Basic, OfficeOK, LongestTerm < LeaseDuration, NEW n \in Nodes, Begin(n)
    PROVE  OfficeOK'
<1>0. TypeOK /\ StageOK /\ TimerOK /\ ViewOK
  BY DEF Basic
<1>1. Frame(n)
  BY <1>0 DEF Begin, SetStage, SetTimer, Frame, TypeOK
<1>2. ASSUME NEW k \in Nodes \ {n}, InOffice(k)' PROVE Secure(k)'
  <2>1. n \in fresh' => stage'[n] # "write"
    BY <1>0 DEF Begin, SetStage, TypeOK
  <2>2. ASSUME InOffice(k), n \in current'
        PROVE  n \notin expired' /\ age'[n] + Left(k) <= LongestTerm
    <3>1. n \in current /\ age' = age /\ Secure(k) /\ Left(k) \in Nat
      BY <2>2, LeftFacts DEF Begin, OfficeOK
    <3>2. observed[n] = Held(k) /\ age[n] + Left(k) <= LongestTerm /\ n \notin expired
      BY <1>0, <3>1 DEF Secure, ViewOK, View
    <3>3. age[n] < observed[n].dur
      BY <1>0, <3>1, <3>2, RecordFacts, BoundFacts, ConfigAssumption DEF TypeOK
    <3> QED BY <3>1, <3>2, <3>3 DEF Begin
  <2> QED BY <1>1, <1>2, <2>1, <2>2, OtherStep DEF Begin
<1>3. ASSUME InOffice(n)' PROVE Secure(n)'
  <2>1. /\ phase[n] = "leader" /\ stage[n] = "sleep" /\ timer[n] = 0 /\ phase' = phase
        /\ ~InReply(n) /\ ~InReply(n)'
        /\ poll'[n] = IF poll[n] = NoTimer THEN RenewDeadline ELSE poll[n]
    BY <1>0, <1>3 DEF Begin, SetStage, InOffice, Leading, InReply, TypeOK
  <2>2. InOffice(n) /\ Left(n)' = Left(n)
    BY <1>0, <2>1, BoundFacts, ConfigAssumption, EnvironmentAssumption
       DEF Left, InOffice, Leading, NoTimer, TypeOK
  <2> QED BY <1>1, <2>2, LeftFacts, OwnStep DEF Begin
<1> QED BY <1>2, <1>3 DEF OfficeOK

(* The fast path writes when the lease is the node's own. *)
LEMMA FastUpdateOffice ==
    ASSUME Basic, OfficeOK, NEW n \in Nodes, FastUpdate(n)
    PROVE  OfficeOK'
<1>0. TypeOK /\ StageOK /\ TimerOK /\ ViewOK
  BY DEF Basic
<1>1. Frame(n)
  BY <1>0 DEF FastUpdate, Store, SetStage, SetTimer, Frame, TypeOK
<1>2. CASE n \in fresh
  <2>1. observed[n] = lease /\ observed[n].holder = n
    BY <1>0, <1>2 DEF FastUpdate, ViewOK, View, IsLeader
  <2>2. ASSUME NEW k \in Nodes \ {n}, InOffice(k) PROVE FALSE
    BY <2>1, <2>2, RecordFacts DEF OfficeOK, Secure
  <2> QED BY <1>1, <1>2, <2>2, WriteStep DEF FastUpdate
<1>3. CASE n \notin fresh
  <2>1. /\ stage[n] = "fast" /\ stage'[n] = "get"
        /\ UNCHANGED <<lease, late, fresh, current, phase, poll, timer, age, expired>>
    BY <1>0, <1>3 DEF FastUpdate, SetStage, TypeOK
  <2>2. ASSUME NEW k \in Nodes \ {n}, InOffice(k)' PROVE Secure(k)'
    BY <1>1, <2>1, <2>2, OtherStep DEF OfficeOK, Secure
  <2>3. ASSUME InOffice(n)' PROVE Secure(n)'
    <3>1. InOffice(n) /\ Left(n)' = Left(n)
      BY <1>0, <2>1, <2>3 DEF StageOK, InOffice, Leading, InReply, Left
    <3> QED BY <1>1, <2>1, <3>1, LeftFacts, OwnStep
  <2> QED BY <2>2, <2>3 DEF OfficeOK
<1> QED BY <1>2, <1>3

(* The fast path fails. *)
LEMMA FastFailOffice ==
    ASSUME Basic, OfficeOK, LongestTerm < LeaseDuration, NEW n \in Nodes, FastFail(n)
    PROVE  OfficeOK'
<1>0. TypeOK /\ StageOK /\ TimerOK /\ ViewOK
  BY DEF Basic
<1>1. Frame(n)
  BY <1>0 DEF FastFail, SetStage, SetTimer, Frame, TypeOK
<1>2. ASSUME NEW k \in Nodes \ {n}, InOffice(k)' PROVE Secure(k)'
  <2>1. stage'[n] = "get" /\ UNCHANGED <<lease, current, expired, age>> /\ Abandon(n)
    BY <1>0 DEF FastFail, SetStage, TypeOK
  <2> QED BY <1>1, <1>2, <2>1, OtherStep DEF OfficeOK, Secure
<1>3. ASSUME InOffice(n)' PROVE Secure(n)'
  <2>1. /\ stage[n] \in {"fast", "fastReply"} /\ stage'[n] = "get"
        /\ UNCHANGED <<lease, phase, poll>> /\ Abandon(n)
    BY <1>0 DEF FastFail, SetStage, TypeOK
  <2>2. phase[n] = "leader" /\ poll[n] \in 0..RenewDeadline
    BY <1>0, <1>3, <2>1 DEF StageOK, TimerOK, TypeOK, InOffice, Leading, InReply, Calls
  <2>3. InReply(n) => timer[n] \in 0..MaxReply
    BY <1>0 DEF TimerOK
  <2>4. InOffice(n) /\ Left(n)' \in Int /\ Left(n)' <= Left(n)
    BY <2>1, <2>2, <2>3, BoundFacts, ConfigAssumption, EnvironmentAssumption
       DEF InOffice, Leading, InReply, Left, NoTimer
  <2> QED BY <1>1, <2>1, <2>4, OwnStep
<1> QED BY <1>2, <1>3 DEF OfficeOK

(* get() reads the Lease. *)
LEMMA GetReadOffice ==
    ASSUME Basic, OfficeOK, LongestTerm < LeaseDuration, NEW n \in Nodes, GetRead(n)
    PROVE  OfficeOK'
<1>0. TypeOK /\ StageOK /\ TimerOK /\ ViewOK
  BY DEF Basic
<1>1. Frame(n)
  BY <1>0 DEF GetRead, SetStage, SetTimer, Frame, TypeOK
<1>2. ASSUME NEW k \in Nodes \ {n}, InOffice(k)' PROVE Secure(k)'
  <2>1. stage'[n] \in {"create", "got"} /\ UNCHANGED <<lease, late, current, expired, age>>
    BY <1>0 DEF GetRead, SetStage, TypeOK
  <2> QED BY <1>1, <1>2, <2>1, OtherStep DEF OfficeOK, Secure
<1>3. ASSUME InOffice(n)' PROVE Secure(n)'
  <2>1. /\ stage[n] = "get" /\ stage'[n] \in {"create", "got"}
        /\ UNCHANGED <<lease, late, phase, poll, timer>>
    BY <1>0 DEF GetRead, SetStage, TypeOK
  <2>2. InOffice(n) /\ Left(n)' = Left(n)
    BY <1>0, <1>3, <2>1 DEF StageOK, InOffice, Leading, InReply, Left
  <2> QED BY <1>1, <2>1, <2>2, LeftFacts, OwnStep
<1> QED BY <1>2, <1>3 DEF OfficeOK

(* get() fails, or a write fails or its reply is lost. *)
LEMMA FailOffice ==
    ASSUME Basic, OfficeOK, LongestTerm < LeaseDuration, NEW n \in Nodes, GetFail(n) \/ WriteFail(n)
    PROVE  OfficeOK'
<1>0. TypeOK /\ StageOK /\ TimerOK /\ ViewOK
  BY DEF Basic
<1>1. Frame(n)
  BY <1>0 DEF GetFail, WriteFail, Fail, SetStage, SetTimer, Frame, TypeOK
<1>2. ASSUME NEW k \in Nodes \ {n}, InOffice(k)' PROVE Secure(k)'
  <2>1. /\ stage'[n] = "sleep" /\ UNCHANGED <<lease, current, age>> /\ expired' = expired \ {n}
        /\ Abandon(n) \/ late' = late
    BY <1>0 DEF GetFail, WriteFail, Fail, SetStage, TypeOK
  <2> QED BY <1>1, <1>2, <2>1, OtherStep DEF OfficeOK, Secure
<1>3. ASSUME InOffice(n)' PROVE Secure(n)'
  <2>1. /\ stage[n] \in {"get", "create", "write", "reply"} /\ stage'[n] = "sleep"
        /\ UNCHANGED <<lease, phase, poll>>
        /\ Abandon(n) \/ late' = late
    BY <1>0 DEF GetFail, WriteFail, Fail, SetStage, TypeOK
  <2>2. phase[n] = "leader" /\ poll[n] \in 0..RenewDeadline
    BY <1>0, <1>3, <2>1 DEF StageOK, TimerOK, TypeOK, InOffice, Leading, InReply, Calls
  <2>3. InReply(n) => timer[n] \in 0..MaxReply
    BY <1>0 DEF TimerOK
  <2>4. InOffice(n) /\ Left(n)' \in Int /\ Left(n)' <= Left(n)
    BY <2>1, <2>2, <2>3, BoundFacts, ConfigAssumption, EnvironmentAssumption
       DEF InOffice, Leading, InReply, Left, NoTimer
  <2> QED BY <1>1, <2>1, <2>4, OwnStep
<1> QED BY <1>2, <1>3 DEF OfficeOK

(* Somebody who knows the lease of the node in office gives up the attempt;  *)
(* one that has just learnt of it observes it from now on.                   *)
LEMMA GetReplyOffice ==
    ASSUME Basic, OfficeOK, LongestTerm < LeaseDuration, NEW n \in Nodes, GetReply(n)
    PROVE  OfficeOK'
<1>0. TypeOK /\ StageOK /\ TimerOK /\ ViewOK
  BY DEF Basic
<1> DEFINE old == [holder |-> read[n].holder, dur |-> read[n].dur]
           same == read[n].same
           valid == IF same THEN n \notin expired ELSE old.dur > 0
<1>1. /\ stage[n] = "got" /\ UNCHANGED <<lease, late, fresh, phase, poll>>
      /\ age' = [age EXCEPT ![n] = IF same THEN @ ELSE 0]
      /\ current' = IF n \in fresh THEN current \cup {n} ELSE current
      /\ expired' = expired \ {n}
      /\ old.holder # Nobody /\ valid /\ old.holder # n
            => stage' = [stage EXCEPT ![n] = "sleep"]
  BY DEF GetReply, Fail, SetStage
<1>2. \/ /\ stage' = [stage EXCEPT ![n] = "sleep"]
         /\ timer' = [timer EXCEPT ![n] = IF phase[n] = "leader" THEN RetryPeriod ELSE NoTimer]
      \/ /\ stage' = [stage EXCEPT ![n] = "write"] /\ timer' = timer
  BY DEF GetReply, Fail, SetStage, SetTimer
<1>3. (n \in current => same) /\ (n \in fresh => old = lease /\ (same => n \in current))
  BY <1>0, <1>1 DEF ViewOK, View
<1>4. Frame(n)
  BY <1>0, <1>1, <1>2 DEF TypeOK, Frame
<1>5. ASSUME NEW k \in Nodes \ {n}, InOffice(k)' PROVE Secure(k)'
  <2>1. InOffice(k)
    BY <1>4, <1>5 DEF Frame, InOffice, Leading, InReply
  <2>2. Secure(k) /\ Left(k) \in Nat /\ Left(k) <= LongestTerm
    BY <2>1, LeftFacts DEF OfficeOK
  <2>3. n \in fresh' => stage'[n] # "write"
    <3> SUFFICES ASSUME n \in fresh PROVE stage'[n] # "write"
      BY <1>1
    <3>1. old = Held(k) /\ (same => n \notin expired)
      BY <1>3, <2>2 DEF Secure
    <3>2. old.holder = k /\ old.dur = LeaseDuration /\ k # Nobody
      BY <3>1, RecordFacts, NodeAssumption
    <3>3. valid
      BY <3>1, <3>2, ConfigAssumption
    <3> QED BY <1>0, <1>1, <3>2, <3>3 DEF TypeOK
  <2>4. n \in current' => n \notin expired' /\ age'[n] + Left(k) <= LongestTerm
    <3>1. CASE n \in current
      BY <1>0, <1>1, <1>3, <2>2, <3>1 DEF Secure, TypeOK
    <3>2. CASE n \notin current /\ n \in fresh
      <4>1. ~same
        BY <1>3, <3>2
      <4> QED BY <1>0, <1>1, <2>2, <4>1 DEF TypeOK
    <3> QED BY <1>1, <3>1, <3>2
  <2> HIDE DEF old, same, valid
  <2> QED BY <1>1, <1>4, <1>5, <2>3, <2>4, OtherStep
<1>6. ASSUME InOffice(n)' PROVE Secure(n)'
  <2>1. stage'[n] \in {"sleep", "write"}
    BY <1>0, <1>2 DEF TypeOK
  <2>2. phase[n] = "leader" /\ poll[n] \in 0..RenewDeadline
    BY <1>0, <1>1, <1>6, <2>1 DEF StageOK, TimerOK, TypeOK, InOffice, Leading, InReply, Calls
  <2>3. InOffice(n) /\ Left(n)' = Left(n)
    BY <1>1, <2>1, <2>2, ConfigAssumption DEF InOffice, Leading, InReply, Left, NoTimer
  <2> HIDE DEF old, same, valid
  <2> QED BY <1>1, <1>4, <2>3, LeftFacts, OwnStep
<1> QED BY <1>5, <1>6 DEF OfficeOK

(* create() and update() take effect when nobody else is in office. *)
LEMMA WriteOffice ==
    ASSUME Basic, OfficeOK, NEW n \in Nodes, Create(n) \/ Update(n)
    PROVE  OfficeOK'
<1>0. TypeOK /\ StageOK /\ TimerOK /\ ViewOK
  BY DEF Basic
<1>1. Frame(n)
  BY <1>0 DEF Create, Update, Store, Fail, SetStage, SetTimer, Frame, TypeOK
<1>2. CASE (Create(n) /\ lease = NoLease) \/ (Update(n) /\ n \in fresh)
  <2>1. ASSUME NEW k \in Nodes \ {n}, InOffice(k) PROVE FALSE
    <3>1. Secure(k)
      BY <2>1 DEF OfficeOK
    <3> QED BY <1>2, <3>1, RecordFacts DEF Secure, Update
  <2>2. Store(n, Held(n))
    BY <1>2 DEF Create, Update
  <2> QED BY <1>1, <2>1, <2>2, WriteStep
<1>3. CASE ~((Create(n) /\ lease = NoLease) \/ (Update(n) /\ n \in fresh))
  <2>1. /\ stage[n] \in {"create", "write"} /\ stage'[n] = "sleep"
        /\ UNCHANGED <<lease, late, fresh, current, phase, poll, age>>
        /\ expired' = expired \ {n}
    BY <1>0, <1>3 DEF Create, Update, Fail, SetStage, TypeOK
  <2>2. ASSUME NEW k \in Nodes \ {n}, InOffice(k)' PROVE Secure(k)'
    BY <1>1, <2>1, <2>2, OtherStep DEF OfficeOK, Secure
  <2>3. ASSUME InOffice(n)' PROVE Secure(n)'
    <3>1. phase[n] = "leader" /\ poll[n] \in 0..RenewDeadline
      BY <1>0, <2>1, <2>3 DEF StageOK, TimerOK, TypeOK, InOffice, Leading, InReply, Calls
    <3>2. InOffice(n) /\ Left(n)' = Left(n)
      BY <2>1, <3>1, ConfigAssumption DEF InOffice, Leading, InReply, Left, NoTimer
    <3> QED BY <1>1, <2>1, <3>2, LeftFacts, OwnStep
  <2> QED BY <2>2, <2>3 DEF OfficeOK
<1> QED BY <1>2, <1>3

(* A node in office steps on within its time: the attempt succeeds, renew()  *)
(* starts or ends, record_event("stopped leading") returns and release()     *)
(* reads.                                                                    *)
LEMMA TermOffice ==
    ASSUME Basic, OfficeOK, NEW n \in Nodes,
           \/ Success(n) \/ StartRenewing(n)
           \/ RenewTimeout(n) \/ CancelLeader(n)
           \/ StoppedEvent(n) /\ ReleaseOnCancel
           \/ ReleaseGet(n) /\ IsLeader(n)
    PROVE  OfficeOK'
<1>0. TypeOK /\ StageOK /\ TimerOK /\ ViewOK
  BY DEF Basic
<1> USE BoundFacts, ConfigAssumption, EnvironmentAssumption
<1>1. InOffice(n)
  BY <1>0 DEF Success, StartRenewing, RenewTimeout, CancelLeader, StoppedEvent, ReleaseGet,
              StageOK, TypeOK, Phases, Calls, InOffice, Leading, InReply
<1>2. ASSUME NEW k \in Nodes \ {n}, Frame(n) PROVE ~InOffice(k)'
  <2>1. ~InOffice(k)
    BY <1>1, OneInOffice
  <2> QED BY <1>2, <2>1 DEF Frame, InOffice, Leading, InReply
<1>3. CASE Success(n)
  <2>1. Frame(n)
    BY <1>0, <1>3 DEF Success, SetStage, SetTimer, Frame, TypeOK
  <2>2. /\ InReply(n) /\ phase'[n] = "leader" /\ stage'[n] \in {"event", "sleep"}
        /\ timer'[n] \in {MaxEvent, RetryPeriod} /\ poll'[n] = NoTimer
        /\ UNCHANGED <<lease, late>>
    BY <1>0, <1>3 DEF Success, SetStage, SetTimer, InReply, TypeOK
  <2>3. timer[n] \in 0..MaxReply
    BY <1>0, <2>2 DEF TimerOK
  <2>4. Left(n)' \in Int /\ Left(n)' <= Left(n)
    BY <2>2, <2>3 DEF Left, InReply
  <2> QED BY <1>1, <1>2, <2>1, <2>2, <2>4, OwnStep DEF OfficeOK
<1>4. CASE StartRenewing(n)
  <2>1. Frame(n)
    BY <1>0, <1>4 DEF StartRenewing, SetStage, SetTimer, Frame, TypeOK
  <2>2. /\ phase[n] = "leader" /\ stage[n] = "event" /\ stage'[n] = "sleep"
        /\ timer'[n] = 0 /\ UNCHANGED <<lease, late, phase, poll>>
    BY <1>0, <1>4 DEF StartRenewing, SetStage, SetTimer, TypeOK
  <2>3. timer[n] \in 0..MaxEvent /\ poll[n] = NoTimer
    BY <1>0, <2>2 DEF TimerOK
  <2>4. Left(n)' \in Int /\ Left(n)' <= Left(n)
    BY <2>2, <2>3 DEF Left, InReply
  <2> QED BY <1>1, <1>2, <2>1, <2>2, <2>4, OwnStep DEF OfficeOK
<1>5. CASE RenewTimeout(n) \/ CancelLeader(n)
  <2>0. phase[n] = "leader" /\ EndRenew(n)
    BY <1>5 DEF RenewTimeout, CancelLeader
  <2>1. Frame(n)
    BY <1>0, <2>0 DEF EndRenew, SetStage, SetTimer, Frame, TypeOK
  <2>2. /\ phase'[n] = "stopping" /\ stage'[n] = "event" /\ timer'[n] = MaxEvent
        /\ lease' = lease /\ Abandon(n) /\ stage[n] # "relWrite"
    BY <1>0, <2>0 DEF EndRenew, SetStage, SetTimer, TypeOK, StageOK, Calls
  <2>3. MaxEvent + ReleaseTime <= Left(n)
    <3>1. timer[n] \in Nat \cup {NoTimer} /\ poll[n] \in Nat \cup {NoTimer}
      BY <1>0 DEF TypeOK
    <3>2. InReply(n) => timer[n] \in 0..MaxReply
      BY <1>0 DEF TimerOK
    <3>3. poll[n] = NoTimer => timer[n] # NoTimer
      BY <1>0, <2>0 DEF TimerOK, StageOK, NoTimer
    <3> QED BY <2>0, <3>1, <3>2, <3>3 DEF Left, NoTimer
  <2>4. Left(n)' = MaxEvent + ReleaseTime
    BY <2>2 DEF Left, InReply
  <2> QED BY <1>1, <1>2, <2>1, <2>2, <2>3, <2>4, OwnStep DEF OfficeOK
<1>6. CASE StoppedEvent(n) /\ ReleaseOnCancel
  <2>1. Frame(n)
    BY <1>0, <1>6 DEF StoppedEvent, SetStage, SetTimer, Frame, TypeOK
  <2>2. /\ phase[n] = "stopping" /\ stage[n] = "event" /\ stage'[n] = "relGet"
        /\ poll'[n] = RenewDeadline /\ UNCHANGED <<lease, late, phase>>
    BY <1>0, <1>6 DEF StoppedEvent, SetStage, TypeOK
  <2>3. timer[n] \in 0..MaxEvent /\ ReleaseTime = RenewDeadline
    BY <1>0, <1>6, <2>2 DEF TimerOK, ReleaseTime
  <2>4. Left(n)' \in Int /\ Left(n)' <= Left(n)
    BY <2>2, <2>3 DEF Left, InReply
  <2> QED BY <1>1, <1>2, <2>1, <2>2, <2>4, OwnStep DEF OfficeOK
<1>7. CASE ReleaseGet(n) /\ IsLeader(n)
  <2>1. Frame(n)
    BY <1>0, <1>7 DEF ReleaseGet, SetStage, SetTimer, Frame, TypeOK
  <2>2. /\ stage[n] = "relGet" /\ stage'[n] = "relWrite"
        /\ UNCHANGED <<lease, late, phase, poll, timer>>
    BY <1>0, <1>7 DEF ReleaseGet, SetStage, TypeOK
  <2>3. Left(n)' = Left(n)
    BY <1>0, <2>2 DEF Left, InReply, StageOK, Calls
  <2> QED BY <1>1, <1>2, <2>1, <2>2, <2>3, LeftFacts, OwnStep DEF OfficeOK
<1> QED BY <1>3, <1>4, <1>5, <1>6, <1>7

(* A process that exits holds no office, and what it leaves behind does not  *)
(* hurt the one that does.                                                   *)
LEMMA ExitOffice ==
    ASSUME Basic, OfficeOK, NEW n \in Nodes, Exit(n), lease' = lease,
           Abandon(n) \/ late' = late
    PROVE  OfficeOK'
<1>0. TypeOK
  BY DEF Basic
<1>1. Frame(n)
  BY <1>0 DEF Exit, SetStage, SetTimer, Frame, TypeOK
<1>2. stage'[n] = "none" /\ phase'[n] = "exited" /\ n \notin current'
  BY <1>0 DEF Exit, SetStage, TypeOK
<1>3. ~InOffice(n)'
  BY <1>2 DEF InOffice, Leading, InReply
<1>4. ASSUME NEW k \in Nodes \ {n}, InOffice(k)' PROVE Secure(k)'
  BY <1>1, <1>2, <1>4, OtherStep
<1> QED BY <1>3, <1>4 DEF OfficeOK

(* The one in office gives up the lease, and leaves the office with it. *)
LEMMA ReleaseUpdateOffice ==
    ASSUME Basic, OfficeOK, NEW n \in Nodes, ReleaseUpdate(n)
    PROVE  OfficeOK'
<1>0. TypeOK /\ StageOK
  BY DEF Basic
<1>1. CASE n \in fresh
  <2>1. stage[n] = "relWrite" /\ stage'[n] = "relReply" /\ phase'[n] = "released" /\ Frame(n)
    BY <1>0, <1>1 DEF ReleaseUpdate, Store, SetStage, SetTimer, Frame, TypeOK
  <2>2. InOffice(n) /\ ~InOffice(n)'
    BY <1>0, <2>1 DEF StageOK, TypeOK, Phases, Calls, InOffice, Leading, InReply
  <2>3. ASSUME NEW k \in Nodes \ {n} PROVE ~InOffice(k)'
    <3>1. ~InOffice(k)
      BY <2>2, OneInOffice
    <3> QED BY <2>1, <3>1 DEF Frame, InOffice, Leading, InReply
  <2> QED BY <2>2, <2>3 DEF OfficeOK
<1>2. CASE n \notin fresh
  BY <1>2, ExitOffice DEF ReleaseUpdate
<1> QED BY <1>1, <1>2

(* The only write that can arrive late is one of the node in office. *)
LEMMA LateWriteOffice ==
    ASSUME OfficeOK, NEW rec \in late, LateWrite(rec)
    PROVE  OfficeOK'
<1> SUFFICES ASSUME NEW k \in Nodes, InOffice(k)' PROVE Secure(k)'
  BY DEF OfficeOK
<1>1. Secure(k)
  BY DEF OfficeOK, LateWrite, InOffice, Leading, InReply
<1> QED BY <1>1 DEF Secure, LateWrite

(* With every tick the time left shrinks by as much as the observed record   *)
(* grows older.                                                              *)
LEMMA TickOffice ==
    ASSUME Basic, OfficeOK, Tick
    PROVE  OfficeOK'
<1>0. TypeOK /\ StageOK /\ TimerOK
  BY DEF Basic
<1> SUFFICES ASSUME NEW k \in Nodes, InOffice(k)' PROVE Secure(k)'
  BY DEF OfficeOK
<1> USE BoundFacts, ConfigAssumption, EnvironmentAssumption
<1>1. InOffice(k)
  BY DEF Tick, InOffice, Leading, InReply
<1>2. Secure(k) /\ Left(k) \in Nat
  BY <1>1, LeftFacts DEF OfficeOK
<1>3. /\ timer[k] \in Nat => timer'[k] = timer[k] - 1
      /\ poll[k] \in Nat => poll'[k] = poll[k] - 1
      /\ poll[k] = NoTimer => poll'[k] = NoTimer
      /\ UNCHANGED <<lease, late, fresh, phase, stage, current, expired>>
  BY DEF Tick, NoTimer
<1>4. /\ poll[k] \in Nat \cup {NoTimer} /\ timer[k] \in Nat \cup {NoTimer}
      /\ poll[k] \in Nat => poll[k] > 0
  BY <1>0 DEF TypeOK, Tick
<1>5. Left(k)' = Left(k) - 1
  <2>1. CASE InReply(k)
    <3>1. timer[k] \in Nat
      BY <1>0, <2>1 DEF TimerOK
    <3> QED BY <1>3, <2>1, <3>1 DEF Left, InReply
  <2>2. CASE ~InReply(k) /\ phase[k] = "leader"
    <3>1. poll[k] = NoTimer => timer[k] \in Nat
      BY <1>0, <2>2 DEF TimerOK, StageOK
    <3> QED BY <1>3, <1>4, <2>2, <3>1 DEF Left, InReply, NoTimer
  <2>3. CASE ~InReply(k) /\ phase[k] = "stopping"
    <3>1. IF stage[k] = "event" THEN timer[k] \in Nat ELSE poll[k] \in Nat
      BY <1>0, <1>4, <2>3 DEF TimerOK, StageOK
    <3> QED BY <1>3, <2>3, <3>1 DEF Left, InReply
  <2> QED BY <1>1, <2>1, <2>2, <2>3 DEF InOffice, Leading
<1>6. ASSUME NEW m \in Nodes PROVE age[m] \in Nat /\ age'[m] \in Nat /\ age'[m] <= age[m] + 1
  BY <1>0 DEF Tick, TypeOK
<1> QED BY <1>2, <1>3, <1>5, <1>6 DEF Secure

-----------------------------------------------------------------------------
(* The invariant and what follows from it. *)

(* No step of the elector, the store or time breaks the invariant. *)
LEMMA NextInv == IInv /\ [Next]_vars => IInv'
<1> SUFFICES ASSUME IInv, [Next]_vars PROVE IInv'
  OBVIOUS
<1>1. Basic /\ Basic'
  BY NextBasic DEF IInv
<1> SUFFICES ASSUME LongestTerm < LeaseDuration PROVE OfficeOK'
  BY <1>1 DEF IInv, LongestTerm
<1>2. OfficeOK
  BY DEF IInv
<1>3. ASSUME NEW n \in Nodes, Attempt(n) \/ StartRenewing(n)
      PROVE  OfficeOK'
  BY <1>1, <1>2, <1>3, BeginOffice, FastUpdateOffice, FastFailOffice, GetReadOffice,
     FailOffice, GetReplyOffice, WriteOffice, TermOffice DEF Attempt
<1>4. ASSUME NEW n \in Nodes, Stop(n)
      PROVE  OfficeOK'
  <2>1. CASE RenewTimeout(n) \/ CancelLeader(n)
    BY <1>1, <1>2, <2>1, TermOffice
  <2>2. CASE CancelFollower(n) \/ ReleaseEnd(n)
    BY <1>1, <1>2, <2>2, ExitOffice DEF CancelFollower, ReleaseEnd
  <2>3. CASE StoppedEvent(n)
    BY <1>1, <1>2, <2>3, TermOffice, ExitOffice DEF StoppedEvent
  <2>4. CASE ReleaseGet(n)
    BY <1>1, <1>2, <2>4, TermOffice, ExitOffice DEF ReleaseGet
  <2> QED BY <1>1, <1>2, <1>4, <2>1, <2>2, <2>3, <2>4, ReleaseUpdateOffice DEF Stop
<1>5. ASSUME NEW n \in Nodes, Crash(n)
      PROVE  OfficeOK'
  BY <1>1, <1>2, <1>5, ExitOffice DEF Crash
<1>6. ASSUME NEW n \in Nodes, Restart(n)
      PROVE  OfficeOK'
  <2>1. Frame(n) /\ UNCHANGED <<lease, late, fresh, current, age, expired>>
    BY <1>1, <1>6 DEF Restart, SetStage, Frame, Basic, TypeOK
  <2>2. stage'[n] = "sleep" /\ phase'[n] = "follower"
    BY <1>1, <1>6 DEF Restart, SetStage, Basic, TypeOK
  <2>3. ~InOffice(n)'
    BY <2>2 DEF InOffice, Leading, InReply
  <2>4. ASSUME NEW k \in Nodes \ {n}, InOffice(k)' PROVE Secure(k)'
    BY <1>1, <1>2, <2>1, <2>2, <2>4, OtherStep DEF OfficeOK, Secure
  <2> QED BY <2>3, <2>4 DEF OfficeOK
<1>7. CASE UNCHANGED vars
  BY <1>2, <1>7 DEF vars, OfficeOK, Secure, InOffice, Leading, InReply, Left
<1> QED BY <1>1, <1>2, <1>3, <1>4, <1>5, <1>6, <1>7, LateWriteOffice, TickOffice DEF Next

(* The processes start as followers that know nothing. *)
LEMMA InitInv == Init => IInv
<1> SUFFICES ASSUME Init PROVE IInv
  OBVIOUS
<1> USE ConfigAssumption, EnvironmentAssumption DEF Init
<1>1. TypeOK
  BY ReadFacts DEF TypeOK, Stages, Phases
<1>2. StageOK /\ TimerOK
  BY DEF StageOK, TimerOK, InReply, Calls
<1>3. ViewOK
  BY DEF ViewOK, View, InReply
<1>4. OfficeOK
  BY DEF OfficeOK, InOffice, Leading, InReply
<1> QED BY <1>1, <1>2, <1>3, <1>4 DEF IInv, Basic

(* The invariant holds in every reachable state. *)
THEOREM Invariance == Spec => []IInv
BY InitInv, NextInv, PTL DEF Spec

(* The state of the electors and of the Lease keeps its type. *)
THEOREM TypeCorrect == Spec => []TypeOK
<1>1. IInv => TypeOK
  BY DEF IInv, Basic
<1> QED BY <1>1, Invariance, PTL

(* An elector that leads is named in the Lease until it has given it up or   *)
(* exited, however its calls fail, get lost or arrive late.                  *)
THEOREM LeaderNamed == Spec => []LeaderHoldsLease
<1>1. IInv => LeaderHoldsLease
  <2> SUFFICES ASSUME IInv, LongestTerm < LeaseDuration, NEW n \in Nodes, Leading(n)
               PROVE  lease.holder = n
    BY DEF LeaderHoldsLease
  <2>1. lease = Held(n)
    BY DEF IInv, OfficeOK, Secure, InOffice
  <2> QED BY <2>1, RecordFacts
<1> QED BY <1>1, Invariance, PTL

(* No two electors lead at the same time. *)
THEOREM Exclusion == Spec => []OneLeader
<1>1. IInv => OneLeader
  BY OneInOffice DEF IInv, OneLeader, InOffice
<1> QED BY <1>1, Invariance, PTL

(* release() overwrites no successor's lease, as long as the elector gives   *)
(* it up before anybody may take it over.                                    *)
THEOREM OwnRelease ==
    ASSUME LongestTerm < LeaseDuration
    PROVE  Spec => ReleaseOnlyOwn
<1>1. ASSUME IInv, NEW n \in Nodes, ReleaseUpdate(n)
      PROVE  lease.holder = n
  <2>1. InOffice(n)
    BY <1>1 DEF IInv, Basic, StageOK, TypeOK, Phases, Calls, ReleaseUpdate, InOffice, Leading
  <2>2. lease = Held(n)
    BY <1>1, <2>1 DEF IInv, OfficeOK, Secure
  <2> QED BY <2>2, RecordFacts
<1>2. IInv /\ [Next]_vars
        => [\A n \in Nodes : ReleaseUpdate(n) /\ lease' # lease => lease.holder = n]_vars
  BY <1>1
<1> QED BY <1>2, Invariance, PTL DEF Spec, ReleaseOnlyOwn

=============================================================================
