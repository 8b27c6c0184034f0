------------------------------ MODULE WorkQueue ------------------------------
(***************************************************************************)
(* The rate-limited, deduplicating work queue of storage/src/workqueue.rs, *)
(* driven by the worker pool of a controller                               *)
(* (controller-manager/src/controllers/replicaset.rs, worker) and by the   *)
(* watch handlers that add keys.                                           *)
(*                                                                         *)
(* Every section of code that runs under the queue's mutex is one action,  *)
(* together with the notify_one/notify_waiters call that follows the       *)
(* unlock.  get() takes the mutex twice and then parks, so it is three     *)
(* actions, and anything may happen in between.                            *)
(*                                                                         *)
(* Time.  The code only ever uses differences of Instants.  The model      *)
(* keeps the differences: a deadline is the number of ticks still to go    *)
(* (0 once it has passed), the time since a key was last dequeued is an    *)
(* age that stops growing at MinReprocess.  No clock bound is needed.      *)
(***************************************************************************)
EXTENDS Integers, Sequences, FiniteSets

CONSTANTS
    Keys,          \* resource keys, "replicasets/<ns>/<name>"
    Workers,       \* the tasks of spawn_workers
    BaseDelay,     \* WorkQueueConfig.base_delay, in ticks
    MaxDelay,      \* WorkQueueConfig.max_delay, in ticks
    MinReprocess,  \* MIN_REPROCESS_INTERVAL, in ticks
    Width,         \* bits of the multiplier's integer type (u64 in the code)
    MaxFailures    \* bound: failures is not counted beyond this value

ASSUME DelayAssumption ==
    /\ BaseDelay \in Nat /\ MaxDelay \in Nat /\ MinReprocess \in Nat
    /\ MinReprocess <= MaxDelay

ASSUME CountAssumption == Width \in Nat /\ MaxFailures \in Nat \ {0}

(* Arithmetic the provers do not know: the powers in Backoff are positive. *)
ASSUME PowerAssumption == \A n \in 0..Width : 2^n \in Nat \ {0}

VARIABLES
    queue,         \* WorkQueueInner.queue: keys waiting, FIFO
    dirty,         \* WorkQueueInner.dirty
    processing,    \* WorkQueueInner.processing
    failures,      \* WorkQueueInner.failures, 0 for an absent key
    delayed,       \* WorkQueueInner.delayed: ticks to the deadline, or NoDeadline
    age,           \* ticks since WorkQueueInner.last_dequeued
    shutdown,      \* WorkQueueInner.shutdown
    permit,        \* Notify holds a stored notification
    pc,            \* where each worker is in worker() / get()
    key,           \* the key a worker holds, None otherwise
    wait,          \* the delay or deadline local to a worker's current call
    asked          \* history: keys requested since they were last handed out

vars == <<queue, dirty, processing, failures, delayed, age, shutdown,
          permit, pc, key, wait, asked>>

None == "none"

ASSUME KeyAssumption == IsFiniteSet(Keys) /\ None \notin Keys

NoDeadline == -1
Deadline == {NoDeadline} \cup 0..MaxDelay

RangeOf(s) == {s[i] : i \in DOMAIN s}
Distinct(s) == \A i, j \in DOMAIN s : s[i] = s[j] => i = j

(* A worker's deadline goes out of scope when it leaves the wait or the call. *)
Unset(w) == [wait EXCEPT ![w] = NoDeadline]

(* The worker is between get() returning a key and done() of that key. *)
Holding == {"working", "adding", "finishing"}

PCs == {"check", "peek", "park", "parked", "woken", "exited"} \cup Holding

-----------------------------------------------------------------------------
(* Helpers. *)

(* Mutant of Backoff: the cap at max_delay is missing. *)
BackoffUncapped(n) ==
    LET top == 2^Width - 1
        multiplier == IF n - 1 < Width THEN 2^(n - 1) ELSE top
    IN  IF n = 0 THEN 0
        ELSE IF BaseDelay * multiplier > top THEN top ELSE BaseDelay * multiplier

(* backoff_duration: base * 2^(failures-1) in Width-bit saturating           *)
(* arithmetic (checked_shl gives up at a shift of Width), capped at max.     *)
Backoff(n) ==
    LET top == 2^Width - 1
        multiplier == IF n - 1 < Width THEN 2^(n - 1) ELSE top
        product == IF BaseDelay * multiplier > top THEN top ELSE BaseDelay * multiplier
    IN  IF n = 0 THEN 0
        ELSE IF product > MaxDelay THEN MaxDelay ELSE product

(* Mutant of Earliest: max() for min(). *)
LatestDeadline ==
    LET due == {delayed[k] : k \in Keys} \ {NoDeadline}
    IN  IF due = {} THEN NoDeadline ELSE CHOOSE d \in due : \A e \in due : d >= e

(* The deadline get() sleeps to: delayed.values().min(). *)
Earliest ==
    LET due == {delayed[k] : k \in Keys} \ {NoDeadline}
    IN  IF due = {} THEN NoDeadline ELSE CHOOSE d \in due : \A e \in due : d <= e

(* All the orders in which the HashMap iteration may list the keys of S. *)
Orders(S) ==
    {s \in [1..Cardinality(S) -> S] : RangeOf(s) = S /\ Distinct(s)}

(* tokio::sync::Notify::notify_one, called when the workers are at p: wake   *)
(* one parked task if there is one, store the single permit otherwise.       *)
NotifyOne(p) ==
    IF \E w \in Workers : p[w] = "parked"
    THEN /\ \E w \in Workers : /\ p[w] = "parked"
                               /\ pc' = [p EXCEPT ![w] = "woken"]
         /\ permit' = permit
    ELSE pc' = p /\ permit' = TRUE

-----------------------------------------------------------------------------
Init ==
    /\ queue = <<>> /\ dirty = {} /\ processing = {}
    /\ failures = [k \in Keys |-> 0]
    /\ delayed = [k \in Keys |-> NoDeadline]
    /\ age = [k \in Keys |-> MinReprocess]
    /\ shutdown = FALSE /\ permit = FALSE
    /\ pc = [w \in Workers |-> "check"]
    /\ key = [w \in Workers |-> None]
    /\ wait = [w \in Workers |-> NoDeadline]
    /\ asked = {}

(* Mutants of AddNew: a key being processed is queued as well; it is not     *)
(* even marked dirty; nobody is notified.                                    *)
AddNewEager(k) ==
    /\ dirty' = dirty \cup {k}
    /\ delayed' = [delayed EXCEPT ![k] = NoDeadline]
    /\ queue' = Append(queue, k)
    /\ NotifyOne(pc)

AddNewDropped(k) ==
    IF k \in processing
    THEN UNCHANGED <<queue, dirty, delayed, pc, permit>>
    ELSE AddNewEager(k)

AddNewSilent(k) ==
    /\ dirty' = dirty \cup {k}
    /\ IF k \in processing
       THEN UNCHANGED <<queue, delayed>>
       ELSE /\ delayed' = [delayed EXCEPT ![k] = NoDeadline]
            /\ queue' = Append(queue, k)
    /\ UNCHANGED <<pc, permit>>

(* add(): a watch event, a pod event or the periodic resync names key k. *)
AddNew(k) ==
    /\ dirty' = dirty \cup {k}
    /\ IF k \in processing
       THEN UNCHANGED <<queue, delayed, pc, permit>>
       ELSE /\ delayed' = [delayed EXCEPT ![k] = NoDeadline]
            /\ queue' = Append(queue, k)
            /\ NotifyOne(pc)

Add(k) ==
    /\ asked' = IF shutdown THEN asked ELSE asked \cup {k}
    /\ IF shutdown \/ k \in dirty
       THEN UNCHANGED <<queue, dirty, delayed, permit, pc>>
       ELSE AddNew(k)
    /\ UNCHANGED <<processing, failures, age, shutdown, key, wait>>

(* get(), first section: leave if shut down and drained, promote what is     *)
(* due, take the head of the queue.                                          *)
Due == {k \in Keys : delayed[k] = 0}

(* Mutant of Promoted: the check of `processing` is missing. *)
PromotedRegardless == Due \ dirty

Promoted == (Due \ dirty) \ processing

PopHead(w, q, d) ==
    /\ key' = [key EXCEPT ![w] = Head(q)]
    /\ queue' = Tail(q)
    /\ dirty' = d \ {Head(q)}
    /\ processing' = processing \cup {Head(q)}
    /\ age' = [age EXCEPT ![Head(q)] = 0]
    /\ asked' = asked \ {Head(q)}
    /\ pc' = [pc EXCEPT ![w] = "working"]

GetTake(w) ==
    /\ pc[w] = "check"
    /\ ~(shutdown /\ queue = <<>>)
    /\ delayed' = [k \in Keys |-> IF k \in Due THEN NoDeadline ELSE delayed[k]]
    /\ \E s \in Orders(Promoted) :
        IF queue \o s # <<>>
        THEN PopHead(w, queue \o s, dirty \cup Due)
        ELSE /\ pc' = [pc EXCEPT ![w] = "peek"]
             /\ dirty' = dirty \cup Due
             /\ UNCHANGED <<queue, processing, age, key, asked>>
    /\ UNCHANGED <<failures, shutdown, permit, wait>>

GetDrained(w) ==
    /\ pc[w] = "check"
    /\ shutdown /\ queue = <<>>
    /\ pc' = [pc EXCEPT ![w] = "exited"]
    /\ UNCHANGED <<queue, dirty, processing, failures, delayed, age, shutdown,
                   permit, key, wait, asked>>

(* get(), second section: leave if shut down, read the earliest deadline. *)
GetPeek(w) ==
    /\ pc[w] = "peek"
    /\ IF shutdown
       THEN /\ pc' = [pc EXCEPT ![w] = "exited"]
            /\ wait' = wait
       ELSE /\ pc' = [pc EXCEPT ![w] = "park"]
            /\ wait' = [wait EXCEPT ![w] = Earliest]
    /\ UNCHANGED <<queue, dirty, processing, failures, delayed, age, shutdown,
                   permit, key, asked>>

(* Mutant of GetPark: the wait does not look at the stored permit. *)
GetParkBlind(w) ==
    /\ pc[w] = "park"
    /\ IF wait[w] # 0
       THEN /\ pc' = [pc EXCEPT ![w] = "parked"]
            /\ wait' = wait
       ELSE /\ pc' = [pc EXCEPT ![w] = "check"]
            /\ wait' = Unset(w)
    /\ UNCHANGED <<queue, dirty, processing, failures, delayed, age, shutdown,
                   permit, key, asked>>

(* get(), the wait: a deadline that has passed loops back at once, a stored  *)
(* permit is consumed, otherwise the task parks until it is notified or, if  *)
(* there is a deadline, until then.                                          *)
GetPark(w) ==
    /\ pc[w] = "park"
    /\ IF wait[w] # 0 /\ ~permit
       THEN /\ pc' = [pc EXCEPT ![w] = "parked"]
            /\ UNCHANGED <<permit, wait>>
       ELSE /\ pc' = [pc EXCEPT ![w] = "check"]
            /\ permit' = (permit /\ wait[w] = 0)
            /\ wait' = Unset(w)
    /\ UNCHANGED <<queue, dirty, processing, failures, delayed, age, shutdown,
                   key, asked>>

GetTimer(w) ==
    /\ pc[w] = "parked" /\ wait[w] = 0
    /\ pc' = [pc EXCEPT ![w] = "check"]
    /\ wait' = Unset(w)
    /\ UNCHANGED <<queue, dirty, processing, failures, delayed, age, shutdown,
                   permit, key, asked>>

GetNotified(w) ==
    /\ pc[w] = "woken"
    /\ pc' = [pc EXCEPT ![w] = "check"]
    /\ wait' = Unset(w)
    /\ UNCHANGED <<queue, dirty, processing, failures, delayed, age, shutdown,
                   permit, key, asked>>

(* The select sees the sleep finish first although the task was notified:    *)
(* dropping the Notified future hands the notification on.                   *)
GetTimerNotified(w) ==
    /\ pc[w] = "woken" /\ wait[w] = 0
    /\ NotifyOne([pc EXCEPT ![w] = "check"])
    /\ wait' = Unset(w)
    /\ UNCHANGED <<queue, dirty, processing, failures, delayed, age, shutdown,
                   key, asked>>

(* The end of a reconcile: a malformed key goes straight to done(); success  *)
(* forgets the failures and may ask for a later resync (next_sync); failure  *)
(* counts one more and computes the backoff.                                 *)
Skip(w) ==
    /\ pc[w] = "working"
    /\ pc' = [pc EXCEPT ![w] = "finishing"]
    /\ UNCHANGED <<queue, dirty, processing, failures, delayed, age, shutdown,
                   permit, key, wait, asked>>

Forget(w) ==
    /\ pc[w] = "working"
    /\ failures' = [failures EXCEPT ![key[w]] = 0]
    /\ \/ /\ pc' = [pc EXCEPT ![w] = "finishing"]
          /\ wait' = wait
       \/ /\ pc' = [pc EXCEPT ![w] = "adding"]
          /\ \E d \in 0..MaxDelay : wait' = [wait EXCEPT ![w] = d]
    /\ UNCHANGED <<queue, dirty, processing, delayed, age, shutdown, permit,
                   key, asked>>

RequeueRateLimited(w) ==
    /\ pc[w] = "working"
    /\ LET n == IF failures[key[w]] < MaxFailures THEN failures[key[w]] + 1
                ELSE MaxFailures
       IN  /\ failures' = [failures EXCEPT ![key[w]] = n]
           /\ wait' = [wait EXCEPT ![w] = Backoff(n)]
    /\ pc' = [pc EXCEPT ![w] = "adding"]
    /\ UNCHANGED <<queue, dirty, processing, delayed, age, shutdown, permit,
                   key, asked>>

(* Mutant of AddAfter: insert() overwrites a pending deadline. *)
AddAfterOverwrites(w) ==
    /\ pc[w] = "adding"
    /\ asked' = IF shutdown THEN asked ELSE asked \cup {key[w]}
    /\ IF shutdown \/ key[w] \in dirty
       THEN /\ pc' = [pc EXCEPT ![w] = "finishing"]
            /\ UNCHANGED <<delayed, permit>>
       ELSE /\ delayed' = [delayed EXCEPT ![key[w]] = wait[w]]
            /\ NotifyOne([pc EXCEPT ![w] = "finishing"])
    /\ wait' = Unset(w)
    /\ UNCHANGED <<queue, dirty, processing, failures, age, shutdown, key>>

(* add_after(): schedule the key the worker holds. *)
AddAfter(w) ==
    /\ pc[w] = "adding"
    /\ LET k == key[w]
           sooner == delayed[k] = NoDeadline \/ wait[w] < delayed[k]
       IN  /\ asked' = IF shutdown THEN asked ELSE asked \cup {k}
           /\ IF shutdown \/ k \in dirty
              THEN /\ pc' = [pc EXCEPT ![w] = "finishing"]
                   /\ UNCHANGED <<delayed, permit>>
              ELSE /\ delayed' = IF sooner THEN [delayed EXCEPT ![k] = wait[w]]
                                 ELSE delayed
                   /\ NotifyOne([pc EXCEPT ![w] = "finishing"])
    /\ wait' = Unset(w)
    /\ UNCHANGED <<queue, dirty, processing, failures, age, shutdown, key>>

(* Mutant of Done: a key re-dirtied too soon is dropped, not delayed. *)
DoneForgetful(w) ==
    /\ pc[w] = "finishing"
    /\ LET k == key[w]
           idle == [pc EXCEPT ![w] = "check"]
       IN  /\ processing' = processing \ {k}
           /\ IF k \in dirty /\ age[k] >= MinReprocess
              THEN NotifyOne(idle) /\ queue' = Append(queue, k) /\ dirty' = dirty
              ELSE /\ pc' = idle /\ dirty' = dirty \ {k}
                   /\ UNCHANGED <<queue, permit>>
    /\ key' = [key EXCEPT ![w] = None]
    /\ UNCHANGED <<delayed, failures, age, shutdown, wait, asked>>

(* done(): a key dirtied meanwhile is queued again, or delayed until         *)
(* MinReprocess after it was last dequeued.                                  *)
Done(w) ==
    /\ pc[w] = "finishing"
    /\ LET k == key[w]
           idle == [pc EXCEPT ![w] = "check"]
       IN  /\ processing' = processing \ {k}
           /\ IF k \notin dirty
              THEN /\ pc' = idle
                   /\ UNCHANGED <<queue, dirty, delayed, permit>>
              ELSE /\ NotifyOne(idle)
                   /\ IF age[k] < MinReprocess
                      THEN /\ dirty' = dirty \ {k}
                           /\ delayed' = [delayed EXCEPT ![k] = MinReprocess - age[k]]
                           /\ queue' = queue
                      ELSE /\ queue' = Append(queue, k)
                           /\ UNCHANGED <<dirty, delayed>>
    /\ key' = [key EXCEPT ![w] = None]
    /\ UNCHANGED <<failures, age, shutdown, wait, asked>>

(* shutdown(): notify_waiters wakes the parked tasks and stores no permit. *)
Shutdown ==
    /\ shutdown' = TRUE
    /\ pc' = [w \in Workers |-> IF pc[w] = "parked" THEN "check" ELSE pc[w]]
    /\ wait' = [w \in Workers |-> IF pc[w] = "parked" THEN NoDeadline ELSE wait[w]]
    /\ UNCHANGED <<queue, dirty, processing, failures, delayed, age, permit,
                   key, asked>>

CountDown(d) == IF d > 0 THEN d - 1 ELSE d

(* One tick: every deadline is nearer, every last_dequeued older.  The delay *)
(* a worker is about to pass to add_after is a length, not a deadline.       *)
Tick ==
    /\ delayed' = [k \in Keys |-> CountDown(delayed[k])]
    /\ age' = [k \in Keys |-> IF age[k] < MinReprocess THEN age[k] + 1 ELSE age[k]]
    /\ wait' = [w \in Workers |-> IF pc[w] = "adding" THEN wait[w]
                                  ELSE CountDown(wait[w])]
    /\ UNCHANGED <<queue, dirty, processing, failures, shutdown, permit, pc,
                   key, asked>>

-----------------------------------------------------------------------------
Get(w) ==
    \/ GetTake(w) \/ GetDrained(w) \/ GetPeek(w) \/ GetPark(w)
    \/ GetTimer(w) \/ GetNotified(w) \/ GetTimerNotified(w)

Reconcile(w) == Skip(w) \/ Forget(w) \/ RequeueRateLimited(w)

Worker(w) == Get(w) \/ Reconcile(w) \/ AddAfter(w) \/ Done(w)

Next ==
    \/ \E k \in Keys : Add(k)
    \/ \E w \in Workers : Worker(w)
    \/ Shutdown
    \/ Tick

(* tokio runs every runnable task eventually, a reconcile returns, and time  *)
(* passes.  Nothing makes anybody add keys or shut the queue down.           *)
Fairness == WF_vars(Tick) /\ \A w \in Workers : WF_vars(Worker(w))

Spec == Init /\ [][Next]_vars

FairSpec == Spec /\ Fairness
-----------------------------------------------------------------------------
(* Properties. *)

TypeOK ==
    /\ queue \in Seq(Keys)
    /\ dirty \subseteq Keys /\ processing \subseteq Keys /\ asked \subseteq Keys
    /\ failures \in [Keys -> 0..MaxFailures]
    /\ delayed \in [Keys -> Deadline]
    /\ age \in [Keys -> 0..MinReprocess]
    /\ shutdown \in BOOLEAN /\ permit \in BOOLEAN
    /\ pc \in [Workers -> PCs]
    /\ key \in [Workers -> Keys \cup {None}]
    /\ wait \in [Workers -> Deadline]

(* "No two workers ever hold the same key" (the comment on get): from the    *)
(* pop under the first lock until done() the key belongs to one worker, and  *)
(* `processing` is exactly the set of keys held.                             *)
ExclusiveKeys ==
    /\ \A v, w \in Workers : key[v] = key[w] /\ key[v] # None => v = w
    /\ processing = {key[w] : w \in Workers} \ {None}

(* The dirty/processing split of add(), get() and done(): a key is queued at *)
(* most once and never while it is processed; a dirty key is queued, or      *)
(* processed (so that done() will see the flag), and every queued key is     *)
(* dirty.                                                                    *)
DirtySplit ==
    /\ Distinct(queue)
    /\ RangeOf(queue) = dirty \ processing

(* No request is forgotten: a key that add() or add_after() was asked for,   *)
(* and that get() has not handed out since, is still dirty or delayed, in    *)
(* spite of every early return and of the moves between the two.             *)
NothingForgotten ==
    ~shutdown => \A k \in asked : k \in dirty \/ delayed[k] # NoDeadline

(* A stored permit and a parked worker never coexist: a notification is not  *)
(* left lying while a worker sleeps.                                         *)
PermitIsUsed == permit => \A w \in Workers : pc[w] # "parked"

(* A key that waits for a deadline is covered by the sleep of some worker,   *)
(* or by a worker that will look before it sleeps: the timers of get() miss  *)
(* no deadline.  (A worker that holds a key looks again after done().)       *)
DeadlineCovered ==
    \A k \in Keys : delayed[k] # NoDeadline /\ ~shutdown =>
        \/ permit
        \/ \E w \in Workers :
            \/ pc[w] \in {"check", "peek", "woken"} \cup Holding
            \/ pc[w] \in {"park", "parked"} /\ wait[w] \in 0..delayed[k]

(* add_after() may bring a pending deadline forward, never push it back      *)
(* ("update the time only if it would cause the item to be queued sooner").  *)
AddAfterOnlySooner ==
    [][\A w \in Workers, k \in Keys :
        AddAfter(w) /\ delayed[k] # NoDeadline =>
            delayed'[k] \in 0..delayed[k]]_vars

(* Every request is served: a key asked for is eventually handed to a        *)
(* worker, unless the queue is shut down.                                    *)
Served == \A k \in Keys : k \in asked ~> (k \notin asked \/ shutdown)

(* "Blocks until a key is available or the queue is shut down.  Returns None *)
(* on shutdown" (the comment on get): after shutdown() every worker leaves.  *)
WorkersExit == \A w \in Workers : shutdown ~> pc[w] = "exited"

(* The work queue implements the promise of DedupQueue. *)
Promise == INSTANCE DedupQueue WITH
    wanted <- dirty \cup {k \in Keys : delayed[k] # NoDeadline},
    holds <- key

ImplementsDedupQueue == Promise!Spec

=============================================================================
