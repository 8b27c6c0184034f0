----------------------------- MODULE WatchCache -----------------------------
(***************************************************************************)
(* The API server's watch cache for one resource prefix                    *)
(* (api-server/src/watch_cache.rs, cache_watcher.rs and the opening of a   *)
(* watch in handlers/watch.rs): one shared storage watch feeds a replay    *)
(* ring and the bounded input queue of every client watch.                 *)
(*                                                                         *)
(* An event is named by its store revision.  The cache never sees that     *)
(* number: it reads the revision out of the object's JSON (extract_rv),    *)
(* which is what Rv gives.  The first revision of the model, 1, is any     *)
(* revision a client may watch from (the code takes "1" for none).         *)
(*                                                                         *)
(* Every section between two awaits is an action.  The ring, the floor and *)
(* the capacity are written together, under the history lock; a subscriber *)
(* reads the floor and the ring in two separate steps.                     *)
(***************************************************************************)
EXTENDS Integers, Sequences, FiniteSets, SequencesExt

CONSTANTS
    Clients,      \* the client watches
    MaxRev,       \* bound: revisions of the store
    LowerCap,     \* LOWER_BOUND_CAPACITY
    UpperCap,     \* capacity_upper_bound
    IdleCap,      \* HISTORY_IDLE_CAPACITY
    ChanSize,     \* suggested_watch_channel_size
    References,   \* the objects hold another object's resourceVersion first
    Faults        \* what may go wrong around the cache

ASSUME SizeAssumption ==
    /\ MaxRev \in Nat \ {0} /\ ChanSize \in Nat \ {0}
    /\ IdleCap \in Nat \ {0} /\ LowerCap \in Nat \ {0} /\ UpperCap \in Nat
    /\ IdleCap <= LowerCap /\ LowerCap <= UpperCap

ASSUME FaultAssumption ==
    /\ References \in BOOLEAN
    /\ Faults \subseteq {"cancel", "compact", "connect", "head", "replay", "stall"}

VARIABLES
    log,          \* revision -> extract_rv of its event, 0 for another prefix
    compacted,    \* the store has no history up to this revision
    floor,        \* floors[prefix], NoFloor while absent
    ring,         \* history[prefix], oldest first
    cap,          \* capacities[prefix], LowerCap while absent
    loop,         \* the shared watch: absent, boot, down, up, dispatch, blocked
    pos,          \* the first revision the storage watch has still to deliver
    resume,       \* resume_rev, 0 for None
    stalled,      \* the open storage stream delivers nothing
    cur,          \* the event being dispatched
    blocked,      \* clients whose queue was full when cur was offered
    scanned,      \* gc_idle_history found the prefix idle and has not trimmed
    stage,        \* where a client watch is in opening or serving
    since,        \* the resourceVersion asked for, 0 for none
    heard,        \* the floor backfill_ring was called with
    queue,        \* the client's input channel
    stopped,      \* clients terminated as too slow
    seen,         \* process(): max_seen
    sent,         \* events handed to the client
    covered,      \* history: since was at or above the floor when history was read
    lost          \* history: events the storage watch or a backfill left out

cacheVars == <<floor, ring, cap>>
loopVars == <<loop, pos, resume, stalled, cur>>
clientVars == <<stage, since, heard, queue, seen, sent>>
vars == <<log, compacted, cacheVars, loopVars, blocked, scanned, clientVars,
          stopped, covered, lost>>

NoFloor == -1
Tip == Len(log)                               \* the store's head revision
Rv(e) == log[e]
Ours == {e \in 1..Tip : log[e] # 0}           \* the events of this prefix
Live == {c \in Clients : stage[c] # "idle"} \ stopped
MaxOf(a, b) == IF a > b THEN a ELSE b
Booting == {"boot", "connect"}
Stages == {"idle", "check", "backfill", "replay", "read", "list", "serving"}
              \cup Booting
Loops == {"absent", "boot", "down", "up", "dispatch", "blocked"}

-----------------------------------------------------------------------------
Init ==
    /\ log = <<0>> /\ compacted = 0
    /\ floor = NoFloor /\ ring = <<>> /\ cap = LowerCap
    /\ loop = "absent" /\ pos = 1 /\ resume = 0 /\ stalled = FALSE /\ cur = 0
    /\ blocked = {} /\ scanned = FALSE /\ stopped = {} /\ lost = {}
    /\ stage = [c \in Clients |-> "idle"]
    /\ since = [c \in Clients |-> 0]
    /\ heard = [c \in Clients |-> 0]
    /\ queue = [c \in Clients |-> <<>>]
    /\ seen = [c \in Clients |-> 0]
    /\ sent = [c \in Clients |-> <<>>]
    /\ covered = [c \in Clients |-> FALSE]

(* The store commits a write, to this prefix or to another.  extract_rv      *)
(* returns the first resourceVersion of the JSON: the object's own, unless   *)
(* the object names an older object before its metadata (the involvedObject  *)
(* of an Event).                                                             *)
Write ==
    /\ Tip < MaxRev
    /\ \E v \in {0, Tip + 1} \cup (IF References THEN 1..Tip ELSE {}) :
        log' = Append(log, v)
    /\ UNCHANGED <<compacted, cacheVars, loopVars, blocked, scanned, clientVars,
                   stopped, covered, lost>>

Compact ==
    /\ "compact" \in Faults
    /\ compacted < Tip /\ compacted' \in (compacted + 1)..Tip
    /\ UNCHANGED <<log, cacheVars, loopVars, blocked, scanned, clientVars,
                   stopped, covered, lost>>

-----------------------------------------------------------------------------
(* Opening a watch. *)

(* heard goes out of scope. *)
Forget(c) == heard' = [heard EXCEPT ![c] = 0]

SetStage(c, s) == stage' = [stage EXCEPT ![c] = s]

(* A watch from a revision goes on to check the floor, one without to list.  *)
Opened(c) == IF since[c] = 0 THEN "list" ELSE "check"

(* open_watch_stream and the head of subscribe_with_floor: a compacted       *)
(* revision is refused, the watcher is registered, and the first one inserts *)
(* the dispatcher and goes on to start the shared watch.                     *)
Subscribe(c, r) ==
    /\ stage[c] = "idle"
    /\ r = 0 \/ r > compacted
    /\ since' = [since EXCEPT ![c] = r]
    /\ IF loop = "absent"
       THEN loop' = "boot" /\ SetStage(c, "boot")
       ELSE loop' = loop /\ SetStage(c, IF r = 0 THEN "list" ELSE "check")
    /\ UNCHANGED <<log, compacted, cacheVars, pos, resume, stalled, cur, blocked,
                   scanned, heard, queue, seen, sent, stopped, covered, lost>>

(* The replay floor: the client's revision, else the store's head, and 0     *)
(* when the head cannot be read.                                             *)
BootFloor(c) ==
    /\ stage[c] = "boot"
    /\ floor' \in (IF since[c] > 0 THEN {since[c]}
                   ELSE {Tip} \cup (IF "head" \in Faults THEN {0} ELSE {}))
    /\ resume' = floor' /\ pos' = floor' + 1
    /\ SetStage(c, "connect")
    /\ UNCHANGED <<log, compacted, ring, cap, loop, stalled, cur, blocked, scanned,
                   since, heard, queue, seen, sent, stopped, covered, lost>>

(* Where a storage watch starts, and what it leaves out: watch_since replays *)
(* from r + 1, watch_from_now skips what was committed and not yet received. *)
StartAt(r) ==
    /\ pos' = IF r > 0 THEN r + 1 ELSE Tip + 1
    /\ lost' = IF r > 0 THEN lost ELSE lost \cup {e \in Ours : e >= pos}
    /\ loop' = IF pos' > compacted THEN "up" ELSE "down"

(* The first connection; the background task is spawned with its result.     *)
BootConnect(c) ==
    /\ stage[c] = "connect"
    /\ \/ StartAt(resume) /\ resume' = resume
       \/ /\ "connect" \in Faults
          /\ loop' = "down" /\ resume' = 0
          /\ UNCHANGED <<pos, lost>>
    /\ SetStage(c, Opened(c))
    /\ UNCHANGED <<log, compacted, cacheVars, stalled, cur, blocked, scanned, since,
                   heard, queue, seen, sent, stopped, covered>>

(* subscribe_from_checked: a floor not recorded yet reads as 0.              *)
Check(c) ==
    /\ stage[c] = "check"
    /\ LET f == IF floor = NoFloor THEN 0 ELSE floor
       IN  /\ SetStage(c, IF since[c] < f THEN "backfill" ELSE "read")
           /\ heard' = [heard EXCEPT ![c] = IF since[c] < f THEN f ELSE 0]
    /\ UNCHANGED <<log, compacted, cacheVars, loopVars, blocked, scanned, since,
                   queue, seen, sent, stopped, covered, lost>>

(* The watch is over: refused with 410, ended because it was terminated, or  *)
(* the client is gone.  The receiver is dropped.                             *)
Close(c) ==
    /\ SetStage(c, "idle")
    /\ since' = [since EXCEPT ![c] = 0]
    /\ Forget(c)
    /\ queue' = [queue EXCEPT ![c] = <<>>]
    /\ seen' = [seen EXCEPT ![c] = 0]
    /\ sent' = [sent EXCEPT ![c] = <<>>]
    /\ covered' = [covered EXCEPT ![c] = FALSE]
    /\ stopped' = stopped \ {c}
    /\ blocked' = blocked \ {c}

(* backfill_ring up to its replay stream: refused if the backend cannot      *)
(* serve the revision.                                                       *)
BackfillStart(c) ==
    /\ stage[c] = "backfill"
    /\ \/ /\ since[c] + 1 > compacted
          /\ SetStage(c, "replay")
          /\ UNCHANGED <<since, heard, queue, seen, sent, covered, stopped, blocked>>
       \/ /\ since[c] + 1 <= compacted \/ "connect" \in Faults
          /\ Close(c)
    /\ UNCHANGED <<log, compacted, cacheVars, loopVars, scanned, lost>>

(* The revision the replay is read to: before the first event past the floor *)
(* heard, or less if the stream ends, fails or pauses.                       *)
ReplayEnds(c) ==
    LET past == {e \in Ours : e > since[c] /\ Rv(e) > heard[c]}
        end == IF past = {} THEN Tip ELSE Min(past) - 1
    IN  IF "replay" \in Faults THEN since[c]..end ELSE {end}

(* The elements of S in the order Before. *)
Sorted(S, Before(_, _)) ==
    CHOOSE q \in [1..Cardinality(S) -> S] :
        /\ Range(q) = S
        /\ \A i, j \in 1..Cardinality(S) : i < j => Before(q[i], q[j])

InRvOrder(S) == Sorted(S, LAMBDA d, e : Rv(d) < Rv(e) \/ (Rv(d) = Rv(e) /\ d < e))

(* Mutant of BackfillApply: the events somebody else has already recovered    *)
(* are not filtered out of the gap.                                          *)
BackfillApplyTwice(c) ==
    /\ stage[c] = "replay"
    /\ \E end \in ReplayEnds(c) :
        LET gap == {e \in Ours : since[c] < e /\ e <= end /\ Rv(e) > since[c]}
        IN  /\ Len(ring) + Cardinality(gap) <= UpperCap /\ floor > since[c]
            /\ ring' = InRvOrder(gap) \o ring
            /\ cap' = MaxOf(cap, Len(ring'))
            /\ lost' = lost \cup ({e \in Ours : since[c] < e /\ e <= floor} \ gap)
    /\ floor' = since[c]
    /\ SetStage(c, "read") /\ Forget(c)
    /\ UNCHANGED <<log, compacted, loopVars, scanned, since, queue, seen, sent,
                   covered, stopped, blocked>>

(* The end of backfill_ring, under the locks: the gap goes before the ring   *)
(* and the floor down to the client's revision, unless somebody else was     *)
(* faster or the ring would be too large.                                    *)
BackfillApply(c) ==
    /\ stage[c] = "replay"
    /\ \E end \in ReplayEnds(c) :
        LET gap == {e \in Ours : since[c] < e /\ e <= end /\ Rv(e) > since[c]}
            len == Len(ring) + Cardinality(gap)
        IN  \/ /\ Cardinality(gap) <= UpperCap
               /\ floor <= since[c]
               /\ SetStage(c, "read") /\ Forget(c)
               /\ UNCHANGED <<cacheVars, since, queue, seen, sent, covered, stopped,
                              blocked, lost>>
            \/ /\ len <= UpperCap /\ floor > since[c]
               /\ ring' = InRvOrder({e \in gap : Rv(e) <= floor}) \o ring
               /\ cap' = MaxOf(cap, len)
               /\ floor' = since[c]
               /\ lost' = lost \cup ({e \in Ours : since[c] < e /\ e <= floor} \ gap)
               /\ SetStage(c, "read") /\ Forget(c)
               /\ UNCHANGED <<since, queue, seen, sent, covered, stopped, blocked>>
            \/ /\ \/ Cardinality(gap) > UpperCap
                  \/ len > UpperCap /\ floor > since[c]
               /\ Close(c)
               /\ UNCHANGED <<cacheVars, lost>>
    /\ UNCHANGED <<log, compacted, loopVars, scanned>>

(* get_events_since: the events of the ring past r, in their order. *)
Newer(r) ==
    LET kept == Sorted({i \in 1..Len(ring) : Rv(ring[i]) > r}, LAMBDA i, j : i < j)
    IN  [k \in DOMAIN kept |-> ring[kept[k]]]

(* Mutants of ReadHistory: max_seen starts from the revision asked for alone, *)
(* or from the store's head.                                                 *)
ReadHistorySeenFrom(c, r) ==
    /\ stage[c] = "read"
    /\ sent' = [sent EXCEPT ![c] = Newer(since[c])]
    /\ seen' = [seen EXCEPT ![c] = r]
    /\ covered' = [covered EXCEPT ![c] = floor # NoFloor /\ since[c] >= floor]
    /\ SetStage(c, "serving")
    /\ UNCHANGED <<log, compacted, cacheVars, loopVars, blocked, scanned, since,
                   heard, queue, stopped, lost>>

ReadHistorySeenSince(c) == ReadHistorySeenFrom(c, since[c])

ReadHistorySeenHead(c) == ReadHistorySeenFrom(c, Tip)

(* subscribe_from_checked and process(): the history is sent, live events up *)
(* to max_seen will be skipped.                                              *)
ReadHistory(c) ==
    /\ stage[c] = "read"
    /\ LET history == Newer(since[c])
       IN  /\ sent' = [sent EXCEPT ![c] = history]
           /\ seen' = [seen EXCEPT ![c] =
                            Max({since[c]} \cup {Rv(e) : e \in Range(history)})]
    /\ covered' = [covered EXCEPT ![c] = floor # NoFloor /\ since[c] >= floor]
    /\ SetStage(c, "serving")
    /\ UNCHANGED <<log, compacted, cacheVars, loopVars, blocked, scanned, since,
                   heard, queue, stopped, lost>>

(* A watch without a revision: the prefix is listed at the head, process()   *)
(* skips nothing, live events up to that revision are dropped later.         *)
Snapshot(c) ==
    /\ stage[c] = "list"
    /\ since' = [since EXCEPT ![c] = Tip]
    /\ covered' = [covered EXCEPT ![c] = floor # NoFloor]
    /\ SetStage(c, "serving")
    /\ UNCHANGED <<log, compacted, cacheVars, loopVars, blocked, scanned, heard,
                   queue, seen, sent, stopped, lost>>

(* process() drops a live event up to max_seen; for a listed watch           *)
(* skip_events_covered_by_snapshot compares metadata.resourceVersion.        *)
Skipped(c, e) == IF seen[c] = 0 THEN e <= since[c] ELSE Rv(e) <= seen[c]

(* process(): the next live event. *)
Deliver(c) ==
    /\ stage[c] = "serving" /\ c \notin stopped
    /\ queue[c] # <<>>
    /\ LET e == Head(queue[c])
       IN  sent' = [sent EXCEPT ![c] = IF Skipped(c, e) THEN @ ELSE Append(@, e)]
    /\ queue' = [queue EXCEPT ![c] = Tail(@)]
    /\ UNCHANGED <<log, compacted, cacheVars, loopVars, blocked, scanned, stage,
                   since, heard, seen, stopped, covered, lost>>

(* The stream ends; a request dropped while it starts the shared watch       *)
(* leaves the dispatcher behind.                                             *)
Leave(c) ==
    /\ stage[c] # "idle"
    /\ stage[c] \in Booting => "cancel" \in Faults
    /\ Close(c)
    /\ UNCHANGED <<log, compacted, cacheVars, loopVars, scanned, lost>>

-----------------------------------------------------------------------------
(* The shared watch. *)

(* A compacted resume point is given up for the current tail.                *)
Connect ==
    /\ loop = "down"
    /\ \/ /\ resume' = IF resume + 1 > compacted THEN resume ELSE 0
          /\ StartAt(resume')
       \/ /\ "connect" \in Faults
          /\ resume' = 0
          /\ UNCHANGED <<loop, pos, lost>>
    /\ UNCHANGED <<log, compacted, cacheVars, stalled, cur, blocked, scanned,
                   clientVars, stopped, covered>>

(* next_capacity: a full ring doubles, halves or keeps its size, by the ages *)
(* of its events, which the model leaves open.                               *)
NextCaps ==
    LET size == MaxOf(cap, Len(ring))
        double == IF 2 * size < UpperCap THEN 2 * size ELSE UpperCap
        half == MaxOf(size \div 2, LowerCap)
    IN  IF Len(ring) # size THEN {size}
        ELSE {size, MaxOf(size, double), IF half < size THEN half ELSE size}

(* Mutant of Evict: the floor stays when events leave the ring. *)
EvictFloorStays(buf, n) ==
    /\ ring' = SubSeq(buf, n + 1, Len(buf))
    /\ floor' = floor

(* append_to_ring and the floor: n events leave buf at the front. *)
Evict(buf, n) ==
    /\ ring' = SubSeq(buf, n + 1, Len(buf))
    /\ floor' = IF n > 0 /\ Rv(buf[n]) > floor THEN Rv(buf[n]) ELSE floor

Receive ==
    /\ loop = "up" /\ ~stalled
    /\ \E e \in Ours :
        /\ e >= pos /\ \A d \in Ours : d >= pos => e <= d
        /\ \E n \in NextCaps :
            /\ cap' = n
            /\ Evict(Append(ring, e), MaxOf(Len(ring) + 1 - n, 0))
        /\ pos' = e + 1 /\ resume' = Rv(e) /\ cur' = e
    /\ loop' = "dispatch"
    /\ UNCHANGED <<log, compacted, stalled, blocked, scanned, clientVars, stopped,
                   covered, lost>>

(* Mutant of Dispatch: the channels are unbounded. *)
DispatchUnbounded ==
    /\ loop = "dispatch"
    /\ blocked' = {}
    /\ queue' = [c \in Clients |-> IF c \in Live THEN Append(queue[c], cur)
                                   ELSE queue[c]]
    /\ loop' = "blocked"
    /\ UNCHANGED <<log, compacted, cacheVars, pos, resume, stalled, cur, scanned,
                   stage, since, heard, seen, sent, stopped, covered, lost>>

(* dispatch(): offer the event to every live watcher without waiting. *)
Dispatch ==
    /\ loop = "dispatch"
    /\ blocked' = {c \in Live : Len(queue[c]) = ChanSize}
    /\ queue' = [c \in Clients |-> IF c \in Live \ blocked' THEN Append(queue[c], cur)
                                   ELSE queue[c]]
    /\ loop' = "blocked"
    /\ UNCHANGED <<log, compacted, cacheVars, pos, resume, stalled, cur, scanned,
                   stage, since, heard, seen, sent, stopped, covered, lost>>

(* A blocked watcher drains in time, or is terminated when the timer fires.  *)
Unblock(c) ==
    /\ c \in blocked /\ Len(queue[c]) < ChanSize
    /\ queue' = [queue EXCEPT ![c] = Append(@, cur)]
    /\ blocked' = blocked \ {c}
    /\ UNCHANGED <<log, compacted, cacheVars, loopVars, scanned, stage, since, heard,
                   seen, sent, stopped, covered, lost>>

Terminate(c) ==
    /\ c \in blocked /\ Len(queue[c]) = ChanSize
    /\ stopped' = stopped \cup {c}
    /\ blocked' = blocked \ {c}
    /\ UNCHANGED <<log, compacted, cacheVars, loopVars, scanned, clientVars, covered,
                   lost>>

DispatchDone ==
    /\ loop = "blocked" /\ blocked = {}
    /\ loop' = "up" /\ cur' = 0
    /\ UNCHANGED <<log, compacted, cacheVars, pos, resume, stalled, blocked, scanned,
                   clientVars, stopped, covered, lost>>

(* The stream ends, or goes silent; the watchdog reconnects when the store   *)
(* has moved past the resume point.                                          *)
StreamEnd ==
    /\ loop = "up"
    /\ loop' = "down" /\ stalled' = FALSE
    /\ UNCHANGED <<log, compacted, cacheVars, pos, resume, cur, blocked, scanned,
                   clientVars, stopped, covered, lost>>

Stall ==
    /\ "stall" \in Faults /\ loop = "up"
    /\ stalled' = TRUE
    /\ UNCHANGED <<log, compacted, cacheVars, loop, pos, resume, cur, blocked,
                   scanned, clientVars, stopped, covered, lost>>

(* Mutant of Watchdog: a single missing revision is not noticed. *)
WatchdogLate ==
    /\ resume # 0 /\ Tip > resume + 1
    /\ StreamEnd

Watchdog ==
    /\ resume # 0 /\ Tip > resume
    /\ StreamEnd

(* gc_idle_history: the idle prefixes are picked first, trimmed later. *)
GcScan ==
    /\ loop # "absent" /\ Live = {}
    /\ scanned' = TRUE
    /\ UNCHANGED <<log, compacted, cacheVars, loopVars, blocked, clientVars, stopped,
                   covered, lost>>

GcTrim ==
    /\ scanned
    /\ scanned' = FALSE
    /\ cap' = LowerCap
    /\ Evict(ring, MaxOf(Len(ring) - IdleCap, 0))
    /\ UNCHANGED <<log, compacted, loopVars, blocked, clientVars, stopped, covered,
                   lost>>

-----------------------------------------------------------------------------
Open(c) ==
    \/ BootFloor(c) \/ BootConnect(c) \/ Check(c) \/ BackfillStart(c)
    \/ BackfillApply(c) \/ ReadHistory(c) \/ Snapshot(c)

Next ==
    \/ Write \/ Compact
    \/ \E c \in Clients :
        \/ \E r \in 0..Tip : Subscribe(c, r)
        \/ Open(c) \/ Deliver(c) \/ Leave(c) \/ Unblock(c) \/ Terminate(c)
    \/ Connect \/ Receive \/ Dispatch \/ DispatchDone
    \/ StreamEnd \/ Stall \/ Watchdog
    \/ GcScan \/ GcTrim

Spec == Init /\ [][Next]_vars

(* The tasks of the shared watch and of the clients' streams run, the        *)
(* watchdog's timer fires, and a stream that is opened again and again       *)
(* delivers in the end (SF): it does not end or stall before every event.    *)
(* Nobody has to write, subscribe or leave.                                  *)
Fairness ==
    /\ WF_vars(Connect) /\ WF_vars(Dispatch) /\ WF_vars(DispatchDone)
    /\ WF_vars(Watchdog) /\ SF_vars(Receive)
    /\ \A c \in Clients :
        /\ WF_vars(Open(c)) /\ WF_vars(Deliver(c))
        /\ WF_vars(Unblock(c) \/ Terminate(c))

FairSpec == Spec /\ Fairness

-----------------------------------------------------------------------------
(* Properties. *)

TypeOK ==
    /\ log \in Seq(0..MaxRev) /\ Len(log) \in 1..MaxRev
    /\ compacted \in 0..MaxRev
    /\ floor \in {NoFloor} \cup 0..MaxRev
    /\ ring \in Seq(1..MaxRev) /\ Len(ring) <= cap /\ cap \in LowerCap..UpperCap
    /\ loop \in Loops
    /\ pos \in 1..(MaxRev + 1) /\ resume \in 0..MaxRev /\ cur \in 0..MaxRev
    /\ stalled \in BOOLEAN /\ scanned \in BOOLEAN
    /\ blocked \subseteq Clients /\ stopped \subseteq Clients
    /\ stage \in [Clients -> Stages]
    /\ since \in [Clients -> 0..MaxRev] /\ heard \in [Clients -> 0..MaxRev]
    /\ seen \in [Clients -> 0..MaxRev]
    /\ queue \in [Clients -> Seq(1..MaxRev)]
    /\ \A c \in Clients : Len(queue[c]) <= ChanSize
    /\ sent \in [Clients -> Seq(1..MaxRev)]
    /\ covered \in [Clients -> BOOLEAN]
    /\ lost \subseteq 1..MaxRev

Ascending(s) == \A i, j \in DOMAIN s : i < j => Rv(s[i]) < Rv(s[j])

(* The ring is in revision order and holds nothing at or below its floor,    *)
(* whatever appends, evictions, backfills and idle trims interleave: what    *)
(* get_events_since returns is a replay.                                     *)
RingOrdered ==
    /\ Ascending(ring)
    /\ \A e \in Range(ring) : Rv(e) > floor

(* The ring is complete above its floor but for what a storage watch started *)
(* at the tail or a cut-off backfill left out.                               *)
RingCovers ==
    \A e \in Ours : floor # NoFloor /\ floor < e /\ e < pos =>
        e \in Range(ring) \cup lost

(* "the ring is complete for revisions > floor" (the comment on              *)
(* WatchCache.floors), without the exceptions.                               *)
RingComplete ==
    \A e \in Ours : floor # NoFloor /\ floor < e /\ e < pos => e \in Range(ring)

(* A client gets events newer than the revision it asked for, in order and   *)
(* each of them once, although the same event may come from the history and  *)
(* from the queue.                                                           *)
DeliveredOnce ==
    \A c \in Clients : stage[c] = "serving" =>
        /\ Ascending(sent[c])
        /\ \A e \in Range(sent[c]) : Rv(e) > since[c]

(* A watch that was admitted while the ring reached down to its revision has *)
(* received, or has in its queue, every event that the shared watch has      *)
(* dispatched since that revision.                                           *)
NothingMissed ==
    \A c \in Live : \A e \in Ours :
        /\ stage[c] = "serving" /\ covered[c]
        /\ since[c] < e /\ e < pos /\ e \notin lost
        /\ e = cur => loop = "blocked" /\ c \notin blocked
        => e \in Range(sent[c]) \cup Range(queue[c])

(* process() "skips" a live event only if the client of such a watch has it  *)
(* already, from the history or from its own list.                           *)
SkipsOnlySeen ==
    [][\A c \in Clients : covered[c] /\ Deliver(c) /\ sent' = sent =>
        LET e == Head(queue[c])
        IN  e <= since[c] \/ e \in Range(sent[c]) \cup lost]_vars

(* "If no etcd watch exists for this prefix, one is started" (the comment on *)
(* subscribe): a dispatcher without a storage watch has somebody starting    *)
(* one.                                                                      *)
SharedWatchStarts == loop = "boot" => \E c \in Clients : stage[c] \in Booting

(* An event is delivered to every watch that asked for it, unless the watch  *)
(* ends, was terminated as too slow, or the event was lost to a cut-off      *)
(* backfill: a stream that stalls silently is found out and replaced.        *)
Delivered ==
    \A c \in Clients, e \in 1..MaxRev :
        stage[c] = "serving" /\ covered[c] /\ e \in Ours /\ e > since[c]
            ~> \/ e \in Range(sent[c]) \cup lost
               \/ stage[c] # "serving" \/ c \in stopped
=============================================================================
