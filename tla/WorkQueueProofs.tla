--------------------------- MODULE WorkQueueProofs ---------------------------
(***************************************************************************)
(* Proofs about WorkQueue, for every set of keys and workers and every     *)
(* choice of delays.                                                       *)
(***************************************************************************)
EXTENDS WorkQueue, FiniteSetTheorems, WellFoundedInduction, TLAPS

(* What a worker's program counter says about its locals: it holds a key     *)
(* exactly from get() to done(), and passes a real delay to add_after().     *)
Locals ==
    \A w \in Workers :
        /\ pc[w] \in Holding <=> key[w] # None
        /\ pc[w] = "adding" => wait[w] # NoDeadline

IInv == TypeOK /\ Locals /\ ExclusiveKeys /\ DirtySplit /\ NothingForgotten
        /\ PermitIsUsed

-----------------------------------------------------------------------------
(* Facts about sequences without repetition. *)

(* push_back of a new key keeps the queue free of duplicates. *)
LEMMA AppendFacts ==
    ASSUME NEW S, NEW q \in Seq(S), NEW k \in S
    PROVE  /\ Append(q, k) \in Seq(S)
           /\ RangeOf(Append(q, k)) = RangeOf(q) \cup {k}
           /\ Distinct(q) /\ k \notin RangeOf(q) => Distinct(Append(q, k))
<1>1. Append(q, k) \in Seq(S) /\ Len(q) \in Nat /\ DOMAIN q = 1..Len(q)
      /\ DOMAIN Append(q, k) = 1..(Len(q) + 1)
      /\ Append(q, k)[Len(q) + 1] = k
      /\ \A i \in 1..Len(q) : Append(q, k)[i] = q[i]
  OBVIOUS
<1>2. RangeOf(Append(q, k)) = RangeOf(q) \cup {k}
  BY <1>1 DEF RangeOf
<1>3. Distinct(q) /\ k \notin RangeOf(q) => Distinct(Append(q, k))
  BY <1>1 DEF RangeOf, Distinct
<1> QED BY <1>1, <1>2, <1>3

(* pop_front takes the head out of the queue and nothing else. *)
LEMMA TailFacts ==
    ASSUME NEW S, NEW q \in Seq(S), q # <<>>
    PROVE  /\ Head(q) \in S /\ Tail(q) \in Seq(S)
           /\ Head(q) \in RangeOf(q)
           /\ Distinct(q) => /\ Distinct(Tail(q))
                             /\ RangeOf(Tail(q)) = RangeOf(q) \ {Head(q)}
<1>1. /\ Head(q) = q[1] /\ Len(q) \in Nat \ {0} /\ DOMAIN q = 1..Len(q)
      /\ Tail(q) \in Seq(S) /\ DOMAIN Tail(q) = 1..(Len(q) - 1)
      /\ \A i \in 1..(Len(q) - 1) : Tail(q)[i] = q[i + 1]
      /\ \A i \in DOMAIN q : q[i] \in S
  OBVIOUS
<1>2. Head(q) \in S /\ Head(q) \in RangeOf(q)
  BY <1>1 DEF RangeOf
<1>3. ASSUME Distinct(q)
      PROVE  Distinct(Tail(q))
  BY <1>1, <1>3 DEF Distinct
<1>4. ASSUME Distinct(q)
      PROVE  RangeOf(Tail(q)) = RangeOf(q) \ {Head(q)}
  <2>1. ASSUME NEW x \in RangeOf(Tail(q))
        PROVE  x \in RangeOf(q) \ {Head(q)}
    <3>1. PICK i \in 1..(Len(q) - 1) : x = q[i + 1]
      BY <1>1, <2>1 DEF RangeOf
    <3> QED BY <1>1, <1>4, <3>1 DEF RangeOf, Distinct
  <2>2. ASSUME NEW x \in RangeOf(q), x # Head(q)
        PROVE  x \in RangeOf(Tail(q))
    <3>1. PICK i \in 1..Len(q) : x = q[i]
      BY <1>1, <2>2 DEF RangeOf
    <3>2. i - 1 \in 1..(Len(q) - 1) /\ Tail(q)[i - 1] = x
      BY <1>1, <2>2, <3>1
    <3> QED BY <1>1, <3>2 DEF RangeOf
  <2> QED BY <2>1, <2>2
<1> QED BY <1>1, <1>2, <1>3, <1>4

(* Appending keys that are not queued yet adds exactly these keys. *)
LEMMA ConcatFacts ==
    ASSUME NEW S, NEW q \in Seq(S), NEW r \in Seq(S)
    PROVE  /\ q \o r \in Seq(S)
           /\ RangeOf(q \o r) = RangeOf(q) \cup RangeOf(r)
           /\ Distinct(q) /\ Distinct(r) /\ RangeOf(q) \cap RangeOf(r) = {}
                => Distinct(q \o r)
<1>1. q \o r \in Seq(S) /\ Len(q) \in Nat /\ Len(r) \in Nat
      /\ DOMAIN q = 1..Len(q) /\ DOMAIN r = 1..Len(r)
      /\ DOMAIN (q \o r) = 1..(Len(q) + Len(r))
      /\ \A i \in 1..(Len(q) + Len(r)) :
            (q \o r)[i] = IF i <= Len(q) THEN q[i] ELSE r[i - Len(q)]
  OBVIOUS
<1>2. RangeOf(q \o r) = RangeOf(q) \cup RangeOf(r)
  <2>1. ASSUME NEW x \in RangeOf(q \o r)
        PROVE  x \in RangeOf(q) \cup RangeOf(r)
    <3>1. PICK i \in 1..(Len(q) + Len(r)) : x = (q \o r)[i]
      BY <1>1, <2>1 DEF RangeOf
    <3>2. CASE i <= Len(q)
      BY <1>1, <3>1, <3>2 DEF RangeOf
    <3>3. CASE ~(i <= Len(q))
      <4>1. i - Len(q) \in 1..Len(r) /\ x = r[i - Len(q)]
        BY <1>1, <3>1, <3>3
      <4> QED BY <1>1, <4>1 DEF RangeOf
    <3> QED BY <3>2, <3>3
  <2>2. ASSUME NEW x \in RangeOf(q)
        PROVE  x \in RangeOf(q \o r)
    <3>1. PICK i \in 1..Len(q) : x = q[i]
      BY <1>1, <2>2 DEF RangeOf
    <3>2. i \in 1..(Len(q) + Len(r)) /\ (q \o r)[i] = x
      BY <1>1, <3>1
    <3> QED BY <1>1, <3>2 DEF RangeOf
  <2>3. ASSUME NEW x \in RangeOf(r)
        PROVE  x \in RangeOf(q \o r)
    <3>1. PICK i \in 1..Len(r) : x = r[i]
      BY <1>1, <2>3 DEF RangeOf
    <3>2. i + Len(q) \in 1..(Len(q) + Len(r)) /\ (q \o r)[i + Len(q)] = x
      BY <1>1, <3>1
    <3> QED BY <1>1, <3>2 DEF RangeOf
  <2> QED BY <2>1, <2>2, <2>3
<1>3. ASSUME Distinct(q), Distinct(r), RangeOf(q) \cap RangeOf(r) = {}
      PROVE  Distinct(q \o r)
  <2> SUFFICES ASSUME NEW i \in 1..(Len(q) + Len(r)), NEW j \in 1..(Len(q) + Len(r)),
                      (q \o r)[i] = (q \o r)[j]
               PROVE  i = j
    BY <1>1 DEF Distinct
  <2>1. CASE i <= Len(q) /\ j <= Len(q)
    BY <1>1, <1>3, <2>1 DEF Distinct
  <2>2. CASE i > Len(q) /\ j > Len(q)
    <3>1. i - Len(q) \in 1..Len(r) /\ j - Len(q) \in 1..Len(r)
          /\ r[i - Len(q)] = r[j - Len(q)]
      BY <1>1, <2>2
    <3>2. i - Len(q) = j - Len(q)
      BY <1>1, <1>3, <3>1 DEF Distinct
    <3> QED BY <1>1, <3>2
  <2>3. CASE i <= Len(q) /\ j > Len(q)
    <3>1. i \in 1..Len(q) /\ j - Len(q) \in 1..Len(r) /\ q[i] = r[j - Len(q)]
      BY <1>1, <2>3
    <3> QED BY <1>1, <1>3, <3>1 DEF RangeOf
  <2>4. CASE i > Len(q) /\ j <= Len(q)
    <3>1. j \in 1..Len(q) /\ i - Len(q) \in 1..Len(r) /\ q[j] = r[i - Len(q)]
      BY <1>1, <2>4
    <3> QED BY <1>1, <1>3, <3>1 DEF RangeOf
  <2> QED BY <1>1, <2>1, <2>2, <2>3, <2>4
<1> QED BY <1>1, <1>2, <1>3
-----------------------------------------------------------------------------
(* Facts about the helpers. *)

(* notify_one moves at most one worker, from "parked" to "woken", and stores *)
(* the permit only when nobody is parked.                                    *)
LEMMA NotifyFacts ==
    ASSUME NEW p \in [Workers -> PCs], permit \in BOOLEAN, NotifyOne(p),
           permit => \A w \in Workers : p[w] # "parked"
    PROVE  /\ pc' \in [Workers -> PCs] /\ permit' \in BOOLEAN
           /\ \A w \in Workers : pc'[w] = p[w] \/ (p[w] = "parked" /\ pc'[w] = "woken")
           /\ PermitIsUsed'
<1>1. CASE \E w \in Workers : p[w] = "parked"
  <2>1. PICK w \in Workers : p[w] = "parked" /\ pc' = [p EXCEPT ![w] = "woken"]
    BY <1>1 DEF NotifyOne
  <2>2. permit' = permit /\ permit = FALSE
    BY <1>1 DEF NotifyOne
  <2> QED BY <2>1, <2>2 DEF PCs, Holding, PermitIsUsed
<1>2. CASE ~\E w \in Workers : p[w] = "parked"
  BY <1>2 DEF NotifyOne, PermitIsUsed
<1> QED BY <1>1, <1>2

(* The backoff never exceeds max_delay, whatever the width of the integers. *)
LEMMA BackoffBounded ==
    ASSUME NEW n \in Nat
    PROVE  Backoff(n) \in 0..MaxDelay
<1> DEFINE top == 2^Width - 1
           multiplier == IF n - 1 < Width THEN 2^(n - 1) ELSE top
<1>1. top \in Nat
  BY CountAssumption, PowerAssumption
<1>2. CASE n = 0
  BY <1>2, DelayAssumption DEF Backoff
<1>3. CASE n # 0
  <2>1. multiplier \in Nat
    <3>1. CASE n - 1 < Width
      <4>1. n - 1 \in 0..Width
        BY <3>1, <1>3, CountAssumption
      <4> QED BY <3>1, <4>1, PowerAssumption
    <3> QED BY <1>1, <3>1
  <2>2. BaseDelay * multiplier \in Nat
    <3> HIDE DEF multiplier
    <3> QED BY <2>1, DelayAssumption
  <2> HIDE DEF multiplier, top
  <2> DEFINE product == IF BaseDelay * multiplier > top THEN top
                        ELSE BaseDelay * multiplier
  <2>3. product \in Nat
    BY <1>1, <2>2
  <2>4. Backoff(n) = IF product > MaxDelay THEN MaxDelay ELSE product
    BY <1>3 DEF Backoff, multiplier, top
  <2> HIDE DEF product
  <2> QED BY <2>3, <2>4, DelayAssumption
<1> QED BY <1>2, <1>3

(* get() sleeps to one of the pending deadlines, and to none beyond another. *)
LEMMA EarliestFacts ==
    ASSUME delayed \in [Keys -> Deadline]
    PROVE  /\ Earliest \in Deadline
           /\ \A k \in Keys : delayed[k] # NoDeadline => Earliest \in 0..delayed[k]
<1> DEFINE due == {delayed[k] : k \in Keys} \ {NoDeadline}
           Less == OpToRel(<, Nat)
<1>1. due \subseteq 0..MaxDelay
  BY DEF Deadline
<1>2. due \subseteq Nat
  BY <1>1, DelayAssumption
<1>3. ASSUME due # {}
      PROVE  \E d \in due : \A e \in due : d <= e
  <2>1. IsWellFoundedOn(Less, Nat)
    BY NatLessThanWellFounded
  <2>2. \A x, y \in Nat : x < y => <<x, y>> \in Less
    BY DEF OpToRel
  <2> HIDE DEF due, Less
  <2>3. \E d \in due : \A e \in due : ~(<<e, d>> \in Less)
    BY <1>2, <1>3, <2>1, WFMin
  <2>4. PICK d \in due : \A e \in due : ~(<<e, d>> \in Less)
    BY <2>3
  <2>5. ASSUME NEW e \in due
        PROVE  d <= e
    <3>1. d \in Nat /\ e \in Nat
      BY <1>2
    <3>2. ~(e < d)
      BY <2>2, <2>4, <3>1
    <3> QED BY <3>1, <3>2
  <2> QED BY <2>5
<1>4. CASE due = {}
  BY <1>4 DEF Earliest, Deadline
<1>5. CASE due # {}
  <2>1. Earliest \in due /\ \A e \in due : Earliest <= e
    BY <1>3, <1>5 DEF Earliest
  <2>2. Earliest \in Deadline /\ Earliest \in Nat
    BY <1>1, <1>2, <2>1 DEF Deadline
  <2>3. ASSUME NEW k \in Keys, delayed[k] # NoDeadline
        PROVE  Earliest \in 0..delayed[k]
    <3>1. delayed[k] \in due /\ delayed[k] \in Nat
      BY <1>2, <2>3
    <3> HIDE DEF due
    <3> QED BY <2>1, <2>2, <3>1
  <2> QED BY <2>2, <2>3
<1> QED BY <1>4, <1>5

(* An iteration order of the promoted keys is a sequence of them. *)
LEMMA OrderFacts ==
    ASSUME NEW S \in SUBSET Keys, NEW s \in Orders(S)
    PROVE  s \in Seq(Keys) /\ RangeOf(s) = S /\ Distinct(s)
<1>1. Cardinality(S) \in Nat
  BY KeyAssumption, FS_Subset, FS_CardinalityType
<1> QED BY <1>1 DEF Orders

-----------------------------------------------------------------------------
(* The inductive invariant: one lemma per operation of the queue. *)

(* The empty queue satisfies the invariant. *)
LEMMA InitInv == Init => IInv
<1> SUFFICES ASSUME Init PROVE IInv
  OBVIOUS
<1>1. TypeOK
  <2>1. queue \in Seq(Keys)
    BY DEF Init
  <2>2. failures \in [Keys -> 0..MaxFailures] /\ age \in [Keys -> 0..MinReprocess]
    BY DelayAssumption, CountAssumption DEF Init
  <2>3. pc \in [Workers -> PCs] /\ key \in [Workers -> Keys \cup {None}]
    BY DEF Init, PCs
  <2>4. delayed \in [Keys -> Deadline] /\ wait \in [Workers -> Deadline]
    BY DEF Init, Deadline
  <2> QED BY <2>1, <2>2, <2>3, <2>4 DEF Init, TypeOK
<1>2. Locals /\ ExclusiveKeys /\ NothingForgotten /\ PermitIsUsed
  BY DEF Init, Locals, ExclusiveKeys, NothingForgotten, PermitIsUsed, Holding
<1>3. DirtySplit
  BY DEF Init, DirtySplit, Distinct, RangeOf
<1> QED BY <1>1, <1>2, <1>3 DEF IInv

(* add() by a watch handler. *)
LEMMA AddInv ==
    ASSUME IInv, NEW k \in Keys, Add(k)
    PROVE  IInv'
<1> USE DEF IInv
<1>1. CASE shutdown \/ k \in dirty
  <2>1. UNCHANGED <<queue, dirty, processing, failures, delayed, age, shutdown,
                    permit, pc, key, wait>>
        /\ asked' \subseteq Keys /\ asked' \subseteq asked \cup {k}
    BY <1>1 DEF Add, TypeOK
  <2>2. TypeOK' /\ Locals' /\ ExclusiveKeys' /\ DirtySplit' /\ PermitIsUsed'
    BY <2>1 DEF TypeOK, Locals, ExclusiveKeys, DirtySplit, PermitIsUsed
  <2>3. NothingForgotten'
    BY <1>1, <2>1 DEF NothingForgotten
  <2> QED BY <2>2, <2>3
<1>2. CASE ~shutdown /\ k \notin dirty /\ k \in processing
  <2>1. UNCHANGED <<queue, processing, failures, delayed, age, shutdown,
                    permit, pc, key, wait>>
        /\ dirty' = dirty \cup {k} /\ asked' = asked \cup {k}
    BY <1>2 DEF Add, AddNew
  <2>2. TypeOK' /\ Locals' /\ ExclusiveKeys' /\ PermitIsUsed'
    BY <2>1 DEF TypeOK, Locals, ExclusiveKeys, PermitIsUsed
  <2>3. DirtySplit' /\ NothingForgotten'
    BY <1>2, <2>1 DEF DirtySplit, NothingForgotten
  <2> QED BY <2>2, <2>3
<1>3. CASE ~shutdown /\ k \notin dirty /\ k \notin processing
  <2>1. UNCHANGED <<processing, failures, age, shutdown, key, wait>>
        /\ dirty' = dirty \cup {k} /\ asked' = asked \cup {k}
        /\ delayed' = [delayed EXCEPT ![k] = NoDeadline]
        /\ queue' = Append(queue, k) /\ NotifyOne(pc)
    BY <1>3 DEF Add, AddNew
  <2>2. pc' \in [Workers -> PCs] /\ permit' \in BOOLEAN /\ PermitIsUsed'
        /\ \A w \in Workers : pc'[w] = pc[w] \/ (pc[w] = "parked" /\ pc'[w] = "woken")
    BY <2>1, NotifyFacts DEF TypeOK, PermitIsUsed
  <2>3. queue' \in Seq(Keys) /\ RangeOf(queue') = RangeOf(queue) \cup {k}
        /\ (Distinct(queue) /\ k \notin RangeOf(queue) => Distinct(queue'))
    BY <2>1, AppendFacts DEF TypeOK
  <2>4. TypeOK'
    BY <2>1, <2>2, <2>3 DEF TypeOK, Deadline
  <2>5. Locals' /\ ExclusiveKeys'
    BY <2>1, <2>2 DEF Locals, ExclusiveKeys, Holding
  <2>6. DirtySplit'
    BY <1>3, <2>1, <2>3 DEF DirtySplit
  <2>7. NothingForgotten'
    BY <2>1 DEF NothingForgotten, TypeOK
  <2> QED BY <2>2, <2>4, <2>5, <2>6, <2>7
<1> QED BY <1>1, <1>2, <1>3

(* The first section of get(): promotion of the keys whose delay is over,    *)
(* and the hand-out of the head of the queue.                                *)
LEMMA GetTakeInv ==
    ASSUME IInv, NEW w \in Workers, GetTake(w)
    PROVE  IInv'
<1> USE DEF IInv
<1>1. PICK s \in Orders(Promoted) :
        IF queue \o s # <<>>
        THEN PopHead(w, queue \o s, dirty \cup Due)
        ELSE /\ pc' = [pc EXCEPT ![w] = "peek"]
             /\ dirty' = dirty \cup Due
             /\ UNCHANGED <<queue, processing, age, key, asked>>
  BY DEF GetTake
<1>2. /\ pc[w] = "check" /\ UNCHANGED <<failures, shutdown, permit, wait>>
      /\ delayed' = [k \in Keys |-> IF k \in Due THEN NoDeadline ELSE delayed[k]]
  BY DEF GetTake
<1>3. delayed' \in [Keys -> Deadline] /\ Due \subseteq Keys
  BY <1>2 DEF TypeOK, Deadline, Due
<1>4. s \in Seq(Keys) /\ RangeOf(s) = Promoted /\ Distinct(s)
  <2>1. Promoted \in SUBSET Keys
    BY DEF Promoted, Due
  <2> QED BY <2>1, OrderFacts
<1> DEFINE q == queue \o s
           d == dirty \cup Due
<1>5. q \in Seq(Keys) /\ RangeOf(q) = RangeOf(queue) \cup Promoted
  BY <1>4, ConcatFacts DEF TypeOK
<1>6. RangeOf(q) = d \ processing
  BY <1>5 DEF DirtySplit, Promoted
<1>7. Distinct(q)
  <2>1. RangeOf(queue) \cap RangeOf(s) = {}
    BY <1>4 DEF DirtySplit, Promoted
  <2> QED BY <1>4, <2>1, ConcatFacts DEF TypeOK, DirtySplit
<1>8. key[w] = None
  BY <1>2 DEF Locals, Holding
<1>9. CASE q # <<>>
  <2> DEFINE h == Head(q)
  <2>1. /\ key' = [key EXCEPT ![w] = h] /\ queue' = Tail(q)
        /\ dirty' = d \ {h} /\ processing' = processing \cup {h}
        /\ age' = [age EXCEPT ![h] = 0] /\ asked' = asked \ {h}
        /\ pc' = [pc EXCEPT ![w] = "working"]
    BY <1>1, <1>9 DEF PopHead
  <2>2. h \in Keys /\ Tail(q) \in Seq(Keys) /\ h \in RangeOf(q)
        /\ Distinct(Tail(q)) /\ RangeOf(Tail(q)) = RangeOf(q) \ {h}
    BY <1>5, <1>7, <1>9, TailFacts
  <2> HIDE DEF q, h
  <2>3. TypeOK'
    <3>1. age' \in [Keys -> 0..MinReprocess]
      BY <2>1, <2>2, DelayAssumption DEF TypeOK
    <3>2. dirty' \subseteq Keys
      BY <1>3, <2>1 DEF TypeOK
    <3>3. pc' \in [Workers -> PCs]
      BY <2>1 DEF TypeOK, PCs, Holding
    <3> QED BY <1>2, <1>3, <2>1, <2>2, <3>1, <3>2, <3>3 DEF TypeOK
  <2>4. Locals'
    BY <1>2, <2>1, <2>2, KeyAssumption DEF Locals, Holding, TypeOK
  <2>5. h \notin processing /\ h \in d
    BY <1>6, <2>2
  <2>6. ExclusiveKeys'
    <3>1. \A v \in Workers : key[v] # h
      BY <2>2, <2>5, KeyAssumption DEF ExclusiveKeys
    <3>2. \A v \in Workers : key'[v] = IF v = w THEN h ELSE key[v]
      BY <2>1 DEF TypeOK
    <3>3. \A u, v \in Workers : key'[u] = key'[v] /\ key'[u] # None => u = v
      BY <3>1, <3>2 DEF ExclusiveKeys
    <3>4. {key'[v] : v \in Workers} \ {None} = ({key[v] : v \in Workers} \ {None}) \cup {h}
      BY <1>8, <2>2, <3>2, KeyAssumption
    <3> QED BY <2>1, <3>3, <3>4 DEF ExclusiveKeys
  <2>7. DirtySplit'
    BY <1>6, <2>1, <2>2, <2>5 DEF DirtySplit
  <2>8. NothingForgotten'
    BY <1>2, <2>1 DEF NothingForgotten, TypeOK, Due
  <2>9. PermitIsUsed'
    BY <1>2, <2>1 DEF PermitIsUsed, TypeOK
  <2> QED BY <2>3, <2>4, <2>6, <2>7, <2>8, <2>9
<1>10. CASE q = <<>>
  <2>1. /\ pc' = [pc EXCEPT ![w] = "peek"] /\ dirty' = d
        /\ UNCHANGED <<queue, processing, age, key, asked>>
    BY <1>1, <1>10
  <2>2. queue = q
    BY <1>4, <1>10 DEF TypeOK
  <2>3. TypeOK'
    BY <1>2, <1>3, <2>1 DEF TypeOK, PCs
  <2>4. Locals' /\ ExclusiveKeys' /\ PermitIsUsed'
    BY <1>2, <2>1 DEF Locals, ExclusiveKeys, PermitIsUsed, Holding, TypeOK
  <2>5. DirtySplit'
    BY <1>6, <2>1, <2>2 DEF DirtySplit
  <2>6. NothingForgotten'
    BY <1>2, <2>1 DEF NothingForgotten, TypeOK, Due
  <2> QED BY <2>3, <2>4, <2>5, <2>6
<1> QED BY <1>9, <1>10

(* The steps of get() that only move the worker: leaving, reading the        *)
(* earliest deadline, parking, waking up.                                    *)
LEMMA GetWaitInv ==
    ASSUME IInv, NEW w \in Workers,
           \/ GetDrained(w) \/ GetPeek(w) \/ GetPark(w)
           \/ GetTimer(w) \/ GetNotified(w) \/ GetTimerNotified(w)
    PROVE  IInv'
<1> USE DEF IInv
<1>1. UNCHANGED <<queue, dirty, processing, failures, delayed, age, shutdown,
                  key, asked>>
  BY DEF GetDrained, GetPeek, GetPark, GetTimer, GetNotified, GetTimerNotified
<1>2. ExclusiveKeys' /\ DirtySplit' /\ NothingForgotten'
  BY <1>1 DEF ExclusiveKeys, DirtySplit, NothingForgotten
<1>3. Unset(w) \in [Workers -> Deadline]
  BY DEF Unset, TypeOK, Deadline
<1>4. \A v \in Workers : v # w => Unset(w)[v] = wait[v]
  BY DEF Unset, TypeOK
<1>5. /\ pc' \in [Workers -> PCs] /\ wait' \in [Workers -> Deadline]
      /\ permit' \in BOOLEAN /\ PermitIsUsed'
      /\ pc[w] \notin Holding /\ pc'[w] \notin Holding
      /\ \A v \in Workers : v # w =>
            /\ wait'[v] = wait[v]
            /\ pc'[v] = pc[v] \/ (pc[v] = "parked" /\ pc'[v] = "woken")
  <2>1. CASE GetDrained(w)
    BY <2>1 DEF GetDrained, TypeOK, PCs, Holding, PermitIsUsed
  <2>2. CASE GetPeek(w)
    <3>1. Earliest \in Deadline
      BY EarliestFacts DEF TypeOK
    <3> QED BY <2>2, <3>1 DEF GetPeek, TypeOK, PCs, Holding, PermitIsUsed
  <2>3. CASE GetPark(w)
    BY <2>3, <1>3, <1>4 DEF GetPark, TypeOK, PCs, Holding, PermitIsUsed
  <2>4. CASE GetTimer(w)
    BY <2>4, <1>3, <1>4 DEF GetTimer, TypeOK, PCs, Holding, PermitIsUsed
  <2>5. CASE GetNotified(w)
    BY <2>5, <1>3, <1>4 DEF GetNotified, TypeOK, PCs, Holding, PermitIsUsed
  <2>6. CASE GetTimerNotified(w)
    <3> DEFINE p == [pc EXCEPT ![w] = "check"]
    <3>1. p \in [Workers -> PCs] /\ pc[w] = "woken" /\ NotifyOne(p)
          /\ wait' = Unset(w)
      BY <2>6 DEF GetTimerNotified, TypeOK, PCs
    <3>2. permit => \A v \in Workers : p[v] # "parked"
      BY DEF PermitIsUsed, TypeOK
    <3>3. /\ pc' \in [Workers -> PCs] /\ permit' \in BOOLEAN /\ PermitIsUsed'
          /\ \A v \in Workers : pc'[v] = p[v] \/ (p[v] = "parked" /\ pc'[v] = "woken")
      BY <3>1, <3>2, NotifyFacts DEF TypeOK
    <3>4. p[w] = "check" /\ \A v \in Workers : v # w => p[v] = pc[v]
      BY DEF TypeOK
    <3> HIDE DEF p
    <3> QED BY <1>3, <1>4, <3>1, <3>3, <3>4 DEF Holding
  <2> QED BY <2>1, <2>2, <2>3, <2>4, <2>5, <2>6
<1>6. TypeOK'
  BY <1>1, <1>5 DEF TypeOK
<1>7. Locals'
  BY <1>1, <1>5 DEF Locals, Holding
<1> QED BY <1>2, <1>5, <1>6, <1>7

(* The end of a reconcile: forget() or the count of requeue_rate_limited(). *)
LEMMA ReconcileInv ==
    ASSUME IInv, NEW w \in Workers, Reconcile(w)
    PROVE  IInv'
<1> USE DEF IInv
<1>1. UNCHANGED <<queue, dirty, processing, delayed, age, shutdown, permit,
                  key, asked>>
      /\ pc[w] = "working"
  BY DEF Reconcile, Skip, Forget, RequeueRateLimited
<1>2. ExclusiveKeys' /\ DirtySplit' /\ NothingForgotten'
  BY <1>1 DEF ExclusiveKeys, DirtySplit, NothingForgotten
<1>3. key[w] \in Keys
  BY <1>1 DEF Locals, Holding, TypeOK
<1>4. /\ failures' \in [Keys -> 0..MaxFailures] /\ wait' \in [Workers -> Deadline]
      /\ \/ pc' = [pc EXCEPT ![w] = "finishing"] /\ wait' = wait
         \/ /\ pc' = [pc EXCEPT ![w] = "adding"]
            /\ \E d \in 0..MaxDelay : wait' = [wait EXCEPT ![w] = d]
  <2>1. CASE Skip(w)
    BY <2>1 DEF Skip, TypeOK
  <2>2. CASE Forget(w)
    <3>1. failures' \in [Keys -> 0..MaxFailures]
      BY <2>2, <1>3, CountAssumption DEF Forget, TypeOK
    <3>2. \/ pc' = [pc EXCEPT ![w] = "finishing"] /\ wait' = wait
          \/ /\ pc' = [pc EXCEPT ![w] = "adding"]
             /\ \E d \in 0..MaxDelay : wait' = [wait EXCEPT ![w] = d]
      BY <2>2 DEF Forget
    <3>3. wait' \in [Workers -> Deadline]
      BY <3>2 DEF TypeOK, Deadline
    <3> QED BY <3>1, <3>2, <3>3
  <2>3. CASE RequeueRateLimited(w)
    <3> DEFINE n == IF failures[key[w]] < MaxFailures THEN failures[key[w]] + 1
                    ELSE MaxFailures
    <3>1. n \in 0..MaxFailures /\ n \in Nat
      BY <1>3, CountAssumption DEF TypeOK
    <3>2. Backoff(n) \in 0..MaxDelay
      BY <3>1, BackoffBounded
    <3>3. /\ failures' = [failures EXCEPT ![key[w]] = n]
          /\ wait' = [wait EXCEPT ![w] = Backoff(n)]
          /\ pc' = [pc EXCEPT ![w] = "adding"]
      BY <2>3 DEF RequeueRateLimited
    <3> HIDE DEF n
    <3> QED BY <1>3, <3>1, <3>2, <3>3 DEF TypeOK, Deadline
  <2> QED BY <2>1, <2>2, <2>3 DEF Reconcile
<1>5. TypeOK'
  BY <1>1, <1>4 DEF TypeOK, PCs, Holding
<1>6. Locals'
  <2>1. \A v \in Workers : v # w => pc'[v] = pc[v] /\ wait'[v] = wait[v]
    BY <1>4 DEF TypeOK
  <2>2. pc'[w] \in {"finishing", "adding"} /\ (pc'[w] = "adding" => wait'[w] # NoDeadline)
    BY <1>4, DelayAssumption DEF TypeOK, NoDeadline
  <2> QED BY <1>1, <2>1, <2>2 DEF Locals, Holding
<1>7. PermitIsUsed'
  BY <1>1, <1>4 DEF PermitIsUsed, TypeOK
<1> QED BY <1>2, <1>5, <1>6, <1>7

(* add_after() of the key a worker holds. *)
LEMMA AddAfterInv ==
    ASSUME IInv, NEW w \in Workers, AddAfter(w)
    PROVE  IInv'
<1> USE DEF IInv
<1> DEFINE k == key[w]
           p == [pc EXCEPT ![w] = "finishing"]
<1>1. pc[w] = "adding" /\ wait' = Unset(w)
      /\ UNCHANGED <<queue, dirty, processing, failures, age, shutdown, key>>
      /\ asked' = IF shutdown THEN asked ELSE asked \cup {k}
  BY DEF AddAfter
<1>2. k \in Keys /\ wait[w] \in 0..MaxDelay
  BY <1>1 DEF Locals, Holding, TypeOK, Deadline
<1>3. p \in [Workers -> PCs] /\ p[w] = "finishing"
      /\ \A v \in Workers : v # w => p[v] = pc[v]
  BY DEF TypeOK, PCs, Holding
<1>4. /\ pc' \in [Workers -> PCs] /\ permit' \in BOOLEAN /\ PermitIsUsed'
      /\ \A v \in Workers : pc'[v] = p[v] \/ (p[v] = "parked" /\ pc'[v] = "woken")
  <2>1. permit => \A v \in Workers : p[v] # "parked"
    BY <1>3 DEF PermitIsUsed
  <2>2. CASE pc' = p /\ permit' = permit
    BY <1>3, <2>1, <2>2 DEF TypeOK, PermitIsUsed
  <2>3. CASE NotifyOne(p)
    BY <1>3, <2>1, <2>3, NotifyFacts DEF TypeOK
  <2>4. (pc' = p /\ permit' = permit) \/ NotifyOne(p)
    BY DEF AddAfter
  <2> QED BY <2>2, <2>3, <2>4
<1>5. delayed' = delayed \/ delayed' = [delayed EXCEPT ![k] = wait[w]]
  BY DEF AddAfter
<1>6. shutdown \/ k \in dirty \/ delayed'[k] # NoDeadline
  <2> SUFFICES ASSUME ~shutdown, k \notin dirty
               PROVE  delayed'[k] # NoDeadline
    OBVIOUS
  <2>1. delayed' = IF delayed[k] = NoDeadline \/ wait[w] < delayed[k]
                   THEN [delayed EXCEPT ![k] = wait[w]] ELSE delayed
    BY DEF AddAfter
  <2> QED BY <1>2, <2>1, DelayAssumption DEF TypeOK, NoDeadline
<1> HIDE DEF k, p
<1>7. TypeOK'
  <2>1. delayed' \in [Keys -> Deadline]
    BY <1>2, <1>5 DEF TypeOK, Deadline
  <2>2. wait' \in [Workers -> Deadline]
    BY <1>1 DEF TypeOK, Deadline, Unset
  <2>3. asked' \subseteq Keys
    BY <1>1, <1>2 DEF TypeOK
  <2> QED BY <1>1, <1>4, <2>1, <2>2, <2>3 DEF TypeOK
<1>8. Locals'
  <2>1. \A v \in Workers : v # w => wait'[v] = wait[v]
    BY <1>1 DEF Unset, TypeOK
  <2> QED BY <1>1, <1>3, <1>4, <2>1 DEF Locals, Holding
<1>9. ExclusiveKeys' /\ DirtySplit'
  BY <1>1 DEF ExclusiveKeys, DirtySplit
<1>10. NothingForgotten'
  <2> SUFFICES ASSUME ~shutdown, NEW j \in asked \cup {k}
               PROVE  j \in dirty \/ delayed'[j] # NoDeadline
    BY <1>1 DEF NothingForgotten
  <2>1. CASE j = k
    BY <1>6, <2>1
  <2>2. CASE j # k
    BY <1>5, <2>2 DEF NothingForgotten, TypeOK
  <2> QED BY <2>1, <2>2
<1> QED BY <1>4, <1>7, <1>8, <1>9, <1>10

(* done(): the key leaves `processing`; if it is dirty it goes back to the   *)
(* queue, or to `delayed` for the rest of the reprocessing interval.         *)
LEMMA DoneInv ==
    ASSUME IInv, NEW w \in Workers, Done(w)
    PROVE  IInv'
<1> USE DEF IInv
<1> DEFINE k == key[w]
           p == [pc EXCEPT ![w] = "check"]
<1>1. pc[w] = "finishing" /\ processing' = processing \ {k}
      /\ key' = [key EXCEPT ![w] = None]
      /\ UNCHANGED <<failures, age, shutdown, wait, asked>>
  BY DEF Done
<1>2. k \in Keys
  BY <1>1 DEF Locals, Holding, TypeOK
<1>3. p \in [Workers -> PCs] /\ p[w] = "check"
      /\ \A v \in Workers : v # w => p[v] = pc[v]
  BY DEF TypeOK, PCs
<1>4. /\ pc' \in [Workers -> PCs] /\ permit' \in BOOLEAN /\ PermitIsUsed'
      /\ \A v \in Workers : pc'[v] = p[v] \/ (p[v] = "parked" /\ pc'[v] = "woken")
  <2>1. permit => \A v \in Workers : p[v] # "parked"
    BY <1>3 DEF PermitIsUsed
  <2>2. CASE pc' = p /\ permit' = permit
    BY <1>3, <2>1, <2>2 DEF TypeOK, PermitIsUsed
  <2>3. CASE NotifyOne(p)
    BY <1>3, <2>1, <2>3, NotifyFacts DEF TypeOK
  <2>4. (pc' = p /\ permit' = permit) \/ NotifyOne(p)
    BY DEF Done
  <2> QED BY <2>2, <2>3, <2>4
<1>5. k \in processing
  BY <1>2, KeyAssumption DEF ExclusiveKeys
<1>6. \/ k \notin dirty /\ UNCHANGED <<queue, dirty, delayed>>
      \/ /\ k \in dirty /\ age[k] < MinReprocess /\ dirty' = dirty \ {k} /\ queue' = queue
         /\ delayed' = [delayed EXCEPT ![k] = MinReprocess - age[k]]
      \/ /\ k \in dirty /\ queue' = Append(queue, k)
         /\ UNCHANGED <<dirty, delayed>>
  BY DEF Done
<1>7. k \notin RangeOf(queue)
  BY <1>5 DEF DirtySplit
<1>8. queue' \in Seq(Keys) /\ Distinct(queue')
      /\ RangeOf(queue') = dirty' \ processing'
  <2>1. CASE queue' = queue /\ ((k \notin dirty /\ dirty' = dirty) \/ dirty' = dirty \ {k})
    BY <1>1, <1>5, <2>1 DEF DirtySplit, TypeOK
  <2>2. CASE k \in dirty /\ queue' = Append(queue, k) /\ dirty' = dirty
    <3>1. queue' \in Seq(Keys) /\ Distinct(queue') /\ RangeOf(queue') = RangeOf(queue) \cup {k}
      BY <1>2, <1>7, <2>2, AppendFacts DEF TypeOK, DirtySplit
    <3> QED BY <1>1, <2>2, <3>1 DEF DirtySplit
  <2> QED BY <1>6, <2>1, <2>2
<1>9. delayed' \in [Keys -> Deadline] /\ dirty' \subseteq Keys
  <2>1. age[k] < MinReprocess => MinReprocess - age[k] \in 0..MaxDelay
    BY <1>2, DelayAssumption DEF TypeOK
  <2>2. CASE delayed' = delayed
    BY <1>6, <2>2 DEF TypeOK
  <2>3. CASE delayed' # delayed
    <3> DEFINE r == MinReprocess - age[k]
    <3>1. delayed' = [delayed EXCEPT ![k] = r] /\ dirty' = dirty \ {k} /\ r \in Deadline
      BY <1>6, <2>1, <2>3 DEF Deadline
    <3> HIDE DEF r, k
    <3> QED BY <3>1 DEF TypeOK
  <2> QED BY <2>2, <2>3
<1>10. NothingForgotten'
  <2> SUFFICES ASSUME ~shutdown, NEW j \in asked
               PROVE  j \in dirty' \/ delayed'[j] # NoDeadline
    BY <1>1 DEF NothingForgotten
  <2>1. j \in Keys /\ (j \in dirty \/ delayed[j] # NoDeadline)
    BY DEF NothingForgotten, TypeOK
  <2>2. age[k] < MinReprocess => MinReprocess - age[k] # NoDeadline
    BY <1>2, DelayAssumption DEF TypeOK, NoDeadline
  <2> QED BY <1>2, <1>6, <2>1, <2>2 DEF TypeOK
<1>11. key' \in [Workers -> Keys \cup {None}]
       /\ \A v \in Workers : key'[v] = IF v = w THEN None ELSE key[v]
  BY <1>1 DEF TypeOK
<1>12. ExclusiveKeys'
  <2>1. \A u, v \in Workers : key'[u] = key'[v] /\ key'[u] # None => u = v
    BY <1>11 DEF ExclusiveKeys
  <2>2. {key'[v] : v \in Workers} \ {None} = ({key[v] : v \in Workers} \ {None}) \ {k}
    BY <1>2, <1>11, KeyAssumption DEF ExclusiveKeys
  <2> QED BY <1>1, <2>1, <2>2 DEF ExclusiveKeys
<1> HIDE DEF k, p
<1>13. TypeOK'
  BY <1>1, <1>4, <1>8, <1>9, <1>11 DEF TypeOK
<1>14. Locals'
  BY <1>1, <1>3, <1>4, <1>11 DEF Locals, Holding
<1>15. DirtySplit'
  BY <1>8 DEF DirtySplit
<1> QED BY <1>4, <1>10, <1>12, <1>13, <1>14, <1>15

(* shutdown() only wakes workers. *)
LEMMA ShutdownInv ==
    ASSUME IInv, Shutdown
    PROVE  IInv'
<1> USE DEF IInv
<1>1. TypeOK'
  BY DEF Shutdown, TypeOK, PCs, Deadline
<1>2. Locals' /\ PermitIsUsed' /\ ExclusiveKeys' /\ DirtySplit' /\ NothingForgotten'
  BY DEF Shutdown, TypeOK, Locals, PermitIsUsed, ExclusiveKeys, DirtySplit,
         NothingForgotten, Holding
<1> QED BY <1>1, <1>2

(* Time only brings deadlines nearer, and never turns one into "none". *)
LEMMA TickInv ==
    ASSUME IInv, Tick
    PROVE  IInv'
<1> USE DEF IInv
<1>1. \A d \in Deadline : /\ CountDown(d) \in Deadline
                          /\ CountDown(d) = NoDeadline <=> d = NoDeadline
  BY DelayAssumption DEF Deadline, NoDeadline, CountDown
<1>2. TypeOK'
  <2>1. delayed' \in [Keys -> Deadline] /\ wait' \in [Workers -> Deadline]
    BY <1>1 DEF Tick, TypeOK
  <2>2. age' \in [Keys -> 0..MinReprocess]
    BY DelayAssumption DEF Tick, TypeOK
  <2> QED BY <2>1, <2>2 DEF Tick, TypeOK
<1>3. Locals' /\ PermitIsUsed' /\ ExclusiveKeys' /\ DirtySplit'
  BY DEF Tick, TypeOK, Locals, PermitIsUsed, ExclusiveKeys, DirtySplit
<1>4. NothingForgotten'
  BY <1>1 DEF Tick, TypeOK, NothingForgotten
<1> QED BY <1>2, <1>3, <1>4

(* Every step preserves the invariant. *)
LEMMA NextInv == IInv /\ [Next]_vars => IInv'
<1> SUFFICES ASSUME IInv, [Next]_vars PROVE IInv'
  OBVIOUS
<1>1. CASE \E k \in Keys : Add(k)
  BY <1>1, AddInv
<1>2. ASSUME NEW w \in Workers, Worker(w)
      PROVE  IInv'
  BY <1>2, GetTakeInv, GetWaitInv, ReconcileInv, AddAfterInv, DoneInv DEF Worker, Get
<1>3. CASE Shutdown
  BY <1>3, ShutdownInv
<1>4. CASE Tick
  BY <1>4, TickInv
<1>5. CASE UNCHANGED vars
  BY <1>5 DEF vars, IInv, TypeOK, Locals, ExclusiveKeys, DirtySplit,
              NothingForgotten, PermitIsUsed
<1> QED BY <1>1, <1>2, <1>3, <1>4, <1>5 DEF Next

(* The conjunction of all the safety invariants, strengthened by Locals,     *)
(* holds in every reachable state of the work queue.                         *)
THEOREM Invariance == Spec => []IInv
<1> QED BY InitInv, NextInv, PTL DEF Spec

(* Every variable keeps its type; in particular no delay exceeds max_delay   *)
(* and no deadline is negative.                                              *)
THEOREM TypeCorrect == Spec => []TypeOK
<1>1. IInv => TypeOK
  BY DEF IInv
<1> QED BY <1>1, Invariance, PTL

(* No two workers ever hold the same key. *)
THEOREM KeysAreExclusive == Spec => []ExclusiveKeys
<1>1. IInv => ExclusiveKeys
  BY DEF IInv
<1> QED BY <1>1, Invariance, PTL

(* The queue holds each dirty key that is not being processed, once. *)
THEOREM QueueIsDirtySplit == Spec => []DirtySplit
<1>1. IInv => DirtySplit
  BY DEF IInv
<1> QED BY <1>1, Invariance, PTL

(* No key that was asked for is dropped before it is handed out. *)
THEOREM NoRequestForgotten == Spec => []NothingForgotten
<1>1. IInv => NothingForgotten
  BY DEF IInv
<1> QED BY <1>1, Invariance, PTL

(* No permit is left lying while a worker sleeps. *)
THEOREM PermitsAreUsed == Spec => []PermitIsUsed
<1>1. IInv => PermitIsUsed
  BY DEF IInv
<1> QED BY <1>1, Invariance, PTL

(* Whatever a step does, a pending deadline stays covered: a worker that     *)
(* acts looks at the queue again before it sleeps, or goes to sleep with the *)
(* earliest deadline; a new deadline comes with a notification, which wakes  *)
(* a sleeper or stays for the next one; and a sleep runs out with the        *)
(* deadline it covers.                                                       *)
LEMMA DeadlineStep ==
    ASSUME IInv, DeadlineCovered, [Next]_vars
    PROVE  DeadlineCovered'
<1> DEFINE Alert == {"check", "peek", "woken"} \cup Holding
<1>0. TypeOK
  BY DEF IInv
<1>1. ASSUME NEW w \in Workers, Worker(w), pc'[w] \in Alert
      PROVE  DeadlineCovered'
  BY <1>1 DEF DeadlineCovered
<1>2. ASSUME NEW w \in Workers, Worker(w), pc'[w] \notin Alert
      PROVE  DeadlineCovered'
  <2>1. CASE GetTake(w) \/ GetTimer(w) \/ GetNotified(w) \/ Reconcile(w)
    BY <1>0, <1>2, <2>1 DEF GetTake, PopHead, GetTimer, GetNotified, Reconcile, Skip, Forget,
       RequeueRateLimited, TypeOK, Holding
  <2>2. ASSUME NEW p \in [Workers -> PCs], p[w] \in Alert,
               NotifyOne(p) \/ pc' = p
        PROVE  FALSE
    <3>1. CASE \E v \in Workers : p[v] = "parked" /\ pc' = [p EXCEPT ![v] = "woken"]
      BY <1>2, <2>2, <3>1
    <3> QED BY <1>2, <2>2, <3>1 DEF NotifyOne
  <2>3. CASE GetTimerNotified(w) \/ Done(w)
    <3>1. [pc EXCEPT ![w] = "check"] \in [Workers -> PCs]
      BY <1>0 DEF TypeOK, PCs
    <3>2. [pc EXCEPT ![w] = "check"][w] \in Alert
      BY <1>0 DEF TypeOK
    <3> QED BY <2>2, <2>3, <3>1, <3>2 DEF GetTimerNotified, Done
  <2>4. CASE AddAfter(w)
    <3>1. [pc EXCEPT ![w] = "finishing"] \in [Workers -> PCs]
      BY <1>0 DEF TypeOK, PCs, Holding
    <3>2. [pc EXCEPT ![w] = "finishing"][w] \in Alert
      BY <1>0 DEF TypeOK, Holding
    <3> QED BY <2>2, <2>4, <3>1, <3>2 DEF AddAfter
  <2>5. CASE GetDrained(w) \/ (GetPeek(w) /\ shutdown)
    BY <2>5 DEF GetDrained, GetPeek, DeadlineCovered
  <2>6. CASE GetPeek(w) /\ ~shutdown
    <3>1. pc'[w] = "park" /\ wait'[w] = Earliest /\ delayed' = delayed
      BY <1>0, <2>6 DEF GetPeek, TypeOK
    <3> QED BY <1>0, <3>1, EarliestFacts DEF TypeOK, DeadlineCovered
  <2>7. CASE GetPark(w)
    <3>1. /\ pc[w] = "park" /\ pc' = [pc EXCEPT ![w] = "parked"]
          /\ UNCHANGED <<permit, wait, delayed, shutdown>>
      BY <1>0, <1>2, <2>7 DEF GetPark, TypeOK
    <3> QED BY <1>0, <3>1 DEF TypeOK, DeadlineCovered, Holding
  <2> QED BY <1>2, <2>1, <2>3, <2>4, <2>5, <2>6, <2>7 DEF Worker, Get
<1>3. ASSUME NEW k \in Keys, Add(k)
      PROVE  DeadlineCovered'
  <2>1. CASE UNCHANGED <<pc, permit, delayed>>
    BY <1>3, <2>1 DEF Add, DeadlineCovered
  <2>2. CASE ~UNCHANGED <<pc, permit, delayed>>
    <3>1. /\ delayed' = [delayed EXCEPT ![k] = NoDeadline] /\ NotifyOne(pc)
          /\ UNCHANGED <<shutdown, wait>>
      BY <1>3, <2>2 DEF Add, AddNew
    <3>2. CASE \E w \in Workers : pc[w] = "parked"
      <4>1. PICK w \in Workers : pc' = [pc EXCEPT ![w] = "woken"]
        BY <3>1, <3>2 DEF NotifyOne
      <4>2. pc'[w] = "woken"
        BY <1>0, <4>1 DEF TypeOK
      <4> QED BY <4>2 DEF DeadlineCovered
    <3>3. CASE ~\E w \in Workers : pc[w] = "parked"
      BY <3>1, <3>3 DEF NotifyOne, DeadlineCovered
    <3> QED BY <3>2, <3>3
  <2> QED BY <2>1, <2>2
<1>4. CASE Shutdown
  BY <1>4 DEF Shutdown, DeadlineCovered
<1>5. CASE Tick
  <2>1. \A d \in Deadline : CountDown(d) = NoDeadline <=> d = NoDeadline
    BY DelayAssumption DEF Deadline, NoDeadline, CountDown
  <2>2. \A d, e \in Deadline : e # NoDeadline /\ d \in 0..e => CountDown(d) \in 0..CountDown(e)
    BY DelayAssumption DEF Deadline, NoDeadline, CountDown
  <2> SUFFICES ASSUME NEW k \in Keys, delayed'[k] # NoDeadline, ~shutdown', ~permit'
               PROVE  \E w \in Workers :
                        \/ pc'[w] \in Alert
                        \/ pc'[w] \in {"park", "parked"} /\ wait'[w] \in 0..delayed'[k]
    BY DEF DeadlineCovered
  <2>3. /\ delayed'[k] = CountDown(delayed[k]) /\ delayed[k] # NoDeadline
        /\ delayed[k] \in Deadline /\ UNCHANGED <<shutdown, permit, pc>>
    BY <1>0, <1>5, <2>1 DEF Tick, TypeOK
  <2>4. PICK w \in Workers : \/ pc[w] \in Alert
                             \/ pc[w] \in {"park", "parked"} /\ wait[w] \in 0..delayed[k]
    BY <2>3 DEF DeadlineCovered
  <2>5. wait[w] \in Deadline /\ (pc[w] # "adding" => wait'[w] = CountDown(wait[w]))
    BY <1>0, <1>5 DEF Tick, TypeOK
  <2> QED BY <2>2, <2>3, <2>4, <2>5
<1>6. CASE UNCHANGED vars
  BY <1>6 DEF vars, DeadlineCovered
<1> QED BY <1>1, <1>2, <1>3, <1>4, <1>5, <1>6 DEF Next

(* The timers of get() miss no deadline of a delayed key. *)
THEOREM DeadlinesAreCovered == Spec => []DeadlineCovered
<1>1. Init => DeadlineCovered
  BY DEF Init, DeadlineCovered
<1>2. IInv /\ DeadlineCovered /\ [Next]_vars => DeadlineCovered'
  BY DeadlineStep
<1> QED BY <1>1, <1>2, Invariance, PTL DEF Spec

(* add_after() never postpones a key that already waits for a deadline. *)
THEOREM OnlySooner == Spec => AddAfterOnlySooner
<1>1. ASSUME IInv, [Next]_vars
      PROVE  [\A w \in Workers, k \in Keys :
                AddAfter(w) /\ delayed[k] # NoDeadline =>
                    delayed'[k] \in 0..delayed[k]]_vars
  <2> SUFFICES ASSUME NEW w \in Workers, NEW k \in Keys,
                      AddAfter(w), delayed[k] # NoDeadline
               PROVE  delayed'[k] \in 0..delayed[k]
    OBVIOUS
  <2>1. delayed[k] \in 0..MaxDelay /\ wait[w] \in 0..MaxDelay
    BY <1>1 DEF IInv, TypeOK, Locals, AddAfter, Deadline
  <2>2. \/ delayed' = delayed
        \/ /\ delayed' = [delayed EXCEPT ![key[w]] = wait[w]]
           /\ delayed[key[w]] = NoDeadline \/ wait[w] < delayed[key[w]]
    BY DEF AddAfter
  <2>3. CASE delayed' = delayed
    BY <2>1, <2>3
  <2>4. CASE delayed' # delayed
    <3>1. delayed'[k] = IF k = key[w] THEN wait[w] ELSE delayed[k]
      BY <1>1, <2>2, <2>4 DEF IInv, TypeOK
    <3> QED BY <2>1, <2>2, <2>4, <3>1
  <2> QED BY <2>3, <2>4
<1> QED BY <1>1, Invariance, PTL DEF Spec, AddAfterOnlySooner

-----------------------------------------------------------------------------
(* The work queue implements DedupQueue. *)

Wanted == dirty \cup {k \in Keys : delayed[k] # NoDeadline}

(* Each step of the queue is a step of DedupQueue or leaves it alone: add()  *)
(* and add_after() are requests, the pop in get() is a hand-out of a key     *)
(* that is wanted and free, done() gives it back, and no other step, in      *)
(* particular no promotion, shutdown or re-queueing, drops a wanted key.     *)
LEMMA StepRefines ==
    ASSUME IInv, IInv', [Next]_vars
    PROVE  \/ Promise!Next
           \/ Wanted' = Wanted /\ key' = key
<1> USE DEF IInv
<1>1. ASSUME NEW k \in Keys, Add(k)
      PROVE  key' = key /\ (Wanted' = Wanted \/ Wanted' = Wanted \cup {k})
  <2>1. CASE shutdown \/ k \in dirty
    BY <1>1, <2>1 DEF Add, Wanted
  <2>2. CASE ~(shutdown \/ k \in dirty)
    <3>1. /\ key' = key /\ dirty' = dirty \cup {k}
          /\ delayed' = delayed \/ delayed' = [delayed EXCEPT ![k] = NoDeadline]
      BY <1>1, <2>2 DEF Add, AddNew
    <3> QED BY <3>1 DEF Wanted, TypeOK
  <2> QED BY <2>1, <2>2
<1>2. ASSUME NEW w \in Workers, GetTake(w)
      PROVE  \/ Wanted' = Wanted /\ key' = key
             \/ \E k \in Keys : Promise!Take(w, k)
  <2>1. PICK s \in Orders(Promoted) :
          IF queue \o s # <<>>
          THEN PopHead(w, queue \o s, dirty \cup Due)
          ELSE /\ dirty' = dirty \cup Due
               /\ UNCHANGED <<queue, processing, age, key, asked>>
    BY <1>2 DEF GetTake
  <2>2. /\ pc[w] = "check"
        /\ delayed' = [k \in Keys |-> IF k \in Due THEN NoDeadline ELSE delayed[k]]
    BY <1>2 DEF GetTake
  <2>3. /\ Due \subseteq {k \in Keys : delayed[k] # NoDeadline}
        /\ {k \in Keys : delayed'[k] # NoDeadline}
             = {k \in Keys : delayed[k] # NoDeadline} \ Due
    BY <2>2 DEF Due, NoDeadline
  <2>4. CASE queue \o s = <<>>
    BY <2>1, <2>3, <2>4 DEF Wanted
  <2>5. CASE queue \o s # <<>>
    <3> DEFINE q == queue \o s
    <3>1. q \in Seq(Keys) /\ RangeOf(q) \subseteq (dirty \cup Due) \ processing
      <4>1. Promoted \in SUBSET Keys
        BY DEF Promoted, Due
      <4>2. s \in Seq(Keys) /\ RangeOf(s) = Promoted
        BY <4>1, OrderFacts
      <4>3. RangeOf(q) = RangeOf(queue) \cup Promoted
        BY <4>2, ConcatFacts DEF TypeOK
      <4> QED BY <4>2, <4>3, ConcatFacts DEF TypeOK, DirtySplit, Promoted
    <3>2. Head(q) \in Keys /\ Head(q) \in RangeOf(q)
      BY <2>5, <3>1, TailFacts
    <3>3. PICK h \in Keys : h = Head(q)
      BY <3>2
    <3>4. /\ key' = [key EXCEPT ![w] = h]
          /\ dirty' = (dirty \cup Due) \ {h}
          /\ h \in (dirty \cup Due) \ processing
      BY <2>1, <2>5, <3>1, <3>2, <3>3 DEF PopHead
    <3> HIDE DEF q
    <3>5. key[w] = None
      BY <2>2 DEF Locals, Holding
    <3>6. \A v \in Workers : key[v] # h
      BY <3>4, KeyAssumption DEF ExclusiveKeys
    <3>7. h \in Wanted /\ Wanted' \in {Wanted, Wanted \ {h}}
      <4>1. CASE h \in {k \in Keys : delayed'[k] # NoDeadline}
        BY <2>3, <3>4, <4>1 DEF Wanted
      <4>2. CASE h \notin {k \in Keys : delayed'[k] # NoDeadline}
        BY <2>3, <3>4, <4>2 DEF Wanted
      <4> QED BY <4>1, <4>2
    <3>8. Promise!Take(w, h)
      BY <3>4, <3>5, <3>6, <3>7 DEF Promise!Take, Wanted
    <3> QED BY <3>8
  <2> QED BY <2>4, <2>5
<1>3. ASSUME NEW w \in Workers, AddAfter(w)
      PROVE  key[w] \in Keys /\ key' = key
             /\ (Wanted' = Wanted \/ Wanted' = Wanted \cup {key[w]})
  <2>1. key[w] \in Keys /\ wait[w] # NoDeadline
    BY <1>3 DEF AddAfter, Locals, Holding, TypeOK
  <2>2. /\ dirty' = dirty /\ key' = key
        /\ delayed' = delayed \/ delayed' = [delayed EXCEPT ![key[w]] = wait[w]]
    BY <1>3 DEF AddAfter
  <2> QED BY <2>1, <2>2 DEF Wanted, TypeOK
<1>4. ASSUME NEW w \in Workers, Done(w)
      PROVE  Promise!Finish(w)
  <2>1. key[w] # None /\ key[w] \in Keys
    BY <1>4 DEF Done, Locals, Holding, TypeOK
  <2>2. key' = [key EXCEPT ![w] = None]
    BY <1>4 DEF Done
  <2>3. Wanted' = Wanted
    <3>1. CASE UNCHANGED <<dirty, delayed>>
      BY <3>1 DEF Wanted
    <3>2. CASE ~UNCHANGED <<dirty, delayed>>
      <4> DEFINE r == MinReprocess - age[key[w]]
      <4>1. /\ key[w] \in dirty /\ dirty' = dirty \ {key[w]}
            /\ delayed' = [delayed EXCEPT ![key[w]] = r]
            /\ age[key[w]] < MinReprocess
        BY <1>4, <3>2 DEF Done
      <4>2. r # NoDeadline
        BY <2>1, <4>1, DelayAssumption DEF TypeOK, NoDeadline
      <4> HIDE DEF r
      <4> QED BY <2>1, <4>1, <4>2 DEF Wanted, TypeOK
    <3> QED BY <3>1, <3>2
  <2> QED BY <2>1, <2>2, <2>3 DEF Promise!Finish, Wanted
<1>5. ASSUME NEW w \in Workers, (Get(w) /\ ~GetTake(w)) \/ Reconcile(w)
      PROVE  Wanted' = Wanted /\ key' = key
  BY <1>5 DEF Get, GetDrained, GetPeek, GetPark, GetTimer, GetNotified,
              GetTimerNotified, Reconcile, Skip, Forget, RequeueRateLimited, Wanted
<1>6. ASSUME Shutdown \/ UNCHANGED vars
      PROVE  Wanted' = Wanted /\ key' = key
  BY <1>6 DEF Shutdown, vars, Wanted
<1>7. ASSUME Tick
      PROVE  Wanted' = Wanted /\ key' = key
  <2>1. \A d \in Deadline : CountDown(d) = NoDeadline <=> d = NoDeadline
    BY DelayAssumption DEF Deadline, NoDeadline, CountDown
  <2> QED BY <1>7, <2>1 DEF Tick, Wanted, TypeOK
<1>8. \A k \in Keys : key' = key /\ Wanted' = Wanted \cup {k} => Promise!Request(k)
  BY DEF Promise!Request, Wanted
<1>9. \/ \E k \in Keys : Promise!Request(k)
      \/ \E w \in Workers : Promise!Finish(w) \/ \E k \in Keys : Promise!Take(w, k)
      \/ Wanted' = Wanted /\ key' = key
  <2>1. ASSUME NEW w \in Workers, Worker(w)
        PROVE  \/ \E k \in Keys : Promise!Request(k)
               \/ Promise!Finish(w) \/ \E k \in Keys : Promise!Take(w, k)
               \/ Wanted' = Wanted /\ key' = key
    <3>1. CASE GetTake(w)
      BY <1>2, <3>1
    <3>2. CASE (Get(w) /\ ~GetTake(w)) \/ Reconcile(w)
      BY <1>5, <3>2
    <3>3. CASE AddAfter(w)
      BY <1>3, <1>8, <3>3
    <3>4. CASE Done(w)
      BY <1>4, <3>4
    <3> QED BY <2>1, <3>1, <3>2, <3>3, <3>4 DEF Worker, Get
  <2>2. CASE \E k \in Keys : Add(k)
    BY <1>1, <1>8, <2>2
  <2> QED BY <1>6, <1>7, <2>1, <2>2 DEF Next
<1> QED BY <1>9 DEF Promise!Next

(* The work queue keeps the promise of DedupQueue: exclusive hand-outs, and  *)
(* a key stops being wanted only by being handed to a worker.                *)
THEOREM Refinement == Spec => ImplementsDedupQueue
<1>1. Init => Promise!Init
  BY DEF Init, Promise!Init
<1>2. IInv /\ IInv' /\ [Next]_vars
        => [Promise!Next]_<<dirty \cup {k \in Keys : delayed[k] # NoDeadline}, key>>
  BY StepRefines DEF Wanted
<1> QED BY <1>1, <1>2, Invariance, PTL DEF Spec, ImplementsDedupQueue, Promise!Spec

=============================================================================
