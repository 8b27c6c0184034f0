-------------------------- MODULE WatchCacheProofs --------------------------
(***************************************************************************)
(* Proofs about WatchCache, for any number of clients and revisions, any   *)
(* capacities and any faults, where an object's own resourceVersion is the *)
(* first of its JSON (References = FALSE): extract_rv then gives an event  *)
(* the store revision it was committed at.                                 *)
(***************************************************************************)
EXTENDS WatchCache, FiniteSetTheorems, WellFoundedInduction, TLAPS

-----------------------------------------------------------------------------
(* The inductive invariant. *)

Up(s) == \A i, j \in 1..Len(s) : i < j => s[i] < s[j]

(* extract_rv is the store revision. *)
LogOK == \A e \in 1..Tip : log[e] \in {0, e}

(* Nothing has happened to the prefix. *)
Fresh == floor = NoFloor /\ ring = <<>> /\ pos = 1 /\ resume = 0

(* Where the shared watch stands: the resume point is right before the next  *)
(* event, and the event being dispatched right before that.                  *)
LoopOK ==
    /\ pos <= Tip + 1 /\ floor < pos
    /\ resume # 0 => pos = resume + 1
    /\ loop \in {"dispatch", "blocked"} => cur = pos - 1 /\ cur \in Ours
    /\ loop \notin {"dispatch", "blocked"} => cur = 0
    /\ loop # "blocked" => blocked = {}
    /\ loop = "absent" => Fresh
    /\ floor = NoFloor => ring = <<>> /\ loop \in {"absent", "boot"}

(* One request at a time starts the shared watch. *)
BootOK ==
    \A c \in Clients : stage[c] \in Booting =>
        /\ loop = "boot"
        /\ stage[c] = "boot" => Fresh
        /\ stage[c] = "connect" => floor # NoFloor
        /\ \A d \in Clients : stage[d] \in Booting => d = c

RingOK ==
    /\ Up(ring)
    /\ \A e \in Range(ring) : e \in Ours /\ floor < e /\ e < pos

(* What a client watch has by the stage it is in. *)
ClientOK(c) ==
    /\ stage[c] = "idle" => queue[c] = <<>> /\ c \notin stopped /\ c \notin blocked
    /\ stage[c] # "serving" => sent[c] = <<>> /\ seen[c] = 0 /\ ~covered[c]
    /\ stage[c] \in {"check", "backfill", "replay", "read"} => since[c] # 0
    /\ since[c] <= Tip /\ seen[c] <= Tip
    /\ seen[c] # 0 => since[c] <= seen[c]
    /\ covered[c] => floor # NoFloor
    /\ c \in blocked => c \notin stopped

(* The client's queue has still to be given the event being dispatched. *)
Owed(c) == loop = "dispatch" \/ c \in blocked

(* The queue and what was sent are in revision order; an event in both, or   *)
(* sent and still owed, is one that max_seen skips.                          *)
QueueOK(c) ==
    /\ Up(queue[c])
    /\ \A e \in Range(queue[c]) : e \in Ours /\ e < pos /\ (Owed(c) => e < cur)

SentOK(c) ==
    /\ Up(sent[c])
    /\ \A e \in Range(sent[c]) :
          /\ e \in Ours /\ e < pos /\ since[c] < e
          /\ Owed(c) => e < cur \/ e <= seen[c]
          /\ \A d \in Range(queue[c]) : e < d \/ e <= seen[c]

(* A covered watch was sent everything up to max_seen, and has been sent or  *)
(* has in its queue everything that was dispatched to it.                    *)
CoverOK(c) ==
    covered[c] =>
        /\ \A e \in Ours : since[c] < e /\ e <= seen[c] /\ e \notin lost => e \in Range(sent[c])
        /\ c \notin stopped =>
              \A e \in Ours :
                  since[c] < e /\ e < pos /\ e \notin lost /\ (Owed(c) => e # cur)
                      => e \in Range(sent[c]) \cup Range(queue[c])

ClientsOK == \A c \in Clients : ClientOK(c) /\ QueueOK(c) /\ SentOK(c) /\ CoverOK(c)

IInv == TypeOK /\ LogOK /\ LoopOK /\ BootOK /\ RingOK /\ RingCovers /\ ClientsOK

-----------------------------------------------------------------------------
(* Sequences of revisions. *)

Revs == 1..MaxRev

LEMMA RevFacts ==
    /\ MaxRev \in Nat \ {0} /\ Revs \subseteq Nat
    /\ \A S \in SUBSET Revs : IsFiniteSet(S) /\ Cardinality(S) \in Nat
<1>1. MaxRev \in Nat \ {0} /\ Revs \subseteq Nat
  BY SizeAssumption DEF Revs
<1>2. IsFiniteSet(Revs)
  BY <1>1, FS_Interval DEF Revs
<1>3. ASSUME NEW S \in SUBSET Revs PROVE IsFiniteSet(S) /\ Cardinality(S) \in Nat
  BY <1>2, FS_Subset, FS_CardinalityType
<1> QED BY <1>1, <1>3

LEMMA RangeFacts ==
    ASSUME NEW S, NEW s \in Seq(S)
    PROVE  /\ Len(s) \in Nat
           /\ \A i \in 1..Len(s) : s[i] \in S /\ s[i] \in Range(s)
           /\ \A x \in Range(s) : x \in S /\ \E i \in 1..Len(s) : s[i] = x
<1>1. DOMAIN s = 1..Len(s) /\ Len(s) \in Nat
  OBVIOUS
<1>2. \A i \in 1..Len(s) : s[i] \in S
  OBVIOUS
<1> QED BY <1>1, <1>2 DEF Range

LEMMA EmptyFacts ==
    Range(<<>>) = {} /\ Up(<<>>)
BY DEF Range, Up

(* An event after all the others. *)
LEMMA AppendFacts ==
    ASSUME NEW s \in Seq(Revs), NEW x \in Revs
    PROVE  /\ Append(s, x) \in Seq(Revs) /\ Len(Append(s, x)) = Len(s) + 1
           /\ Range(Append(s, x)) = Range(s) \cup {x}
           /\ Append(s, x)[Len(s) + 1] = x
           /\ \A i \in 1..Len(s) : Append(s, x)[i] = s[i]
           /\ Up(s) /\ (\A y \in Range(s) : y < x) => Up(Append(s, x))
<1> DEFINE t == Append(s, x)
<1>1. /\ Len(s) \in Nat /\ t \in Seq(Revs) /\ Len(t) = Len(s) + 1 /\ t[Len(s) + 1] = x
      /\ \A i \in 1..Len(s) : t[i] = s[i]
  OBVIOUS
<1> HIDE DEF t
<1>2. Range(t) = Range(s) \cup {x}
  <2>1. ASSUME NEW y \in Range(t) PROVE y \in Range(s) \cup {x}
    <3>1. PICK i \in 1..Len(t) : t[i] = y
      BY <1>1, RangeFacts
    <3>2. CASE i = Len(s) + 1
      BY <1>1, <3>1, <3>2
    <3>3. CASE i # Len(s) + 1
      <4>1. i \in 1..Len(s)
        BY <1>1, <3>3
      <4> QED BY <1>1, <3>1, <4>1, RangeFacts
    <3> QED BY <3>2, <3>3
  <2>2. ASSUME NEW y \in Range(s) PROVE y \in Range(t)
    <3>1. PICK i \in 1..Len(s) : s[i] = y
      BY RangeFacts
    <3>2. i \in 1..Len(t) /\ t[i] = y
      BY <1>1, <3>1
    <3> QED BY <1>1, <3>2, RangeFacts
  <2>3. x \in Range(t)
    <3>1. Len(s) + 1 \in 1..Len(t)
      BY <1>1
    <3> QED BY <1>1, <3>1, RangeFacts
  <2> QED BY <2>1, <2>2, <2>3
<1>3. ASSUME Up(s), \A y \in Range(s) : y < x PROVE Up(t)
  <2> SUFFICES ASSUME NEW i \in 1..Len(t), NEW j \in 1..Len(t), i < j PROVE t[i] < t[j]
    BY DEF Up
  <2>1. i \in 1..Len(s)
    BY <1>1
  <2>2. CASE j = Len(s) + 1
    BY <1>1, <1>3, <2>1, <2>2, RangeFacts
  <2>3. CASE j # Len(s) + 1
    <3>1. j \in 1..Len(s)
      BY <1>1, <2>3
    <3> QED BY <1>1, <1>3, <2>1, <3>1 DEF Up
  <2> QED BY <2>2, <2>3
<1> QED BY <1>1, <1>2, <1>3 DEF t

(* The first n events leave. *)
LEMMA DropFacts ==
    ASSUME NEW s \in Seq(Revs), NEW n \in 0..Len(s), Up(s)
    PROVE  LET t == SubSeq(s, n + 1, Len(s))
           IN  /\ t \in Seq(Revs) /\ Len(t) = Len(s) - n /\ Up(t)
               /\ Range(t) \subseteq Range(s)
               /\ n > 0 => s[n] \in Range(s)
               /\ \A x \in Range(t) : n > 0 => s[n] < x
               /\ \A x \in Range(s) \ Range(t) : n > 0 /\ x <= s[n]
<1> DEFINE t == SubSeq(s, n + 1, Len(s))
<1>0. Len(s) \in Nat /\ n \in Nat /\ n <= Len(s)
  OBVIOUS
<1>1. /\ t \in Seq(Revs) /\ Len(t) = Len(s) - n
      /\ \A i \in 1..(Len(s) - n) : t[i] = s[n + i]
  BY <1>0
<1> HIDE DEF t
<1>2. \A i \in 1..Len(s) : s[i] \in Nat /\ s[i] \in Range(s)
  BY RangeFacts, RevFacts
<1>3. ASSUME NEW i \in 1..Len(t) PROVE n + i \in 1..Len(s) /\ t[i] = s[n + i]
  BY <1>0, <1>1
<1>4. Up(t)
  <2> SUFFICES ASSUME NEW i \in 1..Len(t), NEW j \in 1..Len(t), i < j PROVE t[i] < t[j]
    BY DEF Up
  <2>1. n + i < n + j
    BY <1>0
  <2> QED BY <1>3, <2>1 DEF Up
<1>5. ASSUME NEW x \in Range(t) PROVE x \in Range(s) /\ (n > 0 => s[n] < x)
  <2>1. PICK i \in 1..Len(t) : t[i] = x
    BY <1>1, RangeFacts
  <2>2. n + i \in 1..Len(s) /\ x = s[n + i]
    BY <1>3, <2>1
  <2>3. n > 0 => n \in 1..Len(s) /\ n < n + i
    BY <1>0, <2>2
  <2> QED BY <1>2, <2>2, <2>3 DEF Up
<1>6. ASSUME NEW x \in Range(s) \ Range(t) PROVE n > 0 /\ x <= s[n]
  <2>1. PICK i \in 1..Len(s) : s[i] = x
    BY RangeFacts
  <2>2. CASE i > n
    <3>1. i - n \in 1..Len(t) /\ t[i - n] = s[n + (i - n)]
      BY <1>0, <1>1, <2>2
    <3>2. t[i - n] = x
      BY <1>0, <2>1, <3>1
    <3> QED BY <1>1, <1>6, <3>1, <3>2, RangeFacts
  <2>3. CASE i <= n
    <3>1. n \in 1..Len(s) /\ i \in Nat /\ n > 0
      BY <1>0, <2>3
    <3>2. i = n \/ i < n
      BY <2>3, <3>1
    <3>3. s[i] <= s[n]
      BY <1>2, <3>1, <3>2 DEF Up
    <3> QED BY <2>1, <3>1, <3>3
  <2> QED BY <1>0, <2>2, <2>3
<1>7. n > 0 => s[n] \in Range(s)
  BY <1>0, <1>2
<1> QED BY <1>1, <1>4, <1>5, <1>6, <1>7 DEF t

(* The first event leaves. *)
LEMMA TailFacts ==
    ASSUME NEW s \in Seq(Revs), s # <<>>, Up(s)
    PROVE  /\ Tail(s) \in Seq(Revs) /\ Len(Tail(s)) = Len(s) - 1 /\ Up(Tail(s))
           /\ Head(s) \in Revs /\ Range(s) = Range(Tail(s)) \cup {Head(s)}
           /\ \A x \in Range(Tail(s)) : Head(s) < x
<1> DEFINE t == Tail(s)
<1>1. Len(s) \in Nat \ {0} /\ Head(s) = s[1] /\ 1 \in 0..Len(s) /\ 1 \in 1..Len(s)
  OBVIOUS
<1>2. PICK n \in 0..Len(s) : n = 1 /\ t = SubSeq(s, n + 1, Len(s))
  BY <1>1
<1> HIDE DEF t
<1>3. /\ t \in Seq(Revs) /\ Len(t) = Len(s) - n /\ Up(t)
      /\ Range(t) \subseteq Range(s)
      /\ n > 0 => s[n] \in Range(s)
      /\ \A x \in Range(t) : n > 0 => s[n] < x
      /\ \A x \in Range(s) \ Range(t) : n > 0 /\ x <= s[n]
  BY <1>2, DropFacts, Zenon
<1>4. ASSUME NEW i \in 1..Len(s) PROVE s[i] \in Nat /\ s[1] <= s[i]
  <2>1. s[i] \in Nat /\ s[1] \in Nat
    BY <1>1, RangeFacts, RevFacts
  <2>2. i = 1 \/ 1 < i
    BY <1>1
  <2> QED BY <1>1, <2>1, <2>2 DEF Up
<1>5. ASSUME NEW x \in Range(s) \ Range(t) PROVE x = s[1]
  <2>1. PICK i \in 1..Len(s) : s[i] = x
    BY RangeFacts
  <2> QED BY <1>1, <1>2, <1>3, <1>4, <2>1
<1>6. s[1] \in Revs /\ s[1] \in Range(s)
  BY <1>1, RangeFacts
<1>7. Range(s) = Range(t) \cup {s[1]} /\ \A x \in Range(t) : s[1] < x
  BY <1>2, <1>3, <1>5, <1>6
<1> QED BY <1>1, <1>2, <1>3, <1>6, <1>7 DEF t

(* Events before the others. *)
LEMMA ConcatFacts ==
    ASSUME NEW s \in Seq(Revs), NEW t \in Seq(Revs), Up(s), Up(t),
           \A x \in Range(s), y \in Range(t) : x < y
    PROVE  /\ s \o t \in Seq(Revs) /\ Len(s \o t) = Len(s) + Len(t) /\ Up(s \o t)
           /\ Range(s \o t) = Range(s) \cup Range(t)
<1> DEFINE u == s \o t
<1>1. /\ Len(s) \in Nat /\ Len(t) \in Nat /\ u \in Seq(Revs) /\ Len(u) = Len(s) + Len(t)
      /\ \A i \in 1..Len(u) : u[i] = IF i <= Len(s) THEN s[i] ELSE t[i - Len(s)]
  OBVIOUS
<1> HIDE DEF u
<1>2. ASSUME NEW i \in 1..Len(u)
      PROVE  \/ i \in 1..Len(s) /\ u[i] = s[i] /\ u[i] \in Range(s)
             \/ i > Len(s) /\ i - Len(s) \in 1..Len(t) /\ u[i] = t[i - Len(s)] /\ u[i] \in Range(t)
  <2>1. CASE i <= Len(s)
    BY <1>1, <2>1, RangeFacts
  <2>2. CASE i > Len(s)
    <3>1. i - Len(s) \in 1..Len(t) /\ u[i] = t[i - Len(s)]
      BY <1>1, <2>2
    <3> QED BY <2>2, <3>1, RangeFacts
  <2> QED BY <1>1, <2>1, <2>2
<1>3. Up(u)
  <2> SUFFICES ASSUME NEW i \in 1..Len(u), NEW j \in 1..Len(u), i < j PROVE u[i] < u[j]
    BY DEF Up
  <2>1. CASE j \in 1..Len(s)
    BY <1>1, <1>2, <2>1 DEF Up
  <2>2. CASE i > Len(s)
    <3>1. j > Len(s) /\ i - Len(s) < j - Len(s)
      BY <1>1, <2>2
    <3>2. /\ i - Len(s) \in 1..Len(t) /\ u[i] = t[i - Len(s)]
          /\ j - Len(s) \in 1..Len(t) /\ u[j] = t[j - Len(s)]
      BY <1>1, <1>2, <2>2, <3>1
    <3> QED BY <3>1, <3>2 DEF Up
  <2>3. CASE i \in 1..Len(s) /\ j > Len(s)
    BY <1>1, <1>2, <2>3
  <2> QED BY <1>1, <2>1, <2>2, <2>3
<1>4. ASSUME NEW x \in Range(u) PROVE x \in Range(s) \cup Range(t)
  <2>1. PICK i \in 1..Len(u) : u[i] = x
    BY <1>1, RangeFacts
  <2> QED BY <1>2, <2>1
<1>5. ASSUME NEW x \in Range(s) PROVE x \in Range(u)
  <2>1. PICK i \in 1..Len(s) : s[i] = x
    BY RangeFacts
  <2>2. i \in 1..Len(u) /\ u[i] = x
    BY <1>1, <2>1
  <2> QED BY <1>1, <2>2, RangeFacts
<1>6. ASSUME NEW x \in Range(t) PROVE x \in Range(u)
  <2>1. PICK i \in 1..Len(t) : t[i] = x
    BY RangeFacts
  <2>2. /\ i + Len(s) \in 1..Len(u) /\ ~(i + Len(s) <= Len(s))
        /\ (i + Len(s)) - Len(s) = i
    BY <1>1
  <2>3. u[i + Len(s)] = x
    BY <1>1, <2>1, <2>2
  <2> QED BY <1>1, <2>2, <2>3, RangeFacts
<1> QED BY <1>1, <1>3, <1>4, <1>5, <1>6 DEF u


-----------------------------------------------------------------------------
(* Sets of numbers. *)

(* A set of numbers up to N has a greatest one. *)
LEMMA GreatestFacts ==
    ASSUME NEW N \in Nat, NEW S \in SUBSET (0..N), S # {}
    PROVE  \E x \in S : \A y \in S : x >= y
<1> DEFINE T == {N - x : x \in S}
           Less == OpToRel(<, Nat)
<1>1. T # {} /\ T \subseteq Nat
  OBVIOUS
<1>2. IsWellFoundedOn(Less, Nat)
  BY NatLessThanWellFounded
<1>3. \A x, y \in Nat : x < y => <<x, y>> \in Less
  BY DEF OpToRel
<1>4. \A x \in S : N - x \in T /\ N - x \in Nat /\ x \in Nat
  OBVIOUS
<1>5. \A t \in T : \E x \in S : t = N - x
  OBVIOUS
<1> HIDE DEF T, Less
<1>6. PICK t \in T : \A y \in T : ~(<<y, t>> \in Less)
  BY <1>1, <1>2, WFMin
<1>7. PICK x \in S : t = N - x
  BY <1>5
<1>8. ASSUME NEW y \in S PROVE x >= y
  <2>1. ~(N - y < t)
    BY <1>1, <1>3, <1>4, <1>6
  <2> QED BY <1>4, <1>7, <2>1
<1> QED BY <1>8

LEMMA MaxFacts ==
    ASSUME NEW N \in Nat, NEW S \in SUBSET (0..N), S # {}
    PROVE  Max(S) \in S /\ \A y \in S : Max(S) >= y
<1>1. \E x \in S : \A y \in S : x >= y
  BY GreatestFacts
<1> QED BY <1>1 DEF Max

(* A set of numbers has a least one. *)
LEMMA MinFacts ==
    ASSUME NEW S \in SUBSET Nat, S # {}
    PROVE  Min(S) \in S /\ \A y \in S : Min(S) <= y
<1> DEFINE Less == OpToRel(<, Nat)
<1>1. IsWellFoundedOn(Less, Nat)
  BY NatLessThanWellFounded
<1>2. \A x, y \in Nat : x < y => <<x, y>> \in Less
  BY DEF OpToRel
<1> HIDE DEF Less
<1>3. PICK x \in S : \A y \in S : ~(<<y, x>> \in Less)
  BY <1>1, WFMin
<1>4. ASSUME NEW y \in S PROVE x <= y
  <2>1. x \in Nat /\ y \in Nat /\ ~(y < x)
    BY <1>2, <1>3
  <2> QED BY <2>1
<1>5. \E z \in S : \A y \in S : z <= y
  BY <1>4
<1> QED BY <1>5 DEF Min

(* A finite set of numbers can be put in order: if one could not, take one   *)
(* of the least size, and put its greatest number at the end of the rest.    *)
Increasing(S) ==
    {q \in [1..Cardinality(S) -> S] :
        Range(q) = S /\ \A i, j \in 1..Cardinality(S) : i < j => q[i] < q[j]}

LEMMA OrderFacts ==
    ASSUME NEW N \in Nat, NEW S \in SUBSET (0..N)
    PROVE  Increasing(S) # {}
<1> SUFFICES ASSUME Increasing(S) = {} PROVE FALSE
  OBVIOUS
<1> DEFINE Bad == {T \in SUBSET (0..N) : Increasing(T) = {}}
           Sizes == {Cardinality(T) : T \in Bad}
           Less == OpToRel(<, Nat)
<1>0. \A T \in SUBSET (0..N) : IsFiniteSet(T) /\ Cardinality(T) \in Nat
  <2>1. IsFiniteSet(0..N)
    BY FS_Interval
  <2> QED BY <2>1, FS_Subset, FS_CardinalityType
<1>1. Sizes # {} /\ Sizes \subseteq Nat
  BY <1>0
<1>2. IsWellFoundedOn(Less, Nat)
  BY NatLessThanWellFounded
<1>3. \A x, y \in Nat : x < y => <<x, y>> \in Less
  BY DEF OpToRel
<1>4. \A T \in Bad : T \in SUBSET (0..N) /\ Increasing(T) = {} /\ Cardinality(T) \in Sizes
  OBVIOUS
<1>5. \A n \in Sizes : \E T \in Bad : n = Cardinality(T)
  OBVIOUS
<1>6. \A T \in SUBSET (0..N) : T \notin Bad => Increasing(T) # {}
  OBVIOUS
<1> HIDE DEF Bad, Sizes, Less
<1>7. PICK n \in Sizes : \A m \in Sizes : ~(<<m, n>> \in Less)
  BY <1>1, <1>2, WFMin
<1>8. PICK T \in Bad : n = Cardinality(T)
  BY <1>5
<1>9. T \in SUBSET (0..N) /\ IsFiniteSet(T) /\ n \in Nat /\ Increasing(T) = {}
  BY <1>0, <1>4, <1>8
<1>10. T # {}
  <2> SUFFICES ASSUME T = {} PROVE FALSE
    OBVIOUS
  <2>1. Cardinality(T) = 0
    BY FS_EmptySet
  <2>2. <<>> \in [1..0 -> T] /\ Range(<<>>) = T
    BY EmptyFacts
  <2>3. <<>> \in Increasing(T)
    BY <2>1, <2>2 DEF Increasing
  <2> QED BY <1>9, <2>3
<1>11. PICK x \in T : \A y \in T : x >= y
  BY <1>9, <1>10, GreatestFacts
<1> DEFINE U == T \ {x}
<1>12. /\ U \in SUBSET (0..N) /\ Cardinality(U) = n - 1 /\ n - 1 \in Nat /\ n - 1 < n
       /\ T = U \cup {x} /\ x \notin U /\ \A y \in U : y < x
  <2>1. Cardinality(U) = n - 1
    BY <1>8, <1>9, <1>11, FS_RemoveElement
  <2>2. Cardinality(U) \in Nat
    BY <1>0, <1>9
  <2>3. \A y \in U : y < x
    BY <1>9, <1>11
  <2> QED BY <1>9, <2>1, <2>2, <2>3
<1> HIDE DEF U
<1>13. Increasing(U) # {}
  <2> SUFFICES ASSUME U \in Bad PROVE FALSE
    BY <1>6, <1>12
  <2>1. n - 1 \in Sizes
    BY <1>4, <1>12
  <2> QED BY <1>3, <1>7, <1>9, <1>12, <2>1
<1>14. PICK q \in Increasing(U) : TRUE
  BY <1>13
<1>15. /\ q \in [1..(n - 1) -> U] /\ Range(q) = U
       /\ \A i, j \in 1..(n - 1) : i < j => q[i] < q[j]
  BY <1>12 DEF Increasing
<1> DEFINE p == [i \in 1..n |-> IF i = n THEN x ELSE q[i]]
<1>16. \A i \in 1..n : i # n => i \in 1..(n - 1)
  BY <1>9, <1>12
<1>17. p \in [1..n -> T]
  BY <1>12, <1>15, <1>16
<1>18. \A i, j \in 1..n : i < j => p[i] < p[j]
  <2> SUFFICES ASSUME NEW i \in 1..n, NEW j \in 1..n, i < j PROVE p[i] < p[j]
    OBVIOUS
  <2>1. i # n /\ i \in 1..(n - 1) /\ p[i] = q[i] /\ q[i] \in U
    BY <1>9, <1>15, <1>16
  <2>2. CASE j = n
    BY <1>12, <2>1, <2>2
  <2>3. CASE j # n
    BY <1>15, <1>16, <2>1, <2>3
  <2> QED BY <2>2, <2>3
<1>19. Range(p) = T
  <2>1. ASSUME NEW y \in T PROVE y \in Range(p)
    <3>1. CASE y = x
      <4>1. n \in 1..n /\ p[n] = x
        BY <1>9, <1>12
      <4> QED BY <3>1, <4>1 DEF Range
    <3>2. CASE y # x
      <4>1. y \in Range(q)
        BY <1>12, <1>15, <3>2
      <4>2. PICK i \in 1..(n - 1) : q[i] = y
        BY <1>15, <4>1 DEF Range
      <4>3. i \in 1..n /\ i # n
        BY <1>9, <1>12
      <4>4. p[i] = y
        BY <4>2, <4>3
      <4> QED BY <4>3, <4>4 DEF Range
    <3> QED BY <3>1, <3>2
  <2> QED BY <1>17, <2>1 DEF Range
<1> HIDE DEF p
<1>20. p \in Increasing(T)
  BY <1>8, <1>17, <1>18, <1>19 DEF Increasing
<1> QED BY <1>9, <1>20

-----------------------------------------------------------------------------
(* The operators of the model. *)

LEMMA OursFacts ==
    ASSUME TypeOK, LogOK
    PROVE  /\ Tip \in Revs /\ Ours \subseteq 1..Tip /\ Ours \subseteq Revs
           /\ \A e \in Ours : Rv(e) = e
<1>1. Tip \in Revs /\ MaxRev \in Nat
  BY RevFacts DEF TypeOK, Tip, Revs
<1>2. 1..Tip \subseteq Revs
  BY <1>1 DEF Revs
<1>3. Ours \subseteq 1..Tip
  BY DEF Ours
<1>4. \A e \in Ours : Rv(e) = e
  BY DEF Ours, LogOK, Rv
<1> QED BY <1>1, <1>2, <1>3, <1>4

(* A sequence in revision order. *)
LEMMA AscendingFacts ==
    ASSUME TypeOK, LogOK, NEW s \in Seq(Revs), Up(s), Range(s) \subseteq Ours
    PROVE  Ascending(s)
<1>1. DOMAIN s = 1..Len(s)
  OBVIOUS
<1>2. \A i \in 1..Len(s) : s[i] \in Ours
  BY RangeFacts
<1>3. \A i \in 1..Len(s) : Rv(s[i]) = s[i]
  BY <1>2, OursFacts
<1> QED BY <1>1, <1>3 DEF Ascending, Up

(* The revision order of a set of events. *)
LEMMA InRvOrderFacts ==
    ASSUME TypeOK, LogOK, NEW S \in SUBSET Ours
    PROVE  LET q == InRvOrder(S)
           IN  q \in Seq(Revs) /\ Up(q) /\ Range(q) = S /\ Len(q) = Cardinality(S)
<1>1. S \subseteq Revs /\ S \subseteq 0..MaxRev /\ \A x \in S : x \in Nat /\ Rv(x) = x
  BY OursFacts, RevFacts DEF Revs
<1>2. Cardinality(S) \in Nat
  BY <1>1, RevFacts
<1> DEFINE n == Cardinality(S)
           Good(q) == /\ Range(q) = S
                      /\ \A i, j \in 1..n :
                            i < j => Rv(q[i]) < Rv(q[j]) \/ (Rv(q[i]) = Rv(q[j]) /\ q[i] < q[j])
           q == InRvOrder(S)
<1>3. q = CHOOSE p \in [1..n -> S] : Good(p)
  BY DEF InRvOrder, Sorted
<1>4. PICK p \in Increasing(S) : TRUE
  BY <1>1, RevFacts, OrderFacts
<1>5. p \in [1..n -> S] /\ Range(p) = S /\ \A i, j \in 1..n : i < j => p[i] < p[j]
  BY DEF Increasing
<1>6. \A i \in 1..n : Rv(p[i]) = p[i]
  BY <1>1, <1>5
<1>7. Good(p)
  BY <1>5, <1>6
<1> HIDE DEF Good, q
<1>8. q \in [1..n -> S] /\ Good(q)
  BY <1>3, <1>5, <1>7
<1>9. \A i \in 1..n : q[i] \in S /\ Rv(q[i]) = q[i] /\ q[i] \in Nat
  BY <1>1, <1>8
<1>10. \A i, j \in 1..n : i < j => q[i] < q[j]
  BY <1>8, <1>9 DEF Good
<1>11. q \in Seq(S) /\ Len(q) = n
  BY <1>2, <1>8
<1>12. q \in Seq(Revs)
  <2> HIDE DEF n
  <2>1. q \in [1..n -> Revs]
    BY <1>1, <1>8
  <2> QED BY <1>2, <2>1 DEF n
<1> QED BY <1>8, <1>10, <1>11, <1>12 DEF Good, Up, q

(* What get_events_since returns. *)
LEMMA NewerFacts ==
    ASSUME TypeOK, LogOK, RingOK, NEW r \in Nat
    PROVE  LET q == Newer(r)
           IN  q \in Seq(Revs) /\ Up(q) /\ Range(q) = {x \in Range(ring) : x > r}
<1>1. ring \in Seq(Revs) /\ Len(ring) \in Nat
  BY DEF TypeOK, Revs
<1>2. \A i \in 1..Len(ring) : ring[i] \in Revs /\ ring[i] \in Range(ring) /\ Rv(ring[i]) = ring[i]
  BY <1>1, RangeFacts, OursFacts DEF RingOK
<1> DEFINE I == {i \in 1..Len(ring) : Rv(ring[i]) > r}
           n == Cardinality(I)
           Good(k) == Range(k) = I /\ \A i, j \in 1..n : i < j => k[i] < k[j]
           kept == Sorted(I, LAMBDA i, j : i < j)
           q == Newer(r)
<1>3. kept = CHOOSE k \in [1..n -> I] : Good(k)
  BY DEF Sorted
<1>4. I \in SUBSET (0..Len(ring)) /\ I \subseteq 1..Len(ring)
  BY <1>1
<1>5. n \in Nat
  <2>1. IsFiniteSet(0..Len(ring))
    BY <1>1, FS_Interval
  <2>2. IsFiniteSet(I)
    BY <1>4, <2>1, FS_Subset
  <2> HIDE DEF I
  <2> QED BY <2>2, FS_CardinalityType
<1>6. q = [k \in DOMAIN kept |-> ring[kept[k]]]
  BY DEF Newer
<1>7. \A i \in 1..Len(ring) : i \in I <=> ring[i] > r
  BY <1>2
<1> HIDE DEF I, kept, q
<1>8. PICK p \in Increasing(I) : TRUE
  BY <1>1, <1>4, OrderFacts
<1>9. p \in [1..n -> I] /\ Good(p)
  BY DEF Increasing
<1> HIDE DEF Good
<1>10. kept \in [1..n -> I] /\ Good(kept)
  BY <1>3, <1>9
<1> HIDE DEF n
<1>11. q = [k \in 1..n |-> ring[kept[k]]]
  BY <1>6, <1>10
<1>12. \A k \in 1..n : /\ kept[k] \in I /\ kept[k] \in 1..Len(ring)
                       /\ q[k] = ring[kept[k]] /\ ring[kept[k]] \in Revs
  BY <1>2, <1>4, <1>10, <1>11
<1>13. q \in [1..n -> Revs]
  BY <1>11, <1>12
<1>14. q \in Seq(Revs) /\ Len(q) = n
  BY <1>5, <1>13
<1>15. Up(q)
  <2> SUFFICES ASSUME NEW i \in 1..n, NEW j \in 1..n, i < j PROVE q[i] < q[j]
    BY <1>14 DEF Up
  <2>1. kept[i] < kept[j]
    BY <1>10 DEF Good, n
  <2> QED BY <1>12, <2>1 DEF RingOK, Up
<1>16. ASSUME NEW x \in Range(q) PROVE x \in Range(ring) /\ x > r
  <2>1. PICK k \in 1..n : q[k] = x
    BY <1>14, RangeFacts
  <2> QED BY <1>2, <1>7, <1>12, <2>1
<1>17. ASSUME NEW x \in Range(ring), x > r PROVE x \in Range(q)
  <2>1. PICK i \in 1..Len(ring) : ring[i] = x
    BY <1>1, RangeFacts
  <2>2. i \in I
    BY <1>7, <1>17, <2>1
  <2>3. PICK k \in 1..n : kept[k] = i
    BY <1>10, <2>2 DEF Good, Range
  <2>4. q[k] = x
    BY <1>12, <2>1, <2>3
  <2> QED BY <1>14, <2>4, RangeFacts
<1> QED BY <1>14, <1>15, <1>16, <1>17 DEF q

-----------------------------------------------------------------------------
(* What a step leaves as it was. *)

(* The store, the shared watch and what is lost only move on. *)
Forward ==
    /\ Tip <= Tip' /\ pos <= pos' /\ lost \subseteq lost'
    /\ floor # NoFloor => floor' # NoFloor
    /\ \A e \in 1..Tip : e \in Ours' <=> e \in Ours

(* What the client watch c keeps is as it was. *)
Kept(c) ==
    /\ since'[c] = since[c] /\ queue'[c] = queue[c] /\ sent'[c] = sent[c]
    /\ seen'[c] = seen[c] /\ covered'[c] = covered[c]
    /\ \/ stage'[c] = stage[c]
       \/ /\ stage[c] # "serving" /\ stage'[c] \notin {"idle", "serving"}
          /\ stage'[c] \in {"check", "backfill", "replay", "read"} => since[c] # 0
    /\ c \in blocked' => c \notin stopped' /\ stage[c] # "idle"
    /\ c \in stopped => c \in stopped'
    /\ c \in stopped' => c \in stopped \/ c \in blocked

(* The event that the client watch c is owed is the one it was owed, or a    *)
(* new one, and every event passed since is lost or owed.                    *)
Settled(c) ==
    /\ covered[c] /\ c \notin stopped' /\ Owed(c) => Owed(c)' /\ cur' = cur
    /\ Owed(c)' => (Owed(c) /\ cur' = cur) \/ cur' >= pos
    /\ covered[c] => \A e \in Ours' :
            e < pos' => e < pos \/ e \in lost' \/ (Owed(c)' /\ e = cur')

ClientInv(c) == ClientOK(c) /\ QueueOK(c) /\ SentOK(c) /\ CoverOK(c)

LEMMA ClientFacts ==
    ASSUME IInv, NEW c \in Clients
    PROVE  /\ ClientOK(c) /\ QueueOK(c) /\ SentOK(c) /\ CoverOK(c)
           /\ queue[c] \in Seq(Revs) /\ sent[c] \in Seq(Revs) /\ Len(queue[c]) <= ChanSize
           /\ Len(queue[c]) \in Nat
           /\ since[c] \in Nat /\ seen[c] \in Nat /\ heard[c] \in Nat /\ stage[c] \in Stages
           /\ since[c] <= MaxRev /\ seen[c] <= MaxRev /\ heard[c] <= MaxRev
           /\ covered[c] \in BOOLEAN
           /\ \A e \in Range(queue[c]) : e \in Revs /\ e \in Nat
           /\ \A e \in Range(sent[c]) : e \in Revs /\ e \in Nat
<1>1. /\ queue[c] \in Seq(Revs) /\ sent[c] \in Seq(Revs) /\ Len(queue[c]) <= ChanSize
      /\ Len(queue[c]) \in Nat
      /\ since[c] \in Nat /\ seen[c] \in Nat /\ heard[c] \in Nat /\ stage[c] \in Stages
      /\ since[c] <= MaxRev /\ seen[c] <= MaxRev /\ heard[c] <= MaxRev
      /\ covered[c] \in BOOLEAN
  BY RevFacts DEF IInv, TypeOK, Revs
<1>2. ClientOK(c) /\ QueueOK(c) /\ SentOK(c) /\ CoverOK(c)
  BY DEF IInv, ClientsOK
<1>3. /\ \A e \in Range(queue[c]) : e \in Revs /\ e \in Nat
      /\ \A e \in Range(sent[c]) : e \in Revs /\ e \in Nat
  BY <1>1, RangeFacts, RevFacts
<1> QED BY <1>1, <1>2, <1>3

LEMMA StateFacts ==
    ASSUME IInv
    PROVE  /\ TypeOK /\ LogOK /\ LoopOK /\ BootOK /\ RingOK /\ RingCovers
           /\ Tip \in Revs /\ Tip \in Nat /\ Ours \subseteq 1..Tip /\ Ours \subseteq Revs
           /\ \A e \in Ours : Rv(e) = e /\ e \in Nat /\ e > 0
           /\ ring \in Seq(Revs) /\ Len(ring) \in Nat
           /\ \A e \in Range(ring) : e \in Revs
           /\ pos \in Nat \ {0} /\ resume \in Nat /\ resume <= MaxRev /\ cur \in Nat
           /\ floor \in Int /\ floor >= -1 /\ (floor = NoFloor \/ floor \in Nat)
           /\ cap \in Nat /\ MaxRev \in Nat \ {0} /\ UpperCap \in Nat /\ LowerCap \in Nat \ {0}
           /\ compacted \in Nat
<1>1. TypeOK /\ LogOK /\ LoopOK /\ BootOK /\ RingOK /\ RingCovers
  BY DEF IInv
<1>2. Tip \in Revs /\ Ours \subseteq 1..Tip /\ Ours \subseteq Revs /\ \A e \in Ours : Rv(e) = e
  BY <1>1, OursFacts
<1>3. ring \in Seq(Revs) /\ Len(ring) \in Nat
  BY <1>1 DEF TypeOK, Revs
<1>4. \A e \in Range(ring) : e \in Revs
  BY <1>3, RangeFacts
<1>5. /\ pos \in Nat \ {0} /\ resume \in Nat /\ resume <= MaxRev /\ cur \in Nat
      /\ floor \in Int /\ floor >= -1 /\ (floor = NoFloor \/ floor \in Nat)
      /\ cap \in Nat /\ MaxRev \in Nat \ {0} /\ UpperCap \in Nat /\ LowerCap \in Nat \ {0}
      /\ compacted \in Nat
  BY <1>1, RevFacts, SizeAssumption DEF TypeOK, NoFloor
<1>6. Tip \in Nat /\ \A e \in Ours : e \in Nat /\ e > 0
  BY <1>2, RevFacts DEF Revs
<1> QED BY <1>1, <1>2, <1>3, <1>4, <1>5, <1>6

(* A client watch that the step does not touch. *)
LEMMA ClientKept ==
    ASSUME IInv, NEW c \in Clients, Forward, Kept(c), Settled(c), pos' \in Nat, Tip' \in Nat,
           cur' \in Nat
    PROVE  ClientInv(c)'
<1>1. /\ ClientOK(c) /\ QueueOK(c) /\ SentOK(c) /\ CoverOK(c)
      /\ since[c] \in Nat /\ seen[c] \in Nat
      /\ \A e \in Range(queue[c]) : e \in Nat
      /\ \A e \in Range(sent[c]) : e \in Nat
  BY ClientFacts
<1>2. Ours \subseteq 1..Tip /\ Tip \in Nat /\ pos \in Nat /\ cur \in Nat
  BY StateFacts
<1>3. /\ since'[c] = since[c] /\ queue'[c] = queue[c] /\ sent'[c] = sent[c]
      /\ seen'[c] = seen[c] /\ covered'[c] = covered[c]
  BY DEF Kept
<1>4. /\ Tip <= Tip' /\ pos <= pos' /\ lost \subseteq lost'
      /\ \A e \in Ours : e \in Ours'
      /\ \A e \in 1..Tip : e \in Ours' => e \in Ours
  BY <1>2 DEF Forward
<1>5. ClientOK(c)'
  <2>1. stage'[c] = "idle" => queue'[c] = <<>> /\ c \notin stopped' /\ c \notin blocked'
    BY <1>1, <1>3 DEF ClientOK, Kept
  <2>2. stage'[c] # "serving" => sent'[c] = <<>> /\ seen'[c] = 0 /\ ~covered'[c]
    BY <1>1, <1>3 DEF ClientOK, Kept
  <2>3. stage'[c] \in {"check", "backfill", "replay", "read"} => since'[c] # 0
    BY <1>1, <1>3 DEF ClientOK, Kept
  <2>4. since'[c] <= Tip' /\ seen'[c] <= Tip'
    BY <1>1, <1>2, <1>3, <1>4 DEF ClientOK
  <2>5. seen'[c] # 0 => since'[c] <= seen'[c]
    BY <1>1, <1>3 DEF ClientOK
  <2>6. covered'[c] => floor' # NoFloor
    BY <1>1, <1>3 DEF ClientOK, Forward
  <2>7. c \in blocked' => c \notin stopped'
    BY DEF Kept
  <2> QED BY <2>1, <2>2, <2>3, <2>4, <2>5, <2>6, <2>7 DEF ClientOK, NoFloor
<1>6. QueueOK(c)'
  <2>1. ASSUME NEW e \in Range(queue[c]) PROVE e \in Ours' /\ e < pos' /\ (Owed(c)' => e < cur')
    <3>1. e \in Ours /\ e < pos /\ (Owed(c) => e < cur) /\ e \in Nat
      BY <1>1 DEF QueueOK
    <3> QED BY <1>2, <1>4, <3>1 DEF Settled
  <2> QED BY <1>1, <1>3, <2>1 DEF QueueOK, Up
<1>7. SentOK(c)'
  <2>1. ASSUME NEW e \in Range(sent[c])
        PROVE  /\ e \in Ours' /\ e < pos' /\ since'[c] < e
               /\ Owed(c)' => e < cur' \/ e <= seen'[c]
               /\ \A d \in Range(queue[c]) : e < d \/ e <= seen'[c]
    <3>1. /\ e \in Ours /\ e < pos /\ since[c] < e /\ e \in Nat
          /\ Owed(c) => e < cur \/ e <= seen[c]
          /\ \A d \in Range(queue[c]) : e < d \/ e <= seen[c]
      BY <1>1 DEF SentOK
    <3> QED BY <1>2, <1>3, <1>4, <3>1 DEF Settled
  <2> QED BY <1>1, <1>3, <2>1 DEF SentOK, Up
<1>8. CoverOK(c)'
  <2> SUFFICES ASSUME covered[c]
               PROVE  /\ \A e \in Ours' : since[c] < e /\ e <= seen[c] /\ e \notin lost'
                                => e \in Range(sent[c])
                      /\ c \notin stopped' =>
                            \A e \in Ours' :
                                since[c] < e /\ e < pos' /\ e \notin lost' /\ (Owed(c)' => e # cur')
                                    => e \in Range(sent[c]) \cup Range(queue[c])
    BY <1>3 DEF CoverOK
  <2>1. \A e \in Ours' : e \in 1..Tip'
    BY DEF Ours
  <2>2. ASSUME NEW e \in Ours', since[c] < e, e <= seen[c], e \notin lost'
        PROVE  e \in Range(sent[c])
    <3>1. e \in 1..Tip
      BY <1>1, <1>2, <2>1, <2>2 DEF ClientOK
    <3> QED BY <1>1, <1>4, <2>2, <3>1 DEF CoverOK
  <2>3. ASSUME c \notin stopped', NEW e \in Ours', since[c] < e, e < pos', e \notin lost',
               Owed(c)' => e # cur'
        PROVE  e \in Range(sent[c]) \cup Range(queue[c])
    <3>1. e < pos
      BY <2>3 DEF Settled
    <3>2. e \in 1..Tip
      <4>1. pos <= Tip + 1
        BY StateFacts DEF LoopOK
      <4> QED BY <1>2, <2>1, <3>1, <4>1
    <3>3. e \in Ours /\ e \notin lost /\ c \notin stopped
      BY <1>4, <2>3, <3>2 DEF Kept
    <3>4. Owed(c) => e # cur
      BY <2>3 DEF Settled
    <3> QED BY <1>1, <2>3, <3>1, <3>3, <3>4 DEF CoverOK
  <2> QED BY <2>2, <2>3
<1> QED BY <1>5, <1>6, <1>7, <1>8 DEF ClientInv

(* A client watch that is over. *)
LEMMA ClosedFacts ==
    ASSUME IInv, NEW c \in Clients, Close(c), Tip' \in Nat
    PROVE  ClientInv(c)'
<1>1. /\ stage'[c] = "idle" /\ since'[c] = 0 /\ queue'[c] = <<>> /\ seen'[c] = 0
      /\ sent'[c] = <<>> /\ covered'[c] = FALSE /\ c \notin stopped' /\ c \notin blocked'
  BY DEF Close, SetStage, IInv, TypeOK
<1>2. Range(<<>>) = {} /\ Up(<<>>)
  BY EmptyFacts
<1>3. ClientOK(c)'
  BY <1>1 DEF ClientOK
<1>4. QueueOK(c)'
  BY <1>1, <1>2 DEF QueueOK, Up
<1>5. SentOK(c)'
  BY <1>1, <1>2 DEF SentOK, Up
<1>6. CoverOK(c)'
  BY <1>1 DEF CoverOK
<1> QED BY <1>3, <1>4, <1>5, <1>6 DEF ClientInv

(* The ring and its floor are as they were. *)
LEMMA RingKept ==
    ASSUME IInv, Forward, UNCHANGED <<floor, ring>>, pos' \in Nat, Tip' \in Nat,
           floor # NoFloor => \A e \in Ours' : e < pos' => e < pos \/ e \in lost'
    PROVE  RingOK' /\ RingCovers'
<1>1. RingOK /\ RingCovers /\ floor \in Int /\ pos \in Nat /\ Tip \in Nat /\ Ours \subseteq 1..Tip
      /\ pos <= Tip + 1
  BY StateFacts DEF LoopOK
<1>2. RingOK'
  <2>1. ASSUME NEW e \in Range(ring) PROVE e \in Ours' /\ floor < e /\ e < pos'
    <3>1. e \in Ours /\ floor < e /\ e < pos /\ e \in 1..Tip
      BY <1>1 DEF RingOK
    <3> QED BY <1>1, <3>1 DEF Forward
  <2> QED BY <1>1, <2>1 DEF RingOK, Up
<1>3. RingCovers'
  <2> SUFFICES ASSUME NEW e \in Ours', floor # NoFloor, floor < e, e < pos'
               PROVE  e \in Range(ring) \cup lost'
    BY DEF RingCovers, NoFloor
  <2>1. CASE e \in lost'
    BY <2>1
  <2>2. CASE e \notin lost'
    <3>1. e < pos /\ e \in 1..Tip'
      BY <2>2 DEF Ours
    <3>2. e \in 1..Tip
      BY <1>1, <3>1
    <3>3. e \in Ours
      BY <3>2 DEF Forward
    <3> QED BY <1>1, <3>1, <3>3 DEF Forward, RingCovers
  <2> QED BY <2>1, <2>2
<1> QED BY <1>2, <1>3

(* The log is as it was. *)
LEMMA LogKept ==
    ASSUME IInv, UNCHANGED log, pos <= pos', lost \subseteq lost',
           floor # NoFloor => floor' # NoFloor
    PROVE  /\ LogOK' /\ Forward /\ Tip' = Tip /\ Tip' \in Nat /\ Ours' = Ours
           /\ log' \in Seq(0..MaxRev) /\ Len(log)' \in 1..MaxRev
<1>1. Tip' = Tip /\ Ours' = Ours
  BY DEF Tip, Ours
<1>2. LogOK'
  BY <1>1, StateFacts DEF LogOK
<1>3. Tip \in Nat
  BY StateFacts
<1>4. log' \in Seq(0..MaxRev) /\ Len(log)' \in 1..MaxRev
  BY DEF IInv, TypeOK
<1> QED BY <1>1, <1>2, <1>3, <1>4 DEF Forward

(* The parts of the invariant. *)
LEMMA Parts ==
    ASSUME TypeOK', LogOK', LoopOK', BootOK', RingOK', RingCovers',
           \A c \in Clients : ClientInv(c)'
    PROVE  IInv'
<1>1. ClientsOK'
  BY DEF ClientsOK, ClientInv
<1> QED BY <1>1 DEF IInv

(* No request starts to start the shared watch. *)
LEMMA BootKept ==
    ASSUME IInv, UNCHANGED <<floor, ring, pos, resume>>, stage' \in [Clients -> Stages],
           \A c \in Clients : stage'[c] \in Booting => stage'[c] = stage[c] /\ loop' = loop
    PROVE  BootOK'
<1>1. BootOK
  BY DEF IInv
<1>2. Fresh' <=> Fresh
  BY DEF Fresh, NoFloor
<1> SUFFICES ASSUME NEW c \in Clients, stage'[c] \in Booting
             PROVE  /\ loop' = "boot"
                    /\ stage'[c] = "boot" => Fresh'
                    /\ stage'[c] = "connect" => floor' # NoFloor
                    /\ \A d \in Clients : stage'[d] \in Booting => d = c
  BY DEF BootOK, Booting, NoFloor
<1>3. stage[c] \in Booting /\ stage'[c] = stage[c] /\ loop' = loop
  OBVIOUS
<1> QED BY <1>1, <1>2, <1>3 DEF BootOK

LEMMA Untouched ==
    ASSUME IInv, NEW c \in Clients,
           UNCHANGED <<stage, since, queue, seen, sent, stopped, covered, blocked>>
    PROVE  Kept(c)
BY ClientFacts DEF Kept, ClientOK

LEMMA Quiet ==
    ASSUME IInv, NEW c \in Clients, UNCHANGED <<loop, pos, cur>>, c \in blocked' <=> c \in blocked
    PROVE  Settled(c) /\ (Owed(c)' <=> Owed(c))
BY DEF Settled, Owed

-----------------------------------------------------------------------------
(* The actions of the store and of the shared watch. *)

LEMMA WriteInv ==
    ASSUME IInv, ~References, Write
    PROVE  IInv'
<1>1. /\ TypeOK /\ LogOK /\ LoopOK /\ Tip \in Nat /\ Ours \subseteq 1..Tip /\ pos \in Nat
      /\ cur \in Nat /\ MaxRev \in Nat
  BY StateFacts
<1>2. /\ UNCHANGED <<compacted, floor, ring, cap, loop, pos, resume, stalled, cur, blocked>>
      /\ UNCHANGED <<scanned, stage, since, heard, queue, seen, sent, stopped, covered, lost>>
  BY DEF Write, cacheVars, loopVars, clientVars
<1>3. PICK v \in {0, Tip + 1} : log' = Append(log, v) /\ Tip < MaxRev
  BY DEF Write
<1>4. log \in Seq(0..MaxRev)
  BY <1>1 DEF TypeOK
<1>5. v \in 0..MaxRev
  BY <1>1, <1>3
<1>6. /\ log' \in Seq(0..MaxRev) /\ Len(log') = Tip + 1 /\ log'[Tip + 1] = v
      /\ \A e \in 1..Tip : log'[e] = log[e]
  BY <1>3, <1>4, <1>5 DEF Tip
<1>7. Tip' = Tip + 1 /\ Tip' \in Nat
  BY <1>1, <1>6 DEF Tip
<1>8. LogOK'
  <2> SUFFICES ASSUME NEW e \in 1..(Tip + 1) PROVE log'[e] \in {0, e}
    BY <1>7 DEF LogOK
  <2>1. CASE e = Tip + 1
    BY <1>3, <1>6, <2>1
  <2>2. CASE e # Tip + 1
    <3>1. e \in 1..Tip
      BY <1>1, <2>2
    <3> QED BY <1>1, <1>6, <3>1 DEF LogOK
  <2> QED BY <2>1, <2>2
<1>9. Forward
  <2>1. \A e \in 1..Tip : e \in Ours' <=> e \in Ours
    BY <1>1, <1>6, <1>7 DEF Ours
  <2> QED BY <1>1, <1>2, <1>7, <2>1 DEF Forward
<1>10. TypeOK'
  <2>1. Len(log)' \in 1..MaxRev
    BY <1>1, <1>3, <1>6
  <2> QED BY <1>1, <1>2, <1>6, <2>1 DEF TypeOK, NoFloor, Loops, Stages, Booting
<1>11. LoopOK'
  <2>1. cur \in Ours => cur \in Ours'
    BY <1>1, <1>9 DEF Forward
  <2> QED BY <1>1, <1>2, <1>7, <2>1 DEF LoopOK, Fresh, NoFloor
<1>12. BootOK'
  <2>1. stage' \in [Clients -> Stages]
    BY <1>1, <1>2 DEF TypeOK
  <2> QED BY <1>2, <2>1, BootKept
<1>13. RingOK' /\ RingCovers'
  BY <1>1, <1>2, <1>7, <1>9, RingKept
<1>14. \A c \in Clients : ClientInv(c)'
  BY <1>1, <1>2, <1>7, <1>9, Untouched, Quiet, ClientKept
<1> QED BY <1>8, <1>10, <1>11, <1>12, <1>13, <1>14, Parts

LEMMA CompactInv ==
    ASSUME IInv, Compact
    PROVE  IInv'
<1>1. /\ TypeOK /\ LoopOK /\ pos \in Nat /\ cur \in Nat /\ Tip \in Nat /\ Tip <= MaxRev
      /\ compacted \in Nat /\ MaxRev \in Nat
  BY StateFacts DEF Revs
<1>2. /\ UNCHANGED <<log, floor, ring, cap, loop, pos, resume, stalled, cur, blocked>>
      /\ UNCHANGED <<scanned, stage, since, heard, queue, seen, sent, stopped, covered, lost>>
      /\ compacted' \in (compacted + 1)..Tip
  BY DEF Compact, cacheVars, loopVars, clientVars
<1>3. LogOK' /\ Forward /\ Tip' = Tip /\ Tip' \in Nat /\ Ours' = Ours
  BY <1>1, <1>2, LogKept
<1>4. TypeOK'
  <2>1. compacted' \in 0..MaxRev
    BY <1>1, <1>2
  <2> QED BY <1>1, <1>2, <2>1 DEF TypeOK, NoFloor, Loops, Stages, Booting
<1>5. LoopOK'
  BY <1>1, <1>2, <1>3 DEF LoopOK, Fresh, NoFloor
<1>6. BootOK'
  <2>1. stage' \in [Clients -> Stages]
    BY <1>1, <1>2 DEF TypeOK
  <2> QED BY <1>2, <2>1, BootKept
<1>7. RingOK' /\ RingCovers'
  BY <1>1, <1>2, <1>3, RingKept
<1>8. \A c \in Clients : ClientInv(c)'
  BY <1>1, <1>2, <1>3, Untouched, Quiet, ClientKept
<1> QED BY <1>3, <1>4, <1>5, <1>6, <1>7, <1>8, Parts

(* Nobody is starting the shared watch. *)
LEMMA BootDone ==
    ASSUME IInv, loop # "boot", \A c \in Clients : stage'[c] \in Booting => stage'[c] = stage[c]
    PROVE  BootOK'
BY DEF IInv, BootOK, Booting

(* A step of the shared watch alone, away from the dispatching of an event. *)
LEMMA LoopStep ==
    ASSUME IInv, UNCHANGED <<log, floor, ring, stage, since, queue, seen, sent, stopped, covered>>,
           UNCHANGED blocked, TypeOK', LoopOK', BootOK', pos <= pos', lost \subseteq lost',
           \A e \in Ours : e < pos' => e < pos \/ e \in lost',
           \/ loop' = loop /\ cur' = cur
           \/ loop # "dispatch" /\ loop' # "dispatch" /\ blocked = {}
    PROVE  IInv'
<1>1. pos' \in Nat /\ cur' \in Nat
  BY RevFacts DEF TypeOK
<1>2. LogOK' /\ Forward /\ Tip' = Tip /\ Tip' \in Nat /\ Ours' = Ours
  BY LogKept DEF NoFloor
<1>3. RingOK' /\ RingCovers'
  BY <1>1, <1>2, RingKept
<1>4. ASSUME NEW c \in Clients PROVE ClientInv(c)'
  <2>1. Kept(c)
    BY Untouched
  <2>2. Settled(c)
    BY <1>2 DEF Settled, Owed
  <2> QED BY <1>1, <1>2, <2>1, <2>2, ClientKept
<1> QED BY <1>2, <1>3, <1>4, Parts

LEMMA StreamEndInv ==
    ASSUME IInv, StreamEnd
    PROVE  IInv'
<1>1. TypeOK /\ LoopOK /\ pos \in Nat /\ loop = "up"
  BY StateFacts DEF StreamEnd
<1>2. /\ UNCHANGED <<log, compacted, floor, ring, cap, pos, resume, cur, blocked>>
      /\ UNCHANGED <<scanned, stage, since, heard, queue, seen, sent, stopped, covered, lost>>
      /\ loop' = "down" /\ stalled' = FALSE
  BY DEF StreamEnd, cacheVars, clientVars
<1>3. TypeOK'
  BY <1>1, <1>2 DEF TypeOK, NoFloor, Loops, Stages, Booting
<1>4. LoopOK'
  BY <1>1, <1>2 DEF LoopOK, Fresh, NoFloor, Tip, Ours
<1>5. BootOK'
  BY <1>1, <1>2, BootDone
<1>6. blocked = {}
  BY <1>1 DEF LoopOK
<1> QED BY <1>1, <1>2, <1>3, <1>4, <1>5, <1>6, LoopStep

LEMMA StallInv ==
    ASSUME IInv, Stall
    PROVE  IInv'
<1>1. TypeOK /\ LoopOK /\ pos \in Nat /\ loop = "up"
  BY StateFacts DEF Stall
<1>2. /\ UNCHANGED <<log, compacted, floor, ring, cap, pos, resume, cur, blocked, loop>>
      /\ UNCHANGED <<scanned, stage, since, heard, queue, seen, sent, stopped, covered, lost>>
      /\ stalled' = TRUE
  BY DEF Stall, cacheVars, clientVars
<1>3. TypeOK'
  BY <1>1, <1>2 DEF TypeOK, NoFloor, Loops, Stages, Booting
<1>4. LoopOK'
  BY <1>1, <1>2 DEF LoopOK, Fresh, NoFloor, Tip, Ours
<1>5. BootOK'
  BY <1>1, <1>2, BootDone
<1> QED BY <1>1, <1>2, <1>3, <1>4, <1>5, LoopStep

LEMMA GcScanInv ==
    ASSUME IInv, GcScan
    PROVE  IInv'
<1>1. TypeOK /\ LoopOK /\ pos \in Nat
  BY StateFacts DEF GcScan
<1>2. /\ UNCHANGED <<log, compacted, floor, ring, cap, pos, resume, cur, blocked, loop, stalled>>
      /\ UNCHANGED <<stage, since, heard, queue, seen, sent, stopped, covered, lost>>
      /\ scanned' = TRUE
  BY DEF GcScan, cacheVars, clientVars, loopVars
<1>3. TypeOK'
  BY <1>1, <1>2 DEF TypeOK, NoFloor, Loops, Stages, Booting
<1>4. LoopOK'
  BY <1>1, <1>2 DEF LoopOK, Fresh, NoFloor, Tip, Ours
<1>5. BootOK'
  <2>1. stage' \in [Clients -> Stages]
    BY <1>1, <1>2 DEF TypeOK
  <2> QED BY <1>2, <2>1, BootKept
<1> QED BY <1>1, <1>2, <1>3, <1>4, <1>5, LoopStep

LEMMA DispatchDoneInv ==
    ASSUME IInv, DispatchDone
    PROVE  IInv'
<1>1. TypeOK /\ LoopOK /\ pos \in Nat /\ loop = "blocked" /\ blocked = {} /\ MaxRev \in Nat
  BY StateFacts DEF DispatchDone
<1>2. /\ UNCHANGED <<log, compacted, floor, ring, cap, pos, resume, blocked, stalled>>
      /\ UNCHANGED <<scanned, stage, since, heard, queue, seen, sent, stopped, covered, lost>>
      /\ loop' = "up" /\ cur' = 0
  BY DEF DispatchDone, cacheVars, clientVars
<1>3. TypeOK'
  BY <1>1, <1>2 DEF TypeOK, NoFloor, Loops, Stages, Booting
<1>4. LoopOK'
  BY <1>1, <1>2 DEF LoopOK, Fresh, NoFloor, Tip, Ours
<1>5. BootOK'
  BY <1>1, <1>2, BootDone
<1> QED BY <1>1, <1>2, <1>3, <1>4, <1>5, LoopStep

(* Where a storage watch starts. *)
LEMMA StartAtFacts ==
    ASSUME IInv, NEW r \in {0, resume}, StartAt(r)
    PROVE  /\ pos' \in 1..(MaxRev + 1) /\ pos <= pos' /\ pos' <= Tip + 1
           /\ r # 0 => pos' = pos /\ pos' = r + 1
           /\ lost \subseteq lost' /\ lost' \subseteq Revs /\ loop' \in {"up", "down"}
           /\ \A e \in Ours : e < pos' => e < pos \/ e \in lost'
<1>1. /\ pos \in Nat \ {0} /\ resume \in Nat /\ Tip \in Nat /\ MaxRev \in Nat /\ Tip <= MaxRev
      /\ Ours \subseteq Revs /\ lost \subseteq Revs /\ \A e \in Ours : e \in Nat
      /\ pos <= Tip + 1 /\ (resume # 0 => pos = resume + 1)
      /\ pos \in 1..(MaxRev + 1)
  <2>1. /\ TypeOK /\ LoopOK /\ pos \in Nat \ {0} /\ resume \in Nat /\ Tip \in Nat /\ Tip \in Revs
        /\ MaxRev \in Nat /\ Ours \subseteq Revs /\ \A e \in Ours : e \in Nat
    BY StateFacts
  <2>2. Tip <= MaxRev /\ lost \subseteq Revs /\ pos \in 1..(MaxRev + 1)
    BY <2>1 DEF TypeOK, Revs
  <2>3. pos <= Tip + 1 /\ (resume # 0 => pos = resume + 1)
    BY <2>1 DEF LoopOK
  <2> QED BY <2>1, <2>2, <2>3
<1>2. CASE r = 0
  BY <1>1, <1>2 DEF StartAt
<1>3. CASE r # 0
  BY <1>1, <1>3 DEF StartAt
<1> QED BY <1>2, <1>3

LEMMA ConnectInv ==
    ASSUME IInv, Connect
    PROVE  IInv'
<1>1. /\ TypeOK /\ LoopOK /\ pos \in Nat /\ loop = "down" /\ MaxRev \in Nat /\ resume \in Nat
      /\ floor \in Int /\ Tip \in Nat /\ blocked = {} /\ cur = 0
  BY StateFacts DEF Connect, LoopOK
<1>2. /\ UNCHANGED <<log, compacted, floor, ring, cap, stalled, cur, blocked>>
      /\ UNCHANGED <<scanned, stage, since, heard, queue, seen, sent, stopped, covered>>
  BY DEF Connect, cacheVars, clientVars
<1>3. /\ resume' \in {0, resume} /\ loop' \in {"up", "down"}
      /\ pos' \in 1..(MaxRev + 1) /\ pos <= pos' /\ pos' <= Tip + 1
      /\ resume' # 0 => pos' = resume' + 1
      /\ lost \subseteq lost' /\ lost' \subseteq Revs
      /\ \A e \in Ours : e < pos' => e < pos \/ e \in lost'
  <2>1. CASE resume' = (IF resume + 1 > compacted THEN resume ELSE 0) /\ StartAt(resume')
    <3>1. resume' \in {0, resume}
      BY <2>1
    <3>2. PICK r \in {0, resume} : r = resume' /\ StartAt(r)
      BY <2>1, <3>1
    <3> QED BY <3>1, <3>2, StartAtFacts
  <2>2. CASE resume' = 0 /\ UNCHANGED <<loop, pos, lost>>
    BY <1>1, <2>2 DEF LoopOK, TypeOK, Revs
  <2> QED BY <2>1, <2>2 DEF Connect
<1>4. TypeOK'
  BY <1>1, <1>2, <1>3 DEF TypeOK, NoFloor, Loops, Stages, Booting, Revs
<1>5. LoopOK'
  <2>1. pos' \in Nat
    BY <1>1, <1>3
  <2>2. floor' < pos'
    BY <1>1, <1>2, <1>3, <2>1 DEF LoopOK
  <2>3. Tip' = Tip
    BY <1>2 DEF Tip
  <2> QED BY <1>1, <1>2, <1>3, <2>2, <2>3 DEF LoopOK, Fresh, NoFloor
<1>6. BootOK'
  BY <1>1, <1>2, BootDone
<1>7. loop' # "dispatch"
  BY <1>3
<1> QED BY <1>1, <1>2, <1>3, <1>4, <1>5, <1>6, <1>7, LoopStep

(* Events leave the ring at the front and take the floor with them. *)
LEMMA EvictFacts ==
    ASSUME IInv, NEW buf \in Seq(Revs), NEW n \in 0..Len(buf), Evict(buf, n), Up(buf),
           \A x \in Range(buf) : x \in Ours /\ floor < x
    PROVE  /\ ring' \in Seq(Revs) /\ Len(ring') = Len(buf) - n /\ Up(ring')
           /\ Range(ring') \subseteq Range(buf)
           /\ floor <= floor' /\ floor' \in Int
           /\ floor' = floor \/ floor' \in Range(buf)
           /\ n = 0 => floor' = floor
           /\ \A x \in Range(ring') : floor' < x
           /\ \A x \in Range(buf) \ Range(ring') : x <= floor'
<1>1. floor \in Int /\ \A x \in Range(buf) : Rv(x) = x /\ x \in Nat
  BY StateFacts
<1> DEFINE t == SubSeq(buf, n + 1, Len(buf))
<1>2. /\ t \in Seq(Revs) /\ Len(t) = Len(buf) - n /\ Up(t)
      /\ Range(t) \subseteq Range(buf)
      /\ n > 0 => buf[n] \in Range(buf)
      /\ \A x \in Range(t) : n > 0 => buf[n] < x
      /\ \A x \in Range(buf) \ Range(t) : n > 0 /\ x <= buf[n]
  BY DropFacts, Zenon
<1>3. ring' = t
  BY DEF Evict
<1> HIDE DEF t
<1>4. floor' = IF n > 0 THEN buf[n] ELSE floor
  <2>1. CASE n > 0
    <3>1. Rv(buf[n]) > floor /\ Rv(buf[n]) = buf[n]
      BY <1>1, <1>2, <2>1
    <3> QED BY <2>1, <3>1 DEF Evict
  <2>2. CASE ~(n > 0)
    BY <2>2 DEF Evict
  <2> QED BY <2>1, <2>2
<1>5. n = 0 \/ n > 0
  OBVIOUS
<1>6. CASE n > 0
  <2>1. floor' = buf[n] /\ buf[n] \in Range(buf) /\ n # 0
    BY <1>2, <1>4, <1>6
  <2> QED BY <1>1, <1>2, <1>3, <1>6, <2>1
<1>7. CASE n = 0
  <2>1. floor' = floor /\ ~(n > 0)
    BY <1>4, <1>7
  <2>2. \A x \in Range(buf) \ Range(ring') : FALSE
    BY <1>2, <1>3, <2>1
  <2> QED BY <1>1, <1>2, <1>3, <2>1, <2>2
<1> QED BY <1>5, <1>6, <1>7

(* A capacity stays within its bounds. *)
LEMMA NextCapsFacts ==
    ASSUME TypeOK
    PROVE  NextCaps \subseteq LowerCap..UpperCap
<1>1. /\ LowerCap \in Nat \ {0} /\ UpperCap \in Nat /\ LowerCap <= UpperCap
      /\ cap \in Nat /\ LowerCap <= cap /\ cap <= UpperCap /\ Len(ring) \in Nat /\ Len(ring) <= cap
  BY SizeAssumption DEF TypeOK
<1>2. MaxOf(cap, Len(ring)) = cap
  BY <1>1 DEF MaxOf
<1>3. \A n \in NextCaps : n \in Nat /\ LowerCap <= n /\ n <= UpperCap
  <2> DEFINE double == IF 2 * cap < UpperCap THEN 2 * cap ELSE UpperCap
             half == MaxOf(cap \div 2, LowerCap)
  <2>1. double \in Nat /\ double <= UpperCap
    BY <1>1
  <2>2. cap \div 2 \in Nat
    BY <1>1
  <2>3. half \in Nat /\ LowerCap <= half
    BY <1>1, <2>2 DEF MaxOf
  <2>4. MaxOf(cap, double) \in Nat /\ cap <= MaxOf(cap, double) /\ MaxOf(cap, double) <= UpperCap
    BY <1>1, <2>1 DEF MaxOf
  <2>5. \A n \in NextCaps : n \in {cap, MaxOf(cap, double), IF half < cap THEN half ELSE cap}
    BY <1>2 DEF NextCaps
  <2> HIDE DEF double, half
  <2> QED BY <1>1, <2>3, <2>4, <2>5
<1> QED BY <1>1, <1>3

LEMMA ReceiveInv ==
    ASSUME IInv, Receive
    PROVE  IInv'
<1>1. /\ TypeOK /\ LoopOK /\ RingOK /\ RingCovers /\ pos \in Nat \ {0} /\ loop = "up"
      /\ MaxRev \in Nat \ {0} /\ floor \in Int /\ Tip \in Nat /\ Tip \in Revs
      /\ Ours \subseteq 1..Tip /\ Ours \subseteq Revs /\ ring \in Seq(Revs) /\ Len(ring) \in Nat
      /\ (\A x \in Ours : Rv(x) = x /\ x \in Nat) /\ LowerCap \in Nat \ {0} /\ UpperCap \in Nat
  BY StateFacts DEF Receive
<1>2. /\ UNCHANGED <<log, compacted, stalled, blocked>> /\ loop' = "dispatch"
      /\ UNCHANGED <<scanned, stage, since, heard, queue, seen, sent, stopped, covered, lost>>
  BY DEF Receive, clientVars
<1>3. PICK e \in Ours :
        /\ e >= pos /\ \A d \in Ours : d >= pos => e <= d
        /\ \E n \in NextCaps :
            /\ cap' = n
            /\ Evict(Append(ring, e), MaxOf(Len(ring) + 1 - n, 0))
        /\ pos' = e + 1 /\ resume' = Rv(e) /\ cur' = e
  BY DEF Receive
<1>4. PICK m \in NextCaps : cap' = m /\ Evict(Append(ring, e), MaxOf(Len(ring) + 1 - m, 0))
  BY <1>3
<1>5. m \in LowerCap..UpperCap /\ m \in Nat \ {0} /\ e \in Revs /\ e \in Nat
  <2>1. m \in LowerCap..UpperCap
    BY <1>1, NextCapsFacts
  <2> QED BY <1>1, <2>1
<1> DEFINE buf == Append(ring, e)
           n == MaxOf(Len(ring) + 1 - m, 0)
<1>6. ASSUME NEW x \in Range(ring) PROVE x \in Ours /\ x \in Nat /\ floor < x /\ x < pos /\ x < e
  <2>1. x \in Ours /\ floor < x /\ x < pos
    BY <1>1 DEF RingOK
  <2> QED BY <1>1, <1>3, <1>5, <2>1
<1>7. /\ buf \in Seq(Revs) /\ Len(buf) = Len(ring) + 1 /\ Range(buf) = Range(ring) \cup {e}
      /\ Up(buf)
  BY <1>1, <1>5, <1>6, AppendFacts DEF RingOK
<1>8. n \in 0..Len(buf) /\ Len(buf) - n <= m
  BY <1>1, <1>5, <1>7 DEF MaxOf
<1>9. floor < pos /\ pos <= Tip + 1 /\ blocked = {} /\ floor # NoFloor
  BY <1>1 DEF LoopOK
<1>10. \A x \in Range(buf) : x \in Ours /\ floor < x
  BY <1>1, <1>3, <1>5, <1>6, <1>7, <1>9
<1>11. Evict(buf, n)
  BY <1>4
<1> HIDE DEF buf, n
<1>12. /\ ring' \in Seq(Revs) /\ Len(ring') = Len(buf) - n /\ Up(ring')
       /\ Range(ring') \subseteq Range(buf)
       /\ floor <= floor' /\ floor' \in Int
       /\ floor' = floor \/ floor' \in Range(buf)
       /\ \A x \in Range(ring') : floor' < x
       /\ \A x \in Range(buf) \ Range(ring') : x <= floor'
  BY <1>7, <1>8, <1>10, <1>11, EvictFacts
<1>13. floor' \in 0..MaxRev /\ floor' < pos' /\ floor' # NoFloor
  <2>1. floor \in 0..MaxRev
    BY <1>1, <1>9 DEF TypeOK
  <2>2. \A x \in Range(buf) : x \in Revs /\ x <= e
    <3>1. \A x \in Range(ring) : x \in Revs /\ x <= e
      BY <1>1, <1>5, <1>6
    <3> QED BY <1>5, <1>7, <3>1
  <2> QED BY <1>1, <1>3, <1>5, <1>9, <1>12, <2>1, <2>2 DEF Revs, NoFloor
<1>14. pos <= pos' /\ lost \subseteq lost'
  BY <1>1, <1>2, <1>3, <1>5
<1>15. LogOK' /\ Forward /\ Tip' = Tip /\ Tip' \in Nat /\ Ours' = Ours
  BY <1>2, <1>13, <1>14, LogKept DEF NoFloor
<1>16. pos' \in 1..(MaxRev + 1) /\ resume' = e /\ pos' \in Nat /\ e <= Tip
  BY <1>1, <1>3, <1>5 DEF Revs
<1>17. TypeOK'
  <2>1. Len(ring') <= cap' /\ cap' \in LowerCap..UpperCap
    BY <1>4, <1>5, <1>8, <1>12
  <2>2. e \in 0..MaxRev
    BY <1>5 DEF Revs
  <2> QED BY <1>1, <1>2, <1>3, <1>12, <1>13, <1>16, <2>1, <2>2
       DEF TypeOK, NoFloor, Loops, Stages, Booting, Revs
<1>18. LoopOK'
  BY <1>1, <1>2, <1>3, <1>5, <1>9, <1>13, <1>15, <1>16 DEF LoopOK, NoFloor
<1>19. BootOK'
  BY <1>1, <1>2, BootDone
<1>20. RingOK'
  <2>1. \A x \in Range(buf) : x \in Ours /\ x < pos'
    <3>1. \A x \in Range(ring) : x \in Ours /\ x < e + 1
      BY <1>5, <1>6
    <3> QED BY <1>3, <1>5, <1>7, <3>1
  <2>2. \A x \in Range(ring') : x \in Ours /\ floor' < x /\ x < pos'
    BY <1>12, <2>1
  <2> QED BY <1>12, <1>15, <2>2 DEF RingOK, Up
<1>21. RingCovers'
  <2> SUFFICES ASSUME NEW x \in Ours, floor' < x, x < pos'
               PROVE  x \in Range(ring') \cup lost'
    BY <1>15 DEF RingCovers
  <2>1. x \in Range(buf) \cup lost
    <3>1. CASE x >= pos
      BY <1>1, <1>3, <1>5, <1>7, <3>1
    <3>2. CASE ~(x >= pos)
      BY <1>1, <1>7, <1>9, <1>12, <3>2 DEF RingCovers
    <3> QED BY <3>1, <3>2
  <2> QED BY <1>1, <1>2, <1>12, <2>1
<1>22. ASSUME NEW c \in Clients PROVE ClientInv(c)'
  <2>1. Kept(c)
    BY <1>2, Untouched
  <2>2. Settled(c)
    <3>1. ~Owed(c) /\ Owed(c)'
      BY <1>1, <1>2, <1>9 DEF Owed
    <3>2. \A x \in Ours : x < pos' => x < pos \/ x = e
      BY <1>1, <1>3, <1>5
    <3> QED BY <1>3, <1>15, <3>1, <3>2 DEF Settled
  <2> QED BY <1>3, <1>5, <1>15, <1>16, <2>1, <2>2, ClientKept
<1> QED BY <1>15, <1>17, <1>18, <1>19, <1>20, <1>21, <1>22, Parts

LEMMA GcTrimInv ==
    ASSUME IInv, GcTrim
    PROVE  IInv'
<1>1. /\ TypeOK /\ LoopOK /\ RingOK /\ RingCovers /\ BootOK /\ pos \in Nat \ {0} /\ cur \in Nat
      /\ MaxRev \in Nat \ {0} /\ floor \in Int /\ Tip \in Nat /\ (\A x \in Ours : x \in Nat)
      /\ Ours \subseteq Revs /\ ring \in Seq(Revs) /\ Len(ring) \in Nat
      /\ floor >= -1
  BY StateFacts
<1>2. /\ UNCHANGED <<log, compacted, stalled, blocked, loop, pos, resume, cur>>
      /\ UNCHANGED <<stage, since, heard, queue, seen, sent, stopped, covered, lost>>
      /\ scanned' = FALSE /\ cap' = LowerCap
  BY DEF GcTrim, clientVars, loopVars
<1> DEFINE n == MaxOf(Len(ring) - IdleCap, 0)
<1>3. /\ n \in 0..Len(ring) /\ Len(ring) - n <= LowerCap /\ (Len(ring) = 0 => n = 0)
      /\ LowerCap \in LowerCap..UpperCap
  BY <1>1, SizeAssumption DEF MaxOf
<1>4. Evict(ring, n)
  BY DEF GcTrim
<1> HIDE DEF n
<1>5. \A x \in Range(ring) : x \in Ours /\ floor < x /\ x < pos
  BY <1>1 DEF RingOK
<1>6. /\ ring' \in Seq(Revs) /\ Len(ring') = Len(ring) - n /\ Up(ring')
      /\ Range(ring') \subseteq Range(ring)
      /\ floor <= floor' /\ floor' \in Int
      /\ floor' = floor \/ floor' \in Range(ring)
      /\ n = 0 => floor' = floor
      /\ \A x \in Range(ring') : floor' < x
      /\ \A x \in Range(ring) \ Range(ring') : x <= floor'
  BY <1>1, <1>3, <1>4, <1>5, EvictFacts DEF RingOK
<1>7. ring = <<>> => floor' = floor /\ ring' = <<>>
  <2>1. ring = <<>> => Len(ring) = 0
    OBVIOUS
  <2>2. Len(ring') = 0 => ring' = <<>>
    BY <1>6
  <2> QED BY <1>3, <1>6, <2>1, <2>2
<1>8. /\ floor = NoFloor => floor' = NoFloor /\ ring' = <<>> /\ loop \in {"absent", "boot"}
      /\ floor # NoFloor => floor' \in 0..MaxRev
  <2>1. floor = NoFloor => ring = <<>> /\ loop \in {"absent", "boot"}
    BY <1>1 DEF LoopOK
  <2>2. floor # NoFloor => floor \in 0..MaxRev
    BY <1>1 DEF TypeOK
  <2>3. floor' \in Range(ring) => floor' \in Revs
    BY <1>1, <1>5
  <2> QED BY <1>6, <1>7, <2>1, <2>2, <2>3 DEF Revs, NoFloor
<1>9. floor' < pos
  <2>1. floor < pos
    BY <1>1 DEF LoopOK
  <2> QED BY <1>5, <1>6, <2>1
<1>10. (floor' = NoFloor <=> floor = NoFloor) /\ (Fresh => Fresh')
  BY <1>2, <1>7, <1>8 DEF Fresh, NoFloor
<1>11. LogOK' /\ Forward /\ Tip' = Tip /\ Tip' \in Nat /\ Ours' = Ours
  BY <1>1, <1>2, <1>10, LogKept DEF NoFloor
<1>12. TypeOK'
  <2>1. floor' \in {NoFloor} \cup 0..MaxRev
    BY <1>8
  <2> QED BY <1>1, <1>2, <1>3, <1>6, <2>1 DEF TypeOK, NoFloor, Loops, Stages, Booting, Revs
<1>13. LoopOK'
  BY <1>1, <1>2, <1>8, <1>9, <1>10, <1>11 DEF LoopOK, NoFloor
<1>14. BootOK'
  BY <1>1, <1>2, <1>10 DEF BootOK, NoFloor
<1>15. RingOK'
  <2>1. \A x \in Range(ring') : x \in Ours /\ floor' < x /\ x < pos'
    BY <1>2, <1>5, <1>6
  <2> QED BY <1>6, <1>11, <2>1 DEF RingOK, Up
<1>16. RingCovers'
  <2> SUFFICES ASSUME NEW x \in Ours, floor' # NoFloor, floor' < x, x < pos
               PROVE  x \in Range(ring') \cup lost
    BY <1>2, <1>11 DEF RingCovers, NoFloor
  <2>1. x \in Range(ring) \cup lost
    BY <1>1, <1>6, <1>10 DEF RingCovers
  <2> QED BY <1>1, <1>6, <2>1
<1>17. \A c \in Clients : ClientInv(c)'
  BY <1>1, <1>2, <1>11, Untouched, Quiet, ClientKept
<1> QED BY <1>11, <1>12, <1>13, <1>14, <1>15, <1>16, <1>17, Parts

(* A watcher is given the event being dispatched. *)
LEMMA Offered ==
    ASSUME IInv, NEW c \in Clients, UNCHANGED <<log, pos, cur, floor, lost, stopped>>,
           UNCHANGED <<stage, since, seen, sent, covered>>, loop \in {"dispatch", "blocked"},
           stage[c] # "idle", Owed(c), queue'[c] = Append(queue[c], cur), loop' # "dispatch",
           c \notin blocked'
    PROVE  ClientInv(c)'
<1>1. /\ ClientOK(c) /\ QueueOK(c) /\ SentOK(c) /\ CoverOK(c) /\ queue[c] \in Seq(Revs)
      /\ \A e \in Range(queue[c]) : e \in Nat
  BY ClientFacts
<1>2. /\ LoopOK /\ pos \in Nat \ {0} /\ Tip \in Nat /\ Ours \subseteq Revs
      /\ \A e \in Ours : e \in Nat
  BY StateFacts
<1>3. cur = pos - 1 /\ cur \in Ours /\ cur \in Revs /\ cur \in Nat
  BY <1>2 DEF LoopOK
<1>4. Ours' = Ours /\ Tip' = Tip
  BY DEF Ours, Tip
<1>5. ~Owed(c)'
  BY DEF Owed
<1>6. \A e \in Range(queue[c]) : e < cur
  BY <1>1 DEF QueueOK
<1>7. Range(queue'[c]) = Range(queue[c]) \cup {cur} /\ Up(queue'[c])
  BY <1>1, <1>3, <1>6, AppendFacts DEF QueueOK
<1>8. ClientOK(c)'
  BY <1>1, <1>4 DEF ClientOK, NoFloor
<1>9. QueueOK(c)'
  <2>1. \A e \in Range(queue'[c]) : e \in Ours /\ e < pos
    BY <1>1, <1>2, <1>3, <1>7 DEF QueueOK
  <2> QED BY <1>4, <1>5, <1>7, <2>1 DEF QueueOK, Up
<1>10. SentOK(c)'
  <2>1. ASSUME NEW e \in Range(sent[c])
        PROVE  /\ e \in Ours /\ e < pos /\ since[c] < e
               /\ \A d \in Range(queue'[c]) : e < d \/ e <= seen[c]
    BY <1>1, <1>7 DEF SentOK
  <2> QED BY <1>1, <1>4, <1>5, <2>1 DEF SentOK, Up
<1>11. CoverOK(c)'
  <2> SUFFICES ASSUME covered[c]
               PROVE  /\ \A e \in Ours : since[c] < e /\ e <= seen[c] /\ e \notin lost
                                => e \in Range(sent[c])
                      /\ c \notin stopped =>
                            \A e \in Ours : since[c] < e /\ e < pos /\ e \notin lost
                                    => e \in Range(sent[c]) \cup Range(queue'[c])
    BY <1>4, <1>5 DEF CoverOK
  <2> QED BY <1>1, <1>7 DEF CoverOK
<1> QED BY <1>8, <1>9, <1>10, <1>11 DEF ClientInv

LEMMA DispatchInv ==
    ASSUME IInv, Dispatch
    PROVE  IInv'
<1>1. /\ TypeOK /\ LoopOK /\ pos \in Nat \ {0} /\ cur \in Nat /\ loop = "dispatch"
      /\ blocked = {} /\ Tip \in Nat /\ Ours \subseteq Revs /\ ChanSize \in Nat
  BY StateFacts, SizeAssumption DEF Dispatch, LoopOK
<1>2. /\ UNCHANGED <<log, compacted, floor, ring, cap, pos, resume, stalled, cur, scanned>>
      /\ UNCHANGED <<stage, since, heard, seen, sent, stopped, covered, lost>>
      /\ loop' = "blocked" /\ blocked' = {c \in Live : Len(queue[c]) = ChanSize}
      /\ queue' = [c \in Clients |-> IF c \in Live \ blocked' THEN Append(queue[c], cur)
                                     ELSE queue[c]]
  BY DEF Dispatch, cacheVars
<1>3. \A c \in Live : c \in Clients /\ stage[c] # "idle" /\ c \notin stopped
  BY DEF Live
<1>4. \A c \in Clients : c \notin Live => stage[c] = "idle" \/ c \in stopped
  BY DEF Live
<1>5. cur \in Revs
  BY <1>1 DEF LoopOK
<1>6. LogOK' /\ Forward /\ Tip' = Tip /\ Tip' \in Nat /\ Ours' = Ours
  BY <1>1, <1>2, LogKept DEF NoFloor
<1>7. TypeOK'
  <2>1. ASSUME NEW c \in Clients PROVE queue'[c] \in Seq(Revs) /\ Len(queue'[c]) <= ChanSize
    <3>1. queue[c] \in Seq(Revs) /\ Len(queue[c]) <= ChanSize /\ Len(queue[c]) \in Nat
      BY ClientFacts
    <3>2. CASE c \in Live \ blocked'
      <4>1. Len(queue[c]) # ChanSize
        BY <1>2, <3>2
      <4>2. queue'[c] = Append(queue[c], cur)
        BY <1>2, <3>2
      <4> QED BY <1>1, <1>5, <3>1, <4>1, <4>2, AppendFacts
    <3>3. CASE c \notin Live \ blocked'
      BY <1>2, <3>1, <3>3
    <3> QED BY <3>2, <3>3
  <2>2. queue' \in [Clients -> Seq(Revs)]
    BY <1>2, <2>1
  <2>3. blocked' \subseteq Clients
    BY <1>2, <1>3
  <2> QED BY <1>1, <1>2, <2>1, <2>2, <2>3 DEF TypeOK, NoFloor, Loops, Stages, Booting, Revs
<1>8. LoopOK'
  BY <1>1, <1>2, <1>6 DEF LoopOK, Fresh, NoFloor
<1>9. BootOK'
  BY <1>1, <1>2, BootDone
<1>10. RingOK' /\ RingCovers'
  BY <1>1, <1>2, <1>6, RingKept
<1>11. ASSUME NEW c \in Clients PROVE ClientInv(c)'
  <2>1. CASE c \in Live \ blocked'
    <3>1. queue'[c] = Append(queue[c], cur)
      BY <1>2, <2>1
    <3> QED BY <1>1, <1>2, <1>3, <2>1, <3>1, Offered DEF Owed
  <2>2. CASE c \notin Live \ blocked'
    <3>1. queue'[c] = queue[c]
      BY <1>2, <2>2
    <3>2. Kept(c)
      BY <1>2, <1>3, <3>1 DEF Kept
    <3>3. covered[c] /\ c \notin stopped => c \in blocked'
      <4>1. stage[c] = "idle" => ~covered[c]
        BY ClientFacts DEF ClientOK
      <4> QED BY <1>4, <2>2, <4>1
    <3>4. Settled(c)
      BY <1>1, <1>2, <1>6, <3>3 DEF Settled, Owed
    <3> QED BY <1>1, <1>2, <1>6, <3>2, <3>4, ClientKept
  <2> QED BY <2>1, <2>2
<1> QED BY <1>6, <1>7, <1>8, <1>9, <1>10, <1>11, Parts

LEMMA UnblockInv ==
    ASSUME IInv, NEW c \in Clients, Unblock(c)
    PROVE  IInv'
<1>1. /\ TypeOK /\ LoopOK /\ pos \in Nat \ {0} /\ cur \in Nat /\ loop = "blocked"
      /\ c \in blocked /\ Tip \in Nat /\ Ours \subseteq Revs /\ ChanSize \in Nat
  BY StateFacts, SizeAssumption DEF Unblock, LoopOK
<1>2. /\ UNCHANGED <<log, compacted, floor, ring, cap, loop, pos, resume, stalled, cur, scanned>>
      /\ UNCHANGED <<stage, since, heard, seen, sent, stopped, covered, lost>>
      /\ queue' = [queue EXCEPT ![c] = Append(@, cur)] /\ Len(queue[c]) < ChanSize
      /\ blocked' = blocked \ {c}
  BY DEF Unblock, cacheVars, loopVars
<1>3. queue \in [Clients -> Seq(Revs)]
  BY <1>1 DEF TypeOK, Revs
<1>4. queue'[c] = Append(queue[c], cur) /\ \A d \in Clients : d # c => queue'[d] = queue[d]
  BY <1>2, <1>3
<1>5. LogOK' /\ Forward /\ Tip' = Tip /\ Tip' \in Nat /\ Ours' = Ours
  BY <1>1, <1>2, LogKept DEF NoFloor
<1>6. TypeOK'
  <2>1. cur \in Revs
    BY <1>1 DEF LoopOK
  <2>2. queue'[c] \in Seq(Revs) /\ Len(queue'[c]) <= ChanSize
    <3>1. queue[c] \in Seq(Revs) /\ Len(queue[c]) \in Nat
      BY <1>3
    <3> QED BY <1>1, <1>2, <1>4, <2>1, <3>1, AppendFacts
  <2>3. queue' \in [Clients -> Seq(Revs)]
    BY <1>2, <1>3, <1>4, <2>2
  <2>4. \A d \in Clients : Len(queue'[d]) <= ChanSize
    BY <1>1, <1>4, <2>2 DEF TypeOK
  <2>5. blocked' \subseteq Clients
    BY <1>1, <1>2 DEF TypeOK
  <2> QED BY <1>1, <1>2, <2>3, <2>4, <2>5 DEF TypeOK, NoFloor, Loops, Stages, Booting, Revs
<1>7. LoopOK'
  BY <1>1, <1>2, <1>5 DEF LoopOK, Fresh, NoFloor
<1>8. BootOK'
  BY <1>1, <1>2, BootDone
<1>9. RingOK' /\ RingCovers'
  BY <1>1, <1>2, <1>5, RingKept
<1>10. ASSUME NEW d \in Clients PROVE ClientInv(d)'
  <2>1. ClientOK(d)
    BY ClientFacts
  <2>2. CASE d = c
    BY <1>1, <1>2, <1>4, <2>1, <2>2, Offered DEF Owed, ClientOK
  <2>3. CASE d # c
    <3>1. Kept(d)
      BY <1>2, <1>4, <2>1, <2>3 DEF Kept, ClientOK
    <3>2. Settled(d)
      BY <1>2, <2>3, Quiet
    <3> QED BY <1>1, <1>2, <1>5, <3>1, <3>2, ClientKept
  <2> QED BY <2>2, <2>3
<1> QED BY <1>5, <1>6, <1>7, <1>8, <1>9, <1>10, Parts

LEMMA TerminateInv ==
    ASSUME IInv, NEW c \in Clients, Terminate(c)
    PROVE  IInv'
<1>1. /\ TypeOK /\ LoopOK /\ pos \in Nat \ {0} /\ cur \in Nat /\ loop = "blocked"
      /\ c \in blocked /\ Tip \in Nat
  BY StateFacts DEF Terminate, LoopOK
<1>2. /\ UNCHANGED <<log, compacted, floor, ring, cap, loop, pos, resume, stalled, cur, scanned>>
      /\ UNCHANGED <<stage, since, heard, queue, seen, sent, covered, lost>>
      /\ blocked' = blocked \ {c} /\ stopped' = stopped \cup {c}
  BY DEF Terminate, cacheVars, loopVars, clientVars
<1>3. LogOK' /\ Forward /\ Tip' = Tip /\ Tip' \in Nat /\ Ours' = Ours
  BY <1>1, <1>2, LogKept DEF NoFloor
<1>4. TypeOK'
  <2>1. blocked' \subseteq Clients /\ stopped' \subseteq Clients
    BY <1>1, <1>2 DEF TypeOK
  <2> QED BY <1>1, <1>2, <2>1 DEF TypeOK, NoFloor, Loops, Stages, Booting
<1>5. LoopOK'
  BY <1>1, <1>2, <1>3 DEF LoopOK, Fresh, NoFloor
<1>6. BootOK'
  BY <1>1, <1>2, BootDone
<1>7. RingOK' /\ RingCovers'
  BY <1>1, <1>2, <1>3, RingKept
<1>8. ASSUME NEW d \in Clients PROVE ClientInv(d)'
  <2>1. ClientOK(d)
    BY ClientFacts
  <2>2. Kept(d)
    BY <1>1, <1>2, <2>1 DEF Kept, ClientOK
  <2>3. Settled(d)
    BY <1>1, <1>2 DEF Settled, Owed
  <2> QED BY <1>1, <1>2, <1>3, <2>2, <2>3, ClientKept
<1> QED BY <1>3, <1>4, <1>5, <1>6, <1>7, <1>8, Parts

-----------------------------------------------------------------------------
(* The actions of a client watch. *)

LEMMA DeliverInv ==
    ASSUME IInv, NEW c \in Clients, Deliver(c)
    PROVE  IInv'
<1>1. /\ TypeOK /\ LoopOK /\ pos \in Nat \ {0} /\ cur \in Nat /\ Tip \in Nat /\ MaxRev \in Nat
      /\ \A x \in Ours : Rv(x) = x /\ x \in Nat /\ x > 0
  BY StateFacts
<1>2. /\ UNCHANGED <<log, compacted, floor, ring, cap, loop, pos, resume, stalled, cur, scanned>>
      /\ UNCHANGED <<stage, since, heard, seen, stopped, blocked, covered, lost>>
      /\ queue' = [queue EXCEPT ![c] = Tail(@)]
      /\ stage[c] = "serving" /\ queue[c] # <<>>
  BY DEF Deliver, cacheVars, loopVars
<1> DEFINE e == Head(queue[c])
           skip == Skipped(c, e)
<1>3. sent' = [sent EXCEPT ![c] = IF skip THEN @ ELSE Append(@, e)]
  BY DEF Deliver
<1>4. /\ ClientOK(c) /\ QueueOK(c) /\ SentOK(c) /\ CoverOK(c)
      /\ queue[c] \in Seq(Revs) /\ sent[c] \in Seq(Revs) /\ Len(queue[c]) <= ChanSize
      /\ Len(queue[c]) \in Nat /\ ChanSize \in Nat
      /\ since[c] \in Nat /\ seen[c] \in Nat
      /\ (\A x \in Range(queue[c]) : x \in Nat) /\ (\A x \in Range(sent[c]) : x \in Nat)
  BY ClientFacts, SizeAssumption
<1> DEFINE t == Tail(queue[c])
<1>5. /\ t \in Seq(Revs) /\ Len(t) = Len(queue[c]) - 1 /\ Up(t)
      /\ e \in Revs /\ Range(queue[c]) = Range(t) \cup {e}
      /\ \A x \in Range(t) : e < x
  BY <1>2, <1>4, TailFacts DEF QueueOK
<1>6. queue \in [Clients -> Seq(Revs)] /\ sent \in [Clients -> Seq(Revs)]
  BY <1>1 DEF TypeOK, Revs
<1>7. /\ queue'[c] = t /\ sent'[c] = (IF skip THEN sent[c] ELSE Append(sent[c], e))
      /\ \A d \in Clients : d # c => queue'[d] = queue[d] /\ sent'[d] = sent[d]
  <2> HIDE DEF e, skip
  <2> QED BY <1>2, <1>3, <1>6
<1>8. skip <=> IF seen[c] = 0 THEN e <= since[c] ELSE Rv(e) <= seen[c]
  BY DEF Skipped
<1> HIDE DEF e, t, skip
<1>9. e \in Ours /\ e \in Nat /\ e < pos /\ (Owed(c) => e < cur) /\ Rv(e) = e
  BY <1>1, <1>4, <1>5 DEF QueueOK
<1>10. skip => e <= since[c] \/ (e <= seen[c])
  BY <1>8, <1>9
<1>11. ~skip => since[c] < e /\ seen[c] < e
  BY <1>4, <1>8, <1>9, <1>1 DEF ClientOK
<1>12. ~skip => \A x \in Range(sent[c]) : x < e
  <2> SUFFICES ASSUME ~skip, NEW x \in Range(sent[c]) PROVE x < e
    OBVIOUS
  <2>1. x < e \/ x <= seen[c]
    BY <1>4, <1>5 DEF SentOK
  <2> QED BY <1>4, <1>9, <1>11, <2>1
<1>13. ~skip => Up(sent'[c]) /\ Range(sent'[c]) = Range(sent[c]) \cup {e} /\ sent'[c] \in Seq(Revs)
  BY <1>4, <1>5, <1>7, <1>12, AppendFacts DEF SentOK
<1>14. LogOK' /\ Forward /\ Tip' = Tip /\ Tip' \in Nat /\ Ours' = Ours
  BY <1>1, <1>2, LogKept DEF NoFloor
<1>15. TypeOK'
  <2>1. queue' \in [Clients -> Seq(Revs)] /\ sent' \in [Clients -> Seq(Revs)]
    BY <1>2, <1>3, <1>4, <1>5, <1>6, <1>7, <1>13
  <2>2. \A d \in Clients : Len(queue'[d]) <= ChanSize
    <3>1. \A d \in Clients : Len(queue[d]) <= ChanSize
      BY ClientFacts
    <3>2. Len(queue'[c]) <= ChanSize
      BY <1>4, <1>5, <1>7
    <3> QED BY <1>7, <3>1, <3>2
  <2> QED BY <1>1, <1>2, <2>1, <2>2 DEF TypeOK, NoFloor, Loops, Stages, Booting, Revs
<1>16. LoopOK'
  BY <1>1, <1>2, <1>14 DEF LoopOK, Fresh, NoFloor
<1>17. BootOK'
  <2>1. stage' \in [Clients -> Stages]
    BY <1>1, <1>2 DEF TypeOK
  <2> QED BY <1>2, <2>1, BootKept
<1>18. RingOK' /\ RingCovers'
  BY <1>1, <1>2, <1>14, RingKept
<1>19. Owed(c)' <=> Owed(c)
  BY <1>2 DEF Owed
<1>20. ClientInv(c)'
  <2>1. ClientOK(c)'
    BY <1>2, <1>4, <1>14 DEF ClientOK, NoFloor
  <2>2. QueueOK(c)'
    <3>1. \A x \in Range(t) : x \in Ours /\ x < pos /\ (Owed(c) => x < cur)
      BY <1>4, <1>5 DEF QueueOK
    <3> QED BY <1>2, <1>5, <1>7, <1>14, <1>19, <3>1 DEF QueueOK, Up
  <2>3. SentOK(c)'
    <3>1. ASSUME NEW x \in Range(sent[c])
          PROVE  /\ x \in Ours /\ x < pos /\ since[c] < x
                 /\ Owed(c) => x < cur \/ x <= seen[c]
                 /\ \A d \in Range(t) : x < d \/ x <= seen[c]
      BY <1>4, <1>5 DEF SentOK
    <3>2. CASE skip
      BY <1>2, <1>4, <1>7, <1>14, <1>19, <3>1, <3>2 DEF SentOK, Up
    <3>3. CASE ~skip
      <4>1. ASSUME NEW x \in Range(sent'[c])
            PROVE  /\ x \in Ours /\ x < pos /\ since[c] < x
                   /\ Owed(c) => x < cur \/ x <= seen[c]
                   /\ \A d \in Range(t) : x < d \/ x <= seen[c]
        BY <1>5, <1>9, <1>11, <1>13, <3>1, <3>3
      <4> QED BY <1>2, <1>7, <1>13, <1>14, <1>19, <3>3, <4>1 DEF SentOK, Up
    <3> QED BY <3>2, <3>3
  <2>4. CoverOK(c)'
    <3> SUFFICES ASSUME covered[c]
                 PROVE  /\ \A x \in Ours : since[c] < x /\ x <= seen[c] /\ x \notin lost
                                => x \in Range(sent'[c])
                        /\ c \notin stopped =>
                              \A x \in Ours :
                                since[c] < x /\ x < pos /\ x \notin lost /\ (Owed(c) => x # cur)
                                    => x \in Range(sent'[c]) \cup Range(t)
      BY <1>2, <1>7, <1>14, <1>19 DEF CoverOK
    <3>1. Range(sent[c]) \subseteq Range(sent'[c])
      BY <1>7, <1>13
    <3>2. \A x \in Ours : since[c] < x /\ x <= seen[c] /\ x \notin lost => x \in Range(sent[c])
      BY <1>4 DEF CoverOK
    <3>3. ASSUME NEW x \in Ours, c \notin stopped, since[c] < x, x < pos, x \notin lost,
                 Owed(c) => x # cur
          PROVE  x \in Range(sent'[c]) \cup Range(t)
      <4>1. x \in Range(sent[c]) \cup Range(queue[c])
        BY <1>4, <3>3 DEF CoverOK
      <4>2. CASE x = e /\ skip
        BY <1>4, <1>9, <1>10, <3>1, <3>2, <3>3, <4>2
      <4>3. CASE x = e /\ ~skip
        BY <1>13, <4>3
      <4>4. CASE x # e
        BY <1>5, <3>1, <4>1, <4>4
      <4> QED BY <4>2, <4>3, <4>4
    <3> QED BY <3>1, <3>2, <3>3
  <2> QED BY <2>1, <2>2, <2>3, <2>4 DEF ClientInv
<1>21. ASSUME NEW d \in Clients, d # c PROVE ClientInv(d)'
  <2>1. ClientOK(d)
    BY ClientFacts
  <2>2. Kept(d)
    BY <1>2, <1>7, <1>21, <2>1 DEF Kept, ClientOK
  <2>3. Settled(d)
    BY <1>2, Quiet
  <2> QED BY <1>1, <1>2, <1>14, <2>2, <2>3, ClientKept
<1> QED BY <1>14, <1>15, <1>16, <1>17, <1>18, <1>20, <1>21, Parts

(* The other client watches. *)
Others(c) ==
    \A d \in Clients : d # c => Kept(d) /\ (d \in blocked' <=> d \in blocked)

LEMMA CloseOthers ==
    ASSUME IInv, NEW c \in Clients, Close(c)
    PROVE  /\ Others(c) /\ blocked' \subseteq blocked /\ stage' = [stage EXCEPT ![c] = "idle"]
           /\ stopped' \subseteq stopped
           /\ stage' \in [Clients -> Stages] /\ since' \in [Clients -> 0..MaxRev]
           /\ heard' \in [Clients -> 0..MaxRev] /\ seen' \in [Clients -> 0..MaxRev]
           /\ queue' \in [Clients -> Seq(Revs)] /\ sent' \in [Clients -> Seq(Revs)]
           /\ covered' \in [Clients -> BOOLEAN]
           /\ \A d \in Clients : Len(queue'[d]) <= ChanSize
<1>1. /\ stage \in [Clients -> Stages] /\ since \in [Clients -> 0..MaxRev]
      /\ heard \in [Clients -> 0..MaxRev] /\ seen \in [Clients -> 0..MaxRev]
      /\ queue \in [Clients -> Seq(Revs)] /\ sent \in [Clients -> Seq(Revs)]
      /\ covered \in [Clients -> BOOLEAN] /\ "idle" \in Stages /\ 0 \in 0..MaxRev
      /\ <<>> \in Seq(Revs) /\ Len(<<>>) <= ChanSize
  <2>1. /\ stage \in [Clients -> Stages] /\ since \in [Clients -> 0..MaxRev]
        /\ heard \in [Clients -> 0..MaxRev] /\ seen \in [Clients -> 0..MaxRev]
        /\ queue \in [Clients -> Seq(Revs)] /\ sent \in [Clients -> Seq(Revs)]
        /\ covered \in [Clients -> BOOLEAN]
    BY DEF IInv, TypeOK, Revs
  <2>2. "idle" \in Stages /\ 0 \in 0..MaxRev
    BY RevFacts DEF Stages
  <2>3. <<>> \in Seq(Revs) /\ Len(<<>>) <= ChanSize
    BY SizeAssumption
  <2> QED BY <2>1, <2>2, <2>3
<1>2. \A d \in Clients : ClientOK(d) /\ Len(queue[d]) <= ChanSize
  BY ClientFacts
<1>3. Others(c)
  <2> SUFFICES ASSUME NEW d \in Clients, d # c PROVE Kept(d) /\ (d \in blocked' <=> d \in blocked)
    BY DEF Others
  <2> QED BY <1>1, <1>2 DEF Kept, Close, SetStage, ClientOK
<1>4. /\ blocked' \subseteq blocked /\ stage' = [stage EXCEPT ![c] = "idle"]
      /\ stopped' \subseteq stopped
  BY DEF Close, SetStage
<1>5. /\ stage' \in [Clients -> Stages] /\ since' \in [Clients -> 0..MaxRev]
      /\ heard' \in [Clients -> 0..MaxRev] /\ seen' \in [Clients -> 0..MaxRev]
      /\ queue' \in [Clients -> Seq(Revs)] /\ sent' \in [Clients -> Seq(Revs)]
      /\ covered' \in [Clients -> BOOLEAN]
  BY <1>1 DEF Close, SetStage, Forget
<1>6. \A d \in Clients : Len(queue'[d]) <= ChanSize
  BY <1>1, <1>2 DEF Close
<1> QED BY <1>3, <1>4, <1>5, <1>6

(* The request moves on to stage s. *)
LEMMA StageOthers ==
    ASSUME IInv, NEW c \in Clients, NEW s \in Stages, SetStage(c, s),
           UNCHANGED <<queue, seen, sent, covered, stopped, blocked>>,
           since' \in [Clients -> 0..MaxRev], \A d \in Clients : d # c => since'[d] = since[d]
    PROVE  Others(c) /\ stage' \in [Clients -> Stages] /\ stage'[c] = s
<1>1. stage \in [Clients -> Stages] /\ since \in [Clients -> 0..MaxRev]
  BY DEF IInv, TypeOK
<1>2. \A d \in Clients : ClientOK(d)
  BY ClientFacts
<1>3. Others(c)
  <2> SUFFICES ASSUME NEW d \in Clients, d # c PROVE Kept(d) /\ (d \in blocked' <=> d \in blocked)
    BY DEF Others
  <2> QED BY <1>1, <1>2 DEF Kept, SetStage, ClientOK
<1>4. stage' \in [Clients -> Stages] /\ stage'[c] = s
  BY <1>1 DEF SetStage
<1> QED BY <1>3, <1>4

(* A step of one client watch that leaves the ring and the shared watch alone. *)
LEMMA ClientStep ==
    ASSUME IInv, NEW c \in Clients, UNCHANGED <<log, floor, ring, loop, pos, resume, cur, lost>>,
           Others(c), TypeOK', LoopOK', ClientInv(c)',
           stage'[c] \in Booting => stage'[c] = stage[c],
           \A d \in Clients : d # c => stage'[d] = stage[d]
    PROVE  IInv'
<1>1. pos \in Nat /\ cur \in Nat
  BY StateFacts
<1>2. LogOK' /\ Forward /\ Tip' = Tip /\ Tip' \in Nat /\ Ours' = Ours
  BY <1>1, LogKept DEF NoFloor
<1>3. RingOK' /\ RingCovers'
  BY <1>1, <1>2, RingKept
<1>4. BootOK'
  <2>1. stage' \in [Clients -> Stages]
    BY DEF TypeOK, Stages, Booting
  <2> QED BY <2>1, BootKept
<1>5. ASSUME NEW d \in Clients, d # c PROVE ClientInv(d)'
  <2>1. Kept(d) /\ (d \in blocked' <=> d \in blocked)
    BY <1>5 DEF Others
  <2>2. Settled(d)
    BY <2>1, Quiet
  <2> QED BY <1>1, <1>2, <2>1, <2>2, ClientKept
<1> QED BY <1>2, <1>3, <1>4, <1>5, Parts

(* A client watch ends and nothing else changes. *)
LEMMA CloseStep ==
    ASSUME IInv, NEW c \in Clients, Close(c),
           UNCHANGED <<log, compacted, floor, ring, cap, loop, pos, resume, stalled, cur, scanned, lost>>
    PROVE  IInv'
<1>1. TypeOK /\ LoopOK /\ Tip \in Nat /\ Tip' = Tip
  BY StateFacts DEF Tip
<1>2. /\ Others(c) /\ blocked' \subseteq blocked /\ stage' = [stage EXCEPT ![c] = "idle"]
      /\ stopped' \subseteq stopped
      /\ stage' \in [Clients -> Stages] /\ since' \in [Clients -> 0..MaxRev]
      /\ heard' \in [Clients -> 0..MaxRev] /\ seen' \in [Clients -> 0..MaxRev]
      /\ queue' \in [Clients -> Seq(Revs)] /\ sent' \in [Clients -> Seq(Revs)]
      /\ covered' \in [Clients -> BOOLEAN]
      /\ \A d \in Clients : Len(queue'[d]) <= ChanSize
  BY CloseOthers
<1>3. TypeOK'
  <2>1. blocked' \subseteq Clients /\ stopped' \subseteq Clients
    BY <1>1, <1>2 DEF TypeOK
  <2> QED BY <1>1, <1>2, <2>1 DEF TypeOK, NoFloor, Loops, Stages, Booting, Revs
<1>4. LoopOK'
  BY <1>1, <1>2 DEF LoopOK, Fresh, NoFloor, Tip, Ours
<1>5. ClientInv(c)'
  BY <1>1, ClosedFacts
<1>6. stage'[c] = "idle" /\ \A d \in Clients : d # c => stage'[d] = stage[d]
  BY <1>1, <1>2 DEF TypeOK
<1>7. stage'[c] \notin Booting
  BY <1>6 DEF Booting
<1> QED BY <1>2, <1>3, <1>4, <1>5, <1>6, <1>7, ClientStep

LEMMA LeaveInv ==
    ASSUME IInv, NEW c \in Clients, Leave(c)
    PROVE  IInv'
<1>1. Close(c)
  BY DEF Leave
<1>2. UNCHANGED <<log, compacted, floor, ring, cap, loop, pos, resume, stalled, cur, scanned, lost>>
  BY DEF Leave, cacheVars, loopVars
<1> QED BY <1>1, <1>2, CloseStep

(* A request that has not been served yet moves on. *)
LEMMA OpenStep ==
    ASSUME IInv, NEW c \in Clients, NEW s \in Stages \ ({"idle", "serving"} \cup Booting),
           SetStage(c, s), stage[c] # "serving", heard' \in [Clients -> 0..MaxRev],
           s \in {"check", "backfill", "replay", "read"} => since[c] # 0,
           UNCHANGED <<log, compacted, floor, ring, cap, loop, pos, resume, stalled, cur, scanned, lost>>,
           UNCHANGED <<since, queue, seen, sent, covered, stopped, blocked>>
    PROVE  IInv'
<1>1. TypeOK /\ LoopOK /\ Tip \in Nat /\ Tip' = Tip /\ pos \in Nat /\ cur \in Nat
  BY StateFacts DEF Tip
<1>2. Others(c) /\ stage' \in [Clients -> Stages] /\ stage'[c] = s
  <2>1. since' \in [Clients -> 0..MaxRev] /\ \A d \in Clients : d # c => since'[d] = since[d]
    BY <1>1 DEF TypeOK
  <2> QED BY <2>1, StageOthers
<1>3. TypeOK'
  BY <1>1, <1>2 DEF TypeOK, NoFloor, Loops, Stages, Booting
<1>4. LoopOK'
  BY <1>1 DEF LoopOK, Fresh, NoFloor, Tip, Ours
<1>5. ClientInv(c)'
  <2>1. Kept(c)
    <3>1. ClientOK(c)
      BY ClientFacts
    <3>2. c \in blocked => c \notin stopped /\ stage[c] # "idle"
      BY <3>1 DEF ClientOK
    <3> QED BY <1>2, <3>2 DEF Kept
  <2>2. Settled(c)
    BY Quiet
  <2>3. Forward
    BY <1>1, LogKept DEF NoFloor
  <2> QED BY <1>1, <2>1, <2>2, <2>3, ClientKept
<1>6. stage'[c] \notin Booting /\ \A d \in Clients : d # c => stage'[d] = stage[d]
  BY <1>1, <1>2 DEF SetStage, TypeOK
<1> QED BY <1>2, <1>3, <1>4, <1>5, <1>6, ClientStep

LEMMA CheckInv ==
    ASSUME IInv, NEW c \in Clients, Check(c)
    PROVE  IInv'
<1>1. /\ UNCHANGED <<log, compacted, floor, ring, cap, loop, pos, resume, stalled, cur, scanned, lost>>
      /\ UNCHANGED <<since, queue, seen, sent, covered, stopped, blocked>> /\ stage[c] = "check"
  BY DEF Check, cacheVars, loopVars
<1> DEFINE f == IF floor = NoFloor THEN 0 ELSE floor
           s == IF since[c] < f THEN "backfill" ELSE "read"
<1>2. SetStage(c, s) /\ heard' = [heard EXCEPT ![c] = IF since[c] < f THEN f ELSE 0]
  BY DEF Check
<1>3. f \in 0..MaxRev /\ 0 \in 0..MaxRev /\ heard \in [Clients -> 0..MaxRev]
  BY RevFacts DEF IInv, TypeOK
<1>4. heard' \in [Clients -> 0..MaxRev]
  <2> HIDE DEF f
  <2> QED BY <1>2, <1>3
<1>5. s \in Stages \ ({"idle", "serving"} \cup Booting)
  BY DEF Stages, Booting
<1>6. since[c] # 0
  BY <1>1, ClientFacts DEF ClientOK
<1> HIDE DEF s
<1> QED BY <1>1, <1>2, <1>4, <1>5, <1>6, OpenStep

LEMMA BackfillStartInv ==
    ASSUME IInv, NEW c \in Clients, BackfillStart(c)
    PROVE  IInv'
<1>1. /\ UNCHANGED <<log, compacted, floor, ring, cap, loop, pos, resume, stalled, cur, scanned, lost>>
      /\ stage[c] = "backfill"
  BY DEF BackfillStart, cacheVars, loopVars
<1>2. CASE Close(c)
  BY <1>1, <1>2, CloseStep
<1>3. CASE /\ SetStage(c, "replay")
           /\ UNCHANGED <<since, heard, queue, seen, sent, covered, stopped, blocked>>
  <2>1. PICK s : s = "replay"
    OBVIOUS
  <2>2. s \in Stages \ ({"idle", "serving"} \cup Booting)
    BY <2>1 DEF Stages, Booting
  <2>3. since[c] # 0
    BY <1>1, ClientFacts DEF ClientOK
  <2>4. heard' \in [Clients -> 0..MaxRev]
    BY <1>3 DEF IInv, TypeOK
  <2>5. SetStage(c, s)
    BY <1>3, <2>1
  <2>6. stage[c] # "serving"
    BY <1>1
  <2> QED BY <1>1, <1>3, <2>2, <2>3, <2>4, <2>5, <2>6, OpenStep
<1> QED BY <1>2, <1>3 DEF BackfillStart

(* A watch without a revision gets a list of the store. *)
LEMMA SnapshotInv ==
    ASSUME IInv, NEW c \in Clients, Snapshot(c)
    PROVE  IInv'
<1>1. /\ TypeOK /\ LoopOK /\ Tip \in Nat /\ Tip' = Tip /\ Ours' = Ours /\ pos \in Nat
      /\ Tip \in 0..MaxRev /\ pos <= Tip + 1 /\ \A e \in Ours : e \in Nat /\ e > 0
  <2>1. Tip' = Tip /\ Ours' = Ours
    BY DEF Snapshot, Tip, Ours
  <2>2. /\ TypeOK /\ LoopOK /\ Tip \in Nat /\ Tip \in Revs /\ pos \in Nat
        /\ \A e \in Ours : e \in Nat /\ e > 0
    BY StateFacts
  <2>3. Tip \in 0..MaxRev /\ pos <= Tip + 1
    BY <2>2, RevFacts DEF Revs, LoopOK
  <2> QED BY <2>1, <2>2, <2>3
<1>2. /\ UNCHANGED <<log, compacted, floor, ring, cap, loop, pos, resume, stalled, cur, scanned, lost>>
      /\ UNCHANGED <<heard, queue, seen, sent, stopped, blocked>> /\ stage[c] = "list"
      /\ since' = [since EXCEPT ![c] = Tip]
      /\ covered' = [covered EXCEPT ![c] = floor # NoFloor]
      /\ SetStage(c, "serving")
  BY DEF Snapshot, cacheVars, loopVars
<1>3. /\ stage \in [Clients -> Stages] /\ since \in [Clients -> 0..MaxRev]
      /\ covered \in [Clients -> BOOLEAN]
  BY <1>1 DEF TypeOK
<1>4. /\ stage' = [stage EXCEPT ![c] = "serving"] /\ stage'[c] = "serving" /\ since'[c] = Tip
      /\ covered'[c] = (floor # NoFloor)
      /\ \A d \in Clients : d # c => /\ stage'[d] = stage[d] /\ since'[d] = since[d]
                                     /\ covered'[d] = covered[d]
  BY <1>2, <1>3 DEF SetStage
<1>5. /\ stage' \in [Clients -> Stages] /\ since' \in [Clients -> 0..MaxRev]
      /\ covered' \in [Clients -> BOOLEAN]
  <2>1. "serving" \in Stages
    BY DEF Stages
  <2> QED BY <1>1, <1>2, <1>3, <1>4, <2>1
<1>6. Others(c)
  <2> SUFFICES ASSUME NEW d \in Clients, d # c PROVE Kept(d) /\ (d \in blocked' <=> d \in blocked)
    BY DEF Others
  <2>1. ClientOK(d)
    BY ClientFacts
  <2> QED BY <1>2, <1>4, <2>1 DEF Kept, ClientOK
<1>7. TypeOK'
  BY <1>1, <1>2, <1>5 DEF TypeOK, NoFloor, Loops, Stages, Booting
<1>8. LoopOK'
  BY <1>1, <1>2 DEF LoopOK, Fresh, NoFloor
<1>9. ClientInv(c)'
  <2>1. ClientOK(c) /\ QueueOK(c) /\ sent[c] = <<>> /\ seen[c] = 0
    BY <1>2, ClientFacts DEF ClientOK
  <2>2. Range(<<>>) = {} /\ Up(<<>>)
    BY EmptyFacts
  <2>3. Owed(c)' <=> Owed(c)
    BY <1>2 DEF Owed
  <2>4. ClientOK(c)'
    <3>1. covered'[c] => floor' # NoFloor
      BY <1>2, <1>4
    <3>2. since'[c] <= Tip' /\ seen'[c] <= Tip' /\ seen'[c] = 0
      BY <1>1, <1>2, <1>4, <2>1
    <3>3. c \in blocked' => c \notin stopped'
      BY <1>2, <2>1 DEF ClientOK
    <3> QED BY <1>4, <3>1, <3>2, <3>3 DEF ClientOK, NoFloor
  <2>5. QueueOK(c)'
    BY <1>1, <1>2, <2>1, <2>3 DEF QueueOK, Up
  <2>6. SentOK(c)'
    BY <1>2, <2>1, <2>2 DEF SentOK, Up
  <2>7. CoverOK(c)'
    BY <1>1, <1>2, <1>4, <2>1 DEF CoverOK
  <2> QED BY <2>4, <2>5, <2>6, <2>7 DEF ClientInv
<1>10. stage'[c] \notin Booting
  BY <1>4 DEF Booting
<1> QED BY <1>2, <1>4, <1>6, <1>7, <1>8, <1>9, <1>10, ClientStep

(* The history is sent, and live events up to max_seen are to be skipped. *)
LEMMA ReadHistoryInv ==
    ASSUME IInv, NEW c \in Clients, ReadHistory(c)
    PROVE  IInv'
<1>1. /\ TypeOK /\ LogOK /\ LoopOK /\ RingOK /\ RingCovers /\ Tip \in Nat /\ Tip \in Revs
      /\ pos \in Nat /\ floor \in Int /\ Ours \subseteq 1..Tip /\ MaxRev \in Nat
      /\ \A e \in Ours : e \in Nat /\ e > 0 /\ Rv(e) = e
  BY StateFacts
<1>2. /\ UNCHANGED <<log, compacted, floor, ring, cap, loop, pos, resume, stalled, cur, scanned, lost>>
      /\ UNCHANGED <<since, heard, queue, stopped, blocked>> /\ stage[c] = "read"
      /\ covered' = [covered EXCEPT ![c] = floor # NoFloor /\ since[c] >= floor]
      /\ SetStage(c, "serving")
  BY DEF ReadHistory, cacheVars, loopVars
<1>3. Tip' = Tip /\ Ours' = Ours
  BY <1>2 DEF Tip, Ours
<1>4. /\ ClientOK(c) /\ QueueOK(c) /\ since[c] \in Nat /\ since[c] # 0 /\ since[c] <= Tip
      /\ since[c] <= MaxRev
  BY <1>2, ClientFacts DEF ClientOK
<1> DEFINE history == Newer(since[c])
           top == Max({since[c]} \cup {Rv(e) : e \in Range(history)})
<1>5. sent' = [sent EXCEPT ![c] = history] /\ seen' = [seen EXCEPT ![c] = top]
  BY DEF ReadHistory
<1>6. /\ history \in Seq(Revs) /\ Up(history)
      /\ Range(history) = {x \in Range(ring) : x > since[c]}
  BY <1>1, <1>4, NewerFacts, Zenon
<1> HIDE DEF history
<1>7. \A x \in Range(history) : /\ x \in Range(ring) /\ x \in Ours /\ x < pos /\ since[c] < x
                                /\ x \in Nat /\ x <= Tip /\ Rv(x) = x
  <2> SUFFICES ASSUME NEW x \in Range(history)
               PROVE  /\ x \in Range(ring) /\ x \in Ours /\ x < pos /\ since[c] < x
                      /\ x \in Nat /\ x <= Tip /\ Rv(x) = x
    OBVIOUS
  <2>1. x \in Range(ring) /\ x > since[c]
    BY <1>6
  <2>2. x \in Ours /\ x < pos
    BY <1>1, <2>1 DEF RingOK
  <2> QED BY <1>1, <1>4, <2>1, <2>2
<1>8. {Rv(e) : e \in Range(history)} = Range(history)
  BY <1>7
<1>9. /\ top \in {since[c]} \cup Range(history) /\ since[c] <= top
      /\ \A x \in Range(history) : x <= top
  <2> DEFINE S == {since[c]} \cup Range(history)
  <2>1. S \in SUBSET (0..Tip) /\ S # {}
    BY <1>1, <1>4, <1>7
  <2>2. top = Max(S)
    BY <1>8
  <2>3. since[c] \in S /\ \A x \in Range(history) : x \in S
    OBVIOUS
  <2>4. \A x \in S : x \in Nat
    BY <1>4, <1>7
  <2> HIDE DEF S, top
  <2>5. Max(S) \in S /\ \A y \in S : Max(S) >= y
    BY <1>1, <2>1, MaxFacts
  <2>6. top \in S /\ \A y \in S : y <= top
    BY <2>2, <2>4, <2>5
  <2> QED BY <2>3, <2>6 DEF S
<1> HIDE DEF top
<1>10. top \in Nat /\ top # 0 /\ top <= Tip /\ top \in 0..MaxRev
  BY <1>1, <1>4, <1>7, <1>9 DEF Revs
<1>11. /\ stage \in [Clients -> Stages] /\ sent \in [Clients -> Seq(Revs)]
       /\ covered \in [Clients -> BOOLEAN] /\ seen \in [Clients -> 0..MaxRev]
  BY <1>1 DEF TypeOK, Revs
<1>12. /\ stage'[c] = "serving" /\ sent'[c] = history /\ seen'[c] = top
       /\ covered'[c] = (floor # NoFloor /\ since[c] >= floor)
       /\ \A d \in Clients : d # c => /\ stage'[d] = stage[d] /\ sent'[d] = sent[d]
                                      /\ covered'[d] = covered[d] /\ seen'[d] = seen[d]
  BY <1>2, <1>5, <1>11 DEF SetStage
<1>13. /\ stage' \in [Clients -> Stages] /\ sent' \in [Clients -> Seq(Revs)]
       /\ covered' \in [Clients -> BOOLEAN] /\ seen' \in [Clients -> 0..MaxRev]
  <2>1. "serving" \in Stages
    BY DEF Stages
  <2>2. stage' \in [Clients -> Stages] /\ covered' \in [Clients -> BOOLEAN]
    BY <1>2, <1>11, <2>1 DEF SetStage
  <2>3. sent' \in [Clients -> Seq(Revs)] /\ seen' \in [Clients -> 0..MaxRev]
    BY <1>5, <1>6, <1>10, <1>11
  <2> QED BY <2>2, <2>3
<1>14. Others(c)
  <2> SUFFICES ASSUME NEW d \in Clients, d # c PROVE Kept(d) /\ (d \in blocked' <=> d \in blocked)
    BY DEF Others
  <2>1. ClientOK(d)
    BY ClientFacts
  <2> QED BY <1>2, <1>12, <2>1 DEF Kept, ClientOK
<1>15. TypeOK'
  BY <1>1, <1>2, <1>13 DEF TypeOK, NoFloor, Loops, Stages, Booting, Revs
<1>16. LoopOK'
  BY <1>1, <1>2, <1>3 DEF LoopOK, Fresh, NoFloor
<1>17. ClientInv(c)'
  <2>1. Owed(c)' <=> Owed(c)
    BY <1>2 DEF Owed
  <2>2. ClientOK(c)'
    <3>1. covered'[c] => floor' # NoFloor
      BY <1>2, <1>12
    <3>2. since'[c] <= Tip' /\ seen'[c] <= Tip' /\ since'[c] <= seen'[c]
      BY <1>2, <1>3, <1>4, <1>9, <1>10, <1>12
    <3>3. c \in blocked' => c \notin stopped'
      BY <1>2, <1>4 DEF ClientOK
    <3> QED BY <1>12, <3>1, <3>2, <3>3 DEF ClientOK, NoFloor
  <2>3. QueueOK(c)'
    BY <1>2, <1>3, <1>4, <2>1 DEF QueueOK, Up
  <2>4. SentOK(c)'
    <3>1. \A x \in Range(history) : x \in Ours /\ x < pos /\ since[c] < x /\ x <= top
      BY <1>7, <1>9
    <3> QED BY <1>2, <1>3, <1>6, <1>12, <3>1 DEF SentOK, Up
  <2>5. CoverOK(c)'
    <3> SUFFICES ASSUME covered'[c]
                 PROVE  /\ \A x \in Ours : since[c] < x /\ x <= top /\ x \notin lost
                                => x \in Range(history)
                        /\ \A x \in Ours : since[c] < x /\ x < pos /\ x \notin lost
                                => x \in Range(history)
      BY <1>2, <1>3, <1>12 DEF CoverOK
    <3>1. floor # NoFloor /\ since[c] >= floor
      BY <1>12
    <3>2. ASSUME NEW x \in Ours, since[c] < x, x < pos, x \notin lost PROVE x \in Range(history)
      <4>1. floor < x
        BY <1>1, <1>4, <3>1, <3>2
      <4>2. x \in Range(ring)
        BY <1>1, <3>1, <3>2, <4>1 DEF RingCovers
      <4> QED BY <1>1, <1>4, <1>6, <3>2, <4>2
    <3>3. ASSUME NEW x \in Ours, since[c] < x, x <= top PROVE x < pos
      <4>1. top \in Range(history)
        BY <1>1, <1>4, <1>9, <1>10, <3>3
      <4> QED BY <1>1, <1>7, <1>10, <3>3, <4>1
    <3> QED BY <3>2, <3>3
  <2> QED BY <2>2, <2>3, <2>4, <2>5 DEF ClientInv
<1>18. stage'[c] \notin Booting
  BY <1>12 DEF Booting
<1> QED BY <1>2, <1>12, <1>14, <1>15, <1>16, <1>17, <1>18, ClientStep

LEMMA SubscribeInv ==
    ASSUME IInv, NEW c \in Clients, NEW r \in 0..Tip, Subscribe(c, r)
    PROVE  IInv'
<1>1. /\ TypeOK /\ LoopOK /\ BootOK /\ Tip \in Nat /\ Tip \in Revs /\ MaxRev \in Nat
      /\ pos \in Nat /\ cur \in Nat
  BY StateFacts
<1>2. /\ UNCHANGED <<log, compacted, floor, ring, cap, pos, resume, stalled, cur, scanned, lost>>
      /\ UNCHANGED <<heard, queue, seen, sent, covered, stopped, blocked>> /\ stage[c] = "idle"
      /\ since' = [since EXCEPT ![c] = r]
  BY DEF Subscribe, cacheVars
<1> DEFINE s == IF loop = "absent" THEN "boot" ELSE IF r = 0 THEN "list" ELSE "check"
<1>3. /\ SetStage(c, s) /\ (loop = "absent" => loop' = "boot") /\ (loop # "absent" => loop' = loop)
  BY DEF Subscribe
<1>4. s \in Stages /\ s \notin {"idle", "serving", "backfill", "replay", "read"}
      /\ (s = "check" => r # 0) /\ (s \in Booting => loop = "absent" /\ s = "boot")
  BY DEF Stages, Booting
<1> HIDE DEF s
<1>5. r \in Nat /\ r <= Tip /\ r \in 0..MaxRev /\ since \in [Clients -> 0..MaxRev]
  <2>1. since \in [Clients -> 0..MaxRev]
    BY <1>1 DEF TypeOK
  <2>2. r \in Nat /\ r <= Tip /\ r \in 0..MaxRev
    BY <1>1 DEF Revs
  <2> QED BY <2>1, <2>2
<1>6. since' \in [Clients -> 0..MaxRev] /\ since'[c] = r
      /\ \A d \in Clients : d # c => since'[d] = since[d]
  BY <1>2, <1>5
<1>7. Others(c) /\ stage' \in [Clients -> Stages] /\ stage'[c] = s
  BY <1>2, <1>3, <1>4, <1>6, StageOthers
<1>8. \A d \in Clients : d # c => stage'[d] = stage[d]
  BY <1>1, <1>3 DEF SetStage, TypeOK
<1>9. LogOK' /\ Forward /\ Tip' = Tip /\ Tip' \in Nat /\ Ours' = Ours
  BY <1>1, <1>2, LogKept DEF NoFloor
<1>10. TypeOK'
  <2>1. loop' \in Loops
    BY <1>1, <1>3 DEF TypeOK, Loops
  <2> QED BY <1>1, <1>2, <1>6, <1>7, <2>1 DEF TypeOK, NoFloor, Stages, Booting
<1>11. LoopOK'
  BY <1>1, <1>2, <1>3, <1>9 DEF LoopOK, Fresh, NoFloor
<1>12. BootOK'
  <2>1. CASE loop = "absent"
    <3>1. \A d \in Clients : stage[d] \notin Booting
      BY <1>1, <2>1 DEF BootOK
    <3>2. Fresh /\ loop' = "boot" /\ stage'[c] = "boot"
      BY <1>1, <1>3, <1>7, <2>1 DEF LoopOK, s
    <3>3. Fresh'
      BY <1>2, <3>2 DEF Fresh, NoFloor
    <3>4. \A d \in Clients : stage'[d] \in Booting => d = c
      BY <1>8, <3>1
    <3> QED BY <3>2, <3>3, <3>4 DEF BootOK, Booting, NoFloor
  <2>2. CASE loop # "absent"
    <3>1. stage'[c] \notin Booting /\ loop' = loop
      BY <1>3, <1>4, <1>7, <2>2
    <3> QED BY <1>2, <1>7, <1>8, <3>1, BootKept
  <2> QED BY <2>1, <2>2
<1>13. RingOK' /\ RingCovers'
  BY <1>1, <1>2, <1>9, RingKept
<1>14. ASSUME NEW d \in Clients, d # c PROVE ClientInv(d)'
  <2>1. Kept(d) /\ (d \in blocked' <=> d \in blocked)
    BY <1>14, <1>7 DEF Others
  <2>2. Settled(d)
    BY <1>2, <1>3 DEF Settled, Owed
  <2> QED BY <1>1, <1>2, <1>9, <2>1, <2>2, ClientKept
<1>15. ClientInv(c)'
  <2>1. /\ queue[c] = <<>> /\ sent[c] = <<>> /\ seen[c] = 0 /\ ~covered[c]
        /\ c \notin stopped /\ c \notin blocked
    BY <1>2, ClientFacts DEF ClientOK
  <2>2. Range(<<>>) = {} /\ Up(<<>>)
    BY EmptyFacts
  <2>3. ClientOK(c)'
    BY <1>1, <1>2, <1>4, <1>5, <1>6, <1>7, <1>9, <2>1 DEF ClientOK
  <2>4. QueueOK(c)' /\ SentOK(c)'
    BY <1>2, <2>1, <2>2 DEF QueueOK, SentOK, Up
  <2>5. CoverOK(c)'
    BY <1>2, <2>1 DEF CoverOK
  <2> QED BY <2>3, <2>4, <2>5 DEF ClientInv
<1> QED BY <1>9, <1>10, <1>11, <1>12, <1>13, <1>14, <1>15, Parts

LEMMA BootFloorInv ==
    ASSUME IInv, NEW c \in Clients, BootFloor(c)
    PROVE  IInv'
<1>1. /\ TypeOK /\ LoopOK /\ BootOK /\ Tip \in Nat /\ Tip \in Revs /\ MaxRev \in Nat
      /\ pos \in Nat /\ cur \in Nat
  BY StateFacts
<1>2. /\ UNCHANGED <<log, compacted, ring, cap, loop, stalled, cur, scanned, lost>>
      /\ UNCHANGED <<since, heard, queue, seen, sent, covered, stopped, blocked>>
      /\ stage[c] = "boot" /\ resume' = floor' /\ pos' = floor' + 1 /\ SetStage(c, "connect")
      /\ floor' \in {since[c], Tip, 0}
  BY DEF BootFloor
<1>3. /\ loop = "boot" /\ Fresh /\ blocked = {} /\ cur = 0
      /\ \A d \in Clients : stage[d] \in Booting => d = c
  BY <1>1, <1>2 DEF BootOK, Booting, LoopOK
<1>4. since[c] \in Nat /\ since[c] <= Tip /\ Tip <= MaxRev
  <2>1. ClientOK(c) /\ since[c] \in Nat
    BY ClientFacts
  <2> QED BY <1>1, <2>1 DEF ClientOK, Revs
<1>5. /\ floor' \in Nat /\ floor' <= Tip /\ floor' \in 0..MaxRev /\ pos' \in Nat
      /\ pos' \in 1..(MaxRev + 1) /\ floor' # NoFloor /\ pos = 1 /\ pos <= pos'
  BY <1>1, <1>2, <1>3, <1>4 DEF Fresh, NoFloor
<1>6. Others(c) /\ stage' \in [Clients -> Stages] /\ stage'[c] = "connect"
  <2>1. PICK s : s = "connect"
    OBVIOUS
  <2>2. s \in Stages /\ SetStage(c, s)
    BY <1>2, <2>1 DEF Stages, Booting
  <2>3. since' \in [Clients -> 0..MaxRev] /\ \A d \in Clients : d # c => since'[d] = since[d]
    BY <1>1, <1>2 DEF TypeOK
  <2> QED BY <1>2, <2>1, <2>2, <2>3, StageOthers
<1>7. \A d \in Clients : d # c => stage'[d] = stage[d]
  BY <1>1, <1>2 DEF SetStage, TypeOK
<1>8. LogOK' /\ Forward /\ Tip' = Tip /\ Tip' \in Nat /\ Ours' = Ours
  BY <1>1, <1>2, <1>5, LogKept DEF NoFloor
<1>9. TypeOK'
  BY <1>1, <1>2, <1>5, <1>6 DEF TypeOK, NoFloor, Loops, Stages, Booting
<1>10. LoopOK'
  <2>1. floor' < pos' /\ pos' <= Tip' + 1
    BY <1>1, <1>2, <1>5, <1>8
  <2> QED BY <1>2, <1>3, <1>5, <2>1 DEF LoopOK, NoFloor
<1>11. BootOK'
  <2>1. \A d \in Clients : stage'[d] \in Booting => d = c
    BY <1>3, <1>7
  <2> QED BY <1>2, <1>3, <1>5, <1>6, <2>1 DEF BootOK, Booting, NoFloor
<1>12. RingOK' /\ RingCovers'
  <2>1. ring' = <<>>
    BY <1>2, <1>3 DEF Fresh
  <2>2. RingOK'
    BY <2>1, EmptyFacts DEF RingOK, Up
  <2>3. \A e \in Ours' : e \in Nat
    BY <1>8, StateFacts
  <2>4. \A e \in Ours' : ~(floor' < e /\ e < pos')
    BY <1>2, <1>5, <2>3
  <2> QED BY <2>2, <2>4 DEF RingCovers
<1>13. ASSUME NEW d \in Clients PROVE ClientInv(d)'
  <2>1. Kept(d)
    <3>1. CASE d = c
      <4>1. ClientOK(c)
        BY ClientFacts
      <4> QED BY <1>2, <1>6, <3>1, <4>1 DEF Kept, ClientOK
    <3>2. CASE d # c
      BY <1>6, <3>2 DEF Others
    <3> QED BY <3>1, <3>2
  <2>2. Settled(d)
    <3>1. ~covered[d]
      BY <1>3, ClientFacts DEF ClientOK, Fresh
    <3> QED BY <1>2, <1>3, <3>1 DEF Settled, Owed
  <2> QED BY <1>1, <1>2, <1>5, <1>8, <2>1, <2>2, ClientKept
<1> QED BY <1>8, <1>9, <1>10, <1>11, <1>12, <1>13, Parts

LEMMA BootConnectInv ==
    ASSUME IInv, NEW c \in Clients, BootConnect(c)
    PROVE  IInv'
<1>1. /\ TypeOK /\ LoopOK /\ BootOK /\ Tip \in Nat /\ MaxRev \in Nat
      /\ pos \in Nat /\ cur \in Nat /\ resume \in Nat /\ floor \in Int
  BY StateFacts
<1>2. /\ UNCHANGED <<log, compacted, floor, ring, cap, stalled, cur, scanned>>
      /\ UNCHANGED <<since, heard, queue, seen, sent, covered, stopped, blocked>>
      /\ stage[c] = "connect" /\ SetStage(c, Opened(c))
  BY DEF BootConnect, cacheVars
<1>3. /\ loop = "boot" /\ blocked = {} /\ cur = 0 /\ floor # NoFloor
      /\ \A d \in Clients : stage[d] \in Booting => d = c
  BY <1>1, <1>2 DEF BootOK, Booting, LoopOK
<1>4. /\ resume' \in {0, resume} /\ loop' \in {"up", "down"}
      /\ pos' \in 1..(MaxRev + 1) /\ pos <= pos' /\ pos' <= Tip + 1
      /\ resume' # 0 => pos' = resume' + 1
      /\ lost \subseteq lost' /\ lost' \subseteq Revs
      /\ \A e \in Ours : e < pos' => e < pos \/ e \in lost'
  <2>1. CASE StartAt(resume) /\ resume' = resume
    <3>1. PICK r \in {0, resume} : r = resume /\ StartAt(r)
      BY <2>1
    <3> QED BY <2>1, <3>1, StartAtFacts
  <2>2. CASE loop' = "down" /\ resume' = 0 /\ UNCHANGED <<pos, lost>>
    BY <1>1, <2>2 DEF LoopOK, TypeOK, Revs
  <2> QED BY <2>1, <2>2 DEF BootConnect
<1>5. Opened(c) \in Stages /\ Opened(c) \in {"list", "check"} /\ (Opened(c) = "check" => since[c] # 0)
  BY DEF Opened, Stages
<1>6. Others(c) /\ stage' \in [Clients -> Stages] /\ stage'[c] = Opened(c)
  <2>1. since' \in [Clients -> 0..MaxRev] /\ \A d \in Clients : d # c => since'[d] = since[d]
    BY <1>1, <1>2 DEF TypeOK
  <2> QED BY <1>2, <1>5, <2>1, StageOthers
<1>7. \A d \in Clients : d # c => stage'[d] = stage[d]
  BY <1>1, <1>2 DEF SetStage, TypeOK
<1>8. LogOK' /\ Forward /\ Tip' = Tip /\ Tip' \in Nat /\ Ours' = Ours
  BY <1>1, <1>2, <1>4, LogKept DEF NoFloor
<1>9. TypeOK'
  BY <1>1, <1>2, <1>4, <1>6 DEF TypeOK, NoFloor, Loops, Stages, Booting, Revs
<1>10. LoopOK'
  <2>1. floor' < pos' /\ pos' <= Tip' + 1
    BY <1>1, <1>2, <1>4, <1>8 DEF LoopOK
  <2> QED BY <1>2, <1>3, <1>4, <2>1 DEF LoopOK, NoFloor
<1>11. BootOK'
  <2>1. \A d \in Clients : stage'[d] \notin Booting
    BY <1>3, <1>5, <1>6, <1>7 DEF Booting
  <2> QED BY <2>1 DEF BootOK, Booting
<1>12. RingOK' /\ RingCovers'
  BY <1>1, <1>2, <1>4, <1>8, RingKept
<1>13. ASSUME NEW d \in Clients PROVE ClientInv(d)'
  <2>1. Kept(d)
    <3>1. CASE d = c
      <4>1. ClientOK(c)
        BY ClientFacts
      <4> QED BY <1>2, <1>5, <1>6, <3>1, <4>1 DEF Kept, ClientOK
    <3>2. CASE d # c
      BY <1>6, <3>2 DEF Others
    <3> QED BY <3>1, <3>2
  <2>2. Settled(d)
    BY <1>2, <1>3, <1>4, <1>8 DEF Settled, Owed
  <2> QED BY <1>1, <1>2, <1>4, <1>8, <2>1, <2>2, ClientKept
<1> QED BY <1>8, <1>9, <1>10, <1>11, <1>12, <1>13, Parts

(* The gap goes before the ring and the floor down. *)
LEMMA BackfillApplyInv ==
    ASSUME IInv, NEW c \in Clients, BackfillApply(c)
    PROVE  IInv'
<1>1. /\ TypeOK /\ LogOK /\ LoopOK /\ BootOK /\ RingOK /\ RingCovers /\ Tip \in Nat /\ MaxRev \in Nat
      /\ pos \in Nat /\ cur \in Nat /\ floor \in Int /\ ring \in Seq(Revs) /\ Len(ring) \in Nat
      /\ Ours \subseteq Revs /\ (\A e \in Ours : Rv(e) = e /\ e \in Nat)
      /\ cap \in Nat /\ UpperCap \in Nat /\ LowerCap \in Nat
  BY StateFacts
<1>2. UNCHANGED <<log, compacted, loop, pos, resume, stalled, cur, scanned>> /\ stage[c] = "replay"
  BY DEF BackfillApply, loopVars
<1>3. since[c] \in Nat /\ since[c] # 0 /\ since[c] <= MaxRev /\ ClientOK(c)
  BY <1>2, ClientFacts DEF ClientOK
<1> DEFINE Gap(end) == {e \in Ours : since[c] < e /\ e <= end /\ Rv(e) > since[c]}
<1>4. CASE Close(c) /\ UNCHANGED <<cacheVars, lost>>
  BY <1>2, <1>4, CloseStep DEF cacheVars
<1>5. CASE /\ SetStage(c, "read") /\ Forget(c)
           /\ UNCHANGED <<cacheVars, since, queue, seen, sent, covered, stopped, blocked, lost>>
  <2>1. PICK s : s = "read"
    OBVIOUS
  <2>2. s \in Stages \ ({"idle", "serving"} \cup Booting) /\ SetStage(c, s)
    BY <1>5, <2>1 DEF Stages, Booting
  <2>3. heard' \in [Clients -> 0..MaxRev]
    BY <1>1, <1>5 DEF TypeOK, Forget
  <2>4. stage[c] # "serving"
    BY <1>2
  <2> QED BY <1>2, <1>3, <1>5, <2>2, <2>3, <2>4, OpenStep DEF cacheVars
<1>6. ASSUME NEW end, Len(ring) + Cardinality(Gap(end)) <= UpperCap, floor > since[c],
             ring' = InRvOrder({e \in Gap(end) : Rv(e) <= floor}) \o ring,
             cap' = MaxOf(cap, Len(ring) + Cardinality(Gap(end))), floor' = since[c],
             lost' = lost \cup ({e \in Ours : since[c] < e /\ e <= floor} \ Gap(end)),
             SetStage(c, "read"), Forget(c),
             UNCHANGED <<since, queue, seen, sent, covered, stopped, blocked>>
      PROVE  IInv'
  <2> DEFINE G == {e \in Gap(end) : Rv(e) <= floor}
             H == Gap(end)
             q == InRvOrder(G)
  <2>1. /\ G \subseteq H /\ H \subseteq Ours
        /\ \A e \in Ours : e \in H => since[c] < e
        /\ \A e \in Ours : e \in G <=> e \in H /\ e <= floor
    BY <1>1
  <2>2. ring' = q \o ring /\ cap' = MaxOf(cap, Len(ring) + Cardinality(H))
        /\ Len(ring) + Cardinality(H) <= UpperCap
        /\ lost' = lost \cup ({e \in Ours : since[c] < e /\ e <= floor} \ H)
    BY <1>6
  <2> HIDE DEF G, H
  <2>3. q \in Seq(Revs) /\ Up(q) /\ Range(q) = G /\ Len(q) = Cardinality(G)
    BY <1>1, <2>1, InRvOrderFacts, Zenon
  <2> HIDE DEF q
  <2>4. /\ Cardinality(G) \in Nat /\ Cardinality(H) \in Nat /\ Cardinality(G) <= Cardinality(H)
    <3>1. IsFiniteSet(H) /\ Cardinality(H) \in Nat
      BY <1>1, <2>1, RevFacts
    <3> QED BY <2>1, <3>1, FS_Subset, FS_CardinalityType
  <2>5. \A x \in Range(ring) : x \in Ours /\ floor < x /\ x < pos
    BY <1>1 DEF RingOK
  <2>6. \A x \in Range(q) : x \in Ours /\ x <= floor /\ since[c] < x
    BY <2>1, <2>3
  <2>7. \A x \in Range(q), y \in Range(ring) : x < y
    BY <1>1, <2>5, <2>6
  <2>8. /\ ring' \in Seq(Revs) /\ Len(ring') = Len(q) + Len(ring) /\ Up(ring')
        /\ Range(ring') = Range(q) \cup Range(ring)
    BY <1>1, <2>2, <2>3, <2>7, ConcatFacts DEF RingOK
  <2>9. Len(ring') <= cap' /\ cap' \in LowerCap..UpperCap
    <3>1. LowerCap <= cap /\ cap <= UpperCap
      BY <1>1 DEF TypeOK
    <3> QED BY <1>1, <2>2, <2>3, <2>4, <2>8, <3>1 DEF MaxOf
  <2>10. /\ floor # NoFloor /\ floor' # NoFloor /\ floor' \in 0..MaxRev /\ floor' < floor
         /\ floor < pos /\ floor' < pos /\ floor' \in Nat
    BY <1>1, <1>3, <1>6 DEF NoFloor, LoopOK
  <2>11. lost \subseteq lost' /\ lost' \subseteq Revs
    BY <1>1, <2>2 DEF TypeOK, Revs
  <2>12. LogOK' /\ Forward /\ Tip' = Tip /\ Tip' \in Nat /\ Ours' = Ours
    BY <1>1, <1>2, <2>10, <2>11, LogKept DEF NoFloor
  <2>13. Others(c) /\ stage' \in [Clients -> Stages] /\ stage'[c] = "read"
    <3>1. PICK s : s = "read"
      OBVIOUS
    <3>2. s \in Stages /\ SetStage(c, s)
      BY <1>6, <3>1 DEF Stages, Booting
    <3>3. since' \in [Clients -> 0..MaxRev] /\ \A d \in Clients : d # c => since'[d] = since[d]
      BY <1>1, <1>6 DEF TypeOK
    <3> QED BY <1>6, <3>1, <3>2, <3>3, StageOthers
  <2>14. \A d \in Clients : d # c => stage'[d] = stage[d]
    BY <1>1, <1>6 DEF SetStage, TypeOK
  <2>15. heard' \in [Clients -> 0..MaxRev]
    BY <1>1, <1>6 DEF TypeOK, Forget
  <2>16. TypeOK'
    BY <1>1, <1>2, <1>6, <2>8, <2>9, <2>10, <2>11, <2>13, <2>15
       DEF TypeOK, NoFloor, Loops, Stages, Booting, Revs
  <2>17. LoopOK'
    BY <1>1, <1>2, <1>6, <2>10, <2>12 DEF LoopOK, Fresh, NoFloor
  <2>18. BootOK'
    <3>1. \A d \in Clients : stage'[d] \in Booting => stage[d] = stage'[d] /\ stage[d] = "connect"
      BY <1>1, <2>10, <2>13, <2>14 DEF BootOK, Booting, Fresh
    <3> QED BY <1>1, <1>2, <2>10, <3>1 DEF BootOK, Booting, NoFloor
  <2>19. RingOK'
    <3>1. \A x \in Range(q) : x \in Ours /\ floor' < x /\ x < pos
      BY <1>1, <1>6, <2>6, <2>10
    <3>2. \A x \in Range(ring) : floor' < x
      BY <1>1, <2>5, <2>10
    <3>3. \A x \in Range(ring') : x \in Ours /\ floor' < x /\ x < pos
      BY <2>5, <2>8, <3>1, <3>2
    <3> QED BY <1>2, <2>8, <2>12, <3>3 DEF RingOK, Up
  <2>20. RingCovers'
    <3> SUFFICES ASSUME NEW x \in Ours, since[c] < x, x < pos PROVE x \in Range(ring') \cup lost'
      BY <1>2, <1>6, <2>12 DEF RingCovers
    <3>1. CASE x <= floor
      BY <2>1, <2>2, <2>3, <2>8, <3>1
    <3>2. CASE floor < x
      <4>1. x \in Range(ring) \cup lost
        BY <1>1, <2>10, <3>2 DEF RingCovers
      <4> QED BY <2>8, <2>11, <4>1
    <3> QED BY <1>1, <3>1, <3>2
  <2>21. ASSUME NEW d \in Clients PROVE ClientInv(d)'
    <3>1. Kept(d)
      <4>1. CASE d = c
        BY <1>2, <1>3, <1>6, <2>13, <4>1 DEF Kept, ClientOK
      <4>2. CASE d # c
        BY <2>13, <4>2 DEF Others
      <4> QED BY <4>1, <4>2
    <3>2. Settled(d)
      BY <1>2, <1>6, Quiet
    <3> QED BY <1>1, <1>2, <2>12, <3>1, <3>2, ClientKept
  <2> QED BY <2>12, <2>16, <2>17, <2>18, <2>19, <2>20, <2>21, Parts
<1>7. PICK end \in ReplayEnds(c) :
        \/ /\ SetStage(c, "read") /\ Forget(c)
           /\ UNCHANGED <<cacheVars, since, queue, seen, sent, covered, stopped, blocked, lost>>
        \/ /\ Len(ring) + Cardinality(Gap(end)) <= UpperCap /\ floor > since[c]
           /\ ring' = InRvOrder({e \in Gap(end) : Rv(e) <= floor}) \o ring
           /\ cap' = MaxOf(cap, Len(ring) + Cardinality(Gap(end)))
           /\ floor' = since[c]
           /\ lost' = lost \cup ({e \in Ours : since[c] < e /\ e <= floor} \ Gap(end))
           /\ SetStage(c, "read") /\ Forget(c)
           /\ UNCHANGED <<since, queue, seen, sent, covered, stopped, blocked>>
        \/ Close(c) /\ UNCHANGED <<cacheVars, lost>>
  BY DEF BackfillApply
<1> HIDE DEF Gap
<1> QED BY <1>4, <1>5, <1>6, <1>7

-----------------------------------------------------------------------------
(* The invariant. *)

LEMMA InitInv ==
    ASSUME Init
    PROVE  IInv
<1>1. /\ MaxRev \in Nat \ {0} /\ LowerCap \in LowerCap..UpperCap /\ 0 <= LowerCap /\ 0 <= ChanSize
  BY SizeAssumption
<1>2. /\ log = <<0>> /\ compacted = 0
      /\ floor = NoFloor /\ ring = <<>> /\ cap = LowerCap
      /\ loop = "absent" /\ pos = 1 /\ resume = 0 /\ stalled = FALSE /\ cur = 0
      /\ blocked = {} /\ scanned = FALSE /\ stopped = {} /\ lost = {}
      /\ stage = [c \in Clients |-> "idle"]
      /\ since = [c \in Clients |-> 0]
      /\ heard = [c \in Clients |-> 0]
      /\ queue = [c \in Clients |-> <<>>]
      /\ seen = [c \in Clients |-> 0]
      /\ sent = [c \in Clients |-> <<>>]
      /\ covered = [c \in Clients |-> FALSE]
  BY DEF Init
<1>3. Tip = 1 /\ log[1] = 0 /\ Ours = {}
  <2>1. Tip = 1 /\ log[1] = 0
    BY <1>2 DEF Tip
  <2> QED BY <2>1 DEF Ours
<1>4. Range(<<>>) = {} /\ Up(<<>>) /\ <<>> \in Seq(1..MaxRev) /\ Len(<<>>) = 0
  BY EmptyFacts
<1>5. TypeOK
  <2>1. log \in Seq(0..MaxRev) /\ Len(log) \in 1..MaxRev
    BY <1>1, <1>2
  <2>2. /\ stage \in [Clients -> Stages]
        /\ since \in [Clients -> 0..MaxRev] /\ heard \in [Clients -> 0..MaxRev]
        /\ seen \in [Clients -> 0..MaxRev] /\ covered \in [Clients -> BOOLEAN]
    BY <1>1, <1>2 DEF Stages
  <2>3. /\ queue \in [Clients -> Seq(1..MaxRev)] /\ sent \in [Clients -> Seq(1..MaxRev)]
        /\ \A c \in Clients : Len(queue[c]) <= ChanSize
    BY <1>1, <1>2, <1>4
  <2>4. /\ compacted \in 0..MaxRev /\ floor \in {NoFloor} \cup 0..MaxRev
        /\ ring \in Seq(1..MaxRev) /\ Len(ring) <= cap /\ cap \in LowerCap..UpperCap
        /\ loop \in Loops
        /\ pos \in 1..(MaxRev + 1) /\ resume \in 0..MaxRev /\ cur \in 0..MaxRev
        /\ stalled \in BOOLEAN /\ scanned \in BOOLEAN
        /\ blocked \subseteq Clients /\ stopped \subseteq Clients /\ lost \subseteq 1..MaxRev
    <3>1. LowerCap \in Nat /\ Len(ring) <= cap
      BY <1>2, <1>4, SizeAssumption
    <3>2. 0 \in 0..MaxRev /\ 1 \in 1..(MaxRev + 1)
      BY <1>1
    <3> QED BY <1>1, <1>2, <1>4, <3>1, <3>2 DEF Loops
  <2> QED BY <2>1, <2>2, <2>3, <2>4 DEF TypeOK
<1>6. LogOK
  BY <1>3 DEF LogOK
<1>7. LoopOK
  BY <1>2, <1>3 DEF LoopOK, Fresh, NoFloor
<1>8. BootOK
  BY <1>2 DEF BootOK, Booting
<1>9. RingOK /\ RingCovers
  BY <1>2, <1>3, <1>4 DEF RingOK, RingCovers
<1>10. ClientsOK
  <2> SUFFICES ASSUME NEW c \in Clients
               PROVE  ClientOK(c) /\ QueueOK(c) /\ SentOK(c) /\ CoverOK(c)
    BY DEF ClientsOK
  <2>1. /\ stage[c] = "idle" /\ since[c] = 0 /\ queue[c] = <<>> /\ seen[c] = 0
        /\ sent[c] = <<>> /\ covered[c] = FALSE /\ c \notin stopped /\ c \notin blocked
    BY <1>2
  <2> QED BY <1>3, <1>4, <2>1 DEF ClientOK, QueueOK, SentOK, CoverOK
<1> QED BY <1>5, <1>6, <1>7, <1>8, <1>9, <1>10 DEF IInv

LEMMA StutterInv ==
    ASSUME IInv, UNCHANGED vars
    PROVE  IInv'
BY DEF IInv, vars, cacheVars, loopVars, clientVars, TypeOK, LogOK, LoopOK, Fresh, BootOK, RingOK,
       RingCovers, ClientsOK, ClientOK, QueueOK, SentOK, CoverOK, Owed, Up, Tip, Ours, NoFloor,
       Loops, Stages, Booting

LEMMA NextInv ==
    ASSUME ~References, IInv, [Next]_vars
    PROVE  IInv'
<1>1. ASSUME NEW c \in Clients, NEW r \in 0..Tip, Subscribe(c, r) PROVE IInv'
  BY <1>1, SubscribeInv
<1>2. ASSUME NEW c \in Clients, Open(c) PROVE IInv'
  BY <1>2, BootFloorInv, BootConnectInv, CheckInv, BackfillStartInv, BackfillApplyInv,
     ReadHistoryInv, SnapshotInv DEF Open
<1>3. ASSUME NEW c \in Clients, Deliver(c) \/ Leave(c) \/ Unblock(c) \/ Terminate(c) PROVE IInv'
  BY <1>3, DeliverInv, LeaveInv, UnblockInv, TerminateInv
<1>4. CASE Write \/ Compact \/ Connect \/ Receive \/ Dispatch \/ DispatchDone
  BY <1>4, WriteInv, CompactInv, ConnectInv, ReceiveInv, DispatchInv, DispatchDoneInv
<1>5. CASE StreamEnd \/ Stall \/ Watchdog \/ GcScan \/ GcTrim
  BY <1>5, StreamEndInv, StallInv, GcScanInv, GcTrimInv DEF Watchdog
<1>6. CASE UNCHANGED vars
  BY <1>6, StutterInv
<1> QED BY <1>1, <1>2, <1>3, <1>4, <1>5, <1>6 DEF Next

-----------------------------------------------------------------------------
(* The theorems. *)

(* The cache, the shared watch and every client watch keep the invariant     *)
(* through every interleaving of writes, compactions, subscriptions,         *)
(* backfills, deliveries, reconnects and trims.                              *)
THEOREM Invariance ==
    ASSUME ~References
    PROVE  Spec => []IInv
<1>1. Init => IInv
  BY InitInv
<1>2. IInv /\ [Next]_vars => IInv'
  BY NextInv
<1> QED BY <1>1, <1>2, PTL DEF Spec

(* The ring never holds more than its capacity, the capacity stays within    *)
(* its bounds and no input channel exceeds its size.                         *)
THEOREM TypeCorrect ==
    ASSUME ~References
    PROVE  Spec => []TypeOK
<1>1. IInv => TypeOK
  BY DEF IInv
<1> QED BY <1>1, Invariance, PTL

(* append_to_ring, backfill_ring and gc_idle_history keep the ring in        *)
(* revision order and above its floor.                                       *)
THEOREM Ordered ==
    ASSUME ~References
    PROVE  Spec => []RingOrdered
<1>1. ASSUME IInv PROVE RingOrdered
  <2>1. /\ TypeOK /\ LogOK /\ RingOK /\ ring \in Seq(Revs)
        /\ \A e \in Ours : Rv(e) = e
    BY <1>1, StateFacts
  <2>2. Range(ring) \subseteq Ours /\ \A e \in Range(ring) : floor < e
    BY <2>1 DEF RingOK
  <2>3. Ascending(ring)
    BY <2>1, <2>2, AscendingFacts DEF RingOK
  <2>4. ASSUME NEW e \in Range(ring) PROVE Rv(e) > floor
    <3>1. e \in Nat /\ floor \in Int
      BY <1>1, <2>2, StateFacts
    <3> QED BY <2>1, <2>2, <3>1
  <2> QED BY <2>3, <2>4 DEF RingOrdered
<1> QED BY <1>1, Invariance, PTL

(* The ring holds every event above its floor that the shared watch has      *)
(* received and that was not left out by a watch started at the tail or a    *)
(* replay cut short.                                                         *)
THEOREM Complete ==
    ASSUME ~References
    PROVE  Spec => []RingCovers
<1>1. IInv => RingCovers
  BY DEF IInv
<1> QED BY <1>1, Invariance, PTL

(* process() hands a client each event once, in order and past the revision  *)
(* it asked for, from the history and the queue together.                    *)
THEOREM Once ==
    ASSUME ~References
    PROVE  Spec => []DeliveredOnce
<1>1. ASSUME IInv PROVE DeliveredOnce
  <2> SUFFICES ASSUME NEW c \in Clients
               PROVE  Ascending(sent[c]) /\ \A e \in Range(sent[c]) : Rv(e) > since[c]
    BY DEF DeliveredOnce
  <2>1. /\ SentOK(c) /\ sent[c] \in Seq(Revs) /\ since[c] \in Nat
        /\ TypeOK /\ LogOK /\ \A e \in Ours : Rv(e) = e /\ e \in Nat
    BY <1>1, ClientFacts, StateFacts
  <2>2. /\ Up(sent[c]) /\ Range(sent[c]) \subseteq Ours
        /\ \A e \in Range(sent[c]) : since[c] < e
    BY <2>1 DEF SentOK
  <2>3. Ascending(sent[c])
    BY <2>1, <2>2, AscendingFacts
  <2>4. \A e \in Range(sent[c]) : Rv(e) > since[c]
    BY <2>1, <2>2
  <2> QED BY <2>3, <2>4
<1> QED BY <1>1, Invariance, PTL

(* A watch admitted at or above the floor has been sent, or has in its       *)
(* queue, every event dispatched since its revision.                         *)
THEOREM Missed ==
    ASSUME ~References
    PROVE  Spec => []NothingMissed
<1>1. ASSUME IInv PROVE NothingMissed
  <2> SUFFICES ASSUME NEW c \in Live, NEW e \in Ours, covered[c], since[c] < e, e < pos,
                      e \notin lost, e = cur => loop = "blocked" /\ c \notin blocked
               PROVE  e \in Range(sent[c]) \cup Range(queue[c])
    BY DEF NothingMissed
  <2>1. c \in Clients /\ c \notin stopped
    BY DEF Live
  <2>2. CoverOK(c)
    BY <1>1, <2>1, ClientFacts
  <2>3. Owed(c) => e # cur
    BY DEF Owed
  <2> QED BY <2>1, <2>2, <2>3 DEF CoverOK
<1> QED BY <1>1, Invariance, PTL

(* process() skips a live event only if the client of a covered watch has it *)
(* already or it is not past the revision asked for.                         *)
THEOREM SkipsAreSeen ==
    ASSUME ~References
    PROVE  Spec => SkipsOnlySeen
<1> DEFINE Skip == \A c \in Clients : covered[c] /\ Deliver(c) /\ sent' = sent =>
                      LET e == Head(queue[c])
                      IN  e <= since[c] \/ e \in Range(sent[c]) \cup lost
<1>1. ASSUME IInv PROVE Skip
  <2> SUFFICES ASSUME NEW c \in Clients, covered[c], Deliver(c), sent' = sent
               PROVE  Head(queue[c]) <= since[c] \/ Head(queue[c]) \in Range(sent[c]) \cup lost
    OBVIOUS
  <2> DEFINE e == Head(queue[c])
  <2>1. /\ QueueOK(c) /\ CoverOK(c) /\ queue[c] \in Seq(Revs) /\ sent[c] \in Seq(Revs)
        /\ since[c] \in Nat /\ seen[c] \in Nat
    BY <1>1, ClientFacts
  <2>2. queue[c] # <<>> /\ sent' = [sent EXCEPT ![c] = IF Skipped(c, e) THEN @ ELSE Append(@, e)]
    BY DEF Deliver
  <2>3. e \in Revs /\ e \in Range(queue[c])
    BY <2>1, <2>2, TailFacts DEF QueueOK
  <2>4. e \in Ours /\ Rv(e) = e /\ e \in Nat
    BY <1>1, <2>1, <2>3, StateFacts DEF QueueOK
  <2>5. sent \in [Clients -> Seq(Revs)]
    BY <1>1 DEF IInv, TypeOK, Revs
  <2> HIDE DEF e
  <2>6. Skipped(c, e)
    <3> SUFFICES ASSUME ~Skipped(c, e) PROVE FALSE
      OBVIOUS
    <3>1. sent[c] = Append(sent[c], e)
      BY <2>2, <2>5
    <3>2. Len(sent[c]) \in Nat /\ Len(Append(sent[c], e)) = Len(sent[c]) + 1
      BY <2>1, <2>3, AppendFacts
    <3> QED BY <3>1, <3>2
  <2>7. e <= since[c] \/ e <= seen[c]
    BY <2>4, <2>6 DEF Skipped
  <2>8. e <= since[c] \/ since[c] < e
    BY <2>1, <2>4
  <2> QED BY <2>1, <2>4, <2>7, <2>8 DEF CoverOK, e
<1>2. IInv /\ [Next]_vars => [Skip]_vars
  BY <1>1
<1>3. Spec => [][Skip]_vars
  BY <1>2, Invariance, PTL DEF Spec
<1> QED BY <1>3 DEF SkipsOnlySeen

=============================================================================
