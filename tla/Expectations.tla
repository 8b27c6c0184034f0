---------------------------- MODULE Expectations ---------------------------
(***************************************************************************)
(* ControllerExpectations (controller-manager/src/controllers/             *)
(* expectations.rs) for one controller key: how many creates and deletes   *)
(* it has still to observe, and which pods it waits to see deleted.  Two   *)
(* mutexes guard the two maps, so expect_deletions_of is two steps.  The   *)
(* per-pod creation set (record_created) is used by other controllers.     *)
(* The age of a record is whether it has passed the timeout.               *)
(***************************************************************************)
EXTENDS Integers, FiniteSets

CONSTANT NoEntry

VARIABLES
    entry,        \* entries: the record of the key, or NoEntry
    uids          \* uids: the pods expected to be seen deleted

expectVars == <<entry, uids>>

\* "deletes" is history: the record was set by expect_deletions.
Record(add, del, deletes) ==
    [add |-> add, del |-> del, expired |-> FALSE, deletes |-> deletes]

Fulfilled(e) == e.add <= 0 /\ e.del <= 0

\* mutant of Satisfied: an unfulfilled record never expires
Satisfied_NoExpiry == entry = NoEntry \/ Fulfilled(entry)

\* satisfied: never recorded, fulfilled or expired.
Satisfied == entry = NoEntry \/ Fulfilled(entry) \/ entry.expired

\* set_expectations
ExpectCreations(n) == entry' = Record(n, 0, FALSE) /\ UNCHANGED uids

\* expect_deletions_of: first the pods, then, under the other lock, the count.
ExpectDeletionsOf(S) == uids' = S /\ UNCHANGED entry
ExpectDeletions(n) == entry' = Record(0, n, TRUE) /\ UNCHANGED uids

\* lower_expectations: no floor, and nothing without a record.
Lowered(add, del) ==
    IF entry = NoEntry THEN entry
    ELSE [entry EXCEPT !.add = @ - add, !.del = @ - del]

CreationsObserved(n) == entry' = Lowered(n, 0) /\ UNCHANGED uids

\* mutant of DeletionsObserved: every event of a pod counts
DeletionsObserved_Plain(S) ==
    uids' = uids \ S /\ entry' = Lowered(0, Cardinality(S))

\* deletion_observed_of, for each of the pods S: counted if still expected.
DeletionsObserved(S) ==
    uids' = uids \ S /\ entry' = Lowered(0, Cardinality(S \cap uids))

\* delete_expectations
DeleteExpectations == entry' = NoEntry /\ uids' = {}

\* is_expired: the timeout passes, noticed while something is outstanding.
Expire ==
    /\ entry # NoEntry /\ ~Fulfilled(entry) /\ ~entry.expired
    /\ entry' = [entry EXCEPT !.expired = TRUE] /\ UNCHANGED uids

Entries == [add : Int, del : Int, expired : BOOLEAN, deletes : BOOLEAN]

ASSUME NoEntryAssumption == NoEntry \notin Entries
=============================================================================
