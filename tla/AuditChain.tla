----------------------------- MODULE AuditChain -----------------------------
(* The hash chain of the audit log: every tool dispatch appends one entry  *)
(* in a transaction of its own, and verify_chain walks the log.            *)
(*                                                                         *)
(* An entry is named by its append.  SHA-256 is taken to have no           *)
(* collisions, so that the stored hash of the previous entry is that       *)
(* entry's name.  Postgres is external: READ COMMITTED, and a SELECT ...   *)
(* FOR UPDATE that waited for a lock returns the row it waited for, not a  *)
(* newer one.  The purge is not here: RetentionScheduler's is handed an    *)
(* async session and fails before it deletes.                              *)
EXTENDS Integers

CONSTANTS
    Entries,   \* the appends, and the rows they insert
    NoEntry    \* NULL

ASSUME NullAssumption == NoEntry \notin Entries

VARIABLES
    pc,        \* [Entries -> AppendPC]
    latest,    \* [Entries -> Entries or NoEntry]: the row its SELECT chose
    previous,  \* [Entries -> Entries or NoEntry]: previous_entry_hash
    timestamp, \* [Entries -> Nat]: 0 before the entry is flushed
    clock,     \* the last timestamp handed out
    overlap    \* history: an append began while another was in progress

vars == <<pc, latest, previous, timestamp, clock, overlap>>

-----------------------------------------------------------------------------
AppendPC == {"idle", "selected", "locked", "flushed", "committed", "lost"}

(* The log that other transactions see. *)
Log == {e \in Entries : pc[e] = "committed"}

InProgress == {e \in Entries : pc[e] \in {"selected", "locked", "flushed"}}

Init ==
    /\ pc = [e \in Entries |-> "idle"]
    /\ latest = [e \in Entries |-> NoEntry]
    /\ previous = [e \in Entries |-> NoEntry]
    /\ timestamp = [e \in Entries |-> 0]
    /\ clock = 0
    /\ overlap = FALSE

(* Mutant: the rows come in ascending order. *)
IsFirst(e) == e \in Log /\ \A f \in Log : timestamp[e] <= timestamp[f]

(* The first row in descending order of timestamp. *)
IsLatest(e) == e \in Log /\ \A f \in Log : timestamp[f] <= timestamp[e]

(* Mutant: the SELECT sees rows whose transaction has not committed. *)
SelectUncommitted(e) ==
    /\ pc[e] = "idle"
    /\ pc' = [pc EXCEPT ![e] = "selected"]
    /\ \/ clock = 0 /\ latest' = [latest EXCEPT ![e] = NoEntry]
       \/ \E f \in Entries :
             clock # 0 /\ timestamp[f] = clock /\ latest' = [latest EXCEPT ![e] = f]
    /\ overlap' = (overlap \/ InProgress # {})
    /\ UNCHANGED <<previous, timestamp, clock>>

(* The SELECT of create_entry_async takes its snapshot. *)
SelectLatest(e) ==
    /\ pc[e] = "idle"
    /\ pc' = [pc EXCEPT ![e] = "selected"]
    /\ \/ Log = {} /\ latest' = [latest EXCEPT ![e] = NoEntry]
       \/ \E f \in Log : IsLatest(f) /\ latest' = [latest EXCEPT ![e] = f]
    /\ overlap' = (overlap \/ InProgress # {})
    /\ UNCHANGED <<previous, timestamp, clock>>

(* Mutant: who waits for a lock is taken to have it. *)
HoldsWaiting(e, f) == latest[e] = f /\ pc[e] \in {"selected", "locked", "flushed"}

(* Whose transaction holds the lock on row f. *)
Holds(e, f) == latest[e] = f /\ pc[e] \in {"locked", "flushed"}

(* FOR UPDATE: when another transaction has locked the row, the SELECT     *)
(* waits.  An empty log has no row to lock.                                *)
LockLatest(e) ==
    /\ pc[e] = "selected"
    /\ latest[e] # NoEntry => \A f \in Entries : ~Holds(f, latest[e])
    /\ pc' = [pc EXCEPT ![e] = "locked"]
    /\ previous' = [previous EXCEPT ![e] = latest[e]]
    /\ UNCHANGED <<latest, timestamp, clock, overlap>>

(* Mutant: the entry is given a time that has not come. *)
FlushAhead(e) ==
    /\ pc[e] = "locked"
    /\ pc' = [pc EXCEPT ![e] = "flushed"]
    /\ timestamp' = [timestamp EXCEPT ![e] = clock + 1]
    /\ UNCHANGED <<latest, previous, clock, overlap>>

(* The entry is inserted with the time of its flush. *)
Flush(e) ==
    /\ pc[e] = "locked"
    /\ pc' = [pc EXCEPT ![e] = "flushed"]
    /\ clock' = clock + 1
    /\ timestamp' = [timestamp EXCEPT ![e] = clock']
    /\ UNCHANGED <<latest, previous, overlap>>

Commit(e) ==
    /\ pc[e] = "flushed"
    /\ pc' = [pc EXCEPT ![e] = "committed"]
    /\ UNCHANGED <<latest, previous, timestamp, clock, overlap>>

(* The dispatch is cancelled or the process dies: rolled back. *)
Rollback(e) ==
    /\ e \in InProgress
    /\ pc' = [pc EXCEPT ![e] = "lost"]
    /\ UNCHANGED <<latest, previous, timestamp, clock, overlap>>

AppendStep(e) == SelectLatest(e) \/ LockLatest(e) \/ Flush(e) \/ Commit(e)

Next == \E e \in Entries : AppendStep(e) \/ Rollback(e)

Spec == Init /\ [][Next]_vars

-----------------------------------------------------------------------------
(* verify_chain: the entry at the front has no previous hash, and every    *)
(* other one has the hash of the entry before it.                          *)
Before(e) == {f \in Log : timestamp[f] < timestamp[e]}

Continues(e) ==
    IF Before(e) = {} THEN previous[e] = NoEntry
    ELSE previous[e] \in Before(e)
         /\ \A f \in Before(e) : timestamp[f] <= timestamp[previous[e]]

ChainValid == \A e \in Log : Continues(e)

-----------------------------------------------------------------------------
(* Properties *)

(* Every variable keeps its shape, and no entry is from the future.        *)
TypeOK ==
    /\ pc \in [Entries -> AppendPC]
    /\ latest \in [Entries -> Entries \cup {NoEntry}]
    /\ previous \in [Entries -> Entries \cup {NoEntry}]
    /\ clock \in Nat
    /\ timestamp \in [Entries -> 0..clock]
    /\ overlap \in BOOLEAN

(* Whatever appends overlap or roll back, every link of the log leads to   *)
(* an entry of the log that is older, so the links have no cycle and none  *)
(* dangles (create_entry_async).                                           *)
LinksLeadBack ==
    \A e \in Log :
        previous[e] # NoEntry =>
            previous[e] \in Log /\ timestamp[previous[e]] < timestamp[e]

(* Appends that do not overlap make a chain verify_chain accepts, with any *)
(* of them rolled back at any point (create_entry_async, verify_chain).    *)
SerialAppendsVerify == ~overlap => ChainValid

(* No append waits for ever for the lock of the latest entry: those that   *)
(* began end, and the log comes to rest again and again.                   *)
AppendsEnd == []<>(InProgress = {})

-----------------------------------------------------------------------------
(* What the repository's own words promise and a run refutes.              *)

(* Two concurrent appends do not read the same latest entry: no two        *)
(* entries of the log have the same previous one.                          *)
NoFork ==
    \A e, f \in Log : previous[e] = previous[f] => e = f
=============================================================================
