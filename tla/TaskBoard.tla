------------------------------ MODULE TaskBoard ------------------------------
(* What the durable queue promises for the messages it accepted: none is   *)
(* lost, only one the worker has begun is settled, a settled one stays     *)
(* settled, and a cancelled one stays cancelled unless the worker had it   *)
(* in hand already.                                                        *)

CONSTANTS
    Items    \* the messages that may be accepted

VARIABLES
    state,   \* [Items -> {"absent", "open", "done", "failed", "cancelled"}]
    taken,   \* the items the worker has in hand
    begun    \* the items whose work was started

boardVars == <<state, taken, begun>>

Init ==
    /\ state = [i \in Items |-> "absent"]
    /\ taken = {}
    /\ begun = {}

Post(i) ==
    /\ state[i] = "absent"
    /\ state' = [state EXCEPT ![i] = "open"]
    /\ UNCHANGED <<taken, begun>>

(* The worker takes further open items in hand. *)
Take(more) ==
    /\ \A i \in more : state[i] = "open"
    /\ taken' = taken \cup more
    /\ UNCHANGED <<state, begun>>

(* It keeps one of those in hand, to work on it or not, and puts the       *)
(* others back; what was cancelled meanwhile is open again.                *)
Choose1(i) ==
    /\ i \in taken
    /\ state' = [j \in Items |-> IF j \in taken THEN "open" ELSE state[j]]
    /\ taken' = {i}
    /\ begun' \in {begun, begun \cup {i}}

(* It settles the one in hand, or puts it back. *)
Settle(i, verdict) ==
    /\ taken = {i}
    /\ verdict \in {"done", "failed"} => i \in begun
    /\ state' = [state EXCEPT ![i] = verdict]
    /\ taken' = {}
    /\ UNCHANGED begun

(* It is cut off. *)
Drop == taken' = {} /\ UNCHANGED <<state, begun>>

Cancel(i) ==
    /\ state[i] # "absent"
    /\ state' = [state EXCEPT ![i] = "cancelled"]
    /\ UNCHANGED <<taken, begun>>

Next ==
    \/ \E more \in SUBSET Items : Take(more)
    \/ Drop
    \/ \E i \in Items :
          \/ Post(i)
          \/ Choose1(i)
          \/ \E verdict \in {"open", "done", "failed"} : Settle(i, verdict)
          \/ Cancel(i)

Spec == Init /\ [][Next]_boardVars
=============================================================================
