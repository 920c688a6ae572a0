---------------------------- MODULE ApprovalGate ----------------------------
(* What the tool node promises for one list of tool calls: a call behind   *)
(* the gate runs only after the user granted that very call, and never     *)
(* after the user refused it.  The promise lapses when what a tool may do  *)
(* changes, or cannot be found out, while the list is under way.           *)

CONSTANTS
    Calls    \* the tool calls of the list

VARIABLES
    gated,   \* the calls that need the user's grant, fixed from the start
    granted, \* the calls the user granted
    refused, \* the calls the user refused
    ran,     \* the calls that ran
    lapsed   \* a capability has changed, or could not be looked up

gateVars == <<gated, granted, refused, ran, lapsed>>

Init ==
    /\ gated \in SUBSET Calls
    /\ granted = {} /\ refused = {} /\ ran = {}
    /\ lapsed = FALSE

Grant(c) ==
    /\ c \notin granted \cup refused
    /\ granted' = granted \cup {c}
    /\ UNCHANGED <<gated, refused, ran, lapsed>>

Refuse(c) ==
    /\ c \notin granted \cup refused
    /\ refused' = refused \cup {c}
    /\ UNCHANGED <<gated, granted, ran, lapsed>>

Run(c) ==
    /\ c \in gated => c \in granted
    /\ ran' = ran \cup {c}
    /\ UNCHANGED <<gated, granted, refused, lapsed>>

Lapse ==
    /\ ~lapsed
    /\ lapsed' = TRUE
    /\ UNCHANGED <<gated, granted, refused, ran>>

(* Nothing is promised any more, but that it does not hold again.          *)
Lapsed == lapsed /\ lapsed'

Next ==
    \/ \E c \in Calls : Grant(c) \/ Refuse(c) \/ Run(c)
    \/ Lapse
    \/ Lapsed

Spec == Init /\ [][Next]_gateVars
=============================================================================
