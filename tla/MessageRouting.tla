--------------------------- MODULE MessageRouting ---------------------------
(* A chat message on its way to a thread: idempotency key, privacy mode,   *)
(* the thread's domain, the queue of the private worker.                   *)
(*                                                                         *)
(* One user.  A thread made for a message goes by the message.  The rest   *)
(* of the run is RunLifecycle's, its model calls ModelCalls's; a message   *)
(* that joins an active run of its thread counts as a run here.            *)
EXTENDS Integers, FiniteSets

CONSTANTS
    Messages,       \* POST /chat requests, each used once
    MessageKeys,    \* Idempotency-Key headers
    NoKey,
    Threads         \* thread ids the client has: POST /threads, or long deleted

ASSUME RoutingAssumption ==
    /\ NoKey \notin MessageKeys
    /\ Messages \cap Threads = {} /\ "none" \notin Messages \cup Threads

VARIABLES
    domain,     \* [ThreadIds -> Domains]: conversations.domain; "none": no row
    keyrows,    \* SUBSET MessageKeys: "chat:" rows of idempotency_keys
    step,       \* [Messages -> RoutePC]
    key,        \* [Messages -> MessageKeys or NoKey]
    thread,     \* [Messages -> ThreadIds]: thread_id
    mode,       \* [Messages -> Domains]: the effective privacy_mode
    seen,       \* [Messages -> Domains or "unread"]: _cached_thread_domain
    away,       \* [Messages -> BOOLEAN]: ~private_available when it arrived
    run,        \* [Messages -> ThreadIds or "none"]: the thread of its Run row
    blind,      \* history: routed without sight of its thread's domain
    loose       \* history: its key was not both looked up and written in turn

routingVars == <<domain, keyrows, step, key, thread, mode, seen, away, run,
                 blind, loose>>
request == <<key, mode>>
looked == <<seen, away>>
ways == <<domain, keyrows>>
past == <<blind, loose>>

-----------------------------------------------------------------------------
ThreadIds == Threads \cup Messages
Domains == {"none", "private", "external"}
Handled == {"registered", "routed", "queued", "started"}
Underway == {"arrived", "checked", "registered", "routed"}
RoutePC == {"idle", "arrived", "checked", "refused", "lost"} \cup Handled

(* Thread ids a client can name: its own, and those a stream has told it.  *)
KnownThreads(r) ==
    Threads \cup {q \in Messages \ {r} :
                    \/ run[q] = q
                    \/ thread[q] = q /\ step[q] \in Handled \ {"registered"}}

(* _get_thread_domain; an error reads as no row.                           *)
Look(t) == {domain[t], "none"}

RoutingInit ==
    /\ \E d \in [Threads -> Domains] :
         domain = [t \in ThreadIds |-> IF t \in Threads THEN d[t] ELSE "none"]
    /\ keyrows = {}
    /\ step = [r \in Messages |-> "idle"]
    /\ key = [r \in Messages |-> NoKey]
    /\ thread = [r \in Messages |-> r]
    /\ mode = [r \in Messages |-> "none"]
    /\ seen = [r \in Messages |-> "unread"]
    /\ away = [r \in Messages |-> FALSE]
    /\ run = [r \in Messages |-> "none"]
    /\ blind = {} /\ loose = {}

(* DELETE /threads/{id}: the runs go with the row (ON DELETE CASCADE).     *)
DeleteThread(t) ==
    /\ domain[t] # "none"
    /\ domain' = [domain EXCEPT ![t] = "none"]
    /\ run' = [r \in Messages |-> IF run[r] = t THEN "none" ELSE run[r]]
    /\ blind' = blind \cup {r \in Messages : thread[r] = t /\ step[r] \in Underway}
    /\ UNCHANGED <<keyrows, step, thread, request, looked, loose>>

(* A private keyword, built in or the user's own, in the message; per cent.*)
RawClassify(matched) ==
    IF matched THEN [domain |-> "private", confidence |-> 85]
    ELSE [domain |-> "external", confidence |-> 80]

(* An unsure verdict is private while the worker is there.  Whether to     *)
(* queue the message its caller decides for itself.                        *)
ApplyFailSafe(raw, absent) ==
    IF raw.confidence < 70 /\ ~absent THEN "private" ELSE raw.domain

(* submit_chat asks without a privacy mode and without tools.              *)
Classify(matched, absent) == ApplyFailSafe(RawClassify(matched), absent)

(* Explicit "private" wins; then the thread's domain; then the mode of the *)
(* body; and only without either the classifier's verdict.  The domain is  *)
(* read when a thread is given and the mode is not "private".              *)
EffectiveMode(asked, look, verdict) ==
    CASE asked = "private"                        -> "private"
      [] asked # "private" /\ look # "unread"     -> IF look # "none" THEN look
                                                     ELSE IF asked # "none" THEN asked
                                                     ELSE "external"
      [] asked = "external" /\ look = "unread"    -> "external"
      [] OTHER                                    -> verdict

Arrive(r) ==
    /\ step[r] = "idle"
    /\ step' = [step EXCEPT ![r] = "arrived"]
    /\ \E k \in MessageKeys \cup {NoKey}, t \in KnownThreads(r) \cup {r},
         asked \in Domains, matched \in BOOLEAN, absent \in BOOLEAN :
       \E look \in IF t = r \/ asked = "private" THEN {"unread"} ELSE Look(t) :
         /\ key' = [key EXCEPT ![r] = k]
         /\ thread' = [thread EXCEPT ![r] = t]
         /\ seen' = [seen EXCEPT ![r] = look]
         /\ mode' = [mode EXCEPT ![r] =
                        EffectiveMode(asked, look, Classify(matched, absent))]
         /\ away' = [away EXCEPT ![r] = absent]
    /\ UNCHANGED <<ways, run, past>>

(* _check_chat_idempotency; an error lets the message pass.                *)
CheckKey(r) ==
    /\ step[r] = "arrived"
    /\ \/ step' = [step EXCEPT ![r] = IF key[r] \in keyrows THEN "refused" ELSE "checked"]
          /\ loose' = loose \cup {q \in Messages : step[q] = "checked" /\ key[q] = key[r]}
       \/ /\ key[r] # NoKey
          /\ step' = [step EXCEPT ![r] = "checked"] /\ loose' = loose \cup {r}
    /\ UNCHANGED <<ways, thread, request, looked, run, blind>>

Waits(r) == mode[r] = "private" /\ away[r]

(* Mutant: a message for the queue leaves before its key is written.       *)
RegisterUnlessQueued(r) ==
    /\ step[r] = "checked"
    /\ step' = [step EXCEPT ![r] = "registered"]
    /\ keyrows' = IF Waits(r) THEN keyrows ELSE keyrows \cup ({key[r]} \ {NoKey})
    /\ UNCHANGED <<domain, thread, request, looked, run, past>>

(* _register_chat_idempotency, best effort.                                *)
RegisterKey(r) ==
    /\ step[r] = "checked"
    /\ step' = [step EXCEPT ![r] = "registered"]
    /\ \/ keyrows' = keyrows \cup ({key[r]} \ {NoKey}) /\ UNCHANGED loose
       \/ key[r] # NoKey /\ loose' = loose \cup {r} /\ UNCHANGED keyrows
    /\ UNCHANGED <<domain, thread, request, looked, run, blind>>

(* sweep_idempotency_keys: rows older than a day.                          *)
SweepKey(k) ==
    /\ k \in keyrows
    /\ keyrows' = keyrows \ {k}
    /\ loose' = loose \cup {r \in Messages : key[r] = k}
    /\ UNCHANGED <<domain, step, thread, request, looked, run, blind>>

(* A message that finds no row leaves its thread's other messages in doubt.*)
InDoubt(r) == {r} \cup {q \in Messages : thread[q] = thread[r] /\ step[q] \in Underway}

(* What the handler looked at goes with it.                                *)
Forget(r) ==
    /\ seen' = [seen EXCEPT ![r] = "unread"]
    /\ away' = [away EXCEPT ![r] = FALSE]

(* _make_run_service: the row if there is none, and the run; or, after an  *)
(* error, neither.                                                         *)
MakeRun(r) ==
    \/ /\ domain' = [domain EXCEPT ![thread[r]] = IF @ = "none" THEN mode[r] ELSE @]
       /\ run' = [run EXCEPT ![r] = thread[r]]
    \/ UNCHANGED <<domain, run>>

(* A private message waits in its own thread, whose domain is not looked   *)
(* at: the queue comes before the redirect.                                *)
QueueMessage(r) ==
    /\ step[r] = "registered" /\ Waits(r)
    /\ step' = [step EXCEPT ![r] = "queued"]
    /\ MakeRun(r)
    /\ blind' = IF seen[r] \in {"unread", "none"} THEN blind \cup InDoubt(r) ELSE blind
    /\ Forget(r)
    /\ UNCHANGED <<keyrows, thread, request, loose>>

(* Mutant: only a domain read before is compared.                          *)
RedirectCached(r) ==
    /\ step[r] = "registered" /\ ~Waits(r)
    /\ step' = [step EXCEPT ![r] = "routed"]
    /\ thread' = IF seen[r] \in {"unread", "none", mode[r]} THEN thread
                 ELSE [thread EXCEPT ![r] = r]
    /\ UNCHANGED <<ways, request, looked, run, past>>

(* OI8: to a fresh thread when the thread's domain, read again unless it   *)
(* is known, is another one.                                               *)
Redirect(r) ==
    /\ step[r] = "registered" /\ ~Waits(r)
    /\ step' = [step EXCEPT ![r] = "routed"]
    /\ IF thread[r] = r THEN UNCHANGED <<thread, blind>>
       ELSE \E look \in IF seen[r] \in {"unread", "none"} THEN Look(thread[r]) ELSE {seen[r]} :
              /\ thread' = IF look \in {"none", mode[r]} THEN thread
                           ELSE [thread EXCEPT ![r] = r]
              /\ blind' = IF look = "none" THEN blind \cup InDoubt(r) ELSE blind
    /\ UNCHANGED <<ways, request, looked, run, loose>>

StartRun(r) ==
    /\ step[r] = "routed"
    /\ step' = [step EXCEPT ![r] = "started"]
    /\ MakeRun(r)
    /\ Forget(r)
    /\ UNCHANGED <<keyrows, thread, request, past>>

(* What was in progress is gone; the rows stay.                            *)
RoutingRestart ==
    /\ step' = [r \in Messages |->
                  IF step[r] \in {"idle", "refused", "queued", "started"} THEN step[r] ELSE "lost"]
    /\ seen' = [r \in Messages |-> "unread"] /\ away' = [r \in Messages |-> FALSE]
    /\ UNCHANGED <<ways, thread, request, run, past>>

RoutingNext ==
    \/ RoutingRestart
    \/ \E t \in ThreadIds : DeleteThread(t)
    \/ \E k \in MessageKeys : SweepKey(k)
    \/ \E r \in Messages :
          \/ Arrive(r) \/ CheckKey(r) \/ RegisterKey(r) \/ QueueMessage(r) \/ Redirect(r)
          \/ StartRun(r)

RoutingSpec == RoutingInit /\ [][RoutingNext]_routingVars

-----------------------------------------------------------------------------
RoutingTypeOK ==
    /\ domain \in [ThreadIds -> Domains]
    /\ keyrows \in SUBSET MessageKeys
    /\ step \in [Messages -> RoutePC]
    /\ key \in [Messages -> MessageKeys \cup {NoKey}]
    /\ thread \in [Messages -> ThreadIds] /\ mode \in [Messages -> Domains]
    /\ seen \in [Messages -> Domains \cup {"unread"}] /\ away \in [Messages -> BOOLEAN]
    /\ run \in [Messages -> ThreadIds \cup {"none"}]
    /\ blind \in SUBSET Messages /\ loose \in SUBSET Messages

(* A message sent twice under one key is handled once, unless the second   *)
(* came between the first one's check and its registration, an error hid   *)
(* or lost the key, or it was swept; and one refused as a duplicate is the *)
(* duplicate of one that was registered, though it may have been lost.     *)
MessageOnce ==
    /\ \A q, r \in Messages :
         /\ q # r /\ key[q] = key[r] /\ key[r] # NoKey
         /\ step[q] \in Handled /\ step[r] \in Handled
         => q \in loose \/ r \in loose
    /\ \A r \in Messages : step[r] = "refused" =>
         \E q \in Messages \ {r} : key[q] = key[r] /\ step[q] \in Handled \cup {"lost"}

(* A run is in a thread of its own domain, however messages, deletions and *)
(* outages of the worker interleave, unless it, or another message to its  *)
(* thread meanwhile, did not see the thread's domain: the thread had no row*)
(* yet or lost it, the read failed, or the message went to the queue.      *)
ThreadKeepsDomain ==
    \A r \in Messages \ blind : run[r] # "none" => domain[run[r]] = mode[r]
=============================================================================
