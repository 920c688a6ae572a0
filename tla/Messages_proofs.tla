-------------------------- MODULE Messages_proofs ---------------------------
(* Theorems of MessageRouting, for any messages, keys and threads, of      *)
(* ThreadHistory, for any turns, tools and uses of them, and of            *)
(* ModelCalls, for any turns, providers and number of answers.             *)
EXTENDS MessageRouting, ThreadHistory, ModelCalls,
        FiniteSetTheorems, SequenceTheorems, WellFoundedInduction, TLAPS

-----------------------------------------------------------------------------
(* MessageRouting                                                          *)

(* A key that is stored is that of a message that was let through.         *)
KeyInv ==
    /\ \A k \in keyrows :
         \E q \in Messages : key[q] = k /\ step[q] \in Handled \cup {"lost"}
    /\ \A r \in Messages : step[r] \in Handled /\ key[r] # NoKey /\ r \notin loose =>
         key[r] \in keyrows
    /\ \A q, r \in Messages :
         /\ q # r /\ key[q] = key[r] /\ key[r] # NoKey
         /\ step[q] \in Handled \cup {"checked"} /\ step[r] \in Handled \cup {"checked"}
         => q \in loose \/ r \in loose
    /\ \A r \in Messages : step[r] = "refused" =>
         \E q \in Messages \ {r} : key[q] = key[r] /\ step[q] \in Handled \cup {"lost"}
    /\ \A r \in Messages : step[r] = "idle" => key[r] = NoKey

(* The choices of a message that arrives, out of the action.               *)
LEMMA ArriveOpens ==
    ASSUME NEW r \in Messages, Arrive(r)
    PROVE  \E k \in MessageKeys \cup {NoKey}, t \in KnownThreads(r) \cup {r},
              asked \in Domains, matched \in BOOLEAN, absent \in BOOLEAN :
           \E look \in IF t = r \/ asked = "private" THEN {"unread"} ELSE Look(t) :
             /\ key' = [key EXCEPT ![r] = k]
             /\ thread' = [thread EXCEPT ![r] = t]
             /\ seen' = [seen EXCEPT ![r] = look]
             /\ mode' = [mode EXCEPT ![r] =
                            EffectiveMode(asked, look, Classify(matched, absent))]
             /\ away' = [away EXCEPT ![r] = absent]
  BY Zenon DEF Arrive

USE RoutingAssumption

-----------------------------------------------------------------------------
LEMMA InitRouting == RoutingInit => RoutingTypeOK /\ KeyInv
<1> SUFFICES ASSUME RoutingInit PROVE RoutingTypeOK /\ KeyInv
  OBVIOUS
<1>1. PICK d \in [Threads -> Domains] :
        domain = [t \in ThreadIds |-> IF t \in Threads THEN d[t] ELSE "none"]
  BY DEF RoutingInit
<1>2. domain \in [ThreadIds -> Domains]
  BY <1>1 DEF Domains, ThreadIds
<1>3. /\ step \in [Messages -> RoutePC] /\ mode \in [Messages -> Domains]
      /\ thread \in [Messages -> ThreadIds]
  BY DEF RoutingInit, RoutePC, Domains, ThreadIds
<1>4. /\ key \in [Messages -> MessageKeys \cup {NoKey}]
      /\ seen \in [Messages -> Domains \cup {"unread"}] /\ away \in [Messages -> BOOLEAN]
      /\ run \in [Messages -> ThreadIds \cup {"none"}]
  BY DEF RoutingInit
<1>5. RoutingTypeOK
  BY <1>2, <1>3, <1>4 DEF RoutingInit, RoutingTypeOK
<1>6. KeyInv
  BY DEF RoutingInit, KeyInv, Handled
<1> QED
  BY <1>5, <1>6

(* A message's step changes, and its key's row is written at most when it  *)
(* is registered.                                                          *)
LEMMA NextKey ==
    ASSUME RoutingTypeOK, KeyInv, [RoutingNext]_routingVars PROVE KeyInv'
<1> USE DEF RoutingTypeOK, KeyInv, Handled, request, ways, past, looked
<1>1. CASE RoutingRestart
  BY <1>1 DEF RoutingRestart
<1>2. ASSUME NEW t \in ThreadIds, DeleteThread(t) PROVE KeyInv'
  BY <1>2 DEF DeleteThread
<1>3. ASSUME NEW k \in MessageKeys, SweepKey(k) PROVE KeyInv'
  BY <1>3 DEF SweepKey
<1>4. ASSUME NEW r \in Messages, Arrive(r) PROVE KeyInv'
  <2>1. /\ step[r] = "idle" /\ step' = [step EXCEPT ![r] = "arrived"]
        /\ \E k : key' = [key EXCEPT ![r] = k]
        /\ UNCHANGED <<keyrows, loose>>
    BY <1>4 DEF Arrive
  <2>2. \A q \in Messages : q # r => step'[q] = step[q] /\ key'[q] = key[q]
    BY <2>1
  <2>3. step'[r] = "arrived"
    BY <2>1
  <2> QED
    BY <2>1, <2>2, <2>3
<1>5. ASSUME NEW r \in Messages, CheckKey(r) PROVE KeyInv'
  <2>1. step[r] = "arrived" /\ UNCHANGED <<keyrows, key>>
    BY <1>5 DEF CheckKey
  <2>2. CASE /\ step' = [step EXCEPT ![r] = IF key[r] \in keyrows THEN "refused" ELSE "checked"]
             /\ loose' = loose \cup {q \in Messages : step[q] = "checked" /\ key[q] = key[r]}
    BY <2>1, <2>2
  <2>3. CASE step' = [step EXCEPT ![r] = "checked"] /\ loose' = loose \cup {r}
    BY <2>1, <2>3
  <2> QED
    BY <1>5, <2>2, <2>3 DEF CheckKey
<1>6. ASSUME NEW r \in Messages, RegisterKey(r) PROVE KeyInv'
  <2>1. step[r] = "checked" /\ step' = [step EXCEPT ![r] = "registered"] /\ UNCHANGED key
    BY <1>6 DEF RegisterKey
  <2>2. CASE keyrows' = keyrows \cup ({key[r]} \ {NoKey}) /\ UNCHANGED loose
    BY <2>1, <2>2
  <2>3. CASE loose' = loose \cup {r} /\ UNCHANGED keyrows
    BY <2>1, <2>3
  <2> QED
    BY <1>6, <2>2, <2>3 DEF RegisterKey
<1>7. ASSUME NEW r \in Messages, step[r] \in Handled, NEW pc \in Handled,
             step' = [step EXCEPT ![r] = pc], UNCHANGED <<keyrows, key, loose>>
      PROVE  KeyInv'
  BY <1>7
<1>8. ASSUME NEW r \in Messages, QueueMessage(r) \/ Redirect(r) \/ StartRun(r) PROVE KeyInv'
  BY <1>7, <1>8 DEF QueueMessage, Redirect, StartRun
<1>9. CASE UNCHANGED routingVars
  BY <1>9 DEF routingVars
<1> QED
  BY <1>1, <1>2, <1>3, <1>4, <1>5, <1>6, <1>8, <1>9 DEF RoutingNext

-----------------------------------------------------------------------------
(* Domains *)

Early == {"idle", "arrived", "checked", "registered"}
Sees(r) == seen[r] \notin {"unread", "none"}

(* A message has a run only at the end, in its thread, and has a mode once *)
(* it arrived.                                                             *)
RunInv ==
    /\ \A r \in Messages : step[r] = "idle" => run[r] = "none" /\ thread[r] = r /\ ~Sees(r)
    /\ \A r \in Messages : run[r] # "none" =>
          run[r] = thread[r] /\ step[r] \in {"queued", "started"}
    /\ \A r \in Messages : step[r] # "idle" => mode[r] \in {"private", "external"}

(* The thread that is kept for a message is its own, and has no row, until *)
(* its stream tells of it.                                                 *)
FreshInv ==
    \A r \in Messages : step[r] \in Early =>
       domain[r] = "none" /\ \A q \in Messages \ {r} : thread[q] # r

(* A domain that was seen is the message's mode, and still the thread's.   *)
SeenInv ==
    \A r \in Messages : Sees(r) =>
       /\ seen[r] = mode[r]
       /\ step[r] \in Underway /\ r \notin blind => domain[thread[r]] = seen[r]

(* A routed message is in a thread of its domain, or in its fresh one that *)
(* nobody who thinks otherwise is routed to.                               *)
RoutedInv ==
    /\ \A r \in Messages \ blind : step[r] = "routed" =>
          domain[thread[r]] = mode[r] \/ (thread[r] = r /\ domain[r] = "none")
    /\ \A r \in Messages \ blind : step[r] = "routed" /\ thread[r] = r /\ domain[r] = "none" =>
          \A q \in Messages \ {r} : thread[q] = r /\ step[q] \in Underway =>
             step[q] # "routed" /\ ~Sees(q)

DomainInv == RunInv /\ FreshInv /\ SeenInv /\ RoutedInv /\ ThreadKeepsDomain

LEMMA InitDomain == RoutingInit => DomainInv
<1> SUFFICES ASSUME RoutingInit PROVE DomainInv
  OBVIOUS
<1>1. \A r \in Messages : domain[r] = "none"
  BY DEF RoutingInit, ThreadIds
<1>2. \A r \in Messages : /\ step[r] = "idle" /\ run[r] = "none" /\ thread[r] = r
                           /\ seen[r] = "unread"
  BY DEF RoutingInit
<1> QED
  BY <1>1, <1>2 DEF DomainInv, RunInv, FreshInv, SeenInv, RoutedInv, ThreadKeepsDomain, Sees

(* A row that is made is the message's, and changes no other.              *)
LEMMA MakeRunKeeps ==
    ASSUME RoutingTypeOK, NEW r \in Messages, MakeRun(r), mode[r] # "none"
    PROVE  /\ domain' \in [ThreadIds -> Domains] /\ run' \in [Messages -> ThreadIds \cup {"none"}]
           /\ \A t \in ThreadIds : domain[t] # "none" \/ t # thread[r] => domain'[t] = domain[t]
           /\ domain'[thread[r]] = "none" => run' = run
           /\ domain'[thread[r]] \in {domain[thread[r]], mode[r]}
           /\ \A q \in Messages : q # r => run'[q] = run[q]
           /\ run'[r] \in {run[r], thread[r]}
<1> USE DEF RoutingTypeOK
<1>1. CASE UNCHANGED <<domain, run>>
  BY <1>1
<1>2. CASE /\ domain' = [domain EXCEPT ![thread[r]] = IF @ = "none" THEN mode[r] ELSE @]
           /\ run' = [run EXCEPT ![r] = thread[r]]
  <2>1. thread[r] \in ThreadIds
    OBVIOUS
  <2> QED
    BY <1>2, <2>1
<1> QED
  BY <1>1, <1>2 DEF MakeRun

(* What a message arrives with: a thread that is known or its own, and a   *)
(* domain that, if seen, is the thread's and becomes its mode.             *)
LEMMA ArriveChooses ==
    ASSUME RoutingTypeOK, NEW r \in Messages, Arrive(r)
    PROVE  \E k \in MessageKeys \cup {NoKey}, t \in KnownThreads(r) \cup {r},
              look \in Domains \cup {"unread"}, m \in {"private", "external"},
              absent \in BOOLEAN :
             /\ t \in ThreadIds
             /\ look \in {"unread", "none"} \/ (look = domain[t] /\ m = look)
             /\ key' = [key EXCEPT ![r] = k] /\ thread' = [thread EXCEPT ![r] = t]
             /\ seen' = [seen EXCEPT ![r] = look] /\ mode' = [mode EXCEPT ![r] = m]
             /\ away' = [away EXCEPT ![r] = absent]
<1>1. PICK k \in MessageKeys \cup {NoKey}, t \in KnownThreads(r) \cup {r},
           asked \in Domains, matched \in BOOLEAN, absent \in BOOLEAN :
        \E look \in IF t = r \/ asked = "private" THEN {"unread"} ELSE Look(t) :
          /\ key' = [key EXCEPT ![r] = k]
          /\ thread' = [thread EXCEPT ![r] = t]
          /\ seen' = [seen EXCEPT ![r] = look]
          /\ mode' = [mode EXCEPT ![r] =
                         EffectiveMode(asked, look, Classify(matched, absent))]
          /\ away' = [away EXCEPT ![r] = absent]
  BY Zenon, ArriveOpens
<1>2. PICK look \in IF t = r \/ asked = "private" THEN {"unread"} ELSE Look(t) :
          /\ key' = [key EXCEPT ![r] = k] /\ thread' = [thread EXCEPT ![r] = t]
          /\ seen' = [seen EXCEPT ![r] = look]
          /\ mode' = [mode EXCEPT ![r] =
                         EffectiveMode(asked, look, Classify(matched, absent))]
          /\ away' = [away EXCEPT ![r] = absent]
  BY <1>1
<1> DEFINE v == Classify(matched, absent)
           m == EffectiveMode(asked, look, v)
<1>3. t \in ThreadIds
  BY DEF KnownThreads, ThreadIds
<1>4. v \in {"private", "external"}
  BY DEF Classify, ApplyFailSafe, RawClassify
<1>5. t # r /\ asked # "private" => look \in {domain[t], "none"}
  BY DEF Look
<1>6. t = r \/ asked = "private" => look = "unread"
  OBVIOUS
<1>7. domain[t] \in Domains
  BY <1>3 DEF RoutingTypeOK
<1>8. look \in Domains \cup {"unread"}
  BY <1>5, <1>6, <1>7 DEF Domains
<1> HIDE DEF v
<1>9. m \in {"private", "external"} /\ (look \in {"unread", "none"} \/ (look = domain[t] /\ m = look))
  <2>1. CASE asked = "private"
    BY <1>6, <2>1 DEF EffectiveMode
  <2>2. CASE asked # "private" /\ t # r
    BY <1>5, <1>7, <2>2 DEF EffectiveMode, Domains
  <2>3. CASE asked # "private" /\ t = r
    BY <1>4, <1>6, <2>3 DEF EffectiveMode
  <2> QED
    BY <2>1, <2>2, <2>3
<1> HIDE DEF m
<1>10. /\ key' = [key EXCEPT ![r] = k] /\ thread' = [thread EXCEPT ![r] = t]
       /\ seen' = [seen EXCEPT ![r] = look] /\ mode' = [mode EXCEPT ![r] = m]
       /\ away' = [away EXCEPT ![r] = absent]
  BY <1>2 DEF m, v
<1> QED
  BY <1>3, <1>8, <1>9, <1>10

(* A step keeps the types.                                                 *)
LEMMA NextRoutingType ==
    ASSUME RoutingTypeOK, RunInv, [RoutingNext]_routingVars PROVE RoutingTypeOK'
<1> USE DEF RoutingTypeOK, request, ways, past, looked, Handled, Underway, RoutePC
<1>1. CASE RoutingRestart
  BY <1>1 DEF RoutingRestart
<1>2. ASSUME NEW t \in ThreadIds, DeleteThread(t) PROVE RoutingTypeOK'
  <2>1. domain' \in [ThreadIds -> Domains] /\ run' \in [Messages -> ThreadIds \cup {"none"}]
    BY <1>2 DEF DeleteThread, Domains
  <2> QED
    BY <1>2, <2>1 DEF DeleteThread
<1>3. ASSUME NEW k \in MessageKeys, SweepKey(k) PROVE RoutingTypeOK'
  BY <1>3 DEF SweepKey
<1>4. ASSUME NEW r \in Messages, Arrive(r) PROVE RoutingTypeOK'
  <2>1. PICK k \in MessageKeys \cup {NoKey}, t \in KnownThreads(r) \cup {r},
             look \in Domains \cup {"unread"}, m \in {"private", "external"},
             absent \in BOOLEAN :
          /\ t \in ThreadIds
          /\ look \in {"unread", "none"} \/ (look = domain[t] /\ m = look)
          /\ key' = [key EXCEPT ![r] = k] /\ thread' = [thread EXCEPT ![r] = t]
          /\ seen' = [seen EXCEPT ![r] = look] /\ mode' = [mode EXCEPT ![r] = m]
          /\ away' = [away EXCEPT ![r] = absent]
    BY <1>4, ArriveChooses
  <2>2. /\ step' \in [Messages -> RoutePC]
        /\ UNCHANGED <<domain, keyrows, run, blind, loose>>
    BY <1>4 DEF Arrive
  <2>3. m \in Domains
    BY DEF Domains
  <2> QED
    BY <2>1, <2>2, <2>3
<1>5. ASSUME NEW r \in Messages, CheckKey(r) PROVE RoutingTypeOK'
  BY <1>5 DEF CheckKey
<1>6. ASSUME NEW r \in Messages, RegisterKey(r) PROVE RoutingTypeOK'
  BY <1>6 DEF RegisterKey
<1>7. ASSUME NEW r \in Messages, QueueMessage(r) PROVE RoutingTypeOK'
  <2>1. mode[r] # "none" /\ MakeRun(r)
    BY <1>7 DEF QueueMessage, RunInv
  <2>2. domain' \in [ThreadIds -> Domains] /\ run' \in [Messages -> ThreadIds \cup {"none"}]
    BY <2>1, MakeRunKeeps
  <2> QED
    BY <1>7, <2>2 DEF QueueMessage, Forget, InDoubt
<1>8. ASSUME NEW r \in Messages, Redirect(r) PROVE RoutingTypeOK'
  <2>1. thread' \in [Messages -> ThreadIds] /\ blind' \in SUBSET Messages
    BY <1>8 DEF Redirect, ThreadIds, InDoubt
  <2> QED
    BY <1>8, <2>1 DEF Redirect
<1>9. ASSUME NEW r \in Messages, StartRun(r) PROVE RoutingTypeOK'
  <2>1. mode[r] # "none" /\ MakeRun(r)
    BY <1>9 DEF StartRun, RunInv
  <2>2. domain' \in [ThreadIds -> Domains] /\ run' \in [Messages -> ThreadIds \cup {"none"}]
    BY <2>1, MakeRunKeeps
  <2> QED
    BY <1>9, <2>2 DEF StartRun, Forget
<1>10. CASE UNCHANGED routingVars
  BY <1>10 DEF routingVars
<1> QED
  BY <1>1, <1>2, <1>3, <1>4, <1>5, <1>6, <1>7, <1>8, <1>9, <1>10 DEF RoutingNext

-----------------------------------------------------------------------------
(* What a message does leaves the others' own affairs alone.               *)
Others(r) ==
    \A q \in Messages \ {r} :
       /\ step'[q] = step[q] /\ thread'[q] = thread[q] /\ mode'[q] = mode[q]
       /\ seen'[q] = seen[q] /\ run'[q] = run[q]

(* A run that gets its row from a message of the row's domain leaves every *)
(* run in a thread of its domain.                                          *)
LEMMA RunStays ==
    ASSUME RoutingTypeOK, DomainInv, NEW r \in Messages, Others(r), mode' = mode,
           MakeRun(r), mode[r] # "none", blind \subseteq blind',
           r \notin blind' => \/ domain[thread[r]] = mode[r]
                              \/ domain[thread[r]] = "none"
    PROVE  ThreadKeepsDomain'
<1>1. /\ \A t \in ThreadIds : domain[t] # "none" \/ t # thread[r] => domain'[t] = domain[t]
      /\ domain'[thread[r]] = "none" => run' = run
      /\ run'[r] \in {run[r], thread[r]}
      /\ domain'[thread[r]] \in {domain[thread[r]], mode[r]}
  BY MakeRunKeeps
<1>2. SUFFICES ASSUME NEW q \in Messages, q \notin blind', run'[q] # "none"
               PROVE  domain'[run'[q]] = mode[q]
  BY DEF ThreadKeepsDomain
<1>3. q \notin blind
  BY <1>2
<1>4. CASE run'[q] = run[q]
  <2>1. run[q] \in ThreadIds /\ domain[run[q]] = mode[q]
    BY <1>2, <1>3, <1>4 DEF DomainInv, ThreadKeepsDomain, RoutingTypeOK
  <2>2. mode[q] # "none"
    BY <1>2, <1>4 DEF DomainInv, RunInv
  <2> QED
    BY <1>1, <1>4, <2>1, <2>2
<1>5. CASE q = r /\ run'[r] = thread[r] /\ run'[r] # run[r]
  BY <1>1, <1>2, <1>5
<1> QED
  BY <1>1, <1>4, <1>5 DEF Others

LEMMA ArriveDomain ==
    ASSUME RoutingTypeOK, DomainInv, NEW r \in Messages, Arrive(r) PROVE DomainInv'
<1> USE DEF RoutingTypeOK
<1>1. PICK k \in MessageKeys \cup {NoKey}, t \in KnownThreads(r) \cup {r},
           look \in Domains \cup {"unread"}, m \in {"private", "external"},
           absent \in BOOLEAN :
        /\ t \in ThreadIds
        /\ look \in {"unread", "none"} \/ (look = domain[t] /\ m = look)
        /\ key' = [key EXCEPT ![r] = k] /\ thread' = [thread EXCEPT ![r] = t]
        /\ seen' = [seen EXCEPT ![r] = look] /\ mode' = [mode EXCEPT ![r] = m]
        /\ away' = [away EXCEPT ![r] = absent]
  BY ArriveChooses
<1>2. /\ step[r] = "idle" /\ step' = [step EXCEPT ![r] = "arrived"]
      /\ UNCHANGED <<domain, run, blind>>
  BY DEF Arrive, ways, past
<1>3. Others(r)
  BY <1>1, <1>2 DEF Others
<1>4. /\ step'[r] = "arrived" /\ thread'[r] = t /\ mode'[r] = m /\ seen'[r] = look
      /\ run'[r] = "none"
  BY <1>1, <1>2 DEF DomainInv, RunInv
<1>5. t \in Messages \ {r} => step[t] \notin Early
  BY DEF KnownThreads, ThreadIds, DomainInv, RunInv, RoutingAssumption, Handled, Early
<1> HIDE DEF RoutingTypeOK
<1>6. RunInv'
  BY <1>1, <1>2, <1>3, <1>4 DEF DomainInv, RunInv, Others, Sees
<1>7. FreshInv'
  BY <1>2, <1>3, <1>4, <1>5 DEF DomainInv, FreshInv, Others, Early
<1>8. SeenInv'
  BY <1>1, <1>2, <1>3, <1>4 DEF DomainInv, SeenInv, Others, Sees
<1>9. RoutedInv'
  <2>1. \A q \in Messages \ blind : step'[q] = "routed" =>
           q # r /\ step[q] = "routed" /\ thread'[q] = thread[q] /\ mode'[q] = mode[q]
    BY <1>2, <1>3, <1>4 DEF Others
  <2>2. \A q \in Messages \ blind : step'[q] = "routed" =>
           domain'[thread'[q]] = mode'[q] \/ (thread'[q] = q /\ domain'[q] = "none")
    BY <1>2, <2>1 DEF DomainInv, RoutedInv
  <2>3. ASSUME NEW q \in Messages \ blind,
               step'[q] = "routed", thread'[q] = q, domain'[q] = "none",
               NEW p \in Messages \ {q}, thread'[p] = q, step'[p] \in Underway
        PROVE  step'[p] # "routed" /\ ~Sees(p)'
    <3>1. CASE p = r
      BY <1>1, <1>2, <1>4, <2>3, <3>1 DEF Sees
    <3>2. CASE p # r
      BY <1>2, <1>3, <2>1, <2>3, <3>2 DEF DomainInv, RoutedInv, Others, Sees
    <3> QED
      BY <3>1, <3>2
  <2> QED
    BY <1>2, <2>2, <2>3 DEF RoutedInv
<1>10. ThreadKeepsDomain'
  BY <1>2, <1>3, <1>4 DEF DomainInv, ThreadKeepsDomain, Others
<1> QED
  BY <1>6, <1>7, <1>8, <1>9, <1>10 DEF DomainInv

LEMMA RedirectDomain ==
    ASSUME RoutingTypeOK, DomainInv, NEW r \in Messages, Redirect(r) PROVE DomainInv'
<1> USE DEF RoutingTypeOK
<1>1. /\ step[r] = "registered" /\ step' = [step EXCEPT ![r] = "routed"]
      /\ UNCHANGED <<domain, run, mode, seen>>
      /\ blind \subseteq blind' /\ blind' \subseteq Messages
      /\ thread' \in {thread, [thread EXCEPT ![r] = r]}
  BY DEF Redirect, ways, request, looked, InDoubt
<1>2. Others(r) /\ step'[r] = "routed"
  BY <1>1 DEF Others
<1>3. domain[r] = "none" /\ \A q \in Messages \ {r} : thread[q] # r
  BY <1>1 DEF DomainInv, FreshInv, Early
<1>4. thread'[r] = r \/ (thread'[r] = thread[r] /\ (r \notin blind' => domain[thread[r]] = mode[r]))
  <2>1. CASE thread[r] = r
    BY <1>1, <2>1
  <2>2. CASE thread[r] # r
    <3>1. PICK look \in IF seen[r] \in {"unread", "none"} THEN Look(thread[r]) ELSE {seen[r]} :
             /\ thread' = IF look \in {"none", mode[r]} THEN thread ELSE [thread EXCEPT ![r] = r]
             /\ blind' = IF look = "none" THEN blind \cup InDoubt(r) ELSE blind
      BY <2>2 DEF Redirect
    <3>2. CASE look \notin {"none", mode[r]}
      BY <3>1, <3>2
    <3>3. CASE look = "none"
      BY <3>1, <3>3 DEF InDoubt
    <3>4. CASE look = mode[r] /\ look # "none"
      <4>1. r \notin blind => domain[thread[r]] = look
        BY <1>1, <3>1, <3>4 DEF DomainInv, SeenInv, Sees, Underway, Look
      <4> QED
        BY <3>1, <3>4, <4>1
    <3> QED
      BY <3>2, <3>3, <3>4
  <2> QED
    BY <2>1, <2>2
<1>5. \A q \in Messages \ {r} : thread[q] = thread[r] /\ step[q] = "routed" /\ thread[r] = q
                                 /\ domain[q] = "none" => q \in blind'
  <2> SUFFICES ASSUME NEW q \in Messages \ {r}, thread[q] = thread[r], step[q] = "routed",
                      thread[r] = q, domain[q] = "none", q \notin blind
               PROVE  q \in blind'
    BY <1>1
  <2>1. ~Sees(r)
    BY <1>1 DEF DomainInv, RoutedInv, Underway
  <2>2. PICK look \in Look(thread[r]) :
           blind' = IF look = "none" THEN blind \cup InDoubt(r) ELSE blind
    BY <2>1 DEF Redirect, Sees
  <2> QED
    BY <2>2 DEF Look, InDoubt, Underway
<1>11. Sees(r) => thread' = thread
  BY DEF Redirect, DomainInv, SeenInv, Sees
<1> HIDE DEF RoutingTypeOK
<1>6. RunInv'
  BY <1>1, <1>2 DEF DomainInv, RunInv, Others, Sees
<1>7. FreshInv'
  BY <1>1, <1>2, <1>3, <1>4 DEF DomainInv, FreshInv, Others, Early
<1>8. SeenInv'
  BY <1>1, <1>2, <1>11 DEF DomainInv, SeenInv, Others, Sees, Underway
<1>9. RoutedInv'
  <2>1. ASSUME NEW q \in Messages \ blind', step'[q] = "routed"
        PROVE  domain'[thread'[q]] = mode'[q] \/ (thread'[q] = q /\ domain'[q] = "none")
    <3>1. CASE q = r
      BY <1>1, <1>3, <1>4, <2>1, <3>1
    <3>2. CASE q # r
      BY <1>1, <1>2, <2>1, <3>2 DEF DomainInv, RoutedInv, Others
    <3> QED
      BY <3>1, <3>2
  <2>2. ASSUME NEW q \in Messages \ blind',
               step'[q] = "routed", thread'[q] = q, domain'[q] = "none",
               NEW p \in Messages \ {q}, thread'[p] = q, step'[p] \in Underway
        PROVE  step'[p] # "routed" /\ ~Sees(p)'
    <3>1. CASE q = r
      BY <1>2, <1>3, <2>2, <3>1 DEF Others
    <3>2. CASE q # r /\ p # r
      BY <1>1, <1>2, <2>2, <3>2 DEF DomainInv, RoutedInv, Others, Sees
    <3>3. CASE p = r
      BY <1>1, <1>2, <1>4, <1>5, <2>2, <3>3 DEF Others
    <3> QED
      BY <3>1, <3>2, <3>3
  <2> QED
    BY <2>1, <2>2 DEF RoutedInv
<1>10. ThreadKeepsDomain'
  BY <1>1, <1>2 DEF DomainInv, ThreadKeepsDomain, Others
<1> QED
  BY <1>6, <1>7, <1>8, <1>9, <1>10 DEF DomainInv

LEMMA QueueDomain ==
    ASSUME RoutingTypeOK, DomainInv, NEW r \in Messages, QueueMessage(r) PROVE DomainInv'
<1> USE DEF RoutingTypeOK
<1>1. /\ step[r] = "registered" /\ step' = [step EXCEPT ![r] = "queued"] /\ MakeRun(r)
      /\ seen' = [seen EXCEPT ![r] = "unread"]
      /\ UNCHANGED <<thread, mode>>
      /\ blind \subseteq blind' /\ blind' \subseteq Messages
      /\ ~Sees(r) => InDoubt(r) \subseteq blind'
  BY DEF QueueMessage, Forget, request, InDoubt, Sees
<1>2. Others(r) /\ step'[r] = "queued" /\ mode[r] # "none" /\ run[r] = "none"
  BY <1>1, MakeRunKeeps DEF Others, DomainInv, RunInv
<1>3. /\ \A t \in ThreadIds : domain[t] # "none" \/ t # thread[r] => domain'[t] = domain[t]
      /\ domain'[thread[r]] = "none" => run' = run
      /\ run'[r] \in {"none", thread[r]}
      /\ domain'[thread[r]] \in {domain[thread[r]], mode[r]}
  BY <1>1, <1>2, MakeRunKeeps
<1>4. Sees(r) /\ r \notin blind => domain[thread[r]] = mode[r]
  BY <1>1 DEF DomainInv, SeenInv, Underway
<1>5. \A q \in Messages : thread[q] \in ThreadIds /\ q \in ThreadIds
  BY DEF ThreadIds
<1>6. ~Sees(r)'
  BY <1>1 DEF Sees
<1> HIDE DEF RoutingTypeOK
<1>7. RunInv'
  BY <1>1, <1>2, <1>3, <1>6 DEF DomainInv, RunInv, Others, Sees
<1>8. FreshInv'
  <2> SUFFICES ASSUME NEW q \in Messages, step'[q] \in Early
               PROVE  domain'[q] = "none" /\ \A p \in Messages \ {q} : thread'[p] # q
    BY DEF FreshInv
  <2>1. q # r /\ step[q] \in Early /\ thread[r] # q
    BY <1>2 DEF Others, Early, DomainInv, FreshInv
  <2> QED
    BY <1>1, <1>3, <1>5, <2>1 DEF DomainInv, FreshInv
<1>9. SeenInv'
  <2> SUFFICES ASSUME NEW q \in Messages, Sees(q)'
               PROVE  /\ seen'[q] = mode'[q]
                      /\ step'[q] \in Underway /\ q \notin blind' => domain'[thread'[q]] = seen'[q]
    BY DEF SeenInv
  <2>1. q # r /\ seen'[q] = seen[q] /\ Sees(q)
    BY <1>2, <1>6 DEF Others, Sees
  <2> QED
    BY <1>1, <1>2, <1>3, <1>5, <2>1 DEF DomainInv, SeenInv, Others, Sees
<1>10. RoutedInv'
  <2>1. ASSUME NEW q \in Messages \ blind', step'[q] = "routed"
        PROVE  domain'[thread'[q]] = mode'[q] \/ (thread'[q] = q /\ domain'[q] = "none")
    <3>1. q # r /\ step[q] = "routed" /\ q \notin blind /\ mode'[q] = mode[q]
      BY <1>1, <1>2, <2>1 DEF Others
    <3>2. CASE domain[thread[q]] = mode[q]
      BY <1>1, <1>3, <1>5, <3>1, <3>2 DEF DomainInv, RunInv
    <3>3. CASE thread[q] = q /\ domain[q] = "none" /\ thread[r] # q
      BY <1>1, <1>3, <1>5, <3>3
    <3>4. CASE thread[q] = q /\ domain[q] = "none" /\ thread[r] = q
      <4>1. ~Sees(r)
        BY <1>1, <3>1, <3>4 DEF DomainInv, RoutedInv, Underway
      <4>2. q \in InDoubt(r)
        BY <3>1, <3>4 DEF InDoubt, Underway
      <4> QED
        BY <1>1, <2>1, <4>1, <4>2
    <3> QED
      BY <3>1, <3>2, <3>3, <3>4 DEF DomainInv, RoutedInv
  <2>2. ASSUME NEW q \in Messages \ blind',
               step'[q] = "routed", thread'[q] = q, domain'[q] = "none",
               NEW p \in Messages \ {q}, thread'[p] = q, step'[p] \in Underway
        PROVE  step'[p] # "routed" /\ ~Sees(p)'
    <3>1. q # r /\ p # r /\ step[q] = "routed" /\ q \notin blind
      BY <1>1, <1>2, <2>2 DEF Others, Underway
    <3>2. domain[q] = "none"
      BY <1>3, <1>5, <2>2
    <3> QED
      BY <1>1, <1>2, <2>2, <3>1, <3>2 DEF DomainInv, RoutedInv, Others, Sees
  <2> QED
    BY <2>1, <2>2 DEF RoutedInv
<1>11. ThreadKeepsDomain'
  BY <1>1, <1>2, <1>3, <1>4, <1>5, RunStays DEF InDoubt
<1> QED
  BY <1>7, <1>8, <1>9, <1>10, <1>11 DEF DomainInv

LEMMA StartDomain ==
    ASSUME RoutingTypeOK, DomainInv, NEW r \in Messages, StartRun(r) PROVE DomainInv'
<1> USE DEF RoutingTypeOK
<1>1. /\ step[r] = "routed" /\ step' = [step EXCEPT ![r] = "started"] /\ MakeRun(r)
      /\ seen' = [seen EXCEPT ![r] = "unread"]
      /\ UNCHANGED <<thread, mode, blind>>
  BY DEF StartRun, Forget, request, past
<1>2. Others(r) /\ step'[r] = "started" /\ mode[r] # "none" /\ run[r] = "none"
  BY <1>1, MakeRunKeeps DEF Others, DomainInv, RunInv
<1>3. /\ \A t \in ThreadIds : domain[t] # "none" \/ t # thread[r] => domain'[t] = domain[t]
      /\ domain'[thread[r]] = "none" => run' = run
      /\ run'[r] \in {"none", thread[r]}
      /\ domain'[thread[r]] \in {domain[thread[r]], mode[r]}
  BY <1>1, <1>2, MakeRunKeeps
<1>4. r \notin blind => domain[thread[r]] = mode[r] \/ domain[thread[r]] = "none"
  BY <1>1 DEF DomainInv, RoutedInv
<1>5. \A q \in Messages : thread[q] \in ThreadIds /\ q \in ThreadIds
  BY DEF ThreadIds
<1>6. ~Sees(r)'
  BY <1>1 DEF Sees
<1> HIDE DEF RoutingTypeOK
<1>7. RunInv'
  BY <1>1, <1>2, <1>3, <1>6 DEF DomainInv, RunInv, Others, Sees
<1>8. FreshInv'
  <2> SUFFICES ASSUME NEW q \in Messages, step'[q] \in Early
               PROVE  domain'[q] = "none" /\ \A p \in Messages \ {q} : thread'[p] # q
    BY DEF FreshInv
  <2>1. q # r /\ step[q] \in Early /\ thread[r] # q
    BY <1>2 DEF Others, Early, DomainInv, FreshInv
  <2> QED
    BY <1>1, <1>3, <1>5, <2>1 DEF DomainInv, FreshInv
<1>9. SeenInv'
  <2> SUFFICES ASSUME NEW q \in Messages, Sees(q)'
               PROVE  /\ seen'[q] = mode'[q]
                      /\ step'[q] \in Underway /\ q \notin blind' => domain'[thread'[q]] = seen'[q]
    BY DEF SeenInv
  <2>1. q # r /\ seen'[q] = seen[q] /\ Sees(q)
    BY <1>2, <1>6 DEF Others, Sees
  <2> QED
    BY <1>1, <1>2, <1>3, <1>5, <2>1 DEF DomainInv, SeenInv, Others, Sees
<1>10. RoutedInv'
  <2>1. ASSUME NEW q \in Messages \ blind', step'[q] = "routed"
        PROVE  domain'[thread'[q]] = mode'[q] \/ (thread'[q] = q /\ domain'[q] = "none")
    <3>1. q # r /\ step[q] = "routed" /\ q \notin blind /\ mode'[q] = mode[q]
      BY <1>1, <1>2, <2>1 DEF Others
    <3>2. CASE domain[thread[q]] = mode[q]
      BY <1>1, <1>3, <1>5, <3>1, <3>2 DEF DomainInv, RunInv
    <3>3. CASE thread[q] = q /\ domain[q] = "none"
      <4>1. thread[r] # q
        BY <1>1, <3>1, <3>3 DEF DomainInv, RoutedInv, Underway
      <4> QED
        BY <1>1, <1>3, <1>5, <3>3, <4>1
    <3> QED
      BY <3>1, <3>2, <3>3 DEF DomainInv, RoutedInv
  <2>2. ASSUME NEW q \in Messages \ blind',
               step'[q] = "routed", thread'[q] = q, domain'[q] = "none",
               NEW p \in Messages \ {q}, thread'[p] = q, step'[p] \in Underway
        PROVE  step'[p] # "routed" /\ ~Sees(p)'
    <3>1. q # r /\ p # r /\ step[q] = "routed" /\ q \notin blind
      BY <1>1, <1>2, <2>2 DEF Others, Underway
    <3>2. domain[q] = "none"
      BY <1>3, <1>5, <2>2
    <3> QED
      BY <1>1, <1>2, <2>2, <3>1, <3>2 DEF DomainInv, RoutedInv, Others, Sees
  <2> QED
    BY <2>1, <2>2 DEF RoutedInv
<1>11. ThreadKeepsDomain'
  BY <1>1, <1>2, <1>3, <1>4, <1>5, RunStays
<1> QED
  BY <1>7, <1>8, <1>9, <1>10, <1>11 DEF DomainInv

(* A thread that goes takes its runs along, and leaves the messages that   *)
(* are on their way to it in doubt.                                        *)
LEMMA DeleteDomain ==
    ASSUME RoutingTypeOK, DomainInv, NEW t \in ThreadIds, DeleteThread(t) PROVE DomainInv'
<1> USE DEF RoutingTypeOK
<1>1. /\ domain[t] # "none"
      /\ \A u \in ThreadIds : domain'[u] = IF u = t THEN "none" ELSE domain[u]
      /\ \A r \in Messages : run'[r] = IF run[r] = t THEN "none" ELSE run[r]
      /\ blind' = blind \cup {r \in Messages : thread[r] = t /\ step[r] \in Underway}
      /\ UNCHANGED <<step, thread, mode, seen>>
  BY DEF DeleteThread, request, looked
<1>2. \A q \in Messages : thread[q] \in ThreadIds /\ q \in ThreadIds
  BY DEF ThreadIds
<1> HIDE DEF RoutingTypeOK
<1>3. RunInv' /\ FreshInv'
  BY <1>1, <1>2 DEF DomainInv, RunInv, FreshInv, Sees
<1>4. SeenInv'
  BY <1>1, <1>2 DEF DomainInv, SeenInv, Sees
<1>5. RoutedInv'
  <2>1. ASSUME NEW q \in Messages \ blind', step[q] = "routed"
        PROVE  thread[q] # t /\ q \notin blind
    BY <1>1, <2>1 DEF Underway
  <2> QED
    BY <1>1, <1>2, <2>1 DEF DomainInv, RoutedInv, Sees
<1>6. ThreadKeepsDomain'
  <2> SUFFICES ASSUME NEW r \in Messages, r \notin blind', run'[r] # "none"
               PROVE  domain'[run'[r]] = mode'[r]
    BY DEF ThreadKeepsDomain
  <2>1. run'[r] = run[r] /\ run[r] # t /\ r \notin blind /\ run[r] \in ThreadIds
    BY <1>1 DEF RoutingTypeOK
  <2> QED
    BY <1>1, <2>1 DEF DomainInv, ThreadKeepsDomain
<1> QED
  BY <1>3, <1>4, <1>5, <1>6 DEF DomainInv

(* Every step keeps the threads' domains.                                  *)
LEMMA NextDomain ==
    ASSUME RoutingTypeOK, DomainInv, [RoutingNext]_routingVars PROVE DomainInv'
<1>1. CASE RoutingRestart
  <2>1. /\ UNCHANGED <<domain, thread, mode, run, blind>>
        /\ \A r \in Messages : seen'[r] = "unread"
        /\ \A r \in Messages : step'[r] =
              IF step[r] \in {"idle", "refused", "queued", "started"} THEN step[r] ELSE "lost"
    BY <1>1 DEF RoutingRestart, ways, request, past
  <2>2. \A r \in Messages : ~Sees(r)' /\ step'[r] # "routed"
    BY <2>1 DEF Sees
  <2>3. RunInv'
    BY <2>1, <2>2 DEF DomainInv, RunInv, Sees
  <2>4. FreshInv'
    BY <2>1 DEF DomainInv, FreshInv, Early
  <2> QED
    BY <2>1, <2>2, <2>3, <2>4 DEF DomainInv, SeenInv, RoutedInv, ThreadKeepsDomain
<1>2. ASSUME NEW t \in ThreadIds, DeleteThread(t) PROVE DomainInv'
  BY <1>2, DeleteDomain
<1>3. ASSUME NEW k \in MessageKeys, SweepKey(k) PROVE DomainInv'
  BY <1>3 DEF SweepKey, request, looked, DomainInv, RunInv, FreshInv, SeenInv, RoutedInv,
              ThreadKeepsDomain, Sees
<1>4. ASSUME NEW r \in Messages, CheckKey(r) \/ RegisterKey(r) PROVE DomainInv'
  <2>1. /\ UNCHANGED <<domain, thread, mode, seen, run, blind>>
        /\ step[r] \in {"arrived", "checked"}
        /\ \A q \in Messages \ {r} : step'[q] = step[q]
        /\ step'[r] \in {"checked", "refused", "registered"}
    BY <1>4 DEF CheckKey, RegisterKey, ways, request, looked, RoutingTypeOK
  <2>2. RunInv'
    BY <2>1 DEF DomainInv, RunInv, Sees
  <2>3. FreshInv'
    BY <2>1 DEF DomainInv, FreshInv, Early
  <2>4. SeenInv' /\ RoutedInv'
    BY <2>1 DEF DomainInv, SeenInv, RoutedInv, Sees, Underway
  <2>5. ThreadKeepsDomain'
    BY <2>1 DEF DomainInv, ThreadKeepsDomain
  <2> QED
    BY <2>2, <2>3, <2>4, <2>5 DEF DomainInv
<1>5. ASSUME NEW r \in Messages, Arrive(r) PROVE DomainInv'
  BY <1>5, ArriveDomain
<1>6. ASSUME NEW r \in Messages, QueueMessage(r) PROVE DomainInv'
  BY <1>6, QueueDomain
<1>7. ASSUME NEW r \in Messages, Redirect(r) PROVE DomainInv'
  BY <1>7, RedirectDomain
<1>8. ASSUME NEW r \in Messages, StartRun(r) PROVE DomainInv'
  BY <1>8, StartDomain
<1>9. CASE UNCHANGED routingVars
  BY <1>9 DEF routingVars, DomainInv, RunInv, FreshInv, SeenInv, RoutedInv, ThreadKeepsDomain,
              Sees
<1> QED
  BY <1>1, <1>2, <1>3, <1>4, <1>5, <1>6, <1>7, <1>8, <1>9 DEF RoutingNext

-----------------------------------------------------------------------------
(* The invariant of the messages' ways.                                    *)
RoutingInv == RoutingTypeOK /\ KeyInv /\ DomainInv

(* In every reachable state the stored keys are those of messages that were*)
(* let through, and what a message knows of its thread's domain is so.     *)
THEOREM RoutingInvariant == RoutingSpec => []RoutingInv
<1>1. RoutingInit => RoutingInv
  BY InitRouting, InitDomain DEF RoutingInv
<1>2. RoutingInv /\ [RoutingNext]_routingVars => RoutingInv'
  BY NextRoutingType, NextKey, NextDomain DEF RoutingInv, DomainInv
<1> QED
  BY <1>1, <1>2, PTL DEF RoutingSpec

(* Two messages with one key are not both handled, unless the key was lost *)
(* or not looked up in turn, and none is refused but for another one.      *)
THEOREM OneMessagePerKey == RoutingSpec => []MessageOnce
<1>1. RoutingInv => MessageOnce
  BY DEF RoutingInv, KeyInv, MessageOnce
<1> QED
  BY <1>1, RoutingInvariant, PTL

(* A run that saw its thread's domain is in a thread of its own domain.    *)
THEOREM DomainsAreKept == RoutingSpec => []ThreadKeepsDomain
<1>1. RoutingInv => ThreadKeepsDomain
  BY DEF RoutingInv, DomainInv
<1> QED
  BY <1>1, RoutingInvariant, PTL

HIDE RoutingAssumption

-----------------------------------------------------------------------------
(* ThreadHistory                                                           *)

(* The n-th of the uses of a turn.                                         *)
UseNo(used, n) == [tool |-> used[n], number |-> n]
FirstUse(used, n) == \A m \in 1 .. n - 1 : used[m] # used[n]
MakesCall(row, use) == \E k \in DOMAIN row.calls : row.calls[k] = use

(* A row of the turn t, whose results are those of the first r uses.       *)
Shaped(t, row, used, r) ==
    /\ row.of = t /\ row.text = "none"
    /\ \/ row.role = "assistant" /\ row.answers = NoUse /\ row.result = NoUse
       \/ /\ row.role = "tool" /\ row.calls = <<>>
          /\ row.result.number \in 1 .. r
          /\ row.result = UseNo(used, row.result.number)

OnRecord(rows, r) ==
    /\ \A n \in 1 .. r : \E i \in DOMAIN rows : rows[i].result.number = n
    /\ \A i, j \in DOMAIN rows : i < j /\ rows[j].role = "tool" =>
         rows[i].result.number <= rows[j].result.number

AnswersFit(rows) ==
    \A j \in DOMAIN rows : rows[j].answers # NoUse =>
        /\ rows[j].answers = rows[j].result
        /\ \A i \in 1 .. j - 1 : rows[i].answers # rows[j].answers
        /\ \E i \in 1 .. j - 1 : MakesCall(rows[i], rows[j].answers)

CallsFit(rows, used, c, r) ==
    /\ \A i \in DOMAIN rows : \A k \in DOMAIN rows[i].calls :
         LET call == rows[i].calls[k]
         IN  /\ call.number \in 1 .. c /\ call = UseNo(used, call.number)
             /\ FirstUse(used, call.number)
             /\ call.number <= r => \E j \in DOMAIN rows : rows[j].answers = call
             /\ call.number > r => /\ \A j \in DOMAIN rows : j > i => rows[j].role = "tool"
                                   /\ c < Len(used) => i = Len(rows)
    /\ \A n \in 1 .. c : FirstUse(used, n) => \E i \in DOMAIN rows : MakesCall(rows[i], UseNo(used, n))

Fits(t, rows, used, c, r) ==
    /\ r <= c /\ c <= Len(used)
    /\ \A i \in DOMAIN rows : Shaped(t, rows[i], used, r)
    /\ OnRecord(rows, r) /\ AnswersFit(rows) /\ CallsFit(rows, used, c, r)

-----------------------------------------------------------------------------
LEMMA UsesAreRows ==
    ASSUME NEW t \in HistoryTurns,
           NEW used \in Seq(HistoryTools), Len(used) <= MaxUses,
           NEW n \in 1 .. Len(used)
    PROVE  UseNo(used, n) \in Use /\ UseNo(used, n) # NoUse
  BY HistoryAssumption DEF UseNo, Use, NoUse

LEMMA RowsAreTyped ==
    ASSUME NEW t \in HistoryTurns
    PROVE  /\ UserRow(t) \in Row
           /\ \A text \in Text : TextRow(t, text) \in Row
           /\ \A calls \in Seq(Use) : CallsRow(t, calls) \in Row
           /\ \A id \in Use \cup {NoUse}, use \in Use : ResultRow(t, id, use) \in Row
<1>1. <<>> \in Seq(Use)
  OBVIOUS
<1>2. ASSUME NEW role \in {"user", "assistant", "tool"}, NEW text \in Text \cup {"none"},
             NEW calls \in Seq(Use), NEW id \in Use \cup {NoUse}, NEW use \in Use \cup {NoUse}
      PROVE  RowOf(t, role, text, calls, id, use) \in Row
  BY DEF RowOf, Row
<1> QED
  BY <1>1, <1>2 DEF UserRow, TextRow, CallsRow, ResultRow, Text

(* A set of positions has a first and a last.                              *)
LEMMA FirstAndLast ==
    ASSUME NEW n \in Nat, NEW S \in SUBSET (1 .. n), S # {}
    PROVE  /\ \E k \in S : \A j \in S : k <= j
           /\ \E k \in S : \A j \in S : j <= k
<1> DEFINE order == StrictSubsetOrdering(1 .. n)
           Ups == {1 .. k : k \in S}
           Downs == {k .. n : k \in S}
<1>0. IsFiniteSet(1 .. n)
  BY FS_Interval
<1>1. /\ Ups \subseteq FiniteSubsetsOf(1 .. n) /\ Ups # {}
      /\ Downs \subseteq FiniteSubsetsOf(1 .. n) /\ Downs # {}
  <2>1. \A k \in S : 1 .. k \in SUBSET (1 .. n) /\ k .. n \in SUBSET (1 .. n)
    OBVIOUS
  <2>2. \A T \in SUBSET (1 .. n) : T \in FiniteSubsetsOf(1 .. n)
    BY <1>0, FS_Subset DEF FiniteSubsetsOf
  <2> QED
    BY <2>1, <2>2
<1>2. PICK up \in Ups : \A x \in Ups : <<x, up>> \notin order
  BY <1>1, FS_StrictSubsetOrderingWellFounded, WFMin
<1>3. PICK down \in Downs : \A x \in Downs : <<x, down>> \notin order
  BY <1>1, FS_StrictSubsetOrderingWellFounded, WFMin
<1>4. PICK k \in S : up = 1 .. k
  BY <1>2
<1>5. PICK l \in S : down = l .. n
  BY <1>3
<1>6. ASSUME NEW j \in S, j < k PROVE FALSE
  <2>1. 1 .. j \in Ups /\ 1 .. j \subseteq 1 .. k /\ k \in 1 .. k /\ k \notin 1 .. j
    BY <1>6
  <2>2. <<1 .. j, up>> \in order
    BY <1>4, <2>1 DEF StrictSubsetOrdering
  <2> QED
    BY <1>2, <2>1, <2>2
<1>7. ASSUME NEW j \in S, j > l PROVE FALSE
  <2>1. j .. n \in Downs /\ j .. n \subseteq l .. n /\ l \in l .. n /\ l \notin j .. n
    BY <1>7
  <2>2. <<j .. n, down>> \in order
    BY <1>5, <2>1 DEF StrictSubsetOrdering
  <2> QED
    BY <1>3, <2>1, <2>2
<1>8. (\A j \in S : k <= j) /\ (\A j \in S : j <= l)
  BY <1>6, <1>7
<1> QED
  BY <1>8
-----------------------------------------------------------------------------
LEMMA MoreUsesFit ==
    ASSUME NEW t, NEW rows \in Seq(Row), NEW used \in Seq(HistoryTools), NEW r \in Nat,
           Fits(t, rows, used, Len(used), r), r = Len(used),
           NEW n \in Nat, NEW tools \in [1 .. n -> HistoryTools]
    PROVE  Fits(t, rows, used \o tools, Len(used), r)
<1> DEFINE more == used \o tools
<1>1. /\ Len(more) = Len(used) + n
      /\ \A i \in 1 .. Len(used) : more[i] = used[i]
  OBVIOUS
<1>2. \A i \in 1 .. Len(used) : UseNo(more, i) = UseNo(used, i)
  BY <1>1 DEF UseNo
<1>3. \A i \in 1 .. Len(used) : FirstUse(more, i) <=> FirstUse(used, i)
  BY <1>1 DEF FirstUse
<1> HIDE DEF more
<1>4. \A i \in DOMAIN rows : Shaped(t, rows[i], more, r)
  BY <1>2 DEF Shaped, Fits
<1>5. CallsFit(rows, more, Len(used), r)
  BY <1>1, <1>2, <1>3 DEF CallsFit, Fits
<1>6. r <= Len(used) /\ Len(used) <= Len(more) /\ OnRecord(rows, r) /\ AnswersFit(rows)
  BY <1>1 DEF Fits
<1>7. Fits(t, rows, more, Len(used), r)
  BY <1>4, <1>5, <1>6 DEF Fits
<1> QED
  BY <1>7 DEF more

LEMMA UntoldUseFits ==
    ASSUME NEW t, NEW rows \in Seq(Row), NEW used \in Seq(HistoryTools), NEW c \in Nat, NEW r \in Nat,
           Fits(t, rows, used, c, r), c < Len(used), ~FirstUse(used, c + 1)
    PROVE  Fits(t, rows, used, c + 1, r)
<1>1. CallsFit(rows, used, c + 1, r)
  BY DEF CallsFit, Fits
<1> QED
  BY <1>1 DEF Fits
(* What WithCall does to the rows.                                         *)
LEMMA WithCallJoins ==
    ASSUME NEW t \in HistoryTurns, NEW rows \in Seq(Row), NEW use \in Use
    PROVE  LET new == WithCall(t, rows, use)
           IN  /\ new \in Seq(Row)
               /\ Len(rows) <= Len(new) /\ Len(new) <= Len(rows) + 1
               /\ \A i \in DOMAIN rows :
                    /\ new[i].of = rows[i].of /\ new[i].role = rows[i].role
                    /\ new[i].text = rows[i].text
                    /\ new[i].answers = rows[i].answers /\ new[i].result = rows[i].result
                    /\ rows[i].role = "tool" => new[i].calls = rows[i].calls
                    /\ \A k \in DOMAIN rows[i].calls :
                         k \in DOMAIN new[i].calls /\ new[i].calls[k] = rows[i].calls[k]
               /\ Len(new) > Len(rows) =>
                    /\ new[Len(new)] = CallsRow(t, <<use>>)
                    /\ rows = <<>> \/ rows[Len(rows)].role # "assistant"
               /\ \A i \in DOMAIN new : \A k \in DOMAIN new[i].calls :
                    \/ i = Len(new) /\ new[i].calls[k] = use
                    \/ i \in DOMAIN rows /\ k \in DOMAIN rows[i].calls
               /\ new # <<>> /\ MakesCall(new[Len(new)], use)
<1> DEFINE new == WithCall(t, rows, use)
           last == Len(rows)
           longer == Append(rows[last].calls, use)
<1>1. CASE rows # <<>> /\ rows[last].role = "assistant"
  <2>1. last \in DOMAIN rows /\ rows[last] \in Row /\ rows[last].calls \in Seq(Use)
    <3>1. last \in DOMAIN rows /\ rows[last] \in Row
      BY <1>1
    <3> QED
      BY <3>1 DEF Row
  <2>2. new = [rows EXCEPT ![last].calls = longer]
    BY <1>1 DEF WithCall
  <2>3. /\ longer \in Seq(Use) /\ Len(longer) = Len(rows[last].calls) + 1
        /\ \A k \in DOMAIN rows[last].calls : k \in DOMAIN longer /\ longer[k] = rows[last].calls[k]
        /\ \A k \in DOMAIN longer : k \in DOMAIN rows[last].calls \/ longer[k] = use
        /\ Len(longer) \in DOMAIN longer /\ longer[Len(longer)] = use
    BY <2>1
  <2> HIDE DEF longer
  <2>4. [rows[last] EXCEPT !.calls = longer] \in Row
    BY <2>1, <2>3 DEF Row
  <2>5. new \in Seq(Row) /\ Len(new) = last
    BY <2>1, <2>2, <2>4
  <2>6. \A i \in DOMAIN rows : i # last => new[i] = rows[i]
    BY <2>2
  <2>7. /\ new[last].of = rows[last].of /\ new[last].role = rows[last].role
        /\ new[last].text = rows[last].text
        /\ new[last].answers = rows[last].answers /\ new[last].result = rows[last].result
        /\ new[last].calls = longer
    BY <2>1, <2>2 DEF Row
  <2> HIDE DEF new
  <2>8. MakesCall(new[Len(new)], use)
    BY <2>3, <2>5, <2>7 DEF MakesCall
  <2>9. DOMAIN new = DOMAIN rows /\ new # <<>>
    BY <1>1, <2>5
  <2>10. \A i \in DOMAIN rows :
           /\ new[i].of = rows[i].of /\ new[i].role = rows[i].role /\ new[i].text = rows[i].text
           /\ new[i].answers = rows[i].answers /\ new[i].result = rows[i].result
           /\ rows[i].role = "tool" => new[i].calls = rows[i].calls
           /\ \A k \in DOMAIN rows[i].calls :
                k \in DOMAIN new[i].calls /\ new[i].calls[k] = rows[i].calls[k]
    BY <1>1, <2>3, <2>6, <2>7
  <2>11. \A i \in DOMAIN new : \A k \in DOMAIN new[i].calls :
           \/ i = Len(new) /\ new[i].calls[k] = use
           \/ i \in DOMAIN rows /\ k \in DOMAIN rows[i].calls
    BY <2>3, <2>5, <2>6, <2>7, <2>9
  <2> QED
    BY <2>5, <2>8, <2>9, <2>10, <2>11 DEF new
<1>2. CASE ~(rows # <<>> /\ rows[last].role = "assistant")
  <2>1. new = Append(rows, CallsRow(t, <<use>>))
    BY <1>2 DEF WithCall
  <2>2. <<use>> \in Seq(Use) /\ CallsRow(t, <<use>>) \in Row
    BY RowsAreTyped
  <2>3. /\ new \in Seq(Row) /\ Len(new) = last + 1
        /\ new[last + 1] = CallsRow(t, <<use>>)
        /\ \A i \in DOMAIN rows : new[i] = rows[i]
    BY <2>1, <2>2
  <2>4. CallsRow(t, <<use>>).calls = <<use>>
    BY DEF CallsRow, RowOf
  <2> HIDE DEF new
  <2>5. MakesCall(new[Len(new)], use)
    BY <2>3, <2>4 DEF MakesCall
  <2>6. \A i \in DOMAIN new : \A k \in DOMAIN new[i].calls :
           \/ i = Len(new) /\ new[i].calls[k] = use
           \/ i \in DOMAIN rows /\ k \in DOMAIN rows[i].calls
    BY <2>3, <2>4
  <2> QED
    BY <1>2, <2>3, <2>5, <2>6 DEF new
<1> QED
  BY <1>1, <1>2

LEMMA CalledUseFits ==
    ASSUME NEW t \in HistoryTurns, NEW rows \in Seq(Row),
           NEW used \in Seq(HistoryTools), Len(used) <= MaxUses, NEW c \in Nat, NEW r \in Nat,
           Fits(t, rows, used, c, r), c < Len(used), FirstUse(used, c + 1)
    PROVE  Fits(t, WithCall(t, rows, UseNo(used, c + 1)), used, c + 1, r)
<1> DEFINE use == UseNo(used, c + 1)
           new == WithCall(t, rows, use)
<1>1. use \in Use /\ use.number = c + 1 /\ use = UseNo(used, use.number)
  BY UsesAreRows DEF UseNo
<1> HIDE DEF use
<1>2. /\ new \in Seq(Row)
      /\ Len(rows) <= Len(new) /\ Len(new) <= Len(rows) + 1
      /\ \A i \in DOMAIN rows :
           /\ new[i].of = rows[i].of /\ new[i].role = rows[i].role
           /\ new[i].text = rows[i].text
           /\ new[i].answers = rows[i].answers /\ new[i].result = rows[i].result
           /\ rows[i].role = "tool" => new[i].calls = rows[i].calls
           /\ \A k \in DOMAIN rows[i].calls :
                k \in DOMAIN new[i].calls /\ new[i].calls[k] = rows[i].calls[k]
      /\ Len(new) > Len(rows) =>
           /\ new[Len(new)] = CallsRow(t, <<use>>)
           /\ rows = <<>> \/ rows[Len(rows)].role # "assistant"
      /\ \A i \in DOMAIN new : \A k \in DOMAIN new[i].calls :
           \/ i = Len(new) /\ new[i].calls[k] = use
           \/ i \in DOMAIN rows /\ k \in DOMAIN rows[i].calls
      /\ new # <<>> /\ MakesCall(new[Len(new)], use)
  BY <1>1, WithCallJoins
<1> HIDE DEF new
<1>3. Len(new) > Len(rows) =>
        /\ new[Len(new)].of = t /\ new[Len(new)].text = "none"
        /\ new[Len(new)].role = "assistant" /\ new[Len(new)].answers = NoUse
        /\ new[Len(new)].result = NoUse
  BY <1>2 DEF CallsRow, RowOf
<1>4. /\ DOMAIN rows = 1 .. Len(rows) /\ DOMAIN new = 1 .. Len(new)
      /\ \A i \in DOMAIN new : i \notin DOMAIN rows => i = Len(new) /\ Len(new) > Len(rows)
  BY <1>2
<1>5. ASSUME NEW i \in DOMAIN new PROVE Shaped(t, new[i], used, r)
  <2>1. CASE i \in DOMAIN rows
    <3>1. Shaped(t, rows[i], used, r)
      BY <2>1 DEF Fits
    <3>2. /\ new[i].of = rows[i].of /\ new[i].text = rows[i].text
          /\ new[i].role = rows[i].role /\ new[i].answers = rows[i].answers
          /\ new[i].result = rows[i].result
          /\ rows[i].role = "tool" => new[i].calls = rows[i].calls
      BY <1>2, <2>1
    <3> QED
      BY <3>1, <3>2 DEF Shaped
  <2>2. CASE i \notin DOMAIN rows
    <3>1. i = Len(new) /\ Len(new) > Len(rows)
      BY <1>4, <2>2
    <3> QED
      BY <1>3, <3>1 DEF Shaped
  <2> QED
    BY <2>1, <2>2
<1>6. NoUse.number = 0
  BY DEF NoUse
<1>7. OnRecord(new, r)
  <2>1. \A n \in 1 .. r : \E i \in DOMAIN new : new[i].result.number = n
    <3> SUFFICES ASSUME NEW n \in 1 .. r PROVE \E i \in DOMAIN new : new[i].result.number = n
      OBVIOUS
    <3>1. PICK i \in DOMAIN rows : rows[i].result.number = n
      BY DEF Fits, OnRecord
    <3> QED
      BY <1>2, <1>4, <3>1
  <2>2. \A i, j \in DOMAIN new : i < j /\ new[j].role = "tool" =>
          new[i].result.number <= new[j].result.number
    <3> SUFFICES ASSUME NEW i \in DOMAIN new, NEW j \in DOMAIN new, i < j, new[j].role = "tool"
                 PROVE  new[i].result.number <= new[j].result.number
      OBVIOUS
    <3>1. i \in DOMAIN rows /\ j \in DOMAIN rows
      BY <1>2, <1>3, <1>4
    <3> QED
      BY <1>2, <3>1 DEF Fits, OnRecord
  <2> QED
    BY <2>1, <2>2 DEF OnRecord
<1>8. \A i \in DOMAIN rows, u \in Use : MakesCall(rows[i], u) => MakesCall(new[i], u)
  BY <1>2 DEF MakesCall
<1>9. ASSUME NEW j \in DOMAIN new, new[j].answers # NoUse
      PROVE  /\ new[j].answers = new[j].result
             /\ \A i \in 1 .. j - 1 : new[i].answers # new[j].answers
             /\ \E i \in 1 .. j - 1 : MakesCall(new[i], new[j].answers)
  <2>1. j \in DOMAIN rows /\ \A i \in 1 .. j - 1 : i \in DOMAIN rows
    BY <1>3, <1>4, <1>9
  <2>2. rows[j].answers \in Use
    <3>1. rows[j] \in Row /\ new[j].answers = rows[j].answers
      BY <1>2, <2>1
    <3> QED
      BY <1>9, <3>1 DEF Row
  <2> QED
    BY <1>2, <1>8, <1>9, <2>1, <2>2 DEF Fits, AnswersFit
<1>10. \A i \in DOMAIN rows : \A k \in DOMAIN rows[i].calls :
         rows[i].calls[k].number > r => i = Len(new)
  BY <1>2, <1>4 DEF Fits, CallsFit, Shaped
<1>11. ASSUME NEW i \in DOMAIN new, NEW k \in DOMAIN new[i].calls
       PROVE  LET call == new[i].calls[k]
              IN  /\ call.number \in 1 .. c + 1 /\ call = UseNo(used, call.number)
                  /\ FirstUse(used, call.number)
                  /\ call.number <= r => \E j \in DOMAIN new : new[j].answers = call
                  /\ call.number > r => i = Len(new)
  <2>1. CASE i = Len(new) /\ new[i].calls[k] = use
    BY <1>1, <2>1 DEF Fits
  <2>2. CASE i \in DOMAIN rows /\ k \in DOMAIN rows[i].calls
    <3>1. new[i].calls[k] = rows[i].calls[k]
      BY <1>2, <2>2
    <3>2. \A j \in DOMAIN rows : j \in DOMAIN new /\ new[j].answers = rows[j].answers
      BY <1>2, <1>4
    <3> QED
      BY <1>10, <2>2, <3>1, <3>2 DEF Fits, CallsFit
  <2> QED
    BY <1>2, <2>1, <2>2
<1>12. ASSUME NEW n \in 1 .. c + 1, FirstUse(used, n)
       PROVE  \E i \in DOMAIN new : MakesCall(new[i], UseNo(used, n))
  <2>1. CASE n = c + 1
    <3>1. Len(new) \in DOMAIN new
      BY <1>2, <1>4
    <3> QED
      BY <1>2, <2>1, <3>1 DEF use
  <2>2. CASE n # c + 1
    <3>1. n \in 1 .. c /\ UseNo(used, n) \in Use
      BY <2>2, UsesAreRows DEF Fits
    <3>2. PICK i \in DOMAIN rows : MakesCall(rows[i], UseNo(used, n))
      BY <1>12, <3>1 DEF Fits, CallsFit
    <3> QED
      BY <1>4, <1>8, <1>2, <3>1, <3>2
  <2> QED
    BY <2>1, <2>2
<1>13. CallsFit(new, used, c + 1, r)
  BY <1>4, <1>11, <1>12 DEF CallsFit
<1>14. Fits(t, new, used, c + 1, r)
  BY <1>5, <1>7, <1>9, <1>13 DEF Fits, AnswersFit
<1> QED
  BY <1>14 DEF new, use
-----------------------------------------------------------------------------
LEMMA RoundIsARow ==
    ASSUME NEW rows \in Seq(Row)
    PROVE  /\ RoundCalls(rows) = <<>> \/ \E i \in DOMAIN rows : RoundCalls(rows) = rows[i].calls
           /\ \A i \in DOMAIN rows :
                rows[i].role = "assistant" /\ (\A j \in DOMAIN rows : j > i => rows[j].role = "tool")
                => RoundCalls(rows) = rows[i].calls
<1> DEFINE round == {i \in DOMAIN rows : /\ rows[i].role = "assistant"
                                         /\ \A j \in DOMAIN rows : j > i => rows[j].role = "tool"}
<1>1. RoundCalls(rows) = IF round = {} THEN <<>> ELSE rows[CHOOSE i \in round : TRUE].calls
  BY DEF RoundCalls
<1>2. \A i, j \in round : i = j
  <2> SUFFICES ASSUME NEW i \in round, NEW j \in round PROVE i = j
    OBVIOUS
  <2>1. i \in 1 .. Len(rows) /\ j \in 1 .. Len(rows)
    OBVIOUS
  <2>2. ~(i < j) /\ ~(j < i)
    BY <2>1
  <2> QED
    BY <2>1, <2>2
<1>3. round # {} => (CHOOSE i \in round : TRUE) \in round
  OBVIOUS
<1>4. \A i \in round : RoundCalls(rows) = rows[i].calls
  BY <1>1, <1>2, <1>3
<1> QED
  BY <1>1, <1>3, <1>4

(* The calls of the tool of the next result that are not answered: that    *)
(* result's own, if it is the first of its tool.                           *)
LEMMA NextResult ==
    ASSUME NEW t \in HistoryTurns, NEW rows \in Seq(Row),
           NEW used \in Seq(HistoryTools), Len(used) <= MaxUses, NEW r \in Nat,
           Fits(t, rows, used, Len(used), r), r < Len(used)
    PROVE  LET use == UseNo(used, r + 1)
           IN  WithResult(t, rows, use) =
                 Append(rows, ResultRow(t, IF FirstUse(used, r + 1) THEN use ELSE NoUse, use))
<1> DEFINE n == r + 1
           use == UseNo(used, n)
           round == RoundCalls(rows)
           free == FreeCalls(rows, use)
           first == CHOOSE k \in free : \A j \in free : k <= j
<1>1. use \in Use /\ use # NoUse /\ use.number = n /\ use.tool = used[n]
  BY UsesAreRows DEF UseNo
<1>2. round = <<>> \/ \E i \in DOMAIN rows : round = rows[i].calls
  BY RoundIsARow
<1>3. free = {k \in DOMAIN round : /\ round[k].tool = used[n]
                                   /\ \A i \in DOMAIN rows : rows[i].answers # round[k]}
  BY <1>1 DEF FreeCalls
<1>4. WithResult(t, rows, use)
        = Append(rows, ResultRow(t, IF free = {} THEN NoUse ELSE round[first], use))
  BY DEF WithResult
<1>5. ASSUME NEW k \in free PROVE FirstUse(used, n) /\ round[k] = use
  <2>1. PICK i \in DOMAIN rows : round = rows[i].calls
    BY <1>2, <1>3, <1>5
  <2>2. /\ round[k].number \in 1 .. Len(used) /\ round[k] = UseNo(used, round[k].number)
        /\ FirstUse(used, round[k].number)
        /\ ~(round[k].number <= r) /\ round[k].tool = used[n]
    BY <1>3, <2>1 DEF Fits, CallsFit
  <2>3. used[round[k].number] = used[n]
    BY <2>2 DEF UseNo
  <2>4. n \in 1 .. Len(used) /\ (n < round[k].number => used[n] # used[round[k].number])
    BY <2>2 DEF FirstUse
  <2>5. round[k].number = n
    BY <2>2, <2>3, <2>4
  <2> QED
    BY <2>2, <2>5
<1>6. ASSUME FirstUse(used, n) PROVE free # {}
  <2>1. PICK i \in DOMAIN rows : MakesCall(rows[i], use)
    BY <1>6 DEF Fits, CallsFit
  <2>2. PICK k \in DOMAIN rows[i].calls : rows[i].calls[k] = use
    BY <2>1 DEF MakesCall
  <2>3. \A j \in DOMAIN rows : j > i => rows[j].role = "tool"
    BY <1>1, <2>2 DEF Fits, CallsFit
  <2>4. rows[i].role = "assistant"
    BY <2>2 DEF Fits, Shaped
  <2>5. round = rows[i].calls
    BY <2>3, <2>4, RoundIsARow
  <2>6. \A j \in DOMAIN rows : rows[j].answers # use
    <3> SUFFICES ASSUME NEW j \in DOMAIN rows, rows[j].answers = use PROVE FALSE
      OBVIOUS
    <3>1. rows[j].result = use
      BY <1>1 DEF Fits, AnswersFit
    <3>2. NoUse.number = 0
      BY DEF NoUse
    <3> QED
      BY <1>1, <3>1, <3>2 DEF Fits, Shaped
  <2> QED
    BY <1>1, <1>3, <2>2, <2>5, <2>6
<1>7. CASE FirstUse(used, n)
  <2>1. free # {} /\ free \subseteq DOMAIN round
    BY <1>3, <1>6, <1>7
  <2>2. PICK i \in DOMAIN rows : round = rows[i].calls
    BY <1>2, <2>1
  <2>3. round \in Seq(Use)
    <3>1. rows[i] \in Row
      OBVIOUS
    <3> QED
      BY <2>2, <3>1 DEF Row
  <2>4. Len(round) \in Nat /\ free \in SUBSET (1 .. Len(round))
    BY <2>1, <2>3
  <2> HIDE DEF free, round, use
  <2>5. \E k \in free : \A j \in free : k <= j
    BY <2>1, <2>4, FirstAndLast
  <2>6. first \in free
    BY <2>5
  <2> QED
    BY <1>4, <1>5, <1>7, <2>1, <2>6 DEF use
<1>8. CASE ~FirstUse(used, n)
  BY <1>4, <1>5, <1>8
<1> QED
  BY <1>7, <1>8

LEMMA ResultFits ==
    ASSUME NEW t \in HistoryTurns, NEW rows \in Seq(Row),
           NEW used \in Seq(HistoryTools), Len(used) <= MaxUses, NEW r \in Nat,
           Fits(t, rows, used, Len(used), r), r < Len(used)
    PROVE  LET use == UseNo(used, r + 1)
               new == WithResult(t, WithResult(t, rows, use), use)
           IN  new \in Seq(Row) /\ Fits(t, new, used, Len(used), r + 1)
<1> DEFINE n == r + 1
           use == UseNo(used, n)
           id == IF FirstUse(used, n) THEN use ELSE NoUse
           once == Append(rows, ResultRow(t, id, use))
           new == Append(once, ResultRow(t, NoUse, use))
<1>1. use \in Use /\ use # NoUse /\ use.number = n /\ use.tool = used[n] /\ id \in Use \cup {NoUse}
  BY UsesAreRows DEF UseNo
<1>2. WithResult(t, rows, use) = once
  BY NextResult
<1>3. /\ ResultRow(t, id, use) \in Row /\ ResultRow(t, NoUse, use) \in Row
      /\ ResultRow(t, id, use).of = t /\ ResultRow(t, id, use).text = "none"
      /\ ResultRow(t, id, use).role = "tool" /\ ResultRow(t, id, use).calls = <<>>
      /\ ResultRow(t, id, use).answers = id /\ ResultRow(t, id, use).result = use
      /\ ResultRow(t, NoUse, use).of = t /\ ResultRow(t, NoUse, use).text = "none"
      /\ ResultRow(t, NoUse, use).role = "tool" /\ ResultRow(t, NoUse, use).calls = <<>>
      /\ ResultRow(t, NoUse, use).answers = NoUse /\ ResultRow(t, NoUse, use).result = use
  BY <1>1, RowsAreTyped DEF ResultRow, RowOf
<1>4. /\ once \in Seq(Row) /\ Len(once) = Len(rows) + 1
      /\ \A i \in DOMAIN rows : once[i] = rows[i]
      /\ once[Len(rows) + 1] = ResultRow(t, id, use)
  BY <1>3
<1>5. /\ new \in Seq(Row) /\ Len(new) = Len(rows) + 2
      /\ \A i \in DOMAIN rows : new[i] = rows[i]
      /\ new[Len(rows) + 1] = ResultRow(t, id, use)
      /\ new[Len(rows) + 2] = ResultRow(t, NoUse, use)
  BY <1>3, <1>4
<1> HIDE DEF use, id, once, new
(* The call of the second event, if there is one, is taken.                *)
<1>6. FreeCalls(once, use) = {}
  <2> SUFFICES ASSUME NEW k \in FreeCalls(once, use) PROVE FALSE
    OBVIOUS
  <2>1. /\ k \in DOMAIN RoundCalls(once) /\ RoundCalls(once)[k].tool = used[n]
        /\ \A i \in DOMAIN once : once[i].answers # RoundCalls(once)[k]
    BY <1>1 DEF FreeCalls
  <2>2. PICK i \in DOMAIN once : RoundCalls(once) = once[i].calls
    <3>1. RoundCalls(once) # <<>>
      BY <2>1
    <3> QED
      BY <1>4, <3>1, RoundIsARow
  <2>3. i \in DOMAIN rows /\ k \in DOMAIN rows[i].calls /\ rows[i].calls[k] = RoundCalls(once)[k]
    BY <1>3, <1>4, <2>1, <2>2
  <2> DEFINE call == rows[i].calls[k]
  <2>4. /\ call.number \in 1 .. Len(used) /\ call = UseNo(used, call.number)
        /\ FirstUse(used, call.number)
        /\ call.number <= r => \E j \in DOMAIN rows : rows[j].answers = call
    BY <2>3 DEF Fits, CallsFit
  <2>5. ~(call.number <= r)
    BY <1>4, <2>1, <2>3, <2>4
  <2>6. used[call.number] = used[n]
    BY <2>1, <2>3, <2>4 DEF UseNo
  <2>7. n \in 1 .. Len(used) /\ (n < call.number => used[n] # used[call.number])
    BY <2>4 DEF FirstUse
  <2>8. call.number = n
    BY <2>4, <2>5, <2>6, <2>7
  <2>9. call = use /\ id = use
    BY <2>4, <2>8 DEF use, id
  <2> QED
    BY <1>3, <1>4, <2>1, <2>3, <2>9
<1>7. WithResult(t, once, use) = new
  BY <1>6 DEF WithResult, new
<1>8. DOMAIN rows = 1 .. Len(rows) /\ DOMAIN new = 1 .. Len(rows) + 2
  BY <1>5
<1>9. \A i \in DOMAIN new : i \in DOMAIN rows \/ i = Len(rows) + 1 \/ i = Len(rows) + 2
  BY <1>8
<1>10. NoUse.number = 0
  BY DEF NoUse
<1>11. \A i \in DOMAIN new : Shaped(t, new[i], used, n)
  <2> SUFFICES ASSUME NEW i \in DOMAIN new PROVE Shaped(t, new[i], used, n)
    OBVIOUS
  <2>1. CASE i \in DOMAIN rows
    BY <1>5, <2>1 DEF Fits, Shaped
  <2>2. CASE i \notin DOMAIN rows
    BY <1>1, <1>3, <1>5, <1>9, <2>2 DEF Shaped, use
  <2> QED
    BY <2>1, <2>2
<1>12. \A i \in DOMAIN rows : rows[i].result.number <= r
  BY <1>10 DEF Fits, Shaped
<1>13. OnRecord(new, n)
  <2>1. \A m \in 1 .. n : \E i \in DOMAIN new : new[i].result.number = m
    <3> SUFFICES ASSUME NEW m \in 1 .. n PROVE \E i \in DOMAIN new : new[i].result.number = m
      OBVIOUS
    <3>1. CASE m = n
      BY <1>1, <1>3, <1>5, <1>8, <3>1
    <3>2. CASE m # n
      <4>1. PICK i \in DOMAIN rows : rows[i].result.number = m
        BY <3>2 DEF Fits, OnRecord
      <4> QED
        BY <1>5, <1>8, <4>1
    <3> QED
      BY <3>1, <3>2
  <2>2. \A i, j \in DOMAIN new : i < j /\ new[j].role = "tool" =>
          new[i].result.number <= new[j].result.number
    <3> SUFFICES ASSUME NEW i \in DOMAIN new, NEW j \in DOMAIN new, i < j, new[j].role = "tool"
                 PROVE  new[i].result.number <= new[j].result.number
      OBVIOUS
    <3>1. CASE j \in DOMAIN rows
      <4>1. i \in DOMAIN rows
        BY <1>8, <3>1
      <4> QED
        BY <1>5, <3>1, <4>1 DEF Fits, OnRecord
    <3>2. CASE j \notin DOMAIN rows
      <4>1. new[j].result.number = n
        BY <1>1, <1>3, <1>5, <1>9, <3>2
      <4>2. new[i].result.number <= n
        <5>1. CASE i \in DOMAIN rows
          BY <1>5, <1>12, <1>10, <5>1 DEF Fits, Shaped
        <5>2. CASE i \notin DOMAIN rows
          BY <1>1, <1>3, <1>5, <1>9, <5>2
        <5> QED
          BY <5>1, <5>2
      <4> QED
        BY <4>1, <4>2
    <3> QED
      BY <3>1, <3>2
  <2> QED
    BY <2>1, <2>2 DEF OnRecord
<1>14. ASSUME NEW j \in DOMAIN new, new[j].answers # NoUse
       PROVE  /\ new[j].answers = new[j].result
              /\ \A i \in 1 .. j - 1 : new[i].answers # new[j].answers
              /\ \E i \in 1 .. j - 1 : MakesCall(new[i], new[j].answers)
  <2>1. CASE j \in DOMAIN rows
    <3>1. \A i \in 1 .. j - 1 : i \in DOMAIN rows
      BY <1>8, <2>1
    <3> QED
      BY <1>5, <1>14, <2>1, <3>1 DEF Fits, AnswersFit
  <2>2. CASE j \notin DOMAIN rows
    <3>1. j = Len(rows) + 1 /\ new[j].answers = use /\ new[j].result = use /\ FirstUse(used, n)
      BY <1>3, <1>5, <1>9, <1>14, <2>2 DEF id
    <3>2. \A i \in 1 .. j - 1 : i \in DOMAIN rows /\ new[i] = rows[i]
      BY <1>5, <1>8, <3>1
    <3>3. \A i \in DOMAIN rows : rows[i].answers # use
      BY <1>1, <1>12 DEF Fits, AnswersFit
    <3>4. \E i \in DOMAIN rows : MakesCall(rows[i], use)
      BY <3>1 DEF Fits, CallsFit, use
    <3> QED
      BY <1>5, <1>8, <3>1, <3>2, <3>3, <3>4
  <2> QED
    BY <2>1, <2>2
<1>15. ASSUME NEW i \in DOMAIN new, NEW k \in DOMAIN new[i].calls
       PROVE  LET call == new[i].calls[k]
              IN  /\ call.number \in 1 .. Len(used) /\ call = UseNo(used, call.number)
                  /\ FirstUse(used, call.number)
                  /\ call.number <= n => \E j \in DOMAIN new : new[j].answers = call
                  /\ call.number > n => \A j \in DOMAIN new : j > i => new[j].role = "tool"
  <2> DEFINE call == new[i].calls[k]
  <2>1. i \in DOMAIN rows /\ new[i] = rows[i]
    BY <1>3, <1>5, <1>9
  <2>2. /\ call.number \in 1 .. Len(used) /\ call = UseNo(used, call.number)
        /\ FirstUse(used, call.number)
        /\ call.number <= r => \E j \in DOMAIN rows : rows[j].answers = call
        /\ call.number > r => \A j \in DOMAIN rows : j > i => rows[j].role = "tool"
    BY <2>1 DEF Fits, CallsFit
  <2>3. call.number > n => \A j \in DOMAIN new : j > i => new[j].role = "tool"
    BY <1>3, <1>5, <1>9, <2>2
  <2>4. call.number <= r => \E j \in DOMAIN new : new[j].answers = call
    BY <1>5, <1>8, <2>2
  <2>5. call.number = n => \E j \in DOMAIN new : new[j].answers = call
    BY <1>3, <1>5, <1>8, <2>2 DEF use, id
  <2> HIDE DEF call
  <2>6. call.number <= n => \E j \in DOMAIN new : new[j].answers = call
    BY <2>2, <2>4, <2>5
  <2> QED
    BY <2>2, <2>3, <2>6 DEF call
<1>16. ASSUME NEW m \in 1 .. Len(used), FirstUse(used, m)
       PROVE  \E i \in DOMAIN new : MakesCall(new[i], UseNo(used, m))
  <2>1. PICK i \in DOMAIN rows : MakesCall(rows[i], UseNo(used, m))
    BY <1>16 DEF Fits, CallsFit
  <2> QED
    BY <1>5, <1>8, <2>1
<1>17. CallsFit(new, used, Len(used), n)
  BY <1>15, <1>16 DEF CallsFit
<1>18. n <= Len(used)
  OBVIOUS
<1>19. Fits(t, new, used, Len(used), n)
  BY <1>11, <1>13, <1>14, <1>17, <1>18 DEF Fits, AnswersFit
<1> QED
  BY <1>2, <1>5, <1>7, <1>19 DEF use
-----------------------------------------------------------------------------
(* What a turn that is under way has kept fits what it did; the stored     *)
(* rows are of the turns that are stored, and true; what a turn heard is   *)
(* in the thread, and so are the words it answers with, if not its own.    *)
KeptFits ==
    \A t \in HistoryTurns : went[t] \in {"unsent", "running", "over"} =>
        Fits(t, kept[t], uses[t], told[t], ran[t])
LogIsStored == \A i \in DOMAIN log : went[log[i].of] = "stored"
Said(text) == \E i \in DOMAIN log : log[i].role = "assistant" /\ log[i].text = text
WordsAreSaid ==
    \A t \in HistoryTurns :
        /\ \A i \in DOMAIN heard[t] : \E j \in DOMAIN log : log[j] = heard[t][i]
        /\ reply[t] \in {"none", t, Apology} \/ Said(reply[t])
HistoryInv ==
    HistoryTypeOK /\ KeptFits /\ LogIsStored /\ WordsAreSaid /\ StoredTurnsAreTrue

USE HistoryAssumption

LEMMA InitHistory == HistoryInit => HistoryInv
<1> SUFFICES ASSUME HistoryInit PROVE HistoryInv
  OBVIOUS
<1>1. HistoryTypeOK
  BY DEF HistoryInit, HistoryTypeOK, TurnStep
<1>2. ASSUME NEW t \in HistoryTurns PROVE Fits(t, <<>>, <<>>, 0, 0)
  BY DEF Fits, OnRecord, AnswersFit, CallsFit
<1>3. KeptFits
  BY <1>2 DEF KeptFits, HistoryInit
<1>4. LogIsStored /\ WordsAreSaid /\ StoredTurnsAreTrue
  BY DEF LogIsStored, WordsAreSaid, StoredTurnsAreTrue, HistoryInit
<1> QED
  BY <1>1, <1>3, <1>4 DEF HistoryInv

(* Only the storing of a turn disturbs what is said of the log.            *)
LEMMA LogStays ==
    ASSUME HistoryInv, log' = log, ran' = ran, NEW t \in HistoryTurns, NEW end \in TurnStep,
           went' = [went EXCEPT ![t] = end], went[t] # "stored", end # "stored"
    PROVE  LogIsStored' /\ StoredTurnsAreTrue'
<1>1. \A q \in HistoryTurns : went'[q] = "stored" => went[q] = "stored"
  BY DEF HistoryInv, HistoryTypeOK
<1>2. StoredTurnsAreTrue'
  BY <1>1 DEF HistoryInv, StoredTurnsAreTrue
<1>3. \A i \in DOMAIN log : log[i].of \in HistoryTurns /\ log[i].of # t
  <2> SUFFICES ASSUME NEW i \in DOMAIN log PROVE log[i].of \in HistoryTurns /\ log[i].of # t
    OBVIOUS
  <2>1. log[i] \in Row
    BY DEF HistoryInv, HistoryTypeOK
  <2> QED
    BY <2>1 DEF HistoryInv, LogIsStored, Row
<1>4. LogIsStored'
  BY <1>3 DEF HistoryInv, LogIsStored, HistoryTypeOK
<1> QED
  BY <1>2, <1>4

LEMMA BeginTurnStep ==
    ASSUME HistoryInv, NEW t \in HistoryTurns, BeginTurn(t)
    PROVE  HistoryInv'
<1> USE DEF HistoryInv
<1>1. PICK history \in LoadHistory : heard' = [heard EXCEPT ![t] = history]
  BY DEF BeginTurn
<1>2. /\ history \in Seq(Row) /\ Len(history) <= HistoryLimit
      /\ \A i \in DOMAIN history : \E j \in DOMAIN log : log[j] = history[i]
  <2>0. log \in Seq(Row) /\ Len(log) \in Nat
    BY DEF HistoryTypeOK
  <2>1. CASE history = <<>>
    BY <2>1
  <2>2. CASE history = log /\ Len(log) <= HistoryLimit
    BY <2>0, <2>2
  <2>3. CASE history = Newest /\ Len(log) > HistoryLimit
    <3> DEFINE low == Len(log) - HistoryLimit + 1
    <3>1. low \in 1 .. Len(log) + 1
      BY <2>0, <2>3
    <3>2. /\ history \in Seq(Row) /\ Len(history) = HistoryLimit
          /\ \A i \in 1 .. HistoryLimit : history[i] = log[low + i - 1]
      BY <2>0, <2>3, <3>1 DEF Newest
    <3>3. \A i \in 1 .. HistoryLimit : low + i - 1 \in DOMAIN log
      BY <2>0, <3>1
    <3> QED
      BY <3>2, <3>3
  <2> QED
    BY <1>1, <2>0, <2>1, <2>2, <2>3 DEF LoadHistory
<1>3. HistoryTypeOK'
  BY <1>1, <1>2 DEF BeginTurn, graph, emitted, HistoryTypeOK, TurnStep
<1>4. KeptFits'
  BY DEF BeginTurn, graph, emitted, KeptFits, HistoryTypeOK
<1>5. WordsAreSaid'
  BY <1>1, <1>2 DEF BeginTurn, graph, emitted, WordsAreSaid, HistoryTypeOK, Said
<1>6. LogIsStored' /\ StoredTurnsAreTrue'
  BY LogStays DEF BeginTurn, emitted, TurnStep
<1> QED
  BY <1>3, <1>4, <1>5, <1>6

LEMMA AgentCallsStep ==
    ASSUME HistoryInv, NEW t \in HistoryTurns, AgentCalls(t)
    PROVE  HistoryInv'
<1> USE DEF HistoryInv
<1>1. PICK n \in 1 .. MaxUses - Len(uses[t]) : \E tools \in [1 .. n -> HistoryTools] :
        uses' = [uses EXCEPT ![t] = @ \o tools]
  BY DEF AgentCalls
<1>2. PICK tools \in [1 .. n -> HistoryTools] : uses' = [uses EXCEPT ![t] = @ \o tools]
  BY <1>1
<1>3. uses[t] \in Seq(HistoryTools) /\ Len(uses[t]) \in Nat /\ Len(uses[t]) <= MaxUses
  BY DEF HistoryTypeOK
<1>4. /\ n \in Nat /\ uses'[t] = uses[t] \o tools
      /\ uses[t] \o tools \in Seq(HistoryTools) /\ Len(uses[t] \o tools) = Len(uses[t]) + n
      /\ Len(uses[t] \o tools) <= MaxUses
  <2>1. n \in Nat /\ uses'[t] = uses[t] \o tools
    BY <1>2, <1>3 DEF HistoryTypeOK
  <2>2. tools \in Seq(HistoryTools) /\ Len(tools) = n
    BY <1>2, <2>1
  <2>3. uses[t] \o tools \in Seq(HistoryTools) /\ Len(uses[t] \o tools) = Len(uses[t]) + n
    BY <1>3, <2>2
  <2>4. Len(uses[t]) + n <= MaxUses
    BY <1>1, <1>3
  <2> QED
    BY <2>1, <2>3, <2>4
<1>5. told[t] = Len(uses[t]) /\ ran[t] = Len(uses[t])
  BY DEF AgentCalls, KeptFits, Fits, HistoryTypeOK
<1>6. Fits(t, kept[t], uses[t] \o tools, told[t], ran[t])
  BY <1>3, <1>4, <1>5, MoreUsesFit DEF AgentCalls, KeptFits, HistoryTypeOK
<1>7. HistoryTypeOK'
  <2>1. spoke' \in [HistoryTurns -> BOOLEAN]
    BY DEF AgentCalls, HistoryTypeOK
  <2>2. /\ uses' \in [HistoryTurns -> Seq(HistoryTools)]
        /\ \A q \in HistoryTurns : Len(uses'[q]) <= MaxUses
    BY <1>2, <1>3, <1>4 DEF HistoryTypeOK
  <2> QED
    BY <2>1, <2>2 DEF AgentCalls, emitted, HistoryTypeOK
<1>8. \A q \in HistoryTurns : q # t => uses'[q] = uses[q]
  BY <1>2 DEF HistoryTypeOK
<1>9. KeptFits'
  BY <1>4, <1>6, <1>8 DEF AgentCalls, emitted, KeptFits
<1>10. WordsAreSaid' /\ LogIsStored' /\ StoredTurnsAreTrue'
  BY DEF AgentCalls, emitted, WordsAreSaid, Said, LogIsStored, StoredTurnsAreTrue
<1> QED
  BY <1>7, <1>9, <1>10

LEMMA SendToolCalledStep ==
    ASSUME HistoryInv, NEW t \in HistoryTurns, SendToolCalled(t)
    PROVE  HistoryInv'
<1> USE DEF HistoryInv
<1> DEFINE n == told[t] + 1
<1>1. /\ kept[t] \in Seq(Row) /\ uses[t] \in Seq(HistoryTools) /\ Len(uses[t]) <= MaxUses
      /\ told[t] \in Nat /\ ran[t] \in Nat /\ told[t] < Len(uses[t])
      /\ Fits(t, kept[t], uses[t], told[t], ran[t])
  BY DEF SendToolCalled, KeptFits, HistoryTypeOK
<1>2. told'[t] = n /\ n \in 1 .. Len(uses[t]) /\ told' = [told EXCEPT ![t] = n]
  BY <1>1 DEF SendToolCalled, HistoryTypeOK
<1>3. uses[t][n] \in SeenTools(t) <=> ~FirstUse(uses[t], n)
  BY <1>1, <1>2 DEF SeenTools, FirstUse
<1>4. UseOf(t, n) = UseNo(uses[t], n) /\ UseOf(t, n) \in Use
  BY <1>1, <1>2, UsesAreRows DEF UseOf, UseNo
<1>5. kept' = [kept EXCEPT ![t] = IF uses[t][n] \in SeenTools(t) THEN @
                                  ELSE WithCall(t, @, UseOf(t, n))]
  BY <1>2 DEF SendToolCalled
<1>6. PICK rows \in Seq(Row) : /\ kept' = [kept EXCEPT ![t] = rows]
                               /\ Fits(t, rows, uses[t], n, ran[t])
  <2>1. CASE FirstUse(uses[t], n)
    <3>1. WithCall(t, kept[t], UseOf(t, n)) \in Seq(Row)
      BY <1>1, <1>4, WithCallJoins
    <3>2. Fits(t, WithCall(t, kept[t], UseOf(t, n)), uses[t], n, ran[t])
      BY <1>1, <1>4, <2>1, CalledUseFits
    <3> QED
      BY <1>3, <1>5, <2>1, <3>1, <3>2
  <2>2. CASE ~FirstUse(uses[t], n)
    <3>1. Fits(t, kept[t], uses[t], n, ran[t])
      BY <1>1, <2>2, UntoldUseFits
    <3> QED
      BY <1>1, <1>3, <1>5, <2>2, <3>1
  <2> QED
    BY <2>1, <2>2
<1> HIDE DEF n
<1>7. HistoryTypeOK'
  BY <1>1, <1>2, <1>6 DEF SendToolCalled, graph, HistoryTypeOK
<1>8. KeptFits'
  BY <1>2, <1>6 DEF SendToolCalled, graph, KeptFits, HistoryTypeOK
<1>9. WordsAreSaid' /\ LogIsStored' /\ StoredTurnsAreTrue'
  BY DEF SendToolCalled, WordsAreSaid, Said, LogIsStored, StoredTurnsAreTrue
<1> QED
  BY <1>7, <1>8, <1>9

LEMMA SendResultStep ==
    ASSUME HistoryInv, NEW t \in HistoryTurns, SendResult(t)
    PROVE  HistoryInv'
<1> USE DEF HistoryInv
<1> DEFINE n == ran[t] + 1
           use == UseOf(t, n)
           rows == WithResult(t, WithResult(t, kept[t], use), use)
<1>1. /\ kept[t] \in Seq(Row) /\ uses[t] \in Seq(HistoryTools) /\ Len(uses[t]) <= MaxUses
      /\ told[t] = Len(uses[t]) /\ ran[t] \in Nat /\ ran[t] < Len(uses[t])
      /\ Fits(t, kept[t], uses[t], Len(uses[t]), ran[t])
  BY DEF SendResult, KeptFits, HistoryTypeOK
<1>2. ran' = [ran EXCEPT ![t] = n] /\ n \in 1 .. MaxUses /\ kept' = [kept EXCEPT ![t] = rows]
  BY <1>1 DEF SendResult
<1>3. use = UseNo(uses[t], n)
  BY DEF UseOf, UseNo
<1>4. rows \in Seq(Row) /\ Fits(t, rows, uses[t], Len(uses[t]), n)
  BY <1>1, <1>3, ResultFits
<1> HIDE DEF n, use, rows
<1>5. HistoryTypeOK'
  BY <1>2, <1>4 DEF SendResult, graph, HistoryTypeOK
<1>6. KeptFits'
  BY <1>1, <1>2, <1>4 DEF SendResult, graph, KeptFits, HistoryTypeOK
<1>7. \A q \in HistoryTurns : went[q] = "stored" => ran'[q] = ran[q]
  BY <1>2 DEF SendResult, HistoryTypeOK
<1>8. WordsAreSaid' /\ LogIsStored' /\ StoredTurnsAreTrue'
  BY <1>7 DEF SendResult, WordsAreSaid, Said, LogIsStored, StoredTurnsAreTrue
<1> QED
  BY <1>5, <1>6, <1>8

LEMMA TurnAnswersStep ==
    ASSUME HistoryInv, NEW t \in HistoryTurns, TurnAnswers(t)
    PROVE  HistoryInv'
<1> USE DEF HistoryInv
<1>1. PICK text \in {t, ExtractResponse(t)} : reply' = [reply EXCEPT ![t] = text]
  BY DEF TurnAnswers
<1>2. text \in Text /\ (text \in {t, Apology} \/ Said(text))
  <2> DEFINE texts == {i \in DOMAIN heard[t] : /\ heard[t][i].role = "assistant"
                                               /\ heard[t][i].text # "none"}
             last == CHOOSE i \in texts : \A j \in texts : j <= i
  <2>1. ExtractResponse(t) =
          IF spoke[t] THEN t ELSE IF texts # {} THEN heard[t][last].text ELSE Apology
    BY DEF ExtractResponse
  <2>2. heard[t] \in Seq(Row) /\ Len(heard[t]) \in Nat /\ texts \in SUBSET (1 .. Len(heard[t]))
    BY DEF HistoryTypeOK
  <2>3. ASSUME texts # {} PROVE heard[t][last].text \in Text /\ Said(heard[t][last].text)
    <3>1. last \in texts
      <4> HIDE DEF texts
      <4>1. \E i \in texts : \A j \in texts : j <= i
        BY <2>2, <2>3, FirstAndLast
      <4> QED
        BY <4>1
    <3>2. PICK j \in DOMAIN log : log[j] = heard[t][last]
      BY <3>1 DEF WordsAreSaid
    <3>3. log[j] \in Row
      BY DEF HistoryTypeOK
    <3> QED
      BY <3>1, <3>2, <3>3 DEF Row, Said
  <2> QED
    BY <1>1, <2>1, <2>3 DEF Text
<1>3. HistoryTypeOK'
  BY <1>1, <1>2 DEF TurnAnswers, graph, emitted, HistoryTypeOK, TurnStep
<1>4. KeptFits'
  BY DEF TurnAnswers, graph, emitted, KeptFits, HistoryTypeOK
<1>5. WordsAreSaid'
  <2>1. /\ log' = log /\ heard' = heard /\ reply'[t] = text
        /\ \A q \in HistoryTurns \ {t} : reply'[q] = reply[q]
    BY <1>1 DEF TurnAnswers, HistoryTypeOK
  <2>2. ASSUME NEW q \in HistoryTurns
        PROVE  reply'[q] \in {"none", q, Apology} \/ Said(reply'[q])
    <3>1. CASE q = t
      BY <1>2, <2>1, <3>1
    <3>2. CASE q # t
      BY <2>1, <3>2 DEF WordsAreSaid
    <3> QED
      BY <3>1, <3>2
  <2>3. \A x : Said(x)' <=> Said(x)
    BY <2>1 DEF Said
  <2> QED
    BY <2>1, <2>2, <2>3 DEF WordsAreSaid, Said
<1>6. LogIsStored' /\ StoredTurnsAreTrue'
  BY LogStays DEF TurnAnswers, emitted, TurnStep
<1> QED
  BY <1>3, <1>4, <1>5, <1>6

LEMMA TurnBreaksStep ==
    ASSUME HistoryInv, NEW t \in HistoryTurns, TurnBreaks(t)
    PROVE  HistoryInv'
<1> USE DEF HistoryInv
<1>1. HistoryTypeOK'
  BY DEF TurnBreaks, graph, emitted, HistoryTypeOK, TurnStep
<1>2. KeptFits'
  BY DEF TurnBreaks, graph, emitted, KeptFits, HistoryTypeOK
<1>3. WordsAreSaid'
  BY DEF TurnBreaks, graph, emitted, WordsAreSaid, HistoryTypeOK, Said
<1>4. LogIsStored' /\ StoredTurnsAreTrue'
  BY LogStays DEF TurnBreaks, emitted, TurnStep
<1> QED
  BY <1>1, <1>2, <1>3, <1>4

(* The end of a stream, stored or not.                                     *)
LEMMA EndStreamIsTyped ==
    ASSUME HistoryTypeOK, NEW t \in HistoryTurns, EndStream(t)
    PROVE  /\ heard' \in [HistoryTurns -> Seq(Row)] /\ spoke' \in [HistoryTurns -> BOOLEAN]
           /\ uses' \in [HistoryTurns -> Seq(HistoryTools)]
           /\ told' \in [HistoryTurns -> 0 .. MaxUses] /\ ran' \in [HistoryTurns -> 0 .. MaxUses]
           /\ kept' \in [HistoryTurns -> Seq(Row)]
           /\ reply' \in [HistoryTurns -> Text \cup {"none"}]
           /\ \A q \in HistoryTurns : Len(heard'[q]) <= HistoryLimit /\ Len(uses'[q]) <= MaxUses
           /\ heard'[t] = <<>> /\ reply'[t] = "none"
           /\ \A q \in HistoryTurns \ {t} :
                /\ heard'[q] = heard[q] /\ uses'[q] = uses[q] /\ told'[q] = told[q]
                /\ ran'[q] = ran[q] /\ kept'[q] = kept[q] /\ reply'[q] = reply[q]
  BY DEF EndStream, HistoryTypeOK

LEMMA TurnVanishesStep ==
    ASSUME HistoryInv, NEW t \in HistoryTurns, TurnVanishes(t)
    PROVE  HistoryInv'
<1> USE DEF HistoryInv
<1>0. EndStream(t) /\ log' = log /\ went' = [went EXCEPT ![t] = "gone"]
      /\ went[t] \in {"running", "over"}
  BY DEF TurnVanishes
<1>1. HistoryTypeOK'
  BY <1>0, EndStreamIsTyped DEF HistoryTypeOK, TurnStep
<1>2. \A q \in HistoryTurns \ {t} : went'[q] = went[q]
  BY <1>0 DEF HistoryTypeOK
<1>3. went'[t] = "gone"
  BY <1>0 DEF HistoryTypeOK
<1>4. KeptFits'
  BY <1>0, <1>2, <1>3, EndStreamIsTyped DEF KeptFits
<1>5. WordsAreSaid'
  <2>1. \A text : Said(text)' <=> Said(text)
    BY <1>0 DEF Said
  <2>2. ASSUME NEW q \in HistoryTurns
        PROVE  /\ \A i \in DOMAIN heard'[q] : \E j \in DOMAIN log : log[j] = heard'[q][i]
               /\ reply'[q] \in {"none", q, Apology} \/ Said(reply'[q])
    <3>0. /\ heard'[t] = <<>> /\ reply'[t] = "none"
          /\ \A p \in HistoryTurns \ {t} : heard'[p] = heard[p] /\ reply'[p] = reply[p]
      BY <1>0, EndStreamIsTyped
    <3>1. CASE q = t
      <4>1. DOMAIN heard'[q] = {} /\ reply'[q] = "none"
        BY <3>0, <3>1
      <4> QED
        BY <4>1
    <3>2. CASE q # t
      BY <3>0, <3>2 DEF WordsAreSaid
    <3> QED
      BY <3>1, <3>2
  <2> QED
    BY <1>0, <2>1, <2>2 DEF WordsAreSaid, Said
<1>6. LogIsStored' /\ StoredTurnsAreTrue'
  BY <1>0, LogStays DEF EndStream, TurnStep
<1> QED
  BY <1>1, <1>4, <1>5, <1>6
IsJoin(s, s1, s2) ==
    /\ s \in Seq(Row) /\ Len(s) = Len(s1) + Len(s2)
    /\ \A i \in 1 .. Len(s1) : s[i] = s1[i]
    /\ \A m \in 1 .. Len(s2) : s[Len(s1) + m] = s2[m]

LEMMA JoinedRows ==
    ASSUME NEW s1 \in Seq(Row), NEW s2 \in Seq(Row)
    PROVE  IsJoin(s1 \o s2, s1, s2)
<1>1. PICK b \in Nat, c \in Nat : b = Len(s1) /\ c = Len(s2)
  OBVIOUS
<1>2. /\ s1 \o s2 \in Seq(Row) /\ Len(s1 \o s2) = b + c
      /\ \A i \in 1 .. b + c : (s1 \o s2)[i] = IF i <= b THEN s1[i] ELSE s2[i - b]
  BY <1>1, ConcatProperties
<1>3. \A i \in 1 .. b : i \in 1 .. b + c /\ i <= b
  OBVIOUS
<1>4. \A m \in 1 .. c : b + m \in 1 .. b + c /\ ~(b + m <= b) /\ b + m - b = m
  OBVIOUS
<1> QED
  BY <1>1, <1>2, <1>3, <1>4 DEF IsJoin

(* The thread with a turn's rows behind it.                                *)
IsStored(after, before, t, rows, text) ==
    /\ after \in Seq(Row)
    /\ Len(before) + 1 + Len(rows) <= Len(after)
    /\ \A i \in DOMAIN before : i \in DOMAIN after /\ after[i] = before[i]
    /\ after[Len(before) + 1] = UserRow(t)
    /\ \A m \in DOMAIN rows : /\ Len(before) + 1 + m \in DOMAIN after
                              /\ after[Len(before) + 1 + m] = rows[m]
    /\ \A j \in DOMAIN after :
         \/ j \in DOMAIN before
         \/ j = Len(before) + 1
         \/ \E m \in DOMAIN rows : j = Len(before) + 1 + m
         \/ after[j] = TextRow(t, text) /\ text # "none"

LEMMA StoredRows ==
    ASSUME NEW t \in HistoryTurns, NEW before \in Seq(Row), NEW rows \in Seq(Row),
           NEW text \in Text \cup {"none"}
    PROVE  IsStored(before \o <<UserRow(t)>> \o rows
                        \o (IF text = "none" THEN <<>> ELSE <<TextRow(t, text)>>),
                    before, t, rows, text)
<1> DEFINE tail == IF text = "none" THEN <<>> ELSE <<TextRow(t, text)>>
           asked == before \o <<UserRow(t)>>
           between == asked \o rows
           after == between \o tail
<1>0. /\ Len(before) \in Nat /\ DOMAIN before = 1 .. Len(before)
      /\ Len(rows) \in Nat /\ DOMAIN rows = 1 .. Len(rows)
  OBVIOUS
<1>1. UserRow(t) \in Row /\ (text # "none" => TextRow(t, text) \in Row)
  BY RowsAreTyped
<1>2. PICK b \in Nat, n \in Nat, e \in {0, 1} :
        b = Len(before) /\ n = Len(rows) /\ e = IF text = "none" THEN 0 ELSE 1
  BY <1>0
<1>3. /\ asked \in Seq(Row) /\ Len(asked) = b + 1
      /\ \A i \in 1 .. b : asked[i] = before[i]
      /\ asked[b + 1] = UserRow(t)
  BY <1>1, <1>2
<1> HIDE DEF asked
<1>4. /\ between \in Seq(Row) /\ Len(between) = b + 1 + n
      /\ \A i \in 1 .. b + 1 : between[i] = asked[i]
      /\ \A m \in 1 .. n : between[b + 1 + m] = rows[m]
  <2>1. IsJoin(between, asked, rows)
    BY <1>3, JoinedRows
  <2> HIDE DEF between
  <2> QED
    BY <1>2, <1>3, <2>1 DEF IsJoin
<1> HIDE DEF between
<1>5. /\ tail \in Seq(Row) /\ Len(tail) = e
      /\ e = 1 => tail[1] = TextRow(t, text) /\ text # "none"
  BY <1>1, <1>2
<1> HIDE DEF tail
<1>6. /\ after \in Seq(Row) /\ Len(after) = b + 1 + n + e
      /\ \A i \in 1 .. b + 1 + n : after[i] = between[i]
      /\ e = 1 => after[b + 1 + n + 1] = tail[1]
  <2>1. IsJoin(after, between, tail)
    BY <1>4, <1>5, JoinedRows
  <2> HIDE DEF after
  <2>2. /\ after \in Seq(Row) /\ Len(after) = b + 1 + n + e
        /\ \A i \in 1 .. b + 1 + n : after[i] = between[i]
        /\ \A m \in 1 .. e : after[b + 1 + n + m] = tail[m]
    BY <1>4, <1>5, <2>1 DEF IsJoin
  <2> QED
    BY <2>2
<1> HIDE DEF after
<1>7. DOMAIN after = 1 .. b + 1 + n + e
  BY <1>6
<1>8. \A i \in 1 .. b + 1 + n : i \in 1 .. b + 1 + n + e /\ after[i] = between[i]
  BY <1>6
<1>9. /\ \A i \in 1 .. b : i \in 1 .. b + 1 + n /\ i \in 1 .. b + 1
      /\ b + 1 \in 1 .. b + 1 + n /\ b + 1 \in 1 .. b + 1
      /\ \A m \in 1 .. n : b + 1 + m \in 1 .. b + 1 + n
  OBVIOUS
<1>10. \A i \in DOMAIN before : i \in DOMAIN after /\ after[i] = before[i]
  BY <1>0, <1>2, <1>3, <1>4, <1>7, <1>8, <1>9
<1>11. after[Len(before) + 1] = UserRow(t)
  BY <1>2, <1>3, <1>4, <1>8, <1>9
<1>12. \A m \in DOMAIN rows : /\ Len(before) + 1 + m \in DOMAIN after
                              /\ after[Len(before) + 1 + m] = rows[m]
  BY <1>0, <1>2, <1>4, <1>7, <1>8, <1>9
<1>13. ASSUME NEW j \in DOMAIN after
       PROVE  \/ j \in DOMAIN before
              \/ j = Len(before) + 1
              \/ \E m \in DOMAIN rows : j = Len(before) + 1 + m
              \/ after[j] = TextRow(t, text) /\ text # "none"
  <2>1. j \in Int /\ 1 <= j /\ j <= b + 1 + n + e
    BY <1>7
  <2>2. CASE j > b + 1 + n
    <3>1. e = 1 /\ j = b + 1 + n + 1
      BY <2>1, <2>2
    <3>2. after[j] = tail[1]
      BY <1>6, <3>1
    <3> QED
      BY <1>5, <3>1, <3>2
  <2>3. CASE j > b + 1 /\ j <= b + 1 + n
    <3> DEFINE m == j - (b + 1)
    <3>1. m \in 1 .. n /\ j = b + 1 + m
      BY <2>1, <2>3
    <3> QED
      BY <1>0, <1>2, <3>1
  <2>4. CASE j <= b + 1
    <3>1. j \in 1 .. b \/ j = b + 1
      BY <2>1, <2>4
    <3> QED
      BY <1>0, <1>2, <3>1
  <2> QED
    BY <2>1, <2>2, <2>3, <2>4
<1>14. Len(before) + 1 + Len(rows) <= Len(after)
  BY <1>2, <1>6
<1>15. IsStored(after, before, t, rows, text)
  BY <1>6, <1>10, <1>11, <1>12, <1>13, <1>14 DEF IsStored
<1> QED
  BY <1>15 DEF after, between, asked, tail

LEMMA PersistMessagesStep ==
    ASSUME HistoryInv, NEW t \in HistoryTurns, PersistMessages(t)
    PROVE  HistoryInv'
<1> USE DEF HistoryInv
<1> DEFINE l == Len(log)
<1>0. EndStream(t) /\ went' = [went EXCEPT ![t] = "stored"] /\ went[t] = "over"
  BY DEF PersistMessages
<1>1. /\ log \in Seq(Row) /\ kept[t] \in Seq(Row) /\ reply[t] \in Text \cup {"none"}
      /\ l \in Nat /\ DOMAIN log = 1 .. l /\ Len(kept[t]) \in Nat
      /\ DOMAIN kept[t] = 1 .. Len(kept[t]) /\ ran[t] \in Nat
      /\ Fits(t, kept[t], uses[t], told[t], ran[t])
  BY <1>0 DEF HistoryTypeOK, KeptFits
<1>2. /\ log' \in Seq(Row) /\ Len(log') \in Nat /\ DOMAIN log' = 1 .. Len(log')
      /\ l + 1 + Len(kept[t]) <= Len(log')
      /\ \A i \in DOMAIN log : i \in DOMAIN log' /\ log'[i] = log[i]
      /\ log'[l + 1] = UserRow(t)
      /\ \A m \in DOMAIN kept[t] : /\ l + 1 + m \in DOMAIN log'
                                   /\ log'[l + 1 + m] = kept[t][m]
      /\ \A j \in DOMAIN log' :
           \/ j \in DOMAIN log
           \/ j = l + 1
           \/ \E m \in DOMAIN kept[t] : j = l + 1 + m
           \/ log'[j] = TextRow(t, reply[t]) /\ reply[t] # "none"
  <2>1. log' = log \o <<UserRow(t)>> \o kept[t]
                   \o (IF reply[t] = "none" THEN <<>> ELSE <<TextRow(t, reply[t])>>)
    BY DEF PersistMessages
  <2> QED
    <3>1. IsStored(log', log, t, kept[t], reply[t])
      BY <1>1, <2>1, StoredRows
    <3>2. Len(log') \in Nat /\ DOMAIN log' = 1 .. Len(log')
      BY <3>1 DEF IsStored
    <3> QED
      BY <3>1, <3>2, Zenon DEF IsStored
<1> HIDE DEF l
<1>3. /\ went'[t] = "stored" /\ went[t] = "over"
      /\ \A q \in HistoryTurns \ {t} : went'[q] = went[q]
  BY <1>0 DEF HistoryTypeOK
<1>4. /\ ran' = ran
      /\ \A q \in HistoryTurns \ {t} :
           /\ heard'[q] = heard[q] /\ uses'[q] = uses[q] /\ told'[q] = told[q]
           /\ kept'[q] = kept[q] /\ reply'[q] = reply[q]
      /\ heard'[t] = <<>> /\ reply'[t] = "none"
  BY <1>0, EndStreamIsTyped DEF EndStream
<1>5. HistoryTypeOK'
  BY <1>0, <1>2, EndStreamIsTyped DEF HistoryTypeOK, TurnStep
<1>6. KeptFits'
  BY <1>3, <1>4 DEF KeptFits
<1>7. \A i \in DOMAIN log : log[i] \in Row /\ log[i].of \in HistoryTurns \ {t}
  <2> SUFFICES ASSUME NEW i \in DOMAIN log PROVE log[i] \in Row /\ log[i].of \in HistoryTurns \ {t}
    OBVIOUS
  <2>1. log[i] \in Row
    BY <1>1
  <2> QED
    BY <1>3, <2>1 DEF LogIsStored, Row
(* The new rows are the turn's.                                            *)
<1>8. /\ UserRow(t).of = t /\ UserRow(t).role = "user" /\ UserRow(t).answers = NoUse
      /\ UserRow(t).result = NoUse
      /\ TextRow(t, reply[t]).of = t /\ TextRow(t, reply[t]).role = "assistant"
      /\ TextRow(t, reply[t]).answers = NoUse /\ TextRow(t, reply[t]).text = reply[t]
      /\ \A m \in DOMAIN kept[t] : /\ kept[t][m].of = t /\ kept[t][m].text = "none"
                                   /\ kept[t][m].role \in {"assistant", "tool"}
      /\ NoUse.number = 0
  BY <1>1 DEF UserRow, TextRow, RowOf, NoUse, Fits, Shaped
<1>9. \A j \in DOMAIN log' : j \notin DOMAIN log => j > l /\ log'[j].of = t
  BY <1>1, <1>2, <1>8
<1>10. LogIsStored'
  BY <1>2, <1>3, <1>7, <1>9 DEF LogIsStored
<1>11. \A text : Said(text) => Said(text)'
  BY <1>2 DEF Said
<1>12. WordsAreSaid'
  <2>1. ASSUME NEW q \in HistoryTurns
        PROVE  /\ \A i \in DOMAIN heard'[q] : \E j \in DOMAIN log' : log'[j] = heard'[q][i]
               /\ reply'[q] \in {"none", q, Apology}
                  \/ \E i \in DOMAIN log' : log'[i].role = "assistant" /\ log'[i].text = reply'[q]
    <3>1. CASE q = t
      <4>1. DOMAIN heard'[q] = {} /\ reply'[q] = "none"
        BY <1>4, <3>1
      <4> QED
        BY <4>1
    <3>2. CASE q # t
      <4>1. heard'[q] = heard[q] /\ reply'[q] = reply[q]
        BY <1>4, <3>2
      <4>2. \A i \in DOMAIN heard[q] : \E j \in DOMAIN log' : log'[j] = heard[q][i]
        BY <1>2 DEF WordsAreSaid
      <4>3. reply[q] \in {"none", q, Apology}
            \/ \E i \in DOMAIN log' : log'[i].role = "assistant" /\ log'[i].text = reply[q]
        BY <1>2 DEF WordsAreSaid, Said
      <4> QED
        BY <4>1, <4>2, <4>3
    <3> QED
      BY <3>1, <3>2
  <2> QED
    BY <2>1 DEF WordsAreSaid, Said
<1>13. ASSUME NEW q \in HistoryTurns, went'[q] = "stored", NEW n \in 1 .. ran'[q]
       PROVE  \E i \in DOMAIN log' : log'[i].of = q /\ log'[i].result.number = n
  <2>1. CASE q = t
    <3>1. PICK m \in DOMAIN kept[t] : kept[t][m].result.number = n
      BY <1>1, <1>4, <1>13, <2>1 DEF Fits, OnRecord
    <3> QED
      BY <1>2, <1>8, <2>1, <3>1
  <2>2. CASE q # t
    <3>1. PICK i \in DOMAIN log : log[i].of = q /\ log[i].result.number = n
      BY <1>3, <1>4, <1>13, <2>2 DEF StoredTurnsAreTrue
    <3> QED
      BY <1>2, <3>1
  <2> QED
    BY <2>1, <2>2
<1>14. ASSUME NEW i \in DOMAIN log', NEW j \in DOMAIN log', i < j, log'[i].of = log'[j].of,
              log'[j].role = "tool"
       PROVE  log'[i].result.number <= log'[j].result.number
  <2>1. i \in Nat /\ j \in Nat
    BY <1>2
  <2>2. CASE j \in DOMAIN log
    <3>1. i \in DOMAIN log
      BY <1>1, <1>2, <1>14, <2>1, <2>2
    <3> QED
      BY <1>2, <1>14, <2>2, <3>1 DEF StoredTurnsAreTrue
  <2>3. CASE j \notin DOMAIN log
    <3>1. PICK m \in DOMAIN kept[t] : j = l + 1 + m /\ log'[j] = kept[t][m]
      BY <1>2, <1>8, <1>14, <2>3
    <3>2. i \notin DOMAIN log
      BY <1>2, <1>7, <1>8, <1>14, <3>1
    <3>3. kept[t][m].result.number \in 1 .. ran[t]
      BY <1>1, <1>14, <3>1 DEF Fits, Shaped
    <3>4. CASE i = l + 1
      BY <1>1, <1>2, <1>8, <3>1, <3>3, <3>4
    <3>5. CASE \E k \in DOMAIN kept[t] : i = l + 1 + k
      <4>1. PICK k \in DOMAIN kept[t] : i = l + 1 + k
        BY <3>5
      <4>2. k < m /\ log'[i] = kept[t][k]
        BY <1>1, <1>2, <1>14, <3>1, <4>1
      <4> QED
        BY <1>1, <1>14, <3>1, <4>2 DEF Fits, OnRecord
    <3>6. CASE i # l + 1 /\ \A k \in DOMAIN kept[t] : i # l + 1 + k
      <4> DEFINE k == i - (l + 1)
      <4>1. i # l + 1
        BY <3>6
      <4>2. k \in 1 .. Len(kept[t]) /\ i = l + 1 + k
        BY <1>1, <1>9, <1>14, <2>1, <3>1, <3>2, <4>1
      <4> QED
        BY <1>1, <3>6, <4>2
    <3> QED
      BY <3>4, <3>5, <3>6
  <2> QED
    BY <2>2, <2>3
<1>15. ASSUME NEW j \in DOMAIN log', log'[j].answers # NoUse
       PROVE  /\ log'[j].answers = log'[j].result
              /\ \A i \in 1 .. j - 1 :
                   log'[i].of = log'[j].of => log'[i].answers # log'[j].answers
              /\ \E i \in 1 .. j - 1 :
                    /\ log'[i].of = log'[j].of
                    /\ \E k \in DOMAIN log'[i].calls : log'[i].calls[k] = log'[j].answers
  <2>0. j \in 1 .. Len(log') /\ Len(log') \in Nat
    BY <1>2
  <2>1. CASE j \in DOMAIN log
    <3>1. \A i \in 1 .. j - 1 : i \in DOMAIN log
      BY <1>1, <2>0, <2>1
    <3> QED
      BY <1>2, <1>15, <2>1, <3>1 DEF StoredTurnsAreTrue
  <2>2. CASE j \notin DOMAIN log
    <3>1. PICK m \in DOMAIN kept[t] : j = l + 1 + m /\ log'[j] = kept[t][m]
      BY <1>2, <1>8, <1>15, <2>2
    <3>2. /\ kept[t][m].answers = kept[t][m].result
          /\ \A k \in 1 .. m - 1 : kept[t][k].answers # kept[t][m].answers
          /\ \E k \in 1 .. m - 1 : MakesCall(kept[t][k], kept[t][m].answers)
      BY <1>1, <1>15, <3>1 DEF Fits, AnswersFit
    <3>3. \A k \in 1 .. m - 1 : /\ k \in DOMAIN kept[t] /\ l + 1 + k \in 1 .. j - 1
                                /\ log'[l + 1 + k] = kept[t][k]
      <4>1. \A k \in 1 .. m - 1 : k \in 1 .. Len(kept[t]) /\ l + 1 + k \in 1 .. j - 1
        BY <1>1, <3>1
      <4> QED
        BY <1>1, <1>2, <4>1
    <3>4. ASSUME NEW i \in 1 .. j - 1, log'[i].of = t
          PROVE  log'[i].answers # log'[j].answers
      <4>1. i \in DOMAIN log' /\ i \notin DOMAIN log
        BY <1>2, <1>7, <2>0, <3>4
      <4>2. CASE i = l + 1
        BY <1>2, <1>8, <1>15, <4>2
      <4>3. CASE i # l + 1
        <5> DEFINE k == i - (l + 1)
        <5>1. k \in 1 .. m - 1 /\ i = l + 1 + k
          BY <1>1, <3>1, <4>1, <4>3
        <5> QED
          BY <3>1, <3>2, <3>3, <5>1
      <4> QED
        BY <4>2, <4>3
    <3>5. PICK k \in 1 .. m - 1 : MakesCall(kept[t][k], kept[t][m].answers)
      BY <3>2
    <3>6. /\ l + 1 + k \in 1 .. j - 1
          /\ log'[l + 1 + k].of = t
          /\ \E n \in DOMAIN log'[l + 1 + k].calls : log'[l + 1 + k].calls[n] = log'[j].answers
      BY <1>8, <3>1, <3>3, <3>5 DEF MakesCall
    <3>7. log'[j].of = t
      BY <1>8, <3>1
    <3> QED
      BY <3>1, <3>2, <3>4, <3>6, <3>7
  <2> QED
    BY <2>1, <2>2
<1>16. ASSUME NEW j \in DOMAIN log', log'[j].role = "assistant",
              log'[j].text \notin {"none", log'[j].of, Apology}
       PROVE  \E i \in 1 .. j - 1 : log'[i].role = "assistant" /\ log'[i].text = log'[j].text
  <2>1. CASE j \in DOMAIN log
    <3>1. PICK i \in 1 .. j - 1 : log[i].role = "assistant" /\ log[i].text = log[j].text
      BY <1>2, <1>16, <2>1 DEF StoredTurnsAreTrue
    <3>2. i \in DOMAIN log
      BY <1>1, <2>1
    <3> QED
      BY <1>2, <2>1, <3>1, <3>2
  <2>2. CASE j \notin DOMAIN log
    <3>1. log'[j] = TextRow(t, reply[t]) /\ reply[t] # "none"
      BY <1>2, <1>8, <1>16, <2>2
    <3>2. PICK i \in DOMAIN log : log[i].role = "assistant" /\ log[i].text = reply[t]
      BY <1>8, <1>16, <3>1 DEF WordsAreSaid, Said
    <3>3. i \in 1 .. j - 1
      BY <1>1, <1>2, <2>2, <1>9
    <3> QED
      BY <1>2, <1>8, <3>1, <3>2, <3>3
  <2> QED
    BY <2>1, <2>2
<1>17. StoredTurnsAreTrue'
  BY <1>13, <1>14, <1>15, <1>16 DEF StoredTurnsAreTrue
<1> QED
  BY <1>5, <1>6, <1>10, <1>12, <1>17

-----------------------------------------------------------------------------
(* Whatever turns a thread gets at once, whichever tools each uses how     *)
(* often, and wherever its stream breaks: what a turn stores is true.      *)
LEMMA HistoryInvariant == HistorySpec => []HistoryInv
<1>1. HistoryInv /\ [HistoryNext]_historyVars => HistoryInv'
  <2> SUFFICES ASSUME HistoryInv, [HistoryNext]_historyVars PROVE HistoryInv'
    OBVIOUS
  <2>1. CASE UNCHANGED historyVars
    BY <2>1 DEF historyVars, HistoryInv, HistoryTypeOK, KeptFits, LogIsStored, WordsAreSaid,
                Said, StoredTurnsAreTrue
  <2>2. CASE HistoryNext
    <3>1. PICK t \in HistoryTurns :
            \/ BeginTurn(t) \/ AgentCalls(t) \/ SendToolCalled(t) \/ SendResult(t)
            \/ TurnAnswers(t) \/ TurnBreaks(t) \/ PersistMessages(t) \/ TurnVanishes(t)
      BY <2>2 DEF HistoryNext
    <3> QED
      BY <3>1, BeginTurnStep, AgentCallsStep, SendToolCalledStep, SendResultStep,
         TurnAnswersStep, TurnBreaksStep, PersistMessagesStep, TurnVanishesStep
  <2> QED
    BY <2>1, <2>2
<1> QED
  BY <1>1, InitHistory, PTL DEF HistorySpec

(* The thread's rows, and what each turn holds of them, keep their types.  *)
THEOREM HistoryIsTyped == HistorySpec => []HistoryTypeOK
<1>1. HistoryInv => HistoryTypeOK
  BY DEF HistoryInv
<1> QED
  BY <1>1, HistoryInvariant, PTL

(* What a turn stores is true of what it did.                              *)
THEOREM TurnsTellTheTruth == HistorySpec => []StoredTurnsAreTrue
<1>1. HistoryInv => StoredTurnsAreTrue
  BY DEF HistoryInv
<1> QED
  BY <1>1, HistoryInvariant, PTL

-----------------------------------------------------------------------------
(* The first result of a tool in a turn. *)
FirstOfTool(rows, j) ==
    /\ rows[j].role = "tool"
    /\ \A i \in 1 .. j - 1 : rows[i].of = rows[j].of /\ rows[i].role = "tool" =>
         rows[i].result.tool # rows[j].result.tool

CallsAnswered ==
    \A i \in DOMAIN log : \A k \in DOMAIN log[i].calls :
        log[i].calls[k].number <= ran[log[i].of] =>
        \E j \in DOMAIN log : log[j].of = log[i].of /\ log[j].answers = log[i].calls[k]

FirstResultsPairUp ==
    \A j \in DOMAIN log : FirstOfTool(log, j) =>
        \E i \in DOMAIN log : log[i].of = log[j].of /\ log[i].answers = log[j].result

(* The first result of a tool is of a use that is called, and so answered. *)
LEMMA FirstResultAnswers ==
    ASSUME NEW t \in HistoryTurns, NEW rows \in Seq(Row), NEW used \in Seq(HistoryTools),
           NEW c \in Nat, NEW r \in Nat, Fits(t, rows, used, c, r),
           NEW j \in DOMAIN rows, FirstOfTool(rows, j)
    PROVE  \E i \in DOMAIN rows : rows[i].answers = rows[j].result
<1> DEFINE n == rows[j].result.number
<1>0. Len(rows) \in Nat /\ DOMAIN rows = 1 .. Len(rows) /\ rows[j].role = "tool"
  BY DEF FirstOfTool
<1>1. n \in 1 .. r /\ rows[j].result = UseNo(used, n) /\ rows[j].of = t
  BY <1>0 DEF Fits, Shaped
<1>2. rows[j].result.tool = used[n] /\ c \in Nat /\ n \in 1 .. c
  BY <1>1 DEF UseNo, Fits
<1>3. ASSUME NEW m \in 1 .. n - 1 PROVE used[m] # used[n]
  <2>1. PICK i \in DOMAIN rows : rows[i].result.number = m
    BY <1>1, <1>3 DEF Fits, OnRecord
  <2>2. i # j /\ ~(j < i /\ rows[i].role = "tool")
    BY <1>0, <1>1, <1>3, <2>1 DEF Fits, OnRecord
  <2>3. /\ rows[i].of = t /\ rows[i].role = "tool" /\ rows[i].result = UseNo(used, m)
    BY <1>1, <1>3, <2>1 DEF Fits, Shaped, NoUse
  <2>4. i \in 1 .. j - 1
    BY <1>0, <2>2, <2>3
  <2>5. rows[i].result.tool = used[m]
    BY <2>3 DEF UseNo
  <2> QED
    BY <1>1, <1>2, <2>3, <2>4, <2>5 DEF FirstOfTool
<1>4. FirstUse(used, n)
  BY <1>3 DEF FirstUse
<1> HIDE DEF n
<1>5. PICK i \in DOMAIN rows : MakesCall(rows[i], UseNo(used, n))
  BY <1>2, <1>4 DEF Fits, CallsFit
<1>6. PICK k \in DOMAIN rows[i].calls : rows[i].calls[k] = UseNo(used, n)
  BY <1>5 DEF MakesCall
<1>7. rows[i].calls[k].number = n /\ n <= r
  BY <1>1, <1>6 DEF UseNo
<1> QED
  BY <1>1, <1>6, <1>7 DEF Fits, CallsFit

(* A step that stores nothing changes the results of unstored turns only.  *)
LEMMA PairsStay ==
    ASSUME HistoryInv, CallsAnswered, FirstResultsPairUp, log' = log,
           NEW t \in HistoryTurns, went[t] # "stored",
           \A q \in HistoryTurns \ {t} : ran'[q] = ran[q]
    PROVE  CallsAnswered' /\ FirstResultsPairUp'
<1>1. ASSUME NEW i \in DOMAIN log PROVE ran'[log[i].of] = ran[log[i].of]
  <2>1. log[i] \in Row
    BY DEF HistoryInv, HistoryTypeOK
  <2> QED
    BY <2>1 DEF Row, HistoryInv, LogIsStored
<1>2. CallsAnswered'
  BY <1>1 DEF CallsAnswered
<1>3. FirstResultsPairUp'
  BY DEF FirstResultsPairUp, FirstOfTool
<1> QED
  BY <1>2, <1>3

(* A turn that is stored answers its own calls.                            *)
LEMMA StoringPairs ==
    ASSUME HistoryInv, CallsAnswered, FirstResultsPairUp, NEW t \in HistoryTurns, PersistMessages(t)
    PROVE  CallsAnswered' /\ FirstResultsPairUp'
<1> USE DEF HistoryInv
<1> DEFINE l == Len(log)
<1>1. /\ log \in Seq(Row) /\ kept[t] \in Seq(Row) /\ reply[t] \in Text \cup {"none"}
      /\ l \in Nat /\ DOMAIN log = 1 .. l /\ Len(kept[t]) \in Nat
      /\ DOMAIN kept[t] = 1 .. Len(kept[t]) /\ ran[t] \in Nat /\ ran' = ran
      /\ uses[t] \in Seq(HistoryTools) /\ told[t] \in Nat
      /\ Fits(t, kept[t], uses[t], told[t], ran[t]) /\ went[t] = "over"
  BY DEF HistoryTypeOK, KeptFits, PersistMessages, EndStream
<1>2. IsStored(log', log, t, kept[t], reply[t])
  BY <1>1, StoredRows DEF PersistMessages
<1>3. /\ Len(log') \in Nat /\ DOMAIN log' = 1 .. Len(log')
      /\ \A i \in DOMAIN log : i \in DOMAIN log' /\ log'[i] = log[i]
      /\ \A m \in DOMAIN kept[t] : l + 1 + m \in DOMAIN log' /\ log'[l + 1 + m] = kept[t][m]
      /\ \A j \in DOMAIN log' :
           \/ j \in DOMAIN log
           \/ log'[j] = UserRow(t)
           \/ \E m \in DOMAIN kept[t] : j = l + 1 + m
           \/ log'[j] = TextRow(t, reply[t])
  <2>1. Len(log') \in Nat /\ DOMAIN log' = 1 .. Len(log')
    BY <1>2 DEF IsStored
  <2> QED
    BY <1>2, <2>1, Zenon DEF IsStored
<1> HIDE DEF l
<1>4. \A i \in DOMAIN log : log[i].of # t
  <2> SUFFICES ASSUME NEW i \in DOMAIN log PROVE log[i].of # t
    OBVIOUS
  <2>1. log[i] \in Row
    BY <1>1
  <2> QED
    BY <1>1, <2>1 DEF LogIsStored, Row
<1>5. /\ UserRow(t).role = "user" /\ UserRow(t).calls = <<>>
      /\ TextRow(t, reply[t]).role = "assistant" /\ TextRow(t, reply[t]).calls = <<>>
      /\ \A m \in DOMAIN kept[t] : kept[t][m].of = t
  BY <1>1 DEF UserRow, TextRow, RowOf, Fits, Shaped
<1>6. ASSUME NEW i \in DOMAIN log', NEW k \in DOMAIN log'[i].calls,
             log'[i].calls[k].number <= ran[log'[i].of]
      PROVE  \E j \in DOMAIN log' : log'[j].of = log'[i].of /\ log'[j].answers = log'[i].calls[k]
  <2>1. CASE i \in DOMAIN log
    <3>1. log'[i] = log[i]
      BY <1>3, <2>1
    <3>2. PICK j \in DOMAIN log : log[j].of = log[i].of /\ log[j].answers = log[i].calls[k]
      BY <1>6, <2>1, <3>1 DEF CallsAnswered
    <3> QED
      BY <1>3, <3>1, <3>2
  <2>2. CASE i \notin DOMAIN log
    <3>1. PICK m \in DOMAIN kept[t] : i = l + 1 + m
      BY <1>3, <1>5, <1>6, <2>2
    <3>2. log'[i] = kept[t][m] /\ kept[t][m].of = t
      BY <1>3, <1>5, <3>1
    <3>3. PICK n \in DOMAIN kept[t] : kept[t][n].answers = kept[t][m].calls[k]
      BY <1>1, <1>6, <3>2 DEF Fits, CallsFit
    <3> QED
      BY <1>3, <1>5, <3>2, <3>3
  <2> QED
    BY <2>1, <2>2
<1>7. CallsAnswered'
  BY <1>1, <1>6 DEF CallsAnswered
<1>8. ASSUME NEW j \in DOMAIN log', FirstOfTool(log', j)
      PROVE  \E i \in DOMAIN log' : log'[i].of = log'[j].of /\ log'[i].answers = log'[j].result
  <2>1. CASE j \in DOMAIN log
    <3>1. log'[j] = log[j] /\ \A i \in 1 .. j - 1 : i \in DOMAIN log /\ log'[i] = log[i]
      BY <1>1, <1>3, <2>1
    <3>2. FirstOfTool(log, j)
      BY <1>8, <3>1 DEF FirstOfTool
    <3>3. PICK i \in DOMAIN log : log[i].of = log[j].of /\ log[i].answers = log[j].result
      BY <2>1, <3>2 DEF FirstResultsPairUp
    <3> QED
      BY <1>3, <3>1, <3>3
  <2>2. CASE j \notin DOMAIN log
    <3>1. PICK m \in DOMAIN kept[t] : j = l + 1 + m
      BY <1>3, <1>5, <1>8, <2>2 DEF FirstOfTool
    <3>2. log'[j] = kept[t][m] /\ kept[t][m].of = t
      BY <1>3, <1>5, <3>1
    <3>3. \A i \in 1 .. m - 1 : /\ i \in DOMAIN kept[t] /\ l + 1 + i \in 1 .. j - 1
                                /\ log'[l + 1 + i] = kept[t][i] /\ kept[t][i].of = t
      <4>1. \A i \in 1 .. m - 1 : i \in 1 .. Len(kept[t]) /\ l + 1 + i \in 1 .. j - 1
        BY <1>1, <3>1
      <4> QED
        BY <1>1, <1>3, <1>5, <4>1
    <3>4. FirstOfTool(kept[t], m)
      BY <1>8, <3>2, <3>3 DEF FirstOfTool
    <3>5. PICK n \in DOMAIN kept[t] : kept[t][n].answers = kept[t][m].result
      BY <1>1, <3>4, FirstResultAnswers
    <3> QED
      BY <1>3, <1>5, <3>2, <3>5
  <2> QED
    BY <2>1, <2>2
<1>9. FirstResultsPairUp'
  BY <1>8 DEF FirstResultsPairUp
<1> QED
  BY <1>7, <1>9

(* What is left of ResultsPairUp, which is refuted: however often a turn    *)
(* uses its tools, in the stored thread each call whose tool returned has  *)
(* an answer, and the result of the first use of a tool in a turn is filed *)
(* under its call (_extract_turn_messages).                                *)
THEOREM FirstUsesPairUp == HistorySpec => [](CallsAnswered /\ FirstResultsPairUp)
<1>1. HistoryInit => CallsAnswered /\ FirstResultsPairUp
  BY DEF HistoryInit, CallsAnswered, FirstResultsPairUp
<1>2. HistoryInv /\ CallsAnswered /\ FirstResultsPairUp /\ [HistoryNext]_historyVars
        => CallsAnswered' /\ FirstResultsPairUp'
  <2> SUFFICES ASSUME HistoryInv, CallsAnswered, FirstResultsPairUp, [HistoryNext]_historyVars
               PROVE  CallsAnswered' /\ FirstResultsPairUp'
    OBVIOUS
  <2>1. CASE UNCHANGED historyVars
    BY <2>1 DEF historyVars, CallsAnswered, FirstResultsPairUp, FirstOfTool
  <2>2. ASSUME NEW t \in HistoryTurns,
               \/ BeginTurn(t) \/ AgentCalls(t) \/ SendToolCalled(t) \/ SendResult(t)
               \/ TurnAnswers(t) \/ TurnBreaks(t) \/ TurnVanishes(t)
        PROVE  CallsAnswered' /\ FirstResultsPairUp'
    <3>1. /\ log' = log /\ went[t] # "stored"
          /\ ran' = ran \/ ran' = [ran EXCEPT ![t] = @ + 1]
      BY <2>2 DEF BeginTurn, AgentCalls, SendToolCalled, SendResult, TurnAnswers, TurnBreaks,
                  TurnVanishes, EndStream, emitted
    <3>2. \A q \in HistoryTurns \ {t} : ran'[q] = ran[q]
      BY <3>1 DEF HistoryInv, HistoryTypeOK
    <3> QED
      BY <3>1, <3>2, PairsStay
  <2> QED
    BY <2>1, <2>2, StoringPairs DEF HistoryNext
<1> QED
  BY <1>1, <1>2, HistoryInvariant, PTL DEF HistorySpec

HIDE HistoryAssumption

-----------------------------------------------------------------------------
(* ModelCalls                                                              *)

(* The types of what is counted.                                           *)
BooksTypeOK ==
    /\ stage \in [Turns -> Stages]
    /\ usage \in [Turns -> SUBSET Answers] /\ own \in [Turns -> SUBSET Answers]
    /\ saved \in SUBSET Answers
    /\ counted \in [Answers -> Nat] /\ answers \in 0 .. MaxCalls
    /\ joined \in BOOLEAN /\ uncounted \in SUBSET Turns

(* A turn has the record of each answer it got, and got none before it     *)
(* started; once it is answered they are counted.                          *)
Recorded ==
    /\ \A t \in Turns : own[t] \subseteq usage[t] /\ own[t] \subseteq 1 .. answers
    /\ \A t \in Turns : stage[t] = "idle" => own[t] = {}
    /\ \A t \in Turns : stage[t] = "answered" /\ t \notin uncounted =>
          \A c \in own[t] : counted[c] > 0

(* As long as no turn took up the state of another, its records are its    *)
(* own answers, no answer is two turns', and the counted ones are those of *)
(* turns that were answered.                                               *)
OwnOnly ==
    /\ \A t \in Turns : usage[t] = own[t]
    /\ \A t, u \in Turns : t # u => own[t] \cap own[u] = {}
    /\ \A c \in Answers : counted[c] <= 1
    /\ \A c \in Answers : counted[c] > 0 => \E t \in Turns : stage[t] = "answered" /\ c \in own[t]

BooksInv == BooksTypeOK /\ Recorded /\ (~joined => OwnOnly)

USE ModelAssumption

-----------------------------------------------------------------------------
(* Nothing was answered yet.                                               *)
LEMMA InitBooksInv == ModelInit => BooksInv
<1> SUFFICES ASSUME ModelInit PROVE BooksInv
  OBVIOUS
<1>1. BooksTypeOK
  <2>1. stage \in [Turns -> Stages] /\ counted \in [Answers -> Nat]
    BY DEF ModelInit, Stages
  <2>2. usage \in [Turns -> SUBSET Answers] /\ own \in [Turns -> SUBSET Answers]
    BY DEF ModelInit
  <2>3. saved = {} /\ answers \in 0 .. MaxCalls /\ joined = FALSE /\ uncounted = {}
    BY DEF ModelInit
  <2> QED
    BY <2>1, <2>2, <2>3 DEF BooksTypeOK
<1>2. Recorded /\ OwnOnly
  BY DEF ModelInit, Recorded, OwnOnly
<1> QED
  BY <1>1, <1>2 DEF BooksInv

(* A turn that goes on between its start and its answer disturbs nothing,  *)
(* whatever it saves.                                                      *)
LEMMA GoingOn ==
    ASSUME BooksInv, NEW t \in Turns, stage[t] \notin {"idle", "answered"},
           NEW nodes, nodes \subseteq Stages \ {"idle", "answered"}, GoTo(t, nodes),
           UNCHANGED <<usage, counted, answers, own, joined, uncounted>>,
           saved' \in SUBSET Answers
    PROVE  BooksInv'
<1>1. PICK n \in nodes : stage' = [stage EXCEPT ![t] = n]
  BY DEF GoTo
<1>2. /\ stage' \in [Turns -> Stages]
      /\ \A u \in Turns : /\ stage'[u] = "idle" <=> stage[u] = "idle"
                          /\ stage'[u] = "answered" <=> stage[u] = "answered"
  BY <1>1 DEF BooksInv, BooksTypeOK
<1>3. BooksTypeOK'
  BY <1>2 DEF BooksInv, BooksTypeOK
<1>4. Recorded'
  BY <1>2 DEF BooksInv, Recorded
<1>5. ~joined' => OwnOnly'
  BY <1>2 DEF BooksInv, OwnOnly
<1> QED
  BY <1>3, <1>4, <1>5 DEF BooksInv

(* A turn starts with the saved records, which are not its answers.        *)
LEMMA StartKeeps == ASSUME BooksInv, NEW t \in Turns, StartTurn(t) PROVE BooksInv'
<1> USE DEF BooksInv, BooksTypeOK
<1>1. /\ stage[t] = "idle" /\ stage' = [stage EXCEPT ![t] = "classifier"]
      /\ usage' = [usage EXCEPT ![t] = saved] /\ joined' = (joined \/ saved # {})
      /\ UNCHANGED <<saved, counted, answers, own, uncounted>>
  BY DEF StartTurn
<1>2. own[t] = {}
  BY <1>1 DEF Recorded
<1>3. BooksTypeOK'
  BY <1>1 DEF Stages
<1>4. /\ \A u \in Turns : u # t => usage'[u] = usage[u] /\ stage'[u] = stage[u]
      /\ usage'[t] = saved /\ stage'[t] = "classifier"
  BY <1>1
<1>5. Recorded'
  BY <1>1, <1>2, <1>4 DEF Recorded
<1>6. ~joined' => OwnOnly'
  BY <1>1, <1>2, <1>4 DEF OwnOnly
<1> QED
  BY <1>3, <1>5, <1>6

(* An answer is new, so that nobody else has it or counted it.             *)
LEMMA AgentKeeps == ASSUME BooksInv, NEW t \in Turns, Agent(t) PROVE BooksInv'
<1> DEFINE c == answers + 1
<1>1. /\ stage[t] = "agent" /\ answers' = c /\ c \in Answers
      /\ usage' = [usage EXCEPT ![t] = @ \cup {c}]
      /\ own' = [own EXCEPT ![t] = @ \cup {c}]
      /\ UNCHANGED <<saved, counted, joined, uncounted>>
  BY DEF Agent, Answers, BooksInv, BooksTypeOK
<1>2. PICK n \in {"tools", "evaluator"} : stage' = [stage EXCEPT ![t] = n]
  BY DEF Agent, GoTo
<1>3. \A u \in Turns : c \notin own[u]
  BY DEF BooksInv, BooksTypeOK, Recorded
<1>4. /\ \A u \in Turns : u # t =>
            usage'[u] = usage[u] /\ own'[u] = own[u] /\ stage'[u] = stage[u]
      /\ usage'[t] = usage[t] \cup {c} /\ own'[t] = own[t] \cup {c}
      /\ stage'[t] \notin {"idle", "answered"}
  BY <1>1, <1>2 DEF BooksInv, BooksTypeOK
<1>5. BooksTypeOK'
  <2>1. stage' \in [Turns -> Stages] /\ answers' \in 0 .. MaxCalls
    BY <1>1, <1>2 DEF BooksInv, BooksTypeOK, Stages, Answers
  <2>2. usage' \in [Turns -> SUBSET Answers] /\ own' \in [Turns -> SUBSET Answers]
    BY <1>1 DEF BooksInv, BooksTypeOK
  <2> QED
    BY <1>1, <2>1, <2>2 DEF BooksInv, BooksTypeOK
<1>6. Recorded'
  <2>1. answers \in Nat /\ c \in 1 .. c /\ 1 .. answers \subseteq 1 .. c
    BY DEF BooksInv, BooksTypeOK
  <2> HIDE DEF c
  <2>2. ASSUME NEW q \in Turns
        PROVE  /\ own'[q] \subseteq usage'[q] /\ own'[q] \subseteq 1 .. answers'
               /\ stage'[q] = "idle" => own'[q] = {}
               /\ stage'[q] = "answered" /\ q \notin uncounted' =>
                     \A a \in own'[q] : counted'[a] > 0
    <3>1. CASE q = t
      BY <1>1, <1>4, <2>1, <3>1 DEF BooksInv, Recorded
    <3>2. CASE q # t
      BY <1>1, <1>4, <2>1, <3>2 DEF BooksInv, Recorded
    <3> QED
      BY <3>1, <3>2
  <2> QED
    BY <2>2 DEF Recorded
<1>7. ASSUME ~joined' PROVE OwnOnly'
  <2> HIDE DEF c
  <2>1. OwnOnly
    BY <1>1, <1>7 DEF BooksInv
  <2>2. \A u \in Turns : usage'[u] = own'[u]
    BY <1>4, <2>1 DEF OwnOnly
  <2>3. \A u, v \in Turns : u # v => own'[u] \cap own'[v] = {}
    BY <1>3, <1>4, <2>1 DEF OwnOnly
  <2>4. \A a \in Answers : counted[a] <= 1
    BY <2>1 DEF OwnOnly
  <2>5. \A a \in Answers : counted[a] > 0 =>
          \E u \in Turns : stage'[u] = "answered" /\ a \in own'[u]
    <3> SUFFICES ASSUME NEW a \in Answers, counted[a] > 0
                 PROVE  \E u \in Turns : stage'[u] = "answered" /\ a \in own'[u]
      OBVIOUS
    <3>1. PICK u \in Turns : stage[u] = "answered" /\ a \in own[u]
      BY <2>1 DEF OwnOnly
    <3> QED
      BY <1>1, <1>4, <3>1
  <2> QED
    BY <1>1, <2>2, <2>3, <2>4, <2>5 DEF OwnOnly
<1> QED
  BY <1>5, <1>6, <1>7 DEF BooksInv

(* A turn is counted when it becomes answered, and only then.              *)
LEMMA RecordKeeps == ASSUME BooksInv, NEW t \in Turns, RecordUsage(t) PROVE BooksInv'
<1>1. /\ stage[t] = "result" /\ stage' = [stage EXCEPT ![t] = "answered"]
      /\ UNCHANGED <<usage, saved, answers, own, joined>>
  BY DEF RecordUsage, GoTo
<1>2. \A u \in Turns : stage'[u] = "answered" <=> u = t \/ stage[u] = "answered"
  BY <1>1 DEF BooksInv, BooksTypeOK
<1>3. \A u \in Turns : stage'[u] = "idle" => stage[u] = "idle"
  BY <1>1 DEF BooksInv, BooksTypeOK
<1>4. stage' \in [Turns -> Stages]
  BY <1>1 DEF BooksInv, BooksTypeOK, Stages
<1>5. CASE uncounted' = uncounted \cup {t} /\ counted' = counted
  <2>1. BooksTypeOK'
    BY <1>1, <1>4, <1>5 DEF BooksInv, BooksTypeOK
  <2>2. Recorded'
    BY <1>1, <1>2, <1>3, <1>5 DEF BooksInv, Recorded
  <2>3. ~joined' => OwnOnly'
    BY <1>1, <1>2, <1>5 DEF BooksInv, OwnOnly
  <2> QED
    BY <2>1, <2>2, <2>3 DEF BooksInv
<1>6. CASE /\ counted' = [c \in Answers |-> IF c \in usage[t] THEN counted[c] + 1 ELSE counted[c]]
           /\ uncounted' = uncounted
  <2>1. counted' \in [Answers -> Nat] /\ \A c \in Answers : counted'[c] >= counted[c]
    BY <1>6 DEF BooksInv, BooksTypeOK
  <2>2. BooksTypeOK'
    BY <1>1, <1>4, <1>6, <2>1 DEF BooksInv, BooksTypeOK
  <2>3. ASSUME NEW u \in Turns, stage'[u] = "answered", u \notin uncounted', NEW c \in own[u]
        PROVE  counted'[c] > 0
    <3>1. c \in Answers /\ c \in usage[u] /\ counted[c] \in Nat
      BY DEF BooksInv, BooksTypeOK, Recorded
    <3>2. CASE u = t
      BY <1>6, <3>1, <3>2
    <3>3. CASE u # t
      <4>1. counted[c] > 0
        BY <1>2, <1>6, <2>3, <3>3 DEF BooksInv, Recorded
      <4> QED
        BY <1>6, <3>1, <4>1
    <3> QED
      BY <3>2, <3>3
  <2>4. Recorded'
    BY <1>1, <1>3, <2>3 DEF BooksInv, Recorded
  <2>5. ASSUME ~joined' PROVE OwnOnly'
    <3>0. OwnOnly
      BY <1>1, <2>5 DEF BooksInv
    <3>1. \A c \in usage[t] : c \in own[t] /\ c \in Answers /\ counted[c] = 0
      <4> SUFFICES ASSUME NEW c \in usage[t] PROVE c \in own[t] /\ c \in Answers /\ counted[c] = 0
        OBVIOUS
      <4>1. c \in own[t] /\ c \in Answers /\ counted[c] \in Nat
        BY <3>0 DEF OwnOnly, BooksInv, BooksTypeOK
      <4>2. ASSUME counted[c] > 0 PROVE FALSE
        <5>1. PICK u \in Turns : stage[u] = "answered" /\ c \in own[u]
          BY <3>0, <4>1, <4>2 DEF OwnOnly
        <5>2. u # t
          BY <1>1, <5>1
        <5> QED
          BY <3>0, <4>1, <5>1, <5>2 DEF OwnOnly
      <4> QED
        BY <4>1, <4>2
    <3>2. ASSUME NEW c \in Answers
          PROVE  /\ counted'[c] <= 1
                 /\ counted'[c] > 0 => \E u \in Turns : stage'[u] = "answered" /\ c \in own[u]
      <4>1. CASE c \in usage[t]
        BY <1>2, <1>6, <3>1, <4>1
      <4>2. CASE c \notin usage[t]
        <5>1. counted'[c] = counted[c]
          BY <1>6, <4>2
        <5> QED
          BY <1>2, <3>0, <5>1 DEF OwnOnly
      <4> QED
        BY <4>1, <4>2
    <3> QED
      BY <1>1, <3>0, <3>2 DEF OwnOnly
  <2> QED
    BY <2>2, <2>4, <2>5 DEF BooksInv
<1> QED
  BY <1>5, <1>6 DEF RecordUsage

-----------------------------------------------------------------------------
(* Every step keeps the books.                                             *)
LEMMA NextBooks == ASSUME BooksInv, [ModelNext]_modelVars PROVE BooksInv'
<1>0. saved \in SUBSET Answers /\ \A t \in Turns : usage[t] \in SUBSET Answers
  BY DEF BooksInv, BooksTypeOK
<1>1. ASSUME UNCHANGED <<stage, books>> PROVE BooksInv'
  BY <1>1 DEF books, BooksInv, BooksTypeOK, Recorded, OwnOnly
<1>2. ASSUME NEW t \in Turns, Invoke(t) \/ Again(t) PROVE BooksInv'
  BY <1>1, <1>2 DEF Invoke, Again
<1>3. ASSUME NEW t \in Turns, NEW node \in {"classifier", "planner", "evaluator", "compaction"},
             NEW nodes, nodes \subseteq {"planner", "agent", "compaction", "ready"},
             Helper(t, node, nodes)
      PROVE  BooksInv'
  <2>1. nodes \subseteq Stages \ {"idle", "answered"} /\ stage[t] \notin {"idle", "answered"}
    BY <1>3 DEF Helper, Stages
  <2> QED
    BY <1>0, <1>3, <2>1, GoingOn DEF Helper, books
<1>4. ASSUME NEW t \in Turns, Classifier(t) \/ Planner(t) \/ Evaluator(t) \/ Compaction(t)
      PROVE  BooksInv'
  <2>1. CASE Classifier(t)
    BY <1>3, <2>1 DEF Classifier
  <2>2. CASE Planner(t)
    BY <1>3, <2>2 DEF Planner
  <2>3. CASE Evaluator(t)
    BY <1>3, <2>3 DEF Evaluator
  <2>4. CASE Compaction(t)
    BY <1>3, <2>4 DEF Compaction
  <2> QED
    BY <1>4, <2>1, <2>2, <2>3, <2>4
<1>5. ASSUME NEW t \in Turns, AgentFails(t) PROVE BooksInv'
  <2>1. {"failed"} \subseteq Stages \ {"idle", "answered"}
    BY DEF Stages
  <2> QED
    BY <1>0, <1>5, <2>1, GoingOn DEF AgentFails, books
<1>6. ASSUME NEW t \in Turns, Tools(t) PROVE BooksInv'
  <2>1. {"agent", "parked"} \subseteq Stages \ {"idle", "answered"}
    BY DEF Stages
  <2> QED
    BY <1>0, <1>6, <2>1, GoingOn DEF Tools, books
<1>7. ASSUME NEW t \in Turns, Abandon(t) PROVE BooksInv'
  <2>1. {"failed"} \subseteq Stages \ {"idle", "answered"}
    BY DEF Stages
  <2> QED
    BY <1>0, <1>7, <2>1, GoingOn DEF Abandon, books
<1>8. ASSUME NEW t \in Turns, SaveState(t) PROVE BooksInv'
  <2>1. /\ {"failed"} \subseteq Stages \ {"idle", "answered"}
        /\ {"result"} \subseteq Stages \ {"idle", "answered"}
    BY DEF Stages
  <2>2. saved' \in SUBSET Answers
    BY <1>0, <1>8 DEF SaveState
  <2> QED
    BY <1>8, <2>1, <2>2, GoingOn DEF SaveState
<1> QED
  BY <1>1, <1>2, <1>4, <1>5, <1>6, <1>7, <1>8, StartKeeps, AgentKeeps, RecordKeeps
     DEF ModelNext, modelVars, books

-----------------------------------------------------------------------------
(* The types of the calls, all of which are to a provider there is.        *)
CallsInv ==
    /\ wire \in [Turns -> Wires]
    /\ privacy \in [Turns -> {"private", "external"}] /\ choice \in [Turns -> Chosen]
    /\ reached \in [Turns -> SUBSET (External \cup {"ollama"})]
    /\ \A t \in Turns : wire[t] # NoCall => Dispatches(wire[t].provider)

(* A call in flight goes to a provider there is, and is retried at most to *)
(* the limit.                                                              *)
LEMMA NextCallsType == ASSUME CallsInv, [ModelNext]_modelVars PROVE CallsInv'
<1> USE DEF CallsInv, turn
<1>1. ASSUME NEW t \in Turns, StartTurn(t) PROVE CallsInv'
  <2>1. PICK m \in {"private", "external"}, p \in Chosen :
          privacy' = [privacy EXCEPT ![t] = m] /\ choice' = [choice EXCEPT ![t] = p]
    BY <1>1 DEF StartTurn
  <2> QED
    BY <1>1, <2>1 DEF StartTurn
<1>2. ASSUME NEW t \in Turns, Invoke(t) PROVE CallsInv'
  <2>1. PICK p : /\ Dispatches(p)
                 /\ wire' = [wire EXCEPT ![t] = [provider |-> p, attempt |-> 1]]
                 /\ reached' = [reached EXCEPT ![t] = @ \cup {p}]
    BY <1>2, Zenon DEF Invoke
  <2>2. p \in External \cup {"ollama"}
    BY <2>1 DEF Dispatches
  <2>3. [provider |-> p, attempt |-> 1] \in Wires
    BY <2>2 DEF Wires
  <2>4. wire' \in [Turns -> Wires]
    BY <2>1, <2>3
  <2>5. reached' \in [Turns -> SUBSET (External \cup {"ollama"})]
    BY <2>1, <2>2
  <2>6. \A u \in Turns : wire'[u] # NoCall => Dispatches(wire'[u].provider)
    BY <2>1
  <2> QED
    BY <1>2, <2>4, <2>5, <2>6 DEF Invoke, Dispatches
<1>3. ASSUME NEW t \in Turns, Again(t) PROVE CallsInv'
  <2>1. /\ wire[t] # NoCall /\ wire' = [wire EXCEPT ![t].attempt = @ + 1]
        /\ UNCHANGED <<privacy, choice, reached>>
    BY <1>3 DEF Again
  <2>2. PICK response \in Responses :
          ClientOf(wire[t].provider, response, wire[t].attempt) = "again"
    BY <1>3 DEF Again
  <2>3. /\ wire[t].provider \in External \cup {"ollama"} /\ wire[t].attempt \in 1 .. MaxRetries
        /\ wire[t] = [provider |-> wire[t].provider, attempt |-> wire[t].attempt]
    BY <2>1 DEF Wires
  <2>4. wire[t].attempt < MaxRetries
    BY <2>1, <2>2, <2>3 DEF Dispatches, ClientOf, OpenAIClient, KimiClient, AnthropicClient, OllamaClient, Client,
                      External
  <2>5. [wire[t] EXCEPT !.attempt = @ + 1] \in Wires
    BY <2>3, <2>4 DEF Wires
  <2>6. [wire[t] EXCEPT !.attempt = @ + 1].provider = wire[t].provider
    BY <2>3
  <2> QED
    BY <2>1, <2>5, <2>6 DEF Dispatches
<1>4. ASSUME NEW t \in Turns, NEW nodes, GoTo(t, nodes), UNCHANGED <<turn, reached>>
      PROVE  CallsInv'
  BY <1>4 DEF GoTo, Wires, Dispatches
<1>5. ASSUME NEW t \in Turns, Classifier(t) \/ Planner(t) \/ Evaluator(t) \/ Compaction(t)
      PROVE  CallsInv'
  BY <1>4, <1>5 DEF Classifier, Planner, Evaluator, Compaction, Helper
<1>6. ASSUME NEW t \in Turns, Agent(t) \/ AgentFails(t) \/ Tools(t) \/ Abandon(t)
      PROVE  CallsInv'
  BY <1>4, <1>6 DEF Agent, AgentFails, Tools, Abandon
<1>7. ASSUME NEW t \in Turns, SaveState(t) \/ RecordUsage(t) PROVE CallsInv'
  BY <1>4, <1>7 DEF SaveState, RecordUsage
<1>8. CASE UNCHANGED modelVars
  BY <1>8 DEF modelVars, Dispatches
<1> QED
  BY <1>1, <1>2, <1>3, <1>5, <1>6, <1>7, <1>8 DEF ModelNext

LEMMA InitCallsType == ModelInit => CallsInv
<1> SUFFICES ASSUME ModelInit PROVE CallsInv
  OBVIOUS
<1>1. (CHOOSE p \in Chosen : TRUE) \in Chosen
  BY DEF ModelAssumption
<1> QED
  BY <1>1 DEF ModelInit, CallsInv, Wires

-----------------------------------------------------------------------------
(* The strengthened invariant holds of every behaviour.                    *)
THEOREM BooksInvariant == ModelSpec => []BooksInv
  BY InitBooksInv, NextBooks, PTL DEF ModelSpec

(* However many turns, rounds, retries and failures there are, no answer   *)
(* is paid for twice unless a turn took up another one's state, and an     *)
(* answered turn's are all paid for if their rows could be written.        *)
THEOREM NoAnswerCountedTwice == ModelSpec => []CallsCountedOnce
<1>1. BooksInv => CallsCountedOnce
  BY DEF BooksInv, Recorded, OwnOnly, CallsCountedOnce
<1> QED
  BY BooksInvariant, <1>1, PTL

(* Every call goes to a provider there is, no oftener than it may be       *)
(* retried.                                                                *)
THEOREM ModelCallsAreTyped == ModelSpec => []ModelTypeOK
<1>1. ModelSpec => []CallsInv
  BY InitCallsType, NextCallsType, PTL DEF ModelSpec
<1>2. BooksInv /\ CallsInv => ModelTypeOK
  BY DEF BooksInv, BooksTypeOK, CallsInv, ModelTypeOK
<1> QED
  BY <1>1, <1>2, BooksInvariant, PTL

-----------------------------------------------------------------------------
(* Where the text of a private turn may have gone: to the local model, to  *)
(* the provider the user chose for the nodes but the agent's, and, from    *)
(* the compaction on, to OpenAI.                                           *)
Compacted == {"compaction", "ready", "result", "answered", "failed"}
PrivateGoesTo(t) ==
    {"ollama"} \cup ({NodeProvider} \ {"default"})
      \cup (IF stage[t] \in Compacted THEN {"openai"} \cap Configured ELSE {})

PrivateInv ==
    /\ stage \in [Turns -> Stages]
    /\ \A t \in Turns : stage[t] = "idle" => reached[t] = {}
    /\ \A t \in Turns : privacy[t] = "private" => reached[t] \subseteq PrivateGoesTo(t)

(* The model of a private turn's node is among the places allowed there.   *)
LEMMA PrivateModels ==
    ASSUME CallsInv, PrivateInv, NEW t \in Turns, privacy[t] = "private", stage[t] \in Asking,
           Dispatches(Select(Mode(t, stage[t]), ModelOf(t, stage[t])))
    PROVE  Select(Mode(t, stage[t]), ModelOf(t, stage[t])) \in PrivateGoesTo(t)
<1>1. CASE stage[t] = "agent"
  BY <1>1 DEF Mode, ModelOf, Select, External, PrivateGoesTo
<1>2. CASE stage[t] = "compaction"
  BY <1>2 DEF Mode, ModelOf, Select, PrivateGoesTo, Compacted, Dispatches
<1>3. CASE stage[t] \in {"classifier", "planner", "evaluator"}
  BY <1>3 DEF Mode, ModelOf, Select, PrivateGoesTo
<1> QED
  BY <1>1, <1>2, <1>3 DEF Asking

(* A turn that goes on keeps what it has sent, and what it may have.       *)
LEMMA PrivateMoves ==
    ASSUME CallsInv, PrivateInv, NEW t \in Turns, NEW nodes \in SUBSET (Stages \ {"idle"}),
           stage[t] \in Compacted => nodes \subseteq Compacted,
           GoTo(t, nodes), UNCHANGED <<privacy, reached>>
    PROVE  PrivateInv'
<1>1. PICK n \in nodes : stage' = [stage EXCEPT ![t] = n]
  BY DEF GoTo
<1>2. \A u \in Turns : stage'[u] = IF u = t THEN n ELSE stage[u]
  BY <1>1 DEF PrivateInv
<1>3. stage' \in [Turns -> Stages] /\ n # "idle"
  BY <1>1 DEF PrivateInv
<1>4. \A u \in Turns : PrivateGoesTo(u) \subseteq PrivateGoesTo(u)'
  BY <1>1, <1>2 DEF PrivateGoesTo
<1> QED
  BY <1>2, <1>3, <1>4 DEF PrivateInv

(* No step sends a private turn's text anywhere else.                     *)
LEMMA NextPrivate == CallsInv /\ PrivateInv /\ [ModelNext]_modelVars => PrivateInv'
<1> SUFFICES ASSUME CallsInv, PrivateInv, [ModelNext]_modelVars PROVE PrivateInv'
  OBVIOUS
<1>1. ASSUME NEW t \in Turns, StartTurn(t) PROVE PrivateInv'
  <2>1. /\ stage[t] = "idle" /\ stage' = [stage EXCEPT ![t] = "classifier"] /\ reached' = reached
        /\ \A u \in Turns : u # t => privacy'[u] = privacy[u]
    BY <1>1 DEF StartTurn, CallsInv
  <2>2. /\ stage' \in [Turns -> Stages] /\ stage'[t] = "classifier"
        /\ \A u \in Turns : u # t => stage'[u] = stage[u]
    BY <2>1 DEF PrivateInv, Stages
  <2>3. \A u \in Turns : u # t => PrivateGoesTo(u)' = PrivateGoesTo(u)
    BY <2>2 DEF PrivateGoesTo
  <2>4. reached'[t] = {}
    BY <2>1 DEF PrivateInv
  <2> QED
    BY <2>1, <2>2, <2>3, <2>4 DEF PrivateInv
<1>2. ASSUME NEW t \in Turns, Invoke(t) PROVE PrivateInv'
  <2> DEFINE p == Select(Mode(t, stage[t]), ModelOf(t, stage[t]))
  <2>1. /\ stage[t] \in Asking /\ Dispatches(p)
        /\ reached' = [reached EXCEPT ![t] = @ \cup {p}] /\ UNCHANGED <<stage, privacy>>
    BY <1>2 DEF Invoke, turn
  <2>2. privacy[t] = "private" => p \in PrivateGoesTo(t)
    BY <2>1, PrivateModels
  <2>3. stage[t] # "idle"
    BY <2>1 DEF Asking
  <2> HIDE DEF p
  <2>4. \A u \in Turns : PrivateGoesTo(u)' = PrivateGoesTo(u)
    BY <2>1 DEF PrivateGoesTo
  <2>5. \A u \in Turns : reached'[u] = IF u = t THEN reached[t] \cup {p} ELSE reached[u]
    BY <2>1 DEF CallsInv
  <2> QED
    BY <2>1, <2>2, <2>3, <2>4, <2>5 DEF PrivateInv
<1>3. ASSUME NEW t \in Turns, Again(t) PROVE PrivateInv'
  BY <1>3 DEF Again, PrivateInv, PrivateGoesTo, turn
<1>4. ASSUME NEW t \in Turns, Classifier(t) PROVE PrivateInv'
  BY <1>4, PrivateMoves DEF Classifier, Helper, turn, Stages, Compacted
<1>5. ASSUME NEW t \in Turns, Planner(t) PROVE PrivateInv'
  BY <1>5, PrivateMoves DEF Planner, Helper, turn, Stages, Compacted
<1>6. ASSUME NEW t \in Turns, Evaluator(t) PROVE PrivateInv'
  BY <1>6, PrivateMoves DEF Evaluator, Helper, turn, Stages, Compacted
<1>7. ASSUME NEW t \in Turns, Compaction(t) PROVE PrivateInv'
  BY <1>7, PrivateMoves DEF Compaction, Helper, turn, Stages, Compacted
<1>8. ASSUME NEW t \in Turns, Agent(t) PROVE PrivateInv'
  BY <1>8, PrivateMoves DEF Agent, turn, Stages, Compacted
<1>9. ASSUME NEW t \in Turns, AgentFails(t) PROVE PrivateInv'
  BY <1>9, PrivateMoves DEF AgentFails, turn, Stages, Compacted
<1>10. ASSUME NEW t \in Turns, Tools(t) PROVE PrivateInv'
  BY <1>10, PrivateMoves DEF Tools, turn, Stages, Compacted
<1>11. ASSUME NEW t \in Turns, Abandon(t) PROVE PrivateInv'
  BY <1>11, PrivateMoves DEF Abandon, turn, Stages, Compacted
<1>12. ASSUME NEW t \in Turns, SaveState(t) PROVE PrivateInv'
  <2>1. GoTo(t, {"result"}) \/ GoTo(t, {"failed"})
    BY <1>12 DEF SaveState
  <2>2. UNCHANGED <<privacy, reached>>
    BY <1>12 DEF SaveState, turn
  <2> QED
    BY <2>1, <2>2, PrivateMoves DEF Stages, Compacted
<1>13. ASSUME NEW t \in Turns, RecordUsage(t) PROVE PrivateInv'
  BY <1>13, PrivateMoves DEF RecordUsage, turn, Stages, Compacted
<1>14. CASE UNCHANGED modelVars
  BY <1>14 DEF modelVars, PrivateInv, PrivateGoesTo
<1> QED
  BY <1>1, <1>2, <1>3, <1>4, <1>5, <1>6, <1>7, <1>8, <1>9, <1>10, <1>11, <1>12, <1>13, <1>14
     DEF ModelNext

(* PrivateStaysLocal fails in two ways and no other: the text of a private *)
(* message goes to the provider chosen in node_models for the other nodes, *)
(* and to OpenAI, if it is configured, once the compaction has begun.  The *)
(* agent's own calls stay with the local model, whatever the user chose    *)
(* for it (ModelConfig.for_privacy_mode, ProviderRouter.select).           *)
THEOREM PrivateTextGoesNowhereElse ==
    ModelSpec => [](\A t \in Turns : privacy[t] = "private" => reached[t] \subseteq PrivateGoesTo(t))
<1>1. ModelInit => PrivateInv
  BY DEF ModelInit, PrivateInv, Stages
<1>2. ModelSpec => []CallsInv
  BY InitCallsType, NextCallsType, PTL DEF ModelSpec
<1>3. PrivateInv => \A t \in Turns : privacy[t] = "private" => reached[t] \subseteq PrivateGoesTo(t)
  BY DEF PrivateInv
<1> QED
  BY <1>1, <1>2, <1>3, NextPrivate, PTL DEF ModelSpec
=============================================================================
