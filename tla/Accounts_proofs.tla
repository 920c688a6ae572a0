-------------------------- MODULE Accounts_proofs ---------------------------
(* Theorems of the user's account: of its tokens, for any requests         *)
(* and any number of pairs; of its Google grant, for any tools and bounds; *)
(* of its settings, for any requests and scopes.                           *)
EXTENDS AuthSessions, GoogleLink, SettingsStore, TLAPS

-----------------------------------------------------------------------------
(* AuthSessions                                                            *)

(* An access token is on the blacklist or past its expiry, as the cleanup  *)
(* sees it.                                                                *)
Past(p) == p \in blacklist \/ now > 2 * (born[p] + AccessLife)

(* The pairs that were logged out were issued, their sessions are closed   *)
(* and their access tokens past; so will be those of the logouts that are  *)
(* half done.  A session is never older than the pairs that name it.       *)
LogoutInv ==
    /\ active \subseteq 1 .. issued /\ held <= issued
    /\ \A p \in Pairs : sid[p] <= p
    /\ \A q \in AuthRequests : pair[q] <= issued
    /\ \A q \in AuthRequests : at[q] = "revoking" =>
          pair[q] \in Pairs /\ (closed[q] => sid[pair[q]] \notin active)
    /\ \A p \in out : p <= issued /\ sid[p] \notin active /\ Past(p)

(* Unless spoiled, a refresh has the session it read to itself and knows   *)
(* the hash that is stored there, and the jar is behind only while an      *)
(* answer is on its way to it.                                             *)
UnderWay(q) == at[q] \in {"read", "answering"}
RotationInv ==
    /\ \A q \in AuthRequests : UnderWay(q) => row[q] \in active /\ hash[row[q]] = pair[q]
    /\ \A q, r \in AuthRequests : UnderWay(q) /\ UnderWay(r) /\ row[q] = row[r] => q = r
    /\ held # 0 => \/ SessionOf(held) # {}
                   \/ \E q \in AuthRequests : at[q] \in {"answering", "revoking"}

AuthInv == AuthTypeOK /\ LogoutInv /\ (~spoiled => RotationInv)

USE AuthAssumption

-----------------------------------------------------------------------------
(* Nobody is registered, and there are no tokens.                          *)
LEMMA InitAuthInv == AuthInit => AuthInv
<1> SUFFICES ASSUME AuthInit PROVE AuthInv
  OBVIOUS
<1>1. AuthTypeOK
  <2>1. 0 \in 0 .. MaxPairs /\ 0 \in 0 .. MaxPasswords /\ 0 \in Nat
    OBVIOUS
  <2>2. born \in [Pairs -> Nat] /\ now \in Nat /\ spoiled \in BOOLEAN
    BY <2>1 DEF AuthInit
  <2>3. /\ sid \in [Pairs -> 0 .. MaxPairs] /\ hash \in [Pairs -> 0 .. MaxPairs]
        /\ pair \in [AuthRequests -> 0 .. MaxPairs] /\ row \in [AuthRequests -> 0 .. MaxPairs]
    BY <2>1 DEF AuthInit
  <2>4. at \in [AuthRequests -> AuthPC] /\ closed \in [AuthRequests -> BOOLEAN]
    BY DEF AuthInit, AuthPC
  <2> QED
    BY <2>1, <2>2, <2>3, <2>4 DEF AuthInit, AuthTypeOK
<1>2. LogoutInv /\ RotationInv
  BY DEF AuthInit, LogoutInv, RotationInv, UnderWay, Pairs
<1> QED
  BY <1>1, <1>2 DEF AuthInv

(* A login or a refresh issues a pair that no older one is mistaken for.   *)
LEMMA IssueKeeps ==
    ASSUME AuthTypeOK, NEW n \in Pairs, NEW s \in 0 .. n, Issue(n, s)
    PROVE  /\ issued' = n /\ n = issued + 1 /\ issued' \in 0 .. MaxPairs /\ n \in Nat
           /\ born' \in [Pairs -> Nat] /\ sid' \in [Pairs -> 0 .. MaxPairs]
           /\ \A p \in Pairs : p # n => born'[p] = born[p] /\ sid'[p] = sid[p]
           /\ sid'[n] = s
<1>1. Second \in Nat
  BY DEF Second, AuthTypeOK
<1>2. issued' = n /\ n = issued + 1 /\ n \in Nat /\ issued' \in 0 .. MaxPairs
  BY DEF Issue, AuthTypeOK, Pairs
<1>3. s \in 0 .. MaxPairs
  BY DEF Pairs
<1>4. born' = [born EXCEPT ![n] = Second] /\ sid' = [sid EXCEPT ![n] = s]
  BY DEF Issue
<1> QED
  BY <1>1, <1>2, <1>3, <1>4 DEF AuthTypeOK

(* A step keeps the types.                                                 *)
LEMMA NextAuthType ==
    ASSUME AuthTypeOK, LogoutInv, [AuthNext]_authVars PROVE AuthTypeOK'
<1> USE DEF AuthTypeOK, AuthPC, tokens, rows, requests
<1>1. CASE AuthTick \/ Register \/ ResetPassword \/ Cleanup
  BY <1>1 DEF AuthTick, Register, ResetPassword, Cleanup
<1>2. CASE Login
  <2>1. PICK n \in Pairs : /\ Issue(n, n) /\ hash' = [hash EXCEPT ![n] = n]
                           /\ active' = active \cup {n} /\ held' \in {held, n}
    BY <1>2 DEF Login
  <2>2. n \in 0 .. n /\ n \in 0 .. MaxPairs
    BY DEF Pairs
  <2>3. /\ issued' \in 0 .. MaxPairs /\ born' \in [Pairs -> Nat]
        /\ sid' \in [Pairs -> 0 .. MaxPairs]
    BY <2>1, <2>2, IssueKeeps
  <2> QED
    BY <1>2, <2>1, <2>2, <2>3 DEF Login
<1>3. ASSUME NEW q \in AuthRequests, RefreshRead(q) PROVE AuthTypeOK'
  <2>1. PICK s \in SessionOf(held) :
          /\ at' = [at EXCEPT ![q] = "read"] /\ pair' = [pair EXCEPT ![q] = held]
          /\ row' = [row EXCEPT ![q] = s] /\ spoiled' = (spoiled \/ Refreshing(s))
    BY <1>3 DEF RefreshRead
  <2>2. s \in 0 .. MaxPairs
    BY DEF SessionOf, Pairs
  <2> QED
    BY <1>3, <2>1, <2>2 DEF RefreshRead
<1>4. ASSUME NEW q \in AuthRequests, RefreshRefused(q) PROVE AuthTypeOK'
  BY <1>4 DEF RefreshRefused
<1>5. ASSUME NEW q \in AuthRequests, RefreshCommit(q) PROVE AuthTypeOK'
  <2>1. PICK n \in Pairs : /\ Issue(n, 0) /\ hash' = [hash EXCEPT ![row[q]] = n]
                           /\ pair' = [pair EXCEPT ![q] = n]
                           /\ at' = [at EXCEPT ![q] = "answering"]
    BY <1>5 DEF RefreshCommit
  <2>2. 0 \in 0 .. n /\ n \in 0 .. MaxPairs
    BY DEF Pairs
  <2>3. /\ issued' \in 0 .. MaxPairs /\ born' \in [Pairs -> Nat]
        /\ sid' \in [Pairs -> 0 .. MaxPairs]
    BY <2>1, <2>2, IssueKeeps
  <2> QED
    BY <1>5, <2>1, <2>2, <2>3 DEF RefreshCommit
<1>6. ASSUME NEW q \in AuthRequests, RefreshAnswer(q) PROVE AuthTypeOK'
  <2>1. held' \in 0 .. MaxPairs /\ spoiled' \in BOOLEAN
    BY <1>6 DEF RefreshAnswer
  <2>2. /\ pair' \in [AuthRequests -> 0 .. MaxPairs] /\ row' \in [AuthRequests -> 0 .. MaxPairs]
        /\ at' \in [AuthRequests -> AuthPC]
    BY <1>6 DEF RefreshAnswer
  <2> QED
    BY <1>6, <2>1, <2>2 DEF RefreshAnswer
<1>7. ASSUME NEW q \in AuthRequests, LogoutSession(q) PROVE AuthTypeOK'
  <2>1. held \in Pairs
    BY <1>7 DEF LogoutSession, Pairs
  <2>2. active' \in SUBSET Pairs /\ closed' \in [AuthRequests -> BOOLEAN]
    BY <1>7 DEF LogoutSession
  <2>3. row' \in [AuthRequests -> 0 .. MaxPairs] /\ pair' \in [AuthRequests -> 0 .. MaxPairs]
    BY <1>7, <2>1 DEF LogoutSession
  <2> QED
    BY <1>7, <2>2, <2>3 DEF LogoutSession
<1>8. ASSUME NEW q \in AuthRequests, LogoutRevoke(q) PROVE AuthTypeOK'
  <2>1. pair[q] \in Pairs
    BY <1>8 DEF LogoutRevoke, LogoutInv
  <2>2. blacklist' \in SUBSET Pairs /\ out' \in SUBSET Pairs
    BY <1>8, <2>1 DEF LogoutRevoke
  <2> QED
    BY <1>8, <2>2 DEF LogoutRevoke
<1>9. CASE UNCHANGED authVars
  BY <1>9 DEF authVars
<1> QED
  BY <1>1, <1>2, <1>3, <1>4, <1>5, <1>6, <1>7, <1>8, <1>9 DEF AuthNext
-----------------------------------------------------------------------------
(* Logged out is logged out: what is closed or revoked stays so.           *)
LEMMA NextLogout == ASSUME AuthTypeOK, LogoutInv, [AuthNext]_authVars PROVE LogoutInv'
<1> USE DEF AuthTypeOK, LogoutInv, Past, tokens, rows, requests
<1>1. CASE AuthTick
  BY <1>1 DEF AuthTick
<1>2. CASE Register \/ ResetPassword
  BY <1>2 DEF Register, ResetPassword
<1>3. CASE Login
  <2>1. PICK n \in Pairs : Issue(n, n) /\ active' = active \cup {n} /\ held' \in {held, n}
    BY <1>3 DEF Login
  <2>2. n \in 0 .. n
    BY DEF Pairs
  <2>3. /\ issued' = n /\ n = issued + 1 /\ n \in Nat
        /\ \A p \in Pairs : p # n => born'[p] = born[p] /\ sid'[p] = sid[p]
        /\ sid'[n] = n
    BY <2>1, <2>2, IssueKeeps
  <2>4. UNCHANGED <<now, blacklist, at, pair, row, closed, out>>
    BY <1>3 DEF Login
  <2>5. \A p \in Pairs : p <= issued =>
           sid'[p] = sid[p] /\ sid[p] # n /\ born'[p] = born[p]
    <3> SUFFICES ASSUME NEW p \in Pairs, p <= issued
                 PROVE  sid'[p] = sid[p] /\ sid[p] # n /\ born'[p] = born[p]
      OBVIOUS
    <3>1. p \in Nat /\ p # n /\ sid[p] \in 0 .. MaxPairs /\ sid[p] <= p
      BY <2>3 DEF Pairs
    <3> QED
      BY <2>3, <3>1
  <2>6. active' \subseteq 1 .. issued' /\ held' <= issued'
    BY <2>1, <2>3 DEF Pairs
  <2>7. \A p \in out : p <= issued' /\ sid'[p] \notin active' /\ Past(p)'
    <3> SUFFICES ASSUME NEW p \in out PROVE p <= issued' /\ sid'[p] \notin active' /\ Past(p)'
      OBVIOUS
    <3>1. p \in Pairs /\ p \in Nat /\ p <= issued /\ sid[p] \notin active /\ Past(p)
      BY DEF Pairs
    <3>2. sid'[p] = sid[p] /\ sid[p] # n /\ born'[p] = born[p]
      BY <2>5, <3>1
    <3> QED
      BY <2>1, <2>3, <2>4, <3>1, <3>2
  <2>8. \A q \in AuthRequests : at'[q] = "revoking" =>
           pair'[q] \in Pairs /\ (closed'[q] => sid'[pair'[q]] \notin active')
    BY <2>1, <2>4, <2>5
  <2>9. (\A p \in Pairs : sid'[p] <= p) /\ \A q \in AuthRequests : pair'[q] <= issued'
    <3>1. ASSUME NEW p \in Pairs PROVE sid'[p] <= p
      <4>1. p \in Nat /\ sid[p] <= p
        BY DEF Pairs
      <4> QED
        BY <2>3, <4>1
    <3>2. ASSUME NEW q \in AuthRequests PROVE pair'[q] <= issued'
      BY <2>3, <2>4, <3>2
    <3> QED
      BY <3>1, <3>2
  <2> HIDE DEF AuthTypeOK, Past
  <2> QED
    BY <2>4, <2>6, <2>7, <2>8, <2>9
<1>4. ASSUME NEW q \in AuthRequests, RefreshRead(q) PROVE LogoutInv'
  BY <1>4 DEF RefreshRead
<1>5. ASSUME NEW q \in AuthRequests, RefreshRefused(q) PROVE LogoutInv'
  BY <1>5 DEF RefreshRefused
<1>6. ASSUME NEW q \in AuthRequests, RefreshCommit(q) PROVE LogoutInv'
  <2>1. PICK n \in Pairs : /\ Issue(n, 0) /\ pair' = [pair EXCEPT ![q] = n]
                           /\ at' = [at EXCEPT ![q] = "answering"]
    BY <1>6 DEF RefreshCommit
  <2>2. 0 \in 0 .. n
    BY DEF Pairs
  <2>3. /\ issued' = n /\ n = issued + 1 /\ n \in Nat
        /\ \A p \in Pairs : p # n => born'[p] = born[p] /\ sid'[p] = sid[p]
        /\ sid'[n] = 0
    BY <2>1, <2>2, IssueKeeps
  <2>4. UNCHANGED <<now, active, blacklist, held, closed, out>>
    BY <1>6 DEF RefreshCommit
  <2>5. \A p \in out : p <= issued' /\ sid'[p] \notin active' /\ Past(p)'
    <3> SUFFICES ASSUME NEW p \in out PROVE p <= issued' /\ sid'[p] \notin active' /\ Past(p)'
      OBVIOUS
    <3>1. p \in Pairs /\ p \in Nat /\ p <= issued /\ p # n
      BY <2>3 DEF Pairs
    <3>2. sid'[p] = sid[p] /\ born'[p] = born[p]
      BY <2>3, <3>1
    <3> QED
      BY <2>3, <2>4, <3>1, <3>2
  <2>6. ASSUME NEW r \in AuthRequests, at'[r] = "revoking"
        PROVE  pair'[r] \in Pairs /\ (closed'[r] => sid'[pair'[r]] \notin active')
    <3>1. r # q /\ at[r] = "revoking" /\ pair'[r] = pair[r]
      BY <2>1, <2>6
    <3>2. pair[r] \in Pairs /\ pair[r] \in Nat /\ pair[r] # n
      BY <2>3, <3>1 DEF Pairs
    <3> QED
      BY <2>3, <2>4, <3>1, <3>2
  <2>7. (\A p \in Pairs : sid'[p] <= p) /\ \A r \in AuthRequests : pair'[r] <= issued'
    <3>1. ASSUME NEW p \in Pairs PROVE sid'[p] <= p
      <4>1. p \in Nat /\ sid[p] <= p
        BY DEF Pairs
      <4> QED
        BY <2>3, <4>1
    <3>2. ASSUME NEW r \in AuthRequests PROVE pair'[r] <= issued'
      <4>1. pair'[r] = n \/ pair'[r] = pair[r]
        BY <2>1
      <4> QED
        BY <2>3, <4>1
    <3> QED
      BY <3>1, <3>2
  <2>8. active' \subseteq 1 .. issued' /\ held' <= issued'
    BY <2>3, <2>4
  <2> HIDE DEF AuthTypeOK, Past
  <2> QED
    BY <2>4, <2>5, <2>6, <2>7, <2>8
<1>7. ASSUME NEW q \in AuthRequests, RefreshAnswer(q) PROVE LogoutInv'
  BY <1>7 DEF RefreshAnswer
<1>8. ASSUME NEW q \in AuthRequests, LogoutSession(q) PROVE LogoutInv'
  <2>1. /\ at' = [at EXCEPT ![q] = "revoking"] /\ pair' = [pair EXCEPT ![q] = held]
        /\ \/ active' = active \ {sid[held]} /\ closed' = [closed EXCEPT ![q] = TRUE]
           \/ active' = active /\ closed' = [closed EXCEPT ![q] = FALSE]
        /\ held \in Pairs
        /\ UNCHANGED <<now, issued, born, sid, blacklist, held, out>>
    BY <1>8 DEF LogoutSession, Pairs
  <2>2. active' \subseteq active /\ (closed'[q] => sid[held] \notin active')
    BY <2>1
  <2>3. \A r \in AuthRequests : r # q =>
           at'[r] = at[r] /\ pair'[r] = pair[r] /\ closed'[r] = closed[r]
    BY <2>1
  <2>4. \A r \in AuthRequests : at'[r] = "revoking" =>
           pair'[r] \in Pairs /\ (closed'[r] => sid'[pair'[r]] \notin active')
    BY <2>1, <2>2, <2>3
  <2> QED
    BY <2>1, <2>2, <2>4
<1>9. ASSUME NEW q \in AuthRequests, LogoutRevoke(q) PROVE LogoutInv'
  <2>1. pair[q] \in Pairs /\ pair[q] <= issued /\ (closed[q] => sid[pair[q]] \notin active)
    BY <1>9 DEF LogoutRevoke
  <2>2. /\ at' = [at EXCEPT ![q] = "idle"] /\ pair' = [pair EXCEPT ![q] = 0]
        /\ closed' = [closed EXCEPT ![q] = FALSE] /\ held' = 0
        /\ \/ /\ blacklist' = IF AccessAlive(pair[q]) THEN blacklist \cup {pair[q]} ELSE blacklist
              /\ out' = IF closed[q] THEN out \cup {pair[q]} ELSE out
           \/ UNCHANGED <<blacklist, out>>
        /\ UNCHANGED <<now, issued, born, sid, active>>
    BY <1>9 DEF LogoutRevoke
  <2>3. ~AccessAlive(pair[q]) => now > 2 * (born[pair[q]] + AccessLife)
    BY <2>1 DEF AccessAlive, Second
  <2>4. \A p \in out' : p <= issued' /\ sid'[p] \notin active' /\ Past(p)'
    BY <2>1, <2>2, <2>3
  <2>5. \A r \in AuthRequests : at'[r] = "revoking" =>
           pair'[r] \in Pairs /\ (closed'[r] => sid'[pair'[r]] \notin active')
    BY <2>2
  <2> QED
    BY <2>2, <2>4, <2>5
<1>10. CASE Cleanup
  BY <1>10 DEF Cleanup
<1>11. CASE UNCHANGED authVars
  BY <1>11 DEF authVars
<1> QED
  BY <1>1, <1>2, <1>3, <1>4, <1>5, <1>6, <1>7, <1>8, <1>9, <1>10, <1>11 DEF AuthNext

-----------------------------------------------------------------------------
(* Rotation: a step that spoils nothing leaves every refresh its session.  *)
LEMMA NextRotation ==
    ASSUME AuthTypeOK, LogoutInv, ~spoiled => RotationInv, [AuthNext]_authVars, ~spoiled'
    PROVE  RotationInv'
<1> USE DEF AuthTypeOK, tokens, rows, requests
<1>0. ~spoiled
  BY DEF AuthNext, AuthTick, Register, ResetPassword, Login, Cleanup, RefreshRead,
         RefreshRefused, RefreshCommit, RefreshAnswer, LogoutSession, LogoutRevoke, authVars
<1> USE <1>0 DEF RotationInv, UnderWay, SessionOf
<1>1. CASE AuthTick \/ Register \/ ResetPassword \/ Cleanup
  BY <1>1 DEF AuthTick, Register, ResetPassword, Cleanup
<1>2. CASE Login
  <2>1. PICK n \in Pairs : /\ Issue(n, n) /\ hash' = [hash EXCEPT ![n] = n]
                           /\ active' = active \cup {n} /\ held' \in {held, n}
    BY <1>2 DEF Login
  <2>2. UNCHANGED <<at, pair, row>>
    BY <1>2 DEF Login
  <2>3. n \notin active
    BY <2>1 DEF Issue, LogoutInv
  <2>4. \A s \in active : hash'[s] = hash[s] /\ s \in active'
    BY <2>1, <2>3
  <2>5. \A q \in AuthRequests : UnderWay(q)' => row'[q] \in active' /\ hash'[row'[q]] = pair'[q]
    BY <2>2, <2>4
  <2>6. CASE held' = n
    BY <2>1, <2>2, <2>5, <2>6
  <2>7. CASE held' = held
    BY <2>2, <2>4, <2>5, <2>7
  <2> QED
    BY <2>1, <2>6, <2>7
<1>3. ASSUME NEW q \in AuthRequests, RefreshRead(q) PROVE RotationInv'
  <2>1. PICK s \in SessionOf(held) :
          /\ at' = [at EXCEPT ![q] = "read"] /\ pair' = [pair EXCEPT ![q] = held]
          /\ row' = [row EXCEPT ![q] = s] /\ spoiled' = (spoiled \/ Refreshing(s))
    BY <1>3 DEF RefreshRead
  <2>2. ~Refreshing(s) /\ s \in active /\ hash[s] = held
    BY <2>1
  <2>3. UNCHANGED <<hash, active, held>> /\ at[q] = "idle"
    BY <1>3 DEF RefreshRead
  <2>4. \A r \in AuthRequests : r # q =>
           at'[r] = at[r] /\ pair'[r] = pair[r] /\ row'[r] = row[r]
    BY <2>1
  <2>5. at'[q] = "read" /\ pair'[q] = held /\ row'[q] = s
    BY <2>1, <2>2
  <2>6. \A r \in AuthRequests : UnderWay(r)' => row'[r] \in active' /\ hash'[row'[r]] = pair'[r]
    BY <2>2, <2>3, <2>4, <2>5
  <2>7. \A r \in AuthRequests : r # q /\ UnderWay(r)' => row'[r] # s
    BY <2>2, <2>4 DEF Refreshing
  <2>8. \A r, t \in AuthRequests : UnderWay(r)' /\ UnderWay(t)' /\ row'[r] = row'[t] => r = t
    BY <2>4, <2>5, <2>7
  <2>9. SessionOf(held)' # {}
    BY <2>2, <2>3
  <2> QED
    BY <2>6, <2>8, <2>9
<1>4. ASSUME NEW q \in AuthRequests, RefreshRefused(q) PROVE RotationInv'
  BY <1>4 DEF RefreshRefused
<1>5. ASSUME NEW q \in AuthRequests, RefreshCommit(q) PROVE RotationInv'
  <2>1. PICK n \in Pairs : /\ hash' = [hash EXCEPT ![row[q]] = n]
                           /\ pair' = [pair EXCEPT ![q] = n]
                           /\ at' = [at EXCEPT ![q] = "answering"]
    BY <1>5 DEF RefreshCommit
  <2>2. UNCHANGED <<active, held, row>> /\ at[q] = "read"
    BY <1>5 DEF RefreshCommit
  <2>3. row[q] \in active
    BY <2>2
  <2>4. \A r \in AuthRequests : r # q => at'[r] = at[r] /\ pair'[r] = pair[r]
    BY <2>1
  <2>5. at'[q] = "answering" /\ pair'[q] = n /\ hash'[row[q]] = n
    BY <2>1, <2>3
  <2>6. \A r \in AuthRequests : r # q /\ UnderWay(r) => row[r] # row[q] /\ hash'[row[r]] = hash[row[r]]
    BY <2>1, <2>2
  <2>7. \A r \in AuthRequests : UnderWay(r)' => row'[r] \in active' /\ hash'[row'[r]] = pair'[r]
    BY <2>2, <2>3, <2>4, <2>5, <2>6
  <2>8. \A r, t \in AuthRequests : UnderWay(r)' /\ UnderWay(t)' /\ row'[r] = row'[t] => r = t
    BY <2>2, <2>4, <2>6
  <2> QED
    BY <2>5, <2>7, <2>8
<1>6. ASSUME NEW q \in AuthRequests, RefreshAnswer(q) PROVE RotationInv'
  <2>1. /\ held' = pair[q] /\ at[q] = "answering" /\ at' = [at EXCEPT ![q] = "idle"]
        /\ pair' = [pair EXCEPT ![q] = 0] /\ row' = [row EXCEPT ![q] = 0]
        /\ UNCHANGED <<hash, active>>
    BY <1>6 DEF RefreshAnswer
  <2>2. row[q] \in SessionOf(held)'
    BY <2>1
  <2>3. \A r \in AuthRequests : UnderWay(r)' =>
           r # q /\ at'[r] = at[r] /\ pair'[r] = pair[r] /\ row'[r] = row[r]
    BY <2>1
  <2> QED
    BY <2>1, <2>2, <2>3
<1>7. ASSUME NEW q \in AuthRequests, LogoutSession(q) PROVE RotationInv'
  <2>1. /\ at[q] = "idle" /\ at' = [at EXCEPT ![q] = "revoking"]
        /\ pair' = [pair EXCEPT ![q] = held] /\ row' = [row EXCEPT ![q] = sid[held]]
        /\ active' \in {active, active \ {sid[held]}}
        /\ spoiled' = (spoiled \/ Refreshing(sid[held]))
        /\ UNCHANGED <<hash, held>>
    BY <1>7 DEF LogoutSession
  <2>2. \A r \in AuthRequests : UnderWay(r)' =>
           r # q /\ at'[r] = at[r] /\ pair'[r] = pair[r] /\ row'[r] = row[r]
    BY <2>1
  <2>3. \A r \in AuthRequests : UnderWay(r) => row[r] \in active'
    BY <2>1 DEF Refreshing
  <2>4. at'[q] = "revoking"
    BY <2>1
  <2> QED
    BY <2>1, <2>2, <2>3, <2>4
<1>8. ASSUME NEW q \in AuthRequests, LogoutRevoke(q) PROVE RotationInv'
  BY <1>8 DEF LogoutRevoke
<1>9. CASE UNCHANGED authVars
  BY <1>9 DEF authVars
<1> QED
  BY <1>1, <1>2, <1>3, <1>4, <1>5, <1>6, <1>7, <1>8, <1>9 DEF AuthNext

-----------------------------------------------------------------------------
(* The strengthened invariant holds of every behaviour.                    *)
THEOREM AuthInvariant == AuthSpec => []AuthInv
<1>1. AuthInv /\ [AuthNext]_authVars => AuthInv'
  BY NextAuthType, NextLogout, NextRotation DEF AuthInv
<1> QED
  BY InitAuthInv, <1>1, PTL DEF AuthSpec

(* Whatever refreshes, logins and clean-ups come after it, a logout that   *)
(* was answered without an error is final, but for the second in which the *)
(* token expires.                                                          *)
THEOREM LogoutIsFinal == AuthSpec => []LoggedOutStaysOut
<1>1. AuthInv => LoggedOutStaysOut
  <2> SUFFICES ASSUME AuthInv, NEW p \in out
               PROVE  /\ sid[p] \notin active
                      /\ Authenticates(p) => now = 2 * (born[p] + AccessLife) + 1
    BY DEF LoggedOutStaysOut
  <2>1. sid[p] \notin active /\ Past(p)
    BY DEF AuthInv, LogoutInv
  <2>2. now \in Nat /\ born[p] \in Nat
    BY DEF AuthInv, AuthTypeOK
  <2>3. ASSUME AccessAlive(p), now > 2 * (born[p] + AccessLife)
        PROVE  now = 2 * (born[p] + AccessLife) + 1
    <3> DEFINE half == now \div 2
               end == born[p] + AccessLife
    <3>1. half \in Nat /\ now <= 2 * half + 1 /\ end \in Nat
      BY <2>2
    <3>2. half <= end /\ now > 2 * end
      BY <2>3 DEF AccessAlive, Second
    <3> HIDE DEF half, end
    <3>3. now = 2 * end + 1
      BY <2>2, <3>1, <3>2
    <3> QED
      BY <3>3 DEF end
  <2> QED
    BY <2>1, <2>3 DEF Past, Authenticates
<1> QED
  BY AuthInvariant, <1>1, PTL

(* With any number of requests that share a jar, the refresh token in it   *)
(* is the one its session stores, unless two refreshes of one session      *)
(* overlapped, a logout ran into one, or an answer was lost.               *)
THEOREM RotationStrandsNobody == AuthSpec => []HeldTokenLives
<1>1. AuthInv => HeldTokenLives
  BY DEF AuthInv, RotationInv, HeldTokenLives
<1> QED
  BY AuthInvariant, <1>1, PTL

HIDE AuthAssumption

-----------------------------------------------------------------------------
(* GoogleLink                                                              *)

(* What a grant's tokens look like everywhere.                             *)
Both(g) == [access |-> g, refresh |-> g]

(* Unless something crossed, only the user's last grant is about: in the   *)
(* row, in the pending saves, in the tools' refreshes, in what the startup *)
(* has read and, unless its load is pending or failed, in the live client; *)
(* and nothing is pending while the user connects or disconnects.          *)
LinkInv ==
    /\ stored = IF wanted = 0 THEN NoRow ELSE Both(wanted)
    /\ \A i \in DOMAIN saves : wanted # 0 /\ saves[i] = Both(wanted)
    /\ \A t \in GoogleTools : sent[t] # 0 => sent[t] = wanted /\ loading = "none" /\ ~unloaded
    /\ loading = "read" => loaded = stored /\ wanted # 0
    /\ loading # "none" => ~unloaded
    /\ linking # "none" => saves = <<>> /\ loading = "none" /\ Refreshing0
    /\ linking = "deleted" => wanted = 0
    /\ linking \in {"none", "exchanging"} =>
         live = IF wanted = 0 \/ loading # "none" \/ unloaded THEN NoTokens ELSE Both(wanted)

GoogleInv == GoogleTypeOK /\ (DeployedGrant = 0 /\ ~crossed => LinkInv)

USE GoogleAssumption

-----------------------------------------------------------------------------
(* A save that is done leaves the others.                                  *)
LEMMA SaveTaken ==
    ASSUME NEW T, NEW s \in Seq(T), NEW i \in DOMAIN s
    PROVE  /\ RemoveAt(s, i) \in Seq(T) /\ Len(RemoveAt(s, i)) = Len(s) - 1
           /\ \A j \in DOMAIN RemoveAt(s, i) : \E k \in DOMAIN s : RemoveAt(s, i)[j] = s[k]
<1>1. i \in 1 .. Len(s) /\ Len(s) \in Nat /\ i \in Nat
  OBVIOUS
<1> DEFINE a == SubSeq(s, 1, i - 1)
           b == SubSeq(s, i + 1, Len(s))
<1>2. a \in Seq(T) /\ Len(a) = i - 1 /\ \A j \in 1 .. i - 1 : a[j] = s[j]
  BY <1>1
<1>3. b \in Seq(T) /\ Len(b) = Len(s) - i /\ \A j \in 1 .. Len(s) - i : b[j] = s[i + j]
  BY <1>1
<1> HIDE DEF a, b
<1>4. /\ a \o b \in Seq(T) /\ Len(a \o b) = Len(s) - 1
      /\ \A j \in 1 .. Len(s) - 1 : (a \o b)[j] = IF j < i THEN a[j] ELSE b[j - (i - 1)]
  BY <1>1, <1>2, <1>3
<1>5. \A j \in 1 .. Len(s) - 1 : \E k \in DOMAIN s : (a \o b)[j] = s[k]
  <2> SUFFICES ASSUME NEW j \in 1 .. Len(s) - 1 PROVE \E k \in DOMAIN s : (a \o b)[j] = s[k]
    OBVIOUS
  <2>1. CASE j < i
    <3>1. j \in DOMAIN s /\ (a \o b)[j] = s[j]
      BY <1>1, <1>2, <1>4, <2>1
    <3> QED
      BY <3>1
  <2>2. CASE ~(j < i)
    <3>1. j - (i - 1) \in 1 .. Len(s) - i /\ i + (j - (i - 1)) = j + 1
      BY <1>1, <2>2
    <3>2. b[j - (i - 1)] = s[j + 1]
      BY <1>3, <3>1
    <3>3. j + 1 \in DOMAIN s /\ (a \o b)[j] = b[j - (i - 1)]
      BY <1>1, <1>4, <2>2
    <3> QED
      BY <3>2, <3>3
  <2> QED
    BY <2>1, <2>2
<1>6. RemoveAt(s, i) = a \o b
  BY DEF RemoveAt, a, b
<1>7. DOMAIN (a \o b) = 1 .. Len(s) - 1
  BY <1>1, <1>4
<1> QED
  BY <1>4, <1>5, <1>6, <1>7

(* A save that is scheduled joins them.                                    *)
LEMMA SaveAdded ==
    ASSUME NEW T, NEW s \in Seq(T), NEW e \in T
    PROVE  /\ Append(s, e) \in Seq(T) /\ Len(Append(s, e)) = Len(s) + 1
           /\ \A j \in DOMAIN Append(s, e) :
                 Append(s, e)[j] = e \/ \E k \in DOMAIN s : Append(s, e)[j] = s[k]
<1>1. /\ Append(s, e) \in Seq(T) /\ Len(Append(s, e)) = Len(s) + 1
      /\ DOMAIN Append(s, e) = 1 .. Len(s) + 1 /\ DOMAIN s = 1 .. Len(s) /\ Len(s) \in Nat
  OBVIOUS
<1>2. Append(s, e)[Len(s) + 1] = e /\ \A j \in 1 .. Len(s) : Append(s, e)[j] = s[j]
  OBVIOUS
<1>3. \A j \in 1 .. Len(s) + 1 : j = Len(s) + 1 \/ j \in 1 .. Len(s)
  BY <1>1
<1> QED
  BY <1>1, <1>2, <1>3

(* Tokens reach the live client, and the environment and a save when there *)
(* is a refresh token.                                                     *)
LEMMA SetTokensKeeps ==
    ASSUME GoogleTypeOK, NEW t \in Tokens, SetTokens(t)
    PROVE  /\ live' = t /\ env' \in Grants
           /\ saves' \in Seq(Tokens) /\ Len(saves') <= MaxSaves
           /\ \A j \in DOMAIN saves' :
                 saves'[j] = t \/ \E k \in DOMAIN saves : saves'[j] = saves[k]
<1> USE DEF GoogleTypeOK
<1>1. CASE t.refresh = 0
  BY <1>1 DEF SetTokens, Notify
<1>2. CASE t.refresh # 0
  <2>1. /\ Len(saves) < MaxSaves /\ env' = t.refresh /\ saves' = Append(saves, t) /\ live' = t
    BY <1>2 DEF SetTokens, Notify
  <2>2. Len(saves) \in Nat /\ t.refresh \in Grants
    BY DEF Tokens
  <2> QED
    BY <2>1, <2>2, SaveAdded
<1> QED
  BY <1>1, <1>2

LEMMA NoneAreTokens ==
    /\ 0 \in Grants /\ NoTokens \in Tokens /\ \A g \in Grants : Both(g) \in Tokens
    /\ NoRow \notin Tokens
  BY DEF Grants, Tokens, NoTokens, NoRow, Both

LEMMA InitGoogle == GoogleInit => GoogleInv
<1> SUFFICES ASSUME GoogleInit PROVE GoogleInv
  OBVIOUS
<1>1. DeployedGrant \in Grants /\ [access |-> 0, refresh |-> DeployedGrant] \in Tokens
  BY NoneAreTokens DEF Grants, Tokens
<1>2. saves \in Seq(Tokens) /\ Len(saves) <= MaxSaves
  BY <1>1 DEF GoogleInit, Startup
<1>3. GoogleTypeOK
  <2>1. oauth \in 0 .. MaxStates /\ linking \in LinkPC /\ grants \in Grants
    BY <1>1 DEF GoogleInit, LinkPC
  <2>2. stored \in Tokens \cup {NoRow} /\ live \in Tokens /\ env \in Grants
    BY <1>1 DEF GoogleInit, Startup
  <2>3. /\ loading \in LoadPC /\ loaded \in Tokens \cup {NoRow} /\ loading # "read"
        /\ sent \in [GoogleTools -> Grants]
        /\ wanted \in Grants /\ unloaded \in BOOLEAN /\ crossed \in BOOLEAN
    BY NoneAreTokens DEF GoogleInit, Startup, LoadPC
  <2> QED
    BY <1>2, <2>1, <2>2, <2>3 DEF GoogleTypeOK
<1>4. DeployedGrant = 0 => LinkInv
  BY DEF GoogleInit, Startup, LinkInv, NoTokens
<1> QED
  BY <1>3, <1>4 DEF GoogleInv

(* A step keeps the types.                                                 *)
LEMMA NextGoogleType == ASSUME GoogleTypeOK, [GoogleNext]_googleVars PROVE GoogleTypeOK'
<1> USE DEF GoogleTypeOK, LinkPC, LoadPC, startup, wishes
<1>1. CASE GoogleRestart
  <2>1. DeployedGrant \in Grants /\ [access |-> 0, refresh |-> DeployedGrant] \in Tokens
    BY NoneAreTokens DEF Grants, Tokens
  <2>2. saves' \in Seq(Tokens) /\ Len(saves') <= MaxSaves
    BY <1>1, <2>1 DEF GoogleRestart
  <2>3. /\ oauth' \in 0 .. MaxStates /\ linking' \in LinkPC /\ grants' \in Grants
        /\ stored' \in Tokens \cup {NoRow} /\ live' \in Tokens /\ env' \in Grants
    BY <1>1, <2>1 DEF GoogleRestart
  <2>4. /\ loading' \in LoadPC /\ loaded' \in Tokens \cup {NoRow} /\ loading' # "read"
        /\ sent' \in [GoogleTools -> Grants]
        /\ wanted' \in Grants /\ unloaded' \in BOOLEAN /\ crossed' \in BOOLEAN
    BY <1>1, NoneAreTokens DEF GoogleRestart
  <2> QED
    BY <2>2, <2>3, <2>4
<1>2. CASE LoadRead
  BY <1>2 DEF LoadRead
<1>11. CASE LoadApply
  <2>1. CASE UNCHANGED <<live, env, saves>>
    BY <1>11, <2>1 DEF LoadApply
  <2>2. ASSUME stored # NoRow, NEW ts \in {loaded, stored}, SetTokens(ts), UNCHANGED unloaded
        PROVE  GoogleTypeOK'
    <3>1. CASE ts \in Tokens
      <4>1. /\ live' \in Tokens /\ env' \in Grants
            /\ saves' \in Seq(Tokens) /\ Len(saves') <= MaxSaves
        BY <2>2, <3>1, SetTokensKeeps
      <4> QED
        BY <1>11, <2>2, <4>1 DEF LoadApply
    <3>2. loaded \in Tokens
      BY <1>11 DEF LoadApply
    <3> QED
      BY <2>2, <3>1, <3>2
  <2> QED
    BY <1>11, <2>1, <2>2 DEF LoadApply
<1>3. CASE Save
  <2>1. PICK i \in DOMAIN saves : /\ stored' \in IF stored = NoRow THEN {NoRow} ELSE {stored, saves[i]}
                                  /\ saves' = RemoveAt(saves, i)
    BY <1>3 DEF Save
  <2>2. saves' \in Seq(Tokens) /\ Len(saves') <= MaxSaves /\ saves[i] \in Tokens
    BY <2>1, SaveTaken
  <2>3. stored' \in Tokens \cup {NoRow}
    BY <2>1, <2>2
  <2> QED
    BY <1>3, <2>2, <2>3 DEF Save
<1>4. CASE Authorize \/ ForgetState \/ Callback \/ ExchangeFails
  <2>1. oauth' \in 0 .. MaxStates
    BY <1>4 DEF Authorize, ForgetState, Callback, ExchangeFails
  <2> QED
    BY <1>4, <2>1 DEF Authorize, ForgetState, Callback, ExchangeFails, Quiet
<1>5. CASE StoreGrant
  <2>1. grants + 1 \in Grants
    BY <1>5 DEF StoreGrant, Grants
  <2>2. stored' \in Tokens
    BY <1>5, <2>1 DEF StoreGrant, Tokens
  <2> QED
    BY <1>5, <2>1, <2>2 DEF StoreGrant
<1>6. CASE PublishGrant
  <2>1. Both(wanted) \in Tokens /\ SetTokens(Both(wanted))
    BY <1>6, NoneAreTokens DEF PublishGrant, Both
  <2>2. /\ live' \in Tokens /\ env' \in Grants
        /\ saves' \in Seq(Tokens) /\ Len(saves') <= MaxSaves
    BY <2>1, SetTokensKeeps
  <2> QED
    BY <1>6, <2>2 DEF PublishGrant
<1>7. CASE DeleteRow \/ ClearTokens
  BY <1>7, NoneAreTokens DEF DeleteRow, ClearTokens
<1>8. ASSUME NEW t \in GoogleTools, RefreshSend(t) \/ RefreshFails(t) PROVE GoogleTypeOK'
  <2>1. live.refresh \in Grants
    BY DEF Tokens
  <2> QED
    BY <1>8, <2>1, NoneAreTokens DEF RefreshSend, RefreshFails
<1>9. ASSUME NEW t \in GoogleTools, RefreshDone(t) PROVE GoogleTypeOK'
  <2>1. PICK r \in {live.refresh, sent[t]} : SetTokens([access |-> sent[t], refresh |-> r])
    BY <1>9 DEF RefreshDone
  <2>2. [access |-> sent[t], refresh |-> r] \in Tokens
    BY DEF Tokens
  <2>3. /\ live' \in Tokens /\ env' \in Grants
        /\ saves' \in Seq(Tokens) /\ Len(saves') <= MaxSaves
    BY <2>1, <2>2, SetTokensKeeps
  <2> QED
    BY <1>9, <2>3, NoneAreTokens DEF RefreshDone
<1>10. CASE UNCHANGED googleVars
  BY <1>10 DEF googleVars
<1> QED
  BY <1>1, <1>2, <1>3, <1>4, <1>5, <1>6, <1>7, <1>8, <1>9, <1>10, <1>11 DEF GoogleNext

(* Every step that crosses nothing leaves only the last grant about.       *)
LEMMA NextLink ==
    ASSUME GoogleTypeOK, DeployedGrant = 0, ~crossed => LinkInv,
           [GoogleNext]_googleVars, ~crossed'
    PROVE  LinkInv'
<1>0. ~crossed
  BY DEF GoogleNext, GoogleRestart, LoadRead, LoadApply, Save, Authorize, ForgetState, Callback,
         ExchangeFails, StoreGrant, PublishGrant, DeleteRow, ClearTokens, RefreshSend,
         RefreshFails, RefreshDone, googleVars, wishes
<1> USE <1>0 DEF LinkInv, Refreshing0, startup, wishes
<1>1. CASE GoogleRestart
  BY <1>1 DEF GoogleRestart, NoTokens
<1>2. CASE LoadRead
  <2>1. linking = "none" /\ UNCHANGED <<linking, stored, live, saves, sent, wanted>>
    BY <1>2 DEF LoadRead
  <2>2. \A t \in GoogleTools : sent[t] = 0
    BY <1>2 DEF LoadRead
  <2>3. stored # NoRow <=> wanted # 0
    BY NoneAreTokens DEF GoogleTypeOK
  <2>4. live = NoTokens /\ ~unloaded
    BY <1>2, <2>1 DEF LoadRead
  <2>5. CASE stored # NoRow /\ loading' = "read" /\ loaded' = stored /\ UNCHANGED unloaded
    BY <2>1, <2>2, <2>3, <2>4, <2>5
  <2>6. CASE loading' = "none" /\ unloaded' = (stored # NoRow)
    BY <2>1, <2>2, <2>3, <2>4, <2>6
  <2> QED
    BY <1>2, <2>5, <2>6 DEF LoadRead
<1>14. CASE LoadApply
  <2>1. /\ wanted # 0 /\ stored = Both(wanted) /\ loaded = stored /\ linking = "none"
        /\ \A t \in GoogleTools : sent[t] = 0
        /\ loading' = "none" /\ UNCHANGED <<linking, stored, sent, wanted>>
    BY <1>14 DEF LoadApply
  <2>2. stored # NoRow /\ Both(wanted) \in Tokens
    BY <2>1, NoneAreTokens DEF GoogleTypeOK
  <2>3. CASE unloaded' = (stored # NoRow) /\ UNCHANGED <<live, env, saves>>
    <3>1. live = NoTokens
      BY <1>14, <2>1 DEF LoadApply
    <3> QED
      BY <2>1, <2>2, <2>3, <3>1
  <2>4. CASE SetTokens(Both(wanted)) /\ UNCHANGED unloaded
    <3>1. /\ live' = Both(wanted)
          /\ \A j \in DOMAIN saves' :
                saves'[j] = Both(wanted) \/ \E k \in DOMAIN saves : saves'[j] = saves[k]
      BY <2>2, <2>4, SetTokensKeeps
    <3>2. ~unloaded
      BY <1>14 DEF LoadApply
    <3> QED
      BY <2>1, <2>4, <3>1, <3>2
  <2> QED
    BY <1>14, <2>1, <2>3, <2>4 DEF LoadApply
<1>3. CASE Save
  <2>1. PICK i \in DOMAIN saves : /\ stored' \in IF stored = NoRow THEN {NoRow} ELSE {stored, saves[i]}
                                  /\ saves' = RemoveAt(saves, i)
    BY <1>3 DEF Save
  <2>2. \A j \in DOMAIN saves' : \E k \in DOMAIN saves : saves'[j] = saves[k]
    BY <2>1, SaveTaken DEF GoogleTypeOK
  <2>3. saves[i] = Both(wanted) /\ linking = "none" /\ wanted # 0
    BY <2>1
  <2>4. stored' = stored
    BY <2>1, <2>3
  <2> QED
    BY <1>3, <2>2, <2>3, <2>4 DEF Save
<1>4. CASE Authorize \/ ForgetState \/ ExchangeFails
  BY <1>4 DEF Authorize, ForgetState, ExchangeFails
<1>5. CASE Callback
  BY <1>5 DEF Callback, Quiet
<1>6. CASE StoreGrant
  <2>1. grants + 1 # 0
    BY DEF GoogleTypeOK, Grants
  <2> QED
    BY <1>6, <2>1 DEF StoreGrant, Both
<1>7. CASE PublishGrant
  <2>1. SetTokens(Both(wanted)) /\ Both(wanted) \in Tokens
    BY <1>7, NoneAreTokens DEF PublishGrant, Both, GoogleTypeOK
  <2>2. /\ live' = Both(wanted)
        /\ \A j \in DOMAIN saves' :
              saves'[j] = Both(wanted) \/ \E k \in DOMAIN saves : saves'[j] = saves[k]
    BY <2>1, SetTokensKeeps
  <2>3. CASE wanted # 0
    BY <1>7, <2>2, <2>3 DEF PublishGrant
  <2>4. CASE wanted = 0
    <3>1. saves' = saves
      BY <2>1, <2>4 DEF SetTokens, Notify, Both
    <3> QED
      BY <1>7, <2>2, <2>4, <3>1 DEF PublishGrant, Both, NoTokens
  <2> QED
    BY <2>3, <2>4
<1>8. CASE DeleteRow
  <2>1. Quiet /\ wanted' = 0 /\ stored' = NoRow /\ linking' = "deleted"
        /\ UNCHANGED <<saves, loading, loaded, unloaded, sent>>
    BY <1>8 DEF DeleteRow
  <2>2. saves' = <<>> /\ loading' = "none" /\ \A t \in GoogleTools : sent'[t] = 0
    BY <2>1 DEF Quiet
  <2>3. DOMAIN saves' = {}
    BY <2>2
  <2> QED
    BY <2>1, <2>2, <2>3
<1>9. CASE ClearTokens
  BY <1>9 DEF ClearTokens
<1>10. ASSUME NEW t \in GoogleTools, RefreshSend(t) PROVE LinkInv'
  <2>1. linking = "none" /\ loading = "none" /\ live.refresh # 0
        /\ sent' = [sent EXCEPT ![t] = live.refresh]
    BY <1>10 DEF RefreshSend
  <2>2. live = Both(wanted) /\ live.refresh = wanted /\ ~unloaded
    BY <2>1 DEF Both, NoTokens
  <2>3. \A u \in GoogleTools : sent'[u] # 0 => sent'[u] = wanted /\ loading = "none"
    BY <2>1, <2>2 DEF GoogleTypeOK
  <2> QED
    BY <1>10, <2>1, <2>2, <2>3 DEF RefreshSend
<1>11. ASSUME NEW t \in GoogleTools, RefreshFails(t) PROVE LinkInv'
  BY <1>11 DEF RefreshFails, GoogleTypeOK
<1>12. ASSUME NEW t \in GoogleTools, RefreshDone(t) PROVE LinkInv'
  <2>1. PICK r \in {live.refresh, sent[t]} : SetTokens([access |-> sent[t], refresh |-> r])
    BY <1>12 DEF RefreshDone
  <2>2. sent[t] = wanted /\ wanted # 0 /\ linking = "none" /\ loading = "none" /\ ~unloaded
    BY <1>12 DEF RefreshDone
  <2>3. live = Both(wanted)
    BY <2>2
  <2>4. r = wanted
    BY <2>1, <2>2, <2>3 DEF Both
  <2>5. SetTokens(Both(wanted)) /\ Both(wanted) \in Tokens
    BY <2>1, <2>2, <2>4, NoneAreTokens DEF Both, GoogleTypeOK
  <2>6. /\ live' = Both(wanted)
        /\ \A j \in DOMAIN saves' :
              saves'[j] = Both(wanted) \/ \E k \in DOMAIN saves : saves'[j] = saves[k]
    BY <2>5, SetTokensKeeps
  <2>7. /\ UNCHANGED <<linking, stored, loading, loaded, wanted, unloaded>>
        /\ sent' = [sent EXCEPT ![t] = 0]
    BY <1>12 DEF RefreshDone
  <2>8. \A u \in GoogleTools : sent'[u] # 0 => sent'[u] = wanted /\ loading = "none"
    BY <2>7 DEF GoogleTypeOK
  <2> QED
    BY <2>2, <2>6, <2>7, <2>8
<1>13. CASE UNCHANGED googleVars
  BY <1>13 DEF googleVars
<1> QED
  BY <1>1, <1>2, <1>3, <1>4, <1>5, <1>6, <1>7, <1>8, <1>9, <1>10, <1>11, <1>12, <1>13, <1>14
     DEF GoogleNext

-----------------------------------------------------------------------------
(* In every reachable state tokens have their types, and unless the user   *)
(* crossed something pending, the last grant is the only one about.        *)
THEOREM GoogleInvariant == GoogleSpec => []GoogleInv
<1>1. GoogleInv /\ [GoogleNext]_googleVars => GoogleInv'
  BY NextGoogleType, NextLink DEF GoogleInv
<1> QED
  BY InitGoogle, <1>1, PTL DEF GoogleSpec

(* What the user did last holds once nothing is pending, whatever number of*)
(* tools refresh, saves commit out of order or fail and restarts come      *)
(* between; after a startup load that failed the row still has it, and the *)
(* client nothing.                                                         *)
THEOREM LastWordIsFinal == GoogleSpec => []LastWordHolds
<1>1. GoogleInv => LastWordHolds
  <2> SUFFICES ASSUME GoogleInv, DeployedGrant = 0, Quiet, ~crossed
               PROVE  IF wanted = 0
                      THEN stored = NoRow /\ live = NoTokens
                      ELSE /\ stored.refresh = wanted
                           /\ live = IF unloaded THEN NoTokens
                                     ELSE [access |-> wanted, refresh |-> wanted]
    BY DEF LastWordHolds
  <2>1. LinkInv /\ linking = "none" /\ loading = "none"
    BY DEF GoogleInv, Quiet
  <2> QED
    BY <2>1 DEF LinkInv, Both
<1> QED
  BY GoogleInvariant, <1>1, PTL

HIDE GoogleAssumption

-----------------------------------------------------------------------------
(* SettingsStore                                                           *)

(* A request has something to do exactly while it works; when it has found *)
(* the row it writes columns of its own, and otherwise all of them.  Who   *)
(* has flushed has the row to itself, and knows whether there is one.      *)
Decided(r) == phase[r] \in {"selected", "flushed"}
RequestInv(r) ==
    /\ IF r \in Working THEN asks[r] \in Asks ELSE asks[r] = NoAsk
    /\ Decided(r) => IF found[r] THEN exists /\ dirty[r] \subseteq Touched(r)
                                 ELSE dirty[r] = Columns
    /\ phase[r] = "flushed" => (exists => found[r])
RowInv ==
    /\ \A r \in SettingsRequests : RequestInv(r)
    /\ \A r, q \in SettingsRequests : phase[r] = "flushed" /\ phase[q] = "flushed" => r = q
    /\ ~exists => \A k \in Columns : last[k] = Unset

(* What the request read of the column is still so: the value it leaves out*)
(* of its flush, the other overrides, and the url it will reload.          *)
Knows(r, k) ==
    /\ Decided(r) /\ found[r] /\ k \in Touched(r) \ dirty[r] => column[k] = ValueFor(r, k)
    /\ r \in Working /\ k \in Scopes => snapshot[r][k] = Shown(k)
    /\ r \in Reloading => snapshot[r][k] = Shown(k)

(* Nobody shares a column that is not contested, so that what the one who  *)
(* is at it knows stays true, and what it commits is what it asked for.    *)
ColumnInv(k) ==
    k \notin contested =>
      /\ Shown(k) = last[k]
      /\ \A r, q \in At(k) : r = q
      /\ \A r \in At(k) : Knows(r, k)
ColumnsInv == \A k \in Columns : ColumnInv(k)
PlainInv == \A k \in Plain : k \notin resent => Shown(k) = last[k]

(* The router is rebuilt from the url that is shown.                       *)
RouterInv == "url" \notin contested /\ Reloading = {} /\ ~behind => router = Shown("url")

SettingsInv == SettingsTypeOK /\ RowInv /\ ColumnsInv /\ PlainInv /\ RouterInv

USE SettingsAssumption

-----------------------------------------------------------------------------
(* A request sets one override, or plain settings and the prompt.          *)
LEMMA AskShape ==
    ASSUME NEW a \in Asks
    PROVE  /\ \A k \in DOMAIN a : a[k] \in Values
           /\ ColumnsOf(DOMAIN a) \subseteq Columns
           /\ DOMAIN a \cap Columns \subseteq ColumnsOf(DOMAIN a)
           /\ \/ DOMAIN a \subseteq Scopes /\ ColumnsOf(DOMAIN a) = Scopes
              \/ DOMAIN a \cap Scopes = {} /\ ColumnsOf(DOMAIN a) = DOMAIN a \cap Plain
<1>1. CASE \E s \in Scopes : a \in [{s} -> SettingValues \ {Unset}]
  <2>1. PICK s \in Scopes : a \in [{s} -> SettingValues \ {Unset}]
    BY <1>1
  <2>2. DOMAIN a = {s} /\ a[s] \in Values
    BY <2>1 DEF Values
  <2>3. ColumnsOf(DOMAIN a) = Scopes
    BY <2>2 DEF ColumnsOf
  <2> QED
    BY <2>2, <2>3 DEF Columns
<1>2. CASE \E ks \in (SUBSET (Plain \cup {"prompt"})) \ {{}} : a \in [ks -> SettingValues]
  <2>1. PICK ks \in (SUBSET (Plain \cup {"prompt"})) \ {{}} : a \in [ks -> SettingValues]
    BY <1>2
  <2>2. DOMAIN a = ks /\ \A k \in ks : a[k] \in Values
    BY <2>1 DEF Values
  <2>3. ks \cap Scopes = {}
    BY DEF Plain
  <2>4. ColumnsOf(ks) = ks \cap Columns /\ ks \cap Columns = ks \cap Plain
    BY <2>3 DEF ColumnsOf, Columns
  <2> QED
    BY <2>2, <2>3, <2>4 DEF Columns
<1>3. \/ a \in UNION {[{s} -> SettingValues \ {Unset}] : s \in Scopes}
      \/ a \in UNION {[ks -> SettingValues] : ks \in (SUBSET (Plain \cup {"prompt"})) \ {{}}}
  BY Zenon DEF Asks
<1>4. CASE a \in UNION {[{s} -> SettingValues \ {Unset}] : s \in Scopes}
  BY <1>1, <1>4, Zenon
<1>5. CASE a \in UNION {[ks -> SettingValues] : ks \in (SUBSET (Plain \cup {"prompt"})) \ {{}}}
  BY <1>2, <1>5, Zenon
<1> QED
  BY <1>3, <1>4, <1>5

(* Without a row, without requests or before the first of them there is    *)
(* nothing to disagree.                                                    *)
LEMMA InitSettingsInv == SettingsInit => SettingsInv
<1> SUFFICES ASSUME SettingsInit PROVE SettingsInv
  OBVIOUS
<1> USE DEF SettingsInit
<1>1. Working = {} /\ Reloading = {} /\ \A k : At(k) = {}
  BY DEF Working, Reloading, At
<1>2. column \in [Columns -> Values] /\ Blank \in [Columns -> Values]
  BY DEF Values, RowDefault, Blank
<1>3. SettingsTypeOK
  BY <1>2 DEF SettingsTypeOK, SettingsPC, Values
<1>4. RowInv
  BY <1>1 DEF RowInv, RequestInv, Decided
<1>5. \A k \in Columns : Shown(k) = last[k]
  BY DEF Shown
<1>6. ColumnsInv /\ PlainInv /\ RouterInv
  BY <1>1, <1>5 DEF ColumnsInv, ColumnInv, PlainInv, RouterInv, Columns
<1> QED
  BY <1>3, <1>4, <1>6 DEF SettingsInv

(* Ending a request keeps the types of what it knew.                       *)
LEMMA EndKeeps ==
    ASSUME SettingsTypeOK, NEW r \in SettingsRequests,
           NEW end \in {"committed", "ended"}, NEW read \in [Columns -> Values],
           EndAs(r, end, read)
    PROVE  /\ phase' \in [SettingsRequests -> SettingsPC]
           /\ asks' \in [SettingsRequests -> Asks \cup {NoAsk}]
           /\ snapshot' \in [SettingsRequests -> [Columns -> Values]]
           /\ found' \in [SettingsRequests -> BOOLEAN]
           /\ dirty' \in [SettingsRequests -> SUBSET Columns]
           /\ phase'[r] = end /\ asks'[r] = NoAsk /\ snapshot'[r] = read
  BY DEF EndAs, SettingsTypeOK, SettingsPC

(* What a request would write of a column has the column's type.           *)
LEMMA ValueTyped ==
    ASSUME SettingsTypeOK, NEW r \in SettingsRequests, asks[r] \in Asks, NEW k \in Columns
    PROVE  ValueFor(r, k) \in Values /\ Written(r)[k] \in Values
<1>1. \A j \in DOMAIN asks[r] : asks[r][j] \in Values
  BY AskShape
<1>2. ValueFor(r, k) \in Values
  BY <1>1 DEF ValueFor, SettingsTypeOK, RowDefault, Values
<1> QED
  BY <1>2 DEF Written, SettingsTypeOK

LEMMA BlankTyped == Blank \in [Columns -> Values]
  BY DEF Blank, Values

-----------------------------------------------------------------------------
(* A step keeps the types.                                                 *)
LEMMA NextSettingsType ==
    ASSUME SettingsTypeOK, RowInv, [SettingsNext]_settingsVars PROVE SettingsTypeOK'
<1> USE BlankTyped DEF SettingsTypeOK
<1>1. CASE SettingsRestart
  BY <1>1 DEF SettingsRestart, SettingsPC, Values
<1>2. ASSUME NEW r \in SettingsRequests, Ask(r) PROVE SettingsTypeOK'
  <2>1. PICK a \in Asks :
          /\ asks' = [asks EXCEPT ![r] = a]
          /\ prompt' = IF "prompt" \in DOMAIN a THEN a["prompt"] ELSE prompt
          /\ contested' = contested \cup {k \in ColumnsOf(DOMAIN a) : At(k) # {}}
          /\ snapshot' = [snapshot EXCEPT ![r] =
                [k \in Columns |-> IF k \in Scopes /\ DOMAIN a \subseteq Scopes
                                   THEN Shown(k) ELSE Unset]]
    BY <1>2 DEF Ask
  <2>2. prompt' \in Values /\ contested' \in SUBSET Columns
    BY <2>1, AskShape
  <2>3. [k \in Columns |-> IF k \in Scopes /\ DOMAIN a \subseteq Scopes
                           THEN Shown(k) ELSE Unset] \in [Columns -> Values]
    BY DEF Shown, Values
  <2>4. /\ asks' \in [SettingsRequests -> Asks \cup {NoAsk}]
        /\ snapshot' \in [SettingsRequests -> [Columns -> Values]]
    BY <2>1, <2>3
  <2>5. phase' \in [SettingsRequests -> SettingsPC]
    BY <1>2 DEF Ask, SettingsPC
  <2> QED
    BY <1>2, <2>2, <2>4, <2>5 DEF Ask
<1>3. ASSUME NEW r \in SettingsRequests, PromptOnly(r) PROVE SettingsTypeOK'
  BY <1>3, EndKeeps DEF PromptOnly
<1>4. ASSUME NEW r \in SettingsRequests, SelectRow(r) PROVE SettingsTypeOK'
  <2>1. dirty' \in [SettingsRequests -> SUBSET Columns]
    BY <1>4 DEF SelectRow, ColumnsOf, Columns
  <2> QED
    BY <1>4, <2>1 DEF SelectRow, SettingsPC
<1>5. ASSUME NEW r \in SettingsRequests, FlushRow(r) PROVE SettingsTypeOK'
  BY <1>5 DEF FlushRow, SettingsPC
<1>6. ASSUME NEW r \in SettingsRequests, UpdateFails(r) PROVE SettingsTypeOK'
  BY <1>6, EndKeeps DEF UpdateFails
<1>7. ASSUME NEW r \in SettingsRequests, CommitRow(r) PROVE SettingsTypeOK'
  <2>1. asks[r] \in Asks
    BY <1>7 DEF CommitRow, RowInv, RequestInv, Working
  <2>2. Written(r) \in [Columns -> Values]
    <3>1. \A k \in Columns : Written(r)[k] \in Values
      BY <2>1, ValueTyped
    <3> QED
      BY <3>1 DEF Written
  <2>3. last' \in [Columns -> Values]
    <3>1. \A j \in DOMAIN asks[r] : asks[r][j] \in Values
      BY <2>1, AskShape
    <3> QED
      BY <1>7, <3>1 DEF CommitRow, RowDefault, Values
  <2>4. resent' \in SUBSET Columns
    BY <1>7, <2>1, AskShape DEF CommitRow, Touched
  <2>5. [Blank EXCEPT !["url"] = Written(r)["url"]] \in [Columns -> Values]
    BY <2>2 DEF Columns, Plain
  <2>6. \/ EndAs(r, "committed", [Blank EXCEPT !["url"] = Written(r)["url"]])
        \/ EndAs(r, "ended", Blank)
    BY <1>7 DEF CommitRow
  <2>7. /\ phase' \in [SettingsRequests -> SettingsPC]
        /\ asks' \in [SettingsRequests -> Asks \cup {NoAsk}]
        /\ snapshot' \in [SettingsRequests -> [Columns -> Values]]
        /\ found' \in [SettingsRequests -> BOOLEAN]
        /\ dirty' \in [SettingsRequests -> SUBSET Columns]
    BY <2>5, <2>6, EndKeeps
  <2> QED
    BY <1>7, <2>2, <2>3, <2>4, <2>7 DEF CommitRow
<1>8. ASSUME NEW r \in SettingsRequests, ReloadRouter(r) PROVE SettingsTypeOK'
  <2>1. "url" \in Columns
    BY DEF Columns, Plain
  <2>2. snapshot[r]["url"] \in Values
    BY <2>1
  <2>3. router' \in Values /\ behind' \in BOOLEAN
    BY <1>8, <2>2 DEF ReloadRouter
  <2> QED
    BY <1>8, <2>3, EndKeeps DEF ReloadRouter
<1>9. CASE UNCHANGED settingsVars
  BY <1>9 DEF settingsVars
<1> QED
  BY <1>1, <1>2, <1>3, <1>4, <1>5, <1>6, <1>7, <1>8, <1>9 DEF SettingsNext

-----------------------------------------------------------------------------
(* A request is as it was, or has nothing to do with the row any more.     *)
Same(r) ==
    /\ phase'[r] = phase[r] /\ asks'[r] = asks[r] /\ snapshot'[r] = snapshot[r]
    /\ found'[r] = found[r] /\ dirty'[r] = dirty[r]
Gone(r) == phase'[r] \in {"idle", "ended"} /\ asks'[r] = NoAsk

LEMMA SameRequest ==
    ASSUME NEW r \in SettingsRequests, Same(r)
    PROVE  /\ Touched(r)' = Touched(r) /\ \A k : ValueFor(r, k)' = ValueFor(r, k)
           /\ Decided(r)' = Decided(r)
           /\ r \in Working' <=> r \in Working
           /\ r \in Reloading' <=> r \in Reloading
           /\ \A k : r \in At(k)' <=> r \in At(k)
<1>1. Touched(r)' = Touched(r)
  BY DEF Same, Touched, ColumnsOf
<1>2. r \in Working' <=> r \in Working
  BY DEF Same, Working
<1>3. r \in Reloading' <=> r \in Reloading
  BY DEF Same, Reloading
<1>4. Decided(r)' = Decided(r)
  BY DEF Same, Decided
<1> QED
  BY <1>1, <1>2, <1>3, <1>4 DEF Same, ValueFor, At

LEMMA GoneRequest ==
    ASSUME NEW r \in SettingsRequests, Gone(r)
    PROVE  /\ r \notin Working' /\ r \notin Reloading' /\ ~Decided(r)' /\ RequestInv(r)'
           /\ \A k : r \notin At(k)'
<1>1. r \notin Working' /\ r \notin Reloading' /\ ~Decided(r)'
  BY DEF Gone, Working, Reloading, Decided
<1> QED
  BY <1>1 DEF At, RequestInv, Gone

(* A step that leaves the row alone, and each request as it was or gone,   *)
(* keeps them in order.                                                    *)
LEMMA RowUntouched ==
    ASSUME SettingsInv, UNCHANGED <<exists, column, last, resent, contested>>,
           \A r \in SettingsRequests : Same(r) \/ Gone(r)
    PROVE  RowInv' /\ ColumnsInv' /\ PlainInv'
<1>1. \A k : Shown(k)' = Shown(k)
  BY DEF Shown
<1>2. ASSUME NEW r \in SettingsRequests PROVE RequestInv(r)'
  <2>1. CASE Same(r)
    BY <2>1, SameRequest DEF SettingsInv, RowInv, RequestInv, Same
  <2> QED
    BY <2>1, GoneRequest
<1>3. \A r, q \in SettingsRequests : phase'[r] = "flushed" /\ phase'[q] = "flushed" => r = q
  BY DEF SettingsInv, RowInv, Same, Gone
<1>4. RowInv'
  BY <1>2, <1>3 DEF SettingsInv, RowInv
<1>5. ASSUME NEW k \in Columns, k \notin contested' PROVE ColumnInv(k)'
  <2>1. ASSUME NEW r \in At(k)' PROVE r \in At(k) /\ Knows(r, k)'
    <3>1. r \in SettingsRequests
      BY DEF At, Working, Reloading
    <3>2. Same(r)
      BY <2>1, <3>1, GoneRequest
    <3>3. r \in At(k)
      BY <2>1, <3>1, <3>2, SameRequest
    <3>4. Knows(r, k)
      BY <1>5, <3>3 DEF SettingsInv, ColumnsInv, ColumnInv
    <3> QED
      BY <1>1, <3>1, <3>2, <3>3, <3>4, SameRequest DEF Knows, Same
  <2>2. ColumnInv(k)
    BY DEF SettingsInv, ColumnsInv
  <2> QED
    BY <1>1, <1>5, <2>1, <2>2 DEF ColumnInv
<1>6. PlainInv'
  BY <1>1 DEF SettingsInv, PlainInv
<1> QED
  BY <1>4, <1>5, <1>6 DEF ColumnsInv, ColumnInv

(* Who ends without a reload to come is gone, and leaves the others.       *)
LEMMA EndLeaves ==
    ASSUME SettingsInv, NEW r \in SettingsRequests, EndAs(r, "ended", Blank)
    PROVE  /\ \A q \in SettingsRequests : Same(q) \/ Gone(q)
           /\ r \notin Reloading => Reloading' = Reloading
<1>1. Gone(r)
  BY DEF EndAs, Gone, SettingsInv, SettingsTypeOK
<1>2. \A q \in SettingsRequests \ {r} : Same(q)
  BY DEF EndAs, Same, SettingsInv, SettingsTypeOK
<1>3. r \notin Reloading => Reloading' = Reloading
  BY <1>1, <1>2 DEF Gone, Same, Reloading
<1> QED
  BY <1>1, <1>2, <1>3

-----------------------------------------------------------------------------
(* A new request leaves the others as they are; it reads the overrides as  *)
(* they are, and contests what somebody else is at.                        *)
LEMMA AskKeeps ==
    ASSUME SettingsInv, NEW r \in SettingsRequests, Ask(r)
    PROVE  RowInv' /\ ColumnsInv' /\ PlainInv'
<1> USE DEF SettingsInv, SettingsTypeOK
<1>1. PICK a \in Asks :
        /\ asks' = [asks EXCEPT ![r] = a]
        /\ contested' = contested \cup {k \in ColumnsOf(DOMAIN a) : At(k) # {}}
        /\ snapshot' = [snapshot EXCEPT ![r] =
              [k \in Columns |-> IF k \in Scopes /\ DOMAIN a \subseteq Scopes
                                 THEN Shown(k) ELSE Unset]]
  BY DEF Ask
<1>2. UNCHANGED <<found, dirty, exists, column, last, resent>>
  BY DEF Ask
<1>3. phase'[r] = "begun" /\ asks'[r] = a
  BY <1>1 DEF Ask
<1>4. \A q \in SettingsRequests \ {r} : Same(q)
  BY <1>1, <1>2 DEF Ask, Same
<1>5. \A k : Shown(k)' = Shown(k)
  BY <1>2 DEF Shown
<1>6. r \in Working' /\ r \notin Reloading' /\ ~Decided(r)' /\ Touched(r)' = ColumnsOf(DOMAIN a)
  BY <1>3 DEF Working, Reloading, Decided, Touched, ColumnsOf
<1>7. RequestInv(r)'
  BY <1>3, <1>6 DEF RequestInv
<1>8. ASSUME NEW q \in SettingsRequests \ {r} PROVE RequestInv(q)'
  BY <1>2, <1>4, <1>8, SameRequest DEF RowInv, RequestInv, Same
<1>9. RowInv'
  <2>1. \A q, t \in SettingsRequests : phase'[q] = "flushed" /\ phase'[t] = "flushed" => q = t
    BY <1>3, <1>4 DEF RowInv, Same
  <2> QED
    BY <1>2, <1>7, <1>8, <2>1 DEF RowInv
<1>10. ASSUME NEW k \in Columns, k \notin contested' PROVE ColumnInv(k)'
  <2>1. k \notin contested /\ (k \in ColumnsOf(DOMAIN a) => At(k) = {})
    BY <1>1, <1>10
  <2>2. ColumnInv(k)
    BY DEF ColumnsInv
  <2>3. ASSUME NEW q \in At(k)' PROVE q \in SettingsRequests
    BY DEF At, Working, Reloading
  <2>4. ASSUME NEW q \in At(k)', q # r PROVE q \in At(k) /\ Knows(q, k)'
    <3>1. q \in SettingsRequests /\ Same(q)
      BY <1>4, <2>3, <2>4
    <3>2. q \in At(k)
      BY <3>1, SameRequest
    <3>3. Knows(q, k)
      BY <2>1, <2>2, <3>2 DEF ColumnInv
    <3> QED
      BY <1>2, <1>5, <3>1, <3>2, <3>3, SameRequest DEF Knows, Same
  <2>5. r \in At(k)' => k \in ColumnsOf(DOMAIN a)
    BY <1>6 DEF At
  <2>6. \A q, t \in At(k)' : q = t
    BY <2>1, <2>2, <2>4, <2>5 DEF ColumnInv
  <2>7. ASSUME r \in At(k)' PROVE Knows(r, k)'
    <3>1. k \in ColumnsOf(DOMAIN a)
      BY <2>5, <2>7
    <3>2. k \in Scopes => DOMAIN a \subseteq Scopes
      BY <3>1, AskShape
    <3>3. k \in Scopes => snapshot'[r][k] = Shown(k)
      BY <1>1, <3>2
    <3> QED
      BY <1>5, <1>6, <3>3 DEF Knows
  <2> QED
    BY <1>2, <1>5, <2>1, <2>2, <2>4, <2>6, <2>7 DEF ColumnInv
<1>11. PlainInv'
  BY <1>2, <1>5 DEF PlainInv
<1> QED
  BY <1>9, <1>10, <1>11 DEF ColumnsInv, ColumnInv

(* What the SELECT leaves out of the flush is in the column, and stays so  *)
(* as nobody else is at it.                                                *)
LEMMA SelectKeeps ==
    ASSUME SettingsInv, NEW r \in SettingsRequests, SelectRow(r)
    PROVE  RowInv' /\ ColumnsInv' /\ PlainInv'
<1> USE DEF SettingsInv, SettingsTypeOK
<1> DEFINE changed == {k \in Touched(r) : ValueFor(r, k) # column[k]}
<1>1. /\ phase[r] = "begun" /\ phase'[r] = "selected"
      /\ asks'[r] = asks[r] /\ snapshot'[r] = snapshot[r] /\ found'[r] = exists
      /\ dirty'[r] = IF exists THEN ColumnsOf(changed) ELSE Columns
  BY DEF SelectRow
<1>2. UNCHANGED <<asks, snapshot, exists, column, last, resent, contested>>
  BY DEF SelectRow
<1>3. \A q \in SettingsRequests \ {r} : Same(q)
  BY DEF SelectRow, Same
<1>4. \A k : Shown(k)' = Shown(k)
  BY <1>2 DEF Shown
<1>5. /\ r \in Working /\ r \in Working' /\ r \notin Reloading' /\ r \notin Reloading
      /\ Touched(r)' = Touched(r) /\ \A k : ValueFor(r, k)' = ValueFor(r, k)
  BY <1>1, <1>2 DEF Working, Reloading, Touched, ColumnsOf, ValueFor
<1>6. asks[r] \in Asks
  BY <1>5 DEF RowInv, RequestInv
<1>7. changed \subseteq ColumnsOf(changed) /\ ColumnsOf(changed) \subseteq Touched(r)
  <2>1. Touched(r) \subseteq Columns
    BY <1>6, AskShape DEF Touched
  <2>2. Touched(r) \cap Scopes # {} => Touched(r) = Scopes
    BY <1>6, AskShape DEF Touched, Plain
  <2> QED
    BY <2>1, <2>2 DEF ColumnsOf, Columns
<1>8. RequestInv(r)'
  BY <1>1, <1>2, <1>5, <1>6, <1>7 DEF RequestInv, Decided
<1>9. ASSUME NEW q \in SettingsRequests \ {r} PROVE RequestInv(q)'
  BY <1>2, <1>3, <1>9, SameRequest DEF RowInv, RequestInv, Same
<1>10. RowInv'
  <2>1. \A q, t \in SettingsRequests : phase'[q] = "flushed" /\ phase'[t] = "flushed" => q = t
    BY <1>1, <1>3 DEF RowInv, Same
  <2> QED
    BY <1>2, <1>8, <1>9, <2>1 DEF RowInv
<1>11. ASSUME NEW k \in Columns, k \notin contested' PROVE ColumnInv(k)'
  <2>1. ColumnInv(k) /\ k \notin contested
    BY <1>2, <1>11 DEF ColumnsInv
  <2>2. ASSUME NEW q \in At(k)' PROVE q \in At(k) /\ Knows(q, k)'
    <3>1. q \in SettingsRequests
      BY DEF At, Working, Reloading
    <3>2. CASE q # r
      <4>1. q \in At(k) /\ Same(q)
        BY <1>3, <2>2, <3>1, <3>2, SameRequest
      <4>2. Knows(q, k)
        BY <2>1, <4>1 DEF ColumnInv
      <4> QED
        BY <1>2, <1>4, <3>1, <4>1, <4>2, SameRequest DEF Knows, Same
    <3>3. CASE q = r
      <4>1. r \in At(k)
        BY <1>5, <2>2, <3>3 DEF At
      <4>2. Knows(r, k)
        BY <2>1, <4>1 DEF ColumnInv
      <4>3. ASSUME found'[r], k \in Touched(r) \ dirty'[r] PROVE column[k] = ValueFor(r, k)
        BY <1>1, <1>7, <4>3
      <4> QED
        BY <1>1, <1>2, <1>4, <1>5, <3>3, <4>1, <4>2, <4>3 DEF Knows
    <3> QED
      BY <3>2, <3>3
  <2> QED
    BY <1>2, <1>4, <2>1, <2>2 DEF ColumnInv
<1>12. PlainInv'
  BY <1>2, <1>4 DEF PlainInv
<1> QED
  BY <1>10, <1>11, <1>12 DEF ColumnsInv, ColumnInv

(* Who flushes has found the row that is there, and is the only one.       *)
LEMMA FlushKeeps ==
    ASSUME SettingsInv, NEW r \in SettingsRequests, FlushRow(r)
    PROVE  RowInv' /\ ColumnsInv' /\ PlainInv'
<1> USE DEF SettingsInv, SettingsTypeOK
<1>1. /\ phase[r] = "selected" /\ phase'[r] = "flushed" /\ (exists => found[r])
      /\ \A q \in SettingsRequests : phase[q] # "flushed"
  BY DEF FlushRow
<1>2. UNCHANGED <<asks, snapshot, found, dirty, exists, column, last, resent, contested>>
  BY DEF FlushRow
<1>3. \A q \in SettingsRequests \ {r} : Same(q)
  BY DEF FlushRow, Same
<1>4. \A k : Shown(k)' = Shown(k)
  BY <1>2 DEF Shown
<1>5. /\ r \in Working /\ r \in Working' /\ r \notin Reloading' /\ r \notin Reloading
      /\ Decided(r) /\ Decided(r)'
      /\ Touched(r)' = Touched(r) /\ \A k : ValueFor(r, k)' = ValueFor(r, k)
  BY <1>1, <1>2 DEF Working, Reloading, Touched, ColumnsOf, ValueFor, Decided
<1>6. RequestInv(r)'
  BY <1>1, <1>2, <1>5 DEF RowInv, RequestInv
<1>7. ASSUME NEW q \in SettingsRequests \ {r} PROVE RequestInv(q)'
  BY <1>2, <1>3, <1>7, SameRequest DEF RowInv, RequestInv, Same
<1>8. RowInv'
  <2>1. \A q, t \in SettingsRequests : phase'[q] = "flushed" /\ phase'[t] = "flushed" => q = t
    BY <1>1, <1>3 DEF Same
  <2> QED
    BY <1>2, <1>6, <1>7, <2>1 DEF RowInv
<1>9. ASSUME NEW k \in Columns, k \notin contested' PROVE ColumnInv(k)'
  <2>1. ColumnInv(k) /\ k \notin contested
    BY <1>2, <1>9 DEF ColumnsInv
  <2>2. ASSUME NEW q \in At(k)' PROVE q \in At(k) /\ Knows(q, k)'
    <3>1. q \in SettingsRequests
      BY DEF At, Working, Reloading
    <3>2. q \in At(k)
      BY <1>3, <1>5, <2>2, <3>1, SameRequest DEF At
    <3>3. Knows(q, k)
      BY <2>1, <3>2 DEF ColumnInv
    <3>4. CASE q # r
      BY <1>2, <1>3, <1>4, <3>1, <3>3, <3>4, SameRequest DEF Knows, Same
    <3>5. CASE q = r
      <4>1. Knows(r, k)
        BY <3>3, <3>5
      <4>2. Decided(r)' /\ found'[r] /\ k \in Touched(r)' \ dirty'[r] => column'[k] = ValueFor(r, k)'
        BY <1>2, <1>5, <4>1 DEF Knows
      <4>3. r \in Working' /\ k \in Scopes => snapshot'[r][k] = Shown(k)'
        BY <1>2, <1>4, <1>5, <4>1 DEF Knows
      <4> QED
        BY <1>5, <3>2, <3>5, <4>2, <4>3 DEF Knows
    <3> QED
      BY <3>2, <3>4, <3>5
  <2> QED
    BY <1>2, <1>4, <2>1, <2>2 DEF ColumnInv
<1>10. PlainInv'
  BY <1>2, <1>4 DEF PlainInv
<1> QED
  BY <1>8, <1>9, <1>10 DEF ColumnsInv, ColumnInv

-----------------------------------------------------------------------------
(* What a commit makes of a column: what it asked for, unless it was left  *)
(* out, and otherwise what was there, or the default of a new row.         *)
LEMMA CommitWrites ==
    ASSUME SettingsInv, NEW r \in SettingsRequests, CommitRow(r), NEW k \in Columns
    PROVE  /\ k \notin contested => Written(r)[k] = last'[k]
           /\ k \in Plain /\ k \notin resent' => Written(r)[k] = last'[k]
           /\ k \notin Touched(r) =>
                Written(r)[k] = IF exists THEN Shown(k) ELSE RowDefault(k)
<1> USE DEF SettingsInv, SettingsTypeOK
<1>1. r \in Working /\ Decided(r) /\ phase[r] = "flushed"
  BY DEF CommitRow, Working, Decided
<1>2. RequestInv(r) /\ asks[r] \in Asks
  BY <1>1 DEF RowInv, RequestInv
<1>3. /\ exists => found[r] /\ dirty[r] \subseteq Touched(r)
      /\ ~exists => dirty[r] = Columns
  BY <1>1, <1>2 DEF RequestInv
<1>4. Written(r)[k] = IF k \in dirty[r] THEN ValueFor(r, k) ELSE column[k]
  BY DEF Written
<1>5. /\ last'[k] = IF k \in DOMAIN asks[r] THEN asks[r][k]
                     ELSE IF exists THEN last[k] ELSE RowDefault(k)
      /\ resent' = (resent \ DOMAIN asks[r]) \cup (Touched(r) \ dirty[r])
  BY DEF CommitRow
<1>6. /\ k \in DOMAIN asks[r] => k \in Touched(r)
      /\ k \in Plain /\ k \in Touched(r) => k \in DOMAIN asks[r]
      /\ k \in Touched(r) \ DOMAIN asks[r] => k \in Scopes
  BY <1>2, AskShape DEF Touched, Plain
<1>7. /\ k \in DOMAIN asks[r] => ValueFor(r, k) = asks[r][k]
      /\ k \in Touched(r) \ DOMAIN asks[r] => ValueFor(r, k) = snapshot[r][k]
      /\ k \notin Touched(r) => ValueFor(r, k) = RowDefault(k)
  BY <1>6 DEF ValueFor
<1>8. exists => Shown(k) = column[k]
  BY DEF Shown
<1>9. k \notin Touched(r) => Written(r)[k] = IF exists THEN Shown(k) ELSE RowDefault(k)
  BY <1>3, <1>4, <1>7, <1>8
<1>10. ASSUME k \notin contested PROVE Written(r)[k] = last'[k]
  <2>1. Shown(k) = last[k] /\ (r \in At(k) => Knows(r, k))
    BY <1>10 DEF ColumnsInv, ColumnInv
  <2>2. CASE k \notin Touched(r)
    BY <1>5, <1>6, <1>9, <2>1, <2>2
  <2>3. CASE k \in Touched(r)
    <3>1. Knows(r, k)
      BY <1>1, <2>1, <2>3 DEF At
    <3>2. CASE k \in DOMAIN asks[r]
      BY <1>1, <1>3, <1>4, <1>5, <1>7, <2>3, <3>1, <3>2 DEF Knows
    <3>3. CASE k \notin DOMAIN asks[r]
      <4>1. k \in Scopes /\ ValueFor(r, k) = Shown(k)
        BY <1>1, <1>6, <1>7, <2>3, <3>1, <3>3 DEF Knows
      <4>2. CASE exists
        BY <1>4, <1>5, <1>8, <2>1, <3>3, <4>1, <4>2
      <4>3. CASE ~exists
        <5>1. RowDefault(k) = Unset /\ Shown(k) = Unset
          BY <4>1, <4>3 DEF RowDefault, Shown
        <5> QED
          BY <1>3, <1>4, <1>5, <3>3, <4>1, <4>3, <5>1
      <4> QED
        BY <4>2, <4>3
    <3> QED
      BY <3>2, <3>3
  <2> QED
    BY <2>2, <2>3
<1>11. ASSUME k \in Plain, k \notin resent' PROVE Written(r)[k] = last'[k]
  <2>1. CASE k \in DOMAIN asks[r]
    BY <1>4, <1>5, <1>6, <1>7, <1>11, <2>1
  <2>2. CASE k \notin DOMAIN asks[r]
    <3>1. k \notin resent /\ Shown(k) = last[k] /\ k \notin Touched(r)
      BY <1>5, <1>6, <1>11, <2>2 DEF PlainInv
    <3> QED
      BY <1>5, <1>9, <2>2, <3>1
  <2> QED
    BY <2>1, <2>2
<1> QED
  BY <1>9, <1>10, <1>11

(* The others keep what they know: they are at other columns, and a column *)
(* the request leaves alone does not change but for a new row's defaults.  *)
LEMMA CommitKeeps ==
    ASSUME SettingsInv, NEW r \in SettingsRequests, CommitRow(r)
    PROVE  RowInv' /\ ColumnsInv' /\ PlainInv'
<1> USE DEF SettingsInv, SettingsTypeOK
<1> DEFINE urlNow == [Blank EXCEPT !["url"] = Written(r)["url"]]
<1>1. /\ phase[r] = "flushed" /\ exists' = TRUE /\ column' = Written(r)
      /\ UNCHANGED contested
  BY DEF CommitRow
<1>2. \/ "url" \in DOMAIN asks[r] /\ EndAs(r, "committed", urlNow)
      \/ "url" \notin DOMAIN asks[r] /\ EndAs(r, "ended", Blank)
  BY DEF CommitRow
<1>3. /\ asks'[r] = NoAsk /\ phase'[r] \in {"committed", "ended"}
      /\ phase'[r] = "committed" => "url" \in DOMAIN asks[r] /\ snapshot'[r] = urlNow
  BY <1>2 DEF EndAs
<1>4. \A q \in SettingsRequests \ {r} : Same(q)
  BY <1>2 DEF EndAs, Same
<1>5. r \in Working /\ r \notin Working' /\ ~Decided(r)' /\ asks[r] \in Asks
  BY <1>1, <1>3 DEF Working, Decided, RowInv, RequestInv
<1>6. \A k \in Columns : Shown(k)' = Written(r)[k]
  BY <1>1 DEF Shown
<1>7. RequestInv(r)'
  BY <1>3, <1>5 DEF RequestInv, Decided
<1>8. ASSUME NEW q \in SettingsRequests \ {r} PROVE RequestInv(q)'
  <2>1. RequestInv(q) /\ Same(q) /\ phase[q] # "flushed"
    BY <1>1, <1>4, <1>8 DEF RowInv
  <2> QED
    BY <1>1, <1>8, <2>1, SameRequest DEF RequestInv, Same
<1>9. RowInv'
  <2>1. \A q, t \in SettingsRequests : phase'[q] = "flushed" /\ phase'[t] = "flushed" => q = t
    BY <1>3, <1>4 DEF RowInv, Same
  <2> QED
    BY <1>1, <1>7, <1>8, <2>1 DEF RowInv
<1>10. ASSUME NEW k \in Columns, k \notin contested PROVE ColumnInv(k)'
  <2>1. ColumnInv(k)
    BY DEF ColumnsInv
  <2>2. Shown(k)' = last'[k]
    BY <1>6, <1>10, CommitWrites
  <2>3. ASSUME r \in At(k)' PROVE r \in At(k) /\ Knows(r, k)'
    <3>1. k = "url" /\ r \in Reloading'
      BY <1>5, <2>3 DEF At
    <3>2. "url" \in DOMAIN asks[r] /\ snapshot'[r] = urlNow
      BY <1>3, <3>1 DEF Reloading
    <3>3. k \in Touched(r)
      BY <1>5, <3>1, <3>2, AskShape DEF Touched
    <3>4. snapshot'[r][k] = Shown(k)'
      BY <1>6, <3>1, <3>2 DEF Blank
    <3> QED
      BY <1>5, <3>3, <3>4 DEF At, Knows
  <2>4. ASSUME NEW q \in At(k)', q # r PROVE q \in At(k) /\ Knows(q, k)'
    <3>1. q \in SettingsRequests /\ Same(q)
      BY <1>4, <2>4 DEF At, Working, Reloading
    <3>2. q \in At(k) /\ Knows(q, k)
      BY <1>10, <2>1, <2>4, <3>1, SameRequest DEF ColumnInv
    <3>3. k \notin Touched(r)
      BY <1>5, <1>10, <2>1, <2>4, <3>2 DEF At, ColumnInv
    <3>4. Written(r)[k] = IF exists THEN Shown(k) ELSE RowDefault(k)
      BY <3>3, CommitWrites
    <3>5. k # "mode" => Shown(k)' = Shown(k)
      BY <1>6, <3>4 DEF Shown, RowDefault
    <3>6. Decided(q) /\ found[q] => exists /\ column'[k] = column[k]
      BY <1>1, <3>1, <3>4 DEF RowInv, RequestInv, Shown
    <3>7. k \in Scopes => k # "mode"
      OBVIOUS
    <3>8. q \in Reloading => k # "mode"
      BY <3>1, <3>2 DEF At, Working, Reloading
    <3> QED
      BY <3>1, <3>2, <3>5, <3>6, <3>7, <3>8, SameRequest DEF Knows, Same
  <2>5. \A q, t \in At(k)' : q = t
    BY <1>10, <2>1, <2>3, <2>4 DEF ColumnInv
  <2> QED
    BY <2>2, <2>3, <2>4, <2>5 DEF ColumnInv
<1>11. PlainInv'
  BY <1>6, CommitWrites DEF PlainInv, Columns
<1> QED
  BY <1>1, <1>9, <1>10, <1>11 DEF ColumnsInv, ColumnInv

-----------------------------------------------------------------------------
(* The row and the columns stay in order.                                  *)
LEMMA NextColumns ==
    ASSUME SettingsInv, [SettingsNext]_settingsVars
    PROVE  RowInv' /\ ColumnsInv' /\ PlainInv'
<1>1. CASE SettingsRestart
  <2>1. \A r \in SettingsRequests : Gone(r)
    BY <1>1 DEF SettingsRestart, Gone
  <2> QED
    BY <1>1, <2>1, RowUntouched DEF SettingsRestart
<1>2. ASSUME NEW r \in SettingsRequests, Ask(r) PROVE RowInv' /\ ColumnsInv' /\ PlainInv'
  BY <1>2, AskKeeps
<1>3. ASSUME NEW r \in SettingsRequests, PromptOnly(r) \/ UpdateFails(r) \/ ReloadRouter(r)
      PROVE  RowInv' /\ ColumnsInv' /\ PlainInv'
  <2>1. EndAs(r, "ended", Blank) /\ UNCHANGED <<exists, column, last, resent, contested>>
    BY <1>3 DEF PromptOnly, UpdateFails, ReloadRouter
  <2> QED
    BY <2>1, EndLeaves, RowUntouched
<1>4. ASSUME NEW r \in SettingsRequests, SelectRow(r) PROVE RowInv' /\ ColumnsInv' /\ PlainInv'
  BY <1>4, SelectKeeps
<1>5. ASSUME NEW r \in SettingsRequests, FlushRow(r) PROVE RowInv' /\ ColumnsInv' /\ PlainInv'
  BY <1>5, FlushKeeps
<1>6. ASSUME NEW r \in SettingsRequests, CommitRow(r) PROVE RowInv' /\ ColumnsInv' /\ PlainInv'
  BY <1>6, CommitKeeps
<1>7. CASE UNCHANGED settingsVars
  <2>1. \A r \in SettingsRequests : Same(r)
    BY <1>7 DEF settingsVars, Same
  <2> QED
    BY <1>7, <2>1, RowUntouched DEF settingsVars
<1> QED
  BY <1>1, <1>2, <1>3, <1>4, <1>5, <1>6, <1>7 DEF SettingsNext

(* The router follows the url shown.                                       *)
LEMMA NextRouter ==
    ASSUME SettingsInv, [SettingsNext]_settingsVars PROVE RouterInv'
<1> USE DEF SettingsInv, SettingsTypeOK
<1>1. CASE SettingsRestart
  BY <1>1 DEF SettingsRestart, RouterInv
<1>2. ASSUME NEW r \in SettingsRequests, Ask(r) \/ SelectRow(r) \/ FlushRow(r) PROVE RouterInv'
  <2>1. Reloading' = Reloading
    BY <1>2 DEF Ask, SelectRow, FlushRow, Reloading
  <2>2. contested \subseteq contested' /\ UNCHANGED <<exists, column, router, behind>>
    BY <1>2 DEF Ask, SelectRow, FlushRow
  <2> QED
    BY <2>1, <2>2 DEF RouterInv, Shown
<1>3. ASSUME NEW r \in SettingsRequests, PromptOnly(r) \/ UpdateFails(r) PROVE RouterInv'
  <2>1. r \notin Reloading /\ EndAs(r, "ended", Blank)
    BY <1>3 DEF PromptOnly, UpdateFails, Working, Reloading
  <2>2. Reloading' = Reloading
    BY <2>1, EndLeaves
  <2>3. UNCHANGED <<exists, column, router, behind, contested>>
    BY <1>3 DEF PromptOnly, UpdateFails
  <2> QED
    BY <2>2, <2>3 DEF RouterInv, Shown
<1>4. ASSUME NEW r \in SettingsRequests, CommitRow(r) PROVE RouterInv'
  <2>1. r \in Working /\ r \notin Reloading /\ asks[r] \in Asks
    BY <1>4 DEF CommitRow, Working, Reloading, RowInv, RequestInv
  <2>2. UNCHANGED <<router, behind, contested>>
    BY <1>4 DEF CommitRow
  <2>3. CASE "url" \in DOMAIN asks[r]
    <3>1. phase'[r] = "committed"
      BY <1>4, <2>3 DEF CommitRow, EndAs
    <3> QED
      BY <3>1 DEF RouterInv, Reloading
  <2>4. CASE "url" \notin DOMAIN asks[r]
    <3>1. Reloading' = Reloading
      BY <1>4, <2>1, <2>4, EndLeaves DEF CommitRow
    <3>2. "url" \notin Touched(r) /\ "url" \in Columns
      BY <2>1, <2>4, AskShape DEF Touched, Columns, Plain
    <3>3. Shown("url")' = Written(r)["url"]
      BY <1>4 DEF CommitRow, Shown
    <3>4. Written(r)["url"] = Shown("url")
      BY <1>4, <3>2, CommitWrites DEF RowDefault, Shown
    <3> QED
      BY <2>2, <3>1, <3>3, <3>4 DEF RouterInv
  <2> QED
    BY <2>3, <2>4
<1>5. ASSUME NEW r \in SettingsRequests, ReloadRouter(r) PROVE RouterInv'
  <2>1. r \in Reloading /\ r \in At("url") /\ UNCHANGED <<exists, column, contested>>
    BY <1>5 DEF ReloadRouter, Reloading, At
  <2>2. "url" \notin contested => snapshot[r]["url"] = Shown("url")
    BY <2>1 DEF ColumnsInv, ColumnInv, Knows, Columns, Plain
  <2>3. ~behind' => router' = snapshot[r]["url"]
    BY <1>5 DEF ReloadRouter
  <2> QED
    BY <2>1, <2>2, <2>3 DEF RouterInv, Shown
<1>6. CASE UNCHANGED settingsVars
  BY <1>6 DEF settingsVars, RouterInv, Reloading, Shown
<1> QED
  BY <1>1, <1>2, <1>3, <1>4, <1>5, <1>6 DEF SettingsNext

-----------------------------------------------------------------------------
(* In every reachable state the row is as its last committed writers left  *)
(* it on every column that is not contested, what a request has read of    *)
(* such a column is still so, and the router is not behind unnoticed.      *)
THEOREM SettingsInvariant == SettingsSpec => []SettingsInv
<1>1. SettingsInv /\ [SettingsNext]_settingsVars => SettingsInv'
  BY NextSettingsType, NextColumns, NextRouter DEF SettingsInv
<1> QED
  BY InitSettingsInv, <1>1, PTL DEF SettingsSpec

(* Every column shows its last committed writer unless requests on it      *)
(* overlapped, a plain one even then unless the writer sent back the value *)
(* it had loaded; and the live router uses the url shown once it has been  *)
(* rebuilt, unless requests on the url overlapped.                         *)
THEOREM LastWriterStands == SettingsSpec => []LastSettingHolds
<1>1. SettingsInv => LastSettingHolds
  BY DEF SettingsInv, ColumnsInv, ColumnInv, PlainInv, RouterInv, LastSettingHolds
<1> QED
  BY SettingsInvariant, <1>1, PTL
=============================================================================
