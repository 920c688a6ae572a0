---------------------------- MODULE AuthSessions ----------------------------
(* One user's token pairs: login, refresh, logout, password reset, and the *)
(* blacklist that require_auth asks.                                       *)
(*                                                                         *)
(* A pair is an access and a refresh token issued together, named by its   *)
(* number; a session is named by the pair its login issued.  Requests of   *)
(* one browser share its cookie jar.  Time passes in half seconds, because *)
(* jose compares whole seconds and the database does not.                  *)
(* Services joins this module with the others of its kind.                 *)
EXTENDS Integers

CONSTANTS
    AuthRequests,   \* requests of the browser that may be in flight at once
    AccessLife,     \* access_token_expire_minutes, in seconds of the model
    RefreshLife,    \* refresh_token_expire_days, likewise
    MaxPairs,       \* bound: token pairs issued
    MaxPasswords,   \* bound: passwords the user has had
    MaxTime         \* bound: half seconds

ASSUME AuthAssumption ==
    /\ AccessLife \in Nat /\ RefreshLife \in Nat
    /\ MaxPairs \in Nat /\ MaxPasswords \in Nat /\ MaxTime \in Nat

VARIABLES
    now,        \* half seconds since the start
    issued,     \* pairs issued so far
    born,       \* [Pairs -> Nat]: iat, a whole second
    sid,        \* [Pairs -> Pairs or 0]: the sid claim of the access token
    hash,       \* [Pairs -> Pairs or 0]: the session's refresh_token_hash; 0: no row
    active,     \* the sessions with is_active
    blacklist,  \* the pairs whose jti is in token_blacklist
    held,       \* the pair in the cookie jar; 0: none
    password,   \* number of the current password; 0: not registered
    at,         \* [AuthRequests -> AuthPC]
    pair,       \* [AuthRequests -> Pairs or 0]: the pair the request carries
    row,        \* [AuthRequests -> Pairs or 0]: the session it read or closed
    closed,     \* [AuthRequests -> BOOLEAN]: its logout reached the session
    out,        \* history: pairs whose logout was answered and met no error
    spoiled     \* history: refreshes of a session overlapped, or one was lost

tokens == <<issued, born, sid>>
rows == <<hash, active, blacklist>>
requests == <<at, pair, row, closed>>
authVars == <<now, tokens, rows, held, password, requests, out, spoiled>>

-----------------------------------------------------------------------------
Pairs == 1 .. MaxPairs
AuthPC == {"idle", "read", "answering", "revoking"}

Second == now \div 2

(* jose: a token is expired when its exp lies before the whole second.     *)
AccessAlive(p) == Second <= born[p] + AccessLife
RefreshAlive(p) == Second <= born[p] + RefreshLife

(* require_auth, while the database answers.                               *)
Authenticates(p) == AccessAlive(p) /\ p \notin blacklist

(* The active session that stores the hash of p's refresh token.           *)
SessionOf(p) == {s \in active : hash[s] = p}

AuthInit ==
    /\ now = 0 /\ issued = 0
    /\ born = [p \in Pairs |-> 0]
    /\ sid = [p \in Pairs |-> 0]
    /\ hash = [p \in Pairs |-> 0]
    /\ active = {} /\ blacklist = {} /\ held = 0
    /\ password = 0
    /\ at = [q \in AuthRequests |-> "idle"]
    /\ pair = [q \in AuthRequests |-> 0]
    /\ row = [q \in AuthRequests |-> 0]
    /\ closed = [q \in AuthRequests |-> FALSE]
    /\ out = {} /\ spoiled = FALSE

AuthTick ==
    /\ now < MaxTime
    /\ now' = now + 1
    /\ UNCHANGED <<tokens, rows, held, password, requests, out, spoiled>>

(* create_access_token and create_refresh_token: the pair n, with s as sid.*)
Issue(n, s) ==
    /\ issued < MaxPairs
    /\ n = issued + 1
    /\ issued' = n
    /\ born' = [born EXCEPT ![n] = Second]
    /\ sid' = [sid EXCEPT ![n] = s]

(* The e-mail is unique: a second registration is refused.                 *)
Register ==
    /\ password = 0 /\ MaxPasswords > 0
    /\ password' = 1
    /\ UNCHANGED <<now, tokens, rows, held, requests, out, spoiled>>

(* By one of the reset tokens there may be: nothing is stored for them, so *)
(* that none is ever used up, and the sessions are left as they are.       *)
ResetPassword ==
    /\ password # 0 /\ password < MaxPasswords
    /\ password' = password + 1
    /\ UNCHANGED <<now, tokens, rows, held, requests, out, spoiled>>

(* The answer may be lost: the jar keeps what it had.                      *)
Login ==
    /\ password # 0
    /\ \E n \in Pairs :
         /\ Issue(n, n)
         /\ hash' = [hash EXCEPT ![n] = n]
         /\ active' = active \cup {n}
         /\ held' \in {held, n}
    /\ UNCHANGED <<now, blacklist, password, requests, out, spoiled>>

Refreshing(s) == \E q \in AuthRequests : at[q] \in {"read", "answering"} /\ row[q] = s

(* service.refresh up to its SELECT.                                       *)
RefreshRead(q) ==
    /\ at[q] = "idle" /\ held # 0 /\ RefreshAlive(held)
    /\ \E s \in SessionOf(held) :
         /\ at' = [at EXCEPT ![q] = "read"]
         /\ pair' = [pair EXCEPT ![q] = held]
         /\ row' = [row EXCEPT ![q] = s]
         /\ spoiled' = (spoiled \/ Refreshing(s))
    /\ UNCHANGED <<now, tokens, rows, held, password, closed, out>>

(* 401: the client goes to its login page.                                 *)
RefreshRefused(q) ==
    /\ at[q] = "idle" /\ held # 0
    /\ ~RefreshAlive(held) \/ SessionOf(held) = {}
    /\ held' = 0
    /\ UNCHANGED <<now, tokens, rows, password, requests, out, spoiled>>

(* Mutants: the new hash is not stored; the row is written back whole.     *)
RefreshForgets(q) ==
    /\ at[q] = "read"
    /\ \E n \in Pairs :
         /\ Issue(n, 0)
         /\ pair' = [pair EXCEPT ![q] = n]
         /\ at' = [at EXCEPT ![q] = "answering"]
    /\ UNCHANGED <<now, rows, held, password, row, closed, out, spoiled>>
RefreshRevives(q) ==
    /\ at[q] = "read"
    /\ \E n \in Pairs :
         /\ Issue(n, 0)
         /\ hash' = [hash EXCEPT ![row[q]] = n]
         /\ active' = active \cup {row[q]}
         /\ pair' = [pair EXCEPT ![q] = n]
         /\ at' = [at EXCEPT ![q] = "answering"]
    /\ UNCHANGED <<now, blacklist, held, password, row, closed, out, spoiled>>

(* The rest: the new access token has no sid, and of the row only the hash *)
(* is written, whatever happened to the row in the meantime.               *)
RefreshCommit(q) ==
    /\ at[q] = "read"
    /\ \E n \in Pairs :
         /\ Issue(n, 0)
         /\ hash' = [hash EXCEPT ![row[q]] = n]
         /\ pair' = [pair EXCEPT ![q] = n]
         /\ at' = [at EXCEPT ![q] = "answering"]
    /\ UNCHANGED <<now, active, blacklist, held, password, row, closed, out, spoiled>>

(* _set_auth_cookies on the answer, or the answer is lost.                 *)
RefreshAnswer(q) ==
    /\ at[q] = "answering"
    /\ at' = [at EXCEPT ![q] = "idle"]
    /\ \/ held' = pair[q] /\ UNCHANGED spoiled
       \/ spoiled' = TRUE /\ UNCHANGED held
    /\ pair' = [pair EXCEPT ![q] = 0]
    /\ row' = [row EXCEPT ![q] = 0]
    /\ UNCHANGED <<now, tokens, rows, password, closed, out>>

(* logout: the session named by sid, if the token has one; an error there  *)
(* is swallowed.                                                           *)
LogoutSession(q) ==
    /\ at[q] = "idle" /\ held # 0 /\ Authenticates(held)
    /\ at' = [at EXCEPT ![q] = "revoking"]
    /\ pair' = [pair EXCEPT ![q] = held]
    /\ row' = [row EXCEPT ![q] = sid[held]]
    /\ \/ active' = active \ {sid[held]} /\ closed' = [closed EXCEPT ![q] = TRUE]
       \/ closed' = [closed EXCEPT ![q] = FALSE] /\ UNCHANGED active
    /\ spoiled' = (spoiled \/ Refreshing(sid[held]))
    /\ UNCHANGED <<now, tokens, hash, blacklist, held, password, out>>

(* Then revoke_token, unless the token expired in between; the cookies are *)
(* deleted in any case.  An error is swallowed here too.                   *)
LogoutRevoke(q) ==
    /\ at[q] = "revoking"
    /\ at' = [at EXCEPT ![q] = "idle"]
    /\ pair' = [pair EXCEPT ![q] = 0]
    /\ row' = [row EXCEPT ![q] = 0]
    /\ closed' = [closed EXCEPT ![q] = FALSE]
    /\ held' = 0
    /\ \/ /\ blacklist' = IF AccessAlive(pair[q]) THEN blacklist \cup {pair[q]} ELSE blacklist
          /\ out' = IF closed[q] THEN out \cup {pair[q]} ELSE out
       \/ UNCHANGED <<blacklist, out>>
    /\ UNCHANGED <<now, tokens, hash, active, password, spoiled>>

(* cleanup_expired_blacklist, hourly: expires_at < now, to the microsecond.*)
Cleanup ==
    /\ blacklist' = {p \in blacklist : 2 * (born[p] + AccessLife) >= now}
    /\ UNCHANGED <<now, tokens, hash, active, held, password, requests, out, spoiled>>

AuthNext ==
    \/ AuthTick \/ Register \/ ResetPassword \/ Login \/ Cleanup
    \/ \E q \in AuthRequests :
          \/ RefreshRead(q) \/ RefreshRefused(q) \/ RefreshCommit(q) \/ RefreshAnswer(q)
          \/ LogoutSession(q) \/ LogoutRevoke(q)

AuthSpec == AuthInit /\ [][AuthNext]_authVars

-----------------------------------------------------------------------------
AuthTypeOK ==
    /\ now \in Nat /\ issued \in 0 .. MaxPairs
    /\ born \in [Pairs -> Nat]
    /\ sid \in [Pairs -> 0 .. MaxPairs] /\ hash \in [Pairs -> 0 .. MaxPairs]
    /\ active \in SUBSET Pairs /\ blacklist \in SUBSET Pairs /\ out \in SUBSET Pairs
    /\ held \in 0 .. MaxPairs
    /\ password \in 0 .. MaxPasswords
    /\ at \in [AuthRequests -> AuthPC]
    /\ pair \in [AuthRequests -> 0 .. MaxPairs] /\ row \in [AuthRequests -> 0 .. MaxPairs]
    /\ closed \in [AuthRequests -> BOOLEAN]
    /\ spoiled \in BOOLEAN

(* A logout that met no error is final: a late refresh does not reopen the *)
(* session the token names, and the token itself is accepted again at most *)
(* within the second in which it expires, where the cleanup already counts *)
(* it as past and jose does not yet.                                       *)
LoggedOutStaysOut ==
    \A p \in out :
      /\ sid[p] \notin active
      /\ Authenticates(p) => now = 2 * (born[p] + AccessLife) + 1

(* Rotation never strands a client: unless refreshes of one session        *)
(* overlapped, a logout ran into one, or an answer was lost, the refresh   *)
(* token in the jar is the one its active session stores.                  *)
HeldTokenLives ==
    ~spoiled /\ held # 0 /\ (\A q \in AuthRequests : at[q] = "idle") => SessionOf(held) # {}
=============================================================================
