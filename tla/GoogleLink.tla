----------------------------- MODULE GoogleLink -----------------------------
(* The user's Google account: the credentials row, the live client that    *)
(* the calendar and gmail tools share, the environment variable, and the   *)
(* fire-and-forget tasks that copy tokens between them.                    *)
(*                                                                         *)
(* A grant is one consent of the user; its refresh token and the access    *)
(* tokens made from it go by its number, 0 is none (or ""), and a rotated  *)
(* refresh token is still its grant's.  Encryption is left out: one key,   *)
(* one process.  Google is external: it may refuse any refresh.            *)
EXTENDS Integers, Sequences, SequencesExt

CONSTANTS
    GoogleTools,    \* the tools that may be refreshing the token
    DeployedGrant,  \* GOOGLE_REFRESH_TOKEN of the deployment; 0: not set
    MaxGrants,      \* bound: consents the user gives
    MaxSaves,       \* bound: save tasks pending at once
    MaxStates       \* bound: authorizations under way

ASSUME GoogleAssumption ==
    /\ MaxGrants \in Nat /\ DeployedGrant \in 0 .. MaxGrants
    /\ MaxSaves \in Nat \ {0} /\ MaxStates \in Nat

VARIABLES
    oauth,      \* the number of live entries of _oauth_states
    linking,    \* LinkPC: the callback or disconnect request in progress
    grants,     \* consents given so far
    stored,     \* the google_credentials row: a Tokens record, or NoRow
    live,       \* the live client's tokens
    env,        \* os.environ["GOOGLE_REFRESH_TOKEN"]
    saves,      \* the pending _save tasks, each with its tokens
    loading,    \* LoadPC: where _load_from_db is
    loaded,     \* the row its first select returned
    sent,       \* [GoogleTools -> 0..MaxGrants]: the refresh token under way
    wanted,     \* history: the grant of the last connect; 0 after disconnect
    unloaded,   \* history: the startup load failed on a row; no connect since
    crossed     \* history: the user acted while something was pending

startup == <<loading, loaded>>
wishes == <<wanted, unloaded, crossed>>

googleVars == <<oauth, linking, grants, stored, live, env, saves, startup, sent, wishes>>

-----------------------------------------------------------------------------
Grants == 0 .. MaxGrants
Tokens == [access : Grants, refresh : Grants]
NoTokens == [access |-> 0, refresh |-> 0]
NoRow == [access |-> -1, refresh |-> -1]
LinkPC == {"none", "exchanging", "committed", "deleted"}
LoadPC == {"none", "pending", "read"}

Refreshing0 == \A t \in GoogleTools : sent[t] = 0
Quiet == linking = "none" /\ saves = <<>> /\ loading = "none" /\ Refreshing0

(* _notify_token_change with _persist_google_tokens as its callback: the   *)
(* environment at once, the row by a task, nothing without a refresh token.*)
Notify(tokens) ==
    IF tokens.refresh = 0
    THEN UNCHANGED <<env, saves>>
    ELSE /\ Len(saves) < MaxSaves
         /\ env' = tokens.refresh
         /\ saves' = Append(saves, tokens)

(* set_tokens                                                              *)
SetTokens(tokens) == live' = tokens /\ Notify(tokens)

(* Registration at startup: set_tokens from the environment, then the task *)
(* that loads the row.                                                     *)
Startup(g) ==
    /\ live = [access |-> 0, refresh |-> g]
    /\ env = g
    /\ saves = IF g = 0 THEN <<>> ELSE <<[access |-> 0, refresh |-> g]>>
    /\ loading = "pending" /\ loaded = NoRow

GoogleInit ==
    /\ oauth = 0 /\ linking = "none" /\ grants = DeployedGrant
    /\ stored = NoRow
    /\ Startup(DeployedGrant)
    /\ sent = [t \in GoogleTools |-> 0]
    /\ wanted = 0 /\ unloaded = FALSE /\ crossed = FALSE

GoogleRestart ==
    /\ oauth' = 0 /\ linking' = "none" /\ sent' = [t \in GoogleTools |-> 0]
    /\ live' = [access |-> 0, refresh |-> DeployedGrant]
    /\ env' = DeployedGrant
    /\ saves' = IF DeployedGrant = 0 THEN <<>>
                ELSE <<[access |-> 0, refresh |-> DeployedGrant]>>
    /\ loading' = "pending" /\ loaded' = NoRow
    /\ unloaded' = FALSE
    /\ UNCHANGED <<grants, stored, wanted, crossed>>

(* _load_from_db selects the row.  Whatever it or load_tokens_from_db      *)
(* raises is logged and forgotten.                                         *)
LoadRead ==
    /\ loading = "pending"
    /\ \/ stored # NoRow /\ loading' = "read" /\ loaded' = stored /\ UNCHANGED unloaded
       \/ loading' = "none" /\ unloaded' = (stored # NoRow) /\ UNCHANGED loaded
    /\ UNCHANGED <<oauth, linking, grants, stored, live, env, saves, sent, wanted, crossed>>

(* load_tokens_from_db selects it again, which returns the values of the   *)
(* first select unless another row has taken its place, decrypts them and  *)
(* hands them to set_tokens - or not.                                      *)
LoadApply ==
    /\ loading = "read" /\ loading' = "none" /\ loaded' = NoRow
    /\ \/ /\ stored # NoRow
          /\ \E tokens \in {loaded, stored} : SetTokens(tokens)
          /\ UNCHANGED unloaded
       \/ unloaded' = (stored # NoRow) /\ UNCHANGED <<live, env, saves>>
    /\ UNCHANGED <<oauth, linking, grants, stored, sent, wanted, crossed>>

(* One _save task commits, in any order; without a row it does nothing, and*)
(* one that fails leaves the row alone.                                    *)
Save ==
    /\ \E i \in DOMAIN saves :
         /\ stored' \in IF stored = NoRow THEN {NoRow} ELSE {stored, saves[i]}
         /\ saves' = RemoveAt(saves, i)
    /\ UNCHANGED <<oauth, linking, grants, live, env, startup, sent, wishes>>

Authorize ==
    /\ oauth < MaxStates /\ oauth' = oauth + 1
    /\ UNCHANGED <<linking, grants, stored, live, env, saves, startup, sent, wishes>>

(* _prune_expired_oauth_states, and the callback that finds its state past.*)
ForgetState ==
    /\ oauth > 0 /\ oauth' = oauth - 1
    /\ UNCHANGED <<linking, grants, stored, live, env, saves, startup, sent, wishes>>

(* google_callback uses its state up before it exchanges the code.         *)
Callback ==
    /\ linking = "none" /\ oauth > 0
    /\ linking' = "exchanging" /\ oauth' = oauth - 1
    /\ crossed' = (crossed \/ ~Quiet)
    /\ UNCHANGED <<grants, stored, live, env, saves, startup, sent, wanted, unloaded>>

(* The exchange fails, or the commit that follows it.                      *)
ExchangeFails ==
    /\ linking = "exchanging" /\ linking' = "none"
    /\ UNCHANGED <<oauth, grants, stored, live, env, saves, startup, sent, wishes>>

(* The code is exchanged and the row committed ...                         *)
StoreGrant ==
    /\ linking = "exchanging" /\ grants < MaxGrants
    /\ linking' = "committed"
    /\ grants' = grants + 1 /\ wanted' = grants + 1
    /\ stored' = [access |-> grants + 1, refresh |-> grants + 1]
    /\ crossed' = (crossed \/ ~Refreshing0)
    /\ UNCHANGED <<oauth, live, env, saves, startup, sent, unloaded>>

(* ... and then the live client is told.                                   *)
PublishGrant ==
    /\ linking = "committed" /\ linking' = "none"
    /\ SetTokens([access |-> wanted, refresh |-> wanted])
    /\ unloaded' = FALSE
    /\ UNCHANGED <<oauth, grants, stored, startup, sent, wanted, crossed>>

(* google_disconnect: 404 without a row; the live client is cleared by a   *)
(* task of its own, and the environment is not.                            *)
DeleteRow ==
    /\ linking = "none" /\ stored # NoRow
    /\ stored' = NoRow /\ wanted' = 0
    /\ linking' = "deleted"
    /\ crossed' = (crossed \/ ~Quiet)
    /\ UNCHANGED <<oauth, grants, live, env, saves, startup, sent, unloaded>>

(* Mutant: only the access token is dropped.                               *)
ClearAccess ==
    /\ linking = "deleted" /\ linking' = "none"
    /\ live' = [live EXCEPT !.access = 0]
    /\ UNCHANGED <<oauth, grants, stored, env, saves, startup, sent, wishes>>

ClearTokens ==
    /\ linking = "deleted" /\ linking' = "none"
    /\ live' = NoTokens
    /\ UNCHANGED <<oauth, grants, stored, env, saves, startup, sent, wishes>>

(* A tool's request met 401: refresh_access_token posts the refresh token. *)
RefreshSend(t) ==
    /\ sent[t] = 0 /\ live.refresh # 0
    /\ sent' = [sent EXCEPT ![t] = live.refresh]
    /\ crossed' = (crossed \/ linking # "none" \/ loading # "none")
    /\ UNCHANGED <<oauth, linking, grants, stored, live, env, saves, startup, wanted, unloaded>>

RefreshFails(t) ==
    /\ sent[t] # 0 /\ sent' = [sent EXCEPT ![t] = 0]
    /\ UNCHANGED <<oauth, linking, grants, stored, live, env, saves, startup, wishes>>

(* The answer is written to the client as it is then, with a new refresh   *)
(* token when Google rotates.                                              *)
RefreshDone(t) ==
    /\ sent[t] # 0 /\ sent' = [sent EXCEPT ![t] = 0]
    /\ \E r \in {live.refresh, sent[t]} : SetTokens([access |-> sent[t], refresh |-> r])
    /\ UNCHANGED <<oauth, linking, grants, stored, startup, wishes>>

GoogleNext ==
    \/ GoogleRestart \/ LoadRead \/ LoadApply \/ Save \/ Authorize \/ ForgetState
    \/ Callback \/ ExchangeFails \/ StoreGrant \/ PublishGrant \/ DeleteRow \/ ClearTokens
    \/ \E t \in GoogleTools : RefreshSend(t) \/ RefreshFails(t) \/ RefreshDone(t)

GoogleSpec == GoogleInit /\ [][GoogleNext]_googleVars

-----------------------------------------------------------------------------
GoogleTypeOK ==
    /\ oauth \in 0 .. MaxStates /\ linking \in LinkPC /\ grants \in Grants
    /\ stored \in Tokens \cup {NoRow} /\ live \in Tokens /\ env \in Grants
    /\ saves \in Seq(Tokens) /\ Len(saves) <= MaxSaves
    /\ loading \in LoadPC /\ loaded \in Tokens \cup {NoRow}
    /\ loading = "read" => loaded # NoRow
    /\ sent \in [GoogleTools -> Grants]
    /\ wanted \in Grants /\ unloaded \in BOOLEAN /\ crossed \in BOOLEAN

(* What the user did last is what holds once nothing is pending, across    *)
(* restarts: after a connect its grant in the row and in the client, which *)
(* has none if the startup load failed, until the user connects again;     *)
(* after a disconnect neither.  Excused are a deployment that carries a    *)
(* grant of its own in its environment, and a user who connects or         *)
(* disconnects while a refresh, a save or the startup load is pending.     *)
LastWordHolds ==
    DeployedGrant = 0 /\ Quiet /\ ~crossed =>
      IF wanted = 0
      THEN stored = NoRow /\ live = NoTokens
      ELSE /\ stored.refresh = wanted
           /\ live = IF unloaded THEN NoTokens ELSE [access |-> wanted, refresh |-> wanted]
=============================================================================
