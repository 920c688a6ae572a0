---------------------------- MODULE SettingsStore ----------------------------
(* One user's settings: the user_settings row, the prompt file and the     *)
(* live ProviderRouter, under concurrent updates.                          *)
(*                                                                         *)
(* Unset is the value shown of a setting nobody has set.  Two columns stand*)
(* for the plain ones: "url" (ollama_base_url), which the router is rebuilt*)
(* from, and "mode" (default_privacy_mode), whose default in the row is    *)
(* another than the one shown without a row.  scope_overrides is one column*)
(* that holds a value for each scope.  Postgres is external: READ          *)
(* COMMITTED, row locks, the unique user_id.                               *)
EXTENDS FiniteSets

CONSTANTS
    SettingsRequests,  \* the PUT and PATCH requests, each used once
    SettingValues,     \* the values they may send
    Scopes,            \* names of ToolScopeRegistry
    Unset,
    Standard           \* UserSettings.default_privacy_mode's default

ASSUME SettingsAssumption ==
    Unset # Standard /\ Scopes \cap {"url", "mode", "prompt"} = {}

VARIABLES
    phase,      \* [SettingsRequests -> SettingsPC]
    asks,       \* [SettingsRequests -> Asks]: what the request sets, by key
    snapshot,   \* [SettingsRequests -> [Columns -> Values]]: what it has read
    found,      \* [SettingsRequests -> BOOLEAN]: its SELECT found the row
    dirty,      \* [SettingsRequests -> SUBSET Columns]: what its flush writes
    exists,     \* the row has been inserted
    column,     \* [Columns -> Values]
    prompt,     \* the prompt file
    router,     \* the ollama_base_url of the live router
    last,       \* history: [Columns -> Values], what was last asked for
    resent,     \* history: columns last asked for by who sent back the value
    contested,  \* history: columns two requests were at work on at once
    behind      \* history: the router has not been rebuilt since it had to be

settingsVars == <<phase, asks, snapshot, found, dirty, exists, column, prompt,
                  router, last, resent, contested, behind>>

-----------------------------------------------------------------------------
Values == SettingValues \cup {Unset, Standard}
Plain == {"url", "mode"}
Columns == Plain \cup Scopes
Keys == Columns \cup {"prompt"}
SettingsPC == {"idle", "begun", "selected", "flushed", "committed", "ended"}

(* UpdateSettingsRequest, or a PATCH of one scope.                         *)
Asks ==
    (UNION {[ks -> SettingValues] : ks \in (SUBSET (Plain \cup {"prompt"})) \ {{}}})
    \cup (UNION {[{s} -> SettingValues \ {Unset}] : s \in Scopes})
NoAsk == [k \in {} |-> Unset]
Blank == [k \in Columns |-> Unset]

(* get_settings and list_tool_scopes: without a row, the defaults.         *)
Shown(k) == IF exists THEN column[k] ELSE Unset

(* The defaults of UserSettings, which the insert fills in.                *)
RowDefault(k) == IF k = "mode" THEN Standard ELSE Unset

(* The columns that hold these settings: the scopes share theirs.          *)
ColumnsOf(ks) == IF ks \cap Scopes # {} THEN Scopes ELSE ks \cap Columns
Touched(r) == ColumnsOf(DOMAIN asks[r])

(* The requests that have begun and not committed, and those at column k.  *)
Working == {r \in SettingsRequests : phase[r] \in {"begun", "selected", "flushed"}}
Reloading == {r \in SettingsRequests : phase[r] = "committed"}
At(k) == {r \in Working : k \in Touched(r)} \cup (IF k = "url" THEN Reloading ELSE {})

(* The request ends; of what it knew, it keeps what it has read.           *)
EndAs(r, end, read) ==
    /\ phase' = [phase EXCEPT ![r] = end]
    /\ asks' = [asks EXCEPT ![r] = NoAsk]
    /\ snapshot' = [snapshot EXCEPT ![r] = read]
    /\ found' = [found EXCEPT ![r] = FALSE]
    /\ dirty' = [dirty EXCEPT ![r] = {}]

SettingsInit ==
    /\ phase = [r \in SettingsRequests |-> "idle"]
    /\ asks = [r \in SettingsRequests |-> NoAsk]
    /\ snapshot = [r \in SettingsRequests |-> Blank]
    /\ found = [r \in SettingsRequests |-> FALSE]
    /\ dirty = [r \in SettingsRequests |-> {}]
    /\ exists \in BOOLEAN
    /\ column = [k \in Columns |-> IF exists THEN RowDefault(k) ELSE Unset]
    /\ prompt = Unset /\ router = Unset
    /\ last = column
    /\ resent = {} /\ contested = {} /\ behind = TRUE

(* update_settings writes the prompt to its file before it looks at the    *)
(* row; set_scope_override first reads the overrides there are.            *)
Ask(r) ==
    /\ phase[r] = "idle"
    /\ phase' = [phase EXCEPT ![r] = "begun"]
    /\ \E a \in Asks :
         /\ asks' = [asks EXCEPT ![r] = a]
         /\ prompt' = IF "prompt" \in DOMAIN a THEN a["prompt"] ELSE prompt
         /\ contested' = contested \cup {k \in ColumnsOf(DOMAIN a) : At(k) # {}}
         /\ snapshot' = [snapshot EXCEPT ![r] =
              [k \in Columns |-> IF k \in Scopes /\ DOMAIN a \subseteq Scopes
                                 THEN Shown(k) ELSE Unset]]
    /\ UNCHANGED <<found, dirty, exists, column, router, last, resent, behind>>

(* Nothing for the row: update_settings returns what is shown.             *)
PromptOnly(r) ==
    /\ phase[r] = "begun" /\ Touched(r) = {}
    /\ EndAs(r, "ended", Blank)
    /\ UNCHANGED <<exists, column, prompt, router, last, resent, contested, behind>>

(* Mutant: the overrides it read are not merged.                           *)
ValueForOwn(r, k) ==
    IF k \in DOMAIN asks[r] THEN asks[r][k]
    ELSE RowDefault(k)

(* What it has for column k: its own, the override it read, or the default.*)
ValueFor(r, k) ==
    IF k \in DOMAIN asks[r] THEN asks[r][k]
    ELSE IF k \in Touched(r) THEN snapshot[r][k]
    ELSE RowDefault(k)

(* upsert: SELECT, and a new row or the attributes set.  Of those the flush*)
(* leaves out the ones that are as loaded.                                 *)
SelectRow(r) ==
    /\ phase[r] = "begun" /\ Touched(r) # {}
    /\ phase' = [phase EXCEPT ![r] = "selected"]
    /\ found' = [found EXCEPT ![r] = exists]
    /\ dirty' = [dirty EXCEPT ![r] =
         IF exists THEN ColumnsOf({k \in Touched(r) : ValueFor(r, k) # column[k]})
         ELSE Columns]
    /\ UNCHANGED <<asks, snapshot, exists, column, prompt, router, last, resent,
                   contested, behind>>

(* Its flush waits for the row lock, or for the other insert of the row;   *)
(* updated_at is always written.                                           *)
FlushRow(r) ==
    /\ phase[r] = "selected"
    /\ \A q \in SettingsRequests : phase[q] # "flushed"
    /\ found[r] \/ ~exists
    /\ phase' = [phase EXCEPT ![r] = "flushed"]
    /\ UNCHANGED <<asks, snapshot, found, dirty, exists, column, prompt, router, last,
                   resent, contested, behind>>

(* IntegrityError, or any other error before the commit: rolled back.  The *)
(* prompt file keeps what was written.                                     *)
UpdateFails(r) ==
    /\ r \in Working
    /\ EndAs(r, "ended", Blank)
    /\ UNCHANGED <<exists, column, prompt, router, last, resent, contested, behind>>

(* The row as it is to the request's own transaction.                      *)
Written(r) == [k \in Columns |-> IF k \in dirty[r] THEN ValueFor(r, k) ELSE column[k]]

(* A request on the url goes on to the router, with the url it read after  *)
(* its flush.                                                              *)
CommitRow(r) ==
    /\ phase[r] = "flushed"
    /\ exists' = TRUE
    /\ column' = Written(r)
    /\ last' = [k \in Columns |-> IF k \in DOMAIN asks[r] THEN asks[r][k]
                                   ELSE IF exists THEN last[k] ELSE RowDefault(k)]
    /\ resent' = (resent \ DOMAIN asks[r]) \cup (Touched(r) \ dirty[r])
    /\ IF "url" \in DOMAIN asks[r]
       THEN EndAs(r, "committed", [Blank EXCEPT !["url"] = Written(r)["url"]])
       ELSE EndAs(r, "ended", Blank)
    /\ UNCHANGED <<prompt, router, contested, behind>>

(* _reload_llm_pipeline_if_needed: when the rebuild fails, the router stays*)
(* as it was and the request is answered as if it had not.                 *)
ReloadRouter(r) ==
    /\ phase[r] = "committed"
    /\ \/ router' = snapshot[r]["url"] /\ behind' = FALSE
       \/ behind' = TRUE /\ UNCHANGED router
    /\ EndAs(r, "ended", Blank)
    /\ UNCHANGED <<exists, column, prompt, last, resent, contested>>

(* wire_llm_pipeline builds the router from the environment, not the row.  *)
SettingsRestart ==
    /\ router' = Unset /\ behind' = TRUE
    /\ phase' = [r \in SettingsRequests |-> IF phase[r] = "idle" THEN "idle" ELSE "ended"]
    /\ asks' = [r \in SettingsRequests |-> NoAsk]
    /\ snapshot' = [r \in SettingsRequests |-> Blank]
    /\ found' = [r \in SettingsRequests |-> FALSE]
    /\ dirty' = [r \in SettingsRequests |-> {}]
    /\ UNCHANGED <<exists, column, prompt, last, resent, contested>>

SettingsNext ==
    \/ SettingsRestart
    \/ \E r \in SettingsRequests :
          \/ Ask(r) \/ PromptOnly(r) \/ SelectRow(r) \/ FlushRow(r)
          \/ UpdateFails(r) \/ CommitRow(r) \/ ReloadRouter(r)

SettingsSpec == SettingsInit /\ [][SettingsNext]_settingsVars

-----------------------------------------------------------------------------
SettingsTypeOK ==
    /\ phase \in [SettingsRequests -> SettingsPC]
    /\ asks \in [SettingsRequests -> Asks \cup {NoAsk}]
    /\ snapshot \in [SettingsRequests -> [Columns -> Values]]
    /\ found \in [SettingsRequests -> BOOLEAN]
    /\ dirty \in [SettingsRequests -> SUBSET Columns]
    /\ exists \in BOOLEAN
    /\ column \in [Columns -> Values] /\ last \in [Columns -> Values]
    /\ prompt \in Values /\ router \in Values
    /\ resent \in SUBSET Columns /\ contested \in SUBSET Columns
    /\ behind \in BOOLEAN

(* No update undoes another.  Every setting shows what was last asked for, *)
(* or its default, the row's own once there is one, as long as no two      *)
(* requests overlapped on its column; a plain one even then, unless the    *)
(* last to commit sent back the value it had loaded, which is not written. *)
(* And the live router uses the url shown, unless requests on the url      *)
(* overlapped: from a rebuild on, until a restart or a rebuild that fails. *)
LastSettingHolds ==
    /\ \A k \in Columns : k \notin contested => Shown(k) = last[k]
    /\ \A k \in Plain : k \notin resent => Shown(k) = last[k]
    /\ "url" \notin contested /\ Reloading = {} /\ ~behind => router = Shown("url")
=============================================================================
