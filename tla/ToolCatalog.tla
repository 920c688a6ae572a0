----------------------------- MODULE ToolCatalog -----------------------------
(* What stands between a user's tool call and the tool: the adapters that  *)
(* startup registers, the custom tools, the capability rows and the rate   *)
(* limit; with the health probes, which use the same gateway.              *)
(*                                                                         *)
(* One user.  The capability rows are those of the tool Tool; the policy   *)
(* engine and the approvals are ToolNode's, and no caller gives the        *)
(* gateway an idempotency key.  Postgres is external: READ COMMITTED, and  *)
(* tool_capabilities has no unique key.                                    *)
EXTENDS Integers, FiniteSets

CONSTANTS
    Tool,           \* the built-in tool that is called
    Reserved,       \* BUILTIN_TOOL_NAMES
    Builtin,        \* names that register_tools registers
    Names,          \* all names of tools, Tool among them
    Functions,      \* the functions of Tool
    AnyFunction,    \* function_name NULL: the whole tool
    GrantRequests,  \* grant requests that may be in progress at once
    Calls,          \* tool calls, each used once
    CallLimit,      \* max_calls of Tool
    MaxRows         \* bound: rows for one function

ASSUME CatalogAssumption ==
    /\ Tool \in Builtin /\ Reserved \subseteq Builtin /\ Builtin \subseteq Names
    /\ AnyFunction \notin Functions /\ CallLimit \in Nat /\ MaxRows \in Nat

VARIABLES
    adapter,    \* [Names -> {"none", "builtin", "custom"}]: gateway._adapters
    custom,     \* SUBSET Names: the rows of custom_tools
    restoring,  \* _load_custom is pending
    granted,    \* [Scope -> Nat]: rows of tool_capabilities of Tool
    granting,   \* [GrantRequests -> Scope or "none"]: about to insert
    call,       \* [Calls -> CallPC]
    used,       \* [{"user", "global"} -> Nat]: calls in the window
    health,     \* _health_cache of Tool
    disabled,   \* history: no grant was asked for since the tool was disabled
    barred      \* history: calls made while it was

catalogVars == <<adapter, custom, restoring, granted, granting, call, used, health,
                 disabled, barred>>

-----------------------------------------------------------------------------
CallPC == {"idle", "checking", "allowed", "ended"}
Scope == Functions \cup {AnyFunction}

(* register_tools                                                          *)
Registered == [n \in Names |-> IF n \in Builtin THEN "builtin" ELSE "none"]

(* has_capability without a function, as dispatch asks: any row will do.   *)
HasCapability == \E k \in Scope : granted[k] > 0

(* has_capability with a function, as list_tools asks.                     *)
ShownEnabled(f) == granted[f] > 0 \/ granted[AnyFunction] > 0

CatalogInit ==
    /\ adapter = Registered
    /\ custom = {} /\ restoring = TRUE
    /\ granted = [k \in Scope |-> 0]
    /\ granting = [q \in GrantRequests |-> "none"]
    /\ call = [c \in Calls |-> "idle"]
    /\ used = [w \in {"user", "global"} |-> 0]
    /\ health = "unchecked"
    /\ disabled = FALSE /\ barred = {}

(* wire_llm_pipeline; what was in progress is gone.                        *)
CatalogRestart ==
    /\ adapter' = Registered /\ restoring' = TRUE
    /\ granting' = [q \in GrantRequests |-> "none"]
    /\ call' = [c \in Calls |-> IF call[c] = "idle" THEN "idle" ELSE "ended"]
    /\ used' = [w \in {"user", "global"} |-> 0]
    /\ health' = "unchecked"
    /\ UNCHANGED <<custom, granted, disabled, barred>>

(* load_custom_tools registers over what is there.                         *)
LoadCustom ==
    /\ restoring /\ restoring' = FALSE
    /\ adapter' = [n \in Names |-> IF n \in custom THEN "custom" ELSE adapter[n]]
    /\ UNCHANGED <<custom, granted, granting, call, used, health, disabled,
                   barred>>

(* The gateway learns of the tool at the next start.  The name is unique.  *)
RegisterCustomTool ==
    /\ \E n \in Names \ (Reserved \cup custom) : custom' = custom \cup {n}
    /\ UNCHANGED <<adapter, restoring, granted, granting, call, used,
                   health, disabled, barred>>

(* grant, up to its SELECT: enable_tool with AnyFunction, enable_function  *)
(* with one.                                                               *)
(* A row that is there ends it.                                            *)
Grant(q) ==
    /\ granting[q] = "none"
    /\ \E k \in Scope :
         /\ granted[k] = 0
         /\ granting' = [granting EXCEPT ![q] = k]
    /\ disabled' = FALSE /\ barred' = {}
    /\ UNCHANGED <<adapter, custom, restoring, granted, call, used, health>>

GrantInsert(q) ==
    /\ granting[q] # "none" /\ granted[granting[q]] < MaxRows
    /\ granted' = [granted EXCEPT ![granting[q]] = @ + 1]
    /\ granting' = [granting EXCEPT ![q] = "none"]
    /\ UNCHANGED <<adapter, custom, restoring, call, used, health,
                   disabled, barred>>

(* Mutant: only the grant of the whole tool is taken back.                 *)
DisableWildcard ==
    /\ granted' = [granted EXCEPT ![AnyFunction] = 0]
    /\ disabled' = (\A q \in GrantRequests : granting[q] = "none")
    /\ UNCHANGED <<adapter, custom, restoring, granting, call, used,
                   health, barred>>

(* revoke: every row of the tool, ...                                      *)
DisableTool ==
    /\ granted' = [k \in Scope |-> 0]
    /\ disabled' = (\A q \in GrantRequests : granting[q] = "none")
    /\ UNCHANGED <<adapter, custom, restoring, granting, call, used,
                   health, barred>>

(* ... or of the function.                                                 *)
DisableFunction ==
    /\ \E f \in Functions : granted' = [granted EXCEPT ![f] = 0]
    /\ UNCHANGED <<adapter, custom, restoring, granting, call, used,
                   health, disabled, barred>>

(* dispatch of a user's call, up to the await of the capability check.     *)
CallTool(c) ==
    /\ call[c] = "idle"
    /\ call' = [call EXCEPT ![c] = IF adapter[Tool] = "none" THEN "ended" ELSE "checking"]
    /\ barred' = IF disabled THEN barred \cup {c} ELSE barred
    /\ UNCHANGED <<adapter, custom, restoring, granted, granting, used,
                   health, disabled>>

(* The check's SELECT.                                                     *)
CheckCapability(c) ==
    /\ call[c] = "checking"
    /\ call' = [call EXCEPT ![c] = IF HasCapability THEN "allowed" ELSE "ended"]
    /\ UNCHANGED <<adapter, custom, restoring, granted, granting, used,
                   health, disabled, barred>>

(* The rate limit, then the adapter.                                       *)
Execute(c) ==
    /\ call[c] = "allowed"
    /\ call' = [call EXCEPT ![c] = "ended"]
    /\ used' = IF used["user"] < CallLimit THEN [used EXCEPT !["user"] = @ + 1] ELSE used
    /\ UNCHANGED <<adapter, custom, restoring, granted, granting, health,
                   disabled, barred>>

(* ToolHealthChecker: a dispatch without a user skips the capability check *)
(* and has a rate window of its own.                                       *)
Probe ==
    /\ IF adapter[Tool] = "none" \/ used["global"] >= CallLimit
       THEN health' = "unhealthy" /\ UNCHANGED used
       ELSE /\ used' = [used EXCEPT !["global"] = @ + 1]
            /\ health' \in {"healthy", "unhealthy"}
    /\ UNCHANGED <<adapter, custom, restoring, granted, granting, call,
                   disabled, barred>>

WindowPasses ==
    /\ \E w \in {"user", "global"} : used[w] > 0 /\ used' = [used EXCEPT ![w] = @ - 1]
    /\ UNCHANGED <<adapter, custom, restoring, granted, granting, call,
                   health, disabled, barred>>

CatalogNext ==
    \/ CatalogRestart \/ LoadCustom \/ RegisterCustomTool
    \/ DisableTool \/ DisableFunction \/ Probe \/ WindowPasses
    \/ \E q \in GrantRequests : Grant(q) \/ GrantInsert(q)
    \/ \E c \in Calls : CallTool(c) \/ CheckCapability(c) \/ Execute(c)

CatalogSpec == CatalogInit /\ [][CatalogNext]_catalogVars

-----------------------------------------------------------------------------
CatalogTypeOK ==
    /\ adapter \in [Names -> {"none", "builtin", "custom"}]
    /\ custom \in SUBSET Names /\ restoring \in BOOLEAN
    /\ granted \in [Scope -> 0 .. MaxRows]
    /\ granting \in [GrantRequests -> Scope \cup {"none"}]
    /\ call \in [Calls -> CallPC]
    /\ used \in [{"user", "global"} -> 0 .. CallLimit]
    /\ health \in {"unchecked", "healthy", "unhealthy"}
    /\ disabled \in BOOLEAN /\ barred \in SUBSET Calls

(* DELETE /tools/{name} is final, however many rows racing grants left, and*)
(* across restarts: a call made after its answer is not let through, unless*)
(* a grant was still being written then or is asked for afterwards.        *)
DisabledToolIsRefused ==
    /\ disabled => ~HasCapability /\ \A f \in Functions : ~ShownEnabled(f)
    /\ \A c \in barred : call[c] # "allowed"
=============================================================================
