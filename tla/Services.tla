------------------------------ MODULE Services ------------------------------
(* The services around a run: the audit log, the sessions, the Google      *)
(* account, the settings, the memory, the scheduler, the tool catalogue,   *)
(* the routing of messages, the threads' stored messages and the model     *)
(* calls.                                                                  *)
(*                                                                         *)
(* They share the process and the database but no state that a property of *)
(* one of them speaks of, so that a behaviour of this module is one of one *)
(* service, which part names, with the others at rest.                     *)
EXTENDS AuditChain, AuthSessions, GoogleLink, SettingsStore, MemoryFacts,
        TaskScheduler, ToolCatalog, MessageRouting, ThreadHistory, ModelCalls

VARIABLE part   \* the service that is at work

servicesVars == <<part, vars, authVars, googleVars, settingsVars, memoryVars,
                  schedulerVars, catalogVars, routingVars, historyVars, modelVars>>

-----------------------------------------------------------------------------
Parts == {"audit", "auth", "google", "settings", "memory", "scheduler", "catalog",
          "routing", "history", "models"}

(* Which threads there are matters to the routing only, and whether the    *)
(* user has a settings row to the settings.                                *)
ServicesInit ==
    /\ part \in Parts
    /\ Init /\ AuthInit /\ GoogleInit /\ SettingsInit /\ MemoryInit
    /\ SchedulerInit /\ CatalogInit /\ RoutingInit /\ HistoryInit /\ ModelInit
    /\ part # "routing" => \A t \in ThreadIds : domain[t] = "none"
    /\ part # "settings" => ~exists

(* Everything but the variables of the service p.                          *)
AtRest(p) ==
    /\ UNCHANGED part
    /\ IF p = "audit" THEN TRUE ELSE UNCHANGED vars
    /\ IF p = "auth" THEN TRUE ELSE UNCHANGED authVars
    /\ IF p = "google" THEN TRUE ELSE UNCHANGED googleVars
    /\ IF p = "settings" THEN TRUE ELSE UNCHANGED settingsVars
    /\ IF p = "memory" THEN TRUE ELSE UNCHANGED memoryVars
    /\ IF p = "scheduler" THEN TRUE ELSE UNCHANGED schedulerVars
    /\ IF p = "catalog" THEN TRUE ELSE UNCHANGED catalogVars
    /\ IF p = "routing" THEN TRUE ELSE UNCHANGED routingVars
    /\ IF p = "history" THEN TRUE ELSE UNCHANGED historyVars
    /\ IF p = "models" THEN TRUE ELSE UNCHANGED modelVars

ServicesNext ==
    \/ part = "audit" /\ Next /\ AtRest("audit")
    \/ part = "auth" /\ AuthNext /\ AtRest("auth")
    \/ part = "google" /\ GoogleNext /\ AtRest("google")
    \/ part = "settings" /\ SettingsNext /\ AtRest("settings")
    \/ part = "memory" /\ MemoryNext /\ AtRest("memory")
    \/ part = "scheduler" /\ SchedulerNext /\ AtRest("scheduler")
    \/ part = "catalog" /\ CatalogNext /\ AtRest("catalog")
    \/ part = "routing" /\ RoutingNext /\ AtRest("routing")
    \/ part = "history" /\ HistoryNext /\ AtRest("history")
    \/ part = "models" /\ ModelNext /\ AtRest("models")

(* The event loop and the database go on with the appends that began; no   *)
(* liveness is claimed of the other services here.                         *)
ServicesFairness ==
    WF_servicesVars(/\ part = "audit" /\ AtRest("audit")
                    /\ \E e \in Entries : LockLatest(e) \/ Flush(e) \/ Commit(e))

ServicesSpec == ServicesInit /\ [][ServicesNext]_servicesVars /\ ServicesFairness

-----------------------------------------------------------------------------
(* Every variable of every service keeps its shape.                        *)
ServicesTypeOK ==
    /\ part \in Parts
    /\ TypeOK /\ AuthTypeOK /\ GoogleTypeOK /\ SettingsTypeOK /\ MemoryTypeOK
    /\ SchedulerTypeOK /\ CatalogTypeOK /\ RoutingTypeOK /\ HistoryTypeOK /\ ModelTypeOK
=============================================================================
