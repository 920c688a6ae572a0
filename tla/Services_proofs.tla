-------------------------- MODULE Services_proofs ---------------------------
(* Theorems of Services: a behaviour of the services together is one of    *)
(* each of them, so that what is proved of each alone holds in it.         *)
EXTENDS Services, Accounts_proofs, Stores_proofs, Messages_proofs

-----------------------------------------------------------------------------
(* Each service starts in an initial state of its own.                     *)
LEMMA InitParts ==
    ServicesInit =>
        /\ part \in Parts
        /\ Init /\ AuthInit /\ GoogleInit /\ SettingsInit /\ MemoryInit
        /\ SchedulerInit /\ CatalogInit /\ RoutingInit /\ HistoryInit /\ ModelInit
  BY DEF ServicesInit

(* A step of the services is, for each of them, one of its own or none.    *)
LEMMA NextParts ==
    [ServicesNext]_servicesVars =>
        /\ UNCHANGED part
        /\ [Next]_vars /\ [AuthNext]_authVars /\ [GoogleNext]_googleVars
        /\ [SettingsNext]_settingsVars /\ [MemoryNext]_memoryVars
        /\ [SchedulerNext]_schedulerVars /\ [CatalogNext]_catalogVars
        /\ [RoutingNext]_routingVars /\ [HistoryNext]_historyVars /\ [ModelNext]_modelVars
<1> SUFFICES ASSUME [ServicesNext]_servicesVars
             PROVE  /\ UNCHANGED part
                    /\ [Next]_vars /\ [AuthNext]_authVars /\ [GoogleNext]_googleVars
                    /\ [SettingsNext]_settingsVars /\ [MemoryNext]_memoryVars
                    /\ [SchedulerNext]_schedulerVars /\ [CatalogNext]_catalogVars
                    /\ [RoutingNext]_routingVars /\ [HistoryNext]_historyVars
                    /\ [ModelNext]_modelVars
  OBVIOUS
<1>1. CASE ServicesNext
  BY <1>1 DEF ServicesNext, AtRest
<1>2. CASE UNCHANGED servicesVars
  BY <1>2 DEF servicesVars
<1> QED
  BY <1>1, <1>2

(* The services together implement each service: none of them takes a      *)
(* step, in the company of the others, that it could not take alone.       *)
THEOREM EachServiceIsImplemented ==
    ServicesSpec =>
        /\ Spec /\ AuthSpec /\ GoogleSpec /\ SettingsSpec /\ MemorySpec
        /\ SchedulerSpec /\ CatalogSpec /\ RoutingSpec /\ HistorySpec /\ ModelSpec
  BY InitParts, NextParts, PTL
  DEF ServicesSpec, Spec, AuthSpec, GoogleSpec, SettingsSpec, MemorySpec,
      SchedulerSpec, CatalogSpec, RoutingSpec, HistorySpec, ModelSpec

-----------------------------------------------------------------------------
(* Every variable of every service keeps its shape, whatever the others    *)
(* do.                                                                     *)
THEOREM ServicesAreTyped == ServicesSpec => []ServicesTypeOK
<1>1. ServicesSpec => [](part \in Parts)
  <2>1. part \in Parts /\ [ServicesNext]_servicesVars => (part \in Parts)'
    BY NextParts
  <2> QED
    BY <2>1, InitParts, PTL DEF ServicesSpec
<1>2. ServicesSpec =>
         [](AuthInv /\ GoogleInv /\ SettingsInv /\ MemoryInv /\ SchedulerInv
            /\ CatalogInv /\ RoutingInv)
  BY EachServiceIsImplemented, AuthInvariant, GoogleInvariant, SettingsInvariant,
     MemoryInvariant, SchedulerInvariant, CatalogInvariant, RoutingInvariant, PTL
<1>3. ServicesSpec => [](TypeOK /\ HistoryTypeOK /\ ModelTypeOK)
  BY EachServiceIsImplemented, AuditIsTyped, HistoryIsTyped, ModelCallsAreTyped, PTL
<1>4. /\ part \in Parts
      /\ AuthInv /\ GoogleInv /\ SettingsInv /\ MemoryInv /\ SchedulerInv
      /\ CatalogInv /\ RoutingInv
      /\ TypeOK /\ HistoryTypeOK /\ ModelTypeOK
      => ServicesTypeOK
  BY DEF ServicesTypeOK, AuthInv, GoogleInv, SettingsInv, MemoryInv, SchedulerInv,
         CatalogInv, RoutingInv
<1> QED
  BY <1>1, <1>2, <1>3, <1>4, PTL

(* What each service promises it still promises beside the others: the     *)
(* chain's links, the sessions, the grant, the settings, the facts, the    *)
(* tasks, the tools, the messages, the turns and the model's books.        *)
THEOREM EveryPromiseIsKept ==
    ServicesSpec =>
        [](/\ LinksLeadBack /\ SerialAppendsVerify
           /\ LoggedOutStaysOut /\ HeldTokenLives
           /\ LastWordHolds /\ LastSettingHolds /\ LastWishRemembered
           /\ NoCircularWait /\ CancelReachesAll /\ DisabledToolIsRefused
           /\ MessageOnce /\ ThreadKeepsDomain /\ StoredTurnsAreTrue /\ CallsCountedOnce)
  BY EachServiceIsImplemented, LinksNeverDangle, SerialChainVerifies, LogoutIsFinal,
     RotationStrandsNobody, LastWordIsFinal, LastWriterStands, WishesAreKept,
     NobodyWaitsInACircle, CancellationIsComplete, DisabledStaysRefused,
     OneMessagePerKey, DomainsAreKept, TurnsTellTheTruth, NoAnswerCountedTwice, PTL
=============================================================================
