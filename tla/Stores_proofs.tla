--------------------------- MODULE Stores_proofs ----------------------------
(* Theorems of AuditChain, for any number of appends; of MemoryFacts, for  *)
(* any texts, calls and number of facts; of ToolCatalog, for any tools,    *)
(* functions and calls; and of TaskScheduler, for any finite set of tasks, *)
(* priorities and chain limit.                                             *)
EXTENDS AuditChain, MemoryFacts, ToolCatalog, TaskScheduler,
        FiniteSetTheorems, WellFoundedInduction, TLAPS

-----------------------------------------------------------------------------
(* AuditChain                                                              *)

(* An entry has a time exactly from its flush on, and no two the same.     *)
TimesInv ==
    /\ \A e \in Entries :
          /\ pc[e] \in {"idle", "selected", "locked"} => timestamp[e] = 0
          /\ pc[e] \in {"flushed", "committed"} => timestamp[e] > 0
    /\ \A e, f \in Entries :
          timestamp[e] = timestamp[f] => e = f \/ timestamp[e] = 0

(* The row an append chose is committed, older than the entry it leads to, *)
(* and the one the entry links to.                                         *)
ReadInv ==
    \A e \in Entries :
        /\ pc[e] \in {"selected", "locked", "flushed", "committed"} /\ latest[e] # NoEntry =>
              /\ latest[e] \in Log
              /\ timestamp[e] > 0 => timestamp[latest[e]] < timestamp[e]
        /\ pc[e] \in {"locked", "flushed", "committed"} => previous[e] = latest[e]

(* What an append that overlaps no other knows of the log. *)
KnowsNewest(e) ==
    /\ IF latest[e] = NoEntry THEN Log = {}
       ELSE \A f \in Log : timestamp[f] <= timestamp[latest[e]]
    /\ pc[e] = "flushed" => \A f \in Log : timestamp[f] < timestamp[e]

SerialInv ==
    ~overlap =>
        /\ \A e, f \in InProgress : e = f
        /\ \A e \in InProgress : KnowsNewest(e)
        /\ ChainValid

AuditInv == TypeOK /\ TimesInv /\ ReadInv /\ SerialInv

-----------------------------------------------------------------------------
(* The empty log is well typed.                                            *)
LEMMA InitAudit == Init => TypeOK
<1> SUFFICES ASSUME Init PROVE TypeOK
  OBVIOUS
<1>1. timestamp \in [Entries -> 0..clock]
  <2>1. clock = 0 /\ 0 \in 0..0
    BY DEF Init
  <2> QED
    BY <2>1 DEF Init
<1> QED
  BY <1>1 DEF Init, TypeOK, AppendPC

(* Every step keeps every variable's shape.                                *)
LEMMA NextAuditType == TypeOK /\ [Next]_vars => TypeOK'
<1> SUFFICES ASSUME TypeOK, [Next]_vars
             PROVE  TypeOK'
  OBVIOUS
<1> USE DEF TypeOK, AppendPC
<1>1. ASSUME NEW e \in Entries, SelectLatest(e) PROVE TypeOK'
  BY <1>1 DEF SelectLatest, Log, InProgress
<1>2. ASSUME NEW e \in Entries, LockLatest(e) PROVE TypeOK'
  BY <1>2 DEF LockLatest
<1>3. ASSUME NEW e \in Entries, Flush(e) PROVE TypeOK'
  BY <1>3 DEF Flush
<1>4. ASSUME NEW e \in Entries, Commit(e) PROVE TypeOK'
  BY <1>4 DEF Commit
<1>5. ASSUME NEW e \in Entries, Rollback(e) PROVE TypeOK'
  BY <1>5 DEF Rollback
<1>6. CASE UNCHANGED vars
  BY <1>6 DEF vars
<1> QED
  BY <1>1, <1>2, <1>3, <1>4, <1>5, <1>6 DEF Next, AppendStep

(* The variables keep their types and no entry is from the future          *)
(* (create_entry_async).                                                   *)
THEOREM AuditIsTyped == Spec => []TypeOK
<1>1. Init => TypeOK
  BY InitAudit
<1> QED
  BY <1>1, NextAuditType, PTL DEF Spec

-----------------------------------------------------------------------------
(* Entries get their times at the flush, each a later one.                 *)
LEMMA NextTimes == TypeOK /\ TimesInv /\ [Next]_vars => TimesInv'
<1> SUFFICES ASSUME TypeOK, TimesInv, [Next]_vars
             PROVE  TimesInv'
  OBVIOUS
<1> USE DEF TypeOK, TimesInv
<1>1. ASSUME NEW e \in Entries, SelectLatest(e) PROVE TimesInv'
  BY <1>1 DEF SelectLatest
<1>2. ASSUME NEW e \in Entries, LockLatest(e) PROVE TimesInv'
  BY <1>2 DEF LockLatest
<1>3. ASSUME NEW e \in Entries, Flush(e) PROVE TimesInv'
  <2>1. \A f \in Entries \ {e} : timestamp'[f] = timestamp[f] /\ pc'[f] = pc[f]
    BY <1>3 DEF Flush
  <2>2. timestamp'[e] = clock + 1 /\ pc'[e] = "flushed"
    BY <1>3 DEF Flush
  <2>3. \A f \in Entries : timestamp[f] \in Nat /\ timestamp[f] <= clock
    OBVIOUS
  <2> QED
    BY <2>1, <2>2, <2>3
<1>4. ASSUME NEW e \in Entries, Commit(e) PROVE TimesInv'
  BY <1>4 DEF Commit
<1>5. ASSUME NEW e \in Entries, Rollback(e) PROVE TimesInv'
  BY <1>5 DEF Rollback
<1>6. CASE UNCHANGED vars
  BY <1>6 DEF vars
<1> QED
  BY <1>1, <1>2, <1>3, <1>4, <1>5, <1>6 DEF Next, AppendStep

(* A commit is final, so what an append read stays read.                   *)
LEMMA NextRead == TypeOK /\ TimesInv /\ ReadInv /\ [Next]_vars => ReadInv'
<1> SUFFICES ASSUME TypeOK, TimesInv, ReadInv, [Next]_vars
             PROVE  ReadInv'
  OBVIOUS
<1> USE NullAssumption DEF TypeOK, ReadInv, Log
<1>1. ASSUME NEW e \in Entries, SelectLatest(e) PROVE ReadInv'
  BY <1>1 DEF SelectLatest, IsLatest, TimesInv
<1>2. ASSUME NEW e \in Entries, LockLatest(e) PROVE ReadInv'
  BY <1>2 DEF LockLatest
<1>3. ASSUME NEW e \in Entries, Flush(e) PROVE ReadInv'
  <2>1. \A f \in Entries \ {e} : timestamp'[f] = timestamp[f] /\ pc'[f] = pc[f]
    BY <1>3 DEF Flush
  <2>2. timestamp'[e] = clock + 1 /\ pc'[e] = "flushed" /\ pc[e] = "locked"
    BY <1>3 DEF Flush
  <2>3. \A f \in Entries : timestamp[f] \in Nat /\ timestamp[f] <= clock
    OBVIOUS
  <2>4. latest' = latest /\ previous' = previous /\ clock \in Nat
    BY <1>3 DEF Flush
  <2>5. Log' = Log
    BY <2>1, <2>2
  <2>6. ASSUME NEW f \in Entries, latest[f] # NoEntry,
               pc'[f] \in {"selected", "locked", "flushed", "committed"}
        PROVE  latest[f] \in Log /\ (timestamp'[f] > 0 => timestamp'[latest[f]] < timestamp'[f])
    <3>1. latest[f] \in Log /\ latest[f] # e
      BY <2>1, <2>2, <2>6
    <3> QED
      BY <3>1, <2>1, <2>2, <2>3, <2>4, <2>6
  <2> QED
    BY <2>1, <2>2, <2>4, <2>5, <2>6
<1>4. ASSUME NEW e \in Entries, Commit(e) PROVE ReadInv'
  BY <1>4 DEF Commit
<1>5. ASSUME NEW e \in Entries, Rollback(e) PROVE ReadInv'
  BY <1>5 DEF Rollback, InProgress
<1>6. CASE UNCHANGED vars
  BY <1>6 DEF vars
<1> QED
  BY <1>1, <1>2, <1>3, <1>4, <1>5, <1>6 DEF Next, AppendStep

(* Without overlap one append at a time extends a chain that verifies.     *)
LEMMA NextSerial ==
    TypeOK /\ TimesInv /\ ReadInv /\ SerialInv /\ [Next]_vars => SerialInv'
<1> SUFFICES ASSUME TypeOK, TimesInv, ReadInv, SerialInv, [Next]_vars, ~overlap'
             PROVE  (/\ \A e, f \in InProgress : e = f
                     /\ \A e \in InProgress : KnowsNewest(e)
                     /\ ChainValid)'
  BY DEF SerialInv
<1> DEFINE Serial == /\ \A e, f \in InProgress : e = f
                     /\ \A e \in InProgress : KnowsNewest(e)
                     /\ ChainValid
<1> SUFFICES Serial'
  OBVIOUS
<1>0. ~overlap /\ Serial
  BY DEF SerialInv, TypeOK, Next, AppendStep, SelectLatest, LockLatest, Flush, Commit, Rollback, vars
<1> USE NullAssumption DEF TypeOK
<1>1. ASSUME NEW e \in Entries, SelectLatest(e) PROVE Serial'
  <2>1. Log' = Log /\ timestamp' = timestamp /\ previous' = previous
    BY <1>1 DEF SelectLatest, Log
  <2>2. InProgress' = {e} /\ pc'[e] = "selected"
    BY <1>1 DEF SelectLatest, InProgress
  <2>3. KnowsNewest(e)'
    BY <1>1, <2>1, <2>2 DEF KnowsNewest, SelectLatest, IsLatest, Log
  <2>4. ChainValid'
    BY <1>0, <2>1 DEF ChainValid, Continues, Before
  <2> QED
    BY <2>2, <2>3, <2>4
<1>2. ASSUME NEW e \in Entries, LockLatest(e) PROVE Serial'
  <2>1. Log' = Log /\ timestamp' = timestamp /\ latest' = latest
    BY <1>2 DEF LockLatest, Log
  <2>2. InProgress' = {e} /\ pc'[e] = "locked" /\ e \in InProgress
    BY <1>0, <1>2 DEF LockLatest, InProgress
  <2>3. KnowsNewest(e)'
    BY <1>0, <2>1, <2>2 DEF KnowsNewest
  <2>4. \A f \in Log : previous'[f] = previous[f]
    BY <1>2 DEF LockLatest, Log
  <2>5. ChainValid'
    BY <1>0, <2>1, <2>4 DEF ChainValid, Continues, Before
  <2> QED
    BY <2>2, <2>3, <2>5
<1>3. ASSUME NEW e \in Entries, Flush(e) PROVE Serial'
  <2>1. Log' = Log /\ latest' = latest /\ previous' = previous
    BY <1>3 DEF Flush, Log
  <2>2. InProgress' = {e} /\ pc'[e] = "flushed" /\ e \in InProgress /\ e \notin Log
    BY <1>0, <1>3 DEF Flush, InProgress, Log
  <2>3. \A f \in Entries \ {e} : timestamp'[f] = timestamp[f]
    BY <1>3 DEF Flush
  <2>4. timestamp'[e] = clock + 1 /\ \A f \in Log : timestamp[f] < clock + 1
    BY <1>3 DEF Flush, Log
  <2>5. latest[e] # NoEntry => latest[e] \in Log
    BY <1>3 DEF ReadInv, Flush
  <2>6. KnowsNewest(e)'
    BY <1>0, <2>1, <2>2, <2>3, <2>4, <2>5 DEF KnowsNewest, Log
  <2>7. \A f \in Log : Before(f)' = Before(f) /\ Before(f) \subseteq Log
    BY <2>1, <2>2, <2>3 DEF Before, Log
  <2>8. ChainValid'
    <3> SUFFICES ASSUME NEW f \in Log PROVE Continues(f)'
      BY <2>1 DEF ChainValid
    <3>1. Continues(f) /\ f \in Entries
      BY <1>0 DEF ChainValid, Log
    <3>2. \A g \in Before(f) : timestamp'[g] = timestamp[g] /\ g \in Entries
      BY <2>2, <2>3, <2>7 DEF Log
    <3> QED
      BY <3>1, <3>2, <2>1, <2>7 DEF Continues
  <2> QED
    BY <2>2, <2>6, <2>8
<1>4. ASSUME NEW e \in Entries, Commit(e) PROVE Serial'
  <2>1. latest' = latest /\ previous' = previous /\ timestamp' = timestamp
    BY <1>4 DEF Commit
  <2>2. InProgress' = {} /\ e \in InProgress /\ pc[e] = "flushed"
    BY <1>0, <1>4 DEF Commit, InProgress
  <2>3. Log' = Log \cup {e} /\ Log \subseteq Entries /\ e \notin Log
    BY <1>4 DEF Commit, Log
  <2>4. \A f \in Log : timestamp[f] < timestamp[e]
    BY <1>0, <2>2 DEF KnowsNewest
  <2>5. Before(e)' = Log
    BY <2>1, <2>3, <2>4 DEF Before
  <2>6. Continues(e)'
    <3>1. previous[e] = latest[e] /\ (latest[e] # NoEntry => latest[e] \in Log)
      BY <2>2 DEF ReadInv
    <3> QED
      BY <1>0, <2>1, <2>2, <2>5, <3>1 DEF Continues, KnowsNewest
  <2>7. \A f \in Log : Before(f)' = Before(f)
    BY <2>1, <2>3, <2>4 DEF Before
  <2>8. ChainValid'
    BY <1>0, <2>1, <2>3, <2>6, <2>7 DEF ChainValid, Continues
  <2> QED
    BY <2>2, <2>8
<1>5. ASSUME NEW e \in Entries, Rollback(e) PROVE Serial'
  <2>1. Log' = Log /\ timestamp' = timestamp /\ previous' = previous
    BY <1>5 DEF Rollback, Log, InProgress
  <2>2. InProgress' = {}
    BY <1>0, <1>5 DEF Rollback, InProgress
  <2> QED
    BY <1>0, <2>1, <2>2 DEF ChainValid, Continues, Before
<1>6. CASE UNCHANGED vars
  BY <1>0, <1>6 DEF vars, InProgress, KnowsNewest, ChainValid, Continues, Before, Log
<1> QED
  BY <1>1, <1>2, <1>3, <1>4, <1>5, <1>6 DEF Next, AppendStep

-----------------------------------------------------------------------------
(* AuditInv holds from the first state on.                                     *)
LEMMA AuditInvariant == Spec => []AuditInv
<1>1. Init => AuditInv
  <2> SUFFICES ASSUME Init PROVE AuditInv
    OBVIOUS
  <2>1. \A e \in Entries : pc[e] = "idle" /\ timestamp[e] = 0
    BY DEF Init
  <2>2. Log = {} /\ InProgress = {}
    BY <2>1 DEF Log, InProgress
  <2>3. ReadInv
    BY <2>1 DEF ReadInv
  <2>4. TimesInv
    BY <2>1 DEF TimesInv
  <2>5. SerialInv
    BY <2>2 DEF SerialInv, ChainValid
  <2> QED
    BY InitAudit, <2>3, <2>4, <2>5 DEF AuditInv
<1>2. AuditInv /\ [Next]_vars => AuditInv'
  BY NextAuditType, NextTimes, NextRead, NextSerial DEF AuditInv
<1> QED
  BY <1>1, <1>2, PTL DEF Spec

(* Every link of the log leads to an older committed entry, whatever       *)
(* appends overlap or roll back (create_entry_async).                      *)
THEOREM LinksNeverDangle == Spec => []LinksLeadBack
<1>1. AuditInv => LinksLeadBack
  BY DEF AuditInv, TypeOK, TimesInv, ReadInv, LinksLeadBack, Log
<1> QED
  BY <1>1, AuditInvariant, PTL

(* verify_chain accepts the log of appends that do not overlap.            *)
THEOREM SerialChainVerifies == Spec => []SerialAppendsVerify
<1>1. AuditInv => SerialAppendsVerify
  BY DEF AuditInv, SerialInv, SerialAppendsVerify
<1> QED
  BY <1>1, AuditInvariant, PTL

-----------------------------------------------------------------------------
(* MemoryFacts                                                             *)

(* A file none of whose writes failed holds what memory holds, and that is *)
(* what the user last made of the fact.                                    *)
Synced ==
    \A f \in FactIds \ marred : memory[f] = wish[f] /\ disk[f] = wish[f]

(* Pending facts too are stored once, or approving one would make a second.*)
Single ==
    \A f, g \in FactIds \ (marred \cup edited) :
       Known(f) /\ Known(g) /\ memory[f].text = memory[g].text => f = g

MemoryInv == MemoryTypeOK /\ Synced /\ Single

USE MemoryAssumption

-----------------------------------------------------------------------------
(* There are no facts.                                                     *)
LEMMA InitMemoryInv == MemoryInit => MemoryInv
  BY DEF MemoryInit, MemoryInv, MemoryTypeOK, Synced, Single, Known, FactIds

(* A known fact has a text and a status.                                   *)
LEMMA KnownIsFact ==
    ASSUME MemoryTypeOK, NEW f \in FactIds, Known(f) PROVE memory[f] \in Fact
  BY DEF MemoryTypeOK, Known

(* Setting a fact keeps the types, and the file in step unless the write   *)
(* failed.                                                                 *)
LEMMA PersistKeeps ==
    ASSUME MemoryTypeOK, Synced, NEW f \in FactIds, NEW fact \in Fact,
           Persist(f, fact)
    PROVE  /\ memory' \in [FactIds -> Fact \cup {NoFact}]
           /\ disk' \in [FactIds -> Fact \cup {NoFact, Torn}]
           /\ wish' \in [FactIds -> Fact \cup {NoFact}]
           /\ marred' \in SUBSET FactIds /\ marred \subseteq marred'
           /\ memory' = [memory EXCEPT ![f] = fact]
           /\ Synced'
<1> USE DEF MemoryTypeOK, Persist
<1>1. /\ memory' = [memory EXCEPT ![f] = fact] /\ wish' = [wish EXCEPT ![f] = fact]
      /\ memory' \in [FactIds -> Fact \cup {NoFact}]
      /\ wish' \in [FactIds -> Fact \cup {NoFact}]
  OBVIOUS
<1>2. CASE disk' = [disk EXCEPT ![f] = fact] /\ UNCHANGED marred
  BY <1>1, <1>2 DEF Synced
<1>3. CASE disk' \in {disk, [disk EXCEPT ![f] = Torn]} /\ marred' = marred \cup {f}
  <2>1. disk' \in [FactIds -> Fact \cup {NoFact, Torn}]
    BY <1>3
  <2>2. \A g \in FactIds : g # f => disk'[g] = disk[g]
    BY <1>3
  <2>3. Synced'
    BY <1>1, <1>3, <2>2 DEF Synced
  <2> QED
    BY <1>1, <1>3, <2>1, <2>3
<1> QED
  BY <1>2, <1>3

(* A text that is there is not stored again, so a stored fact is the only  *)
(* one with its text.                                                      *)
LEMMA StoreKeeps ==
    ASSUME MemoryInv, NEW text \in Texts, NEW status \in {"pending", "approved"},
           Store(text, status), UNCHANGED edited,
           embedding' \in [MemoryCalls -> Texts \cup {Nothing}]
    PROVE  MemoryInv'
<1>1. CASE Duplicate(text)
  BY <1>1 DEF Store, MemoryInv, MemoryTypeOK, Synced, Single, Known
<1>2. CASE ~Duplicate(text)
  <2> DEFINE f == made + 1
             fact == [text |-> text, status |-> status]
  <2>1. f \in FactIds /\ made' = f /\ Persist(f, fact) /\ fact \in Fact
    BY <1>2 DEF Store, MemoryInv, MemoryTypeOK, FactIds, Fact
  <2>2. \A g \in FactIds : memory[g].text # text
    BY <1>2 DEF Duplicate
  <2> HIDE DEF f, fact
  <2>3. /\ memory' \in [FactIds -> Fact \cup {NoFact}]
        /\ disk' \in [FactIds -> Fact \cup {NoFact, Torn}]
        /\ wish' \in [FactIds -> Fact \cup {NoFact}]
        /\ marred' \in SUBSET FactIds /\ marred \subseteq marred'
        /\ memory' = [memory EXCEPT ![f] = fact]
        /\ Synced'
    BY <2>1, PersistKeeps DEF MemoryInv
  <2>4. memory'[f].text = text /\ \A g \in FactIds \ {f} : memory'[g] = memory[g]
    BY <2>1, <2>3 DEF MemoryInv, MemoryTypeOK, fact
  <2>5. Single'
    BY <2>2, <2>3, <2>4 DEF MemoryInv, Single, Known
  <2>6. MemoryTypeOK'
    BY <2>1, <2>3 DEF MemoryInv, MemoryTypeOK, FactIds
  <2> QED
    BY <2>3, <2>5, <2>6 DEF MemoryInv
<1> QED
  BY <1>1, <1>2

-----------------------------------------------------------------------------
(* Every step keeps the invariant.                                         *)
LEMMA NextMemoryInv ==
    ASSUME MemoryInv, [MemoryNext]_memoryVars PROVE MemoryInv'
<1>1. CASE CreateFact
  BY <1>1, StoreKeeps DEF CreateFact, MemoryInv, MemoryTypeOK
<1>2. ASSUME NEW c \in MemoryCalls, Embed(c) PROVE MemoryInv'
  BY <1>2 DEF Embed, MemoryInv, MemoryTypeOK, Synced, Single, Known
<1>3. ASSUME NEW c \in MemoryCalls, Remember(c) PROVE MemoryInv'
  <2>1. embedding[c] \in Texts
    BY <1>3 DEF Remember, MemoryInv, MemoryTypeOK
  <2>2. embedding' \in [MemoryCalls -> Texts \cup {Nothing}]
    BY <1>3 DEF Remember, MemoryInv, MemoryTypeOK
  <2>3. PICK status \in {"pending", "approved"} : Store(embedding[c], status)
    BY <1>3 DEF Remember
  <2>4. UNCHANGED edited
    BY <1>3 DEF Remember
  <2> QED
    BY <2>1, <2>2, <2>3, <2>4, StoreKeeps
<1>4. ASSUME NEW f \in FactIds, ApproveFact(f) PROVE MemoryInv'
  <2> DEFINE fact == [memory[f] EXCEPT !.status = "approved"]
  <2>1. memory[f] \in Fact
    BY <1>4, KnownIsFact DEF ApproveFact, MemoryInv
  <2>2. fact \in Fact /\ fact.text = memory[f].text
    BY <2>1 DEF Fact
  <2>3. Persist(f, fact)
    BY <1>4 DEF ApproveFact
  <2> HIDE DEF fact
  <2>4. /\ memory' \in [FactIds -> Fact \cup {NoFact}]
        /\ disk' \in [FactIds -> Fact \cup {NoFact, Torn}]
        /\ wish' \in [FactIds -> Fact \cup {NoFact}]
        /\ marred' \in SUBSET FactIds /\ marred \subseteq marred'
        /\ memory' = [memory EXCEPT ![f] = fact]
        /\ Synced'
    BY <2>2, <2>3, PersistKeeps DEF MemoryInv
  <2>5. \A g \in FactIds : memory'[g].text = memory[g].text /\ (Known(g)' => Known(g))
    BY <1>4, <2>2, <2>4 DEF ApproveFact, MemoryInv, MemoryTypeOK, Known
  <2>6. Single'
    BY <1>4, <2>4, <2>5 DEF ApproveFact, MemoryInv, Single
  <2> QED
    BY <1>4, <2>4, <2>6 DEF ApproveFact, MemoryInv, MemoryTypeOK
<1>5. ASSUME NEW f \in FactIds, UpdateFact(f) PROVE MemoryInv'
  <2>1. PICK text \in Texts : Persist(f, [memory[f] EXCEPT !.text = text])
    BY <1>5 DEF UpdateFact
  <2> DEFINE fact == [memory[f] EXCEPT !.text = text]
  <2>2. memory[f] \in Fact
    BY <1>5, KnownIsFact DEF UpdateFact, MemoryInv
  <2>3. fact \in Fact /\ Persist(f, fact)
    BY <2>1, <2>2 DEF Fact
  <2> HIDE DEF fact
  <2>4. /\ memory' \in [FactIds -> Fact \cup {NoFact}]
        /\ disk' \in [FactIds -> Fact \cup {NoFact, Torn}]
        /\ wish' \in [FactIds -> Fact \cup {NoFact}]
        /\ marred' \in SUBSET FactIds /\ marred \subseteq marred'
        /\ memory' = [memory EXCEPT ![f] = fact]
        /\ Synced'
    BY <2>3, PersistKeeps DEF MemoryInv
  <2>5. edited' = edited \cup {f}
    BY <1>5 DEF UpdateFact
  <2>6. \A g \in FactIds \ {f} : memory'[g] = memory[g]
    BY <2>4 DEF MemoryInv, MemoryTypeOK
  <2>7. Single'
    BY <2>4, <2>5, <2>6 DEF MemoryInv, Single, Known
  <2> QED
    BY <1>5, <2>4, <2>5, <2>7 DEF UpdateFact, MemoryInv, MemoryTypeOK
<1>6. ASSUME NEW f \in FactIds, DeleteFact(f) PROVE MemoryInv'
  <2>1. MemoryTypeOK'
    BY <1>6 DEF DeleteFact, MemoryInv, MemoryTypeOK
  <2>2. Synced'
    BY <1>6 DEF DeleteFact, MemoryInv, MemoryTypeOK, Synced
  <2>3. Single'
    BY <1>6 DEF DeleteFact, MemoryInv, MemoryTypeOK, Single, Known
  <2> QED
    BY <2>1, <2>2, <2>3 DEF MemoryInv
<1>7. CASE MemoryRestart
  <2>1. \A f \in FactIds : memory'[f] = IF disk[f] = Torn THEN NoFact ELSE disk[f]
    BY <1>7 DEF MemoryRestart
  <2>2. MemoryTypeOK'
    <3>1. memory' \in [FactIds -> Fact \cup {NoFact}]
      BY <1>7 DEF MemoryRestart, MemoryInv, MemoryTypeOK
    <3> QED
      BY <1>7, <3>1 DEF MemoryRestart, MemoryInv, MemoryTypeOK
  <2>3. \A f \in FactIds \ marred : memory'[f] = memory[f]
    <3> SUFFICES ASSUME NEW f \in FactIds \ marred PROVE memory'[f] = memory[f]
      OBVIOUS
    <3>1. disk[f] = memory[f] /\ memory[f] \in Fact \cup {NoFact}
      BY DEF MemoryInv, MemoryTypeOK, Synced
    <3>2. Torn \notin Fact \cup {NoFact}
      BY DEF Torn, Fact, NoFact
    <3> QED
      BY <2>1, <3>1, <3>2
  <2>4. Synced' /\ Single'
    BY <1>7, <2>3 DEF MemoryRestart, MemoryInv, Synced, Single, Known
  <2> QED
    BY <2>2, <2>4 DEF MemoryInv
<1>8. CASE UNCHANGED memoryVars
  BY <1>8 DEF memoryVars, MemoryInv, MemoryTypeOK, Synced, Single, Known
<1> QED
  BY <1>1, <1>2, <1>3, <1>4, <1>5, <1>6, <1>7, <1>8 DEF MemoryNext

-----------------------------------------------------------------------------
(* The strengthened invariant holds of every behaviour.                    *)
THEOREM MemoryInvariant == MemorySpec => []MemoryInv
<1>1. MemoryInv /\ [MemoryNext]_memoryVars => MemoryInv'
  BY NextMemoryInv
<1> QED
  BY InitMemoryInv, <1>1, PTL DEF MemorySpec

(* However many facts, calls and restarts there are, a fact none of whose  *)
(* writes failed stays what the user last made of it, and no text is       *)
(* recalled twice unless an update made it so.                             *)
THEOREM WishesAreKept == MemorySpec => []LastWishRemembered
<1>1. MemoryInv => LastWishRemembered
  <2> SUFFICES ASSUME MemoryInv PROVE LastWishRemembered
    OBVIOUS
  <2>1. \A f \in Recallable : f \in FactIds /\ Known(f)
    BY DEF Recallable, Known, NoFact
  <2> QED
    BY <2>1 DEF MemoryInv, Synced, Single, LastWishRemembered
<1> QED
  BY MemoryInvariant, <1>1, PTL

HIDE MemoryAssumption

-----------------------------------------------------------------------------
(* ToolCatalog                                                             *)

(* While the tool is disabled it has no row, no grant is on its way to one,*)
(* and only then are calls barred; a barred call was not let through.      *)
Barred ==
    /\ disabled => /\ \A k \in Scope : granted[k] = 0
                   /\ \A q \in GrantRequests : granting[q] = "none"
    /\ ~disabled => barred = {}
    /\ \A c \in barred : call[c] # "allowed"

CatalogInv == CatalogTypeOK /\ Barred

USE CatalogAssumption

-----------------------------------------------------------------------------
(* A fresh database has no rows, and nothing was disabled yet.             *)
LEMMA InitCatalogInv == CatalogInit => CatalogInv
<1> SUFFICES ASSUME CatalogInit PROVE CatalogInv
  OBVIOUS
<1>1. CatalogTypeOK
  <2>1. adapter \in [Names -> {"none", "builtin", "custom"}]
    BY DEF CatalogInit, Registered
  <2>2. granted \in [Scope -> 0 .. MaxRows] /\ used \in [{"user", "global"} -> 0 .. CallLimit]
    BY DEF CatalogInit
  <2> QED
    BY <2>1, <2>2 DEF CatalogInit, CatalogTypeOK, CallPC
<1>2. Barred
  BY DEF CatalogInit, Barred
<1> QED
  BY <1>1, <1>2 DEF CatalogInv

-----------------------------------------------------------------------------
(* A step keeps the types.                                                 *)
LEMMA NextCatalogType ==
    ASSUME CatalogTypeOK, [CatalogNext]_catalogVars PROVE CatalogTypeOK'
<1> USE DEF CatalogTypeOK, CallPC
<1>1. CASE CatalogRestart
  BY <1>1 DEF CatalogRestart, Registered
<1>2. CASE LoadCustom
  BY <1>2 DEF LoadCustom
<1>3. CASE RegisterCustomTool
  BY <1>3 DEF RegisterCustomTool
<1>4. CASE DisableTool
  BY <1>4 DEF DisableTool
<1>5. CASE DisableFunction
  <2>1. PICK f \in Functions : granted' = [granted EXCEPT ![f] = 0]
    BY <1>5 DEF DisableFunction
  <2>2. granted' \in [Scope -> 0 .. MaxRows]
    BY <2>1 DEF Scope
  <2> QED
    BY <1>5, <2>2 DEF DisableFunction
<1>6. CASE Probe
  <2>1. used' \in [{"user", "global"} -> 0 .. CallLimit]
    BY <1>6 DEF Probe
  <2>2. health' \in {"unchecked", "healthy", "unhealthy"}
    BY <1>6 DEF Probe
  <2> QED
    BY <1>6, <2>1, <2>2 DEF Probe
<1>7. CASE WindowPasses
  BY <1>7 DEF WindowPasses
<1>8. ASSUME NEW q \in GrantRequests, Grant(q) PROVE CatalogTypeOK'
  <2>1. PICK k \in Scope : granting' = [granting EXCEPT ![q] = k]
    BY <1>8 DEF Grant
  <2>2. granting' \in [GrantRequests -> Scope \cup {"none"}]
    BY <2>1
  <2> QED
    BY <1>8, <2>2 DEF Grant
<1>9. ASSUME NEW q \in GrantRequests, GrantInsert(q) PROVE CatalogTypeOK'
  <2>1. granted' \in [Scope -> 0 .. MaxRows]
    BY <1>9 DEF GrantInsert
  <2>2. granting' \in [GrantRequests -> Scope \cup {"none"}]
    BY <1>9 DEF GrantInsert
  <2> QED
    BY <1>9, <2>1, <2>2 DEF GrantInsert
<1>10. ASSUME NEW c \in Calls, CallTool(c) PROVE CatalogTypeOK'
  BY <1>10 DEF CallTool
<1>11. ASSUME NEW c \in Calls, CheckCapability(c) PROVE CatalogTypeOK'
  BY <1>11 DEF CheckCapability
<1>12. ASSUME NEW c \in Calls, Execute(c) PROVE CatalogTypeOK'
  BY <1>12 DEF Execute
<1>13. CASE UNCHANGED catalogVars
  BY <1>13 DEF catalogVars
<1> QED
  BY <1>1, <1>2, <1>3, <1>4, <1>5, <1>6, <1>7, <1>8, <1>9, <1>10, <1>11, <1>12, <1>13
     DEF CatalogNext

-----------------------------------------------------------------------------
(* A disabled tool gets no row before another grant is asked for, and a    *)
(* call that is checked meanwhile ends.                                    *)
LEMMA NextBarred ==
    ASSUME CatalogInv, [CatalogNext]_catalogVars PROVE Barred'
<1> USE DEF CatalogInv, CatalogTypeOK, Barred, CallPC
<1>1. CASE CatalogRestart
  <2>1. \A c \in barred : call'[c] # "allowed"
    BY <1>1 DEF CatalogRestart
  <2> QED
    BY <1>1, <2>1 DEF CatalogRestart
<1>2. CASE LoadCustom
  BY <1>2 DEF LoadCustom
<1>3. CASE RegisterCustomTool
  BY <1>3 DEF RegisterCustomTool
<1>4. CASE DisableTool
  <2>1. \A k \in Scope : granted'[k] = 0
    BY <1>4 DEF DisableTool
  <2>2. disabled' = \A q \in GrantRequests : granting[q] = "none"
    BY <1>4 DEF DisableTool
  <2> QED
    BY <1>4, <2>1, <2>2 DEF DisableTool
<1>5. CASE DisableFunction
  BY <1>5 DEF DisableFunction
<1>6. CASE Probe
  BY <1>6 DEF Probe
<1>7. CASE WindowPasses
  BY <1>7 DEF WindowPasses
<1>8. ASSUME NEW q \in GrantRequests, Grant(q) PROVE Barred'
  BY <1>8 DEF Grant
<1>9. ASSUME NEW q \in GrantRequests, GrantInsert(q) PROVE Barred'
  BY <1>9 DEF GrantInsert
<1>10. ASSUME NEW c \in Calls, CallTool(c) PROVE Barred'
  BY <1>10 DEF CallTool
<1>11. ASSUME NEW c \in Calls, CheckCapability(c) PROVE Barred'
  <2>1. c \in barred => ~HasCapability
    BY DEF HasCapability
  <2>2. \A d \in barred : call'[d] # "allowed"
    BY <1>11, <2>1 DEF CheckCapability
  <2> QED
    BY <1>11, <2>2 DEF CheckCapability
<1>12. ASSUME NEW c \in Calls, Execute(c) PROVE Barred'
  BY <1>12 DEF Execute
<1>13. CASE UNCHANGED catalogVars
  BY <1>13 DEF catalogVars
<1> QED
  BY <1>1, <1>2, <1>3, <1>4, <1>5, <1>6, <1>7, <1>8, <1>9, <1>10, <1>11, <1>12, <1>13
     DEF CatalogNext

-----------------------------------------------------------------------------
(* The strengthened invariant holds of every behaviour.                    *)
THEOREM CatalogInvariant == CatalogSpec => []CatalogInv
<1>1. CatalogInv /\ [CatalogNext]_catalogVars => CatalogInv'
  BY NextCatalogType, NextBarred DEF CatalogInv
<1> QED
  BY InitCatalogInv, <1>1, PTL DEF CatalogSpec

(* Once DELETE /tools/{name} has answered with no grant on its way, the    *)
(* tool has no capability row and no call made since is let through, for   *)
(* any number of racing requests, calls, functions and restarts.           *)
THEOREM DisabledStaysRefused == CatalogSpec => []DisabledToolIsRefused
<1>1. CatalogInv => DisabledToolIsRefused
  <2> SUFFICES ASSUME CatalogInv PROVE DisabledToolIsRefused
    OBVIOUS
  <2>1. disabled => ~HasCapability
    BY DEF CatalogInv, CatalogTypeOK, Barred, HasCapability
  <2>2. disabled => \A f \in Functions : ~ShownEnabled(f)
    BY DEF CatalogInv, CatalogTypeOK, Barred, ShownEnabled, Scope
  <2> QED
    BY <2>1, <2>2 DEF CatalogInv, Barred, DisabledToolIsRefused
<1> QED
  BY CatalogInvariant, <1>1, PTL

-----------------------------------------------------------------------------
(* TaskScheduler                                                           *)

(* A task that was never enqueued depends on nothing.                      *)
AbsentNeedsNothing == \A t \in TaskIds : state[t] = "absent" => deps[t] = {}

(* The tasks ts hold all that a task of theirs depends on.                 *)
Closed(ts) == \A t \in ts : deps[t] \subseteq ts

(* No task is among those it waits for, over any number of steps: some     *)
(* closed set holds its dependencies and not the task.                     *)
Acyclic ==
    \A t \in TaskIds : \E ts \in SUBSET TaskIds :
      deps[t] \subseteq ts /\ Closed(ts) /\ t \notin ts

(* A task that is queued from now on comes after every cancellation.       *)
CancelledBefore == \A t \in TaskIds : cancelled[t] <= counter

SchedulerInv ==
    /\ SchedulerTypeOK /\ AbsentNeedsNothing /\ Acyclic
    /\ CancelledBefore /\ CancelReachesAll

USE SchedulerAssumption

-----------------------------------------------------------------------------
(* Needs(ds) is the least closed set of tasks that holds ds.               *)
LEMMA NeedsIsLeast ==
    ASSUME SchedulerTypeOK, AbsentNeedsNothing, NEW ds \in SUBSET TaskIds
    PROVE  /\ Needs(ds) \subseteq TaskIds
           /\ ds \subseteq Needs(ds)
           /\ Closed(Needs(ds))
           /\ \A ts \in SUBSET TaskIds :
                ds \subseteq ts /\ Closed(ts) => Needs(ds) \subseteq ts
<1> DEFINE Wanted(ts) == UNION {deps[t] : t \in ts \cap Enqueued}
<1>1. \A ts \in SUBSET TaskIds : Wanted(ts) \subseteq ts <=> Closed(ts)
  BY DEF SchedulerTypeOK, AbsentNeedsNothing, Enqueued, Closed
<1>2. Needs(ds) = {t \in TaskIds : \A ts \in SUBSET TaskIds :
                     ds \subseteq ts /\ Wanted(ts) \subseteq ts => t \in ts}
  BY DEF Needs, Closure
<1>3. Needs(ds) = {t \in TaskIds : \A ts \in SUBSET TaskIds :
                     ds \subseteq ts /\ Closed(ts) => t \in ts}
  BY <1>1, <1>2
<1> QED
  BY <1>3 DEF Closed, SchedulerTypeOK

(* Nothing is queued yet.                                                  *)
LEMMA InitSchedulerInv == SchedulerInit => SchedulerInv
<1> SUFFICES ASSUME SchedulerInit PROVE SchedulerInv
  OBVIOUS
<1>1. SchedulerTypeOK /\ AbsentNeedsNothing
  BY DEF SchedulerInit, SchedulerTypeOK, TaskStates, AbsentNeedsNothing
<1>2. \A t \in TaskIds : deps[t] \subseteq {} /\ Closed({}) /\ t \notin {}
  BY DEF SchedulerInit, Closed
<1> QED
  BY <1>1, <1>2
  DEF SchedulerInit, SchedulerInv, Acyclic, CancelledBefore, CancelReachesAll,
      Active

(* Every step leaves values of the right kind.                             *)
LEMMA NextSchedulerType ==
    ASSUME SchedulerTypeOK, [SchedulerNext]_schedulerVars PROVE SchedulerTypeOK'
<1> USE DEF SchedulerTypeOK, TaskStates
<1>1. ASSUME NEW t \in TaskIds, Dequeue(t) PROVE SchedulerTypeOK'
  BY <1>1 DEF Dequeue
<1>2. ASSUME NEW t \in TaskIds, Complete(t) PROVE SchedulerTypeOK'
  BY <1>2 DEF Complete
<1>3. ASSUME NEW t \in TaskIds, Cancel(t) PROVE SchedulerTypeOK'
  BY <1>3 DEF Cancel
<1>4. ASSUME NEW t \in TaskIds, Retry(t) PROVE SchedulerTypeOK'
  BY <1>4 DEF Retry
<1>5. ASSUME NEW t \in TaskIds, NEW p \in Priorities, NEW ds \in SUBSET TaskIds,
             Enqueue(t, p, ds)
      PROVE  SchedulerTypeOK'
  BY <1>5 DEF Enqueue
<1>6. CASE UNCHANGED schedulerVars
  BY <1>6 DEF schedulerVars
<1> QED
  BY <1>1, <1>2, <1>3, <1>4, <1>5, <1>6 DEF SchedulerNext

(* A task that is enqueued, for the first time or again, closes no circle: *)
(* the tasks its new dependencies need do not hold it, and what needs it   *)
(* needs those from now on.                                                *)
LEMMA EnqueueStaysAcyclic ==
    ASSUME SchedulerTypeOK, AbsentNeedsNothing, Acyclic,
           NEW t \in TaskIds, NEW ds \in SUBSET TaskIds,
           ~Circular(t, ds), deps' = [deps EXCEPT ![t] = ds]
    PROVE  Acyclic'
<1>1. PICK ns \in SUBSET TaskIds : ds \subseteq ns /\ Closed(ns) /\ t \notin ns
  BY NeedsIsLeast DEF Circular
<1>2. deps'[t] = ds /\ \A u \in TaskIds \ {t} : deps'[u] = deps[u]
  BY DEF SchedulerTypeOK
<1> SUFFICES ASSUME NEW u \in TaskIds
             PROVE  \E ts \in SUBSET TaskIds :
                      deps'[u] \subseteq ts /\ Closed(ts)' /\ u \notin ts
  BY DEF Acyclic
<1>3. CASE u = t
  BY <1>1, <1>2, <1>3 DEF Closed
<1>4. CASE u # t
  <2>1. PICK as \in SUBSET TaskIds : deps[u] \subseteq as /\ Closed(as) /\ u \notin as
    BY DEF Acyclic
  <2>2. CASE t \notin as
    BY <1>2, <1>4, <2>1, <2>2 DEF Closed
  <2>3. CASE t \in as /\ u \notin ns
    <3>1. as \cup ns \in SUBSET TaskIds /\ Closed(as \cup ns)'
      BY <1>1, <1>2, <2>1 DEF Closed
    <3> QED
      BY <1>2, <1>4, <2>1, <2>3, <3>1
  <2>4. CASE u \in ns
    <3>1. as \cap ns \in SUBSET TaskIds /\ Closed(as \cap ns)'
      BY <1>1, <1>2, <2>1 DEF Closed
    <3>2. deps'[u] \subseteq as \cap ns
      BY <1>1, <1>2, <1>4, <2>1, <2>4 DEF Closed
    <3> QED
      BY <2>1, <3>1, <3>2
  <2> QED
    BY <2>2, <2>3, <2>4
<1> QED
  BY <1>3, <1>4

(* A cancelled task takes along every queued or running task that depends  *)
(* on one it takes along.                                                  *)
LEMMA CascadeReaches ==
    ASSUME SchedulerTypeOK, NEW t \in TaskIds
    PROVE  /\ Cascade(t) \subseteq TaskIds /\ t \in Cascade(t)
           /\ \A u \in Active : deps[u] \cap Cascade(t) # {} => u \in Cascade(t)
<1> DEFINE Dragged(ts) == {u \in Active : deps[u] \cap ts # {}}
<1>1. Cascade(t) = {u \in TaskIds : \A ts \in SUBSET TaskIds :
                      {t} \subseteq ts /\ Dragged(ts) \subseteq ts => u \in ts}
  BY DEF Cascade, Closure
<1> QED
  BY <1>1 DEF Active

(* Every step keeps what the tasks wait for free of circles.               *)
LEMMA NextAcyclic ==
    ASSUME SchedulerInv, [SchedulerNext]_schedulerVars
    PROVE  AbsentNeedsNothing' /\ Acyclic'
<1> USE DEF SchedulerInv
<1>1. ASSUME deps' = deps,
             \A t \in TaskIds : state'[t] = "absent" => state[t] = "absent"
      PROVE  AbsentNeedsNothing' /\ Acyclic'
  BY <1>1 DEF AbsentNeedsNothing, Acyclic, Closed
<1>2. ASSUME NEW t \in TaskIds, Dequeue(t) \/ Complete(t) \/ Retry(t)
      PROVE  AbsentNeedsNothing' /\ Acyclic'
  BY <1>1, <1>2 DEF Dequeue, Complete, Retry, SchedulerTypeOK
<1>3. ASSUME NEW t \in TaskIds, Cancel(t)
      PROVE  AbsentNeedsNothing' /\ Acyclic'
  BY <1>1, <1>3 DEF Cancel, SchedulerTypeOK
<1>4. ASSUME NEW t \in TaskIds, NEW p \in Priorities, NEW ds \in SUBSET TaskIds,
             Enqueue(t, p, ds)
      PROVE  AbsentNeedsNothing' /\ Acyclic'
  <2>1. AbsentNeedsNothing'
    BY <1>4 DEF Enqueue, AbsentNeedsNothing, SchedulerTypeOK
  <2>2. Acyclic'
    BY <1>4, EnqueueStaysAcyclic DEF Enqueue
  <2> QED
    BY <2>1, <2>2
<1>5. CASE UNCHANGED schedulerVars
  BY <1>1, <1>5 DEF schedulerVars
<1> QED
  BY <1>2, <1>3, <1>4, <1>5 DEF SchedulerNext

(* What is queued again is queued after every cancellation so far.         *)
LEMMA NextCancelReaches ==
    ASSUME SchedulerInv, [SchedulerNext]_schedulerVars
    PROVE  CancelledBefore' /\ CancelReachesAll'
<1> USE DEF SchedulerInv, SchedulerTypeOK, CancelledBefore, CancelReachesAll, Active
<1>1. ASSUME NEW t \in TaskIds, Dequeue(t)
      PROVE  CancelledBefore' /\ CancelReachesAll'
  BY <1>1 DEF Dequeue
<1>2. ASSUME NEW t \in TaskIds, Complete(t)
      PROVE  CancelledBefore' /\ CancelReachesAll'
  BY <1>2 DEF Complete
<1>3. ASSUME NEW t \in TaskIds, Cancel(t)
      PROVE  CancelledBefore' /\ CancelReachesAll'
  <2> DEFINE taken == Cascade(t)
  <2>1. /\ taken \subseteq TaskIds
        /\ \A u \in Active : deps[u] \cap taken # {} => u \in taken
    BY CascadeReaches
  <2>2. /\ state' = [u \in TaskIds |-> IF u \in taken THEN "cancelled" ELSE state[u]]
        /\ cancelled' = [u \in TaskIds |-> IF u \in taken THEN counter ELSE cancelled[u]]
        /\ deps' = deps /\ sequence' = sequence /\ counter' = counter
    BY <1>3 DEF Cancel
  <2> HIDE DEF taken
  <2>3. CancelledBefore'
    BY <2>2
  <2>4. ASSUME NEW u \in Active', NEW d \in deps[u], state'[d] = "cancelled"
        PROVE  sequence[u] >= cancelled'[d]
    BY <2>1, <2>2, <2>4
  <2> QED
    BY <2>2, <2>3, <2>4
<1>4. ASSUME NEW t \in TaskIds, Retry(t)
      PROVE  CancelledBefore' /\ CancelReachesAll'
  BY <1>4 DEF Retry
<1>5. ASSUME NEW t \in TaskIds, NEW p \in Priorities, NEW ds \in SUBSET TaskIds,
             Enqueue(t, p, ds)
      PROVE  CancelledBefore' /\ CancelReachesAll'
  BY <1>5 DEF Enqueue
<1>6. CASE UNCHANGED schedulerVars
  BY <1>6 DEF schedulerVars
<1> QED
  BY <1>1, <1>2, <1>3, <1>4, <1>5, <1>6 DEF SchedulerNext

(* Of the queued tasks, the one that needs the fewest waits for none of    *)
(* them: a queued dependency of it would need fewer.                       *)
LEMMA SomeTaskWaitsForNone ==
    ASSUME SchedulerInv PROVE NoCircularWait
<1> SUFFICES ASSUME NEW q \in TaskIds, state[q] = "queued",
                    \A t \in TaskIds : state[t] # "running"
             PROVE  \E t \in TaskIds :
                      /\ state[t] = "queued"
                      /\ IsBlocked(t) => \E d \in deps[t] : state[d] \in {"cancelled", "absent"}
  BY DEF NoCircularWait
<1> USE DEF SchedulerInv
<1> DEFINE Queued == {t \in TaskIds : state[t] = "queued"}
           Load == {Needs(deps[t]) : t \in Queued}
           order == StrictSubsetOrdering(TaskIds)
<1>1. \A t \in TaskIds : /\ deps[t] \subseteq Needs(deps[t])
                         /\ Closed(Needs(deps[t]))
                         /\ Needs(deps[t]) \subseteq TaskIds
                         /\ t \notin Needs(deps[t])
  <2> SUFFICES ASSUME NEW t \in TaskIds
               PROVE  /\ deps[t] \subseteq Needs(deps[t])
                      /\ Closed(Needs(deps[t]))
                      /\ Needs(deps[t]) \subseteq TaskIds
                      /\ t \notin Needs(deps[t])
    OBVIOUS
  <2>1. deps[t] \subseteq TaskIds
    BY DEF SchedulerTypeOK
  <2> QED
    BY <2>1, NeedsIsLeast DEF Acyclic
<1>2. Load \subseteq FiniteSubsetsOf(TaskIds) /\ Load # {}
  BY <1>1, FS_Subset DEF SchedulerAssumption, FiniteSubsetsOf
<1>3. PICK least \in Load : \A ts \in Load : <<ts, least>> \notin order
  BY <1>2, FS_StrictSubsetOrderingWellFounded, WFMin
<1>4. PICK t \in Queued : least = Needs(deps[t])
  BY <1>3
<1>5. ASSUME NEW d \in deps[t], state[d] = "queued" PROVE FALSE
  <2>1. d \in Queued /\ d \in Needs(deps[t]) /\ deps[d] \subseteq Needs(deps[t])
    BY <1>1, <1>5 DEF Closed
  <2>2. Needs(deps[d]) \subseteq Needs(deps[t])
    BY <1>1, <2>1, NeedsIsLeast
  <2>3. <<Needs(deps[d]), Needs(deps[t])>> \in order
    BY <1>1, <2>1, <2>2 DEF StrictSubsetOrdering
  <2> QED
    BY <1>3, <1>4, <2>1, <2>3
<1>6. \A d \in deps[t] : state[d] \in {"absent", "completed", "cancelled"}
  BY <1>5 DEF SchedulerTypeOK, TaskStates
<1> QED
  BY <1>6 DEF IsBlocked

-----------------------------------------------------------------------------
(* The scheduler's records are of the right kind, a dependency closes no   *)
(* circle, and every task queued from now on comes after the cancellations.*)
THEOREM SchedulerInvariant == SchedulerSpec => []SchedulerInv
<1>1. SchedulerInv /\ [SchedulerNext]_schedulerVars => SchedulerInv'
  BY NextSchedulerType, NextAcyclic, NextCancelReaches DEF SchedulerInv
<1> QED
  BY <1>1, InitSchedulerInv, PTL DEF SchedulerSpec

(* For any tasks, priorities and chain limit: tasks do not wait for each   *)
(* other in a circle.                                                      *)
THEOREM NobodyWaitsInACircle == SchedulerSpec => []NoCircularWait
<1>1. SchedulerInv => NoCircularWait
  BY SomeTaskWaitsForNone
<1> QED
  BY <1>1, SchedulerInvariant, PTL

(* For any tasks: a cancellation reaches all that depends on its task.     *)
THEOREM CancellationIsComplete == SchedulerSpec => []CancelReachesAll
<1>1. SchedulerInv => CancelReachesAll
  BY DEF SchedulerInv
<1> QED
  BY <1>1, SchedulerInvariant, PTL

HIDE SchedulerAssumption
=============================================================================
