----------------------------- MODULE MemoryFacts -----------------------------
(* One user's facts in a MemoryStore: the dictionary in memory, one JSON   *)
(* file for each fact, and the files read back at the next start.          *)
(*                                                                         *)
(* A fact goes by the order of its creation.  The file system is external: *)
(* a write may leave the old file, or one that is no JSON, and both errors *)
(* are swallowed.  Of the embedding only the wait for it is here: when it  *)
(* fails the fact is stored with an empty one, and recall only ranks by    *)
(* it.  The private and the external store run the same code; the external *)
(* one makes no embeddings.                                                *)
EXTENDS Integers

CONSTANTS
    Texts,          \* texts of facts
    Nothing,        \* no text
    MemoryCalls,    \* remember calls that may wait for an embedding at once
    MaxFacts        \* bound: facts stored

ASSUME MemoryAssumption == Nothing \notin Texts /\ MaxFacts \in Nat

VARIABLES
    made,       \* facts stored so far
    memory,     \* [FactIds -> Fact or NoFact]: _facts
    disk,       \* [FactIds -> Fact or NoFact or Torn]: the files
    embedding,  \* [MemoryCalls -> Texts or Nothing]: the text being embedded
    wish,       \* history: [FactIds -> Fact or NoFact]: after the last call on it
    marred,     \* history: facts with a write or unlink that did not succeed
    edited      \* history: facts whose text was updated

memoryVars == <<made, memory, disk, embedding, wish, marred, edited>>

-----------------------------------------------------------------------------
FactIds == 1 .. MaxFacts
Fact == [text : Texts, status : {"pending", "approved"}]
NoFact == [text |-> Nothing, status |-> "none"]
Torn == [text |-> Nothing, status |-> "torn"]

Known(f) == memory[f] # NoFact

(* What recall chooses among.                                              *)
Recallable == {f \in FactIds : memory[f].status = "approved"}

MemoryInit ==
    /\ made = 0
    /\ memory = [f \in FactIds |-> NoFact] /\ disk = [f \in FactIds |-> NoFact]
    /\ embedding = [c \in MemoryCalls |-> Nothing]
    /\ wish = [f \in FactIds |-> NoFact]
    /\ marred = {} /\ edited = {}

(* Set the fact in memory and in its file, which may keep its content or   *)
(* be cut short (_persist).                                                *)
Persist(f, fact) ==
    /\ memory' = [memory EXCEPT ![f] = fact]
    /\ wish' = [wish EXCEPT ![f] = fact]
    /\ \/ disk' = [disk EXCEPT ![f] = fact] /\ UNCHANGED marred
       \/ /\ disk' \in {disk, [disk EXCEPT ![f] = Torn]}
          /\ marred' = marred \cup {f}

(* An exact text of the user's, whatever its status.                       *)
Duplicate(text) == \E f \in FactIds : memory[f].text = text

(* MemoryStore.store; a duplicate changes nothing.                         *)
Store(text, status) ==
    IF Duplicate(text) THEN UNCHANGED <<made, memory, disk, wish, marred>>
    ELSE /\ made < MaxFacts
         /\ made' = made + 1
         /\ Persist(made + 1, [text |-> text, status |-> status])

(* POST /memory/facts, and the external store's remember.                  *)
CreateFact ==
    /\ \E text \in Texts : Store(text, "approved")
    /\ UNCHANGED <<embedding, edited>>

(* remember awaits the embedding of its text ...                           *)
Embed(c) ==
    /\ embedding[c] = Nothing
    /\ \E text \in Texts : embedding' = [embedding EXCEPT ![c] = text]
    /\ UNCHANGED <<made, memory, disk, wish, marred, edited>>

(* ... and stores it, pending when auto_extract called.                    *)
Remember(c) ==
    /\ embedding[c] # Nothing
    /\ \E status \in {"pending", "approved"} : Store(embedding[c], status)
    /\ embedding' = [embedding EXCEPT ![c] = Nothing]
    /\ UNCHANGED edited

ApproveFact(f) ==
    /\ Known(f)
    /\ Persist(f, [memory[f] EXCEPT !.status = "approved"])
    /\ UNCHANGED <<made, embedding, edited>>

(* Mutant: the text is changed in place and not persisted.                 *)
UpdateInMemory(f) ==
    /\ Known(f)
    /\ \E text \in Texts :
         /\ memory' = [memory EXCEPT ![f].text = text]
         /\ wish' = [wish EXCEPT ![f].text = text]
    /\ edited' = edited \cup {f}
    /\ UNCHANGED <<made, disk, embedding, marred>>

(* The embedding stays that of the old text; duplicates are not looked for.*)
UpdateFact(f) ==
    /\ Known(f)
    /\ \E text \in Texts : Persist(f, [memory[f] EXCEPT !.text = text])
    /\ edited' = edited \cup {f}
    /\ UNCHANGED <<made, embedding>>

(* Forgotten in memory, then the file is unlinked; an error is swallowed.  *)
DeleteFact(f) ==
    /\ Known(f)
    /\ memory' = [memory EXCEPT ![f] = NoFact]
    /\ wish' = [wish EXCEPT ![f] = NoFact]
    /\ \/ disk' = [disk EXCEPT ![f] = NoFact] /\ UNCHANGED marred
       \/ marred' = marred \cup {f} /\ UNCHANGED disk
    /\ UNCHANGED <<made, embedding, edited>>

(* _load_from_disk skips a file that is no JSON.                           *)
MemoryRestart ==
    /\ memory' = [f \in FactIds |-> IF disk[f] = Torn THEN NoFact ELSE disk[f]]
    /\ embedding' = [c \in MemoryCalls |-> Nothing]
    /\ UNCHANGED <<made, disk, wish, marred, edited>>

MemoryNext ==
    \/ CreateFact \/ MemoryRestart
    \/ \E c \in MemoryCalls : Embed(c) \/ Remember(c)
    \/ \E f \in FactIds : ApproveFact(f) \/ UpdateFact(f) \/ DeleteFact(f)

MemorySpec == MemoryInit /\ [][MemoryNext]_memoryVars

-----------------------------------------------------------------------------
MemoryTypeOK ==
    /\ made \in 0 .. MaxFacts
    /\ memory \in [FactIds -> Fact \cup {NoFact}]
    /\ disk \in [FactIds -> Fact \cup {NoFact, Torn}]
    /\ embedding \in [MemoryCalls -> Texts \cup {Nothing}]
    /\ wish \in [FactIds -> Fact \cup {NoFact}]
    /\ marred \in SUBSET FactIds /\ edited \in SUBSET FactIds

(* Across restarts and calls that wait for an embedding, a fact none of    *)
(* whose writes failed is what the user last made of it: approved or not,  *)
(* with its latest text, gone once deleted.  And the same text is not      *)
(* remembered twice, unless an update made it so.                          *)
LastWishRemembered ==
    /\ \A f \in FactIds \ marred : memory[f] = wish[f]
    /\ \A f, g \in Recallable \ (marred \cup edited) :
          memory[f].text = memory[g].text => f = g
=============================================================================
