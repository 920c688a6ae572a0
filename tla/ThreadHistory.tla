--------------------------- MODULE ThreadHistory ---------------------------
(* The stored messages of one thread: what a turn hears of those before it *)
(* and what it leaves to those after it.                                   *)
(*                                                                         *)
(* A turn is the stream of one message.  What it stores it reads off the   *)
(* events it sent to the client, which name a tool but not the use of it;  *)
(* they are read once, in order, so that the model keeps the rows they     *)
(* make so far.  Whether a run may start, stays active or is resumed is    *)
(* RunLifecycle's; the graph's routes are AgentGraph's.  A transaction's   *)
(* rows are taken to have adjacent timestamps; compaction is left out.     *)
EXTENDS Integers, Sequences

CONSTANTS
    HistoryTurns,    \* the messages sent to the thread
    HistoryTools,    \* the names of the tools the agent uses
    HistoryLimit,    \* rows a turn loads: 20 in the code
    MaxUses,         \* bound: tool uses in a turn
    Apology          \* "I'm sorry, I couldn't generate a response."

ASSUME HistoryAssumption ==
    HistoryLimit \in Nat /\ MaxUses \in Nat /\ Apology \notin HistoryTurns

VARIABLES
    log,      \* Seq of Row: the thread's messages, by timestamp
    went,     \* [HistoryTurns -> TurnStep]
    heard,    \* [HistoryTurns -> Seq of Row]: history
    spoke,    \* [HistoryTurns -> BOOLEAN]: an agent's message had text
    uses,     \* [HistoryTurns -> Seq of HistoryTools]: the tools the agent used
    told,     \* [HistoryTurns -> Nat]: uses whose tool_called was or needed not be sent
    ran,      \* [HistoryTurns -> Nat]: uses whose results were sent
    kept,     \* [HistoryTurns -> Seq of Row]: turn_msgs, of collected_events so far
    reply     \* [HistoryTurns -> Text or "none"]: response_text

historyVars == <<log, went, heard, spoke, uses, told, ran, kept, reply>>
graph == <<spoke, uses>>
emitted == <<told, ran, kept>>

-----------------------------------------------------------------------------
TurnStep == {"unsent", "running", "over", "stored", "gone"}
Text == HistoryTurns \cup {Apology}

(* The number of a use within its turn tells its id and its result from    *)
(* others; synthetic ids ("tool_0") are as good as the provider's.         *)
Use == [tool : HistoryTools, number : 1 .. MaxUses]
UseOf(t, n) == [tool |-> uses[t][n], number |-> n]
NoUse == [tool |-> "none", number |-> 0]

(* The columns of messages, and the turn a row belongs to: its run_id.     *)
Row == [of : HistoryTurns, role : {"user", "assistant", "tool"},
        text : Text \cup {"none"}, calls : Seq(Use),
        answers : Use \cup {NoUse}, result : Use \cup {NoUse}]
RowOf(t, role, text, calls, id, use) ==
    [of |-> t, role |-> role, text |-> text, calls |-> calls, answers |-> id, result |-> use]
UserRow(t) == RowOf(t, "user", t, <<>>, NoUse, NoUse)
TextRow(t, text) == RowOf(t, "assistant", text, <<>>, NoUse, NoUse)
CallsRow(t, calls) == RowOf(t, "assistant", "none", calls, NoUse, NoUse)
ResultRow(t, id, use) == RowOf(t, "tool", "none", <<>>, id, use)

HistoryInit ==
    /\ log = <<>>
    /\ went = [t \in HistoryTurns |-> "unsent"]
    /\ heard = [t \in HistoryTurns |-> <<>>]
    /\ spoke = [t \in HistoryTurns |-> FALSE]
    /\ uses = [t \in HistoryTurns |-> <<>>]
    /\ told = [t \in HistoryTurns |-> 0]
    /\ ran = [t \in HistoryTurns |-> 0]
    /\ kept = [t \in HistoryTurns |-> <<>>]
    /\ reply = [t \in HistoryTurns |-> "none"]

-----------------------------------------------------------------------------
(* The run and its events *)

(* The newest rows, oldest first; none after an error.                     *)
Newest == SubSeq(log, Len(log) - HistoryLimit + 1, Len(log))
LoadHistory == {IF Len(log) > HistoryLimit THEN Newest ELSE log, <<>>}

BeginTurn(t) ==
    /\ went[t] = "unsent"
    /\ went' = [went EXCEPT ![t] = "running"]
    /\ \E history \in LoadHistory : heard' = [heard EXCEPT ![t] = history]
    /\ UNCHANGED <<log, graph, emitted, reply>>

(* The agent asks for tools, with or without words of its own.             *)
AgentCalls(t) ==
    /\ went[t] = "running" /\ ran[t] = Len(uses[t])
    /\ \E n \in 1 .. MaxUses - Len(uses[t]) : \E tools \in [1 .. n -> HistoryTools] :
         uses' = [uses EXCEPT ![t] = @ \o tools]
    /\ \E words \in BOOLEAN : spoke' = [spoke EXCEPT ![t] = @ \/ words]
    /\ UNCHANGED <<log, went, heard, emitted, reply>>

(* tool_called joins the round of the last one, or, after a result, opens  *)
(* a new round.                                                            *)
WithCall(t, rows, use) ==
    IF rows # <<>> /\ rows[Len(rows)].role = "assistant"
    THEN [rows EXCEPT ![Len(rows)].calls = Append(@, use)]
    ELSE Append(rows, CallsRow(t, <<use>>))

SeenTools(t) == {uses[t][n] : n \in 1 .. told[t]}

(* It is sent for the first use of a tool in a turn only.                  *)
SendToolCalled(t) ==
    /\ went[t] = "running" /\ told[t] < Len(uses[t])
    /\ told' = [told EXCEPT ![t] = @ + 1]
    /\ kept' = [kept EXCEPT ![t] = IF uses[t][told'[t]] \in SeenTools(t) THEN @
                                   ELSE WithCall(t, @, UseOf(t, told'[t]))]
    /\ UNCHANGED <<log, went, heard, graph, ran, reply>>

(* The calls of the last round; results before any call have none.         *)
RoundCalls(rows) ==
    LET round == {i \in DOMAIN rows : /\ rows[i].role = "assistant"
                                      /\ \A j \in DOMAIN rows : j > i => rows[j].role = "tool"}
    IN  IF round = {} THEN <<>> ELSE rows[CHOOSE i \in round : TRUE].calls

(* Mutant: an id can be taken again. *)
FreeAgain(rows, use) ==
    {k \in DOMAIN RoundCalls(rows) : RoundCalls(rows)[k].tool = use.tool}

(* The round's calls of the tool's name whose ids no result has taken.     *)
FreeCalls(rows, use) ==
    {k \in DOMAIN RoundCalls(rows) :
       /\ RoundCalls(rows)[k].tool = use.tool
       /\ \A i \in DOMAIN rows : rows[i].answers # RoundCalls(rows)[k]}

(* A result takes the first free id, or none.                              *)
WithResult(t, rows, use) ==
    LET free == FreeCalls(rows, use)
        first == CHOOSE k \in free : \A j \in free : k <= j
        id == IF free = {} THEN NoUse ELSE RoundCalls(rows)[first]
    IN  Append(rows, ResultRow(t, id, use))

(* Each result is sent twice, as tool_end and as tool_result.              *)
SendResult(t) ==
    /\ went[t] = "running" /\ told[t] = Len(uses[t]) /\ ran[t] < Len(uses[t])
    /\ ran' = [ran EXCEPT ![t] = @ + 1]
    /\ LET use == UseOf(t, ran[t] + 1)
       IN  kept' = [kept EXCEPT ![t] = WithResult(t, WithResult(t, @, use), use)]
    /\ UNCHANGED <<log, went, heard, graph, told, reply>>

(* The last assistant message with text, of this turn or of the history.   *)
ExtractResponse(t) ==
    LET texts == {i \in DOMAIN heard[t] : /\ heard[t][i].role = "assistant"
                                          /\ heard[t][i].text # "none"}
        last == CHOOSE i \in texts : \A j \in texts : j <= i
    IN  IF spoke[t] THEN t ELSE IF texts # {} THEN heard[t][last].text ELSE Apology

(* result_ready: with the graph's response or, if it is empty, without.    *)
TurnAnswers(t) ==
    /\ went[t] = "running" /\ ran[t] = Len(uses[t])
    /\ went' = [went EXCEPT ![t] = "over"]
    /\ \E text \in {t, ExtractResponse(t)} : reply' = [reply EXCEPT ![t] = text]
    /\ UNCHANGED <<log, heard, graph, emitted>>

(* An interrupt of the tools node, a timeout or an error: no result_ready. *)
TurnBreaks(t) ==
    /\ went[t] = "running"
    /\ went' = [went EXCEPT ![t] = "over"]
    /\ UNCHANGED <<log, heard, graph, emitted, reply>>

-----------------------------------------------------------------------------
(* What is stored *)

(* The stream is over, and its variables with it. *)
EndStream(t) ==
    /\ heard' = [heard EXCEPT ![t] = <<>>]
    /\ spoke' = [spoke EXCEPT ![t] = FALSE]
    /\ uses' = [uses EXCEPT ![t] = <<>>]
    /\ told' = [told EXCEPT ![t] = 0]
    /\ kept' = [kept EXCEPT ![t] = <<>>]
    /\ reply' = [reply EXCEPT ![t] = "none"]
    /\ UNCHANGED ran

(* _persist_messages: all of the turn's rows or, after an error, none.     *)
PersistMessages(t) ==
    /\ went[t] = "over"
    /\ went' = [went EXCEPT ![t] = "stored"]
    /\ log' = log \o <<UserRow(t)>> \o kept[t]
                  \o (IF reply[t] = "none" THEN <<>> ELSE <<TextRow(t, reply[t])>>)
    /\ EndStream(t)

(* The insert fails, the client disconnects or the process ends: nothing   *)
(* of the turn is stored.                                                  *)
TurnVanishes(t) ==
    /\ went[t] \in {"running", "over"}
    /\ went' = [went EXCEPT ![t] = "gone"]
    /\ EndStream(t)
    /\ UNCHANGED log

HistoryNext ==
    \E t \in HistoryTurns :
        \/ BeginTurn(t) \/ AgentCalls(t) \/ SendToolCalled(t) \/ SendResult(t)
        \/ TurnAnswers(t) \/ TurnBreaks(t) \/ PersistMessages(t) \/ TurnVanishes(t)

HistorySpec == HistoryInit /\ [][HistoryNext]_historyVars

-----------------------------------------------------------------------------
HistoryTypeOK ==
    /\ log \in Seq(Row)
    /\ went \in [HistoryTurns -> TurnStep]
    /\ heard \in [HistoryTurns -> Seq(Row)]
    /\ spoke \in [HistoryTurns -> BOOLEAN]
    /\ uses \in [HistoryTurns -> Seq(HistoryTools)]
    /\ told \in [HistoryTurns -> 0 .. MaxUses]
    /\ ran \in [HistoryTurns -> 0 .. MaxUses]
    /\ kept \in [HistoryTurns -> Seq(Row)]
    /\ reply \in [HistoryTurns -> Text \cup {"none"}]
    /\ \A t \in HistoryTurns : Len(heard[t]) <= HistoryLimit /\ Len(uses[t]) <= MaxUses

(* What a turn leaves behind is true: each use of a tool that returned is  *)
(* on record, in order; a result that names a call is that call's, no call *)
(* is named twice, and it stands before; and words that are not its own    *)
(* were an answer in the thread before.                                    *)
StoredTurnsAreTrue ==
    /\ \A t \in HistoryTurns : went[t] = "stored" =>
         \A n \in 1 .. ran[t] : \E i \in DOMAIN log :
            log[i].of = t /\ log[i].result.number = n
    /\ \A i, j \in DOMAIN log : i < j /\ log[i].of = log[j].of /\ log[j].role = "tool" =>
         log[i].result.number <= log[j].result.number
    /\ \A j \in DOMAIN log : log[j].answers # NoUse =>
         /\ log[j].answers = log[j].result
         /\ \A i \in 1 .. j - 1 : log[i].of = log[j].of => log[i].answers # log[j].answers
         /\ \E i \in 1 .. j - 1 :
               /\ log[i].of = log[j].of
               /\ \E k \in DOMAIN log[i].calls : log[i].calls[k] = log[j].answers
    /\ \A j \in DOMAIN log :
         log[j].role = "assistant" /\ log[j].text \notin {"none", log[j].of, Apology} =>
         \E i \in 1 .. j - 1 : log[i].role = "assistant" /\ log[i].text = log[j].text

(* Each result a turn hears or leaves answers a call, and no other result  *)
(* does: refuted, for every tool call (_extract_turn_messages: "Each round *)
(* is emitted as a separate assistant+tool message pair").                 *)
ResultsPairUp ==
    \A j \in DOMAIN log : log[j].role = "tool" =>
        /\ log[j].answers # NoUse
        /\ \A i \in DOMAIN log : log[i].of = log[j].of /\ log[i].result = log[j].result => i = j
=============================================================================
