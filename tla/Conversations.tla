--------------------------- MODULE Conversations ---------------------------
(***************************************************************************)
(* A conversation: its messages, the rolling summary with its cursor, and  *)
(* what a run is prompted with.  Before a prompt the older messages are    *)
(* folded into the summary, a batch to a transaction; the prompt is given  *)
(* the summary and the newest messages that fit the budget.                *)
(*                                                                         *)
(* A session has one run at a time (AgentRuns), so only that run appends;  *)
(* the conversation may be cleared, and the process may stop, at any time. *)
(* A message's text is its id.  It has two sizes in budget units: what its  *)
(* row takes as it is stored, and what it takes when its metadata (calls,  *)
(* the id of a call) is written again with every character that is not     *)
(* ASCII escaped, which is at least as much.                               *)
(***************************************************************************)
EXTENDS Integers, Sequences, FiniteSets

CONSTANTS
  KeepRecent,     \* ContextBudget.max_history_messages
  HistoryChars,   \* ContextBudget.max_history_chars, in budget units
  SummarySize,    \* ContextBudget.max_summary_chars, in messages
  FoldLimit,      \* rows of one compaction
  MaxMessages,    \* bound: messages ever written
  MaxClears       \* bound: clears, and processes that stop

ASSUME ConversationAssumption ==
  /\ {KeepRecent, HistoryChars, SummarySize, FoldLimit} \subseteq Nat \ {0}
  /\ MaxMessages \in Nat /\ MaxClears \in Nat

VARIABLES
  messages,   \* the live rows in the order of their ids
  lastId,     \* the last id AUTOINCREMENT gave
  summary,    \* session_summaries: the text, as the ids it quotes, and the cursor
  folded,     \* ghost: every id the summary was given since the last clear
  turn,       \* "idle", "compacting" or "running"
  prompt,     \* the history the running agent was given: rows, in the order of their ids
  clears      \* counts what MaxClears bounds

conversationVars == <<messages, lastId, summary, folded, turn, prompt, clears>>

NoSummary == [text |-> <<>>, cursor |-> 0]

ConversationInit ==
  /\ messages = <<>> /\ lastId = 0
  /\ summary = NoSummary /\ folded = <<>>
  /\ turn = "idle" /\ prompt = {} /\ clears = 0

-----------------------------------------------------------------------------
(* Messages.                                                               *)

\* A row; call is the id of the assistant message a tool row answers.
Message(id, role, size, shown, call) ==
  [id |-> id, role |-> role, size |-> size, shown |-> shown, call |-> call]

\* A row without metadata.
Plain(role, size) == Message(lastId + 1, role, size, size, 0)

\* add_message_batch: one transaction.
AddBatch(rows) ==
  /\ lastId + Len(rows) <= MaxMessages
  /\ messages' = messages \o rows
  /\ lastId' = lastId + Len(rows)

\* An assistant message with n calls, and their observations.  Escapes take
\* calls units more of the message, and ids units of each observation.
ExchangeRows(n, size, calls, ids) ==
  <<Message(lastId + 1, "call", 1, 1 + calls, 0)>> \o
  [k \in 1 .. n |-> Message(lastId + 1 + k, "tool", size, size + ids, lastId + 1)]

\* What the rows from the k-th on take of the budget, by either measure.
Cost(k, measure) == Cardinality(UNION {{i} \X (1 .. messages[i][measure]) : i \in k .. Len(messages)})

\* The newest rows, at most KeepRecent of them.
LastRows == IF Len(messages) > KeepRecent THEN Len(messages) + 1 - KeepRecent ELSE 1

\* Of the rows from a place on, the newest that take at most HistoryChars.
Fitting(from, measure) ==
  CHOOSE k \in from .. Len(messages) + 1 :
    Cost(k, measure) <= HistoryChars /\ \A j \in from .. k - 1 : Cost(j, measure) > HistoryChars

-----------------------------------------------------------------------------
(* before_prompt                                                           *)

\* The cutoff of compact, and the oldest row of conversation_history: both
\* count the rows as they are stored.
Kept == Fitting(LastRows, "size")

\* How many rows the cursor has passed; ids grow along the rows.
Passed == Cardinality({k \in DOMAIN messages : messages[k].id <= summary.cursor})

\* Rows below the cutoff the cursor has not passed.
Foldable == SubSeq(messages, Passed + 1, Kept - 1)

\* The first of them, at most FoldLimit.
Batch == SubSeq(messages, Passed + 1, IF Kept - 1 < Passed + FoldLimit THEN Kept - 1 ELSE Passed + FoldLimit)

Ids(rows) == [k \in DOMAIN rows |-> rows[k].id]

\* Mutant: the cursor moves to the last row below the cutoff.
CursorToCutoff(batch) == messages[Kept - 1].id

\* The cursor moves to the last row of the batch.
CursorAfter(batch) == batch[Len(batch)].id

\* Compactor.compact keeps the end of what grows too long.
Shortened(text) == IF Len(text) > SummarySize THEN SubSeq(text, Len(text) + 1 - SummarySize, Len(text)) ELSE text

BeginPrompt ==
  /\ turn = "idle"
  /\ turn' = "compacting"
  /\ UNCHANGED <<messages, lastId, summary, folded, prompt, clears>>

\* One transaction of SessionStore.compact.
Compact ==
  /\ turn = "compacting" /\ Foldable # <<>>
  /\ summary' = [text |-> Shortened(summary.text \o Ids(Batch)), cursor |-> CursorAfter(Batch)]
  /\ folded' = folded \o Ids(Batch)
  /\ UNCHANGED <<messages, lastId, turn, prompt, clears>>

\* ContextManager.history cuts the rows it is given again, now counting them
\* with the escapes.
Recent == SubSeq(messages, Fitting(Kept, "shown"), Len(messages))

\* Observations whose call was cut off are left out.  (A call comes with all
\* its observations: they were written together.)
Coherent(rows) ==
  LET given == {rows[k] : k \in DOMAIN rows}
  IN {row \in given : row.role = "tool" => \E other \in given : other.id = row.call}

\* The history of the prompt, and the user's message is appended.
StartTurn(size) ==
  /\ turn = "compacting" /\ Foldable = <<>>
  /\ prompt' = Coherent(Recent)
  /\ AddBatch(<<Plain("user", size)>>)
  /\ turn' = "running"
  /\ UNCHANGED <<summary, folded, clears>>

-----------------------------------------------------------------------------
(* The run.                                                                *)

AppendExchange(n, size, calls, ids) ==
  /\ turn = "running"
  /\ AddBatch(ExchangeRows(n, size, calls, ids))
  /\ UNCHANGED <<summary, folded, turn, prompt, clears>>

\* The answer is appended when there is one; the run ends either way.
EndTurn(answered) ==
  /\ turn = "running"
  /\ IF answered THEN AddBatch(<<Plain("assistant", 1)>>) ELSE UNCHANGED <<messages, lastId>>
  /\ turn' = "idle" /\ prompt' = {}
  /\ UNCHANGED <<summary, folded, clears>>

-----------------------------------------------------------------------------
(* Clearing, and a process that stops.                                     *)

Bounded == clears < MaxClears /\ clears' = clears + 1

\* clear_conversation: messages and summary in one transaction.  The prompt
\* of a run is what it was.
ClearConversation ==
  /\ Bounded
  /\ messages' = <<>> /\ summary' = NoSummary /\ folded' = <<>>
  /\ UNCHANGED <<lastId, turn, prompt>>

StopProcess ==
  /\ Bounded /\ turn # "idle"
  /\ turn' = "idle" /\ prompt' = {}
  /\ UNCHANGED <<messages, lastId, summary, folded>>

-----------------------------------------------------------------------------
ConversationNext ==
  \/ BeginPrompt \/ Compact
  \/ \E size \in 1 .. HistoryChars + 1 : StartTurn(size)
  \/ \E n \in 1 .. 2, size \in 1 .. 2, calls, ids \in 0 .. 1 : ids <= calls /\ AppendExchange(n, size, calls, ids)
  \/ \E answered \in BOOLEAN : EndTurn(answered)
  \/ ClearConversation \/ StopProcess

ConversationSpec == ConversationInit /\ [][ConversationNext]_conversationVars

-----------------------------------------------------------------------------
(* Properties.                                                             *)

ConversationTypeOK ==
  /\ lastId \in 0 .. MaxMessages /\ clears \in 0 .. MaxClears
  /\ turn \in {"idle", "compacting", "running"}
  /\ \A k \in DOMAIN messages : messages[k].id \in 1 .. lastId
  /\ Len(summary.text) <= SummarySize /\ summary.cursor \in 0 .. lastId

(* The summary has been given exactly the messages its cursor has passed,  *)
(* each once and in order, whatever batches, stops and clears came between *)
(* ("Advance summary and cursor together").                                *)
SummaryIsPrefix ==
  /\ folded = Ids(SubSeq(messages, 1, Passed))
  /\ \A k \in DOMAIN messages : messages[k].id <= summary.cursor <=> k <= Passed

(* The row fits the budget of a history as it is stored, and not with its  *)
(* escapes.  There is none where all text is ASCII.                        *)
HeldBack(k) == Cost(k, "size") <= HistoryChars /\ Cost(k, "shown") > HistoryChars

(* What falls between the summary and the history of a prompt: when a      *)
(* prompt is built, a message is in it or was given to the summary, unless *)
(* it is held back by the escapes, which the cutoff of the summary does    *)
(* not count, or is an observation whose call was given to the summary or  *)
(* held back.  And the prompt shows an observation only after its call.    *)
PromptCoversAll ==
  LET missing(k) == HeldBack(k) \/ messages[k].id <= summary.cursor
  IN turn = "compacting" /\ turn' = "running" =>
       /\ \A k \in DOMAIN messages :
            \/ missing(k)
            \/ messages[k].id \in {row.id : row \in prompt'}
            \/ messages[k].role = "tool" /\ \E j \in 1 .. k - 1 : messages[j].id = messages[k].call /\ missing(j)
       /\ \A row \in prompt' :
            row.role = "tool" => \E other \in prompt' : other.id = row.call /\ other.id < row.id

(* The summary has what its cursor passed and the history the rest, but    *)
(* for what the escapes hold back.                                         *)
NothingForgotten == [][SummaryIsPrefix' /\ PromptCoversAll]_conversationVars
=============================================================================
