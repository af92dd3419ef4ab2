---------------------------- MODULE Conversation ----------------------------
(***************************************************************************)
(* The life of one conversation in the database: the handlers of           *)
(* conversation/service.rs that create it, append a question, start a      *)
(* completion and delete it, and the completion tasks that settle answers. *)
(*                                                                         *)
(* No handler locks anything.  Each reads the conversation, reads the last *)
(* message, perhaps counts, and writes what it computed from those reads,  *)
(* so several requests may be between their reads and their writes.        *)
(* A completion is one step here, its settling; module Completion has the  *)
(* rest.                                                                   *)
(***************************************************************************)
EXTENDS Naturals, Sequences, FiniteSets

CONSTANTS
  Handlers,         \* requests that can be in progress at the same time
  MaxUserMessages,  \* constants::MAX_USER_MESSAGES_PER_CONVERSATION
  Outcomes,         \* the terminal statuses a completion may end with
  MaxFaults         \* bound: crashes, abandoned requests and failed status writes

Terminal == {"PROCESSED", "FAILED", "AWAITING_CLARIFICATION", "REJECTED"}

ASSUME ConversationAssumption ==
  /\ IsFiniteSet(Handlers) /\ Handlers # {}
  /\ MaxUserMessages \in Nat \ {0}
  /\ Outcomes \subseteq Terminal
  /\ MaxFaults \in Nat

VARIABLES
  conversation,  \* the row: "none", "ACTIVE" or "deleted"
  messages,      \* the message rows with its conversation_id, in order of insertion
  answering,     \* the messages a completion task is still going to settle
  pc,            \* what each request is about to do
  last,          \* the sequence_number each request has read
  faults         \* how many faults have happened

vars == <<conversation, messages, answering, pc, last, faults>>

Operation == {"append", "complete", "delete"}
Pc == {"idle", "count", "insert_question", "insert_answer"} \cup Operation

Message == [seq : Nat, sender : {"HUMAN", "ASSISTANT"},
            status : {"PROCESSING"} \cup Terminal, valid : BOOLEAN]

\* A question; valid says whether validate_question accepts its text.
Question(n, valid) ==
  [seq |-> n, sender |-> "HUMAN", status |-> "PROCESSED", valid |-> valid]

Answer(n) == [seq |-> n, sender |-> "ASSISTANT", status |-> "PROCESSING", valid |-> TRUE]

Ids == DOMAIN messages

UserMessages == {i \in Ids : messages[i].sender = "HUMAN"}

\* The rows get_last_message_by_conversation_id may return: nothing orders equal numbers.
LastIds == {i \in Ids : \A j \in Ids : messages[j].seq <= messages[i].seq}

Init ==
  /\ conversation = "none" /\ messages = <<>> /\ answering = {}
  /\ pc = [h \in Handlers |-> "idle"]
  /\ last = [h \in Handlers |-> 0]
  /\ faults = 0

Goto(h, label) == pc' = [pc EXCEPT ![h] = label]

-----------------------------------------------------------------------------
(* Requests.                                                               *)

\* create_conversation: one transaction.  The first question is not validated.
Create(valid) ==
  /\ conversation = "none"
  /\ conversation' = "ACTIVE"
  /\ messages' = <<Question(1, valid)>>
  /\ UNCHANGED <<answering, pc, last, faults>>

\* The handlers of an existing conversation begin with get_conversation (for a bulk deletion,
\* with count_conversations_by_ids).
Arrive(h, op) ==
  /\ pc[h] = "idle" /\ conversation = "ACTIVE"
  /\ Goto(h, op)
  /\ UNCHANGED <<conversation, messages, answering, last, faults>>

\* A request ends before it writes: refused, failed or cancelled by its client.
Drop(h) ==
  /\ pc[h] # "idle"
  /\ Goto(h, "idle")
  /\ UNCHANGED <<conversation, messages, answering, last, faults>>

\* Mutant of AppendRead: the status of the last message is not looked at.
AppendReadAnyStatus(h) ==
  /\ pc[h] = "append"
  /\ \E i \in LastIds :
       /\ messages[i].sender = "ASSISTANT"
       /\ last' = [last EXCEPT ![h] = messages[i].seq]
  /\ Goto(h, "count")
  /\ UNCHANGED <<conversation, messages, answering, faults>>

\* append_user_message: the last message has to be an answer that is no longer in progress.
AppendRead(h) ==
  /\ pc[h] = "append"
  /\ \E i \in LastIds :
       /\ messages[i].sender = "ASSISTANT" /\ messages[i].status \in Terminal
       /\ last' = [last EXCEPT ![h] = messages[i].seq]
  /\ Goto(h, "count")
  /\ UNCHANGED <<conversation, messages, answering, faults>>

\* Mutant of AppendCount: one question too many.
AppendCountOffByOne(h) ==
  /\ pc[h] = "count"
  /\ Cardinality(UserMessages) <= MaxUserMessages
  /\ Goto(h, "insert_question")
  /\ UNCHANGED <<conversation, messages, answering, last, faults>>

\* user_message_limit_reached, and the validation of the text.
AppendCount(h) ==
  /\ pc[h] = "count"
  /\ Cardinality(UserMessages) < MaxUserMessages
  /\ Goto(h, "insert_question")
  /\ UNCHANGED <<conversation, messages, answering, last, faults>>

\* Mutant of AppendInsert: the number is the count of messages plus one.
AppendInsertByCount(h) ==
  /\ pc[h] = "insert_question"
  /\ messages' = Append(messages, Question(Len(messages) + 1, TRUE))
  /\ Goto(h, "idle")
  /\ UNCHANGED <<conversation, answering, last, faults>>

\* The transaction that inserts the question.  No key ties it to the conversation's row.
AppendInsert(h) ==
  /\ pc[h] = "insert_question"
  /\ messages' = Append(messages, Question(last[h] + 1, TRUE))
  /\ Goto(h, "idle")
  /\ UNCHANGED <<conversation, answering, last, faults>>

\* execute_completion: the last message has to be a question it can use.
CompletionRead(h) ==
  /\ pc[h] = "complete"
  /\ \E i \in LastIds :
       /\ messages[i].sender = "HUMAN" /\ messages[i].valid
       /\ last' = [last EXCEPT ![h] = messages[i].seq]
  /\ Goto(h, "insert_answer")
  /\ UNCHANGED <<conversation, messages, answering, faults>>

\* Mutant of CompletionInsert: no task is started while another answer is in progress.
CompletionInsertOneTask(h) ==
  /\ pc[h] = "insert_answer"
  /\ messages' = Append(messages, Answer(last[h] + 1))
  /\ answering' = IF answering = {} THEN {Len(messages) + 1} ELSE answering
  /\ Goto(h, "idle")
  /\ UNCHANGED <<conversation, last, faults>>

\* The answer's row is inserted, then its task is spawned; nothing can come in between.
CompletionInsert(h) ==
  /\ pc[h] = "insert_answer"
  /\ messages' = Append(messages, Answer(last[h] + 1))
  /\ answering' = answering \cup {Len(messages) + 1}
  /\ Goto(h, "idle")
  /\ UNCHANGED <<conversation, last, faults>>

\* The client disconnects while the insert is under way: the handler is dropped, no task is
\* spawned, and the database has the row.
CompletionAbandoned(h) ==
  /\ pc[h] = "insert_answer" /\ faults < MaxFaults
  /\ messages' = Append(messages, Answer(last[h] + 1))
  /\ faults' = faults + 1
  /\ Goto(h, "idle")
  /\ UNCHANGED <<conversation, answering, last>>

\* Mutant of DeleteCommit: the messages are left behind.
DeleteCommitRowOnly(h) ==
  /\ pc[h] = "delete"
  /\ conversation' = "deleted"
  /\ Goto(h, "idle")
  /\ UNCHANGED <<messages, answering, last, faults>>

\* The transaction of delete_conversation and of bulk_delete_conversations.  The tasks that
\* are still answering find no row to settle (Completion!UpdateStatus).
DeleteCommit(h) ==
  /\ pc[h] = "delete"
  /\ conversation' = "deleted" /\ messages' = <<>> /\ answering' = {}
  /\ Goto(h, "idle")
  /\ UNCHANGED <<last, faults>>

-----------------------------------------------------------------------------
(* Completion tasks and faults.                                            *)

\* update_message_status at the end of a completion.
Settle(i, status) ==
  /\ i \in answering
  /\ messages' = [messages EXCEPT ![i].status = status]
  /\ answering' = answering \ {i}
  /\ UNCHANGED <<conversation, pc, last, faults>>

\* That write fails; it is logged and not tried again.
SettleFails(i) ==
  /\ i \in answering /\ faults < MaxFaults
  /\ answering' = answering \ {i}
  /\ faults' = faults + 1
  /\ UNCHANGED <<conversation, messages, pc, last>>

\* The process stops and starts again.  initialize() looks at no message.
Restart ==
  /\ faults < MaxFaults
  /\ answering' = {}
  /\ pc' = [h \in Handlers |-> "idle"]
  /\ faults' = faults + 1
  /\ UNCHANGED <<conversation, messages, last>>

-----------------------------------------------------------------------------
Request(h) ==
  \/ \E op \in Operation : Arrive(h, op)
  \/ Drop(h)
  \/ AppendRead(h) \/ AppendCount(h) \/ AppendInsert(h)
  \/ CompletionRead(h) \/ CompletionInsert(h) \/ CompletionAbandoned(h)
  \/ DeleteCommit(h)

Settling(i) == (\E status \in Outcomes : Settle(i, status)) \/ SettleFails(i)

Next ==
  \/ \E valid \in BOOLEAN : Create(valid)
  \/ \E h \in Handlers : Request(h)
  \/ \E i \in Ids : Settling(i)
  \/ Restart

\* At most this many messages: questions as in LimitExceededByOverlapOnly, and to each as
\* many answers as there are requests that read it before the first answer was inserted.
MaxMessages ==
  (1 + Cardinality(Handlers)) * (MaxUserMessages + Cardinality(Handlers) - 1)

\* Nobody has to ask anything, but a completion always ends (Completion!PipelineEnds).

Spec == Init /\ [][Next]_vars /\ \A i \in 1 .. MaxMessages : WF_vars(Settling(i))

-----------------------------------------------------------------------------
(* Properties.                                                             *)

TypeOK ==
  /\ conversation \in {"none", "ACTIVE", "deleted"}
  /\ messages \in Seq(Message)
  /\ answering \subseteq Ids
  /\ pc \in [Handlers -> Pc]
  /\ last \in [Handlers -> Nat]
  /\ faults \in 0 .. MaxFaults

\* Whatever requests overlap, a sequence_number is never skipped: when the messages of a
\* conversation are sorted by it, no turn is missing in the middle.
SequenceHasNoGaps ==
  conversation = "ACTIVE" =>
    \A i \in Ids : \A n \in 1 .. messages[i].seq : \E j \in Ids : messages[j].seq = n

\* Whatever requests overlap, two messages with the same sequence_number have the same sender:
\* questions have odd numbers and answers even ones, so that sorting by it never puts an answer
\* before its question.
NumbersTellSenders ==
  \A i \in Ids : messages[i].sender = IF messages[i].seq % 2 = 1 THEN "HUMAN" ELSE "ASSISTANT"

\* The limit is checked before the question is inserted and not again, so overlapping requests
\* can exceed it, but by no more than one question each.
LimitExceededByOverlapOnly ==
  Cardinality(UserMessages) <= MaxUserMessages + Cardinality(Handlers) - 1

\* Without a fault, no answer stays in progress for ever, however requests overlap: a moment
\* always comes back at which every answer of the conversation is settled.
InProgress(i) == i \in Ids /\ messages[i].status = "PROCESSING"
BusyEndsWithoutFaults ==
  []<>(faults > 0 \/ \A i \in Ids : ~InProgress(i))

\* "Conversation is busy; wait for the current response to finish" (error.rs): waiting is
\* enough, the answer in progress is settled or deleted one day.
WaitingIsEnough == \A i \in 1 .. MaxMessages : InProgress(i) ~> ~InProgress(i)

\* With one request at a time, a conversation takes turns (module TurnTaking), also across
\* restarts, abandoned requests and failed writes.
Kind(m) ==
  IF m.sender = "HUMAN" THEN "question" ELSE IF m.status = "PROCESSING" THEN "pending" ELSE "answer"
Turns == INSTANCE TurnTaking WITH
  MaxQuestions <- MaxUserMessages,
  transcript <- [i \in Ids |-> Kind(messages[i])],
  open <- conversation # "deleted"
TakesTurns == Turns!Spec
=============================================================================
