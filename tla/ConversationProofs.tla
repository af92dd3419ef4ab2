------------------------- MODULE ConversationProofs -------------------------
(***************************************************************************)
(* Proofs about Conversation: types, the numbering of messages and the     *)
(* message limit, for any number of overlapping requests and any limit.    *)
(***************************************************************************)
EXTENDS Conversation, FiniteSetTheorems, SequenceTheorems, TLAPS

-----------------------------------------------------------------------------
(* Questions and answers as rows.                                          *)

LEMMA QuestionType ==
  ASSUME NEW n \in Nat, NEW valid \in BOOLEAN
  PROVE  Question(n, valid) \in Message
  BY DEF Question, Message, Terminal

LEMMA AnswerType ==
  ASSUME NEW n \in Nat
  PROVE  Answer(n) \in Message
  BY DEF Answer, Message, Terminal

LEMMA RowFields ==
  ASSUME messages \in Seq(Message), NEW i \in Ids
  PROVE  /\ messages[i] \in Message
         /\ messages[i].seq \in Nat
         /\ messages[i].sender \in {"HUMAN", "ASSISTANT"}
<1>1. messages[i] \in Message
  BY DEF Ids
<1> QED
  BY <1>1 DEF Message

\* What appending a row does to the rows that were there.
LEMMA Appended ==
  ASSUME messages \in Seq(Message), NEW m \in Message, messages' = Append(messages, m)
  PROVE  /\ messages' \in Seq(Message)
         /\ Ids' = Ids \cup {Len(messages) + 1}
         /\ Len(messages) + 1 \notin Ids
         /\ messages'[Len(messages) + 1] = m
         /\ \A i \in Ids : messages'[i] = messages[i]
  BY DEF Ids

\* Settling changes the status of a row and nothing else.
LEMMA Settled ==
  ASSUME messages \in Seq(Message), NEW i \in Ids, NEW status \in Terminal,
         messages' = [messages EXCEPT ![i].status = status]
  PROVE  /\ messages' \in Seq(Message)
         /\ Ids' = Ids
         /\ \A j \in Ids : messages'[j].seq = messages[j].seq
                           /\ messages'[j].sender = messages[j].sender
<1>1. \A j \in Ids : messages[j] \in Message
  BY DEF Ids
<1>2. [messages[i] EXCEPT !.status = status] \in Message
  BY <1>1 DEF Message
<1>3. messages' = [messages EXCEPT ![i] = [messages[i] EXCEPT !.status = status]]
  OBVIOUS
<1>4. messages' \in Seq(Message) /\ Ids' = Ids
  BY <1>2, <1>3 DEF Ids
<1>5. \A j \in Ids : messages'[j].seq = messages[j].seq
                     /\ messages'[j].sender = messages[j].sender
  BY <1>1, <1>3 DEF Ids, Message
<1> QED
  BY <1>4, <1>5

-----------------------------------------------------------------------------
(* Types.                                                                  *)

\* Before the conversation is created nothing refers to it.
Fresh ==
  conversation = "none" => messages = <<>> /\ \A h \in Handlers : pc[h] = "idle"

LEMMA FreshStep ==
  ASSUME TypeOK, Fresh, [Next]_vars
  PROVE  Fresh'
<1> USE DEF Fresh
<1>1. ASSUME NEW valid \in BOOLEAN, Create(valid)
      PROVE  Fresh'
  BY <1>1 DEF Create
<1>2. ASSUME NEW h \in Handlers, Request(h)
      PROVE  Fresh'
  <2>1. conversation # "none"
    BY <1>2 DEF Request, Arrive, Drop, AppendRead, AppendCount, AppendInsert,
                CompletionRead, CompletionInsert, CompletionAbandoned, DeleteCommit
  <2>2. conversation' = conversation \/ conversation' = "deleted"
    BY <1>2 DEF Request, Arrive, Drop, AppendRead, AppendCount, AppendInsert,
                CompletionRead, CompletionInsert, CompletionAbandoned, DeleteCommit
  <2> QED
    BY <2>1, <2>2
<1>3. ASSUME NEW i \in Ids, Settling(i)
      PROVE  Fresh'
  <2>1. conversation' = conversation /\ pc' = pc /\ i \in answering
    BY <1>3 DEF Settling, Settle, SettleFails
  <2>2. messages # <<>>
    BY <2>1 DEF Ids
  <2> QED
    BY <2>1, <2>2
<1>4. CASE Restart
  BY <1>4 DEF Restart
<1>5. CASE UNCHANGED vars
  BY <1>5 DEF vars
<1> QED
  BY <1>1, <1>2, <1>3, <1>4, <1>5 DEF Next

\* Every step keeps the types.
LEMMA TypeStep ==
  ASSUME TypeOK, Fresh, [Next]_vars
  PROVE  TypeOK'
<1> USE DEF TypeOK
<1> USE ConversationAssumption
<1>1. ASSUME NEW valid \in BOOLEAN, Create(valid)
      PROVE  TypeOK'
  <2>1. messages' \in Seq(Message)
    BY <1>1, QuestionType DEF Create
  <2>2. answering = {}
    BY <1>1 DEF Create, Fresh, Ids
  <2> QED
    BY <1>1, <2>1, <2>2 DEF Create
<1>2. ASSUME NEW h \in Handlers, Request(h)
      PROVE  TypeOK'
  <2>1. ASSUME NEW op \in Operation, Arrive(h, op)
        PROVE  TypeOK'
    BY <2>1 DEF Arrive, Goto, Pc, Ids
  <2>2. CASE Drop(h)
    BY <2>2 DEF Drop, Goto, Pc, Ids
  <2>3. CASE AppendRead(h)
    <3>1. \A i \in LastIds : messages[i].seq \in Nat
      BY RowFields DEF LastIds
    <3> QED
      BY <2>3, <3>1 DEF AppendRead, Goto, Pc, Ids
  <2>4. CASE AppendCount(h)
    BY <2>4 DEF AppendCount, Goto, Pc, Ids
  <2>5. CASE AppendInsert(h)
    <3>1. Question(last[h] + 1, TRUE) \in Message
      <4>1. last[h] + 1 \in Nat
        OBVIOUS
      <4> QED
        BY <4>1, QuestionType
    <3>2. messages' \in Seq(Message) /\ Ids \subseteq Ids'
      BY <2>5, <3>1, Appended DEF AppendInsert
    <3> QED
      BY <2>5, <3>2 DEF AppendInsert, Goto, Pc
  <2>6. CASE CompletionRead(h)
    <3>1. \A i \in LastIds : messages[i].seq \in Nat
      BY RowFields DEF LastIds
    <3> QED
      BY <2>6, <3>1 DEF CompletionRead, Goto, Pc, Ids
  <2>7. CASE CompletionInsert(h)
    <3>1. Answer(last[h] + 1) \in Message
      <4>1. last[h] + 1 \in Nat
        OBVIOUS
      <4> QED
        BY <4>1, AnswerType
    <3>2. messages' \in Seq(Message) /\ Ids' = Ids \cup {Len(messages) + 1}
      BY <2>7, <3>1, Appended DEF CompletionInsert
    <3> QED
      BY <2>7, <3>2 DEF CompletionInsert, Goto, Pc
  <2>8. CASE CompletionAbandoned(h)
    <3>1. Answer(last[h] + 1) \in Message
      <4>1. last[h] + 1 \in Nat
        OBVIOUS
      <4> QED
        BY <4>1, AnswerType
    <3>2. messages' \in Seq(Message) /\ Ids \subseteq Ids'
      BY <2>8, <3>1, Appended DEF CompletionAbandoned
    <3> QED
      BY <2>8, <3>2 DEF CompletionAbandoned, Goto, Pc
  <2>9. CASE DeleteCommit(h)
    BY <2>9 DEF DeleteCommit, Goto, Pc, Ids
  <2> QED
    BY <1>2, <2>1, <2>2, <2>3, <2>4, <2>5, <2>6, <2>7, <2>8, <2>9 DEF Request
<1>3. ASSUME NEW i \in Ids, Settling(i)
      PROVE  TypeOK'
  <2>1. ASSUME NEW status \in Outcomes, Settle(i, status)
        PROVE  TypeOK'
    <3>1. messages' \in Seq(Message) /\ Ids' = Ids
      BY <2>1, Settled DEF Settle
    <3> QED
      BY <2>1, <3>1 DEF Settle
  <2>2. CASE SettleFails(i)
    BY <2>2 DEF SettleFails, Ids
  <2> QED
    BY <1>3, <2>1, <2>2 DEF Settling
<1>4. CASE Restart
  BY <1>4 DEF Restart, Pc, Ids
<1>5. CASE UNCHANGED vars
  BY <1>5 DEF vars, Ids
<1> QED
  BY <1>1, <1>2, <1>3, <1>4, <1>5 DEF Next

\* What is known of every reachable state before anything is said about numbers.
LEMMA TypesAndFreshness == Spec => [](TypeOK /\ Fresh)
<1>1. Init => TypeOK /\ Fresh
  BY ConversationAssumption DEF Init, TypeOK, Fresh, Pc, Ids
<1>2. TypeOK /\ Fresh /\ [Next]_vars => TypeOK' /\ Fresh'
  BY TypeStep, FreshStep
<1> QED
  BY <1>1, <1>2, PTL DEF Spec

\* The model's variables keep their types.
THEOREM TypeCorrect == Spec => []TypeOK
  BY TypesAndFreshness, PTL

-----------------------------------------------------------------------------
(* Numbers tell senders.                                                   *)

\* A request that has read a number is going to insert the other sender's row after it.
ReadsTellSenders ==
  \A h \in Handlers :
    /\ pc[h] \in {"count", "insert_question"} => last[h] % 2 = 0
    /\ pc[h] = "insert_answer" => last[h] % 2 = 1

Parity == NumbersTellSenders /\ ReadsTellSenders

\* The number after an even one is odd, and conversely.
LEMMA Successor ==
  ASSUME NEW n \in Nat
  PROVE  (n % 2 = 0 => (n + 1) % 2 = 1) /\ (n % 2 = 1 => (n + 1) % 2 = 0)
  OBVIOUS

\* A request that goes to a place where it holds no number breaks nothing.
LEMMA ReadsTellKept ==
  ASSUME TypeOK, ReadsTellSenders, NEW h \in Handlers, NEW label, Goto(h, label),
         label \notin {"count", "insert_question", "insert_answer"}, last' = last
  PROVE  ReadsTellSenders'
  BY DEF TypeOK, ReadsTellSenders, Goto

\* A row with the right parity may be added.
LEMMA ParityAppended ==
  ASSUME TypeOK, NumbersTellSenders, NEW m \in Message, messages' = Append(messages, m),
         m.sender = IF m.seq % 2 = 1 THEN "HUMAN" ELSE "ASSISTANT"
  PROVE  NumbersTellSenders'
  BY Appended DEF TypeOK, NumbersTellSenders

\* Every step keeps the parities.
LEMMA ParityStep ==
  ASSUME TypeOK, Parity, [Next]_vars
  PROVE  Parity'
<1> USE DEF Parity
<1>1. ASSUME NEW valid \in BOOLEAN, Create(valid)
      PROVE  Parity'
  <2>1. messages' = <<Question(1, valid)>> /\ pc' = pc /\ last' = last
    BY <1>1 DEF Create
  <2>2. Ids' = {1} /\ messages'[1].seq = 1 /\ messages'[1].sender = "HUMAN"
    BY <2>1 DEF Ids, Question
  <2> QED
    BY <2>1, <2>2 DEF NumbersTellSenders, ReadsTellSenders
<1>2. ASSUME NEW h \in Handlers, Request(h)
      PROVE  Parity'
  <2>1. CASE (\E op \in Operation : Arrive(h, op)) \/ Drop(h) \/ DeleteCommit(h)
    <3>1. PICK label \in Operation \cup {"idle"} : Goto(h, label)
      BY <2>1 DEF Arrive, Drop, DeleteCommit
    <3>2. last' = last /\ (messages' = messages \/ messages' = <<>>)
      BY <2>1 DEF Arrive, Drop, DeleteCommit
    <3>3. ReadsTellSenders'
      BY <3>1, <3>2, ReadsTellKept DEF Operation
    <3>4. NumbersTellSenders'
      BY <3>2 DEF NumbersTellSenders, Ids
    <3> QED
      BY <3>3, <3>4
  <2>2. CASE AppendRead(h)
    <3>1. PICK i \in LastIds :
            messages[i].sender = "ASSISTANT" /\ last' = [last EXCEPT ![h] = messages[i].seq]
      BY <2>2 DEF AppendRead
    <3>2. messages[i].seq \in Nat /\ messages[i].seq % 2 # 1
      BY <3>1, RowFields DEF TypeOK, LastIds, NumbersTellSenders
    <3>3. messages[i].seq % 2 = 0
      BY <3>2
    <3> QED
      BY <2>2, <3>1, <3>3 DEF AppendRead, Goto, TypeOK, ReadsTellSenders,
                              NumbersTellSenders, Ids
  <2>3. CASE AppendCount(h)
    BY <2>3 DEF AppendCount, Goto, TypeOK, ReadsTellSenders, NumbersTellSenders, Ids
  <2>4. CASE AppendInsert(h)
    <3> DEFINE m == Question(last[h] + 1, TRUE)
    <3>1. last[h] + 1 \in Nat /\ (last[h] + 1) % 2 = 1
      <4>1. last[h] \in Nat /\ last[h] % 2 = 0
        BY <2>4 DEF AppendInsert, TypeOK, ReadsTellSenders
      <4> QED
        BY <4>1, Successor
    <3>2. m \in Message /\ m.seq = last[h] + 1 /\ m.sender = "HUMAN"
      BY <3>1, QuestionType DEF Question
    <3>3. NumbersTellSenders'
      BY <2>4, <3>1, <3>2, ParityAppended DEF AppendInsert
    <3>4. ReadsTellSenders'
      BY <2>4, ReadsTellKept DEF AppendInsert
    <3> QED
      BY <3>3, <3>4
  <2>5. CASE CompletionRead(h)
    <3>1. PICK i \in LastIds :
            messages[i].sender = "HUMAN" /\ last' = [last EXCEPT ![h] = messages[i].seq]
      BY <2>5 DEF CompletionRead
    <3>2. messages[i].seq % 2 = 1
      BY <3>1 DEF LastIds, NumbersTellSenders
    <3> QED
      BY <2>5, <3>1, <3>2 DEF CompletionRead, Goto, TypeOK, ReadsTellSenders,
                              NumbersTellSenders, Ids
  <2>6. CASE CompletionInsert(h) \/ CompletionAbandoned(h)
    <3> DEFINE m == Answer(last[h] + 1)
    <3>1. last[h] + 1 \in Nat /\ (last[h] + 1) % 2 = 0
      <4>1. last[h] \in Nat /\ last[h] % 2 = 1
        BY <2>6 DEF CompletionInsert, CompletionAbandoned, TypeOK, ReadsTellSenders
      <4> QED
        BY <4>1, Successor
    <3>2. m \in Message /\ m.seq = last[h] + 1 /\ m.sender = "ASSISTANT"
      BY <3>1, AnswerType DEF Answer
    <3>3. NumbersTellSenders'
      BY <2>6, <3>1, <3>2, ParityAppended DEF CompletionInsert, CompletionAbandoned
    <3>4. ReadsTellSenders'
      BY <2>6, ReadsTellKept DEF CompletionInsert, CompletionAbandoned
    <3> QED
      BY <3>3, <3>4
  <2> QED
    BY <1>2, <2>1, <2>2, <2>3, <2>4, <2>5, <2>6 DEF Request
<1>3. ASSUME NEW i \in Ids, Settling(i)
      PROVE  Parity'
  <2>1. pc' = pc /\ last' = last
    BY <1>3 DEF Settling, Settle, SettleFails
  <2>2. CASE messages' = messages
    BY <2>1, <2>2 DEF NumbersTellSenders, ReadsTellSenders, Ids
  <2>3. ASSUME NEW status \in Outcomes, Settle(i, status)
        PROVE  Parity'
    <3>1. Ids' = Ids /\ \A j \in Ids : messages'[j].seq = messages[j].seq
                                      /\ messages'[j].sender = messages[j].sender
      BY <2>3, ConversationAssumption, Settled DEF Settle, TypeOK
    <3> QED
      BY <2>1, <3>1 DEF NumbersTellSenders, ReadsTellSenders
  <2> QED
    BY <1>3, <2>2, <2>3 DEF Settling, SettleFails
<1>4. CASE Restart
  BY <1>4 DEF Restart, NumbersTellSenders, ReadsTellSenders, Ids
<1>5. CASE UNCHANGED vars
  BY <1>5 DEF vars, NumbersTellSenders, ReadsTellSenders, Ids
<1> QED
  BY <1>1, <1>2, <1>3, <1>4, <1>5 DEF Next

\* However many requests overlap, messages with the same number have the same sender.
THEOREM SendersByNumber == Spec => []NumbersTellSenders
<1>1. Init => Parity
  BY DEF Init, Parity, NumbersTellSenders, ReadsTellSenders, Ids
<1>2. TypeOK /\ Parity /\ [Next]_vars => Parity'
  BY ParityStep
<1>3. Parity => NumbersTellSenders
  BY DEF Parity
<1> QED
  BY <1>1, <1>2, <1>3, TypeCorrect, PTL DEF Spec

-----------------------------------------------------------------------------
(* No gaps.                                                                *)

\* What a request has read is the number of a row, unless the rows were deleted since.
ReadsAreNumbers ==
  conversation = "ACTIVE" =>
    \A h \in Handlers :
      pc[h] \in {"count", "insert_question", "insert_answer"} =>
        \E j \in Ids : messages[j].seq = last[h]

Contiguity == SequenceHasNoGaps /\ ReadsAreNumbers

\* Rows that keep their numbers keep what is said about numbers.
LEMMA ContiguityKept ==
  ASSUME TypeOK, Contiguity, conversation' = conversation, last' = last,
         Ids' = Ids, \A j \in Ids : messages'[j].seq = messages[j].seq,
         \A g \in Handlers : pc'[g] \in {"count", "insert_question", "insert_answer"} =>
                             pc[g] \in {"count", "insert_question", "insert_answer"}
  PROVE  Contiguity'
  BY DEF Contiguity, SequenceHasNoGaps, ReadsAreNumbers

\* So does a row whose number is one more than that of another row.
LEMMA ContiguityAppended ==
  ASSUME TypeOK, Contiguity, conversation' = conversation, last' = last,
         NEW h \in Handlers, pc[h] \in {"insert_question", "insert_answer"}, Goto(h, "idle"),
         NEW m \in Message, m.seq = last[h] + 1, messages' = Append(messages, m)
  PROVE  Contiguity'
<1> SUFFICES ASSUME conversation = "ACTIVE"
             PROVE  Contiguity'
  BY DEF Contiguity, SequenceHasNoGaps, ReadsAreNumbers
<1> DEFINE new == Len(messages) + 1
<1>1. /\ Ids' = Ids \cup {new} /\ messages'[new] = m
      /\ \A j \in Ids : messages'[j] = messages[j]
  BY Appended DEF TypeOK
<1>2. PICK k \in Ids : messages[k].seq = last[h]
  BY DEF Contiguity, ReadsAreNumbers
<1>3. last[h] \in Nat
  BY DEF TypeOK
<1>4. ASSUME NEW i \in Ids', NEW n \in 1 .. messages'[i].seq
      PROVE  \E j \in Ids' : messages'[j].seq = n
  <2>1. CASE i \in Ids
    BY <1>1, <1>4, <2>1 DEF Contiguity, SequenceHasNoGaps
  <2>2. CASE i = new /\ n # last[h] + 1
    <3>1. n \in 1 .. messages[k].seq
      BY <1>1, <1>2, <1>3, <1>4, <2>2
    <3> QED
      BY <1>1, <3>1 DEF Contiguity, SequenceHasNoGaps
  <2>3. CASE n = last[h] + 1
    BY <1>1, <2>3
  <2> QED
    BY <1>1, <2>1, <2>2, <2>3
<1>5. SequenceHasNoGaps'
  BY <1>4 DEF SequenceHasNoGaps
<1>6. ReadsAreNumbers'
  BY <1>1 DEF Contiguity, ReadsAreNumbers, Goto, TypeOK
<1> QED
  BY <1>5, <1>6 DEF Contiguity

\* And so does a request that reads the number of a row.
LEMMA ContiguityRead ==
  ASSUME TypeOK, Contiguity, UNCHANGED <<conversation, messages>>,
         NEW h \in Handlers, NEW i \in Ids, last' = [last EXCEPT ![h] = messages[i].seq],
         NEW label, Goto(h, label)
  PROVE  Contiguity'
  BY DEF Contiguity, SequenceHasNoGaps, ReadsAreNumbers, Goto, TypeOK, Ids

\* Every step keeps the numbers contiguous.
LEMMA ContiguityStep ==
  ASSUME TypeOK, Fresh, Contiguity, [Next]_vars
  PROVE  Contiguity'
<1>1. ASSUME NEW valid \in BOOLEAN, Create(valid)
      PROVE  Contiguity'
  <2>1. Ids' = {1} /\ messages'[1].seq = 1
    BY <1>1 DEF Create, Ids, Question
  <2>2. SequenceHasNoGaps'
    BY <2>1 DEF SequenceHasNoGaps
  <2>3. ReadsAreNumbers'
    BY <1>1 DEF Create, Fresh, ReadsAreNumbers
  <2> QED
    BY <2>2, <2>3 DEF Contiguity
<1>2. ASSUME NEW h \in Handlers, Request(h)
      PROVE  Contiguity'
  <2>1. CASE (\E op \in Operation : Arrive(h, op)) \/ Drop(h) \/ AppendCount(h)
    <3>1. UNCHANGED <<conversation, messages, last>>
      BY <2>1 DEF Arrive, Drop, AppendCount
    <3>2. \A g \in Handlers : pc'[g] \in {"count", "insert_question", "insert_answer"} =>
                              pc[g] \in {"count", "insert_question", "insert_answer"}
      BY <2>1 DEF Arrive, Drop, AppendCount, Goto, Operation, TypeOK
    <3>3. Ids' = Ids /\ \A j \in Ids : messages'[j].seq = messages[j].seq
      BY <3>1 DEF Ids
    <3> QED
      BY <3>1, <3>2, <3>3, ContiguityKept
  <2>2. CASE AppendRead(h) \/ CompletionRead(h)
    <3>1. PICK i \in Ids : last' = [last EXCEPT ![h] = messages[i].seq]
      BY <2>2 DEF AppendRead, CompletionRead, LastIds
    <3> QED
      BY <2>2, <3>1, ContiguityRead DEF AppendRead, CompletionRead
  <2>3. CASE AppendInsert(h)
    <3> DEFINE m == Question(last[h] + 1, TRUE)
    <3>1. last[h] + 1 \in Nat
      BY DEF TypeOK
    <3>2. m \in Message /\ m.seq = last[h] + 1
      BY <3>1, QuestionType DEF Question
    <3> QED
      BY <2>3, <3>2, ContiguityAppended DEF AppendInsert
  <2>4. CASE CompletionInsert(h) \/ CompletionAbandoned(h)
    <3> DEFINE m == Answer(last[h] + 1)
    <3>1. last[h] + 1 \in Nat
      BY DEF TypeOK
    <3>2. m \in Message /\ m.seq = last[h] + 1
      BY <3>1, AnswerType DEF Answer
    <3> QED
      BY <2>4, <3>2, ContiguityAppended DEF CompletionInsert, CompletionAbandoned
  <2>5. CASE DeleteCommit(h)
    BY <2>5 DEF DeleteCommit, Contiguity, SequenceHasNoGaps, ReadsAreNumbers
  <2> QED
    BY <1>2, <2>1, <2>2, <2>3, <2>4, <2>5 DEF Request
<1>3. ASSUME NEW i \in Ids, Settling(i)
      PROVE  Contiguity'
  <2>1. UNCHANGED <<conversation, pc, last>>
    BY <1>3 DEF Settling, Settle, SettleFails
  <2>2. Ids' = Ids /\ \A j \in Ids : messages'[j].seq = messages[j].seq
    <3>1. CASE messages' = messages
      BY <3>1 DEF Ids
    <3>2. ASSUME NEW status \in Outcomes, Settle(i, status)
          PROVE  Ids' = Ids /\ \A j \in Ids : messages'[j].seq = messages[j].seq
      BY <3>2, ConversationAssumption, Settled DEF Settle, TypeOK
    <3> QED
      BY <1>3, <3>1, <3>2 DEF Settling, SettleFails
  <2> QED
    BY <2>1, <2>2, ContiguityKept
<1>4. CASE Restart \/ UNCHANGED vars
  <2>1. UNCHANGED <<conversation, messages, last>>
    BY <1>4 DEF Restart, vars
  <2>2. \A g \in Handlers : pc'[g] \in {"count", "insert_question", "insert_answer"} =>
                            pc[g] \in {"count", "insert_question", "insert_answer"}
    BY <1>4 DEF Restart, vars
  <2>3. Ids' = Ids /\ \A j \in Ids : messages'[j].seq = messages[j].seq
    BY <2>1 DEF Ids
  <2> QED
    BY <2>1, <2>2, <2>3, ContiguityKept
<1> QED
  BY <1>1, <1>2, <1>3, <1>4 DEF Next

\* However many requests overlap, no number is skipped.
THEOREM NoGaps == Spec => []SequenceHasNoGaps
<1>1. Init => Contiguity
  BY DEF Init, Contiguity, SequenceHasNoGaps, ReadsAreNumbers
<1>2. TypeOK /\ Fresh /\ Contiguity /\ [Next]_vars => Contiguity'
  BY ContiguityStep
<1>3. Contiguity => SequenceHasNoGaps
  BY DEF Contiguity
<1> QED
  BY <1>1, <1>2, <1>3, TypesAndFreshness, PTL DEF Spec

-----------------------------------------------------------------------------
(* The message limit.                                                      *)

\* The requests that have counted the questions and are going to add one.
Counted == {h \in Handlers : pc[h] = "insert_question"}

\* Why the excess is bounded: whoever passes the count finds fewer than MaxUserMessages
\* questions, and from then on each question added uses up one that has passed.
Credit ==
  Cardinality(UserMessages) + Cardinality(Counted)
    <= MaxUserMessages + Cardinality(Handlers) - 1

\* Sets of rows and sets of requests are finite.
LEMMA RowsCount ==
  ASSUME NEW n \in Nat, NEW S \in SUBSET (1 .. n)
  PROVE  IsFiniteSet(S) /\ Cardinality(S) \in Nat
<1>1. IsFiniteSet(1 .. n)
  BY FS_Interval
<1>2. IsFiniteSet(S)
  BY <1>1, FS_Subset
<1> QED
  BY <1>2, FS_CardinalityType

LEMMA RequestsCount ==
  ASSUME NEW S \in SUBSET Handlers
  PROVE  /\ IsFiniteSet(S) /\ Cardinality(S) \in Nat
         /\ Cardinality(Handlers) \in Nat \ {0}
         /\ Cardinality(S) <= Cardinality(Handlers)
<1>1. IsFiniteSet(Handlers) /\ Handlers # {}
  BY ConversationAssumption
<1>2. IsFiniteSet(S) /\ Cardinality(S) <= Cardinality(Handlers)
  BY <1>1, FS_Subset
<1>3. Cardinality(Handlers) # 0
  BY <1>1, FS_EmptySet
<1> QED
  BY <1>1, <1>2, <1>3, FS_CardinalityType

LEMMA Counting ==
  ASSUME TypeOK
  PROVE  /\ IsFiniteSet(UserMessages) /\ Cardinality(UserMessages) \in Nat
         /\ IsFiniteSet(Counted) /\ Cardinality(Counted) \in Nat
         /\ Cardinality(Handlers) \in Nat \ {0}
         /\ Cardinality(Counted) <= Cardinality(Handlers)
<1>1. UserMessages \in SUBSET (1 .. Len(messages)) /\ Len(messages) \in Nat
  BY DEF UserMessages, Ids, TypeOK
<1>2. Counted \in SUBSET Handlers
  BY DEF Counted
<1> QED
  BY <1>1, <1>2, RowsCount, RequestsCount

LEMMA CountingNext ==
  ASSUME TypeOK'
  PROVE  /\ Cardinality(UserMessages') \in Nat
         /\ Cardinality(Counted') \in Nat
         /\ Cardinality(Counted') <= Cardinality(Handlers)
<1>1. UserMessages' \in SUBSET (1 .. Len(messages')) /\ Len(messages') \in Nat
  BY DEF UserMessages, Ids, TypeOK
<1>2. Counted' \in SUBSET Handlers
  BY DEF Counted
<1> QED
  BY <1>1, <1>2, RowsCount, RequestsCount

\* A step that lets nobody else pass the count and adds no question keeps the credit.
LEMMA CreditKept ==
  ASSUME TypeOK, TypeOK', Credit,
         UserMessages' \subseteq UserMessages, Counted' \subseteq Counted
  PROVE  Credit'
<1>1. Cardinality(UserMessages') <= Cardinality(UserMessages)
  BY Counting, FS_Subset
<1>2. Cardinality(Counted') <= Cardinality(Counted)
  BY Counting, FS_Subset
<1> QED
  BY <1>1, <1>2, Counting, CountingNext, ConversationAssumption DEF Credit

\* Every step keeps the credit.
LEMMA CreditStep ==
  ASSUME TypeOK, TypeOK', Fresh, Credit, [Next]_vars
  PROVE  Credit'
<1>1. ASSUME NEW valid \in BOOLEAN, Create(valid)
      PROVE  Credit'
  <2>1. Counted' = {}
    BY <1>1 DEF Create, Fresh, Counted
  <2>2. UserMessages' \subseteq {1}
    BY <1>1 DEF Create, UserMessages, Ids
  <2>3. Cardinality(UserMessages') <= 1
    <3>1. IsFiniteSet({1}) /\ Cardinality({1}) = 1
      BY FS_Singleton
    <3> QED
      BY <2>2, <3>1, FS_Subset
  <2>4. Cardinality(Counted') = 0
    BY <2>1, FS_EmptySet
  <2> QED
    BY <2>3, <2>4, Counting, CountingNext, ConversationAssumption DEF Credit
<1>2. ASSUME NEW h \in Handlers, Request(h)
      PROVE  Credit'
  <2>1. CASE (\E op \in Operation : Arrive(h, op)) \/ Drop(h) \/ AppendRead(h)
             \/ CompletionRead(h)
    <3>1. UserMessages' = UserMessages
      BY <2>1 DEF Arrive, Drop, AppendRead, CompletionRead, UserMessages, Ids
    <3>2. Counted' \subseteq Counted
      BY <2>1 DEF Arrive, Drop, AppendRead, CompletionRead, Goto, Operation, Counted, TypeOK
    <3> QED
      BY <3>1, <3>2, CreditKept
  <2>2. CASE AppendCount(h)
    <3>1. UserMessages' = UserMessages /\ Cardinality(UserMessages) < MaxUserMessages
      BY <2>2 DEF AppendCount, UserMessages, Ids
    <3> QED
      BY <3>1, Counting, CountingNext, ConversationAssumption DEF Credit
  <2>3. CASE AppendInsert(h)
    <3> DEFINE new == Len(messages) + 1
    <3>1. Question(last[h] + 1, TRUE) \in Message
      <4>1. last[h] + 1 \in Nat
        BY DEF TypeOK
      <4> QED
        BY <4>1, QuestionType
    <3>2. /\ Ids' = Ids \cup {new} /\ new \notin Ids
          /\ \A i \in Ids : messages'[i] = messages[i]
      BY <2>3, <3>1, Appended DEF AppendInsert, TypeOK
    <3>3. UserMessages' \subseteq UserMessages \cup {new}
      BY <3>2 DEF UserMessages
    <3>4. Cardinality(UserMessages') <= Cardinality(UserMessages) + 1
      <4>1. /\ IsFiniteSet(UserMessages \cup {new})
            /\ Cardinality(UserMessages \cup {new}) =
                 IF new \in UserMessages THEN Cardinality(UserMessages)
                                         ELSE Cardinality(UserMessages) + 1
        BY Counting, FS_AddElement
      <4>2. Cardinality(UserMessages') <= Cardinality(UserMessages \cup {new})
        BY <3>3, <4>1, FS_Subset
      <4> QED
        BY <4>1, <4>2, Counting, CountingNext
    <3>5. Counted' = Counted \ {h} /\ h \in Counted
      BY <2>3 DEF AppendInsert, Goto, Counted, TypeOK
    <3>6. Cardinality(Counted') = Cardinality(Counted) - 1
      BY <3>5, Counting, FS_RemoveElement
    <3> QED
      BY <3>4, <3>6, Counting, CountingNext, ConversationAssumption DEF Credit
  <2>4. CASE CompletionInsert(h) \/ CompletionAbandoned(h)
    <3> DEFINE new == Len(messages) + 1
    <3>1. Answer(last[h] + 1) \in Message
      <4>1. last[h] + 1 \in Nat
        BY DEF TypeOK
      <4> QED
        BY <4>1, AnswerType
    <3>2. /\ Ids' = Ids \cup {new} /\ messages'[new] = Answer(last[h] + 1)
          /\ \A i \in Ids : messages'[i] = messages[i]
      BY <2>4, <3>1, Appended DEF CompletionInsert, CompletionAbandoned, TypeOK
    <3>3. UserMessages' \subseteq UserMessages
      BY <3>2 DEF UserMessages, Answer
    <3>4. Counted' \subseteq Counted
      BY <2>4 DEF CompletionInsert, CompletionAbandoned, Goto, Counted, TypeOK
    <3> QED
      BY <3>3, <3>4, CreditKept
  <2>5. CASE DeleteCommit(h)
    <3>1. UserMessages' \subseteq UserMessages
      BY <2>5 DEF DeleteCommit, UserMessages, Ids
    <3>2. Counted' \subseteq Counted
      BY <2>5 DEF DeleteCommit, Goto, Counted, TypeOK
    <3> QED
      BY <3>1, <3>2, CreditKept
  <2> QED
    BY <1>2, <2>1, <2>2, <2>3, <2>4, <2>5 DEF Request
<1>3. ASSUME NEW i \in Ids, Settling(i)
      PROVE  Credit'
  <2>1. Counted' = Counted
    BY <1>3 DEF Settling, Settle, SettleFails, Counted
  <2>2. UserMessages' = UserMessages
    <3>1. CASE messages' = messages
      BY <3>1 DEF UserMessages, Ids
    <3>2. ASSUME NEW status \in Outcomes, Settle(i, status)
          PROVE  UserMessages' = UserMessages
      <4>1. Ids' = Ids /\ \A j \in Ids : messages'[j].sender = messages[j].sender
        BY <3>2, ConversationAssumption, Settled DEF Settle, TypeOK
      <4> QED
        BY <4>1 DEF UserMessages
    <3> QED
      BY <1>3, <3>1, <3>2 DEF Settling, SettleFails
  <2> QED
    BY <2>1, <2>2, CreditKept
<1>4. CASE Restart \/ UNCHANGED vars
  <2>1. Counted' \subseteq Counted
    BY <1>4 DEF Restart, vars, Counted
  <2>2. UserMessages' = UserMessages
    BY <1>4 DEF Restart, vars, UserMessages, Ids
  <2> QED
    BY <2>1, <2>2, CreditKept
<1> QED
  BY <1>1, <1>2, <1>3, <1>4 DEF Next

\* However many requests overlap, the limit is exceeded by at most one question for each
\* request beyond the first.
THEOREM LimitBound == Spec => []LimitExceededByOverlapOnly
<1>1. Init => Credit
  <2>1. ASSUME Init
        PROVE  UserMessages = {} /\ Counted = {}
    BY <2>1 DEF Init, UserMessages, Counted, Ids
  <2>2. Cardinality(Handlers) \in Nat
    BY RequestsCount
  <2>3. Cardinality({}) = 0
    BY FS_EmptySet
  <2> QED
    BY <2>1, <2>2, <2>3, ConversationAssumption DEF Credit
<1>2. TypeOK /\ TypeOK' /\ Fresh /\ Credit /\ [Next]_vars => Credit'
  BY CreditStep
<1>3. TypeOK /\ Credit => LimitExceededByOverlapOnly
  BY Counting, ConversationAssumption DEF Credit, LimitExceededByOverlapOnly
<1> QED
  BY <1>1, <1>2, <1>3, TypesAndFreshness, PTL DEF Spec
-----------------------------------------------------------------------------
(* One request at a time takes turns.                                      *)

\* The rows are numbered in order, questions and answers alternate, and only the last answer
\* can be in progress.
Alternates ==
  \A i \in Ids :
    /\ messages[i].seq = i
    /\ messages[i].sender = IF i % 2 = 1 THEN "HUMAN" ELSE "ASSISTANT"
    /\ messages[i].sender = "HUMAN" => messages[i].status = "PROCESSED"
    /\ i < Len(messages) => messages[i].status \in Terminal

OneAnswer == \A i \in answering : i = Len(messages) /\ messages[i].status = "PROCESSING"

\* A conversation that is not there has no rows, and its only request is over.
Absent == conversation # "ACTIVE" => messages = <<>> /\ \A h \in Handlers : pc[h] = "idle"

\* What the request has read is still true.
ReadsHold ==
  \A h \in Handlers :
    /\ pc[h] \in {"count", "insert_question", "insert_answer"} =>
         messages # <<>> /\ last[h] = Len(messages)
    /\ pc[h] \in {"count", "insert_question"} =>
         /\ messages[Len(messages)].sender = "ASSISTANT"
         /\ messages[Len(messages)].status \in Terminal
    /\ pc[h] = "insert_answer" => messages[Len(messages)].sender = "HUMAN"
    /\ pc[h] = "insert_question" => Cardinality(UserMessages) < MaxUserMessages

\* Every second message is a question.
HalfQuestions == 2 * Cardinality(UserMessages) = Len(messages) + (Len(messages) % 2)

Serial == Alternates /\ OneAnswer /\ Absent /\ ReadsHold /\ HalfQuestions

\* There is only one request.
LEMMA OneRequest ==
  ASSUME Cardinality(Handlers) = 1, NEW h \in Handlers
  PROVE  Handlers = {h}
<1>1. IsFiniteSet(Handlers)
  BY ConversationAssumption
<1>2. \E x : Handlers = {x}
  BY <1>1, FS_Singleton
<1> QED
  BY <1>2

\* The last message of a conversation that alternates is the only one with the last number.
LEMMA LastIsLast ==
  ASSUME TypeOK, Alternates, NEW i \in LastIds
  PROVE  i = Len(messages) /\ messages # <<>> /\ messages[i].seq = Len(messages)
<1>1. i \in 1 .. Len(messages) /\ Len(messages) \in Nat /\ Ids = 1 .. Len(messages)
  BY DEF LastIds, TypeOK, Ids
<1>2. Len(messages) \in Ids
  BY <1>1
<1>3. messages[Len(messages)].seq <= messages[i].seq
  BY <1>2 DEF LastIds
<1>4. Len(messages) <= i /\ messages[i].seq = i
  BY <1>1, <1>2, <1>3 DEF Alternates
<1> QED
  BY <1>1, <1>4

\* A row that takes its turn may be added.
LEMMA TurnAdded ==
  ASSUME TypeOK, Serial, Cardinality(Handlers) = 1, NEW h \in Handlers, Goto(h, "idle"),
         conversation = "ACTIVE", conversation' = "ACTIVE",
         NEW m \in Message, messages' = Append(messages, m),
         m.seq = Len(messages) + 1,
         m.sender = IF m.seq % 2 = 1 THEN "HUMAN" ELSE "ASSISTANT",
         m.sender = "HUMAN" => m.status = "PROCESSED",
         messages # <<>>, messages[Len(messages)].status \in Terminal,
         answering' \subseteq answering \cup {Len(messages) + 1},
         answering' # answering => m.status = "PROCESSING"
  PROVE  Serial'
<1> DEFINE new == Len(messages) + 1
<1>1. /\ messages' \in Seq(Message)
      /\ Ids' = Ids \cup {new} /\ new \notin Ids
      /\ messages'[new] = m
      /\ \A i \in Ids : messages'[i] = messages[i]
  BY Appended DEF TypeOK
<1>2. Len(messages') = new /\ Len(messages) \in Nat /\ Ids = 1 .. Len(messages)
  BY DEF TypeOK, Ids
<1>3. Alternates'
  <2>1. \A i \in Ids : messages[i].status \in Terminal
    BY <1>2 DEF Serial, Alternates
  <2> QED
    BY <1>1, <1>2, <2>1 DEF Serial, Alternates
<1>4. OneAnswer'
  <2>1. answering = {}
    BY DEF Serial, OneAnswer, Terminal
  <2> QED
    BY <1>1, <1>2, <2>1 DEF OneAnswer
<1>5. pc'[h] = "idle" /\ \A g \in Handlers : g = h
  BY OneRequest DEF Goto, TypeOK
<1>6. Absent' /\ ReadsHold'
  BY <1>5 DEF Absent, ReadsHold
<1>7. HalfQuestions'
  <2>1. Len(messages) % 2 \in {0, 1} /\ new % 2 \in {0, 1}
        /\ (Len(messages) % 2 = 0 <=> new % 2 = 1)
    BY <1>2, Successor
  <2>2. 2 * Cardinality(UserMessages) = Len(messages) + (Len(messages) % 2)
        /\ Cardinality(UserMessages) \in Nat
    BY Counting DEF Serial, HalfQuestions
  <2>3. CASE new % 2 = 1
    <3>1. UserMessages' = UserMessages \cup {new} /\ new \notin UserMessages
      BY <1>1, <2>3 DEF UserMessages
    <3>2. Cardinality(UserMessages') = Cardinality(UserMessages) + 1
      BY <3>1, Counting, FS_AddElement
    <3> QED
      BY <1>2, <2>1, <2>2, <2>3, <3>2 DEF HalfQuestions
  <2>4. CASE new % 2 # 1
    <3>1. UserMessages' = UserMessages
      BY <1>1, <2>4 DEF UserMessages
    <3> QED
      BY <1>2, <2>1, <2>2, <2>4, <3>1 DEF HalfQuestions
  <2> QED
    BY <2>3, <2>4
<1> QED
  BY <1>3, <1>4, <1>6, <1>7 DEF Serial

\* The rows stay, and no request learns anything from them.
LEMMA TurnKept ==
  ASSUME TypeOK, Serial, UNCHANGED <<conversation, messages, last>>, answering' \subseteq answering,
         \A g \in Handlers :
           \/ pc'[g] = pc[g]
           \/ pc'[g] \notin {"count", "insert_question", "insert_answer"}
              /\ (pc'[g] # "idle" => conversation = "ACTIVE")
  PROVE  Serial'
<1>1. Ids' = Ids /\ UserMessages' = UserMessages
  BY DEF Ids, UserMessages
<1>2. Alternates' /\ OneAnswer' /\ HalfQuestions'
  BY <1>1 DEF Serial, Alternates, OneAnswer, HalfQuestions
<1>3. Absent' /\ ReadsHold'
  BY <1>1 DEF Serial, Absent, ReadsHold
<1> QED
  BY <1>2, <1>3 DEF Serial

\* A request reads the last message.
LEMMA TurnRead ==
  ASSUME TypeOK, Serial, Cardinality(Handlers) = 1, NEW h \in Handlers,
         AppendRead(h) \/ CompletionRead(h)
  PROVE  Serial'
<1>1. PICK i \in LastIds :
        /\ last' = [last EXCEPT ![h] = messages[i].seq]
        /\ AppendRead(h) => messages[i].sender = "ASSISTANT" /\ messages[i].status \in Terminal
        /\ CompletionRead(h) => messages[i].sender = "HUMAN"
  BY DEF AppendRead, CompletionRead
<1>2. i = Len(messages) /\ messages # <<>> /\ messages[i].seq = Len(messages)
  BY LastIsLast DEF Serial
<1>3. last'[h] = Len(messages) /\ \A g \in Handlers : g = h
  BY <1>1, <1>2, OneRequest DEF TypeOK
<1>4. UNCHANGED <<conversation, messages, answering>>
      /\ pc[h] \in {"append", "complete"}
      /\ (AppendRead(h) => pc'[h] = "count") /\ (CompletionRead(h) => pc'[h] = "insert_answer")
  BY DEF AppendRead, CompletionRead, Goto, TypeOK
<1>5. Ids' = Ids /\ UserMessages' = UserMessages
  BY <1>4 DEF Ids, UserMessages
<1>6. Alternates' /\ OneAnswer' /\ HalfQuestions'
  BY <1>4, <1>5 DEF Serial, Alternates, OneAnswer, HalfQuestions
<1>7. Absent' /\ ReadsHold'
  BY <1>1, <1>2, <1>3, <1>4, <1>5 DEF Serial, Absent, ReadsHold
<1> QED
  BY <1>6, <1>7 DEF Serial

\* Every request keeps the turns.
LEMMA TurnRequest ==
  ASSUME TypeOK, Serial, Cardinality(Handlers) = 1, NEW h \in Handlers, Request(h)
  PROVE  Serial'
<1>1. \A g \in Handlers : g = h
  BY OneRequest
<1>2. CASE \E op \in Operation : Arrive(h, op)
  <2>1. PICK op \in Operation : Arrive(h, op)
    BY <1>2
  <2>2. pc'[h] = op /\ conversation = "ACTIVE"
        /\ UNCHANGED <<conversation, messages, answering, last>>
    BY <2>1 DEF Arrive, Goto, TypeOK
  <2> QED
    BY <1>1, <2>2, TurnKept DEF Operation
<1>3. CASE Drop(h)
  <2>1. pc'[h] = "idle" /\ UNCHANGED <<conversation, messages, answering, last>>
    BY <1>3 DEF Drop, Goto, TypeOK
  <2> QED
    BY <1>1, <2>1, TurnKept
<1>4. CASE AppendRead(h) \/ CompletionRead(h)
  BY <1>4, TurnRead
<1>5. CASE AppendCount(h)
  <2>1. pc[h] = "count" /\ pc'[h] = "insert_question"
        /\ Cardinality(UserMessages) < MaxUserMessages
        /\ UNCHANGED <<conversation, messages, answering, last>>
    BY <1>5 DEF AppendCount, Goto, TypeOK
  <2>2. Ids' = Ids /\ UserMessages' = UserMessages
    BY <2>1 DEF Ids, UserMessages
  <2>3. Alternates' /\ OneAnswer' /\ HalfQuestions'
    BY <2>1, <2>2 DEF Serial, Alternates, OneAnswer, HalfQuestions
  <2>4. Absent' /\ ReadsHold'
    BY <1>1, <2>1, <2>2 DEF Serial, Absent, ReadsHold
  <2> QED
    BY <2>3, <2>4 DEF Serial
<1>6. CASE AppendInsert(h)
  <2>1. /\ pc[h] = "insert_question"
        /\ messages' = Append(messages, Question(last[h] + 1, TRUE))
        /\ Goto(h, "idle") /\ UNCHANGED <<conversation, answering>>
    BY <1>6 DEF AppendInsert
  <2>2. /\ conversation = "ACTIVE" /\ last[h] = Len(messages) /\ messages # <<>>
        /\ messages[Len(messages)].sender = "ASSISTANT"
        /\ messages[Len(messages)].status \in Terminal
    BY <2>1 DEF Serial, Absent, ReadsHold
  <2>3. Len(messages) \in Nat /\ Len(messages) \in Ids
    BY <2>2 DEF TypeOK, Ids
  <2>4. (Len(messages) + 1) % 2 = 1
    BY <2>2, <2>3, Successor DEF Serial, Alternates
  <2>5. Question(Len(messages) + 1, TRUE) \in Message
    <3>1. Len(messages) + 1 \in Nat /\ TRUE \in BOOLEAN
      BY <2>3
    <3> QED
      BY <3>1, QuestionType
  <2> QED
    BY <2>1, <2>2, <2>4, <2>5, TurnAdded DEF Question
<1>7. CASE CompletionInsert(h) \/ CompletionAbandoned(h)
  <2>1. /\ pc[h] = "insert_answer"
        /\ messages' = Append(messages, Answer(last[h] + 1))
        /\ Goto(h, "idle") /\ UNCHANGED <<conversation>>
        /\ answering' \subseteq answering \cup {Len(messages) + 1}
    BY <1>7 DEF CompletionInsert, CompletionAbandoned
  <2>2. /\ conversation = "ACTIVE" /\ last[h] = Len(messages) /\ messages # <<>>
        /\ messages[Len(messages)].sender = "HUMAN"
    BY <2>1 DEF Serial, Absent, ReadsHold
  <2>3. Len(messages) \in Nat /\ Len(messages) \in Ids
    BY <2>2 DEF TypeOK, Ids
  <2>4. (Len(messages) + 1) % 2 = 0 /\ messages[Len(messages)].status \in Terminal
    BY <2>2, <2>3, Successor DEF Serial, Alternates, Terminal
  <2>5. Answer(Len(messages) + 1) \in Message
    BY <2>3, AnswerType
  <2> QED
    BY <2>1, <2>2, <2>4, <2>5, TurnAdded DEF Answer
<1>8. CASE DeleteCommit(h)
  <2>1. messages' = <<>> /\ answering' = {} /\ pc'[h] = "idle"
    BY <1>8 DEF DeleteCommit, Goto, TypeOK
  <2>2. Ids' = {} /\ UserMessages' = {} /\ Len(messages') = 0
    BY <2>1 DEF Ids, UserMessages
  <2>3. HalfQuestions'
    BY <2>2, FS_EmptySet DEF HalfQuestions
  <2>4. Alternates' /\ OneAnswer' /\ Absent' /\ ReadsHold'
    BY <1>1, <2>1, <2>2 DEF Alternates, OneAnswer, Absent, ReadsHold
  <2> QED
    BY <2>3, <2>4 DEF Serial
<1> QED
  BY <1>2, <1>3, <1>4, <1>5, <1>6, <1>7, <1>8 DEF Request

\* And every other step: a question or an answer only changes by being settled.
LEMMA TurnOther ==
  ASSUME TypeOK, Fresh, Serial, Cardinality(Handlers) = 1,
         \/ \E valid \in BOOLEAN : Create(valid)
         \/ \E i \in Ids : Settling(i)
         \/ Restart \/ UNCHANGED vars
  PROVE  Serial'
<1>1. CASE \E valid \in BOOLEAN : Create(valid)
  <2>1. PICK valid \in BOOLEAN : Create(valid)
    BY <1>1
  <2>2. /\ messages' = <<Question(1, valid)>> /\ conversation' = "ACTIVE"
        /\ answering' = {} /\ \A h \in Handlers : pc'[h] = "idle"
    BY <2>1 DEF Create, Fresh, TypeOK, Ids
  <2>3. Ids' = {1} /\ Len(messages') = 1 /\ messages'[1] = Question(1, valid)
    BY <2>2 DEF Ids
  <2>4. UserMessages' = {1}
    BY <2>3 DEF UserMessages, Question
  <2>5. HalfQuestions'
    BY <2>3, <2>4, FS_Singleton DEF HalfQuestions
  <2>6. Alternates' /\ OneAnswer' /\ Absent' /\ ReadsHold'
    BY <2>2, <2>3 DEF Alternates, OneAnswer, Absent, ReadsHold, Question
  <2> QED
    BY <2>5, <2>6 DEF Serial
<1>2. ASSUME NEW i \in Ids, NEW status \in Outcomes, Settle(i, status)
      PROVE  Serial'
  <2>1. status \in Terminal
    BY <1>2, ConversationAssumption
  <2>2. i = Len(messages) /\ messages[i].status = "PROCESSING"
        /\ messages \in Seq(Message) /\ UNCHANGED <<conversation, pc, last>>
        /\ answering' = answering \ {i}
        /\ messages' = [messages EXCEPT ![i].status = status]
    BY <1>2 DEF Settle, Serial, OneAnswer, TypeOK
  <2>3. /\ Ids' = Ids /\ messages' \in Seq(Message)
        /\ \A j \in Ids : messages'[j].seq = messages[j].seq
                          /\ messages'[j].sender = messages[j].sender
    BY <2>1, <2>2, Settled
  <2>4. /\ Len(messages') = Len(messages) /\ Len(messages) \in Nat
        /\ \A j \in Ids : j # i => messages'[j] = messages[j]
    BY <2>2 DEF Ids
  <2>5. messages[i].sender = "ASSISTANT"
    BY <2>2, RowFields DEF Serial, Alternates
  <2>6. UserMessages' = UserMessages
    BY <2>3 DEF UserMessages
  <2>7. Alternates'
    BY <2>2, <2>3, <2>4, <2>5 DEF Serial, Alternates
  <2>8. OneAnswer' /\ HalfQuestions'
    BY <2>2, <2>4, <2>6 DEF Serial, OneAnswer, HalfQuestions
  <2>9. messages # <<>> /\ messages' # <<>> /\ Len(messages) \in Ids
    BY <2>2, <2>4 DEF Ids
  <2>10. \A h \in Handlers : pc[h] \notin {"count", "insert_question"}
    BY <2>2 DEF Serial, ReadsHold, Terminal
  <2>11. Absent' /\ ReadsHold'
    BY <2>2, <2>3, <2>4, <2>9, <2>10 DEF Serial, Absent, ReadsHold
  <2> QED
    BY <2>7, <2>8, <2>11 DEF Serial
<1>3. CASE \E i \in Ids : SettleFails(i)
  <2>1. UNCHANGED <<conversation, messages, last, pc>> /\ answering' \subseteq answering
    BY <1>3 DEF SettleFails
  <2> QED
    BY <2>1, TurnKept
<1>4. CASE Restart \/ UNCHANGED vars
  <2>1. /\ UNCHANGED <<conversation, messages, last>> /\ answering' \subseteq answering
        /\ \A g \in Handlers : pc'[g] \in {pc[g], "idle"}
    BY <1>4 DEF Restart, vars
  <2> QED
    BY <2>1, TurnKept
<1> QED
  BY <1>1, <1>2, <1>3, <1>4 DEF Settling

\* What the turns are taken in: the kinds of the rows.
Transcript == [i \in Ids |-> Kind(messages[i])]

LEMMA TranscriptType ==
  ASSUME TypeOK
  PROVE  /\ Transcript \in Seq({"question", "pending", "answer"})
         /\ Len(Transcript) = Len(messages)
         /\ \A i \in Ids : Transcript[i] = Kind(messages[i])
         /\ Ids = 1 .. Len(messages) /\ Len(messages) \in Nat
         /\ Transcript = <<>> <=> messages = <<>>
<1>1. Ids = 1 .. Len(messages) /\ Len(messages) \in Nat
  BY DEF Ids, TypeOK
<1>2. \A i \in Ids : Kind(messages[i]) \in {"question", "pending", "answer"}
  BY DEF Kind
<1>3. /\ Transcript \in Seq({"question", "pending", "answer"})
      /\ Len(Transcript) = Len(messages)
  BY <1>1, <1>2 DEF Transcript
<1>4. messages = <<>> <=> Len(messages) = 0
  BY DEF TypeOK
<1>5. Transcript = <<>> <=> Len(Transcript) = 0
  BY <1>3
<1> QED
  BY <1>1, <1>3, <1>4, <1>5 DEF Transcript

LEMMA TranscriptTypeNext ==
  ASSUME TypeOK'
  PROVE  /\ Transcript' \in Seq({"question", "pending", "answer"})
         /\ Len(Transcript') = Len(messages')
         /\ \A i \in Ids' : Transcript'[i] = Kind(messages'[i])
         /\ Ids' = 1 .. Len(messages') /\ Len(messages') \in Nat
<1>1. Ids' = 1 .. Len(messages') /\ Len(messages') \in Nat
  BY DEF Ids, TypeOK
<1>2. \A i \in Ids' : Kind(messages'[i]) \in {"question", "pending", "answer"}
  BY DEF Kind
<1> QED
  BY <1>1, <1>2 DEF Transcript

\* A row that is added adds its kind.
LEMMA TranscriptAppended ==
  ASSUME TypeOK, TypeOK', NEW m \in Message, messages' = Append(messages, m)
  PROVE  Transcript' = Append(Transcript, Kind(m))
<1> DEFINE new == Len(messages) + 1
           K == {"question", "pending", "answer"}
<1>1. /\ Ids' = Ids \cup {new} /\ new \notin Ids /\ messages'[new] = m
      /\ \A i \in Ids : messages'[i] = messages[i]
      /\ Len(messages') = new
  <2>1. messages \in Seq(Message)
    BY DEF TypeOK
  <2>2. Len(messages') = new
    BY <2>1
  <2> QED
    BY <2>1, <2>2, Appended
<1>2. Kind(m) \in K
  BY DEF Kind
<1>3. /\ Append(Transcript, Kind(m)) \in Seq(K)
      /\ Len(Append(Transcript, Kind(m))) = new
      /\ \A i \in Ids : Append(Transcript, Kind(m))[i] = Transcript[i]
      /\ Append(Transcript, Kind(m))[new] = Kind(m)
  BY <1>2, TranscriptType
<1>4. \A i \in 1 .. new : Transcript'[i] = Append(Transcript, Kind(m))[i]
  BY <1>1, <1>3, TranscriptType, TranscriptTypeNext
<1>5. Transcript' \in Seq(K) /\ Len(Transcript') = new
  BY <1>1, TranscriptTypeNext
<1> QED
  BY <1>3, <1>4, <1>5, SeqEqual

\* The request's steps are the client's.
LEMMA RequestTakesTurn ==
  ASSUME TypeOK, TypeOK', Serial, Cardinality(Handlers) = 1, NEW h \in Handlers, Request(h)
  PROVE  [Turns!Next]_(Turns!vars)
<1> USE DEF Transcript
<1>1. CASE (\E op \in Operation : Arrive(h, op)) \/ Drop(h) \/ AppendRead(h) \/ AppendCount(h)
           \/ CompletionRead(h)
  <2>1. UNCHANGED <<conversation, messages>>
    BY <1>1 DEF Arrive, Drop, AppendRead, AppendCount, CompletionRead
  <2> QED
    BY <2>1 DEF Turns!vars, Ids
<1>2. CASE AppendInsert(h)
  <2>1. /\ pc[h] = "insert_question" /\ conversation' = conversation
        /\ messages' = Append(messages, Question(last[h] + 1, TRUE))
    BY <1>2 DEF AppendInsert
  <2>2. /\ conversation = "ACTIVE" /\ messages # <<>>
        /\ messages[Len(messages)].sender = "ASSISTANT"
        /\ messages[Len(messages)].status \in Terminal
        /\ Cardinality(UserMessages) < MaxUserMessages
    BY <2>1 DEF Serial, Absent, ReadsHold
  <2>3. Len(messages) \in Ids /\ Len(messages) \in Nat
    BY <2>2 DEF TypeOK, Ids
  <2>4. Kind(messages[Len(messages)]) = "answer"
    BY <2>2 DEF Kind, Terminal
  <2>5. Transcript # <<>> /\ Transcript[Len(Transcript)] = "answer"
    BY <2>2, <2>3, <2>4, TranscriptType
  <2>6. Len(Transcript) < 2 * MaxUserMessages
    <3>1. Len(messages) % 2 = 0
      BY <2>2, <2>3 DEF Serial, Alternates
    <3> QED
      BY <2>2, <2>3, <3>1, Counting, TranscriptType, ConversationAssumption
      DEF Serial, HalfQuestions
  <2>7. Transcript' = Append(Transcript, "question")
    <3>1. last[h] + 1 \in Nat /\ TRUE \in BOOLEAN
      BY DEF TypeOK
    <3>2. Question(last[h] + 1, TRUE) \in Message
      BY <3>1, QuestionType
    <3> QED
      BY <2>1, <3>2, TranscriptAppended DEF Kind, Question
  <2> HIDE DEF Transcript
  <2>8. Turns!Ask
    BY <2>1, <2>2, <2>5, <2>6, <2>7 DEF Turns!Ask, Turns!EndsWith, Transcript
  <2> QED
    BY <2>8 DEF Turns!Next
<1>3. CASE CompletionInsert(h) \/ CompletionAbandoned(h)
  <2>1. /\ pc[h] = "insert_answer" /\ conversation' = conversation
        /\ messages' = Append(messages, Answer(last[h] + 1))
    BY <1>3 DEF CompletionInsert, CompletionAbandoned
  <2>2. /\ conversation = "ACTIVE" /\ messages # <<>>
        /\ messages[Len(messages)].sender = "HUMAN"
    BY <2>1 DEF Serial, Absent, ReadsHold
  <2>3. Len(messages) \in Ids
    BY <2>2 DEF TypeOK, Ids
  <2>4. Transcript # <<>> /\ Transcript[Len(Transcript)] = "question"
    BY <2>2, <2>3, TranscriptType DEF Kind
  <2>5. Transcript' = Append(Transcript, "pending")
    <3>1. last[h] + 1 \in Nat
      BY DEF TypeOK
    <3>2. Answer(last[h] + 1) \in Message
      BY <3>1, AnswerType
    <3> QED
      BY <2>1, <3>2, TranscriptAppended DEF Kind, Answer
  <2>6. Turns!Start
    BY <2>1, <2>2, <2>4, <2>5 DEF Turns!Start, Turns!EndsWith, Transcript
  <2> QED
    BY <2>6 DEF Turns!Next
<1>4. CASE DeleteCommit(h)
  <2>1. pc[h] = "delete" /\ conversation' = "deleted" /\ messages' = <<>>
    BY <1>4 DEF DeleteCommit
  <2>2. conversation = "ACTIVE"
    BY <2>1 DEF Serial, Absent
  <2>3. Transcript' = <<>>
    BY <2>1 DEF Ids
  <2>4. Turns!Delete
    BY <2>1, <2>2, <2>3 DEF Turns!Delete
  <2> QED
    BY <2>4 DEF Turns!Next
<1> QED
  BY <1>1, <1>2, <1>3, <1>4 DEF Request

\* So are the others: the first question comes with the conversation, and a task settles the
\* answer the client waits for.
LEMMA OtherTakesTurn ==
  ASSUME TypeOK, TypeOK', Serial,
         \/ \E valid \in BOOLEAN : Create(valid)
         \/ \E i \in Ids : Settling(i)
         \/ Restart \/ UNCHANGED vars
  PROVE  [Turns!Next]_(Turns!vars)
<1>1. ASSUME NEW valid \in BOOLEAN, Create(valid)
      PROVE  Turns!Next
  <2>1. /\ conversation = "none" /\ conversation' = "ACTIVE"
        /\ messages = <<>> /\ messages' = <<Question(1, valid)>>
    BY <1>1 DEF Create, Serial, Absent
  <2>2. Question(1, valid) \in Message /\ messages' = Append(messages, Question(1, valid))
    BY <2>1, QuestionType
  <2>3. Transcript' = Append(Transcript, "question") /\ Transcript = <<>>
    BY <2>1, <2>2, TranscriptAppended, TranscriptType DEF Kind, Question
  <2>4. Len(Transcript) < 2 * MaxUserMessages
    BY <2>1, TranscriptType, ConversationAssumption
  <2>5. Turns!Ask
    BY <2>1, <2>3, <2>4 DEF Turns!Ask, Transcript
  <2> QED
    BY <2>5 DEF Turns!Next
<1>2. ASSUME NEW i \in Ids, NEW status \in Outcomes, Settle(i, status)
      PROVE  Turns!Next
  <2>1. /\ i = Len(messages) /\ messages[i].status = "PROCESSING" /\ messages \in Seq(Message)
        /\ messages' = [messages EXCEPT ![i].status = status] /\ conversation' = conversation
    BY <1>2 DEF Settle, Serial, OneAnswer, TypeOK
  <2>2. status # "PROCESSING" /\ status \in Terminal
    BY ConversationAssumption DEF Terminal
  <2>3. conversation = "ACTIVE"
    BY DEF Serial, Absent, Ids
  <2>4. /\ messages[i].sender = "ASSISTANT" /\ messages'[i].sender = "ASSISTANT"
        /\ messages'[i].status = status
        /\ Ids' = Ids /\ Len(messages') = Len(messages)
        /\ \A j \in Ids : j # i => messages'[j] = messages[j]
    <3>1. messages[i] \in Message
      BY <2>1, RowFields
    <3>2. messages[i].sender = "ASSISTANT"
      BY <2>1, <3>1 DEF Serial, Alternates, Message
    <3> QED
      BY <2>1, <3>1, <3>2 DEF Message, Ids
  <2>5. Transcript # <<>> /\ Transcript[Len(Transcript)] = "pending"
    BY <2>1, <2>4, TranscriptType DEF Kind
  <2>6. Transcript' = [Transcript EXCEPT ![Len(Transcript)] = "answer"]
    <3>1. Kind(messages'[i]) = "answer" /\ \A j \in Ids : j # i => Kind(messages'[j]) = Kind(messages[j])
      BY <2>2, <2>4 DEF Kind
    <3>2. Len(Transcript) = i
      BY <2>1, TranscriptType
    <3> QED
      BY <2>4, <3>1, <3>2 DEF Transcript
  <2>7. Turns!Settle
    BY <2>1, <2>3, <2>5, <2>6 DEF Turns!Settle, Turns!EndsWith, Transcript
  <2> QED
    BY <2>7 DEF Turns!Next
<1>3. CASE (\E i \in Ids : SettleFails(i)) \/ Restart \/ UNCHANGED vars
  <2>1. UNCHANGED <<conversation, messages>>
    BY <1>3 DEF SettleFails, Restart, vars
  <2> QED
    BY <2>1 DEF Turns!vars, Ids
<1> QED
  BY <1>1, <1>2, <1>3 DEF Settling

\* With one request at a time a conversation implements the turns, whatever the limit on its
\* questions, and across restarts, abandoned requests and failed writes.
THEOREM OneRequestTakesTurns ==
  ASSUME Cardinality(Handlers) = 1
  PROVE  Spec => TakesTurns
<1>1. Init => Serial
  <2>1. ASSUME Init
        PROVE  Ids = {} /\ UserMessages = {} /\ Len(messages) = 0
    BY <2>1 DEF Init, UserMessages, Ids
  <2>2. ASSUME Init
        PROVE  HalfQuestions
    <3>1. Cardinality(UserMessages) = 0 /\ Len(messages) = 0
      BY <2>1, <2>2, FS_EmptySet
    <3>2. 2 * 0 = 0 + (0 % 2)
      OBVIOUS
    <3> QED
      BY <3>1, <3>2 DEF HalfQuestions
  <2>3. ASSUME Init
        PROVE  Alternates /\ OneAnswer /\ Absent /\ ReadsHold
    BY <2>1, <2>3 DEF Init, Alternates, OneAnswer, Absent, ReadsHold
  <2> QED
    BY <2>2, <2>3 DEF Serial
<1>2. TypeOK /\ Fresh /\ Serial /\ [Next]_vars => Serial'
  BY TurnRequest, TurnOther DEF Next
<1>3. Init => Turns!Init
  BY DEF Init, Turns!Init, Ids
<1>4. TypeOK /\ TypeOK' /\ Serial /\ [Next]_vars => [Turns!Next]_(Turns!vars)
  BY RequestTakesTurn, OtherTakesTurn DEF Next
<1> QED
  BY <1>1, <1>2, <1>3, <1>4, TypesAndFreshness, PTL DEF Spec, TakesTurns, Turns!Spec
=============================================================================
