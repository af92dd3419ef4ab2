----------------------------- MODULE TurnTaking -----------------------------
(***************************************************************************)
(* What a conversation promises to a client that sends one request at a    *)
(* time: questions and answers alternate, a new question has to wait for   *)
(* the previous answer, there are at most MaxQuestions questions, and a    *)
(* deleted conversation is empty and stays so.                             *)
(***************************************************************************)
EXTENDS Naturals, Sequences

CONSTANT MaxQuestions

VARIABLES
  transcript,  \* "question", "pending" or "answer", one per message
  open         \* whether the conversation has not been deleted

vars == <<transcript, open>>

EndsWith(kind) == transcript # <<>> /\ transcript[Len(transcript)] = kind

Init == transcript = <<>> /\ open = TRUE

\* As the two kinds alternate, this leaves room for MaxQuestions questions.
Ask ==
  /\ open = TRUE
  /\ transcript = <<>> \/ EndsWith("answer")
  /\ Len(transcript) < 2 * MaxQuestions
  /\ transcript' = Append(transcript, "question")
  /\ UNCHANGED open

Start ==
  /\ open = TRUE /\ EndsWith("question")
  /\ transcript' = Append(transcript, "pending")
  /\ UNCHANGED open

Settle ==
  /\ open = TRUE /\ EndsWith("pending")
  /\ transcript' = [transcript EXCEPT ![Len(transcript)] = "answer"]
  /\ UNCHANGED open

Delete ==
  /\ open = TRUE
  /\ open' = FALSE
  /\ transcript' = <<>>

Next == Ask \/ Start \/ Settle \/ Delete

Spec == Init /\ [][Next]_vars
=============================================================================
