------------------------------- MODULE Answer -------------------------------
(***************************************************************************)
(* What a completion promises: the life of one assistant message as the    *)
(* readers of the database and of the event stream see it.  A message is   *)
(* PROCESSING while rows are saved, is settled at most once, and a verdict *)
(* is announced at most once, after which nothing about it changes except  *)
(* that the conversation may be deleted.                                   *)
(***************************************************************************)
EXTENDS Naturals, Sequences

CONSTANTS
  Event,    \* what can be saved and announced
  Status,   \* the statuses of a message, "PROCESSING" and "FAILED" among them
  StatusOf(_)  \* the status an announced event stands for

VARIABLES
  status,   \* the status column, "DELETED" once the row is gone
  saved,    \* the content rows
  verdict   \* the event announced to the client, "none" before

vars == <<status, saved, verdict>>

Init == status = "PROCESSING" /\ saved = <<>> /\ verdict = "none"

Save(e) ==
  /\ status = "PROCESSING" /\ verdict = "none"
  /\ saved' = Append(saved, e)
  /\ UNCHANGED <<status, verdict>>

\* A successful status needs its event as the last row saved.
Settle(s) ==
  /\ status = "PROCESSING" /\ verdict = "none"
  /\ s = "FAILED" \/ (saved # <<>> /\ StatusOf(saved[Len(saved)]) = s)
  /\ status' = s
  /\ UNCHANGED <<saved, verdict>>

\* Anything but an error is announced only when the row says so.
Announce(e) ==
  /\ verdict = "none"
  /\ status = "DELETED" \/ status = StatusOf(e) \/ (status = "PROCESSING" /\ StatusOf(e) = "FAILED")
  /\ verdict' = e
  /\ UNCHANGED <<status, saved>>

Remove ==
  /\ status # "DELETED"
  /\ status' = "DELETED"
  /\ saved' = <<>>
  /\ UNCHANGED verdict

Next ==
  \/ \E e \in Event : Save(e) \/ Announce(e)
  \/ \E s \in Status \ {"PROCESSING"} : Settle(s)
  \/ Remove

Spec == Init /\ [][Next]_vars
=============================================================================
