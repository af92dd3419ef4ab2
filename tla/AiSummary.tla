------------------------------ MODULE AiSummary ------------------------------
(***************************************************************************)
(* The summary of one chart or dashboard: its row in ai_summary, the       *)
(* claim protocol by which at most one request generates it, and edits of  *)
(* its prompt.                                                             *)
(*                                                                         *)
(* A generation claims the row with one conditional UPDATE, or with an     *)
(* INSERT that the unique index on (entity_type, entity_id) arbitrates,    *)
(* calls the model for as long as that takes and then records the result.  *)
(* A claim older than STALE_GENERATION_TIMEOUT_MINUTES may be taken over.  *)
(* Recording looks the row up by its entity and asks for no claim.         *)
(*                                                                         *)
(* Charts of a dashboard summarised together claim their rows one by one   *)
(* and share nothing else; each is an instance of this module.             *)
(***************************************************************************)
EXTENDS Naturals, FiniteSets

CONSTANTS
  Handlers,   \* requests and background generations that can be in progress at a time
  Prompts,    \* what a user may write as the prompt
  MaxFaults   \* bound: restarts and abandoned generations

ASSUME AiSummaryAssumption ==
  /\ IsFiniteSet(Handlers) /\ MaxFaults \in Nat
  /\ "none" \notin Prompts

VARIABLES
  exists,   \* whether the chart or dashboard has not been deleted
  row,      \* the row of its summary, or Absent
  pc,       \* what each handler is about to do
  snap,     \* the prompt each generation works with
  edited,   \* history: the prompt was edited since the last claim
  overran,  \* history: a generation outlived the timeout
  faults    \* how many faults have happened

vars == <<exists, row, pc, snap, edited, overran, faults>>

Prompt == Prompts \cup {"none"}
Status == {"IDLE", "GENERATING", "READY", "FAILED"}
Pc == {"idle", "claim", "find", "insert", "find_again", "snapshot", "generate", "set_prompt"}

\* stale: requested_at is older than the timeout.  prompt and used: user_prompt and
\* user_prompt_used.  The text of the summary, its error and its timestamps are left out.
Absent == [status |-> "ABSENT", stale |-> FALSE, prompt |-> "none", used |-> "none"]
Row == [status : Status, stale : BOOLEAN, prompt : Prompt, used : Prompt]

\* The generations in progress: they have claimed the row and not recorded a result.
Generating == {h \in Handlers : pc[h] \in {"snapshot", "generate"}}

Init ==
  /\ exists = TRUE /\ row = Absent
  /\ pc = [h \in Handlers |-> "idle"]
  /\ snap = [h \in Handlers |-> "none"]
  /\ edited = FALSE /\ overran = FALSE /\ faults = 0

Goto(h, label) == pc' = [pc EXCEPT ![h] = label]

-----------------------------------------------------------------------------
(* generate_chart_summary, generate_dashboard_summary and, for each chart, *)
(* generate_all_chart_summaries.                                           *)

\* The model is configured and the chart or dashboard exists.
Ask(h) ==
  /\ pc[h] = "idle" /\ exists
  /\ Goto(h, "claim")
  /\ UNCHANGED <<exists, row, snap, edited, overran, faults>>

\* Mutant of Claimable: a claim is never given up.
ClaimableNeverStale == row # Absent /\ row.status # "GENERATING"

\* The WHERE clause of try_mark_generating.
Claimable == row # Absent /\ (row.status # "GENERATING" \/ row.stale)

\* try_mark_generating, one statement.
Claim(h) ==
  /\ pc[h] = "claim"
  /\ IF Claimable
     THEN /\ row' = [row EXCEPT !.status = "GENERATING", !.stale = FALSE]
          /\ edited' = FALSE
          /\ Goto(h, "snapshot")
     ELSE /\ Goto(h, "find")
          /\ UNCHANGED <<row, edited>>
  /\ UNCHANGED <<exists, snap, overran, faults>>

\* Mutant of Snapshot: the prompt of the previous run is used again.
SnapshotUsed(h) ==
  /\ pc[h] = "snapshot"
  /\ snap' = [snap EXCEPT ![h] = row.used]
  /\ Goto(h, "generate")
  /\ UNCHANGED <<exists, row, edited, overran, faults>>

\* The prompt is read after the claim; the row may be gone again.
Snapshot(h) ==
  /\ pc[h] = "snapshot"
  /\ snap' = [snap EXCEPT ![h] = row.prompt]
  /\ Goto(h, "generate")
  /\ UNCHANGED <<exists, row, edited, overran, faults>>

\* The UPDATE matched nothing: the request is answered with the row there is now.
Find(h) ==
  /\ pc[h] = "find"
  /\ Goto(h, IF row = Absent THEN "insert" ELSE "idle")
  /\ UNCHANGED <<exists, row, snap, edited, overran, faults>>

\* Mutant of Insert: an upsert in place of the insert that the unique index refuses.
InsertOverwrites(h) ==
  /\ pc[h] = "insert"
  /\ row' = [Absent EXCEPT !.status = "GENERATING"]
  /\ edited' = FALSE
  /\ Goto(h, "generate")
  /\ UNCHANGED <<exists, snap, overran, faults>>

\* insert_generating; the unique index refuses a second row.
Insert(h) ==
  /\ pc[h] = "insert"
  /\ IF row = Absent
     THEN /\ row' = [Absent EXCEPT !.status = "GENERATING"]
          /\ snap' = [snap EXCEPT ![h] = "none"]
          /\ edited' = FALSE
          /\ Goto(h, "generate")
     ELSE Goto(h, "find_again") /\ UNCHANGED <<row, snap, edited>>
  /\ UNCHANGED <<exists, overran, faults>>

FindAgain(h) ==
  /\ pc[h] = "find_again"
  /\ Goto(h, "idle")
  /\ UNCHANGED <<exists, row, snap, edited, overran, faults>>

\* Mutant of Result: a failure is only logged.
ResultOnlyIfReady(h, ok) ==
  IF row = Absent \/ ~ok THEN row
  ELSE [row EXCEPT !.status = "READY", !.used = snap[h]]

\* mark_ready and mark_failed, which do nothing when there is no row.
Result(h, ok) ==
  IF row = Absent THEN row
  ELSE IF ok THEN [row EXCEPT !.status = "READY", !.used = snap[h]]
  ELSE [row EXCEPT !.status = "FAILED"]

Leaves(h) == Goto(h, "idle") /\ snap' = [snap EXCEPT ![h] = "none"]

\* summarize_chart or summarize_dashboard returns; record_generation_result.
Record(h) ==
  /\ pc[h] = "generate"
  /\ \E ok \in BOOLEAN : row' = Result(h, ok)
  /\ Leaves(h)
  /\ UNCHANGED <<exists, edited, overran, faults>>

-----------------------------------------------------------------------------
(* set_chart_prompt and set_dashboard_prompt.                              *)

AskPrompt(h) ==
  /\ pc[h] = "idle" /\ exists
  /\ Goto(h, "set_prompt")
  /\ UNCHANGED <<exists, row, snap, edited, overran, faults>>

\* set_user_prompt: a row that does not exist yet starts as IDLE.
SetPrompt(h, prompt) ==
  /\ pc[h] = "set_prompt"
  /\ row' = IF row = Absent
            THEN [Absent EXCEPT !.status = "IDLE", !.prompt = prompt]
            ELSE [row EXCEPT !.prompt = prompt]
  /\ edited' = (edited \/ prompt # row.prompt)
  /\ Goto(h, "idle")
  /\ UNCHANGED <<exists, snap, overran, faults>>

-----------------------------------------------------------------------------
(* The rest of the world.                                                  *)

\* A request fails or is cancelled before it has claimed or written anything.
Drop(h) ==
  /\ pc[h] \in {"claim", "find", "insert", "find_again", "set_prompt"}
  /\ Goto(h, "idle")
  /\ UNCHANGED <<exists, row, snap, edited, overran, faults>>

\* A generation is lost: its client disconnects, an error ends it after the claim (another
\* chart of the batch cannot be claimed), or its result cannot be written.
Abandon(h) ==
  /\ h \in Generating /\ faults < MaxFaults
  /\ Leaves(h)
  /\ faults' = faults + 1
  /\ UNCHANGED <<exists, row, edited, overran>>

Restart ==
  /\ faults < MaxFaults
  /\ pc' = [h \in Handlers |-> "idle"]
  /\ snap' = [h \in Handlers |-> "none"]
  /\ faults' = faults + 1
  /\ UNCHANGED <<exists, row, edited, overran>>

\* The claim in the row gets older than the timeout.
Expire ==
  /\ row.status = "GENERATING" /\ ~row.stale
  /\ row' = [row EXCEPT !.stale = TRUE]
  /\ overran' = (overran \/ Generating # {})
  /\ UNCHANGED <<exists, pc, snap, edited, faults>>

\* The requests that delete the chart or the dashboard delete its summary in the same transaction;
\* a plan of the canvas agent that deletes the chart leaves it behind.
Delete ==
  /\ exists
  /\ exists' = FALSE
  /\ row' \in {Absent, row}
  /\ UNCHANGED <<pc, snap, edited, overran, faults>>

-----------------------------------------------------------------------------
Generate(h) == Snapshot(h) \/ Record(h)

Handler(h) ==
  \/ Ask(h) \/ Claim(h) \/ Find(h) \/ Insert(h) \/ FindAgain(h) \/ Generate(h)
  \/ AskPrompt(h) \/ (\E prompt \in Prompt : SetPrompt(h, prompt))
  \/ Drop(h) \/ Abandon(h)

Next == (\E h \in Handlers : Handler(h)) \/ Restart \/ Expire \/ Delete

\* Model calls return and time passes; nobody has to ask for anything.
Spec ==
  /\ Init /\ [][Next]_vars
  /\ \A h \in Handlers : WF_vars(Generate(h))
  /\ WF_vars(Expire)

-----------------------------------------------------------------------------
(* Properties.                                                             *)

TypeOK ==
  /\ exists \in BOOLEAN
  /\ row \in Row \cup {Absent}
  /\ pc \in [Handlers -> Pc]
  /\ snap \in [Handlers -> Prompt]
  /\ edited \in BOOLEAN /\ overran \in BOOLEAN
  /\ faults \in 0 .. MaxFaults

\* "takes ownership in one statement, so no competing request can slip between": as long as no
\* generation outlives the timeout and the chart is not deleted, two requests never generate
\* its summary at the same time, whichever of the two ways each claimed it.
OneGenerationAtATime ==
  exists /\ ~overran => \A g, h \in Generating : g = h

\* is_prompt_stale of AiSummaryDto.
IsPromptStale == row.status = "READY" /\ row.prompt # row.used

\* "Snapshot the prompt after the claim commits, so a concurrent edit cannot change what this
\* run is recorded as having used": a summary is shown as outdated only when its prompt was
\* edited after the generation it comes from was claimed, as long as no generation outlives
\* the timeout.
OutdatedOnlyByEdit == exists /\ ~overran /\ IsPromptStale => edited

\* Without a fault a summary does not stay GENERATING for ever, whether its generation
\* succeeds, fails, is overtaken or its chart is deleted.
GeneratingEnds == row.status = "GENERATING" ~> (row.status # "GENERATING" \/ faults > 0)

\* After any fault, asking again and again is enough: it cannot go on for ever that the row
\* says GENERATING, nobody generates, and claims are refused.
RetryRecovers ==
  []<><<\E h \in Handlers : Claim(h)>>_vars =>
    []<>(row.status # "GENERATING" \/ Generating # {})

=============================================================================
