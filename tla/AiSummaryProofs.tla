-------------------------- MODULE AiSummaryProofs --------------------------
(***************************************************************************)
(* Proofs about AiSummary: types, the exclusion of two generations, and    *)
(* what an outdated prompt means, for any number of handlers, prompts      *)
(* and faults.                                                             *)
(***************************************************************************)
EXTENDS AiSummary, TLAPS

\* A result keeps the shape of the row.
LEMMA ResultType ==
  ASSUME row \in Row \cup {Absent}, NEW h \in Handlers, snap \in [Handlers -> Prompt],
         NEW ok \in BOOLEAN
  PROVE  Result(h, ok) \in Row \cup {Absent}
  BY DEF Result, Row, Absent, Status, Prompt

\* Every step keeps the types.
LEMMA TypeStep ==
  ASSUME TypeOK, [Next]_vars
  PROVE  TypeOK'
<1> USE DEF TypeOK
<1>1. ASSUME NEW h \in Handlers, Handler(h)
      PROVE  TypeOK'
  <2> USE DEF Goto, Pc
  <2>1. CASE Ask(h)
    BY <2>1 DEF Ask
  <2>2. CASE Claim(h)
    BY <2>2 DEF Claim, Claimable, Row, Absent, Status, Prompt
  <2>3. CASE Find(h)
    BY <2>3 DEF Find, Row, Absent
  <2>4. CASE Insert(h)
    BY <2>4 DEF Insert, Row, Absent, Status, Prompt
  <2>5. CASE FindAgain(h)
    BY <2>5 DEF FindAgain, Row, Absent
  <2>6. CASE Snapshot(h)
    BY <2>6 DEF Snapshot, Row, Absent, Prompt
  <2>7. CASE Record(h)
    BY <2>7, ResultType DEF Record, Leaves, Prompt
  <2>8. CASE AskPrompt(h)
    BY <2>8 DEF AskPrompt
  <2>9. ASSUME NEW prompt \in Prompt, SetPrompt(h, prompt)
        PROVE  TypeOK'
    BY <2>9 DEF SetPrompt, Row, Absent, Status, Prompt
  <2>10. CASE Drop(h)
    BY <2>10 DEF Drop
  <2>11. CASE Abandon(h)
    BY <2>11, AiSummaryAssumption DEF Abandon, Leaves, Prompt
  <2> QED
    BY <1>1, <2>1, <2>2, <2>3, <2>4, <2>5, <2>6, <2>7, <2>8, <2>9, <2>10, <2>11
    DEF Handler, Generate
<1>2. CASE Restart
  BY <1>2, AiSummaryAssumption DEF Restart, Pc, Prompt
<1>3. CASE Expire
  <2>1. row' \in Row
    <3>1. row.status = "GENERATING" /\ row' = [row EXCEPT !.stale = TRUE]
      BY <1>3, Zenon DEF Expire
    <3>2. row \in Row
      BY <3>1 DEF Absent
    <3> QED
      BY <3>1, <3>2 DEF Row
  <2>2. overran' \in BOOLEAN
    BY <1>3, Zenon DEF Expire
  <2> QED
    BY <1>3, <2>1, <2>2 DEF Expire
<1>4. CASE Delete
  BY <1>4 DEF Delete
<1>5. CASE UNCHANGED vars
  BY <1>5 DEF vars
<1> QED
  BY <1>1, <1>2, <1>3, <1>4, <1>5 DEF Next

\* The model's variables keep their types.
THEOREM TypeCorrect == Spec => []TypeOK
<1>1. Init => TypeOK
  <2>1. ASSUME Init
        PROVE  faults \in 0 .. MaxFaults
    BY <2>1, AiSummaryAssumption DEF Init
  <2> QED
    BY <2>1, Zenon DEF Init, TypeOK, Pc, Prompt
<1>2. TypeOK /\ [Next]_vars => TypeOK'
  BY TypeStep
<1> QED
  BY <1>1, <1>2, PTL DEF Spec

-----------------------------------------------------------------------------
\* What OneGenerationAtATime needs to be inductive: the generation in progress is the one the
\* row tells of, so that the WHERE clause of the next claim does not match.
Claimed ==
  exists /\ ~overran /\ Generating # {} => row.status = "GENERATING" /\ ~row.stale

Exclusion == OneGenerationAtATime /\ Claimed

\* A handler that moves to a place outside of the generation leaves fewer generations.
LEMMA GeneratingShrinks ==
  ASSUME TypeOK, NEW h \in Handlers, NEW label, Goto(h, label),
         label \notin {"snapshot", "generate"}
  PROVE  Generating' \subseteq Generating
  BY DEF TypeOK, Goto, Generating

\* One that goes on generating does not change who generates.
LEMMA GeneratingStays ==
  ASSUME TypeOK, NEW h \in Generating, NEW label, Goto(h, label)
  PROVE  Generating' \subseteq Generating
  BY DEF TypeOK, Goto, Generating

\* One that begins to generate is the only new one.
LEMMA GeneratingGrows ==
  ASSUME TypeOK, NEW h \in Handlers, NEW label, Goto(h, label)
  PROVE  Generating' \subseteq Generating \cup {h}
  BY DEF TypeOK, Goto, Generating

\* A step that adds no generation and leaves a claimed row claimed keeps the exclusion.
LEMMA ExclusionKept ==
  ASSUME Exclusion, Generating' \subseteq Generating,
         exists' = exists, overran' = overran,
         Generating' # {} /\ row.status = "GENERATING" /\ ~row.stale =>
           row'.status = "GENERATING" /\ ~row'.stale
  PROVE  Exclusion'
  BY DEF Exclusion, OneGenerationAtATime, Claimed

\* Every step keeps the exclusion.
LEMMA ExclusionStep ==
  ASSUME TypeOK, Exclusion, [Next]_vars
  PROVE  Exclusion'
<1>1. ASSUME NEW h \in Handlers, Handler(h)
      PROVE  Exclusion'
  <2>1. CASE Ask(h) \/ Find(h) \/ FindAgain(h) \/ AskPrompt(h) \/ Drop(h) \/ Abandon(h)
    <3>1. Generating' \subseteq Generating
      BY <2>1, GeneratingShrinks DEF Ask, Find, FindAgain, AskPrompt, Drop, Abandon, Leaves
    <3> QED
      BY <2>1, <3>1, ExclusionKept DEF Ask, Find, FindAgain, AskPrompt, Drop, Abandon
  <2>2. CASE Claim(h)
    <3>1. CASE Claimable
      <4>1. exists /\ ~overran => Generating = {}
        BY <3>1 DEF Exclusion, Claimed, Claimable
      <4>2. Generating' \subseteq Generating \cup {h}
        BY <2>2, <3>1, GeneratingGrows DEF Claim
      <4>3. row'.status = "GENERATING" /\ ~row'.stale
        BY <2>2, <3>1 DEF Claim, Claimable, TypeOK, Row
      <4> QED
        BY <2>2, <4>1, <4>2, <4>3 DEF Claim, Exclusion, OneGenerationAtATime, Claimed
    <3>2. CASE ~Claimable
      <4>1. Generating' \subseteq Generating
        BY <2>2, <3>2, GeneratingShrinks DEF Claim
      <4> QED
        BY <2>2, <3>2, <4>1, ExclusionKept DEF Claim
    <3> QED
      BY <3>1, <3>2
  <2>3. CASE Insert(h)
    <3>1. CASE row = Absent
      <4>1. exists /\ ~overran => Generating = {}
        BY <3>1 DEF Exclusion, Claimed, Absent
      <4>2. Generating' \subseteq Generating \cup {h}
        BY <2>3, <3>1, GeneratingGrows DEF Insert
      <4>3. row'.status = "GENERATING" /\ ~row'.stale
        BY <2>3, <3>1 DEF Insert, Absent
      <4> QED
        BY <2>3, <4>1, <4>2, <4>3 DEF Insert, Exclusion, OneGenerationAtATime, Claimed
    <3>2. CASE row # Absent
      <4>1. Generating' \subseteq Generating
        BY <2>3, <3>2, GeneratingShrinks DEF Insert
      <4> QED
        BY <2>3, <3>2, <4>1, ExclusionKept DEF Insert
    <3> QED
      BY <3>1, <3>2
  <2>4. CASE Snapshot(h)
    <3>1. Generating' \subseteq Generating
      BY <2>4, GeneratingStays DEF Snapshot, Generating
    <3> QED
      BY <2>4, <3>1, ExclusionKept DEF Snapshot
  <2>5. CASE Record(h)
    <3>1. Generating' \subseteq Generating /\ h \notin Generating'
      BY <2>5, GeneratingShrinks DEF Record, Leaves, Goto, Generating, TypeOK
    <3>2. exists /\ ~overran => Generating' = {}
      BY <2>5, <3>1 DEF Record, Exclusion, OneGenerationAtATime, Generating
    <3> QED
      BY <2>5, <3>2 DEF Record, Exclusion, OneGenerationAtATime, Claimed
  <2>6. ASSUME NEW prompt \in Prompt, SetPrompt(h, prompt)
        PROVE  Exclusion'
    <3>1. Generating' \subseteq Generating
      BY <2>6, GeneratingShrinks DEF SetPrompt
    <3>2. row.status = "GENERATING" /\ ~row.stale =>
            row'.status = "GENERATING" /\ ~row'.stale
      BY <2>6 DEF SetPrompt, Absent, TypeOK, Row
    <3> QED
      BY <2>6, <3>1, <3>2, ExclusionKept DEF SetPrompt
  <2> QED
    BY <1>1, <2>1, <2>2, <2>3, <2>4, <2>5, <2>6 DEF Handler, Generate
<1>2. CASE Restart
  <2>1. Generating' = {}
    BY <1>2 DEF Restart, Generating
  <2> QED
    BY <2>1 DEF Exclusion, OneGenerationAtATime, Claimed
<1>3. CASE Expire
  <2>1. Generating' = Generating
    BY <1>3 DEF Expire, Generating
  <2>2. ~overran' => Generating' = {} /\ ~overran
    BY <1>3, <2>1 DEF Expire, TypeOK
  <2> QED
    BY <2>2 DEF Exclusion, OneGenerationAtATime, Claimed
<1>4. CASE Delete
  BY <1>4 DEF Delete, Exclusion, OneGenerationAtATime, Claimed
<1>5. CASE UNCHANGED vars
  BY <1>5 DEF vars, Exclusion, OneGenerationAtATime, Claimed, Generating
<1> QED
  BY <1>1, <1>2, <1>3, <1>4, <1>5 DEF Next

\* As long as no generation outlives the timeout and the chart is not deleted, at most one
\* request generates its summary, however many ask.
THEOREM GenerationsExclude == Spec => []OneGenerationAtATime
<1>1. Init => Exclusion
  BY DEF Init, Exclusion, OneGenerationAtATime, Claimed, Generating
<1>2. TypeOK /\ Exclusion /\ [Next]_vars => Exclusion'
  BY ExclusionStep
<1>3. Exclusion => OneGenerationAtATime
  BY DEF Exclusion
<1> QED
  BY <1>1, <1>2, <1>3, TypeCorrect, PTL DEF Spec

-----------------------------------------------------------------------------
\* What OutdatedOnlyByEdit needs to be inductive: until the prompt is edited, a generation
\* that has read it works with the prompt in the row.
SnapshotIsCurrent ==
  exists /\ ~overran /\ ~edited =>
    \A h \in Handlers : pc[h] = "generate" => snap[h] = row.prompt

Recorded == SnapshotIsCurrent /\ OutdatedOnlyByEdit

\* A step that changes neither the prompts nor the status, and lets no handler begin to
\* generate, keeps both.
LEMMA RecordedKept ==
  ASSUME Recorded, exists' = exists, overran' = overran, edited' = edited, row' = row,
         \A h \in Handlers : pc'[h] = "generate" => pc[h] = "generate" /\ snap'[h] = snap[h]
  PROVE  Recorded'
  BY DEF Recorded, SnapshotIsCurrent, OutdatedOnlyByEdit, IsPromptStale

\* Every step keeps them, because a claim that starts a run excludes the runs before it.
LEMMA RecordedStep ==
  ASSUME TypeOK, Exclusion, Recorded, [Next]_vars
  PROVE  Recorded'
<1>1. ASSUME NEW h \in Handlers, Handler(h)
      PROVE  Recorded'
  <2>1. CASE Ask(h) \/ Find(h) \/ FindAgain(h) \/ AskPrompt(h) \/ Drop(h) \/ Abandon(h)
    BY <2>1, RecordedKept
    DEF Ask, Find, FindAgain, AskPrompt, Drop, Abandon, Leaves, Goto, TypeOK
  <2>2. CASE Claim(h)
    <3>1. CASE Claimable
      <4>1. exists /\ ~overran => Generating = {}
        BY <3>1 DEF Exclusion, Claimed, Claimable
      <4>2. row'.status = "GENERATING"
        BY <2>2, <3>1 DEF Claim, Claimable, TypeOK, Row
      <4>3. exists /\ ~overran => \A g \in Handlers : pc'[g] # "generate"
        BY <2>2, <3>1, <4>1 DEF Claim, Goto, Generating, TypeOK
      <4> QED
        BY <2>2, <4>2, <4>3 DEF Claim, Recorded, SnapshotIsCurrent, OutdatedOnlyByEdit, IsPromptStale
    <3>2. CASE ~Claimable
      BY <2>2, <3>2, RecordedKept DEF Claim, Goto, TypeOK
    <3> QED
      BY <3>1, <3>2
  <2>3. CASE Insert(h)
    <3>1. CASE row = Absent
      <4>1. exists /\ ~overran => Generating = {}
        BY <3>1 DEF Exclusion, Claimed, Absent
      <4>2. row'.status = "GENERATING"
        BY <2>3, <3>1 DEF Insert, Absent
      <4>3. exists /\ ~overran => \A g \in Handlers : pc'[g] = "generate" => g = h
        BY <2>3, <3>1, <4>1 DEF Insert, Goto, Generating, TypeOK
      <4>4. snap'[h] = row'.prompt
        BY <2>3, <3>1 DEF Insert, Absent, TypeOK
      <4> QED
        BY <2>3, <3>1, <4>2, <4>3, <4>4
        DEF Insert, Recorded, SnapshotIsCurrent, OutdatedOnlyByEdit, IsPromptStale
    <3>2. CASE row # Absent
      BY <2>3, <3>2, RecordedKept DEF Insert, Goto, TypeOK
    <3> QED
      BY <3>1, <3>2
  <2>4. CASE Snapshot(h)
    BY <2>4 DEF Snapshot, Goto, TypeOK, Recorded, SnapshotIsCurrent, OutdatedOnlyByEdit,
                IsPromptStale
  <2>5. CASE Record(h)
    <3>1. PICK ok \in BOOLEAN : row' = Result(h, ok)
      BY <2>5 DEF Record
    <3>2. /\ row'.prompt = row.prompt
          /\ row'.status = "READY" => row'.used = snap[h] \/ (row'.used = row.used /\ row.status = "READY")
      BY <3>1 DEF Result, TypeOK, Row, Absent
    <3>3. \A g \in Handlers : pc'[g] = "generate" => pc[g] = "generate" /\ snap'[g] = snap[g]
      BY <2>5 DEF Record, Leaves, Goto, TypeOK
    <3>4. SnapshotIsCurrent'
      BY <2>5, <3>2, <3>3 DEF Record, Recorded, SnapshotIsCurrent
    <3>5. OutdatedOnlyByEdit'
      BY <2>5, <3>2 DEF Record, Recorded, SnapshotIsCurrent, OutdatedOnlyByEdit, IsPromptStale
    <3> QED
      BY <3>4, <3>5 DEF Recorded
  <2>6. ASSUME NEW prompt \in Prompt, SetPrompt(h, prompt)
        PROVE  Recorded'
    <3>1. CASE prompt # row.prompt
      BY <2>6, <3>1 DEF SetPrompt, Recorded, SnapshotIsCurrent, OutdatedOnlyByEdit
    <3>2. CASE prompt = row.prompt
      <4>1. edited' = edited /\ exists' = exists /\ overran' = overran
        BY <2>6, <3>2 DEF SetPrompt, TypeOK
      <4>2. row'.prompt = row.prompt /\ (row'.status = "READY" => row' = row)
        BY <2>6, <3>2 DEF SetPrompt, TypeOK, Row, Absent
      <4>3. \A g \in Handlers : pc'[g] = "generate" => pc[g] = "generate" /\ snap'[g] = snap[g]
        BY <2>6 DEF SetPrompt, Goto, TypeOK
      <4> QED
        BY <4>1, <4>2, <4>3 DEF Recorded, SnapshotIsCurrent, OutdatedOnlyByEdit, IsPromptStale
    <3> QED
      BY <3>1, <3>2
  <2> QED
    BY <1>1, <2>1, <2>2, <2>3, <2>4, <2>5, <2>6 DEF Handler, Generate
<1>2. CASE Restart
  BY <1>2, RecordedKept DEF Restart
<1>3. CASE Expire
  <2>1. row'.status = "GENERATING" /\ row'.prompt = row.prompt /\ (~overran' => ~overran)
    BY <1>3 DEF Expire, TypeOK, Row
  <2> QED
    BY <1>3, <2>1 DEF Expire, Recorded, SnapshotIsCurrent, OutdatedOnlyByEdit, IsPromptStale
<1>4. CASE Delete
  BY <1>4 DEF Delete, Recorded, SnapshotIsCurrent, OutdatedOnlyByEdit
<1>5. CASE UNCHANGED vars
  BY <1>5, RecordedKept DEF vars
<1> QED
  BY <1>1, <1>2, <1>3, <1>4, <1>5 DEF Next

\* A summary is shown as outdated only when its prompt was edited after its generation was
\* claimed, however many requests ask, edit and take over, as long as none outlives the timeout.
THEOREM OutdatedByEdit == Spec => []OutdatedOnlyByEdit
<1>1. Init => Exclusion /\ Recorded
  BY DEF Init, Exclusion, OneGenerationAtATime, Claimed, Generating, Recorded, SnapshotIsCurrent,
         OutdatedOnlyByEdit, IsPromptStale, Absent
<1>2. TypeOK /\ Exclusion /\ Recorded /\ [Next]_vars => Exclusion' /\ Recorded'
  BY ExclusionStep, RecordedStep
<1>3. Recorded => OutdatedOnlyByEdit
  BY DEF Recorded
<1> QED
  BY <1>1, <1>2, <1>3, TypeCorrect, PTL DEF Spec
=============================================================================
