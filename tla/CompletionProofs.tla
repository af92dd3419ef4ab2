-------------------------- MODULE CompletionProofs --------------------------
(***************************************************************************)
(* Proofs about Completion: types, and that an answer whose status says it *)
(* succeeded is stored whole, for channels of any capacity and an analysis *)
(* of any length.  StalledSpec promises less than Spec, so that what holds  *)
(* of it holds of both.                                                    *)
(***************************************************************************)
EXTENDS Completion, TLAPS

Ending == {"closing", "joining", "updating", "telling", "done"}

\* A pipeline that is ending has decided on its final event, and an event waits to be stored
\* only after it was sent.
Decided ==
  /\ phase \in Ending => final \in FinalEvent
  /\ phase = "persist" => pos > 0

Typed == TypeOK /\ Decided

-----------------------------------------------------------------------------
(* The operators.                                                          *)

LEMMA ScriptType ==
  ASSUME NEW r \in Decision \cup {"undecided"}
  PROVE  Script(r) \in Seq(Event) /\ Len(Script(r)) >= 2
<1> DEFINE rest ==
      CASE r = "sql" -> <<"Routed">> \o Analysis \o <<"ExecutingQuery", "ExecutedQuery">>
        [] r = "canvas" -> <<"Routed", "GeneratingCanvas", "CanvasGenerated">>
        [] r \in {"clarify", "reject"} -> <<"Routed">>
        [] OTHER -> <<>>
<1>1. Analysis \in Seq(Event)
  <2>1. Analysis \in Seq(AnalysisEvent)
    BY CompletionAssumption
  <2>2. AnalysisEvent \subseteq Event
    BY DEF Event
  <2> QED
    BY <2>1, <2>2
<1>2. rest \in Seq(Event)
  <2>1. <<"Routed">> \in Seq(Event) /\ <<"ExecutingQuery", "ExecutedQuery">> \in Seq(Event)
        /\ <<"Routed", "GeneratingCanvas", "CanvasGenerated">> \in Seq(Event)
    BY DEF Event, SseOnly
  <2>2. <<"Routed">> \o Analysis \o <<"ExecutingQuery", "ExecutedQuery">> \in Seq(Event)
    BY <1>1, <2>1
  <2> QED
    BY <2>1, <2>2
<1>3. <<"Starting", "Routing">> \in Seq(Event)
  BY DEF Event
<1>4. Script(r) = <<"Starting", "Routing">> \o rest
  BY DEF Script
<1> HIDE DEF rest
<1> QED
  BY <1>2, <1>3, <1>4

\* An undecided pipeline has two events to send.
LEMMA UndecidedScript == Len(Script("undecided")) = 2
  BY DEF Script

LEMMA ScriptEvent ==
  ASSUME TypeOK, NEW i \in 1 .. Len(Script(route))
  PROVE  Script(route)[i] \in Event
  BY ScriptType DEF TypeOK

LEMMA StatusOfType ==
  ASSUME NEW e
  PROVE  StatusOf(e) \in Terminal
  BY DEF StatusOf, Terminal, Status

LEMMA OutcomeType ==
  ASSUME NEW r
  PROVE  Outcome(r) \in FinalEvent
  BY DEF Outcome, FinalEvent

\* What the channels keep.
LEMMA TailType ==
  ASSUME NEW c \in Seq(Event), c # <<>>, NEW n \in Nat, Len(c) <= n
  PROVE  Head(c) \in Event /\ Tail(c) \in Seq(Event) /\ Len(Tail(c)) <= n
  OBVIOUS

LEMMA EmptyType == <<>> \in Seq(Event) /\ Len(<<>>) <= ChannelSize
  BY CompletionAssumption

LEMMA StreamType ==
  ASSUME TypeOK, NEW e \in Event, Stream(e)
  PROVE  sse' \in Seq(Event) /\ Len(sse') <= ChannelSize
<1>1. sse \in Seq(Event) /\ Len(sse) <= ChannelSize /\ ChannelSize \in Nat
  BY CompletionAssumption DEF TypeOK
<1>2. CASE sse' = sse
  BY <1>1, <1>2
<1>3. CASE Len(sse) < ChannelSize /\ sse' = Append(sse, e)
  BY <1>1, <1>3
<1> QED
  BY <1>2, <1>3 DEF Stream

LEMMA AcceptedType ==
  ASSUME TypeOK, NEW e \in Event, Accepted(e)
  PROVE  persist' \in Seq(Event) /\ Len(persist') <= ChannelSize /\ emitted' \in Seq(Event)
  BY CompletionAssumption DEF TypeOK, Accepted

LEMMA RefusedType ==
  ASSUME TypeOK, NEW e \in Event, Refused(e)
  PROVE  persist' \in Seq(Event) /\ Len(persist') <= ChannelSize /\ emitted' \in Seq(Event)
  BY DEF TypeOK, Refused

-----------------------------------------------------------------------------
(* Types.                                                                  *)

\* Every step of the pipeline keeps the types.
LEMMA PipelineTypes ==
  ASSUME Typed, Pipeline
  PROVE  Typed'
<1> USE DEF Typed, TypeOK, Decided, Ending, Phase, FinalEvent, rowVars
<1>1. CASE SendNext
  <2>1. pos + 1 \in 1 .. Len(Script(route))
    BY <1>1, ScriptType DEF SendNext
  <2>2. sse' \in Seq(Event) /\ Len(sse') <= ChannelSize
    <3>1. Script(route)[pos + 1] \in Event
      BY <2>1, ScriptEvent
    <3>2. Stream(Script(route)[pos + 1])
      BY <1>1 DEF SendNext
    <3> QED
      BY <3>1, <3>2, StreamType
  <2>3. pos' \in 0 .. Len(Script(route)) /\ pos' > 0
    BY <1>1, <2>1 DEF SendNext
  <2> QED
    BY <1>1, <2>2, <2>3 DEF SendNext
<1>2. CASE StoreNext
  <2>1. Script(route)[pos] \in Event
    BY <1>2, ScriptEvent, ScriptType DEF StoreNext
  <2>2. persist' \in Seq(Event) /\ Len(persist') <= ChannelSize /\ emitted' \in Seq(Event)
    BY <1>2, <2>1, AcceptedType, RefusedType DEF StoreNext
  <2> QED
    BY <1>2, <2>2 DEF StoreNext, Conclude
<1>3. CASE Fail \/ Finish \/ Join \/ NoFollowups
  BY <1>3, OutcomeType DEF Fail, Finish, Join, NoFollowups, Conclude
<1>4. CASE Present
  BY <1>4 DEF Present, StrandPhase
<1>5. CASE SendFollowups
  <2>1. sse' \in Seq(Event) /\ Len(sse') <= ChannelSize
    BY <1>5, StreamType DEF SendFollowups, Event
  <2> QED
    BY <1>5, <2>1 DEF SendFollowups
<1>6. CASE StoreFollowups
  <2>1. persist' \in Seq(Event) /\ Len(persist') <= ChannelSize /\ emitted' \in Seq(Event)
    BY <1>6, AcceptedType, RefusedType DEF StoreFollowups, Event
  <2> QED
    BY <1>6, <2>1, OutcomeType DEF StoreFollowups, Conclude
<1>7. CASE QueueFinal
  <2>1. persist' \in Seq(Event) /\ Len(persist') <= ChannelSize /\ emitted' \in Seq(Event)
    BY <1>7, AcceptedType, RefusedType DEF QueueFinal, Event
  <2> QED
    BY <1>7, <2>1 DEF QueueFinal
<1>8. CASE JoinRecorder
  BY <1>8 DEF JoinRecorder
<1>9. CASE UpdateStatus
  BY <1>9, StatusOfType DEF UpdateStatus, Terminal
<1>10. CASE TellFinal
  <2>1. sse' \in Seq(Event) /\ Len(sse') <= ChannelSize
    BY <1>10, StreamType DEF TellFinal, Event
  <2> QED
    BY <1>10, <2>1 DEF TellFinal
<1>11. ASSUME NEW d \in Decision, Decide(d)
       PROVE  Typed'
  <2>1. pos = 2 /\ route' = d
    BY <1>11, UndecidedScript DEF Decide, ScriptSent
  <2>2. pos' \in 0 .. Len(Script(route'))
    BY <1>11, <2>1, ScriptType DEF Decide
  <2> QED
    BY <1>11, <2>1, <2>2 DEF Decide
<1> QED
  BY <1>1, <1>2, <1>3, <1>4, <1>5, <1>6, <1>7, <1>8, <1>9, <1>10, <1>11 DEF Pipeline

\* Every step of a presenting strand does.
LEMMA StrandTypes ==
  ASSUME Typed, NEW s \in Strand, Presenting(s)
  PROVE  Typed'
<1> USE DEF Typed, TypeOK, Decided, StrandPhase, rowVars, pipelineVars
<1>1. Opening(s) \in Event /\ Result(s) \in Event
  BY DEF Opening, Result, Event, SseOnly
<1>2. CASE StrandOpen(s)
  BY <1>1, <1>2, StreamType DEF StrandOpen
<1>3. CASE StrandSend(s)
  BY <1>1, <1>3, StreamType DEF StrandSend
<1>4. CASE StrandGivesUp(s)
  BY <1>4 DEF StrandGivesUp
<1>5. CASE StrandStore(s)
  BY <1>1, <1>5, AcceptedType, RefusedType DEF StrandStore
<1> QED
  BY <1>2, <1>3, <1>4, <1>5 DEF Presenting

\* And so does every other step.
LEMMA OtherTypes ==
  ASSUME Typed, Recorder \/ Reader \/ Delete \/ UNCHANGED vars
  PROVE  Typed'
<1> USE DEF Typed, TypeOK, Decided, rowVars, pipelineVars
<1>1. CASE Record
  <2>1. Head(persist) \in Event /\ persist' \in Seq(Event) /\ Len(persist') <= ChannelSize
    BY <1>1, TailType, CompletionAssumption DEF Record
  <2>2. log' \in Seq(Event)
    BY <1>1, <2>1 DEF Record
  <2> QED
    BY <1>1, <2>1, <2>2 DEF Record
<1>2. CASE RecordFails \/ RecorderEnds
  <2>1. persist' \in Seq(Event) /\ Len(persist') <= ChannelSize
    BY <1>2, EmptyType DEF RecordFails, RecorderEnds
  <2> QED
    BY <1>2, <2>1 DEF RecordFails, RecorderEnds
<1>3. CASE Read
  <2>1. Head(sse) \in Event /\ sse' \in Seq(Event) /\ Len(sse') <= ChannelSize
    BY <1>3, TailType, CompletionAssumption DEF Read
  <2> QED
    BY <1>3, <2>1 DEF Read
<1>4. CASE Leave
  <2>1. sse' \in Seq(Event) /\ Len(sse') <= ChannelSize
    BY <1>4, EmptyType DEF Leave
  <2> QED
    BY <1>4, <2>1 DEF Leave
<1>5. CASE Delete
  BY <1>5 DEF Delete
<1>6. CASE UNCHANGED vars
  BY <1>6 DEF vars
<1> QED
  BY <1>1, <1>2, <1>3, <1>4, <1>5, <1>6 DEF Recorder, Reader

\* What is known of every reachable state before anything is said about answers.
LEMMA AlwaysTyped == StalledSpec => []Typed
<1>1. Init => Typed
  BY ScriptType, CompletionAssumption
  DEF Init, Typed, TypeOK, Decided, Ending, Phase, StrandPhase, Status, Decision, FinalEvent
<1>2. Typed /\ [Next]_vars => Typed'
  BY PipelineTypes, StrandTypes, OtherTypes DEF Next, Quiescent
<1> QED
  BY <1>1, <1>2, PTL DEF StalledSpec

\* The model's variables keep their types.
THEOREM TypeCorrect == StalledSpec => []TypeOK
  BY AlwaysTyped, PTL DEF Typed

-----------------------------------------------------------------------------
(* A saved answer is whole.                                                *)

\* While the recorder works, what is stored and what waits to be stored is what was offered.
NothingLost == recorder # "failed" /\ row # "DELETED" => log \o persist = emitted

\* The recorder ends with nothing left to store.
EndsEmpty ==
  recorder = "ended" => persist = <<>> /\ phase \in {"joining", "updating", "telling", "done"}

\* Strands only run while the pipeline waits for them, so that nothing is offered later.
StrandsJoined == phase # "join" => \A s \in Strand : strand[s] \in {"idle", "done", "failed"}

\* The final event is the last one offered, until a failed recorder turns it into an error.
FinalIsLast ==
  /\ phase \in {"joining", "updating"} /\ recorder # "failed" =>
       emitted # <<>> /\ emitted[Len(emitted)] = final
  /\ phase = "updating" => recorder \in {"ended", "failed"}
  /\ phase = "updating" /\ recorder = "failed" => final = "Error"

\* The row is settled once the recorder has ended.
SettledLast ==
  /\ row \in Terminal => phase \in {"telling", "done"}
  /\ row \in Terminal \ {"FAILED"} => recorder = "ended"

Whole == NothingLost /\ EndsEmpty /\ StrandsJoined /\ FinalIsLast /\ SettledLast
         /\ SavedAnswerIsWhole

\* An event that is accepted is waiting to be stored and offered.
LEMMA OfferedAccepted ==
  ASSUME Typed, NothingLost, NEW e \in Event, Accepted(e), UNCHANGED <<recorder, row, log>>
  PROVE  NothingLost' /\ recorder = "running"
                      /\ emitted' # <<>> /\ emitted'[Len(emitted')] = e
<1>1. log \in Seq(Event) /\ persist \in Seq(Event) /\ emitted \in Seq(Event)
  BY DEF Typed, TypeOK
<1>2. /\ recorder = "running" /\ recorder' = "running"
      /\ persist' = Append(persist, e) /\ emitted' = Append(emitted, e)
      /\ log' = log /\ row' = row
  BY DEF Accepted
<1>3. log \o Append(persist, e) = Append(log \o persist, e)
  BY <1>1
<1>4. row # "DELETED" => log \o persist = emitted
  BY <1>2 DEF NothingLost
<1>5. NothingLost'
  BY <1>2, <1>3, <1>4 DEF NothingLost
<1>6. emitted' # <<>> /\ emitted'[Len(emitted')] = e
  BY <1>1, <1>2
<1> QED
  BY <1>2, <1>5, <1>6

\* Offering an event loses nothing.
LEMMA Offered ==
  ASSUME Typed, NothingLost, NEW e \in Event, Accepted(e) \/ Refused(e),
         UNCHANGED <<recorder, row, log>>
  PROVE  /\ NothingLost'
         /\ recorder # "ended"
         /\ recorder # "failed" => emitted' # <<>> /\ emitted'[Len(emitted')] = e
<1>1. CASE Accepted(e)
  BY <1>1, OfferedAccepted
<1>2. CASE Refused(e)
  BY <1>2 DEF Refused, NothingLost
<1> QED
  BY <1>1, <1>2

\* Every step of the pipeline keeps the invariant.
LEMMA PipelineWhole ==
  ASSUME Typed, Whole, Pipeline
  PROVE  Whole'
<1> USE DEF Whole
<1>1. ASSUME UNCHANGED <<persist, recorder, row, log, emitted, strand>>,
             phase \notin {"closing", "joining", "updating", "telling", "done"},
             phase' \notin {"joining", "updating", "telling", "done"},
             phase = "join" => \A s \in Strand : strand[s] \in {"idle", "done", "failed"}
      PROVE  Whole'
  BY <1>1 DEF NothingLost, EndsEmpty, StrandsJoined, FinalIsLast, SettledLast,
              SavedAnswerIsWhole, Terminal, Status
<1>2. ASSUME NEW e \in Event, Accepted(e) \/ Refused(e),
             UNCHANGED <<recorder, row, log, strand>>,
             phase \in {"persist", "offering"}, phase' \in {"work", "closing"}
      PROVE  Whole'
  <2>1. NothingLost' /\ recorder # "ended"
    BY <1>2, Offered
  <2> QED
    BY <1>2, <2>1 DEF EndsEmpty, StrandsJoined, FinalIsLast, SettledLast, SavedAnswerIsWhole,
                      Terminal, Status
<1>3. CASE SendNext \/ Fail \/ Finish \/ NoFollowups \/ SendFollowups
           \/ \E d \in Decision : Decide(d)
  <2>1. UNCHANGED <<persist, recorder, row, log, emitted, strand>>
    BY <1>3 DEF SendNext, Fail, Finish, NoFollowups, SendFollowups, Decide, rowVars
  <2>2. /\ phase \in {"work", "persist", "joined"}
        /\ phase' \in {"work", "persist", "closing", "offering"}
    BY <1>3 DEF SendNext, Fail, Finish, NoFollowups, SendFollowups, Decide, Conclude
  <2> QED
    BY <1>1, <2>1, <2>2
<1>4. CASE Join
  BY <1>1, <1>4 DEF Join, Conclude, rowVars
<1>5. CASE StoreNext
  <2>1. Script(route)[pos] \in Event
    BY <1>5, ScriptEvent, ScriptType DEF StoreNext, Typed, TypeOK, Decided
  <2> QED
    BY <1>2, <1>5, <2>1 DEF StoreNext, Conclude, rowVars
<1>6. CASE StoreFollowups
  <2>1. "SuggestedFollowups" \in Event
    BY DEF Event
  <2> QED
    BY <1>2, <1>6, <2>1 DEF StoreFollowups, Conclude, rowVars
<1>7. CASE Present
  BY <1>7 DEF Present, rowVars, NothingLost, EndsEmpty, StrandsJoined, FinalIsLast,
              SettledLast, SavedAnswerIsWhole, Terminal, Status
<1>8. CASE QueueFinal
  <2>1. final \in Event
    BY <1>8 DEF QueueFinal, Typed, Decided, Ending, Event
  <2>2. /\ NothingLost'
        /\ recorder # "ended"
        /\ recorder # "failed" => emitted' # <<>> /\ emitted'[Len(emitted')] = final
    BY <1>8, <2>1, Offered DEF QueueFinal, rowVars
  <2> QED
    BY <1>8, <2>2 DEF QueueFinal, rowVars, EndsEmpty, StrandsJoined, FinalIsLast, SettledLast,
                      SavedAnswerIsWhole, Terminal, Status
<1>9. CASE JoinRecorder
  BY <1>9 DEF JoinRecorder, rowVars, NothingLost, EndsEmpty, StrandsJoined, FinalIsLast,
              SettledLast, SavedAnswerIsWhole, Terminal, Status
<1>10. CASE UpdateStatus
  <2>1. UNCHANGED <<persist, recorder, log, emitted, strand>> /\ phase = "updating"
        /\ phase' = "telling"
    BY <1>10 DEF UpdateStatus
  <2>2. row \notin Terminal
    BY <2>1 DEF SettledLast
  <2>3. CASE row' = row
    BY <2>1, <2>2, <2>3 DEF NothingLost, EndsEmpty, StrandsJoined, FinalIsLast, SettledLast,
                            SavedAnswerIsWhole
  <2>4. CASE row # "DELETED" /\ row' = StatusOf(final) /\ recorder = "failed"
    <3>1. row' = "FAILED"
      BY <2>1, <2>4 DEF FinalIsLast, StatusOf
    <3> QED
      BY <2>1, <2>4, <3>1 DEF NothingLost, EndsEmpty, StrandsJoined, FinalIsLast, SettledLast,
                              SavedAnswerIsWhole
  <2>5. CASE row # "DELETED" /\ row' = StatusOf(final) /\ recorder = "ended"
    <3>1. log \o persist = emitted /\ persist = <<>>
      BY <2>1, <2>5 DEF NothingLost, EndsEmpty
    <3>2. log = emitted
      BY <3>1 DEF Typed, TypeOK
    <3>3. emitted # <<>> /\ emitted[Len(emitted)] = final
      BY <2>1, <2>5 DEF FinalIsLast
    <3>4. SavedAnswerIsWhole'
      BY <2>1, <2>5, <3>2, <3>3 DEF SavedAnswerIsWhole
    <3>5. NothingLost'
      BY <2>1, <3>1 DEF NothingLost
    <3> QED
      BY <2>1, <2>5, <3>4, <3>5 DEF EndsEmpty, StrandsJoined, FinalIsLast, SettledLast
  <2> QED
    BY <1>10, <2>1, <2>3, <2>4, <2>5 DEF UpdateStatus, FinalIsLast
<1>11. CASE TellFinal
  BY <1>11 DEF TellFinal, rowVars, NothingLost, EndsEmpty, StrandsJoined, FinalIsLast,
               SettledLast, SavedAnswerIsWhole, Terminal, Status
<1> QED
  BY <1>3, <1>4, <1>5, <1>6, <1>7, <1>8, <1>9, <1>10, <1>11 DEF Pipeline

\* Every step of a presenting strand does: the pipeline is waiting for it.
LEMMA StrandWhole ==
  ASSUME Typed, Whole, NEW s \in Strand, Presenting(s)
  PROVE  Whole'
<1> USE DEF Whole
<1>1. phase = "join" /\ UNCHANGED <<phase, recorder, row, log>>
  BY DEF Presenting, StrandOpen, StrandSend, StrandGivesUp, StrandStore, StrandsJoined,
         pipelineVars, rowVars
<1>2. NothingLost'
  <2>1. CASE StrandOpen(s) \/ StrandSend(s) \/ StrandGivesUp(s)
    BY <2>1 DEF StrandOpen, StrandSend, StrandGivesUp, rowVars, NothingLost
  <2>2. CASE StrandStore(s)
    <3>1. Result(s) \in Event
      BY DEF Result, Event
    <3> QED
      BY <1>1, <2>2, <3>1, Offered DEF StrandStore
  <2> QED
    BY <2>1, <2>2 DEF Presenting
<1>3. row \notin Terminal /\ recorder # "ended"
  BY <1>1 DEF SettledLast, EndsEmpty
<1> QED
  BY <1>1, <1>2, <1>3 DEF EndsEmpty, StrandsJoined, FinalIsLast, SettledLast, SavedAnswerIsWhole

\* And so does every other step.
LEMMA OtherWhole ==
  ASSUME Typed, Whole, Recorder \/ Reader \/ Delete \/ UNCHANGED vars
  PROVE  Whole'
<1> USE DEF Whole
<1>1. CASE Record
  <2>1. /\ row # "DELETED" => log' = Append(log, Head(persist))
        /\ persist # <<>> /\ persist' = Tail(persist) /\ recorder = "running"
        /\ UNCHANGED <<phase, strand, final, recorder, row, emitted>>
    BY <1>1 DEF Record, pipelineVars
  <2>2. ASSUME row # "DELETED"
        PROVE  log' \o persist' = log \o persist
    <3>1. log \in Seq(Event) /\ persist \in Seq(Event)
      BY DEF Typed, TypeOK
    <3>2. Append(log, Head(persist)) \o Tail(persist) = log \o persist
      BY <2>1, <3>1
    <3> QED
      BY <2>1, <2>2, <3>2
  <2>3. row \notin Terminal \ {"FAILED"}
    BY <2>1 DEF SettledLast
  <2> QED
    BY <2>1, <2>2, <2>3 DEF NothingLost, EndsEmpty, StrandsJoined, FinalIsLast, SettledLast,
                            SavedAnswerIsWhole
<1>2. CASE RecordFails
  <2>1. recorder = "running" /\ recorder' = "failed"
        /\ UNCHANGED <<phase, strand, final, row, log, emitted>>
    BY <1>2 DEF RecordFails, pipelineVars, rowVars
  <2> QED
    BY <2>1 DEF NothingLost, EndsEmpty, StrandsJoined, FinalIsLast, SettledLast,
                SavedAnswerIsWhole
<1>3. CASE RecorderEnds
  BY <1>3 DEF RecorderEnds, pipelineVars, rowVars, NothingLost, EndsEmpty, StrandsJoined,
              FinalIsLast, SettledLast, SavedAnswerIsWhole
<1>4. CASE Reader \/ UNCHANGED vars
  BY <1>4 DEF Reader, Read, Leave, vars, pipelineVars, rowVars, NothingLost, EndsEmpty,
              StrandsJoined, FinalIsLast, SettledLast, SavedAnswerIsWhole
<1>5. CASE Delete
  BY <1>5 DEF Delete, pipelineVars, rowVars, NothingLost, EndsEmpty, StrandsJoined,
              FinalIsLast, SettledLast, SavedAnswerIsWhole, Terminal, Status
<1> QED
  BY <1>1, <1>2, <1>3, <1>4, <1>5 DEF Recorder

\* Whatever fails and however slowly it is stored, an answer whose status says it succeeded is
\* stored whole and ends with the event of that status.
THEOREM SavedWhole == StalledSpec => []SavedAnswerIsWhole
<1>1. Init => Whole
  BY DEF Init, Whole, NothingLost, EndsEmpty, StrandsJoined, FinalIsLast, SettledLast,
         SavedAnswerIsWhole, Terminal, Status, Strand
<1>2. Typed /\ Whole /\ [Next]_vars => Whole'
  BY PipelineWhole, StrandWhole, OtherWhole DEF Next, Quiescent
<1>3. Whole => SavedAnswerIsWhole
  BY DEF Whole
<1> QED
  BY <1>1, <1>2, <1>3, AlwaysTyped, PTL DEF StalledSpec

-----------------------------------------------------------------------------
(* A client that stalls holds nobody up.                                   *)

\* What a strand has streamed.
StrandSent(s) ==
  IF strand[s] \in {"idle", "open"} THEN 0 ELSE IF strand[s] = "work" THEN 1 ELSE 2

\* What the stream channel has ever been given, before the final event.
Streamed ==
  pos + StrandSent("narration") + StrandSent("visualization")
      + (IF phase \in {"work", "persist", "join", "joined"} THEN 0 ELSE 1)

Backlog ==
  /\ phase # "done" => Len(sse) <= Streamed
  /\ phase \in {"work", "persist"} => \A s \in Strand : strand[s] = "idle"

\* The longest script is that of a query.
LEMMA ScriptLength ==
  ASSUME NEW r \in Decision \cup {"undecided"}
  PROVE  Len(Script(r)) <= Len(Analysis) + 5
<1>1. Analysis \in Seq(Event) /\ Len(Analysis) \in Nat
  <2>1. Analysis \in Seq(AnalysisEvent) /\ AnalysisEvent \subseteq Event
    BY CompletionAssumption DEF Event
  <2> QED
    BY <2>1
<1>2. CASE r = "sql"
  <2>1. Script(r) = <<"Starting", "Routing">>
                      \o (<<"Routed">> \o Analysis \o <<"ExecutingQuery", "ExecutedQuery">>)
    BY <1>2 DEF Script
  <2>2. <<"Starting", "Routing">> \in Seq(Event) /\ <<"Routed">> \in Seq(Event)
        /\ <<"ExecutingQuery", "ExecutedQuery">> \in Seq(Event) /\ Analysis \in Seq(Event)
    BY <1>1 DEF Event, SseOnly
  <2>3. Len(<<"Routed">> \o Analysis) = 1 + Len(Analysis) /\ <<"Routed">> \o Analysis \in Seq(Event)
    BY <2>2
  <2>4. Len(<<"Routed">> \o Analysis \o <<"ExecutingQuery", "ExecutedQuery">>) = Len(Analysis) + 3
        /\ <<"Routed">> \o Analysis \o <<"ExecutingQuery", "ExecutedQuery">> \in Seq(Event)
    BY <1>1, <2>2, <2>3
  <2> QED
    BY <1>1, <2>1, <2>2, <2>4
<1>3. CASE r # "sql"
  <2>1. Len(Script(r)) <= 5
    BY <1>3 DEF Script
  <2> QED
    BY <1>1, <2>1
<1> QED
  BY <1>2, <1>3

\* A send adds one event at most.
LEMMA StreamLength ==
  ASSUME TypeOK, NEW e \in Event, Stream(e)
  PROVE  Len(sse') <= Len(sse) + 1
  BY DEF Stream, TypeOK

\* Every step of the pipeline keeps to what it has streamed.
LEMMA PipelineBacklog ==
  ASSUME Typed, Backlog, Pipeline
  PROVE  Backlog'
<1> USE DEF Backlog, Streamed, StrandSent
<1>1. pos \in Nat /\ Len(sse) \in Nat
  BY ScriptType DEF Typed, TypeOK
<1>2. CASE SendNext
  <2>1. Script(route)[pos + 1] \in Event
    BY <1>2, ScriptEvent, ScriptType DEF SendNext, Typed, TypeOK
  <2>2. Len(sse') <= Len(sse) + 1 /\ Len(sse') \in Nat
    BY <1>2, <2>1, StreamLength, StreamType DEF SendNext, Typed
  <2> QED
    BY <1>1, <1>2, <2>2 DEF SendNext
<1>3. CASE StoreNext \/ Fail \/ Finish \/ Join \/ NoFollowups \/ (\E d \in Decision : Decide(d))
  BY <1>1, <1>3 DEF StoreNext, Fail, Finish, Join, NoFollowups, Decide, Conclude
<1>4. CASE Present
  <2>1. \A s \in Strand : strand[s] = "idle" /\ strand'[s] = "open"
    BY <1>4 DEF Present
  <2> QED
    BY <1>1, <1>4, <2>1 DEF Present, Strand
<1>5. CASE SendFollowups
  <2>1. Len(sse') <= Len(sse) + 1 /\ Len(sse') \in Nat
    BY <1>5, StreamLength, StreamType DEF SendFollowups, Typed, Event
  <2> QED
    BY <1>1, <1>5, <2>1 DEF SendFollowups
<1>6. CASE StoreFollowups \/ QueueFinal \/ JoinRecorder \/ UpdateStatus
  BY <1>1, <1>6 DEF StoreFollowups, QueueFinal, JoinRecorder, UpdateStatus, Conclude
<1>7. CASE TellFinal
  BY <1>7 DEF TellFinal
<1> QED
  BY <1>2, <1>3, <1>4, <1>5, <1>6, <1>7 DEF Pipeline

\* Every step of a presenting strand does.
LEMMA StrandBacklog ==
  ASSUME Typed, Backlog, NEW s \in Strand, Presenting(s)
  PROVE  Backlog'
<1> USE DEF Backlog, Streamed, StrandSent
<1>1. /\ pos \in Nat /\ Len(sse) \in Nat
      /\ strand \in [Strand -> StrandPhase]
      /\ UNCHANGED <<pos, phase>>
      /\ strand[s] # "idle"
  BY ScriptType DEF Typed, TypeOK, Presenting, StrandOpen, StrandSend, StrandGivesUp, StrandStore,
                    pipelineVars
<1>2. CASE StrandOpen(s) \/ StrandSend(s)
  <2>1. Opening(s) \in Event /\ Result(s) \in Event
    BY DEF Opening, Result, Event, SseOnly
  <2>2. Len(sse') <= Len(sse) + 1 /\ Len(sse') \in Nat
    BY <1>2, <2>1, StreamLength, StreamType DEF StrandOpen, StrandSend, Typed
  <2>3. \/ strand[s] = "open" /\ strand' = [strand EXCEPT ![s] = "work"]
        \/ strand[s] = "work" /\ strand' = [strand EXCEPT ![s] = "persist"]
    BY <1>2 DEF StrandOpen, StrandSend
  <2> QED
    BY <1>1, <2>2, <2>3 DEF Strand
<1>3. CASE StrandGivesUp(s) \/ StrandStore(s)
  <2>1. /\ sse' = sse
        /\ strand[s] \in {"work", "persist"}
        /\ \E q \in {"done", "failed"} : strand' = [strand EXCEPT ![s] = q]
    BY <1>3 DEF StrandGivesUp, StrandStore
  <2> QED
    BY <1>1, <2>1 DEF Strand
<1> QED
  BY <1>2, <1>3 DEF Presenting

\* And so does every other step: only the client takes events out.
LEMMA OtherBacklog ==
  ASSUME Typed, Backlog, Recorder \/ Reader \/ Delete \/ UNCHANGED vars
  PROVE  Backlog'
<1> USE DEF Backlog, Streamed, StrandSent
<1>1. UNCHANGED <<pos, phase, strand>> /\ pos \in Nat /\ sse \in Seq(Event)
  BY ScriptType DEF Typed, TypeOK, Recorder, Record, RecordFails, RecorderEnds, Reader, Read,
                    Leave, Delete, vars, pipelineVars
<1>2. sse' = sse \/ sse' = <<>> \/ (sse # <<>> /\ sse' = Tail(sse))
  BY DEF Recorder, Record, RecordFails, RecorderEnds, Reader, Read, Leave, Delete, vars
<1>3. Len(sse') <= Len(sse) /\ Len(sse) \in Nat /\ Len(sse') \in Nat
  BY <1>1, <1>2
<1> QED
  BY <1>1, <1>3

\* Channels that hold eleven events more than the analysis sends are never full before the
\* final event: the fourteen events of the code fit in its channels of 32, and a client that
\* stops reading never holds up the pipeline, the recorder or the status of the message.
THEOREM StalledClientHoldsNobody ==
  ASSUME Len(Analysis) + 11 <= ChannelSize
  PROVE  StalledSpec => []NeverHeldUp
<1>1. Init => Backlog
  BY DEF Init, Backlog, Streamed, StrandSent, Strand
<1>2. Typed /\ Backlog /\ [Next]_vars => Backlog'
  BY PipelineBacklog, StrandBacklog, OtherBacklog DEF Next, Quiescent
<1>3. Typed /\ Backlog => NeverHeldUp
  <2> SUFFICES ASSUME Typed, Backlog, phase # "done"
               PROVE  Len(sse) < ChannelSize
    BY DEF NeverHeldUp
  <2>1. pos <= Len(Analysis) + 5 /\ pos \in Nat /\ Len(sse) \in Nat
        /\ Len(Analysis) \in Nat /\ ChannelSize \in Nat
    BY ScriptLength, ScriptType, CompletionAssumption DEF Typed, TypeOK
  <2>2. Streamed <= pos + 5 /\ Streamed \in Nat
    BY <2>1 DEF Streamed, StrandSent
  <2> QED
    BY <2>1, <2>2 DEF Backlog
<1> QED
  BY <1>1, <1>2, <1>3, AlwaysTyped, PTL DEF StalledSpec
-----------------------------------------------------------------------------
(* A completion keeps the promise of module Answer.                        *)

\* Once the recorder's outcome is known nothing is recorded any more, and what the client is
\* about to be told fits the row, unless the row could not be written and says it is in progress.
TellsTheRow ==
  /\ phase \in {"updating", "telling", "done"} => recorder # "running"
  /\ phase = "telling" =>
       \/ row \in {"DELETED", StatusOf(final)}
       \/ row = "PROCESSING" /\ StatusOf(final) = "FAILED"

Promised == Typed /\ Whole /\ TellsTheRow

\* The strands and the stages before the end leave what TellsTheRow speaks of alone.
LEMMA TellsStep ==
  ASSUME Typed, Whole, TellsTheRow, [Next]_vars
  PROVE  TellsTheRow'
<1> USE DEF TellsTheRow
<1>1. CASE SendNext \/ StoreNext \/ Fail \/ Finish \/ Present \/ Join \/ NoFollowups
           \/ SendFollowups \/ StoreFollowups \/ QueueFinal
           \/ \E d \in Decision : Decide(d)
  <2>1. phase' \in {"work", "persist", "join", "joined", "offering", "closing", "joining"}
    BY <1>1 DEF SendNext, StoreNext, Fail, Finish, Present, Join, NoFollowups, SendFollowups,
                StoreFollowups, QueueFinal, Decide, Conclude
  <2> QED
    BY <2>1
<1>2. CASE JoinRecorder
  BY <1>2 DEF JoinRecorder
<1>3. CASE UpdateStatus
  <2>1. row \in {"PROCESSING", "DELETED"}
    BY <1>3 DEF UpdateStatus, Whole, SettledLast, Typed, TypeOK, Terminal
  <2>2. StatusOf("Error") = "FAILED"
    BY DEF StatusOf
  <2> QED
    BY <1>3, <2>1, <2>2 DEF UpdateStatus
<1>4. CASE TellFinal
  BY <1>4 DEF TellFinal
<1>5. ASSUME NEW s \in Strand, Presenting(s)
      PROVE  TellsTheRow'
  BY <1>5 DEF Presenting, StrandOpen, StrandSend, StrandGivesUp, StrandStore, pipelineVars,
              rowVars
<1>6. CASE Recorder \/ Reader \/ Delete \/ UNCHANGED vars
  BY <1>6 DEF Recorder, Record, RecordFails, RecorderEnds, Reader, Read, Leave, Delete, vars,
              pipelineVars, rowVars
<1> QED
  BY <1>1, <1>2, <1>3, <1>4, <1>5, <1>6 DEF Next, Pipeline, Quiescent

\* A completion starts with nothing to keep.
LEMMA InitPromised == Init => Promised
<1>1. Init => Typed
  BY ScriptType, CompletionAssumption
  DEF Init, Typed, TypeOK, Decided, Ending, Phase, StrandPhase, Status, Decision, FinalEvent
<1>2. Init => Whole /\ TellsTheRow
  BY DEF Init, TellsTheRow, Whole, NothingLost, EndsEmpty, StrandsJoined, FinalIsLast,
         SettledLast, SavedAnswerIsWhole, Terminal, Status, Strand
<1> QED
  BY <1>1, <1>2 DEF Promised

\* Every step keeps all that is known of a completion.
LEMMA NextPromised == Promised /\ [Next]_vars => Promised'
<1>1. Typed /\ [Next]_vars => Typed'
  BY PipelineTypes, StrandTypes, OtherTypes DEF Next, Quiescent
<1>2. Typed /\ Whole /\ [Next]_vars => Whole'
  BY PipelineWhole, StrandWhole, OtherWhole DEF Next, Quiescent
<1>3. Typed /\ Whole /\ TellsTheRow /\ [Next]_vars => TellsTheRow'
  BY TellsStep
<1> QED
  BY <1>1, <1>2, <1>3 DEF Promised

\* So it is always known.
LEMMA AlwaysPromised == StalledSpec => []Promised
  BY InitPromised, NextPromised, PTL DEF StalledSpec

\* A step that leaves the row alone and announces nothing is one that the promise does not see.
LEMMA Unseen ==
  ASSUME UNCHANGED <<row, log>>, phase # "done", phase' # "done"
  PROVE  UNCHANGED Promise!vars
  BY DEF Promise!vars

\* Writing the status settles the answer, or does nothing to it.
LEMMA UpdateSettles ==
  ASSUME Promised, Whole', UpdateStatus
  PROVE  Promise!Next \/ UNCHANGED Promise!vars
<1>1. phase = "updating" /\ phase' = "telling" /\ log' = log
  BY DEF UpdateStatus
<1>2. CASE row' = row
  BY <1>1, <1>2, Unseen
<1>3. CASE row # "DELETED" /\ row' = StatusOf(final)
  <2>1. row = "PROCESSING"
    BY <1>1, <1>3 DEF Promised, Whole, SettledLast, Typed, TypeOK, Terminal
  <2>2. row' \in Terminal /\ row' \in Status \ {"PROCESSING"}
    BY <1>3, StatusOfType DEF Terminal
  <2>3. row' = "FAILED" \/ (log # <<>> /\ StatusOf(log[Len(log)]) = row')
    BY <1>1, <2>2 DEF Whole, SavedAnswerIsWhole
  <2>4. Promise!Settle(row')
    BY <1>1, <2>1, <2>3 DEF Promise!Settle
  <2> QED
    BY <2>2, <2>4 DEF Promise!Next
<1> QED
  BY <1>2, <1>3 DEF UpdateStatus

\* The final event of the stream is the announcement.
LEMMA TellAnnounces ==
  ASSUME Promised, TellFinal
  PROVE  Promise!Next
<1>1. phase = "telling" /\ phase' = "done" /\ UNCHANGED <<final, row, log>>
  BY DEF TellFinal, rowVars
<1>2. final \in Event
  BY <1>1 DEF Promised, Typed, Decided, Ending, Event
<1>3. Promise!Announce(final)
  BY <1>1 DEF Promised, TellsTheRow, Promise!Announce
<1> QED
  BY <1>2, <1>3 DEF Promise!Next

\* Recording an event saves it while the row is there, and does nothing to an answer that is gone.
LEMMA RecordSaves ==
  ASSUME Promised, Record
  PROVE  Promise!Next \/ UNCHANGED Promise!vars
<1>1. /\ recorder = "running" /\ persist # <<>>
      /\ UNCHANGED <<row, phase, final>>
      /\ log' = IF row = "DELETED" THEN log ELSE Append(log, Head(persist))
  BY DEF Record, pipelineVars
<1>2. phase \notin {"updating", "telling", "done"}
  BY <1>1 DEF Promised, TellsTheRow
<1>3. CASE row = "DELETED"
  BY <1>1, <1>2, <1>3, Unseen
<1>4. CASE row # "DELETED"
  <2>1. row = "PROCESSING"
    BY <1>2, <1>4 DEF Promised, Whole, SettledLast, Typed, TypeOK, Terminal
  <2>2. Head(persist) \in Event
    BY <1>1 DEF Promised, Typed, TypeOK
  <2>3. Promise!Save(Head(persist))
    BY <1>1, <1>2, <1>4, <2>1 DEF Promise!Save
  <2> QED
    BY <2>2, <2>3 DEF Promise!Next
<1> QED
  BY <1>3, <1>4

\* Every step of a completion is a step of the promise, or one it does not see.
LEMMA StepKeepsPromise ==
  ASSUME Promised, Whole', [Next]_vars
  PROVE  [Promise!Next]_(Promise!vars)
<1>1. CASE SendNext \/ StoreNext \/ Fail \/ Finish \/ Present \/ Join \/ NoFollowups
           \/ SendFollowups \/ StoreFollowups \/ QueueFinal \/ JoinRecorder
           \/ \E d \in Decision : Decide(d)
  <2>1. UNCHANGED <<row, log>> /\ phase # "done" /\ phase' # "done"
    BY <1>1 DEF SendNext, StoreNext, Fail, Finish, Present, Join, NoFollowups, SendFollowups,
                StoreFollowups, QueueFinal, JoinRecorder, Decide, Conclude, rowVars
  <2> QED
    BY <2>1, Unseen
<1>2. CASE UpdateStatus
  BY <1>2, UpdateSettles
<1>3. CASE TellFinal
  BY <1>3, TellAnnounces
<1>4. CASE Record
  BY <1>4, RecordSaves
<1>5. CASE (\E s \in Strand : Presenting(s)) \/ RecordFails \/ RecorderEnds \/ Reader
           \/ UNCHANGED vars
  <2>1. UNCHANGED <<row, log, phase, final>>
    BY <1>5 DEF Presenting, StrandOpen, StrandSend, StrandGivesUp, StrandStore, RecordFails,
                RecorderEnds, Reader, Read, Leave, vars, pipelineVars, rowVars
  <2> QED
    BY <2>1 DEF Promise!vars
<1>6. CASE Delete
  <2>1. Promise!Remove
    BY <1>6 DEF Delete, Promise!Remove, pipelineVars
  <2> QED
    BY <2>1 DEF Promise!Next
<1> QED
  BY <1>1, <1>2, <1>3, <1>4, <1>5, <1>6 DEF Next, Pipeline, Recorder, Quiescent

\* Whatever fails, and whatever the client does, a completion implements the promise: rows are
\* added only to an answer in progress, it is settled once and as its last row says, and the one
\* verdict announced agrees with the row.
THEOREM KeepsPromise == StalledSpec => ImplementsAnswer
<1>1. Init => Promise!Init
  BY DEF Init, Promise!Init
<1>2. Promised /\ Promised' /\ [Next]_vars => [Promise!Next]_(Promise!vars)
  BY StepKeepsPromise DEF Promised
<1> QED
  BY <1>1, <1>2, AlwaysPromised, PTL DEF StalledSpec, ImplementsAnswer, Promise!Spec
=============================================================================
