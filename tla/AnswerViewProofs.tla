-------------------------- MODULE AnswerViewProofs --------------------------
(***************************************************************************)
(* Proofs about AnswerView, for channels of any capacity and an analysis   *)
(* of any length that generates a query: the final event is the time to    *)
(* look, and what was watched is still to be seen in the stored answer.    *)
(***************************************************************************)
EXTENDS AnswerView, CompletionProofs, SequenceTheorems

-----------------------------------------------------------------------------
(* The operators.                                                          *)

\* A trace that grows has seen one event more.
LEMMA HappenedAppend ==
  ASSUME NEW t \in Seq(Event), NEW e \in Event
  PROVE  Happened(Append(t, e)) = Happened(t) \cup {e}
<1>1. Append(t, e) \in Seq(Event) /\ DOMAIN Append(t, e) = 1 .. Len(t) + 1
      /\ DOMAIN t = 1 .. Len(t) /\ Len(t) \in Nat
      /\ Append(t, e)[Len(t) + 1] = e /\ \A i \in 1 .. Len(t) : Append(t, e)[i] = t[i]
  OBVIOUS
<1>2. \A i \in 1 .. Len(t) + 1 : i \in 1 .. Len(t) \/ i = Len(t) + 1
  BY <1>1
<1>3. 1 .. Len(t) \subseteq 1 .. Len(t) + 1 /\ Len(t) + 1 \in 1 .. Len(t) + 1
  BY <1>1
<1> HIDE DEF Happened
<1> QED
  BY <1>1, <1>2, <1>3, Zenon DEF Happened

\* What is left of a channel was in it, and so was what was taken out.
LEMMA HappenedTail ==
  ASSUME NEW t \in Seq(Event), t # <<>>
  PROVE  Head(t) \in Happened(t) /\ Happened(Tail(t)) \subseteq Happened(t)
<1>1. Len(t) \in Nat \ {0} /\ DOMAIN t = 1 .. Len(t) /\ Head(t) = t[1]
  BY SMT
<1>2. DOMAIN Tail(t) = 1 .. Len(t) - 1 /\ \A i \in 1 .. Len(t) - 1 : Tail(t)[i] = t[i + 1]
  BY SMT
<1>3. \A i \in 1 .. Len(t) - 1 : i + 1 \in DOMAIN t
  BY <1>1
<1> QED
  BY <1>1, <1>2, <1>3 DEF Happened

\* Nothing has happened in an empty trace.
LEMMA HappenedNothing == Happened(<<>>) = {}
  BY DEF Happened

\* Sending an event to the client adds it to the channel at most.
LEMMA StreamHappened ==
  ASSUME TypeOK, NEW e \in Event, Stream(e)
  PROVE  Happened(sse') \subseteq Happened(sse) \cup {e}
  BY HappenedAppend DEF Stream, TypeOK

\* Offering an event adds it to those offered.
LEMMA OfferHappened ==
  ASSUME TypeOK, NEW e \in Event, Accepted(e) \/ Refused(e)
  PROVE  Happened(emitted') = Happened(emitted) \cup {e}
  BY HappenedAppend DEF Accepted, Refused, TypeOK

\* No script ends the stream.
LEMMA ScriptIsOpen ==
  ASSUME NEW r \in Decision \cup {"undecided"}, NEW i \in 1 .. Len(Script(r))
  PROVE  Script(r)[i] \in Event \ FinalEvent
<1> DEFINE Open == Event \ FinalEvent
<1> DEFINE rest ==
      CASE r = "sql" -> <<"Routed">> \o Analysis \o <<"ExecutingQuery", "ExecutedQuery">>
        [] r = "canvas" -> <<"Routed", "GeneratingCanvas", "CanvasGenerated">>
        [] r \in {"clarify", "reject"} -> <<"Routed">>
        [] OTHER -> <<>>
<1>1. Analysis \in Seq(Open)
  <2>1. AnalysisEvent \subseteq Open
    BY DEF Event, AnalysisEvent, FinalEvent
  <2> QED
    BY <2>1, CompletionAssumption
<1>2. <<"Routed">> \in Seq(Open) /\ <<"ExecutingQuery", "ExecutedQuery">> \in Seq(Open)
      /\ <<"Routed", "GeneratingCanvas", "CanvasGenerated">> \in Seq(Open)
      /\ <<"Starting", "Routing">> \in Seq(Open)
  BY DEF Event, SseOnly, FinalEvent
<1> HIDE DEF Open
<1>3. rest \in Seq(Open)
  <2>1. <<"Routed">> \o Analysis \o <<"ExecutingQuery", "ExecutedQuery">> \in Seq(Open)
    BY <1>1, <1>2
  <2> QED
    BY <1>2, <2>1
<1>4. Script(r) = <<"Starting", "Routing">> \o rest
  BY DEF Script
<1> HIDE DEF rest
<1>5. Script(r) \in Seq(Open)
  BY <1>2, <1>3, <1>4
<1>6. Script(r)[i] \in Open
  BY <1>5
<1> QED
  BY <1>6 DEF Open

\* Every script starts in the same way.
LEMMA ScriptStarts ==
  ASSUME NEW r \in Decision \cup {"undecided"}, NEW i \in 1 .. 2
  PROVE  Script(r)[i] = Script("undecided")[i]
<1> DEFINE rest ==
      CASE r = "sql" -> <<"Routed">> \o Analysis \o <<"ExecutingQuery", "ExecutedQuery">>
        [] r = "canvas" -> <<"Routed", "GeneratingCanvas", "CanvasGenerated">>
        [] r \in {"clarify", "reject"} -> <<"Routed">>
        [] OTHER -> <<>>
<1>1. Analysis \in Seq(Event)
  BY CompletionAssumption DEF Event
<1>2. rest \in Seq(Event)
  <2>1. <<"Routed">> \in Seq(Event) /\ <<"ExecutingQuery", "ExecutedQuery">> \in Seq(Event)
        /\ <<"Routed", "GeneratingCanvas", "CanvasGenerated">> \in Seq(Event)
    BY DEF Event, SseOnly
  <2>2. <<"Routed">> \o Analysis \o <<"ExecutingQuery", "ExecutedQuery">> \in Seq(Event)
    BY <1>1, <2>1
  <2> QED
    BY <2>1, <2>2
<1>3. Script(r) = <<"Starting", "Routing">> \o rest
  BY DEF Script
<1>4. Script("undecided") = <<"Starting", "Routing">>
  BY DEF Script
<1>5. <<"Starting", "Routing">> \in Seq(Event)
  BY DEF Event
<1> HIDE DEF rest
<1> QED
  BY <1>2, <1>3, <1>4, <1>5

\* Two traces in a row.
LEMMA JoinedTraces ==
  ASSUME NEW s \in Seq(Event), NEW t \in Seq(Event)
  PROVE  /\ s \o t \in Seq(Event) /\ Len(s \o t) = Len(s) + Len(t)
         /\ Len(s) \in Nat /\ Len(t) \in Nat
         /\ \A i \in 1 .. Len(s) : (s \o t)[i] = s[i]
         /\ \A i \in 1 .. Len(t) : (s \o t)[Len(s) + i] = t[i]
<1>1. /\ s \o t \in Seq(Event) /\ Len(s \o t) = Len(s) + Len(t)
      /\ Len(s) \in Nat /\ Len(t) \in Nat
      /\ \A i \in 1 .. Len(s) + Len(t) :
           (s \o t)[i] = IF i <= Len(s) THEN s[i] ELSE t[i - Len(s)]
  BY ConcatProperties, LenProperties
<1>2. \A i \in 1 .. Len(t) : Len(s) + i \in 1 .. Len(s) + Len(t) /\ ~(Len(s) + i <= Len(s))
                             /\ (Len(s) + i) - Len(s) = i
  BY <1>1
<1>3. \A i \in 1 .. Len(s) : i \in 1 .. Len(s) + Len(t) /\ i <= Len(s)
  BY <1>1
<1> QED
  BY <1>1, <1>2, <1>3

\* A query is executed only after it was generated.
LEMMA ScriptGenerates ==
  ASSUME NEW r \in Decision \cup {"undecided"}, NEW i \in 1 .. Len(Script(r)),
         Script(r)[i] = "ExecutedQuery"
  PROVE  \E j \in 1 .. i - 1 : Script(r)[j] = "GeneratedSql"
<1>1. CASE r # "sql"
  <2>1. \A k \in 1 .. Len(Script(r)) : Script(r)[k] # "ExecutedQuery"
    <3>1. CASE r = "canvas"
      <4>1. Script(r) = <<"Starting", "Routing", "Routed", "GeneratingCanvas", "CanvasGenerated">>
        BY <3>1 DEF Script
      <4> QED
        BY <4>1
    <3>2. CASE r \in {"clarify", "reject"}
      <4>1. Script(r) = <<"Starting", "Routing", "Routed">>
        BY <3>2 DEF Script
      <4> QED
        BY <4>1
    <3>3. CASE r = "undecided"
      <4>1. Script(r) = <<"Starting", "Routing">>
        BY <3>3 DEF Script
      <4> QED
        BY <4>1
    <3> QED
      BY <1>1, <3>1, <3>2, <3>3 DEF Decision
  <2> QED
    BY <2>1
<1>2. CASE r = "sql"
  <2>1. PICK k \in DOMAIN Analysis : Analysis[k] = "GeneratedSql"
    BY AnswerViewAssumption
  <2>2. Analysis \in Seq(Event) /\ Len(Analysis) \in Nat /\ DOMAIN Analysis = 1 .. Len(Analysis)
        /\ \A m \in 1 .. Len(Analysis) : Analysis[m] \in AnalysisEvent
    BY CompletionAssumption DEF Event
  <2>3. "ExecutedQuery" \notin AnalysisEvent
    BY DEF AnalysisEvent
  <2> DEFINE a == <<"Starting", "Routing">>
             b == <<"Routed">>
             c == <<"ExecutingQuery", "ExecutedQuery">>
  <2>4. a \in Seq(Event) /\ b \in Seq(Event) /\ c \in Seq(Event)
        /\ Len(a) = 2 /\ Len(b) = 1 /\ Len(c) = 2
        /\ a[1] # "ExecutedQuery" /\ a[2] # "ExecutedQuery" /\ b[1] # "ExecutedQuery"
        /\ c[1] # "ExecutedQuery"
    BY DEF Event, SseOnly
  <2>5. Script(r) = a \o (b \o Analysis \o c)
    BY <1>2 DEF Script
  <2> HIDE DEF a, b, c
  <2>6. /\ b \o Analysis \in Seq(Event) /\ Len(b \o Analysis) = Len(Analysis) + 1
        /\ (b \o Analysis)[1] = b[1]
        /\ \A m \in 1 .. Len(Analysis) : (b \o Analysis)[m + 1] = Analysis[m]
    <3>1. /\ b \o Analysis \in Seq(Event) /\ Len(b \o Analysis) = Len(b) + Len(Analysis)
          /\ \A m \in 1 .. Len(b) : (b \o Analysis)[m] = b[m]
          /\ \A m \in 1 .. Len(Analysis) : (b \o Analysis)[Len(b) + m] = Analysis[m]
      BY <2>2, <2>4, JoinedTraces, Zenon
    <3>2. \A m \in 1 .. Len(Analysis) : Len(b) + m = m + 1
      BY <2>4
    <3>3. 1 \in 1 .. Len(b) /\ Len(b) + Len(Analysis) = Len(Analysis) + 1
      BY <2>2, <2>4
    <3> QED
      BY <3>1, <3>2, <3>3, Zenon
  <2> DEFINE d == b \o Analysis
  <2> HIDE DEF d
  <2>7. /\ d \o c \in Seq(Event) /\ Len(d \o c) = Len(Analysis) + 3
        /\ \A m \in 1 .. Len(Analysis) + 1 : (d \o c)[m] = d[m]
        /\ (d \o c)[Len(Analysis) + 2] = c[1]
    <3>1. d \in Seq(Event) /\ Len(d) = Len(Analysis) + 1
      BY <2>6 DEF d
    <3>2. /\ d \o c \in Seq(Event) /\ Len(d \o c) = Len(d) + Len(c)
          /\ \A m \in 1 .. Len(d) : (d \o c)[m] = d[m]
          /\ \A m \in 1 .. Len(c) : (d \o c)[Len(d) + m] = c[m]
      BY <2>4, <3>1, JoinedTraces, Zenon
    <3>3. /\ 1 \in 1 .. Len(c) /\ Len(d) + 1 = Len(Analysis) + 2
          /\ Len(d) + Len(c) = Len(Analysis) + 3
      BY <2>2, <2>4, <3>1
    <3> QED
      BY <3>1, <3>2, <3>3, Zenon
  <2> DEFINE e == d \o c
  <2> HIDE DEF e
  <2>8. /\ Len(a \o e) = Len(Analysis) + 5
        /\ (a \o e)[1] = a[1] /\ (a \o e)[2] = a[2]
        /\ \A m \in 1 .. Len(Analysis) + 3 : (a \o e)[m + 2] = e[m]
    <3>1. e \in Seq(Event) /\ Len(e) = Len(Analysis) + 3
      BY <2>7 DEF e
    <3>2. /\ Len(a \o e) = Len(a) + Len(e)
          /\ \A m \in 1 .. Len(a) : (a \o e)[m] = a[m]
          /\ \A m \in 1 .. Len(e) : (a \o e)[Len(a) + m] = e[m]
      BY <2>4, <3>1, JoinedTraces, Zenon
    <3>3. /\ 1 \in 1 .. Len(a) /\ 2 \in 1 .. Len(a)
          /\ Len(a) + Len(e) = Len(Analysis) + 5
          /\ \A m \in 1 .. Len(e) : Len(a) + m = m + 2
      BY <2>2, <2>4, <3>1
    <3> QED
      BY <3>1, <3>2, <3>3, Zenon
  <2>9. Script(r) = a \o e
    BY <2>5 DEF d, e
  <2>10. \A m \in 1 .. Len(Analysis) : Script(r)[m + 3] = Analysis[m]
    <3> SUFFICES ASSUME NEW m \in 1 .. Len(Analysis) PROVE Script(r)[m + 3] = Analysis[m]
      OBVIOUS
    <3>1. m + 1 \in 1 .. Len(Analysis) + 3 /\ m + 1 \in 1 .. Len(Analysis) + 1
          /\ (m + 1) + 2 = m + 3
      BY <2>2
    <3>2. (a \o e)[m + 3] = e[m + 1]
      BY <2>8, <3>1
    <3>3. e[m + 1] = d[m + 1]
      BY <2>7, <3>1 DEF e
    <3>4. d[m + 1] = Analysis[m]
      BY <2>6 DEF d
    <3> QED
      BY <2>9, <3>2, <3>3, <3>4
  <2>11. Script(r)[3] # "ExecutedQuery"
    <3>1. 1 \in 1 .. Len(Analysis) + 3 /\ 1 \in 1 .. Len(Analysis) + 1 /\ 1 + 2 = 3
      BY <2>2
    <3>2. (a \o e)[3] = e[1] /\ e[1] = d[1]
      BY <2>7, <2>8, <3>1 DEF e
    <3> QED
      BY <2>4, <2>6, <2>9, <3>2 DEF d
  <2>12. Script(r)[Len(Analysis) + 4] # "ExecutedQuery"
    <3>1. (a \o e)[Len(Analysis) + 4] = e[Len(Analysis) + 2]
      <4>1. Len(Analysis) + 2 \in 1 .. Len(Analysis) + 3
            /\ (Len(Analysis) + 2) + 2 = Len(Analysis) + 4
        BY <2>2
      <4> QED
        BY <2>8, <4>1
    <3> QED
      BY <2>4, <2>7, <2>9, <3>1 DEF e
  <2>13. i = Len(Analysis) + 5
    <3>1. i \in 1 .. Len(Analysis) + 5
      BY <2>8, <2>9
    <3>2. i # 1 /\ i # 2 /\ i # 3 /\ i # Len(Analysis) + 4
      BY <2>4, <2>8, <2>9, <2>11, <2>12
    <3>3. i \notin 4 .. Len(Analysis) + 3
      <4> SUFFICES ASSUME i \in 4 .. Len(Analysis) + 3 PROVE FALSE
        OBVIOUS
      <4>1. i - 3 \in 1 .. Len(Analysis) /\ (i - 3) + 3 = i
        BY <2>2
      <4>2. Script(r)[i] = Analysis[i - 3]
        BY <2>10, <4>1
      <4> QED
        BY <2>2, <2>3, <4>1, <4>2
    <3> QED
      BY <2>2, <3>1, <3>2, <3>3
  <2>14. Script(r)[k + 3] = "GeneratedSql" /\ k + 3 \in 1 .. i - 1
    BY <2>1, <2>2, <2>10, <2>13
  <2> QED
    BY <2>14
<1> QED
  BY <1>1, <1>2

-----------------------------------------------------------------------------
(* The completion behind the page.                                         *)

\* Every step of the page and what is behind it is a step of the completion, or none.
LEMMA ViewStepIsStep == [ViewNext]_viewVars => [Next]_vars
BY DEF ViewNext, ShowEvent, ShowFinal, LoseStream, Refetch, FetchMessages, FetchContents,
       FetchAnswered, FetchFails, Behind, viewVars, Next, Reader

\* The stored status of an answer that succeeded is that of its final event, when the event is
\* about to be told and for ever after; and the final event is told last.
Settled ==
  /\ row \in Terminal \ {"FAILED"} => StatusOf(final) = row
  /\ phase = "done" /\ final # "Error" => row \in {"DELETED", StatusOf(final)}
  /\ \A e \in Happened(sse) : e \in FinalEvent => phase = "done" /\ e = final

\* An event that is not the last may be sent at any time before the end.
LEMMA SendKeepsOpen ==
  ASSUME TypeOK, Settled, NEW e \in Event \ FinalEvent, Stream(e), phase # "done"
  PROVE  \A x \in Happened(sse') : x \notin FinalEvent
  BY StreamHappened DEF Settled

\* Steps of the pipeline before it writes the status.
LEMMA EarlySettled ==
  ASSUME Promised, Settled, Promised',
         phase \notin {"updating", "telling", "done"}, phase' \notin {"telling", "done"},
         UNCHANGED row, \A x \in Happened(sse') : x \notin FinalEvent
  PROVE  Settled'
  BY DEF Promised, Whole, SettledLast, Settled

\* Every step of a pipeline keeps it.
LEMMA PipelineSettled ==
  ASSUME Promised, Settled, Promised', Pipeline
  PROVE  Settled'
<1> USE DEF Promised, Typed
<1>1. phase # "done" => \A x \in Happened(sse) : x \notin FinalEvent
  BY DEF Settled
<1>2. CASE SendNext
  <2>1. Script(route)[pos + 1] \in Event \ FinalEvent
    BY <1>2, ScriptIsOpen, ScriptType DEF SendNext, TypeOK
  <2>2. \A x \in Happened(sse') : x \notin FinalEvent
    BY <1>2, <2>1, SendKeepsOpen DEF SendNext
  <2> QED
    BY <1>2, <2>2, EarlySettled DEF SendNext, rowVars
<1>3. CASE StoreNext \/ Fail \/ Finish \/ Present \/ Join \/ NoFollowups \/ StoreFollowups
           \/ QueueFinal \/ JoinRecorder \/ \E d \in Decision : Decide(d)
  <2>1. /\ UNCHANGED <<sse, row>> /\ phase \notin {"updating", "telling", "done"}
        /\ phase' \notin {"telling", "done"}
    BY <1>3 DEF StoreNext, Fail, Finish, Present, Join, NoFollowups, StoreFollowups, QueueFinal,
                JoinRecorder, Decide, Conclude, rowVars
  <2> QED
    BY <1>1, <2>1, EarlySettled
<1>4. CASE SendFollowups
  <2>1. "SuggestedFollowups" \in Event \ FinalEvent
    BY DEF Event, FinalEvent
  <2>2. \A x \in Happened(sse') : x \notin FinalEvent
    BY <1>4, <2>1, SendKeepsOpen DEF SendFollowups
  <2> QED
    BY <1>4, <2>2, EarlySettled DEF SendFollowups, rowVars
<1>5. CASE UpdateStatus
  <2>1. /\ phase = "updating" /\ phase' = "telling" /\ sse' = sse
        /\ \/ row' = StatusOf(final) /\ final' = final
           \/ row' = row
    BY <1>5 DEF UpdateStatus
  <2>2. row \notin Terminal
    BY <2>1 DEF Whole, SettledLast
  <2> QED
    BY <1>1, <2>1, <2>2 DEF Settled
<1>6. CASE TellFinal
  <2>1. /\ phase = "telling" /\ phase' = "done" /\ UNCHANGED <<final, row>> /\ Stream(final)
    BY <1>6 DEF TellFinal, rowVars
  <2>2. final \in FinalEvent /\ final \in Event
    BY <2>1 DEF Decided, Ending, Event
  <2>3. Happened(sse') \subseteq Happened(sse) \cup {final}
    BY <2>1, <2>2, StreamHappened
  <2>4. final # "Error" => row \in {"DELETED", StatusOf(final)}
    BY <2>1, <2>2 DEF TellsTheRow, FinalEvent, StatusOf
  <2> QED
    BY <1>1, <2>1, <2>3, <2>4 DEF Settled
<1> QED
  BY <1>2, <1>3, <1>4, <1>5, <1>6 DEF Pipeline

\* And so does every step of the others.
LEMMA OtherSettled ==
  ASSUME Promised, Settled, Promised',
         (\E s \in Strand : Presenting(s)) \/ Recorder \/ Reader \/ Delete \/ UNCHANGED vars
  PROVE  Settled'
<1> USE DEF Promised, Typed
<1>1. ASSUME NEW s \in Strand, Presenting(s)
      PROVE  Settled'
  <2>1. phase = "join" /\ phase' = "join" /\ row' = row
    BY <1>1 DEF Presenting, StrandOpen, StrandSend, StrandGivesUp, StrandStore, Whole,
                StrandsJoined, pipelineVars, rowVars
  <2>2. CASE StrandOpen(s)
    <3>1. Opening(s) \in Event \ FinalEvent
      BY DEF Opening, Event, SseOnly, FinalEvent
    <3> QED
      BY <2>1, <2>2, <3>1, SendKeepsOpen, EarlySettled DEF StrandOpen
  <2>3. CASE StrandSend(s)
    <3>1. Result(s) \in Event \ FinalEvent
      BY DEF Result, Event, FinalEvent
    <3> QED
      BY <2>1, <2>3, <3>1, SendKeepsOpen, EarlySettled DEF StrandSend
  <2>4. CASE StrandGivesUp(s) \/ StrandStore(s)
    <3>1. sse' = sse
      BY <2>4 DEF StrandGivesUp, StrandStore
    <3>2. \A x \in Happened(sse) : x \notin FinalEvent
      BY <2>1 DEF Settled
    <3> QED
      BY <2>1, <3>1, <3>2, EarlySettled
  <2> QED
    BY <1>1, <2>2, <2>3, <2>4 DEF Presenting
<1>2. CASE Recorder \/ UNCHANGED vars
  BY <1>2 DEF Recorder, Record, RecordFails, RecorderEnds, vars, pipelineVars, rowVars, Settled
<1>3. CASE Delete
  BY <1>3 DEF Delete, pipelineVars, Settled, Terminal, Status
<1>4. CASE Reader
  <2>1. UNCHANGED <<phase, final, row>>
    BY <1>4 DEF Reader, Read, Leave, pipelineVars, rowVars
  <2>2. Happened(sse') \subseteq Happened(sse)
    BY <1>4, HappenedTail, HappenedNothing DEF Reader, Read, Leave, TypeOK
  <2> QED
    BY <2>1, <2>2 DEF Settled
<1> QED
  BY <1>1, <1>2, <1>3, <1>4

-----------------------------------------------------------------------------
(* The page has types.                                                     *)

ShownStatus == Status \cup {"none"}

Requests ==
  [stage : {"none", "asked", "failed"}]
    \cup [stage : {"messages"}, status : Status]
    \cup [stage : {"answered"}, status : ShownStatus, contents : Seq(Event)]

PageTypes ==
  /\ shown \in Seq(Event)
  /\ \A e \in Happened(shown) : e \notin FinalEvent
  /\ told \in FinalEvent \cup {"none"}
  /\ request \in Requests
  /\ cached \in [status : ShownStatus, contents : Seq(Event)]

\* The page keeps its types.
LEMMA PageTypesStep ==
  ASSUME TypeOK, PageTypes, [ViewNext]_viewVars
  PROVE  PageTypes'
<1> USE DEF PageTypes
<1>1. CASE ShowEvent
  <2>1. received' \in Event /\ received' \notin FinalEvent /\ shown' = Append(shown, received')
        /\ UNCHANGED <<told, request, cached>>
    BY <1>1, HappenedTail DEF ShowEvent, Read, TypeOK, Happened
  <2>2. Happened(shown') = Happened(shown) \cup {received'} /\ shown' \in Seq(Event)
    BY <2>1, HappenedAppend
  <2> QED
    BY <2>1, <2>2
<1>2. CASE ShowFinal
  <2>1. told' \in FinalEvent /\ shown' = <<>> /\ request' = Asked /\ cached' = cached
    BY <1>2 DEF ShowFinal
  <2> QED
    BY <2>1, HappenedNothing DEF Asked, Requests
<1>3. CASE LoseStream
  <2>1. shown' = <<>> /\ UNCHANGED <<told, request, cached>>
    BY <1>3 DEF LoseStream
  <2> QED
    BY <2>1, HappenedNothing
<1>4. CASE Refetch
  BY <1>4 DEF Refetch, Asked, Requests
<1>5. CASE FetchMessages
  BY <1>5 DEF FetchMessages, Requests, ShownStatus, TypeOK
<1>6. CASE FetchContents
  BY <1>6 DEF FetchContents, Requests, ShownStatus, TypeOK
<1>7. CASE FetchAnswered
  BY <1>7 DEF FetchAnswered, NoRequest, Requests, ShownStatus
<1>8. CASE FetchFails
  BY <1>8 DEF FetchFails, Requests
<1>9. CASE Behind \/ UNCHANGED viewVars
  BY <1>9 DEF Behind, viewVars, pageVars
<1> QED
  BY <1>1, <1>2, <1>3, <1>4, <1>5, <1>6, <1>7, <1>8, <1>9 DEF ViewNext

-----------------------------------------------------------------------------
(* The final event is the time to look.                                    *)

\* What is fetched after it has the status it stands for, at every stage of the request.
FoundIn(status) ==
  status = StatusOf(told) \/ (status = "none" /\ row = "DELETED")

Found ==
  /\ told # "none" => phase = "done" /\ told = final
  /\ told \in FinalEvent \ {"Error"} =>
       /\ request.stage \in {"messages", "answered"} => FoundIn(request.status)
       /\ request = NoRequest => FoundIn(cached.status)

\* Once a final event is told, the row is settled or deleted, and stays so.
LEMMA ToldIsSettled ==
  ASSUME Settled, Found, told \in FinalEvent \ {"Error"}
  PROVE  row \in {"DELETED", StatusOf(told)}
  BY DEF Settled, Found, FinalEvent

\* A deleted row stays deleted, and a pipeline that is done does nothing more.
LEMMA DoneStays ==
  ASSUME Promised, [Next]_vars
  PROVE  /\ row = "DELETED" => row' = "DELETED"
         /\ phase = "done" => phase' = "done" /\ final' = final
<1>1. CASE Pipeline
  BY <1>1 DEF Pipeline, SendNext, StoreNext, Fail, Finish, Present, Join, NoFollowups,
              SendFollowups, StoreFollowups, QueueFinal, JoinRecorder, UpdateStatus, TellFinal,
              Decide, Conclude, rowVars
<1>2. CASE ~Pipeline
  BY <1>2 DEF Next, Presenting, StrandOpen, StrandSend, StrandGivesUp, StrandStore, Recorder,
              Record, RecordFails, RecorderEnds, Reader, Read, Leave, Delete, Quiescent, vars,
              pipelineVars, rowVars
<1> QED
  BY <1>1, <1>2

\* Every step keeps to it.
LEMMA FoundStep ==
  ASSUME Promised, PageTypes, Settled, Found, [ViewNext]_viewVars
  PROVE  Found'
<1>1. /\ row = "DELETED" => row' = "DELETED"
      /\ phase = "done" => phase' = "done" /\ final' = final
  BY DoneStays, ViewStepIsStep
<1>2. CASE UNCHANGED <<told, request, cached>>
  BY <1>1, <1>2 DEF Found, FoundIn
<1>3. CASE ShowFinal
  <2>1. received' \in FinalEvent /\ received' \in Happened(sse) /\ UNCHANGED <<phase, final>>
    BY <1>3, HappenedTail DEF ShowFinal, Read, Promised, Typed, TypeOK, pipelineVars
  <2>2. phase = "done" /\ received' = final
    BY <2>1 DEF Settled
  <2>3. told' = received' /\ request' = Asked
    BY <1>3 DEF ShowFinal
  <2> QED
    BY <2>1, <2>2, <2>3 DEF Found, Asked, NoRequest
<1>4. CASE Refetch \/ FetchFails
  <2>1. UNCHANGED <<told, phase, final>> /\ request' \in {Asked, [stage |-> "failed"]}
    BY <1>4 DEF Refetch, FetchFails, vars, pipelineVars
  <2> QED
    BY <2>1 DEF Found, Asked, NoRequest
<1>5. CASE FetchMessages
  <2>1. /\ UNCHANGED <<told, phase, final, row>>
        /\ \/ row = "DELETED" /\ request' = [stage |-> "answered", status |-> "none", contents |-> <<>>]
           \/ row # "DELETED" /\ request' = [stage |-> "messages", status |-> row]
    BY <1>5 DEF FetchMessages, vars, pipelineVars, rowVars
  <2>2. told \in FinalEvent \ {"Error"} => row \in {"DELETED", StatusOf(told)}
    BY ToldIsSettled
  <2>3. request' # NoRequest
    BY <2>1 DEF NoRequest
  <2> QED
    BY <2>1, <2>2, <2>3 DEF Found, FoundIn
<1>6. CASE FetchContents
  <2>1. /\ UNCHANGED <<told, phase, final, row>> /\ request.stage = "messages"
        /\ request' = [stage |-> "answered", status |-> request.status, contents |-> log]
    BY <1>6 DEF FetchContents, vars, pipelineVars, rowVars
  <2>2. request' # NoRequest
    BY <2>1 DEF NoRequest
  <2> QED
    BY <2>1, <2>2 DEF Found, FoundIn
<1>7. CASE FetchAnswered
  <2>1. /\ UNCHANGED <<told, phase, final, row>> /\ request.stage = "answered"
        /\ request' = NoRequest /\ cached'.status = request.status
    BY <1>7 DEF FetchAnswered, vars, pipelineVars, rowVars
  <2>2. request'.stage = "none"
    BY <2>1 DEF NoRequest
  <2> QED
    BY <2>1, <2>2 DEF Found, FoundIn
<1> QED
  BY <1>2, <1>3, <1>4, <1>5, <1>6, <1>7
  DEF ViewNext, ShowEvent, LoseStream, Behind, viewVars, pageVars

\* What is known of the page and of the completion before anything is said of what was seen.
Known == Promised /\ PageTypes /\ Settled /\ Found

\* It is so at first.
LEMMA InitKnown == ViewInit => Known
<1> SUFFICES ASSUME ViewInit PROVE Known
  OBVIOUS
<1>1. Promised
  BY InitPromised DEF ViewInit
<1>2. PageTypes
  BY HappenedNothing DEF ViewInit, PageTypes, Requests, NoRequest, NoMessage, ShownStatus
<1>3. Settled
  BY HappenedNothing DEF ViewInit, Init, Settled, Terminal, Status
<1>4. Found
  BY DEF ViewInit, Found, FinalEvent
<1> QED
  BY <1>1, <1>2, <1>3, <1>4 DEF Known

\* And stays so.
LEMMA NextKnown == Known /\ [ViewNext]_viewVars => Known'
<1> SUFFICES ASSUME Known, [ViewNext]_viewVars PROVE Known'
  OBVIOUS
<1>1. Promised /\ Promised' /\ [Next]_vars
  BY ViewStepIsStep, NextPromised DEF Known
<1>2. Settled'
  BY <1>1, PipelineSettled, OtherSettled DEF Known, Next, Quiescent
<1>3. PageTypes'
  BY PageTypesStep DEF Known, Promised, Typed
<1>4. Found'
  BY FoundStep DEF Known
<1> QED
  BY <1>1, <1>2, <1>3, <1>4 DEF Known

\* So it is always.
LEMMA AlwaysKnown == ViewSpec => []Known
  BY InitKnown, NextKnown, PTL DEF ViewSpec

\* A final event other than an error is the time to look: the request that it causes finds the
\* message with the status of the event, or no conversation when that was deleted.
THEOREM FinalEventIsTheTime == ViewSpec => []FinalEventFindsAnswer
<1>1. Known => FinalEventFindsAnswer
  <2> SUFFICES ASSUME Known, told \in FinalEvent \ {"Error"}, request = NoRequest
               PROVE  cached.status \in {StatusOf(told), "none"}
                      /\ (cached.status = "none" => row = "DELETED")
    BY DEF FinalEventFindsAnswer
  <2>1. StatusOf(told) # "none"
    BY StatusOfType DEF Terminal, Status
  <2> QED
    BY <2>1 DEF Known, Found, FoundIn
<1> QED
  BY <1>1, AlwaysKnown, PTL

-----------------------------------------------------------------------------
(* What the stored view makes of a set of events.                          *)

BubbleFor(r, events) ==
  IF "Routed" \in events /\ r \in {"clarify", "reject"} THEN {<<"bubble", r>>} ELSE {}

\* What is shown of these events, if they are stored, by the router's decision r.
Shows(r, events) ==
  Steps(events) \cup BubbleFor(r, events) \cup NarrationOf(events) \cup StoredChart(events)
    \cup CanvasOf(events)

\* More events show more, and so does a decision.
LEMMA ShowsMore ==
  ASSUME NEW r, NEW q, r = q \/ r = "undecided", NEW K, NEW L, K \subseteq L
  PROVE  Shows(r, K) \subseteq Shows(q, L)
<1>1. Steps(K) \subseteq Steps(L)
  BY DEF Steps
<1>2. BubbleFor(r, K) \subseteq BubbleFor(q, L)
  BY DEF BubbleFor
<1>3. NarrationOf(K) \subseteq NarrationOf(L) /\ StoredChart(K) \subseteq StoredChart(L)
      /\ CanvasOf(K) \subseteq CanvasOf(L)
  BY DEF NarrationOf, StoredChart, CanvasOf
<1> QED
  BY <1>1, <1>2, <1>3 DEF Shows

\* Events in progress are left out of the stored view, and nothing is shown of them.
LEMMA StoredShows ==
  ASSUME NEW t
  PROVE  Shows(route, Happened(t)) \subseteq StoredView(t)
<1> DEFINE all == Happened(t)
           kept == Happened(t) \ InProgressEvent
<1>1. Steps(all) = Steps(kept)
  BY DEF Steps
<1>2. \A e \in {"Routed", "Narrated", "GeneratedSql", "RecommendedVisualization", "CanvasGenerated"} :
        e \in all => e \in kept
  BY DEF InProgressEvent
<1>3. StoredView(t) = Steps(kept) \cup Bubble(kept) \cup NarrationOf(kept) \cup StoredChart(kept)
                        \cup CanvasOf(kept)
  BY DEF StoredView
<1> HIDE DEF all, kept
<1>4. BubbleFor(route, all) \subseteq Bubble(kept) /\ NarrationOf(all) \subseteq NarrationOf(kept)
      /\ StoredChart(all) \subseteq StoredChart(kept) /\ CanvasOf(all) \subseteq CanvasOf(kept)
  BY <1>2 DEF BubbleFor, Bubble, NarrationOf, StoredChart, CanvasOf
<1> QED
  BY <1>1, <1>3, <1>4 DEF Shows, all

\* What is streamed and never stored is not shown by itself; and where the streaming view draws
\* the rows of a query, the stored one runs the query again.
LEMMA StreamedShows ==
  ASSUME NEW t, NEW K, Happened(t) \subseteq K \cup SseOnly,
         "ExecutedQuery" \in Happened(t) => "GeneratedSql" \in K
  PROVE  StreamingView(t) \subseteq Shows(route, K)
<1> DEFINE all == Happened(t)
<1>1. StreamingView(t) = Steps(all) \cup Bubble(all) \cup NarrationOf(all) \cup StreamedChart(all)
                           \cup CanvasOf(all)
  BY DEF StreamingView
<1>2. all \subseteq K \cup SseOnly /\ ("ExecutedQuery" \in all => "GeneratedSql" \in K)
  OBVIOUS
<1> HIDE DEF all
<1>3. Steps(all) \subseteq Steps(K)
  <2>1. all \ (HiddenEvent \cup InProgressEvent) \subseteq K \ (HiddenEvent \cup InProgressEvent)
    BY <1>2 DEF SseOnly, HiddenEvent, InProgressEvent
  <2> QED
    BY <2>1 DEF Steps
<1>4. \A e \in {"Routed", "Narrated", "RecommendedVisualization", "CanvasGenerated"} :
        e \in all => e \in K
  BY <1>2 DEF SseOnly
<1>5. Bubble(all) \subseteq BubbleFor(route, K) /\ NarrationOf(all) \subseteq NarrationOf(K)
      /\ StreamedChart(all) \subseteq StoredChart(K) /\ CanvasOf(all) \subseteq CanvasOf(K)
  BY <1>2, <1>4 DEF BubbleFor, Bubble, NarrationOf, StreamedChart, StoredChart, CanvasOf
<1> QED
  BY <1>1, <1>3, <1>5 DEF Shows

-----------------------------------------------------------------------------
(* Nothing that was watched vanishes.                                      *)

\* Events that were sent to the client and are about to be offered to the recorder.
OnTheWay ==
  (IF phase = "persist" THEN {Script(route)[pos]} ELSE {})
    \cup {Result(s) : s \in {x \in Strand : strand[x] = "persist"}}
    \cup (IF phase = "offering" THEN {"SuggestedFollowups"} ELSE {})

\* Unless the answer fails, these are stored in the end.
ToStore == Happened(emitted) \cup OnTheWay

\* Unless the answer fails, all that the client was sent is to be stored, or is never stored
\* and not missed; and so is all that was ever shown.
Watched ==
  final # "Error" =>
    /\ Happened(sse) \subseteq ToStore \cup SseOnly \cup FinalEvent
    /\ Happened(shown) \subseteq ToStore \cup SseOnly
    /\ \A i \in 1 .. pos : Script(route)[i] \in ToStore \cup SseOnly
    /\ "ExecutedQuery" \in Happened(sse) \cup Happened(shown) => "GeneratedSql" \in ToStore
    /\ seen \subseteq Shows(route, ToStore)

\* A step that does not fail the answer and takes nothing away from what is to be stored.
LEMMA WatchedGrows ==
  ASSUME Watched, UNCHANGED <<shown, seen>>, route' = route \/ route = "undecided",
         final' # "Error" =>
           /\ final # "Error"
           /\ ToStore \subseteq ToStore'
           /\ Happened(sse') \subseteq Happened(sse) \cup ToStore' \cup SseOnly \cup FinalEvent
           /\ \A i \in 1 .. pos' : Script(route')[i] \in ToStore' \cup SseOnly
           /\ "ExecutedQuery" \in Happened(sse') \ Happened(sse) => "GeneratedSql" \in ToStore'
  PROVE  Watched'
<1> SUFFICES ASSUME final' # "Error"
             PROVE  /\ Happened(sse') \subseteq ToStore' \cup SseOnly \cup FinalEvent
                    /\ Happened(shown') \subseteq ToStore' \cup SseOnly
                    /\ \A i \in 1 .. pos' : Script(route')[i] \in ToStore' \cup SseOnly
                    /\ "ExecutedQuery" \in Happened(sse') \cup Happened(shown') =>
                         "GeneratedSql" \in ToStore'
                    /\ seen' \subseteq Shows(route', ToStore')
  BY DEF Watched
<1>1. /\ final # "Error" /\ ToStore \subseteq ToStore' /\ shown' = shown /\ seen' = seen
  OBVIOUS
<1>2. Shows(route, ToStore) \subseteq Shows(route', ToStore')
  BY <1>1, ShowsMore, Zenon
<1> QED
  BY <1>1, <1>2 DEF Watched

\* A pipeline that is not ending has no final event.
NotYet == phase \notin Ending => final = "none"

\* Whoever decides on one ends the pipeline.
LEMMA NotYetStep == NotYet /\ [Next]_vars => NotYet'
<1> SUFFICES ASSUME NotYet, [Next]_vars PROVE NotYet'
  OBVIOUS
<1> USE DEF NotYet, Ending
<1>1. CASE Pipeline
  BY <1>1 DEF Pipeline, SendNext, StoreNext, Fail, Finish, Present, Join, NoFollowups,
              SendFollowups, StoreFollowups, QueueFinal, JoinRecorder, UpdateStatus, TellFinal,
              Decide, Conclude
<1>2. CASE ~Pipeline
  BY <1>2 DEF Next, Presenting, StrandOpen, StrandSend, StrandGivesUp, StrandStore, Recorder,
              Record, RecordFails, RecorderEnds, Reader, Read, Leave, Delete, Quiescent, vars,
              pipelineVars
<1> QED
  BY <1>1, <1>2

\* Sending an event of the script.
LEMMA SendNextWatched ==
  ASSUME Promised, Promised', Watched, SendNext, UNCHANGED pageVars
  PROVE  Watched'
<1> DEFINE e == Script(route)[pos + 1]
<1> USE DEF Promised, Typed
<1>1. /\ phase = "work" /\ phase' = (IF e \in SseOnly THEN "work" ELSE "persist")
      /\ pos' = pos + 1 /\ UNCHANGED <<route, final, strand, emitted>> /\ Stream(e)
      /\ UNCHANGED <<shown, seen>>
  BY DEF SendNext, pageVars
<1>2. pos \in Nat /\ pos + 1 \in 1 .. Len(Script(route)) /\ route \in Decision \cup {"undecided"}
      /\ e \in Event
  BY ScriptType, ScriptIsOpen DEF SendNext, TypeOK
<1>3. Happened(sse') \subseteq Happened(sse) \cup {e}
  BY <1>1, <1>2, StreamHappened
<1>4. OnTheWay = {} /\ OnTheWay' = (IF phase' = "persist" THEN {Script(route')[pos']} ELSE {})
  <2>1. phase # "join" /\ phase' # "join"
    BY <1>1
  <2>2. \A s \in Strand : strand[s] # "persist"
    BY <2>1 DEF Whole, StrandsJoined
  <2> QED
    BY <1>1, <2>1, <2>2 DEF OnTheWay
<1>5. OnTheWay' = (IF e \in SseOnly THEN {} ELSE {e})
  BY <1>1, <1>4
<1>6. ToStore \subseteq ToStore' /\ e \in ToStore' \cup SseOnly
  BY <1>1, <1>4, <1>5 DEF ToStore
<1> HIDE DEF e
<1>7. CASE final = "Error"
  BY <1>1, <1>7, WatchedGrows
<1>8. CASE final # "Error"
  <2>1. \A i \in 1 .. pos : Script(route)[i] \in ToStore \cup SseOnly
    BY <1>8 DEF Watched
  <2>2. \A i \in 1 .. pos' : Script(route')[i] \in ToStore' \cup SseOnly
    BY <1>1, <1>2, <1>6, <2>1 DEF e
  <2>3. e = "ExecutedQuery" => "GeneratedSql" \in ToStore'
    <3> SUFFICES ASSUME e = "ExecutedQuery" PROVE "GeneratedSql" \in ToStore'
      OBVIOUS
    <3>1. PICK j \in 1 .. (pos + 1) - 1 : Script(route)[j] = "GeneratedSql"
      BY <1>2, ScriptGenerates DEF e
    <3>2. j \in 1 .. pos
      BY <1>2
    <3> QED
      BY <1>6, <2>1, <3>1, <3>2 DEF SseOnly
  <2> QED
    BY <1>1, <1>3, <1>6, <2>2, <2>3, WatchedGrows
<1> QED
  BY <1>7, <1>8

\* Deciding on a route, when only what all scripts have in common was sent.
LEMMA DecideWatched ==
  ASSUME Promised, Watched, NEW d \in Decision, Decide(d), UNCHANGED pageVars
  PROVE  Watched'
<1> USE DEF Promised, Typed
<1>1. /\ phase = "work" /\ route = "undecided" /\ route' = d /\ pos = 2
      /\ UNCHANGED <<pos, phase, final, strand, sse, emitted, shown, seen>>
  BY UndecidedScript DEF Decide, ScriptSent, pageVars
<1>2. ToStore' = ToStore
  BY <1>1 DEF ToStore, OnTheWay
<1>3. \A i \in 1 .. pos' : Script(route')[i] = Script(route)[i] /\ i \in 1 .. pos
  BY <1>1, ScriptStarts
<1>4. final # "Error" => \A i \in 1 .. pos' : Script(route')[i] \in ToStore' \cup SseOnly
  BY <1>2, <1>3 DEF Watched
<1> QED
  BY <1>1, <1>2, <1>4, WatchedGrows

\* Steps of the pipeline that send nothing and end nothing.
LEMMA QuietWatched ==
  ASSUME Watched, UNCHANGED <<route, pos, shown, seen>>,
         final' # "Error" =>
           /\ final # "Error" /\ ToStore \subseteq ToStore'
           /\ Happened(sse') \subseteq
                Happened(sse) \cup ((ToStore' \cup SseOnly \cup FinalEvent) \ {"ExecutedQuery"})
  PROVE  Watched'
<1>1. final' # "Error" => \A i \in 1 .. pos' : Script(route')[i] \in ToStore' \cup SseOnly
  BY DEF Watched
<1> QED
  BY <1>1, WatchedGrows

\* Every step of a pipeline.
LEMMA PipelineWatched ==
  ASSUME Promised, Promised', NotYet, Watched, Pipeline, UNCHANGED pageVars
  PROVE  Watched'
<1> USE DEF Promised, Typed
<1>1. UNCHANGED <<shown, seen>>
  BY DEF pageVars
<1>2. phase # "join" => \A s \in Strand : strand[s] # "persist"
  BY DEF Whole, StrandsJoined
<1>3. CASE SendNext
  BY <1>3, SendNextWatched
<1>4. CASE StoreNext
  <2> DEFINE e == Script(route)[pos]
  <2>1. phase = "persist" /\ UNCHANGED <<route, pos, strand, sse>>
        /\ \/ Accepted(e) /\ phase' = "work" /\ final' = final
           \/ final' = "Error"
    BY <1>4 DEF StoreNext, Conclude
  <2>2. e \in Event
    BY <2>1, ScriptIsOpen, ScriptType DEF TypeOK, Decided
  <2>3. CASE Accepted(e) /\ phase' = "work" /\ final' = final
    <3>1. Happened(emitted') = Happened(emitted) \cup {e}
      BY <2>2, <2>3, OfferHappened
    <3>2. OnTheWay \subseteq OnTheWay' \cup {e}
      BY <1>2, <2>1, <2>3 DEF OnTheWay
    <3>3. ToStore \subseteq ToStore'
      BY <3>1, <3>2 DEF ToStore
    <3> QED
      BY <1>1, <2>1, <2>3, <3>3, QuietWatched
  <2>4. CASE final' = "Error"
    BY <1>1, <2>1, <2>4, QuietWatched
  <2> QED
    BY <2>1, <2>3, <2>4
<1>5. CASE Fail
  BY <1>1, <1>5, QuietWatched DEF Fail, Conclude
<1>6. CASE Finish \/ NoFollowups \/ Present \/ Join
  <2>1. UNCHANGED <<route, pos, sse, emitted>> /\ phase \notin Ending \cup {"persist", "offering"}
        /\ phase' \notin {"persist", "offering"}
    BY <1>6 DEF Finish, NoFollowups, Present, Join, Conclude, Ending
  <2>2. final = "none"
    BY <2>1 DEF NotYet
  <2>3. \A s \in Strand : strand[s] # "persist"
    BY <1>2, <1>6 DEF Finish, NoFollowups, Present, Join
  <2>4. OnTheWay = {}
    BY <2>1, <2>3 DEF OnTheWay
  <2> QED
    BY <1>1, <2>1, <2>2, <2>4, QuietWatched DEF ToStore
<1>7. CASE SendFollowups
  <2>1. /\ UNCHANGED <<route, pos, final, strand, emitted>> /\ phase = "joined" /\ phase' = "offering"
        /\ Stream("SuggestedFollowups")
    BY <1>7 DEF SendFollowups
  <2>2. Happened(sse') \subseteq Happened(sse) \cup {"SuggestedFollowups"}
    BY <2>1, StreamHappened DEF Event
  <2>3. OnTheWay \subseteq OnTheWay' /\ "SuggestedFollowups" \in OnTheWay'
    BY <2>1 DEF OnTheWay
  <2>4. ToStore \subseteq ToStore' /\ "SuggestedFollowups" \in ToStore'
    BY <2>1, <2>3 DEF ToStore
  <2> QED
    BY <1>1, <2>1, <2>2, <2>4, QuietWatched
<1>8. CASE StoreFollowups
  <2>1. /\ UNCHANGED <<route, pos, strand, sse>> /\ phase = "offering" /\ phase' = "closing"
        /\ Accepted("SuggestedFollowups") \/ Refused("SuggestedFollowups")
    BY <1>8 DEF StoreFollowups, Conclude
  <2>2. Happened(emitted') = Happened(emitted) \cup {"SuggestedFollowups"}
    BY <2>1, OfferHappened DEF Event
  <2>3. OnTheWay \subseteq OnTheWay' \cup {"SuggestedFollowups"}
    BY <2>1 DEF OnTheWay
  <2>4. ToStore \subseteq ToStore' /\ final = "none"
    BY <2>1, <2>2, <2>3 DEF ToStore, NotYet, Ending
  <2> QED
    BY <1>1, <2>1, <2>4, QuietWatched
<1>9. CASE QueueFinal
  <2>1. /\ UNCHANGED <<route, pos, final, strand, sse>> /\ phase = "closing" /\ phase' = "joining"
        /\ Accepted(final) \/ Refused(final)
    BY <1>9 DEF QueueFinal
  <2>2. Happened(emitted') = Happened(emitted) \cup {final}
    BY <2>1, OfferHappened DEF Event, Decided, Ending
  <2>3. ToStore \subseteq ToStore'
    BY <2>1, <2>2 DEF ToStore, OnTheWay
  <2> QED
    BY <1>1, <2>1, <2>3, QuietWatched
<1>10. CASE JoinRecorder \/ UpdateStatus
  <2>1. /\ UNCHANGED <<route, pos, strand, sse, emitted>> /\ final' \in {final, "Error"}
        /\ phase \notin {"persist", "offering"} /\ phase' \notin {"persist", "offering"}
    BY <1>10 DEF JoinRecorder, UpdateStatus
  <2>2. ToStore' = ToStore
    BY <2>1 DEF ToStore, OnTheWay
  <2> QED
    BY <1>1, <2>1, <2>2, QuietWatched
<1>11. CASE TellFinal
  <2>1. /\ UNCHANGED <<route, pos, final, strand, emitted>> /\ phase = "telling" /\ phase' = "done"
        /\ Stream(final)
    BY <1>11 DEF TellFinal
  <2>2. final \in FinalEvent /\ final \in Event /\ final # "ExecutedQuery"
    BY <2>1 DEF Decided, Ending, Event, FinalEvent
  <2>3. Happened(sse') \subseteq Happened(sse) \cup {final}
    BY <2>1, <2>2, StreamHappened
  <2>4. ToStore' = ToStore
    BY <2>1 DEF ToStore, OnTheWay
  <2> QED
    BY <1>1, <2>1, <2>2, <2>3, <2>4, QuietWatched
<1>12. ASSUME NEW d \in Decision, Decide(d)
       PROVE  Watched'
  BY <1>12, DecideWatched
<1> QED
  BY <1>3, <1>4, <1>5, <1>6, <1>7, <1>8, <1>9, <1>10, <1>11, <1>12 DEF Pipeline

\* Every step of a presenting strand.
LEMMA StrandWatched ==
  ASSUME Promised, Watched, NEW s \in Strand, Presenting(s), UNCHANGED pageVars
  PROVE  Watched'
<1> USE DEF Promised, Typed
<1>1. UNCHANGED <<shown, seen, route, pos, final, phase>> /\ phase = "join"
      /\ strand \in [Strand -> StrandPhase]
  BY DEF Presenting, StrandOpen, StrandSend, StrandGivesUp, StrandStore, Whole, StrandsJoined,
         pipelineVars, pageVars, TypeOK
<1>2. OnTheWay = {Result(x) : x \in {y \in Strand : strand[y] = "persist"}}
      /\ OnTheWay' = {Result(x) : x \in {y \in Strand : strand'[y] = "persist"}}
  BY <1>1 DEF OnTheWay
<1>3. Result(s) \in Event /\ Opening(s) \in Event \cap SseOnly
      /\ Result(s) # "ExecutedQuery" /\ Opening(s) # "ExecutedQuery"
  BY DEF Result, Opening, Event, SseOnly
<1>4. CASE StrandOpen(s)
  <2>1. /\ strand[s] = "open" /\ strand' = [strand EXCEPT ![s] = "work"] /\ emitted' = emitted
        /\ Stream(Opening(s))
    BY <1>4 DEF StrandOpen
  <2>2. ToStore' = ToStore
    BY <1>1, <1>2, <2>1 DEF ToStore
  <2>3. Happened(sse') \subseteq Happened(sse) \cup {Opening(s)}
    BY <1>3, <2>1, StreamHappened
  <2> QED
    BY <1>1, <1>3, <2>2, <2>3, QuietWatched
<1>5. CASE StrandSend(s)
  <2>1. /\ strand[s] = "work" /\ strand' = [strand EXCEPT ![s] = "persist"] /\ emitted' = emitted
        /\ Stream(Result(s))
    BY <1>5 DEF StrandSend
  <2>2. ToStore \subseteq ToStore' /\ Result(s) \in ToStore'
    BY <1>1, <1>2, <2>1 DEF ToStore
  <2>3. Happened(sse') \subseteq Happened(sse) \cup {Result(s)}
    BY <1>3, <2>1, StreamHappened
  <2> QED
    BY <1>1, <1>3, <2>2, <2>3, QuietWatched
<1>6. CASE StrandGivesUp(s)
  <2>1. /\ strand[s] = "work" /\ strand' = [strand EXCEPT ![s] = strand'[s]] /\ emitted' = emitted
        /\ sse' = sse
    BY <1>1, <1>6 DEF StrandGivesUp
  <2>2. ToStore \subseteq ToStore'
    BY <1>1, <1>2, <2>1 DEF ToStore
  <2> QED
    BY <1>1, <2>1, <2>2, QuietWatched
<1>7. CASE StrandStore(s)
  <2>1. /\ sse' = sse
        /\ Accepted(Result(s)) \/ Refused(Result(s))
        /\ \A x \in Strand : x # s => strand'[x] = strand[x]
    BY <1>1, <1>7 DEF StrandStore
  <2>2. Happened(emitted') = Happened(emitted) \cup {Result(s)}
    BY <1>3, <2>1, OfferHappened
  <2>3. OnTheWay \subseteq OnTheWay' \cup {Result(s)}
    BY <1>2, <2>1
  <2>4. ToStore \subseteq ToStore'
    BY <2>2, <2>3 DEF ToStore
  <2> QED
    BY <1>1, <2>1, <2>4, QuietWatched
<1> QED
  BY <1>4, <1>5, <1>6, <1>7 DEF Presenting

\* Every step that the page does not take part in.
LEMMA BehindWatched ==
  ASSUME Promised, Promised', NotYet, Watched,
         Behind \/ Refetch \/ FetchMessages \/ FetchContents \/ FetchAnswered \/ FetchFails
           \/ UNCHANGED viewVars
  PROVE  Watched'
<1>1. CASE Pipeline /\ UNCHANGED pageVars
  BY <1>1, PipelineWatched
<1>2. ASSUME NEW s \in Strand, Presenting(s), UNCHANGED pageVars
      PROVE  Watched'
  BY <1>2, StrandWatched
<1>3. CASE (Recorder \/ Delete) /\ UNCHANGED pageVars
  <2>1. UNCHANGED <<route, pos, phase, final, strand, sse, emitted, shown, seen>>
    BY <1>3 DEF Recorder, Record, RecordFails, RecorderEnds, Delete, pipelineVars, pageVars
  <2>2. ToStore' = ToStore
    BY <2>1 DEF ToStore, OnTheWay
  <2> QED
    BY <2>1, <2>2, QuietWatched
<1>4. CASE Refetch \/ FetchMessages \/ FetchContents \/ FetchAnswered \/ FetchFails
           \/ UNCHANGED viewVars
  <2>1. UNCHANGED <<route, pos, phase, final, strand, sse, emitted, shown, seen>>
    BY <1>4 DEF Refetch, FetchMessages, FetchContents, FetchAnswered, FetchFails, viewVars,
                pageVars, vars, pipelineVars
  <2>2. ToStore' = ToStore
    BY <2>1 DEF ToStore, OnTheWay
  <2> QED
    BY <2>1, <2>2, QuietWatched
<1> QED
  BY <1>1, <1>2, <1>3, <1>4 DEF Behind

\* Reading an event shows what is to be stored, or is never stored and not missed.
LEMMA ReaderWatched ==
  ASSUME Promised, PageTypes, Watched, ShowEvent \/ ShowFinal \/ LoseStream
  PROVE  Watched'
<1> USE DEF Promised, Typed
<1>1. UNCHANGED <<route, pos, phase, final, strand, emitted>>
  BY DEF ShowEvent, ShowFinal, LoseStream, Read, Leave, pipelineVars
<1>2. ToStore' = ToStore
  BY <1>1 DEF ToStore, OnTheWay
<1>3. Happened(sse') \subseteq Happened(sse)
  BY HappenedTail, HappenedNothing DEF ShowEvent, ShowFinal, LoseStream, Read, Leave, TypeOK
<1>4. CASE ShowEvent
  <2>1. /\ received' \in Happened(sse) /\ received' \notin FinalEvent /\ received' \in Event
        /\ shown' = Append(shown, received') /\ seen' = seen \cup StreamingView(shown')
    BY <1>4, HappenedTail DEF ShowEvent, Read, TypeOK, Happened
  <2>2. Happened(shown') = Happened(shown) \cup {received'}
    BY <2>1, HappenedAppend DEF PageTypes
  <2> SUFFICES ASSUME final # "Error" PROVE Watched'
    BY <1>1 DEF Watched
  <2>3. /\ Happened(shown') \subseteq ToStore \cup SseOnly
        /\ "ExecutedQuery" \in Happened(shown') => "GeneratedSql" \in ToStore
    BY <2>1, <2>2 DEF Watched
  <2>4. StreamingView(shown') \subseteq Shows(route, ToStore)
    BY <2>3, StreamedShows
  <2>5. seen' \subseteq Shows(route', ToStore')
    BY <1>1, <1>2, <2>1, <2>4 DEF Watched
  <2> QED
    BY <1>1, <1>2, <1>3, <2>3, <2>5 DEF Watched
<1>5. CASE ShowFinal \/ LoseStream
  <2>1. Happened(shown') = {} /\ seen' = seen
    BY <1>5, HappenedNothing DEF ShowFinal, LoseStream
  <2>2. Shows(route', ToStore') = Shows(route, ToStore)
    BY <1>1, <1>2
  <2> QED
    BY <1>1, <1>2, <1>3, <2>1, <2>2 DEF Watched
<1> QED
  BY <1>4, <1>5

\* Statuses of an answer that succeeded.
Good == Terminal \ {"FAILED"}

\* A status that says the answer succeeded was read from a row that will say so until it is
\* deleted; the contents read after it are all there will ever be.
Lasts(status) == status \in Good => row \in {status, "DELETED"}
LastsWith(status, contents) == Lasts(status) /\ (status \in Good /\ row # "DELETED" => contents = log)

Fetched ==
  /\ request.stage = "messages" => Lasts(request.status)
  /\ request.stage = "answered" => LastsWith(request.status, request.contents)
  /\ LastsWith(cached.status, cached.contents)

\* A row that says the answer succeeded is only changed by its deletion.
LEMMA GoodStays ==
  ASSUME Promised, [Next]_vars, row \in Good
  PROVE  row' = "DELETED" \/ UNCHANGED <<row, log>>
<1>1. phase \in {"telling", "done"} /\ recorder = "ended"
  BY DEF Promised, Whole, SettledLast, Good
<1>2. CASE Pipeline
  BY <1>1, <1>2 DEF Pipeline, SendNext, StoreNext, Fail, Finish, Present, Join, NoFollowups,
              SendFollowups, StoreFollowups, QueueFinal, JoinRecorder, UpdateStatus, TellFinal,
              Decide, rowVars
<1>3. CASE ~Pipeline
  BY <1>1, <1>3 DEF Next, Presenting, StrandOpen, StrandSend, StrandGivesUp, StrandStore, Recorder,
              Record, RecordFails, RecorderEnds, Reader, Read, Leave, Delete, Quiescent, vars,
              rowVars
<1> QED
  BY <1>2, <1>3

\* Every step keeps to it.
LEMMA FetchedStep ==
  ASSUME Promised, PageTypes, Fetched, [ViewNext]_viewVars
  PROVE  Fetched'
<1> USE DEF Fetched, Lasts, LastsWith
<1>1. row \in Good => row' = "DELETED" \/ UNCHANGED <<row, log>>
  BY GoodStays, ViewStepIsStep
<1>2. row = "DELETED" => row' = "DELETED"
  BY DoneStays, ViewStepIsStep
<1>3. "DELETED" \notin Good /\ "none" \notin Good
  BY DEF Good, Terminal, Status
<1>4. LastsWith(cached.status, cached.contents) /\ cached' = cached =>
        LastsWith(cached.status, cached.contents)'
  BY <1>1, <1>2, <1>3
<1>5. CASE UNCHANGED <<request, cached>>
  BY <1>1, <1>2, <1>3, <1>4, <1>5
<1>6. CASE ShowFinal \/ Refetch \/ FetchFails
  <2>1. request' \in {Asked, [stage |-> "failed"]} /\ cached' = cached
    BY <1>6 DEF ShowFinal, Refetch, FetchFails
  <2> QED
    BY <1>4, <2>1 DEF Asked
<1>7. CASE FetchMessages
  <2>1. /\ UNCHANGED <<row, log, cached>>
        /\ \/ row = "DELETED" /\ request' = [stage |-> "answered", status |-> "none", contents |-> <<>>]
           \/ row # "DELETED" /\ request' = [stage |-> "messages", status |-> row]
    BY <1>7 DEF FetchMessages, vars, rowVars
  <2> QED
    BY <1>3, <1>4, <2>1
<1>8. CASE FetchContents
  <2>1. /\ UNCHANGED <<row, log, cached>> /\ request.stage = "messages"
        /\ request' = [stage |-> "answered", status |-> request.status, contents |-> log]
    BY <1>8 DEF FetchContents, vars, rowVars
  <2> QED
    BY <1>4, <2>1
<1>9. CASE FetchAnswered
  <2>1. /\ UNCHANGED <<row, log>> /\ request.stage = "answered" /\ request' = NoRequest
        /\ cached'.status = request.status /\ cached'.contents = request.contents
    BY <1>9 DEF FetchAnswered, vars, rowVars
  <2>2. request'.stage = "none"
    BY <2>1 DEF NoRequest
  <2> QED
    BY <2>1, <2>2
<1> QED
  BY <1>5, <1>6, <1>7, <1>8, <1>9
  DEF ViewNext, ShowEvent, LoseStream, Behind, viewVars, pageVars

\* Nothing the user has watched appear is missing from an answer that succeeded, once it is
\* shown from the database: for every analysis that generates a query, every channel, and
\* whatever fails or is lost on the way.
THEOREM NothingIsMissed == ViewSpec => []NothingVanishes
<1>1. ViewInit => NotYet /\ Watched /\ Fetched
  <2> SUFFICES ASSUME ViewInit PROVE NotYet /\ Watched /\ Fetched
    OBVIOUS
  <2>1. NotYet
    BY DEF ViewInit, Init, NotYet
  <2>2. Watched
    BY HappenedNothing DEF ViewInit, Init, Watched
  <2>3. Fetched
    BY DEF ViewInit, Fetched, Lasts, LastsWith, NoRequest, NoMessage, Good, Terminal, Status
  <2> QED
    BY <2>1, <2>2, <2>3
<1>2. Known /\ Known' /\ NotYet /\ Watched /\ Fetched /\ [ViewNext]_viewVars =>
        NotYet' /\ Watched' /\ Fetched'
  <2> SUFFICES ASSUME Known, Known', NotYet, Watched, Fetched, [ViewNext]_viewVars
               PROVE  NotYet' /\ Watched' /\ Fetched'
    OBVIOUS
  <2>1. NotYet'
    BY NotYetStep, ViewStepIsStep
  <2>2. Watched'
    BY BehindWatched, ReaderWatched DEF Known, ViewNext
  <2>3. Fetched'
    BY FetchedStep DEF Known
  <2> QED
    BY <2>1, <2>2, <2>3
<1>3. Known /\ Watched /\ Fetched => NothingVanishes
  <2> SUFFICES ASSUME Known, Watched, Fetched, cached.status \in Good, row # "DELETED"
               PROVE  seen \subseteq StoredView(cached.contents)
    BY DEF NothingVanishes, Good
  <2>1. row \in Good /\ cached.contents = log
    BY DEF Fetched, LastsWith, Lasts
  <2>2. log = emitted /\ phase \in {"telling", "done"}
    BY <2>1 DEF Known, Promised, Whole, SavedAnswerIsWhole, SettledLast, Good
  <2>3. final # "Error"
    BY <2>1 DEF Known, Settled, StatusOf, Good
  <2>4. ToStore = Happened(emitted)
    <3>1. \A s \in Strand : strand[s] # "persist"
      BY <2>2 DEF Known, Promised, Whole, StrandsJoined
    <3> QED
      BY <2>2, <3>1 DEF ToStore, OnTheWay
  <2>5. seen \subseteq Shows(route, Happened(cached.contents))
    BY <2>1, <2>2, <2>3, <2>4 DEF Watched
  <2> QED
    BY <2>5, StoredShows
<1> QED
  BY <1>1, <1>2, <1>3, AlwaysKnown, PTL DEF ViewSpec

=============================================================================
