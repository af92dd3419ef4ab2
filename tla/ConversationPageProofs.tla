------------------- MODULE ConversationPageProofs -----------------------
(***************************************************************************)
(* Proofs about the pages of a conversation: what they promise holds for   *)
(* any number of questions and of faults.                                  *)
(***************************************************************************)
EXTENDS ConversationPage, SequenceTheorems, FiniteSetTheorems, TLAPS

-----------------------------------------------------------------------------
(* Transcripts and their snapshots.                                        *)

Kinds == {"question", "pending", "answer"}

\* A question and its answer take turns; only the last answer may be pending.
TurnsTaken(t) ==
  \A i \in 1 .. Len(t) :
    IF i = 1 THEN t[i] = "question"
    ELSE /\ t[i] = "question" <=> t[i - 1] = "answer"
         /\ t[i - 1] # "pending"

\* s is what transcript t was at some time.
Snapshot(s, t) ==
  /\ s # <<>> /\ Len(s) <= Len(t)
  /\ \A i \in 1 .. Len(s) : \/ s[i] = t[i]
                            \/ i = Len(s) /\ s[i] = "pending" /\ t[i] = "answer"

\* A snapshot that has the last question.
SameTurn(s, t) == Len(s) = Len(t) \/ (EndsWith(s, {"question"}) /\ Len(s) + 1 = Len(t))

\* A transcript that is not empty has a last message.
LEMMA LastMessage ==
  ASSUME NEW t \in Seq(Kinds)
  PROVE  /\ Len(t) \in Nat
         /\ t = <<>> <=> Len(t) = 0
         /\ t # <<>> => Len(t) \in 1 .. Len(t) /\ t[Len(t)] \in Kinds
<1>1. Len(t) \in Nat /\ (t = <<>> <=> Len(t) = 0)
  BY EmptySeq
<1> QED
  BY <1>1, ElementOfSeq

\* How a transcript ends.
LEMMA Endings ==
  ASSUME NEW t \in Seq(Kinds)
  PROVE  /\ t # <<>> => \/ EndsWith(t, {"question"}) \/ EndsWith(t, {"pending"})
                        \/ EndsWith(t, {"answer"})
         /\ ~(EndsWith(t, {"question"}) /\ EndsWith(t, {"pending"}))
         /\ ~(EndsWith(t, {"question"}) /\ EndsWith(t, {"answer"}))
         /\ ~(EndsWith(t, {"pending"}) /\ EndsWith(t, {"answer"}))
         /\ EndsWith(t, {"pending", "answer"})
              <=> EndsWith(t, {"pending"}) \/ EndsWith(t, {"answer"})
         /\ ~EndsWith(<<>>, {"question"}) /\ ~EndsWith(<<>>, {"pending"})
         /\ ~EndsWith(<<>>, {"answer"})
  BY LastMessage DEF EndsWith, Kinds

\* A message is added: the transcript has it last, and what was a snapshot still is one.
LEMMA Added ==
  ASSUME NEW t \in Seq(Kinds), NEW k \in Kinds
  PROVE  /\ Append(t, k) \in Seq(Kinds)
         /\ Append(t, k) # <<>> /\ Len(Append(t, k)) = Len(t) + 1
         /\ EndsWith(Append(t, k), {k})
         /\ \A i \in 1 .. Len(t) : Append(t, k)[i] = t[i]
<1>1. Append(t, k) \in Seq(Kinds) /\ Len(Append(t, k)) = Len(t) + 1
      /\ Append(t, k)[Len(t) + 1] = k /\ \A i \in 1 .. Len(t) : Append(t, k)[i] = t[i]
  BY AppendProperties
<1>2. Len(t) \in Nat
  BY LastMessage
<1>3. Append(t, k) # <<>>
  BY <1>1, <1>2, EmptySeq
<1> QED
  BY <1>1, <1>3 DEF EndsWith

\* What was copied of a conversation is still part of it when it has grown.
LEMMA SnapshotOfMore ==
  ASSUME NEW t \in Seq(Kinds), NEW k \in Kinds, NEW s \in Seq(Kinds), Snapshot(s, t)
  PROVE  Snapshot(s, Append(t, k))
  BY Added, LastMessage DEF Snapshot

\* A conversation is a copy of itself.
LEMMA SnapshotOfItself ==
  ASSUME NEW t \in Seq(Kinds), t # <<>>
  PROVE  Snapshot(t, t) /\ SameTurn(t, t)
  BY LastMessage DEF Snapshot, SameTurn

\* Turns go on when a question follows an answer, and an answer a question.
LEMMA TurnsGoOn ==
  ASSUME NEW t \in Seq(Kinds), TurnsTaken(t), NEW k \in {"question", "pending"},
         k = "question" => t = <<>> \/ EndsWith(t, {"answer"}),
         k = "pending" => EndsWith(t, {"question"})
  PROVE  TurnsTaken(Append(t, k))
<1> DEFINE u == Append(t, k)
<1>1. k \in Kinds
  BY DEF Kinds
<1>2. /\ Len(u) = Len(t) + 1 /\ u[Len(t) + 1] = k /\ \A i \in 1 .. Len(t) : u[i] = t[i]
      /\ Len(t) \in Nat
  BY <1>1, AppendProperties, LastMessage
<1> HIDE DEF u
<1> SUFFICES ASSUME NEW i \in 1 .. Len(u)
             PROVE  IF i = 1 THEN u[i] = "question"
                    ELSE /\ u[i] = "question" <=> u[i - 1] = "answer"
                         /\ u[i - 1] # "pending"
  BY DEF TurnsTaken, u
<1>3. CASE i <= Len(t)
  <2>1. i \in 1 .. Len(t) /\ (i # 1 => i - 1 \in 1 .. Len(t))
    BY <1>2, <1>3
  <2> QED
    BY <1>2, <2>1 DEF TurnsTaken
<1>4. CASE i = Len(t) + 1
  <2>1. CASE t = <<>>
    BY <1>2, <1>4, <2>1, LastMessage DEF EndsWith
  <2>2. CASE t # <<>>
    <3>1. Len(t) \in 1 .. Len(t) /\ i # 1 /\ i - 1 = Len(t)
      BY <1>2, <1>4, <2>2, LastMessage
    <3>2. u[i] = k /\ u[i - 1] = t[Len(t)]
      BY <1>2, <1>4, <3>1
    <3> QED
      BY <2>2, <3>1, <3>2 DEF EndsWith
  <2> QED
    BY <2>1, <2>2
<1> QED
  BY <1>2, <1>3, <1>4

\* The pending answer is settled.
LEMMA SettledTranscript ==
  ASSUME NEW t \in Seq(Kinds), EndsWith(t, {"pending"})
  PROVE  LET u == [t EXCEPT ![Len(t)] = "answer"] IN
         /\ u \in Seq(Kinds) /\ Len(u) = Len(t) /\ u # <<>> /\ EndsWith(u, {"answer"})
         /\ TurnsTaken(t) => TurnsTaken(u)
         /\ \A s \in Seq(Kinds) : Snapshot(s, t) => Snapshot(s, u)
<1> DEFINE u == [t EXCEPT ![Len(t)] = "answer"]
<1>1. /\ Len(t) \in 1 .. Len(t) /\ Len(t) \in Nat /\ t[Len(t)] = "pending" /\ t # <<>>
  BY LastMessage DEF EndsWith
<1>2. /\ u \in Seq(Kinds) /\ Len(u) = Len(t)
      /\ \A i \in 1 .. Len(t) : u[i] = IF i = Len(t) THEN "answer" ELSE t[i]
  <2>1. "answer" \in Kinds
    BY DEF Kinds
  <2> QED
    BY <1>1, <2>1, ExceptSeq
<1>3. u # <<>> /\ EndsWith(u, {"answer"})
  BY <1>1, <1>2, LastMessage DEF EndsWith
<1>4. ASSUME TurnsTaken(t)
      PROVE  TurnsTaken(u)
  <2> SUFFICES ASSUME NEW i \in 1 .. Len(t)
               PROVE  IF i = 1 THEN u[i] = "question"
                      ELSE /\ u[i] = "question" <=> u[i - 1] = "answer"
                           /\ u[i - 1] # "pending"
    BY <1>1 DEF TurnsTaken
  <2>1. i # 1 => i - 1 \in 1 .. Len(t) /\ i - 1 # Len(t)
    BY <1>2
  <2> HIDE DEF u
  <2> QED
    BY <1>1, <1>2, <1>4, <2>1 DEF TurnsTaken
<1>5. ASSUME NEW s \in Seq(Kinds), Snapshot(s, t)
      PROVE  Snapshot(s, u)
  <2>1. Len(s) \in Nat
    BY LastMessage
  <2> HIDE DEF u
  <2> QED
    BY <1>1, <1>2, <1>5, <2>1 DEF Snapshot
<1> QED
  BY <1>2, <1>3, <1>4, <1>5

\* What is known of the ends of a snapshot and its transcript, of the same length or one less.
LEMMA SnapshotEnds ==
  ASSUME NEW t \in Seq(Kinds), TurnsTaken(t), NEW s \in Seq(Kinds), Snapshot(s, t)
  PROVE  /\ Len(s) = Len(t) => \/ s = t
                               \/ EndsWith(s, {"pending"}) /\ EndsWith(t, {"answer"})
         /\ Len(s) + 1 = Len(t) => (EndsWith(s, {"question"}) <=> ~EndsWith(t, {"question"}))
<1>1. /\ Len(s) \in Nat /\ Len(t) \in Nat /\ Len(s) \in 1 .. Len(s) /\ s[Len(s)] \in Kinds
      /\ t # <<>> /\ t[Len(t)] \in Kinds
  BY LastMessage DEF Snapshot
<1>2. ASSUME Len(s) = Len(t), ~(EndsWith(s, {"pending"}) /\ EndsWith(t, {"answer"}))
      PROVE  s = t
  <2>1. \A i \in 1 .. Len(s) : s[i] = t[i]
    BY <1>1, <1>2 DEF Snapshot, EndsWith
  <2> QED
    BY <1>2, <2>1, SeqEqual
<1>3. ASSUME Len(s) + 1 = Len(t)
      PROVE  EndsWith(s, {"question"}) <=> ~EndsWith(t, {"question"})
  <2>1. Len(t) \in 1 .. Len(t) /\ Len(t) # 1 /\ Len(t) - 1 = Len(s)
    BY <1>1, <1>3
  <2>2. /\ t[Len(t)] = "question" <=> t[Len(s)] = "answer"
        /\ t[Len(s)] # "pending"
    BY <2>1 DEF TurnsTaken
  <2>3. s[Len(s)] = t[Len(s)] \/ (s[Len(s)] = "pending" /\ t[Len(s)] = "answer")
    BY <1>1 DEF Snapshot
  <2>4. s # <<>>
    BY DEF Snapshot
  <2> QED
    BY <1>1, <2>2, <2>3, <2>4 DEF EndsWith, Kinds
<1> QED
  BY <1>2, <1>3

\* A snapshot of the last turn is one of the transcript's own length, or has the question alone.
LEMMA LastTurn ==
  ASSUME NEW t \in Seq(Kinds), TurnsTaken(t), NEW s \in Seq(Kinds), Snapshot(s, t),
         SameTurn(s, t)
  PROVE  /\ EndsWith(t, {"question"}) => s = t
         /\ EndsWith(s, {"question"}) =>
              (Len(s) = Len(t) /\ s = t) \/ Len(s) + 1 = Len(t)
         /\ ~EndsWith(s, {"question"}) =>
              Len(s) = Len(t) /\ ~EndsWith(t, {"question"})
  BY SnapshotEnds, Endings DEF SameTurn, Snapshot

\* The turn goes on: a snapshot of it stays one.
LEMMA SameTurnAnswered ==
  ASSUME NEW t \in Seq(Kinds), TurnsTaken(t), NEW s \in Seq(Kinds), Snapshot(s, t),
         SameTurn(s, t), EndsWith(t, {"question"})
  PROVE  SameTurn(s, Append(t, "pending"))
<1>1. s = t
  BY LastTurn
<1>2. Len(Append(t, "pending")) = Len(t) + 1
  BY Added DEF Kinds
<1> QED
  BY <1>1, <1>2 DEF SameTurn

\* The next turn begins: an answered snapshot is of an earlier one.
LEMMA NextTurn ==
  ASSUME NEW t \in Seq(Kinds), NEW s \in Seq(Kinds), Snapshot(s, t),
         ~EndsWith(s, {"question"})
  PROVE  ~SameTurn(s, Append(t, "question"))
<1>1. Len(Append(t, "question")) = Len(t) + 1 /\ Len(s) \in Nat /\ Len(t) \in Nat
  BY Added, LastMessage DEF Kinds
<1> QED
  BY <1>1 DEF SameTurn, Snapshot

\* Of two snapshots: one no older than one of the last turn is of the last turn.
LEMMA NotOlderIsSameTurn ==
  ASSUME NEW t \in Seq(Kinds), TurnsTaken(t), NEW s \in Seq(Kinds), Snapshot(s, t),
         NEW c \in Seq(Kinds), Snapshot(c, t), SameTurn(c, t), ~Older(s, c)
  PROVE  SameTurn(s, t)
<1>1. Len(s) \in Nat /\ Len(c) \in Nat /\ Len(t) \in Nat /\ Len(s) <= Len(t)
  BY LastMessage DEF Snapshot
<1>2. Len(c) <= Len(s)
  BY <1>1 DEF Older
<1>3. CASE Len(c) = Len(t)
  BY <1>1, <1>2, <1>3 DEF SameTurn
<1>4. CASE Len(c) + 1 = Len(t)
  BY <1>1, <1>2, <1>4, SnapshotEnds DEF SameTurn
<1> QED
  BY <1>3, <1>4 DEF SameTurn

\* Two snapshots of the last turn that have its question alone are the same.
LEMMA SameQuestion ==
  ASSUME NEW t \in Seq(Kinds), TurnsTaken(t),
         NEW s \in Seq(Kinds), Snapshot(s, t), SameTurn(s, t), EndsWith(s, {"question"}),
         NEW c \in Seq(Kinds), Snapshot(c, t), SameTurn(c, t), EndsWith(c, {"question"})
  PROVE  s = c
<1>1. Len(s) \in Nat /\ Len(c) \in Nat /\ Len(t) \in Nat
  BY LastMessage
<1>2. Len(s) = Len(c)
  BY <1>1, LastTurn, SnapshotEnds, Endings
<1>3. \A i \in 1 .. Len(s) : s[i] = c[i]
  <2>1. s[Len(s)] = "question" /\ c[Len(c)] = "question"
    BY DEF EndsWith
  <2> QED
    BY <1>1, <1>2, <2>1 DEF Snapshot
<1> QED
  BY <1>2, <1>3, SeqEqual

\* The question alone is older than any other snapshot of its turn.
LEMMA QuestionIsOlder ==
  ASSUME NEW t \in Seq(Kinds), TurnsTaken(t),
         NEW s \in Seq(Kinds), Snapshot(s, t), SameTurn(s, t), EndsWith(s, {"question"}),
         NEW c \in Seq(Kinds), Snapshot(c, t), SameTurn(c, t), ~EndsWith(c, {"question"})
  PROVE  Older(s, c)
<1>1. Len(s) \in Nat /\ Len(c) \in Nat /\ Len(t) \in Nat
  BY LastMessage
<1>2. Len(c) = Len(t) /\ ~EndsWith(t, {"question"})
  BY LastTurn
<1>3. Len(s) + 1 = Len(t)
  BY <1>2, LastTurn
<1> QED
  BY <1>1, <1>2, <1>3 DEF Older

\* A snapshot of the last turn is no older than one of an earlier turn.
LEMMA SameTurnIsNotOlder ==
  ASSUME NEW t \in Seq(Kinds), TurnsTaken(t),
         NEW s \in Seq(Kinds), Snapshot(s, t), SameTurn(s, t),
         NEW c \in Seq(Kinds), Snapshot(c, t), ~SameTurn(c, t)
  PROVE  ~Older(s, c)
<1>1. /\ Len(s) \in Nat /\ Len(c) \in Nat /\ Len(t) \in Nat
      /\ Len(s) <= Len(t) /\ Len(c) <= Len(t)
  BY LastMessage DEF Snapshot
<1>2. Len(c) < Len(t)
  BY <1>1 DEF SameTurn
<1>3. CASE Len(s) = Len(t)
  BY <1>1, <1>2, <1>3 DEF Older
<1>4. CASE EndsWith(s, {"question"}) /\ Len(s) + 1 = Len(t)
  <2>1. Len(c) + 1 # Len(t)
    BY <1>4, SnapshotEnds DEF SameTurn
  <2> QED
    BY <1>1, <1>2, <1>4, <2>1 DEF Older
<1> QED
  BY <1>3, <1>4 DEF SameTurn

\* No snapshot is newer than the transcript.
LEMMA NoneIsNewer ==
  ASSUME NEW t \in Seq(Kinds), TurnsTaken(t), NEW s \in Seq(Kinds), Snapshot(s, t)
  PROVE  ~Older(t, s)
<1>1. Len(s) \in Nat /\ Len(t) \in Nat /\ Len(s) <= Len(t)
  BY LastMessage DEF Snapshot
<1>2. Len(s) = Len(t) /\ t # s => ~EndsWith(t, {"pending"})
  BY SnapshotEnds, Endings
<1> QED
  BY <1>1, <1>2 DEF Older

-----------------------------------------------------------------------------
(* Types.                                                                  *)

AskRecords ==
  [stage : {"idle", "sent", "stored", "refused"}, to : {"new", "chat"},
   by : {"shown", "left", "gone"}, transcript : Seq(Kinds)]

PageTypes ==
  /\ transcript \in Seq(Kinds)
  /\ cached \in [known : BOOLEAN, transcript : Seq(Kinds), ok : BOOLEAN, invalid : BOOLEAN]
  /\ fetch \in {Idle, Asked, [stage |-> "missing"]}
                 \cup [stage : {"served"}, transcript : Seq(Kinds)]
  /\ ask \in [Requests -> AskRecords]
  /\ overtaken \in BOOLEAN /\ missed \in BOOLEAN
  /\ row \in {"none", "there", "deleted"}
  /\ place \in {"new", "chat", "elsewhere"}
  /\ stream \in {"none", "opening", "open"}
  /\ task \in {"none", "working", "told"}

\* What the stage of a request says of it.
LEMMA Stages ==
  ASSUME PageTypes
  PROVE  /\ fetch = Idle <=> fetch.stage = "idle"
         /\ fetch = Asked <=> fetch.stage = "asked"
         /\ fetch.stage = "served" => fetch.transcript \in Seq(Kinds)
         /\ fetch.stage \in {"idle", "asked", "served", "missing"}
         /\ \A r \in Requests : ask[r].transcript \in Seq(Kinds) /\ ask[r].to \in {"new", "chat"}
  BY DEF PageTypes, Idle, Asked, AskRecords

\* A request that is none.
LEMMA NoAskIs == /\ NoAsk \in AskRecords /\ NoAsk.stage = "idle" /\ NoAsk.to = "new"
                 /\ [r \in Requests |-> NoAsk] \in [Requests -> AskRecords]
  BY EmptySeq DEF NoAsk, AskRecords

\* Nothing is said of the questions under way but by whom they were sent.
AsksStay ==
  \A r \in Requests :
    /\ ask'[r].stage = ask[r].stage /\ ask'[r].to = ask[r].to
    /\ ask'[r].transcript = ask[r].transcript
    /\ ask[r].stage # "idle" /\ ask'[r].by = "gone" => ask[r].by = "gone"

\* A panel that is left leaves its question on the way.
LEMMA LeftBehindIs ==
  ASSUME PageTypes
  PROVE  /\ LeftBehind \in [Requests -> AskRecords]
         /\ ask' = LeftBehind => AsksStay
<1>1. ASSUME NEW r \in Requests
      PROVE  /\ ask[r] \in AskRecords
             /\ LeftBehind[r] \in AskRecords
             /\ LeftBehind[r].stage = ask[r].stage /\ LeftBehind[r].to = ask[r].to
             /\ LeftBehind[r].transcript = ask[r].transcript
             /\ LeftBehind[r].by = "gone" => ask[r].by = "gone"
  BY DEF LeftBehind, PageTypes, AskRecords
<1>2. LeftBehind = [r \in Requests |-> LeftBehind[r]]
  BY DEF LeftBehind
<1> QED
  BY <1>1, <1>2 DEF AsksStay

\* One of the questions changes.
LEMMA OneAskChanges ==
  ASSUME PageTypes, NEW r \in Requests, NEW a \in AskRecords
  PROVE  /\ [ask EXCEPT ![r] = a] \in [Requests -> AskRecords]
         /\ [ask EXCEPT ![r] = a][r] = a
         /\ \A q \in Requests : q # r => [ask EXCEPT ![r] = a][q] = ask[q]
  BY DEF PageTypes

\* A stream starts, or not.
LEMMA StreamTypes ==
  ASSUME PageTypes, NEW p, NEW c, NEW b, StartStream(b) \/ Effect(p, c, b)
  PROVE  stream' \in {"none", "opening", "open"}
  BY DEF PageTypes, StartStream, Effect

\* What is put in the cache.
LEMMA CacheTypes ==
  ASSUME PageTypes
  PROVE  /\ Nothing \in [known : BOOLEAN, transcript : Seq(Kinds), ok : BOOLEAN, invalid : BOOLEAN]
         /\ \A t \in Seq(Kinds) :
              Fresh(t) \in [known : BOOLEAN, transcript : Seq(Kinds), ok : BOOLEAN, invalid : BOOLEAN]
         /\ [cached EXCEPT !.ok = FALSE]
              \in [known : BOOLEAN, transcript : Seq(Kinds), ok : BOOLEAN, invalid : BOOLEAN]
         /\ [cached EXCEPT !.invalid = TRUE]
              \in [known : BOOLEAN, transcript : Seq(Kinds), ok : BOOLEAN, invalid : BOOLEAN]
         /\ [cached EXCEPT !.ok = TRUE, !.invalid = FALSE]
              \in [known : BOOLEAN, transcript : Seq(Kinds), ok : BOOLEAN, invalid : BOOLEAN]
  BY EmptySeq DEF PageTypes, Nothing, Fresh

\* The answer to a new name.
LEMMA RowTypes ==
  ASSUME PageTypes, NEW b, RowInCache(b)
  PROVE  /\ cached' \in [known : BOOLEAN, transcript : Seq(Kinds), ok : BOOLEAN, invalid : BOOLEAN]
         /\ stream' \in {"none", "opening", "open"} /\ overtaken' \in BOOLEAN
  BY CacheTypes, StreamTypes DEF RowInCache, PageTypes, cacheVars

\* Every step keeps the types.
LEMMA PageTypesStep ==
  ASSUME PageTypes, [Next]_vars
  PROVE  PageTypes'
<1>1. CASE User
  <2>1. CASE OpenChat
    BY <2>1, StreamTypes, LeftBehindIs DEF OpenChat, PageTypes, serverVars, cacheVars
  <2>2. CASE \E p \in {"new", "elsewhere"} : OpenOther(p)
    BY <2>2, LeftBehindIs DEF OpenOther, PageTypes, serverVars, cacheVars
  <2>3. CASE LeaveSection
    <3>1. missed' \in BOOLEAN /\ stream' = "none" /\ place' = "elsewhere" /\ ask' = LeftBehind
      BY <2>3 DEF LeaveSection, PageTypes
    <3> QED
      BY <2>3, <3>1, LeftBehindIs DEF LeaveSection, PageTypes, serverVars, cacheVars
  <2>4. CASE Reload
    <3>1. ask' \in [Requests -> AskRecords]
      <4>1. \A r \in Requests : [ask[r] EXCEPT !.by = "gone"] \in AskRecords
        BY DEF PageTypes, AskRecords
      <4> QED
        BY <2>4, <4>1, NoAskIs DEF Reload
    <3>2. /\ cached' = Nothing /\ fetch' \in {Asked, Idle} /\ stream' = "none"
          /\ overtaken' \in BOOLEAN /\ missed' \in BOOLEAN /\ UNCHANGED <<row, transcript, task, place>>
      BY <2>4 DEF Reload, PageTypes, serverVars
    <3> QED
      BY <3>1, <3>2, CacheTypes DEF PageTypes
  <2>5. CASE Refetch
    BY <2>5 DEF Refetch, PageTypes, serverVars, cacheVars
  <2>6. CASE Send
    <3>1. [stage |-> "sent", to |-> place, by |-> "shown", transcript |-> <<>>] \in AskRecords
      BY <2>6, EmptySeq DEF Send, ComposerEnabled, PageTypes, AskRecords
    <3>2. ask' \in [Requests -> AskRecords]
      BY <2>6, <3>1, OneAskChanges DEF Send
    <3> QED
      BY <2>6, <3>2 DEF Send, PageTypes, serverVars, cacheVars
  <2>7. CASE \/ Type \/ PickFollowUp
             \/ (\E request \in {"renaming", "deleting"} : Confirm(request))
    BY <2>7 DEF Type, PickFollowUp, Confirm, PageTypes, serverVars, cacheVars
  <2> QED
    BY <1>1, <2>1, <2>2, <2>3, <2>4, <2>5, <2>6, <2>7 DEF User
<1>2. CASE Fetching
  <2>1. CASE FetchServed
    <3>1. [stage |-> "served", transcript |-> transcript]
            \in [stage : {"served"}, transcript : Seq(Kinds)]
      BY DEF PageTypes
    <3> QED
      BY <2>1, <3>1 DEF FetchServed, PageTypes, serverVars, cacheVars
  <2>2. CASE FetchAnswered
    BY <2>2, Stages, CacheTypes, StreamTypes DEF FetchAnswered, PageTypes, serverVars
  <2>3. CASE FetchNotFound
    <3>1. ask' \in [Requests -> AskRecords] /\ place' \in {"new", "chat", "elsewhere"}
      BY <2>3, LeftBehindIs DEF FetchNotFound, PageTypes
    <3> QED
      BY <2>3, <3>1, CacheTypes DEF FetchNotFound, PageTypes, serverVars
  <2> QED
    BY <1>2, <2>1, <2>2, <2>3 DEF Fetching
<1>3. CASE Asking
  <2> SUFFICES ASSUME NEW r \in Requests,
                      AskServed(r) \/ Created(r) \/ Appended(r) \/ AskRefused(r)
               PROVE  PageTypes'
    BY <1>3 DEF Asking
  <2>1. CASE AskServed(r)
    <3>1. Append(transcript, "question") \in Seq(Kinds)
      BY Added DEF PageTypes, Kinds
    <3>2. ask[r] \in AskRecords /\ <<>> \in Seq(Kinds)
      BY EmptySeq DEF PageTypes
    <3>3. \A t \in Seq(Kinds) :
            /\ [ask[r] EXCEPT !.stage = "stored", !.transcript = t] \in AskRecords
            /\ [ask[r] EXCEPT !.stage = "refused"] \in AskRecords
      BY <3>2 DEF AskRecords
    <3>4. \E a \in AskRecords : ask' = [ask EXCEPT ![r] = a]
      BY <2>1, <3>1, <3>2, <3>3, NoAskIs DEF AskServed
    <3>5. ask' \in [Requests -> AskRecords]
      BY <3>4, OneAskChanges
    <3> QED
      BY <2>1, <3>1, <3>5 DEF AskServed, PageTypes, cacheVars
  <2>2. ~AskServed(r) => ask' = [ask EXCEPT ![r] = NoAsk] /\ ask' \in [Requests -> AskRecords]
    BY OneAskChanges, NoAskIs DEF Created, Appended, AskRefused
  <2>3. CASE Created(r)
    <3>1. stream' \in {"none", "opening", "open"}
      BY <2>3, StreamTypes DEF Created
    <3>2. ask[r].stage = "stored" /\ ask' \in [Requests -> AskRecords]
      BY <2>2, <2>3 DEF Created, AskServed
    <3> QED
      BY <2>3, <3>1, <3>2, CacheTypes DEF Created, PageTypes, serverVars
  <2>4. CASE Appended(r)
    <3>1. stream' \in {"none", "opening", "open"}
      BY <2>4, StreamTypes DEF Appended
    <3>2. ask[r].transcript \in Seq(Kinds) /\ ask' \in [Requests -> AskRecords]
      BY <2>2, <2>4, Stages DEF Appended, AskServed
    <3>3. cached' \in [known : BOOLEAN, transcript : Seq(Kinds), ok : BOOLEAN, invalid : BOOLEAN]
      BY <2>4, <3>2, CacheTypes DEF Appended
    <3>4. overtaken' \in BOOLEAN
      BY <2>4 DEF Appended
    <3> QED
      BY <2>4, <3>1, <3>2, <3>3, <3>4 DEF Appended, PageTypes, serverVars
  <2>5. CASE AskRefused(r)
    <3>1. ask' \in [Requests -> AskRecords]
      BY <2>2, <2>5 DEF AskRefused, AskServed
    <3> QED
      BY <2>5, <3>1 DEF AskRefused, PageTypes, serverVars, cacheVars
  <2> QED
    BY <2>1, <2>3, <2>4, <2>5
<1>4. CASE Streaming
  <2>1. CASE StreamOpened
    <3>1. Append(transcript, "pending") \in Seq(Kinds)
      BY Added DEF PageTypes, Kinds
    <3>2. /\ transcript' \in Seq(Kinds) /\ stream' \in {"none", "opening", "open"}
          /\ task' \in {"none", "working", "told"}
      BY <2>1, <3>1 DEF StreamOpened, PageTypes
    <3> QED
      BY <2>1, <3>2 DEF StreamOpened, PageTypes, cacheVars
  <2>2. CASE Settled
    <3>1. transcript' \in Seq(Kinds)
      BY <2>2, SettledTranscript DEF Settled, PageTypes
    <3> QED
      BY <2>2, <3>1 DEF Settled, PageTypes, cacheVars
  <2>3. CASE FinalEvent
    BY <2>3, CacheTypes DEF FinalEvent, PageTypes
  <2>4. CASE TaskForgotten
    BY <2>4 DEF TaskForgotten, PageTypes, cacheVars
  <2> QED
    BY <1>4, <2>1, <2>2, <2>3, <2>4 DEF Streaming
<1>5. CASE Suggesting
  <2> SUFFICES ASSUME NEW n, SuggestRead(n) \/ SuggestWritten(n) \/ SuggestDropped(n)
               PROVE  PageTypes'
    BY <1>5 DEF Suggesting
  <2>1. CASE SuggestWritten(n)
    BY <2>1, RowTypes DEF SuggestWritten, PageTypes, cacheVars
  <2>2. CASE SuggestRead(n) \/ SuggestDropped(n)
    BY <2>2 DEF SuggestRead, SuggestDropped, PageTypes, serverVars, cacheVars
  <2> QED
    BY <2>1, <2>2
<1>6. CASE Editing
  <2>1. CASE Renamed
    BY <2>1, RowTypes DEF Renamed, PageTypes, cacheVars
  <2>2. CASE Deleted
    <3>1. transcript' \in Seq(Kinds)
      BY <2>2, EmptySeq DEF Deleted
    <3> QED
      BY <2>2, <3>1 DEF Deleted, PageTypes, cacheVars
  <2>3. CASE DeletionAnswered
    <3>1. /\ cached' = Nothing /\ fetch' = Idle /\ overtaken' = FALSE
          /\ place' \in {place, "new"} /\ ask' \in {ask, LeftBehind}
          /\ UNCHANGED <<transcript, missed, row, stream, task>>
      BY <2>3 DEF DeletionAnswered, serverVars
    <3>2. cached' \in [known : BOOLEAN, transcript : Seq(Kinds), ok : BOOLEAN, invalid : BOOLEAN]
      BY <3>1, CacheTypes
    <3>3. /\ place' \in {"new", "chat", "elsewhere"} /\ overtaken' \in BOOLEAN
          /\ ask' \in [Requests -> AskRecords]
      BY <3>1, LeftBehindIs DEF PageTypes
    <3>4. fetch' \in {Idle, Asked, [stage |-> "missing"]}
      BY <3>1
    <3> QED
      BY <3>1, <3>2, <3>3, <3>4 DEF PageTypes
  <2> QED
    BY <1>6, <2>1, <2>2, <2>3 DEF Editing
<1>7. CASE Mishap
  <2>1. ask' \in [Requests -> AskRecords]
    BY <1>7, OneAskChanges, NoAskIs DEF Mishap, FetchFails, AskFails, LoseStream, EditFails, PageTypes
  <2> QED
    BY <1>7, <2>1, CacheTypes
    DEF Mishap, FetchFails, AskFails, LoseStream, EditFails, PageTypes, serverVars, cacheVars
<1>8. CASE UNCHANGED vars
  BY <1>8 DEF vars, PageTypes
<1> QED
  BY <1>1, <1>2, <1>3, <1>4, <1>5, <1>6, <1>7, <1>8 DEF Next

-----------------------------------------------------------------------------
(* What holds whatever was missed: the conversation's life.                *)

Creating(r) == ask[r].stage = "sent" /\ ask[r].to = "new"
Stored(r) == ask[r].stage = "stored" /\ ask[r].to = "chat"

BeforeItIsThere ==
  row = "none" =>
    /\ ~cached.known /\ ~cached.invalid /\ fetch = Idle /\ stream = "none" /\ place # "chat"
    /\ task = "none" /\ edit = "none"
    /\ \A r \in Requests : ask[r].to = "new" /\ ask[r].stage # "stored"

\* The conversation is created once.
CreatedOnce ==
  /\ \A r \in Requests : Creating(r) => row # "there"
  /\ \A r, q \in Requests : Creating(r) /\ Creating(q) => r = q

Life ==
  /\ row # "there" => transcript = <<>>
  /\ BeforeItIsThere
  /\ CreatedOnce
  /\ fetch.stage = "missing" => row = "deleted"
  /\ edit = "deleted" => row = "deleted"
  /\ \A r \in Requests : Stored(r) => EndsWith(ask[r].transcript, {"question"})

\* What is said of the questions under way stays true when only their panel is left.
LEMMA AsksOfLife ==
  ASSUME Life, AsksStay \/ ask' = ask, row' = row
  PROVE  /\ CreatedOnce'
         /\ \A r \in Requests : ask'[r].stage = ask[r].stage /\ ask'[r].to = ask[r].to
         /\ \A r \in Requests : Stored(r)' => EndsWith(ask'[r].transcript, {"question"})
  BY DEF Life, CreatedOnce, Creating, Stored, AsksStay

\* One question under way is dropped, or goes out.
LEMMA OneAskOfLife ==
  ASSUME PageTypes, Life, NEW r \in Requests, NEW a \in AskRecords, ask' = [ask EXCEPT ![r] = a],
         row' = row, a.stage \notin {"sent", "stored"}, a.to = "new"
  PROVE  /\ CreatedOnce'
         /\ \A q \in Requests : ask'[q].stage = "stored" => ask[q].stage = "stored"
         /\ \A q \in Requests : ask[q].to = "new" => ask'[q].to = "new"
         /\ \A q \in Requests : Stored(q)' => EndsWith(ask'[q].transcript, {"question"})
  BY OneAskChanges DEF Life, CreatedOnce, Creating, Stored

\* Every step keeps to the order of a conversation's life.
LEMMA LifeStep ==
  ASSUME PageTypes, Life, [Next]_vars
  PROVE  Life'
<1> USE DEF Life, BeforeItIsThere
<1>0. /\ ~Nothing.known /\ ~Nothing.invalid /\ [cached EXCEPT !.ok = FALSE].known = cached.known
      /\ [cached EXCEPT !.ok = FALSE].invalid = cached.invalid
      /\ Idle.stage = "idle" /\ Asked.stage = "asked"
  BY DEF PageTypes, Nothing, Idle, Asked
<1>q. EndsWith(Append(transcript, "question"), {"question"})
  BY Added DEF PageTypes, Kinds
<1>u. ASSUME ask' = ask, row' = row
      PROVE  CreatedOnce'
  BY <1>u, AsksOfLife
<1>s. ASSUME ask' = ask
      PROVE  \A r \in Requests : Stored(r)' <=> Stored(r)
  BY <1>s DEF Stored
<1>1. CASE User
  <2>1. CASE OpenChat
    <3>1. AsksStay
      BY <2>1, LeftBehindIs DEF OpenChat
    <3>2. /\ CreatedOnce'
          /\ \A r \in Requests : ask'[r].stage = ask[r].stage /\ ask'[r].to = ask[r].to
          /\ \A r \in Requests : Stored(r)' => EndsWith(ask'[r].transcript, {"question"})
      BY <2>1, <3>1, AsksOfLife DEF OpenChat, serverVars
    <3> QED
      BY <1>0, <2>1, <3>2 DEF OpenChat, serverVars, cacheVars
  <2>2. CASE LeaveSection \/ \E p \in {"new", "elsewhere"} : OpenOther(p)
    <3>1. AsksStay
      BY <2>2, LeftBehindIs DEF OpenOther, LeaveSection
    <3>2. /\ CreatedOnce'
          /\ \A r \in Requests : ask'[r].stage = ask[r].stage /\ ask'[r].to = ask[r].to
          /\ \A r \in Requests : Stored(r)' => EndsWith(ask'[r].transcript, {"question"})
      BY <2>2, <3>1, AsksOfLife DEF OpenOther, LeaveSection, serverVars
    <3> QED
      BY <2>2, <3>2 DEF OpenOther, LeaveSection, serverVars, cacheVars
  <2>3. CASE Reload
    <3>1. \A r \in Requests : /\ ask'[r].stage # "stored"
                              /\ Creating(r)' => Creating(r)
                              /\ ask[r].to = "new" => ask'[r].to = "new"
      BY <2>3, NoAskIs DEF Reload, Creating
    <3>2. UNCHANGED <<row, transcript, task, place>> /\ cached' = Nothing /\ stream' = "none"
          /\ (place # "chat" => fetch' = Idle) /\ fetch' \in {Asked, Idle}
          /\ (edit = "none" => edit' = "none") /\ edit' # "deleted"
      BY <2>3 DEF Reload, serverVars
    <3> QED
      BY <1>0, <3>1, <3>2 DEF CreatedOnce, Stored
  <2>5. CASE Refetch
    BY <1>0, <1>u, <1>s, <2>5 DEF Refetch, serverVars, cacheVars
  <2>6. CASE Send
    <3>1. UNCHANGED <<row, transcript, task, place, cached, fetch, stream, edit>>
      BY <2>6 DEF Send, serverVars, cacheVars
    <3>2. PICK r \in Requests :
            ask' = [ask EXCEPT ![r] = [stage |-> "sent", to |-> place, by |-> "shown",
                                       transcript |-> <<>>]]
      BY <2>6 DEF Send
    <3>3. /\ ask'[r].stage = "sent" /\ ask'[r].to = place
          /\ \A q \in Requests : q # r => ask'[q] = ask[q]
      BY <3>2 DEF PageTypes
    <3>4. place = "new" => row = "none" /\ \A q \in Requests : ~Creating(q)
      BY <2>6 DEF Send, Creating
    <3>5. CreatedOnce'
      BY <3>1, <3>3, <3>4 DEF CreatedOnce, Creating
    <3>6. \A q \in Requests : Stored(q)' => Stored(q) /\ ask'[q] = ask[q]
      BY <3>3 DEF Stored
    <3>7. row = "none" =>
            \A q \in Requests : ask'[q].to = "new" /\ ask'[q].stage # "stored"
      BY <2>6, <3>3 DEF Send, ComposerEnabled
    <3> QED
      BY <3>1, <3>5, <3>6, <3>7
  <2>7. CASE \/ Type \/ PickFollowUp
             \/ (\E request \in {"renaming", "deleting"} : Confirm(request))
    BY <1>u, <1>s, <2>7 DEF Type, PickFollowUp, Confirm, serverVars, cacheVars
  <2> QED
    BY <1>1, <2>1, <2>2, <2>3, <2>5, <2>6, <2>7 DEF User
<1>2. CASE Fetching
  <2>1. CASE FetchServed
    <3>1. fetch # Idle /\ (row # "there" => row = "deleted") /\ row' = row
          /\ (fetch' = [stage |-> "missing"] \/ fetch'.stage = "served")
          /\ (row = "there" => fetch'.stage = "served")
          /\ UNCHANGED <<transcript, task, place, cached, ask, stream, edit>>
      BY <1>0, <2>1 DEF FetchServed, serverVars, cacheVars, PageTypes
    <3> QED
      BY <1>u, <1>s, <3>1
  <2>2. CASE FetchAnswered
    BY <1>0, <1>u, <1>s, <2>2 DEF FetchAnswered, serverVars
  <2>3. CASE FetchNotFound
    <3>1. AsksStay \/ ask' = ask
      BY <2>3, LeftBehindIs DEF FetchNotFound
    <3>2. /\ CreatedOnce'
          /\ \A r \in Requests : ask'[r].stage = ask[r].stage /\ ask'[r].to = ask[r].to
          /\ \A r \in Requests : Stored(r)' => EndsWith(ask'[r].transcript, {"question"})
      BY <2>3, <3>1, AsksOfLife DEF FetchNotFound, serverVars
    <3> QED
      BY <1>0, <2>3, <3>2 DEF FetchNotFound, serverVars
  <2> QED
    BY <1>2, <2>1, <2>2, <2>3 DEF Fetching
<1>3. CASE Asking
  <2> SUFFICES ASSUME NEW r \in Requests,
                      AskServed(r) \/ Created(r) \/ Appended(r) \/ AskRefused(r)
               PROVE  Life'
    BY <1>3 DEF Asking
  <2>1. CASE AskServed(r)
    <3> DEFINE asked == Append(transcript, "question")
    <3>1. /\ ask[r].stage = "sent" /\ ask[r].to \in {"new", "chat"}
          /\ ask[r].to = "new" => Creating(r)
          /\ UNCHANGED <<task, place, cached, fetch, stream, edit>>
      BY <2>1, Stages DEF AskServed, Creating, cacheVars
    <3>2. /\ ask'[r].stage \in {"idle", "stored", "refused"}
          /\ ask'[r].stage = "stored" => row' = "there"
          /\ ask[r].to = "new" => ask'[r].to = "new"
          /\ Stored(r)' => ask'[r].transcript = asked
          /\ \A q \in Requests : q # r => ask'[q] = ask[q]
      BY <2>1, NoAskIs DEF AskServed, Stored, PageTypes, AskRecords
    <3>3. \A q \in Requests : Stored(q)' => EndsWith(ask'[q].transcript, {"question"})
      BY <1>q, <3>2 DEF Stored
    <3>4. CASE UNCHANGED <<row, transcript>>
      <4>1. CreatedOnce'
        BY <3>2, <3>4 DEF CreatedOnce, Creating
      <4>2. row = "none" =>
              \A q \in Requests : ask'[q].to = "new" /\ ask'[q].stage # "stored"
        BY <3>2, <3>4
      <4> QED
        BY <3>1, <3>3, <3>4, <4>1, <4>2
    <3>5. CASE ~UNCHANGED <<row, transcript>>
      <4>1. row' = "there" /\ (ask[r].to = "chat" => EndsWith(transcript, {"answer"}))
            /\ (ask[r].to = "new" => row = "none")
        BY <2>1, <3>5 DEF AskServed
      <4>2. row = "there" \/ (row = "none" /\ Creating(r))
        BY <3>1, <4>1 DEF EndsWith
      <4>3. CreatedOnce'
        BY <3>2, <4>1, <4>2 DEF CreatedOnce, Creating
      <4>4. fetch.stage # "missing" /\ edit # "deleted"
        BY <1>0, <4>2
      <4> QED
        BY <3>1, <3>3, <4>1, <4>3, <4>4
    <3> QED
      BY <3>4, <3>5
  <2>2. CASE ~AskServed(r)
    <3>1. /\ ask' = [ask EXCEPT ![r] = NoAsk] /\ row' = row
          /\ CreatedOnce'
          /\ \A q \in Requests : ask'[q].stage = "stored" => ask[q].stage = "stored"
          /\ \A q \in Requests : ask[q].to = "new" => ask'[q].to = "new"
          /\ \A q \in Requests : Stored(q)' => EndsWith(ask'[q].transcript, {"question"})
      <4>1. ask' = [ask EXCEPT ![r] = NoAsk] /\ row' = row
        BY <2>2 DEF Created, Appended, AskRefused, serverVars
      <4> QED
        BY <4>1, OneAskOfLife, NoAskIs
    <3>2. CASE Created(r)
      BY <1>0, <3>1, <3>2 DEF Created, serverVars
    <3>3. CASE Appended(r)
      BY <1>0, <3>1, <3>3 DEF Appended, serverVars
    <3>4. CASE AskRefused(r)
      BY <1>0, <3>1, <3>4 DEF AskRefused, serverVars, cacheVars
    <3> QED
      BY <2>2, <3>2, <3>3, <3>4
  <2> QED
    BY <2>1, <2>2
<1>4. CASE Streaming
  <2>1. CASE StreamOpened
    BY <1>u, <1>s, <2>1 DEF StreamOpened, cacheVars, EndsWith
  <2>2. CASE Settled
    BY <1>u, <1>s, <2>2 DEF Settled, cacheVars, EndsWith
  <2>3. CASE FinalEvent
    BY <1>0, <1>u, <1>s, <2>3 DEF FinalEvent
  <2>4. CASE TaskForgotten
    BY <1>u, <1>s, <2>4 DEF TaskForgotten, cacheVars
  <2> QED
    BY <1>4, <2>1, <2>2, <2>3, <2>4 DEF Streaming
<1>5. CASE Suggesting
  <2> SUFFICES ASSUME NEW n, SuggestRead(n) \/ SuggestWritten(n) \/ SuggestDropped(n)
               PROVE  Life'
    BY <1>5 DEF Suggesting
  <2>1. /\ UNCHANGED <<row, transcript, task, place, fetch, ask, edit>>
        /\ row = "there" \/ UNCHANGED <<cached, stream>>
    BY DEF SuggestRead, SuggestWritten, SuggestDropped, serverVars, cacheVars
  <2> QED
    BY <1>u, <1>s, <2>1
<1>6. CASE Editing
  <2>1. CASE Renamed
    <3>1. /\ UNCHANGED <<row, transcript, task, place, fetch, ask>> /\ edit' = "none"
          /\ row = "there" \/ UNCHANGED <<cached, stream>>
      BY <2>1 DEF Renamed, cacheVars
    <3> QED
      BY <1>u, <1>s, <3>1
  <2>2. CASE Deleted
    <3>1. ask' = ask /\ row' = "deleted" /\ transcript' = <<>>
      BY <2>2 DEF Deleted
    <3>2. CreatedOnce'
      BY <3>1 DEF CreatedOnce, Creating
    <3> QED
      BY <1>s, <3>1, <3>2
  <2>3. CASE DeletionAnswered
    <3>1. AsksStay \/ ask' = ask
      BY <2>3, LeftBehindIs DEF DeletionAnswered
    <3>2. /\ CreatedOnce'
          /\ \A r \in Requests : ask'[r].stage = ask[r].stage /\ ask'[r].to = ask[r].to
          /\ \A r \in Requests : Stored(r)' => EndsWith(ask'[r].transcript, {"question"})
      BY <2>3, <3>1, AsksOfLife DEF DeletionAnswered, serverVars
    <3> QED
      BY <1>0, <2>3, <3>2 DEF DeletionAnswered, serverVars
  <2> QED
    BY <1>6, <2>1, <2>2, <2>3 DEF Editing
<1>7. CASE Mishap
  <2>1. CASE FetchFails \/ LoseStream \/ EditFails
    BY <1>0, <1>u, <1>s, <2>1 DEF FetchFails, LoseStream, EditFails, serverVars, cacheVars
  <2>2. ASSUME NEW r \in Requests, AskFails(r)
        PROVE  Life'
    <3>1. /\ CreatedOnce'
          /\ \A q \in Requests : ask'[q].stage = "stored" => ask[q].stage = "stored"
          /\ \A q \in Requests : ask[q].to = "new" => ask'[q].to = "new"
          /\ \A q \in Requests : Stored(q)' => EndsWith(ask'[q].transcript, {"question"})
      <4>1. ask' = [ask EXCEPT ![r] = NoAsk] /\ row' = row
        BY <2>2 DEF AskFails, serverVars
      <4> QED
        BY <4>1, OneAskOfLife, NoAskIs
    <3> QED
      BY <2>2, <3>1 DEF AskFails, serverVars, cacheVars
  <2> QED
    BY <1>7, <2>1, <2>2 DEF Mishap
<1>8. CASE UNCHANGED vars
  BY <1>u, <1>s, <1>8 DEF vars
<1> QED
  BY <1>1, <1>2, <1>3, <1>4, <1>5, <1>6, <1>7, <1>8 DEF Next

-----------------------------------------------------------------------------
(* What holds unless news was missed.                                      *)

AtQuestion == EndsWith(transcript, {"question"})
AtPending == EndsWith(transcript, {"pending"})
AtAnswer == EndsWith(transcript, {"answer"})
Served == fetch.stage = "served"
AppendStored == \E r \in Requests : Stored(r)
Question(c) == c.known /\ EndsWith(c.transcript, {"question"})

\* A pending answer, seen or not, is one whose stream the page reads.
PendingWatched ==
  /\ AtPending => stream = "open" /\ task = "working"
  /\ Served /\ EndsWith(fetch.transcript, {"pending"}) => stream = "open"
  /\ cached.known /\ ~cached.invalid /\ EndsWith(cached.transcript, {"pending"}) =>
       stream = "open" \/ overtaken

\* No page was loaded again while a question was under way.
NoneGone == \A r \in Requests : ask[r].by = "gone" => ask[r].stage = "idle"

LoadingAsked == place = "chat" /\ ~cached.known => fetch # Idle

\* Whatever the page or a request holds was the transcript once.
Snapshots ==
  /\ TurnsTaken(transcript) /\ transcript # <<>>
  /\ cached.known => Snapshot(cached.transcript, transcript)
  /\ Served => Snapshot(fetch.transcript, transcript)
  /\ \A r \in Requests : Stored(r) => /\ Snapshot(ask[r].transcript, transcript)
                                      /\ SameTurn(ask[r].transcript, transcript)
                                      /\ EndsWith(ask[r].transcript, {"question"})

TaskKnown ==
  /\ task = "told" => stream = "open" /\ AtAnswer
  /\ task = "working" => AtPending
  /\ stream = "open" => task # "none"
  /\ AtQuestion => ai = "live"

\* A follow-up is sent to a conversation that takes it, and no second one beside it.
FollowUps ==
  /\ cached.known => cached.ok
  /\ \A r, q \in Requests : Appending(r) /\ Appending(q) => r = q
  /\ \A r \in Requests : ask[r].stage = "sent" /\ ask[r].to = "chat" =>
       cached.known /\ ~Question(cached) /\ AtAnswer /\ stream = "none"

\* A question without its answer is the last one; a request that brings one was served in its
\* turn, before the final event.
QuestionsCurrent ==
  /\ Question(cached) => SameTurn(cached.transcript, transcript)
  /\ Served /\ ~EndsWith(fetch.transcript, {"answer"}) =>
       SameTurn(fetch.transcript, transcript) /\ (AtAnswer => task = "told")

\* The cache has the last question, or was overtaken and will be told again or be known to be.
CacheCovers ==
  ~AppendStored =>
    \/ cached.known /\ SameTurn(cached.transcript, transcript)
    \/ /\ cached.known => overtaken
       /\ Served => \/ SameTurn(fetch.transcript, transcript)
                    \/ cached.known /\ Older(fetch.transcript, cached.transcript)

\* While a follow-up's answer is on its way the cache may have learnt of it from a request.
AppendCovers ==
  AppendStored =>
    /\ cached.known
    /\ stream # "none" \/ ~AtQuestion => SameTurn(cached.transcript, transcript)
    /\ SameTurn(cached.transcript, transcript) =>
         (Served => ~Older(fetch.transcript, cached.transcript))

\* A question shown without an answer has its stream, or a request that brings the answer.
Waiting ==
  /\ place = "chat" /\ Question(cached) /\ AtQuestion => stream # "none"
  /\ place = "chat" /\ Question(cached) /\ AtAnswer /\ stream = "none" => fetch # Idle \/ overtaken
  /\ Question(cached) /\ AtAnswer /\ stream = "none" => cached.invalid \/ overtaken
  /\ Question(cached) /\ AtAnswer /\ stream = "opening" =>
       overtaken \/ (cached.invalid /\ (place = "chat" => fetch # Idle))

Current == /\ Snapshots /\ TaskKnown /\ FollowUps /\ QuestionsCurrent /\ CacheCovers
           /\ AppendCovers /\ Waiting

Promises == PendingWatched /\ NoneGone /\ LoadingAsked /\ (row = "there" => Current)


\* What the parts above are made of.
LEMMA StagesDiffer == Idle.stage = "idle" /\ Asked.stage = "asked"
  BY DEF Idle, Asked

\* The conversation is opened: an unanswered question starts its stream, and what is out of date
\* is asked for.
LEMMA OpenChatKeeps ==
  ASSUME PageTypes, Life, Promises, ~missed', OpenChat
  PROVE  Promises'
<1> USE DEF AtQuestion, AtPending, AtAnswer, Served, AppendStored, Stored, Appending, Question, AsksStay
<1>0. AsksStay
  BY LeftBehindIs DEF OpenChat
<1>1. /\ UNCHANGED <<row, transcript, task, ai, cached, overtaken>>
      /\ fetch' = fetch \/ fetch' = Asked \/ fetch' = Idle
      /\ fetch # Idle => fetch' = fetch
      /\ ~cached.known \/ cached.invalid => fetch' # Idle
      /\ ~missed /\ place' = "chat" /\ place # "chat" /\ row # "none"
  BY StagesDiffer DEF OpenChat, serverVars, cacheVars
<1>2. Served' => fetch' = fetch
  BY <1>1, StagesDiffer
<1>3. /\ stream' = stream \/ (stream = "none" /\ stream' = "opening" /\ Question(cached))
      /\ Question(cached) /\ cached.ok => stream' # "none"
  BY <1>1 DEF OpenChat, Effect, StartStream, ShouldRun
<1>4. PendingWatched' /\ NoneGone' /\ LoadingAsked'
  BY <1>0, <1>1, <1>2, <1>3 DEF Promises, PendingWatched, NoneGone, LoadingAsked
<1> SUFFICES ASSUME row = "there", Current
             PROVE  Current'
  BY <1>1, <1>4 DEF Promises
<1>5. Snapshots' /\ TaskKnown' /\ FollowUps'
  BY <1>0, <1>1, <1>2, <1>3 DEF Current, Snapshots, TaskKnown, FollowUps
<1>6. QuestionsCurrent' /\ CacheCovers'
  BY <1>0, <1>1, <1>2 DEF Current, QuestionsCurrent, CacheCovers
<1>7. AppendCovers'
  BY <1>0, <1>1, <1>2, <1>3 DEF Current, QuestionsCurrent, AppendCovers
<1>8. Waiting'
  <2>1. cached.known => cached.ok
    BY DEF Current, FollowUps
  <2> QED
    BY <1>1, <1>3, <2>1 DEF Current, Waiting
<1> QED
  BY <1>4, <1>5, <1>6, <1>7, <1>8 DEF Current, Promises

\* Moving elsewhere, a reload, and an answer refused take nothing back.
LEMMA QuietStepKeeps ==
  ASSUME PageTypes, Life, Promises, ~missed',
         \/ \E p \in {"new", "elsewhere"} : OpenOther(p)
         \/ LeaveSection \/ Reload \/ Refetch \/ TaskForgotten
         \/ \E r \in Requests : AskRefused(r)
  PROVE  Promises'
<1> USE DEF AtQuestion, AtPending, AtAnswer, Served, AppendStored, Stored, Appending, Question
<1>1. ~missed
  BY DEF OpenOther, LeaveSection, Reload, Refetch, AskRefused, TaskForgotten
<1>2. CASE \/ \E p \in {"new", "elsewhere"} : OpenOther(p)
           \/ LeaveSection \/ Refetch \/ \E r \in Requests : AskRefused(r)
  <2>1. /\ UNCHANGED <<row, transcript, task, ai, cached, overtaken, stream>>
        /\ place' = place \/ place' # "chat"
        /\ fetch' = fetch \/ (fetch' = Asked /\ cached.known)
        /\ ask' = ask \/ AsksStay \/ \E r \in Requests : ask[r].stage = "refused"
                                                   /\ ask' = [ask EXCEPT ![r] = NoAsk]
    BY <1>1, <1>2, LeftBehindIs DEF OpenOther, LeaveSection, Refetch, AskRefused, serverVars, cacheVars
  <2>2. /\ Served' => Served /\ fetch' = fetch
        /\ fetch' = Idle => fetch = Idle
    BY <2>1, StagesDiffer
  <2>q. /\ \A r \in Requests : Stored(r)' <=> Stored(r)
        /\ \A r \in Requests : ask'[r].stage # "idle" =>
             /\ ask'[r].stage = ask[r].stage /\ ask'[r].to = ask[r].to
             /\ ask'[r].transcript = ask[r].transcript
             /\ ask'[r].by = "gone" => ask[r].by = "gone"
    <3>1. CASE ask' = ask
      BY <3>1
    <3>2. CASE AsksStay
      BY <3>2 DEF AsksStay
    <3>3. ASSUME NEW q \in Requests, ask[q].stage = "refused", ask' = [ask EXCEPT ![q] = NoAsk]
          PROVE  \A r \in Requests :
                   /\ Stored(r)' <=> Stored(r)
                   /\ ask'[r].stage # "idle" => ask'[r] = ask[r]
      BY <3>3, OneAskChanges, NoAskIs
    <3> QED
      BY <2>1, <3>1, <3>2, <3>3
  <2>3. PendingWatched' /\ NoneGone' /\ LoadingAsked'
    BY <2>1, <2>2, <2>q DEF Promises, PendingWatched, NoneGone, LoadingAsked
  <2> SUFFICES ASSUME row = "there", Current
               PROVE  Current'
    BY <2>1, <2>3 DEF Promises
  <2>4. Snapshots' /\ TaskKnown' /\ FollowUps' /\ QuestionsCurrent'
    BY <2>1, <2>2, <2>q DEF Current, Snapshots, TaskKnown, FollowUps, QuestionsCurrent
  <2>5. CacheCovers' /\ AppendCovers' /\ Waiting'
    BY <2>1, <2>2, <2>q DEF Current, CacheCovers, AppendCovers, Waiting
  <2> QED
    BY <2>3, <2>4, <2>5 DEF Current, Promises
<1>3. CASE Reload
  <2>1. /\ UNCHANGED <<row, transcript, task, ai, place>>
        /\ ~cached'.known /\ stream' = "none" /\ stream = "none"
        /\ fetch' = IF place = "chat" THEN Asked ELSE Idle
    BY <1>3 DEF Reload, Nothing, serverVars
  <2>2. ~Served' /\ (place' = "chat" => fetch' # Idle) /\ \A r \in Requests : ask'[r].stage = "idle"
    BY <1>3, <2>1, StagesDiffer, NoAskIs DEF Reload
  <2>3. PendingWatched' /\ NoneGone' /\ LoadingAsked'
    BY <2>1, <2>2 DEF Promises, PendingWatched, NoneGone, LoadingAsked
  <2> SUFFICES ASSUME row = "there", Current
               PROVE  Current'
    BY <2>1, <2>3 DEF Promises
  <2>4. Snapshots' /\ TaskKnown' /\ FollowUps' /\ QuestionsCurrent'
    BY <2>1, <2>2 DEF Current, Snapshots, TaskKnown, FollowUps, QuestionsCurrent
  <2>5. CacheCovers' /\ AppendCovers' /\ Waiting'
    BY <2>1, <2>2 DEF CacheCovers, AppendCovers, Waiting
  <2> QED
    BY <2>3, <2>4, <2>5 DEF Current, Promises
<1>4. CASE TaskForgotten
  <2>1. row # "there"
    BY <1>4 DEF TaskForgotten, Promises, Current, TaskKnown
  <2>2. /\ UNCHANGED <<row, transcript, place, cached, overtaken, fetch, ask, stream>>
        /\ transcript = <<>>
    BY <1>4, <2>1 DEF TaskForgotten, Life, cacheVars
  <2> QED
    BY <2>1, <2>2, Endings DEF PageTypes, Promises, PendingWatched, NoneGone, LoadingAsked
<1> QED
  BY <1>2, <1>3, <1>4

\* The request is served: what it brings is the transcript.
LEMMA FetchServedKeeps ==
  ASSUME PageTypes, Life, Promises, ~missed', FetchServed
  PROVE  Promises'
<1> USE DEF AtQuestion, AtPending, AtAnswer, Served, AppendStored, Stored, Appending, Question
<1>1. /\ UNCHANGED <<row, transcript, task, ai, place, cached, overtaken, ask, stream>>
      /\ ~missed /\ fetch' # Idle
      /\ row = "there" => Served' /\ fetch'.transcript = transcript
      /\ row # "there" => ~Served'
  BY StagesDiffer DEF FetchServed, serverVars, cacheVars
<1>2. PendingWatched' /\ NoneGone' /\ LoadingAsked'
  BY <1>1 DEF Promises, PendingWatched, NoneGone, LoadingAsked
<1> SUFFICES ASSUME row = "there", Current
             PROVE  Current'
  BY <1>1, <1>2 DEF Promises
<1>3. transcript \in Seq(Kinds) /\ transcript # <<>>
      /\ Snapshot(transcript, transcript) /\ SameTurn(transcript, transcript)
  BY SnapshotOfItself DEF Current, Snapshots, PageTypes
<1>4. Snapshots' /\ TaskKnown' /\ FollowUps'
  BY <1>1, <1>3 DEF Current, Snapshots, TaskKnown, FollowUps
<1>5. QuestionsCurrent' /\ CacheCovers' /\ Waiting'
  BY <1>1, <1>3 DEF Current, QuestionsCurrent, CacheCovers, Waiting
<1>6. AppendCovers'
  <2> SUFFICES ASSUME AppendStored, SameTurn(cached.transcript, transcript)
               PROVE  ~Older(transcript, cached.transcript)
    BY <1>1 DEF Current, AppendCovers
  <2>1. cached.known /\ cached.transcript \in Seq(Kinds) /\ Snapshot(cached.transcript, transcript)
    BY DEF Current, AppendCovers, Snapshots, PageTypes
  <2>2. TurnsTaken(transcript)
    BY DEF Current, Snapshots
  <2> QED
    BY <1>3, <2>1, <2>2, NoneIsNewer
<1> QED
  BY <1>2, <1>4, <1>5, <1>6 DEF Current, Promises

\* The request is answered.
LEMMA FetchAnsweredKeeps ==
  ASSUME PageTypes, Life, Promises, ~missed', FetchAnswered
  PROVE  Promises'
<1> USE DEF AtQuestion, AtPending, AtAnswer, Served, AppendStored, Stored, Appending, Question
<1>1. /\ UNCHANGED <<row, transcript, task, ai, place, ask>>
      /\ ~missed /\ Served /\ fetch' = Idle /\ ~Served' /\ fetch.transcript \in Seq(Kinds)
      /\ cached'.known /\ cached'.ok /\ ~cached'.invalid /\ cached'.transcript = fetch.transcript
      /\ overtaken' = (cached.known /\ Older(fetch.transcript, cached.transcript))
  BY StagesDiffer, Stages DEF FetchAnswered, Fresh, serverVars
<1>2. /\ stream' = stream \/ (stream = "none" /\ stream' = "opening" /\ Question(cached'))
      /\ Question(cached') /\ place = "chat" =>
           stream' # "none" \/ Question(cached)
  BY <1>1 DEF FetchAnswered, Effect, StartStream, ShouldRun
<1>3. PendingWatched' /\ NoneGone' /\ LoadingAsked'
  BY <1>1, <1>2 DEF Promises, PendingWatched, NoneGone, LoadingAsked
<1> SUFFICES ASSUME row = "there", Current
             PROVE  Current'
  BY <1>1, <1>3 DEF Promises
<1>4. /\ transcript \in Seq(Kinds) /\ TurnsTaken(transcript)
      /\ Snapshot(fetch.transcript, transcript)
      /\ cached.known => cached.transcript \in Seq(Kinds) /\ Snapshot(cached.transcript, transcript)
  BY <1>1 DEF Current, Snapshots, PageTypes
<1>5. Question(cached') =>
        SameTurn(fetch.transcript, transcript) /\ (AtAnswer => task = "told")
  BY <1>1, Endings DEF Current, QuestionsCurrent
<1>6. AtAnswer /\ task # "told" => EndsWith(fetch.transcript, {"answer"}) /\ ~Question(cached')
  BY <1>1, Endings DEF Current, QuestionsCurrent
<1>7. AtAnswer /\ stream = "none" => ~Question(cached')
  BY <1>6 DEF Current, TaskKnown
<1>8. Snapshots' /\ TaskKnown'
  BY <1>1, <1>2 DEF Current, Snapshots, TaskKnown
<1>9. FollowUps'
  <2>1. ASSUME NEW r \in Requests, ask[r].stage = "sent", ask[r].to = "chat"
        PROVE  ~Question(cached') /\ AtAnswer /\ stream' = "none"
    <3>1. AtAnswer /\ stream = "none"
      BY <2>1 DEF Current, FollowUps
    <3>2. ~Question(cached')
      BY <1>7, <3>1
    <3> QED
      BY <1>2, <3>1, <3>2
  <2> QED
    BY <1>1, <2>1 DEF Current, FollowUps
<1>10. QuestionsCurrent'
  BY <1>1, <1>5 DEF QuestionsCurrent
<1>11. CacheCovers'
  <2> SUFFICES ASSUME ~AppendStored, ~SameTurn(fetch.transcript, transcript)
               PROVE  overtaken'
    BY <1>1 DEF CacheCovers
  <2>1. CASE cached.known /\ SameTurn(cached.transcript, transcript)
    BY <1>1, <1>4, <2>1, NotOlderIsSameTurn
  <2>2. CASE ~(cached.known /\ SameTurn(cached.transcript, transcript))
    BY <1>1, <2>2 DEF Current, CacheCovers
  <2> QED
    BY <2>1, <2>2
<1>12. AppendCovers'
  <2> SUFFICES ASSUME AppendStored
               PROVE  /\ stream' # "none" \/ ~AtQuestion => SameTurn(fetch.transcript, transcript)
                      /\ SameTurn(fetch.transcript, transcript) => ~overtaken'
    BY <1>1 DEF AppendCovers
  <2>1. CASE SameTurn(cached.transcript, transcript)
    <3>1. cached.known /\ ~Older(fetch.transcript, cached.transcript)
      BY <1>1, <2>1 DEF Current, AppendCovers
    <3> QED
      BY <1>1, <1>4, <2>1, <3>1, NotOlderIsSameTurn
  <2>2. CASE ~SameTurn(cached.transcript, transcript)
    <3>1. cached.known /\ stream = "none" /\ AtQuestion
      BY <2>2 DEF Current, AppendCovers
    <3>2. stream' # "none" => SameTurn(fetch.transcript, transcript)
      BY <1>2, <1>5, <3>1
    <3>3. SameTurn(fetch.transcript, transcript) => ~Older(fetch.transcript, cached.transcript)
      BY <1>1, <1>4, <2>2, <3>1, SameTurnIsNotOlder
    <3> QED
      BY <1>1, <3>1, <3>2, <3>3
  <2> QED
    BY <2>1, <2>2
<1>13. Waiting'
  <2>1. AtAnswer /\ task = "told" => stream = "open"
    BY DEF Current, TaskKnown
  <2>2. AtAnswer /\ Question(cached') => stream' = "open"
    BY <1>2, <1>6, <2>1
  <2>3. AtQuestion /\ place = "chat" /\ Question(cached) => stream # "none"
    BY DEF Current, Waiting
  <2> QED
    BY <1>1, <1>2, <2>2, <2>3 DEF Waiting
<1> QED
  BY <1>3, <1>8, <1>9, <1>10, <1>11, <1>12, <1>13 DEF Current, Promises

\* A conversation that is not found was deleted.
LEMMA NotFoundKeeps ==
  ASSUME PageTypes, Life, Promises, ~missed', FetchNotFound
  PROVE  Promises'
<1>1. /\ row = "deleted" /\ UNCHANGED <<row, transcript, task, stream, overtaken>> /\ ~missed
      /\ place' # "chat" /\ fetch' = Idle
  BY DEF FetchNotFound, Life, serverVars, PageTypes
<1>2. /\ cached'.known = cached.known /\ cached'.invalid = cached.invalid
      /\ cached'.transcript = cached.transcript
  BY DEF FetchNotFound, PageTypes
<1>3. ask' = ask \/ AsksStay
  BY LeftBehindIs DEF FetchNotFound
<1>4. NoneGone'
  BY <1>3 DEF Promises, NoneGone, AsksStay
<1> QED
  BY <1>1, <1>2, <1>4, StagesDiffer DEF Promises, PendingWatched, LoadingAsked, AtPending, Served

\* The question reaches the server, which takes it when every question before it is answered.
LEMMA AskServedKeeps ==
  ASSUME PageTypes, Life, Promises, ~missed', NEW r \in Requests, AskServed(r)
  PROVE  Promises'
<1> USE DEF AtQuestion, AtPending, AtAnswer, Served, AppendStored, Stored, Appending, Question
<1> DEFINE asked == Append(transcript, "question")
           by(q) == ask'[q].by = "gone" => ask[q].by = "gone"
<1>1. UNCHANGED <<task, ai, place, cached, overtaken, fetch, stream, missed>>
  BY DEF AskServed, cacheVars
<1>2. ask[r].stage = "sent" /\ ask[r].by # "gone" /\ ask[r].to \in {"new", "chat"}
  BY Stages DEF AskServed, Promises, NoneGone
<1>3. \A q \in Requests : q # r => ask'[q] = ask[q]
  BY DEF AskServed, PageTypes
<1>4. CASE ask'[r].stage = "refused" /\ ask'[r].by = ask[r].by /\ UNCHANGED <<row, transcript>>
  <2>1. \A q \in Requests : /\ Stored(q)' <=> Stored(q)
                            /\ Appending(q)' => Appending(q)
                            /\ ask'[q].stage = "refused" \/ ask'[q] = ask[q]
                            /\ ask'[q].stage = "idle" <=> ask[q].stage = "idle"
                            /\ ask'[q].by = ask[q].by
    BY <1>2, <1>3, <1>4
  <2>2. PendingWatched' /\ NoneGone' /\ LoadingAsked'
    BY <1>1, <1>2, <1>4, <2>1 DEF Promises, PendingWatched, NoneGone, LoadingAsked
  <2> SUFFICES ASSUME row = "there", Current
               PROVE  Current'
    BY <1>4, <2>2 DEF Promises
  <2>3. Snapshots' /\ TaskKnown' /\ FollowUps' /\ QuestionsCurrent'
    BY <1>1, <1>4, <2>1 DEF Current, Snapshots, TaskKnown, FollowUps, QuestionsCurrent
  <2>4. CacheCovers' /\ AppendCovers' /\ Waiting'
    BY <1>1, <1>4, <2>1 DEF Current, CacheCovers, AppendCovers, Waiting
  <2> QED
    BY <2>2, <2>3, <2>4 DEF Current, Promises
<1>5. CASE /\ ask'[r].stage = "stored" /\ ask'[r].to = ask[r].to /\ ask'[r].by = ask[r].by
           /\ ask'[r].transcript = IF ask[r].to = "new" THEN <<>> ELSE asked
           /\ row' = "there" /\ transcript' = asked /\ ai = "live"
           /\ IF ask[r].to = "new" THEN row = "none" ELSE AtAnswer
  <2>1. /\ asked \in Seq(Kinds) /\ asked # <<>> /\ EndsWith(asked, {"question"})
        /\ Len(asked) = Len(transcript) + 1
        /\ Snapshot(asked, asked) /\ SameTurn(asked, asked)
        /\ ~EndsWith(asked, {"pending"}) /\ ~EndsWith(asked, {"answer"})
    BY Added, SnapshotOfItself, Endings DEF PageTypes, Kinds
  <2>2. NoneGone'
    BY <1>2, <1>3, <1>5 DEF Promises, NoneGone
  <2>3. PendingWatched' /\ LoadingAsked'
    BY <1>1, <1>5, <2>1 DEF Promises, PendingWatched, LoadingAsked
  <2> HIDE DEF asked
  <2>4. CASE ask[r].to = "new"
    <3>1. /\ transcript = <<>> /\ ~cached.known /\ ~Served /\ stream = "none"
          /\ task = "none" /\ place # "chat" /\ \A q \in Requests : ask[q].stage # "stored"
      BY <1>5, <2>4, StagesDiffer DEF Life, BeforeItIsThere
    <3>2. TurnsTaken(asked)
      BY <3>1, TurnsGoOn DEF PageTypes, TurnsTaken, asked
    <3>3. \A q \in Requests : ~Stored(q)'
      BY <1>3, <1>5, <2>4, <3>1
    <3>4. Snapshots' /\ TaskKnown'
      BY <1>1, <1>5, <2>1, <3>1, <3>2, <3>3 DEF Snapshots, TaskKnown
    <3>5. FollowUps'
      <4>1. \A q \in Requests : ask[q].to = "new"
        BY <1>5, <2>4 DEF Life, BeforeItIsThere
      <4>2. \A q \in Requests : ask'[q].to = "new"
        BY <1>3, <1>5, <2>4, <4>1
      <4> QED
        BY <1>1, <3>1, <4>2 DEF FollowUps
    <3>6. QuestionsCurrent' /\ CacheCovers' /\ AppendCovers' /\ Waiting'
      BY <1>1, <3>1, <3>3 DEF QuestionsCurrent, CacheCovers, AppendCovers, Waiting
    <3> QED
      BY <2>2, <2>3, <3>4, <3>5, <3>6 DEF Current, Promises
  <2>5. CASE ask[r].to # "new"
    <3>1. AtAnswer /\ row = "there" /\ Current /\ ask[r].to = "chat"
      <4>1. AtAnswer /\ transcript # <<>> /\ ask[r].to = "chat"
        BY <1>2, <1>5, <2>5 DEF EndsWith
      <4> QED
        BY <4>1 DEF Life, Promises
    <3>2. /\ cached.known /\ ~Question(cached) /\ stream = "none"
          /\ TurnsTaken(transcript) /\ Snapshot(cached.transcript, transcript)
          /\ cached.transcript \in Seq(Kinds) /\ transcript \in Seq(Kinds)
      BY <1>2, <3>1 DEF Current, FollowUps, Snapshots, PageTypes
    <3>3. TurnsTaken(asked) /\ Snapshot(cached.transcript, asked)
          /\ ~SameTurn(cached.transcript, asked)
      BY <3>1, <3>2, TurnsGoOn, SnapshotOfMore, NextTurn DEF Kinds, asked
    <3>4. Served => /\ fetch.transcript \in Seq(Kinds) /\ Snapshot(fetch.transcript, asked)
                    /\ EndsWith(fetch.transcript, {"answer"})
      <4> SUFFICES ASSUME Served
                   PROVE  /\ fetch.transcript \in Seq(Kinds) /\ Snapshot(fetch.transcript, asked)
                          /\ EndsWith(fetch.transcript, {"answer"})
        OBVIOUS
      <4>1. fetch.transcript \in Seq(Kinds) /\ Snapshot(fetch.transcript, transcript)
        BY <3>1, Stages DEF Current, Snapshots
      <4>2. task # "told"
        BY <3>1, <3>2 DEF Current, TaskKnown
      <4>3. EndsWith(fetch.transcript, {"answer"})
        BY <3>1, <4>2 DEF Current, QuestionsCurrent
      <4> QED
        BY <3>2, <4>1, <4>3, SnapshotOfMore DEF Kinds, asked
    <3>5. task = "none"
      BY <3>1, <3>2, Endings DEF Current, TaskKnown, PageTypes
    <3>6. \A q \in Requests : /\ Appending(q) => q = r
                              /\ q # r => ~Appending(q) /\ ~Appending(q)' /\ ~Stored(q)'
      BY <1>2, <1>3, <3>1 DEF Current, FollowUps
    <3>7. Snapshots'
      BY <1>1, <1>5, <2>1, <2>5, <3>2, <3>3, <3>4, <3>6 DEF Snapshots
    <3>8. TaskKnown' /\ FollowUps'
      BY <1>1, <1>5, <2>1, <3>1, <3>2, <3>5, <3>6 DEF Current, TaskKnown, FollowUps
    <3>9. AppendStored'
      BY <1>5, <3>1
    <3>10. QuestionsCurrent' /\ CacheCovers' /\ AppendCovers' /\ Waiting'
      BY <1>1, <1>5, <2>1, <3>2, <3>3, <3>4, <3>9
      DEF QuestionsCurrent, CacheCovers, AppendCovers, Waiting
    <3> QED
      BY <2>2, <2>3, <3>7, <3>8, <3>10 DEF Current, Promises
  <2> QED
    BY <2>4, <2>5
<1> QED
  <2>1. ask' = [ask EXCEPT ![r] = IF ask[r].by = "gone" THEN NoAsk ELSE ask'[r]] /\ ask[r] \in AskRecords
    BY DEF AskServed, PageTypes
  <2> QED
    BY <1>2, <1>4, <1>5, <2>1 DEF AskServed, PageTypes, AskRecords

\* The conversation is created, and asked for when it is on show.
LEMMA CreatedKeeps ==
  ASSUME PageTypes, Life, Promises, ~missed', NEW r \in Requests, Created(r)
  PROVE  Promises'
<1> USE DEF AtQuestion, AtPending, AtAnswer, Served, AppendStored, Stored, Appending, Question
<1>1. /\ UNCHANGED <<row, transcript, task, ai, overtaken, missed>>
      /\ place' = "chat" => fetch' # Idle
      /\ place' # "chat" => fetch' = fetch /\ place' = place
      /\ place = "chat" => place' = "chat"
      /\ Served' => Served /\ fetch' = fetch
  BY StagesDiffer DEF Created, serverVars
<1>2. /\ cached'.known = cached.known /\ cached'.invalid /\ cached'.ok = cached.ok
      /\ cached'.transcript = cached.transcript
  BY DEF Created, PageTypes
<1>3. /\ stream' = stream \/ (stream = "none" /\ stream' = "opening" /\ Question(cached))
      /\ place' = "chat" /\ Question(cached) /\ cached.ok =>
           stream' # "none" \/ place = "chat"
  BY <1>1 DEF Created, Effect, StartStream, ShouldRun
<1>4. \A q \in Requests : /\ Stored(q)' <=> Stored(q)
                          /\ ask'[q].stage # "idle" => ask'[q] = ask[q]
  <2>1. ask' = [ask EXCEPT ![r] = NoAsk] /\ ~Stored(r)
    BY DEF Created
  <2> QED
    BY <2>1, OneAskChanges, NoAskIs
<1>5. PendingWatched' /\ NoneGone' /\ LoadingAsked'
  BY <1>1, <1>2, <1>3, <1>4 DEF Promises, PendingWatched, NoneGone, LoadingAsked
<1> SUFFICES ASSUME row = "there", Current
             PROVE  Current'
  BY <1>1, <1>5 DEF Promises
<1>6. Snapshots' /\ TaskKnown'
  BY <1>1, <1>2, <1>3, <1>4 DEF Current, Snapshots, TaskKnown
<1>7. FollowUps'
  <2>1. \A q \in Requests : Appending(q)' => Appending(q) /\ ask'[q] = ask[q]
    BY <1>4
  <2> QED
    BY <1>1, <1>2, <1>3, <1>4, <2>1 DEF Current, FollowUps
<1>8. QuestionsCurrent' /\ CacheCovers' /\ AppendCovers'
  BY <1>1, <1>2, <1>3, <1>4 DEF Current, QuestionsCurrent, CacheCovers, AppendCovers
<1>9. Waiting'
  <2>1. cached.known => cached.ok
    BY DEF Current, FollowUps
  <2> QED
    BY <1>1, <1>2, <1>3, <2>1 DEF Current, Waiting
<1> QED
  BY <1>5, <1>6, <1>7, <1>8, <1>9 DEF Current, Promises

\* The answer of a follow-up replaces what the cache has.
LEMMA AppendedKeeps ==
  ASSUME PageTypes, Life, Promises, ~missed', NEW r \in Requests, Appended(r)
  PROVE  Promises'
<1> USE DEF AtQuestion, AtPending, AtAnswer, Served, AppendStored, Stored, Appending, Question
<1> DEFINE a == ask[r].transcript
<1>1. /\ UNCHANGED <<row, transcript, task, ai, place, fetch, missed>>
      /\ Stored(r) /\ a \in Seq(Kinds)
      /\ cached'.known /\ cached'.ok /\ ~cached'.invalid /\ cached'.transcript = a
      /\ overtaken' = (cached.known /\ (Older(a, cached.transcript)
                                         \/ /\ cached.invalid \/ overtaken
                                            /\ a = cached.transcript))
  BY Stages DEF Appended, Fresh, serverVars
<1>2. /\ ask'[r].stage = "idle" /\ \A q \in Requests : q # r => ask'[q] = ask[q]
  BY OneAskChanges, NoAskIs DEF Appended
<1>3. EndsWith(a, {"question"}) /\ ~EndsWith(a, {"pending"})
  BY <1>1, Endings DEF Life
<1>4. /\ stream' = stream \/ (stream = "none" /\ stream' = "opening")
      /\ place = "chat" => stream' # "none" \/ ShouldRun(cached)
  <2>1. ShouldRun(cached')
    BY <1>1, <1>3 DEF ShouldRun
  <2> QED
    BY <2>1 DEF Appended, StartStream, Effect
<1> HIDE DEF a
<1>5. PendingWatched' /\ NoneGone' /\ LoadingAsked'
  BY <1>1, <1>2, <1>3, <1>4 DEF Promises, PendingWatched, NoneGone, LoadingAsked
<1> SUFFICES ASSUME row = "there", Current
             PROVE  Current'
  BY <1>1, <1>5 DEF Promises
<1>6. /\ transcript \in Seq(Kinds) /\ TurnsTaken(transcript)
      /\ Snapshot(a, transcript) /\ SameTurn(a, transcript)
      /\ cached.known /\ cached.transcript \in Seq(Kinds)
      /\ Snapshot(cached.transcript, transcript)
  BY <1>1 DEF Current, Snapshots, AppendCovers, PageTypes, a
<1>7. /\ \A q \in Requests : ~Appending(q)' /\ ~Stored(q)'
      /\ AppendStored /\ ~AppendStored'
  BY <1>1, <1>2 DEF Current, FollowUps
<1>8. Snapshots' /\ TaskKnown' /\ FollowUps'
  BY <1>1, <1>4, <1>6, <1>7 DEF Current, Snapshots, TaskKnown, FollowUps
<1>9. QuestionsCurrent'
  BY <1>1, <1>6 DEF Current, QuestionsCurrent
<1>10. CacheCovers' /\ AppendCovers'
  BY <1>1, <1>6, <1>7 DEF CacheCovers, AppendCovers
<1>11. Waiting'
  <2>1. AtQuestion /\ place = "chat" => stream' # "none"
    BY <1>4 DEF Current, Waiting, ShouldRun
  <2> SUFFICES ASSUME AtAnswer, stream' # "open"
               PROVE  overtaken'
    BY <1>1, <2>1 DEF Waiting
  <2>2. stream # "open"
    BY <1>4
  <2>3. SameTurn(cached.transcript, transcript)
    BY <1>7, Endings DEF Current, AppendCovers, PageTypes
  <2>4. CASE ~Question(cached)
    BY <1>1, <1>3, <1>6, <2>3, <2>4, QuestionIsOlder
  <2>5. CASE Question(cached)
    <3>1. a = cached.transcript
      BY <1>1, <1>3, <1>6, <2>3, <2>5, SameQuestion
    <3>2. cached.invalid \/ overtaken
      BY <2>2, <2>5 DEF Current, Waiting, PageTypes
    <3> QED
      BY <1>1, <1>6, <3>1, <3>2
  <2> QED
    BY <2>4, <2>5
<1> QED
  BY <1>5, <1>8, <1>9, <1>10, <1>11 DEF Current, Promises

\* The answer to a new name, or to a suggestion of one: old messages may pass for new.
LEMMA RowInCacheKeeps ==
  ASSUME PageTypes, Life, Promises, row = "there", NEW others, RowInCache(others),
         UNCHANGED <<row, transcript, task, ai, place, fetch, ask, missed>>
  PROVE  Promises'
<1> USE DEF AtQuestion, AtPending, AtAnswer, Served, AppendStored, Stored, Appending, Question
<1>1. Current /\ (cached.known => cached.ok)
  BY DEF Promises, Current, FollowUps
<1>2. /\ cached'.known = cached.known /\ cached'.transcript = cached.transcript
      /\ cached'.known => cached'.ok
      /\ overtaken => overtaken'
      /\ cached.known /\ cached.invalid => overtaken'
      /\ UNCHANGED stream
  <2>1. CASE cached.known
    <3>1. /\ cached' = [cached EXCEPT !.ok = TRUE, !.invalid = FALSE]
          /\ overtaken' = (overtaken \/ cached.invalid)
      BY <2>1 DEF RowInCache
    <3>2. cached'.known = cached.known /\ cached'.transcript = cached.transcript /\ cached'.ok
      BY <3>1 DEF PageTypes
    <3>3. ShouldRun(cached') <=> ShouldRun(cached)
      BY <1>1, <2>1, <3>2 DEF ShouldRun
    <3>4. UNCHANGED stream
      BY <2>1, <3>3 DEF RowInCache, Effect, StartStream
    <3> QED
      BY <3>1, <3>2, <3>4
  <2>2. CASE ~cached.known
    BY <2>2 DEF RowInCache, cacheVars
  <2> QED
    BY <2>1, <2>2
<1>3. PendingWatched' /\ NoneGone' /\ LoadingAsked'
  BY <1>2 DEF Promises, PendingWatched, NoneGone, LoadingAsked
<1>4. Snapshots' /\ TaskKnown' /\ FollowUps' /\ QuestionsCurrent'
  BY <1>1, <1>2 DEF Current, Snapshots, TaskKnown, FollowUps, QuestionsCurrent
<1>5. CacheCovers' /\ AppendCovers'
  BY <1>1, <1>2 DEF Current, CacheCovers, AppendCovers
<1>6. Waiting'
  BY <1>1, <1>2 DEF Current, Waiting
<1> QED
  BY <1>3, <1>4, <1>5, <1>6 DEF Current, Promises

\* The server answers the stream's request: it writes the answer, or refuses.
LEMMA StreamOpenedKeeps ==
  ASSUME PageTypes, Life, Promises, ~missed', StreamOpened
  PROVE  Promises'
<1> USE DEF AtQuestion, AtPending, AtAnswer, Served, AppendStored, Stored, Appending, Question
<1>1. /\ UNCHANGED <<row, ai, place, cached, overtaken, fetch, ask, missed>>
      /\ stream = "opening"
  BY DEF StreamOpened, cacheVars
<1>2. NoneGone' /\ LoadingAsked'
  BY <1>1 DEF Promises, NoneGone, LoadingAsked
<1>3. CASE AtQuestion /\ ai = "live"
  <2> DEFINE answered == Append(transcript, "pending")
  <2>1. stream' = "open" /\ task' = "working" /\ transcript' = answered
    BY <1>3 DEF StreamOpened
  <2>2. /\ transcript \in Seq(Kinds) /\ "pending" \in Kinds
        /\ answered # <<>> /\ answered \in Seq(Kinds) /\ EndsWith(answered, {"pending"})
        /\ ~EndsWith(answered, {"question"}) /\ ~EndsWith(answered, {"answer"})
        /\ ~EndsWith(transcript, {"answer"})
    BY <1>3, Added, Endings DEF PageTypes, Kinds
  <2> HIDE DEF answered
  <2>3. PendingWatched'
    BY <2>1 DEF PendingWatched
  <2> SUFFICES ASSUME row = "there", Current
               PROVE  Current'
    BY <1>1, <1>2, <2>3 DEF Promises
  <2>4. TurnsTaken(transcript) /\ TurnsTaken(answered)
    BY <1>3, <2>2, TurnsGoOn DEF Current, Snapshots, answered
  <2>5. \A s \in Seq(Kinds) :
          Snapshot(s, transcript) =>
            /\ Snapshot(s, answered)
            /\ SameTurn(s, transcript) => SameTurn(s, answered)
    BY <1>3, <2>2, <2>4, SnapshotOfMore, SameTurnAnswered DEF answered
  <2>6. /\ cached.known => cached.transcript \in Seq(Kinds) /\ Snapshot(cached.transcript, transcript)
        /\ Served => fetch.transcript \in Seq(Kinds) /\ Snapshot(fetch.transcript, transcript)
        /\ \A r \in Requests : ask[r].transcript \in Seq(Kinds)
    BY Stages DEF Current, Snapshots, PageTypes
  <2>7. Snapshots'
    BY <1>1, <2>1, <2>2, <2>4, <2>5, <2>6 DEF Current, Snapshots
  <2>8. TaskKnown' /\ FollowUps'
    BY <1>1, <2>1, <2>2 DEF Current, TaskKnown, FollowUps
  <2>9. QuestionsCurrent' /\ CacheCovers'
    BY <1>1, <2>1, <2>2, <2>5, <2>6 DEF Current, QuestionsCurrent, CacheCovers
  <2>10. AppendCovers'
    BY <1>1, <2>1, <2>5, <2>6 DEF Current, AppendCovers
  <2>11. Waiting'
    BY <1>1, <2>1, <2>2 DEF Waiting
  <2> QED
    BY <1>2, <2>3, <2>7, <2>8, <2>9, <2>10, <2>11 DEF Current, Promises
<1>4. CASE ~(AtQuestion /\ ai = "live")
  <2>1. stream' = "none" /\ UNCHANGED <<task, transcript>>
    BY <1>4 DEF StreamOpened
  <2>2. PendingWatched'
    BY <1>1, <2>1 DEF Promises, PendingWatched
  <2> SUFFICES ASSUME row = "there", Current
               PROVE  Current'
    BY <1>1, <1>2, <2>2 DEF Promises
  <2>3. ~AtQuestion
    BY <1>4 DEF Current, TaskKnown
  <2>4. Snapshots' /\ TaskKnown' /\ FollowUps'
    BY <1>1, <2>1 DEF Current, Snapshots, TaskKnown, FollowUps
  <2>5. QuestionsCurrent' /\ CacheCovers' /\ AppendCovers'
    BY <1>1, <2>1, <2>3 DEF Current, QuestionsCurrent, CacheCovers, AppendCovers
  <2>6. Waiting'
    BY <1>1, <2>1, <2>3 DEF Current, Waiting
  <2> QED
    BY <1>2, <2>2, <2>4, <2>5, <2>6 DEF Current, Promises
<1> QED
  BY <1>3, <1>4

\* The answer is settled.
LEMMA SettledKeeps ==
  ASSUME PageTypes, Life, Promises, ~missed', Settled
  PROVE  Promises'
<1> USE DEF AtQuestion, AtPending, AtAnswer, Served, AppendStored, Stored, Appending, Question
<1>1. /\ UNCHANGED <<row, ai, place, cached, overtaken, fetch, ask, stream, missed>>
      /\ task = "working" /\ task' = "told"
  BY DEF Settled, cacheVars
<1>2. NoneGone' /\ LoadingAsked'
  BY <1>1 DEF Promises, NoneGone, LoadingAsked
<1>3. CASE row # "there"
  <2>1. transcript' = <<>>
    BY <1>3 DEF Settled, Life, EndsWith
  <2> QED
    BY <1>1, <1>2, <1>3, <2>1 DEF Promises, PendingWatched, EndsWith
<1>4. CASE row = "there"
  <2>1. Current /\ AtPending /\ stream = "open" /\ transcript \in Seq(Kinds)
    BY <1>1, <1>4 DEF Promises, Current, TaskKnown, PendingWatched, PageTypes
  <2>2. transcript' = [transcript EXCEPT ![Len(transcript)] = "answer"]
    BY <2>1 DEF Settled
  <2>3. /\ transcript' \in Seq(Kinds) /\ Len(transcript') = Len(transcript)
        /\ transcript' # <<>> /\ AtAnswer'
        /\ TurnsTaken(transcript) => TurnsTaken(transcript')
        /\ \A s \in Seq(Kinds) : Snapshot(s, transcript) => Snapshot(s, transcript')
    BY <2>1, <2>2, SettledTranscript
  <2>4. ~AtQuestion' /\ ~AtPending' /\ ~AtQuestion /\ ~AtAnswer
    BY <2>1, <2>3, Endings
  <2>5. \A s : SameTurn(s, transcript') <=> SameTurn(s, transcript)
    BY <2>3 DEF SameTurn
  <2>6. PendingWatched'
    BY <1>1, <2>4 DEF Promises, PendingWatched
  <2>7. Snapshots'
    <3>1. /\ cached.known => cached.transcript \in Seq(Kinds)
          /\ Served => fetch.transcript \in Seq(Kinds)
          /\ \A r \in Requests : ask[r].transcript \in Seq(Kinds)
      BY Stages DEF PageTypes
    <3> QED
      BY <1>1, <2>1, <2>3, <2>5, <3>1 DEF Current, Snapshots
  <2>8. TaskKnown' /\ FollowUps'
    BY <1>1, <2>1, <2>3, <2>4 DEF Current, TaskKnown, FollowUps
  <2>9. QuestionsCurrent' /\ CacheCovers' /\ AppendCovers'
    BY <1>1, <2>1, <2>4, <2>5 DEF Current, QuestionsCurrent, CacheCovers, AppendCovers
  <2>10. Waiting'
    BY <1>1, <2>1 DEF Waiting
  <2> QED
    BY <1>2, <2>6, <2>7, <2>8, <2>9, <2>10 DEF Current, Promises
<1> QED
  BY <1>3, <1>4

\* The final event: what the cache has is out of date, and is asked for when it is on show.
LEMMA FinalEventKeeps ==
  ASSUME PageTypes, Life, Promises, ~missed', FinalEvent
  PROVE  Promises'
<1> USE DEF AtQuestion, AtPending, AtAnswer, Served, AppendStored, Stored, Appending, Question
<1>1. /\ UNCHANGED <<row, transcript, ai, place, overtaken, ask>> /\ ~missed
      /\ stream = "open" /\ stream' = "none" /\ task = "told" /\ task' = "none"
      /\ place = "chat" => fetch' = Asked
      /\ place # "chat" => fetch' = Idle
  BY DEF FinalEvent
<1>2. /\ cached'.known = cached.known /\ cached'.invalid /\ cached'.ok = cached.ok
      /\ cached'.transcript = cached.transcript
  BY DEF FinalEvent, PageTypes
<1>3. ~Served' /\ (place' = "chat" => fetch' # Idle)
  BY <1>1, StagesDiffer
<1>4. ~AtPending
  BY <1>1, Endings DEF Life, Promises, Current, TaskKnown, PageTypes
<1>5. PendingWatched' /\ NoneGone' /\ LoadingAsked'
  BY <1>1, <1>2, <1>3, <1>4 DEF Promises, PendingWatched, NoneGone, LoadingAsked
<1> SUFFICES ASSUME row = "there", Current
             PROVE  Current'
  BY <1>1, <1>5 DEF Promises
<1>6. AtAnswer /\ ~AtQuestion
  BY <1>1, Endings DEF Current, TaskKnown, PageTypes
<1>7. Snapshots' /\ TaskKnown' /\ FollowUps'
  BY <1>1, <1>2, <1>3, <1>6 DEF Current, Snapshots, TaskKnown, FollowUps
<1>8. QuestionsCurrent' /\ CacheCovers' /\ AppendCovers'
  BY <1>1, <1>2, <1>3 DEF Current, QuestionsCurrent, CacheCovers, AppendCovers
<1>9. Waiting'
  BY <1>1, <1>2, <1>3, <1>6 DEF Waiting
<1> QED
  BY <1>5, <1>7, <1>8, <1>9 DEF Current, Promises

\* The conversation is deleted, and the page told so.
LEMMA DeletionKeeps ==
  ASSUME PageTypes, Life, Promises, ~missed', Deleted \/ DeletionAnswered
  PROVE  Promises'
<1> USE DEF AtQuestion, AtPending, AtAnswer, Served, AppendStored, Stored, Appending, Question
<1>1. CASE Deleted
  BY <1>1 DEF Deleted, cacheVars, Promises, PendingWatched, NoneGone, LoadingAsked, EndsWith
<1>2. CASE DeletionAnswered
  <2>1. row' = "deleted" /\ transcript' = <<>>
    BY <1>2 DEF DeletionAnswered, Life, serverVars
  <2>2. ~cached'.known /\ fetch' = Idle /\ place' # "chat"
    BY <1>2 DEF DeletionAnswered, Nothing
  <2>3. ask' = ask \/ AsksStay
    BY <1>2, LeftBehindIs DEF DeletionAnswered
  <2>4. NoneGone'
    BY <2>3 DEF Promises, NoneGone, AsksStay
  <2> QED
    BY <2>1, <2>2, <2>4, StagesDiffer DEF Promises, PendingWatched, LoadingAsked, EndsWith
<1> QED
  BY <1>1, <1>2

\* When the gate is open the page holds a conversation that has its last answer.
LEMMA GateOpen ==
  ASSUME Gate = "open"
  PROVE  /\ cached.known /\ stream = "none" /\ ~EndsWith(cached.transcript, {"question"})
         /\ ~(Questions(cached.transcript) >= MaxQuestions)
  BY DEF Gate

\* What is sent on the strength of an open gate finds the conversation answered.
LEMMA OpenGateIsHonest ==
  ASSUME PageTypes, PendingWatched, Current, Gate = "open", ~AppendStored, ~overtaken
  PROVE  /\ AtAnswer /\ cached.known /\ ~Question(cached) /\ stream = "none"
         /\ SameTurn(cached.transcript, transcript) /\ Snapshot(cached.transcript, transcript)
<1>1. cached.known /\ stream = "none" /\ ~EndsWith(cached.transcript, {"question"})
  BY GateOpen
<1>2. /\ transcript \in Seq(Kinds) /\ cached.transcript \in Seq(Kinds) /\ transcript # <<>>
      /\ TurnsTaken(transcript) /\ Snapshot(cached.transcript, transcript)
  BY <1>1 DEF PageTypes, Current, Snapshots
<1>3. SameTurn(cached.transcript, transcript)
  BY <1>1 DEF Current, CacheCovers
<1>4. ~EndsWith(transcript, {"question"})
  BY <1>1, <1>2, <1>3, LastTurn
<1>5. ~EndsWith(transcript, {"pending"})
  BY <1>1 DEF PendingWatched, AtPending
<1> QED
  BY <1>1, <1>2, <1>3, <1>4, <1>5, Endings DEF AtAnswer, Question

\* A question goes out.
LEMMA SendKeeps ==
  ASSUME PageTypes, Life, Promises, ~missed', Send
  PROVE  Promises'
<1> USE DEF AtQuestion, AtPending, AtAnswer, Served, AppendStored, Stored, Appending, Question
<1>1. /\ UNCHANGED <<row, transcript, task, ai, place, cached, overtaken, fetch, stream>>
      /\ ~missed /\ ~overtaken /\ ComposerEnabled /\ (place = "new" => row = "none")
      /\ \A q \in Requests : ~Appending(q)
  BY DEF Send, serverVars, cacheVars, PageTypes
<1>2. PICK r \in Requests :
        /\ ask[r] = NoAsk
        /\ ask' = [ask EXCEPT ![r] = [stage |-> "sent", to |-> place, by |-> "shown",
                                      transcript |-> <<>>]]
  BY DEF Send
<1>3. /\ ask'[r].stage = "sent" /\ ask'[r].to = place /\ ask'[r].by = "shown"
      /\ \A q \in Requests : q # r => ask'[q] = ask[q]
  BY <1>2 DEF PageTypes
<1>4. PendingWatched' /\ NoneGone' /\ LoadingAsked'
  BY <1>1, <1>3 DEF Promises, PendingWatched, NoneGone, LoadingAsked
<1> SUFFICES ASSUME row = "there", Current
             PROVE  Current'
  BY <1>1, <1>4 DEF Promises
<1>5. place = "chat" /\ Gate = "open"
  BY <1>1 DEF ComposerEnabled
<1>6. /\ ~AppendStored /\ ~AppendStored' /\ \A q \in Requests : ~Stored(q)'
      /\ \A q \in Requests : Appending(q)' => q = r
  BY <1>1, <1>3
<1>7. AtAnswer /\ cached.known /\ ~Question(cached) /\ stream = "none"
  <2> HIDE DEF AtQuestion, AtPending, AtAnswer, AppendStored, Question
  <2> QED
    BY <1>1, <1>5, <1>6, OpenGateIsHonest DEF Promises
<1>8. Snapshots' /\ TaskKnown' /\ QuestionsCurrent'
  BY <1>1, <1>6 DEF Current, Snapshots, TaskKnown, QuestionsCurrent
<1>9. FollowUps'
  BY <1>1, <1>3, <1>6, <1>7 DEF Current, FollowUps
<1>10. CacheCovers' /\ AppendCovers' /\ Waiting'
  BY <1>1, <1>6 DEF Current, CacheCovers, AppendCovers, Waiting
<1> QED
  BY <1>4, <1>8, <1>9, <1>10 DEF Current, Promises

\* The composer, the dialogs and the suggested name do not touch what the page waits for.
LEMMA ElsewhereKeeps ==
  ASSUME Promises,
         UNCHANGED <<row, transcript, task, ai, place, cached, overtaken, fetch, ask, stream, missed>>
  PROVE  Promises'
  BY DEF Promises, PendingWatched, NoneGone, LoadingAsked, Current, Snapshots, TaskKnown, FollowUps,
         QuestionsCurrent, CacheCovers, AppendCovers, Waiting, AtQuestion, AtPending, AtAnswer,
         Served, AppendStored, Stored, Appending, Question

-----------------------------------------------------------------------------
(* The inductive invariant.                                                *)

PageInv == PageTypes /\ Life /\ (~missed => Promises)

\* What was missed stays missed.
LEMMA MissedStays ==
  ASSUME [Next]_vars, missed
  PROVE  missed'
<1>1. CASE User
  BY <1>1 DEF User, OpenChat, OpenOther, LeaveSection, Reload, Refetch, Type, PickFollowUp, Send,
              Confirm
<1>2. CASE Fetching \/ Asking \/ Streaming
  BY <1>2 DEF Fetching, FetchServed, FetchAnswered, FetchNotFound, Asking, AskServed, Created,
              Appended, AskRefused, Streaming, StreamOpened, Settled, FinalEvent, TaskForgotten
<1>3. CASE Suggesting \/ Editing \/ Mishap
  BY <1>3 DEF Suggesting, SuggestRead, SuggestWritten, SuggestDropped, Editing, Renamed, Deleted,
              DeletionAnswered, Mishap, FetchFails, AskFails, LoseStream, EditFails
<1>4. CASE UNCHANGED vars
  BY <1>4 DEF vars
<1> QED
  BY <1>1, <1>2, <1>3, <1>4 DEF Next

\* Nothing is held and nothing asked at first.
LEMMA PageInvInit == Init => PageInv
<1> SUFFICES ASSUME Init
             PROVE  PageInv
  OBVIOUS
<1>1. \A r \in Requests : ask[r].stage = "idle" /\ ask[r].to = "new"
  BY NoAskIs DEF Init
<1>2. PageTypes
  <2>1. <<>> \in Seq(Kinds) /\ <<"question", "answer">> \in Seq(Kinds)
    BY EmptySeq DEF Kinds
  <2> QED
    BY <2>1, NoAskIs DEF Init, PageTypes, Nothing
<1>3. Life
  BY <1>1, StagesDiffer
  DEF Init, Life, BeforeItIsThere, CreatedOnce, Creating, Stored, Nothing
<1>4. PendingWatched /\ NoneGone /\ LoadingAsked
  BY <1>1, StagesDiffer
  DEF Init, PendingWatched, NoneGone, LoadingAsked, AtPending, EndsWith, Served, Nothing
<1>5. row = "there" => Current
  <2> SUFFICES ASSUME row = "there"
               PROVE  Current
    OBVIOUS
  <2>1. transcript = <<"question", "answer">> /\ ~cached.known
        /\ ~Served /\ task = "none" /\ stream = "none" /\ place # "chat"
    BY StagesDiffer DEF Init, Nothing, Served
  <2>2. TurnsTaken(transcript) /\ transcript # <<>> /\ ~AtQuestion
    BY <2>1 DEF TurnsTaken, AtQuestion, EndsWith
  <2> QED
    BY <1>1, <2>1, <2>2
    DEF Current, Snapshots, TaskKnown, FollowUps, QuestionsCurrent, CacheCovers, AppendCovers,
        AppendStored, Stored, Appending, Waiting, Question
<1> QED
  BY <1>2, <1>3, <1>4, <1>5 DEF PageInv, Promises

\* Every step keeps it.
LEMMA PageInvStep == PageInv /\ [Next]_vars => PageInv'
<1> SUFFICES ASSUME PageInv, [Next]_vars
             PROVE  PageInv'
  OBVIOUS
<1>1. PageTypes' /\ Life'
  BY PageTypesStep, LifeStep DEF PageInv
<1> SUFFICES ASSUME ~missed'
             PROVE  Promises'
  BY <1>1 DEF PageInv
<1>2. PageTypes /\ Life /\ Promises
  BY MissedStays DEF PageInv
<1>3. CASE User
  <2>1. CASE \/ Type \/ PickFollowUp
             \/ (\E request \in {"renaming", "deleting"} : Confirm(request))
    <3>1. UNCHANGED <<row, transcript, task, ai, place, cached, overtaken, fetch, ask, stream, missed>>
      BY <2>1 DEF Type, PickFollowUp, Confirm, serverVars, cacheVars
    <3> QED
      BY <1>2, <3>1, ElsewhereKeeps
  <2> QED
    BY <1>2, <1>3, <2>1, OpenChatKeeps, QuietStepKeeps, SendKeeps DEF User
<1>4. CASE Fetching
  BY <1>2, <1>4, FetchServedKeeps, FetchAnsweredKeeps, NotFoundKeeps DEF Fetching
<1>5. CASE Asking
  <2>1. PICK r \in Requests : AskServed(r) \/ Created(r) \/ Appended(r) \/ AskRefused(r)
    BY <1>5 DEF Asking
  <2> QED
    BY <1>2, <2>1, AskServedKeeps, CreatedKeeps, AppendedKeeps, QuietStepKeeps
<1>6. CASE Streaming
  BY <1>2, <1>6, StreamOpenedKeeps, SettledKeeps, FinalEventKeeps, QuietStepKeeps DEF Streaming
<1>7. CASE Suggesting
  <2>1. PICK n : SuggestRead(n) \/ SuggestWritten(n) \/ SuggestDropped(n)
    BY <1>7 DEF Suggesting
  <2>2. CASE UNCHANGED <<row, transcript, task, ai, place, cached, overtaken, fetch, ask, stream, missed>>
    BY <1>2, <2>2, ElsewhereKeeps
  <2>3. CASE SuggestWritten(n) /\ n.heard
    <3>1. /\ row = "there" /\ RowInCache(naming (-) SetToBag({n}))
          /\ UNCHANGED <<row, transcript, task, ai, place, fetch, ask, missed>>
      BY <2>3 DEF SuggestWritten
    <3> QED
      BY <1>2, <3>1, RowInCacheKeeps
  <2> QED
    BY <2>1, <2>2, <2>3 DEF SuggestRead, SuggestWritten, SuggestDropped, serverVars, cacheVars
<1>8. CASE Editing
  <2>1. CASE Renamed /\ edit = "renaming" /\ row = "there"
    <3>1. /\ RowInCache(naming)
          /\ UNCHANGED <<row, transcript, task, ai, place, fetch, ask, missed>>
      BY <2>1 DEF Renamed
    <3> QED
      BY <1>2, <2>1, <3>1, RowInCacheKeeps
  <2>2. CASE Renamed /\ ~(edit = "renaming" /\ row = "there")
    <3>1. UNCHANGED <<row, transcript, task, ai, place, cached, overtaken, fetch, ask, stream, missed>>
      BY <2>2 DEF Renamed, cacheVars
    <3> QED
      BY <1>2, <3>1, ElsewhereKeeps
  <2> QED
    BY <1>2, <1>8, <2>1, <2>2, DeletionKeeps DEF Editing
<1>9. CASE Mishap
  <2>1. EditFails
    BY <1>9 DEF Mishap, FetchFails, AskFails, LoseStream
  <2>2. UNCHANGED <<row, transcript, task, ai, place, cached, overtaken, fetch, ask, stream, missed>>
    BY <2>1 DEF EditFails, serverVars, cacheVars
  <2> QED
    BY <1>2, <2>2, ElsewhereKeeps
<1>10. CASE UNCHANGED vars
  BY <1>2, <1>10, ElsewhereKeeps DEF vars
<1> QED
  BY <1>3, <1>4, <1>5, <1>6, <1>7, <1>8, <1>9, <1>10 DEF Next

\* So it always holds.
LEMMA PageInvHolds == Spec => []PageInv
  BY PageInvInit, PageInvStep, PTL DEF Spec

-----------------------------------------------------------------------------
(* What the pages promise.                                                 *)

\* A transcript without its last message.
LEMMA AllButLast ==
  ASSUME NEW c \in Seq(Kinds), c # <<>>
  PROVE  /\ SubSeq(c, 1, Len(c) - 1) \in Seq(Kinds)
         /\ Len(SubSeq(c, 1, Len(c) - 1)) = Len(c) - 1
         /\ \A i \in 1 .. Len(c) - 1 : SubSeq(c, 1, Len(c) - 1)[i] = c[i]
<1>1. PICK n \in Nat : n = Len(c) - 1
  <2>1. Len(c) \in Nat /\ Len(c) # 0
    BY LastMessage
  <2>2. Len(c) - 1 \in Nat
    BY <2>1
  <2> QED
    BY <2>2
<1>2. \A i \in 1 .. n : c[i] \in Kinds
  BY <1>1, ElementOfSeq
<1>3. /\ SubSeq(c, 1, n) \in Seq(Kinds)
      /\ Len(SubSeq(c, 1, n)) = IF 1 <= n THEN (n - 1) + 1 ELSE 0
      /\ \A i \in 1 .. (n - 1) + 1 : SubSeq(c, 1, n)[i] = c[(1 + i) - 1]
  BY <1>2, SubSeqProperties
<1>4. Len(SubSeq(c, 1, n)) = n
  BY <1>3
<1>5. ASSUME NEW i \in 1 .. n
      PROVE  SubSeq(c, 1, n)[i] = c[i]
  <2>1. (1 + i) - 1 = i /\ (n - 1) + 1 = n
    OBVIOUS
  <2> QED
    BY <1>3, <2>1
<1> QED
  BY <1>1, <1>3, <1>4, <1>5

\* A conversation has a number of questions.
LEMMA QuestionsCounted ==
  ASSUME NEW t \in Seq(Kinds)
  PROVE  Questions(t) \in Nat
<1> DEFINE asked == {i \in DOMAIN t : t[i] = "question"}
<1>1. IsFiniteSet(1 .. Len(t))
  BY LastMessage, FS_Interval
<1>2. asked \in SUBSET (1 .. Len(t))
  OBVIOUS
<1>3. IsFiniteSet(asked)
  BY <1>1, <1>2, FS_Subset
<1> QED
  BY <1>3, FS_CardinalityType DEF Questions

\* A snapshot with as many messages has the same questions.
LEMMA SameQuestions ==
  ASSUME NEW t \in Seq(Kinds), NEW s \in Seq(Kinds), Snapshot(s, t), Len(s) = Len(t)
  PROVE  Questions(s) = Questions(t)
<1>1. DOMAIN s = 1 .. Len(s) /\ DOMAIN t = 1 .. Len(s)
  OBVIOUS
<1>2. {i \in DOMAIN s : s[i] = "question"} = {i \in DOMAIN t : t[i] = "question"}
  BY <1>1 DEF Snapshot
<1> QED
  BY <1>2 DEF Questions

\* An enabled composer sends what the server takes: its last message is an answer and there is
\* room for a question, for any number of questions and faults.
THEOREM OffersAreHonest == Spec => []OfferIsHonest
<1>1. PageInv => OfferIsHonest
  <2> SUFFICES ASSUME PageInv, place = "chat", ComposerEnabled, ~missed, ~overtaken, row = "there",
                      ~\E r \in Requests : ask[r].stage = "stored" /\ ask[r].to = "chat"
               PROVE  EndsWith(transcript, {"answer"}) /\ Questions(transcript) < MaxQuestions
    BY DEF OfferIsHonest
  <2>1. Gate = "open" /\ ~AppendStored /\ PageTypes /\ PendingWatched /\ Current
    BY DEF ComposerEnabled, AppendStored, Stored, PageInv, Promises
  <2>2. /\ AtAnswer /\ cached.known /\ ~EndsWith(cached.transcript, {"question"})
        /\ SameTurn(cached.transcript, transcript) /\ Snapshot(cached.transcript, transcript)
    BY <2>1, OpenGateIsHonest DEF Question
  <2>3. /\ transcript \in Seq(Kinds) /\ cached.transcript \in Seq(Kinds)
        /\ Len(cached.transcript) = Len(transcript)
    BY <2>1, <2>2 DEF PageTypes, SameTurn
  <2>4. /\ Questions(cached.transcript) = Questions(transcript)
        /\ Questions(transcript) \in Nat
    BY <2>2, <2>3, SameQuestions, QuestionsCounted
  <2>5. ~(Questions(cached.transcript) >= MaxQuestions)
    BY <2>1, GateOpen
  <2> QED
    BY <2>2, <2>4, <2>5, PageAssumption DEF AtAnswer
<1> QED
  BY <1>1, PageInvHolds, PTL

\* What a stream shows is not shown beside it from the cache, and nothing before it is left out.
THEOREM AnswersAreShownOnce == Spec => []AnswersShownOnce
<1>1. PageInv => AnswersShownOnce
  <2> SUFFICES ASSUME PageInv, stream = "open", cached.known, task # "none", row = "there", ~missed
               PROVE  /\ ~EndsWith(MessagesToRender, {"pending"})
                      /\ ~overtaken => Len(MessagesToRender) = Len(transcript) - 1
    BY DEF AnswersShownOnce
  <2> DEFINE c == cached.transcript
             t == transcript
  <2>1. PageTypes /\ Current
    BY DEF PageInv, Promises
  <2>2. /\ c \in Seq(Kinds) /\ t \in Seq(Kinds) /\ TurnsTaken(t) /\ Snapshot(c, t) /\ c # <<>>
    BY <2>1 DEF PageTypes, Current, Snapshots, Snapshot
  <2>3. ~EndsWith(t, {"question"})
    BY <2>1, <2>2, Endings DEF PageTypes, Current, TaskKnown, AtPending, AtAnswer
  <2>4. /\ Len(c) \in Nat /\ Len(t) \in Nat /\ 1 <= Len(c) /\ Len(c) <= Len(t)
    BY <2>2, LastMessage DEF Snapshot
  <2>5. ~overtaken => SameTurn(c, t)
    BY <2>1, <2>3 DEF Current, CacheCovers, AppendCovers, AtQuestion
  <2> HIDE DEF c, t
  <2>6. CASE EndsWith(c, {"pending", "answer"})
    <3> DEFINE shown == SubSeq(c, 1, Len(c) - 1)
    <3>1. MessagesToRender = shown
      BY <2>6 DEF MessagesToRender, c
    <3>2. /\ shown \in Seq(Kinds) /\ Len(shown) = Len(c) - 1
          /\ \A i \in 1 .. Len(c) - 1 : shown[i] = c[i]
      BY <2>2, AllButLast
    <3> HIDE DEF shown
    <3>3. ~EndsWith(shown, {"pending"})
      <4> SUFFICES ASSUME shown # <<>>, shown[Len(shown)] = "pending"
                   PROVE  FALSE
        BY DEF EndsWith
      <4>1. Len(shown) \in 1 .. Len(c) /\ Len(c) - 1 = Len(shown) /\ Len(c) \in 1 .. Len(t)
            /\ Len(c) # 1
        BY <2>4, <3>2, EmptySeq
      <4>2. c[Len(c) - 1] = "pending"
        BY <3>2, <4>1
      <4>3. t[Len(c) - 1] = "pending"
        BY <2>2, <2>4, <4>1, <4>2 DEF Snapshot
      <4> QED
        BY <2>2, <4>1, <4>3 DEF TurnsTaken
    <3>4. ~overtaken => Len(c) = Len(t)
      BY <2>2, <2>5, <2>6, Endings DEF SameTurn
    <3> QED
      BY <3>1, <3>2, <3>3, <3>4 DEF t
  <2>7. CASE ~EndsWith(c, {"pending", "answer"})
    <3>1. MessagesToRender = c
      BY <2>7 DEF MessagesToRender, c
    <3>2. EndsWith(c, {"question"}) /\ ~EndsWith(c, {"pending"})
      BY <2>2, <2>7, Endings
    <3>3. ~overtaken => Len(c) + 1 = Len(t)
      BY <2>2, <2>3, <2>5, <3>2, LastTurn
    <3> QED
      BY <2>4, <3>1, <3>2, <3>3 DEF t
  <2> QED
    BY <2>6, <2>7
<1> QED
  BY <1>1, PageInvHolds, PTL

\* An answer that is not finished is never taken for the conversation's last word.
THEOREM AnswersAreFinished == Spec => []AnswerIsFinished
<1>1. PageInv => AnswerIsFinished
  BY DEF PageInv, Promises, PendingWatched, AnswerIsFinished
<1> QED
  BY <1>1, PageInvHolds, PTL

\* While the composer waits, something is under way that ends the wait.
THEOREM WaitsEnd == Spec => []WaitsForSomething
<1>1. PageInv => WaitsForSomething
  <2> SUFFICES ASSUME PageInv, place = "chat", row = "there", ~missed,
                      Gate \in {"loading", "streaming", "awaiting_response"}
               PROVE  fetch # Idle \/ stream # "none" \/ overtaken
    BY DEF WaitsForSomething
  <2>1. PageTypes /\ PendingWatched /\ LoadingAsked /\ Current
    BY DEF PageInv, Promises
  <2>2. CASE ~cached.known
    BY <2>1, <2>2 DEF LoadingAsked
  <2>3. CASE cached.known /\ stream = "none"
    <3>1. EndsWith(cached.transcript, {"question"})
      BY <2>3 DEF Gate
    <3>2. AtAnswer \/ AtQuestion
      BY <2>1, <2>3, Endings
      DEF PageTypes, PendingWatched, Current, Snapshots, AtPending, AtAnswer, AtQuestion
    <3> QED
      BY <2>1, <2>3, <3>1, <3>2 DEF Current, Waiting, Question
  <2> QED
    BY <2>2, <2>3
<1> QED
  BY <1>1, PageInvHolds, PTL

\* While no suggestion is under way nothing takes away a name the user has chosen; and none comes
\* under way in a visit that has made one.
THEOREM ChosenNamesStay == Spec => RenameIsKept
<1>1. ASSUME [Next]_vars, name = "chosen", naming = EmptyBag
      PROVE  name' = "chosen" /\ (suggested /\ suggested' => naming' = EmptyBag)
  <2>1. CASE User
    <3>1. CASE Reload
      BY <1>1, <3>1 DEF Reload, serverVars
    <3>2. CASE User /\ ~Reload
      BY <1>1, <3>2
      DEF User, OpenChat, OpenOther, LeaveSection, Refetch, Type, PickFollowUp, Send, Confirm,
          Effect, StartStream, serverVars, nameVars
    <3> QED
      BY <2>1, <3>1, <3>2
  <2>2. CASE Fetching
    BY <1>1, <2>2
    DEF Fetching, FetchServed, FetchAnswered, FetchNotFound, Effect, StartStream, serverVars, nameVars
  <2>3. CASE Asking
    BY <1>1, <2>3
    DEF Asking, AskServed, Created, Appended, AskRefused, Effect, StartStream, serverVars, nameVars
  <2>4. CASE Streaming
    BY <1>1, <2>4 DEF Streaming, StreamOpened, Settled, FinalEvent, TaskForgotten, nameVars
  <2>5. ~Suggesting
    BY <1>1 DEF Suggesting, BagToSet, EmptyBag, SetToBag
  <2>6. CASE Editing
    BY <1>1, <2>6
    DEF Editing, Renamed, Deleted, DeletionAnswered, RowInCache, Effect, StartStream, serverVars,
        nameVars
  <2>7. CASE Mishap
    BY <1>1, <2>7 DEF Mishap, FetchFails, AskFails, LoseStream, EditFails, serverVars, nameVars
  <2>8. CASE UNCHANGED vars
    BY <1>1, <2>8 DEF vars
  <2> QED
    BY <1>1, <2>1, <2>2, <2>3, <2>4, <2>5, <2>6, <2>7, <2>8 DEF Next
<1>2. [Next]_vars =>
        [name = "chosen" /\ naming = EmptyBag =>
           name' = "chosen" /\ (suggested /\ suggested' => naming' = EmptyBag)]_vars
  BY <1>1
<1> QED
  BY <1>2, PTL DEF Spec, RenameIsKept
=============================================================================
