-------------------- MODULE InterviewRoomSession_proofs --------------------
(***************************************************************************)
(* Theorems about InterviewRoomSession, for every value of its constants.  *)
(***************************************************************************)
EXTENDS InterviewRoomSession, FiniteSetTheorems, TLAPS

-----------------------------------------------------------------------------
(* Sequences *)

\* Replacing one element of a sequence keeps its type and its length.
LEMMA ReplaceInSeq ==
    ASSUME NEW S, NEW q \in Seq(S), NEW i \in DOMAIN q, NEW v \in S
    PROVE  /\ [q EXCEPT ![i] = v] \in Seq(S)
           /\ DOMAIN [q EXCEPT ![i] = v] = DOMAIN q
           /\ Len([q EXCEPT ![i] = v]) = Len(q)
  OBVIOUS

\* A function on the positions of a sequence is a sequence of its values.
LEMMA MapOverSeq ==
    ASSUME NEW S, NEW q \in Seq(S), NEW r, NEW f,
           r = [i \in DOMAIN q |-> f[i]], \A i \in DOMAIN q : f[i] \in S
    PROVE  r \in Seq(S) /\ DOMAIN r = DOMAIN q /\ Len(r) = Len(q)
  <1>1. q \in [1..Len(q) -> S] /\ DOMAIN q = 1..Len(q) /\ Len(q) \in Nat
    OBVIOUS
  <1>2. r \in [1..Len(q) -> S]
    BY <1>1
  <1> QED
    BY <1>1, <1>2
-----------------------------------------------------------------------------
(* Type correctness *)

LEMMA InitType == Init => TypeOK
  BY ModesAssumption DEF Init, TypeOK, Phase, TurnMode, BoardWorkspace

\* Cancelling the pending grace keeps the type of the history.
LEMMA CancelGraceType ==
    ASSUME endpointGraces \in Seq(EndpointGrace)
    PROVE  /\ cancellingPendingEndpointGrace \in Seq(EndpointGrace)
           /\ DOMAIN cancellingPendingEndpointGrace = DOMAIN endpointGraces
           /\ Len(cancellingPendingEndpointGrace) = Len(endpointGraces)
  <1> DEFINE f == [g \in DOMAIN endpointGraces |->
                     IF g \in Pending /\ \A p \in Pending : g <= p
                     THEN [endpointGraces[g] EXCEPT !.lifecycle = "cancelled"]
                     ELSE endpointGraces[g]]
  <1>1. ASSUME NEW g \in DOMAIN endpointGraces PROVE f[g] \in EndpointGrace
    <2>1. endpointGraces[g] \in EndpointGrace
      OBVIOUS
    <2>2. [endpointGraces[g] EXCEPT !.lifecycle = "cancelled"] \in EndpointGrace
      BY <2>1 DEF EndpointGrace
    <2> QED
      BY <2>1, <2>2
  <1>2. f = cancellingPendingEndpointGrace
    BY DEF cancellingPendingEndpointGrace
  <1>3. f = [g \in DOMAIN endpointGraces |-> f[g]]
    OBVIOUS
  <1> HIDE DEF f
  <1>4. f \in Seq(EndpointGrace) /\ DOMAIN f = DOMAIN endpointGraces
        /\ Len(f) = Len(endpointGraces)
    BY <1>1, <1>3, MapOverSeq
  <1> QED
    BY <1>2, <1>4


\* Releasing the active hold keeps the type of the history.
LEMMA ReleaseHoldType ==
    ASSUME floorHolds \in Seq(FloorHold), NEW turn \in Nat
    PROVE  /\ releasingActiveFloorHold(turn) \in Seq(FloorHold)
           /\ DOMAIN releasingActiveFloorHold(turn) = DOMAIN floorHolds
           /\ Len(releasingActiveFloorHold(turn)) = Len(floorHolds)
  <1> DEFINE f == [h \in DOMAIN floorHolds |->
                     IF h \in ActiveHold /\ \A a \in ActiveHold : a <= h
                     THEN [lifecycle |-> "released", turn |-> turn]
                     ELSE floorHolds[h]]
  <1>1. ASSUME NEW h \in DOMAIN floorHolds PROVE f[h] \in FloorHold
    <2>1. floorHolds[h] \in FloorHold
      OBVIOUS
    <2>2. [lifecycle |-> "released", turn |-> turn] \in FloorHold
      BY DEF FloorHold
    <2> QED
      BY <2>1, <2>2
  <1>2. f = releasingActiveFloorHold(turn)
    BY DEF releasingActiveFloorHold
  <1>3. f = [h \in DOMAIN floorHolds |-> f[h]]
    OBVIOUS
  <1> HIDE DEF f
  <1>4. f \in Seq(FloorHold) /\ DOMAIN f = DOMAIN floorHolds /\ Len(f) = Len(floorHolds)
    BY <1>1, <1>3, MapOverSeq
  <1> QED
    BY <1>2, <1>4

\* The room's own commands.
LEMMA RoomType == ASSUME TypeOK, RoomStep PROVE TypeOK'
  <1>1. cancellingPendingEndpointGrace \in Seq(EndpointGrace)
    BY CancelGraceType DEF TypeOK
  <1>2. releasingActiveFloorHold(0) \in Seq(FloorHold)
    BY ReleaseHoldType DEF TypeOK
  <1>3. CASE GiveCandidateFloor
    BY <1>3 DEF TypeOK, GiveCandidateFloor, Phase, floorPolicy, actor
  <1>4. ASSUME NEW m \in TurnModesOffered, SetTurnMode(m) PROVE TypeOK'
    <2>1. endpointGraces' \in Seq(EndpointGrace) /\ floorHolds' \in Seq(FloorHold)
      BY <1>1, <1>2, <1>4 DEF TypeOK, SetTurnMode
    <2> QED
      BY <1>4, <2>1, ModesAssumption DEF TypeOK, SetTurnMode, conversation, actor
  <1>5. CASE UpdateCandidateNotes
    BY <1>1, <1>5 DEF TypeOK, UpdateCandidateNotes, conversation, actor
  <1>6. ASSUME NEW draft \in DraftsOffered, UpdateBoardDraft(draft) PROVE TypeOK'
    <2>1. board' \in BoardWorkspace
      BY <1>6, DraftsAssumption DEF TypeOK, UpdateBoardDraft, BoardWorkspace
    <2> QED
      BY <1>1, <1>6, <2>1 DEF TypeOK, UpdateBoardDraft, conversation, actor
  <1>7. CASE SaveBoardRevision
    <2>1. board' \in BoardWorkspace
      BY <1>7 DEF TypeOK, SaveBoardRevision, BoardWorkspace
    <2> QED
      BY <1>7, <2>1 DEF TypeOK, SaveBoardRevision, conversation, floorPolicy, actor
  <1>8. CASE BeginSegment
    <2>1. segments' \in Seq(CandidateSegment)
      BY <1>8 DEF TypeOK, BeginSegment, CandidateSegment, CandidateSegmentLifecycle,
                  CapturedAudio
    <2> QED
      BY <1>1, <1>8, <2>1 DEF TypeOK, BeginSegment, conversation, actor
  <1>9. CASE Finish
    BY <1>1, <1>2, <1>9 DEF TypeOK, Finish, Phase, actor
  <1> QED
    BY <1>3, <1>4, <1>5, <1>6, <1>7, <1>8, <1>9 DEF RoomStep

\* A command that rewrites one segment with a segment.
LEMMA RewriteType ==
    ASSUME TypeOK, NEW s \in DOMAIN segments, NEW seg \in CandidateSegment,
           RewriteSegment(s, seg), UNCHANGED actor
    PROVE  TypeOK'
  <1>1. segments' \in Seq(CandidateSegment)
    BY ReplaceInSeq DEF TypeOK, RewriteSegment
  <1> QED
    BY <1>1 DEF TypeOK, RewriteSegment, conversation, floorPolicy, actor

\* The selected candidates of a set of segments are candidate identities.
LEMMA SelectedType ==
    ASSUME TypeOK, NEW S \in SUBSET (DOMAIN segments)
    PROVE  Selected(S) \in SUBSET CandidateID
  <1>1. \A s \in DOMAIN segments : s \in Nat /\ segments[s] \in CandidateSegment
    BY DEF TypeOK
  <1>2. \A s \in DOMAIN segments : segments[s].selected \in Nat
    BY <1>1 DEF CandidateSegment
  <1> QED
    BY <1>1, <1>2 DEF Selected, CandidateID

LEMMA SegmentType ==
    ASSUME TypeOK, NEW s \in DOMAIN segments, SegmentStep(s)
    PROVE  TypeOK'
  <1> DEFINE seg == segments[s]
  <1>1. /\ seg \in CandidateSegment
        /\ seg.attempts \in Seq(Attempt)
        /\ seg.selected \in Nat
    <2>1. seg \in CandidateSegment
      BY DEF TypeOK
    <2> QED
      BY <2>1 DEF CandidateSegment
  <1>2. ASSUME NEW l \in CandidateSegmentLifecycle
        PROVE  [seg EXCEPT !.lifecycle = l] \in CandidateSegment
    BY <1>1 DEF CandidateSegment
  <1>3. ASSUME NEW i \in DOMAIN seg.attempts
        PROVE  seg.attempts[i] \in Attempt
    BY <1>1
  <1>4. CASE FinalizeSegment(s)
    BY <1>2, <1>4, RewriteType, "finalizationAuthorized" \in CandidateSegmentLifecycle
    DEF FinalizeSegment, RewriteSegment, CandidateSegmentLifecycle
  <1>5. CASE RecordRecordingStarted(s)
    BY <1>2, <1>5, RewriteType DEF RecordRecordingStarted, RewriteSegment,
                                   CandidateSegmentLifecycle
  <1>6. ASSUME NEW audio \in CapturedAudio, RecordCaptureFinalized(s, audio) PROVE TypeOK'
    <2>1. [seg EXCEPT !.audio = audio,
                      !.lifecycle = IF audio = "unplayable" THEN "failed" ELSE "audioReady"]
             \in CandidateSegment
      BY <1>1 DEF CandidateSegment, CandidateSegmentLifecycle
    <2> QED
      BY <1>6, <2>1, RewriteType DEF RecordCaptureFinalized, RewriteSegment
  <1>7. CASE RecordCaptureFailed(s)
    BY <1>2, <1>7, RewriteType DEF RecordCaptureFailed, RewriteSegment,
                                   CandidateSegmentLifecycle
  <1>8. ASSUME NEW key \in Credentials, AuthorizeSegmentTranscription(s, key) PROVE TypeOK'
    <2> DEFINE attempt == [state |-> "authorized", key |-> key, rank |-> 0]
    <2>1. attempt \in Attempt
      BY DEF Attempt
    <2>2. Append(seg.attempts, attempt) \in Seq(Attempt)
      BY <1>1, <2>1
    <2>3. [seg EXCEPT !.attempts = Append(@, attempt), !.lifecycle = "transcribing"]
             \in CandidateSegment
      BY <1>1, <2>2 DEF CandidateSegment, CandidateSegmentLifecycle
    <2> QED
      BY <1>8, <2>3, RewriteType DEF AuthorizeSegmentTranscription, RewriteSegment
  <1>9. ASSUME NEW i \in DOMAIN seg.attempts, NEW rank \in 1..MaxRank,
               NEW best \in DOMAIN seg.attempts,
               RecordTranscriptCandidate(s, i, rank, best)
        PROVE  TypeOK'
    <2> DEFINE stored == [seg.attempts[i] EXCEPT !.state = "candidateStored", !.rank = rank]
               attempts == [seg.attempts EXCEPT ![i] = stored]
    <2>1. stored \in Attempt
      <3>1. seg.attempts[i] \in Attempt /\ rank \in Nat
        BY <1>3, BoundsAssumption
      <3> QED
        BY <3>1 DEF Attempt
    <2>2. attempts \in Seq(Attempt) /\ best \in Nat
      BY <1>1, <2>1, ReplaceInSeq
    <2>3. [seg EXCEPT !.attempts = attempts, !.selected = best, !.lifecycle = "transcribed"]
             \in CandidateSegment
      BY <1>1, <2>2 DEF CandidateSegment, CandidateSegmentLifecycle
    <2> QED
      BY <1>9, <2>3, RewriteType DEF RecordTranscriptCandidate, RewriteSegment
  <1>10. ASSUME NEW i \in DOMAIN seg.attempts, NEW failure \in {"failed", "rejected"},
                RecordTranscriptionFailed(s, i, failure)
         PROVE  TypeOK'
    <2> DEFINE failed == [seg.attempts[i] EXCEPT !.state = failure]
               attempts == [seg.attempts EXCEPT ![i] = failed]
               life == IF seg.selected = 0 THEN "audioReady" ELSE "transcribed"
    <2>1. failed \in Attempt
      <3>1. seg.attempts[i] \in Attempt
        BY <1>3
      <3> QED
        BY <3>1 DEF Attempt
    <2>2. attempts \in Seq(Attempt)
      BY <1>1, <2>1, ReplaceInSeq
    <2>3. [seg EXCEPT !.attempts = attempts, !.lifecycle = life] \in CandidateSegment
      BY <1>1, <2>2 DEF CandidateSegment, CandidateSegmentLifecycle
    <2> QED
      BY <1>10, <2>3, RewriteType DEF RecordTranscriptionFailed, RewriteSegment
  <1>11. CASE ExcludeSegment(s)
    BY <1>2, <1>11, RewriteType DEF ExcludeSegment, RewriteSegment, CandidateSegmentLifecycle
  <1>12. ASSUME NEW question \in 0..Len(turns), NEW context \in Contexts,
                AuthorizeEndpointEvaluation(s, question, context)
         PROVE  TypeOK'
    <2>1. Selected(Draft) \in SUBSET CandidateID
      BY SelectedType DEF Draft, Uncommitted
    <2>2. endpointEvaluations' \in Seq(EndpointEvaluation)
      BY <1>12, <2>1 DEF TypeOK, AuthorizeEndpointEvaluation, EndpointEvaluation
    <2> QED
      BY <1>12, <2>2 DEF TypeOK, AuthorizeEndpointEvaluation, conversation, floorPolicy, actor
  <1> QED
    BY <1>4, <1>5, <1>6, <1>7, <1>8, <1>9, <1>10, <1>11, <1>12 DEF SegmentStep

\* The commit every hand off shares.
LEMMA HandOffType ==
    ASSUME TypeOK, NEW members \in SUBSET (DOMAIN segments),
           NEW nextGraces \in Seq(EndpointGrace), NEW nextHolds \in Seq(FloorHold),
           handOff(members, nextGraces, nextHolds)
    PROVE  TypeOK'
  <1> DEFINE t == [role |-> "candidate", segments |-> members,
                   transcript |-> Selected(members \ Excluded), replyTo |-> 0]
             f == [s \in DOMAIN segments |->
                     IF s \in members THEN [segments[s] EXCEPT !.committedTurn = NextTurn]
                     ELSE segments[s]]
  <1>1. Selected(members \ Excluded) \in SUBSET CandidateID
    BY SelectedType
  <1>2. t \in Turn
    <2>1. members \in SUBSET Nat
      BY DEF TypeOK
    <2> QED
      BY <1>1, <2>1 DEF Turn
  <1>3. turns' \in Seq(Turn)
    BY <1>2 DEF TypeOK, handOff
  <1>4. ASSUME NEW s \in DOMAIN segments PROVE f[s] \in CandidateSegment
    <2>1. segments[s] \in CandidateSegment /\ NextTurn \in Nat
      BY DEF TypeOK, NextTurn
    <2>2. [segments[s] EXCEPT !.committedTurn = NextTurn] \in CandidateSegment
      BY <2>1 DEF CandidateSegment
    <2> QED
      BY <2>1, <2>2
  <1>5. f = [s \in DOMAIN segments |-> f[s]]
    OBVIOUS
  <1>6. segments' = f
    BY DEF handOff
  <1> HIDE DEF f
  <1>7. segments' \in Seq(CandidateSegment)
    BY <1>4, <1>5, <1>6, MapOverSeq DEF TypeOK
  <1> QED
    BY <1>3, <1>7 DEF TypeOK, handOff, Phase

LEMMA EndpointType == ASSUME TypeOK, EndpointStep PROVE TypeOK'
  <1>1. \A e \in DOMAIN endpointEvaluations :
           e \in Nat /\ endpointEvaluations[e] \in EndpointEvaluation
    BY DEF TypeOK
  <1>2. \A g \in DOMAIN endpointGraces : endpointGraces[g] \in EndpointGrace
    BY DEF TypeOK
  <1>3. ASSUME NEW e \in DOMAIN endpointEvaluations,
               NEW decision \in {"likelyEnd", "likelyContinue", "ambiguous"},
               RecordEndpointProposal(e, decision)
        PROVE  TypeOK'
    <2> DEFINE ev  == endpointEvaluations[e]
               new == IF isCurrentEndpointEvaluation(ev)
                      THEN [ev EXCEPT !.lifecycle = "proposalStored", !.decision = decision]
                      ELSE [ev EXCEPT !.lifecycle = "failed"]
    <2>1. new \in EndpointEvaluation
      <3>1. ev \in EndpointEvaluation
        BY <1>1
      <3> QED
        BY <3>1 DEF EndpointEvaluation
    <2>2. endpointEvaluations' = [endpointEvaluations EXCEPT ![e] = new]
      BY <1>3 DEF RecordEndpointProposal
    <2> HIDE DEF new
    <2>3. endpointEvaluations' \in Seq(EndpointEvaluation)
      BY <2>1, <2>2, ReplaceInSeq DEF TypeOK
    <2> QED
      BY <1>3, <2>3 DEF TypeOK, RecordEndpointProposal, conversation, floorPolicy, actor
  <1>4. ASSUME NEW e \in DOMAIN endpointEvaluations, RecordEndpointFailure(e) PROVE TypeOK'
    <2> DEFINE ev  == endpointEvaluations[e]
               new == [ev EXCEPT !.lifecycle = "failed"]
    <2>1. new \in EndpointEvaluation
      <3>1. ev \in EndpointEvaluation
        BY <1>1
      <3> QED
        BY <3>1 DEF EndpointEvaluation
    <2>2. endpointEvaluations' = [endpointEvaluations EXCEPT ![e] = new]
      BY <1>4 DEF RecordEndpointFailure
    <2> HIDE DEF new
    <2>3. endpointEvaluations' \in Seq(EndpointEvaluation)
      BY <2>1, <2>2, ReplaceInSeq DEF TypeOK
    <2> QED
      BY <1>4, <2>3 DEF TypeOK, RecordEndpointFailure, conversation, floorPolicy, actor
  <1>5. ASSUME NEW e \in DOMAIN endpointEvaluations, ActivateEndpointGrace(e) PROVE TypeOK'
    <2> DEFINE new == [evaluation |-> e, evidence |-> endpointEvaluations[e].evidence,
                       lifecycle |-> "pending", turn |-> 0]
    <2>1. endpointEvaluations[e].evidence \in SUBSET CandidateID
      <3>1. endpointEvaluations[e] \in EndpointEvaluation
        BY <1>1
      <3> QED
        BY <3>1 DEF EndpointEvaluation
    <2>2. new \in EndpointGrace
      BY <1>1, <2>1 DEF EndpointGrace
    <2>3. endpointGraces' \in Seq(EndpointGrace)
      BY <1>5, <2>2 DEF TypeOK, ActivateEndpointGrace
    <2> QED
      BY <1>5, <2>3 DEF TypeOK, ActivateEndpointGrace, conversation, actor
  <1>6. ASSUME NEW g \in DOMAIN endpointGraces, CancelEndpointGrace(g) PROVE TypeOK'
    <2> DEFINE new == [endpointGraces[g] EXCEPT !.lifecycle = "cancelled"]
    <2>1. new \in EndpointGrace
      <3>1. endpointGraces[g] \in EndpointGrace
        BY <1>2
      <3> QED
        BY <3>1 DEF EndpointGrace
    <2>2. endpointGraces' = [endpointGraces EXCEPT ![g] = new]
      BY <1>6 DEF CancelEndpointGrace
    <2> HIDE DEF new
    <2>3. endpointGraces' \in Seq(EndpointGrace)
      BY <2>1, <2>2, ReplaceInSeq DEF TypeOK
    <2> QED
      BY <1>6, <2>3 DEF TypeOK, CancelEndpointGrace, conversation, actor
  <1>7. ASSUME NEW g \in DOMAIN endpointGraces, CompleteEndpointGrace(g) PROVE TypeOK'
    <2> DEFINE new == [endpointGraces[g] EXCEPT !.lifecycle = "completed", !.turn = NextTurn]
    <2>1. new \in EndpointGrace
      <3>1. endpointGraces[g] \in EndpointGrace /\ NextTurn \in Nat
        BY <1>2 DEF TypeOK, NextTurn
      <3> QED
        BY <3>1 DEF EndpointGrace
    <2>2. [endpointGraces EXCEPT ![g].lifecycle = "completed", ![g].turn = NextTurn]
             = [endpointGraces EXCEPT ![g] = new]
      BY DEF TypeOK
    <2>3. [endpointGraces EXCEPT ![g] = new] \in Seq(EndpointGrace)
      BY <2>1, ReplaceInSeq DEF TypeOK
    <2> QED
      BY <1>7, <2>2, <2>3, HandOffType DEF CompleteEndpointGrace, handOffSegments, Uncommitted,
                                           TypeOK
  <1>8. CASE ActivateFloorHold
    <2>1. endpointGraces' \in Seq(EndpointGrace)
      BY <1>8, CancelGraceType DEF TypeOK, ActivateFloorHold
    <2>2. floorHolds' \in Seq(FloorHold)
      BY <1>8 DEF TypeOK, ActivateFloorHold, FloorHold
    <2> QED
      BY <1>8, <2>1, <2>2 DEF TypeOK, ActivateFloorHold, conversation, actor
  <1> QED
    BY <1>3, <1>4, <1>5, <1>6, <1>7, <1>8 DEF EndpointStep

LEMMA ConversationType == ASSUME TypeOK, HandOffStep PROVE TypeOK'
  <1>1. cancellingPendingEndpointGrace \in Seq(EndpointGrace)
    BY CancelGraceType DEF TypeOK
  <1>2. releasingActiveFloorHold(NextTurn) \in Seq(FloorHold)
    BY ReleaseHoldType DEF TypeOK, NextTurn
  <1>3. {} \in SUBSET DOMAIN segments /\ Uncommitted \in SUBSET DOMAIN segments
    BY DEF Uncommitted
  <1>4. floorHolds \in Seq(FloorHold)
    BY DEF TypeOK
  <1>5. CASE HandOffText
    BY <1>1, <1>3, <1>4, <1>5, HandOffType DEF HandOffText
  <1>6. CASE HandOffSegments
    BY <1>1, <1>3, <1>4, <1>6, HandOffType DEF HandOffSegments, handOffSegments
  <1>7. CASE SendAnswer
    BY <1>1, <1>2, <1>3, <1>7, HandOffType DEF SendAnswer, handOffSegments
  <1>8. CASE RequestOpeningInterviewerTurn
    BY <1>8 DEF TypeOK, RequestOpeningInterviewerTurn, Phase
  <1>9. CASE RetryInterviewerResponse
    BY <1>9 DEF TypeOK, RetryInterviewerResponse
  <1>10. CASE InterviewerResponds
    <2> DEFINE answer(i) == [role |-> "interviewer", segments |-> {}, transcript |-> {},
                             replyTo |-> i]
    <2>1. answer(0) \in Turn /\ answer(Len(turns)) \in Turn
      BY DEF TypeOK, Turn
    <2>2. \A t \in Turn : <<t>> \in Seq(Turn) /\ Append(turns, t) \in Seq(Turn)
      BY DEF TypeOK
    <2>3. turns' = <<answer(0)>> \/ turns' = Append(turns, answer(Len(turns)))
      BY <1>10 DEF InterviewerResponds
    <2> HIDE DEF answer
    <2>4. turns' \in Seq(Turn)
      BY <2>1, <2>2, <2>3
    <2>5. floorHolds' \in Seq(FloorHold)
      <3>1. floorHolds' = <<>> \/ floorHolds' = floorHolds
        BY <1>10 DEF InterviewerResponds
      <3>2. <<>> \in Seq(FloorHold)
        OBVIOUS
      <3> QED
        BY <1>4, <3>1, <3>2
    <2> QED
      BY <1>10, <2>4, <2>5 DEF TypeOK, InterviewerResponds, Phase
  <1>11. CASE InterviewerFails
    BY <1>11 DEF TypeOK, InterviewerFails, manifest
  <1> QED
    BY <1>5, <1>6, <1>7, <1>8, <1>9, <1>10, <1>11 DEF HandOffStep

LEMMA TypeStep ==
    ASSUME TypeOK, [Next]_vars
    PROVE  TypeOK'
  <1>1. CASE UNCHANGED vars
    BY <1>1 DEF TypeOK, vars
  <1>2. CASE Crash
    BY <1>2 DEF TypeOK, Crash, manifest
  <1>3. CASE Relaunch
    BY <1>3 DEF TypeOK, Relaunch, manifest
  <1> QED
    BY <1>1, <1>2, <1>3, RoomType, SegmentType, EndpointType, ConversationType DEF Next

\* Type correctness: no command, response, crash or relaunch takes the manifest
\* or the actor out of the shape its Swift types declare.
THEOREM TypeCorrect == Spec => []TypeOK
  <1>1. TypeOK /\ [Next]_vars => TypeOK'
    BY TypeStep
  <1> QED
    BY <1>1, InitType, PTL DEF Spec

-----------------------------------------------------------------------------
(* The order of the conversation *)

\* Steps that touch neither the conversation nor the actor's provider call.
SpeechAndPolicyStep == UNCHANGED <<phase, turns, provider>>

LEMMA SegmentKeepsConversation ==
    ASSUME NEW s \in DOMAIN segments, SegmentStep(s)
    PROVE  SpeechAndPolicyStep
  BY DEF SegmentStep, FinalizeSegment, RecordRecordingStarted, RecordCaptureFinalized,
         RecordCaptureFailed, AuthorizeSegmentTranscription, RecordTranscriptCandidate,
         RecordTranscriptionFailed, ExcludeSegment, AuthorizeEndpointEvaluation,
         RewriteSegment, conversation, actor, SpeechAndPolicyStep

LEMMA OrderedWhenUntouched ==
    ASSUME ConversationIsOrdered, SpeechAndPolicyStep
    PROVE  ConversationIsOrdered'
  BY DEF ConversationIsOrdered, SpeechAndPolicyStep, TurnsArePaired,
         ProcessingHasPendingCandidate, EndsWithCandidate

\* A candidate turn goes after nothing, or after an interviewer turn.
LEMMA OrderedAfterHandOff ==
    ASSUME TypeOK, ConversationIsOrdered, NEW members, NEW nextGraces, NEW nextHolds,
           handOff(members, nextGraces, nextHolds)
    PROVE  ConversationIsOrdered'
  <1> DEFINE t == [role |-> "candidate", segments |-> members,
                   transcript |-> Selected(members \ Excluded), replyTo |-> 0]
             n == Len(turns)
  <1>1. /\ turns \in Seq(Turn) /\ n \in Nat
        /\ turns' = Append(turns, t) /\ phase = "candidateFloor"
        /\ phase' = "interviewerProcessing" /\ provider' = "reply"
    BY DEF TypeOK, handOff
  <1>2. t.role = "candidate"
    OBVIOUS
  <1>3. /\ n # 0 => turns[n].role # "candidate"
        /\ \A i \in 1..n : turns[i].role \in {"candidate", "interviewer"}
    <2>1. \A i \in 1..n : turns[i] \in Turn
      BY <1>1
    <2>2. \A i \in 1..n : turns[i].role \in {"candidate", "interviewer"}
      BY <2>1 DEF Turn
    <2>3. n # 0 => turns # <<>>
      OBVIOUS
    <2> QED
      BY <1>1, <2>2, <2>3 DEF ConversationIsOrdered, EndsWithCandidate
  <1> HIDE DEF t
  <1>4. /\ DOMAIN turns' = 1..(n + 1) /\ turns'[n + 1] = t /\ Len(turns') = n + 1
        /\ \A i \in 1..n : turns'[i] = turns[i]
        /\ turns' # <<>>
    BY <1>1
  <1>5. EndsWithCandidate'
    BY <1>2, <1>4 DEF EndsWithCandidate
  <1>6. TurnsArePaired'
    <2>1. \A i \in 1..n : i = 1 \/ i - 1 \in 1..n
      BY <1>1
    <2> QED
      BY <1>1, <1>2, <1>3, <1>4, <2>1 DEF ConversationIsOrdered, TurnsArePaired
  <1> QED
    BY <1>1, <1>5, <1>6 DEF ConversationIsOrdered, ProcessingHasPendingCandidate

\* The opening is the first turn; a reply goes right after its candidate turn.
LEMMA OrderedAfterResponse ==
    ASSUME TypeOK, ConversationIsOrdered, InterviewerResponds
    PROVE  ConversationIsOrdered'
  <1> DEFINE answer(i) == [role |-> "interviewer", segments |-> {}, transcript |-> {},
                           replyTo |-> i]
             n == Len(turns)
  <1>1. \A i : answer(i).role = "interviewer" /\ answer(i).replyTo = i
    OBVIOUS
  <1>2. /\ turns \in Seq(Turn) /\ n \in Nat
        /\ phase' = "interviewerTurn" /\ provider' = "none"
    BY DEF TypeOK, InterviewerResponds
  <1>3. CASE provider = "opening"
    <2>1. turns' = <<answer(0)>>
      BY <1>3 DEF InterviewerResponds
    <2> HIDE DEF answer
    <2>2. Len(turns') = 1 /\ DOMAIN turns' = {1} /\ turns'[1] = answer(0) /\ turns' # <<>>
      BY <2>1
    <2>3. ~EndsWithCandidate'
      BY <1>1, <2>2 DEF EndsWithCandidate
    <2>4. TurnsArePaired'
      BY <1>1, <2>2 DEF TurnsArePaired
    <2> QED
      BY <1>2, <2>3, <2>4 DEF ConversationIsOrdered, ProcessingHasPendingCandidate
  <1>4. CASE provider = "reply"
    <2>1. turns' = Append(turns, answer(n))
      BY <1>4 DEF InterviewerResponds
    <2>2. n # 0 /\ turns[n].role = "candidate"
      BY <1>2, <1>4 DEF ConversationIsOrdered, EndsWithCandidate
    <2> HIDE DEF answer
    <2>3. /\ DOMAIN turns' = 1..(n + 1) /\ turns'[n + 1] = answer(n) /\ Len(turns') = n + 1
          /\ \A i \in 1..n : turns'[i] = turns[i]
          /\ turns' # <<>>
      BY <1>2, <2>1
    <2>4. ~EndsWithCandidate'
      BY <1>1, <1>2, <2>3 DEF EndsWithCandidate
    <2>5. TurnsArePaired'
      <3> SUFFICES ASSUME NEW i \in 1..(n + 1)
                   PROVE  IF turns'[i].role = "candidate"
                            THEN i = 1 \/ turns'[i - 1].role = "interviewer"
                            ELSE /\ turns'[i].replyTo = i - 1
                                 /\ i = 1 \/ turns'[i - 1].role = "candidate"
        BY <2>3 DEF TurnsArePaired
      <3>1. CASE i = n + 1
        <4>1. i - 1 = n /\ n \in 1..n
          BY <1>2, <2>2, <3>1
        <4>2. turns'[n].role = "candidate"
          BY <2>2, <2>3, <4>1
        <4>3. turns'[i].role = "interviewer" /\ turns'[i].replyTo = n
          BY <1>1, <2>3, <3>1
        <4> QED
          BY <4>1, <4>2, <4>3
      <3>2. CASE i \in 1..n
        <4>1. turns'[i] = turns[i] /\ i \in DOMAIN turns
          BY <1>2, <2>3, <3>2
        <4>2. i = 1 \/ (i - 1 \in 1..n /\ turns'[i - 1] = turns[i - 1])
          BY <1>2, <2>3, <3>2
        <4>3. IF turns[i].role = "candidate"
                 THEN i = 1 \/ turns[i - 1].role = "interviewer"
                 ELSE /\ turns[i].replyTo = i - 1
                      /\ i = 1 \/ turns[i - 1].role = "candidate"
          BY <4>1 DEF ConversationIsOrdered, TurnsArePaired
        <4> QED
          BY <4>1, <4>2, <4>3
      <3> QED
        BY <1>2, <3>1, <3>2
    <2> QED
      BY <1>2, <2>4, <2>5 DEF ConversationIsOrdered, ProcessingHasPendingCandidate
  <1> QED
    BY <1>3, <1>4 DEF InterviewerResponds

LEMMA OrderedStep ==
    ASSUME TypeOK, ConversationIsOrdered, [Next]_vars
    PROVE  ConversationIsOrdered'
  <1>1. CASE UNCHANGED vars
    BY <1>1, OrderedWhenUntouched DEF vars, SpeechAndPolicyStep
  <1>2. CASE RoomStep
    <2>1. CASE GiveCandidateFloor
      BY <2>1 DEF GiveCandidateFloor, ConversationIsOrdered, TurnsArePaired, Accepting,
                  ProcessingHasPendingCandidate, EndsWithCandidate, actor
    <2>2. CASE Finish
      BY <2>2 DEF Finish, ConversationIsOrdered, TurnsArePaired, Accepting,
                  ProcessingHasPendingCandidate, EndsWithCandidate, actor
    <2>3. CASE ~GiveCandidateFloor /\ ~Finish
      <3>1. SpeechAndPolicyStep
        BY <1>2, <2>3 DEF RoomStep, SetTurnMode, UpdateCandidateNotes, UpdateBoardDraft,
                          SaveBoardRevision, BeginSegment, conversation, actor,
                          SpeechAndPolicyStep
      <3> QED
        BY <3>1, OrderedWhenUntouched
    <2> QED
      BY <2>1, <2>2, <2>3
  <1>3. ASSUME NEW s \in DOMAIN segments, SegmentStep(s) PROVE ConversationIsOrdered'
    BY <1>3, SegmentKeepsConversation, OrderedWhenUntouched
  <1>4. CASE EndpointStep
    <2>1. ASSUME NEW g \in DOMAIN endpointGraces, CompleteEndpointGrace(g)
          PROVE  ConversationIsOrdered'
      BY <2>1, OrderedAfterHandOff DEF CompleteEndpointGrace, handOffSegments
    <2>2. CASE \A g \in DOMAIN endpointGraces : ~CompleteEndpointGrace(g)
      <3>1. SpeechAndPolicyStep
        BY <1>4, <2>2 DEF EndpointStep, RecordEndpointProposal, RecordEndpointFailure,
                          ActivateEndpointGrace, CancelEndpointGrace, ActivateFloorHold,
                          conversation, actor, SpeechAndPolicyStep
      <3> QED
        BY <3>1, OrderedWhenUntouched
    <2> QED
      BY <2>1, <2>2
  <1>5. CASE HandOffText \/ HandOffSegments \/ SendAnswer
    BY <1>5, OrderedAfterHandOff DEF HandOffText, HandOffSegments, SendAnswer, handOffSegments
  <1>6. CASE RequestOpeningInterviewerTurn \/ RetryInterviewerResponse
    BY <1>6 DEF RequestOpeningInterviewerTurn, RetryInterviewerResponse, ConversationIsOrdered,
                TurnsArePaired, ProcessingHasPendingCandidate, EndsWithCandidate
  <1>7. CASE InterviewerResponds
    BY <1>7, OrderedAfterResponse
  <1>8. CASE InterviewerFails \/ Crash \/ Relaunch
    BY <1>8 DEF InterviewerFails, Crash, Relaunch, manifest, ConversationIsOrdered,
                TurnsArePaired, ProcessingHasPendingCandidate, EndsWithCandidate
  <1> QED
    BY <1>1, <1>2, <1>3, <1>4, <1>5, <1>6, <1>7, <1>8 DEF Next, HandOffStep

\* However failures, retries and crashes interleave with the two saves of a
\* hand off, every candidate turn is answered at most once, in order.
THEOREM ConversationOrdered == Spec => []ConversationIsOrdered
  <1>1. Init => ConversationIsOrdered
    BY DEF Init, ConversationIsOrdered, TurnsArePaired, ProcessingHasPendingCandidate,
           EndsWithCandidate
  <1>2. TypeOK /\ TypeOK' /\ ConversationIsOrdered /\ [Next]_vars => ConversationIsOrdered'
    BY OrderedStep
  <1> QED
    BY <1>1, <1>2, TypeCorrect, PTL DEF Spec

Grows == Len(turns') >= Len(turns) /\ \A i \in DOMAIN turns : turns'[i] = turns[i]

LEMMA GrowStep ==
    ASSUME TypeOK, ConversationIsOrdered, Next
    PROVE  Grows
  <1> USE DEF Grows
  <1>1. turns \in Seq(Turn) /\ Len(turns) \in Nat /\ DOMAIN turns = 1..Len(turns)
    BY DEF TypeOK
  <1>2. \A t : turns' = Append(turns, t) => Grows
    BY <1>1
  <1>3. CASE UNCHANGED turns
    BY <1>1, <1>3
  <1>4. CASE RoomStep \/ Crash \/ Relaunch
    BY <1>3, <1>4 DEF RoomStep, GiveCandidateFloor, SetTurnMode, UpdateCandidateNotes,
                      UpdateBoardDraft, SaveBoardRevision, BeginSegment, Finish,
                      Crash, Relaunch, manifest, conversation
  <1>5. ASSUME NEW s \in DOMAIN segments, SegmentStep(s) PROVE Grows
    BY <1>3, <1>5, SegmentKeepsConversation DEF SpeechAndPolicyStep
  <1>6. ASSUME NEW members, NEW nextGraces, NEW nextHolds,
               handOff(members, nextGraces, nextHolds)
        PROVE  Grows
    BY <1>2, <1>6 DEF handOff
  <1>7. CASE EndpointStep
    <2>1. ASSUME NEW g \in DOMAIN endpointGraces, CompleteEndpointGrace(g) PROVE Grows
      BY <1>6, <2>1 DEF CompleteEndpointGrace, handOffSegments
    <2>2. CASE \A g \in DOMAIN endpointGraces : ~CompleteEndpointGrace(g)
      BY <1>3, <1>7, <2>2
      DEF EndpointStep, RecordEndpointProposal, RecordEndpointFailure,
          ActivateEndpointGrace, CancelEndpointGrace, ActivateFloorHold, conversation
    <2> QED
      BY <2>1, <2>2
  <1>8. CASE HandOffText \/ HandOffSegments \/ SendAnswer
    BY <1>6, <1>8 DEF HandOffText, HandOffSegments, SendAnswer, handOffSegments
  <1>9. CASE RequestOpeningInterviewerTurn \/ RetryInterviewerResponse \/ InterviewerFails
    BY <1>3, <1>9 DEF RequestOpeningInterviewerTurn, RetryInterviewerResponse,
                      InterviewerFails, manifest
  <1>10. CASE InterviewerResponds
    <2>1. CASE provider = "opening"
      <3>1. turns = <<>> /\ Len(turns') = 1
        BY <1>10, <2>1 DEF InterviewerResponds, ConversationIsOrdered
      <3> QED
        BY <3>1
    <2>2. CASE provider = "reply"
      BY <1>2, <1>10, <2>2 DEF InterviewerResponds
    <2> QED
      BY <1>10, <2>1, <2>2 DEF InterviewerResponds
  <1> QED
    BY <1>4, <1>5, <1>7, <1>8, <1>9, <1>10 DEF Next, HandOffStep

\* No step rewrites a turn that was persisted: not even the opening response,
\* which the code saves as the whole conversation.
THEOREM ConversationGrows == Spec => ConversationOnlyGrows
  <1>1. TypeOK /\ ConversationIsOrdered /\ [Next]_vars
        => [Len(turns') >= Len(turns) /\ \A i \in DOMAIN turns : turns'[i] = turns[i]]_vars
    BY GrowStep DEF Grows
  <1> QED
    BY <1>1, TypeCorrect, ConversationOrdered, PTL DEF Spec, ConversationOnlyGrows

-----------------------------------------------------------------------------
(* The floor: graces, holds and captures exclude each other *)

\* GraceAndHoldExclude is not inductive: cancelling the first pending grace
\* clears them all only if there is one, and a grace activates over a settled
\* draft only if every active capture belongs to that draft.
FloorInv ==
    /\ \A f, g \in Pending : f = g
    /\ \A h, k \in ActiveHold : h = k
    /\ \A r, s \in ActiveSegments : r = s
    /\ ActiveSegments # {} => phase = "candidateFloor"
    /\ ActiveSegments \subseteq Uncommitted
    /\ GraceAndHoldExclude

\* Cancelling, with at most one pending grace, leaves none.
LEMMA CancelClears ==
    ASSUME TypeOK, FloorInv, endpointGraces' = cancellingPendingEndpointGrace
    PROVE  Pending' = {}
  <1>1. \A g \in Pending : g \in DOMAIN endpointGraces /\ g \in Nat /\ \A p \in Pending : g <= p
    BY DEF TypeOK, FloorInv, Pending
  <1>2. DOMAIN endpointGraces' = DOMAIN endpointGraces
    BY DEF cancellingPendingEndpointGrace
  <1>3. ASSUME NEW g \in DOMAIN endpointGraces PROVE endpointGraces'[g].lifecycle # "pending"
    <2>1. endpointGraces[g] \in EndpointGrace
      BY DEF TypeOK
    <2>2. CASE g \in Pending
      <3>1. endpointGraces'[g] = [endpointGraces[g] EXCEPT !.lifecycle = "cancelled"]
        BY <1>1, <2>2 DEF cancellingPendingEndpointGrace
      <3> QED
        BY <2>1, <3>1 DEF EndpointGrace
    <2>3. CASE g \notin Pending
      <3>1. endpointGraces'[g] = endpointGraces[g]
        BY <2>3 DEF cancellingPendingEndpointGrace
      <3> QED
        BY <2>3, <3>1 DEF Pending
    <2> QED
      BY <2>2, <2>3
  <1> QED
    BY <1>2, <1>3 DEF Pending

\* Releasing, with at most one active hold, leaves none.
LEMMA ReleaseClears ==
    ASSUME TypeOK, FloorInv, NEW turn
    PROVE  \A h \in DOMAIN releasingActiveFloorHold(turn) :
               releasingActiveFloorHold(turn)[h].lifecycle # "active"
  <1>1. \A h \in ActiveHold : h \in Nat /\ \A a \in ActiveHold : a <= h
    BY DEF TypeOK, FloorInv, ActiveHold
  <1>2. ASSUME NEW h \in DOMAIN floorHolds
        PROVE  releasingActiveFloorHold(turn)[h].lifecycle # "active"
    <2>1. CASE h \in ActiveHold
      BY <1>1, <2>1 DEF releasingActiveFloorHold
    <2>2. CASE h \notin ActiveHold
      BY <2>2 DEF releasingActiveFloorHold, ActiveHold
    <2> QED
      BY <2>1, <2>2
  <1> QED
    BY <1>2 DEF releasingActiveFloorHold

\* A command that rewrites one segment and activates nothing.
LEMMA FloorAfterRewrite ==
    ASSUME TypeOK, FloorInv, NEW s \in DOMAIN segments, NEW seg, RewriteSegment(s, seg),
           seg.committedTurn = segments[s].committedTurn,
           isActiveSegment(seg) => isActiveSegment(segments[s])
    PROVE  FloorInv'
  <1>1. /\ UNCHANGED <<phase, turnMode, endpointGraces, floorHolds>>
        /\ segments' = [segments EXCEPT ![s] = seg]
    BY DEF RewriteSegment, conversation, floorPolicy
  <1>2. DOMAIN segments' = DOMAIN segments /\ segments'[s] = seg
        /\ \A r \in DOMAIN segments : r # s => segments'[r] = segments[r]
    BY <1>1 DEF TypeOK
  <1>3. ActiveSegments' \subseteq ActiveSegments
    BY <1>2 DEF ActiveSegments, isActiveSegment
  <1>4. Uncommitted' = Uncommitted
    BY <1>2 DEF Uncommitted
  <1>5. Pending' = Pending /\ ActiveHold' = ActiveHold
    BY <1>1 DEF Pending, ActiveHold
  <1> QED
    BY <1>1, <1>3, <1>4, <1>5 DEF FloorInv, GraceAndHoldExclude

LEMMA FloorAfterSegment ==
    ASSUME TypeOK, FloorInv, NEW s \in DOMAIN segments, SegmentStep(s)
    PROVE  FloorInv'
  <1> DEFINE seg == segments[s]
  <1>1. seg \in CandidateSegment
    BY DEF TypeOK
  <1>2. CASE FinalizeSegment(s)
    <2>1. [seg EXCEPT !.lifecycle = "finalizationAuthorized"].committedTurn = seg.committedTurn
      BY <1>1 DEF CandidateSegment
    <2> QED
      BY <1>2, <2>1, FloorAfterRewrite DEF FinalizeSegment
  <1>3. CASE RecordRecordingStarted(s)
    <2>1. [seg EXCEPT !.lifecycle = "recording"].committedTurn = seg.committedTurn
      BY <1>1 DEF CandidateSegment
    <2> QED
      BY <1>3, <2>1, FloorAfterRewrite DEF RecordRecordingStarted, isActiveSegment
  <1>4. ASSUME NEW audio, RecordCaptureFinalized(s, audio) PROVE FloorInv'
    <2> DEFINE new == [seg EXCEPT !.audio = audio,
                          !.lifecycle = IF audio = "unplayable" THEN "failed" ELSE "audioReady"]
    <2>1. new.committedTurn = seg.committedTurn /\ ~isActiveSegment(new)
      BY <1>1 DEF CandidateSegment, isActiveSegment
    <2> QED
      BY <1>4, <2>1, FloorAfterRewrite DEF RecordCaptureFinalized
  <1>5. CASE RecordCaptureFailed(s)
    <2> DEFINE new == [seg EXCEPT !.lifecycle = "failed"]
    <2>1. new.committedTurn = seg.committedTurn /\ ~isActiveSegment(new)
      BY <1>1 DEF CandidateSegment, isActiveSegment
    <2> QED
      BY <1>5, <2>1, FloorAfterRewrite DEF RecordCaptureFailed
  <1>6. ASSUME NEW key, AuthorizeSegmentTranscription(s, key) PROVE FloorInv'
    <2> DEFINE new == [seg EXCEPT
                  !.attempts = Append(@, [state |-> "authorized", key |-> key, rank |-> 0]),
                  !.lifecycle = "transcribing"]
    <2>1. new.committedTurn = seg.committedTurn /\ ~isActiveSegment(new)
      BY <1>1 DEF CandidateSegment, isActiveSegment
    <2> QED
      BY <1>6, <2>1, FloorAfterRewrite DEF AuthorizeSegmentTranscription
  <1>7. ASSUME NEW i, NEW rank, NEW best, RecordTranscriptCandidate(s, i, rank, best)
        PROVE  FloorInv'
    <2> DEFINE attempts == [seg.attempts EXCEPT
                               ![i] = [@ EXCEPT !.state = "candidateStored", !.rank = rank]]
               new == [seg EXCEPT !.attempts = attempts, !.selected = best,
                                  !.lifecycle = "transcribed"]
    <2>1. new.committedTurn = seg.committedTurn /\ ~isActiveSegment(new)
      BY <1>1 DEF CandidateSegment, isActiveSegment
    <2> QED
      BY <1>7, <2>1, FloorAfterRewrite DEF RecordTranscriptCandidate
  <1>8. ASSUME NEW i, NEW failure, RecordTranscriptionFailed(s, i, failure) PROVE FloorInv'
    <2> DEFINE attempts == [seg.attempts EXCEPT ![i] = [@ EXCEPT !.state = failure]]
               new == [seg EXCEPT !.attempts = attempts,
                          !.lifecycle = IF seg.selected = 0 THEN "audioReady" ELSE "transcribed"]
    <2>1. new.committedTurn = seg.committedTurn /\ ~isActiveSegment(new)
      BY <1>1 DEF CandidateSegment, isActiveSegment
    <2> QED
      BY <1>8, <2>1, FloorAfterRewrite DEF RecordTranscriptionFailed
  <1>9. CASE ExcludeSegment(s)
    <2> DEFINE new == [seg EXCEPT !.lifecycle = "excluded"]
    <2>1. new.committedTurn = seg.committedTurn /\ ~isActiveSegment(new)
      BY <1>1 DEF CandidateSegment, isActiveSegment
    <2> QED
      BY <1>9, <2>1, FloorAfterRewrite DEF ExcludeSegment
  <1>10. ASSUME NEW question, NEW context, AuthorizeEndpointEvaluation(s, question, context)
         PROVE  FloorInv'
    BY <1>10 DEF AuthorizeEndpointEvaluation, FloorInv, Pending, ActiveHold, ActiveSegments,
                 Uncommitted, GraceAndHoldExclude, conversation, floorPolicy
  <1> QED
    BY <1>2, <1>3, <1>4, <1>5, <1>6, <1>7, <1>8, <1>9, <1>10 DEF SegmentStep

LEMMA FloorAfterRoom ==
    ASSUME TypeOK, FloorInv, RoomStep
    PROVE  FloorInv'
  <1>1. \A turn : floorHolds' = releasingActiveFloorHold(turn) => ActiveHold' = {}
    BY ReleaseClears DEF ActiveHold
  <1>2. CASE GiveCandidateFloor
    BY <1>2 DEF GiveCandidateFloor, FloorInv, Pending, ActiveHold, ActiveSegments,
                Uncommitted, GraceAndHoldExclude, floorPolicy
  <1>3. ASSUME NEW m \in TurnModesOffered, SetTurnMode(m) PROVE FloorInv'
    <2>1. UNCHANGED <<phase, segments>> /\ turnMode' = m
      BY <1>3 DEF SetTurnMode, conversation
    <2>2. CASE m = turnMode
      <3>1. UNCHANGED <<endpointGraces, floorHolds>>
        BY <1>3, <2>2 DEF SetTurnMode
      <3> QED
        BY <2>1, <2>2, <3>1 DEF FloorInv, Pending, ActiveHold, ActiveSegments, Uncommitted,
                                GraceAndHoldExclude
    <2>3. CASE m # turnMode
      <3>1. Pending' = {}
        BY <1>3, <2>3, CancelClears DEF SetTurnMode
      <3>2. ActiveHold' = {} \/ (turnMode # "continuousConversation" /\ UNCHANGED floorHolds)
        BY <1>1, <1>3, <2>3 DEF SetTurnMode
      <3>3. ActiveHold' = {}
        BY <3>2 DEF FloorInv, GraceAndHoldExclude, ActiveHold
      <3> QED
        BY <2>1, <3>1, <3>3 DEF FloorInv, ActiveSegments, Uncommitted, GraceAndHoldExclude
    <2> QED
      BY <2>2, <2>3
  <1>4. CASE UpdateCandidateNotes
    <2>1. Pending' = {}
      BY <1>4, CancelClears DEF UpdateCandidateNotes
    <2> QED
      BY <1>4, <2>1 DEF UpdateCandidateNotes, FloorInv, ActiveHold, ActiveSegments,
                        Uncommitted, GraceAndHoldExclude, conversation
  <1>5. ASSUME NEW draft \in DraftsOffered, UpdateBoardDraft(draft) PROVE FloorInv'
    <2>1. Pending' = {}
      BY <1>5, CancelClears DEF UpdateBoardDraft
    <2> QED
      BY <1>5, <2>1 DEF UpdateBoardDraft, FloorInv, ActiveHold, ActiveSegments,
                        Uncommitted, GraceAndHoldExclude, conversation
  <1>6. CASE SaveBoardRevision
    BY <1>6 DEF SaveBoardRevision, FloorInv, Pending, ActiveHold, ActiveSegments,
                Uncommitted, GraceAndHoldExclude, conversation, floorPolicy
  <1>7. CASE BeginSegment
    <2> DEFINE new == [lifecycle |-> "captureAuthorized", audio |-> "none", attempts |-> <<>>,
                       selected |-> 0, committedTurn |-> 0]
               n == Len(segments)
    <2>1. Pending' = {}
      BY <1>7, CancelClears DEF BeginSegment
    <2>2. /\ phase' = "candidateFloor" /\ phase = "candidateFloor"
          /\ UNCHANGED <<turnMode, floorHolds>>
          /\ ActiveSegments = {} /\ segments' = Append(segments, new)
      BY <1>7 DEF BeginSegment, conversation
    <2>3. new.committedTurn = 0
      OBVIOUS
    <2> HIDE DEF new
    <2>4. /\ DOMAIN segments' = 1..(n + 1) /\ DOMAIN segments = 1..n /\ n \in Nat
          /\ segments'[n + 1] = new
          /\ \A i \in 1..n : segments'[i] = segments[i]
      BY <2>2 DEF TypeOK
    <2>5. ActiveSegments' \subseteq {n + 1}
      BY <2>2, <2>4 DEF ActiveSegments
    <2>6. ActiveSegments' \subseteq Uncommitted'
      BY <2>3, <2>4, <2>5 DEF Uncommitted
    <2> QED
      BY <2>1, <2>2, <2>5, <2>6 DEF FloorInv, ActiveHold, GraceAndHoldExclude
  <1>8. CASE Finish
    <2>1. Pending' = {}
      BY <1>8, CancelClears DEF Finish
    <2>2. ActiveHold' = {}
      BY <1>1, <1>8 DEF Finish
    <2>3. ActiveSegments' = {}
      BY <1>8 DEF Finish, ActiveSegments, isInFlightCapture
    <2> QED
      BY <2>1, <2>2, <2>3 DEF FloorInv, GraceAndHoldExclude
  <1> QED
    BY <1>2, <1>3, <1>4, <1>5, <1>6, <1>7, <1>8 DEF RoomStep

LEMMA FloorAfterHandOff ==
    ASSUME TypeOK, FloorInv, ActiveSegments = {}, NEW members, NEW nextGraces, NEW nextHolds,
           handOff(members, nextGraces, nextHolds),
           \A g \in DOMAIN nextGraces : nextGraces[g].lifecycle # "pending"
    PROVE  FloorInv'
  <1>1. Pending' = {} /\ ActiveHold' = {}
    BY DEF handOff, Pending, ActiveHold
  <1>2. ASSUME NEW s \in DOMAIN segments' PROVE ~isActiveSegment(segments'[s])
    <2>1. s \in DOMAIN segments /\ segments[s] \in CandidateSegment
      BY DEF TypeOK, handOff
    <2>2. segments'[s].lifecycle = segments[s].lifecycle
      BY <2>1 DEF handOff, CandidateSegment
    <2> QED
      BY <2>1, <2>2 DEF ActiveSegments, isActiveSegment
  <1>3. ActiveSegments' = {}
    BY <1>2 DEF ActiveSegments
  <1> QED
    BY <1>1, <1>3 DEF FloorInv, GraceAndHoldExclude

LEMMA FloorAfterConversation ==
    ASSUME TypeOK, FloorInv, ConversationIsOrdered, HandOffStep
    PROVE  FloorInv'
  <1>1. \A g \in DOMAIN cancellingPendingEndpointGrace :
            cancellingPendingEndpointGrace[g].lifecycle # "pending"
    <2>1. \A g \in Pending : g \in Nat /\ \A p \in Pending : g <= p
      BY DEF TypeOK, FloorInv, Pending
    <2>2. ASSUME NEW g \in DOMAIN endpointGraces
          PROVE  cancellingPendingEndpointGrace[g].lifecycle # "pending"
      <3>1. endpointGraces[g] \in EndpointGrace
        BY DEF TypeOK
      <3>2. CASE g \in Pending
        BY <2>1, <3>1, <3>2 DEF cancellingPendingEndpointGrace, EndpointGrace
      <3>3. CASE g \notin Pending
        BY <3>3 DEF cancellingPendingEndpointGrace, Pending
      <3> QED
        BY <3>2, <3>3
    <2> QED
      BY <2>2 DEF cancellingPendingEndpointGrace
  <1>2. CASE HandOffText
    <2>1. ActiveSegments = {}
      BY <1>2 DEF HandOffText, FloorInv
    <2> QED
      BY <1>1, <1>2, <2>1, FloorAfterHandOff DEF HandOffText
  <1>3. CASE HandOffSegments
    <2>1. ActiveSegments = {}
      BY <1>3 DEF HandOffSegments, handOffSegments, isInFlightCapture, ActiveSegments
    <2> QED
      BY <1>1, <1>3, <2>1, FloorAfterHandOff DEF HandOffSegments, handOffSegments
  <1>4. CASE SendAnswer
    <2>1. ActiveSegments = {}
      BY <1>4 DEF SendAnswer, handOffSegments, isInFlightCapture, ActiveSegments
    <2> QED
      BY <1>1, <1>4, <2>1, FloorAfterHandOff DEF SendAnswer, handOffSegments
  <1>5. CASE \/ RequestOpeningInterviewerTurn \/ RetryInterviewerResponse
             \/ InterviewerResponds \/ InterviewerFails
    <2>1. UNCHANGED <<turnMode, segments, endpointGraces>>
      BY <1>5 DEF RequestOpeningInterviewerTurn, RetryInterviewerResponse,
                  InterviewerResponds, InterviewerFails, manifest
    <2>2. floorHolds' = floorHolds \/ floorHolds' = <<>>
      BY <1>5 DEF RequestOpeningInterviewerTurn, RetryInterviewerResponse,
                  InterviewerResponds, InterviewerFails, manifest
    <2>3. phase' = phase \/ phase = "ready" \/ phase = "interviewerProcessing"
      BY <1>5
      DEF ConversationIsOrdered, RequestOpeningInterviewerTurn, RetryInterviewerResponse, InterviewerResponds,
          InterviewerFails, manifest
    <2>4. ActiveHold' \subseteq ActiveHold
      BY <2>2 DEF ActiveHold
    <2>5. Pending' = Pending /\ ActiveSegments' = ActiveSegments /\ Uncommitted' = Uncommitted
      BY <2>1 DEF Pending, ActiveSegments, Uncommitted
    <2> QED
      BY <2>1, <2>3, <2>4, <2>5 DEF FloorInv, GraceAndHoldExclude
  <1> QED
    BY <1>2, <1>3, <1>4, <1>5 DEF HandOffStep

LEMMA FloorAfterEndpoint ==
    ASSUME TypeOK, FloorInv, EndpointStep
    PROVE  FloorInv'
  <1>1. ASSUME NEW ev, isCurrentEndpointEvaluation(ev) PROVE ActiveSegments = {}
    <2>1. \A s \in ActiveSegments : s \in Draft /\ isInFlightCapture(segments[s])
      BY DEF FloorInv, ActiveSegments, Draft, Excluded, isActiveSegment, isInFlightCapture
    <2> QED
      BY <1>1, <2>1 DEF isCurrentEndpointEvaluation, DraftIsSettled
  <1>2. ASSUME NEW e,
               \/ \E decision : RecordEndpointProposal(e, decision)
               \/ RecordEndpointFailure(e)
        PROVE  FloorInv'
    BY <1>2 DEF RecordEndpointProposal, RecordEndpointFailure, FloorInv, Pending, ActiveHold,
                ActiveSegments, Uncommitted, GraceAndHoldExclude, conversation, floorPolicy
  <1>3. ASSUME NEW e, ActivateEndpointGrace(e) PROVE FloorInv'
    <2> DEFINE new == [evaluation |-> e, evidence |-> endpointEvaluations[e].evidence,
                       lifecycle |-> "pending", turn |-> 0]
               n == Len(endpointGraces)
    <2>1. /\ phase = "candidateFloor" /\ usesAutomaticEndpointCompletion(turnMode)
          /\ UNCHANGED <<phase, turnMode, segments, floorHolds>>
          /\ Pending = {} /\ ActiveHold = {} /\ ActiveSegments = {}
          /\ endpointGraces' = Append(endpointGraces, new)
      BY <1>1, <1>3 DEF ActivateEndpointGrace, conversation
    <2> HIDE DEF new
    <2>2. /\ DOMAIN endpointGraces' = 1..(n + 1) /\ DOMAIN endpointGraces = 1..n /\ n \in Nat
          /\ \A i \in 1..n : endpointGraces'[i] = endpointGraces[i]
      BY <2>1 DEF TypeOK
    <2>3. Pending' \subseteq {n + 1}
      BY <2>1, <2>2 DEF Pending
    <2> QED
      BY <2>1, <2>3 DEF FloorInv, ActiveHold, ActiveSegments, Uncommitted, GraceAndHoldExclude,
                        usesAutomaticEndpointCompletion
  <1>4. ASSUME NEW g, CancelEndpointGrace(g) PROVE FloorInv'
    <2>1. /\ UNCHANGED <<phase, turnMode, segments, floorHolds>>
          /\ g \in Pending
          /\ endpointGraces' = [endpointGraces EXCEPT ![g].lifecycle = "cancelled"]
      BY <1>4 DEF CancelEndpointGrace, conversation
    <2>2. Pending' \subseteq Pending
      <3>1. endpointGraces[g] \in EndpointGrace
        BY <2>1 DEF Pending, TypeOK
      <3>2. endpointGraces'[g].lifecycle = "cancelled"
        BY <2>1, <3>1 DEF TypeOK, EndpointGrace, Pending
      <3>3. \A f \in DOMAIN endpointGraces : f # g => endpointGraces'[f] = endpointGraces[f]
        BY <2>1
      <3>4. DOMAIN endpointGraces' = DOMAIN endpointGraces
        BY <2>1
      <3> QED
        BY <3>2, <3>3, <3>4 DEF Pending
    <2> QED
      BY <2>1, <2>2 DEF FloorInv, ActiveHold, ActiveSegments, Uncommitted, GraceAndHoldExclude
  <1>5. ASSUME NEW g, CompleteEndpointGrace(g) PROVE FloorInv'
    <2> DEFINE next == [endpointGraces EXCEPT ![g].lifecycle = "completed",
                                              ![g].turn = NextTurn]
    <2>1. g \in Pending /\ g \in DOMAIN endpointGraces /\ endpointGraces[g] \in EndpointGrace
      BY <1>5 DEF CompleteEndpointGrace, Pending, TypeOK
    <2>2. ActiveSegments = {} /\ handOff(Uncommitted, next, floorHolds)
      BY <1>5 DEF CompleteEndpointGrace, handOffSegments, isInFlightCapture, ActiveSegments
    <2>3. ASSUME NEW f \in DOMAIN next PROVE next[f].lifecycle # "pending"
      <3>1. CASE f = g
        <4>1. next[g].lifecycle = "completed"
          BY <2>1 DEF EndpointGrace
        <4> QED
          BY <3>1, <4>1
      <3>2. CASE f # g
        BY <2>1, <2>3, <3>2 DEF FloorInv, Pending
      <3> QED
        BY <3>1, <3>2
    <2> HIDE DEF next
    <2> QED
      BY <2>2, <2>3, FloorAfterHandOff
  <1>6. CASE ActivateFloorHold
    <2> DEFINE new == [lifecycle |-> "active", turn |-> 0]
               n == Len(floorHolds)
    <2>1. /\ phase = "candidateFloor" /\ turnMode = "continuousConversation"
          /\ UNCHANGED <<phase, turnMode, segments>>
          /\ ActiveHold = {}
          /\ floorHolds' = Append(floorHolds, new)
      BY <1>6 DEF ActivateFloorHold, conversation
    <2>2. Pending' = {}
      BY <1>6, CancelClears DEF ActivateFloorHold
    <2> HIDE DEF new
    <2>3. /\ DOMAIN floorHolds' = 1..(n + 1) /\ DOMAIN floorHolds = 1..n /\ n \in Nat
          /\ \A i \in 1..n : floorHolds'[i] = floorHolds[i]
      BY <2>1 DEF TypeOK
    <2>4. ActiveHold' \subseteq {n + 1}
      BY <2>1, <2>3 DEF ActiveHold
    <2> QED
      BY <2>1, <2>2, <2>4 DEF FloorInv, ActiveSegments, Uncommitted, GraceAndHoldExclude
  <1> QED
    BY <1>2, <1>3, <1>4, <1>5, <1>6 DEF EndpointStep

LEMMA FloorStep ==
    ASSUME TypeOK, ConversationIsOrdered, FloorInv, [Next]_vars
    PROVE  FloorInv'
  <1>1. CASE UNCHANGED <<phase, turnMode, segments, endpointGraces, floorHolds>>
    BY <1>1 DEF FloorInv, Pending, ActiveHold, ActiveSegments, Uncommitted,
                GraceAndHoldExclude
  <1>2. CASE UNCHANGED vars
    BY <1>1, <1>2 DEF vars
  <1>3. CASE Crash \/ Relaunch
    BY <1>1, <1>3 DEF Crash, Relaunch, manifest
  <1> QED
    BY <1>2, <1>3, FloorAfterRoom, FloorAfterSegment, FloorAfterEndpoint,
       FloorAfterConversation DEF Next

LEMMA FloorInit == Init => FloorInv
  BY DEF Init, FloorInv, Pending, ActiveHold, ActiveSegments, GraceAndHoldExclude

\* An automatic hand off brews only over a candidate floor in an automatic mode
\* that nobody holds and where nobody is speaking.
THEOREM FloorExclusion == Spec => []GraceAndHoldExclude
  <1>1. TypeOK /\ ConversationIsOrdered /\ FloorInv /\ [Next]_vars => FloorInv'
    BY FloorStep
  <1>2. FloorInv => GraceAndHoldExclude
    BY DEF FloorInv
  <1> QED
    BY <1>1, <1>2, FloorInit, TypeCorrect, ConversationOrdered, PTL DEF Spec

-----------------------------------------------------------------------------
(* External effects: one of a kind *)

InFlight(seg) == {i \in DOMAIN seg.attempts : seg.attempts[i].state = "authorized"}

\* Of EffectsAreSingleFlight, what FloorInv lacks: the calls to the transcriber
\* and to the classifier.
FlightInv ==
    /\ \A s \in DOMAIN segments : InFlight(segments[s]) # {} =>
           segments[s].lifecycle = "transcribing"
    /\ \A r, s \in DOMAIN segments : \A i \in InFlight(segments[r]), j \in InFlight(segments[s]) :
           r = s /\ i = j
    /\ \A d, e \in Authorized : d = e

\* A step after which every call to the transcriber was in flight before it.
LEMMA FlightWhenShrinking ==
    ASSUME FlightInv, UNCHANGED endpointEvaluations,
           \A s \in DOMAIN segments' : InFlight(segments'[s]) # {} =>
               /\ s \in DOMAIN segments
               /\ InFlight(segments'[s]) \subseteq InFlight(segments[s])
               /\ segments'[s].lifecycle = segments[s].lifecycle
    PROVE  FlightInv'
  <1>1. Authorized' = Authorized
    BY DEF Authorized
  <1>2. \A s \in DOMAIN segments' : \A i \in InFlight(segments'[s]) :
            s \in DOMAIN segments /\ i \in InFlight(segments[s])
    OBVIOUS
  <1>3. \A s \in DOMAIN segments' : InFlight(segments'[s]) # {} =>
            segments'[s].lifecycle = "transcribing"
    BY DEF FlightInv
  <1>4. \A r, s \in DOMAIN segments' :
            \A i \in InFlight(segments'[r]), j \in InFlight(segments'[s]) : r = s /\ i = j
    BY <1>2 DEF FlightInv
  <1> QED
    BY <1>1, <1>3, <1>4 DEF FlightInv

\* A command that rewrites one segment and leaves no call in flight on it.
LEMMA FlightAfterRewrite ==
    ASSUME TypeOK, FlightInv, NEW s \in DOMAIN segments, NEW seg, RewriteSegment(s, seg),
           InFlight(seg) = {}
    PROVE  FlightInv'
  <1>1. /\ UNCHANGED endpointEvaluations
        /\ DOMAIN segments' = DOMAIN segments /\ segments'[s] = seg
        /\ \A r \in DOMAIN segments : r # s => segments'[r] = segments[r]
    BY DEF RewriteSegment, TypeOK
  <1> QED
    BY <1>1, FlightWhenShrinking

LEMMA FlightAfterSegment ==
    ASSUME TypeOK, FlightInv, NEW s \in DOMAIN segments, SegmentStep(s)
    PROVE  FlightInv'
  <1> DEFINE seg == segments[s]
  <1>1. /\ seg \in CandidateSegment /\ seg.attempts \in Seq(Attempt)
        /\ Len(seg.attempts) \in Nat /\ DOMAIN seg.attempts = 1..Len(seg.attempts)
    <2>1. seg \in CandidateSegment
      BY DEF TypeOK
    <2>2. seg.attempts \in Seq(Attempt)
      BY <2>1 DEF CandidateSegment
    <2> QED
      BY <2>1, <2>2
  <1>2. ASSUME seg.lifecycle # "transcribing" PROVE InFlight(seg) = {}
    BY <1>2 DEF FlightInv
  <1>3. ASSUME NEW new, RewriteSegment(s, new), new.attempts = seg.attempts,
               seg.lifecycle # "transcribing"
        PROVE  FlightInv'
    BY <1>2, <1>3, FlightAfterRewrite DEF InFlight
  <1>4. CASE FinalizeSegment(s)
    <2>1. [seg EXCEPT !.lifecycle = "finalizationAuthorized"].attempts = seg.attempts
      BY <1>1 DEF CandidateSegment
    <2> QED
      BY <1>3, <1>4, <2>1 DEF FinalizeSegment, isActiveSegment
  <1>5. CASE RecordRecordingStarted(s)
    <2>1. [seg EXCEPT !.lifecycle = "recording"].attempts = seg.attempts
      BY <1>1 DEF CandidateSegment
    <2> QED
      BY <1>3, <1>5, <2>1 DEF RecordRecordingStarted
  <1>6. ASSUME NEW audio, RecordCaptureFinalized(s, audio) PROVE FlightInv'
    <2>1. [seg EXCEPT !.audio = audio,
               !.lifecycle = IF audio = "unplayable" THEN "failed" ELSE "audioReady"].attempts
          = seg.attempts
      BY <1>1 DEF CandidateSegment
    <2> QED
      BY <1>3, <1>6, <2>1 DEF RecordCaptureFinalized
  <1>7. CASE RecordCaptureFailed(s)
    <2>1. [seg EXCEPT !.lifecycle = "failed"].attempts = seg.attempts
      BY <1>1 DEF CandidateSegment
    <2> QED
      BY <1>3, <1>7, <2>1 DEF RecordCaptureFailed, isActiveSegment
  <1>8. CASE ExcludeSegment(s)
    <2>1. [seg EXCEPT !.lifecycle = "excluded"].attempts = seg.attempts
      BY <1>1 DEF CandidateSegment
    <2> QED
      BY <1>3, <1>8, <2>1 DEF ExcludeSegment, isInFlightCapture
  <1>9. ASSUME NEW key, AuthorizeSegmentTranscription(s, key) PROVE FlightInv'
    <2> DEFINE attempt == [state |-> "authorized", key |-> key, rank |-> 0]
               new == [seg EXCEPT !.attempts = Append(@, attempt), !.lifecycle = "transcribing"]
               n == Len(seg.attempts)
    <2>1. /\ UNCHANGED endpointEvaluations
          /\ DOMAIN segments' = DOMAIN segments /\ segments'[s] = new
          /\ \A r \in DOMAIN segments : r # s => segments'[r] = segments[r]
      BY <1>9 DEF AuthorizeSegmentTranscription, RewriteSegment, TypeOK
    <2>2. \A r \in DOMAIN segments : InFlight(segments[r]) = {}
      BY <1>9 DEF AuthorizeSegmentTranscription, InFlight
    <2>3. new.lifecycle = "transcribing" /\ new.attempts = Append(seg.attempts, attempt)
      BY <1>1 DEF CandidateSegment
    <2> HIDE DEF new, attempt
    <2>4. \A i \in DOMAIN new.attempts : i # n + 1 =>
              i \in DOMAIN seg.attempts /\ new.attempts[i] = seg.attempts[i]
      BY <1>1, <2>3
    <2>5. InFlight(new) \subseteq {n + 1}
      BY <2>2, <2>4 DEF InFlight
    <2>6. \A r \in DOMAIN segments' : \A i \in InFlight(segments'[r]) : r = s /\ i = n + 1
      BY <2>1, <2>2, <2>5
    <2>7. Authorized' = Authorized
      BY <2>1 DEF Authorized
    <2> QED
      BY <2>1, <2>3, <2>6, <2>7 DEF FlightInv
  <1>10. ASSUME NEW i \in DOMAIN seg.attempts, seg.attempts[i].state = "authorized",
                NEW attempts, attempts[i].state # "authorized",
                attempts = [seg.attempts EXCEPT ![i] = attempts[i]],
                NEW new, new.attempts = attempts, RewriteSegment(s, new)
         PROVE  FlightInv'
    <2>1. \A j \in DOMAIN seg.attempts : j # i => seg.attempts[j].state # "authorized"
      BY <1>10 DEF FlightInv, InFlight
    <2>2. DOMAIN attempts = DOMAIN seg.attempts
          /\ \A j \in DOMAIN seg.attempts : j # i => attempts[j] = seg.attempts[j]
      BY <1>10
    <2>3. \A j \in DOMAIN attempts : attempts[j].state # "authorized"
      BY <1>10, <2>1, <2>2
    <2>4. InFlight(new) = {}
      BY <1>10, <2>3 DEF InFlight
    <2> QED
      BY <1>10, <2>4, FlightAfterRewrite
  <1>11. ASSUME NEW i \in DOMAIN seg.attempts, NEW rank, NEW best,
                RecordTranscriptCandidate(s, i, rank, best)
         PROVE  FlightInv'
    <2> DEFINE attempts == [seg.attempts EXCEPT
                               ![i] = [@ EXCEPT !.state = "candidateStored", !.rank = rank]]
               new == [seg EXCEPT !.attempts = attempts, !.selected = best,
                                  !.lifecycle = "transcribed"]
    <2>1. seg.attempts[i] \in Attempt
      BY <1>1
    <2>2. attempts[i] = [seg.attempts[i] EXCEPT !.state = "candidateStored", !.rank = rank]
      BY <1>1
    <2>3. attempts[i].state = "candidateStored"
      BY <2>1, <2>2 DEF Attempt
    <2>4. attempts = [seg.attempts EXCEPT ![i] = attempts[i]]
      BY <1>1, <2>2
    <2>5. new.attempts = attempts
      BY <1>1 DEF CandidateSegment
    <2>6. RewriteSegment(s, new) /\ seg.attempts[i].state = "authorized"
      BY <1>11 DEF RecordTranscriptCandidate
    <2> HIDE DEF attempts, new
    <2> QED
      BY <1>10, <2>3, <2>4, <2>5, <2>6
  <1>12. ASSUME NEW i \in DOMAIN seg.attempts, NEW failure \in {"failed", "rejected"},
                RecordTranscriptionFailed(s, i, failure)
         PROVE  FlightInv'
    <2> DEFINE attempts == [seg.attempts EXCEPT ![i] = [@ EXCEPT !.state = failure]]
               new == [seg EXCEPT !.attempts = attempts,
                          !.lifecycle = IF seg.selected = 0 THEN "audioReady" ELSE "transcribed"]
    <2>1. seg.attempts[i] \in Attempt
      BY <1>1
    <2>2. attempts[i] = [seg.attempts[i] EXCEPT !.state = failure]
      BY <1>1
    <2>3. attempts[i].state = failure
      BY <2>1, <2>2 DEF Attempt
    <2>4. attempts = [seg.attempts EXCEPT ![i] = attempts[i]]
      BY <1>1, <2>2
    <2>5. new.attempts = attempts
      BY <1>1 DEF CandidateSegment
    <2>6. RewriteSegment(s, new) /\ seg.attempts[i].state = "authorized"
      BY <1>12 DEF RecordTranscriptionFailed
    <2> HIDE DEF attempts, new
    <2> QED
      BY <1>10, <2>3, <2>4, <2>5, <2>6
  <1>13. ASSUME NEW question, NEW context, AuthorizeEndpointEvaluation(s, question, context)
         PROVE  FlightInv'
    <2>1. PICK ev : Authorized = {} /\ UNCHANGED segments
                    /\ endpointEvaluations' = Append(endpointEvaluations, ev)
      BY <1>13 DEF AuthorizeEndpointEvaluation
    <2>2. /\ DOMAIN endpointEvaluations' = 1..(Len(endpointEvaluations) + 1)
          /\ DOMAIN endpointEvaluations = 1..Len(endpointEvaluations)
          /\ Len(endpointEvaluations) \in Nat
          /\ \A e \in DOMAIN endpointEvaluations :
                 endpointEvaluations'[e] = endpointEvaluations[e]
      BY <2>1 DEF TypeOK
    <2>3. Authorized' \subseteq {Len(endpointEvaluations) + 1}
      BY <2>1, <2>2 DEF Authorized
    <2> QED
      BY <2>1, <2>3 DEF FlightInv
  <1> QED
    BY <1>4, <1>5, <1>6, <1>7, <1>8, <1>9, <1>11, <1>12, <1>13 DEF SegmentStep

LEMMA FlightAfterHandOff ==
    ASSUME TypeOK, FlightInv, NEW members, NEW nextGraces, NEW nextHolds,
           handOff(members, nextGraces, nextHolds)
    PROVE  FlightInv'
  <1>1. ASSUME NEW s \in DOMAIN segments
        PROVE  /\ segments'[s].attempts = segments[s].attempts
               /\ segments'[s].lifecycle = segments[s].lifecycle
    <2>1. segments[s] \in CandidateSegment
      BY DEF TypeOK
    <2> QED
      BY <2>1 DEF handOff, CandidateSegment
  <1>2. DOMAIN segments' = DOMAIN segments /\ UNCHANGED endpointEvaluations
    BY DEF handOff
  <1> QED
    BY <1>1, <1>2, FlightWhenShrinking DEF InFlight

LEMMA FlightAfterEndpoint ==
    ASSUME TypeOK, FlightInv, EndpointStep
    PROVE  FlightInv'
  <1>1. ASSUME NEW e \in Authorized, NEW ev, ev.lifecycle # "authorized",
               UNCHANGED segments,
               endpointEvaluations' = [endpointEvaluations EXCEPT ![e] = ev]
        PROVE  FlightInv'
    <2>1. Authorized' \subseteq Authorized
      BY <1>1 DEF Authorized
    <2> QED
      BY <1>1, <2>1 DEF FlightInv
  <1>2. ASSUME NEW e, NEW decision, RecordEndpointProposal(e, decision) PROVE FlightInv'
    <2> DEFINE old == endpointEvaluations[e]
               ev == IF isCurrentEndpointEvaluation(old)
                     THEN [old EXCEPT !.lifecycle = "proposalStored", !.decision = decision]
                     ELSE [old EXCEPT !.lifecycle = "failed"]
    <2>1. e \in Authorized /\ UNCHANGED segments
          /\ endpointEvaluations' = [endpointEvaluations EXCEPT ![e] = ev]
      BY <1>2 DEF RecordEndpointProposal
    <2>2. old \in EndpointEvaluation
      BY <2>1 DEF TypeOK, Authorized
    <2>3. ev.lifecycle # "authorized"
      BY <2>2 DEF EndpointEvaluation
    <2> HIDE DEF ev
    <2> QED
      BY <1>1, <2>1, <2>3
  <1>3. ASSUME NEW e, RecordEndpointFailure(e) PROVE FlightInv'
    <2> DEFINE old == endpointEvaluations[e]
               ev == [old EXCEPT !.lifecycle = "failed"]
    <2>1. e \in Authorized /\ UNCHANGED segments
          /\ endpointEvaluations' = [endpointEvaluations EXCEPT ![e] = ev]
      BY <1>3 DEF RecordEndpointFailure
    <2>2. old \in EndpointEvaluation
      BY <2>1 DEF TypeOK, Authorized
    <2>3. ev.lifecycle # "authorized"
      BY <2>2 DEF EndpointEvaluation
    <2> HIDE DEF ev
    <2> QED
      BY <1>1, <2>1, <2>3
  <1>4. ASSUME NEW g, CompleteEndpointGrace(g) PROVE FlightInv'
    BY <1>4, FlightAfterHandOff DEF CompleteEndpointGrace, handOffSegments
  <1>5. CASE UNCHANGED <<segments, endpointEvaluations>>
    BY <1>5 DEF FlightInv, Authorized
  <1>6. ASSUME NEW e, NEW g, ActivateEndpointGrace(e) \/ CancelEndpointGrace(g) \/ ActivateFloorHold
        PROVE  FlightInv'
    BY <1>5, <1>6 DEF ActivateEndpointGrace, CancelEndpointGrace, ActivateFloorHold
  <1> QED
    BY <1>2, <1>3, <1>4, <1>6 DEF EndpointStep

LEMMA FlightStep ==
    ASSUME TypeOK, FlightInv, [Next]_vars
    PROVE  FlightInv'
  <1>1. CASE UNCHANGED <<segments, endpointEvaluations>>
    BY <1>1 DEF FlightInv, Authorized
  <1>2. CASE BeginSegment
    <2> DEFINE new == [lifecycle |-> "captureAuthorized", audio |-> "none", attempts |-> <<>>,
                       selected |-> 0, committedTurn |-> 0]
               n == Len(segments)
    <2>1. UNCHANGED endpointEvaluations /\ segments' = Append(segments, new)
      BY <1>2 DEF BeginSegment
    <2>2. InFlight(new) = {}
      BY DEF InFlight
    <2> HIDE DEF new
    <2>3. /\ DOMAIN segments' = 1..(n + 1) /\ DOMAIN segments = 1..n /\ n \in Nat
          /\ segments'[n + 1] = new
          /\ \A i \in 1..n : segments'[i] = segments[i]
      BY <2>1 DEF TypeOK
    <2> QED
      BY <2>1, <2>2, <2>3, FlightWhenShrinking
  <1>3. CASE RoomStep
    BY <1>1, <1>2, <1>3 DEF RoomStep, GiveCandidateFloor, SetTurnMode, UpdateCandidateNotes,
                            UpdateBoardDraft, SaveBoardRevision, Finish
  <1>4. CASE HandOffText \/ HandOffSegments \/ SendAnswer
    BY <1>4, FlightAfterHandOff DEF HandOffText, HandOffSegments, SendAnswer, handOffSegments
  <1>5. CASE HandOffStep
    BY <1>1, <1>4, <1>5
    DEF HandOffStep, RequestOpeningInterviewerTurn, RetryInterviewerResponse,
        InterviewerResponds, InterviewerFails, manifest
  <1>6. CASE UNCHANGED vars \/ Crash \/ Relaunch
    BY <1>1, <1>6 DEF vars, Crash, Relaunch, manifest
  <1> QED
    BY <1>3, <1>5, <1>6, FlightAfterSegment, FlightAfterEndpoint DEF Next

\* One capture, one call to the transcriber, one to the classifier, one grace
\* and one hold at a time, whatever is retried, fails or is restored.
THEOREM SingleFlight == Spec => []EffectsAreSingleFlight
  <1>1. Init => FlightInv
    BY DEF Init, FlightInv, Authorized
  <1>2. TypeOK /\ FlightInv /\ [Next]_vars => FlightInv'
    BY FlightStep
  <1>3. TypeOK /\ ConversationIsOrdered /\ FloorInv /\ [Next]_vars => FloorInv'
    BY FloorStep
  <1>4. FlightInv /\ FloorInv => EffectsAreSingleFlight
    BY DEF FlightInv, FloorInv, InFlight, EffectsAreSingleFlight
  <1> QED
    BY <1>1, <1>2, <1>3, <1>4, FloorInit, TypeCorrect, ConversationOrdered, PTL DEF Spec

-----------------------------------------------------------------------------
(* Speech: every segment is committed once *)

Saying(turn, s) == {c \in turn.transcript : c[1] = s}

\* Segment s, as `seg', belongs to turn i, and is said there once or excluded.
SaidOnce(turn, i, s, seg) ==
    /\ seg.committedTurn = i
    /\ seg.lifecycle = "excluded" => Saying(turn, s) = {}
    /\ seg.lifecycle # "excluded" => seg.selected # 0 /\ \E c : Saying(turn, s) = {c}

Closed == {"ready", "interviewerProcessing", "interviewerTurn"}

\* SpeechIsCommittedOnce without cardinalities, and what makes it inductive:
\* nothing waits for its turn before the candidate was first given the floor.
CommitInv ==
    /\ \A i \in CandidateTurns : \A s \in turns[i].segments :
           s \in DOMAIN segments /\ SaidOnce(turns[i], i, s, segments[s])
    /\ \A i \in CandidateTurns : \A c \in turns[i].transcript : c[1] \in turns[i].segments
    /\ \A s \in DOMAIN segments \ Uncommitted :
           /\ segments[s].committedTurn \in CandidateTurns
           /\ s \in turns[segments[s].committedTurn].segments
    /\ phase \in Closed => Uncommitted = {}

\* A committed segment may be transcribed again; it is neither excluded nor
\* included any more, and keeps a selection.
KeepsCommitment(s) ==
    /\ s \in DOMAIN segments'
    /\ segments'[s].committedTurn = segments[s].committedTurn
    /\ segments[s].committedTurn # 0 =>
           /\ segments'[s].lifecycle = "excluded" <=> segments[s].lifecycle = "excluded"
           /\ segments[s].selected # 0 => segments'[s].selected # 0

LEMMA CommitWhenKept ==
    ASSUME TypeOK, CommitInv, UNCHANGED turns,
           \A s \in DOMAIN segments : KeepsCommitment(s),
           \A s \in DOMAIN segments' \ DOMAIN segments : segments'[s].committedTurn = 0,
           phase' \in Closed => phase \in Closed /\ DOMAIN segments' = DOMAIN segments
    PROVE  CommitInv'
  <1>1. CandidateTurns' = CandidateTurns
    BY DEF CandidateTurns
  <1>3. \A i \in CandidateTurns : i # 0
    BY DEF CandidateTurns, TypeOK
  <1>4. ASSUME NEW i \in CandidateTurns, NEW s \in turns[i].segments
        PROVE  s \in DOMAIN segments' /\ SaidOnce(turns'[i], i, s, segments'[s])
    <2>1. s \in DOMAIN segments /\ SaidOnce(turns[i], i, s, segments[s])
      BY <1>4 DEF CommitInv
    <2>2. /\ segments'[s].committedTurn = i
          /\ segments'[s].lifecycle = "excluded" <=> segments[s].lifecycle = "excluded"
          /\ segments[s].selected # 0 => segments'[s].selected # 0
      BY <1>3, <2>1 DEF KeepsCommitment, SaidOnce
    <2> QED
      BY <2>1, <2>2 DEF KeepsCommitment, SaidOnce
  <1>5. (DOMAIN segments \ Uncommitted)' = DOMAIN segments \ Uncommitted
    BY DEF Uncommitted, KeepsCommitment
  <1>6. ASSUME NEW s \in DOMAIN segments \ Uncommitted
        PROVE  /\ segments'[s].committedTurn \in CandidateTurns
               /\ s \in turns[segments'[s].committedTurn].segments
    BY <1>6 DEF CommitInv, KeepsCommitment
  <1>7. phase' \in Closed => Uncommitted' = {}
    BY DEF CommitInv, Uncommitted, KeepsCommitment
  <1>8. \A i \in CandidateTurns : \A c \in turns[i].transcript : c[1] \in turns[i].segments
    BY DEF CommitInv
  <1> QED
    BY <1>1, <1>4, <1>5, <1>6, <1>7, <1>8 DEF CommitInv

\* A command that rewrites one segment.
LEMMA CommitAfterRewrite ==
    ASSUME TypeOK, CommitInv, NEW s \in DOMAIN segments, NEW seg, RewriteSegment(s, seg),
           seg.committedTurn = segments[s].committedTurn,
           segments[s].committedTurn # 0 =>
               /\ seg.lifecycle = "excluded" <=> segments[s].lifecycle = "excluded"
               /\ segments[s].selected # 0 => seg.selected # 0
    PROVE  CommitInv'
  <1>1. /\ UNCHANGED <<phase, turns>>
        /\ DOMAIN segments' = DOMAIN segments /\ segments'[s] = seg
        /\ \A r \in DOMAIN segments : r # s => segments'[r] = segments[r]
    BY DEF RewriteSegment, TypeOK, conversation
  <1>2. \A r \in DOMAIN segments : KeepsCommitment(r)
    BY <1>1 DEF KeepsCommitment
  <1> QED
    BY <1>1, <1>2, CommitWhenKept

LEMMA CommitAfterSegment ==
    ASSUME TypeOK, FloorInv, CommitInv, NEW s \in DOMAIN segments, SegmentStep(s)
    PROVE  CommitInv'
  <1> DEFINE seg == segments[s]
  <1>1. seg \in CandidateSegment
    BY DEF TypeOK
  <1>2. isActiveSegment(seg) => seg.committedTurn = 0
    BY DEF FloorInv, ActiveSegments, Uncommitted
  <1>3. seg.committedTurn # 0 /\ seg.lifecycle # "excluded" => seg.selected # 0
    <2>1. ASSUME s \notin Uncommitted, seg.lifecycle # "excluded" PROVE seg.selected # 0
      BY <2>1 DEF CommitInv, SaidOnce
    <2> QED
      BY <2>1 DEF Uncommitted
  <1>4. CASE FinalizeSegment(s)
    <2> DEFINE new == [seg EXCEPT !.lifecycle = "finalizationAuthorized"]
    <2>1. new.committedTurn = seg.committedTurn
      BY <1>1 DEF CandidateSegment
    <2>2. RewriteSegment(s, new) /\ seg.committedTurn = 0
      BY <1>2, <1>4 DEF FinalizeSegment
    <2> HIDE DEF new
    <2> QED
      BY <2>1, <2>2, CommitAfterRewrite
  <1>5. CASE RecordRecordingStarted(s)
    <2> DEFINE new == [seg EXCEPT !.lifecycle = "recording"]
    <2>1. new.committedTurn = seg.committedTurn
      BY <1>1 DEF CandidateSegment
    <2>2. RewriteSegment(s, new) /\ seg.committedTurn = 0
      BY <1>2, <1>5 DEF RecordRecordingStarted, isActiveSegment
    <2> HIDE DEF new
    <2> QED
      BY <2>1, <2>2, CommitAfterRewrite
  <1>6. ASSUME NEW audio, RecordCaptureFinalized(s, audio) PROVE CommitInv'
    <2> DEFINE new == [seg EXCEPT !.audio = audio,
                          !.lifecycle = IF audio = "unplayable" THEN "failed" ELSE "audioReady"]
    <2>1. new.committedTurn = seg.committedTurn
      BY <1>1 DEF CandidateSegment
    <2>2. RewriteSegment(s, new) /\ seg.committedTurn = 0
      BY <1>2, <1>6 DEF RecordCaptureFinalized, isActiveSegment
    <2> HIDE DEF new
    <2> QED
      BY <2>1, <2>2, CommitAfterRewrite
  <1>7. CASE RecordCaptureFailed(s)
    <2> DEFINE new == [seg EXCEPT !.lifecycle = "failed"]
    <2>1. new.committedTurn = seg.committedTurn
      BY <1>1 DEF CandidateSegment
    <2>2. RewriteSegment(s, new) /\ seg.committedTurn = 0
      BY <1>2, <1>7 DEF RecordCaptureFailed
    <2> HIDE DEF new
    <2> QED
      BY <2>1, <2>2, CommitAfterRewrite
  <1>8. CASE ExcludeSegment(s)
    <2> DEFINE new == [seg EXCEPT !.lifecycle = "excluded"]
    <2>1. new.committedTurn = seg.committedTurn
      BY <1>1 DEF CandidateSegment
    <2>2. RewriteSegment(s, new) /\ seg.committedTurn = 0
      BY <1>8 DEF ExcludeSegment, Uncommitted
    <2> HIDE DEF new
    <2> QED
      BY <2>1, <2>2, CommitAfterRewrite
  <1>9. ASSUME NEW key, AuthorizeSegmentTranscription(s, key) PROVE CommitInv'
    <2> DEFINE new == [seg EXCEPT
                  !.attempts = Append(@, [state |-> "authorized", key |-> key, rank |-> 0]),
                  !.lifecycle = "transcribing"]
    <2>1. /\ new.committedTurn = seg.committedTurn /\ new.selected = seg.selected
          /\ new.lifecycle = "transcribing"
      BY <1>1 DEF CandidateSegment
    <2>2. RewriteSegment(s, new) /\ seg.lifecycle # "excluded"
      BY <1>9 DEF AuthorizeSegmentTranscription
    <2> HIDE DEF new
    <2> QED
      BY <2>1, <2>2, CommitAfterRewrite
  <1>10. ASSUME NEW i, NEW rank, NEW best \in DOMAIN seg.attempts,
                RecordTranscriptCandidate(s, i, rank, best)
         PROVE  CommitInv'
    <2> DEFINE attempts == [seg.attempts EXCEPT
                               ![i] = [@ EXCEPT !.state = "candidateStored", !.rank = rank]]
               new == [seg EXCEPT !.attempts = attempts, !.selected = best,
                                  !.lifecycle = "transcribed"]
    <2>1. /\ new.committedTurn = seg.committedTurn /\ new.selected = best
          /\ new.lifecycle = "transcribed"
      BY <1>1 DEF CandidateSegment
    <2>2. RewriteSegment(s, new) /\ seg.lifecycle # "excluded"
      BY <1>10 DEF RecordTranscriptCandidate
    <2>3. seg.attempts \in Seq(Attempt)
      BY <1>1 DEF CandidateSegment
    <2>4. best # 0
      BY <2>3
    <2> HIDE DEF new
    <2> QED
      BY <2>1, <2>2, <2>4, CommitAfterRewrite
  <1>11. ASSUME NEW i, NEW failure, RecordTranscriptionFailed(s, i, failure) PROVE CommitInv'
    <2> DEFINE attempts == [seg.attempts EXCEPT ![i] = [@ EXCEPT !.state = failure]]
               new == [seg EXCEPT !.attempts = attempts,
                          !.lifecycle = IF seg.selected = 0 THEN "audioReady" ELSE "transcribed"]
    <2>1. /\ new.committedTurn = seg.committedTurn /\ new.selected = seg.selected
          /\ new.lifecycle # "excluded"
      BY <1>1 DEF CandidateSegment
    <2>2. RewriteSegment(s, new) /\ seg.lifecycle # "excluded"
      BY <1>11 DEF RecordTranscriptionFailed
    <2> HIDE DEF new
    <2> QED
      BY <2>1, <2>2, CommitAfterRewrite
  <1>12. ASSUME NEW question, NEW context, AuthorizeEndpointEvaluation(s, question, context)
         PROVE  CommitInv'
    BY <1>12, CommitWhenKept DEF AuthorizeEndpointEvaluation, conversation, KeepsCommitment
  <1> QED
    BY <1>4, <1>5, <1>6, <1>7, <1>8, <1>9, <1>10, <1>11, <1>12 DEF SegmentStep

\* The commit every hand off shares takes all that waits for its turn, and each
\* of it that is not excluded has a transcript.
LEMMA CommitAfterHandOff ==
    ASSUME TypeOK, CommitInv, NEW nextGraces, NEW nextHolds,
           handOff(Uncommitted, nextGraces, nextHolds),
           \A s \in Draft : segments[s].selected # 0
    PROVE  CommitInv'
  <1> DEFINE n == Len(turns) + 1
             t == [role |-> "candidate", segments |-> Uncommitted,
                   transcript |-> Selected(Draft), replyTo |-> 0]
  <1>1. Len(turns) \in Nat /\ DOMAIN turns = 1..Len(turns)
    BY DEF TypeOK
  <1>2. /\ turns' = Append(turns, t) /\ DOMAIN segments' = DOMAIN segments
        /\ phase' = "interviewerProcessing"
    BY DEF handOff, Draft
  <1>3. /\ DOMAIN turns' = 1..n /\ turns'[n] = t
        /\ \A i \in 1..Len(turns) : turns'[i] = turns[i]
    BY <1>1, <1>2 DEF TypeOK
  <1>4. CandidateTurns' = CandidateTurns \union {n}
    BY <1>1, <1>3 DEF CandidateTurns
  <1>5. \A i \in CandidateTurns : i \in 1..Len(turns) /\ i # 0 /\ i # n
    BY <1>1 DEF CandidateTurns
  <1>6. ASSUME NEW s \in Uncommitted
        PROVE  /\ s \in DOMAIN segments /\ segments'[s].committedTurn = n
               /\ segments'[s].lifecycle = segments[s].lifecycle
               /\ segments'[s].selected = segments[s].selected
    <2>1. s \in DOMAIN segments /\ segments[s] \in CandidateSegment
      BY DEF TypeOK, Uncommitted
    <2> QED
      BY <2>1 DEF handOff, CandidateSegment, NextTurn
  <1>7. \A s \in DOMAIN segments \ Uncommitted : segments'[s] = segments[s]
    BY DEF handOff
  <1>8. ASSUME NEW i \in CandidateTurns
        PROVE  turns'[i] = turns[i]
    BY <1>3, <1>5
  <1>9. ASSUME NEW i \in CandidateTurns, NEW s \in turns[i].segments
        PROVE  s \in DOMAIN segments \ Uncommitted
    BY <1>5 DEF CommitInv, SaidOnce, Uncommitted
  <1>10. ASSUME NEW s
         PROVE  Saying(t, s) = IF s \in Draft THEN {<<s, segments[s].selected>>} ELSE {}
    <2>1. Saying(t, s) = {c \in Selected(Draft) : c[1] = s}
      BY DEF Saying
    <2>2. Selected(Draft) = {<<r, segments[r].selected>> : r \in Draft}
      BY DEF Selected
    <2> QED
      BY <2>1, <2>2
  <1>11. ASSUME NEW i \in CandidateTurns', NEW s \in turns'[i].segments
         PROVE  s \in DOMAIN segments' /\ SaidOnce(turns'[i], i, s, segments'[s])
    <2>1. CASE i \in CandidateTurns
      <3>1. s \in turns[i].segments
        BY <1>8, <1>11, <2>1
      <3>2. segments'[s] = segments[s] /\ turns'[i] = turns[i]
        BY <1>7, <1>8, <1>9, <2>1, <3>1
      <3>3. SaidOnce(turns[i], i, s, segments[s]) /\ s \in DOMAIN segments
        BY <2>1, <3>1 DEF CommitInv
      <3> QED
        BY <1>2, <3>2, <3>3
    <2>2. CASE i = n
      <3>1. s \in Uncommitted
        BY <1>3, <1>11, <2>2
      <3>2. s \in Draft <=> segments'[s].lifecycle # "excluded"
        BY <1>6, <3>1 DEF Draft, Excluded
      <3>3. s \in Draft => segments[s].selected # 0 /\ Saying(t, s) = {<<s, segments[s].selected>>}
        BY <1>10
      <3>4. s \notin Draft => Saying(t, s) = {}
        BY <1>10
      <3> HIDE DEF t
      <3> QED
        BY <1>2, <1>3, <1>6, <2>2, <3>1, <3>2, <3>3, <3>4 DEF SaidOnce
    <2> QED
      BY <1>4, <1>11, <2>1, <2>2
  <1>12. ASSUME NEW i \in CandidateTurns', NEW c \in turns'[i].transcript
         PROVE  c[1] \in turns'[i].segments
    <2>1. CASE i \in CandidateTurns
      BY <1>8, <1>12, <2>1 DEF CommitInv
    <2>2. CASE i = n
      <3>1. c \in Selected(Draft)
        BY <1>3, <1>12, <2>2
      <3>2. PICK r \in Draft : c = <<r, segments[r].selected>>
        BY <3>1 DEF Selected
      <3> QED
        BY <1>3, <2>2, <3>2 DEF Draft
    <2> QED
      BY <1>4, <1>12, <2>1, <2>2
  <1>13. ASSUME NEW s \in DOMAIN segments'
         PROVE  /\ segments'[s].committedTurn \in CandidateTurns'
                /\ s \in turns'[segments'[s].committedTurn].segments
    <2>1. CASE s \in Uncommitted
      BY <1>3, <1>4, <1>6, <2>1
    <2>2. CASE s \notin Uncommitted
      BY <1>2, <1>4, <1>7, <1>8, <2>2 DEF CommitInv
    <2> QED
      BY <2>1, <2>2
  <1>14. Uncommitted' = {}
    <2>1. \A s \in DOMAIN segments' : segments'[s].committedTurn # 0
      BY <1>1, <1>3, <1>13 DEF CandidateTurns
    <2> QED
      BY <2>1 DEF Uncommitted
  <1> QED
    BY <1>11, <1>12, <1>13, <1>14 DEF CommitInv

\* An interviewer turn is appended, or is the first.
LEMMA CommitAfterResponse ==
    ASSUME TypeOK, ConversationIsOrdered, CommitInv, InterviewerResponds
    PROVE  CommitInv'
  <1>1. PICK t : turns' = Append(turns, t) /\ t.role = "interviewer"
    <2>1. CASE provider = "opening"
      <3>1. turns = <<>>
        BY <2>1 DEF ConversationIsOrdered
      <3> QED
        BY <2>1, <3>1 DEF InterviewerResponds
    <2>2. CASE provider = "reply"
      BY <2>2 DEF InterviewerResponds
    <2> QED
      BY <2>1, <2>2 DEF InterviewerResponds
  <1>2. UNCHANGED segments /\ phase \in Closed
    BY DEF InterviewerResponds, ConversationIsOrdered, Closed
  <1>3. /\ Len(turns) \in Nat /\ DOMAIN turns = 1..Len(turns)
        /\ DOMAIN turns' = 1..(Len(turns) + 1) /\ turns'[Len(turns) + 1] = t
        /\ \A i \in 1..Len(turns) : turns'[i] = turns[i]
    BY <1>1 DEF TypeOK
  <1>4. /\ CandidateTurns' = CandidateTurns
        /\ \A i \in CandidateTurns : turns'[i] = turns[i]
    BY <1>1, <1>3 DEF CandidateTurns
  <1>6. Uncommitted' = Uncommitted
    BY <1>2 DEF Uncommitted
  <1>7. \A i \in CandidateTurns' : \A s \in turns'[i].segments :
            s \in DOMAIN segments' /\ SaidOnce(turns'[i], i, s, segments'[s])
    BY <1>2, <1>4 DEF CommitInv
  <1>8. \A i \in CandidateTurns' : \A c \in turns'[i].transcript : c[1] \in turns'[i].segments
    BY <1>4 DEF CommitInv
  <1>9. \A s \in DOMAIN segments' \ Uncommitted' :
            /\ segments'[s].committedTurn \in CandidateTurns'
            /\ s \in turns'[segments'[s].committedTurn].segments
    BY <1>2, <1>4, <1>6 DEF CommitInv
  <1> QED
    BY <1>2, <1>6, <1>7, <1>8, <1>9 DEF CommitInv

LEMMA CommitStep ==
    ASSUME TypeOK, ConversationIsOrdered, FloorInv, CommitInv, [Next]_vars
    PROVE  CommitInv'
  <1>1. CASE /\ UNCHANGED <<turns, segments>>
             /\ phase' \in Closed => phase \in Closed
    BY <1>1, CommitWhenKept DEF KeepsCommitment
  <1>2. CASE BeginSegment
    <2> DEFINE new == [lifecycle |-> "captureAuthorized", audio |-> "none", attempts |-> <<>>,
                       selected |-> 0, committedTurn |-> 0]
               n == Len(segments)
    <2>1. /\ UNCHANGED turns /\ phase' = "candidateFloor"
          /\ segments' = Append(segments, new)
      BY <1>2 DEF BeginSegment, conversation
    <2>2. new.committedTurn = 0
      OBVIOUS
    <2> HIDE DEF new
    <2>3. /\ DOMAIN segments' = 1..(n + 1) /\ DOMAIN segments = 1..n /\ n \in Nat
          /\ segments'[n + 1] = new
          /\ \A i \in 1..n : segments'[i] = segments[i]
      BY <2>1 DEF TypeOK
    <2>4. \A s \in DOMAIN segments : KeepsCommitment(s)
      BY <2>3 DEF KeepsCommitment
    <2>5. \A s \in DOMAIN segments' \ DOMAIN segments : segments'[s].committedTurn = 0
      BY <2>2, <2>3
    <2> QED
      BY <2>1, <2>4, <2>5, CommitWhenKept DEF Closed
  <1>3. CASE RoomStep
    BY <1>1, <1>2, <1>3
    DEF RoomStep, GiveCandidateFloor, SetTurnMode, UpdateCandidateNotes, UpdateBoardDraft,
        SaveBoardRevision, Finish, conversation, Closed
  <1>4. ASSUME NEW nextGraces, NEW nextHolds, handOffSegments(nextGraces, nextHolds)
        PROVE  CommitInv'
    BY <1>4, CommitAfterHandOff DEF handOffSegments
  <1>5. CASE HandOffText
    BY <1>5, CommitAfterHandOff DEF HandOffText, Draft
  <1>6. CASE HandOffStep
    <2>1. CASE RequestOpeningInterviewerTurn \/ RetryInterviewerResponse \/ InterviewerFails
      BY <1>1, <2>1
      DEF RequestOpeningInterviewerTurn, RetryInterviewerResponse, InterviewerFails,
          manifest, Closed
    <2> QED
      BY <1>4, <1>5, <1>6, <2>1, CommitAfterResponse
      DEF HandOffStep, HandOffSegments, SendAnswer
  <1>7. CASE EndpointStep
    <2>1. ASSUME NEW g, CompleteEndpointGrace(g) PROVE CommitInv'
      BY <1>4, <2>1 DEF CompleteEndpointGrace
    <2>2. ASSUME NEW e, NEW g, NEW decision,
                 \/ RecordEndpointProposal(e, decision) \/ RecordEndpointFailure(e)
                 \/ ActivateEndpointGrace(e) \/ CancelEndpointGrace(g) \/ ActivateFloorHold
          PROVE  CommitInv'
      BY <1>1, <2>2
      DEF RecordEndpointProposal, RecordEndpointFailure, ActivateEndpointGrace,
          CancelEndpointGrace, ActivateFloorHold, conversation
    <2> QED
      BY <1>7, <2>1, <2>2 DEF EndpointStep
  <1>8. CASE UNCHANGED vars \/ Crash \/ Relaunch
    BY <1>1, <1>8 DEF vars, Crash, Relaunch, manifest
  <1> QED
    BY <1>3, <1>6, <1>7, <1>8, CommitAfterSegment DEF Next

\* Stated with cardinalities, as `validate' does.
LEMMA CommittedOnce ==
    ASSUME TypeOK, FloorInv, CommitInv
    PROVE  SpeechIsCommittedOnce
  <1>1. Cardinality(ActiveSegments) <= 1
    <2>1. CASE ActiveSegments = {}
      BY <2>1, FS_EmptySet
    <2>2. ASSUME NEW s \in ActiveSegments PROVE Cardinality(ActiveSegments) <= 1
      <3>1. ActiveSegments = {s}
        BY <2>2 DEF FloorInv
      <3>2. Cardinality({s}) = 1
        BY FS_Singleton
      <3> QED
        BY <3>1, <3>2
    <2> QED
      BY <2>1, <2>2
  <1>2. SegmentsMatchTurns
    BY <1>1 DEF SegmentsMatchTurns, CommitInv, SaidOnce
  <1>3. ASSUME NEW i \in CandidateTurns, NEW s \in turns[i].segments
        PROVE  Cardinality({c \in turns[i].transcript : c[1] = s})
                   = IF s \in Excluded THEN 0 ELSE 1
    <2>1. Saying(turns[i], s) = {c \in turns[i].transcript : c[1] = s}
      BY DEF Saying
    <2>2. CASE s \in Excluded
      BY <2>1, <2>2, FS_EmptySet DEF CommitInv, SaidOnce, Excluded
    <2>3. CASE s \notin Excluded
      <3>1. PICK c : Saying(turns[i], s) = {c}
        BY <2>3 DEF CommitInv, SaidOnce, Excluded
      <3>2. Cardinality({c}) = 1
        BY FS_Singleton
      <3> QED
        BY <2>1, <2>3, <3>1, <3>2
    <2> QED
      BY <2>2, <2>3
  <1> QED
    BY <1>2, <1>3 DEF SpeechIsCommittedOnce, CommitInv, Closed

\* Nothing is committed at the start.
LEMMA CommitInit == segments = <<>> /\ CandidateTurns = {} => CommitInv
  BY DEF CommitInv, Uncommitted

\* Whatever is retried, excluded, crashed or restored, each segment belongs to
\* the one turn it names, and that turn says it once.
THEOREM SpeechCommitted == Spec => []SpeechIsCommittedOnce
  <1>1. Init => CommitInv
    BY CommitInit DEF Init, CandidateTurns
  <1>2. TypeOK /\ ConversationIsOrdered /\ FloorInv /\ CommitInv /\ [Next]_vars => CommitInv'
    BY CommitStep
  <1>3. TypeOK /\ ConversationIsOrdered /\ FloorInv /\ [Next]_vars => FloorInv'
    BY FloorStep
  <1>4. TypeOK /\ FloorInv /\ CommitInv => SpeechIsCommittedOnce
    BY CommittedOnce
  <1> QED
    BY <1>1, <1>2, <1>3, <1>4, FloorInit, TypeCorrect, ConversationOrdered, PTL DEF Spec

-----------------------------------------------------------------------------
(* What a grace hands off *)

WasJudged(g) ==
    /\ endpointGraces[g].lifecycle = "pending"
    /\ endpointGraces'[g].lifecycle = "completed"
    => LET ev == endpointEvaluations[endpointGraces[g].evaluation]
       IN  /\ ev.decision = "likelyEnd"
           /\ turns'[endpointGraces'[g].turn].transcript = ev.evidence
           /\ isLatestInterviewerTurn(ev.question)

LEMMA JudgedWhenCompleted ==
    ASSUME TypeOK, NEW c \in DOMAIN endpointGraces, CompleteEndpointGrace(c),
           NEW g \in DOMAIN endpointGraces
    PROVE  WasJudged(g)
  <1> DEFINE ev == endpointEvaluations[endpointGraces[g].evaluation]
             n == Len(turns) + 1
  <1>1. endpointGraces[c] \in EndpointGrace /\ turns \in Seq(Turn)
    BY DEF TypeOK
  <1>2. endpointGraces' = [endpointGraces EXCEPT ![c].lifecycle = "completed",
                                                 ![c].turn = n]
    BY DEF CompleteEndpointGrace, handOffSegments, handOff, NextTurn
  <1>3. CASE g # c
    BY <1>2, <1>3 DEF WasJudged
  <1>4. CASE g = c
    <2>1. ev.decision = "likelyEnd" /\ isLatestInterviewerTurn(ev.question)
          /\ Selected(Draft) = ev.evidence
      BY <1>4 DEF CompleteEndpointGrace, isCurrentEndpointEvaluation
    <2>2. endpointGraces'[g].turn = n
      BY <1>1, <1>2, <1>4 DEF EndpointGrace
    <2>3. turns' = Append(turns, [role |-> "candidate", segments |-> Uncommitted,
                                  transcript |-> Selected(Draft), replyTo |-> 0])
      BY DEF CompleteEndpointGrace, handOffSegments, handOff, Draft
    <2>4. turns'[n].transcript = Selected(Draft)
      BY <1>1, <2>3
    <2> QED
      BY <2>1, <2>2, <2>4 DEF WasJudged
  <1> QED
    BY <1>3, <1>4

\* Every step completes only graces that were judged.
LEMMA JudgedStep ==
    ASSUME TypeOK, Next, NEW g \in DOMAIN endpointGraces
    PROVE  WasJudged(g)
  <1>1. endpointGraces[g] \in EndpointGrace
    BY DEF TypeOK
  <1>2. CASE endpointGraces' = cancellingPendingEndpointGrace
    <2>1. endpointGraces'[g].lifecycle \in {"cancelled", endpointGraces[g].lifecycle}
      BY <1>1, <1>2 DEF cancellingPendingEndpointGrace, EndpointGrace
    <2> QED
      BY <2>1 DEF WasJudged
  <1>3. CASE UNCHANGED endpointGraces
    BY <1>3 DEF WasJudged
  <1>4. CASE RoomStep
    BY <1>2, <1>3, <1>4
    DEF RoomStep, GiveCandidateFloor, SetTurnMode, UpdateCandidateNotes, UpdateBoardDraft,
        SaveBoardRevision, BeginSegment, Finish, floorPolicy
  <1>5. ASSUME NEW s \in DOMAIN segments, SegmentStep(s) PROVE WasJudged(g)
    BY <1>3, <1>5
    DEF SegmentStep, FinalizeSegment, RecordRecordingStarted, RecordCaptureFinalized,
        RecordCaptureFailed, AuthorizeSegmentTranscription, RecordTranscriptCandidate,
        RecordTranscriptionFailed, ExcludeSegment, AuthorizeEndpointEvaluation,
        RewriteSegment, floorPolicy
  <1>6. CASE EndpointStep
    <2>1. ASSUME NEW c \in DOMAIN endpointGraces, CompleteEndpointGrace(c) PROVE WasJudged(g)
      BY <2>1, JudgedWhenCompleted
    <2>2. ASSUME NEW e, ActivateEndpointGrace(e) PROVE WasJudged(g)
      <3>1. PICK new : endpointGraces' = Append(endpointGraces, new)
        BY <2>2 DEF ActivateEndpointGrace
      <3>2. endpointGraces'[g] = endpointGraces[g]
        BY <3>1 DEF TypeOK
      <3> QED
        BY <3>2 DEF WasJudged
    <2>3. ASSUME NEW c, CancelEndpointGrace(c) PROVE WasJudged(g)
      <3>1. endpointGraces' = [endpointGraces EXCEPT ![c].lifecycle = "cancelled"]
        BY <2>3 DEF CancelEndpointGrace
      <3>2. endpointGraces'[g].lifecycle \in {"cancelled", endpointGraces[g].lifecycle}
        BY <1>1, <3>1 DEF EndpointGrace
      <3> QED
        BY <3>2 DEF WasJudged
    <2>4. ASSUME NEW e, NEW decision,
                 \/ RecordEndpointProposal(e, decision) \/ RecordEndpointFailure(e)
                 \/ ActivateFloorHold
          PROVE  WasJudged(g)
      BY <1>2, <1>3, <2>4
      DEF RecordEndpointProposal, RecordEndpointFailure, ActivateFloorHold, floorPolicy
    <2> QED
      BY <1>6, <2>1, <2>2, <2>3, <2>4 DEF EndpointStep
  <1>7. CASE HandOffStep
    BY <1>2, <1>3, <1>7
    DEF HandOffStep, HandOffText, HandOffSegments, SendAnswer, handOffSegments, handOff,
        RequestOpeningInterviewerTurn, RetryInterviewerResponse, InterviewerResponds,
        InterviewerFails, manifest
  <1>8. CASE Crash \/ Relaunch
    BY <1>3, <1>8 DEF Crash, Relaunch, manifest
  <1> QED
    BY <1>4, <1>5, <1>6, <1>7, <1>8 DEF Next

\* Only the classifier's own evidence is handed off automatically, and only as
\* the answer to the question it judged.
THEOREM HandOffJudged == Spec => AutomaticHandOffWasJudged
  <1>1. TypeOK /\ [Next]_vars => [\A g \in DOMAIN endpointGraces : WasJudged(g)]_vars
    BY JudgedStep
  <1>2. [\A g \in DOMAIN endpointGraces : WasJudged(g)]_vars
        => [\A g \in DOMAIN endpointGraces :
              /\ endpointGraces[g].lifecycle = "pending"
              /\ endpointGraces'[g].lifecycle = "completed"
              => LET ev == endpointEvaluations[endpointGraces[g].evaluation]
                 IN  /\ ev.decision = "likelyEnd"
                     /\ turns'[endpointGraces'[g].turn].transcript = ev.evidence
                     /\ isLatestInterviewerTurn(ev.question)]_vars
    BY DEF WasJudged
  <1> QED
    BY <1>1, <1>2, TypeCorrect, PTL DEF Spec, AutomaticHandOffWasJudged

-----------------------------------------------------------------------------
(* The selected transcript *)

\* The selection names an attempt that stored a candidate.
SelectionInv ==
    \A s \in DOMAIN segments : segments[s].selected # 0 =>
        /\ segments[s].selected \in DOMAIN segments[s].attempts
        /\ segments[s].attempts[segments[s].selected].state = "candidateStored"

\* Segment `new' has the candidates of `old' and no worse a selection.
IsNoWorse(old, new) ==
    /\ \A i \in DOMAIN old.attempts : old.attempts[i].state = "candidateStored" =>
           i \in DOMAIN new.attempts /\ new.attempts[i].state = "candidateStored"
    /\ new.selected # 0 =>
           /\ new.selected \in DOMAIN new.attempts
           /\ new.attempts[new.selected].state = "candidateStored"
    /\ old.selected # 0 =>
           /\ new.selected # 0
           /\ new.attempts[new.selected].rank >= old.attempts[old.selected].rank

NoSelectionIsWorse ==
    /\ \A s \in DOMAIN segments : s \in DOMAIN segments' /\ IsNoWorse(segments[s], segments'[s])
    /\ \A s \in DOMAIN segments' \ DOMAIN segments : segments'[s].selected = 0

LEMMA SelectionAfterRewrite ==
    ASSUME TypeOK, SelectionInv, NEW s \in DOMAIN segments, NEW seg, RewriteSegment(s, seg),
           IsNoWorse(segments[s], seg)
    PROVE  NoSelectionIsWorse
  <1>1. /\ DOMAIN segments' = DOMAIN segments /\ segments'[s] = seg
        /\ \A r \in DOMAIN segments : r # s => segments'[r] = segments[r]
    BY DEF RewriteSegment, TypeOK
  <1>2. ASSUME NEW r \in DOMAIN segments PROVE IsNoWorse(segments[r], segments[r])
    <2>1. segments[r] \in CandidateSegment
      BY DEF TypeOK
    <2>2. segments[r].attempts \in Seq(Attempt)
      BY <2>1 DEF CandidateSegment
    <2>3. segments[r].selected # 0 =>
              segments[r].attempts[segments[r].selected] \in Attempt
      BY <2>2 DEF SelectionInv
    <2>4. segments[r].selected # 0 =>
              segments[r].attempts[segments[r].selected].rank \in Nat
      BY <2>3 DEF Attempt
    <2> QED
      BY <2>4 DEF IsNoWorse, SelectionInv
  <1> QED
    BY <1>1, <1>2 DEF NoSelectionIsWorse

\* Attempts that are added or fail leave the stored candidates alone.
LEMMA SelectionKept ==
    ASSUME TypeOK, SelectionInv, NEW s \in DOMAIN segments, NEW new,
           new.selected = segments[s].selected,
           \A i \in DOMAIN segments[s].attempts :
               segments[s].attempts[i].state = "candidateStored" =>
                   i \in DOMAIN new.attempts /\ new.attempts[i] = segments[s].attempts[i]
    PROVE  IsNoWorse(segments[s], new)
  <1> DEFINE old == segments[s]
  <1>1. old \in CandidateSegment
    BY DEF TypeOK
  <1>2. old.attempts \in Seq(Attempt)
    BY <1>1 DEF CandidateSegment
  <1>3. old.selected # 0 =>
            /\ old.selected \in DOMAIN old.attempts
            /\ old.attempts[old.selected].state = "candidateStored"
    BY DEF SelectionInv
  <1>4. old.selected # 0 => old.attempts[old.selected] \in Attempt
    BY <1>2, <1>3
  <1>5. old.selected # 0 => old.attempts[old.selected].rank \in Nat
    BY <1>4 DEF Attempt
  <1>6. old.selected # 0 => old.selected \in DOMAIN new.attempts
                            /\ new.attempts[old.selected] = old.attempts[old.selected]
    BY <1>3
  <1> QED
    BY <1>3, <1>5, <1>6 DEF IsNoWorse

LEMMA SelectionAfterSegment ==
    ASSUME TypeOK, SelectionInv, NEW s \in DOMAIN segments, SegmentStep(s)
    PROVE  NoSelectionIsWorse
  <1> DEFINE seg == segments[s]
  <1>1. seg \in CandidateSegment
    BY DEF TypeOK
  <1>2. /\ seg.attempts \in Seq(Attempt) /\ Len(seg.attempts) \in Nat
        /\ DOMAIN seg.attempts = 1..Len(seg.attempts)
    <2>1. seg.attempts \in Seq(Attempt)
      BY <1>1 DEF CandidateSegment
    <2> QED
      BY <2>1
  <1>3. ASSUME NEW new, RewriteSegment(s, new),
               new.attempts = seg.attempts, new.selected = seg.selected
        PROVE  NoSelectionIsWorse
    BY <1>3, SelectionKept, SelectionAfterRewrite
  <1>4. CASE FinalizeSegment(s)
    <2> DEFINE new == [seg EXCEPT !.lifecycle = "finalizationAuthorized"]
    <2>1. new.attempts = seg.attempts /\ new.selected = seg.selected
      BY <1>1 DEF CandidateSegment
    <2> QED
      BY <1>3, <1>4, <2>1 DEF FinalizeSegment
  <1>5. CASE RecordRecordingStarted(s)
    <2> DEFINE new == [seg EXCEPT !.lifecycle = "recording"]
    <2>1. new.attempts = seg.attempts /\ new.selected = seg.selected
      BY <1>1 DEF CandidateSegment
    <2> QED
      BY <1>3, <1>5, <2>1 DEF RecordRecordingStarted
  <1>6. ASSUME NEW audio, RecordCaptureFinalized(s, audio) PROVE NoSelectionIsWorse
    <2> DEFINE new == [seg EXCEPT !.audio = audio,
                          !.lifecycle = IF audio = "unplayable" THEN "failed" ELSE "audioReady"]
    <2>1. new.attempts = seg.attempts /\ new.selected = seg.selected
      BY <1>1 DEF CandidateSegment
    <2> QED
      BY <1>3, <1>6, <2>1 DEF RecordCaptureFinalized
  <1>7. CASE RecordCaptureFailed(s)
    <2> DEFINE new == [seg EXCEPT !.lifecycle = "failed"]
    <2>1. new.attempts = seg.attempts /\ new.selected = seg.selected
      BY <1>1 DEF CandidateSegment
    <2> QED
      BY <1>3, <1>7, <2>1 DEF RecordCaptureFailed
  <1>8. CASE ExcludeSegment(s)
    <2> DEFINE new == [seg EXCEPT !.lifecycle = "excluded"]
    <2>1. new.attempts = seg.attempts /\ new.selected = seg.selected
      BY <1>1 DEF CandidateSegment
    <2> QED
      BY <1>3, <1>8, <2>1 DEF ExcludeSegment
  <1>9. ASSUME NEW key, AuthorizeSegmentTranscription(s, key) PROVE NoSelectionIsWorse
    <2> DEFINE attempt == [state |-> "authorized", key |-> key, rank |-> 0]
               new == [seg EXCEPT !.attempts = Append(@, attempt), !.lifecycle = "transcribing"]
    <2>1. /\ new.attempts = Append(seg.attempts, attempt) /\ new.selected = seg.selected
          /\ RewriteSegment(s, new)
      BY <1>1, <1>9 DEF CandidateSegment, AuthorizeSegmentTranscription
    <2> HIDE DEF new, attempt
    <2>2. \A i \in DOMAIN seg.attempts :
              i \in DOMAIN new.attempts /\ new.attempts[i] = seg.attempts[i]
      BY <1>2, <2>1
    <2> QED
      BY <2>1, <2>2, SelectionKept, SelectionAfterRewrite
  <1>10. ASSUME NEW i \in DOMAIN seg.attempts, NEW failure,
                RecordTranscriptionFailed(s, i, failure)
         PROVE  NoSelectionIsWorse
    <2> DEFINE attempts == [seg.attempts EXCEPT ![i] = [@ EXCEPT !.state = failure]]
               new == [seg EXCEPT !.attempts = attempts,
                          !.lifecycle = IF seg.selected = 0 THEN "audioReady" ELSE "transcribed"]
    <2>1. /\ new.attempts = attempts /\ new.selected = seg.selected
          /\ RewriteSegment(s, new) /\ seg.attempts[i].state = "authorized"
      BY <1>1, <1>10 DEF CandidateSegment, RecordTranscriptionFailed
    <2>2. /\ DOMAIN attempts = DOMAIN seg.attempts
          /\ \A j \in DOMAIN seg.attempts : j # i => attempts[j] = seg.attempts[j]
      OBVIOUS
    <2> HIDE DEF new, attempts
    <2> QED
      BY <2>1, <2>2, SelectionKept, SelectionAfterRewrite
  <1>11. ASSUME NEW i \in DOMAIN seg.attempts, NEW rank \in 1..MaxRank,
                NEW best \in DOMAIN seg.attempts, RecordTranscriptCandidate(s, i, rank, best)
         PROVE  NoSelectionIsWorse
    <2> DEFINE attempts == [seg.attempts EXCEPT
                               ![i] = [@ EXCEPT !.state = "candidateStored", !.rank = rank]]
               new == [seg EXCEPT !.attempts = attempts, !.selected = best,
                                  !.lifecycle = "transcribed"]
    <2>1. /\ new.attempts = attempts /\ new.selected = best
          /\ RewriteSegment(s, new) /\ seg.attempts[i].state = "authorized"
          /\ isBestCandidate(attempts, best)
      BY <1>1, <1>11 DEF CandidateSegment, RecordTranscriptCandidate
    <2>2. /\ DOMAIN attempts = DOMAIN seg.attempts
          /\ \A j \in DOMAIN seg.attempts : j # i => attempts[j] = seg.attempts[j]
      OBVIOUS
    <2>3. \A j \in DOMAIN attempts : attempts[j].rank \in Nat
      <3>1. \A j \in DOMAIN seg.attempts : seg.attempts[j] \in Attempt
        BY <1>2
      <3>2. attempts[i] = [seg.attempts[i] EXCEPT !.state = "candidateStored", !.rank = rank]
        OBVIOUS
      <3>3. attempts[i].rank = rank /\ rank \in Nat
        BY <3>1, <3>2, BoundsAssumption DEF Attempt
      <3> QED
        BY <2>2, <3>1, <3>3 DEF Attempt
    <2>4. seg.selected # 0 => /\ seg.selected \in DOMAIN seg.attempts
                              /\ seg.attempts[seg.selected].state = "candidateStored"
      BY DEF SelectionInv
    <2>5. seg.selected # 0 => attempts[seg.selected] = seg.attempts[seg.selected]
      BY <2>1, <2>2, <2>4
    <2> HIDE DEF new, attempts
    <2>6. best \in DOMAIN attempts /\ attempts[best].state = "candidateStored"
      BY <2>1 DEF isBestCandidate
    <2>7. \A j \in DOMAIN attempts : attempts[j].state = "candidateStored" =>
              attempts[best].rank >= attempts[j].rank
      BY <2>1, <2>3, <2>6 DEF isBestCandidate
    <2>8. best # 0
      BY <1>2
    <2>9. IsNoWorse(seg, new)
      BY <2>1, <2>2, <2>4, <2>5, <2>6, <2>7, <2>8 DEF IsNoWorse
    <2> QED
      BY <2>1, <2>9, SelectionAfterRewrite
  <1>12. ASSUME UNCHANGED segments PROVE NoSelectionIsWorse
    BY <1>12, SelectionKept DEF NoSelectionIsWorse
  <1>13. ASSUME NEW question, NEW context, AuthorizeEndpointEvaluation(s, question, context)
         PROVE  NoSelectionIsWorse
    BY <1>12, <1>13 DEF AuthorizeEndpointEvaluation
  <1> QED
    BY <1>4, <1>5, <1>6, <1>7, <1>8, <1>9, <1>10, <1>11, <1>13 DEF SegmentStep

LEMMA SelectionStep ==
    ASSUME TypeOK, SelectionInv, [Next]_vars
    PROVE  NoSelectionIsWorse
  <1>1. ASSUME UNCHANGED segments PROVE NoSelectionIsWorse
    BY <1>1, SelectionKept DEF NoSelectionIsWorse
  <1>2. CASE BeginSegment
    <2>1. PICK new : segments' = Append(segments, new) /\ new.selected = 0
      BY <1>2 DEF BeginSegment
    <2>2. /\ DOMAIN segments = 1..Len(segments) /\ Len(segments) \in Nat
          /\ DOMAIN segments' = 1..(Len(segments) + 1)
          /\ segments'[Len(segments) + 1] = new
          /\ \A s \in DOMAIN segments : segments'[s] = segments[s]
      BY <2>1 DEF TypeOK
    <2>3. \A s \in DOMAIN segments : s \in DOMAIN segments' /\ IsNoWorse(segments[s], segments'[s])
      BY <2>2, SelectionKept
    <2> QED
      BY <2>1, <2>2, <2>3 DEF NoSelectionIsWorse
  <1>3. CASE RoomStep
    BY <1>1, <1>2, <1>3 DEF RoomStep, GiveCandidateFloor, SetTurnMode, UpdateCandidateNotes,
                            UpdateBoardDraft, SaveBoardRevision, Finish
  <1>4. ASSUME NEW members, NEW nextGraces, NEW nextHolds,
               handOff(members, nextGraces, nextHolds)
        PROVE  NoSelectionIsWorse
    <2>1. DOMAIN segments' = DOMAIN segments
      BY <1>4 DEF handOff
    <2>2. ASSUME NEW s \in DOMAIN segments PROVE IsNoWorse(segments[s], segments'[s])
      <3>1. segments[s] \in CandidateSegment
        BY DEF TypeOK
      <3>2. /\ segments'[s].attempts = segments[s].attempts
            /\ segments'[s].selected = segments[s].selected
        BY <1>4, <3>1 DEF handOff, CandidateSegment
      <3> QED
        BY <3>2, SelectionKept
    <2> QED
      BY <2>1, <2>2 DEF NoSelectionIsWorse
  <1>5. CASE HandOffStep
    <2>1. CASE HandOffText \/ HandOffSegments \/ SendAnswer
      BY <1>4, <2>1 DEF HandOffText, HandOffSegments, SendAnswer, handOffSegments
    <2> QED
      BY <1>1, <1>5, <2>1
      DEF HandOffStep, RequestOpeningInterviewerTurn, RetryInterviewerResponse,
          InterviewerResponds, InterviewerFails, manifest
  <1>6. CASE EndpointStep
    <2>1. ASSUME NEW g, CompleteEndpointGrace(g) PROVE NoSelectionIsWorse
      BY <1>4, <2>1 DEF CompleteEndpointGrace, handOffSegments
    <2> QED
      BY <1>1, <1>6, <2>1
      DEF EndpointStep, RecordEndpointProposal, RecordEndpointFailure, ActivateEndpointGrace,
          CancelEndpointGrace, ActivateFloorHold
  <1>7. CASE UNCHANGED vars \/ Crash \/ Relaunch
    BY <1>1, <1>7 DEF vars, Crash, Relaunch, manifest
  <1> QED
    BY <1>3, <1>5, <1>6, <1>7, SelectionAfterSegment DEF Next

\* A retry, however late it answers, never replaces a better transcript.
THEOREM SelectionKeeps == Spec => SelectionNeverDegrades
  <1>1. Init => SelectionInv
    BY DEF Init, SelectionInv
  <1>2. TypeOK /\ SelectionInv /\ [Next]_vars => SelectionInv'
    <2> SUFFICES ASSUME NoSelectionIsWorse PROVE SelectionInv'
      BY SelectionStep
    <2> QED
      BY DEF NoSelectionIsWorse, IsNoWorse, SelectionInv
  <1>3. TypeOK /\ SelectionInv /\ [Next]_vars
        => [\A s \in DOMAIN segments : segments[s].selected # 0 =>
              /\ segments'[s].selected # 0
              /\ segments'[s].attempts[segments'[s].selected].rank
                     >= segments[s].attempts[segments[s].selected].rank]_vars
    BY SelectionStep DEF NoSelectionIsWorse, IsNoWorse
  <1> QED
    BY <1>1, <1>2, <1>3, TypeCorrect, PTL DEF Spec, SelectionNeverDegrades

-----------------------------------------------------------------------------
(* The histories of the floor policy *)

\* What an evaluation cites exists: one stored candidate a segment, its
\* trigger's among them, and the question asked.
Cites(ev, said, conversed) ==
    /\ ev.evidence # {}
    /\ \A c \in ev.evidence :
           /\ c[1] \in DOMAIN said
           /\ c[2] \in DOMAIN said[c[1]].attempts
           /\ said[c[1]].attempts[c[2]].state = "candidateStored"
    /\ \A c, d \in ev.evidence : d[1] = c[1] => d = c
    /\ \E c \in ev.evidence : c[1] = ev.trigger
    /\ ev.question # 0 => ev.question \in DOMAIN conversed /\ conversed[ev.question].role = "interviewer"

CitationsInv ==
    /\ \A e \in DOMAIN endpointEvaluations : Cites(endpointEvaluations[e], segments, turns)
    /\ \A e \in DOMAIN endpointEvaluations :
           (endpointEvaluations[e].lifecycle = "proposalStored")
               <=> (endpointEvaluations[e].decision # "none")
    /\ \A e, f \in DOMAIN endpointEvaluations :
           endpointEvaluations[f].context = endpointEvaluations[e].context => f = e

\* Each grace has a proposal of its own, for the evidence it would hand off.
GroundsInv ==
    /\ \A g \in DOMAIN endpointGraces :
           LET grace == endpointGraces[g]
           IN  /\ grace.evaluation \in DOMAIN endpointEvaluations
               /\ endpointEvaluations[grace.evaluation].lifecycle = "proposalStored"
               /\ endpointEvaluations[grace.evaluation].decision = "likelyEnd"
               /\ endpointEvaluations[grace.evaluation].evidence = grace.evidence
    /\ \A f, g \in DOMAIN endpointGraces :
           endpointGraces[f].evaluation = endpointGraces[g].evaluation => f = g

SentInv == \A h \in DOMAIN floorHolds :
               floorHolds[h].turn # 0 => floorHolds[h].turn \in CandidateTurns

\* Candidates and turns are never withdrawn, so citations stay good.
LEMMA CitationsStay ==
    ASSUME NoSelectionIsWorse,
           \A i \in DOMAIN turns : i \in DOMAIN turns' /\ turns'[i] = turns[i],
           NEW ev, Cites(ev, segments, turns), NEW new, new.evidence = ev.evidence,
           new.trigger = ev.trigger, new.question = ev.question
    PROVE  Cites(new, segments', turns')
  <1>1. \A c \in ev.evidence :
            /\ c[1] \in DOMAIN segments'
            /\ c[2] \in DOMAIN segments'[c[1]].attempts
            /\ segments'[c[1]].attempts[c[2]].state = "candidateStored"
    BY DEF Cites, NoSelectionIsWorse, IsNoWorse
  <1>2. ev.question # 0 => ev.question \in DOMAIN turns' /\ turns'[ev.question].role = "interviewer"
    BY DEF Cites
  <1> QED
    BY <1>1, <1>2 DEF Cites

\* What may happen to the evaluations, the graces and the holds.
LEMMA EvaluationsMove ==
    ASSUME [Next]_vars
    PROVE  \/ UNCHANGED endpointEvaluations
           \/ \E s \in DOMAIN segments, question \in 0..Len(turns), context \in Contexts :
                  AuthorizeEndpointEvaluation(s, question, context)
           \/ \E e \in DOMAIN endpointEvaluations :
                  \/ \E decision \in {"likelyEnd", "likelyContinue", "ambiguous"} :
                         RecordEndpointProposal(e, decision)
                  \/ RecordEndpointFailure(e)
  <1>1. CASE RoomStep \/ UNCHANGED vars \/ Crash \/ Relaunch
    BY <1>1 DEF RoomStep, GiveCandidateFloor, SetTurnMode, UpdateCandidateNotes,
                UpdateBoardDraft, SaveBoardRevision, BeginSegment, Finish, vars, Crash,
                Relaunch, manifest
  <1>2. ASSUME NEW s \in DOMAIN segments, SegmentStep(s)
        PROVE  \/ UNCHANGED endpointEvaluations
               \/ \E question \in 0..Len(turns), context \in Contexts :
                      AuthorizeEndpointEvaluation(s, question, context)
    BY <1>2
    DEF SegmentStep, FinalizeSegment, RecordRecordingStarted, RecordCaptureFinalized,
        RecordCaptureFailed, AuthorizeSegmentTranscription, RecordTranscriptCandidate,
        RecordTranscriptionFailed, ExcludeSegment, RewriteSegment
  <1>3. CASE EndpointStep
    BY <1>3 DEF EndpointStep, ActivateEndpointGrace, CancelEndpointGrace,
                CompleteEndpointGrace, handOffSegments, handOff, ActivateFloorHold
  <1>4. CASE HandOffStep
    BY <1>4
    DEF HandOffStep, HandOffText, HandOffSegments, SendAnswer, handOffSegments, handOff,
        RequestOpeningInterviewerTurn, RetryInterviewerResponse, InterviewerResponds,
        InterviewerFails, manifest
  <1> QED
    BY <1>1, <1>2, <1>3, <1>4 DEF Next

\* The graces of a step keep their grounds.
KeepsGrounds(next) ==
    /\ DOMAIN next = DOMAIN endpointGraces
    /\ \A g \in DOMAIN endpointGraces :
           /\ next[g].evaluation = endpointGraces[g].evaluation
           /\ next[g].evidence = endpointGraces[g].evidence

LEMMA GracesMove ==
    ASSUME TypeOK, [Next]_vars
    PROVE  \/ KeepsGrounds(endpointGraces')
           \/ \E e \in DOMAIN endpointEvaluations : ActivateEndpointGrace(e)
  <1>1. \A g \in DOMAIN endpointGraces : endpointGraces[g] \in EndpointGrace
    BY DEF TypeOK
  <1>2. KeepsGrounds(cancellingPendingEndpointGrace)
    BY <1>1 DEF KeepsGrounds, cancellingPendingEndpointGrace, EndpointGrace
  <1>3. ASSUME UNCHANGED endpointGraces PROVE KeepsGrounds(endpointGraces')
    BY <1>3 DEF KeepsGrounds
  <1>4. ASSUME NEW g,
               \/ CancelEndpointGrace(g)
               \/ CompleteEndpointGrace(g)
        PROVE  KeepsGrounds(endpointGraces')
    <2>1. CASE CancelEndpointGrace(g)
      <3>1. endpointGraces' = [endpointGraces EXCEPT ![g].lifecycle = "cancelled"]
        BY <2>1 DEF CancelEndpointGrace
      <3> QED
        BY <1>1, <3>1 DEF KeepsGrounds, EndpointGrace
    <2>2. CASE CompleteEndpointGrace(g)
      <3>1. endpointGraces' = [endpointGraces EXCEPT ![g].lifecycle = "completed",
                                                     ![g].turn = NextTurn]
        BY <2>2 DEF CompleteEndpointGrace, handOffSegments, handOff
      <3> QED
        BY <1>1, <3>1 DEF KeepsGrounds, EndpointGrace
    <2> QED
      BY <1>4, <2>1, <2>2
  <1>5. CASE RoomStep \/ UNCHANGED vars \/ Crash \/ Relaunch
    BY <1>2, <1>3, <1>5
    DEF RoomStep, GiveCandidateFloor, SetTurnMode, UpdateCandidateNotes, UpdateBoardDraft,
        SaveBoardRevision, BeginSegment, Finish, vars, Crash, Relaunch, manifest, floorPolicy
  <1>6. ASSUME NEW s \in DOMAIN segments, SegmentStep(s) PROVE KeepsGrounds(endpointGraces')
    BY <1>3, <1>6
    DEF SegmentStep, FinalizeSegment, RecordRecordingStarted, RecordCaptureFinalized,
        RecordCaptureFailed, AuthorizeSegmentTranscription, RecordTranscriptCandidate,
        RecordTranscriptionFailed, ExcludeSegment, AuthorizeEndpointEvaluation,
        RewriteSegment, floorPolicy
  <1>7. CASE EndpointStep
    BY <1>2, <1>3, <1>4, <1>7
    DEF EndpointStep, RecordEndpointProposal, RecordEndpointFailure, ActivateFloorHold,
        floorPolicy
  <1>8. CASE HandOffStep
    BY <1>2, <1>3, <1>8
    DEF HandOffStep, HandOffText, HandOffSegments, SendAnswer, handOffSegments, handOff,
        RequestOpeningInterviewerTurn, RetryInterviewerResponse, InterviewerResponds,
        InterviewerFails, manifest
  <1> QED
    BY <1>5, <1>6, <1>7, <1>8 DEF Next

LEMMA CitationsStep ==
    ASSUME TypeOK, SelectionInv, ConversationIsOrdered, CitationsInv, [Next]_vars
    PROVE  /\ CitationsInv'
           /\ \A e \in DOMAIN endpointEvaluations :
                  /\ e \in DOMAIN endpointEvaluations'
                  /\ endpointEvaluations[e].lifecycle = "proposalStored" =>
                         endpointEvaluations'[e] = endpointEvaluations[e]
  <1>1. NoSelectionIsWorse
    BY SelectionStep
  <1>2. TypeOK'
    BY TypeStep
  <1>3. \A i \in DOMAIN turns : i \in DOMAIN turns' /\ turns'[i] = turns[i]
    <2>1. Grows
      BY GrowStep DEF Grows, TypeOK, vars
    <2>2. /\ DOMAIN turns = 1..Len(turns) /\ Len(turns) \in Nat
          /\ DOMAIN turns' = 1..Len(turns') /\ Len(turns') \in Nat
      BY <1>2 DEF TypeOK
    <2> QED
      BY <2>1, <2>2 DEF Grows
  <1>4. CASE UNCHANGED endpointEvaluations
    <2>1. \A e \in DOMAIN endpointEvaluations : Cites(endpointEvaluations'[e], segments', turns')
      BY <1>1, <1>3, <1>4, CitationsStay DEF CitationsInv
    <2> QED
      BY <1>4, <2>1 DEF CitationsInv
  <1>5. ASSUME NEW s \in DOMAIN segments, NEW question \in 0..Len(turns),
               NEW context \in Contexts, AuthorizeEndpointEvaluation(s, question, context)
        PROVE  /\ CitationsInv'
               /\ \A e \in DOMAIN endpointEvaluations :
                      /\ e \in DOMAIN endpointEvaluations'
                      /\ endpointEvaluations'[e] = endpointEvaluations[e]
    <2> DEFINE ev == [trigger |-> s, evidence |-> Selected(Draft),
                      question |-> question, context |-> context,
                      lifecycle |-> "authorized", decision |-> "none"]
               n == Len(endpointEvaluations) + 1
    <2>1. /\ endpointEvaluations' = Append(endpointEvaluations, ev)
          /\ UNCHANGED <<turns, segments>>
          /\ DraftIsSettled /\ s \in Draft /\ isLatestInterviewerTurn(question)
          /\ \A e \in DOMAIN endpointEvaluations : endpointEvaluations[e].context # context
      BY <1>5 DEF AuthorizeEndpointEvaluation, conversation
    <2>2. \A r \in Draft : /\ r \in DOMAIN segments /\ segments[r].selected # 0
                           /\ segments[r].selected \in DOMAIN segments[r].attempts
                           /\ segments[r].attempts[segments[r].selected].state = "candidateStored"
      BY <2>1 DEF DraftIsSettled, Draft, Uncommitted, SelectionInv
    <2>3. Selected(Draft) = {<<r, segments[r].selected>> : r \in Draft}
      BY <2>2 DEF Selected
    <2>4. question # 0 => question \in DOMAIN turns /\ turns[question].role = "interviewer"
      BY <2>1 DEF isLatestInterviewerTurn, InterviewerTurns
    <2>5. Cites(ev, segments, turns)
      <3>1. Selected(Draft) # {} /\ \E c \in Selected(Draft) : c[1] = s
        <4>1. <<s, segments[s].selected>> \in Selected(Draft)
          BY <2>1, <2>3
        <4>2. <<s, segments[s].selected>>[1] = s
          OBVIOUS
        <4> QED
          BY <4>1, <4>2
      <3>2. \A c \in Selected(Draft) :
                /\ c[1] \in DOMAIN segments
                /\ c[2] \in DOMAIN segments[c[1]].attempts
                /\ segments[c[1]].attempts[c[2]].state = "candidateStored"
        BY <2>2, <2>3
      <3>3. \A c, d \in Selected(Draft) : d[1] = c[1] => d = c
        BY <2>3
      <3>4. ev.evidence = Selected(Draft) /\ ev.trigger = s /\ ev.question = question
        OBVIOUS
      <3> HIDE DEF ev
      <3> QED
        BY <2>4, <3>1, <3>2, <3>3, <3>4 DEF Cites
    <2>6. ev.lifecycle = "authorized" /\ ev.decision = "none" /\ ev.context = context
      OBVIOUS
    <2> HIDE DEF ev
    <2>7. /\ DOMAIN endpointEvaluations' = 1..n /\ endpointEvaluations'[n] = ev
          /\ DOMAIN endpointEvaluations = 1..(n - 1) /\ n - 1 \in Nat
          /\ \A e \in 1..(n - 1) : endpointEvaluations'[e] = endpointEvaluations[e]
      BY <2>1 DEF TypeOK
    <2>8. \A e \in 1..(n - 1) : Cites(endpointEvaluations'[e], segments', turns')
      <3> SUFFICES ASSUME NEW e \in 1..(n - 1) PROVE Cites(endpointEvaluations'[e], segments', turns')
        OBVIOUS
      <3>1. Cites(endpointEvaluations[e], segments, turns) /\ endpointEvaluations'[e] = endpointEvaluations[e]
        BY <2>7 DEF CitationsInv
      <3> QED
        BY <1>1, <1>3, <3>1, CitationsStay
    <2>9. Cites(endpointEvaluations'[n], segments', turns')
      BY <1>1, <1>3, <2>5, <2>7, CitationsStay
    <2>10. \A e \in DOMAIN endpointEvaluations' : Cites(endpointEvaluations'[e], segments', turns')
      BY <2>7, <2>8, <2>9
    <2>11. \A e \in DOMAIN endpointEvaluations' :
              (endpointEvaluations'[e].lifecycle = "proposalStored")
                  <=> (endpointEvaluations'[e].decision # "none")
      BY <2>6, <2>7 DEF CitationsInv
    <2>12. \A e, f \in DOMAIN endpointEvaluations' :
              endpointEvaluations'[f].context = endpointEvaluations'[e].context => f = e
      BY <2>1, <2>6, <2>7 DEF CitationsInv
    <2> QED
      BY <2>7, <2>10, <2>11, <2>12 DEF CitationsInv
  <1>6. ASSUME NEW e \in Authorized, NEW ev,
               endpointEvaluations' = [endpointEvaluations EXCEPT ![e] = ev],
               ev.evidence = endpointEvaluations[e].evidence,
               ev.trigger = endpointEvaluations[e].trigger,
               ev.question = endpointEvaluations[e].question,
               ev.context = endpointEvaluations[e].context,
               (ev.lifecycle = "proposalStored") <=> (ev.decision # "none")
        PROVE  /\ CitationsInv'
               /\ \A f \in DOMAIN endpointEvaluations :
                      /\ f \in DOMAIN endpointEvaluations'
                      /\ endpointEvaluations[f].lifecycle = "proposalStored" =>
                             endpointEvaluations'[f] = endpointEvaluations[f]
    <2>1. /\ e \in DOMAIN endpointEvaluations
          /\ endpointEvaluations[e].lifecycle # "proposalStored"
      BY DEF Authorized
    <2>2. /\ DOMAIN endpointEvaluations' = DOMAIN endpointEvaluations
          /\ endpointEvaluations'[e] = ev
          /\ \A f \in DOMAIN endpointEvaluations :
                 f # e => endpointEvaluations'[f] = endpointEvaluations[f]
      BY <1>6, <2>1
    <2>3. ASSUME NEW f \in DOMAIN endpointEvaluations
          PROVE  Cites(endpointEvaluations'[f], segments', turns')
      <3>1. Cites(endpointEvaluations[f], segments, turns)
        BY DEF CitationsInv
      <3>2. /\ endpointEvaluations'[f].evidence = endpointEvaluations[f].evidence
            /\ endpointEvaluations'[f].trigger = endpointEvaluations[f].trigger
            /\ endpointEvaluations'[f].question = endpointEvaluations[f].question
        BY <1>6, <2>2
      <3> QED
        BY <1>1, <1>3, <3>1, <3>2, CitationsStay
    <2>4. \A f \in DOMAIN endpointEvaluations :
              /\ endpointEvaluations'[f].context = endpointEvaluations[f].context
              /\ (endpointEvaluations'[f].lifecycle = "proposalStored")
                     <=> (endpointEvaluations'[f].decision # "none")
      BY <1>6, <2>2 DEF CitationsInv
    <2> QED
      BY <2>1, <2>2, <2>3, <2>4 DEF CitationsInv
  <1>7. ASSUME NEW e \in DOMAIN endpointEvaluations,
               NEW decision \in {"likelyEnd", "likelyContinue", "ambiguous"},
               RecordEndpointProposal(e, decision) \/ RecordEndpointFailure(e)
        PROVE  \E ev :
                  /\ e \in Authorized
                  /\ endpointEvaluations' = [endpointEvaluations EXCEPT ![e] = ev]
                  /\ ev.evidence = endpointEvaluations[e].evidence
                  /\ ev.trigger = endpointEvaluations[e].trigger
                  /\ ev.question = endpointEvaluations[e].question
                  /\ ev.context = endpointEvaluations[e].context
                  /\ (ev.lifecycle = "proposalStored") <=> (ev.decision # "none")
    <2> DEFINE old == endpointEvaluations[e]
               stored == [old EXCEPT !.lifecycle = "proposalStored", !.decision = decision]
               failed == [old EXCEPT !.lifecycle = "failed"]
    <2>1. e \in Authorized /\ old \in EndpointEvaluation
      BY <1>7 DEF RecordEndpointProposal, RecordEndpointFailure, TypeOK
    <2>2. old.lifecycle # "proposalStored" /\ old.decision = "none"
      BY <2>1 DEF Authorized, CitationsInv
    <2>3. \/ endpointEvaluations' = [endpointEvaluations EXCEPT ![e] = stored]
          \/ endpointEvaluations' = [endpointEvaluations EXCEPT ![e] = failed]
      BY <1>7 DEF RecordEndpointProposal, RecordEndpointFailure
    <2>4. /\ stored.evidence = old.evidence /\ stored.trigger = old.trigger
          /\ stored.question = old.question /\ stored.context = old.context
          /\ stored.lifecycle = "proposalStored" /\ stored.decision # "none"
      BY <2>1 DEF EndpointEvaluation
    <2>5. /\ failed.evidence = old.evidence /\ failed.trigger = old.trigger
          /\ failed.question = old.question /\ failed.context = old.context
          /\ failed.lifecycle = "failed" /\ failed.decision = "none"
      BY <2>1, <2>2 DEF EndpointEvaluation
    <2> HIDE DEF stored, failed
    <2> QED
      BY <2>1, <2>3, <2>4, <2>5
  <1> QED
    BY <1>4, <1>5, <1>6, <1>7, EvaluationsMove

LEMMA GroundsStep ==
    ASSUME TypeOK, GroundsInv, [Next]_vars,
           \A e \in DOMAIN endpointEvaluations :
                  /\ e \in DOMAIN endpointEvaluations'
                  /\ endpointEvaluations[e].lifecycle = "proposalStored" =>
                         endpointEvaluations'[e] = endpointEvaluations[e]
    PROVE  GroundsInv'
  <1>1. CASE KeepsGrounds(endpointGraces')
    BY <1>1 DEF GroundsInv, KeepsGrounds
  <1>2. ASSUME NEW e \in DOMAIN endpointEvaluations, ActivateEndpointGrace(e)
        PROVE  GroundsInv'
    <2> DEFINE new == [evaluation |-> e, evidence |-> endpointEvaluations[e].evidence,
                       lifecycle |-> "pending", turn |-> 0]
               n == Len(endpointGraces)
    <2>1. /\ endpointGraces' = Append(endpointGraces, new)
          /\ endpointEvaluations[e].lifecycle = "proposalStored"
          /\ endpointEvaluations[e].decision = "likelyEnd"
          /\ \A g \in DOMAIN endpointGraces : endpointGraces[g].evaluation # e
      BY <1>2 DEF ActivateEndpointGrace
    <2>2. new.evaluation = e /\ new.evidence = endpointEvaluations[e].evidence
      OBVIOUS
    <2> HIDE DEF new
    <2>3. /\ DOMAIN endpointGraces' = 1..(n + 1) /\ endpointGraces'[n + 1] = new
          /\ DOMAIN endpointGraces = 1..n /\ n \in Nat
          /\ \A g \in 1..n : endpointGraces'[g] = endpointGraces[g]
      BY <2>1 DEF TypeOK
    <2>4. \A f, g \in DOMAIN endpointGraces' :
              endpointGraces'[f].evaluation = endpointGraces'[g].evaluation => f = g
      BY <2>1, <2>2, <2>3 DEF GroundsInv
    <2>5. \A g \in DOMAIN endpointGraces' :
              LET grace == endpointGraces'[g]
              IN  /\ grace.evaluation \in DOMAIN endpointEvaluations'
                  /\ endpointEvaluations'[grace.evaluation].lifecycle = "proposalStored"
                  /\ endpointEvaluations'[grace.evaluation].decision = "likelyEnd"
                  /\ endpointEvaluations'[grace.evaluation].evidence = grace.evidence
      BY <2>1, <2>2, <2>3 DEF GroundsInv
    <2> QED
      BY <2>4, <2>5 DEF GroundsInv
  <1> QED
    BY <1>1, <1>2, GracesMove

LEMMA SentStep ==
    ASSUME TypeOK, TypeOK', ConversationIsOrdered, SentInv, [Next]_vars
    PROVE  SentInv'
  <1>1. CandidateTurns \subseteq CandidateTurns'
    <2>1. CASE UNCHANGED turns
      BY <2>1 DEF CandidateTurns
    <2>2. CASE Next
      <3>1. /\ DOMAIN turns = 1..Len(turns) /\ Len(turns) \in Nat
            /\ DOMAIN turns' = 1..Len(turns') /\ Len(turns') \in Nat
        BY DEF TypeOK
      <3> QED
        BY <2>2, <3>1, GrowStep DEF Grows, CandidateTurns
    <2> QED
      BY <2>1, <2>2 DEF vars
  <1>2. ASSUME \A h \in DOMAIN floorHolds' :
                   \/ floorHolds'[h].turn = 0
                   \/ h \in DOMAIN floorHolds /\ floorHolds'[h].turn = floorHolds[h].turn
                   \/ floorHolds'[h].turn \in CandidateTurns'
        PROVE  SentInv'
    BY <1>1, <1>2 DEF SentInv
  <1>3. ASSUME UNCHANGED floorHolds \/ floorHolds' = <<>> PROVE SentInv'
    BY <1>2, <1>3
  <1>4. ASSUME NEW turn, turn = 0 \/ turn \in CandidateTurns',
               floorHolds' = releasingActiveFloorHold(turn)
        PROVE  SentInv'
    BY <1>2, <1>4 DEF releasingActiveFloorHold
  <1>5. CASE RoomStep \/ UNCHANGED vars \/ Crash \/ Relaunch
    BY <1>3, <1>4, <1>5
    DEF RoomStep, GiveCandidateFloor, SetTurnMode, UpdateCandidateNotes, UpdateBoardDraft,
        SaveBoardRevision, BeginSegment, Finish, vars, Crash, Relaunch, manifest, floorPolicy
  <1>6. ASSUME NEW s \in DOMAIN segments, SegmentStep(s) PROVE SentInv'
    BY <1>3, <1>6
    DEF SegmentStep, FinalizeSegment, RecordRecordingStarted, RecordCaptureFinalized,
        RecordCaptureFailed, AuthorizeSegmentTranscription, RecordTranscriptCandidate,
        RecordTranscriptionFailed, ExcludeSegment, AuthorizeEndpointEvaluation,
        RewriteSegment, floorPolicy
  <1>7. CASE ActivateFloorHold
    <2>1. PICK new : floorHolds' = Append(floorHolds, new) /\ new.turn = 0
      BY <1>7 DEF ActivateFloorHold
    <2>2. \A h \in DOMAIN floorHolds' :
              \/ floorHolds'[h].turn = 0
              \/ h \in DOMAIN floorHolds /\ floorHolds'[h].turn = floorHolds[h].turn
      BY <2>1 DEF TypeOK
    <2> QED
      BY <1>2, <2>2
  <1>8. CASE EndpointStep
    BY <1>3, <1>7, <1>8
    DEF EndpointStep, RecordEndpointProposal, RecordEndpointFailure, ActivateEndpointGrace,
        CancelEndpointGrace, CompleteEndpointGrace, handOffSegments, handOff, floorPolicy
  <1>9. CASE SendAnswer
    <2>1. /\ floorHolds' = releasingActiveFloorHold(Len(turns) + 1)
          /\ \E t : t.role = "candidate" /\ turns' = Append(turns, t)
      BY <1>9 DEF SendAnswer, handOffSegments, handOff, NextTurn
    <2>2. Len(turns) + 1 \in CandidateTurns'
      BY <2>1 DEF CandidateTurns, TypeOK
    <2> QED
      BY <1>4, <2>1, <2>2
  <1>10. CASE HandOffStep
    BY <1>3, <1>9, <1>10
    DEF HandOffStep, HandOffText, HandOffSegments, handOffSegments, handOff,
        RequestOpeningInterviewerTurn, RetryInterviewerResponse, InterviewerResponds,
        InterviewerFails, manifest
  <1> QED
    BY <1>5, <1>6, <1>8, <1>10 DEF Next

\* The invariants of the histories, together ...
HistoryInv == CitationsInv /\ GroundsInv /\ SentInv /\ SelectionInv

\* ... are kept by every step,
LEMMA HistoryStep ==
    ASSUME TypeOK, TypeOK', ConversationIsOrdered, HistoryInv, [Next]_vars
    PROVE  HistoryInv'
  <1>1. CitationsInv' /\ GroundsInv'
    BY CitationsStep, GroundsStep DEF HistoryInv
  <1>2. SelectionInv'
    BY SelectionStep DEF NoSelectionIsWorse, IsNoWorse, SelectionInv, HistoryInv
  <1> QED
    BY <1>1, <1>2, SentStep DEF HistoryInv

\* ... and are what `validate' demands of them.
LEMMA AgreeingHistories ==
    ASSUME TypeOK, FloorInv, FlightInv, HistoryInv
    PROVE  HistoriesAgree
  <1> USE DEF HistoryInv
  <1>1. \A S : (\A x, y \in S : x = y) => Cardinality(S) <= 1
    <2> SUFFICES ASSUME NEW S, \A x, y \in S : x = y PROVE Cardinality(S) <= 1
      OBVIOUS
    <2>1. CASE S = {}
      BY <2>1, FS_EmptySet
    <2>2. ASSUME NEW x \in S PROVE Cardinality(S) <= 1
      <3>1. S = {x} /\ Cardinality({x}) = 1
        BY <2>2, FS_Singleton
      <3> QED
        BY <3>1
    <2> QED
      BY <2>1, <2>2
  <1>2. AttemptsAreConsistent
    <2>1. ASSUME NEW s \in DOMAIN segments
          PROVE  Cardinality({i \in DOMAIN segments[s].attempts :
                                 segments[s].attempts[i].state = "authorized"}) <= 1
      BY <1>1 DEF FlightInv, InFlight
    <2> QED
      BY <2>1 DEF AttemptsAreConsistent, SelectionInv
  <1>3. EvaluationsAreConsistent
    <2>1. Cardinality(Authorized) <= 1
      BY <1>1 DEF FlightInv
    <2> QED
      BY <2>1 DEF EvaluationsAreConsistent, CitationsInv, Cites
  <1>4. GracesAreConsistent
    <2>1. Cardinality(Pending) <= 1
      BY <1>1 DEF FloorInv
    <2> QED
      BY <2>1 DEF GracesAreConsistent, GroundsInv
  <1>5. HoldsAreConsistent
    <2>1. Cardinality(ActiveHold) <= 1
      BY <1>1 DEF FloorInv
    <2> QED
      BY <2>1 DEF HoldsAreConsistent, SentInv, FloorInv, GraceAndHoldExclude
  <1> QED
    BY <1>2, <1>3, <1>4, <1>5 DEF HistoriesAgree

\* What restore checks of the attempts, evaluations, graces and holds holds of
\* every manifest the session saves.
THEOREM HistoriesConsistent == Spec => []HistoriesAgree
  <1> DEFINE Inv == HistoryInv /\ FlightInv /\ FloorInv
  <1>1. Init => Inv
    BY FloorInit
    DEF Init, HistoryInv, CitationsInv, GroundsInv, SentInv, SelectionInv, FlightInv, Authorized
  <1>2. TypeOK /\ TypeOK' /\ ConversationIsOrdered /\ Inv /\ [Next]_vars => Inv'
    BY HistoryStep, FlightStep, FloorStep
  <1>3. TypeOK /\ Inv => HistoriesAgree
    BY AgreeingHistories
  <1> QED
    BY <1>1, <1>2, <1>3, TypeCorrect, ConversationOrdered, PTL DEF Spec
=============================================================================
