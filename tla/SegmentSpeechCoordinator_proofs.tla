------------------- MODULE SegmentSpeechCoordinator_proofs --------------------
(***************************************************************************)
(* The coordinator of candidate speech (SegmentSpeechCoordinator), proved  *)
(* for every bound and every choice of operations and faults.              *)
(*                                                                         *)
(* The first sections are about its composition with the session it        *)
(* commands.                                                               *)
(*                                                                         *)
(*   - What InterviewRoomSession_proofs proves of the session is carried   *)
(*     over to the instance the coordinator drives (SessionInv).           *)
(*   - A task that awaits the session is about a segment, an evaluation or *)
(*     a grace the manifest holds (NamesInv), although it read which one   *)
(*     from a snapshot published some steps, and some other task's         *)
(*     command, ago: histories only grow.                                  *)
(*   - So every step of the coordinator is a step the session's own        *)
(*     specification allows, or leaves the session alone                   *)
(*     (RoomStepsAreSessionSteps), and the session's properties hold of    *)
(*     the composition for every bound (SessionStaysSound,                 *)
(*     HistoriesStaySound, SessionStepsStaySound).                         *)
(*                                                                         *)
(* Then come the coordinator's own safety properties.  None is inductive;  *)
(* SpeechInv is, and adds                                                  *)
(*                                                                         *)
(*   - who may do anything, and when (ControlInv): only the room's task    *)
(*     resumes, alone, and nothing is under way without a process;         *)
(*   - what the recorder captures, and which task sees to it (CaptureInv): *)
(*     the task that waits for a capture to start is the only one, a task  *)
(*     that reports the end of a capture has let the recorder go, and no   *)
(*     file is on disk of a capture that may still be reported as failed;  *)
(*   - that the fields have their types (FieldsInv).                       *)
(*                                                                         *)
(* A task is at one stage of a handler; most handlers have nothing to do   *)
(* with a capture, and those steps are dealt with together (CaptureRests). *)
(***************************************************************************)
EXTENDS SegmentSpeechCoordinator, FiniteSetTheorems, TLAPS

\* The session as its own proofs speak of it: the constants of the instance Room.
RoomP == INSTANCE InterviewRoomSession_proofs WITH
    TurnModesOffered <- {"continuousConversation", "manual"},
    DraftsOffered    <- {"unsaved"},
    Credentials      <- {"key"},
    Contexts         <- Fingerprints,
    MaxRank          <- 1

\* The assumptions of the session hold of its constants here.
LEMMA RoomAssumptions ==
    RoomP!ModesAssumption /\ RoomP!DraftsAssumption /\ RoomP!BoundsAssumption
  BY BoundsAssumption
  DEF RoomP!ModesAssumption, RoomP!DraftsAssumption, RoomP!BoundsAssumption, RoomP!TurnMode

\* What the session reads off the manifest is the same under both names.
LEMMA SameReadings ==
    /\ Room!ActiveSegments = RoomP!ActiveSegments
    /\ Room!Uncommitted = RoomP!Uncommitted
    /\ Room!Excluded = RoomP!Excluded
    /\ Room!Draft = RoomP!Draft
    /\ Room!DraftIsSettled <=> RoomP!DraftIsSettled
    /\ Room!Pending = RoomP!Pending
    /\ Room!ActiveHold = RoomP!ActiveHold
    /\ Room!Authorized = RoomP!Authorized
    /\ Room!InterviewerTurns = RoomP!InterviewerTurns
    /\ Room!CandidateTurns = RoomP!CandidateTurns
    /\ Room!cancellingPendingEndpointGrace = RoomP!cancellingPendingEndpointGrace
    /\ Room!Accepting <=> RoomP!Accepting
    /\ Room!NextTurn = RoomP!NextTurn
  BY DEF Room!ActiveSegments, RoomP!ActiveSegments, Room!Uncommitted, RoomP!Uncommitted,
         Room!Excluded, RoomP!Excluded, Room!Draft, RoomP!Draft, Room!DraftIsSettled,
         RoomP!DraftIsSettled, Room!Pending, RoomP!Pending, Room!ActiveHold, RoomP!ActiveHold,
         Room!Authorized, RoomP!Authorized, Room!InterviewerTurns, RoomP!InterviewerTurns,
         Room!CandidateTurns, RoomP!CandidateTurns, Room!cancellingPendingEndpointGrace,
         RoomP!cancellingPendingEndpointGrace, Room!Accepting, RoomP!Accepting,
         Room!isActiveSegment, RoomP!isActiveSegment, Room!isInFlightCapture,
         RoomP!isInFlightCapture, Room!NextTurn, RoomP!NextTurn

\* An evaluation is current, and a draft reads, the same under both names.
LEMMA SameReading ==
    /\ \A S : Room!Selected(S) = RoomP!Selected(S)
    /\ \A question : Room!isLatestInterviewerTurn(question) <=>
                      RoomP!isLatestInterviewerTurn(question)
    /\ \A ev : Room!isCurrentEndpointEvaluation(ev) <=> RoomP!isCurrentEndpointEvaluation(ev)
    /\ \A turn : Room!releasingActiveFloorHold(turn) = RoomP!releasingActiveFloorHold(turn)
    /\ \A m : Room!usesAutomaticEndpointCompletion(m) <=>
               RoomP!usesAutomaticEndpointCompletion(m)
  BY SameReadings
  DEF Room!Selected, RoomP!Selected, Room!isLatestInterviewerTurn,
      RoomP!isLatestInterviewerTurn, Room!isCurrentEndpointEvaluation,
      RoomP!isCurrentEndpointEvaluation, Room!releasingActiveFloorHold,
      RoomP!releasingActiveFloorHold, Room!usesAutomaticEndpointCompletion,
      RoomP!usesAutomaticEndpointCompletion

\* Under the two names a step that needs neither segment nor grace is the same step.
LEMMA SameRoomStep ==
    Room!RoomStep => RoomP!RoomStep
  BY SameReadings, SameReading
  DEF Room!RoomStep, RoomP!RoomStep, Room!GiveCandidateFloor, RoomP!GiveCandidateFloor,
      Room!SetTurnMode, RoomP!SetTurnMode, Room!UpdateCandidateNotes,
      RoomP!UpdateCandidateNotes, Room!UpdateBoardDraft, RoomP!UpdateBoardDraft,
      Room!SaveBoardRevision, RoomP!SaveBoardRevision, Room!BeginSegment,
      RoomP!BeginSegment, Room!Finish, RoomP!Finish, Room!isInFlightCapture,
      RoomP!isInFlightCapture, Room!isActiveSegment, RoomP!isActiveSegment,
      Room!conversation, RoomP!conversation, Room!floorPolicy, RoomP!floorPolicy,
      Room!actor, RoomP!actor, Room!manifest, RoomP!manifest

\* A step on a segment is the same under both names.
LEMMA SameSegmentStep == \A s : Room!SegmentStep(s) => RoomP!SegmentStep(s)
  <1>1. \A s : Room!FinalizeSegment(s) => RoomP!FinalizeSegment(s)
    BY SameReadings, SameReading
    DEF Room!FinalizeSegment, RoomP!FinalizeSegment, Room!isActiveSegment,
        RoomP!isActiveSegment, Room!RewriteSegment, RoomP!RewriteSegment, Room!conversation,
        RoomP!conversation, Room!floorPolicy, RoomP!floorPolicy, Room!actor, RoomP!actor
  <1>2. \A s : Room!RecordRecordingStarted(s) => RoomP!RecordRecordingStarted(s)
    BY SameReadings, SameReading
    DEF Room!RecordRecordingStarted, RoomP!RecordRecordingStarted, Room!RewriteSegment,
        RoomP!RewriteSegment, Room!conversation, RoomP!conversation, Room!floorPolicy,
        RoomP!floorPolicy, Room!actor, RoomP!actor
  <1>3. \A s, audio :
           Room!RecordCaptureFinalized(s, audio) => RoomP!RecordCaptureFinalized(s, audio)
    BY SameReadings, SameReading
    DEF Room!RecordCaptureFinalized, RoomP!RecordCaptureFinalized, Room!RewriteSegment,
        RoomP!RewriteSegment, Room!conversation, RoomP!conversation, Room!floorPolicy,
        RoomP!floorPolicy, Room!actor, RoomP!actor
  <1>4. \A s : Room!RecordCaptureFailed(s) => RoomP!RecordCaptureFailed(s)
    BY SameReadings, SameReading
    DEF Room!RecordCaptureFailed, RoomP!RecordCaptureFailed, Room!isActiveSegment,
        RoomP!isActiveSegment, Room!RewriteSegment, RoomP!RewriteSegment, Room!conversation,
        RoomP!conversation, Room!floorPolicy, RoomP!floorPolicy, Room!actor, RoomP!actor
  <1>5. \A s, key :
           Room!AuthorizeSegmentTranscription(s, key) => RoomP!AuthorizeSegmentTranscription(s, key)
    BY SameReadings, SameReading
    DEF Room!AuthorizeSegmentTranscription, RoomP!AuthorizeSegmentTranscription,
        Room!RewriteSegment, RoomP!RewriteSegment, Room!conversation, RoomP!conversation,
        Room!floorPolicy, RoomP!floorPolicy, Room!actor, RoomP!actor
  <1>6. \A s, i, rank, best :
           Room!RecordTranscriptCandidate(s, i, rank, best) => RoomP!RecordTranscriptCandidate(s, i, rank, best)
    BY SameReadings, SameReading
    DEF Room!RecordTranscriptCandidate, RoomP!RecordTranscriptCandidate,
        Room!isBestCandidate, RoomP!isBestCandidate, Room!RewriteSegment,
        RoomP!RewriteSegment, Room!conversation, RoomP!conversation, Room!floorPolicy,
        RoomP!floorPolicy, Room!actor, RoomP!actor
  <1>7. \A s, i, failure :
           Room!RecordTranscriptionFailed(s, i, failure) => RoomP!RecordTranscriptionFailed(s, i, failure)
    BY SameReadings, SameReading
    DEF Room!RecordTranscriptionFailed, RoomP!RecordTranscriptionFailed,
        Room!RewriteSegment, RoomP!RewriteSegment, Room!conversation, RoomP!conversation,
        Room!floorPolicy, RoomP!floorPolicy, Room!actor, RoomP!actor
  <1>8. \A s : Room!ExcludeSegment(s) => RoomP!ExcludeSegment(s)
    BY SameReadings, SameReading
    DEF Room!ExcludeSegment, RoomP!ExcludeSegment, Room!isInFlightCapture,
        RoomP!isInFlightCapture, Room!isActiveSegment, RoomP!isActiveSegment,
        Room!RewriteSegment, RoomP!RewriteSegment, Room!conversation, RoomP!conversation,
        Room!floorPolicy, RoomP!floorPolicy, Room!actor, RoomP!actor
  <1>9. \A s, question, context :
           Room!AuthorizeEndpointEvaluation(s, question, context) => RoomP!AuthorizeEndpointEvaluation(s, question, context)
    BY SameReadings, SameReading
    DEF Room!AuthorizeEndpointEvaluation, RoomP!AuthorizeEndpointEvaluation,
        Room!RewriteSegment, RoomP!RewriteSegment, Room!conversation, RoomP!conversation,
        Room!floorPolicy, RoomP!floorPolicy, Room!actor, RoomP!actor
  <1> QED
    BY <1>1, <1>2, <1>3, <1>4, <1>5, <1>6, <1>7, <1>8, <1>9
    DEF Room!SegmentStep, RoomP!SegmentStep, Room!CapturedAudio, RoomP!CapturedAudio

\* ... a step of an evaluation, a grace or a hold
LEMMA SameEndpointStep == Room!EndpointStep => RoomP!EndpointStep
  <1>1. \A e, decision :
           Room!RecordEndpointProposal(e, decision) => RoomP!RecordEndpointProposal(e, decision)
    BY SameReadings, SameReading
    DEF Room!RecordEndpointProposal, RoomP!RecordEndpointProposal, Room!conversation,
        RoomP!conversation, Room!floorPolicy, RoomP!floorPolicy, Room!actor, RoomP!actor
  <1>2. \A e : Room!RecordEndpointFailure(e) => RoomP!RecordEndpointFailure(e)
    BY SameReadings, SameReading
    DEF Room!RecordEndpointFailure, RoomP!RecordEndpointFailure, Room!conversation,
        RoomP!conversation, Room!floorPolicy, RoomP!floorPolicy, Room!actor, RoomP!actor
  <1>3. \A e : Room!ActivateEndpointGrace(e) => RoomP!ActivateEndpointGrace(e)
    BY SameReadings, SameReading
    DEF Room!ActivateEndpointGrace, RoomP!ActivateEndpointGrace, Room!conversation,
        RoomP!conversation, Room!floorPolicy, RoomP!floorPolicy, Room!actor, RoomP!actor
  <1>4. \A g : Room!CancelEndpointGrace(g) => RoomP!CancelEndpointGrace(g)
    BY SameReadings, SameReading
    DEF Room!CancelEndpointGrace, RoomP!CancelEndpointGrace, Room!conversation,
        RoomP!conversation, Room!floorPolicy, RoomP!floorPolicy, Room!actor, RoomP!actor
  <1>5. \A g : Room!CompleteEndpointGrace(g) => RoomP!CompleteEndpointGrace(g)
    BY SameReadings, SameReading
    DEF Room!CompleteEndpointGrace, RoomP!CompleteEndpointGrace, Room!handOffSegments,
        RoomP!handOffSegments, Room!handOff, RoomP!handOff, Room!isInFlightCapture,
        RoomP!isInFlightCapture, Room!isActiveSegment, RoomP!isActiveSegment,
        Room!conversation, RoomP!conversation, Room!floorPolicy, RoomP!floorPolicy,
        Room!actor, RoomP!actor
  <1>6. Room!ActivateFloorHold => RoomP!ActivateFloorHold
    BY SameReadings, SameReading
    DEF Room!ActivateFloorHold, RoomP!ActivateFloorHold, Room!conversation,
        RoomP!conversation, Room!floorPolicy, RoomP!floorPolicy, Room!actor, RoomP!actor
  <1> QED
    BY <1>1, <1>2, <1>3, <1>4, <1>5, <1>6
    DEF Room!EndpointStep, RoomP!EndpointStep

\* ... a hand off, and the interviewer's answer to it
LEMMA SameHandOffStep ==
    Room!HandOffStep => RoomP!HandOffStep
  BY SameReadings, SameReading
  DEF Room!HandOffStep, RoomP!HandOffStep, Room!HandOffText, RoomP!HandOffText,
      Room!HandOffSegments, RoomP!HandOffSegments, Room!SendAnswer, RoomP!SendAnswer,
      Room!RequestOpeningInterviewerTurn, RoomP!RequestOpeningInterviewerTurn,
      Room!RetryInterviewerResponse, RoomP!RetryInterviewerResponse,
      Room!InterviewerResponds, RoomP!InterviewerResponds, Room!InterviewerFails,
      RoomP!InterviewerFails, Room!handOffSegments, RoomP!handOffSegments, Room!handOff,
      RoomP!handOff, Room!isInFlightCapture, RoomP!isInFlightCapture,
      Room!isActiveSegment, RoomP!isActiveSegment, Room!conversation, RoomP!conversation,
      Room!floorPolicy, RoomP!floorPolicy, Room!actor, RoomP!actor, Room!manifest,
      RoomP!manifest

\* Each instance has a Cardinality of its own.
LEMMA SameSize == \A S : Room!Cardinality(S) = RoomP!Cardinality(S)
  BY DEF Room!Cardinality, RoomP!Cardinality, Room!IsFiniteSet, RoomP!IsFiniteSet

\* ... what `validate' accepts at a relaunch
LEMMA SameRestorable == Room!Restorable <=> RoomP!Restorable
  <1>1. Room!TurnsArePaired <=> RoomP!TurnsArePaired
    BY SameReadings, SameReading, SameSize
    DEF Room!TurnsArePaired, RoomP!TurnsArePaired
  <1>2. Room!OnlyProcessingEndsWithCandidate <=> RoomP!OnlyProcessingEndsWithCandidate
    BY SameReadings, SameReading, SameSize
    DEF Room!OnlyProcessingEndsWithCandidate, RoomP!OnlyProcessingEndsWithCandidate,
        Room!EndsWithCandidate, RoomP!EndsWithCandidate
  <1>3. Room!ProcessingHasPendingCandidate <=> RoomP!ProcessingHasPendingCandidate
    BY SameReadings, SameReading, SameSize
    DEF Room!ProcessingHasPendingCandidate, RoomP!ProcessingHasPendingCandidate,
        Room!EndsWithCandidate, RoomP!EndsWithCandidate
  <1>4. Room!SegmentsMatchTurns <=> RoomP!SegmentsMatchTurns
    BY SameReadings, SameReading, SameSize
    DEF Room!SegmentsMatchTurns, RoomP!SegmentsMatchTurns
  <1>5. Room!AttemptsAreConsistent <=> RoomP!AttemptsAreConsistent
    BY SameReadings, SameReading, SameSize
    DEF Room!AttemptsAreConsistent, RoomP!AttemptsAreConsistent
  <1>6. Room!EvaluationsAreConsistent <=> RoomP!EvaluationsAreConsistent
    BY SameReadings, SameReading, SameSize
    DEF Room!EvaluationsAreConsistent, RoomP!EvaluationsAreConsistent
  <1>7. Room!PendingGraceIsCurrent <=> RoomP!PendingGraceIsCurrent
    BY SameReadings, SameReading, SameSize
    DEF Room!PendingGraceIsCurrent, RoomP!PendingGraceIsCurrent
  <1>8. Room!CompletedGraceMatchesTurn <=> RoomP!CompletedGraceMatchesTurn
    BY SameReadings, SameReading, SameSize
    DEF Room!CompletedGraceMatchesTurn, RoomP!CompletedGraceMatchesTurn
  <1>9. Room!GracesAreConsistent <=> RoomP!GracesAreConsistent
    BY SameReadings, SameReading, SameSize
    DEF Room!GracesAreConsistent, RoomP!GracesAreConsistent
  <1>10. Room!HoldsAreConsistent <=> RoomP!HoldsAreConsistent
    BY SameReadings, SameReading, SameSize
    DEF Room!HoldsAreConsistent, RoomP!HoldsAreConsistent
  <1> QED
    BY <1>1, <1>2, <1>3, <1>4, <1>5, <1>6, <1>7, <1>8, <1>9, <1>10
    DEF Room!Restorable, RoomP!Restorable

\* ... and so the session's whole next-state relation.
LEMMA SameNext == [Room!Next]_Room!vars => [RoomP!Next]_RoomP!vars
  BY SameRoomStep, SameSegmentStep, SameEndpointStep, SameHandOffStep, SameRestorable
  DEF Room!Next, RoomP!Next, Room!vars, RoomP!vars, Room!Crash, RoomP!Crash, Room!Relaunch,
      RoomP!Relaunch, Room!manifest, RoomP!manifest

-----------------------------------------------------------------------------
(* What was proved of the session holds of it here *)

\* The inductive invariants of the session, of the instance.
SessionInv ==
    /\ Room!TypeOK
    /\ RoomP!ConversationIsOrdered
    /\ RoomP!FloorInv
    /\ RoomP!FlightInv

\* The session's type invariant is the same under both names.
LEMMA SameType == Room!TypeOK <=> RoomP!TypeOK
  BY DEF Room!TypeOK, RoomP!TypeOK, Room!Phase, RoomP!Phase, Room!TurnMode, RoomP!TurnMode,
         Room!Turn, RoomP!Turn, Room!CandidateID, RoomP!CandidateID, Room!CandidateSegment,
         RoomP!CandidateSegment, Room!CandidateSegmentLifecycle,
         RoomP!CandidateSegmentLifecycle, Room!CapturedAudio, RoomP!CapturedAudio,
         Room!Attempt, RoomP!Attempt, Room!EndpointEvaluation, RoomP!EndpointEvaluation,
         Room!EndpointGrace, RoomP!EndpointGrace, Room!FloorHold, RoomP!FloorHold,
         Room!BoardWorkspace, RoomP!BoardWorkspace

\* A step of the session keeps what was proved of the session, here as there.
LEMMA SessionStep ==
    ASSUME SessionInv, [Room!Next]_Room!vars
    PROVE  SessionInv'
  <1>1. RoomP!TypeOK /\ [RoomP!Next]_RoomP!vars
    BY SameType, SameNext DEF SessionInv
  <1>2. RoomP!TypeOK'
    BY <1>1, RoomAssumptions, RoomP!TypeStep
  <1>3. RoomP!ConversationIsOrdered'
    BY <1>1, RoomAssumptions, RoomP!OrderedStep DEF SessionInv
  <1>4. RoomP!FloorInv'
    BY <1>1, RoomAssumptions, RoomP!FloorStep DEF SessionInv
  <1>5. RoomP!FlightInv'
    BY <1>1, RoomAssumptions, RoomP!FlightStep DEF SessionInv
  <1>6. Room!TypeOK' <=> RoomP!TypeOK'
    BY SameType, PTL
  <1> QED
    BY <1>2, <1>3, <1>4, <1>5, <1>6 DEF SessionInv

\* The room opens in a state the session's invariant holds of.
LEMMA SessionInit == Init => SessionInv
  <1> SUFFICES ASSUME Init PROVE SessionInv
    OBVIOUS
  <1> DEFINE opening == [role |-> "interviewer", segments |-> {}, transcript |-> {},
                         replyTo |-> 0]
  <1>1. Room!TypeOK
    <2>1. turns = <<opening>> /\ opening \in Room!Turn
      BY DEF Init, Room!Turn
    <2> HIDE DEF opening
    <2>2. turns \in Seq(Room!Turn)
      BY <2>1
    <2> QED
      BY <2>2 DEF Init, Room!TypeOK, Room!Phase, Room!TurnMode, Room!BoardWorkspace
  <1>2. RoomP!ConversationIsOrdered
    BY DEF Init, RoomP!ConversationIsOrdered, RoomP!TurnsArePaired,
           RoomP!ProcessingHasPendingCandidate, RoomP!EndsWithCandidate
  <1>3. RoomP!FloorInv /\ RoomP!FlightInv
    BY DEF Init, RoomP!FloorInv, RoomP!FlightInv, RoomP!Pending, RoomP!ActiveHold,
            RoomP!ActiveSegments,
       RoomP!GraceAndHoldExclude, RoomP!Authorized
  <1> QED
    BY <1>1, <1>2, <1>3 DEF SessionInv

\* What the session committed and what its histories cite, of the instance.
HistoriesInv == RoomP!CommitInv /\ RoomP!HistoryInv

\* ... are kept as well.
LEMMA HistoriesStep ==
    ASSUME SessionInv, SessionInv', HistoriesInv, [Room!Next]_Room!vars
    PROVE  HistoriesInv'
  <1>1. RoomP!TypeOK /\ [RoomP!Next]_RoomP!vars
    BY SameType, SameNext DEF SessionInv
  <1>2. RoomP!TypeOK'
    BY <1>1, RoomAssumptions, RoomP!TypeStep
  <1>3. RoomP!CommitInv'
    BY <1>1, RoomAssumptions, RoomP!CommitStep DEF SessionInv, HistoriesInv
  <1>4. RoomP!HistoryInv'
    BY <1>1, <1>2, RoomAssumptions, RoomP!HistoryStep DEF SessionInv, HistoriesInv
  <1> QED
    BY <1>3, <1>4 DEF HistoriesInv

\* The opening is the interviewer's: nothing is committed or cited yet.
LEMMA HistoriesInit == Init => HistoriesInv
  <1> SUFFICES ASSUME Init PROVE HistoriesInv
    OBVIOUS
  <1>1. RoomP!CommitInv
    BY RoomP!CommitInit, RoomAssumptions DEF Init, RoomP!CandidateTurns
  <1>2. RoomP!HistoryInv
    BY DEF Init, RoomP!HistoryInv, RoomP!CitationsInv, RoomP!GroundsInv, RoomP!SentInv,
           RoomP!SelectionInv
  <1> QED
    BY <1>1, <1>2 DEF HistoriesInv

\* What later proofs use of it: captures, graces, evaluations and attempts come
\* one at a time, a capture on the candidate's floor, a grace while no reply is due.
LEMMA SessionFacts ==
    ASSUME SessionInv
    PROVE  /\ \A r, s \in Room!ActiveSegments : r = s
           /\ Room!ActiveSegments # {} => phase = "candidateFloor"
           /\ \A f, g \in Room!Pending : f = g
           /\ \A d, e \in Room!Authorized : d = e
           /\ provider # "none" => Room!Pending = {}
           /\ \A s \in DOMAIN segments : \A i \in DOMAIN segments[s].attempts :
                  segments[s].attempts[i].state = "authorized" =>
                      segments[s].lifecycle = "transcribing"
  <1>1. provider # "none" => Room!Pending = {}
    <2>1. provider # "none" => phase = "interviewerProcessing"
      BY DEF SessionInv, RoomP!ConversationIsOrdered, Room!TypeOK
    <2> QED
      BY <2>1, SameReadings DEF SessionInv, RoomP!FloorInv, RoomP!GraceAndHoldExclude
  <1> QED
    BY <1>1, SameReadings DEF SessionInv, RoomP!FloorInv, RoomP!FlightInv, RoomP!InFlight

\* cancellingPendingEndpointGrace leaves no grace pending.
LEMMA CancellingClears ==
    ASSUME SessionInv, endpointGraces' = Room!cancellingPendingEndpointGrace
    PROVE  Room!Pending' = {}
  <1>1. RoomP!Pending' = {}
    BY RoomP!CancelClears, RoomAssumptions, SameReadings, SameType DEF SessionInv
  <1> QED
    BY <1>1 DEF Room!Pending, RoomP!Pending

-----------------------------------------------------------------------------
(* Every step of the coordinator is a step of the session *)

\* a task, as TypeOK types it
TaskRecord == [op : Operations, stage : Commands \cup Waits, of : Nat, result : Results,
               admitted : BOOLEAN]

\* the stages that are about a segment, an evaluation or a grace
SegmentStages ==
    {"capturing", "started", "captureFailed", "preserve", "preserveRecord", "finalize",
     "recordCapture", "authorize", "transcribing", "recordTranscript", "evaluate", "exclude",
     "resumeAttempt", "resumeCapture", "resumeOutcome"}
EvaluationStages ==
    {"classifying", "recordEvaluation", "reconcileEvaluation", "activateGrace",
     "resumeEvaluation"}
GraceStages == {"complete", "reconcileGrace", "cancelGrace", "resumeGrace"}

\* What a task is about is among the segments, evaluations and graces there are,
\* and what it reports the session can be told.
Names(stage, of, result, segmentsThere, evaluationsThere, gracesThere) ==
    /\ stage \in SegmentStages => of \in segmentsThere
    /\ stage \in EvaluationStages => of \in evaluationsThere
    /\ stage \in GraceStages => of \in gracesThere
    /\ stage = "mode" => result \in {"manual", "continuousConversation"}
    /\ stage = "recordTranscript" => result \in {"candidate", "failed"}
    /\ stage = "recordEvaluation" => result \in {"likelyEnd", "likelyContinue", "failed"}

WellNamed(t) ==
    Names(tasks[t].stage, tasks[t].of, tasks[t].result, DOMAIN segments,
          DOMAIN endpointEvaluations, DOMAIN endpointGraces)

\* Tasks, and what was published, name what the manifest holds; the segments keep
\* to their bound, and one that is transcribed has an attempt to show.
NamesInv ==
    /\ tasks \in [Task -> TaskRecord]
    /\ \A t \in Task : WellNamed(t)
    /\ DOMAIN snapshot.segments \subseteq DOMAIN segments
    /\ snapshot.pending \subseteq DOMAIN endpointGraces
    /\ Len(segments) <= MaxSegments
    /\ \A s \in DOMAIN segments :
           segments[s].lifecycle = "transcribing" => segments[s].attempts # <<>>

\* A step of the session, or none.
StaysOrSteps == [Room!Next]_Room!vars

\* An action that leaves the session alone is a stutter of it.
LEMMA NoRoomStepStays == NoRoomStep => StaysOrSteps
  BY DEF NoRoomStep, room, StaysOrSteps, Room!vars

\* beginSegment's commands are steps of the session.
LEMMA BeginIsRoomStep ==
    ASSUME NamesInv, NEW t \in Task, BeginStep(t)
    PROVE  StaysOrSteps
  <1> USE NoRoomStepStays
  <1>0. WellNamed(t)
    BY DEF NamesInv
  <1>1. CASE BeginSaved(t)
    BY <1>1 DEF BeginSaved, StaysOrSteps, Room!Next, Room!RoomStep
  <1>2. CASE \/ BeginRefused(t) \/ CaptureStarts(t) \/ CaptureStartFails(t)
             \/ CaptureFailedRefused(t) \/ StartedRefused(t) \/ PreserveRefused(t)
             \/ PreserveRecordRefused(t)
    BY <1>2
    DEF BeginRefused, CaptureStarts, CaptureStartFails, CaptureFailedRefused, StartedRefused,
        PreserveRefused, PreserveRecordRefused, Refused
  <1>3. CASE \/ CaptureFailedSaved(t) \/ StartedSaved(t) \/ PreserveSaved(t)
             \/ PreserveRecordSaved(t)
    <2>1. tasks[t].of \in DOMAIN segments
      BY <1>0, <1>3
      DEF CaptureFailedSaved, StartedSaved, PreserveSaved, PreserveRecordSaved, Admitted, At,
          WellNamed, Names, SegmentStages
    <2>2. Room!SegmentStep(tasks[t].of)
      BY <1>3
      DEF CaptureFailedSaved, StartedSaved, PreserveSaved, PreserveRecordSaved,
          Room!SegmentStep, Room!CapturedAudio
    <2> QED
      BY <2>1, <2>2 DEF StaysOrSteps, Room!Next
  <1> QED
    BY <1>1, <1>2, <1>3 DEF BeginStep

\* ... those of finalizeActiveSegment and transcribe
LEMMA TranscribeIsRoomStep ==
    ASSUME SessionInv, NamesInv, NEW t \in Task, TranscribeStep(t)
    PROVE  StaysOrSteps
  <1> USE NoRoomStepStays
  <1>0. WellNamed(t)
    BY DEF NamesInv
  <1>1. CASE \/ FinalizeRefused(t) \/ RecordCaptureRefused(t) \/ AuthorizeRefused(t)
             \/ Transcribed(t) \/ TranscriptRefused(t)
    BY <1>1 DEF FinalizeRefused, RecordCaptureRefused, AuthorizeRefused, Transcribed,
                TranscriptRefused, Refused
  <1>2. CASE FinalizeSaved(t) \/ RecordCaptureSaved(t) \/ AuthorizeSaved(t)
    <2>1. tasks[t].of \in DOMAIN segments
      BY <1>0, <1>2
      DEF FinalizeSaved, RecordCaptureSaved, AuthorizeSaved, Admitted, At, WellNamed, Names,
          SegmentStages
    <2>2. Room!SegmentStep(tasks[t].of)
      BY <1>2
      DEF FinalizeSaved, RecordCaptureSaved, AuthorizeSaved, Room!SegmentStep,
          Room!CapturedAudio
    <2> QED
      BY <2>1, <2>2 DEF StaysOrSteps, Room!Next
  <1>3. CASE TranscriptSaved(t)
    <2> DEFINE s == tasks[t].of
               attempt == Len(segments[s].attempts)
    <2>1. s \in DOMAIN segments
      BY <1>0, <1>3 DEF TranscriptSaved, Admitted, At, WellNamed, Names, SegmentStages
    <2>2. segments[s] \in Room!CandidateSegment
      BY <2>1 DEF SessionInv, Room!TypeOK
    <2>3. segments[s].lifecycle = "transcribing"
      BY <1>3 DEF TranscriptSaved, Room!RecordTranscriptCandidate,
                  Room!RecordTranscriptionFailed
    <2>4. attempt \in DOMAIN segments[s].attempts
          /\ \A best \in 1..attempt : best \in DOMAIN segments[s].attempts
      <3>1. segments[s].attempts \in Seq(Room!Attempt) /\ segments[s].attempts # <<>>
        BY <2>1, <2>2, <2>3 DEF NamesInv, Room!CandidateSegment
      <3> HIDE DEF s
      <3> QED
        BY <3>1
    <2>5. Room!SegmentStep(s)
      <3>1. \/ \E best \in 1..attempt : Room!RecordTranscriptCandidate(s, attempt, 1, best)
            \/ Room!RecordTranscriptionFailed(s, attempt, "failed")
        BY <1>3 DEF TranscriptSaved
      <3> HIDE DEF s, attempt
      <3> QED
        BY <2>4, <3>1 DEF Room!SegmentStep
    <2> QED
      BY <2>1, <2>5 DEF StaysOrSteps, Room!Next
  <1> QED
    BY <1>1, <1>2, <1>3 DEF TranscribeStep

\* The question an evaluation is about counts turns there are.
LEMMA QuestionIsATurn ==
    ASSUME SessionInv
    PROVE  Question \in 0..Len(turns)
  <1>1. turns \in Seq(Room!Turn)
    BY DEF SessionInv, Room!TypeOK
  <1> DEFINE asked == {i \in DOMAIN turns : \E q \in Room!InterviewerTurns : i <= q}
  <1>2. DOMAIN turns = 1..Len(turns) /\ Len(turns) \in Nat /\ asked \subseteq 1..Len(turns)
    BY <1>1
  <1>3. IsFiniteSet(1..Len(turns)) /\ Cardinality(1..Len(turns)) = Len(turns)
    BY <1>2, FS_Interval
  <1>4. Cardinality(asked) \in Nat /\ Cardinality(asked) <= Len(turns)
    BY <1>2, <1>3, FS_Subset, FS_CardinalityType
  <1>5. Question = 0 \/ Question = Cardinality(asked)
    BY DEF Question
  <1> HIDE DEF asked
  <1> QED
    BY <1>2, <1>4, <1>5

\* ... those of evaluateEndpointIfNeeded and activateEndpointGraceIfEligible
LEMMA EvaluateIsRoomStep ==
    ASSUME SessionInv, NamesInv, NEW t \in Task, EvaluateStep(t)
    PROVE  StaysOrSteps
  <1> USE NoRoomStepStays
  <1>0. WellNamed(t) /\ tasks[t].of \in Nat
    BY DEF NamesInv, TaskRecord
  <1>1. CASE \/ EvaluateRefused(t) \/ Classified(t) \/ EvaluationRefused(t)
             \/ ReconcileEvaluationRefused(t) \/ ActivateGraceRefused(t)
    BY <1>1 DEF EvaluateRefused, Classified, EvaluationRefused, ReconcileEvaluationRefused,
                ActivateGraceRefused, Refused
  <1>2. CASE EvaluateSaved(t)
    <2> DEFINE s == tasks[t].of
               context == <<s, Room!Selected(Room!Draft), Question>>
    <2>1. s \in DOMAIN segments
      BY <1>0, <1>2 DEF EvaluateSaved, Admitted, At, WellNamed, Names, SegmentStages
    <2>2. Room!Selected(Room!Draft) \subseteq Nat \X Nat
      <3>1. ASSUME NEW r \in DOMAIN segments PROVE r \in Nat /\ segments[r].selected \in Nat
        <4>1. segments \in Seq(Room!CandidateSegment)
          BY DEF SessionInv, Room!TypeOK
        <4>2. segments[r] \in Room!CandidateSegment /\ r \in Nat
          BY <4>1
        <4> QED
          BY <4>2 DEF Room!CandidateSegment
      <3>2. Room!Draft \subseteq DOMAIN segments
        BY DEF Room!Draft, Room!Uncommitted
      <3> QED
        BY <3>1, <3>2 DEF Room!Selected
    <2>3. context \in Fingerprints /\ Question \in 0..Len(turns)
      <3>1. Question \in 0..Len(turns) /\ Question \in Nat
        BY QuestionIsATurn
      <3> DEFINE evidence == Room!Selected(Room!Draft)
                 question == Question
      <3>2. evidence \in SUBSET (Nat \X Nat) /\ question \in Nat /\ s \in Nat
        BY <1>0, <2>2, <3>1
      <3> HIDE DEF evidence, question, s
      <3>3. <<s, evidence, question>> \in Fingerprints
        BY <3>2 DEF Fingerprints
      <3> QED
        BY <3>1, <3>3 DEF evidence, question
    <2>4. Room!AuthorizeEndpointEvaluation(s, Question, context) \/ NoRoomStep
      BY <1>2 DEF EvaluateSaved
    <2>5. CASE Room!AuthorizeEndpointEvaluation(s, Question, context)
      <3>1. Room!SegmentStep(s)
        BY <2>3, <2>5 DEF Room!SegmentStep
      <3> QED
        BY <2>1, <3>1 DEF StaysOrSteps, Room!Next
    <2> QED
      BY <2>4, <2>5
  <1>3. CASE EvaluationSaved(t) \/ ReconcileEvaluationSaved(t) \/ ActivateGraceSaved(t)
    <2> DEFINE e == tasks[t].of
    <2>1. e \in DOMAIN endpointEvaluations
      BY <1>0, <1>3 DEF EvaluationSaved, ReconcileEvaluationSaved, ActivateGraceSaved,
                        Admitted, At, WellNamed, Names, EvaluationStages
    <2>2. \/ Room!RecordEndpointFailure(e) \/ Room!ActivateEndpointGrace(e)
          \/ \E decision \in {"likelyEnd", "likelyContinue", "ambiguous"} :
                 Room!RecordEndpointProposal(e, decision)
      BY <1>0, <1>3 DEF EvaluationSaved, ReconcileEvaluationSaved, ActivateGraceSaved,
                        Admitted, At, WellNamed, Names
    <2>3. Room!EndpointStep
      BY <2>1, <2>2 DEF Room!EndpointStep
    <2> QED
      BY <2>3 DEF StaysOrSteps, Room!Next
  <1> QED
    BY <1>1, <1>2, <1>3 DEF EvaluateStep

\* ... those of completeScheduledGrace
LEMMA GraceIsRoomStep ==
    ASSUME NamesInv, GraceStep
    PROVE  StaysOrSteps
  <1> USE NoRoomStepStays
  <1>0. WellNamed("timer")
    BY DEF NamesInv, Task
  <1>1. CASE GraceRunsOut \/ CompleteRefused \/ ReconcileGraceRefused
    BY <1>1 DEF GraceRunsOut, CompleteRefused, ReconcileGraceRefused, Refused
  <1>2. CASE CompleteSaved \/ ReconcileGraceSaved
    <2>1. tasks["timer"].of \in DOMAIN endpointGraces
      BY <1>0, <1>2 DEF CompleteSaved, ReconcileGraceSaved, Admitted, At, WellNamed, Names,
                        GraceStages
    <2>2. Room!EndpointStep
      BY <1>2, <2>1 DEF CompleteSaved, ReconcileGraceSaved, Room!EndpointStep
    <2> QED
      BY <2>2 DEF StaysOrSteps, Room!Next
  <1> QED
    BY <1>1, <1>2 DEF GraceStep

\* ... the hand offs and the room's other commands.
LEMMA ReturnIsRoomStep ==
    ASSUME NamesInv, RoomReturn
    PROVE  StaysOrSteps
  <1> USE NoRoomStepStays
  <1>0. WellNamed("user")
    BY DEF NamesInv, Task
  <1>1. ASSUME NEW t \in Task, FloorRefused(t) \/ CommandRefused(t) \/ HandOffRefused
        PROVE  StaysOrSteps
    BY <1>1 DEF HandOffRefused, FloorRefused, CommandRefused, Refused
  <1>2. ASSUME NEW t \in Task,
               HandOffSaved \/ Replied(t) \/ ReplyFails(t)
        PROVE  StaysOrSteps
    <2>1. Room!HandOffStep
      BY <1>2 DEF HandOffSaved, Replied, ReplyFails, Room!HandOffStep
    <2> QED
      BY <2>1 DEF StaysOrSteps, Room!Next
  <1>3. ASSUME NEW t \in Task, FloorSaved(t) \/ ModeSaved \/ FinishSaved \/ DeskSaved
        PROVE  StaysOrSteps
    <2>1. Room!RoomStep \/ NoRoomStep
      BY <1>0, <1>3 DEF FloorSaved, ModeSaved, FinishSaved, DeskSaved, Room!RoomStep,
                        Admitted, At, WellNamed, Names
    <2> QED
      BY <2>1 DEF StaysOrSteps, Room!Next
  <1>4. CASE HoldSaved \/ KeepFloorSaved
    <2>1. Room!EndpointStep
      BY <1>0, <1>4 DEF HoldSaved, KeepFloorSaved, Room!EndpointStep, Admitted, At, WellNamed,
            Names,
                        GraceStages
    <2> QED
      BY <2>1 DEF StaysOrSteps, Room!Next
  <1>5. CASE ExcludeSaved
    <2>1. tasks["user"].of \in DOMAIN segments /\ Room!SegmentStep(tasks["user"].of)
      BY <1>0, <1>5 DEF ExcludeSaved, Room!SegmentStep, Admitted, At, WellNamed, Names,
            SegmentStages
    <2> QED
      BY <2>1 DEF StaysOrSteps, Room!Next
  <1> QED
    BY <1>1, <1>2, <1>3, <1>4, <1>5 DEF RoomReturn, Task

\* What the room starts, the segmenter hears or the player does is no step of it.
LEMMA StartIsRoomStep == RoomStart \/ AudioStep => StaysOrSteps
  <1> USE NoRoomStepStays
  <1>1. RoomStart => NoRoomStep
    BY DEF RoomStart, StartCapture, StartFloor, StartMode, StartDesk, Pause, Starts, Idle
  <1>2. AudioStep => NoRoomStep
    BY DEF AudioStep, SpeechStarts, SpeechEnds, PlaybackStarts, PlaybackFinishes,
           PlaybackStopped, RecorderStops
  <1> QED
    BY <1>1, <1>2

\* A crash, a relaunch and what resumePendingWork saves are steps of the session.
LEMMA ProcessIsRoomStep ==
    ASSUME SessionInv, NamesInv, ProcessStep
    PROVE  StaysOrSteps
  <1> USE NoRoomStepStays
  <1> DEFINE of == tasks["user"].of
  <1>0. WellNamed("user")
    BY DEF NamesInv, Task
  <1>1. CASE Crash \/ Relaunch
    BY <1>1 DEF Crash, Relaunch, StaysOrSteps, Room!Next
  <1>2. CASE ResumeRefused
    BY <1>2 DEF ResumeRefused, Refused
  <1>3. CASE ResumeSaved
    <2>1. CASE \/ Admitted("user", "resumeGrace") /\ Room!CancelEndpointGrace(of)
               \/ Admitted("user", "resumeEvaluation") /\ Room!RecordEndpointFailure(of)
      <3>1. Room!EndpointStep
        BY <1>0, <2>1 DEF Room!EndpointStep, Admitted, At, WellNamed, Names, GraceStages,
                          EvaluationStages
      <3> QED
        BY <3>1 DEF StaysOrSteps, Room!Next
    <2>2. CASE /\ Admitted("user", "resumeAttempt")
               /\ Room!RecordTranscriptionFailed(of, Len(segments[of].attempts), "failed")
      <3>1. of \in DOMAIN segments /\ segments[of].lifecycle = "transcribing"
        BY <1>0, <2>2 DEF Admitted, At, WellNamed, Names, SegmentStages,
                          Room!RecordTranscriptionFailed
      <3>2. segments[of].attempts \in Seq(Room!Attempt) /\ segments[of].attempts # <<>>
        <4>1. segments[of] \in Room!CandidateSegment
          BY <3>1 DEF SessionInv, Room!TypeOK
        <4> QED
          BY <3>1, <4>1 DEF NamesInv, Room!CandidateSegment
      <3>3. Len(segments[of].attempts) \in DOMAIN segments[of].attempts
        <4> HIDE DEF of
        <4> QED
          BY <3>2
      <3>4. Room!SegmentStep(of)
        BY <2>2, <3>3 DEF Room!SegmentStep
      <3> QED
        BY <3>1, <3>4 DEF StaysOrSteps, Room!Next
    <2>3. CASE \/ Admitted("user", "resumeCapture") /\ Room!FinalizeSegment(of)
               \/ /\ Admitted("user", "resumeOutcome")
                  /\ \/ Room!RecordCaptureFinalized(of, "clear")
                     \/ Room!RecordCaptureFailed(of)
      <3>1. of \in DOMAIN segments /\ Room!SegmentStep(of)
        BY <1>0, <2>3 DEF Admitted, At, WellNamed, Names, SegmentStages, Room!SegmentStep,
                          Room!CapturedAudio
      <3> QED
        BY <3>1 DEF StaysOrSteps, Room!Next
    <2> QED
      BY <1>3, <2>1, <2>2, <2>3 DEF ResumeSaved
  <1> QED
    BY <1>1, <1>2, <1>3 DEF ProcessStep

\* So is every step of the composition, or it leaves the session alone.
LEMMA EveryStepIsRoomStep ==
    ASSUME SessionInv, NamesInv, [Next]_vars
    PROVE  [Room!Next]_Room!vars
  <1>1. CASE UNCHANGED vars
    BY <1>1 DEF vars, Room!vars
  <1> QED
    BY <1>1, BeginIsRoomStep, TranscribeIsRoomStep, EvaluateIsRoomStep, GraceIsRoomStep,
       ReturnIsRoomStep, StartIsRoomStep, ProcessIsRoomStep
    DEF Next, Task, StaysOrSteps

-----------------------------------------------------------------------------
(* What tasks are about stays there *)

\* Nothing that was there is gone.
Grows ==
    /\ DOMAIN segments \subseteq DOMAIN segments'
    /\ DOMAIN endpointEvaluations \subseteq DOMAIN endpointEvaluations'
    /\ DOMAIN endpointGraces \subseteq DOMAIN endpointGraces'

\* Task t moves, the others do not, and what it is about is there.
Moves(t) ==
    /\ tasks' \in [Task -> TaskRecord]
    /\ \A u \in Task \ {t} : tasks'[u] = tasks[u]
    /\ WellNamed(t)'

\* A command is admitted or it is not.
LEMMA AdmitsIsBoolean == \A t : Admits(t) \in BOOLEAN
  BY DEF Admits

\* What a task may be about after the step.
MayName(stage, of, result) ==
    Names(stage, of, result, DOMAIN segments', DOMAIN endpointEvaluations',
          DOMAIN endpointGraces')

\* A task that is done is about nothing.
LEMMA IdleMoves ==
    ASSUME NamesInv, NEW t \in Task, tasks' = [tasks EXCEPT ![t] = idle]
    PROVE  Moves(t)
  <1>1. idle \in TaskRecord
    BY DEF idle, TaskRecord, Operations, Commands, Waits, Results
  <1>2. MayName("idle", 0, "none")
    BY DEF MayName, Names, SegmentStages, EvaluationStages, GraceStages
  <1>3. tasks' \in [Task -> TaskRecord] /\ tasks'[t] = idle
        /\ \A u \in Task \ {t} : tasks'[u] = tasks[u]
    BY <1>1 DEF NamesInv
  <1> QED
    BY <1>2, <1>3 DEF Moves, WellNamed, MayName, idle

\* A command about something that is there is well named.
LEMMA IssueMoves ==
    ASSUME NamesInv, NEW t \in Task, NEW op \in Operations, NEW command \in Commands,
           NEW of \in Nat, NEW result \in Results, issue(t, op, command, of, result),
           MayName(command, of, result)
    PROVE  Moves(t)
  <1> DEFINE r == [op |-> op, stage |-> command, of |-> of, result |-> result,
                   admitted |-> Admits(t)]
  <1>1. r \in TaskRecord
    BY AdmitsIsBoolean DEF TaskRecord
  <1>2. r.stage = command /\ r.of = of /\ r.result = result
    OBVIOUS
  <1>3. tasks' = [tasks EXCEPT ![t] = r]
    BY DEF issue
  <1> HIDE DEF r
  <1>4. tasks' \in [Task -> TaskRecord] /\ tasks'[t] = r
        /\ \A u \in Task \ {t} : tasks'[u] = tasks[u]
    BY <1>1, <1>3 DEF NamesInv
  <1> QED
    BY <1>2, <1>4 DEF Moves, WellNamed, MayName

\* ... and so is a wait.
LEMMA AwaitMoves ==
    ASSUME NamesInv, NEW t \in Task, NEW op \in Operations, NEW stage \in Waits, NEW of \in Nat,
           await(t, op, stage, of), MayName(stage, of, "none")
    PROVE  Moves(t)
  <1> DEFINE r == [op |-> op, stage |-> stage, of |-> of, result |-> "none",
                   admitted |-> FALSE]
  <1>1. r \in TaskRecord
    BY DEF TaskRecord, Results
  <1>2. r.stage = stage /\ r.of = of /\ r.result = "none"
    OBVIOUS
  <1>3. tasks' = [tasks EXCEPT ![t] = r]
    BY DEF await
  <1> HIDE DEF r
  <1>4. tasks' \in [Task -> TaskRecord] /\ tasks'[t] = r
        /\ \A u \in Task \ {t} : tasks'[u] = tasks[u]
    BY <1>1, <1>3 DEF NamesInv
  <1> QED
    BY <1>2, <1>4 DEF Moves, WellNamed, MayName

\* What a task was about is still there after the step.
LEMMA StillNamed ==
    ASSUME NamesInv, Grows, NEW t \in Task
    PROVE  /\ tasks[t].op \in Operations /\ tasks[t].of \in Nat /\ tasks[t].result \in Results
           /\ MayName(tasks[t].stage, tasks[t].of, tasks[t].result)
  BY DEF NamesInv, TaskRecord, Grows, WellNamed, Names, MayName

\* Each step of beginSegment moves one task, and leaves it about what is there.
LEMMA BeginMoves ==
    ASSUME SessionInv, NamesInv, Grows, NEW t \in Task, BeginStep(t)
    PROVE  Moves(t)
  <1> USE DEF At, Admitted, MayName, Names, SegmentStages, EvaluationStages, GraceStages
  <1>1. CASE BeginSaved(t)
    <2>1. await(t, tasks[t].op, "capturing", Len(segments) + 1)
      BY <1>1 DEF BeginSaved
    <2>2. Len(segments) + 1 \in Nat /\ Len(segments) + 1 \in DOMAIN segments'
      BY <1>1 DEF BeginSaved, Room!BeginSegment, SessionInv, Room!TypeOK
    <2>3. MayName("capturing", Len(segments) + 1, "none")
      BY <2>2
    <2> QED
      BY <2>1, <2>2, <2>3, StillNamed, AwaitMoves DEF Waits
  <1>2. CASE \/ BeginRefused(t) \/ CaptureFailedSaved(t) \/ CaptureFailedRefused(t)
             \/ StartedSaved(t) \/ PreserveRefused(t) \/ PreserveRecordSaved(t)
             \/ PreserveRecordRefused(t)
    BY <1>2, IdleMoves
    DEF BeginRefused, CaptureFailedSaved, CaptureFailedRefused, StartedSaved, PreserveRefused,
        PreserveRecordSaved, PreserveRecordRefused, Ends
  <1>3. CASE CaptureStarts(t)
    BY <1>3, StillNamed, IssueMoves DEF CaptureStarts, issues, Commands, Results
  <1>4. CASE CaptureStartFails(t)
    BY <1>4, StillNamed, IssueMoves DEF CaptureStartFails, issues, Commands, Results
  <1>5. CASE StartedRefused(t)
    BY <1>5, StillNamed, IssueMoves DEF StartedRefused, Refused, issues, Commands, Results
  <1>6. CASE PreserveSaved(t)
    <2>1. \/ issue(t, tasks[t].op, "preserveRecord", tasks[t].of, "none")
          \/ tasks' = [tasks EXCEPT ![t] = idle]
      BY <1>6 DEF PreserveSaved, issues, Ends
    <2> QED
      BY <1>6, <2>1, StillNamed, IssueMoves, IdleMoves DEF PreserveSaved, Commands, Results
  <1> QED
    BY <1>1, <1>2, <1>3, <1>4, <1>5, <1>6 DEF BeginStep

\* What a task does when its segment or transcript is done with.
LEMMA ReturnsMoves ==
    ASSUME NamesInv, Grows, NEW t \in Task, NEW c, Returns(t, c)
    PROVE  Moves(t)
  <1>1. MayName("send", 0, "none")
    BY DEF MayName, Names, SegmentStages, EvaluationStages, GraceStages
  <1>2. issue(t, tasks[t].op, "send", 0, "none") \/ tasks' = [tasks EXCEPT ![t] = idle]
    BY DEF Returns, issues, Ends
  <1> QED
    BY <1>1, <1>2, StillNamed, IssueMoves, IdleMoves DEF Commands, Results

\* ... each of finalizeActiveSegment and transcribe
LEMMA TranscribeMoves ==
    ASSUME SessionInv, NamesInv, Grows, NEW t \in Task, TranscribeStep(t)
    PROVE  Moves(t)
  <1> USE DEF At, Admitted, MayName, Names, SegmentStages, EvaluationStages, GraceStages
  <1>1. CASE FinalizeSaved(t)
    <2>1. \/ issue(t, tasks[t].op, "recordCapture", tasks[t].of, tasks[t].result)
          \/ tasks' = [tasks EXCEPT ![t] = idle]
      BY <1>1 DEF FinalizeSaved, issues, Ends
    <2> QED
      BY <1>1, <2>1, StillNamed, IssueMoves, IdleMoves DEF FinalizeSaved, Commands
  <1>2. CASE \/ FinalizeRefused(t) \/ RecordCaptureRefused(t) \/ AuthorizeRefused(t)
             \/ TranscriptRefused(t)
    BY <1>2, IdleMoves
    DEF FinalizeRefused, RecordCaptureRefused, AuthorizeRefused, TranscriptRefused, Ends
  <1>3. CASE RecordCaptureSaved(t)
    <2>1. snapshot' = Projection'
      BY <1>3 DEF RecordCaptureSaved, Publish
    <2>2. \/ Returns(t, coordinator)
          \/ \E r \in DOMAIN segments' : issue(t, tasks[t].op, "authorize", r, "none")
      BY <1>3, <2>1 DEF RecordCaptureSaved, TranscribesNext, ReadyFor, issues, Projection
    <2>3. DOMAIN segments' \subseteq Nat
      BY <1>3 DEF RecordCaptureSaved, Room!RecordCaptureFinalized, Room!RewriteSegment,
                  SessionInv, Room!TypeOK
    <2> QED
      BY <2>2, <2>3, ReturnsMoves, StillNamed, IssueMoves DEF Commands, Results
  <1>4. CASE AuthorizeSaved(t)
    <2>1. \/ await(t, tasks[t].op, "transcribing", tasks[t].of)
          \/ issue(t, tasks[t].op, "recordTranscript", tasks[t].of, "failed")
      BY <1>4 DEF AuthorizeSaved, issues
    <2> QED
      BY <1>4, <2>1, StillNamed, IssueMoves, AwaitMoves
      DEF AuthorizeSaved, Commands, Waits, Results
  <1>5. CASE Transcribed(t)
    <2>1. \E result \in {"candidate", "failed"} :
              issue(t, tasks[t].op, "recordTranscript", tasks[t].of, result)
      BY <1>5 DEF Transcribed, issues
    <2> QED
      BY <1>5, <2>1, StillNamed, IssueMoves DEF Transcribed, Commands, Results
  <1>6. CASE TranscriptSaved(t)
    <2>1. \/ issue(t, tasks[t].op, "evaluate", tasks[t].of, "none")
          \/ Returns(t, coordinator) \/ tasks' = [tasks EXCEPT ![t] = idle]
      BY <1>6 DEF TranscriptSaved, issues, Ends
    <2> QED
      BY <1>6, <2>1, ReturnsMoves, StillNamed, IssueMoves, IdleMoves
      DEF TranscriptSaved, Commands, Results
  <1> QED
    BY <1>1, <1>2, <1>3, <1>4, <1>5, <1>6 DEF TranscribeStep

\* ... each of evaluateEndpointIfNeeded
LEMMA EvaluateMoves ==
    ASSUME SessionInv, SessionInv', NamesInv, Grows, NEW t \in Task, EvaluateStep(t)
    PROVE  Moves(t)
  <1> USE DEF At, Admitted, MayName, Names, SegmentStages, EvaluationStages, GraceStages
  <1>1. CASE EvaluateSaved(t)
    <2>1. CASE Returns(t, coordinator)
      BY <2>1, ReturnsMoves
    <2>2. CASE ~Returns(t, coordinator)
      <3>1. /\ await(t, tasks[t].op, "classifying", Len(endpointEvaluations'))
            /\ endpointEvaluations' # <<>>
        BY <1>1, <2>2 DEF EvaluateSaved, Room!AuthorizeEndpointEvaluation, SessionInv,
                          Room!TypeOK
      <3>2. Len(endpointEvaluations') \in DOMAIN endpointEvaluations'
            /\ Len(endpointEvaluations') \in Nat
        BY <3>1 DEF SessionInv, Room!TypeOK
      <3> QED
        BY <3>1, <3>2, StillNamed, AwaitMoves DEF Waits
    <2> QED
      BY <2>1, <2>2
  <1>2. CASE \/ EvaluateRefused(t) \/ ReconcileEvaluationSaved(t)
             \/ ReconcileEvaluationRefused(t) \/ ActivateGraceRefused(t)
    BY <1>2, ReturnsMoves
    DEF EvaluateRefused, ReconcileEvaluationSaved, ReconcileEvaluationRefused,
        ActivateGraceRefused
  <1>3. CASE Classified(t)
    <2>1. \E result \in {"likelyEnd", "likelyContinue", "failed"} :
              issue(t, tasks[t].op, "recordEvaluation", tasks[t].of, result)
      BY <1>3 DEF Classified, issues
    <2> QED
      BY <1>3, <2>1, StillNamed, IssueMoves DEF Classified, Commands, Results
  <1>4. CASE EvaluationSaved(t)
    <2>1. \/ \E c : Returns(t, c)
          \/ issue(t, tasks[t].op, "activateGrace", tasks[t].of, "none")
      BY <1>4 DEF EvaluationSaved, issues
    <2> QED
      BY <1>4, <2>1, ReturnsMoves, StillNamed, IssueMoves
      DEF EvaluationSaved, Commands, Results
  <1>5. CASE EvaluationRefused(t)
    BY <1>5, StillNamed, IssueMoves DEF EvaluationRefused, Refused, issues, Commands, Results
  <1>6. CASE ActivateGraceSaved(t)
    BY <1>6, ReturnsMoves DEF ActivateGraceSaved
  <1> QED
    BY <1>1, <1>2, <1>3, <1>4, <1>5, <1>6 DEF EvaluateStep

\* A step that leaves the tasks alone leaves them well named.
LEMMA StandsStill ==
    ASSUME NamesInv, Grows, NEW t \in Task, UNCHANGED tasks
    PROVE  Moves(t)
  BY StillNamed DEF Moves, NamesInv, WellNamed, MayName

\* A task that awaits the reply is about nothing any more.
LEMMA ReplyMoves ==
    ASSUME NamesInv, NEW t \in Task, tasks' = [tasks EXCEPT ![t].stage = "replying"]
    PROVE  Moves(t)
  <1> DEFINE r == [tasks[t] EXCEPT !.stage = "replying"]
  <1>1. tasks[t] \in TaskRecord
    BY DEF NamesInv
  <1>2. r \in TaskRecord /\ r.stage = "replying"
    BY <1>1 DEF TaskRecord, Commands
  <1>3. tasks' = [tasks EXCEPT ![t] = r]
    BY DEF NamesInv
  <1> HIDE DEF r
  <1>4. tasks' \in [Task -> TaskRecord] /\ tasks'[t] = r
        /\ \A u \in Task \ {t} : tasks'[u] = tasks[u]
    BY <1>2, <1>3 DEF NamesInv
  <1> QED
    BY <1>2, <1>4 DEF Moves, WellNamed, Names, SegmentStages, EvaluationStages, GraceStages

\* What was published is still there.
LEMMA SnapshotNames ==
    ASSUME SessionInv, NamesInv, Grows
    PROVE  /\ \A s \in DOMAIN snapshot.segments : s \in Nat /\ s \in DOMAIN segments'
           /\ \A g \in snapshot.pending : g \in Nat /\ g \in DOMAIN endpointGraces'
  <1>1. DOMAIN segments \subseteq Nat /\ DOMAIN endpointGraces \subseteq Nat
    BY DEF SessionInv, Room!TypeOK
  <1> QED
    BY <1>1 DEF NamesInv, Grows

\* Each step of completeScheduledGrace moves the timer's task.
LEMMA GraceMoves ==
    ASSUME SessionInv, NamesInv, Grows, GraceStep
    PROVE  Moves("timer")
  <1> USE DEF At, Admitted, MayName, Names, SegmentStages, EvaluationStages, GraceStages
  <1>0. "timer" \in Task
    BY DEF Task
  <1>1. CASE GraceRunsOut
    <2>1. \/ UNCHANGED tasks
          \/ /\ issue("timer", "grace", "complete", coordinator.grace, "none")
             /\ coordinator.grace \in snapshot.pending
      BY <1>1 DEF GraceRunsOut
    <2> QED
      BY <1>0, <2>1, SnapshotNames, StandsStill, IssueMoves DEF Operations, Commands, Results
  <1>2. CASE CompleteSaved
    BY <1>0, <1>2, ReplyMoves DEF CompleteSaved
  <1>3. CASE CompleteRefused
    <2>1. \/ issue("timer", tasks["timer"].op, "reconcileGrace", tasks["timer"].of, "none")
          \/ tasks' = [tasks EXCEPT !["timer"] = idle]
      BY <1>3 DEF CompleteRefused, issues, Ends
    <2> QED
      BY <1>0, <1>3, <2>1, StillNamed, IssueMoves, IdleMoves
      DEF CompleteRefused, Commands, Results
  <1>4. CASE ReconcileGraceSaved \/ ReconcileGraceRefused
    BY <1>0, <1>4, IdleMoves DEF ReconcileGraceSaved, ReconcileGraceRefused, Ends
  <1> QED
    BY <1>1, <1>2, <1>3, <1>4 DEF GraceStep

\* Each command of the room that returns moves the task that issued it.
LEMMA ReturnMoves ==
    ASSUME SessionInv, NamesInv, Grows, RoomReturn
    PROVE  \E t \in Task : Moves(t)
  <1> USE DEF At, Admitted, MayName, Names, SegmentStages, EvaluationStages, GraceStages
  <1>0. {"user", "acoustic", "playback", "timer", "desk"} \subseteq Task
    BY DEF Task
  <1>1. CASE HandOffSaved
    BY <1>0, <1>1, ReplyMoves DEF HandOffSaved
  <1>2. CASE HandOffRefused
    BY <1>0, <1>2, IdleMoves DEF HandOffRefused, Ends
  <1>3. ASSUME NEW t \in {"user", "timer"}, Replied(t) \/ ReplyFails(t)
        PROVE  Moves(t)
    BY <1>0, <1>3, IdleMoves DEF Replied, ReplyFails
  <1>4. ASSUME NEW t \in {"user", "acoustic", "playback"}, FloorSaved(t) \/ FloorRefused(t)
        PROVE  Moves(t)
    <2>1. \/ issue(t, tasks[t].op, "begin", 0, "none")
          \/ tasks' = [tasks EXCEPT ![t] = idle]
      BY <1>4 DEF FloorSaved, FloorRefused, issues
    <2> QED
      BY <1>0, <2>1, StillNamed, IssueMoves, IdleMoves DEF Commands, Results
  <1>5. CASE ModeSaved \/ HoldSaved \/ KeepFloorSaved \/ ExcludeSaved \/ FinishSaved
    BY <1>0, <1>5, IdleMoves
    DEF ModeSaved, HoldSaved, KeepFloorSaved, ExcludeSaved, FinishSaved, Ends
  <1>6. CASE DeskSaved
    BY <1>0, <1>6, IdleMoves DEF DeskSaved, Ends
  <1>7. ASSUME NEW t \in {"user", "desk"}, CommandRefused(t)
        PROVE  Moves(t)
    BY <1>0, <1>7, IdleMoves DEF CommandRefused, Ends
  <1> QED
    BY <1>0, <1>1, <1>2, <1>3, <1>4, <1>5, <1>6, <1>7 DEF RoomReturn

\* What the room starts is about what it saw, which is still there.
LEMMA StartMoves ==
    ASSUME SessionInv, NamesInv, Grows, RoomStart
    PROVE  \E t \in Task : Moves(t)
  <1> USE DEF MayName, Names, SegmentStages, EvaluationStages, GraceStages
  <1>0. {"user", "desk"} \subseteq Task
    BY DEF Task
  <1>1. CASE StartCapture
    <2>1. \/ issue("user", "record", "begin", 0, "none")
          \/ \E s \in DOMAIN snapshot.segments :
                 \/ \E result \in {"none", "recovering"} :
                        issue("user", "stop", "finalize", s, result)
                 \/ issue("user", "transcribe", "authorize", s, "none")
                 \/ issue("user", "exclude", "exclude", s, "none")
      BY <1>1 DEF StartCapture, Finalizes, activeIn
    <2> QED
      BY <1>0, <2>1, SnapshotNames, IssueMoves
      DEF Operations, UserOperations, Commands, Results
  <1>2. CASE StartFloor
    <2>1. \/ \E op \in {"hold", "send", "handOff", "retry"} : issue("user", op, op, 0, "none")
          \/ \E s \in DOMAIN snapshot.segments : issue("user", "send", "finalize", s, "none")
          \/ \E g \in snapshot.pending : issue("user", "keepFloor", "cancelGrace", g, "none")
          \/ await("user", "giveFloor", "stopping", 0)
      BY <1>2 DEF StartFloor, Finalizes, activeIn
    <2> QED
      BY <1>0, <2>1, SnapshotNames, IssueMoves, AwaitMoves
      DEF Operations, UserOperations, Commands, Waits, Results
  <1>3. CASE StartMode
    <2>1. \/ \E m \in {"manual", "continuousConversation"} : issue("user", "mode", "mode", 0, m)
          \/ issue("user", "finish", "finish", 0, "none")
      BY <1>3 DEF StartMode
    <2> QED
      BY <1>0, <2>1, IssueMoves DEF Operations, UserOperations, Commands, Results
  <1>4. CASE StartDesk
    <2>1. \E command \in {"note", "draft", "export"} : issue("desk", "desk", command, 0, "none")
      BY <1>4 DEF StartDesk
    <2> QED
      BY <1>0, <2>1, IssueMoves DEF Operations, Commands, Results
  <1>5. CASE Pause
    BY <1>0, <1>5, StandsStill DEF Pause
  <1> QED
    BY <1>1, <1>2, <1>3, <1>4, <1>5 DEF RoomStart

\* ... and so is what the segmenter, the player or the recorder starts.
LEMMA AudioMoves ==
    ASSUME SessionInv, NamesInv, Grows, AudioStep
    PROVE  \E t \in Task : Moves(t)
  <1> USE DEF MayName, Names, SegmentStages, EvaluationStages, GraceStages
  <1>0. {"user", "acoustic", "playback", "recorder"} \subseteq Task
    BY DEF Task
  <1>1. CASE SpeechStarts
    <2>1. \/ UNCHANGED tasks \/ await("acoustic", "bargeIn", "stopping", 0)
          \/ issue("acoustic", "speechStarted", "begin", 0, "none")
      BY <1>1 DEF SpeechStarts
    <2>2. CASE UNCHANGED tasks
      BY <1>0, <2>2, StandsStill
    <2>3. CASE await("acoustic", "bargeIn", "stopping", 0)
      BY <1>0, <2>3, AwaitMoves DEF Operations, Waits
    <2>4. CASE issue("acoustic", "speechStarted", "begin", 0, "none")
      <3>1. MayName("begin", 0, "none") /\ "speechStarted" \in Operations
            /\ "begin" \in Commands /\ "none" \in Results
        BY DEF Operations, Commands, Results
      <3> QED
        BY <1>0, <2>4, <3>1, IssueMoves
    <2> QED
      BY <1>0, <2>1, <2>2, <2>3, <2>4
  <1>2. CASE SpeechEnds
    <2>1. \/ UNCHANGED tasks
          \/ \E s \in DOMAIN snapshot.segments :
                 issue("acoustic", "speechEnded", "finalize", s, "none")
      BY <1>2 DEF SpeechEnds, activeIn
    <2> QED
      BY <1>0, <2>1, SnapshotNames, StandsStill, IssueMoves DEF Operations, Commands, Results
  <1>3. CASE PlaybackStarts
    BY <1>0, <1>3, StandsStill DEF PlaybackStarts
  <1>4. CASE PlaybackFinishes
    <2>1. UNCHANGED tasks \/ issue("playback", "playback", "floor", 0, "none")
      BY <1>4 DEF PlaybackFinishes
    <2>2. CASE UNCHANGED tasks
      BY <1>0, <2>2, StandsStill
    <2>3. CASE issue("playback", "playback", "floor", 0, "none")
      <3>1. MayName("floor", 0, "none") /\ "playback" \in Operations
            /\ "floor" \in Commands /\ "none" \in Results
        BY DEF Operations, Commands, Results
      <3> QED
        BY <1>0, <2>3, <3>1, IssueMoves
    <2> QED
      BY <1>0, <2>1, <2>2, <2>3
  <1>5. ASSUME NEW t \in {"user", "acoustic"}, PlaybackStopped(t)
        PROVE  Moves(t)
    <2>1. \/ \E command \in {"floor", "begin"} : issue(t, tasks[t].op, command, 0, "none")
          \/ tasks' = [tasks EXCEPT ![t] = idle]
      BY <1>5 DEF PlaybackStopped, issues
    <2> QED
      BY <1>0, <2>1, StillNamed, IssueMoves, IdleMoves DEF Commands, Results
  <1>6. CASE RecorderStops
    <2>1. \/ UNCHANGED tasks
          \/ \E s \in DOMAIN snapshot.segments :
                 issue("recorder", "recorder", "finalize", s, "none")
      BY <1>6 DEF RecorderStops, activeIn
    <2> QED
      BY <1>0, <2>1, SnapshotNames, StandsStill, IssueMoves DEF Operations, Commands, Results
  <1> QED
    BY <1>0, <1>1, <1>2, <1>3, <1>4, <1>5, <1>6 DEF AudioStep

\* What resumePendingWork turns to next is interrupted work that is there.
LEMMA ResumesMoves ==
    ASSUME NamesInv, SessionInv', Resumes \/ OpensRoom
    PROVE  Moves("user")
  <1> USE DEF MayName, Names, SegmentStages, EvaluationStages, GraceStages
  <1>0. "user" \in Task
    BY DEF Task
  <1>1. \/ tasks' = [tasks EXCEPT !["user"] = idle]
        \/ \E command \in {"resumeGrace", "resumeAttempt", "resumeEvaluation", "resumeCapture"} :
           \E of \in (DOMAIN segments \cup DOMAIN endpointEvaluations
                      \cup DOMAIN endpointGraces)' :
               Interrupted(command, of)' /\ issue("user", "resume", command, of, "none")
    BY DEF Resumes, OpensRoom, Resumable
  <1>2. (DOMAIN segments \cup DOMAIN endpointEvaluations \cup DOMAIN endpointGraces)'
            \subseteq Nat
    BY DEF SessionInv, Room!TypeOK
  <1>3. ASSUME NEW command, NEW of, Interrupted(command, of)'
        PROVE  MayName(command, of, "none")
    BY <1>3 DEF Interrupted, Room!Pending, Room!Authorized, Room!ActiveSegments
  <1>4. ASSUME NEW command \in {"resumeGrace", "resumeAttempt", "resumeEvaluation",
                                "resumeCapture"},
               NEW of \in Nat, Interrupted(command, of)',
               issue("user", "resume", command, of, "none")
        PROVE  Moves("user")
    <2>1. MayName(command, of, "none")
      BY <1>3, <1>4
    <2> QED
      BY <1>0, <1>4, <2>1, IssueMoves DEF Operations, Commands, Results
  <1> QED
    BY <1>0, <1>1, <1>2, <1>4, IdleMoves

\* A relaunch, and each step of resumePendingWork, moves the room's task.
LEMMA ProcessMoves ==
    ASSUME SessionInv, SessionInv', NamesInv, Grows, ProcessStep, ~Crash
    PROVE  \E t \in Task : Moves(t)
  <1> USE DEF At, Admitted, MayName, Names, SegmentStages, EvaluationStages, GraceStages
  <1>0. "user" \in Task
    BY DEF Task
  <1>1. CASE Relaunch
    BY <1>0, <1>1, StandsStill, ResumesMoves DEF Relaunch
  <1>2. CASE ResumeSaved
    <2>1. \/ Resumes
          \/ /\ issue("user", tasks["user"].op, "resumeOutcome", tasks["user"].of, "none")
             /\ tasks["user"].stage = "resumeCapture"
      BY <1>2 DEF ResumeSaved, issues
    <2> QED
      BY <1>0, <2>1, ResumesMoves, StillNamed, IssueMoves DEF Commands, Results
  <1>3. CASE ResumeRefused
    BY <1>0, <1>3, ResumesMoves DEF ResumeRefused
  <1> QED
    BY <1>1, <1>2, <1>3 DEF ProcessStep

\* Every step but a crash is the move of one task.
LEMMA OneTaskMoves ==
    ASSUME SessionInv, SessionInv', NamesInv, Grows, [Next]_vars, ~Crash
    PROVE  \E t \in Task : Moves(t)
  <1>1. CASE UNCHANGED vars
    <2>1. UNCHANGED tasks /\ "user" \in Task
      BY <1>1 DEF vars, Task
    <2> QED
      BY <2>1, StandsStill
  <1>2. {"user", "acoustic", "recorder", "timer"} \subseteq Task
    BY DEF Task
  <1> QED
    BY <1>1, <1>2, BeginMoves, TranscribeMoves, EvaluateMoves, GraceMoves, ReturnMoves,
       StartMoves, AudioMoves, ProcessMoves DEF Next

-----------------------------------------------------------------------------
(* Histories grow, and tasks keep their names *)

\* A segment that is transcribed has an attempt to show for it.
Attempted(seg) == seg.lifecycle = "transcribing" => seg.attempts # <<>>

\* The segments are the same ones, each as well attempted as before.
SegmentsStay ==
    /\ DOMAIN segments' = DOMAIN segments
    /\ \A s \in DOMAIN segments : Attempted(segments[s]) => Attempted(segments'[s])

\* Rewriting one segment, with its attempts, keeps the others.
LEMMA RewriteStays ==
    ASSUME SessionInv, NEW s \in DOMAIN segments, NEW seg, Room!RewriteSegment(s, seg),
           Attempted(segments[s]) => Attempted(seg)
    PROVE  SegmentsStay
  <1>1. segments' = [segments EXCEPT ![s] = seg]
    BY DEF Room!RewriteSegment
  <1>2. DOMAIN segments' = DOMAIN segments /\ segments'[s] = seg
        /\ \A r \in DOMAIN segments : r # s => segments'[r] = segments[r]
    BY <1>1 DEF SessionInv, Room!TypeOK
  <1> QED
    BY <1>2 DEF SegmentsStay

\* Each step on a segment keeps the segments, and their attempts.
LEMMA SegmentStepStays ==
    ASSUME SessionInv, NEW s \in DOMAIN segments, Room!SegmentStep(s)
    PROVE  SegmentsStay
  <1>0. segments[s] \in Room!CandidateSegment
    BY DEF SessionInv, Room!TypeOK
  <1>1. CASE \/ Room!FinalizeSegment(s) \/ Room!RecordRecordingStarted(s)
             \/ Room!RecordCaptureFailed(s) \/ Room!ExcludeSegment(s)
    <2>1. PICK life \in {"finalizationAuthorized", "recording", "failed", "excluded"} :
              Room!RewriteSegment(s, [segments[s] EXCEPT !.lifecycle = life])
      BY <1>1 DEF Room!FinalizeSegment, Room!RecordRecordingStarted, Room!RecordCaptureFailed,
                  Room!ExcludeSegment
    <2>2. Attempted([segments[s] EXCEPT !.lifecycle = life])
      BY <1>0, <2>1 DEF Attempted, Room!CandidateSegment
    <2> QED
      BY <2>1, <2>2, RewriteStays
  <1>2. ASSUME NEW audio, Room!RecordCaptureFinalized(s, audio)
        PROVE  SegmentsStay
    <2> DEFINE seg == [segments[s] EXCEPT
                          !.audio = audio,
                          !.lifecycle = IF audio = "unplayable" THEN "failed" ELSE "audioReady"]
    <2>1. Room!RewriteSegment(s, seg)
      BY <1>2 DEF Room!RecordCaptureFinalized
    <2>2. Attempted(seg)
      BY <1>0 DEF Attempted, Room!CandidateSegment
    <2> HIDE DEF seg
    <2> QED
      BY <2>1, <2>2, RewriteStays
  <1>3. ASSUME NEW key, Room!AuthorizeSegmentTranscription(s, key)
        PROVE  SegmentsStay
    <2> DEFINE new == [state |-> "authorized", key |-> key, rank |-> 0]
               seg == [segments[s] EXCEPT !.attempts = Append(@, new),
                                          !.lifecycle = "transcribing"]
    <2>1. Room!RewriteSegment(s, seg)
      BY <1>3 DEF Room!AuthorizeSegmentTranscription
    <2>2. seg.attempts = Append(segments[s].attempts, new)
      BY <1>0 DEF Room!CandidateSegment
    <2>3. segments[s].attempts \in Seq(Room!Attempt)
      BY <1>0 DEF Room!CandidateSegment
    <2>4. Append(segments[s].attempts, new) # <<>>
      <3> HIDE DEF new
      <3> QED
        BY <2>3
    <2>5. Attempted(seg)
      BY <2>2, <2>4 DEF Attempted
    <2> HIDE DEF seg
    <2> QED
      BY <2>1, <2>5, RewriteStays
  <1>4. ASSUME NEW i, NEW rank, NEW best, Room!RecordTranscriptCandidate(s, i, rank, best)
        PROVE  SegmentsStay
    <2>1. PICK attempts : Room!RewriteSegment(s,
              [segments[s] EXCEPT !.attempts = attempts, !.selected = best,
                                  !.lifecycle = "transcribed"])
      BY <1>4 DEF Room!RecordTranscriptCandidate
    <2> DEFINE seg == [segments[s] EXCEPT !.attempts = attempts, !.selected = best,
                                          !.lifecycle = "transcribed"]
    <2>2. Attempted(seg)
      BY <1>0 DEF Attempted, Room!CandidateSegment
    <2> HIDE DEF seg
    <2> QED
      BY <2>1, <2>2, RewriteStays DEF seg
  <1>5. ASSUME NEW i, NEW failure, Room!RecordTranscriptionFailed(s, i, failure)
        PROVE  SegmentsStay
    <2>1. PICK attempts : Room!RewriteSegment(s,
              [segments[s] EXCEPT
                  !.attempts = attempts,
                  !.lifecycle = IF segments[s].selected = 0 THEN "audioReady"
                                ELSE "transcribed"])
      BY <1>5 DEF Room!RecordTranscriptionFailed
    <2> DEFINE seg == [segments[s] EXCEPT
                          !.attempts = attempts,
                          !.lifecycle = IF segments[s].selected = 0 THEN "audioReady"
                                        ELSE "transcribed"]
    <2>2. Attempted(seg)
      BY <1>0 DEF Attempted, Room!CandidateSegment
    <2> HIDE DEF seg
    <2> QED
      BY <2>1, <2>2, RewriteStays DEF seg
  <1>6. ASSUME NEW question, NEW context,
               Room!AuthorizeEndpointEvaluation(s, question, context)
        PROVE  SegmentsStay
    BY <1>6 DEF Room!AuthorizeEndpointEvaluation, SegmentsStay
  <1> QED
    BY <1>1, <1>2, <1>3, <1>4, <1>5, <1>6 DEF Room!SegmentStep

\* Whatever the session does it keeps the segments there are, or begins one.
LEMMA SegmentsMove ==
    ASSUME SessionInv, [Room!Next]_Room!vars
    PROVE  Room!BeginSegment \/ SegmentsStay
  <1>1. CASE UNCHANGED segments
    BY <1>1 DEF SegmentsStay
  <1>2. ASSUME NEW members, NEW graces, NEW holds, Room!handOff(members, graces, holds)
        PROVE  SegmentsStay
    <2>1. DOMAIN segments' = DOMAIN segments
          /\ \A s \in DOMAIN segments :
                 segments'[s] \in {segments[s],
                                  [segments[s] EXCEPT !.committedTurn = Room!NextTurn]}
      BY <1>2 DEF Room!handOff
    <2>2. \A s \in DOMAIN segments : segments[s] \in Room!CandidateSegment
      BY DEF SessionInv, Room!TypeOK
    <2>3. ASSUME NEW s \in DOMAIN segments
          PROVE  /\ segments'[s].lifecycle = segments[s].lifecycle
                 /\ segments'[s].attempts = segments[s].attempts
      BY <2>1, <2>2 DEF Room!CandidateSegment
    <2> QED
      BY <2>1, <2>3 DEF SegmentsStay, Attempted
  <1>3. CASE Room!RoomStep \/ Room!Crash \/ Room!Relaunch \/ UNCHANGED Room!vars
    BY <1>1, <1>3
    DEF Room!RoomStep, Room!GiveCandidateFloor, Room!SetTurnMode, Room!UpdateCandidateNotes,
        Room!UpdateBoardDraft, Room!SaveBoardRevision, Room!Finish, Room!Crash, Room!Relaunch,
        Room!manifest, Room!vars
  <1>4. CASE Room!EndpointStep
    BY <1>1, <1>2, <1>4
    DEF Room!EndpointStep, Room!RecordEndpointProposal, Room!RecordEndpointFailure,
        Room!ActivateEndpointGrace, Room!CancelEndpointGrace, Room!CompleteEndpointGrace,
        Room!ActivateFloorHold, Room!handOffSegments
  <1>5. CASE Room!HandOffStep
    BY <1>1, <1>2, <1>5
    DEF Room!HandOffStep, Room!HandOffText, Room!HandOffSegments, Room!SendAnswer,
        Room!RequestOpeningInterviewerTurn, Room!RetryInterviewerResponse,
        Room!InterviewerResponds, Room!InterviewerFails, Room!handOffSegments, Room!manifest
  <1> QED
    BY <1>3, <1>4, <1>5, SegmentStepStays DEF Room!Next

\* The session never forgets a segment, an evaluation or a grace.
LEMMA HistoriesGrow ==
    ASSUME SessionInv, [Room!Next]_Room!vars
    PROVE  Grows
  <1>1. DOMAIN segments \subseteq DOMAIN segments'
    <2>1. CASE Room!BeginSegment
      BY <2>1 DEF Room!BeginSegment, SessionInv, Room!TypeOK
    <2> QED
      BY <2>1, SegmentsMove DEF SegmentsStay
  <1>2. RoomP!TypeOK /\ [RoomP!Next]_RoomP!vars
    BY SameType, SameNext DEF SessionInv
  <1>3. DOMAIN endpointEvaluations \subseteq DOMAIN endpointEvaluations'
    <2>1. CASE UNCHANGED endpointEvaluations
      BY <2>1
    <2>2. ASSUME NEW trigger, NEW question, NEW context,
                 RoomP!AuthorizeEndpointEvaluation(trigger, question, context)
          PROVE  DOMAIN endpointEvaluations \subseteq DOMAIN endpointEvaluations'
      <3>1. PICK new : endpointEvaluations' = Append(endpointEvaluations, new)
        BY <2>2 DEF RoomP!AuthorizeEndpointEvaluation
      <3> QED
        BY <3>1 DEF SessionInv, Room!TypeOK
    <2>3. ASSUME NEW e, NEW decision,
                 RoomP!RecordEndpointProposal(e, decision) \/ RoomP!RecordEndpointFailure(e)
          PROVE  DOMAIN endpointEvaluations \subseteq DOMAIN endpointEvaluations'
      BY <2>3 DEF RoomP!RecordEndpointProposal, RoomP!RecordEndpointFailure
    <2> QED
      BY <1>2, <2>1, <2>2, <2>3, RoomAssumptions, RoomP!EvaluationsMove
  <1>4. DOMAIN endpointGraces \subseteq DOMAIN endpointGraces'
    <2>1. CASE RoomP!KeepsGrounds(endpointGraces')
      BY <2>1 DEF RoomP!KeepsGrounds
    <2>2. ASSUME NEW e, RoomP!ActivateEndpointGrace(e)
          PROVE  DOMAIN endpointGraces \subseteq DOMAIN endpointGraces'
      <3>1. PICK new : endpointGraces' = Append(endpointGraces, new)
        BY <2>2 DEF RoomP!ActivateEndpointGrace
      <3> QED
        BY <3>1 DEF SessionInv, Room!TypeOK
    <2> QED
      BY <1>2, <2>1, <2>2, RoomAssumptions, RoomP!GracesMove
  <1> QED
    BY <1>1, <1>3, <1>4 DEF Grows

\* What the coordinator has seen of the session is what it was, or what it is; it
\* falls behind only where a hand off awaits its reply, or the process dies.
LEMMA SnapshotIsCurrentOrKept ==
    ASSUME [Next]_vars
    PROVE  \/ snapshot' = Projection'
           \/ /\ UNCHANGED snapshot
              /\ NoRoomStep \/ CompleteSaved \/ HandOffSaved \/ Crash
  <1> USE DEF Publish, Refused
  <1>1. CASE UNCHANGED vars
    BY <1>1 DEF vars, NoRoomStep, room
  <1>2. ASSUME NEW t \in Task, BeginStep(t)
        PROVE  Publish \/ (UNCHANGED snapshot /\ NoRoomStep)
    BY <1>2
    DEF BeginStep, BeginSaved, BeginRefused, CaptureStarts, CaptureStartFails,
        CaptureFailedSaved, CaptureFailedRefused, StartedSaved, StartedRefused, PreserveSaved,
        PreserveRefused, PreserveRecordSaved, PreserveRecordRefused
  <1>3. ASSUME NEW t \in Task, EvaluateStep(t)
        PROVE  Publish \/ (UNCHANGED snapshot /\ NoRoomStep)
    BY <1>3
    DEF EvaluateStep, EvaluateSaved, EvaluateRefused, Classified, EvaluationSaved,
        EvaluationRefused, ReconcileEvaluationSaved, ReconcileEvaluationRefused,
        ActivateGraceSaved, ActivateGraceRefused
  <1>4. ASSUME NEW t \in Task, TranscribeStep(t)
        PROVE  Publish \/ (UNCHANGED snapshot /\ NoRoomStep)
    BY <1>4
    DEF TranscribeStep, FinalizeSaved, FinalizeRefused, RecordCaptureSaved,
        RecordCaptureRefused, AuthorizeSaved, AuthorizeRefused, Transcribed, TranscriptSaved,
        TranscriptRefused
  <1>5. CASE GraceStep
    BY <1>5
    DEF GraceStep, GraceRunsOut, CompleteSaved, CompleteRefused, ReconcileGraceSaved,
        ReconcileGraceRefused
  <1>6. CASE RoomReturn
    BY <1>6
    DEF RoomReturn, HandOffSaved, HandOffRefused, Replied, ReplyFails, FloorSaved,
        FloorRefused, ModeSaved, HoldSaved, KeepFloorSaved, ExcludeSaved, FinishSaved,
        DeskSaved, CommandRefused
  <1>7. CASE RoomStart
    BY <1>7
    DEF RoomStart, StartCapture, StartFloor, StartMode, StartDesk, Pause, Starts, Idle
  <1>8. CASE AudioStep
    BY <1>8
    DEF AudioStep, SpeechStarts, SpeechEnds, PlaybackStarts, PlaybackFinishes,
        PlaybackStopped, RecorderStops
  <1>9. CASE ProcessStep
    BY <1>9 DEF ProcessStep, Crash, Relaunch, ResumeSaved, ResumeRefused
  <1> QED
    BY <1>1, <1>2, <1>3, <1>4, <1>5, <1>6, <1>7, <1>8, <1>9 DEF Next, Task

\* A crash leaves no task with anything to do.
LEMMA CrashIdles ==
    ASSUME Crash
    PROVE  tasks' \in [Task -> TaskRecord] /\ \A t \in Task : WellNamed(t)'
  <1>1. tasks' = [t \in Task |-> idle]
    BY DEF Crash
  <1>2. idle \in TaskRecord /\ idle.stage = "idle"
    BY DEF idle, TaskRecord, Operations, Commands, Waits, Results
  <1>3. \A t \in Task : tasks'[t] = idle
    BY <1>1
  <1>4. \A t \in Task : WellNamed(t)'
    BY <1>2, <1>3 DEF WellNamed, Names, SegmentStages, EvaluationStages, GraceStages
  <1> QED
    BY <1>1, <1>2, <1>4

\* No step adds a segment beyond the bound: what begins one checks it.
LEMMA BoundIsKept ==
    ASSUME SessionInv, NamesInv, [Room!Next]_Room!vars
    PROVE  Len(segments') <= MaxSegments
  <1>1. segments \in Seq(Room!CandidateSegment) /\ Len(segments) <= MaxSegments
    BY DEF SessionInv, Room!TypeOK, NamesInv
  <1>2. CASE Room!BeginSegment
    <2>1. PICK new : segments' = Append(segments, new)
      BY <1>2 DEF Room!BeginSegment
    <2>2. Len(segments) < MaxSegments
      BY <1>2 DEF Room!BeginSegment
    <2> QED
      BY <1>1, <2>1, <2>2, BoundsAssumption
  <1> QED
    BY <1>1, <1>2, SegmentsMove DEF SegmentsStay

\* What tasks are about is there after every step.
LEMMA NamesStep ==
    ASSUME SessionInv, SessionInv', NamesInv, [Next]_vars
    PROVE  NamesInv'
  <1>1. [Room!Next]_Room!vars
    BY EveryStepIsRoomStep
  <1>2. Grows
    BY <1>1, HistoriesGrow
  <1>3. tasks' \in [Task -> TaskRecord] /\ \A t \in Task : WellNamed(t)'
    <2>1. CASE Crash
      BY <2>1, CrashIdles
    <2>2. CASE ~Crash
      <3>1. PICK t \in Task : Moves(t)
        BY <1>2, <2>2, OneTaskMoves
      <3>2. ASSUME NEW u \in Task \ {t} PROVE WellNamed(u)'
        <4>1. tasks'[u] = tasks[u]
          BY <3>1 DEF Moves
        <4>2. MayName(tasks[u].stage, tasks[u].of, tasks[u].result)
          BY <1>2, StillNamed
        <4> QED
          BY <4>1, <4>2 DEF WellNamed, MayName
      <3> QED
        BY <3>1, <3>2 DEF Moves
    <2> QED
      BY <2>1, <2>2
  <1>4. /\ DOMAIN snapshot'.segments \subseteq DOMAIN segments'
        /\ snapshot'.pending \subseteq DOMAIN endpointGraces'
    <2>1. CASE UNCHANGED snapshot
      BY <1>2, <2>1 DEF NamesInv, Grows
    <2>2. CASE snapshot' = Projection'
      BY <2>2 DEF Projection, Room!Pending
    <2> QED
      BY <2>1, <2>2, SnapshotIsCurrentOrKept
  <1>5. Len(segments') <= MaxSegments
    BY <1>1, BoundIsKept
  <1>6. \A s \in DOMAIN segments' : Attempted(segments'[s])
    <2>1. CASE SegmentsStay
      BY <2>1 DEF SegmentsStay, NamesInv, Attempted
    <2>2. CASE Room!BeginSegment
      <3>1. PICK new : segments' = Append(segments, new) /\ Attempted(new)
        BY <2>2 DEF Room!BeginSegment, Attempted
      <3> QED
        BY <3>1 DEF SessionInv, Room!TypeOK, NamesInv, Attempted
    <2> QED
      BY <1>1, <2>1, <2>2, SegmentsMove
  <1> QED
    BY <1>3, <1>4, <1>5, <1>6 DEF NamesInv, Attempted

\* ... and when the room opens, where there is nothing to be about.
LEMMA NamesInit == Init => NamesInv
  <1> SUFFICES ASSUME Init PROVE NamesInv
    OBVIOUS
  <1>1. idle \in TaskRecord /\ idle.stage = "idle"
    BY DEF idle, TaskRecord, Operations, Commands, Waits, Results
  <1>2. tasks = [t \in Task |-> idle]
    BY DEF Init
  <1>3. tasks \in [Task -> TaskRecord]
    BY <1>1, <1>2
  <1>4. \A t \in Task : WellNamed(t)
    BY <1>1, <1>2 DEF WellNamed, Names, SegmentStages, EvaluationStages, GraceStages
  <1>5. snapshot.segments = <<>> /\ snapshot.pending = {} /\ segments = <<>>
    BY DEF Init, Projection, Room!Pending
  <1> QED
    BY <1>3, <1>4, <1>5, BoundsAssumption DEF NamesInv

-----------------------------------------------------------------------------
(* The session in the composition *)

\* The invariant of the composition: both parts are needed at every step, the
\* session's to type what is named, the names to see that a command is a step.
RoomInv == SessionInv /\ HistoriesInv /\ NamesInv

\* The coordinator keeps the session's proved invariant, and asks it only about
\* what there is.
THEOREM RoomIsInvariant == Spec => []RoomInv
  <1>1. Init => RoomInv
    BY SessionInit, HistoriesInit, NamesInit DEF RoomInv
  <1>2. RoomInv /\ [Next]_vars => RoomInv'
    BY EveryStepIsRoomStep, SessionStep, HistoriesStep, NamesStep DEF RoomInv
  <1> QED
    BY <1>1, <1>2, PTL DEF Spec

\* Every step of the coordinator is a step of the session or leaves it alone:
\* none of its commands is one the session's specification would not allow.
THEOREM RoomStepsAreSessionSteps == Spec => [][Room!Next]_Room!vars
  <1>1. RoomInv /\ [Next]_vars => [Room!Next]_Room!vars
    BY EveryStepIsRoomStep DEF RoomInv
  <1> QED
    BY <1>1, RoomIsInvariant, PTL DEF Spec

\* What was proved of the session holds of the room that drives it: turns are
\* paired and answered in order, a grace and a hold exclude each other and every
\* external effect is single flight.
THEOREM SessionStaysSound ==
    Spec => [](/\ Room!TypeOK /\ Room!ConversationIsOrdered
               /\ Room!GraceAndHoldExclude /\ Room!EffectsAreSingleFlight)
  <1> DEFINE Sound == /\ Room!TypeOK /\ Room!ConversationIsOrdered
                      /\ Room!GraceAndHoldExclude /\ Room!EffectsAreSingleFlight
  <1>1. ASSUME SessionInv
        PROVE  Sound
    <2>1. Room!ConversationIsOrdered
      BY <1>1, SameReadings, SameSize
      DEF SessionInv, Room!ConversationIsOrdered, RoomP!ConversationIsOrdered,
          Room!TurnsArePaired, RoomP!TurnsArePaired, Room!ProcessingHasPendingCandidate,
          RoomP!ProcessingHasPendingCandidate, Room!EndsWithCandidate,
          RoomP!EndsWithCandidate
    <2>2. Room!GraceAndHoldExclude
      BY <1>1, SameReadings, SameReading
      DEF SessionInv, RoomP!FloorInv, Room!GraceAndHoldExclude, RoomP!GraceAndHoldExclude
    <2>3. Room!EffectsAreSingleFlight
      BY <1>1, SameReadings
      DEF SessionInv, RoomP!FloorInv, RoomP!FlightInv, RoomP!InFlight,
          Room!EffectsAreSingleFlight
    <2> QED
      BY <1>1, <2>1, <2>2, <2>3 DEF SessionInv
  <1>2. RoomInv => Sound
    BY <1>1 DEF RoomInv
  <1> QED
    BY <1>2, RoomIsInvariant, PTL

\* Nor does the room, however its tasks interleave with the session's commands,
\* lose or repeat what the candidate said, or make the histories of the manifest
\* disagree.  (RoomP is the session with its proofs.)
THEOREM HistoriesStaySound ==
    Spec => [](RoomP!SpeechIsCommittedOnce /\ RoomP!HistoriesAgree)
  <1>1. ASSUME RoomInv
        PROVE  RoomP!SpeechIsCommittedOnce /\ RoomP!HistoriesAgree
    <2>1. RoomP!TypeOK /\ RoomP!FloorInv /\ RoomP!FlightInv /\ RoomP!CommitInv
          /\ RoomP!HistoryInv
      BY <1>1, SameType DEF RoomInv, SessionInv, HistoriesInv
    <2> QED
      BY <2>1, RoomAssumptions, RoomP!CommittedOnce, RoomP!AgreeingHistories
  <1> QED
    BY <1>1, RoomIsInvariant, PTL

\* Its steps rewrite no turn, hand off by themselves only what was judged, and
\* replace no transcript by a worse one.
THEOREM SessionStepsStaySound ==
    Spec => /\ RoomP!ConversationOnlyGrows
            /\ RoomP!AutomaticHandOffWasJudged
            /\ RoomP!SelectionNeverDegrades
  <1> DEFINE Judged ==
          \A g \in DOMAIN endpointGraces :
              /\ endpointGraces[g].lifecycle = "pending"
              /\ endpointGraces'[g].lifecycle = "completed"
              => LET ev == endpointEvaluations[endpointGraces[g].evaluation]
                 IN  /\ ev.decision = "likelyEnd"
                     /\ turns'[endpointGraces'[g].turn].transcript = ev.evidence
                     /\ RoomP!isLatestInterviewerTurn(ev.question)
             Selecting ==
          \A s \in DOMAIN segments : segments[s].selected # 0 =>
              /\ segments'[s].selected # 0
              /\ segments'[s].attempts[segments'[s].selected].rank
                     >= segments[s].attempts[segments[s].selected].rank
  <1>1. ASSUME RoomInv, [Next]_vars
        PROVE  [RoomP!Grows /\ Judged /\ Selecting]_RoomP!vars
    <2>1. /\ RoomP!TypeOK /\ RoomP!ConversationIsOrdered /\ RoomP!SelectionInv
          /\ [RoomP!Next]_RoomP!vars
      BY <1>1, SameType, SameNext, EveryStepIsRoomStep
      DEF RoomInv, SessionInv, HistoriesInv, RoomP!HistoryInv
    <2>2. CASE RoomP!Next
      <3>1. RoomP!Grows
        BY <2>1, <2>2, RoomAssumptions, RoomP!GrowStep
      <3>2. \A g \in DOMAIN endpointGraces : RoomP!WasJudged(g)
        BY <2>1, <2>2, RoomAssumptions, RoomP!JudgedStep
      <3>3. RoomP!NoSelectionIsWorse
        BY <2>1, <2>2, RoomAssumptions, RoomP!SelectionStep
      <3> QED
        BY <3>1, <3>2, <3>3
        DEF RoomP!WasJudged, RoomP!NoSelectionIsWorse, RoomP!IsNoWorse
    <2> QED
      BY <2>1, <2>2
  <1>2. RoomInv /\ [Next]_vars =>
            /\ [Len(turns') >= Len(turns) /\ \A i \in DOMAIN turns : turns'[i] = turns[i]]_RoomP!vars
            /\ [Judged]_RoomP!vars
            /\ [Selecting]_RoomP!vars
    BY <1>1 DEF RoomP!Grows
  <1> QED
    BY <1>2, RoomIsInvariant, PTL
    DEF Spec, RoomP!ConversationOnlyGrows, RoomP!AutomaticHandOffWasJudged,
        RoomP!SelectionNeverDegrades

-----------------------------------------------------------------------------
(* Who moves *)

\* The stages of a handler, and those of resuming.
BeginStages == {"begin", "capturing", "captureFailed", "started", "preserve", "preserveRecord"}
TranscribeStages == {"finalize", "recordCapture", "authorize", "transcribing", "recordTranscript"}
EvaluateStages ==
    {"evaluate", "classifying", "recordEvaluation", "reconcileEvaluation", "activateGrace"}
TimerStages == {"complete", "reconcileGrace"}
ReturnStages ==
    {"send", "handOff", "retry", "replying", "floor", "mode", "hold", "cancelGrace", "exclude",
     "finish", "note", "draft", "export"}
StartStages ==
    {"begin", "finalize", "authorize", "stopping"} \cup (ReturnStages \ {"replying"})
ResumeStages ==
    {"resumeGrace", "resumeAttempt", "resumeEvaluation", "resumeCapture", "resumeOutcome"}

\* Whatever task t does it does not resume, it completes a grace only if it is
\* the timer's, and a command of its is admitted only if the session was free.
Goes(t) ==
    /\ \A u \in Task \ {t} : tasks'[u] = tasks[u]
    /\ tasks'[t].op = tasks[t].op \/ tasks'[t].op # "resume"
    /\ tasks'[t].stage \notin ResumeStages
    /\ tasks'[t].stage \in TimerStages => t = "timer"
    /\ tasks'[t].admitted => Admits(t) \/ tasks'[t].stage = "replying"
    /\ tasks'[t].stage = "replying" => tasks'[t].admitted = tasks[t].admitted

\* A task with nothing to do is at no stage and has no command in the session.
LEMMA IdleStage == idle.stage = "idle" /\ idle.op = "none" /\ ~idle.admitted
  BY DEF idle

\* A task that is done moved, and no other did.
LEMMA IdleGoes ==
    ASSUME NamesInv, NEW t \in Task, tasks' = [tasks EXCEPT ![t] = idle]
    PROVE  Goes(t) /\ tasks'[t] = idle
  BY DEF NamesInv, Goes, idle, ResumeStages, TimerStages

\* A task that issues a command moved alone; the session admits it or refuses it.
LEMMA IssueGoes ==
    ASSUME NamesInv, NEW t \in Task, NEW op, NEW command, NEW of, NEW result,
           op = tasks[t].op \/ op # "resume",
           command \notin ResumeStages, command \in TimerStages => t = "timer",
           command # "replying", issue(t, op, command, of, result)
    PROVE  Goes(t) /\ tasks'[t].op = op /\ tasks'[t].stage = command /\ tasks'[t].of = of
           /\ tasks'[t].result = result /\ (tasks'[t].admitted <=> Admits(t))
  <1>1. tasks'[t] = [op |-> op, stage |-> command, of |-> of, result |-> result,
                     admitted |-> Admits(t)]
    BY DEF NamesInv, issue
  <1>2. \A u \in Task \ {t} : tasks'[u] = tasks[u]
    BY DEF NamesInv, issue
  <1> QED
    BY <1>1, <1>2 DEF Goes

\* ... and so did one that waits for somebody other than the session.
LEMMA AwaitGoes ==
    ASSUME NamesInv, NEW t \in Task, NEW op, NEW stage \in Waits, NEW of,
           op = tasks[t].op \/ op # "resume", await(t, op, stage, of)
    PROVE  Goes(t) /\ tasks'[t].op = op /\ tasks'[t].stage = stage /\ tasks'[t].of = of
           /\ tasks'[t].admitted = FALSE
  <1>1. tasks'[t] = [op |-> op, stage |-> stage, of |-> of, result |-> "none",
                     admitted |-> FALSE]
    BY DEF NamesInv, await
  <1>2. \A u \in Task \ {t} : tasks'[u] = tasks[u]
    BY DEF NamesInv, await
  <1>3. stage \notin ResumeStages /\ stage \notin TimerStages /\ stage # "replying"
    BY DEF Waits, ResumeStages, TimerStages
  <1>4. /\ tasks'[t].op = op /\ tasks'[t].stage = stage /\ tasks'[t].of = of
        /\ tasks'[t].admitted = FALSE
    BY <1>1
  <1> QED
    BY <1>2, <1>3, <1>4 DEF Goes

\* ... and one that is done with its segment: Send answer goes on to send.
LEMMA ReturnsGoes ==
    ASSUME NamesInv, NEW t \in Task, NEW c, Returns(t, c)
    PROVE  Goes(t) /\ tasks'[t].stage \in {"idle", "send"}
  <1>1. issue(t, tasks[t].op, "send", 0, "none") \/ tasks' = [tasks EXCEPT ![t] = idle]
    BY DEF Returns, issues, Ends
  <1>2. CASE issue(t, tasks[t].op, "send", 0, "none")
    BY <1>2, IssueGoes DEF ResumeStages, TimerStages
  <1>3. CASE tasks' = [tasks EXCEPT ![t] = idle]
    BY <1>3, IdleGoes, IdleStage
  <1> QED
    BY <1>1, <1>2, <1>3

\* beginSegment goes from one of its stages to another, or ends.
LEMMA BeginGoes ==
    ASSUME NamesInv, NEW t \in Task, BeginStep(t)
    PROVE  /\ Goes(t) /\ Running /\ tasks[t].stage \in BeginStages
           /\ tasks'[t].stage \in BeginStages \cup {"idle"}
  <1> USE IdleStage DEF At, Admitted, Refused, BeginStages
  <1>1. CASE BeginSaved(t)
    BY <1>1, AwaitGoes DEF BeginSaved, Waits
  <1>2. CASE \/ BeginRefused(t) \/ CaptureFailedSaved(t) \/ CaptureFailedRefused(t)
             \/ StartedSaved(t) \/ PreserveRefused(t) \/ PreserveRecordSaved(t)
             \/ PreserveRecordRefused(t)
    BY <1>2, IdleGoes
    DEF BeginRefused, CaptureFailedSaved, CaptureFailedRefused, StartedSaved, PreserveRefused,
        PreserveRecordSaved, PreserveRecordRefused, Ends
  <1>3. CASE CaptureStarts(t)
    BY <1>3, IssueGoes DEF CaptureStarts, issues, ResumeStages, TimerStages
  <1>4. CASE CaptureStartFails(t)
    BY <1>4, IssueGoes DEF CaptureStartFails, issues, ResumeStages, TimerStages
  <1>5. CASE StartedRefused(t)
    BY <1>5, IssueGoes DEF StartedRefused, issues, ResumeStages, TimerStages
  <1>6. CASE PreserveSaved(t)
    <2>1. \/ issue(t, tasks[t].op, "preserveRecord", tasks[t].of, "none")
          \/ tasks' = [tasks EXCEPT ![t] = idle]
      BY <1>6 DEF PreserveSaved, issues, Ends
    <2> QED
      BY <1>6, <2>1, IssueGoes, IdleGoes DEF PreserveSaved, ResumeStages, TimerStages
  <1> QED
    BY <1>1, <1>2, <1>3, <1>4, <1>5, <1>6 DEF BeginStep

\* ... so do finalizeActiveSegment and transcribe, or they go on to send or to evaluate;
LEMMA TranscribeGoes ==
    ASSUME NamesInv, NEW t \in Task, TranscribeStep(t)
    PROVE  /\ Goes(t) /\ Running /\ tasks[t].stage \in TranscribeStages
           /\ tasks'[t].stage \in TranscribeStages \cup {"idle", "send", "evaluate"}
  <1> USE IdleStage DEF At, Admitted, Refused, TranscribeStages
  <1>1. CASE FinalizeSaved(t)
    <2>1. \/ issue(t, tasks[t].op, "recordCapture", tasks[t].of, tasks[t].result)
          \/ tasks' = [tasks EXCEPT ![t] = idle]
      BY <1>1 DEF FinalizeSaved, issues, Ends
    <2> QED
      BY <1>1, <2>1, IssueGoes, IdleGoes DEF FinalizeSaved, ResumeStages, TimerStages
  <1>2. CASE \/ FinalizeRefused(t) \/ RecordCaptureRefused(t) \/ AuthorizeRefused(t)
             \/ TranscriptRefused(t)
    BY <1>2, IdleGoes
    DEF FinalizeRefused, RecordCaptureRefused, AuthorizeRefused, TranscriptRefused, Ends
  <1>3. CASE RecordCaptureSaved(t)
    <2>1. \/ Returns(t, coordinator)
          \/ \E r : issue(t, tasks[t].op, "authorize", r, "none")
      BY <1>3 DEF RecordCaptureSaved, TranscribesNext, issues
    <2> QED
      BY <1>3, <2>1, ReturnsGoes, IssueGoes DEF RecordCaptureSaved, ResumeStages, TimerStages
  <1>4. CASE AuthorizeSaved(t)
    <2>1. \/ await(t, tasks[t].op, "transcribing", tasks[t].of)
          \/ issue(t, tasks[t].op, "recordTranscript", tasks[t].of, "failed")
      BY <1>4 DEF AuthorizeSaved, issues
    <2>2. CASE await(t, tasks[t].op, "transcribing", tasks[t].of)
      BY <1>4, <2>2, AwaitGoes DEF AuthorizeSaved, Waits
    <2>3. CASE issue(t, tasks[t].op, "recordTranscript", tasks[t].of, "failed")
      BY <1>4, <2>3, IssueGoes DEF AuthorizeSaved, ResumeStages, TimerStages
    <2> QED
      BY <2>1, <2>2, <2>3
  <1>5. CASE Transcribed(t)
    <2>1. \E result : issue(t, tasks[t].op, "recordTranscript", tasks[t].of, result)
      BY <1>5 DEF Transcribed, issues
    <2> QED
      BY <1>5, <2>1, IssueGoes DEF Transcribed, ResumeStages, TimerStages
  <1>6. CASE TranscriptSaved(t)
    <2>1. \/ issue(t, tasks[t].op, "evaluate", tasks[t].of, "none")
          \/ Returns(t, coordinator) \/ tasks' = [tasks EXCEPT ![t] = idle]
      BY <1>6 DEF TranscriptSaved, issues, Ends
    <2> QED
      BY <1>6, <2>1, ReturnsGoes, IssueGoes, IdleGoes
      DEF TranscriptSaved, ResumeStages, TimerStages
  <1> QED
    BY <1>1, <1>2, <1>3, <1>4, <1>5, <1>6 DEF TranscribeStep

\* ... so does evaluateEndpointIfNeeded, or it goes on to send.
LEMMA EvaluateGoes ==
    ASSUME NamesInv, NEW t \in Task, EvaluateStep(t)
    PROVE  /\ Goes(t) /\ Running /\ tasks[t].stage \in EvaluateStages
           /\ tasks'[t].stage \in EvaluateStages \cup {"idle", "send"}
  <1> USE IdleStage DEF At, Admitted, Refused, EvaluateStages
  <1>1. CASE EvaluateSaved(t)
    <2>1. \/ Returns(t, coordinator)
          \/ await(t, tasks[t].op, "classifying", Len(endpointEvaluations'))
      BY <1>1 DEF EvaluateSaved
    <2> QED
      BY <1>1, <2>1, ReturnsGoes, AwaitGoes DEF EvaluateSaved, Waits
  <1>2. CASE \/ EvaluateRefused(t) \/ ReconcileEvaluationSaved(t) \/ ActivateGraceSaved(t)
             \/ ReconcileEvaluationRefused(t) \/ ActivateGraceRefused(t)
    BY <1>2, ReturnsGoes
    DEF EvaluateRefused, ReconcileEvaluationSaved, ReconcileEvaluationRefused,
        ActivateGraceRefused, ActivateGraceSaved
  <1>3. CASE Classified(t)
    <2>1. \E result : issue(t, tasks[t].op, "recordEvaluation", tasks[t].of, result)
      BY <1>3 DEF Classified, issues
    <2> QED
      BY <1>3, <2>1, IssueGoes DEF Classified, ResumeStages, TimerStages
  <1>4. CASE EvaluationSaved(t)
    <2>1. \/ \E c : Returns(t, c)
          \/ issue(t, tasks[t].op, "activateGrace", tasks[t].of, "none")
      BY <1>4 DEF EvaluationSaved, issues
    <2> QED
      BY <1>4, <2>1, ReturnsGoes, IssueGoes DEF EvaluationSaved, ResumeStages, TimerStages
  <1>5. CASE EvaluationRefused(t)
    BY <1>5, IssueGoes DEF EvaluationRefused, issues, ResumeStages, TimerStages
  <1> QED
    BY <1>1, <1>2, <1>3, <1>4, <1>5 DEF EvaluateStep

\* A hand off that was saved goes on to await the reply, still admitted.
LEMMA ReplyGoes ==
    ASSUME NamesInv, NEW t \in Task, tasks' = [tasks EXCEPT ![t].stage = "replying"]
    PROVE  /\ Goes(t) /\ tasks'[t].stage = "replying" /\ tasks'[t].op = tasks[t].op
           /\ tasks'[t].admitted = tasks[t].admitted
  <1> DEFINE r == [tasks[t] EXCEPT !.stage = "replying"]
  <1>1. tasks[t] \in TaskRecord
    BY DEF NamesInv
  <1>2. r.stage = "replying" /\ r.op = tasks[t].op /\ r.admitted = tasks[t].admitted
    BY <1>1 DEF TaskRecord
  <1>3. tasks' = [tasks EXCEPT ![t] = r]
    BY DEF NamesInv
  <1> HIDE DEF r
  <1>4. tasks'[t] = r /\ \A u \in Task \ {t} : tasks'[u] = tasks[u]
    BY <1>3 DEF NamesInv
  <1> QED
    BY <1>2, <1>4 DEF Goes, ResumeStages, TimerStages

\* completeScheduledGrace is the timer's, and ends or awaits the reply.
LEMMA GraceGoes ==
    ASSUME NamesInv, GraceStep
    PROVE  /\ \/ UNCHANGED tasks
              \/ /\ Goes("timer")
                 /\ \/ tasks'["timer"].stage \in TimerStages \cup {"idle"}
                    \/ CompleteSaved /\ tasks'["timer"].stage = "replying"
           /\ Launched \/ (Running /\ tasks["timer"].stage \in TimerStages)
           /\ tasks["timer"] = idle \/ tasks["timer"].stage \in TimerStages
  <1> USE IdleStage DEF At, Admitted, Refused, TimerStages
  <1>0. "timer" \in Task
    BY DEF Task
  <1>1. CASE GraceRunsOut
    <2>1. \/ UNCHANGED tasks
          \/ issue("timer", "grace", "complete", coordinator.grace, "none")
      BY <1>1 DEF GraceRunsOut
    <2>2. UNCHANGED tasks \/ (Goes("timer") /\ tasks'["timer"].stage = "complete")
      BY <1>0, <2>1, IssueGoes DEF ResumeStages
    <2> QED
      BY <1>1, <2>2 DEF GraceRunsOut
  <1>2. CASE CompleteSaved
    BY <1>0, <1>2, ReplyGoes DEF CompleteSaved
  <1>3. CASE CompleteRefused
    <2>1. \/ issue("timer", tasks["timer"].op, "reconcileGrace", tasks["timer"].of, "none")
          \/ tasks' = [tasks EXCEPT !["timer"] = idle]
      BY <1>3 DEF CompleteRefused, issues, Ends
    <2> QED
      BY <1>0, <1>3, <2>1, IssueGoes, IdleGoes DEF CompleteRefused, ResumeStages
  <1>4. CASE ReconcileGraceSaved \/ ReconcileGraceRefused
    BY <1>0, <1>4, IdleGoes DEF ReconcileGraceSaved, ReconcileGraceRefused, Ends
  <1> QED
    BY <1>1, <1>2, <1>3, <1>4 DEF GraceStep

\* A command of the room that returns ends its task; a barge-in that has the floor begins
\* a segment, and a hand off awaits the reply.
LEMMA ReturnGoes ==
    ASSUME NamesInv, RoomReturn
    PROVE  \E t \in Task : /\ Goes(t) /\ Running /\ tasks[t].stage \in ReturnStages
                           /\ \/ tasks'[t].stage \in {"idle", "begin"}
                              \/ HandOffSaved /\ tasks'[t].stage = "replying"
  <1> USE IdleStage DEF At, Admitted, Refused, ReturnStages
  <1>0. {"user", "acoustic", "playback", "timer", "desk"} \subseteq Task
    BY DEF Task
  <1>1. CASE HandOffSaved
    BY <1>0, <1>1, ReplyGoes DEF HandOffSaved
  <1>2. CASE HandOffRefused
    BY <1>0, <1>2, IdleGoes DEF HandOffRefused, Ends
  <1>3. ASSUME NEW t \in {"user", "timer"}, Replied(t) \/ ReplyFails(t)
        PROVE  /\ Goes(t) /\ Running /\ tasks[t].stage \in ReturnStages
               /\ tasks'[t].stage \in {"idle", "begin"}
    BY <1>0, <1>3, IdleGoes DEF Replied, ReplyFails
  <1>4. ASSUME NEW t \in {"user", "acoustic", "playback"}, FloorSaved(t) \/ FloorRefused(t)
        PROVE  /\ Goes(t) /\ Running /\ tasks[t].stage \in ReturnStages
               /\ tasks'[t].stage \in {"idle", "begin"}
    <2>1. \/ issue(t, tasks[t].op, "begin", 0, "none")
          \/ tasks' = [tasks EXCEPT ![t] = idle]
      BY <1>4 DEF FloorSaved, FloorRefused, issues
    <2>2. Goes(t) /\ tasks'[t].stage \in {"idle", "begin"}
      BY <1>0, <2>1, IssueGoes, IdleGoes DEF ResumeStages, TimerStages
    <2> QED
      BY <1>4, <2>2 DEF FloorSaved, FloorRefused
  <1>5. CASE ModeSaved \/ HoldSaved \/ KeepFloorSaved \/ ExcludeSaved \/ FinishSaved
    BY <1>0, <1>5, IdleGoes
    DEF ModeSaved, HoldSaved, KeepFloorSaved, ExcludeSaved, FinishSaved, Ends
  <1>6. CASE DeskSaved
    BY <1>0, <1>6, IdleGoes DEF DeskSaved, Ends
  <1>7. ASSUME NEW t \in {"user", "desk"}, CommandRefused(t)
        PROVE  /\ Goes(t) /\ Running /\ tasks[t].stage \in ReturnStages
               /\ tasks'[t].stage \in {"idle", "begin"}
    BY <1>0, <1>7, IdleGoes DEF CommandRefused, Ends
  <1> QED
    BY <1>0, <1>1, <1>2, <1>3, <1>4, <1>5, <1>6, <1>7 DEF RoomReturn

\* The room starts an operation of a task that has none.
LEMMA StartGoes ==
    ASSUME NamesInv, RoomStart
    PROVE  /\ Launched
           /\ \/ UNCHANGED tasks
              \/ \E t \in Task : /\ Goes(t) /\ tasks[t].stage = "idle"
                               /\ tasks'[t].stage \in StartStages
  <1> USE IdleStage DEF ResumeStages, TimerStages, StartStages, ReturnStages,
                        Starts, Idle
  <1>0. {"user", "desk"} \subseteq Task
    BY DEF Task
  <1>1. CASE StartCapture
    <2>1. \E op \in UserOperations, command \in {"begin", "finalize", "authorize", "exclude"} :
              \E s, result : issue("user", op, command, s, result)
      BY <1>1 DEF StartCapture, Finalizes, UserOperations
    <2>2. Goes("user") /\ tasks'["user"].stage \in StartStages
      BY <1>0, <2>1, IssueGoes DEF UserOperations
    <2> QED
      BY <1>0, <1>1, <2>2 DEF StartCapture
  <1>2. CASE StartFloor
    <2>1. \/ \E op \in UserOperations,
                command \in {"hold", "send", "finalize", "handOff", "retry", "cancelGrace"} :
                 \E s, result : issue("user", op, command, s, result)
          \/ await("user", "giveFloor", "stopping", 0)
      BY <1>2 DEF StartFloor, Finalizes, UserOperations
    <2>2. Goes("user") /\ tasks'["user"].stage \in StartStages
      <3>1. CASE await("user", "giveFloor", "stopping", 0)
        BY <1>0, <3>1, AwaitGoes DEF Waits
      <3>2. CASE ~await("user", "giveFloor", "stopping", 0)
        BY <1>0, <2>1, <3>2, IssueGoes DEF UserOperations
      <3> QED
        BY <3>1, <3>2
    <2> QED
      BY <1>0, <1>2, <2>2 DEF StartFloor
  <1>3. CASE StartMode
    <2>1. \E op \in {"mode", "finish"} : \E result : issue("user", op, op, 0, result)
      BY <1>3 DEF StartMode
    <2>2. Goes("user") /\ tasks'["user"].stage \in StartStages
      BY <1>0, <2>1, IssueGoes
    <2> QED
      BY <1>0, <1>3, <2>2 DEF StartMode
  <1>4. CASE StartDesk
    <2>1. \E command \in {"note", "draft", "export"} : issue("desk", "desk", command, 0, "none")
      BY <1>4 DEF StartDesk
    <2>2. Goes("desk") /\ tasks'["desk"].stage \in StartStages
      BY <1>0, <2>1, IssueGoes
    <2> QED
      BY <1>0, <1>4, <2>2 DEF StartDesk
  <1>5. CASE Pause
    BY <1>5 DEF Pause
  <1> QED
    BY <1>1, <1>2, <1>3, <1>4, <1>5 DEF RoomStart

\* An event of the segmenter, the player or the recorder starts a task that is idle, or
\* moves the one that stopped playback.
LEMMA AudioGoes ==
    ASSUME NamesInv, AudioStep
    PROVE  \/ Launched /\ UNCHANGED tasks
           \/ \E t \in Task : /\ Goes(t)
                             /\ tasks'[t].stage \in StartStages \cup {"idle"}
                             /\ \/ Launched /\ tasks[t].stage = "idle"
                                \/ Running /\ tasks[t].stage = "stopping"
  <1> USE IdleStage DEF ResumeStages, TimerStages, StartStages, ReturnStages
  <1>0. {"user", "acoustic", "playback", "recorder"} \subseteq Task
    BY DEF Task
  <1>1. CASE SpeechStarts
    <2>1. \/ UNCHANGED tasks \/ await("acoustic", "bargeIn", "stopping", 0)
          \/ issue("acoustic", "speechStarted", "begin", 0, "none")
      BY <1>1 DEF SpeechStarts
    <2>2. UNCHANGED tasks \/ (Goes("acoustic") /\ tasks'["acoustic"].stage \in StartStages)
      <3>1. CASE await("acoustic", "bargeIn", "stopping", 0)
        BY <1>0, <3>1, AwaitGoes DEF Waits
      <3>2. CASE ~await("acoustic", "bargeIn", "stopping", 0)
        BY <1>0, <2>1, <3>2, IssueGoes
      <3> QED
        BY <3>1, <3>2
    <2> QED
      BY <1>0, <1>1, <2>2 DEF SpeechStarts
  <1>2. CASE SpeechEnds
    <2>1. \/ UNCHANGED tasks
          \/ \E s : issue("acoustic", "speechEnded", "finalize", s, "none")
      BY <1>2 DEF SpeechEnds
    <2>2. UNCHANGED tasks \/ (Goes("acoustic") /\ tasks'["acoustic"].stage \in StartStages)
      BY <1>0, <2>1, IssueGoes
    <2> QED
      BY <1>0, <1>2, <2>2 DEF SpeechEnds
  <1>3. CASE PlaybackStarts
    BY <1>3 DEF PlaybackStarts
  <1>4. CASE PlaybackFinishes
    <2>1. UNCHANGED tasks \/ issue("playback", "playback", "floor", 0, "none")
      BY <1>4 DEF PlaybackFinishes
    <2>2. UNCHANGED tasks \/ (Goes("playback") /\ tasks'["playback"].stage \in StartStages)
      BY <1>0, <2>1, IssueGoes
    <2> QED
      BY <1>0, <1>4, <2>2 DEF PlaybackFinishes
  <1>5. ASSUME NEW t \in {"user", "acoustic"}, PlaybackStopped(t)
        PROVE  /\ Goes(t) /\ Running /\ tasks[t].stage = "stopping"
               /\ tasks'[t].stage \in StartStages \cup {"idle"}
    <2>1. \/ \E command \in {"floor", "begin"} : issue(t, tasks[t].op, command, 0, "none")
          \/ tasks' = [tasks EXCEPT ![t] = idle]
      BY <1>5 DEF PlaybackStopped, issues
    <2>2. Goes(t) /\ tasks'[t].stage \in StartStages \cup {"idle"}
      BY <1>0, <2>1, IssueGoes, IdleGoes
    <2> QED
      BY <1>5, <2>2 DEF PlaybackStopped, At
  <1>6. CASE RecorderStops
    <2>1. \/ UNCHANGED tasks
          \/ \E s : issue("recorder", "recorder", "finalize", s, "none")
      BY <1>6 DEF RecorderStops
    <2>2. UNCHANGED tasks \/ (Goes("recorder") /\ tasks'["recorder"].stage \in StartStages)
      BY <1>0, <2>1, IssueGoes
    <2> QED
      BY <1>0, <1>6, <2>2 DEF RecorderStops
  <1> QED
    BY <1>0, <1>1, <1>2, <1>3, <1>4, <1>5, <1>6 DEF AudioStep

-----------------------------------------------------------------------------
(* What the session's actor is doing *)

\* Capturing moves neither the interviewer's reply nor the process;
LEMMA BeginKeepsActor ==
    ASSUME NEW t, BeginStep(t)
    PROVE  UNCHANGED <<provider, process>>
  BY DEF BeginStep, BeginSaved, BeginRefused, CaptureStarts, CaptureStartFails,
         CaptureFailedSaved, CaptureFailedRefused, StartedSaved, StartedRefused,
         PreserveSaved, PreserveRefused, PreserveRecordSaved, PreserveRecordRefused, Refused,
         NoRoomStep, room, Room!BeginSegment, Room!RecordCaptureFailed,
         Room!RecordRecordingStarted, Room!FinalizeSegment, Room!RecordCaptureFinalized,
         Room!RewriteSegment, Room!actor

\* ... nor does transcribing,
LEMMA TranscribeKeepsActor ==
    ASSUME NEW t, TranscribeStep(t)
    PROVE  UNCHANGED <<provider, process>>
  BY DEF TranscribeStep, FinalizeSaved, FinalizeRefused, RecordCaptureSaved,
         RecordCaptureRefused, AuthorizeSaved, AuthorizeRefused, Transcribed,
         TranscriptSaved, TranscriptRefused, Refused, NoRoomStep, room,
         Room!FinalizeSegment, Room!RecordCaptureFinalized,
         Room!AuthorizeSegmentTranscription, Room!RecordTranscriptCandidate,
         Room!RecordTranscriptionFailed, Room!RewriteSegment, Room!actor

\* ... nor evaluating;
LEMMA EvaluateKeepsActor ==
    ASSUME NEW t, EvaluateStep(t)
    PROVE  UNCHANGED <<provider, process>>
  BY DEF EvaluateStep, EvaluateSaved, EvaluateRefused, Classified, EvaluationSaved,
         EvaluationRefused, ReconcileEvaluationSaved, ReconcileEvaluationRefused,
         ActivateGraceSaved, ActivateGraceRefused, Refused, NoRoomStep, room,
         Room!AuthorizeEndpointEvaluation, Room!RecordEndpointProposal,
         Room!RecordEndpointFailure, Room!ActivateEndpointGrace, Room!actor

\* ... a grace that runs out asks for a reply only by completing,
LEMMA GraceKeepsActor ==
    ASSUME GraceStep
    PROVE  UNCHANGED process /\ (CompleteSaved \/ UNCHANGED provider)
  BY DEF GraceStep, GraceRunsOut, CompleteSaved, CompleteRefused, ReconcileGraceSaved,
         ReconcileGraceRefused, Refused, NoRoomStep, room, Room!CompleteEndpointGrace,
         Room!handOffSegments, Room!handOff, Room!CancelEndpointGrace, Room!actor

\* ... the room's commands only by a hand off, and only a reply ends it.
LEMMA ReturnKeepsActor ==
    ASSUME RoomReturn
    PROVE  /\ UNCHANGED process
           /\ \/ UNCHANGED provider \/ HandOffSaved
              \/ \E t \in {"user", "timer"} : Replied(t) \/ ReplyFails(t)
  <1>1. ASSUME NEW t, HandOffRefused \/ FloorRefused(t) \/ CommandRefused(t) \/ FloorSaved(t)
        PROVE  UNCHANGED <<provider, process>>
    BY <1>1 DEF HandOffRefused, FloorRefused, CommandRefused, FloorSaved, Refused, NoRoomStep,
                room, Room!GiveCandidateFloor, Room!actor
  <1>2. CASE ModeSaved \/ HoldSaved \/ KeepFloorSaved \/ ExcludeSaved \/ FinishSaved
    BY <1>2 DEF ModeSaved, HoldSaved, KeepFloorSaved, ExcludeSaved, FinishSaved,
                Room!SetTurnMode, Room!ActivateFloorHold, Room!CancelEndpointGrace,
                Room!ExcludeSegment, Room!RewriteSegment, Room!Finish, Room!actor
  <1>3. CASE DeskSaved
    BY <1>3 DEF DeskSaved, NoRoomStep, room, Room!UpdateCandidateNotes, Room!UpdateBoardDraft,
                Room!actor
  <1>4. HandOffSaved => UNCHANGED process
    BY DEF HandOffSaved, Room!SendAnswer, Room!HandOffSegments,
           Room!RetryInterviewerResponse, Room!handOffSegments, Room!handOff
  <1>5. \A t : Replied(t) \/ ReplyFails(t) => UNCHANGED process
    BY DEF Replied, ReplyFails, Room!InterviewerResponds, Room!InterviewerFails
  <1> QED
    BY <1>1, <1>2, <1>3, <1>4, <1>5 DEF RoomReturn

\* Starting an operation changes nothing in the session.
LEMMA StartsKeepRoom == RoomStart \/ AudioStep => NoRoomStep
  BY DEF RoomStart, StartCapture, StartFloor, StartMode, StartDesk, Pause, Starts, Idle,
         AudioStep, SpeechStarts, SpeechEnds, PlaybackStarts, PlaybackFinishes,
         PlaybackStopped, RecorderStops

-----------------------------------------------------------------------------
(* Control: who may do anything, and when *)

\* The room's task alone resumes what an earlier process left, and nothing else
\* is under way meanwhile; without a process nothing is.
ControlInv ==
    /\ \A t \in Task : /\ tasks[t].op = "resume" <=> tasks[t].stage \in ResumeStages
                       /\ tasks[t].op = "resume" => t = "user"
                       /\ tasks[t].stage \in TimerStages => t = "timer"
    /\ tasks["user"].op = "resume" => \A t \in Task \ {"user"} : tasks[t] = idle
    /\ ~Running => \A t \in Task : tasks[t] = idle

\* A step of any task that is at work finds the room launched.
LEMMA LaunchedAt ==
    ASSUME ControlInv, Running, NEW t \in Task,
           tasks[t].stage # "idle", tasks[t].stage \notin ResumeStages
    PROVE  Launched
  BY IdleStage DEF ControlInv, Launched

\* Whoever is at a stage of these is neither idle nor resuming.
LEMMA WorkingStages ==
    \A stage \in BeginStages \cup TranscribeStages \cup EvaluateStages \cup TimerStages
                 \cup ReturnStages \cup {"stopping"} :
        stage # "idle" /\ stage \notin ResumeStages
  BY DEF BeginStages, TranscribeStages, EvaluateStages, TimerStages, ReturnStages,
         ResumeStages

\* Unless it is a step of resuming, or of the process itself, it is made in a
\* launched room and moves at most one task.
LEMMA OneGoes ==
    ASSUME NamesInv, ControlInv, [Next]_vars, ~ProcessStep
    PROVE  /\ UNCHANGED process
           /\ UNCHANGED vars \/ Launched
           /\ UNCHANGED tasks \/ \E t \in Task : Goes(t)
  <1> USE WorkingStages
  <1>0. {"user", "acoustic", "recorder", "timer"} \subseteq Task
    BY DEF Task
  <1>1. ASSUME NEW t \in {"user", "acoustic"}, BeginStep(t)
        PROVE  UNCHANGED process /\ Launched /\ Goes(t)
    BY <1>0, <1>1, BeginGoes, BeginKeepsActor, LaunchedAt
  <1>2. ASSUME NEW t \in {"user", "acoustic"}, EvaluateStep(t)
        PROVE  UNCHANGED process /\ Launched /\ Goes(t)
    BY <1>0, <1>2, EvaluateGoes, EvaluateKeepsActor, LaunchedAt
  <1>3. ASSUME NEW t \in {"user", "acoustic", "recorder"}, TranscribeStep(t)
        PROVE  UNCHANGED process /\ Launched /\ Goes(t)
    BY <1>0, <1>3, TranscribeGoes, TranscribeKeepsActor, LaunchedAt
  <1>4. CASE GraceStep
    BY <1>0, <1>4, GraceGoes, GraceKeepsActor, LaunchedAt
  <1>5. CASE RoomReturn
    BY <1>5, ReturnGoes, ReturnKeepsActor, LaunchedAt
  <1>6. CASE RoomStart
    BY <1>6, StartGoes, StartsKeepRoom DEF NoRoomStep, room
  <1>7. CASE AudioStep
    BY <1>7, AudioGoes, StartsKeepRoom, LaunchedAt DEF NoRoomStep, room
  <1>8. CASE UNCHANGED vars
    BY <1>8 DEF vars
  <1> QED
    BY <1>0, <1>1, <1>2, <1>3, <1>4, <1>5, <1>6, <1>7, <1>8 DEF Next

\* ... which stays launched.
LEMMA WorkGoes ==
    ASSUME NamesInv, ControlInv, [Next]_vars, ~ProcessStep
    PROVE  /\ UNCHANGED process
           /\ UNCHANGED vars \/ (Launched /\ Launched')
           /\ UNCHANGED tasks \/ \E t \in Task : Goes(t)
  <1>1. Launched /\ (UNCHANGED tasks \/ \E t \in Task : Goes(t)) => tasks'["user"].op # "resume"
    BY DEF Launched, Goes, Task
  <1> QED
    BY <1>1, OneGoes DEF Launched, Running

\* Resuming goes on to the next thing to reconcile, or opens the room; it is alone.
LEMMA ResumesGoes ==
    ASSUME NamesInv, Resumes \/ OpensRoom, \A t \in Task \ {"user"} : tasks[t] = idle
    PROVE  /\ \A t \in Task \ {"user"} : tasks'[t] = idle
           /\ \/ tasks'["user"] = idle
              \/ tasks'["user"].op = "resume" /\ tasks'["user"].stage \in ResumeStages
  <1>0. "user" \in Task
    BY DEF Task
  <1>1. CASE tasks' = [tasks EXCEPT !["user"] = idle]
    BY <1>0, <1>1 DEF NamesInv
  <1>2. ASSUME NEW command \in {"resumeGrace", "resumeAttempt", "resumeEvaluation",
                                "resumeCapture"},
               NEW of, issue("user", "resume", command, of, "none")
        PROVE  /\ \A t \in Task \ {"user"} : tasks'[t] = idle
               /\ tasks'["user"].op = "resume" /\ tasks'["user"].stage \in ResumeStages
    <2>1. tasks'["user"] = [op |-> "resume", stage |-> command, of |-> of,
                            result |-> "none", admitted |-> Admits("user")]
      BY <1>0, <1>2 DEF NamesInv, issue
    <2>2. \A t \in Task \ {"user"} : tasks'[t] = tasks[t]
      BY <1>0, <1>2 DEF NamesInv, issue
    <2> QED
      BY <2>1, <2>2 DEF ResumeStages
  <1>3. \/ tasks' = [tasks EXCEPT !["user"] = idle]
        \/ \E command \in {"resumeGrace", "resumeAttempt", "resumeEvaluation",
                           "resumeCapture"} :
               \E of : issue("user", "resume", command, of, "none")
    BY DEF Resumes, OpensRoom, Resumable
  <1> QED
    BY <1>1, <1>2, <1>3

\* ... whether it was relaunched, or its last command was saved or refused.
LEMMA ResumeGoes ==
    ASSUME NamesInv, ControlInv, ProcessStep, ~Crash
    PROVE  /\ \A t \in Task \ {"user"} : tasks'[t] = idle
           /\ \/ tasks'["user"] = idle
              \/ /\ Running'
                 /\ tasks'["user"].op = "resume" /\ tasks'["user"].stage \in ResumeStages
  <1> USE DEF ResumeStages
  <1>0. "user" \in Task
    BY DEF Task
  <1>1. CASE Relaunch
    <2>1. ~Running
      BY <1>1 DEF Relaunch, Room!Relaunch, Running
    <2>2. \A t \in Task : tasks[t] = idle
      BY <2>1 DEF ControlInv
    <2>3. CASE process' = "running"
      BY <1>1, <2>2, <2>3, ResumesGoes DEF Relaunch, Running
    <2>4. CASE process' # "running"
      BY <1>0, <1>1, <2>2, <2>4 DEF Relaunch
    <2> QED
      BY <2>3, <2>4
  <1>2. CASE ResumeSaved
    <2>1. Running' /\ tasks["user"].stage \in ResumeStages
      BY <1>2 DEF ResumeSaved, Admitted, At, Running, Room!CancelEndpointGrace,
                  Room!RecordTranscriptionFailed, Room!RecordEndpointFailure,
                  Room!FinalizeSegment, Room!RecordCaptureFinalized, Room!RecordCaptureFailed,
                  Room!RewriteSegment, Room!actor
    <2>2. tasks["user"].op = "resume" /\ \A t \in Task \ {"user"} : tasks[t] = idle
      BY <1>0, <2>1 DEF ControlInv
    <2>3. CASE Resumes
      BY <2>1, <2>2, <2>3, ResumesGoes
    <2>4. CASE issue("user", "resume", "resumeOutcome", tasks["user"].of, "none")
      <3>1. tasks'["user"] = [op |-> "resume", stage |-> "resumeOutcome",
                              of |-> tasks["user"].of, result |-> "none",
                              admitted |-> Admits("user")]
        BY <1>0, <2>4 DEF NamesInv, issue
      <3>2. \A t \in Task \ {"user"} : tasks'[t] = tasks[t]
        BY <1>0, <2>4 DEF NamesInv, issue
      <3> QED
        BY <2>1, <2>2, <3>1, <3>2
    <2> QED
      BY <1>2, <2>2, <2>3, <2>4 DEF ResumeSaved, issues
  <1>3. CASE ResumeRefused
    <2>1. Running' /\ tasks["user"].stage \in ResumeStages
      BY <1>3 DEF ResumeRefused, Refused, At, Running, NoRoomStep, room
    <2>2. \A t \in Task \ {"user"} : tasks[t] = idle
      BY <1>0, <2>1 DEF ControlInv
    <2> QED
      BY <1>3, <2>1, <2>2, ResumesGoes DEF ResumeRefused
  <1> QED
    BY <1>1, <1>2, <1>3 DEF ProcessStep

\* Every step keeps who may do what.
LEMMA ControlStep ==
    ASSUME NamesInv, ControlInv, [Next]_vars
    PROVE  ControlInv'
  <1>0. "user" \in Task /\ idle.stage \notin TimerStages /\ idle.stage \notin ResumeStages
        /\ ResumeStages \cap TimerStages = {}
    BY IdleStage DEF Task, TimerStages, ResumeStages
  <1>1. CASE Crash
    <2>1. \A t \in Task : tasks'[t] = idle
      BY <1>1 DEF Crash
    <2> QED
      BY <1>0, <2>1, IdleStage DEF ControlInv
  <1>2. CASE ProcessStep /\ ~Crash
    BY <1>0, <1>2, ResumeGoes, IdleStage DEF ControlInv
  <1>3. CASE ~ProcessStep
    <2>1. UNCHANGED process /\ (UNCHANGED vars \/ Launched)
      BY <1>3, WorkGoes
    <2>2. CASE UNCHANGED tasks
      BY <2>1, <2>2 DEF ControlInv, Running
    <2>3. ASSUME NEW t \in Task, Goes(t), Launched
          PROVE  ControlInv'
      <3>1. \A u \in Task : tasks[u].op # "resume" /\ tasks[u].stage \notin ResumeStages
        BY <2>3 DEF ControlInv, Launched
      <3> QED
        BY <1>0, <2>1, <2>3, <3>1 DEF ControlInv, Goes, Launched, Running
    <2>4. UNCHANGED vars => UNCHANGED tasks
      BY DEF vars
    <2> QED
      BY <1>3, <2>1, <2>2, <2>3, <2>4, WorkGoes
  <1> QED
    BY <1>1, <1>2, <1>3

\* The room opens with no task under way.
LEMMA ControlInit == Init => ControlInv
  <1>1. idle.stage \notin TimerStages /\ idle.stage \notin ResumeStages
    BY IdleStage DEF TimerStages, ResumeStages
  <1> QED
    BY <1>1, IdleStage DEF Init, ControlInv

-----------------------------------------------------------------------------
(* What becomes of a segment *)

\* Segment s is now in `life' with `audio', and nothing else about speech changed.
Becomes(s, life, audio) ==
    /\ DOMAIN segments' = DOMAIN segments
    /\ segments'[s].lifecycle = life /\ segments'[s].audio = audio
    /\ \A r \in DOMAIN segments \ {s} : segments'[r] = segments[r]

\* No segment changed its lifecycle or its audio.
SpeechKept ==
    /\ DOMAIN segments' = DOMAIN segments
    /\ \A s \in DOMAIN segments : /\ segments'[s].lifecycle = segments[s].lifecycle
                                 /\ segments'[s].audio = segments[s].audio

\* Rewriting one segment touches no other.
LEMMA RewriteBecomes ==
    ASSUME SessionInv, NEW s \in DOMAIN segments, NEW seg, Room!RewriteSegment(s, seg)
    PROVE  Becomes(s, seg.lifecycle, seg.audio)
  <1>1. segments' = [segments EXCEPT ![s] = seg]
    BY DEF Room!RewriteSegment
  <1>2. DOMAIN segments' = DOMAIN segments /\ segments'[s] = seg
        /\ \A r \in DOMAIN segments \ {s} : segments'[r] = segments[r]
    BY <1>1 DEF SessionInv, Room!TypeOK
  <1> QED
    BY <1>2 DEF Becomes

\* What each command about a capture makes of its segment,
LEMMA CaptureBecomes ==
    ASSUME SessionInv, NEW s \in DOMAIN segments
    PROVE  /\ Room!FinalizeSegment(s) =>
                  Becomes(s, "finalizationAuthorized", segments[s].audio)
           /\ Room!RecordRecordingStarted(s) => Becomes(s, "recording", segments[s].audio)
           /\ Room!RecordCaptureFailed(s) => Becomes(s, "failed", segments[s].audio)
           /\ Room!ExcludeSegment(s) => Becomes(s, "excluded", segments[s].audio)
           /\ \A audio : Room!RecordCaptureFinalized(s, audio) =>
                  Becomes(s, IF audio = "unplayable" THEN "failed" ELSE "audioReady", audio)
  <1>0. segments[s] \in Room!CandidateSegment
    BY DEF SessionInv, Room!TypeOK
  <1>1. ASSUME NEW life, Room!RewriteSegment(s, [segments[s] EXCEPT !.lifecycle = life])
        PROVE  Becomes(s, life, segments[s].audio)
    <2> DEFINE seg == [segments[s] EXCEPT !.lifecycle = life]
    <2>1. seg.lifecycle = life /\ seg.audio = segments[s].audio
      BY <1>0 DEF Room!CandidateSegment
    <2> HIDE DEF seg
    <2> QED
      BY <1>1, <2>1, RewriteBecomes DEF seg
  <1>2. ASSUME NEW audio, Room!RecordCaptureFinalized(s, audio)
        PROVE  Becomes(s, IF audio = "unplayable" THEN "failed" ELSE "audioReady", audio)
    <2> DEFINE life == IF audio = "unplayable" THEN "failed" ELSE "audioReady"
               seg == [segments[s] EXCEPT !.audio = audio, !.lifecycle = life]
    <2>1. seg.lifecycle = life /\ seg.audio = audio
      <3> HIDE DEF life
      <3> QED
        BY <1>0 DEF Room!CandidateSegment
    <2>2. Room!RewriteSegment(s, seg)
      BY <1>2 DEF Room!RecordCaptureFinalized
    <2> HIDE DEF seg, life
    <2>3. Becomes(s, life, audio)
      BY <2>1, <2>2, RewriteBecomes
    <2> QED
      BY <2>3 DEF life
  <1>3. /\ Room!FinalizeSegment(s) =>
               Room!RewriteSegment(s, [segments[s] EXCEPT !.lifecycle = "finalizationAuthorized"])
        /\ Room!RecordRecordingStarted(s) =>
               Room!RewriteSegment(s, [segments[s] EXCEPT !.lifecycle = "recording"])
        /\ Room!RecordCaptureFailed(s) =>
               Room!RewriteSegment(s, [segments[s] EXCEPT !.lifecycle = "failed"])
        /\ Room!ExcludeSegment(s) =>
               Room!RewriteSegment(s, [segments[s] EXCEPT !.lifecycle = "excluded"])
    BY DEF Room!FinalizeSegment, Room!RecordRecordingStarted, Room!RecordCaptureFailed,
           Room!ExcludeSegment
  <1> QED
    BY <1>1, <1>2, <1>3

\* ... and each about a transcript, which is of audio already saved.
LEMMA TranscriptBecomes ==
    ASSUME SessionInv, NEW s \in DOMAIN segments
    PROVE  /\ \A key : Room!AuthorizeSegmentTranscription(s, key) =>
                  /\ segments[s].lifecycle \in {"audioReady", "transcribed"}
                  /\ Becomes(s, "transcribing", segments[s].audio)
           /\ \A i, rank, best : Room!RecordTranscriptCandidate(s, i, rank, best) =>
                  /\ segments[s].lifecycle = "transcribing"
                  /\ Becomes(s, "transcribed", segments[s].audio)
           /\ \A i, failure : Room!RecordTranscriptionFailed(s, i, failure) =>
                  /\ segments[s].lifecycle = "transcribing"
                  /\ \E life \in {"audioReady", "transcribed"} :
                         Becomes(s, life, segments[s].audio)
  <1>0. segments[s] \in Room!CandidateSegment
    BY DEF SessionInv, Room!TypeOK
  <1>1. ASSUME NEW key, Room!AuthorizeSegmentTranscription(s, key)
        PROVE  /\ segments[s].lifecycle \in {"audioReady", "transcribed"}
               /\ Becomes(s, "transcribing", segments[s].audio)
    <2>1. PICK attempts : Room!RewriteSegment(s,
              [segments[s] EXCEPT !.attempts = attempts, !.lifecycle = "transcribing"])
      <3>1. Room!RewriteSegment(s, [segments[s] EXCEPT
                !.attempts = Append(segments[s].attempts,
                                    [state |-> "authorized", key |-> key, rank |-> 0]),
                !.lifecycle = "transcribing"])
        BY <1>0, <1>1 DEF Room!AuthorizeSegmentTranscription
      <3> QED
        BY <3>1
    <2> DEFINE seg == [segments[s] EXCEPT !.attempts = attempts, !.lifecycle = "transcribing"]
    <2>2. seg.lifecycle = "transcribing" /\ seg.audio = segments[s].audio
      BY <1>0 DEF Room!CandidateSegment
    <2>3. Room!RewriteSegment(s, seg)
      BY <2>1
    <2> HIDE DEF seg
    <2>4. Becomes(s, "transcribing", segments[s].audio)
      BY <2>2, <2>3, RewriteBecomes
    <2> QED
      BY <1>1, <2>4 DEF Room!AuthorizeSegmentTranscription
  <1>2. ASSUME NEW i, NEW rank, NEW best, Room!RecordTranscriptCandidate(s, i, rank, best)
        PROVE  /\ segments[s].lifecycle = "transcribing"
               /\ Becomes(s, "transcribed", segments[s].audio)
    <2>1. PICK attempts : Room!RewriteSegment(s,
              [segments[s] EXCEPT !.attempts = attempts, !.selected = best,
                                  !.lifecycle = "transcribed"])
      BY <1>2 DEF Room!RecordTranscriptCandidate
    <2> DEFINE seg == [segments[s] EXCEPT !.attempts = attempts, !.selected = best,
                                          !.lifecycle = "transcribed"]
    <2>2. seg.lifecycle = "transcribed" /\ seg.audio = segments[s].audio
      BY <1>0 DEF Room!CandidateSegment
    <2>3. Room!RewriteSegment(s, seg)
      BY <2>1
    <2> HIDE DEF seg
    <2>4. Becomes(s, "transcribed", segments[s].audio)
      BY <2>2, <2>3, RewriteBecomes
    <2> QED
      BY <1>2, <2>4 DEF Room!RecordTranscriptCandidate
  <1>3. ASSUME NEW i, NEW failure, Room!RecordTranscriptionFailed(s, i, failure)
        PROVE  /\ segments[s].lifecycle = "transcribing"
               /\ \E life \in {"audioReady", "transcribed"} :
                      Becomes(s, life, segments[s].audio)
    <2>1. PICK attempts : \E life \in {"audioReady", "transcribed"} : Room!RewriteSegment(s,
              [segments[s] EXCEPT !.attempts = attempts, !.lifecycle = life])
      BY <1>3 DEF Room!RecordTranscriptionFailed
    <2>2. PICK life \in {"audioReady", "transcribed"} : Room!RewriteSegment(s,
              [segments[s] EXCEPT !.attempts = attempts, !.lifecycle = life])
      BY <2>1
    <2> DEFINE seg == [segments[s] EXCEPT !.attempts = attempts, !.lifecycle = life]
    <2>3. seg.lifecycle = life /\ seg.audio = segments[s].audio
      BY <1>0 DEF Room!CandidateSegment
    <2>4. Room!RewriteSegment(s, seg)
      BY <2>2
    <2> HIDE DEF seg
    <2>5. Becomes(s, life, segments[s].audio)
      BY <2>3, <2>4, RewriteBecomes
    <2> QED
      BY <1>3, <2>5 DEF Room!RecordTranscriptionFailed
  <1> QED
    BY <1>1, <1>2, <1>3

\* A segment that begins is new, and the only active one.
LEMMA BeginsFresh ==
    ASSUME SessionInv, Room!BeginSegment
    PROVE  /\ Room!ActiveSegments = {}
           /\ Len(segments) + 1 \notin DOMAIN segments /\ Len(segments) + 1 # 0
           /\ DOMAIN segments' = DOMAIN segments \cup {Len(segments) + 1}
           /\ \A s \in DOMAIN segments : segments'[s] = segments[s]
           /\ segments'[Len(segments) + 1].lifecycle = "captureAuthorized"
           /\ segments'[Len(segments) + 1].audio = "none"
  <1> DEFINE new == [lifecycle |-> "captureAuthorized", audio |-> "none", attempts |-> <<>>,
                     selected |-> 0, committedTurn |-> 0]
  <1>1. segments \in Seq(Room!CandidateSegment) /\ segments' = Append(segments, new)
    BY DEF SessionInv, Room!TypeOK, Room!BeginSegment
  <1>2. new.lifecycle = "captureAuthorized" /\ new.audio = "none"
    OBVIOUS
  <1> HIDE DEF new
  <1> QED
    BY <1>1, <1>2 DEF Room!BeginSegment

\* Handing segments over leaves their lifecycle and audio,
LEMMA HandOffKeepsSpeech ==
    ASSUME SessionInv, NEW members, NEW graces, NEW holds,
           Room!handOff(members, graces, holds)
    PROVE  SpeechKept
  <1>1. DOMAIN segments' = DOMAIN segments
        /\ \A s \in DOMAIN segments :
               segments'[s] \in {segments[s],
                                [segments[s] EXCEPT !.committedTurn = Room!NextTurn]}
    BY DEF Room!handOff
  <1>2. \A s \in DOMAIN segments : segments[s] \in Room!CandidateSegment
    BY DEF SessionInv, Room!TypeOK
  <1> QED
    BY <1>1, <1>2 DEF SpeechKept, Room!CandidateSegment

\* ... and so do evaluating,
LEMMA EvaluateKeepsSpeech ==
    ASSUME NEW t, EvaluateStep(t)
    PROVE  UNCHANGED segments
  BY DEF EvaluateStep, EvaluateSaved, EvaluateRefused, Classified, EvaluationSaved,
         EvaluationRefused, ReconcileEvaluationSaved, ReconcileEvaluationRefused,
         ActivateGraceSaved, ActivateGraceRefused, Refused, NoRoomStep, room,
         Room!AuthorizeEndpointEvaluation, Room!RecordEndpointProposal,
         Room!RecordEndpointFailure, Room!ActivateEndpointGrace

\* ... a grace that runs out,
LEMMA GraceKeepsSpeech ==
    ASSUME SessionInv, GraceStep
    PROVE  SpeechKept
  <1>1. CASE CompleteSaved
    BY <1>1, HandOffKeepsSpeech
    DEF CompleteSaved, Room!CompleteEndpointGrace, Room!handOffSegments
  <1>2. CASE ~CompleteSaved
    BY <1>2 DEF GraceStep, GraceRunsOut, CompleteRefused, ReconcileGraceSaved,
                ReconcileGraceRefused, Refused, NoRoomStep, room, Room!CancelEndpointGrace,
                SpeechKept
  <1> QED
    BY <1>1, <1>2

\* ... and the room's commands other than Exclude.
LEMMA ReturnKeepsSpeech ==
    ASSUME SessionInv, RoomReturn
    PROVE  SpeechKept \/ ExcludeSaved
  <1>1. ASSUME NEW t, HandOffRefused \/ FloorRefused(t) \/ CommandRefused(t) \/ FloorSaved(t)
        PROVE  SpeechKept
    BY <1>1 DEF HandOffRefused, FloorRefused, CommandRefused, FloorSaved, Refused, NoRoomStep,
                room, Room!GiveCandidateFloor, SpeechKept
  <1>2. CASE ModeSaved \/ HoldSaved \/ KeepFloorSaved \/ FinishSaved
    BY <1>2 DEF ModeSaved, HoldSaved, KeepFloorSaved, FinishSaved, Room!SetTurnMode,
                Room!ActivateFloorHold, Room!CancelEndpointGrace, Room!Finish, SpeechKept
  <1>3. CASE DeskSaved
    BY <1>3 DEF DeskSaved, NoRoomStep, room, Room!UpdateCandidateNotes, Room!UpdateBoardDraft,
                SpeechKept
  <1>4. CASE HandOffSaved
    <2>1. Room!SendAnswer \/ Room!HandOffSegments => SpeechKept
      BY HandOffKeepsSpeech DEF Room!SendAnswer, Room!HandOffSegments, Room!handOffSegments
    <2> QED
      BY <1>4, <2>1 DEF HandOffSaved, Room!RetryInterviewerResponse, SpeechKept
  <1>5. ASSUME NEW t, Replied(t) \/ ReplyFails(t)
        PROVE  SpeechKept
    BY <1>5 DEF Replied, ReplyFails, Room!InterviewerResponds, Room!InterviewerFails,
                Room!manifest, SpeechKept
  <1> QED
    BY <1>1, <1>2, <1>3, <1>4, <1>5 DEF RoomReturn

-----------------------------------------------------------------------------
(* The recorder *)

\* The stages at which a task sees to a capture.
CaptureStages ==
    {"capturing", "started", "captureFailed", "preserve", "preserveRecord", "recordCapture"}

Recorder == [segment : Nat, state : {"off", "starting", "on", "dead"}]

\* The recorder captures for an active segment of this launch; the task that
\* waits for it to start is the only one, and a task that reports what became of
\* a capture has let the recorder go.
RecorderInv ==
    /\ recorder \in Recorder
    /\ recorder.segment = 0 <=> recorder.state = "off"
    /\ recorder.segment # 0 => Launched /\ recorder.segment \in Room!ActiveSegments
    /\ \A t \in Task :
           /\ tasks[t].stage = "capturing" =>
                  recorder.segment = tasks[t].of /\ recorder.state = "starting"
           /\ tasks[t].stage \in {"captureFailed", "preserveRecord", "recordCapture"} =>
                  recorder.segment # tasks[t].of
    /\ \A t, u \in Task : tasks[t].stage = "capturing" /\ tasks[u].stage = "capturing" => t = u
    /\ recorder.state = "starting" => \E t \in Task : tasks[t].stage = "capturing"

\* What is on disk is of a segment, none was given up with speech on disk, and
\* nothing is on disk yet of a capture that starts or failed to.
SourceInv ==
    /\ sourceAudio \subseteq DOMAIN segments
    /\ RecordedSpeechIsKept
    /\ \A t \in Task : tasks[t].stage \in {"capturing", "captureFailed"} =>
                           tasks[t].of \notin sourceAudio

\* As long as the recorder does as it is told, a microphone that is on records in
\* the manifest or is about to, or about to be stopped.
OwnedInv ==
    "captureFault" \notin Offered =>
        /\ recorder.state # "dead"
        /\ recorder.state = "on" =>
               \/ segments[recorder.segment].lifecycle = "recording"
               \/ \E t \in Task : /\ tasks[t].of = recorder.segment
                                  /\ tasks[t].stage \in {"started", "preserve"}

CaptureInv == RecorderInv /\ SourceInv /\ OwnedInv

\* What a step that has nothing to do with a capture leaves as it was: what is
\* captured and what it is for, and the tasks that see to it.
SpeechSettles ==
    /\ DOMAIN segments' = DOMAIN segments
    /\ \A s \in DOMAIN segments :
           /\ segments'[s].audio = segments[s].audio
           /\ \/ segments'[s].lifecycle = segments[s].lifecycle
              \/ /\ ~Room!isActiveSegment(segments[s])
                 /\ ~Room!isActiveSegment(segments'[s]) /\ segments'[s].lifecycle # "failed"
\* ... and a step that has nothing to do with one.
CaptureRests ==
    /\ UNCHANGED <<recorder, sourceAudio>>
    /\ SpeechSettles
    /\ \A t \in Task : \/ tasks'[t] = tasks[t]
                       \/ /\ tasks[t].stage \notin CaptureStages
                          /\ tasks'[t].stage \notin CaptureStages

\* Such a step keeps what is known of the recorder and the files.
LEMMA RestsKeepCapture ==
    ASSUME CaptureInv, CaptureRests, Launched => Launched'
    PROVE  CaptureInv'
  <1>1. RecorderInv'
    <2>1. recorder.segment # 0 => recorder.segment \in Room!ActiveSegments'
      BY DEF CaptureInv, RecorderInv, CaptureRests, SpeechSettles, Room!ActiveSegments,
             Room!isActiveSegment
    <2> QED
      BY <2>1 DEF CaptureInv, RecorderInv, CaptureRests, CaptureStages
  <1>2. SourceInv'
    BY DEF CaptureInv, SourceInv, RecordedSpeechIsKept, CaptureRests, SpeechSettles,
           CaptureStages
  <1>3. OwnedInv'
    <2>1. recorder.state = "on" => recorder.segment \in Room!ActiveSegments
      BY DEF CaptureInv, RecorderInv
    <2> QED
      BY <2>1 DEF CaptureInv, OwnedInv, CaptureRests, SpeechSettles, CaptureStages,
                  Room!ActiveSegments, Room!isActiveSegment
  <1> QED
    BY <1>1, <1>2, <1>3 DEF CaptureInv

\* A step that keeps every lifecycle and audio is one,
LEMMA KeptSettles == SpeechKept => SpeechSettles
  BY DEF SpeechKept, SpeechSettles

\* ... and one that moves a segment no longer captured along its transcription,
LEMMA BecomesSettles ==
    ASSUME NEW s \in DOMAIN segments, NEW life, Becomes(s, life, segments[s].audio),
           ~Room!isActiveSegment(segments[s]),
           life \in {"transcribing", "transcribed", "audioReady", "excluded"}
    PROVE  SpeechSettles
  BY DEF SpeechSettles, Becomes, Room!isActiveSegment

\* ... and one that leaves the session alone.
LEMMA StillSettles == NoRoomStep => SpeechSettles
  BY DEF NoRoomStep, room, SpeechSettles

\* Task t went on, with nothing to do with a capture before or after.
LEMMA OneRests ==
    ASSUME NEW t \in Task, Goes(t), SpeechSettles, UNCHANGED <<recorder, sourceAudio>>,
           tasks[t].stage \notin CaptureStages, tasks'[t].stage \notin CaptureStages
    PROVE  CaptureRests
  BY DEF Goes, CaptureRests

\* Evaluating has nothing to do with a capture;
LEMMA EvaluateRests ==
    ASSUME NamesInv, NEW t \in Task, EvaluateStep(t)
    PROVE  CaptureRests
  <1>1. SpeechSettles
    BY EvaluateKeepsSpeech DEF SpeechSettles
  <1>2. UNCHANGED <<recorder, sourceAudio>>
    BY DEF EvaluateStep, EvaluateSaved, EvaluateRefused, Classified, EvaluationSaved,
           EvaluationRefused, ReconcileEvaluationSaved, ReconcileEvaluationRefused,
           ActivateGraceSaved, ActivateGraceRefused, Frame
  <1> QED
    BY <1>1, <1>2, EvaluateGoes, OneRests DEF CaptureStages, EvaluateStages

\* ... nor has a grace that runs out,
LEMMA GraceRests ==
    ASSUME SessionInv, NamesInv, GraceStep
    PROVE  CaptureRests
  <1>0. "timer" \in Task
    BY DEF Task
  <1>1. SpeechSettles
    BY GraceKeepsSpeech, KeptSettles
  <1>2. UNCHANGED <<recorder, sourceAudio>>
    BY DEF GraceStep, GraceRunsOut, CompleteSaved, CompleteRefused, ReconcileGraceSaved,
           ReconcileGraceRefused, Frame
  <1>3. CASE UNCHANGED tasks
    BY <1>1, <1>2, <1>3 DEF CaptureRests
  <1> QED
    BY <1>0, <1>1, <1>2, <1>3, GraceGoes, OneRests, IdleStage DEF CaptureStages, TimerStages

\* ... nor have the room's commands: only a segment that is not in flight is excluded;
LEMMA ReturnRests ==
    ASSUME SessionInv, NamesInv, RoomReturn
    PROVE  CaptureRests
  <1>1. SpeechSettles
    <2>1. CASE ExcludeSaved
      <3>1. tasks["user"].of \in DOMAIN segments /\ Room!ExcludeSegment(tasks["user"].of)
        BY <2>1 DEF ExcludeSaved, Room!ExcludeSegment, Room!Uncommitted
      <3>2. ~Room!isActiveSegment(segments[tasks["user"].of])
        BY <3>1 DEF Room!ExcludeSegment, Room!isInFlightCapture
      <3> QED
        BY <3>1, <3>2, CaptureBecomes, BecomesSettles
    <2> QED
      BY <2>1, ReturnKeepsSpeech, KeptSettles
  <1>2. UNCHANGED <<recorder, sourceAudio>>
    BY DEF RoomReturn, HandOffSaved, HandOffRefused, Replied, ReplyFails, FloorSaved,
           FloorRefused, ModeSaved, HoldSaved, KeepFloorSaved, ExcludeSaved, FinishSaved,
           DeskSaved, CommandRefused, Frame
  <1> QED
    BY <1>1, <1>2, ReturnGoes, OneRests DEF CaptureStages, ReturnStages

\* ... nor the start of an operation,
LEMMA StartRests ==
    ASSUME NamesInv, RoomStart
    PROVE  CaptureRests
  <1>1. SpeechSettles
    BY StartsKeepRoom, StillSettles
  <1>2. UNCHANGED <<recorder, sourceAudio>>
    BY DEF RoomStart, Pause, Frame
  <1>3. CASE UNCHANGED tasks
    BY <1>1, <1>2, <1>3 DEF CaptureRests
  <1> QED
    BY <1>1, <1>2, <1>3, StartGoes, OneRests DEF CaptureStages, StartStages, ReturnStages

\* ... nor an event, unless the recorder ends by itself,
LEMMA AudioRests ==
    ASSUME NamesInv, AudioStep, ~RecorderStops
    PROVE  CaptureRests
  <1>1. SpeechSettles
    BY StartsKeepRoom, StillSettles
  <1>2. UNCHANGED <<recorder, sourceAudio>>
    BY DEF AudioStep, SpeechStarts, SpeechEnds, PlaybackStarts, PlaybackFinishes,
           PlaybackStopped, Frame
  <1>3. CASE UNCHANGED tasks
    BY <1>1, <1>2, <1>3 DEF CaptureRests
  <1> QED
    BY <1>1, <1>2, <1>3, AudioGoes, OneRests DEF CaptureStages, StartStages, ReturnStages

\* ... nor transcribing, once the recorder was stopped.
LEMMA TranscribeRests ==
    ASSUME SessionInv, NamesInv, NEW t \in Task,
           \/ FinalizeRefused(t) \/ AuthorizeSaved(t) \/ AuthorizeRefused(t)
           \/ Transcribed(t) \/ TranscriptSaved(t) \/ TranscriptRefused(t)
    PROVE  CaptureRests
  <1>0. /\ Goes(t)
        /\ tasks[t].stage \in {"finalize", "authorize", "transcribing", "recordTranscript"}
    BY TranscribeGoes DEF TranscribeStep, FinalizeRefused, AuthorizeSaved, AuthorizeRefused,
                          Transcribed, TranscriptSaved, TranscriptRefused, Refused, Admitted, At
  <1>1. tasks[t].of \in DOMAIN segments
    BY <1>0 DEF NamesInv, WellNamed, Names, SegmentStages
  <1>2. SpeechSettles
    <2>1. CASE AuthorizeSaved(t)
      BY <1>1, <2>1, TranscriptBecomes, BecomesSettles
      DEF AuthorizeSaved, Room!isActiveSegment
    <2>2. CASE TranscriptSaved(t)
      <3>1. /\ segments[tasks[t].of].lifecycle = "transcribing"
            /\ \E life \in {"audioReady", "transcribed"} :
                   Becomes(tasks[t].of, life, segments[tasks[t].of].audio)
        BY <1>1, <2>2, TranscriptBecomes DEF TranscriptSaved
      <3> QED
        BY <1>1, <3>1, BecomesSettles DEF Room!isActiveSegment
    <2>3. CASE ~AuthorizeSaved(t) /\ ~TranscriptSaved(t)
      BY <2>3, StillSettles
      DEF FinalizeRefused, AuthorizeRefused, Transcribed, TranscriptRefused, Refused
    <2> QED
      BY <2>1, <2>2, <2>3
  <1>3. UNCHANGED <<recorder, sourceAudio>>
    BY DEF FinalizeRefused, AuthorizeSaved, AuthorizeRefused, Transcribed, TranscriptSaved,
           TranscriptRefused, Frame
  <1>4. tasks'[t].stage \notin CaptureStages
    <2> USE DEF CaptureStages
    <2>1. CASE FinalizeRefused(t) \/ AuthorizeRefused(t) \/ TranscriptRefused(t)
      BY <2>1, IdleGoes, IdleStage
      DEF FinalizeRefused, AuthorizeRefused, TranscriptRefused, Ends
    <2>2. CASE AuthorizeSaved(t) /\ await(t, tasks[t].op, "transcribing", tasks[t].of)
      BY <2>2, AwaitGoes DEF Waits
    <2>3. CASE \E result : issue(t, tasks[t].op, "recordTranscript", tasks[t].of, result)
      BY <2>3, IssueGoes DEF ResumeStages, TimerStages
    <2>4. CASE TranscriptSaved(t)
      <3>1. \/ issue(t, tasks[t].op, "evaluate", tasks[t].of, "none")
            \/ Returns(t, coordinator) \/ tasks' = [tasks EXCEPT ![t] = idle]
        BY <2>4 DEF TranscriptSaved, issues, Ends
      <3> QED
        BY <3>1, ReturnsGoes, IssueGoes, IdleGoes, IdleStage DEF ResumeStages, TimerStages
    <2> QED
      BY <2>1, <2>2, <2>3, <2>4 DEF AuthorizeSaved, Transcribed, issues
  <1> QED
    BY <1>0, <1>2, <1>3, <1>4, OneRests DEF CaptureStages

\* A task that reports what became of a capture, or gives the report up, has let
\* the recorder go, and nothing on disk is reported as lost.
LEMMA ReportKeepsCapture ==
    ASSUME CaptureInv, Launched', NEW t \in Task, Goes(t),
           tasks[t].stage \in {"captureFailed", "preserveRecord", "recordCapture"},
           tasks'[t].stage \notin CaptureStages, UNCHANGED <<recorder, sourceAudio>>,
           \/ UNCHANGED segments
           \/ \E life, audio : /\ Becomes(tasks[t].of, life, audio)
                               /\ life = "failed" => \/ audio # "none"
                                                     \/ tasks[t].of \notin sourceAudio
    PROVE  CaptureInv'
  <1>1. recorder.segment # tasks[t].of
    BY DEF CaptureInv, RecorderInv
  <1>2. /\ DOMAIN segments' = DOMAIN segments
        /\ \A s \in DOMAIN segments \ {tasks[t].of} : segments'[s] = segments[s]
        /\ tasks[t].of \in sourceAudio /\ segments'[tasks[t].of].lifecycle = "failed" =>
               segments'[tasks[t].of].audio # "none"
    BY DEF CaptureInv, SourceInv, RecordedSpeechIsKept, Becomes
  <1>3. RecorderInv'
    <2>1. recorder.segment # 0 => recorder.segment \in Room!ActiveSegments'
      BY <1>1, <1>2 DEF CaptureInv, RecorderInv, Room!ActiveSegments, Room!isActiveSegment
    <2> QED
      BY <2>1 DEF CaptureInv, RecorderInv, CaptureStages, Goes
  <1>4. SourceInv'
    BY <1>2 DEF CaptureInv, SourceInv, RecordedSpeechIsKept, Goes, CaptureStages
  <1>5. OwnedInv'
    <2>1. recorder.state = "on" => recorder.segment \in DOMAIN segments
      BY DEF CaptureInv, RecorderInv, Room!ActiveSegments
    <2> QED
      BY <1>1, <1>2, <2>1 DEF CaptureInv, OwnedInv, Goes, CaptureStages
  <1> QED
    BY <1>3, <1>4, <1>5 DEF CaptureInv

\* The reports are those of a failed start, of a preserved capture and of a finalized one.
LEMMA ReportsKeepCapture ==
    ASSUME SessionInv, NamesInv, CaptureInv, Launched', NEW t \in Task,
           \/ CaptureFailedSaved(t) \/ CaptureFailedRefused(t)
           \/ PreserveRecordSaved(t) \/ PreserveRecordRefused(t)
           \/ RecordCaptureSaved(t) \/ RecordCaptureRefused(t)
    PROVE  CaptureInv'
  <1>0. /\ tasks[t].stage \in {"captureFailed", "preserveRecord", "recordCapture"}
        /\ UNCHANGED <<recorder, sourceAudio>>
    BY DEF CaptureFailedSaved, CaptureFailedRefused, PreserveRecordSaved, PreserveRecordRefused,
           RecordCaptureSaved, RecordCaptureRefused, Refused, Admitted, At, Frame
  <1>1. tasks[t].of \in DOMAIN segments
    BY <1>0 DEF NamesInv, WellNamed, Names, SegmentStages
  <1>2. CASE CaptureFailedSaved(t)
    <2>1. /\ tasks[t].of \notin sourceAudio
          /\ Becomes(tasks[t].of, "failed", segments[tasks[t].of].audio)
      BY <1>1, <1>2, CaptureBecomes DEF CaptureFailedSaved, Admitted, At, CaptureInv, SourceInv
    <2>2. Goes(t) /\ tasks'[t].stage = "idle"
      BY <1>2, IdleGoes, IdleStage DEF CaptureFailedSaved, Ends
    <2> QED
      BY <1>0, <2>1, <2>2, ReportKeepsCapture DEF CaptureStages
  <1>3. CASE PreserveRecordSaved(t) \/ RecordCaptureSaved(t)
    <2>1. PICK audio \in {"clear", "unplayable"} :
              Room!RecordCaptureFinalized(tasks[t].of, audio)
      BY <1>3 DEF PreserveRecordSaved, RecordCaptureSaved
    <2>2. \E life : Becomes(tasks[t].of, life, audio) /\ audio # "none"
      BY <1>1, <2>1, CaptureBecomes
    <2>3. Goes(t) /\ tasks'[t].stage \in {"idle", "send", "authorize"}
      <3>1. \/ Returns(t, coordinator) \/ tasks' = [tasks EXCEPT ![t] = idle]
            \/ \E r : issue(t, tasks[t].op, "authorize", r, "none")
        BY <1>3 DEF PreserveRecordSaved, RecordCaptureSaved, TranscribesNext, Ends, issues
      <3> QED
        BY <3>1, ReturnsGoes, IdleGoes, IdleStage, IssueGoes DEF ResumeStages, TimerStages
    <2> QED
      BY <1>0, <2>2, <2>3, ReportKeepsCapture DEF CaptureStages
  <1>4. CASE \/ CaptureFailedRefused(t) \/ PreserveRecordRefused(t)
             \/ RecordCaptureRefused(t)
    <2>1. Goes(t) /\ tasks'[t].stage = "idle"
      BY <1>4, IdleGoes, IdleStage
      DEF CaptureFailedRefused, PreserveRecordRefused, RecordCaptureRefused, Ends
    <2>2. UNCHANGED segments
      BY <1>4 DEF CaptureFailedRefused, PreserveRecordRefused, RecordCaptureRefused, Refused,
                  NoRoomStep, room
    <2> QED
      BY <1>0, <2>1, <2>2, ReportKeepsCapture DEF CaptureStages
  <1> QED
    BY <1>2, <1>3, <1>4

\* A capture that begins is of a segment nothing has been recorded for, and no
\* other is under way.
LEMMA BeginKeepsCapture ==
    ASSUME SessionInv, NamesInv, CaptureInv, Launched', NEW t \in Task, BeginSaved(t)
    PROVE  CaptureInv'
  <1> DEFINE s == Len(segments) + 1
  <1>1. /\ Goes(t) /\ tasks'[t].stage = "capturing" /\ tasks'[t].of = s
        /\ tasks[t].stage = "begin"
    BY AwaitGoes DEF BeginSaved, Waits, Admitted, At
  <1>2. recorder' = [segment |-> s, state |-> "starting"] /\ UNCHANGED sourceAudio
    BY DEF BeginSaved
  <1>3. /\ Room!ActiveSegments = {} /\ s \notin DOMAIN segments /\ s # 0
        /\ DOMAIN segments' = DOMAIN segments \cup {s}
        /\ \A r \in DOMAIN segments : segments'[r] = segments[r]
        /\ segments'[s].lifecycle = "captureAuthorized" /\ segments'[s].audio = "none"
    BY BeginsFresh DEF BeginSaved
  <1>4. s \in Nat
    BY DEF SessionInv, Room!TypeOK
  <1> HIDE DEF s
  <1>5. RecorderInv'
    <2>1. s \in Room!ActiveSegments'
      BY <1>3 DEF Room!ActiveSegments, Room!isActiveSegment
    <2>2. recorder.segment = 0
      BY <1>3 DEF CaptureInv, RecorderInv
    <2>3. \A u \in Task : tasks[u].stage # "capturing"
      BY <2>2 DEF CaptureInv, RecorderInv
    <2>4. \A u \in Task : tasks[u].stage \in {"captureFailed", "preserveRecord",
                                             "recordCapture"} => tasks[u].of # s
      BY <1>3 DEF NamesInv, WellNamed, Names, SegmentStages
    <2>5. /\ recorder' \in Recorder
          /\ recorder'.segment = s /\ recorder'.state = "starting"
      BY <1>2, <1>4 DEF Recorder
    <2> QED
      BY <1>1, <1>3, <2>1, <2>3, <2>4, <2>5 DEF RecorderInv, Goes
  <1>6. SourceInv'
    BY <1>1, <1>2, <1>3 DEF CaptureInv, SourceInv, RecordedSpeechIsKept, Goes
  <1>7. OwnedInv'
    BY <1>2 DEF OwnedInv
  <1> QED
    BY <1>5, <1>6, <1>7 DEF CaptureInv

\* The driver started: the one task that waited for it says so.
LEMMA StartKeepsCapture ==
    ASSUME NamesInv, CaptureInv, Launched', NEW t \in Task, CaptureStarts(t)
    PROVE  CaptureInv'
  <1> DEFINE s == tasks[t].of
  <1>1. /\ Goes(t) /\ tasks'[t].stage = "started" /\ tasks'[t].of = s
        /\ tasks[t].stage = "capturing"
    BY IssueGoes DEF CaptureStarts, issues, ResumeStages, TimerStages, At
  <1>2. /\ recorder' = [recorder EXCEPT !.state = "on"]
        /\ sourceAudio' = sourceAudio \cup {s} /\ UNCHANGED segments
    BY DEF CaptureStarts, NoRoomStep, room
  <1>3. /\ recorder.segment = s /\ recorder.state = "starting"
        /\ s # 0 /\ s \in Room!ActiveSegments
        /\ \A u \in Task \ {t} : tasks[u].stage # "capturing"
        /\ recorder \in Recorder
    BY <1>1 DEF CaptureInv, RecorderInv
  <1>4. /\ recorder' \in Recorder
        /\ recorder'.segment = s /\ recorder'.state = "on"
    BY <1>2, <1>3 DEF Recorder
  <1> HIDE DEF s
  <1>5. RecorderInv'
    <2>1. Room!ActiveSegments' = Room!ActiveSegments
      BY <1>2 DEF Room!ActiveSegments
    <2>2. \A u \in Task \ {t} :
              /\ tasks'[u].stage # "capturing"
              /\ tasks'[u].stage \in {"captureFailed", "preserveRecord", "recordCapture"} =>
                     tasks'[u].of # s
      BY <1>1, <1>3 DEF CaptureInv, RecorderInv, Goes
    <2>3. \A u \in Task :
              /\ tasks'[u].stage # "capturing"
              /\ tasks'[u].stage \in {"captureFailed", "preserveRecord", "recordCapture"} =>
                     tasks'[u].of # s
      BY <1>1, <2>2
    <2> QED
      BY <1>3, <1>4, <2>1, <2>3 DEF RecorderInv
  <1>6. SourceInv'
    <2>1. s \in DOMAIN segments /\ segments[s].lifecycle # "failed"
      BY <1>3 DEF Room!ActiveSegments, Room!isActiveSegment
    <2>2. \A u \in Task \ {t} : tasks[u].stage = "captureFailed" => tasks[u].of # s
      BY <1>3 DEF CaptureInv, RecorderInv
    <2> QED
      BY <1>1, <1>2, <1>3, <2>1, <2>2
      DEF CaptureInv, SourceInv, RecordedSpeechIsKept, Goes
  <1>7. OwnedInv'
    BY <1>1, <1>4 DEF OwnedInv
  <1> QED
    BY <1>5, <1>6, <1>7 DEF CaptureInv

\* finishCapture leaves the recorder as it was, or off; off when it succeeds, and
\* always when nothing fails and something was on.
LEMMA FinishingLeaves ==
    ASSUME CaptureInv, NEW finish \in Finishing
    PROVE  /\ \/ finish.left = recorder
              \/ /\ finish.left = [segment |-> 0, state |-> "off"]
                 /\ recorder.state \notin {"off", "starting"}
           /\ finish.ok => finish.left.segment = 0
           /\ "captureFault" \notin Offered /\ recorder.state = "on" =>
                  finish.left.state = "off"
  BY DEF Finishing

\* Whoever stops the recorder then says so, or not.
LEMMA StopKeepsCapture ==
    ASSUME SessionInv, NamesInv, CaptureInv, Launched', NEW t \in Task, Goes(t),
           tasks[t].of \in DOMAIN segments, tasks[t].stage \in {"finalize", "preserve"},
           NEW finish \in Finishing, recorder' = finish.left, UNCHANGED sourceAudio,
           UNCHANGED segments
               \/ Becomes(tasks[t].of, "finalizationAuthorized", segments[tasks[t].of].audio),
           \/ tasks'[t].stage \notin CaptureStages
           \/ /\ tasks'[t].stage \in {"preserveRecord", "recordCapture"}
              /\ tasks'[t].of # recorder'.segment
    PROVE  CaptureInv'
  <1>1. /\ DOMAIN segments' = DOMAIN segments
        /\ \A s \in DOMAIN segments \ {tasks[t].of} : segments'[s] = segments[s]
        /\ \/ segments'[tasks[t].of] = segments[tasks[t].of]
           \/ segments'[tasks[t].of].lifecycle = "finalizationAuthorized"
    BY DEF Becomes
  <1>2. \/ recorder' = recorder /\ ("captureFault" \notin Offered => recorder.state # "on")
        \/ /\ recorder' = [segment |-> 0, state |-> "off"]
           /\ recorder.state \notin {"off", "starting"}
    BY FinishingLeaves
  <1>3. recorder.segment \in Room!ActiveSegments => recorder.segment \in Room!ActiveSegments'
    BY <1>1 DEF Room!ActiveSegments, Room!isActiveSegment
  <1>4. SourceInv'
    BY <1>1 DEF CaptureInv, SourceInv, RecordedSpeechIsKept, Goes, CaptureStages
  <1>5. CASE recorder' = recorder /\ ("captureFault" \notin Offered => recorder.state # "on")
    <2>1. RecorderInv'
      BY <1>3, <1>5 DEF CaptureInv, RecorderInv, Goes, CaptureStages
    <2>2. OwnedInv'
      BY <1>5 DEF CaptureInv, OwnedInv
    <2> QED
      BY <1>4, <2>1, <2>2 DEF CaptureInv
  <1>6. CASE /\ recorder' = [segment |-> 0, state |-> "off"]
             /\ recorder.state \notin {"off", "starting"}
    <2>1. recorder' \in Recorder /\ recorder'.segment = 0 /\ recorder'.state = "off"
      BY <1>6 DEF Recorder
    <2>2. \A u \in Task : tasks[u].stage # "capturing" /\ tasks'[u].stage # "capturing"
      BY <1>6 DEF CaptureInv, RecorderInv, Goes, CaptureStages
    <2>3. \A u \in Task :
              tasks'[u].stage \in {"captureFailed", "preserveRecord", "recordCapture"} =>
                  tasks'[u].of # 0
      <3>1. 0 \notin DOMAIN segments
        BY DEF SessionInv, Room!TypeOK
      <3>2. \A u \in Task :
              tasks[u].stage \in {"captureFailed", "preserveRecord", "recordCapture"} =>
                  tasks[u].of \in DOMAIN segments
        BY DEF NamesInv, WellNamed, Names, SegmentStages
      <3> QED
        BY <2>1, <3>1, <3>2 DEF Goes, CaptureStages
    <2>4. RecorderInv' /\ OwnedInv'
      BY <2>1, <2>2, <2>3 DEF RecorderInv, OwnedInv
    <2> QED
      BY <1>4, <2>4 DEF CaptureInv
  <1> QED
    BY <1>2, <1>5, <1>6

\* The recorder is stopped by Finalize, and by the preservation of a capture that started.
LEMMA StopsKeepCapture ==
    ASSUME SessionInv, NamesInv, CaptureInv, Launched', NEW t \in Task,
           PreserveSaved(t) \/ PreserveRefused(t) \/ FinalizeSaved(t)
    PROVE  CaptureInv'
  <1>0. tasks[t].stage \in {"finalize", "preserve"} /\ UNCHANGED sourceAudio
    BY DEF PreserveSaved, PreserveRefused, FinalizeSaved, Refused, Admitted, At
  <1>1. tasks[t].of \in DOMAIN segments /\ 0 \notin DOMAIN segments
    BY <1>0 DEF NamesInv, WellNamed, Names, SegmentStages, SessionInv, Room!TypeOK
  <1>2. \/ UNCHANGED segments
        \/ Becomes(tasks[t].of, "finalizationAuthorized", segments[tasks[t].of].audio)
    BY <1>1, CaptureBecomes DEF PreserveSaved, PreserveRefused, FinalizeSaved, Refused,
                                NoRoomStep, room
  <1>3. PICK finish \in Finishing :
            /\ recorder' = finish.left
            /\ \/ tasks' = [tasks EXCEPT ![t] = idle]
               \/ /\ finish.ok \/ finish.left.segment = 0
                  /\ \E command \in {"preserveRecord", "recordCapture"} : \E result :
                         issue(t, tasks[t].op, command, tasks[t].of, result)
    <2>1. CASE PreserveSaved(t)
      BY <2>1 DEF PreserveSaved, issues, Ends
    <2>2. CASE FinalizeSaved(t)
      BY <2>2 DEF FinalizeSaved, issues, Ends
    <2>3. CASE PreserveRefused(t)
      BY <2>3 DEF PreserveRefused, Ends
    <2> QED
      BY <2>1, <2>2, <2>3
  <1>4. CASE tasks' = [tasks EXCEPT ![t] = idle]
    <2>1. Goes(t) /\ tasks'[t].stage \notin CaptureStages
      BY <1>4, IdleGoes, IdleStage DEF CaptureStages
    <2> QED
      BY <1>0, <1>1, <1>2, <1>3, <2>1, StopKeepsCapture
  <1>5. ASSUME NEW command \in {"preserveRecord", "recordCapture"}, NEW result,
               finish.ok \/ finish.left.segment = 0,
               issue(t, tasks[t].op, command, tasks[t].of, result)
        PROVE  CaptureInv'
    <2>1. Goes(t) /\ tasks'[t].stage = command /\ tasks'[t].of = tasks[t].of
      BY <1>5, IssueGoes DEF ResumeStages, TimerStages
    <2>2. recorder'.segment = 0
      BY <1>3, <1>5, FinishingLeaves
    <2> QED
      BY <1>0, <1>1, <1>2, <1>3, <2>1, <2>2, StopKeepsCapture
  <1> QED
    BY <1>3, <1>4, <1>5

\* The recorder refused to start: the one task that waited for it reports so.
LEMMA StartFailureKeepsCapture ==
    ASSUME SessionInv, NamesInv, CaptureInv, Launched', NEW t \in Task, CaptureStartFails(t)
    PROVE  CaptureInv'
  <1>1. /\ Goes(t) /\ tasks'[t].stage = "captureFailed" /\ tasks'[t].of = tasks[t].of
        /\ tasks[t].stage = "capturing"
    BY IssueGoes DEF CaptureStartFails, issues, ResumeStages, TimerStages, At
  <1>2. /\ recorder' \in Recorder /\ recorder'.segment = 0 /\ recorder'.state = "off"
        /\ UNCHANGED <<segments, sourceAudio>>
    BY DEF CaptureStartFails, NoRoomStep, room, Recorder
  <1>3. \A u \in Task \ {t} : tasks[u].stage # "capturing"
    BY <1>1 DEF CaptureInv, RecorderInv
  <1>4. \A u \in Task : tasks[u].stage \in {"capturing", "captureFailed", "preserveRecord",
                                           "recordCapture"} => tasks[u].of # 0
    <2>1. 0 \notin DOMAIN segments
      BY DEF SessionInv, Room!TypeOK
    <2> QED
      BY <2>1 DEF NamesInv, WellNamed, Names, SegmentStages
  <1>5. RecorderInv' /\ OwnedInv'
    BY <1>1, <1>2, <1>3, <1>4 DEF RecorderInv, OwnedInv, Goes
  <1>6. SourceInv'
    BY <1>1, <1>2 DEF CaptureInv, SourceInv, RecordedSpeechIsKept, Goes
  <1> QED
    BY <1>5, <1>6 DEF CaptureInv

\* The recording is recorded as started, or the microphone is about to be stopped.
LEMMA StartedKeepsCapture ==
    ASSUME SessionInv, NamesInv, CaptureInv, Launched', NEW t \in Task,
           StartedSaved(t) \/ StartedRefused(t)
    PROVE  CaptureInv'
  <1>0. tasks[t].stage = "started" /\ UNCHANGED <<recorder, sourceAudio>>
    BY DEF StartedSaved, StartedRefused, Refused, Admitted, At, Frame
  <1>1. tasks[t].of \in DOMAIN segments
    BY <1>0 DEF NamesInv, WellNamed, Names, SegmentStages
  <1>2. CASE StartedSaved(t)
    <2>1. Goes(t) /\ tasks'[t].stage = "idle"
      BY <1>2, IdleGoes, IdleStage DEF StartedSaved, Ends
    <2>2. /\ Becomes(tasks[t].of, "recording", segments[tasks[t].of].audio)
          /\ segments[tasks[t].of].lifecycle = "captureAuthorized"
      BY <1>1, <1>2, CaptureBecomes DEF StartedSaved, Room!RecordRecordingStarted
    <2>3. /\ DOMAIN segments' = DOMAIN segments
          /\ \A s \in DOMAIN segments \ {tasks[t].of} : segments'[s] = segments[s]
          /\ segments'[tasks[t].of].lifecycle = "recording"
      BY <2>2 DEF Becomes
    <2>4. recorder.segment \in Room!ActiveSegments =>
              recorder.segment \in Room!ActiveSegments'
      BY <2>3 DEF Room!ActiveSegments, Room!isActiveSegment
    <2>5. RecorderInv'
      BY <1>0, <2>1, <2>4 DEF CaptureInv, RecorderInv, Goes
    <2>6. SourceInv'
      BY <1>0, <2>1, <2>3 DEF CaptureInv, SourceInv, RecordedSpeechIsKept, Goes
    <2>7. OwnedInv'
      <3>1. recorder.state = "on" => recorder.segment \in DOMAIN segments
        BY DEF CaptureInv, RecorderInv, Room!ActiveSegments
      <3> QED
        BY <1>0, <2>1, <2>3, <3>1 DEF CaptureInv, OwnedInv, Goes
    <2> QED
      BY <2>5, <2>6, <2>7 DEF CaptureInv
  <1>3. CASE StartedRefused(t)
    <2>1. Goes(t) /\ tasks'[t].stage = "preserve" /\ tasks'[t].of = tasks[t].of
      BY <1>3, IssueGoes DEF StartedRefused, issues, ResumeStages, TimerStages
    <2>2. UNCHANGED segments
      BY <1>3 DEF StartedRefused, Refused, NoRoomStep, room
    <2>3. Room!ActiveSegments' = Room!ActiveSegments
      BY <2>2 DEF Room!ActiveSegments
    <2>4. RecorderInv'
      BY <1>0, <2>1, <2>3 DEF CaptureInv, RecorderInv, Goes
    <2>5. SourceInv'
      BY <1>0, <2>1, <2>2 DEF CaptureInv, SourceInv, RecordedSpeechIsKept, Goes
    <2>6. OwnedInv'
      BY <1>0, <2>1, <2>2 DEF CaptureInv, OwnedInv, Goes
    <2> QED
      BY <2>4, <2>5, <2>6 DEF CaptureInv
  <1> QED
    BY <1>2, <1>3

\* A recorder that ends by itself still has its file and its segment.
LEMMA RecorderStopsKeepsCapture ==
    ASSUME NamesInv, CaptureInv, Launched', RecorderStops
    PROVE  CaptureInv'
  <1>0. "recorder" \in Task
    BY DEF Task
  <1>1. /\ recorder.state = "on" /\ "captureFault" \in Offered
        /\ recorder' = [recorder EXCEPT !.state = "dead"]
        /\ UNCHANGED <<segments, sourceAudio>>
    BY DEF RecorderStops, NoRoomStep, room
  <1>2. \A u \in Task : tasks'[u] = tasks[u] \/ tasks'[u].stage = "finalize"
    <2>1. UNCHANGED tasks \/ \E s : issue("recorder", "recorder", "finalize", s, "none")
      BY DEF RecorderStops
    <2>2. CASE UNCHANGED tasks
      BY <2>2
    <2>3. ASSUME NEW s, issue("recorder", "recorder", "finalize", s, "none")
          PROVE  \A u \in Task : tasks'[u] = tasks[u] \/ tasks'[u].stage = "finalize"
      <3>1. Goes("recorder") /\ tasks'["recorder"].stage = "finalize"
        BY <1>0, <2>3, IssueGoes DEF ResumeStages, TimerStages
      <3> QED
        BY <3>1 DEF Goes
    <2> QED
      BY <2>1, <2>2, <2>3
  <1>3. /\ recorder' \in Recorder /\ recorder'.segment = recorder.segment
        /\ recorder'.state = "dead"
    BY <1>1 DEF CaptureInv, RecorderInv, Recorder
  <1>4. RecorderInv'
    <2>1. Room!ActiveSegments' = Room!ActiveSegments
      BY <1>1 DEF Room!ActiveSegments
    <2> QED
      BY <1>1, <1>2, <1>3, <2>1 DEF CaptureInv, RecorderInv
  <1>5. SourceInv'
    BY <1>1, <1>2 DEF CaptureInv, SourceInv, RecordedSpeechIsKept
  <1>6. OwnedInv'
    BY <1>1 DEF OwnedInv
  <1> QED
    BY <1>4, <1>5, <1>6 DEF CaptureInv

\* A crash turns the recorder off and may leave the file of what it captured;
\* what resuming reports as lost left no file.
LEMMA ProcessKeepsSource ==
    ASSUME SessionInv, NamesInv, ControlInv, CaptureInv, ProcessStep
    PROVE  /\ DOMAIN segments' = DOMAIN segments
           /\ sourceAudio' \subseteq DOMAIN segments
           /\ RecordedSpeechIsKept'
           /\ recorder'.segment = 0 /\ recorder'.state = "off" /\ recorder' \in Recorder
  <1> DEFINE of == tasks["user"].of
  <1>0. "user" \in Task
    BY DEF Task
  <1>1. CASE Crash
    <2>1. /\ UNCHANGED segments
          /\ sourceAudio' \in {sourceAudio, sourceAudio \cup ({recorder.segment} \ {0})}
          /\ recorder' = [segment |-> 0, state |-> "off"]
      BY <1>1 DEF Crash, Room!Crash, Room!manifest
    <2>2. recorder.segment # 0 => /\ recorder.segment \in DOMAIN segments
                                  /\ segments[recorder.segment].lifecycle # "failed"
      BY DEF CaptureInv, RecorderInv, Room!ActiveSegments, Room!isActiveSegment
    <2> QED
      BY <2>1, <2>2 DEF CaptureInv, SourceInv, RecordedSpeechIsKept, Recorder
  <1>2. CASE ~Crash
    <2>1. ~Launched
      BY <1>0, <1>2
      DEF ProcessStep, Relaunch, Room!Relaunch, ResumeSaved, ResumeRefused, Refused, Admitted,
          At, Launched, Running, ControlInv, ResumeStages
    <2>2. recorder.segment = 0 /\ recorder.state = "off" /\ recorder \in Recorder
      BY <2>1 DEF CaptureInv, RecorderInv
    <2>3. UNCHANGED <<recorder, sourceAudio>>
      BY <1>2 DEF ProcessStep, Relaunch, ResumeSaved, ResumeRefused, Frame
    <2>4. /\ DOMAIN segments' = DOMAIN segments
          /\ RecordedSpeechIsKept'
      <3>1. CASE UNCHANGED segments
        BY <2>3, <3>1 DEF CaptureInv, SourceInv, RecordedSpeechIsKept
      <3>2. CASE \E life, audio :
                     /\ of \in DOMAIN segments /\ Becomes(of, life, audio)
                     /\ life = "failed" => audio # "none" \/ of \notin sourceAudio
        BY <2>3, <3>2 DEF CaptureInv, SourceInv, RecordedSpeechIsKept, Becomes
      <3>3. CASE ResumeSaved
        <4>1. CASE tasks["user"].stage \in {"resumeGrace", "resumeEvaluation"}
          <5>1. UNCHANGED segments
            BY <3>3, <4>1 DEF ResumeSaved, Admitted, At, Room!CancelEndpointGrace,
                              Room!RecordEndpointFailure
          <5> QED
            BY <3>1, <5>1
        <4>2. CASE tasks["user"].stage \in {"resumeAttempt", "resumeCapture",
                                            "resumeOutcome"}
          <5>1. of \in DOMAIN segments
            BY <1>0, <4>2 DEF NamesInv, WellNamed, Names, SegmentStages
          <5>2. CASE tasks["user"].stage = "resumeAttempt"
            <6>1. \E life \in {"audioReady", "transcribed"} :
                      Becomes(of, life, segments[of].audio)
              BY <3>3, <5>1, <5>2, TranscriptBecomes DEF ResumeSaved, Admitted, At
            <6> QED
              BY <3>2, <5>1, <6>1
          <5>3. CASE tasks["user"].stage = "resumeCapture"
            <6>1. Becomes(of, "finalizationAuthorized", segments[of].audio)
              BY <3>3, <5>1, <5>3, CaptureBecomes DEF ResumeSaved, Admitted, At
            <6> QED
              BY <3>2, <5>1, <6>1
          <5>4. CASE tasks["user"].stage = "resumeOutcome" /\ of \in sourceAudio
            <6>1. Becomes(of, "audioReady", "clear")
              BY <3>3, <5>1, <5>4, CaptureBecomes DEF ResumeSaved, Admitted, At
            <6> QED
              BY <3>2, <5>1, <6>1
          <5>5. CASE tasks["user"].stage = "resumeOutcome" /\ of \notin sourceAudio
            <6>1. Becomes(of, "failed", segments[of].audio)
              BY <3>3, <5>1, <5>5, CaptureBecomes DEF ResumeSaved, Admitted, At
            <6> QED
              BY <3>2, <5>1, <5>5, <6>1
          <5> QED
            BY <4>2, <5>2, <5>3, <5>4, <5>5
        <4> QED
          BY <3>3, <4>1, <4>2 DEF ResumeSaved, Admitted, At
      <3>4. CASE Relaunch \/ ResumeRefused
        <4>1. UNCHANGED segments
          BY <3>4 DEF Relaunch, Room!Relaunch, Room!manifest, ResumeRefused, Refused,
                      NoRoomStep, room
        <4> QED
          BY <3>1, <4>1
      <3> QED
        BY <1>2, <3>3, <3>4 DEF ProcessStep
    <2> QED
      BY <2>2, <2>3, <2>4 DEF CaptureInv, SourceInv
  <1> QED
    BY <1>1, <1>2

\* A crash, a relaunch and resuming leave the recorder off and every file accounted for.
LEMMA ProcessKeepsCapture ==
    ASSUME SessionInv, NamesInv, ControlInv, CaptureInv, ProcessStep
    PROVE  CaptureInv'
  <1>1. \A t \in Task : tasks'[t].stage \notin CaptureStages
    <2>1. CASE Crash
      BY <2>1, IdleStage DEF Crash, CaptureStages
    <2>2. CASE ~Crash
      BY <2>2, ResumeGoes, IdleStage DEF CaptureStages, ResumeStages
    <2> QED
      BY <2>1, <2>2
  <1> QED
    BY <1>1, ProcessKeepsSource
    DEF CaptureInv, RecorderInv, SourceInv, OwnedInv, CaptureStages

\* The inductive invariant's part about captures is kept by every step.
LEMMA CaptureStep ==
    ASSUME SessionInv, NamesInv, ControlInv, CaptureInv, [Next]_vars
    PROVE  CaptureInv'
  <1>0. {"user", "acoustic", "recorder"} \subseteq Task
    BY DEF Task
  <1>1. CASE ProcessStep
    BY <1>1, ProcessKeepsCapture
  <1>2. CASE ~ProcessStep
    <2>1. UNCHANGED vars \/ Launched'
      BY <1>2, WorkGoes
    <2>2. CASE UNCHANGED vars
      <3>1. CaptureRests /\ Launched' = Launched
        BY <2>2 DEF vars, CaptureRests, SpeechSettles, Launched, Running
      <3> QED
        BY <3>1, RestsKeepCapture
    <2>3. CASE Launched'
      <3>1. ASSUME NEW t \in {"user", "acoustic"}, BeginStep(t)
            PROVE  CaptureInv'
        <4>1. CASE BeginRefused(t)
          <5>1. Goes(t) /\ tasks'[t].stage = "idle" /\ tasks[t].stage = "begin"
            BY <1>0, <4>1, IdleGoes, IdleStage DEF BeginRefused, Ends, Refused, At
          <5>2. SpeechSettles /\ UNCHANGED <<recorder, sourceAudio>>
            BY <4>1, StillSettles DEF BeginRefused, Refused, Frame
          <5> QED
            BY <1>0, <2>3, <5>1, <5>2, OneRests, RestsKeepCapture DEF CaptureStages
        <4> QED
          BY <1>0, <2>3, <3>1, <4>1, BeginKeepsCapture, StartKeepsCapture,
             StartFailureKeepsCapture, ReportsKeepCapture, StartedKeepsCapture,
             StopsKeepCapture
          DEF BeginStep
      <3>2. ASSUME NEW t \in {"user", "acoustic", "recorder"}, TranscribeStep(t)
            PROVE  CaptureInv'
        BY <1>0, <2>3, <3>2, TranscribeRests, RestsKeepCapture, ReportsKeepCapture,
           StopsKeepCapture
        DEF TranscribeStep
      <3>3. CASE \/ \E t \in {"user", "acoustic"} : EvaluateStep(t)
                 \/ GraceStep \/ RoomReturn \/ RoomStart \/ (AudioStep /\ ~RecorderStops)
        BY <1>0, <2>3, <3>3, EvaluateRests, GraceRests, ReturnRests, StartRests, AudioRests,
           RestsKeepCapture
      <3>4. CASE RecorderStops
        BY <2>3, <3>4, RecorderStopsKeepsCapture
      <3> QED
        BY <1>2, <2>2, <3>1, <3>2, <3>3, <3>4 DEF Next
    <2> QED
      BY <2>1, <2>2, <2>3
  <1> QED
    BY <1>1, <1>2

\* The room opens with the recorder off and nothing on disk.
LEMMA CaptureInit == Init => CaptureInv
  <1> SUFFICES ASSUME Init
               PROVE  CaptureInv
    OBVIOUS
  <1>1. /\ recorder = [segment |-> 0, state |-> "off"] /\ sourceAudio = {}
        /\ \A t \in Task : tasks[t].stage = "idle"
    BY IdleStage DEF Init
  <1> QED
    BY <1>1 DEF CaptureInv, RecorderInv, SourceInv, OwnedInv, RecordedSpeechIsKept, Recorder

-----------------------------------------------------------------------------
(* The coordinator's own fields *)

\* Whatever a handler does to the coordinator's fields they keep their types.
LEMMA ArmTypes ==
    ASSUME NEW c \in Coordinator, NEW snap
    PROVE  /\ \A mode \in {"candidateListening", "bargeInDetection"} :
                  arm(c, mode) \in Coordinator
           /\ disarm(c) \in Coordinator
           /\ armContinuousListeningIfNeeded(c, snap) \in Coordinator
           /\ cancelScheduledGrace(c) \in Coordinator
           /\ cancelScheduledGraceIfInactive(c, snap) \in Coordinator
           /\ \A wants \in BOOLEAN :
                  [c EXCEPT !.wantsContinuousListening = wants] \in Coordinator
           /\ \A active \in BOOLEAN : [c EXCEPT !.isSpeechActive = active] \in Coordinator
           /\ \A g \in Nat : [c EXCEPT !.grace = g] \in Coordinator
  <1>1. \A mode \in {"candidateListening", "bargeInDetection"} : arm(c, mode) \in Coordinator
    BY Zenon DEF arm, Coordinator
  <1>2. disarm(c) \in Coordinator
    BY Zenon DEF disarm, Coordinator
  <1>3. cancelScheduledGrace(c) \in Coordinator
    BY Zenon DEF cancelScheduledGrace, Coordinator
  <1>4. \A wants \in BOOLEAN : [c EXCEPT !.wantsContinuousListening = wants] \in Coordinator
    BY Zenon DEF Coordinator
  <1>5. \A active \in BOOLEAN : [c EXCEPT !.isSpeechActive = active] \in Coordinator
    BY Zenon DEF Coordinator
  <1>6. \A g \in Nat : [c EXCEPT !.grace = g] \in Coordinator
    BY Zenon DEF Coordinator
  <1> QED
    BY <1>1, <1>2, <1>3, <1>4, <1>5, <1>6
    DEF armContinuousListeningIfNeeded, cancelScheduledGraceIfInactive

\* The coordinator's fields, the player and the history of dropped outcomes are typed.
FieldsInv ==
    coordinator \in Coordinator /\ voice \in {"quiet", "due", "playing"} /\ dropped \in BOOLEAN

\* Ending a task sets the fields to what its caller passed, armed or not.
LEMMA EndsTypes ==
    ASSUME NEW t, NEW c \in Coordinator, Ends(t, c) \/ Returns(t, c)
    PROVE  coordinator' \in Coordinator
  BY ArmTypes DEF Ends, Returns

\* So the fields keep their types in beginSegment,
LEMMA BeginTypes ==
    ASSUME FieldsInv, NEW t, BeginStep(t)
    PROVE  FieldsInv'
  <1>1. coordinator' \in Coordinator
    BY EndsTypes, ArmTypes
    DEF FieldsInv, BeginStep, BeginSaved, BeginRefused, CaptureStarts, CaptureStartFails,
        CaptureFailedSaved, CaptureFailedRefused, StartedSaved, StartedRefused, PreserveSaved,
        PreserveRefused, PreserveRecordSaved, PreserveRecordRefused
  <1>2. voice' = voice /\ dropped' \in {dropped, TRUE}
    BY DEF BeginStep, BeginSaved, BeginRefused, CaptureStarts, CaptureStartFails,
           CaptureFailedSaved, CaptureFailedRefused, StartedSaved, StartedRefused,
           PreserveSaved, PreserveRefused, PreserveRecordSaved, PreserveRecordRefused, Frame
  <1> QED
    BY <1>1, <1>2 DEF FieldsInv

\* ... finalizeActiveSegment and transcribe,
LEMMA TranscribeTypes ==
    ASSUME FieldsInv, NEW t, TranscribeStep(t)
    PROVE  FieldsInv'
  <1>1. coordinator' \in Coordinator
    BY EndsTypes
    DEF FieldsInv, TranscribeStep, FinalizeSaved, FinalizeRefused, RecordCaptureSaved,
        TranscribesNext, RecordCaptureRefused, AuthorizeSaved, AuthorizeRefused, Transcribed,
        TranscriptSaved, TranscriptRefused
  <1>2. voice' = voice /\ dropped' \in {dropped, TRUE}
    BY DEF TranscribeStep, FinalizeSaved, FinalizeRefused, RecordCaptureSaved,
           RecordCaptureRefused, AuthorizeSaved, AuthorizeRefused, Transcribed,
           TranscriptSaved, TranscriptRefused, Frame
  <1> QED
    BY <1>1, <1>2 DEF FieldsInv

\* ... evaluateEndpointIfNeeded, which schedules a grace there is,
LEMMA EvaluateTypes ==
    ASSUME FieldsInv, SessionInv', NEW t, EvaluateStep(t)
    PROVE  FieldsInv'
  <1>1. coordinator' \in Coordinator
    <2>1. CASE ActivateGraceSaved(t)
      <3>1. Len(endpointGraces') \in Nat
        BY DEF SessionInv, Room!TypeOK
      <3>2. [coordinator EXCEPT !.grace = Len(endpointGraces')] \in Coordinator
        BY <3>1, ArmTypes DEF FieldsInv
      <3> QED
        BY <2>1, <3>2, EndsTypes DEF ActivateGraceSaved
    <2>2. CASE EvaluationSaved(t)
      <3>1. armContinuousListeningIfNeeded(coordinator, snapshot') \in Coordinator
        BY ArmTypes DEF FieldsInv
      <3>2. \E c \in Coordinator : Returns(t, c) \/ coordinator' = c
        BY <2>2, <3>1 DEF EvaluationSaved, FieldsInv
      <3> QED
        BY <3>2, EndsTypes
    <2> QED
      BY <2>1, <2>2, EndsTypes
      DEF FieldsInv, EvaluateStep, EvaluateSaved, EvaluateRefused, Classified,
          EvaluationRefused, ReconcileEvaluationSaved, ReconcileEvaluationRefused,
          ActivateGraceRefused
  <1>2. voice' = voice /\ dropped' \in {dropped, TRUE}
    BY DEF EvaluateStep, EvaluateSaved, EvaluateRefused, Classified, EvaluationSaved,
           EvaluationRefused, ReconcileEvaluationSaved, ReconcileEvaluationRefused,
           ActivateGraceSaved, ActivateGraceRefused, Frame
  <1> QED
    BY <1>1, <1>2 DEF FieldsInv

\* ... completeScheduledGrace,
LEMMA GraceTypes ==
    ASSUME FieldsInv, GraceStep
    PROVE  FieldsInv'
  <1>1. cancelScheduledGrace(coordinator) \in Coordinator
    BY ArmTypes DEF FieldsInv
  <1>2. coordinator' \in Coordinator
    BY <1>1, EndsTypes
    DEF FieldsInv, GraceStep, GraceRunsOut, CompleteSaved, CompleteRefused,
        ReconcileGraceSaved, ReconcileGraceRefused
  <1>3. voice' = voice /\ dropped' \in {dropped, TRUE}
    BY DEF GraceStep, GraceRunsOut, CompleteSaved, CompleteRefused, ReconcileGraceSaved,
           ReconcileGraceRefused, Frame
  <1> QED
    BY <1>2, <1>3 DEF FieldsInv

\* ... the room's commands,
LEMMA ReturnTypes ==
    ASSUME FieldsInv, RoomReturn
    PROVE  FieldsInv'
  <1> USE DEF FieldsInv
  <1>0. coordinator \in Coordinator
    OBVIOUS
  <1>1. ASSUME NEW t, HandOffSaved \/ HandOffRefused \/ ExcludeSaved \/ CommandRefused(t)
        PROVE  FieldsInv'
    BY <1>1, EndsTypes DEF HandOffSaved, HandOffRefused, ExcludeSaved, CommandRefused, Frame
  <1>2. ASSUME NEW t, Replied(t) \/ ReplyFails(t)
        PROVE  FieldsInv'
    <2>1. /\ cancelScheduledGrace(coordinator) \in Coordinator
          /\ disarm(cancelScheduledGrace(coordinator)) \in Coordinator
      BY ArmTypes
    <2> QED
      BY <1>2, <2>1 DEF Replied, ReplyFails, Frame
  <1>3. ASSUME NEW t, FloorSaved(t) \/ FloorRefused(t)
        PROVE  FieldsInv'
    BY <1>3, ArmTypes DEF FloorSaved, FloorRefused, Frame
  <1>4. CASE ModeSaved
    <2> DEFINE inactive == cancelScheduledGraceIfInactive(coordinator, snapshot')
    <2>1. inactive \in Coordinator
      BY ArmTypes
    <2> HIDE DEF inactive
    <2>2. /\ armContinuousListeningIfNeeded(inactive, snapshot') \in Coordinator
          /\ disarm([inactive EXCEPT !.wantsContinuousListening = FALSE]) \in Coordinator
      BY <2>1, ArmTypes
    <2>3. \E c \in Coordinator : Ends("user", c)
      BY <1>4, <2>2 DEF ModeSaved, inactive
    <2> QED
      BY <1>4, <2>3, EndsTypes DEF ModeSaved, Frame
  <1>5. CASE HoldSaved
    <2>1. armContinuousListeningIfNeeded(
              cancelScheduledGraceIfInactive(coordinator, snapshot'), snapshot')
              \in Coordinator
      BY ArmTypes
    <2> QED
      BY <1>5, <2>1, EndsTypes DEF HoldSaved, Frame
  <1>6. CASE KeepFloorSaved
    BY <1>6, ArmTypes, EndsTypes DEF KeepFloorSaved, Frame
  <1>7. CASE FinishSaved
    <2>1. disarm([cancelScheduledGrace(coordinator) EXCEPT
                      !.wantsContinuousListening = FALSE]) \in Coordinator
      BY ArmTypes
    <2> QED
      BY <1>7, <2>1, EndsTypes DEF FinishSaved, Frame
  <1>8. CASE DeskSaved
    <2>1. \E c \in Coordinator : Ends("desk", c)
      BY <1>8, ArmTypes DEF DeskSaved
    <2> QED
      BY <1>8, <2>1, EndsTypes DEF DeskSaved, Frame
  <1> QED
    BY <1>1, <1>2, <1>3, <1>4, <1>5, <1>6, <1>7, <1>8 DEF RoomReturn

\* ... the operations it starts,
LEMMA StartTypes ==
    ASSUME FieldsInv, RoomStart
    PROVE  FieldsInv'
  <1>1. disarm([coordinator EXCEPT !.wantsContinuousListening = FALSE]) \in Coordinator
    BY ArmTypes DEF FieldsInv
  <1> QED
    BY <1>1 DEF FieldsInv, RoomStart, Pause, Frame

\* ... the events it hears
LEMMA AudioTypes ==
    ASSUME FieldsInv, AudioStep
    PROVE  FieldsInv'
  <1>1. /\ [coordinator EXCEPT !.isSpeechActive = TRUE] \in Coordinator
        /\ [coordinator EXCEPT !.isSpeechActive = FALSE] \in Coordinator
        /\ armContinuousListeningIfNeeded(coordinator, snapshot) \in Coordinator
        /\ armContinuousListeningIfNeeded([coordinator EXCEPT !.isSpeechActive = FALSE],
                                          snapshot) \in Coordinator
        /\ arm(coordinator, "bargeInDetection") \in Coordinator
    BY ArmTypes DEF FieldsInv
  <1>2. CASE SpeechStarts
    BY <1>1, <1>2 DEF FieldsInv, SpeechStarts, Frame
  <1>3. CASE SpeechEnds
    BY <1>1, <1>3 DEF FieldsInv, SpeechEnds, Frame
  <1>4. CASE PlaybackStarts
    BY <1>1, <1>4 DEF FieldsInv, PlaybackStarts
  <1>5. CASE PlaybackFinishes
    BY <1>1, <1>5 DEF FieldsInv, PlaybackFinishes
  <1>6. CASE RecorderStops \/ \E t \in {"user", "acoustic"} : PlaybackStopped(t)
    BY <1>6 DEF FieldsInv, RecorderStops, PlaybackStopped
  <1> QED
    BY <1>2, <1>3, <1>4, <1>5, <1>6 DEF AudioStep

\* ... and a crash, a relaunch and resuming.
LEMMA ProcessTypes ==
    ASSUME FieldsInv, ProcessStep
    PROVE  FieldsInv'
  <1>1. Resumes \/ OpensRoom => coordinator' \in Coordinator
    <2> DEFINE wants == turnMode' = "continuousConversation"
               opened == [coordinator EXCEPT !.wantsContinuousListening = wants]
    <2>1. OpensRoom => coordinator' \in Coordinator
      <3>1. wants \in BOOLEAN
        OBVIOUS
      <3>2. OpensRoom => coordinator' = armContinuousListeningIfNeeded(opened, snapshot')
        BY DEF OpensRoom
      <3> HIDE DEF wants
      <3>3. opened \in Coordinator
        BY <3>1, ArmTypes DEF FieldsInv
      <3> HIDE DEF opened
      <3> QED
        BY <3>2, <3>3, ArmTypes
    <2> QED
      BY <2>1 DEF Resumes, FieldsInv
  <1>2. CASE Crash
    BY <1>2 DEF Crash, FieldsInv, Coordinator
  <1>3. CASE Relaunch
    BY <1>1, <1>3 DEF Relaunch, FieldsInv, Frame
  <1>4. CASE ResumeSaved
    BY <1>1, <1>4 DEF ResumeSaved, FieldsInv, Frame
  <1>5. CASE ResumeRefused
    BY <1>1, <1>5 DEF ResumeRefused, FieldsInv
  <1> QED
    BY <1>2, <1>3, <1>4, <1>5 DEF ProcessStep

\* Every step keeps the types of the fields.
LEMMA FieldsStep ==
    ASSUME SessionInv', FieldsInv, [Next]_vars
    PROVE  FieldsInv'
  <1>1. UNCHANGED vars => FieldsInv'
    BY DEF vars, FieldsInv
  <1> QED
    BY <1>1, BeginTypes, TranscribeTypes, EvaluateTypes, GraceTypes, ReturnTypes, StartTypes,
       AudioTypes, ProcessTypes
    DEF Next

\* The fields have their types when the room opens.
LEMMA FieldsInit == Init => FieldsInv
  <1> SUFFICES ASSUME Init
               PROVE  FieldsInv
    OBVIOUS
  <1>1. [wantsContinuousListening |-> TRUE, armed |-> "disarmed", isSpeechActive |-> FALSE,
         grace |-> 0] \in Coordinator
    BY DEF Coordinator
  <1> QED
    BY <1>1, ArmTypes DEF Init, FieldsInv

-----------------------------------------------------------------------------
(* What holds of the coordinator *)

\* The inductive invariant.
SpeechInv == SessionInv /\ NamesInv /\ ControlInv /\ CaptureInv /\ FieldsInv

\* ... is inductive.
LEMMA SpeechStep ==
    ASSUME SpeechInv, [Next]_vars
    PROVE  SpeechInv'
  BY EveryStepIsRoomStep, SessionStep, NamesStep, ControlStep, CaptureStep, FieldsStep
  DEF SpeechInv, StaysOrSteps

\* The room opens in a state that satisfies it.
LEMMA SpeechInit == Init => SpeechInv
  BY SessionInit, NamesInit, ControlInit, CaptureInit, FieldsInit DEF SpeechInv

\* The inductive invariant holds in every reachable state: whichever task moves next, the
\* session, the names of what tasks work on, the recorder and the fields agree.
THEOREM SpeechIsInvariant == Spec => []SpeechInv
  <1>1. Init => SpeechInv
    BY SpeechInit
  <1>2. SpeechInv /\ [Next]_vars => SpeechInv'
    BY SpeechStep
  <1> QED
    BY <1>1, <1>2, PTL DEF Spec

\* Tasks, recorder and fields have their types, and no history its bound exceeded.
THEOREM TypesAreKept == Spec => []TypeOK
  <1>1. SpeechInv => TypeOK
    <2> SUFFICES ASSUME SpeechInv
                 PROVE  TypeOK
      OBVIOUS
    <2>1. DOMAIN segments \subseteq 1..MaxSegments
      BY BoundsAssumption DEF SpeechInv, SessionInv, Room!TypeOK, NamesInv
    <2>2. recorder.segment # 0 => recorder.segment \in DOMAIN segments
      BY DEF SpeechInv, CaptureInv, RecorderInv, Room!ActiveSegments
    <2>3. recorder \in [segment : 0..MaxSegments, state : {"off", "starting", "on", "dead"}]
      BY <2>1, <2>2, BoundsAssumption
      DEF SpeechInv, CaptureInv, RecorderInv, Recorder
    <2>4. Room!TypeOK /\ tasks \in [Task -> TaskRecord]
      BY DEF SpeechInv, SessionInv, NamesInv
    <2>5. recorder.segment = 0 <=> recorder.state = "off"
      BY DEF SpeechInv, CaptureInv, RecorderInv
    <2>6. sourceAudio \subseteq 1..MaxSegments
      BY <2>1 DEF SpeechInv, CaptureInv, SourceInv
    <2> QED
      BY <2>3, <2>4, <2>5, <2>6 DEF SpeechInv, FieldsInv, TypeOK, TaskRecord
  <1> QED
    BY <1>1, SpeechIsInvariant, PTL

\* The microphone is on only for a segment the manifest holds open, on the
\* candidate's floor: no refused save, failed stop or crash leaves it on.
THEOREM MicrophoneStaysAuthorized == Spec => []MicrophoneIsAuthorized
  <1>1. SpeechInv => MicrophoneIsAuthorized
    BY SessionFacts DEF SpeechInv, CaptureInv, RecorderInv, MicrophoneIsAuthorized
  <1> QED
    BY <1>1, SpeechIsInvariant, PTL

\* Speech on disk is never given up as a failed capture, across any crash.
THEOREM SpeechIsKept == Spec => []RecordedSpeechIsKept
  <1>1. SpeechInv => RecordedSpeechIsKept
    BY DEF SpeechInv, CaptureInv, SourceInv
  <1> QED
    BY <1>1, SpeechIsInvariant, PTL

\* A recorder that does as it is told is on only while the manifest says it
\* records or some task is about to say so or to stop it.
THEOREM MicrophoneStaysOwned == Spec => []HotMicrophoneIsOwned
  <1>1. SpeechInv => HotMicrophoneIsOwned
    BY DEF SpeechInv, CaptureInv, RecorderInv, Recorder, OwnedInv, HotMicrophoneIsOwned
  <1> QED
    BY <1>1, SpeechIsInvariant, PTL

\* Nothing is left for resumePendingWork to reconcile.
NothingInterrupted == \A work \in Resumable : ~Interrupted(work[1], work[2])

\* A process that resumed and saved all it had to opens the room over no work.
LEMMA ResumeLeavesNothing ==
    ASSUME NamesInv, ControlInv, ProcessStep, Launched', ~dropped'
    PROVE  NothingInterrupted'
  <1>0. "user" \in Task /\ tasks \in [Task -> TaskRecord]
    BY DEF Task, NamesInv
  <1>1. ~Crash /\ ~ResumeRefused
    BY DEF Crash, Room!Crash, ResumeRefused, Launched, Running
  <1>2. ASSUME NEW command, NEW of, issue("user", "resume", command, of, "none")
        PROVE  FALSE
    BY <1>0, <1>2 DEF issue, Launched
  <1>3. Resumes
    <2>1. CASE Relaunch
      BY <2>1 DEF Relaunch, Launched, Running
    <2>2. CASE ResumeSaved
      <3>1. tasks["user"].stage \in ResumeStages
        BY <2>2 DEF ResumeSaved, Admitted, At, ResumeStages
      <3>2. tasks["user"].op = "resume"
        BY <1>0, <3>1 DEF ControlInv
      <3> QED
        BY <1>2, <2>2, <3>2 DEF ResumeSaved, issues
    <2> QED
      BY <1>1, <2>1, <2>2 DEF ProcessStep
  <1> QED
    BY <1>2, <1>3 DEF Resumes, NothingInterrupted

\* Resuming that saves all it has to ends with nothing left to resume: the room
\* opens over no grace, attempt, evaluation or capture of the process before.
THEOREM ResumingSettles == Spec => ResumeSettles
  <1>1. ASSUME SpeechInv, [Next]_vars, ~Launched, Launched', ~dropped'
        PROVE  \A work \in Resumable' : ~Interrupted(work[1], work[2])'
    <2>1. ProcessStep
      <3>1. UNCHANGED vars => Launched' = Launched
        BY DEF vars, Launched, Running
      <3> QED
        BY <1>1, <3>1, OneGoes DEF SpeechInv
    <2> QED
      BY <1>1, <2>1, ResumeLeavesNothing DEF SpeechInv, NothingInterrupted
  <1>2. SpeechInv /\ [Next]_vars =>
            [~Launched /\ Launched' /\ ~dropped'
                 => \A work \in Resumable' : ~Interrupted(work[1], work[2])']_vars
    BY <1>1
  <1> QED
    BY <1>2, SpeechIsInvariant, PTL DEF Spec, ResumeSettles
=============================================================================
