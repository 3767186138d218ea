----------------------- MODULE SegmentSpeechCoordinator -----------------------
(***************************************************************************)
(* The MainActor coordinator of candidate speech                           *)
(* (SegmentSpeechCoordinator.swift), composed with the session whose       *)
(* commands it issues (InterviewRoomSession), the acoustic segmenter, the  *)
(* recorder and the room that drives them.                                 *)
(*                                                                         *)
(* Six tasks interleave where they await: the room's one operation at a    *)
(* time (`user', isWorking), the acoustic event being handled (`acoustic'),*)
(* the end of interviewer playback (`playback'), the grace that ran out    *)
(* (`timer'), the recorder's own end (`recorder') and the board and notes  *)
(* commands that wait for nobody (`desk').  An action is the code between  *)
(* two awaits.  A command is issued in one action and returns in another;  *)
(* the session admits one at a time, so a command issued while another is  *)
(* in flight is not admitted and throws commandInProgress.  What returns   *)
(* is published at once.                                                   *)
(***************************************************************************)
EXTENDS Integers, Sequences, FiniteSets

CONSTANTS
    MaxSegments, MaxAttempts, MaxTurns, MaxHolds,  \* bounds on the histories
    Offered   \* the operations and faults an instance offers

UserOperations == {"record", "stop", "transcribe", "exclude", "hold", "send", "handOff",
                   "keepFloor", "pause", "giveFloor", "manual", "continuous", "retry",
                   "finish"}
DeskOperations == {"notes", "draft", "export"}
Faults == {"refusedSave", "captureFault", "providerFault", "crash"}

ASSUME BoundsAssumption ==
    MaxSegments \in Nat /\ MaxAttempts \in Nat /\ MaxTurns \in Nat /\ MaxHolds \in Nat
ASSUME OfferedAssumption ==
    Offered \subseteq UserOperations \cup DeskOperations \cup Faults \cup {"replay"}

VARIABLES
    phase, turnMode, turns, segments,                 \* the session's manifest
    endpointEvaluations, endpointGraces, floorHolds, board,
    provider, process,                                \* ... its actor and process
    snapshot,     \* what the coordinator last published of it
    tasks,        \* what each task awaits
    coordinator,  \* the coordinator's fields and the segmenter it arms
    recorder,     \* the recorder's active capture
    sourceAudio,  \* the segments whose Source Recording is on disk
    voice,        \* the interviewer's playback cycle
    dropped       \* history: an outcome could not be saved since launch

room == <<phase, turnMode, turns, segments, endpointEvaluations, endpointGraces,
          floorHolds, board, provider, process>>
vars == <<phase, turnMode, turns, segments, endpointEvaluations, endpointGraces,
          floorHolds, board, provider, process, snapshot, tasks, coordinator,
          recorder, sourceAudio, voice, dropped>>

\* A classifier request is fingerprinted by its trigger, evidence and question.
Fingerprints == Nat \X (SUBSET (Nat \X Nat)) \X Nat

Room == INSTANCE InterviewRoomSession WITH
    TurnModesOffered <- {"continuousConversation", "manual"},
    DraftsOffered    <- {"unsaved"},
    Credentials      <- {"key"},
    Contexts         <- Fingerprints,
    MaxRank          <- 1

-----------------------------------------------------------------------------
(* Tasks and commands *)

Task == {"user", "acoustic", "playback", "timer", "recorder", "desk"}

\* the stages that await the session
Commands ==
    {"begin", "captureFailed", "started", "preserve", "preserveRecord",
     "finalize", "recordCapture", "authorize", "recordTranscript",
     "evaluate", "recordEvaluation", "reconcileEvaluation", "activateGrace",
     "complete", "reconcileGrace", "floor", "mode", "hold", "cancelGrace", "exclude",
     "send", "handOff", "retry", "finish", "replying", "note", "draft", "export",
     "resumeGrace", "resumeAttempt", "resumeEvaluation", "resumeCapture",
     "resumeOutcome"}
\* ... and those that await somebody else
Waits == {"idle", "capturing", "transcribing", "classifying", "stopping"}

\* what a task works on, and what it has to report
Operations == UserOperations \cup
    {"none", "mode", "resume", "speechStarted", "speechEnded", "bargeIn", "playback", 
     "grace", "recorder", "desk"}
Results == {"none", "recovering", "candidate", "failed", "likelyEnd", "likelyContinue",
            "manual", "continuousConversation"}

idle == [op |-> "none", stage |-> "idle", of |-> 0, result |-> "none", admitted |-> FALSE]

Admits(t) == provider = "none" /\ \A u \in Task \ {t} : ~tasks[u].admitted

\* task t, working on op, issues a command about `of'
issue(t, op, command, of, result) ==
    tasks' = [tasks EXCEPT ![t] = [op |-> op, stage |-> command, of |-> of,
                                   result |-> result, admitted |-> Admits(t)]]
await(t, op, stage, of) ==
    tasks' = [tasks EXCEPT ![t] = [op |-> op, stage |-> stage, of |-> of,
                                   result |-> "none", admitted |-> FALSE]]

issues(t, command, of, result) == issue(t, tasks[t].op, command, of, result)

Running == process = "running"
\* A command that was not admitted throws at once: no provider, recorder, timer
\* or person gets anything done first.
Settled == \A t \in Task : tasks[t].stage \in Waits \/ tasks[t].admitted
Launched == Running /\ tasks["user"].op # "resume"
At(t, stage) == Running /\ tasks[t].stage = stage
Admitted(t, stage) == At(t, stage) /\ tasks[t].admitted

\* InterviewRoomSnapshot, as far as the coordinator reads it
Projection == [phase |-> phase, turnMode |-> turnMode, segments |-> segments,
               holds |-> Room!ActiveHold, pending |-> Room!Pending]
Publish == snapshot' = Projection'
NoRoomStep == UNCHANGED room

-----------------------------------------------------------------------------
(* The coordinator's fields *)

Coordinator ==
    [wantsContinuousListening : BOOLEAN,
     armed : {"disarmed", "candidateListening", "bargeInDetection"},
     isSpeechActive : BOOLEAN,   \* the segmenter's
     grace : Nat]                \* endpointGraceTask: the grace it waits for

\* shouldHandleBargeIn, handleAcousticEvent and the end of playback read flags
\* that say what a task is doing.
isHandlingBargeIn == tasks["acoustic"].op = "bargeIn"
isFinalizing == \E t \in Task : /\ tasks[t].stage \in {"finalize", "recordCapture"}
                                /\ tasks[t].op # "resume"

isInFlight(seg) == seg.committedTurn = 0 /\ Room!isInFlightCapture(seg)
canBeginContinuousSegment(snap) ==
    \A s \in DOMAIN snap.segments : ~isInFlight(snap.segments[s])
activeIn(snap) == {s \in DOMAIN snap.segments : Room!isActiveSegment(snap.segments[s])}

\* The segmenter keeps the speech it hears when one live mode follows another.
arm(c, mode) == [c EXCEPT !.armed = mode,
                          !.isSpeechActive = @ /\ c.armed # "disarmed"]
disarm(c) == [c EXCEPT !.armed = "disarmed", !.isSpeechActive = FALSE]

armContinuousListeningIfNeeded(c, snap) ==
    IF /\ c.wantsContinuousListening
       /\ snap.turnMode = "continuousConversation"
       /\ snap.phase = "candidateFloor"
       /\ canBeginContinuousSegment(snap)
    THEN arm(c, "candidateListening")
    ELSE c

cancelScheduledGrace(c) == [c EXCEPT !.grace = 0]
cancelScheduledGraceIfInactive(c, snap) ==
    IF snap.pending = {} THEN cancelScheduledGrace(c) ELSE c

\* What the callers do when the segment or its transcript is done with: an
\* acoustic event re-arms listening, Send answer goes on to send.
Ends(t, c) ==
    /\ tasks' = [tasks EXCEPT ![t] = idle]
    /\ coordinator' = IF tasks[t].op = "speechEnded"
                      THEN armContinuousListeningIfNeeded(c, snapshot') ELSE c
Returns(t, c) ==
    \/ tasks[t].op = "send" /\ issues(t, "send", 0, "none") /\ coordinator' = c
    \/ tasks[t].op # "send" /\ Ends(t, c)

Capture == UNCHANGED <<recorder, sourceAudio>>

-----------------------------------------------------------------------------
\* The opening was asked and its turn persisted, or its floor already given.
Init ==
    /\ turns = <<[role |-> "interviewer", segments |-> {}, transcript |-> {},
                  replyTo |-> 0]>>
    /\ phase \in {"interviewerTurn", "candidateFloor"}
    /\ turnMode = "continuousConversation"
    /\ segments = <<>> /\ endpointEvaluations = <<>> /\ endpointGraces = <<>>
    /\ floorHolds = <<>> /\ board = [draft |-> "empty", revised |-> FALSE]
    /\ provider = "none" /\ process = "running"
    /\ snapshot = Projection
    /\ tasks = [t \in Task |-> idle]
    /\ coordinator = armContinuousListeningIfNeeded(
           [wantsContinuousListening |-> TRUE, armed |-> "disarmed",
            isSpeechActive |-> FALSE, grace |-> 0], snapshot)
    /\ recorder = [segment |-> 0, state |-> "off"]
    /\ sourceAudio = {}
    /\ voice = IF phase = "interviewerTurn" THEN "due" ELSE "quiet"
    /\ dropped = FALSE

-----------------------------------------------------------------------------
(* Capture: beginSegment *)

Frame == UNCHANGED <<recorder, sourceAudio, voice, dropped>>

\* A command throws when it was not admitted, when its save fails, or when the
\* session's own guards refuse it; the manifest is then published as it is.
Refused(t, command, invalid) ==
    /\ At(t, command)
    /\ ~tasks[t].admitted \/ "refusedSave" \in Offered \/ invalid
    /\ NoRoomStep /\ Publish

\* No other capture can be active then (MicrophoneIsAuthorized): the recorder's
\* captureAlreadyActive never comes up.
BeginSaved(t) ==
    LET s == Len(segments) + 1
    IN  /\ Admitted(t, "begin")
        /\ Room!BeginSegment /\ Publish
        /\ recorder' = [segment |-> s, state |-> "starting"]
        /\ await(t, tasks[t].op, "capturing", s)
        /\ coordinator' = cancelScheduledGraceIfInactive(coordinator, snapshot')
        /\ UNCHANGED <<sourceAudio, voice, dropped>>

BeginRefused(t) ==
    /\ Refused(t, "begin", phase # "candidateFloor" \/ Room!ActiveSegments # {})
    /\ Ends(t, coordinator) /\ Frame

\* The driver is running; the recording has yet to be recorded as started.
CaptureStarts(t) ==
    /\ At(t, "capturing") /\ Settled
    /\ recorder' = [recorder EXCEPT !.state = "on"]
    /\ sourceAudio' = sourceAudio \cup {tasks[t].of}
    /\ issues(t, "started", tasks[t].of, "none")
    /\ NoRoomStep /\ UNCHANGED <<snapshot, coordinator, voice, dropped>>

CaptureStartFails(t) ==
    /\ At(t, "capturing") /\ Settled /\ "captureFault" \in Offered
    /\ recorder' = [segment |-> 0, state |-> "off"]
    /\ issues(t, "captureFailed", tasks[t].of, "none")
    /\ NoRoomStep /\ UNCHANGED <<snapshot, coordinator, sourceAudio, voice, dropped>>

CaptureFailedSaved(t) ==
    /\ Admitted(t, "captureFailed")
    /\ Room!RecordCaptureFailed(tasks[t].of) /\ Publish
    /\ Ends(t, coordinator) /\ Frame

CaptureFailedRefused(t) ==
    /\ Refused(t, "captureFailed", ~Room!isActiveSegment(segments[tasks[t].of]))
    /\ Ends(t, coordinator)
    /\ dropped' = TRUE /\ UNCHANGED <<recorder, sourceAudio, voice>>

StartedSaved(t) ==
    /\ Admitted(t, "started")
    /\ Room!RecordRecordingStarted(tasks[t].of) /\ Publish
    /\ Ends(t, coordinator) /\ Frame

\* preserveCaptureAfterStartPersistenceFailure
StartedRefused(t) ==
    /\ Refused(t, "started", segments[tasks[t].of].lifecycle # "captureAuthorized")
    /\ issues(t, "preserve", tasks[t].of, "none")
    /\ UNCHANGED coordinator /\ Frame

\* mutant: the recorder that stopped still names its segment
FinishingKept ==
    {[ok |-> TRUE, left |-> [recorder EXCEPT !.state = "off"]]}

\* finishCapture throws without a running capture, and may throw before the
\* driver stopped (the capture stays active) or after (the file stays behind).
Finishing ==
    IF recorder.state \in {"off", "starting"} THEN {[ok |-> FALSE, left |-> recorder]}
    ELSE LET off == [segment |-> 0, state |-> "off"]
         IN  {[ok |-> TRUE, left |-> off]} \cup
             (IF "captureFault" \in Offered
              THEN {[ok |-> FALSE, left |-> recorder], [ok |-> FALSE, left |-> off]}
              ELSE {})

PreserveSaved(t) ==
    /\ Admitted(t, "preserve")
    /\ Room!FinalizeSegment(tasks[t].of) /\ Publish
    /\ \E finish \in Finishing :
           /\ recorder' = finish.left
           /\ IF finish.ok
              THEN issues(t, "preserveRecord", tasks[t].of, "none") /\ UNCHANGED coordinator
              ELSE Ends(t, coordinator)
    /\ UNCHANGED <<sourceAudio, voice, dropped>>

\* mutant: the authorization is gone, and the microphone with nobody to stop it
PreserveGivenUp(t) ==
    /\ Refused(t, "preserve", ~Room!isActiveSegment(segments[tasks[t].of]))
    /\ Ends(t, coordinator)
    /\ dropped' = TRUE /\ UNCHANGED <<recorder, sourceAudio, voice>>

\* The authorization may still be unavailable: stop the microphone regardless.
PreserveRefused(t) ==
    /\ Refused(t, "preserve", ~Room!isActiveSegment(segments[tasks[t].of]))
    /\ \E finish \in Finishing : recorder' = finish.left
    /\ Ends(t, coordinator)
    /\ dropped' = TRUE /\ UNCHANGED <<sourceAudio, voice>>

PreserveRecordSaved(t) ==
    /\ Admitted(t, "preserveRecord")
    /\ Room!RecordCaptureFinalized(tasks[t].of, "clear") /\ Publish
    /\ Ends(t, coordinator) /\ Frame

PreserveRecordRefused(t) ==
    /\ Refused(t, "preserveRecord", segments[tasks[t].of].lifecycle # "finalizationAuthorized")
    /\ Ends(t, coordinator)
    /\ dropped' = TRUE /\ UNCHANGED <<recorder, sourceAudio, voice>>

BeginStep(t) ==
    \/ BeginSaved(t) \/ BeginRefused(t) \/ CaptureStarts(t) \/ CaptureStartFails(t)
    \/ CaptureFailedSaved(t) \/ CaptureFailedRefused(t)
    \/ StartedSaved(t) \/ StartedRefused(t) \/ PreserveSaved(t) \/ PreserveRefused(t)
    \/ PreserveRecordSaved(t) \/ PreserveRecordRefused(t)

-----------------------------------------------------------------------------
(* finalizeActiveSegment and transcribe *)

\* the segment a finished capture is transcribed for
ReadyFor(op, s, snap) ==
    LET ready == {r \in DOMAIN snap.segments : snap.segments[r].lifecycle = "audioReady"
                                               /\ snap.segments[r].committedTurn = 0}
    IN  IF op = "send" THEN {r \in ready : \A q \in ready : q <= r}
        ELSE IF op \in {"stop", "speechEnded"} THEN ready \cap {s} ELSE {}

\* `result' of a stop says whether the segment was still recording: the room
\* only transcribes then.
TranscribesNext(t, s) ==
    LET ready == IF tasks[t].result = "recovering" THEN {}
                 ELSE ReadyFor(tasks[t].op, s, snapshot')
    IN  IF ready = {} THEN Returns(t, coordinator)
        ELSE /\ \E r \in ready : issues(t, "authorize", r, "none")
             /\ UNCHANGED coordinator

\* mutant: a recorder that failed to stop makes a failed segment
FinalizeSavedOrFailed(t) ==
    /\ Admitted(t, "finalize")
    /\ Room!FinalizeSegment(tasks[t].of) /\ Publish
    /\ \E finish \in Finishing :
           /\ recorder' = finish.left
           /\ issues(t, IF finish.ok THEN "recordCapture" ELSE "captureFailed",
                     tasks[t].of, tasks[t].result)
           /\ UNCHANGED coordinator
    /\ UNCHANGED <<sourceAudio, voice, dropped>>

\* A recorder that lost its capture leaves a file to recover; one that would
\* not stop leaves the authorization for a later Stop.
FinalizeSaved(t) ==
    /\ Admitted(t, "finalize")
    /\ Room!FinalizeSegment(tasks[t].of) /\ Publish
    /\ \E finish \in Finishing :
           /\ recorder' = finish.left
           /\ IF finish.ok \/ (finish.left.segment = 0 /\ tasks[t].of \in sourceAudio)
              THEN /\ issues(t, "recordCapture", tasks[t].of, tasks[t].result)
                   /\ UNCHANGED coordinator
              ELSE Ends(t, coordinator)
    /\ UNCHANGED <<sourceAudio, voice, dropped>>

FinalizeRefused(t) ==
    /\ Refused(t, "finalize", ~Room!isActiveSegment(segments[tasks[t].of]))
    /\ Ends(t, coordinator) /\ Frame

RecordCaptureSaved(t) ==
    /\ Admitted(t, "recordCapture")
    /\ \E audio \in {"clear"} \cup (IF "captureFault" \in Offered THEN {"unplayable"} ELSE {}) :
           Room!RecordCaptureFinalized(tasks[t].of, audio)
    /\ Publish
    /\ TranscribesNext(t, tasks[t].of) /\ Frame

RecordCaptureRefused(t) ==
    /\ Refused(t, "recordCapture", segments[tasks[t].of].lifecycle # "finalizationAuthorized")
    /\ Ends(t, coordinator)
    /\ dropped' = TRUE /\ UNCHANGED <<recorder, sourceAudio, voice>>

NoAttemptInFlight ==
    \A s \in DOMAIN segments : \A i \in DOMAIN segments[s].attempts :
        segments[s].attempts[i].state # "authorized"

\* Without a credential the authorized attempt fails at once.
AuthorizeSaved(t) ==
    /\ Admitted(t, "authorize")
    /\ Room!AuthorizeSegmentTranscription(tasks[t].of, "key") /\ Publish
    /\ \/ await(t, tasks[t].op, "transcribing", tasks[t].of)
       \/ /\ "providerFault" \in Offered
          /\ issues(t, "recordTranscript", tasks[t].of, "failed")
    /\ UNCHANGED coordinator /\ Frame

AuthorizeRefused(t) ==
    /\ LET seg == segments[tasks[t].of]
       IN  Refused(t, "authorize", \/ ~NoAttemptInFlight \/ seg.audio # "clear"
                                   \/ seg.lifecycle \notin {"audioReady", "transcribed"})
    /\ Ends(t, coordinator) /\ Frame

\* An empty result is a failure like any other.
Transcribed(t) ==
    /\ At(t, "transcribing") /\ Settled
    /\ \E result \in {"candidate"} \cup (IF "providerFault" \in Offered THEN {"failed"} ELSE {}) :
           issues(t, "recordTranscript", tasks[t].of, result)
    /\ NoRoomStep /\ UNCHANGED <<snapshot, coordinator>> /\ Frame

\* evaluateEndpointIfNeeded: the segments of a settled draft
Evaluable ==
    IF /\ phase = "candidateFloor" /\ Room!usesAutomaticEndpointCompletion(turnMode)
       /\ Room!DraftIsSettled
    THEN Room!Draft ELSE {}

TranscriptSaved(t) ==
    LET s == tasks[t].of
        attempt == Len(segments[s].attempts)
    IN  /\ Admitted(t, "recordTranscript")
        /\ \/ /\ tasks[t].result = "candidate"
              /\ \E best \in 1..attempt : Room!RecordTranscriptCandidate(s, attempt, 1, best)
              /\ Publish
              /\ IF segments'[s].selected # segments[s].selected /\ s \in Evaluable'
                 THEN issues(t, "evaluate", s, "none") /\ UNCHANGED coordinator
                 ELSE Returns(t, coordinator)
           \/ /\ tasks[t].result = "failed"
              /\ Room!RecordTranscriptionFailed(s, attempt, "failed")
              /\ Publish /\ Ends(t, coordinator)
        /\ Frame

TranscriptRefused(t) ==
    /\ Refused(t, "recordTranscript", FALSE)
    /\ Ends(t, coordinator)
    /\ dropped' = TRUE /\ UNCHANGED <<recorder, sourceAudio, voice>>

TranscribeStep(t) ==
    \/ FinalizeSaved(t) \/ FinalizeRefused(t)
    \/ RecordCaptureSaved(t) \/ RecordCaptureRefused(t)
    \/ AuthorizeSaved(t) \/ AuthorizeRefused(t) \/ Transcribed(t)
    \/ TranscriptSaved(t) \/ TranscriptRefused(t)

-----------------------------------------------------------------------------
(* evaluateEndpointIfNeeded and activateEndpointGraceIfEligible *)

Question == IF Room!InterviewerTurns = {} THEN 0
            ELSE Cardinality({i \in DOMAIN turns :
                     \E q \in Room!InterviewerTurns : i <= q})

\* The same request, seen before, authorizes nothing and ends the operation.
EvaluateSaved(t) ==
    LET context == <<tasks[t].of, Room!Selected(Room!Draft), Question>>
    IN  /\ Admitted(t, "evaluate")
        /\ \/ /\ Room!AuthorizeEndpointEvaluation(tasks[t].of, Question, context)
              /\ await(t, tasks[t].op, "classifying", Len(endpointEvaluations'))
              /\ UNCHANGED coordinator
           \/ /\ \E e \in DOMAIN endpointEvaluations :
                     endpointEvaluations[e].context = context
              /\ NoRoomStep /\ Returns(t, coordinator)
        /\ Publish /\ Frame

\* Nothing from here on makes a stored transcript a failure.
EvaluateRefused(t) ==
    /\ Refused(t, "evaluate", Room!Authorized # {} \/ tasks[t].of \notin Evaluable)
    /\ Returns(t, coordinator) /\ Frame

Classified(t) ==
    /\ At(t, "classifying") /\ Settled
    /\ \E result \in {"likelyEnd", "likelyContinue"} \cup
                     (IF "providerFault" \in Offered THEN {"failed"} ELSE {}) :
           issues(t, "recordEvaluation", tasks[t].of, result)
    /\ NoRoomStep /\ UNCHANGED <<snapshot, coordinator>> /\ Frame

EvaluationSaved(t) ==
    LET e == tasks[t].of
        listening == armContinuousListeningIfNeeded(coordinator, snapshot')
    IN  /\ Admitted(t, "recordEvaluation")
        /\ \/ /\ tasks[t].result = "failed"
              /\ Room!RecordEndpointFailure(e) /\ Publish
              /\ Returns(t, coordinator)
           \/ /\ tasks[t].result # "failed"
              /\ Room!RecordEndpointProposal(e, tasks[t].result) /\ Publish
              /\ IF endpointEvaluations'[e].decision # "likelyEnd"
                 THEN Returns(t, coordinator)
                 ELSE IF Room!ActiveHold # {} \/ board.draft = "unsaved"
                 THEN Returns(t, listening)
                 ELSE issues(t, "activateGrace", e, "none") /\ UNCHANGED coordinator
        /\ Frame

EvaluationRefused(t) ==
    /\ Refused(t, "recordEvaluation", FALSE)
    /\ issues(t, "reconcileEvaluation", tasks[t].of, "none")
    /\ UNCHANGED coordinator /\ Frame

ReconcileEvaluationSaved(t) ==
    /\ Admitted(t, "reconcileEvaluation")
    /\ Room!RecordEndpointFailure(tasks[t].of) /\ Publish
    /\ Returns(t, coordinator) /\ Frame

ReconcileEvaluationRefused(t) ==
    /\ Refused(t, "reconcileEvaluation", FALSE)
    /\ Returns(t, coordinator)
    /\ dropped' = TRUE /\ UNCHANGED <<recorder, sourceAudio, voice>>

\* mutant: the grace is durable and nobody waits for it
ActivateGraceUnscheduled(t) ==
    /\ Admitted(t, "activateGrace")
    /\ Room!ActivateEndpointGrace(tasks[t].of) /\ Publish
    /\ Returns(t, coordinator) /\ Frame

ActivateGraceSaved(t) ==
    /\ Admitted(t, "activateGrace")
    /\ Room!ActivateEndpointGrace(tasks[t].of) /\ Publish
    /\ Returns(t, [coordinator EXCEPT !.grace = Len(endpointGraces')]) /\ Frame

ActivateGraceRefused(t) ==
    /\ Refused(t, "activateGrace",
           \/ Room!ActiveHold # {} \/ Room!Pending # {} \/ board.draft = "unsaved"
           \/ ~Room!isCurrentEndpointEvaluation(endpointEvaluations[tasks[t].of]))
    /\ Returns(t, coordinator) /\ Frame

EvaluateStep(t) ==
    \/ EvaluateSaved(t) \/ EvaluateRefused(t) \/ Classified(t)
    \/ EvaluationSaved(t) \/ EvaluationRefused(t)
    \/ ReconcileEvaluationSaved(t) \/ ReconcileEvaluationRefused(t)
    \/ ActivateGraceSaved(t) \/ ActivateGraceRefused(t)

-----------------------------------------------------------------------------
(* The grace runs out: completeScheduledGrace *)

\* A draft edited meanwhile has cancelled the grace, so the board still has
\* its attachment whenever the grace is pending.
GraceRunsOut ==
    /\ Launched /\ Settled /\ tasks["timer"] = idle /\ coordinator.grace # 0
    /\ coordinator' = cancelScheduledGrace(coordinator)
    /\ IF coordinator.grace \in snapshot.pending
       THEN issue("timer", "grace", "complete", coordinator.grace, "none")
       ELSE UNCHANGED tasks
    /\ NoRoomStep /\ UNCHANGED snapshot /\ Frame

CompleteSaved ==
    /\ Admitted("timer", "complete")
    /\ Room!CompleteEndpointGrace(tasks["timer"].of)
    /\ tasks' = [tasks EXCEPT !["timer"].stage = "replying"]
    /\ UNCHANGED <<snapshot, coordinator>> /\ Frame

\* mutant: a completion that was refused is not reconciled
CompleteForgotten ==
    /\ Refused("timer", "complete",
           ~Room!isCurrentEndpointEvaluation(
               endpointEvaluations[endpointGraces[tasks["timer"].of].evaluation]))
    /\ Ends("timer", cancelScheduledGrace(coordinator))
    /\ Frame

CompleteRefused ==
    LET g == tasks["timer"].of
    IN  /\ At("timer", "complete")
        /\ Refused("timer", "complete", ~Room!isCurrentEndpointEvaluation(
                       endpointEvaluations[endpointGraces[g].evaluation]))
        /\ IF g \in Room!Pending
           THEN issues("timer", "reconcileGrace", g, "none") /\ UNCHANGED coordinator
           ELSE Ends("timer", cancelScheduledGrace(coordinator))
        /\ Frame

ReconcileGraceSaved ==
    /\ Admitted("timer", "reconcileGrace")
    /\ Room!CancelEndpointGrace(tasks["timer"].of) /\ Publish
    /\ Ends("timer", cancelScheduledGrace(coordinator)) /\ Frame

ReconcileGraceRefused ==
    /\ Refused("timer", "reconcileGrace", tasks["timer"].of \notin Room!Pending)
    /\ Ends("timer", cancelScheduledGrace(coordinator))
    /\ dropped' = TRUE /\ UNCHANGED <<recorder, sourceAudio, voice>>

GraceStep ==
    \/ GraceRunsOut \/ CompleteSaved \/ CompleteRefused
    \/ ReconcileGraceSaved \/ ReconcileGraceRefused

-----------------------------------------------------------------------------
(* Hand off by hand, and the interviewer's reply every hand off awaits *)

\* The manifest is already handed over; only the reply publishes it.
HandOffSaved ==
    /\ \/ Admitted("user", "send") /\ Room!SendAnswer
       \/ Admitted("user", "handOff") /\ Room!HandOffSegments
       \/ Admitted("user", "retry") /\ Room!RetryInterviewerResponse
    /\ tasks' = [tasks EXCEPT !["user"].stage = "replying"]
    /\ UNCHANGED <<snapshot, coordinator>> /\ Frame

HandOffRefused ==
    /\ \/ Refused("user", "send",
              ~Room!DraftIsSettled \/ Room!ActiveHold = {} \/ phase # "candidateFloor"
              \/ turnMode # "continuousConversation")
       \/ Refused("user", "handOff",
              ~Room!DraftIsSettled \/ Room!ActiveHold # {} \/ phase # "candidateFloor")
       \/ Refused("user", "retry", phase # "interviewerProcessing")
    /\ Ends("user", coordinator) /\ Frame

\* Send and Hand off then stop listening; the grace's own hand off does not.
Replied(t) ==
    /\ At(t, "replying") /\ Settled
    /\ Room!InterviewerResponds /\ Publish
    /\ tasks' = [tasks EXCEPT ![t] = idle]
    /\ coordinator' = IF tasks[t].op \in {"send", "handOff"}
                      THEN disarm(cancelScheduledGrace(coordinator))
                      ELSE IF t = "timer" THEN cancelScheduledGrace(coordinator)
                      ELSE coordinator
    /\ voice' = "due"
    /\ UNCHANGED <<recorder, sourceAudio, dropped>>

ReplyFails(t) ==
    /\ At(t, "replying") /\ Settled /\ "providerFault" \in Offered
    /\ Room!InterviewerFails /\ Publish
    /\ tasks' = [tasks EXCEPT ![t] = idle]
    /\ coordinator' = IF t = "timer" THEN cancelScheduledGrace(coordinator) ELSE coordinator
    /\ Frame

-----------------------------------------------------------------------------
(* The room's other operations: one command each *)

\* mutant: the floor is given and nobody listens to it
FloorSavedDeaf(t) ==
    /\ Admitted(t, "floor")
    /\ Room!GiveCandidateFloor /\ Publish
    /\ Ends(t, coordinator) /\ Frame

FloorSaved(t) ==
    /\ Admitted(t, "floor")
    /\ Room!GiveCandidateFloor /\ Publish
    /\ LET listening == armContinuousListeningIfNeeded(coordinator, snapshot')
       IN  /\ coordinator' = listening
           /\ IF /\ tasks[t].op = "bargeIn" /\ Len(segments) < MaxSegments
                 /\ canBeginContinuousSegment(snapshot')
              THEN issues(t, "begin", 0, "none")
              ELSE tasks' = [tasks EXCEPT ![t] = idle]
    /\ Frame

\* The end of playback re-arms even so; a barge-in is given up.
FloorRefused(t) ==
    /\ Refused(t, "floor", phase \notin {"ready", "interviewerTurn"})
    /\ tasks' = [tasks EXCEPT ![t] = idle]
    /\ coordinator' = IF t = "playback" THEN armContinuousListeningIfNeeded(coordinator, snapshot')
                      ELSE coordinator
    /\ Frame

ModeSaved ==
    LET m == tasks["user"].result
        inactive == cancelScheduledGraceIfInactive(coordinator, snapshot')
    IN  /\ Admitted("user", "mode")
        /\ Room!SetTurnMode(m) /\ Publish
        /\ Ends("user", IF m = "continuousConversation"
                        THEN armContinuousListeningIfNeeded(inactive, snapshot')
                        ELSE disarm([inactive EXCEPT !.wantsContinuousListening = FALSE]))
        /\ Frame

HoldSaved ==
    /\ Admitted("user", "hold")
    /\ Room!ActivateFloorHold /\ Publish
    /\ Ends("user", armContinuousListeningIfNeeded(
                        cancelScheduledGraceIfInactive(coordinator, snapshot'), snapshot'))
    /\ Frame

KeepFloorSaved ==
    /\ Admitted("user", "cancelGrace")
    /\ Room!CancelEndpointGrace(tasks["user"].of) /\ Publish
    /\ Ends("user", cancelScheduledGrace(coordinator)) /\ Frame

ExcludeSaved ==
    /\ Admitted("user", "exclude")
    /\ Room!ExcludeSegment(tasks["user"].of) /\ Publish
    /\ Ends("user", coordinator) /\ Frame

FinishSaved ==
    /\ Admitted("user", "finish")
    /\ Room!Finish /\ Publish
    /\ Ends("user", disarm([cancelScheduledGrace(coordinator) EXCEPT
                               !.wantsContinuousListening = FALSE]))
    /\ Frame

DeskSaved ==
    /\ \/ Admitted("desk", "note") /\ Room!UpdateCandidateNotes
       \/ Admitted("desk", "draft") /\ Room!UpdateBoardDraft("unsaved")
       \/ Admitted("desk", "export") /\ NoRoomStep
    /\ Publish
    /\ Ends("desk", IF tasks["desk"].stage = "export" THEN coordinator
                    ELSE cancelScheduledGraceIfInactive(coordinator, snapshot'))
    /\ Frame

CommandRefused(t) ==
    /\ \/ Refused(t, "mode", phase = "completed")
       \/ Refused(t, "hold", Room!ActiveHold # {} \/ phase # "candidateFloor"
                             \/ turnMode # "continuousConversation")
       \/ Refused(t, "cancelGrace", tasks[t].of \notin Room!Pending)
       \/ Refused(t, "exclude", FALSE)
       \/ Refused(t, "finish", \E s \in DOMAIN segments : Room!isInFlightCapture(segments[s]))
       \/ Refused(t, "note", phase = "completed")
       \/ Refused(t, "draft", phase = "completed")
       \/ Refused(t, "export", FALSE)
    /\ Ends(t, coordinator) /\ Frame

RoomReturn ==
    \/ HandOffSaved \/ HandOffRefused
    \/ \E t \in {"user", "timer"} : Replied(t) \/ ReplyFails(t)
    \/ \E t \in {"user", "acoustic", "playback"} : FloorSaved(t) \/ FloorRefused(t)
    \/ ModeSaved \/ HoldSaved \/ KeepFloorSaved \/ ExcludeSaved \/ FinishSaved \/ DeskSaved
    \/ \E t \in {"user", "desk"} : CommandRefused(t)

-----------------------------------------------------------------------------
(* The room starts an operation *)

Idle(op) ==
    /\ Launched /\ Settled /\ tasks["user"] = idle /\ op \in Offered
    /\ NoRoomStep /\ UNCHANGED snapshot

\* Every operation but Pause waits until notes and board are saved.
hasPendingLocalPersistence == tasks["desk"].stage \in {"note", "draft"}
Starts(op) == Idle(op) /\ ~hasPendingLocalPersistence

draftSegments == {s \in DOMAIN snapshot.segments : snapshot.segments[s].committedTurn = 0}
hasAnswer ==
    LET included == {s \in draftSegments : snapshot.segments[s].lifecycle # "excluded"}
    IN  included # {} /\ \A s \in included : snapshot.segments[s].selected # 0

\* In Continuous Conversation a segment to recover brings the manual controls
\* back in place of Hold floor and Pause.
showsManualCaptureRecovery ==
    /\ snapshot.turnMode = "continuousConversation"
    /\ \E s \in draftSegments :
           \/ snapshot.segments[s].lifecycle = "failed"
           \/ snapshot.segments[s].lifecycle = "audioReady" /\ snapshot.segments[s].selected = 0
showsHoldFloorControl ==
    /\ snapshot.phase = "candidateFloor" /\ snapshot.turnMode = "continuousConversation"
    /\ ~showsManualCaptureRecovery
showsManualControls ==
    snapshot.phase = "candidateFloor" /\ ~showsHoldFloorControl

\* finalizeActiveSegment, unless a finalization is already under way
Finalizes(t, op, s, result) ==
    ~isFinalizing /\ issue(t, op, "finalize", s, result)

StartCapture ==
    \/ /\ Starts("record")
       /\ showsManualControls /\ Len(segments) < MaxSegments
       /\ canBeginContinuousSegment(snapshot)
       /\ issue("user", "record", "begin", 0, "none")
    \/ /\ Starts("stop")
       /\ \E s \in activeIn(snapshot) :
              Finalizes("user", "stop", s, IF snapshot.segments[s].lifecycle = "recording"
                                           THEN "none" ELSE "recovering")
    \/ /\ Starts("transcribe")
       /\ \E s \in DOMAIN snapshot.segments :
              LET seg == snapshot.segments[s]
              IN  /\ seg.lifecycle \in {"audioReady", "transcribed"}
                  /\ seg.audio = "clear" /\ seg.committedTurn = 0
                  /\ Len(seg.attempts) < MaxAttempts
                  /\ issue("user", "transcribe", "authorize", s, "none")
    \/ /\ Starts("exclude")
       /\ \E s \in DOMAIN snapshot.segments :
              /\ ~isInFlight(snapshot.segments[s])
              /\ snapshot.segments[s].committedTurn = 0
              /\ snapshot.segments[s].lifecycle # "excluded"
              /\ issue("user", "exclude", "exclude", s, "none")

\* Send answer finalizes and transcribes what is still recording first: a
\* precaution of the coordinator's, the room only offers it a complete answer.
StartFloor ==
    \/ /\ Starts("hold")
       /\ showsHoldFloorControl /\ snapshot.holds = {} /\ Len(floorHolds) < MaxHolds
       /\ issue("user", "hold", "hold", 0, "none")
    \/ /\ Starts("send")
       /\ showsHoldFloorControl /\ snapshot.holds # {} /\ board.draft # "unsaved"
       /\ IF activeIn(snapshot) = {} \/ isFinalizing
          THEN issue("user", "send", "send", 0, "none")
          ELSE \E s \in activeIn(snapshot) : Finalizes("user", "send", s, "none")
    \/ /\ Starts("handOff")
       /\ showsManualControls /\ hasAnswer /\ board.draft # "unsaved"
       /\ issue("user", "handOff", "handOff", 0, "none")
    \/ /\ Starts("retry")
       /\ snapshot.phase = "interviewerProcessing"
       /\ issue("user", "retry", "retry", 0, "none")
    \/ /\ Starts("keepFloor")
       /\ \E g \in snapshot.pending : issue("user", "keepFloor", "cancelGrace", g, "none")
    \/ /\ Starts("giveFloor")
       /\ snapshot.phase = "interviewerTurn" /\ Len(turns) + 1 < MaxTurns
       /\ await("user", "giveFloor", "stopping", 0)

StartMode ==
    \/ /\ Starts("manual")
       /\ snapshot.turnMode = "continuousConversation" /\ snapshot.phase # "completed"
       /\ issue("user", "mode", "mode", 0, "manual")
    \/ /\ Starts("continuous")
       /\ snapshot.turnMode = "manual" /\ snapshot.phase # "completed"
       /\ issue("user", "mode", "mode", 0, "continuousConversation")
    \/ /\ Starts("finish")
       /\ snapshot.phase # "completed"
       /\ ~\E s \in DOMAIN snapshot.segments : Room!isInFlightCapture(snapshot.segments[s])
       /\ issue("user", "finish", "finish", 0, "none")

\* Offered while nothing records: Stop takes its place when something does.
Pause ==
    /\ Idle("pause") /\ showsHoldFloorControl /\ activeIn(snapshot) = {}
    /\ coordinator' = disarm([coordinator EXCEPT !.wantsContinuousListening = FALSE])
    /\ UNCHANGED tasks /\ Frame

StartDesk ==
    /\ Launched /\ Settled /\ tasks["desk"] = idle /\ NoRoomStep /\ UNCHANGED snapshot
    /\ snapshot.phase # "completed"
    /\ \/ "notes" \in Offered /\ issue("desk", "desk", "note", 0, "none")
       \/ /\ "draft" \in Offered /\ board.draft # "unsaved"
          /\ issue("desk", "desk", "draft", 0, "none")
       \/ "export" \in Offered /\ issue("desk", "desk", "export", 0, "none")

RoomStart ==
    \/ (StartCapture \/ StartFloor \/ StartMode \/ StartDesk) /\ UNCHANGED coordinator /\ Frame
    \/ Pause

-----------------------------------------------------------------------------
(* The acoustic segmenter and handleAcousticEvent *)

shouldHandleBargeIn ==
    /\ snapshot.turnMode = "continuousConversation"
    /\ coordinator.wantsContinuousListening
    /\ coordinator.armed = "bargeInDetection" \/ snapshot.phase = "interviewerTurn"

\* An event that finds the handler busy is dropped.
SpeechStarts ==
    /\ Launched /\ Settled /\ coordinator.armed # "disarmed" /\ ~coordinator.isSpeechActive
    /\ Len(segments) < MaxSegments
    /\ coordinator' = [coordinator EXCEPT !.isSpeechActive = TRUE]
    /\ IF tasks["acoustic"] # idle THEN UNCHANGED tasks
       ELSE IF shouldHandleBargeIn THEN await("acoustic", "bargeIn", "stopping", 0)
       ELSE IF /\ snapshot.turnMode = "continuousConversation"
               /\ snapshot.phase = "candidateFloor"
               /\ canBeginContinuousSegment(snapshot)
       THEN issue("acoustic", "speechStarted", "begin", 0, "none")
       ELSE UNCHANGED tasks
    /\ NoRoomStep /\ UNCHANGED snapshot /\ Frame

\* Barge-in detection never reports the end of speech.
SpeechEnds ==
    LET quiet == [coordinator EXCEPT !.isSpeechActive = FALSE]
        ending == {s \in activeIn(snapshot) :
                      snapshot.segments[s].lifecycle \in {"captureAuthorized", "recording"}}
    IN  /\ Launched /\ Settled /\ coordinator.armed = "candidateListening" /\ coordinator.isSpeechActive
        /\ IF tasks["acoustic"] # idle THEN UNCHANGED tasks /\ coordinator' = quiet
           ELSE IF ending = {} \/ isFinalizing
           THEN UNCHANGED tasks
                /\ coordinator' = armContinuousListeningIfNeeded(quiet, snapshot)
           ELSE /\ \E s \in ending : issue("acoustic", "speechEnded", "finalize", s, "none")
                /\ coordinator' = quiet
        /\ NoRoomStep /\ UNCHANGED snapshot /\ Frame

-----------------------------------------------------------------------------
(* Interviewer playback (InterviewerSpeechCoordinator) *)

PlaybackStarts ==
    /\ Launched /\ Settled
    /\ voice = "due" \/ (voice = "quiet" /\ "replay" \in Offered)
    /\ voice' = "playing"
    /\ coordinator' = IF /\ coordinator.wantsContinuousListening
                         /\ snapshot.turnMode = "continuousConversation"
                      THEN arm(coordinator, "bargeInDetection") ELSE coordinator
    /\ NoRoomStep /\ UNCHANGED <<snapshot, tasks, recorder, sourceAudio, dropped>>

\* noteInterviewerPlaybackFinished: played to its end, or never to be played
PlaybackFinishes ==
    /\ Launched /\ Settled /\ voice # "quiet" /\ tasks["playback"] = idle
    /\ voice' = "quiet"
    /\ IF /\ ~isHandlingBargeIn
          /\ coordinator.wantsContinuousListening
          /\ snapshot.turnMode = "continuousConversation"
       THEN IF snapshot.phase \in {"interviewerTurn", "ready"} /\ Len(turns) + 1 < MaxTurns
            THEN issue("playback", "playback", "floor", 0, "none") /\ UNCHANGED coordinator
            ELSE /\ coordinator' = armContinuousListeningIfNeeded(coordinator, snapshot)
                 /\ UNCHANGED tasks
       ELSE UNCHANGED <<tasks, coordinator>>
    /\ NoRoomStep /\ UNCHANGED <<snapshot, recorder, sourceAudio, dropped>>

\* mutant: the stopper waits for a playback that may not have begun
PlaybackStoppedOnceBegun(t) ==
    /\ At(t, "stopping") /\ voice = "playing"
    /\ voice' = "quiet"
    /\ tasks' = [tasks EXCEPT ![t] = idle]
    /\ UNCHANGED coordinator
    /\ NoRoomStep /\ UNCHANGED <<snapshot, recorder, sourceAudio, dropped>>

\* The stopper returned or threw; either way the player is silent, and the
\* barge-in goes on to the floor and then to the segment.
PlaybackStopped(t) ==
    /\ At(t, "stopping")
    /\ voice' = "quiet"
    /\ IF snapshot.phase \in {"interviewerTurn", "ready"} /\ Len(turns) + 1 < MaxTurns
       THEN issues(t, "floor", 0, "none")
       ELSE IF /\ t = "acoustic" /\ snapshot.phase = "candidateFloor"
               /\ canBeginContinuousSegment(snapshot) /\ Len(segments) < MaxSegments
       THEN issues(t, "begin", 0, "none")
       ELSE tasks' = [tasks EXCEPT ![t] = idle]
    /\ UNCHANGED coordinator
    /\ NoRoomStep /\ UNCHANGED <<snapshot, recorder, sourceAudio, dropped>>

\* handleUnexpectedTermination
RecorderStops ==
    /\ Launched /\ Settled /\ "captureFault" \in Offered /\ recorder.state = "on"
    /\ recorder' = [recorder EXCEPT !.state = "dead"]
    /\ IF /\ ~isFinalizing /\ tasks["recorder"] = idle
          /\ \E s \in activeIn(snapshot) : snapshot.segments[s].lifecycle = "recording"
       THEN \E s \in activeIn(snapshot) : issue("recorder", "recorder", "finalize", s, "none")
       ELSE UNCHANGED tasks
    /\ NoRoomStep /\ UNCHANGED <<snapshot, coordinator, sourceAudio, voice, dropped>>

AudioStep ==
    \/ SpeechStarts \/ SpeechEnds \/ PlaybackStarts \/ PlaybackFinishes
    \/ \E t \in {"user", "acoustic"} : PlaybackStopped(t)
    \/ RecorderStops

-----------------------------------------------------------------------------
(* The process, killed at any point, and resumePendingWork *)

Crash ==
    /\ "crash" \in Offered
    /\ Room!Crash
    /\ tasks' = [t \in Task |-> idle]
    /\ coordinator' = [wantsContinuousListening |-> FALSE, armed |-> "disarmed",
                       isSpeechActive |-> FALSE, grace |-> 0]
    /\ recorder' = [segment |-> 0, state |-> "off"]
    /\ sourceAudio' \in {sourceAudio, sourceAudio \cup ({recorder.segment} \ {0})}
    /\ voice' = "quiet" /\ dropped' = FALSE
    /\ UNCHANGED snapshot

\* What is left to reconcile, in the order it is
Interrupted(command, of) ==
    \/ command = "resumeGrace" /\ of \in Room!Pending
    \/ /\ command = "resumeAttempt" /\ Room!Pending = {}
       /\ of \in DOMAIN segments /\ segments[of].lifecycle = "transcribing"
    \/ /\ command = "resumeEvaluation" /\ Room!Pending = {} /\ NoAttemptInFlight
       /\ of \in Room!Authorized
    \/ /\ command = "resumeCapture" /\ Room!Pending = {} /\ NoAttemptInFlight
       /\ Room!Authorized = {} /\ of \in Room!ActiveSegments

Resumable == {"resumeGrace", "resumeAttempt", "resumeEvaluation", "resumeCapture"}
             \X (DOMAIN segments \cup DOMAIN endpointEvaluations \cup DOMAIN endpointGraces)

\* The room then listens, whether resuming succeeded or threw.
OpensRoom ==
    /\ tasks' = [tasks EXCEPT !["user"] = idle]
    /\ coordinator' = armContinuousListeningIfNeeded(
           [coordinator EXCEPT !.wantsContinuousListening =
               (turnMode' = "continuousConversation")], snapshot')

\* mutant: an interrupted evaluation is not looked for
ResumesSkippingEvaluations ==
    \/ \E work \in Resumable' :
           /\ work[1] # "resumeEvaluation" /\ Interrupted(work[1], work[2])'
           /\ issue("user", "resume", work[1], work[2], "none")
           /\ UNCHANGED coordinator
    \/ /\ \A work \in Resumable' : work[1] = "resumeEvaluation"
                                  \/ ~Interrupted(work[1], work[2])'
       /\ OpensRoom

Resumes ==
    \/ \E work \in Resumable' :
           /\ Interrupted(work[1], work[2])'
           /\ issue("user", "resume", work[1], work[2], "none")
           /\ UNCHANGED coordinator
    \/ /\ \A work \in Resumable' : ~Interrupted(work[1], work[2])'
       /\ OpensRoom

Relaunch ==
    /\ Room!Relaunch /\ Publish
    /\ IF process' = "running" THEN Resumes ELSE UNCHANGED <<tasks, coordinator>>
    /\ Frame

\* mutant: a recovered recording is reported as lost
ResumeSavedLosingAudio ==
    LET of == tasks["user"].of
    IN  \/ /\ Admitted("user", "resumeCapture") /\ Room!FinalizeSegment(of) /\ Publish
           /\ issues("user", "resumeOutcome", of, "none") /\ UNCHANGED coordinator /\ Frame
        \/ /\ Admitted("user", "resumeOutcome") /\ Room!RecordCaptureFailed(of)
           /\ Publish /\ Resumes /\ Frame

ResumeSaved ==
    LET of == tasks["user"].of
    IN  /\ \/ Admitted("user", "resumeGrace") /\ Room!CancelEndpointGrace(of)
           \/ /\ Admitted("user", "resumeAttempt")
              /\ Room!RecordTranscriptionFailed(of, Len(segments[of].attempts), "failed")
           \/ Admitted("user", "resumeEvaluation") /\ Room!RecordEndpointFailure(of)
           \/ Admitted("user", "resumeCapture") /\ Room!FinalizeSegment(of)
           \/ /\ Admitted("user", "resumeOutcome")
              /\ IF of \in sourceAudio THEN Room!RecordCaptureFinalized(of, "clear")
                 ELSE Room!RecordCaptureFailed(of)
        /\ Publish
        /\ IF tasks["user"].stage = "resumeCapture"
           THEN issues("user", "resumeOutcome", of, "none") /\ UNCHANGED coordinator
           ELSE Resumes
        /\ Frame

ResumeRefused ==
    /\ \E command \in {"resumeGrace", "resumeAttempt", "resumeEvaluation", "resumeCapture",
                       "resumeOutcome"} : Refused("user", command, FALSE)
    /\ OpensRoom
    /\ dropped' = TRUE /\ UNCHANGED <<recorder, sourceAudio, voice>>

ProcessStep == Crash \/ Relaunch \/ ResumeSaved \/ ResumeRefused

Next ==
    \/ \E t \in {"user", "acoustic"} : BeginStep(t) \/ EvaluateStep(t)
    \/ \E t \in {"user", "acoustic", "recorder"} : TranscribeStep(t)
    \/ GraceStep \/ RoomReturn \/ RoomStart \/ AudioStep \/ ProcessStep

Spec == Init /\ [][Next]_vars

-----------------------------------------------------------------------------
(* Fairness: what is awaited returns, however often a refused command is on    *)
(* its way back meanwhile (Settled), hence SF.  Nobody owes the room an        *)
(* operation, the candidate a word, the process a crash or a relaunch.         *)

Awaits(t) ==
    \/ t \in {"user", "acoustic"} /\ (BeginStep(t) \/ EvaluateStep(t) \/ PlaybackStopped(t))
    \/ t \in {"user", "acoustic", "recorder"} /\ TranscribeStep(t)
    \/ t = "timer" /\ (CompleteSaved \/ CompleteRefused \/ ReconcileGraceSaved
                        \/ ReconcileGraceRefused)
    \/ t \in {"user", "timer"} /\ (Replied(t) \/ ReplyFails(t))
    \/ t \in {"user", "acoustic", "playback"} /\ (FloorSaved(t) \/ FloorRefused(t))
    \/ t = "user" /\ (HandOffSaved \/ HandOffRefused \/ ModeSaved \/ HoldSaved
                       \/ KeepFloorSaved \/ ExcludeSaved \/ FinishSaved
                       \/ ResumeSaved \/ ResumeRefused)
    \/ t = "desk" /\ DeskSaved
    \/ t \in {"user", "desk"} /\ CommandRefused(t)

FairSpec ==
    /\ Spec
    /\ \A t \in Task : SF_vars(Awaits(t))
    /\ SF_vars(GraceRunsOut) /\ SF_vars(PlaybackFinishes)

-----------------------------------------------------------------------------
(* Properties *)

TypeOK ==
    /\ Room!TypeOK
    /\ tasks \in [Task -> [op : Operations, stage : Commands \cup Waits, of : Nat,
                         result : Results, admitted : BOOLEAN]]
    /\ coordinator \in Coordinator
    /\ recorder \in [segment : 0..MaxSegments, state : {"off", "starting", "on", "dead"}]
    /\ recorder.segment = 0 <=> recorder.state = "off"
    /\ sourceAudio \subseteq 1..MaxSegments
    /\ voice \in {"quiet", "due", "playing"}
    /\ dropped \in BOOLEAN

\* The microphone records only for a segment the manifest holds open, on the
\* candidate's floor, whatever throws between beginSegment's authorization and
\* the stop of finalizeActiveSegment.
MicrophoneIsAuthorized ==
    Running /\ recorder.segment # 0 =>
        /\ recorder.segment \in Room!ActiveSegments
        /\ phase = "candidateFloor"

\* A microphone that is on is recording in the manifest, or a task is about to
\* make it so or to stop it, as long as the recorder stops when it is told to.
HotMicrophoneIsOwned ==
    "captureFault" \notin Offered /\ Launched /\ recorder.segment # 0 =>
        \/ segments[recorder.segment].lifecycle = "recording"
        \/ \E t \in Task : tasks[t].of = recorder.segment /\ tasks[t].stage \in
                           {"capturing", "started", "preserve", "finalize"}

\* Whatever the manifest says is under way somebody in the process is waiting
\* for, unless the outcome could not be saved: there is no orphan for the next
\* launch to find that this one made.
InFlightWorkIsOwned ==
    Launched /\ ~dropped =>
        /\ \A s \in DOMAIN segments :
               /\ segments[s].lifecycle = "transcribing" =>
                      \E t \in Task : tasks[t].of = s /\ tasks[t].stage \in
                                      {"transcribing", "recordTranscript"}
               /\ segments[s].lifecycle = "captureAuthorized" =>
                      \E t \in Task : tasks[t].of = s /\ tasks[t].stage \in
                                      {"capturing", "started", "captureFailed", "preserve",
                                       "finalize"}
        /\ \A e \in Room!Authorized :
               \E t \in Task : tasks[t].of = e /\ tasks[t].stage \in
                               {"classifying", "recordEvaluation", "reconcileEvaluation"}
        /\ \A g \in Room!Pending :
               \/ coordinator.grace = g
               \/ tasks["timer"].of = g /\ tasks["timer"].stage \in {"complete", "reconcileGrace"}

\* Speech that reached the disk is never given up as a failed capture, even
\* when the process dies between starting the recorder and recording that it
\* started.
RecordedSpeechIsKept ==
    \A s \in sourceAudio : segments[s].lifecycle = "failed" => segments[s].audio # "none"

\* A resumePendingWork that saved its every step leaves no grace, attempt,
\* evaluation or capture of the process before it behind.
ResumeSettles ==
    [][ ~Launched /\ Launched' /\ ~dropped'
        => \A work \in Resumable' : ~Interrupted(work[1], work[2])' ]_vars

AllIdle == \A t \in Task : tasks[t] = idle

\* When nothing is under way, nothing plays and the room means to listen, an
\* open floor is listened to: armContinuousListeningIfNeeded is called wherever
\* an operation may have made listening possible.
FloorIsHeard ==
    /\ Launched /\ AllIdle /\ voice = "quiet" /\ ~dropped
    /\ coordinator.wantsContinuousListening
    /\ phase = "candidateFloor" /\ turnMode = "continuousConversation"
    /\ canBeginContinuousSegment(snapshot)
    => coordinator.armed = "candidateListening"

\* The four seconds of grace end: in the next turn or in the candidate's own.
GraceResolves == (Room!Pending # {}) ~> (Room!Pending = {} \/ ~Running)

\* Every operation begun comes to an end, though commands are refused around it
\* and interviewer playback is stopped before it begins.
TasksFinish == \A t \in Task : (tasks[t] # idle) ~> (tasks[t] = idle)

(* What the documents say, and the code does not do *)

\* A grace does not end a turn over a candidate who is speaking: speech that
\* resumes within the four seconds cancels it (handleAcousticEvent drops a
\* speechStarted that comes while it still transcribes the previous segment).
GraceYieldsToSpeech ==
    [][ tasks["timer"].stage = "idle" /\ tasks'["timer"].stage = "complete"
        => ~(coordinator.isSpeechActive /\ tasks["acoustic"] = idle) ]_vars
=============================================================================
