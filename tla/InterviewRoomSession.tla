------------------------ MODULE InterviewRoomSession ------------------------
(***************************************************************************)
(* One Interview Room session: the InterviewRoomSession actor and the      *)
(* Session Manifest it owns (InterviewRoomSession.swift).                  *)
(*                                                                         *)
(* The actor applies one command at a time, saves the next manifest before *)
(* any side effect, and calls the interviewer provider with the command    *)
(* still in flight.  The manifest is durable; `provider' is not.  A save   *)
(* that throws leaves the manifest as it was, so it is a stuttering step.  *)
(* A command replayed under its own CommandID is one too: receipts are the *)
(* subject of module SessionCommandLog.                                    *)
(*                                                                         *)
(* Identities derive from unique command IDs in the code.  Here a segment  *)
(* is its ordinal, a turn its position (0 for nil), an evaluation, grace   *)
(* or hold its position in its history, and a transcript candidate the     *)
(* pair <<segment, attempt>>: an attempt stores at most one candidate.     *)
(***************************************************************************)
EXTENDS Integers, Sequences, FiniteSets

CONSTANTS
    TurnModesOffered, \* the turn modes the room lets the candidate pick
    DraftsOffered,    \* what the board draft may become: empty, saved, unsaved
    Credentials,      \* fingerprints of transcription keys
    Contexts,         \* fingerprints of classifier requests
    MaxRank,          \* ranks 1..MaxRank of a transcript: quality, words, characters
    MaxSegments, MaxAttempts, MaxTurns, MaxHolds  \* bounds on the histories

TurnMode == {"cueOnly", "patientAuto", "manual", "continuousConversation"}

ASSUME ModesAssumption == TurnModesOffered \subseteq TurnMode
ASSUME DraftsAssumption == DraftsOffered \subseteq {"empty", "saved", "unsaved"}
ASSUME BoundsAssumption ==
    /\ MaxRank \in Nat /\ MaxSegments \in Nat /\ MaxAttempts \in Nat
    /\ MaxTurns \in Nat /\ MaxHolds \in Nat

VARIABLES
    phase, turnMode, turns, segments,   \* the manifest: conversation and speech
    endpointEvaluations, endpointGraces, floorHolds,  \* ... its floor policy
    board,                              \* ... what its draft board would attach
    provider,                           \* the provider call the actor awaits
    process                             \* is the application running

manifest == <<phase, turnMode, turns, segments, endpointEvaluations,
              endpointGraces, floorHolds, board>>
vars == <<phase, turnMode, turns, segments, endpointEvaluations,
          endpointGraces, floorHolds, board, provider, process>>

-----------------------------------------------------------------------------
(* The manifest's value types *)

Phase == {"ready", "candidateFloor", "interviewerProcessing",
          "interviewerTurn", "completed"}

CandidateSegmentLifecycle ==
    {"captureAuthorized", "recording", "finalizationAuthorized", "audioReady",
     "transcribing", "transcribed", "failed", "excluded"}

\* capturedAudio: nil, playable, playable with insufficientSignal, not playable
CapturedAudio == {"none", "clear", "insufficientSignal", "unplayable"}

\* "rejected" is a failed attempt whose reason is credentialRejected
Attempt == [state : {"authorized", "candidateStored", "failed", "rejected"},
            key   : Credentials,
            rank  : Nat]

CandidateSegment ==
    [lifecycle     : CandidateSegmentLifecycle,
     audio         : CapturedAudio,
     attempts      : Seq(Attempt),
     selected      : Nat,    \* the attempt that stored the selected candidate
     committedTurn : Nat]

CandidateID == Nat \X Nat

Turn == [role       : {"candidate", "interviewer"},
         segments   : SUBSET Nat,
         transcript : SUBSET CandidateID, \* candidates whose bodies were joined
         replyTo    : Nat]

EndpointEvaluation ==
    [trigger   : Nat,
     evidence  : SUBSET CandidateID,
     question  : Nat,
     context   : Contexts,
     lifecycle : {"authorized", "proposalStored", "failed"},
     decision  : {"none", "likelyEnd", "likelyContinue", "ambiguous"}]

EndpointGrace ==
    [evaluation : Nat,
     evidence   : SUBSET CandidateID,
     lifecycle  : {"pending", "cancelled", "completed"},
     turn       : Nat]

FloorHold == [lifecycle : {"active", "released"}, turn : Nat]

\* BoardHandoffAttachmentPolicy attaches nothing for an empty draft, the latest
\* revision for a draft equal to it, and gives nil for a draft nobody saved.
\* `revised': the latest revision exists and is not empty.
BoardWorkspace == {b \in [draft : {"empty", "saved", "unsaved"}, revised : BOOLEAN] :
                      b.draft = "saved" => b.revised}

-----------------------------------------------------------------------------
(* What the actor reads off the manifest *)

usesAutomaticEndpointCompletion(m) == m \in {"patientAuto", "continuousConversation"}

isActiveSegment(seg) ==
    seg.lifecycle \in {"captureAuthorized", "recording", "finalizationAuthorized"}

isInFlightCapture(seg) == isActiveSegment(seg) \/ seg.lifecycle = "transcribing"

ActiveSegments == {s \in DOMAIN segments : isActiveSegment(segments[s])}
Uncommitted == {s \in DOMAIN segments : segments[s].committedTurn = 0}
Excluded    == {s \in DOMAIN segments : segments[s].lifecycle = "excluded"}
Draft       == Uncommitted \ Excluded
Selected(S) == {<<s, segments[s].selected>> : s \in {r \in S : segments[r].selected # 0}}

\* currentEndpointCandidateIDs throws unless the draft is settled
DraftIsSettled ==
    /\ Draft # {}
    /\ \A s \in Draft : ~isInFlightCapture(segments[s]) /\ segments[s].selected # 0

InterviewerTurns == {i \in DOMAIN turns : turns[i].role = "interviewer"}

isLatestInterviewerTurn(question) ==
    /\ question = 0 => InterviewerTurns = {}
    /\ question # 0 => question \in InterviewerTurns
    /\ \A i \in InterviewerTurns : i <= question

isCurrentEndpointEvaluation(ev) ==
    /\ phase = "candidateFloor"
    /\ usesAutomaticEndpointCompletion(turnMode)
    /\ isLatestInterviewerTurn(ev.question)
    /\ DraftIsSettled
    /\ Selected(Draft) = ev.evidence
    /\ ev.trigger \in Draft
    /\ <<ev.trigger, segments[ev.trigger].selected>> \in ev.evidence

\* mutant: the newest candidate wins
isNewestCandidate(attempts, best) ==
    /\ attempts[best].state = "candidateStored"
    /\ \A i \in DOMAIN attempts : attempts[i].state = "candidateStored" => i <= best

\* the highest rank, and the earliest of equals
isBestCandidate(attempts, best) ==
    LET stored == {i \in DOMAIN attempts : attempts[i].state = "candidateStored"}
    IN  /\ best \in stored
        /\ \A i \in stored :
               \/ attempts[i].rank < attempts[best].rank
               \/ attempts[i].rank = attempts[best].rank /\ best <= i

Pending    == {g \in DOMAIN endpointGraces : endpointGraces[g].lifecycle = "pending"}
ActiveHold == {h \in DOMAIN floorHolds : floorHolds[h].lifecycle = "active"}
Authorized == {e \in DOMAIN endpointEvaluations :
                   endpointEvaluations[e].lifecycle = "authorized"}

cancellingPendingEndpointGrace ==
    [g \in DOMAIN endpointGraces |->
        IF g \in Pending /\ \A p \in Pending : g <= p
        THEN [endpointGraces[g] EXCEPT !.lifecycle = "cancelled"]
        ELSE endpointGraces[g]]

releasingActiveFloorHold(turn) ==
    [h \in DOMAIN floorHolds |->
        IF h \in ActiveHold /\ \A a \in ActiveHold : a <= h
        THEN [lifecycle |-> "released", turn |-> turn]
        ELSE floorHolds[h]]

-----------------------------------------------------------------------------
Init ==
    /\ phase = "ready"
    /\ turnMode = "continuousConversation"
    /\ turns = <<>>
    /\ segments = <<>>
    /\ endpointEvaluations = <<>>
    /\ endpointGraces = <<>>
    /\ floorHolds = <<>>
    /\ board = [draft |-> "empty", revised |-> FALSE]
    /\ provider = "none"
    /\ process = "running"

\* isExecutingCommand is false: any other command throws commandInProgress
Accepting == process = "running" /\ provider = "none"

conversation == <<phase, turns>>
floorPolicy  == <<endpointGraces, floorHolds>>
actor        == <<provider, process>>

-----------------------------------------------------------------------------
(* Floor, mode, notes and board commands *)

GiveCandidateFloor ==
    /\ Accepting
    /\ phase \in {"ready", "interviewerTurn"}
    /\ phase' = "candidateFloor"
    /\ UNCHANGED <<turnMode, turns, segments, endpointEvaluations, floorPolicy, board, actor>>

SetTurnMode(m) ==
    /\ Accepting
    /\ phase # "completed"
    /\ turnMode' = m
    /\ endpointGraces' = IF m # turnMode THEN cancellingPendingEndpointGrace
                         ELSE endpointGraces
    /\ floorHolds' = IF turnMode = "continuousConversation" /\ m # "continuousConversation"
                     THEN releasingActiveFloorHold(0) ELSE floorHolds
    /\ UNCHANGED <<conversation, segments, endpointEvaluations, board, actor>>

\* notes that did not change leave the grace alone: a stuttering step
UpdateCandidateNotes ==
    /\ Accepting
    /\ phase # "completed"
    /\ endpointGraces' = cancellingPendingEndpointGrace
    /\ UNCHANGED <<conversation, turnMode, segments, endpointEvaluations, floorHolds,
                   board, actor>>

\* a draft that differs from the last one; it may match the saved revision again
UpdateBoardDraft(draft) ==
    /\ Accepting
    /\ phase # "completed"
    /\ draft = "saved" => board.revised
    /\ endpointGraces' = cancellingPendingEndpointGrace
    /\ board' = [board EXCEPT !.draft = draft]
    /\ UNCHANGED <<conversation, turnMode, segments, endpointEvaluations, floorHolds, actor>>

\* mutant: an empty draft counts as saved
SaveEmptyBoardRevision ==
    /\ Accepting
    /\ phase # "completed"
    /\ board' = [board EXCEPT !.draft = "saved"]
    /\ UNCHANGED <<conversation, turnMode, segments, endpointEvaluations, floorPolicy, actor>>

\* the grace, if one is pending, goes on with the revision it did not expect
SaveBoardRevision ==
    /\ Accepting
    /\ phase # "completed"
    /\ board' = [draft   |-> IF board.draft = "empty" THEN "empty" ELSE "saved",
                 revised |-> board.draft # "empty"]
    /\ UNCHANGED <<conversation, turnMode, segments, endpointEvaluations, floorPolicy, actor>>

-----------------------------------------------------------------------------
(* Capture and transcription of a segment *)

BeginSegment ==
    /\ Accepting
    /\ phase = "candidateFloor"
    /\ ActiveSegments = {}
    /\ Len(segments) < MaxSegments
    /\ segments' = Append(segments,
           [lifecycle |-> "captureAuthorized", audio |-> "none", attempts |-> <<>>,
            selected |-> 0, committedTurn |-> 0])
    /\ endpointGraces' = cancellingPendingEndpointGrace
    /\ UNCHANGED <<conversation, turnMode, endpointEvaluations, floorHolds, board, actor>>

\* one segment changes, nothing else does
RewriteSegment(s, seg) ==
    /\ segments' = [segments EXCEPT ![s] = seg]
    /\ UNCHANGED <<conversation, turnMode, endpointEvaluations, floorPolicy, board, actor>>

FinalizeSegment(s) ==
    /\ Accepting
    /\ isActiveSegment(segments[s])
    /\ RewriteSegment(s, [segments[s] EXCEPT !.lifecycle = "finalizationAuthorized"])

RecordRecordingStarted(s) ==
    /\ Accepting
    /\ segments[s].lifecycle = "captureAuthorized"
    /\ RewriteSegment(s, [segments[s] EXCEPT !.lifecycle = "recording"])

RecordCaptureFinalized(s, audio) ==
    /\ Accepting
    /\ segments[s].lifecycle = "finalizationAuthorized"
    /\ RewriteSegment(s, [segments[s] EXCEPT
           !.audio = audio,
           !.lifecycle = IF audio = "unplayable" THEN "failed" ELSE "audioReady"])

RecordCaptureFailed(s) ==
    /\ Accepting
    /\ isActiveSegment(segments[s])
    /\ RewriteSegment(s, [segments[s] EXCEPT !.lifecycle = "failed"])

\* mutant: only this segment's attempts are looked at for one in flight
AuthorizeSegmentTranscriptionPerSegment(s, key) ==
    /\ Accepting
    /\ segments[s].audio = "clear"
    /\ segments[s].lifecycle \in {"audioReady", "transcribed"}
    /\ \A i \in DOMAIN segments[s].attempts : segments[s].attempts[i].state # "authorized"
    /\ Len(segments[s].attempts) < MaxAttempts
    /\ RewriteSegment(s, [segments[s] EXCEPT
           !.attempts = Append(@, [state |-> "authorized", key |-> key, rank |-> 0]),
           !.lifecycle = "transcribing"])

\* .initial exactly when nothing was attempted, so the kind needs no parameter
AuthorizeSegmentTranscription(s, key) ==
    /\ Accepting
    /\ \A r \in DOMAIN segments : \A i \in DOMAIN segments[r].attempts :
           segments[r].attempts[i].state # "authorized"
    /\ segments[s].audio = "clear"
    /\ segments[s].lifecycle \in {"audioReady", "transcribed"}
    /\ \A i \in DOMAIN segments[s].attempts :
           ~(segments[s].attempts[i].state = "rejected" /\ segments[s].attempts[i].key = key)
    /\ Len(segments[s].attempts) < MaxAttempts
    /\ RewriteSegment(s, [segments[s] EXCEPT
           !.attempts = Append(@, [state |-> "authorized", key |-> key, rank |-> 0]),
           !.lifecycle = "transcribing"])

RecordTranscriptCandidate(s, i, rank, best) ==
    /\ Accepting
    /\ segments[s].lifecycle = "transcribing"
    /\ segments[s].attempts[i].state = "authorized"
    /\ LET attempts == [segments[s].attempts EXCEPT
                            ![i] = [@ EXCEPT !.state = "candidateStored", !.rank = rank]]
       IN  /\ isBestCandidate(attempts, best)
           /\ RewriteSegment(s, [segments[s] EXCEPT
                  !.attempts = attempts, !.selected = best, !.lifecycle = "transcribed"])

RecordTranscriptionFailed(s, i, failure) ==
    /\ Accepting
    /\ segments[s].lifecycle = "transcribing"
    /\ segments[s].attempts[i].state = "authorized"
    /\ LET attempts == [segments[s].attempts EXCEPT ![i] = [@ EXCEPT !.state = failure]]
       IN  RewriteSegment(s, [segments[s] EXCEPT
               !.attempts = attempts,
               !.lifecycle = IF segments[s].selected = 0 THEN "audioReady" ELSE "transcribed"])

ExcludeSegment(s) ==
    /\ Accepting
    /\ s \in Uncommitted
    /\ ~isInFlightCapture(segments[s])
    /\ RewriteSegment(s, [segments[s] EXCEPT !.lifecycle = "excluded"])

-----------------------------------------------------------------------------
(* Semantic endpoint, grace and hold *)

\* a context seen before authorizes nothing: it adds a receipt or is refused
AuthorizeEndpointEvaluation(trigger, question, context) ==
    /\ Accepting
    /\ phase = "candidateFloor"
    /\ usesAutomaticEndpointCompletion(turnMode)
    /\ \A e \in DOMAIN endpointEvaluations : endpointEvaluations[e].context # context
    /\ Authorized = {}
    /\ DraftIsSettled
    /\ trigger \in Draft
    /\ isLatestInterviewerTurn(question)
    /\ endpointEvaluations' = Append(endpointEvaluations,
           [trigger |-> trigger, evidence |-> Selected(Draft),
            question |-> question, context |-> context,
            lifecycle |-> "authorized", decision |-> "none"])
    /\ UNCHANGED <<conversation, turnMode, segments, floorPolicy, board, actor>>

\* a proposal for evidence that is no longer current is recorded as interrupted
RecordEndpointProposal(e, decision) ==
    /\ Accepting
    /\ e \in Authorized
    /\ endpointEvaluations' = [endpointEvaluations EXCEPT ![e] =
           IF isCurrentEndpointEvaluation(@)
           THEN [@ EXCEPT !.lifecycle = "proposalStored", !.decision = decision]
           ELSE [@ EXCEPT !.lifecycle = "failed"]]
    /\ UNCHANGED <<conversation, turnMode, segments, floorPolicy, board, actor>>

\* a failed call, or reconcileInterruptedEndpointEvaluation after a relaunch
RecordEndpointFailure(e) ==
    /\ Accepting
    /\ e \in Authorized
    /\ endpointEvaluations' = [endpointEvaluations EXCEPT ![e].lifecycle = "failed"]
    /\ UNCHANGED <<conversation, turnMode, segments, floorPolicy, board, actor>>

\* mutant: a proposal whose grace was cancelled activates another
ActivateEndpointGraceAgain(e) ==
    /\ Accepting
    /\ phase = "candidateFloor"
    /\ usesAutomaticEndpointCompletion(turnMode)
    /\ ActiveHold = {}
    /\ Pending = {}
    /\ endpointEvaluations[e].decision = "likelyEnd"
    /\ isCurrentEndpointEvaluation(endpointEvaluations[e])
    /\ board.draft # "unsaved"
    /\ endpointGraces' = Append(endpointGraces,
           [evaluation |-> e, evidence |-> endpointEvaluations[e].evidence,
            lifecycle |-> "pending", turn |-> 0])
    /\ UNCHANGED <<conversation, turnMode, segments, endpointEvaluations, floorHolds,
                   board, actor>>

ActivateEndpointGrace(e) ==
    /\ Accepting
    /\ phase = "candidateFloor"
    /\ usesAutomaticEndpointCompletion(turnMode)
    /\ ActiveHold = {}
    /\ Pending = {}
    /\ \A g \in DOMAIN endpointGraces : endpointGraces[g].evaluation # e
    /\ endpointEvaluations[e].lifecycle = "proposalStored"
    /\ endpointEvaluations[e].decision = "likelyEnd"
    /\ isCurrentEndpointEvaluation(endpointEvaluations[e])
    /\ board.draft # "unsaved"
    /\ endpointGraces' = Append(endpointGraces,
           [evaluation |-> e, evidence |-> endpointEvaluations[e].evidence,
            lifecycle |-> "pending", turn |-> 0])
    /\ UNCHANGED <<conversation, turnMode, segments, endpointEvaluations, floorHolds,
                   board, actor>>

\* cancelEndpointGrace, or reconcileInterruptedEndpointGrace after a relaunch
CancelEndpointGrace(g) ==
    /\ Accepting
    /\ g \in Pending
    /\ endpointGraces' = [endpointGraces EXCEPT ![g].lifecycle = "cancelled"]
    /\ UNCHANGED <<conversation, turnMode, segments, endpointEvaluations, floorHolds,
                   board, actor>>

\* mutant: holding the floor leaves the grace pending
ActivateFloorHoldKeepingGrace ==
    /\ Accepting
    /\ phase = "candidateFloor"
    /\ turnMode = "continuousConversation"
    /\ ActiveHold = {}
    /\ Len(floorHolds) < MaxHolds
    /\ floorHolds' = Append(floorHolds, [lifecycle |-> "active", turn |-> 0])
    /\ UNCHANGED <<conversation, turnMode, segments, endpointEvaluations, endpointGraces,
                   board, actor>>

ActivateFloorHold ==
    /\ Accepting
    /\ phase = "candidateFloor"
    /\ turnMode = "continuousConversation"
    /\ ActiveHold = {}
    /\ Len(floorHolds) < MaxHolds
    /\ endpointGraces' = cancellingPendingEndpointGrace
    /\ floorHolds' = Append(floorHolds, [lifecycle |-> "active", turn |-> 0])
    /\ UNCHANGED <<conversation, turnMode, segments, endpointEvaluations, board, actor>>

-----------------------------------------------------------------------------
(* Hand off: one durable transition to the candidate turn, then the provider *)

NextTurn == Len(turns) + 1

\* the commit every hand off shares; the actor then awaits the provider
handOff(members, nextGraces, nextHolds) ==
    /\ phase = "candidateFloor"
    /\ \A h \in DOMAIN nextHolds : nextHolds[h].lifecycle # "active"
    /\ Len(turns) < MaxTurns
    /\ turns' = Append(turns,
           [role |-> "candidate", segments |-> members,
            transcript |-> Selected(members \ Excluded), replyTo |-> 0])
    /\ segments' = [s \in DOMAIN segments |->
           IF s \in members THEN [segments[s] EXCEPT !.committedTurn = NextTurn]
           ELSE segments[s]]
    /\ endpointGraces' = nextGraces
    /\ floorHolds' = nextHolds
    /\ phase' = "interviewerProcessing"
    /\ provider' = "reply"
    /\ UNCHANGED <<turnMode, endpointEvaluations, board, process>>

\* mutant: excluded segments are not committed with the turn
handOffDraftOnly(nextGraces, nextHolds) ==
    /\ DraftIsSettled
    /\ handOff(Draft, nextGraces, nextHolds)

\* every segment of the draft has a transcript, and there is one
handOffSegments(nextGraces, nextHolds) ==
    /\ \A s \in DOMAIN segments : ~isInFlightCapture(segments[s])
    /\ \A s \in Draft : segments[s].selected # 0
    /\ Draft # {}
    /\ handOff(Uncommitted, nextGraces, nextHolds)

HandOffText ==
    /\ Accepting
    /\ Uncommitted = {}
    /\ handOff({}, cancellingPendingEndpointGrace, floorHolds)

HandOffSegments ==
    /\ Accepting
    /\ handOffSegments(cancellingPendingEndpointGrace, floorHolds)

\* mutant: the grace is completed without asking whether it is still current
CompleteStaleEndpointGrace(g) ==
    /\ Accepting
    /\ usesAutomaticEndpointCompletion(turnMode)
    /\ g \in Pending
    /\ handOffSegments([endpointGraces EXCEPT ![g].lifecycle = "completed",
                                              ![g].turn = NextTurn],
                       floorHolds)

CompleteEndpointGrace(g) ==
    /\ Accepting
    /\ phase = "candidateFloor"
    /\ usesAutomaticEndpointCompletion(turnMode)
    /\ ActiveHold = {}
    /\ g \in Pending
    /\ LET ev == endpointEvaluations[endpointGraces[g].evaluation]
       IN  /\ ev.lifecycle = "proposalStored"
           /\ ev.decision = "likelyEnd"
           /\ ev.evidence = endpointGraces[g].evidence
           /\ isCurrentEndpointEvaluation(ev)
    /\ handOffSegments([endpointGraces EXCEPT ![g].lifecycle = "completed",
                                              ![g].turn = NextTurn],
                       floorHolds)

SendAnswer ==
    /\ Accepting
    /\ phase = "candidateFloor"
    /\ turnMode = "continuousConversation"
    /\ ActiveHold # {}
    /\ handOffSegments(cancellingPendingEndpointGrace, releasingActiveFloorHold(NextTurn))

-----------------------------------------------------------------------------
(* The interviewer provider *)

RequestOpeningInterviewerTurn ==
    /\ Accepting
    /\ phase = "ready"
    /\ turns = <<>>
    /\ phase' = "interviewerProcessing"
    /\ floorHolds' = <<>>    \* the manifest is rebuilt without its holds
    /\ provider' = "opening"
    /\ UNCHANGED <<turnMode, turns, segments, endpointEvaluations, endpointGraces,
                   board, process>>

\* mutant: every retry asks for the opening
RetryInterviewerOpening ==
    /\ Accepting
    /\ phase = "interviewerProcessing"
    /\ provider' = "opening"
    /\ UNCHANGED <<manifest, process>>

RetryInterviewerResponse ==
    /\ Accepting
    /\ phase = "interviewerProcessing"
    /\ \/ turns = <<>> /\ provider' = "opening" /\ floorHolds' = <<>>
       \/ /\ turns # <<>>
          /\ turns[Len(turns)].role = "candidate"
          /\ provider' = "reply"
          /\ UNCHANGED floorHolds
    /\ UNCHANGED <<phase, turnMode, turns, segments, endpointEvaluations, endpointGraces,
                   board, process>>

\* a valid response is persisted as the turn that answers the candidate, or
\* as the whole conversation when it is the opening
InterviewerResponds ==
    /\ process = "running"
    /\ \/ /\ provider = "opening"
          /\ turns' = <<[role |-> "interviewer", segments |-> {}, transcript |-> {},
                         replyTo |-> 0]>>
          /\ floorHolds' = <<>>
       \/ /\ provider = "reply"
          /\ turns' = Append(turns, [role |-> "interviewer", segments |-> {},
                                     transcript |-> {}, replyTo |-> Len(turns)])
          /\ UNCHANGED floorHolds
    /\ phase' = "interviewerTurn"
    /\ provider' = "none"
    /\ UNCHANGED <<turnMode, segments, endpointEvaluations, endpointGraces, board,
                   process>>

\* mutant: a failed call gives the floor back and keeps the turn
InterviewerFailsBackToCandidate ==
    /\ process = "running"
    /\ provider # "none"
    /\ provider' = "none"
    /\ phase' = "candidateFloor"
    /\ UNCHANGED <<turns, turnMode, segments, endpointEvaluations, floorPolicy, board,
                   process>>

\* the provider throws, its response is invalid, or the save of it throws
InterviewerFails ==
    /\ process = "running"
    /\ provider # "none"
    /\ provider' = "none"
    /\ UNCHANGED <<manifest, process>>

Finish ==
    /\ Accepting
    /\ phase # "completed"
    /\ \A s \in DOMAIN segments : ~isInFlightCapture(segments[s])
    /\ endpointGraces' = cancellingPendingEndpointGrace
    /\ floorHolds' = releasingActiveFloorHold(0)
    /\ phase' = "completed"
    /\ UNCHANGED <<turnMode, turns, segments, endpointEvaluations, board, actor>>

-----------------------------------------------------------------------------
(* What `restore' accepts: the parts of `validate' the model tells apart *)

CandidateTurns == {i \in DOMAIN turns : turns[i].role = "candidate"}

\* an optional opening, then candidate turns, each answered by the turn after it
TurnsArePaired ==
    \A i \in DOMAIN turns :
        IF turns[i].role = "candidate"
        THEN i = 1 \/ turns[i - 1].role = "interviewer"
        ELSE /\ turns[i].replyTo = i - 1
             /\ i = 1 \/ turns[i - 1].role = "candidate"

EndsWithCandidate == turns # <<>> /\ turns[Len(turns)].role = "candidate"

OnlyProcessingEndsWithCandidate == EndsWithCandidate => phase = "interviewerProcessing"

ProcessingHasPendingCandidate ==
    phase = "interviewerProcessing" /\ turns # <<>> => EndsWithCandidate

SegmentsMatchTurns ==
    /\ Cardinality(ActiveSegments) <= 1
    /\ \A i \in CandidateTurns : \A s \in turns[i].segments :
           /\ s \in DOMAIN segments
           /\ segments[s].committedTurn = i
           /\ segments[s].lifecycle = "excluded" \/ segments[s].selected # 0
    /\ \A s \in DOMAIN segments \ Uncommitted :
           /\ segments[s].committedTurn \in CandidateTurns
           /\ s \in turns[segments[s].committedTurn].segments

AttemptsAreConsistent ==
    \A s \in DOMAIN segments :
        LET attempts == segments[s].attempts
        IN  /\ Cardinality({i \in DOMAIN attempts : attempts[i].state = "authorized"}) <= 1
            /\ segments[s].selected # 0 =>
                   /\ segments[s].selected \in DOMAIN attempts
                   /\ attempts[segments[s].selected].state = "candidateStored"

EvaluationsAreConsistent ==
    /\ Cardinality(Authorized) <= 1
    /\ \A e \in DOMAIN endpointEvaluations :
           LET ev == endpointEvaluations[e]
           IN  /\ ev.evidence # {}
               /\ \A c \in ev.evidence :
                      /\ c[1] \in DOMAIN segments
                      /\ c[2] \in DOMAIN segments[c[1]].attempts
                      /\ segments[c[1]].attempts[c[2]].state = "candidateStored"
                      /\ \A d \in ev.evidence : d[1] = c[1] => d = c
               /\ \E c \in ev.evidence : c[1] = ev.trigger
               /\ ev.question # 0 =>
                      ev.question \in DOMAIN turns /\ turns[ev.question].role = "interviewer"
               /\ (ev.lifecycle = "proposalStored") <=> (ev.decision # "none")
               /\ \A f \in DOMAIN endpointEvaluations :
                      endpointEvaluations[f].context = ev.context => f = e

PendingGraceIsCurrent ==
    \A g \in Pending :
        /\ phase = "candidateFloor"
        /\ usesAutomaticEndpointCompletion(turnMode)
        /\ ActiveHold = {}
        /\ isCurrentEndpointEvaluation(endpointEvaluations[endpointGraces[g].evaluation])

CompletedGraceMatchesTurn ==
    \A g \in DOMAIN endpointGraces : endpointGraces[g].lifecycle = "completed" =>
        /\ endpointGraces[g].turn \in CandidateTurns
        /\ Selected(turns[endpointGraces[g].turn].segments) = endpointGraces[g].evidence

GracesAreConsistent ==
    /\ Cardinality(Pending) <= 1
    /\ \A g \in DOMAIN endpointGraces :
           LET grace == endpointGraces[g]
           IN  /\ grace.evaluation \in DOMAIN endpointEvaluations
               /\ endpointEvaluations[grace.evaluation].lifecycle = "proposalStored"
               /\ endpointEvaluations[grace.evaluation].decision = "likelyEnd"
               /\ endpointEvaluations[grace.evaluation].evidence = grace.evidence
               /\ \A f \in DOMAIN endpointGraces :
                      endpointGraces[f].evaluation = grace.evaluation => f = g

HoldsAreConsistent ==
    /\ Cardinality(ActiveHold) <= 1
    /\ ActiveHold # {} => phase = "candidateFloor" /\ turnMode = "continuousConversation"
    /\ \A h \in DOMAIN floorHolds :
           floorHolds[h].turn # 0 => floorHolds[h].turn \in CandidateTurns

Restorable ==
    /\ TurnsArePaired /\ OnlyProcessingEndsWithCandidate /\ ProcessingHasPendingCandidate
    /\ SegmentsMatchTurns /\ AttemptsAreConsistent /\ EvaluationsAreConsistent
    /\ GracesAreConsistent /\ PendingGraceIsCurrent /\ CompletedGraceMatchesTurn
    /\ HoldsAreConsistent

-----------------------------------------------------------------------------
(* The process: killed at any point, and relaunched from the manifest *)

Crash ==
    /\ process = "running"
    /\ process' = "stopped"
    /\ provider' = "none"
    /\ UNCHANGED manifest

Relaunch ==
    /\ process = "stopped"
    /\ process' = IF Restorable THEN "running" ELSE "refused"
    /\ UNCHANGED <<manifest, provider>>

SegmentStep(s) ==
    \/ FinalizeSegment(s)
    \/ RecordRecordingStarted(s)
    \/ \E audio \in CapturedAudio \ {"none"} : RecordCaptureFinalized(s, audio)
    \/ RecordCaptureFailed(s)
    \/ \E key \in Credentials : AuthorizeSegmentTranscription(s, key)
    \/ \E i \in DOMAIN segments[s].attempts :
           \/ \E rank \in 1..MaxRank, best \in DOMAIN segments[s].attempts :
                  RecordTranscriptCandidate(s, i, rank, best)
           \/ \E failure \in {"failed", "rejected"} : RecordTranscriptionFailed(s, i, failure)
    \/ ExcludeSegment(s)
    \/ \E question \in 0..Len(turns), context \in Contexts :
           AuthorizeEndpointEvaluation(s, question, context)

EndpointStep ==
    \/ \E e \in DOMAIN endpointEvaluations :
           \/ \E decision \in {"likelyEnd", "likelyContinue", "ambiguous"} :
                  RecordEndpointProposal(e, decision)
           \/ RecordEndpointFailure(e)
           \/ ActivateEndpointGrace(e)
    \/ \E g \in DOMAIN endpointGraces : CancelEndpointGrace(g) \/ CompleteEndpointGrace(g)
    \/ ActivateFloorHold

RoomStep ==
    \/ GiveCandidateFloor
    \/ \E m \in TurnModesOffered : SetTurnMode(m)
    \/ UpdateCandidateNotes
    \/ \E draft \in DraftsOffered : UpdateBoardDraft(draft)
    \/ SaveBoardRevision
    \/ BeginSegment
    \/ Finish

HandOffStep ==
    \/ HandOffText \/ HandOffSegments \/ SendAnswer
    \/ RequestOpeningInterviewerTurn \/ RetryInterviewerResponse
    \/ InterviewerResponds \/ InterviewerFails

Next ==
    \/ RoomStep
    \/ \E s \in DOMAIN segments : SegmentStep(s)
    \/ EndpointStep
    \/ HandOffStep
    \/ Crash
    \/ Relaunch

Spec == Init /\ [][Next]_vars

-----------------------------------------------------------------------------
(* Properties *)

\* Every component of the manifest and of the actor has the shape its type
\* declares (SessionManifest.swift and the domain types it holds).
TypeOK ==
    /\ phase \in Phase
    /\ turnMode \in TurnMode
    /\ turns \in Seq(Turn)
    /\ segments \in Seq(CandidateSegment)
    /\ endpointEvaluations \in Seq(EndpointEvaluation)
    /\ endpointGraces \in Seq(EndpointGrace)
    /\ floorHolds \in Seq(FloorHold)
    /\ board \in BoardWorkspace
    /\ provider \in {"none", "opening", "reply"}
    /\ process \in {"running", "stopped", "refused"}

\* However provider failures, retries and crashes interleave with the two
\* saves of a hand off, the conversation is an optional opening followed by
\* candidate turns, each answered at most once by the turn right after it; an
\* unanswered candidate turn is the last and waits in interviewerProcessing
\* or was cut short by Finish.
ConversationIsOrdered ==
    /\ TurnsArePaired
    /\ ProcessingHasPendingCandidate
    /\ EndsWithCandidate => phase \in {"interviewerProcessing", "completed"}
    /\ provider = "reply" => phase = "interviewerProcessing" /\ EndsWithCandidate
    /\ provider = "opening" => phase = "interviewerProcessing" /\ turns = <<>>

\* Nothing the candidate said is dropped or sent twice: a segment belongs to
\* exactly the turn it names, that turn's transcript holds one candidate of
\* each member that was not excluded and of no other segment, and once the
\* floor is handed over no segment is left behind (handOffSegments).
SpeechIsCommittedOnce ==
    /\ SegmentsMatchTurns
    /\ \A i \in CandidateTurns : \A s \in turns[i].segments :
           Cardinality({c \in turns[i].transcript : c[1] = s}) = IF s \in Excluded THEN 0 ELSE 1
    /\ \A i \in CandidateTurns : \A c \in turns[i].transcript : c[1] \in turns[i].segments
    /\ phase \in {"interviewerProcessing", "interviewerTurn"} => Uncommitted = {}

\* One external effect of a kind at a time: one capture, and only while the
\* candidate has the floor; one authorized transcription over all segments,
\* each on a segment in `transcribing'; one evaluation; one pending grace;
\* one active hold.
EffectsAreSingleFlight ==
    /\ \A r, s \in ActiveSegments : r = s
    /\ ActiveSegments # {} => phase = "candidateFloor"
    /\ \A r, s \in DOMAIN segments :
           \A i \in DOMAIN segments[r].attempts, j \in DOMAIN segments[s].attempts :
               /\ segments[r].attempts[i].state = "authorized"
               /\ segments[s].attempts[j].state = "authorized"
               => r = s /\ i = j /\ segments[s].lifecycle = "transcribing"
    /\ \A d, e \in Authorized : d = e
    /\ \A f, g \in Pending : f = g
    /\ \A h, k \in ActiveHold : h = k

\* An automatic hand off can only be brewing while the candidate has the floor
\* in an automatic mode, nobody holds the floor and no capture is running; an
\* active hold belongs to a continuous candidate floor.
GraceAndHoldExclude ==
    /\ Pending # {} =>
           /\ phase = "candidateFloor"
           /\ usesAutomaticEndpointCompletion(turnMode)
           /\ ActiveHold = {}
           /\ ActiveSegments = {}
    /\ ActiveHold # {} => phase = "candidateFloor" /\ turnMode = "continuousConversation"

\* The histories the manifest keeps agree with each other, as `validate'
\* demands at restore: attempts with candidates, evaluations with the segments,
\* candidates and questions they cite, graces with the one proposal that
\* justified them, released holds with the turn they sent.
HistoriesAgree ==
    /\ AttemptsAreConsistent
    /\ EvaluationsAreConsistent
    /\ GracesAreConsistent
    /\ HoldsAreConsistent

\* No command, retry, late response or relaunch rewrites a turn that was
\* persisted: the conversation only grows.
ConversationOnlyGrows ==
    [][Len(turns') >= Len(turns) /\ \A i \in DOMAIN turns : turns'[i] = turns[i]]_vars

\* A grace hands off exactly what the classifier judged a likely end: the
\* transcript it commits is the evidence of its evaluation, and the question
\* that evaluation answered is still the latest one.
AutomaticHandOffWasJudged ==
    [][\A g \in DOMAIN endpointGraces :
          /\ endpointGraces[g].lifecycle = "pending"
          /\ endpointGraces'[g].lifecycle = "completed"
          => LET ev == endpointEvaluations[endpointGraces[g].evaluation]
             IN  /\ ev.decision = "likelyEnd"
                 /\ turns'[endpointGraces'[g].turn].transcript = ev.evidence
                 /\ isLatestInterviewerTurn(ev.question)]_vars

\* A retry never loses a better transcript: whatever a later attempt returns,
\* the selected candidate of a segment never falls in rank.
SelectionNeverDegrades ==
    [][\A s \in DOMAIN segments : segments[s].selected # 0 =>
          /\ segments'[s].selected # 0
          /\ segments'[s].attempts[segments'[s].selected].rank
                 >= segments[s].attempts[segments[s].selected].rank]_vars
=============================================================================
