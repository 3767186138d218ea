----------------------- MODULE SegmentSpeechWork_proofs -----------------------
(***************************************************************************)
(* Whatever the manifest says is under way has a task of the coordinator   *)
(* that waits for it (InFlightWorkIsOwned), for every bound and choice of  *)
(* operations and faults.  What makes it inductive, beside SpeechInv:      *)
(*                                                                         *)
(*   - AdmissionInv: the session admits one command at a time;             *)
(*   - SeenInv: what the coordinator published is what the session is,     *)
(*     unless it awaits the interviewer;                                   *)
(*   - RaceInv: while the timer completes a grace that ran out, nothing    *)
(*     activates another.  The refused completion of a grace that is gone  *)
(*     cancels the coordinator's wait, so without this a grace activated   *)
(*     meanwhile would be left with nobody to wait for it;                 *)
(*   - WorkInv: the property itself, with the stages that own each kind    *)
(*     of work.                                                            *)
(*                                                                         *)
(* The last sections prove FloorIsHeard over the same invariant: an open   *)
(* floor is listened to, where no answer is replayed (HearingInv).         *)
(***************************************************************************)
EXTENDS SegmentSpeechCoordinator_proofs

-----------------------------------------------------------------------------
(* The session admits one command at a time *)

\* One task's command is admitted; it is in the session's actor, which awaits the
\* interviewer exactly for the task whose hand off is to be replied to.
AdmissionInv ==
    /\ \A t, u \in Task : tasks[t].admitted /\ tasks[u].admitted => t = u
    /\ \A t \in Task : /\ tasks[t].admitted => provider = "none" \/ tasks[t].stage = "replying"
                       /\ tasks[t].stage = "replying" => provider # "none" /\ tasks[t].admitted

\* What became of the actor, and of the task that made the step: it hands over
\* and goes on to await the reply, has its reply, or leaves the actor alone.
LEMMA ActorMoves ==
    ASSUME NamesInv, ControlInv, [Next]_vars, ~ProcessStep
    PROVE  \/ /\ UNCHANGED provider
              /\ UNCHANGED tasks \/ \E t \in Task : Goes(t) /\ tasks'[t].stage # "replying"
           \/ /\ provider' # "none"
              /\ \E t \in Task : Goes(t) /\ tasks[t].admitted /\ tasks'[t].stage = "replying"
           \/ /\ provider' = "none"
              /\ \E t \in Task : Goes(t) /\ tasks[t].stage = "replying" /\ tasks'[t] = idle
  <1> DEFINE Alone ==
          /\ UNCHANGED provider
          /\ UNCHANGED tasks \/ \E t \in Task : Goes(t) /\ tasks'[t].stage # "replying"
  <1>0. {"user", "acoustic", "recorder", "timer"} \subseteq Task
    BY DEF Task
  <1>1. ASSUME NEW t \in {"user", "acoustic"}, BeginStep(t) \/ EvaluateStep(t)
        PROVE  Alone
    BY <1>0, <1>1, BeginGoes, BeginKeepsActor, EvaluateGoes, EvaluateKeepsActor
    DEF BeginStages, EvaluateStages
  <1>2. ASSUME NEW t \in {"user", "acoustic", "recorder"}, TranscribeStep(t)
        PROVE  Alone
    BY <1>0, <1>2, TranscribeGoes, TranscribeKeepsActor DEF TranscribeStages
  <1>3. CASE CompleteSaved
    <2>1. Goes("timer") /\ tasks'["timer"].stage = "replying"
      BY <1>0, <1>3, ReplyGoes DEF CompleteSaved
    <2> QED
      BY <1>0, <1>3, <2>1 DEF CompleteSaved, Admitted, Room!CompleteEndpointGrace,
                              Room!handOffSegments, Room!handOff
  <1>4. CASE GraceStep /\ ~CompleteSaved
    BY <1>0, <1>4, GraceGoes, GraceKeepsActor, IdleStage DEF TimerStages
  <1>5. CASE HandOffSaved
    <2>1. Goes("user") /\ tasks'["user"].stage = "replying"
      BY <1>0, <1>5, ReplyGoes DEF HandOffSaved
    <2>2. provider' # "none"
      BY <1>5 DEF HandOffSaved, Room!SendAnswer, Room!HandOffSegments,
                  Room!RetryInterviewerResponse, Room!handOffSegments, Room!handOff
    <2> QED
      BY <1>0, <1>5, <2>1, <2>2 DEF HandOffSaved, Admitted
  <1>6. ASSUME NEW t \in {"user", "timer"}, Replied(t) \/ ReplyFails(t)
        PROVE  /\ provider' = "none" /\ Goes(t) /\ tasks[t].stage = "replying"
               /\ tasks'[t] = idle
    BY <1>0, <1>6, IdleGoes DEF Replied, ReplyFails, At, Room!InterviewerResponds,
                                Room!InterviewerFails
  <1>7. CASE /\ RoomReturn /\ ~HandOffSaved
             /\ ~\E t \in {"user", "timer"} : Replied(t) \/ ReplyFails(t)
    BY <1>7, ReturnGoes, ReturnKeepsActor
  <1>8. CASE RoomStart \/ AudioStep
    <2>1. UNCHANGED provider
      BY <1>8, StartsKeepRoom DEF NoRoomStep, room
    <2>2. UNCHANGED tasks \/ \E t \in Task : /\ Goes(t)
                                           /\ tasks'[t].stage \in StartStages \cup {"idle"}
      BY <1>8, StartGoes, AudioGoes
    <2>3. \A stage \in StartStages \cup {"idle"} : stage # "replying"
      BY DEF StartStages
    <2> QED
      BY <2>1, <2>2, <2>3
  <1>9. CASE UNCHANGED vars
    BY <1>9 DEF vars
  <1> QED
    BY <1>0, <1>1, <1>2, <1>3, <1>4, <1>5, <1>6, <1>7, <1>8, <1>9 DEF Next

\* Resuming asks the session like any other task.
LEMMA ResumeAsks ==
    ASSUME NamesInv, ControlInv, ProcessStep, ~Crash
    PROVE  UNCHANGED provider /\ (tasks'["user"].admitted => Admits("user"))
  <1>0. "user" \in Task
    BY DEF Task
  <1>1. ASSUME NEW command, NEW of, issue("user", "resume", command, of, "none")
        PROVE  tasks'["user"].admitted => Admits("user")
    BY <1>0, <1>1 DEF issue, NamesInv
  <1>2. ASSUME tasks' = [tasks EXCEPT !["user"] = idle]
        PROVE  tasks'["user"].admitted => Admits("user")
    BY <1>0, <1>2, IdleStage DEF NamesInv
  <1>3. Resumes \/ OpensRoom =>
            \/ tasks' = [tasks EXCEPT !["user"] = idle]
            \/ \E command, of : issue("user", "resume", command, of, "none")
    BY DEF Resumes, OpensRoom
  <1>4. CASE Relaunch
    <2>1. CASE process' = "running"
      BY <1>1, <1>2, <1>3, <1>4, <2>1 DEF Relaunch, Room!Relaunch
    <2>2. CASE process' # "running"
      <3>1. ~Running
        BY <1>4 DEF Relaunch, Room!Relaunch, Running
      <3>2. tasks'["user"] = idle
        BY <1>0, <1>4, <2>2, <3>1 DEF Relaunch, ControlInv
      <3> QED
        BY <1>4, <3>2, IdleStage DEF Relaunch, Room!Relaunch
    <2> QED
      BY <2>1, <2>2
  <1>5. CASE ResumeSaved
    <2>1. UNCHANGED provider
      BY <1>5 DEF ResumeSaved, Room!CancelEndpointGrace, Room!RecordTranscriptionFailed,
                  Room!RecordEndpointFailure, Room!FinalizeSegment,
                  Room!RecordCaptureFinalized, Room!RecordCaptureFailed,
                  Room!RewriteSegment, Room!actor
    <2>2. tasks["user"].stage \in ResumeStages
      BY <1>5 DEF ResumeSaved, Admitted, At, ResumeStages
    <2>3. tasks["user"].op = "resume"
      BY <1>0, <2>2 DEF ControlInv
    <2> QED
      BY <1>1, <1>2, <1>3, <1>5, <2>1, <2>3 DEF ResumeSaved, issues
  <1>6. CASE ResumeRefused
    BY <1>1, <1>2, <1>3, <1>6 DEF ResumeRefused, Refused, NoRoomStep, room
  <1> QED
    BY <1>4, <1>5, <1>6 DEF ProcessStep

\* Every step keeps to one admitted command.
LEMMA AdmissionStep ==
    ASSUME NamesInv, ControlInv, AdmissionInv, [Next]_vars
    PROVE  AdmissionInv'
  <1>0. "user" \in Task /\ idle.stage = "idle" /\ ~idle.admitted
    BY IdleStage DEF Task
  <1>1. CASE Crash
    BY <1>0, <1>1 DEF Crash, AdmissionInv
  <1>2. CASE ProcessStep /\ ~Crash
    <2>1. \A t \in Task \ {"user"} : ~tasks'[t].admitted /\ tasks'[t].stage # "replying"
      BY <1>0, <1>2, ResumeGoes
    <2>2. tasks'["user"].stage # "replying"
      BY <1>0, <1>2, ResumeGoes DEF ResumeStages
    <2>3. tasks'["user"].admitted => provider' = "none"
      BY <1>2, ResumeAsks DEF Admits
    <2> QED
      BY <1>0, <2>1, <2>2, <2>3 DEF AdmissionInv
  <1>3. CASE ~ProcessStep
    <2>1. CASE UNCHANGED provider /\ UNCHANGED tasks
      BY <2>1 DEF AdmissionInv
    <2>2. ASSUME NEW t \in Task, Goes(t), UNCHANGED provider, tasks'[t].stage # "replying"
          PROVE  AdmissionInv'
      <3>1. tasks'[t].admitted => provider = "none" /\ \A u \in Task \ {t} : ~tasks[u].admitted
        BY <2>2 DEF Goes, Admits
      <3> QED
        BY <2>2, <3>1 DEF AdmissionInv, Goes
    <2>3. ASSUME NEW t \in Task, Goes(t), provider' # "none", tasks[t].admitted,
                 tasks'[t].stage = "replying"
          PROVE  AdmissionInv'
      <3>1. tasks'[t].admitted
        BY <2>3 DEF Goes
      <3>2. \A u \in Task \ {t} : ~tasks[u].admitted /\ tasks[u].stage # "replying"
        BY <2>3 DEF AdmissionInv
      <3> QED
        BY <2>3, <3>1, <3>2 DEF AdmissionInv, Goes
    <2>4. ASSUME NEW t \in Task, Goes(t), provider' = "none", tasks[t].stage = "replying",
                 tasks'[t] = idle
          PROVE  AdmissionInv'
      <3>1. \A u \in Task \ {t} : ~tasks[u].admitted /\ tasks[u].stage # "replying"
        BY <2>4 DEF AdmissionInv
      <3> QED
        BY <1>0, <2>4, <3>1 DEF AdmissionInv, Goes
    <2> QED
      BY <1>3, <2>1, <2>2, <2>3, <2>4, ActorMoves
  <1> QED
    BY <1>1, <1>2, <1>3

\* The room opens with none.
LEMMA AdmissionInit == Init => AdmissionInv
  <1> SUFFICES ASSUME Init
               PROVE  AdmissionInv
    OBVIOUS
  <1>1. \A t \in Task : ~tasks[t].admitted /\ tasks[t].stage = "idle"
    BY IdleStage DEF Init
  <1> QED
    BY <1>1 DEF AdmissionInv

-----------------------------------------------------------------------------
(* What the coordinator has seen *)

\* Unless the session awaits the interviewer, the coordinator has seen all of it.
SeenInv == Running /\ provider = "none" => snapshot = Projection

\* Whatever changes the session is published, or hands over and awaits a reply.
LEMMA SeenStep ==
    ASSUME SeenInv, [Next]_vars
    PROVE  SeenInv'
  <1>1. CASE snapshot' = Projection'
    BY <1>1 DEF SeenInv
  <1>2. CASE UNCHANGED snapshot /\ NoRoomStep
    BY <1>2 DEF NoRoomStep, room, SeenInv, Running, Projection, Room!ActiveHold, Room!Pending
  <1>3. CASE CompleteSaved \/ HandOffSaved
    <2>1. provider' # "none"
      BY <1>3 DEF CompleteSaved, HandOffSaved, Room!SendAnswer, Room!HandOffSegments,
                  Room!RetryInterviewerResponse, Room!CompleteEndpointGrace,
                  Room!handOffSegments, Room!handOff
    <2> QED
      BY <2>1 DEF SeenInv
  <1>4. CASE Crash
    BY <1>4 DEF Crash, Room!Crash, SeenInv, Running
  <1> QED
    BY <1>1, <1>2, <1>3, <1>4, SnapshotIsCurrentOrKept

\* The room opens with the manifest published.
LEMMA SeenInit == Init => SeenInv
  BY DEF Init, SeenInv

-----------------------------------------------------------------------------
(* Graces come and go *)

\* What cancels or completes the one pending grace leaves none.
LEMMA GraceClears ==
    ASSUME SessionInv
    PROVE  /\ \A g : Room!CancelEndpointGrace(g) => Room!Pending' = {}
           /\ \A g : Room!CompleteEndpointGrace(g) => Room!Pending' = {}
           /\ Room!SendAnswer \/ Room!HandOffSegments => Room!Pending' = {}
           /\ Room!BeginSegment \/ Room!ActivateFloorHold \/ Room!Finish => Room!Pending' = {}
           /\ Room!UpdateCandidateNotes => Room!Pending' = {}
           /\ \A draft : Room!UpdateBoardDraft(draft) => Room!Pending' = {}
           /\ \A m : Room!SetTurnMode(m) => UNCHANGED endpointGraces \/ Room!Pending' = {}
  <1>1. ASSUME NEW g \in Room!Pending, NEW grace, grace.lifecycle # "pending",
               endpointGraces' = [endpointGraces EXCEPT ![g] = grace]
        PROVE  Room!Pending' = {}
    <2>1. \A f \in DOMAIN endpointGraces \ {g} : endpointGraces[f].lifecycle # "pending"
      BY SessionFacts DEF Room!Pending
    <2>2. DOMAIN endpointGraces' = DOMAIN endpointGraces /\ endpointGraces'[g] = grace
          /\ \A f \in DOMAIN endpointGraces \ {g} : endpointGraces'[f] = endpointGraces[f]
      BY <1>1 DEF Room!Pending
    <2> QED
      BY <1>1, <2>1, <2>2 DEF Room!Pending
  <1>2. ASSUME NEW g, g \in Room!Pending
        PROVE  endpointGraces[g] \in Room!EndpointGrace
    BY <1>2 DEF SessionInv, Room!TypeOK, Room!Pending
  <1>3. ASSUME NEW g, Room!CancelEndpointGrace(g)
        PROVE  Room!Pending' = {}
    <2> DEFINE grace == [endpointGraces[g] EXCEPT !.lifecycle = "cancelled"]
    <2>1. g \in Room!Pending
      BY <1>3 DEF Room!CancelEndpointGrace
    <2>2. grace.lifecycle # "pending"
      BY <1>2, <2>1 DEF Room!EndpointGrace
    <2>3. endpointGraces' = [endpointGraces EXCEPT ![g] = grace]
      BY <1>3 DEF Room!CancelEndpointGrace
    <2> HIDE DEF grace
    <2> QED
      BY <1>1, <2>1, <2>2, <2>3
  <1>4. ASSUME NEW g, Room!CompleteEndpointGrace(g)
        PROVE  Room!Pending' = {}
    <2> DEFINE grace == [endpointGraces[g] EXCEPT !.lifecycle = "completed",
                                                  !.turn = Room!NextTurn]
    <2>1. g \in Room!Pending
      BY <1>4 DEF Room!CompleteEndpointGrace
    <2>2. grace.lifecycle # "pending"
      BY <1>2, <2>1 DEF Room!EndpointGrace
    <2>3. endpointGraces' = [endpointGraces EXCEPT ![g] = grace]
      BY <1>4 DEF Room!CompleteEndpointGrace, Room!handOffSegments, Room!handOff
    <2> HIDE DEF grace
    <2> QED
      BY <1>1, <2>1, <2>2, <2>3
  <1>5. Room!SendAnswer \/ Room!HandOffSegments => Room!Pending' = {}
    BY CancellingClears DEF Room!SendAnswer, Room!HandOffSegments, Room!handOffSegments,
                            Room!handOff
  <1> QED
    BY <1>3, <1>4, <1>5, CancellingClears
    DEF Room!BeginSegment, Room!ActivateFloorHold, Room!Finish, Room!UpdateCandidateNotes,
        Room!UpdateBoardDraft, Room!SetTurnMode

\* In beginSegment only a capture that begins touches the pending grace: it cancels it.
LEMMA BeginGraces ==
    ASSUME SessionInv, NEW t, BeginStep(t)
    PROVE  \/ UNCHANGED endpointGraces
           \/ tasks[t].admitted /\ Room!Pending' = {}
  BY GraceClears
  DEF BeginStep, BeginSaved, BeginRefused, CaptureStarts, CaptureStartFails,
      CaptureFailedSaved, CaptureFailedRefused, StartedSaved, StartedRefused, PreserveSaved,
      PreserveRefused, PreserveRecordSaved, PreserveRecordRefused, Refused, Admitted,
      NoRoomStep, room, Room!RecordCaptureFailed, Room!RecordRecordingStarted,
      Room!FinalizeSegment, Room!RecordCaptureFinalized, Room!RewriteSegment,
      Room!floorPolicy

\* Transcribing touches neither graces nor evaluations.
LEMMA TranscribeGraces ==
    ASSUME NEW t, TranscribeStep(t)
    PROVE  UNCHANGED <<endpointGraces, endpointEvaluations>>
  BY DEF TranscribeStep, FinalizeSaved, FinalizeRefused, RecordCaptureSaved,
         RecordCaptureRefused, AuthorizeSaved, AuthorizeRefused, Transcribed,
         TranscriptSaved, TranscriptRefused, Refused, NoRoomStep, room,
         Room!FinalizeSegment, Room!RecordCaptureFinalized,
         Room!AuthorizeSegmentTranscription, Room!RecordTranscriptCandidate,
         Room!RecordTranscriptionFailed, Room!RewriteSegment, Room!floorPolicy

\* Evaluating touches graces only to activate one.
LEMMA EvaluateGraces ==
    ASSUME NEW t, EvaluateStep(t)
    PROVE  UNCHANGED endpointGraces \/ ActivateGraceSaved(t)
  BY DEF EvaluateStep, EvaluateSaved, EvaluateRefused, Classified, EvaluationSaved,
         EvaluationRefused, ReconcileEvaluationSaved, ReconcileEvaluationRefused,
         ActivateGraceRefused, Refused, NoRoomStep, room,
         Room!AuthorizeEndpointEvaluation, Room!RecordEndpointProposal,
         Room!RecordEndpointFailure, Room!floorPolicy

\* The room's commands touch the pending grace only to cancel or complete it, and their
\* task is done or awaits the reply.
LEMMA ReturnGraces ==
    ASSUME SessionInv, NamesInv, RoomReturn
    PROVE  \/ UNCHANGED endpointGraces
           \/ /\ Room!Pending' = {}
              /\ \E t \in Task : /\ Goes(t) /\ tasks[t].admitted
                                 /\ tasks'[t].stage \in {"idle", "replying"}
  <1>0. {"user", "desk"} \subseteq Task
    BY DEF Task
  <1>1. ASSUME NEW t, HandOffRefused \/ FloorRefused(t) \/ CommandRefused(t) \/ FloorSaved(t)
        PROVE  UNCHANGED endpointGraces
    BY <1>1 DEF HandOffRefused, FloorRefused, CommandRefused, FloorSaved, Refused, NoRoomStep,
                room, Room!GiveCandidateFloor, Room!floorPolicy
  <1>2. CASE ExcludeSaved
    BY <1>2 DEF ExcludeSaved, Room!ExcludeSegment, Room!RewriteSegment, Room!floorPolicy
  <1>3. CASE ModeSaved \/ HoldSaved \/ KeepFloorSaved \/ FinishSaved
    <2>1. UNCHANGED endpointGraces \/ Room!Pending' = {}
      BY <1>3, GraceClears DEF ModeSaved, HoldSaved, KeepFloorSaved, FinishSaved
    <2>2. tasks["user"].admitted /\ tasks' = [tasks EXCEPT !["user"] = idle]
      BY <1>3 DEF ModeSaved, HoldSaved, KeepFloorSaved, FinishSaved, Admitted, Ends
    <2> QED
      BY <1>0, <2>1, <2>2, IdleGoes, IdleStage
  <1>4. CASE DeskSaved
    <2>1. UNCHANGED endpointGraces \/ Room!Pending' = {}
      BY <1>4, GraceClears DEF DeskSaved, NoRoomStep, room
    <2>2. tasks["desk"].admitted /\ tasks' = [tasks EXCEPT !["desk"] = idle]
      BY <1>4 DEF DeskSaved, Admitted, Ends
    <2> QED
      BY <1>0, <2>1, <2>2, IdleGoes, IdleStage
  <1>5. CASE HandOffSaved
    <2>1. UNCHANGED endpointGraces \/ Room!Pending' = {}
      BY <1>5, GraceClears DEF HandOffSaved, Room!RetryInterviewerResponse
    <2>2. Goes("user") /\ tasks["user"].admitted /\ tasks'["user"].stage = "replying"
      BY <1>0, <1>5, ReplyGoes DEF HandOffSaved, Admitted
    <2> QED
      BY <1>0, <2>1, <2>2
  <1>6. ASSUME NEW t, Replied(t) \/ ReplyFails(t)
        PROVE  UNCHANGED endpointGraces
    BY <1>6 DEF Replied, ReplyFails, Room!InterviewerResponds, Room!InterviewerFails,
                Room!manifest
  <1> QED
    BY <1>1, <1>2, <1>3, <1>4, <1>5, <1>6 DEF RoomReturn

\* ... and so does completeScheduledGrace.
LEMMA GraceGraces ==
    ASSUME SessionInv, NamesInv, GraceStep
    PROVE  \/ UNCHANGED endpointGraces
           \/ /\ Room!Pending' = {} /\ Goes("timer") /\ tasks["timer"].admitted
              /\ tasks'["timer"].stage \in {"idle", "replying"}
  <1>0. "timer" \in Task
    BY DEF Task
  <1>1. CASE CompleteSaved
    BY <1>0, <1>1, GraceClears, ReplyGoes DEF CompleteSaved, Admitted
  <1>2. CASE ReconcileGraceSaved
    BY <1>0, <1>2, GraceClears, IdleGoes, IdleStage DEF ReconcileGraceSaved, Admitted, Ends
  <1>3. CASE GraceRunsOut \/ CompleteRefused \/ ReconcileGraceRefused
    BY <1>3 DEF GraceRunsOut, CompleteRefused, ReconcileGraceRefused, Refused, NoRoomStep,
                room
  <1> QED
    BY <1>1, <1>2, <1>3 DEF GraceStep

\* What becomes of the graces in a step that is not of the process: nothing, one
\* is activated, or the one there was is no longer pending and the task that saw
\* to it neither records an evaluation nor activates a grace next.
LEMMA GracesMove ==
    ASSUME SessionInv, NamesInv, [Next]_vars, ~ProcessStep
    PROVE  \/ UNCHANGED endpointGraces
           \/ \E t \in {"user", "acoustic"} : ActivateGraceSaved(t)
           \/ /\ Room!Pending' = {}
              /\ \E t \in Task : /\ Goes(t) /\ tasks[t].admitted
                                 /\ tasks'[t].stage \notin {"recordEvaluation", "activateGrace"}
  <1>0. {"user", "acoustic", "recorder", "timer"} \subseteq Task
    BY DEF Task
  <1>1. ASSUME NEW t \in {"user", "acoustic"}, BeginStep(t), ~UNCHANGED endpointGraces
        PROVE  /\ Room!Pending' = {} /\ t \in Task /\ Goes(t) /\ tasks[t].admitted
               /\ tasks'[t].stage \notin {"recordEvaluation", "activateGrace"}
    BY <1>0, <1>1, BeginGoes, BeginGraces DEF BeginStages
  <1>2. ASSUME NEW t \in {"user", "acoustic"}, EvaluateStep(t)
        PROVE  UNCHANGED endpointGraces \/ ActivateGraceSaved(t)
    BY <1>2, EvaluateGraces
  <1>3. ASSUME NEW t, TranscribeStep(t)
        PROVE  UNCHANGED endpointGraces
    BY <1>3, TranscribeGraces
  <1>4. CASE RoomReturn
    BY <1>4, ReturnGraces
  <1>5. CASE GraceStep
    BY <1>0, <1>5, GraceGraces
  <1>6. CASE RoomStart \/ AudioStep \/ UNCHANGED vars
    BY <1>6, StartsKeepRoom DEF NoRoomStep, room, vars
  <1> QED
    BY <1>1, <1>2, <1>3, <1>4, <1>5, <1>6 DEF Next

-----------------------------------------------------------------------------
(* A grace that runs out, and the commands it races with *)

\* The timer completes or reconciles the only grace there is.  Another may be on
\* its way to be activated only where this one is still pending, which refuses it.
RaceInv ==
    tasks["timer"].stage \in TimerStages =>
        /\ Room!Pending \subseteq {tasks["timer"].of}
        /\ \A u \in Task : /\ tasks[u].admitted
                           /\ tasks[u].stage \in {"recordEvaluation", "activateGrace"}
                           => Room!Pending # {}

\* Only a grace that runs out, or whose completion was refused, moves the timer
\* to where it completes or reconciles one.
LEMMA TimerMoves ==
    ASSUME NamesInv, [Next]_vars, ~ProcessStep, tasks'["timer"].stage \in TimerStages
    PROVE  tasks'["timer"] = tasks["timer"] \/ GraceRunsOut \/ CompleteRefused
  <1>0. "timer" \in Task /\ {"user", "acoustic", "recorder"} \subseteq Task \ {"timer"}
    BY DEF Task
  <1>1. ASSUME NEW t \in {"user", "acoustic"}, BeginStep(t) \/ EvaluateStep(t)
        PROVE  tasks'["timer"] = tasks["timer"]
    BY <1>0, <1>1, BeginGoes, EvaluateGoes DEF Goes
  <1>2. ASSUME NEW t \in {"user", "acoustic", "recorder"}, TranscribeStep(t)
        PROVE  tasks'["timer"] = tasks["timer"]
    BY <1>0, <1>2, TranscribeGoes DEF Goes
  <1>3. CASE GraceStep
    <2>1. CASE CompleteSaved
      BY <1>0, <2>1, ReplyGoes DEF CompleteSaved, TimerStages
    <2>2. CASE ReconcileGraceSaved \/ ReconcileGraceRefused
      BY <1>0, <2>2, IdleGoes, IdleStage DEF ReconcileGraceSaved, ReconcileGraceRefused, Ends,
                                            TimerStages
    <2> QED
      BY <1>3, <2>1, <2>2 DEF GraceStep
  <1>4. CASE RoomReturn
    BY <1>0, <1>4, ReturnGoes DEF Goes, TimerStages
  <1>5. CASE RoomStart
    BY <1>0, <1>5, StartGoes DEF Goes, TimerStages, StartStages, ReturnStages
  <1>6. CASE AudioStep
    BY <1>0, <1>6, AudioGoes DEF Goes, TimerStages, StartStages, ReturnStages
  <1>7. CASE UNCHANGED vars
    BY <1>7 DEF vars
  <1> QED
    BY <1>1, <1>2, <1>3, <1>4, <1>5, <1>6, <1>7 DEF Next

\* An evaluation is recorded, or its grace activated, by a task whose command the
\* session admitted when nothing else was in it.
LEMMA EvaluationArrives ==
    ASSUME NamesInv, [Next]_vars, ~ProcessStep, NEW u \in Task, tasks'[u] # tasks[u],
           tasks'[u].admitted, tasks'[u].stage \in {"recordEvaluation", "activateGrace"}
    PROVE  \/ tasks[u].admitted /\ tasks[u].stage = "recordEvaluation"
           \/ Settled /\ Admits(u)
  <1>0. {"user", "acoustic", "recorder", "timer"} \subseteq Task
    BY DEF Task
  <1>1. ASSUME NEW t \in Task, Goes(t),
               tasks'[t].stage \notin {"recordEvaluation", "activateGrace"}
        PROVE  FALSE
    BY <1>1 DEF Goes
  <1>2. ~\E t \in {"user", "acoustic"} : BeginStep(t)
    BY <1>0, <1>1, BeginGoes DEF BeginStages
  <1>3. ~\E t \in {"user", "acoustic", "recorder"} : TranscribeStep(t)
    BY <1>0, <1>1, TranscribeGoes DEF TranscribeStages
  <1>4. ~GraceStep
    <2>1. GraceStep => UNCHANGED tasks \/ (Goes("timer") /\ tasks'["timer"].stage \notin
                                               {"recordEvaluation", "activateGrace"})
      BY GraceGoes DEF TimerStages
    <2> QED
      BY <1>0, <1>1, <2>1
  <1>5. ~RoomReturn
    BY <1>1, ReturnGoes
  <1>6. ~RoomStart
    BY <1>1, StartGoes DEF StartStages, ReturnStages
  <1>7. ~AudioStep
    BY <1>1, AudioGoes DEF StartStages, ReturnStages
  <1>8. PICK t \in {"user", "acoustic"} : EvaluateStep(t)
    BY <1>2, <1>3, <1>4, <1>5, <1>6, <1>7 DEF Next, vars
  <1>9. t \in Task /\ u = t /\ Goes(t)
    BY <1>0, <1>8, EvaluateGoes DEF Goes
  <1>10. CASE Classified(t)
    <2>1. \E result : issue(t, tasks[t].op, "recordEvaluation", tasks[t].of, result)
      BY <1>10 DEF Classified, issues
    <2> QED
      BY <1>9, <1>10, <2>1 DEF issue, NamesInv, Classified
  <1>11. CASE EvaluationSaved(t)
    BY <1>9, <1>11 DEF EvaluationSaved, Admitted, At
  <1>12. CASE EvaluateSaved(t)
    <2>1. \/ await(t, tasks[t].op, "classifying", Len(endpointEvaluations'))
          \/ Returns(t, coordinator)
      BY <1>12 DEF EvaluateSaved
    <2> QED
      BY <1>9, <2>1, ReturnsGoes, AwaitGoes DEF Waits
  <1>13. CASE EvaluationRefused(t)
    BY <1>9, <1>13 DEF EvaluationRefused, issues, issue, NamesInv
  <1>14. CASE \/ EvaluateRefused(t) \/ ReconcileEvaluationSaved(t)
              \/ ReconcileEvaluationRefused(t) \/ ActivateGraceSaved(t)
              \/ ActivateGraceRefused(t)
    <2>1. \E c : Returns(t, c)
      BY <1>14 DEF EvaluateRefused, ReconcileEvaluationSaved, ReconcileEvaluationRefused,
                   ActivateGraceSaved, ActivateGraceRefused
    <2> QED
      BY <1>9, <2>1, ReturnsGoes
  <1> QED
    BY <1>8, <1>10, <1>11, <1>12, <1>13, <1>14 DEF EvaluateStep

\* A grace that is still pending refuses another, and so keeps the race harmless.
LEMMA RaceStep ==
    ASSUME SessionInv, NamesInv, ControlInv, AdmissionInv, SeenInv, RaceInv, [Next]_vars
    PROVE  RaceInv'
  <1>0. "timer" \in Task /\ "timer" # "user"
    BY DEF Task
  <1>1. CASE Crash
    BY <1>0, <1>1, IdleStage DEF Crash, RaceInv, TimerStages
  <1>2. CASE ProcessStep /\ ~Crash
    BY <1>0, <1>2, ResumeGoes, IdleStage DEF RaceInv, TimerStages
  <1>3. CASE ~ProcessStep
    <2> SUFFICES ASSUME tasks'["timer"].stage \in TimerStages
                 PROVE  /\ Room!Pending' \subseteq {tasks'["timer"].of}
                        /\ \A u \in Task :
                               /\ tasks'[u].admitted
                               /\ tasks'[u].stage \in {"recordEvaluation", "activateGrace"}
                               => Room!Pending' # {}
      BY DEF RaceInv
    <2>1. CASE tasks'["timer"] = tasks["timer"]
      <3>1. /\ Room!Pending \subseteq {tasks["timer"].of}
            /\ \A u \in Task : /\ tasks[u].admitted
                               /\ tasks[u].stage \in {"recordEvaluation", "activateGrace"}
                               => Room!Pending # {}
        BY <2>1 DEF RaceInv
      <3>2. CASE UNCHANGED endpointGraces
        <4>1. Room!Pending' = Room!Pending
          BY <3>2 DEF Room!Pending
        <4>2. ASSUME NEW u \in Task, tasks'[u].admitted,
                     tasks'[u].stage \in {"recordEvaluation", "activateGrace"}
              PROVE  Room!Pending # {}
          <5>1. CASE tasks'[u] = tasks[u]
            BY <3>1, <4>2, <5>1
          <5>2. CASE tasks'[u] # tasks[u]
            <6>1. \/ tasks[u].admitted /\ tasks[u].stage = "recordEvaluation"
                  \/ Settled /\ Admits(u)
              BY <1>3, <4>2, <5>2, EvaluationArrives
            <6>2. u # "timer"
              BY <2>1, <5>2
            <6>3. tasks["timer"].stage \notin Waits
              BY <2>1 DEF TimerStages, Waits
            <6>4. ~(Settled /\ Admits(u))
              BY <1>0, <6>2, <6>3 DEF Settled, Admits
            <6> QED
              BY <3>1, <6>1, <6>4
          <5> QED
            BY <5>1, <5>2
        <4> QED
          BY <2>1, <3>1, <4>1, <4>2
      <3>3. ASSUME NEW t \in {"user", "acoustic"}, ActivateGraceSaved(t)
            PROVE  FALSE
        <4>1. t \in Task /\ tasks[t].admitted /\ tasks[t].stage = "activateGrace"
          BY <3>3 DEF Task, ActivateGraceSaved, Admitted, At
        <4>2. Room!Pending = {}
          BY <3>3 DEF ActivateGraceSaved, Room!ActivateEndpointGrace
        <4> QED
          BY <3>1, <4>1, <4>2
      <3>4. ASSUME Room!Pending' = {}, NEW t \in Task, Goes(t), tasks[t].admitted,
                   tasks'[t].stage \notin {"recordEvaluation", "activateGrace"},
                   NEW u \in Task, tasks'[u].admitted,
                   tasks'[u].stage \in {"recordEvaluation", "activateGrace"}
            PROVE  FALSE
        <4>1. u # t /\ tasks'[u] = tasks[u]
          BY <3>4 DEF Goes
        <4> QED
          BY <3>4, <4>1 DEF AdmissionInv
      <3> QED
        BY <1>3, <3>2, <3>3, <3>4, GracesMove
    <2>2. CASE GraceRunsOut /\ tasks'["timer"] # tasks["timer"]
      <3>1. /\ issue("timer", "grace", "complete", coordinator.grace, "none")
            /\ coordinator.grace \in snapshot.pending
            /\ Running /\ UNCHANGED endpointGraces
        BY <2>2 DEF GraceRunsOut, Launched, NoRoomStep, room
      <3>2. tasks'["timer"].of = coordinator.grace /\ tasks'["timer"].stage = "complete"
            /\ \A u \in Task \ {"timer"} : tasks'[u] = tasks[u]
        BY <1>0, <3>1 DEF issue, NamesInv
      <3>3. Room!Pending' = Room!Pending
        BY <3>1 DEF Room!Pending
      <3>4. CASE provider = "none"
        <4>1. coordinator.grace \in Room!Pending
          BY <3>1, <3>4 DEF SeenInv, Projection
        <4> QED
          BY <3>2, <3>3, <4>1, SessionFacts
      <3>5. CASE provider # "none"
        <4>1. Room!Pending = {}
          BY <3>5, SessionFacts
        <4>2. ASSUME NEW u \in Task, tasks'[u].admitted,
                     tasks'[u].stage \in {"recordEvaluation", "activateGrace"}
              PROVE  FALSE
          <5>1. tasks'[u] = tasks[u]
            BY <3>2, <4>2
          <5> QED
            BY <3>5, <4>2, <5>1 DEF AdmissionInv
        <4> QED
          BY <3>2, <3>3, <4>1, <4>2
      <3> QED
        BY <3>4, <3>5
    <2>3. CASE CompleteRefused /\ tasks'["timer"] # tasks["timer"]
      <3>1. tasks["timer"].stage \in TimerStages /\ UNCHANGED endpointGraces
        BY <2>3 DEF CompleteRefused, At, TimerStages, Refused, NoRoomStep, room
      <3>2. \/ issue("timer", tasks["timer"].op, "reconcileGrace", tasks["timer"].of, "none")
            \/ tasks' = [tasks EXCEPT !["timer"] = idle]
        BY <2>3 DEF CompleteRefused, issues, Ends
      <3>3. tasks'["timer"].of = tasks["timer"].of
            /\ tasks'["timer"].stage = "reconcileGrace"
            /\ \A u \in Task \ {"timer"} : tasks'[u] = tasks[u]
        BY <1>0, <3>2, IdleStage DEF issue, NamesInv, TimerStages
      <3>4. Room!Pending' = Room!Pending
        BY <3>1 DEF Room!Pending
      <3>5. ASSUME NEW u \in Task, tasks'[u].admitted,
                   tasks'[u].stage \in {"recordEvaluation", "activateGrace"}
            PROVE  Room!Pending' # {}
        <4>1. tasks'[u] = tasks[u]
          BY <3>3, <3>5
        <4> QED
          BY <3>1, <3>4, <3>5, <4>1 DEF RaceInv
      <3> QED
        BY <3>1, <3>3, <3>4, <3>5 DEF RaceInv
    <2> QED
      BY <1>3, <2>1, <2>2, <2>3, TimerMoves
  <1> QED
    BY <1>1, <1>2, <1>3

\* The room opens with no timer running.
LEMMA RaceInit == Init => RaceInv
  <1> SUFFICES ASSUME Init
               PROVE  RaceInv
    OBVIOUS
  <1>1. tasks["timer"].stage = "idle"
    BY IdleStage DEF Init, Task
  <1> QED
    BY <1>1 DEF RaceInv, TimerStages

-----------------------------------------------------------------------------
(* Whatever is under way has a task that waits for it *)

\* Some task works on `of' at one of the stages.
Owned(of, stages) ==
    \E t \in Task : tasks[t].of = of /\ tasks[t].stage \in stages

\* The stages that see to an attempt, to a capture that was authorized, to an evaluation.
AttemptStages == {"transcribing", "recordTranscript"}
OpeningStages == {"capturing", "started", "captureFailed", "preserve"}
ClassifyStages == {"classifying", "recordEvaluation", "reconcileEvaluation"}

\* Every segment at `life' has a task at one of the stages that see to it.
SegmentsOwned(life, stages) ==
    \A s \in DOMAIN segments : segments[s].lifecycle = life => Owned(s, stages)

\* ... so every attempt and every authorized capture;
SpeechOwned ==
    /\ SegmentsOwned("transcribing", AttemptStages)
    /\ SegmentsOwned("captureAuthorized", OpeningStages)

\* ... every evaluation that was authorized, a task that classifies or reports it;
EvaluationsOwned == \A e \in Room!Authorized : Owned(e, ClassifyStages)

\* ... and every pending grace, the coordinator's timer, still waiting or completing it.
GracesOwned ==
    \A g \in Room!Pending : \/ coordinator.grace = g
                            \/ tasks["timer"].of = g /\ tasks["timer"].stage \in TimerStages

\* Unless an outcome was dropped, what the launched room has under way is owned.
WorkInv ==
    Launched /\ ~dropped =>
        SpeechOwned /\ EvaluationsOwned /\ GracesOwned

\* No segment is newly at `life'.
NoneNew(life) ==
    \A s \in DOMAIN segments' : segments'[s].lifecycle = life =>
        s \in DOMAIN segments /\ segments[s].lifecycle = life

\* Task t, if it sees to something of this kind, still sees to it.
StaysWith(t, stages) ==
    tasks[t].stage \in stages =>
        tasks'[t].stage \in stages /\ tasks'[t].of = tasks[t].of

\* A segment stays owned by a task that still sees to it, or is no longer at `life'.
LEMMA SegmentsStayOwned ==
    ASSUME NEW life, NEW stages, SegmentsOwned(life, stages), NoneNew(life),
           \/ UNCHANGED tasks
           \/ \E t \in Task : /\ Goes(t)
                              /\ \/ StaysWith(t, stages)
                                 \/ segments'[tasks[t].of].lifecycle # life
    PROVE  SegmentsOwned(life, stages)'
  <1> SUFFICES ASSUME NEW s \in DOMAIN segments', segments'[s].lifecycle = life
               PROVE  \E u \in Task : tasks'[u].of = s /\ tasks'[u].stage \in stages
    BY DEF SegmentsOwned, Owned
  <1>1. PICK u \in Task : tasks[u].of = s /\ tasks[u].stage \in stages
    BY DEF NoneNew, SegmentsOwned, Owned
  <1>2. CASE UNCHANGED tasks
    BY <1>1, <1>2
  <1>3. ASSUME NEW t \in Task, Goes(t),
               StaysWith(t, stages) \/ segments'[tasks[t].of].lifecycle # life
        PROVE  tasks'[u].of = s /\ tasks'[u].stage \in stages
    BY <1>1, <1>3 DEF Goes, StaysWith
  <1> QED
    BY <1>1, <1>2, <1>3

\* ... and so does an evaluation.
LEMMA EvaluationsStayOwned ==
    ASSUME EvaluationsOwned, Room!Authorized' \subseteq Room!Authorized,
           \/ UNCHANGED tasks
           \/ \E t \in Task : /\ Goes(t)
                              /\ \/ StaysWith(t, ClassifyStages)
                                 \/ tasks[t].of \notin Room!Authorized'
    PROVE  EvaluationsOwned'
  <1> SUFFICES ASSUME NEW e \in Room!Authorized'
               PROVE  \E u \in Task : tasks'[u].of = e /\ tasks'[u].stage \in ClassifyStages
    BY DEF EvaluationsOwned, Owned
  <1>1. PICK u \in Task : tasks[u].of = e /\ tasks[u].stage \in ClassifyStages
    BY DEF EvaluationsOwned, Owned
  <1>2. CASE UNCHANGED tasks
    BY <1>1, <1>2
  <1>3. ASSUME NEW t \in Task, Goes(t),
               StaysWith(t, ClassifyStages) \/ tasks[t].of \notin Room!Authorized'
        PROVE  tasks'[u].of = e /\ tasks'[u].stage \in ClassifyStages
    BY <1>1, <1>3 DEF Goes, StaysWith
  <1> QED
    BY <1>1, <1>2, <1>3

\* An outcome, once dropped, stays dropped until the process ends.
LEMMA DroppedStays ==
    ASSUME [Next]_vars, ~ProcessStep, dropped
    PROVE  dropped'
  <1>1. ASSUME NEW t, BeginStep(t)
        PROVE  dropped'
    BY <1>1
    DEF BeginStep, BeginSaved, BeginRefused, CaptureStarts, CaptureStartFails,
        CaptureFailedSaved, CaptureFailedRefused, StartedSaved, StartedRefused, PreserveSaved,
        PreserveRefused, PreserveRecordSaved, PreserveRecordRefused, Frame
  <1>2. ASSUME NEW t, TranscribeStep(t)
        PROVE  dropped'
    BY <1>2
    DEF TranscribeStep, FinalizeSaved, FinalizeRefused, RecordCaptureSaved,
        RecordCaptureRefused, AuthorizeSaved, AuthorizeRefused, Transcribed,
        TranscriptSaved, TranscriptRefused, Frame
  <1>3. ASSUME NEW t, EvaluateStep(t)
        PROVE  dropped'
    BY <1>3
    DEF EvaluateStep, EvaluateSaved, EvaluateRefused, Classified, EvaluationSaved,
        EvaluationRefused, ReconcileEvaluationSaved, ReconcileEvaluationRefused,
        ActivateGraceSaved, ActivateGraceRefused, Frame
  <1>4. GraceStep => dropped'
    BY DEF GraceStep, GraceRunsOut, CompleteSaved, CompleteRefused, ReconcileGraceSaved,
           ReconcileGraceRefused, Frame
  <1>5. RoomReturn => dropped'
    BY DEF RoomReturn, HandOffSaved, HandOffRefused, Replied, ReplyFails, FloorSaved,
           FloorRefused, ModeSaved, HoldSaved, KeepFloorSaved, ExcludeSaved, FinishSaved,
           DeskSaved, CommandRefused, Frame
  <1>6. RoomStart \/ AudioStep => dropped'
    BY DEF RoomStart, Pause, AudioStep, SpeechStarts, SpeechEnds, PlaybackStarts,
           PlaybackFinishes, PlaybackStopped, RecorderStops, Frame
  <1> QED
    BY <1>1, <1>2, <1>3, <1>4, <1>5, <1>6 DEF Next, vars

-----------------------------------------------------------------------------
(* Attempts and captures *)

\* What a step that keeps every lifecycle, or moves one segment, makes new.
LEMMA KeptMakesNone ==
    ASSUME SpeechKept \/ UNCHANGED segments, NEW life
    PROVE  NoneNew(life)
  BY DEF SpeechKept, NoneNew

\* ... and one that moves a segment elsewhere.
LEMMA BecomesMakesNone ==
    ASSUME NEW s \in DOMAIN segments, NEW made, NEW audio, Becomes(s, made, audio),
           NEW life, life # made
    PROVE  NoneNew(life) /\ segments'[s].lifecycle # life
  BY DEF Becomes, NoneNew

\* beginSegment: the task that begins a capture sees it through.
LEMMA BeginOwnsSpeech ==
    ASSUME SessionInv, NamesInv, SpeechOwned, NEW t \in Task, BeginStep(t), ~dropped'
    PROVE  SpeechOwned'
  <1> DEFINE of == tasks[t].of
  <1>1. Goes(t) /\ tasks[t].stage \in BeginStages /\ tasks'[t].stage \in BeginStages \cup {"idle"}
    BY BeginGoes
  <1>2. tasks[t].stage \notin AttemptStages /\ StaysWith(t, AttemptStages)
    BY <1>1 DEF BeginStages, AttemptStages, StaysWith
  <1>3. ASSUME NoneNew("transcribing")
        PROVE  SegmentsOwned("transcribing", AttemptStages)'
    BY <1>1, <1>2, <1>3, SegmentsStayOwned DEF SpeechOwned
  <1>4. ASSUME NoneNew("captureAuthorized"),
               StaysWith(t, OpeningStages) \/ segments'[of].lifecycle # "captureAuthorized"
        PROVE  SegmentsOwned("captureAuthorized", OpeningStages)'
    BY <1>1, <1>4, SegmentsStayOwned DEF SpeechOwned
  <1>5. tasks[t].stage \in SegmentStages => of \in DOMAIN segments
    BY DEF NamesInv, WellNamed, Names
  <1>6. CASE BeginSaved(t)
    <2> DEFINE s == Len(segments) + 1
    <2>1. Room!BeginSegment /\ await(t, tasks[t].op, "capturing", s)
      BY <1>6 DEF BeginSaved
    <2>2. tasks'[t].stage = "capturing" /\ tasks'[t].of = s
      BY <2>1, AwaitGoes DEF Waits
    <2>3. /\ DOMAIN segments' = DOMAIN segments \cup {s}
          /\ \A r \in DOMAIN segments : segments'[r] = segments[r]
          /\ segments'[s].lifecycle = "captureAuthorized"
          /\ Room!ActiveSegments = {}
      BY <2>1, BeginsFresh
    <2> HIDE DEF s
    <2>4. NoneNew("transcribing")
      BY <2>3 DEF NoneNew
    <2>5. \A r \in DOMAIN segments' : segments'[r].lifecycle = "captureAuthorized" => r = s
      BY <2>3 DEF Room!ActiveSegments, Room!isActiveSegment
    <2>6. SegmentsOwned("captureAuthorized", OpeningStages)'
      BY <2>2, <2>5 DEF SegmentsOwned, Owned, OpeningStages
    <2> QED
      BY <1>3, <2>4, <2>6 DEF SpeechOwned
  <1>7. CASE CaptureStarts(t) \/ CaptureStartFails(t) \/ StartedRefused(t)
    <2>1. UNCHANGED segments /\ \E stage \in OpeningStages :
                                    issue(t, tasks[t].op, stage, of, "none")
      BY <1>7 DEF CaptureStarts, CaptureStartFails, StartedRefused, issues, Refused, NoRoomStep,
                  room, OpeningStages
    <2>2. StaysWith(t, OpeningStages)
      BY <2>1 DEF StaysWith, issue, NamesInv
    <2> QED
      BY <1>3, <1>4, <2>1, <2>2, KeptMakesNone DEF SpeechOwned
  <1>8. CASE BeginRefused(t) \/ PreserveRecordRefused(t)
    <2>1. UNCHANGED segments /\ tasks[t].stage \notin OpeningStages
      BY <1>8 DEF BeginRefused, PreserveRecordRefused, Refused, At, NoRoomStep, room,
                  OpeningStages
    <2> QED
      BY <1>3, <1>4, <2>1, KeptMakesNone DEF SpeechOwned, StaysWith
  <1>9. CASE CaptureFailedRefused(t) \/ PreserveRefused(t)
    BY <1>9 DEF CaptureFailedRefused, PreserveRefused
  <1>10. ASSUME tasks[t].stage \in SegmentStages, NEW made, NEW audio, Becomes(of, made, audio),
                made \notin {"transcribing", "captureAuthorized"}
         PROVE  SpeechOwned'
    BY <1>3, <1>4, <1>5, <1>10, BecomesMakesNone DEF SpeechOwned
  <1>11. CASE \/ CaptureFailedSaved(t) \/ StartedSaved(t) \/ PreserveSaved(t)
              \/ PreserveRecordSaved(t)
    <2>1. tasks[t].stage \in SegmentStages
      BY <1>11 DEF CaptureFailedSaved, StartedSaved, PreserveSaved, PreserveRecordSaved,
                   Admitted, At, SegmentStages
    <2>2. \E made \in {"failed", "recording", "finalizationAuthorized", "audioReady"} : \E audio :
              Becomes(of, made, audio)
      BY <1>5, <1>11, <2>1, CaptureBecomes
      DEF CaptureFailedSaved, StartedSaved, PreserveSaved, PreserveRecordSaved
    <2> QED
      BY <1>10, <2>1, <2>2
  <1> QED
    BY <1>6, <1>7, <1>8, <1>9, <1>11 DEF BeginStep

\* finalizeActiveSegment and transcribe: the task that authorizes an attempt sees
\* it through.
LEMMA TranscribeOwnsSpeech ==
    ASSUME SessionInv, NamesInv, SpeechOwned, NEW t \in Task, TranscribeStep(t), ~dropped'
    PROVE  SpeechOwned'
  <1> DEFINE of == tasks[t].of
  <1>1. /\ Goes(t) /\ tasks[t].stage \in TranscribeStages
    BY TranscribeGoes
  <1>2. tasks[t].stage \notin OpeningStages /\ StaysWith(t, OpeningStages)
    BY <1>1 DEF TranscribeStages, OpeningStages, StaysWith
  <1>3. of \in DOMAIN segments
    BY <1>1 DEF NamesInv, WellNamed, Names, SegmentStages, TranscribeStages
  <1>4. ASSUME NoneNew("captureAuthorized")
        PROVE  SegmentsOwned("captureAuthorized", OpeningStages)'
    BY <1>1, <1>2, <1>4, SegmentsStayOwned DEF SpeechOwned
  <1>5. ASSUME NoneNew("transcribing"),
               StaysWith(t, AttemptStages) \/ segments'[of].lifecycle # "transcribing"
        PROVE  SegmentsOwned("transcribing", AttemptStages)'
    BY <1>1, <1>5, SegmentsStayOwned DEF SpeechOwned
  <1>6. ASSUME NEW made, NEW audio, Becomes(of, made, audio),
               made \notin {"transcribing", "captureAuthorized"}
        PROVE  SpeechOwned'
    BY <1>3, <1>4, <1>5, <1>6, BecomesMakesNone DEF SpeechOwned
  <1>7. CASE FinalizeSaved(t) \/ RecordCaptureSaved(t)
    <2>1. \E made \in {"failed", "finalizationAuthorized", "audioReady"} : \E audio :
              Becomes(of, made, audio)
      BY <1>3, <1>7, CaptureBecomes DEF FinalizeSaved, RecordCaptureSaved
    <2> QED
      BY <1>6, <2>1
  <1>8. CASE TranscriptSaved(t)
    <2>1. \E made \in {"transcribed", "audioReady"} : \E audio : Becomes(of, made, audio)
      BY <1>3, <1>8, TranscriptBecomes DEF TranscriptSaved
    <2> QED
      BY <1>6, <2>1
  <1>9. CASE FinalizeRefused(t) \/ AuthorizeRefused(t)
    <2>1. UNCHANGED segments /\ tasks[t].stage \notin AttemptStages
      BY <1>9 DEF FinalizeRefused, AuthorizeRefused, Refused, At, NoRoomStep, room,
                  AttemptStages
    <2> QED
      BY <1>4, <1>5, <2>1, KeptMakesNone DEF SpeechOwned, StaysWith
  <1>10. CASE RecordCaptureRefused(t) \/ TranscriptRefused(t)
    BY <1>10 DEF RecordCaptureRefused, TranscriptRefused
  <1>11. CASE Transcribed(t)
    <2>1. UNCHANGED segments
          /\ \E result : issue(t, tasks[t].op, "recordTranscript", of, result)
      BY <1>11 DEF Transcribed, issues, NoRoomStep, room
    <2>2. StaysWith(t, AttemptStages)
      BY <2>1 DEF StaysWith, issue, NamesInv, AttemptStages
    <2> QED
      BY <1>4, <1>5, <2>1, <2>2, KeptMakesNone DEF SpeechOwned
  <1>12. CASE AuthorizeSaved(t)
    <2>1. Becomes(of, "transcribing", segments[of].audio)
      BY <1>3, <1>12, TranscriptBecomes DEF AuthorizeSaved
    <2>2. tasks[t].stage \notin AttemptStages
      BY <1>12 DEF AuthorizeSaved, Admitted, At, AttemptStages
    <2>3. \/ await(t, tasks[t].op, "transcribing", of)
          \/ issue(t, tasks[t].op, "recordTranscript", of, "failed")
      BY <1>12 DEF AuthorizeSaved, issues
    <2>4. tasks'[t].of = of /\ tasks'[t].stage \in AttemptStages
      BY <2>3 DEF await, issue, NamesInv, AttemptStages
    <2>5. ASSUME NEW s \in DOMAIN segments', segments'[s].lifecycle = "transcribing"
          PROVE  \E u \in Task : tasks'[u].of = s /\ tasks'[u].stage \in AttemptStages
      <3>1. CASE s = of
        BY <2>4, <3>1
      <3>2. CASE s # of
        <4>1. s \in DOMAIN segments /\ segments[s].lifecycle = "transcribing"
          BY <2>1, <2>5, <3>2 DEF Becomes
        <4>2. PICK u \in Task : tasks[u].of = s /\ tasks[u].stage \in AttemptStages
          BY <4>1 DEF SpeechOwned, SegmentsOwned, Owned
        <4>3. tasks'[u] = tasks[u]
          BY <1>1, <2>2, <4>2 DEF Goes
        <4> QED
          BY <4>2, <4>3
      <3> QED
        BY <3>1, <3>2
    <2>6. SegmentsOwned("transcribing", AttemptStages)'
      BY <2>5 DEF SegmentsOwned, Owned
    <2> QED
      BY <1>3, <1>4, <2>1, <2>6, BecomesMakesNone DEF SpeechOwned
  <1> QED
    BY <1>7, <1>8, <1>9, <1>10, <1>11, <1>12 DEF TranscribeStep

\* What has nothing to do with speech leaves its owners to it.
LEMMA OthersOwnSpeech ==
    ASSUME SpeechOwned, SpeechKept \/ UNCHANGED segments,
           \/ UNCHANGED tasks
           \/ \E t \in Task : /\ Goes(t)
                              /\ tasks[t].stage \notin AttemptStages \cup OpeningStages
    PROVE  SpeechOwned'
  BY SegmentsStayOwned, KeptMakesNone DEF SpeechOwned, StaysWith

\* Every step that is not of the process keeps attempts and captures owned.
LEMMA WorkOwnsSpeech ==
    ASSUME SessionInv, NamesInv, ControlInv, SpeechOwned, [Next]_vars, ~ProcessStep, ~dropped'
    PROVE  SpeechOwned'
  <1>0. {"user", "acoustic", "recorder", "timer"} \subseteq Task
    BY DEF Task
  <1>1. ASSUME NEW t \in {"user", "acoustic"}, EvaluateStep(t)
        PROVE  SpeechOwned'
    BY <1>0, <1>1, EvaluateGoes, EvaluateKeepsSpeech, OthersOwnSpeech
    DEF EvaluateStages, AttemptStages, OpeningStages
  <1>2. CASE GraceStep
    BY <1>0, <1>2, GraceGoes, GraceKeepsSpeech, IdleStage, OthersOwnSpeech
    DEF TimerStages, AttemptStages, OpeningStages
  <1>3. CASE RoomReturn
    <2>1. PICK t \in Task : Goes(t) /\ tasks[t].stage \in ReturnStages
      BY <1>3, ReturnGoes
    <2>2. tasks[t].stage \notin AttemptStages \cup OpeningStages
      BY <2>1 DEF ReturnStages, AttemptStages, OpeningStages
    <2>3. CASE SpeechKept
      BY <2>1, <2>2, <2>3, OthersOwnSpeech
    <2>4. CASE ExcludeSaved
      <3>1. tasks["user"].of \in DOMAIN segments
        BY <1>0, <2>4 DEF ExcludeSaved, Admitted, At, NamesInv, WellNamed, Names, SegmentStages
      <3>2. Becomes(tasks["user"].of, "excluded", segments[tasks["user"].of].audio)
        BY <2>4, <3>1, CaptureBecomes DEF ExcludeSaved
      <3>3. NoneNew("transcribing") /\ NoneNew("captureAuthorized")
        BY <3>1, <3>2, BecomesMakesNone
      <3> QED
        BY <2>1, <2>2, <3>3, SegmentsStayOwned DEF SpeechOwned, StaysWith
    <2> QED
      BY <1>3, <2>3, <2>4, ReturnKeepsSpeech
  <1>4. CASE RoomStart \/ AudioStep
    <2>1. UNCHANGED segments
      BY <1>4, StartsKeepRoom DEF NoRoomStep, room
    <2>2. UNCHANGED tasks \/ \E t \in Task : Goes(t) /\ tasks[t].stage \in {"idle", "stopping"}
      BY <1>4, StartGoes, AudioGoes
    <2> QED
      BY <2>1, <2>2, OthersOwnSpeech DEF AttemptStages, OpeningStages
  <1>5. CASE UNCHANGED vars
    BY <1>5, OthersOwnSpeech DEF vars
  <1> QED
    BY <1>0, <1>1, <1>2, <1>3, <1>4, <1>5, BeginOwnsSpeech, TranscribeOwnsSpeech DEF Next

-----------------------------------------------------------------------------
(* Evaluations *)

\* Capturing touches no evaluation;
LEMMA BeginKeepsEvaluations ==
    ASSUME NEW t, BeginStep(t)
    PROVE  UNCHANGED endpointEvaluations
  BY DEF BeginStep, BeginSaved, BeginRefused, CaptureStarts, CaptureStartFails,
      CaptureFailedSaved, CaptureFailedRefused, StartedSaved, StartedRefused, PreserveSaved,
      PreserveRefused, PreserveRecordSaved, PreserveRecordRefused, Refused, NoRoomStep, room,
      Room!BeginSegment, Room!RecordCaptureFailed, Room!RecordRecordingStarted,
      Room!FinalizeSegment, Room!RecordCaptureFinalized, Room!RewriteSegment

\* ... nor does a grace that runs out,
LEMMA GraceKeepsEvaluations ==
    ASSUME GraceStep
    PROVE  UNCHANGED endpointEvaluations
  BY DEF GraceStep, GraceRunsOut, CompleteSaved, CompleteRefused, ReconcileGraceSaved,
         ReconcileGraceRefused, Refused, NoRoomStep, room, Room!CancelEndpointGrace,
         Room!CompleteEndpointGrace, Room!handOffSegments, Room!handOff

\* ... nor do the room's commands.
LEMMA ReturnKeepsEvaluations ==
    ASSUME RoomReturn
    PROVE  UNCHANGED endpointEvaluations
  <1>1. HandOffSaved => UNCHANGED endpointEvaluations
    BY DEF HandOffSaved, Room!SendAnswer, Room!HandOffSegments, Room!RetryInterviewerResponse,
           Room!handOffSegments, Room!handOff, Room!manifest
  <1>2. ASSUME NEW t, Replied(t) \/ ReplyFails(t)
        PROVE  UNCHANGED endpointEvaluations
    BY <1>2 DEF Replied, ReplyFails, Room!InterviewerResponds, Room!InterviewerFails,
                Room!manifest
  <1>3. ASSUME NEW t, HandOffRefused \/ FloorSaved(t) \/ FloorRefused(t) \/ CommandRefused(t)
        PROVE  UNCHANGED endpointEvaluations
    BY <1>3 DEF HandOffRefused, FloorSaved, FloorRefused, CommandRefused, Refused, NoRoomStep,
                room, Room!GiveCandidateFloor, Room!floorPolicy
  <1>4. ModeSaved \/ HoldSaved \/ KeepFloorSaved => UNCHANGED endpointEvaluations
    BY DEF ModeSaved, HoldSaved, KeepFloorSaved, Room!SetTurnMode, Room!ActivateFloorHold,
           Room!CancelEndpointGrace
  <1>5. ExcludeSaved \/ FinishSaved \/ DeskSaved => UNCHANGED endpointEvaluations
    BY DEF ExcludeSaved, FinishSaved, DeskSaved, NoRoomStep, room, Room!ExcludeSegment,
           Room!RewriteSegment, Room!Finish, Room!UpdateCandidateNotes, Room!UpdateBoardDraft,
           Room!floorPolicy
  <1> QED
    BY <1>1, <1>2, <1>3, <1>4, <1>5 DEF RoomReturn

\* evaluateEndpointIfNeeded: the task that authorizes an evaluation sees it through.
LEMMA EvaluateOwnsEvaluations ==
    ASSUME SessionInv, NamesInv, EvaluationsOwned, NEW t \in Task, EvaluateStep(t), ~dropped'
    PROVE  EvaluationsOwned'
  <1> DEFINE e == tasks[t].of
  <1>1. Goes(t)
    BY EvaluateGoes
  <1>2. ASSUME UNCHANGED endpointEvaluations, StaysWith(t, ClassifyStages)
        PROVE  EvaluationsOwned'
    <2>1. Room!Authorized' = Room!Authorized
      BY <1>2 DEF Room!Authorized
    <2> QED
      BY <1>1, <1>2, <2>1, EvaluationsStayOwned
  <1>3. ASSUME e \in Room!Authorized,
               NEW f, f.lifecycle # "authorized",
               endpointEvaluations' = [endpointEvaluations EXCEPT ![e] = f]
        PROVE  EvaluationsOwned'
    <2>1. Room!Authorized' \subseteq Room!Authorized /\ e \notin Room!Authorized'
      BY <1>3 DEF Room!Authorized
    <2> QED
      BY <1>1, <2>1, EvaluationsStayOwned
  <1>4. ASSUME e \in Room!Authorized
        PROVE  endpointEvaluations[e] \in Room!EndpointEvaluation
    BY <1>4 DEF SessionInv, Room!TypeOK, Room!Authorized
  <1>5. Room!RecordEndpointFailure(e) => EvaluationsOwned'
    <2> SUFFICES ASSUME Room!RecordEndpointFailure(e)
                 PROVE  EvaluationsOwned'
      OBVIOUS
    <2> DEFINE f == [endpointEvaluations[e] EXCEPT !.lifecycle = "failed"]
    <2>1. e \in Room!Authorized /\ endpointEvaluations' = [endpointEvaluations EXCEPT ![e] = f]
      BY DEF Room!RecordEndpointFailure
    <2>2. f.lifecycle # "authorized"
      BY <1>4, <2>1 DEF Room!EndpointEvaluation
    <2> HIDE DEF f
    <2> QED
      BY <1>3, <2>1, <2>2
  <1>6. ASSUME NEW decision, Room!RecordEndpointProposal(e, decision)
        PROVE  EvaluationsOwned'
    <2> DEFINE was == endpointEvaluations[e]
               f == IF Room!isCurrentEndpointEvaluation(was)
                    THEN [was EXCEPT !.lifecycle = "proposalStored", !.decision = decision]
                    ELSE [was EXCEPT !.lifecycle = "failed"]
    <2>1. e \in Room!Authorized /\ endpointEvaluations' = [endpointEvaluations EXCEPT ![e] = f]
      BY <1>6 DEF Room!RecordEndpointProposal
    <2>2. f.lifecycle # "authorized"
      BY <1>4, <2>1 DEF Room!EndpointEvaluation
    <2> HIDE DEF f
    <2> QED
      BY <1>3, <2>1, <2>2
  <1>7. CASE Classified(t)
    <2>1. UNCHANGED endpointEvaluations
          /\ \E result : issue(t, tasks[t].op, "recordEvaluation", e, result)
      BY <1>7 DEF Classified, issues, NoRoomStep, room
    <2> QED
      BY <1>2, <2>1 DEF StaysWith, issue, NamesInv, ClassifyStages
  <1>8. CASE EvaluationRefused(t)
    <2>1. UNCHANGED endpointEvaluations
          /\ issue(t, tasks[t].op, "reconcileEvaluation", e, "none")
      BY <1>8 DEF EvaluationRefused, issues, Refused, NoRoomStep, room
    <2> QED
      BY <1>2, <2>1 DEF StaysWith, issue, NamesInv, ClassifyStages
  <1>9. CASE EvaluateRefused(t) \/ ActivateGraceSaved(t) \/ ActivateGraceRefused(t)
    <2>1. UNCHANGED endpointEvaluations /\ tasks[t].stage \notin ClassifyStages
      BY <1>9 DEF EvaluateRefused, ActivateGraceSaved, ActivateGraceRefused, Refused,
                  Admitted, At, NoRoomStep, room, ClassifyStages, Room!ActivateEndpointGrace
    <2> QED
      BY <1>2, <2>1 DEF StaysWith
  <1>10. CASE EvaluationSaved(t) \/ ReconcileEvaluationSaved(t)
    BY <1>5, <1>6, <1>10 DEF EvaluationSaved, ReconcileEvaluationSaved
  <1>11. CASE ReconcileEvaluationRefused(t)
    BY <1>11 DEF ReconcileEvaluationRefused
  <1>12. CASE EvaluateSaved(t)
    <2>1. tasks[t].stage = "evaluate"
      BY <1>12 DEF EvaluateSaved, Admitted, At
    <2>2. CASE NoRoomStep
      BY <1>2, <2>1, <2>2 DEF NoRoomStep, room, StaysWith, ClassifyStages
    <2>3. CASE ~NoRoomStep
      <3>1. PICK question, context : Room!AuthorizeEndpointEvaluation(e, question, context)
        BY <1>12, <2>3 DEF EvaluateSaved
      <3>2. await(t, tasks[t].op, "classifying", Len(endpointEvaluations'))
        BY <1>12, <2>3 DEF EvaluateSaved
      <3>3. tasks'[t].stage = "classifying" /\ tasks'[t].of = Len(endpointEvaluations')
        BY <3>2, AwaitGoes DEF Waits
      <3>4. PICK evaluation : endpointEvaluations' = Append(endpointEvaluations, evaluation)
        BY <3>1 DEF Room!AuthorizeEndpointEvaluation
      <3>5. endpointEvaluations \in Seq(Room!EndpointEvaluation)
        BY DEF SessionInv, Room!TypeOK
      <3>6. /\ DOMAIN endpointEvaluations = 1..Len(endpointEvaluations)
            /\ DOMAIN endpointEvaluations' = 1..Len(endpointEvaluations')
            /\ Len(endpointEvaluations') = Len(endpointEvaluations) + 1
            /\ \A i \in DOMAIN endpointEvaluations :
                   endpointEvaluations'[i] = endpointEvaluations[i]
            /\ Len(endpointEvaluations) \in Nat
        BY <3>4, <3>5
      <3>7. Room!Authorized' \subseteq Room!Authorized \cup {Len(endpointEvaluations')}
        BY <3>6 DEF Room!Authorized
      <3>8. ASSUME NEW d \in Room!Authorized', d \in Room!Authorized
            PROVE  Owned(d, ClassifyStages)'
        <4>1. PICK u \in Task : tasks[u].of = d /\ tasks[u].stage \in ClassifyStages
          BY <3>8 DEF EvaluationsOwned, Owned
        <4>2. tasks'[u] = tasks[u]
          BY <1>1, <2>1, <4>1 DEF Goes, ClassifyStages
        <4> QED
          BY <4>1, <4>2 DEF Owned
      <3>9. \A d : d = Len(endpointEvaluations') =>
                \E u \in Task : tasks'[u].of = d /\ tasks'[u].stage \in ClassifyStages
        BY <3>3 DEF ClassifyStages
      <3> QED
        BY <3>7, <3>8, <3>9 DEF EvaluationsOwned, Owned
    <2> QED
      BY <2>2, <2>3
  <1> QED
    BY <1>7, <1>8, <1>9, <1>10, <1>11, <1>12 DEF EvaluateStep

\* Every step that is not of the process keeps evaluations owned.
LEMMA WorkOwnsEvaluations ==
    ASSUME SessionInv, NamesInv, ControlInv, EvaluationsOwned, [Next]_vars, ~ProcessStep,
           ~dropped'
    PROVE  EvaluationsOwned'
  <1>0. {"user", "acoustic", "recorder", "timer"} \subseteq Task
    BY DEF Task
  <1>1. ASSUME UNCHANGED endpointEvaluations,
               \/ UNCHANGED tasks
               \/ \E t \in Task : Goes(t) /\ tasks[t].stage \notin ClassifyStages
        PROVE  EvaluationsOwned'
    <2>1. Room!Authorized' = Room!Authorized
      BY <1>1 DEF Room!Authorized
    <2> QED
      BY <1>1, <2>1, EvaluationsStayOwned DEF StaysWith
  <1>2. ASSUME NEW t \in {"user", "acoustic"}, BeginStep(t)
        PROVE  EvaluationsOwned'
    BY <1>0, <1>1, <1>2, BeginGoes, BeginKeepsEvaluations DEF BeginStages, ClassifyStages
  <1>3. ASSUME NEW t \in {"user", "acoustic", "recorder"}, TranscribeStep(t)
        PROVE  EvaluationsOwned'
    BY <1>0, <1>1, <1>3, TranscribeGoes, TranscribeGraces DEF TranscribeStages, ClassifyStages
  <1>4. CASE GraceStep
    BY <1>0, <1>1, <1>4, GraceGoes, IdleStage, GraceKeepsEvaluations
    DEF TimerStages, ClassifyStages
  <1>5. CASE RoomReturn
    BY <1>1, <1>5, ReturnGoes, ReturnKeepsEvaluations DEF ReturnStages, ClassifyStages
  <1>6. CASE RoomStart \/ AudioStep
    <2>1. UNCHANGED endpointEvaluations
      BY <1>6, StartsKeepRoom DEF NoRoomStep, room
    <2>2. UNCHANGED tasks \/ \E t \in Task : Goes(t) /\ tasks[t].stage \in {"idle", "stopping"}
      BY <1>6, StartGoes, AudioGoes
    <2> QED
      BY <1>1, <2>1, <2>2 DEF ClassifyStages
  <1>7. CASE UNCHANGED vars
    BY <1>1, <1>7 DEF vars
  <1> QED
    BY <1>0, <1>2, <1>3, <1>4, <1>5, <1>6, <1>7, EvaluateOwnsEvaluations DEF Next

-----------------------------------------------------------------------------
(* The grace the coordinator waits for *)

\* Arming, disarming and hearing leave it alone; what cancels it does so only when
\* no grace is pending any more.
LEMMA GraceOf ==
    ASSUME NEW c \in Coordinator, NEW snap
    PROVE  /\ \A mode : arm(c, mode).grace = c.grace
           /\ disarm(c).grace = c.grace
           /\ armContinuousListeningIfNeeded(c, snap).grace = c.grace
           /\ snap.pending = {} \/ cancelScheduledGraceIfInactive(c, snap) = c
           /\ \A wants : [c EXCEPT !.wantsContinuousListening = wants].grace = c.grace
           /\ \A active : [c EXCEPT !.isSpeechActive = active].grace = c.grace
  <1>1. \A mode : arm(c, mode).grace = c.grace
    BY DEF arm, Coordinator
  <1>2. disarm(c).grace = c.grace
    BY DEF disarm, Coordinator
  <1>3. armContinuousListeningIfNeeded(c, snap).grace = c.grace
    BY <1>1 DEF armContinuousListeningIfNeeded
  <1>4. snap.pending = {} \/ cancelScheduledGraceIfInactive(c, snap) = c
    BY DEF cancelScheduledGraceIfInactive
  <1>5. /\ \A wants : [c EXCEPT !.wantsContinuousListening = wants].grace = c.grace
        /\ \A active : [c EXCEPT !.isSpeechActive = active].grace = c.grace
    BY DEF Coordinator
  <1> QED
    BY <1>1, <1>2, <1>3, <1>4, <1>5

\* A task that ends leaves the grace as its caller passed it.
LEMMA EndsGrace ==
    ASSUME NEW t, NEW c \in Coordinator, Ends(t, c) \/ Returns(t, c)
    PROVE  coordinator'.grace = c.grace
  <1>1. \/ coordinator' = c
        \/ coordinator' = armContinuousListeningIfNeeded(c, snapshot')
    BY DEF Ends, Returns
  <1>2. PICK snap : snap = snapshot'
    OBVIOUS
  <1> QED
    BY <1>1, <1>2, GraceOf

\* What the published manifest says is pending is what is.
LEMMA PublishedPending == Publish => snapshot'.pending = Room!Pending'
  BY DEF Publish, Projection

\* A session that awaits the interviewer has no grace pending.
LEMMA ReplyingGraces ==
    ASSUME SessionInv, AdmissionInv, NEW t \in Task, At(t, "replying")
    PROVE  Room!Pending = {}
  BY SessionFacts DEF AdmissionInv, At

\* The coordinator waits for the grace it waited for, or none is pending any more.
GraceKept == coordinator'.grace = coordinator.grace \/ Room!Pending' = {}

\* So it is in beginSegment,
LEMMA BeginKeepsGrace ==
    ASSUME FieldsInv, NEW t, BeginStep(t)
    PROVE  GraceKept
  <1>1. coordinator \in Coordinator
    BY DEF FieldsInv
  <1>2. CASE BeginSaved(t)
    <2>1. PICK snap : snap = snapshot'
      OBVIOUS
    <2>2. snap.pending = {} \/ cancelScheduledGraceIfInactive(coordinator, snap) = coordinator
      BY <1>1, GraceOf
    <2> QED
      BY <1>2, <2>1, <2>2, PublishedPending DEF BeginSaved, GraceKept
  <1>3. CASE ~BeginSaved(t)
    <2>1. UNCHANGED coordinator \/ Ends(t, coordinator)
      BY <1>3
      DEF BeginStep, BeginRefused, CaptureStarts, CaptureStartFails, CaptureFailedSaved,
          CaptureFailedRefused, StartedSaved, StartedRefused, PreserveSaved,
          PreserveRefused, PreserveRecordSaved, PreserveRecordRefused
    <2> QED
      BY <1>1, <2>1, EndsGrace DEF GraceKept
  <1> QED
    BY <1>2, <1>3

\* ... finalizeActiveSegment and transcribe,
LEMMA TranscribeKeepsGrace ==
    ASSUME FieldsInv, NEW t, TranscribeStep(t)
    PROVE  GraceKept
  <1>1. UNCHANGED coordinator \/ Ends(t, coordinator) \/ Returns(t, coordinator)
    BY DEF TranscribeStep, FinalizeSaved, FinalizeRefused, RecordCaptureSaved,
           RecordCaptureRefused, AuthorizeSaved, AuthorizeRefused, Transcribed,
           TranscriptSaved, TranscriptRefused, TranscribesNext
  <1> QED
    BY <1>1, EndsGrace DEF FieldsInv, GraceKept

\* ... evaluateEndpointIfNeeded, until it activates another,
LEMMA EvaluateKeepsGrace ==
    ASSUME FieldsInv, NEW t, EvaluateStep(t), ~ActivateGraceSaved(t)
    PROVE  GraceKept
  <1>1. coordinator \in Coordinator
    BY DEF FieldsInv
  <1>2. PICK snap : snap = snapshot'
    OBVIOUS
  <1> DEFINE listening == armContinuousListeningIfNeeded(coordinator, snap)
  <1>3. listening \in Coordinator /\ listening.grace = coordinator.grace
    BY <1>1, ArmTypes, GraceOf
  <1> HIDE DEF listening
  <1>4. UNCHANGED coordinator \/ Returns(t, coordinator) \/ Returns(t, listening)
    BY <1>2 DEF EvaluateStep, EvaluateSaved, EvaluateRefused, Classified, EvaluationSaved,
                EvaluationRefused, ReconcileEvaluationSaved, ReconcileEvaluationRefused,
                ActivateGraceRefused, listening
  <1> QED
    BY <1>1, <1>3, <1>4, EndsGrace DEF GraceKept

\* ... the room's commands, which cancel what they wait for only once it is cancelled there,
LEMMA ReturnKeepsGrace ==
    ASSUME SessionInv, AdmissionInv, FieldsInv, RoomReturn
    PROVE  GraceKept
  <1>1. coordinator \in Coordinator
    BY DEF FieldsInv
  <1>2. PICK snap : snap = snapshot'
    OBVIOUS
  <1> DEFINE inactive == cancelScheduledGraceIfInactive(coordinator, snap)
             heard == armContinuousListeningIfNeeded(coordinator, snap)
  <1>3. /\ inactive \in Coordinator
        /\ snap.pending = {} \/ inactive = coordinator
        /\ heard.grace = coordinator.grace
    BY <1>1, ArmTypes, GraceOf
  <1>4. Publish /\ snap.pending = {} => GraceKept
    BY <1>2, PublishedPending DEF GraceKept
  <1> HIDE DEF inactive, heard
  <1>5. CASE ModeSaved
    <2> DEFINE quiet == [inactive EXCEPT !.wantsContinuousListening = FALSE]
               next == IF tasks["user"].result = "continuousConversation"
                       THEN armContinuousListeningIfNeeded(inactive, snap) ELSE disarm(quiet)
    <2>1. quiet \in Coordinator /\ quiet.grace = inactive.grace
      BY <1>3, ArmTypes, GraceOf
    <2> HIDE DEF quiet
    <2>2. next \in Coordinator /\ next.grace = inactive.grace
      BY <1>3, <2>1, ArmTypes, GraceOf
    <2>3. Publish /\ Ends("user", next)
      BY <1>2, <1>5 DEF ModeSaved, inactive, quiet
    <2> HIDE DEF next
    <2> QED
      BY <1>3, <1>4, <2>2, <2>3, EndsGrace DEF GraceKept
  <1>6. CASE HoldSaved
    <2> DEFINE next == armContinuousListeningIfNeeded(inactive, snap)
    <2>1. next \in Coordinator /\ next.grace = inactive.grace
      BY <1>3, ArmTypes, GraceOf
    <2>2. Publish /\ Ends("user", next)
      BY <1>2, <1>6 DEF HoldSaved, inactive
    <2> HIDE DEF next
    <2> QED
      BY <1>3, <1>4, <2>1, <2>2, EndsGrace DEF GraceKept
  <1>7. CASE DeskSaved
    <2>1. Publish /\ (Ends("desk", coordinator) \/ Ends("desk", inactive))
      BY <1>2, <1>7 DEF DeskSaved, inactive
    <2> QED
      BY <1>1, <1>3, <1>4, <2>1, EndsGrace DEF GraceKept
  <1>8. CASE KeepFloorSaved \/ FinishSaved
    BY <1>8, GraceClears DEF KeepFloorSaved, FinishSaved, GraceKept
  <1>9. ASSUME NEW t \in {"user", "timer"}, Replied(t) \/ ReplyFails(t)
        PROVE  GraceKept
    <2>1. Room!Pending = {}
      BY <1>9, ReplyingGraces DEF Task, Replied, ReplyFails
    <2>2. UNCHANGED endpointGraces
      BY <1>9 DEF Replied, ReplyFails, Room!InterviewerResponds, Room!InterviewerFails,
                  Room!manifest
    <2> QED
      BY <2>1, <2>2 DEF GraceKept, Room!Pending
  <1>10. ASSUME NEW t, FloorSaved(t) \/ FloorRefused(t)
         PROVE  GraceKept
    <2>1. coordinator' = coordinator \/ coordinator' = heard
      BY <1>2, <1>10 DEF FloorSaved, FloorRefused, heard
    <2> QED
      BY <1>3, <2>1 DEF GraceKept
  <1>11. ASSUME NEW t, \/ HandOffSaved \/ HandOffRefused \/ ExcludeSaved
                       \/ CommandRefused(t)
         PROVE  GraceKept
    <2>1. \/ UNCHANGED coordinator \/ Ends("user", coordinator) \/ Ends(t, coordinator)
      BY <1>11 DEF HandOffSaved, HandOffRefused, ExcludeSaved, CommandRefused
    <2> QED
      BY <1>1, <2>1, EndsGrace DEF GraceKept
  <1> QED
    BY <1>5, <1>6, <1>7, <1>8, <1>9, <1>10, <1>11 DEF RoomReturn

\* ... the operations the room starts and the events it hears.
LEMMA StartsKeepGrace ==
    ASSUME FieldsInv, RoomStart \/ AudioStep
    PROVE  GraceKept
  <1>1. coordinator \in Coordinator
    BY DEF FieldsInv
  <1> DEFINE quiet == [coordinator EXCEPT !.wantsContinuousListening = FALSE]
             still == [coordinator EXCEPT !.isSpeechActive = FALSE]
             spoken == [coordinator EXCEPT !.isSpeechActive = TRUE]
  <1>2. /\ quiet \in Coordinator /\ quiet.grace = coordinator.grace
        /\ still \in Coordinator /\ still.grace = coordinator.grace
        /\ spoken.grace = coordinator.grace
    BY <1>1, ArmTypes, GraceOf
  <1>3. \/ UNCHANGED coordinator
        \/ coordinator' = disarm(quiet)
        \/ coordinator' = still
        \/ coordinator' = spoken
        \/ coordinator' = armContinuousListeningIfNeeded(still, snapshot)
        \/ coordinator' = armContinuousListeningIfNeeded(coordinator, snapshot)
        \/ coordinator' = arm(coordinator, "bargeInDetection")
    BY DEF RoomStart, Pause, AudioStep, SpeechStarts, SpeechEnds, PlaybackStarts,
           PlaybackFinishes, PlaybackStopped, RecorderStops
  <1> HIDE DEF quiet, still, spoken
  <1>4. /\ disarm(quiet).grace = quiet.grace
        /\ armContinuousListeningIfNeeded(still, snapshot).grace = still.grace
        /\ armContinuousListeningIfNeeded(coordinator, snapshot).grace = coordinator.grace
        /\ arm(coordinator, "bargeInDetection").grace = coordinator.grace
    BY <1>1, <1>2, GraceOf
  <1> QED
    BY <1>2, <1>3, <1>4 DEF GraceKept

-----------------------------------------------------------------------------
(* Every pending grace is waited for *)

\* A step that changes no grace and neither the coordinator's nor the timer's.
LEMMA GracesStayOwned ==
    ASSUME GracesOwned, UNCHANGED endpointGraces \/ Room!Pending' = {}, GraceKept,
           tasks["timer"].stage \in TimerStages => tasks'["timer"] = tasks["timer"]
    PROVE  GracesOwned'
  <1>1. CASE Room!Pending' = {}
    BY <1>1 DEF GracesOwned
  <1>2. CASE UNCHANGED endpointGraces /\ coordinator'.grace = coordinator.grace
    <2>1. Room!Pending' = Room!Pending
      BY <1>2 DEF Room!Pending
    <2> QED
      BY <1>2, <2>1 DEF GracesOwned
  <1> QED
    BY <1>1, <1>2 DEF GraceKept

\* A grace that is activated is the only one, and scheduled at once.
LEMMA ActivationOwned ==
    ASSUME SessionInv, FieldsInv, NEW t, ActivateGraceSaved(t)
    PROVE  GracesOwned'
  <1>1. Room!Pending = {}
    BY DEF ActivateGraceSaved, Room!ActivateEndpointGrace
  <1>2. PICK grace : endpointGraces' = Append(endpointGraces, grace)
    BY DEF ActivateGraceSaved, Room!ActivateEndpointGrace
  <1>3. endpointGraces \in Seq(Room!EndpointGrace)
    BY DEF SessionInv, Room!TypeOK
  <1>4. /\ DOMAIN endpointGraces = 1..Len(endpointGraces) /\ Len(endpointGraces) \in Nat
        /\ Len(endpointGraces') = Len(endpointGraces) + 1
        /\ DOMAIN endpointGraces' = 1..Len(endpointGraces')
        /\ \A g \in DOMAIN endpointGraces : endpointGraces'[g] = endpointGraces[g]
    BY <1>2, <1>3
  <1>5. Room!Pending' \subseteq {Len(endpointGraces')}
    BY <1>1, <1>4 DEF Room!Pending
  <1>6. PICK g : g = Len(endpointGraces')
    OBVIOUS
  <1> DEFINE scheduled == [coordinator EXCEPT !.grace = g]
  <1>7. scheduled \in Coordinator /\ scheduled.grace = g
    <2>1. g \in Nat
      BY <1>4, <1>6
    <2>2. coordinator \in Coordinator
      BY DEF FieldsInv
    <2>3. scheduled \in Coordinator
      BY <2>1, <2>2, ArmTypes
    <2>4. scheduled.grace = g
      BY <2>2 DEF Coordinator
    <2> QED
      BY <2>3, <2>4
  <1>8. Returns(t, scheduled)
    BY <1>6 DEF ActivateGraceSaved
  <1> HIDE DEF scheduled
  <1>9. coordinator'.grace = g
    BY <1>7, <1>8, EndsGrace
  <1> QED
    BY <1>5, <1>6, <1>9 DEF GracesOwned

\* completeScheduledGrace: the timer takes over the grace the coordinator waited
\* for, and lets it go when it is completed, reconciled, or no longer pending.
LEMMA GraceOwnsGraces ==
    ASSUME SessionInv, NamesInv, FieldsInv, SeenInv, RaceInv, GracesOwned, GraceStep, ~dropped'
    PROVE  GracesOwned'
  <1>0. "timer" \in Task /\ coordinator \in Coordinator
    BY DEF Task, FieldsInv
  <1>1. CASE GraceRunsOut
    <2>1. Room!Pending' = Room!Pending /\ Running
      BY <1>1 DEF GraceRunsOut, NoRoomStep, room, Room!Pending, Launched
    <2>2. tasks["timer"].stage \notin TimerStages
      BY <1>1, IdleStage DEF GraceRunsOut, TimerStages
    <2>3. Room!Pending \subseteq {coordinator.grace}
      BY <2>2 DEF GracesOwned
    <2>4. CASE coordinator.grace \in snapshot.pending
      <3>1. issue("timer", "grace", "complete", coordinator.grace, "none")
        BY <1>1, <2>4 DEF GraceRunsOut
      <3>2. tasks'["timer"].of = coordinator.grace /\ tasks'["timer"].stage \in TimerStages
        BY <1>0, <3>1 DEF issue, NamesInv, TimerStages
      <3> QED
        BY <2>1, <2>3, <3>2 DEF GracesOwned
    <2>5. CASE coordinator.grace \notin snapshot.pending
      <3>1. provider = "none" => snapshot.pending = Room!Pending
        BY <2>1 DEF SeenInv, Projection
      <3>2. Room!Pending = {}
        BY <2>3, <2>5, <3>1, SessionFacts
      <3> QED
        BY <2>1, <3>2 DEF GracesOwned
    <2> QED
      BY <2>4, <2>5
  <1>2. CASE CompleteSaved \/ ReconcileGraceSaved
    BY <1>2, GraceClears DEF CompleteSaved, ReconcileGraceSaved, GracesOwned
  <1>3. CASE ReconcileGraceRefused
    BY <1>3 DEF ReconcileGraceRefused
  <1>4. CASE CompleteRefused
    <2>1. Room!Pending' = Room!Pending
      BY <1>4 DEF CompleteRefused, Refused, NoRoomStep, room, Room!Pending
    <2>2. tasks["timer"].stage \in TimerStages
      BY <1>4 DEF CompleteRefused, At, TimerStages
    <2>3. Room!Pending \subseteq {tasks["timer"].of}
      BY <2>2 DEF RaceInv
    <2>4. CASE tasks["timer"].of \in Room!Pending
      <3>1. issue("timer", tasks["timer"].op, "reconcileGrace", tasks["timer"].of, "none")
        BY <1>4, <2>4 DEF CompleteRefused, issues
      <3>2. tasks'["timer"].of = tasks["timer"].of /\ tasks'["timer"].stage \in TimerStages
        BY <1>0, <3>1 DEF issue, NamesInv, TimerStages
      <3> QED
        BY <2>1, <2>3, <3>2 DEF GracesOwned
    <2>5. CASE tasks["timer"].of \notin Room!Pending
      BY <2>1, <2>3, <2>5 DEF GracesOwned
    <2> QED
      BY <2>4, <2>5
  <1> QED
    BY <1>1, <1>2, <1>3, <1>4 DEF GraceStep

\* Every step that is not of the process keeps the pending grace waited for.
LEMMA WorkOwnsGraces ==
    ASSUME SessionInv, NamesInv, ControlInv, FieldsInv, AdmissionInv, SeenInv, RaceInv,
           GracesOwned, [Next]_vars, ~ProcessStep, ~dropped'
    PROVE  GracesOwned'
  <1>0. {"user", "acoustic", "recorder"} \subseteq Task \ {"timer"} /\ "timer" \in Task
    BY DEF Task
  <1>1. CASE \E t \in {"user", "acoustic"} : ActivateGraceSaved(t)
    BY <1>1, ActivationOwned
  <1>2. CASE GraceStep
    BY <1>2, GraceOwnsGraces
  <1>3. CASE ~GraceStep /\ ~\E t \in {"user", "acoustic"} : ActivateGraceSaved(t)
    <2>1. UNCHANGED endpointGraces \/ Room!Pending' = {}
      BY <1>3, GracesMove
    <2>2. ASSUME NEW t \in Task, Goes(t), tasks[t].stage \notin TimerStages
          PROVE  tasks["timer"].stage \in TimerStages => tasks'["timer"] = tasks["timer"]
      BY <1>0, <2>2 DEF Goes
    <2>3. ASSUME NEW t \in {"user", "acoustic"}, BeginStep(t)
          PROVE  GracesOwned'
      BY <1>0, <2>1, <2>2, <2>3, BeginGoes, BeginKeepsGrace, GracesStayOwned
      DEF BeginStages, TimerStages
    <2>4. ASSUME NEW t \in {"user", "acoustic"}, EvaluateStep(t)
          PROVE  GracesOwned'
      BY <1>0, <1>3, <2>1, <2>2, <2>4, EvaluateGoes, EvaluateKeepsGrace, GracesStayOwned
      DEF EvaluateStages, TimerStages
    <2>5. ASSUME NEW t \in {"user", "acoustic", "recorder"}, TranscribeStep(t)
          PROVE  GracesOwned'
      BY <1>0, <2>1, <2>2, <2>5, TranscribeGoes, TranscribeKeepsGrace, GracesStayOwned
      DEF TranscribeStages, TimerStages
    <2>6. CASE RoomReturn
      BY <2>1, <2>2, <2>6, ReturnGoes, ReturnKeepsGrace, GracesStayOwned
      DEF ReturnStages, TimerStages
    <2>7. CASE RoomStart \/ AudioStep
      <3>1. UNCHANGED tasks \/ \E t \in Task : /\ Goes(t)
                                             /\ tasks[t].stage \in {"idle", "stopping"}
        BY <2>7, StartGoes, AudioGoes
      <3> QED
        BY <2>1, <2>2, <2>7, <3>1, StartsKeepGrace, GracesStayOwned DEF TimerStages
    <2>8. CASE UNCHANGED vars
      BY <2>1, <2>8, GracesStayOwned DEF vars, GraceKept
    <2> QED
      BY <1>3, <2>3, <2>4, <2>5, <2>6, <2>7, <2>8 DEF Next
  <1> QED
    BY <1>1, <1>2, <1>3

-----------------------------------------------------------------------------
(* Work is owned *)

\* No interrupted work is no grace, attempt, evaluation or capture under way.
LEMMA NothingLeft ==
    ASSUME SessionInv, NothingInterrupted
    PROVE  /\ Room!Pending = {} /\ Room!Authorized = {} /\ Room!ActiveSegments = {}
           /\ \A s \in DOMAIN segments : segments[s].lifecycle # "transcribing"
  <1>0. ASSUME NEW command \in {"resumeGrace", "resumeAttempt", "resumeEvaluation",
                                "resumeCapture"},
               NEW of \in DOMAIN segments \cup DOMAIN endpointEvaluations
                          \cup DOMAIN endpointGraces
        PROVE  ~Interrupted(command, of)
    <2>1. <<command, of>> \in Resumable
      BY <1>0 DEF Resumable
    <2> QED
      BY <2>1 DEF NothingInterrupted
  <1>1. Room!Pending = {}
    BY <1>0 DEF Interrupted, Room!Pending
  <1>2. \A s \in DOMAIN segments : segments[s].lifecycle # "transcribing"
    BY <1>0, <1>1 DEF Interrupted
  <1>3. NoAttemptInFlight
    BY <1>2, SessionFacts DEF NoAttemptInFlight
  <1>4. Room!Authorized = {}
    BY <1>0, <1>1, <1>3 DEF Interrupted, Room!Authorized
  <1>5. Room!ActiveSegments = {}
    BY <1>0, <1>1, <1>3, <1>4 DEF Interrupted, Room!ActiveSegments
  <1> QED
    BY <1>1, <1>2, <1>4, <1>5

\* ... so whatever is has its owner.
LEMMA NothingUnderWay ==
    SessionInv /\ NothingInterrupted => SpeechOwned /\ EvaluationsOwned /\ GracesOwned
  <1> SUFFICES ASSUME SessionInv, NothingInterrupted
               PROVE  SpeechOwned /\ EvaluationsOwned /\ GracesOwned
    OBVIOUS
  <1>1. \A s \in DOMAIN segments : segments[s].lifecycle # "captureAuthorized"
    BY NothingLeft DEF Room!ActiveSegments, Room!isActiveSegment
  <1> QED
    BY <1>1, NothingLeft DEF SpeechOwned, SegmentsOwned, EvaluationsOwned, GracesOwned

\* ... after a step as before it.
LEMMA NothingUnderWayNext ==
    SessionInv' /\ NothingInterrupted' => (SpeechOwned /\ EvaluationsOwned /\ GracesOwned)'
  BY NothingUnderWay, PTL

\* Every step keeps what is under way owned, or drops an outcome.
LEMMA WorkStep ==
    ASSUME SpeechInv, SpeechInv', AdmissionInv, SeenInv, RaceInv, WorkInv, [Next]_vars
    PROVE  WorkInv'
  <1> SUFFICES ASSUME Launched', ~dropped'
               PROVE  (SpeechOwned /\ EvaluationsOwned /\ GracesOwned)'
    BY DEF WorkInv
  <1>1. CASE ProcessStep
    BY <1>1, ResumeLeavesNothing, NothingUnderWayNext DEF SpeechInv
  <1>2. CASE ~ProcessStep
    <2>1. Launched /\ ~dropped
      <3>1. UNCHANGED vars => Launched' = Launched
        BY DEF vars, Launched, Running
      <3> QED
        BY <1>2, <3>1, WorkGoes, DroppedStays DEF SpeechInv
    <2> QED
      BY <1>2, <2>1, WorkOwnsSpeech, WorkOwnsEvaluations, WorkOwnsGraces
      DEF WorkInv, SpeechInv
  <1> QED
    BY <1>1, <1>2

\* The room opens with nothing under way.
LEMMA WorkInit == Init => WorkInv
  <1> SUFFICES ASSUME Init
               PROVE  WorkInv
    OBVIOUS
  <1>1. DOMAIN segments = {} /\ Room!Authorized = {} /\ Room!Pending = {}
    BY DEF Init, Room!Authorized, Room!Pending
  <1> QED
    BY <1>1 DEF WorkInv, SpeechOwned, SegmentsOwned, EvaluationsOwned, GracesOwned

\* The inductive invariant.
OwnershipInv == SpeechInv /\ AdmissionInv /\ SeenInv /\ RaceInv /\ WorkInv

\* The inductive invariant holds in every reachable state: one admitted command, a
\* manifest that is seen, races that are harmless, and an owner for all work.
THEOREM OwnershipIsInvariant == Spec => []OwnershipInv
  <1>1. Init => OwnershipInv
    BY SpeechInit, AdmissionInit, SeenInit, RaceInit, WorkInit DEF OwnershipInv
  <1>2. OwnershipInv /\ [Next]_vars => OwnershipInv'
    BY SpeechStep, AdmissionStep, SeenStep, RaceStep, WorkStep DEF OwnershipInv, SpeechInv
  <1> QED
    BY <1>1, <1>2, PTL DEF Spec

\* Whatever the manifest says is under way -- an attempt, a capture that was
\* authorized, an evaluation, a grace -- some task of the process is waiting for,
\* unless an outcome could not be saved since launch.
THEOREM WorkIsOwned == Spec => []InFlightWorkIsOwned
  <1>1. OwnershipInv => InFlightWorkIsOwned
    BY DEF OwnershipInv, WorkInv, InFlightWorkIsOwned, SpeechOwned, SegmentsOwned,
           EvaluationsOwned, GracesOwned, Owned, AttemptStages, OpeningStages,
           ClassifyStages, TimerStages
  <1> QED
    BY <1>1, OwnershipIsInvariant, PTL

-----------------------------------------------------------------------------
(* An open floor is listened to *)

\* What makes FloorIsHeard inductive where no answer is replayed: the room means to
\* listen only in Continuous Conversation, whoever asks for the floor finds the
\* interviewer silent, the interviewer speaks only in its own turn (or over the end),
\* and an open floor is armed for -- even while something is under way.
HearingInv ==
    /\ coordinator.wantsContinuousListening => turnMode = "continuousConversation"
    /\ \A t \in Task : tasks[t].stage = "floor" => voice = "quiet"
    /\ voice # "quiet" => phase \in {"interviewerTurn", "completed"}
    /\ ~dropped /\ coordinator.wantsContinuousListening /\ phase = "candidateFloor"
       => coordinator.armed = "candidateListening"

\* From c to d nobody begins to want to listen, and who goes on wanting to is armed as
\* before or for the candidate.
Attentive(c, d) ==
    d.wantsContinuousListening =>
        c.wantsContinuousListening /\ d.armed \in {c.armed, "candidateListening"}

\* So it is with whatever a handler does to the fields, but for barge-in detection and
\* the end of listening, which a handler that goes on wanting to listen never calls.
LEMMA AttentiveFields ==
    ASSUME NEW c \in Coordinator, NEW snap
    PROVE  /\ Attentive(c, c)
           /\ Attentive(c, armContinuousListeningIfNeeded(c, snap))
           /\ Attentive(c, cancelScheduledGrace(c))
           /\ Attentive(c, cancelScheduledGraceIfInactive(c, snap))
           /\ Attentive(c, disarm([c EXCEPT !.wantsContinuousListening = FALSE]))
           /\ \A active : Attentive(c, [c EXCEPT !.isSpeechActive = active])
           /\ \A g : Attentive(c, [c EXCEPT !.grace = g])
  <1> USE DEF Attentive
  <1>1. Attentive(c, c)
    OBVIOUS
  <1>2. Attentive(c, arm(c, "candidateListening"))
    BY DEF arm, Coordinator
  <1>3. Attentive(c, cancelScheduledGrace(c))
    BY DEF cancelScheduledGrace, Coordinator
  <1>4. Attentive(c, disarm([c EXCEPT !.wantsContinuousListening = FALSE]))
    BY DEF disarm, Coordinator
  <1>5. /\ \A active : Attentive(c, [c EXCEPT !.isSpeechActive = active])
        /\ \A g : Attentive(c, [c EXCEPT !.grace = g])
    BY DEF Coordinator
  <1> QED
    BY <1>1, <1>2, <1>3, <1>4, <1>5
    DEF armContinuousListeningIfNeeded, cancelScheduledGraceIfInactive

\* ... one after the other.
LEMMA AttentiveThen ==
    ASSUME NEW b, NEW c, NEW d, Attentive(b, c), Attentive(c, d)
    PROVE  Attentive(b, d)
  BY DEF Attentive

Attends == Attentive(coordinator, coordinator')

\* A task that ends is as attentive as its caller.
LEMMA EndsAttends ==
    ASSUME NEW t, NEW c \in Coordinator, Attentive(coordinator, c), Ends(t, c) \/ Returns(t, c)
    PROVE  Attends
  <1>1. \/ coordinator' = c
        \/ coordinator' = armContinuousListeningIfNeeded(c, snapshot')
    BY DEF Ends, Returns
  <1>2. PICK snap : snap = snapshot'
    OBVIOUS
  <1>3. Attentive(c, armContinuousListeningIfNeeded(c, snap))
    BY AttentiveFields
  <1> QED
    BY <1>1, <1>2, <1>3, AttentiveThen DEF Attends

\* Capturing attends,
LEMMA BeginAttends ==
    ASSUME FieldsInv, NEW t, BeginStep(t)
    PROVE  Attends
  <1>1. coordinator \in Coordinator /\ Attentive(coordinator, coordinator)
    BY AttentiveFields DEF FieldsInv
  <1>2. PICK snap : snap = snapshot'
    OBVIOUS
  <1>3. Attentive(coordinator, cancelScheduledGraceIfInactive(coordinator, snap))
    BY <1>1, AttentiveFields
  <1>4. \/ UNCHANGED coordinator \/ Ends(t, coordinator)
        \/ coordinator' = cancelScheduledGraceIfInactive(coordinator, snap)
    BY <1>2
    DEF BeginStep, BeginSaved, BeginRefused, CaptureStarts, CaptureStartFails,
        CaptureFailedSaved, CaptureFailedRefused, StartedSaved, StartedRefused, PreserveSaved,
        PreserveRefused, PreserveRecordSaved, PreserveRecordRefused
  <1> QED
    BY <1>1, <1>3, <1>4, EndsAttends DEF Attends

\* ... transcribing,
LEMMA TranscribeAttends ==
    ASSUME FieldsInv, NEW t, TranscribeStep(t)
    PROVE  Attends
  <1>1. coordinator \in Coordinator /\ Attentive(coordinator, coordinator)
    BY AttentiveFields DEF FieldsInv
  <1>2. UNCHANGED coordinator \/ Ends(t, coordinator) \/ Returns(t, coordinator)
    BY DEF TranscribeStep, FinalizeSaved, FinalizeRefused, RecordCaptureSaved,
           RecordCaptureRefused, AuthorizeSaved, AuthorizeRefused, Transcribed,
           TranscriptSaved, TranscriptRefused, TranscribesNext
  <1> QED
    BY <1>1, <1>2, EndsAttends DEF Attends

\* ... evaluating,
LEMMA EvaluateAttends ==
    ASSUME FieldsInv, NEW t, EvaluateStep(t)
    PROVE  Attends
  <1>1. coordinator \in Coordinator /\ Attentive(coordinator, coordinator)
    BY AttentiveFields DEF FieldsInv
  <1>2. CASE ActivateGraceSaved(t)
    <2>1. PICK g : g = Len(endpointGraces')
      OBVIOUS
    <2> DEFINE scheduled == [coordinator EXCEPT !.grace = g]
    <2>2. Attentive(coordinator, scheduled)
      BY <1>1, AttentiveFields
    <2>3. \/ coordinator' = scheduled
          \/ coordinator' = armContinuousListeningIfNeeded(scheduled, snapshot')
      BY <1>2, <2>1 DEF ActivateGraceSaved, Returns, Ends
    <2>4. PICK snap : snap = snapshot'
      OBVIOUS
    <2>5. armContinuousListeningIfNeeded(scheduled, snap) \in
              {scheduled, arm(scheduled, "candidateListening")}
      BY DEF armContinuousListeningIfNeeded
    <2>6. Attentive(scheduled, arm(scheduled, "candidateListening"))
      BY <1>1 DEF Attentive, arm, Coordinator
    <2> HIDE DEF scheduled
    <2> QED
      BY <2>2, <2>3, <2>4, <2>5, <2>6, AttentiveThen DEF Attends
  <1>3. CASE ~ActivateGraceSaved(t)
    <2>1. PICK snap : snap = snapshot'
      OBVIOUS
    <2> DEFINE listening == armContinuousListeningIfNeeded(coordinator, snap)
    <2>2. listening \in Coordinator /\ Attentive(coordinator, listening)
      BY <1>1, ArmTypes, AttentiveFields
    <2> HIDE DEF listening
    <2>3. UNCHANGED coordinator \/ Returns(t, coordinator) \/ Returns(t, listening)
      BY <1>3, <2>1
      DEF EvaluateStep, EvaluateSaved, EvaluateRefused, Classified, EvaluationSaved,
          EvaluationRefused, ReconcileEvaluationSaved, ReconcileEvaluationRefused,
          ActivateGraceRefused, listening
    <2> QED
      BY <1>1, <2>2, <2>3, EndsAttends DEF Attends
  <1> QED
    BY <1>2, <1>3

\* ... completing a grace,
LEMMA GraceAttends ==
    ASSUME FieldsInv, GraceStep
    PROVE  Attends
  <1>1. coordinator \in Coordinator /\ Attentive(coordinator, coordinator)
    BY AttentiveFields DEF FieldsInv
  <1> DEFINE cancelled == cancelScheduledGrace(coordinator)
  <1>2. cancelled \in Coordinator /\ Attentive(coordinator, cancelled)
    BY <1>1, ArmTypes, AttentiveFields
  <1>3. UNCHANGED coordinator \/ coordinator' = cancelled \/ Ends("timer", cancelled)
    BY DEF GraceStep, GraceRunsOut, CompleteSaved, CompleteRefused, ReconcileGraceSaved,
           ReconcileGraceRefused
  <1> HIDE DEF cancelled
  <1> QED
    BY <1>1, <1>2, <1>3, EndsAttends DEF Attends

\* ... the room's commands, but for a reply,
LEMMA ReturnAttends ==
    ASSUME FieldsInv, RoomReturn, ~\E t \in {"user", "timer"} : Replied(t)
    PROVE  Attends
  <1>1. coordinator \in Coordinator /\ Attentive(coordinator, coordinator)
    BY AttentiveFields DEF FieldsInv
  <1>2. PICK snap : snap = snapshot'
    OBVIOUS
  <1> DEFINE cancelled == cancelScheduledGrace(coordinator)
             inactive == cancelScheduledGraceIfInactive(coordinator, snap)
             heard == armContinuousListeningIfNeeded(coordinator, snap)
             rearmed == armContinuousListeningIfNeeded(inactive, snap)
             left == disarm([inactive EXCEPT !.wantsContinuousListening = FALSE])
             finished == disarm([cancelled EXCEPT !.wantsContinuousListening = FALSE])
  <1>3. /\ cancelled \in Coordinator /\ Attentive(coordinator, cancelled)
        /\ inactive \in Coordinator /\ Attentive(coordinator, inactive)
        /\ Attentive(coordinator, heard)
    BY <1>1, ArmTypes, AttentiveFields
  <1> HIDE DEF cancelled, inactive, heard
  <1>4. /\ rearmed \in Coordinator /\ Attentive(inactive, rearmed)
        /\ left \in Coordinator /\ Attentive(inactive, left)
        /\ finished \in Coordinator /\ Attentive(cancelled, finished)
    BY <1>3, ArmTypes, AttentiveFields
  <1>5. ModeSaved => Ends("user", rearmed) \/ Ends("user", left)
    BY <1>2 DEF ModeSaved, inactive
  <1>6. HoldSaved => Ends("user", rearmed)
    BY <1>2 DEF HoldSaved, inactive
  <1>7. FinishSaved => Ends("user", finished)
    BY DEF FinishSaved, cancelled
  <1> HIDE DEF rearmed, left, finished
  <1>8. CASE ModeSaved \/ HoldSaved \/ FinishSaved
    BY <1>3, <1>4, <1>5, <1>6, <1>7, <1>8, AttentiveThen, EndsAttends
  <1>9. CASE KeepFloorSaved \/ DeskSaved
    <2>1. \/ Ends("user", cancelled) \/ Ends("desk", inactive) \/ Ends("desk", coordinator)
      BY <1>2, <1>9 DEF KeepFloorSaved, DeskSaved, cancelled, inactive
    <2> QED
      BY <1>1, <1>3, <2>1, EndsAttends
  <1>10. ASSUME NEW t, \/ HandOffSaved \/ HandOffRefused \/ ExcludeSaved
                       \/ CommandRefused(t) \/ ReplyFails(t)
                       \/ FloorSaved(t) \/ FloorRefused(t)
         PROVE  Attends
    <2>1. \/ UNCHANGED coordinator \/ Ends("user", coordinator) \/ Ends(t, coordinator)
          \/ coordinator' = cancelled \/ coordinator' = heard
      BY <1>2, <1>10 DEF HandOffSaved, HandOffRefused, ExcludeSaved, CommandRefused, ReplyFails,
                         FloorSaved, FloorRefused, cancelled, heard
    <2> QED
      BY <1>1, <1>3, <2>1, EndsAttends DEF Attends
  <1> QED
    BY <1>8, <1>9, <1>10 DEF RoomReturn

\* ... the operations the room starts and the events it hears, until the interviewer plays.
LEMMA StartsAttend ==
    ASSUME FieldsInv, RoomStart \/ AudioStep, ~PlaybackStarts
    PROVE  Attends
  <1>1. coordinator \in Coordinator /\ Attentive(coordinator, coordinator)
    BY AttentiveFields DEF FieldsInv
  <1> DEFINE still == [coordinator EXCEPT !.isSpeechActive = FALSE]
             spoken == [coordinator EXCEPT !.isSpeechActive = TRUE]
             paused == disarm([coordinator EXCEPT !.wantsContinuousListening = FALSE])
  <1>2. /\ still \in Coordinator /\ Attentive(coordinator, still)
        /\ Attentive(coordinator, spoken) /\ Attentive(coordinator, paused)
        /\ Attentive(coordinator, armContinuousListeningIfNeeded(coordinator, snapshot))
    BY <1>1, ArmTypes, AttentiveFields
  <1>3. \/ UNCHANGED coordinator
        \/ coordinator' = paused
        \/ coordinator' = still
        \/ coordinator' = spoken
        \/ coordinator' = armContinuousListeningIfNeeded(still, snapshot)
        \/ coordinator' = armContinuousListeningIfNeeded(coordinator, snapshot)
    BY DEF RoomStart, Pause, AudioStep, SpeechStarts, SpeechEnds, PlaybackFinishes,
           PlaybackStopped, RecorderStops
  <1> HIDE DEF still, spoken, paused
  <1>4. Attentive(still, armContinuousListeningIfNeeded(still, snapshot))
    BY <1>2, AttentiveFields
  <1> QED
    BY <1>1, <1>2, <1>3, <1>4, AttentiveThen DEF Attends

-----------------------------------------------------------------------------
(* The floor, the mode and the player *)

\* The floor stays where it is, is handed over, or the interview is finished; nobody
\* turns the mode.
FloorRests ==
    /\ UNCHANGED turnMode
    /\ \/ UNCHANGED phase \/ phase' = "completed"
       \/ phase = "candidateFloor" /\ phase' = "interviewerProcessing"

\* So it does while the candidate's speech is worked on,
LEMMA WorkRestsFloor ==
    ASSUME NEW t, BeginStep(t) \/ TranscribeStep(t) \/ EvaluateStep(t)
    PROVE  FloorRests /\ UNCHANGED voice
  <1> USE DEF FloorRests, Frame, Refused, NoRoomStep, room
  <1>1. CASE BeginStep(t)
    BY <1>1
    DEF BeginStep, BeginSaved, BeginRefused, CaptureStarts, CaptureStartFails,
        CaptureFailedSaved, CaptureFailedRefused, StartedSaved, StartedRefused,
        PreserveSaved, PreserveRefused, PreserveRecordSaved, PreserveRecordRefused,
        Room!BeginSegment, Room!RecordCaptureFailed, Room!RecordRecordingStarted,
        Room!FinalizeSegment, Room!RecordCaptureFinalized, Room!RewriteSegment,
        Room!conversation
  <1>2. CASE TranscribeStep(t)
    BY <1>2
    DEF TranscribeStep, FinalizeSaved, FinalizeRefused, RecordCaptureSaved,
        RecordCaptureRefused, AuthorizeSaved, AuthorizeRefused, Transcribed,
        TranscriptSaved, TranscriptRefused, Room!FinalizeSegment,
        Room!RecordCaptureFinalized, Room!AuthorizeSegmentTranscription,
        Room!RecordTranscriptCandidate, Room!RecordTranscriptionFailed,
        Room!RewriteSegment, Room!conversation
  <1>3. CASE EvaluateStep(t)
    BY <1>3
    DEF EvaluateStep, EvaluateSaved, EvaluateRefused, Classified, EvaluationSaved,
        EvaluationRefused, ReconcileEvaluationSaved, ReconcileEvaluationRefused,
        ActivateGraceSaved, ActivateGraceRefused, Room!AuthorizeEndpointEvaluation,
        Room!RecordEndpointProposal, Room!RecordEndpointFailure,
        Room!ActivateEndpointGrace, Room!conversation
  <1> QED
    BY <1>1, <1>2, <1>3

\* ... while a grace is completed, the room's other commands return,
LEMMA OthersRestFloor ==
    ASSUME GraceStep \/ RoomReturn
    PROVE  \/ FloorRests /\ UNCHANGED voice
           \/ ModeSaved
           \/ \E t \in {"user", "timer"} : Replied(t)
           \/ \E t \in {"user", "acoustic", "playback"} : FloorSaved(t)
  <1> USE DEF FloorRests, Frame, Refused, NoRoomStep, room
  <1>1. CASE GraceStep
    BY <1>1
    DEF GraceStep, GraceRunsOut, CompleteSaved, CompleteRefused, ReconcileGraceSaved,
        ReconcileGraceRefused, Room!CompleteEndpointGrace, Room!handOffSegments,
        Room!handOff, Room!CancelEndpointGrace, Room!conversation
  <1>2. CASE HandOffSaved
    BY <1>2
    DEF HandOffSaved, Room!SendAnswer, Room!HandOffSegments, Room!handOffSegments,
        Room!handOff, Room!RetryInterviewerResponse, Room!manifest, Room!conversation
  <1>3. ASSUME NEW t, HandOffRefused \/ FloorRefused(t) \/ CommandRefused(t) \/ ReplyFails(t)
        PROVE  FloorRests /\ UNCHANGED voice
    BY <1>3 DEF HandOffRefused, FloorRefused, CommandRefused, ReplyFails, Room!InterviewerFails,
                Room!manifest, Room!conversation
  <1>4. CASE HoldSaved \/ KeepFloorSaved \/ ExcludeSaved \/ FinishSaved \/ DeskSaved
    BY <1>4
    DEF HoldSaved, KeepFloorSaved, ExcludeSaved, FinishSaved, DeskSaved,
        Room!ActivateFloorHold, Room!CancelEndpointGrace, Room!ExcludeSegment,
        Room!RewriteSegment, Room!Finish, Room!UpdateCandidateNotes, Room!UpdateBoardDraft,
        Room!conversation
  <1> QED
    BY <1>1, <1>2, <1>3, <1>4 DEF RoomReturn

\* Whoever is to await the floor awaited it.
FloorAwaited == \A t \in Task : tasks'[t].stage = "floor" => tasks[t].stage = "floor"

\* A step of one task that does not go on to ask for the floor.
LEMMA OneAwaitsNoFloor ==
    ASSUME NEW t \in Task, Goes(t), tasks'[t].stage # "floor"
    PROVE  FloorAwaited
  BY DEF Goes, FloorAwaited

\* Only the end of playback asks for the floor, and then the interviewer is silent.
LEMMA FloorIsAsked ==
    ASSUME NamesInv, [Next]_vars, ~ProcessStep
    PROVE  FloorAwaited \/ (AudioStep /\ voice' = "quiet")
  <1>0. {"user", "acoustic", "playback", "timer", "recorder", "desk"} \subseteq Task
    BY DEF Task
  <1>1. ASSUME NEW t \in {"user", "acoustic"}, BeginStep(t) \/ EvaluateStep(t)
        PROVE  FloorAwaited
    BY <1>0, <1>1, BeginGoes, EvaluateGoes, OneAwaitsNoFloor DEF BeginStages, EvaluateStages
  <1>2. ASSUME NEW t \in {"user", "acoustic", "recorder"}, TranscribeStep(t)
        PROVE  FloorAwaited
    BY <1>0, <1>2, TranscribeGoes, OneAwaitsNoFloor DEF TranscribeStages
  <1>3. CASE GraceStep
    BY <1>0, <1>3, GraceGoes, OneAwaitsNoFloor DEF TimerStages, FloorAwaited
  <1>4. CASE RoomReturn
    BY <1>4, ReturnGoes, OneAwaitsNoFloor
  <1>5. CASE RoomStart
    <2> DEFINE asked == {"begin", "finalize", "authorize", "exclude", "hold", "send",
                         "handOff", "retry", "cancelGrace", "mode", "finish", "note",
                         "draft", "export"}
    <2>1. ASSUME NEW t \in {"user", "desk"}, NEW op, NEW command \in asked, NEW of, NEW result,
                 issue(t, op, command, of, result)
          PROVE  FloorAwaited
      BY <1>0, <2>1 DEF NamesInv, issue, FloorAwaited
    <2>2. ASSUME await("user", "giveFloor", "stopping", 0)
          PROVE  FloorAwaited
      BY <1>0, <2>2 DEF NamesInv, await, FloorAwaited
    <2>3. CASE StartCapture
      <3>1. \E command \in asked : \E op, of, result : issue("user", op, command, of, result)
        BY <2>3 DEF StartCapture, Finalizes
      <3> QED
        BY <2>1, <3>1
    <2>4. CASE StartFloor
      <3>1. \/ \E command \in asked : \E op, of, result : issue("user", op, command, of, result)
            \/ await("user", "giveFloor", "stopping", 0)
        BY <2>4 DEF StartFloor, Finalizes
      <3> QED
        BY <2>1, <2>2, <3>1
    <2>5. CASE StartMode \/ StartDesk
      <3>1. \E t \in {"user", "desk"}, command \in asked : \E op, of, result :
                issue(t, op, command, of, result)
        BY <2>5 DEF StartMode, StartDesk
      <3> QED
        BY <2>1, <3>1
    <2>6. CASE Pause
      BY <2>6 DEF Pause, FloorAwaited
    <2> QED
      BY <1>5, <2>3, <2>4, <2>5, <2>6 DEF RoomStart
  <1>6. CASE AudioStep
    <2>1. CASE SpeechStarts \/ SpeechEnds \/ RecorderStops
      <3>1. \/ UNCHANGED tasks
            \/ await("acoustic", "bargeIn", "stopping", 0)
            \/ \E t \in {"acoustic", "recorder"}, command \in {"begin", "finalize"} :
                   \E op, of : issue(t, op, command, of, "none")
        BY <2>1 DEF SpeechStarts, SpeechEnds, RecorderStops
      <3>2. ASSUME await("acoustic", "bargeIn", "stopping", 0)
            PROVE  FloorAwaited
        BY <1>0, <3>2 DEF NamesInv, await, FloorAwaited
      <3>3. ASSUME NEW t \in {"acoustic", "recorder"}, NEW op,
                   NEW command \in {"begin", "finalize"}, NEW of,
                   issue(t, op, command, of, "none")
            PROVE  FloorAwaited
        BY <1>0, <3>3 DEF NamesInv, issue, FloorAwaited
      <3> QED
        BY <3>1, <3>2, <3>3 DEF FloorAwaited
    <2>2. CASE PlaybackStarts
      BY <2>2 DEF PlaybackStarts, FloorAwaited
    <2>3. CASE PlaybackFinishes \/ \E t \in {"user", "acoustic"} : PlaybackStopped(t)
      BY <1>6, <2>3 DEF PlaybackFinishes, PlaybackStopped
    <2> QED
      BY <1>6, <2>1, <2>2, <2>3 DEF AudioStep
  <1>7. CASE UNCHANGED vars
    BY <1>7 DEF vars, FloorAwaited
  <1> QED
    BY <1>1, <1>2, <1>3, <1>4, <1>5, <1>6, <1>7 DEF Next

-----------------------------------------------------------------------------
(* Hearing is kept *)

\* A step that leaves the floor where it is, attends, and neither has the interviewer
\* speak nor the floor asked for while it does.
LEMMA HearingRests ==
    ASSUME HearingInv, FloorRests, Attends, voice' \in {voice, "quiet"},
           FloorAwaited \/ voice' = "quiet", dropped => dropped'
    PROVE  HearingInv'
  BY DEF HearingInv, FloorRests, Attends, Attentive, FloorAwaited

\* armContinuousListeningIfNeeded arms a room that wants to listen to a floor where
\* nothing is recorded or transcribed, and makes none want to.
LEMMA FloorIsArmed ==
    ASSUME NEW c \in Coordinator, NEW snap
    PROVE  LET armed == armContinuousListeningIfNeeded(c, snap)
           IN  /\ armed.wantsContinuousListening = c.wantsContinuousListening
               /\ /\ c.wantsContinuousListening
                  /\ snap.turnMode = "continuousConversation" /\ snap.phase = "candidateFloor"
                  /\ canBeginContinuousSegment(snap)
                  => armed.armed = "candidateListening"
  <1>1. /\ arm(c, "candidateListening").wantsContinuousListening = c.wantsContinuousListening
        /\ arm(c, "candidateListening").armed = "candidateListening"
    BY DEF arm, Coordinator
  <1> QED
    BY <1>1 DEF armContinuousListeningIfNeeded

\* setTurnMode stops listening outside Continuous Conversation.
LEMMA ModeKeepsHearing ==
    ASSUME NamesInv, FieldsInv, HearingInv, ModeSaved
    PROVE  HearingInv'
  <1>0. "user" \in Task
    BY DEF Task
  <1>1. /\ turnMode' = tasks["user"].result /\ UNCHANGED phase
        /\ UNCHANGED voice /\ UNCHANGED dropped
    BY DEF ModeSaved, Room!SetTurnMode, Room!conversation, Frame
  <1>2. FloorAwaited
    <2>1. tasks' = [tasks EXCEPT !["user"] = idle]
      BY DEF ModeSaved, Ends
    <2> QED
      BY <1>0, <2>1, IdleGoes, IdleStage, OneAwaitsNoFloor
  <1>3. Attends
    <2>1. ~Replied("user") /\ ~Replied("timer")
      BY DEF ModeSaved, Room!SetTurnMode, Room!Accepting, Replied, Room!InterviewerResponds
    <2> QED
      BY <2>1, ReturnAttends DEF RoomReturn
  <1>4. coordinator'.wantsContinuousListening => turnMode' = "continuousConversation"
    <2> SUFFICES ASSUME turnMode' # "continuousConversation"
                 PROVE  ~coordinator'.wantsContinuousListening
      OBVIOUS
    <2>1. PICK snap : snap = snapshot'
      OBVIOUS
    <2> DEFINE inactive == cancelScheduledGraceIfInactive(coordinator, snap)
               left == disarm([inactive EXCEPT !.wantsContinuousListening = FALSE])
    <2>2. inactive \in Coordinator
      BY ArmTypes DEF FieldsInv
    <2>3. Ends("user", left)
      BY <1>1, <2>1 DEF ModeSaved
    <2> HIDE DEF inactive
    <2>4. left \in Coordinator /\ ~left.wantsContinuousListening
      <3>1. left \in Coordinator
        BY <2>2, ArmTypes
      <3>2. ~left.wantsContinuousListening
        BY <2>2 DEF disarm, Coordinator
      <3> QED
        BY <3>1, <3>2
    <2> HIDE DEF left
    <2>5. coordinator' = left \/ coordinator' = armContinuousListeningIfNeeded(left, snap)
      BY <2>1, <2>3 DEF Ends
    <2> QED
      BY <2>4, <2>5, FloorIsArmed
  <1> QED
    BY <1>1, <1>2, <1>3, <1>4 DEF HearingInv, Attends, Attentive, FloorAwaited

\* The interviewer's reply is due in its own turn, while nobody asks for the floor.
LEMMA ReplyKeepsHearing ==
    ASSUME FieldsInv, AdmissionInv, HearingInv, NamesInv, NEW t \in {"user", "timer"}, Replied(t)
    PROVE  HearingInv'
  <1>0. t \in Task
    BY DEF Task
  <1>1. phase' = "interviewerTurn" /\ UNCHANGED turnMode
    BY DEF Replied, Room!InterviewerResponds
  <1>2. coordinator'.wantsContinuousListening = coordinator.wantsContinuousListening
    <2>1. /\ cancelScheduledGrace(coordinator) \in Coordinator
          /\ cancelScheduledGrace(coordinator).wantsContinuousListening
                 = coordinator.wantsContinuousListening
      BY ArmTypes DEF FieldsInv, cancelScheduledGrace, Coordinator
    <2>2. \A c \in Coordinator :
              disarm(c).wantsContinuousListening = c.wantsContinuousListening
      BY DEF disarm, Coordinator
    <2> QED
      BY <2>1, <2>2 DEF Replied
  <1>3. \A u \in Task : tasks'[u].stage # "floor"
    <2>1. tasks[t].admitted
      BY <1>0 DEF Replied, At, AdmissionInv
    <2>2. \A u \in Task : tasks[u].stage = "floor" => tasks[u].admitted
      BY DEF Replied, Settled, Waits
    <2>3. \A u \in Task : tasks[u].stage # "floor"
      BY <1>0, <2>1, <2>2 DEF AdmissionInv, Replied, At
    <2> QED
      BY <1>0, <2>3, IdleGoes, IdleStage DEF Replied, Goes
  <1> QED
    BY <1>1, <1>2, <1>3 DEF HearingInv

\* noteInterviewerPlaybackFinished arms for the floor it gave: nothing recorded or
\* transcribed before is without its turn any more.
LEMMA FloorKeepsHearing ==
    ASSUME NamesInv, FieldsInv, HearingInv, RoomP!CommitInv,
           NEW t \in {"user", "acoustic", "playback"}, FloorSaved(t)
    PROVE  HearingInv'
  <1>0. t \in Task
    BY DEF Task
  <1>1. /\ phase \in {"ready", "interviewerTurn"} /\ phase' = "candidateFloor"
        /\ UNCHANGED <<turnMode, segments>>
    BY DEF FloorSaved, Room!GiveCandidateFloor
  <1>2. voice' = voice /\ voice = "quiet"
    BY <1>0 DEF FloorSaved, Frame, Admitted, At, HearingInv
  <1>3. FloorAwaited
    <2>1. \/ issue(t, tasks[t].op, "begin", 0, "none")
          \/ tasks' = [tasks EXCEPT ![t] = idle]
      BY DEF FloorSaved, issues
    <2> QED
      BY <1>0, <2>1, IssueGoes, IdleGoes, IdleStage, OneAwaitsNoFloor
      DEF ResumeStages, TimerStages
  <1>4. PICK snap : snap = snapshot'
    OBVIOUS
  <1>5. /\ snap.turnMode = turnMode' /\ snap.phase = "candidateFloor"
        /\ canBeginContinuousSegment(snap)
    <2>1. \A s \in DOMAIN segments : segments[s].committedTurn # 0
      BY <1>1 DEF RoomP!CommitInv, RoomP!Closed, RoomP!Uncommitted
    <2>2. snap = Projection'
      BY <1>4 DEF FloorSaved, Publish
    <2> QED
      BY <1>1, <2>1, <2>2 DEF canBeginContinuousSegment, isInFlight, Projection
  <1>6. coordinator' = armContinuousListeningIfNeeded(coordinator, snap)
    BY <1>4 DEF FloorSaved
  <1>7. /\ coordinator'.wantsContinuousListening = coordinator.wantsContinuousListening
        /\ coordinator.wantsContinuousListening /\ turnMode = "continuousConversation"
           => coordinator'.armed = "candidateListening"
    BY <1>1, <1>5, <1>6, FloorIsArmed DEF FieldsInv
  <1> QED
    BY <1>1, <1>2, <1>3, <1>7 DEF HearingInv, FloorAwaited

\* Every step that is not of the process keeps an open floor listened to.
LEMMA WorkKeepsHearing ==
    ASSUME "replay" \notin Offered, SpeechInv, RoomP!CommitInv, AdmissionInv, HearingInv,
           [Next]_vars, ~ProcessStep
    PROVE  HearingInv'
  <1>1. FieldsInv /\ NamesInv
    BY DEF SpeechInv
  <1>2. dropped => dropped'
    BY DroppedStays
  <1>3. FloorAwaited \/ (AudioStep /\ voice' = "quiet")
    BY <1>1, FloorIsAsked
  <1>4. ASSUME NEW t, BeginStep(t) \/ TranscribeStep(t) \/ EvaluateStep(t)
        PROVE  HearingInv'
    <2>1. FloorRests /\ UNCHANGED voice
      BY <1>4, WorkRestsFloor
    <2>2. Attends
      BY <1>1, <1>4, BeginAttends, TranscribeAttends, EvaluateAttends
    <2> QED
      BY <1>2, <1>3, <2>1, <2>2, HearingRests
  <1>5. CASE GraceStep \/ RoomReturn
    <2>1. CASE ModeSaved \/ (\E t \in {"user", "timer"} : Replied(t))
               \/ \E t \in {"user", "acoustic", "playback"} : FloorSaved(t)
      BY <1>1, <2>1, ModeKeepsHearing, ReplyKeepsHearing, FloorKeepsHearing
    <2>2. CASE ~(ModeSaved \/ (\E t \in {"user", "timer"} : Replied(t))
                 \/ \E t \in {"user", "acoustic", "playback"} : FloorSaved(t))
      <3>1. FloorRests /\ UNCHANGED voice
        BY <1>5, <2>2, OthersRestFloor
      <3>2. Attends
        BY <1>1, <1>5, <2>2, GraceAttends, ReturnAttends
      <3> QED
        BY <1>2, <1>3, <3>1, <3>2, HearingRests
    <2> QED
      BY <2>1, <2>2
  <1>6. CASE PlaybackStarts
    <2>1. /\ voice = "due" /\ voice' = "playing"
          /\ UNCHANGED <<phase, turnMode, tasks, dropped>>
          /\ coordinator' \in {coordinator, arm(coordinator, "bargeInDetection")}
      BY <1>6 DEF PlaybackStarts, NoRoomStep, room
    <2>2. coordinator'.wantsContinuousListening = coordinator.wantsContinuousListening
      BY <1>1, <2>1 DEF arm, FieldsInv, Coordinator
    <2> QED
      BY <2>1, <2>2 DEF HearingInv
  <1>7. CASE (RoomStart \/ AudioStep) /\ ~PlaybackStarts
    <2>1. FloorRests
      BY <1>7, StartsKeepRoom DEF NoRoomStep, room, FloorRests
    <2>2. voice' \in {voice, "quiet"}
      BY <1>7 DEF RoomStart, Pause, AudioStep, SpeechStarts, SpeechEnds, PlaybackFinishes,
                  PlaybackStopped, RecorderStops, Frame
    <2> QED
      BY <1>1, <1>2, <1>3, <1>7, <2>1, <2>2, StartsAttend, HearingRests
  <1>8. CASE UNCHANGED vars
    BY <1>8 DEF vars, HearingInv
  <1> QED
    BY <1>4, <1>5, <1>6, <1>7, <1>8 DEF Next

\* Nothing to resume is nothing recorded or transcribed.
LEMMA NothingToResume ==
    SessionInv /\ NothingInterrupted => canBeginContinuousSegment(Projection)
  BY NothingLeft DEF canBeginContinuousSegment, isInFlight, Projection, Room!isInFlightCapture,
                     Room!ActiveSegments

\* ... after a step as before it.
LEMMA NothingToResumeNext ==
    SessionInv' /\ NothingInterrupted' => canBeginContinuousSegment(Projection)'
  BY NothingToResume, PTL

\* A room that opens after resuming wants to listen in Continuous Conversation alone.
LEMMA OpensWanting ==
    ASSUME FieldsInv, OpensRoom
    PROVE  coordinator'.wantsContinuousListening <=> turnMode' = "continuousConversation"
  <1>1. PICK snap : snap = snapshot'
    OBVIOUS
  <1>2. PICK wants \in BOOLEAN : wants <=> turnMode' = "continuousConversation"
    OBVIOUS
  <1> DEFINE opened == [coordinator EXCEPT !.wantsContinuousListening = wants]
  <1>3. opened \in Coordinator /\ opened.wantsContinuousListening = wants
    BY ArmTypes DEF FieldsInv, Coordinator
  <1>4. coordinator' = armContinuousListeningIfNeeded(opened, snap)
    BY <1>1, <1>2 DEF OpensRoom
  <1> HIDE DEF opened
  <1> QED
    BY <1>2, <1>3, <1>4, FloorIsArmed

\* ... and is armed if it finds the floor open and nothing under way.
LEMMA OpensListening ==
    ASSUME FieldsInv, OpensRoom, Publish, canBeginContinuousSegment(Projection)'
    PROVE  coordinator'.wantsContinuousListening /\ phase' = "candidateFloor"
           => coordinator'.armed = "candidateListening"
  <1> SUFFICES ASSUME coordinator'.wantsContinuousListening, phase' = "candidateFloor"
               PROVE  coordinator'.armed = "candidateListening"
    OBVIOUS
  <1>1. PICK snap : snap = snapshot'
    OBVIOUS
  <1>2. turnMode' = "continuousConversation"
    BY OpensWanting
  <1>3. /\ snap.turnMode = "continuousConversation" /\ snap.phase = "candidateFloor"
        /\ canBeginContinuousSegment(snap)
    BY <1>1, <1>2 DEF Publish, Projection, canBeginContinuousSegment
  <1> DEFINE opened == [coordinator EXCEPT !.wantsContinuousListening = TRUE]
  <1>4. opened \in Coordinator /\ opened.wantsContinuousListening
    BY ArmTypes DEF FieldsInv, Coordinator
  <1>5. coordinator' = armContinuousListeningIfNeeded(opened, snap)
    BY <1>1, <1>2 DEF OpensRoom
  <1> HIDE DEF opened
  <1> QED
    BY <1>3, <1>4, <1>5, FloorIsArmed

\* A crash, a relaunch and resuming keep it, too.
LEMMA ProcessKeepsHearing ==
    ASSUME SpeechInv, SpeechInv', HearingInv, ProcessStep
    PROVE  HearingInv'
  <1>0. NamesInv /\ ControlInv /\ FieldsInv /\ SessionInv' /\ "user" \in Task
    BY DEF SpeechInv, Task
  <1>1. CASE Crash
    <2>1. \A t \in Task : tasks'[t] = idle
      BY <1>1 DEF Crash
    <2> QED
      BY <1>1, <2>1, IdleStage DEF Crash, HearingInv
  <1>2. CASE ~Crash
    <2>1. \A t \in Task : tasks'[t].stage # "floor"
      BY <1>0, <1>2, ResumeGoes, IdleStage DEF ResumeStages
    <2>2. UNCHANGED <<phase, turnMode, voice>>
      BY <1>2 DEF ProcessStep, Relaunch, ResumeSaved, ResumeRefused, Refused, NoRoomStep, room,
                  Frame, Room!Relaunch, Room!CancelEndpointGrace,
                  Room!RecordTranscriptionFailed, Room!RecordEndpointFailure,
                  Room!FinalizeSegment, Room!RecordCaptureFinalized,
                  Room!RecordCaptureFailed, Room!RewriteSegment, Room!manifest,
                  Room!conversation
    <2>3. dropped => dropped'
      BY <1>2 DEF ProcessStep, Relaunch, ResumeSaved, ResumeRefused, Frame
    <2>4. UNCHANGED coordinator \/ (Running' /\ OpensRoom)
      <3>1. Resumes => UNCHANGED coordinator \/ OpensRoom
        BY DEF Resumes
      <3>2. Running' \/ (Relaunch /\ UNCHANGED coordinator)
        BY <1>2 DEF ProcessStep, Relaunch, ResumeSaved, ResumeRefused, Refused, NoRoomStep, room,
                    Admitted, At, Running, Room!CancelEndpointGrace,
                    Room!RecordTranscriptionFailed, Room!RecordEndpointFailure,
                    Room!FinalizeSegment, Room!RecordCaptureFinalized,
                    Room!RecordCaptureFailed, Room!RewriteSegment, Room!actor
      <3> QED
        BY <1>2, <3>1, <3>2 DEF ProcessStep, Relaunch, ResumeSaved, ResumeRefused
    <2>5. CASE UNCHANGED coordinator
      BY <2>1, <2>2, <2>3, <2>5 DEF HearingInv
    <2>6. CASE Running' /\ OpensRoom
      <3>1. ~dropped' => canBeginContinuousSegment(Projection)'
        <4> SUFFICES ASSUME ~dropped'
                     PROVE  canBeginContinuousSegment(Projection)'
          OBVIOUS
        <4>1. tasks'["user"].op # "resume"
          BY <1>0, <2>6, IdleStage DEF OpensRoom, NamesInv
        <4> QED
          BY <1>0, <2>6, <4>1, ResumeLeavesNothing, NothingToResumeNext DEF Launched
      <3>2. Publish
        BY <1>2 DEF ProcessStep, Relaunch, ResumeSaved, ResumeRefused, Refused
      <3> QED
        BY <1>0, <2>1, <2>2, <2>6, <3>1, <3>2, OpensWanting, OpensListening DEF HearingInv
    <2> QED
      BY <2>4, <2>5, <2>6
  <1> QED
    BY <1>1, <1>2

\* The room opens listening to a floor that was given before, or with the opening due.
LEMMA HearingInit == Init => HearingInv
  <1> SUFFICES ASSUME Init
               PROVE  HearingInv
    OBVIOUS
  <1> DEFINE fields == [wantsContinuousListening |-> TRUE, armed |-> "disarmed",
                        isSpeechActive |-> FALSE, grace |-> 0]
  <1>1. fields \in Coordinator /\ fields.wantsContinuousListening
    BY DEF Coordinator
  <1>2. coordinator = armContinuousListeningIfNeeded(fields, snapshot)
    BY DEF Init
  <1>3. canBeginContinuousSegment(snapshot)
    BY DEF Init, Projection, canBeginContinuousSegment
  <1>4. snapshot.turnMode = "continuousConversation" /\ snapshot.phase = phase
    BY DEF Init, Projection
  <1> HIDE DEF fields
  <1>5. phase = "candidateFloor" => coordinator.armed = "candidateListening"
    BY <1>1, <1>2, <1>3, <1>4, FloorIsArmed
  <1> QED
    BY <1>5, IdleStage DEF Init, HearingInv

\* An open floor is listened to whenever the room means to listen, nothing was dropped
\* and no answer can be replayed: every operation that may make listening possible arms
\* for it.  (A replay arms for barge-in, and one that is stopped, or ends over a segment
\* that is recorded, leaves it so: with replays the property fails.)
THEOREM OpenFloorIsHeard == Spec => []("replay" \notin Offered => FloorIsHeard)
  <1> DEFINE Heard == "replay" \notin Offered => HearingInv
  <1>1. Init => Heard
    BY HearingInit
  <1>2. ASSUME OwnershipInv, OwnershipInv', RoomInv, Heard, [Next]_vars
        PROVE  Heard'
    <2>1. SpeechInv /\ SpeechInv' /\ AdmissionInv /\ RoomP!CommitInv
      BY <1>2 DEF OwnershipInv, RoomInv, HistoriesInv
    <2> QED
      BY <1>2, <2>1, WorkKeepsHearing, ProcessKeepsHearing
  <1>3. Heard => ("replay" \notin Offered => FloorIsHeard)
    BY DEF HearingInv, FloorIsHeard
  <1> QED
    BY <1>1, <1>2, <1>3, OwnershipIsInvariant, RoomIsInvariant, PTL DEF Spec
=============================================================================
