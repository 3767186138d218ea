-------------------- MODULE InterviewerSpeechCoordinator --------------------
(***************************************************************************)
(* The MainActor coordinator of spoken interviewer turns                   *)
(* (InterviewerSpeechCoordinator.swift): the queue of automatic turns, the *)
(* generation task, the Stop/Mute finalizer, saved playback, the local     *)
(* voice model and the playback cycle that arms barge-in detection.        *)
(*                                                                         *)
(* Its tasks interleave only where they await, so an action is the code    *)
(* between two awaits.  The calls that really suspend are those on the     *)
(* session, the provider, the audio store and the conversation, and the    *)
(* player's waits for audio to drain; the player's other calls run on the  *)
(* MainActor too.  A session call is its return: either its save is        *)
(* durable and its caller resumes, or it throws and nothing is saved.      *)
(*                                                                         *)
(* The interviewer's turns are numbered as they are persisted, an attempt  *)
(* by its place in its utterance, and <<0, 0>> is no operation.            *)
(***************************************************************************)
EXTENDS Integers, Sequences, FiniteSets, FiniteSetsExt

CONSTANTS
    History,       \* interviewer turns persisted before the first attach
    MaxTurns, MaxAttempts,  \* bounds on the turns and on each one's attempts
    DrainRetries,  \* maximumAutomaticDrainRetryAttempts
    Offered        \* the operations and faults an instance offers

ASSUME CountsAssumption ==
    /\ History \in Nat /\ MaxTurns \in Nat /\ MaxAttempts \in Nat
    /\ DrainRetries \in Nat /\ History <= MaxTurns
ASSUME OfferedAssumption ==
    Offered \subseteq {"retry", "play", "stop", "bargeIn", "mute", "model",
                       "refusedSave", "providerFault", "crash"}

VARIABLES
    utterances,  \* the manifest: each interviewer turn's synthesis attempts
    finalAudio,  \* the attempts whose WAV was atomically renamed into place
    speech,      \* the coordinator: its fields and its suspended tasks
    process,     \* is the application running
    lostSave     \* history: an attempt's outcome could not be saved

vars == <<utterances, finalAudio, speech, process, lostSave>>

-----------------------------------------------------------------------------
(* What the manifest says *)

SynthesisAttempt == [by    : {"automatic", "user"},
                     state : {"authorized", "speaking", "ready", "stopped", "failed"}]

InterviewerUtterance == [attempts : Seq(SynthesisAttempt), selected : BOOLEAN]

isActive(attempt) == attempt.state \in {"authorized", "speaking"}
Operations == {o \in (DOMAIN utterances) \X (1..MaxAttempts) :
                  o[2] \in DOMAIN utterances[o[1]].attempts}
attemptOf(o) == utterances[o[1]].attempts[o[2]]
ActiveAttempts == {o \in Operations : isActive(attemptOf(o))}

\* An utterance is pending until its first attempt: no outcome restores it.
isPending(t) == t \in DOMAIN utterances /\ utterances[t].attempts = <<>>

\* mutant: one active attempt per utterance instead of one per session
mayAuthorizePerUtterance(t, initial) ==
    /\ initial <=> utterances[t].attempts = <<>>
    /\ Len(utterances[t].attempts) < MaxAttempts

\* authorizeInterviewerSynthesis
mayAuthorize(t, initial) ==
    /\ ActiveAttempts = {}
    /\ initial <=> utterances[t].attempts = <<>>
    /\ Len(utterances[t].attempts) < MaxAttempts

authorizing(t, by) ==
    [utterances EXCEPT ![t].attempts = Append(@, [by |-> by, state |-> "authorized"])]

\* recordInterviewerSynthesisSpeaking and recordInterviewerSynthesisOutcome
recording(o, state) ==
    [utterances EXCEPT ![o[1]] =
        [attempts |-> [utterances[o[1]].attempts EXCEPT ![o[2]].state = state],
         selected |-> utterances[o[1]].selected \/ state = "ready"]]

-----------------------------------------------------------------------------
(* The coordinator's fields *)

noOperation == <<0, 0>>
noFinalizer == [stage |-> "none", operation |-> noOperation]
noBackoff   == [turn |-> 0, count |-> 0, scheduled |-> FALSE]
noCall      == [call |-> "none", turn |-> 0, initial |-> FALSE]

GenerationStage ==
    {"none", "preparing", "opening", "synthesizing", "savingSpeaking", "streaming",
     "sounding", "finishing", "savingReady", "savingReadyAgain",
     "discarding", "savingFailed", "ending"}

Coordinator ==
    [attachedTo : Nat,       \* turns restored at attach
     known      : Nat,       \* knownInterviewerTurnIDs
     resumed    : BOOLEAN,   \* resumePendingWork has returned
     isMuted    : BOOLEAN,
     isReady    : BOOLEAN,   \* readiness = .ready
     model      : {"idle", "preparing", "removing"},       \* isPreparingModel
     queue      : Seq(Nat),  \* pendingAutomaticTurnIDs
     drain      : Nat,       \* the turn the drain loop awaits authorization for
     backoff    : [turn : Nat, count : Nat, scheduled : BOOLEAN],
     operation  : Nat \X Nat,                              \* activeOperation
     stage      : GenerationStage,                         \* ... of its task
     cancelled  : BOOLEAN,                                 \* ... Task.isCancelled
     finalizer  : [stage : {"none", "spawned", "cancelling", "saving"},
                   operation : Nat \X Nat],
     stoppers   : SUBSET {"owner", "joined"}, \* callers yet to end the cycle
     control    : [call    : {"none", "retrying", "validating", "announcing", "playing"},
                   turn    : Nat, initial : BOOLEAN],
     isPlayingSavedAudio : BOOLEAN,
     playbackCycleActive : BOOLEAN,
     player     : {"idle", "open", "audible", "file"}]

\* mutant: restored turns are not remembered at attach
attachedForgettingHistory(muted, ready) ==
    [attachedTo |-> Len(utterances), known |-> 0, resumed |-> FALSE,
     isMuted |-> muted, isReady |-> ready, model |-> "idle",
     queue |-> <<>>, drain |-> 0, backoff |-> noBackoff,
     operation |-> noOperation, stage |-> "none", cancelled |-> FALSE,
     finalizer |-> noFinalizer, stoppers |-> {}, control |-> noCall,
     isPlayingSavedAudio |-> FALSE, playbackCycleActive |-> FALSE,
     player |-> "idle"]

attached(muted, ready) ==
    [attachedTo |-> Len(utterances), known |-> Len(utterances), resumed |-> FALSE,
     isMuted |-> muted, isReady |-> ready, model |-> "idle",
     queue |-> <<>>, drain |-> 0, backoff |-> noBackoff,
     operation |-> noOperation, stage |-> "none", cancelled |-> FALSE,
     finalizer |-> noFinalizer, stoppers |-> {}, control |-> noCall,
     isPlayingSavedAudio |-> FALSE, playbackCycleActive |-> FALSE,
     player |-> "idle"]

beginPlaybackCycle(s) == [s EXCEPT !.playbackCycleActive = TRUE]

\* The conversation hears of both: the end of a cycle opens the candidate's
\* floor and re-arms normal listening.
endPlaybackCycle(s) == [s EXCEPT !.playbackCycleActive = FALSE]

scheduleAutomaticDrainRetry(s, t) ==
    LET count == IF s.backoff.turn = t THEN s.backoff.count ELSE 0
    IN  IF s.queue = <<>> \/ Head(s.queue) # t \/ s.backoff.scheduled
        THEN s
        ELSE [s EXCEPT !.backoff =
                 [turn |-> t, scheduled |-> count < DrainRetries,
                  count |-> IF count < DrainRetries THEN count + 1 ELSE count]]

resetAutomaticDrainRetry(s) == [s EXCEPT !.backoff = noBackoff]
resetDrainRetryFor(s, turns) ==
    IF s.backoff.turn \in turns THEN resetAutomaticDrainRetry(s) ELSE s
clearQueue(s) == [resetAutomaticDrainRetry(s) EXCEPT !.queue = <<>>]

\* Heads that are no longer pending leave the queue; the first that is stays
\* at its head while its authorization is saved.
startNextPendingAutomaticTurnIfEligible(s) ==
    LET live == {i \in DOMAIN s.queue : isPending(s.queue[i])}
        from == IF live = {} THEN Len(s.queue) + 1 ELSE Min(live)
        skipped == {s.queue[i] : i \in 1..(from - 1)}
        rest == SubSeq(s.queue, from, Len(s.queue))
    IN  IF /\ s.isReady /\ ~s.isMuted /\ s.model = "idle"
           /\ s.finalizer = noFinalizer /\ s.drain = 0 /\ s.operation = noOperation
        THEN [resetDrainRetryFor(s, skipped) EXCEPT
                 !.queue = rest,
                 !.drain = IF live = {} THEN 0 ELSE Head(rest),
                 !.isPlayingSavedAudio = live = {} /\ @,
                 !.player = IF live # {} /\ s.isPlayingSavedAudio THEN "idle" ELSE @]
        ELSE s

\* mutant: the finalizer is left to silence the player
stoppingLater(s) ==
    IF s.finalizer # noFinalizer THEN [s EXCEPT !.stoppers = @ \cup {"joined"}]
    ELSE IF s.operation = noOperation THEN endPlaybackCycle(s)
    ELSE [s EXCEPT !.stoppers = @ \cup {"owner"},
                   !.finalizer = [stage |-> "spawned", operation |-> s.operation]]

\* What stop, setMuted and removeModel share: output stops at once, then the
\* one finalizer of the active operation is spawned or joined.
stopping(s) ==
    LET silent == [s EXCEPT !.player = "idle", !.isPlayingSavedAudio = FALSE]
    IN  IF s.finalizer # noFinalizer
        THEN [silent EXCEPT !.stoppers = @ \cup {"joined"}]
        ELSE IF s.operation = noOperation
        THEN endPlaybackCycle(silent)
        ELSE [silent EXCEPT !.stoppers = @ \cup {"owner"},
                            !.finalizer = [stage |-> "spawned", operation |-> s.operation]]

-----------------------------------------------------------------------------
Init ==
    /\ utterances = [t \in 1..History |-> [attempts |-> <<>>, selected |-> FALSE]]
    /\ finalAudio = {}
    /\ \E muted, ready \in BOOLEAN : speech = [attached(muted, ready) EXCEPT !.resumed = TRUE]
    /\ process = "running"
    /\ lostSave = FALSE

Running == process = "running" /\ speech.resumed
Volatile == UNCHANGED <<utterances, finalAudio, process, lostSave>>

(* New turns and the automatic queue *)

\* The session persists the interviewer's turn and its pending utterance.
TurnPersisted ==
    /\ Running
    /\ Len(utterances) < MaxTurns
    /\ utterances' = Append(utterances, [attempts |-> <<>>, selected |-> FALSE])
    /\ UNCHANGED <<finalAudio, speech, process, lostSave>>

\* the elements of a set of turns in their order
ascending(S) == [i \in 1..Cardinality(S) |->
                    CHOOSE t \in S : Cardinality({u \in S : u <= t}) = i]

ObserveNewlyPersistedSnapshot ==
    LET new == (speech.known + 1)..Len(utterances)
        seen == [speech EXCEPT !.known = Len(utterances)]
        queued == ascending({t \in new : isPending(t)})
        enqueued == [seen EXCEPT !.queue = @ \o queued]
    IN  /\ Running
        /\ \/ /\ speech.isReady /\ ~speech.isMuted
              /\ speech' = startNextPendingAutomaticTurnIfEligible(
                              IF queued = <<>> THEN enqueued ELSE beginPlaybackCycle(enqueued))
           \/ /\ ~speech.isReady \/ speech.isMuted
              /\ new # {}
              /\ speech' = seen
        /\ Volatile

\* mutant: the operation is the utterance's previous attempt
generatingPrior(s, t) ==
    [s EXCEPT !.operation = <<t, Len(utterances[t].attempts)>>,
              !.stage = "preparing", !.cancelled = FALSE]

\* The authorized attempt becomes the active operation and its task starts.
generating(s, t) ==
    [s EXCEPT !.operation = <<t, Len(utterances[t].attempts) + 1>>,
              !.stage = "preparing", !.cancelled = FALSE]

\* The head leaves only after its authorization is saved; removeFirst on an
\* empty queue traps.
DrainAuthorized ==
    LET t == speech.drain
        started == generating([speech EXCEPT !.drain = 0], t)
    IN  /\ Running /\ t # 0
        /\ mayAuthorize(t, TRUE)
        /\ utterances' = authorizing(t, "automatic")
        /\ \/ /\ speech.queue # <<>>
              /\ speech' = resetDrainRetryFor([started EXCEPT !.queue = Tail(@)], {t})
              /\ UNCHANGED process
           \/ /\ speech.queue = <<>>
              /\ process' = "trapped"
              /\ UNCHANGED speech
        /\ UNCHANGED <<finalAudio, lostSave>>

DrainRefused ==
    /\ Running /\ speech.drain # 0
    /\ "refusedSave" \in Offered \/ ~mayAuthorize(speech.drain, TRUE)
    /\ speech' = scheduleAutomaticDrainRetry([speech EXCEPT !.drain = 0], speech.drain)
    /\ Volatile

DrainRetryFires ==
    /\ Running /\ speech.backoff.scheduled
    /\ speech' = startNextPendingAutomaticTurnIfEligible(
                    [speech EXCEPT !.backoff.scheduled = FALSE])
    /\ Volatile

(* The generation task *)

\* The session serves calls in their order: an authorization in flight beside
\* the one that started this generation is refused before its outcomes.
NoEarlierCall == speech.drain = 0 /\ speech.control.call # "retrying"

\* provider.prepare(.neverDownload) returned
GenerationPrepared ==
    /\ Running /\ speech.stage = "preparing" /\ ~speech.cancelled
    /\ speech' = [speech EXCEPT !.isReady = TRUE, !.stage = "opening"]
    /\ Volatile

\* The partial WAV is open; beginStreaming stops whatever was playing.
GenerationOpens ==
    /\ Running /\ speech.stage = "opening" /\ ~speech.cancelled
    /\ speech' = [speech EXCEPT !.player = "open", !.stage = "synthesizing"]
    /\ Volatile

FirstChunkArrives ==
    /\ Running /\ speech.stage = "synthesizing" /\ ~speech.cancelled
    /\ speech' = [speech EXCEPT !.stage = "savingSpeaking"]
    /\ Volatile

\* A finalizer spawned meanwhile runs before a save that has yet to return.
SpeakingSaved ==
    /\ Running /\ speech.stage = "savingSpeaking" /\ NoEarlierCall
    /\ speech.finalizer.stage # "spawned"
    /\ attemptOf(speech.operation).state = "authorized"
    /\ utterances' = recording(speech.operation, "speaking")
    /\ speech' = [speech EXCEPT !.stage = "streaming"]
    /\ UNCHANGED <<finalAudio, process, lostSave>>

\* enqueue throws noActiveStream unless the player still streams
ChunkEnqueued ==
    /\ Running /\ speech.stage \in {"streaming", "sounding"} /\ ~speech.cancelled
    /\ speech.player \in {"open", "audible"}
    /\ speech' = [speech EXCEPT !.player = "audible", !.stage = "sounding"]
    /\ Volatile

\* The WAV is finalized; finishStreaming then waits for the audio to drain.
\* Without an active stream it throws, and generation goes on.
AudioFinalized ==
    /\ Running /\ speech.stage = "sounding" /\ ~speech.cancelled
    /\ finalAudio' = finalAudio \cup {speech.operation}
    /\ speech' = [speech EXCEPT !.stage = "finishing"]
    /\ UNCHANGED <<utterances, process, lostSave>>

\* The audio drained, or finishStreaming threw and the player was stopped.
AudioDrained ==
    /\ Running /\ speech.stage = "finishing" /\ ~speech.cancelled
    /\ speech' = [speech EXCEPT !.player = "idle", !.stage = "savingReady"]
    /\ Volatile

ReadySaved ==
    /\ Running /\ speech.stage \in {"savingReady", "savingReadyAgain"}
    /\ NoEarlierCall /\ isActive(attemptOf(speech.operation))
    /\ utterances' = recording(speech.operation, "ready")
    /\ speech' = [endPlaybackCycle(speech) EXCEPT !.stage = "ending"]
    /\ UNCHANGED <<finalAudio, process, lostSave>>

\* One persistence-only reconciliation, unless Stop or Mute owns the outcome.
ReadyRefused ==
    /\ Running /\ speech.stage \in {"savingReady", "savingReadyAgain"}
    /\ "refusedSave" \in Offered
    /\ LET silent == IF speech.stage = "savingReady"
                     THEN [speech EXCEPT !.player = "idle"] ELSE speech
       IN  \/ /\ speech.stage = "savingReady"
              /\ speech' = [silent EXCEPT
                               !.stage = IF speech.cancelled THEN "ending"
                                         ELSE "savingReadyAgain"]
              /\ UNCHANGED lostSave
           \/ /\ speech.stage = "savingReadyAgain"
              /\ speech' = [endPlaybackCycle(silent) EXCEPT !.stage = "ending"]
              /\ lostSave' = (lostSave \/ ~speech.cancelled)
    /\ UNCHANGED <<utterances, finalAudio, process>>

\* Progress or a model that is not there makes the voice not ready, until
\* prepare returns; an unready model fails the generation.
ReadinessWithdrawn ==
    /\ Running /\ "model" \in Offered
    /\ speech.stage = "preparing" \/ speech.model = "preparing"
    /\ speech.isReady
    /\ speech' = [speech EXCEPT !.isReady = FALSE]
    /\ Volatile

\* prepare, the store, the provider, a chunk or the player fails before the
\* WAV is final: output stops, then the partial is discarded.
GenerationFails ==
    /\ Running
    /\ \/ /\ speech.stage \in {"preparing", "opening", "synthesizing", "streaming", "sounding"}
          /\ "providerFault" \in Offered
          /\ speech' = [speech EXCEPT !.player = "idle", !.stage = "discarding"]
       \/ /\ speech.stage \in {"streaming", "sounding"} /\ speech.player \in {"idle", "file"}
          /\ speech' = [speech EXCEPT !.player = "idle", !.stage = "discarding"]
       \/ /\ speech.stage = "savingSpeaking" /\ "refusedSave" \in Offered
          /\ speech' = [speech EXCEPT !.player = "idle", !.stage = "discarding"]
    /\ Volatile

\* mutant: a failed generation ends without recording its outcome
PartialDiscardedQuietly ==
    /\ Running /\ speech.stage = "discarding"
    /\ speech' = [speech EXCEPT !.stage = "ending"]
    /\ Volatile

PartialDiscarded ==
    /\ Running /\ speech.stage = "discarding"
    /\ speech' = [speech EXCEPT !.stage = IF speech.cancelled THEN "ending"
                                          ELSE "savingFailed"]
    /\ Volatile

\* mutant: only success ends the playback cycle
FailureSavedInsideCycle ==
    /\ Running /\ speech.stage = "savingFailed" /\ NoEarlierCall
    /\ isActive(attemptOf(speech.operation))
    /\ utterances' = recording(speech.operation, "failed")
    /\ speech' = [speech EXCEPT !.stage = "ending"]
    /\ UNCHANGED <<finalAudio, process, lostSave>>

FailureSaved ==
    /\ Running /\ speech.stage = "savingFailed"
    /\ NoEarlierCall /\ isActive(attemptOf(speech.operation))
    /\ utterances' = recording(speech.operation, "failed")
    /\ speech' = [endPlaybackCycle(speech) EXCEPT !.stage = "ending"]
    /\ UNCHANGED <<finalAudio, process, lostSave>>

FailureRefused ==
    /\ Running /\ speech.stage = "savingFailed"
    /\ "refusedSave" \in Offered
    /\ speech' = [endPlaybackCycle(speech) EXCEPT !.stage = "ending"]
    /\ lostSave' = (lostSave \/ ~speech.cancelled)
    /\ UNCHANGED <<utterances, finalAudio, process>>

\* A checkpoint throws CancellationError: Stop or Mute owns the outcome.
GenerationCancelled ==
    /\ Running /\ speech.cancelled
    /\ speech.stage \in {"preparing", "opening", "synthesizing", "streaming", "sounding",
                        "finishing"}
    /\ speech' = [speech EXCEPT !.stage = "ending",
                                !.player = IF speech.stage = "finishing" THEN "idle" ELSE @]
    /\ Volatile

\* mutant: a finished generation does not look at the queue
GenerationDidFinishOnly ==
    /\ Running /\ speech.stage = "ending"
    /\ speech' = [speech EXCEPT !.operation = noOperation, !.stage = "none",
                                !.cancelled = FALSE]
    /\ Volatile

GenerationDidFinish ==
    /\ Running /\ speech.stage = "ending"
    /\ speech' = startNextPendingAutomaticTurnIfEligible(
                    [speech EXCEPT !.operation = noOperation, !.stage = "none",
                                   !.cancelled = FALSE])
    /\ Volatile

(* Stop, Mute and the finalizer they share *)

\* Barge-in empties the queue; the user's own Stop keeps it.
Stop ==
    /\ Running
    /\ \/ "stop" \in Offered /\ speech' = stopping(speech)
       \/ "bargeIn" \in Offered /\ speech' = stopping(clearQueue(speech))
    /\ Volatile

SetMuted ==
    /\ Running /\ "mute" \in Offered
    /\ \/ /\ ~speech.isMuted
          /\ speech' = stopping(clearQueue([speech EXCEPT !.isMuted = TRUE]))
       \/ /\ speech.isMuted
          /\ speech' = [speech EXCEPT !.isMuted = FALSE]
    /\ Volatile

\* The finalizer's task cancels the generation task and the producer.
FinalizerCancels ==
    /\ Running /\ speech.finalizer.stage = "spawned"
    /\ speech' = [speech EXCEPT
                     !.finalizer.stage = "cancelling",
                     !.cancelled = @ \/ speech.operation = speech.finalizer.operation]
    /\ Volatile

finalized(s) == startNextPendingAutomaticTurnIfEligible([s EXCEPT !.finalizer = noFinalizer])

\* The generation task is over and the partial discarded.  An attempt the
\* task left durably active is recorded as stopped.
FinalizerJoins ==
    /\ Running /\ speech.finalizer.stage = "cancelling"
    /\ speech.operation # speech.finalizer.operation
    /\ speech' = IF speech.finalizer.operation \in ActiveAttempts
                 THEN [speech EXCEPT !.finalizer.stage = "saving"]
                 ELSE finalized(speech)
    /\ Volatile

\* No drain begins beside a finalizer: one in flight was asked for earlier.
StopSaved ==
    /\ Running /\ speech.finalizer.stage = "saving" /\ speech.drain = 0
    /\ isActive(attemptOf(speech.finalizer.operation))
    /\ utterances' = recording(speech.finalizer.operation, "stopped")
    /\ speech' = finalized(speech)
    /\ UNCHANGED <<finalAudio, process, lostSave>>

\* Every caller of the finalizer throws, none ends the playback cycle.
StopRefused ==
    /\ Running /\ speech.finalizer.stage = "saving" /\ speech.drain = 0
    /\ "refusedSave" \in Offered
    /\ speech' = finalized([speech EXCEPT !.stoppers = {}])
    /\ lostSave' = TRUE
    /\ UNCHANGED <<utterances, finalAudio, process>>

StopperEndsCycle ==
    /\ Running /\ speech.finalizer = noFinalizer
    /\ \E caller \in speech.stoppers :
          speech' = [endPlaybackCycle(speech) EXCEPT !.stoppers = @ \ {caller}]
    /\ Volatile

(* Retry and saved playback: the room allows one of them at a time *)

Retry ==
    /\ Running /\ "retry" \in Offered
    /\ speech.control = noCall
    /\ speech.isReady /\ speech.model = "idle" /\ ~speech.isMuted
    /\ speech.operation = noOperation
    /\ \E t \in DOMAIN utterances :
          speech' = [speech EXCEPT
                       !.control = [call |-> "retrying", turn |-> t,
                                    initial |-> utterances[t].attempts = <<>>],
                       !.player = IF speech.isPlayingSavedAudio THEN "idle" ELSE @,
                       !.isPlayingSavedAudio = FALSE]
    /\ Volatile

RetryAuthorized ==
    /\ Running /\ speech.control.call = "retrying"
    /\ mayAuthorize(speech.control.turn, speech.control.initial)
    /\ utterances' = authorizing(speech.control.turn, "user")
    /\ speech' = generating([speech EXCEPT !.control = noCall], speech.control.turn)
    /\ UNCHANGED <<finalAudio, process, lostSave>>

RetryRefused ==
    /\ Running /\ speech.control.call = "retrying"
    /\ "refusedSave" \in Offered
          \/ ~mayAuthorize(speech.control.turn, speech.control.initial)
    /\ speech' = [speech EXCEPT !.control = noCall]
    /\ Volatile

Play ==
    /\ Running /\ "play" \in Offered
    /\ speech.control = noCall
    /\ ~speech.isMuted /\ speech.operation = noOperation /\ ~speech.isPlayingSavedAudio
    /\ \E t \in DOMAIN utterances :
          /\ utterances[t].selected
          /\ speech' = [speech EXCEPT
                           !.control = [call |-> "validating", turn |-> t, initial |-> FALSE],
                           !.isPlayingSavedAudio = TRUE]
    /\ Volatile

\* The saved WAV is intact or it is not; an intact one begins a cycle.
PlayValidated ==
    /\ Running /\ speech.control.call = "validating"
    /\ \/ speech' = beginPlaybackCycle([speech EXCEPT !.control.call = "announcing"])
       \/ speech' = [speech EXCEPT !.control = noCall, !.isPlayingSavedAudio = FALSE]
    /\ Volatile

PlayStarts ==
    /\ Running /\ speech.control.call = "announcing"
    /\ speech' = [speech EXCEPT !.control.call = "playing", !.player = "file"]
    /\ Volatile

\* The file drained, or another operation of the player stopped it.
PlayReturns ==
    /\ Running /\ speech.control.call = "playing"
    /\ speech' = [endPlaybackCycle(speech) EXCEPT
                     !.control = noCall, !.isPlayingSavedAudio = FALSE,
                     !.player = IF @ = "file" THEN "idle" ELSE @]
    /\ Volatile

(* The local voice model *)

readinessPublished(s, ready) ==
    LET s1 == [s EXCEPT !.isReady = ready]
    IN  IF ready THEN startNextPendingAutomaticTurnIfEligible(resetAutomaticDrainRetry(s1))
                 ELSE s1

RefreshReadiness ==
    /\ Running /\ "model" \in Offered
    /\ \E ready \in BOOLEAN : speech' = readinessPublished(speech, ready)
    /\ Volatile

PrepareModel ==
    /\ Running /\ "model" \in Offered
    /\ speech.operation = noOperation /\ speech.model = "idle"
    /\ speech' = [speech EXCEPT !.model = "preparing"]
    /\ Volatile

PrepareReturns ==
    /\ Running /\ speech.model = "preparing"
    /\ \E ready \in BOOLEAN :
          speech' = readinessPublished([speech EXCEPT !.model = "idle"], ready)
    /\ Volatile

RemoveModel ==
    /\ Running /\ "model" \in Offered
    /\ speech.model = "idle"
    /\ LET removing == clearQueue([speech EXCEPT !.model = "removing"])
       IN  speech' = IF speech.operation = noOperation THEN removing
                     ELSE stopping(removing)
    /\ Volatile

\* After the stop it waited for: removed or not, readiness is read again.
RemoveReturns ==
    /\ Running /\ speech.model = "removing" /\ speech.finalizer = noFinalizer
    /\ \E ready \in BOOLEAN :
          speech' = [speech EXCEPT !.isReady = ready, !.model = "idle"]
    /\ Volatile

(* Crash, relaunch and recovery *)

\* Tasks, queue and sound go with the process.
Crash ==
    /\ process = "running" /\ "crash" \in Offered
    /\ process' = "down"
    /\ speech' = attached(FALSE, FALSE)
    /\ UNCHANGED <<utterances, finalAudio, lostSave>>

\* attach: every turn in the restored snapshot is history.
Relaunch ==
    /\ process \in {"down", "trapped"}
    /\ process' = "running"
    /\ \E muted, ready \in BOOLEAN : speech' = attached(muted, ready)
    /\ UNCHANGED <<utterances, finalAudio, lostSave>>

\* mutant: an interrupted attempt is adopted from its partial
ResumePendingWorkFromPartial ==
    /\ process = "running" /\ ~speech.resumed
    /\ \/ ActiveAttempts = {} /\ UNCHANGED utterances
       \/ \E o \in ActiveAttempts : utterances' = recording(o, "ready")
    /\ speech' = [speech EXCEPT !.resumed = TRUE]
    /\ lostSave' = FALSE
    /\ UNCHANGED <<finalAudio, process>>

\* An interrupted attempt is adopted when its final WAV is there and valid,
\* else it failed as interrupted.
ResumePendingWork ==
    /\ process = "running" /\ ~speech.resumed
    /\ \/ /\ ActiveAttempts = {}
          /\ UNCHANGED utterances
       \/ \E o \in ActiveAttempts : \E outcome \in {"ready", "failed"} :
             /\ outcome = "ready" => o \in finalAudio
             /\ utterances' = recording(o, outcome)
    /\ speech' = [speech EXCEPT !.resumed = TRUE]
    /\ lostSave' = FALSE
    /\ UNCHANGED <<finalAudio, process>>

\* The store could not be inspected or the outcome not saved: the attempt
\* stays durably active and the room goes on.
ResumeFails ==
    /\ process = "running" /\ ~speech.resumed
    /\ ActiveAttempts # {} /\ "refusedSave" \in Offered
    /\ speech' = [speech EXCEPT !.resumed = TRUE]
    /\ lostSave' = TRUE
    /\ UNCHANGED <<utterances, finalAudio, process>>

GenerationStep ==
    \/ GenerationPrepared \/ GenerationOpens \/ FirstChunkArrives \/ SpeakingSaved
    \/ ChunkEnqueued \/ AudioFinalized \/ AudioDrained \/ ReadySaved \/ ReadyRefused
    \/ GenerationFails \/ PartialDiscarded \/ FailureSaved \/ FailureRefused
    \/ GenerationCancelled \/ GenerationDidFinish

StopStep ==
    \/ Stop \/ SetMuted \/ FinalizerCancels \/ FinalizerJoins \/ StopSaved \/ StopRefused
    \/ StopperEndsCycle

QueueStep ==
    \/ TurnPersisted \/ ObserveNewlyPersistedSnapshot
    \/ DrainAuthorized \/ DrainRefused \/ DrainRetryFires

ControlStep ==
    \/ Retry \/ RetryAuthorized \/ RetryRefused
    \/ Play \/ PlayValidated \/ PlayStarts \/ PlayReturns

ModelStep ==
    \/ ReadinessWithdrawn \/ RefreshReadiness \/ PrepareModel \/ PrepareReturns
    \/ RemoveModel \/ RemoveReturns

Next ==
    \/ GenerationStep \/ StopStep \/ QueueStep \/ ControlStep \/ ModelStep
    \/ Crash \/ Relaunch \/ ResumePendingWork \/ ResumeFails

Spec == Init /\ [][Next]_vars

-----------------------------------------------------------------------------
(* Properties *)

TypeOK ==
    /\ utterances \in Seq(InterviewerUtterance)
    /\ finalAudio \subseteq Nat \X Nat
    /\ speech \in Coordinator
    /\ speech.operation \in Operations \cup {noOperation}
    /\ process \in {"running", "down", "trapped"}
    /\ lostSave \in BOOLEAN

\* One voice: generated sound belongs to the active operation, whose attempt
\* the manifest already shows speaking, and a file to the one play call; so
\* neither a stopped generation nor a replaced playback is still heard.
SoundHasOwner ==
    Running =>
        /\ speech.player = "audible" =>
              /\ speech.stage \in {"sounding", "finishing"}
              /\ attemptOf(speech.operation).state = "speaking"
        /\ speech.player = "file" => speech.control.call = "playing"

\* An attempt the manifest shows active has a task that will record its
\* outcome, unless that outcome's save failed.  The session authorizes no
\* other attempt meanwhile, so an attempt nobody owns silences the room.
ActiveAttemptsAreOwned ==
    Running /\ ~lostSave =>
        ActiveAttempts \subseteq {speech.operation, speech.finalizer.operation}

\* Success is durable only after the WAV it selects was renamed into place.
ReadyHasAudio ==
    \A o \in Operations : attemptOf(o).state = "ready" => o \in finalAudio

\* Automatic speech is for turns first observed after attach, in their order;
\* restored history is never spoken by itself.
SpeaksNewTurnsInOrder ==
    [][\A t \in DOMAIN utterances :
          utterances[t].attempts = <<>> /\ utterances'[t].attempts # <<>>
          /\ utterances'[t].attempts[1].by = "automatic"
          => /\ t > speech.attachedTo
             /\ \A i \in DOMAIN speech.queue : t <= speech.queue[i]]_vars

\* The active operation is cleared before another takes its place: no
\* generation loses the handle that Stop and Mute cancel it by.
OperationIsNeverReplaced ==
    [][speech.operation # speech'.operation
       => noOperation \in {speech.operation, speech'.operation} \/ process' # process]_vars

\* The coordinator's own bookkeeping never ends the application.
NeverTraps == process # "trapped"

\* Liveness: each await returns and the room observes what it persisted; the
\* user's own calls, faults and crashes need not happen.
FinalizerStep ==
    FinalizerCancels \/ FinalizerJoins \/ StopSaved \/ StopRefused
ControlReturns ==
    RetryAuthorized \/ RetryRefused \/ PlayValidated \/ PlayStarts \/ PlayReturns
FairSpec ==
    /\ Spec
    /\ WF_vars(GenerationStep) /\ WF_vars(FinalizerStep) /\ WF_vars(StopperEndsCycle)
    /\ WF_vars(ControlReturns)
    /\ WF_vars(speech.known < Len(utterances) /\ ObserveNewlyPersistedSnapshot)
    /\ WF_vars(DrainAuthorized \/ DrainRefused) /\ WF_vars(DrainRetryFires)

\* A playback cycle ends, so the candidate's floor opens again.
CyclesEnd == speech.playbackCycleActive ~> ~speech.playbackCycleActive

\* A queued turn is authorized or dropped: the queue never wedges.
QueueEmpties == speech.queue # <<>> ~> speech.queue = <<>>
=============================================================================
