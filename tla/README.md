# Interview Arc Live, specified

TLA+ models of the parts of Interview Arc Live that carry its ordering, recovery and
at-most-once rules, the TLC runs that check them on small instances, and TLAPS proofs of
the results that matter most.  Paths below are relative to the repository.

## 1. The system

Interview Arc Live is a native macOS room for spoken mock interviews.  One Interview Room
Session per activity is the durable state; everything else asks it for permission before
it touches a microphone, a provider or a file.

| Component | State it keeps | Operations | What makes it correct |
|---|---|---|---|
| `InterviewRoomSession` (Core) | the Session Manifest: phase, mode, turns, segments with transcription attempts, endpoint evaluations, graces, floor holds, board, receipts; `isExecutingCommand` | `start`, `restore`, `apply` of 30 commands | turns alternate and are never rewritten; speech is committed once; one effect of a kind at a time; only a judged, current answer is handed off automatically; what it persists it can restore |
| Command receipts (same actor) | `appliedCommands`, revision | deduplication, context receipts, `persist` | a command ID is applied at most once with one payload, an effect follows its save |
| `SessionManifestStore` (Core) | one manifest file and a lock file per session | `load`, `save(expectedRevision)` | compare-and-swap, atomic over instances, processes and kills |
| `SegmentSpeechCoordinator` (Core, MainActor) | projection `snapshot`, `isFinalizing`, `isHandlingAcousticEvent`, `isHandlingBargeIn`, `wantsContinuousListening`, armed mode, grace timer | begin, finalize, transcribe, evaluate, grace timer, barge-in, recovery | the microphone runs only under an authorized segment, a pending grace has a timer, no boundary is lost for ever |
| `InterviewerSpeechCoordinator` (Core, MainActor) | FIFO of turns to speak, active operation, cancellation finalizer, mute, playback cycle, retry timer | observe, authorize, generate, play, stop, mute, recover | one generation at a time, silence after Stop and Mute, the floor always returns to the candidate |
| `HostedPracticeSession` (HostedClient) | connection, lease, outbox summary | open, refresh, acquire, renew, release, fenced mutations, clip upload, receipt recovery | no mutation without a current fence, none lost or repeated after an ambiguous answer |
| Private stores (HostedClient, SpeechOutput) | outbox partitions, clips, identity, partial and final WAV files | prepare, mark, remove; begin, append, finalize, recover | a record outlives every crash until its outcome is known |
| `QwenModelStore`, Qwen provider | staged and promoted model snapshot; resident model, generation handle | readiness, prepare, remove, synthesize, cancel | only a verified snapshot is promoted, a cancelled producer is joined before the next |
| Codex App Server runtime | one child process, JSON-RPC requests, thread binding | respond, restart, timeout | one response per request, no response of another thread |
| Voice adapter | recorder, acoustic segmenter, transcriber | begin, finish and recover a capture; arm, disarm | a finished capture is never stopped twice |
| Board editor | the canvas in a web page, the scene publication controller, the native coordinator, the draft with its undo history | gestures, publish, load, reconcile, flush, accept or refuse a scene, undo, redo, inspect | what is drawn reaches the draft under one identity, the canvas ends up showing the draft |
| Board revisions and exports | saved revisions, rendered artifacts | save, select, attach, export | revisions are immutable and attached exactly |
| Rooms and presentations (app) | view models, pending intents, banners | one action per control | projection of the above |

They interact by awaited calls on one `InterviewRoomSession` actor (the two coordinators
share it and each keeps its own projection of its snapshot), by callbacks from adapters
(acoustic events, unexpected recorder termination, progress), by timers (endpoint grace,
drain retry, lease renewal), and through files that outlive the process.  The Board editor is
two processes: `evaluateJavaScript` calls one way, posted messages and replies the other.

What is hard: the actor and the coordinators are reentrant at every `await`; a hand off
saves twice around a provider call; the process may die between any two steps; callers
repeat command IDs; a classifier, a timer or a stream answers after the state it was asked
about has gone; a mute or a stop arrives while the work it must stop is being authorized; the
person draws while the page is still applying what the application sent before.

## 2. Plan

1. `InterviewRoomSession`: the core, with crash and restore. Done.
2. `SessionManifestStore`, `FileSessionManifestStore`: the register and its file. Done.
3. `CommandLedger`, `SessionCommandLog`: receipts over the register. Done.
4. `InterviewerSpeechCoordinator`: generation, Stop, Mute and barge-in as MainActor tasks.
   Done.
5. `SegmentSpeechCoordinator`: capture, transcription, grace timer and acoustic events,
   composed with 1. Done.
6. `HostedPracticeSession` with `PrivateLiveOutboxStore`: a lease-fenced client whose
   mutations may be lost, answered late or repeated. Abstract specification: a ledger that
   applies each request once and never under a fence that has been superseded.
7. `PrivateInterviewerWaveStore` (partial and final files over crashes) as the refinement of
   the file that 4 abstracts; `QwenModelStore` (stage, verify, promote).
8. The Codex runtime: one child process, correlated requests, restart and timeout.
9. `BoardScene`, `BoardEditorBridge`: the canvas, its page and the draft. Done; to come: Board
   revisions and exports of the session.
10. Pure algorithms against reference definitions: the acoustic segmenter's windows, the
    ranking of `bestCandidate`, the event-stream parser.
11. Proofs: every safety property of 1 to 5 (`FloorIsHeard` where no answer is replayed) and of 9
    is done; to come, the safety of 6 and the refinement of 7.

Composition: 2 is refined by its own file; 3 stands over 2's register and refines the
ledger; 5 instantiates 1 whole and takes its actions as the return of each command; 4 keeps
the one part of the manifest (the synthesis attempts) that 1 leaves out.

## 3. Modules

| Module | Models | State |
|---|---|---|
| `InterviewRoomSession` | `InterviewRoomSession.swift`, the domain types of the manifest, `validate` | the manifest's fields under their own names, `provider` (the interviewer call in flight), `process` |
| `SessionManifestStore` | the protocol, as its in-memory actor implements it | `stored`, one request per client |
| `FileSessionManifestStore` | the `flock`ed file | the file, who holds the lock and how, each client's step and what it read |
| `CommandLedger` | what `apply` promises about a command ID | which payload an ID was bound to, which effects happened |
| `SessionCommandLog` | `start`, `restore`, `apply`, `persist`: receipts and compare-and-swap | the stored manifest's receipts and revision, each actor's copy and its command in flight |
| `InterviewerSpeechCoordinator` | the coordinator of that name and what the session keeps for it | `utterances`, `finalAudio`, the record `speech` of the coordinator's fields and suspended tasks |
| `SegmentSpeechCoordinator` | the coordinator of that name with the session, segmenter, recorder and room | the session's variables, `snapshot`, `tasks`, `coordinator`, `recorder`, `sourceAudio`, `voice` |
| `BoardScene` | the translations between a Board document and an Excalidraw canvas: shapes, render order, normalization, revisions, identities | none: operators |
| `BoardEditorBridge` | `main.jsx`, `scene-publication.js`, `ExcalidrawBoardEditorView.swift`, the reducer behind them | `page`, `publication`, `draft`, `coordinator`, the two channels |
| `MC...` | symmetry and the operations an instance offers | |
| `..._proofs` | theorems and the lemmas they rest on; for candidate speech two, one over the other: `SegmentSpeechCoordinator_proofs` (the session it commands, capture, timer, types), `SegmentSpeechWork_proofs` (who waits for what); for the Board editor two: `BoardEditorBridge_proofs` (translations, publication, types), `BoardEditorAgreement_proofs` (canvas and draft) | |

### InterviewRoomSession

One action per command of `apply`, plus the end of the awaited provider call
(`InterviewerResponds`, `InterviewerFails`), `Crash` and `Relaunch` (`restore`, which
`validate` may refuse; then `process = "refused"`). A command is one step, save included:
the actor refuses any other command while it executes one (`isExecutingCommand`,
`Accepting`), and a save that fails leaves its memory as it was. A hand off is two steps
because the code saves before and after the provider call. What interleaves *inside* one
save is the subject of `SessionCommandLog`.

Identifiers are positions in the histories. A transcript is the set of the candidates it
joins, each `<<segment, attempt>>`; its text, like titles, timestamps and failure wording,
is left out. A candidate's quality is a rank (`bestCandidate` compares class, confidence
and position), a Groq key a member of `Credentials`, an evaluation's request fingerprint a
member of `Contexts`. Reading the credential is one step with the authorization it serves.

### The store and the receipts

`FileSessionManifestStore` separates acquiring the lock, reading, comparing, writing the
prepared file and the `replaceItemAt` rename; each may fail, and `KillProcess` drops a
client and its lock anywhere. `SessionCommandLog` keeps each command's payload (a command
ID repeated with the same payload is answered from its receipt), the evaluation context that
may be bound to one ID only, and the two saves of a hand off. Its refinement mapping takes
the stored receipts to the ledger's bindings and the authorized effects to its effects.

### InterviewerSpeechCoordinator

| `speech` field | Swift |
|---|---|
| `queue`, `drain`, `backoff` | `pendingAutomaticTurnIDs`, `isDrainingAutomaticTurns` (the turn it awaits), `automaticDrainRetry...` |
| `operation`, `stage`, `cancelled` | `activeOperation`, where its task is suspended, `Task.isCancelled` |
| `finalizer`, `stoppers` | `cancellationFinalizer`, the callers of `stop`/`setMuted` yet to end the cycle |
| `control`, `isPlayingSavedAudio` | a suspended `retry` or `play` |
| `known`, `attachedTo`, `resumed` | `knownInterviewerTurnIDs`, the turns restored at `attach`, whether `resumePendingWork` has returned |
| `player`, `playbackCycleActive`, `isReady`, `isMuted`, `model` | the player's mode and the flags of those names |

An action is the code between two awaits. A call on the session is its return: saved, or
thrown with nothing saved. Calls are served in the order they were made (`NoEarlierCall`).
`process = "trapped"` is the runtime trap of `removeFirst()` on an empty array.

### SegmentSpeechCoordinator

Six tasks interleave: the room's one operation at a time (`SystemDesignRoomModel.isWorking`),
the acoustic event being handled, the end of interviewer playback, the grace timer, the
recorder's own termination, and the board and notes commands that `isWorking` does not hold
back. Each is a record: the operation, what it awaits, the segment or evaluation it is about,
the result it carries and whether the session admitted its command. Every command is issued
in one step and returns in another, and `Admits` is the actor's rule: a command issued while
another is in flight throws `commandInProgress`. `Settled` says that such a refusal reaches
its caller before any provider, recorder, timer or person gets anything done, because the
throw needs only two hops between actors. Returning publishes the snapshot in the same step.

Which operation the room offers is read off `SystemDesignRoomModel` (`hasPendingLocalPersistence`,
`hasAnswer`, `showsHoldFloorControl`, `showsManualControls`, ...). `BehavioralRoomModel` is a
second room with looser guards and is not modelled.

Details left out: a recorder that is asked to stop while still starting has nothing to stop;
the engine of the acoustic segmenter always starts; an acoustic event is emitted and handled
in one step (its hop through a Task is short of any other await); ignored noise and pre-roll;
`completeScheduledGrace`'s branch for an ineligible board, which a draft edit makes
unreachable by cancelling the grace; `sendAnswer`'s own finalization is modelled though the
room never offers Send over a recording segment.

### BoardScene and BoardEditorBridge

| Variable | Code |
|---|---|
| `page` | the canvas and `appState`, and the refs of `BoardEditor` in `main.jsx`: `loading`, `received` (user input during a native update), `deferredChange`, `deferredUpdate`, `overlay`; `changed` and `finishing` are a React commit and two animation frames to come |
| `publication` | the controller of `scene-publication.js`: `active`, `pending`, `adopted` |
| `draft` | `BoardEditorState`: document, undo, redo, tool, whether a revision is inspected |
| `coordinator` | the coordinator of the web view: the last snapshot, `lastLoaded`, the ledger `boardIDsByWebID`, the scheduled load or reconcile, whether SwiftUI has yet to call `update` |
| `toPage`, `toNative`, `replies` | calls and messages under way; a flush's reply hops to the main actor once more |

A scene's revision is what the code computes: the sum of the element versions, their number
and the selection.  `decodeChange` gives each element the Board ID it claims, the one the
ledger remembers for its web ID, or a new one, in that order.  A load or a scene picks the
elements of a layer, or those not deleted, in their order (`picked`), which is written with
`Cardinality` so that the proofs can reason about it.  `InitialDocumentAssumption` is what
`BoardDocument.validate` admits: distinct IDs, a bounded number of elements, every box of a kind,
connectors bound to elements of the document; the elements are told apart by their ink, and ink of
the person's making is positive.

`raced` is a history variable.  The bridge does not order a scene and a document that cross,
so some schedules lose an edit whatever comes after; each is marked where it happens (`crosses`,
`coincides`, `staleAfterFlush`, `reclaims` and the conditions in `RunTask`, `Observe`,
`ReceiveUpdate`, `FinishNativeUpdate`) and is listed in section 8.
`SettledCanvasShowsBoard`, `IdentityIsStable` and `EditsReachBoard` excuse them and say
that nothing else goes wrong.  `NoEditIsLeftBehind` excuses nothing.

Left out: position, size, text and colour are one value; a connector is bound to its source at
most; the draft's persistence, saving and inspecting are instantaneous; one latest revision; the
limit of the undo history; zoom, the choice of a box kind, text editing, attaching and exporting;
the termination of the web process.

## 4. Runs

| Run | Question | Result |
|---|---|---|
| `SessionFloor` | Who may take the floor, on which evidence: evaluation, grace, hold, modes, Finish | passes |
| `SessionConversation` | Do turns, segments, attempts and selections stay in order through failures, retries and crashes | passes |
| `SessionGraceRestore` | Is a pending grace always one that restore accepts | violated |
| `FileStore` | Is the locked file an atomic compare-and-swap register, and does every call return | passes |
| `CommandLog` | Do receipts and compare-and-swap saves implement the ledger | passes |
| `SpeechOutput` | Who owns the sound and the durable attempt, at every await, fault and crash | passes |
| `SpeechFair` | Do cycles end and does the queue empty | passes |
| `SpeechTrap` | Does the coordinator's bookkeeping ever end the application | violated |
| `SegmentsFaults` | One segment, every operation and fault: is the microphone authorized, recorded speech kept, a relaunch complete | passes |
| `SegmentsConversation` | Two segments: has everything under way an owner, is an open floor heard | passes |
| `SegmentsFair` | Do graces resolve and operations finish | passes |
| `BoardEditor` | A Board edited by every gesture and command while loads, reconciles, state updates and flushes arrive in any order: does what is drawn reach the draft, under one identity, and does the canvas settle on the draft | passes |

Bounds, and why they are enough:

* `SessionFloor`: two segments so that a draft can hold one judged and one new segment; two
  contexts so that a second evaluation, and a second grace after a cancelled one, can happen;
  one hold, two turns, all three modes. Board drafts, which only cancel graces, are left to
  the other runs.
* `SessionConversation`: four turns are an opening, an answer, its reply and a second answer;
  two attempts and two ranks are what a worse second transcript needs. One Groq key: no
  property tells keys apart. Without classifier contexts no grace can exist, and none is needed.
* `FileStore`: two adapters are a reader and a writer, two writers, and a writer that
  overtakes another; revision 2 lets an expectation be stale twice.
* `CommandLog`: two actors and two IDs; three revisions are two saves of one hand off and one
  of a competitor.
* `SpeechOutput` and `SpeechFair`: two turns make a queue; one attempt each. `DrainRetries` is 1
  for the code's 3: what matters is one retry and giving up. The first has barge-in, Mute, the
  voice model, refused saves and crashes; the second saved playback and the user's own Stop.
* `SegmentsFaults`, `SegmentsConversation`, `SegmentsFair`: one segment under every operation
  and fault, two under those that make segments overlap, two with one hold and Finish under
  fairness; three turns are a question, an answer and a reply.

* `BoardEditor`: a database node (drawn as an ellipse, so that a kind survives a shape it does
  not have), three acts of the person and three elements. Three acts are an edit during a
  load or reconcile, one while that edit travels, and an undo, flush or reset over both; the
  shapes are a box and a connector, the two with bindings and a canonical pose. Larger explorations
  of the safety properties (four acts of everything but paste, six of draw, move and delete)
  found nothing else.

Deadlock is checked except where histories are full, the session is finished or a
relaunch was refused, or the person does nothing more, which really is the end.

## 5. Fairness

* `FileStore`: weak fairness of every step past the lock (the code there only runs on) and
  strong fairness of `Acquire` of each client, because `flock` is retaken repeatedly. That is an
  assumption about the kernel and true for two clients. With three, two readers that overlap
  for ever keep a writer out: `flock` promises no order among its waiters, so `CallsReturn` is
  claimed for two and the run has two.
* `SpeechFair`: each task goes on after its await, saves succeed, the drain's delayed retry
  fires, and the room observes what it persisted. Nothing is assumed of the user, provider
  faults or further turns. Barge-in and Mute are not offered there: they reach the trap of
  `SpeechTrap`, after which nothing ends.
* `SegmentsFair`: strong fairness of each task's awaited return, of the grace timer and of the
  end of playback. Strong, because `Settled` is false now and then while a refusal is on its
  way; the refusals themselves are bounded. Nothing is assumed of the user, the voice or faults.

* `BoardEditor`: while a message, a task, a frame, a commit, an observation or a pressed pointer
  is due, one of them happens: `<>[]~Quiet => []<><<acts' = acts>>_vars`. It is weak fairness of
  `System`, whose steps are exactly those that leave `acts` alone and which is enabled unless
  `Quiet`. WebKit and the run loop deliver what they were given; nothing is assumed of the person
  except that a pressed pointer is lifted.

## 6. Proofs

`tlapm` proves these for every value of the constants, from the named assumptions of the
modules only (`ModesAssumption`, `DraftsAssumption`, `BoundsAssumption`,
`MaxRevisionAssumption` and the like).

* `TypeCorrect`: inductive as it stands; one lemma per group of actions.
* `ConversationOrdered`: `TypeOK /\ ConversationIsOrdered`. Segment and endpoint commands
  touch neither turns nor phase and are dispatched together; the work is in a hand off and a
  response, which append one turn.
* `ConversationGrows`: every action appends to `turns` or leaves them.
* `FloorExclusion`: `GraceAndHoldExclude` is not inductive: cancelling "the" pending grace or
  releasing "the" hold only leaves none if there was at most one, and a grace may start over a
  capture unless the capture counts as uncommitted. `FloorInv` adds that a pending grace, an
  active hold and an active segment are each unique, and that an active segment is uncommitted
  and belongs to the candidate floor.
* `SingleFlight`: `FloorInv` has the captures, the grace and the hold; `FlightInv` adds the calls
  to the transcriber and the classifier. An authorized attempt is tied to the lifecycle
  `transcribing`, so a command that needs another lifecycle finds none.
* `SpeechCommitted`: `CommitInv` states the membership of segments and transcripts without
  cardinalities and adds that nothing waits for a turn before the first candidate floor. It needs
  `FloorInv`: a capture that fails or ends is never a committed segment. A committed segment may
  be transcribed again but no longer excluded, so its turn goes on saying it once.
* `SelectionKeeps`: `SelectionInv` says that the selection names a stored candidate; the late
  result never overwrites it because it belongs to another attempt.
* `HandOffJudged`: from the guard of the grace and its one hand off.
* `HistoriesConsistent`: citations, grounds of graces and holds that were sent, each its own
  invariant; candidates and turns are never withdrawn (`NoSelectionIsWorse`, `Grows`), so what was
  cited once stays good.
* `NothingLeftBehind`: `NoEditIsLeftBehind` is inductive once stated for the publication
  controller alone (`Sound`); one lemma per operation of the controller, then one for the
  page's handlers that call it, for any Board, shapes and bounds.
* `TypeCorrect` (of `BoardEditorBridge`), `DraftIDsDistinct`: `TypeInvariant` types every variable,
  call and message, says that a document has no ID twice and that an update put off until the
  pointer is up is drawn as a load draws it. It rests on lemmas about the translations: `picked`
  keeps the order and misses nothing (`NthIs`, `Picked`), so a load draws a permutation of the
  document (`LoadedIs`) and a canvas of `MaxElements` stays one; `decodeChange` gives distinct IDs
  (`AssignedIs`, `DecodedIs`). That the recursive function `assignedIDs` exists is shown by the
  smallest prefix that would have none (`AssignsExists`), which needs no induction theorem.
* `IdentityStable`: what the draft becomes is decided by scenes that were taken long before, by
  documents put off or sent before those, and by the histories. Elements are followed by their
  ink. Three invariants hold whatever the schedule: types, the controller's soundness, and
  `PageFits` (what the page holds back shows what its canvas shows). Until something races,
  `Steady` holds too: no two documents anywhere give one ink two IDs (`Agreement`); the ledger tells
  the truth about the snapshot's document (`Ledger`); no scene is on its way while a document is;
  and while the page was sent the Board the coordinator last decoded, the scenes on their way and
  the canvas after them form a chain (`Chain`), in which every element is found in the document or
  in the ledger (`Known`) and one that a scene lacks does not come back in a later scene (`Later`).
  None is inductive without the others: accepting a scene moves the document and the ledger one
  link along the chain (`DecodeKeeps`, `KnownMoves`, `LaterMoves`), pruning the ledger needs `Later`,
  undo needs `Agreement` over the histories. Each step is proved to keep `Steady` or to set `raced`
  (`StepHolds`).
* `CanvasSettles`: the converse of the last, that the canvas comes to show what the draft became.
  Whether a scene needs to be sent, a reload is due or a document is under way is known to different
  parties, so `SettledInvariant` adds to the above what each may count on. Of the page
  (`Balanced`, one case per phase of a native update): what its publication adopted the coordinator
  has, or will have from the last scene on its way, or the canvas will be replaced (`Conveyed`,
  `Acknowledged`); with nothing pending, what it adopted is what the canvas shows (`Reflects`); a page
  that has not loaded awaits its first document (`Awaits`). Of the coordinator (`Followed`): it has the
  presented Board or an observation is due, it was sent or a task will send it, and a page whose
  `ready` is not yet handled has posted it. Of the gesture and the pictograms, `Tidy`. That a canvas
  "has" a Board is `Settled`: decoding it over the Board gives the Board again. It holds of what a load
  or a reconcile draws (`SettledLoads`), of a scene after it was decoded and the ledger learned from
  it (`SettledDecodes`: here the chain of `IdentityStable` is needed), and when the ledger is pruned
  (`SettledPrunes`). Each step is proved to keep the page in step or to set `raced` (`StepInStep`);
  in a quiet state every alternative but `Settled` is gone (`QuietSettles`).
* `ComparisonStands`, `NoLostUpdate`, `FileImplements`: `FileInv` adds to the comparison what
  the lock excludes (`WriterExcludes`) and what a client at each step has read (`StepsAgree`).
  The refinement goes step by step: `Replace` is the abstract save, everything before it stutters.
* `CachesEarlier`, `AnswersDurable`, `ReceiptsValid`, `LogGrows`, `LedgerKept`: in `LogInv`,
  `CachesAreEarlier` says that what each actor holds is an earlier state of the store, so a save
  that passes the comparison of revisions starts from the store itself and the receipt its
  actor did not find in its copy is nowhere; `WorkAgrees` ties a command in flight to the copy it
  extends; `EffectsAreFresh` says that an actor about to cause an effect is the only one and the
  first. None of the five is inductive without the others.

Of the interviewer's speech, for any number of turns and attempts and every operation and fault:

* `TypeCorrect`, `SoundIsOwned`, `AttemptsAreOwned`, `ReadyIsOnDisk`, `OneActiveAttempt`: none is
  inductive. `SpeechInv` says of the coordinator's record that what it names exists
  (`wellFormed`); that the operation or its finalizer waits for every active attempt, and that a
  drain or a retry under way waits for that same attempt (`owned`: without it a second generation
  could be authorized over the first); that what plays belongs to the operation or to saved
  playback, and that a stop about to begin has silenced it (`heard`); that an operation past its last
  chunk has its final WAV (`hasFinalAudio`); and that new turns wait in order (`inOrder`). It is
  proved of the operators the actions are composed of (`good(s)` in, `good(s')` out), so an
  action is one composition.
* `OperationKeepsItsHandle` and `NewTurnsAreSpokenInOrder`: the action properties, from the same
  invariant. The order needs no induction over the queue: `inOrder` says it is increasing and that
  the turn the drain awaits comes before all of it.

Of the candidate's speech composed with the session:

* `RoomStepsAreSessionSteps`: every step of the coordinator is a step of `InterviewRoomSession`, or
  leaves it alone. A command carries names read from a snapshot published some steps, and some other
  task's command, earlier; `NamesInv` says they still name something, because histories only
  grow. Only steps are claimed: the room opens on a session under way, which is a
  reachable state of the session and not its `Init`.
* `SessionStaysSound`, `HistoriesStaySound`, `SessionStepsStaySound`: the session's invariants hold of
  the state the room opens in, so with the steps above all that is proved of the session, its
  action properties too, holds of the composition.
* `TypesAreKept`, `MicrophoneStaysAuthorized`, `SpeechIsKept`, `MicrophoneStaysOwned`,
  `ResumingSettles`: from `SpeechInv`, which adds to `NamesInv` who may move (`ControlInv`: resuming
  runs alone) and what the recorder captures for whom (`CaptureInv`: the task that waits for a
  capture to start is the only one; a task that reports the end of a capture has let the recorder
  go; no file is on disk of a capture that may still be reported as failed). Without the last,
  speech that was recorded could be recorded as lost.
* `WorkIsOwned`: `OwnershipInv` adds that the session admits one command at a time, that what the
  coordinator published is what the session holds, and `RaceInv`: the refused completion of a grace
  that is gone cancels the coordinator's wait for whatever grace there is, so nothing may have
  activated another in the meantime.
* `OpenFloorIsHeard`: `FloorIsHeard` where no answer is replayed. `HearingInv` adds that the
  coordinator wants to listen in Continuous Conversation only, that the floor is opened only when the
  interviewer is silent, who speaks in its own turn only, and that whoever wants to listen is armed
  for the candidate once the floor is open; that the floor opens with nothing uncommitted to record
  over it is the session's `CommitInv`. A replay is outside that turn: with it TLC finds barge-in
  armed over an open floor (section 8), and the theorem does not claim it.

Model-checked only: the liveness properties; fairness and `ENABLED` are beyond the prover.

## 7. Disagreements with a run

* `SessionGraceRestore`: `excludeSegment`, and a retry in `authorizeSegmentTranscription`, leave
  a pending grace on evidence that changed; `validate` refuses the manifest they save.
* `SpeechTrap`: barge-in, Mute or removing the model empties the queue while its head is being
  authorized; the drain loop then calls `removeFirst()` on the empty array.

## 8. Known disagreements

Met while modelling, each reproduced once by a counterexample of these modules; where a
definition of the module states the rule it is named.

* `InterviewRoomSession.swift:1152`: `finish` over an unanswered answer completes a session
  whose conversation ends with a candidate turn; `validate` (2644) refuses it at the next
  restore (`OnlyProcessingEndsWithCandidate`). The tests finish only from the opening.
* `InterviewRoomSession.swift:2926`: a completed grace is compared at restore with what its
  segments select now. Retranscribing a committed segment, or committing one that was transcribed
  and then excluded, makes a normal session unrestorable (`CompletedGraceMatchesTurn`).
* `InterviewerSpeechCoordinator.swift:545`: `authorizeAndStart` does not check `isMuted` again
  after its save, so a Retry muted meanwhile is heard.
* `InterviewerSpeechCoordinator.swift:355`: a Retry begins no playback cycle, so its speech is
  heard while the conversation listens for the candidate's turn and not for barge-in; so is a
  queued turn started after Stop.
* `SegmentSpeechCoordinator.swift:532`: a turn replayed over a recording segment arms barge-in
  detection, which never reports the end of the candidate's speech, and nothing re-arms it.
* `SegmentSpeechCoordinator.swift:566`: Pause microphone pressed while a detected segment is
  still being authorized disarms the segmenter and returns; the recorder then starts.
* `SegmentSpeechCoordinator.swift:195`: manual turns and back to Continuous Conversation leave
  `wantsContinuousListening` false: the open floor is not heard.
* `SegmentSpeechCoordinator.swift:887`: a transcript that arrives while a note is being saved
  throws `commandInProgress` and is not applied again before the next launch.
* `SegmentSpeechCoordinator.swift:1167`: `completeScheduledGrace`, refused, reconciles at once, is
  refused by the same command and forgets the timer: the grace stays pending with nobody waiting.

* `SegmentSpeechCoordinator.swift:1279`: speech that resumes while the previous segment is
  transcribed is dropped, and the grace runs out over the talking candidate
  (`GraceYieldsToSpeech`, which `CONTEXT.md:144` promises).

Of the Board editor:

* `main.jsx:1184` and `1165`: a flush or a command after a flush before the first load was
  applied hands over the empty bootstrap canvas, which replaces the draft: the coordinator only
  checks that a load was *sent* (`BaselineIsLoadedFirst`;
  `docs/postmortems/2026-08-12-board-bootstrap-overwrite.md:77`).
* `main.jsx:791`: input before the first load is applied leaves the page without an adopted scene,
  and what is drawn from then on is not published until the next flush or document.
* `main.jsx:963`: a document deferred until the pointer is up is replaced by a later state
  update, and the draft is not drawn; a flush or a blur during the gesture ends the interaction,
  and what waits for the pointer is stale when it runs.
* `ExcalidrawBoardEditorView.swift:692`: a scene and a document that cross undo each other: an
  element deleted or just drawn comes back or is lost, and content of an inspected revision
  may be published into the draft. An observation after a refusal cancels the reload that
  was due, one after an acceptance the reconcile.
* `main.jsx:550` calls revisions monotonic; a load resets the versions they sum, so two canvases
  may have one revision and the second is not published.
* `main.jsx:963`: the scene published when the pointer is lifted drops a document that was put off
  meanwhile. `ExcalidrawBoardEditorView.swift:692`: a scene is accepted although the canvas was not
  sent the Board presented last; and a Board that goes away and is presented again before its load was
  sent finds the load it needs cancelled, or its IDs pruned from the ledger.
* `ExcalidrawBoardEditorView.swift:943`: the reload of a refused scene drops the edits drawn since.
  The reply of a flush is handled after newer messages and overwrites their scene.
* A pasted copy claims its original's Board ID, also when it was given one of its own
  (`docs/adr/0009-local-excalidraw-board-editor-adapter.md:38`).
* Undo never gets past a document that is not in render order: the flush before it publishes the
  reordering as a new edit (`docs/adr/0009-local-excalidraw-board-editor-adapter.md:40`).

## 9. Not modelled, and why

The components of section 1 without a module are planned (section 2), or are layout, logging,
paths, wire encoding and packaging, which keep no state that these properties could be
about. Of the session: interviewer utterances (in `InterviewerSpeechCoordinator` instead),
board revisions beyond the draft and its latest revision, exports, and `appendTrace`. Of the Board
editor: `board-chrome.js` and the HTML and style of the overlay, which only lay out what
`BoardScene` says is shown; the build scripts and the generated bundle under `Resources`; the
fallback canvas's gestures, connector routing and document limits. Durability of the disk
below `rename` and a machine that loses power are outside every model.
