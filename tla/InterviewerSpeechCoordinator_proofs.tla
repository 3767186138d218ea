----------------- MODULE InterviewerSpeechCoordinator_proofs -----------------
(***************************************************************************)
(* Theorems about InterviewerSpeechCoordinator, for every value of its     *)
(* constants: how many turns and attempts a session holds, how often the   *)
(* drain retries and which calls and faults happen.                        *)
(*                                                                         *)
(* The inductive invariant is SpeechInv: the manifest has its type, at     *)
(* most one attempt of it is active, a ready one has its WAV, and the      *)
(* coordinator's record is good(speech).  Each action is shown to give a   *)
(* good record, through the operators it is composed of.                   *)
(***************************************************************************)
EXTENDS InterviewerSpeechCoordinator, FiniteSetTheorems, WellFoundedInduction, TLAPS

-----------------------------------------------------------------------------
(* The inductive invariant *)

\* the record has its type, and what it names exists in the manifest
wellFormed(s) ==
    /\ s \in Coordinator
    /\ s.operation \in Operations \cup {noOperation}
    /\ s.stage = "none" <=> s.operation = noOperation
    /\ s.drain # 0 => s.drain \in DOMAIN utterances
    /\ s.control.call = "retrying" => s.control.turn \in DOMAIN utterances
    /\ s.finalizer # noFinalizer => s.finalizer.operation \in Operations
    /\ s.finalizer.stage = "none" => s.finalizer = noFinalizer

\* An attempt has somebody to record its outcome.
owned(s) ==
    /\ s.cancelled => /\ s.finalizer.stage = "cancelling"
                      /\ s.finalizer.operation = s.operation
    /\ s.finalizer.stage = "saving" => s.operation # s.finalizer.operation
    /\ ~s.resumed => /\ s.operation = noOperation /\ s.finalizer = noFinalizer
                     /\ s.drain = 0 /\ s.control = noCall /\ s.player = "idle"
    /\ s.operation # noOperation /\ (s.drain # 0 \/ s.control.call = "retrying")
       => s.operation \in ActiveAttempts
    /\ s.stage = "ending" /\ s.operation \in ActiveAttempts /\ ~lostSave => s.cancelled
    /\ process = "running" /\ s.resumed /\ ~lostSave =>
           ActiveAttempts \subseteq {s.operation, s.finalizer.operation}

\* Sound has an owner, and a stop about to begin has silenced it.
heard(s) ==
    /\ s.player = "audible" => s.stage \in {"sounding", "finishing"}
    /\ s.player = "file" => s.control.call = "playing"
    /\ s.stage \in {"streaming", "sounding", "finishing"}
       => attemptOf(s.operation).state = "speaking"
    /\ s.finalizer.stage = "spawned" /\ s.finalizer.operation = s.operation
       => /\ s.player # "audible"
          /\ s.stage \in {"streaming", "sounding"} => s.player # "open"
    /\ s.cancelled => s.player # "audible"

\* What the manifest is about to call ready is on disk.
hasFinalAudio(s) ==
    s.stage \in {"finishing", "savingReady", "savingReadyAgain"} => s.operation \in finalAudio

\* The queue and the drain hold turns observed after attach, in their order.
inOrder(s) ==
    /\ s.attachedTo <= s.known /\ s.known <= Len(utterances)
    /\ \A i \in DOMAIN s.queue : s.queue[i] \in (s.attachedTo + 1)..s.known
    /\ \A i, j \in DOMAIN s.queue : i < j => s.queue[i] < s.queue[j]
    /\ s.drain # 0 => /\ s.drain \in (s.attachedTo + 1)..s.known
                      /\ \A i \in DOMAIN s.queue : s.drain <= s.queue[i]

good(s) == wellFormed(s) /\ owned(s) /\ heard(s) /\ hasFinalAudio(s) /\ inOrder(s)

Ready == utterances \in Seq(InterviewerUtterance)

SpeechInv ==
    /\ Ready
    /\ finalAudio \subseteq Nat \X Nat
    /\ process \in {"running", "down", "trapped"}
    /\ lostSave \in BOOLEAN
    /\ \A o, p \in ActiveAttempts : o = p
    /\ ReadyHasAudio
    /\ good(speech)

\* two records that agree on a part
sameCalls(r, s) ==
    /\ r.attachedTo = s.attachedTo /\ r.known = s.known
    /\ r.resumed = s.resumed /\ r.control = s.control
sameQueue(r, s) == r.queue = s.queue /\ r.drain = s.drain
sameOperation(r, s) ==
    r.operation = s.operation /\ r.cancelled = s.cancelled /\ r.finalizer = s.finalizer
same(r, s) == sameCalls(r, s) /\ sameQueue(r, s) /\ sameOperation(r, s)


\* A generation stage that moves on, with nothing else than the player, is good
\* when it claims no more than the last: about the attempt, the WAV or the sound.
LEMMA StageMoves ==
    ASSUME NEW s, good(s), NEW r \in Coordinator, same(r, s),
           r.stage = "none" <=> s.stage = "none",
           \/ r.stage \notin {"streaming", "sounding", "finishing"}
           \/ s.stage \in {"streaming", "sounding", "finishing"},
           \/ r.stage \notin {"finishing", "savingReady", "savingReadyAgain"}
           \/ s.stage \in {"finishing", "savingReady", "savingReadyAgain"},
           r.stage = "ending" => s.stage = "ending" \/ s.cancelled,
           r.player = "file" => s.player = "file",
           r.player # "idle" => s.resumed,
           r.player = "audible" =>
               \/ /\ r.stage = "sounding" /\ s.stage \in {"streaming", "sounding"}
                  /\ ~s.cancelled /\ s.player \in {"open", "audible"}
               \/ s.player = "audible" /\ r.stage \in {s.stage, "finishing"},
           r.player = "open" => \/ r.stage \notin {"streaming", "sounding"}
                                \/ s.player = "open" /\ s.stage \in {"streaming", "sounding"}
    PROVE  good(r)
  <1> USE DEF good, same, sameCalls, sameQueue, sameOperation
  <1>1. wellFormed(r)
    BY DEF wellFormed
  <1>2. owned(r)
    BY DEF owned
  <1>3. heard(r)
    BY DEF heard
  <1>4. hasFinalAudio(r)
    BY DEF hasFinalAudio
  <1>5. inOrder(r)
    BY DEF inOrder
  <1> QED
    BY <1>1, <1>2, <1>3, <1>4, <1>5

\* What moves neither the queue, the operation nor the calls stays good; the
\* player may fall silent.
LEMMA Flags ==
    ASSUME NEW s, good(s), NEW r \in Coordinator, same(r, s), r.stage = s.stage,
           r.player \in {s.player, "idle"}
    PROVE good(r)
  <1>1. s \in Coordinator
    BY DEF good, wellFormed
  <1>2. s.player # "idle" => s.resumed
    BY DEF good, owned
  <1>3. r.player = "audible" => s.player = "audible" /\ r.stage \in {s.stage, "finishing"}
    OBVIOUS
  <1>4. r.player = "open" => \/ r.stage \notin {"streaming", "sounding"}
                             \/ s.player = "open" /\ s.stage \in {"streaming", "sounding"}
    OBVIOUS
  <1>5. r.player = "file" => s.player = "file"
    OBVIOUS
  <1>6. r.player # "idle" => s.resumed
    BY <1>2
  <1> HIDE DEF good
  <1> QED BY <1>3, <1>4, <1>5, <1>6, StageMoves, SMTT(30)

\* Opening or closing the cycle, and the bookkeeping of retries, move only flags.
LEMMA FlagOperators ==
    ASSUME NEW s, good(s), NEW turns
    PROVE  /\ good(beginPlaybackCycle(s)) /\ good(endPlaybackCycle(s))
           /\ good(resetAutomaticDrainRetry(s)) /\ good(resetDrainRetryFor(s, turns))
  <1>1. s \in Coordinator
    BY DEF good, wellFormed
  <1>2. good(beginPlaybackCycle(s))
    <2> DEFINE r == beginPlaybackCycle(s)
    <2>1. r \in Coordinator /\ same(r, s) /\ r.stage = s.stage /\ r.player = s.player
      BY <1>1, ZenonT(60) DEF Coordinator, same, sameCalls, sameQueue, sameOperation, beginPlaybackCycle
    <2> HIDE DEF r
    <2>2. good(r)
      BY <2>1, Flags
    <2> QED BY <2>2 DEF r
  <1>3. good(endPlaybackCycle(s))
    <2> DEFINE r == endPlaybackCycle(s)
    <2>1. r \in Coordinator /\ same(r, s) /\ r.stage = s.stage /\ r.player = s.player
      BY <1>1, ZenonT(60) DEF Coordinator, same, sameCalls, sameQueue, sameOperation, endPlaybackCycle
    <2> HIDE DEF r
    <2>2. good(r)
      BY <2>1, Flags
    <2> QED BY <2>2 DEF r
  <1>4. good(resetAutomaticDrainRetry(s))
    <2> DEFINE r == resetAutomaticDrainRetry(s)
    <2>1. r \in Coordinator /\ same(r, s) /\ r.stage = s.stage /\ r.player = s.player
      BY <1>1, ZenonT(60) DEF Coordinator, same, sameCalls, sameQueue, sameOperation, noBackoff,
          resetAutomaticDrainRetry
    <2> HIDE DEF r
    <2>2. good(r)
      BY <2>1, Flags
    <2> QED BY <2>2 DEF r
  <1> QED
    BY <1>2, <1>3, <1>4 DEF resetDrainRetryFor

(* The queue *)

Less == {p \in Nat \X Nat : p[1] < p[2]}

\* A set of numbers that is not empty has a least element.
LEMMA SmallestExists == ASSUME NEW S \in SUBSET Nat, S # {} PROVE \E x \in S : \A y \in S : x <= y
  <1>1. IsWellFoundedOn(OpToRel(<,Nat), Nat)
    BY NatLessThanWellFounded
  <1>3. OpToRel(<,Nat) = Less
    BY Zenon DEF OpToRel, Less
  <1>4. IsWellFoundedOn(Less, Nat)
    BY <1>1, <1>3, Zenon
  <1>2. PICK x \in S : \A y \in S : ~(<<y,x>> \in Less)
    BY <1>4, WFMin, Zenon
  <1>5. ASSUME NEW y \in S PROVE x <= y
    <2>1. x \in Nat /\ y \in Nat
      OBVIOUS
    <2>2. y < x => <<y, x>> \in Less
      BY <2>1 DEF Less
    <2>3. ~(y < x)
      BY <2>2, <1>2
    <2> QED BY <2>1, <2>3
  <1> QED
    BY <1>5

\* Min chooses that element.
LEMMA MinIsSmallest ==
    ASSUME NEW S \in SUBSET Nat, S # {}
    PROVE Min(S) \in S /\ \A y \in S : Min(S) <= y
  BY SmallestExists DEF Min

\* Resetting the retry bookkeeping moves nothing else.
LEMMA ResetMoves ==
    ASSUME NEW s \in Coordinator, NEW turns
    PROVE  LET r == resetDrainRetryFor(s, turns)
           IN  /\ r \in Coordinator /\ sameCalls(r, s) /\ sameOperation(r, s)
               /\ r.stage = s.stage /\ r.player = s.player /\ sameQueue(r, s)
               /\ r.isPlayingSavedAudio = s.isPlayingSavedAudio
  <1> DEFINE r == resetAutomaticDrainRetry(s)
  <1>1. /\ r \in Coordinator /\ sameCalls(r, s) /\ sameOperation(r, s)
        /\ r.stage = s.stage /\ r.player = s.player /\ sameQueue(r, s)
        /\ r.isPlayingSavedAudio = s.isPlayingSavedAudio
    BY ZenonT(60) DEF Coordinator, sameCalls, sameOperation, sameQueue, noBackoff, resetAutomaticDrainRetry
  <1>2. /\ sameCalls(s, s) /\ sameOperation(s, s) /\ sameQueue(s, s)
    BY DEF sameCalls, sameOperation, sameQueue
  <1> QED
    BY <1>1, <1>2 DEF resetDrainRetryFor

\* The pump either does nothing, or it drops heads of the queue and may pick one
\* turn to authorize; it starts nothing itself.
LEMMA StartNextMoves ==
    ASSUME NEW s \in Coordinator
    PROVE  LET r == startNextPendingAutomaticTurnIfEligible(s)
           IN  /\ r \in Coordinator /\ sameCalls(r, s) /\ sameOperation(r, s)
               /\ r.stage = s.stage /\ r.player \in {s.player, "idle"}
               /\ \/ sameQueue(r, s)
                  \/ /\ s.drain = 0 /\ s.operation = noOperation /\ s.finalizer = noFinalizer
                     /\ \E from \in 1..(Len(s.queue) + 1) :
                           /\ r.queue = SubSeq(s.queue, from, Len(s.queue))
                           /\ \/ r.drain = 0
                              \/ /\ from <= Len(s.queue)
                                 /\ r.drain = s.queue[from] /\ isPending(r.drain)
  <1> DEFINE live == {i \in DOMAIN s.queue : isPending(s.queue[i])}
             from == IF live = {} THEN Len(s.queue) + 1 ELSE Min(live)
             skipped == {s.queue[i] : i \in 1..(from - 1)}
             rest == SubSeq(s.queue, from, Len(s.queue))
             s1 == resetDrainRetryFor(s, skipped)
             next == IF live = {} THEN 0 ELSE Head(rest)
             r == [s1 EXCEPT
                 !.queue = rest,
                 !.drain = next,
                 !.isPlayingSavedAudio = live = {} /\ @,
                 !.player = IF live # {} /\ s.isPlayingSavedAudio THEN "idle" ELSE @]
  <1>1. s.queue \in Seq(Nat)
    BY DEF Coordinator
  <1>2. /\ from \in 1..(Len(s.queue) + 1)
        /\ live # {} => from <= Len(s.queue) /\ isPending(s.queue[from])
    <2>1. live \in SUBSET Nat
      BY <1>1
    <2>2. \A i \in live : i \in DOMAIN s.queue /\ isPending(s.queue[i])
      OBVIOUS
    <2> HIDE DEF live
    <2>3. CASE live # {}
      <3>1. Min(live) \in live /\ from = Min(live)
        BY <2>1, <2>3, MinIsSmallest
      <3> HIDE DEF from
      <3>2. from \in DOMAIN s.queue /\ isPending(s.queue[from])
        BY <3>1, <2>2
      <3> QED BY <3>2, <1>1
    <2>4. CASE live = {}
      BY <2>4, <1>1
    <2> QED BY <2>3, <2>4
  <1>3. /\ rest \in Seq(Nat)
        /\ live # {} => Head(rest) = s.queue[from] /\ Head(rest) \in Nat
    <2> HIDE DEF from, live
    <2> QED BY <1>1, <1>2, SMTT(30)
  <1>4. /\ s1 \in Coordinator /\ sameCalls(s1, s) /\ sameOperation(s1, s)
        /\ s1.stage = s.stage /\ s1.player = s.player /\ sameQueue(s1, s)
        /\ s1.isPlayingSavedAudio = s.isPlayingSavedAudio
    BY ResetMoves
  <1>5. /\ r \in Coordinator /\ sameCalls(r, s1) /\ sameOperation(r, s1)
        /\ r.stage = s1.stage /\ r.player \in {s1.player, "idle"}
        /\ r.queue = rest /\ r.drain = next
    <2>1. next \in Nat
      BY <1>3
    <2> DEFINE p == IF live # {} /\ s.isPlayingSavedAudio THEN "idle" ELSE s1.player
               q == live = {} /\ s1.isPlayingSavedAudio
               u == [s1 EXCEPT !.queue = rest]
               v == [u EXCEPT !.drain = next]
               w == [v EXCEPT !.isPlayingSavedAudio = q]
    <2>2. q \in BOOLEAN /\ p \in {s1.player, "idle"} /\ s1.player \in {"idle", "open", "audible", "file"}
      BY <1>4 DEF Coordinator
    <2>3. r = [w EXCEPT !.player = p]
      <3> HIDE DEF next, rest, live, s1
      <3> QED BY <1>4 DEF Coordinator
    <2> HIDE DEF next, rest, live, s1, p, q, r
    <2>4. /\ u \in Coordinator /\ sameCalls(u, s1) /\ sameOperation(u, s1)
          /\ u.stage = s1.stage /\ u.player = s1.player /\ u.queue = rest
      <3>1. u \in Coordinator
        BY <1>3, <1>4, ZenonT(60) DEF Coordinator
      <3> QED BY <1>3, <1>4, <3>1, ZenonT(60) DEF Coordinator, sameCalls, sameOperation
    <2> HIDE DEF u
    <2>5. /\ v \in Coordinator /\ sameCalls(v, s1) /\ sameOperation(v, s1)
          /\ v.stage = s1.stage /\ v.player = s1.player /\ v.queue = rest /\ v.drain = next
      <3>1. v \in Coordinator
        BY <2>4, <2>1, ZenonT(60) DEF Coordinator
      <3> QED BY <2>4, <2>1, <3>1, ZenonT(60) DEF Coordinator, sameCalls, sameOperation
    <2> HIDE DEF v
    <2>6. /\ w \in Coordinator /\ sameCalls(w, s1) /\ sameOperation(w, s1)
          /\ w.stage = s1.stage /\ w.player = s1.player /\ w.queue = rest /\ w.drain = next
      <3>1. w \in Coordinator
        BY <2>5, <2>2, ZenonT(60) DEF Coordinator
      <3> QED BY <2>5, <2>2, <3>1, ZenonT(60) DEF Coordinator, sameCalls, sameOperation
    <2> HIDE DEF w
    <2>7. r \in Coordinator
      BY <2>6, <2>2, <2>3, ZenonT(60) DEF Coordinator
    <2> QED BY <2>6, <2>7, <2>2, <2>3, ZenonT(60) DEF Coordinator, sameCalls, sameOperation
  <1>6. startNextPendingAutomaticTurnIfEligible(s) =
            IF /\ s.isReady /\ ~s.isMuted /\ s.model = "idle"
               /\ s.finalizer = noFinalizer /\ s.drain = 0 /\ s.operation = noOperation
            THEN r ELSE s
    BY DEF startNextPendingAutomaticTurnIfEligible
  <1> HIDE DEF r, rest, from, s1
  <1>7. CASE startNextPendingAutomaticTurnIfEligible(s) = s
    BY <1>7 DEF sameCalls, sameOperation, sameQueue
  <1>8. CASE /\ startNextPendingAutomaticTurnIfEligible(s) = r
             /\ s.finalizer = noFinalizer /\ s.drain = 0 /\ s.operation = noOperation
    <2>1. /\ r \in Coordinator /\ sameCalls(r, s) /\ sameOperation(r, s)
          /\ r.stage = s.stage /\ r.player \in {s.player, "idle"}
      BY <1>4, <1>5 DEF sameCalls, sameOperation
    <2>2. r.queue = rest /\ rest = SubSeq(s.queue, from, Len(s.queue))
      BY <1>5 DEF rest
    <2>3. r.drain = 0 \/ (from <= Len(s.queue) /\ r.drain = s.queue[from] /\ isPending(r.drain))
      BY <1>2, <1>3, <1>5
    <2> QED BY <1>8, <2>1, <2>2, <2>3, <1>2
  <1> QED BY <1>6, <1>7, <1>8

\* What is dropped is a prefix of the queue, and what is picked is its head.
LEMMA StartNextOrdered ==
    ASSUME NEW s \in Coordinator, inOrder(s)
    PROVE  inOrder(startNextPendingAutomaticTurnIfEligible(s))
  <1> DEFINE r == startNextPendingAutomaticTurnIfEligible(s)
  <1>1. /\ r.attachedTo = s.attachedTo /\ r.known = s.known
        /\ \/ sameQueue(r, s)
           \/ \E from \in 1..(Len(s.queue) + 1) :
                    /\ r.queue = SubSeq(s.queue, from, Len(s.queue))
                    /\ \/ r.drain = 0
                       \/ /\ from <= Len(s.queue)
                          /\ r.drain = s.queue[from] /\ isPending(r.drain)
    BY StartNextMoves DEF sameCalls
  <1> HIDE DEF r
  <1>2. ASSUME sameQueue(r, s) PROVE inOrder(r)
    BY <1>1, <1>2 DEF sameQueue, inOrder
  <1>3. ASSUME NEW from \in 1..(Len(s.queue) + 1),
               r.queue = SubSeq(s.queue, from, Len(s.queue)),
               \/ r.drain = 0
               \/ from <= Len(s.queue) /\ r.drain = s.queue[from] /\ isPending(r.drain)
        PROVE  inOrder(r)
    <2>1. s.queue \in Seq(Nat) /\ s.attachedTo \in Nat /\ s.known \in Nat
      BY DEF Coordinator
    <2>2. /\ DOMAIN r.queue = 1..(Len(s.queue) - from + 1)
          /\ \A i \in DOMAIN r.queue : /\ i + from - 1 \in DOMAIN s.queue
                                      /\ r.queue[i] = s.queue[i + from - 1]
      BY <1>3, <2>1, SMTT(30)
    <2>3. \A i \in DOMAIN r.queue : r.queue[i] \in (s.attachedTo + 1)..s.known
      BY <2>2 DEF inOrder
    <2>4. \A i, j \in DOMAIN r.queue : i < j => r.queue[i] < r.queue[j]
      BY <1>3, <2>1, <2>2, SMTT(30) DEF inOrder
    <2>5. ASSUME r.drain # 0
          PROVE /\ r.drain \in (s.attachedTo + 1)..s.known
                /\ \A i \in DOMAIN r.queue : r.drain <= r.queue[i]
      <3>1. r.drain = s.queue[from] /\ from \in DOMAIN s.queue
        BY <1>3, <2>1, <2>5
      <3>2. ASSUME NEW i \in DOMAIN r.queue PROVE r.drain <= r.queue[i]
        <4>1. i \in Nat /\ i >= 1 /\ from \in Nat
          <5>1. Len(s.queue) \in Nat
            BY <2>1
          <5>2. i \in 1..(Len(s.queue) - from + 1)
            BY <2>2
          <5> QED BY <5>1, <5>2, <1>3
        <4> DEFINE k == i + from - 1
        <4>2. r.queue[i] = s.queue[k] /\ k \in DOMAIN s.queue /\ k >= from /\ k \in Nat
          BY <2>2, <4>1
        <4> HIDE DEF k
        <4>3. k = from \/ s.queue[from] < s.queue[k]
          BY <3>1, <4>1, <4>2 DEF inOrder
        <4>4. s.queue[k] \in Nat /\ s.queue[from] \in Nat
          BY <2>1, <3>1, <4>2, SMTT(30)
        <4> QED BY <3>1, <4>2, <4>3, <4>4
      <3> QED BY <3>1, <3>2 DEF inOrder
    <2> QED BY <1>1, <2>3, <2>4, <2>5 DEF inOrder
  <1> QED BY <1>1, <1>2, <1>3 DEF r

\* The pump leaves a good coordinator good, whatever it skips or picks.
LEMMA StartNextGood ==
    ASSUME NEW s, good(s), s.resumed, Ready
    PROVE  /\ good(startNextPendingAutomaticTurnIfEligible(s))
           /\ startNextPendingAutomaticTurnIfEligible(s).operation = s.operation
  <1>1. s \in Coordinator
    BY DEF good, wellFormed
  <1> DEFINE r == startNextPendingAutomaticTurnIfEligible(s)
  <1>2. /\ r \in Coordinator /\ sameCalls(r, s) /\ sameOperation(r, s)
        /\ r.stage = s.stage /\ r.player \in {s.player, "idle"}
        /\ \/ sameQueue(r, s)
           \/ /\ s.drain = 0 /\ s.operation = noOperation /\ s.finalizer = noFinalizer
              /\ \E from \in 1..(Len(s.queue) + 1) :
                    /\ r.queue = SubSeq(s.queue, from, Len(s.queue))
                    /\ \/ r.drain = 0
                       \/ /\ from <= Len(s.queue)
                          /\ r.drain = s.queue[from] /\ isPending(r.drain)
    BY <1>1, StartNextMoves
  <1> HIDE DEF r
  <1>3. ASSUME sameQueue(r, s) PROVE good(r)
    <2>1. same(r, s)
      BY <1>2, <1>3 DEF same
    <2> QED BY <1>2, <2>1, Flags
  <1>4. ASSUME
            /\ s.drain = 0 /\ s.operation = noOperation /\ s.finalizer = noFinalizer
            /\ \E from \in 1..(Len(s.queue) + 1) :
                    /\ r.queue = SubSeq(s.queue, from, Len(s.queue))
                    /\ \/ r.drain = 0
                       \/ /\ from <= Len(s.queue)
                          /\ r.drain = s.queue[from] /\ isPending(r.drain)
         PROVE good(r)
    <2>1. PICK from \in 1..(Len(s.queue) + 1) :
                    /\ r.queue = SubSeq(s.queue, from, Len(s.queue))
                    /\ \/ r.drain = 0
                       \/ /\ from <= Len(s.queue)
                          /\ r.drain = s.queue[from] /\ isPending(r.drain)
      BY <1>4
    <2>4. wellFormed(r)
      BY <1>2, <2>1 DEF good, wellFormed, sameCalls, sameOperation, isPending
    <2>5. owned(r)
      BY <1>2, <1>4 DEF good, owned, sameCalls, sameOperation
    <2>6. heard(r)
      BY <1>2, <1>4 DEF good, heard, sameCalls, sameOperation
    <2>7. hasFinalAudio(r)
      BY <1>2 DEF good, hasFinalAudio, sameOperation
    <2>8. inOrder(r)
      BY <1>1, StartNextOrdered DEF good, r
    <2> QED BY <2>4, <2>5, <2>6, <2>7, <2>8 DEF good
  <1>5. r.operation = s.operation
    BY <1>2 DEF sameOperation
  <1> QED BY <1>2, <1>3, <1>4, <1>5 DEF r

\* Emptying the queue
LEMMA ClearQueueGood ==
    ASSUME NEW s, good(s)
    PROVE  /\ good(clearQueue(s)) /\ clearQueue(s).operation = s.operation
           /\ clearQueue(s).resumed = s.resumed
  <1> DEFINE q == resetAutomaticDrainRetry(s)
             r == clearQueue(s)
  <1>1. s \in Coordinator
    BY DEF good, wellFormed
  <1>2. good(q) /\ q.operation = s.operation /\ q.resumed = s.resumed
    BY FlagOperators, <1>1 DEF resetAutomaticDrainRetry, Coordinator
  <1>3. r = [q EXCEPT !.queue = <<>>]
    BY DEF clearQueue
  <1> HIDE DEF q, r
  <1>4. q \in Coordinator
    BY <1>2 DEF good, wellFormed
  <1>5. /\ r \in Coordinator /\ sameCalls(r, q) /\ sameOperation(r, q)
        /\ r.stage = q.stage /\ r.player = q.player /\ r.drain = q.drain /\ r.queue = <<>>
    <2>1. <<>> \in Seq(Nat)
      OBVIOUS
    <2> QED BY <1>3, <1>4, <2>1, ZenonT(60) DEF Coordinator, sameCalls, sameOperation
  <1>6. wellFormed(r) /\ owned(r) /\ heard(r) /\ hasFinalAudio(r) /\ inOrder(r)
    BY <1>2, <1>5 DEF good, wellFormed, owned, heard, hasFinalAudio, inOrder, sameCalls, sameOperation
  <1> QED
    BY <1>2, <1>5, <1>6 DEF good, r, sameCalls, sameOperation

\* Turns are numbered from one: no attempt of the manifest is noOperation.
LEMMA NoOperationIsNone == ASSUME Ready PROVE noOperation \notin Operations
  BY DEF Ready, Operations, noOperation

\* Output stops at once, and the finalizer is spawned for the active operation.
LEMMA StoppingGood ==
    ASSUME NEW s, good(s), s.resumed, Ready
    PROVE  good(stopping(s)) /\ stopping(s).operation = s.operation
  <1> DEFINE u == [s EXCEPT !.player = "idle"]
             silent == [u EXCEPT !.isPlayingSavedAudio = FALSE]
             joined == [silent EXCEPT !.stoppers = @ \cup {"joined"}]
             owner == [silent EXCEPT !.stoppers = @ \cup {"owner"}]
             spawned == [owner EXCEPT !.finalizer = [stage |-> "spawned", operation |-> s.operation]]
  <1>1. s \in Coordinator
    BY DEF good, wellFormed
  <1>2. stopping(s) = IF s.finalizer # noFinalizer THEN joined
                      ELSE IF s.operation = noOperation THEN endPlaybackCycle(silent)
                      ELSE spawned
    BY DEF stopping
  <1>3. u \in Coordinator /\ same(u, s) /\ u.stage = s.stage /\ u.player = "idle"
    BY <1>1, ZenonT(60) DEF Coordinator, same, sameCalls, sameQueue, sameOperation
  <1> HIDE DEF u
  <1>4. silent \in Coordinator /\ same(silent, s) /\ silent.stage = s.stage /\ silent.player = "idle"
    BY <1>3, ZenonT(60) DEF Coordinator, same, sameCalls, sameQueue, sameOperation
  <1> HIDE DEF silent
  <1>5. good(silent) /\ silent.operation = s.operation
    BY <1>4, Flags DEF same, sameOperation
  <1>6. joined \in Coordinator /\ same(joined, s) /\ joined.stage = s.stage /\ joined.player = "idle"
    BY <1>4, ZenonT(60) DEF Coordinator, same, sameCalls, sameQueue, sameOperation
  <1>7. owner \in Coordinator /\ same(owner, s) /\ owner.stage = s.stage /\ owner.player = "idle"
    BY <1>4, ZenonT(60) DEF Coordinator, same, sameCalls, sameQueue, sameOperation
  <1> HIDE DEF joined, owner
  <1>8. good(joined) /\ joined.operation = s.operation
    BY <1>6, Flags DEF same, sameOperation
  <1>9. good(endPlaybackCycle(silent)) /\ endPlaybackCycle(silent).operation = s.operation
    BY <1>4, <1>5, FlagOperators DEF endPlaybackCycle, Coordinator
  <1>10. ASSUME s.finalizer = noFinalizer, s.operation # noOperation
         PROVE  good(spawned) /\ spawned.operation = s.operation
    <2> DEFINE f == [stage |-> "spawned", operation |-> s.operation]
    <2>1. f \in [stage : {"none", "spawned", "cancelling", "saving"}, operation : Nat \X Nat]
      BY <1>1 DEF Coordinator
    <2>2. /\ spawned \in Coordinator /\ sameCalls(spawned, owner) /\ sameQueue(spawned, owner)
          /\ spawned.operation = owner.operation /\ spawned.cancelled = owner.cancelled
          /\ spawned.finalizer = f /\ spawned.stage = owner.stage /\ spawned.player = owner.player
      <3> HIDE DEF f
      <3>1. spawned = [owner EXCEPT !.finalizer = f]
        BY DEF f
      <3> HIDE DEF spawned
      <3> QED BY <1>7, <2>1, <3>1, ZenonT(60) DEF Coordinator, sameCalls, sameQueue
    <2> HIDE DEF spawned
    <2>3. /\ sameCalls(spawned, s) /\ sameQueue(spawned, s)
          /\ spawned.operation = s.operation /\ spawned.cancelled = s.cancelled
          /\ spawned.finalizer = f /\ spawned.stage = s.stage /\ spawned.player = "idle"
      BY <1>7, <2>2 DEF same, sameCalls, sameQueue, sameOperation
    <2>4. f.stage = "spawned" /\ f.operation = s.operation /\ f # noFinalizer
      BY DEF noFinalizer
    <2> HIDE DEF f
    <2>5. ~s.cancelled /\ s.operation \in Operations
      BY <1>10 DEF good, owned, wellFormed, noFinalizer
    <2>6. wellFormed(spawned)
      BY <2>2, <2>3, <2>4, <2>5 DEF good, wellFormed, sameCalls, sameQueue
    <2>7. owned(spawned)
      <3>1. process = "running" /\ s.resumed /\ ~lostSave =>
               ActiveAttempts \subseteq {s.operation}
        BY <1>10, NoOperationIsNone DEF good, owned, ActiveAttempts, noFinalizer
      <3> QED BY <3>1, <2>3, <2>4, <2>5 DEF good, owned, sameCalls, sameQueue
    <2>8. heard(spawned)
      BY <2>3, <2>4, <2>5 DEF good, heard, sameCalls
    <2>9. hasFinalAudio(spawned)
      BY <2>3 DEF good, hasFinalAudio
    <2>10. inOrder(spawned)
      BY <2>3 DEF good, inOrder, sameCalls, sameQueue
    <2> QED BY <2>3, <2>6, <2>7, <2>8, <2>9, <2>10 DEF good
  <1> QED BY <1>2, <1>8, <1>9, <1>10

\* A generation's task is over.
LEMMA OperationEnds ==
    ASSUME NEW s, good(s), s.stage = "ending", Ready
    PROVE  good([s EXCEPT !.operation = noOperation, !.stage = "none", !.cancelled = FALSE])
  <1> DEFINE u == [s EXCEPT !.operation = noOperation]
             v == [u EXCEPT !.stage = "none"]
             r == [v EXCEPT !.cancelled = FALSE]
  <1>1. s \in Coordinator /\ noOperation \in Nat \X Nat
    BY DEF good, wellFormed, noOperation
  <1>2. r = [s EXCEPT !.operation = noOperation, !.stage = "none", !.cancelled = FALSE]
    OBVIOUS
  <1>3. /\ u \in Coordinator /\ sameCalls(u, s) /\ sameQueue(u, s) /\ u.finalizer = s.finalizer
        /\ u.player = s.player /\ u.operation = noOperation
    BY <1>1, ZenonT(60) DEF Coordinator, sameCalls, sameQueue
  <1> HIDE DEF u
  <1>4. /\ v \in Coordinator /\ sameCalls(v, s) /\ sameQueue(v, s) /\ v.finalizer = s.finalizer
        /\ v.player = s.player /\ v.operation = noOperation /\ v.stage = "none"
    BY <1>3, ZenonT(60) DEF Coordinator, GenerationStage, sameCalls, sameQueue
  <1> HIDE DEF v
  <1>5. /\ r \in Coordinator /\ sameCalls(r, s) /\ sameQueue(r, s) /\ r.finalizer = s.finalizer
        /\ r.player = s.player /\ r.operation = noOperation /\ r.stage = "none" /\ ~r.cancelled
    BY <1>4, ZenonT(60) DEF Coordinator, sameCalls, sameQueue
  <1> HIDE DEF r
  <1>6. wellFormed(r)
    BY <1>5 DEF good, wellFormed, sameCalls, sameQueue
  <1>7. owned(r)
    BY <1>5, NoOperationIsNone DEF good, owned, wellFormed, sameCalls, sameQueue, noFinalizer
  <1>8. heard(r)
    BY <1>5, NoOperationIsNone DEF good, heard, wellFormed, sameCalls, noFinalizer
  <1>9. hasFinalAudio(r)
    BY <1>5 DEF hasFinalAudio
  <1>10. inOrder(r)
    BY <1>5 DEF good, inOrder, sameCalls, sameQueue
  <1> QED BY <1>2, <1>6, <1>7, <1>8, <1>9, <1>10 DEF good

\* A finalizer whose operation is over, or handed on, may leave.
LEMMA FinalizerEnds ==
    ASSUME NEW s, good(s), ~s.cancelled, Ready,
           ~lostSave => s.finalizer.operation \notin ActiveAttempts
    PROVE  good([s EXCEPT !.finalizer = noFinalizer])
  <1> DEFINE r == [s EXCEPT !.finalizer = noFinalizer]
  <1>1. s \in Coordinator
        /\ noFinalizer \in [stage : {"none", "spawned", "cancelling", "saving"}, operation : Nat \X Nat]
    BY DEF good, wellFormed, noFinalizer, noOperation
  <1>2. noFinalizer.stage = "none" /\ noFinalizer.operation = noOperation
    BY DEF noFinalizer
  <1>3. /\ r \in Coordinator /\ sameCalls(r, s) /\ sameQueue(r, s) /\ r.finalizer = noFinalizer
        /\ r.player = s.player /\ r.operation = s.operation /\ r.stage = s.stage
        /\ r.cancelled = s.cancelled
    BY <1>1, ZenonT(60) DEF Coordinator, sameCalls, sameQueue
  <1> HIDE DEF r
  <1>4. wellFormed(r) /\ owned(r) /\ heard(r) /\ hasFinalAudio(r) /\ inOrder(r)
    BY <1>2, <1>3 DEF good, wellFormed, owned, heard, hasFinalAudio, inOrder, sameCalls, sameQueue
  <1> QED BY <1>4 DEF good, r

\* The elements of a finite set of turns, each once, in increasing order
LEMMA AscendingIsSorted ==
    ASSUME NEW S \in SUBSET Nat, IsFiniteSet(S)
    PROVE  /\ ascending(S) \in Seq(Nat) /\ \A i \in DOMAIN ascending(S) : ascending(S)[i] \in S
           /\ \A i, j \in DOMAIN ascending(S) : i < j => ascending(S)[i] < ascending(S)[j]
  <1> DEFINE upTo(t) == {u \in S : u <= t}
             n == Cardinality(S)
             rank == [t \in S |-> Cardinality(upTo(t))]
  <1>1. n \in Nat
    BY FS_CardinalityType
  <1>2. ASSUME NEW t \in S
        PROVE  IsFiniteSet(upTo(t)) /\ rank[t] \in 1..n
    <2>1. upTo(t) \in SUBSET S /\ t \in upTo(t)
      OBVIOUS
    <2>2. IsFiniteSet(upTo(t)) /\ Cardinality(upTo(t)) <= n
      BY <2>1, FS_Subset
    <2>3. Cardinality(upTo(t)) \in Nat /\ Cardinality(upTo(t)) # 0
      BY <2>1, <2>2, FS_CardinalityType, FS_EmptySet
    <2> QED BY <2>2, <2>3, <1>1
  <1>3. ASSUME NEW t \in S, NEW u \in S, t < u
        PROVE  rank[t] < rank[u]
    <2>0. t \in Nat /\ u \in Nat
      OBVIOUS
    <2>1. upTo(t) \in SUBSET upTo(u) /\ u \in upTo(u) /\ u \notin upTo(t)
      <3>1. \A x \in S : x <= t => x <= u
        <4>1. \A x \in S : x \in Nat
          OBVIOUS
        <4> QED BY <4>1, <2>0, <1>3
      <3>2. ~(u <= t) /\ u <= u
        BY <2>0, <1>3
      <3> QED BY <3>1, <3>2
    <2>2. IsFiniteSet(upTo(u))
      BY <1>2
    <2>3. Cardinality(upTo(t)) <= Cardinality(upTo(u)) /\ Cardinality(upTo(t)) # Cardinality(upTo(u))
      BY <2>1, <2>2, FS_Subset
    <2> QED BY <2>3, <1>2
  <1>4. rank \in [S -> 1..n]
    BY <1>2
  <1> HIDE DEF n, rank
  <1>5. rank \in Injection(S, 1..n)
    <2>1. ASSUME NEW t \in S, NEW u \in S, rank[t] = rank[u]
          PROVE  t = u
      <3>1. t \in Nat /\ u \in Nat
        OBVIOUS
      <3>2. rank[t] \in Nat /\ rank[u] \in Nat
        <4>1. \A i \in 1..n : i \in Nat
          BY <1>1
        <4> QED BY <4>1, <1>4
      <3>3. ~(t < u)
        BY <2>1, <3>2, <1>3
      <3>4. ~(u < t)
        BY <2>1, <3>2, <1>3
      <3> QED BY <3>1, <3>3, <3>4
    <2> QED BY <2>1, <1>4 DEF Injection, IsInjective
  <1>6. IsFiniteSet(1..n) /\ Cardinality(1..n) = n
    BY <1>1, FS_Interval
  <1>7. rank \in Surjection(S, 1..n)
    BY <1>5, <1>6, FS_Injection DEF n
  <1>8. \A i \in 1..n : \E t \in S : rank[t] = i
    BY <1>7 DEF Surjection
  <1>9. \A t \in S : rank[t] = Cardinality({u \in S : u <= t})
    BY DEF rank
  <1>10. /\ DOMAIN ascending(S) = 1..n
         /\ \A i \in 1..n : ascending(S)[i] \in S /\ rank[ascending(S)[i]] = i
    <2>1. DOMAIN ascending(S) = 1..n
      BY DEF ascending, n
    <2>2. ASSUME NEW i \in 1..n
          PROVE  ascending(S)[i] \in S /\ rank[ascending(S)[i]] = i
      <3>1. ascending(S)[i] = CHOOSE t \in S : Cardinality({u \in S : u <= t}) = i
        BY DEF ascending, n
      <3>2. \E t \in S : Cardinality({u \in S : u <= t}) = i
        BY <1>8, <1>9
      <3>3. ascending(S)[i] \in S /\ Cardinality({u \in S : u <= ascending(S)[i]}) = i
        BY <3>1, <3>2, Zenon
      <3> QED BY <3>3, <1>9
    <2> QED BY <2>1, <2>2
  <1>11. ascending(S) \in Seq(Nat)
    <2>1. ascending(S) = [i \in 1..n |-> ascending(S)[i]]
      BY SMTT(30) DEF ascending, n
    <2>2. \A i \in 1..n : ascending(S)[i] \in Nat
      BY <1>10
    <2> QED BY <1>1, <2>1, <2>2
  <1>12. ASSUME NEW i \in 1..n, NEW j \in 1..n, i < j
         PROVE  ascending(S)[i] < ascending(S)[j]
    <2> DEFINE t == ascending(S)[i]
               u == ascending(S)[j]
    <2>1. t \in S /\ u \in S /\ rank[t] = i /\ rank[u] = j
      BY <1>10
    <2> HIDE DEF t, u
    <2>2. t \in Nat /\ u \in Nat /\ i \in Nat /\ j \in Nat
      BY <2>1, <1>1
    <2>3. ~(u < t)
      BY <2>1, <2>2, <1>3, <1>12
    <2>4. t # u
      BY <2>1, <2>2, <1>12
    <2>5. t < u
      BY <2>2, <2>3, <2>4
    <2> QED BY <2>5 DEF t, u
  <1> QED BY <1>10, <1>11, <1>12

\* What the session just persisted is appended in its order.
LEMMA ObservedGood ==
    ASSUME NEW s, good(s), Ready,
           NEW q \in Seq(Nat), \A i \in DOMAIN q : q[i] \in (s.known + 1)..Len(utterances),
           \A i, j \in DOMAIN q : i < j => q[i] < q[j]
    PROVE  LET seen == [s EXCEPT !.known = Len(utterances)]
           IN  /\ good(seen) /\ good([seen EXCEPT !.queue = @ \o q])
               /\ seen.resumed = s.resumed /\ seen.operation = s.operation
               /\ [seen EXCEPT !.queue = @ \o q].resumed = s.resumed
               /\ [seen EXCEPT !.queue = @ \o q].operation = s.operation
  <1> DEFINE n == Len(utterances)
             seen == [s EXCEPT !.known = n]
             longer == s.queue \o q
             r == [seen EXCEPT !.queue = longer]
  <1>1. /\ s \in Coordinator /\ n \in Nat /\ s.known \in Nat /\ s.attachedTo \in Nat
        /\ s.queue \in Seq(Nat) /\ s.attachedTo <= s.known /\ s.known <= n
    BY SMTT(30) DEF good, wellFormed, inOrder, Coordinator, Ready
  <1> HIDE DEF n
  <1>2. /\ seen \in Coordinator /\ seen.attachedTo = s.attachedTo /\ seen.known = n
        /\ seen.resumed = s.resumed /\ seen.control = s.control /\ sameQueue(seen, s)
        /\ sameOperation(seen, s) /\ seen.stage = s.stage /\ seen.player = s.player
    BY <1>1, ZenonT(60) DEF Coordinator, sameQueue, sameOperation
  <1>3. longer \in Seq(Nat)
    BY <1>1
  <1> HIDE DEF seen
  <1>4. [seen EXCEPT !.queue = @ \o q] = r
    BY <1>2 DEF sameQueue
  <1>5. /\ r \in Coordinator /\ sameCalls(r, seen) /\ r.queue = longer /\ r.drain = seen.drain
        /\ sameOperation(r, seen) /\ r.stage = seen.stage /\ r.player = seen.player
    <2> HIDE DEF longer
    <2> QED BY <1>2, <1>3, ZenonT(60) DEF Coordinator, sameCalls, sameOperation
  <1> HIDE DEF r
  <1>6. good(seen)
    <2>1. wellFormed(seen) /\ owned(seen) /\ heard(seen) /\ hasFinalAudio(seen)
      BY <1>2 DEF good, wellFormed, owned, heard, hasFinalAudio, sameOperation, sameQueue
    <2>2. inOrder(seen)
      <3>1. \A t \in (s.attachedTo + 1)..s.known : t \in (s.attachedTo + 1)..n
        BY <1>1
      <3> QED BY <1>1, <1>2, <3>1 DEF good, inOrder, sameQueue, n
    <2> QED BY <2>1, <2>2 DEF good
  <1>7. good(r)
    <2>1. wellFormed(r) /\ owned(r) /\ heard(r) /\ hasFinalAudio(r)
      BY <1>5, <1>6 DEF good, wellFormed, owned, heard, hasFinalAudio, sameOperation, sameCalls
    <2>2. /\ r.attachedTo = s.attachedTo /\ r.known = n /\ r.drain = s.drain /\ inOrder(s)
      BY <1>2, <1>5 DEF sameCalls, sameQueue, good
    <2> DEFINE m == Len(s.queue)
    <2>3. /\ m \in Nat /\ DOMAIN s.queue = 1..m
          /\ \A i \in DOMAIN longer :
                /\ i \in Nat
                /\ \/ i \in DOMAIN s.queue /\ longer[i] = s.queue[i]
                   \/ i > m /\ i - m \in DOMAIN q /\ longer[i] = q[i - m]
      BY <1>1, <1>3, SMTT(30)
    <2>4. \A i \in DOMAIN s.queue : s.queue[i] \in (s.attachedTo + 1)..s.known
      BY <2>2 DEF inOrder
    <2>5. \A i \in DOMAIN q : q[i] \in (s.known + 1)..n
      BY DEF n
    <2> HIDE DEF longer, m
    <2>6. \A i \in DOMAIN longer : longer[i] \in (s.attachedTo + 1)..n
      <3>1. \A t \in (s.attachedTo + 1)..s.known : t \in (s.attachedTo + 1)..n
        BY <1>1
      <3>2. \A t \in (s.known + 1)..n : t \in (s.attachedTo + 1)..n
        BY <1>1
      <3> QED BY <3>1, <3>2, <2>3, <2>4, <2>5
    <2>7. ASSUME NEW i \in DOMAIN longer, NEW j \in DOMAIN longer, i < j
          PROVE  longer[i] < longer[j]
      <3>1. CASE i \in DOMAIN s.queue /\ j \in DOMAIN s.queue
        <4>1. longer[i] = s.queue[i] /\ longer[j] = s.queue[j]
          BY <2>3, <3>1
        <4> QED BY <4>1, <3>1, <2>7, <2>2 DEF inOrder
      <3>2. CASE i \in DOMAIN s.queue /\ j \notin DOMAIN s.queue
        <4>1. longer[i] \in (s.attachedTo + 1)..s.known /\ longer[j] \in (s.known + 1)..n
          <5>1. longer[i] = s.queue[i] /\ longer[j] = q[j - m] /\ j - m \in DOMAIN q
            BY <2>3, <3>2
          <5>2. longer[j] \in (s.known + 1)..n
            BY <5>1, <2>5
          <5>3. longer[i] \in (s.attachedTo + 1)..s.known
            BY <5>1, <2>4, <3>2
          <5> QED BY <5>2, <5>3
        <4> QED BY <4>1, <1>1
      <3>3. CASE i \notin DOMAIN s.queue /\ j \notin DOMAIN s.queue
        <4>1. /\ longer[i] = q[i - m] /\ longer[j] = q[j - m]
              /\ i - m \in DOMAIN q /\ j - m \in DOMAIN q /\ i \in Nat /\ j \in Nat
          BY <2>3, <3>3
        <4>2. i - m < j - m
          BY <4>1, <2>7, <2>3
        <4> QED BY <4>1, <4>2
      <3>4. CASE i \notin DOMAIN s.queue /\ j \in DOMAIN s.queue
        BY <3>4, <2>3, <2>7
      <3> QED BY <3>1, <3>2, <3>3, <3>4
    <2>8. ASSUME s.drain # 0
          PROVE  /\ s.drain \in (s.attachedTo + 1)..n
                 /\ \A i \in DOMAIN longer : s.drain <= longer[i]
      <3>1. s.drain \in (s.attachedTo + 1)..s.known /\ \A i \in DOMAIN s.queue : s.drain <= s.queue[i]
        BY <2>8, <2>2 DEF inOrder
      <3>2. \A t \in (s.known + 1)..n : s.drain <= t
        BY <3>1, <1>1
      <3>3. s.drain \in (s.attachedTo + 1)..n
        BY <3>1, <1>1
      <3> QED BY <3>1, <3>2, <3>3, <2>3, <2>5
    <2>9. inOrder(r)
      <3>1. r.queue = longer
        BY <1>5
      <3> QED BY <1>1, <2>2, <3>1, <2>6, <2>7, <2>8 DEF inOrder, n
    <2> QED BY <2>1, <2>9 DEF good
  <1> QED BY <1>2, <1>4, <1>5, <1>6, <1>7 DEF seen, n, sameCalls, sameOperation

-----------------------------------------------------------------------------
(* The manifest *)

\* Replacing one element of a sequence
LEMMA ReplacingTyped ==
    ASSUME NEW S, NEW q \in Seq(S), NEW i \in DOMAIN q, NEW x \in S
    PROVE  LET r == [q EXCEPT ![i] = x]
           IN  /\ r \in Seq(S) /\ DOMAIN r = DOMAIN q /\ Len(r) = Len(q) /\ r[i] = x
               /\ \A j \in DOMAIN q : j # i => r[j] = q[j]
  OBVIOUS

\* Recording an outcome changes one attempt's state and no turn's emptiness.
LEMMA RecordingStep ==
    ASSUME Ready, NEW o \in Operations,
           NEW state \in {"authorized", "speaking", "ready", "stopped", "failed"},
           utterances' = recording(o, state)
    PROVE  /\ Ready' /\ DOMAIN utterances' = DOMAIN utterances /\ Len(utterances') = Len(utterances)
           /\ Operations' = Operations
           /\ attemptOf(o)'.state = state
           /\ \A p \in Operations : p # o => attemptOf(p)' = attemptOf(p)
           /\ ActiveAttempts' = (ActiveAttempts \ {o})
                                \cup (IF state \in {"authorized", "speaking"} THEN {o} ELSE {})
           /\ \A t \in DOMAIN utterances :
                 /\ utterances'[t].attempts = <<>> <=> utterances[t].attempts = <<>>
                 /\ utterances[t].attempts # <<>> =>
                        utterances'[t].attempts[1].by = utterances[t].attempts[1].by
  <1> DEFINE t == o[1]
             i == o[2]
             a == [utterances[t].attempts EXCEPT ![i].state = state]
             u == [attempts |-> a, selected |-> utterances[t].selected \/ state = "ready"]
  <1>1. /\ t \in DOMAIN utterances /\ i \in DOMAIN utterances[t].attempts /\ i \in 1..MaxAttempts
        /\ o = <<t, i>>
    BY DEF Operations
  <1>2. /\ utterances \in Seq(InterviewerUtterance) /\ utterances[t] \in InterviewerUtterance
        /\ utterances[t].attempts \in Seq(SynthesisAttempt)
    <2>1. utterances[t] \in InterviewerUtterance
      BY <1>1 DEF Ready
    <2> QED BY <2>1 DEF Ready, InterviewerUtterance
  <1>3. utterances' = [utterances EXCEPT ![t] = u]
    BY DEF recording
  <1> HIDE DEF t, i
  <1>4. utterances[t].attempts[i] \in SynthesisAttempt
    BY <1>1, <1>2
  <1>5. /\ a \in Seq(SynthesisAttempt) /\ DOMAIN a = DOMAIN utterances[t].attempts
        /\ a[i] = [utterances[t].attempts[i] EXCEPT !.state = state]
        /\ \A j \in DOMAIN a : j # i => a[j] = utterances[t].attempts[j]
    <2> DEFINE b == [utterances[t].attempts[i] EXCEPT !.state = state]
    <2>1. b \in SynthesisAttempt
      BY <1>4 DEF SynthesisAttempt
    <2>2. a = [utterances[t].attempts EXCEPT ![i] = b]
      OBVIOUS
    <2> HIDE DEF a, b
    <2>3. a \in Seq(SynthesisAttempt) /\ DOMAIN a = DOMAIN utterances[t].attempts
          /\ a[i] = b /\ \A j \in DOMAIN a : j # i => a[j] = utterances[t].attempts[j]
      BY <1>1, <1>2, <2>1, <2>2
    <2> QED BY <2>3 DEF b
  <1>6. a[i].state = state /\ \A j \in DOMAIN a : a[j].by = utterances[t].attempts[j].by
    BY <1>1, <1>4, <1>5 DEF SynthesisAttempt
  <1> HIDE DEF a
  <1>7. u \in InterviewerUtterance /\ u.attempts = a
    BY <1>2, <1>5 DEF InterviewerUtterance
  <1> HIDE DEF u
  <1>8. /\ Ready' /\ DOMAIN utterances' = DOMAIN utterances /\ Len(utterances') = Len(utterances)
        /\ utterances'[t] = u /\ \A x \in DOMAIN utterances : x # t => utterances'[x] = utterances[x]
    <2> DEFINE v == [utterances EXCEPT ![t] = u]
    <2>1. /\ v \in Seq(InterviewerUtterance) /\ DOMAIN v = DOMAIN utterances /\ Len(v) = Len(utterances)
          /\ v[t] = u /\ \A x \in DOMAIN utterances : x # t => v[x] = utterances[x]
      BY <1>1, <1>2, <1>7, ReplacingTyped
    <2> HIDE DEF v
    <2>2. utterances' = v
      BY <1>3 DEF v
    <2> QED BY <2>1, <2>2 DEF Ready
  <1>9. Operations' = Operations
    <2>1. \A x \in DOMAIN utterances : DOMAIN utterances'[x].attempts = DOMAIN utterances[x].attempts
      BY <1>5, <1>7, <1>8
    <2> QED BY <2>1, <1>8 DEF Operations
  <1>10. attemptOf(o)' = a[i]
    BY <1>1, <1>7, <1>8 DEF attemptOf
  <1>11. ASSUME NEW p \in Operations, p # o PROVE attemptOf(p)' = attemptOf(p)
    <2>1. /\ p[1] \in DOMAIN utterances /\ p[2] \in DOMAIN utterances[p[1]].attempts
          /\ p = <<p[1], p[2]>>
      BY DEF Operations
    <2>2. CASE p[1] # t
      BY <2>1, <2>2, <1>8 DEF attemptOf
    <2>3. CASE p[1] = t
      <3>1. p[2] # i
        BY <2>1, <2>3, <1>1, <1>11
      <3> QED BY <2>1, <2>3, <3>1, <1>5, <1>7, <1>8 DEF attemptOf
    <2> QED BY <2>2, <2>3
  <1>12. ActiveAttempts' = (ActiveAttempts \ {o})
                                \cup (IF state \in {"authorized", "speaking"} THEN {o} ELSE {})
    <2>1. \A p \in Operations : isActive(attemptOf(p))' <=>
              IF p = o THEN state \in {"authorized", "speaking"} ELSE isActive(attemptOf(p))
      BY <1>6, <1>10, <1>11 DEF isActive
    <2>2. ActiveAttempts' = {p \in Operations : isActive(attemptOf(p))'}
      BY <1>9 DEF ActiveAttempts
    <2> QED BY <2>1, <2>2 DEF ActiveAttempts
  <1>13. ASSUME NEW x \in DOMAIN utterances
         PROVE  /\ utterances'[x].attempts = <<>> <=> utterances[x].attempts = <<>>
                /\ utterances[x].attempts # <<>> =>
                        utterances'[x].attempts[1].by = utterances[x].attempts[1].by
    <2>1. CASE x # t
      BY <2>1, <1>8
    <2>2. CASE x = t
      <3>1. a # <<>> /\ utterances[t].attempts # <<>>
        BY <1>1, <1>5
      <3>2. 1 \in DOMAIN a
        BY <1>5, <3>1
      <3> QED BY <2>2, <3>1, <3>2, <1>6, <1>7, <1>8
    <2> QED BY <2>1, <2>2
  <1> QED BY <1>6, <1>8, <1>9, <1>10, <1>11, <1>12, <1>13

\* Authorizing appends one active attempt to one turn.
LEMMA AuthorizingStep ==
    ASSUME Ready, NEW t \in DOMAIN utterances, NEW by \in {"automatic", "user"},
           NEW n, n = Len(utterances[t].attempts), n < MaxAttempts,
           NEW o, o = <<t, n + 1>>,
           utterances' = authorizing(t, by)
    PROVE      /\ Ready' /\ DOMAIN utterances' = DOMAIN utterances /\ Len(utterances') = Len(utterances)
               /\ o \notin Operations /\ Operations' = Operations \cup {o}
               /\ attemptOf(o)' = [by |-> by, state |-> "authorized"]
               /\ \A p \in Operations : attemptOf(p)' = attemptOf(p)
               /\ ActiveAttempts' = ActiveAttempts \cup {o}
               /\ \A x \in DOMAIN utterances : x # t => utterances'[x] = utterances[x]
               /\ utterances[t].attempts # <<>> =>
                      utterances'[t].attempts[1].by = utterances[t].attempts[1].by
               /\ utterances[t].attempts = <<>> => utterances'[t].attempts[1].by = by
  <1> DEFINE new == [by |-> by, state |-> "authorized"]
             a == Append(utterances[t].attempts, new)
             u == [utterances[t] EXCEPT !.attempts = a]
  <1>1. /\ utterances \in Seq(InterviewerUtterance) /\ utterances[t] \in InterviewerUtterance
        /\ utterances[t].attempts \in Seq(SynthesisAttempt) /\ n \in Nat
        /\ DOMAIN utterances[t].attempts = 1..n
    <2>1. utterances[t] \in InterviewerUtterance
      BY DEF Ready
    <2> QED BY <2>1 DEF Ready, InterviewerUtterance
  <1>2. utterances' = [utterances EXCEPT ![t] = u]
    BY DEF authorizing
  <1>3. new \in SynthesisAttempt /\ new.state = "authorized" /\ new.by = by
    BY DEF SynthesisAttempt
  <1> HIDE DEF new
  <1>4. /\ a \in Seq(SynthesisAttempt) /\ DOMAIN a = 1..(n + 1) /\ a[n + 1] = new
        /\ \A i \in 1..n : a[i] = utterances[t].attempts[i]
    <2>1. Len(a) = n + 1
      BY <1>1, <1>3
    <2> QED BY <1>1, <1>3, <2>1
  <1> HIDE DEF a
  <1>5. u \in InterviewerUtterance /\ u.attempts = a
    BY <1>1, <1>4 DEF InterviewerUtterance
  <1> HIDE DEF u
  <1>6. /\ Ready' /\ DOMAIN utterances' = DOMAIN utterances /\ Len(utterances') = Len(utterances)
        /\ utterances'[t] = u /\ \A x \in DOMAIN utterances : x # t => utterances'[x] = utterances[x]
    BY <1>1, <1>2, <1>5, ReplacingTyped DEF Ready
  <1>7. MaxAttempts \in Nat /\ n < MaxAttempts
    BY CountsAssumption
  <1>8. Operations' = Operations \cup {o} /\ o \notin Operations
    <2>1. ASSUME NEW p \in Operations' PROVE p \in Operations \cup {o}
      <3>1. /\ p[1] \in DOMAIN utterances /\ p[2] \in 1..MaxAttempts /\ p = <<p[1], p[2]>>
            /\ p[2] \in DOMAIN utterances'[p[1]].attempts
        BY <1>6 DEF Operations
      <3>2. CASE p[1] # t
        BY <3>1, <3>2, <1>6 DEF Operations
      <3>3. CASE p[1] = t
        <4>1. p[2] \in 1..(n + 1)
          BY <3>1, <3>3, <1>4, <1>5, <1>6
        <4>2. CASE p[2] = n + 1
          BY <3>1, <3>3, <4>2
        <4>3. CASE p[2] # n + 1
          <5>1. p[2] \in DOMAIN utterances[p[1]].attempts
            <6>1. p[2] \in 1..n
              <7>1. \A i \in 1..(n + 1) : i # n + 1 => i \in 1..n
                BY <1>1
              <7> QED BY <7>1, <4>1, <4>3
            <6> QED BY <6>1, <3>3, <1>1
          <5> QED BY <5>1, <3>1 DEF Operations
        <4> QED BY <4>2, <4>3
      <3> QED BY <3>2, <3>3
    <2>2. ASSUME NEW p \in Operations PROVE p \in Operations'
      <3>1. /\ p[1] \in DOMAIN utterances /\ p[2] \in 1..MaxAttempts /\ p = <<p[1], p[2]>>
            /\ p[2] \in DOMAIN utterances[p[1]].attempts
        BY DEF Operations
      <3>2. p[2] \in DOMAIN utterances'[p[1]].attempts
        BY <3>1, <1>1, <1>4, <1>5, <1>6, SMTT(30)
      <3> QED BY <3>1, <3>2, <1>6 DEF Operations
    <2>3. o \in Operations'
      <3>1. n + 1 \in 1..MaxAttempts /\ n + 1 \in 1..(n + 1)
        BY <1>1, <1>7
      <3>2. n + 1 \in DOMAIN utterances'[t].attempts
        BY <3>1, <1>4, <1>5, <1>6
      <3> QED BY <3>1, <3>2, <1>6 DEF Operations
    <2>4. o \notin Operations
      <3>1. n + 1 \notin DOMAIN utterances[t].attempts
        BY <1>1
      <3> QED BY <3>1 DEF Operations
    <2> QED BY <2>1, <2>2, <2>3, <2>4
  <1>9. attemptOf(o)' = new
    BY <1>4, <1>5, <1>6 DEF attemptOf
  <1>10. ASSUME NEW p \in Operations PROVE attemptOf(p)' = attemptOf(p)
    <2>1. p[1] \in DOMAIN utterances /\ p[2] \in DOMAIN utterances[p[1]].attempts
      BY DEF Operations
    <2>2. CASE p[1] # t
      BY <2>1, <2>2, <1>6 DEF attemptOf
    <2>3. CASE p[1] = t
      BY <2>1, <2>3, <1>1, <1>4, <1>5, <1>6 DEF attemptOf
    <2> QED BY <2>2, <2>3
  <1>11. ActiveAttempts' = ActiveAttempts \cup {o}
    <2>1. isActive(attemptOf(o))' /\ \A p \in Operations : isActive(attemptOf(p))' <=> isActive(attemptOf(p))
      BY <1>3, <1>9, <1>10 DEF isActive
    <2> QED BY <2>1, <1>8 DEF ActiveAttempts
  <1>12. /\ utterances[t].attempts # <<>> =>
                utterances'[t].attempts[1].by = utterances[t].attempts[1].by
         /\ utterances[t].attempts = <<>> => utterances'[t].attempts[1].by = by
    <2>1. CASE utterances[t].attempts = <<>>
      <3>1. n = 0
        BY <2>1, <1>1
      <3> QED BY <2>1, <3>1, <1>3, <1>4, <1>5, <1>6
    <2>2. CASE utterances[t].attempts # <<>>
      <3>1. 1 \in 1..n
        BY <2>2, <1>1
      <3> QED BY <2>2, <3>1, <1>4, <1>5, <1>6
    <2> QED BY <2>1, <2>2
  <1> QED BY <1>6, <1>8, <1>9, <1>10, <1>11, <1>12 DEF new

\* A new turn has no attempt yet.
LEMMA TurnPersistedStep ==
    ASSUME Ready, utterances' = Append(utterances, [attempts |-> <<>>, selected |-> FALSE])
    PROVE  /\ Ready' /\ Len(utterances') = Len(utterances) + 1
           /\ DOMAIN utterances \subseteq DOMAIN utterances'
           /\ Operations' = Operations /\ ActiveAttempts' = ActiveAttempts
           /\ \A p \in Operations : attemptOf(p)' = attemptOf(p)
           /\ \A t \in DOMAIN utterances : utterances'[t] = utterances[t]
  <1> DEFINE n == Len(utterances)
             new == [attempts |-> <<>>, selected |-> FALSE]
  <1>1. utterances \in Seq(InterviewerUtterance) /\ n \in Nat /\ DOMAIN utterances = 1..n
    BY DEF Ready
  <1>2. new \in InterviewerUtterance /\ new.attempts = <<>> /\ DOMAIN new.attempts = {}
    <2>1. <<>> \in Seq(SynthesisAttempt) /\ DOMAIN <<>> = {}
      OBVIOUS
    <2> QED BY <2>1 DEF InterviewerUtterance
  <1> HIDE DEF new
  <1>3. /\ Ready' /\ Len(utterances') = n + 1 /\ DOMAIN utterances' = 1..(n + 1)
        /\ utterances'[n + 1] = new /\ \A t \in 1..n : utterances'[t] = utterances[t]
    BY <1>1, <1>2 DEF Ready, new
  <1>4. Operations' = Operations
    <2>1. ASSUME NEW p \in Operations' PROVE p \in Operations
      <3>1. p[1] \in 1..(n + 1) /\ p[2] \in DOMAIN utterances'[p[1]].attempts /\ p[2] \in 1..MaxAttempts
            /\ p = <<p[1], p[2]>>
        BY <1>3 DEF Operations
      <3>2. p[1] # n + 1
        BY <3>1, <1>2, <1>3
      <3>3. p[1] \in 1..n
        BY <3>1, <3>2, <1>1
      <3> QED BY <3>1, <3>3, <1>1, <1>3 DEF Operations
    <2>2. ASSUME NEW p \in Operations PROVE p \in Operations'
      <3>1. p[1] \in 1..n /\ p[1] \in 1..(n + 1)
        BY <1>1 DEF Operations
      <3> QED BY <3>1, <1>1, <1>3 DEF Operations
    <2> QED BY <2>1, <2>2
  <1>5. \A p \in Operations : attemptOf(p)' = attemptOf(p)
    BY <1>1, <1>3 DEF Operations, attemptOf
  <1>6. ActiveAttempts' = ActiveAttempts
    BY <1>4, <1>5 DEF ActiveAttempts
  <1> QED BY <1>1, <1>3, <1>4, <1>5, <1>6

-----------------------------------------------------------------------------
(* Steps that leave the manifest alone *)

\* a good record that carries on the operation of another
keeps(r, s) == good(r) /\ r.operation = s.operation /\ r.resumed = s.resumed

\* A step that saves nothing keeps the invariant when its record is good.
LEMMA VolatileKeeps == ASSUME SpeechInv, Volatile, good(speech') PROVE SpeechInv'
  <1>1. /\ utterances' = utterances /\ finalAudio' = finalAudio
        /\ process' = process /\ lostSave' = lostSave
    BY DEF Volatile
  <1>2. /\ Operations' = Operations /\ ActiveAttempts' = ActiveAttempts
        /\ \A o : attemptOf(o)' = attemptOf(o)
    BY <1>1 DEF Operations, ActiveAttempts, attemptOf
  <1>3. good(speech)'
    <2>1. wellFormed(speech)'
      BY <1>1, <1>2 DEF good, wellFormed
    <2>2. owned(speech)'
      BY <1>1, <1>2 DEF good, owned
    <2>3. heard(speech)'
      BY <1>1, <1>2 DEF good, heard, attemptOf
    <2>4. hasFinalAudio(speech)'
      BY <1>1 DEF good, hasFinalAudio
    <2>5. inOrder(speech)'
      BY <1>1 DEF good, inOrder
    <2> QED BY <2>1, <2>2, <2>3, <2>4, <2>5 DEF good
  <1>4. ReadyHasAudio'
    BY <1>1, <1>2 DEF SpeechInv, ReadyHasAudio
  <1> QED
    BY <1>1, <1>2, <1>3, <1>4 DEF SpeechInv, Ready

\* The stages of a generation between its saves
LEMMA GenerationMoves ==
    ASSUME good(speech), Running,
           \/ GenerationPrepared \/ GenerationOpens \/ FirstChunkArrives \/ ChunkEnqueued
           \/ AudioDrained \/ GenerationFails \/ PartialDiscarded \/ GenerationCancelled
    PROVE  keeps(speech', speech)
  <1>1. speech \in Coordinator /\ speech.resumed /\ (speech.cancelled => speech.player # "audible")
    BY DEF good, wellFormed, heard, Running
  <1>2. SUFFICES good(speech') /\ same(speech', speech)
    BY DEF keeps, same, sameCalls, sameOperation
  <1> DEFINE moves(stage, player) ==
                 /\ speech' \in Coordinator /\ same(speech', speech)
                 /\ speech'.stage = stage /\ speech'.player = player
  <1>3. CASE GenerationPrepared
    <2>1. moves("opening", speech.player) /\ speech.stage = "preparing"
      BY <1>1, <1>3, ZenonT(60) DEF GenerationPrepared, Coordinator, GenerationStage, same, sameCalls,
          sameQueue, sameOperation
    <2>2. speech.player # "audible"
      BY <2>1 DEF good, heard
    <2> QED BY <1>1, <2>1, <2>2, StageMoves
  <1>4. CASE GenerationOpens
    <2>1. moves("synthesizing", "open") /\ speech.stage = "opening"
      BY <1>1, <1>4, ZenonT(60) DEF GenerationOpens, Coordinator, GenerationStage, same, sameCalls,
          sameQueue, sameOperation
    <2> QED BY <1>1, <2>1, StageMoves
  <1>5. CASE FirstChunkArrives
    <2>1. moves("savingSpeaking", speech.player) /\ speech.stage = "synthesizing"
      BY <1>1, <1>5, ZenonT(60) DEF FirstChunkArrives, Coordinator, GenerationStage, same, sameCalls,
          sameQueue, sameOperation
    <2>2. speech.player # "audible"
      BY <2>1 DEF good, heard
    <2> QED BY <1>1, <2>1, <2>2, StageMoves
  <1>6. CASE ChunkEnqueued
    <2>1. moves("sounding", "audible") /\ speech.stage \in {"streaming", "sounding"}
          /\ ~speech.cancelled /\ speech.player \in {"open", "audible"}
      BY <1>1, <1>6, ZenonT(60) DEF ChunkEnqueued, Coordinator, GenerationStage, same, sameCalls,
          sameQueue, sameOperation
    <2> QED BY <1>1, <2>1, StageMoves
  <1>7. CASE AudioDrained
    <2>1. moves("savingReady", "idle") /\ speech.stage = "finishing"
      BY <1>1, <1>7, ZenonT(60) DEF AudioDrained, Coordinator, GenerationStage, same, sameCalls,
          sameQueue, sameOperation
    <2> QED BY <1>1, <2>1, StageMoves
  <1>8. CASE GenerationFails
    <2>1. moves("discarding", "idle") /\ speech.stage # "none"
      <3>1. /\ speech' = [speech EXCEPT !.player = "idle", !.stage = "discarding"]
            /\ speech.stage # "none"
        BY <1>8 DEF GenerationFails
      <3>2. speech' \in Coordinator
        BY <1>1, <3>1, ZenonT(60) DEF Coordinator, GenerationStage
      <3>3. same(speech', speech)
        BY <1>1, <3>1, ZenonT(60) DEF Coordinator, same, sameCalls, sameQueue, sameOperation
      <3>4. speech'.stage = "discarding" /\ speech'.player = "idle"
        BY <1>1, <3>1, ZenonT(60) DEF Coordinator
      <3> QED BY <3>1, <3>2, <3>3, <3>4
    <2> QED BY <1>1, <2>1, StageMoves
  <1>9. CASE PartialDiscarded
    <2> DEFINE next == IF speech.cancelled THEN "ending" ELSE "savingFailed"
    <2>1. moves(next, speech.player) /\ speech.stage = "discarding"
      <3>1. speech' = [speech EXCEPT !.stage = next] /\ speech.stage = "discarding"
        BY <1>9 DEF PartialDiscarded
      <3>2. next \in GenerationStage
        BY DEF GenerationStage
      <3> HIDE DEF next
      <3> QED BY <1>1, <3>1, <3>2, ZenonT(60) DEF Coordinator, same, sameCalls, sameQueue,
              sameOperation
    <2>2. speech.player # "audible"
      BY <2>1 DEF good, heard
    <2> QED BY <1>1, <2>1, <2>2, StageMoves
  <1>10. CASE GenerationCancelled
    <2> DEFINE player == IF speech.stage = "finishing" THEN "idle" ELSE speech.player
    <2>1. moves("ending", player)
      <3>1. speech' = [speech EXCEPT !.stage = "ending", !.player = player]
        BY <1>10 DEF GenerationCancelled
      <3>2. player \in {"idle", "open", "audible", "file"} /\ "ending" \in GenerationStage
        BY <1>1 DEF Coordinator, GenerationStage
      <3> HIDE DEF player
      <3> QED BY <1>1, <3>1, <3>2, ZenonT(60) DEF Coordinator, same, sameCalls, sameQueue,
              sameOperation
    <2>2. speech.cancelled /\ speech.stage # "none" /\ speech.player # "audible"
      BY <1>1, <1>10 DEF GenerationCancelled
    <2> QED BY <1>1, <2>1, <2>2, StageMoves
  <1> QED BY <1>3, <1>4, <1>5, <1>6, <1>7, <1>8, <1>9, <1>10

\* the fields that no property depends on
LEMMA FieldsTyped ==
    /\ noBackoff \in [turn : Nat, count : Nat, scheduled : BOOLEAN]
    /\ "idle" \in {"idle", "preparing", "removing"} /\ TRUE \in BOOLEAN
    /\ {} \in SUBSET {"owner", "joined"}
  BY DEF noBackoff

\* Setting one of them keeps a good record good.
LEMMA FieldsKeep ==
    ASSUME NEW s, good(s), NEW ready \in BOOLEAN, NEW model \in {"idle", "preparing", "removing"},
           NEW callers \in SUBSET {"owner", "joined"}
    PROVE  /\ keeps([s EXCEPT !.isReady = ready], s)
           /\ keeps([s EXCEPT !.isMuted = ready], s)
           /\ keeps([s EXCEPT !.isPlayingSavedAudio = ready], s)
           /\ keeps([s EXCEPT !.model = model], s)
           /\ keeps([s EXCEPT !.stoppers = callers], s)
           /\ keeps([s EXCEPT !.playbackCycleActive = ready], s)
  <1>1. s \in Coordinator
    BY DEF good, wellFormed
  <1>2. ASSUME NEW r \in Coordinator, same(r, s), r.stage = s.stage, r.player = s.player
        PROVE  keeps(r, s)
    BY <1>2, Flags DEF keeps, same, sameCalls, sameOperation
  <1>3. keeps([s EXCEPT !.isReady = ready], s)
    <2> DEFINE r == [s EXCEPT !.isReady = ready]
    <2>1. r \in Coordinator /\ same(r, s) /\ r.stage = s.stage /\ r.player = s.player
      BY <1>1, ZenonT(60) DEF Coordinator, same, sameCalls, sameQueue, sameOperation
    <2> QED BY <1>2, <2>1
  <1>4. keeps([s EXCEPT !.isMuted = ready], s)
    <2> DEFINE r == [s EXCEPT !.isMuted = ready]
    <2>1. r \in Coordinator /\ same(r, s) /\ r.stage = s.stage /\ r.player = s.player
      BY <1>1, ZenonT(60) DEF Coordinator, same, sameCalls, sameQueue, sameOperation
    <2> QED BY <1>2, <2>1
  <1>5. keeps([s EXCEPT !.isPlayingSavedAudio = ready], s)
    <2> DEFINE r == [s EXCEPT !.isPlayingSavedAudio = ready]
    <2>1. r \in Coordinator /\ same(r, s) /\ r.stage = s.stage /\ r.player = s.player
      BY <1>1, ZenonT(60) DEF Coordinator, same, sameCalls, sameQueue, sameOperation
    <2> QED BY <1>2, <2>1
  <1>6. keeps([s EXCEPT !.model = model], s)
    <2> DEFINE r == [s EXCEPT !.model = model]
    <2>1. r \in Coordinator /\ same(r, s) /\ r.stage = s.stage /\ r.player = s.player
      BY <1>1, ZenonT(60) DEF Coordinator, same, sameCalls, sameQueue, sameOperation
    <2> QED BY <1>2, <2>1
  <1>7. keeps([s EXCEPT !.stoppers = callers], s)
    <2> DEFINE r == [s EXCEPT !.stoppers = callers]
    <2>1. r \in Coordinator /\ same(r, s) /\ r.stage = s.stage /\ r.player = s.player
      BY <1>1, ZenonT(60) DEF Coordinator, same, sameCalls, sameQueue, sameOperation
    <2> QED BY <1>2, <2>1
  <1>8. keeps([s EXCEPT !.playbackCycleActive = ready], s)
    <2> DEFINE r == [s EXCEPT !.playbackCycleActive = ready]
    <2>1. r \in Coordinator /\ same(r, s) /\ r.stage = s.stage /\ r.player = s.player
      BY <1>1, ZenonT(60) DEF Coordinator, same, sameCalls, sameQueue, sameOperation
    <2> QED BY <1>2, <2>1
  <1> QED BY <1>3, <1>4, <1>5, <1>6, <1>7, <1>8

\* Scheduling the drain's retry moves only its bookkeeping.
LEMMA BackoffKeeps ==
    ASSUME NEW s, good(s), NEW backoff \in [turn : Nat, count : Nat, scheduled : BOOLEAN]
    PROVE  keeps([s EXCEPT !.backoff = backoff], s)
  <1> DEFINE r == [s EXCEPT !.backoff = backoff]
  <1>1. s \in Coordinator
    BY DEF good, wellFormed
  <1>2. r \in Coordinator /\ same(r, s) /\ r.stage = s.stage /\ r.player = s.player
    BY <1>1, ZenonT(60) DEF Coordinator, same, sameCalls, sameQueue, sameOperation
  <1> HIDE DEF r
  <1>3. keeps(r, s)
    BY <1>2, Flags DEF keeps, same, sameCalls, sameOperation
  <1> QED BY <1>3 DEF r

\* Composed operators keep what each of them keeps.
LEMMA KeepsTransitive ==
    ASSUME NEW r, NEW s, NEW t, keeps(r, s), keeps(s, t) PROVE keeps(r, t)
  BY DEF keeps

\* The pump, as a step of an action that composes it
LEMMA PumpKeeps ==
    ASSUME NEW s, good(s), s.resumed, Ready
    PROVE  keeps(startNextPendingAutomaticTurnIfEligible(s), s)
  <1>1. startNextPendingAutomaticTurnIfEligible(s).resumed = s.resumed
    BY StartNextMoves DEF good, wellFormed, sameCalls
  <1> QED BY <1>1, StartNextGood DEF keeps

\* The stop, as a step of an action that composes it
LEMMA StoppingKeeps ==
    ASSUME NEW s, good(s), s.resumed, Ready
    PROVE  keeps(stopping(s), s)
  <1>1. s \in Coordinator
    BY DEF good, wellFormed
  <1>2. stopping(s).resumed = s.resumed
    BY <1>1 DEF stopping, endPlaybackCycle, Coordinator
  <1> QED BY <1>2, StoppingGood DEF keeps

\* Stop, Mute and the removal of the voice model
LEMMA StopsKeep ==
    ASSUME good(speech), Ready, Running, Stop \/ SetMuted \/ RemoveModel
    PROVE  keeps(speech', speech)
  <1>1. speech.resumed
    BY DEF Running
  <1>2. CASE Stop
    <2>1. keeps(clearQueue(speech), speech)
      BY ClearQueueGood DEF keeps
    <2>2. keeps(stopping(speech), speech) /\ keeps(stopping(clearQueue(speech)), clearQueue(speech))
      BY <1>1, <2>1, StoppingKeeps DEF keeps
    <2>3. speech' = stopping(speech) \/ speech' = stopping(clearQueue(speech))
      BY <1>2 DEF Stop
    <2> QED BY <2>1, <2>2, <2>3, KeepsTransitive
  <1>3. CASE SetMuted
    <2> DEFINE muted == [speech EXCEPT !.isMuted = TRUE]
               unmuted == [speech EXCEPT !.isMuted = FALSE]
    <2>1. keeps(muted, speech) /\ keeps(unmuted, speech)
      BY FieldsKeep, FieldsTyped
    <2>2. speech' = stopping(clearQueue(muted)) \/ speech' = unmuted
      BY <1>3 DEF SetMuted
    <2> HIDE DEF muted, unmuted
    <2>3. keeps(clearQueue(muted), muted)
      BY <2>1, ClearQueueGood DEF keeps
    <2>4. keeps(stopping(clearQueue(muted)), clearQueue(muted))
      BY <1>1, <2>1, <2>3, StoppingKeeps DEF keeps
    <2> QED BY <2>1, <2>2, <2>3, <2>4, KeepsTransitive
  <1>4. CASE RemoveModel
    <2> DEFINE model == [speech EXCEPT !.model = "removing"]
    <2>1. keeps(model, speech)
      BY FieldsKeep, FieldsTyped
    <2>2. speech' = clearQueue(model) \/ speech' = stopping(clearQueue(model))
      BY <1>4 DEF RemoveModel
    <2> HIDE DEF model
    <2>3. keeps(clearQueue(model), model)
      BY <2>1, ClearQueueGood DEF keeps
    <2>4. keeps(stopping(clearQueue(model)), clearQueue(model))
      BY <1>1, <2>1, <2>3, StoppingKeeps DEF keeps
    <2> QED BY <2>1, <2>2, <2>3, <2>4, KeepsTransitive
  <1> QED BY <1>2, <1>3, <1>4

\* The finalizer cancels, then joins the generation it cancelled; its callers
\* end the playback cycle once it is gone.
LEMMA FinalizerMoves ==
    ASSUME good(speech), Ready, Running,
           FinalizerCancels \/ FinalizerJoins \/ StopperEndsCycle
    PROVE  keeps(speech', speech)
  <1>1. speech \in Coordinator /\ speech.resumed
    BY DEF good, wellFormed, Running
  <1>2. CASE FinalizerCancels
    <2> DEFINE cancelled == speech.cancelled \/ speech.operation = speech.finalizer.operation
               f == [speech.finalizer EXCEPT !.stage = "cancelling"]
               u == [speech EXCEPT !.finalizer = f]
               r == [u EXCEPT !.cancelled = cancelled]
    <2>1. speech' = r /\ speech.finalizer.stage = "spawned"
      BY <1>1, <1>2 DEF FinalizerCancels, Coordinator
    <2>2. /\ cancelled \in BOOLEAN /\ f.stage = "cancelling"
          /\ f.operation = speech.finalizer.operation
          /\ f \in [stage : {"none", "spawned", "cancelling", "saving"}, operation : Nat \X Nat]
      BY <1>1 DEF Coordinator
    <2> HIDE DEF f
    <2>3. /\ u \in Coordinator /\ sameCalls(u, speech) /\ sameQueue(u, speech) /\ u.finalizer = f
          /\ u.stage = speech.stage /\ u.player = speech.player /\ u.operation = speech.operation
      BY <1>1, <2>2, ZenonT(60) DEF Coordinator, sameCalls, sameQueue
    <2> HIDE DEF u, cancelled
    <2>4. /\ r \in Coordinator /\ sameCalls(r, speech) /\ sameQueue(r, speech) /\ r.finalizer = f
          /\ r.stage = speech.stage /\ r.player = speech.player /\ r.operation = speech.operation
          /\ r.cancelled = cancelled
      BY <2>2, <2>3, ZenonT(60) DEF Coordinator, sameCalls, sameQueue
    <2> HIDE DEF r
    <2>5. speech.finalizer # noFinalizer /\ f # noFinalizer /\ ~speech.cancelled
      BY <2>1, <2>2 DEF good, owned, noFinalizer
    <2>6. cancelled <=> speech.operation = speech.finalizer.operation
      BY <2>5 DEF cancelled
    <2>7. wellFormed(r)
      BY <2>2, <2>4, <2>5 DEF good, wellFormed, sameCalls, sameQueue
    <2>8. owned(r)
      BY <2>1, <2>2, <2>4, <2>5, <2>6 DEF good, owned, sameCalls, sameQueue
    <2>9. heard(r)
      BY <2>1, <2>2, <2>4, <2>6 DEF good, heard, sameCalls
    <2>10. hasFinalAudio(r) /\ inOrder(r)
      BY <2>4 DEF good, hasFinalAudio, inOrder, sameCalls, sameQueue
    <2> QED BY <2>1, <2>4, <2>7, <2>8, <2>9, <2>10 DEF good, keeps, sameCalls
  <1>3. CASE FinalizerJoins
    <2>1. /\ speech.finalizer.stage = "cancelling" /\ ~speech.cancelled
          /\ speech.operation # speech.finalizer.operation
      BY <1>3 DEF FinalizerJoins, good, owned
    <2>2. CASE speech.finalizer.operation \in ActiveAttempts
      <3> DEFINE f == [speech.finalizer EXCEPT !.stage = "saving"]
                 r == [speech EXCEPT !.finalizer = f]
      <3>1. speech' = r
        BY <1>1, <1>3, <2>2 DEF FinalizerJoins, Coordinator
      <3>2. /\ f.stage = "saving" /\ f.operation = speech.finalizer.operation
            /\ f \in [stage : {"none", "spawned", "cancelling", "saving"}, operation : Nat \X Nat]
        BY <1>1 DEF Coordinator
      <3> HIDE DEF f
      <3>3. /\ r \in Coordinator /\ sameCalls(r, speech) /\ sameQueue(r, speech) /\ r.finalizer = f
            /\ r.stage = speech.stage /\ r.player = speech.player /\ r.operation = speech.operation
            /\ r.cancelled = speech.cancelled
        BY <1>1, <3>2, ZenonT(60) DEF Coordinator, sameCalls, sameQueue
      <3> HIDE DEF r
      <3>4. speech.finalizer # noFinalizer /\ f # noFinalizer
        BY <2>1, <3>2 DEF noFinalizer
      <3>5. wellFormed(r)
        BY <3>2, <3>3, <3>4 DEF good, wellFormed, sameCalls, sameQueue
      <3>6. owned(r)
        BY <1>1, <2>1, <3>2, <3>3, <3>4 DEF good, owned, sameCalls, sameQueue
      <3>7. heard(r)
        BY <2>1, <3>2, <3>3 DEF good, heard, sameCalls
      <3>8. hasFinalAudio(r) /\ inOrder(r)
        BY <3>3 DEF good, hasFinalAudio, inOrder, sameCalls, sameQueue
      <3> QED BY <3>1, <3>3, <3>5, <3>6, <3>7, <3>8 DEF good, keeps, sameCalls
    <2>3. CASE speech.finalizer.operation \notin ActiveAttempts
      <3> DEFINE r == [speech EXCEPT !.finalizer = noFinalizer]
      <3>1. speech' = startNextPendingAutomaticTurnIfEligible(r)
        BY <1>3, <2>3 DEF FinalizerJoins, finalized
      <3>2. keeps(r, speech)
        BY <1>1, <2>1, <2>3, FinalizerEnds DEF keeps, Coordinator
      <3> HIDE DEF r
      <3>3. keeps(startNextPendingAutomaticTurnIfEligible(r), r)
        BY <1>1, <3>2, PumpKeeps DEF keeps
      <3> QED BY <3>1, <3>2, <3>3, KeepsTransitive
    <2> QED BY <2>2, <2>3
  <1>4. CASE StopperEndsCycle
    <2>1. PICK caller \in speech.stoppers :
              speech' = [endPlaybackCycle(speech) EXCEPT !.stoppers = @ \ {caller}]
      BY <1>4 DEF StopperEndsCycle
    <2> DEFINE u == endPlaybackCycle(speech)
    <2>2. keeps(u, speech)
      BY FieldsKeep, FieldsTyped DEF endPlaybackCycle
    <2> HIDE DEF u
    <2>3. u.stoppers \ {caller} \in SUBSET {"owner", "joined"}
      BY <2>2 DEF keeps, good, wellFormed, Coordinator
    <2>4. keeps([u EXCEPT !.stoppers = u.stoppers \ {caller}], u)
      BY <2>2, <2>3, FieldsKeep, FieldsTyped DEF keeps
    <2>5. speech' = [u EXCEPT !.stoppers = u.stoppers \ {caller}]
      BY <2>1 DEF u
    <2> QED BY <2>2, <2>4, <2>5, KeepsTransitive
  <1> QED BY <1>2, <1>3, <1>4

\* Preparing or removing the voice model, and publishing its readiness
LEMMA ModelMoves ==
    ASSUME good(speech), Ready, Running,
           ReadinessWithdrawn \/ RefreshReadiness \/ PrepareModel \/ PrepareReturns \/ RemoveReturns
    PROVE  keeps(speech', speech)
  <1>1. speech.resumed
    BY DEF Running
  <1>2. ASSUME NEW s, keeps(s, speech), NEW ready \in BOOLEAN
        PROVE  keeps(readinessPublished(s, ready), speech)
    <2> DEFINE s1 == [s EXCEPT !.isReady = ready]
               s2 == resetAutomaticDrainRetry(s1)
    <2>1. keeps(s1, s)
      BY <1>2, FieldsKeep, FieldsTyped DEF keeps
    <2>2. readinessPublished(s, ready) =
             IF ready THEN startNextPendingAutomaticTurnIfEligible(s2) ELSE s1
      BY DEF readinessPublished
    <2> HIDE DEF s1
    <2>3. keeps(s2, s1)
      BY <2>1, BackoffKeeps, FieldsTyped DEF keeps, resetAutomaticDrainRetry
    <2> HIDE DEF s2
    <2>4. keeps(startNextPendingAutomaticTurnIfEligible(s2), s2)
      BY <1>1, <1>2, <2>1, <2>3, PumpKeeps DEF keeps
    <2> QED BY <1>2, <2>1, <2>2, <2>3, <2>4, KeepsTransitive
  <1>3. keeps(speech, speech)
    BY DEF keeps
  <1>4. CASE ReadinessWithdrawn
    BY <1>4, FieldsKeep, FieldsTyped DEF ReadinessWithdrawn
  <1>5. CASE RefreshReadiness
    BY <1>2, <1>3, <1>5 DEF RefreshReadiness
  <1>6. CASE PrepareModel
    BY <1>6, FieldsKeep, FieldsTyped DEF PrepareModel
  <1>7. CASE PrepareReturns
    <2>1. keeps([speech EXCEPT !.model = "idle"], speech)
      BY FieldsKeep, FieldsTyped
    <2> QED BY <1>2, <1>7, <2>1 DEF PrepareReturns
  <1>8. CASE RemoveReturns
    <2>1. PICK ready \in BOOLEAN : speech' = [speech EXCEPT !.isReady = ready, !.model = "idle"]
      BY <1>8 DEF RemoveReturns
    <2> DEFINE u == [speech EXCEPT !.isReady = ready]
    <2>2. keeps(u, speech)
      BY FieldsKeep, FieldsTyped
    <2>3. speech' = [u EXCEPT !.model = "idle"]
      BY <2>1
    <2> HIDE DEF u
    <2>4. keeps([u EXCEPT !.model = "idle"], u)
      BY <2>2, FieldsKeep, FieldsTyped DEF keeps
    <2> QED BY <2>2, <2>3, <2>4, KeepsTransitive
  <1> QED BY <1>4, <1>5, <1>6, <1>7, <1>8

\* A retry or a playback call starts, goes on or returns.
LEMMA ControlGood ==
    ASSUME NEW s, good(s), s.resumed, NEW r \in Coordinator,
           r.attachedTo = s.attachedTo, r.known = s.known, r.resumed = s.resumed,
           sameQueue(r, s), sameOperation(r, s), r.stage = s.stage,
           r.player \in {s.player, "idle", "file"},
           r.player = "file" => r.control.call = "playing",
           r.control.call = "retrying" => /\ s.operation = noOperation
                                          /\ r.control.turn \in DOMAIN utterances
    PROVE  keeps(r, s)
  <1> USE DEF good, sameQueue, sameOperation
  <1>1. wellFormed(r)
    BY DEF wellFormed
  <1>2. owned(r)
    BY DEF owned
  <1>3. heard(r)
    BY DEF heard
  <1>4. hasFinalAudio(r)
    BY DEF hasFinalAudio
  <1>5. inOrder(r)
    BY DEF inOrder
  <1> QED BY <1>1, <1>2, <1>3, <1>4, <1>5 DEF keeps

\* Turns are numbers.
LEMMA TurnIsNumber == ASSUME Ready, NEW t \in DOMAIN utterances PROVE t \in Nat
  BY DEF Ready

\* Retry and saved playback, but for the authorization of a retry
LEMMA ControlMoves ==
    ASSUME good(speech), Ready, Running,
           Retry \/ RetryRefused \/ Play \/ PlayValidated \/ PlayStarts \/ PlayReturns
    PROVE  keeps(speech', speech)
  <1>1. speech \in Coordinator /\ speech.resumed
    BY DEF good, wellFormed, Running
  <1> DEFINE Call == [call : {"none", "retrying", "validating", "announcing", "playing"},
                      turn : Nat, initial : BOOLEAN]
  <1>3. ASSUME NEW control \in Call, NEW playing \in BOOLEAN,
               NEW player \in {speech.player, "idle", "file"}, NEW active \in BOOLEAN,
               player = "file" => control.call = "playing",
               control.call = "retrying" => /\ speech.operation = noOperation
                                            /\ control.turn \in DOMAIN utterances,
               speech' = [speech EXCEPT !.control = control, !.isPlayingSavedAudio = playing,
                                        !.player = player, !.playbackCycleActive = active]
        PROVE  keeps(speech', speech)
    <2>1. player \in {"idle", "open", "audible", "file"}
      BY <1>1 DEF Coordinator
    <2> DEFINE u == [speech EXCEPT !.control = control, !.isPlayingSavedAudio = playing]
               w == [u EXCEPT !.player = player, !.playbackCycleActive = active]
    <2>2. /\ u \in Coordinator
          /\ u.attachedTo = speech.attachedTo /\ u.known = speech.known
          /\ u.resumed = speech.resumed /\ sameQueue(u, speech) /\ sameOperation(u, speech)
          /\ u.stage = speech.stage /\ u.control = control
      BY <1>1, ZenonT(60) DEF Coordinator, sameQueue, sameOperation
    <2> HIDE DEF u, Call
    <2>3. /\ w \in Coordinator
          /\ w.attachedTo = u.attachedTo /\ w.known = u.known
          /\ w.resumed = u.resumed /\ sameQueue(w, u) /\ sameOperation(w, u)
          /\ w.stage = u.stage /\ w.control = u.control /\ w.player = player
      BY <2>1, <2>2, ZenonT(60) DEF Coordinator, sameQueue, sameOperation
    <2>4. speech' = w
      BY <1>1, <1>3 DEF Coordinator, u
    <2> HIDE DEF w
    <2>5. /\ w \in Coordinator
          /\ w.attachedTo = speech.attachedTo /\ w.known = speech.known
          /\ w.resumed = speech.resumed /\ sameQueue(w, speech) /\ sameOperation(w, speech)
          /\ w.stage = speech.stage /\ w.player = player /\ w.control = control
      BY <2>2, <2>3 DEF sameQueue, sameOperation
    <2> QED BY <1>1, <1>3, <2>4, <2>5, ControlGood
  <1>4. /\ speech.player = "file" => speech.control.call = "playing"
        /\ noCall \in Call /\ noCall.call = "none" /\ speech.control \in Call
        /\ speech.isPlayingSavedAudio \in BOOLEAN /\ speech.playbackCycleActive \in BOOLEAN
    BY <1>1 DEF good, heard, noCall, Coordinator
  <1>5. CASE Retry
    <2>1. PICK t \in DOMAIN utterances :
            speech' = [speech EXCEPT
                       !.control = [call |-> "retrying", turn |-> t,
                                    initial |-> utterances[t].attempts = <<>>],
                       !.player = IF speech.isPlayingSavedAudio THEN "idle" ELSE @,
                       !.isPlayingSavedAudio = FALSE]
      BY <1>5 DEF Retry
    <2> DEFINE control == [call |-> "retrying", turn |-> t,
                                    initial |-> utterances[t].attempts = <<>>]
               player == IF speech.isPlayingSavedAudio THEN "idle" ELSE speech.player
    <2>2. /\ speech.control = noCall /\ speech.operation = noOperation
      BY <1>5 DEF Retry
    <2>3. /\ control \in Call /\ control.call = "retrying" /\ control.turn = t
      BY TurnIsNumber
    <2>4. player \in {speech.player, "idle", "file"} /\ player # "file"
      BY <1>4, <2>2
    <2> HIDE DEF control, player, Call
    <2>5. speech' = [speech EXCEPT !.control = control, !.isPlayingSavedAudio = FALSE,
                             !.player = player, !.playbackCycleActive = speech.playbackCycleActive]
      BY <1>1, <2>1 DEF Coordinator, control, player
    <2> QED BY <1>3, <1>4, <2>2, <2>3, <2>4, <2>5
  <1>6. CASE RetryRefused
    <2>1. speech.control.call = "retrying" /\ speech' = [speech EXCEPT !.control = noCall]
      BY <1>6 DEF RetryRefused
    <2> HIDE DEF Call
    <2>2. speech.player # "file"
      BY <1>4, <2>1
    <2>3. speech' = [speech EXCEPT !.control = noCall,
                          !.isPlayingSavedAudio = speech.isPlayingSavedAudio,
                          !.player = speech.player, !.playbackCycleActive = speech.playbackCycleActive]
      BY <1>1, <2>1 DEF Coordinator
    <2> QED BY <1>3, <1>4, <2>2, <2>3
  <1>7. CASE Play
    <2>1. PICK t \in DOMAIN utterances :
            speech' = [speech EXCEPT
                         !.control = [call |-> "validating", turn |-> t, initial |-> FALSE],
                         !.isPlayingSavedAudio = TRUE]
      BY <1>7 DEF Play
    <2> DEFINE control == [call |-> "validating", turn |-> t, initial |-> FALSE]
    <2>2. control \in Call /\ control.call = "validating" /\ speech.player # "file"
      BY <1>4, <1>7, TurnIsNumber DEF Play
    <2> HIDE DEF control, Call
    <2>3. speech' = [speech EXCEPT !.control = control, !.isPlayingSavedAudio = TRUE,
                          !.player = speech.player, !.playbackCycleActive = speech.playbackCycleActive]
      BY <1>1, <2>1 DEF Coordinator, control
    <2> QED BY <1>3, <1>4, <2>2, <2>3
  <1>8. CASE PlayValidated
    <2> DEFINE control == [speech.control EXCEPT !.call = "announcing"]
    <2>1. control \in Call /\ control.call = "announcing" /\ speech.player # "file"
      BY <1>4, <1>8 DEF PlayValidated
    <2>2. \/ speech' = beginPlaybackCycle([speech EXCEPT !.control = control])
          \/ speech' = [speech EXCEPT !.control = noCall, !.isPlayingSavedAudio = FALSE]
      BY <1>1, <1>8 DEF PlayValidated, Coordinator
    <2> HIDE DEF control, Call
    <2>3. CASE speech' = beginPlaybackCycle([speech EXCEPT !.control = control])
      <3>1. speech' = [speech EXCEPT !.control = control,
                          !.isPlayingSavedAudio = speech.isPlayingSavedAudio,
                          !.player = speech.player, !.playbackCycleActive = TRUE]
        BY <1>1, <2>3 DEF Coordinator, beginPlaybackCycle
      <3> QED BY <1>3, <1>4, <2>1, <3>1
    <2>4. CASE speech' = [speech EXCEPT !.control = noCall, !.isPlayingSavedAudio = FALSE]
      <3>1. speech' = [speech EXCEPT !.control = noCall, !.isPlayingSavedAudio = FALSE,
                          !.player = speech.player, !.playbackCycleActive = speech.playbackCycleActive]
        BY <1>1, <2>4 DEF Coordinator
      <3> QED BY <1>3, <1>4, <2>1, <3>1
    <2> QED BY <2>2, <2>3, <2>4
  <1>9. CASE PlayStarts
    <2> DEFINE control == [speech.control EXCEPT !.call = "playing"]
    <2>1. control \in Call /\ control.call = "playing"
      BY <1>4
    <2>2. speech' = [speech EXCEPT !.control = control,
                          !.isPlayingSavedAudio = speech.isPlayingSavedAudio,
                          !.player = "file", !.playbackCycleActive = speech.playbackCycleActive]
      BY <1>1, <1>9 DEF PlayStarts, Coordinator
    <2> HIDE DEF control, Call
    <2> QED BY <1>3, <1>4, <2>1, <2>2
  <1>10. CASE PlayReturns
    <2> DEFINE player == IF speech.player = "file" THEN "idle" ELSE speech.player
    <2>1. speech' = [speech EXCEPT !.control = noCall, !.isPlayingSavedAudio = FALSE,
                          !.player = player, !.playbackCycleActive = FALSE]
      BY <1>1, <1>10, ZenonT(60) DEF PlayReturns, endPlaybackCycle, Coordinator
    <2>2. player \in {speech.player, "idle", "file"} /\ player # "file"
      OBVIOUS
    <2> HIDE DEF player, Call
    <2> QED BY <1>3, <1>4, <2>1, <2>2
  <1> QED BY <1>5, <1>6, <1>7, <1>8, <1>9, <1>10

\* The drain loop gives a turn up; its retry may be scheduled.
LEMMA DrainMoves ==
    ASSUME good(speech), Ready, Running, DrainRefused \/ DrainRetryFires
    PROVE  keeps(speech', speech)
  <1>1. speech \in Coordinator /\ speech.resumed
    BY DEF good, wellFormed, Running
  <1>2. CASE DrainRefused
    <2> DEFINE r == [speech EXCEPT !.drain = 0]
               t == speech.drain
               count == IF r.backoff.turn = t THEN r.backoff.count ELSE 0
               b == [turn |-> t, scheduled |-> count < DrainRetries,
                     count |-> IF count < DrainRetries THEN count + 1 ELSE count]
    <2>1. /\ r \in Coordinator /\ sameCalls(r, speech) /\ r.queue = speech.queue /\ r.drain = 0
          /\ sameOperation(r, speech) /\ r.stage = speech.stage /\ r.player = speech.player
      BY <1>1, ZenonT(60) DEF Coordinator, sameCalls, sameOperation
    <2>2. speech' = r \/ speech' = [r EXCEPT !.backoff = b]
      BY <1>2 DEF DrainRefused, scheduleAutomaticDrainRetry
    <2> HIDE DEF r
    <2>3. wellFormed(r) /\ owned(r) /\ heard(r) /\ hasFinalAudio(r) /\ inOrder(r)
      BY <2>1 DEF good, wellFormed, owned, heard, hasFinalAudio, inOrder, sameCalls, sameOperation
    <2>4. keeps(r, speech)
      BY <2>1, <2>3 DEF good, keeps, sameCalls, sameOperation
    <2>5. b \in [turn : Nat, count : Nat, scheduled : BOOLEAN]
      <3>1. t \in Nat /\ r.backoff.count \in Nat /\ count \in Nat
        BY <1>1, <2>1 DEF Coordinator
      <3> QED BY <3>1
    <2> HIDE DEF b
    <2>6. keeps([r EXCEPT !.backoff = b], r)
      BY <2>4, <2>5, BackoffKeeps DEF keeps
    <2> QED BY <2>2, <2>4, <2>6, KeepsTransitive
  <1>3. CASE DrainRetryFires
    <2> DEFINE b == [speech.backoff EXCEPT !.scheduled = FALSE]
               r == [speech EXCEPT !.backoff = b]
    <2>1. b \in [turn : Nat, count : Nat, scheduled : BOOLEAN]
      BY <1>1 DEF Coordinator
    <2>2. speech' = startNextPendingAutomaticTurnIfEligible(r)
      BY <1>1, <1>3 DEF DrainRetryFires, Coordinator
    <2> HIDE DEF b
    <2>3. keeps(r, speech)
      BY <2>1, BackoffKeeps
    <2> HIDE DEF r
    <2>4. keeps(startNextPendingAutomaticTurnIfEligible(r), r)
      BY <1>1, <2>3, PumpKeeps DEF keeps
    <2> QED BY <2>2, <2>3, <2>4, KeepsTransitive
  <1> QED BY <1>2, <1>3

\* New turns are appended behind those already queued.
LEMMA ObserveMoves ==
    ASSUME good(speech), Ready, ObserveNewlyPersistedSnapshot
    PROVE  keeps(speech', speech)
  <1> DEFINE new == (speech.known + 1)..Len(utterances)
             S == {t \in new : isPending(t)}
             q == ascending(S)
             seen == [speech EXCEPT !.known = Len(utterances)]
             r == [seen EXCEPT !.queue = @ \o q]
             b == beginPlaybackCycle(r)
  <1>1. speech \in Coordinator /\ speech.resumed /\ speech.known \in Nat /\ Len(utterances) \in Nat
    BY DEF good, wellFormed, ObserveNewlyPersistedSnapshot, Running, Coordinator, Ready
  <1>2. /\ q \in Seq(Nat) /\ \A i \in DOMAIN q : q[i] \in new
        /\ \A i, j \in DOMAIN q : i < j => q[i] < q[j]
    <2>1. IsFiniteSet(new) /\ S \in SUBSET new
      <3>1. speech.known + 1 \in Int /\ Len(utterances) \in Int
        BY <1>1
      <3>2. IsFiniteSet(new)
        BY <3>1, FS_Interval
      <3> QED BY <3>2
    <2>2. IsFiniteSet(S) /\ S \in SUBSET Nat
      BY <1>1, <2>1, FS_Subset
    <2> HIDE DEF S, new
    <2>3. /\ q \in Seq(Nat) /\ \A i \in DOMAIN q : q[i] \in S
          /\ \A i, j \in DOMAIN q : i < j => q[i] < q[j]
      BY <2>2, AscendingIsSorted
    <2> QED BY <2>1, <2>3
  <1>3. \/ speech' = seen
        \/ speech' = startNextPendingAutomaticTurnIfEligible(r)
        \/ speech' = startNextPendingAutomaticTurnIfEligible(b)
    BY DEF ObserveNewlyPersistedSnapshot
  <1> HIDE DEF S
  <1>4. keeps(seen, speech) /\ keeps(r, speech)
    <2> HIDE DEF q
    <2>1. /\ good(seen) /\ good(r) /\ seen.resumed = speech.resumed
          /\ seen.operation = speech.operation /\ r.resumed = speech.resumed
          /\ r.operation = speech.operation
      BY <1>2, ObservedGood
    <2> QED BY <2>1 DEF keeps
  <1> HIDE DEF r, seen
  <1>5. keeps(b, r)
    BY <1>4, FieldsKeep, FieldsTyped DEF keeps, beginPlaybackCycle
  <1> HIDE DEF b
  <1>6. /\ keeps(startNextPendingAutomaticTurnIfEligible(r), r)
        /\ keeps(startNextPendingAutomaticTurnIfEligible(b), b)
    BY <1>1, <1>4, <1>5, PumpKeeps DEF keeps
  <1> QED BY <1>3, <1>4, <1>5, <1>6, KeepsTransitive

\* The generation's task clears its operation and pumps the queue.
LEMMA GenerationEnds ==
    ASSUME good(speech), Ready, GenerationDidFinish
    PROVE  good(speech') /\ speech'.operation = noOperation
  <1> DEFINE r == [speech EXCEPT !.operation = noOperation, !.stage = "none", !.cancelled = FALSE]
  <1>1. /\ speech \in Coordinator /\ speech.resumed /\ speech.stage = "ending"
        /\ speech' = startNextPendingAutomaticTurnIfEligible(r)
    BY DEF good, wellFormed, GenerationDidFinish, Running
  <1>2. good(r) /\ r.resumed /\ r.operation = noOperation
    BY <1>1, OperationEnds DEF Coordinator
  <1> HIDE DEF r
  <1> QED BY <1>1, <1>2, PumpKeeps DEF keeps

-----------------------------------------------------------------------------
(* Steps that change the manifest, or lose a save *)

\* What changes neither the manifest nor the disk keeps ready attempts audible.
LEMMA AttemptFinalOnDisk == ASSUME SpeechInv, UNCHANGED <<utterances, finalAudio>> PROVE ReadyHasAudio'
  <1>1. Operations' = Operations /\ \A o : attemptOf(o)' = attemptOf(o)
    BY DEF Operations, attemptOf
  <1> QED BY <1>1 DEF SpeechInv, ReadyHasAudio

\* A recorded outcome other than "ready", or "ready" of a finalized WAV
LEMMA RecordedHasAudio ==
    ASSUME SpeechInv, NEW o \in Operations,
           NEW state \in {"authorized", "speaking", "ready", "stopped", "failed"},
           utterances' = recording(o, state), state = "ready" => o \in finalAudio,
           finalAudio' = finalAudio
    PROVE  /\ ReadyHasAudio' /\ Ready'
           /\ Len(utterances') = Len(utterances) /\ DOMAIN utterances' = DOMAIN utterances
           /\ Operations' = Operations /\ attemptOf(o)'.state = state
           /\ \A p \in Operations : p # o => attemptOf(p)' = attemptOf(p)
           /\ ActiveAttempts' = (ActiveAttempts \ {o})
                                \cup (IF state \in {"authorized", "speaking"} THEN {o} ELSE {})
  <1>1. /\ Ready' /\ Len(utterances') = Len(utterances) /\ DOMAIN utterances' = DOMAIN utterances
        /\ Operations' = Operations /\ attemptOf(o)'.state = state
        /\ \A p \in Operations : p # o => attemptOf(p)' = attemptOf(p)
        /\ ActiveAttempts' = (ActiveAttempts \ {o})
                                \cup (IF state \in {"authorized", "speaking"} THEN {o} ELSE {})
    BY RecordingStep DEF SpeechInv
  <1>2. ASSUME NEW p \in Operations', attemptOf(p)'.state = "ready"
        PROVE  p \in finalAudio'
    BY <1>1, <1>2 DEF SpeechInv, ReadyHasAudio
  <1>3. ReadyHasAudio'
    <2>1. ReadyHasAudio' <=> \A p \in Operations' : attemptOf(p)'.state = "ready" => p \in finalAudio'
      BY DEF ReadyHasAudio
    <2> QED BY <1>2, <2>1
  <1> QED BY <1>1, <1>3

\* The first chunk's save: the attempt is speaking.
LEMMA SpeakingSavedKeeps ==
    ASSUME SpeechInv, SpeakingSaved
    PROVE  SpeechInv' /\ speech'.operation = speech.operation
  <1>1. /\ speech \in Coordinator /\ speech.resumed /\ speech.stage = "savingSpeaking"
        /\ speech.finalizer.stage # "spawned" /\ attemptOf(speech.operation).state = "authorized"
        /\ finalAudio' = finalAudio /\ process' = process /\ lostSave' = lostSave
        /\ utterances' = recording(speech.operation, "speaking")
        /\ speech' = [speech EXCEPT !.stage = "streaming"]
    BY DEF SpeechInv, good, wellFormed, SpeakingSaved, Running
  <1>2. /\ speech' \in Coordinator /\ same(speech', speech) /\ speech'.stage = "streaming"
        /\ speech'.player = speech.player
    BY <1>1, ZenonT(60) DEF Coordinator, GenerationStage, same, sameCalls, sameQueue, sameOperation
  <1>3. speech.operation \in Operations
    BY <1>1 DEF SpeechInv, good, wellFormed
  <1>4. /\ ReadyHasAudio' /\ Ready' /\ Len(utterances') = Len(utterances)
        /\ DOMAIN utterances' = DOMAIN utterances
        /\ Operations' = Operations /\ attemptOf(speech.operation)'.state = "speaking"
        /\ ActiveAttempts' = (ActiveAttempts \ {speech.operation}) \cup {speech.operation}
    <2>1. PICK o \in Operations : o = speech.operation
      BY <1>3
    <2>2. /\ ReadyHasAudio' /\ Ready' /\ Len(utterances') = Len(utterances)
          /\ DOMAIN utterances' = DOMAIN utterances
          /\ Operations' = Operations /\ attemptOf(o)'.state = "speaking"
          /\ ActiveAttempts' = (ActiveAttempts \ {o}) \cup {o}
      BY <1>1, <2>1, RecordedHasAudio
    <2>3. speech'.operation = o
      BY <1>2, <2>1 DEF same, sameOperation
    <2> QED BY <2>1, <2>2, <2>3 DEF attemptOf
  <1>5. ActiveAttempts' = ActiveAttempts
    BY <1>1, <1>3, <1>4 DEF ActiveAttempts, isActive
  <1> USE DEF same, sameCalls, sameQueue, sameOperation
  <1>6. wellFormed(speech)'
    BY <1>1, <1>2, <1>4 DEF SpeechInv, good, wellFormed
  <1>7. owned(speech)'
    BY <1>1, <1>2, <1>5 DEF SpeechInv, good, owned
  <1>8. heard(speech)'
    BY <1>1, <1>2, <1>4 DEF SpeechInv, good, heard
  <1>9. hasFinalAudio(speech)'
    BY <1>2 DEF hasFinalAudio
  <1>10. inOrder(speech)'
    BY <1>2, <1>4 DEF SpeechInv, good, inOrder
  <1> QED
    BY <1>1, <1>2, <1>4, <1>5, <1>6, <1>7, <1>8, <1>9, <1>10 DEF SpeechInv, good

\* The outcome of the active operation is saved; its task is ending.
LEMMA OutcomeSavedKeeps ==
    ASSUME SpeechInv, ReadySaved \/ FailureSaved
    PROVE  SpeechInv' /\ speech'.operation = speech.operation
  <1>1. /\ speech \in Coordinator /\ speech.resumed /\ NoEarlierCall
        /\ isActive(attemptOf(speech.operation))
        /\ finalAudio' = finalAudio /\ process' = process /\ lostSave' = lostSave
        /\ speech' = [endPlaybackCycle(speech) EXCEPT !.stage = "ending"]
    BY DEF SpeechInv, good, wellFormed, ReadySaved, FailureSaved, Running
  <1>2. PICK state \in {"ready", "failed"} :
           /\ utterances' = recording(speech.operation, state)
           /\ state = "ready" => speech.operation \in finalAudio
    BY DEF SpeechInv, good, hasFinalAudio, ReadySaved, FailureSaved
  <1>3. /\ speech' \in Coordinator /\ same(speech', speech) /\ speech'.stage = "ending"
        /\ speech'.player = speech.player
    <2>1. speech' = [speech EXCEPT !.playbackCycleActive = FALSE, !.stage = "ending"]
      BY <1>1 DEF endPlaybackCycle
    <2>2. speech \in Coordinator
      BY <1>1
    <2>3. speech' \in Coordinator
      BY <2>1, <2>2, ZenonT(60) DEF Coordinator, GenerationStage
    <2> QED BY <2>1, <2>2, <2>3 DEF Coordinator, same, sameCalls, sameQueue, sameOperation
  <1>4. speech.stage \in {"savingReady", "savingReadyAgain", "savingFailed"}
    BY DEF ReadySaved, FailureSaved
  <1>5. speech.operation \in Operations
    BY <1>1, <1>4 DEF SpeechInv, good, wellFormed
  <1>6. /\ ReadyHasAudio' /\ Ready' /\ Len(utterances') = Len(utterances)
        /\ DOMAIN utterances' = DOMAIN utterances
        /\ Operations' = Operations /\ ActiveAttempts' = ActiveAttempts \ {speech.operation}
    <2>1. PICK o \in Operations : o = speech.operation
      BY <1>5
    <2>2. /\ ReadyHasAudio' /\ Ready' /\ Len(utterances') = Len(utterances)
          /\ DOMAIN utterances' = DOMAIN utterances
          /\ Operations' = Operations /\ ActiveAttempts' = (ActiveAttempts \ {o}) \cup {}
      BY <1>1, <1>2, <2>1, RecordedHasAudio
    <2> QED BY <2>1, <2>2
  <1> USE DEF same, sameCalls, sameQueue, sameOperation
  <1>7. wellFormed(speech)'
    BY <1>3, <1>4, <1>6 DEF SpeechInv, good, wellFormed
  <1>8. owned(speech)'
    <2>1. owned(speech) /\ speech.drain = 0 /\ speech.control.call # "retrying"
      BY <1>1 DEF SpeechInv, good, NoEarlierCall
    <2>2. /\ speech'.operation = speech.operation /\ speech'.cancelled = speech.cancelled
          /\ speech'.finalizer = speech.finalizer /\ speech'.resumed = speech.resumed
          /\ speech'.drain = speech.drain /\ speech'.control = speech.control
          /\ speech'.stage = "ending"
      BY <1>3
    <2>3. speech.operation \notin ActiveAttempts' /\ ActiveAttempts' \subseteq ActiveAttempts
      BY <1>6
    <2>4. speech.resumed /\ process' = process /\ lostSave' = lostSave
      BY <1>1
    <2> QED BY <2>1, <2>2, <2>3, <2>4 DEF owned
  <1>9. heard(speech)'
    BY <1>3, <1>4 DEF SpeechInv, good, heard
  <1>10. hasFinalAudio(speech)'
    BY <1>3 DEF hasFinalAudio
  <1>11. inOrder(speech)'
    BY <1>3, <1>6 DEF SpeechInv, good, inOrder
  <1> QED
    BY <1>1, <1>3, <1>6, <1>7, <1>8, <1>9, <1>10, <1>11 DEF SpeechInv, good

\* Its outcome could not be saved: a stop still owns it, or it is lost.
LEMMA OutcomeRefusedKeeps ==
    ASSUME SpeechInv, ReadyRefused \/ FailureRefused
    PROVE  SpeechInv' /\ speech'.operation = speech.operation
  <1>1. /\ speech \in Coordinator /\ speech.resumed /\ lostSave \in BOOLEAN
        /\ utterances' = utterances /\ finalAudio' = finalAudio /\ process' = process
    BY DEF SpeechInv, good, wellFormed, ReadyRefused, FailureRefused, Running
  <1>2. CASE /\ speech.stage = "savingReady" /\ lostSave' = lostSave
             /\ speech' = [[speech EXCEPT !.player = "idle"] EXCEPT
                               !.stage = IF speech.cancelled THEN "ending"
                                         ELSE "savingReadyAgain"]
    <2> DEFINE stage == IF speech.cancelled THEN "ending" ELSE "savingReadyAgain"
    <2>1. /\ speech' \in Coordinator /\ same(speech', speech) /\ speech'.stage = stage
          /\ speech'.player = "idle"
      <3>1. stage \in GenerationStage
        BY DEF GenerationStage
      <3> HIDE DEF stage
      <3>2. speech' = [[speech EXCEPT !.player = "idle"] EXCEPT !.stage = stage]
        BY <1>2 DEF stage
      <3> QED BY <1>1, <3>1, <3>2, ZenonT(60) DEF Coordinator, same, sameCalls, sameQueue, sameOperation
    <2>2. good(speech')
      <3>1. good(speech) /\ speech'.stage # "none" /\ speech.stage # "none"
        BY <1>2, <2>1 DEF SpeechInv
      <3>2. speech'.stage \in {"ending", "savingReadyAgain"} /\ (speech'.stage = "ending" => speech.cancelled)
        BY <2>1
      <3> QED BY <1>2, <2>1, <3>1, <3>2, StageMoves
    <2> QED BY <1>1, <1>2, <2>1, <2>2, VolatileKeeps DEF Volatile, same, sameOperation
  <1>3. ASSUME speech.stage \in {"savingReadyAgain", "savingFailed"},
               lostSave' = (lostSave \/ ~speech.cancelled),
               speech' = [endPlaybackCycle(speech) EXCEPT !.stage = "ending"]
        PROVE  SpeechInv' /\ speech'.operation = speech.operation
    <2>1. /\ speech' \in Coordinator /\ same(speech', speech) /\ speech'.stage = "ending"
          /\ speech'.player = speech.player
      BY <1>1, <1>3, ZenonT(60) DEF Coordinator, GenerationStage, same, sameCalls, sameQueue, sameOperation,
          endPlaybackCycle
    <2>2. Operations' = Operations /\ ActiveAttempts' = ActiveAttempts
      BY <1>1 DEF Operations, ActiveAttempts, attemptOf
    <2> USE DEF same, sameCalls, sameQueue, sameOperation
    <2>3. wellFormed(speech)'
      BY <1>1, <1>3, <2>1, <2>2 DEF SpeechInv, good, wellFormed
    <2>4. owned(speech)'
      <3>1. owned(speech)
        BY DEF SpeechInv, good
      <3>2. /\ speech'.operation = speech.operation /\ speech'.cancelled = speech.cancelled
            /\ speech'.finalizer = speech.finalizer /\ speech'.resumed = speech.resumed
            /\ speech'.drain = speech.drain /\ speech'.control = speech.control
            /\ speech'.stage = "ending"
        BY <2>1
      <3>3. speech.resumed /\ process' = process /\ (~lostSave' => ~lostSave /\ speech.cancelled)
        BY <1>1, <1>3
      <3> QED BY <2>2, <3>1, <3>2, <3>3 DEF owned
    <2>5. heard(speech)'
      BY <1>3, <2>1 DEF SpeechInv, good, heard
    <2>6. hasFinalAudio(speech)'
      BY <2>1 DEF hasFinalAudio
    <2>7. inOrder(speech)'
      BY <1>1, <2>1 DEF SpeechInv, good, inOrder
    <2>8. ReadyHasAudio'
      BY <1>1, AttemptFinalOnDisk
    <2> QED
      BY <1>1, <1>3, <2>1, <2>2, <2>3, <2>4, <2>5, <2>6, <2>7, <2>8 DEF SpeechInv, good, Ready
  <1>4. \/ /\ speech.stage = "savingReady" /\ lostSave' = lostSave
           /\ speech' = [[speech EXCEPT !.player = "idle"] EXCEPT
                               !.stage = IF speech.cancelled THEN "ending"
                                         ELSE "savingReadyAgain"]
        \/ /\ speech.stage \in {"savingReadyAgain", "savingFailed"}
           /\ lostSave' = (lostSave \/ ~speech.cancelled)
           /\ speech' = [endPlaybackCycle(speech) EXCEPT !.stage = "ending"]
    BY DEF ReadyRefused, FailureRefused
  <1> QED BY <1>2, <1>3, <1>4

\* The stop is recorded, or its save is lost: the finalizer is gone either way.
LEMMA StopReturnsKeeps ==
    ASSUME SpeechInv, StopSaved \/ StopRefused
    PROVE  SpeechInv' /\ speech'.operation = speech.operation
  <1>1. /\ speech \in Coordinator /\ speech.resumed /\ speech.drain = 0
        /\ speech.finalizer.stage = "saving" /\ finalAudio' = finalAudio /\ process' = process
    BY DEF SpeechInv, good, wellFormed, StopSaved, StopRefused, Running
  <1>2. /\ speech.finalizer.operation \in Operations /\ ~speech.cancelled
        /\ speech.operation # speech.finalizer.operation
    BY <1>1 DEF SpeechInv, good, wellFormed, owned, noFinalizer
  <1>3. PICK s : /\ s = speech \/ s = [speech EXCEPT !.stoppers = {}]
                 /\ speech' = startNextPendingAutomaticTurnIfEligible([s EXCEPT !.finalizer = noFinalizer])
    BY DEF StopSaved, StopRefused, finalized
  <1>4. /\ s \in Coordinator /\ same(s, speech) /\ s.stage = speech.stage /\ s.player = speech.player
    <2>1. CASE s = speech
      BY <1>1, <2>1 DEF same, sameCalls, sameQueue, sameOperation
    <2>2. CASE s = [speech EXCEPT !.stoppers = {}]
      BY <1>1, <2>2, ZenonT(60) DEF Coordinator, same, sameCalls, sameQueue, sameOperation
    <2> QED BY <1>3, <2>1, <2>2
  <1> DEFINE r == [s EXCEPT !.finalizer = noFinalizer]
  <1>5. /\ r \in Coordinator /\ sameCalls(r, s) /\ sameQueue(r, s) /\ r.finalizer = noFinalizer
        /\ r.operation = s.operation /\ r.cancelled = s.cancelled
        /\ r.stage = s.stage /\ r.player = s.player
    <2>1. noFinalizer \in [stage : {"none", "spawned", "cancelling", "saving"}, operation : Nat \X Nat]
      BY DEF noFinalizer, noOperation
    <2> QED BY <1>4, <2>1, ZenonT(60) DEF Coordinator, sameCalls, sameQueue
  <1>6. speech' = startNextPendingAutomaticTurnIfEligible(r)
    BY <1>3
  <1> HIDE DEF r
  <1>7. /\ speech' \in Coordinator /\ sameCalls(speech', r) /\ sameOperation(speech', r)
        /\ speech'.stage = r.stage /\ speech'.player \in {r.player, "idle"}
        /\ \/ speech'.drain = 0
           \/ r.operation = noOperation /\ speech'.drain \in DOMAIN utterances
    <2>1. r.drain = 0
      BY <1>1, <1>4, <1>5 DEF same, sameQueue
    <2> QED BY <1>5, <1>6, <2>1, StartNextMoves DEF sameQueue, isPending
  <1>8. inOrder(speech')
    <2>1. inOrder(r)
      BY <1>4, <1>5 DEF SpeechInv, good, inOrder, same, sameCalls, sameQueue
    <2> QED BY <1>5, <1>6, <2>1, StartNextOrdered
  <1>9. /\ speech'.resumed = speech.resumed /\ speech'.control = speech.control
        /\ speech'.operation = speech.operation /\ ~speech'.cancelled
        /\ speech'.finalizer = noFinalizer /\ speech'.stage = speech.stage
        /\ speech'.player \in {speech.player, "idle"}
        /\ \/ speech'.drain = 0
           \/ speech.operation = noOperation /\ speech'.drain \in DOMAIN utterances
    BY <1>2, <1>4, <1>5, <1>7 DEF same, sameCalls, sameOperation
  <1>10. /\ ReadyHasAudio' /\ Ready' /\ Len(utterances') = Len(utterances)
         /\ DOMAIN utterances' = DOMAIN utterances /\ Operations' = Operations
         /\ \A p \in Operations : p # speech.finalizer.operation => attemptOf(p)' = attemptOf(p)
         /\ ActiveAttempts' \subseteq ActiveAttempts
         /\ \A p \in ActiveAttempts : p # speech.finalizer.operation => p \in ActiveAttempts'
         /\ ~lostSave' => ~lostSave /\ speech.finalizer.operation \notin ActiveAttempts'
         /\ lostSave' \in BOOLEAN
    <2>1. CASE StopSaved
      <3>1. PICK o \in Operations : o = speech.finalizer.operation
        BY <1>2
      <3>2. utterances' = recording(o, "stopped") /\ lostSave' = lostSave
        BY <2>1, <3>1 DEF StopSaved
      <3>3. /\ ReadyHasAudio' /\ Ready' /\ Len(utterances') = Len(utterances)
            /\ DOMAIN utterances' = DOMAIN utterances /\ Operations' = Operations
            /\ \A p \in Operations : p # o => attemptOf(p)' = attemptOf(p)
            /\ ActiveAttempts' = (ActiveAttempts \ {o}) \cup {}
        BY <1>1, <3>2, RecordedHasAudio
      <3> QED BY <3>1, <3>2, <3>3 DEF SpeechInv
    <2>2. CASE StopRefused
      <3>1. utterances' = utterances /\ lostSave' = TRUE
        BY <2>2 DEF StopRefused
      <3>2. /\ Operations' = Operations /\ ActiveAttempts' = ActiveAttempts
            /\ \A o : attemptOf(o)' = attemptOf(o)
        BY <3>1 DEF Operations, ActiveAttempts, attemptOf
      <3> QED BY <1>1, <3>1, <3>2, AttemptFinalOnDisk DEF SpeechInv, Ready
    <2> QED BY <2>1, <2>2
  <1>11. wellFormed(speech)'
    <2>1. noFinalizer.stage = "none"
      BY DEF noFinalizer
    <2> QED BY <1>7, <1>9, <1>10, <2>1 DEF SpeechInv, good, wellFormed
  <1>12. owned(speech)'
    <2>1. owned(speech) /\ noFinalizer.stage = "none"
      BY DEF SpeechInv, good, noFinalizer
    <2>2. ~lostSave' /\ process' = "running" =>
             ActiveAttempts' \subseteq {speech.operation}
      BY <1>1, <1>10, <2>1 DEF owned
    <2>3. speech.operation \in ActiveAttempts => speech.operation \in ActiveAttempts'
      BY <1>2, <1>10
    <2>4. speech.stage = "ending" /\ speech.operation \in ActiveAttempts' => lostSave'
      BY <1>2, <1>10, <2>1 DEF owned
    <2> QED BY <1>1, <1>9, <2>1, <2>2, <2>3, <2>4 DEF owned
  <1>13. heard(speech)'
    <2>1. heard(speech) /\ noFinalizer.stage = "none"
      BY DEF SpeechInv, good, noFinalizer
    <2>2. /\ speech'.player = "audible" => speech'.stage \in {"sounding", "finishing"}
          /\ speech'.player = "file" => speech'.control.call = "playing"
      BY <1>9, <2>1 DEF heard
    <2>3. speech'.stage \in {"streaming", "sounding", "finishing"}
             => attemptOf(speech.operation)'.state = "speaking"
      <3> SUFFICES ASSUME speech'.stage \in {"streaming", "sounding", "finishing"}
                   PROVE  attemptOf(speech.operation)'.state = "speaking"
        OBVIOUS
      <3>1. speech.operation \in Operations /\ attemptOf(speech.operation).state = "speaking"
        BY <1>9, <2>1 DEF heard, SpeechInv, good, wellFormed
      <3>2. PICK o \in Operations : o = speech.operation
        BY <3>1
      <3>3. attemptOf(o)' = attemptOf(o)
        BY <1>2, <1>10, <3>2
      <3> QED BY <1>9, <3>1, <3>2, <3>3 DEF attemptOf
    <2> QED BY <1>9, <2>1, <2>2, <2>3 DEF heard
  <1>14. hasFinalAudio(speech)'
    BY <1>1, <1>9 DEF SpeechInv, good, hasFinalAudio
  <1>15. inOrder(speech)'
    BY <1>8, <1>10 DEF inOrder
  <1> QED
    BY <1>1, <1>9, <1>10, <1>11, <1>12, <1>13, <1>14, <1>15 DEF SpeechInv, good

\* The WAV is renamed into place.
LEMMA AudioFinalizedKeeps ==
    ASSUME SpeechInv, AudioFinalized
    PROVE  SpeechInv' /\ speech'.operation = speech.operation
  <1>1. /\ speech \in Coordinator /\ speech.resumed /\ speech.stage = "sounding"
        /\ finalAudio' = finalAudio \cup {speech.operation}
        /\ speech' = [speech EXCEPT !.stage = "finishing"]
        /\ utterances' = utterances /\ process' = process /\ lostSave' = lostSave
    BY DEF SpeechInv, good, wellFormed, AudioFinalized, Running
  <1>2. /\ speech' \in Coordinator /\ same(speech', speech) /\ speech'.stage = "finishing"
        /\ speech'.player = speech.player
    BY <1>1, ZenonT(60) DEF Coordinator, GenerationStage, same, sameCalls, sameQueue, sameOperation
  <1>3. /\ Operations' = Operations /\ ActiveAttempts' = ActiveAttempts
        /\ \A o : attemptOf(o)' = attemptOf(o)
    BY <1>1 DEF Operations, ActiveAttempts, attemptOf
  <1>4. ReadyHasAudio'
    BY <1>1, <1>3 DEF SpeechInv, ReadyHasAudio
  <1> USE DEF same, sameCalls, sameQueue, sameOperation
  <1>5. wellFormed(speech)'
    BY <1>1, <1>2, <1>3 DEF SpeechInv, good, wellFormed
  <1>6. owned(speech)'
    BY <1>1, <1>2, <1>3 DEF SpeechInv, good, owned
  <1>7. heard(speech)'
    BY <1>1, <1>2, <1>3 DEF SpeechInv, good, heard, attemptOf
  <1>8. hasFinalAudio(speech)'
    BY <1>1, <1>2 DEF hasFinalAudio
  <1>9. inOrder(speech)'
    BY <1>1, <1>2 DEF SpeechInv, good, inOrder
  <1>10. finalAudio' \subseteq Nat \X Nat
    BY <1>1 DEF SpeechInv, Coordinator
  <1> QED
    BY <1>1, <1>2, <1>3, <1>4, <1>5, <1>6, <1>7, <1>8, <1>9, <1>10 DEF SpeechInv, good, Ready

\* The session persists a turn, which the coordinator has yet to observe.
LEMMA TurnPersistedKeeps ==
    ASSUME SpeechInv, TurnPersisted
    PROVE  SpeechInv' /\ speech'.operation = speech.operation
  <1>1. /\ utterances' = Append(utterances, [attempts |-> <<>>, selected |-> FALSE])
        /\ finalAudio' = finalAudio /\ speech' = speech /\ process' = process /\ lostSave' = lostSave
    BY DEF TurnPersisted
  <1>2. /\ Ready' /\ Len(utterances') = Len(utterances) + 1
        /\ DOMAIN utterances \subseteq DOMAIN utterances'
        /\ Operations' = Operations /\ ActiveAttempts' = ActiveAttempts
        /\ \A p \in Operations : attemptOf(p)' = attemptOf(p)
    BY <1>1, TurnPersistedStep DEF SpeechInv
  <1>3. ReadyHasAudio'
    BY <1>1, <1>2 DEF SpeechInv, ReadyHasAudio
  <1>4. wellFormed(speech)'
    BY <1>1, <1>2 DEF SpeechInv, good, wellFormed
  <1>5. owned(speech)'
    BY <1>1, <1>2 DEF SpeechInv, good, owned
  <1>6. heard(speech)'
    <2>1. speech.stage \in {"streaming", "sounding", "finishing"} =>
             attemptOf(speech.operation)'.state = "speaking"
      <3> SUFFICES ASSUME speech.stage \in {"streaming", "sounding", "finishing"}
                   PROVE  attemptOf(speech.operation)'.state = "speaking"
        OBVIOUS
      <3>1. speech.operation \in Operations /\ attemptOf(speech.operation).state = "speaking"
        BY DEF heard, SpeechInv, good, wellFormed
      <3>2. PICK o \in Operations : o = speech.operation
        BY <3>1
      <3>3. attemptOf(o)' = attemptOf(o)
        BY <1>2
      <3> QED BY <1>1, <3>1, <3>2, <3>3 DEF attemptOf
    <2> QED BY <1>1, <2>1 DEF SpeechInv, good, heard
  <1>7. hasFinalAudio(speech)'
    BY <1>1 DEF SpeechInv, good, hasFinalAudio
  <1>8. inOrder(speech)'
    <2>1. speech.known \in Nat /\ Len(utterances) \in Nat
      BY DEF SpeechInv, good, wellFormed, Coordinator, Ready
    <2> QED BY <1>1, <1>2, <2>1 DEF SpeechInv, good, inOrder
  <1> QED
    BY <1>1, <1>2, <1>3, <1>4, <1>5, <1>6, <1>7, <1>8 DEF SpeechInv, good

\* An utterance's attempts are a sequence.
LEMMA AttemptsTyped ==
    ASSUME Ready, NEW t \in DOMAIN utterances
    PROVE  utterances[t].attempts \in Seq(SynthesisAttempt) /\ Len(utterances[t].attempts) \in Nat
  <1>1. utterances[t] \in InterviewerUtterance
    BY DEF Ready
  <1> QED BY <1>1 DEF InterviewerUtterance

\* An authorized attempt becomes the operation of a coordinator that had none:
\* one with an operation would have been refused, for its attempt is active.
startsGenerating(t, by, initial) ==
    /\ speech.resumed /\ mayAuthorize(t, initial)
    /\ speech.drain = t \/ speech.control.call = "retrying"
    /\ utterances' = authorizing(t, by)
    /\ speech' \in Coordinator
    /\ speech'.attachedTo = speech.attachedTo /\ speech'.known = speech.known
    /\ speech'.resumed = speech.resumed /\ speech'.finalizer = speech.finalizer
    /\ speech'.operation = <<t, Len(utterances[t].attempts) + 1>>
    /\ speech'.stage = "preparing" /\ ~speech'.cancelled /\ speech'.player = speech.player
    /\ \/ speech'.control = speech.control
       \/ speech.control.call = "retrying" /\ speech'.control = noCall
    /\ speech'.drain \in {speech.drain, 0}
    /\ \/ speech'.queue = speech.queue
       \/ speech.queue # <<>> /\ speech'.queue = Tail(speech.queue)
    /\ finalAudio' = finalAudio /\ process' = process /\ lostSave' = lostSave

\* A saved authorization starts a generation only when none is active: the one
\* active attempt of the manifest is then the operation's.
LEMMA GeneratingKeeps ==
    ASSUME SpeechInv, NEW t \in DOMAIN utterances, NEW by \in {"automatic", "user"}, NEW initial,
           startsGenerating(t, by, initial)
    PROVE  SpeechInv' /\ speech.operation = noOperation
  <1> USE DEF startsGenerating
  <1>1. /\ ActiveAttempts = {} /\ Len(utterances[t].attempts) < MaxAttempts
        /\ speech \in Coordinator /\ t \in Nat /\ t # 0
    BY DEF mayAuthorize, SpeechInv, good, wellFormed, Ready
  <1>2. speech.operation = noOperation /\ speech.stage = "none"
    BY <1>1 DEF SpeechInv, good, owned, wellFormed
  <1>3. PICK n : n = Len(utterances[t].attempts)
    OBVIOUS
  <1>4. PICK o : o = <<t, n + 1>>
    OBVIOUS
  <1>5. /\ Ready' /\ DOMAIN utterances' = DOMAIN utterances /\ Len(utterances') = Len(utterances)
        /\ o \notin Operations /\ Operations' = Operations \cup {o}
        /\ attemptOf(o)' = [by |-> by, state |-> "authorized"]
        /\ \A p \in Operations : attemptOf(p)' = attemptOf(p)
        /\ ActiveAttempts' = ActiveAttempts \cup {o}
    BY <1>1, <1>3, <1>4, AuthorizingStep DEF SpeechInv
  <1>6. speech'.operation = o /\ o # noOperation
    BY <1>1, <1>3, <1>4 DEF noOperation
  <1>7. ReadyHasAudio'
    <2>1. attemptOf(o)'.state # "ready"
      BY <1>5
    <2>2. ASSUME NEW p \in Operations', attemptOf(p)'.state = "ready" PROVE p \in finalAudio'
      <3>1. p # o
        BY <2>1, <2>2
      <3>2. p \in Operations /\ attemptOf(p)' = attemptOf(p)
        BY <1>5, <3>1
      <3> QED BY <2>2, <3>2 DEF SpeechInv, ReadyHasAudio
    <2>3. ReadyHasAudio' <=> \A p \in Operations' : attemptOf(p)'.state = "ready" => p \in finalAudio'
      BY DEF ReadyHasAudio
    <2> QED BY <2>2, <2>3
  <1>8. wellFormed(speech)'
    BY <1>5, <1>6, SMTT(30) DEF SpeechInv, good, wellFormed, noCall
  <1>9. owned(speech)'
    <2>1. owned(speech)
      BY DEF SpeechInv, good
    <2>2. speech.finalizer = noFinalizer \/ speech.finalizer.operation # o
      BY <1>5 DEF SpeechInv, good, wellFormed
    <2>3. speech.finalizer.stage = "saving" => speech'.operation # speech.finalizer.operation
      BY <1>6, <2>2 DEF noFinalizer
    <2>4. speech'.operation \in ActiveAttempts' /\ ActiveAttempts' = {speech'.operation}
      BY <1>1, <1>5, <1>6
    <2> QED BY <2>3, <2>4 DEF owned
  <1>10. heard(speech)'
    <2>1. heard(speech) /\ speech.player # "audible" /\ noCall.call = "none"
      BY <1>2 DEF SpeechInv, good, heard, noCall
    <2>2. speech.player = "file" => speech'.control.call = "playing"
      BY <2>1 DEF heard
    <2> QED BY <2>1, <2>2 DEF heard
  <1>11. hasFinalAudio(speech)'
    BY DEF hasFinalAudio
  <1>12. inOrder(speech)'
    <2>1. inOrder(speech) /\ speech.queue \in Seq(Nat)
      BY <1>1 DEF SpeechInv, good, Coordinator
    <2>2. CASE speech'.queue = speech.queue
      BY <1>5, <2>1, <2>2 DEF inOrder
    <2>3. CASE speech.queue # <<>> /\ speech'.queue = Tail(speech.queue)
      <3>1. \A i \in DOMAIN speech'.queue : /\ i \in Nat /\ i + 1 \in DOMAIN speech.queue
                                          /\ speech'.queue[i] = speech.queue[i + 1]
        BY <2>1, <2>3, SMTT(30)
      <3>2. \A i \in DOMAIN speech'.queue : speech'.queue[i] \in (speech.attachedTo + 1)..speech.known
        BY <2>1, <3>1 DEF inOrder
      <3>3. ASSUME NEW i \in DOMAIN speech'.queue, NEW j \in DOMAIN speech'.queue, i < j
            PROVE  speech'.queue[i] < speech'.queue[j]
        <4>1. i + 1 \in DOMAIN speech.queue /\ j + 1 \in DOMAIN speech.queue /\ i + 1 < j + 1
          BY <3>1, <3>3
        <4>2. speech.queue[i + 1] < speech.queue[j + 1]
          BY <2>1, <4>1 DEF inOrder
        <4> QED BY <3>1, <4>2
      <3>4. speech.drain # 0 => \A i \in DOMAIN speech'.queue : speech.drain <= speech'.queue[i]
        BY <2>1, <3>1 DEF inOrder
      <3> QED BY <1>5, <2>1, <3>2, <3>3, <3>4 DEF inOrder
    <2> QED BY <2>2, <2>3
  <1> QED
    BY <1>1, <1>2, <1>5, <1>7, <1>8, <1>9, <1>10, <1>11, <1>12 DEF SpeechInv, good

\* The drain's authorization is saved; an empty queue traps with the attempt
\* active, as the process that owned it is gone.
LEMMA DrainAuthorizedKeeps ==
    ASSUME SpeechInv, DrainAuthorized
    PROVE  SpeechInv' /\ speech.operation = noOperation
  <1> DEFINE t == speech.drain
             o == <<t, Len(utterances[t].attempts) + 1>>
  <1>1. /\ speech \in Coordinator /\ speech.resumed /\ t # 0 /\ t \in DOMAIN utterances /\ t \in Nat
        /\ mayAuthorize(t, TRUE) /\ utterances' = authorizing(t, "automatic")
        /\ UNCHANGED <<finalAudio, lostSave>>
    <2>1. /\ speech.resumed /\ t # 0 /\ mayAuthorize(t, TRUE)
          /\ utterances' = authorizing(t, "automatic") /\ UNCHANGED <<finalAudio, lostSave>>
      BY DEF DrainAuthorized, Running
    <2>2. speech \in Coordinator /\ t \in DOMAIN utterances
      BY <2>1 DEF SpeechInv, good, wellFormed
    <2> QED BY <2>1, <2>2, TurnIsNumber DEF SpeechInv
  <1>2. /\ o \in Nat \X Nat /\ speech.operation = noOperation
    <2>1. Len(utterances[t].attempts) \in Nat
      BY <1>1, AttemptsTyped DEF SpeechInv
    <2>2. ActiveAttempts = {}
      BY <1>1 DEF mayAuthorize
    <2>3. speech.operation = noOperation
      BY <1>1, <2>2 DEF SpeechInv, good, owned
    <2> QED BY <1>1, <2>1, <2>3
  <1>3. CASE speech.queue # <<>> /\ UNCHANGED process
             /\ speech' = resetDrainRetryFor([generating([speech EXCEPT !.drain = 0], t)
                                                EXCEPT !.queue = Tail(@)], {t})
    <2> DEFINE u == [speech EXCEPT !.drain = 0, !.operation = o]
               v == [u EXCEPT !.stage = "preparing", !.cancelled = FALSE]
               w == [v EXCEPT !.queue = Tail(speech.queue)]
    <2>1. /\ u \in Coordinator /\ u.attachedTo = speech.attachedTo /\ u.known = speech.known
          /\ u.resumed = speech.resumed /\ u.finalizer = speech.finalizer /\ u.operation = o
          /\ u.player = speech.player /\ u.control = speech.control /\ u.drain = 0
          /\ u.queue = speech.queue
      <3> HIDE DEF o
      <3> QED BY <1>1, <1>2, ZenonT(60) DEF Coordinator
    <2>2. speech' = resetDrainRetryFor(w, {t})
      BY <1>1, <1>3 DEF generating, Coordinator
    <2> HIDE DEF u, o
    <2>3. /\ v \in Coordinator /\ v.attachedTo = speech.attachedTo /\ v.known = speech.known
          /\ v.resumed = speech.resumed /\ v.finalizer = speech.finalizer /\ v.operation = o
          /\ v.player = speech.player /\ v.control = speech.control /\ v.drain = 0
          /\ v.stage = "preparing" /\ ~v.cancelled
      BY <2>1, ZenonT(60) DEF Coordinator, GenerationStage
    <2> HIDE DEF v
    <2>4. /\ w \in Coordinator /\ w.attachedTo = speech.attachedTo /\ w.known = speech.known
          /\ w.resumed = speech.resumed /\ w.finalizer = speech.finalizer /\ w.operation = o
          /\ w.player = speech.player /\ w.control = speech.control /\ w.drain = 0
          /\ w.stage = "preparing" /\ ~w.cancelled /\ w.queue = Tail(speech.queue)
      <3>1. Tail(speech.queue) \in Seq(Nat)
        BY <1>1, <1>3 DEF Coordinator
      <3> QED BY <2>3, <3>1, ZenonT(60) DEF Coordinator
    <2> HIDE DEF w
    <2>5. /\ speech' \in Coordinator /\ sameCalls(speech', w) /\ sameOperation(speech', w)
          /\ speech'.stage = w.stage /\ speech'.player = w.player /\ sameQueue(speech', w)
      BY <2>2, <2>4, ResetMoves
    <2>6. /\ speech'.attachedTo = speech.attachedTo /\ speech'.known = speech.known
          /\ speech'.resumed = speech.resumed /\ speech'.finalizer = speech.finalizer
          /\ speech'.operation = o /\ speech'.stage = "preparing" /\ ~speech'.cancelled
          /\ speech'.player = speech.player /\ speech'.control = speech.control
          /\ speech'.drain = 0 /\ speech'.queue = Tail(speech.queue)
      BY <2>4, <2>5 DEF sameCalls, sameOperation, sameQueue
    <2>7. PICK c \in DOMAIN utterances : c = t
      BY <1>1
    <2>8. startsGenerating(c, "automatic", TRUE)
      BY <1>1, <1>3, <2>5, <2>6, <2>7 DEF startsGenerating, o
    <2>9. SpeechInv'
      BY <2>8, GeneratingKeeps
    <2> QED BY <1>2, <2>9
  <1>4. CASE speech.queue = <<>> /\ process' = "trapped" /\ speech' = speech
    <2>1. PICK c \in DOMAIN utterances : c = t
      BY <1>1
    <2>2. PICK n : n = Len(utterances[c].attempts)
      OBVIOUS
    <2>3. PICK p : p = <<c, n + 1>>
      OBVIOUS
    <2>4. ActiveAttempts = {} /\ n < MaxAttempts
      BY <1>1, <2>1, <2>2 DEF mayAuthorize
    <2>5. /\ Ready' /\ DOMAIN utterances' = DOMAIN utterances /\ Len(utterances') = Len(utterances)
          /\ p \notin Operations /\ Operations' = Operations \cup {p}
          /\ attemptOf(p)' = [by |-> "automatic", state |-> "authorized"]
          /\ \A q \in Operations : attemptOf(q)' = attemptOf(q)
          /\ ActiveAttempts' = ActiveAttempts \cup {p}
      BY <1>1, <2>1, <2>2, <2>3, <2>4, AuthorizingStep DEF SpeechInv
    <2>6. ReadyHasAudio'
      <3>1. ASSUME NEW q \in Operations', attemptOf(q)'.state = "ready" PROVE q \in finalAudio'
        <4>1. attemptOf(p)'.state # "ready"
          BY <2>5
        <4>2. q \in Operations /\ attemptOf(q)' = attemptOf(q)
          BY <2>5, <3>1, <4>1
        <4> QED BY <1>1, <3>1, <4>2 DEF SpeechInv, ReadyHasAudio
      <3>2. ReadyHasAudio' <=> \A q \in Operations' : attemptOf(q)'.state = "ready" => q \in finalAudio'
        BY DEF ReadyHasAudio
      <3> QED BY <3>1, <3>2
    <2>7. wellFormed(speech)'
      BY <1>4, <2>5 DEF SpeechInv, good, wellFormed
    <2>8. owned(speech)'
      BY <1>1, <1>2, <1>4, <2>4, <2>5 DEF SpeechInv, good, owned, wellFormed
    <2>9. heard(speech)'
      BY <1>2, <1>4 DEF SpeechInv, good, heard, wellFormed
    <2>10. hasFinalAudio(speech)'
      BY <1>1, <1>4 DEF SpeechInv, good, hasFinalAudio
    <2>11. inOrder(speech)'
      BY <1>4, <2>5 DEF SpeechInv, good, inOrder
    <2> QED
      BY <1>1, <1>2, <1>4, <2>4, <2>5, <2>6, <2>7, <2>8, <2>9, <2>10, <2>11 DEF SpeechInv, good
  <1> QED BY <1>3, <1>4 DEF DrainAuthorized

\* The user's retry is authorized.
LEMMA RetryAuthorizedKeeps ==
    ASSUME SpeechInv, RetryAuthorized
    PROVE  SpeechInv' /\ speech.operation = noOperation
  <1> DEFINE t == speech.control.turn
             o == <<t, Len(utterances[t].attempts) + 1>>
  <1>1. /\ speech \in Coordinator /\ speech.resumed /\ t \in DOMAIN utterances /\ t \in Nat
        /\ speech.control.call = "retrying"
        /\ mayAuthorize(t, speech.control.initial) /\ utterances' = authorizing(t, "user")
        /\ UNCHANGED <<finalAudio, process, lostSave>>
        /\ speech' = generating([speech EXCEPT !.control = noCall], t)
    BY DEF SpeechInv, good, wellFormed, RetryAuthorized, Running, Ready
  <1>2. o \in Nat \X Nat
    BY <1>1, AttemptsTyped DEF SpeechInv
  <1>3. noCall \in [call : {"none", "retrying", "validating", "announcing", "playing"},
                    turn : Nat, initial : BOOLEAN]
    BY DEF noCall
  <1> DEFINE u == [speech EXCEPT !.control = noCall, !.operation = o]
             v == [u EXCEPT !.stage = "preparing", !.cancelled = FALSE]
  <1>4. /\ u \in Coordinator /\ u.attachedTo = speech.attachedTo /\ u.known = speech.known
        /\ u.resumed = speech.resumed /\ u.finalizer = speech.finalizer /\ u.operation = o
        /\ u.player = speech.player /\ u.control = noCall /\ u.drain = speech.drain
        /\ u.queue = speech.queue
    <2> HIDE DEF o
    <2> QED BY <1>1, <1>2, <1>3, ZenonT(60) DEF Coordinator
  <1>5. speech' = v
    BY <1>1 DEF generating, Coordinator
  <1> HIDE DEF u, o
  <1>6. /\ v \in Coordinator /\ v.attachedTo = speech.attachedTo /\ v.known = speech.known
        /\ v.resumed = speech.resumed /\ v.finalizer = speech.finalizer /\ v.operation = o
        /\ v.player = speech.player /\ v.control = noCall /\ v.drain = speech.drain
        /\ v.queue = speech.queue /\ v.stage = "preparing" /\ ~v.cancelled
    BY <1>4, ZenonT(60) DEF Coordinator, GenerationStage
  <1> HIDE DEF v
  <1>7. PICK c \in DOMAIN utterances : c = t
    BY <1>1
  <1>8. /\ mayAuthorize(c, speech.control.initial) /\ utterances' = authorizing(c, "user")
        /\ o = <<c, Len(utterances[c].attempts) + 1>>
    BY <1>1, <1>7 DEF o
  <1>9. /\ speech' \in Coordinator /\ speech'.attachedTo = speech.attachedTo
        /\ speech'.known = speech.known
        /\ speech'.resumed = speech.resumed /\ speech'.finalizer = speech.finalizer
        /\ speech'.operation = <<c, Len(utterances[c].attempts) + 1>>
        /\ speech'.player = speech.player /\ speech'.control = noCall
        /\ speech'.drain = speech.drain /\ speech'.queue = speech.queue
        /\ speech'.stage = "preparing" /\ ~speech'.cancelled
    BY <1>5, <1>6, <1>8
  <1>10. startsGenerating(c, "user", speech.control.initial)
    BY <1>1, <1>8, <1>9 DEF startsGenerating
  <1>11. "user" \in {"automatic", "user"}
    OBVIOUS
  <1> HIDE DEF t
  <1> QED BY <1>10, <1>11, GeneratingKeeps

-----------------------------------------------------------------------------
(* Crash, relaunch and recovery *)

\* A coordinator just attached has nothing under way.
LEMMA AttachedFields ==
    ASSUME Ready, NEW muted \in BOOLEAN, NEW ready \in BOOLEAN
    PROVE  LET s == attached(muted, ready)
           IN  /\ s \in Coordinator /\ s.attachedTo = Len(utterances)
               /\ s.known = Len(utterances) /\ s.resumed = FALSE /\ s.queue = <<>>
               /\ s.drain = 0 /\ s.operation = noOperation /\ s.stage = "none"
               /\ s.cancelled = FALSE /\ s.finalizer = noFinalizer /\ s.control = noCall
               /\ s.player = "idle"
  <1>1. Len(utterances) \in Nat /\ <<>> \in Seq(Nat)
    BY DEF Ready
  <1> QED BY <1>1 DEF attached, Coordinator, noBackoff, noOperation, noFinalizer, noCall,
                      GenerationStage

\* Nothing is under way in a coordinator that was just attached.
quiet(s) ==
    /\ s \in Coordinator /\ s.attachedTo = Len(utterances) /\ s.known = Len(utterances)
    /\ s.queue = <<>> /\ s.drain = 0 /\ s.operation = noOperation /\ s.stage = "none"
    /\ s.cancelled = FALSE /\ s.finalizer = noFinalizer /\ s.control = noCall
    /\ s.player = "idle"

\* Such a coordinator is good once recovery settled the active attempts.
LEMMA QuietGood ==
    /\ Ready /\ quiet(speech)
    /\ process = "running" /\ speech.resumed /\ ~lostSave => ActiveAttempts = {}
    => good(speech)
  <1> DEFINE s == speech
  <1> SUFFICES ASSUME Ready, quiet(s),
                      process = "running" /\ s.resumed /\ ~lostSave => ActiveAttempts = {}
               PROVE  good(s)
    OBVIOUS
  <1> HIDE DEF s
  <1>1. noOperation \notin Operations
    BY NoOperationIsNone
  <1>2. Len(utterances) \in Nat /\ DOMAIN s.queue = {}
    BY DEF Ready, quiet
  <1>3. wellFormed(s)
    BY DEF quiet, wellFormed, noFinalizer, noCall
  <1>4. owned(s)
    BY <1>1 DEF quiet, owned, noFinalizer, noCall, noOperation
  <1>5. heard(s)
    BY DEF quiet, heard, noFinalizer
  <1>6. hasFinalAudio(s)
    BY DEF quiet, hasFinalAudio
  <1>7. inOrder(s)
    BY <1>2 DEF quiet, inOrder
  <1> QED BY <1>3, <1>4, <1>5, <1>6, <1>7 DEF good

\* No turn of the first session has an attempt.
LEMMA InitSpeech == ASSUME Init PROVE SpeechInv
  <1>1. Ready /\ \A t \in DOMAIN utterances : utterances[t].attempts = <<>>
    <2>1. [attempts |-> <<>>, selected |-> FALSE] \in InterviewerUtterance
      BY DEF InterviewerUtterance
    <2> DEFINE pending == [attempts |-> <<>>, selected |-> FALSE]
    <2>2. utterances = [t \in 1..History |-> pending] /\ pending.attempts = <<>>
      BY DEF Init
    <2> HIDE DEF pending
    <2>3. utterances \in Seq(InterviewerUtterance) /\ DOMAIN utterances = 1..History
      BY <2>1, <2>2, CountsAssumption DEF pending
    <2> QED BY <2>2, <2>3 DEF Ready
  <1>2. Operations = {} /\ ActiveAttempts = {}
    BY <1>1 DEF Operations, ActiveAttempts
  <1>3. PICK muted \in BOOLEAN, ready \in BOOLEAN :
            speech = [attached(muted, ready) EXCEPT !.resumed = TRUE]
    BY DEF Init
  <1>4. quiet(speech)
    <2> DEFINE s == attached(muted, ready)
    <2>1. /\ s \in Coordinator /\ s.attachedTo = Len(utterances)
          /\ s.known = Len(utterances) /\ s.resumed = FALSE /\ s.queue = <<>>
          /\ s.drain = 0 /\ s.operation = noOperation /\ s.stage = "none"
          /\ s.cancelled = FALSE /\ s.finalizer = noFinalizer /\ s.control = noCall
          /\ s.player = "idle"
      BY <1>1, AttachedFields, ZenonT(60)
    <2>2. speech = [s EXCEPT !.resumed = TRUE]
      BY <1>3
    <2> HIDE DEF s
    <2> QED BY <2>1, <2>2, ZenonT(60) DEF quiet, Coordinator
  <1>5. good(speech)
    BY <1>1, <1>2, <1>4, QuietGood
  <1> QED BY <1>1, <1>2, <1>5 DEF Init, SpeechInv, ReadyHasAudio

\* A crash loses the tasks and a relaunch restores none of them.
LEMMA CrashOrRelaunchKeeps == ASSUME SpeechInv, Crash \/ Relaunch PROVE SpeechInv' /\ process' # process
  <1>1. /\ utterances' = utterances /\ finalAudio' = finalAudio /\ lostSave' = lostSave
        /\ process' \in {"running", "down"} /\ process' # process
        /\ \E muted, ready \in BOOLEAN : speech' = attached(muted, ready)
    BY DEF Crash, Relaunch
  <1>2. /\ Ready' /\ Len(utterances') = Len(utterances) /\ ActiveAttempts' = ActiveAttempts
        /\ ReadyHasAudio'
    BY <1>1, AttemptFinalOnDisk DEF SpeechInv, Ready, Operations, ActiveAttempts, attemptOf
  <1>3. PICK muted \in BOOLEAN, ready \in BOOLEAN : speech' = attached(muted, ready)
    BY <1>1
  <1>4. (quiet(speech) /\ ~speech.resumed)'
    <2> DEFINE s == attached(muted, ready)
    <2>1. /\ s \in Coordinator /\ s.attachedTo = Len(utterances)
          /\ s.known = Len(utterances) /\ s.resumed = FALSE /\ s.queue = <<>>
          /\ s.drain = 0 /\ s.operation = noOperation /\ s.stage = "none"
          /\ s.cancelled = FALSE /\ s.finalizer = noFinalizer /\ s.control = noCall
          /\ s.player = "idle"
      BY AttachedFields, ZenonT(60) DEF SpeechInv
    <2>2. speech' = s
      BY <1>3
    <2> HIDE DEF s
    <2> QED BY <1>2, <2>1, <2>2 DEF quiet
  <1>5. good(speech)'
    <2>1. (Ready /\ quiet(speech) /\ ~speech.resumed)'
      BY <1>2, <1>4
    <2> QED BY <2>1, QuietGood, PTL
  <1> QED BY <1>1, <1>2, <1>5 DEF SpeechInv

\* Recovery settles the active attempt, or the save of its outcome is lost.
LEMMA ResumeKeeps ==
    ASSUME SpeechInv, ResumePendingWork \/ ResumeFails
    PROVE  SpeechInv' /\ speech'.operation = speech.operation
  <1>1. /\ finalAudio' = finalAudio /\ process' = process
        /\ speech' = [speech EXCEPT !.resumed = TRUE] /\ ~speech.resumed
        /\ speech \in Coordinator /\ good(speech)
    BY DEF SpeechInv, good, wellFormed, ResumePendingWork, ResumeFails
  <1>2. /\ Ready' /\ ReadyHasAudio' /\ Len(utterances') = Len(utterances)
        /\ DOMAIN utterances' = DOMAIN utterances /\ Operations' = Operations
        /\ \A o, p \in ActiveAttempts' : o = p
        /\ lostSave' \/ ActiveAttempts' = {}
        /\ lostSave' \in BOOLEAN
    <2>1. CASE ResumeFails
      BY <2>1, <1>1, AttemptFinalOnDisk
      DEF ResumeFails, SpeechInv, Ready, Operations, ActiveAttempts, attemptOf
    <2>2. CASE ResumePendingWork /\ ActiveAttempts = {} /\ UNCHANGED utterances
      BY <2>2, <1>1, AttemptFinalOnDisk
      DEF ResumePendingWork, SpeechInv, Ready, Operations, ActiveAttempts, attemptOf
    <2>3. CASE ResumePendingWork /\ \E o \in ActiveAttempts : \E outcome \in {"ready", "failed"} :
                   /\ outcome = "ready" => o \in finalAudio
                   /\ utterances' = recording(o, outcome)
      <3>1. PICK o \in ActiveAttempts, outcome \in {"ready", "failed"} :
                   /\ outcome = "ready" => o \in finalAudio
                   /\ utterances' = recording(o, outcome)
        BY <2>3
      <3>2. o \in Operations
        BY DEF ActiveAttempts
      <3>3. outcome \in {"authorized", "speaking", "ready", "stopped", "failed"}
            /\ outcome \notin {"authorized", "speaking"}
        OBVIOUS
      <3>4. /\ ReadyHasAudio' /\ Ready'
            /\ Len(utterances') = Len(utterances) /\ DOMAIN utterances' = DOMAIN utterances
            /\ Operations' = Operations
            /\ ActiveAttempts' = (ActiveAttempts \ {o})
                                \cup (IF outcome \in {"authorized", "speaking"} THEN {o} ELSE {})
        BY <1>1, <3>1, <3>2, <3>3, RecordedHasAudio
      <3>5. ActiveAttempts' = {}
        BY <3>3, <3>4 DEF SpeechInv
      <3>6. lostSave' = FALSE
        BY <2>3 DEF ResumePendingWork
      <3> QED BY <3>4, <3>5, <3>6
    <2> QED BY <2>1, <2>2, <2>3 DEF ResumePendingWork
  <1>3. /\ speech' \in Coordinator /\ same([speech' EXCEPT !.resumed = FALSE], speech)
        /\ speech'.resumed /\ speech'.operation = noOperation /\ speech'.stage = "none"
        /\ speech'.finalizer = noFinalizer /\ speech'.drain = 0 /\ speech'.control = noCall
        /\ speech'.player = "idle" /\ speech'.queue = speech.queue /\ speech'.cancelled = speech.cancelled
        /\ speech'.attachedTo = speech.attachedTo /\ speech'.known = speech.known
    <2>1. /\ speech.operation = noOperation /\ speech.stage = "none"
          /\ speech.finalizer = noFinalizer /\ speech.drain = 0 /\ speech.control = noCall
          /\ speech.player = "idle"
      BY <1>1 DEF good, owned, wellFormed
    <2> QED BY <1>1, <2>1, ZenonT(60) DEF Coordinator, same, sameCalls, sameQueue, sameOperation
  <1>4. noOperation \notin Operations /\ ~speech.cancelled
    BY <1>1, NoOperationIsNone DEF SpeechInv, good, owned, noFinalizer
  <1>5. wellFormed(speech)'
    BY <1>2, <1>3 DEF wellFormed, noFinalizer, noCall
  <1>6. owned(speech)'
    BY <1>2, <1>3, <1>4 DEF owned, noFinalizer, noCall
  <1>7. heard(speech)'
    BY <1>3, <1>4 DEF heard, noFinalizer
  <1>8. hasFinalAudio(speech)'
    BY <1>3 DEF hasFinalAudio
  <1>9. inOrder(speech)'
    BY <1>1, <1>2, <1>3 DEF good, inOrder
  <1>10. good(speech)'
    BY <1>5, <1>6, <1>7, <1>8, <1>9 DEF good
  <1>11. speech'.operation = speech.operation
    BY <1>3 DEF same, sameOperation, Coordinator
  <1> QED BY <1>1, <1>2, <1>10, <1>11 DEF SpeechInv

-----------------------------------------------------------------------------
(* Every step *)

VolatileGeneration ==
    \/ GenerationPrepared \/ GenerationOpens \/ FirstChunkArrives \/ ChunkEnqueued
    \/ AudioDrained \/ GenerationFails \/ PartialDiscarded \/ GenerationCancelled
VolatileStop == Stop \/ SetMuted \/ RemoveModel \/ FinalizerCancels \/ FinalizerJoins \/ StopperEndsCycle
VolatileModel ==
    ReadinessWithdrawn \/ RefreshReadiness \/ PrepareModel \/ PrepareReturns \/ RemoveReturns
VolatileControl == Retry \/ RetryRefused \/ Play \/ PlayValidated \/ PlayStarts \/ PlayReturns
VolatileQueue == DrainRefused \/ DrainRetryFires \/ ObserveNewlyPersistedSnapshot

OutcomeStep ==
    \/ SpeakingSaved \/ ReadySaved \/ ReadyRefused \/ FailureSaved \/ FailureRefused
    \/ StopSaved \/ StopRefused \/ AudioFinalized

\* Next, sorted by what a step does to the manifest
LEMMA NextCases ==
    ASSUME Next
    PROVE  \/ VolatileGeneration \/ VolatileStop \/ VolatileModel \/ VolatileControl
           \/ VolatileQueue \/ GenerationDidFinish
           \/ OutcomeStep \/ TurnPersisted \/ DrainAuthorized \/ RetryAuthorized
           \/ Crash \/ Relaunch \/ ResumePendingWork \/ ResumeFails
  BY DEF Next, GenerationStep, StopStep, QueueStep, ControlStep, ModelStep,
         VolatileGeneration, VolatileStop, VolatileModel, VolatileControl, VolatileQueue,
         OutcomeStep

\* None of the steps that save nothing replaces the operation.
LEMMA VolatileSteps ==
    ASSUME SpeechInv,
           \/ VolatileGeneration \/ VolatileStop \/ VolatileModel \/ VolatileControl
           \/ VolatileQueue
    PROVE  SpeechInv' /\ speech'.operation = speech.operation /\ Volatile
  <1>1. good(speech) /\ Ready
    BY DEF SpeechInv
  <1>2. CASE VolatileGeneration
    <2>1. Running /\ Volatile
      BY <1>2 DEF VolatileGeneration, GenerationPrepared, GenerationOpens, FirstChunkArrives,
                  ChunkEnqueued, AudioDrained, GenerationFails, PartialDiscarded,
                  GenerationCancelled
    <2>2. keeps(speech', speech)
      BY <1>1, <1>2, <2>1, GenerationMoves DEF VolatileGeneration
    <2> QED BY <2>1, <2>2, VolatileKeeps DEF keeps
  <1>3. CASE VolatileStop
    <2>1. Running /\ Volatile
      BY <1>3 DEF VolatileStop, Stop, SetMuted, RemoveModel, FinalizerCancels,
                  FinalizerJoins, StopperEndsCycle
    <2>2. keeps(speech', speech)
      BY <1>1, <1>3, <2>1, StopsKeep, FinalizerMoves DEF VolatileStop
    <2> QED BY <2>1, <2>2, VolatileKeeps DEF keeps
  <1>4. CASE VolatileModel
    <2>1. Running /\ Volatile
      BY <1>4 DEF VolatileModel, ReadinessWithdrawn, RefreshReadiness, PrepareModel,
                  PrepareReturns, RemoveReturns
    <2>2. keeps(speech', speech)
      BY <1>1, <1>4, <2>1, ModelMoves, SMTT(30) DEF VolatileModel
    <2> QED BY <2>1, <2>2, VolatileKeeps DEF keeps
  <1>5. CASE VolatileControl
    <2>1. Running /\ Volatile
      BY <1>5 DEF VolatileControl, Retry, RetryRefused, Play, PlayValidated, PlayStarts,
                  PlayReturns
    <2>2. keeps(speech', speech)
      BY <1>1, <1>5, <2>1, ControlMoves DEF VolatileControl
    <2> QED BY <2>1, <2>2, VolatileKeeps DEF keeps
  <1>6. CASE VolatileQueue
    <2>1. Running /\ Volatile
      BY <1>6 DEF VolatileQueue, DrainRefused, DrainRetryFires, ObserveNewlyPersistedSnapshot
    <2>2. keeps(speech', speech)
      BY <1>1, <1>6, <2>1, DrainMoves, ObserveMoves DEF VolatileQueue
    <2> QED BY <2>1, <2>2, VolatileKeeps DEF keeps
  <1> QED BY <1>2, <1>3, <1>4, <1>5, <1>6

\* None of the saved or refused outcomes replaces the operation.
LEMMA OutcomeSteps ==
    ASSUME SpeechInv, OutcomeStep
    PROVE  SpeechInv' /\ speech'.operation = speech.operation
  BY SpeakingSavedKeeps, OutcomeSavedKeeps, OutcomeRefusedKeeps, StopReturnsKeeps,
     AudioFinalizedKeeps DEF OutcomeStep

\* Nothing moves.
LEMMA StutterKeeps == ASSUME SpeechInv, UNCHANGED vars PROVE SpeechInv'
  <1>1. Volatile /\ speech' = speech
    BY DEF vars, Volatile
  <1>2. good(speech')
    BY <1>1 DEF SpeechInv
  <1> QED BY <1>1, <1>2, VolatileKeeps

\* The last step of a generation
LEMMA FinishKeeps ==
    ASSUME SpeechInv, GenerationDidFinish
    PROVE  SpeechInv' /\ speech'.operation = noOperation /\ Volatile
  <1>1. good(speech') /\ speech'.operation = noOperation
    BY GenerationEnds DEF SpeechInv
  <1>2. Volatile
    BY DEF GenerationDidFinish
  <1> QED BY <1>1, <1>2, VolatileKeeps

\* Every step keeps the invariant, and replaces the operation only by none.
LEMMA StepKeeps ==
    ASSUME SpeechInv, [Next]_vars
    PROVE  /\ SpeechInv'
           /\ speech.operation # speech'.operation
              => noOperation \in {speech.operation, speech'.operation} \/ process' # process
  <1>1. CASE UNCHANGED vars
    BY <1>1, StutterKeeps DEF vars
  <1>2. CASE VolatileGeneration \/ VolatileStop \/ VolatileModel \/ VolatileControl \/ VolatileQueue
    BY <1>2, VolatileSteps
  <1>3. CASE GenerationDidFinish
    BY <1>3, FinishKeeps
  <1>4. CASE OutcomeStep
    BY <1>4, OutcomeSteps
  <1>5. CASE TurnPersisted
    BY <1>5, TurnPersistedKeeps
  <1>6. CASE DrainAuthorized
    BY <1>6, DrainAuthorizedKeeps
  <1>7. CASE RetryAuthorized
    BY <1>7, RetryAuthorizedKeeps
  <1>8. CASE Crash \/ Relaunch
    BY <1>8, CrashOrRelaunchKeeps
  <1>9. CASE ResumePendingWork \/ ResumeFails
    BY <1>9, ResumeKeeps
  <1> QED BY <1>1, <1>2, <1>3, <1>4, <1>5, <1>6, <1>7, <1>8, <1>9, NextCases

\* In every state of the coordinator, in every interleaving of its tasks, saves,
\* faults and crashes, the inductive invariant holds.
THEOREM SpeechIsInvariant == Spec => []SpeechInv
  <1>1. Init => SpeechInv
    BY InitSpeech
  <1>2. SpeechInv /\ [Next]_vars => SpeechInv'
    BY StepKeeps
  <1> QED BY <1>1, <1>2, PTL DEF Spec

\* The manifest and the coordinator's fields keep their types, and the active
\* operation is an attempt of the manifest.
THEOREM TypeCorrect == Spec => []TypeOK
  <1>1. SpeechInv => TypeOK
    BY DEF SpeechInv, TypeOK, Ready, good, wellFormed
  <1> QED BY <1>1, SpeechIsInvariant, PTL

\* One voice: what is audible belongs to the active operation, whose attempt the
\* manifest shows speaking, or to the one play call (stop, beginStreaming, play).
THEOREM SoundIsOwned == Spec => []SoundHasOwner
  <1>1. SpeechInv => SoundHasOwner
    BY DEF SpeechInv, SoundHasOwner, good, heard
  <1> QED BY <1>1, SpeechIsInvariant, PTL

\* An attempt the manifest shows active has a task or a finalizer that will
\* record its outcome, unless that outcome's save failed.
THEOREM AttemptsAreOwned == Spec => []ActiveAttemptsAreOwned
  <1>1. SpeechInv => ActiveAttemptsAreOwned
    BY DEF SpeechInv, ActiveAttemptsAreOwned, Running, good, owned
  <1> QED BY <1>1, SpeechIsInvariant, PTL

\* The manifest calls an attempt ready only after its WAV was renamed into place,
\* recovery included.
THEOREM ReadyIsOnDisk == Spec => []ReadyHasAudio
  <1>1. SpeechInv => ReadyHasAudio
    BY DEF SpeechInv
  <1> QED BY <1>1, SpeechIsInvariant, PTL

\* At most one synthesis attempt of the whole session is active, although Retry
\* and the drain await their authorizations side by side.
THEOREM OneActiveAttempt == Spec => [](Cardinality(ActiveAttempts) <= 1)
  <1>1. SpeechInv => Cardinality(ActiveAttempts) <= 1
    <2> SUFFICES ASSUME SpeechInv PROVE Cardinality(ActiveAttempts) <= 1
      OBVIOUS
    <2>1. CASE ActiveAttempts = {}
      BY <2>1, FS_EmptySet
    <2>2. CASE ActiveAttempts # {}
      <3>1. PICK o : o \in ActiveAttempts
        BY <2>2
      <3>2. ActiveAttempts = {o}
        BY <3>1 DEF SpeechInv
      <3> QED BY <3>2, FS_Singleton
    <2> QED BY <2>1, <2>2
  <1> QED BY <1>1, SpeechIsInvariant, PTL

\* No generation replaces another: Stop and Mute never lose the handle of the
\* task they have to cancel.
THEOREM OperationKeepsItsHandle == Spec => OperationIsNeverReplaced
  <1>1. SpeechInv /\ [Next]_vars =>
            [speech.operation # speech'.operation
             => noOperation \in {speech.operation, speech'.operation} \/ process' # process]_vars
    BY StepKeeps
  <1> QED BY <1>1, SpeechIsInvariant, PTL DEF Spec, OperationIsNeverReplaced

-----------------------------------------------------------------------------
(* Automatic speech *)

speaksInOrder ==
    \A t \in DOMAIN utterances :
          utterances[t].attempts = <<>> /\ utterances'[t].attempts # <<>>
          /\ utterances'[t].attempts[1].by = "automatic"
          => /\ t > speech.attachedTo
             /\ \A i \in DOMAIN speech.queue : t <= speech.queue[i]

\* An outcome gives no turn its first attempt.
LEMMA RecordingSpeaksInOrder ==
    ASSUME SpeechInv, NEW o \in Operations,
           NEW state \in {"authorized", "speaking", "ready", "stopped", "failed"},
           utterances' = recording(o, state)
    PROVE  speaksInOrder
  <1>1. \A t \in DOMAIN utterances : utterances'[t].attempts = <<>> <=> utterances[t].attempts = <<>>
    BY RecordingStep DEF SpeechInv
  <1> QED BY <1>1 DEF speaksInOrder

\* Neither does any step of a generation or of its stop.
LEMMA OutcomeSpeaksInOrder ==
    ASSUME SpeechInv, OutcomeStep
    PROVE  speaksInOrder
  <1>1. CASE UNCHANGED utterances
    BY <1>1 DEF speaksInOrder
  <1>2. CASE SpeakingSaved \/ ReadySaved \/ FailureSaved
    <2>1. speech.stage # "none"
      BY <1>2 DEF SpeakingSaved, ReadySaved, FailureSaved
    <2>2. speech.operation \in Operations
      BY <2>1 DEF SpeechInv, good, wellFormed
    <2>3. PICK o \in Operations : o = speech.operation
      BY <2>2
    <2>4. PICK state \in {"speaking", "ready", "failed"} : utterances' = recording(o, state)
      BY <1>2, <2>3 DEF SpeakingSaved, ReadySaved, FailureSaved
    <2>5. state \in {"authorized", "speaking", "ready", "stopped", "failed"}
      OBVIOUS
    <2> QED BY <2>4, <2>5, RecordingSpeaksInOrder
  <1>3. CASE StopSaved
    <2>1. speech.finalizer.stage = "saving" /\ utterances' = recording(speech.finalizer.operation, "stopped")
      BY <1>3 DEF StopSaved
    <2>2. speech.finalizer.operation \in Operations
      BY <2>1 DEF SpeechInv, good, wellFormed, noFinalizer
    <2>3. PICK o \in Operations : o = speech.finalizer.operation
      BY <2>2
    <2>4. "stopped" \in {"authorized", "speaking", "ready", "stopped", "failed"}
          /\ utterances' = recording(o, "stopped")
      BY <2>1, <2>3
    <2> QED BY <2>4, RecordingSpeaksInOrder
  <1> QED BY <1>1, <1>2, <1>3 DEF OutcomeStep, ReadyRefused, FailureRefused, StopRefused, AudioFinalized

\* An automatic first attempt is in order when its turn was.
LEMMA AuthorizingSpeaksInOrder ==
    ASSUME SpeechInv, NEW t \in DOMAIN utterances, NEW by \in {"automatic", "user"}, NEW initial,
           mayAuthorize(t, initial), utterances' = authorizing(t, by),
           by = "automatic" => /\ t > speech.attachedTo
                               /\ \A i \in DOMAIN speech.queue : t <= speech.queue[i]
    PROVE  speaksInOrder
  <1>1. PICK n : n = Len(utterances[t].attempts)
    OBVIOUS
  <1>2. PICK o : o = <<t, n + 1>>
    OBVIOUS
  <1>3. n < MaxAttempts /\ Ready
    BY <1>1 DEF mayAuthorize, SpeechInv
  <1>4. /\ \A x \in DOMAIN utterances : x # t => utterances'[x] = utterances[x]
        /\ utterances[t].attempts = <<>> => utterances'[t].attempts[1].by = by
    BY <1>1, <1>2, <1>3, AuthorizingStep
  <1> QED BY <1>4 DEF speaksInOrder

\* Of all the steps only the drain's speaks by itself, and it picks the first of
\* the turns observed after attach.
LEMMA StepSpeaksInOrder ==
    ASSUME SpeechInv, [Next]_vars
    PROVE  [speaksInOrder]_vars
  <1>1. CASE UNCHANGED utterances
    BY <1>1 DEF speaksInOrder
  <1>2. CASE OutcomeStep
    BY <1>2, OutcomeSpeaksInOrder
  <1>3. CASE TurnPersisted
    <2>1. \A t \in DOMAIN utterances : utterances'[t] = utterances[t]
      BY <1>3, TurnPersistedStep DEF TurnPersisted, SpeechInv
    <2> QED BY <2>1 DEF speaksInOrder
  <1>4. CASE DrainAuthorized
    <2>1. /\ speech.drain # 0 /\ mayAuthorize(speech.drain, TRUE)
          /\ utterances' = authorizing(speech.drain, "automatic")
      BY <1>4 DEF DrainAuthorized
    <2>2. /\ speech.drain \in DOMAIN utterances /\ speech.drain \in Nat
          /\ speech.drain \in (speech.attachedTo + 1)..speech.known
          /\ \A i \in DOMAIN speech.queue : speech.drain <= speech.queue[i]
          /\ speech.attachedTo \in Nat /\ speech.known \in Nat
      BY <2>1 DEF SpeechInv, good, wellFormed, inOrder, Coordinator
    <2>3. PICK t \in DOMAIN utterances : t = speech.drain
      BY <2>2
    <2>4. t > speech.attachedTo /\ \A i \in DOMAIN speech.queue : t <= speech.queue[i]
      BY <2>2, <2>3
    <2>5. mayAuthorize(t, TRUE) /\ utterances' = authorizing(t, "automatic")
      BY <2>1, <2>3
    <2> QED BY <2>4, <2>5, AuthorizingSpeaksInOrder
  <1>5. CASE RetryAuthorized
    <2>1. PICK t \in DOMAIN utterances : t = speech.control.turn
      BY <1>5 DEF RetryAuthorized, SpeechInv, good, wellFormed
    <2>2. mayAuthorize(t, speech.control.initial) /\ utterances' = authorizing(t, "user")
      BY <1>5, <2>1 DEF RetryAuthorized
    <2> QED BY <2>2, AuthorizingSpeaksInOrder
  <1>6. CASE ResumePendingWork
    <2>1. CASE UNCHANGED utterances
      BY <2>1, <1>1
    <2>2. CASE \E o \in ActiveAttempts : \E outcome \in {"ready", "failed"} :
                    utterances' = recording(o, outcome)
      <3>1. PICK o \in ActiveAttempts, outcome \in {"ready", "failed"} :
                    utterances' = recording(o, outcome)
        BY <2>2
      <3>2. o \in Operations /\ outcome \in {"authorized", "speaking", "ready", "stopped", "failed"}
        BY DEF ActiveAttempts
      <3> QED BY <3>1, <3>2, RecordingSpeaksInOrder
    <2> QED BY <1>6, <2>1, <2>2 DEF ResumePendingWork
  <1>7. CASE VolatileGeneration \/ VolatileStop \/ VolatileModel \/ VolatileControl \/ VolatileQueue
    BY <1>1, <1>7, VolatileSteps DEF Volatile
  <1>8. CASE GenerationDidFinish \/ Crash \/ Relaunch \/ ResumeFails
    BY <1>1, <1>8 DEF GenerationDidFinish, Volatile, Crash, Relaunch, ResumeFails
  <1> QED BY <1>1, <1>2, <1>3, <1>4, <1>5, <1>6, <1>7, <1>8, NextCases DEF vars

\* Restored history is never spoken by itself, and new turns are spoken in the
\* order in which they were persisted.
THEOREM NewTurnsAreSpokenInOrder == Spec => SpeaksNewTurnsInOrder
  <1>1. SpeechInv /\ [Next]_vars => [speaksInOrder]_vars
    BY StepSpeaksInOrder
  <1> QED BY <1>1, SpeechIsInvariant, PTL DEF Spec, SpeaksNewTurnsInOrder, speaksInOrder
=============================================================================
