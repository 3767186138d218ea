------------------- MODULE FileSessionManifestStore_proofs -------------------
(***************************************************************************)
(* The file store implements the compare-and-swap register, for any number *)
(* of clients.  The argument is mutual exclusion of a writer: from the     *)
(* read to the rename the lock stays exclusive, so the comparison made at  *)
(* the read still holds at the rename, which is the point where the save   *)
(* takes effect.                                                           *)
(***************************************************************************)
EXTENDS FileSessionManifestStore, TLAPS

WriterExcludes ==
    \A c, d \in Clients : c # d /\ lock[c] = "exclusive" => lock[d] = "none"

\* what each place inside load and save knows
StepsAgree ==
    \A c \in Clients :
        /\ step[c] = "none" <=> request[c].op = "none"
        /\ step[c] = "unlocking" <=> request[c].outcome # "none"
        /\ request[c].op = "save" => request[c].manifest \in Manifest
        /\ step[c] \in {"none", "locking"} => lock[c] = "none"
        /\ step[c] \in {"preparing", "replacing"} => request[c].op = "save"
        /\ step[c] \in {"reading", "preparing", "replacing"} /\ request[c].op = "save"
               => lock[c] = "exclusive"
        /\ step[c] = "replacing" => prepared[c] = request[c].manifest

FileInv == FileTypeOK /\ WriterExcludes /\ StepsAgree /\ ComparedRevisionHolds

LEMMA NilIsNoManifest == nil \notin Manifest
  BY DEF nil, Manifest

LEMMA IdleIsRequest == idle \in Request /\ [idle EXCEPT !.op = "load"] \in Request
  <1>1. idle = [op |-> "none", manifest |-> nil, expected |-> -1, outcome |-> "none"]
    BY DEF idle
  <1>2. [idle EXCEPT !.op = "load"]
          = [op |-> "load", manifest |-> nil, expected |-> -1, outcome |-> "none"]
    BY <1>1
  <1>3. -1 \in Revision
    BY MaxRevisionAssumption DEF Revision
  <1> QED BY <1>1, <1>2, <1>3 DEF Request, Outcome

LEMMA OutcomeOfSave ==
  ASSUME NEW current, NEW manifest, NEW expected
  PROVE  saveOutcome(current, manifest, expected)
           \in {"revisionConflict", "nonMonotonicRevision", "saved"}
  BY DEF saveOutcome

\* No call has begun and no lock is held.
LEMMA FileInitInv == FileInit => FileInv
  <1> SUFFICES ASSUME FileInit PROVE FileInv
    OBVIOUS
  <1>1. FileTypeOK
    BY IdleIsRequest DEF FileInit, Init, FileTypeOK, Step
  <1>2. WriterExcludes /\ StepsAgree /\ ComparedRevisionHolds
    BY DEF FileInit, Init, WriterExcludes, StepsAgree, ComparedRevisionHolds, idle
  <1> QED BY <1>1, <1>2 DEF FileInv

\* Each step keeps every variable in its type.
LEMMA FileTypeStep ==
  ASSUME FileInv, [FileNext]_fileVars
  PROVE  FileTypeOK'
  <1> USE DEF FileInv
  <1>1. CASE UNCHANGED fileVars
    BY <1>1 DEF FileTypeOK, fileVars
  <1>2. ASSUME NEW c \in Clients, BeginLoad(c) PROVE FileTypeOK'
    BY <1>2, IdleIsRequest DEF FileTypeOK, BeginLoad, CallLoad, goTo, Step
  <1>3. ASSUME NEW c \in Clients, NEW manifest \in Manifest, NEW expected \in Revision,
               BeginSave(c, manifest, expected)
        PROVE  FileTypeOK'
    <2>1. [op |-> "save", manifest |-> manifest, expected |-> expected, outcome |-> "none"]
            \in Request
      BY DEF Request, Outcome
    <2> QED BY <1>3, <2>1 DEF FileTypeOK, BeginSave, CallSave, goTo, Step
  <1>4. ASSUME NEW c \in Clients, Acquire(c) PROVE FileTypeOK'
    BY <1>4 DEF FileTypeOK, Acquire, goTo, Step
  <1>5. ASSUME NEW c \in Clients, ReadForLoad(c) PROVE FileTypeOK'
    <2>1. [request[c] EXCEPT !.manifest = stored, !.outcome = "loaded"] \in Request
      BY DEF FileTypeOK, Request, Outcome
    <2>2. request' = [request EXCEPT ![c] =
                         [request[c] EXCEPT !.manifest = stored, !.outcome = "loaded"]]
      BY <1>5 DEF ReadForLoad, FileTypeOK, Request
    <2> QED BY <1>5, <2>1, <2>2 DEF FileTypeOK, ReadForLoad, goTo, Step
  <1>6. ASSUME NEW c \in Clients, ReadForSave(c) PROVE FileTypeOK'
    <2> DEFINE outcome == saveOutcome(stored, request[c].manifest, request[c].expected)
    <2>1. [request[c] EXCEPT !.outcome = outcome] \in Request
      BY OutcomeOfSave DEF FileTypeOK, Request, Outcome
    <2> HIDE DEF outcome
    <2>2. CASE outcome = "saved"
      BY <1>6, <2>2 DEF FileTypeOK, ReadForSave, goTo, Step, outcome
    <2>3. CASE outcome # "saved"
      BY <1>6, <2>1, <2>3 DEF FileTypeOK, ReadForSave, goTo, Step, answer, outcome
    <2> QED BY <2>2, <2>3
  <1>7. ASSUME NEW c \in Clients, Prepare(c) PROVE FileTypeOK'
    <2>1. request[c].manifest \in Manifest \cup {nil}
      BY DEF FileTypeOK, Request
    <2> QED BY <1>7, <2>1 DEF FileTypeOK, Prepare, goTo, Step
  <1>8. ASSUME NEW c \in Clients, Replace(c) PROVE FileTypeOK'
    <2>1. [request[c] EXCEPT !.outcome = "saved"] \in Request
      BY DEF FileTypeOK, Request, Outcome
    <2> QED BY <1>8, <2>1 DEF FileTypeOK, Replace, goTo, Step, answer
  <1>9. ASSUME NEW c \in Clients, FileFails(c) PROVE FileTypeOK'
    <2>1. [request[c] EXCEPT !.outcome = "failed"] \in Request
      BY DEF FileTypeOK, Request, Outcome
    <2> QED BY <1>9, <2>1 DEF FileTypeOK, FileFails, goTo, Step, answer
  <1>10. ASSUME NEW c \in Clients, Unlock(c) \/ KillProcess(c) PROVE FileTypeOK'
    BY <1>10, IdleIsRequest DEF FileTypeOK, Unlock, KillProcess, goTo, Step
  <1> QED
    BY <1>1, <1>2, <1>3, <1>4, <1>5, <1>6, <1>7, <1>8, <1>9, <1>10 DEF FileNext, FileStep

\* Each step keeps the lock exclusive to its writer, and what the steps know.
LEMMA FileLockStep ==
  ASSUME FileInv, [FileNext]_fileVars
  PROVE  WriterExcludes' /\ StepsAgree'
  <1> USE DEF FileInv
  <1>1. CASE UNCHANGED fileVars
    BY <1>1 DEF WriterExcludes, StepsAgree, fileVars
  <1>2. ASSUME NEW c \in Clients, BeginLoad(c) PROVE WriterExcludes' /\ StepsAgree'
    BY <1>2 DEF FileTypeOK, WriterExcludes, StepsAgree, BeginLoad, CallLoad, goTo, idle
  <1>3. ASSUME NEW c \in Clients, NEW manifest \in Manifest, NEW expected \in Revision,
               BeginSave(c, manifest, expected)
        PROVE  WriterExcludes' /\ StepsAgree'
    BY <1>3 DEF FileTypeOK, WriterExcludes, StepsAgree, BeginSave, CallSave, goTo
  <1>4. ASSUME NEW c \in Clients, Acquire(c) PROVE WriterExcludes' /\ StepsAgree'
    <2>1. WriterExcludes'
      BY <1>4 DEF FileTypeOK, WriterExcludes, Acquire
    <2>2. StepsAgree'
      BY <1>4 DEF FileTypeOK, StepsAgree, Acquire, goTo, Request
    <2> QED BY <2>1, <2>2
  <1>5. ASSUME NEW c \in Clients, ReadForLoad(c) PROVE WriterExcludes' /\ StepsAgree'
    BY <1>5 DEF FileTypeOK, WriterExcludes, StepsAgree, ReadForLoad, goTo, Request
  <1>6. ASSUME NEW c \in Clients, ReadForSave(c) PROVE WriterExcludes' /\ StepsAgree'
    <2> DEFINE outcome == saveOutcome(stored, request[c].manifest, request[c].expected)
    <2>1. outcome # "none"
      BY OutcomeOfSave
    <2> HIDE DEF outcome
    <2>2. CASE outcome = "saved"
      BY <1>6, <2>2
      DEF FileTypeOK, WriterExcludes, StepsAgree, ReadForSave, goTo, Request, outcome
    <2>3. CASE outcome # "saved"
      BY <1>6, <2>1, <2>3
      DEF FileTypeOK, WriterExcludes, StepsAgree, ReadForSave, goTo, answer, Request, outcome
    <2> QED BY <2>2, <2>3
  <1>7. ASSUME NEW c \in Clients, Prepare(c) PROVE WriterExcludes' /\ StepsAgree'
    BY <1>7 DEF FileTypeOK, WriterExcludes, StepsAgree, Prepare, goTo, Request
  <1>8. ASSUME NEW c \in Clients, Replace(c) PROVE WriterExcludes' /\ StepsAgree'
    BY <1>8 DEF FileTypeOK, WriterExcludes, StepsAgree, Replace, goTo, answer, Request
  <1>9. ASSUME NEW c \in Clients, FileFails(c) PROVE WriterExcludes' /\ StepsAgree'
    BY <1>9 DEF FileTypeOK, WriterExcludes, StepsAgree, FileFails, goTo, answer, Request
  <1>10. ASSUME NEW c \in Clients, Unlock(c) \/ KillProcess(c)
         PROVE  WriterExcludes' /\ StepsAgree'
    BY <1>10 DEF FileTypeOK, WriterExcludes, StepsAgree, Unlock, KillProcess, goTo, idle
  <1> QED
    BY <1>1, <1>2, <1>3, <1>4, <1>5, <1>6, <1>7, <1>8, <1>9, <1>10 DEF FileNext, FileStep

\* Only Replace changes the file, and while one client is about to, no other is.
LEMMA FileComparedStep ==
  ASSUME FileInv, [FileNext]_fileVars
  PROVE  ComparedRevisionHolds'
  <1> USE DEF FileInv
  <1>1. CASE UNCHANGED fileVars
    BY <1>1 DEF ComparedRevisionHolds, saveOutcome, fileVars
  <1>2. ASSUME NEW c \in Clients, Replace(c) PROVE ComparedRevisionHolds'
    <2> SUFFICES ASSUME NEW d \in Clients, step'[d] \in {"preparing", "replacing"}
                 PROVE  FALSE
      BY DEF ComparedRevisionHolds
    <2>1. step[c] = "replacing" /\ step'[c] = "unlocking"
      BY <1>2 DEF Replace, goTo, FileTypeOK
    <2>2. d # c /\ step[d] \in {"preparing", "replacing"}
      BY <1>2, <2>1 DEF Replace, goTo, FileTypeOK
    <2>3. lock[c] = "exclusive" /\ lock[d] = "exclusive"
      BY <2>1, <2>2 DEF StepsAgree
    <2> QED BY <2>2, <2>3 DEF WriterExcludes
  <1>3. ASSUME NEW c \in Clients, stored' = stored,
               \A d \in Clients \ {c} : request'[d] = request[d] /\ step'[d] = step[d],
               step'[c] \notin {"preparing", "replacing"}
        PROVE  ComparedRevisionHolds'
    BY <1>3 DEF ComparedRevisionHolds, saveOutcome
  <1>4. ASSUME NEW c \in Clients, BeginLoad(c) PROVE ComparedRevisionHolds'
    BY <1>3, <1>4 DEF BeginLoad, CallLoad, goTo, FileTypeOK
  <1>5. ASSUME NEW c \in Clients, NEW manifest \in Manifest, NEW expected \in Revision,
               BeginSave(c, manifest, expected)
        PROVE  ComparedRevisionHolds'
    BY <1>3, <1>5 DEF BeginSave, CallSave, goTo, FileTypeOK
  <1>6. ASSUME NEW c \in Clients,
               Acquire(c) \/ ReadForLoad(c) \/ FileFails(c) \/ Unlock(c) \/ KillProcess(c)
        PROVE  ComparedRevisionHolds'
    BY <1>3, <1>6
    DEF Acquire, ReadForLoad, FileFails, Unlock, KillProcess, goTo, answer, FileTypeOK
  <1>7. ASSUME NEW c \in Clients, ReadForSave(c) PROVE ComparedRevisionHolds'
    <2>1. CASE saveOutcome(stored, request[c].manifest, request[c].expected) = "saved"
      BY <1>7, <2>1 DEF ReadForSave, goTo, FileTypeOK, ComparedRevisionHolds, saveOutcome
    <2>2. CASE saveOutcome(stored, request[c].manifest, request[c].expected) # "saved"
      BY <1>3, <1>7, <2>2 DEF ReadForSave, goTo, answer, FileTypeOK
    <2> QED BY <2>1, <2>2
  <1>8. ASSUME NEW c \in Clients, Prepare(c) PROVE ComparedRevisionHolds'
    BY <1>8 DEF Prepare, goTo, FileTypeOK, ComparedRevisionHolds, saveOutcome
  <1> QED
    BY <1>1, <1>2, <1>4, <1>5, <1>6, <1>7, <1>8 DEF FileNext, FileStep

LEMMA FileInvariant == FileSpec => []FileInv
  <1>1. FileInv /\ [FileNext]_fileVars => FileInv'
    BY FileTypeStep, FileLockStep, FileComparedStep DEF FileInv
  <1> QED BY FileInitInv, <1>1, PTL DEF FileSpec

\* Between the comparison and the rename nobody replaces the file.
THEOREM ComparisonStands == FileSpec => []ComparedRevisionHolds
  <1>1. FileInv => ComparedRevisionHolds
    BY DEF FileInv
  <1> QED BY FileInvariant, <1>1, PTL

\* A save that is reported as done replaced the revision its caller expected,
\* with the manifest its caller gave.
THEOREM NoLostUpdate == FileSpec => SavesReplaceWhatTheySaw
  <1> DEFINE A == \A c \in Clients :
          request[c].outcome = "none" /\ request'[c].outcome = "saved" =>
              /\ stored.revision = request[c].expected
              /\ stored' = request[c].manifest
  <1>1. FileInv /\ [FileNext]_fileVars => [A]_fileVars
    <2> SUFFICES ASSUME FileInv, FileNext, NEW c \in Clients,
                        request[c].outcome = "none", request'[c].outcome = "saved"
                 PROVE  stored.revision = request[c].expected /\ stored' = request[c].manifest
      OBVIOUS
    <2> USE DEF FileInv
    <2>1. PICK d \in Clients :
              \/ BeginLoad(d)
              \/ \E manifest \in Manifest, expected \in Revision :
                     BeginSave(d, manifest, expected)
              \/ FileStep(d)
              \/ KillProcess(d)
      BY DEF FileNext
    <2>2. d = c
      BY <2>1 DEF FileTypeOK, BeginLoad, CallLoad, BeginSave, CallSave, FileStep, Acquire,
                  ReadForLoad, ReadForSave, Prepare, Replace, FileFails, Unlock, KillProcess,
                  answer
    <2>3. Replace(c)
      <3>1. ~BeginLoad(c) /\ ~KillProcess(c) /\ ~Unlock(c)
        BY DEF FileTypeOK, BeginLoad, CallLoad, KillProcess, Unlock, idle
      <3>2. ~Acquire(c) /\ ~Prepare(c) /\ ~FileFails(c)
        BY DEF FileTypeOK, Acquire, Prepare, FileFails, answer, Request
      <3>3. ~ReadForLoad(c) /\ ~ReadForSave(c)
        BY DEF FileTypeOK, ReadForLoad, ReadForSave, answer, Request
      <3>4. \A manifest, expected : ~BeginSave(c, manifest, expected)
        BY DEF FileTypeOK, BeginSave, CallSave
      <3> QED BY <2>1, <2>2, <3>1, <3>2, <3>3, <3>4 DEF FileStep
    <2>4. stored' = request[c].manifest
      BY <2>3 DEF Replace, StepsAgree
    <2>5. saveOutcome(stored, request[c].manifest, request[c].expected) = "saved"
      BY <2>3 DEF Replace, ComparedRevisionHolds
    <2> QED BY <2>4, <2>5 DEF saveOutcome
  <1> QED BY FileInvariant, <1>1, PTL DEF FileSpec, SavesReplaceWhatTheySaw

\* The file behaves as the atomic register: a load takes effect at its read, a
\* refused save at its comparison, an accepted one at its rename.
THEOREM FileImplements == FileSpec => Implements
  <1>1. FileInit => Init
    BY DEF FileInit
  <1>2. FileInv /\ [FileNext]_fileVars => [Next]_vars
    <2> SUFFICES ASSUME FileInv, [FileNext]_fileVars PROVE [Next]_vars
      OBVIOUS
    <2> USE DEF FileInv
    <2>1. CASE UNCHANGED fileVars
      BY <2>1 DEF fileVars, vars
    <2>2. ASSUME NEW c \in Clients, BeginLoad(c) PROVE Next
      BY <2>2 DEF BeginLoad, Next
    <2>3. ASSUME NEW c \in Clients, NEW manifest \in Manifest, NEW expected \in Revision,
                 BeginSave(c, manifest, expected)
          PROVE  Next
      BY <2>3 DEF BeginSave, Next
    <2>4. ASSUME NEW c \in Clients, Acquire(c) \/ Prepare(c) PROVE UNCHANGED vars
      BY <2>4 DEF Acquire, Prepare, vars
    <2>5. ASSUME NEW c \in Clients, ReadForLoad(c) PROVE Next
      <3>1. request[c].outcome = "none"
        BY <2>5 DEF ReadForLoad, StepsAgree
      <3> QED BY <2>5, <3>1 DEF ReadForLoad, Load, Next
    <2>6. ASSUME NEW c \in Clients, ReadForSave(c) PROVE [Next]_vars
      <3> DEFINE outcome == saveOutcome(stored, request[c].manifest, request[c].expected)
      <3>1. request[c].outcome = "none"
        BY <2>6 DEF ReadForSave, StepsAgree
      <3> HIDE DEF outcome
      <3>2. CASE outcome = "saved"
        BY <2>6, <3>2 DEF ReadForSave, vars, outcome
      <3>3. CASE outcome # "saved"
        <4>1. Save(c)
          BY <2>6, <3>1, <3>3 DEF ReadForSave, Save, answer, outcome
        <4> QED BY <4>1 DEF Next
      <3> QED BY <3>2, <3>3
    <2>7. ASSUME NEW c \in Clients, Replace(c) PROVE Next
      <3>1. request[c].outcome = "none" /\ request[c].op = "save"
        BY <2>7 DEF Replace, StepsAgree
      <3>2. saveOutcome(stored, request[c].manifest, request[c].expected) = "saved"
        BY <2>7 DEF Replace, ComparedRevisionHolds
      <3>3. stored' = request[c].manifest
        BY <2>7 DEF Replace, StepsAgree
      <3>4. Save(c)
        BY <2>7, <3>1, <3>2, <3>3 DEF Replace, Save, answer
      <3> QED BY <3>4 DEF Next
    <2>8. ASSUME NEW c \in Clients, FileFails(c) PROVE Next
      <3>1. request[c].outcome = "none" /\ request[c].op # "none"
        BY <2>8 DEF FileFails, StepsAgree
      <3> QED BY <2>8, <3>1 DEF FileFails, Fail, answer, Next
    <2>9. ASSUME NEW c \in Clients, Unlock(c) PROVE Next
      <3>1. request[c].outcome # "none"
        BY <2>9 DEF Unlock, StepsAgree
      <3> QED BY <2>9, <3>1 DEF Unlock, Return, Next
    <2>10. ASSUME NEW c \in Clients, KillProcess(c) PROVE Next
      <3>1. request[c].op # "none"
        BY <2>10 DEF KillProcess, StepsAgree
      <3> QED BY <2>10, <3>1 DEF KillProcess, Kill, Next
    <2> QED
      BY <2>1, <2>2, <2>3, <2>4, <2>5, <2>6, <2>7, <2>8, <2>9, <2>10 DEF FileNext, FileStep
  <1> QED BY FileInvariant, <1>1, <1>2, PTL DEF FileSpec, Implements, Spec
=============================================================================
