---------------------- MODULE FileSessionManifestStore ----------------------
(***************************************************************************)
(* FileSessionManifestStore: the manifest is one private file, replaced    *)
(* under an advisory lock on a second file (FileSessionManifestStore.swift).*)
(*                                                                         *)
(* flock is shared by readers and exclusive for a writer, and the kernel   *)
(* drops it when the process dies.  A save reads the file, compares the    *)
(* revision, writes a prepared file and renames it over the destination;   *)
(* a client killed in between leaves only its prepared file behind.        *)
(***************************************************************************)
EXTENDS SessionManifestStore

VARIABLES
    step,      \* where each client is inside load or save
    lock,      \* the mode in which each client holds the lock
    prepared   \* the prepared file of each client's save

fileVars == <<stored, request, step, lock, prepared>>

Step == {"none", "locking", "reading", "preparing", "replacing", "unlocking"}

FileInit ==
    /\ Init
    /\ step = [c \in Clients |-> "none"]
    /\ lock = [c \in Clients |-> "none"]
    /\ prepared = [c \in Clients |-> nil]

goTo(c, s) == step' = [step EXCEPT ![c] = s]
answer(c, outcome) == request' = [request EXCEPT ![c].outcome = outcome]

-----------------------------------------------------------------------------
BeginLoad(c) ==
    /\ CallLoad(c)
    /\ goTo(c, "locking")
    /\ UNCHANGED <<lock, prepared>>

BeginSave(c, manifest, expected) ==
    /\ CallSave(c, manifest, expected)
    /\ goTo(c, "locking")
    /\ UNCHANGED <<lock, prepared>>

\* mutant: a save takes the lock its load would take
AcquireShared(c) ==
    /\ step[c] = "locking"
    /\ \A d \in Clients : lock[d] # "exclusive"
    /\ lock' = [lock EXCEPT ![c] = "shared"]
    /\ goTo(c, "reading")
    /\ UNCHANGED <<stored, request, prepared>>

\* flock(LOCK_SH) for load, flock(LOCK_EX) for save
Acquire(c) ==
    /\ step[c] = "locking"
    /\ \A d \in Clients : IF request[c].op = "load" THEN lock[d] # "exclusive"
                          ELSE lock[d] = "none"
    /\ lock' = [lock EXCEPT ![c] = IF request[c].op = "load" THEN "shared" ELSE "exclusive"]
    /\ goTo(c, "reading")
    /\ UNCHANGED <<stored, request, prepared>>

ReadForLoad(c) ==
    /\ step[c] = "reading"
    /\ request[c].op = "load"
    /\ request' = [request EXCEPT ![c].manifest = stored, ![c].outcome = "loaded"]
    /\ goTo(c, "unlocking")
    /\ UNCHANGED <<stored, lock, prepared>>

\* mutant: the lock covers the comparison only
ReadForSaveThenUnlock(c) ==
    /\ step[c] = "reading"
    /\ request[c].op = "save"
    /\ LET outcome == saveOutcome(stored, request[c].manifest, request[c].expected)
       IN  IF outcome = "saved"
           THEN goTo(c, "preparing") /\ UNCHANGED request
           ELSE goTo(c, "unlocking") /\ answer(c, outcome)
    /\ lock' = [lock EXCEPT ![c] = "none"]
    /\ UNCHANGED <<stored, prepared>>

\* loadUnlocked inside saveUnlocked, and the two guards on what it read
ReadForSave(c) ==
    /\ step[c] = "reading"
    /\ request[c].op = "save"
    /\ LET outcome == saveOutcome(stored, request[c].manifest, request[c].expected)
       IN  IF outcome = "saved"
           THEN goTo(c, "preparing") /\ UNCHANGED request
           ELSE goTo(c, "unlocking") /\ answer(c, outcome)
    /\ UNCHANGED <<stored, lock, prepared>>

Prepare(c) ==
    /\ step[c] = "preparing"
    /\ prepared' = [prepared EXCEPT ![c] = request[c].manifest]
    /\ goTo(c, "replacing")
    /\ UNCHANGED <<stored, request, lock>>

\* mutant: something fails after the rename, and the save reports it
ReplaceThenFail(c) ==
    /\ step[c] = "replacing"
    /\ stored' = prepared[c]
    /\ prepared' = [prepared EXCEPT ![c] = nil]
    /\ answer(c, "failed")
    /\ goTo(c, "unlocking")
    /\ UNCHANGED lock

\* the atomic commit: nothing after it can fail
Replace(c) ==
    /\ step[c] = "replacing"
    /\ stored' = prepared[c]
    /\ prepared' = [prepared EXCEPT ![c] = nil]
    /\ answer(c, "saved")
    /\ goTo(c, "unlocking")
    /\ UNCHANGED lock

\* the lock, a read, the prepared file or the rename fails
FileFails(c) ==
    /\ step[c] \in {"locking", "reading", "preparing", "replacing"}
    /\ prepared' = [prepared EXCEPT ![c] = nil]
    /\ answer(c, "failed")
    /\ goTo(c, "unlocking")
    /\ UNCHANGED <<stored, lock>>

Unlock(c) ==
    /\ step[c] = "unlocking"
    /\ lock' = [lock EXCEPT ![c] = "none"]
    /\ request' = [request EXCEPT ![c] = idle]
    /\ goTo(c, "none")
    /\ UNCHANGED <<stored, prepared>>

\* mutant: the lock is a file that outlives the process
KillProcessKeepingLock(c) ==
    /\ step[c] # "none"
    /\ request' = [request EXCEPT ![c] = idle]
    /\ goTo(c, "none")
    /\ UNCHANGED <<stored, lock, prepared>>

\* the prepared file of a killed save stays where it is
KillProcess(c) ==
    /\ step[c] # "none"
    /\ lock' = [lock EXCEPT ![c] = "none"]
    /\ request' = [request EXCEPT ![c] = idle]
    /\ goTo(c, "none")
    /\ UNCHANGED <<stored, prepared>>

FileStep(c) ==
    \/ Acquire(c) \/ ReadForLoad(c) \/ ReadForSave(c) \/ Prepare(c) \/ Replace(c)
    \/ FileFails(c) \/ Unlock(c)

FileNext ==
    \E c \in Clients :
        \/ BeginLoad(c)
        \/ \E manifest \in Manifest, expected \in Revision : BeginSave(c, manifest, expected)
        \/ FileStep(c)
        \/ KillProcess(c)

FileSpec == FileInit /\ [][FileNext]_fileVars

\* flock blocks, but its holder always lets go: every step of save and load
\* returns or throws, and the kernel releases the lock of a dead process
FairFileSpec ==
    /\ FileSpec
    /\ \A c \in Clients : WF_fileVars(FileStep(c) /\ step[c] # "locking")
    /\ \A c \in Clients : SF_fileVars(Acquire(c))

-----------------------------------------------------------------------------
(* Properties *)

FileTypeOK ==
    /\ stored \in Manifest \cup {nil}
    /\ request \in [Clients -> Request]
    /\ step \in [Clients -> Step]
    /\ lock \in [Clients -> {"none", "shared", "exclusive"}]
    /\ prepared \in [Clients -> Manifest \cup {nil}]

\* What a save compared against is still on disk when its rename happens,
\* whatever other instances and processes do meanwhile (saveUnlocked).
ComparedRevisionHolds ==
    \A c \in Clients : step[c] \in {"preparing", "replacing"} =>
        saveOutcome(stored, request[c].manifest, request[c].expected) = "saved"

\* No update is lost: a save reported as done replaced exactly the revision
\* its caller had seen, so two callers that saw the same one cannot both win.
SavesReplaceWhatTheySaw ==
    [][\A c \in Clients :
          request[c].outcome = "none" /\ request'[c].outcome = "saved" =>
              /\ stored.revision = request[c].expected
              /\ stored' = request[c].manifest]_fileVars

\* The file is an atomic compare-and-swap register.
Implements == Spec

\* Every call returns: no interleaving of readers, writers and killed
\* processes leaves a client waiting on the lock for ever.
CallsReturn == \A c \in Clients : request[c].op # "none" ~> request[c].op = "none"
=============================================================================
