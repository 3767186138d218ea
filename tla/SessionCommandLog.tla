------------------------- MODULE SessionCommandLog -------------------------
(***************************************************************************)
(* Command IDs, receipts and the compare-and-swap save around the commands *)
(* of InterviewRoomSession (start, restore, apply and persist).            *)
(*                                                                         *)
(* Several actors may hold a session over one store: relaunched processes, *)
(* or two that run at once.  Each works on the manifest it last saved or   *)
(* loaded.  Callers retry a command ID after an error, and may reuse one.  *)
(* The store is the atomic register of module SessionManifestStore; what a *)
(* command changes besides its receipt is module InterviewRoomSession.     *)
(* A command its guards refuse throws and changes nothing here.            *)
(***************************************************************************)
EXTENDS Integers, Sequences, SequencesExt

CONSTANTS
    Instances,    \* session actors, each in a process of its own
    Commands,     \* command IDs
    Payloads,     \* payload fingerprints
    HandOffs,     \* payloads after whose save the actor calls the provider
    Evaluations,  \* payloads of authorizeEndpointEvaluation
    Context,      \* the context fingerprint of each evaluation payload
    MaxRevision   \* bound on the manifest's revision

ASSUME PayloadsAssumption ==
    /\ HandOffs \subseteq Payloads
    /\ Evaluations \subseteq Payloads
    /\ HandOffs \cap Evaluations = {}
ASSUME RevisionAssumption == MaxRevision \in Nat

VARIABLES
    stored,    \* the durable manifest
    session,   \* the manifest each actor holds, nil before start or restore
    call,      \* what each actor is executing
    answer,    \* what its last call told the caller
    effects    \* history: the external effects callers and actors went on to

logVars == <<stored, session, call, answer, effects>>

Receipt  == [command : Commands, payload : Payloads, revision : Nat]
Manifest == [revision : Nat, applied : Seq(Receipt)]
nil      == [revision |-> -1, applied |-> <<>>]   \* no manifest, revision nil
first    == [revision |-> 0, applied |-> <<>>]

Entry == [command : Commands, payload : Payloads]

\* What an actor is executing.  A hand off saves twice: kind "command", then,
\* once the provider responded, kind "response".
idle     == [stage |-> "idle"]
starting == [stage |-> "starting"]
Work == [stage : {"saving", "saved", "refused", "responding"},
         kind  : {"command", "receipt", "response"},
         entry : Entry,
         next  : Manifest]

noAnswer == [result |-> "none"]
Answer == [entry  : Entry,
           result : {"accepted", "alreadyApplied", "commandIDReused",
                     "endpointContextFingerprintReused", "failed"}]

appliedCommands(m) == {m.applied[n] : n \in DOMAIN m.applied}
knows(m, c) == \E r \in appliedCommands(m) : r.command = c

sameContext(p, q) == p \in Evaluations /\ q \in Evaluations /\ Context[p] = Context[q]

\* the receipts that evaluated p's context
contextReceipts(m, p) == {r \in appliedCommands(m) : sameContext(r.payload, p)}

appendingReceipt(m, e) ==
    [revision |-> m.revision + 1,
     applied  |-> Append(m.applied, [command |-> e.command, payload |-> e.payload,
                                     revision |-> m.revision + 1])]

receiptsAreValid(m) ==
    /\ \A r, s \in DOMAIN m.applied :
           m.applied[r].command = m.applied[s].command => r = s
    /\ \A r \in appliedCommands(m) : r.revision > 0 /\ r.revision <= m.revision

reply(i, e, result) == answer' = [answer EXCEPT ![i] = [entry |-> e, result |-> result]]

\* `persist': the save is handed to the store and awaited
persist(i, kind, e, next) ==
    call' = [call EXCEPT ![i] = [stage |-> "saving", kind |-> kind, entry |-> e,
                                 next |-> next]]

Init ==
    /\ stored = nil
    /\ session = [i \in Instances |-> nil]
    /\ call = [i \in Instances |-> idle]
    /\ answer = [i \in Instances |-> noAnswer]
    /\ effects = <<>>

\* isExecutingCommand is false and there is a session to execute on
Accepting(i) == call[i] = idle /\ session[i] # nil

-----------------------------------------------------------------------------
(* Creating and restoring a session *)

Start(i) ==
    /\ call[i] = idle
    /\ session[i] = nil
    /\ stored = nil
    /\ call' = [call EXCEPT ![i] = starting]
    /\ UNCHANGED <<stored, session, answer, effects>>

\* the save of revision zero expects no manifest: of two that start, one throws
Create(i) ==
    /\ call[i] = starting
    /\ call' = [call EXCEPT ![i] = idle]
    /\ \/ /\ stored = nil
          /\ stored' = first
          /\ session' = [session EXCEPT ![i] = first]
       \/ UNCHANGED <<stored, session>>
    /\ UNCHANGED <<answer, effects>>

Restore(i) ==
    /\ call[i] = idle
    /\ session[i] = nil
    /\ stored # nil
    /\ receiptsAreValid(stored)
    /\ session' = [session EXCEPT ![i] = stored]
    /\ UNCHANGED <<stored, call, answer, effects>>

-----------------------------------------------------------------------------
(* apply *)

\* mutant: the payload of a known ID is not compared
ReplayAnyPayload(i, e) ==
    /\ Accepting(i)
    /\ knows(session[i], e.command)
    /\ reply(i, e, "alreadyApplied")
    /\ UNCHANGED <<stored, session, call, effects>>

\* the ID was applied before: nothing is executed again
Replay(i, e) ==
    /\ Accepting(i)
    /\ \E r \in appliedCommands(session[i]) :
           /\ r.command = e.command
           /\ reply(i, e, IF r.payload = e.payload THEN "alreadyApplied"
                          ELSE "commandIDReused")
    /\ UNCHANGED <<stored, session, call, effects>>

\* the context was evaluated under another ID: the receipt alone is saved
Deduplicate(i, e) ==
    /\ Accepting(i)
    /\ ~knows(session[i], e.command)
    /\ contextReceipts(session[i], e.payload) # {}
    /\ \A r \in contextReceipts(session[i], e.payload) : r.payload = e.payload
    /\ session[i].revision < MaxRevision
    /\ persist(i, "receipt", e, appendingReceipt(session[i], e))
    /\ UNCHANGED <<stored, session, answer, effects>>

\* the context was evaluated with other evidence
RefuseContext(i, e) ==
    /\ Accepting(i)
    /\ ~knows(session[i], e.command)
    /\ \E r \in contextReceipts(session[i], e.payload) : r.payload # e.payload
    /\ reply(i, e, "endpointContextFingerprintReused")
    /\ UNCHANGED <<stored, session, call, effects>>

\* mutant: the receipts are not looked up
ExecuteWithoutLookup(i, e) ==
    /\ Accepting(i)
    /\ session[i].revision < MaxRevision
    /\ persist(i, "command", e, appendingReceipt(session[i], e))
    /\ UNCHANGED <<stored, session, answer, effects>>

\* mutant: an evaluated context is evaluated again under a new ID
ExecuteKnownContext(i, e) ==
    /\ ~knows(session[i], e.command)
    /\ ExecuteWithoutLookup(i, e)

Execute(i, e) ==
    /\ Accepting(i)
    /\ ~knows(session[i], e.command)
    /\ contextReceipts(session[i], e.payload) = {}
    /\ session[i].revision < MaxRevision
    /\ persist(i, "command", e, appendingReceipt(session[i], e))
    /\ UNCHANGED <<stored, session, answer, effects>>

-----------------------------------------------------------------------------
(* persist: the store compares and swaps, and later the actor resumes *)

\* mutant: the last writer wins
SaveWithoutComparison(i) ==
    /\ call[i].stage = "saving"
    /\ stored' = call[i].next
    /\ call' = [call EXCEPT ![i].stage = "saved"]
    /\ UNCHANGED <<session, answer, effects>>

Save(i) ==
    /\ call[i].stage = "saving"
    /\ IF stored.revision = session[i].revision
       THEN /\ stored' = call[i].next
            /\ call' = [call EXCEPT ![i].stage = "saved"]
       ELSE /\ call' = [call EXCEPT ![i].stage = "refused"]
            /\ UNCHANGED stored
    /\ UNCHANGED <<session, answer, effects>>

SaveFails(i) ==
    /\ call[i].stage = "saving"
    /\ call' = [call EXCEPT ![i].stage = "refused"]
    /\ UNCHANGED <<stored, session, answer, effects>>

\* mutant: the actor adopts the manifest although its save threw
ResumeRefusedAdoptingNext(i) ==
    /\ call[i].stage = "refused"
    /\ session' = [session EXCEPT ![i] = call[i].next]
    /\ call' = [call EXCEPT ![i] = idle]
    /\ reply(i, call[i].entry, "failed")
    /\ UNCHANGED <<stored, effects>>

\* the save threw: the actor keeps the manifest it had
ResumeRefused(i) ==
    /\ call[i].stage = "refused"
    /\ call' = [call EXCEPT ![i] = idle]
    /\ reply(i, call[i].entry, "failed")
    /\ UNCHANGED <<stored, session, effects>>

\* a duplicate's receipt, or the interviewer's response, was saved
ResumeSaved(i) ==
    /\ call[i].stage = "saved"
    /\ call[i].kind # "command"
    /\ session' = [session EXCEPT ![i] = call[i].next]
    /\ call' = [call EXCEPT ![i] = idle]
    /\ reply(i, call[i].entry, IF call[i].kind = "receipt" THEN "alreadyApplied"
                               ELSE "accepted")
    /\ UNCHANGED <<stored, effects>>

\* the command was saved: a hand off asks the provider, and any other command
\* tells its caller to go ahead with the capture, upload or call it authorized
ResumeAuthorized(i) ==
    /\ call[i].stage = "saved"
    /\ call[i].kind = "command"
    /\ session' = [session EXCEPT ![i] = call[i].next]
    /\ effects' = Append(effects, call[i].entry)
    /\ IF call[i].entry.payload \in HandOffs
       THEN /\ call' = [call EXCEPT ![i].stage = "responding"]
            /\ UNCHANGED answer
       ELSE /\ call' = [call EXCEPT ![i] = idle]
            /\ reply(i, call[i].entry, "accepted")
    /\ UNCHANGED stored

\* the response is saved under the next revision, with no receipt of its own
Respond(i) ==
    /\ call[i].stage = "responding"
    /\ session[i].revision < MaxRevision
    /\ persist(i, "response", call[i].entry, [session[i] EXCEPT !.revision = @ + 1])
    /\ UNCHANGED <<stored, session, answer, effects>>

ProviderFails(i) ==
    /\ call[i].stage = "responding"
    /\ call' = [call EXCEPT ![i] = idle]
    /\ reply(i, call[i].entry, "failed")
    /\ UNCHANGED <<stored, session, effects>>

Crash(i) ==
    /\ session[i] # nil \/ call[i] # idle
    /\ session' = [session EXCEPT ![i] = nil]
    /\ call' = [call EXCEPT ![i] = idle]
    /\ answer' = [answer EXCEPT ![i] = noAnswer]
    /\ UNCHANGED <<stored, effects>>

Persist(i) ==
    \/ Save(i) \/ SaveFails(i) \/ ResumeRefused(i) \/ ResumeSaved(i)
    \/ ResumeAuthorized(i) \/ Respond(i) \/ ProviderFails(i)

Next ==
    \E i \in Instances :
        \/ Start(i) \/ Create(i) \/ Restore(i)
        \/ \E e \in Entry :
               Replay(i, e) \/ Deduplicate(i, e) \/ RefuseContext(i, e) \/ Execute(i, e)
        \/ Persist(i)
        \/ Crash(i)

Spec == Init /\ [][Next]_logVars

-----------------------------------------------------------------------------
(* Properties *)

LogTypeOK ==
    /\ stored \in Manifest \cup {nil}
    /\ session \in [Instances -> Manifest \cup {nil}]
    /\ call \in [Instances -> {idle, starting} \cup Work]
    /\ answer \in [Instances -> {noAnswer} \cup Answer]
    /\ effects \in Seq(Entry)

isEarlier(m, n) ==
    /\ m.revision <= n.revision
    /\ IsPrefix(m.applied, n.applied)
    /\ m.revision = n.revision => m = n

\* No actor works on a manifest the store never held: what it has cached is an
\* earlier state of the stored one, and the very same at the same revision, so
\* a save that passes the comparison loses nothing another actor wrote.
CachesAreEarlier == \A i \in Instances : session[i] # nil => isEarlier(session[i], stored)

\* Receipts stay as `validate' wants them at the next restore.
ReceiptsStayValid == receiptsAreValid(stored)

\* A caller told `accepted' or `alreadyApplied' can rely on it: its command is
\* in the durable manifest with its payload, through crashes and stale actors.
AnswersAreDurable ==
    \A i \in Instances :
        answer[i].result \in {"accepted", "alreadyApplied"} =>
            \E r \in appliedCommands(stored) :
                r.command = answer[i].entry.command /\ r.payload = answer[i].entry.payload

\* The durable log only grows: no receipt is dropped or rewritten.
LogOnlyGrows == [][IsPrefix(stored.applied, stored'.applied)]_logVars

\* An external effect follows the save that authorized it, never twice for a
\* command ID nor for an endpoint context, whichever actors, retries, reused
\* IDs and crashes come between.
Ledger == INSTANCE CommandLedger
    WITH ledger <- {[command |-> r.command, payload |-> r.payload] :
                       r \in appliedCommands(stored)}

KeepsTheLedger == Ledger!LedgerSpec
=============================================================================
