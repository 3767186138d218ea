----------------------- MODULE SessionCommandLog_proofs -----------------------
(***************************************************************************)
(* The receipts keep the command ledger, for any number of actors, command *)
(* IDs and payloads.  What every actor has cached is an earlier state of   *)
(* the stored manifest; a save that passes the comparison therefore starts *)
(* from the stored manifest itself, so the absence of a receipt, which the *)
(* actor looked up in its cache, is the absence of one in the store.       *)
(***************************************************************************)
EXTENDS SessionCommandLog, TLAPS

entries(m) == {[command |-> r.command, payload |-> r.payload] : r \in appliedCommands(m)}

\* what an actor knows at each stage of a command
workAgreesAt(i) ==
    /\ call[i] = starting => session[i] = nil
    /\ call[i] \in Work => session[i] # nil
    /\ call[i] \in Work /\ call[i].stage = "saving" =>
           /\ call[i].next.revision = session[i].revision + 1
           /\ call[i].kind = "response" =>
                  /\ call[i].next.applied = session[i].applied
                  /\ call[i].entry \in entries(stored)
           /\ call[i].kind # "response" =>
                  /\ call[i].next = appendingReceipt(session[i], call[i].entry)
                  /\ ~knows(session[i], call[i].entry.command)
           /\ call[i].kind = "command" =>
                  contextReceipts(session[i], call[i].entry.payload) = {}
    /\ call[i] \in Work /\ call[i].stage = "saved" => isEarlier(call[i].next, stored)
    /\ call[i] \in Work /\ call[i].stage \in {"saved", "responding"} =>
           call[i].entry \in entries(stored)

WorkAgrees == \A i \in Instances : workAgreesAt(i)

authorizes(i) == call[i] \in Work /\ call[i].stage = "saved" /\ call[i].kind = "command"
collide(d, e) == d.command = e.command \/ sameContext(d.payload, e.payload)

\* an actor about to authorize an effect is the first and only one to do so
EffectsAreFresh ==
    /\ \A n \in DOMAIN effects : effects[n] \in entries(stored)
    /\ \A i \in Instances, n \in DOMAIN effects :
           authorizes(i) => ~collide(effects[n], call[i].entry)
    /\ \A i, j \in Instances :
           authorizes(i) /\ authorizes(j) /\ i # j => ~collide(call[i].entry, call[j].entry)

LogInv ==
    /\ LogTypeOK /\ CachesAreEarlier /\ ReceiptsStayValid /\ AnswersAreDurable
    /\ WorkAgrees /\ EffectsAreFresh

-----------------------------------------------------------------------------
(* The manifest *)

LEMMA NilIsManifestShaped ==
  /\ nil \notin Manifest
  /\ nil.applied \in Seq(Receipt)
  /\ nil.revision \in Int
  /\ \A m \in Manifest : m.revision \in Nat /\ m.applied \in Seq(Receipt)
  BY DEF nil, Manifest

LEMMA EarlierTransitive ==
  ASSUME NEW l \in Manifest \cup {nil}, NEW m \in Manifest \cup {nil},
         NEW n \in Manifest \cup {nil}, isEarlier(l, m), isEarlier(m, n)
  PROVE  isEarlier(l, n)
  <1>1. /\ l.applied \in Seq(Receipt) /\ m.applied \in Seq(Receipt) /\ n.applied \in Seq(Receipt)
        /\ l.revision \in Int /\ m.revision \in Int /\ n.revision \in Int
    BY NilIsManifestShaped
  <1>2. l.revision <= n.revision
    BY <1>1 DEF isEarlier
  <1>3. IsPrefix(l.applied, n.applied)
    BY <1>1 DEF isEarlier, IsPrefix
  <1>4. ASSUME l.revision = n.revision PROVE l = n
    <2>1. l.revision = m.revision /\ m.revision = n.revision
      BY <1>1, <1>4 DEF isEarlier
    <2> QED BY <2>1 DEF isEarlier
  <1> QED BY <1>2, <1>3, <1>4 DEF isEarlier

LEMMA EarlierReceipts ==
  ASSUME NEW m \in Manifest \cup {nil}, NEW n \in Manifest \cup {nil},
         IsPrefix(m.applied, n.applied)
  PROVE  appliedCommands(m) \subseteq appliedCommands(n) /\ entries(m) \subseteq entries(n)
  <1>1. m.applied \in Seq(Receipt) /\ n.applied \in Seq(Receipt)
    BY NilIsManifestShaped
  <1>2. \A k \in DOMAIN m.applied : k \in DOMAIN n.applied /\ n.applied[k] = m.applied[k]
    BY <1>1 DEF IsPrefix
  <1>3. appliedCommands(m) \subseteq appliedCommands(n)
    BY <1>2 DEF appliedCommands
  <1> QED BY <1>3 DEF entries

LEMMA PrefixReflexive ==
  ASSUME NEW m \in Manifest \cup {nil}
  PROVE  IsPrefix(m.applied, m.applied)
  BY NilIsManifestShaped DEF IsPrefix

\* Saving a receipt extends the manifest by it.
LEMMA AppendingReceipt ==
  ASSUME NEW m \in Manifest, NEW e \in Entry
  PROVE  LET n == appendingReceipt(m, e)
         IN  /\ n \in Manifest
             /\ n.revision = m.revision + 1
             /\ IsPrefix(m.applied, n.applied)
             /\ entries(n) = entries(m) \cup {e}
             /\ receiptsAreValid(m) /\ ~knows(m, e.command) => receiptsAreValid(n)
  <1> DEFINE n == appendingReceipt(m, e)
             receipt == [command |-> e.command, payload |-> e.payload,
                         revision |-> m.revision + 1]
             k == Len(m.applied) + 1
  <1>1. m.revision \in Nat /\ m.applied \in Seq(Receipt)
    BY DEF Manifest
  <1>2. receipt \in Receipt
    BY <1>1 DEF Receipt, Entry
  <1>3. n.revision = m.revision + 1 /\ n.applied = Append(m.applied, receipt)
    BY DEF appendingReceipt
  <1>4. n.applied \in Seq(Receipt)
    BY <1>1, <1>2, <1>3
  <1>5. n \in Manifest
    BY <1>1, <1>3, <1>4 DEF appendingReceipt, Manifest
  <1>6. /\ DOMAIN n.applied = DOMAIN m.applied \cup {k}
        /\ k \notin DOMAIN m.applied
        /\ n.applied[k] = receipt
        /\ \A j \in DOMAIN m.applied : n.applied[j] = m.applied[j]
    BY <1>1, <1>2, <1>3
  <1> HIDE DEF n, receipt, k
  <1>7. IsPrefix(m.applied, n.applied)
    BY <1>1, <1>2, <1>3 DEF IsPrefix
  <1>8. appliedCommands(n) = appliedCommands(m) \cup {receipt}
    BY <1>6 DEF appliedCommands
  <1>9. entries(n) = entries(m) \cup {e}
    <2>1. [command |-> receipt.command, payload |-> receipt.payload] = e
      BY DEF receipt, Entry
    <2> QED BY <1>8, <2>1 DEF entries
  <1>10. ASSUME receiptsAreValid(m), ~knows(m, e.command) PROVE receiptsAreValid(n)
    <2>1. ASSUME NEW r \in DOMAIN n.applied, NEW s \in DOMAIN n.applied,
                 n.applied[r].command = n.applied[s].command
          PROVE  r = s
      <3>1. receipt.command = e.command
        BY DEF receipt
      <3>2. \A j \in DOMAIN m.applied : m.applied[j].command # e.command
        BY <1>10 DEF knows, appliedCommands
      <3> QED BY <1>6, <1>10, <2>1, <3>1, <3>2 DEF receiptsAreValid
    <2>2. \A r \in appliedCommands(m) : r \in Receipt
      BY <1>1 DEF appliedCommands
    <2>3. ASSUME NEW r \in appliedCommands(n) PROVE r.revision > 0 /\ r.revision <= n.revision
      <3>1. CASE r \in appliedCommands(m)
        <4>1. r.revision > 0 /\ r.revision <= m.revision /\ r.revision \in Nat
          BY <1>10, <2>2, <3>1 DEF receiptsAreValid, Receipt
        <4> QED BY <1>1, <1>3, <4>1
      <3>2. CASE r = receipt
        BY <1>1, <1>3, <3>2 DEF receipt
      <3> QED BY <1>8, <2>3, <3>1, <3>2
    <2> QED BY <2>1, <2>3 DEF receiptsAreValid
  <1> QED BY <1>3, <1>5, <1>7, <1>9, <1>10 DEF n

-----------------------------------------------------------------------------
(* The inductive step *)

\* Nobody has a session and nothing is stored.
LEMMA LogInitInv == Init => LogInv
  <1> SUFFICES ASSUME Init PROVE LogInv
    OBVIOUS
  <1>1. LogTypeOK
    BY DEF Init, LogTypeOK
  <1>2. \A i \in Instances : call[i] \notin Work
    BY DEF Init, idle, Work
  <1>3. nil.applied = <<>> /\ appliedCommands(nil) = {}
    BY DEF nil, appliedCommands
  <1>4. CachesAreEarlier /\ ReceiptsStayValid /\ AnswersAreDurable
    BY <1>3 DEF Init, CachesAreEarlier, ReceiptsStayValid, receiptsAreValid, AnswersAreDurable,
                noAnswer
  <1>5. WorkAgrees
    BY <1>2 DEF Init, WorkAgrees, workAgreesAt, idle, starting
  <1>6. EffectsAreFresh
    BY <1>2 DEF Init, EffectsAreFresh, authorizes
  <1> QED BY <1>1, <1>4, <1>5, <1>6 DEF LogInv

LEMMA NotWork == idle \notin Work /\ starting \notin Work /\ idle # starting
  <1>1. idle.stage = "idle" /\ starting.stage = "starting"
    BY DEF idle, starting
  <1>2. \A w \in Work : w.stage \in {"saving", "saved", "refused", "responding"}
    BY DEF Work
  <1> QED BY <1>1, <1>2

\* A call that is not idle nor starting is a command at work.
LEMMA WorkByStage ==
  ASSUME LogTypeOK, NEW i \in Instances
  PROVE  /\ call[i] \in Work \/ call[i] = idle \/ call[i] = starting
         /\ call[i].stage \in {"saving", "saved", "refused", "responding"} => call[i] \in Work
         /\ idle \notin Work /\ starting \notin Work /\ idle # starting
  <1>1. idle.stage = "idle" /\ starting.stage = "starting"
    BY DEF idle, starting
  <1>2. \A w \in Work : w.stage \in {"saving", "saved", "refused", "responding"}
    BY DEF Work
  <1> QED BY <1>1, <1>2 DEF LogTypeOK

LEMMA WorkFields ==
  ASSUME NEW w \in Work
  PROVE  /\ w.stage \in {"saving", "saved", "refused", "responding"}
         /\ w.kind \in {"command", "receipt", "response"}
         /\ w.entry \in Entry
         /\ w.next \in Manifest
         /\ \A s \in {"saving", "saved", "refused", "responding"} :
                /\ [w EXCEPT !.stage = s] \in Work
                /\ [w EXCEPT !.stage = s].stage = s
                /\ [w EXCEPT !.stage = s].kind = w.kind
                /\ [w EXCEPT !.stage = s].entry = w.entry
                /\ [w EXCEPT !.stage = s].next = w.next
  BY DEF Work

\* What a command hands to the store is a save of its kind.
LEMMA PersistedWork ==
  ASSUME LogTypeOK, NEW i \in Instances, NEW kind \in {"command", "receipt", "response"},
         NEW e \in Entry, NEW next \in Manifest, persist(i, kind, e, next)
  PROVE  /\ call' \in [Instances -> {idle, starting} \cup Work]
         /\ call'[i] \in Work
         /\ call'[i] = [stage |-> "saving", kind |-> kind, entry |-> e, next |-> next]
         /\ \A j \in Instances : j # i => call'[j] = call[j]
  <1>1. [stage |-> "saving", kind |-> kind, entry |-> e, next |-> next] \in Work
    BY DEF Work
  <1> QED BY <1>1 DEF persist, LogTypeOK

\* Each step keeps every variable in its type.
LEMMA LogTypeStep ==
  ASSUME LogTypeOK, WorkAgrees, [Next]_logVars
  PROVE  LogTypeOK'
  <1>1. CASE UNCHANGED logVars
    BY <1>1 DEF LogTypeOK, logVars
  <1>2. ASSUME NEW i \in Instances, Start(i) \/ Create(i) \/ Restore(i) \/ Crash(i)
        PROVE  LogTypeOK'
    <2>1. first \in Manifest
      BY DEF first, Manifest
    <2> QED BY <1>2, <2>1 DEF Start, Create, Restore, Crash, LogTypeOK
  <1>3. ASSUME NEW i \in Instances, NEW e \in Entry, Replay(i, e) \/ RefuseContext(i, e)
        PROVE  LogTypeOK'
    <2>1. \A result \in {"alreadyApplied", "commandIDReused",
                         "endpointContextFingerprintReused"} :
             [entry |-> e, result |-> result] \in Answer
      BY DEF Answer
    <2> QED BY <1>3, <2>1 DEF Replay, RefuseContext, reply, LogTypeOK
  <1>4. ASSUME NEW i \in Instances, NEW e \in Entry, Deduplicate(i, e) \/ Execute(i, e)
        PROVE  LogTypeOK'
    <2>1. session[i] \in Manifest
      BY <1>4 DEF Deduplicate, Execute, Accepting, LogTypeOK
    <2>2. appendingReceipt(session[i], e) \in Manifest
      BY <2>1, AppendingReceipt
    <2> QED BY <1>4, <2>2, PersistedWork DEF Deduplicate, Execute, LogTypeOK
  <1>5. ASSUME NEW i \in Instances, Save(i) \/ SaveFails(i) PROVE LogTypeOK'
    <2>1. call[i] \in Work
      BY <1>5, WorkByStage DEF Save, SaveFails
    <2>2. [call[i] EXCEPT !.stage = "saved"] \in Work
          /\ [call[i] EXCEPT !.stage = "refused"] \in Work /\ call[i].next \in Manifest
      BY <2>1, WorkFields
    <2> QED BY <1>5, <2>2 DEF Save, SaveFails, LogTypeOK
  <1>6. ASSUME NEW i \in Instances, ResumeRefused(i) \/ ResumeSaved(i) \/ ProviderFails(i)
        PROVE  LogTypeOK'
    <2>1. call[i] \in Work
      BY <1>6, WorkByStage DEF ResumeRefused, ResumeSaved, ProviderFails
    <2>2. call[i].entry \in Entry /\ call[i].next \in Manifest
      BY <2>1, WorkFields
    <2>3. \A result \in {"accepted", "alreadyApplied", "failed"} :
             [entry |-> call[i].entry, result |-> result] \in Answer
      BY <2>2 DEF Answer
    <2> QED BY <1>6, <2>2, <2>3 DEF ResumeRefused, ResumeSaved, ProviderFails, reply, LogTypeOK
  <1>7. ASSUME NEW i \in Instances, ResumeAuthorized(i) PROVE LogTypeOK'
    <2>1. call[i] \in Work
      BY <1>7, WorkByStage DEF ResumeAuthorized
    <2>2. /\ call[i].entry \in Entry /\ call[i].next \in Manifest
          /\ [call[i] EXCEPT !.stage = "responding"] \in Work
      BY <2>1, WorkFields
    <2>3. [entry |-> call[i].entry, result |-> "accepted"] \in Answer
      BY <2>2 DEF Answer
    <2>4. Append(effects, call[i].entry) \in Seq(Entry)
      BY <2>2 DEF LogTypeOK
    <2>5. call' \in [Instances -> {idle, starting} \cup Work]
          /\ answer' \in [Instances -> {noAnswer} \cup Answer]
      BY <1>7, <2>2, <2>3 DEF ResumeAuthorized, reply, LogTypeOK
    <2> QED BY <1>7, <2>2, <2>4, <2>5 DEF ResumeAuthorized, LogTypeOK
  <1>8. ASSUME NEW i \in Instances, Respond(i) PROVE LogTypeOK'
    <2>1. call[i] \in Work
      BY <1>8, WorkByStage DEF Respond
    <2>2. session[i] \in Manifest
      BY <2>1 DEF WorkAgrees, workAgreesAt, LogTypeOK
    <2>3. [session[i] EXCEPT !.revision = @ + 1] \in Manifest
      BY <2>2 DEF Manifest
    <2>4. call[i].entry \in Entry
      BY <2>1, WorkFields
    <2> QED BY <1>8, <2>3, <2>4, PersistedWork DEF Respond, LogTypeOK
  <1> QED
    BY <1>1, <1>2, <1>3, <1>4, <1>5, <1>6, <1>7, <1>8 DEF Next, Persist

\* A save that passes the comparison starts from the stored manifest.
LEMMA SaveStartsFromStored ==
  ASSUME LogInv, NEW i \in Instances, Save(i), stored.revision = session[i].revision
  PROVE  /\ session[i] = stored
         /\ stored \in Manifest
         /\ call[i] \in Work
         /\ call[i].next \in Manifest
         /\ stored' = call[i].next
         /\ isEarlier(stored, stored')
         /\ receiptsAreValid(stored')
         /\ entries(stored') = entries(stored) \cup {call[i].entry}
  <1>1. call[i] \in Work /\ call[i].stage = "saving"
    BY WorkByStage DEF LogInv, Save
  <1>2. session[i] = stored
    BY <1>1 DEF LogInv, WorkAgrees, workAgreesAt, CachesAreEarlier, isEarlier
  <1>3. stored \in Manifest
    BY <1>1, <1>2 DEF LogInv, WorkAgrees, workAgreesAt, LogTypeOK
  <1>4. stored' = call[i].next
    BY DEF Save
  <1>5. call[i].next \in Manifest /\ call[i].entry \in Entry
    BY <1>1, WorkFields
  <1>6. stored.revision \in Nat /\ stored'.revision = stored.revision + 1
    BY <1>1, <1>2, <1>3, <1>4, NilIsManifestShaped DEF LogInv, WorkAgrees, workAgreesAt
  <1>7. CASE call[i].kind # "response"
    <2>1. /\ stored' = appendingReceipt(stored, call[i].entry)
          /\ ~knows(stored, call[i].entry.command)
      BY <1>1, <1>2, <1>4, <1>7 DEF LogInv, WorkAgrees, workAgreesAt
    <2>2. /\ IsPrefix(stored.applied, stored'.applied)
          /\ receiptsAreValid(stored')
          /\ entries(stored') = entries(stored) \cup {call[i].entry}
      BY <1>3, <1>5, <2>1, AppendingReceipt DEF LogInv, ReceiptsStayValid
    <2> QED BY <1>1, <1>2, <1>3, <1>4, <1>5, <1>6, <2>2 DEF isEarlier
  <1>8. CASE call[i].kind = "response"
    <2>1. stored'.applied = stored.applied /\ call[i].entry \in entries(stored)
      BY <1>1, <1>2, <1>4, <1>8 DEF LogInv, WorkAgrees, workAgreesAt
    <2>2. appliedCommands(stored') = appliedCommands(stored)
      BY <2>1 DEF appliedCommands
    <2>3. IsPrefix(stored.applied, stored'.applied)
      BY <1>3, <2>1, PrefixReflexive
    <2>4. receiptsAreValid(stored')
      <3>1. \A r \in appliedCommands(stored) :
               r.revision \in Nat /\ r.revision > 0 /\ r.revision <= stored.revision
        <4>1. \A r \in appliedCommands(stored) : r \in Receipt
          BY <1>3, NilIsManifestShaped DEF appliedCommands
        <4> QED BY <4>1 DEF LogInv, ReceiptsStayValid, receiptsAreValid, Receipt
      <3>2. \A r \in appliedCommands(stored') : r.revision > 0 /\ r.revision <= stored'.revision
        BY <1>6, <2>2, <3>1
      <3> QED BY <2>1, <3>2 DEF LogInv, ReceiptsStayValid, receiptsAreValid
    <2> QED
      BY <1>1, <1>2, <1>3, <1>4, <1>5, <1>6, <2>1, <2>2, <2>3, <2>4 DEF isEarlier, entries
  <1> QED BY <1>7, <1>8

\* Every step leaves the store as it is, or as a later state of itself.
LEMMA StoredGrows ==
  ASSUME LogInv, [Next]_logVars
  PROVE  /\ stored' \in Manifest \cup {nil}
         /\ isEarlier(stored, stored')
         /\ entries(stored) \subseteq entries(stored')
         /\ receiptsAreValid(stored')
  <1>1. stored \in Manifest \cup {nil} /\ stored' \in Manifest \cup {nil}
    BY LogTypeStep DEF LogInv, LogTypeOK
  <1>2. isEarlier(stored, stored') /\ receiptsAreValid(stored')
    <2>1. CASE stored' = stored
      BY <1>1, <2>1, PrefixReflexive, NilIsManifestShaped
      DEF isEarlier, LogInv, ReceiptsStayValid
    <2>2. ASSUME NEW i \in Instances, Create(i), stored' # stored
          PROVE  isEarlier(stored, stored') /\ receiptsAreValid(stored')
      <3>1. stored = nil /\ stored' = first
        BY <2>2 DEF Create
      <3>2. IsPrefix(nil.applied, first.applied)
        <4>1. IsPrefix(nil.applied, nil.applied)
          BY PrefixReflexive
        <4>2. first.applied = nil.applied
          BY DEF nil, first
        <4> QED BY <4>1, <4>2
      <3> QED
        BY <3>1, <3>2 DEF isEarlier, nil, first, receiptsAreValid, appliedCommands
    <2>3. ASSUME NEW i \in Instances, Save(i), stored' # stored
          PROVE  isEarlier(stored, stored') /\ receiptsAreValid(stored')
      BY <2>3, SaveStartsFromStored DEF Save
    <2>4. stored' = stored \/ \E i \in Instances : Create(i) \/ Save(i)
      BY DEF Next, logVars, Start, Restore, Replay, Deduplicate, RefuseContext, Execute, Persist,
             SaveFails, ResumeRefused, ResumeSaved, ResumeAuthorized, Respond, ProviderFails,
             Crash
    <2> QED BY <2>1, <2>2, <2>3, <2>4
  <1>3. entries(stored) \subseteq entries(stored')
    BY <1>1, <1>2, EarlierReceipts DEF isEarlier
  <1> QED BY <1>1, <1>2, <1>3

\* What an actor holds after a step was stored before or after it.
LEMMA CachesStep ==
  ASSUME LogInv, [Next]_logVars
  PROVE  CachesAreEarlier'
  <1> SUFFICES ASSUME NEW j \in Instances, session'[j] # nil
               PROVE  isEarlier(session'[j], stored')
    BY DEF CachesAreEarlier
  <1>1. LogTypeOK /\ LogTypeOK'
    BY LogTypeStep DEF LogInv
  <1>2. /\ stored \in Manifest \cup {nil} /\ stored' \in Manifest \cup {nil}
        /\ session'[j] \in Manifest \cup {nil}
    BY <1>1 DEF LogTypeOK
  <1>3. ASSUME isEarlier(session'[j], stored) PROVE isEarlier(session'[j], stored')
    BY <1>2, <1>3, StoredGrows, EarlierTransitive
  <1>4. isEarlier(stored, stored)
    BY <1>2, PrefixReflexive, NilIsManifestShaped DEF isEarlier
  <1>5. CASE session'[j] = session[j]
    BY <1>3, <1>5 DEF LogInv, CachesAreEarlier
  <1>6. ASSUME session'[j] # session[j] PROVE isEarlier(session'[j], stored) \/ session'[j] = stored'
    <2>1. ASSUME NEW i \in Instances, Create(i) \/ Restore(i) \/ Crash(i)
          PROVE  isEarlier(session'[j], stored) \/ session'[j] = stored'
      BY <1>1, <1>4, <1>6, <2>1 DEF Create, Restore, Crash, LogTypeOK
    <2>2. ASSUME NEW i \in Instances, ResumeSaved(i) \/ ResumeAuthorized(i)
          PROVE  isEarlier(session'[j], stored)
      <3>1. i = j /\ session'[j] = call[j].next
        BY <1>1, <1>6, <2>2 DEF ResumeSaved, ResumeAuthorized, LogTypeOK
      <3>2. call[j] \in Work /\ call[j].stage = "saved"
        BY <1>1, <2>2, <3>1, WorkByStage DEF ResumeSaved, ResumeAuthorized
      <3> QED BY <3>1, <3>2 DEF LogInv, WorkAgrees, workAgreesAt
    <2> QED
      BY <1>6, <2>1, <2>2
      DEF Next, logVars, Start, Replay, Deduplicate, RefuseContext, Execute, Persist,
          Save, SaveFails, ResumeRefused, Respond, ProviderFails
  <1>7. CASE session'[j] = stored'
    BY <1>2, <1>7, PrefixReflexive, NilIsManifestShaped DEF isEarlier
  <1> QED BY <1>3, <1>5, <1>6, <1>7

LEMMA EntryIsStored ==
  ASSUME NEW m, NEW e \in Entry
  PROVE  e \in entries(m) <=>
             \E r \in appliedCommands(m) : r.command = e.command /\ r.payload = e.payload
  BY DEF entries, Entry

LEMMA StoredIsKnown ==
  ASSUME NEW m \in Manifest, NEW e \in entries(m)
  PROVE  /\ e \in Entry
         /\ knows(m, e.command)
         /\ \A p : sameContext(e.payload, p) => contextReceipts(m, p) # {}
  <1>1. PICK r \in appliedCommands(m) : e = [command |-> r.command, payload |-> r.payload]
    BY DEF entries
  <1>2. r \in Receipt
    BY NilIsManifestShaped DEF appliedCommands
  <1>3. e \in Entry /\ r.command = e.command /\ r.payload = e.payload
    BY <1>1, <1>2 DEF Receipt, Entry
  <1> QED BY <1>3 DEF knows, contextReceipts

\* A caller is told of a command only once it is in the store.
LEMMA AnswersStep ==
  ASSUME LogInv, [Next]_logVars
  PROVE  AnswersAreDurable'
  <1>1. LogTypeOK /\ LogTypeOK'
    BY LogTypeStep DEF LogInv
  <1> SUFFICES ASSUME NEW j \in Instances, answer'[j].result \in {"accepted", "alreadyApplied"}
               PROVE  answer'[j].entry \in Entry /\ answer'[j].entry \in entries(stored')
    <2>1. \A e \in Entry : e \in entries(stored') <=>
             \E r \in appliedCommands(stored') : r.command = e.command /\ r.payload = e.payload
      BY EntryIsStored
    <2> QED BY <2>1 DEF AnswersAreDurable
  <1>2. answer'[j] \in Answer
    BY <1>1 DEF LogTypeOK, noAnswer
  <1>3. answer'[j].entry \in Entry
    BY <1>2 DEF Answer
  <1>4. ASSUME answer'[j].entry \in entries(stored) PROVE answer'[j].entry \in entries(stored')
    BY <1>4, StoredGrows
  <1>5. CASE answer'[j] = answer[j]
    <2>1. \E r \in appliedCommands(stored) :
             r.command = answer'[j].entry.command /\ r.payload = answer'[j].entry.payload
      BY <1>5 DEF LogInv, AnswersAreDurable
    <2> QED BY <1>3, <1>4, <2>1, EntryIsStored
  <1>6. ASSUME answer'[j] # answer[j] PROVE answer'[j].entry \in entries(stored)
    <2>1. ASSUME NEW i \in Instances, NEW e \in Entry, Replay(i, e)
          PROVE  answer'[j].entry \in entries(stored)
      <3>1. PICK r \in appliedCommands(session[i]) :
               r.command = e.command /\ reply(i, e, IF r.payload = e.payload THEN "alreadyApplied"
                                                    ELSE "commandIDReused")
        BY <2>1 DEF Replay
      <3>2. i = j /\ answer'[j] = [entry |-> e, result |-> IF r.payload = e.payload
                                       THEN "alreadyApplied" ELSE "commandIDReused"]
        BY <1>1, <1>6, <3>1 DEF reply, LogTypeOK
      <3>3. r.payload = e.payload /\ answer'[j].entry = e
        BY <3>2
      <3>4. session[i] \in Manifest /\ stored \in Manifest \cup {nil}
            /\ IsPrefix(session[i].applied, stored.applied)
        BY <1>1, <2>1 DEF LogInv, Replay, Accepting, CachesAreEarlier, isEarlier, LogTypeOK
      <3>5. r \in appliedCommands(stored)
        BY <3>1, <3>4, EarlierReceipts
      <3> QED BY <3>1, <3>3, <3>5, EntryIsStored
    <2>2. ASSUME NEW i \in Instances, ResumeSaved(i) \/ ResumeAuthorized(i)
          PROVE  answer'[j].entry \in entries(stored)
      <3>1. i = j /\ answer'[j].entry = call[j].entry
        BY <1>1, <1>6, <2>2 DEF ResumeSaved, ResumeAuthorized, reply, LogTypeOK
      <3>2. call[j] \in Work /\ call[j].stage = "saved"
        BY <1>1, <2>2, <3>1, WorkByStage DEF ResumeSaved, ResumeAuthorized
      <3> QED BY <3>1, <3>2 DEF LogInv, WorkAgrees, workAgreesAt
    <2>3. ASSUME NEW i \in Instances,
                 \/ ResumeRefused(i) \/ ProviderFails(i) \/ Crash(i)
                 \/ \E e \in Entry : RefuseContext(i, e)
          PROVE  FALSE
      BY <1>1, <1>6, <2>3
      DEF ResumeRefused, ProviderFails, Crash, RefuseContext, reply, LogTypeOK, noAnswer
    <2> QED
      BY <1>6, <2>1, <2>2, <2>3
      DEF Next, logVars, Start, Create, Restore, Deduplicate, Execute, Persist, Save, SaveFails,
          Respond
  <1> QED BY <1>3, <1>4, <1>5, <1>6

\* An actor that does nothing keeps what it knows while the store grows.
LEMMA WorkKept ==
  ASSUME LogInv, [Next]_logVars, NEW j \in Instances,
         session'[j] = session[j], call'[j] = call[j]
  PROVE  workAgreesAt(j)'
  <1>1. LogTypeOK /\ stored \in Manifest \cup {nil} /\ stored' \in Manifest \cup {nil}
    BY StoredGrows DEF LogInv, LogTypeOK
  <1>2. /\ isEarlier(stored, stored')
        /\ entries(stored) \subseteq entries(stored')
    BY StoredGrows
  <1>3. workAgreesAt(j)
    BY DEF LogInv, WorkAgrees
  <1>4. ASSUME call[j] \in Work, call[j].stage = "saved" PROVE isEarlier(call[j].next, stored')
    <2>1. isEarlier(call[j].next, stored) /\ call[j].next \in Manifest \cup {nil}
      BY <1>3, <1>4, WorkFields DEF workAgreesAt
    <2> QED BY <1>1, <1>2, <2>1, EarlierTransitive
  <1> QED BY <1>2, <1>3, <1>4 DEF workAgreesAt

\* An actor that goes idle owes nothing.
LEMMA WorkDone ==
  ASSUME LogTypeOK, NEW j \in Instances, call'[j] = idle
  PROVE  workAgreesAt(j)'
  BY NotWork DEF workAgreesAt

\* What each actor knows of its command holds after every step.
LEMMA WorkStep ==
  ASSUME LogInv, [Next]_logVars
  PROVE  WorkAgrees'
  <1> SUFFICES ASSUME NEW j \in Instances PROVE workAgreesAt(j)'
    BY DEF WorkAgrees
  <1>1. LogTypeOK
    BY DEF LogInv
  <1>2. CASE session'[j] = session[j] /\ call'[j] = call[j]
    BY <1>2, WorkKept
  <1>3. CASE call'[j] = idle
    BY <1>1, <1>3, WorkDone
  <1> DEFINE Moves == ~(session'[j] = session[j] /\ call'[j] = call[j]) /\ call'[j] # idle
  <1>4. ASSUME Moves, NEW i \in Instances, Start(i) PROVE workAgreesAt(j)'
    <2>1. call'[j] = starting /\ session'[j] = nil
      BY <1>1, <1>4 DEF Start, LogTypeOK
    <2> QED BY <1>1, <2>1, NotWork DEF workAgreesAt
  <1>5. ASSUME Moves, NEW i \in Instances, NEW e \in Entry, Deduplicate(i, e) \/ Execute(i, e)
        PROVE  workAgreesAt(j)'
    <2> DEFINE kind == IF Execute(i, e) THEN "command" ELSE "receipt"
    <2>1. /\ session[i] \in Manifest
          /\ session' = session
          /\ ~knows(session[i], e.command)
      BY <1>1, <1>5 DEF Deduplicate, Execute, Accepting, LogTypeOK
    <2>2. appendingReceipt(session[i], e) \in Manifest
          /\ appendingReceipt(session[i], e).revision = session[i].revision + 1
      BY <2>1, AppendingReceipt
    <2>3. CASE Execute(i, e)
      <3>1. persist(i, "command", e, appendingReceipt(session[i], e))
            /\ contextReceipts(session[i], e.payload) = {}
        BY <2>3 DEF Execute
      <3>2. /\ call'[i] = [stage |-> "saving", kind |-> "command", entry |-> e,
                           next |-> appendingReceipt(session[i], e)]
            /\ \A k \in Instances : k # i => call'[k] = call[k]
        BY <1>1, <2>2, <3>1, PersistedWork
      <3>3. i = j
        BY <1>5, <2>1, <3>2
      <3>4. call'[i] \in Work
        BY <1>1, <2>2, <3>1, PersistedWork
      <3>5. /\ call'[j].stage = "saving" /\ call'[j].kind = "command" /\ call'[j].entry = e
            /\ call'[j].next = appendingReceipt(session'[j], e)
            /\ call'[j].next.revision = session'[j].revision + 1
        BY <2>1, <2>2, <3>2, <3>3
      <3>6. ~knows(session'[j], e.command) /\ contextReceipts(session'[j], e.payload) = {}
        BY <2>1, <3>1, <3>3
      <3>7. call'[j] # starting /\ session'[j] # nil
        BY <2>1, <3>3, <3>4, NilIsManifestShaped, NotWork
      <3> QED BY <3>5, <3>6, <3>7 DEF workAgreesAt
    <2>4. CASE Deduplicate(i, e)
      <3>1. persist(i, "receipt", e, appendingReceipt(session[i], e))
        BY <2>4 DEF Deduplicate
      <3>2. /\ call'[i] = [stage |-> "saving", kind |-> "receipt", entry |-> e,
                           next |-> appendingReceipt(session[i], e)]
            /\ \A k \in Instances : k # i => call'[k] = call[k]
        BY <1>1, <2>2, <3>1, PersistedWork
      <3>3. i = j
        BY <1>5, <2>1, <3>2
      <3>4. call'[i] \in Work
        BY <1>1, <2>2, <3>1, PersistedWork
      <3> QED
        BY <1>1, <2>1, <2>2, <3>1, <3>2, <3>3, <3>4, NilIsManifestShaped, NotWork
        DEF workAgreesAt
    <2> QED BY <1>5, <2>3, <2>4
  <1>6. ASSUME Moves, NEW i \in Instances, Save(i) PROVE workAgreesAt(j)'
    <2>1. call[i] \in Work
      BY <1>1, <1>6, WorkByStage DEF Save
    <2>2. i = j /\ session'[j] = session[j]
      BY <1>1, <1>6 DEF Save, LogTypeOK
    <2>3. session[j] # nil
      BY <2>1, <2>2 DEF LogInv, WorkAgrees, workAgreesAt
    <2>4. CASE stored.revision = session[i].revision
      <3>1. /\ call'[j] = [call[j] EXCEPT !.stage = "saved"]
            /\ stored' = call[j].next
            /\ call[j].entry \in entries(stored')
            /\ stored' \in Manifest
        BY <1>1, <1>6, <2>2, <2>4, SaveStartsFromStored DEF Save, LogTypeOK
      <3>2. /\ call'[j] \in Work /\ call'[j].stage = "saved"
            /\ call'[j].next = call[j].next /\ call'[j].entry = call[j].entry
        BY <2>1, <2>2, <3>1 DEF Work
      <3>3. isEarlier(stored', stored')
        BY <3>1, PrefixReflexive, NilIsManifestShaped DEF isEarlier
      <3> QED BY <1>1, <2>2, <2>3, <3>1, <3>2, <3>3, NotWork DEF workAgreesAt
    <2>5. CASE stored.revision # session[i].revision
      <3>1. call'[j] = [call[j] EXCEPT !.stage = "refused"]
        BY <1>1, <1>6, <2>2, <2>5 DEF Save, LogTypeOK
      <3>2. call'[j] \in Work /\ call'[j].stage = "refused"
        BY <2>1, <2>2, <3>1 DEF Work
      <3> QED BY <1>1, <2>2, <2>3, <3>2, NotWork DEF workAgreesAt
    <2> QED BY <2>4, <2>5
  <1>7. ASSUME Moves, NEW i \in Instances, SaveFails(i) PROVE workAgreesAt(j)'
    <2>1. call[i] \in Work
      BY <1>1, <1>7, WorkByStage DEF SaveFails
    <2>2. i = j /\ session'[j] = session[j] /\ call'[j] = [call[j] EXCEPT !.stage = "refused"]
      BY <1>1, <1>7 DEF SaveFails, LogTypeOK
    <2>3. session[j] # nil
      BY <2>1, <2>2 DEF LogInv, WorkAgrees, workAgreesAt
    <2>4. call'[j] \in Work /\ call'[j].stage = "refused"
      BY <2>1, <2>2 DEF Work
    <2> QED BY <1>1, <2>2, <2>3, <2>4, NotWork DEF workAgreesAt
  <1>8. ASSUME Moves, NEW i \in Instances, ResumeAuthorized(i) PROVE workAgreesAt(j)'
    <2>1. call[i] \in Work /\ call[i].stage = "saved"
      BY <1>1, <1>8, WorkByStage DEF ResumeAuthorized
    <2>2. /\ i = j
          /\ session'[j] = call[j].next
          /\ call'[j] = [call[j] EXCEPT !.stage = "responding"]
          /\ stored' = stored
      BY <1>1, <1>8 DEF ResumeAuthorized, LogTypeOK
    <2>3. /\ call'[j] \in Work /\ call'[j].stage = "responding" /\ call'[j].entry = call[j].entry
          /\ session'[j] \in Manifest
      BY <2>1, <2>2 DEF Work
    <2>4. call[j].entry \in entries(stored)
      BY <2>1, <2>2 DEF LogInv, WorkAgrees, workAgreesAt
    <2> QED
      BY <1>1, <2>2, <2>3, <2>4, NotWork, NilIsManifestShaped DEF workAgreesAt
  <1>9. ASSUME Moves, NEW i \in Instances, Respond(i) PROVE workAgreesAt(j)'
    <2> DEFINE next == [session[i] EXCEPT !.revision = @ + 1]
    <2>1. call[i] \in Work /\ call[i].stage = "responding"
      BY <1>1, <1>9, WorkByStage DEF Respond
    <2>2. session[i] \in Manifest /\ call[i].entry \in Entry /\ call[i].entry \in entries(stored)
      <3>1. session[i] # nil /\ call[i].entry \in entries(stored)
        BY <2>1 DEF LogInv, WorkAgrees, workAgreesAt
      <3>2. session[i] \in Manifest
        BY <1>1, <3>1 DEF LogTypeOK
      <3>3. call[i].entry \in Entry
        BY <2>1, WorkFields
      <3> QED BY <3>1, <3>2, <3>3
    <2>3. /\ next \in Manifest
          /\ next.revision = session[i].revision + 1
          /\ next.applied = session[i].applied
      BY <2>2 DEF Manifest
    <2>4. persist(i, "response", call[i].entry, next) /\ session' = session /\ stored' = stored
      BY <1>9 DEF Respond
    <2> HIDE DEF next
    <2>5. /\ call'[i] = [stage |-> "saving", kind |-> "response", entry |-> call[i].entry,
                         next |-> next]
          /\ \A k \in Instances : k # i => call'[k] = call[k]
      BY <1>1, <2>2, <2>3, <2>4, PersistedWork
    <2>6. i = j
      BY <1>9, <2>4, <2>5
    <2>7. call'[i] \in Work
      BY <1>1, <2>2, <2>3, <2>4, PersistedWork
    <2> QED
      BY <2>2, <2>3, <2>4, <2>5, <2>6, <2>7, NilIsManifestShaped, NotWork DEF workAgreesAt
  <1>10. ASSUME Moves, NEW i \in Instances, Create(i) \/ Restore(i)
         PROVE  FALSE
    BY <1>1, <1>10 DEF Create, Restore, LogTypeOK
  <1>11. ASSUME Moves, NEW i \in Instances,
                ResumeRefused(i) \/ ResumeSaved(i) \/ ProviderFails(i) \/ Crash(i)
         PROVE  FALSE
    BY <1>1, <1>11 DEF ResumeRefused, ResumeSaved, ProviderFails, Crash, LogTypeOK
  <1>12. ASSUME Moves, NEW i \in Instances, NEW e \in Entry, Replay(i, e) \/ RefuseContext(i, e)
         PROVE  FALSE
    BY <1>12 DEF Replay, RefuseContext
  <1>13. ASSUME Moves PROVE ~UNCHANGED logVars
    BY <1>13 DEF logVars
  <1> HIDE DEF Moves
  <1>14. CASE Moves
    BY <1>4, <1>5, <1>6, <1>7, <1>8, <1>9, <1>10, <1>11, <1>12, <1>13, <1>14 DEF Next, Persist
  <1> QED BY <1>2, <1>3, <1>14 DEF Moves

LEMMA CollideSymmetric == \A d, e : collide(d, e) <=> collide(e, d)
  BY DEF collide, sameContext

\* A save that will authorize an effect finds no receipt it collides with.
LEMMA AuthorizingSaveIsFresh ==
  ASSUME LogInv, NEW i \in Instances, Save(i), stored.revision = session[i].revision,
         call[i].kind = "command", NEW d \in entries(stored)
  PROVE  ~collide(d, call[i].entry)
  <1>1. call[i] \in Work /\ call[i].stage = "saving"
    BY WorkByStage DEF LogInv, Save
  <1>2. session[i] = stored /\ stored \in Manifest
    BY SaveStartsFromStored
  <1>3. /\ ~knows(stored, call[i].entry.command)
        /\ contextReceipts(stored, call[i].entry.payload) = {}
    BY <1>1, <1>2 DEF LogInv, WorkAgrees, workAgreesAt
  <1> QED BY <1>2, <1>3, StoredIsKnown DEF collide

\* An actor about to authorize was so before the step, or has just saved.
LEMMA AuthorizesStep ==
  ASSUME LogInv, [Next]_logVars, NEW j \in Instances, authorizes(j)'
  PROVE  /\ call'[j].entry = call[j].entry
         /\ \/ authorizes(j) /\ ~ResumeAuthorized(j)
            \/ Save(j) /\ stored.revision = session[j].revision /\ call[j].kind = "command"
  <1>1. LogTypeOK
    BY DEF LogInv
  <1>2. call'[j] \in Work /\ call'[j].stage = "saved" /\ call'[j].kind = "command"
    BY DEF authorizes
  <1>3. ASSUME ResumeAuthorized(j) PROVE FALSE
    <2>1. call[j] \in Work
      BY <1>1, <1>3, WorkByStage DEF ResumeAuthorized
    <2>2. call'[j] = [call[j] EXCEPT !.stage = "responding"] \/ call'[j] = idle
      BY <1>1, <1>3 DEF ResumeAuthorized, LogTypeOK
    <2>3. [call[j] EXCEPT !.stage = "responding"].stage = "responding"
      BY <2>1 DEF Work
    <2> QED BY <1>2, <2>2, <2>3, NotWork
  <1>4. CASE call'[j] = call[j]
    BY <1>2, <1>3, <1>4 DEF authorizes
  <1>5. ASSUME call'[j] # call[j], NEW i \in Instances, Save(i)
        PROVE  /\ i = j /\ stored.revision = session[j].revision
               /\ call[j].kind = "command" /\ call'[j].entry = call[j].entry
    <2>1. i = j
      BY <1>1, <1>5 DEF Save, LogTypeOK
    <2>2. call[j] \in Work
      BY <1>1, <1>5, <2>1, WorkByStage DEF Save
    <2>3. CASE stored.revision = session[j].revision
      <3>1. call'[j] = [call[j] EXCEPT !.stage = "saved"]
        BY <1>1, <1>5, <2>1, <2>3 DEF Save, LogTypeOK
      <3> QED BY <1>2, <2>1, <2>2, <2>3, <3>1 DEF Work
    <2>4. CASE stored.revision # session[j].revision
      <3>1. call'[j] = [call[j] EXCEPT !.stage = "refused"]
        BY <1>1, <1>5, <2>1, <2>4 DEF Save, LogTypeOK
      <3> QED BY <1>2, <2>2, <3>1 DEF Work
    <2> QED BY <2>3, <2>4
  <1>6. ASSUME call'[j] # call[j], NEW i \in Instances, SaveFails(i) PROVE FALSE
    <2>1. call[j] \in Work /\ call'[j] = [call[j] EXCEPT !.stage = "refused"]
      BY <1>1, <1>6, WorkByStage DEF SaveFails, LogTypeOK
    <2> QED BY <1>2, <2>1 DEF Work
  <1>7. ASSUME call'[j] # call[j], NEW i \in Instances,
               \/ Start(i) \/ Create(i) \/ ResumeRefused(i) \/ ResumeSaved(i)
               \/ ProviderFails(i) \/ Crash(i)
        PROVE  FALSE
    BY <1>1, <1>2, <1>7, NotWork
    DEF Start, Create, ResumeRefused, ResumeSaved, ProviderFails, Crash, LogTypeOK
  <1>8. ASSUME call'[j] # call[j], NEW i \in Instances, NEW e \in Entry,
               Deduplicate(i, e) \/ Execute(i, e)
        PROVE  FALSE
    <2>1. call'[j].stage = "saving"
      BY <1>1, <1>8 DEF Deduplicate, Execute, persist, LogTypeOK
    <2> QED BY <1>2, <2>1
  <1>9. ASSUME call'[j] # call[j], NEW i \in Instances, Respond(i) PROVE FALSE
    <2>1. call'[j].stage = "saving"
      BY <1>1, <1>9 DEF Respond, persist, LogTypeOK
    <2> QED BY <1>2, <2>1
  <1>10. ASSUME call'[j] # call[j], NEW i \in Instances, ResumeAuthorized(i) PROVE FALSE
    <2>1. i = j
      BY <1>1, <1>10 DEF ResumeAuthorized, LogTypeOK
    <2> QED BY <1>3, <1>10, <2>1
  <1>11. ASSUME call'[j] # call[j], NEW i \in Instances,
                Restore(i) \/ \E e \in Entry : Replay(i, e) \/ RefuseContext(i, e)
         PROVE  FALSE
    BY <1>11 DEF Restore, Replay, RefuseContext
  <1>12. ASSUME call'[j] # call[j] PROVE ~UNCHANGED logVars
    BY <1>12 DEF logVars
  <1>13. CASE call'[j] # call[j]
    BY <1>5, <1>6, <1>7, <1>8, <1>9, <1>10, <1>11, <1>12, <1>13 DEF Next, Persist
  <1> QED BY <1>4, <1>13

\* Only ResumeAuthorized adds an effect.
LEMMA EffectsChange ==
  ASSUME [Next]_logVars
  PROVE  effects' = effects \/ \E i \in Instances : ResumeAuthorized(i)
  BY DEF Next, logVars, Start, Create, Restore, Replay, Deduplicate, RefuseContext, Execute,
         Persist, Save, SaveFails, ResumeRefused, ResumeSaved, Respond, ProviderFails, Crash

\* The effects stay fresh after every step.
LEMMA EffectsStep ==
  ASSUME LogInv, [Next]_logVars
  PROVE  EffectsAreFresh'
  <1>1. LogTypeOK /\ EffectsAreFresh
    BY DEF LogInv
  <1>2. \A i \in Instances : authorizes(i) => call[i].entry \in entries(stored)
    BY DEF LogInv, WorkAgrees, workAgreesAt, authorizes
  <1> DEFINE saves(j) == Save(j) /\ stored.revision = session[j].revision
                                 /\ call[j].kind = "command"
  <1>3. \A j \in Instances : authorizes(j)' =>
            /\ call'[j].entry = call[j].entry
            /\ (authorizes(j) /\ ~ResumeAuthorized(j)) \/ saves(j)
    BY AuthorizesStep
  <1>4. \A j \in Instances : saves(j) => \A d \in entries(stored) : ~collide(d, call[j].entry)
    BY AuthorizingSaveIsFresh
  <1>5. \A i, j \in Instances : saves(i) /\ saves(j) => i = j
    <2> SUFFICES ASSUME NEW i \in Instances, NEW j \in Instances, saves(i), saves(j), i # j
                 PROVE  FALSE
      OBVIOUS
    <2>1. call[i] \in Work /\ call[i].stage = "saving"
      BY <1>1, WorkByStage DEF Save
    <2>2. call'[i] = [call[i] EXCEPT !.stage = "saved"] /\ call'[i] = call[i]
      BY <1>1 DEF Save, LogTypeOK
    <2> QED BY <2>1, <2>2 DEF Work
  <1>6. \A i \in Instances : saves(i) => \A j \in Instances : ~ResumeAuthorized(j)
    <2> SUFFICES ASSUME NEW i \in Instances, NEW j \in Instances, Save(i), ResumeAuthorized(j),
                        stored.revision = session[i].revision
                 PROVE  FALSE
      OBVIOUS
    <2>1. effects' = effects /\ effects' = Append(effects, call[j].entry)
      BY DEF Save, ResumeAuthorized
    <2>2. call[j].entry \in Entry
      BY <1>1, WorkByStage, WorkFields DEF ResumeAuthorized
    <2>3. Len(Append(effects, call[j].entry)) = Len(effects) + 1 /\ Len(effects) \in Nat
      BY <1>1, <2>2 DEF LogTypeOK
    <2> QED BY <2>1, <2>3
  <1> HIDE DEF saves
  <1>7. \A i, j \in Instances : authorizes(i)' /\ authorizes(j)' /\ i # j =>
            ~collide(call'[i].entry, call'[j].entry)
    <2> SUFFICES ASSUME NEW i \in Instances, NEW j \in Instances, i # j,
                        authorizes(i)', authorizes(j)'
                 PROVE  ~collide(call[i].entry, call[j].entry)
      BY <1>3
    <2>1. CASE saves(i)
      <3>1. authorizes(j) /\ call[j].entry \in entries(stored)
        BY <1>2, <1>3, <1>5, <2>1
      <3> QED BY <1>4, <2>1, <3>1, CollideSymmetric
    <2>2. CASE saves(j)
      <3>1. authorizes(i) /\ call[i].entry \in entries(stored)
        BY <1>2, <1>3, <1>5, <2>2
      <3> QED BY <1>4, <2>2, <3>1
    <2>3. CASE ~saves(i) /\ ~saves(j)
      <3>1. authorizes(i) /\ authorizes(j)
        BY <1>3, <2>3
      <3> QED BY <1>1, <3>1 DEF EffectsAreFresh
    <2> QED BY <2>1, <2>2, <2>3
  <1>8. CASE effects' = effects
    <2>1. \A n \in DOMAIN effects' : effects'[n] \in entries(stored')
      BY <1>1, <1>8, StoredGrows DEF EffectsAreFresh
    <2>2. ASSUME NEW j \in Instances, NEW n \in DOMAIN effects', authorizes(j)'
          PROVE  ~collide(effects'[n], call'[j].entry)
      <3>1. effects[n] \in entries(stored) /\ n \in DOMAIN effects /\ effects'[n] = effects[n]
        BY <1>1, <1>8 DEF EffectsAreFresh
      <3>2. CASE saves(j)
        BY <1>3, <1>4, <2>2, <3>1, <3>2
      <3>3. CASE authorizes(j)
        BY <1>1, <1>3, <2>2, <3>1, <3>3 DEF EffectsAreFresh
      <3> QED BY <1>3, <2>2, <3>2, <3>3
    <2> QED BY <1>7, <2>1, <2>2 DEF EffectsAreFresh
  <1>9. ASSUME NEW i \in Instances, ResumeAuthorized(i) PROVE EffectsAreFresh'
    <2>1. authorizes(i) /\ call[i].entry \in Entry
      BY <1>1, <1>9, WorkByStage, WorkFields DEF ResumeAuthorized, authorizes
    <2>2. effects' = Append(effects, call[i].entry) /\ stored' = stored
      BY <1>9 DEF ResumeAuthorized
    <2>3. \A n \in DOMAIN effects' :
              (n \in DOMAIN effects /\ effects'[n] = effects[n]) \/ effects'[n] = call[i].entry
      BY <1>1, <2>1, <2>2 DEF LogTypeOK
    <2>4. \A n \in DOMAIN effects' : effects'[n] \in entries(stored')
      BY <1>1, <1>2, <2>1, <2>2, <2>3 DEF EffectsAreFresh
    <2>5. ASSUME NEW j \in Instances, NEW n \in DOMAIN effects', authorizes(j)'
          PROVE  ~collide(effects'[n], call'[j].entry)
      <3>1. call'[j].entry = call[j].entry /\ authorizes(j) /\ j # i
        BY <1>3, <1>6, <1>9, <2>5
      <3> QED BY <1>1, <2>1, <2>3, <2>5, <3>1 DEF EffectsAreFresh
    <2> QED BY <1>7, <2>4, <2>5 DEF EffectsAreFresh
  <1> QED BY <1>8, <1>9, EffectsChange

LEMMA LogInvariant == Spec => []LogInv
  <1>1. LogInv /\ [Next]_logVars => LogInv'
    <2> SUFFICES ASSUME LogInv, [Next]_logVars PROVE LogInv'
      OBVIOUS
    <2>1. ReceiptsStayValid'
      BY StoredGrows DEF ReceiptsStayValid
    <2>2. LogTypeOK'
      BY LogTypeStep DEF LogInv
    <2> QED
      BY <2>1, <2>2, CachesStep, AnswersStep, WorkStep, EffectsStep DEF LogInv
  <1> QED BY LogInitInv, <1>1, PTL DEF Spec

-----------------------------------------------------------------------------
(* The results *)

\* No actor ever works on a manifest the store did not hold before.
THEOREM CachesEarlier == Spec => []CachesAreEarlier
  <1>1. LogInv => CachesAreEarlier
    BY DEF LogInv
  <1> QED BY LogInvariant, <1>1, PTL

\* What a caller was told of its command stays true.
THEOREM AnswersDurable == Spec => []AnswersAreDurable
  <1>1. LogInv => AnswersAreDurable
    BY DEF LogInv
  <1> QED BY LogInvariant, <1>1, PTL

\* The receipts of the stored manifest are valid for the next restore.
THEOREM ReceiptsValid == Spec => []ReceiptsStayValid
  <1>1. LogInv => ReceiptsStayValid
    BY DEF LogInv
  <1> QED BY LogInvariant, <1>1, PTL

\* No step drops or rewrites a receipt of the stored manifest.
THEOREM LogGrows == Spec => LogOnlyGrows
  <1>1. LogInv /\ [Next]_logVars => [IsPrefix(stored.applied, stored'.applied)]_logVars
    BY StoredGrows DEF isEarlier
  <1> QED BY LogInvariant, <1>1, PTL DEF Spec, LogOnlyGrows

\* At most one application and one effect per command ID, one effect per
\* endpoint context, and no effect before the save that authorized it.
THEOREM LedgerKept == Spec => KeepsTheLedger
  <1> DEFINE ledger == {[command |-> r.command, payload |-> r.payload] :
                           r \in appliedCommands(stored)}
  <1>1. ledger = entries(stored)
    BY DEF entries
  <1>2. Init => Ledger!LedgerInit
    BY DEF Init, Ledger!LedgerInit, nil, appliedCommands
  <1>3. LogInv /\ [Next]_logVars => [Ledger!LedgerNext]_(Ledger!ledgerVars)
    <2> SUFFICES ASSUME LogInv, [Next]_logVars
                 PROVE  Ledger!LedgerNext \/ UNCHANGED Ledger!ledgerVars
      OBVIOUS
    <2>1. LogTypeOK /\ EffectsAreFresh
      BY DEF LogInv
    <2>2. CASE entries(stored') = entries(stored) /\ effects' = effects
      BY <2>2 DEF entries, Ledger!ledgerVars
    <2>3. ASSUME NEW i \in Instances, ResumeAuthorized(i) PROVE Ledger!LedgerNext
      <3>1. authorizes(i) /\ call[i].entry \in Entry
        BY <2>1, <2>3, WorkByStage, WorkFields DEF ResumeAuthorized, authorizes
      <3>2. call[i].entry \in entries(stored)
        BY <3>1 DEF LogInv, WorkAgrees, workAgreesAt, authorizes
      <3>3. \A n \in DOMAIN effects : ~collide(effects[n], call[i].entry)
        BY <2>1, <3>1 DEF EffectsAreFresh
      <3>4. effects' = Append(effects, call[i].entry) /\ stored' = stored
        BY <2>3 DEF ResumeAuthorized
      <3>5. Ledger!Authorize(call[i].entry)
        BY <3>2, <3>3, <3>4
        DEF Ledger!Authorize, Ledger!sameContext, entries, collide, sameContext
      <3> QED BY <3>1, <3>5 DEF Ledger!LedgerNext, Ledger!Entry, Entry
    <2>4. ASSUME NEW i \in Instances, Save(i), stored.revision = session[i].revision
          PROVE  Ledger!LedgerNext \/ UNCHANGED Ledger!ledgerVars
      <3>1. /\ session[i] = stored /\ stored \in Manifest /\ call[i] \in Work
            /\ entries(stored') = entries(stored) \cup {call[i].entry}
        BY <2>4, SaveStartsFromStored
      <3>2. call[i].stage = "saving" /\ effects' = effects /\ call[i].entry \in Entry
        BY <2>4, <3>1, WorkFields DEF Save
      <3>3. CASE call[i].kind = "response"
        <4>1. call[i].entry \in entries(stored)
          BY <3>1, <3>2, <3>3 DEF LogInv, WorkAgrees, workAgreesAt
        <4>2. entries(stored') = entries(stored)
          BY <3>1, <4>1
        <4> QED BY <2>2, <3>2, <4>2
      <3>4. CASE call[i].kind # "response"
        <4>1. ~knows(stored, call[i].entry.command)
          BY <3>1, <3>2, <3>4 DEF LogInv, WorkAgrees, workAgreesAt
        <4>2. \A e \in entries(stored) : e.command # call[i].entry.command
          BY <3>1, <4>1, StoredIsKnown
        <4>3. Ledger!Commit(call[i].entry)
          BY <3>1, <3>2, <4>2 DEF Ledger!Commit, entries
        <4>4. call[i].entry \in Ledger!Entry
          BY <3>2 DEF Ledger!Entry, Entry
        <4>5. Ledger!LedgerNext
          BY <4>3, <4>4 DEF Ledger!LedgerNext, Ledger!Commit
        <4> QED BY <4>5
      <3> QED BY <3>3, <3>4
    <2>5. ASSUME NEW i \in Instances, Create(i)
          PROVE  entries(stored') = entries(stored) /\ effects' = effects
      <3>1. appliedCommands(nil) = appliedCommands(first)
        BY DEF appliedCommands, nil, first
      <3> QED BY <2>5, <3>1 DEF Create, entries
    <2>6. \/ entries(stored') = entries(stored) /\ effects' = effects
          \/ \E i \in Instances :
                \/ ResumeAuthorized(i) \/ Create(i)
                \/ Save(i) /\ stored.revision = session[i].revision
      <3>1. \/ stored' = stored /\ effects' = effects
            \/ \E i \in Instances :
                \/ ResumeAuthorized(i) \/ Create(i)
                \/ Save(i) /\ stored.revision = session[i].revision
        BY DEF Next, logVars, Start, Restore, Replay, Deduplicate, RefuseContext, Execute,
               Persist, Save, SaveFails, ResumeRefused, ResumeSaved, Respond, ProviderFails, Crash
      <3> QED BY <3>1
    <2> QED BY <2>2, <2>3, <2>4, <2>5, <2>6
  <1> QED BY LogInvariant, <1>2, <1>3, PTL DEF Spec, KeepsTheLedger, Ledger!LedgerSpec
=============================================================================
