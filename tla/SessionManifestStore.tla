------------------------ MODULE SessionManifestStore ------------------------
(***************************************************************************)
(* What the persistence seam promises (SessionManifestStore.swift): load   *)
(* is a read and save a compare-and-swap, each atomic, over the manifest   *)
(* of one session.  InMemorySessionManifestStore, an actor, is this module *)
(* line by line; FileSessionManifestStore is shown to implement it.        *)
(*                                                                         *)
(* A client is one adapter instance.  Its caller can be killed at any      *)
(* point; an operation may have taken effect by then, or not.              *)
(***************************************************************************)
EXTENDS Integers

CONSTANTS
    Clients,     \* adapter instances, in one process or in several
    Contents,    \* what tells two manifests of one revision apart
    MaxRevision  \* bound on the revisions clients propose

ASSUME MaxRevisionAssumption == MaxRevision \in Nat

VARIABLES
    stored,      \* the durable manifest
    request      \* what each client has asked and been answered

vars == <<stored, request>>

Manifest == [revision : 0..MaxRevision, content : Contents]
nil == [revision |-> -1]       \* no manifest; as a revision, -1 is nil too
Revision == -1..MaxRevision

Outcome == {"none", "loaded", "saved", "revisionConflict", "nonMonotonicRevision", "failed"}

Request == [op       : {"none", "load", "save"},
            manifest : Manifest \cup {nil},  \* what is saved, or what was loaded
            expected : Revision,
            outcome  : Outcome]

idle == [op |-> "none", manifest |-> nil, expected |-> -1, outcome |-> "none"]

Init ==
    /\ stored = nil
    /\ request = [c \in Clients |-> idle]

\* the answer of a save to a client, and whether it takes effect
saveOutcome(current, manifest, expected) ==
    IF current.revision # expected THEN "revisionConflict"
    ELSE IF current.revision # -1 /\ manifest.revision <= current.revision
         THEN "nonMonotonicRevision"
    ELSE "saved"

-----------------------------------------------------------------------------
CallLoad(c) ==
    /\ request[c].op = "none"
    /\ request' = [request EXCEPT ![c] = [idle EXCEPT !.op = "load"]]
    /\ UNCHANGED stored

CallSave(c, manifest, expected) ==
    /\ request[c].op = "none"
    /\ request' = [request EXCEPT ![c] = [op |-> "save", manifest |-> manifest,
                                          expected |-> expected, outcome |-> "none"]]
    /\ UNCHANGED stored

Load(c) ==
    /\ request[c].op = "load"
    /\ request[c].outcome = "none"
    /\ request' = [request EXCEPT ![c].manifest = stored, ![c].outcome = "loaded"]
    /\ UNCHANGED stored

Save(c) ==
    /\ request[c].op = "save"
    /\ request[c].outcome = "none"
    /\ LET outcome == saveOutcome(stored, request[c].manifest, request[c].expected)
       IN  /\ request' = [request EXCEPT ![c].outcome = outcome]
           /\ stored' = IF outcome = "saved" THEN request[c].manifest ELSE stored

\* an adapter with a disk may fail, and then changes nothing
Fail(c) ==
    /\ request[c].op # "none"
    /\ request[c].outcome = "none"
    /\ request' = [request EXCEPT ![c].outcome = "failed"]
    /\ UNCHANGED stored

Return(c) ==
    /\ request[c].outcome # "none"
    /\ request' = [request EXCEPT ![c] = idle]
    /\ UNCHANGED stored

Kill(c) ==
    /\ request[c].op # "none"
    /\ request' = [request EXCEPT ![c] = idle]
    /\ UNCHANGED stored

Next ==
    \E c \in Clients :
        \/ CallLoad(c)
        \/ \E manifest \in Manifest, expected \in Revision : CallSave(c, manifest, expected)
        \/ Load(c) \/ Save(c) \/ Fail(c) \/ Return(c) \/ Kill(c)

Spec == Init /\ [][Next]_vars
=============================================================================
