---------------------------- MODULE CommandLedger ----------------------------
(***************************************************************************)
(* What a command ID promises the callers of an Interview Room session:    *)
(* an ID is applied at most once and with one payload, whoever sends it    *)
(* and however often, and what was applied authorizes at most one external *)
(* effect.  An endpoint context authorizes one effect under all the IDs    *)
(* that name it.                                                           *)
(***************************************************************************)
EXTENDS Integers, Sequences

CONSTANTS
    Commands,     \* command IDs
    Payloads,     \* what a command asks for
    Evaluations,  \* the payloads that authorize an endpoint evaluation
    Context       \* the context fingerprint of each of those

VARIABLES
    ledger,   \* the applied commands: a set of [command, payload]
    effects   \* the effects authorized, oldest first

ledgerVars == <<ledger, effects>>

Entry == [command : Commands, payload : Payloads]

sameContext(p, q) == p \in Evaluations /\ q \in Evaluations /\ Context[p] = Context[q]

LedgerInit == ledger = {} /\ effects = <<>>

Commit(entry) ==
    /\ \A e \in ledger : e.command # entry.command
    /\ ledger' = ledger \cup {entry}
    /\ UNCHANGED effects

Authorize(entry) ==
    /\ entry \in ledger
    /\ \A i \in DOMAIN effects :
           /\ effects[i].command # entry.command
           /\ ~sameContext(effects[i].payload, entry.payload)
    /\ effects' = Append(effects, entry)
    /\ UNCHANGED ledger

LedgerNext == \E entry \in Entry : Commit(entry) \/ Authorize(entry)

LedgerSpec == LedgerInit /\ [][LedgerNext]_ledgerVars
=============================================================================
