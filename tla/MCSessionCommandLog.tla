------------------------- MODULE MCSessionCommandLog -------------------------
EXTENDS SessionCommandLog, TLC, FiniteSets

CONSTANTS giveFloor, handOff, evaluate, evaluateOther, context

\* two evaluation payloads that claim one context fingerprint
MCPayloads == {giveFloor, handOff, evaluate, evaluateOther}
MCEvaluations == {evaluate, evaluateOther}
MCContext == [p \in MCEvaluations |-> context]
MCHandOffs == {handOff}

LogSymmetry == Permutations(Instances) \cup Permutations(Commands)
=============================================================================
