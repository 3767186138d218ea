SPECIFICATION Spec
CONSTANTS
    Instances = {i1, i2}
    Commands = {k1, k2}
    giveFloor = giveFloor
    handOff = handOff
    evaluate = evaluate
    evaluateOther = evaluateOther
    context = context
    Payloads <- MCPayloads
    HandOffs <- MCHandOffs
    Evaluations <- MCEvaluations
    Context <- MCContext
    MaxRevision = 3
SYMMETRY LogSymmetry
INVARIANT CachesAreEarlier
INVARIANT ReceiptsStayValid
INVARIANT AnswersAreDurable
PROPERTY LogOnlyGrows
PROPERTY KeepsTheLedger
