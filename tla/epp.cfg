SPECIFICATION FairSpec
CONSTANT Callers = {g1, g2, g3}
INVARIANT TypeOK
INVARIANT ConnectionExclusive
INVARIANT OneConnection
INVARIANT FailureHasCause
PROPERTY CallsSpec
PROPERTY CallsReturn
