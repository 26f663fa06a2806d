SPECIFICATION PairSpec
INVARIANT PreemptsOnlyCoroutines
