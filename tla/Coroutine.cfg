SPECIFICATION FairSpec
INVARIANTS CoroutinesInv FinishedMeansFinished
PROPERTIES SleepRounds MainReturns
