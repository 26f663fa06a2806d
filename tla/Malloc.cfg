SPECIFICATION FairSpec
INVARIANTS ContentsKept HeapInv
PROPERTIES CallsAnswer CallsReturn
