\* The program of thread_pooling.cpp: main is the only client.
SPECIFICATION FairSpec
CONSTANTS
    w1 = w1  w2 = w2  w3 = w3  main = main  other = other
    t1 = t1  t2 = t2  t3 = t3
    NULL = NULL
    Workers = {w1, w2, w3}
    Main = main
    Others = {}
    Tasks = {t1, t2, t3}
    TasksOf <- ProgramTasksOf
    MaxSpurious = 1
INVARIANTS NoUseAfterFree CleanExit
PROPERTIES AcceptedTasksRun MainReturns
