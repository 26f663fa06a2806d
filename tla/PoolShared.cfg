\* Two client threads share the pool.
SPECIFICATION Spec
CONSTANTS
    w1 = w1  w2 = w2  w3 = w3  main = main  other = other
    t1 = t1  t2 = t2  t3 = t3
    NULL = NULL
    Workers = {w1, w2}
    Main = main
    Others = {other}
    Tasks = {t1, t2, t3}
    TasksOf <- SharedTasksOf
    MaxSpurious = 1
INVARIANTS NoLostWakeup ReleasedWhenDrained PoolInv
PROPERTIES ServiceSpec
