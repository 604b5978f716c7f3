SPECIFICATION Spec
CONSTANTS
    t1 = t1
    t2 = t2
    t3 = t3
    t4 = t4
    Tasks = {t1, t2, t3}
    NoTask = NoTask
    QueueSize = 4
    MaxThreads = 3
    MaxDelayed = 1
    Failures = {"thread_start", "delayed_add"}
SYMMETRY TaskSymmetry
INVARIANTS
    LoaderInv
    UndoneTaskHasNoWorker
