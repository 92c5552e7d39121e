\* Two processes, one of them with two threads; two runs, one checkpoint each.
CONSTANTS
    Objects <- MCObjects
    Threads <- MCThreads
    ObjectOf <- MCObjectOf
    o1 = o1
    o2 = o2
    t1 = t1
    t2 = t2
    t3 = t3
    Runs = {r1, r2}
    Checkpoints = {k}
    Inodes = {i1, i2, i3, i4}
    None = None
SYMMETRY Interchangeable
SPECIFICATION Spec
INVARIANTS TypeOK CrashKeepsStoreWhole
PROPERTIES AtomicCalls
