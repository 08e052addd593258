\* As many tickets as threads: next_ticket catches up with counter from
\* behind when every thread is queued, the tightest case of the assumption.
SPECIFICATION FairSpec
CONSTANTS
    Threads = {t1, t2, t3, t4}
    Tickets = 4
INVARIANTS
    LockInv
    MutualExclusion
PROPERTIES
    ImplementsFifoLock
    EveryRequestIsServed
