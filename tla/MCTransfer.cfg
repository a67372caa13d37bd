\* Two requests on each side, clients that leave, a timer that may be late.
SPECIFICATION FairSpec
CONSTANTS
    r1 = r1
    r2 = r2
    w1 = w1
    w2 = w2
    Readers <- MCReaders
    Writers <- MCWriters
    Chunks = 1
\* All are answered, the timer is over.
CHECK_DEADLOCK FALSE
INVARIANTS OneCloser ResponseIsAlive 
PROPERTY EverybodyReturns
