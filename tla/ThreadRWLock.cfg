CONSTANTS
    Readers = {r1, r2, r3}
    Writers = {w1, w2}
SPECIFICATION FairSpec
INVARIANT LockSound
PROPERTIES WriterPreferred ImplementsRWLock SomeWriterEnters
