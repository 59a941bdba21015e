\* Four threads; any wait may end without a signal.
SPECIFICATION Spec
CONSTANT Threads = {t1, t2, t3, t4}
INVARIANT TypeOK
INVARIANT Exclusion
INVARIANT NoLostWakeup
PROPERTY WriterGoesFirst
PROPERTY WaitersWoken
