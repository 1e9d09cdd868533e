\* Three calls at a time, a TTL long enough for a probe to be slower; the backend may turn
\* for ever or stop turning.
SPECIFICATION FairSpec
CONSTANTS
    Threads = {t1, t2, t3}
    Ttl = 2
INVARIANTS TypeOK CachedAnswersFresh
PROPERTY OutageIsSeen
