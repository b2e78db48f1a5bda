----------------------------- MODULE RateLimit ------------------------------
(* The sliding window of shared/ratelimit/ratelimit.go: for each key the     *)
(* times of its events, oldest first, kept while they are younger than the   *)
(* window.  Each operator is one call under the window's mutex; hits is the  *)
(* map, a function on the keys it holds.                                     *)
EXTENDS Integers, FiniteSets, Sequences

CONSTANTS
    Window,        \* how long an event counts
    MaxKeys        \* keys held before Add first drops the expired ones

ASSUME WindowAssumption == Window \in Nat \ {0} /\ MaxKeys \in Nat

Events(hits, key) == IF key \in DOMAIN hits THEN hits[key] ELSE << >>

(* The loop of prune: what is kept of the first n events.                    *)
Keep(ts, now) ==
    LET keep[n \in 0..Len(ts)] ==
            IF n = 0 THEN << >>
            ELSE IF now - ts[n] < Window THEN Append(keep[n - 1], ts[n]) ELSE keep[n - 1]
    IN  keep[Len(ts)]

Young(hits, key, now) == Keep(Events(hits, key), now)

Store(hits, key, ts) ==
    IF ts = << >> THEN [k \in DOMAIN hits \ {key} |-> hits[k]]
    ELSE [k \in DOMAIN hits \cup {key} |-> IF k = key THEN ts ELSE hits[k]]

Prune(hits, key, now) == Store(hits, key, Young(hits, key, now))

AllowN(hits, key, max, now) == Len(Young(hits, key, now)) < max

(* The (len-max)th oldest event has to age out before there is room.         *)
RetryAfterN_Oldest(hits, key, max, now) ==
    IF Len(Young(hits, key, now)) < max THEN 0 ELSE Young(hits, key, now)[1] + Window - now

RetryAfterN(hits, key, max, now) ==
    LET ts == Young(hits, key, now)
    IN  IF Len(ts) < max THEN 0 ELSE ts[Len(ts) - max + 1] + Window - now

PruneAll(hits, now) ==
    LET held == {k \in DOMAIN hits : Young(hits, k, now) # << >>}
    IN  [k \in held |-> Young(hits, k, now)]

Add(hits, key, now) ==
    LET h == IF Cardinality(DOMAIN hits) > MaxKeys THEN PruneAll(hits, now) ELSE hits
    IN  Store(h, key, Append(Young(h, key, now), now))

Reset(hits, key) == Store(hits, key, << >>)

=============================================================================
