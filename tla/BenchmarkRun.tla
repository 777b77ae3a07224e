---------------------------- MODULE BenchmarkRun ----------------------------
(***************************************************************************)
(* What a benchmark run promises to whoever reads its results: every life  *)
(* of every client is measured from its first to its last message, one     *)
(* life of a client after the other, and the one report comes only when    *)
(* nothing is left to measure.  It does come, unless something fails.      *)
(***************************************************************************)
EXTENDS Integers

CONSTANTS
    Lives,   \* pairs <<client, n>>: the n-th connection of a client
    LIMIT    \* round trips to measure in each

VARIABLES
    samples,   \* the measured round trips <<life, message>>
    reported,
    failed     \* a link or a call has failed: the run may never get further

vars == <<samples, reported, failed>>

Init == samples = {} /\ reported = FALSE /\ failed = FALSE

AllSamples == Lives \X (1..LIMIT)

Earlier(c) == {d \in Lives : d[1] = c[1] /\ d[2] < c[2]}

\* The next round trip of life c; the last one of all may come with the report.
Measure(c, i) ==
    /\ ~reported
    /\ \A j \in 1..LIMIT : <<c, j>> \in samples <=> j < i
    /\ Earlier(c) \X (1..LIMIT) \subseteq samples
    /\ samples' = samples \cup {<<c, i>>}
    /\ reported' \in {FALSE, samples' = AllSamples}
    /\ UNCHANGED failed

Report ==
    /\ ~reported
    /\ samples = AllSamples
    /\ reported' = TRUE
    /\ UNCHANGED <<samples, failed>>

Fail == failed' = TRUE /\ UNCHANGED <<samples, reported>>

Progress == Report \/ \E c \in Lives, i \in 1..LIMIT : Measure(c, i)

Spec == Init /\ [][Progress \/ Fail]_vars
FairSpec == Spec /\ WF_vars(~failed /\ Progress)
=============================================================================
