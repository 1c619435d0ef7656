------------------------------ MODULE Metrics -------------------------------
(***************************************************************************)
(* A histogram of MetricsCollector (monitoring/metrics.cpp), the data      *)
(* delay one: the threads that observe values, the HTTP thread that        *)
(* exports it, and the quantiles it derives.  Everything is a relaxed      *)
(* atomic: the updates of one observation, and the loads of one export,    *)
(* take effect in any order; a later load sees what has taken effect.      *)
(* Values and bounds are integers; a quantile is a fraction <<num, den>>.  *)
(***************************************************************************)
EXTENDS Integers, Sequences, FiniteSets, FiniteSetsExt, Bags, BagsExt

CONSTANTS
    Observers,    \* the threads that call observe_data_delay
    Bounds,       \* DATA_DELAY_BUCKET_BOUNDS, ascending
    Delays,       \* the values observed
    Permilles,    \* the quantiles: <<500, 990, 999>>
    MaxObserved   \* bound: the observations

ASSUME MetricsAssumption ==
    /\ Bounds # <<>> /\ \A i \in DOMAIN Bounds : Bounds[i] \in Nat \ {0}
    /\ \A i, j \in DOMAIN Bounds : i < j => Bounds[i] < Bounds[j]
    /\ Delays \subseteq Int /\ MaxObserved \in Nat
    /\ \A i \in DOMAIN Permilles : Permilles[i] \in 1..1000

VARIABLES
    bucket, count, sum,  \* the histogram
    obs,                 \* the observation in progress of each thread
    observed,            \* history: the bag of the values observed
    phase,               \* the HTTP thread: "idle", "text" or "quantiles"
    unread, snap,        \* what it has yet to load and what it has loaded
    overlap              \* history: the observations in progress at some
                         \* time of the current phase

metricsVars == <<bucket, count, sum, obs, observed, phase, unread, snap,
                 overlap>>

NB == Len(Bounds)

Cells == 1..NB + 1

NoSnap == [bucket |-> [i \in Cells |-> 0], count |-> 0]

NoObs == [todo |-> {}, v |-> 0, got |-> 0]

MetricsInit ==
    /\ bucket = [i \in Cells |-> 0] /\ count = 0 /\ sum = 0
    /\ obs = [t \in Observers |-> NoObs] /\ observed = EmptyBag
    /\ phase = "idle" /\ unread = {} /\ overlap = 0
    /\ snap = NoSnap

Active == {t \in Observers : obs[t].todo # {}}

----------------------------------------------------------------------------
(* observe_data_delay *)

Clamped(v) == IF v < 0 THEN 0 ELSE v

BucketOf(v) == Min({i \in 1..NB : v <= Bounds[i]} \cup {NB + 1})

Observe(t) ==
    /\ obs[t].todo = {} /\ BagCardinality(observed) < MaxObserved
    /\ \E v \in Delays :
        /\ obs' = [obs EXCEPT ![t] = [todo |-> {"bucket", "count", "load"},
                                      v |-> Clamped(v), got |-> 0]]
        /\ observed' = BagAdd(observed, Clamped(v))
    /\ overlap' = IF phase = "idle" THEN overlap ELSE overlap + 1
    /\ UNCHANGED <<bucket, count, sum, phase, unread, snap>>

Done(t, step, next) ==
    obs' = [obs EXCEPT ![t].todo = (@ \ {step}) \cup next]

AddBucket(t) ==
    /\ "bucket" \in obs[t].todo
    /\ bucket' = [bucket EXCEPT ![BucketOf(obs[t].v)] = @ + 1]
    /\ Done(t, "bucket", {})
    /\ UNCHANGED <<count, sum, observed, phase, unread, snap, overlap>>

AddCount(t) ==
    /\ "count" \in obs[t].todo
    /\ count' = count + 1
    /\ Done(t, "count", {})
    /\ UNCHANGED <<bucket, sum, observed, phase, unread, snap, overlap>>

(* atomic_add_double: the load, then compare_exchange_weak until it works. *)
LoadSum(t) ==
    /\ "load" \in obs[t].todo
    /\ obs' = [obs EXCEPT ![t].todo = (@ \ {"load"}) \cup {"cas"},
                          ![t].got = sum]
    /\ UNCHANGED <<bucket, count, sum, observed, phase, unread, snap, overlap>>

CasSum(t) ==
    /\ "cas" \in obs[t].todo
    /\ IF sum = obs[t].got
       THEN sum' = sum + obs[t].v /\ Done(t, "cas", {})
       ELSE sum' = sum /\ obs' = [obs EXCEPT ![t].got = sum]
    /\ UNCHANGED <<bucket, count, observed, phase, unread, snap, overlap>>

----------------------------------------------------------------------------
(* build_metrics_payload, under a mutex no observer takes *)

(***************************************************************************)
(* append_histogram_double reads the count and all buckets: the cells, 0   *)
(* for the count.  The sum is printed as it is loaded and left out.        *)
(***************************************************************************)
BeginText ==
    /\ phase = "idle"
    /\ phase' = "text"
    /\ unread' = Cells \cup {0}
    /\ overlap' = Cardinality(Active)
    /\ UNCHANGED <<bucket, count, sum, obs, observed, snap>>

Load ==
    /\ \E c \in unread :
        /\ unread' = unread \ {c}
        /\ snap' = IF c = 0 THEN [snap EXCEPT !.count = count]
                   ELSE [snap EXCEPT !.bucket[c] = bucket[c]]
    /\ UNCHANGED <<bucket, count, sum, obs, observed, phase, overlap>>

(* The text is complete; the buckets below +Inf and the count are read     *)
(* again for the quantiles.                                                *)
EndText ==
    /\ phase = "text" /\ unread = {}
    /\ phase' = "quantiles"
    /\ unread' = 0..NB
    /\ overlap' = Cardinality(Active)
    /\ snap' = NoSnap
    /\ UNCHANGED <<bucket, count, sum, obs, observed>>

(* The quantiles are appended and the page is complete. *)
EndQuantiles ==
    /\ phase = "quantiles" /\ unread = {}
    /\ phase' = "idle"
    /\ overlap' = 0
    /\ snap' = NoSnap
    /\ UNCHANGED <<bucket, count, sum, obs, observed, unread>>

----------------------------------------------------------------------------
(* The quantiles of a page *)

Cumulative(b, i) == MapThenSumSet(LAMBDA k : b[k], 1..i)

(* The count up to a bucket reaches the rank of quantile q. *)
Reaches(cum, total, q) == 1000 * cum >= q * total

(* Mutant: the position does not start from the previous bucket. *)
MutWithin(low, high, prev, n, total, q) ==
    <<low * 1000 * n + (high - low) * (q * total), 1000 * n>>

(* The linear interpolation between the bounds of a bucket. *)
Within(low, high, prev, n, total, q) ==
    <<low * 1000 * n + (high - low) * (q * total - 1000 * prev), 1000 * n>>

(* histogram_quantile_from_cumulative *)
Quantile(b, total, q) ==
    LET cum == [i \in 0..NB |-> Cumulative(b, i)]
        reach == {i \in 1..NB : Reaches(cum[i], total, q)}
        i == Min(reach)
    IN  CASE total = 0 -> <<0, 1>>
          [] total # 0 /\ reach = {} -> <<Bounds[NB], 1>>
          [] OTHER -> IF cum[i] = cum[i - 1] THEN <<Bounds[i], 1>>
                      ELSE Within(IF i = 1 THEN 0 ELSE Bounds[i - 1], Bounds[i],
                                  cum[i - 1], cum[i] - cum[i - 1], total, q)

----------------------------------------------------------------------------
MetricsNext ==
    \/ \E t \in Observers : \/ Observe(t) \/ AddBucket(t) \/ AddCount(t)
                            \/ LoadSum(t) \/ CasSum(t)
    \/ BeginText \/ Load \/ EndText \/ EndQuantiles

MetricsSpec == MetricsInit /\ [][MetricsNext]_metricsVars

----------------------------------------------------------------------------
MetricsTypeOK ==
    /\ bucket \in [Cells -> 0..MaxObserved]
    /\ {count, snap.count} \subseteq 0..MaxObserved /\ sum \in Nat
    /\ \A t \in Observers : obs[t].todo \subseteq {"bucket", "count", "load",
                                                   "cas"}
    /\ phase \in {"idle", "text", "quantiles"}
    /\ unread \subseteq 0..NB + 1

Leq(a, b) == a[1] * b[2] <= b[1] * a[2]

(***************************************************************************)
(* However the loads fall between updates, the quantiles exported together *)
(* ascend and stay between zero and the last bound.  One taken while       *)
(* nothing is observed lies in the bucket of the value it estimates: the   *)
(* smallest one that the share q of all values does not exceed; beyond the *)
(* last bound it is that bound.                                            *)
(***************************************************************************)
QuantilesOrdered ==
    /\ phase = "quantiles" /\ unread = {} =>
            \A k \in DOMAIN Permilles :
                LET est == Quantile(snap.bucket, snap.count, Permilles[k])
                IN  /\ Leq(<<0, 1>>, est) /\ Leq(est, <<Bounds[NB], 1>>)
                    /\ k > 1 => Leq(Quantile(snap.bucket, snap.count,
                                             Permilles[k - 1]), est)
    /\ phase = "quantiles" /\ unread = {} /\ overlap = 0 /\ observed # EmptyBag =>
            \A k \in DOMAIN Permilles :
                LET q == Permilles[k]
                    est == Quantile(snap.bucket, snap.count, q)
                    UpTo(v) == MapThenSumSet(LAMBDA w : observed[w],
                                             {w \in DOMAIN observed : w <= v})
                    i == BucketOf(Min({v \in DOMAIN observed :
                            1000 * UpTo(v) >= q * BagCardinality(observed)}))
                IN  IF i = NB + 1 THEN est = <<Bounds[NB], 1>>
                    ELSE /\ Leq(est, <<Bounds[i], 1>>)
                         /\ i > 1 => ~Leq(est, <<Bounds[i - 1], 1>>)
=============================================================================
