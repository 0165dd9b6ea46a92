------------------------------- MODULE Limits -------------------------------
(***************************************************************************)
(* The books a server keeps in memory: token buckets (allow of the server  *)
(* block's rate_limit in interpreter.go, the builtin rate_limit in         *)
(* rate_limit.go) and metrics (metrics.go).  Time passes in ticks; tokens  *)
(* are counted in parts, so that a tick refills a whole number of them.    *)
(***************************************************************************)
EXTENDS Integers, Sequences, FiniteSets, FiniteSetsExt, SequencesExt

CONSTANTS Clients,      \* keys of the buckets: IP addresses, or keys of rate_limit
          Budgets,      \* [max, window]: what rate_limit is called with
          Parts,        \* parts of one token, a multiple of each window
          Bounds,       \* histogramBuckets
          Labels,       \* label sets, as sequences of [name, value] sorted by name
          Amounts, MetricNames,
          MaxTime, MaxCalls, MaxRecords

ASSUME LimitsAssumption ==
    /\ Parts \in Nat \ {0} /\ Budgets \subseteq [max : Nat \ {0}, window : Nat \ {0}]
    /\ \A b \in Budgets : Parts % b.window = 0
    /\ Bounds \in Seq(Int) /\ \A j, k \in DOMAIN Bounds : j <= k => Bounds[j] <= Bounds[k]
    /\ Amounts \subseteq Int

VARIABLES now,
          bucket,    \* [Clients -> its bucket], NoBucket before the first call
          asked,     \* history: the calls since the bucket was made
          registry,  \* a set of metrics [name, kind, series]
          observed   \* history: the records made, in order

limitVars == <<now, bucket, asked, registry, observed>>

Bucket(tokens, b, at) == [tokens |-> tokens, capacity |-> b.max, rate |-> (b.max * Parts) \div b.window, last |-> at]
NoBucket == [tokens |-> 0, capacity |-> 0, rate |-> 0, last |-> -1]

LimitsInit ==
    /\ now = 0
    /\ bucket = [c \in Clients |-> NoBucket]
    /\ asked = [c \in Clients |-> <<>>]
    /\ registry = {} /\ observed = <<>>

-----------------------------------------------------------------------------
(* Token buckets *)

LeastOf(x, y) == IF x < y THEN x ELSE y

\* Mutant: the time of the last call is not moved on.
RefilledAgain(b, budget) ==
    LET full == [b EXCEPT !.tokens = LeastOf(b.capacity * Parts, b.tokens + (now - b.last) * b.rate)]
    IN  IF budget.max = b.capacity THEN full
        ELSE Bucket(LeastOf(full.tokens, budget.max * Parts), budget, now)

\* The refill since the last call; a call with another max changes the shape.
\* One with the same max and another window does not.
Refilled(b, budget) ==
    LET full == [b EXCEPT !.tokens = LeastOf(b.capacity * Parts, b.tokens + (now - b.last) * b.rate), !.last = now]
    IN  IF budget.max = b.capacity THEN full
        ELSE Bucket(LeastOf(full.tokens, budget.max * Parts), budget, now)

\* The first call finds a full bucket.
Allow(c, budget) ==
    LET b == IF bucket[c] = NoBucket THEN Bucket(budget.max * Parts, budget, now) ELSE Refilled(bucket[c], budget)
        granted == b.tokens >= Parts
    IN  /\ Len(asked[c]) < MaxCalls
        /\ bucket' = [bucket EXCEPT ![c] = IF granted THEN [b EXCEPT !.tokens = @ - Parts] ELSE b]
        /\ asked' = [asked EXCEPT ![c] = Append(@, [at |-> now, granted |-> granted, budget |-> budget])]
        /\ UNCHANGED <<now, registry, observed>>

\* rate_limit_reset of one key.
Reset(c) ==
    /\ bucket[c] # NoBucket
    /\ bucket' = [bucket EXCEPT ![c] = NoBucket]
    /\ asked' = [asked EXCEPT ![c] = <<>>]
    /\ UNCHANGED <<now, registry, observed>>

LimitTick == now < MaxTime /\ now' = now + 1 /\ UNCHANGED <<bucket, asked, registry, observed>>

-----------------------------------------------------------------------------
(* Metrics *)

\* fingerprintLabels: name=value, joined by commas; a value is a sequence of
\* symbols and may hold those of the format.
Fingerprint(labels) ==
    FlattenSeq([ k \in DOMAIN labels |->
        (IF k > 1 THEN <<",">> ELSE <<>>) \o <<labels[k].name, "=">> \o labels[k].value ])

Series(fp, labels) == [fp |-> fp, labels |-> labels, value |-> 0, sum |-> 0, buckets |-> [k \in 1 .. Len(Bounds) + 1 |-> 0]]
BucketOf(amount) ==
    LET under == {k \in DOMAIN Bounds : amount <= Bounds[k]}
    IN  IF under = {} THEN Len(Bounds) + 1 ELSE Min(under)

Recorded(s, kind, amount) ==
    CASE kind = "counter"   -> [s EXCEPT !.value = @ + amount]
      [] kind = "gauge"     -> [s EXCEPT !.value = amount]
      [] kind = "histogram" -> [s EXCEPT !.value = @ + 1, !.sum = @ + amount, !.buckets[BucketOf(amount)] = @ + 1]

\* record: the first use of a name fixes its kind, and records of another kind are
\* dropped.
RecordMetric(name, kind, amount, labels) ==
    LET known == {m \in registry : m.name = name}
        metric == IF known = {} THEN [name |-> name, kind |-> kind, series |-> {}] ELSE CHOOSE m \in known : TRUE
        fp == Fingerprint(labels)
        same == {s \in metric.series : s.fp = fp}
        old == IF same = {} THEN Series(fp, labels) ELSE CHOOSE s \in same : TRUE
    IN  /\ Len(observed) < MaxRecords
        /\ registry' = IF metric.kind # kind THEN registry
                       ELSE (registry \ known) \cup
                            {[metric EXCEPT !.series = (@ \ same) \cup {Recorded(old, kind, amount)}]}
        /\ observed' = Append(observed, [name |-> name, kind |-> kind, amount |-> amount, labels |-> labels])
        /\ UNCHANGED <<now, bucket, asked>>

ResetMetrics ==
    /\ registry # {}
    /\ registry' = {} /\ observed' = <<>>
    /\ UNCHANGED <<now, bucket, asked>>

\* The sums of the first k of a sequence of integers.
Sums(a) == LET upto[k \in 0 .. Len(a)] == IF k = 0 THEN 0 ELSE upto[k - 1] + a[k] IN upto

\* expositionString: the buckets of a histogram are cumulative.
Cumulative(s) == Sums(s.buckets)

BucketsNext == LimitTick \/ \E c \in Clients : Reset(c) \/ \E b \in Budgets : Allow(c, b)
MetricsNext ==
    \/ \E n \in MetricNames, kind \in {"counter", "gauge", "histogram"}, a \in Amounts, l \in Labels :
          RecordMetric(n, kind, a, l)
    \/ ResetMetrics

LimitsSpec == LimitsInit /\ [][BucketsNext \/ MetricsNext]_limitVars

-----------------------------------------------------------------------------
(* Properties *)

\* A token bucket admits a call exactly when no stretch of time that ends with it
\* would hold more than the capacity and what the stretch refills: nearly twice the
\* capacity in one window, never more, and a client that waited is never refused
\* (rate_limit.go: "The first call after a long pause sees a full bucket.").  Asked
\* of keys that are used with one budget.
Fits(calls, k) ==
    \A j \in 1 .. k :
        LET granted == Cardinality({ i \in j .. k - 1 : calls[i].granted })
            budget == calls[k].budget
        IN  (j = k \/ calls[j].granted) =>
              (granted + 1) * Parts <= budget.max * Parts + (calls[k].at - calls[j].at) * ((budget.max * Parts) \div budget.window)
BucketsMatch ==
    \A c \in Clients :
       (\A i, j \in DOMAIN asked[c] : asked[c][i].budget = asked[c][j].budget)
          => \A k \in DOMAIN asked[c] : asked[c][k].granted = Fits(asked[c], k)

\* What a scrape shows of a series is what was recorded with its labels: the sum, the
\* last value, or the number of observations up to each bound.  Records of a name
\* used with another kind before are lost; label sets that write the same
\* fingerprint share a series.
Uses(name) == {k \in DOMAIN observed : observed[k].name = name}
Own(m, fp) == {k \in Uses(m.name) : observed[k].kind = m.kind /\ Fingerprint(observed[k].labels) = fp}
Total(places) ==
    Sums([k \in DOMAIN observed |-> IF k \in places THEN observed[k].amount ELSE 0])[Len(observed)]

Shows(s, kind, own) ==
    CASE kind = "counter"   -> s.value = Total(own)
      [] kind = "gauge"     -> s.value = observed[Max(own)].amount
      [] kind = "histogram" ->
           /\ s.sum = Total(own) /\ s.value = Cardinality(own)
           /\ \A k \in DOMAIN Bounds : Cumulative(s)[k] = Cardinality({i \in own : observed[i].amount <= Bounds[k]})
           /\ Cumulative(s)[Len(Bounds) + 1] = Cardinality(own)

SeriesMatch ==
    \A m \in registry :
       /\ m.kind = observed[Min(Uses(m.name))].kind
       /\ \A s \in m.series : Shows(s, m.kind, Own(m, s.fp))

\* The books agree with their history.
BooksMatchHistory == BucketsMatch /\ SeriesMatch
=============================================================================
