------------------------------- MODULE Metrics -------------------------------
(***************************************************************************)
(* What handlers measure, from BufferedMetrics of the dispatch context to  *)
(* the registry of packages/prometheus or the client of packages/statsd.   *)
(* A handler's metrics are kept until it has returned, dropped when it     *)
(* throws, and recorded together by complete().  Handlers run concurrently *)
(* and the registry may be read between any two of their steps.            *)
(* peer is the connection of each scraper, channel the registry with its   *)
(* server, or the client and what its server has received, app the         *)
(* handlers; made counts how often each message's context was completed.   *)
(***************************************************************************)
EXTENDS Conversation

CONSTANTS Calls, Retries, Scrapers,
          Amount,   \* [message -> what its handler adds to a counter]
          Label,    \* [message -> the value of its label], "" is none
          Buckets   \* the upper bounds of a histogram

Kinds == <<"counter", "gauge", "timing">>   \* in the order in which a handler measures
Labels == {Label[m] : m \in Calls}
Time(m) == m
Prometheus == channel.kind = "prometheus"

EmptyHistogram == [count |-> 0, sum |-> 0, buckets |-> [i \in 1 .. Len(Buckets) + 1 |-> 0]]
NoReport == [counter |-> [l \in Labels |-> 0], gauge |-> [l \in Labels |-> 0],
             timing |-> [l \in Labels |-> EmptyHistogram]]
Init == \E k \in {"prometheus", "statsd"} :
  /\ SharedInit /\ peer = [s \in Scrapers |-> "away"]
  /\ channel = [kind |-> k, report |-> NoReport, pending |-> <<>>, sockets |-> {}, lost |-> FALSE]
  /\ app = [m \in Calls |-> [pc |-> "handle", try |-> 1, buffer |-> <<>>, made |-> 0]]

TypeOK ==
  /\ SharedTypeOK /\ peer \in [Scrapers -> {"away", "open"}] /\ channel.sockets \subseteq Scrapers
  /\ \A m \in Calls : /\ app[m].pc \in {"handle", "done"} /\ app[m].try \in 1 .. Retries + 1
                      /\ IsPrefix(app[m].buffer, Kinds) /\ app[m].made \in Nat

\* Counters refuse to go down.  The loop over the buckets starts at the
\* largest and ends at the first that is below the value; the last one, for
\* all values, was counted before.
Increment(n, by) == IF by < 0 THEN n ELSE n + by
ReachedFrom(i, v) == \A j \in i .. Len(Buckets) : v <= Buckets[j]
Observe(h, v) == [count |-> h.count + 1, sum |-> h.sum + v,
                  buckets |-> [i \in DOMAIN h.buckets |-> h.buckets[i] + (IF ReachedFrom(i, v) THEN 1 ELSE 0)]]
Recorded(r, m, k) ==
  CASE k = "counter" -> [r EXCEPT !.counter[Label[m]] = Increment(@, Amount[m])]
    [] k = "gauge" -> [r EXCEPT !.gauge[Label[m]] = m]
    [] k = "timing" -> [r EXCEPT !.timing[Label[m]] = Observe(@, Time(m))]

\* increment, gauge and timing of the context: they are only noted.
Measure(m) ==
  /\ app[m].pc = "handle" /\ Len(app[m].buffer) < Len(Kinds)
  /\ app' = [app EXCEPT ![m].buffer = Append(@, Kinds[Len(@) + 1])] /\ UNCHANGED <<peer, channel, phase, faults>>

\* complete(): all of them are recorded, in one step.  The StatsD client
\* buffers them, and has nothing to do with them once it is closed.
Flush(m) ==
  IF Prometheus THEN [channel EXCEPT !.report = FoldLeft(LAMBDA r, k : Recorded(r, m, k), @, app[m].buffer)]
  ELSE IF phase = "run" THEN [channel EXCEPT !.pending = @ \o [i \in DOMAIN app[m].buffer |-> <<m, app[m].buffer[i]>>]]
  ELSE [channel EXCEPT !.lost = TRUE]
Complete(m) ==
  /\ app[m].pc = "handle" /\ Len(app[m].buffer) = Len(Kinds) /\ channel' = Flush(m)
  /\ app' = [app EXCEPT ![m] = [@ EXCEPT !.pc = "done", !.buffer = <<>>, !.made = app[m].made + 1]]
  /\ UNCHANGED <<peer, phase, faults>>

\* The handler throws: the buffer is cleared and it is tried again, or the
\* message is given up.  What it published may be invalid: it is cleared too.
Throws(m) ==
  /\ app[m].pc = "handle" /\ Fault
  /\ app' = [app EXCEPT ![m] = IF @.try <= Retries THEN [@ EXCEPT !.try = app[m].try + 1, !.buffer = <<>>]
                                                   ELSE [@ EXCEPT !.pc = "done", !.buffer = <<>>]]
  /\ UNCHANGED <<peer, channel, phase>>
Invalid(m) ==
  /\ app[m].pc = "handle" /\ app[m].buffer # <<>> /\ Fault
  /\ app' = [app EXCEPT ![m].pc = "done", ![m].buffer = <<>>] /\ UNCHANGED <<peer, channel, phase>>

\* Its context conflicts in the sink: the message is handled anew, in a new
\* context.
HandledAnew(m) ==
  /\ app[m].pc = "done" /\ app[m].made > 0 /\ Fault
  /\ app' = [app EXCEPT ![m].pc = "handle", ![m].try = 1] /\ UNCHANGED <<peer, channel, phase>>

\* The StatsD client sends what it has buffered; UDP may lose it.
Send ==
  /\ channel.pending # <<>> /\ UNCHANGED <<peer, app, phase>>
  /\ \/ NoFault /\ channel' = [channel EXCEPT !.pending = <<>>, !.report =
          FoldLeft(LAMBDA r, p : IF p[2] = "counter" THEN [r EXCEPT !.counter[Label[p[1]]] = @ + Amount[p[1]]]
                                 ELSE Recorded(r, p[1], p[2]), @, channel.pending)]
     \/ Fault /\ channel' = [channel EXCEPT !.pending = <<>>, !.lost = TRUE]

\* A scraper connects, and stays connected between its requests, or leaves.
Connects(s) ==
  /\ Prometheus /\ phase = "run" /\ peer[s] = "away" /\ peer' = [peer EXCEPT ![s] = "open"]
  /\ channel' = [channel EXCEPT !.sockets = @ \cup {s}] /\ UNCHANGED <<app, phase, faults>>
Leaves(s) ==
  /\ peer[s] = "open" /\ peer' = [peer EXCEPT ![s] = "away"]
  /\ channel' = [channel EXCEPT !.sockets = @ \ {s}] /\ UNCHANGED <<app, phase, faults>>

\* dispose(): every socket is destroyed, and the server stops listening; it
\* is closed when there is no connection, the client when it has sent all.
Dispose ==
  /\ phase = "run" /\ phase' = "stop" /\ channel' = [channel EXCEPT !.sockets = {}]
  /\ peer' = [s \in Scrapers |-> IF s \in channel.sockets THEN "away" ELSE peer[s]]
  /\ UNCHANGED <<app, faults>>
Disposed ==
  /\ phase = "stop" /\ (\A s \in Scrapers : peer[s] = "away") /\ channel.pending = <<>>
  /\ phase' = "end" /\ UNCHANGED <<peer, channel, app, faults>>

Progress == Send \/ Disposed
Next == \/ Progress \/ Dispose
        \/ \E m \in Calls : Measure(m) \/ Complete(m) \/ Throws(m) \/ Invalid(m) \/ HandledAnew(m)
        \/ \E s \in Scrapers : Connects(s) \/ Leaves(s)

\* Whenever it is read, the registry counts every completed context whole, and
\* nothing of an attempt that threw or has not returned; each bucket counts
\* the values up to its bound, and the last one all.  StatsD's server has all
\* but what waits in the client or was lost.
Sum(f(_), S) == FoldSet(LAMBDA m, n : f(m) + n, 0, S)
Having(l) == {m \in Calls : Label[m] = l}
Tally(l, S) == Sum(LAMBDA m : app[m].made, S \cap Having(l))
Up == {m \in Calls : Prometheus => Amount[m] >= 0}
Tallied == Prometheus \/ (channel.pending = <<>> /\ ~channel.lost) => \A l \in Labels :
  /\ channel.report.counter[l] = Sum(LAMBDA m : app[m].made * Amount[m], Up \cap Having(l))
  /\ LET h == channel.report.timing[l] IN
     /\ h.count = Tally(l, Calls) /\ h.buckets[Len(Buckets) + 1] = h.count
     /\ h.sum = Sum(LAMBDA m : app[m].made * Time(m), Having(l))
     /\ \A i \in DOMAIN Buckets : h.buckets[i] = Tally(l, {m \in Calls : Time(m) <= Buckets[i]})
Ordered == Tallied /\ channel.sockets = {s \in Scrapers : peer[s] = "open"}
CountedOnce == \A m \in Calls : app[m].made <= 1
Promised == phase = "stop"
Kept == phase = "end"
=============================================================================
