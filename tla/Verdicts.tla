------------------------------ MODULE Verdicts ------------------------------
\* The four statuses of a check, the thresholds that are applied to every result
\* (src/engine/src/services/thresholds.ts), and how a probe comes to a status.  A
\* setting or a measurement that may be missing (null) is a set with at most one number.
EXTENDS Integers, Sequences, FiniteSets

Statuses == {"up", "unknown", "warn", "down"}

RANK == [up |-> 0, unknown |-> 1, warn |-> 2, down |-> 3]

Worst(a, b) == IF RANK[a] >= RANK[b] THEN a ELSE b

\* A value against the thresholds of readValueThresholds, the critical ones first.
EvaluateValue(v, t) ==
  IF (\E x \in t.criticalBelow : v < x) \/ (\E x \in t.criticalAbove : v > x) THEN "down"
  ELSE IF (\E x \in t.warnBelow : v < x) \/ (\E x \in t.warnAbove : v > x) THEN "warn"
  ELSE "up"

\* The status after the value (nothing to judge a result by that is already down).
AfterValue(status, value, t) ==
  IF status # "down" /\ \E v \in value : RANK[EvaluateValue(v, t)] > RANK[status]
  THEN EvaluateValue(CHOOSE v \in value : TRUE, t) ELSE status

AfterLatency(status, latency, t) ==
  IF status = "down" THEN status
  ELSE IF \E l \in latency : \E x \in t.latencyCriticalMs : l > x THEN "down"
  ELSE IF RANK[status] < RANK["warn"] /\ \E l \in latency : \E x \in t.latencyWarnMs : l > x THEN "warn"
  ELSE status

\* applyThresholds, for an engine's or an agent's result.
ApplyThresholds(status, value, latency, t) ==
  AfterLatency(AfterValue(status, value, t), latency, t)

-----------------------------------------------------------------------------
\* How a probe comes to a status, the engine's (src/engine/src/services/probes) and the
\* agent's (src/agent/internal/checks) alike.
\*
\* A probe asks its questions in an order; each is a fact that is present or not when
\* the probe runs.  The first fact that is present decides (an early return), and with
\* none the check is up.  Some probes look at several parts of a device and take the
\* worst of them.

Fault(f, s) == [fact |-> f, status |-> s, kind |-> "fault"]
Down(f) == Fault(f, "down")
Warn(f) == Fault(f, "warn")
Unknown(f) == Fault(f, "unknown")

\* Settings the probe can't work with: they do not change by themselves.  The engine
\* says warn, an agent unknown.
Setup(f) == [fact |-> f, status |-> "warn", kind |-> "setup"]
Unset(f) == [fact |-> f, status |-> "unknown", kind |-> "setup"]

Blind(f, s) == [fact |-> f, status |-> s, kind |-> "blind"]       \* the probe can't look any further
Passed(f) == [fact |-> f, status |-> "up", kind |-> "passed"]     \* the code lets this pass
Silent(f) == [fact |-> f, status |-> "none", kind |-> "silent"]   \* no result is recorded

\* A probe: the questions in their order, then the parts of which the worst counts.
InOrder(questions) == [order |-> questions, parts |-> {}]

Questions(probe) == {probe.order[i] : i \in DOMAIN probe.order} \union probe.parts

FactsOf(probe, kinds) == {q.fact : q \in {q \in Questions(probe) : q.kind \in kinds}}

\* What the probe returns when these facts are present.
Outcome(probe, facts) ==
  LET asked == {i \in DOMAIN probe.order : probe.order[i].fact \in facts}
      found == {q.status : q \in {q \in probe.parts : q.fact \in facts}} \union {"up"}
  IN IF asked # {} THEN probe.order[CHOOSE i \in asked : \A j \in asked : i <= j].status
     ELSE CHOOSE s \in found : \A r \in found : RANK[s] >= RANK[r]
=============================================================================
