----------------------------- MODULE CheckState -----------------------------
(***************************************************************************)
(* The remembered state of one check (the JSON column checks.state), read  *)
(* and rewritten by three handlers:                                        *)
(*   - a run (services/scheduler.ts) judges the check by the row the tick  *)
(*     read: a trap or syslog check by the events since state.resolvedAt,  *)
(*     a heartbeat by the time since state.lastPingAt;                     *)
(*   - a ping (routes/public.ts) writes lastPingAt into the state it read; *)
(*   - a resolve (services/alerting.ts) writes resolvedAt the same way.    *)
(* Each reads the row, awaits, writes or judges, awaits, and records a     *)
(* result; where `overlapping' is FALSE one finishes before the next       *)
(* starts.                                                                 *)
(*                                                                         *)
(* Times are ages: they grow together, up to Old, and a new stamp is a     *)
(* moment of its own, younger than all others.                             *)
(***************************************************************************)
EXTENDS Integers, FiniteSets

CONSTANTS
  Handlers,     \* runs, pings and resolves under way at once
  Limit,        \* autoRecoverMinutes, or the interval with its grace
  Old           \* the oldest age told apart

ASSUME StateAssumption ==
  /\ Limit \in Nat /\ Old \in Nat /\ Limit < Old

VARIABLES
  type,         \* the check's type: "event" or "heartbeat"
  overlapping,  \* may a handler start while another is under way?
  stored,   \* the state column: the ages of resolvedAt and lastPingAt (Old: not there)
  truth,    \* when the newest resolve and ping really were, as stored should have it
  events,   \* the ages of the newest failing and of the newest clearing event
  last,     \* the newest result: its status and who recorded it
  at,       \* at[h]: the next step of handler h
  seen,     \* seen[h]: the state it read
  outcome   \* outcome[h]: the status it is going to record

settings == <<type, overlapping>>
handlers == <<at, outcome>>
statevars == <<settings, stored, truth, events, last, at, seen, outcome>>

Ages == 0 .. Old
Older(age) == IF age < Old THEN age + 1 ELSE Old
Aged(ages) == [k \in DOMAIN ages |-> Older(ages[k])]

StateStatuses == {"up", "warn", "down"}
Recorders == {"run", "pinged", "resolved"}
Steps == {"idle", "judge", "ping", "resolve"} \cup Recorders

StateInit ==
  /\ type \in {"event", "heartbeat"} /\ overlapping \in BOOLEAN
  /\ stored = [resolvedAt |-> Old, lastPingAt |-> 0]   \* no ping yet: counted from createdAt
  /\ truth = stored
  /\ events = [failing |-> Old, clearing |-> Old]
  /\ last = [status |-> "up", by |-> "run"]
  /\ at = [h \in Handlers |-> "idle"]
  /\ seen = [h \in Handlers |-> stored]
  /\ outcome = [h \in Handlers |-> "up"]

\* Time passes: a moment that stamps nothing, an event, or a state.
Pass ==
  /\ stored' = Aged(stored)
  /\ truth' = Aged(truth)
  /\ events' = Aged(events)
  /\ seen' = [h \in Handlers |-> Aged(seen[h])]
  /\ UNCHANGED <<settings, last, handlers>>

\* A matching event is stored: by the trap or syslog receiver, or from a collector.
Event(which) ==
  /\ type = "event"
  /\ stored' = Aged(stored)
  /\ truth' = Aged(truth)
  /\ events' = [Aged(events) EXCEPT ![which] = 0]
  /\ seen' = [h \in Handlers |-> Aged(seen[h])]
  /\ UNCHANGED <<settings, last, handlers>>

-----------------------------------------------------------------------------
Free(h) == at[h] = "idle" /\ (overlapping \/ \A g \in Handlers : at[g] = "idle")

\* The row is read: by the tick's query, by the ping's token, by resolveCheck.
Read(h, step) ==
  /\ Free(h)
  /\ step = "ping" => type = "heartbeat"
  /\ at' = [at EXCEPT ![h] = step]
  /\ seen' = [seen EXCEPT ![h] = stored]
  /\ UNCHANGED <<settings, stored, truth, events, last, outcome>>

\* A resolve is asked for by hand, or because nothing more was pushed for a while to a
\* value that failed (for how long is left to chance).
ResolveByHand(h) == Read(h, "resolve")
autoRecoverPushed(h) == type = "heartbeat" /\ last.status # "up" /\ Read(h, "resolve")

\* Mutated forms of Failing: a resolve is not looked at; only a ping that is still
\* remembered can be overdue.
FailingUnresolved(state) ==
  IF type = "event" THEN events.failing <= Limit /\ events.failing < events.clearing
  ELSE state.lastPingAt > Limit

FailingIfPinged(state) ==
  IF type = "event"
  THEN events.failing <= Limit /\ events.failing < state.resolvedAt /\ events.failing < events.clearing
  ELSE state.lastPingAt > Limit /\ state.lastPingAt < Old

\* probeEventMatch: is the newest failing event recent, and newer than the newest
\* resolve and the newest clearing event?  probePushStaleness: is a ping overdue?
Failing(state) ==
  IF type = "event"
  THEN events.failing <= Limit /\ events.failing < state.resolvedAt /\ events.failing < events.clearing
  ELSE state.lastPingAt > Limit

\* Mutated form of Judge: a check that is not failing records nothing.
JudgeFailures(h) ==
  /\ at[h] = "judge"
  /\ outcome' = [outcome EXCEPT ![h] = IF Failing(seen[h]) THEN "down" ELSE "up"]
  /\ at' = [at EXCEPT ![h] = IF Failing(seen[h]) THEN "run" ELSE "idle"]
  /\ UNCHANGED <<settings, stored, truth, events, last, seen>>

\* A heartbeat that is not overdue records nothing.
Judge(h) ==
  /\ at[h] = "judge"
  /\ outcome' = [outcome EXCEPT ![h] = IF Failing(seen[h]) THEN "down" ELSE "up"]
  /\ at' = [at EXCEPT ![h] = IF Failing(seen[h]) \/ type = "event" THEN "run" ELSE "idle"]
  /\ UNCHANGED <<settings, stored, truth, events, last, seen>>

\* Mutated form of Write: the state is reset first.
WriteReset(h, step, key, status) ==
  /\ at[h] = step
  /\ stored' = [k \in DOMAIN stored |-> IF k = key THEN 0 ELSE Old]
  /\ truth' = [Aged(truth) EXCEPT ![key] = 0]
  /\ events' = Aged(events)
  /\ seen' = [g \in Handlers |-> Aged(seen[g])]
  /\ outcome' = [outcome EXCEPT ![h] = status]
  /\ at' = [at EXCEPT ![h] = IF step = "ping" THEN "pinged" ELSE "resolved"]
  /\ UNCHANGED <<settings, last>>

\* { ...check.state, key: now }: the state as it was read, with a new stamp.
Write(h, step, key, status) ==
  /\ at[h] = step
  /\ stored' = [Aged(seen[h]) EXCEPT ![key] = 0]
  /\ truth' = [Aged(truth) EXCEPT ![key] = 0]
  /\ events' = Aged(events)
  /\ seen' = [g \in Handlers |-> Aged(seen[g])]
  /\ outcome' = [outcome EXCEPT ![h] = status]
  /\ at' = [at EXCEPT ![h] = IF step = "ping" THEN "pinged" ELSE "resolved"]
  /\ UNCHANGED <<settings, last>>

Ping(h, status) == Write(h, "ping", "lastPingAt", status)
Resolve(h) == Write(h, "resolve", "resolvedAt", "up")

\* recordCheckResult, in one step here (AlertRace.tla splits it).
Record(h, by) ==
  /\ at[h] = by
  /\ last' = [status |-> outcome[h], by |-> by]
  /\ at' = [at EXCEPT ![h] = "idle"]
  /\ UNCHANGED <<settings, stored, truth, events, seen, outcome>>

StateNext ==
  \/ Pass
  \/ \E which \in {"failing", "clearing"} : Event(which)
  \/ \E h \in Handlers : (\E step \in {"judge", "ping"} : Read(h, step)) \/ ResolveByHand(h) \/ autoRecoverPushed(h)
  \/ \E h \in Handlers : Judge(h)
  \/ \E h \in Handlers : \E status \in StateStatuses : Ping(h, status)
  \/ \E h \in Handlers : Resolve(h)
  \/ \E h \in Handlers : \E by \in Recorders : Record(h, by)

-----------------------------------------------------------------------------
StateTypeOK ==
  /\ type \in {"event", "heartbeat"} /\ overlapping \in BOOLEAN
  /\ stored \in [{"resolvedAt", "lastPingAt"} -> Ages]
  /\ truth \in [{"resolvedAt", "lastPingAt"} -> Ages]
  /\ events \in [{"failing", "clearing"} -> Ages]
  /\ last \in [status : StateStatuses, by : Recorders]
  /\ at \in [Handlers -> Steps]
  /\ seen \in [Handlers -> [{"resolvedAt", "lastPingAt"} -> Ages]]
  /\ outcome \in [Handlers -> StateStatuses]

JudgedDown(h) == at[h] = "judge" /\ at'[h] = "run" /\ outcome'[h] = "down"

\* Handled one at a time, runs, pings and resolves lose no stamp: the state holds the
\* newest resolve and the newest ping.
StampsAreKept == ~ overlapping => stored = truth

\* A check is judged down for something that is still so: an event newer than the
\* newest resolve and the newest clearing event; a ping that is really overdue.
NewsIsBad ==
  IF type = "event"
  THEN events.failing < truth.resolvedAt /\ events.failing < events.clearing
  ELSE truth.lastPingAt > Limit

\* It holds of handlers that run one at a time.
DownForAReason ==
  [][\A h \in Handlers : ~ overlapping /\ JudgedDown(h) => NewsIsBad]_statevars

\* Time alone tells, whatever stale handlers wrote meanwhile: an event check ends up
\* healthy once no failing event arrives any more, and a heartbeat whose job silently
\* stops, so that the pings and the resolves end, ends up down.
TimeTells ==
  /\ type = "event" /\ <>[](events.failing > Limit) => <>[](last.status = "up")
  /\ /\ type = "heartbeat"
     /\ <>[](/\ truth.lastPingAt = Old
             /\ \A h \in Handlers : at[h] \notin {"ping", "resolve", "pinged", "resolved"})
     => <>[](last.status = "down")
=============================================================================
