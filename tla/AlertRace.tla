------------------------------ MODULE AlertRace ------------------------------
(***************************************************************************)
(* One check, one alert rule, and several handlers: recordCheckResult and  *)
(* evaluateAlertRules (services/alerting.ts) split at their awaits, next   *)
(* to the one-minute pass of processOpenAlerts.                            *)
(*                                                                         *)
(* Every database call is an await, so another handler may run between     *)
(* any two of them: the scheduler and "Run now" can run the same check at  *)
(* once, an agent resends a report the engine is still storing, a person   *)
(* resolves a check while its probe reports.  Overlapping = FALSE is the   *)
(* engine on its own (services/scheduler.ts keeps a check it runs out of   *)
(* the next tick); there AlertRace behaves as Alerting.tla says.           *)
(*                                                                         *)
(* Parents, flapping, maintenance and timeouts are in Alerting.tla.        *)
(***************************************************************************)
EXTENDS Integers, Sequences, FiniteSets

CONSTANTS
  Handlers,             \* results of the check that can be under way at once
  Overlapping,          \* may a result arrive while another is being handled?
  Nagging,              \* does the rule remind and escalate?
  Reports,              \* the statuses reported
  ConsecutiveFailures,  \* of the rule, which fires on "down"
  MaxResults            \* bound on the results that arrive

ASSUME RaceAssumption ==
  /\ Overlapping \in BOOLEAN /\ Nagging \in BOOLEAN
  /\ Reports \subseteq {"up", "warn", "down", "unknown"}
  /\ ConsecutiveFailures \in Nat \ {0}
  /\ MaxResults \in Nat

VARIABLES
  clock,    \* Date.now(): one tick per result that arrives
  results,  \* check_results: records of at (checkedAt) and status
  row,      \* checks.lastStatus with its lastCheckedAt
  events,   \* alert_events in order of triggeredAt: open, escalated, and what each
            \* audience heard of it last
  pc,       \* pc[h]: the next step of handler h
  job,      \* job[h]: its local variables
  passPc,   \* the next step of processOpenAlerts
  todo      \* what that pass still has to do: the events it read, as it read them

vars == <<clock, results, row, events, pc, job, passPc, todo>>
handling == <<clock, results, row, pc, job>>

Audiences == {"primary", "escalation"}
NoJob == [at |-> 0, status |-> "none", failing |-> FALSE, event |-> 0, escalated |-> FALSE]

Init ==
  /\ clock = 0
  /\ results = {}
  /\ row = [at |-> 0, status |-> "none"]
  /\ events = <<>>
  /\ pc = [h \in Handlers |-> "idle"]
  /\ job = [h \in Handlers |-> NoJob]
  /\ passPc = "idle"
  /\ todo = {}

Quiet == passPc = "idle" /\ \A h \in Handlers : pc[h] = "idle"

Newest(n) == { x \in results : Cardinality({ y \in results : y.at > x.at }) < n }
AllFailing ==
  /\ Cardinality(results) >= ConsecutiveFailures
  /\ \A x \in Newest(ConsecutiveFailures) : x.status = "down"

OpenEvents == { i \in DOMAIN events : events[i].open }
LatestOpen == IF OpenEvents = {} THEN 0 ELSE CHOOSE i \in OpenEvents : \A j \in OpenEvents : j <= i

Goto(h, step) == pc' = [pc EXCEPT ![h] = step]

\* notify: what each audience of event i in to heard last.
Heard(i, to, kind) ==
  events' = [events EXCEPT ![i].heard = [a \in Audiences |-> IF a \in to THEN kind ELSE @[a]]]

Audience(escalated) == IF escalated THEN Audiences ELSE {"primary"}

-----------------------------------------------------------------------------
\* recordCheckResult is called; its check row is read and the result stamped.
Receive(h, status) ==
  /\ pc[h] = "idle" /\ clock < MaxResults
  /\ Overlapping \/ \A g \in Handlers : pc[g] = "idle"
  /\ clock' = clock + 1
  /\ job' = [job EXCEPT ![h] = [NoJob EXCEPT !.at = clock + 1, !.status = status]]
  /\ Goto(h, "insert")
  /\ UNCHANGED <<results, row, events, passPc, todo>>

Insert(h) ==
  /\ pc[h] = "insert"
  /\ results' = results \cup {[at |-> job[h].at, status |-> job[h].status]}
  /\ Goto(h, "update")
  /\ UNCHANGED <<clock, row, events, job, passPc, todo>>

UpdateCheck(h) ==
  /\ pc[h] = "update"
  /\ row' = [at |-> job[h].at, status |-> job[h].status]
  /\ Goto(h, "judge")
  /\ UNCHANGED <<clock, results, events, job, passPc, todo>>

\* evaluateAlertRules: the rule's last results, then its open event.
Judge(h) ==
  /\ pc[h] = "judge"
  /\ job' = [job EXCEPT ![h].failing = AllFailing]
  /\ Goto(h, "find")
  /\ UNCHANGED <<clock, results, row, events, passPc, todo>>

FindOpen(h) ==
  /\ pc[h] = "find"
  /\ job' = [job EXCEPT ![h].event = LatestOpen,
                        ![h].escalated = LatestOpen # 0 /\ events[LatestOpen].escalated]
  /\ Goto(h, "act")
  /\ UNCHANGED <<clock, results, row, events, passPc, todo>>

OpenEvent(h) ==
  /\ pc[h] = "act" /\ job[h].failing /\ job[h].event = 0
  /\ events' = Append(events, [open |-> TRUE, escalated |-> FALSE,
                               heard |-> [a \in Audiences |-> "nothing"]])
  /\ job' = [job EXCEPT ![h].event = Len(events) + 1]
  /\ Goto(h, "triggered")
  /\ UNCHANGED <<clock, results, row, passPc, todo>>

\* Mutated form of Recovered: an incident that has escalated is forgotten.
RecoveredFirstLevel(h) ==
  job[h].event # 0 /\ ~ job[h].escalated /\ job[h].status \notin {"down", "unknown"}

Recovered(h) == job[h].event # 0 /\ job[h].status \notin {"down", "unknown"}

ResolveEvent(h) ==
  /\ pc[h] = "act" /\ Recovered(h)
  /\ events' = [events EXCEPT ![job[h].event].open = FALSE]
  /\ Goto(h, "resolved")
  /\ UNCHANGED <<clock, results, row, job, passPc, todo>>

LeaveEvents(h) ==
  /\ pc[h] = "act"
  /\ ~ (job[h].failing /\ job[h].event = 0) /\ ~ Recovered(h)
  /\ Goto(h, "idle")
  /\ UNCHANGED <<clock, results, row, events, job, passPc, todo>>

NotifyNobody(h) ==           \* mutated form of Notify: the first message is not sent
  /\ pc[h] \in {"triggered", "resolved"}
  /\ IF pc[h] = "resolved" THEN Heard(job[h].event, Audience(job[h].escalated), pc[h]) ELSE events' = events
  /\ Goto(h, "idle")
  /\ UNCHANGED <<clock, results, row, job, passPc, todo>>

Notify(h) ==
  /\ pc[h] \in {"triggered", "resolved"}
  /\ Heard(job[h].event, Audience(job[h].escalated), pc[h])
  /\ Goto(h, "idle")
  /\ UNCHANGED <<clock, results, row, job, passPc, todo>>

-----------------------------------------------------------------------------
\* processOpenAlerts reads the open events once, then takes them one by one.
ReadOpen ==
  /\ Nagging /\ passPc = "idle" /\ OpenEvents # {}
  /\ todo' = { [event |-> i, escalated |-> events[i].escalated] : i \in OpenEvents }
  /\ passPc' = "next"
  /\ UNCHANGED <<handling, events>>

\* escalateAfterMinutes have passed: the row is marked, then the channels told.
MarkEscalated(e) ==
  /\ passPc = "next" /\ e \in todo /\ ~ e.escalated
  /\ events' = [events EXCEPT ![e.event].escalated = TRUE]
  /\ todo' = {e} \cup { d \in todo : d.event > e.event }
  /\ passPc' = "escalated"
  /\ UNCHANGED handling

MarkReminded(e) ==
  /\ passPc = "next" /\ e \in todo
  /\ todo' = {e} \cup { d \in todo : d.event > e.event }
  /\ passPc' = "reminder"
  /\ UNCHANGED <<handling, events>>

NotifyOpen(e) ==
  /\ passPc \in {"escalated", "reminder"} /\ e \in todo /\ \A d \in todo : e.event <= d.event
  /\ Heard(e.event, IF passPc = "escalated" THEN {"escalation"} ELSE Audience(e.escalated), passPc)
  /\ todo' = todo \ {e}
  /\ passPc' = "next"
  /\ UNCHANGED handling

\* Nothing (more) is due in this pass.
EndPass ==
  /\ passPc = "next"
  /\ todo' = {}
  /\ passPc' = "idle"
  /\ UNCHANGED <<handling, events>>

Next ==
  \/ \E h \in Handlers : \E status \in Reports : Receive(h, status)
  \/ \E h \in Handlers :
       \/ Insert(h) \/ UpdateCheck(h) \/ Judge(h) \/ FindOpen(h)
       \/ OpenEvent(h) \/ ResolveEvent(h) \/ LeaveEvents(h) \/ Notify(h)
  \/ ReadOpen
  \/ \E e \in todo : MarkEscalated(e) \/ MarkReminded(e) \/ NotifyOpen(e)
  \/ EndPass

Spec == Init /\ [][Next]_vars

-----------------------------------------------------------------------------
TypeOK ==
  /\ clock \in 0 .. MaxResults
  /\ results \subseteq [at : 1 .. clock, status : Reports]
  /\ row \in [at : 0 .. clock, status : Reports \cup {"none"}]
  /\ events \in Seq([open : BOOLEAN, escalated : BOOLEAN,
       heard : [Audiences -> {"nothing", "triggered", "escalated", "reminder", "resolved"}]])
  /\ pc \in [Handlers -> {"idle", "insert", "update", "judge", "find", "act", "triggered", "resolved"}]
  /\ job \in [Handlers -> [at : 0 .. clock, status : Reports \cup {"none"}, failing : BOOLEAN,
                           event : 0 .. Len(events), escalated : BOOLEAN]]
  /\ passPc \in {"idle", "next", "escalated", "reminder"}
  /\ todo \subseteq [event : 1 .. Len(events), escalated : BOOLEAN]

\* Once everything is handled, the rule has an open incident only if the newest
\* result does not say the check recovered.
ClosedAfterRecovery ==
  Quiet /\ results # {} /\ OpenEvents # {} =>
    \A x \in Newest(1) : x.status \in {"down", "unknown"}

\* No incident exists that nobody was told of.
NoSilentIncident ==
  Quiet => \A i \in DOMAIN events : events[i].heard["primary"] # "nothing"
=============================================================================
